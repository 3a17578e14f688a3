--------------------------- MODULE WasmInitProofs ---------------------------
(***************************************************************************)
(* For any set of calls of initWasm: the types of WasmInit, and that a     *)
(* varint survives its way through the memory when no call begins while    *)
(* another awaits its instance.                                            *)
(***************************************************************************)
EXTENDS WasmInit, TLAPS

\* Nothing was imported while there was no memory.
ImportsAreMemories == wasmMemory = None => \A c \in Calls : imports[c] = None

\* What a call is about to be instantiated with is the memory in use.
ImportsInUse == \A c \in Calls : pc[c] = "instantiating" => imports[c] = wasmMemory

SameMemory == IsWasmReady => wasmInstance = wasmMemory

IInv ==
  /\ TypeOK
  /\ ImportsAreMemories
  /\ orderly => ImportsInUse /\ SameMemory /\ VarintsSurvive

LEMMA InitWasmKeeps ==
  ASSUME IInv, NEW c \in Calls, InitWasm(c)
  PROVE  IInv'
<1> USE WasmInitAssumption
<1>1. TypeOK'
  BY DEF IInv, TypeOK, InitWasm
<1>2. ImportsAreMemories'
  BY DEF IInv, TypeOK, InitWasm, ImportsAreMemories
<1>3. ASSUME orderly'
      PROVE  ImportsInUse' /\ SameMemory' /\ VarintsSurvive'
  <2>1. /\ orderly /\ SameMemory /\ VarintsSurvive
        /\ \A d \in Calls : pc[d] # "instantiating"
    BY <1>3 DEF IInv, InitWasm
  <2>2. ImportsInUse'
    BY <2>1 DEF IInv, TypeOK, InitWasm, ImportsInUse
  <2>3. SameMemory'
    BY <2>1 DEF InitWasm, SameMemory, IsWasmReady
  <2>4. VarintsSurvive'
    BY <2>1 DEF InitWasm, VarintsSurvive
  <2>5. QED
    BY <2>2, <2>3, <2>4
<1>4. QED
  BY <1>1, <1>2, <1>3 DEF IInv

LEMMA SettleKeeps ==
  ASSUME IInv, NEW c \in Calls, Settle(c)
  PROVE  IInv'
<1> USE WasmInitAssumption
<1>1. TypeOK'
  BY DEF IInv, TypeOK, ImportsAreMemories, Settle, Fails, Compiled, Instantiated
<1>2. ImportsAreMemories'
  BY DEF IInv, TypeOK, ImportsAreMemories, Settle, Fails, Compiled, Instantiated
<1>3. ASSUME orderly'
      PROVE  ImportsInUse' /\ SameMemory' /\ VarintsSurvive'
  <2>1. orderly /\ ImportsInUse /\ SameMemory /\ VarintsSurvive
    BY <1>3 DEF IInv, Settle, Fails, Compiled, Instantiated
  <2>2. VarintsSurvive'
    BY <2>1 DEF VarintsSurvive, Settle, Fails, Compiled, Instantiated
  <2>3. CASE Fails(c)
    BY <2>1, <2>2, <2>3 DEF IInv, TypeOK, Fails, ImportsInUse, SameMemory, IsWasmReady
  <2>4. CASE Compiled(c)
    BY <2>1, <2>2, <2>4 DEF IInv, TypeOK, Compiled, ImportsInUse, SameMemory, IsWasmReady
  <2>5. CASE Instantiated(c)
    <3>1. wasmInstance' = wasmMemory'
      BY <2>1, <2>5 DEF Instantiated, ImportsInUse
    <3>2. ImportsInUse'
      BY <2>1, <2>5 DEF IInv, TypeOK, Instantiated, ImportsInUse
    <3>3. QED
      BY <2>2, <3>1, <3>2 DEF SameMemory
  <2>6. QED
    BY <2>3, <2>4, <2>5 DEF Settle
<1>4. QED
  BY <1>1, <1>2, <1>3 DEF IInv

LEMMA VarintKeeps ==
  ASSUME IInv, NEW d \in Data, WasmDecodeVarint(d) \/ WasmEncodeVarint(d)
  PROVE  IInv'
<1> USE WasmInitAssumption
<1>1. wasmInstance \in Calls /\ wasmMemory \in Calls
  BY DEF IInv, TypeOK, IsWasmReady, WasmDecodeVarint, WasmEncodeVarint
<1>2. UNCHANGED <<orderly, wasmInstance, wasmMemory, pc, imports>>
  BY DEF WasmDecodeVarint, WasmEncodeVarint
<1>3. contents' \in [Calls -> Data \cup {None}]
  BY <1>1 DEF IInv, TypeOK, WasmDecodeVarint, WasmEncodeVarint
<1>4. TypeOK' /\ ImportsAreMemories'
  BY <1>1, <1>2, <1>3
     DEF IInv, TypeOK, ImportsAreMemories, WasmDecodeVarint, WasmEncodeVarint
<1>5. orderly' => ImportsInUse' /\ SameMemory'
  BY <1>2 DEF IInv, ImportsInUse, SameMemory, IsWasmReady
<1>6. ASSUME orderly'
      PROVE  VarintsSurvive'
  <2>1. wasmInstance = wasmMemory
    BY <1>1, <1>2, <1>6 DEF IInv, SameMemory, IsWasmReady
  <2>2. QED
    BY <1>1, <2>1
       DEF IInv, TypeOK, VarintsSurvive, WasmDecodeVarint, WasmEncodeVarint
<1>7. QED
  BY <1>4, <1>5, <1>6 DEF IInv

LEMMA InductiveInvariant == Spec => []IInv
<1>1. Init => IInv
  BY WasmInitAssumption
     DEF Init, IInv, TypeOK, ImportsAreMemories, ImportsInUse, SameMemory, IsWasmReady,
         VarintsSurvive
<1>2. IInv /\ [Next]_vars => IInv'
  <2> SUFFICES ASSUME IInv, [Next]_vars
               PROVE  IInv'
    OBVIOUS
  <2>1. CASE Next
    BY <2>1, InitWasmKeeps, SettleKeeps, VarintKeeps DEF Next
  <2>2. CASE UNCHANGED vars
    BY <2>2 DEF vars, IInv, TypeOK, ImportsAreMemories, ImportsInUse, SameMemory,
                IsWasmReady, VarintsSurvive
  <2>3. QED
    BY <2>1, <2>2
<1>3. QED
  BY <1>1, <1>2, PTL DEF Spec

\* The variables of wasm.ts keep their types, and there is no instance without a
\* memory, however many calls of initWasm overlap and fail.
THEOREM WasmTypes == Spec => []TypeOK
<1>1. IInv => TypeOK
  BY DEF IInv
<1>2. QED
  BY <1>1, InductiveInvariant, PTL

\* However calls of initWasm overlap and fail, what goes through the memory comes out
\* of it as long as none of them begins while another awaits its instance.
THEOREM OrderlyUseIsSafe == Spec => []OrderlyVarintsSurvive
<1>1. IInv => OrderlyVarintsSurvive
  BY DEF IInv, OrderlyVarintsSurvive
<1>2. QED
  BY <1>1, InductiveInvariant, PTL
=============================================================================
