------------------------------ MODULE WasmInit ------------------------------
(***************************************************************************)
(* The WASM helpers of runtime/ts/src/wasm.ts: one instance and one memory *)
(* in the module's variables, made by an asynchronous initWasm that any    *)
(* part of a program may call, and wasmDecodeVarint and wasmEncodeVarint,  *)
(* which pass their bytes through the memory.                              *)
(*                                                                         *)
(* Every call of initWasm that gets past its first line makes a memory, so *)
(* a memory is named by its call.  An instance is the memory it imports.   *)
(* wasmMemory and wasmBuffer, a view of it, are set together and are one.  *)
(***************************************************************************)
EXTENDS Naturals

CONSTANTS
  Calls,  \* the calls of initWasm
  Data,   \* what is encoded or decoded
  None

ASSUME WasmInitAssumption == None \notin Calls /\ None \notin Data

VARIABLES
  orderly,       \* whether no initWasm begins while another awaits its instance
  wasmInstance,  \* the memory of the instance, or None
  wasmMemory,    \* the memory in use, or None
  pc,            \* where each call is
  imports,       \* per call: the memory passed to WebAssembly.instantiate
  contents,      \* what each memory holds
  last           \* the last data passed through: what was meant, what came out

vars == <<orderly, wasmInstance, wasmMemory, pc, imports, contents, last>>

Pending == {c \in Calls : pc[c] \in {"compiling", "instantiating"}}

\* isWasmReady(), and the first line of initWasm
IsWasmReady == wasmInstance # None

Init ==
  /\ orderly \in BOOLEAN
  /\ wasmInstance = None /\ wasmMemory = None
  /\ pc = [c \in Calls |-> "idle"]
  /\ imports = [c \in Calls |-> None]
  /\ contents = [c \in Calls |-> None]
  /\ last = [meant |-> None, got |-> None]

\* initWasm up to its first await.
InitWasm(c) ==
  /\ pc[c] = "idle"
  /\ orderly => \A d \in Calls : pc[d] # "instantiating"
  /\ IF IsWasmReady
     THEN pc' = [pc EXCEPT ![c] = "true"] /\ UNCHANGED wasmMemory
     ELSE pc' = [pc EXCEPT ![c] = "compiling"] /\ wasmMemory' = c
  /\ UNCHANGED <<orderly, wasmInstance, imports, contents, last>>

\* Mutant: a failure is tried again.
FailsRetrying(c) ==
  /\ c \in Pending
  /\ pc' = [pc EXCEPT ![c] = "compiling"]
  /\ UNCHANGED <<orderly, wasmInstance, wasmMemory, imports, contents, last>>

\* Mutant: a failure clears the memory, which may be that of another call.
FailsClearing(c) ==
  /\ c \in Pending
  /\ pc' = [pc EXCEPT ![c] = "false"] /\ wasmMemory' = None
  /\ UNCHANGED <<orderly, wasmInstance, imports, contents, last>>

\* compile or instantiate is rejected: caught, and false returned.
Fails(c) ==
  /\ c \in Pending
  /\ pc' = [pc EXCEPT ![c] = "false"]
  /\ UNCHANGED <<orderly, wasmInstance, wasmMemory, imports, contents, last>>

\* Mutant: a call imports the memory it made, which another may have replaced.
CompiledWithOwn(c) ==
  /\ pc[c] = "compiling"
  /\ pc' = [pc EXCEPT ![c] = "instantiating"]
  /\ imports' = [imports EXCEPT ![c] = c]
  /\ UNCHANGED <<orderly, wasmInstance, wasmMemory, contents, last>>

\* The module is compiled; env.memory is what wasmMemory is now.
Compiled(c) ==
  /\ pc[c] = "compiling"
  /\ pc' = [pc EXCEPT ![c] = "instantiating"]
  /\ imports' = [imports EXCEPT ![c] = wasmMemory]
  /\ UNCHANGED <<orderly, wasmInstance, wasmMemory, contents, last>>

Instantiated(c) ==
  /\ pc[c] = "instantiating"
  /\ pc' = [pc EXCEPT ![c] = "true"]
  /\ wasmInstance' = imports[c]
  /\ UNCHANGED <<orderly, wasmMemory, imports, contents, last>>

\* The data is copied to wasmBuffer; the instance decodes from its memory.
WasmDecodeVarint(d) ==
  /\ IsWasmReady
  /\ contents' = [contents EXCEPT ![wasmMemory] = d]
  /\ last' = [meant |-> d, got |-> contents'[wasmInstance]]
  /\ UNCHANGED <<orderly, wasmInstance, wasmMemory, pc, imports>>

\* The instance encodes to its memory; the bytes are taken from wasmBuffer.
WasmEncodeVarint(d) ==
  /\ IsWasmReady
  /\ contents' = [contents EXCEPT ![wasmInstance] = d]
  /\ last' = [meant |-> d, got |-> contents'[wasmMemory]]
  /\ UNCHANGED <<orderly, wasmInstance, wasmMemory, pc, imports>>

Settle(c) == Fails(c) \/ Compiled(c) \/ Instantiated(c)

Next ==
  \/ \E c \in Calls : InitWasm(c) \/ Settle(c)
  \/ \E d \in Data : WasmDecodeVarint(d) \/ WasmEncodeVarint(d)

Spec == Init /\ [][Next]_vars

\* The engine settles every promise it gave.
FairSpec == Spec /\ \A c \in Calls : WF_vars(Settle(c))

-----------------------------------------------------------------------------
\* The types of the variables; there is an instance only when there is a memory.
TypeOK ==
  /\ orderly \in BOOLEAN
  /\ wasmInstance \in Calls \cup {None} /\ wasmMemory \in Calls \cup {None}
  /\ wasmMemory = None => wasmInstance = None
  /\ pc \in [Calls -> {"idle", "compiling", "instantiating", "true", "false"}]
  /\ imports \in [Calls -> Calls \cup {None}]
  /\ contents \in [Calls -> Data \cup {None}]
  /\ last \in [meant : Data \cup {None}, got : Data \cup {None}]

\* A varint passed through the memory is the one that was meant ("Copy data to
\* WASM memory (starting at offset 0)", wasm.ts:97).
VarintsSurvive == last.got = last.meant

\* They survive, whatever fails and however calls of initWasm overlap, as long as
\* none begins while another awaits its instance (wasm.ts:42): each imports the
\* memory in use when it was compiled, which only a later call replaces.  A call that
\* begins then may leave the instance of one and the memory of another.
OrderlyVarintsSurvive == orderly => VarintsSurvive

\* Every call of initWasm returns: a rejected promise is caught (wasm.ts:46).
EveryInitReturns == \A c \in Calls : pc[c] = "compiling" ~> pc[c] \in {"true", "false"}
=============================================================================
