------------------------------ MODULE CProofs ------------------------------
(***************************************************************************)
(* The C encoder and the generated C marshal functions, for any SIZE_MAX   *)
(* and whichever allocations fail.                                         *)
(*                                                                         *)
(* The first part is about the operators of CEncoder: one that is within   *)
(* its block stays so, although sums and doubled capacities may wrap       *)
(* around.                                                                 *)
(*                                                                         *)
(* The second part is the promises of xpb.h, for any lengths and any order *)
(* of calls: no write past the block, and all or nothing from              *)
(* xpb_encoder_finish.  That holds because, as long as the error is not    *)
(* latched, what is stored and what is left of the call in progress are    *)
(* what was asked for (Progress).  That NULL without an error means an     *)
(* empty encoder needs a little more: every call starts with a piece that  *)
(* is not empty.                                                           *)
(*                                                                         *)
(* The third part is about T_marshal: it neither leaks nor writes past a   *)
(* block, and gives the message or loses whole messages of it, for any     *)
(* message types.  Inv is an account of the blocks: two for each call in   *)
(* progress, one for the nested_data of the innermost, one for the caller. *)
(* It needs that the calls below the innermost wait at a nested message    *)
(* and hold no data of their own.  On top of it, DataInv says what each    *)
(* call has written: with the rest of its field, the message up to its     *)
(* next field.                                                             *)
(***************************************************************************)
EXTENDS CMarshal, CEncoderUse, WellFoundedInduction, TLAPS

-----------------------------------------------------------------------------
(* The operators of CEncoder.                                              *)

\* Arithmetic of size_t, as far as it matters.
LEMMA SizeTInRange == \A n \in Nat : SizeT(n) \in Sizes
BY CEncoderAssumption DEF SizeT, Sizes

LEMMA SizeTExact == \A n \in Sizes : SizeT(n) = n
BY CEncoderAssumption DEF SizeT, Sizes

\* The new capacity holds what is needed, whether or not doubling wrapped.
LEMMA GrownIsEnough ==
  ASSUME NEW e, IsEncoder(e), NEW needed \in Nat, needed <= SizeMax - e.pos
  PROVE  Grown(e, needed) \in Sizes /\ e.pos + needed <= Grown(e, needed)
<1>1. /\ e.pos + needed \in Sizes /\ e.capacity * 2 \in Nat
  BY CEncoderAssumption DEF IsEncoder, Sizes
<1>2. SizeT(e.pos + needed) = e.pos + needed /\ SizeT(e.capacity * 2) \in Sizes
  BY <1>1, SizeTInRange, SizeTExact
<1> QED
  BY <1>1, <1>2 DEF Grown, Sizes

\* An encoder is created within its block.
LEMMA CreatedInBlock ==
  ASSUME NEW initial \in Sizes
  PROVE  /\ IsEncoder(Created(initial)) /\ InBlock(Created(initial))
         /\ ~Created(initial).error /\ Created(initial).stored = <<>>
BY CEncoderAssumption DEF IsEncoder, InBlock, Created, Sizes

LEMMA LatchedInBlock ==
  ASSUME NEW e, IsEncoder(e), InBlock(e)
  PROVE  /\ IsEncoder(Latched(e)) /\ InBlock(Latched(e))
         /\ Latched(e).error /\ Latched(e).stored = e.stored
BY DEF IsEncoder, InBlock, Latched

LEMMA ResetInBlock ==
  ASSUME NEW e, IsEncoder(e), InBlock(e)
  PROVE  /\ IsEncoder(Reset(e)) /\ InBlock(Reset(e))
         /\ ~Reset(e).error /\ Reset(e).stored = <<>>
<1>1. 0 \in Sizes
  BY CEncoderAssumption DEF Sizes
<1>2. /\ Reset(e).pos = 0 /\ ~Reset(e).error /\ Reset(e).stored = <<>>
      /\ Reset(e).capacity = e.capacity /\ Reset(e).block = e.block
  BY DEF IsEncoder, Reset
<1>3. Reset(e) \in [block : Sizes, capacity : Sizes, pos : Sizes, error : BOOLEAN,
                    stored : {<<>>}]
  BY <1>1 DEF IsEncoder, Reset
<1> QED
  BY <1>2, <1>3 DEF InBlock, IsEncoder, Sizes

\* xpb_encoder_ensure_capacity makes room or latches the error.
LEMMA EnsureCapacityMakesRoom ==
  ASSUME NEW e, IsEncoder(e), InBlock(e), NEW needed \in Nat,
         NEW f \in EnsureCapacity(e, needed)
  PROVE  /\ IsEncoder(f) /\ InBlock(f)
         /\ f.stored = e.stored /\ f.pos = e.pos /\ (e.error => f = e)
         /\ ~f.error => f.pos + needed <= f.capacity
<1>1. CASE e.error
  BY <1>1 DEF EnsureCapacity
<1>2. CASE ~e.error /\ needed > SizeMax - e.pos
  BY <1>2, LatchedInBlock DEF EnsureCapacity, Latched, IsEncoder
<1>3. CASE ~e.error /\ needed <= SizeMax - e.pos
  <2>1. e.pos + needed \in Sizes
    BY <1>3, CEncoderAssumption DEF IsEncoder, Sizes
  <2>2. SizeT(e.pos + needed) = e.pos + needed
    BY <2>1, SizeTExact
  <2>3. CASE e.pos + needed <= e.capacity
    BY <1>3, <2>2, <2>3, CEncoderAssumption DEF EnsureCapacity, IsEncoder, Sizes
  <2>4. CASE ~(e.pos + needed <= e.capacity) /\ f = Latched(e)
    BY <2>4, <1>3, LatchedInBlock DEF Latched, IsEncoder
  <2>5. CASE ~(e.pos + needed <= e.capacity) /\ f = Reallocated(e, needed)
    <3>1. Grown(e, needed) \in Sizes /\ e.pos + needed <= Grown(e, needed)
      BY <1>3, GrownIsEnough
    <3>2. /\ f.capacity = Grown(e, needed) /\ f.block = Grown(e, needed)
          /\ f.pos = e.pos /\ f.stored = e.stored /\ f.error = e.error
          /\ IsEncoder(f)
      BY <2>5, <3>1 DEF Reallocated, IsEncoder
    <3> QED
      BY <1>3, <3>1, <3>2, CEncoderAssumption DEF InBlock, IsEncoder, Sizes
  <2> QED
    BY <1>3, <2>2, <2>3, <2>4, <2>5, CEncoderAssumption DEF EnsureCapacity, IsEncoder, Sizes
<1> QED
  BY <1>1, <1>2, <1>3, CEncoderAssumption DEF IsEncoder, Sizes

\* A write stays within the block, and either happens or latches the error.
LEMMA PutInBlock ==
  ASSUME NEW e, IsEncoder(e), InBlock(e), NEW piece, piece.size \in Nat,
         NEW f \in Put(e, piece)
  PROVE  /\ IsEncoder(f) /\ InBlock(f)
         /\ f.error => f.stored = e.stored
         /\ ~f.error => ~e.error /\ f.stored = Append(e.stored, piece)
                                /\ f.pos = e.pos + piece.size
<1>1. PICK g \in EnsureCapacity(e, piece.size) :
        f = IF g.error THEN g ELSE Stored(g, piece)
  BY DEF Put
<1>2. /\ IsEncoder(g) /\ InBlock(g)
      /\ g.stored = e.stored /\ g.pos = e.pos /\ (e.error => g = e)
      /\ ~g.error => g.pos + piece.size <= g.capacity
  BY EnsureCapacityMakesRoom
<1>3. CASE g.error
  BY <1>1, <1>2, <1>3
<1>4. CASE ~g.error
  <2>1. f = Stored(g, piece) /\ g.pos + piece.size \in Sizes
    BY <1>1, <1>2, <1>4, CEncoderAssumption DEF IsEncoder, InBlock, Sizes
  <2>2. /\ f.pos = g.pos + piece.size /\ f.stored = Append(g.stored, piece)
        /\ f.capacity = g.capacity /\ f.block = g.block /\ f.error = g.error
        /\ IsEncoder(f)
    BY <1>2, <2>1 DEF Stored, IsEncoder
  <2> QED
    BY <1>2, <1>4, <2>2 DEF InBlock
<1> QED
  BY <1>3, <1>4

\* xpb_encoder_finish gives what is stored, or nothing.
LEMMA FinishGives ==
  ASSUME NEW e, IsEncoder(e), InBlock(e), NEW f \in Finish(e)
  PROVE  /\ IsEncoder(f.enc) /\ InBlock(f.enc) /\ f.enc.stored = e.stored
         /\ f.data.null \in BOOLEAN
         /\ e.error => f.enc.error
         /\ f.data.null => f.data = NoData /\ (f.enc.error \/ e.pos = 0)
         /\ ~f.data.null => f.enc = e /\ ~e.error /\ e.pos # 0 /\ f.data = Copy(e)
<1>1. CASE e.error \/ e.pos = 0
  <2>1. f = [enc |-> e, data |-> NoData]
    BY <1>1 DEF Finish
  <2>2. f.enc = e /\ f.data = NoData /\ f.data.null = TRUE
    BY <2>1 DEF NoData
  <2> QED
    BY <1>1, <2>2
<1>2. CASE ~(e.error \/ e.pos = 0) /\ f = [enc |-> Latched(e), data |-> NoData]
  <2>1. f.enc = Latched(e) /\ f.data = NoData /\ f.data.null = TRUE
    BY <1>2 DEF NoData
  <2> QED
    BY <2>1, LatchedInBlock
<1>3. CASE ~(e.error \/ e.pos = 0) /\ f = [enc |-> e, data |-> Copy(e)]
  <2>1. f.enc = e /\ f.data = Copy(e) /\ f.data.null = FALSE
    BY <1>3 DEF Copy
  <2> QED
    BY <1>3, <2>1
<1> QED
  BY <1>1, <1>2, <1>3 DEF Finish

-----------------------------------------------------------------------------
(* A program that uses one encoder.                                        *)

\* What is stored and what is left to write is what was asked for.
Progress ==
  Live /\ ~enc.error => enc.stored \o todo = asked

StartsNonEmpty ==
  Live /\ ~enc.error =>
    IF enc.stored = <<>> THEN todo # <<>> => Head(todo).size > 0 ELSE enc.pos > 0

EncoderInv ==
  /\ EncoderTypeOK /\ EncoderInBounds /\ FinishReports
  /\ Progress /\ StartsNonEmpty
  /\ ~Live => todo = <<>>

-----------------------------------------------------------------------------
\* A call is a sequence of pieces, of which the first is not empty.
LEMMA CallsStartNonEmpty ==
  ASSUME NEW call \in Calls
  PROVE  call \in Seq(Pieces) /\ call # <<>> /\ Head(call).size > 0
<1>1. ASSUME NEW n \in Nat
      PROVE  Piece("fixed", n) \in Pieces /\ Piece("bytes", n) \in Pieces
  BY <1>1 DEF Piece, Pieces
<1>2. ASSUME NEW n \in {1, 4, 8}
      PROVE  FixedWrite(n) \in Seq(Pieces) /\ FixedWrite(n) # <<>> /\ Head(FixedWrite(n)).size > 0
  <2>1. Piece("fixed", n) \in Pieces /\ Piece("fixed", n).size = n
    BY <1>1 DEF Piece
  <2> QED
    BY <2>1 DEF FixedWrite
<1>3. ASSUME NEW n \in Lengths
      PROVE  LET b == Bytes(Piece("bytes", n))
             IN  b \in Seq(Pieces) /\ b # <<>> /\ Head(b).size > 0
  <2> DEFINE body == Piece("bytes", n)
             k == IF body.size <= CompactLengthThreshold THEN 1 ELSE 5
             prefix == LengthPrefix(body.size)
  <2>1. n \in Nat /\ body \in Pieces /\ body.size = n
    <3>1. n \in Nat
      BY CEncoderUseAssumption, CEncoderAssumption DEF Sizes
    <3>2. body.size = n
      BY DEF Piece
    <3> QED
      BY <1>1, <3>1, <3>2
  <2>2. n % (LengthMax + 1) \in Nat
    BY <2>1, CEncoderAssumption
  <2>3. prefix = [of |-> "length", tells |-> n % (LengthMax + 1), holds |-> <<>>, size |-> k]
    BY <2>1 DEF LengthPrefix, Piece
  <2>4. prefix \in Pieces /\ prefix.size > 0
    BY <2>2, <2>3 DEF Pieces
  <2> HIDE DEF prefix, body
  <2>5. <<prefix, body>> \in Seq(Pieces) /\ Head(<<prefix, body>>) = prefix
    BY <2>1, <2>4
  <2> QED
    BY <2>4, <2>5 DEF Bytes, prefix, body
<1>4. ArrayWrite(2, 8) \in Seq(Pieces) /\ ArrayWrite(2, 8) # <<>> /\ Head(ArrayWrite(2, 8)).size > 0
  <2>1. [i \in 1..2 |-> Piece("fixed", 8)] \in Seq(Pieces)
    BY <1>1
  <2>2. FixedWrite(4) \in Seq(Pieces) /\ Len(FixedWrite(4)) = 1 /\ FixedWrite(4)[1].size = 4
    BY <1>2 DEF FixedWrite, Piece
  <2> DEFINE a == FixedWrite(4) \o [i \in 1..2 |-> Piece("fixed", 8)]
  <2>3. a \in Seq(Pieces) /\ Len(a) = 3 /\ a[1] = FixedWrite(4)[1]
    BY <2>1, <2>2
  <2> QED
    BY <2>2, <2>3 DEF ArrayWrite
<1> QED
  BY <1>2, <1>3, <1>4 DEF Calls

-----------------------------------------------------------------------------
LEMMA CreateKeepsInv ==
  ASSUME EncoderInv, NEW c \in Capacities, Create(c)
  PROVE  EncoderInv'
<1>1. /\ ~Live /\ todo' = <<>> /\ asked' = <<>> /\ last' = Nothing
      /\ enc' \in {Nothing, Created(c)}
  BY DEF Create, EncoderInv
<1>2. /\ IsEncoder(Created(c)) /\ InBlock(Created(c))
      /\ ~Created(c).error /\ Created(c).stored = <<>>
  BY CreatedInBlock, CEncoderUseAssumption
<1>3. /\ enc' # Nothing => IsEncoder(enc') /\ InBlock(enc') /\ enc'.stored = <<>>
      /\ todo' \in Seq(Pieces) /\ asked' \in Seq(Pieces)
  BY <1>1, <1>2
<1>4. EncoderTypeOK' /\ EncoderInBounds' /\ FinishReports'
  <2>1. enc' # Nothing => enc'.stored \in Seq(Pieces)
    <3>1. <<>> \in Seq(Pieces)
      OBVIOUS
    <3> QED
      BY <1>3, <3>1
  <2> QED
    BY <1>1, <1>3, <2>1 DEF EncoderTypeOK, EncoderInBounds, FinishReports, Live
<1>5. Progress' /\ StartsNonEmpty'
  BY <1>1, <1>3 DEF Progress, StartsNonEmpty, Live
<1> QED
  BY <1>1, <1>4, <1>5 DEF EncoderInv

LEMMA WriteKeepsInv ==
  ASSUME EncoderInv, NEW call \in Calls, Write(call)
  PROVE  EncoderInv'
<1>1. /\ Live /\ todo = <<>> /\ todo' = call /\ asked' = asked \o call
      /\ enc' = enc /\ last' = Nothing
  BY DEF Write
<1>2. call \in Seq(Pieces) /\ call # <<>> /\ Head(call).size > 0
  BY CallsStartNonEmpty
<1>3. /\ IsEncoder(enc) /\ InBlock(enc) /\ enc.stored \in Seq(Pieces)
      /\ asked \in Seq(Pieces)
  BY <1>1 DEF EncoderInv, EncoderTypeOK, EncoderInBounds, Live
<1>4. ~enc.error => enc.stored = asked
  BY <1>1, <1>3 DEF EncoderInv, Progress
<1>5. EncoderTypeOK' /\ EncoderInBounds' /\ FinishReports'
  BY <1>1, <1>2, <1>3 DEF EncoderTypeOK, EncoderInBounds, FinishReports, Live
<1>6. Progress' /\ StartsNonEmpty'
  BY <1>1, <1>2, <1>4 DEF EncoderInv, Progress, StartsNonEmpty, Live
<1> QED
  BY <1>1, <1>5, <1>6 DEF EncoderInv, Live

LEMMA WriteNullKeepsInv ==
  ASSUME EncoderInv, WriteNull
  PROVE  EncoderInv'
<1>1. /\ Live /\ todo' = <<>> /\ asked' = Append(asked, Piece("null", 0))
      /\ enc' = Latched(enc) /\ last' = Nothing
  BY DEF WriteNull
<1>2. /\ IsEncoder(enc) /\ InBlock(enc) /\ enc.stored \in Seq(Pieces)
      /\ asked \in Seq(Pieces)
  BY <1>1 DEF EncoderInv, EncoderTypeOK, EncoderInBounds, Live
<1>3. /\ IsEncoder(enc') /\ InBlock(enc') /\ enc'.error /\ enc'.stored = enc.stored
  BY <1>1, <1>2, LatchedInBlock
<1>4. asked' \in Seq(Pieces) /\ todo' \in Seq(Pieces)
  BY <1>1, <1>2 DEF Piece, Pieces
<1> QED
  BY <1>1, <1>2, <1>3, <1>4
     DEF EncoderInv, EncoderTypeOK, EncoderInBounds, FinishReports, Progress, StartsNonEmpty, Live

\* What ends with an element is not empty.
LEMMA AppendNotEmpty ==
  ASSUME NEW S, NEW s \in Seq(S), NEW x \in S
  PROVE  Append(s, x) # <<>>
<1>1. Len(Append(s, x)) = Len(s) + 1 /\ Len(s) \in Nat
  OBVIOUS
<1> QED
  BY <1>1

LEMMA PutPieceKeepsInv ==
  ASSUME EncoderInv, PutPiece
  PROVE  EncoderInv'
<1> DEFINE piece == Head(todo)
<1>1. /\ Live /\ todo # <<>> /\ todo' = Tail(todo) /\ asked' = asked
      /\ enc' \in Put(enc, piece) /\ last' = Nothing
  BY DEF PutPiece, EncoderInv
<1>2. /\ IsEncoder(enc) /\ InBlock(enc) /\ enc.stored \in Seq(Pieces)
      /\ asked \in Seq(Pieces) /\ todo \in Seq(Pieces)
  BY <1>1 DEF EncoderInv, EncoderTypeOK, EncoderInBounds, Live
<1>3. piece \in Pieces /\ piece.size \in Nat /\ todo' \in Seq(Pieces)
  <2>1. piece \in Pieces /\ Tail(todo) \in Seq(Pieces)
    BY <1>1, <1>2
  <2> HIDE DEF piece
  <2> QED
    BY <1>1, <2>1 DEF Pieces
<1>4. /\ IsEncoder(enc') /\ InBlock(enc')
      /\ enc'.error => enc'.stored = enc.stored
      /\ ~enc'.error => ~enc.error /\ enc'.stored = Append(enc.stored, piece)
  BY <1>1, <1>2, <1>3, PutInBlock
<1>5. enc'.stored \in Seq(Pieces)
  <2>1. CASE enc'.error
    BY <1>2, <1>4, <2>1
  <2>2. CASE ~enc'.error
    <3> HIDE DEF piece
    <3>1. Append(enc.stored, piece) \in Seq(Pieces)
      BY <1>2, <1>3
    <3> QED
      BY <1>4, <2>2, <3>1
  <2> QED
    BY <2>1, <2>2
<1>6. ASSUME ~enc'.error
      PROVE  enc'.stored \o todo' = asked' /\ enc'.stored # <<>>
  <2>1. enc.stored \o todo = asked
    BY <1>1, <1>4, <1>6 DEF EncoderInv, Progress
  <2>2. Append(enc.stored, piece) \o Tail(todo) = enc.stored \o todo
    BY <1>1, <1>2, SMTT(30)
  <2>3. Append(enc.stored, piece) # <<>>
    BY <1>2, <1>3, AppendNotEmpty, Zenon
  <2> QED
    BY <1>1, <1>4, <1>6, <2>1, <2>2, <2>3
<1>7. ASSUME ~enc'.error
      PROVE  enc'.pos > 0
  <2>1. PICK g \in EnsureCapacity(enc, piece.size) : ~g.error /\ enc' = Stored(g, piece)
    BY <1>1, <1>7 DEF Put
  <2>2. g.pos = enc.pos /\ IsEncoder(g)
    BY <1>2, <1>3, <2>1, EnsureCapacityMakesRoom
  <2>3. enc'.pos = enc.pos + piece.size
    BY <2>1, <2>2 DEF Stored, IsEncoder
  <2>4. enc.pos > 0 \/ piece.size > 0
    BY <1>1, <1>4, <1>7 DEF EncoderInv, StartsNonEmpty
  <2> QED
    BY <1>2, <1>3, <2>3, <2>4, CEncoderAssumption DEF IsEncoder, Sizes
<1>8. EncoderTypeOK' /\ EncoderInBounds' /\ FinishReports'
  BY <1>1, <1>2, <1>3, <1>4, <1>5 DEF EncoderTypeOK, EncoderInBounds, FinishReports
<1>9. Progress' /\ StartsNonEmpty' /\ (~Live' => todo' = <<>>)
  <2>1. enc' # Nothing
    BY <1>4 DEF IsEncoder, Nothing
  <2> QED
    BY <1>6, <1>7, <2>1 DEF Progress, StartsNonEmpty, Live
<1> QED
  BY <1>8, <1>9 DEF EncoderInv

LEMMA CallFinishKeepsInv ==
  ASSUME EncoderInv, CallFinish
  PROVE  EncoderInv'
<1>1. PICK f \in Finish(enc) :
        /\ enc' = f.enc /\ Live /\ todo = <<>> /\ todo' = todo /\ asked' = asked
        /\ last' = [data |-> f.data, ok |-> ~f.enc.error, asked |-> asked]
  BY DEF CallFinish
<1>2. /\ IsEncoder(enc) /\ InBlock(enc) /\ enc.stored \in Seq(Pieces)
      /\ asked \in Seq(Pieces) /\ todo \in Seq(Pieces)
  BY <1>1 DEF EncoderInv, EncoderTypeOK, EncoderInBounds, Live
<1>3. /\ IsEncoder(f.enc) /\ InBlock(f.enc) /\ f.enc.stored = enc.stored
      /\ f.data.null \in BOOLEAN
      /\ enc.error => f.enc.error
      /\ f.data.null => f.data = NoData /\ (f.enc.error \/ enc.pos = 0)
      /\ ~f.data.null => f.enc = enc /\ ~enc.error /\ f.data = Copy(enc)
  BY <1>2, FinishGives
<1>4. ~enc.error => enc.stored = asked
  BY <1>1, <1>2 DEF EncoderInv, Progress
<1>5. ~enc.error /\ enc.pos = 0 => asked = <<>>
  BY <1>1, <1>4 DEF EncoderInv, StartsNonEmpty
<1>6. f.data \in {NoData} \cup [null : {FALSE}, stored : Seq(Pieces), len : Nat]
  <2>1. Copy(enc) \in [null : {FALSE}, stored : Seq(Pieces), len : Nat]
    BY <1>2, CEncoderAssumption DEF Copy, IsEncoder, Sizes
  <2> QED
    BY <1>3, <2>1
<1>7. EncoderTypeOK'
  <2>1. (~f.enc.error) \in BOOLEAN
    OBVIOUS
  <2> QED
    BY <1>1, <1>2, <1>3, <1>6, <2>1 DEF EncoderTypeOK
<1>8. FinishReports'
  <2>1. last'.data = f.data /\ last'.ok = ~f.enc.error /\ last'.asked = asked
    BY <1>1
  <2>2. CASE f.data.null
    BY <1>3, <1>5, <2>1, <2>2 DEF FinishReports
  <2>3. CASE ~f.data.null
    <3>1. f.data.stored = enc.stored
      BY <1>3, <2>3 DEF Copy
    <3> QED
      BY <1>3, <1>4, <2>1, <2>3, <3>1 DEF FinishReports
  <2> QED
    BY <2>2, <2>3
<1>9. f.enc.pos = enc.pos
  BY <1>2 DEF Finish, Latched, IsEncoder
<1>10. EncoderInBounds' /\ Progress' /\ StartsNonEmpty' /\ (~Live' => todo' = <<>>)
  BY <1>1, <1>3, <1>9 DEF EncoderInv, EncoderInBounds, Progress, StartsNonEmpty, Live
<1> QED
  BY <1>7, <1>8, <1>10 DEF EncoderInv

LEMMA ResetKeepsInv ==
  ASSUME EncoderInv, CallReset
  PROVE  EncoderInv'
<1>1. /\ Live /\ todo = <<>> /\ todo' = <<>> /\ asked' = <<>>
      /\ enc' = Reset(enc) /\ last' = Nothing
  BY DEF CallReset
<1>2. IsEncoder(enc) /\ InBlock(enc)
  BY <1>1 DEF EncoderInv, EncoderTypeOK, EncoderInBounds, Live
<1>3. IsEncoder(enc') /\ InBlock(enc') /\ enc'.stored = <<>>
  BY <1>1, <1>2, ResetInBlock
<1>4. asked' \in Seq(Pieces) /\ todo' \in Seq(Pieces)
  BY <1>1
<1> QED
  BY <1>1, <1>3, <1>4
     DEF EncoderInv, EncoderTypeOK, EncoderInBounds, FinishReports, Progress, StartsNonEmpty, Live

LEMMA DestroyKeepsInv ==
  ASSUME EncoderInv, Destroy
  PROVE  EncoderInv'
BY DEF Destroy, EncoderInv, EncoderTypeOK, EncoderInBounds, FinishReports, Progress, StartsNonEmpty, Live

LEMMA EncoderInvHolds == EncoderSpec => []EncoderInv
<1>1. EncoderInit => EncoderInv
  BY DEF EncoderInit, EncoderInv, EncoderTypeOK, EncoderInBounds, FinishReports, Progress, StartsNonEmpty, Live
<1>2. EncoderInv /\ [EncoderNext]_encoderVars => EncoderInv'
  <2> SUFFICES ASSUME EncoderInv, [EncoderNext]_encoderVars PROVE EncoderInv'
    OBVIOUS
  <2>1. CASE UNCHANGED encoderVars
    BY <2>1 DEF encoderVars, EncoderInv, EncoderTypeOK, EncoderInBounds, FinishReports, Progress, StartsNonEmpty, Live
  <2>2. CASE EncoderNext
    BY <2>2, CreateKeepsInv, WriteKeepsInv, WriteNullKeepsInv, PutPieceKeepsInv,
       CallFinishKeepsInv, ResetKeepsInv, DestroyKeepsInv DEF EncoderNext
  <2> QED
    BY <2>1, <2>2
<1> QED
  BY <1>1, <1>2, PTL DEF EncoderSpec

\* The variables keep their types; in particular pos and capacity never exceed
\* SIZE_MAX.
THEOREM EncoderTypesHold == EncoderSpec => []EncoderTypeOK
<1>1. EncoderInv => EncoderTypeOK
  BY DEF EncoderInv
<1> QED
  BY <1>1, EncoderInvHolds, PTL

\* xpb_encoder_write_* never writes past the block that realloc gave.
THEOREM EncoderInBoundsHolds == EncoderSpec => []EncoderInBounds
<1>1. EncoderInv => EncoderInBounds
  BY DEF EncoderInv
<1> QED
  BY <1>1, EncoderInvHolds, PTL

\* xpb_encoder_finish returns all that was written since the last reset, or
\* NULL; and NULL with xpb_encoder_ok means that nothing was.
THEOREM FinishReportsHolds == EncoderSpec => []FinishReports
<1>1. EncoderInv => FinishReports
  BY DEF EncoderInv
<1> QED
  BY <1>1, EncoderInvHolds, PTL

-----------------------------------------------------------------------------
(* Generated marshal functions.                                            *)

IsSequence(s) == \E S : s \in Seq(S)

\* What is left to write, and how long each piece is.
Sized(t) == IsSequence(t) /\ \A i \in 1..Len(t) : t[i].size \in Nat

FrameOK(f) ==
  /\ f \in [type : Types, next : Nat, enc : {f.enc}, todo : {f.todo}, nested : BOOLEAN]
  /\ f.next \in 1..Len(Fields[f.type]) + 1
  /\ IsEncoder(f.enc) /\ InBlock(f.enc)
  /\ Sized(f.todo)

\* A call that waits for the message nested in its own.
Waits(f) == ~f.nested /\ f.next \in DOMAIN Fields[f.type]

Good(s) ==
  /\ IsSequence(s)
  /\ \A i \in 1..Len(s) : FrameOK(s[i])
  /\ \A i \in 1..Len(s) - 1 : Waits(s[i])

HeldBy(s) == IF s # <<>> /\ s[Len(s)].nested THEN 1 ELSE 0
Kept(r) == IF r # None /\ ~r.data.null THEN 1 ELSE 0

Inv ==
  /\ Good(stack)
  /\ failed \in BOOLEAN
  /\ result # None => result.type \in Types /\ result.data.null \in BOOLEAN
  /\ Running => result = None
  /\ blocks = 2 * Depth + HeldBy(stack) + Kept(result)

-----------------------------------------------------------------------------
\* The stack of calls grows, changes at its top, and shrinks.
LEMMA PushGood ==
  ASSUME NEW s, Good(s), s # <<>> => Waits(s[Len(s)]), NEW f, FrameOK(f)
  PROVE  /\ Good(Append(s, f)) /\ Len(Append(s, f)) = Len(s) + 1
         /\ Append(s, f)[Len(s) + 1] = f /\ Append(s, f) # <<>> /\ Len(s) \in Nat
<1>1. PICK S : s \in Seq(S)
  BY DEF Good, IsSequence
<1> DEFINE t == Append(s, f)
<1>2. s \in Seq(S \cup {f}) /\ Len(s) \in Nat
  BY <1>1
<1>3. /\ t \in Seq(S \cup {f}) /\ Len(t) = Len(s) + 1 /\ t[Len(s) + 1] = f /\ t # <<>>
      /\ \A i \in 1..Len(s) : t[i] = s[i]
  <2> DEFINE A == S \cup {f}
  <2>1. f \in A /\ s \in Seq(A)
    BY <1>2
  <2> HIDE DEF A
  <2>2. t \in Seq(A) /\ Len(t) = Len(s) + 1 /\ t[Len(s) + 1] = f
    BY <2>1
  <2>3. \A i \in 1..Len(s) : t[i] = s[i]
    BY <2>1
  <2>4. t # <<>>
    BY <1>2, <2>2
  <2> QED
    BY <2>2, <2>3, <2>4 DEF A
<1> HIDE DEF t
<1>4. \A i \in 1..Len(t) : FrameOK(t[i])
  BY <1>2, <1>3 DEF Good
<1>5. \A i \in 1..Len(t) - 1 : Waits(t[i])
  <2>1. s = <<>> \/ Len(s) \in 1..Len(s)
    BY <1>2
  <2> QED
    BY <1>2, <1>3, <2>1 DEF Good
<1>6. IsSequence(t)
  BY <1>3 DEF IsSequence
<1> QED
  BY <1>2, <1>3, <1>4, <1>5, <1>6 DEF Good, t

LEMMA ReplaceGood ==
  ASSUME NEW s, Good(s), s # <<>>, NEW f, FrameOK(f)
  PROVE  LET t == [s EXCEPT ![Len(s)] = f]
         IN  Good(t) /\ Len(t) = Len(s) /\ t[Len(t)] = f /\ t # <<>>
<1>1. PICK S : s \in Seq(S)
  BY DEF Good, IsSequence
<1> DEFINE t == [s EXCEPT ![Len(s)] = f]
<1>2. s \in Seq(S \cup {f}) /\ Len(s) \in Nat /\ Len(s) \in 1..Len(s)
  BY <1>1
<1>3. /\ t \in Seq(S \cup {f}) /\ Len(t) = Len(s) /\ t[Len(s)] = f
      /\ \A i \in 1..Len(s) : i # Len(s) => t[i] = s[i]
  BY <1>2
<1> HIDE DEF t
<1>4. t # <<>>
  BY <1>2, <1>3
<1>5. \A i \in 1..Len(t) : FrameOK(t[i])
  BY <1>3 DEF Good
<1>6. \A i \in 1..Len(t) - 1 : Waits(t[i])
  BY <1>2, <1>3 DEF Good
<1>7. IsSequence(t)
  BY <1>3 DEF IsSequence
<1>8. Good(t) /\ Len(t) = Len(s) /\ t[Len(t)] = f /\ t # <<>>
  BY <1>3, <1>4, <1>5, <1>6, <1>7 DEF Good
<1> QED
  BY <1>8 DEF t

LEMMA PopGood ==
  ASSUME NEW s, Good(s), s # <<>>
  PROVE  LET t == SubSeq(s, 1, Len(s) - 1)
         IN  /\ Good(t) /\ Len(t) = Len(s) - 1 /\ Len(s) \in Nat
             /\ t # <<>> => Waits(t[Len(t)])
<1>1. PICK S : s \in Seq(S)
  BY DEF Good, IsSequence
<1> DEFINE t == SubSeq(s, 1, Len(s) - 1)
<1>2. Len(s) \in Nat /\ Len(s) > 0
  BY <1>1
<1>3. /\ t \in Seq(S) /\ Len(t) = Len(s) - 1
      /\ \A i \in 1..Len(s) - 1 : t[i] = s[i]
  BY <1>1, <1>2
<1> HIDE DEF t
<1>4. \A i \in 1..Len(t) : FrameOK(t[i]) /\ Waits(t[i])
  BY <1>2, <1>3 DEF Good
<1>5. IsSequence(t)
  BY <1>3 DEF IsSequence
<1>6. Good(t)
  BY <1>2, <1>3, <1>4, <1>5 DEF Good
<1>7. t # <<>> => Len(t) \in 1..Len(t)
  BY <1>3
<1> QED
  BY <1>2, <1>3, <1>4, <1>6, <1>7 DEF t

\* What is written for a field has sizes.
LEMMA PiecesAreSized ==
  /\ \A p : p.size \in Nat => Sized(<<p>>) /\ Sized(Bytes(p))
  /\ \A d : d.len \in Nat => Sized(Envelope(d))
<1>1. ASSUME NEW p, p.size \in Nat
      PROVE  Sized(<<p>>)
  <2>1. <<p>> \in Seq({p}) /\ Len(<<p>>) = 1 /\ <<p>>[1] = p
    OBVIOUS
  <2>2. IsSequence(<<p>>)
    BY <2>1 DEF IsSequence
  <2> QED
    BY <1>1, <2>1, <2>2 DEF Sized
<1>2. ASSUME NEW p, p.size \in Nat
      PROVE  Sized(Bytes(p))
  <2> DEFINE q == LengthPrefix(p.size)
             t == <<q, p>>
  <2>1. q.size \in Nat
    BY DEF LengthPrefix, Piece
  <2> HIDE DEF q
  <2>2. t \in Seq({q, p}) /\ Len(t) = 2 /\ t[1] = q /\ t[2] = p
    OBVIOUS
  <2> HIDE DEF t
  <2>3. IsSequence(t)
    BY <2>2 DEF IsSequence
  <2>4. Sized(t)
    BY <1>2, <2>1, <2>2, <2>3 DEF Sized
  <2> QED
    BY <2>4 DEF Bytes, q, t
<1>3. ASSUME NEW d, d.len \in Nat
      PROVE  Sized(Envelope(d))
  <2> DEFINE p == [Piece("message", d.len) EXCEPT !.holds = d.stored]
  <2>1. p.size = d.len
    BY DEF Piece
  <2> HIDE DEF p
  <2> QED
    BY <1>2, <1>3, <2>1 DEF Envelope, p
<1> QED
  BY <1>1, <1>2, <1>3

-----------------------------------------------------------------------------
\* What a call gives goes to the call below it, or to the caller.
LEMMA GiveKeeps ==
  ASSUME NEW below, Good(below), below # <<>> => Waits(below[Len(below)]),
         NEW data, data.len \in Nat, data.null \in BOOLEAN,
         NEW t \in Types, result = None, Give(below, data, t)
  PROVE  /\ Good(stack')
         /\ 2 * Len(stack') + HeldBy(stack') + Kept(result')
              = 2 * Len(below) + (IF data.null THEN 0 ELSE 1)
         /\ result' # None => result'.type \in Types /\ result'.data.null \in BOOLEAN
         /\ stack' # <<>> => result' = None
<1>1. CASE below = <<>>
  <2>1. stack' = <<>> /\ result' = [type |-> t, data |-> data]
    BY <1>1 DEF Give
  <2>2. result' # None /\ result'.type = t /\ result'.data = data
    BY <2>1 DEF None
  <2> QED
    BY <1>1, <2>1, <2>2 DEF HeldBy, Kept
<1>2. CASE below # <<>>
  <2> DEFINE n == Len(below)
             f == Resumed(below[n], data)
             s == [below EXCEPT ![n] = f]
  <2>1. stack' = s /\ result' = None
    BY <1>2 DEF Give
  <2>2. n \in 1..n /\ n \in Nat
    BY <1>2 DEF Good, IsSequence
  <2>3. FrameOK(below[n]) /\ Waits(below[n])
    BY <1>2, <2>2 DEF Good
  <2>4. below[n].next + 1 \in 1..Len(Fields[below[n].type]) + 1 /\ below[n].next + 1 \in Nat
    <3>1. Fields[below[n].type] \in Seq(FieldKinds)
      BY <2>3, CMarshalAssumption DEF FrameOK
    <3> QED
      BY <2>3, <3>1 DEF FrameOK, Waits
  <2>5. Sized(Envelope(data))
    BY PiecesAreSized
  <2>6. /\ f.type = below[n].type /\ f.next = below[n].next + 1 /\ f.enc = below[n].enc
        /\ f.todo = Envelope(data) /\ f.nested = ~data.null
        /\ f \in [type : Types, next : Nat, enc : {f.enc}, todo : {f.todo}, nested : BOOLEAN]
    <3> DEFINE b == below[n]
    <3>1. b \in [type : Types, next : Nat, enc : {b.enc}, todo : {b.todo}, nested : BOOLEAN]
      BY <2>3 DEF FrameOK
    <3>2. b.next + 1 \in Nat
      BY <2>4
    <3> HIDE DEF b
    <3> QED
      BY <3>1, <3>2 DEF b, Resumed
  <2>7. FrameOK(f)
    BY <2>3, <2>4, <2>5, <2>6 DEF FrameOK
  <2>8. Good(s) /\ Len(s) = n /\ s[Len(s)] = f /\ s # <<>>
    <3> HIDE DEF f
    <3> QED
      BY <1>2, <2>7, ReplaceGood
  <2>9. HeldBy(s) = IF data.null THEN 0 ELSE 1
    BY <2>6, <2>8 DEF HeldBy
  <2> HIDE DEF s, n, f
  <2> QED
    BY <2>1, <2>2, <2>8, <2>9 DEF Kept, n
<1> QED
  BY <1>1, <1>2

-----------------------------------------------------------------------------
\* The innermost call.
LEMMA TopOK ==
  ASSUME Good(stack), Running
  PROVE  /\ Depth \in Nat /\ Depth \in 1..Depth /\ Top = stack[Depth] /\ FrameOK(Top)
         /\ Top.type \in Types /\ Fields[Top.type] \in Seq(FieldKinds)
<1>1. Depth \in Nat /\ Depth \in 1..Depth
  BY DEF Good, IsSequence, Running, Depth
<1>2. FrameOK(Top)
  BY <1>1 DEF Good, Depth, Top
<1>3. Top.type \in Types
  BY <1>2 DEF FrameOK
<1> QED
  BY <1>1, <1>2, <1>3, CMarshalAssumption DEF Top

LEMMA EnterKeepsInv ==
  ASSUME Inv, NEW t \in Types, NEW before \in BOOLEAN, Enter(t, before),
         result = None, Running => Waits(Top)
  PROVE  Inv'
<1>1. Good(stack) /\ (stack # <<>> => Waits(stack[Len(stack)]))
  BY DEF Inv, Running, Top, Depth
<1>2. blocks = 2 * Len(stack) /\ Len(stack) \in Nat
  <2>1. HeldBy(stack) = 0 /\ Kept(result) = 0
    BY <1>1 DEF HeldBy, Kept, Waits
  <2> QED
    BY <2>1 DEF Inv, Good, IsSequence, Depth
<1>3. CASE stack' = Append(stack, NewFrame(t)) /\ blocks' = blocks + 2 /\ failed' = before
           /\ result' = result
  <2> DEFINE f == NewFrame(t)
  <2>1. FrameOK(f) /\ ~f.nested
    <3>1. IsEncoder(Created(InitialCapacity)) /\ InBlock(Created(InitialCapacity))
      BY CMarshalAssumption, CreatedInBlock
    <3>2. /\ f.type = t /\ f.next = 1 /\ f.enc = Created(InitialCapacity)
          /\ f.todo = <<>> /\ f.nested = FALSE
          /\ f \in [type : Types, next : Nat, enc : {f.enc}, todo : {f.todo},
                    nested : BOOLEAN]
      BY DEF NewFrame
    <3>3. 1 \in 1..Len(Fields[t]) + 1
      <4>1. Fields[t] \in Seq(FieldKinds)
        BY CMarshalAssumption
      <4> QED
        BY <4>1
    <3>4. Sized(<<>>)
      <4>1. <<>> \in Seq({})
        OBVIOUS
      <4> QED
        BY <4>1 DEF Sized, IsSequence
    <3> QED
      BY <3>1, <3>2, <3>3, <3>4 DEF FrameOK
  <2> HIDE DEF f
  <2>2. /\ Good(Append(stack, f)) /\ Len(Append(stack, f)) = Len(stack) + 1
        /\ Append(stack, f)[Len(stack) + 1] = f /\ Append(stack, f) # <<>>
    BY <1>1, <2>1, PushGood
  <2>3. /\ Good(stack') /\ Len(stack') = Len(stack) + 1 /\ HeldBy(stack') = 0
        /\ Kept(result') = 0
    BY <1>3, <2>1, <2>2 DEF HeldBy, Kept, f
  <2> QED
    BY <1>2, <1>3, <2>3 DEF Inv, Depth
<1>4. CASE Give(stack, NoData, t) /\ failed' = TRUE /\ blocks' = blocks
  <2>1. NoData.len \in Nat /\ NoData.null = TRUE
    BY DEF NoData
  <2>2. /\ Good(stack')
        /\ 2 * Len(stack') + HeldBy(stack') + Kept(result') = 2 * Len(stack) + 0
        /\ result' # None => result'.type \in Types /\ result'.data.null \in BOOLEAN
        /\ stack' # <<>> => result' = None
    BY <1>1, <1>4, <2>1, GiveKeeps
  <2> QED
    BY <1>2, <1>4, <2>2 DEF Inv, Depth, Running
<1> QED
  BY <1>3, <1>4 DEF Enter

\* A step that changes the innermost call, and frees as much as it held.
LEMMA SetTopKeepsInv ==
  ASSUME Inv, Running, NEW f, FrameOK(f), SetTop(f),
         blocks' = blocks + (IF f.nested THEN 1 ELSE 0) - (IF Top.nested THEN 1 ELSE 0),
         failed' = failed, result' = result
  PROVE  Inv'
<1>1. Good(stack) /\ stack # <<>> /\ Depth = Len(stack) /\ Depth \in Nat /\ Top = stack[Depth]
  BY TopOK DEF Inv, Running, Depth
<1>2. stack' = [stack EXCEPT ![Len(stack)] = f]
  BY <1>1 DEF SetTop
<1>3. Good(stack') /\ Len(stack') = Len(stack) /\ stack'[Len(stack')] = f /\ stack' # <<>>
  BY <1>1, <1>2, ReplaceGood
<1>4. /\ HeldBy(stack') = IF f.nested THEN 1 ELSE 0
      /\ HeldBy(stack) = IF Top.nested THEN 1 ELSE 0
  BY <1>1, <1>3 DEF HeldBy
<1>5. Kept(result) = 0 /\ Kept(result') = 0 /\ result' = None
  BY DEF Inv, Kept
<1>6. blocks' = 2 * Len(stack') + HeldBy(stack') + Kept(result')
  <2>1. blocks = 2 * Len(stack) + HeldBy(stack)
    BY <1>1, <1>4, <1>5 DEF Inv
  <2> QED
    BY <1>1, <1>3, <1>4, <1>5, <2>1
<1> QED
  BY <1>3, <1>5, <1>6 DEF Inv, Depth

LEMMA BeginFieldKeepsInv ==
  ASSUME Inv, BeginField
  PROVE  Inv'
<1> DEFINE f == [Top EXCEPT !.todo = PiecesOf(FieldNow), !.next = @ + 1]
<1>1. /\ Running /\ ~Top.nested /\ Top.next \in DOMAIN Fields[Top.type] /\ SetTop(f)
      /\ FieldNow.kind \in {"fixed", "text", "missing"}
      /\ blocks' = blocks /\ failed' = failed /\ result' = result
  BY DEF BeginField, AtField, FieldNow
<1>2. /\ FrameOK(Top) /\ Top.type \in Types /\ Fields[Top.type] \in Seq(FieldKinds)
  BY <1>1, TopOK DEF Inv
<1>3. Sized(PiecesOf(FieldNow))
  <2>1. FieldNow \in FieldKinds
    BY <1>1, <1>2 DEF FieldNow
  <2>2. CASE FieldNow.kind = "missing"
    BY <2>2, PiecesAreSized DEF PiecesOf, NoData
  <2>3. CASE FieldNow.kind \in {"fixed", "text"}
    <3>1. FieldNow.size \in Nat
      BY <2>1, <2>3, CEncoderAssumption DEF FieldKinds, NullText, Missing, Sizes
    <3>2. Piece("fixed", FieldNow.size).size \in Nat /\ Piece("text", FieldNow.size).size \in Nat
      BY <3>1 DEF Piece
    <3>3. Sized(<<Piece("fixed", FieldNow.size)>>) /\ Sized(Bytes(Piece("text", FieldNow.size)))
      BY <3>2, PiecesAreSized
    <3> QED
      BY <2>3, <3>3 DEF PiecesOf
  <2> QED
    BY <1>1, <2>2, <2>3
<1>4. Top.next + 1 \in 1..Len(Fields[Top.type]) + 1 /\ Top.next + 1 \in Nat
  BY <1>1, <1>2 DEF FrameOK
<1>5. /\ f.type = Top.type /\ f.next = Top.next + 1 /\ f.enc = Top.enc
      /\ f.todo = PiecesOf(FieldNow) /\ f.nested = Top.nested
      /\ f \in [type : Types, next : Nat, enc : {f.enc}, todo : {f.todo}, nested : BOOLEAN]
  BY <1>2, <1>4 DEF FrameOK
<1> HIDE DEF f
<1>6. FrameOK(f)
  BY <1>2, <1>3, <1>4, <1>5 DEF FrameOK
<1> QED
  <2>1. blocks' = blocks + (IF f.nested THEN 1 ELSE 0) - (IF Top.nested THEN 1 ELSE 0)
    BY <1>1, <1>5 DEF Inv, Depth, HeldBy, Kept, Good, IsSequence
  <2> QED
    BY <1>1, <1>6, <2>1, SetTopKeepsInv

LEMMA WriteNullTextKeepsInv ==
  ASSUME Inv, WriteNullText
  PROVE  Inv'
<1> DEFINE f == [Top EXCEPT !.enc = Latched(@), !.next = @ + 1]
<1>1. /\ Running /\ ~Top.nested /\ Top.next \in DOMAIN Fields[Top.type] /\ SetTop(f)
      /\ blocks' = blocks /\ failed' = failed /\ result' = result
  BY DEF WriteNullText, AtField
<1>2. /\ FrameOK(Top) /\ Top.type \in Types /\ Fields[Top.type] \in Seq(FieldKinds)
  BY <1>1, TopOK DEF Inv
<1>3. IsEncoder(Latched(Top.enc)) /\ InBlock(Latched(Top.enc))
  BY <1>2, LatchedInBlock DEF FrameOK
<1>4. Top.next + 1 \in 1..Len(Fields[Top.type]) + 1 /\ Top.next + 1 \in Nat
  BY <1>1, <1>2 DEF FrameOK
<1>5. /\ f.type = Top.type /\ f.next = Top.next + 1 /\ f.enc = Latched(Top.enc)
      /\ f.todo = Top.todo /\ f.nested = Top.nested
      /\ f \in [type : Types, next : Nat, enc : {f.enc}, todo : {f.todo}, nested : BOOLEAN]
  BY <1>2, <1>4 DEF FrameOK
<1> HIDE DEF f
<1>6. FrameOK(f)
  BY <1>2, <1>3, <1>4, <1>5 DEF FrameOK
<1> QED
  <2>1. blocks' = blocks + (IF f.nested THEN 1 ELSE 0) - (IF Top.nested THEN 1 ELSE 0)
    BY <1>1, <1>5 DEF Inv, Depth, HeldBy, Kept, Good, IsSequence
  <2> QED
    BY <1>1, <1>6, <2>1, SetTopKeepsInv

LEMMA WritePieceKeepsInv ==
  ASSUME Inv, WritePiece
  PROVE  Inv'
<1>1. Running /\ Top.todo # <<>> /\ blocks' = blocks /\ failed' = failed /\ result' = result
  BY DEF WritePiece
<1>2. PICK e \in Put(Top.enc, Head(Top.todo)) :
        SetTop([Top EXCEPT !.enc = e, !.todo = Tail(@)])
  BY DEF WritePiece
<1> DEFINE f == [Top EXCEPT !.enc = e, !.todo = Tail(@)]
<1>3. FrameOK(Top)
  BY <1>1, TopOK DEF Inv
<1>4. Head(Top.todo).size \in Nat /\ Sized(Tail(Top.todo))
  <2> DEFINE s == Top.todo
  <2>1. PICK S : s \in Seq(S)
    BY <1>3 DEF FrameOK, Sized, IsSequence
  <2>2. \A i \in 1..Len(s) : s[i].size \in Nat
    BY <1>3 DEF FrameOK, Sized
  <2>3. s # <<>>
    BY <1>1
  <2> HIDE DEF s
  <2>4. /\ Head(s) = s[1] /\ 1 \in 1..Len(s)
        /\ Tail(s) \in Seq(S) /\ Len(Tail(s)) = Len(s) - 1
        /\ \A i \in 1..Len(s) - 1 : Tail(s)[i] = s[i + 1]
    BY <2>1, <2>3
  <2>5. \A i \in 1..Len(Tail(s)) : i + 1 \in 1..Len(s)
    BY <2>1, <2>4
  <2>6. Head(s).size \in Nat /\ Sized(Tail(s))
    BY <2>2, <2>4, <2>5 DEF Sized, IsSequence
  <2> QED
    BY <2>6 DEF s
<1>5. IsEncoder(e) /\ InBlock(e)
  BY <1>2, <1>3, <1>4, PutInBlock DEF FrameOK
<1>6. /\ f.type = Top.type /\ f.next = Top.next /\ f.enc = e
      /\ f.todo = Tail(Top.todo) /\ f.nested = Top.nested
      /\ f \in [type : Types, next : Nat, enc : {f.enc}, todo : {f.todo}, nested : BOOLEAN]
  BY <1>3 DEF FrameOK
<1>7. SetTop(f)
  BY <1>2
<1> HIDE DEF f
<1>8. FrameOK(f)
  BY <1>3, <1>4, <1>5, <1>6 DEF FrameOK
<1> QED
  <2>1. blocks' = blocks + (IF f.nested THEN 1 ELSE 0) - (IF Top.nested THEN 1 ELSE 0)
    BY <1>1, <1>6 DEF Inv, Depth, HeldBy, Kept, Good, IsSequence
  <2> QED
    BY <1>1, <1>7, <1>8, <2>1, SetTopKeepsInv

LEMMA FreeNestedKeepsInv ==
  ASSUME Inv, FreeNested
  PROVE  Inv'
<1> DEFINE f == [Top EXCEPT !.nested = FALSE]
<1>1. /\ Running /\ Top.nested /\ SetTop(f)
      /\ blocks' = blocks - 1 /\ failed' = failed /\ result' = result
  BY DEF FreeNested
<1>2. FrameOK(Top)
  BY <1>1, TopOK DEF Inv
<1>3. /\ f.type = Top.type /\ f.next = Top.next /\ f.enc = Top.enc
      /\ f.todo = Top.todo /\ f.nested = FALSE
      /\ f \in [type : Types, next : Nat, enc : {f.enc}, todo : {f.todo}, nested : BOOLEAN]
  BY <1>2 DEF FrameOK
<1> HIDE DEF f
<1>4. FrameOK(f)
  BY <1>2, <1>3 DEF FrameOK
<1> QED
  <2>1. blocks' = blocks + (IF f.nested THEN 1 ELSE 0) - (IF Top.nested THEN 1 ELSE 0)
    BY <1>1, <1>3 DEF Inv, Depth, HeldBy, Kept, Good, IsSequence
  <2> QED
    BY <1>1, <1>4, <2>1, SetTopKeepsInv

LEMMA MarshalKeepsInv ==
  ASSUME Inv, NEW t \in Types, Marshal(t)
  PROVE  Inv'
BY EnterKeepsInv DEF Marshal

LEMMA EnterNestedKeepsInv ==
  ASSUME Inv, EnterNested
  PROVE  Inv'
<1>1. /\ Running /\ ~Top.nested /\ Top.next \in DOMAIN Fields[Top.type]
      /\ FieldNow.kind = "nested" /\ Enter(FieldNow.type, failed)
  BY DEF EnterNested, AtField, FieldNow
<1>2. Fields[Top.type] \in Seq(FieldKinds)
  BY <1>1, TopOK DEF Inv
<1>3. FieldNow.type \in Types
  <2>1. FieldNow \in FieldKinds
    BY <1>1, <1>2 DEF FieldNow
  <2> QED
    BY <1>1, <2>1 DEF FieldKinds, NullText, Missing
<1>4. Waits(Top) /\ result = None /\ failed \in BOOLEAN
  BY <1>1 DEF Waits, Inv
<1> QED
  BY <1>1, <1>3, <1>4, EnterKeepsInv

LEMMA ReturnKeepsInv ==
  ASSUME Inv, Return
  PROVE  Inv'
<1> DEFINE below == SubSeq(stack, 1, Depth - 1)
<1>1. PICK f \in Finish(Top.enc) :
        /\ Running /\ ~Top.nested
        /\ Give(below, f.data, Top.type)
        /\ blocks' = blocks - 2 + (IF f.data.null THEN 0 ELSE 1)
        /\ failed' = (failed \/ f.enc.error)
  BY DEF Return
<1>2. /\ Good(stack) /\ stack # <<>> /\ Depth = Len(stack) /\ Depth \in Nat
      /\ FrameOK(Top) /\ Top.type \in Types /\ Top = stack[Len(stack)]
  BY <1>1, TopOK DEF Inv, Running, Depth
<1>3. f.data.null \in BOOLEAN /\ f.data.len \in Nat /\ f.enc.error \in BOOLEAN
  <2>1. IsEncoder(Top.enc) /\ InBlock(Top.enc)
    BY <1>2 DEF FrameOK
  <2>2. /\ f.data.null \in BOOLEAN /\ IsEncoder(f.enc)
        /\ f.data.null => f.data = NoData
        /\ ~f.data.null => f.data = Copy(Top.enc)
    BY <2>1, FinishGives
  <2>3. NoData.len \in Nat /\ Copy(Top.enc).len \in Nat
    BY <2>1, CEncoderAssumption DEF NoData, Copy, IsEncoder, Sizes
  <2> QED
    BY <2>2, <2>3 DEF IsEncoder
<1>4. /\ Good(below) /\ Len(below) = Len(stack) - 1
      /\ below # <<>> => Waits(below[Len(below)])
  BY <1>2, PopGood
<1>5. result = None /\ failed \in BOOLEAN
  BY <1>1 DEF Inv
<1> HIDE DEF below
<1>6. /\ Good(stack')
      /\ 2 * Len(stack') + HeldBy(stack') + Kept(result')
           = 2 * Len(below) + (IF f.data.null THEN 0 ELSE 1)
      /\ result' # None => result'.type \in Types /\ result'.data.null \in BOOLEAN
      /\ stack' # <<>> => result' = None
  <2> DEFINE d == f.data
  <2>1. d.null \in BOOLEAN /\ d.len \in Nat /\ Give(below, d, Top.type)
    BY <1>1, <1>3
  <2> HIDE DEF d
  <2>2. /\ Good(stack')
        /\ 2 * Len(stack') + HeldBy(stack') + Kept(result')
             = 2 * Len(below) + (IF d.null THEN 0 ELSE 1)
        /\ result' # None => result'.type \in Types /\ result'.data.null \in BOOLEAN
        /\ stack' # <<>> => result' = None
    BY <1>2, <1>4, <1>5, <2>1, GiveKeeps
  <2> QED
    BY <2>2 DEF d
<1>7. blocks = 2 * Len(stack)
  BY <1>1, <1>2, <1>5 DEF Inv, HeldBy, Kept
<1>8. blocks' = 2 * Len(stack') + HeldBy(stack') + Kept(result')
  BY <1>1, <1>2, <1>4, <1>6, <1>7
<1>9. failed' \in BOOLEAN
  BY <1>1, <1>3, <1>5
<1> QED
  BY <1>6, <1>8, <1>9 DEF Inv, Depth, Running

LEMMA FreeResultKeepsInv ==
  ASSUME Inv, FreeResult
  PROVE  Inv'
<1>1. /\ stack = <<>> /\ stack' = <<>> /\ result # None /\ result' = None /\ failed' = failed
      /\ blocks' = IF result.data.null THEN blocks ELSE blocks - 1
  BY DEF FreeResult, Running
<1>2. blocks = IF result.data.null THEN 0 ELSE 1
  BY <1>1 DEF Inv, Depth, HeldBy, Kept
<1>3. Good(stack')
  BY <1>1 DEF Inv
<1> QED
  BY <1>1, <1>2, <1>3 DEF Inv, Depth, Running, HeldBy, Kept

-----------------------------------------------------------------------------
LEMMA InvHolds == Spec => []Inv
<1>1. Init => Inv
  <2> SUFFICES ASSUME Init PROVE Inv
    OBVIOUS
  <2>1. Good(stack)
    <3>1. stack \in Seq({}) /\ Len(stack) = 0
      BY DEF Init
    <3> QED
      BY <3>1 DEF Good, IsSequence
  <2>2. stack = <<>> /\ Depth = 0 /\ result = None /\ failed = FALSE /\ blocks = 0
    BY DEF Init, Depth
  <2>3. HeldBy(stack) = 0 /\ Kept(result) = 0
    BY <2>2 DEF HeldBy, Kept
  <2>4. blocks = 2 * Depth + HeldBy(stack) + Kept(result)
    BY <2>2, <2>3
  <2>5. failed \in BOOLEAN /\ result = None
    BY <2>2
  <2> QED
    BY <2>1, <2>4, <2>5 DEF Inv
<1>2. Inv /\ [Next]_vars => Inv'
  <2> SUFFICES ASSUME Inv, [Next]_vars PROVE Inv'
    OBVIOUS
  <2>1. CASE UNCHANGED vars
    BY <2>1 DEF vars, Inv, Depth, Running
  <2>2. CASE Next
    BY <2>2, MarshalKeepsInv, EnterNestedKeepsInv, BeginFieldKeepsInv, WriteNullTextKeepsInv,
       WritePieceKeepsInv, FreeNestedKeepsInv, ReturnKeepsInv, FreeResultKeepsInv DEF Next
  <2> QED
    BY <2>1, <2>2
<1> QED
  BY <1>1, <1>2, PTL DEF Spec

\* The variables keep their types, and the sizes in every encoder theirs.
THEOREM TypesHold == Spec => []TypeOK
<1>1. Inv => TypeOK
  <2> SUFFICES ASSUME Inv PROVE TypeOK
    OBVIOUS
  <2>1. ASSUME NEW i \in 1..Depth
        PROVE  FrameOK(stack[i])
    BY DEF Inv, Good, Depth
  <2>2. blocks \in Nat
    BY DEF Inv, Good, IsSequence, Depth, HeldBy, Kept
  <2> QED
    BY <2>1, <2>2 DEF Inv, TypeOK, FrameOK
<1> QED
  BY <1>1, InvHolds, PTL

\* No marshal function in progress wrote past the block of its encoder.
THEOREM InBoundsHolds == Spec => []InBounds
<1>1. Inv => InBounds
  BY DEF Inv, Good, Depth, FrameOK, InBounds
<1> QED
  BY <1>1, InvHolds, PTL

\* When T_marshal has returned, whatever failed on the way, nothing is left
\* allocated but what it returned.
THEOREM NoLeakHolds == Spec => []NoLeak
<1>1. Inv => NoLeak
  BY DEF Inv, Running, Depth, HeldBy, Kept, NoLeak
<1> QED
  BY <1>1, InvHolds, PTL

-----------------------------------------------------------------------------
(* The recursive definition of EncodingsUpTo.                              *)

Innermost(field, whole) == <<field.type, Len(Fields[field.type]), whole>>

\* The fields before a field, and the fields of the message nested in it.
Precedes(q, p) ==
  /\ p[2] > 0
  /\ \/ q = <<p[1], p[2] - 1, p[3]>>
     \/ /\ Fields[p[1]][p[2]].kind = "nested"
        /\ q = Innermost(Fields[p[1]][p[2]], p[3])

LEMMA FieldsOfType ==
  ASSUME NEW t \in Types
  PROVE  /\ Fields[t] \in Seq(FieldKinds) /\ Len(Fields[t]) \in Nat
         /\ \A n \in 1..Len(Fields[t]) :
              /\ Fields[t][n] \in FieldKinds
              /\ Fields[t][n].kind \in {"fixed", "text", "null", "nested", "missing"}
              /\ Fields[t][n].kind = "nested" => Fields[t][n].type \in Types
<1>1. Fields[t] \in Seq(FieldKinds)
  BY CMarshalAssumption
<1>2. \A n \in 1..Len(Fields[t]) : Fields[t][n] \in FieldKinds
  BY <1>1
<1>3. \A x \in FieldKinds : /\ x.kind \in {"fixed", "text", "null", "nested", "missing"}
                            /\ x.kind = "nested" => x.type \in Types
  BY DEF FieldKinds, NullText, Missing
<1> QED
  BY <1>1, <1>2, <1>3

LEMMA FieldPrefixIs ==
  /\ \A t, n, w : <<t, n, w>> \in FieldPrefixes <=>
       t \in Types /\ n \in 0..Len(Fields[t]) /\ w \in BOOLEAN
  /\ \A p \in FieldPrefixes :
       /\ p = <<p[1], p[2], p[3]>> /\ p[1] \in Types /\ p[2] \in Nat
       /\ p[2] \in 0..Len(Fields[p[1]]) /\ p[3] \in BOOLEAN
<1>1. \A t, n, w : <<t, n, w>> \in FieldPrefixes <=>
        t \in Types /\ n \in 0..Len(Fields[t]) /\ w \in BOOLEAN
  BY DEF FieldPrefixes
<1>2. \A p \in FieldPrefixes : p = <<p[1], p[2], p[3]>>
  BY DEF FieldPrefixes
<1> QED
  BY <1>1, <1>2, FieldsOfType

\* What a step looks at comes before.
LEMMA StepLooksBelow ==
  ASSUME NEW p \in FieldPrefixes, p[2] # 0
  PROVE  /\ p[1] \in Types /\ p[2] \in 1..Len(Fields[p[1]])
         /\ <<p[1], p[2] - 1, p[3]>> \in FieldPrefixes
         /\ Precedes(<<p[1], p[2] - 1, p[3]>>, p)
         /\ Fields[p[1]][p[2]].kind = "nested" =>
              /\ Innermost(Fields[p[1]][p[2]], p[3]) \in FieldPrefixes
              /\ Precedes(Innermost(Fields[p[1]][p[2]], p[3]), p)
<1>1. /\ p = <<p[1], p[2], p[3]>> /\ p[1] \in Types /\ p[2] \in Nat
      /\ p[2] \in 0..Len(Fields[p[1]]) /\ p[3] \in BOOLEAN
  BY FieldPrefixIs
<1>2. /\ Len(Fields[p[1]]) \in Nat
      /\ p[2] \in 1..Len(Fields[p[1]]) /\ p[2] - 1 \in 0..Len(Fields[p[1]]) /\ p[2] > 0
  BY <1>1, FieldsOfType
<1>3. <<p[1], p[2] - 1, p[3]>> \in FieldPrefixes
  BY <1>1, <1>2, FieldPrefixIs
<1>4. Fields[p[1]][p[2]].kind = "nested" => Innermost(Fields[p[1]][p[2]], p[3]) \in FieldPrefixes
  <2> SUFFICES ASSUME Fields[p[1]][p[2]].kind = "nested"
               PROVE  Innermost(Fields[p[1]][p[2]], p[3]) \in FieldPrefixes
    OBVIOUS
  <2> DEFINE t == Fields[p[1]][p[2]].type
  <2>1. t \in Types
    BY <1>1, <1>2, FieldsOfType
  <2> HIDE DEF t
  <2>2. Len(Fields[t]) \in 0..Len(Fields[t])
    BY <2>1, FieldsOfType
  <2>3. <<t, Len(Fields[t]), p[3]>> \in FieldPrefixes
    BY <1>1, <2>1, <2>2, FieldPrefixIs
  <2> QED
    BY <2>3 DEF Innermost, t
<1> QED
  BY <1>1, <1>2, <1>3, <1>4, Zenon DEF Precedes

LEMMA NatLowest ==
  ASSUME NEW S \in SUBSET Nat, S # {}
  PROVE  \E n \in S : \A m \in S : n <= m
<1>1. PICK n \in S : \A m \in S : ~ (<<m, n>> \in OpToRel(<, Nat))
  BY NatLessThanWellFounded, WFMin
<1>2. ASSUME NEW m \in S
      PROVE  n <= m
  <2>1. m \in Nat /\ n \in Nat
    OBVIOUS
  <2>2. ~(m < n)
    BY <1>1, <2>1 DEF OpToRel
  <2> QED
    BY <2>1, <2>2
<1> QED
  BY <1>2

\* The fields of a message are finitely many and messages are not nested in
\* themselves.
LEMMA PrecedesIsLowest ==
  ASSUME NEW S \in SUBSET FieldPrefixes, S # {}
  PROVE  \E x \in S : \A y \in S : ~Precedes(y, x)
<1> DEFINE T == {t \in Types : \E n \in Nat : \E w \in BOOLEAN : <<t, n, w>> \in S}
<1>1. \A p \in S : p[1] \in T /\ p[2] \in Nat /\ p[3] \in BOOLEAN /\ p = <<p[1], p[2], p[3]>>
  <2>1. ASSUME NEW p \in S
        PROVE  p[1] \in T /\ p[2] \in Nat /\ p[3] \in BOOLEAN /\ p = <<p[1], p[2], p[3]>>
    <3>1. p = <<p[1], p[2], p[3]>> /\ p[1] \in Types /\ p[2] \in Nat /\ p[3] \in BOOLEAN
      BY FieldPrefixIs
    <3>2. <<p[1], p[2], p[3]>> \in S
      BY <3>1
    <3> QED
      BY <3>1, <3>2
  <2> QED
    BY <2>1
<1>2. PICK t \in T : \A i \in DOMAIN Fields[t] :
        Fields[t][i].kind = "nested" => Fields[t][i].type \notin T
  <2>1. T \in SUBSET Types /\ T # {}
    BY <1>1
  <2> HIDE DEF T
  <2> QED
    BY <2>1, NestingAssumption
<1> DEFINE N == {n \in Nat : \E w \in BOOLEAN : <<t, n, w>> \in S}
<1>3. PICK n \in N : \A m \in N : n <= m
  <2>1. N \in SUBSET Nat /\ N # {}
    BY <1>2
  <2> HIDE DEF N
  <2> QED
    BY <2>1, NatLowest
<1>4. PICK w \in BOOLEAN : <<t, n, w>> \in S
  BY <1>3
<1>5. ASSUME NEW y \in S, Precedes(y, <<t, n, w>>)
      PROVE  FALSE
  <2>1. /\ n > 0
        /\ \/ y = <<t, n - 1, w>>
           \/ Fields[t][n].kind = "nested" /\ y = Innermost(Fields[t][n], w)
    BY <1>5 DEF Precedes
  <2>2. CASE y = <<t, n - 1, w>>
    <3>1. n \in Nat /\ n - 1 \in Nat
      BY <2>1
    <3>2. n - 1 \in N
      BY <1>5, <2>2, <3>1
    <3> QED
      BY <1>3, <3>1, <3>2
  <2>3. CASE Fields[t][n].kind = "nested" /\ y = Innermost(Fields[t][n], w)
    <3>1. t \in Types /\ n \in 0..Len(Fields[t])
      BY <1>4, FieldPrefixIs
    <3>2. n \in DOMAIN Fields[t]
      BY <2>1, <3>1, FieldsOfType
    <3>3. y[1] = Fields[t][n].type
      BY <2>3 DEF Innermost
    <3> QED
      BY <1>1, <1>2, <1>5, <2>3, <3>2, <3>3
  <2> QED
    BY <2>1, <2>2, <2>3
<1> QED
  BY <1>4, <1>5

\* What the definition of EncodingsUpTo says of one of its values.
EncodingsStep(f, p) ==
  IF p[2] = 0 THEN {NothingYet}
  ELSE {Extended(d, q) :
          d \in f[<<p[1], p[2] - 1, p[3]>>],
          q \in FieldPieces(Fields[p[1]][p[2]], f[Innermost(Fields[p[1]][p[2]], p[3])], p[3])}

LEMMA StepAgrees ==
  ASSUME NEW p \in FieldPrefixes, NEW f, NEW g,
         \A q \in FieldPrefixes : Precedes(q, p) => f[q] = g[q]
  PROVE  EncodingsStep(f, p) = EncodingsStep(g, p)
<1>1. CASE p[2] = 0
  BY <1>1 DEF EncodingsStep
<1>2. CASE p[2] # 0
  <2> DEFINE field == Fields[p[1]][p[2]]
             inner(h) == h[Innermost(field, p[3])]
             pieces(h) == FieldPieces(field, inner(h), p[3])
             before(h) == h[<<p[1], p[2] - 1, p[3]>>]
             All(D, Q) == {Extended(d, q) : d \in D, q \in Q}
  <2>1. f[<<p[1], p[2] - 1, p[3]>>] = g[<<p[1], p[2] - 1, p[3]>>]
    BY <1>2, StepLooksBelow
  <2>2. FieldPieces(field, inner(f), p[3]) = FieldPieces(field, inner(g), p[3])
    <3>1. CASE field.kind = "nested"
      <4>1. inner(f) = inner(g)
        BY <1>2, <3>1, StepLooksBelow
      <4> HIDE DEF inner, field
      <4> QED
        BY <4>1, Zenon
    <3>2. CASE field.kind # "nested"
      <4> HIDE DEF inner, field
      <4> QED
        BY <3>2 DEF FieldPieces
    <3> QED
      BY <3>1, <3>2
  <2>3. /\ EncodingsStep(f, p) = All(before(f), pieces(f))
        /\ EncodingsStep(g, p) = All(before(g), pieces(g))
    BY <1>2 DEF EncodingsStep
  <2>4. before(f) = before(g) /\ pieces(f) = pieces(g)
    BY <2>1, <2>2
  <2> HIDE DEF before, pieces, All
  <2> QED
    BY <2>3, <2>4
<1> QED
  BY <1>1, <1>2

\* The definition of EncodingsUpTo defines it, by well-founded recursion: the
\* solutions on downward closed sets of prefixes agree, and the largest such set
\* leaves out no lowest prefix.
Closed(S) == \A x \in S : \A y \in FieldPrefixes : Precedes(y, x) => y \in S
Solves(f, S) == Closed(S) /\ \A x \in S : f[x] = EncodingsStep(f, x)

LEMMA SolutionsAgree ==
  ASSUME NEW S \in SUBSET FieldPrefixes, NEW T \in SUBSET FieldPrefixes,
         NEW f, NEW g, Solves(f, S), Solves(g, T)
  PROVE  \A x \in S \cap T : f[x] = g[x]
<1> DEFINE D == {x \in S \cap T : f[x] # g[x]}
<1> SUFFICES ASSUME D # {}
             PROVE  FALSE
  OBVIOUS
<1>1. PICK x \in D : \A y \in D : ~Precedes(y, x)
  BY PrecedesIsLowest
<1>2. \A y \in FieldPrefixes : Precedes(y, x) => f[y] = g[y]
  BY <1>1 DEF Solves, Closed
<1>3. EncodingsStep(f, x) = EncodingsStep(g, x)
  <2>1. x \in FieldPrefixes
    OBVIOUS
  <2> HIDE DEF D
  <2> QED
    BY <1>2, <2>1, StepAgrees
<1> QED
  BY <1>1, <1>3 DEF Solves

LEMMA EncodingsEquation ==
  \A p \in FieldPrefixes : EncodingsUpTo[p] = EncodingsStep(EncodingsUpTo, p)
<1> DEFINE P == FieldPrefixes
           U == {x \in P : \E S \in SUBSET P : \E f : x \in S /\ Solves(f, S)}
           Value(x) == CHOOSE v : \E S \in SUBSET P : \E f :
                         x \in S /\ Solves(f, S) /\ v = f[x]
           F == [x \in P |-> Value(x)]
<1>1. ASSUME NEW S \in SUBSET P, NEW f, Solves(f, S), NEW x \in S
      PROVE  x \in U /\ F[x] = f[x]
  <2>1. x \in U
    BY <1>1
  <2>2. \E T \in SUBSET P : \E g : x \in T /\ Solves(g, T) /\ Value(x) = g[x]
    <3>1. \E T \in SUBSET P : \E g : x \in T /\ Solves(g, T) /\ f[x] = g[x]
      BY <1>1
    <3> QED
      BY <3>1
  <2> HIDE DEF Value, U
  <2>3. Value(x) = f[x]
    <3>1. PICK T \in SUBSET P : \E g : x \in T /\ Solves(g, T) /\ Value(x) = g[x]
      BY <2>2
    <3>2. PICK g : x \in T /\ Solves(g, T) /\ Value(x) = g[x]
      BY <3>1
    <3>3. f[x] = g[x]
      BY <1>1, <3>2, SolutionsAgree
    <3> QED
      BY <3>2, <3>3
  <2> QED
    BY <2>1, <2>3
<1> HIDE DEF F
<1>2. Solves(F, U)
  <2>1. ASSUME NEW x \in U
        PROVE  /\ \A y \in P : Precedes(y, x) => y \in U
               /\ F[x] = EncodingsStep(F, x)
    <3>1. PICK S \in SUBSET P : \E f : x \in S /\ Solves(f, S)
      OBVIOUS
    <3>2. PICK f : x \in S /\ Solves(f, S)
      BY <3>1
    <3>3. \A y \in S : y \in U /\ F[y] = f[y]
      <4> HIDE DEF U
      <4> QED
        BY <1>1, <3>2
    <3>4. \A y \in P : Precedes(y, x) => y \in S
      BY <3>2 DEF Solves, Closed
    <3>5. \A y \in P : Precedes(y, x) => F[y] = f[y]
      <4> HIDE DEF U
      <4> QED
        BY <3>3, <3>4
    <3>6. EncodingsStep(F, x) = EncodingsStep(f, x)
      <4>1. x \in FieldPrefixes
        OBVIOUS
      <4> HIDE DEF U
      <4> QED
        BY <3>5, <4>1, StepAgrees
    <3>7. f[x] = EncodingsStep(f, x)
      BY <3>2 DEF Solves
    <3> HIDE DEF U
    <3> QED
      BY <3>2, <3>3, <3>4, <3>6, <3>7
  <2> HIDE DEF U
  <2> QED
    BY <2>1 DEF Solves, Closed
<1>3. U = P
  <2> SUFFICES ASSUME P \ U # {}
               PROVE  FALSE
    OBVIOUS
  <2>1. PICK x \in P \ U : \A y \in P \ U : ~Precedes(y, x)
    <3>1. P \ U \in SUBSET FieldPrefixes
      OBVIOUS
    <3> HIDE DEF U, P
    <3> QED
      BY <3>1, PrecedesIsLowest
  <2> DEFINE H == [F EXCEPT ![x] = EncodingsStep(F, x)]
  <2>2. H[x] = EncodingsStep(F, x) /\ \A y \in P : y # x => H[y] = F[y]
    BY <2>1 DEF F
  <2> HIDE DEF H, U
  <2>3. U \subseteq P
    BY DEF U
  <2>4. \A y \in P : Precedes(y, x) => y \in U /\ y # x /\ H[y] = F[y]
    BY <2>1, <2>2
  <2>5. EncodingsStep(H, x) = EncodingsStep(F, x)
    BY <2>1, <2>4, StepAgrees
  <2>6. ASSUME NEW z \in U
        PROVE  /\ H[z] = EncodingsStep(H, z)
               /\ \A y \in P : Precedes(y, z) => y \in U
    <3>1. z # x /\ z \in P
      BY <2>1, <2>3
    <3>2. \A y \in P : Precedes(y, z) => y \in U /\ H[y] = F[y]
      BY <1>2, <2>1, <2>2 DEF Solves, Closed
    <3>3. EncodingsStep(H, z) = EncodingsStep(F, z)
      BY <3>1, <3>2, StepAgrees
    <3>4. F[z] = EncodingsStep(F, z)
      BY <1>2 DEF Solves
    <3> QED
      BY <2>2, <3>1, <3>2, <3>3, <3>4
  <2>7. Solves(H, U \cup {x})
    BY <2>2, <2>4, <2>5, <2>6 DEF Solves, Closed
  <2>8. U \cup {x} \in SUBSET P
    BY <2>1, <2>3
  <2>9. x \in U
    BY <2>7, <2>8 DEF U
  <2> QED
    BY <2>1, <2>9
<1>4. F = [p \in P |-> EncodingsStep(F, p)]
  <2>1. \A p \in P : F[p] = EncodingsStep(F, p)
    BY <1>2, <1>3 DEF Solves
  <2> QED
    BY <2>1 DEF F
<1> HIDE DEF U
<1>5. EncodingsUpTo = CHOOSE g : g = [p \in P |-> EncodingsStep(g, p)]
  BY DEF EncodingsUpTo, EncodingsStep, Innermost
<1>6. EncodingsUpTo = [p \in P |-> EncodingsStep(EncodingsUpTo, p)]
  BY <1>4, <1>5
<1> QED
  BY <1>6

-----------------------------------------------------------------------------
(* What the calls have written.                                            *)

\* With the pieces that are left of a field, an encoder without an error holds
\* the message up to its next field.
Written(f) == [stored |-> f.enc.stored \o f.todo, len |-> f.enc.pos + Size(f.todo)]

\* fl says that a call failed: then nested messages may have become empty.
FrameHolds(f, fl) ==
  /\ IsSequence(f.enc.stored) /\ Len(f.todo) <= 2
  /\ f.enc.error \/ \A whole \in BOOLEAN :
       (whole => ~fl) => Written(f) \in EncodingsUpTo[<<f.type, f.next - 1, whole>>]

\* A call waits for the message that its next field is.
Around(f, t) ==
  f.todo = <<>> /\ Fields[f.type][f.next].kind = "nested" /\ Fields[f.type][f.next].type = t

StackHolds(s, fl) ==
  /\ \A i \in 1..Len(s) : FrameHolds(s[i], fl)
  /\ \A i \in 1..Len(s) - 1 : Around(s[i], s[i + 1].type)

Given(data, t, fl) ==
  \A whole \in BOOLEAN : (whole => ~fl) => data \in Encodings(t, whole) \/ (fl /\ data = NoData)

DataInv ==
  /\ StackHolds(stack, failed)
  /\ result # None => Given(result.data, result.type, failed)

\* Who failed once may lose more.
LEMMA FailureWeakens ==
  ASSUME NEW s, NEW fl, NEW gl, fl => gl, StackHolds(s, fl)
  PROVE  StackHolds(s, gl)
<1>1. ASSUME NEW f, FrameHolds(f, fl)
      PROVE  FrameHolds(f, gl)
  BY <1>1 DEF FrameHolds
<1> QED
  BY <1>1 DEF StackHolds

LEMMA StackEdits ==
  ASSUME NEW s, IsSequence(s), NEW f
  PROVE  /\ Len(s) \in Nat
         /\ Len(Append(s, f)) = Len(s) + 1 /\ Append(s, f)[Len(s) + 1] = f
         /\ \A i \in 1..Len(s) : Append(s, f)[i] = s[i]
         /\ s # <<>> =>
              /\ Len(s) \in 1..Len(s)
              /\ Len([s EXCEPT ![Len(s)] = f]) = Len(s) /\ [s EXCEPT ![Len(s)] = f][Len(s)] = f
              /\ \A i \in 1..Len(s) - 1 : [s EXCEPT ![Len(s)] = f][i] = s[i]
              /\ Len(SubSeq(s, 1, Len(s) - 1)) = Len(s) - 1
              /\ \A i \in 1..Len(s) - 1 : SubSeq(s, 1, Len(s) - 1)[i] = s[i]
<1>1. PICK S : s \in Seq(S)
  BY DEF IsSequence
<1> DEFINE A == S \cup {f}
<1>2. s \in Seq(A) /\ f \in A /\ Len(s) \in Nat
  BY <1>1
<1> HIDE DEF A
<1>3. /\ Len(Append(s, f)) = Len(s) + 1 /\ Append(s, f)[Len(s) + 1] = f
      /\ \A i \in 1..Len(s) : Append(s, f)[i] = s[i]
  BY <1>2
<1>4. ASSUME s # <<>>
      PROVE  /\ Len(s) \in 1..Len(s)
             /\ Len([s EXCEPT ![Len(s)] = f]) = Len(s) /\ [s EXCEPT ![Len(s)] = f][Len(s)] = f
             /\ \A i \in 1..Len(s) - 1 : [s EXCEPT ![Len(s)] = f][i] = s[i]
  BY <1>2, <1>4
<1>5. ASSUME s # <<>>
      PROVE  /\ Len(SubSeq(s, 1, Len(s) - 1)) = Len(s) - 1
             /\ \A i \in 1..Len(s) - 1 : SubSeq(s, 1, Len(s) - 1)[i] = s[i]
  <2>1. Len(s) \in Nat /\ Len(s) > 0
    BY <1>1, <1>5
  <2> DEFINE t == SubSeq(s, 1, Len(s) - 1)
  <2>2. /\ t \in Seq(S) /\ Len(t) = Len(s) - 1
        /\ \A i \in 1..Len(s) - 1 : t[i] = s[i]
    BY <1>1, <2>1
  <2> QED
    BY <2>2
<1> QED
  BY <1>2, <1>3, <1>4, <1>5

\* A piece that is written moves from what is left to what is stored.
LEMMA PieceMoves ==
  ASSUME NEW s, IsSequence(s), NEW t, IsSequence(t), t # <<>>
  PROVE  IsSequence(Append(s, Head(t))) /\ Append(s, Head(t)) \o Tail(t) = s \o t
<1>1. PICK S : s \in Seq(S)
  BY DEF IsSequence
<1>2. PICK T : t \in Seq(T)
  BY DEF IsSequence
<1> DEFINE A == S \cup T
<1>3. s \in Seq(A) /\ t \in Seq(A)
  BY <1>1, <1>2
<1> HIDE DEF A
<1>4. Head(t) \in A /\ Append(s, Head(t)) \in Seq(A)
  BY <1>3
<1>5. Append(s, Head(t)) \o Tail(t) = s \o t
  BY <1>3
<1> QED
  BY <1>4, <1>5 DEF IsSequence

LEMMA SizeOf ==
  /\ Size(<<>>) = 0
  /\ \A s : IsSequence(s) => s \o <<>> = s
  /\ \A t : Sized(t) /\ t # <<>> /\ Len(t) <= 2 =>
       Size(t) = Head(t).size + Size(Tail(t)) /\ Len(Tail(t)) <= 2 /\ Size(Tail(t)) \in Nat
<1>1. Size(<<>>) = 0
  BY DEF Size
<1>2. ASSUME NEW s, IsSequence(s)
      PROVE  s \o <<>> = s
  <2>1. PICK S : s \in Seq(S)
    BY <1>2 DEF IsSequence
  <2> QED
    BY <2>1
<1>3. ASSUME NEW t, Sized(t), t # <<>>, Len(t) <= 2
      PROVE  Size(t) = Head(t).size + Size(Tail(t)) /\ Len(Tail(t)) <= 2 /\ Size(Tail(t)) \in Nat
  <2>1. PICK T : t \in Seq(T)
    BY <1>3 DEF Sized, IsSequence
  <2>2. Len(t) \in Nat /\ DOMAIN t = 1..Len(t) /\ Head(t) = t[1] /\ 1 \in 1..Len(t)
    BY <1>3, <2>1
  <2>3. /\ DOMAIN Tail(t) = 1..(Len(t) - 1) /\ Len(Tail(t)) = Len(t) - 1
        /\ \A i \in 1..(Len(t) - 1) : Tail(t)[i] = t[i + 1]
    BY <1>3, <2>1
  <2>4. \A i \in 1..Len(t) : t[i].size \in Nat
    BY <1>3 DEF Sized
  <2>5. CASE Len(t) = 1
    <3>1. 1 \in DOMAIN t /\ 2 \notin DOMAIN t /\ t[1].size \in Nat
      BY <2>2, <2>4, <2>5
    <3>2. DOMAIN Tail(t) = {} /\ Len(Tail(t)) = 0
      BY <2>3, <2>5
    <3> QED
      BY <2>2, <3>1, <3>2 DEF Size
  <2>6. CASE Len(t) = 2
    <3>1. /\ 1 \in DOMAIN t /\ 2 \in DOMAIN t
          /\ 1 \in DOMAIN Tail(t) /\ 2 \notin DOMAIN Tail(t) /\ Tail(t)[1] = t[2]
          /\ Len(Tail(t)) <= 2 /\ t[1].size \in Nat /\ t[2].size \in Nat
      BY <2>2, <2>3, <2>4, <2>6
    <3> QED
      BY <2>2, <3>1 DEF Size
  <2> QED
    BY <1>3, <2>2, <2>5, <2>6
<1> QED
  BY <1>1, <1>2, <1>3

\* What a call may write for its next field, whatever failed so far.
PiecesFor(q, field, fl) ==
  /\ Len(q) <= 2
  /\ \A whole \in BOOLEAN : (whole => ~fl) =>
       q \in FieldPieces(field, EncodingsUpTo[Innermost(field, whole)], whole)

LEMMA FieldWritten ==
  ASSUME NEW f, FrameOK(f), NEW fl \in BOOLEAN, FrameHolds(f, fl), f.todo = <<>>,
         f.next \in DOMAIN Fields[f.type],
         NEW q, PiecesFor(q, Fields[f.type][f.next], fl),
         NEW g, g.type = f.type, g.next = f.next + 1, g.enc = f.enc, g.todo = q
  PROVE  FrameHolds(g, fl)
<1>1. /\ f.type \in Types /\ f.next \in Nat /\ IsSequence(f.enc.stored) /\ f.enc.pos \in Nat
  BY CEncoderAssumption DEF FrameOK, IsEncoder, FrameHolds, Sizes
<1>2. f.next \in 1..Len(Fields[f.type]) /\ f.next # 0
  BY <1>1, FieldsOfType
<1>3. ASSUME NEW whole \in BOOLEAN, whole => ~fl, ~f.enc.error
      PROVE  Written(g) \in EncodingsUpTo[<<g.type, g.next - 1, whole>>]
  <2> DEFINE d == [stored |-> f.enc.stored, len |-> f.enc.pos]
             field == Fields[f.type][f.next]
             p == <<f.type, f.next, whole>>
             All == {Extended(b, r) : b \in EncodingsUpTo[<<f.type, f.next - 1, whole>>],
                       r \in FieldPieces(field, EncodingsUpTo[Innermost(field, whole)], whole)}
  <2>1. d \in EncodingsUpTo[<<f.type, f.next - 1, whole>>]
    <3>1. Written(f) \in EncodingsUpTo[<<f.type, f.next - 1, whole>>]
      BY <1>3 DEF FrameHolds
    <3>2. Written(f) = d
      BY <1>1, SizeOf DEF Written
    <3> QED
      BY <3>1, <3>2
  <2>2. q \in FieldPieces(field, EncodingsUpTo[Innermost(field, whole)], whole)
    BY <1>3 DEF PiecesFor
  <2>3. p \in FieldPrefixes
    BY <1>1, <1>2, FieldPrefixIs
  <2>4. EncodingsUpTo[p] = All
    <3>1. EncodingsUpTo[p] = EncodingsStep(EncodingsUpTo, p)
      BY <2>3, EncodingsEquation
    <3>2. p[1] = f.type /\ p[2] = f.next /\ p[3] = whole
      OBVIOUS
    <3> HIDE DEF p
    <3> QED
      BY <1>2, <3>1, <3>2 DEF EncodingsStep
  <2>5. Extended(d, q) \in All
    BY <2>1, <2>2
  <2>6. Written(g) = Extended(d, q)
    BY DEF Written, Extended
  <2>7. g.next - 1 = f.next
    BY <1>1
  <2> HIDE DEF All, d
  <2> QED
    BY <2>4, <2>5, <2>6, <2>7
<1> QED
  BY <1>1, <1>3 DEF FrameHolds, PiecesFor

\* A marshal call that gives a message, or nothing after a failure.
LEMMA EnvelopeWritten ==
  ASSUME NEW field, field.kind = "nested", NEW data, NEW fl,
         Given(data, field.type, fl)
  PROVE  PiecesFor(Envelope(data), field, fl)
<1>1. Len(Envelope(data)) = 2
  BY DEF Envelope, Bytes
<1>2. ASSUME NEW whole \in BOOLEAN, whole => ~fl
      PROVE  Envelope(data) \in FieldPieces(field, EncodingsUpTo[Innermost(field, whole)], whole)
  <2> DEFINE inner == EncodingsUpTo[Innermost(field, whole)]
             nested == {Envelope(DataOf(d)) : d \in inner}
                         \cup (IF whole THEN {} ELSE {Envelope(NoData)})
  <2>1. FieldPieces(field, inner, whole) = nested
    <3> HIDE DEF inner
    <3> QED
      BY DEF FieldPieces
  <2>2. CASE data \in Encodings(field.type, whole)
    <3>1. PICK d \in inner : data = DataOf(d)
      BY <2>2 DEF Encodings, Innermost
    <3>2. Envelope(data) \in nested
      BY <3>1
    <3> HIDE DEF nested
    <3> QED
      BY <2>1, <3>2
  <2>3. CASE fl /\ data = NoData
    BY <1>2, <2>1, <2>3
  <2> QED
    BY <1>2, <2>2, <2>3 DEF Given
<1> QED
  BY <1>1, <1>2 DEF PiecesFor

-----------------------------------------------------------------------------
(* Each action.                                                            *)

LEMMA GiveKeepsData ==
  ASSUME NEW below, Good(below), NEW fl \in BOOLEAN, StackHolds(below, fl), NEW t \in Types,
         below # <<>> => Waits(below[Len(below)]) /\ Around(below[Len(below)], t),
         NEW data, Given(data, t, fl), result = None, Give(below, data, t), failed' = fl
  PROVE  DataInv'
<1>1. CASE below = <<>>
  <2>1. stack' = <<>> /\ result' = [type |-> t, data |-> data]
    BY <1>1 DEF Give
  <2>2. result'.type = t /\ result'.data = data
    BY <2>1
  <2>3. StackHolds(stack', fl)
    BY <1>1, <2>1
  <2> QED
    BY <2>2, <2>3 DEF DataInv
<1>2. CASE below # <<>>
  <2> DEFINE n == Len(below)
             b == below[n]
             f == Resumed(b, data)
             s == [below EXCEPT ![n] = f]
  <2>1. stack' = s /\ result' = None
    BY <1>2 DEF Give
  <2>2. n \in Nat /\ n \in 1..n
    BY <1>2 DEF Good, IsSequence
  <2>3. FrameOK(b) /\ Waits(b) /\ Around(b, t) /\ FrameHolds(b, fl)
    BY <1>2, <2>2 DEF Good, StackHolds
  <2>4. f.type = b.type /\ f.next = b.next + 1 /\ f.enc = b.enc /\ f.todo = Envelope(data)
    <3> HIDE DEF b
    <3> QED
      BY <2>3 DEF FrameOK, Resumed
  <2>5. PiecesFor(Envelope(data), Fields[b.type][b.next], fl)
    BY <2>3, EnvelopeWritten DEF Around
  <2> HIDE DEF f, b
  <2>6. FrameHolds(f, fl)
    BY <2>3, <2>4, <2>5, FieldWritten DEF Around, Waits
  <2>7. Len(s) = n /\ s[n] = f /\ \A i \in 1..n - 1 : s[i] = below[i]
    BY <1>2, StackEdits DEF Good
  <2> HIDE DEF s
  <2>8. \A i \in 1..n : FrameHolds(s[i], fl)
    BY <2>2, <2>6, <2>7 DEF StackHolds
  <2>9. \A i \in 1..n - 1 : s[i].type = below[i].type /\ s[i + 1].type = below[i + 1].type
    BY <2>2, <2>4, <2>7 DEF b
  <2>10. \A i \in 1..n - 1 : Around(s[i], s[i + 1].type)
    BY <2>7, <2>9 DEF StackHolds
  <2> QED
    BY <2>1, <2>7, <2>8, <2>10 DEF StackHolds, DataInv
<1> QED
  BY <1>1, <1>2

LEMMA EnterKeepsData ==
  ASSUME Inv, DataInv, NEW t \in Types, NEW before \in BOOLEAN, Enter(t, before), result = None,
         stack # <<>> => Waits(Top) /\ Around(Top, t) /\ before = failed
  PROVE  DataInv'
<1>1. Good(stack) /\ Top = stack[Len(stack)] /\ StackHolds(stack, failed)
  BY DEF Inv, DataInv, Top, Depth
<1>2. CASE stack' = Append(stack, NewFrame(t)) /\ failed' = before /\ result' = result
  <2> DEFINE f == NewFrame(t)
             s == Append(stack, f)
  <2>1. /\ f.type = t /\ f.next = 1 /\ f.todo = <<>> /\ f.enc = Created(InitialCapacity)
        /\ f.enc.stored = <<>> /\ f.enc.pos = 0
    BY DEF NewFrame, Created
  <2>2. FrameHolds(f, before)
    <3>1. IsSequence(<<>>) /\ Len(<<>>) = 0 /\ Size(<<>>) = 0 /\ <<>> \o <<>> = <<>>
      <4>1. <<>> \in Seq({}) /\ Len(<<>>) = 0
        OBVIOUS
      <4> QED
        BY <4>1, SizeOf DEF IsSequence
    <3>2. Written(f) = NothingYet
      BY <2>1, <3>1 DEF Written, NothingYet
    <3>3. ASSUME NEW whole \in BOOLEAN
          PROVE  NothingYet \in EncodingsUpTo[<<t, 0, whole>>]
      <4> DEFINE p == <<t, 0, whole>>
      <4>1. p \in FieldPrefixes /\ p[2] = 0
        BY FieldsOfType, FieldPrefixIs
      <4> HIDE DEF p
      <4>2. EncodingsUpTo[p] = EncodingsStep(EncodingsUpTo, p)
        BY <4>1, EncodingsEquation
      <4>3. EncodingsUpTo[p] = {NothingYet}
        BY <4>1, <4>2 DEF EncodingsStep
      <4> QED
        BY <4>3 DEF p
    <3>4. f.next - 1 = 0
      BY <2>1
    <3> HIDE DEF f
    <3> QED
      BY <2>1, <3>1, <3>2, <3>3, <3>4 DEF FrameHolds
  <2> HIDE DEF f
  <2>3. /\ Len(stack) \in Nat /\ Len(s) = Len(stack) + 1 /\ s[Len(stack) + 1] = f
        /\ \A i \in 1..Len(stack) : s[i] = stack[i]
    BY <1>1, StackEdits DEF Good
  <2>4. stack # <<>> <=> Len(stack) # 0
    BY <1>1 DEF Good, IsSequence
  <2> HIDE DEF s
  <2>5. ASSUME NEW i \in 1..Len(stack)
        PROVE  FrameHolds(s[i], before) /\ Around(s[i], s[i + 1].type)
    <3>1. stack # <<>> /\ before = failed
      BY <2>3, <2>4
    <3>2. CASE i = Len(stack)
      BY <1>1, <2>1, <2>3, <3>1, <3>2 DEF StackHolds
    <3>3. CASE i # Len(stack)
      <4>1. i \in 1..Len(stack) - 1 /\ i + 1 \in 1..Len(stack)
        BY <2>3, <3>3
      <4> QED
        BY <1>1, <2>3, <3>1, <4>1 DEF StackHolds
    <3> QED
      BY <3>2, <3>3
  <2>6. \A i \in 1..Len(s) : FrameHolds(s[i], before)
    BY <2>2, <2>3, <2>5
  <2>7. \A i \in 1..Len(s) - 1 : Around(s[i], s[i + 1].type)
    BY <2>3, <2>5
  <2>8. stack' = s
    BY <1>2 DEF s, f
  <2> QED
    BY <1>2, <2>6, <2>7, <2>8 DEF StackHolds, DataInv
<1>3. CASE Give(stack, NoData, t) /\ failed' = TRUE
  <2>1. StackHolds(stack, TRUE)
    BY <1>1, FailureWeakens
  <2>2. Given(NoData, t, TRUE)
    BY DEF Given
  <2> QED
    BY <1>1, <1>3, <2>1, <2>2, GiveKeepsData
<1> QED
  BY <1>2, <1>3 DEF Enter

LEMMA MarshalKeepsData ==
  ASSUME Inv, DataInv, NEW t \in Types, Marshal(t)
  PROVE  DataInv'
BY EnterKeepsData DEF Marshal, Running

LEMMA EnterNestedKeepsData ==
  ASSUME Inv, DataInv, EnterNested
  PROVE  DataInv'
<1>1. /\ Running /\ Top.todo = <<>> /\ ~Top.nested /\ Top.next \in DOMAIN Fields[Top.type]
      /\ FieldNow.kind = "nested" /\ Enter(FieldNow.type, failed)
  BY DEF EnterNested, AtField, FieldNow
<1>2. FieldNow.type \in Types
  <2>1. Top.type \in Types
    BY <1>1, TopOK DEF Inv
  <2>2. Top.next \in 1..Len(Fields[Top.type])
    BY <1>1, <2>1, FieldsOfType
  <2> QED
    BY <1>1, <2>1, <2>2, FieldsOfType DEF FieldNow
<1>3. Waits(Top) /\ Around(Top, FieldNow.type) /\ result = None /\ failed \in BOOLEAN
  BY <1>1 DEF Waits, Around, FieldNow, Inv
<1> QED
  BY <1>1, <1>2, <1>3, EnterKeepsData

\* A step of the innermost call.
LEMMA TopHolds ==
  ASSUME Inv, DataInv, Running
  PROVE  FrameOK(Top) /\ FrameHolds(Top, failed) /\ Depth \in 1..Depth /\ failed \in BOOLEAN
<1>1. FrameOK(Top) /\ Depth \in 1..Depth /\ Top = stack[Depth]
  BY TopOK DEF Inv
<1> QED
  BY <1>1 DEF Inv, DataInv, StackHolds, Depth

LEMMA SetTopKeepsData ==
  ASSUME Inv, DataInv, Running, NEW f, SetTop(f), f.type = Top.type, FrameHolds(f, failed),
         failed' = failed, result' = result
  PROVE  DataInv'
<1> DEFINE n == Len(stack)
<1>1. /\ Good(stack) /\ StackHolds(stack, failed) /\ stack # <<>> /\ Top = stack[n]
      /\ result' = None
  BY DEF Inv, DataInv, Running, Top, Depth
<1>2. /\ n \in Nat /\ Len(stack') = n /\ stack'[n] = f
      /\ \A i \in 1..n - 1 : stack'[i] = stack[i]
  BY <1>1, StackEdits DEF Good, SetTop, Depth
<1>3. \A i \in 1..n : FrameHolds(stack'[i], failed)
  BY <1>1, <1>2 DEF StackHolds
<1>4. \A i \in 1..n - 1 : Around(stack'[i], stack'[i + 1].type)
  <2>1. \A i \in 1..n - 1 : stack'[i + 1].type = stack[i + 1].type
    BY <1>1, <1>2
  <2> QED
    BY <1>1, <1>2, <2>1 DEF StackHolds
<1> QED
  BY <1>1, <1>2, <1>3, <1>4 DEF StackHolds, DataInv

LEMMA BeginFieldKeepsData ==
  ASSUME Inv, DataInv, BeginField
  PROVE  DataInv'
<1> DEFINE f == [Top EXCEPT !.todo = PiecesOf(FieldNow), !.next = @ + 1]
<1>1. /\ Running /\ Top.todo = <<>> /\ Top.next \in DOMAIN Fields[Top.type] /\ SetTop(f)
      /\ FieldNow.kind \in {"fixed", "text", "missing"}
      /\ failed' = failed /\ result' = result
  BY DEF BeginField, AtField, FieldNow
<1>2. FrameOK(Top) /\ FrameHolds(Top, failed) /\ failed \in BOOLEAN
  BY <1>1, TopHolds
<1>3. f.type = Top.type /\ f.next = Top.next + 1 /\ f.enc = Top.enc /\ f.todo = PiecesOf(FieldNow)
  BY <1>2 DEF FrameOK
<1>4. PiecesFor(PiecesOf(FieldNow), FieldNow, failed)
  <2>1. Len(PiecesOf(FieldNow)) <= 2
    BY <1>1 DEF PiecesOf, Bytes, Envelope
  <2>2. \A inner, whole : FieldPieces(FieldNow, inner, whole) = {PiecesOf(FieldNow)}
    BY <1>1 DEF FieldPieces
  <2> QED
    BY <2>1, <2>2 DEF PiecesFor
<1> HIDE DEF f
<1>5. FrameHolds(f, failed)
  BY <1>1, <1>2, <1>3, <1>4, FieldWritten DEF FieldNow
<1> QED
  BY <1>1, <1>3, <1>5, SetTopKeepsData

LEMMA WriteNullTextKeepsData ==
  ASSUME Inv, DataInv, WriteNullText
  PROVE  DataInv'
<1> DEFINE f == [Top EXCEPT !.enc = Latched(@), !.next = @ + 1]
<1>1. Running /\ SetTop(f) /\ failed' = failed /\ result' = result
  BY DEF WriteNullText, AtField
<1>2. FrameOK(Top) /\ FrameHolds(Top, failed)
  BY <1>1, TopHolds
<1>3. f.type = Top.type /\ f.enc = Latched(Top.enc) /\ f.todo = Top.todo
  BY <1>2 DEF FrameOK
<1>4. f.enc.error /\ f.enc.stored = Top.enc.stored
  BY <1>2, <1>3, LatchedInBlock DEF FrameOK
<1> HIDE DEF f
<1>5. FrameHolds(f, failed)
  BY <1>2, <1>3, <1>4 DEF FrameHolds
<1> QED
  BY <1>1, <1>3, <1>5, SetTopKeepsData

LEMMA WritePieceKeepsData ==
  ASSUME Inv, DataInv, WritePiece
  PROVE  DataInv'
<1>1. Running /\ Top.todo # <<>> /\ failed' = failed /\ result' = result
  BY DEF WritePiece
<1>2. PICK e \in Put(Top.enc, Head(Top.todo)) :
        SetTop([Top EXCEPT !.enc = e, !.todo = Tail(@)])
  BY DEF WritePiece
<1> DEFINE f == [Top EXCEPT !.enc = e, !.todo = Tail(@)]
           piece == Head(Top.todo)
<1>3. FrameOK(Top) /\ FrameHolds(Top, failed)
  BY <1>1, TopHolds
<1>4. /\ IsSequence(Top.todo) /\ IsSequence(Top.enc.stored)
      /\ piece.size \in Nat /\ Top.enc.pos \in Nat
      /\ Size(Top.todo) = piece.size + Size(Tail(Top.todo))
      /\ Len(Tail(Top.todo)) <= 2 /\ Size(Tail(Top.todo)) \in Nat
  <2>1. Sized(Top.todo) /\ Len(Top.todo) <= 2 /\ IsSequence(Top.todo)
    BY <1>3 DEF FrameOK, FrameHolds, Sized
  <2>2. piece.size \in Nat
    <3>1. Head(Top.todo) = Top.todo[1] /\ 1 \in 1..Len(Top.todo)
      <4>1. PICK S : Top.todo \in Seq(S)
        BY <2>1 DEF IsSequence
      <4> QED
        BY <1>1, <4>1
    <3> QED
      BY <2>1, <3>1 DEF Sized
  <2> QED
    BY <1>1, <1>3, <2>1, <2>2, SizeOf, CEncoderAssumption DEF FrameOK, FrameHolds, IsEncoder, Sizes
<1>5. /\ e.error => e.stored = Top.enc.stored
      /\ ~e.error => ~Top.enc.error /\ e.stored = Append(Top.enc.stored, piece)
                                    /\ e.pos = Top.enc.pos + piece.size
  BY <1>2, <1>3, <1>4, PutInBlock DEF FrameOK
<1>6. f.type = Top.type /\ f.next = Top.next /\ f.enc = e /\ f.todo = Tail(Top.todo) /\ SetTop(f)
  BY <1>2, <1>3 DEF FrameOK
<1> HIDE DEF f, piece
<1>7. FrameHolds(f, failed)
  <2>1. CASE e.error
    BY <1>4, <1>5, <1>6, <2>1 DEF FrameHolds
  <2>2. CASE ~e.error
    <3>1. IsSequence(e.stored) /\ e.stored \o Tail(Top.todo) = Top.enc.stored \o Top.todo
      BY <1>1, <1>4, <1>5, <2>2, PieceMoves DEF piece
    <3>2. e.pos + Size(Tail(Top.todo)) = Top.enc.pos + Size(Top.todo)
      BY <1>4, <1>5, <2>2, SMTT(30)
    <3>3. Written(f) = Written(Top)
      BY <1>6, <3>1, <3>2 DEF Written
    <3> QED
      BY <1>3, <1>4, <1>5, <1>6, <2>2, <3>1, <3>3 DEF FrameHolds
  <2> QED
    BY <2>1, <2>2
<1> QED
  BY <1>1, <1>6, <1>7, SetTopKeepsData

LEMMA FreeNestedKeepsData ==
  ASSUME Inv, DataInv, FreeNested
  PROVE  DataInv'
<1> DEFINE f == [Top EXCEPT !.nested = FALSE]
<1>1. Running /\ SetTop(f) /\ failed' = failed /\ result' = result
  BY DEF FreeNested
<1>2. FrameOK(Top) /\ FrameHolds(Top, failed)
  BY <1>1, TopHolds
<1>3. f.type = Top.type /\ f.next = Top.next /\ f.enc = Top.enc /\ f.todo = Top.todo
  BY <1>2 DEF FrameOK
<1> HIDE DEF f
<1>4. FrameHolds(f, failed)
  BY <1>2, <1>3 DEF FrameHolds, Written
<1> QED
  BY <1>1, <1>3, <1>4, SetTopKeepsData

\* A call at the end of its fields gives the message, or nothing after a failure.
LEMMA ReturnGives ==
  ASSUME Inv, DataInv, Running, Top.todo = <<>>, Top.next \notin DOMAIN Fields[Top.type],
         NEW f \in Finish(Top.enc)
  PROVE  f.enc.error \in BOOLEAN /\ Given(f.data, Top.type, failed \/ f.enc.error)
<1> DEFINE t == Top.type
           d == [stored |-> Top.enc.stored, len |-> Top.enc.pos]
<1>1. FrameOK(Top) /\ FrameHolds(Top, failed) /\ failed \in BOOLEAN
  BY TopHolds
<1>2. IsEncoder(Top.enc) /\ InBlock(Top.enc) /\ t \in Types /\ IsSequence(Top.enc.stored)
  BY <1>1 DEF FrameOK, FrameHolds
<1>3. Top.next - 1 = Len(Fields[t])
  BY <1>1, <1>2, FieldsOfType DEF FrameOK
<1>4. /\ f.enc.error \in BOOLEAN /\ f.data.null \in BOOLEAN
      /\ Top.enc.error => f.enc.error
      /\ f.data.null => f.data = NoData /\ (f.enc.error \/ Top.enc.pos = 0)
      /\ ~f.data.null => ~Top.enc.error /\ Top.enc.pos # 0 /\ f.data = Copy(Top.enc)
  <2>1. /\ IsEncoder(f.enc) /\ f.data.null \in BOOLEAN
        /\ Top.enc.error => f.enc.error
        /\ f.data.null => f.data = NoData /\ (f.enc.error \/ Top.enc.pos = 0)
        /\ ~f.data.null => ~Top.enc.error /\ Top.enc.pos # 0 /\ f.data = Copy(Top.enc)
    BY <1>2, FinishGives
  <2> QED
    BY <2>1 DEF IsEncoder
<1>5. ASSUME NEW whole \in BOOLEAN, whole => ~failed, ~Top.enc.error
      PROVE  DataOf(d) \in Encodings(t, whole)
  <2>1. Written(Top) = d
    <3>1. Top.enc.pos \in Nat
      BY <1>2, CEncoderAssumption DEF IsEncoder, Sizes
    <3> QED
      BY <1>2, <3>1, SizeOf DEF Written
  <2>2. d \in EncodingsUpTo[<<t, Len(Fields[t]), whole>>]
    BY <1>1, <1>3, <1>5, <2>1 DEF FrameHolds
  <2> HIDE DEF d
  <2> QED
    BY <2>2 DEF Encodings
<1>6. f.data.null /\ ~f.enc.error => f.data = DataOf(d)
  BY <1>4 DEF DataOf
<1>7. ~f.data.null => f.data = DataOf(d)
  BY <1>4 DEF DataOf, Copy
<1> HIDE DEF d
<1>8. ASSUME NEW whole \in BOOLEAN, whole => ~(failed \/ f.enc.error)
      PROVE  f.data \in Encodings(t, whole) \/ ((failed \/ f.enc.error) /\ f.data = NoData)
  BY <1>4, <1>5, <1>6, <1>7, <1>8
<1> QED
  BY <1>4, <1>8 DEF Given

LEMMA ReturnKeepsData ==
  ASSUME Inv, DataInv, Return
  PROVE  DataInv'
<1> DEFINE below == SubSeq(stack, 1, Depth - 1)
<1>1. PICK f \in Finish(Top.enc) :
        /\ Running /\ Top.todo = <<>> /\ Top.next \notin DOMAIN Fields[Top.type]
        /\ Give(below, f.data, Top.type) /\ failed' = (failed \/ f.enc.error)
  BY DEF Return
<1> DEFINE fl == failed \/ f.enc.error
<1>2. f.enc.error \in BOOLEAN /\ Given(f.data, Top.type, fl)
  BY <1>1, ReturnGives
<1>3. /\ Good(stack) /\ stack # <<>> /\ Depth = Len(stack) /\ Depth \in Nat
      /\ Top.type \in Types /\ Top = stack[Depth]
      /\ StackHolds(stack, failed) /\ result = None /\ failed \in BOOLEAN
  BY <1>1, TopOK DEF Inv, DataInv, Running, Depth
<1>4. /\ Good(below) /\ Len(below) = Depth - 1
      /\ below # <<>> => Waits(below[Len(below)])
  BY <1>3, PopGood
<1>5. \A i \in 1..Depth - 1 : below[i] = stack[i]
  BY <1>3, StackEdits DEF Good
<1> HIDE DEF below, fl
<1>6. StackHolds(below, fl)
  <2>1. \A i \in 1..Len(below) : FrameHolds(below[i], failed)
    BY <1>3, <1>4, <1>5 DEF StackHolds
  <2>2. \A i \in 1..Len(below) - 1 : i + 1 \in 1..Depth - 1 /\ i \in 1..Depth - 1
    BY <1>3, <1>4
  <2>3. \A i \in 1..Len(below) - 1 : Around(below[i], below[i + 1].type)
    BY <1>3, <1>5, <2>2 DEF StackHolds
  <2>4. StackHolds(below, failed)
    BY <2>1, <2>3 DEF StackHolds
  <2> QED
    BY <2>4, FailureWeakens DEF fl
<1>7. below # <<>> => Around(below[Len(below)], Top.type)
  <2> SUFFICES ASSUME below # <<>>
               PROVE  Around(below[Len(below)], Top.type)
    OBVIOUS
  <2>1. Depth - 1 \in 1..Depth - 1
    <3>1. Len(below) # 0
      BY <1>4 DEF Good, IsSequence
    <3> QED
      BY <1>3, <1>4, <3>1
  <2>2. (Depth - 1) + 1 = Depth /\ Depth - 1 \in 1..Len(stack) - 1
    BY <1>3, <2>1
  <2> QED
    BY <1>3, <1>4, <1>5, <2>1, <2>2 DEF StackHolds
<1>8. fl \in BOOLEAN /\ failed' = fl
  BY <1>1, <1>2, <1>3 DEF fl
<1> QED
  <2> DEFINE data == f.data
             t == Top.type
  <2>1. Given(data, t, fl) /\ Give(below, data, t) /\ t \in Types
    BY <1>1, <1>2, <1>3
  <2>2. below # <<>> => Waits(below[Len(below)]) /\ Around(below[Len(below)], t)
    BY <1>4, <1>7
  <2> HIDE DEF data, t
  <2> QED
    BY <1>3, <1>4, <1>6, <1>8, <2>1, <2>2, GiveKeepsData

-----------------------------------------------------------------------------
LEMMA DataHolds == Spec => [](Inv /\ DataInv)
<1>1. Init => DataInv
  <2> SUFFICES ASSUME Init PROVE DataInv
    OBVIOUS
  <2>1. stack = <<>> /\ Len(stack) = 0 /\ result = None
    BY DEF Init
  <2> QED
    BY <2>1 DEF DataInv, StackHolds
<1>2. Inv /\ DataInv /\ [Next]_vars => DataInv'
  <2> SUFFICES ASSUME Inv, DataInv, [Next]_vars PROVE DataInv'
    OBVIOUS
  <2>1. CASE UNCHANGED vars
    BY <2>1 DEF vars, DataInv
  <2>2. CASE FreeResult
    BY <2>2 DEF FreeResult, DataInv
  <2>3. CASE Next /\ ~FreeResult
    BY <2>3, MarshalKeepsData, EnterNestedKeepsData, BeginFieldKeepsData, WriteNullTextKeepsData,
       WritePieceKeepsData, FreeNestedKeepsData, ReturnKeepsData DEF Next
  <2> QED
    BY <2>1, <2>2, <2>3
<1> QED
  BY <1>1, <1>2, InvHolds, PTL DEF Spec

\* What the caller of T_marshal gets is the message in one piece, or nothing.
\* Messages nested in it may be empty, but only if a marshal call failed, and
\* none is cut short: a length that is written is the length of what follows.
THEOREM LossIsWholeMessagesHolds == Spec => []LossIsWholeMessages
<1>1. Inv /\ DataInv => LossIsWholeMessages
  <2> SUFFICES ASSUME Inv, DataInv, result # None
               PROVE  IF result.data.null THEN failed \/ NoData \in Encodings(result.type, TRUE)
                      ELSE result.data \in Encodings(result.type, ~failed)
    BY DEF LossIsWholeMessages
  <2> DEFINE whole == ~failed
  <2>1. failed \in BOOLEAN /\ result.data.null \in BOOLEAN /\ whole \in BOOLEAN
    BY DEF Inv
  <2>2. result.data \in Encodings(result.type, whole) \/ (failed /\ result.data = NoData)
    BY <2>1 DEF DataInv, Given
  <2>3. NoData.null = TRUE
    BY DEF NoData
  <2>4. \A t, w : \A x \in Encodings(t, w) : x.null => x = NoData
    BY DEF Encodings, DataOf
  <2>5. CASE result.data.null
    <3>1. failed \/ (result.data = NoData /\ result.data \in Encodings(result.type, TRUE))
      BY <2>1, <2>2, <2>4, <2>5
    <3> QED
      BY <2>5, <3>1
  <2>6. CASE ~result.data.null
    BY <2>1, <2>2, <2>3, <2>6
  <2> QED
    BY <2>1, <2>5, <2>6
<1> QED
  BY <1>1, DataHolds, PTL
=============================================================================
