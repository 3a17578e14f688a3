------------------------------ MODULE CEncoder ------------------------------
(***************************************************************************)
(* The growing buffer behind xpb_encoder_* (runtime/c/xpb.c), with the     *)
(* arithmetic of size_t and with allocations that may fail.                *)
(*                                                                         *)
(* What is written is a sequence of pieces, each of which goes through     *)
(* xpb_encoder_ensure_capacity on its own; a piece has a size and says     *)
(* what it is, its bytes are left to CCodec.  An operation that allocates  *)
(* has a set of outcomes.                                                  *)
(***************************************************************************)
EXTENDS Integers, SequencesExt

CONSTANTS
  SizeMax,                 \* SIZE_MAX
  LengthMax,               \* UINT32_MAX: the length field is 4 bytes
  CompactLengthThreshold   \* XPB_COMPACT_LENGTH_THRESHOLD

ASSUME CEncoderAssumption ==
  /\ SizeMax \in Nat \ {0} /\ LengthMax \in Nat /\ CompactLengthThreshold \in Nat

Sizes == 0..SizeMax
SizeT(n) == n % (SizeMax + 1)

\* block is the size of what buf points to, as the allocator knows it; what is
\* stored can be anything.
IsEncoder(e) ==
  e \in [block : Sizes, capacity : Sizes, pos : Sizes, error : BOOLEAN, stored : {e.stored}]

\* A piece, the length it tells, and the message in it if it is one.
Piece(of, size) == [of |-> of, tells |-> 0, holds |-> <<>>, size |-> size]

\* What xpb_encoder_write_compact_length writes: the length as a uint32_t.
LengthPrefix(n) ==
  [Piece("length", IF n <= CompactLengthThreshold THEN 1 ELSE 5) EXCEPT
     !.tells = n % (LengthMax + 1)]

\* What xpb_encoder_write_bytes, _string and _message write.
Bytes(body) == <<LengthPrefix(body.size), body>>

-----------------------------------------------------------------------------
\* xpb_encoder_create, unless one of its two allocations fails.
Created(initial) ==
  LET capacity == IF initial = 0 THEN 1 ELSE initial
  IN  [block |-> capacity, capacity |-> capacity, pos |-> 0, error |-> FALSE, stored |-> <<>>]

\* xpb_encoder_reset keeps the buffer.
Reset(e) == [e EXCEPT !.pos = 0, !.error = FALSE, !.stored = <<>>]

Latched(e) == [e EXCEPT !.error = TRUE]

\* Mutant: doubling is taken to be enough.
GrownByDoubling(e, needed) == SizeT(e.capacity * 2)

Grown(e, needed) ==
  LET doubled == SizeT(e.capacity * 2)
      least == SizeT(e.pos + needed)
  IN  IF doubled < least THEN least ELSE doubled

Reallocated(e, needed) ==
  [e EXCEPT !.block = Grown(e, needed), !.capacity = Grown(e, needed)]

\* Mutant: pos + needed is not tested for overflow.
EnsureCapacityWraps(e, needed) ==
  IF e.error \/ SizeT(e.pos + needed) <= e.capacity THEN {e}
  ELSE {Latched(e), Reallocated(e, needed)}

\* xpb_encoder_ensure_capacity.
EnsureCapacity(e, needed) ==
  IF e.error THEN {e}
  ELSE IF needed > SizeMax - e.pos THEN {Latched(e)}
  ELSE IF SizeT(e.pos + needed) <= e.capacity THEN {e}
  ELSE {Latched(e), Reallocated(e, needed)}

\* A write of one piece.  pos is not wrapped: it is where the bytes went.
Stored(e, piece) == [e EXCEPT !.pos = @ + piece.size, !.stored = Append(@, piece)]

\* Mutant: a failed realloc is not remembered, and later pieces may fit.
PutForgets(e, piece) ==
  {IF f.error THEN e ELSE Stored(f, piece) : f \in EnsureCapacity(e, piece.size)}

Put(e, piece) ==
  {IF f.error THEN f ELSE Stored(f, piece) : f \in EnsureCapacity(e, piece.size)}

\* xpb_encoder_finish: the encoder after it, and a copy of what is stored.
NoData == [null |-> TRUE, stored |-> <<>>, len |-> 0]
Copy(e) == [null |-> FALSE, stored |-> e.stored, len |-> e.pos]
Finish(e) ==
  IF e.error \/ e.pos = 0 THEN {[enc |-> e, data |-> NoData]}
  ELSE {[enc |-> Latched(e), data |-> NoData], [enc |-> e, data |-> Copy(e)]}

\* Every byte an encoder wrote is in its block.
InBlock(e) == e.pos <= e.capacity /\ e.capacity <= e.block
=============================================================================
