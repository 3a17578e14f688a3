---------------------------- MODULE CEncoderUse ----------------------------
(***************************************************************************)
(* A C program that uses one encoder through the functions of xpb.h, in    *)
(* any order that header allows: it tests xpb_encoder_create for NULL, and *)
(* may write on whether or not earlier writes failed.                      *)
(*                                                                         *)
(* A write is one call, made up of pieces; todo is what is left of it.     *)
(***************************************************************************)
EXTENDS CEncoder

CONSTANTS
  Capacities,  \* the initial capacities passed to xpb_encoder_create
  Lengths,     \* the lengths of the strings and bytes written
  MaxPieces    \* bound: pieces asked for between two resets

ASSUME CEncoderUseAssumption ==
  Capacities \subseteq Sizes /\ Lengths \subseteq Sizes /\ MaxPieces \in Nat

VARIABLES
  enc,    \* the encoder, or none
  todo,   \* the pieces the call in progress has yet to write
  asked,  \* every piece asked for since the encoder was created or reset
  last    \* after xpb_encoder_finish: its result, xpb_encoder_ok, and what had
          \* been asked for

encoderVars == <<enc, todo, asked, last>>

Nothing == [none |-> TRUE]
Live == enc # Nothing

\* The calls: xpb_encoder_write_bool .. _float64, _string, _bytes, _message,
\* and the count and elements of xpb_encoder_write_array_*.
FixedWrite(n) == <<Piece("fixed", n)>>
ArrayWrite(n, k) == FixedWrite(4) \o [i \in 1..n |-> Piece("fixed", k)]
Calls == {FixedWrite(n) : n \in {1, 4, 8}} \cup {Bytes(Piece("bytes", n)) : n \in Lengths}
           \cup {ArrayWrite(2, 8)}

-----------------------------------------------------------------------------
EncoderInit == enc = Nothing /\ todo = <<>> /\ asked = <<>> /\ last = Nothing

Create(initial) ==
  /\ ~Live
  /\ enc' \in {Nothing, Created(initial)}
  /\ asked' = <<>>
  /\ last' = Nothing /\ UNCHANGED todo

Write(call) ==
  /\ Live /\ todo = <<>>
  /\ Len(asked) + Len(call) <= MaxPieces
  /\ todo' = call
  /\ asked' = asked \o call
  /\ last' = Nothing /\ UNCHANGED enc

\* xpb_encoder_write_string(enc, NULL), xpb_encoder_write_bytes(enc, NULL, 1)
WriteNull ==
  /\ Live /\ todo = <<>>
  /\ Len(asked) < MaxPieces
  /\ enc' = Latched(enc)
  /\ asked' = Append(asked, Piece("null", 0))
  /\ last' = Nothing /\ UNCHANGED todo

PutPiece ==
  /\ todo # <<>>
  /\ enc' \in Put(enc, Head(todo))
  /\ todo' = Tail(todo)
  /\ last' = Nothing /\ UNCHANGED asked

CallFinish ==
  /\ Live /\ todo = <<>>
  /\ \E f \in Finish(enc) :
       /\ enc' = f.enc
       /\ last' = [data |-> f.data, ok |-> ~f.enc.error, asked |-> asked]
  /\ UNCHANGED <<todo, asked>>

CallReset ==
  /\ Live /\ todo = <<>>
  /\ enc' = Reset(enc) /\ asked' = <<>>
  /\ last' = Nothing /\ UNCHANGED todo

Destroy ==
  /\ Live /\ todo = <<>>
  /\ enc' = Nothing
  /\ last' = Nothing /\ UNCHANGED <<todo, asked>>

EncoderNext ==
  \/ \E c \in Capacities : Create(c)
  \/ \E call \in Calls : Write(call)
  \/ WriteNull \/ PutPiece \/ CallFinish \/ CallReset \/ Destroy

EncoderSpec == EncoderInit /\ [][EncoderNext]_encoderVars

-----------------------------------------------------------------------------
Pieces == [of : {"fixed", "length", "bytes", "null"}, tells : Nat, holds : {<<>>}, size : Nat]

\* The types of the variables.
EncoderTypeOK ==
  /\ enc # Nothing => IsEncoder(enc) /\ enc.stored \in Seq(Pieces)
  /\ todo \in Seq(Pieces) /\ asked \in Seq(Pieces)
  /\ last # Nothing =>
       last \in [data : {NoData} \cup [null : {FALSE}, stored : Seq(Pieces), len : Nat],
                 ok : BOOLEAN, asked : Seq(Pieces)]

\* No write goes past the end of the block, however sizes add up or wrap around
\* and whichever reallocations fail.
EncoderInBounds == Live => InBlock(enc)

\* xpb_encoder_finish gives everything that was asked for since the last reset
\* or nothing, and xpb_encoder_ok tells an empty encoder from a failure.
FinishReports ==
  last # Nothing =>
    IF last.data.null THEN ~last.ok \/ last.asked = <<>>
    ELSE last.ok /\ last.data.stored = last.asked
=============================================================================
