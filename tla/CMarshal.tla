------------------------------ MODULE CMarshal ------------------------------
(***************************************************************************)
(* The T_marshal functions that pkg/codegen/c/emitter.go generates, each   *)
(* with an encoder of its own, for messages nested in messages, when any   *)
(* allocation may fail.  The heap is the number of blocks not yet freed.   *)
(*                                                                         *)
(* A marshal function has one way to report a failure: *out_data is NULL.  *)
(***************************************************************************)
EXTENDS CEncoder

CONSTANTS
  Types,            \* the messages: a generated type, and which of its fields
                    \* are there
  Fields,           \* type -> its fields: see Fixed, Text, NullText, Nested, Missing
  InitialCapacity   \* 64 in the code

Fixed(n) == [kind |-> "fixed", size |-> n]
Text(n) == [kind |-> "text", size |-> n]
NullText == [kind |-> "null"]       \* a string that is a NULL pointer
Nested(t) == [kind |-> "nested", type |-> t]
Missing == [kind |-> "missing"]     \* a nested message that is a NULL pointer

FieldKinds == [kind : {"fixed", "text"}, size : Sizes] \cup {NullText, Missing}
                \cup [kind : {"nested"}, type : Types]

ASSUME CMarshalAssumption ==
  /\ Fields \in [Types -> Seq(FieldKinds)]
  /\ InitialCapacity \in Sizes

\* No message is nested in itself, though one of its own generated type may be:
\* the marshal function of a cycle of pointers would not come to an end.
ASSUME NestingAssumption ==
  \A S \in SUBSET Types : S # {} =>
    \E t \in S : \A i \in DOMAIN Fields[t] :
      Fields[t][i].kind = "nested" => Fields[t][i].type \notin S

VARIABLES
  stack,    \* the marshal calls in progress, the innermost last
  blocks,   \* how many blocks are allocated
  failed,   \* a marshal call since the caller's gave NULL for a message
  result    \* what the caller got

vars == <<stack, blocks, failed, result>>

None == [none |-> TRUE]

\* todo is what is left of the field being written; nested says that
\* nested_data points to a block.
NewFrame(t) ==
  [type |-> t, next |-> 1, enc |-> Created(InitialCapacity), todo |-> <<>>, nested |-> FALSE]

Depth == Len(stack)
Top == stack[Depth]
Running == stack # <<>>
SetTop(f) == stack' = [stack EXCEPT ![Depth] = f]

AtField(kinds) ==
  /\ Running /\ Top.todo = <<>> /\ ~Top.nested
  /\ Top.next \in DOMAIN Fields[Top.type]
  /\ Fields[Top.type][Top.next].kind \in kinds
FieldNow == Fields[Top.type][Top.next]

\* xpb_encoder_write_message(enc, data, len)
Envelope(data) ==
  Bytes([Piece("message", data.len) EXCEPT !.holds = data.stored])

\* A call after T_marshal gave it a nested message.
Resumed(f, data) ==
  [f EXCEPT !.todo = Envelope(data), !.nested = ~data.null, !.next = @ + 1]

\* A marshal call gives data to the call below it, or to the caller.
Give(below, data, t) ==
  IF below = <<>>
  THEN stack' = <<>> /\ result' = [type |-> t, data |-> data]
  ELSE /\ stack' = [below EXCEPT ![Len(below)] = Resumed(@, data)]
       /\ result' = result

-----------------------------------------------------------------------------
Init == stack = <<>> /\ blocks = 0 /\ failed = FALSE /\ result = None

\* xpb_encoder_create: two blocks, or none.
Enter(t, failedBefore) ==
  \/ /\ stack' = Append(stack, NewFrame(t))
     /\ blocks' = blocks + 2
     /\ failed' = failedBefore
     /\ result' = result
  \/ /\ Give(stack, NoData, t)
     /\ failed' = TRUE
     /\ blocks' = blocks

\* The caller marshals a message.
Marshal(t) == ~Running /\ result = None /\ Enter(t, FALSE)

EnterNested == AtField({"nested"}) /\ Enter(FieldNow.type, failed)

PiecesOf(field) ==
  CASE field.kind = "fixed" -> <<Piece("fixed", field.size)>>
    [] field.kind = "text" -> Bytes(Piece("text", field.size))
    [] field.kind = "missing" -> Envelope(NoData)

BeginField ==
  /\ AtField({"fixed", "text", "missing"})
  /\ SetTop([Top EXCEPT !.todo = PiecesOf(FieldNow), !.next = @ + 1])
  /\ UNCHANGED <<blocks, failed, result>>

WriteNullText ==
  /\ AtField({"null"})
  /\ SetTop([Top EXCEPT !.enc = Latched(@), !.next = @ + 1])
  /\ UNCHANGED <<blocks, failed, result>>

WritePiece ==
  /\ Running /\ Top.todo # <<>>
  /\ \E e \in Put(Top.enc, Head(Top.todo)) :
       SetTop([Top EXCEPT !.enc = e, !.todo = Tail(@)])
  /\ UNCHANGED <<blocks, failed, result>>

\* Mutant: nested_data is only freed if it could be written.
FreeNestedIfWritten ==
  /\ Running /\ Top.todo = <<>> /\ Top.nested
  /\ SetTop([Top EXCEPT !.nested = FALSE])
  /\ blocks' = IF Top.enc.error THEN blocks ELSE blocks - 1
  /\ UNCHANGED <<failed, result>>

\* free(nested_data)
FreeNested ==
  /\ Running /\ Top.todo = <<>> /\ Top.nested
  /\ SetTop([Top EXCEPT !.nested = FALSE])
  /\ blocks' = blocks - 1
  /\ UNCHANGED <<failed, result>>

\* xpb_encoder_finish and xpb_encoder_destroy.
Return ==
  /\ Running /\ Top.todo = <<>> /\ ~Top.nested
  /\ Top.next \notin DOMAIN Fields[Top.type]
  /\ \E f \in Finish(Top.enc) :
       /\ Give(SubSeq(stack, 1, Depth - 1), f.data, Top.type)
       /\ blocks' = blocks - 2 + (IF f.data.null THEN 0 ELSE 1)
       /\ failed' = (failed \/ f.enc.error)

\* The caller frees what it got and may marshal another message.
FreeResult ==
  /\ ~Running /\ result # None
  /\ blocks' = IF result.data.null THEN blocks ELSE blocks - 1
  /\ result' = None
  /\ UNCHANGED <<stack, failed>>

Next ==
  \/ \E t \in Types : Marshal(t)
  \/ EnterNested \/ BeginField \/ WriteNullText \/ WritePiece
  \/ FreeNested \/ Return \/ FreeResult

Spec == Init /\ [][Next]_vars

-----------------------------------------------------------------------------
\* The types of the variables.
TypeOK ==
  /\ \A i \in 1..Depth :
       /\ stack[i].type \in Types /\ stack[i].next \in 1..Len(Fields[stack[i].type]) + 1
       /\ IsEncoder(stack[i].enc) /\ stack[i].nested \in BOOLEAN
  /\ blocks \in Nat /\ failed \in BOOLEAN
  /\ result # None => result.type \in Types /\ result.data.null \in BOOLEAN

\* No encoder of a call in progress wrote past its block.
InBounds == \A i \in 1..Depth : InBlock(stack[i].enc)

\* Once a marshal function has returned, on whichever path, the only block left
\* is the one the caller has to free.
NoLeak ==
  ~Running => blocks = IF result # None /\ ~result.data.null THEN 1 ELSE 0

\* What a call has written, and the data T_marshal gives when that is all.
NothingYet == [stored |-> <<>>, len |-> 0]
DataOf(d) ==
  IF d.len = 0 THEN NoData ELSE [null |-> FALSE, stored |-> d.stored, len |-> d.len]

\* The size of what is written for a field: one piece or two.
Size(pieces) ==
  (IF 1 \in DOMAIN pieces THEN pieces[1].size ELSE 0)
    + (IF 2 \in DOMAIN pieces THEN pieces[2].size ELSE 0)
Extended(d, pieces) == [stored |-> d.stored \o pieces, len |-> d.len + Size(pieces)]

\* The pieces a field can be, when inner is what a message nested in it can be:
\* that as a whole, or also nothing.
FieldPieces(field, inner, whole) ==
  CASE field.kind = "nested" ->
         {Envelope(DataOf(d)) : d \in inner} \cup (IF whole THEN {} ELSE {Envelope(NoData)})
    [] field.kind = "null" -> {}
    [] OTHER -> {PiecesOf(field)}

\* What a message marshals to, up to its n-th field: as a whole, or when any of
\* the messages nested in it may have become empty.
FieldPrefixes == UNION {{t} \X (0..Len(Fields[t])) \X BOOLEAN : t \in Types}

EncodingsUpTo[p \in FieldPrefixes] ==
  LET field == Fields[p[1]][p[2]]
  IN  IF p[2] = 0 THEN {NothingYet}
      ELSE {Extended(d, q) :
              d \in EncodingsUpTo[<<p[1], p[2] - 1, p[3]>>],
              q \in FieldPieces(field, EncodingsUpTo[<<field.type, Len(Fields[field.type]), p[3]>>],
                                p[3])}

Encodings(t, whole) == {DataOf(d) : d \in EncodingsUpTo[<<t, Len(Fields[t]), whole>>]}

\* What the caller gets is the message, all of it, save that a nested message
\* may be empty: never a part of a message, and the whole one if nothing failed.
LossIsWholeMessages ==
  result # None =>
    IF result.data.null THEN failed \/ NoData \in Encodings(result.type, TRUE)
    ELSE result.data \in Encodings(result.type, ~failed)
=============================================================================
