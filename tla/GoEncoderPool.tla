--------------------------- MODULE GoEncoderPool ---------------------------
(***************************************************************************)
(* Goroutines that encode messages at the same time, with the encoders of  *)
(* runtime/go/xpb/xpb.go: a sync.Pool of encoders, the buffer each of them *)
(* keeps for its next user, and the Marshal and MarshalTo methods that     *)
(* pkg/codegen/golang/emitter.go generates, which append to a local slice  *)
(* and take an encoder of their own for every nested message.              *)
(*                                                                         *)
(* A slice is an array and a length, and arrays are shared: an append that *)
(* fits writes into the array, another moves to a new one.  What the codec *)
(* of a field writes is one cell; GoCodec has the bytes.                   *)
(***************************************************************************)
EXTENDS Integers, FiniteSets, SequencesExt

CONSTANTS
  Goroutines,
  Encoders,         \* the addresses an Encoder can have
  Arrays,           \* the addresses a buffer can have
  Types,            \* the messages: a generated type, and which of its
                    \* nested messages are there
  Fields,           \* type -> its fields: a type, "scalar", or "nil" for a
                    \* nested message that is not there
  InitialCapacity,  \* 256 in the code
  MaxCalls          \* bound: how many messages are encoded

ASSUME GoEncoderPoolAssumption ==
  /\ Arrays # {}
  /\ Types \cap {"scalar", "nil"} = {}
  /\ Fields \in [Types -> Seq(Types \cup {"scalar", "nil"})]
  /\ InitialCapacity \in Nat /\ MaxCalls \in Nat

\* No message is nested in itself, though a message of its own generated type
\* may be: MarshalTo of a cycle of pointers would not come to an end.
ASSUME NestingAssumption ==
  \A S \in SUBSET Types : S # {} =>
    \E t \in S : \A i \in DOMAIN Fields[t] : Fields[t][i] \notin S

VARIABLES
  pool,    \* the encoders in encoderPool
  encBuf,  \* the slice in each encoder
  heap,    \* what the arrays hold
  stack,   \* per goroutine: its MarshalTo calls, the innermost last
  kept,    \* what Marshal returned, and its callers keep
  calls    \* how many messages somebody began to encode

vars == <<pool, encBuf, heap, stack, kept, calls>>

Stages == {"bind", "fields", "done", "copied"}

Slice == [arr : Arrays, len : Nat]
FieldsOf(t) == IF t = "nil" THEN <<>> ELSE Fields[t]

\* pooled: the encoder comes from the pool and goes back there.
Frame == [type : Types \cup {"nil"}, next : Nat, enc : Encoders, buf : Slice,
          stage : Stages, pooled : BOOLEAN]

Depth(g) == Len(stack[g])
Top(g) == stack[g][Depth(g)]
Frames == UNION {{stack[g][i] : i \in 1..Depth(g)} : g \in Goroutines}
Held == {f.enc : f \in Frames}

-----------------------------------------------------------------------------
\* The arrays somebody can still reach; the collector frees the others.
Live ==
  {encBuf[e].arr : e \in pool \cup Held} \cup {f.buf.arr : f \in Frames}
    \cup {k.bytes.arr : k \in kept}

NewArray == CHOOSE a \in Arrays : a \notin Live
NewEncoder == CHOOSE e \in Encoders : e \notin pool \cup Held
CanAllocate == ~(Arrays \subseteq Live) /\ ~(Encoders \subseteq pool \cup Held)

Unused == <<"unused", 0>>
Blank(n) == [i \in 1..n |-> Unused]
Contents(s) == SubSeq(heap[s.arr], 1, s.len)

Fits(s, n) == s.len + n <= Len(heap[s.arr])

\* The array a slice moves to when n more cells do not fit.
Moved(s, n) ==
  Contents(s) \o Blank(IF s.len > n THEN s.len ELSE n)

\* The arrays, and the slice, when there is room for n more cells.
HeapWithRoom(s, n) == IF Fits(s, n) THEN heap ELSE [heap EXCEPT ![NewArray] = Moved(s, n)]
WithRoom(s, n) == IF Fits(s, n) THEN s ELSE [s EXCEPT !.arr = NewArray]

\* The same once the cells are appended.
HeapAppended(s, cells) ==
  [HeapWithRoom(s, Len(cells)) EXCEPT ![WithRoom(s, Len(cells)).arr] =
     [i \in DOMAIN @ |-> IF i - s.len \in DOMAIN cells THEN cells[i - s.len] ELSE @[i]]]

Appended(s, cells) == [WithRoom(s, Len(cells)) EXCEPT !.len = @ + Len(cells)]

ScalarCells(t, i) == << <<t, i>> >>
Envelope(cells) == << <<"length", Len(cells)>> >> \o cells

\* The room slices.Grow is asked for.
FixedSizeLowerBound(t) == Cardinality({i \in DOMAIN FieldsOf(t) : FieldsOf(t)[i] = "scalar"})

-----------------------------------------------------------------------------
Init ==
  /\ pool = {} /\ kept = {}
  /\ encBuf \in [Encoders -> [arr : {CHOOSE a \in Arrays : TRUE}, len : {0}]]
  /\ heap = [a \in Arrays |-> <<>>]
  /\ stack = [g \in Goroutines |-> <<>>]
  /\ calls = 0

Allocate(e) ==
  /\ CanAllocate /\ e = NewEncoder
  /\ encBuf' = [encBuf EXCEPT ![e] = [arr |-> NewArray, len |-> 0]]
  /\ heap' = [heap EXCEPT ![NewArray] = Blank(InitialCapacity)]
  /\ pool' = pool

\* Mutant: the encoder keeps what its last user wrote.
GetEncoderDirty(e) ==
  \/ e \in pool /\ pool' = pool \ {e} /\ UNCHANGED <<encBuf, heap>>
  \/ Allocate(e)

\* Mutant: the encoder is looked up, not taken.
GetEncoderPeeks(e) ==
  \/ e \in pool /\ encBuf' = [encBuf EXCEPT ![e].len = 0] /\ UNCHANGED <<pool, heap>>
  \/ Allocate(e)

\* sync.Pool gives back any encoder put there, or ignores them (or has lost
\* them to the collector) and makes a new one.
GetEncoder(e) ==
  \/ /\ e \in pool /\ pool' = pool \ {e}
     /\ encBuf' = [encBuf EXCEPT ![e].len = 0]
     /\ UNCHANGED heap
  \/ Allocate(e)

NewFrame(t, e, stage, pooled) ==
  [type |-> t, next |-> 1, enc |-> e, buf |-> encBuf'[e], stage |-> stage, pooled |-> pooled]

Begin(g, t, e, pooled) ==
  /\ stack[g] = <<>> /\ calls < MaxCalls
  /\ calls' = calls + 1
  /\ stack' = [stack EXCEPT ![g] = <<NewFrame(t, e, "bind", pooled)>>]
  /\ UNCHANGED kept

\* A caller takes an encoder from the pool and calls MarshalTo.
MarshalTo(g, t) == \E e \in Encoders : GetEncoder(e) /\ Begin(g, t, e, TRUE)

\* Marshal makes an encoder, because it hands out the encoder's buffer.
Marshal(g, t) == \E e \in Encoders : Allocate(e) /\ Begin(g, t, e, FALSE)

SetTop(g, f) == stack' = [stack EXCEPT ![g] = [@ EXCEPT ![Depth(g)] = f]]

\* buf := enc.Buf(); buf = GrowBuf(buf, lower bound)
Bind(g) ==
  /\ stack[g] # <<>> /\ Top(g).stage = "bind"
  /\ LET buf == encBuf[Top(g).enc]
         room == FixedSizeLowerBound(Top(g).type)
     IN  /\ Fits(buf, room) \/ CanAllocate
         /\ heap' = HeapWithRoom(buf, room)
         /\ SetTop(g, [Top(g) EXCEPT !.buf = WithRoom(buf, room), !.stage = "fields"])
  /\ UNCHANGED <<pool, encBuf, kept, calls>>

AtField(g) ==
  stack[g] # <<>> /\ Top(g).stage = "fields" /\ Top(g).next \in DOMAIN FieldsOf(Top(g).type)
FieldOf(g) == FieldsOf(Top(g).type)[Top(g).next]

\* buf = Append...To(buf, field)
AppendField(g) ==
  /\ AtField(g) /\ FieldOf(g) = "scalar"
  /\ LET cells == ScalarCells(Top(g).type, Top(g).next)
     IN  /\ Fits(Top(g).buf, Len(cells)) \/ CanAllocate
         /\ heap' = HeapAppended(Top(g).buf, cells)
         /\ SetTop(g, [Top(g) EXCEPT !.buf = Appended(@, cells), !.next = @ + 1])
  /\ UNCHANGED <<pool, encBuf, kept, calls>>

\* nestedEnc := GetEncoder(); MarshalTo(nestedEnc) unless the message is nil.
EnterNested(g) ==
  /\ AtField(g) /\ FieldOf(g) # "scalar"
  /\ \E e \in Encoders :
       /\ GetEncoder(e)
       /\ stack' = [stack EXCEPT ![g] = Append(@,
            NewFrame(FieldOf(g), e, IF FieldOf(g) = "nil" THEN "done" ELSE "bind", TRUE))]
  /\ UNCHANGED <<kept, calls>>

\* enc.SetBuf(buf), the end of MarshalTo.
SetBuf(g) ==
  /\ stack[g] # <<>> /\ Top(g).stage = "fields" /\ ~AtField(g)
  /\ encBuf' = [encBuf EXCEPT ![Top(g).enc] = Top(g).buf]
  /\ SetTop(g, [Top(g) EXCEPT !.stage = "done"])
  /\ UNCHANGED <<pool, heap, kept, calls>>

\* buf = AppendMessageTo(buf, nestedEnc.Bytes())
AppendMessage(g) ==
  /\ Depth(g) > 1 /\ Top(g).stage = "done"
  /\ LET parent == stack[g][Depth(g) - 1]
         cells == Envelope(Contents(encBuf[Top(g).enc]))
     IN  /\ Fits(parent.buf, Len(cells)) \/ CanAllocate
         /\ heap' = HeapAppended(parent.buf, cells)
         /\ stack' = [stack EXCEPT ![g] = [@ EXCEPT
              ![Depth(g) - 1] = [parent EXCEPT !.buf = Appended(@, cells), !.next = @ + 1],
              ![Depth(g)] = [Top(g) EXCEPT !.stage = "copied"]]]
  /\ UNCHANGED <<pool, encBuf, kept, calls>>

\* PutEncoder: of a nested message once it is copied, of a caller's encoder
\* once the caller is done with its Bytes.
PutEncoder(g) ==
  /\ stack[g] # <<>> /\ Top(g).pooled
  /\ Top(g).stage = IF Depth(g) > 1 THEN "copied" ELSE "done"
  /\ pool' = pool \cup {Top(g).enc}
  /\ stack' = [stack EXCEPT ![g] = SubSeq(@, 1, Depth(g) - 1)]
  /\ UNCHANGED <<encBuf, heap, kept, calls>>

Keep(g) ==
  /\ stack[g] # <<>> /\ ~Top(g).pooled /\ Top(g).stage = "done"
  /\ kept' = kept \cup {[type |-> Top(g).type, bytes |-> encBuf[Top(g).enc]]}
  /\ stack' = [stack EXCEPT ![g] = SubSeq(@, 1, Depth(g) - 1)]
  /\ UNCHANGED <<encBuf, heap, calls>>

\* Mutant: Marshal puts its encoder into the pool, as MarshalTo's caller does.
ReturnBytesPuts(g) == Keep(g) /\ pool' = pool \cup {Top(g).enc}

\* return enc.Bytes()
ReturnBytes(g) == Keep(g) /\ pool' = pool

Next ==
  \E g \in Goroutines :
    \/ \E t \in Types : MarshalTo(g, t) \/ Marshal(g, t)
    \/ Bind(g) \/ AppendField(g) \/ EnterNested(g) \/ SetBuf(g)
    \/ AppendMessage(g) \/ PutEncoder(g) \/ ReturnBytes(g)

Spec == Init /\ [][Next]_vars

-----------------------------------------------------------------------------
OwnersOK ==
  /\ pool \subseteq Encoders
  /\ encBuf \in [Encoders -> Slice]
  /\ stack \in [Goroutines -> Seq(Frame)]
  /\ kept \subseteq [type : Types \cup {"nil"}, bytes : Slice]
  /\ calls \in 0..MaxCalls

\* No encoder serves two MarshalTo calls, in one goroutine or in two, nor waits
\* in the pool while a call uses it.
Exclusive ==
  \A g \in Goroutines : \A i \in 1..Depth(g) :
    /\ stack[g][i].enc \notin pool
    /\ \A h \in Goroutines : \A j \in 1..Depth(h) :
         stack[g][i].enc = stack[h][j].enc => g = h /\ i = j

\* The arrays a call writes to, or will when it uses its encoder again.
ArraysOf(f) == {f.buf.arr, encBuf[f.enc].arr}

\* No array is behind two calls, behind a call and a pooled encoder, behind
\* two pooled encoders, or behind any of those and bytes Marshal returned.
ArraysApart ==
  /\ \A g \in Goroutines : \A i \in 1..Depth(g) :
       /\ \A h \in Goroutines : \A j \in 1..Depth(h) :
            g # h \/ i # j => ArraysOf(stack[g][i]) \cap ArraysOf(stack[h][j]) = {}
       /\ \A e \in pool : encBuf[e].arr \notin ArraysOf(stack[g][i])
       /\ \A k \in kept : k.bytes.arr \notin ArraysOf(stack[g][i])
  /\ \A d, e \in pool : d # e => encBuf[d].arr # encBuf[e].arr
  /\ \A e \in pool : \A k \in kept : k.bytes.arr # encBuf[e].arr

\* A message up to its n-th field.
FieldPrefixes == UNION {{t} \X (0..Len(FieldsOf(t))) : t \in Types \cup {"nil"}}
Whole(t) == <<t, Len(FieldsOf(t))>>

\* What it encodes to when nobody else is there.
EncodingUpTo[p \in FieldPrefixes] ==
  LET t == p[1]
      n == p[2]
  IN  IF n = 0 THEN <<>>
      ELSE EncodingUpTo[<<t, n - 1>>] \o
             (IF FieldsOf(t)[n] = "scalar" THEN ScalarCells(t, n)
              ELSE Envelope(EncodingUpTo[Whole(FieldsOf(t)[n])]))

Encoding(t) == EncodingUpTo[Whole(t)]

\* What Marshal returned is the message, and stays it whatever is encoded
\* later on, by whom and with whichever encoder.
ReturnedBytesStay == \A k \in kept : Contents(k.bytes) = Encoding(k.type)

\* When MarshalTo is done, its encoder holds the message and nothing else.
MarshalToEncodes ==
  \A f \in Frames :
    f.stage \in {"done", "copied"} => Contents(encBuf[f.enc]) = Encoding(f.type)
=============================================================================
