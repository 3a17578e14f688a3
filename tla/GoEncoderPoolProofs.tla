------------------------ MODULE GoEncoderPoolProofs ------------------------
(***************************************************************************)
(* Ownership of encoders and buffers in GoEncoderPool, and what the        *)
(* buffers hold, for any number of goroutines, any message types and any   *)
(* depth of nesting.                                                       *)
(*                                                                         *)
(* The inductive invariant of the first part is the ownership itself: no   *)
(* encoder is in two places, and no array is behind two owners.  An action *)
(* changes at most one call's slice, and the array it then has was its own *)
(* or nobody's.  So no other call, no pooled encoder and no returned bytes *)
(* change with it, and the second part can follow one call at a time: its  *)
(* slice holds the message up to the field it is at.                       *)
(***************************************************************************)
EXTENDS GoEncoderPool, FiniteSetTheorems, SequenceTheorems, WellFoundedInduction, TLAPS

Inv == OwnersOK /\ Exclusive /\ ArraysApart

\* Nobody but the call at position n of goroutine g has array a.
OnlyOf(g, n, a) ==
  /\ \A h \in Goroutines : \A j \in 1..Depth(h) :
       a \in ArraysOf(stack[h][j]) => h = g /\ j = n
  /\ \A e \in pool : encBuf[e].arr # a
  /\ \A k \in kept : k.bytes.arr # a

-----------------------------------------------------------------------------
\* The allocator hands out an array nobody can reach.
LEMMA FreshArray ==
  ASSUME CanAllocate
  PROVE  /\ NewArray \in Arrays
         /\ \A g, n : OnlyOf(g, n, NewArray)
<1>1. NewArray \in Arrays /\ NewArray \notin Live
  BY DEF CanAllocate, NewArray
<1>2. ASSUME NEW h \in Goroutines, NEW j \in 1..Depth(h)
      PROVE  NewArray \notin ArraysOf(stack[h][j])
  <2>1. stack[h][j] \in Frames
    BY DEF Frames
  <2>2. stack[h][j].enc \in Held
    BY <2>1 DEF Held
  <2> QED
    BY <1>1, <2>1, <2>2 DEF Live, ArraysOf
<1>3. /\ \A e \in pool : encBuf[e].arr # NewArray
      /\ \A k \in kept : k.bytes.arr # NewArray
  BY <1>1 DEF Live
<1> QED
  BY <1>1, <1>2, <1>3 DEF OnlyOf

\* The allocator hands out an encoder that is neither pooled nor in use.
LEMMA FreshEncoder ==
  ASSUME CanAllocate
  PROVE  /\ NewEncoder \in Encoders
         /\ NewEncoder \notin pool
         /\ \A h \in Goroutines : \A j \in 1..Depth(h) : stack[h][j].enc # NewEncoder
<1>1. NewEncoder \in Encoders /\ NewEncoder \notin pool \cup Held
  BY DEF CanAllocate, NewEncoder
<1>2. ASSUME NEW h \in Goroutines, NEW j \in 1..Depth(h)
      PROVE  stack[h][j].enc \in Held
  BY DEF Frames, Held
<1> QED
  BY <1>1, <1>2

\* A call's own arrays are its alone.
LEMMA OwnArray ==
  ASSUME ArraysApart, NEW g \in Goroutines, NEW n \in 1..Depth(g),
         NEW a \in ArraysOf(stack[g][n])
  PROVE  OnlyOf(g, n, a)
BY DEF ArraysApart, OnlyOf

\* A step that leaves every call where it is, and moves the slices of one of
\* them to an array that is nobody else's, keeps the ownership.
LEMMA ChangeKeepsOwnership ==
  ASSUME Exclusive, ArraysApart,
         NEW g \in Goroutines, NEW n \in 1..Depth(g), NEW a, OnlyOf(g, n, a),
         pool' = pool, kept' = kept,
         \A e \in pool : encBuf'[e] = encBuf[e],
         \A h \in Goroutines : Len(stack'[h]) = Len(stack[h]),
         \A h \in Goroutines : \A j \in 1..Depth(h) :
           /\ stack'[h][j].enc = stack[h][j].enc
           /\ {stack'[h][j].buf.arr, encBuf'[stack'[h][j].enc].arr}
                \subseteq ArraysOf(stack[h][j]) \cup (IF h = g /\ j = n THEN {a} ELSE {})
  PROVE  Exclusive' /\ ArraysApart'
<1>1. \A h \in Goroutines : Depth(h)' = Depth(h)
  BY DEF Depth
<1>2. Exclusive'
  BY <1>1 DEF Exclusive
<1>3. ASSUME NEW h \in Goroutines, NEW i \in 1..Depth(h)
      PROVE  ArraysOf(stack[h][i])'
               \subseteq ArraysOf(stack[h][i]) \cup (IF h = g /\ i = n THEN {a} ELSE {})
  BY DEF ArraysOf
<1>4. ASSUME NEW h \in Goroutines, NEW i \in 1..Depth(h),
             NEW l \in Goroutines, NEW j \in 1..Depth(l), h # l \/ i # j
      PROVE  ArraysOf(stack[h][i])' \cap ArraysOf(stack[l][j])' = {}
  <2>1. ArraysOf(stack[h][i]) \cap ArraysOf(stack[l][j]) = {}
    BY <1>4, ZenonT(30) DEF ArraysApart
  <2>2. /\ a \in ArraysOf(stack[h][i]) => h = g /\ i = n
        /\ a \in ArraysOf(stack[l][j]) => l = g /\ j = n
    BY DEF OnlyOf
  <2> QED
    BY <1>3, <1>4, <2>1, <2>2
<1>5. ASSUME NEW h \in Goroutines, NEW i \in 1..Depth(h)
      PROVE  /\ \A e \in pool : encBuf'[e].arr \notin ArraysOf(stack[h][i])'
             /\ \A k \in kept : k.bytes.arr \notin ArraysOf(stack[h][i])'
  <2>1. /\ \A e \in pool : encBuf[e].arr \notin ArraysOf(stack[h][i]) /\ encBuf[e].arr # a
        /\ \A k \in kept : k.bytes.arr \notin ArraysOf(stack[h][i]) /\ k.bytes.arr # a
    BY DEF ArraysApart, OnlyOf
  <2> QED
    BY <1>3, <2>1, ZenonT(30)
<1>6. /\ \A d, e \in pool : d # e => encBuf'[d].arr # encBuf'[e].arr
      /\ \A e \in pool : \A k \in kept : k.bytes.arr # encBuf'[e].arr
  BY DEF ArraysApart
<1>7. ASSUME NEW h \in Goroutines, NEW i \in 1..Depth(h)'
      PROVE  /\ \A l \in Goroutines : \A j \in 1..Depth(l)' :
                  h # l \/ i # j => ArraysOf(stack[h][i])' \cap ArraysOf(stack[l][j])' = {}
             /\ \A e \in pool' : encBuf'[e].arr \notin ArraysOf(stack[h][i])'
             /\ \A k \in kept' : k.bytes.arr \notin ArraysOf(stack[h][i])'
  BY <1>1, <1>4, <1>5
<1>8. ArraysApart'
  BY <1>6, <1>7 DEF ArraysApart
<1> QED
  BY <1>2, <1>8

\* A call that starts, with an encoder nobody else has or will get.
LEMMA PushKeepsOwnership ==
  ASSUME OwnersOK, Exclusive, ArraysApart,
         NEW g \in Goroutines, NEW f \in Frame,
         stack' = [stack EXCEPT ![g] = Append(@, f)],
         pool' \subseteq pool, kept' = kept,
         f.enc \notin pool',
         \A h \in Goroutines : \A j \in 1..Depth(h) : stack[h][j].enc # f.enc,
         \A e \in Encoders \ {f.enc} : encBuf'[e] = encBuf[e],
         {f.buf.arr, encBuf'[f.enc].arr} = {f.buf.arr},
         \A h \in Goroutines : \A j \in 1..Depth(h) : f.buf.arr \notin ArraysOf(stack[h][j]),
         \A e \in pool' : encBuf[e].arr # f.buf.arr,
         \A k \in kept : k.bytes.arr # f.buf.arr
  PROVE  Exclusive' /\ ArraysApart'
<1> DEFINE N == Depth(g) + 1
           After(h, i) == {stack'[h][i].buf.arr, encBuf'[stack'[h][i].enc].arr}
<1>1. /\ Depth(g) \in Nat /\ Len(stack'[g]) = N
      /\ stack'[g][N] = f
      /\ \A j \in 1..Depth(g) : stack'[g][j] = stack[g][j]
      /\ \A h \in Goroutines \ {g} : stack'[h] = stack[h] /\ Len(stack'[h]) = Depth(h)
  BY DEF OwnersOK, Depth
<1>2. ASSUME NEW h \in Goroutines, NEW j \in 1..Len(stack'[h]),
             ~(h = g /\ j = N)
      PROVE  j \in 1..Depth(h) /\ stack'[h][j] = stack[h][j]
  BY <1>1, <1>2
<1>3. ASSUME NEW h \in Goroutines, NEW j \in 1..Depth(h)
      PROVE  stack[h][j].enc \in Encoders
  <2>1. stack[h] \in Seq(Frame) /\ j \in 1..Len(stack[h])
    BY DEF OwnersOK, Depth
  <2>2. stack[h][j] \in Frame
    BY <2>1
  <2> QED
    BY <2>2 DEF Frame
<1>4. ASSUME NEW h \in Goroutines, NEW j \in 1..Len(stack'[h]), ~(h = g /\ j = N)
      PROVE  /\ After(h, j) = ArraysOf(stack[h][j])
             /\ stack'[h][j].enc = stack[h][j].enc
             /\ j \in 1..Depth(h)
  BY <1>2, <1>3, <1>4 DEF ArraysOf
<1>5. After(g, N) = {f.buf.arr} /\ stack'[g][N].enc = f.enc
  BY <1>1 DEF ArraysOf
<1>6. Exclusive'
  <2>1. ASSUME NEW h \in Goroutines, NEW i \in 1..Len(stack'[h])
        PROVE  stack'[h][i].enc \notin pool'
    BY <1>4, <1>5 DEF Exclusive
  <2>2. ASSUME NEW h \in Goroutines, NEW i \in 1..Len(stack'[h]),
               NEW l \in Goroutines, NEW j \in 1..Len(stack'[l]),
               stack'[h][i].enc = stack'[l][j].enc
        PROVE  h = l /\ i = j
    <3>1. CASE h = g /\ i = N
      BY <1>4, <1>5, <2>2, <3>1
    <3>2. CASE l = g /\ j = N
      BY <1>4, <1>5, <2>2, <3>2
    <3>3. CASE ~(h = g /\ i = N) /\ ~(l = g /\ j = N)
      BY <1>4, <2>2, <3>3 DEF Exclusive
    <3> QED
      BY <3>1, <3>2, <3>3
  <2> QED
    BY <2>1, <2>2 DEF Exclusive, Depth
<1>7. ASSUME NEW h \in Goroutines, NEW i \in 1..Len(stack'[h]),
             NEW l \in Goroutines, NEW j \in 1..Len(stack'[l]), h # l \/ i # j
      PROVE  After(h, i) \cap After(l, j) = {}
  <2>1. CASE h = g /\ i = N
    BY <1>4, <1>5, <1>7, <2>1
  <2>2. CASE l = g /\ j = N
    BY <1>4, <1>5, <1>7, <2>2
  <2>3. CASE ~(h = g /\ i = N) /\ ~(l = g /\ j = N)
    BY <1>4, <1>7, <2>3 DEF ArraysApart
  <2> QED
    BY <2>1, <2>2, <2>3
<1>8. \A e \in pool' : encBuf'[e] = encBuf[e]
  BY DEF OwnersOK
<1>9. ASSUME NEW h \in Goroutines, NEW i \in 1..Len(stack'[h])
      PROVE  /\ \A e \in pool' : encBuf'[e].arr \notin After(h, i)
             /\ \A k \in kept' : k.bytes.arr \notin After(h, i)
  <2>1. CASE h = g /\ i = N
    <3>1. After(h, i) = {f.buf.arr}
      BY <1>5, <2>1
    <3> HIDE DEF After
    <3> QED
      BY <1>8, <3>1
  <2>2. CASE ~(h = g /\ i = N)
    <3>1. After(h, i) = ArraysOf(stack[h][i]) /\ i \in 1..Depth(h)
      BY <1>4, <2>2
    <3>2. /\ \A e \in pool : encBuf[e].arr \notin ArraysOf(stack[h][i])
          /\ \A k \in kept : k.bytes.arr \notin ArraysOf(stack[h][i])
      BY <3>1 DEF ArraysApart
    <3> HIDE DEF After
    <3> QED
      BY <1>8, <3>1, <3>2
  <2> QED
    BY <2>1, <2>2
<1>10. /\ \A d, e \in pool' : d # e => encBuf'[d].arr # encBuf'[e].arr
       /\ \A e \in pool' : \A k \in kept' : k.bytes.arr # encBuf'[e].arr
  BY <1>8 DEF ArraysApart
<1>11. ASSUME NEW h \in Goroutines, NEW i \in 1..Len(stack'[h])
      PROVE  /\ \A l \in Goroutines : \A j \in 1..Len(stack'[l]) :
                  h # l \/ i # j => After(h, i) \cap After(l, j) = {}
             /\ \A e \in pool' : encBuf'[e].arr \notin After(h, i)
             /\ \A k \in kept' : k.bytes.arr \notin After(h, i)
  <2>1. /\ \A e \in pool' : encBuf'[e].arr \notin After(h, i)
        /\ \A k \in kept' : k.bytes.arr \notin After(h, i)
    BY <1>9
  <2>2. ASSUME NEW l \in Goroutines, NEW j \in 1..Len(stack'[l]), h # l \/ i # j
        PROVE  After(h, i) \cap After(l, j) = {}
    BY <1>7, <2>2
  <2> HIDE DEF After
  <2> QED
    BY <2>1, <2>2
<1>12. ArraysApart'
  BY <1>10, <1>11 DEF ArraysApart, ArraysOf, Depth
<1> QED
  BY <1>6, <1>12

\* A call that ends: its encoder goes back to the pool, or its bytes to the
\* caller, or neither.
LEMMA PopKeepsOwnership ==
  ASSUME OwnersOK, Exclusive, ArraysApart,
         NEW g \in Goroutines, stack[g] # <<>>,
         stack' = [stack EXCEPT ![g] = SubSeq(@, 1, Depth(g) - 1)],
         encBuf' = encBuf,
         \/ pool' = pool \cup {Top(g).enc} /\ kept' = kept
         \/ /\ pool' = pool
            /\ kept' = kept \cup {[type |-> Top(g).type, bytes |-> encBuf[Top(g).enc]]}
  PROVE  Exclusive' /\ ArraysApart'
<1> DEFINE N == Depth(g)
           After(h, i) == {stack'[h][i].buf.arr, encBuf'[stack'[h][i].enc].arr}
<1>1. /\ N \in Nat \ {0} /\ Len(stack'[g]) = N - 1
      /\ \A j \in 1..N - 1 : stack'[g][j] = stack[g][j]
      /\ \A h \in Goroutines \ {g} : stack'[h] = stack[h] /\ Len(stack'[h]) = Depth(h)
      /\ Top(g) = stack[g][N]
  <2>1. stack[g] \in Seq(Frame) /\ N = Len(stack[g]) /\ N \in Nat \ {0}
    BY DEF OwnersOK, Depth
  <2>2. stack'[g] = SubSeq(stack[g], 1, N - 1)
    BY DEF OwnersOK
  <2>3. Len(stack'[g]) = N - 1 /\ \A j \in 1..N - 1 : stack'[g][j] = stack[g][j]
    BY <2>1, <2>2
  <2> QED
    BY <2>1, <2>3 DEF OwnersOK, Depth, Top
<1>2. ASSUME NEW h \in Goroutines, NEW j \in 1..Len(stack'[h])
      PROVE  /\ j \in 1..Depth(h) /\ stack'[h][j] = stack[h][j]
             /\ After(h, j) = ArraysOf(stack[h][j])
             /\ h # g \/ j # N
  BY <1>1 DEF ArraysOf
<1>3. N \in 1..Depth(g) /\ encBuf[Top(g).enc].arr \in ArraysOf(stack[g][N])
  BY <1>1 DEF ArraysOf
<1>4. Exclusive'
  <2>1. ASSUME NEW h \in Goroutines, NEW i \in 1..Len(stack'[h])
        PROVE  stack[h][i].enc \notin pool /\ stack[h][i].enc # Top(g).enc
    <3>1. i \in 1..Depth(h) /\ (h # g \/ i # N) /\ Top(g).enc = stack[g][N].enc
      BY <1>1, <1>2
    <3> QED
      BY <1>3, <3>1 DEF Exclusive
  <2>2. ASSUME NEW h \in Goroutines, NEW i \in 1..Len(stack'[h])
        PROVE  stack'[h][i].enc \notin pool'
    <3>1. stack'[h][i] = stack[h][i]
      BY <1>2
    <3> QED
      BY <2>1, <3>1
  <2>3. ASSUME NEW h \in Goroutines, NEW i \in 1..Len(stack'[h]),
               NEW l \in Goroutines, NEW j \in 1..Len(stack'[l]),
               stack'[h][i].enc = stack'[l][j].enc
        PROVE  h = l /\ i = j
    <3>1. /\ i \in 1..Depth(h) /\ stack'[h][i] = stack[h][i]
          /\ j \in 1..Depth(l) /\ stack'[l][j] = stack[l][j]
      BY <1>2
    <3>2. stack[h][i].enc = stack[l][j].enc
      BY <2>3, <3>1
    <3> QED
      BY <3>1, <3>2 DEF Exclusive
  <2> QED
    BY <2>2, <2>3 DEF Exclusive, Depth
<1>5. OnlyOf(g, N, encBuf[Top(g).enc].arr)
  BY <1>3, OwnArray
<1>6. ASSUME NEW h \in Goroutines, NEW i \in 1..Len(stack'[h])
      PROVE  /\ \A l \in Goroutines : \A j \in 1..Len(stack'[l]) :
                  h # l \/ i # j => After(h, i) \cap After(l, j) = {}
             /\ \A e \in pool' : encBuf'[e].arr \notin After(h, i)
             /\ \A k \in kept' : k.bytes.arr \notin After(h, i)
  <2>1. \A l \in Goroutines : \A j \in 1..Len(stack'[l]) :
          h # l \/ i # j => After(h, i) \cap After(l, j) = {}
    BY <1>2 DEF ArraysApart
  <2>2. encBuf[Top(g).enc].arr \notin ArraysOf(stack[h][i])
    BY <1>2, <1>5 DEF OnlyOf
  <2>3. /\ \A e \in pool : encBuf[e].arr \notin ArraysOf(stack[h][i])
        /\ \A k \in kept : k.bytes.arr \notin ArraysOf(stack[h][i])
    BY <1>2 DEF ArraysApart
  <2>4. After(h, i) = ArraysOf(stack[h][i])
    BY <1>2
  <2> HIDE DEF After
  <2>5. \A e \in pool' : encBuf'[e].arr \notin After(h, i)
    BY <2>2, <2>3, <2>4
  <2>6. \A k \in kept' : k.bytes.arr \notin After(h, i)
    BY <2>2, <2>3, <2>4
  <2> QED
    BY <2>1, <2>5, <2>6
<1>7. /\ \A d, e \in pool' : d # e => encBuf'[d].arr # encBuf'[e].arr
      /\ \A e \in pool' : \A k \in kept' : k.bytes.arr # encBuf'[e].arr
  BY <1>5 DEF ArraysApart, OnlyOf
<1>8. ArraysApart'
  BY <1>6, <1>7 DEF ArraysApart, ArraysOf, Depth
<1> QED
  BY <1>4, <1>8

-----------------------------------------------------------------------------
\* The innermost call of a goroutine, and how SetTop changes it.
LEMMA TopFrame ==
  ASSUME OwnersOK, NEW g \in Goroutines, stack[g] # <<>>
  PROVE  /\ Depth(g) \in 1..Depth(g) /\ Depth(g) \in Nat
         /\ Top(g) = stack[g][Depth(g)] /\ Top(g) \in Frame
<1>1. stack[g] \in Seq(Frame) /\ Depth(g) = Len(stack[g])
  BY DEF OwnersOK, Depth
<1>2. Depth(g) \in 1..Depth(g) /\ Depth(g) \in Nat
  BY <1>1
<1> QED
  BY <1>1, <1>2 DEF Top

LEMMA SetTopFrames ==
  ASSUME OwnersOK, NEW g \in Goroutines, stack[g] # <<>>,
         NEW f \in Frame, SetTop(g, f)
  PROVE  /\ stack' \in [Goroutines -> Seq(Frame)]
         /\ \A h \in Goroutines : Len(stack'[h]) = Len(stack[h])
         /\ stack'[g][Depth(g)] = f
         /\ \A h \in Goroutines : \A j \in 1..Depth(h) :
              h # g \/ j # Depth(g) => stack'[h][j] = stack[h][j]
<1>1. stack \in [Goroutines -> Seq(Frame)] /\ stack[g] \in Seq(Frame)
  BY DEF OwnersOK
<1>2. Depth(g) \in 1..Len(stack[g])
  BY TopFrame DEF Depth
<1> DEFINE s == [stack[g] EXCEPT ![Depth(g)] = f]
<1>3. s \in Seq(Frame) /\ Len(s) = Len(stack[g]) /\ s[Depth(g)] = f
      /\ \A j \in 1..Len(stack[g]) : j # Depth(g) => s[j] = stack[g][j]
  BY <1>1, <1>2
<1>4. stack' = [stack EXCEPT ![g] = s]
  BY DEF SetTop
<1> HIDE DEF s
<1>5. stack'[g] = s /\ \A h \in Goroutines : h # g => stack'[h] = stack[h]
  BY <1>1, <1>4
<1> QED
  BY <1>1, <1>3, <1>4, <1>5 DEF Depth

\* The array a slice has once there is room in it: its own or a new one.
LEMMA RoomArray ==
  ASSUME OwnersOK, ArraysApart, NEW g \in Goroutines, NEW n \in 1..Depth(g),
         NEW s \in Slice, s.arr \in ArraysOf(stack[g][n]),
         NEW m \in Nat, Fits(s, m) \/ CanAllocate
  PROVE  WithRoom(s, m) \in Slice /\ OnlyOf(g, n, WithRoom(s, m).arr)
<1>1. CASE Fits(s, m)
  BY <1>1, OwnArray DEF WithRoom
<1>2. CASE ~Fits(s, m)
  BY <1>2, FreshArray DEF WithRoom, Slice
<1> QED
  BY <1>1, <1>2

-----------------------------------------------------------------------------
\* The encoder a call gets is nobody else's, and so is its array.
LEMMA EncoderTaken ==
  ASSUME Inv, NEW e \in Encoders, GetEncoder(e) \/ Allocate(e)
  PROVE  /\ pool' \subseteq pool /\ e \notin pool'
         /\ encBuf' \in [Encoders -> Slice]
         /\ \A d \in Encoders \ {e} : encBuf'[d] = encBuf[d]
         /\ \A h \in Goroutines : \A j \in 1..Depth(h) :
              stack[h][j].enc # e /\ encBuf'[e].arr \notin ArraysOf(stack[h][j])
         /\ \A d \in pool' : encBuf[d].arr # encBuf'[e].arr
         /\ \A k \in kept : k.bytes.arr # encBuf'[e].arr
<1>1. encBuf \in [Encoders -> Slice] /\ pool \subseteq Encoders
  BY DEF Inv, OwnersOK
<1>2. CASE Allocate(e)
  <2>1. /\ CanAllocate /\ e = NewEncoder /\ pool' = pool
        /\ encBuf' = [encBuf EXCEPT ![e] = [arr |-> NewArray, len |-> 0]]
    BY <1>2 DEF Allocate
  <2>2. /\ NewArray \in Arrays
        /\ \A g, n : OnlyOf(g, n, NewArray)
    BY <2>1, FreshArray
  <2>3. /\ e \notin pool
        /\ \A h \in Goroutines : \A j \in 1..Depth(h) : stack[h][j].enc # e
    BY <2>1, FreshEncoder
  <2>4. encBuf'[e].arr = NewArray /\ encBuf' \in [Encoders -> Slice]
    BY <1>1, <2>1, <2>2 DEF Slice
  <2>5. ASSUME NEW h \in Goroutines, NEW j \in 1..Depth(h)
        PROVE  NewArray \notin ArraysOf(stack[h][j])
    <3>1. OnlyOf(h, j + 1, NewArray)
      BY <2>2
    <3> QED
      BY <3>1 DEF OnlyOf
  <2>6. /\ \A d \in pool : encBuf[d].arr # NewArray
        /\ \A k \in kept : k.bytes.arr # NewArray
    BY <2>2 DEF OnlyOf
  <2> QED
    BY <1>1, <2>1, <2>3, <2>4, <2>5, <2>6
<1>3. CASE e \in pool /\ pool' = pool \ {e} /\ encBuf' = [encBuf EXCEPT ![e].len = 0]
  <2>1. encBuf'[e].arr = encBuf[e].arr /\ encBuf' \in [Encoders -> Slice]
    BY <1>1, <1>3 DEF Slice
  <2> QED
    BY <1>1, <1>3, <2>1 DEF Inv, Exclusive, ArraysApart
<1> QED
  BY <1>2, <1>3 DEF GetEncoder

\* A call begins with the encoder it got.
LEMMA CallKeepsInv ==
  ASSUME Inv, NEW g \in Goroutines, NEW e \in Encoders, GetEncoder(e) \/ Allocate(e),
         NEW t \in Types \cup {"nil"}, NEW stage \in Stages, NEW pooled \in BOOLEAN,
         stack' = [stack EXCEPT ![g] = Append(@, NewFrame(t, e, stage, pooled))],
         kept' = kept, calls' \in 0..MaxCalls
  PROVE  Inv'
<1> DEFINE f == NewFrame(t, e, stage, pooled)
<1>1. OwnersOK /\ Exclusive /\ ArraysApart
  BY DEF Inv
<1>2. /\ pool' \subseteq pool /\ e \notin pool'
      /\ encBuf' \in [Encoders -> Slice]
      /\ \A d \in Encoders \ {e} : encBuf'[d] = encBuf[d]
      /\ \A h \in Goroutines : \A j \in 1..Depth(h) :
           stack[h][j].enc # e /\ encBuf'[e].arr \notin ArraysOf(stack[h][j])
      /\ \A d \in pool' : encBuf[d].arr # encBuf'[e].arr
      /\ \A k \in kept : k.bytes.arr # encBuf'[e].arr
  BY EncoderTaken
<1>3. f \in Frame /\ f.enc = e /\ f.buf = encBuf'[e]
  BY <1>2 DEF NewFrame, Frame
<1> HIDE DEF f
<1>4. stack' = [stack EXCEPT ![g] = Append(@, f)]
  BY DEF f
<1>5. OwnersOK'
  BY <1>1, <1>2, <1>3, <1>4 DEF OwnersOK
<1>6. /\ f.enc \notin pool'
      /\ \A h \in Goroutines : \A j \in 1..Depth(h) : stack[h][j].enc # f.enc
      /\ \A d \in Encoders \ {f.enc} : encBuf'[d] = encBuf[d]
      /\ {f.buf.arr, encBuf'[f.enc].arr} = {f.buf.arr}
      /\ \A h \in Goroutines : \A j \in 1..Depth(h) : f.buf.arr \notin ArraysOf(stack[h][j])
      /\ \A d \in pool' : encBuf[d].arr # f.buf.arr
      /\ \A k \in kept : k.bytes.arr # f.buf.arr
  BY <1>2, <1>3
<1>7. pool' \subseteq pool
  BY <1>2
<1>8. Exclusive' /\ ArraysApart'
  BY <1>1, <1>3, <1>4, <1>6, <1>7, PushKeepsOwnership
<1> QED
  BY <1>5, <1>8 DEF Inv

\* What is appended to a slice has a length.
LEMMA CellsHaveLength ==
  /\ \A t, i : Len(ScalarCells(t, i)) \in Nat
  /\ \A s \in Slice : Len(Envelope(Contents(s))) \in Nat
  /\ \A t \in Types \cup {"nil"} : FieldsOf(t) \in Seq(Types \cup {"scalar", "nil"})
  /\ \A t \in Types \cup {"nil"} : FixedSizeLowerBound(t) \in Nat
<1>1. \A t, i : Len(ScalarCells(t, i)) \in Nat
  BY DEF ScalarCells
<1>2. ASSUME NEW s \in Slice
      PROVE  Len(Envelope(Contents(s))) \in Nat
  BY DEF Envelope, Contents, Slice
<1>3. ASSUME NEW t \in Types \cup {"nil"}
      PROVE  FieldsOf(t) \in Seq(Types \cup {"scalar", "nil"})
  BY GoEncoderPoolAssumption DEF FieldsOf
<1>4. ASSUME NEW t \in Types \cup {"nil"}
      PROVE  FixedSizeLowerBound(t) \in Nat
  <2> DEFINE D == 1..Len(FieldsOf(t))
             S == {i \in DOMAIN FieldsOf(t) : FieldsOf(t)[i] = "scalar"}
  <2>1. Len(FieldsOf(t)) \in Nat /\ S \subseteq D
    BY <1>3
  <2>2. IsFiniteSet(D)
    BY <2>1, FS_Interval
  <2>3. IsFiniteSet(S)
    BY <2>1, <2>2, FS_Subset
  <2> QED
    BY <2>3, FS_CardinalityType DEF FixedSizeLowerBound
<1> QED
  BY <1>1, <1>2, <1>3, <1>4

-----------------------------------------------------------------------------
\* The innermost call gets an array that is nobody else's, for its slice or for
\* its encoder, and nothing else happens to calls and encoders.
LEMMA TopChangeKeepsInv ==
  ASSUME Inv, NEW g \in Goroutines, stack[g] # <<>>,
         NEW f \in Frame, f.enc = Top(g).enc, SetTop(g, f),
         NEW a, OnlyOf(g, Depth(g), a),
         encBuf' \in [Encoders -> Slice],
         \A e \in Encoders : e # f.enc => encBuf'[e] = encBuf[e],
         {f.buf.arr, encBuf'[f.enc].arr} \subseteq ArraysOf(Top(g)) \cup {a},
         pool' = pool, kept' = kept, calls' = calls
  PROVE  Inv'
<1> DEFINE n == Depth(g)
<1>1. OwnersOK /\ Exclusive /\ ArraysApart
  BY DEF Inv
<1>2. n \in 1..Depth(g) /\ Top(g) = stack[g][n] /\ Top(g) \in Frame
  BY <1>1, TopFrame
<1>3. /\ stack' \in [Goroutines -> Seq(Frame)]
      /\ \A h \in Goroutines : Len(stack'[h]) = Len(stack[h])
      /\ stack'[g][n] = f
      /\ \A h \in Goroutines : \A j \in 1..Depth(h) :
           h # g \/ j # n => stack'[h][j] = stack[h][j]
  BY <1>1, SetTopFrames
<1> HIDE DEF n
<1>4. OwnersOK'
  BY <1>1, <1>3 DEF OwnersOK
<1>5. \A e \in pool : encBuf'[e] = encBuf[e]
  BY <1>1, <1>2 DEF Exclusive, OwnersOK
<1>6. ASSUME NEW h \in Goroutines, NEW j \in 1..Depth(h)
      PROVE  /\ stack'[h][j].enc = stack[h][j].enc
             /\ {stack'[h][j].buf.arr, encBuf'[stack'[h][j].enc].arr}
                  \subseteq ArraysOf(stack[h][j]) \cup (IF h = g /\ j = n THEN {a} ELSE {})
  <2>1. CASE h = g /\ j = n
    BY <1>2, <1>3, <2>1
  <2>2. CASE h # g \/ j # n
    <3>1. stack'[h][j] = stack[h][j] /\ stack[h][j].enc # f.enc
      BY <1>1, <1>2, <1>3, <2>2 DEF Exclusive
    <3>2. stack[h][j].enc \in Encoders
      <4>1. stack[h] \in Seq(Frame) /\ j \in 1..Len(stack[h])
        BY <1>1 DEF OwnersOK, Depth
      <4>2. stack[h][j] \in Frame
        BY <4>1
      <4> QED
        BY <4>2 DEF Frame
    <3> QED
      BY <3>1, <3>2 DEF ArraysOf
  <2> QED
    BY <2>1, <2>2
<1>7. OnlyOf(g, n, a)
  BY DEF n
<1>8. /\ Exclusive /\ ArraysApart /\ n \in 1..Depth(g)
      /\ \A h \in Goroutines : Len(stack'[h]) = Len(stack[h])
  BY <1>1, <1>2, <1>3
<1>9. Exclusive' /\ ArraysApart'
  BY <1>5, <1>6, <1>7, <1>8, ChangeKeepsOwnership, SMTT(60)
<1> QED
  BY <1>4, <1>9 DEF Inv

LEMMA BindKeepsInv ==
  ASSUME Inv, NEW g \in Goroutines, Bind(g)
  PROVE  Inv'
<1> DEFINE s == encBuf[Top(g).enc]
           m == FixedSizeLowerBound(Top(g).type)
           w == WithRoom(s, m)
           f == [Top(g) EXCEPT !.buf = w, !.stage = "fields"]
<1>1. OwnersOK /\ Exclusive /\ ArraysApart
  BY DEF Inv
<1>2. /\ stack[g] # <<>> /\ (Fits(s, m) \/ CanAllocate) /\ SetTop(g, f)
      /\ pool' = pool /\ encBuf' = encBuf /\ kept' = kept /\ calls' = calls
  BY DEF Bind
<1>3. Depth(g) \in 1..Depth(g) /\ Top(g) = stack[g][Depth(g)] /\ Top(g) \in Frame
  BY <1>1, <1>2, TopFrame
<1>4. m \in Nat /\ s \in Slice /\ s.arr \in ArraysOf(stack[g][Depth(g)])
  BY <1>1, <1>3, CellsHaveLength DEF Frame, OwnersOK, ArraysOf
<1>5. w \in Slice /\ OnlyOf(g, Depth(g), w.arr)
  <2> HIDE DEF s, m
  <2> QED
    BY <1>1, <1>2, <1>3, <1>4, RoomArray
<1> HIDE DEF s, m, w
<1>6. f \in Frame /\ f.enc = Top(g).enc /\ f.buf = w
  BY <1>3, <1>5 DEF Frame, Stages
<1> HIDE DEF f
<1>7. {f.buf.arr, encBuf'[f.enc].arr} \subseteq ArraysOf(Top(g)) \cup {w.arr}
  BY <1>2, <1>6 DEF ArraysOf
<1>8. encBuf' \in [Encoders -> Slice] /\ \A e \in Encoders : encBuf'[e] = encBuf[e]
  BY <1>1, <1>2 DEF OwnersOK
<1> QED
  BY <1>2, <1>5, <1>6, <1>7, <1>8, TopChangeKeepsInv

LEMMA AppendFieldKeepsInv ==
  ASSUME Inv, NEW g \in Goroutines, AppendField(g)
  PROVE  Inv'
<1> DEFINE s == Top(g).buf
           cells == ScalarCells(Top(g).type, Top(g).next)
           w == Appended(s, cells)
           f == [Top(g) EXCEPT !.buf = w, !.next = @ + 1]
<1>1. OwnersOK /\ Exclusive /\ ArraysApart
  BY DEF Inv
<1>2. /\ stack[g] # <<>> /\ (Fits(s, Len(cells)) \/ CanAllocate) /\ SetTop(g, f)
      /\ pool' = pool /\ encBuf' = encBuf /\ kept' = kept /\ calls' = calls
  BY DEF AppendField, AtField
<1>3. Depth(g) \in 1..Depth(g) /\ Top(g) = stack[g][Depth(g)] /\ Top(g) \in Frame
  BY <1>1, <1>2, TopFrame
<1>4. Len(cells) \in Nat /\ s \in Slice /\ s.arr \in ArraysOf(stack[g][Depth(g)])
  BY <1>3, CellsHaveLength DEF Frame, ArraysOf
<1> HIDE DEF s, cells
<1>5. w \in Slice /\ OnlyOf(g, Depth(g), w.arr)
  <2>1. WithRoom(s, Len(cells)) \in Slice /\ OnlyOf(g, Depth(g), WithRoom(s, Len(cells)).arr)
    BY <1>1, <1>2, <1>3, <1>4, RoomArray
  <2>2. w.arr = WithRoom(s, Len(cells)).arr /\ w \in Slice
    BY <1>4, <2>1 DEF Appended, Slice
  <2> QED
    BY <2>1, <2>2
<1> HIDE DEF w
<1>6. f \in Frame /\ f.enc = Top(g).enc /\ f.buf = w
  <2>1. Top(g).next + 1 \in Nat
    BY <1>3 DEF Frame
  <2> QED
    BY <1>3, <1>5, <2>1 DEF Frame
<1> HIDE DEF f
<1>7. {f.buf.arr, encBuf'[f.enc].arr} \subseteq ArraysOf(Top(g)) \cup {w.arr}
  BY <1>2, <1>6 DEF ArraysOf
<1>8. encBuf' \in [Encoders -> Slice] /\ \A e \in Encoders : encBuf'[e] = encBuf[e]
  BY <1>1, <1>2 DEF OwnersOK
<1> QED
  BY <1>2, <1>5, <1>6, <1>7, <1>8, TopChangeKeepsInv

LEMMA SetBufKeepsInv ==
  ASSUME Inv, NEW g \in Goroutines, SetBuf(g)
  PROVE  Inv'
<1> DEFINE f == [Top(g) EXCEPT !.stage = "done"]
<1>1. OwnersOK /\ Exclusive /\ ArraysApart
  BY DEF Inv
<1>2. /\ stack[g] # <<>> /\ SetTop(g, f)
      /\ encBuf' = [encBuf EXCEPT ![Top(g).enc] = Top(g).buf]
      /\ pool' = pool /\ kept' = kept /\ calls' = calls
  BY DEF SetBuf
<1>3. Depth(g) \in 1..Depth(g) /\ Top(g) = stack[g][Depth(g)] /\ Top(g) \in Frame
  BY <1>1, <1>2, TopFrame
<1>4. f \in Frame /\ f.enc = Top(g).enc /\ f.buf = Top(g).buf
  BY <1>3 DEF Frame, Stages
<1>5. OnlyOf(g, Depth(g), Top(g).buf.arr)
  BY <1>1, <1>3, OwnArray DEF ArraysOf
<1> HIDE DEF f
<1>6. /\ encBuf' \in [Encoders -> Slice] /\ encBuf'[f.enc] = f.buf
      /\ \A e \in Encoders : e # f.enc => encBuf'[e] = encBuf[e]
  BY <1>1, <1>2, <1>3, <1>4 DEF OwnersOK, Frame
<1>7. {f.buf.arr, encBuf'[f.enc].arr} \subseteq ArraysOf(Top(g)) \cup {Top(g).buf.arr}
  BY <1>4, <1>6
<1> QED
  BY <1>2, <1>4, <1>5, <1>6, <1>7, TopChangeKeepsInv

\* The call around the innermost one, and what it is to append.
Parent(g) == stack[g][Depth(g) - 1]
ParentCells(g) == Envelope(Contents(encBuf[Top(g).enc]))
ParentBuf(g) == Appended(Parent(g).buf, ParentCells(g))

\* The message is copied into an array that is the parent's alone.
LEMMA ParentOwnsCopy ==
  ASSUME Inv, NEW g \in Goroutines, AppendMessage(g)
  PROVE  /\ stack[g] # <<>> /\ Depth(g) \in Nat /\ Depth(g) - 1 \in 1..Depth(g)
         /\ Parent(g) \in Frame /\ Top(g) \in Frame /\ Top(g) = stack[g][Depth(g)]
         /\ Len(ParentCells(g)) \in Nat /\ Parent(g).buf \in Slice
         /\ ParentBuf(g) \in Slice /\ OnlyOf(g, Depth(g) - 1, ParentBuf(g).arr)
<1>1. OwnersOK /\ ArraysApart
  BY DEF Inv
<1>2. Depth(g) > 1 /\ (Fits(Parent(g).buf, Len(ParentCells(g))) \/ CanAllocate)
  BY DEF AppendMessage, Parent, ParentCells
<1>3. /\ stack[g] # <<>> /\ Depth(g) \in Nat /\ Depth(g) - 1 \in 1..Depth(g)
      /\ Parent(g) \in Frame /\ Top(g) \in Frame /\ Top(g) = stack[g][Depth(g)]
  <2>1. stack[g] \in Seq(Frame) /\ Depth(g) = Len(stack[g]) /\ Depth(g) \in Nat
    BY <1>1 DEF OwnersOK, Depth
  <2>2. Depth(g) - 1 \in 1..Len(stack[g]) /\ Depth(g) \in 1..Len(stack[g])
    BY <1>2, <2>1
  <2> QED
    BY <1>2, <2>1, <2>2 DEF Top, Parent
<1>4. /\ Len(ParentCells(g)) \in Nat /\ Parent(g).buf \in Slice
      /\ Parent(g).buf.arr \in ArraysOf(stack[g][Depth(g) - 1])
  <2>1. encBuf[Top(g).enc] \in Slice
    BY <1>1, <1>3 DEF OwnersOK, Frame
  <2> QED
    BY <1>3, <2>1, CellsHaveLength DEF Frame, ArraysOf, Parent, ParentCells
<1> DEFINE m == Len(ParentCells(g))
           room == WithRoom(Parent(g).buf, m)
<1>5. room \in Slice /\ OnlyOf(g, Depth(g) - 1, room.arr)
  BY <1>1, <1>2, <1>3, <1>4, RoomArray
<1>6. ParentBuf(g) = [room EXCEPT !.len = @ + m]
  BY DEF ParentBuf, Appended
<1>7. ParentBuf(g).arr = room.arr /\ ParentBuf(g) \in Slice
  <2> HIDE DEF room
  <2> QED
    BY <1>4, <1>5, <1>6 DEF Slice
<1> QED
  BY <1>3, <1>4, <1>5, <1>7

\* The two calls it changes, and how.
LEMMA MessageCopied ==
  ASSUME Inv, NEW g \in Goroutines, AppendMessage(g)
  PROVE  /\ stack' \in [Goroutines -> Seq(Frame)]
         /\ \A h \in Goroutines : Len(stack'[h]) = Len(stack[h])
         /\ stack'[g][Depth(g) - 1] =
              [Parent(g) EXCEPT !.buf = ParentBuf(g), !.next = Parent(g).next + 1]
         /\ stack'[g][Depth(g)] = [Top(g) EXCEPT !.stage = "copied"]
         /\ \A h \in Goroutines : \A j \in 1..Depth(h) :
              h # g \/ (j # Depth(g) - 1 /\ j # Depth(g)) => stack'[h][j] = stack[h][j]
<1> DEFINE n == Depth(g) - 1
           p == [Parent(g) EXCEPT !.buf = ParentBuf(g), !.next = Parent(g).next + 1]
           f == [Top(g) EXCEPT !.stage = "copied"]
           after == [stack[g] EXCEPT ![n] = p, ![Depth(g)] = f]
<1>1. stack \in [Goroutines -> Seq(Frame)]
  BY DEF Inv, OwnersOK
<1>2. /\ Depth(g) = Len(stack[g]) /\ Depth(g) \in Nat /\ n \in 1..Depth(g)
      /\ Parent(g) \in Frame /\ Top(g) \in Frame /\ ParentBuf(g) \in Slice
  BY ParentOwnsCopy DEF Depth
<1>3. p \in Frame /\ f \in Frame
  <2>1. Parent(g).next + 1 \in Nat
    BY <1>2 DEF Frame
  <2> QED
    BY <1>2, <2>1 DEF Frame, Stages
<1>4. stack' = [stack EXCEPT ![g] = after]
  BY DEF AppendMessage, Parent, ParentBuf, ParentCells
<1> HIDE DEF p, f
<1>5. /\ after \in Seq(Frame) /\ Len(after) = Len(stack[g])
      /\ after[n] = p /\ after[Depth(g)] = f
      /\ \A j \in 1..Depth(g) : j # n /\ j # Depth(g) => after[j] = stack[g][j]
  <2>1. ASSUME NEW c \in Seq(Frame), NEW i \in 1..Len(c), NEW x \in Frame
        PROVE  /\ [c EXCEPT ![i] = x] \in Seq(Frame) /\ Len([c EXCEPT ![i] = x]) = Len(c)
               /\ [c EXCEPT ![i] = x][i] = x
               /\ \A j \in 1..Len(c) : j # i => [c EXCEPT ![i] = x][j] = c[j]
    OBVIOUS
  <2> DEFINE c == [stack[g] EXCEPT ![n] = p]
  <2>2. /\ stack[g] \in Seq(Frame) /\ n \in 1..Len(stack[g])
        /\ Depth(g) \in 1..Len(stack[g]) /\ n # Depth(g)
    BY <1>1, <1>2
  <2>3. /\ c \in Seq(Frame) /\ Len(c) = Len(stack[g]) /\ c[n] = p
        /\ \A j \in 1..Len(stack[g]) : j # n => c[j] = stack[g][j]
    BY <1>3, <2>1, <2>2
  <2>4. after = [c EXCEPT ![Depth(g)] = f]
    OBVIOUS
  <2> HIDE DEF c, n
  <2>5. /\ after \in Seq(Frame) /\ Len(after) = Len(c) /\ after[Depth(g)] = f
        /\ \A j \in 1..Len(c) : j # Depth(g) => after[j] = c[j]
    <3> HIDE DEF after
    <3> QED
      BY <1>3, <2>1, <2>2, <2>3, <2>4
  <2> HIDE DEF after
  <2> QED
    BY <1>2, <2>2, <2>3, <2>5
<1> HIDE DEF after, n
<1>6. /\ stack' \in [Goroutines -> Seq(Frame)] /\ stack'[g] = after
      /\ \A h \in Goroutines : h # g => stack'[h] = stack[h]
  BY <1>1, <1>4, <1>5
<1>7. /\ \A h \in Goroutines : Len(stack'[h]) = Len(stack[h])
      /\ \A h \in Goroutines : \A j \in 1..Depth(h) :
           h # g \/ (j # n /\ j # Depth(g)) => stack'[h][j] = stack[h][j]
  BY <1>5, <1>6
<1> QED
  BY <1>5, <1>6, <1>7 DEF n, p, f

LEMMA AppendMessageKeepsInv ==
  ASSUME Inv, NEW g \in Goroutines, AppendMessage(g)
  PROVE  Inv'
<1> DEFINE n == Depth(g) - 1
           a == ParentBuf(g).arr
<1>1. OwnersOK /\ Exclusive /\ ArraysApart
  BY DEF Inv
<1>2. pool' = pool /\ encBuf' = encBuf /\ kept' = kept /\ calls' = calls
  BY DEF AppendMessage
<1>3. /\ n \in 1..Depth(g) /\ Parent(g) \in Frame /\ Top(g) \in Frame
      /\ Top(g) = stack[g][Depth(g)] /\ Parent(g) = stack[g][n]
      /\ OnlyOf(g, n, a)
  BY ParentOwnsCopy DEF Parent
<1>4. /\ stack' \in [Goroutines -> Seq(Frame)]
      /\ \A h \in Goroutines : Len(stack'[h]) = Len(stack[h])
      /\ stack'[g][n] = [Parent(g) EXCEPT !.buf = ParentBuf(g), !.next = Parent(g).next + 1]
      /\ stack'[g][Depth(g)] = [Top(g) EXCEPT !.stage = "copied"]
      /\ \A h \in Goroutines : \A j \in 1..Depth(h) :
           h # g \/ (j # n /\ j # Depth(g)) => stack'[h][j] = stack[h][j]
  BY MessageCopied
<1>5. /\ stack'[g][n].enc = Parent(g).enc /\ stack'[g][n].buf.arr = a
      /\ stack'[g][Depth(g)].enc = Top(g).enc /\ stack'[g][Depth(g)].buf = Top(g).buf
  BY <1>3, <1>4 DEF Frame
<1> HIDE DEF n
<1>6. ASSUME NEW h \in Goroutines, NEW j \in 1..Depth(h)
      PROVE  /\ stack'[h][j].enc = stack[h][j].enc
             /\ {stack'[h][j].buf.arr, encBuf'[stack'[h][j].enc].arr}
                  \subseteq ArraysOf(stack[h][j]) \cup (IF h = g /\ j = n THEN {a} ELSE {})
  <2>1. CASE h = g /\ j = n
    <3>1. /\ stack'[h][j].enc = stack[h][j].enc
          /\ stack'[h][j].buf.arr = a /\ encBuf' = encBuf
      BY <1>2, <1>3, <1>5, <2>1
    <3> QED
      BY <2>1, <3>1 DEF ArraysOf
  <2>2. CASE h # g \/ j # n
    <3>1. /\ stack'[h][j].enc = stack[h][j].enc
          /\ stack'[h][j].buf = stack[h][j].buf /\ encBuf' = encBuf
      BY <1>2, <1>3, <1>4, <1>5, <2>2, ZenonT(30)
    <3> QED
      BY <3>1 DEF ArraysOf
  <2> QED
    BY <2>1, <2>2
<1>7. OwnersOK'
  BY <1>1, <1>2, <1>4 DEF OwnersOK
<1>8. /\ Exclusive /\ ArraysApart /\ n \in 1..Depth(g) /\ OnlyOf(g, n, a)
      /\ \A h \in Goroutines : Len(stack'[h]) = Len(stack[h])
      /\ pool' = pool /\ kept' = kept /\ \A e \in pool : encBuf'[e] = encBuf[e]
  BY <1>1, <1>2, <1>3, <1>4
<1> HIDE DEF a
<1>9. Exclusive' /\ ArraysApart'
  BY <1>6, <1>8, ChangeKeepsOwnership, SMTT(60)
<1> QED
  BY <1>7, <1>9 DEF Inv

\* The actions that begin and end a call.
LEMMA BeginKeepsInv ==
  ASSUME Inv, NEW g \in Goroutines, NEW t \in Types, MarshalTo(g, t) \/ Marshal(g, t)
  PROVE  Inv'
<1>1. PICK e \in Encoders, pooled \in BOOLEAN :
        (GetEncoder(e) \/ Allocate(e)) /\ Begin(g, t, e, pooled)
  BY DEF MarshalTo, Marshal
<1>2. stack' = [stack EXCEPT ![g] = Append(@, NewFrame(t, e, "bind", pooled))]
  <2>1. stack[g] = <<>> /\ stack' = [stack EXCEPT ![g] = <<NewFrame(t, e, "bind", pooled)>>]
    BY <1>1 DEF Begin
  <2> QED
    BY <2>1
<1>3. kept' = kept /\ calls' \in 0..MaxCalls
  BY <1>1, GoEncoderPoolAssumption DEF Begin, Inv, OwnersOK
<1>4. t \in Types \cup {"nil"} /\ "bind" \in Stages
  BY DEF Stages
<1> QED
  BY <1>1, <1>2, <1>3, <1>4, CallKeepsInv

LEMMA EnterNestedKeepsInv ==
  ASSUME Inv, NEW g \in Goroutines, EnterNested(g)
  PROVE  Inv'
<1> DEFINE t == FieldOf(g)
           stage == IF FieldOf(g) = "nil" THEN "done" ELSE "bind"
<1>1. OwnersOK
  BY DEF Inv
<1>2. AtField(g) /\ t # "scalar" /\ kept' = kept /\ calls' = calls
  BY DEF EnterNested
<1>3. PICK e \in Encoders :
        /\ GetEncoder(e)
        /\ stack' = [stack EXCEPT ![g] = Append(@, NewFrame(t, e, stage, TRUE))]
  BY DEF EnterNested
<1>4. t \in Types \cup {"nil"}
  <2>1. Top(g) \in Frame
    BY <1>1, <1>2, TopFrame DEF AtField
  <2>2. FieldsOf(Top(g).type) \in Seq(Types \cup {"scalar", "nil"})
    BY <2>1, CellsHaveLength DEF Frame
  <2>3. t \in Types \cup {"scalar", "nil"}
    BY <1>2, <2>2 DEF AtField, FieldOf
  <2> QED
    BY <1>2, <2>3
<1>5. stage \in Stages /\ calls' \in 0..MaxCalls
  BY <1>1, <1>2 DEF Stages, OwnersOK
<1> HIDE DEF t, stage
<1> QED
  BY <1>2, <1>3, <1>4, <1>5, CallKeepsInv

LEMMA EndKeepsInv ==
  ASSUME Inv, NEW g \in Goroutines, PutEncoder(g) \/ ReturnBytes(g)
  PROVE  Inv'
<1>1. OwnersOK /\ Exclusive /\ ArraysApart
  BY DEF Inv
<1>2. /\ stack[g] # <<>> /\ encBuf' = encBuf /\ calls' = calls
      /\ stack' = [stack EXCEPT ![g] = SubSeq(@, 1, Depth(g) - 1)]
      /\ \/ pool' = pool \cup {Top(g).enc} /\ kept' = kept
         \/ /\ pool' = pool
            /\ kept' = kept \cup {[type |-> Top(g).type, bytes |-> encBuf[Top(g).enc]]}
  BY DEF PutEncoder, ReturnBytes, Keep
<1>3. Exclusive' /\ ArraysApart'
  BY <1>1, <1>2, PopKeepsOwnership
<1>4. Top(g) \in Frame
  BY <1>1, <1>2, TopFrame
<1>5. stack' \in [Goroutines -> Seq(Frame)]
  <2>1. stack[g] \in Seq(Frame) /\ Depth(g) \in Nat /\ Depth(g) = Len(stack[g])
    BY <1>1 DEF OwnersOK, Depth
  <2>2. SubSeq(stack[g], 1, Depth(g) - 1) \in Seq(Frame)
    BY <2>1
  <2> QED
    BY <1>1, <1>2, <2>2 DEF OwnersOK
<1>6. pool' \subseteq Encoders /\ kept' \subseteq [type : Types \cup {"nil"}, bytes : Slice]
  BY <1>1, <1>2, <1>4 DEF OwnersOK, Frame
<1>7. OwnersOK'
  BY <1>1, <1>2, <1>5, <1>6 DEF OwnersOK
<1> QED
  BY <1>3, <1>7 DEF Inv

-----------------------------------------------------------------------------
LEMMA InvHolds == Spec => []Inv
<1>1. Init => Inv
  <2> SUFFICES ASSUME Init PROVE Inv
    OBVIOUS
  <2>1. \A g \in Goroutines : stack[g] = <<>> /\ Depth(g) = 0
    BY DEF Init, Depth
  <2>2. OwnersOK
    <3>1. encBuf \in [Encoders -> Slice]
      BY GoEncoderPoolAssumption DEF Init, Slice
    <3> QED
      BY <3>1, GoEncoderPoolAssumption DEF Init, OwnersOK
  <2>3. Exclusive /\ ArraysApart
    BY <2>1 DEF Init, Exclusive, ArraysApart
  <2> QED
    BY <2>2, <2>3 DEF Inv
<1>2. Inv /\ [Next]_vars => Inv'
  <2> SUFFICES ASSUME Inv, [Next]_vars PROVE Inv'
    OBVIOUS
  <2>1. CASE UNCHANGED vars
    BY <2>1, SMTT(30) DEF vars, Inv, OwnersOK, Exclusive, ArraysApart, ArraysOf, Depth
  <2>2. ASSUME NEW g \in Goroutines, NEW t \in Types, MarshalTo(g, t) \/ Marshal(g, t)
        PROVE  Inv'
    BY <2>2, BeginKeepsInv
  <2>3. ASSUME NEW g \in Goroutines,
               \/ Bind(g) \/ AppendField(g) \/ EnterNested(g) \/ SetBuf(g)
               \/ AppendMessage(g) \/ PutEncoder(g) \/ ReturnBytes(g)
        PROVE  Inv'
    BY <2>3, BindKeepsInv, AppendFieldKeepsInv, EnterNestedKeepsInv, SetBufKeepsInv,
       AppendMessageKeepsInv, EndKeepsInv
  <2> QED
    BY <2>1, <2>2, <2>3 DEF Next
<1> QED
  BY <1>1, <1>2, PTL DEF Spec

\* An encoder is in one place: with one call of one goroutine, or in the pool
\* that GetEncoder and PutEncoder share, or nowhere.
THEOREM ExclusiveHolds == Spec => []Exclusive
<1>1. Inv => Exclusive
  BY DEF Inv
<1> QED
  BY <1>1, InvHolds, PTL

\* The arrays of Append...To calls in progress, of pooled encoders and of bytes
\* that Marshal returned are all different.
THEOREM ArraysApartHolds == Spec => []ArraysApart
<1>1. Inv => ArraysApart
  BY DEF Inv
<1> QED
  BY <1>1, InvHolds, PTL

-----------------------------------------------------------------------------
(* Recursive definitions, and the one of EncodingUpTo.                     *)

\* Every part of P has a point with nothing of that part below it.
Lowest(P, below) ==
  \A S \in SUBSET P : S # {} => \E x \in S : \A y \in S : <<y, x>> \notin below

\* G makes a value for a point of P from what a function has below it.
LooksBelow(G, P, V, below) ==
  /\ G \in [[P -> V] \X P -> V]
  /\ \A x \in P : \A f, g \in [P -> V] :
       (\A y \in P : <<y, x>> \in below => f[y] = g[y]) => G[<<f, x>>] = G[<<g, x>>]

HasSolution(G, P, V) == \E f \in [P -> V] : \A x \in P : f[x] = G[<<f, x>>]

\* A recursive definition by cases on what is below defines a function: the
\* solutions on the downward closed parts of the domain agree, and the largest
\* of them leaves out no lowest point.
LEMMA RecursionDefines ==
  ASSUME NEW P, NEW V, NEW below, Lowest(P, below), V # {},
         NEW G, LooksBelow(G, P, V, below)
  PROVE  HasSolution(G, P, V)
<1> DEFINE Closed(S) == \A x \in S : \A y \in P : <<y, x>> \in below => y \in S
           Solves(f, S) == Closed(S) /\ \A x \in S : f[x] = G[<<f, x>>]
           U == {x \in P : \E S \in SUBSET P : \E f \in [P -> V] : x \in S /\ Solves(f, S)}
           Value(x) == CHOOSE w \in V : \E S \in SUBSET P : \E f \in [P -> V] :
                         x \in S /\ Solves(f, S) /\ w = f[x]
           F == [x \in P |-> IF x \in U THEN Value(x) ELSE CHOOSE v \in V : TRUE]
<1> USE DEF LooksBelow
<1>1. ASSUME NEW S \in SUBSET P, NEW T \in SUBSET P,
             NEW f \in [P -> V], NEW g \in [P -> V], Solves(f, S), Solves(g, T)
      PROVE  \A x \in S \cap T : f[x] = g[x]
  <2> DEFINE D == {x \in S \cap T : f[x] # g[x]}
  <2> SUFFICES ASSUME D # {}
               PROVE  FALSE
    OBVIOUS
  <2>1. PICK x \in D : \A y \in D : <<y, x>> \notin below
    BY DEF Lowest
  <2>2. \A y \in P : <<y, x>> \in below => f[y] = g[y]
    BY <1>1, <2>1
  <2>3. G[<<f, x>>] = G[<<g, x>>]
    BY <2>1, <2>2
  <2> QED
    BY <1>1, <2>1, <2>3
<1>2. ASSUME NEW S \in SUBSET P, NEW f \in [P -> V], Solves(f, S), NEW x \in S
      PROVE  x \in U /\ F[x] = f[x]
  <2>1. x \in U
    BY <1>2
  <2>2. Value(x) \in V /\ \E T \in SUBSET P : \E g \in [P -> V] :
          x \in T /\ Solves(g, T) /\ Value(x) = g[x]
    <3> HIDE DEF Solves
    <3> QED
      BY <1>2
  <2>3. Value(x) = f[x]
    <3>1. PICK T \in SUBSET P, g \in [P -> V] : x \in T /\ Solves(g, T) /\ Value(x) = g[x]
      BY <2>2
    <3> HIDE DEF Solves, Value
    <3>2. f[x] = g[x]
      BY <1>1, <1>2, <3>1
    <3> QED
      BY <3>1, <3>2
  <2> HIDE DEF Value, U
  <2> QED
    BY <2>1, <2>3
<1>3. F \in [P -> V]
  <2>1. ASSUME NEW x \in U
        PROVE  Value(x) \in V
    <3>1. PICK S \in SUBSET P, f \in [P -> V] : x \in S /\ Solves(f, S)
      OBVIOUS
    <3>2. f[x] \in V
      OBVIOUS
    <3> HIDE DEF Solves
    <3> QED
      BY <3>1, <3>2
  <2> HIDE DEF Value, U
  <2> QED
    BY <2>1
<1>4. Solves(F, U) /\ U \subseteq P
  <2>1. ASSUME NEW x \in U
        PROVE  /\ \A y \in P : <<y, x>> \in below => y \in U
               /\ F[x] = G[<<F, x>>]
    <3>1. PICK S \in SUBSET P, f \in [P -> V] : x \in S /\ Solves(f, S)
      OBVIOUS
    <3>2. \A y \in P : <<y, x>> \in below => y \in S
      BY <3>1
    <3>3. \A y \in S : y \in U /\ F[y] = f[y]
      <4> HIDE DEF Solves, U, F
      <4> QED
        BY <1>2, <3>1
    <3>4. f[x] = G[<<f, x>>]
      BY <3>1
    <3> HIDE DEF U, F
    <3>5. \A y \in P : <<y, x>> \in below => F[y] = f[y]
      BY <3>2, <3>3
    <3>6. G[<<f, x>>] = G[<<F, x>>]
      BY <1>3, <3>1, <3>5
    <3> QED
      BY <3>1, <3>2, <3>3, <3>4, <3>6
  <2> HIDE DEF F
  <2> QED
    BY <2>1
<1> HIDE DEF F
<1>5. U = P
  <2> SUFFICES ASSUME P \ U # {}
               PROVE  FALSE
    BY <1>4
  <2>1. PICK x \in P \ U : \A y \in P \ U : <<y, x>> \notin below
    <3> HIDE DEF U
    <3> QED
      BY DEF Lowest
  <2> DEFINE H == [F EXCEPT ![x] = G[<<F, x>>]]
  <2>2. G[<<F, x>>] \in V
    BY <1>3, <2>1
  <2>3. H \in [P -> V] /\ H[x] = G[<<F, x>>] /\ \A y \in P : y # x => H[y] = F[y]
    BY <1>3, <2>1, <2>2
  <2> HIDE DEF H
  <2> HIDE DEF U
  <2>4. \A y \in P : <<y, x>> \in below => y \in U /\ H[y] = F[y]
    BY <2>1, <2>3
  <2>5. G[<<H, x>>] = G[<<F, x>>]
    BY <1>3, <2>1, <2>3, <2>4, ZenonT(30)
  <2>6. ASSUME NEW z \in U
        PROVE  H[z] = G[<<H, z>>]
    <3>1. z # x /\ z \in P
      BY <1>4, <2>1
    <3>2. \A y \in P : <<y, z>> \in below => H[y] = F[y]
      BY <1>4, <2>1, <2>3
    <3>3. G[<<H, z>>] = G[<<F, z>>]
      BY <1>3, <2>3, <3>1, <3>2
    <3> QED
      BY <1>4, <2>3, <3>1, <3>3
  <2>7. Solves(H, U \cup {x})
    BY <1>4, <2>3, <2>4, <2>5, <2>6
  <2>8. U \cup {x} \in SUBSET P
    BY <1>4, <2>1
  <2> HIDE DEF Solves
  <2>9. x \in U
    BY <2>3, <2>7, <2>8 DEF U
  <2> QED
    BY <2>1, <2>9
<1> HIDE DEF U
<1> QED
  BY <1>3, <1>4, <1>5 DEF HasSolution

-----------------------------------------------------------------------------
\* What a cell can hold.
Cells == (Types \cup {"nil", "length", "unused"}) \X Nat

LEMMA NatLowest ==
  ASSUME NEW S \in SUBSET Nat, S # {}
  PROVE  \E n \in S : \A m \in S : n <= m
<1>1. PICK n \in S : \A m \in S : ~ (<<m, n>> \in OpToRel(<, Nat))
  BY NatLessThanWellFounded, WFMin
<1>2. ASSUME NEW m \in S
      PROVE  n <= m
  <2>1. m \in Nat /\ n \in Nat
    OBVIOUS
  <2>2. ~(m < n)
    BY <1>1, <2>1 DEF OpToRel
  <2> QED
    BY <2>1, <2>2
<1> QED
  BY <1>2

LEMMA FieldPrefixIs ==
  /\ \A p \in FieldPrefixes : p = <<p[1], p[2]>> /\ p[2] \in Nat
  /\ \A t, n : <<t, n>> \in FieldPrefixes <=>
       t \in Types \cup {"nil"} /\ n \in 0..Len(FieldsOf(t))
  /\ \A t \in Types \cup {"nil"} : Whole(t) \in FieldPrefixes
<1>1. ASSUME NEW t \in Types \cup {"nil"}
      PROVE  FieldsOf(t) \in Seq(Types \cup {"scalar", "nil"})
  BY GoEncoderPoolAssumption DEF FieldsOf
<1>2. \A t, n : <<t, n>> \in FieldPrefixes <=>
        t \in Types \cup {"nil"} /\ n \in 0..Len(FieldsOf(t))
  BY DEF FieldPrefixes
<1>3. \A p \in FieldPrefixes : p = <<p[1], p[2]>> /\ p[2] \in Nat
  BY DEF FieldPrefixes
<1>4. \A t \in Types \cup {"nil"} : Len(FieldsOf(t)) \in 0..Len(FieldsOf(t))
  BY <1>1
<1> QED
  BY <1>2, <1>3, <1>4 DEF Whole

\* The fields before a field, and the fields of the message nested in it.
Precedes(q, p) ==
  /\ p[2] > 0
  /\ \/ q = <<p[1], p[2] - 1>>
     \/ /\ FieldsOf(p[1])[p[2]] # "scalar"
        /\ q = Whole(FieldsOf(p[1])[p[2]])

Below == {e \in FieldPrefixes \X FieldPrefixes : Precedes(e[1], e[2])}

\* The fields of a message are finitely many and messages are not nested in
\* themselves.
LEMMA BelowIsLowest == Lowest(FieldPrefixes, Below)
<1> SUFFICES ASSUME NEW S \in SUBSET FieldPrefixes, S # {}
             PROVE  \E x \in S : \A y \in S : <<y, x>> \notin Below
  BY DEF Lowest
<1>1. CASE <<"nil", 0>> \in S
  <2>1. \A y \in S : <<y, <<"nil", 0>> >> \notin Below
    BY DEF Below, Precedes
  <2> QED
    BY <1>1, <2>1
<1>2. CASE <<"nil", 0>> \notin S
  <2> DEFINE T == {t \in Types : \E n \in Nat : <<t, n>> \in S}
  <2>1. \A p \in S : p[1] \in T /\ p[2] \in Nat /\ p = <<p[1], p[2]>>
    <3>1. ASSUME NEW p \in S
          PROVE  p[1] \in T /\ p[2] \in Nat /\ p = <<p[1], p[2]>>
      <4>1. p = <<p[1], p[2]>> /\ p[2] \in Nat
        BY FieldPrefixIs
      <4>2. p[1] \in Types \cup {"nil"} /\ p[2] \in 0..Len(FieldsOf(p[1]))
        BY <4>1, FieldPrefixIs
      <4>3. p[1] = "nil" => p[2] = 0
        BY <4>2 DEF FieldsOf
      <4> QED
        BY <1>2, <4>1, <4>2, <4>3
    <3> QED
      BY <3>1
  <2>2. PICK t \in T : \A i \in DOMAIN Fields[t] : Fields[t][i] \notin T
    <3>1. T \in SUBSET Types /\ T # {}
      BY <2>1
    <3> QED
      BY <3>1, NestingAssumption
  <2> DEFINE N == {n \in Nat : <<t, n>> \in S}
  <2>3. PICK n \in N : \A m \in N : n <= m
    <3>1. N \in SUBSET Nat /\ N # {}
      BY <2>2
    <3> QED
      BY <3>1, NatLowest
  <2>4. ASSUME NEW y \in S, <<y, <<t, n>> >> \in Below
        PROVE  FALSE
    <3>1. /\ n > 0
          /\ \/ y = <<t, n - 1>>
             \/ FieldsOf(t)[n] # "scalar" /\ y = Whole(FieldsOf(t)[n])
      BY <2>4 DEF Below, Precedes
    <3>2. CASE y = <<t, n - 1>>
      <4>1. n \in Nat /\ n - 1 \in Nat
        BY <3>1
      <4>2. n - 1 \in N
        BY <2>4, <3>2, <4>1
      <4> QED
        BY <2>3, <4>1, <4>2
    <3>3. CASE y = Whole(FieldsOf(t)[n])
      <4>1. t \in Types /\ <<t, n>> \in FieldPrefixes
        BY <2>2, <2>3
      <4>2. n \in 1..Len(FieldsOf(t)) /\ t # "nil"
        BY <3>1, <4>1, FieldPrefixIs, GoEncoderPoolAssumption
      <4>3. n \in DOMAIN Fields[t] /\ FieldsOf(t)[n] = Fields[t][n]
        BY <4>1, <4>2, GoEncoderPoolAssumption DEF FieldsOf
      <4>4. y[1] = Fields[t][n]
        BY <3>3, <4>3 DEF Whole
      <4> QED
        BY <2>1, <2>2, <2>4, <4>3, <4>4
    <3> QED
      BY <3>1, <3>2, <3>3
  <2> QED
    BY <2>3, <2>4
<1> QED
  BY <1>1, <1>2

\* What the definition of EncodingUpTo says of one of its values.
EncodingStep(f, p) ==
  IF p[2] = 0 THEN <<>>
  ELSE f[<<p[1], p[2] - 1>>] \o
         (IF FieldsOf(p[1])[p[2]] = "scalar" THEN ScalarCells(p[1], p[2])
          ELSE Envelope(f[Whole(FieldsOf(p[1])[p[2]])]))

\* What a step looks at comes before.
LEMMA StepLooksBelow ==
  ASSUME NEW p \in FieldPrefixes, p[2] # 0
  PROVE  /\ p[1] \in Types /\ p[2] \in 1..Len(FieldsOf(p[1]))
         /\ FieldsOf(p[1])[p[2]] \in Types \cup {"scalar", "nil"}
         /\ <<p[1], p[2] - 1>> \in FieldPrefixes
         /\ <<(<<p[1], p[2] - 1>>), p>> \in Below
         /\ FieldsOf(p[1])[p[2]] # "scalar" =>
              /\ Whole(FieldsOf(p[1])[p[2]]) \in FieldPrefixes
              /\ <<Whole(FieldsOf(p[1])[p[2]]), p>> \in Below
<1>1. /\ p = <<p[1], p[2]>> /\ p[2] \in Nat
      /\ p[1] \in Types \cup {"nil"} /\ p[2] \in 0..Len(FieldsOf(p[1]))
  BY FieldPrefixIs
<1>2. p[1] \in Types /\ FieldsOf(p[1]) \in Seq(Types \cup {"scalar", "nil"})
  BY <1>1, GoEncoderPoolAssumption DEF FieldsOf
<1>3. /\ p[2] \in 1..Len(FieldsOf(p[1])) /\ p[2] - 1 \in 0..Len(FieldsOf(p[1]))
      /\ FieldsOf(p[1])[p[2]] \in Types \cup {"scalar", "nil"}
  BY <1>1, <1>2
<1>4. <<p[1], p[2] - 1>> \in FieldPrefixes
  BY <1>1, <1>3, FieldPrefixIs
<1>5. FieldsOf(p[1])[p[2]] # "scalar" => Whole(FieldsOf(p[1])[p[2]]) \in FieldPrefixes
  BY <1>3, FieldPrefixIs
<1>6. p[2] > 0
  BY <1>1
<1>7. <<(<<p[1], p[2] - 1>>), p>> \in Below
  BY <1>4, <1>6, Zenon DEF Below, Precedes
<1>8. FieldsOf(p[1])[p[2]] # "scalar" => <<Whole(FieldsOf(p[1])[p[2]]), p>> \in Below
  BY <1>5, <1>6, Zenon DEF Below, Precedes
<1> QED
  BY <1>2, <1>3, <1>4, <1>5, <1>7, <1>8

LEMMA StepGivesCells ==
  ASSUME NEW p \in FieldPrefixes, NEW f,
         \A q \in FieldPrefixes : <<q, p>> \in Below => f[q] \in Seq(Cells)
  PROVE  EncodingStep(f, p) \in Seq(Cells)
<1>1. CASE p[2] = 0
  BY <1>1 DEF EncodingStep
<1>2. CASE p[2] # 0
  <2> DEFINE before == f[<<p[1], p[2] - 1>>]
             inner == f[Whole(FieldsOf(p[1])[p[2]])]
  <2>1. before \in Seq(Cells)
    BY <1>2, StepLooksBelow
  <2>2. CASE FieldsOf(p[1])[p[2]] = "scalar"
    <3>1. <<p[1], p[2]>> \in Cells
      BY <1>2, StepLooksBelow, FieldPrefixIs DEF Cells
    <3>2. ScalarCells(p[1], p[2]) \in Seq(Cells)
      BY <3>1 DEF ScalarCells
    <3> QED
      BY <1>2, <2>1, <2>2, <3>2 DEF EncodingStep
  <2>3. CASE FieldsOf(p[1])[p[2]] # "scalar"
    <3>1. inner \in Seq(Cells)
      BY <1>2, <2>3, StepLooksBelow
    <3> HIDE DEF inner, before
    <3>2. <<"length", Len(inner)>> \in Cells
      BY <3>1 DEF Cells
    <3>3. Envelope(inner) \in Seq(Cells)
      BY <3>1, <3>2 DEF Envelope
    <3>4. before \o Envelope(inner) \in Seq(Cells)
      BY <2>1, <3>3
    <3> QED
      BY <1>2, <2>3, <3>4 DEF EncodingStep, before, inner
  <2> QED
    BY <2>2, <2>3
<1> QED
  BY <1>1, <1>2

LEMMA StepAgrees ==
  ASSUME NEW p \in FieldPrefixes, NEW f, NEW g,
         \A q \in FieldPrefixes : <<q, p>> \in Below => f[q] = g[q]
  PROVE  EncodingStep(f, p) = EncodingStep(g, p)
<1>1. CASE p[2] = 0
  BY <1>1 DEF EncodingStep
<1>2. CASE p[2] # 0
  <2>1. f[<<p[1], p[2] - 1>>] = g[<<p[1], p[2] - 1>>]
    BY <1>2, StepLooksBelow
  <2>2. FieldsOf(p[1])[p[2]] # "scalar" =>
          f[Whole(FieldsOf(p[1])[p[2]])] = g[Whole(FieldsOf(p[1])[p[2]])]
    BY <1>2, StepLooksBelow
  <2> QED
    BY <2>1, <2>2, Zenon DEF EncodingStep
<1> QED
  BY <1>1, <1>2

\* The definition of EncodingUpTo defines it: its equation holds, and what it
\* yields are sequences of cells.
LEMMA EncodingEquation ==
  /\ \A p \in FieldPrefixes : EncodingUpTo[p] = EncodingStep(EncodingUpTo, p)
  /\ \A p \in FieldPrefixes : EncodingUpTo[p] \in Seq(Cells)
<1> DEFINE P == FieldPrefixes
           V == Seq(Cells)
           G == [x \in [P -> V] \X P |-> EncodingStep(x[1], x[2])]
<1>1. G \in [[P -> V] \X P -> V]
  <2>1. ASSUME NEW x \in [P -> V] \X P
        PROVE  EncodingStep(x[1], x[2]) \in V
    <3>1. x[1] \in [P -> V] /\ x[2] \in P
      OBVIOUS
    <3> QED
      BY <3>1, StepGivesCells
  <2> QED
    BY <2>1
<1>2. \A f \in [P -> V], x \in P : G[<<f, x>>] = EncodingStep(f, x)
  OBVIOUS
<1> HIDE DEF G
<1>3. LooksBelow(G, P, V, Below)
  <2>1. ASSUME NEW x \in P, NEW f \in [P -> V], NEW g \in [P -> V],
               \A y \in P : <<y, x>> \in Below => f[y] = g[y]
        PROVE  G[<<f, x>>] = G[<<g, x>>]
    <3>1. EncodingStep(f, x) = EncodingStep(g, x)
      BY <2>1, StepAgrees
    <3> QED
      BY <1>2, <3>1
  <2> QED
    BY <1>1, <2>1 DEF LooksBelow
<1>4. PICK f \in [P -> V] : \A x \in P : f[x] = EncodingStep(f, x)
  <2>1. V # {} /\ Lowest(P, Below)
    <3>1. <<>> \in V
      OBVIOUS
    <3> QED
      BY <3>1, BelowIsLowest
  <2> HIDE DEF P, V
  <2>2. HasSolution(G, P, V)
    BY <1>3, <2>1, RecursionDefines
  <2> QED
    BY <1>2, <2>2 DEF HasSolution
<1>5. f = [p \in P |-> EncodingStep(f, p)]
  BY <1>4
<1>6. EncodingUpTo = CHOOSE g : g = [p \in P |-> EncodingStep(g, p)]
  BY DEF EncodingUpTo, EncodingStep
<1>7. EncodingUpTo = [p \in P |-> EncodingStep(EncodingUpTo, p)]
  BY <1>5, <1>6
<1>8. \A p \in P : EncodingUpTo[p] = EncodingStep(EncodingUpTo, p)
  BY <1>7
<1>9. \A p \in P : EncodingUpTo[p] \in V
  <2> DEFINE bad == {p \in P : EncodingUpTo[p] \notin V}
  <2> SUFFICES ASSUME bad # {}
               PROVE  FALSE
    OBVIOUS
  <2>1. PICK p \in bad : \A q \in bad : <<q, p>> \notin Below
    BY BelowIsLowest DEF Lowest
  <2>2. \A q \in P : <<q, p>> \in Below => EncodingUpTo[q] \in V
    BY <2>1
  <2> QED
    BY <1>8, <2>1, <2>2, StepGivesCells
<1> QED
  BY <1>8, <1>9

\* The values the properties speak of.
LEMMA EncodingGrows ==
  ASSUME NEW t \in Types \cup {"nil"}
  PROVE  /\ EncodingUpTo[<<t, 0>>] = <<>>
         /\ t = "nil" => Encoding(t) = <<>>
         /\ Encoding(t) = EncodingUpTo[<<t, Len(FieldsOf(t))>>]
         /\ Encoding(t) \in Seq(Cells)
         /\ \A n \in DOMAIN FieldsOf(t) :
              /\ EncodingUpTo[<<t, n - 1>>] \in Seq(Cells)
              /\ EncodingUpTo[<<t, n>>] = EncodingUpTo[<<t, n - 1>>] \o
                   (IF FieldsOf(t)[n] = "scalar" THEN ScalarCells(t, n)
                    ELSE Envelope(Encoding(FieldsOf(t)[n])))
<1>1. FieldsOf(t) \in Seq(Types \cup {"scalar", "nil"})
  BY GoEncoderPoolAssumption DEF FieldsOf
<1>2. EncodingUpTo[<<t, 0>>] = <<>>
  <2>1. <<t, 0>> \in FieldPrefixes
    BY <1>1, FieldPrefixIs
  <2> QED
    BY <2>1, EncodingEquation DEF EncodingStep
<1>3. t = "nil" => Encoding(t) = <<>>
  BY <1>2 DEF Encoding, Whole, FieldsOf
<1>4. Encoding(t) \in Seq(Cells) /\ Encoding(t) = EncodingUpTo[<<t, Len(FieldsOf(t))>>]
  BY FieldPrefixIs, EncodingEquation DEF Encoding, Whole
<1>5. ASSUME NEW n \in DOMAIN FieldsOf(t)
      PROVE  /\ EncodingUpTo[<<t, n - 1>>] \in Seq(Cells)
             /\ EncodingUpTo[<<t, n>>] = EncodingUpTo[<<t, n - 1>>] \o
                  (IF FieldsOf(t)[n] = "scalar" THEN ScalarCells(t, n)
                   ELSE Envelope(Encoding(FieldsOf(t)[n])))
  <2>1. n \in Nat /\ n # 0 /\ n \in 0..Len(FieldsOf(t)) /\ n - 1 \in 0..Len(FieldsOf(t))
    BY <1>1
  <2>2. <<t, n>> \in FieldPrefixes /\ <<t, n - 1>> \in FieldPrefixes
    BY <2>1, FieldPrefixIs
  <2>3. EncodingUpTo[<<t, n>>] = EncodingStep(EncodingUpTo, <<t, n>>)
    BY <2>2, EncodingEquation
  <2> QED
    BY <2>1, <2>2, <2>3, EncodingEquation DEF EncodingStep, Encoding
<1> QED
  BY <1>2, <1>3, <1>4, <1>5

-----------------------------------------------------------------------------
(* What the slices hold.                                                   *)

Holds(h, s, cells) == s.len <= Len(h[s.arr]) /\ SubSeq(h[s.arr], 1, s.len) = cells

\* What a call has written, with the arrays h and the encoders' slices b: nothing
\* yet, the fields before the next one, or all.
CallHolds(h, b, f) ==
  /\ f.stage = "bind" => f.next = 1 /\ b[f.enc].len = 0
  /\ f.stage = "fields" =>
       /\ f.next \in 1..Len(FieldsOf(f.type)) + 1
       /\ Holds(h, f.buf, EncodingUpTo[<<f.type, f.next - 1>>])
  /\ f.stage \in {"done", "copied"} => Holds(h, b[f.enc], Encoding(f.type))

\* A call with a call inside is at the field that one encodes, until it is copied.
Nested(c) ==
  \A i \in 2..Len(c) :
    /\ c[i - 1].stage = "fields"
    /\ c[i].stage # "copied" =>
         /\ c[i - 1].next \in DOMAIN FieldsOf(c[i - 1].type)
         /\ FieldsOf(c[i - 1].type)[c[i - 1].next] = c[i].type

DataInv ==
  /\ heap \in [Arrays -> Seq(Cells)]
  /\ \A g \in Goroutines : Nested(stack[g])
  /\ \A g \in Goroutines : \A i \in 1..Depth(g) : CallHolds(heap, encBuf, stack[g][i])
  /\ \A k \in kept : Holds(heap, k.bytes, Encoding(k.type))

\* The arrays h are those of the state, but for array a.
SameBut(h, a) == \A x \in Arrays : x # a => h[x] = heap[x]

\* A write to an array that is not a call's leaves what the call has written.
LEMMA CallUntouched ==
  ASSUME OwnersOK, NEW g \in Goroutines, NEW j \in 1..Depth(g),
         CallHolds(heap, encBuf, stack[g][j]),
         NEW a, a \notin ArraysOf(stack[g][j]),
         NEW h, SameBut(h, a),
         NEW b, b[stack[g][j].enc] = encBuf[stack[g][j].enc]
  PROVE  CallHolds(h, b, stack[g][j])
<1> DEFINE f == stack[g][j]
<1>1. f \in Frame /\ encBuf[f.enc] \in Slice
  <2>1. stack[g] \in Seq(Frame) /\ j \in 1..Len(stack[g])
    BY DEF OwnersOK, Depth
  <2>2. f \in Frame
    BY <2>1
  <2> QED
    BY <2>2 DEF OwnersOK, Frame
<1>2. f.buf.arr \in Arrays /\ encBuf[f.enc].arr \in Arrays
  BY <1>1 DEF Frame, Slice
<1>3. h[f.buf.arr] = heap[f.buf.arr] /\ h[encBuf[f.enc].arr] = heap[encBuf[f.enc].arr]
  BY <1>2 DEF ArraysOf, SameBut
<1> HIDE DEF f
<1> QED
  BY <1>3 DEF CallHolds, Holds, f

\* So does it leave bytes that Marshal returned.
LEMMA KeptUntouched ==
  ASSUME OwnersOK, NEW k \in kept, Holds(heap, k.bytes, Encoding(k.type)),
         NEW a, k.bytes.arr # a,
         NEW h, SameBut(h, a)
  PROVE  Holds(h, k.bytes, Encoding(k.type))
<1>1. k.bytes.arr \in Arrays
  BY DEF OwnersOK, Slice
<1> QED
  BY <1>1 DEF Holds, SameBut

\* Growing a slice keeps its contents, and touches its new array only.
LEMMA RoomHolds ==
  ASSUME heap \in [Arrays -> Seq(Cells)], NEW s \in Slice, NEW m \in Nat,
         Fits(s, m) \/ CanAllocate, NEW c, Holds(heap, s, c)
  PROVE  /\ WithRoom(s, m) \in Slice /\ WithRoom(s, m).len = s.len
         /\ HeapWithRoom(s, m) \in [Arrays -> Seq(Cells)]
         /\ \A x \in Arrays : x # WithRoom(s, m).arr => HeapWithRoom(s, m)[x] = heap[x]
         /\ s.len + m <= Len(HeapWithRoom(s, m)[WithRoom(s, m).arr])
         /\ Holds(HeapWithRoom(s, m), WithRoom(s, m), c)
<1>1. s.arr \in Arrays /\ s.len \in Nat /\ heap[s.arr] \in Seq(Cells)
  BY DEF Slice
<1>2. CASE Fits(s, m)
  BY <1>1, <1>2 DEF WithRoom, HeapWithRoom, Fits
<1>3. CASE ~Fits(s, m)
  <2> DEFINE old == Contents(s)
             n == IF s.len > m THEN s.len ELSE m
             new == old \o Blank(n)
  <2>1. old \in Seq(Cells) /\ Len(old) = s.len /\ old = c
    BY <1>1 DEF Contents, Holds
  <2>2. n \in Nat /\ n >= m
    BY <1>1
  <2>3. Blank(n) \in Seq(Cells) /\ Len(Blank(n)) = n
    BY <2>2 DEF Blank, Unused, Cells
  <2> HIDE DEF n, old
  <2>4. new \in Seq(Cells) /\ Len(new) = s.len + n
    <3>1. Len(new) = Len(old) + Len(Blank(n))
      BY <2>1, <2>3, ConcatProperties
    <3> QED
      BY <2>1, <2>3, <3>1, ConcatProperties
  <2>5. SubSeq(new, 1, s.len) = c
    <3>1. SubSeq(new, 1, s.len) \in Seq(Cells) /\ Len(SubSeq(new, 1, s.len)) = s.len
      BY <1>1, <2>2, <2>4
    <3>2. \A i \in 1..s.len : SubSeq(new, 1, s.len)[i] = old[i]
      BY <1>1, <2>1, <2>2, <2>3, <2>4
    <3> QED
      BY <2>1, <3>1, <3>2, SeqEqual
  <2> HIDE DEF new
  <2>6. NewArray \in Arrays
    BY <1>3, FreshArray
  <2>7. Moved(s, m) = new
    BY DEF Moved, new, old, n
  <2>8. /\ HeapWithRoom(s, m) = [heap EXCEPT ![NewArray] = new]
        /\ WithRoom(s, m) = [s EXCEPT !.arr = NewArray]
    BY <1>3, <2>7 DEF HeapWithRoom, WithRoom
  <2>9. /\ WithRoom(s, m) \in Slice
        /\ WithRoom(s, m).len = s.len /\ WithRoom(s, m).arr = NewArray
    BY <2>6, <2>8 DEF Slice
  <2> QED
    BY <1>1, <2>2, <2>4, <2>5, <2>6, <2>8, <2>9 DEF Holds
<1> QED
  BY <1>2, <1>3

\* An append adds its cells to what the slice held.
LEMMA AppendHolds ==
  ASSUME heap \in [Arrays -> Seq(Cells)], NEW s \in Slice, NEW cells \in Seq(Cells),
         Fits(s, Len(cells)) \/ CanAllocate, NEW c, Holds(heap, s, c)
  PROVE  /\ HeapAppended(s, cells) \in [Arrays -> Seq(Cells)]
         /\ \A x \in Arrays : x # Appended(s, cells).arr => HeapAppended(s, cells)[x] = heap[x]
         /\ Holds(HeapAppended(s, cells), Appended(s, cells), c \o cells)
<1> DEFINE m == Len(cells)
           r == WithRoom(s, m)
           R == HeapWithRoom(s, m)
           old == R[r.arr]
           new == [i \in DOMAIN old |-> IF i - s.len \in DOMAIN cells THEN cells[i - s.len] ELSE old[i]]
<1>1. m \in Nat /\ s.len \in Nat
  BY DEF Slice
<1>2. /\ r \in Slice /\ r.len = s.len /\ R \in [Arrays -> Seq(Cells)]
      /\ \A x \in Arrays : x # r.arr => R[x] = heap[x]
      /\ s.len + m <= Len(old)
      /\ s.len <= Len(old) /\ SubSeq(old, 1, s.len) = c
  BY <1>1, RoomHolds DEF Holds
<1>3. /\ HeapAppended(s, cells) = [R EXCEPT ![r.arr] = new]
      /\ Appended(s, cells) = [r EXCEPT !.len = s.len + m]
  BY <1>2 DEF HeapAppended, Appended, Slice
<1>4. r.arr \in Arrays /\ old \in Seq(Cells)
  BY <1>2 DEF Slice
<1>5. Appended(s, cells).arr = r.arr /\ Appended(s, cells).len = s.len + m
  BY <1>2, <1>3 DEF Slice
<1> HIDE DEF R, r, m
<1>6. Len(cells) = m
  BY DEF m
<1> HIDE DEF old
<1>7. new \in Seq(Cells) /\ Len(new) = Len(old)
  <2>1. DOMAIN old = 1..Len(old) /\ Len(old) \in Nat
    BY <1>4
  <2>2. \A i \in DOMAIN old :
          (IF i - s.len \in DOMAIN cells THEN cells[i - s.len] ELSE old[i]) \in Cells
    BY <1>4
  <2> QED
    BY <2>1, <2>2
<1>8. \A i \in 1..s.len : new[i] = old[i]
  BY <1>1, <1>2, <1>4, <1>6
<1>9. \A i \in 1..m : new[s.len + i] = cells[i]
  BY <1>1, <1>2, <1>4, <1>6
<1> HIDE DEF new
<1>10. SubSeq(new, 1, s.len + m) = c \o cells
  <2> DEFINE lhs == SubSeq(new, 1, s.len + m)
             rhs == c \o cells
  <2>1. lhs \in Seq(Cells) /\ Len(lhs) = s.len + m /\ \A i \in 1..s.len + m : lhs[i] = new[i]
    BY <1>1, <1>2, <1>4, <1>7
  <2>2. c \in Seq(Cells) /\ Len(c) = s.len /\ \A i \in 1..s.len : c[i] = old[i]
    <3>1. ASSUME NEW f, f = SubSeq(old, 1, s.len)
          PROVE  f \in Seq(Cells) /\ Len(f) = s.len /\ \A i \in 1..s.len : f[i] = old[i]
      BY <1>1, <1>2, <1>4, <3>1
    <3> QED
      BY <1>2, <3>1
  <2>3. /\ rhs \in Seq(Cells) /\ Len(rhs) = s.len + m
        /\ \A i \in 1..s.len + m : rhs[i] = IF i <= s.len THEN c[i] ELSE cells[i - s.len]
    <3>1. /\ rhs \in Seq(Cells) /\ Len(rhs) = Len(c) + Len(cells)
          /\ \A i \in 1..Len(c) + Len(cells) :
               rhs[i] = IF i <= Len(c) THEN c[i] ELSE cells[i - Len(c)]
      BY <2>2, ConcatProperties
    <3>2. Len(c) = s.len /\ Len(cells) = m
      BY <1>6, <2>2
    <3> HIDE DEF rhs
    <3> QED
      BY <3>1, <3>2
  <2> HIDE DEF lhs, rhs
  <2>4. ASSUME NEW i \in 1..s.len + m
        PROVE  lhs[i] = rhs[i]
    <3>1. CASE i <= s.len
      BY <1>1, <1>8, <2>1, <2>2, <2>3, <3>1
    <3>2. CASE i > s.len
      <4>1. i - s.len \in 1..m /\ s.len + (i - s.len) = i
        BY <1>1, <3>2
      <4>2. new[i] = cells[i - s.len]
        BY <1>9, <4>1
      <4> QED
        BY <1>1, <2>1, <2>3, <3>2, <4>2
    <3> QED
      BY <1>1, <3>1, <3>2
  <2>5. lhs = rhs
    BY <2>1, <2>3, <2>4, SeqEqual
  <2> QED
    BY <2>5 DEF lhs, rhs
<1>11. HeapAppended(s, cells) \in [Arrays -> Seq(Cells)]
  BY <1>2, <1>3, <1>4, <1>7
<1>12. HeapAppended(s, cells)[r.arr] = new
  BY <1>2, <1>3, <1>4
<1>13. \A x \in Arrays : x # r.arr => HeapAppended(s, cells)[x] = heap[x]
  BY <1>2, <1>3
<1> QED
  BY <1>2, <1>5, <1>7, <1>10, <1>11, <1>12, <1>13 DEF Holds
-----------------------------------------------------------------------------
(* Each action.                                                            *)

\* Setting the innermost call to one of the same message keeps the nesting.
LEMMA SetTopNests ==
  ASSUME OwnersOK, \A h \in Goroutines : Nested(stack[h]),
         NEW g \in Goroutines, stack[g] # <<>>, NEW f \in Frame, SetTop(g, f),
         f.type = Top(g).type, Top(g).stage # "copied"
  PROVE  \A h \in Goroutines : Nested(stack'[h])
<1>1. /\ stack' \in [Goroutines -> Seq(Frame)]
      /\ \A h \in Goroutines : Len(stack'[h]) = Len(stack[h])
      /\ stack'[g][Depth(g)] = f
      /\ \A h \in Goroutines : \A j \in 1..Depth(h) :
           h # g \/ j # Depth(g) => stack'[h][j] = stack[h][j]
  BY SetTopFrames
<1>2. Depth(g) \in Nat /\ Top(g) = stack[g][Depth(g)]
  BY TopFrame
<1>3. ASSUME NEW h \in Goroutines, NEW i \in 2..Len(stack[h])
      PROVE  /\ stack'[h][i - 1] = stack[h][i - 1]
             /\ stack'[h][i].type = stack[h][i].type
             /\ stack'[h][i].stage # "copied" => stack[h][i].stage # "copied"
  <2>1. Len(stack[h]) \in Nat
    BY DEF OwnersOK
  <2>2. i - 1 \in 1..Depth(h) /\ i \in 1..Depth(h) /\ (h = g => i - 1 # Depth(g))
    BY <1>2, <2>1 DEF Depth
  <2> QED
    BY <1>1, <1>2, <2>2
<1> QED
  BY <1>1, <1>3 DEF Nested

\* The innermost call changes, and writes to an array of its own at most.
LEMMA TopChangeKeepsData ==
  ASSUME Inv, DataInv, NEW g \in Goroutines, stack[g] # <<>>,
         NEW f \in Frame, SetTop(g, f), f.enc = Top(g).enc,
         f.type = Top(g).type, Top(g).stage # "copied",
         \A e \in Encoders : e # f.enc => encBuf'[e] = encBuf[e],
         NEW a, OnlyOf(g, Depth(g), a),
         heap' \in [Arrays -> Seq(Cells)], SameBut(heap', a),
         CallHolds(heap', encBuf', f), kept' = kept
  PROVE  DataInv'
<1> DEFINE n == Depth(g)
<1>1. OwnersOK /\ Exclusive
  BY DEF Inv
<1>2. /\ \A h \in Goroutines : Len(stack'[h]) = Len(stack[h])
      /\ stack'[g][n] = f
      /\ \A h \in Goroutines : \A j \in 1..Depth(h) :
           h # g \/ j # n => stack'[h][j] = stack[h][j]
  BY <1>1, SetTopFrames
<1>3. n \in 1..Depth(g) /\ Top(g) = stack[g][n]
  BY <1>1, TopFrame
<1>4. \A h \in Goroutines : Nested(stack'[h])
  BY <1>1, SetTopNests DEF DataInv
<1>5. ASSUME NEW h \in Goroutines, NEW j \in 1..Depth(h)
      PROVE  CallHolds(heap', encBuf', stack'[h][j])
  <2>1. CASE h = g /\ j = n
    BY <1>2, <2>1
  <2>2. CASE h # g \/ j # n
    <3>1. a \notin ArraysOf(stack[h][j])
      BY <2>2 DEF OnlyOf
    <3>2. stack[h][j].enc # f.enc
      BY <1>1, <1>3, <2>2 DEF Exclusive
    <3>3. stack[h][j].enc \in Encoders
      <4>1. stack[h] \in Seq(Frame) /\ j \in 1..Len(stack[h])
        BY <1>1 DEF OwnersOK, Depth
      <4>2. stack[h][j] \in Frame
        BY <4>1
      <4> QED
        BY <4>2 DEF Frame
    <3>4. encBuf'[stack[h][j].enc] = encBuf[stack[h][j].enc]
      BY <3>2, <3>3
    <3>5. CallHolds(heap, encBuf, stack[h][j])
      BY DEF DataInv
    <3>6. CallHolds(heap', encBuf', stack[h][j])
      BY <1>1, <3>1, <3>4, <3>5, CallUntouched
    <3> QED
      BY <1>2, <2>2, <3>6
  <2> QED
    BY <2>1, <2>2
<1>6. ASSUME NEW k \in kept
      PROVE  Holds(heap', k.bytes, Encoding(k.type))
  <2>1. k.bytes.arr # a /\ Holds(heap, k.bytes, Encoding(k.type))
    BY DEF OnlyOf, DataInv
  <2> QED
    BY <1>1, <2>1, KeptUntouched
<1>7. \A h \in Goroutines : Depth(h)' = Depth(h)
  BY <1>2 DEF Depth
<1> QED
  BY <1>4, <1>5, <1>6, <1>7 DEF DataInv

LEMMA BindKeepsData ==
  ASSUME Inv, DataInv, NEW g \in Goroutines, Bind(g)
  PROVE  DataInv'
<1> DEFINE s == encBuf[Top(g).enc]
           m == FixedSizeLowerBound(Top(g).type)
           w == WithRoom(s, m)
           f == [Top(g) EXCEPT !.buf = w, !.stage = "fields"]
<1>1. OwnersOK /\ ArraysApart /\ heap \in [Arrays -> Seq(Cells)]
  BY DEF Inv, DataInv
<1>2. /\ stack[g] # <<>> /\ (Fits(s, m) \/ CanAllocate) /\ SetTop(g, f)
      /\ encBuf' = encBuf /\ kept' = kept /\ heap' = HeapWithRoom(s, m)
      /\ Top(g).stage = "bind"
  BY DEF Bind
<1>3. Depth(g) \in 1..Depth(g) /\ Top(g) = stack[g][Depth(g)] /\ Top(g) \in Frame
  BY <1>1, <1>2, TopFrame
<1>4. m \in Nat /\ s \in Slice /\ s.arr \in ArraysOf(stack[g][Depth(g)])
  BY <1>1, <1>3, CellsHaveLength DEF Frame, OwnersOK, ArraysOf
<1>5. Top(g).next = 1 /\ s.len = 0
  BY <1>2, <1>3 DEF DataInv, CallHolds
<1>6. Holds(heap, s, <<>>)
  <2>1. s.arr \in Arrays
    BY <1>4 DEF Slice
  <2>2. heap[s.arr] \in Seq(Cells)
    BY <1>1, <2>1
  <2> HIDE DEF s
  <2> QED
    BY <1>5, <2>2 DEF Holds
<1>7. w \in Slice /\ OnlyOf(g, Depth(g), w.arr)
  <2> HIDE DEF s, m
  <2> QED
    BY <1>1, <1>2, <1>3, <1>4, RoomArray
<1>8. /\ heap' \in [Arrays -> Seq(Cells)]
      /\ SameBut(heap', w.arr) /\ Holds(heap', w, <<>>)
  <2> HIDE DEF s, m
  <2> QED
    BY <1>1, <1>2, <1>4, <1>6, RoomHolds DEF SameBut
<1> HIDE DEF s, m, w
<1>9. /\ f \in Frame /\ f.enc = Top(g).enc /\ f.buf = w
      /\ f.type = Top(g).type /\ f.next = 1 /\ f.stage = "fields"
  BY <1>3, <1>5, <1>7 DEF Frame, Stages
<1>10. CallHolds(heap', encBuf', f)
  <2>1. f.type \in Types \cup {"nil"}
    BY <1>9 DEF Frame
  <2>2. FieldsOf(f.type) \in Seq(Types \cup {"scalar", "nil"})
    BY <2>1, CellsHaveLength
  <2>3. 1 \in 1..Len(FieldsOf(f.type)) + 1
    BY <2>2
  <2>4. EncodingUpTo[<<f.type, 0>>] = <<>>
    BY <2>1, EncodingGrows
  <2> HIDE DEF f
  <2> QED
    BY <1>8, <1>9, <2>3, <2>4 DEF CallHolds
<1> HIDE DEF f
<1> QED
  BY <1>1, <1>2, <1>7, <1>8, <1>9, <1>10, TopChangeKeepsData

LEMMA AppendFieldKeepsData ==
  ASSUME Inv, DataInv, NEW g \in Goroutines, AppendField(g)
  PROVE  DataInv'
<1> DEFINE t == Top(g).type
           n == Top(g).next
           s == Top(g).buf
           cells == ScalarCells(t, n)
           w == Appended(s, cells)
           f == [Top(g) EXCEPT !.buf = w, !.next = @ + 1]
<1>1. OwnersOK /\ ArraysApart /\ heap \in [Arrays -> Seq(Cells)]
  BY DEF Inv, DataInv
<1>2. /\ stack[g] # <<>> /\ (Fits(s, Len(cells)) \/ CanAllocate) /\ SetTop(g, f)
      /\ encBuf' = encBuf /\ kept' = kept /\ heap' = HeapAppended(s, cells)
      /\ Top(g).stage = "fields" /\ n \in DOMAIN FieldsOf(t) /\ FieldsOf(t)[n] = "scalar"
  BY DEF AppendField, AtField, FieldOf
<1>3. Depth(g) \in 1..Depth(g) /\ Top(g) = stack[g][Depth(g)] /\ Top(g) \in Frame
  BY <1>1, <1>2, TopFrame
<1>4. /\ t \in Types \cup {"nil"} /\ n \in Nat /\ s \in Slice
      /\ s.arr \in ArraysOf(stack[g][Depth(g)])
  BY <1>3 DEF Frame, ArraysOf
<1>5. /\ FieldsOf(t) \in Seq(Types \cup {"scalar", "nil"})
      /\ n + 1 \in 1..Len(FieldsOf(t)) + 1
  <2>1. FieldsOf(t) \in Seq(Types \cup {"scalar", "nil"})
    BY <1>4, CellsHaveLength
  <2> QED
    BY <1>2, <1>4, <2>1
<1>6. cells \in Seq(Cells) /\ Len(cells) \in Nat
  <2>1. <<t, n>> \in Cells
    BY <1>4 DEF Cells
  <2>2. cells \in Seq(Cells)
    BY <2>1 DEF ScalarCells
  <2> QED
    BY <2>2
<1>7. Holds(heap, s, EncodingUpTo[<<t, n - 1>>])
  <2>1. CallHolds(heap, encBuf, Top(g))
    BY <1>3 DEF DataInv
  <2> QED
    BY <1>2, <2>1 DEF CallHolds
<1>8. EncodingUpTo[<<t, n>>] = EncodingUpTo[<<t, n - 1>>] \o cells
  BY <1>2, <1>4, EncodingGrows
<1>9. Top(g) \in Frame /\ w \in Slice /\ OnlyOf(g, Depth(g), w.arr)
  <2> HIDE DEF s, cells
  <2>1. WithRoom(s, Len(cells)) \in Slice /\ OnlyOf(g, Depth(g), WithRoom(s, Len(cells)).arr)
    BY <1>1, <1>2, <1>3, <1>4, <1>6, RoomArray
  <2>2. w.arr = WithRoom(s, Len(cells)).arr /\ w \in Slice
    BY <1>6, <2>1 DEF Appended, Slice
  <2> QED
    BY <1>3, <2>1, <2>2
<1>10. /\ heap' \in [Arrays -> Seq(Cells)] /\ SameBut(heap', w.arr)
       /\ Holds(heap', w, EncodingUpTo[<<t, n>>])
  <2> HIDE DEF s, cells, t, n
  <2> QED
    BY <1>1, <1>2, <1>4, <1>6, <1>7, <1>8, AppendHolds DEF SameBut
<1> HIDE DEF w, cells
<1>11. /\ f \in Frame /\ f.enc = Top(g).enc /\ f.buf = w
       /\ f.type = t /\ f.next = n + 1 /\ f.stage = "fields"
  <2>1. n + 1 \in Nat
    BY <1>4
  <2>2. ASSUME NEW x \in Frame, x.next + 1 \in Nat
        PROVE  LET y == [x EXCEPT !.buf = w, !.next = @ + 1]
               IN  /\ y \in Frame /\ y.enc = x.enc /\ y.buf = w
                   /\ y.type = x.type /\ y.next = x.next + 1 /\ y.stage = x.stage
    BY <1>9, <2>2 DEF Frame
  <2> QED
    BY <1>2, <1>9, <2>1, <2>2
<1>12. CallHolds(heap', encBuf', f)
  <2>1. (n + 1) - 1 = n
    BY <1>4
  <2> HIDE DEF f, t, n
  <2> QED
    BY <1>5, <1>10, <1>11, <2>1 DEF CallHolds
<1> HIDE DEF f
<1> QED
  BY <1>1, <1>2, <1>9, <1>10, <1>11, <1>12, TopChangeKeepsData

\* With no field left, what the slice holds is the message.
LEMMA SetBufKeepsData ==
  ASSUME Inv, DataInv, NEW g \in Goroutines, SetBuf(g)
  PROVE  DataInv'
<1> DEFINE t == Top(g).type
           s == Top(g).buf
           f == [Top(g) EXCEPT !.stage = "done"]
<1>1. OwnersOK /\ ArraysApart /\ heap \in [Arrays -> Seq(Cells)]
  BY DEF Inv, DataInv
<1>2. /\ stack[g] # <<>> /\ SetTop(g, f) /\ Top(g).stage = "fields"
      /\ encBuf' = [encBuf EXCEPT ![Top(g).enc] = s]
      /\ heap' = heap /\ kept' = kept /\ Top(g).next \notin DOMAIN FieldsOf(t)
  BY DEF SetBuf, AtField
<1>3. Depth(g) \in 1..Depth(g) /\ Top(g) = stack[g][Depth(g)] /\ Top(g) \in Frame
  BY <1>1, <1>2, TopFrame
<1>4. t \in Types \cup {"nil"} /\ s.arr \in ArraysOf(stack[g][Depth(g)])
  BY <1>3 DEF Frame, ArraysOf
<1>5. /\ Top(g).next \in 1..Len(FieldsOf(t)) + 1
      /\ Holds(heap, s, EncodingUpTo[<<t, Top(g).next - 1>>])
  <2>1. CallHolds(heap, encBuf, Top(g))
    BY <1>3 DEF DataInv
  <2> QED
    BY <1>2, <2>1 DEF CallHolds
<1>6. Holds(heap, s, Encoding(t))
  <2>1. FieldsOf(t) \in Seq(Types \cup {"scalar", "nil"})
    BY <1>4, CellsHaveLength
  <2>2. Top(g).next - 1 = Len(FieldsOf(t))
    BY <1>2, <1>5, <2>1
  <2>3. Encoding(t) = EncodingUpTo[<<t, Len(FieldsOf(t))>>]
    BY <1>4, EncodingGrows
  <2> QED
    BY <1>5, <2>2, <2>3
<1>7. OnlyOf(g, Depth(g), s.arr)
  BY <1>1, <1>3, <1>4, OwnArray
<1>8. /\ f \in Frame /\ f.enc = Top(g).enc
      /\ f.type = t /\ f.stage = "done"
  BY <1>3 DEF Frame, Stages
<1>9. /\ encBuf'[f.enc] = s
      /\ \A e \in Encoders : e # f.enc => encBuf'[e] = encBuf[e]
  BY <1>1, <1>2, <1>8 DEF OwnersOK, Frame
<1>10. CallHolds(heap', encBuf', f)
  <2> HIDE DEF f, s, t
  <2> QED
    BY <1>2, <1>6, <1>8, <1>9 DEF CallHolds
<1>11. SameBut(heap', s.arr)
  BY <1>2 DEF SameBut
<1> HIDE DEF f, s
<1> QED
  BY <1>1, <1>2, <1>7, <1>8, <1>9, <1>10, <1>11, TopChangeKeepsData

\* A call begins with an empty slice: the encoder's, or a new one.
LEMMA EncoderIsEmpty ==
  ASSUME Inv, DataInv, NEW e \in Encoders, GetEncoder(e) \/ Allocate(e)
  PROVE  /\ encBuf'[e] \in Slice /\ encBuf'[e].len = 0
         /\ heap' \in [Arrays -> Seq(Cells)] /\ SameBut(heap', encBuf'[e].arr)
<1>1. encBuf \in [Encoders -> Slice] /\ heap \in [Arrays -> Seq(Cells)]
  BY DEF Inv, OwnersOK, DataInv
<1>2. CASE Allocate(e)
  <2>1. /\ CanAllocate /\ encBuf' = [encBuf EXCEPT ![e] = [arr |-> NewArray, len |-> 0]]
        /\ heap' = [heap EXCEPT ![NewArray] = Blank(InitialCapacity)]
    BY <1>2 DEF Allocate
  <2>2. NewArray \in Arrays
    BY <2>1, FreshArray
  <2>3. encBuf'[e] = [arr |-> NewArray, len |-> 0]
    BY <1>1, <2>1
  <2>4. Blank(InitialCapacity) \in Seq(Cells)
    BY GoEncoderPoolAssumption DEF Blank, Unused, Cells
  <2> QED
    BY <1>1, <2>1, <2>2, <2>3, <2>4 DEF Slice, SameBut
<1>3. CASE encBuf' = [encBuf EXCEPT ![e].len = 0] /\ heap' = heap
  <2>1. encBuf'[e] = [encBuf[e] EXCEPT !.len = 0]
    BY <1>1, <1>3
  <2>2. encBuf[e] \in Slice
    BY <1>1
  <2>3. encBuf'[e] \in Slice /\ encBuf'[e].len = 0
    BY <2>1, <2>2 DEF Slice
  <2> QED
    BY <1>1, <1>3, <2>3 DEF SameBut
<1> QED
  BY <1>2, <1>3 DEF GetEncoder

LEMMA CallKeepsData ==
  ASSUME Inv, DataInv, NEW g \in Goroutines, NEW e \in Encoders, GetEncoder(e) \/ Allocate(e),
         NEW t \in Types \cup {"nil"}, NEW stage, NEW pooled \in BOOLEAN,
         stage = "bind" \/ (stage = "done" /\ t = "nil"),
         stack[g] # <<>> => AtField(g) /\ FieldOf(g) = t,
         stack' = [stack EXCEPT ![g] = Append(@, NewFrame(t, e, stage, pooled))],
         kept' = kept
  PROVE  DataInv'
<1> DEFINE f == NewFrame(t, e, stage, pooled)
           N == Depth(g) + 1
           a == encBuf'[e].arr
<1>1. OwnersOK /\ stage \in Stages
  BY DEF Inv, Stages
<1>2. /\ encBuf'[e] \in Slice /\ encBuf'[e].len = 0
      /\ heap' \in [Arrays -> Seq(Cells)] /\ SameBut(heap', a)
  BY EncoderIsEmpty
<1>3. /\ \A d \in Encoders \ {e} : encBuf'[d] = encBuf[d]
      /\ \A h \in Goroutines : \A j \in 1..Depth(h) :
           stack[h][j].enc # e /\ a \notin ArraysOf(stack[h][j])
      /\ \A k \in kept : k.bytes.arr # a
  BY EncoderTaken
<1>4. f \in Frame /\ f.type = t /\ f.next = 1 /\ f.enc = e /\ f.stage = stage
  BY <1>1, <1>2 DEF NewFrame, Frame
<1>5. CallHolds(heap', encBuf', f)
  <2>1. heap'[a] \in Seq(Cells)
    BY <1>2 DEF Slice
  <2>2. Holds(heap', encBuf'[e], <<>>)
    BY <1>2, <2>1 DEF Holds
  <2>3. t = "nil" => Encoding(t) = <<>>
    BY EncodingGrows
  <2> HIDE DEF f, a
  <2> QED
    BY <1>2, <1>4, <2>2, <2>3 DEF CallHolds
<1> HIDE DEF f, a
<1>6. stack' = [stack EXCEPT ![g] = Append(@, f)]
  BY DEF f
<1>7. /\ Depth(g) \in Nat /\ Len(stack'[g]) = N /\ stack'[g][N] = f
      /\ \A j \in 1..Depth(g) : stack'[g][j] = stack[g][j]
      /\ \A h \in Goroutines \ {g} : stack'[h] = stack[h] /\ Len(stack'[h]) = Depth(h)
  BY <1>1, <1>4, <1>6 DEF OwnersOK, Depth
<1>8. ASSUME NEW h \in Goroutines, NEW j \in 1..Depth(h)
      PROVE  CallHolds(heap', encBuf', stack[h][j])
  <2>1. stack[h][j] \in Frame
    <3>1. stack[h] \in Seq(Frame) /\ j \in 1..Len(stack[h])
      BY <1>1 DEF OwnersOK, Depth
    <3> QED
      BY <3>1
  <2>2. a \notin ArraysOf(stack[h][j]) /\ encBuf'[stack[h][j].enc] = encBuf[stack[h][j].enc]
    BY <1>3, <2>1 DEF Frame
  <2>3. CallHolds(heap, encBuf, stack[h][j])
    BY DEF DataInv
  <2> QED
    BY <1>1, <1>2, <2>2, <2>3, CallUntouched
<1>9. ASSUME NEW h \in Goroutines, NEW j \in 1..Len(stack'[h])
      PROVE  CallHolds(heap', encBuf', stack'[h][j])
  BY <1>5, <1>7, <1>8
<1>10. ASSUME NEW h \in Goroutines
       PROVE  Nested(stack'[h])
  <2>1. Nested(stack[h])
    BY DEF DataInv
  <2>2. CASE h # g
    BY <1>7, <2>1, <2>2
  <2>3. CASE h = g
    <3>1. ASSUME NEW i \in 2..N
          PROVE  /\ stack'[g][i - 1].stage = "fields"
                 /\ stack'[g][i].stage # "copied" =>
                      /\ stack'[g][i - 1].next \in DOMAIN FieldsOf(stack'[g][i - 1].type)
                      /\ FieldsOf(stack'[g][i - 1].type)[stack'[g][i - 1].next]
                           = stack'[g][i].type
      <4>1. CASE i \in 2..Depth(g)
        <5>1. i - 1 \in 1..Depth(g) /\ i \in 1..Depth(g) /\ i \in 2..Len(stack[g])
          BY <1>7, <4>1 DEF Depth
        <5> QED
          BY <1>7, <2>1, <2>3, <5>1 DEF Nested
      <4>2. CASE i = N
        <5>1. i - 1 = Depth(g) /\ i - 1 \in 1..Depth(g) /\ stack[g] # <<>>
          BY <1>7, <4>2 DEF Depth
        <5>2. stack'[g][i - 1] = Top(g) /\ stack'[g][i] = f
          BY <1>7, <4>2, <5>1 DEF Top
        <5> QED
          BY <1>4, <5>1, <5>2 DEF AtField, FieldOf
      <4> QED
        BY <1>7, <4>1, <4>2
    <3> QED
      BY <1>7, <2>3, <3>1, SMTT(30) DEF Nested
  <2> QED
    BY <2>2, <2>3
<1>11. ASSUME NEW k \in kept
       PROVE  Holds(heap', k.bytes, Encoding(k.type))
  <2>1. k.bytes.arr # a /\ Holds(heap, k.bytes, Encoding(k.type))
    BY <1>3 DEF DataInv
  <2> QED
    BY <1>1, <1>2, <2>1, KeptUntouched
<1> QED
  BY <1>2, <1>9, <1>10, <1>11 DEF DataInv, Depth

LEMMA BeginKeepsData ==
  ASSUME Inv, DataInv, NEW g \in Goroutines, NEW t \in Types, MarshalTo(g, t) \/ Marshal(g, t)
  PROVE  DataInv'
<1>1. PICK e \in Encoders, pooled \in BOOLEAN :
        (GetEncoder(e) \/ Allocate(e)) /\ Begin(g, t, e, pooled)
  BY DEF MarshalTo, Marshal
<1>2. stack[g] = <<>> /\ stack' = [stack EXCEPT ![g] = Append(@, NewFrame(t, e, "bind", pooled))]
  <2>1. stack[g] = <<>> /\ stack' = [stack EXCEPT ![g] = <<NewFrame(t, e, "bind", pooled)>>]
    BY <1>1 DEF Begin
  <2> QED
    BY <2>1
<1>3. kept' = kept
  BY <1>1 DEF Begin
<1> QED
  BY <1>1, <1>2, <1>3, CallKeepsData

LEMMA EnterNestedKeepsData ==
  ASSUME Inv, DataInv, NEW g \in Goroutines, EnterNested(g)
  PROVE  DataInv'
<1> DEFINE t == FieldOf(g)
           stage == IF FieldOf(g) = "nil" THEN "done" ELSE "bind"
<1>1. AtField(g) /\ t # "scalar" /\ kept' = kept
  BY DEF EnterNested
<1>2. PICK e \in Encoders :
        /\ GetEncoder(e)
        /\ stack' = [stack EXCEPT ![g] = Append(@, NewFrame(t, e, stage, TRUE))]
  BY DEF EnterNested
<1>3. t \in Types \cup {"nil"}
  <2>1. Top(g) \in Frame
    BY <1>1, TopFrame DEF AtField, Inv
  <2>2. FieldsOf(Top(g).type) \in Seq(Types \cup {"scalar", "nil"})
    BY <2>1, CellsHaveLength DEF Frame
  <2>3. t \in Types \cup {"scalar", "nil"}
    BY <1>1, <2>2 DEF AtField, FieldOf
  <2> QED
    BY <1>1, <2>3
<1>4. stage = "bind" \/ (stage = "done" /\ t = "nil")
  OBVIOUS
<1>5. FieldOf(g) = t
  OBVIOUS
<1> HIDE DEF t, stage
<1> QED
  BY <1>1, <1>2, <1>3, <1>4, <1>5, CallKeepsData

\* A call that ends takes its slice away, or gives it to the caller when it is
\* done and holds the message.
LEMMA EndKeepsData ==
  ASSUME Inv, DataInv, NEW g \in Goroutines, PutEncoder(g) \/ ReturnBytes(g)
  PROVE  DataInv'
<1> DEFINE last == [type |-> Top(g).type, bytes |-> encBuf[Top(g).enc]]
<1>1. OwnersOK
  BY DEF Inv
<1>2. /\ stack[g] # <<>> /\ encBuf' = encBuf /\ heap' = heap
      /\ stack' = [stack EXCEPT ![g] = SubSeq(@, 1, Depth(g) - 1)]
      /\ kept' = kept \/ (kept' = kept \cup {last} /\ Top(g).stage = "done")
  BY DEF PutEncoder, ReturnBytes, Keep
<1>3. /\ Depth(g) \in 1..Depth(g) /\ Depth(g) \in Nat \ {0}
      /\ Len(stack'[g]) = Depth(g) - 1
      /\ \A j \in 1..Depth(g) - 1 : stack'[g][j] = stack[g][j]
      /\ \A h \in Goroutines \ {g} : stack'[h] = stack[h]
      /\ Top(g) = stack[g][Depth(g)]
  <2>1. stack[g] \in Seq(Frame) /\ Depth(g) = Len(stack[g]) /\ Depth(g) \in Nat \ {0}
    BY <1>1, <1>2 DEF OwnersOK, Depth
  <2>2. stack'[g] = SubSeq(stack[g], 1, Depth(g) - 1)
    BY <1>1, <1>2 DEF OwnersOK
  <2>3. /\ Len(stack'[g]) = Depth(g) - 1
        /\ \A j \in 1..Depth(g) - 1 : stack'[g][j] = stack[g][j]
    BY <2>1, <2>2
  <2> QED
    BY <1>1, <1>2, <2>1, <2>3 DEF OwnersOK, Top
<1>4. ASSUME NEW h \in Goroutines, NEW j \in 1..Len(stack'[h])
      PROVE  j \in 1..Depth(h) /\ stack'[h][j] = stack[h][j]
  BY <1>3 DEF Depth
<1>5. ASSUME NEW h \in Goroutines
      PROVE  Nested(stack'[h])
  <2>1. Nested(stack[h])
    BY DEF DataInv
  <2>2. Len(stack'[h]) \in Nat /\ Len(stack[h]) \in Nat /\ Len(stack'[h]) <= Len(stack[h])
    <3>1. stack[h] \in Seq(Frame)
      BY <1>1 DEF OwnersOK
    <3> QED
      BY <1>3, <3>1 DEF Depth
  <2>3. ASSUME NEW i \in 2..Len(stack'[h])
        PROVE  /\ stack'[h][i - 1] = stack[h][i - 1] /\ stack'[h][i] = stack[h][i]
               /\ i \in 2..Len(stack[h])
    BY <1>4, <2>2
  <2> QED
    BY <2>1, <2>3 DEF Nested
<1>6. ASSUME NEW h \in Goroutines, NEW j \in 1..Len(stack'[h])
      PROVE  CallHolds(heap', encBuf', stack'[h][j])
  BY <1>2, <1>4 DEF DataInv
<1>7. Top(g).stage = "done" => Holds(heap, last.bytes, Encoding(last.type))
  <2>1. CallHolds(heap, encBuf, Top(g))
    BY <1>3 DEF DataInv
  <2> QED
    BY <2>1 DEF CallHolds
<1>8. ASSUME NEW k \in kept'
      PROVE  Holds(heap', k.bytes, Encoding(k.type))
  BY <1>2, <1>7 DEF DataInv
<1> QED
  BY <1>2, <1>5, <1>6, <1>8 DEF DataInv, Depth

\* The parent gets the field it is at: the envelope of what the innermost call's
\* encoder holds, which is the message that field is.
LEMMA AppendMessageKeepsData ==
  ASSUME Inv, DataInv, NEW g \in Goroutines, AppendMessage(g)
  PROVE  DataInv'
<1> DEFINE n == Depth(g) - 1
           t == Parent(g).type
           i == Parent(g).next
           a == ParentBuf(g).arr
<1>1. OwnersOK /\ heap \in [Arrays -> Seq(Cells)]
  BY DEF Inv, DataInv
<1>2. /\ Top(g).stage = "done" /\ encBuf' = encBuf /\ kept' = kept
      /\ heap' = HeapAppended(Parent(g).buf, ParentCells(g))
      /\ Fits(Parent(g).buf, Len(ParentCells(g))) \/ CanAllocate
  BY DEF AppendMessage, Parent, ParentCells
<1>3. /\ Depth(g) \in Nat /\ n \in 1..Depth(g) /\ Depth(g) \in 1..Depth(g)
      /\ Parent(g) \in Frame /\ Top(g) \in Frame
      /\ Top(g) = stack[g][Depth(g)] /\ Parent(g) = stack[g][n]
      /\ Parent(g).buf \in Slice /\ OnlyOf(g, n, a)
  <2>1. /\ stack[g] # <<>> /\ Depth(g) \in Nat /\ n \in 1..Depth(g)
        /\ Parent(g) \in Frame /\ Top(g) \in Frame /\ Top(g) = stack[g][Depth(g)]
        /\ Parent(g).buf \in Slice /\ OnlyOf(g, n, a)
    BY ParentOwnsCopy
  <2> QED
    BY <1>1, <2>1, TopFrame DEF Parent
<1>4. /\ \A h \in Goroutines : Len(stack'[h]) = Len(stack[h])
      /\ stack'[g][n] = [Parent(g) EXCEPT !.buf = ParentBuf(g), !.next = i + 1]
      /\ stack'[g][Depth(g)] = [Top(g) EXCEPT !.stage = "copied"]
      /\ \A h \in Goroutines : \A j \in 1..Depth(h) :
           h # g \/ (j # n /\ j # Depth(g)) => stack'[h][j] = stack[h][j]
  BY MessageCopied
<1>5. /\ stack'[g][n].type = t /\ stack'[g][n].stage = Parent(g).stage
      /\ stack'[g][n].buf = ParentBuf(g) /\ stack'[g][n].next = i + 1
      /\ stack'[g][Depth(g)].type = Top(g).type /\ stack'[g][Depth(g)].stage = "copied"
      /\ stack'[g][Depth(g)].enc = Top(g).enc
  <2>1. i + 1 \in Nat
    BY <1>3 DEF Frame
  <2> QED
    BY <1>3, <1>4, <2>1 DEF Frame
<1>6. /\ Parent(g).stage = "fields"
      /\ i \in DOMAIN FieldsOf(t) /\ FieldsOf(t)[i] = Top(g).type
  <2>1. Depth(g) \in 2..Len(stack[g])
    BY <1>3 DEF Depth
  <2>2. Nested(stack[g])
    BY DEF DataInv
  <2> QED
    BY <1>2, <1>3, <2>1, <2>2 DEF Nested
<1>7. /\ t \in Types \cup {"nil"} /\ Top(g).type \in Types \cup {"nil"}
      /\ FieldsOf(t) \in Seq(Types \cup {"scalar", "nil"})
  <2>1. t \in Types \cup {"nil"} /\ Top(g).type \in Types \cup {"nil"}
    BY <1>3 DEF Frame
  <2> QED
    BY <2>1, CellsHaveLength
<1>8. ParentCells(g) = Envelope(Encoding(Top(g).type))
  <2>1. CallHolds(heap, encBuf, Top(g))
    BY <1>3 DEF DataInv
  <2>2. Contents(encBuf[Top(g).enc]) = Encoding(Top(g).type)
    BY <1>2, <2>1 DEF CallHolds, Holds, Contents
  <2> QED
    BY <2>2 DEF ParentCells
<1>9. ParentCells(g) \in Seq(Cells)
  <2>1. Encoding(Top(g).type) \in Seq(Cells)
    BY <1>7, EncodingGrows
  <2>2. << <<"length", Len(Encoding(Top(g).type))>> >> \in Seq(Cells)
    <3>1. Len(Encoding(Top(g).type)) \in Nat
      BY <2>1
    <3> QED
      BY <3>1 DEF Cells
  <2> QED
    BY <1>8, <2>1, <2>2, ConcatProperties DEF Envelope
<1>10. /\ EncodingUpTo[<<t, i>>] = EncodingUpTo[<<t, i - 1>>] \o ParentCells(g)
       /\ i \in Nat /\ i + 1 \in 1..Len(FieldsOf(t)) + 1
  <2>1. Top(g).type # "scalar"
    BY <1>7, GoEncoderPoolAssumption
  <2>2. i \in Nat /\ i + 1 \in 1..Len(FieldsOf(t)) + 1
    BY <1>6, <1>7
  <2> QED
    BY <1>6, <1>7, <1>8, <2>1, <2>2, EncodingGrows
<1>11. /\ heap' \in [Arrays -> Seq(Cells)] /\ SameBut(heap', a)
       /\ Holds(heap', ParentBuf(g), EncodingUpTo[<<t, i>>])
  <2>1. Holds(heap, Parent(g).buf, EncodingUpTo[<<t, i - 1>>])
    <3>1. CallHolds(heap, encBuf, Parent(g))
      BY <1>3 DEF DataInv
    <3> QED
      BY <1>6, <3>1 DEF CallHolds
  <2> HIDE DEF t, i
  <2> QED
    BY <1>1, <1>2, <1>3, <1>9, <1>10, <2>1, AppendHolds DEF SameBut, ParentBuf
<1> HIDE DEF a
<1>12. ASSUME NEW h \in Goroutines, NEW j \in 1..Depth(h), h # g \/ j # n
       PROVE  CallHolds(heap', encBuf', stack[h][j])
  <2>1. a \notin ArraysOf(stack[h][j])
    BY <1>3, <1>12 DEF OnlyOf
  <2>2. CallHolds(heap, encBuf, stack[h][j]) /\ encBuf'[stack[h][j].enc] = encBuf[stack[h][j].enc]
    BY <1>2 DEF DataInv
  <2> QED
    BY <1>1, <1>11, <2>1, <2>2, CallUntouched
<1>13. ASSUME NEW h \in Goroutines, NEW j \in 1..Depth(h)
       PROVE  CallHolds(heap', encBuf', stack'[h][j])
  <2>1. CASE h = g /\ j = n
    <3>1. (i + 1) - 1 = i
      BY <1>10
    <3> HIDE DEF n, i, t
    <3> QED
      BY <1>5, <1>6, <1>10, <1>11, <2>1, <3>1 DEF CallHolds
  <2>2. CASE h = g /\ j = Depth(g)
    <3>1. CallHolds(heap', encBuf', Top(g))
      BY <1>3, <1>12
    <3> QED
      BY <1>2, <1>5, <2>2, <3>1 DEF CallHolds
  <2>3. CASE h # g \/ (j # n /\ j # Depth(g))
    BY <1>4, <1>12, <2>3
  <2> QED
    BY <2>1, <2>2, <2>3
<1>14. ASSUME NEW h \in Goroutines
       PROVE  Nested(stack'[h])
  <2>1. ASSUME NEW k \in 2..Len(stack[h])
        PROVE  /\ stack'[h][k - 1].stage = "fields"
               /\ stack'[h][k].stage # "copied" =>
                    /\ stack'[h][k - 1].next \in DOMAIN FieldsOf(stack'[h][k - 1].type)
                    /\ FieldsOf(stack'[h][k - 1].type)[stack'[h][k - 1].next]
                         = stack'[h][k].type
    <3>1. k \in 1..Depth(h) /\ k - 1 \in 1..Depth(h) /\ k # k - 1
      <4>1. Len(stack[h]) \in Nat
        BY <1>1 DEF OwnersOK
      <4> QED
        BY <4>1 DEF Depth
    <3>2. /\ stack[h][k - 1].stage = "fields"
          /\ stack[h][k].stage # "copied" =>
               /\ stack[h][k - 1].next \in DOMAIN FieldsOf(stack[h][k - 1].type)
               /\ FieldsOf(stack[h][k - 1].type)[stack[h][k - 1].next] = stack[h][k].type
      BY DEF DataInv, Nested
    <3>3. CASE h = g /\ k = Depth(g)
      BY <1>5, <1>6, <3>3
    <3>4. CASE h = g /\ k = n
      <4>1. k - 1 # n /\ k - 1 # Depth(g)
        BY <1>3, <3>1, <3>4
      <4>2. stack'[h][k - 1] = stack[h][k - 1]
        BY <1>4, <3>1, <4>1
      <4> QED
        BY <1>3, <1>5, <1>6, <3>2, <3>4, <4>2
    <3>5. CASE h # g \/ (k # n /\ k # Depth(g))
      <4>1. h # g \/ (k - 1 # n /\ k - 1 # Depth(g))
        BY <1>3, <3>1, <3>5
      <4> QED
        BY <1>4, <3>1, <3>2, <3>5, <4>1
    <3> QED
      BY <3>3, <3>4, <3>5
  <2> QED
    BY <1>4, <2>1 DEF Nested
<1>15. ASSUME NEW k \in kept
       PROVE  Holds(heap', k.bytes, Encoding(k.type))
  <2>1. k.bytes.arr # a /\ Holds(heap, k.bytes, Encoding(k.type))
    BY <1>3 DEF OnlyOf, DataInv
  <2> QED
    BY <1>1, <1>11, <2>1, KeptUntouched
<1> QED
  BY <1>2, <1>4, <1>11, <1>13, <1>14, <1>15 DEF DataInv, Depth

-----------------------------------------------------------------------------
LEMMA DataHolds == Spec => [](Inv /\ DataInv)
<1>1. Init => DataInv
  <2> SUFFICES ASSUME Init PROVE DataInv
    OBVIOUS
  <2>1. \A g \in Goroutines : stack[g] = <<>> /\ Len(stack[g]) = 0
    BY DEF Init
  <2>2. heap \in [Arrays -> Seq(Cells)] /\ kept = {}
    BY DEF Init
  <2> QED
    BY <2>1, <2>2 DEF DataInv, Nested, Depth
<1>2. Inv /\ DataInv /\ [Next]_vars => DataInv'
  <2> SUFFICES ASSUME Inv, DataInv, [Next]_vars PROVE DataInv'
    OBVIOUS
  <2>1. CASE UNCHANGED vars
    BY <2>1 DEF vars, DataInv, Depth
  <2>2. ASSUME NEW g \in Goroutines, NEW t \in Types, MarshalTo(g, t) \/ Marshal(g, t)
        PROVE  DataInv'
    BY <2>2, BeginKeepsData
  <2>3. ASSUME NEW g \in Goroutines,
               \/ Bind(g) \/ AppendField(g) \/ EnterNested(g) \/ SetBuf(g)
               \/ AppendMessage(g) \/ PutEncoder(g) \/ ReturnBytes(g)
        PROVE  DataInv'
    BY <2>3, BindKeepsData, AppendFieldKeepsData, EnterNestedKeepsData, SetBufKeepsData,
       AppendMessageKeepsData, EndKeepsData
  <2> QED
    BY <2>1, <2>2, <2>3 DEF Next
<1> QED
  BY <1>1, <1>2, InvHolds, PTL DEF Spec

\* What Marshal returned stays the encoding of its message, however many
\* encoders, arrays and goroutines there are and whatever they encode later:
\* Marshal's encoder does not go back to the pool, and no append writes to an
\* array that returned bytes are in.
THEOREM ReturnedBytesStayHolds == Spec => []ReturnedBytesStay
<1>1. DataInv => ReturnedBytesStay
  BY DEF DataInv, ReturnedBytesStay, Holds, Contents
<1> QED
  BY <1>1, DataHolds, PTL

\* When MarshalTo returns, the encoder it was given holds the whole message,
\* nested messages in their envelopes, and nothing its last user left there.
THEOREM MarshalToEncodesHolds == Spec => []MarshalToEncodes
<1>1. DataInv => MarshalToEncodes
  <2> SUFFICES ASSUME DataInv, NEW f \in Frames, f.stage \in {"done", "copied"}
               PROVE  Contents(encBuf[f.enc]) = Encoding(f.type)
    BY DEF MarshalToEncodes
  <2>1. \E g \in Goroutines : \E i \in 1..Depth(g) : f = stack[g][i]
    BY DEF Frames
  <2>2. CallHolds(heap, encBuf, f)
    BY <2>1 DEF DataInv
  <2> QED
    BY <2>2 DEF CallHolds, Holds, Contents
<1> QED
  BY <1>1, DataHolds, PTL
=============================================================================
