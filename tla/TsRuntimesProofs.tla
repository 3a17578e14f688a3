-------------------------- MODULE TsRuntimesProofs --------------------------
(***************************************************************************)
(* What TsRuntimes promises of the encoders of runtime/ts/src, and of the  *)
(* decoders that check for the end, for all fields, values, sizes and      *)
(* bounds.                                                                 *)
(*                                                                         *)
(* The inductive invariant IInv says of the encoder that, unless a write   *)
(* failed halfway, the bytes in use are those of the values asked for      *)
(* (MessageOk), and of each view of this message that it ends before the   *)
(* next byte to be written (ViewOk).  A view of an earlier message, or in  *)
(* an outgrown array, has no writer.                                       *)
(*                                                                         *)
(* Of a decoder, CutInv needs only where each read stands that succeeds:   *)
(* right after the bytes of its field (ReadsWire), and so, after the last  *)
(* one, at the end of the whole message.                                   *)
(***************************************************************************)
EXTENDS TsWritersProofs

-----------------------------------------------------------------------------
(* Messages: the fields, or for a batch the items, that were asked for.    *)

\* The fields that a program writes, and what it asks for at once.
FieldSet(kind) == {Fields(kind)[i] : i \in DOMAIN Fields(kind)}
Items(kind) == IF kind = "batch" THEN Seq(FieldSet(kind)) ELSE FieldSet(kind)

LEMMA RuntimesAre ==
  ASSUME NEW runtime \in Runtimes
  PROVE  /\ runtime \in [kind : Kinds, transfer : BOOLEAN, base64 : BOOLEAN, buffer : BOOLEAN]
         /\ runtime.kind \in Kinds /\ runtime.transfer \in BOOLEAN
         /\ InitialSize(runtime.kind) \in Nat
BY TsRuntimesAssumption

LEMMA FieldSetIs ==
  ASSUME NEW runtime \in Runtimes
  PROVE  /\ \A f \in FieldSet(runtime.kind) : IsField(runtime.kind, f)
         /\ \A fields \in Seq(FieldSet(runtime.kind)) : IsObject(runtime.kind, fields)
<1> DEFINE S == FieldSet(runtime.kind)
<1>1. \A f \in S : IsField(runtime.kind, f)
  BY TsRuntimesAssumption DEF FieldSet
<1> HIDE DEF S
<1>2. ASSUME NEW fields \in Seq(S)
      PROVE  IsObject(runtime.kind, fields)
  BY <1>1, SeqIs DEF IsObject
<1> QED
  BY <1>1, <1>2 DEF S

LEMMA ObjectIs ==
  ASSUME rt \in Runtimes, NEW i \in DOMAIN Fields(rt.kind), NEW j \in 0..Len(Fields(rt.kind))
  PROVE  /\ Object(i, j) \in Seq(FieldSet(rt.kind)) /\ Len(Object(i, j)) \in Nat
         /\ Fields(rt.kind)[i] \in FieldSet(rt.kind)
<1> DEFINE S == FieldSet(rt.kind)
           f == Fields(rt.kind)[i]
           g == Fields(rt.kind)[j]
<1>1. f \in S
  BY DEF FieldSet
<1>2. j # 0 => g \in S
  <2>1. DOMAIN Fields(rt.kind) = 1..Len(Fields(rt.kind)) /\ Len(Fields(rt.kind)) \in Nat
    BY TsRuntimesAssumption
  <2> QED
    BY <2>1 DEF FieldSet
<1>3. Object(i, j) = IF j = 0 THEN <<f>> ELSE <<f, g>>
  BY DEF Object
<1> HIDE DEF S, f, g
<1>4. CASE j = 0
  BY <1>1, <1>3, <1>4 DEF S, f
<1>5. CASE j # 0
  <2>1. Object(i, j) = <<f, g>> /\ f \in S /\ g \in S
    BY <1>1, <1>2, <1>3, <1>5
  <2>2. <<f, g>> \in Seq(S) /\ Len(<<f, g>>) = 2
    BY <2>1
  <2> QED
    BY <2>1, <2>2 DEF S, f
<1> QED
  BY <1>4, <1>5

\* What an item of a message is to be on the wire.
ItemWire(kind, m) ==
  CASE kind = "batch" -> ItemBytes(m)
    [] kind \in {"hyper", "unsafe"} -> Tagged(kind, m)
    [] OTHER -> OnWire(m)

MessageWire(kind, message) == FlattenSeq([i \in DOMAIN message |-> ItemWire(kind, message[i])])

LEMMA ExpectedIs == \A message : Expected(message) = MessageWire(rt.kind, message)
<1>1. rt.kind = "batch" => \A m : TaggedFields(m) = TaggedBytes(m)
  BY DEF TaggedFields, TaggedBytes
<1>2. CASE rt.kind = "batch"
  <2>1. \A m : ItemWire(rt.kind, m) =
                 FixedBytes("uint32", Len(TaggedFields(m))) \o TaggedFields(m)
    BY <1>1, <1>2 DEF ItemWire, ItemBytes
  <2> QED
    BY <1>2, <2>1 DEF Expected, MessageWire
<1>3. CASE rt.kind \in {"hyper", "unsafe"}
  BY <1>3 DEF Expected, MessageWire, ItemWire
<1>4. CASE rt.kind \notin {"batch", "hyper", "unsafe"}
  BY <1>4 DEF Expected, MessageWire, ItemWire
<1> QED
  BY <1>2, <1>3, <1>4

LEMMA ItemWireIs ==
  ASSUME NEW runtime \in Runtimes, NEW m \in Items(runtime.kind)
  PROVE  ItemWire(runtime.kind, m) \in Seq(Nat)
<1> DEFINE kind == runtime.kind
<1>1. kind \in Kinds
  BY RuntimesAre
<1>2. CASE kind = "batch"
  <2>1. m \in Seq(FieldSet(kind))
    BY <1>2 DEF Items
  <2>2. IsObject("batch", m)
    BY <1>2, <2>1, FieldSetIs
  <2>3. ItemWire(kind, m) = ItemBytes(m)
    BY <1>2 DEF ItemWire
  <2> QED
    BY <2>2, <2>3, ItemBytesAre
<1>3. CASE kind # "batch"
  <2>1. IsField(kind, m)
    BY <1>3, FieldSetIs DEF Items
  <2>2. CASE kind \in {"hyper", "unsafe"}
    <3>1. ItemWire(kind, m) = Tagged(kind, m)
      BY <2>2 DEF ItemWire
    <3>2. IsTaggedField(m)
      BY <2>1, <2>2, TaggedFieldIs
    <3> QED
      BY <3>1, <3>2, TaggedIs
  <2>3. CASE kind \notin {"hyper", "unsafe"}
    <3>1. ItemWire(kind, m) = OnWire(m)
      BY <1>3, <2>3 DEF ItemWire
    <3>2. /\ m.t \in WireTypes /\ m.many \in BOOLEAN
          /\ IF m.many THEN m.v \in Seq(ValuesOf(m.t)) ELSE m.v \in ValuesOf(m.t)
      BY <1>1, <1>3, <2>1, <2>3 DEF IsField, TypesOf, WireTypes, Kinds, Numeric
    <3> QED
      BY <3>1, <3>2, OnWireFieldIs, BytesAreNat
  <2> QED
    BY <2>2, <2>3
<1> QED
  BY <1>2, <1>3

LEMMA WiresAre ==
  ASSUME NEW runtime \in Runtimes, NEW m \in Seq(Items(runtime.kind))
  PROVE  LET ss == [i \in DOMAIN m |-> ItemWire(runtime.kind, m[i])]
         IN  /\ ss \in Seq(Seq(Nat)) /\ Len(ss) = Len(m)
             /\ \A i \in 1..Len(m) : ss[i] = ItemWire(runtime.kind, m[i])
             /\ MessageWire(runtime.kind, m) = FlattenSeq(ss)
             /\ MessageWire(runtime.kind, m) \in Seq(Nat)
<1> DEFINE n == Len(m)
           ss == [i \in DOMAIN m |-> ItemWire(runtime.kind, m[i])]
           S == Items(runtime.kind)
<1>1. \A x \in S : ItemWire(runtime.kind, x) \in Seq(Nat)
  BY ItemWireIs
<1> HIDE DEF S
<1>2. n \in Nat /\ DOMAIN m = 1..n /\ \A i \in 1..n : m[i] \in S
  BY SeqIs DEF S
<1>3. ss \in [1..n -> Seq(Nat)] /\ \A i \in 1..n : ss[i] = ItemWire(runtime.kind, m[i])
  BY <1>1, <1>2
<1>4. MessageWire(runtime.kind, m) = FlattenSeq(ss)
  BY DEF MessageWire
<1> HIDE DEF n, ss
<1>5. ss \in Seq(Seq(Nat)) /\ Len(ss) = n
  BY <1>2, <1>3, ListIs
<1>6. FlattenSeq(ss) \in Seq(Nat)
  BY <1>5, FlattenIsSeq
<1> QED
  BY <1>3, <1>4, <1>5, <1>6 DEF n, ss

\* The bytes of a message that goes on are those of its parts.
LEMMA MessageWireCat ==
  ASSUME NEW runtime \in Runtimes, NEW a \in Seq(Items(runtime.kind)),
         NEW b \in Seq(Items(runtime.kind))
  PROVE  MessageWire(runtime.kind, a \o b) =
           MessageWire(runtime.kind, a) \o MessageWire(runtime.kind, b)
<1> DEFINE S == Items(runtime.kind)
           W(m) == [i \in DOMAIN m |-> ItemWire(runtime.kind, m[i])]
           c == a \o b
<1>1. /\ c \in Seq(S) /\ Len(c) = Len(a) + Len(b) /\ Len(a) \in Nat /\ Len(b) \in Nat
      /\ \A i \in 1..Len(a) : c[i] = a[i]
      /\ \A i \in 1..Len(b) : c[Len(a) + i] = b[i]
  <2> HIDE DEF S
  <2> QED
    BY CatIs DEF S
<1> HIDE DEF c
<1>2. \A m \in Seq(S) : /\ W(m) \in Seq(Seq(Nat)) /\ Len(W(m)) = Len(m)
                        /\ \A i \in 1..Len(m) : W(m)[i] = ItemWire(runtime.kind, m[i])
                        /\ MessageWire(runtime.kind, m) = FlattenSeq(W(m))
  BY WiresAre
<1> DEFINE d == W(a) \o W(b)
           A == Seq(Nat)
<1> HIDE DEF W, A
<1>3. /\ d \in Seq(A) /\ Len(d) = Len(a) + Len(b)
      /\ \A i \in 1..Len(a) : d[i] = W(a)[i]
      /\ \A i \in 1..Len(b) : d[Len(a) + i] = W(b)[i]
  <2>1. W(a) \in Seq(A) /\ W(b) \in Seq(A) /\ Len(W(a)) = Len(a) /\ Len(W(b)) = Len(b)
    BY <1>2 DEF A
  <2> DEFINE x == W(a)
             y == W(b)
  <2>2. x \in Seq(A) /\ y \in Seq(A) /\ d = x \o y
    BY <2>1
  <2> HIDE DEF x, y
  <2>3. /\ x \o y \in Seq(A) /\ Len(x \o y) = Len(x) + Len(y)
        /\ \A i \in 1..Len(x) : (x \o y)[i] = x[i]
        /\ \A i \in 1..Len(y) : (x \o y)[Len(x) + i] = y[i]
    BY <2>2, CatIs
  <2> HIDE DEF d
  <2>4. /\ d \in Seq(A) /\ Len(d) = Len(x) + Len(y)
        /\ \A i \in 1..Len(x) : d[i] = x[i]
        /\ \A i \in 1..Len(y) : d[Len(x) + i] = y[i]
    BY <2>2, <2>3
  <2>5. Len(x) = Len(a) /\ Len(y) = Len(b)
    BY <2>1 DEF x, y
  <2> QED
    BY <2>4, <2>5 DEF x, y
<1> HIDE DEF d
<1>4. W(c) \in Seq(A) /\ Len(W(c)) = Len(a) + Len(b)
  BY <1>1, <1>2 DEF A
<1>5. ASSUME NEW i \in 1..(Len(a) + Len(b))
      PROVE  W(c)[i] = d[i]
  <2>1. W(c)[i] = ItemWire(runtime.kind, c[i])
    BY <1>1, <1>2
  <2>2. CASE i \in 1..Len(a)
    <3>1. c[i] = a[i] /\ d[i] = ItemWire(runtime.kind, a[i])
      BY <1>1, <1>2, <1>3, <2>2
    <3> QED
      BY <2>1, <3>1
  <2>3. CASE i \notin 1..Len(a)
    <3> DEFINE j == i - Len(a)
    <3>1. j \in 1..Len(b) /\ i = Len(a) + j
      BY <1>1, <2>3
    <3> HIDE DEF j
    <3>2. c[i] = b[j] /\ d[i] = ItemWire(runtime.kind, b[j])
      BY <1>1, <1>2, <1>3, <3>1
    <3> QED
      BY <2>1, <3>2
  <2> QED
    BY <2>2, <2>3
<1>6. W(c) = d
  <2>1. Len(W(c)) = Len(d) /\ \A i \in 1..Len(W(c)) : W(c)[i] = d[i]
    BY <1>3, <1>4, <1>5
  <2> QED
    BY <1>3, <1>4, <2>1, SameSeq
<1>7. FlattenSeq(d) = FlattenSeq(W(a)) \o FlattenSeq(W(b))
  BY <1>2, FlattenCat DEF d
<1> QED
  BY <1>1, <1>2, <1>6, <1>7 DEF c

LEMMA MessageWireOne ==
  ASSUME NEW runtime \in Runtimes, NEW m \in Items(runtime.kind)
  PROVE  MessageWire(runtime.kind, <<m>>) = ItemWire(runtime.kind, m)
<1>1. [i \in DOMAIN <<m>> |-> ItemWire(runtime.kind, <<m>>[i])] = <<ItemWire(runtime.kind, m)>>
  OBVIOUS
<1>2. MessageWire(runtime.kind, <<m>>) = FlattenSeq(<<ItemWire(runtime.kind, m)>>)
  BY <1>1 DEF MessageWire
<1> QED
  BY <1>2, ItemWireIs, FlattenOne

LEMMA MessageWireNone ==
  ASSUME NEW kind
  PROVE  MessageWire(kind, <<>>) = <<>>
<1>1. [i \in DOMAIN <<>> |-> ItemWire(kind, <<>>[i])] = <<>>
  OBVIOUS
<1> QED
  BY <1>1, FlattenNone DEF MessageWire

\* What a runtime carries, as Carried has it of the runtime in use.
CarriedBy(kind, f) ==
  /\ kind \in {"jit", "browser_jit"} =>
       f.t \notin {"bytes", "message", "base64"} /\ \A s \in Texts(f) : Short(s)
  /\ kind = "collections" => \A s \in Texts(f) : Short(s) /\ IsAscii(s)
  /\ f.t = "sint32" => Zigzag(f.v) < Base^SizeInt32 \div 2
  /\ kind = "unsafe" /\ f.t \in {"int64", "uint64"} => InRange(f.t, f.v)
  /\ kind \in {"hyper", "batch"} => f.n <= 1

FlatItems(kind, m) == IF kind = "batch" THEN FlattenSeq(m) ELSE m

AllCarried(kind, m) == \A i \in DOMAIN FlatItems(kind, m) : CarriedBy(kind, FlatItems(kind, m)[i])

LEMMA FaithfulIs ==
  ASSUME NEW view, Faithful(view)
  PROVE  view.whole /\ AllCarried(rt.kind, view.asked)
<1>1. \A f : Carried(f) => CarriedBy(rt.kind, f)
  BY DEF Carried, CarriedBy
<1>2. FlatFields(view) = FlatItems(rt.kind, view.asked)
  BY DEF FlatFields, FlatItems
<1> QED
  BY <1>1, <1>2 DEF Faithful, AllCarried

LEMMA PartsAre ==
  ASSUME NEW A, NEW x \in Seq(A), NEW y \in Seq(A), NEW kind,
         \A i \in DOMAIN (x \o y) : CarriedBy(kind, (x \o y)[i])
  PROVE  /\ \A i \in DOMAIN x : CarriedBy(kind, x[i])
         /\ \A i \in DOMAIN y : CarriedBy(kind, y[i])
<1> DEFINE z == x \o y
           m == Len(x)
           n == Len(y)
<1>1. /\ z \in Seq(A) /\ Len(z) = m + n /\ m \in Nat /\ n \in Nat
      /\ \A i \in 1..m : z[i] = x[i]
      /\ \A i \in 1..n : z[m + i] = y[i]
  BY CatIs
<1>2. DOMAIN z = 1..(m + n) /\ DOMAIN x = 1..m /\ DOMAIN y = 1..n
  BY <1>1, SeqIs
<1>3. \A i \in 1..(m + n) : CarriedBy(kind, z[i])
  BY <1>2
<1> HIDE DEF z, m, n
<1>4. ASSUME NEW i \in 1..m
      PROVE  CarriedBy(kind, x[i])
  <2>1. i \in 1..(m + n)
    BY <1>1
  <2> QED
    BY <1>1, <1>3, <2>1
<1>5. ASSUME NEW i \in 1..n
      PROVE  CarriedBy(kind, y[i])
  <2>1. m + i \in 1..(m + n)
    BY <1>1
  <2> QED
    BY <1>1, <1>3, <2>1
<1> QED
  BY <1>2, <1>4, <1>5

LEMMA AllCarriedCat ==
  ASSUME NEW kind, NEW a \in Seq(Items(kind)), NEW b \in Seq(Items(kind)),
         AllCarried(kind, a \o b)
  PROVE  AllCarried(kind, a) /\ AllCarried(kind, b)
<1>1. CASE kind = "batch"
  <2> DEFINE A == FieldSet(kind)
             x == FlattenSeq(a)
             y == FlattenSeq(b)
  <2>1. a \in Seq(Seq(A)) /\ b \in Seq(Seq(A))
    BY <1>1 DEF Items
  <2> HIDE DEF A
  <2>2. FlattenSeq(a \o b) = x \o y /\ x \in Seq(A) /\ y \in Seq(A)
    BY <2>1, FlattenCat, FlattenIsSeq
  <2>3. FlatItems(kind, a) = x /\ FlatItems(kind, b) = y /\ FlatItems(kind, a \o b) = x \o y
    BY <1>1, <2>2 DEF FlatItems
  <2> HIDE DEF x, y
  <2>4. \A i \in DOMAIN (x \o y) : CarriedBy(kind, (x \o y)[i])
    BY <2>3 DEF AllCarried
  <2>5. /\ \A i \in DOMAIN x : CarriedBy(kind, x[i])
        /\ \A i \in DOMAIN y : CarriedBy(kind, y[i])
    BY <2>2, <2>4, PartsAre
  <2> QED
    BY <2>3, <2>5 DEF AllCarried
<1>2. CASE kind # "batch"
  <2>1. FlatItems(kind, a) = a /\ FlatItems(kind, b) = b /\ FlatItems(kind, a \o b) = a \o b
    BY <1>2 DEF FlatItems
  <2>2. \A i \in DOMAIN (a \o b) : CarriedBy(kind, (a \o b)[i])
    BY <2>1 DEF AllCarried
  <2>3. /\ \A i \in DOMAIN a : CarriedBy(kind, a[i])
        /\ \A i \in DOMAIN b : CarriedBy(kind, b[i])
    BY <2>2, PartsAre
  <2> QED
    BY <2>1, <2>3 DEF AllCarried
<1> QED
  BY <1>1, <1>2

LEMMA AllCarriedOne ==
  ASSUME NEW kind, NEW m \in Items(kind), AllCarried(kind, <<m>>)
  PROVE  /\ kind = "batch" => \A i \in DOMAIN m : CarriedBy(kind, m[i])
         /\ kind # "batch" => CarriedBy(kind, m)
<1>1. CASE kind = "batch"
  <2>1. m \in Seq(FieldSet(kind))
    BY <1>1 DEF Items
  <2>2. FlattenSeq(<<m>>) = m
    BY <2>1, FlattenOne
  <2> QED
    BY <1>1, <2>2 DEF AllCarried, FlatItems
<1>2. CASE kind # "batch"
  <2>1. FlatItems(kind, <<m>>) = <<m>> /\ DOMAIN <<m>> = 1..1 /\ <<m>>[1] = m
    BY <1>2 DEF FlatItems
  <2> QED
    BY <1>2, <2>1 DEF AllCarried
<1> QED
  BY <1>1, <1>2

-----------------------------------------------------------------------------
(* What each write of a runtime does.                                      *)

LEMMA KeptAlso ==
  ASSUME NEW h, NEW g, NEW p, NEW transfer, Kept(h, g, p, FALSE)
  PROVE  Kept(h, g, p, transfer)
BY DEF Kept

LEMMA WritesOfSlab ==
  ASSUME NEW e \in Encoders, NEW x, NEW b, NEW carried, NEW transfer, Slab(e, x, b, carried)
  PROVE  Writes(e, x, b, carried /\ e.pos + Len(b) <= Room(e), transfer)
<1>1. Kept(e.heap, x.heap, e.pos, transfer)
  BY KeptAlso DEF Slab, Writes
<1> QED
  BY <1>1 DEF Slab, Writes

\* Index, browser, node and hybrid encoders.
LEMMA FieldWrites ==
  ASSUME NEW runtime \in Runtimes, NEW e \in Ready, NEW f \in FieldSet(runtime.kind)
  PROVE  /\ runtime.kind \in {"index", "browser", "node"} =>
              Grown(e, WriteField(e, runtime, f), MessageWire(runtime.kind, <<f>>), runtime.transfer)
         /\ runtime.kind = "hybrid" =>
              Grown(e, HybridField(e, runtime, f), MessageWire(runtime.kind, <<f>>), runtime.transfer)
<1>1. IsField(runtime.kind, f)
  BY FieldSetIs
<1>2. runtime \in [kind : Kinds, transfer : BOOLEAN, base64 : BOOLEAN, buffer : BOOLEAN]
  BY RuntimesAre
<1>3. ASSUME runtime.kind \in {"index", "browser", "node", "hybrid"}
      PROVE  MessageWire(runtime.kind, <<f>>) = OnWire(f)
  <2>1. f \in Items(runtime.kind) /\ ItemWire(runtime.kind, f) = OnWire(f)
    BY <1>3 DEF Items, ItemWire
  <2> QED
    BY <2>1, MessageWireOne
<1>4. ASSUME runtime.kind \in {"index", "browser", "node"}
      PROVE  Grown(e, WriteField(e, runtime, f), OnWire(f), runtime.transfer)
  <2>1. runtime \in GrowingRuntimes
    BY <1>2, <1>4 DEF GrowingRuntimes
  <2> QED
    BY <1>1, <2>1, WriteFieldIs
<1>5. ASSUME runtime.kind = "hybrid"
      PROVE  Grown(e, HybridField(e, runtime, f), OnWire(f), runtime.transfer)
  <2>1. runtime \in [kind : {"hybrid"}, transfer : BOOLEAN, base64 : BOOLEAN, buffer : BOOLEAN]
    BY <1>2, <1>5
  <2> QED
    BY <1>1, <1>5, <2>1, HybridFieldIs
<1> QED
  BY <1>3, <1>4, <1>5

\* Compiled encoders.
LEMMA ObjectWrites ==
  ASSUME NEW runtime \in Runtimes, runtime.kind \in {"jit", "browser_jit"}, NEW e \in Encoders,
         NEW fields \in Seq(FieldSet(runtime.kind))
  PROVE  Slab(e, JitEncode(e, runtime, fields), MessageWire(runtime.kind, fields),
              AllCarried(runtime.kind, fields))
<1> DEFINE kind == runtime.kind
<1>1. IsObject(kind, fields)
  BY FieldSetIs
<1>2. MessageWire(kind, fields) = ObjectOnWire(fields)
  BY DEF MessageWire, ObjectOnWire, ItemWire
<1>3. AllCarried(kind, fields) => ObjectCarried(fields)
  <2> SUFFICES ASSUME AllCarried(kind, fields), NEW i \in 1..Len(fields)
               PROVE  ShortField(fields[i])
    BY DEF ObjectCarried
  <2> DEFINE f == fields[i]
  <2>1. FlatItems(kind, fields) = fields
    BY DEF FlatItems
  <2>2. CarriedBy(kind, f)
    BY <1>1, <2>1 DEF AllCarried, IsObject
  <2>3. f.t \notin {"bytes", "message", "base64"} /\ \A s \in Texts(f) : Short(s)
    BY <2>2 DEF CarriedBy
  <2>4. f.t = "string" => Texts(f) = Scalars(f)
    BY DEF Texts
  <2> QED
    BY <2>3, <2>4 DEF ShortField
<1>4. Slab(e, JitEncode(e, runtime, fields), ObjectOnWire(fields), ObjectCarried(fields))
  BY <1>1, JitEncodeIs
<1> QED
  BY <1>2, <1>3, <1>4, SlabLess

\* Batches.
LEMMA ItemWrites ==
  ASSUME NEW runtime \in Runtimes, runtime.kind = "batch", NEW e \in Encoders,
         NEW fields \in Seq(FieldSet(runtime.kind))
  PROVE  Slab(e, BatchItem(e, fields), MessageWire(runtime.kind, <<fields>>),
              AllCarried(runtime.kind, <<fields>>))
<1> DEFINE kind == runtime.kind
<1>1. IsObject("batch", fields) /\ fields \in Items(kind)
  BY FieldSetIs DEF Items
<1>2. MessageWire(kind, <<fields>>) = ItemBytes(fields)
  BY <1>1, MessageWireOne DEF ItemWire
<1>3. ASSUME AllCarried(kind, <<fields>>)
      PROVE  ItemCarried(fields)
  <2>1. \A i \in DOMAIN fields : CarriedBy(kind, fields[i])
    BY <1>1, <1>3, AllCarriedOne
  <2>2. DOMAIN fields = 1..Len(fields)
    BY <1>1 DEF IsObject
  <2> QED
    BY <2>1, <2>2 DEF ItemCarried, CarriedBy, SignFits
<1>4. Slab(e, BatchItem(e, fields), ItemBytes(fields), ItemCarried(fields))
  BY <1>1, BatchItemIs
<1> QED
  BY <1>2, <1>3, <1>4, SlabLess

\* Hyper and unsafe encoders.
LEMMA TaggedWrites ==
  ASSUME NEW runtime \in Runtimes, NEW e \in Encoders, NEW f \in FieldSet(runtime.kind)
  PROVE  LET b == MessageWire(runtime.kind, <<f>>)
             carried == AllCarried(runtime.kind, <<f>>)
             hyper == HyperField(e, f)
             unsafe == UnsafeField(e, f)
         IN  /\ runtime.kind = "hyper" =>
                  Writes(e, hyper, b, carried /\ TaggedFits(e, hyper, f, b), FALSE)
             /\ runtime.kind = "unsafe" =>
                  Writes(e, unsafe, b, carried /\ TaggedFits(e, unsafe, f, b), FALSE)
             /\ runtime.kind \in {"hyper", "unsafe"} => b = Tagged(runtime.kind, f)
<1> DEFINE kind == runtime.kind
           b == MessageWire(kind, <<f>>)
           carried == AllCarried(kind, <<f>>)
           hyper == HyperField(e, f)
           unsafe == UnsafeField(e, f)
<1>1. ASSUME kind \in {"hyper", "unsafe"}
      PROVE  /\ IsTaggedField(f) /\ f.t \in TypesOf(kind) /\ b = Tagged(kind, f)
             /\ carried => SignFits(f) /\ (kind = "hyper" => f.n <= 1)
             /\ carried /\ kind = "unsafe" => UnsafeFits(f)
  <2>1. IsField(kind, f) /\ f \in Items(kind)
    BY <1>1, FieldSetIs DEF Items
  <2>2. b = Tagged(kind, f)
    BY <1>1, <2>1, MessageWireOne DEF ItemWire
  <2>3. carried => CarriedBy(kind, f)
    BY <1>1, <2>1, AllCarriedOne
  <2>4. IsTaggedField(f) /\ f.t \in TypesOf(kind)
    BY <1>1, <2>1, TaggedFieldIs
  <2> QED
    BY <2>2, <2>3, <2>4 DEF CarriedBy, SignFits, UnsafeFits
<1>2. ASSUME kind = "hyper"
      PROVE  Writes(e, hyper, b, carried /\ TaggedFits(e, hyper, f, b), FALSE)
  <2>1. Slab(e, hyper, b, f.n <= 1 /\ SignFits(f))
    BY <1>1, <1>2, HyperFieldIs
  <2> HIDE DEF hyper, b, carried
  <2>2. Slab(e, hyper, b, carried)
    BY <1>1, <1>2, <2>1, SlabLess
  <2>3. Room(hyper) = Room(e) /\ Writes(e, hyper, b, carried /\ e.pos + Len(b) <= Room(e), FALSE)
    BY <2>2 DEF Slab
  <2> QED
    BY <2>3 DEF Writes, TaggedFits
<1>3. ASSUME kind = "unsafe"
      PROVE  Writes(e, unsafe, b, carried /\ TaggedFits(e, unsafe, f, b), FALSE)
  <2>1. Writes(e, unsafe, Tagged("unsafe", f),
               UnsafeFits(f) /\ TaggedFits(e, unsafe, f, Tagged("unsafe", f)), FALSE)
    BY <1>1, <1>3, UnsafeFieldIs
  <2>2. b = Tagged("unsafe", f) /\ (carried => UnsafeFits(f))
    BY <1>1, <1>3
  <2> HIDE DEF unsafe, b, carried
  <2> QED
    BY <2>1, <2>2 DEF Writes
<1> QED
  BY <1>1, <1>2, <1>3

-----------------------------------------------------------------------------
(* What a program has between two calls.                                   *)

\* The bytes in use are those of the values that were asked for.
MessageOk(kind, e, m) ==
  AllCarried(kind, m) => e.pos = Len(MessageWire(kind, m)) /\ Holds(e, 0, MessageWire(kind, m))

\* A view of the message being written ends before the next byte to be written.
ViewOk(e, n, v) ==
  /\ v.arr \in 1..Len(e.heap) /\ v.len \in Nat /\ v.epoch \in Nat /\ v.epoch <= n
  /\ v.epoch = n /\ v.arr = Len(e.heap) => v.len <= e.pos

EncoderOk(kind, e) ==
  /\ e \in Encoders /\ e.ok
  /\ kind \in {"index", "browser", "node", "hybrid"} => e.pos <= Room(e)

ViewSet(kind) == [arr : Nat, len : Nat, asked : Seq(Items(kind)), whole : BOOLEAN, epoch : Nat]

ViewsOk(e, n, vs) == \A k \in 1..Len(vs) : ViewOk(e, n, vs[k])

ReaderOk(r, vs) ==
  r # None =>
    /\ r.by \in LazyKinds /\ vs # <<>>
    /\ r = [by |-> r.by, view |-> 1, offsets |-> r.offsets, cache |-> r.cache]

GotOk(g, vs) == g # None => vs # <<>> /\ g.n \in 0..vs[1].len

IInv ==
  /\ rt \in Runtimes
  /\ EncoderOk(rt.kind, enc)
  /\ asked \in Seq(Items(rt.kind))
  /\ whole \in BOOLEAN /\ resets \in Nat /\ writes \in 0..MaxWrites
  /\ views \in Seq(ViewSet(rt.kind)) /\ ViewsOk(enc, resets, views)
  /\ ReaderOk(reader, views)
  /\ GotOk(got, views)
  /\ rt.kind # "collections" /\ whole => MessageOk(rt.kind, enc, asked)

LEMMA MinOfTwo ==
  ASSUME NEW a \in Nat, NEW b \in Nat
  PROVE  LET m == Min({a, b})
         IN  m \in Nat /\ m <= a /\ m <= b /\ (a <= b => m = a)
<1>1. \E x \in {a, b} : \A y \in {a, b} : x <= y
  <2>1. CASE a <= b
    BY <2>1
  <2>2. CASE ~(a <= b)
    BY <2>2
  <2> QED
    BY <2>1, <2>2
<1>2. Min({a, b}) \in {a, b} /\ \A y \in {a, b} : Min({a, b}) <= y
  BY <1>1 DEF Min
<1> QED
  BY <1>2

\* What follows a call that threw is that the encoder goes on.
LEMMA OkIs ==
  ASSUME NEW x \in Encoders
  PROVE  LET y == [x EXCEPT !.ok = TRUE]
         IN  /\ y \in Encoders /\ y.ok /\ y.pos = x.pos /\ y.heap = x.heap
             /\ Cells(y) = Cells(x) /\ Room(y) = Room(x)
<1> DEFINE y == [x EXCEPT !.ok = TRUE]
<1>1. y \in Encoders /\ y.ok /\ y.pos = x.pos /\ y.heap = x.heap
  BY DEF Encoders
<1> HIDE DEF y
<1>2. Cells(y) = Cells(x) /\ Room(y) = Room(x)
  BY <1>1 DEF Cells, Room
<1> QED
  BY <1>1, <1>2 DEF y

LEMMA WritesFrom ==
  ASSUME NEW e \in Encoders, NEW y \in Encoders, NEW x, NEW b, NEW fits, NEW transfer \in BOOLEAN,
         y.pos = e.pos, y.ok => e.ok, Kept(e.heap, y.heap, e.pos, transfer),
         Writes(y, x, b, fits, transfer)
  PROVE  Writes(e, x, b, fits, transfer)
<1>1. /\ x \in Encoders /\ e.pos <= x.pos /\ Kept(y.heap, x.heap, e.pos, transfer)
      /\ x.ok => e.ok
      /\ fits /\ x.ok => x.pos = e.pos + Len(b) /\ Holds(x, e.pos, b)
  BY DEF Writes
<1>2. e.heap \in Heaps /\ y.heap \in Heaps /\ x.heap \in Heaps
  BY <1>1, EncoderIs
<1>3. Kept(e.heap, x.heap, e.pos, transfer)
  BY <1>1, <1>2, KeptTrans
<1> QED
  BY <1>1, <1>3 DEF Writes

\* A call that returned makes the message longer.
LEMMA MessageLonger ==
  ASSUME NEW runtime \in Runtimes, NEW e \in Encoders, NEW x \in Encoders,
         NEW m \in Seq(Items(runtime.kind)), NEW added \in Seq(Items(runtime.kind)),
         NEW fits, NEW transfer, fits, x.ok, MessageOk(runtime.kind, e, m),
         Writes(e, x, MessageWire(runtime.kind, added), AllCarried(runtime.kind, added) /\ fits,
                transfer)
  PROVE  MessageOk(runtime.kind, x, m \o added)
<1> DEFINE kind == runtime.kind
           a == MessageWire(kind, m)
           b == MessageWire(kind, added)
<1> SUFFICES ASSUME AllCarried(kind, m \o added)
             PROVE  x.pos = Len(MessageWire(kind, m \o added))
                      /\ Holds(x, 0, MessageWire(kind, m \o added))
  BY DEF MessageOk
<1>1. AllCarried(kind, m) /\ AllCarried(kind, added)
  BY AllCarriedCat
<1>2. MessageWire(kind, m \o added) = a \o b /\ a \in Seq(Nat) /\ b \in Seq(Nat)
  BY MessageWireCat, WiresAre
<1>3. e.pos = Len(a) /\ Holds(e, 0, a)
  BY <1>1 DEF MessageOk
<1>4. x.pos = e.pos + Len(b) /\ Holds(x, e.pos, b) /\ Kept(e.heap, x.heap, e.pos, transfer)
  BY <1>1 DEF Writes
<1> HIDE DEF a, b
<1>5. Len(a \o b) = Len(a) + Len(b) /\ Len(a) \in Nat
  BY <1>2, CatIs
<1>6. e.pos \in Nat /\ 0 + Len(a) = e.pos /\ 0 + Len(a) <= e.pos
  BY <1>3, <1>5
<1>7. Holds(x, 0, a)
  BY <1>2, <1>3, <1>4, <1>6, HoldsKept
<1>8. Holds(x, 0, a \o b)
  BY <1>2, <1>4, <1>6, <1>7, HoldsCat
<1> QED
  BY <1>2, <1>3, <1>4, <1>5, <1>8

\* A call that threw, and left the position where it was, leaves the message.
LEMMA MessageStays ==
  ASSUME NEW runtime \in Runtimes, NEW e \in Encoders, NEW x \in Encoders,
         NEW m \in Seq(Items(runtime.kind)), NEW transfer, x.pos = e.pos,
         Kept(e.heap, x.heap, e.pos, transfer), MessageOk(runtime.kind, e, m)
  PROVE  MessageOk(runtime.kind, x, m)
<1> DEFINE a == MessageWire(runtime.kind, m)
<1> SUFFICES ASSUME AllCarried(runtime.kind, m)
             PROVE  x.pos = Len(a) /\ Holds(x, 0, a)
  BY DEF MessageOk
<1>1. e.pos = Len(a) /\ Holds(e, 0, a) /\ a \in Seq(Nat)
  BY WiresAre DEF MessageOk
<1> HIDE DEF a
<1>2. Len(a) \in Nat
  BY <1>1, SeqIs
<1>3. e.pos \in Nat /\ 0 + Len(a) <= e.pos
  BY <1>1, <1>2
<1>4. Holds(x, 0, a)
  BY <1>1, <1>3, HoldsKept
<1> QED
  BY <1>1, <1>4

LEMMA MessageSame ==
  ASSUME NEW kind, NEW x, NEW y, NEW m, y.pos = x.pos, Cells(y) = Cells(x), Room(y) = Room(x),
         MessageOk(kind, x, m)
  PROVE  MessageOk(kind, y, m)
BY DEF MessageOk, Holds

\* The bytes that a view shows are not touched by what is written after it.
LEMMA ViewStays ==
  ASSUME NEW e \in Encoders, NEW x \in Encoders, NEW transfer \in BOOLEAN, NEW n \in Nat, NEW v,
         e.pos <= x.pos, Kept(e.heap, x.heap, e.pos, transfer), ViewOk(e, n, v)
  PROVE  /\ ViewOk(x, n, v)
         /\ v.epoch = n =>
              Memory(x, v) = Memory(e, v) \/ (transfer /\ Memory(x, v).detached)
<1> DEFINE h == e.heap
           g == x.heap
           k == Len(h)
           a == v.arr
<1>1. /\ h \in Heaps /\ g \in Heaps /\ k \in Nat /\ Len(g) \in Nat /\ k >= 1
      /\ e.pos \in Nat /\ x.pos \in Nat
  BY EncoderIs
<1>2. /\ a \in 1..k /\ v.len \in Nat /\ v.epoch \in Nat /\ v.epoch <= n
      /\ v.epoch = n /\ a = k => v.len <= e.pos
  BY DEF ViewOk
<1>3. /\ k <= Len(g) /\ \A i \in 1..(k - 1) : g[i] = h[i]
      /\ \/ transfer /\ g[k].detached
         \/ /\ ~g[k].detached /\ SameFront(h[k].cells, g[k].cells, e.pos)
            /\ Len(g[k].cells) = Len(h[k].cells)
  BY DEF Kept
<1>4. /\ ~h[k].detached /\ k \in 1..k
      /\ \A i \in 1..k : h[i].cells \in Seq(Bytes) /\ h[i].detached \in BOOLEAN
      /\ \A i \in 1..Len(g) : g[i].cells \in Seq(Bytes) /\ g[i].detached \in BOOLEAN
  BY <1>1, HeapIs
<1>5. ViewOk(x, n, v)
  <2>1. a \in 1..Len(g)
    BY <1>1, <1>2, <1>3
  <2>2. v.epoch = n /\ a = Len(g) => v.len <= x.pos
    BY <1>1, <1>2, <1>3
  <2> QED
    BY <1>2, <2>1, <2>2 DEF ViewOk
<1>6. ASSUME v.epoch = n
      PROVE  Memory(x, v) = Memory(e, v) \/ (transfer /\ Memory(x, v).detached)
  <2>1. /\ Memory(e, v) = [b |-> SubSeq(h[a].cells, 1, Min({v.len, Len(h[a].cells)})),
                           detached |-> h[a].detached]
        /\ Memory(x, v) = [b |-> SubSeq(g[a].cells, 1, Min({v.len, Len(g[a].cells)})),
                           detached |-> g[a].detached]
    BY DEF Memory
  <2>2. CASE a # k
    <3>1. a \in 1..(k - 1)
      BY <1>1, <1>2, <2>2
    <3>2. g[a] = h[a]
      BY <1>3, <3>1
    <3> QED
      BY <2>1, <3>2
  <2>3. CASE a = k /\ transfer /\ g[k].detached
    BY <2>1, <2>3
  <2>4. CASE a = k /\ ~g[k].detached /\ SameFront(h[k].cells, g[k].cells, e.pos)
             /\ Len(g[k].cells) = Len(h[k].cells)
    <3> DEFINE c == h[k].cells
               d == g[k].cells
               l == Min({v.len, Len(c)})
    <3>1. k \in 1..Len(g) /\ v.len <= e.pos
      BY <1>1, <1>2, <1>3, <1>6, <2>4
    <3>2. c \in Seq(Bytes) /\ d \in Seq(Bytes) /\ g[k].detached = h[k].detached
      <4>1. g[k].detached \in BOOLEAN /\ h[k].detached \in BOOLEAN
        BY <1>4, <3>1
      <4> QED
        BY <1>4, <2>4, <3>1, <4>1
    <3>3. Len(d) = Len(c) /\ \A i \in 1..Len(c) : i <= e.pos => d[i] = c[i]
      BY <2>4 DEF SameFront
    <3> HIDE DEF c, d
    <3>4. Len(c) \in Nat
      BY <3>2, SeqIs
    <3>5. l \in Nat /\ l <= v.len /\ l <= Len(c)
      BY <1>2, <3>4, MinOfTwo
    <3> HIDE DEF l
    <3>6. \A i \in 1..l : d[i] = c[i]
      BY <1>1, <1>2, <3>1, <3>3, <3>4, <3>5
    <3>7. SubSeq(c, 1, l) = SubSeq(d, 1, l)
      <4>1. SubSeq(c, 1, l) = [i \in 1..l |-> c[i]] /\ SubSeq(d, 1, l) = [i \in 1..l |-> d[i]]
        BY <3>2, <3>3, <3>4, <3>5
      <4> QED
        BY <3>6, <4>1
    <3>8. Min({v.len, Len(d)}) = l
      BY <3>3 DEF l
    <3> QED
      BY <2>1, <2>4, <3>2, <3>7, <3>8 DEF c, d, l
  <2> QED
    BY <1>2, <1>3, <2>2, <2>3, <2>4
<1> QED
  BY <1>5, <1>6

LEMMA ViewsStay ==
  ASSUME NEW e \in Encoders, NEW x \in Encoders, NEW transfer \in BOOLEAN, NEW n \in Nat,
         NEW A, NEW vs \in Seq(A),
         e.pos <= x.pos, Kept(e.heap, x.heap, e.pos, transfer), ViewsOk(e, n, vs)
  PROVE  /\ ViewsOk(x, n, vs)
         /\ \A k \in DOMAIN vs : vs[k].epoch = n =>
              Memory(x, vs[k]) = Memory(e, vs[k]) \/ (transfer /\ Memory(x, vs[k]).detached)
<1>1. Len(vs) \in Nat /\ DOMAIN vs = 1..Len(vs) /\ \A k \in 1..Len(vs) : ViewOk(e, n, vs[k])
  BY SeqIs DEF ViewsOk
<1>2. \A k \in 1..Len(vs) :
        /\ ViewOk(x, n, vs[k])
        /\ vs[k].epoch = n =>
             Memory(x, vs[k]) = Memory(e, vs[k]) \/ (transfer /\ Memory(x, vs[k]).detached)
  BY <1>1, ViewStays
<1> QED
  BY <1>1, <1>2 DEF ViewsOk

\* Once the front of the array is written anew, no view is of this message.
LEMMA ViewsAreOld ==
  ASSUME NEW e \in Encoders, NEW x \in Encoders, NEW n \in Nat,
         NEW A, NEW vs \in Seq(A),
         Len(e.heap) <= Len(x.heap), ViewsOk(e, n, vs)
  PROVE  ViewsOk(x, n + 1, vs) /\ \A k \in DOMAIN vs : vs[k].epoch # n + 1
<1>1. Len(vs) \in Nat /\ DOMAIN vs = 1..Len(vs) /\ \A k \in 1..Len(vs) : ViewOk(e, n, vs[k])
  BY SeqIs DEF ViewsOk
<1>2. Len(e.heap) \in Nat /\ Len(x.heap) \in Nat
  BY EncoderIs
<1>3. ASSUME NEW k \in 1..Len(vs)
      PROVE  ViewOk(x, n + 1, vs[k]) /\ vs[k].epoch # n + 1
  <2>1. ViewOk(e, n, vs[k])
    BY <1>1
  <2> QED
    BY <1>2, <2>1 DEF ViewOk
<1> QED
  BY <1>1, <1>3 DEF ViewsOk


\* One more view, of what was written so far.
LEMMA ViewsGrow ==
  ASSUME NEW e \in Encoders, NEW n \in Nat, NEW kind, NEW m \in Seq(Items(kind)),
         NEW isWhole \in BOOLEAN, NEW vs \in Seq(ViewSet(kind)), ViewsOk(e, n, vs)
  PROVE  LET v == View(e, m, isWhole, n)
             ws == Append(vs, v)
         IN  /\ ws \in Seq(ViewSet(kind)) /\ ViewsOk(e, n, ws) /\ ws # <<>> /\ Last(ws) = v
             /\ v.asked = m /\ v.whole = isWhole
             /\ vs # <<>> => ws[1] = vs[1]
<1> DEFINE v == View(e, m, isWhole, n)
           ws == Append(vs, v)
           A == ViewSet(kind)
           l == Len(vs)
<1>1. /\ e.pos \in Nat /\ Room(e) \in Nat /\ Len(e.heap) \in Nat /\ Len(e.heap) >= 1
  BY EncoderIs
<1>2. /\ v.arr = Len(e.heap) /\ v.len = Min({e.pos, Room(e)}) /\ v.epoch = n
      /\ v.asked = m /\ v.whole = isWhole
  BY DEF View
<1>3. v.len \in Nat /\ v.len <= e.pos
  BY <1>1, <1>2, MinOfTwo
<1>4. v \in A
  BY <1>1, <1>2, <1>3 DEF View, ViewSet
<1>5. ViewOk(e, n, v)
  BY <1>1, <1>2, <1>3 DEF ViewOk
<1> HIDE DEF v, A
<1>6. vs \in Seq(A) /\ l \in Nat
  BY SeqIs DEF A
<1>7. /\ ws \in Seq(A) /\ Len(ws) = l + 1 /\ ws[l + 1] = v
      /\ \A k \in 1..l : ws[k] = vs[k]
  BY <1>4, <1>6
<1>8. ws # <<>> /\ Last(ws) = v
  BY <1>6, <1>7 DEF Last
<1>9. vs # <<>> => ws[1] = vs[1]
  <2>1. vs # <<>> => 1 \in 1..l
    BY <1>6, SeqIs
  <2> QED
    BY <1>7, <2>1
<1> HIDE DEF ws
<1>10. ASSUME NEW k \in 1..(l + 1)
       PROVE  ViewOk(e, n, ws[k])
  <2>1. CASE k = l + 1
    BY <1>5, <1>7, <2>1
  <2>2. CASE k # l + 1
    <3>1. k \in 1..l
      BY <1>6, <2>2
    <3> QED
      BY <1>7, <3>1 DEF ViewsOk
  <2> QED
    BY <2>1, <2>2
<1>11. ViewsOk(e, n, ws)
  BY <1>7, <1>10 DEF ViewsOk
<1> QED
  BY <1>2, <1>7, <1>8, <1>9, <1>11 DEF ws, v, A

\* What a view shows of a message that is in the array.
LEMMA ViewHolds ==
  ASSUME NEW e \in Encoders, NEW b \in Seq(Nat), e.pos = Len(b), Holds(e, 0, b),
         NEW m, NEW isWhole, NEW n
  PROVE  Memory(e, View(e, m, isWhole, n)).b = b
<1> DEFINE v == View(e, m, isWhole, n)
           c == Cells(e)
<1>1. /\ e.pos \in Nat /\ Room(e) \in Nat /\ Room(e) = Len(c) /\ c \in Seq(Bytes)
      /\ c = e.heap[Len(e.heap)].cells
  BY EncoderIs
<1>2. v.arr = Len(e.heap) /\ v.len = Min({e.pos, Room(e)})
  BY DEF View
<1>3. Memory(e, v).b = SubSeq(c, 1, Min({v.len, Len(c)}))
  BY <1>1, <1>2 DEF Memory
<1> HIDE DEF v, c
<1>4. Len(b) <= Room(e) /\ \A i \in 1..Len(b) : c[i] = b[i]
  <2>1. 0 + Len(b) <= Room(e) /\ \A i \in 1..Len(b) : c[0 + i] = b[i]
    BY DEF Holds, c
  <2>2. Len(b) \in Nat /\ \A i \in 1..Len(b) : 0 + i = i
    BY SeqIs
  <2> QED
    BY <2>1, <2>2
<1>0. Len(b) \in Nat
  BY SeqIs
<1>5. v.len = Len(b)
  <2>1. e.pos <= Room(e) => Min({e.pos, Room(e)}) = e.pos
    BY <1>1, MinOfTwo
  <2> QED
    BY <1>2, <1>4, <2>1
<1>6. Min({v.len, Len(c)}) = Len(b)
  <2>1. v.len \in Nat /\ Len(c) \in Nat /\ v.len <= Len(c)
    BY <1>0, <1>1, <1>4, <1>5
  <2> QED
    BY <1>5, <2>1, MinOfTwo
<1>7. SubSeq(c, 1, Len(b)) = b
  <2>1. Len(b) \in Nat /\ Len(b) <= Len(c)
    BY <1>1, <1>4
  <2>2. SubSeq(c, 1, Len(b)) = [i \in 1..Len(b) |-> c[i]]
    BY <1>1, <2>1
  <2>3. b = [i \in 1..Len(b) |-> b[i]]
    OBVIOUS
  <2> QED
    BY <1>4, <2>2, <2>3
<1> QED
  BY <1>3, <1>6, <1>7 DEF v

-----------------------------------------------------------------------------
(* The first state, and the steps.                                         *)

\* A step keeps the invariant, and does what the two action properties say.
KeepsBytes ==
  \A k \in DOMAIN views : views[k].epoch = resets' =>
    \/ Memory(enc', views[k]) = Memory(enc, views[k])
    \/ rt.transfer /\ Memory(enc', views[k]).detached

GivesTheMessage ==
  Len(views') > Len(views) /\ Faithful(Last(views')) =>
    Memory(enc', Last(views')).b = Expected(Last(views').asked)

LEMMA NewEncoderIs ==
  ASSUME NEW size \in Nat
  PROVE  LET e == NewEncoder(size)
         IN  e \in Encoders /\ e.ok /\ e.pos = 0 /\ Holds(e, 0, <<>>)
<1> DEFINE e == NewEncoder(size)
           a == NewArray(size)
           cells == [i \in 1..size |-> 0]
<1>1. a = [cells |-> cells, detached |-> FALSE]
  BY DEF NewArray
<1>2. 0 \in Bytes
  BY PowerIs DEF Bytes
<1>3. cells \in Seq(Bytes)
  <2>1. cells \in [1..size -> Bytes]
    BY <1>2
  <2> QED
    BY <2>1, ListIs
<1> HIDE DEF cells
<1>4. a \in Array /\ ~a.detached
  BY <1>1, <1>3 DEF Array
<1> HIDE DEF a
<1>5. <<a>> \in Seq(Array) /\ Len(<<a>>) = 1 /\ <<a>> # <<>> /\ <<a>>[1] = a
  BY <1>4
<1>6. <<a>> \in Heaps
  BY <1>4, <1>5 DEF Heaps
<1>7. e \in Encoders /\ e.ok /\ e.pos = 0
  BY <1>6 DEF NewEncoder, Encoders, a
<1> HIDE DEF e
<1>8. Room(e) \in Nat
  BY <1>7, EncoderIs
<1>9. Holds(e, 0, <<>>)
  BY <1>8 DEF Holds
<1> QED
  BY <1>7, <1>9 DEF e

LEMMA InitIs ==
  ASSUME Init
  PROVE  IInv
<1> DEFINE e == NewEncoder(InitialSize(rt.kind))
<1>1. rt \in Runtimes /\ InitialSize(rt.kind) \in Nat
  BY RuntimesAre DEF Init
<1>2. e \in Encoders /\ e.ok /\ e.pos = 0 /\ Holds(e, 0, <<>>) /\ enc = e
  BY <1>1, NewEncoderIs DEF Init
<1> HIDE DEF e
<1>3. EncoderOk(rt.kind, enc)
  BY <1>2, EncoderIs DEF EncoderOk
<1>4. MessageOk(rt.kind, enc, <<>>)
  <2>1. Len(<<>>) = 0
    OBVIOUS
  <2> QED
    BY <1>2, <2>1, MessageWireNone DEF MessageOk
<1>5. /\ asked = <<>> /\ whole = TRUE /\ views = <<>> /\ resets = 0 /\ writes = 0
      /\ reader = None /\ got = None
  BY DEF Init
<1>6. asked \in Seq(Items(rt.kind)) /\ views \in Seq(ViewSet(rt.kind))
  BY <1>5
<1>7. writes \in 0..MaxWrites
  BY <1>5, TsRuntimesAssumption
<1>8. ViewsOk(enc, resets, views)
  BY <1>5 DEF ViewsOk
<1> QED
  BY <1>1, <1>3, <1>4, <1>5, <1>6, <1>7, <1>8 DEF IInv, ReaderOk, GotOk

LEMMA TypeIs ==
  ASSUME IInv
  PROVE  TypeOK
<1>1. /\ enc \in Encoders /\ enc.ok /\ (Growing => enc.pos <= Room(enc))
      /\ rt \in Runtimes
  BY DEF IInv, EncoderOk, Growing
<1>2. enc.heap \in Heaps /\ enc.pos \in Nat
  BY <1>1, EncoderIs
<1>3. /\ DOMAIN enc.heap = 1..Len(enc.heap)
      /\ \A k \in 1..Len(enc.heap) :
           enc.heap[k].cells \in Seq(Bytes) /\ (enc.heap[k].detached => k < Len(enc.heap))
  BY <1>2, HeapIs, SeqIs
<1>4. \A k \in 1..Len(enc.heap) : Range(enc.heap[k].cells) \subseteq Bytes
  <2>1. \A c \in Seq(Bytes) : Range(c) \subseteq Bytes
    BY SeqIs DEF Range
  <2> QED
    BY <1>3, <2>1
<1>5. DOMAIN views = 1..Len(views) /\ Len(views) \in Nat /\ (views # <<>> => 1 \in 1..Len(views))
  BY SeqIs DEF IInv
<1>6. \A k \in 1..Len(views) : views[k].arr \in 1..Len(enc.heap) /\ views[k].epoch <= resets
  BY DEF IInv, ViewsOk, ViewOk
<1>7. reader # None => reader.by \in LazyKinds /\ reader.view = 1 /\ views # <<>>
  BY DEF IInv, ReaderOk
<1>8. got # None => views # <<>> /\ got.n \in 0..views[1].len
  BY DEF IInv, GotOk
<1>9. whole \in BOOLEAN /\ resets \in Nat /\ writes \in 0..MaxWrites
  BY DEF IInv
<1> QED
  BY <1>1, <1>2, <1>3, <1>4, <1>5, <1>6, <1>7, <1>8, <1>9 DEF TypeOK

\* Any call that writes.
LEMMA WroteIs ==
  ASSUME IInv, NEW r, NEW fits, NEW added \in Seq(Items(rt.kind)), NEW n \in Nat,
         Wrote(r, fits, added, n), Growing => r.pos <= Room(r),
         Writes(enc, r, MessageWire(rt.kind, added), AllCarried(rt.kind, added) /\ fits, rt.transfer)
  PROVE  IInv' /\ KeepsBytes /\ GivesTheMessage
<1> DEFINE y == [r EXCEPT !.ok = TRUE]
           t == rt.transfer
<1>1. /\ rt \in Runtimes /\ enc \in Encoders /\ enc.ok /\ asked \in Seq(Items(rt.kind))
      /\ whole \in BOOLEAN /\ resets \in Nat /\ writes \in 0..MaxWrites
      /\ views \in Seq(ViewSet(rt.kind)) /\ ViewsOk(enc, resets, views)
      /\ ReaderOk(reader, views) /\ GotOk(got, views)
      /\ rt.kind # "collections" /\ whole => MessageOk(rt.kind, enc, asked)
  BY DEF IInv, EncoderOk
<1>2. t \in BOOLEAN
  BY <1>1, RuntimesAre
<1>3. /\ enc' = y /\ asked' = IF r.ok THEN asked \o added ELSE asked
      /\ whole' = (whole /\ IF r.ok THEN fits ELSE r.pos = enc.pos)
      /\ writes' = writes + n /\ writes + n <= MaxWrites
      /\ rt' = rt /\ views' = views /\ resets' = resets /\ reader' = reader /\ got' = got
  BY DEF Wrote
<1>4. r \in Encoders /\ enc.pos <= r.pos /\ Kept(enc.heap, r.heap, enc.pos, t)
  BY DEF Writes
<1>5. /\ y \in Encoders /\ y.ok /\ y.pos = r.pos /\ y.heap = r.heap
      /\ Cells(y) = Cells(r) /\ Room(y) = Room(r)
  BY <1>4, OkIs
<1> HIDE DEF y, t
<1>6. EncoderOk(rt.kind, enc)'
  BY <1>3, <1>5 DEF EncoderOk, Growing
<1>7. /\ ViewsOk(y, resets, views)
      /\ \A k \in DOMAIN views : views[k].epoch = resets =>
           Memory(y, views[k]) = Memory(enc, views[k]) \/ (t /\ Memory(y, views[k]).detached)
  BY <1>1, <1>2, <1>4, <1>5, ViewsStay
<1>8. KeepsBytes
  BY <1>3, <1>7 DEF KeepsBytes, t
<1>9. GivesTheMessage
  BY <1>1, <1>3, SeqIs DEF GivesTheMessage
<1>10. asked' \in Seq(Items(rt.kind))
  BY <1>1, <1>3, CatIs
<1>11. whole' \in BOOLEAN /\ writes' \in 0..MaxWrites /\ resets' \in Nat
  BY <1>1, <1>3, TsRuntimesAssumption
<1>12. ASSUME rt.kind # "collections", whole'
       PROVE  MessageOk(rt.kind, y, asked')
  <2>1. MessageOk(rt.kind, enc, asked)
    BY <1>1, <1>3, <1>12
  <2>2. CASE r.ok
    <3>1. asked' = asked \o added /\ fits
      BY <1>3, <1>12, <2>2
    <3>2. MessageOk(rt.kind, r, asked \o added)
      BY <1>1, <1>4, <2>1, <2>2, <3>1, MessageLonger
    <3> QED
      BY <1>5, <3>1, <3>2, MessageSame
  <2>3. CASE ~r.ok
    <3>1. asked' = asked /\ r.pos = enc.pos
      BY <1>3, <1>12, <2>3
    <3>2. MessageOk(rt.kind, r, asked)
      BY <1>1, <1>4, <2>1, <3>1, MessageStays
    <3> QED
      BY <1>5, <3>1, <3>2, MessageSame
  <2> QED
    BY <2>2, <2>3
<1>13. IInv'
  BY <1>1, <1>3, <1>6, <1>7, <1>10, <1>11, <1>12 DEF IInv, t
<1> QED
  BY <1>8, <1>9, <1>13

LEMMA WriteIs ==
  ASSUME IInv, NEW i \in DOMAIN Fields(rt.kind), Write(Fields(rt.kind)[i])
  PROVE  IInv' /\ KeepsBytes /\ GivesTheMessage
<1> DEFINE f == Fields(rt.kind)[i]
           b == MessageWire(rt.kind, <<f>>)
           fits == TRUE
           carried == AllCarried(rt.kind, <<f>>)
           t == rt.transfer
<1>1. /\ rt \in Runtimes /\ enc \in Encoders /\ f \in FieldSet(rt.kind)
      /\ rt.kind \in {"index", "browser", "node", "hybrid"} => enc.pos <= Room(enc)
  BY DEF IInv, EncoderOk, FieldSet
<1>2. PICK r : /\ Wrote(r, fits, <<f>>, 1) /\ Grown(enc, r, b, t)
  <2>1. CASE rt.kind \in {"index", "browser", "node"}
    <3>1. Wrote(WriteField(enc, rt, f), fits, <<f>>, 1)
      BY <2>1 DEF Write
    <3>2. enc \in Ready
      BY <1>1, <2>1 DEF Ready
    <3>3. Grown(enc, WriteField(enc, rt, f), b, t)
      BY <1>1, <2>1, <3>2, FieldWrites
    <3> QED
      BY <3>1, <3>3
  <2>2. CASE rt.kind = "hybrid"
    <3>1. Wrote(HybridField(enc, rt, f), fits, <<f>>, 1)
      BY <2>2 DEF Write
    <3>2. enc \in Ready
      BY <1>1, <2>2 DEF Ready
    <3>3. Grown(enc, HybridField(enc, rt, f), b, t)
      BY <1>1, <2>2, <3>2, FieldWrites
    <3> QED
      BY <3>1, <3>3
  <2> QED
    BY <2>1, <2>2 DEF Write
<1>3. f \in Items(rt.kind) /\ <<f>> \in Seq(Items(rt.kind))
  <2>1. rt.kind # "batch"
    BY DEF Write
  <2> QED
    BY <1>1, <2>1 DEF Items
<1> HIDE DEF b, fits, carried, t
<1>4. r.pos <= Room(r) /\ Writes(enc, r, b, carried /\ fits, t)
  BY <1>2 DEF Grown, Writes
<1> HIDE DEF f
<1>5. 1 \in Nat
  OBVIOUS
<1> QED
  BY <1>2, <1>3, <1>4, <1>5, WroteIs DEF b, carried, t

LEMMA WriteTaggedIs ==
  ASSUME IInv, NEW i \in DOMAIN Fields(rt.kind), NEW reserve \in BOOLEAN,
         WriteTagged(Fields(rt.kind)[i], reserve)
  PROVE  IInv' /\ KeepsBytes /\ GivesTheMessage
<1> DEFINE f == Fields(rt.kind)[i]
           b == MessageWire(rt.kind, <<f>>)
           needed == Len(Tagged(rt.kind, f))
           e == IF reserve THEN EnsureCapacity(enc, FALSE, needed) ELSE enc
           r == IF rt.kind = "hyper" THEN HyperField(e, f) ELSE UnsafeField(e, f)
           carried == AllCarried(rt.kind, <<f>>)
           fits == enc.pos + Len(Varint[f.n * TagRadix + WireType(f.t)]) <= Room(e)
                     /\ enc.pos + needed <= Room(r)
           t == rt.transfer
<1>1. /\ rt \in Runtimes /\ enc \in Encoders /\ enc.ok /\ f \in FieldSet(rt.kind)
      /\ t \in BOOLEAN
  BY RuntimesAre DEF IInv, EncoderOk, FieldSet
<1>2. rt.kind \in {"hyper", "unsafe"} /\ Wrote(r, fits, <<f>>, 1)
  BY DEF WriteTagged
<1>3. f \in Items(rt.kind) /\ <<f>> \in Seq(Items(rt.kind))
  <2>1. Items(rt.kind) = FieldSet(rt.kind)
    BY <1>2 DEF Items
  <2> HIDE DEF f
  <2> QED
    BY <1>1, <2>1
<1>4. b \in Seq(Nat) /\ b = Tagged(rt.kind, f) /\ needed = Len(b) /\ needed \in Nat
  <2>1. b \in Seq(Nat)
    BY <1>1, <1>3, WiresAre
  <2>2. b = Tagged(rt.kind, f)
    BY <1>1, <1>2, TaggedWrites
  <2>3. Len(b) \in Nat
    BY <2>1, SeqIs
  <2> QED
    BY <2>1, <2>2, <2>3
<1>5. /\ e \in Encoders /\ e.pos = enc.pos /\ Kept(enc.heap, e.heap, enc.pos, FALSE)
  <2>1. CASE reserve
    BY <1>1, <1>4, <2>1, EnsureCapacityIs
  <2>2. CASE ~reserve
    <3>1. Kept(enc.heap, enc.heap, enc.pos, FALSE)
      BY <1>1, KeptSame, EncoderIs
    <3> QED
      BY <1>1, <2>2, <3>1
  <2> QED
    BY <2>1, <2>2
<1> HIDE DEF e
<1>6. Writes(e, r, b, carried /\ TaggedFits(e, r, f, b), FALSE)
  BY <1>1, <1>2, <1>5, TaggedWrites
<1>7. fits <=> TaggedFits(e, r, f, b)
  BY <1>4, <1>5 DEF TaggedFits, TagOf
<1> HIDE DEF r, fits, b, carried
<1>8. Writes(e, r, b, carried /\ fits, FALSE)
  BY <1>6, <1>7 DEF Writes
<1>9. Writes(e, r, b, carried /\ fits, t) /\ Kept(enc.heap, e.heap, enc.pos, t)
  BY <1>5, <1>8, KeptAlso DEF Writes
<1> HIDE DEF t
<1>10. Writes(enc, r, b, carried /\ fits, t)
  <2> DEFINE both == carried /\ fits
  <2>1. Writes(e, r, b, both, t)
    BY <1>9
  <2> HIDE DEF both
  <2>2. Writes(enc, r, b, both, t)
    BY <1>1, <1>5, <1>9, <2>1, WritesFrom
  <2> QED
    BY <2>2 DEF both
<1>11. ~Growing
  BY <1>2 DEF Growing
<1> HIDE DEF f
<1>12. 1 \in Nat
  OBVIOUS
<1> QED
  BY <1>2, <1>3, <1>10, <1>11, <1>12, WroteIs DEF b, carried, t

LEMMA WriteItemIs ==
  ASSUME IInv, NEW i \in DOMAIN Fields(rt.kind), NEW j \in 0..Len(Fields(rt.kind)),
         WriteItem(Object(i, j))
  PROVE  IInv' /\ KeepsBytes /\ GivesTheMessage
<1> DEFINE fields == Object(i, j)
           r == BatchItem(enc, fields)
           b == MessageWire(rt.kind, <<fields>>)
           fits == Fits(<<fields>>)
           carried == AllCarried(rt.kind, <<fields>>)
           n == Len(fields)
<1>1. /\ rt \in Runtimes /\ enc \in Encoders /\ rt.kind = "batch"
      /\ fields \in Seq(FieldSet(rt.kind)) /\ n \in Nat
  BY ObjectIs DEF IInv, EncoderOk, WriteItem
<1>2. Wrote(r, fits, <<fields>>, n)
  BY DEF WriteItem
<1>3. fields \in Items(rt.kind) /\ <<fields>> \in Seq(Items(rt.kind))
  BY <1>1 DEF Items
<1>4. fits <=> enc.pos + Len(b) <= Room(enc)
  BY ExpectedIs DEF Fits
<1>5. Slab(enc, r, b, carried)
  BY <1>1, ItemWrites
<1> HIDE DEF r, fits, b, carried
<1>6. Writes(enc, r, b, carried /\ enc.pos + Len(b) <= Room(enc), rt.transfer)
  BY <1>1, <1>5, WritesOfSlab
<1>7. Writes(enc, r, b, carried /\ fits, rt.transfer)
  BY <1>4, <1>6
<1>8. ~Growing
  BY <1>1 DEF Growing
<1> HIDE DEF fields, n
<1> QED
  BY <1>1, <1>2, <1>3, <1>7, <1>8, WroteIs DEF b, carried

LEMMA WriteObjectIs ==
  ASSUME IInv, NEW i \in DOMAIN Fields(rt.kind), NEW j \in 0..Len(Fields(rt.kind)),
         WriteObject(Object(i, j))
  PROVE  IInv' /\ KeepsBytes /\ GivesTheMessage
<1> DEFINE fields == Object(i, j)
           r == JitEncode(enc, rt, fields)
           b == MessageWire(rt.kind, fields)
           fits == Fits(fields)
           carried == AllCarried(rt.kind, fields)
           n == Len(fields)
<1>1. /\ rt \in Runtimes /\ enc \in Encoders /\ rt.kind \in {"jit", "browser_jit"}
      /\ fields \in Seq(FieldSet(rt.kind)) /\ n \in Nat
  BY ObjectIs DEF IInv, EncoderOk, WriteObject
<1>2. Wrote(r, fits, fields, n)
  BY DEF WriteObject
<1>3. fields \in Seq(Items(rt.kind))
  BY <1>1 DEF Items
<1>4. fits <=> enc.pos + Len(b) <= Room(enc)
  BY ExpectedIs DEF Fits
<1>5. Slab(enc, r, b, carried)
  BY <1>1, ObjectWrites
<1> HIDE DEF r, fits, b, carried
<1>6. Writes(enc, r, b, carried /\ enc.pos + Len(b) <= Room(enc), rt.transfer)
  BY <1>1, <1>5, WritesOfSlab
<1>7. Writes(enc, r, b, carried /\ fits, rt.transfer)
  BY <1>4, <1>6
<1>8. ~Growing
  BY <1>1 DEF Growing
<1> HIDE DEF fields, n
<1> QED
  BY <1>1, <1>2, <1>3, <1>7, <1>8, WroteIs DEF b, carried

\* A step that leaves the encoder, what was asked for and the views as they are.
Reads == UNCHANGED <<rt, enc, asked, whole, views, resets, writes>>

LEMMA ReadsIs ==
  ASSUME IInv, Reads, ReaderOk(reader', views), GotOk(got', views)
  PROVE  IInv' /\ KeepsBytes /\ GivesTheMessage
<1>1. /\ rt' = rt /\ enc' = enc /\ asked' = asked /\ whole' = whole /\ views' = views
      /\ resets' = resets /\ writes' = writes
  BY DEF Reads
<1>2. IInv'
  BY <1>1 DEF IInv
<1>3. KeepsBytes
  BY <1>1 DEF KeepsBytes
<1>4. GivesTheMessage
  <2>1. Len(views) \in Nat
    BY SeqIs DEF IInv
  <2> QED
    BY <1>1, <2>1 DEF GivesTheMessage
<1> QED
  BY <1>2, <1>3, <1>4

LEMMA FinishIs ==
  ASSUME IInv, Finish
  PROVE  IInv' /\ KeepsBytes /\ GivesTheMessage
<1> DEFINE v == View(enc, asked, whole, resets)
           b == MessageWire(rt.kind, asked)
<1>1. /\ rt' = rt /\ enc' = enc /\ asked' = asked /\ whole' = whole /\ resets' = resets
      /\ writes' = writes /\ reader' = reader /\ got' = got /\ got = None
      /\ views' = Append(views, v) /\ rt.kind # "collections"
  BY DEF Finish
<1>2. /\ rt \in Runtimes /\ enc \in Encoders /\ asked \in Seq(Items(rt.kind))
      /\ whole \in BOOLEAN /\ resets \in Nat
      /\ views \in Seq(ViewSet(rt.kind)) /\ ViewsOk(enc, resets, views)
      /\ ReaderOk(reader, views)
      /\ whole => MessageOk(rt.kind, enc, asked)
  BY <1>1 DEF IInv, EncoderOk
<1>3. /\ views' \in Seq(ViewSet(rt.kind)) /\ ViewsOk(enc, resets, views')
      /\ views' # <<>> /\ Last(views') = v /\ v.asked = asked /\ v.whole = whole
  BY <1>1, <1>2, ViewsGrow
<1> HIDE DEF v
<1>4. ReaderOk(reader, views') /\ GotOk(got, views')
  BY <1>1, <1>2, <1>3 DEF ReaderOk, GotOk
<1>5. IInv'
  BY <1>1, <1>3, <1>4 DEF IInv
<1>6. KeepsBytes
  BY <1>1 DEF KeepsBytes
<1>7. ASSUME Faithful(v)
      PROVE  Memory(enc, v).b = Expected(asked)
  <2>1. whole /\ AllCarried(rt.kind, asked)
    BY <1>3, <1>7, FaithfulIs
  <2>2. enc.pos = Len(b) /\ Holds(enc, 0, b) /\ b \in Seq(Nat)
    BY <1>2, <2>1, WiresAre DEF MessageOk
  <2>3. Expected(asked) = b
    BY ExpectedIs
  <2> HIDE DEF b
  <2> QED
    BY <1>2, <2>2, <2>3, ViewHolds DEF v
<1>8. GivesTheMessage
  BY <1>1, <1>3, <1>7 DEF GivesTheMessage
<1> QED
  BY <1>5, <1>6, <1>8

LEMMA ResetIs ==
  ASSUME IInv, Reset
  PROVE  IInv' /\ KeepsBytes /\ GivesTheMessage
<1> DEFINE y == [enc EXCEPT !.pos = 0]
<1>1. /\ rt' = rt /\ enc' = y /\ asked' = <<>> /\ whole' = TRUE /\ resets' = resets + 1
      /\ writes' = writes /\ reader' = reader /\ got' = got /\ views' = views
  BY DEF Reset
<1>2. /\ enc \in Encoders /\ enc.ok /\ resets \in Nat
      /\ views \in Seq(ViewSet(rt.kind)) /\ ViewsOk(enc, resets, views)
  BY DEF IInv, EncoderOk
<1>3. /\ y \in Encoders /\ y.ok /\ y.pos = 0 /\ y.heap = enc.heap /\ Room(y) \in Nat
      /\ Len(enc.heap) <= Len(y.heap)
  <2>1. y \in Encoders /\ y.ok = enc.ok /\ y.pos = 0 /\ y.heap = enc.heap
    BY <1>2, AtIs
  <2> HIDE DEF y
  <2>2. Room(y) \in Nat /\ Len(y.heap) \in Nat
    BY <2>1, EncoderIs
  <2> QED
    BY <1>2, <2>1, <2>2
<1> HIDE DEF y
<1>4. ViewsOk(y, resets + 1, views) /\ \A k \in DOMAIN views : views[k].epoch # resets + 1
  BY <1>2, <1>3, ViewsAreOld
<1>5. EncoderOk(rt.kind, y)
  BY <1>3 DEF EncoderOk
<1>6. MessageOk(rt.kind, y, <<>>)
  <2>1. Len(<<>>) = 0
    OBVIOUS
  <2>2. Holds(y, 0, <<>>)
    BY <1>3, <2>1 DEF Holds
  <2> QED
    BY <1>3, <2>1, <2>2, MessageWireNone DEF MessageOk
<1>7. asked' \in Seq(Items(rt.kind)) /\ resets' \in Nat /\ whole' \in BOOLEAN
  BY <1>1, <1>2
<1>8. IInv'
  BY <1>1, <1>4, <1>5, <1>6, <1>7 DEF IInv
<1>9. KeepsBytes
  BY <1>1, <1>4 DEF KeepsBytes
<1>10. GivesTheMessage
  <2>1. Len(views) \in Nat
    BY <1>2, SeqIs
  <2> QED
    BY <1>1, <2>1 DEF GivesTheMessage
<1> QED
  BY <1>8, <1>9, <1>10

LEMMA WriteCollectionIs ==
  ASSUME IInv, NEW i \in DOMAIN Fields(rt.kind), WriteCollection(Fields(rt.kind)[i])
  PROVE  IInv' /\ KeepsBytes /\ GivesTheMessage
<1> DEFINE f == Fields(rt.kind)[i]
           zero == [enc EXCEPT !.pos = 0]
           r == CollectionEncode(enc, f)
           b == OnWire(f)
           fits == Len(b) <= Room(r)
           y == [r EXCEPT !.ok = TRUE]
           n == resets + 1
           v == View(r, <<f>>, fits, n)
           carried == \A s \in Texts(f) : Short(s) /\ IsAscii(s)
<1>1. /\ rt.kind = "collections" /\ got = None /\ writes < MaxWrites
      /\ enc' = y /\ asked' = <<f>> /\ whole' = fits /\ resets' = n /\ writes' = writes + 1
      /\ views' = (IF r.ok THEN Append(views, v) ELSE views)
      /\ rt' = rt /\ reader' = reader /\ got' = got
  BY DEF WriteCollection
<1>2. /\ rt \in Runtimes /\ enc \in Encoders /\ resets \in Nat /\ writes \in 0..MaxWrites
      /\ views \in Seq(ViewSet(rt.kind)) /\ ViewsOk(enc, resets, views)
      /\ ReaderOk(reader, views)
  BY DEF IInv, EncoderOk
<1>3. f \in FieldSet(rt.kind) /\ f \in Items(rt.kind) /\ IsField("collections", f)
  <2>1. f \in FieldSet(rt.kind)
    BY DEF FieldSet
  <2> QED
    BY <1>1, <1>2, <2>1, FieldSetIs DEF Items
<1>4. b \in Seq(Nat) /\ Expected(<<f>>) = b
  <2>1. ItemWire(rt.kind, f) = b
    BY <1>1 DEF ItemWire
  <2>2. MessageWire(rt.kind, <<f>>) = b
    BY <1>2, <1>3, <2>1, MessageWireOne
  <2> QED
    BY <1>2, <1>3, <2>1, <2>2, ItemWireIs, ExpectedIs
<1>5. Slab(zero, r, b, carried) /\ zero \in Encoders /\ zero.pos = 0 /\ zero.heap = enc.heap
  BY <1>2, <1>3, AtIs, CollectionEncodeIs
<1> HIDE DEF r, zero, b, carried
<1>6. /\ r \in Encoders /\ Room(r) = Room(zero) /\ Len(r.heap) = Len(enc.heap)
      /\ carried /\ 0 + Len(b) <= Room(zero) /\ r.ok => r.pos = 0 + Len(b) /\ Holds(r, 0, b)
  BY <1>5, SlabIs
<1>7. y \in Encoders /\ y.ok /\ y.pos = r.pos /\ y.heap = r.heap /\ Room(y) = Room(r)
  BY <1>6, OkIs
<1>8. ViewsOk(r, n, views) /\ \A k \in DOMAIN views : views[k].epoch # n
  <2>1. Len(enc.heap) <= Len(r.heap)
    BY <1>2, <1>6, EncoderIs
  <2> QED
    BY <1>2, <1>6, <2>1, ViewsAreOld
<1>9. <<f>> \in Seq(Items(rt.kind)) /\ fits \in BOOLEAN /\ n \in Nat
  BY <1>2, <1>3
<1>10. r.ok => /\ views' \in Seq(ViewSet(rt.kind)) /\ ViewsOk(r, n, views')
               /\ views' # <<>> /\ Last(views') = v /\ v.asked = <<f>> /\ v.whole = fits
  <2> DEFINE ws == Append(views, v)
             kind == rt.kind
             m == <<f>>
  <2> HIDE DEF m, fits, n, kind
  <2>1. /\ ws \in Seq(ViewSet(rt.kind)) /\ ViewsOk(r, n, ws)
        /\ ws # <<>> /\ Last(ws) = v /\ v.asked = <<f>> /\ v.whole = fits
    <3>1. m \in Seq(Items(kind)) /\ views \in Seq(ViewSet(kind)) /\ fits \in BOOLEAN /\ n \in Nat
      BY <1>2, <1>9 DEF m, kind
    <3>2. ViewsOk(r, n, views) /\ r \in Encoders
      BY <1>6, <1>8
    <3>3. LET w == View(r, m, fits, n)
              us == Append(views, w)
          IN  /\ us \in Seq(ViewSet(kind)) /\ ViewsOk(r, n, us) /\ us # <<>> /\ Last(us) = w
              /\ w.asked = m /\ w.whole = fits
      BY <3>1, <3>2, ViewsGrow
    <3> QED
      BY <3>3 DEF m, kind
  <2>2. r.ok => views' = ws
    BY <1>1
  <2> HIDE DEF ws, v
  <2> QED
    BY <2>1, <2>2
<1>11. ~r.ok => views' = views
  BY <1>1
<1> HIDE DEF y, v, n
<1>12. views' \in Seq(ViewSet(rt.kind)) /\ ViewsOk(y, n, views')
  <2>1. views' \in Seq(ViewSet(rt.kind)) /\ ViewsOk(r, n, views')
    BY <1>2, <1>8, <1>10, <1>11
  <2> QED
    BY <1>7, <2>1 DEF ViewsOk, ViewOk
<1>13. ReaderOk(reader, views') /\ GotOk(got, views')
  BY <1>1, <1>2, <1>10, <1>11 DEF ReaderOk, GotOk
<1>14. EncoderOk(rt.kind, y)
  BY <1>1, <1>7 DEF EncoderOk
<1>15. writes' \in 0..MaxWrites
  BY <1>1, <1>2, TsRuntimesAssumption
<1>16. IInv'
  <2> HIDE DEF f, fits
  <2> QED
    BY <1>1, <1>2, <1>9, <1>12, <1>13, <1>14, <1>15 DEF IInv
<1>17. KeepsBytes
  BY <1>1, <1>8 DEF KeepsBytes
<1>18. ASSUME r.ok, Faithful(v)
       PROVE  Memory(y, v).b = Expected(<<f>>)
  <2>1. fits /\ AllCarried(rt.kind, <<f>>)
    <3> HIDE DEF f, fits
    <3> QED
      BY <1>10, <1>18, FaithfulIs
  <2>2. CarriedBy(rt.kind, f)
    BY <1>1, <1>3, <2>1, AllCarriedOne
  <2>3. carried
    BY <1>1, <2>2 DEF CarriedBy, carried
  <2>4. Len(b) \in Nat /\ Room(r) \in Nat
    BY <1>4, <1>6, SeqIs, EncoderIs
  <2>5. r.pos = Len(b) /\ Holds(r, 0, b)
    BY <1>6, <1>18, <2>1, <2>3, <2>4
  <2>6. Memory(r, v).b = b
    <3> HIDE DEF f, fits
    <3> QED
      BY <1>4, <1>6, <2>5, ViewHolds DEF v
  <2>7. Memory(y, v) = Memory(r, v)
    BY <1>7 DEF Memory
  <2> QED
    BY <1>4, <2>6, <2>7
<1>19. GivesTheMessage
  <2>1. ~r.ok => ~(Len(views') > Len(views))
    BY <1>2, <1>11, SeqIs
  <2> HIDE DEF f, fits
  <2> QED
    BY <1>1, <1>10, <1>18, <2>1 DEF GivesTheMessage
<1> QED
  BY <1>16, <1>17, <1>19

LEMMA OpenIs ==
  ASSUME IInv, NEW by \in LazyKinds, Open(by)
  PROVE  IInv' /\ KeepsBytes /\ GivesTheMessage
<1> DEFINE o == Offsets(by, views[1].asked, Memory(enc, views[1]).b)
           cache == [i \in DOMAIN o.v |-> <<>>]
<1>1. Reads /\ got' = got /\ got = None
  BY DEF Open, Reads
<1>2. reader' = [by |-> by, view |-> 1, offsets |-> o.v, cache |-> cache] /\ Len(views) = 1
  BY DEF Open
<1> HIDE DEF o, cache
<1>3. views # <<>>
  BY <1>2
<1>4. ReaderOk(reader', views)
  BY <1>2, <1>3 DEF ReaderOk
<1>5. GotOk(got', views)
  BY <1>1 DEF GotOk
<1> QED
  BY <1>1, <1>4, <1>5, ReadsIs

LEMMA TouchIs ==
  ASSUME IInv, NEW i, Touch(i)
  PROVE  IInv' /\ KeepsBytes /\ GivesTheMessage
<1> DEFINE m == Memory(enc, views[reader.view])
           p == reader.offsets[i]
           text == <<AccessorText(m, p), resets>>
<1>1. Reads /\ got' = got /\ got = None
  BY DEF Touch, Reads
<1>2. reader # None /\ reader' = [reader EXCEPT !.cache[i] = text]
  BY DEF Touch
<1> HIDE DEF text
<1>3. /\ reader.by \in LazyKinds /\ views # <<>>
      /\ reader = [by |-> reader.by, view |-> 1, offsets |-> reader.offsets, cache |-> reader.cache]
  BY <1>2 DEF IInv, ReaderOk
<1>4. reader' = [by |-> reader.by, view |-> 1, offsets |-> reader.offsets,
                 cache |-> [reader.cache EXCEPT ![i] = text]]
  BY <1>2, <1>3
<1>5. ReaderOk(reader', views)
  BY <1>3, <1>4 DEF ReaderOk
<1>6. GotOk(got', views)
  BY <1>1 DEF GotOk
<1> QED
  BY <1>1, <1>5, <1>6, ReadsIs

LEMMA DeliverIs ==
  ASSUME IInv, NEW d, NEW n, NEW numbers, Deliver(d, n, numbers)
  PROVE  IInv' /\ KeepsBytes /\ GivesTheMessage
<1>1. Reads /\ reader' = reader
  BY DEF Deliver, Reads
<1>2. got'.n = n /\ n \in 0..views[1].len /\ Len(views) = 1
  BY DEF Deliver
<1>3. views # <<>>
  BY <1>2
<1>4. GotOk(got', views)
  BY <1>2, <1>3 DEF GotOk
<1>5. ReaderOk(reader', views)
  BY <1>1 DEF IInv
<1> QED
  BY <1>1, <1>4, <1>5, ReadsIs

LEMMA StutterIs ==
  ASSUME IInv, UNCHANGED vars
  PROVE  IInv' /\ KeepsBytes /\ GivesTheMessage
<1>1. Reads /\ reader' = reader /\ got' = got
  BY DEF vars, Reads
<1>2. ReaderOk(reader', views) /\ GotOk(got', views)
  BY <1>1 DEF IInv
<1> QED
  BY <1>1, <1>2, ReadsIs

LEMMA StepIs ==
  ASSUME IInv, [Next]_vars
  PROVE  IInv' /\ KeepsBytes /\ GivesTheMessage
<1> DEFINE Goal == IInv' /\ KeepsBytes /\ GivesTheMessage
<1> SUFFICES Goal
  OBVIOUS
<1>1. CASE \E i \in DOMAIN Fields(rt.kind) :
             LET f == Fields(rt.kind)[i]
             IN  Write(f) \/ WriteCollection(f) \/ \E reserve \in BOOLEAN : WriteTagged(f, reserve)
  <2>1. PICK i \in DOMAIN Fields(rt.kind) :
          \/ Write(Fields(rt.kind)[i])
          \/ WriteCollection(Fields(rt.kind)[i])
          \/ \E reserve \in BOOLEAN : WriteTagged(Fields(rt.kind)[i], reserve)
    BY <1>1
  <2>2. CASE Write(Fields(rt.kind)[i])
    BY <2>2, WriteIs
  <2>3. CASE WriteCollection(Fields(rt.kind)[i])
    BY <2>3, WriteCollectionIs
  <2>4. CASE \E reserve \in BOOLEAN : WriteTagged(Fields(rt.kind)[i], reserve)
    BY <2>4, WriteTaggedIs
  <2> QED
    BY <2>1, <2>2, <2>3, <2>4
<1>2. CASE \E i \in DOMAIN Fields(rt.kind), j \in 0..Len(Fields(rt.kind)) :
             WriteItem(Object(i, j)) \/ WriteObject(Object(i, j))
  <2>1. PICK i \in DOMAIN Fields(rt.kind), j \in 0..Len(Fields(rt.kind)) :
          WriteItem(Object(i, j)) \/ WriteObject(Object(i, j))
    BY <1>2
  <2>2. CASE WriteItem(Object(i, j))
    BY <2>2, WriteItemIs
  <2>3. CASE WriteObject(Object(i, j))
    BY <2>3, WriteObjectIs
  <2> QED
    BY <2>1, <2>2, <2>3
<1>3. CASE Finish
  BY <1>3, FinishIs
<1>4. CASE Reset
  BY <1>4, ResetIs
<1>5. CASE \E by \in LazyKinds : Open(by)
  BY <1>5, OpenIs
<1>6. CASE \E i \in DOMAIN asked : Touch(i)
  BY <1>6, TouchIs
<1>7. CASE views # <<>> /\ \E d \in Readers, n \in 0..views[1].len, numbers \in NumberSets :
                             Deliver(d, n, numbers)
  <2>1. PICK d \in Readers, n \in 0..views[1].len, numbers \in NumberSets : Deliver(d, n, numbers)
    BY <1>7
  <2> QED
    BY <2>1, DeliverIs
<1>8. CASE UNCHANGED vars
  BY <1>8, StutterIs
<1> HIDE DEF Goal
<1> QED
  BY <1>1, <1>2, <1>3, <1>4, <1>5, <1>6, <1>7, <1>8 DEF Next

-----------------------------------------------------------------------------
LEMMA InvHolds == Spec => []IInv
<1>1. Init => IInv
  BY InitIs
<1>2. IInv /\ [Next]_vars => IInv'
  BY StepIs
<1> QED
  BY <1>1, <1>2, PTL DEF Spec

\* Whatever a program writes with a runtime of src/runtime/ts/src, the arrays hold
\* bytes, only an array that was outgrown is detached, and an encoder that grows
\* its array never stands past the end of it.
THEOREM TypeOKHolds == Spec => []TypeOK
<1>1. IInv => TypeOK
  BY TypeIs
<1> QED
  BY <1>1, InvHolds, PTL

\* No later write changes the bytes of a view that finish() gave, of any length,
\* in any runtime: until the next reset it keeps them, or transfer() detached it
\* (ensureCapacity of index.ts:97).
THEOREM ViewsKeepTheirBytesHolds == Spec => ViewsKeepTheirBytes
<1>1. IInv /\ [Next]_vars =>
        [\A k \in DOMAIN views : views[k].epoch = resets' =>
           Memory(enc', views[k]) = Memory(enc, views[k]) \/ (rt.transfer /\ Memory(enc', views[k]).detached)]_vars
  BY StepIs DEF KeepsBytes
<1> QED
  BY <1>1, InvHolds, PTL DEF Spec, ViewsKeepTheirBytes

\* Of any fields (in bytes of three bits, see TsText), any number of them, with
\* throws, growth and resets in between, finish() and the calls of collections.ts
\* give exactly the bytes of the format (docs/WIRE_FORMAT.md, and the tags of
\* hyper.ts and unsafe.ts), unless a write failed halfway or a field is one that
\* the runtime is known not to carry.
THEOREM FinishIsTheMessageHolds == Spec => FinishIsTheMessage
<1>1. IInv /\ [Next]_vars =>
        [Len(views') > Len(views) /\ Faithful(Last(views')) =>
           Memory(enc', Last(views')).b = Expected(Last(views').asked)]_vars
  BY StepIs DEF GivesTheMessage
<1> QED
  BY <1>1, InvHolds, PTL DEF Spec, FinishIsTheMessage

-----------------------------------------------------------------------------
(* Decoders that check for the end, and messages that lost theirs.         *)

\* b has w after its first p bytes, as far as b goes.
Shows(b, p, w) == \A i \in 1..Len(w) : p + i <= Len(b) => b[p + i] = w[i]

\* A read that succeeds ends at q, within n bytes.
EndsAt(r, q, n) == r.ok => r.p = q /\ q <= n

LEMMA ShowsParts ==
  ASSUME NEW b \in Seq(Nat), NEW p \in Nat, NEW u \in Seq(Nat), NEW v \in Seq(Nat),
         Shows(b, p, u \o v)
  PROVE  Shows(b, p, u) /\ Shows(b, p + Len(u), v)
<1> DEFINE w == u \o v
           m == Len(u)
           n == Len(v)
<1>1. /\ Len(w) = m + n /\ m \in Nat /\ n \in Nat
      /\ \A i \in 1..m : w[i] = u[i]
      /\ \A i \in 1..n : w[m + i] = v[i]
  BY CatIs
<1>2. \A i \in 1..Len(w) : p + i <= Len(b) => b[p + i] = w[i]
  BY DEF Shows
<1> HIDE DEF w, m, n
<1>3. ASSUME NEW i \in 1..m, p + i <= Len(b)
      PROVE  b[p + i] = u[i]
  <2>1. i \in 1..Len(w)
    BY <1>1
  <2> QED
    BY <1>1, <1>2, <1>3, <2>1
<1>4. ASSUME NEW i \in 1..n, (p + m) + i <= Len(b)
      PROVE  b[(p + m) + i] = v[i]
  <2>1. m + i \in 1..Len(w) /\ (p + m) + i = p + (m + i)
    BY <1>1
  <2> QED
    BY <1>1, <1>2, <1>4, <2>1
<1> QED
  BY <1>3, <1>4 DEF Shows, m, n

\* What b shows of sequences one after another, it shows of each at its place.
LEMMA ShowsEach ==
  ASSUME NEW b \in Seq(Nat), NEW p \in Nat, NEW ss \in Seq(Seq(Nat)), NEW j, Joins(j, ss),
         Shows(b, p, j[Len(ss)])
  PROVE  \A i \in 1..Len(ss) : Shows(b, p + Len(j[i - 1]), ss[i])
<1> DEFINE n == Len(ss)
<1>1. n \in Nat /\ (\A i \in 1..n : ss[i] \in Seq(Nat)) /\ \A i \in 0..n : j[i] \in Seq(Nat)
  BY SeqIs, JoinsGivesFlatten
<1>2. \A i \in 1..n : j[i] = j[i - 1] \o ss[i]
  BY DEF Joins
<1>3. Shows(b, p, j[n])
  OBVIOUS
<1> HIDE DEF n
<1>4. ASSUME NEW i \in 1..n, Shows(b, p, j[i])
      PROVE  Shows(b, p, j[i - 1]) /\ Shows(b, p + Len(j[i - 1]), ss[i])
  <2>1. i - 1 \in 0..n
    BY <1>1
  <2>2. j[i - 1] \in Seq(Nat) /\ ss[i] \in Seq(Nat)
    BY <1>1, <2>1
  <2>3. Shows(b, p, j[i - 1] \o ss[i])
    BY <1>2, <1>4
  <2> QED
    BY <2>2, <2>3, ShowsParts
<1> DEFINE S == {k \in 0..n : Shows(b, p, j[n - k])}
<1>5. ASSUME NEW i \in 1..n
      PROVE  Shows(b, p, j[i])
  <2> DEFINE k == n - i
  <2>1. k \in Nat /\ n - k = i
    BY <1>1
  <2>2. 0 \in S
    BY <1>1, <1>3
  <2>3. ASSUME NEW l \in 1..k, l - 1 \in S
        PROVE  l \in S
    <3>1. n - (l - 1) \in 1..n /\ (n - (l - 1)) - 1 = n - l /\ l \in 0..n
      BY <1>1
    <3>2. Shows(b, p, j[n - (l - 1)])
      BY <2>3
    <3>3. Shows(b, p, j[(n - (l - 1)) - 1])
      BY <1>4, <3>1, <3>2
    <3> QED
      BY <3>1, <3>3
  <2> HIDE DEF k, S
  <2>4. k \in S
    BY <2>1, <2>2, <2>3, Reaches
  <2> QED
    BY <2>1, <2>4 DEF S
<1> QED
  BY <1>4, <1>5 DEF n

\* One more value is read after those that were.
Taken(acc, r) ==
  IF acc.ok THEN (IF r.ok THEN Got(Append(acc.v, r.v), r.p) ELSE Failed) ELSE Failed

\* f reads n values from p on, the i-th of them as r[<<i, q>>] has it at q.
ReadsAll(f, n, p, r) ==
  /\ f = [s \in SUBSET (1..n) |-> f[s]] /\ f[{}] = Got(<<>>, p)
  /\ \A s \in SUBSET (1..n) : s # {} =>
       /\ Max(s) \in 1..n
       /\ f[s \ {Max(s)}].ok => f[s \ {Max(s)}].p \in Nat
       /\ f[s] = Taken(f[s \ {Max(s)}], r[<<Max(s), f[s \ {Max(s)}].p>>])

LEMMA ReadsExist ==
  ASSUME NEW n \in Nat, NEW p \in Nat, NEW r,
         \A i \in 1..n, q \in Nat : r[<<i, q>>].ok => r[<<i, q>>].p \in Nat
  PROVE  \E f : ReadsAll(f, n, p, r)
<1> DEFINE D == {r[x].v : x \in (1..n) \X Nat}
           V == {Failed} \cup {Got(vs, q) : vs \in Seq(D), q \in Nat}
           g == [x \in (1..n) \X V |-> Taken(x[2], r[<<x[1], x[2].p>>])]
<1>1. \A i \in 1..n, q \in Nat : r[<<i, q>>].v \in D
  OBVIOUS
<1> HIDE DEF D
<1>2. /\ Failed \in V /\ \A vs \in Seq(D), q \in Nat : Got(vs, q) \in V
      /\ \A x \in V : x = Failed \/ \E vs \in Seq(D), q \in Nat : x = Got(vs, q)
  <2> HIDE DEF Got, Failed
  <2> QED
    OBVIOUS
<1> HIDE DEF V
<1>3. /\ Got(<<>>, p) \in V
      /\ \A x \in V : x.ok => x.v \in Seq(D) /\ x.p \in Nat
  <2>1. <<>> \in Seq(D)
    OBVIOUS
  <2>2. ASSUME NEW x \in V, x.ok
        PROVE  x.v \in Seq(D) /\ x.p \in Nat
    <3>1. x # Failed
      BY <2>2 DEF Failed
    <3>2. PICK vs \in Seq(D), q \in Nat : x = Got(vs, q)
      BY <1>2, <3>1
    <3> QED
      BY <3>2 DEF Got
  <2> QED
    BY <1>2, <2>1, <2>2
<1>4. ASSUME NEW i \in 1..n, NEW x \in V
      PROVE  Taken(x, r[<<i, x.p>>]) \in V
  <2> DEFINE y == r[<<i, x.p>>]
  <2>1. x.ok => x.v \in Seq(D) /\ x.p \in Nat
    BY <1>3
  <2>2. x.ok /\ y.ok => y.v \in D /\ y.p \in Nat
    BY <1>1, <2>1
  <2> HIDE DEF y
  <2>3. CASE x.ok /\ y.ok
    <3>1. Taken(x, y) = Got(Append(x.v, y.v), y.p)
      BY <2>3 DEF Taken
    <3>2. Append(x.v, y.v) \in Seq(D)
      BY <2>1, <2>2, <2>3
    <3> QED
      BY <1>2, <2>2, <2>3, <3>1, <3>2 DEF y
  <2>4. CASE ~(x.ok /\ y.ok)
    <3>1. Taken(x, y) = Failed
      BY <2>4 DEF Taken
    <3> QED
      BY <1>2, <3>1 DEF y
  <2> QED
    BY <2>3, <2>4
<1>5. g \in [(1..n) \X V -> V]
  BY <1>4
<1>6. PICK f : Folds(f, n, V, Got(<<>>, p), g)
  <2> HIDE DEF g
  <2> QED
    BY <1>3, <1>5, FoldsExist
<1>7. ASSUME NEW s \in SUBSET (1..n), s # {}
      PROVE  /\ Max(s) \in 1..n
             /\ f[s \ {Max(s)}].ok => f[s \ {Max(s)}].p \in Nat
             /\ f[s] = Taken(f[s \ {Max(s)}], r[<<Max(s), f[s \ {Max(s)}].p>>])
  <2> DEFINE x == f[s \ {Max(s)}]
             k == Max(s)
  <2> HIDE DEF g
  <2>1. k \in 1..n /\ x \in V /\ f[s] = g[<<k, x>>]
    BY <1>6, <1>7 DEF Folds
  <2> HIDE DEF x, k
  <2>2. g[<<k, x>>] = Taken(x, r[<<k, x.p>>])
    BY <2>1 DEF g
  <2> QED
    <3>1. f[s] = Taken(x, r[<<k, x.p>>]) /\ (x.ok => x.p \in Nat)
      BY <1>3, <2>1, <2>2
    <3> QED
      BY <2>1, <3>1 DEF x, k
<1> HIDE DEF g
<1>8. f = [s \in SUBSET (1..n) |-> f[s]] /\ f[{}] = Got(<<>>, p)
  BY <1>6 DEF Folds
<1>9. ReadsAll(f, n, p, r)
  BY <1>7, <1>8 DEF ReadsAll
<1> QED
  BY <1>9

\* The reads that make up f: y[i] is the i-th of them, made where the one before ended.
MadeOf(f, n, p, y) ==
  f[{}] = Got(<<>>, p) /\ \A i \in 1..n : f[1..i] = Taken(f[1..(i - 1)], y[i])

LEMMA ReadsAre ==
  ASSUME NEW n \in Nat, NEW p \in Nat, NEW f, NEW y, MadeOf(f, n, p, y),
         \A i \in 1..n : f[1..(i - 1)].p \in Nat /\ y[i].ok => y[i].p \in Nat
  PROVE  f[1..n].ok => f[1..n].p \in Nat
<1> DEFINE S == {i \in 0..n : f[1..i].ok => f[1..i].p \in Nat}
<1>1. 0 \in S
  <2>1. 1..0 = {}
    OBVIOUS
  <2>2. f[1..0].p = p
    BY <2>1 DEF MadeOf, Got
  <2> QED
    BY <2>2
<1>2. ASSUME NEW i \in 1..n, i - 1 \in S
      PROVE  i \in S
  <2> DEFINE x == f[1..(i - 1)]
  <2>1. f[1..i] = Taken(x, y[i])
    BY DEF MadeOf
  <2>2. x.ok => x.p \in Nat
    BY <1>2
  <2>3. x.ok /\ y[i].ok => y[i].p \in Nat
    BY <2>2
  <2> HIDE DEF x
  <2>4. f[1..i].ok => f[1..i].p \in Nat
    BY <2>1, <2>3 DEF Taken, Got, Failed
  <2> QED
    BY <2>4
<1>3. n \in S
  <2> HIDE DEF S
  <2> QED
    BY <1>1, <1>2, Reaches
<1> QED
  BY <1>3

\* Reads that each end where the next begins.
LEMMA ReadsEnd ==
  ASSUME NEW n \in Nat, NEW p, NEW f, NEW y, MadeOf(f, n, p, y), NEW c, c[0] = p,
         NEW len, p <= len,
         \A i \in 1..n : f[1..(i - 1)].p = c[i - 1] => EndsAt(y[i], c[i], len)
  PROVE  EndsAt(f[1..n], c[n], len)
<1> DEFINE S == {i \in 0..n : EndsAt(f[1..i], c[i], len)}
<1>1. 0 \in S
  <2>1. 1..0 = {}
    OBVIOUS
  <2>2. EndsAt(f[1..0], c[0], len)
    BY <2>1 DEF MadeOf, EndsAt, Got
  <2> QED
    BY <2>2
<1>2. ASSUME NEW i \in 1..n, i - 1 \in S
      PROVE  i \in S
  <2> DEFINE x == f[1..(i - 1)]
  <2>1. f[1..i] = Taken(x, y[i]) /\ EndsAt(x, c[i - 1], len)
    BY <1>2 DEF MadeOf
  <2>2. x.ok => EndsAt(y[i], c[i], len)
    BY <2>1 DEF EndsAt
  <2> HIDE DEF x
  <2>3. EndsAt(f[1..i], c[i], len)
    BY <2>1, <2>2 DEF EndsAt, Taken, Got, Failed
  <2> QED
    BY <2>3
<1>3. n \in S
  <2> HIDE DEF S
  <2> QED
    BY <1>1, <1>2, Reaches
<1> QED
  BY <1>3

\* The number that four bytes make.
LEMMA WordIs ==
  ASSUME NEW b \in Seq(Nat), NEW p \in Nat, p + 4 <= Len(b)
  PROVE  Word(b, p, 4) = ((b[p + 4] * 8 + b[p + 3]) * 8 + b[p + 2]) * 8 + b[p + 1]
<1> DEFINE a == SubSeq(b, p + 1, p + 4)
           s == Reverse(a)
           g == [x \in (1..4) \X Nat |-> x[2] * 8 + s[x[1]]]
           Step(f) == [t \in SUBSET (DOMAIN s) |->
                         IF t = {} THEN 0 ELSE f[t \ {Max(t)}] * Base + s[Max(t)]]
           f == CHOOSE f : f = Step(f)
<1>1. /\ p + 1 \in Nat /\ p + 2 \in Nat /\ p + 3 \in Nat /\ p + 4 \in Nat
      /\ b[p + 1] \in Nat /\ b[p + 2] \in Nat /\ b[p + 3] \in Nat /\ b[p + 4] \in Nat
  <2>1. Len(b) \in Nat /\ \A i \in 1..Len(b) : b[i] \in Nat
    BY SeqIs
  <2>2. /\ p + 1 \in 1..Len(b) /\ p + 2 \in 1..Len(b) /\ p + 3 \in 1..Len(b)
        /\ p + 4 \in 1..Len(b)
    BY <2>1
  <2> QED
    BY <2>1, <2>2
<1>2. Len(a) = 4 /\ a[1] = b[p + 1] /\ a[2] = b[p + 2] /\ a[3] = b[p + 3] /\ a[4] = b[p + 4]
  <2>1. a = [i \in 1..4 |-> b[p + i]]
    <3>1. SubSeq(b, p + 1, p + 4) = [i \in 1..((p + 4) - (p + 1) + 1) |-> b[i + (p + 1) - 1]]
      OBVIOUS
    <3>2. (p + 4) - (p + 1) + 1 = 4 /\ \A i \in 1..4 : i + (p + 1) - 1 = p + i
      OBVIOUS
    <3> QED
      BY <3>1, <3>2
  <2> HIDE DEF a
  <2>2. Len(a) = 4
    <3>1. \A i \in 1..4 : b[p + i] \in Nat
      OBVIOUS
    <3>2. a \in [1..4 -> Nat]
      BY <2>1, <3>1
    <3> QED
      BY <3>2, ListIs
  <2> QED
    BY <2>1, <2>2
<1> HIDE DEF a
<1>3. s = [i \in 1..4 |-> a[(4 - i) + 1]]
  BY <1>2 DEF Reverse
<1>4. /\ DOMAIN s = 1..4
      /\ s[1] = b[p + 4] /\ s[2] = b[p + 3] /\ s[3] = b[p + 2] /\ s[4] = b[p + 1]
  BY <1>2, <1>3
<1>5. Word(b, p, 4) = f[DOMAIN s]
  BY DEF Word, FoldLeft, MapThenFoldSet, a
<1> HIDE DEF s
<1>6. \A i \in 1..4 : s[i] \in Nat
  <2>1. \A i \in 1..4 : i = 1 \/ i = 2 \/ i = 3 \/ i = 4
    OBVIOUS
  <2> QED
    BY <1>1, <1>4, <2>1
<1>7. f = Step(f)
  <2>1. g \in [(1..4) \X Nat -> Nat]
    <3>1. \A x \in (1..4) \X Nat : x[1] \in 1..4 /\ x[2] \in Nat
      OBVIOUS
    <3>2. ASSUME NEW i \in 1..4, NEW m \in Nat
          PROVE  m * 8 + s[i] \in Nat
      <4>1. s[i] \in Nat
        BY <1>6
      <4>2. \A x \in Nat : m * 8 + x \in Nat
        OBVIOUS
      <4> QED
        BY <4>1, <4>2
    <3> QED
      BY <3>1, <3>2
  <2>2. PICK h : Folds(h, 4, Nat, 0, g)
    <3> HIDE DEF g
    <3> QED
      BY <2>1, FoldsExist
  <2>3. ASSUME NEW t \in SUBSET (1..4)
        PROVE  h[t] = IF t = {} THEN 0 ELSE h[t \ {Max(t)}] * 8 + s[Max(t)]
    <3>1. CASE t = {}
      BY <2>2, <3>1 DEF Folds
    <3>2. CASE t # {}
      <4> DEFINE x == <<Max(t), h[t \ {Max(t)}]>>
      <4>1. h[t] = g[x] /\ x \in (1..4) \X Nat
        BY <2>2, <3>2 DEF Folds
      <4>2. g[x] = x[2] * 8 + s[x[1]]
        BY <4>1
      <4> QED
        BY <3>2, <4>1, <4>2
    <3> QED
      BY <3>1, <3>2
  <2>4. h = [t \in SUBSET (1..4) |-> h[t]]
    BY <2>2 DEF Folds
  <2>5. h = Step(h)
    <3>1. Base = 8
      BY PowerIs
    <3> QED
      BY <1>4, <2>3, <2>4, <3>1
  <2> HIDE DEF Step
  <2> QED
    BY <2>5
<1>8. f[{}] = 0 /\ \A i \in 1..4 : f[1..i] = f[1..(i - 1)] * 8 + s[i]
  <2> HIDE DEF f
  <2>1. \A t \in SUBSET (1..4) :
          f[t] = IF t = {} THEN 0 ELSE f[t \ {Max(t)}] * 8 + s[Max(t)]
    <3>1. Base = 8
      BY PowerIs
    <3> QED
      BY <1>4, <1>7, <3>1
  <2>2. ASSUME NEW i \in 1..4
        PROVE  f[1..i] = f[1..(i - 1)] * 8 + s[i]
    <3>1. 1..i \in SUBSET (1..4) /\ 1..i # {} /\ Max(1..i) = i /\ (1..i) \ {i} = 1..(i - 1)
      BY 4 \in Nat, UpToStep
    <3> QED
      BY <2>1, <3>1
  <2>3. f[{}] = 0
    BY <2>1
  <2> QED
    BY <2>2, <2>3
<1> HIDE DEF f
<1>9. /\ f[1..1] = f[1..0] * 8 + s[1] /\ f[1..2] = f[1..1] * 8 + s[2]
      /\ f[1..3] = f[1..2] * 8 + s[3] /\ f[1..4] = f[1..3] * 8 + s[4]
  <2>1. /\ f[1..1] = f[1..(1 - 1)] * 8 + s[1] /\ f[1..2] = f[1..(2 - 1)] * 8 + s[2]
        /\ f[1..3] = f[1..(3 - 1)] * 8 + s[3] /\ f[1..4] = f[1..(4 - 1)] * 8 + s[4]
    BY <1>8
  <2>2. 1 - 1 = 0 /\ 2 - 1 = 1 /\ 3 - 1 = 2 /\ 4 - 1 = 3
    OBVIOUS
  <2> QED
    BY <2>1, <2>2
<1>10. f[1..0] = 0 /\ 0 * 8 + s[1] = s[1]
  <2>1. 1..0 = {} /\ s[1] \in Nat
    BY <1>1, <1>4
  <2> QED
    BY <1>8, <2>1
<1> QED
  BY <1>4, <1>5, <1>9, <1>10

LEMMA WordIsNat ==
  ASSUME NEW b \in Seq(Nat), NEW p \in Nat, p + 4 <= Len(b)
  PROVE  Word(b, p, 4) \in Nat
<1>1. /\ b[p + 1] \in Nat /\ b[p + 2] \in Nat /\ b[p + 3] \in Nat /\ b[p + 4] \in Nat
  <2>1. Len(b) \in Nat /\ \A i \in 1..Len(b) : b[i] \in Nat
    BY SeqIs
  <2>2. /\ p + 1 \in 1..Len(b) /\ p + 2 \in 1..Len(b) /\ p + 3 \in 1..Len(b)
        /\ p + 4 \in 1..Len(b)
    BY <2>1
  <2> QED
    BY <2>1, <2>2
<1>2. \A x, y, z, u \in Nat : ((x * 8 + y) * 8 + z) * 8 + u \in Nat
  OBVIOUS
<1>3. ((b[p + 4] * 8 + b[p + 3]) * 8 + b[p + 2]) * 8 + b[p + 1] \in Nat
  BY <1>1, <1>2
<1> QED
  BY <1>3, WordIs

FromDigits(n) ==
  ((((n \div 512) % 8) * 8 + ((n \div 64) % 8)) * 8 + ((n \div 8) % 8)) * 8 + ((n \div 1) % 8)

LEMMA FourDigits ==
  ASSUME NEW n \in Nat, n < 4096
  PROVE  FromDigits(n) = n
<1> DEFINE u == n \div 8
           v == n \div 64
           w == n \div 512
<1>1. u \in 0..511 /\ v \in 0..63 /\ w \in 0..7
  OBVIOUS
<1>2. n = u * 8 + (n % 8)
  OBVIOUS
<1>3. u = v * 8 + (u % 8)
  OBVIOUS
<1>4. v = w * 8 + (v % 8)
  OBVIOUS
<1>5. w % 8 = w /\ n \div 1 = n
  <2>1. \A x \in 0..7 : x % 8 = x
    OBVIOUS
  <2>2. n \div 1 = n
    OBVIOUS
  <2> HIDE DEF w
  <2>3. w \in 0..7
    BY <1>1
  <2>4. w % 8 = w
    BY <2>1, <2>3
  <2> QED
    BY <2>2, <2>4
<1> HIDE DEF u, v, w
<1>6. n % 8 \in Int /\ u % 8 \in Int /\ v % 8 \in Int
  BY <1>1
<1>7. (((w % 8) * 8 + (v % 8)) * 8 + (u % 8)) * 8 + ((n \div 1) % 8) = n
  BY <1>1, <1>2, <1>3, <1>4, <1>5, <1>6
<1> QED
  BY <1>7 DEF u, v, w, FromDigits

\* A number of four digits comes back.
LEMMA WordOfCount ==
  ASSUME NEW b \in Seq(Nat), NEW p \in Nat, p + 4 <= Len(b),
         NEW n \in Nat, n < 4096, Shows(b, p, LittleEndian(n, 4))
  PROVE  Word(b, p, 4) = n
<1> DEFINE l == LittleEndian(n, 4)
<1>1. /\ Len(l) = 4
      /\ l[1] = (n \div Power(1 - 1)) % 8 /\ l[2] = (n \div Power(2 - 1)) % 8
      /\ l[3] = (n \div Power(3 - 1)) % 8 /\ l[4] = (n \div Power(4 - 1)) % 8
  BY LittleEndianIs
<1>2. l[1] = (n \div 1) % 8 /\ l[2] = (n \div 8) % 8 /\ l[3] = (n \div 64) % 8 /\ l[4] = (n \div 512) % 8
  <2>1. 1 - 1 = 0 /\ 2 - 1 = 1 /\ 3 - 1 = 2 /\ 4 - 1 = 3
    OBVIOUS
  <2> HIDE DEF l
  <2>2. /\ l[1] = (n \div Power(0)) % 8 /\ l[2] = (n \div Power(1)) % 8
        /\ l[3] = (n \div Power(2)) % 8 /\ l[4] = (n \div Power(3)) % 8
    BY <1>1, <2>1
  <2>3. Power(0) = 1 /\ Power(1) = 8 /\ Power(2) = 64 /\ Power(3) = 512
    BY PowerIs
  <2> QED
    BY <2>2, <2>3
<1>3. ASSUME NEW i \in 1..4, p + i <= Len(b)
      PROVE  b[p + i] = l[i]
  <2>1. Len(l) = 4
    BY <1>1
  <2>2. Shows(b, p, l)
    OBVIOUS
  <2> HIDE DEF l
  <2>3. \A j \in 1..Len(l) : p + j <= Len(b) => b[p + j] = l[j]
    BY <2>2 DEF Shows
  <2>4. i \in 1..Len(l)
    BY <2>1
  <2> QED
    BY <1>3, <2>3, <2>4
<1> HIDE DEF l
<1>4. b[p + 1] = l[1] /\ b[p + 2] = l[2] /\ b[p + 3] = l[3] /\ b[p + 4] = l[4]
  <2>1. Len(b) \in Nat
    OBVIOUS
  <2>2. p + 1 <= Len(b) /\ p + 2 <= Len(b) /\ p + 3 <= Len(b)
    BY <2>1
  <2> QED
    BY <1>3, <2>2
<1>5. Word(b, p, 4) = ((b[p + 4] * 8 + b[p + 3]) * 8 + b[p + 2]) * 8 + b[p + 1]
  BY WordIs
<1>6. Word(b, p, 4) = FromDigits(n)
  BY <1>2, <1>4, <1>5 DEF FromDigits
<1> QED
  BY <1>6, FourDigits

-----------------------------------------------------------------------------
\* A length of this size is 0 on the wire.
LengthLimit == Base^SizeInt32

LEMMA LimitIs == LengthLimit = 4096
BY PowerIs, NumericIs DEF LengthLimit, Power

\* The texts and bytes of a value of type t are shorter.
ScalarFits(t, v) ==
  /\ t = "string" => Len(Utf8(v)) < LengthLimit
  /\ t = "pair" => Len(Utf8(v[1])) < LengthLimit /\ Len(Utf8(v[2])) < LengthLimit
  /\ t \in {"bytes", "message", "base64", "not_base64"} => Len(v) < LengthLimit

LEMMA ReadFixedIs ==
  ASSUME NEW b \in Seq(Nat), NEW p \in Nat, NEW k \in Nat, ReadFixedAt(b, p, k).ok
  PROVE  /\ ReadFixedAt(b, p, k).p = p + k /\ p + k <= Len(b)
         /\ ReadFixedAt(b, p, k).v = Word(b, p, k)
BY DEF ReadFixedAt, Got, Failed

LEMMA ReadLengthIs ==
  ASSUME NEW b \in Seq(Nat), NEW p \in Nat, ReadCompactLengthAt(b, p).ok
  PROVE  LET r == ReadCompactLengthAt(b, p)
         IN  /\ r.v \in Nat /\ r.p \in Nat
             /\ \A n \in Nat : n < 4096 /\ Shows(b, p, AppendCompactLength(n)) =>
                  r.v = n /\ r.p = p + Len(AppendCompactLength(n))
<1> DEFINE r == ReadCompactLengthAt(b, p)
<1>1. p < Len(b) /\ Len(b) \in Nat
  BY DEF ReadCompactLengthAt, Failed
<1>2. b[p + 1] \in Nat /\ p + 1 \in Nat
  BY <1>1
<1>3. ASSUME NEW n \in Nat, n < 4096, Shows(b, p, AppendCompactLength(n))
      PROVE  /\ n <= 6 => b[p + 1] = n /\ Len(AppendCompactLength(n)) = 1
             /\ n > 6 => /\ b[p + 1] = 7 /\ Len(AppendCompactLength(n)) = 5
                         /\ Shows(b, p + 1, LittleEndian(n, 4))
  <2>1. ASSUME n <= 6
        PROVE  b[p + 1] = n /\ Len(AppendCompactLength(n)) = 1
    <3>1. AppendCompactLength(n) = <<n>>
      BY <2>1, PowerIs DEF AppendCompactLength
    <3>2. Len(<<n>>) = 1 /\ <<n>>[1] = n /\ 1 \in 1..1 /\ p + 1 <= Len(b)
      BY <1>1
    <3> QED
      BY <1>3, <3>1, <3>2 DEF Shows
  <2>2. ASSUME n > 6
        PROVE  b[p + 1] = 7 /\ Len(AppendCompactLength(n)) = 5 /\ Shows(b, p + 1, LittleEndian(n, 4))
    <3> DEFINE l == LittleEndian(n, 4)
               m == <<7>>
    <3>1. AppendCompactLength(n) = m \o l
      <4>1. ~(n <= 6)
        BY <2>2
      <4> QED
        BY <4>1, PowerIs, NumericIs DEF AppendCompactLength
    <3>2. l \in Seq(Bytes) /\ Len(l) = 4
      <4>1. n \in Int /\ 4 \in {4, 8}
        OBVIOUS
      <4> HIDE DEF m
      <4> QED
        BY <4>1, LittleEndianIs
    <3>3. m \in Seq(Nat) /\ Len(m) = 1 /\ m[1] = 7
      OBVIOUS
    <3> HIDE DEF l, m
    <3>4. l \in Seq(Nat)
      BY <3>2, BytesAreNat
    <3>5. Shows(b, p, m) /\ Shows(b, p + 1, l)
      <4>1. Shows(b, p, m \o l)
        BY <1>3, <3>1
      <4>2. Shows(b, p, m) /\ Shows(b, p + Len(m), l)
        BY <3>3, <3>4, <4>1, ShowsParts
      <4> QED
        BY <3>3, <4>2
    <3>6. Len(m \o l) = 5
      <4>1. Len(m \o l) = Len(m) + Len(l)
        <5>1. m \in Seq(Nat) /\ l \in Seq(Nat)
          BY <3>3, <3>4
        <5> QED
          BY <5>1
      <4> QED
        BY <3>2, <3>3, <4>1
    <3>7. b[p + 1] = 7
      <4>1. 1 \in 1..Len(m) /\ p + 1 <= Len(b)
        BY <1>1, <3>3
      <4> QED
        BY <3>3, <3>5, <4>1 DEF Shows
    <3> QED
      BY <3>1, <3>5, <3>6, <3>7 DEF l
  <2> QED
    BY <2>1, <2>2
<1>4. CASE b[p + 1] # 7
  <2>1. r = Got(b[p + 1], p + 1)
    BY <1>1, <1>4, PowerIs DEF ReadCompactLengthAt
  <2>2. r.v = b[p + 1] /\ r.p = p + 1
    BY <2>1 DEF Got
  <2> HIDE DEF r
  <2>3. ASSUME NEW n \in Nat, n < 4096, Shows(b, p, AppendCompactLength(n))
        PROVE  r.v = n /\ r.p = p + Len(AppendCompactLength(n))
    <3>1. n <= 6 \/ n > 6
      OBVIOUS
    <3>2. n <= 6
      BY <1>3, <1>4, <2>3, <3>1
    <3>3. b[p + 1] = n /\ Len(AppendCompactLength(n)) = 1
      BY <1>3, <2>3, <3>2
    <3> QED
      BY <2>2, <3>3
  <2> QED
    BY <1>2, <2>2, <2>3 DEF r
<1>5. CASE b[p + 1] = 7
  <2>1. r = ReadFixedAt(b, p + 1, 4)
    BY <1>1, <1>5, PowerIs, NumericIs DEF ReadCompactLengthAt
  <2>2. r.v = Word(b, p + 1, 4) /\ r.p = (p + 1) + 4 /\ (p + 1) + 4 <= Len(b)
    BY <1>2, <2>1, ReadFixedIs
  <2>3. r.v \in Nat /\ r.p \in Nat /\ r.p = p + 5
    BY <1>2, <2>2, WordIsNat
  <2> HIDE DEF r
  <2>4. ASSUME NEW n \in Nat, n < 4096, Shows(b, p, AppendCompactLength(n))
        PROVE  r.v = n /\ r.p = p + Len(AppendCompactLength(n))
    <3>1. n > 6
      BY <1>3, <1>5, <2>4
    <3>2. Shows(b, p + 1, LittleEndian(n, 4)) /\ Len(AppendCompactLength(n)) = 5
      BY <1>3, <2>4, <3>1
    <3> QED
      BY <1>2, <2>2, <2>3, <2>4, <3>2, WordOfCount
  <2> QED
    BY <2>3, <2>4 DEF r
<1> QED
  BY <1>4, <1>5

LEMMA ReadBytesIs ==
  ASSUME NEW b \in Seq(Nat), NEW p \in Nat, ReadBytesAt(b, p).ok
  PROVE  LET r == ReadBytesAt(b, p)
         IN  /\ r.p \in Nat
             /\ \A s \in Seq(Bytes) : Len(s) < 4096 /\ Shows(b, p, AppendBytes(s)) =>
                  EndsAt(r, p + Len(AppendBytes(s)), Len(b))
<1> DEFINE r == ReadBytesAt(b, p)
           l == ReadCompactLengthAt(b, p)
<1>1. l.ok /\ ~(l.p + l.v > Len(b)) /\ r.p = l.p + l.v
  BY DEF ReadBytesAt, Then, Got, Failed
<1>2. /\ l.v \in Nat /\ l.p \in Nat
      /\ \A n \in Nat : n < 4096 /\ Shows(b, p, AppendCompactLength(n)) =>
           l.v = n /\ l.p = p + Len(AppendCompactLength(n))
  BY <1>1, ReadLengthIs
<1> HIDE DEF r, l
<1>3. r.p \in Nat /\ r.p <= Len(b)
  <2>1. Len(b) \in Nat
    OBVIOUS
  <2> QED
    BY <1>1, <1>2, <2>1
<1>4. ASSUME NEW s \in Seq(Bytes), Len(s) < 4096, Shows(b, p, AppendBytes(s))
      PROVE  r.p = p + Len(AppendBytes(s))
  <2> DEFINE a == AppendCompactLength(Len(s))
  <2>1. Len(s) \in Nat /\ s \in Seq(Nat) /\ a \in Seq(Nat)
    BY BytesAreNat, CompactLengthIs
  <2>2. AppendBytes(s) = a \o s
    BY DEF AppendBytes
  <2>3. Shows(b, p, a)
    <3> HIDE DEF a
    <3> QED
      BY <1>4, <2>1, <2>2, ShowsParts
  <2>4. l.v = Len(s) /\ l.p = p + Len(a)
    BY <1>2, <1>4, <2>1, <2>3
  <2> HIDE DEF a
  <2>5. Len(a \o s) = Len(a) + Len(s) /\ Len(a) \in Nat
    BY <2>1, CatIs
  <2> QED
    BY <1>1, <2>1, <2>2, <2>4, <2>5
<1> QED
  BY <1>3, <1>4 DEF EndsAt, r

\* The decoders of index.ts and browser.ts read a value where the end is checked.
ReadsWire(r, b, p, w) == Shows(b, p, w) => EndsAt(r, p + Len(w), Len(b))

LEMMA ReadStringIs ==
  ASSUME NEW b \in Seq(Nat), NEW p \in Nat, ReadString(b, p).ok
  PROVE  LET r == ReadString(b, p)
         IN  /\ r.p \in Nat
             /\ \A s \in Seq(Bytes) : Len(s) < 4096 => ReadsWire(r, b, p, AppendBytes(s))
<1> DEFINE r == ReadString(b, p)
           i == ReadBytesAt(b, p)
<1>1. i.ok /\ r.p = i.p
  BY DEF ReadString, Read, Then, Got, Failed
<1>2. /\ i.p \in Nat
      /\ \A s \in Seq(Bytes) : Len(s) < 4096 /\ Shows(b, p, AppendBytes(s)) =>
           EndsAt(i, p + Len(AppendBytes(s)), Len(b))
  BY <1>1, ReadBytesIs
<1> HIDE DEF r, i
<1> QED
  BY <1>1, <1>2 DEF EndsAt, ReadsWire, r

\* Two texts, one after the other.
ReadTexts(b, p) == ReadPair(ReadString(b, p), LAMBDA q : ReadString(b, q))

LEMMA ReadPairIs ==
  ASSUME NEW b \in Seq(Nat), NEW p \in Nat
  PROVE  LET r == ReadTexts(b, p)
         IN  /\ r.ok => r.p \in Nat
             /\ \A x, y \in Seq(Bytes) : Len(x) < 4096 /\ Len(y) < 4096 =>
                  ReadsWire(r, b, p, AppendBytes(x) \o AppendBytes(y))
<1> DEFINE r == ReadTexts(b, p)
           k == ReadString(b, p)
           v == ReadString(b, k.p)
<1>1. r.ok => k.ok /\ v.ok /\ r.p = v.p
  BY DEF ReadTexts, ReadPair, Then, Got, Failed
<1>2. k.ok => /\ k.p \in Nat
              /\ \A s \in Seq(Bytes) : Len(s) < 4096 => ReadsWire(k, b, p, AppendBytes(s))
  BY ReadStringIs
<1>3. k.ok /\ v.ok => /\ v.p \in Nat
                      /\ \A s \in Seq(Bytes) : Len(s) < 4096 => ReadsWire(v, b, k.p, AppendBytes(s))
  BY <1>2, ReadStringIs
<1> HIDE DEF r, k, v
<1>4. ASSUME NEW x \in Seq(Bytes), NEW y \in Seq(Bytes), Len(x) < 4096, Len(y) < 4096,
             Shows(b, p, AppendBytes(x) \o AppendBytes(y)), r.ok
      PROVE  r.p = p + Len(AppendBytes(x) \o AppendBytes(y)) /\ r.p <= Len(b)
  <2> DEFINE m == AppendBytes(x)
             n == AppendBytes(y)
  <2>1. m \in Seq(Nat) /\ n \in Seq(Nat)
    BY AppendBytesIs, BytesAreNat
  <2>2. Shows(b, p, m \o n)
    BY <1>4
  <2>3. ReadsWire(k, b, p, m) /\ ReadsWire(v, b, k.p, n)
    BY <1>1, <1>2, <1>3, <1>4
  <2> HIDE DEF m, n
  <2>4. Shows(b, p, m) /\ Shows(b, p + Len(m), n)
    BY <2>1, <2>2, ShowsParts
  <2>5. k.p = p + Len(m)
    BY <1>1, <1>4, <2>3, <2>4 DEF ReadsWire, EndsAt
  <2>6. v.p = k.p + Len(n) /\ v.p <= Len(b)
    BY <1>1, <1>4, <2>3, <2>4, <2>5 DEF ReadsWire, EndsAt
  <2>7. Len(m \o n) = Len(m) + Len(n) /\ Len(m) \in Nat /\ Len(n) \in Nat
    BY <2>1, CatIs
  <2>8. r.p = p + Len(m \o n) /\ r.p <= Len(b)
    BY <1>1, <1>4, <2>5, <2>6, <2>7
  <2> QED
    BY <2>8 DEF m, n
<1>5. r.ok => r.p \in Nat
  BY <1>1, <1>3
<1>6. ASSUME NEW x \in Seq(Bytes), NEW y \in Seq(Bytes), Len(x) < 4096, Len(y) < 4096
      PROVE  ReadsWire(r, b, p, AppendBytes(x) \o AppendBytes(y))
  BY <1>4, <1>6 DEF ReadsWire, EndsAt
<1> QED
  BY <1>5, <1>6 DEF r

LEMMA ReadScalarIs ==
  ASSUME NEW d \in {"index", "browser"}, NEW t \in WireTypes, NEW b \in Seq(Nat), NEW p \in Nat
  PROVE  LET r == ReadScalar(d, t, b, p)
         IN  /\ r.ok => r.p \in Nat
             /\ \A v \in ValuesOf(t) : ScalarFits(t, v) => ReadsWire(r, b, p, ScalarOnWire(t, v))
<1> DEFINE r == ReadScalar(d, t, b, p)
<1> SUFFICES /\ r.ok => r.p \in Nat
             /\ \A v \in ValuesOf(t) : ScalarFits(t, v) => ReadsWire(r, b, p, ScalarOnWire(t, v))
  OBVIOUS
<1>1. CASE t \in Numeric
  <2> DEFINE w == Width(t)
             i == ReadFixedAt(b, p, w)
  <2>1. IsFixed(t) /\ w \in {1, 4, 8}
    BY <1>1, NumericIs
  <2>2. r.ok => i.ok /\ r.p = i.p
    <3>1. t # "string" /\ t # "pair"
      BY <1>1 DEF Numeric
    <3>2. r = ReadFixed(t, b, p) \/ r = BrowserReadFixed(t, b, p)
      <4>1. CASE d = "index"
        BY <2>1, <3>1, <4>1 DEF ReadScalar, IndexRead
      <4>2. CASE d = "browser"
        BY <2>1, <3>1, <4>2 DEF ReadScalar, BrowserRead
      <4> QED
        BY <4>1, <4>2
    <3> HIDE DEF r
    <3>3. CASE r = ReadFixed(t, b, p)
      BY <3>3 DEF ReadFixed, Read, Then, Got, Failed
    <3>4. CASE r = BrowserReadFixed(t, b, p)
      BY <3>4 DEF BrowserReadFixed, Read, Then, Got, Failed
    <3> QED
      BY <3>2, <3>3, <3>4
  <2> HIDE DEF w, r
  <2>3. w \in Nat
    BY <2>1
  <2>4. i.ok => i.p = p + w /\ p + w <= Len(b)
    BY <2>3, ReadFixedIs
  <2> HIDE DEF i
  <2>5. \A v \in ValuesOf(t) : Len(ScalarOnWire(t, v)) = w
    BY <1>1, <2>1, OnWireIs, FixedBytesIs DEF w
  <2>6. r.ok => r.p = p + w /\ p + w <= Len(b) /\ r.p \in Nat
    BY <2>2, <2>3, <2>4
  <2> QED
    BY <2>5, <2>6 DEF ReadsWire, EndsAt
<1>2. CASE t = "string"
  <2>1. ~IsFixed(t) /\ r = ReadString(b, p)
    BY <1>2, ValuesAre DEF ReadScalar, IndexRead, BrowserRead
  <2> HIDE DEF r
  <2>2. r.ok => /\ r.p \in Nat
                /\ \A s \in Seq(Bytes) : Len(s) < 4096 => ReadsWire(r, b, p, AppendBytes(s))
    BY <2>1, ReadStringIs
  <2>3. ASSUME NEW v \in ValuesOf(t), ScalarFits(t, v)
        PROVE  ReadsWire(r, b, p, ScalarOnWire(t, v))
    <3>1. Utf8(v) \in Seq(Bytes) /\ Len(Utf8(v)) < 4096
      BY <1>2, <2>3, ValuesAre, Utf8Is, LimitIs DEF ScalarFits
    <3>2. ScalarOnWire(t, v) = AppendBytes(Utf8(v))
      BY <1>2, <2>3, OnWireIs
    <3>3. r.ok => ReadsWire(r, b, p, ScalarOnWire(t, v))
      BY <2>2, <3>1, <3>2
    <3> QED
      BY <3>3 DEF ReadsWire, EndsAt
  <2> QED
    BY <2>2, <2>3
<1>3. CASE t = "pair"
  <2>1. r = ReadTexts(b, p)
    BY <1>3, ValuesAre DEF ReadScalar, IndexRead, BrowserRead, ReadTexts
  <2> HIDE DEF r
  <2>2. /\ r.ok => r.p \in Nat
        /\ \A x, y \in Seq(Bytes) : Len(x) < 4096 /\ Len(y) < 4096 =>
             ReadsWire(r, b, p, AppendBytes(x) \o AppendBytes(y))
    BY <2>1, ReadPairIs
  <2>3. ASSUME NEW v \in ValuesOf(t), ScalarFits(t, v)
        PROVE  ReadsWire(r, b, p, ScalarOnWire(t, v))
    <3>1. v[1] \in Seq(Units) /\ v[2] \in Seq(Units)
      BY <1>3, <2>3, ValuesAre
    <3>2. /\ Utf8(v[1]) \in Seq(Bytes) /\ Len(Utf8(v[1])) < 4096
          /\ Utf8(v[2]) \in Seq(Bytes) /\ Len(Utf8(v[2])) < 4096
      BY <1>3, <2>3, <3>1, Utf8Is, LimitIs DEF ScalarFits
    <3>3. ScalarOnWire(t, v) = AppendBytes(Utf8(v[1])) \o AppendBytes(Utf8(v[2]))
      BY <1>3, <2>3, OnWireIs
    <3> QED
      BY <2>2, <3>2, <3>3
  <2> QED
    BY <2>2, <2>3
<1>4. CASE t \in {"bytes", "message", "base64", "not_base64"}
  <2>1. r = ReadBytesAt(b, p)
    <3>1. ~IsFixed(t) /\ t # "string" /\ t # "pair"
      BY <1>4, ValuesAre
    <3> QED
      BY <3>1 DEF ReadScalar, IndexRead, BrowserRead
  <2> HIDE DEF r
  <2>2. r.ok => /\ r.p \in Nat
                /\ \A s \in Seq(Bytes) : Len(s) < 4096 => ReadsWire(r, b, p, AppendBytes(s))
    BY <2>1, ReadBytesIs DEF ReadsWire
  <2>3. ASSUME NEW v \in ValuesOf(t), ScalarFits(t, v)
        PROVE  ReadsWire(r, b, p, ScalarOnWire(t, v))
    <3>1. v \in Seq(Bytes) /\ Len(v) < 4096
      BY <1>4, <2>3, ValuesAre, LimitIs DEF ScalarFits
    <3>2. ScalarOnWire(t, v) = AppendBytes(v)
      BY <1>4, <2>3, OnWireIs
    <3>3. r.ok => ReadsWire(r, b, p, ScalarOnWire(t, v))
      BY <2>2, <3>1, <3>2
    <3> QED
      BY <3>3 DEF ReadsWire, EndsAt
  <2> QED
    BY <2>2, <2>3
<1> HIDE DEF r
<1> QED
  BY <1>1, <1>2, <1>3, <1>4 DEF WireTypes

\* An array: the count n, and each element read where the one before it ended.
ArrayReads(d, t, b, p, n, f, y) ==
  /\ p + 4 <= Len(b) /\ n \in Nat /\ n = Word(b, p, 4)
  /\ ReadArray(d, t, b, p) = f[1..n] /\ MadeOf(f, n, p + 4, y)
  /\ \A i \in 1..n : y[i] = ReadScalar(d, t, b, f[1..(i - 1)].p)

LEMMA ReadArrayIs ==
  ASSUME NEW d \in {"index", "browser"}, NEW t \in WireTypes, NEW b \in Seq(Nat), NEW p \in Nat,
         ReadArray(d, t, b, p).ok
  PROVE  \E n, f, y : ArrayReads(d, t, b, p, n, f, y)
<1> DEFINE r == ReadArray(d, t, b, p)
           k == ReadArrayCountAt(b, p, MinBytes(t))
           n == k.v
           q == k.p
           l == [j \in 1..n |-> j]
           Step(f) == [s \in SUBSET (DOMAIN l) |->
                         IF s = {} THEN Got(<<>>, q)
                         ELSE Taken(f[s \ {Max(s)}], ReadScalar(d, t, b, f[s \ {Max(s)}].p))]
           f == CHOOSE f : f = Step(f)
           y == [i \in 1..n |-> ReadScalar(d, t, b, f[1..(i - 1)].p)]
           reads == [x \in (1..n) \X Nat |-> ReadScalar(d, t, b, x[2])]
<1>1. k.ok /\ r = f[DOMAIN l]
  BY DEF ReadArray, ReadMany, ReadEach, Then, FoldLeft, MapThenFoldSet, Taken, Failed
<1>2. k.ok => p + 4 <= Len(b) /\ n = Word(b, p, 4) /\ q = p + 4
  BY NumericIs DEF ReadArrayCountAt, ReadFixedAt, Then, Got, Failed
<1>3. n \in Nat /\ q \in Nat /\ DOMAIN l = 1..n
  <2> HIDE DEF k
  <2> QED
    BY <1>1, <1>2, WordIsNat
<1> HIDE DEF r, k, n, q, l
<1>4. f = Step(f)
  <2>1. ASSUME NEW i \in 1..n, NEW m \in Nat, reads[<<i, m>>].ok
        PROVE  reads[<<i, m>>].p \in Nat
    BY <2>1, ReadScalarIs
  <2>2. PICK h : ReadsAll(h, n, q, reads)
    <3> HIDE DEF reads
    <3> QED
      BY <1>3, <2>1, ReadsExist
  <2>3. ASSUME NEW s \in SUBSET (1..n)
        PROVE  h[s] = IF s = {} THEN Got(<<>>, q)
                      ELSE Taken(h[s \ {Max(s)}], ReadScalar(d, t, b, h[s \ {Max(s)}].p))
    <3>1. CASE s = {}
      BY <2>2, <3>1 DEF ReadsAll
    <3>2. CASE s # {}
      <4> DEFINE x == h[s \ {Max(s)}]
      <4>1. /\ Max(s) \in 1..n /\ (x.ok => x.p \in Nat)
            /\ h[s] = Taken(x, reads[<<Max(s), x.p>>])
        BY <2>2, <3>2 DEF ReadsAll
      <4> HIDE DEF x
      <4>2. x.ok => reads[<<Max(s), x.p>>] = ReadScalar(d, t, b, x.p)
        BY <4>1
      <4>3. h[s] = Taken(x, ReadScalar(d, t, b, x.p))
        BY <4>1, <4>2 DEF Taken
      <4> QED
        BY <3>2, <4>3 DEF x
    <3> QED
      BY <3>1, <3>2
  <2>4. h = [s \in SUBSET (1..n) |-> h[s]]
    BY <2>2 DEF ReadsAll
  <2>5. h = Step(h)
    BY <1>3, <2>3, <2>4
  <2> HIDE DEF Step
  <2> QED
    BY <2>5
<1>5. MadeOf(f, n, q, y)
  <2> HIDE DEF f
  <2>1. \A s \in SUBSET (1..n) :
          f[s] = IF s = {} THEN Got(<<>>, q)
                 ELSE Taken(f[s \ {Max(s)}], ReadScalar(d, t, b, f[s \ {Max(s)}].p))
    BY <1>3, <1>4
  <2>2. ASSUME NEW i \in 1..n
        PROVE  f[1..i] = Taken(f[1..(i - 1)], y[i])
    <3>1. 1..i \in SUBSET (1..n) /\ 1..i # {} /\ Max(1..i) = i /\ (1..i) \ {i} = 1..(i - 1)
      BY <1>3, UpToStep
    <3> QED
      BY <2>1, <3>1
  <2>3. f[{}] = Got(<<>>, q)
    BY <2>1
  <2> QED
    BY <2>2, <2>3 DEF MadeOf
<1>6. \A i \in 1..n : y[i] = ReadScalar(d, t, b, f[1..(i - 1)].p)
  OBVIOUS
<1> HIDE DEF f, y
<1>7. ArrayReads(d, t, b, p, n, f, y)
  BY <1>1, <1>2, <1>3, <1>5, <1>6 DEF ArrayReads, r
<1> QED
  BY <1>7

\* The i-th read reads what ss has in its place.
EachReads(b, f, y, ss) ==
  \A i \in 1..Len(ss), q \in Nat : f[1..(i - 1)].p = q => ReadsWire(y[i], b, q, ss[i])

\* Reads made one after another of what is there one after another.
LEMMA EachEnds ==
  ASSUME NEW b \in Seq(Nat), NEW p \in Nat, p <= Len(b), NEW ss \in Seq(Seq(Nat)), NEW f, NEW y,
         MadeOf(f, Len(ss), p, y), EachReads(b, f, y, ss)
  PROVE  ReadsWire(f[1..Len(ss)], b, p, FlattenSeq(ss))
<1> SUFFICES ASSUME Shows(b, p, FlattenSeq(ss))
             PROVE  EndsAt(f[1..Len(ss)], p + Len(FlattenSeq(ss)), Len(b))
  BY DEF ReadsWire
<1>1. PICK j : Joins(j, ss)
  BY JoinsExists
<1> DEFINE n == Len(ss)
           c == [i \in 0..n |-> p + Len(j[i])]
<1>2. /\ n \in Nat /\ FlattenSeq(ss) = j[n] /\ \A i \in 1..n : ss[i] \in Seq(Nat)
      /\ \A i \in 0..n : j[i] \in Seq(Nat)
  BY <1>1, JoinsGivesFlatten, SeqIs
<1>3. \A i \in 1..n : Shows(b, p + Len(j[i - 1]), ss[i])
  BY <1>1, <1>2, ShowsEach
<1>4. j[0] = <<>> /\ \A i \in 1..n : j[i] = j[i - 1] \o ss[i]
  BY <1>1 DEF Joins
<1>5. MadeOf(f, n, p, y)
  OBVIOUS
<1>6. \A i \in 1..n, q \in Nat : f[1..(i - 1)].p = q => ReadsWire(y[i], b, q, ss[i])
  BY DEF EachReads
<1> HIDE DEF n
<1>7. ASSUME NEW i \in 1..n, f[1..(i - 1)].p = c[i - 1]
      PROVE  EndsAt(y[i], c[i], Len(b))
  <2>1. i - 1 \in 0..n /\ i \in 0..n
    BY <1>2
  <2>2. j[i - 1] \in Seq(Nat) /\ ss[i] \in Seq(Nat) /\ j[i] = j[i - 1] \o ss[i]
    BY <1>2, <1>4, <2>1
  <2>3. Len(j[i]) = Len(j[i - 1]) + Len(ss[i]) /\ Len(j[i - 1]) \in Nat /\ Len(ss[i]) \in Nat
    BY <2>2, CatIs
  <2>4. c[i - 1] = p + Len(j[i - 1]) /\ c[i] = p + Len(j[i])
    BY <2>1
  <2> DEFINE k == Len(j[i - 1])
             l == Len(ss[i])
             m == Len(j[i])
  <2> HIDE DEF c, k, l, m
  <2>5. c[i - 1] \in Nat /\ c[i] = c[i - 1] + Len(ss[i])
    <3>1. m = k + l /\ k \in Nat /\ l \in Nat /\ c[i - 1] = p + k /\ c[i] = p + m
      BY <2>3, <2>4 DEF k, l, m
    <3>2. c[i - 1] \in Nat /\ c[i] = c[i - 1] + l
      BY <3>1
    <3> QED
      BY <3>2 DEF l
  <2>6. ReadsWire(y[i], b, c[i - 1], ss[i]) /\ Shows(b, c[i - 1], ss[i])
    BY <1>3, <1>6, <1>7, <2>4, <2>5
  <2> QED
    BY <2>5, <2>6 DEF ReadsWire
<1>8. c[0] = p /\ c[n] = p + Len(FlattenSeq(ss))
  <2>1. Len(j[0]) = 0 /\ 0 \in 0..n /\ n \in 0..n
    BY <1>2, <1>4
  <2>2. c[0] = p + Len(j[0]) /\ c[n] = p + Len(j[n])
    BY <2>1
  <2>3. p + 0 = p
    OBVIOUS
  <2> HIDE DEF c
  <2> QED
    BY <1>2, <2>1, <2>2, <2>3
<1> HIDE DEF c
<1>9. EndsAt(f[1..n], c[n], Len(b))
  BY <1>2, <1>5, <1>7, <1>8, ReadsEnd
<1> QED
  BY <1>8, <1>9 DEF n

LEMMA ShowsCount ==
  ASSUME NEW b \in Seq(Nat), NEW p \in Nat, NEW l \in Seq(Nat), Len(l) = 4, NEW w \in Seq(Nat),
         Shows(b, p, l \o w)
  PROVE  Shows(b, p, l) /\ Shows(b, p + 4, w)
<1>1. Shows(b, p, l) /\ Shows(b, p + Len(l), w)
  BY ShowsParts
<1> QED
  BY <1>1

\* A count of four bytes, and as many reads.
Counted(b, p, n, f, y, ss) ==
  /\ p + 4 <= Len(b) /\ n \in Nat /\ n = Word(b, p, 4) /\ MadeOf(f, n, p + 4, y)
  /\ ss \in Seq(Seq(Nat)) /\ Len(ss) < 4096
  /\ n = Len(ss) => EachReads(b, f, y, ss)

LEMMA ManyEnd ==
  ASSUME NEW b \in Seq(Nat), NEW p \in Nat, NEW n, NEW f, NEW y, NEW ss, Counted(b, p, n, f, y, ss)
  PROVE  ReadsWire(f[1..n], b, p, LittleEndian(Len(ss), 4) \o FlattenSeq(ss))
<1> DEFINE l == LittleEndian(Len(ss), 4)
           w == FlattenSeq(ss)
<1>0. /\ p + 4 <= Len(b) /\ n \in Nat /\ n = Word(b, p, 4) /\ MadeOf(f, n, p + 4, y)
      /\ ss \in Seq(Seq(Nat)) /\ Len(ss) < 4096
      /\ n = Len(ss) => EachReads(b, f, y, ss)
  BY DEF Counted
<1>1. Len(ss) \in Nat /\ l \in Seq(Nat) /\ Len(l) = 4 /\ w \in Seq(Nat)
  BY <1>0, SeqIs, LittleEndianIs, BytesAreNat, FlattenIsSeq
<1> SUFFICES ASSUME Shows(b, p, l \o w)
             PROVE  EndsAt(f[1..n], p + Len(l \o w), Len(b))
  BY DEF ReadsWire
<1>2. Shows(b, p, l) /\ Shows(b, p + 4, w)
  <2> HIDE DEF l, w
  <2>1. l \in Seq(Nat) /\ w \in Seq(Nat) /\ Len(l) = 4
    BY <1>1
  <2> QED
    BY <2>1, ShowsCount
<1>3. n = Len(ss)
  BY <1>0, <1>1, <1>2, WordOfCount
<1>4. p + 4 \in Nat
  OBVIOUS
<1>5. ReadsWire(f[1..n], b, p + 4, w)
  <2> DEFINE q == p + 4
  <2>1. q \in Nat /\ q <= Len(b) /\ MadeOf(f, Len(ss), q, y) /\ EachReads(b, f, y, ss)
    BY <1>0, <1>3
  <2> HIDE DEF q
  <2>2. ReadsWire(f[1..Len(ss)], b, q, FlattenSeq(ss))
    BY <1>0, <2>1, EachEnds
  <2> QED
    BY <1>3, <2>2 DEF q
<1> HIDE DEF l, w
<1>6. EndsAt(f[1..n], (p + 4) + Len(w), Len(b))
  BY <1>2, <1>5 DEF ReadsWire
<1>7. Len(l \o w) = 4 + Len(w) /\ Len(w) \in Nat
  <2>1. l \in Seq(Nat) /\ w \in Seq(Nat)
    BY <1>1
  <2>2. Len(l \o w) = Len(l) + Len(w) /\ Len(w) \in Nat
    BY <2>1, CatIs
  <2> QED
    BY <1>1, <2>2
<1>8. (p + 4) + Len(w) = p + Len(l \o w)
  BY <1>7
<1> QED
  BY <1>6, <1>8

\* The bytes of a list of elements ss.
IsList(ss, w) ==
  /\ ss \in Seq(Seq(Nat)) /\ Len(ss) < 4096
  /\ w = LittleEndian(Len(ss), 4) \o FlattenSeq(ss)

ReadsElements(d, t, b, ss) ==
  \A i \in 1..Len(ss), q \in Nat : ReadsWire(ReadScalar(d, t, b, q), b, q, ss[i])

LEMMA ReadArrayEnds ==
  ASSUME NEW d \in {"index", "browser"}, NEW t \in WireTypes, NEW b \in Seq(Nat), NEW p \in Nat
  PROVE  LET r == ReadArray(d, t, b, p)
         IN  /\ r.ok => r.p \in Nat
             /\ \A ss, w : IsList(ss, w) /\ ReadsElements(d, t, b, ss) => ReadsWire(r, b, p, w)
<1> DEFINE r == ReadArray(d, t, b, p)
<1>1. CASE ~r.ok
  BY <1>1 DEF ReadsWire, EndsAt
<1>2. CASE r.ok
  <2>0. PICK n, f, y : ArrayReads(d, t, b, p, n, f, y)
    BY <1>2, ReadArrayIs
  <2>1. /\ p + 4 <= Len(b) /\ n \in Nat /\ n = Word(b, p, 4)
        /\ r = f[1..n] /\ MadeOf(f, n, p + 4, y)
        /\ \A i \in 1..n : y[i] = ReadScalar(d, t, b, f[1..(i - 1)].p)
    BY <2>0 DEF ArrayReads
  <2> HIDE DEF r
  <2>2. r.ok => r.p \in Nat
    <3>1. ASSUME NEW i \in 1..n, f[1..(i - 1)].p \in Nat, y[i].ok
          PROVE  y[i].p \in Nat
      <4> DEFINE q == f[1..(i - 1)].p
      <4>1. q \in Nat /\ y[i] = ReadScalar(d, t, b, q)
        BY <2>1, <3>1
      <4> HIDE DEF q
      <4>2. ReadScalar(d, t, b, q).ok => ReadScalar(d, t, b, q).p \in Nat
        BY <4>1, ReadScalarIs
      <4> QED
        BY <3>1, <4>1, <4>2
    <3>2. p + 4 \in Nat
      OBVIOUS
    <3> QED
      BY <2>1, <3>1, <3>2, ReadsAre
  <2>3. ASSUME NEW ss, NEW w, IsList(ss, w), ReadsElements(d, t, b, ss)
        PROVE  ReadsWire(r, b, p, w)
    <3>1. ss \in Seq(Seq(Nat)) /\ Len(ss) < 4096 /\ w = LittleEndian(Len(ss), 4) \o FlattenSeq(ss)
      BY <2>3 DEF IsList
    <3>2. n = Len(ss) => EachReads(b, f, y, ss)
      BY <2>1, <2>3 DEF EachReads, ReadsElements
    <3>3. ReadsWire(f[1..n], b, p, LittleEndian(Len(ss), 4) \o FlattenSeq(ss))
      <4>1. Counted(b, p, n, f, y, ss)
        BY <2>1, <3>1, <3>2 DEF Counted
      <4> QED
        BY <4>1, ManyEnd
    <3> QED
      BY <2>1, <3>1, <3>3
  <2> QED
    BY <2>2, <2>3 DEF r
<1> HIDE DEF r
<1> QED
  BY <1>1, <1>2 DEF r

\* Offsets of texts, of which only the lengths are read.
ReadOffset(b, q) == Read(ReadBytesAt(b, q), LAMBDA s : q)

LEMMA ReadOffsetIs ==
  ASSUME NEW b \in Seq(Nat), NEW q \in Nat
  PROVE  LET r == ReadOffset(b, q)
         IN  /\ r.ok => r.p \in Nat
             /\ \A s \in Seq(Bytes) : Len(s) < 4096 => ReadsWire(r, b, q, AppendBytes(s))
<1> DEFINE r == ReadOffset(b, q)
           i == ReadBytesAt(b, q)
<1>1. r.ok => i.ok /\ r.p = i.p
  BY DEF ReadOffset, Read, Then, Got, Failed
<1>2. i.ok => /\ i.p \in Nat
              /\ \A s \in Seq(Bytes) : Len(s) < 4096 /\ Shows(b, q, AppendBytes(s)) =>
                   EndsAt(i, q + Len(AppendBytes(s)), Len(b))
  BY ReadBytesIs
<1> HIDE DEF r, i
<1> QED
  BY <1>1, <1>2 DEF EndsAt, ReadsWire, r

OffsetReads(b, n, f, y) ==
  /\ 4 <= Len(b) /\ n \in Nat /\ n = Word(b, 0, 4)
  /\ StringOffsets(b) = f[1..n] /\ MadeOf(f, n, 4, y)
  /\ \A i \in 1..n : y[i] = ReadOffset(b, f[1..(i - 1)].p)

LEMMA StringOffsetsIs ==
  ASSUME NEW b \in Seq(Nat), StringOffsets(b).ok
  PROVE  \E n, f, y : OffsetReads(b, n, f, y)
<1> DEFINE r == StringOffsets(b)
           k == ReadArrayCountAt(b, 0, 1)
           n == k.v
           q == k.p
           l == [j \in 1..n |-> j]
           Step(f) == [s \in SUBSET (DOMAIN l) |->
                         IF s = {} THEN Got(<<>>, q)
                         ELSE Taken(f[s \ {Max(s)}], ReadOffset(b, f[s \ {Max(s)}].p))]
           f == CHOOSE f : f = Step(f)
           y == [i \in 1..n |-> ReadOffset(b, f[1..(i - 1)].p)]
           reads == [x \in (1..n) \X Nat |-> ReadOffset(b, x[2])]
<1>1. k.ok /\ r = f[DOMAIN l]
  BY DEF StringOffsets, ReadOffset, ReadMany, ReadEach, Then, FoldLeft, MapThenFoldSet, Taken, Failed
<1>2. k.ok => 4 <= Len(b) /\ n = Word(b, 0, 4) /\ q = 4
  BY NumericIs DEF ReadArrayCountAt, ReadFixedAt, Then, Got, Failed
<1>3. n \in Nat /\ q \in Nat /\ DOMAIN l = 1..n
  <2> HIDE DEF k
  <2> QED
    BY <1>1, <1>2, WordIsNat
<1> HIDE DEF r, k, n, q, l
<1>4. f = Step(f)
  <2>1. ASSUME NEW i \in 1..n, NEW m \in Nat, reads[<<i, m>>].ok
        PROVE  reads[<<i, m>>].p \in Nat
    BY <2>1, ReadOffsetIs
  <2>2. PICK h : ReadsAll(h, n, q, reads)
    <3> HIDE DEF reads
    <3> QED
      BY <1>3, <2>1, ReadsExist
  <2>3. ASSUME NEW s \in SUBSET (1..n)
        PROVE  h[s] = IF s = {} THEN Got(<<>>, q)
                      ELSE Taken(h[s \ {Max(s)}], ReadOffset(b, h[s \ {Max(s)}].p))
    <3>1. CASE s = {}
      BY <2>2, <3>1 DEF ReadsAll
    <3>2. CASE s # {}
      <4> DEFINE x == h[s \ {Max(s)}]
      <4>1. /\ Max(s) \in 1..n /\ (x.ok => x.p \in Nat)
            /\ h[s] = Taken(x, reads[<<Max(s), x.p>>])
        BY <2>2, <3>2 DEF ReadsAll
      <4> HIDE DEF x
      <4>2. x.ok => reads[<<Max(s), x.p>>] = ReadOffset(b, x.p)
        BY <4>1
      <4>3. h[s] = Taken(x, ReadOffset(b, x.p))
        BY <4>1, <4>2 DEF Taken
      <4> QED
        BY <3>2, <4>3 DEF x
    <3> QED
      BY <3>1, <3>2
  <2>4. h = [s \in SUBSET (1..n) |-> h[s]]
    BY <2>2 DEF ReadsAll
  <2>5. h = Step(h)
    BY <1>3, <2>3, <2>4
  <2> HIDE DEF Step
  <2> QED
    BY <2>5
<1>5. MadeOf(f, n, q, y)
  <2> HIDE DEF f
  <2>1. \A s \in SUBSET (1..n) :
          f[s] = IF s = {} THEN Got(<<>>, q)
                 ELSE Taken(f[s \ {Max(s)}], ReadOffset(b, f[s \ {Max(s)}].p))
    BY <1>3, <1>4
  <2>2. ASSUME NEW i \in 1..n
        PROVE  f[1..i] = Taken(f[1..(i - 1)], y[i])
    <3>1. 1..i \in SUBSET (1..n) /\ 1..i # {} /\ Max(1..i) = i /\ (1..i) \ {i} = 1..(i - 1)
      BY <1>3, UpToStep
    <3> QED
      BY <2>1, <3>1
  <2>3. f[{}] = Got(<<>>, q)
    BY <2>1
  <2> QED
    BY <2>2, <2>3 DEF MadeOf
<1>6. \A i \in 1..n : y[i] = ReadOffset(b, f[1..(i - 1)].p)
  OBVIOUS
<1> HIDE DEF f, y
<1>7. OffsetReads(b, n, f, y)
  BY <1>1, <1>2, <1>3, <1>5, <1>6 DEF OffsetReads, r
<1> QED
  BY <1>7

ReadsTexts(b, ss) == \A i \in 1..Len(ss), q \in Nat : ReadsWire(ReadOffset(b, q), b, q, ss[i])

LEMMA StringOffsetsEnds ==
  ASSUME NEW b \in Seq(Nat)
  PROVE  LET r == StringOffsets(b)
         IN  /\ r.ok => r.p \in Nat
             /\ \A ss, w : IsList(ss, w) /\ ReadsTexts(b, ss) => ReadsWire(r, b, 0, w)
<1> DEFINE r == StringOffsets(b)
<1>1. CASE ~r.ok
  BY <1>1 DEF ReadsWire, EndsAt
<1>2. CASE r.ok
  <2>0. PICK n, f, y : OffsetReads(b, n, f, y)
    BY <1>2, StringOffsetsIs
  <2>1. /\ 4 <= Len(b) /\ n \in Nat /\ n = Word(b, 0, 4)
        /\ r = f[1..n] /\ MadeOf(f, n, 4, y)
        /\ \A i \in 1..n : y[i] = ReadOffset(b, f[1..(i - 1)].p)
    BY <2>0 DEF OffsetReads
  <2> HIDE DEF r
  <2>2. r.ok => r.p \in Nat
    <3>1. ASSUME NEW i \in 1..n, f[1..(i - 1)].p \in Nat, y[i].ok
          PROVE  y[i].p \in Nat
      <4> DEFINE q == f[1..(i - 1)].p
      <4>1. q \in Nat /\ y[i] = ReadOffset(b, q)
        BY <2>1, <3>1
      <4> HIDE DEF q
      <4>2. ReadOffset(b, q).ok => ReadOffset(b, q).p \in Nat
        BY <4>1, ReadOffsetIs
      <4> QED
        BY <3>1, <4>1, <4>2
    <3>2. 4 \in Nat
      OBVIOUS
    <3> QED
      BY <2>1, <3>1, <3>2, ReadsAre
  <2>3. ASSUME NEW ss, NEW w, IsList(ss, w), ReadsTexts(b, ss)
        PROVE  ReadsWire(r, b, 0, w)
    <3>1. ss \in Seq(Seq(Nat)) /\ Len(ss) < 4096 /\ w = LittleEndian(Len(ss), 4) \o FlattenSeq(ss)
      BY <2>3 DEF IsList
    <3>2. n = Len(ss) => EachReads(b, f, y, ss)
      BY <2>1, <2>3 DEF EachReads, ReadsTexts
    <3>3. ReadsWire(f[1..n], b, 0, LittleEndian(Len(ss), 4) \o FlattenSeq(ss))
      <4> DEFINE p == 0
      <4>1. p \in Nat /\ p + 4 = 4
        OBVIOUS
      <4>2. Counted(b, p, n, f, y, ss)
        BY <2>1, <3>1, <3>2, <4>1 DEF Counted
      <4> HIDE DEF p
      <4>3. ReadsWire(f[1..n], b, p, LittleEndian(Len(ss), 4) \o FlattenSeq(ss))
        BY <4>1, <4>2, ManyEnd
      <4> QED
        BY <4>3 DEF p
    <3> QED
      BY <2>1, <3>1, <3>3
  <2> QED
    BY <2>2, <2>3 DEF r
<1> HIDE DEF r
<1> QED
  BY <1>1, <1>2 DEF r

-----------------------------------------------------------------------------
\* A field of the untagged format.
IsWireField(f) ==
  /\ f.t \in WireTypes /\ f.many \in BOOLEAN
  /\ IF f.many THEN f.v \in Seq(ValuesOf(f.t)) ELSE f.v \in ValuesOf(f.t)

\* A list is shorter than LengthLimit, as are the texts and bytes in the field.
FieldFits(f) ==
  /\ f.many => Len(f.v) < LengthLimit
  /\ \A v \in Scalars(f) : ScalarFits(f.t, v)

\* The bytes of each element of a list, and of each text of a list.
HasElements(t, ss) ==
  \A i \in 1..Len(ss) : \E v \in ValuesOf(t) : ScalarFits(t, v) /\ ss[i] = ScalarOnWire(t, v)

HasTexts(ss) == \A i \in 1..Len(ss) : \E s \in Seq(Bytes) : Len(s) < 4096 /\ ss[i] = AppendBytes(s)

LEMMA ListWires ==
  ASSUME NEW f, IsWireField(f), f.many, FieldFits(f)
  PROVE  \E ss : IsList(ss, OnWire(f)) /\ HasElements(f.t, ss)
<1> DEFINE ss == [i \in DOMAIN f.v |-> ScalarOnWire(f.t, f.v[i])]
<1>1. f.t \in WireTypes /\ f.v \in Seq(ValuesOf(f.t))
  BY DEF IsWireField
<1>2. ss \in Seq(Seq(Bytes)) /\ Len(ss) = Len(f.v) /\ \A i \in 1..Len(f.v) : ss[i] = ScalarOnWire(f.t, f.v[i])
  BY <1>1, ElementsAre
<1>3. OnWire(f) = LittleEndian(Len(f.v), 4) \o FlattenSeq(ss)
  BY NumericIs DEF OnWire
<1> HIDE DEF ss
<1>4. ss \in Seq(Seq(Nat)) /\ Len(f.v) < 4096
  BY <1>2, ListsAreNat, LimitIs DEF FieldFits
<1>5. \A i \in 1..Len(f.v) : f.v[i] \in ValuesOf(f.t) /\ f.v[i] \in Scalars(f)
  BY <1>1, SeqIs DEF Scalars, Range
<1>6. HasElements(f.t, ss)
  BY <1>2, <1>5 DEF FieldFits, HasElements
<1>7. IsList(ss, OnWire(f))
  BY <1>2, <1>3, <1>4 DEF IsList
<1> QED
  BY <1>6, <1>7

LEMMA ReadFieldEnds ==
  ASSUME NEW d \in {"index", "browser"}, NEW f, IsWireField(f), NEW b \in Seq(Nat), NEW p \in Nat
  PROVE  LET r == ReadField(d, f, b, p)
         IN  (r.ok => r.p \in Nat) /\ (FieldFits(f) => ReadsWire(r, b, p, OnWire(f)))
<1> DEFINE r == ReadField(d, f, b, p)
           t == f.t
<1>1. t \in WireTypes
  BY DEF IsWireField
<1>2. CASE f.many
  <2>1. r = ReadArray(d, t, b, p)
    BY <1>2 DEF ReadField
  <2> HIDE DEF r, t
  <2>2. /\ r.ok => r.p \in Nat
        /\ \A ss, w : IsList(ss, w) /\ ReadsElements(d, t, b, ss) => ReadsWire(r, b, p, w)
    BY <1>1, <2>1, ReadArrayEnds
  <2>3. ASSUME FieldFits(f)
        PROVE  ReadsWire(r, b, p, OnWire(f))
    <3>1. PICK ss : IsList(ss, OnWire(f)) /\ HasElements(t, ss)
      BY <1>2, <2>3, ListWires DEF t
    <3>2. ReadsElements(d, t, b, ss)
      BY <1>1, <3>1, ReadScalarIs DEF ReadsElements, HasElements
    <3> QED
      BY <2>2, <3>1, <3>2
  <2> QED
    BY <2>2, <2>3 DEF r
<1>3. CASE ~f.many
  <2>1. r = ReadScalar(d, t, b, p) /\ OnWire(f) = ScalarOnWire(t, f.v) /\ f.v \in ValuesOf(t)
    BY <1>3 DEF ReadField, OnWire, IsWireField
  <2> HIDE DEF r
  <2>2. FieldFits(f) => ScalarFits(t, f.v)
    BY <1>3 DEF FieldFits, Scalars
  <2> HIDE DEF t
  <2>3. /\ r.ok => r.p \in Nat
        /\ ScalarFits(t, f.v) => ReadsWire(r, b, p, ScalarOnWire(t, f.v))
    BY <1>1, <2>1, ReadScalarIs
  <2> QED
    BY <2>1, <2>2, <2>3 DEF r
<1> HIDE DEF r
<1> QED
  BY <1>2, <1>3 DEF r

\* Texts that are read as their bytes.
LEMMA TextWires ==
  ASSUME NEW f, IsWireField(f), f.many, f.t = "string", FieldFits(f)
  PROVE  \E ss : IsList(ss, OnWire(f)) /\ HasTexts(ss)
<1>1. PICK ss : IsList(ss, OnWire(f)) /\ HasElements("string", ss)
  BY ListWires
<1>2. ASSUME NEW v \in ValuesOf("string"), ScalarFits("string", v)
      PROVE  /\ Utf8(v) \in Seq(Bytes) /\ Len(Utf8(v)) < 4096
             /\ ScalarOnWire("string", v) = AppendBytes(Utf8(v))
  BY <1>2, ValuesAre, Utf8Is, LimitIs, OnWireIs DEF ScalarFits, WireTypes
<1>3. HasTexts(ss)
  BY <1>1, <1>2 DEF HasElements, HasTexts
<1> QED
  BY <1>1, <1>3

LEMMA WorkerEnds ==
  ASSUME NEW f, IsWireField(f), f.many, f.t \in {"string", "int32"}, NEW b \in Seq(Nat), NEW p \in Nat
  PROVE  LET r == WorkerDecoded("worker", f, b, p)
         IN  (r.ok => r.p \in Nat) /\ (FieldFits(f) => ReadsWire(r, b, p, OnWire(f)))
<1> DEFINE r == WorkerDecoded("worker", f, b, p)
<1>1. CASE f.t = "int32"
  <2>1. r = ReadField("index", f, b, p)
    BY <1>1 DEF WorkerDecoded, ReadField
  <2> HIDE DEF r
  <2> QED
    BY <2>1, ReadFieldEnds DEF r
<1>2. CASE f.t = "string"
  <2> DEFINE k == ReadArray("index", "bytes", b, p)
  <2>1. r.ok => k.ok /\ r.p = k.p
    BY <1>2 DEF WorkerDecoded, Read, Then, Got, Failed
  <2> HIDE DEF r
  <2>2. /\ k.ok => k.p \in Nat
        /\ \A ss, w : IsList(ss, w) /\ ReadsElements("index", "bytes", b, ss) => ReadsWire(k, b, p, w)
    BY ReadArrayEnds DEF WireTypes
  <2> HIDE DEF k
  <2>3. ASSUME FieldFits(f)
        PROVE  ReadsWire(k, b, p, OnWire(f))
    <3>1. PICK ss : IsList(ss, OnWire(f)) /\ HasTexts(ss)
      BY <1>2, <2>3, TextWires
    <3>2. ASSUME NEW q \in Nat, NEW s \in Seq(Bytes), Len(s) < 4096
          PROVE  ReadsWire(ReadScalar("index", "bytes", b, q), b, q, AppendBytes(s))
      <4>1. s \in ValuesOf("bytes") /\ ScalarFits("bytes", s) /\ "bytes" \in WireTypes
        BY <3>2, ValuesAre, LimitIs DEF ScalarFits, WireTypes
      <4>2. ScalarOnWire("bytes", s) = AppendBytes(s)
        BY <4>1, OnWireIs
      <4> QED
        BY <4>1, <4>2, ReadScalarIs
    <3>3. ReadsElements("index", "bytes", b, ss)
      BY <3>1, <3>2 DEF HasTexts, ReadsElements
    <3> QED
      BY <2>2, <3>1, <3>3
  <2> QED
    BY <2>1, <2>2, <2>3 DEF r, ReadsWire, EndsAt
<1> QED
  BY <1>1, <1>2

LEMMA OffsetsEnd ==
  ASSUME NEW f, IsWireField(f), f.many, f.t = "string", FieldFits(f), NEW b \in Seq(Nat)
  PROVE  ReadsWire(StringOffsets(b), b, 0, OnWire(f))
<1>1. PICK ss : IsList(ss, OnWire(f)) /\ HasTexts(ss)
  BY TextWires
<1>2. ReadsTexts(b, ss)
  BY <1>1, ReadOffsetIs DEF ReadsTexts, HasTexts
<1> QED
  BY <1>1, <1>2, StringOffsetsEnds

-----------------------------------------------------------------------------
(* Decoders of whole messages.                                             *)

\* A field, read by a decoder that checks for the end.
ReadItem(d, f, b, p) ==
  CASE d \in {"jit", "jit_plain", "jit_browser"} -> JitReadField(d, f, b, p)
    [] d = "browser_jit" -> BrowserJitRead(f, b, p)
    [] d = "collections" -> CollectionDecode(f, b, p)
    [] d \in {"worker", "node_worker"} -> WorkerDecoded(d, f, b, p)
    [] d = "hybrid" -> HybridRead(f, b, p)
    [] OTHER -> ReadField(d, f, b, p)

\* A worker is given lists of texts and of int32.
Takes(d, f) == d = "worker" => f.many /\ f.t \in {"string", "int32"}

LEMMA ReadItemEnds ==
  ASSUME NEW d \in {"index", "browser", "hybrid", "worker"}, NEW f, IsWireField(f), Takes(d, f),
         NEW b \in Seq(Nat), NEW p \in Nat
  PROVE  LET r == ReadItem(d, f, b, p)
         IN  (r.ok => r.p \in Nat) /\ (FieldFits(f) => ReadsWire(r, b, p, OnWire(f)))
<1>1. CASE d \in {"index", "browser"}
  <2>1. ReadItem(d, f, b, p) = ReadField(d, f, b, p)
    BY <1>1 DEF ReadItem
  <2> QED
    BY <1>1, <2>1, ReadFieldEnds
<1>2. CASE d = "hybrid"
  <2>1. ReadItem(d, f, b, p) = ReadField("index", f, b, p)
    BY <1>2 DEF ReadItem, HybridRead
  <2> QED
    BY <2>1, ReadFieldEnds
<1>3. CASE d = "worker"
  <2>1. ReadItem(d, f, b, p) = WorkerDecoded("worker", f, b, p)
    BY <1>3 DEF ReadItem
  <2> QED
    BY <1>3, <2>1, WorkerEnds DEF Takes
<1> QED
  BY <1>1, <1>2, <1>3

\* The reads of a message, each where the one before it ended.
MessageReads(d, fields, b, f, y) ==
  /\ Decoded(d, fields, b) = f[1..Len(fields)] /\ MadeOf(f, Len(fields), 0, y)
  /\ \A i \in 1..Len(fields) : y[i] = ReadItem(d, fields[i], b, f[1..(i - 1)].p)

LEMMA DecodedIs ==
  ASSUME NEW d \in {"index", "browser", "hybrid", "worker"}, NEW fields, NEW b \in Seq(Nat),
         Len(fields) \in Nat, DOMAIN fields = 1..Len(fields),
         \A i \in 1..Len(fields) : IsWireField(fields[i]) /\ Takes(d, fields[i])
  PROVE  \E f, y : MessageReads(d, fields, b, f, y)
<1> DEFINE n == Len(fields)
           Step(f) == [s \in SUBSET (DOMAIN fields) |->
                         IF s = {} THEN Got(<<>>, 0)
                         ELSE Taken(f[s \ {Max(s)}],
                                    ReadItem(d, fields[Max(s)], b, f[s \ {Max(s)}].p))]
           f == CHOOSE f : f = Step(f)
           y == [i \in 1..n |-> ReadItem(d, fields[i], b, f[1..(i - 1)].p)]
           reads == [x \in (1..n) \X Nat |-> ReadItem(d, fields[x[1]], b, x[2])]
<1>1. Decoded(d, fields, b) = f[DOMAIN fields]
  BY DEF Decoded, ReadItem, ReadEach, Then, FoldLeft, MapThenFoldSet, Taken, Failed
<1>2. /\ n \in Nat /\ DOMAIN fields = 1..n
      /\ \A i \in 1..n : IsWireField(fields[i]) /\ Takes(d, fields[i])
  OBVIOUS
<1> HIDE DEF n
<1>3. f = Step(f)
  <2>1. ASSUME NEW i \in 1..n, NEW m \in Nat, reads[<<i, m>>].ok
        PROVE  reads[<<i, m>>].p \in Nat
    <3>1. reads[<<i, m>>] = ReadItem(d, fields[i], b, m)
      OBVIOUS
    <3> QED
      BY <1>2, <2>1, <3>1, ReadItemEnds
  <2>2. PICK h : ReadsAll(h, n, 0, reads)
    <3> HIDE DEF reads
    <3> QED
      BY <1>2, <2>1, ReadsExist
  <2>3. ASSUME NEW s \in SUBSET (1..n)
        PROVE  h[s] = IF s = {} THEN Got(<<>>, 0)
                      ELSE Taken(h[s \ {Max(s)}],
                                 ReadItem(d, fields[Max(s)], b, h[s \ {Max(s)}].p))
    <3>1. CASE s = {}
      BY <2>2, <3>1 DEF ReadsAll
    <3>2. CASE s # {}
      <4> DEFINE x == h[s \ {Max(s)}]
      <4>1. /\ Max(s) \in 1..n /\ (x.ok => x.p \in Nat)
            /\ h[s] = Taken(x, reads[<<Max(s), x.p>>])
        BY <2>2, <3>2 DEF ReadsAll
      <4> HIDE DEF x
      <4>2. x.ok => reads[<<Max(s), x.p>>] = ReadItem(d, fields[Max(s)], b, x.p)
        BY <4>1
      <4>3. h[s] = Taken(x, ReadItem(d, fields[Max(s)], b, x.p))
        BY <4>1, <4>2 DEF Taken
      <4> QED
        BY <3>2, <4>3 DEF x
    <3> QED
      BY <3>1, <3>2
  <2>4. h = [s \in SUBSET (1..n) |-> h[s]]
    BY <2>2 DEF ReadsAll
  <2>5. h = Step(h)
    BY <1>2, <2>3, <2>4
  <2> HIDE DEF Step
  <2> QED
    BY <2>5
<1>4. MadeOf(f, n, 0, y)
  <2> HIDE DEF f
  <2>1. \A s \in SUBSET (1..n) :
          f[s] = IF s = {} THEN Got(<<>>, 0)
                 ELSE Taken(f[s \ {Max(s)}],
                            ReadItem(d, fields[Max(s)], b, f[s \ {Max(s)}].p))
    BY <1>2, <1>3
  <2>2. ASSUME NEW i \in 1..n
        PROVE  f[1..i] = Taken(f[1..(i - 1)], y[i])
    <3>1. 1..i \in SUBSET (1..n) /\ 1..i # {} /\ Max(1..i) = i /\ (1..i) \ {i} = 1..(i - 1)
      BY <1>2, UpToStep
    <3> QED
      BY <2>1, <3>1
  <2>3. f[{}] = Got(<<>>, 0)
    BY <2>1
  <2> QED
    BY <2>2, <2>3 DEF MadeOf
<1>5. \A i \in 1..n : y[i] = ReadItem(d, fields[i], b, f[1..(i - 1)].p)
  OBVIOUS
<1> HIDE DEF f, y
<1>6. MessageReads(d, fields, b, f, y)
  BY <1>1, <1>2, <1>4, <1>5 DEF MessageReads, n
<1> QED
  BY <1>6

LEMMA DecodedEnds ==
  ASSUME NEW d \in {"index", "browser", "hybrid", "worker"}, NEW fields, NEW b \in Seq(Nat),
         Len(fields) \in Nat, DOMAIN fields = 1..Len(fields),
         \A i \in 1..Len(fields) :
           IsWireField(fields[i]) /\ Takes(d, fields[i]) /\ FieldFits(fields[i]),
         NEW ss \in Seq(Seq(Nat)), Len(ss) = Len(fields),
         \A i \in 1..Len(fields) : ss[i] = OnWire(fields[i])
  PROVE  ReadsWire(Decoded(d, fields, b), b, 0, FlattenSeq(ss))
<1> DEFINE n == Len(fields)
<1>1. PICK f, y : MessageReads(d, fields, b, f, y)
  BY DecodedIs
<1>2. /\ Decoded(d, fields, b) = f[1..n] /\ MadeOf(f, n, 0, y)
      /\ \A i \in 1..n : y[i] = ReadItem(d, fields[i], b, f[1..(i - 1)].p)
  BY <1>1 DEF MessageReads
<1>3. EachReads(b, f, y, ss)
  <2>1. ASSUME NEW i \in 1..n, NEW q \in Nat, f[1..(i - 1)].p = q
        PROVE  ReadsWire(y[i], b, q, ss[i])
    <3> DEFINE g == fields[i]
    <3>1. IsWireField(g) /\ Takes(d, g) /\ FieldFits(g) /\ ss[i] = OnWire(g)
      OBVIOUS
    <3>2. y[i] = ReadItem(d, g, b, q)
      BY <1>2, <2>1
    <3> HIDE DEF g
    <3> QED
      BY <3>1, <3>2, ReadItemEnds
  <2> QED
    BY <2>1 DEF EachReads
<1>4. MadeOf(f, Len(ss), 0, y) /\ Decoded(d, fields, b) = f[1..Len(ss)]
  BY <1>2
<1>5. 0 \in Nat /\ 0 <= Len(b)
  OBVIOUS
<1> QED
  BY <1>3, <1>4, <1>5, EachEnds

-----------------------------------------------------------------------------
\* No list, text or blob that a program writes is so long that its length on the
\* wire, of four bytes, is another one.
LengthsFit == \A r \in Runtimes : \A f \in FieldSet(r.kind) : FieldFits(f)

\* A view of the message being written shows all of it.
ViewShows(e, n, v) ==
  v.epoch = n =>
    \/ Memory(e, v).detached
    \/ /\ Len(Memory(e, v).b) = v.len
       /\ Faithful(v) => Memory(e, v).b = Expected(v.asked)

CutInv ==
  /\ IInv
  /\ views # <<>> => ViewShows(enc, resets, views[1])
  /\ CutRefused

LEMMA ViewIsLong ==
  ASSUME NEW e \in Encoders, NEW m, NEW isWhole, NEW n
  PROVE  LET v == View(e, m, isWhole, n)
         IN  Len(Memory(e, v).b) = v.len
<1> DEFINE v == View(e, m, isWhole, n)
           c == Cells(e)
<1>1. /\ e.pos \in Nat /\ Room(e) \in Nat /\ Room(e) = Len(c) /\ c \in Seq(Bytes)
      /\ c = e.heap[Len(e.heap)].cells
  BY EncoderIs
<1>2. v.arr = Len(e.heap) /\ v.len = Min({e.pos, Room(e)})
  BY DEF View
<1>3. Memory(e, v).b = SubSeq(c, 1, Min({v.len, Len(c)}))
  BY <1>1, <1>2 DEF Memory
<1> HIDE DEF v, c
<1>4. v.len \in Nat /\ v.len <= Len(c) /\ Len(c) \in Nat
  BY <1>1, <1>2, MinOfTwo
<1>5. Min({v.len, Len(c)}) = v.len
  BY <1>4, MinOfTwo
<1>6. Len(SubSeq(c, 1, v.len)) = v.len
  BY <1>1, <1>4
<1> QED
  BY <1>3, <1>5, <1>6 DEF v

\* What a step may do to the views, and to what was delivered.
AddsAView ==
  \/ views' = views
  \/ \E v : views' = Append(views, v) /\ Len(Memory(enc', v).b) = v.len

Steps ==
  /\ rt' = rt /\ (resets' = resets \/ resets' = resets + 1)
  /\ got = None \/ (views' = views /\ got' = got)
  /\ AddsAView
  /\ got' = got \/ \E d, n, numbers : Deliver(d, n, numbers)

LEMMA WroteSteps ==
  ASSUME NEW r, NEW fits, NEW added, NEW n, Wrote(r, fits, added, n)
  PROVE  Steps
BY DEF Wrote, Steps, AddsAView

LEMMA FinishSteps ==
  ASSUME IInv, Finish
  PROVE  Steps
<1> DEFINE v == View(enc, asked, whole, resets)
<1>1. /\ rt' = rt /\ enc' = enc /\ resets' = resets /\ got' = got /\ got = None
      /\ views' = Append(views, v)
  BY DEF Finish
<1>2. Len(Memory(enc, v).b) = v.len
  BY ViewIsLong DEF IInv, EncoderOk
<1> HIDE DEF v
<1>3. AddsAView
  BY <1>1, <1>2 DEF AddsAView
<1> QED
  BY <1>1, <1>3 DEF Steps

LEMMA WriteCollectionSteps ==
  ASSUME IInv, NEW i \in DOMAIN Fields(rt.kind), WriteCollection(Fields(rt.kind)[i])
  PROVE  Steps
<1> DEFINE f == Fields(rt.kind)[i]
           zero == [enc EXCEPT !.pos = 0]
           r == CollectionEncode(enc, f)
           fits == Len(OnWire(f)) <= Room(r)
           y == [r EXCEPT !.ok = TRUE]
           v == View(r, <<f>>, fits, resets + 1)
<1>1. /\ rt.kind = "collections" /\ got = None /\ enc' = y /\ resets' = resets + 1
      /\ views' = (IF r.ok THEN Append(views, v) ELSE views)
      /\ rt' = rt /\ got' = got
  BY DEF WriteCollection
<1>2. enc \in Encoders /\ rt \in Runtimes
  BY DEF IInv, EncoderOk
<1>3. IsField("collections", f)
  <2>1. f \in FieldSet(rt.kind)
    BY DEF FieldSet
  <2> QED
    BY <1>1, <1>2, <2>1, FieldSetIs
<1>4. Slab(zero, r, OnWire(f), \A s \in Texts(f) : Short(s) /\ IsAscii(s)) /\ zero \in Encoders
  BY <1>2, <1>3, AtIs, CollectionEncodeIs
<1> HIDE DEF r, zero, f
<1>5. r \in Encoders
  BY <1>4, SlabIs
<1>6. y.heap = r.heap
  BY <1>5, OkIs
<1>7. Len(Memory(r, v).b) = v.len
  BY <1>5, ViewIsLong
<1> HIDE DEF y, v
<1>8. Memory(y, v) = Memory(r, v)
  BY <1>6 DEF Memory
<1>9. AddsAView
  BY <1>1, <1>7, <1>8 DEF AddsAView
<1> QED
  BY <1>1, <1>9 DEF Steps

LEMMA NextSteps ==
  ASSUME IInv, [Next]_vars
  PROVE  Steps
<1>1. CASE \E i \in DOMAIN Fields(rt.kind) :
             LET f == Fields(rt.kind)[i]
             IN  Write(f) \/ WriteCollection(f) \/ \E reserve \in BOOLEAN : WriteTagged(f, reserve)
  <2>1. PICK i \in DOMAIN Fields(rt.kind) :
          \/ Write(Fields(rt.kind)[i])
          \/ WriteCollection(Fields(rt.kind)[i])
          \/ \E reserve \in BOOLEAN : WriteTagged(Fields(rt.kind)[i], reserve)
    BY <1>1
  <2>2. CASE Write(Fields(rt.kind)[i])
    BY <2>2, WroteSteps DEF Write
  <2>3. CASE WriteCollection(Fields(rt.kind)[i])
    BY <2>3, WriteCollectionSteps
  <2>4. CASE \E reserve \in BOOLEAN : WriteTagged(Fields(rt.kind)[i], reserve)
    BY <2>4, WroteSteps DEF WriteTagged
  <2> QED
    BY <2>1, <2>2, <2>3, <2>4
<1>2. CASE \E i \in DOMAIN Fields(rt.kind), j \in 0..Len(Fields(rt.kind)) :
             WriteItem(Object(i, j)) \/ WriteObject(Object(i, j))
  BY <1>2, WroteSteps DEF WriteItem, WriteObject
<1>3. CASE Finish
  BY <1>3, FinishSteps
<1>4. CASE Reset
  BY <1>4 DEF Reset, Steps, AddsAView
<1>5. CASE \E by \in LazyKinds : Open(by)
  BY <1>5 DEF Open, Steps, AddsAView
<1>6. CASE \E i \in DOMAIN asked : Touch(i)
  BY <1>6 DEF Touch, Steps, AddsAView
<1>7. CASE views # <<>> /\ \E d \in Readers, n \in 0..views[1].len, numbers \in NumberSets :
                             Deliver(d, n, numbers)
  <2>1. PICK d \in Readers, n \in 0..views[1].len, numbers \in NumberSets : Deliver(d, n, numbers)
    BY <1>7
  <2>2. got = None /\ rt' = rt /\ resets' = resets /\ views' = views
    BY <2>1 DEF Deliver
  <2> QED
    BY <2>1, <2>2 DEF Steps, AddsAView
<1>8. CASE UNCHANGED vars
  BY <1>8 DEF vars, Steps, AddsAView
<1> QED
  BY <1>1, <1>2, <1>3, <1>4, <1>5, <1>6, <1>7, <1>8 DEF Next

\* The first view goes on to show its message until the next reset.
LEMMA ViewShowsStep ==
  ASSUME CutInv, [Next]_vars, views' # <<>>
  PROVE  ViewShows(enc', resets', views'[1])
<1>1. IInv /\ IInv' /\ KeepsBytes /\ GivesTheMessage /\ Steps
  BY StepIs, NextSteps DEF CutInv
<1>2. /\ views \in Seq(ViewSet(rt.kind)) /\ Len(views) \in Nat /\ DOMAIN views = 1..Len(views)
      /\ resets \in Nat /\ (Len(views) = 0 => views = <<>>)
      /\ \A k \in 1..Len(views) : ViewOk(enc, resets, views[k])
  BY <1>1, SeqIs DEF IInv, ViewsOk
<1>3. ASSUME views # <<>>
      PROVE  ViewShows(enc', resets', views[1])
  <2> DEFINE v == views[1]
  <2>1. 1 \in DOMAIN views /\ ViewShows(enc, resets, v) /\ v.epoch \in Nat /\ v.epoch <= resets
    BY <1>2, <1>3 DEF CutInv, ViewOk
  <2>2. v.epoch = resets' =>
          v.epoch = resets /\ (Memory(enc', v) = Memory(enc, v) \/ Memory(enc', v).detached)
    BY <1>1, <1>2, <2>1 DEF KeepsBytes, Steps
  <2> HIDE DEF v
  <2>3. ViewShows(enc', resets', v)
    BY <2>1, <2>2 DEF ViewShows
  <2> QED
    BY <2>3 DEF v
<1>4. CASE views' = views
  BY <1>3, <1>4
<1>5. CASE views' # views
  <2>1. PICK v : views' = Append(views, v) /\ Len(Memory(enc', v).b) = v.len
    BY <1>1, <1>5 DEF Steps, AddsAView
  <2>2. CASE views # <<>>
    <3>1. views'[1] = views[1]
      BY <1>2, <2>1, <2>2
    <3> QED
      BY <1>3, <2>2, <3>1
  <2>3. CASE views = <<>>
    <3>1. views' = <<v>>
      BY <2>1, <2>3
    <3>2. views'[1] = v /\ Last(views') = v /\ Len(views') > Len(views)
      BY <2>3, <3>1 DEF Last
    <3>3. Faithful(v) => Memory(enc', v).b = Expected(v.asked)
      BY <1>1, <3>2 DEF GivesTheMessage
    <3> QED
      BY <2>1, <3>2, <3>3 DEF ViewShows
  <2> QED
    BY <2>2, <2>3
<1> QED
  BY <1>4, <1>5

\* The fields of an untagged runtime are those of its format.
LEMMA UntaggedFields ==
  ASSUME NEW runtime \in Runtimes, runtime.kind \notin {"hyper", "unsafe", "batch"},
         NEW f \in Items(runtime.kind)
  PROVE  IsWireField(f) /\ f \in FieldSet(runtime.kind) /\ ItemWire(runtime.kind, f) = OnWire(f)
<1> DEFINE kind == runtime.kind
<1>1. kind \in Kinds
  BY RuntimesAre
<1>2. f \in FieldSet(kind) /\ ItemWire(kind, f) = OnWire(f)
  BY DEF Items, ItemWire
<1>3. IsField(kind, f)
  BY <1>2, FieldSetIs
<1>4. TypesOf(kind) \subseteq WireTypes
  BY <1>1 DEF TypesOf, WireTypes, Kinds, Numeric
<1> HIDE DEF kind
<1>5. IsWireField(f)
  BY <1>3, <1>4 DEF IsField, IsWireField
<1> QED
  BY <1>2, <1>5 DEF kind

\* The front of a message shows it as far as it goes.
LEMMA FrontShows ==
  ASSUME NEW m \in Seq(Nat), NEW n \in 0..Len(m)
  PROVE  SubSeq(m, 1, n) \in Seq(Nat) /\ Len(SubSeq(m, 1, n)) = n /\ Shows(SubSeq(m, 1, n), 0, m)
<1> DEFINE b == SubSeq(m, 1, n)
<1>1. b \in Seq(Nat) /\ Len(b) = n /\ \A i \in 1..n : b[i] = m[i]
  OBVIOUS
<1> HIDE DEF b
<1>2. \A i \in 1..Len(m) : 0 + i <= Len(b) => b[0 + i] = m[i]
  BY <1>1
<1> QED
  BY <1>1, <1>2 DEF Shows, b

LEMMA DeliverCut ==
  ASSUME CutInv, LengthsFit, rt' = rt, NEW d, NEW n, NEW numbers, Deliver(d, n, numbers)
  PROVE  CutRefused'
<1> DEFINE v == views[1]
           m == Memory(enc, v).b
           b == SubSeq(m, 1, n)
           fields == v.asked
           ss == [i \in DOMAIN fields |-> ItemWire(rt.kind, fields[i])]
           r == IF d = "strings" THEN StringOffsets(b) ELSE Decoded(d, fields, b)
<1>1. /\ got = None /\ Len(views) = 1 /\ resets = v.epoch /\ v.arr = Len(enc.heap)
      /\ n = v.len \/ d \in Checked
      /\ n \in 0..v.len
      /\ d = "strings" => Readable("strings", fields)
      /\ d = "worker" => Len(asked) = 1 /\ asked[1].many /\ asked[1].t \in {"string", "int32"}
      /\ fields = asked /\ views' = views /\ rt' = rt
  BY DEF Deliver
<1>2. got'.n = n /\ (d \in Checked => got'.r = r)
  BY DEF Deliver, Checked
<1> SUFFICES ASSUME ~IsTagged, n < v.len, Faithful(v)
             PROVE  ~got'.r.ok
  BY <1>1, <1>2 DEF CutRefused, IsTagged, Faithful, FlatFields, Carried
<1>3. /\ rt \in Runtimes /\ enc \in Encoders /\ views \in Seq(ViewSet(rt.kind))
      /\ views # <<>> /\ ViewShows(enc, resets, v)
  <2>1. rt \in Runtimes /\ enc \in Encoders /\ views \in Seq(ViewSet(rt.kind))
    BY DEF CutInv, IInv, EncoderOk
  <2>2. Len(views) = 1
    BY <1>1
  <2>3. views # <<>>
    <3> HIDE DEF v, m, b, fields, ss, r
    <3> QED
      BY <2>2
  <2>4. ViewShows(enc, resets, v)
    BY <2>3 DEF CutInv
  <2> QED
    BY <2>1, <2>3, <2>4
<1>4. v \in ViewSet(rt.kind) /\ v.len \in Nat /\ fields \in Seq(Items(rt.kind))
  <2>1. views \in Seq(ViewSet(rt.kind)) /\ 1 \in 1..Len(views)
    BY <1>1, <1>3
  <2>2. v \in ViewSet(rt.kind)
    BY <2>1, SeqIs
  <2> HIDE DEF v
  <2>3. v.len \in Nat /\ v.asked \in Seq(Items(rt.kind))
    BY <2>2 DEF ViewSet
  <2> QED
    BY <2>2, <2>3 DEF v
<1>5. ~Memory(enc, v).detached
  BY <1>1, <1>3, EncoderIs, HeapIs DEF Memory
<1>6. Len(m) = v.len /\ m = MessageWire(rt.kind, fields)
  BY <1>1, <1>3, <1>5, ExpectedIs DEF ViewShows
<1>7. /\ ss \in Seq(Seq(Nat)) /\ Len(ss) = Len(fields) /\ m = FlattenSeq(ss) /\ m \in Seq(Nat)
      /\ \A i \in 1..Len(fields) : ss[i] = ItemWire(rt.kind, fields[i])
  BY <1>3, <1>4, <1>6, WiresAre
<1>8. Len(fields) \in Nat /\ DOMAIN fields = 1..Len(fields)
      /\ \A i \in 1..Len(fields) : fields[i] \in Items(rt.kind)
  BY <1>4, SeqIs
<1>9. \A i \in 1..Len(fields) :
        IsWireField(fields[i]) /\ FieldFits(fields[i]) /\ ss[i] = OnWire(fields[i])
  <2>1. rt.kind \notin {"hyper", "unsafe", "batch"}
    BY DEF IsTagged
  <2>2. \A f \in Items(rt.kind) :
          IsWireField(f) /\ FieldFits(f) /\ ItemWire(rt.kind, f) = OnWire(f)
    BY <1>3, <2>1, UntaggedFields DEF LengthsFit
  <2> HIDE DEF ss
  <2> QED
    BY <1>7, <1>8, <2>2
<1>10. d \in Checked /\ got'.r = r
  BY <1>1, <1>2, <1>4
<1>11. d = "strings" => Len(fields) = 1 /\ fields[1].many /\ fields[1].t = "string"
  BY <1>1 DEF Readable
<1>12. d = "worker" => Len(fields) = 1 /\ fields[1].many /\ fields[1].t \in {"string", "int32"}
  BY <1>1
<1> HIDE DEF ss, m, v, fields
<1>13. b \in Seq(Nat) /\ Len(b) = n /\ Shows(b, 0, m) /\ n < Len(m)
  BY <1>1, <1>6, <1>7, FrontShows
<1> HIDE DEF b, r
<1>14. ReadsWire(r, b, 0, m)
  <2>1. CASE d = "strings"
    <3> Len(fields) = 1
      BY <1>11, <2>1
    <3>1. 1 \in 1..Len(fields)
      OBVIOUS
    <3>2. ReadsWire(StringOffsets(b), b, 0, OnWire(fields[1]))
      BY <1>9, <1>11, <1>13, <2>1, <3>1, OffsetsEnd
    <3>3. m = OnWire(fields[1])
      <4>1. ss = <<ss[1]>> /\ ss[1] = OnWire(fields[1]) /\ ss[1] \in Seq(Nat)
        <5>1. ss \in Seq(Seq(Nat)) /\ Len(ss) = 1
          BY <1>7
        <5>2. ss = <<ss[1]>> /\ ss[1] \in Seq(Nat)
          BY <5>1
        <5>3. ss[1] = OnWire(fields[1])
          BY <1>9, <3>1
        <5> QED
          BY <5>2, <5>3
      <4>2. FlattenSeq(<<ss[1]>>) = ss[1]
        BY <4>1, FlattenOne
      <4> QED
        BY <1>7, <4>1, <4>2
    <3> QED
      BY <2>1, <3>2, <3>3 DEF r
  <2>2. CASE d # "strings"
    <3>1. d \in {"index", "browser", "hybrid", "worker"}
      BY <1>10, <2>2 DEF Checked
    <3>2. ASSUME NEW i \in 1..Len(fields)
          PROVE  Takes(d, fields[i])
      <4>1. CASE d = "worker"
        <5>1. Len(fields) = 1
          BY <1>12, <4>1
        <5>2. i = 1
          BY <5>1
        <5> QED
          BY <1>12, <4>1, <5>2 DEF Takes
      <4> QED
        BY <4>1 DEF Takes
    <3>3. ReadsWire(Decoded(d, fields, b), b, 0, FlattenSeq(ss))
      BY <1>7, <1>8, <1>9, <1>13, <3>1, <3>2, DecodedEnds
    <3> QED
      BY <1>7, <2>2, <3>3 DEF r
  <2> QED
    BY <2>1, <2>2
<1>15. r.ok => 0 + Len(m) <= n
  BY <1>13, <1>14 DEF ReadsWire, EndsAt
<1>16. Len(m) \in Nat /\ n \in Nat
  BY <1>1, <1>4, <1>6
<1> QED
  BY <1>10, <1>13, <1>15, <1>16

LEMMA CutInvHolds == ASSUME LengthsFit PROVE Spec => []CutInv
<1>1. Init => CutInv
  BY InitIs DEF CutInv, CutRefused, Init
<1>2. ASSUME CutInv, [Next]_vars
      PROVE  CutInv'
  <2>1. IInv' /\ Steps
    BY <1>2, StepIs, NextSteps DEF CutInv
  <2>2. (views # <<>> => ViewShows(enc, resets, views[1]))'
    <3>1. ASSUME views' # <<>>
          PROVE  ViewShows(enc', resets', views'[1]) /\ rt' = rt
      BY <1>2, <2>1, <3>1, ViewShowsStep DEF Steps
    <3> QED
      BY <2>1, <3>1 DEF Steps, ViewShows, Faithful, Carried, FlatFields, Expected, TaggedFields
  <2>3. CutRefused'
    <3>1. CASE \E d, n, numbers : Deliver(d, n, numbers)
      BY <1>2, <2>1, <3>1, DeliverCut DEF Steps
    <3>2. CASE got' = None
      BY <3>2 DEF CutRefused
    <3>3. CASE got' = got /\ got' # None
      <4>1. rt' = rt /\ views' = views
        BY <2>1, <3>3 DEF Steps
      <4> QED
        BY <1>2, <3>3, <4>1 DEF CutInv, CutRefused, IsTagged, Faithful, Carried, FlatFields
    <3> QED
      BY <2>1, <3>1, <3>2, <3>3 DEF Steps
  <2> QED
    BY <2>1, <2>2, <2>3 DEF CutInv
<1> QED
  BY <1>1, <1>2, PTL DEF Spec

\* A message that lost its end is refused by each decoder that checks for it
\* (those of index.ts and browser.ts, the hybrid one, the worker and its scan for
\* the texts of a list), wherever it was cut, whatever fields, values and sizes it
\* has: no length, count or value read from its front is taken for another one.
THEOREM CutRefusedHolds == ASSUME LengthsFit PROVE Spec => []CutRefused
<1>1. CutInv => CutRefused
  BY DEF CutInv
<1> QED
  BY <1>1, CutInvHolds, PTL
=============================================================================
