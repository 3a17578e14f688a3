----------------------------- MODULE TsRuntimes -----------------------------
(***************************************************************************)
(* One encoder of runtime/ts/src in use, of any of its runtimes: values    *)
(* are written, finish() gives views of the array in use, and writing goes *)
(* on, grows the array, or starts again at its front, while a view is      *)
(* delivered to a decoder or held by a reader that decodes on demand.      *)
(*                                                                         *)
(* rt.kind is index, browser, node or hybrid (Encoder, HybridEncoder), jit *)
(* or browser_jit (a compiled encoder and its slab), hyper, unsafe, batch  *)
(* (batchEncode) or collections.                                           *)
(***************************************************************************)
EXTENDS TsTagged, TsLazy

CONSTANTS
  Runtimes,        \* runtimes, as TsWriters has them
  Pairs,           \* which decoders, <<kind, decoder>>, are given its messages
  Fields(_),       \* by kind: the fields a program writes, a sequence
  InitialSize(_),  \* by kind: the size of the first array
  MaxWrites, MaxViews, MaxResets,  \* bounds of a run
  None             \* no reader, nothing delivered

\* The values that a field of type t, or an element of it, may have.  A number need
\* not fit its type, but for a sint32; of a text that is no Base64, the bytes of the
\* groups of four characters before the one that is wrong.
ValuesOf(t) ==
  CASE t = "bool" -> BOOLEAN
    [] t = "sint32" -> LET half == Base^SizeInt32 \div 2 IN -half .. half - 1
    [] IsFixed(t) /\ t # "bool" -> Int
    [] t = "string" -> Seq(0..Replaced)
    [] t = "pair" -> Seq(0..Replaced) \X Seq(0..Replaced)
    [] t \in {"bytes", "message", "base64"} -> Seq(Bytes)
    [] t = "not_base64" -> {b \in Seq(Bytes) : Len(b) % 3 = 0}

Numeric == {"bool", "int32", "int64", "uint32", "uint64", "float32", "float64"}

\* The types of the fields that each runtime can be given.
TypesOf(kind) ==
  CASE kind \in {"index", "browser"} ->
         Numeric \cup {"string", "bytes", "message", "base64", "not_base64", "pair"}
    [] kind \in {"node", "hybrid"} -> Numeric \cup {"string", "bytes", "message", "pair"}
    [] kind \in {"jit", "browser_jit"} -> Numeric \cup {"string", "bytes"}
    [] kind \in {"hyper", "batch"} ->
         {"bool", "sint32", "int32", "float32", "float64", "string", "bytes"}
    [] kind = "unsafe" -> (Numeric \ {"int32"}) \cup {"sint32", "string", "bytes"}
    [] kind = "collections" -> {"string", "int32", "pair"}

\* bigints of unsafe.ts, out of the range of their type by one bit at most, and as
\* negative as Number(v) still holds.
UnsafeSize(f) ==
  /\ f.t = "int64" => f.v \in -(Base^SizeInt64) .. Base^SizeInt64 - 1
  /\ f.t = "uint64" => f.v >= -(Base^6)

IsField(kind, f) ==
  /\ f.n \in Nat /\ f.t \in TypesOf(kind) /\ f.many \in BOOLEAN
  /\ kind \in {"browser_jit", "hyper", "batch", "unsafe"} => ~f.many
  /\ kind = "collections" => f.many
  /\ kind = "unsafe" => UnsafeSize(f)
  /\ IF f.many THEN f.v \in Seq(ValuesOf(f.t)) ELSE f.v \in ValuesOf(f.t)

Kinds == {"index", "browser", "node", "hybrid", "jit", "browser_jit", "hyper", "unsafe",
          "batch", "collections"}

ASSUME TsRuntimesAssumption ==
  /\ Runtimes \subseteq [kind : Kinds, transfer : BOOLEAN, base64 : BOOLEAN, buffer : BOOLEAN]
  /\ \A r \in Runtimes :
       /\ InitialSize(r.kind) \in Nat
       /\ Len(Fields(r.kind)) \in Nat /\ DOMAIN Fields(r.kind) = 1..Len(Fields(r.kind))
       /\ \A i \in DOMAIN Fields(r.kind) : IsField(r.kind, Fields(r.kind)[i])
  /\ MaxWrites \in Nat /\ MaxViews \in Nat /\ MaxResets \in Nat

VARIABLES
  rt,      \* the runtime
  enc,     \* its encoder
  asked,   \* the fields (of a batch: the items) written since the last reset
  whole,   \* none of them failed halfway, or found the array full
  views,   \* what finish() gave: [arr, len, asked, whole, epoch]
  resets,  \* how often the front of the array was written anew
  writes,  \* how many fields were written
  reader,  \* a reader on demand, [by, view, offsets, cache], or None
  got      \* what a decoder made of the last view, [by, n, known, r], or None

vars == <<rt, enc, asked, whole, views, resets, writes, reader, got>>

\* These grow the array before every write, if need be.
Growing == rt.kind \in {"index", "browser", "node", "hybrid"}
IsTagged == rt.kind \in {"hyper", "unsafe", "batch"}

Values(fields) == [i \in DOMAIN fields |-> fields[i].v]

TaggedFields(fields) == FlattenSeq([i \in DOMAIN fields |-> Tagged(rt.kind, fields[i])])

\* The bytes of a message, as its format has them.
Expected(message) ==
  FlattenSeq([i \in DOMAIN message |->
    CASE rt.kind = "batch" -> LET item == TaggedFields(message[i])
                              IN  FixedBytes("uint32", Len(item)) \o item
      [] rt.kind \in {"hyper", "unsafe"} -> Tagged(rt.kind, message[i])
      [] OTHER -> OnWire(message[i])])

Memory(e, view) ==
  LET array == e.heap[view.arr]
  IN  [b |-> SubSeq(array.cells, 1, Min({view.len, Len(array.cells)})), detached |-> array.detached]

\* The objects of one field, and of two.
Object(i, j) ==
  IF j = 0 THEN <<Fields(rt.kind)[i]>> ELSE <<Fields(rt.kind)[i], Fields(rt.kind)[j]>>

-----------------------------------------------------------------------------
Init ==
  /\ rt \in Runtimes
  /\ enc = NewEncoder(InitialSize(rt.kind))
  /\ asked = <<>> /\ whole = TRUE
  /\ views = <<>> /\ resets = 0 /\ writes = 0
  /\ reader = None /\ got = None

\* A call of n fields made the encoder r; fits tells whether the array had room
\* for them.  When it throws, the caller may go on with other values.
Wrote(r, fits, added, n) ==
  /\ got = None /\ writes + n <= MaxWrites
  /\ enc' = [r EXCEPT !.ok = TRUE]
  /\ asked' = IF r.ok THEN asked \o added ELSE asked
  /\ whole' = (whole /\ IF r.ok THEN fits ELSE r.pos = enc.pos)
  /\ writes' = writes + n
  /\ UNCHANGED <<rt, views, resets, reader, got>>

Fits(message) == enc.pos + Len(Expected(message)) <= Room(enc)

Write(f) ==
  \/ rt.kind \in {"index", "browser", "node"} /\ Wrote(WriteField(enc, rt, f), TRUE, <<f>>, 1)
  \/ rt.kind = "hybrid" /\ Wrote(HybridField(enc, rt, f), TRUE, <<f>>, 1)

\* With or without a call of g or ensureCapacity before it.  writeString of
\* unsafe.ts calls ensureCapacity, after the tag is written.
WriteTagged(f, reserve) ==
  LET needed == Len(Tagged(rt.kind, f))
      e == IF reserve THEN EnsureCapacity(enc, FALSE, needed) ELSE enc
      r == IF rt.kind = "hyper" THEN HyperField(e, f) ELSE UnsafeField(e, f)
      tagFits == enc.pos + Len(Varint[f.n * TagRadix + WireType(f.t)]) <= Room(e)
  IN  rt.kind \in {"hyper", "unsafe"}
        /\ Wrote(r, tagFits /\ enc.pos + needed <= Room(r), <<f>>, 1)

\* batchEncode has its own encoder, and loses it when a call throws.
WriteItem(fields) ==
  /\ rt.kind = "batch" /\ views = <<>> /\ BatchItem(enc, fields).ok
  /\ Wrote(BatchItem(enc, fields), Fits(<<fields>>), <<fields>>, Len(fields))

WriteObject(fields) ==
  /\ rt.kind \in {"jit", "browser_jit"}
  /\ Wrote(JitEncode(enc, rt, fields), Fits(fields), fields, Len(fields))

View(e, message, isWhole, epoch) ==
  [arr |-> Len(e.heap), len |-> Min({e.pos, Room(e)}),
   asked |-> message, whole |-> isWhole, epoch |-> epoch]

\* Mutant: the next message starts at the front, without a reset.
FinishRestarts ==
  /\ got = None /\ asked # <<>> /\ Len(views) < MaxViews
  /\ views' = Append(views, View(enc, asked, whole, resets))
  /\ enc' = [enc EXCEPT !.pos = 0]
  /\ UNCHANGED <<rt, asked, whole, resets, writes, reader, got>>

\* finish() and f(): a view, clipped to the array.
Finish ==
  /\ got = None /\ asked # <<>> /\ Len(views) < MaxViews /\ rt.kind # "collections"
  /\ views' = Append(views, View(enc, asked, whole, resets))
  /\ UNCHANGED <<rt, enc, asked, whole, resets, writes, reader, got>>

\* reset(), r(), and acquireEncoder of an encoder that was released.
Reset ==
  /\ got = None /\ resets < MaxResets /\ asked # <<>>
  /\ rt.kind \notin {"batch", "collections"}
  /\ enc' = [enc EXCEPT !.pos = 0]
  /\ asked' = <<>> /\ whole' = TRUE /\ resets' = resets + 1
  /\ UNCHANGED <<rt, views, writes, reader, got>>

\* Each call of collections.ts resets the slab, encodes, and gives a view.
WriteCollection(f) ==
  LET r == CollectionEncode(enc, f)
      fits == Len(OnWire(f)) <= Room(r)
  IN  /\ rt.kind = "collections"
      /\ got = None /\ writes < MaxWrites /\ Len(views) < MaxViews
      /\ enc' = [r EXCEPT !.ok = TRUE]
      /\ asked' = <<f>> /\ whole' = fits
      /\ resets' = resets + 1 /\ writes' = writes + 1
      /\ views' = IF r.ok THEN Append(views, View(r, <<f>>, fits, resets + 1)) ELSE views
      /\ UNCHANGED <<rt, reader, got>>

-----------------------------------------------------------------------------
(* Readers of the first message.                                           *)

Open(by) ==
  /\ got = None /\ reader = None /\ Len(views) = 1 /\ resets = views[1].epoch
  /\ ~IsTagged /\ ~Memory(enc, views[1]).detached /\ Readable(by, views[1].asked)
  /\ LET offsets == Offsets(by, views[1].asked, Memory(enc, views[1]).b)
     IN  /\ offsets.ok
         /\ reader' = [by |-> by, view |-> 1, offsets |-> offsets.v,
                       cache |-> [i \in DOMAIN offsets.v |-> <<>>]]
  /\ UNCHANGED <<rt, enc, asked, whole, views, resets, writes, got>>

\* The text getter of an accessor keeps what it read, but not "" for a text
\* that it does not read.
Touch(i) ==
  /\ got = None /\ reader # None /\ reader.by = "accessor"
  /\ i \in DOMAIN reader.cache /\ reader.cache[i] = <<>>
  /\ LET fields == views[reader.view].asked
         m == Memory(enc, views[reader.view])
         p == reader.offsets[i]
     IN  /\ HasGetter(fields, i) /\ fields[i].t = "string"
         /\ p < Len(m.b) /\ m.b[p + 1] # CompactLengthMarker
         /\ reader' = [reader EXCEPT !.cache[i] = <<AccessorText(m, p), resets>>]
  /\ UNCHANGED <<rt, enc, asked, whole, views, resets, writes, got>>

Checked == {"index", "browser", "hybrid", "strings", "worker"}

\* A view, just made, goes to decoder d: all of it, or its first n bytes where d
\* checks for the end.  A tagged decoder knows the fields of some numbers.  What
\* a decoder does changes nothing else, and nothing need follow.
Deliver(d, n, numbers) ==
  LET view == views[1]
      b == SubSeq(Memory(enc, view).b, 1, n)
      known == SelectSeq(IF rt.kind = "batch" THEN FlattenSeq(view.asked) ELSE view.asked,
                         LAMBDA f : f.n \in numbers)
  IN  /\ got = None /\ Len(views) = 1 /\ resets = view.epoch /\ reader = None
      /\ view.arr = Len(enc.heap) /\ view.asked = asked
      /\ <<rt.kind, d>> \in Pairs
      /\ n = view.len \/ d \in Checked
      /\ n \in 0..view.len
      /\ d = "browser_jit" => \A i \in DOMAIN asked : ~asked[i].many
      /\ d = "strings" => Readable("strings", view.asked)
      /\ d = "collections" => Len(asked) = 1 /\ asked[1].many
                              /\ asked[1].t \in {"string", "int32", "pair"}
      /\ d \in {"worker", "node_worker"} =>
           Len(asked) = 1 /\ asked[1].many /\ asked[1].t \in {"string", "int32"}
      /\ got' = [by |-> d, n |-> n, known |-> known,
                 r |-> CASE d = "batch" -> BatchDecoded(known, b)
                         [] d \in {"hyper", "unsafe"} -> TaggedDecoded(d, known, b)
                         [] d = "strings" -> StringOffsets(b)
                         [] OTHER -> Decoded(d, view.asked, b)]
      /\ UNCHANGED <<rt, enc, asked, whole, views, resets, writes, reader>>

\* The decoders that get the messages of this encoder.
Readers == {pair[2] : pair \in {p \in Pairs : p[1] = rt.kind}}

NumberSets == IF IsTagged THEN SUBSET {0, 1, 2} ELSE {{0, 1, 2}}

Next ==
  \/ \E i \in DOMAIN Fields(rt.kind) :
       LET f == Fields(rt.kind)[i]
       IN  Write(f) \/ WriteCollection(f) \/ \E reserve \in BOOLEAN : WriteTagged(f, reserve)
  \/ /\ rt.kind \in {"batch", "jit", "browser_jit"}
     /\ \E i \in DOMAIN Fields(rt.kind), j \in 0..Len(Fields(rt.kind)) :
          WriteItem(Object(i, j)) \/ WriteObject(Object(i, j))
  \/ Finish \/ Reset
  \/ \E by \in LazyKinds : Open(by)
  \/ \E i \in DOMAIN asked : Touch(i)
  \/ /\ got = None
     /\ views # <<>>
     /\ \E d \in Readers, n \in 0..views[1].len, numbers \in NumberSets :
          Deliver(d, n, numbers)

Spec == Init /\ [][Next]_vars

-----------------------------------------------------------------------------
(* What the runtimes carry, and what each decoder makes of it.             *)

Scalars(f) == IF f.many THEN Range(f.v) ELSE {f.v}

Texts(f) ==
  CASE f.t = "string" -> Scalars(f)
    [] f.t = "pair" -> UNION {{v[1], v[2]} : v \in Scalars(f)}
    [] OTHER -> {}

FlatFields(view) == IF rt.kind = "batch" THEN FlattenSeq(view.asked) ELSE view.asked

Short(s) == Len(Utf8(s)) <= CompactLengthThreshold
BeginsWithFEFF(s) == s # <<>> /\ s[1] = FEFF

\* Fields that the writer of this runtime puts into its format.
Carried(f) ==
  /\ rt.kind \in {"jit", "browser_jit"} =>
       f.t \notin {"bytes", "message", "base64"} /\ \A s \in Texts(f) : Short(s)
  /\ rt.kind = "collections" => \A s \in Texts(f) : Short(s) /\ IsAscii(s)
  /\ f.t = "sint32" => Zigzag(f.v) < Base^SizeInt32 \div 2
  /\ rt.kind = "unsafe" /\ f.t \in {"int64", "uint64"} => InRange(f.t, f.v)
  /\ rt.kind \in {"hyper", "batch"} => f.n <= 1

Faithful(view) == view.whole /\ \A i \in DOMAIN FlatFields(view) : Carried(FlatFields(view)[i])

\* Those that put an int64 together from unsigned halves.
ReadsUnsigned(d, t) ==
  t = "int64" /\ d \in {"browser", "jit", "jit_plain", "jit_browser", "browser_jit"}

\* Fields that decoder d gives back as they were.
Understood(d, f) ==
  /\ \A v \in Scalars(f) : InRange(f.t, v) /\ (ReadsUnsigned(d, f.t) => v >= 0)
  /\ d \in {"jit", "jit_plain", "jit_browser", "browser_jit"} =>
       f.t \notin {"bytes", "message", "base64", "pair"}
  /\ d = "jit_plain" => Texts(f) = {}
  /\ d \notin {"node", "jit", "node_worker"} => \A s \in Texts(f) : ~BeginsWithFEFF(s)
  /\ d = "jit_browser" /\ f.many /\ f.t = "string" =>
       \A k \in DOMAIN f.v : Len(Utf8(f.v[k])) < ShortRead => Scanned(Utf8(f.v[k])) = k - 1
  /\ d = "browser_jit" => \A s \in Texts(f) : Len(Utf8(s)) <= LatinLimit => IsAscii(s)
  /\ d = "collections" => \A s \in Texts(f) : Short(s) /\ (f.t = "pair" => IsAscii(s))

-----------------------------------------------------------------------------
\* The types of the variables: arrays hold bytes, only an array that was outgrown
\* is detached, and an encoder that grows has room for what it wrote.
TypeOK ==
  /\ \A k \in DOMAIN enc.heap : Range(enc.heap[k].cells) \subseteq Bytes
  /\ \A k \in DOMAIN enc.heap : enc.heap[k].detached => k < Len(enc.heap)
  /\ enc.ok /\ enc.pos \in Nat /\ (Growing => enc.pos <= Room(enc))
  /\ whole \in BOOLEAN /\ resets \in Nat /\ writes \in 0..MaxWrites
  /\ \A k \in DOMAIN views : views[k].arr \in DOMAIN enc.heap /\ views[k].epoch <= resets
  /\ reader # None => reader.by \in LazyKinds /\ reader.view \in DOMAIN views
  /\ got # None => views # <<>> /\ got.n \in 0..views[1].len

\* Whatever was thrown, outgrown or reset before, finish() gives the bytes of the
\* fields whose writes returned, unless one of them failed halfway or lost bytes
\* at the end of an array that does not grow (docs/WIRE_FORMAT.md, and the tagged
\* format of hyper.ts and unsafe.ts).
FinishIsTheMessage ==
  [][Len(views') > Len(views) /\ Faithful(Last(views')) =>
       Memory(enc', Last(views')).b = Expected(Last(views').asked)]_vars

\* Until the next reset, a view that finish() gave keeps its bytes whatever is
\* written after it, or is detached by transfer() (index.ts:97): it never shows
\* other bytes.
ViewsKeepTheirBytes ==
  [][\A k \in DOMAIN views : views[k].epoch = resets' =>
       Memory(enc', views[k]) = Memory(enc, views[k]) \/ (rt.transfer /\ Memory(enc', views[k]).detached)]_vars

\* Of a whole message, every decoder gives back the values written exactly when it
\* understands each of the fields: the runtimes of one format agree, but for the
\* kinds of values named in Understood.
DecodersAgree ==
  got # None /\ ~IsTagged /\ got.by # "strings" /\ got.n = views[1].len /\ Faithful(views[1]) =>
    ((got.r.ok /\ got.r.v = Values(views[1].asked)) <=>
       \A i \in DOMAIN views[1].asked : Understood(got.by, views[1].asked[i]))

\* A message that lost its end is refused by each decoder that checks for it,
\* wherever it was cut.
CutRefused ==
  got # None /\ ~IsTagged /\ got.n < views[1].len /\ Faithful(views[1]) => ~got.r.ok

KnownOf(fields) ==
  SelectSeq(fields, LAMBDA f : \E k \in DOMAIN got.known : got.known[k].n = f.n)

\* Fields of one number are of one type: those of a schema.
OfOneSchema(fields) ==
  \A i, j \in DOMAIN fields : fields[i].n = fields[j].n => fields[i].t = fields[j].t

\* hyper.ts skips a text or bytes to a place inside of it (hyper.ts:212), and
\* TextDecoder drops a leading U+FEFF.
Skippable(fields) ==
  /\ OfOneSchema(fields)
  /\ rt.kind # "unsafe" => \A i \in DOMAIN fields :
       WireType(fields[i].t) = 2 => \E k \in DOMAIN got.known : got.known[k].n = fields[i].n
  /\ rt.kind = "unsafe" => \A i \in DOMAIN fields : \A s \in Texts(fields[i]) : ~BeginsWithFEFF(s)

\* A reader of a tagged message that knows some of its fields gets their values,
\* in order, past those it skips; and batches give back their items.
TaggedRoundTrip ==
  got # None /\ IsTagged /\ Faithful(views[1]) /\ Skippable(FlatFields(views[1])) =>
    /\ got.r.ok
    /\ got.r.v = IF rt.kind = "batch"
                 THEN [i \in DOMAIN views[1].asked |-> Values(KnownOf(views[1].asked[i]))]
                 ELSE Values(KnownOf(views[1].asked))

\* A reader of hyper.ts gets the values of the fields it knows ("Int32 varint
\* zigzag", hyper.ts:63), and past the others ("Skip by wire type", hyper.ts:207).
HyperFieldsComeBack ==
  got # None /\ got.by = "hyper" /\ views[1].whole /\ OfOneSchema(views[1].asked)
    /\ (\A i \in DOMAIN views[1].asked :
          LET f == views[1].asked[i]
          IN  f.n <= 1 /\ (f.t = "sint32" => InRange("int32", f.v))) =>
      got.r.ok /\ got.r.v = Values(KnownOf(views[1].asked))

\* Lists of texts come back as they were ("int32 count + elements", jit.ts:261).
ListsKeepTheirElements ==
  got # None /\ got.by = "jit_browser" /\ Faithful(views[1])
    /\ (\A i \in DOMAIN views[1].asked : views[1].asked[i].t = "string" /\ views[1].asked[i].many
                                           /\ Understood("index", views[1].asked[i])) =>
      got.r.ok /\ got.r.v = Values(views[1].asked)

\* A text decoded on demand, as the reader offers it.
Offered(i) ==
  LET f == views[reader.view].asked[i]
  IN  /\ Understood("index", f)
      /\ reader.by = "accessor" =>
           HasGetter(views[reader.view].asked, i) /\ \A s \in Texts(f) : Short(s)

\* A reader on demand gives what was written for as long as nothing was reset,
\* fails once transfer() has taken its buffer (but an accessor, which gives the
\* values of no bytes), and an accessor keeps a text it read in time.
LazyAgrees ==
  reader # None /\ Faithful(views[reader.view]) =>
    LET view == views[reader.view]
        m == Memory(enc, view)
        list == reader.by \in {"lazy_array", "strings"}
    IN  \A i \in DOMAIN reader.offsets :
          LET g == Get(reader, view.asked, m, i)
              value == IF list THEN view.asked[1].v[i] ELSE view.asked[i].v
              offered == Offered(IF list THEN 1 ELSE i)
              inTime == reader.cache[i] # <<>> /\ reader.cache[i][2] = view.epoch
          IN  /\ offered /\ (inTime \/ (view.epoch = resets /\ ~m.detached)) =>
                   g.ok /\ g.v = value
              /\ m.detached /\ reader.by \in {"lazy", "lazy_array", "strings"} => ~g.ok
=============================================================================
