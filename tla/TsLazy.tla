------------------------------- MODULE TsLazy -------------------------------
(***************************************************************************)
(* Readers that keep the buffer and decode on demand: LazyDecoder and      *)
(* LazyArrayDecoder (lazy.ts), StringArrayView and AccessorView (view.ts), *)
(* and the class that compileAccessor of browser.ts makes.                 *)
(*                                                                         *)
(* A reader is made from the bytes b and keeps offsets; Get reads what is  *)
(* in the buffer then, which may be detached: m is [b, detached].          *)
(***************************************************************************)
EXTENDS TsReaders

LazyKinds == {"lazy", "lazy_array", "strings", "object_view", "accessor"}

From(b, p) == SubSeq(b, p + 1, Len(b))

\* Mutant: a length is one byte.
ScanFieldShort(t, b, p) ==
  IF IsFixed(t) THEN Got(p, p + Width(t))
  ELSE IF p >= Len(b) THEN Failed ELSE Got(p, p + 1 + b[p + 1])

\* Where the field after the one at p starts: scan skips it by its width or
\* its length.
ScanField(t, b, p) ==
  IF IsFixed(t) THEN Got(p, p + Width(t)) ELSE Read(ReadBytesAt(b, p), LAMBDA s : p)

\* Offsets of the fields of types ts, the first one at p.
Scan(ts, b, p) == ReadEach(ts, p, LAMBDA t, q : ScanField(t, b, q))

Types(fields) == [i \in DOMAIN fields |-> fields[i].t]

\* An object of a list: its fields are those of an entry, or one.
ItemTypes(t) == IF t = "pair" THEN <<"string", "string">> ELSE <<t>>

\* The offsets of the objects, once the count is read.
ScanItems(t, b) ==
  Then(ReadFixedAt(b, 0, SizeInt32), LAMBDA w, p :
    IF FromWord("int32", w) < 0 THEN Failed
    ELSE ReadEach([j \in 1..w |-> j], p, LAMBDA j, q :
           Then(Scan(ItemTypes(t), b, q), LAMBDA offsets, r : Got(offsets[1], r))))

\* The constructor of StringArrayView, with the budget of its caller.
StringOffsets(b) ==
  ReadMany(ReadArrayCountAt(b, 0, 1), LAMBDA q : Read(ReadBytesAt(b, q), LAMBDA s : q))

\* Which messages each reader is for.
Readable(by, fields) ==
  CASE by \in {"lazy", "accessor"} ->
         \A i \in DOMAIN fields : ~fields[i].many /\ (IsFixed(fields[i].t) \/ fields[i].t = "string")
    [] by = "object_view" ->
         \A i \in DOMAIN fields : ~fields[i].many /\ fields[i].t \in {"bool", "int32", "float64", "string"}
    [] by = "lazy_array" ->
         Len(fields) = 1 /\ fields[1].many /\ (IsFixed(fields[1].t) \/ fields[1].t \in {"string", "pair"})
    [] by = "strings" -> Len(fields) = 1 /\ fields[1].many /\ fields[1].t = "string"

Offsets(by, fields, b) ==
  CASE by = "strings" -> StringOffsets(b)
    [] by = "lazy_array" -> ScanItems(fields[1].t, b)
    [] OTHER -> Scan(Types(fields), b, 0)

-----------------------------------------------------------------------------
\* A proxy makes a Decoder on what follows the offset, which fails when the
\* buffer is detached.
LazyGet(t, m, p) ==
  IF m.detached THEN Failed ELSE ReadScalar("index", t, From(m.b, p), 0)

\* get of LazyArrayDecoder scans the object anew.
LazyArrayGet(t, m, p) ==
  IF m.detached THEN Failed
  ELSE Then(Scan(ItemTypes(t), m.b, p), LAMBDA offsets, q :
         Read(ReadEach([i \in DOMAIN offsets |-> i], 0, LAMBDA i, r :
                Read(LazyGet(ItemTypes(t)[i], m, offsets[i]), LAMBDA v : v)),
              LAMBDA vs : IF t = "pair" THEN vs ELSE vs[1]))

\* get of StringArrayView decodes what subarray leaves of the text.
StringGet(m, p) ==
  IF m.detached THEN Failed ELSE Read(JitBytes(m.b, p), TextDecoded)

\* getBool reads an element, which is undefined when the buffer is detached,
\* getInt32 and getFloat64 use a DataView, and getString checks its bounds.
ObjectViewGet(t, m, p) ==
  CASE t = "bool" -> Got(p >= Len(m.b) \/ m.b[p + 1] # 0, p)
    [] IsFixed(t) /\ t # "bool" -> ReadFixed(t, m.b, p)
    [] t = "string" -> Read(ReadBytesAt(m.b, p), TextDecoded)

\* A field has a getter if it is of one of five types and no text, nor a
\* float32, comes before it.
HasGetter(fields, i) ==
  /\ fields[i].t \in {"bool", "int32", "uint32", "float64", "string"}
  /\ \A j \in 1..i - 1 : fields[j].t \notin {"string", "float32"}

\* A long text is read as "", as is one whose buffer is detached.
AccessorText(m, p) ==
  IF p >= Len(m.b) \/ m.b[p + 1] = CompactLengthMarker THEN <<>>
  ELSE TextDecoded(Clipped(m.b, p + 1, m.b[p + 1]))

\* cached: <<>>, or the text read before.
AccessorGet(fields, i, m, p, cached) ==
  CASE ~HasGetter(fields, i) -> Got(Nothing, p)
    [] HasGetter(fields, i) /\ fields[i].t # "string" -> JitFixed(fields[i].t, m.b, p)
    [] HasGetter(fields, i) /\ fields[i].t = "string" ->
         Got(IF cached # <<>> THEN cached[1] ELSE AccessorText(m, p), p)

\* The ith field, or element, that reader r finds in m.
Get(r, fields, m, i) ==
  CASE r.by = "lazy" -> LazyGet(fields[i].t, m, r.offsets[i])
    [] r.by = "lazy_array" -> LazyArrayGet(fields[1].t, m, r.offsets[i])
    [] r.by = "strings" -> StringGet(m, r.offsets[i])
    [] r.by = "object_view" -> ObjectViewGet(fields[i].t, m, r.offsets[i])
    [] r.by = "accessor" -> AccessorGet(fields, i, m, r.offsets[i], r.cache[i])
=============================================================================
