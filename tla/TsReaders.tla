----------------------------- MODULE TsReaders ------------------------------
(***************************************************************************)
(* The untagged decoders of runtime/ts/src: the Decoder classes of         *)
(* index.ts, browser.ts and node.ts, HybridDecoder, the decoders that      *)
(* jit.ts compiles for Node, given the bytes in a Buffer ("jit") or in     *)
(* another Uint8Array ("jit_plain"), and for browsers ("jit_browser") and  *)
(* browser.ts ("browser_jit"), collections.ts, and the decoders of the     *)
(* workers ("worker", "node_worker").                                      *)
(*                                                                         *)
(* A reader gives Got(value, cursor) or Failed.  index.ts and browser.ts   *)
(* check every read against the end of the data, as the helpers of Wire    *)
(* do; node.ts, which does not, is given whole messages only, of which its *)
(* reads give the same, and so is collections.ts.                          *)
(***************************************************************************)
EXTENDS TsText

Read(r, F(_)) == Then(r, LAMBDA v, p : Got(F(v), p))

ReadFixed(t, b, p) == Read(ReadFixedAt(b, p, Width(t)), LAMBDA w : FromWord(t, w))

\* BigInt(lo >>> 0) | (BigInt(hi >>> 0) << 32n) of a word is never negative.
JoinedHalves(w) == (w % Base^SizeInt32) + (w \div Base^SizeInt32) * Base^SizeInt32

BrowserReadFixed(t, b, p) ==
  Read(ReadFixedAt(b, p, Width(t)),
       LAMBDA w : IF t \in {"int64", "uint64"} THEN JoinedHalves(w) ELSE FromWord(t, w))

\* Short ASCII text is put together unit by unit, other text by a TextDecoder.
ShortOrDecoded(b) == IF Len(b) < ShortRead /\ IsAscii(b) THEN b ELSE TextDecoded(b)

\* Units are bytes: right for ASCII.
LatinText(b) == b

ReadString(b, p) == Read(ReadBytesAt(b, p), ShortOrDecoded)

IndexRead(t, b, p) ==
  CASE IsFixed(t) -> ReadFixed(t, b, p)
    [] t = "string" -> ReadString(b, p)
    [] t = "pair" -> ReadPair(ReadString(b, p), LAMBDA q : ReadString(b, q))
    [] OTHER -> ReadBytesAt(b, p)

BrowserRead(t, b, p) ==
  CASE IsFixed(t) -> BrowserReadFixed(t, b, p)
    [] t = "string" -> ReadString(b, p)
    [] t = "pair" -> ReadPair(ReadString(b, p), LAMBDA q : ReadString(b, q))
    [] OTHER -> ReadBytesAt(b, p)

NodeReadString(b, p) == Read(ReadBytesAt(b, p), Utf8Text)

NodeRead(t, b, p) ==
  CASE IsFixed(t) -> ReadFixed(t, b, p)
    [] t = "string" -> NodeReadString(b, p)
    [] t = "pair" -> ReadPair(NodeReadString(b, p), LAMBDA q : NodeReadString(b, q))
    [] OTHER -> ReadBytesAt(b, p)

ReadScalar(d, t, b, p) ==
  CASE d = "index" -> IndexRead(t, b, p) [] d = "browser" -> BrowserRead(t, b, p)
    [] d = "node" -> NodeRead(t, b, p)

\* readArrayCount with the budget of the caller, then the elements.
ReadArray(d, t, b, p) ==
  ReadMany(ReadArrayCountAt(b, p, MinBytes(t)), LAMBDA q : ReadScalar(d, t, b, q))

ReadField(d, f, b, p) ==
  IF f.many THEN ReadArray(d, f.t, b, p) ELSE ReadScalar(d, f.t, b, p)

\* HybridDecoder calls index.ts.
HybridRead(f, b, p) == ReadField("index", f, b, p)

-----------------------------------------------------------------------------
(* Compiled decoders.  They read past the end, where a byte is undefined,  *)
(* as a number 0.                                                          *)

Clipped(b, p, n) == SubSeq(b, p + 1, Min({p + n, Len(b)}))

JitFixed(t, b, p) ==
  LET w == [i \in 1..Width(t) |-> IF p + i \in DOMAIN b THEN b[p + i] ELSE 0]
  IN  CASE t = "bool" /\ p >= Len(b) -> Got(TRUE, p + 1)
        [] IsFloat(t) /\ p + Width(t) > Len(b) -> Failed
        [] OTHER -> Then(BrowserReadFixed(t, w, 0), LAMBDA v, q : Got(v, p + q))

\* Mutant: no long form.
JitBytesShortForm(b, p) ==
  IF p >= Len(b) THEN Got(<<>>, p) ELSE Got(Clipped(b, p + 1, b[p + 1]), p + 1 + b[p + 1])

JitBytes(b, p) ==
  IF p >= Len(b) THEN Got(<<>>, p)
  ELSE LET long == b[p + 1] = CompactLengthMarker
           n == IF long THEN JitFixed("uint32", b, p + 1).v ELSE b[p + 1]
           q == IF long THEN p + 1 + SizeInt32 ELSE p + 1
       IN  Got(Clipped(b, q, n), q + n)

\* What toString of a Uint8Array that is no Buffer gives, whatever part of it was
\* asked for: all its bytes as decimals, here of one digit each, with commas.
Joined(b) == [i \in 1..2 * Len(b) - 1 |-> 0]

\* The text of bytes s of b.  Node calls toString; short ASCII text is put
\* together unit by unit in browsers.
JitText(d, b, s) ==
  CASE d = "jit" -> Utf8Text(s)
    [] d = "jit_plain" -> Joined(b)
    [] d = "jit_browser" -> ShortOrDecoded(s)
    [] d = "browser_jit" -> IF Len(s) <= LatinLimit THEN LatinText(s) ELSE TextDecoded(s)

\* What a field without a value holds: undefined, or null.
Nothing == <<Base>>

\* Bytes and messages are left out of what is compiled.
JitScalarRead(d, t, b, p) ==
  CASE IsFixed(t) -> JitFixed(t, b, p)
    [] t = "string" -> Read(JitBytes(b, p), LAMBDA s : JitText(d, b, s))
    [] OTHER -> Got(Nothing, p)

\* Where reading a short text leaves the variable i, which for browsers is
\* the one of the loop over the elements too.
Scanned(s) ==
  IF IsAscii(s) THEN Len(s)
  ELSE CHOOSE j \in 0..Len(s) - 1 : s[j + 1] >= Base \div 2 /\ IsAscii(SubSeq(s, 1, j))

\* for (var i = 0; i < count; i++) around for (var i = 0; i < len; i++): the
\* assignments, each an index and a text.
JitTexts(b, start, count) ==
  LET from[p \in Nat, i \in Nat] ==
        IF i >= count THEN Got(<<>>, p)
        ELSE Then(JitBytes(b, p), LAMBDA s, q :
               LET at == IF p < Len(b) /\ Len(s) < ShortRead THEN Scanned(s) ELSE i
               IN  Then(from[q, at + 1], LAMBDA rest, r :
                     Got(<<<<at, ShortOrDecoded(s)>>>> \o rest, r)))
  IN  from[start, 0]

\* The array they make, with holes where nothing was assigned.
TextsAssigned(assigned, count) ==
  [j \in 1..Max({count} \cup {assigned[k][1] + 1 : k \in DOMAIN assigned}) |->
     LET to == {k \in DOMAIN assigned : assigned[k][1] = j - 1}
     IN  IF to = {} THEN Nothing ELSE assigned[Max(to)][2]]

JitArrayRead(d, t, b, p) ==
  Then(ReadArrayCountAt(b, p, MinBytes(t)), LAMBDA count, q :
    IF t = "string" /\ d = "jit_browser"
    THEN Read(JitTexts(b, q, count), LAMBDA assigned : TextsAssigned(assigned, count))
    ELSE ReadEach([j \in 1..count |-> j], q, LAMBDA j, r : JitScalarRead(d, t, b, r)))

JitReadField(d, f, b, p) ==
  IF f.many THEN JitArrayRead(d, f.t, b, p) ELSE JitScalarRead(d, f.t, b, p)

\* What browser.ts compiles knows nothing of lists.
BrowserJitRead(f, b, p) == JitScalarRead("browser_jit", f.t, b, p)

-----------------------------------------------------------------------------
(* collections.ts.                                                         *)

\* One byte of length, which subarray clips at the end.
RawBytesAt(b, p) ==
  IF p >= Len(b) THEN Got(<<>>, p + 1)
  ELSE LET n == b[p + 1]
       IN  Got(Clipped(b, p + 1, n), p + 1 + n)

DecodeStringArray(b, p) == Read(RawBytesAt(b, p), TextDecoded)

DecodeStringMap(b, p) ==
  ReadPair(Read(RawBytesAt(b, p), LatinText), LAMBDA q : Read(RawBytesAt(b, q), LatinText))

CollectionDecode(f, b, p) ==
  Then(ReadFixedAt(b, p, SizeInt32), LAMBDA n, q :
    ReadEach([j \in 1..n |-> j], q, LAMBDA j, r :
      CASE f.t = "string" -> DecodeStringArray(b, r)
        [] f.t = "int32" -> ReadFixed("int32", b, r)
        [] f.t = "pair" -> DecodeStringMap(b, r)))

-----------------------------------------------------------------------------
(* worker.ts, node-worker.ts: one list, decoded on a worker.  Texts cross  *)
(* to the main thread as one array of bytes and the offsets of each.       *)

\* What the worker sends: offsets of texts, and an end.
Flat(texts) ==
  [offsets |-> [i \in 1..Len(texts) + 1 |-> Len(FlattenSeq(SubSeq(texts, 1, i - 1)))],
   data |-> FlattenSeq(texts)]

\* The texts that the pool makes of it.
FlatTexts(d, flat) ==
  [i \in 1..Len(flat.offsets) - 1 |->
     LET b == SubSeq(flat.data, flat.offsets[i] + 1, flat.offsets[i + 1])
     IN  IF d = "worker" THEN TextDecoded(b) ELSE Utf8Text(b)]

\* node-worker.ts, which checks nothing, is given whole messages.
WorkerDecoded(d, f, b, p) ==
  IF f.t = "int32" THEN ReadArray("index", f.t, b, p)
  ELSE Read(ReadArray("index", "bytes", b, p), LAMBDA texts : FlatTexts(d, Flat(texts)))

-----------------------------------------------------------------------------
\* The fields of a message, read by d from the start of b.
Decoded(d, fields, b) ==
  ReadEach(fields, 0, LAMBDA f, p :
    CASE d \in {"jit", "jit_plain", "jit_browser"} -> JitReadField(d, f, b, p)
      [] d = "browser_jit" -> BrowserJitRead(f, b, p)
      [] d = "collections" -> CollectionDecode(f, b, p)
      [] d \in {"worker", "node_worker"} -> WorkerDecoded(d, f, b, p)
      [] d = "hybrid" -> HybridRead(f, b, p)
      [] OTHER -> ReadField(d, f, b, p))
=============================================================================
