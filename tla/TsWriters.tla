----------------------------- MODULE TsWriters ------------------------------
(***************************************************************************)
(* The untagged encoders of runtime/ts/src: the Encoder classes of         *)
(* index.ts, browser.ts and node.ts, HybridEncoder, which calls index.ts,  *)
(* the encoders that jit.ts and browser.ts compile, and collections.ts.    *)
(*                                                                         *)
(* rt is the runtime: its kind, and what the engine offers it.  An encoder *)
(* e has the arrays it has used, the last of them in use, its position,    *)
(* and ok, which a call that throws makes FALSE.                           *)
(***************************************************************************)
EXTENDS TsText

Detached == [cells |-> <<>>, detached |-> TRUE]

NewArray(size) == [cells |-> [i \in 1..size |-> 0], detached |-> FALSE]

NewEncoder(size) == [heap |-> <<NewArray(size)>>, pos |-> 0, ok |-> TRUE]

Cells(e) == Last(e.heap).cells
Room(e) == Len(Cells(e))

Throw(e) == [e EXCEPT !.ok = FALSE]

\* buf[p], buf[p + 1], ... = bytes: what is past the end is dropped.
Store(e, p, bytes) ==
  [e EXCEPT !.heap[Len(e.heap)].cells =
     [i \in DOMAIN @ |-> IF i - p \in DOMAIN bytes THEN bytes[i - p] ELSE @[i]]]

Put(e, bytes) ==
  IF e.ok THEN [Store(e, e.pos, bytes) EXCEPT !.pos = @ + Len(bytes)] ELSE e

\* set(), a DataView or a Buffer method: throws when the end is passed.
PutChecked(e, bytes) == IF e.pos + Len(bytes) > Room(e) THEN Throw(e) ELSE Put(e, bytes)

\* Mutant: a full array only grows by what is needed, for the next byte.
EnsureCapacityLate(e, transfer, needed) ==
  IF e.pos + needed <= Room(e) + 1 THEN e
  ELSE LET size == Max({2 * Room(e), e.pos + needed})
       IN  [e EXCEPT !.heap = Append(@, [NewArray(size) EXCEPT !.cells =
              [i \in DOMAIN @ |-> IF i <= Room(e) THEN Cells(e)[i] ELSE @[i]]])]

\* A larger array has the contents of the old one, which transfer() detaches.
EnsureCapacity(e, transfer, needed) ==
  IF ~e.ok \/ e.pos + needed <= Room(e) THEN e
  ELSE LET size == Max({2 * Room(e), e.pos + needed})
           larger == [NewArray(size) EXCEPT !.cells =
                        [i \in DOMAIN @ |-> IF i <= Room(e) THEN Cells(e)[i] ELSE @[i]]]
       IN  [e EXCEPT !.heap =
              Append(IF transfer THEN [@ EXCEPT ![Len(@)] = Detached] ELSE @, larger)]

\* ensureCapacity, then the stores it was called for.
Reserved(e, rt, needed, bytes) == Put(EnsureCapacity(e, rt.transfer, needed), bytes)

-----------------------------------------------------------------------------
(* index.ts, browser.ts, node.ts.                                          *)

WriteFixed(e, rt, t, v) == Reserved(e, rt, Width(t), FixedBytes(t, v))

\* lo and hi, as v & 0xffffffff and v >> 32 give them.
Halves(v) == FixedBytes("uint32", v) \o FixedBytes("uint32", v \div Base^SizeInt32)

BrowserWriteFixed(e, rt, t, v) ==
  Reserved(e, rt, Width(t), IF t \in {"int64", "uint64"} THEN Halves(v) ELSE FixedBytes(t, v))

\* A method of Buffer throws when a number is out of range.
NodeWriteFixed(e, rt, t, v) ==
  IF InRange(t, v) THEN WriteFixed(e, rt, t, v)
  ELSE Throw(EnsureCapacity(e, rt.transfer, Width(t)))

WriteCompactLength(e, rt, n) ==
  Reserved(e, rt, Len(AppendCompactLength(n)), AppendCompactLength(n))

WriteBytes(e, rt, b) == Reserved(WriteCompactLength(e, rt, Len(b)), rt, Len(b), b)

\* Mutant: the length counts units, not bytes.
WriteStringByUnits(e, rt, s) ==
  Reserved(WriteCompactLength(e, rt, Len(s)), rt, 3 * Len(s), Utf8(s))

\* The room a text is tried as ASCII in.  One that turns out not to be is written
\* again from the start.
TriedShort(e, rt, s) ==
  IF Len(s) < ShortWrite THEN EnsureCapacity(e, rt.transfer, Len(s) + 1) ELSE e

WriteString(e, rt, s) ==
  IF Len(s) < ShortWrite /\ IsAscii(s) THEN Put(TriedShort(e, rt, s), <<Len(s)>> \o s)
  ELSE WriteBytes(TriedShort(e, rt, s), rt, Utf8(s))

\* A length of five bytes moves the text.
BrowserWriteString(e, rt, s) ==
  IF Len(s) < ShortWrite /\ IsAscii(s) THEN Put(TriedShort(e, rt, s), <<Len(s)>> \o s)
  ELSE Reserved(TriedShort(e, rt, s), rt, 3 * Len(s) + 5, AppendBytes(Utf8(s)))

NodeWriteString(e, rt, s) == WriteBytes(e, rt, Utf8(s))

\* What is made sure of for the bytes of a Base64 text, and their length.
Base64Room(b) == 3 * ((Len(b) + 2) \div 3) + 5

\* An engine without setFromBase64 has no Uint8Array.fromBase64 either, which is
\* then called.
WriteBase64AsBytes(e, rt, b) ==
  IF rt.base64 THEN Reserved(e, rt, Base64Room(b), AppendBytes(b))
  ELSE Throw(EnsureCapacity(e, rt.transfer, Base64Room(b)))

\* atob does without.
BrowserWriteBase64(e, rt, b) ==
  IF rt.base64 THEN Reserved(e, rt, Base64Room(b), AppendBytes(b)) ELSE WriteBytes(e, rt, b)

\* A text of b and of four characters that are no Base64: setFromBase64 has stored
\* b, gap cells on, when it throws.
StoreAndThrow(e, rt, gap, b) ==
  LET x == EnsureCapacity(e, rt.transfer, Base64Room(b) + 3)
  IN  Throw(IF e.ok /\ rt.base64 THEN Store(x, x.pos + gap, b) ELSE x)

IndexNotBase64(e, rt, b) == StoreAndThrow(e, rt, 5, b)

\* Past the byte kept for the length by then; atob throws before anything.
BrowserNotBase64(e, rt, b) ==
  IF e.ok /\ rt.base64 THEN [StoreAndThrow(e, rt, 1, b) EXCEPT !.pos = @ + 1] ELSE Throw(e)

IndexScalar(e, rt, t, v) ==
  CASE IsFixed(t) -> WriteFixed(e, rt, t, v)
    [] t = "string" -> WriteString(e, rt, v)
    [] t = "pair" -> WriteString(WriteString(e, rt, v[1]), rt, v[2])
    [] t = "base64" -> WriteBase64AsBytes(e, rt, v)
    [] t = "not_base64" -> IndexNotBase64(e, rt, v)
    [] OTHER -> WriteBytes(e, rt, v)

BrowserScalar(e, rt, t, v) ==
  CASE IsFixed(t) -> BrowserWriteFixed(e, rt, t, v)
    [] t = "string" -> BrowserWriteString(e, rt, v)
    [] t = "pair" -> BrowserWriteString(BrowserWriteString(e, rt, v[1]), rt, v[2])
    [] t = "base64" -> BrowserWriteBase64(e, rt, v)
    [] t = "not_base64" -> BrowserNotBase64(e, rt, v)
    [] OTHER -> WriteBytes(e, rt, v)

NodeScalar(e, rt, t, v) ==
  CASE IsFixed(t) -> NodeWriteFixed(e, rt, t, v)
    [] t = "string" -> NodeWriteString(e, rt, v)
    [] t = "pair" -> NodeWriteString(NodeWriteString(e, rt, v[1]), rt, v[2])
    [] OTHER -> WriteBytes(e, rt, v)

WriteScalar(e, rt, t, v) ==
  CASE rt.kind = "index" -> IndexScalar(e, rt, t, v)
    [] rt.kind = "browser" -> BrowserScalar(e, rt, t, v)
    [] rt.kind = "node" -> NodeScalar(e, rt, t, v)

\* writeArray*: the count, then the elements.
WriteArray(e, rt, t, vs) ==
  FoldLeft(LAMBDA x, v : WriteScalar(x, rt, t, v), WriteScalar(e, rt, "int32", Len(vs)), vs)

WriteField(e, rt, f) ==
  IF f.many THEN WriteArray(e, rt, f.t, f.v) ELSE WriteScalar(e, rt, f.t, f.v)

\* HybridEncoder ignores the field number and calls index.ts.
HybridField(e, rt, f) == WriteField(e, [rt EXCEPT !.kind = "index"], f)

-----------------------------------------------------------------------------
(* The compiled encoders of jit.ts and browser.ts write into a slab.       *)

\* One byte is kept for the length, whatever it turns out to be.
JitString(e, rt, s) ==
  LET written == FittingUtf8(s, Room(e) - (e.pos + 1))
  IN  IF Len(s) < JitShort /\ IsAscii(s) THEN Put(e, <<Len(s)>> \o s)
      ELSE IF rt.buffer /\ e.pos + 1 > Room(e) THEN Throw(e)
      ELSE Put(e, <<Len(written) % Base>> \o written)

\* Bytes and messages are left out of what is compiled.
JitScalar(e, rt, t, v) ==
  CASE IsFloat(t) -> PutChecked(e, FixedBytes(t, v))
    [] t \in {"int64", "uint64"} -> Put(e, Halves(v))
    [] t \in {"bool", "int32", "uint32"} -> Put(e, FixedBytes(t, v))
    [] t = "string" -> JitString(e, rt, v)
    [] OTHER -> e

JitField(e, rt, f) ==
  IF f.many
  THEN FoldLeft(LAMBDA x, v : JitScalar(x, rt, f.t, v),
                Put(e, FixedBytes("int32", Len(f.v))), f.v)
  ELSE JitScalar(e, rt, f.t, f.v)

\* The code that browser.ts compiles is the same, without lists.
BrowserJitField(e, rt, f) == JitScalar(e, rt, f.t, f.v)

\* slab.pos moves only when all fields are written.
JitEncode(e, rt, fields) ==
  LET r == FoldLeft(LAMBDA x, f :
             CASE ~x.ok -> x
               [] x.ok /\ rt.kind = "jit" -> JitField(x, rt, f)
               [] x.ok /\ rt.kind = "browser_jit" -> BrowserJitField(x, rt, f), e, fields)
  IN  IF r.ok THEN r ELSE [r EXCEPT !.pos = e.pos]

-----------------------------------------------------------------------------
(* collections.ts: lists and maps, each from the start of a slab.          *)

\* charCodeAt of each unit, and one byte of length.
RawText(s) == <<Len(s) % Base>> \o [i \in DOMAIN s |-> s[i] % Base]

EncodeStringArray(e, v) == FoldLeft(LAMBDA x, s : Put(x, RawText(s)), e, v)
EncodeInt32Array(e, v) == FoldLeft(LAMBDA x, n : PutChecked(x, FixedBytes("int32", n)), e, v)
EncodeStringMap(e, v) ==
  FoldLeft(LAMBDA x, pair : Put(x, RawText(pair[1]) \o RawText(pair[2])), e, v)

CollectionEncode(e, f) ==
  LET start == Put([e EXCEPT !.pos = 0], FixedBytes("int32", Len(f.v)))
      r == CASE f.t = "string" -> EncodeStringArray(start, f.v)
             [] f.t = "int32" -> EncodeInt32Array(start, f.v)
             [] f.t = "pair" -> EncodeStringMap(start, f.v)
  IN  IF r.ok THEN r ELSE [r EXCEPT !.pos = 0]
=============================================================================
