------------------------------ MODULE TsCodec ------------------------------
(***************************************************************************)
(* The encode and decodeAt functions that                                  *)
(* pkg/codegen/typescript/emitter.go generates for a message, with the     *)
(* Encoder and Decoder of runtime/ts/src/index.ts.  Fields are written and *)
(* read one at a time; decodeAt always fills a new object, whose missing   *)
(* fields are undefined; a Map keeps the order of insertion.               *)
(***************************************************************************)
EXTENDS Schema

\* A TextDecoder made without options drops a leading U+FEFF and replaces
\* what is not UTF-8 by U+FFFD.  Short ASCII text takes a path of its own,
\* where neither can occur.
TextDecode(s) ==
  LET text == IF s # <<>> /\ Head(s) = ByteOrderMark THEN Tail(s) ELSE s
  IN  FlattenSeq([i \in DOMAIN text |-> IF text[i] = InvalidByte THEN ReplacementCharacter
                                        ELSE <<text[i]>>])

RECURSIVE TsEncode(_, _), TsDecodeAt(_, _, _)

TsScalarEncode(t, v) ==
  CASE t = "bool" -> BoolByte(v)
    [] t \in {"int32", "enum"} -> LittleEndian(v, SizeInt32)
    [] t = "int64" -> LittleEndian(v, SizeInt64)
    [] t \in {"string", "bytes"} -> AppendBytes(v)
    [] OTHER -> AppendBytes(IF v = <<>> THEN <<>> ELSE TsEncode(t, v[1]))

TsFieldEncode(f, v) ==
  CASE f.label = "one" -> TsScalarEncode(f.type, v)
    [] f.label = "optional" ->
         BoolByte(v # <<>>)
           \o IF v = <<>> THEN <<>>
              ELSE TsScalarEncode(f.type, IF IsMessage(f.type) THEN v ELSE v[1])
    [] OTHER ->
         LittleEndian(Len(v), SizeInt32)
           \o FlattenSeq([j \in DOMAIN v |->
                IF f.label = "repeated" THEN TsScalarEncode(f.type, v[j])
                ELSE TsScalarEncode(f.key, v[j][1]) \o TsScalarEncode(f.type, v[j][2])])

TsEncode(m, fields) ==
  FlattenSeq([i \in DOMAIN fields |-> TsFieldEncode(Messages[m][i], fields[i])])

-----------------------------------------------------------------------------
TsNested(t, b, p, depth, skipEmpty) ==
  Then(ReadBytesAt(b, p), LAMBDA envelope, q :
         IF skipEmpty /\ envelope = <<>> THEN Got(<<>>, q)
         ELSE Within(TsDecodeAt(t, envelope, depth + 1), q))

TsReadCall(t, b, p) ==
  CASE t = "bool" -> ReadBoolAt(b, p)
    [] t \in {"int32", "enum"} -> ReadFixedAt(b, p, SizeInt32)
    [] t = "int64" -> ReadFixedAt(b, p, SizeInt64)
    [] t = "string" ->
         Then(ReadBytesAt(b, p), LAMBDA s, q : Got(TextDecode(s), q))
    [] OTHER -> ReadBytesAt(b, p)

TsScalarDecode(t, b, p, depth) ==
  IF IsMessage(t) THEN TsNested(t, b, p, depth, TRUE) ELSE TsReadCall(t, b, p)

TsEntry(f, b, p, depth) ==
  ReadPair(TsScalarDecode(f.key, b, p, depth), LAMBDA q : TsScalarDecode(f.type, b, q, depth))

TsPresent(t, b, p, depth) ==
  IF IsMessage(t) THEN TsNested(t, b, p, depth, FALSE)
  ELSE Present(TsReadCall(t, b, p))

TsFieldDecode(f, b, p, depth) ==
  CASE f.label = "one" -> TsScalarDecode(f.type, b, p, depth)
    [] f.label = "optional" ->
         Then(ReadBoolAt(b, p), LAMBDA present, q :
                IF present THEN TsPresent(f.type, b, q, depth) ELSE Got(<<>>, q))
    [] f.label = "repeated" ->
         ReadMany(ReadArrayCountAt(b, p, MinWireBytes(f.type)),
                  LAMBDA q : TsScalarDecode(f.type, b, q, depth))
    [] f.label = "map" ->
         Then(ReadMany(ReadArrayCountAt(b, p, MinWireBytes(f.key) + MinWireBytes(f.type)),
                       LAMBDA q : TsEntry(f, b, q, depth)),
              LAMBDA pairs, q : Got(FoldLeft(PutKey, <<>>, pairs), q))

\* Mutant: the deepest level allowed is refused.
TsDecodeAtShallow(m, data, depth) ==
  IF depth >= MaxDecodeDepth THEN Failed
  ELSE ReadEach(Messages[m], 0, LAMBDA f, p : TsFieldDecode(f, data, p, depth))

TsDecodeAt(m, data, depth) ==
  IF depth > MaxDecodeDepth THEN Failed
  ELSE ReadEach(Messages[m], 0, LAMBDA f, p : TsFieldDecode(f, data, p, depth))

-----------------------------------------------------------------------------
\* The values a TypeScript program can have, and those that survive it.
TsHolds(m, fields) == \A s \in Texts(m, fields) : InvalidByte \notin ToSet(s)

TsKeeps(m, fields) ==
  TsHolds(m, fields) /\ \A s \in Texts(m, fields) : s # <<>> => Head(s) # ByteOrderMark
=============================================================================
