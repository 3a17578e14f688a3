------------------------------- MODULE CCodec -------------------------------
(***************************************************************************)
(* The _marshal and _unmarshal functions that pkg/codegen/c/emitter.go     *)
(* generates for a message, with the encoder and decoder of                *)
(* runtime/c/xpb.c, when every allocation succeeds.  (A map whose values   *)
(* are messages is left out: the C generated for it does not compile.)     *)
(*                                                                         *)
(* In C an absent optional string, bytes or message is a NULL pointer, a   *)
(* string ends at its first NUL, and a repeated field of messages is an    *)
(* array of structs, so no element of it is missing.                       *)
(***************************************************************************)
EXTENDS Schema

CONSTANT
  SwapsBytes  \* neither _WIN32 nor __LITTLE_ENDIAN__ is defined, as with gcc
              \* on x86-64, and integers are stored byte-swapped

ASSUME CAssumption == SwapsBytes \in BOOLEAN

InCOrder(bytes) == IF SwapsBytes THEN Reverse(bytes) ELSE bytes

CWriteFixed(n, k) == InCOrder(LittleEndian(n, k))

CWriteBytes(s) ==
  (IF Len(s) <= CompactLengthThreshold THEN <<Len(s)>>
   ELSE <<CompactLengthMarker>> \o CWriteFixed(Len(s), SizeInt32)) \o s

\* The characters strlen counts.
CText(s) ==
  LET nul == SelectInSeq(s, LAMBDA c : c = Nul)
  IN  IF nul = 0 THEN s ELSE SubSeq(s, 1, nul - 1)

CReadFixed(b, p, k) ==
  IF p + k > Len(b) THEN Failed
  ELSE Got(Word(InCOrder(SubSeq(b, p + 1, p + k)), 0, k), p + k)

CReadCompactLength(b, p) ==
  CASE p >= Len(b) -> Failed
    [] p < Len(b) /\ b[p + 1] # CompactLengthMarker -> Got(b[p + 1], p + 1)
    [] OTHER -> CReadFixed(b, p + 1, SizeInt32)

CReadBytes(b, p) ==
  Then(CReadCompactLength(b, p), LAMBDA n, q :
         IF q + n > Len(b) THEN Failed ELSE Got(SubSeq(b, q + 1, q + n), q + n))

CValidateArrayCount(b, p, elementMin) ==
  Then(CReadFixed(b, p, SizeInt32), LAMBDA n, q :
         IF /\ n < Base^SizeInt32 \div 2
            /\ n <= MaxElements
            /\ n <= (Len(b) - q) \div elementMin
         THEN Got(n, q) ELSE Failed)

\* cMinWireBytes does not know that a name in a map's type may be an enum's.
CMinWireBytes(t, inMap) ==
  IF t = "enum" /\ inMap THEN 1 ELSE MinWireBytes(t)

-----------------------------------------------------------------------------
RECURSIVE CMarshal(_, _), CUnmarshalAt(_, _, _)

CScalarEncode(t, v) ==
  CASE t = "bool" -> BoolByte(v)
    [] t \in {"int32", "enum"} -> CWriteFixed(v, SizeInt32)
    [] t = "int64" -> CWriteFixed(v, SizeInt64)
    [] t = "string" -> CWriteBytes(CText(v))
    [] t = "bytes" -> CWriteBytes(v)
    [] OTHER -> CWriteBytes(IF v = <<>> THEN <<>> ELSE CMarshal(t, v[1]))

\* cWriteCall knows neither bytes nor enums: nothing is written for them.
CWriteCall(t, v) == IF t \in {"bytes", "enum"} THEN <<>> ELSE CScalarEncode(t, v)

CFieldEncode(f, v) ==
  CASE f.label = "one" -> CScalarEncode(f.type, v)
    [] f.label = "optional" ->
         BoolByte(v # <<>>)
           \o IF v = <<>> THEN <<>>
              ELSE CScalarEncode(f.type, IF IsMessage(f.type) THEN v ELSE v[1])
    [] f.label = "repeated" ->
         CWriteFixed(Len(v), SizeInt32)
           \o FlattenSeq([j \in DOMAIN v |-> CScalarEncode(f.type, v[j])])
    [] f.label = "map" ->
         CWriteFixed(Len(v), SizeInt32)
           \o FlattenSeq([j \in DOMAIN v |->
                CWriteCall(f.key, v[j][1]) \o CWriteCall(f.type, v[j][2])])

CMarshal(m, fields) ==
  FlattenSeq([i \in DOMAIN fields |-> CFieldEncode(Messages[m][i], fields[i])])

-----------------------------------------------------------------------------
\* A struct is built and filled whatever the envelope's length.
CNested(t, b, p, depth) ==
  Then(CReadBytes(b, p), LAMBDA envelope, q :
         Within(CUnmarshalAt(t, envelope, depth + 1), q))

CScalarDecode(t, b, p, depth) ==
  CASE t = "bool" -> ReadBoolAt(b, p)
    [] t \in {"int32", "enum"} -> CReadFixed(b, p, SizeInt32)
    [] t = "int64" -> CReadFixed(b, p, SizeInt64)
    [] t = "string" ->
         Then(CReadBytes(b, p), LAMBDA s, q : Got(CText(s), q))
    [] t = "bytes" -> CReadBytes(b, p)
    [] OTHER -> CNested(t, b, p, depth)

\* cReadCall is "0" for bytes and enums: nothing is read.
CReadCall(t, b, p, depth) ==
  CASE t = "bytes" -> Got(<<>>, p) [] t = "enum" -> Got(0, p)
    [] OTHER -> CScalarDecode(t, b, p, depth)

CEntry(f, b, p, depth) ==
  ReadPair(CReadCall(f.key, b, p, depth), LAMBDA q : CReadCall(f.type, b, q, depth))

\* Bytes of length 0 come back as NULL, which means absent.
CPresent(t, b, p, depth) ==
  Then(CScalarDecode(t, b, p, depth), LAMBDA v, q :
         Got(IF IsMessage(t) \/ (t = "bytes" /\ v = <<>>) THEN v ELSE <<v>>, q))

CFieldDecode(f, b, p, depth) ==
  CASE f.label = "one" -> CScalarDecode(f.type, b, p, depth)
    [] f.label = "optional" ->
         Then(ReadBoolAt(b, p), LAMBDA present, q :
                IF present THEN CPresent(f.type, b, q, depth) ELSE Got(<<>>, q))
    [] f.label = "repeated" ->
         ReadMany(CValidateArrayCount(b, p, CMinWireBytes(f.type, FALSE)),
                  LAMBDA q : CScalarDecode(f.type, b, q, depth))
    [] f.label = "map" ->
         LET pair == CMinWireBytes(f.key, TRUE) + CMinWireBytes(f.type, TRUE)
         IN  ReadMany(CValidateArrayCount(b, p, pair), LAMBDA q : CEntry(f, b, q, depth))

CUnmarshalAt(m, data, depth) ==
  IF depth > MaxDecodeDepth THEN Failed
  ELSE ReadEach(Messages[m], 0, LAMBDA f, p : CFieldDecode(f, data, p, depth))

-----------------------------------------------------------------------------
\* The values a C struct can have: no NUL inside a string, no missing struct
\* in an array, no length for bytes in a map.
CHolds(m, fields) ==
  \A p \in Parts(m, fields, 0) :
    /\ p.type = "string" => Nul \notin ToSet(p.value)
    /\ p.label = "repeated" /\ IsMessage(p.type) => p.value # <<>>
    /\ p.label = "map" /\ p.type = "bytes" => p.value = <<>>

\* The values that survive C: those it can hold, with every required nested
\* message there (C descends into an empty envelope too), no optional bytes
\* present but empty, and no map value C does not write.
CKeeps(m, fields) ==
  /\ CHolds(m, fields)
  /\ \A p \in Parts(m, fields, 0) :
       /\ IsMessage(p.type) /\ p.label # "optional" =>
            /\ p.value = <<>> => Messages[p.type] = <<>>
            /\ p.depth < MaxDecodeDepth
       /\ p.label = "optional" /\ p.type = "bytes" => p.value # <<>>
       /\ p.label = "map" => p.type \notin {"bytes", "enum"}
=============================================================================
