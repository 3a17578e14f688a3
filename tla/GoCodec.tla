------------------------------ MODULE GoCodec ------------------------------
(***************************************************************************)
(* The Marshal and Unmarshal methods that pkg/codegen/golang/emitter.go    *)
(* generates for a message.  Contiguous fixed-width fields are coalesced:  *)
(* the buffer is extended once for the whole run and each field written at *)
(* its offset, and on decoding the run's end is checked once.  Unmarshal   *)
(* writes into a target the caller owns and may have used before.          *)
(***************************************************************************)
EXTENDS Schema

MinCoalesceRun == 2

\* 0 for a field that breaks a run.
FixedRunWidth(f) ==
  CASE f.label # "one" -> 0
    [] f.label = "one" /\ f.type = "bool" -> SizeBool
    [] f.label = "one" /\ f.type \in {"int32", "enum"} -> SizeInt32
    [] f.label = "one" /\ f.type = "int64" -> SizeInt64
    [] OTHER -> 0

Coalescable(m, i) == i \in DOMAIN Messages[m] /\ FixedRunWidth(Messages[m][i]) > 0

\* The coalesced runs of m, as <<first, last>>.
Runs(m) ==
  {r \in (DOMAIN Messages[m]) \X (DOMAIN Messages[m]) :
     /\ r[2] - r[1] + 1 >= MinCoalesceRun
     /\ \A i \in r[1]..r[2] : Coalescable(m, i)
     /\ ~Coalescable(m, r[1] - 1) /\ ~Coalescable(m, r[2] + 1)}

\* The fields of m in order, each run one group, every other field its own.
FieldRuns(m) ==
  LET n == Len(Messages[m])
      starts == SelectSeq([i \in 1..n |-> i],
                          LAMBDA i : \A r \in Runs(m) : i \notin r[1] + 1..r[2])
  IN  [k \in DOMAIN starts |->
         <<starts[k], IF k = Len(starts) THEN n ELSE starts[k + 1] - 1>>]

RunWidth(m, first, last) ==
  FoldLeft(LAMBDA n, f : n + FixedRunWidth(f), 0, SubSeq(Messages[m], first, last))

\* Mutant: the offset is the field's index, as if every field were a byte.
RunOffsetByIndex(m, first, i) == i - first

RunOffset(m, first, i) == RunWidth(m, first, i - 1)

\* What slices.Grow is asked to make room for.
FixedSizeLowerBound(m) ==
  FoldLeft(LAMBDA n, f : n + CASE f.label = "optional" -> SizeBool
                               [] f.label \in {"repeated", "map"} -> SizeInt32
                               [] OTHER -> FixedRunWidth(f),
           0, Messages[m])

-----------------------------------------------------------------------------
RECURSIVE Marshal(_, _, _), UnmarshalAt(_, _, _, _)

\* rev: the order in which range walks a map, which Go leaves open.
ScalarEncode(t, v, rev) ==
  CASE t = "bool" -> BoolByte(v)
    [] t \in {"int32", "enum"} -> LittleEndian(v, SizeInt32)
    [] t = "int64" -> LittleEndian(v, SizeInt64)
    [] t \in {"string", "bytes"} -> AppendBytes(v)
    [] OTHER -> AppendBytes(IF v = <<>> THEN <<>> ELSE Marshal(t, v[1], rev))

FieldEncode(f, v, rev) ==
  CASE f.label = "one" -> ScalarEncode(f.type, v, rev)
    [] f.label = "optional" /\ v = <<>> -> BoolByte(FALSE)
    [] f.label = "optional" /\ v # <<>> ->
         BoolByte(TRUE) \o ScalarEncode(f.type, IF IsMessage(f.type) THEN v ELSE v[1], rev)
    [] f.label = "repeated" ->
         LittleEndian(Len(v), SizeInt32)
           \o FlattenSeq([j \in DOMAIN v |-> ScalarEncode(f.type, v[j], rev)])
    [] f.label = "map" ->
         LittleEndian(Len(v), SizeInt32)
           \o FlattenSeq([j \in DOMAIN v |->
                LET pair == IF rev THEN v[Len(v) + 1 - j] ELSE v[j]
                IN  ScalarEncode(f.key, pair[1], rev) \o ScalarEncode(f.type, pair[2], rev)])

PutAt(buf, off, bytes) ==
  [i \in DOMAIN buf |-> IF i - off \in DOMAIN bytes THEN bytes[i - off] ELSE buf[i]]

RunEncode(m, first, last, fields) ==
  FoldLeft(LAMBDA buf, i :
             PutAt(buf, RunOffset(m, first, i),
                   ScalarEncode(Messages[m][i].type, fields[i], FALSE)),
           [i \in 1..RunWidth(m, first, last) |-> 0],
           [k \in 1..last - first + 1 |-> first + k - 1])

Marshal(m, fields, rev) ==
  LET Group(g) == IF g[1] < g[2] THEN RunEncode(m, g[1], g[2], fields)
                  ELSE FieldEncode(Messages[m][g[1]], fields[g[1]], rev)
      groups == FieldRuns(m)
  IN  FlattenSeq([k \in DOMAIN groups |-> Group(groups[k])])

-----------------------------------------------------------------------------
\* Reads one value that is not optional, repeated or a map.  An empty envelope
\* leaves the destination, which held old, as it is.
ScalarDecodeInto(t, b, p, depth, old) ==
  CASE t = "bool" -> ReadBoolAt(b, p)
    [] t \in {"int32", "enum"} -> ReadFixedAt(b, p, SizeInt32)
    [] t = "int64" -> ReadFixedAt(b, p, SizeInt64)
    [] t \in {"string", "bytes"} -> ReadBytesAt(b, p)
    [] OTHER ->
         Then(ReadBytesAt(b, p), LAMBDA envelope, q :
                IF envelope = <<>> THEN Got(old, q)
                ELSE Within(UnmarshalAt(t, envelope, depth + 1, ZeroMessage(t)), q))

\* Mutant: an empty envelope is taken for an absent message.
PresentDecodeSkipsEmpty(t, b, p, depth) ==
  Then(ScalarDecodeInto(t, b, p, depth, <<>>),
       LAMBDA v, q : Got(IF IsMessage(t) THEN v ELSE <<v>>, q))

\* The value behind a presence byte; a nested message is built even when its
\* envelope is empty.
PresentDecode(t, b, p, depth) ==
  IF IsMessage(t)
  THEN Then(ReadBytesAt(b, p), LAMBDA envelope, q :
              Within(UnmarshalAt(t, envelope, depth + 1, ZeroMessage(t)), q))
  ELSE Present(ScalarDecodeInto(t, b, p, depth, <<>>))

Entry(f, b, p, depth) ==
  ReadPair(ScalarDecodeInto(f.key, b, p, depth, <<>>),
           LAMBDA q : ScalarDecodeInto(f.type, b, q, depth, <<>>))

\* Mutant: elements are appended to those the target has.
RepeatedDecodeAppending(f, b, p, depth, old) ==
  Then(ReadMany(ReadArrayCountAt(b, p, MinWireBytes(f.type)),
                LAMBDA q : ScalarDecodeInto(f.type, b, q, depth, <<>>)),
       LAMBDA v, q : Got(old \o v, q))

\* A new slice, whatever the target had.
RepeatedDecode(f, b, p, depth, old) ==
  ReadMany(ReadArrayCountAt(b, p, MinWireBytes(f.type)),
           LAMBDA q : ScalarDecodeInto(f.type, b, q, depth, <<>>))

FieldDecode(f, b, p, depth, old) ==
  CASE f.label = "one" -> ScalarDecodeInto(f.type, b, p, depth, old)
    [] f.label = "optional" ->
         Then(ReadBoolAt(b, p), LAMBDA present, q :
                IF present THEN PresentDecode(f.type, b, q, depth) ELSE Got(old, q))
    [] f.label = "repeated" -> RepeatedDecode(f, b, p, depth, old)
    [] f.label = "map" ->
         Then(ReadMany(ReadArrayCountAt(b, p, MinWireBytes(f.key) + MinWireBytes(f.type)),
                       LAMBDA q : Entry(f, b, q, depth)),
              LAMBDA pairs, q : Got(FoldLeft(PutKey, <<>>, pairs), q))

\* The unchecked reads behind EnsureRunAt: all of the run is there or none.
RunDecode(m, first, last, b, p) ==
  IF p + RunWidth(m, first, last) > Len(b) THEN Failed
  ELSE Got([k \in 1..last - first + 1 |->
              LET i == first + k - 1
              IN  ScalarDecodeInto(Messages[m][i].type, b,
                                   p + RunOffset(m, first, i), 0, <<>>).v],
           p + RunWidth(m, first, last))

UnmarshalAt(m, data, depth, old) ==
  LET Group(g, p) ==
        IF g[1] < g[2] THEN RunDecode(m, g[1], g[2], data, p)
        ELSE Present(FieldDecode(Messages[m][g[1]], data, p, depth, old[g[1]]))
  IN  IF depth > MaxDecodeDepth THEN Failed
      ELSE Then(ReadEach(FieldRuns(m), 0, Group),
                LAMBDA groups, p : Got(FlattenSeq(groups), p))
=============================================================================
