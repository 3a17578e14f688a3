------------------------------- MODULE Schema -------------------------------
(***************************************************************************)
(* A schema as pkg/parser hands it to the generators, and what the         *)
(* generated codecs of every language agree on.                            *)
(*                                                                         *)
(* Values.  A message is the sequence of its fields' values.  Whatever may *)
(* be missing - an optional value, a pointer to a nested message - is a    *)
(* sequence of length 0 or 1.  A repeated field is a sequence, a map field *)
(* a sequence of <<key, value>> pairs in iteration order.                  *)
(***************************************************************************)
EXTENDS Wire

CONSTANT
  Messages  \* message name -> its fields, records [label, type, key]

Labels == {"one", "optional", "repeated", "map"}
Scalars == {"bool", "int32", "int64", "enum", "string", "bytes"}

IsMessage(t) == t \in DOMAIN Messages

\* The value of a field nobody has set.
ZeroValue(f) ==
  CASE f.label # "one" \/ IsMessage(f.type) \/ f.type \in {"string", "bytes"} -> <<>>
    [] f.label = "one" /\ f.type = "bool" -> FALSE
    [] OTHER -> 0

ZeroMessage(m) == [i \in DOMAIN Messages[m] |-> ZeroValue(Messages[m][i])]

\* Mutant: a string is taken to need a length byte and one character.
MinWireBytesWithBody(t) ==
  CASE t = "bool" -> 1 [] t \in {"int32", "enum"} -> 4 [] t = "int64" -> 8
    [] t \in {"string", "bytes"} -> 2 [] OTHER -> 1

\* The smallest size of one element of a repeated or map field.
MinWireBytes(t) ==
  CASE t \in {"int32", "enum"} -> 4 [] t = "int64" -> 8 [] OTHER -> 1

\* map[k] = v in Go, Map.set in TypeScript: the last pair with a key wins.
PutKey(map, pair) ==
  IF \E i \in DOMAIN map : map[i][1] = pair[1]
  THEN [i \in DOMAIN map |-> IF map[i][1] = pair[1] THEN pair ELSE map[i]]
  ELSE Append(map, pair)

-----------------------------------------------------------------------------
RECURSIVE Same(_, _), Parts(_, _, _)

SameScalar(t, v) ==
  IF IsMessage(t) /\ v # <<>> /\ Messages[t] # <<>> THEN <<Same(t, v[1])>>
  ELSE IF IsMessage(t) THEN <<>> ELSE v

\* What two values have in common when they stand for the same message: a map
\* is the set of its last pairs, and a nested message without fields cannot be
\* told from a missing one unless the field is optional.
Same(m, fields) ==
  [i \in DOMAIN fields |->
     LET f == Messages[m][i]
         v == fields[i]
     IN  CASE f.label = "one" -> SameScalar(f.type, v)
           [] f.label = "optional" ->
                IF v # <<>> /\ IsMessage(f.type) THEN <<Same(f.type, v[1])>> ELSE v
           [] f.label = "repeated" -> [j \in DOMAIN v |-> SameScalar(f.type, v[j])]
           [] f.label = "map" ->
                {<<pair[1], SameScalar(f.type, pair[2])>> :
                   pair \in ToSet(FoldLeft(PutKey, <<>>, v))}]

\* The single values a field is made of, with their types.
Elements(f, v) ==
  CASE f.label = "one" -> {<<f.type, v>>}
    [] f.label = "optional" ->
         IF v = <<>> THEN {} ELSE {<<f.type, IF IsMessage(f.type) THEN v ELSE v[1]>>}
    [] f.label = "repeated" -> {<<f.type, v[j]>> : j \in DOMAIN v}
    [] f.label = "map" ->
         {<<f.key, v[j][1]>> : j \in DOMAIN v} \cup {<<f.type, v[j][2]>> : j \in DOMAIN v}

\* All single values in a message and the messages nested in it: the depth of
\* the message each is in, and how many elements its field has.
Parts(m, fields, depth) ==
  LET own == UNION {LET f == Messages[m][i]
                        n == IF f.label \in {"repeated", "map"} THEN Len(fields[i]) ELSE 1
                    IN  {[label |-> f.label, type |-> e[1], value |-> e[2],
                          count |-> n, depth |-> depth] : e \in Elements(f, fields[i])} :
                    i \in DOMAIN fields}
  IN  own \cup UNION {Parts(p.type, p.value[1], depth + 1) :
                        p \in {q \in own : IsMessage(q.type) /\ q.value # <<>>}}

Texts(m, fields) == {p.value : p \in {q \in Parts(m, fields, 0) : q.type = "string"}}

IsValue(m, fields) ==
  /\ DOMAIN fields = DOMAIN Messages[m]
  /\ \A p \in Parts(m, fields, 0) :
       CASE p.type = "bool" -> p.value \in BOOLEAN
         [] p.type \in {"int32", "enum"} -> p.value \in 0..Base^SizeInt32 - 1
         [] p.type = "int64" -> p.value \in 0..Base^SizeInt64 - 1
         [] p.type \in {"string", "bytes"} -> p.value \in Seq(Bytes)
         [] OTHER -> Len(p.value) <= 1

\* Within a decoder's limits, which no encoder enforces.  A missing message and
\* an empty one that is not optional are not descended into.
Decodable(m, fields) ==
  \A p \in Parts(m, fields, 0) :
    /\ p.count <= MaxElements
    /\ IsMessage(p.type) /\ p.value # <<>> /\ (p.label = "optional" \/ Messages[p.type] # <<>>)
       => p.depth < MaxDecodeDepth
=============================================================================
