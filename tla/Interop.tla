------------------------------ MODULE Interop ------------------------------
(***************************************************************************)
(* A message on its way through programs written in different languages:   *)
(* each encodes what it holds, the next decodes it, may reuse a target it  *)
(* filled before (Go), and sends it on.  The carrier may cut a wire short, *)
(* change a byte, or hand over a buffer with bytes after the message.      *)
(***************************************************************************)
EXTENDS GoCodec, TsCodec, CCodec

CONSTANTS
  Routes,       \* sets of languages out of "go", "ts", "c": who passes messages on
  Roots,        \* the messages sent
  Values(_),    \* the values of a root a program starts with
  MaxHops,      \* bound: how often a message is passed on
  DamagedHops   \* bound: only the first so many hops may damage it

ASSUME InteropAssumption ==
  /\ Routes \subseteq SUBSET {"go", "ts", "c"} /\ Roots \subseteq DOMAIN Messages
  /\ MaxHops \in Nat /\ DamagedHops \in Nat

VARIABLES
  langs,    \* the languages on the way
  root,     \* the message's type
  lang,     \* the language of the program that has it
  value,    \* what it holds
  target,   \* the struct the Go program decoded it into, before decoding
  origin,   \* history: the value first sent, or first read from a changed wire
  wire,     \* the bytes under way
  status,   \* what happened to them
  hops

vars == <<langs, root, lang, value, target, origin, wire, status, hops>>

Encode(l, m, v, rev) ==
  CASE l = "go" -> Marshal(m, v, rev) [] l = "ts" -> TsEncode(m, v)
    [] l = "c" -> CMarshal(m, v)

Decode(l, m, b) ==
  CASE l = "go" -> UnmarshalAt(m, b, 0, ZeroMessage(m)) [] l = "ts" -> TsDecodeAt(m, b, 0)
    [] l = "c" -> CUnmarshalAt(m, b, 0)

\* The values a program in language l can have, and those that survive it.
Holds(l, m, v) == (l = "c" => CHolds(m, v)) /\ (l = "ts" => TsHolds(m, v))
Keeps(l, m, v) == (l = "c" => CKeeps(m, v)) /\ (l = "ts" => TsKeeps(m, v))

Init ==
  /\ langs \in Routes /\ root \in Roots /\ lang \in langs
  /\ value \in {v \in Values(root) : Holds(lang, root, v)}
  /\ origin = value
  /\ target = <<>> /\ wire = <<>> /\ status = "holding" /\ hops = 0

\* Marshal, encode or _marshal; Go may walk its maps either way.
Send ==
  /\ status = "holding" /\ hops < MaxHops
  /\ \E rev \in BOOLEAN : wire' = Encode(lang, root, value, rev)
  /\ status' = "sent" /\ hops' = hops + 1
  /\ UNCHANGED <<langs, root, lang, value, target, origin>>

Truncate ==
  /\ status = "sent" /\ hops <= DamagedHops
  /\ \E n \in 0..Len(wire) - 1 : wire' = SubSeq(wire, 1, n)
  /\ status' = "cut"
  /\ UNCHANGED <<langs, root, lang, value, target, origin, hops>>

Corrupt ==
  /\ status = "sent" /\ hops <= DamagedHops
  /\ \E i \in DOMAIN wire : \E byte \in Bytes \ {wire[i]} : wire' = [wire EXCEPT ![i] = byte]
  /\ status' = "garbled"
  /\ UNCHANGED <<langs, root, lang, value, target, origin, hops>>

Extend ==
  /\ status = "sent" /\ hops <= DamagedHops
  /\ \E byte \in Bytes : wire' = Append(wire, byte)
  /\ status' = "extended"
  /\ UNCHANGED <<langs, root, lang, value, target, origin, hops>>

\* A changed byte that is accepted makes a message of its own.
UnderWay == {"sent", "cut", "garbled", "extended"}

Receive(l) ==
  /\ status \in UnderWay
  /\ LET r == Decode(l, root, wire)
     IN  /\ status' = IF r.ok THEN "holding" ELSE "rejected"
         /\ value' = IF r.ok THEN r.v ELSE value
         /\ origin' = IF r.ok /\ status = "garbled" THEN r.v ELSE origin
  /\ lang' = l /\ target' = <<>>
  /\ UNCHANGED <<langs, root, wire, hops>>

\* Unmarshal into a struct that holds an earlier message.
ReceiveReusing ==
  /\ status = "sent" /\ "go" \in langs
  /\ \E old \in Values(root) :
       LET r == UnmarshalAt(root, wire, 0, old)
       IN  /\ status' = IF r.ok THEN "reused" ELSE "rejected"
           /\ value' = IF r.ok THEN r.v ELSE value
           /\ target' = old
  /\ lang' = "go"
  /\ UNCHANGED <<langs, root, origin, wire, hops>>

Next ==
  \/ Send \/ Truncate \/ Corrupt \/ Extend \/ ReceiveReusing
  \/ \E l \in langs : Receive(l)

Spec == Init /\ [][Next]_vars

-----------------------------------------------------------------------------
\* Every generated encoder writes the same bytes for a value, up to the order
\* of a map in Go: runs and offsets in Go's emitter change nothing on the wire,
\* and the room it reserves up front is never more than the message takes.
OneWire ==
  status = "sent" =>
    /\ wire \in {Marshal(root, value, rev) : rev \in BOOLEAN}
    /\ \A l \in langs :
         Keeps(l, root, value) =>
           Encode(l, root, value, FALSE) = Marshal(root, value, FALSE)
    /\ FixedSizeLowerBound(root) <= Len(wire)

\* However often a message is passed on, and whatever the languages, what is
\* held is a value that language can hold, and still means what was sent (or
\* first read from a changed wire).
RelayKeepsMessage ==
  /\ status = "holding" => IsValue(root, value) /\ Holds(lang, root, value)
  /\ /\ status \in {"holding", "sent", "extended"}
     /\ \A l \in langs : Keeps(l, root, origin)
     => Same(root, value) = Same(root, origin)

\* A wire nobody cut or changed is refused exactly when the message is nested
\* deeper, or has more elements, than a decoder accepts; bytes after the
\* message change nothing.
RefusedOnlyAtTheLimits ==
  [][/\ status \in {"sent", "extended"} /\ status' \in {"holding", "reused", "rejected"}
     /\ Keeps(lang', root, value)
     => (status' = "rejected" <=> ~Decodable(root, value))]_vars

\* A message that arrives cut short is refused by every decoder: no count,
\* length or run lets it read past the end.
CutRefused ==
  [][status = "cut" => status' = "rejected"]_vars

\* Whatever bytes arrive, Go and TypeScript agree whether to accept them, and
\* C never accepts what they refuse.  A language whose value of it survives
\* reads the same message as Go.
OneVerdict ==
  status \in UnderWay =>
    LET go == Decode("go", root, wire)
    IN  \A l \in langs :
          LET r == Decode(l, root, wire)
          IN  /\ r.ok => go.ok
              /\ l # "c" => r.ok = go.ok
              /\ go.ok => (Keeps(l, root, go.v) => r.ok /\ Same(root, r.v) = Same(root, go.v))

\* Unmarshal into a used struct leaves something of the earlier message only
\* where the wire has nothing: an absent optional field or nested message.
ReuseKeepsOnlyAbsent ==
  status = "reused" =>
    LET fresh == Decode("go", root, wire).v
    IN  \A i \in DOMAIN value :
          \/ value[i] = fresh[i]
          \/ /\ fresh[i] = <<>> /\ value[i] = target[i]
             /\ Messages[root][i].label \in {"one", "optional"}

-----------------------------------------------------------------------------
(* What docs/WIRE_FORMAT.md says and a C build does otherwise.             *)

\* "All integers are signed two's complement, little-endian" (line 25).
IntegersAreLittleEndian ==
  LET f == Messages[root][1]
  IN  status = "sent" /\ f.label = "one" /\ f.type = "int32" =>
        SubSeq(wire, 1, SizeInt32) = LittleEndian(value[1], SizeInt32)

\* "A map always decodes back to the same logical key/value set" (line 136).
MapsRoundTrip ==
  status = "holding" =>
    \A i \in DOMAIN value :
      Messages[root][i].label = "map" => Same(root, value)[i] = Same(root, origin)[i]
=============================================================================
