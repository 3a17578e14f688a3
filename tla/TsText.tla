------------------------------- MODULE TsText -------------------------------
(***************************************************************************)
(* What the TypeScript runtimes of runtime/ts/src share: JavaScript text   *)
(* and its UTF-8, fixed-width values, and fields.                          *)
(*                                                                         *)
(* A byte is a digit of three bits, so that 0..3 are ASCII, and 6 and 7    *)
(* are the largest short length and the marker.  Text is a sequence of     *)
(* UTF-16 units: 0..3 take one byte, 4 and 5 two, 6 and 7 three, as does   *)
(* the replacement character 8.  7 is U+FEFF.  Numbers are signed where    *)
(* their type is; a float is the word its bits make.                       *)
(*                                                                         *)
(* A field is [n, t, many, v]: number, type, whether it is a list, value.  *)
(* A map of texts is a list of type "pair".                                *)
(***************************************************************************)
EXTENDS Wire

CONSTANTS
  ShortWrite,  \* writeString tries texts shorter than this as ASCII: 64 units
  ShortRead,   \* readString does, for fewer bytes than this: 20
  JitShort,    \* the compiled encoders do: 40
  LatinLimit   \* up to so many bytes the browser's compiled decoder does not decode: 16

ASSUME TsTextAssumption ==
  /\ Base = 8
  /\ ShortWrite \in 1..CompactLengthThreshold /\ JitShort \in 1..CompactLengthThreshold
  /\ ShortRead \in Nat /\ LatinLimit \in Nat

IsAscii(s) == \A i \in DOMAIN s : s[i] < Base \div 2

FEFF == 7
Replaced == 8

Utf8Unit(u) ==
  CASE u < 4 -> <<u>> [] u \in 4..5 -> <<6, u>> [] u \in 6..7 -> <<7, 4, u - 2>>
    [] OTHER -> <<7, 5, 5>>

Utf8(s) == FlattenSeq([i \in DOMAIN s |-> Utf8Unit(s[i])])

\* Text from bytes, as Buffer.toString gives it.
Utf8Text(b) ==
  LET from[p \in 0..Len(b)] ==
        IF p = Len(b) THEN <<>>
        ELSE LET unit == {u \in 0..Replaced : IsPrefix(Utf8Unit(u), SubSeq(b, p + 1, Len(b)))}
                 u == IF unit = {} THEN Replaced ELSE CHOOSE x \in unit : TRUE
                 n == IF unit = {} THEN 1 ELSE Len(Utf8Unit(u))
             IN  <<u>> \o from[p + n]
  IN  from[0]

\* A TextDecoder without options drops a leading U+FEFF.
TextDecoded(b) ==
  LET s == Utf8Text(b) IN IF s # <<>> /\ s[1] = FEFF THEN Tail(s) ELSE s

\* The bytes that encodeInto and Buffer.write store in n cells: whole characters.
FittingUtf8(s, n) ==
  LET fitting == {k \in 1..Len(s) : Len(Utf8(SubSeq(s, 1, k))) <= n}
  IN  Utf8(SubSeq(s, 1, Max({0} \cup fitting)))

-----------------------------------------------------------------------------
Width(t) ==
  CASE t = "bool" -> SizeBool
    [] t \in {"int32", "uint32", "float32"} -> SizeInt32
    [] t \in {"int64", "uint64", "float64"} -> SizeInt64

IsFixed(t) == t \in {"bool", "int32", "int64", "uint32", "uint64", "float32", "float64"}
IsFloat(t) == t \in {"float32", "float64"}

\* The least bytes an element takes, as callers of readArrayCount give it.
MinBytes(t) == CASE IsFixed(t) -> Width(t) [] t = "pair" -> 2 [] OTHER -> 1

InRange(t, v) ==
  CASE t \in {"int32", "int64"} ->
         LET half == Base^Width(t) \div 2 IN v \in -half .. half - 1
    [] t \in {"uint32", "uint64"} -> v \in 0 .. Base^Width(t) - 1
    [] OTHER -> TRUE

FixedBytes(t, v) ==
  IF t = "bool" THEN BoolByte(v) ELSE LittleEndian(v % Base^Width(t), Width(t))

\* The value of type t whose bits make w.
FromWord(t, w) ==
  CASE t = "bool" -> w # 0
    [] t \in {"int32", "int64"} ->
         IF w >= Base^Width(t) \div 2 THEN w - Base^Width(t) ELSE w
    [] OTHER -> w

-----------------------------------------------------------------------------
(* The untagged format, as docs/WIRE_FORMAT.md gives it: what every        *)
(* untagged writer is compared with.                                       *)

ScalarOnWire(t, v) ==
  CASE IsFixed(t) -> FixedBytes(t, v)
    [] t = "string" -> AppendBytes(Utf8(v))
    [] t = "pair" -> AppendBytes(Utf8(v[1])) \o AppendBytes(Utf8(v[2]))
    [] OTHER -> AppendBytes(v)

OnWire(f) ==
  IF f.many
  THEN LittleEndian(Len(f.v), SizeInt32)
         \o FlattenSeq([i \in DOMAIN f.v |-> ScalarOnWire(f.t, f.v[i])])
  ELSE ScalarOnWire(f.t, f.v)
=============================================================================
