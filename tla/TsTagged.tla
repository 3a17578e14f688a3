------------------------------ MODULE TsTagged ------------------------------
(***************************************************************************)
(* The tagged runtimes, hyper.ts and unsafe.ts: a tag before each value,   *)
(* varints, zigzag for signed numbers, and an encoder that grows only when *)
(* its caller asks (g, ensureCapacity); and the batches of hyper.ts.       *)
(*                                                                         *)
(* A tag is the field number times TagRadix plus the wire type.  Field     *)
(* numbers 0, 1 and 2 stand for those whose tag is less than half a byte,  *)
(* a byte, and more.                                                       *)
(***************************************************************************)
EXTENDS TsWriters, TsReaders

TagRadix == 4  \* 8 in the code, for wire types up to 5
VarintRadix == Base \div 2

WireType(t) ==
  CASE t \in {"bool", "sint32", "int64", "uint32", "uint64"} -> 0
    [] t = "float64" -> 1
    [] t \in {"string", "bytes"} -> 2
    [] t \in {"int32", "float32"} -> 3  \* int32 is E.i32f, sint32 E.i32 and writeInt32

Varint[n \in Nat] ==
  IF n < VarintRadix THEN <<n>> ELSE <<(n % VarintRadix) + VarintRadix>> \o Varint[n \div VarintRadix]

Zigzag(v) == IF v >= 0 THEN 2 * v ELSE -2 * v - 1

\* (z >> 1) ^ -(z & 1): hyper.ts shifts an unsigned number, index.ts a signed one.
Unzigzag(z) == IF z % 2 = 0 THEN z \div 2 ELSE -(z \div 2) - 1
Unsigned32(z) == z % Base^SizeInt32
Signed32(z) == FromWord("int32", z % Base^SizeInt32)

\* The zigzag of an int32 is an int32 again: where it is negative, the loop
\* that writes digits ends at once.
ZigzagVarint32(v) ==
  IF Zigzag(v) >= Base^SizeInt32 \div 2 THEN <<Zigzag(v) % Base>> ELSE Varint[Zigzag(v)]

-----------------------------------------------------------------------------
(* hyper.ts.                                                               *)

\* One byte, whatever the field number.
HyperTag(e, f) == Put(e, <<(f.n * TagRadix + WireType(f.t)) % Base>>)

HyperDelimited(e, f, n) == Put(HyperTag(e, f), Varint[n])

HyperString(e, f) ==
  LET s == Utf8(f.v)
      x == HyperDelimited(e, f, Len(s))
  IN  IF x.pos > Room(x) \/ Len(s) > Room(x) THEN Throw(x)
      ELSE [Store(x, x.pos, FittingUtf8(f.v, Room(x) - x.pos)) EXCEPT !.pos = @ + Len(s)]

HyperField(e, f) ==
  CASE f.t = "bool" -> Put(HyperTag(e, f), BoolByte(f.v))
    [] f.t = "sint32" -> Put(HyperTag(e, f), ZigzagVarint32(f.v))
    [] f.t = "string" -> HyperString(e, f)
    [] f.t = "bytes" -> PutChecked(HyperDelimited(e, f, Len(f.v)), f.v)
    [] OTHER -> IF InRange(f.t, f.v) THEN PutChecked(HyperTag(e, f), FixedBytes(f.t, f.v))
                ELSE Throw(HyperTag(e, f))

\* One item of batchEncode: four bytes kept for its length, which is written
\* last.
BatchItem(e, fields) ==
  LET r == FoldLeft(LAMBDA x, f : IF x.ok THEN HyperField(x, f) ELSE x,
                    [e EXCEPT !.pos = @ + SizeInt32], fields)
      n == r.pos - (e.pos + SizeInt32)
  IN  IF r.ok /\ e.pos + SizeInt32 <= Room(r) THEN Store(r, e.pos, FixedBytes("uint32", n))
      ELSE Throw(r)

-----------------------------------------------------------------------------
(* unsafe.ts.                                                              *)

\* (v << 1n) ^ (v >> 63n) of a bigint, which is not cut to 64 bits: of 65 bits, it
\* is no zigzag where v is no int64.
Zigzag64(v) ==
  CASE InRange("int64", v) -> Zigzag(v)
    [] ~InRange("int64", v) /\ v > 0 -> Zigzag(v) + 1
    [] OTHER -> Zigzag(v) - 1

\* A bigint is written as it is: one byte if it is negative, all its digits if it
\* has more than 64 bits.
BigVarint(v) == IF v < 0 THEN <<v % Base>> ELSE Varint[v]

UnsafeTag(e, f) == Put(e, Varint[f.n * TagRadix + WireType(f.t)])

\* Three bytes a unit are made sure of, and one for the length; a longer length
\* moves the text up, and what passes the end of the array is lost.
UnsafeString(e, f) ==
  LET x == UnsafeTag(e, f)
      y == EnsureCapacity([x EXCEPT !.pos = @ + 1], FALSE, 3 * Len(f.v))
      written == FittingUtf8(f.v, Room(y) - y.pos)
  IN  Put([y EXCEPT !.pos = x.pos], Varint[Len(written)] \o written)

UnsafeField(e, f) ==
  CASE f.t = "bool" -> Put(UnsafeTag(e, f), BoolByte(f.v))
    [] f.t = "sint32" -> Put(UnsafeTag(e, f), ZigzagVarint32(f.v))
    [] f.t = "int64" -> Put(UnsafeTag(e, f), Varint[Zigzag64(f.v)])
    [] f.t = "uint32" -> Put(UnsafeTag(e, f), Varint[f.v % Base^SizeInt32])
    [] f.t = "uint64" -> Put(UnsafeTag(e, f), BigVarint(f.v))
    [] f.t = "float32" -> Put(UnsafeTag(e, f), FixedBytes(f.t, f.v))
    [] f.t = "float64" -> PutChecked(UnsafeTag(e, f), FixedBytes(f.t, f.v))
    [] f.t = "string" -> UnsafeString(e, f)
    [] f.t = "bytes" -> PutChecked(Put(UnsafeTag(e, f), Varint[Len(f.v)]), f.v)

-----------------------------------------------------------------------------
(* Reading.  A byte past the end is undefined, and ends a varint as 0 does. *)

ByteAt(b, p) == IF p < Len(b) THEN b[p + 1] ELSE 0

ReadVarint(b, start) ==
  LET from[p \in Nat] ==
        IF ByteAt(b, p) < VarintRadix THEN Got(ByteAt(b, p), p + 1)
        ELSE Then(from[p + 1], LAMBDA v, q :
               Got(ByteAt(b, p) - VarintRadix + v * VarintRadix, q))
  IN  from[start]

\* readTag and D.tagf.
ReadTag(d, b, p) == IF d = "hyper" THEN Got(ByteAt(b, p), p + 1) ELSE ReadVarint(b, p)

ReadDelimited(b, p) ==
  Then(ReadVarint(b, p), LAMBDA n, q : Got(Clipped(b, q, n), q + n))

HyperRead(t, b, p) ==
  CASE t = "bool" -> Got(p >= Len(b) \/ b[p + 1] # 0, p + 1)
    [] t = "sint32" -> Read(ReadVarint(b, p), LAMBDA z : Unzigzag(Unsigned32(z)))
    [] t \in {"int32", "float32", "float64"} -> ReadFixed(t, b, p)
    [] t = "string" -> Read(ReadDelimited(b, p), Utf8Text)
    [] t = "bytes" -> ReadDelimited(b, p)

UnsafeRead(t, b, p) ==
  CASE t = "bool" -> IF p >= Len(b) THEN Got(TRUE, p + 1)
                     ELSE Read(ReadVarint(b, p), LAMBDA n : n # 0)
    [] t = "sint32" -> Read(ReadVarint(b, p), LAMBDA z : Unzigzag(Signed32(z)))
    [] t = "int64" -> Read(ReadVarint(b, p), Unzigzag)
    [] t = "uint32" -> Read(ReadVarint(b, p), LAMBDA n : n % Base^SizeInt32)
    [] t = "uint64" -> ReadVarint(b, p)
    [] t \in {"float32", "float64"} -> ReadFixed(t, b, p)
    [] t = "string" -> Read(ReadDelimited(b, p), TextDecoded)
    [] t = "bytes" -> ReadDelimited(b, p)

ReadTagged(d, t, b, p) == IF d = "hyper" THEN HyperRead(t, b, p) ELSE UnsafeRead(t, b, p)

\* Mutant: the length is added to the cursor from before it, here too.
SkipDelimitedShort(d, b, p) == p + ReadVarint(b, p).v

\* d.p += D.uv(d) adds to the cursor from before the length was read.
SkipDelimited(d, b, p) ==
  LET n == ReadVarint(b, p) IN IF d = "hyper" THEN p + n.v ELSE n.p + n.v

Skip(d, w, b, p) ==
  CASE w = 0 -> ReadVarint(b, p).p [] w = 1 -> p + SizeInt64
    [] w = 2 -> SkipDelimited(d, b, p) [] w = 3 -> p + SizeInt32

\* The values that follow v, and v.
Followed(v, rest) == Then(rest, LAMBDA vs, p : Got(<<v>> \o vs, p))

\* The loop callers write around eof() or m(), for a reader that knows the
\* fields in known: what it finds, in the order of the wire.
TaggedFrom(d, known, b, start) ==
  LET from[p \in Nat] ==
        IF p >= Len(b) THEN Got(<<>>, p)
        ELSE LET tag == ReadTag(d, b, p)
                 of == {i \in DOMAIN known : known[i].n = tag.v \div TagRadix
                                               /\ WireType(known[i].t) = tag.v % TagRadix}
             IN  IF of = {} THEN from[Skip(d, tag.v % TagRadix, b, tag.p)]
                 ELSE Then(ReadTagged(d, known[Min(of)].t, b, tag.p),
                           LAMBDA v, q : Followed(v, from[q]))
  IN  from[start]

TaggedDecoded(d, known, b) == TaggedFrom(d, known, b, 0)

\* batchDecode: items of the fields known, each in its length.
BatchDecoded(known, b) ==
  LET from[p \in Nat] ==
        IF p >= Len(b) THEN Got(<<>>, p)
        ELSE Then(ReadFixedAt(b, p, SizeInt32), LAMBDA n, q :
               Then(TaggedDecoded("hyper", known, Clipped(b, q, n)),
                    LAMBDA vs, r : Followed(vs, from[q + n])))
  IN  from[0]

-----------------------------------------------------------------------------
\* The formats they mean, which every field they write is compared with, the int64
\* and uint64 of unsafe.ts where they are in range: the tag is one byte for hyper.ts.
Tagged(d, f) ==
  LET tag == f.n * TagRadix + WireType(f.t)
  IN  (IF d = "unsafe" THEN Varint[tag] ELSE <<tag>>)
    \o CASE f.t = "bool" -> BoolByte(f.v)
         [] f.t \in {"sint32", "int64"} -> Varint[Zigzag(f.v)]
         [] f.t \in {"uint32", "uint64"} -> Varint[f.v % Base^Width(f.t)]
         [] f.t = "string" -> Varint[Len(Utf8(f.v))] \o Utf8(f.v)
         [] f.t = "bytes" -> Varint[Len(f.v)] \o f.v
         [] OTHER -> FixedBytes(f.t, f.v)
=============================================================================
