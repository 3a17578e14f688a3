-------------------------------- MODULE Wire --------------------------------
(***************************************************************************)
(* The primitives of the wire format: the constants of pkg/wire, and the   *)
(* stateless Append*To and Read*At helpers of runtime/go/xpb/xpb.go, whose *)
(* checks the TypeScript and C runtimes make in the same order.            *)
(*                                                                         *)
(* A byte is a digit in Base.  The code's Base is 256; the compact length  *)
(* threshold and marker, and the range of an int32, follow from it.  A     *)
(* cursor p counts the bytes consumed: the next byte of b is b[p + 1].     *)
(* 4-byte kinds (int32, uint32, float32) are int32, 8-byte kinds int64,    *)
(* each as the unsigned number its bits make.                              *)
(***************************************************************************)
EXTENDS Integers, SequencesExt

CONSTANTS
  Base,           \* 256 in the code
  MaxElements,    \* common.DefaultMaxElements, 2^24 in the code
  MaxDecodeDepth  \* 64 in the code

ASSUME WireAssumption ==
  /\ Base \in Nat /\ Base >= 3
  /\ MaxElements \in Nat /\ MaxDecodeDepth \in Nat

Bytes == 0..Base - 1

\* What becomes of text depends on these bytes.  InvalidByte is never part of
\* UTF-8, as 0xFF; U+FEFF and U+FFFD, of three bytes each, are one byte and
\* three that mean nothing else.
Nul == 0
ByteOrderMark == Base - 2
InvalidByte == Base - 1
ReplacementCharacter == <<1, 1, 1>>

CompactLengthThreshold == Base - 2
CompactLengthMarker == Base - 1

SizeBool == 1
SizeInt32 == 4
SizeInt64 == 8

\* The k bytes of n, least significant first.
LittleEndian(n, k) == [i \in 1..k |-> (n \div Base^(i - 1)) % Base]

BoolByte(v) == <<IF v THEN 1 ELSE 0>>

AppendCompactLength(n) ==
  IF n <= CompactLengthThreshold THEN <<n>>
  ELSE <<CompactLengthMarker>> \o LittleEndian(n, SizeInt32)

\* A string, bytes or a nested message: length, then content.
AppendBytes(s) == AppendCompactLength(Len(s)) \o s

-----------------------------------------------------------------------------
\* The outcome of a read: a value and the cursor after it, or an error.
Got(v, p) == [ok |-> TRUE, v |-> v, p |-> p]
Failed == [ok |-> FALSE]

\* Goes on with the value and the cursor of a read that succeeded.
Then(r, Next(_, _)) == IF r.ok THEN Next(r.v, r.p) ELSE Failed

\* A value that is there; a message read from an envelope that ends at p.
Present(r) == Then(r, LAMBDA v, q : Got(<<v>>, q))
Within(r, p) == Then(r, LAMBDA v, q : Got(<<v>>, p))

\* The number whose little-endian bytes are b[p+1..p+k].
Word(b, p, k) ==
  FoldLeft(LAMBDA n, digit : n * Base + digit, 0, Reverse(SubSeq(b, p + 1, p + k)))

\* Reads one value per item, each where the last one ended.
ReadEach(items, p, Read(_, _)) ==
  FoldLeft(LAMBDA acc, item :
             Then(acc, LAMBDA vs, q : Then(Read(item, q), LAMBDA v, r : Got(Append(vs, v), r))),
           Got(<<>>, p), items)

\* Reads n values, once the count n itself was read.
ReadMany(count, Read(_)) ==
  Then(count, LAMBDA n, p : ReadEach([j \in 1..n |-> j], p, LAMBDA j, q : Read(q)))

ReadPair(key, Value(_)) ==
  Then(key, LAMBDA k, p : Then(Value(p), LAMBDA v, q : Got(<<k, v>>, q)))

ReadBoolAt(b, p) == IF p >= Len(b) THEN Failed ELSE Got(b[p + 1] # 0, p + 1)

ReadFixedAt(b, p, k) == IF p + k > Len(b) THEN Failed ELSE Got(Word(b, p, k), p + k)

ReadCompactLengthAt(b, p) ==
  CASE p >= Len(b) -> Failed
    [] p < Len(b) /\ b[p + 1] # CompactLengthMarker -> Got(b[p + 1], p + 1)
    [] OTHER -> ReadFixedAt(b, p + 1, SizeInt32)

\* Mutant: the end of the content is not compared with the end of the data.
ReadBytesAtUnchecked(b, p) ==
  Then(ReadCompactLengthAt(b, p), LAMBDA n, q :
         Got(SubSeq(b, q + 1, IF q + n > Len(b) THEN Len(b) ELSE q + n), q + n))

ReadBytesAt(b, p) ==
  Then(ReadCompactLengthAt(b, p), LAMBDA n, q :
         IF q + n > Len(b) THEN Failed ELSE Got(SubSeq(b, q + 1, q + n), q + n))

\* The count of a repeated or map field: not negative, within the budget, and
\* no more than what is left could hold at elementMin bytes each.
ReadArrayCountAt(b, p, elementMin) ==
  Then(ReadFixedAt(b, p, SizeInt32), LAMBDA n, q :
         IF /\ n < Base^SizeInt32 \div 2
            /\ n <= MaxElements
            /\ n <= (Len(b) - q) \div elementMin
         THEN Got(n, q) ELSE Failed)
=============================================================================
