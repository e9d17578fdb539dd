-------------------------------- MODULE Wide --------------------------------
(***************************************************************************)
(* Integers of several bytes as the machine keeps them: a sequence of      *)
(* bytes, the least significant first.  This is the arithmetic that the    *)
(* language Natrix promises (tools/natrix), against which the code of its  *)
(* back end is compared.                                                   *)
(***************************************************************************)
EXTENDS Integers, Sequences

ByteSize == 256
Bytes == 0 .. ByteSize - 1

(* The integer n, modulo 256 ^ size. *)
OfInt(n, size) == [i \in 1 .. size |-> (n \div 256 ^ (i - 1)) % ByteSize]
Zero(size) == [i \in 1 .. size |-> 0]
Unsigned(x) == x[1] + (IF Len(x) > 1 THEN ByteSize * x[2] ELSE 0)
IsZero(x) == \A i \in DOMAIN x : x[i] = 0
Negative(x) == x[Len(x)] >= 128
Signed(x) == IF Negative(x) THEN Unsigned(x) - 256 ^ Len(x) ELSE Unsigned(x)

(* Addition from a carry; the carry into each byte. *)
CarryInto(x, y, c0) ==
  LET c[i \in 1 .. Len(x)] ==
        IF i = 1 THEN c0 ELSE (x[i - 1] + y[i - 1] + c[i - 1]) \div ByteSize
  IN  c
SumFrom(x, y, c0) ==
  LET c == CarryInto(x, y, c0)
  IN  [i \in DOMAIN x |-> (x[i] + y[i] + c[i]) % ByteSize]
WideSum(x, y) == SumFrom(x, y, 0)
Inverted(x) == [i \in DOMAIN x |-> ByteSize - 1 - x[i]]
Difference(x, y) == SumFrom(x, Inverted(y), 1)
Negated(x) == Difference(Zero(Len(x)), x)

(* Column i of the schoolbook product, then its bytes. *)
Column(x, y, i) ==
  LET s[j \in 0 .. i] == IF j = 0 THEN 0 ELSE s[j - 1] + x[j] * y[i + 1 - j] IN s[i]
WideProduct(x, y) ==
  LET acc[i \in 1 .. Len(x)] ==
        Column(x, y, i) + (IF i = 1 THEN 0 ELSE acc[i - 1] \div ByteSize)
  IN  [i \in DOMAIN x |-> acc[i] % ByteSize]

(* Bits, numbered from the least significant. *)
BitOf(x, k) == (x[k \div 8 + 1] \div 2 ^ (k % 8)) % 2
OfBits(size, Bit(_)) ==
  LET byte(i) == LET s[k \in 0 .. 8] == IF k = 0 THEN 0
                                        ELSE s[k - 1] + Bit(8 * i + k - 1) * 2 ^ (k - 1)
                 IN  s[8]
  IN  [i \in 1 .. size |-> byte(i - 1)]
BitCount(x) == 8 * Len(x)
ShiftedLeft(x, n) == OfBits(Len(x), LAMBDA k : IF k >= n THEN BitOf(x, k - n) ELSE 0)
ShiftedRight(x, n, fill) ==
  OfBits(Len(x), LAMBDA k : IF k + n < BitCount(x) THEN BitOf(x, k + n) ELSE fill)
WideAnd(x, y) == OfBits(Len(x), LAMBDA k : BitOf(x, k) * BitOf(y, k))
WideXor(x, y) == OfBits(Len(x), LAMBDA k : (BitOf(x, k) + BitOf(y, k)) % 2)
WideOr(x, y)  == Inverted(WideAnd(Inverted(x), Inverted(y)))

(* Order: the most significant byte that differs decides. *)
Below(x, y) ==
  \E i \in DOMAIN x : x[i] < y[i] /\ \A j \in i + 1 .. Len(x) : x[j] = y[j]
WithSignFlipped(x) == [x EXCEPT ![Len(x)] = (@ + 128) % ByteSize]
Less(x, y, sign) ==
  IF sign THEN Below(WithSignFlipped(x), WithSignFlipped(y)) ELSE Below(x, y)

(* Widening repeats the sign, narrowing drops the high bytes. *)
Resized(x, size, sign) ==
  [i \in 1 .. size |->
     IF i <= Len(x) THEN x[i] ELSE IF sign /\ Negative(x) THEN 255 ELSE 0]

(* Division leaves a remainder that is never negative. *)
Magnitude(n) == IF n < 0 THEN -n ELSE n
Remainder(n, d) == n % Magnitude(d)
Quotient(n, d) ==
  LET q == (n - Remainder(n, d)) \div Magnitude(d) IN IF d < 0 THEN -q ELSE q

(* Integers in a memory, from the address x on. *)
At(mem, x, size) == [i \in 1 .. size |-> mem[x + i - 1]]
Put(mem, x, bytes) ==
  [c \in DOMAIN mem |-> IF c >= x /\ c < x + Len(bytes) THEN bytes[c - x + 1] ELSE mem[c]]

OfBool(b) == <<IF b THEN 1 ELSE 0>>
=============================================================================
