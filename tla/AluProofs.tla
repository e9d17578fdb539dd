------------------------------ MODULE AluProofs ------------------------------
(***************************************************************************)
(* The gates compute what the emulator computes, and a subtraction of two  *)
(* words compares them, at every width of the unit.                        *)
(*                                                                         *)
(* A bus is worth the sum of its wires.  The carries are a recursion from  *)
(* wire to wire, so what the adder computes is shown for its first k wires *)
(* by induction on k; then the sixteen operations are cases, of which the  *)
(* flags Z and S need to be looked at only once.                           *)
(***************************************************************************)
EXTENDS Alu, FiniteSetTheorems, TLAPS

Buses == [Bits -> BOOLEAN]
Worth(bus, i) == IF bus[i] THEN Weight[i] ELSE 0

---------------------------------------------------------------------------
(* Induction and recursion over the wires. *)

(* A set that holds 0, and the successor of each number it holds, holds    *)
(* every number: if some n were not in S, subtracting 1 would be an        *)
(* injection from the numbers up to n that are not in S into those of them *)
(* that are not n.                                                         *)
LEMMA SetInduction ==
  ASSUME NEW S, 0 \in S, \A n \in Nat : n \in S => n + 1 \in S
  PROVE  Nat \subseteq S
  <1> SUFFICES ASSUME NEW n \in Nat, n \notin S PROVE FALSE
    OBVIOUS
  <1> DEFINE T == {k \in 0 .. n : k \notin S}
             f == [k \in T |-> k - 1]
  <1>1. IsFiniteSet(T) /\ Cardinality(T) \in Nat
    <2>1. IsFiniteSet(0 .. n)
      BY FS_Interval
    <2> QED BY <2>1, FS_Subset, FS_CardinalityType
  <1>2. n \in T /\ IsFiniteSet(T \ {n}) /\ Cardinality(T \ {n}) = Cardinality(T) - 1
    <2>1. n \in T
      OBVIOUS
    <2> QED BY <1>1, <2>1, FS_RemoveElement
  <1>3. f \in [T -> T \ {n}]
    <2> SUFFICES ASSUME NEW k \in T PROVE k - 1 \in T \ {n}
      OBVIOUS
    <2>1. k # 0 /\ k - 1 \in Nat /\ (k - 1) + 1 = k
      OBVIOUS
    <2> QED BY <2>1
  <1>4. Cardinality(T \ {n}) < Cardinality(T)
    BY <1>1, <1>2
  <1> HIDE DEF f
  <1>5. PICK x \in T, y \in T : x # y /\ f[x] = f[y]
    BY <1>1, <1>2, <1>3, <1>4, FS_PigeonHole
  <1> QED BY <1>5 DEF f

LEMMA UpTo ==
  ASSUME NEW N \in Nat, NEW S, 0 \in S, \A n \in 0 .. N - 1 : n \in S => n + 1 \in S
  PROVE  0 .. N \subseteq S
  <1> DEFINE T == {n \in Nat : n <= N => n \in S}
  <1>1. 0 \in T /\ \A n \in Nat : n \in T => n + 1 \in T
    OBVIOUS
  <1> HIDE DEF T
  <1>2. Nat \subseteq T
    BY <1>1, SetInduction
  <1> QED BY <1>2 DEF T

(* A recursion from z whose step is T[i] has a solution. *)
Solves(f, m, z, T) == f[0] = z /\ \A i \in 1 .. m : f[i] = T[i][f[i - 1]]

LEMMA Recursion ==
  ASSUME NEW N \in Nat, NEW V, NEW z \in V, NEW T \in [1 .. N -> [V -> V]]
  PROVE  \E f \in [0 .. N -> V] : Solves(f, N, z, T)
  <1> USE DEF Solves
  <1> DEFINE S == {m \in 0 .. N : \E f \in [0 .. m -> V] : Solves(f, m, z, T)}
  <1>1. 0 \in S
    <2>1. [i \in 0 .. 0 |-> z] \in [0 .. 0 -> V] /\ Solves([i \in 0 .. 0 |-> z], 0, z, T)
      OBVIOUS
    <2> HIDE DEF Solves
    <2> QED BY <2>1
  <1>2. ASSUME NEW m \in 0 .. N - 1, m \in S PROVE m + 1 \in S
    <2>1. PICK f \in [0 .. m -> V] : Solves(f, m, z, T)
      BY <1>2
    <2> DEFINE g == [i \in 0 .. m + 1 |-> IF i = m + 1 THEN T[m + 1][f[m]] ELSE f[i]]
    <2>2. g \in [0 .. m + 1 -> V]
      <3> SUFFICES ASSUME NEW i \in 0 .. m + 1
                   PROVE  (IF i = m + 1 THEN T[m + 1][f[m]] ELSE f[i]) \in V
        OBVIOUS
      <3>1. m + 1 \in 1 .. N /\ f[m] \in V
        OBVIOUS
      <3> QED BY <3>1
    <2>3. Solves(g, m + 1, z, T)
      <3>1. g[0] = z
        BY <2>1
      <3>2. ASSUME NEW i \in 1 .. m + 1 PROVE g[i] = T[i][g[i - 1]]
        <4>1. CASE i = m + 1
          BY <4>1
        <4>2. CASE i # m + 1
          BY <2>1, <4>2
        <4> QED BY <4>1, <4>2
      <3> QED BY <3>1, <3>2
    <2> HIDE DEF g, Solves
    <2> QED BY <2>2, <2>3
  <1>3. N \in S
    <2> HIDE DEF S
    <2>1. 0 .. N \subseteq S
      BY <1>1, <1>2, UpTo, Zenon
    <2> QED BY <2>1
  <1> QED BY <1>3

---------------------------------------------------------------------------
(* Numbers and buses. *)

(* The weights double from wire to wire. *)
LEMMA Weights ==
  /\ W \in Nat /\ W > 1 /\ Weight[0] = 1
  /\ \A i \in 0 .. W : Weight[i] \in Nat /\ Weight[i] > 0
  /\ \A i \in Bits : Weight[i + 1] = 2 * Weight[i]
  <1> USE WidthAssumption
  <1> DEFINE T == [i \in 1 .. W |-> [v \in Nat |-> 2 * v]]
  <1>1. PICK f \in [0 .. W -> Nat] : Solves(f, W, 1, T)
    <2>1. T \in [1 .. W -> [Nat -> Nat]] /\ 1 \in Nat
      OBVIOUS
    <2> HIDE DEF T
    <2> QED BY <2>1, Recursion, Zenon
  <1>2. f = [i \in 0 .. W |-> IF i = 0 THEN 1 ELSE 2 * f[i - 1]]
    <2> SUFFICES ASSUME NEW i \in 0 .. W PROVE f[i] = IF i = 0 THEN 1 ELSE 2 * f[i - 1]
      OBVIOUS
    <2>1. CASE i = 0
      BY <1>1, <2>1 DEF Solves
    <2>2. CASE i # 0
      <3>1. i \in 1 .. W /\ i - 1 \in 0 .. W /\ f[i - 1] \in Nat
        BY <2>2
      <3>2. f[i] = T[i][f[i - 1]]
        BY <1>1, <3>1 DEF Solves
      <3>3. T[i][f[i - 1]] = 2 * f[i - 1]
        BY <3>1
      <3> HIDE DEF T
      <3> QED BY <2>2, <3>2, <3>3
    <2> HIDE DEF T
    <2> QED BY <2>1, <2>2
  <1> HIDE DEF T
  <1>3. Weight = [i \in 0 .. W |-> IF i = 0 THEN 1 ELSE 2 * Weight[i - 1]]
    BY <1>2 DEF Weight
  <1>4. Weight[0] = 1 /\ \A i \in Bits : Weight[i + 1] = 2 * Weight[i]
    <2>1. Weight[0] = 1
      BY <1>3
    <2>2. ASSUME NEW i \in Bits PROVE Weight[i + 1] = 2 * Weight[i]
      <3>1. i + 1 \in 0 .. W /\ i + 1 # 0 /\ (i + 1) - 1 = i
        BY DEF Bits
      <3> QED BY <1>3, <3>1
    <2> QED BY <2>1, <2>2
  <1> DEFINE S == {i \in Nat : Weight[i] \in Nat /\ Weight[i] > 0}
  <1>5. 0 \in S /\ \A i \in 0 .. W - 1 : i \in S => i + 1 \in S
    BY <1>4 DEF Bits
  <1>6. 0 .. W \subseteq S
    <2> HIDE DEF S
    <2> QED BY <1>5, UpTo
  <1> QED BY <1>4, <1>6

LEMMA Sizes ==
  /\ Half \in Nat /\ Half > 1 /\ Size = 2 * Half
  /\ Word = 0 .. Size - 1 /\ 0 \in Bits /\ W - 1 \in Bits /\ 0 # W - 1
  /\ W - 1 \in 0 .. W /\ W \in 0 .. W
  <1>1. /\ 0 \in Bits /\ 1 \in 0 .. W /\ W - 1 \in Bits /\ W - 1 # 0 /\ (W - 1) + 1 = W
        /\ W - 1 \in 0 .. W /\ W \in 0 .. W
    BY Weights DEF Bits
  <1>2. Size = 2 * Half /\ Half \in Nat /\ Half > 0
    BY <1>1, Weights DEF Size, Half
  <1>3. W - 2 \in Bits /\ (W - 2) + 1 = W - 1 /\ W - 2 \in 0 .. W
    BY Weights DEF Bits
  <1>4. Half = 2 * Weight[W - 2] /\ Weight[W - 2] \in Nat /\ Weight[W - 2] > 0
    BY <1>3, Weights DEF Half
  <1> QED BY <1>1, <1>2, <1>4 DEF Word

(* What the wires of a bus below i are worth. *)
LEMMA LowSums ==
  ASSUME NEW u \in Buses
  PROVE  /\ Low(u)[0] = 0
         /\ \A i \in Bits : Low(u)[i + 1] = Low(u)[i] + Worth(u, i)
         /\ \A i \in 0 .. W : Low(u)[i] \in 0 .. Weight[i] - 1
  <1> DEFINE T == [i \in 1 .. W |-> [v \in Nat |-> v + Worth(u, i - 1)]]
  <1>1. \A i \in 1 .. W : i - 1 \in Bits /\ Worth(u, i - 1) \in Nat
    BY Weights DEF Worth, Bits
  <1>2. PICK f \in [0 .. W -> Nat] : Solves(f, W, 0, T)
    <2>1. T \in [1 .. W -> [Nat -> Nat]] /\ 0 \in Nat
      <3> SUFFICES ASSUME NEW i \in 1 .. W, NEW v \in Nat PROVE v + Worth(u, i - 1) \in Nat
        OBVIOUS
      <3> QED BY <1>1
    <2> HIDE DEF T
    <2> QED BY <2>1, Weights, Recursion, Zenon
  <1>3. f = [i \in 0 .. W |-> IF i = 0 THEN 0 ELSE f[i - 1] + Worth(u, i - 1)]
    <2> SUFFICES ASSUME NEW i \in 0 .. W
                 PROVE  f[i] = IF i = 0 THEN 0 ELSE f[i - 1] + Worth(u, i - 1)
      OBVIOUS
    <2>1. CASE i = 0
      BY <1>2, <2>1 DEF Solves
    <2>2. CASE i # 0
      <3>1. i \in 1 .. W /\ i - 1 \in 0 .. W /\ f[i - 1] \in Nat
        BY <2>2, Weights
      <3>2. f[i] = T[i][f[i - 1]]
        BY <1>2, <3>1 DEF Solves
      <3>3. T[i][f[i - 1]] = f[i - 1] + Worth(u, i - 1)
        BY <3>1
      <3> HIDE DEF T
      <3> QED BY <2>2, <3>2, <3>3
    <2> HIDE DEF T
    <2> QED BY <2>1, <2>2
  <1> HIDE DEF T
  <1>4. Low(u) = [i \in 0 .. W |-> IF i = 0 THEN 0 ELSE Low(u)[i - 1] + Worth(u, i - 1)]
    BY <1>3 DEF Low, Worth
  <1>5. Low(u)[0] = 0 /\ \A i \in Bits : Low(u)[i + 1] = Low(u)[i] + Worth(u, i)
    <2>1. Low(u)[0] = 0
      BY <1>4, Weights
    <2>2. ASSUME NEW i \in Bits PROVE Low(u)[i + 1] = Low(u)[i] + Worth(u, i)
      <3>1. i + 1 \in 0 .. W /\ i + 1 # 0 /\ (i + 1) - 1 = i
        BY Weights DEF Bits
      <3> QED BY <1>4, <3>1
    <2> QED BY <2>1, <2>2
  <1> DEFINE S == {i \in Nat : Low(u)[i] \in 0 .. Weight[i] - 1}
  <1>6. 0 \in S /\ \A i \in 0 .. W - 1 : i \in S => i + 1 \in S
    <2>1. 0 \in S
      BY <1>5, Weights
    <2>2. ASSUME NEW i \in 0 .. W - 1, i \in S PROVE i + 1 \in S
      <3>1. i \in Bits /\ i \in 0 .. W /\ i + 1 \in 0 .. W /\ i + 1 \in Nat
        BY Weights DEF Bits
      <3>2. Worth(u, i) = Weight[i] \/ Worth(u, i) = 0
        BY DEF Worth
      <3>3. Low(u)[i + 1] = Low(u)[i] + Worth(u, i) /\ Weight[i + 1] = 2 * Weight[i]
        BY <1>5, <3>1, Weights
      <3>4. Low(u)[i] \in 0 .. Weight[i] - 1 /\ Weight[i] \in Nat /\ Weight[i] > 0
        BY <2>2, <3>1, Weights
      <3>5. Low(u)[i + 1] \in 0 .. Weight[i + 1] - 1
        BY <3>2, <3>3, <3>4
      <3> QED BY <3>1, <3>5
    <2> QED BY <2>1, <2>2
  <1>7. 0 .. W \subseteq S
    <2> HIDE DEF S
    <2> QED BY <1>6, UpTo, Weights
  <1> QED BY <1>5, <1>7

LEMMA Product ==
  ASSUME NEW m \in Nat, NEW p \in Int, NEW q \in Int, p < q
  PROVE  m * p + m <= m * q
  <1> DEFINE d == q - p - 1
  <1>1. d \in Nat /\ q = p + 1 + d
    OBVIOUS
  <1>2. m * q = m * p + m + m * d /\ m * d >= 0
    BY <1>1
  <1> HIDE DEF d
  <1>3. m * p \in Int /\ m * q \in Int /\ m * d \in Int
    BY <1>1
  <1> QED BY <1>2, <1>3

LEMMA Quotient ==
  ASSUME NEW m \in Nat, m > 0, NEW q \in Int, NEW r \in 0 .. m - 1
  PROVE  (m * q + r) \div m = q /\ (m * q + r) % m = r
  <1> DEFINE v == m * q + r
             p == v \div m
             s == v % m
  <1>1. v \in Int /\ p \in Int /\ s \in 0 .. m - 1 /\ v = m * p + s
    OBVIOUS
  <1>2. m * p \in Int /\ m * q \in Int /\ v = m * q + r
    BY <1>1
  <1> HIDE DEF p, s, v
  <1>3. CASE p < q
    BY <1>1, <1>2, <1>3, Product
  <1>4. CASE q < p
    BY <1>1, <1>2, <1>4, Product
  <1>5. CASE p = q
    BY <1>1, <1>2, <1>5 DEF p, s, v
  <1> QED BY <1>1, <1>3, <1>4, <1>5

(* What arithmetic modulo Size does to numbers that are out of range once. *)
LEMMA Wraps ==
  ASSUME NEW v \in Int
  PROVE  /\ v \in 0 .. Size - 1 => v % Size = v
         /\ v \in Size .. 2 * Size - 1 => v % Size = v - Size
         /\ v < 0 /\ v >= -Size => v % Size = v + Size
  <1>1. Size \in Nat /\ Size > 0
    BY Sizes
  <1>2. /\ Size * 0 = 0 /\ Size * 1 = Size /\ Size * (-1) = -Size
        /\ 0 \in Int /\ 1 \in Int /\ -1 \in Int
    BY <1>1
  <1>3. CASE v \in 0 .. Size - 1
    <2>1. (Size * 0 + v) % Size = v
      BY <1>1, <1>2, <1>3, Quotient
    <2> QED BY <1>1, <1>2, <1>3, <2>1
  <1>4. CASE v \in Size .. 2 * Size - 1
    <2>1. (Size * 1 + (v - Size)) % Size = v - Size
      <3>1. v - Size \in 0 .. Size - 1
        BY <1>1, <1>4
      <3> QED BY <1>1, <1>2, <3>1, Quotient
    <2> QED BY <1>1, <1>2, <1>4, <2>1
  <1>5. CASE v < 0 /\ v >= -Size
    <2>1. (Size * (-1) + (v + Size)) % Size = v + Size
      <3>1. v + Size \in 0 .. Size - 1
        BY <1>1, <1>5
      <3> QED BY <1>1, <1>2, <3>1, Quotient
    <2> QED BY <1>1, <1>2, <1>5, <2>1
  <1> QED BY <1>1, <1>3, <1>4, <1>5

(* The highest wire is the sign. *)
LEMMA ValueOf ==
  ASSUME NEW u \in Buses
  PROVE  /\ Value(u) \in Word
         /\ Low(u)[W - 1] \in 0 .. Half - 1
         /\ Value(u) = Low(u)[W - 1] + IF u[W - 1] THEN Half ELSE 0
         /\ u[W - 1] <=> Negative(Value(u))
  <1>1. W - 1 \in Bits /\ (W - 1) + 1 = W /\ W - 1 \in 0 .. W /\ W \in 0 .. W
    BY Weights DEF Bits
  <1>2. Value(u) \in Word /\ Low(u)[W - 1] \in 0 .. Half - 1
    BY <1>1, LowSums DEF Value, Word, Size, Half
  <1>3. Value(u) = Low(u)[W - 1] + Worth(u, W - 1)
    BY <1>1, LowSums DEF Value
  <1> QED BY <1>2, <1>3, Sizes DEF Worth, Half, Negative

(* Only the empty bus is worth nothing. *)
LEMMA ZeroBus ==
  ASSUME NEW u \in Buses
  PROVE  (\A i \in Bits : ~u[i]) <=> Value(u) = 0
  <1> DEFINE S == {k \in Nat : (\A i \in 0 .. k - 1 : ~u[i]) <=> Low(u)[k] = 0}
  <1>1. 0 \in S
    BY LowSums
  <1>2. ASSUME NEW k \in 0 .. W - 1, k \in S PROVE k + 1 \in S
    <2>1. /\ k \in Bits /\ k \in 0 .. W /\ k + 1 \in Nat
          /\ \A i \in 0 .. (k + 1) - 1 : i \in 0 .. k - 1 \/ i = k
          /\ k \in 0 .. (k + 1) - 1 /\ \A i \in 0 .. k - 1 : i \in 0 .. (k + 1) - 1
      BY Weights DEF Bits
    <2>2. Low(u)[k + 1] = Low(u)[k] + Worth(u, k) /\ Low(u)[k] \in Nat
      BY <2>1, LowSums, Weights
    <2>3. Weight[k] \in Nat /\ Weight[k] > 0
      BY <2>1, Weights
    <2>4. Low(u)[k + 1] = 0 <=> Low(u)[k] = 0 /\ ~u[k]
      BY <2>2, <2>3 DEF Worth
    <2>5. (\A i \in 0 .. (k + 1) - 1 : ~u[i]) <=> (\A i \in 0 .. k - 1 : ~u[i]) /\ ~u[k]
      BY <2>1
    <2> QED BY <1>2, <2>1, <2>4, <2>5
  <1>3. 0 .. W \subseteq S
    <2> HIDE DEF S
    <2> QED BY <1>1, <1>2, UpTo, Weights
  <1>4. W \in S
    BY <1>3, Weights
  <1> QED BY <1>4 DEF Value, Bits

(* The bits of a number are worth the number. *)
LEMMA BusOf ==
  ASSUME NEW x \in Word
  PROVE  Bus(x) \in Buses /\ Value(Bus(x)) = x
  <1> DEFINE u == Bus(x)
             S == {k \in Nat : x = Low(u)[k] + Weight[k] * (x \div Weight[k])}
  <1>1. u \in Buses /\ x \in Nat /\ \A i \in Bits : u[i] <=> (x \div Weight[i]) % 2 = 1
    <2>1. x \in Nat
      BY Sizes
    <2>2. u = [i \in Bits |-> (x \div Weight[i]) % 2 = 1]
      BY DEF Bus
    <2> HIDE DEF u
    <2>3. u \in Buses
      BY <2>2, Zenon DEF Buses
    <2>4. \A i \in Bits : u[i] <=> (x \div Weight[i]) % 2 = 1
      BY <2>2
    <2> QED BY <2>1, <2>3, <2>4
  <1> HIDE DEF u
  <1>2. 0 \in S
    BY <1>1, LowSums, Weights
  <1>3. ASSUME NEW k \in 0 .. W - 1, k \in S PROVE k + 1 \in S
    <2> DEFINE m == Weight[k]
               q == x \div m
               h == q \div 2
               t == q % 2
    <2>1. k \in Bits /\ k \in 0 .. W /\ k + 1 \in 0 .. W /\ k + 1 \in Nat
      BY Weights DEF Bits
    <2>2. m \in Nat /\ m > 0 /\ Weight[k + 1] = 2 * m
      BY <2>1, Weights
    <2>3. q \in Nat /\ h \in Nat /\ t \in {0, 1} /\ q = 2 * h + t
      BY <1>1, <2>2
    <2>4. x = Low(u)[k] + m * q /\ Low(u)[k] \in 0 .. m - 1
      BY <1>1, <1>3, <2>1, LowSums
    <2>5. Low(u)[k + 1] = Low(u)[k] + IF t = 1 THEN m ELSE 0
      BY <1>1, <2>1, LowSums DEF Worth
    <2>6. Low(u)[k + 1] \in 0 .. 2 * m - 1
      BY <1>1, <2>1, <2>2, LowSums
    <2> HIDE DEF m, q, h, t
    <2>7. x = (2 * m) * h + Low(u)[k + 1]
      <3>1. m * q = (2 * m) * h + m * t
        BY <2>2, <2>3
      <3>2. m * q \in Int /\ (2 * m) * h \in Int /\ m * t = IF t = 1 THEN m ELSE 0
        BY <2>2, <2>3
      <3> QED BY <2>2, <2>4, <2>5, <3>1, <3>2
    <2>8. x \div (2 * m) = h
      <3>1. 2 * m \in Nat /\ 2 * m > 0 /\ h \in Int
        BY <2>2, <2>3
      <3>2. ((2 * m) * h + Low(u)[k + 1]) \div (2 * m) = h
        BY <2>6, <3>1, Quotient
      <3> QED BY <2>7, <3>2
    <2> QED BY <1>1, <2>1, <2>2, <2>3, <2>6, <2>7, <2>8
  <1>4. 0 .. W \subseteq S
    <2> HIDE DEF S
    <2> QED BY <1>2, <1>3, UpTo, Weights
  <1>5. W \in S /\ Size \in Nat /\ Size > 0
    BY <1>4, Weights, Sizes
  <1>6. x \div Size = 0
    <2>1. Size * 0 + x = x /\ x \in 0 .. Size - 1
      BY <1>1, <1>5, Sizes
    <2> QED BY <1>5, <2>1, Quotient
  <1>7. Low(u)[W] \in Int
    BY <1>1, LowSums, Weights
  <1> QED BY <1>1, <1>5, <1>6, <1>7 DEF Value, Size, u

---------------------------------------------------------------------------
(* The adder. *)

CarryOn(x, y, sub, i, c) ==
  \/ c /\ ((x[i] # y[i]) # sub)
  \/ y[i] /\ (x[i] # sub)
Rippled(r, x, y, cIn, sub) ==
  r = [i \in 0 .. W |-> IF i = 0 THEN cIn ELSE CarryOn(x, y, sub, i - 1, r[i - 1])]

(* The recursion that defines the carries has the solution adder.v wires. *)
LEMMA Carries ==
  ASSUME NEW x \in Buses, NEW y \in Buses, NEW cIn \in BOOLEAN, NEW sub \in BOOLEAN
  PROVE  /\ Ripple(x, y, cIn, sub) \in [0 .. W -> BOOLEAN]
         /\ Ripple(x, y, cIn, sub)[0] = cIn
         /\ \A i \in Bits :
              Ripple(x, y, cIn, sub)[i + 1] = CarryOn(x, y, sub, i, Ripple(x, y, cIn, sub)[i])
  <1> DEFINE T == [i \in 1 .. W |-> [v \in BOOLEAN |-> CarryOn(x, y, sub, i - 1, v)]]
             R == Ripple(x, y, cIn, sub)
  <1>1. PICK f \in [0 .. W -> BOOLEAN] : Solves(f, W, cIn, T)
    <2>1. T \in [1 .. W -> [BOOLEAN -> BOOLEAN]]
      <3>1. \A i \in 1 .. W : \A v \in BOOLEAN : CarryOn(x, y, sub, i - 1, v) \in BOOLEAN
        BY Zenon DEF CarryOn
      <3> QED BY <3>1, Zenon
    <2> HIDE DEF T
    <2> QED BY <2>1, Weights, Recursion, Zenon
  <1>2. Rippled(f, x, y, cIn, sub)
    <2> SUFFICES ASSUME NEW i \in 0 .. W
                 PROVE  f[i] = IF i = 0 THEN cIn ELSE CarryOn(x, y, sub, i - 1, f[i - 1])
      BY DEF Rippled
    <2>1. CASE i = 0
      BY <1>1, <2>1 DEF Solves
    <2>2. CASE i # 0
      <3>1. i \in 1 .. W /\ i - 1 \in 0 .. W /\ f[i - 1] \in BOOLEAN
        BY <2>2, Weights
      <3>2. f[i] = T[i][f[i - 1]]
        BY <1>1, <3>1, Zenon DEF Solves
      <3>3. T[i][f[i - 1]] = CarryOn(x, y, sub, i - 1, f[i - 1])
        BY <3>1, Zenon
      <3> HIDE DEF T
      <3> QED BY <2>2, <3>2, <3>3
    <2> HIDE DEF T
    <2> QED BY <2>1, <2>2
  <1> HIDE DEF T
  <1>3. R = [i \in 0 .. W |-> IF i = 0 THEN cIn ELSE CarryOn(x, y, sub, i - 1, R[i - 1])]
    <2>1. R = CHOOSE r : Rippled(r, x, y, cIn, sub)
      BY DEF Ripple, Rippled, CarryOn
    <2> HIDE DEF R
    <2>2. Rippled(R, x, y, cIn, sub)
      BY <1>2, <2>1, Zenon
    <2> QED BY <2>2 DEF Rippled
  <1> HIDE DEF R
  <1>4. DOMAIN R = 0 .. W /\ R[0] = cIn
    BY <1>3, Weights
  <1>5. ASSUME NEW i \in Bits PROVE R[i + 1] = CarryOn(x, y, sub, i, R[i])
    <2>1. i + 1 \in 0 .. W /\ i + 1 # 0 /\ (i + 1) - 1 = i
      BY Weights DEF Bits
    <2> QED BY <1>3, <2>1
  <1> DEFINE S == {i \in Nat : R[i] \in BOOLEAN}
  <1>6. 0 \in S
    BY <1>4
  <1>7. ASSUME NEW i \in 0 .. W - 1, i \in S PROVE i + 1 \in S
    <2>1. i \in Bits /\ i + 1 \in Nat
      BY Weights DEF Bits
    <2>2. R[i + 1] \in BOOLEAN
      BY <1>5, <2>1, Zenon DEF CarryOn
    <2> QED BY <2>1, <2>2
  <1>8. 0 .. W \subseteq S
    <2> HIDE DEF S
    <2> QED BY <1>6, <1>7, UpTo, Weights
  <1>9. R \in [0 .. W -> BOOLEAN]
    <2>1. \A i \in 0 .. W : R[i] \in BOOLEAN
      BY <1>8
    <2> QED BY <1>3, <2>1, Zenon
  <1> QED BY <1>4, <1>5, <1>9 DEF R

Sum(x, y, c) == [i \in Bits |-> (x[i] # y[i]) # c[i]]

LEMMA SumBuses ==
  ASSUME NEW x \in Buses, NEW y \in Buses, NEW c \in [0 .. W -> BOOLEAN]
  PROVE  Sum(x, y, c) \in Buses /\ \A i \in Bits : Sum(x, y, c)[i] = ((x[i] # y[i]) # c[i])
  <1>1. \A i \in Bits : ((x[i] # y[i]) # c[i]) \in BOOLEAN
    OBVIOUS
  <1>2. Sum(x, y, c) \in Buses
    BY <1>1, Zenon DEF Sum, Buses
  <1>3. \A i \in Bits : Sum(x, y, c)[i] = ((x[i] # y[i]) # c[i])
    BY Zenon DEF Sum
  <1> QED BY <1>2, <1>3

(* One cell of the adder, whose wires are worth m and whose carry 2 * m. *)
LEMMA AddCell ==
  ASSUME NEW m \in Nat, NEW p \in BOOLEAN, NEW q \in BOOLEAN, NEW c \in BOOLEAN,
         NEW r \in BOOLEAN, NEW k \in BOOLEAN,
         r <=> ((p <=> ~q) <=> ~c), k <=> ((c /\ (p <=> ~q)) \/ (q /\ p))
  PROVE  LET V(w) == IF w THEN m ELSE 0 IN V(r) + 2 * V(k) = V(p) + V(q) + V(c)
  OBVIOUS

LEMMA SubtractCell ==
  ASSUME NEW m \in Nat, NEW p \in BOOLEAN, NEW q \in BOOLEAN, NEW c \in BOOLEAN,
         NEW r \in BOOLEAN, NEW k \in BOOLEAN,
         r <=> ((p <=> ~q) <=> ~c), k <=> ((c /\ (p <=> q)) \/ (q /\ ~p))
  PROVE  LET V(w) == IF w THEN m ELSE 0 IN V(r) - 2 * V(k) = V(p) - V(q) - V(c)
  <1>1. CASE q
    BY <1>1
  <1>2. CASE ~q
    BY <1>2
  <1> QED BY <1>1, <1>2

(* What # says of Booleans, in a form that arithmetic goes on with. *)
LEMMA Wires ==
  ASSUME NEW p \in BOOLEAN, NEW q \in BOOLEAN, NEW c \in BOOLEAN, NEW sub \in BOOLEAN
  PROVE  LET k == (c /\ ((p # q) # sub)) \/ (q /\ (p # sub))
         IN  /\ ((p # q) # c) <=> ((p <=> ~q) <=> ~c)
             /\ ~sub => (k <=> ((c /\ (p <=> ~q)) \/ (q /\ p)))
             /\ sub => (k <=> ((c /\ (p <=> q)) \/ (q /\ ~p)))
  <1>1. ((p # q) # c) <=> ((p <=> ~q) <=> ~c)
    BY Zenon
  <1>2. ASSUME sub PROVE ((p # q) # sub <=> (p <=> q)) /\ (p # sub <=> ~p)
    BY <1>2, Zenon
  <1>3. ASSUME ~sub PROVE ((p # q) # sub <=> (p <=> ~q)) /\ (p # sub <=> p)
    BY <1>3, Zenon
  <1> QED BY <1>1, <1>2, <1>3, Zenon

(* The first k wires of the sum, and the carry out of them. *)
LEMMA Added ==
  ASSUME NEW x \in Buses, NEW y \in Buses, NEW cIn \in BOOLEAN, NEW sub \in BOOLEAN,
         NEW k \in 0 .. W
  PROVE  LET c == Ripple(x, y, cIn, sub)
             low == Low(Sum(x, y, c))[k]
             out == IF c[k] THEN Weight[k] ELSE 0
         IN  IF sub THEN low - out = Low(x)[k] - Low(y)[k] - Carry(cIn)
                    ELSE low + out = Low(x)[k] + Low(y)[k] + Carry(cIn)
  <1> DEFINE c == Ripple(x, y, cIn, sub)
             r == Sum(x, y, c)
             Out(i) == IF c[i] THEN Weight[i] ELSE 0
             Right(i) == IF sub THEN Low(r)[i] - Out(i) = Low(x)[i] - Low(y)[i] - Carry(cIn)
                                ELSE Low(r)[i] + Out(i) = Low(x)[i] + Low(y)[i] + Carry(cIn)
             S == {i \in Nat : Right(i)}
  <1>1. /\ c \in [0 .. W -> BOOLEAN] /\ c[0] = cIn
        /\ \A i \in Bits : c[i + 1] = CarryOn(x, y, sub, i, c[i])
    BY Carries
  <1> HIDE DEF c
  <1>2. r \in Buses /\ \A i \in Bits : r[i] = ((x[i] # y[i]) # c[i])
    BY <1>1, SumBuses
  <1> HIDE DEF r
  <1>3. 0 \in S
    <2>1. Low(x)[0] = 0 /\ Low(y)[0] = 0 /\ Low(r)[0] = 0
      BY <1>2, LowSums
    <2>2. Out(0) = Carry(cIn) /\ Carry(cIn) \in {0, 1}
      BY <1>1, Weights DEF Carry
    <2> HIDE DEF Out
    <2> QED BY <2>1, <2>2
  <1>4. ASSUME NEW i \in 0 .. W - 1, i \in S PROVE i + 1 \in S
    <2> DEFINE m == Weight[i]
    <2>1. i \in Bits /\ i \in 0 .. W /\ i + 1 \in 0 .. W /\ i + 1 \in Nat
      BY Weights DEF Bits
    <2>2. m \in Nat /\ m > 0 /\ Weight[i + 1] = 2 * m
      BY <2>1, Weights
    <2>3. /\ Low(x)[i + 1] = Low(x)[i] + (IF x[i] THEN m ELSE 0) /\ Low(x)[i] \in Nat
          /\ Low(y)[i + 1] = Low(y)[i] + (IF y[i] THEN m ELSE 0) /\ Low(y)[i] \in Nat
          /\ Low(r)[i + 1] = Low(r)[i] + (IF r[i] THEN m ELSE 0) /\ Low(r)[i] \in Nat
      BY <1>2, <2>1, LowSums, Weights DEF Worth
    <2>4. /\ x[i] \in BOOLEAN /\ y[i] \in BOOLEAN /\ c[i] \in BOOLEAN
          /\ r[i] = ((x[i] # y[i]) # c[i]) /\ c[i + 1] = CarryOn(x, y, sub, i, c[i])
      BY <1>1, <1>2, <2>1 DEF Buses
    <2>5. Carry(cIn) \in {0, 1} /\ Right(i)
      BY <1>4 DEF Carry
    <2> HIDE DEF m
    <2>6. Out(i) = (IF c[i] THEN m ELSE 0) /\ Out(i + 1) = (IF c[i + 1] THEN 2 * m ELSE 0)
      BY <2>2 DEF m
    <2> DEFINE V(w) == IF w THEN m ELSE 0
               k1 == CarryOn(x, y, sub, i, c[i])
    <2>7. /\ ~sub => V(r[i]) + 2 * V(k1) = V(x[i]) + V(y[i]) + V(c[i])
          /\ sub => V(r[i]) - 2 * V(k1) = V(x[i]) - V(y[i]) - V(c[i])
      <3>1. /\ k1 \in BOOLEAN /\ r[i] \in BOOLEAN /\ r[i] <=> ((x[i] <=> ~y[i]) <=> ~c[i])
            /\ ~sub => (k1 <=> ((c[i] /\ (x[i] <=> ~y[i])) \/ (y[i] /\ x[i])))
            /\ sub => (k1 <=> ((c[i] /\ (x[i] <=> y[i])) \/ (y[i] /\ ~x[i])))
        BY <2>4, Wires, Zenon DEF CarryOn
      <3> HIDE DEF k1
      <3>2. ~sub => V(r[i]) + 2 * V(k1) = V(x[i]) + V(y[i]) + V(c[i])
        BY <2>2, <2>4, <3>1, AddCell
      <3>3. sub => V(r[i]) - 2 * V(k1) = V(x[i]) - V(y[i]) - V(c[i])
        BY <2>2, <2>4, <3>1, SubtractCell
      <3> QED BY <3>2, <3>3
    <2>8. /\ V(r[i]) \in Int /\ V(x[i]) \in Int /\ V(y[i]) \in Int /\ V(c[i]) \in Int
          /\ V(k1) \in Int
          /\ Low(x)[i + 1] = Low(x)[i] + V(x[i]) /\ Low(y)[i + 1] = Low(y)[i] + V(y[i])
          /\ Low(r)[i + 1] = Low(r)[i] + V(r[i]) /\ Out(i) = V(c[i]) /\ Out(i + 1) = 2 * V(k1)
      BY <2>2, <2>3, <2>4, <2>6 DEF m
    <2> HIDE DEF m, V, Out, k1
    <2>9. Right(i + 1)
      <3>1. CASE sub
        BY <2>3, <2>5, <2>7, <2>8, <3>1
      <3>2. CASE ~sub
        BY <2>3, <2>5, <2>7, <2>8, <3>2
      <3> QED BY <3>1, <3>2
    <2> QED BY <2>1, <2>9
  <1>5. 0 .. W \subseteq S
    <2> HIDE DEF S
    <2> QED BY <1>3, <1>4, UpTo, Weights
  <1> QED BY <1>5 DEF r, c

(* With all its wires, the adder adds and subtracts modulo Size. *)
LEMMA Addition ==
  ASSUME NEW x \in Buses, NEW y \in Buses, NEW cIn \in BOOLEAN
  PROVE  LET c == Ripple(x, y, cIn, FALSE)
             v == Value(x) + Value(y) + Carry(cIn)
         IN  Value(Sum(x, y, c)) = v % Size /\ (c[W] <=> v >= Size)
  <1> DEFINE c == Ripple(x, y, cIn, FALSE)
             r == Sum(x, y, c)
             v == Value(x) + Value(y) + Carry(cIn)
  <1>1. c \in [0 .. W -> BOOLEAN] /\ r \in Buses /\ W \in 0 .. W
    <2>1. c \in [0 .. W -> BOOLEAN]
      BY Carries, Zenon
    <2> HIDE DEF c
    <2> QED BY <2>1, SumBuses, Weights
  <1>2. Value(r) + (IF c[W] THEN Size ELSE 0) = v
    BY <1>1, Added DEF Value, Size
  <1> HIDE DEF c, r
  <1>3. /\ Value(r) \in 0 .. Size - 1 /\ Value(x) \in 0 .. Size - 1 /\ Value(y) \in 0 .. Size - 1
        /\ Size \in Nat /\ Carry(cIn) \in {0, 1}
    BY <1>1, ValueOf, Sizes DEF Carry
  <1>4. v \in Int
    BY <1>3
  <1> HIDE DEF v
  <1>5. Value(r) + (IF c[W] THEN Size ELSE 0) = v => (c[W] <=> v >= Size)
    BY <1>3, <1>4
  <1>6. Value(r) = v % Size /\ (c[W] <=> v >= Size)
    BY <1>2, <1>3, <1>4, <1>5, Wraps
  <1> QED BY <1>6 DEF c, r, v

LEMMA Subtraction ==
  ASSUME NEW x \in Buses, NEW y \in Buses, NEW cIn \in BOOLEAN
  PROVE  LET c == Ripple(x, y, cIn, TRUE)
             v == Value(x) - Value(y) - Carry(cIn)
         IN  Value(Sum(x, y, c)) = v % Size /\ (c[W] <=> v < 0)
  <1> DEFINE c == Ripple(x, y, cIn, TRUE)
             r == Sum(x, y, c)
             v == Value(x) - Value(y) - Carry(cIn)
  <1>1. c \in [0 .. W -> BOOLEAN] /\ r \in Buses /\ W \in 0 .. W
    <2>1. c \in [0 .. W -> BOOLEAN]
      BY Carries, Zenon
    <2> HIDE DEF c
    <2> QED BY <2>1, SumBuses, Weights
  <1>2. Value(r) - (IF c[W] THEN Size ELSE 0) = v
    BY <1>1, Added DEF Value, Size
  <1> HIDE DEF c, r
  <1>3. /\ Value(r) \in 0 .. Size - 1 /\ Value(x) \in 0 .. Size - 1 /\ Value(y) \in 0 .. Size - 1
        /\ Size \in Nat /\ Carry(cIn) \in {0, 1}
    BY <1>1, ValueOf, Sizes DEF Carry
  <1>4. v \in Int /\ v >= -Size
    BY <1>3
  <1> HIDE DEF v
  <1>5. Value(r) - (IF c[W] THEN Size ELSE 0) = v => (c[W] <=> v < 0)
    BY <1>3, <1>4
  <1>6. Value(r) = v % Size /\ (c[W] <=> v < 0)
    BY <1>2, <1>3, <1>4, <1>5, Wraps
  <1> QED BY <1>6 DEF c, r, v

(* The last two carries differ where the sign of the result is wrong. *)
LastDiffer(x, y, sub, c, r) ==
  (c[W - 1] # c[W]) <=> (x[W - 1] <=> (y[W - 1] <=> ~sub)) /\ ~(r[W - 1] <=> x[W - 1])
LEMMA LastCarries ==
  ASSUME NEW x \in Buses, NEW y \in Buses, NEW cIn \in BOOLEAN, NEW sub \in BOOLEAN
  PROVE  LastDiffer(x, y, sub, Ripple(x, y, cIn, sub), Sum(x, y, Ripple(x, y, cIn, sub)))
  <1> DEFINE top == W - 1
             c == Ripple(x, y, cIn, sub)
             r == Sum(x, y, c)
  <1>1. top \in Bits /\ top + 1 = W /\ top \in 0 .. W
    BY Weights DEF Bits
  <1>2. c \in [0 .. W -> BOOLEAN] /\ c[W] = CarryOn(x, y, sub, top, c[top])
    <2>1. c \in [0 .. W -> BOOLEAN] /\ \A i \in Bits : c[i + 1] = CarryOn(x, y, sub, i, c[i])
      BY Carries
    <2> HIDE DEF top, c
    <2> QED BY <1>1, <2>1
  <1>3. r[top] = ((x[top] # y[top]) # c[top])
    <2>1. \A i \in Bits : r[i] = ((x[i] # y[i]) # c[i])
      BY Zenon DEF Sum
    <2> HIDE DEF top, c, r
    <2> QED BY <1>1, <2>1
  <1> HIDE DEF top, c, r
  <1>4. x[top] \in BOOLEAN /\ y[top] \in BOOLEAN /\ c[top] \in BOOLEAN
    BY <1>1, <1>2 DEF Buses
  <1>5. r[top] <=> ((x[top] <=> ~y[top]) <=> ~c[top])
    BY <1>3, <1>4, Wires, Zenon
  <1>6. /\ ~sub => (c[W] <=> ((c[top] /\ (x[top] <=> ~y[top])) \/ (y[top] /\ x[top])))
        /\ sub => (c[W] <=> ((c[top] /\ (x[top] <=> y[top])) \/ (y[top] /\ ~x[top])))
    BY <1>2, <1>4, Wires, Zenon DEF CarryOn
  <1>7. c[W] \in BOOLEAN
    BY <1>2, Weights
  <1>8. c[top] # c[W] <=> ~(c[top] <=> c[W])
    BY <1>4, <1>7, Zenon
  <1>9. ~(c[top] <=> c[W]) <=> (x[top] <=> (y[top] <=> ~sub)) /\ ~(r[top] <=> x[top])
    BY <1>4, <1>5, <1>6, <1>7, Zenon
  <1>10. LastDiffer(x, y, sub, c, r)
    BY <1>8, <1>9, Zenon DEF LastDiffer, top
  <1> QED BY <1>10 DEF c, r

---------------------------------------------------------------------------
(* What reaches the gates. *)

Zero == [i \in Bits |-> FALSE]
One == [i \in Bits |-> i = 0]

LEMMA Decoded ==
  ASSUME NEW op \in 0 .. 15
  PROVE  /\ Wire(op, 0) <=> op \in {1, 3, 5, 7, 9, 11, 13, 15}
         /\ Wire(op, 1) <=> op \in {2, 3, 6, 7, 10, 11, 14, 15}
         /\ Wire(op, 2) <=> op \in {4, 5, 6, 7, 12, 13, 14, 15}
         /\ Wire(op, 3) <=> op \in 8 .. 15
  <1>1. /\ << 1, 2, 4, 8 >>[1] = 1 /\ << 1, 2, 4, 8 >>[2] = 2
        /\ << 1, 2, 4, 8 >>[3] = 4 /\ << 1, 2, 4, 8 >>[4] = 8
    OBVIOUS
  <1>2. /\ Wire(op, 0) <=> (op \div 1) % 2 = 1
        /\ Wire(op, 1) <=> (op \div 2) % 2 = 1
        /\ Wire(op, 2) <=> (op \div 4) % 2 = 1
        /\ Wire(op, 3) <=> (op \div 8) % 2 = 1
    BY <1>1 DEF Wire
  <1> QED BY <1>2

LEMMA Small ==
  /\ Zero \in Buses /\ Value(Zero) = 0
  /\ One \in Buses /\ Value(One) = 1
  /\ ~Zero[W - 1] /\ ~One[W - 1]
  <1>1. Zero \in Buses /\ One \in Buses
    BY Zenon DEF Zero, One, Buses
  <1>2. Value(Zero) = 0
    BY <1>1, ZeroBus DEF Zero
  <1>3. W - 1 \in Bits /\ W - 1 # 0
    BY Sizes
  <1>4. ~Zero[W - 1] /\ ~One[W - 1]
    BY <1>3 DEF Zero, One
  <1>5. Value(One) = 1
    <2> DEFINE S == {k \in Nat : k > 0 => Low(One)[k] = 1}
    <2>1. 0 \in S
      OBVIOUS
    <2>2. ASSUME NEW k \in 0 .. W - 1, k \in S PROVE k + 1 \in S
      <3>1. k \in Bits /\ k + 1 \in Nat
        BY Weights DEF Bits
      <3>2. Low(One)[k + 1] = Low(One)[k] + IF k = 0 THEN 1 ELSE 0
        BY <1>1, <3>1, LowSums, Weights DEF Worth, One
      <3>3. Low(One)[0] = 0
        BY <1>1, LowSums
      <3> QED BY <2>2, <3>1, <3>2, <3>3
    <2>3. 0 .. W \subseteq S
      <3> HIDE DEF S
      <3> QED BY <2>1, <2>2, UpTo, Weights
    <2> QED BY <2>3, Weights DEF Value
  <1> QED BY <1>1, <1>2, <1>4, <1>5

(* The operand multiplexers, operation by operation. *)
LEMMA Operands ==
  ASSUME NEW op \in 0 .. 15, NEW x \in Buses, NEW y \in Buses
  PROVE  LET sa == FirstOperand(op, x, y, FALSE)
             sb == SecondOperand(op, x, y, FALSE)
         IN  /\ sa = IF op \in {0, 4, 8, 12} THEN Zero ELSE x
             /\ sb = IF op \in {11, 15} THEN Zero ELSE IF op \in {4, 12} THEN x ELSE y
             /\ op \notin {3, 7} => WithOne(op, sb) = IF op \in {11, 15} THEN One ELSE sb
  <1> DEFINE sa == FirstOperand(op, x, y, FALSE)
             sb == SecondOperand(op, x, y, FALSE)
  <1>1. /\ (Wire(op, 0) \/ Wire(op, 1)) <=> op \notin {0, 4, 8, 12}
        /\ (Wire(op, 0) /\ Wire(op, 1)) <=> op \in {3, 7, 11, 15}
        /\ (Wire(op, 0) /\ Wire(op, 1) /\ Wire(op, 3)) <=> op \in {11, 15}
        /\ (Wire(op, 2) /\ ~(Wire(op, 0) \/ Wire(op, 1))) <=> op \in {4, 12}
    BY Decoded
  <1>2. sa = IF op \in {0, 4, 8, 12} THEN Zero ELSE x
    <2>1. CASE op \in {0, 4, 8, 12}
      BY <1>1, <2>1 DEF FirstOperand, Zero
    <2>2. CASE op \notin {0, 4, 8, 12}
      <3>1. sa = [i \in Bits |-> x[i]]
        BY <1>1, <2>2 DEF FirstOperand, Buses
      <3> QED BY <2>2, <3>1 DEF Buses
    <2> QED BY <2>1, <2>2
  <1>3. sb = IF op \in {11, 15} THEN Zero ELSE IF op \in {4, 12} THEN x ELSE y
    <2>1. CASE op \in {11, 15}
      BY <1>1, <2>1 DEF SecondOperand, Zero
    <2>2. CASE op \in {4, 12}
      <3>1. sb = [i \in Bits |-> x[i]]
        BY <1>1, <2>2 DEF SecondOperand, Buses
      <3>2. sb = x
        <4> HIDE DEF sb
        <4> QED BY <3>1 DEF Buses
      <3> HIDE DEF sb
      <3> QED BY <2>2, <3>2
    <2>3. CASE op \notin {4, 11, 12, 15}
      <3>1. sb = [i \in Bits |-> y[i]]
        BY <1>1, <2>3 DEF SecondOperand, Buses
      <3> QED BY <2>3, <3>1 DEF Buses
    <2> QED BY <2>1, <2>2, <2>3
  <1> HIDE DEF sa, sb
  <1>4. op \notin {3, 7} => WithOne(op, sb) = IF op \in {11, 15} THEN One ELSE sb
    <2>1. CASE op \in {11, 15}
      BY <1>1, <1>3, <2>1 DEF WithOne, Zero, One
    <2>2. CASE op \notin {3, 7, 11, 15}
      <3>1. sb \in Buses
        BY <1>3, <2>2
      <3> QED BY <1>1, <2>2, <3>1 DEF WithOne, Buses
    <2> QED BY <2>1, <2>2
  <1> QED BY <1>2, <1>3, <1>4 DEF sa, sb

---------------------------------------------------------------------------
(* The operations. *)

Outputs == [r : Word, z : BOOLEAN, c : BOOLEAN, s : BOOLEAN, o : BOOLEAN]

Agrees(op, x, y, c) ==
  LET hw == HwAlu(op, x, y, c, FALSE)
      emu == Exec(op, x, y, c)
  IN  /\ hw \in Outputs
      /\ hw.r = emu.r /\ hw.z = emu.z /\ hw.s = emu.s
      /\ op # MOV => hw.c = emu.c
      /\ op \in Arithmetic => hw.o = emu.o

(* With the result right, the flags Z and S are. *)
LEMMA SameFlags ==
  ASSUME NEW op \in 0 .. 15, NEW x, NEW y, NEW c, NEW r \in Buses,
         NEW hz, NEW hc \in BOOLEAN, NEW hs, NEW ho \in BOOLEAN,
         HwAlu(op, x, y, c, FALSE) = [r |-> Value(r), z |-> hz, c |-> hc, s |-> hs, o |-> ho],
         hz = (\A i \in Bits : ~r[i]), hs = r[W - 1],
         Value(r) = ExecResult(op, x, y, c),
         op # MOV => hc = ExecCarry(op, x, y, c),
         op \in Arithmetic => ho = ExecOverflow(op, x, y, Value(r))
  PROVE  Agrees(op, x, y, c)
  <1>1. hz <=> Value(r) = 0
    BY ZeroBus
  <1>2. hs <=> Negative(Value(r))
    BY ValueOf
  <1>3. hz \in BOOLEAN /\ hs \in BOOLEAN
    BY Sizes DEF Buses
  <1>4. hz = (Value(r) = 0)
    BY <1>1, <1>3
  <1>5. hs = Negative(Value(r))
    BY <1>2, <1>3 DEF Negative
  <1> DEFINE hw == HwAlu(op, x, y, c, FALSE)
             emu == Exec(op, x, y, c)
  <1>6. hw.r = Value(r) /\ hw.z = hz /\ hw.c = hc /\ hw.s = hs /\ hw.o = ho
    <2>1. hw = [r |-> Value(r), z |-> hz, c |-> hc, s |-> hs, o |-> ho]
      OBVIOUS
    <2> HIDE DEF hw
    <2> QED BY <2>1, Zenon
  <1>8. hw \in Outputs
    <2>1. Value(r) \in Word
      BY ValueOf
    <2>2. hw = [r |-> Value(r), z |-> hz, c |-> hc, s |-> hs, o |-> ho]
      OBVIOUS
    <2> HIDE DEF hw
    <2> QED BY <1>3, <2>1, <2>2 DEF Outputs
  <1>7. /\ emu.r = Value(r) /\ emu.z = (Value(r) = 0) /\ emu.c = ExecCarry(op, x, y, c)
        /\ emu.s = Negative(Value(r)) /\ emu.o = ExecOverflow(op, x, y, Value(r))
    BY Zenon DEF Exec
  <1> HIDE DEF hw, emu
  <1> QED BY <1>4, <1>5, <1>6, <1>7, <1>8, Zenon DEF Agrees, hw, emu

First(op, x, y) == FirstOperand(op, Bus(x), Bus(y), FALSE)
Addend(op, x, y) == WithOne(op, SecondOperand(op, Bus(x), Bus(y), FALSE))

LEMMA AdderCarryIn ==
  ASSUME NEW op \in 8 .. 15, NEW c \in BOOLEAN
  PROVE  /\ op \in {10, 14} => CarryIn(op, c) = c
         /\ op \in {8, 9, 11, 12, 13, 15} => CarryIn(op, c) = FALSE
         /\ op \in 12 .. 15 => Wire(op, 2) = TRUE
         /\ op \in 8 .. 11 => Wire(op, 2) = FALSE
  <1>1. op \in 0 .. 15
    OBVIOUS
  <1>2. /\ op \in {10, 14} => CarryIn(op, c) = c
        /\ op \in {8, 9, 11, 12, 13, 15} => CarryIn(op, c) = FALSE
    <2>1. (Wire(op, 1) /\ ~Wire(op, 0)) <=> op \in {10, 14}
      BY <1>1, Decoded
    <2>2. CarryIn(op, c) = (c /\ Wire(op, 1) /\ ~Wire(op, 0))
      BY Zenon DEF CarryIn
    <2>3. op \in {8, 9, 11, 12, 13, 15} => op \notin {10, 14}
      OBVIOUS
    <2> QED BY <2>1, <2>2, <2>3, Zenon
  <1>3. /\ op \in 12 .. 15 => Wire(op, 2) = TRUE
        /\ op \in 8 .. 11 => Wire(op, 2) = FALSE
    <2>1. Wire(op, 2) <=> op \in 12 .. 15
      BY <1>1, Decoded
    <2>2. op \in 8 .. 11 => op \notin 12 .. 15
      OBVIOUS
    <2> QED BY <2>1, <2>2, Zenon DEF Wire
  <1> QED BY <1>2, <1>3, Zenon

LEMMA AdderIn ==
  ASSUME NEW op \in 8 .. 15, NEW x \in Word, NEW y \in Word
  PROVE  /\ op \in {8, 12} => First(op, x, y) = Zero
         /\ op \in {9, 10, 11, 13, 14, 15} => First(op, x, y) = Bus(x)
         /\ op \in {11, 15} => Addend(op, x, y) = One
         /\ op = 12 => Addend(op, x, y) = Bus(x)
         /\ op \in {8, 9, 10, 13, 14} => Addend(op, x, y) = Bus(y)
  <1>1. Bus(x) \in Buses /\ Bus(y) \in Buses
    BY BusOf
  <1>2. op \in 0 .. 15 /\ op \notin {0, 4, 3, 7}
    OBVIOUS
  <1> DEFINE sa == FirstOperand(op, Bus(x), Bus(y), FALSE)
             sb == SecondOperand(op, Bus(x), Bus(y), FALSE)
  <1>3. /\ sa = IF op \in {0, 4, 8, 12} THEN Zero ELSE Bus(x)
        /\ sb = IF op \in {11, 15} THEN Zero ELSE IF op \in {4, 12} THEN Bus(x) ELSE Bus(y)
        /\ op \notin {3, 7} => WithOne(op, sb) = IF op \in {11, 15} THEN One ELSE sb
    BY <1>1, <1>2, Operands, Zenon
  <1> HIDE DEF sa, sb
  <1>4. (op \in {8, 12} => sa = Zero) /\ (op \in {9, 10, 11, 13, 14, 15} => sa = Bus(x))
    BY <1>2, <1>3
  <1>5. /\ op \in {11, 15} => WithOne(op, sb) = One
        /\ op = 12 => WithOne(op, sb) = Bus(x)
        /\ op \in {8, 9, 10, 13, 14} => WithOne(op, sb) = Bus(y)
    BY <1>2, <1>3
  <1> QED BY <1>4, <1>5, Zenon DEF sa, sb, First, Addend

Total(p, q, ci, sub) == IF sub THEN p - q - Carry(ci) ELSE p + q + Carry(ci)
OutOfRange(v, sub) == IF sub THEN v < 0 ELSE v >= Size
WrongSign(s, t, v, sub) == (s <=> (t <=> ~sub)) /\ ~(Negative(v % Size) <=> s)

Output(hw, sa, addend, v, sub, r, hz, hc, ho) ==
  /\ hw = [r |-> Value(r), z |-> hz, c |-> hc, s |-> r[W - 1], o |-> ho]
  /\ hz = (\A i \in Bits : ~r[i])
  /\ Value(r) = v % Size
  /\ hc <=> OutOfRange(v, sub)
  /\ ho <=> WrongSign(sa[W - 1], addend[W - 1], v, sub)

(* What the adder leaves: v is the number the sum stands for. *)
AddedUp(p, q, ci, sub, v, k, r) ==
  /\ k = Ripple(p, q, ci, sub) /\ r = Sum(p, q, k)
  /\ Value(r) = v % Size
  /\ k[W] <=> OutOfRange(v, sub)
  /\ (k[W - 1] # k[W]) <=> WrongSign(p[W - 1], q[W - 1], v, sub)

HasSum(p, q, ci, sub) ==
  \E k \in [0 .. W -> BOOLEAN] : \E r \in Buses :
    AddedUp(p, q, ci, sub, Total(Value(p), Value(q), ci, sub), k, r)

LEMMA AdderSums ==
  ASSUME NEW p \in Buses, NEW q \in Buses, NEW ci \in BOOLEAN, NEW sub \in BOOLEAN
  PROVE  HasSum(p, q, ci, sub)
  <1> DEFINE k == Ripple(p, q, ci, sub)
             r == Sum(p, q, k)
             v == Total(Value(p), Value(q), ci, sub)
  <1>1. k \in [0 .. W -> BOOLEAN]
    BY Carries
  <1>2. r \in Buses
    <2> HIDE DEF k
    <2> QED BY <1>1, SumBuses
  <1>3. Value(r) = v % Size /\ (k[W] <=> OutOfRange(v, sub))
    <2>1. CASE sub
      <3>1. sub = TRUE
        BY <2>1
      <3> QED BY <3>1, Subtraction DEF Total, OutOfRange
    <2>2. CASE ~sub
      <3>1. sub = FALSE
        BY <2>2
      <3> QED BY <3>1, Addition DEF Total, OutOfRange
    <2> QED BY <2>1, <2>2
  <1>4. LastDiffer(p, q, sub, k, r)
    BY LastCarries
  <1> HIDE DEF k, r
  <1>5. r[W - 1] <=> Negative(v % Size)
    BY <1>2, <1>3, ValueOf
  <1> HIDE DEF v
  <1>6. (k[W - 1] # k[W]) <=> WrongSign(p[W - 1], q[W - 1], v, sub)
    BY <1>4, <1>5, Zenon DEF LastDiffer, WrongSign
  <1>7. k = Ripple(p, q, ci, sub) /\ r = Sum(p, q, k) /\ v = Total(Value(p), Value(q), ci, sub)
    BY DEF k, r, v
  <1>8. AddedUp(p, q, ci, sub, v, k, r)
    BY <1>3, <1>6, <1>7, Zenon DEF AddedUp
  <1> QED BY <1>1, <1>2, <1>8, Zenon DEF v, HasSum

(* With the operands and the carry that it is fed. *)
Fed(op, x, y, c, sa, addend, ci, sub) ==
  /\ sa = First(op, x, y) /\ addend = Addend(op, x, y)
  /\ ci = CarryIn(op, c) /\ sub = Wire(op, 2)

HasOutput(hw, sa, addend, v, sub) ==
  \E r \in Buses : \E hz, hc, ho \in BOOLEAN :
    Output(hw, sa, addend, v, sub, r, hz, hc, ho)

LEMMA AdderOut ==
  ASSUME NEW op \in 8 .. 15, NEW x, NEW y, NEW c,
         NEW sa \in Buses, NEW addend \in Buses, NEW ci \in BOOLEAN, NEW sub \in BOOLEAN,
         Fed(op, x, y, c, sa, addend, ci, sub)
  PROVE  HasOutput(HwAlu(op, x, y, c, FALSE), sa, addend,
                   Total(Value(sa), Value(addend), ci, sub), sub)
  <1> DEFINE v == Total(Value(sa), Value(addend), ci, sub)
  <1>1. PICK k \in [0 .. W -> BOOLEAN] : \E r \in Buses : AddedUp(sa, addend, ci, sub, v, k, r)
    <2>1. HasSum(sa, addend, ci, sub)
      BY AdderSums, Zenon
    <2> QED BY <2>1, Zenon DEF HasSum
  <1>2. PICK r \in Buses : AddedUp(sa, addend, ci, sub, v, k, r)
    BY <1>1, Zenon
  <1>3. /\ k = Ripple(sa, addend, ci, sub) /\ r = Sum(sa, addend, k)
        /\ Value(r) = v % Size
        /\ k[W] <=> OutOfRange(v, sub)
        /\ (k[W - 1] # k[W]) <=> WrongSign(sa[W - 1], addend[W - 1], v, sub)
    BY <1>2, Zenon DEF AddedUp
  <1> HIDE DEF v
  <1> DEFINE hz == \A i \in Bits : ~r[i]
             hc == \/ k[W] /\ Wire(op, 3)
                   \/ op = SHL /\ sa[W - 1]
                   \/ op \in {SHR, SAR} /\ sa[0]
             ho == k[W - 1] # k[W]
  <1>4. HwAlu(op, x, y, c, FALSE) =
          [r |-> Value(r), z |-> hz, c |-> hc, s |-> r[W - 1], o |-> ho]
    <2>1. Wire(op, 3) /\ op \in 0 .. 15
      BY Decoded
    <2>2. op \notin {EXP, AND, OR, SHL, NOT, XOR, SHR, SAR}
      BY DEF EXP, AND, OR, SHL, NOT, XOR, SHR, SAR
    <2>3. k = Ripple(sa, addend, CarryIn(op, c), Wire(op, 2)) /\ r = Sum(sa, addend, k)
      BY <1>3, Zenon DEF Fed
    <2> QED BY <2>1, <2>2, <2>3 DEF HwAlu, Sum, Fed, First, Addend
  <1>5. hc <=> k[W]
    <2>1. Wire(op, 3) /\ op \notin {SHL, SHR, SAR}
      BY Decoded DEF SHL, SHR, SAR
    <2> QED BY <2>1, Zenon
  <1>6. hc <=> OutOfRange(v, sub)
    BY <1>3, <1>5, Zenon
  <1>7. ho <=> WrongSign(sa[W - 1], addend[W - 1], v, sub)
    BY <1>3, Zenon
  <1>8. Value(r) = v % Size
    BY <1>3, Zenon
  <1>9. hz \in BOOLEAN /\ hc \in BOOLEAN /\ ho \in BOOLEAN /\ hz = (\A i \in Bits : ~r[i])
    BY Zenon
  <1> HIDE DEF hz, hc, ho
  <1>10. Output(HwAlu(op, x, y, c, FALSE), sa, addend, v, sub, r, hz, hc, ho)
    BY <1>4, <1>6, <1>7, <1>8, <1>9, Zenon DEF Output
  <1> QED BY <1>9, <1>10, Zenon DEF v, HasOutput

(* An operation of the adder is right when its sum is what the emulator takes. *)
Expected(op, x, y, c, sa, addend, v, sub) ==
  /\ v % Size = ExecResult(op, x, y, c)
  /\ op # MOV => /\ ExecCarry(op, x, y, c) \in BOOLEAN
                 /\ ExecCarry(op, x, y, c) <=> OutOfRange(v, sub)
                 /\ ExecOverflow(op, x, y, v % Size) \in BOOLEAN
                 /\ ExecOverflow(op, x, y, v % Size) <=>
                      WrongSign(sa[W - 1], addend[W - 1], v, sub)

LEMMA AdderAgrees ==
  ASSUME NEW op \in 8 .. 15, NEW x, NEW y, NEW c,
         NEW sa \in Buses, NEW addend \in Buses, NEW ci \in BOOLEAN, NEW sub \in BOOLEAN,
         Fed(op, x, y, c, sa, addend, ci, sub),
         Expected(op, x, y, c, sa, addend, Total(Value(sa), Value(addend), ci, sub), sub)
  PROVE  Agrees(op, x, y, c)
  <1> DEFINE v == Total(Value(sa), Value(addend), ci, sub)
  <1>1. Expected(op, x, y, c, sa, addend, v, sub)
    OBVIOUS
  <1>2. \E r \in Buses : \E hz, hc, ho \in BOOLEAN :
           Output(HwAlu(op, x, y, c, FALSE), sa, addend, v, sub, r, hz, hc, ho)
    <2>1. HasOutput(HwAlu(op, x, y, c, FALSE), sa, addend, v, sub)
      BY AdderOut, Zenon
    <2> QED BY <2>1, Zenon DEF HasOutput
  <1> HIDE DEF v
  <1>3. PICK r \in Buses : \E hz, hc, ho \in BOOLEAN :
           Output(HwAlu(op, x, y, c, FALSE), sa, addend, v, sub, r, hz, hc, ho)
    BY <1>2, Zenon
  <1>4. PICK hz \in BOOLEAN, hc \in BOOLEAN, ho \in BOOLEAN :
           Output(HwAlu(op, x, y, c, FALSE), sa, addend, v, sub, r, hz, hc, ho)
    BY <1>3, Zenon
  <1>5. /\ HwAlu(op, x, y, c, FALSE) = [r |-> Value(r), z |-> hz, c |-> hc, s |-> r[W - 1],
         o |-> ho]
        /\ hz = (\A i \in Bits : ~r[i])
        /\ Value(r) = v % Size
        /\ hc <=> OutOfRange(v, sub)
        /\ ho <=> WrongSign(sa[W - 1], addend[W - 1], v, sub)
    BY <1>4, Zenon DEF Output
  <1>6. op # MOV => hc = ExecCarry(op, x, y, c)
    BY <1>1, <1>5, Zenon DEF Expected
  <1>7. op # MOV => ho = ExecOverflow(op, x, y, Value(r))
    BY <1>1, <1>5, Zenon DEF Expected
  <1>8. op \in 0 .. 15 /\ (op \in Arithmetic => op # MOV)
    BY DEF Arithmetic, ADD, SUB, ADC, SBB, INC, DEC, NEG, MOV
  <1>9. Value(r) = ExecResult(op, x, y, c)
    BY <1>1, <1>5, Zenon DEF Expected
  <1>10. op \in Arithmetic => ho = ExecOverflow(op, x, y, Value(r))
    BY <1>7, <1>8, Zenon
  <1> HIDE DEF Agrees
  <1> QED BY <1>5, <1>6, <1>8, <1>9, <1>10, SameFlags, Zenon
---------------------------------------------------------------------------
(* The eight operations of the adder. *)

(* gen_ovf looks at the operands' signs and the result's, as the last two  *)
(* carries do.                                                             *)
LEMMA Signs ==
  ASSUME NEW p \in Buses, NEW q \in Buses, NEW v, NEW sub \in BOOLEAN
  PROVE  Overflow(Value(p), Value(q), v % Size, ~sub) <=> WrongSign(p[W - 1], q[W - 1], v, sub)
  <1>1. (p[W - 1] <=> Negative(Value(p))) /\ (q[W - 1] <=> Negative(Value(q)))
    BY ValueOf
  <1>2. Negative(Value(p)) \in BOOLEAN /\ Negative(Value(q)) \in BOOLEAN
        /\ Negative(v % Size) \in BOOLEAN /\ p[W - 1] \in BOOLEAN /\ q[W - 1] \in BOOLEAN
    BY Sizes DEF Negative, Buses
  <1> QED BY <1>1, <1>2, Zenon DEF Overflow, WrongSign

LEMMA AdderCase ==
  ASSUME NEW op \in 8 .. 15, NEW x, NEW y, NEW c,
         NEW sa \in Buses, NEW addend \in Buses, NEW ci \in BOOLEAN, NEW sub \in BOOLEAN,
         NEW v, v = Total(Value(sa), Value(addend), ci, sub),
         Fed(op, x, y, c, sa, addend, ci, sub),
         v % Size = ExecResult(op, x, y, c),
         op # MOV => /\ ExecCarry(op, x, y, c) \in BOOLEAN
                     /\ ExecCarry(op, x, y, c) <=> OutOfRange(v, sub)
                     /\ ExecOverflow(op, x, y, v % Size)
                          = Overflow(Value(sa), Value(addend), v % Size, ~sub)
  PROVE  Agrees(op, x, y, c)
  <1>1. Overflow(Value(sa), Value(addend), v % Size, ~sub)
          <=> WrongSign(sa[W - 1], addend[W - 1], v, sub)
    BY Signs
  <1>2. Overflow(Value(sa), Value(addend), v % Size, ~sub) \in BOOLEAN
    BY Zenon DEF Overflow
  <1>3. op # MOV => /\ ExecOverflow(op, x, y, v % Size) \in BOOLEAN
                    /\ ExecOverflow(op, x, y, v % Size) <=>
                         WrongSign(sa[W - 1], addend[W - 1], v, sub)
    BY <1>1, <1>2, Zenon
  <1>4. Expected(op, x, y, c, sa, addend, v, sub)
    BY <1>3, Zenon DEF Expected
  <1>5. Expected(op, x, y, c, sa, addend, Total(Value(sa), Value(addend), ci, sub), sub)
    BY <1>4
  <1> HIDE DEF Agrees
  <1> QED BY <1>5, AdderAgrees, Zenon

LEMMA AdderOperations ==
  ASSUME NEW op \in 8 .. 15, NEW x \in Word, NEW y \in Word, NEW c \in BOOLEAN
  PROVE  Agrees(op, x, y, c)
  <1>1. /\ Bus(x) \in Buses /\ Value(Bus(x)) = x /\ Bus(y) \in Buses /\ Value(Bus(y)) = y
        /\ Zero \in Buses /\ Value(Zero) = 0 /\ One \in Buses /\ Value(One) = 1
    BY BusOf, Small
  <1>2. /\ x \in 0 .. Size - 1 /\ y \in 0 .. Size - 1 /\ Size \in Nat
        /\ Carry(c) \in {0, 1}
    BY Sizes DEF Carry
  <1>3. CASE op = MOV
    <2> DEFINE v == y
    <2>1. op = 8
      BY <1>3 DEF MOV
    <2>2. Fed(op, x, y, c, Zero, Bus(y), FALSE, FALSE)
      <3>1. First(op, x, y) = Zero
        <4>1. op \in {8, 12}
          BY <2>1
        <4> QED BY <4>1, AdderIn
      <3>2. Addend(op, x, y) = Bus(y)
        <4>1. op \in {8, 9, 10, 13, 14}
          BY <2>1
        <4> QED BY <4>1, AdderIn
      <3>3. CarryIn(op, c) = FALSE
        <4>1. op \in {8, 9, 11, 12, 13, 15}
          BY <2>1
        <4> QED BY <4>1, AdderCarryIn
      <3>4. Wire(op, 2) = FALSE
        <4>1. op \in 8 .. 11
          BY <2>1
        <4> QED BY <4>1, AdderCarryIn
      <3> QED BY <3>1, <3>2, <3>3, <3>4, Zenon DEF Fed
    <2>3. v = Total(Value(Zero), Value(Bus(y)), FALSE, FALSE)
      BY <1>1, <1>2 DEF Total, Carry
    <2>4. v % Size = ExecResult(op, x, y, c)
      BY <1>2, <2>1, Wraps DEF ExecResult, EXP, AND, OR, SHL, NOT, XOR, SHR, SAR, MOV, ADD,
             ADC, INC, NEG, SUB, SBB, DEC
    <2> HIDE DEF v
    <2> QED BY <1>1, <1>3, <2>2, <2>3, <2>4, AdderCase, Zenon
  <1>4. CASE op = ADD
    <2> DEFINE v == x + y
    <2>1. op = 9
      BY <1>4 DEF ADD
    <2>2. Fed(op, x, y, c, Bus(x), Bus(y), FALSE, FALSE)
      <3>1. First(op, x, y) = Bus(x)
        <4>1. op \in {9, 10, 11, 13, 14, 15}
          BY <2>1
        <4> QED BY <4>1, AdderIn
      <3>2. Addend(op, x, y) = Bus(y)
        <4>1. op \in {8, 9, 10, 13, 14}
          BY <2>1
        <4> QED BY <4>1, AdderIn
      <3>3. CarryIn(op, c) = FALSE
        <4>1. op \in {8, 9, 11, 12, 13, 15}
          BY <2>1
        <4> QED BY <4>1, AdderCarryIn
      <3>4. Wire(op, 2) = FALSE
        <4>1. op \in 8 .. 11
          BY <2>1
        <4> QED BY <4>1, AdderCarryIn
      <3> QED BY <3>1, <3>2, <3>3, <3>4, Zenon DEF Fed
    <2>3. v = Total(Value(Bus(x)), Value(Bus(y)), FALSE, FALSE)
      BY <1>1, <1>2 DEF Total, Carry
    <2>4. v % Size = ExecResult(op, x, y, c)
      BY <1>2, <2>1 DEF ExecResult, EXP, AND, OR, SHL, NOT, XOR, SHR, SAR, MOV, ADD, ADC, INC,
             NEG, SUB, SBB, DEC
    <2>5. ExecCarry(op, x, y, c) \in BOOLEAN /\ (ExecCarry(op, x, y, c) <=> OutOfRange(v, FALSE))
      BY <1>2, <2>1 DEF ExecCarry, OutOfRange, EXP, AND, OR, SHL, NOT, XOR, SHR, SAR, MOV, ADD,
             ADC, INC, NEG, SUB, SBB, DEC
    <2> HIDE DEF v
    <2>6. ExecOverflow(op, x, y, v % Size)
            = Overflow(Value(Bus(x)), Value(Bus(y)), v % Size, ~FALSE)
      <3>1. ExecOverflow(op, x, y, v % Size)
              = Overflow(Value(Bus(x)), Value(Bus(y)), v % Size, TRUE)
        BY <1>1, <2>1 DEF ExecOverflow, EXP, AND, OR, SHL, NOT, XOR, SHR, SAR, MOV, ADD, ADC,
               INC, NEG, SUB, SBB, DEC
      <3> QED BY <3>1, Zenon
    <2> QED BY <1>1, <2>2, <2>3, <2>4, <2>5, <2>6, AdderCase, Zenon
  <1>5. CASE op = ADC
    <2> DEFINE v == x + y + Carry(c)
    <2>1. op = 10
      BY <1>5 DEF ADC
    <2>2. Fed(op, x, y, c, Bus(x), Bus(y), c, FALSE)
      <3>1. First(op, x, y) = Bus(x)
        <4>1. op \in {9, 10, 11, 13, 14, 15}
          BY <2>1
        <4> QED BY <4>1, AdderIn
      <3>2. Addend(op, x, y) = Bus(y)
        <4>1. op \in {8, 9, 10, 13, 14}
          BY <2>1
        <4> QED BY <4>1, AdderIn
      <3>3. CarryIn(op, c) = c
        <4>1. op \in {10, 14}
          BY <2>1
        <4> QED BY <4>1, AdderCarryIn
      <3>4. Wire(op, 2) = FALSE
        <4>1. op \in 8 .. 11
          BY <2>1
        <4> QED BY <4>1, AdderCarryIn
      <3> QED BY <3>1, <3>2, <3>3, <3>4, Zenon DEF Fed
    <2>3. v = Total(Value(Bus(x)), Value(Bus(y)), c, FALSE)
      BY <1>1, <1>2 DEF Total
    <2>4. v % Size = ExecResult(op, x, y, c)
      BY <1>2, <2>1 DEF ExecResult, EXP, AND, OR, SHL, NOT, XOR, SHR, SAR, MOV, ADD, ADC, INC,
             NEG, SUB, SBB, DEC
    <2>5. ExecCarry(op, x, y, c) \in BOOLEAN /\ (ExecCarry(op, x, y, c) <=> OutOfRange(v, FALSE))
      BY <1>2, <2>1 DEF ExecCarry, OutOfRange, EXP, AND, OR, SHL, NOT, XOR, SHR, SAR, MOV, ADD,
             ADC, INC, NEG, SUB, SBB, DEC
    <2> HIDE DEF v
    <2>6. ExecOverflow(op, x, y, v % Size)
            = Overflow(Value(Bus(x)), Value(Bus(y)), v % Size, ~FALSE)
      <3>1. ExecOverflow(op, x, y, v % Size)
              = Overflow(Value(Bus(x)), Value(Bus(y)), v % Size, TRUE)
        BY <1>1, <2>1 DEF ExecOverflow, EXP, AND, OR, SHL, NOT, XOR, SHR, SAR, MOV, ADD, ADC,
               INC, NEG, SUB, SBB, DEC
      <3> QED BY <3>1, Zenon
    <2> QED BY <1>1, <2>2, <2>3, <2>4, <2>5, <2>6, AdderCase, Zenon
  <1>6. CASE op = INC
    <2> DEFINE v == x + 1
    <2>1. op = 11
      BY <1>6 DEF INC
    <2>2. Fed(op, x, y, c, Bus(x), One, FALSE, FALSE)
      <3>1. First(op, x, y) = Bus(x)
        <4>1. op \in {9, 10, 11, 13, 14, 15}
          BY <2>1
        <4> QED BY <4>1, AdderIn
      <3>2. Addend(op, x, y) = One
        <4>1. op \in {11, 15}
          BY <2>1
        <4> QED BY <4>1, AdderIn
      <3>3. CarryIn(op, c) = FALSE
        <4>1. op \in {8, 9, 11, 12, 13, 15}
          BY <2>1
        <4> QED BY <4>1, AdderCarryIn
      <3>4. Wire(op, 2) = FALSE
        <4>1. op \in 8 .. 11
          BY <2>1
        <4> QED BY <4>1, AdderCarryIn
      <3> QED BY <3>1, <3>2, <3>3, <3>4, Zenon DEF Fed
    <2>3. v = Total(Value(Bus(x)), Value(One), FALSE, FALSE)
      BY <1>1, <1>2 DEF Total, Carry
    <2>4. v % Size = ExecResult(op, x, y, c)
      BY <1>2, <2>1 DEF ExecResult, EXP, AND, OR, SHL, NOT, XOR, SHR, SAR, MOV, ADD, ADC, INC,
             NEG, SUB, SBB, DEC
    <2>5. ExecCarry(op, x, y, c) \in BOOLEAN /\ (ExecCarry(op, x, y, c) <=> OutOfRange(v, FALSE))
      BY <1>2, <2>1 DEF ExecCarry, OutOfRange, EXP, AND, OR, SHL, NOT, XOR, SHR, SAR, MOV, ADD,
             ADC, INC, NEG, SUB, SBB, DEC
    <2> HIDE DEF v
    <2>6. ExecOverflow(op, x, y, v % Size)
            = Overflow(Value(Bus(x)), Value(One), v % Size, ~FALSE)
      <3>1. ExecOverflow(op, x, y, v % Size)
              = Overflow(Value(Bus(x)), Value(One), v % Size, TRUE)
        BY <1>1, <2>1 DEF ExecOverflow, EXP, AND, OR, SHL, NOT, XOR, SHR, SAR, MOV, ADD, ADC,
               INC, NEG, SUB, SBB, DEC
      <3> QED BY <3>1, Zenon
    <2> QED BY <1>1, <2>2, <2>3, <2>4, <2>5, <2>6, AdderCase, Zenon
  <1>7. CASE op = NEG
    <2> DEFINE v == -x
    <2>1. op = 12
      BY <1>7 DEF NEG
    <2>2. Fed(op, x, y, c, Zero, Bus(x), FALSE, TRUE)
      <3>1. First(op, x, y) = Zero
        <4>1. op \in {8, 12}
          BY <2>1
        <4> QED BY <4>1, AdderIn
      <3>2. Addend(op, x, y) = Bus(x)
        <4>1. op = 12
          BY <2>1
        <4> QED BY <4>1, AdderIn
      <3>3. CarryIn(op, c) = FALSE
        <4>1. op \in {8, 9, 11, 12, 13, 15}
          BY <2>1
        <4> QED BY <4>1, AdderCarryIn
      <3>4. Wire(op, 2) = TRUE
        <4>1. op \in 12 .. 15
          BY <2>1
        <4> QED BY <4>1, AdderCarryIn
      <3> QED BY <3>1, <3>2, <3>3, <3>4, Zenon DEF Fed
    <2>3. v = Total(Value(Zero), Value(Bus(x)), FALSE, TRUE)
      BY <1>1, <1>2 DEF Total, Carry
    <2>4. v % Size = ExecResult(op, x, y, c)
      BY <1>2, <2>1 DEF ExecResult, EXP, AND, OR, SHL, NOT, XOR, SHR, SAR, MOV, ADD, ADC, INC,
             NEG, SUB, SBB, DEC
    <2>5. ExecCarry(op, x, y, c) \in BOOLEAN /\ (ExecCarry(op, x, y, c) <=> OutOfRange(v, TRUE))
      BY <1>2, <2>1 DEF ExecCarry, OutOfRange, EXP, AND, OR, SHL, NOT, XOR, SHR, SAR, MOV, ADD,
             ADC, INC, NEG, SUB, SBB, DEC
    <2> HIDE DEF v
    <2>6. ExecOverflow(op, x, y, v % Size)
            = Overflow(Value(Zero), Value(Bus(x)), v % Size, ~TRUE)
      <3>1. ExecOverflow(op, x, y, v % Size)
              = Overflow(Value(Zero), Value(Bus(x)), v % Size, FALSE)
        BY <1>1, <2>1 DEF ExecOverflow, EXP, AND, OR, SHL, NOT, XOR, SHR, SAR, MOV, ADD, ADC,
               INC, NEG, SUB, SBB, DEC
      <3> QED BY <3>1, Zenon
    <2> QED BY <1>1, <2>2, <2>3, <2>4, <2>5, <2>6, AdderCase, Zenon
  <1>8. CASE op = SUB
    <2> DEFINE v == x - y
    <2>1. op = 13
      BY <1>8 DEF SUB
    <2>2. Fed(op, x, y, c, Bus(x), Bus(y), FALSE, TRUE)
      <3>1. First(op, x, y) = Bus(x)
        <4>1. op \in {9, 10, 11, 13, 14, 15}
          BY <2>1
        <4> QED BY <4>1, AdderIn
      <3>2. Addend(op, x, y) = Bus(y)
        <4>1. op \in {8, 9, 10, 13, 14}
          BY <2>1
        <4> QED BY <4>1, AdderIn
      <3>3. CarryIn(op, c) = FALSE
        <4>1. op \in {8, 9, 11, 12, 13, 15}
          BY <2>1
        <4> QED BY <4>1, AdderCarryIn
      <3>4. Wire(op, 2) = TRUE
        <4>1. op \in 12 .. 15
          BY <2>1
        <4> QED BY <4>1, AdderCarryIn
      <3> QED BY <3>1, <3>2, <3>3, <3>4, Zenon DEF Fed
    <2>3. v = Total(Value(Bus(x)), Value(Bus(y)), FALSE, TRUE)
      BY <1>1, <1>2 DEF Total, Carry
    <2>4. v % Size = ExecResult(op, x, y, c)
      BY <1>2, <2>1 DEF ExecResult, EXP, AND, OR, SHL, NOT, XOR, SHR, SAR, MOV, ADD, ADC, INC,
             NEG, SUB, SBB, DEC
    <2>5. ExecCarry(op, x, y, c) \in BOOLEAN /\ (ExecCarry(op, x, y, c) <=> OutOfRange(v, TRUE))
      BY <1>2, <2>1 DEF ExecCarry, OutOfRange, EXP, AND, OR, SHL, NOT, XOR, SHR, SAR, MOV, ADD,
             ADC, INC, NEG, SUB, SBB, DEC
    <2> HIDE DEF v
    <2>6. ExecOverflow(op, x, y, v % Size)
            = Overflow(Value(Bus(x)), Value(Bus(y)), v % Size, ~TRUE)
      <3>1. ExecOverflow(op, x, y, v % Size)
              = Overflow(Value(Bus(x)), Value(Bus(y)), v % Size, FALSE)
        BY <1>1, <2>1 DEF ExecOverflow, EXP, AND, OR, SHL, NOT, XOR, SHR, SAR, MOV, ADD, ADC,
               INC, NEG, SUB, SBB, DEC
      <3> QED BY <3>1, Zenon
    <2> QED BY <1>1, <2>2, <2>3, <2>4, <2>5, <2>6, AdderCase, Zenon
  <1>9. CASE op = SBB
    <2> DEFINE v == x - y - Carry(c)
    <2>1. op = 14
      BY <1>9 DEF SBB
    <2>2. Fed(op, x, y, c, Bus(x), Bus(y), c, TRUE)
      <3>1. First(op, x, y) = Bus(x)
        <4>1. op \in {9, 10, 11, 13, 14, 15}
          BY <2>1
        <4> QED BY <4>1, AdderIn
      <3>2. Addend(op, x, y) = Bus(y)
        <4>1. op \in {8, 9, 10, 13, 14}
          BY <2>1
        <4> QED BY <4>1, AdderIn
      <3>3. CarryIn(op, c) = c
        <4>1. op \in {10, 14}
          BY <2>1
        <4> QED BY <4>1, AdderCarryIn
      <3>4. Wire(op, 2) = TRUE
        <4>1. op \in 12 .. 15
          BY <2>1
        <4> QED BY <4>1, AdderCarryIn
      <3> QED BY <3>1, <3>2, <3>3, <3>4, Zenon DEF Fed
    <2>3. v = Total(Value(Bus(x)), Value(Bus(y)), c, TRUE)
      BY <1>1, <1>2 DEF Total
    <2>4. v % Size = ExecResult(op, x, y, c)
      BY <1>2, <2>1 DEF ExecResult, EXP, AND, OR, SHL, NOT, XOR, SHR, SAR, MOV, ADD, ADC, INC,
             NEG, SUB, SBB, DEC
    <2>5. ExecCarry(op, x, y, c) \in BOOLEAN /\ (ExecCarry(op, x, y, c) <=> OutOfRange(v, TRUE))
      BY <1>2, <2>1 DEF ExecCarry, OutOfRange, EXP, AND, OR, SHL, NOT, XOR, SHR, SAR, MOV, ADD,
             ADC, INC, NEG, SUB, SBB, DEC
    <2> HIDE DEF v
    <2>6. ExecOverflow(op, x, y, v % Size)
            = Overflow(Value(Bus(x)), Value(Bus(y)), v % Size, ~TRUE)
      <3>1. ExecOverflow(op, x, y, v % Size)
              = Overflow(Value(Bus(x)), Value(Bus(y)), v % Size, FALSE)
        BY <1>1, <2>1 DEF ExecOverflow, EXP, AND, OR, SHL, NOT, XOR, SHR, SAR, MOV, ADD, ADC,
               INC, NEG, SUB, SBB, DEC
      <3> QED BY <3>1, Zenon
    <2> QED BY <1>1, <2>2, <2>3, <2>4, <2>5, <2>6, AdderCase, Zenon
  <1>10. CASE op = DEC
    <2> DEFINE v == x - 1
    <2>1. op = 15
      BY <1>10 DEF DEC
    <2>2. Fed(op, x, y, c, Bus(x), One, FALSE, TRUE)
      <3>1. First(op, x, y) = Bus(x)
        <4>1. op \in {9, 10, 11, 13, 14, 15}
          BY <2>1
        <4> QED BY <4>1, AdderIn
      <3>2. Addend(op, x, y) = One
        <4>1. op \in {11, 15}
          BY <2>1
        <4> QED BY <4>1, AdderIn
      <3>3. CarryIn(op, c) = FALSE
        <4>1. op \in {8, 9, 11, 12, 13, 15}
          BY <2>1
        <4> QED BY <4>1, AdderCarryIn
      <3>4. Wire(op, 2) = TRUE
        <4>1. op \in 12 .. 15
          BY <2>1
        <4> QED BY <4>1, AdderCarryIn
      <3> QED BY <3>1, <3>2, <3>3, <3>4, Zenon DEF Fed
    <2>3. v = Total(Value(Bus(x)), Value(One), FALSE, TRUE)
      BY <1>1, <1>2 DEF Total, Carry
    <2>4. v % Size = ExecResult(op, x, y, c)
      BY <1>2, <2>1 DEF ExecResult, EXP, AND, OR, SHL, NOT, XOR, SHR, SAR, MOV, ADD, ADC, INC,
             NEG, SUB, SBB, DEC
    <2>5. ExecCarry(op, x, y, c) \in BOOLEAN /\ (ExecCarry(op, x, y, c) <=> OutOfRange(v, TRUE))
      BY <1>2, <2>1 DEF ExecCarry, OutOfRange, EXP, AND, OR, SHL, NOT, XOR, SHR, SAR, MOV, ADD,
             ADC, INC, NEG, SUB, SBB, DEC
    <2> HIDE DEF v
    <2>6. ExecOverflow(op, x, y, v % Size)
            = Overflow(Value(Bus(x)), Value(One), v % Size, ~TRUE)
      <3>1. ExecOverflow(op, x, y, v % Size)
              = Overflow(Value(Bus(x)), Value(One), v % Size, FALSE)
        BY <1>1, <2>1 DEF ExecOverflow, EXP, AND, OR, SHL, NOT, XOR, SHR, SAR, MOV, ADD, ADC,
               INC, NEG, SUB, SBB, DEC
      <3> QED BY <3>1, Zenon
    <2> QED BY <1>1, <2>2, <2>3, <2>4, <2>5, <2>6, AdderCase, Zenon
  <1>11. \/ op = MOV \/ op = ADD \/ op = ADC \/ op = INC
         \/ op = NEG \/ op = SUB \/ op = SBB \/ op = DEC
    BY DEF MOV, ADD, ADC, INC, NEG, SUB, SBB, DEC
  <1> QED BY <1>3, <1>4, <1>5, <1>6, <1>7, <1>8, <1>9, <1>10, <1>11

---------------------------------------------------------------------------
(* The logical operations and the shifts. *)

LEMMA AllWires ==
  ASSUME NEW u \in Buses, NEW c \in BOOLEAN, \A i \in Bits : u[i] <=> c
  PROVE  Value(u) = IF c THEN Size - 1 ELSE 0
  <1> DEFINE S == {k \in Nat : Low(u)[k] = IF c THEN Weight[k] - 1 ELSE 0}
  <1>1. 0 \in S
    BY LowSums, Weights
  <1>2. ASSUME NEW k \in 0 .. W - 1, k \in S PROVE k + 1 \in S
    <2>1. k \in Bits /\ k \in 0 .. W /\ k + 1 \in Nat
      BY Weights DEF Bits
    <2>2. /\ Low(u)[k + 1] = Low(u)[k] + Worth(u, k)
          /\ Weight[k] \in Nat /\ Weight[k + 1] = 2 * Weight[k]
      BY <2>1, LowSums, Weights
    <2>3. Worth(u, k) = IF c THEN Weight[k] ELSE 0
      BY <2>1 DEF Worth
    <2>4. Low(u)[k] = IF c THEN Weight[k] - 1 ELSE 0
      BY <1>2
    <2> QED BY <2>1, <2>2, <2>3, <2>4
  <1>3. 0 .. W \subseteq S
    <2> HIDE DEF S
    <2> QED BY <1>1, <1>2, UpTo, Weights
  <1> QED BY <1>3, Weights DEF Value, Size

LEMMA Inverted ==
  ASSUME NEW u \in Buses, NEW r \in Buses, \A i \in Bits : r[i] <=> ~u[i]
  PROVE  Value(r) = Size - 1 - Value(u)
  <1> DEFINE S == {k \in Nat : Low(r)[k] + Low(u)[k] = Weight[k] - 1}
  <1>1. 0 \in S
    BY LowSums, Weights
  <1>2. ASSUME NEW k \in 0 .. W - 1, k \in S PROVE k + 1 \in S
    <2>1. k \in Bits /\ k \in 0 .. W /\ k + 1 \in Nat
      BY Weights DEF Bits
    <2>2. /\ Low(u)[k + 1] = Low(u)[k] + Worth(u, k) /\ Low(u)[k] \in Nat
          /\ Low(r)[k + 1] = Low(r)[k] + Worth(r, k) /\ Low(r)[k] \in Nat
          /\ Weight[k] \in Nat /\ Weight[k + 1] = 2 * Weight[k]
      BY <2>1, LowSums, Weights
    <2>3. /\ Worth(u, k) = (IF u[k] THEN Weight[k] ELSE 0)
          /\ Worth(r, k) = (IF u[k] THEN 0 ELSE Weight[k])
      BY <2>1 DEF Worth
    <2>4. Low(r)[k] + Low(u)[k] = Weight[k] - 1
      BY <1>2
    <2>5. Low(r)[k + 1] + Low(u)[k + 1] = Weight[k + 1] - 1
      BY <2>2, <2>3, <2>4
    <2> QED BY <2>1, <2>5
  <1>3. 0 .. W \subseteq S
    <2> HIDE DEF S
    <2> QED BY <1>1, <1>2, UpTo, Weights
  <1>4. Value(r) + Value(u) = Size - 1
    BY <1>3, Weights DEF Value, Size
  <1> QED BY <1>4, ValueOf, Sizes

(* SHL, and SHR with SAR. *)
LEMMA Doubled ==
  ASSUME NEW u \in Buses, NEW r \in Buses,
         ~r[0], \A i \in 0 .. W - 2 : r[i + 1] <=> u[i]
  PROVE  Value(r) = (2 * Value(u)) % Size
  <1> DEFINE S == {k \in Nat : k <= W - 1 => Low(r)[k + 1] = 2 * Low(u)[k]}
  <1>1. 0 \in S
    <2>1. 0 \in Bits
      BY Sizes
    <2>2. Low(r)[0 + 1] = Low(r)[0] + Worth(r, 0) /\ Low(r)[0] = 0 /\ Low(u)[0] = 0
      BY <2>1, LowSums
    <2> QED BY <2>2 DEF Worth
  <1>2. ASSUME NEW k \in 0 .. W - 1, k \in S PROVE k + 1 \in S
    <2>1. SUFFICES ASSUME k + 1 <= W - 1 PROVE Low(r)[(k + 1) + 1] = 2 * Low(u)[k + 1]
      BY <1>2
    <2>2. k \in 0 .. W - 2 /\ k \in Bits /\ k + 1 \in Bits /\ k \in 0 .. W
      BY <2>1, Weights DEF Bits
    <2>3. /\ Low(r)[(k + 1) + 1] = Low(r)[k + 1] + Worth(r, k + 1)
          /\ Low(u)[k + 1] = Low(u)[k] + Worth(u, k) /\ Low(u)[k] \in Nat
      BY <2>2, LowSums, Weights
    <2>4. Weight[k] \in Nat /\ Weight[k + 1] = 2 * Weight[k]
      BY <2>2, Weights
    <2>5. /\ Worth(u, k) = (IF u[k] THEN Weight[k] ELSE 0)
          /\ Worth(r, k + 1) = IF u[k] THEN 2 * Weight[k] ELSE 0
      BY <2>2, <2>4 DEF Worth
    <2>6. Low(r)[k + 1] = 2 * Low(u)[k]
      BY <1>2, <2>1
    <2> QED BY <2>3, <2>4, <2>5, <2>6
  <1>3. 0 .. W \subseteq S
    <2> HIDE DEF S
    <2> QED BY <1>1, <1>2, UpTo, Weights
  <1>4. Value(r) = 2 * Low(u)[W - 1]
    <2>1. W - 1 \in 0 .. W /\ (W - 1) + 1 = W /\ W - 1 <= W - 1
      BY Weights
    <2>2. Low(r)[(W - 1) + 1] = 2 * Low(u)[W - 1]
      BY <1>3, <2>1
    <2> QED BY <2>1, <2>2 DEF Value
  <1>5. /\ Value(u) = Low(u)[W - 1] + IF u[W - 1] THEN Half ELSE 0
        /\ Low(u)[W - 1] \in 0 .. Half - 1 /\ Half \in Nat /\ Size = 2 * Half
    BY ValueOf, Sizes
  <1>6. CASE u[W - 1]
    <2>1. 2 * Value(u) \in Size .. 2 * Size - 1 /\ 2 * Value(u) \in Int
          /\ 2 * Value(u) - Size = 2 * Low(u)[W - 1]
      BY <1>5, <1>6
    <2> QED BY <1>4, <2>1, Wraps
  <1>7. CASE ~u[W - 1]
    <2>1. 2 * Value(u) \in 0 .. Size - 1 /\ 2 * Value(u) \in Int /\ 2 * Value(u) = 2 * Low(u)[W - 1]
      BY <1>5, <1>7
    <2> QED BY <1>4, <2>1, Wraps
  <1> QED BY <1>6, <1>7

LEMMA Halved ==
  ASSUME NEW u \in Buses, NEW r \in Buses, \A i \in 0 .. W - 2 : r[i] <=> u[i + 1]
  PROVE  /\ Value(r) = Value(u) \div 2 + IF r[W - 1] THEN Half ELSE 0
         /\ u[0] <=> Value(u) % 2 = 1
  <1> DEFINE bit == IF u[0] THEN 1 ELSE 0
             S == {k \in Nat : k <= W - 1 => 2 * Low(r)[k] + bit = Low(u)[k + 1]}
  <1>1. 0 \in S
    <2>1. 0 \in Bits
      BY Sizes
    <2>2. Low(u)[0 + 1] = Low(u)[0] + Worth(u, 0) /\ Low(r)[0] = 0 /\ Low(u)[0] = 0
      BY <2>1, LowSums
    <2>3. Worth(u, 0) = bit
      BY Weights DEF Worth
    <2> HIDE DEF bit
    <2> QED BY <2>2, <2>3
  <1>2. ASSUME NEW k \in 0 .. W - 1, k \in S PROVE k + 1 \in S
    <2>1. SUFFICES ASSUME k + 1 <= W - 1 PROVE 2 * Low(r)[k + 1] + bit = Low(u)[(k + 1) + 1]
      BY <1>2
    <2>2. k \in 0 .. W - 2 /\ k \in Bits /\ k + 1 \in Bits /\ k \in 0 .. W
      BY <2>1, Weights DEF Bits
    <2>3. /\ Low(u)[(k + 1) + 1] = Low(u)[k + 1] + Worth(u, k + 1)
          /\ Low(r)[k + 1] = Low(r)[k] + Worth(r, k) /\ Low(r)[k] \in Nat
      BY <2>2, LowSums, Weights
    <2>4. Weight[k] \in Nat /\ Weight[k + 1] = 2 * Weight[k]
      BY <2>2, Weights
    <2>5. /\ Worth(r, k) = (IF r[k] THEN Weight[k] ELSE 0)
          /\ Worth(u, k + 1) = IF r[k] THEN 2 * Weight[k] ELSE 0
      BY <2>2, <2>4 DEF Worth
    <2>6. 2 * Low(r)[k] + bit = Low(u)[k + 1] /\ bit \in Nat
      BY <1>2, <2>1
    <2> HIDE DEF bit
    <2> QED BY <2>3, <2>4, <2>5, <2>6
  <1>3. 0 .. W \subseteq S
    <2> HIDE DEF S
    <2> QED BY <1>1, <1>2, UpTo, Weights
  <1>4. 2 * Low(r)[W - 1] + bit = Value(u)
    <2>1. W - 1 \in 0 .. W /\ (W - 1) + 1 = W /\ W - 1 <= W - 1
      BY Weights
    <2>2. 2 * Low(r)[W - 1] + bit = Low(u)[(W - 1) + 1]
      BY <1>3, <2>1
    <2> QED BY <2>1, <2>2 DEF Value
  <1>5. /\ Value(r) = Low(r)[W - 1] + IF r[W - 1] THEN Half ELSE 0
        /\ Low(r)[W - 1] \in Nat /\ Half \in Nat /\ Value(u) \in Nat
    BY ValueOf, Sizes
  <1>6. Low(r)[W - 1] = Value(u) \div 2 /\ bit = Value(u) % 2
    BY <1>4, <1>5
  <1> QED BY <1>5, <1>6

(* What the multiplexer of alu.v lets through when the adder is not wanted. *)
Logic(op, sa, sb, addend, c) ==
  CASE op = EXP -> [i \in Bits |-> c]
    [] op = AND -> [i \in Bits |-> sa[i] /\ sb[i]]
    [] op = OR  -> [i \in Bits |-> sa[i] \/ sb[i]]
    [] op = SHL -> [i \in Bits |-> i > 0 /\ sa[i - 1]]
    [] op = NOT -> [i \in Bits |-> ~sb[i]]
    [] op = XOR -> [i \in Bits |-> sa[i] # addend[i]]
    [] op \in {SHR, SAR} ->
         [i \in Bits |-> IF i = W - 1 THEN op = SAR /\ sa[W - 1] ELSE sa[i + 1]]
ShiftedOut(op, sa) == (op = SHL /\ sa[W - 1]) \/ (op \in {SHR, SAR} /\ sa[0])
Second(op, x, y) == SecondOperand(op, Bus(x), Bus(y), FALSE)

HasLogic(hw, r, out) ==
  \E hc, ho : /\ hw = [r |-> Value(r), z |-> (\A i \in Bits : ~r[i]),
                       c |-> hc, s |-> r[W - 1], o |-> ho]
              /\ hc \in BOOLEAN /\ ho \in BOOLEAN
              /\ hc <=> out

LEMMA LogicOut ==
  ASSUME NEW op \in 0 .. 7, NEW x, NEW y, NEW c, NEW r,
         r = Logic(op, First(op, x, y), Second(op, x, y), Addend(op, x, y), c)
  PROVE  HasLogic(HwAlu(op, x, y, c, FALSE), r, ShiftedOut(op, First(op, x, y)))
  <1> DEFINE k == Ripple(First(op, x, y), Addend(op, x, y), CarryIn(op, c), Wire(op, 2))
             hc == \/ k[W] /\ Wire(op, 3)
                   \/ op = SHL /\ First(op, x, y)[W - 1]
                   \/ op \in {SHR, SAR} /\ First(op, x, y)[0]
             ho == k[W - 1] # k[W]
  <1>1. op \in 0 .. 15 /\ ~Wire(op, 3)
    BY Decoded
  <1>2. \/ op = EXP \/ op = AND \/ op = OR \/ op = SHL
        \/ op = NOT \/ op = XOR \/ op = SHR \/ op = SAR
    BY DEF EXP, AND, OR, SHL, NOT, XOR, SHR, SAR
  <1>3. HwAlu(op, x, y, c, FALSE) =
          [r |-> Value(r), z |-> (\A i \in Bits : ~r[i]), c |-> hc, s |-> r[W - 1], o |-> ho]
    <2> DEFINE sa == First(op, x, y)
               sb == Second(op, x, y)
               addend == Addend(op, x, y)
               result ==
                 CASE Wire(op, 3) -> [i \in Bits |-> (sa[i] # addend[i]) # k[i]]
                   [] op = EXP -> [i \in Bits |-> c]
                   [] op = AND -> [i \in Bits |-> sa[i] /\ sb[i]]
                   [] op = OR  -> [i \in Bits |-> sa[i] \/ sb[i]]
                   [] op = SHL -> [i \in Bits |-> i > 0 /\ sa[i - 1]]
                   [] op = NOT -> [i \in Bits |-> ~sb[i]]
                   [] op = XOR -> [i \in Bits |-> sa[i] # addend[i]]
                   [] op \in {SHR, SAR} ->
                        [i \in Bits |-> IF i = W - 1 THEN op = SAR /\ sa[W - 1] ELSE sa[i + 1]]
    <2>1. HwAlu(op, x, y, c, FALSE) =
            [r |-> Value(result), z |-> (\A i \in Bits : ~result[i]),
             c |-> hc, s |-> result[W - 1], o |-> ho]
      BY Zenon DEF HwAlu, First, Second, Addend
    <2>2. result = r
      <3> HIDE DEF k, sa, sb, addend
      <3>1. result = Logic(op, sa, sb, addend, c)
        BY <1>1, <1>2 DEF Logic
      <3> HIDE DEF result
      <3> QED BY <3>1 DEF sa, sb, addend
    <2> HIDE DEF result
    <2> QED BY <2>1, <2>2, Zenon
  <1>4. hc <=> ShiftedOut(op, First(op, x, y))
    BY <1>1, Zenon DEF ShiftedOut
  <1>5. hc \in BOOLEAN /\ ho \in BOOLEAN
    BY Zenon
  <1> HIDE DEF hc, ho
  <1> QED BY <1>3, <1>4, <1>5, Zenon DEF HasLogic

LEMMA LogicOf ==
  ASSUME NEW op, NEW sa, NEW sb, NEW addend, NEW c
  PROVE  /\ op = EXP => Logic(op, sa, sb, addend, c) = [i \in Bits |-> c]
         /\ op = AND => Logic(op, sa, sb, addend, c) = [i \in Bits |-> sa[i] /\ sb[i]]
         /\ op = OR => Logic(op, sa, sb, addend, c) = [i \in Bits |-> sa[i] \/ sb[i]]
         /\ op = SHL => Logic(op, sa, sb, addend, c) = [i \in Bits |-> i > 0 /\ sa[i - 1]]
         /\ op = NOT => Logic(op, sa, sb, addend, c) = [i \in Bits |-> ~sb[i]]
         /\ op = XOR => Logic(op, sa, sb, addend, c) = [i \in Bits |-> sa[i] # addend[i]]
         /\ op \in {SHR, SAR} =>
              Logic(op, sa, sb, addend, c) =
                [i \in Bits |-> IF i = W - 1 THEN op = SAR /\ sa[W - 1] ELSE sa[i + 1]]
  BY DEF Logic, EXP, AND, OR, SHL, NOT, XOR, SHR, SAR

LEMMA LogicIn ==
  ASSUME NEW op \in 0 .. 7, NEW x \in Word, NEW y \in Word
  PROVE  /\ op \in {1, 2, 3, 5, 6, 7} => First(op, x, y) = Bus(x)
         /\ op \in {1, 2, 5} => Second(op, x, y) = Bus(y)
         /\ op = 4 => Second(op, x, y) = Bus(x)
         /\ op = 5 => Addend(op, x, y) = Bus(y)
  <1>1. Bus(x) \in Buses /\ Bus(y) \in Buses
    BY BusOf
  <1>2. op \in 0 .. 15
    OBVIOUS
  <1> DEFINE sa == FirstOperand(op, Bus(x), Bus(y), FALSE)
             sb == SecondOperand(op, Bus(x), Bus(y), FALSE)
  <1>3. /\ sa = IF op \in {0, 4, 8, 12} THEN Zero ELSE Bus(x)
        /\ sb = IF op \in {11, 15} THEN Zero ELSE IF op \in {4, 12} THEN Bus(x) ELSE Bus(y)
        /\ op \notin {3, 7} => WithOne(op, sb) = IF op \in {11, 15} THEN One ELSE sb
    BY <1>1, <1>2, Operands, Zenon
  <1> HIDE DEF sa, sb
  <1>4. op \in {1, 2, 3, 5, 6, 7} => sa = Bus(x)
    BY <1>3
  <1>5. (op \in {1, 2, 5} => sb = Bus(y)) /\ (op = 4 => sb = Bus(x))
    BY <1>3
  <1>6. op = 5 => WithOne(op, sb) = Bus(y)
    BY <1>3
  <1> QED BY <1>4, <1>5, <1>6, Zenon DEF sa, sb, First, Second, Addend

LEMMA LogicCase ==
  ASSUME NEW op \in 0 .. 7, NEW x, NEW y, NEW c, NEW r \in Buses,
         r = Logic(op, First(op, x, y), Second(op, x, y), Addend(op, x, y), c),
         Value(r) = ExecResult(op, x, y, c),
         ShiftedOut(op, First(op, x, y)) <=> ExecCarry(op, x, y, c),
         ExecCarry(op, x, y, c) \in BOOLEAN
  PROVE  Agrees(op, x, y, c)
  <1> DEFINE hw == HwAlu(op, x, y, c, FALSE)
             out == ShiftedOut(op, First(op, x, y))
             exec == ExecCarry(op, x, y, c)
  <1>1. HasLogic(hw, r, out)
    BY LogicOut
  <1>2. (out <=> exec) /\ exec \in BOOLEAN
    OBVIOUS
  <1>3. Value(r) = ExecResult(op, x, y, c)
    OBVIOUS
  <1>4. op \in 0 .. 15 /\ op \notin Arithmetic
    BY DEF Arithmetic, ADD, SUB, ADC, SBB, INC, DEC, NEG
  <1> HIDE DEF hw, out, exec
  <1>5. PICK hc, ho : /\ hw = [r |-> Value(r), z |-> (\A i \in Bits : ~r[i]),
                              c |-> hc, s |-> r[W - 1], o |-> ho]
                      /\ hc \in BOOLEAN /\ ho \in BOOLEAN
                      /\ hc <=> out
    BY <1>1 DEF HasLogic
  <1>6. hc = exec
    BY <1>2, <1>5
  <1> DEFINE hz == \A i \in Bits : ~r[i]
             hs == r[W - 1]
  <1>7. hw = [r |-> Value(r), z |-> hz, c |-> hc, s |-> hs, o |-> ho]
    BY <1>5
  <1>8. hz = (\A i \in Bits : ~r[i]) /\ hs = r[W - 1]
    BY Zenon
  <1> HIDE DEF hz, hs
  <1> QED BY <1>3, <1>4, <1>5, <1>6, <1>7, <1>8, SameFlags, Zenon DEF hw, exec

LEMMA LogicOperations ==
  ASSUME NEW op \in 0 .. 7, NEW x \in Word, NEW y \in Word, NEW c \in BOOLEAN
  PROVE  Agrees(op, x, y, c)
  <1> DEFINE p == Bus(x)
             q == Bus(y)
             sa == First(op, x, y)
             sb == Second(op, x, y)
             addend == Addend(op, x, y)
             r == Logic(op, sa, sb, addend, c)
  <1>1. p \in Buses /\ Value(p) = x /\ q \in Buses /\ Value(q) = y
    BY BusOf
  <1>2. x \in 0 .. Size - 1 /\ y \in 0 .. Size - 1 /\ Size \in Nat /\ Half \in Nat /\ Half > 1
    BY Sizes
  <1>3. \A i \in Bits : p[i] \in BOOLEAN /\ q[i] \in BOOLEAN
    <2> HIDE DEF p, q
    <2> QED BY <1>1 DEF Buses
  <1>4. /\ op \in {1, 2, 3, 5, 6, 7} => sa = p
        /\ op \in {1, 2, 5} => sb = q
        /\ op = 4 => sb = p
        /\ op = 5 => addend = q
    BY LogicIn
  <1>5. Bitwise(op, x, y) =
          Value([i \in Bits |->
            CASE op = AND -> p[i] /\ q[i] [] op = OR -> p[i] \/ q[i] [] op = XOR -> p[i] # q[i]])
    BY Zenon DEF Bitwise
  <1> HIDE DEF p, q, sa, sb, addend
  <1>6. r \in Buses /\ Value(r) = ExecResult(op, x, y, c)
    <2>1. CASE op = EXP
      <3>1. r = [i \in Bits |-> c]
        BY <1>4, <2>1, LogicOf DEF EXP
      <3>2. r \in Buses /\ \A i \in Bits : r[i] = (c)
        <4> HIDE DEF r
        <4>1. \A i \in Bits : (c) \in BOOLEAN
          BY <1>3
        <4> QED BY <3>1, <4>1 DEF Buses
      <3> HIDE DEF r
      <3>3. \A i \in Bits : r[i] <=> c
        BY <3>2, Zenon
      <3>4. Value(r) = IF c THEN Size - 1 ELSE 0
        BY <3>2, <3>3, AllWires, Zenon
      <3>5. ExecResult(op, x, y, c) = IF c THEN Size - 1 ELSE 0
        BY <2>1 DEF ExecResult, EXP, AND, OR, SHL, NOT, XOR, SHR, SAR, MOV, ADD,
                               ADC, INC, NEG, SUB, SBB, DEC
      <3> QED BY <3>2, <3>4, <3>5, Zenon
    <2>2. CASE op = AND
      <3>1. r = [i \in Bits |-> p[i] /\ q[i]]
        BY <1>4, <2>2, LogicOf DEF AND
      <3>2. r \in Buses /\ \A i \in Bits : r[i] = (p[i] /\ q[i])
        <4> HIDE DEF r
        <4>1. \A i \in Bits : (p[i] /\ q[i]) \in BOOLEAN
          BY <1>3
        <4> QED BY <3>1, <4>1 DEF Buses
      <3> HIDE DEF r
      <3>3. Bitwise(op, x, y) = Value(r)
        BY <1>5, <2>2, <3>1 DEF AND, OR, XOR
      <3>4. ExecResult(op, x, y, c) = Bitwise(op, x, y)
        BY <2>2 DEF ExecResult, EXP, AND, OR, SHL, NOT, XOR, SHR, SAR, MOV, ADD,
                               ADC, INC, NEG, SUB, SBB, DEC
      <3> QED BY <3>2, <3>3, <3>4
    <2>3. CASE op = OR
      <3>1. r = [i \in Bits |-> p[i] \/ q[i]]
        BY <1>4, <2>3, LogicOf DEF OR
      <3>2. r \in Buses /\ \A i \in Bits : r[i] = (p[i] \/ q[i])
        <4> HIDE DEF r
        <4>1. \A i \in Bits : (p[i] \/ q[i]) \in BOOLEAN
          BY <1>3
        <4> QED BY <3>1, <4>1 DEF Buses
      <3> HIDE DEF r
      <3>3. Bitwise(op, x, y) = Value(r)
        BY <1>5, <2>3, <3>1 DEF AND, OR, XOR
      <3>4. ExecResult(op, x, y, c) = Bitwise(op, x, y)
        BY <2>3 DEF ExecResult, EXP, AND, OR, SHL, NOT, XOR, SHR, SAR, MOV, ADD,
                               ADC, INC, NEG, SUB, SBB, DEC
      <3> QED BY <3>2, <3>3, <3>4
    <2>4. CASE op = XOR
      <3>1. r = [i \in Bits |-> p[i] # q[i]]
        BY <1>4, <2>4, LogicOf DEF XOR
      <3>2. r \in Buses /\ \A i \in Bits : r[i] = (p[i] # q[i])
        <4> HIDE DEF r
        <4>1. \A i \in Bits : (p[i] # q[i]) \in BOOLEAN
          BY <1>3
        <4> QED BY <3>1, <4>1 DEF Buses
      <3> HIDE DEF r
      <3>3. Bitwise(op, x, y) = Value(r)
        BY <1>5, <2>4, <3>1 DEF AND, OR, XOR
      <3>4. ExecResult(op, x, y, c) = Bitwise(op, x, y)
        BY <2>4 DEF ExecResult, EXP, AND, OR, SHL, NOT, XOR, SHR, SAR, MOV, ADD,
                               ADC, INC, NEG, SUB, SBB, DEC
      <3> QED BY <3>2, <3>3, <3>4
    <2>5. CASE op = NOT
      <3>1. r = [i \in Bits |-> ~p[i]]
        BY <1>4, <2>5, LogicOf DEF NOT
      <3>2. r \in Buses /\ \A i \in Bits : r[i] = (~p[i])
        <4> HIDE DEF r
        <4>1. \A i \in Bits : (~p[i]) \in BOOLEAN
          BY <1>3
        <4> QED BY <3>1, <4>1 DEF Buses
      <3> HIDE DEF r
      <3>3. \A i \in Bits : r[i] <=> ~p[i]
        BY <3>2, Zenon
      <3>4. Value(r) = Size - 1 - Value(p)
        BY <1>1, <3>2, <3>3, Inverted, Zenon
      <3>5. ExecResult(op, x, y, c) = Size - 1 - x
        BY <2>5 DEF ExecResult, EXP, AND, OR, SHL, NOT, XOR, SHR, SAR, MOV, ADD,
                               ADC, INC, NEG, SUB, SBB, DEC
      <3> QED BY <1>1, <3>2, <3>4, <3>5
    <2>6. CASE op = SHL
      <3>1. r = [i \in Bits |-> i > 0 /\ p[i - 1]]
        BY <1>4, <2>6, LogicOf DEF SHL
      <3>2. r \in Buses /\ \A i \in Bits : r[i] = (i > 0 /\ p[i - 1])
        <4> HIDE DEF r
        <4>1. \A i \in Bits : (i > 0 /\ p[i - 1]) \in BOOLEAN
          BY <1>3
        <4> QED BY <3>1, <4>1, Zenon DEF Buses
      <3> HIDE DEF r
      <3>3. ~r[0] /\ \A i \in 0 .. W - 2 : r[i + 1] <=> p[i]
        <4>1. 0 \in Bits /\ \A i \in 0 .. W - 2 : i + 1 \in Bits /\ i \in Bits /\ i + 1 > 0 /\ (i + 1) - 1 = i
          BY Weights DEF Bits
        <4>2. ~r[0]
          <5>1. r[0] = (0 > 0 /\ p[0 - 1]) /\ ~(0 > 0)
            BY <3>2, <4>1
          <5> QED BY <5>1, Zenon
        <4>3. ASSUME NEW i \in 0 .. W - 2 PROVE r[i + 1] <=> p[i]
          <5>1. r[i + 1] = (i + 1 > 0 /\ p[(i + 1) - 1])
            BY <3>2, <4>1, Zenon
          <5>2. i + 1 > 0 /\ (i + 1) - 1 = i
            BY <4>1
          <5> QED BY <5>1, <5>2, Zenon
        <4> QED BY <4>2, <4>3
      <3>4. Value(r) = (2 * Value(p)) % Size
        BY <1>1, <3>2, <3>3, Doubled
      <3>5. ExecResult(op, x, y, c) = (2 * x) % Size
        BY <2>6 DEF ExecResult, EXP, AND, OR, SHL, NOT, XOR, SHR, SAR, MOV, ADD,
                               ADC, INC, NEG, SUB, SBB, DEC
      <3> QED BY <1>1, <3>2, <3>4, <3>5
    <2>7. CASE op = SHR
      <3>1. r = [i \in Bits |-> IF i = W - 1 THEN op = SAR /\ p[W - 1] ELSE p[i + 1]]
        BY <1>4, <2>7, LogicOf DEF SHR
      <3>2. r \in Buses /\ \A i \in Bits : r[i] = (IF i = W - 1 THEN op = SAR /\ p[W - 1] ELSE p[i + 1])
        <4> HIDE DEF r
        <4>1. \A i \in Bits : (IF i = W - 1 THEN op = SAR /\ p[W - 1] ELSE p[i + 1]) \in BOOLEAN
          <5>1. \A i \in Bits : i # W - 1 => i + 1 \in Bits
            BY Weights DEF Bits
          <5> QED BY <1>3, <5>1, Sizes
        <4> QED BY <3>1, <4>1, Zenon DEF Buses
      <3> HIDE DEF r
      <3>3. \A i \in 0 .. W - 2 : r[i] <=> p[i + 1]
        <4>1. \A i \in 0 .. W - 2 : i + 1 \in Bits /\ i \in Bits /\ i # W - 1
          BY Weights DEF Bits
        <4> QED BY <1>3, <3>2, <4>1
      <3>4. Value(r) = Value(p) \div 2 + IF r[W - 1] THEN Half ELSE 0
        BY <1>1, <3>2, <3>3, Halved
      <3>5. ~r[W - 1]
        <4>1. r[W - 1] = (op = SAR /\ p[W - 1])
          BY <3>2, Sizes
        <4>2. p[W - 1] <=> Negative(x)
          BY <1>1, ValueOf
        <4>3. op # SAR
          BY <2>7 DEF SAR, SHR
        <4> QED BY <4>1, <4>2, <4>3, Zenon
      <3>6. ExecResult(op, x, y, c) = x \div 2
        BY <2>7 DEF ExecResult, EXP, AND, OR, SHL, NOT, XOR, SHR, SAR, MOV, ADD,
                               ADC, INC, NEG, SUB, SBB, DEC
      <3> QED BY <1>1, <1>2, <3>2, <3>4, <3>5, <3>6
    <2>8. CASE op = SAR
      <3>1. r = [i \in Bits |-> IF i = W - 1 THEN op = SAR /\ p[W - 1] ELSE p[i + 1]]
        BY <1>4, <2>8, LogicOf DEF SAR
      <3>2. r \in Buses /\ \A i \in Bits : r[i] = (IF i = W - 1 THEN op = SAR /\ p[W - 1] ELSE p[i + 1])
        <4> HIDE DEF r
        <4>1. \A i \in Bits : (IF i = W - 1 THEN op = SAR /\ p[W - 1] ELSE p[i + 1]) \in BOOLEAN
          <5>1. \A i \in Bits : i # W - 1 => i + 1 \in Bits
            BY Weights DEF Bits
          <5> QED BY <1>3, <5>1, Sizes
        <4> QED BY <3>1, <4>1, Zenon DEF Buses
      <3> HIDE DEF r
      <3>3. \A i \in 0 .. W - 2 : r[i] <=> p[i + 1]
        <4>1. \A i \in 0 .. W - 2 : i + 1 \in Bits /\ i \in Bits /\ i # W - 1
          BY Weights DEF Bits
        <4> QED BY <1>3, <3>2, <4>1
      <3>4. Value(r) = Value(p) \div 2 + IF r[W - 1] THEN Half ELSE 0
        BY <1>1, <3>2, <3>3, Halved
      <3>5. r[W - 1] <=> Negative(x)
        <4>1. r[W - 1] = (op = SAR /\ p[W - 1])
          BY <3>2, Sizes
        <4>2. p[W - 1] <=> Negative(x)
          BY <1>1, ValueOf
        <4>3. op = SAR
          BY <2>8 DEF SAR, SHR
        <4> QED BY <4>1, <4>2, <4>3, Zenon
      <3>6. ExecResult(op, x, y, c) = x \div 2 + (IF Negative(x) THEN Half ELSE 0)
        BY <2>8 DEF ExecResult, EXP, AND, OR, SHL, NOT, XOR, SHR, SAR, MOV, ADD,
                               ADC, INC, NEG, SUB, SBB, DEC
      <3> QED BY <1>1, <1>2, <3>2, <3>4, <3>5, <3>6
    <2>9. \/ op = EXP \/ op = AND \/ op = OR \/ op = XOR
          \/ op = NOT \/ op = SHL \/ op = SHR \/ op = SAR
      BY DEF EXP, AND, OR, SHL, NOT, XOR, SHR, SAR
    <2> HIDE DEF r
    <2> QED BY <2>1, <2>2, <2>3, <2>4, <2>5, <2>6, <2>7, <2>8, <2>9
  <1>7. (ShiftedOut(op, sa) <=> ExecCarry(op, x, y, c)) /\ ExecCarry(op, x, y, c) \in BOOLEAN
    <2>1. p[W - 1] <=> Negative(x)
      BY <1>1, ValueOf
    <2>2. p[0] <=> x % 2 = 1
      <3> DEFINE h == [i \in Bits |-> IF i = W - 1 THEN FALSE ELSE p[i + 1]]
      <3>1. h \in Buses /\ \A i \in 0 .. W - 2 : h[i] <=> p[i + 1]
        <4>1. /\ \A i \in Bits : i # W - 1 => i + 1 \in Bits
              /\ \A i \in 0 .. W - 2 : i \in Bits /\ i # W - 1
          BY Weights DEF Bits
        <4>2. \A i \in Bits : (IF i = W - 1 THEN FALSE ELSE p[i + 1]) \in BOOLEAN
          BY <1>3, <4>1
        <4>3. h \in Buses
          BY <4>2, Zenon DEF Buses
        <4>4. \A i \in 0 .. W - 2 : h[i] <=> p[i + 1]
          BY <4>1, Zenon
        <4> QED BY <4>3, <4>4
      <3> HIDE DEF h
      <3> QED BY <1>1, <3>1, Halved
    <2>3. CASE op \in {EXP, AND, OR, NOT, XOR}
      <3>1. ~ShiftedOut(op, sa)
        BY <2>3 DEF ShiftedOut, EXP, AND, OR, SHL, NOT, XOR, SHR, SAR, MOV, ADD,
                               ADC, INC, NEG, SUB, SBB, DEC
      <3>2. ExecCarry(op, x, y, c) = FALSE
        BY <2>3 DEF ExecCarry, EXP, AND, OR, SHL, NOT, XOR, SHR, SAR, MOV, ADD,
                               ADC, INC, NEG, SUB, SBB, DEC
      <3> QED BY <3>1, <3>2, Zenon
    <2>4. CASE op = SHL
      BY <1>2, <1>4, <2>1, <2>4 DEF ShiftedOut, Negative, ExecCarry, EXP, AND, OR, SHL, NOT,
             XOR, SHR, SAR, MOV, ADD,
                               ADC, INC, NEG, SUB, SBB, DEC
    <2>5. CASE op \in {SHR, SAR}
      BY <1>2, <1>4, <2>2, <2>5 DEF ShiftedOut, ExecCarry, EXP, AND, OR, SHL, NOT, XOR, SHR,
             SAR, MOV, ADD,
                               ADC, INC, NEG, SUB, SBB, DEC
    <2> QED BY <2>3, <2>4, <2>5 DEF EXP, AND, OR, SHL, NOT, XOR, SHR, SAR
  <1> HIDE DEF r
  <1>8. r = Logic(op, First(op, x, y), Second(op, x, y), Addend(op, x, y), c)
    BY DEF r, sa, sb, addend
  <1> HIDE DEF Agrees
  <1> QED BY <1>6, <1>7, <1>8, LogicCase, Zenon DEF sa

---------------------------------------------------------------------------
(* The theorems. *)

LEMMA Correct ==
  ASSUME NEW op \in 0 .. 15, NEW x \in Word, NEW y \in Word, NEW c \in BOOLEAN
  PROVE  Agrees(op, x, y, c)
  <1> HIDE DEF Agrees
  <1>1. CASE op \in 0 .. 7
    BY <1>1, LogicOperations, Zenon
  <1>2. CASE op \in 8 .. 15
    BY <1>2, AdderOperations, Zenon
  <1>3. op \in 0 .. 7 \/ op \in 8 .. 15
    OBVIOUS
  <1> QED BY <1>1, <1>2, <1>3, Zenon

(* Inverting the operand order exchanges the operands. *)
Unit(op, sa, sb, cIn) ==
  LET addend == WithOne(op, sb)
      c == Ripple(sa, addend, CarryIn(op, cIn), Wire(op, 2))
      shr7 == op = SAR /\ sa[W - 1]
      result ==
        CASE Wire(op, 3) -> [i \in Bits |-> (sa[i] # addend[i]) # c[i]]
          [] op = EXP -> [i \in Bits |-> cIn]
          [] op = AND -> [i \in Bits |-> sa[i] /\ sb[i]]
          [] op = OR  -> [i \in Bits |-> sa[i] \/ sb[i]]
          [] op = SHL -> [i \in Bits |-> i > 0 /\ sa[i - 1]]
          [] op = NOT -> [i \in Bits |-> ~sb[i]]
          [] op = XOR -> [i \in Bits |-> sa[i] # addend[i]]
          [] op \in {SHR, SAR} -> [i \in Bits |-> IF i = W - 1 THEN shr7 ELSE sa[i + 1]]
  IN  [r |-> Value(result), z |-> \A i \in Bits : ~result[i],
       c |-> (c[W] /\ Wire(op, 3)) \/ (op = SHL /\ sa[W - 1]) \/ (op \in {SHR, SAR} /\ sa[0]),
       s |-> result[W - 1], o |-> c[W - 1] # c[W]]

LEMMA Inversion ==
  ASSUME NEW op, NEW x, NEW y, NEW c
  PROVE  HwAlu(op, x, y, c, TRUE) = HwAlu(op, y, x, c, FALSE)
  <1>1. \A w \in BOOLEAN : (w # TRUE) <=> ~(w # FALSE)
    BY Zenon
  <1> DEFINE w == Wire(op, 2) /\ ~(Wire(op, 0) \/ Wire(op, 1))
  <1>2. w \in BOOLEAN
    BY Zenon
  <1>3. FirstOperand(op, Bus(x), Bus(y), TRUE) = FirstOperand(op, Bus(y), Bus(x), FALSE)
    <2> DEFINE on == Wire(op, 0) \/ Wire(op, 1)
    <2>1. /\ FirstOperand(op, Bus(x), Bus(y), TRUE) =
               [i \in Bits |-> on /\ IF w # TRUE THEN Bus(y)[i] ELSE Bus(x)[i]]
          /\ FirstOperand(op, Bus(y), Bus(x), FALSE) =
               [i \in Bits |-> on /\ IF w # FALSE THEN Bus(x)[i] ELSE Bus(y)[i]]
      BY Zenon DEF FirstOperand
    <2> HIDE DEF on, w
    <2> QED BY <1>1, <1>2, <2>1
  <1>4. SecondOperand(op, Bus(x), Bus(y), TRUE) = SecondOperand(op, Bus(y), Bus(x), FALSE)
    <2> DEFINE on == ~(Wire(op, 0) /\ Wire(op, 1) /\ Wire(op, 3))
    <2>1. /\ SecondOperand(op, Bus(x), Bus(y), TRUE) =
               [i \in Bits |-> on /\ IF w # TRUE THEN Bus(x)[i] ELSE Bus(y)[i]]
          /\ SecondOperand(op, Bus(y), Bus(x), FALSE) =
               [i \in Bits |-> on /\ IF w # FALSE THEN Bus(y)[i] ELSE Bus(x)[i]]
      BY Zenon DEF SecondOperand
    <2> HIDE DEF on, w
    <2> QED BY <1>1, <1>2, <2>1
  <1>5. HwAlu(op, x, y, c, TRUE) =
          Unit(op, FirstOperand(op, Bus(x), Bus(y), TRUE), SecondOperand(op, Bus(x), Bus(y),
                 TRUE), c)
    BY Zenon DEF HwAlu, Unit
  <1>6. HwAlu(op, y, x, c, FALSE) =
          Unit(op, FirstOperand(op, Bus(y), Bus(x), FALSE), SecondOperand(op, Bus(y), Bus(x),
                 FALSE), c)
    BY Zenon DEF HwAlu, Unit
  <1> QED BY <1>3, <1>4, <1>5, <1>6, Zenon

Computed(op, invert, x, y, c) ==
  LET hw == HwAlu(op, x, y, c, invert)
      emu == IF invert THEN Exec(op, y, x, c) ELSE Exec(op, x, y, c)
  IN  /\ hw \in Outputs
      /\ hw.r = emu.r /\ hw.z = emu.z /\ hw.s = emu.s
      /\ op # MOV => hw.c = emu.c
      /\ op \in Arithmetic => hw.o = emu.o

LEMMA Computes ==
  ASSUME NEW op \in 0 .. 15, NEW invert \in BOOLEAN, NEW x \in Word, NEW y \in Word,
         NEW c \in BOOLEAN
  PROVE  Computed(op, invert, x, y, c)
  <1>1. CASE invert
    <2>1. invert = TRUE
      BY <1>1
    <2>2. Agrees(op, y, x, c)
      BY Correct, Zenon
    <2> QED BY <2>1, <2>2, Inversion, Zenon DEF Agrees, Computed
  <1>2. CASE ~invert
    <2>1. invert = FALSE
      BY <1>2
    <2>2. Agrees(op, x, y, c)
      BY Correct, Zenon
    <2> QED BY <2>1, <2>2, Zenon DEF Agrees, Computed
  <1> QED BY <1>1, <1>2

(* The registers hold words and the flags are Booleans: what the unit      *)
(* writes is a word at every width, whatever it wraps.                     *)
THEOREM TypeCorrect == Spec => []TypeOK
  <1>1. Init => TypeOK
    BY Sizes DEF Init, TypeOK, Flags
  <1>2. TypeOK /\ [Next]_vars => TypeOK'
    <2> SUFFICES ASSUME TypeOK, [Next]_vars PROVE TypeOK'
      OBVIOUS
    <2>1. ASSUME NEW op \in 0 .. 15, NEW invert \in BOOLEAN, Operate(op, invert) PROVE TypeOK'
      <3> DEFINE hw == HwAlu(op, a, b, flags.c, invert)
      <3>1. a \in Word /\ b \in Word /\ flags \in Flags /\ flags.c \in BOOLEAN
        BY DEF TypeOK, Flags
      <3>2. hw \in Outputs
        BY <3>1, Computes, Zenon DEF Computed
      <3>3. /\ a' = (IF invert THEN a ELSE hw.r) /\ b' = (IF invert THEN hw.r ELSE b)
            /\ flags' = IF op = MOV THEN flags
                        ELSE [z |-> hw.z, c |-> hw.c, s |-> hw.s, o |-> hw.o]
        BY <2>1, Zenon DEF Operate
      <3> HIDE DEF hw
      <3>4. hw.r \in Word /\ [z |-> hw.z, c |-> hw.c, s |-> hw.s, o |-> hw.o] \in Flags
        BY <3>2 DEF Outputs, Flags
      <3> QED BY <3>1, <3>3, <3>4 DEF TypeOK
    <2>2. CASE UNCHANGED vars
      BY <2>2 DEF TypeOK, vars
    <2> QED BY <2>1, <2>2 DEF Next
  <1> QED BY <1>1, <1>2, PTL DEF Spec

(* The gates of alu.v and adder.v compute what the emulator's exec_alu     *)
(* computes: every operation, in both operand orders, result and flags.    *)
THEOREM GatesAgree == Spec => []AgreesWithEmulator
  <1>1. TypeOK => AgreesWithEmulator
    <2> SUFFICES ASSUME TypeOK, NEW op \in 0 .. 15, NEW invert \in BOOLEAN
                 PROVE  LET hw == HwAlu(op, a, b, flags.c, invert)
                            emu == IF invert THEN Exec(op, b, a, flags.c) ELSE Exec(op, a, b,
                                   flags.c)
                        IN  /\ hw.r = emu.r /\ hw.z = emu.z /\ hw.s = emu.s
                            /\ op # MOV => hw.c = emu.c
                            /\ op \in Arithmetic => hw.o = emu.o
      BY Zenon DEF AgreesWithEmulator
    <2>1. a \in Word /\ b \in Word /\ flags.c \in BOOLEAN
      BY DEF TypeOK, Flags
    <2>2. Computed(op, invert, a, b, flags.c)
      BY <2>1, Computes, Zenon
    <2> QED BY <2>2, Zenon DEF Computed
  <1> QED BY <1>1, TypeCorrect, PTL

---------------------------------------------------------------------------
(* Subtracting two words, the low ones first. *)

(* Pairs compare by the high words, then by the low ones. *)
LEMMA Lexical ==
  ASSUME NEW p \in Int, NEW q \in Int, NEW low \in Word, NEW low2 \in Word
  PROVE  p * Size + low < q * Size + low2 <=> p - q - Carry(low < low2) < 0
  <1>1. /\ low \in 0 .. Size - 1 /\ low2 \in 0 .. Size - 1 /\ Size \in Nat
        /\ Carry(low < low2) = IF low < low2 THEN 1 ELSE 0
    BY Sizes DEF Carry
  <1>2. p * Size \in Int /\ q * Size \in Int /\ p * Size = Size * p /\ q * Size = Size * q
    BY <1>1
  <1>3. CASE p < q
    <2>1. Size * p + Size <= Size * q
      BY <1>1, <1>3, Product
    <2> QED BY <1>1, <1>2, <1>3, <2>1
  <1>4. CASE q < p
    <2>1. Size * q + Size <= Size * p
      BY <1>1, <1>4, Product
    <2> QED BY <1>1, <1>2, <1>4, <2>1
  <1>5. CASE p = q
    BY <1>1, <1>2, <1>5
  <1> QED BY <1>3, <1>4, <1>5

(* S # O after a subtraction: the signed difference is negative. *)
LEMMA SignedDifference ==
  ASSUME NEW x \in Word, NEW y \in Word, NEW k \in {0, 1},
         NEW r, r = (x - y - k) % Size
  PROVE  (Negative(r) # Overflow(x, y, r, FALSE)) <=> Signed(x) - Signed(y) - k < 0
  <1> DEFINE v == x - y - k
             nx == Negative(x)
             ny == Negative(y)
             nr == Negative(r)
  <1>1. /\ x \in 0 .. Size - 1 /\ y \in 0 .. Size - 1 /\ Half \in Nat /\ Half > 1 /\ Size = 2 * Half
        /\ v \in Int /\ v >= -Size /\ v < Size
    BY Sizes
  <1>2. (v >= 0 => r = v) /\ (v < 0 => r = v + Size)
    <2> HIDE DEF v
    <2>1. r = v % Size
      BY DEF v
    <2>2. v >= 0 => v \in 0 .. Size - 1
      BY <1>1
    <2> QED BY <1>1, <2>1, <2>2, Wraps
  <1>3. nx \in BOOLEAN /\ ny \in BOOLEAN /\ nr \in BOOLEAN
    BY <1>1, <1>2 DEF Negative
  <1>4. (nx <=> x >= Half) /\ (ny <=> y >= Half) /\ (nr <=> r >= Half)
    BY DEF Negative
  <1>5. Overflow(x, y, r, FALSE) <=> (nx <=> ~ny) /\ ~(nr <=> nx)
    <2>1. Overflow(x, y, r, FALSE) <=> nx = (ny = FALSE) /\ nr # nx
      BY Zenon DEF Overflow
    <2> HIDE DEF nx, ny, nr
    <2> QED BY <1>3, <2>1, Zenon
  <1>6. (nr # Overflow(x, y, r, FALSE)) <=> ~(nr <=> ((nx <=> ~ny) /\ ~(nr <=> nx)))
    <2>1. Overflow(x, y, r, FALSE) \in BOOLEAN
      BY Zenon DEF Overflow
    <2> HIDE DEF nx, ny, nr
    <2> QED BY <1>3, <1>5, <2>1, Zenon
  <1>7. Signed(x) = (IF x >= Half THEN x - Size ELSE x) /\ Signed(y) = (IF y >= Half THEN y - Size ELSE y)
    BY DEF Signed, Negative
  <1>8. ~(nr <=> ((nx <=> ~ny) /\ ~(nr <=> nx))) <=> Signed(x) - Signed(y) - k < 0
    <2>1. v = x - y - k
      OBVIOUS
    <2> HIDE DEF nx, ny, nr, v
    <2> QED BY <1>1, <1>2, <1>4, <1>7, <2>1
  <1> HIDE DEF nx, ny, nr
  <1> QED BY <1>6, <1>8, Zenon DEF nr

(* SUB of the low words and SBB of the high ones leave in C and in S # O   *)
(* how the two-word numbers compare, unsigned and signed: the comparisons  *)
(* of the compiler rest on it.                                             *)
THEOREM ComparesCorrect == Spec => []ComparesWide
  <1>1. TypeOK => ComparesWide
    <2> SUFFICES ASSUME TypeOK, NEW x \in Word, NEW y \in Word
                 PROVE  LET low == HwAlu(SUB, a, b, flags.c, FALSE)
                            high == HwAlu(SBB, x, y, low.c, FALSE)
                        IN  /\ high.c <=> x * Size + a < y * Size + b
                            /\ (high.s # high.o) <=> Signed(x) * Size + a < Signed(y) * Size + b
      BY Zenon DEF ComparesWide
    <2> DEFINE low == HwAlu(SUB, a, b, flags.c, FALSE)
               c == low.c
               high == HwAlu(SBB, x, y, c, FALSE)
               k == Carry(a < b)
               r == (x - y - k) % Size
    <2>1. a \in Word /\ b \in Word /\ flags.c \in BOOLEAN /\ SUB \in 0 .. 15 /\ SBB \in 0 .. 15
      BY DEF TypeOK, Flags, SUB, SBB
    <2>2. /\ SUB # MOV /\ SBB # MOV /\ SBB \in Arithmetic /\ k \in {0, 1}
      BY DEF SUB, SBB, MOV, Arithmetic, Carry
    <2>3. c = (a < b)
      <3>1. Agrees(SUB, a, b, flags.c)
        BY <2>1, Correct, Zenon
      <3>2. c = Exec(SUB, a, b, flags.c).c
        BY <2>2, <3>1, Zenon DEF Agrees
      <3>3. Exec(SUB, a, b, flags.c).c = ExecCarry(SUB, a, b, flags.c)
        BY Zenon DEF Exec
      <3>4. ExecCarry(SUB, a, b, flags.c) = (a < b)
        BY DEF ExecCarry, EXP, AND, OR, SHL, NOT, XOR, SHR, SAR, MOV, ADD, ADC, INC, NEG, SUB,
               SBB, DEC
      <3> QED BY <3>2, <3>3, <3>4, Zenon
    <2>4. c \in BOOLEAN
      <3>1. (a < b) \in BOOLEAN
        OBVIOUS
      <3> QED BY <2>3, <3>1, Zenon
    <2>5. /\ high.c = ExecCarry(SBB, x, y, c)
          /\ high.s = Negative(ExecResult(SBB, x, y, c))
          /\ high.o = ExecOverflow(SBB, x, y, ExecResult(SBB, x, y, c))
      <3> HIDE DEF c
      <3>1. Agrees(SBB, x, y, c)
        BY <2>1, <2>4, Correct, Zenon
      <3> QED BY <2>2, <3>1, Zenon DEF Agrees, Exec
    <2>6. Carry(c) = k
      BY <2>3, Zenon
    <2> HIDE DEF low, c, k
    <2>7. ExecCarry(SBB, x, y, c) <=> x < y + k
      BY <2>6 DEF ExecCarry, EXP, AND, OR, SHL, NOT, XOR, SHR, SAR, MOV, ADD, ADC, INC, NEG,
             SUB, SBB, DEC
    <2>8. ExecResult(SBB, x, y, c) = r
      BY <2>6 DEF ExecResult, r, EXP, AND, OR, SHL, NOT, XOR, SHR, SAR, MOV, ADD, ADC, INC,
             NEG, SUB, SBB, DEC
    <2> HIDE DEF r
    <2>9. ExecOverflow(SBB, x, y, r) = Overflow(x, y, r, FALSE)
      BY DEF ExecOverflow, EXP, AND, OR, SHL, NOT, XOR, SHR, SAR, MOV, ADD, ADC, INC, NEG, SUB,
             SBB, DEC
    <2>10. /\ x \in Int /\ y \in Int /\ Signed(x) \in Int /\ Signed(y) \in Int
      BY Sizes DEF Signed
    <2>11. high.c <=> x * Size + a < y * Size + b
      <3>1. x * Size + a < y * Size + b <=> x - y - k < 0
        BY <2>1, <2>10, Lexical DEF k
      <3>2. x - y - k < 0 <=> x < y + k
        BY <2>2, <2>10
      <3> QED BY <2>5, <2>7, <3>1, <3>2, Zenon
    <2>12. (high.s # high.o) <=> Signed(x) * Size + a < Signed(y) * Size + b
      <3>1. Signed(x) * Size + a < Signed(y) * Size + b <=> Signed(x) - Signed(y) - k < 0
        BY <2>1, <2>10, Lexical DEF k
      <3>2. (Negative(r) # Overflow(x, y, r, FALSE)) <=> Signed(x) - Signed(y) - k < 0
        BY <2>2, SignedDifference DEF r
      <3> QED BY <2>5, <2>8, <2>9, <3>1, <3>2, Zenon
    <2> QED BY <2>11, <2>12, Zenon DEF low, c
  <1> QED BY <1>1, TypeCorrect, PTL

=============================================================================
