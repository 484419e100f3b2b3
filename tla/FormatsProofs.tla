--------------------------- MODULE FormatsProofs ---------------------------
(***************************************************************************)
(* Theorems about Wire and Config: the byte formats and the configuration  *)
(* file, for every size of bytes, keys and integers, every length of a     *)
(* buffer and every set of lines.                                          *)
(***************************************************************************)
EXTENDS Formats, Iteration, SequenceTheorems

-----------------------------------------------------------------------------
(***************************************************************************)
(* Numerals.  Counts says that v counts up the digits of a numeral.        *)
(***************************************************************************)
Counts(v, base, d) == v[0] = 0 /\ \A i \in 1..Len(d) : v[i] = v[i - 1] * base + d[i]

(***************************************************************************)
(* What the recursion of Numeral defines: the number counted up.           *)
(***************************************************************************)
LEMMA NumeralCounts ==
  ASSUME NEW base \in Nat, NEW d \in Seq(Nat)
  PROVE  \E v \in [0..Len(d) -> Nat] : Counts(v, base, d) /\ Numeral(base, d) = v[Len(d)]
<1> DEFINE n == Len(d)
           value[i \in 0..n] == IF i = 0 THEN 0 ELSE value[i - 1] * base + d[i]
           F == [i \in 1..n |-> [x \in Nat |-> x * base + d[i]]]
<1>1. n \in Nat /\ 0 \in Nat /\ \A i \in 1..n : d[i] \in Nat
  OBVIOUS
<1>2. \A x \in Nat, i \in 1..n : F[i][x] = x * base + d[i]
  OBVIOUS
<1>3. F \in [1..n -> [Nat -> Nat]]
  <2>1. \A x, y, z \in Nat : x * y + z \in Nat
    OBVIOUS
  <2> QED
    BY <1>1, <2>1
<1>4. PICK w \in [0..n -> Nat] : w[0] = 0 /\ \A i \in 1..n : w[i] = F[i][w[i - 1]]
  <2> HIDE DEF n, F
  <2>1. HasRun(n, Nat, 0, F)
    BY <1>1, <1>3, Iterates
  <2> QED
    BY <2>1 DEF HasRun
<1>5. \A i \in 1..n : w[i - 1] \in Nat
  OBVIOUS
<1>6. w = [i \in 0..n |-> IF i = 0 THEN 0 ELSE w[i - 1] * base + d[i]]
  <2>1. \A i \in 1..n : w[i] = w[i - 1] * base + d[i]
    <3> HIDE DEF n, F
    <3> QED
      BY <1>2, <1>4, <1>5
  <2>2. \A i \in 0..n : i = 0 \/ i \in 1..n
    OBVIOUS
  <2> HIDE DEF n, F
  <2> QED
    BY <1>4, <2>1, <2>2
<1>7. value = CHOOSE f : f = [i \in 0..n |-> IF i = 0 THEN 0 ELSE f[i - 1] * base + d[i]]
  BY DEF value
<1>8. Numeral(base, d) = value[n]
  BY DEF Numeral
<1> HIDE DEF value
<1>9. value = [i \in 0..n |-> IF i = 0 THEN 0 ELSE value[i - 1] * base + d[i]]
  BY <1>6, <1>7
<1>10. \A i \in 1..n : i \in 0..n /\ i # 0
  OBVIOUS
<1>11. Counts(value, base, d)
  <2> HIDE DEF n
  <2>1. 0 \in 0..n
    BY <1>1
  <2>2. value[0] = 0
    BY <1>9, <2>1
  <2>3. \A i \in 1..n : value[i] = value[i - 1] * base + d[i]
    BY <1>9, <1>10
  <2> QED
    BY <2>2, <2>3 DEF Counts, n
<1>12. value = w
  <2> DEFINE T == {i \in 0..n : value[i] = w[i]}
  <2>1. 0 \in T
    BY <1>1, <1>6, <1>9
  <2>2. ASSUME NEW i \in 1..n, i - 1 \in T
        PROVE  i \in T
    BY <1>6, <1>9, <1>10, <2>2
  <2>3. \A i \in 0..n : i \in T
    <3> HIDE DEF T, n
    <3> QED
      BY <1>1, <2>1, <2>2, UpTo
  <2>4. \A i \in 0..n : value[i] = w[i]
    BY <2>3
  <2>5. value = [i \in 0..n |-> value[i]] /\ w = [i \in 0..n |-> w[i]]
    BY <1>9
  <2> QED
    BY <2>4, <2>5
<1> QED
  BY <1>8, <1>11, <1>12

(***************************************************************************)
(* Whatever counts up the digits ends with the number.                     *)
(***************************************************************************)
LEMMA NumeralOf ==
  ASSUME NEW base \in Nat, NEW d \in Seq(Nat), NEW w, Counts(w, base, d)
  PROVE  Numeral(base, d) = w[Len(d)]
<1>1. PICK v \in [0..Len(d) -> Nat] : Counts(v, base, d) /\ Numeral(base, d) = v[Len(d)]
  BY NumeralCounts
<1> DEFINE T == {i \in 0..Len(d) : v[i] = w[i]}
<1>2. 0 \in T
  BY <1>1 DEF Counts
<1>3. ASSUME NEW i \in 1..Len(d), i - 1 \in T
      PROVE  i \in T
  <2>1. v[i] = v[i - 1] * base + d[i] /\ w[i] = w[i - 1] * base + d[i]
    BY <1>1 DEF Counts
  <2> QED
    BY <1>3, <2>1
<1>4. Len(d) \in Nat /\ Len(d) \in 0..Len(d)
  OBVIOUS
<1>5. \A i \in 0..Len(d) : i \in T
  <2> HIDE DEF T
  <2> QED
    BY <1>2, <1>3, <1>4, UpTo
<1> QED
  BY <1>1, <1>4, <1>5

\* A numeral is a number.
LEMMA NumeralType ==
  ASSUME NEW base \in Nat, NEW d \in Seq(Nat)
  PROVE  Numeral(base, d) \in Nat
BY NumeralCounts

-----------------------------------------------------------------------------
(***************************************************************************)
(* Quotients and remainders of a byte.                                     *)
(***************************************************************************)
LEMMA Quotient ==
  ASSUME NEW b \in Nat \ {0}, NEW n \in Nat
  PROVE  \E q \in Nat, r \in 0..(b - 1) : q = n \div b /\ r = n % b /\ n = q * b + r
<1>1. n \div b \in Nat /\ n % b \in 0..(b - 1)
  OBVIOUS
<1>2. PICK q \in Nat, r \in 0..(b - 1) : q = n \div b /\ r = n % b
  BY <1>1
<1>3. n = b * q + r /\ b * q = q * b
  BY <1>2
<1> QED
  BY <1>2, <1>3

\* Quotient and remainder are unique.
LEMMA QuotientOf ==
  ASSUME NEW b \in Nat \ {0}, NEW q \in Nat, NEW r \in 0..(b - 1)
  PROVE  (q * b + r) \div b = q /\ (q * b + r) % b = r
<1>1. PICK n \in Int : n = q * b + r
  OBVIOUS
<1>2. q = n \div b /\ r = n % b
  BY <1>1
<1> QED
  BY <1>1, <1>2

(***************************************************************************)
(* The number of values of so many bytes.                                  *)
(***************************************************************************)
LEMMA BaseFacts ==
  Base \in Nat /\ Base \in Nat \ {0} /\ Base >= 2 /\ Byte = 0..(Base - 1) /\ Byte \subseteq Nat
BY WireAssumption DEF Byte

\* A byte more: Base times as many values.
LEMMA ValuesNext ==
  ASSUME NEW w \in Nat
  PROVE  Values(0) = 1 /\ Values(w) \in Nat /\ Values(w + 1) = Values(w) * Base
<1> DEFINE D(k) == [i \in 1..(k + 1) |-> IF i = 1 THEN 1 ELSE 0]
<1>1. ASSUME NEW k \in Nat
      PROVE  D(k) \in Seq(Nat) /\ Len(D(k)) = k + 1
  OBVIOUS
<1>2. PICK v \in [0..(w + 2) -> Nat] : Counts(v, Base, D(w + 1)) /\ Values(w + 1) = v[w + 2]
  <2>1. D(w + 1) \in Seq(Nat) /\ Len(D(w + 1)) = w + 2
    BY <1>1
  <2>2. Values(w + 1) = Numeral(Base, D(w + 1))
    BY DEF Values, Number
  <2> HIDE DEF D
  <2> QED
    BY <2>1, <2>2, NumeralCounts, BaseFacts
<1>3. \A i \in 1..(w + 2) : v[i] = v[i - 1] * Base + (IF i = 1 THEN 1 ELSE 0)
  <2>1. Len(D(w + 1)) = w + 2 /\ w + 1 \in Nat
    BY <1>1
  <2>2. \A i \in 1..(w + 2) : D(w + 1)[i] = IF i = 1 THEN 1 ELSE 0
    OBVIOUS
  <2> HIDE DEF D
  <2> QED
    BY <1>2, <2>1, <2>2 DEF Counts
<1>4. ASSUME NEW k \in 0..w
      PROVE  Values(k) = v[k + 1]
  <2>1. D(k) \in Seq(Nat) /\ Len(D(k)) = k + 1
    BY <1>1
  <2>2. Counts(v, Base, D(k))
    <3>1. \A i \in 1..(k + 1) : i \in 1..(w + 2)
      OBVIOUS
    <3> QED
      BY <1>2, <1>3, <2>1, <3>1 DEF Counts
  <2>3. Values(k) = Numeral(Base, D(k))
    BY DEF Values, Number
  <2> HIDE DEF D
  <2> QED
    BY <2>1, <2>2, <2>3, NumeralOf, BaseFacts
<1>5. v[1] = 1
  <2>1. v[0] = 0 /\ v[1] = v[0] * Base + 1
    BY <1>2, <1>3 DEF Counts
  <2> QED
    BY <2>1, BaseFacts
<1>6. v[w + 2] = v[w + 1] * Base
  <2>1. v[w + 1] \in Nat /\ v[w + 2] = v[w + 1] * Base + 0
    BY <1>3
  <2> QED
    BY <2>1, BaseFacts
<1>7. v[w + 1] \in Nat /\ Values(0) = v[1] /\ Values(w) = v[w + 1]
  BY <1>4
<1> QED
  BY <1>2, <1>5, <1>6, <1>7

\* There is at least one value of every width.
LEMMA ValuesPositive ==
  ASSUME NEW w \in Nat
  PROVE  Values(w) \in Nat /\ Values(w) >= 1
<1> DEFINE T == {k \in 0..w : Values(k) >= 1}
<1>1. 0 \in T
  BY ValuesNext
<1>2. ASSUME NEW k \in 1..w, k - 1 \in T
      PROVE  k \in T
  <2>1. k - 1 \in Nat /\ k = (k - 1) + 1
    OBVIOUS
  <2>2. PICK x \in Nat : x = Values(k - 1) /\ x >= 1
    BY <1>2, <2>1, ValuesNext
  <2>3. Values(k) = x * Base
    BY <2>1, <2>2, ValuesNext
  <2>4. x * Base >= 1
    BY <2>2, BaseFacts
  <2> QED
    BY <2>3, <2>4
<1>3. \A k \in 0..w : k \in T
  <2> HIDE DEF T
  <2> QED
    BY <1>1, <1>2, UpTo
<1> QED
  BY <1>3, ValuesNext

\* A wider integer has no fewer values.
LEMMA ValuesGrow ==
  ASSUME NEW w \in Nat, NEW k \in 0..w
  PROVE  Values(k) <= Values(w)
<1> DEFINE T == {i \in 0..(w - k) : Values(k) <= Values(k + i)}
<1>1. 0 \in T
  BY ValuesPositive
<1>2. ASSUME NEW i \in 1..(w - k), i - 1 \in T
      PROVE  i \in T
  <2>1. k + (i - 1) \in Nat /\ k + i = (k + (i - 1)) + 1 /\ k \in Nat
    OBVIOUS
  <2>2. PICK x, y \in Nat : x = Values(k) /\ y = Values(k + (i - 1)) /\ x <= y
    BY <1>2, <2>1, ValuesNext
  <2>3. Values(k + i) = y * Base
    BY <2>1, <2>2, ValuesNext
  <2>4. PICK z \in Nat : z = y * Base /\ z >= y
    BY <2>2, BaseFacts
  <2>5. i \in 0..(w - k)
    OBVIOUS
  <2>6. Values(k) <= Values(k + i)
    BY <2>2, <2>3, <2>4
  <2> QED
    BY <2>5, <2>6
<1>3. \A i \in 0..(w - k) : i \in T
  <2>1. w - k \in Nat
    OBVIOUS
  <2> HIDE DEF T
  <2> QED
    BY <1>1, <1>2, <2>1, UpTo
<1>4. w - k \in 0..(w - k) /\ k + (w - k) = w
  OBVIOUS
<1> QED
  BY <1>3, <1>4

-----------------------------------------------------------------------------
(***************************************************************************)
(* Integers in memory.  Shifts says that r shifts n by a byte w times.     *)
(***************************************************************************)
Shifts(r, n, w) == r[0] = n /\ \A i \in 1..w : r[i] = r[i - 1] \div Base

Lowest(r, w) == [i \in 1..w |-> r[i - 1] % Base]

\* The memory of a number is made by shifting it right, byte by byte.
LEMMA MemoryShifts ==
  ASSUME NEW n \in Nat, NEW w \in Nat
  PROVE  \E r \in [0..w -> Nat] : Shifts(r, n, w) /\ Memory(n, w) = Lowest(r, w)
<1> DEFINE rest[i \in 0..w] == IF i = 0 THEN n ELSE rest[i - 1] \div Base
           F == [i \in 1..w |-> [x \in Nat |-> x \div Base]]
<1>1. \A x \in Nat : x \div Base \in Nat
  BY BaseFacts
<1>2. F \in [1..w -> [Nat -> Nat]] /\ \A i \in 1..w, x \in Nat : F[i][x] = x \div Base
  BY <1>1
<1>3. PICK v \in [0..w -> Nat] : v[0] = n /\ \A i \in 1..w : v[i] = F[i][v[i - 1]]
  <2> HIDE DEF F
  <2>1. HasRun(w, Nat, n, F)
    BY <1>2, Iterates
  <2> QED
    BY <2>1 DEF HasRun
<1>4. v = [i \in 0..w |-> IF i = 0 THEN n ELSE v[i - 1] \div Base]
  <2>1. \A i \in 1..w : v[i - 1] \in Nat
    OBVIOUS
  <2>2. \A i \in 1..w : v[i] = v[i - 1] \div Base
    <3> HIDE DEF F
    <3> QED
      BY <1>2, <1>3, <2>1
  <2>3. \A i \in 0..w : i = 0 \/ i \in 1..w
    OBVIOUS
  <2> QED
    BY <1>3, <2>2, <2>3
<1>5. rest = CHOOSE f : f = [i \in 0..w |-> IF i = 0 THEN n ELSE f[i - 1] \div Base]
  BY DEF rest
<1>6. Memory(n, w) = Lowest(rest, w)
  BY DEF Memory, Lowest
<1> HIDE DEF rest
<1>7. rest = [i \in 0..w |-> IF i = 0 THEN n ELSE rest[i - 1] \div Base]
  BY <1>4, <1>5
<1>8. \A i \in 1..w : i \in 0..w /\ i # 0 /\ i - 1 \in 0..w
  OBVIOUS
<1>9. Shifts(rest, n, w)
  <2>1. 0 \in 0..w
    OBVIOUS
  <2>2. rest[0] = n
    BY <1>7, <2>1
  <2>3. \A i \in 1..w : rest[i] = rest[i - 1] \div Base
    BY <1>7, <1>8
  <2> QED
    BY <2>2, <2>3 DEF Shifts
<1>10. \A i \in 0..w : rest[i] \in Nat
  <2> DEFINE T == {i \in 0..w : rest[i] \in Nat}
  <2>1. 0 \in T
    BY <1>9 DEF Shifts
  <2>2. ASSUME NEW i \in 1..w, i - 1 \in T
        PROVE  i \in T
    BY <1>1, <1>8, <1>9, <2>2 DEF Shifts
  <2>3. \A i \in 0..w : i \in T
    <3> HIDE DEF T
    <3> QED
      BY <2>1, <2>2, UpTo
  <2> QED
    BY <2>3
<1>11. rest \in [0..w -> Nat]
  BY <1>7, <1>10
<1> QED
  BY <1>6, <1>9, <1>11

\* Any such shifts make the same memory.
LEMMA MemoryOf ==
  ASSUME NEW n \in Nat, NEW w \in Nat, NEW r, Shifts(r, n, w)
  PROVE  Memory(n, w) = Lowest(r, w)
<1>1. PICK q \in [0..w -> Nat] : Shifts(q, n, w) /\ Memory(n, w) = Lowest(q, w)
  BY MemoryShifts
<1> DEFINE T == {i \in 0..w : q[i] = r[i]}
<1>2. 0 \in T
  BY <1>1 DEF Shifts
<1>3. ASSUME NEW i \in 1..w, i - 1 \in T
      PROVE  i \in T
  BY <1>1, <1>3 DEF Shifts
<1>4. \A i \in 0..w : i \in T
  <2> HIDE DEF T
  <2> QED
    BY <1>2, <1>3, UpTo
<1>5. \A i \in 1..w : q[i - 1] = r[i - 1]
  <2>1. \A i \in 1..w : i - 1 \in 0..w
    OBVIOUS
  <2> QED
    BY <1>4, <2>1
<1> QED
  BY <1>1, <1>5 DEF Lowest

\* The memory of a number has the width it is stored with.
LEMMA MemoryType ==
  ASSUME NEW n \in Nat, NEW w \in Nat
  PROVE  Memory(n, w) \in Seq(Byte) /\ Len(Memory(n, w)) = w
<1>1. PICK r \in [0..w -> Nat] : Shifts(r, n, w) /\ Memory(n, w) = Lowest(r, w)
  BY MemoryShifts
<1>2. \A i \in 1..w : r[i - 1] \in Nat
  OBVIOUS
<1>3. \A x \in Nat : x % Base \in Byte
  BY BaseFacts
<1>4. Lowest(r, w) \in [1..w -> Byte]
  BY <1>2, <1>3 DEF Lowest
<1> QED
  BY <1>1, <1>4

IsJoin(c, a, b) ==
  /\ Len(c) = Len(a) + Len(b)
  /\ \A i \in 1..Len(a) : c[i] = a[i]
  /\ \A i \in 1..Len(b) : c[Len(a) + i] = b[i]

\* Concatenation, element by element.
LEMMA Joined ==
  ASSUME NEW S, NEW a \in Seq(S), NEW b \in Seq(S)
  PROVE  a \o b \in Seq(S) /\ IsJoin(a \o b, a, b)
<1>1. a \o b \in Seq(S) /\ Len(a \o b) = Len(a) + Len(b)
  BY ConcatProperties
<1>2. \A i \in 1..Len(a) : (a \o b)[i] = a[i]
  OBVIOUS
<1>3. ASSUME NEW i \in 1..Len(b)
      PROVE  (a \o b)[Len(a) + i] = b[i]
  <2>1. PICK k \in Int : k = Len(a) + i
    OBVIOUS
  <2>2. k \in 1..(Len(a) + Len(b)) /\ ~ (k <= Len(a)) /\ k - Len(a) = i
    BY <2>1
  <2>3. (a \o b)[k] = b[k - Len(a)]
    BY <2>2
  <2> QED
    BY <2>1, <2>2, <2>3
<1> QED
  BY <1>1, <1>2, <1>3 DEF IsJoin

\* Reverse, element by element; twice is nothing.
LEMMA Reversed ==
  ASSUME NEW S, NEW b \in Seq(S)
  PROVE  /\ Reverse(b) \in Seq(S) /\ Len(Reverse(b)) = Len(b)
         /\ \A i \in 1..Len(b) : Reverse(b)[i] = b[Len(b) - i + 1]
         /\ Reverse(Reverse(b)) = b
<1>1. Len(b) \in Nat /\ \A i \in 1..Len(b) : Len(b) - i + 1 \in 1..Len(b)
  OBVIOUS
<1>2. Reverse(b) \in [1..Len(b) -> S]
  BY <1>1 DEF Reverse
<1>3. Reverse(b) \in Seq(S) /\ Len(Reverse(b)) = Len(b)
  BY <1>1, <1>2
<1>4. \A i \in 1..Len(b) : Reverse(b)[i] = b[Len(b) - i + 1]
  BY DEF Reverse
<1>5. Reverse(Reverse(b)) = [i \in 1..Len(b) |-> Reverse(b)[Len(b) - i + 1]]
  BY <1>3 DEF Reverse
<1>6. \A i \in 1..Len(b) : Reverse(b)[Len(b) - i + 1] = b[i]
  BY <1>1, <1>4
<1>7. b = [i \in 1..Len(b) |-> b[i]]
  OBVIOUS
<1> QED
  BY <1>3, <1>4, <1>5, <1>6, <1>7

\* Bytes are naturals.
LEMMA ByteNat ==
  ASSUME NEW b \in Seq(Byte)
  PROVE  b \in Seq(Nat) /\ Len(b) \in Nat /\ \A i \in 1..Len(b) : b[i] \in Byte /\ b[i] \in Nat
BY BaseFacts

(***************************************************************************)
(* Bytes stand for a number below the number of their values.              *)
(***************************************************************************)
LEMMA NumberBound ==
  ASSUME NEW b \in Seq(Byte)
  PROVE  Number(b) \in Nat /\ Number(b) < Values(Len(b))
<1> DEFINE n == Len(b)
<1>1. PICK v \in [0..n -> Nat] : Counts(v, Base, b) /\ Number(b) = v[n]
  BY NumeralCounts, ByteNat, BaseFacts DEF Number
<1> DEFINE T == {k \in 0..n : v[k] < Values(k)}
<1>2. n \in Nat /\ n \in 0..n
  OBVIOUS
<1>3. 0 \in T
  BY <1>1, <1>2, ValuesNext DEF Counts
<1>4. ASSUME NEW k \in 1..n, k - 1 \in T
      PROVE  k \in T
  <2>1. k \in 0..n /\ k - 1 \in 0..n /\ k - 1 \in Nat /\ (k - 1) + 1 = k
    BY <1>2
  <2>2. PICK x \in Nat, y \in Nat, c \in Byte :
          x = v[k - 1] /\ y = Values(k - 1) /\ x < y /\ c = b[k]
    BY <1>4, <2>1, ValuesNext, ByteNat
  <2>3. v[k] = x * Base + c /\ Values(k) = y * Base
    BY <1>1, <2>1, <2>2, ValuesNext DEF Counts
  <2>4. PICK d \in Nat : d = y - x - 1
    BY <2>2
  <2>5. (x + 1 + d) * Base = x * Base + Base + d * Base
    BY BaseFacts
  <2>6. PICK p, q \in Nat : p = x * Base /\ q = d * Base
    BY BaseFacts
  <2>7. v[k] < Values(k)
    <3>1. y = x + 1 + d
      BY <2>4
    <3>2. Values(k) = p + Base + q /\ v[k] = p + c
      BY <2>3, <2>5, <2>6, <3>1
    <3> QED
      BY <3>2, BaseFacts
  <2> QED
    BY <2>1, <2>7
<1>5. \A k \in 0..n : k \in T
  <2> HIDE DEF T, n
  <2> QED
    BY <1>2, <1>3, <1>4, UpTo
<1> QED
  BY <1>1, <1>2, <1>5

(***************************************************************************)
(* The memory of the number that bytes in network order stand for holds    *)
(* the bytes the other way round.                                          *)
(***************************************************************************)
LEMMA NumberInMemory ==
  ASSUME NEW b \in Seq(Byte)
  PROVE  Memory(Number(b), Len(b)) = Reverse(b)
<1> DEFINE n == Len(b)
<1>1. PICK v \in [0..n -> Nat] : Counts(v, Base, b) /\ Number(b) = v[n]
  BY NumeralCounts, ByteNat, BaseFacts DEF Number
<1>2. n \in Nat
  OBVIOUS
<1>3. PICK r : r = [i \in 0..n |-> v[n - i]]
  OBVIOUS
<1>4. ASSUME NEW i \in 1..n
      PROVE  r[i] = r[i - 1] \div Base /\ r[i - 1] % Base = b[n - i + 1]
  <2>1. i \in 0..n /\ i - 1 \in 0..n /\ n - i + 1 \in 1..n /\ n - i \in 0..n
    BY <1>2
  <2>2. r[i] = v[n - i] /\ r[i - 1] = v[n - i + 1] /\ (n - i + 1) - 1 = n - i
    BY <1>2, <1>3, <2>1
  <2>3. PICK q \in Nat, c \in Byte : q = v[n - i] /\ c = b[n - i + 1]
    BY <2>1, ByteNat
  <2>4. r[i - 1] = q * Base + c
    BY <1>1, <2>1, <2>2, <2>3 DEF Counts
  <2>5. (q * Base + c) \div Base = q /\ (q * Base + c) % Base = c
    BY QuotientOf, BaseFacts
  <2> QED
    BY <2>2, <2>3, <2>4, <2>5
<1>5. Shifts(r, Number(b), n)
  <2>1. 0 \in 0..n /\ n - 0 = n
    BY <1>2
  <2>2. r[0] = v[n]
    BY <1>3, <2>1
  <2> QED
    BY <1>1, <1>4, <2>2 DEF Shifts
<1>6. Lowest(r, n) = Reverse(b)
  BY <1>4 DEF Lowest, Reverse
<1> HIDE DEF n
<1>7. Number(b) \in Nat
  BY NumberBound
<1>8. Memory(Number(b), n) = Lowest(r, n)
  BY <1>2, <1>5, <1>7, MemoryOf
<1> QED
  BY <1>6, <1>8 DEF n

\* The bytes in network order have the width, too.
LEMMA MemoryReversed ==
  ASSUME NEW n \in Nat, NEW w \in Nat
  PROVE  Reverse(Memory(n, w)) \in Seq(Byte) /\ Len(Reverse(Memory(n, w))) = w
<1>1. PICK m \in Seq(Byte) : m = Memory(n, w) /\ Len(m) = w
  BY MemoryType
<1>2. Reverse(m) \in Seq(Byte) /\ Len(Reverse(m)) = Len(m)
  BY ONLY <1>1, Reversed
<1> QED
  BY <1>1, <1>2

(***************************************************************************)
(* A number is what is in w bytes of memory and what was shifted out.      *)
(***************************************************************************)
LEMMA ShiftsRest ==
  ASSUME NEW n \in Nat, NEW w \in Nat, NEW r \in [0..w -> Nat], Shifts(r, n, w)
  PROVE  n = r[w] * Values(w) + FromMemory(Memory(n, w))
<1>1. PICK b : b = Reverse(Memory(n, w))
  OBVIOUS
<1>2. Memory(n, w) = Lowest(r, w) /\ Memory(n, w) \in Seq(Byte) /\ Len(Memory(n, w)) = w
  BY MemoryOf, MemoryType
<1>3. b \in Seq(Byte) /\ Len(b) = w /\ \A i \in 1..w : b[i] = Memory(n, w)[w - i + 1]
  <2>1. PICK m : m = Memory(n, w)
    OBVIOUS
  <2>2. m \in Seq(Byte) /\ Len(m) = w /\ b = Reverse(m)
    BY <1>1, <1>2, <2>1
  <2>3. Reverse(m) \in Seq(Byte) /\ Len(Reverse(m)) = Len(m)
        /\ \A i \in 1..Len(m) : Reverse(m)[i] = m[Len(m) - i + 1]
    BY ONLY <2>2, Reversed
  <2> QED
    BY <2>1, <2>2, <2>3
<1>4. \A i \in 1..w : b[i] = r[w - i] % Base
  <2>1. ASSUME NEW i \in 1..w
        PROVE  b[i] = r[w - i] % Base
    <3>1. w - i + 1 \in 1..w /\ (w - i + 1) - 1 = w - i
      OBVIOUS
    <3>2. Lowest(r, w)[w - i + 1] = r[(w - i + 1) - 1] % Base
      BY <3>1 DEF Lowest
    <3> QED
      BY <1>2, <1>3, <3>1, <3>2
  <2> QED
    BY <2>1
<1>5. PICK v \in [0..w -> Nat] : Counts(v, Base, b) /\ Number(b) = v[w]
  BY <1>3, NumeralCounts, ByteNat, BaseFacts DEF Number
<1>6. PICK h \in Nat : h = r[w]
  OBVIOUS
<1> DEFINE T == {k \in 0..w : r[w - k] = h * Values(k) + v[k]}
<1>7. 0 \in T
  <2>1. r[w - 0] = h /\ v[0] = 0 /\ Values(0) = 1
    BY <1>5, <1>6, ValuesNext DEF Counts
  <2> QED
    BY <2>1
<1>8. ASSUME NEW k \in 1..w, k - 1 \in T
      PROVE  k \in T
  <2>1. k \in 0..w /\ k - 1 \in 0..w /\ k - 1 \in Nat /\ (k - 1) + 1 = k
        /\ w - k \in 0..w /\ w - (k - 1) \in 1..w /\ (w - (k - 1)) - 1 = w - k
    OBVIOUS
  <2>2. PICK x \in Nat, y \in Nat, z \in Nat :
          x = r[w - k] /\ y = Values(k - 1) /\ z = v[k - 1]
    BY <2>1, ValuesNext
  <2>3. x \div Base = h * y + z
    BY <1>8, <2>1, <2>2 DEF Shifts
  <2>4. PICK q \in Nat, c \in Byte : q = x \div Base /\ c = x % Base /\ x = q * Base + c
    BY Quotient, BaseFacts
  <2>5. v[k] = z * Base + c /\ Values(k) = y * Base
    BY <1>4, <1>5, <1>3, <2>1, <2>2, <2>4, ValuesNext DEF Counts
  <2>6. (h * y + z) * Base = h * (y * Base) + z * Base
    BY BaseFacts
  <2>7. PICK p, s \in Nat : p = h * (y * Base) /\ s = z * Base
    BY BaseFacts
  <2>8. x = p + s + c
    BY <2>3, <2>4, <2>6, <2>7
  <2>9. x = h * Values(k) + v[k]
    <3>1. h * Values(k) = p
      BY <2>5, <2>7
    <3>2. v[k] = s + c /\ c \in Nat
      BY <2>5, <2>7, BaseFacts
    <3>3. x = p + v[k]
      BY <2>8, <3>2
    <3> QED
      BY <3>1, <3>3
  <2> QED
    BY <2>1, <2>2, <2>9
<1>9. \A k \in 0..w : k \in T
  <2> HIDE DEF T
  <2> QED
    BY <1>7, <1>8, UpTo
<1>10. w \in 0..w /\ w - w = 0
  OBVIOUS
<1>11. r[0] = h * Values(w) + v[w]
  BY <1>9, <1>10
<1> QED
  BY <1>1, <1>5, <1>6, <1>11 DEF Shifts, FromMemory

(***************************************************************************)
(* A number that fits is read from memory as it was stored.                *)
(***************************************************************************)
LEMMA MemoryNumber ==
  ASSUME NEW w \in Nat, NEW n \in Nat, n < Values(w)
  PROVE  FromMemory(Memory(n, w)) = n
<1>1. PICK r \in [0..w -> Nat] : Shifts(r, n, w)
  BY MemoryShifts
<1>2. n = r[w] * Values(w) + FromMemory(Memory(n, w))
  BY <1>1, ShiftsRest
<1>3. FromMemory(Memory(n, w)) \in Nat
  BY MemoryType, Reversed, NumberBound DEF FromMemory
<1>4. PICK h \in Nat, V \in Nat, m \in Nat :
        h = r[w] /\ V = Values(w) /\ m = FromMemory(Memory(n, w))
  BY <1>3, ValuesPositive
<1>5. n = h * V + m /\ n < V
  BY <1>2, <1>4
<1>6. CASE h = 0
  BY <1>4, <1>5, <1>6
<1>7. CASE h # 0
  <2>1. PICK d \in Nat : d = h - 1
    BY <1>7
  <2>2. (d + 1) * V = d * V + V /\ d * V \in Nat
    OBVIOUS
  <2>3. h = d + 1
    BY <2>1
  <2> QED
    BY <1>5, <2>2, <2>3
<1> QED
  BY <1>6, <1>7

\* The number of two halves: the high one times the values of the low one.
LEMMA NumberConcat ==
  ASSUME NEW a \in Seq(Byte), NEW b \in Seq(Byte)
  PROVE  Number(a \o b) = Number(a) * Values(Len(b)) + Number(b)
<1>1. PICK m \in Nat, n \in Nat : m = Len(a) /\ n = Len(b)
  OBVIOUS
<1>2. PICK c \in Seq(Byte) : c = a \o b
  BY ConcatProperties
<1>3. Len(c) = m + n /\ (\A i \in 1..m : c[i] = a[i]) /\ (\A i \in 1..n : c[m + i] = b[i])
  BY <1>1, <1>2
<1>4. PICK v \in [0..(m + n) -> Nat] : Counts(v, Base, c) /\ Number(c) = v[m + n]
  <2>1. c \in Seq(Nat)
    BY ByteNat
  <2>2. PICK v \in [0..Len(c) -> Nat] : Counts(v, Base, c) /\ Number(c) = v[Len(c)]
    BY <2>1, NumeralCounts, BaseFacts DEF Number
  <2> QED
    BY <1>3, <2>2
<1>5. PICK u \in [0..n -> Nat] : Counts(u, Base, b) /\ Number(b) = u[n]
  BY <1>1, NumeralCounts, ByteNat, BaseFacts DEF Number
<1>6. Number(a) = v[m]
  <2>1. \A i \in 1..m : i \in 1..(m + n)
    OBVIOUS
  <2>2. Counts(v, Base, a)
    BY <1>1, <1>3, <1>4, <2>1 DEF Counts
  <2> QED
    BY <1>1, <2>2, NumeralOf, ByteNat, BaseFacts DEF Number
<1>7. PICK h \in Nat : h = v[m]
  OBVIOUS
<1> DEFINE T == {k \in 0..n : v[m + k] = h * Values(k) + u[k]}
<1>8. 0 \in T
  <2>1. u[0] = 0 /\ Values(0) = 1
    BY <1>5, ValuesNext DEF Counts
  <2>2. v[m + 0] = h
    <3>1. m + 0 = m
      OBVIOUS
    <3> QED
      BY <1>7, <3>1
  <2> QED
    BY <2>1, <2>2
<1>9. ASSUME NEW k \in 1..n, k - 1 \in T
      PROVE  k \in T
  <2>1. k \in 0..n /\ k - 1 \in 0..n /\ k - 1 \in Nat /\ (k - 1) + 1 = k
        /\ m + k \in 1..(m + n) /\ (m + k) - 1 = m + (k - 1)
    OBVIOUS
  <2>2. PICK y \in Nat, z \in Nat, x \in Nat : y = Values(k - 1) /\ z = u[k - 1] /\ x = b[k]
    BY <1>1, <2>1, ValuesNext, ByteNat
  <2>3. v[m + k] = (h * y + z) * Base + x
    BY <1>3, <1>4, <1>9, <2>1, <2>2 DEF Counts
  <2>4. u[k] = z * Base + x /\ Values(k) = y * Base
    BY <1>1, <1>5, <2>1, <2>2, ValuesNext DEF Counts
  <2>5. (h * y + z) * Base = h * (y * Base) + z * Base
    BY BaseFacts
  <2>6. PICK p, s \in Nat : p = h * (y * Base) /\ s = z * Base
    BY BaseFacts
  <2>7. v[m + k] = p + s + x
    BY <2>3, <2>5, <2>6
  <2>8. v[m + k] = h * Values(k) + u[k]
    BY <2>4, <2>6, <2>7
  <2> QED
    BY <2>1, <2>8
<1>10. \A k \in 0..n : k \in T
  <2> HIDE DEF T
  <2> QED
    BY <1>8, <1>9, UpTo
<1>11. n \in 0..n
  OBVIOUS
<1> QED
  BY <1>1, <1>2, <1>4, <1>5, <1>6, <1>7, <1>10, <1>11

-----------------------------------------------------------------------------
(***************************************************************************)
(* htonll_local exchanges the halves of a number and the bytes of each     *)
(* half: it reverses all bytes, as htons and htonl do.                     *)
(***************************************************************************)
LEMMA MemoryHalves ==
  ASSUME NEW n \in Nat, NEW h \in Nat
  PROVE  /\ n \div Values(h) \in Nat
         /\ Memory(n, 2 * h) = Memory(n, h) \o Memory(n \div Values(h), h)
<1>0. PICK w \in Nat : w = 2 * h
  OBVIOUS
<1>1. PICK r \in [0..w -> Nat] : Shifts(r, n, w) /\ Memory(n, w) = Lowest(r, w)
  BY MemoryShifts
<1>2. PICK low \in [0..h -> Nat] : low = [i \in 0..h |-> r[i]]
  <2>1. \A i \in 0..h : i \in 0..w
    BY <1>0
  <2> QED
    BY <2>1
<1>3. PICK high \in [0..h -> Nat] : high = [i \in 0..h |-> r[h + i]]
  <2>1. \A i \in 0..h : h + i \in 0..w
    BY <1>0
  <2> QED
    BY <2>1
<1>4. PICK q \in Nat : q = r[h] /\ q = low[h] /\ q = high[0]
  BY <1>0, <1>2, <1>3
<1>5. Shifts(low, n, h)
  <2>1. \A i \in 1..h : i \in 1..w /\ i \in 0..h /\ i - 1 \in 0..h
    BY <1>0
  <2>2. \A i \in 1..h : low[i] = low[i - 1] \div Base
    BY <1>1, <1>2, <2>1 DEF Shifts
  <2>3. 0 \in 0..h
    OBVIOUS
  <2>4. low[0] = n
    BY <1>1, <1>2, <2>3 DEF Shifts
  <2> QED
    BY <2>2, <2>4 DEF Shifts
<1>6. Shifts(high, q, h)
  <2>1. \A i \in 1..h : h + i \in 1..w /\ i \in 0..h /\ i - 1 \in 0..h /\ (h + i) - 1 = h + (i - 1)
    BY <1>0
  <2>2. \A i \in 1..h : high[i] = high[i - 1] \div Base
    BY <1>1, <1>3, <2>1 DEF Shifts
  <2> QED
    BY <1>4, <2>2 DEF Shifts
<1>7. Memory(n, h) = Lowest(low, h) /\ Memory(q, h) = Lowest(high, h)
  BY <1>5, <1>6, MemoryOf
<1>8. n \div Values(h) = q
  <2>1. n = q * Values(h) + FromMemory(Memory(n, h))
    BY <1>4, <1>5, ShiftsRest
  <2>2. PICK b \in Seq(Byte) : b = Reverse(Memory(n, h)) /\ Len(b) = h
    BY MemoryReversed
  <2>3. PICK V \in Nat \ {0}, m \in Nat : V = Values(h) /\ m = Number(b) /\ m < V
    <3>1. Number(b) \in Nat /\ Number(b) < Values(h)
      BY <2>2, NumberBound
    <3>2. Values(h) \in Nat /\ Values(h) >= 1
      BY ValuesPositive
    <3> QED
      BY <3>1, <3>2
  <2>4. m \in 0..(V - 1) /\ m = FromMemory(Memory(n, h))
    BY <2>2, <2>3 DEF FromMemory
  <2>5. (q * V + m) \div V = q
    BY ONLY <2>4, QuotientOf
  <2> QED
    BY <2>1, <2>3, <2>4, <2>5
<1>9. Memory(n, w) = Memory(n, h) \o Memory(q, h)
  <2>1. PICK a, b \in Seq(Byte) : a = Memory(n, h) /\ b = Memory(q, h) /\ Len(a) = h /\ Len(b) = h
    BY MemoryType
  <2>2. PICK c \in Seq(Byte) : c = Memory(n, w) /\ Len(c) = w
    BY MemoryType
  <2>3. a \o b \in Seq(Byte) /\ Len(a \o b) = w
    BY <1>0, <2>1, ConcatProperties
  <2>4. ASSUME NEW i \in 1..w
        PROVE  c[i] = (a \o b)[i]
    <3>1. c[i] = r[i - 1] % Base
      BY <1>1, <2>2 DEF Lowest
    <3>2. CASE i \in 1..h
      <4>1. i - 1 \in 0..h /\ (a \o b)[i] = a[i]
        BY <2>1, <3>2
      <4>2. a[i] = low[i - 1] % Base
        BY <1>7, <2>1, <3>2 DEF Lowest
      <4> QED
        BY <1>2, <3>1, <4>1, <4>2
    <3>3. CASE ~ (i \in 1..h)
      <4>1. PICK j \in 1..h : j = i - h
        BY <1>0, <3>3
      <4>2. j - 1 \in 0..h /\ h + (j - 1) = i - 1 /\ i = h + j
        BY <4>1
      <4>4. (a \o b)[i] = b[j]
        <5>1. \A k \in 1..Len(b) : (a \o b)[Len(a) + k] = b[k]
          BY Joined DEF IsJoin
        <5> QED
          BY <2>1, <4>2, <5>1
      <4>3. b[j] = high[j - 1] % Base
        BY <1>7, <2>1 DEF Lowest
      <4> QED
        BY <1>3, <3>1, <4>2, <4>3, <4>4
    <3> QED
      BY <3>2, <3>3
  <2>5. c = a \o b
    BY <2>2, <2>3, <2>4, SeqEqual
  <2> QED
    BY <2>1, <2>2, <2>5
<1> QED
  BY <1>0, <1>8, <1>9

\* htonll_local, made of two 32-bit halves, reverses all the bytes.
LEMMA HtonllSwaps ==
  ASSUME NEW n \in Nat
  PROVE  htonll_local(n) = hton(n, 2 * Int32Bytes)
<1>1. PICK h \in Nat : h = Int32Bytes
  BY WireAssumption
<1>2. PICK q \in Nat : q = n \div Values(h) /\ Memory(n, 2 * h) = Memory(n, h) \o Memory(q, h)
  BY MemoryHalves
<1>3. Number(Memory(n, h) \o Memory(q, h)) = Number(Memory(n, h)) * Values(h) + Number(Memory(q, h))
  BY MemoryType, NumberConcat
<1> QED
  BY <1>1, <1>2, <1>3 DEF htonll_local, hton

\* What is written is the memory backwards, for every width.
LEMMA ToNetworkReverses ==
  ASSUME NEW n \in Nat, NEW w \in Nat
  PROVE  ToNetwork(n, w) = Reverse(Memory(n, w))
<1>1. ToNetwork(n, w) = Memory(hton(n, w), w)
  BY HtonllSwaps DEF ToNetwork
<1>2. PICK m \in Seq(Byte) : m = Memory(n, w) /\ Len(m) = w
  BY MemoryType
<1> QED
  BY <1>1, <1>2, NumberInMemory DEF hton

\* What is read is the number the bytes stand for, most significant first.
LEMMA FromNetworkIs ==
  ASSUME NEW b \in Seq(Byte)
  PROVE  FromNetwork(b) = Number(b)
<1>1. PICK c \in Seq(Byte) : c = Reverse(b) /\ Len(c) = Len(b) /\ Reverse(c) = b
  BY Reversed
<1>2. FromMemory(b) = Number(c) /\ Number(c) \in Nat
  BY <1>1, NumberBound DEF FromMemory
<1>3. FromNetwork(b) = hton(Number(c), Len(b))
  BY <1>2, HtonllSwaps DEF FromNetwork
<1>4. Memory(Number(c), Len(c)) = Reverse(c)
  BY NumberInMemory
<1> QED
  BY <1>1, <1>3, <1>4 DEF hton

(***************************************************************************)
(* Integers of every width cross the wire (packet.cpp 65, packet.hpp 100): *)
(* a number that fits is written as so many bytes, the most significant    *)
(* first, and read back; and bytes that are read are the ones written for  *)
(* the number they give.                                                   *)
(***************************************************************************)
THEOREM NetworkOrder ==
  /\ \A w \in Nat, n \in Nat : n < Values(w) =>
       /\ ToNetwork(n, w) \in Seq(Byte) /\ Len(ToNetwork(n, w)) = w
       /\ Number(ToNetwork(n, w)) = n /\ FromNetwork(ToNetwork(n, w)) = n
  /\ \A b \in Seq(Byte) :
       /\ FromNetwork(b) = Number(b) /\ Number(b) \in Nat /\ Number(b) < Values(Len(b))
       /\ ToNetwork(Number(b), Len(b)) = b
<1>1. ASSUME NEW w \in Nat, NEW n \in Nat, n < Values(w)
      PROVE  /\ ToNetwork(n, w) \in Seq(Byte) /\ Len(ToNetwork(n, w)) = w
             /\ Number(ToNetwork(n, w)) = n /\ FromNetwork(ToNetwork(n, w)) = n
  <2>1. PICK m \in Seq(Byte) : m = Memory(n, w) /\ Len(m) = w
    BY MemoryType
  <2>2. PICK b \in Seq(Byte) : b = Reverse(m) /\ Len(b) = w /\ b = ToNetwork(n, w)
    BY <2>1, Reversed, ToNetworkReverses
  <2>3. Number(b) = n
    BY <1>1, <2>1, <2>2, MemoryNumber DEF FromMemory
  <2> QED
    BY <2>2, <2>3, FromNetworkIs
<1>2. ASSUME NEW b \in Seq(Byte)
      PROVE  /\ FromNetwork(b) = Number(b) /\ Number(b) \in Nat /\ Number(b) < Values(Len(b))
             /\ ToNetwork(Number(b), Len(b)) = b
  <2>1. Number(b) \in Nat /\ Len(b) \in Nat
    BY NumberBound, ByteNat
  <2>2. ToNetwork(Number(b), Len(b)) = Reverse(Reverse(b))
    BY <2>1, ToNetworkReverses, NumberInMemory
  <2>3. Reverse(Reverse(b)) = b
    BY Reversed
  <2> QED
    BY <2>2, <2>3, FromNetworkIs, NumberBound
<1> QED
  BY <1>1, <1>2

-----------------------------------------------------------------------------
(***************************************************************************)
(* Parts of byte sequences.                                                *)
(***************************************************************************)
IsSlice(s, data, from, n) == Len(s) = n /\ \A i \in 1..n : s[i] = data[from + i]

\* A slice that fits in the data is those bytes.
LEMMA Sliced ==
  ASSUME NEW S, NEW data \in Seq(S), NEW from \in Nat, NEW n \in Nat
  PROVE  /\ Slice(data, from, n) \in Seq(S) /\ Len(Slice(data, from, n)) <= n
         /\ from + n <= Len(data) => IsSlice(Slice(data, from, n), data, from, n)
<1>1. CASE from + n <= Len(data)
  <2>1. Slice(data, from, n) = SubSeq(data, from + 1, from + n)
    BY <1>1 DEF Slice
  <2>2. PICK s : s = SubSeq(data, from + 1, from + n)
    OBVIOUS
  <2>3. s \in Seq(S) /\ Len(s) = n
    BY <1>1, <2>2
  <2>4. ASSUME NEW i \in 1..n
        PROVE  s[i] = data[from + i]
    <3>1. (from + 1) + i - 1 = from + i
      OBVIOUS
    <3>2. s[i] = data[(from + 1) + i - 1]
      BY <1>1, <2>2
    <3> QED
      BY <3>1, <3>2
  <2> QED
    BY <2>1, <2>2, <2>3, <2>4 DEF IsSlice
<1>2. CASE ~ (from + n <= Len(data))
  <2>1. Slice(data, from, n) = SubSeq(data, from + 1, Len(data))
    BY <1>2 DEF Slice
  <2>2. SubSeq(data, from + 1, Len(data)) \in Seq(S)
    OBVIOUS
  <2>3. Len(SubSeq(data, from + 1, Len(data)))
          = IF from + 1 <= Len(data) THEN Len(data) - from ELSE 0
    OBVIOUS
  <2> QED
    BY <1>2, <2>1, <2>2, <2>3
<1> QED
  BY <1>1, <1>2

\* IsPrefix, element by element.
LEMMA PrefixIs ==
  ASSUME NEW S, NEW s \in Seq(S), NEW t \in Seq(S)
  PROVE  IsPrefix(s, t) <=> Len(s) <= Len(t) /\ \A i \in 1..Len(s) : s[i] = t[i]
<1>1. CASE Len(s) <= Len(t)
  <2>1. PICK a, b : a = SubSeq(s, 1, Len(s)) /\ b = SubSeq(t, 1, Len(s))
    OBVIOUS
  <2>2. a \in Seq(S) /\ b \in Seq(S) /\ Len(a) = Len(s) /\ Len(b) = Len(s)
    BY <1>1, <2>1
  <2>3. \A i \in 1..Len(s) : a[i] = s[i] /\ b[i] = t[i]
    BY <1>1, <2>1
  <2>4. a = b <=> \A i \in 1..Len(s) : s[i] = t[i]
    <3>1. ASSUME \A i \in 1..Len(s) : s[i] = t[i]
          PROVE  a = b
      <4>1. \A i \in 1..Len(a) : a[i] = b[i]
        BY <2>2, <2>3, <3>1
      <4> QED
        BY <2>2, <4>1, SeqEqual
    <3>2. ASSUME a = b
          PROVE  \A i \in 1..Len(s) : s[i] = t[i]
      BY <2>3, <3>2
    <3> QED
      BY <3>1, <3>2
  <2> QED
    BY <1>1, <2>1, <2>4 DEF IsPrefix
<1>2. CASE ~ (Len(s) <= Len(t))
  BY <1>2 DEF IsPrefix
<1> QED
  BY <1>1, <1>2

-----------------------------------------------------------------------------
(***************************************************************************)
(* Parameters.                                                             *)
(***************************************************************************)
LEMMA TwoBytes ==
  /\ UINT16_MAX \in Nat /\ UINT16_MAX + 1 = Values(2) /\ UINT16_MAX >= 2
  /\ \A n \in Nat : n <= UINT16_MAX <=> n < Values(2)
<1>1. Values(1) = Base /\ Values(2) = Base * Base
  <2>1. Values(0) = 1 /\ Values(0 + 1) = Values(0) * Base /\ Values(1 + 1) = Values(1) * Base
    BY ValuesNext
  <2>2. 1 * Base = Base
    BY BaseFacts
  <2> QED
    BY <2>1, <2>2
<1>2. Base * Base \in Nat /\ Base * Base >= 4
  BY BaseFacts
<1> QED
  BY <1>1, <1>2 DEF UINT16_MAX

\* A length as it stands before a parameter.
LEMMA LengthBytes ==
  ASSUME NEW n \in Nat, n <= UINT16_MAX
  PROVE  /\ ToNetwork(n, 2) \in Seq(Byte) /\ Len(ToNetwork(n, 2)) = 2
         /\ FromNetwork(ToNetwork(n, 2)) = n
BY TwoBytes, NetworkOrder

\* q is w with the parameter p behind it, b being its length.
IsParam(q, w, b, p) ==
  /\ Len(q) = Len(w) + 2 + Len(p)
  /\ \A i \in 1..Len(w) : q[i] = w[i]
  /\ q[Len(w) + 1] = b[1] /\ q[Len(w) + 2] = b[2]
  /\ \A i \in 1..Len(p) : q[Len(w) + 2 + i] = p[i]

\* A parameter within the limit is added behind what was written.
LEMMA ParamAdded ==
  ASSUME NEW w \in Seq(Byte), NEW p \in Seq(Byte), Len(p) <= UINT16_MAX
  PROVE  /\ add_param(w, p) \in Seq(Byte) /\ add_param(w, p) # Error
         /\ IsParam(add_param(w, p), w, ToNetwork(Len(p), 2), p)
<1>1. PICK b \in Seq(Byte) : b = ToNetwork(Len(p), 2) /\ Len(b) = 2
  BY LengthBytes, ByteNat
<1>2. w # Error
  BY WireAssumption, ByteNat
<1>3. PICK u \in Seq(Byte) : u = w \o b /\ IsJoin(u, w, b)
  BY Joined
<1>4. PICK r \in Seq(Byte) : r = u \o p /\ IsJoin(r, u, p)
  BY Joined
<1>5. add_param(w, p) = r
  BY <1>1, <1>2, <1>3, <1>4, TwoBytes DEF add_param
<1>6. r # Error
  BY WireAssumption, ByteNat
<1>7. \A i \in 1..Len(w) : r[i] = w[i]
  BY <1>1, <1>3, <1>4 DEF IsJoin
<1>8. r[Len(w) + 1] = b[1] /\ r[Len(w) + 2] = b[2]
  BY <1>1, <1>3, <1>4 DEF IsJoin
<1>9. \A i \in 1..Len(p) : r[Len(w) + 2 + i] = p[i]
  <2>1. Len(u) = Len(w) + 2
    BY <1>1, <1>3 DEF IsJoin
  <2> QED
    BY <1>4, <2>1 DEF IsJoin
<1>10. Len(r) = Len(w) + 2 + Len(p)
  BY <1>1, <1>3, <1>4 DEF IsJoin
<1> QED
  BY <1>1, <1>5, <1>6, <1>7, <1>8, <1>9, <1>10 DEF IsParam

\* add_param returns bytes or throws.
LEMMA ParamType ==
  ASSUME NEW x \in Seq(Byte) \cup {Error}, NEW p \in Seq(Byte)
  PROVE  add_param(x, p) \in Seq(Byte) \cup {Error}
<1>1. CASE x = Error \/ Len(p) > UINT16_MAX
  BY <1>1 DEF add_param
<1>2. CASE ~ (x = Error \/ Len(p) > UINT16_MAX)
  <2>1. x \in Seq(Byte) /\ Len(p) <= UINT16_MAX
    BY <1>2, TwoBytes
  <2> QED
    BY <2>1, ParamAdded
<1> QED
  BY <1>1, <1>2

(***************************************************************************)
(* What the recursion of Written defines: parameters added one by one.     *)
(***************************************************************************)
Writes(v, params) == v[0] = <<>> /\ \A i \in 1..Len(params) : v[i] = add_param(v[i - 1], params[i])

\* Written adds one parameter after the other.
LEMMA WrittenIs ==
  ASSUME NEW params \in Seq(Seq(Byte))
  PROVE  \E v : Writes(v, params) /\ Written(params) = v[Len(params)]
<1> DEFINE n == Len(params)
           S == Seq(Byte) \cup {Error}
           written[i \in 0..n] == IF i = 0 THEN <<>> ELSE add_param(written[i - 1], params[i])
           F == [i \in 1..n |-> [x \in S |-> add_param(x, params[i])]]
<1>1. n \in Nat /\ <<>> \in S /\ \A i \in 1..n : params[i] \in Seq(Byte)
  OBVIOUS
<1>2. F \in [1..n -> [S -> S]] /\ \A i \in 1..n, x \in S : F[i][x] = add_param(x, params[i])
  <2>1. \A i \in 1..n, x \in S : add_param(x, params[i]) \in S
    BY <1>1, ParamType
  <2> HIDE DEF n, S
  <2> QED
    BY <2>1
<1>3. PICK v \in [0..n -> S] : v[0] = <<>> /\ \A i \in 1..n : v[i] = F[i][v[i - 1]]
  <2> HIDE DEF n, S, F
  <2>1. HasRun(n, S, <<>>, F)
    BY <1>1, <1>2, Iterates
  <2> QED
    BY <2>1 DEF HasRun
<1>4. v = [i \in 0..n |-> IF i = 0 THEN <<>> ELSE add_param(v[i - 1], params[i])]
  <2> HIDE DEF S, F
  <2>1. \A i \in 1..n : v[i - 1] \in S
    OBVIOUS
  <2> HIDE DEF n
  <2>2. \A i \in 1..n : v[i] = add_param(v[i - 1], params[i])
    BY <1>2, <1>3, <2>1
  <2>3. \A i \in 0..n : i = 0 \/ i \in 1..n
    BY <1>1
  <2> QED
    BY <1>3, <2>2, <2>3
<1>5. written = CHOOSE f : f = [i \in 0..n |-> IF i = 0 THEN <<>> ELSE add_param(f[i - 1], params[i])]
  BY DEF written
<1>6. Written(params) = written[n]
  BY DEF Written
<1> HIDE DEF written
<1>7. written = [i \in 0..n |-> IF i = 0 THEN <<>> ELSE add_param(written[i - 1], params[i])]
  BY <1>4, <1>5
<1>8. Writes(written, params)
  <2>1. 0 \in 0..n /\ \A i \in 1..n : i \in 0..n /\ i # 0
    BY <1>1
  <2> HIDE DEF n
  <2>2. written[0] = <<>>
    BY <1>7, <2>1
  <2>3. \A i \in 1..n : written[i] = add_param(written[i - 1], params[i])
    BY <1>7, <2>1
  <2> QED
    BY <2>2, <2>3 DEF Writes, n
<1> QED
  BY <1>6, <1>8

\* One parameter more is one add_param more.
LEMMA WrittenAppend ==
  ASSUME NEW params \in Seq(Seq(Byte)), NEW p \in Seq(Byte)
  PROVE  Written(Append(params, p)) = add_param(Written(params), p)
<1>1. PICK n \in Nat, more \in Seq(Seq(Byte)) : n = Len(params) /\ more = Append(params, p)
  BY AppendProperties, LenProperties
<1>2. Len(more) = n + 1 /\ more[n + 1] = p /\ \A i \in 1..n : more[i] = params[i]
  BY <1>1
<1>3. PICK v : Writes(v, params) /\ Written(params) = v[n]
  BY <1>1, WrittenIs
<1>4. PICK u : Writes(u, more) /\ Written(more) = u[n + 1]
  BY <1>2, WrittenIs
<1> DEFINE T == {i \in 0..n : v[i] = u[i]}
<1>5. 0 \in T
  BY <1>3, <1>4 DEF Writes
<1>6. ASSUME NEW i \in 1..n, i - 1 \in T
      PROVE  i \in T
  <2>1. i \in 1..(n + 1) /\ i \in 0..n
    OBVIOUS
  <2>2. v[i] = add_param(v[i - 1], params[i]) /\ u[i] = add_param(u[i - 1], params[i])
    BY <1>1, <1>2, <1>3, <1>4, <2>1 DEF Writes
  <2> QED
    BY <1>6, <2>1, <2>2
<1>7. \A i \in 0..n : i \in T
  <2> HIDE DEF T
  <2> QED
    BY <1>5, <1>6, UpTo
<1>8. n + 1 \in 1..(n + 1) /\ (n + 1) - 1 = n /\ n \in 0..n
  OBVIOUS
<1>9. u[n + 1] = add_param(u[n], p)
  <2>1. u[n + 1] = add_param(u[(n + 1) - 1], more[n + 1])
    BY <1>2, <1>4, <1>8 DEF Writes
  <2> QED
    BY <1>2, <1>8, <2>1
<1> QED
  BY <1>1, <1>3, <1>4, <1>7, <1>8, <1>9

\* Nothing is written for no parameters.
LEMMA WrittenNothing == Written(<<>>) = <<>>
<1>1. PICK params \in Seq(Seq(Byte)) : params = <<>> /\ Len(params) = 0
  BY EmptySeq
<1>2. PICK v : Writes(v, params) /\ Written(params) = v[0]
  BY <1>1, WrittenIs
<1> QED
  BY <1>1, <1>2 DEF Writes

-----------------------------------------------------------------------------
(***************************************************************************)
(* PayloadReader.                                                          *)
(***************************************************************************)
NothingNext(w, data) ==
  \A n \in 0..Len(data) :
     LET next == add_param(w, Slice(data, Len(w) + 2, n))
     IN next = Error \/ ~IsPrefix(next, data)

\* A length that is there is read as the number it was written for.
LEMMA LengthRead ==
  ASSUME NEW data \in Seq(Byte), NEW at \in Nat, at + 2 <= Len(data)
  PROVE  LET b == Slice(data, at, 2)
             len == peek_next_param_size(data, at)
         IN /\ b \in Seq(Byte) /\ Len(b) = 2 /\ b[1] = data[at + 1] /\ b[2] = data[at + 2]
            /\ len = FromNetwork(b) /\ len \in Nat /\ len # Error
            /\ len <= UINT16_MAX /\ ToNetwork(len, 2) = b
<1>1. PICK b \in Seq(Byte) : b = Slice(data, at, 2) /\ IsSlice(b, data, at, 2)
  BY Sliced
<1>2. PICK n \in Nat : n = Number(b) /\ FromNetwork(b) = n /\ n < Values(2) /\ ToNetwork(n, 2) = b
  BY <1>1, NetworkOrder DEF IsSlice
<1>3. peek_next_param_size(data, at) = n
  BY <1>1, <1>2 DEF peek_next_param_size
<1>4. n # Error /\ n <= UINT16_MAX
  BY <1>2, WireAssumption, TwoBytes
<1>5. Len(b) = 2 /\ b[1] = data[at + 1] /\ b[2] = data[at + 2]
  BY <1>1 DEF IsSlice
<1> QED
  BY <1>1, <1>2, <1>3, <1>4, <1>5

\* Without two bytes for a length the read throws and the offset stays.
LEMMA ReadBehind ==
  ASSUME NEW data \in Seq(Byte), NEW at \in Nat, at + 2 > Len(data)
  PROVE  read_param_bytes(data, at) = [param |-> Error, offset |-> at]
BY DEF read_param_bytes, peek_next_param_size

(***************************************************************************)
(* Behind parameters that were written, the reader finds the next one, and *)
(* finds none only where none was written.                                 *)
(***************************************************************************)
LEMMA ReadNext ==
  ASSUME NEW data \in Seq(Byte), NEW w \in Seq(Byte), IsPrefix(w, data)
  PROVE  LET r == read_param_bytes(data, Len(w))
             more == add_param(w, r.param)
         IN \/ r.param = Error /\ r.offset \in Nat /\ r.offset + 2 > Len(data) /\ NothingNext(w, data)
            \/ /\ r.param \in Seq(Byte) /\ r.param # Error
               /\ more \in Seq(Byte) /\ IsPrefix(more, data) /\ r.offset = Len(more)
<1>1. PICK L \in Nat, N \in Nat : L = Len(w) /\ N = Len(data)
  BY ByteNat
<1>2. L <= N /\ \A i \in 1..L : w[i] = data[i]
  BY <1>1, PrefixIs
\* What follows from a parameter that does follow.
<1>3. ASSUME NEW n \in 0..N,
             add_param(w, Slice(data, L + 2, n)) # Error,
             IsPrefix(add_param(w, Slice(data, L + 2, n)), data)
      PROVE  /\ L + 2 <= N
             /\ L + 2 + peek_next_param_size(data, L) <= N
  <2>1. PICK p \in Seq(Byte) : p = Slice(data, L + 2, n)
    BY <1>1, Sliced
  <2>2. Len(p) <= UINT16_MAX
    BY <1>3, <2>1, TwoBytes, ByteNat DEF add_param
  <2>3. PICK q \in Seq(Byte) : q = add_param(w, p) /\ IsParam(q, w, ToNetwork(Len(p), 2), p)
    BY <2>2, ParamAdded
  <2>4. Len(q) <= N /\ \A i \in 1..Len(q) : q[i] = data[i]
    BY <1>1, <1>3, <2>1, <2>3, PrefixIs
  <2>5. PICK k \in Nat : k = Len(p)
    BY ByteNat
  <2>6. L + 2 + k <= N /\ L + 2 <= N
    BY <1>1, <2>3, <2>4, <2>5 DEF IsParam
  <2>7. PICK b \in Seq(Byte) : b = Slice(data, L, 2) /\ Len(b) = 2 /\ b[1] = data[L + 1]
          /\ b[2] = data[L + 2] /\ peek_next_param_size(data, L) = FromNetwork(b)
    BY <1>1, <2>6, LengthRead
  <2>8. PICK c \in Seq(Byte) : c = ToNetwork(k, 2) /\ Len(c) = 2 /\ FromNetwork(c) = k
    BY <2>2, <2>5, LengthBytes
  <2>9. q[L + 1] = c[1] /\ q[L + 2] = c[2] /\ q[L + 1] = data[L + 1] /\ q[L + 2] = data[L + 2]
    BY <1>1, <2>3, <2>4, <2>5, <2>6, <2>8 DEF IsParam
  <2>10. \A i \in 1..Len(b) : b[i] = c[i]
    <3>1. \A i \in 1..2 : i = 1 \/ i = 2
      OBVIOUS
    <3> QED
      BY <2>7, <2>9, <3>1
  <2>11. b = c
    BY <2>7, <2>8, <2>10, SeqEqual
  <2> QED
    BY <2>6, <2>7, <2>8, <2>11
<1>4. CASE L + 2 > N
  <2>1. read_param_bytes(data, L) = [param |-> Error, offset |-> L]
    BY <1>1, <1>4, ReadBehind
  <2>2. NothingNext(w, data)
    BY <1>1, <1>3, <1>4 DEF NothingNext
  <2> QED
    BY <1>1, <1>4, <2>1, <2>2
<1>5. CASE L + 2 <= N
  <2>1. PICK len \in Nat, b \in Seq(Byte) :
          len = peek_next_param_size(data, L) /\ len # Error /\ b = Slice(data, L, 2)
          /\ Len(b) = 2 /\ b[1] = data[L + 1] /\ b[2] = data[L + 2]
          /\ len <= UINT16_MAX /\ ToNetwork(len, 2) = b
    BY <1>1, <1>5, LengthRead
  <2>2. CASE L + 2 + len > N
    <3>1. read_param_bytes(data, L) = [param |-> Error, offset |-> N]
      BY <1>1, <2>1, <2>2 DEF read_param_bytes
    <3>2. NothingNext(w, data)
      BY <1>1, <1>3, <2>1, <2>2 DEF NothingNext
    <3> QED
      BY <1>1, <3>1, <3>2
  <2>3. CASE L + 2 + len <= N
    <3>1. PICK p \in Seq(Byte) : p = Slice(data, L + 2, len) /\ IsSlice(p, data, L + 2, len)
      <4>1. L + 2 \in Nat /\ (L + 2) + len <= Len(data)
        BY <1>1, <2>3
      <4> QED
        BY <4>1, Sliced
    <3>2. read_param_bytes(data, L) = [param |-> p, offset |-> L + 2 + len]
      BY <1>1, <2>1, <2>3, <3>1 DEF read_param_bytes
    <3>3. p # Error
      BY WireAssumption, ByteNat
    <3>4. PICK q \in Seq(Byte) : q = add_param(w, p) /\ IsParam(q, w, b, p)
      BY <2>1, <3>1, ParamAdded DEF IsSlice
    <3>7. Len(p) = len /\ Len(q) = L + 2 + len /\ \A i \in 1..L : q[i] = w[i]
      BY <1>1, <3>1, <3>4 DEF IsSlice, IsParam
    <3>5. ASSUME NEW i \in 1..(L + 2 + len)
          PROVE  q[i] = data[i]
      <4>1. CASE i \in 1..L
        BY <1>2, <3>7, <4>1
      <4>2. CASE i = L + 1 \/ i = L + 2
        BY <1>1, <2>1, <3>4, <4>2 DEF IsParam
      <4>3. CASE i > L + 2
        <5>1. PICK j \in 1..len : j = i - (L + 2)
          BY <4>3
        <5>2. i = L + 2 + j
          BY <5>1
        <5> QED
          BY <1>1, <3>1, <3>4, <3>7, <5>2 DEF IsSlice, IsParam
      <4> QED
        BY <4>1, <4>2, <4>3
    <3>6. IsPrefix(q, data)
      BY <1>1, <2>3, <3>5, <3>7, PrefixIs
    <3> QED
      BY <1>1, <3>2, <3>3, <3>4, <3>6, <3>7
  <2> QED
    BY <1>1, <2>1, <2>2, <2>3
<1> QED
  BY <1>1, <1>4, <1>5

(***************************************************************************)
(* The inductive invariant: what was read is known to be bytes, and after  *)
(* a read that threw the reader stands where no length fits any more.      *)
(***************************************************************************)
ReaderInv ==
  /\ params_data \in Seq(Byte) /\ offset \in Nat /\ read \in Seq(Seq(Byte)) /\ failed \in BOOLEAN
  /\ Written(read) \in Seq(Byte) /\ IsPrefix(Written(read), params_data)
  /\ ~failed => offset = Len(Written(read))
  /\ failed => offset + 2 > Len(params_data) /\ NothingNext(Written(read), params_data)

\* Nothing read is a prefix of any data.
LEMMA EmptyPrefix ==
  ASSUME NEW data \in Seq(Byte)
  PROVE  <<>> \in Seq(Byte) /\ Len(<<>>) = 0 /\ IsPrefix(<<>>, data)
<1>1. PICK e \in Seq(Byte) : e = <<>> /\ Len(e) = 0
  BY EmptySeq
<1>2. \A i \in 1..Len(e) : e[i] = data[i]
  BY <1>1
<1>3. Len(e) <= Len(data)
  BY <1>1, ByteNat
<1>4. IsPrefix(e, data)
  BY <1>2, <1>3, PrefixIs
<1> QED
  BY <1>1, <1>4

\* Every step keeps the invariant of the reader.
LEMMA ReaderStep ==
  ASSUME ReaderInv, [Next]_<<wireVars, configVars>>
  PROVE  ReaderInv'
<1>1. PICK data \in Seq(Byte), w \in Seq(Byte), ps \in Seq(Seq(Byte)), at \in Nat :
        data = params_data /\ w = Written(read) /\ ps = read /\ at = offset
  BY DEF ReaderInv
<1>2. CASE UNCHANGED wireVars
  BY <1>2 DEF wireVars, ReaderInv, NothingNext
<1>3. ASSUME NEW b \in Byte, Receive(b)
      PROVE  ReaderInv'
  <2>1. read = <<>> /\ ~failed /\ params_data' = Append(params_data, b)
        /\ offset' = offset /\ read' = read /\ failed' = failed
    BY <1>3 DEF Receive
  <2>2. params_data' \in Seq(Byte)
    BY <2>1, AppendProperties DEF ReaderInv
  <2>3. Written(read) = <<>> /\ Written(read') = <<>>
    BY <2>1, WrittenNothing
  <2>4. PICK next \in Seq(Byte) : next = params_data'
    BY <2>2
  <2>5. <<>> \in Seq(Byte) /\ IsPrefix(<<>>, next)
    BY EmptyPrefix
  <2> QED
    BY <2>1, <2>2, <2>3, <2>4, <2>5 DEF ReaderInv
<1>4. ASSUME read_param
      PROVE  ReaderInv'
  <2>1. PICK p, to : p = read_param_bytes(data, at).param /\ to = read_param_bytes(data, at).offset
    OBVIOUS
  <2>2. offset' = to /\ params_data' = data /\ read' = (IF p = Error THEN ps ELSE Append(ps, p))
        /\ failed' = (failed \/ p = Error)
    BY <1>1, <1>4, <2>1 DEF read_param
  <2>3. CASE failed
    <3>1. p = Error /\ to = at
      BY <1>1, <2>1, <2>3, ReadBehind DEF ReaderInv
    <3>2. offset' = offset /\ read' = read /\ failed' = failed /\ params_data' = params_data
      BY <1>1, <2>2, <2>3, <3>1
    <3> QED
      BY <3>2 DEF ReaderInv, NothingNext
  <2>4. CASE ~failed
    <3>1. at = Len(w) /\ IsPrefix(w, data) /\ Written(ps) = w
      BY <1>1, <2>4 DEF ReaderInv
    <3>2. \/ p = Error /\ to \in Nat /\ to + 2 > Len(data) /\ NothingNext(w, data)
          \/ /\ p \in Seq(Byte) /\ p # Error /\ add_param(w, p) \in Seq(Byte)
             /\ IsPrefix(add_param(w, p), data) /\ to = Len(add_param(w, p))
      BY <2>1, <3>1, ReadNext
    <3>3. CASE p = Error
      <4>1. read' = ps /\ failed' = TRUE /\ Written(read') = w
        BY <2>2, <3>1, <3>3
      <4>2. to \in Nat /\ to + 2 > Len(data) /\ NothingNext(w, data)
        BY <3>2, <3>3
      <4> QED
        BY <1>1, <2>2, <3>1, <4>1, <4>2 DEF ReaderInv, NothingNext
    <3>4. CASE p # Error
      <4>1. PICK q : q = add_param(w, p)
        OBVIOUS
      <4>2. p \in Seq(Byte) /\ q \in Seq(Byte) /\ IsPrefix(q, data) /\ to = Len(q)
        BY <3>2, <3>4, <4>1
      <4>3. Written(Append(ps, p)) = q
        BY <3>1, <4>1, <4>2, WrittenAppend
      <4>4. Append(ps, p) \in Seq(Seq(Byte))
        BY <4>2, AppendProperties
      <4>5. read' = Append(ps, p) /\ failed' = FALSE /\ Written(read') = q
        BY <2>2, <2>4, <3>4, <4>3
      <4>6. to \in Nat
        BY <4>2, ByteNat
      <4> QED
        BY <2>2, <4>2, <4>4, <4>5, <4>6 DEF ReaderInv
    <3> QED
      BY <3>3, <3>4
  <2> QED
    BY <2>3, <2>4
<1> QED
  BY <1>2, <1>3, <1>4 DEF Next, ReadPayload, ReadFile

\* The invariant holds throughout.
LEMMA ReaderInvariant == Spec => []ReaderInv
<1>1. Init => ReaderInv
  <2> SUFFICES ASSUME Init PROVE ReaderInv
    OBVIOUS
  <2>1. params_data = <<>> /\ offset = 0 /\ read = <<>> /\ failed = FALSE
    BY DEF Init, WireInit
  <2>2. PICK e \in Seq(Byte) : e = <<>> /\ Len(e) = 0 /\ IsPrefix(<<>>, e)
    BY EmptySeq, EmptyPrefix
  <2>3. <<>> \in Seq(Seq(Byte)) /\ Written(<<>>) = <<>>
    BY EmptySeq, WrittenNothing
  <2> QED
    BY <2>1, <2>2, <2>3 DEF ReaderInv
<1>2. ReaderInv /\ [Next]_<<wireVars, configVars>> => ReaderInv'
  BY ReaderStep
<1> QED
  BY <1>1, <1>2, PTL DEF Spec

(***************************************************************************)
(* ReaderExact for buffers of every length: a PayloadReader returns the    *)
(* parameters a PayloadBuilder wrote and nothing else.                     *)
(***************************************************************************)
THEOREM ReaderIsExact == Spec => []ReaderExact
<1>1. ReaderInv => ReaderExact
  BY DEF ReaderInv, ReaderExact, NothingNext
<1> QED
  BY <1>1, ReaderInvariant, PTL

-----------------------------------------------------------------------------
(***************************************************************************)
(* Messages.                                                               *)
(***************************************************************************)
LEMMA SliceEqual ==
  ASSUME NEW S, NEW data \in Seq(S), NEW from \in Nat, NEW p \in Seq(S), NEW n \in Nat,
         IsSlice(p, data, from, Len(p)), from + Len(p) <= Len(data),
         n = Len(p) \/ (from + Len(p) = Len(data) /\ n >= Len(p))
  PROVE  Slice(data, from, n) = p
<1>1. PICK m \in Nat : m = Len(p)
  BY LenProperties
<1>2. Slice(data, from, n) = SubSeq(data, from + 1, from + m)
  <2>1. CASE n = m
    BY <1>1, <2>1 DEF Slice
  <2>2. CASE n # m
    <3>1. from + m = Len(data) /\ ~ (from + n <= Len(data))
      BY <1>1, <2>2
    <3> QED
      BY <3>1 DEF Slice
  <2> QED
    BY <2>1, <2>2
<1>3. Slice(data, from, m) = SubSeq(data, from + 1, from + m)
  BY <1>1 DEF Slice
<1>4. PICK s \in Seq(S) : s = Slice(data, from, m) /\ IsSlice(s, data, from, m)
  BY <1>1, Sliced
<1>5. Len(s) = Len(p) /\ \A i \in 1..Len(s) : s[i] = p[i]
  BY <1>1, <1>4 DEF IsSlice
<1>6. s = p
  BY <1>5, SeqEqual
<1> QED
  BY <1>2, <1>3, <1>4, <1>6

\* Both parts of a concatenation are found again by slices.
LEMMA JoinParts ==
  ASSUME NEW a \in Seq(Byte), NEW b \in Seq(Byte)
  PROVE  /\ a \o b \in Seq(Byte) /\ Len(a \o b) = Len(a) + Len(b)
         /\ IsPrefix(a, a \o b)
         /\ Slice(a \o b, 0, Len(a)) = a
         /\ \A n \in Nat : n >= Len(b) => Slice(a \o b, Len(a), n) = b
<1>1. PICK c \in Seq(Byte) : c = a \o b /\ IsJoin(c, a, b)
  BY Joined
<1>2. PICK m, k \in Nat : m = Len(a) /\ k = Len(b)
  BY ByteNat
<1>3. Len(c) = m + k /\ (\A i \in 1..m : c[i] = a[i]) /\ \A i \in 1..k : c[m + i] = b[i]
  BY <1>1, <1>2 DEF IsJoin
<1>4. IsPrefix(a, c)
  BY <1>2, <1>3, PrefixIs
<1>5. Slice(c, 0, m) = a
  <2>1. IsSlice(a, c, 0, Len(a))
    BY <1>2, <1>3 DEF IsSlice
  <2> QED
    BY <1>2, <1>3, <2>1, SliceEqual
<1>6. ASSUME NEW n \in Nat, n >= k
      PROVE  Slice(c, m, n) = b
  <2>1. IsSlice(b, c, m, Len(b))
    BY <1>2, <1>3 DEF IsSlice
  <2> QED
    BY <1>2, <1>3, <1>6, <2>1, SliceEqual
<1> QED
  BY <1>1, <1>2, <1>3, <1>4, <1>5, <1>6

(***************************************************************************)
(* A parameter that was written is read, whatever follows it.              *)
(***************************************************************************)
LEMMA ParamRead ==
  ASSUME NEW w \in Seq(Byte), NEW p \in Seq(Byte), NEW data \in Seq(Byte),
         Len(p) <= UINT16_MAX, IsPrefix(add_param(w, p), data)
  PROVE  read_param_bytes(data, Len(w)) = [param |-> p, offset |-> Len(add_param(w, p))]
<1>1. PICK L \in Nat, k \in Nat, N \in Nat : L = Len(w) /\ k = Len(p) /\ N = Len(data)
  BY ByteNat
<1>2. PICK b \in Seq(Byte) : b = ToNetwork(k, 2) /\ Len(b) = 2 /\ FromNetwork(b) = k
  BY <1>1, LengthBytes
<1>3. PICK q \in Seq(Byte) : q = add_param(w, p) /\ IsParam(q, w, b, p)
  BY <1>1, <1>2, ParamAdded
<1>4. Len(q) = L + 2 + k /\ q[L + 1] = b[1] /\ q[L + 2] = b[2] /\ \A i \in 1..k : q[L + 2 + i] = p[i]
  BY <1>1, <1>3 DEF IsParam
<1>5. L + 2 + k <= N /\ \A i \in 1..(L + 2 + k) : q[i] = data[i]
  <2>1. IsPrefix(q, data)
    BY <1>3
  <2>2. Len(q) <= Len(data) /\ \A i \in 1..Len(q) : q[i] = data[i]
    BY <2>1, PrefixIs
  <2> QED
    BY <1>1, <1>4, <2>2
<1>6. Slice(data, L, 2) = b
  <2>1. \A i \in 1..2 : i = 1 \/ i = 2
    OBVIOUS
  <2>2. \A i \in 1..2 : b[i] = data[L + i]
    BY <1>4, <1>5, <2>1
  <2>3. IsSlice(b, data, L, Len(b))
    BY <1>2, <2>2 DEF IsSlice
  <2>4. L + Len(b) <= Len(data) /\ 2 = Len(b)
    <3>1. L + 2 <= N
      BY <1>5
    <3> QED
      BY <1>1, <1>2, <3>1
  <2>5. Slice(data, L, Len(b)) = b
    BY <2>3, <2>4, ByteNat, SliceEqual
  <2> QED
    BY <2>4, <2>5
<1>7. Slice(data, L + 2, k) = p
  <2>1. \A i \in 1..k : L + 2 + i \in 1..(L + 2 + k)
    OBVIOUS
  <2>2. \A i \in 1..k : p[i] = data[L + 2 + i]
    BY <1>4, <1>5, <2>1
  <2>3. IsSlice(p, data, L + 2, Len(p)) /\ L + 2 \in Nat /\ (L + 2) + Len(p) <= Len(data)
    <3>1. IsSlice(p, data, L + 2, k)
      BY <1>1, <2>2 DEF IsSlice
    <3> QED
      BY <1>1, <1>5, <3>1
  <2> QED
    BY <1>1, <2>3, SliceEqual
<1>8. peek_next_param_size(data, L) = k /\ k # Error
  BY <1>1, <1>2, <1>5, <1>6, WireAssumption DEF peek_next_param_size
<1> QED
  BY <1>1, <1>3, <1>4, <1>5, <1>7, <1>8 DEF read_param_bytes

\* The bytes of an integer that fits, as a parameter of its own.
LEMMA IntRead ==
  ASSUME NEW width \in Nat, width <= UINT16_MAX, NEW n \in Nat, n < Values(width)
  PROVE  LET head == add_int(<<>>, n, width)
         IN /\ head \in Seq(Byte) /\ Len(head) = 2 + width
            /\ \A data \in Seq(Byte) : IsPrefix(head, data) =>
                 read_int(data, 0, width) = [value |-> n, offset |-> Len(head)]
<1>1. PICK p \in Seq(Byte) : p = ToNetwork(n, width) /\ Len(p) = width /\ FromNetwork(p) = n
  BY NetworkOrder
<1>2. PICK e \in Seq(Byte) : e = <<>> /\ Len(e) = 0
  BY EmptySeq
<1>3. PICK q \in Seq(Byte) : q = add_param(e, p) /\ IsParam(q, e, ToNetwork(Len(p), 2), p)
  BY <1>1, ParamAdded
<1>4. Len(q) = 2 + width /\ q = add_int(<<>>, n, width)
  BY <1>1, <1>2, <1>3 DEF IsParam, add_int
<1>5. p # Error
  BY WireAssumption, ByteNat
<1>6. ASSUME NEW data \in Seq(Byte), IsPrefix(q, data)
      PROVE  read_int(data, 0, width) = [value |-> n, offset |-> Len(q)]
  <2>1. read_param_bytes(data, 0) = [param |-> p, offset |-> Len(q)]
    <3>1. Len(p) <= UINT16_MAX /\ IsPrefix(add_param(e, p), data)
      BY <1>1, <1>3, <1>6
    <3>2. read_param_bytes(data, Len(e)) = [param |-> p, offset |-> Len(add_param(e, p))]
      BY <3>1, ParamRead
    <3> QED
      BY <1>2, <1>3, <3>2
  <2> QED
    BY <1>1, <1>5, <2>1 DEF read_int
<1> QED
  BY <1>4, <1>6

\* A payload is deserialized as it was serialized.
LEMMA PayloadRead ==
  ASSUME NEW op \in Nat, op <= UINT16_MAX, NEW data \in Seq(Byte)
  PROVE  LET payload == [op_code |-> op, parameters |-> data]
         IN /\ serialize(payload) \in Seq(Byte) /\ Len(serialize(payload)) = 2 + Len(data)
            /\ deserialize(serialize(payload)) = payload
<1> DEFINE payload == [op_code |-> op, parameters |-> data]
<1>1. PICK b \in Seq(Byte) : b = ToNetwork(op, 2) /\ Len(b) = 2 /\ FromNetwork(b) = op
  BY LengthBytes
<1>2. PICK c : c = b \o data
  OBVIOUS
<1>3. serialize(payload) = c
  BY <1>1, <1>2 DEF serialize
<1>4. PICK m \in Nat : m = Len(data)
  BY ByteNat
<1>5. c \in Seq(Byte) /\ Len(c) = 2 + m
  BY <1>1, <1>2, <1>4, JoinParts
<1>6. Slice(c, 0, 2) = b /\ Slice(c, 2, Len(c)) = data
  <2>1. Slice(c, 0, Len(b)) = b /\ \A n \in Nat : n >= Len(data) => Slice(c, Len(b), n) = data
    BY <1>2, JoinParts
  <2>2. Len(c) \in Nat /\ Len(c) >= Len(data)
    BY <1>4, <1>5
  <2> QED
    BY <1>1, <2>1, <2>2
<1>7. deserialize(c) = payload
  BY <1>1, <1>4, <1>5, <1>6 DEF deserialize
<1> QED
  BY <1>3, <1>4, <1>5, <1>7

\* The round trips hold of any bytes.
LEMMA MessagesHold ==
  ASSUME params_data \in Seq(Byte)
  PROVE  MessagesRoundTrip
<1>1. PICK data \in Seq(Byte), h \in Nat : data = params_data /\ h = Int32Bytes
  BY WireAssumption
<1>2. 2 * h <= UINT16_MAX /\ h <= UINT16_MAX /\ 2 <= UINT16_MAX /\ UINT16_MAX \in Nat
  BY <1>1, WireAssumption, TwoBytes, BaseFacts DEF UINT16_MAX
<1>3. PICK m \in Nat : m = Len(data)
  BY ByteNat
<1>4. PICK id \in Nat : id = Number(Slice(data, 0, h)) /\ id < Values(h)
  <2>1. PICK s \in Seq(Byte) : s = Slice(data, 0, h) /\ Len(s) <= h
    BY Sliced
  <2>2. PICK k \in 0..h : k = Len(s)
    BY <2>1, ByteNat
  <2>3. PICK n \in Nat : n = Number(s) /\ n < Values(k)
    BY <2>2, NumberBound
  <2>4. PICK x, y \in Nat : x = Values(k) /\ y = Values(h) /\ x <= y
    <3>1. k \in Nat /\ Values(k) <= Values(h)
      BY ValuesGrow
    <3>2. Values(k) \in Nat /\ Values(h) \in Nat
      BY <3>1, ValuesPositive
    <3> QED
      BY <3>1, <3>2
  <2> QED
    BY <2>1, <2>3, <2>4
<1>5. PICK op \in Nat : op = id % (UINT16_MAX + 1) /\ op <= UINT16_MAX
  BY <1>2
<1>6. PICK payload : payload = [op_code |-> op, parameters |-> data]
  OBVIOUS
<1>7. PICK body \in Seq(Byte) : body = serialize(payload) /\ Len(body) = 2 + m
        /\ deserialize(body) = payload
  BY <1>3, <1>5, <1>6, PayloadRead
<1>8. PICK head \in Seq(Byte) : head = add_int(<<>>, id, h) /\ Len(head) = 2 + h
        /\ \A d \in Seq(Byte) : IsPrefix(head, d) =>
             read_int(d, 0, h) = [value |-> id, offset |-> Len(head)]
  BY <1>2, <1>4, IntRead
<1>9. PICK response : response = add_param(head, body) /\ response = send_response(id, payload)
  BY <1>1, <1>7, <1>8 DEF send_response
<1>10. ASSUME 2 + m > UINT16_MAX
       PROVE  response = Error
  BY <1>2, <1>7, <1>9, <1>10 DEF add_param
<1>11. ASSUME ~ (2 + m > UINT16_MAX)
       PROVE  on_response(response) = [id |-> id, payload |-> payload]
  <2>1. Len(body) <= UINT16_MAX
    BY <1>2, <1>7, <1>11
  <2>2. response \in Seq(Byte) /\ IsParam(response, head, ToNetwork(Len(body), 2), body)
    BY <1>9, <2>1, ParamAdded
  <2>3. IsPrefix(head, response) /\ IsPrefix(response, response)
    <3>1. Len(head) <= Len(response) /\ \A i \in 1..Len(head) : head[i] = response[i]
      BY <1>7, <1>8, <2>2 DEF IsParam
    <3>2. Len(response) \in Nat
      BY <2>2, ByteNat
    <3> QED
      BY <2>2, <3>1, <3>2, PrefixIs
  <2>4. read_int(response, 0, h) = [value |-> id, offset |-> Len(head)]
    BY <1>8, <2>2, <2>3
  <2>5. read_param_bytes(response, Len(head)).param = body
    <3>1. IsPrefix(add_param(head, body), response)
      BY <1>9, <2>3
    <3>2. read_param_bytes(response, Len(head))
            = [param |-> body, offset |-> Len(add_param(head, body))]
      BY <2>1, <2>2, <3>1, ParamRead
    <3> QED
      BY <3>2
  <2>6. id # Error /\ body # Error
    BY WireAssumption, ByteNat
  <2> QED
    BY <1>1, <1>7, <2>4, <2>5, <2>6 DEF on_response
<1>12. PICK request : request = head \o data /\ request = request_parameters(id, data)
  BY <1>1, <1>8 DEF request_parameters
<1>13. LET r == read_int(request, 0, h)
       IN r.value = id /\ Slice(request, r.offset, Len(request)) = data
  <2>1. request \in Seq(Byte) /\ Len(request) = Len(head) + m /\ IsPrefix(head, request)
        /\ \A n \in Nat : n >= m => Slice(request, Len(head), n) = data
    <3>1. head \o data \in Seq(Byte) /\ Len(head \o data) = Len(head) + Len(data)
          /\ IsPrefix(head, head \o data)
          /\ \A n \in Nat : n >= Len(data) => Slice(head \o data, Len(head), n) = data
      BY JoinParts
    <3> QED
      BY <1>3, <1>12, <3>1
  <2>2. read_int(request, 0, h) = [value |-> id, offset |-> Len(head)]
    BY <1>8, <2>1
  <2>3. Len(request) \in Nat /\ Len(request) >= m
    BY <1>8, <2>1
  <2> QED
    BY <2>1, <2>2, <2>3
<1>14. ASSUME m \in {1, 2, h, 2 * h}
       PROVE  LET n == Number(data)
              IN ToNetwork(n, m) = data /\ read_int(add_int(<<>>, n, m), 0, m).value = n
  <2>1. m <= UINT16_MAX
    BY <1>2, <1>14
  <2>2. PICK n \in Nat : n = Number(data) /\ n < Values(m) /\ ToNetwork(n, m) = data
    BY <1>3, NetworkOrder
  <2>3. PICK q \in Seq(Byte) : q = add_int(<<>>, n, m)
          /\ \A d \in Seq(Byte) : IsPrefix(q, d) => read_int(d, 0, m) = [value |-> n, offset |-> Len(q)]
    BY <2>1, <2>2, IntRead
  <2>4. IsPrefix(q, q)
    <3>1. Len(q) \in Nat
      BY ByteNat
    <3> QED
      BY <3>1, PrefixIs
  <2> QED
    BY <2>2, <2>3, <2>4
<1> QED
  BY <1>1, <1>3, <1>4, <1>5, <1>6, <1>9, <1>10, <1>11, <1>12, <1>13, <1>14 DEF MessagesRoundTrip

(***************************************************************************)
(* MessagesRoundTrip for bytes, integers and payloads of every size.       *)
(***************************************************************************)
THEOREM MessagesCorrect == Spec => []MessagesRoundTrip
<1>1. ReaderInv => MessagesRoundTrip
  BY MessagesHold DEF ReaderInv
<1> QED
  BY <1>1, ReaderInvariant, PTL

-----------------------------------------------------------------------------
(***************************************************************************)
(* Hellos.  At says that the bytes p stand in data behind an offset.       *)
(***************************************************************************)
At(data, from, p) == from + Len(p) <= Len(data) /\ \A i \in 1..Len(p) : data[from + i] = p[i]

\* What stands at an offset is the slice there.
LEMMA AtSlice ==
  ASSUME NEW data \in Seq(Nat), NEW from \in Nat, NEW p \in Seq(Nat), At(data, from, p)
  PROVE  Slice(data, from, Len(p)) = p
<1>1. IsSlice(p, data, from, Len(p)) /\ from + Len(p) <= Len(data)
  BY DEF At, IsSlice
<1>2. Len(p) \in Nat
  BY LenProperties
<1> QED
  BY <1>1, <1>2, SliceEqual

\* A slice stands where it was taken.
LEMMA SliceAt ==
  ASSUME NEW S, NEW data \in Seq(S), NEW from \in Nat, NEW n \in Nat, from + n <= Len(data)
  PROVE  /\ Slice(data, from, n) \in Seq(S) /\ Len(Slice(data, from, n)) = n
         /\ At(data, from, Slice(data, from, n))
<1>1. PICK s \in Seq(S) : s = Slice(data, from, n) /\ IsSlice(s, data, from, n)
  BY Sliced
<1>2. Len(s) = n /\ \A i \in 1..Len(s) : data[from + i] = s[i]
  BY <1>1 DEF IsSlice
<1> QED
  BY <1>1, <1>2 DEF At

\* A prefix stands at offset 0.
LEMMA AtPrefix ==
  ASSUME NEW data \in Seq(Nat), NEW p \in Seq(Nat)
  PROVE  IsPrefix(p, data) <=> At(data, 0, p)
<1>1. Len(p) \in Nat /\ Len(data) \in Nat
  BY LenProperties
<1>2. IsPrefix(p, data) <=> Len(p) <= Len(data) /\ \A i \in 1..Len(p) : p[i] = data[i]
  BY PrefixIs
<1>3. \A i \in 1..Len(p) : 0 + i = i
  OBVIOUS
<1> QED
  BY <1>1, <1>2, <1>3 DEF At

(***************************************************************************)
(* What stands in a part stands in the whole, and parts that stand side by *)
(* side stand there as one.                                                *)
(***************************************************************************)
LEMMA AtLeft ==
  ASSUME NEW a \in Seq(Nat), NEW b \in Seq(Nat), NEW from \in Nat, NEW p \in Seq(Nat), At(a, from, p)
  PROVE  At(a \o b, from, p)
<1>1. PICK c \in Seq(Nat) : c = a \o b /\ IsJoin(c, a, b)
  BY Joined
<1>2. PICK m, k, n \in Nat : m = Len(a) /\ k = Len(b) /\ n = Len(p)
  BY LenProperties
<1>3. from + n <= m /\ \A i \in 1..n : a[from + i] = p[i] /\ from + i \in 1..m
  BY <1>2 DEF At
<1>4. Len(c) = m + k /\ \A i \in 1..m : c[i] = a[i]
  BY <1>1, <1>2 DEF IsJoin
<1>5. \A i \in 1..n : c[from + i] = p[i]
  BY <1>3, <1>4
<1> QED
  BY <1>1, <1>2, <1>3, <1>4, <1>5 DEF At

\* The two parts of a concatenation, and where they stand.
LEMMA AtRight ==
  ASSUME NEW a \in Seq(Nat), NEW b \in Seq(Nat)
  PROVE  /\ a \o b \in Seq(Nat) /\ Len(a \o b) = Len(a) + Len(b)
         /\ At(a \o b, 0, a) /\ At(a \o b, Len(a), b)
<1>1. PICK c \in Seq(Nat) : c = a \o b /\ IsJoin(c, a, b)
  BY Joined
<1>2. PICK m, k \in Nat : m = Len(a) /\ k = Len(b)
  BY LenProperties
<1>3. \A i \in 1..m : 0 + i = i
  OBVIOUS
<1> QED
  BY <1>1, <1>2, <1>3 DEF At, IsJoin

\* Two sequences that stand side by side are their concatenation.
LEMMA AtBoth ==
  ASSUME NEW data \in Seq(Nat), NEW from \in Nat, NEW a \in Seq(Nat), NEW b \in Seq(Nat),
         At(data, from, a), At(data, from + Len(a), b)
  PROVE  a \o b \in Seq(Nat) /\ Len(a \o b) = Len(a) + Len(b) /\ At(data, from, a \o b)
<1>1. PICK c \in Seq(Nat) : c = a \o b /\ IsJoin(c, a, b)
  BY Joined
<1>2. PICK m, k, n \in Nat : m = Len(a) /\ k = Len(b) /\ n = Len(data)
  BY LenProperties
<1>3. Len(c) = m + k /\ (\A i \in 1..m : c[i] = a[i]) /\ \A i \in 1..k : c[m + i] = b[i]
  BY <1>1, <1>2 DEF IsJoin
<1>4. from + m + k <= n /\ (\A i \in 1..m : data[from + i] = a[i])
      /\ \A i \in 1..k : data[from + m + i] = b[i]
  BY <1>2 DEF At
<1>5. ASSUME NEW i \in 1..(m + k)
      PROVE  data[from + i] = c[i]
  <2>1. CASE i \in 1..m
    BY <1>3, <1>4, <2>1
  <2>2. CASE ~ (i \in 1..m)
    <3>1. PICK j \in 1..k : j = i - m
      BY <2>2
    <3>2. i = m + j /\ from + i = from + m + j
      BY <3>1
    <3> QED
      BY <1>3, <1>4, <3>2
  <2> QED
    BY <2>1, <2>2
<1>6. At(data, from, c)
  BY <1>2, <1>3, <1>4, <1>5 DEF At
<1> QED
  BY <1>1, <1>2, <1>3, <1>6

(***************************************************************************)
(* Versions are written side by side, two bytes each.                      *)
(***************************************************************************)
IsPairs(c, seqs, n) ==
  c \in Seq(Byte) /\ Len(c) = 2 * n /\ \A i \in 1..n : c[2 * i - 1] = seqs[i][1] /\ c[2 * i] = seqs[i][2]

\* A version more is two bytes more.
LEMMA PairsNext ==
  ASSUME NEW n \in Nat, NEW seqs, NEW c, IsPairs(c, seqs, n),
         seqs[n + 1] \in Seq(Byte), Len(seqs[n + 1]) = 2
  PROVE  IsPairs(c \o seqs[n + 1], seqs, n + 1)
<1>1. PICK b \in Seq(Byte) : b = seqs[n + 1] /\ Len(b) = 2
  OBVIOUS
<1>2. c \in Seq(Byte) /\ Len(c) = 2 * n
  BY DEF IsPairs
<1>3. PICK d \in Seq(Byte) : d = c \o b /\ IsJoin(d, c, b)
  BY <1>2, Joined
<1>4. Len(d) = 2 * n + 2 /\ (\A i \in 1..(2 * n) : d[i] = c[i]) /\ d[2 * n + 1] = b[1] /\ d[2 * n + 2] = b[2]
  BY <1>1, <1>2, <1>3 DEF IsJoin
<1>5. ASSUME NEW i \in 1..(n + 1)
      PROVE  d[2 * i - 1] = seqs[i][1] /\ d[2 * i] = seqs[i][2]
  <2>1. CASE i \in 1..n
    <3>1. 2 * i - 1 \in 1..(2 * n) /\ 2 * i \in 1..(2 * n)
      BY <2>1
    <3> QED
      BY <1>4, <2>1, <3>1 DEF IsPairs
  <2>2. CASE i = n + 1
    <3>1. 2 * i - 1 = 2 * n + 1 /\ 2 * i = 2 * n + 2
      BY <2>2
    <3> QED
      BY <1>1, <1>4, <2>2, <3>1
  <2> QED
    BY <2>1, <2>2
<1>6. Len(d) = 2 * (n + 1)
  BY <1>4
<1> QED
  BY <1>1, <1>3, <1>5, <1>6 DEF IsPairs

\* FlattenSeq of pairs of bytes, byte by byte.
LEMMA Flattened ==
  ASSUME NEW seqs \in Seq(Seq(Byte)), \A i \in 1..Len(seqs) : Len(seqs[i]) = 2
  PROVE  IsPairs(FlattenSeq(seqs), seqs, Len(seqs))
<1> DEFINE n == Len(seqs)
           flatten[i \in 1..n] == IF i = 1 THEN seqs[i] ELSE flatten[i - 1] \o seqs[i]
           S == Seq(Byte)
           F == [i \in 1..n |-> [x \in S |-> x \o seqs[i]]]
<1>1. n \in Nat /\ \A i \in 1..n : seqs[i] \in S
  BY LenProperties
<1>2. <<>> \in Seq(Byte) /\ Len(<<>>) = 0
  BY EmptySeq
<1>3. CASE n = 0
  <2>1. seqs = <<>>
    BY <1>3
  <2>2. FlattenSeq(seqs) = <<>>
    BY <1>3, <2>1 DEF FlattenSeq
  <2> QED
    BY <1>2, <1>3, <2>2 DEF IsPairs
<1>4. CASE n # 0
  <2>1. \A i \in 1..n, x \in S : x \o seqs[i] \in S
    BY <1>1, ConcatProperties
  <2>2. F \in [1..n -> [S -> S]] /\ \A i \in 1..n, x \in S : F[i][x] = x \o seqs[i]
    <3> HIDE DEF n, S
    <3> QED
      BY <2>1
  <2>3. PICK v \in [0..n -> S] : v[0] = <<>> /\ \A i \in 1..n : v[i] = F[i][v[i - 1]]
    <3>1. <<>> \in S
      BY <1>2
    <3> HIDE DEF n, S, F
    <3>2. HasRun(n, S, <<>>, F)
      BY <1>1, <2>2, <3>1, Iterates
    <3> QED
      BY <3>2 DEF HasRun
  <2>4. \A i \in 1..n : v[i] = v[i - 1] \o seqs[i]
    <3>0. \A i \in 1..n : i - 1 \in 0..n
      BY <1>1
    <3> HIDE DEF n, S, F
    <3>1. \A i \in 1..n : v[i - 1] \in S
      BY <3>0
    <3> QED
      BY <2>2, <2>3, <3>1
  <2>5. PICK g : g = [i \in 1..n |-> v[i]]
    OBVIOUS
  <2>6. g = [i \in 1..n |-> IF i = 1 THEN seqs[i] ELSE g[i - 1] \o seqs[i]]
    <3>1. ASSUME NEW i \in 1..n
          PROVE  g[i] = IF i = 1 THEN seqs[i] ELSE g[i - 1] \o seqs[i]
      <4>1. CASE i = 1
        <5>1. v[1] = v[0] \o seqs[1] /\ seqs[1] \in S
          <6>1. 1 \in 1..n /\ 1 - 1 = 0
            BY <4>1
          <6> QED
            BY <1>1, <2>4, <6>1
        <5>2. <<>> \o seqs[1] = seqs[1]
          BY <5>1, ConcatEmptySeq
        <5> QED
          BY <2>3, <2>5, <4>1, <5>1, <5>2
      <4>2. CASE i # 1
        <5>1. i - 1 \in 1..n
          BY <1>1, <4>2
        <5> QED
          BY <2>4, <2>5, <4>2, <5>1
      <4> QED
        BY <4>1, <4>2
    <3> QED
      BY <2>5, <3>1
  <2>7. flatten = CHOOSE f : f = [i \in 1..n |-> IF i = 1 THEN seqs[i] ELSE f[i - 1] \o seqs[i]]
    BY DEF flatten
  <2>8. FlattenSeq(seqs) = flatten[n]
    BY <1>4 DEF FlattenSeq
  <2> HIDE DEF flatten
  <2>9. flatten = [i \in 1..n |-> IF i = 1 THEN seqs[i] ELSE flatten[i - 1] \o seqs[i]]
    BY <2>6, <2>7
  <2> DEFINE T == {k \in 0..n : k = 0 \/ IsPairs(flatten[k], seqs, k)}
  <2>10. 0 \in T
    BY <1>1
  <2>11. ASSUME NEW k \in 1..n, k - 1 \in T
         PROVE  k \in T
    <3>1. k \in 0..n /\ k - 1 \in Nat /\ (k - 1) + 1 = k
      BY <1>1
    <3>2. seqs[k] \in Seq(Byte) /\ Len(seqs[k]) = 2
      BY <1>1
    <3>3. CASE k = 1
      <4>1. flatten[1] = seqs[1]
        BY <2>9, <3>3
      <4>2. \A i \in 1..1 : i = 1 /\ 2 * i - 1 = 1 /\ 2 * i = 2
        OBVIOUS
      <4>3. IsPairs(flatten[1], seqs, 1)
        BY <3>2, <3>3, <4>1, <4>2 DEF IsPairs
      <4> QED
        BY <3>1, <3>3, <4>3
    <3>4. CASE k # 1
      <4>1. flatten[k] = flatten[k - 1] \o seqs[k]
        BY <2>9, <3>4
      <4>2. IsPairs(flatten[k - 1], seqs, k - 1)
        BY <2>11, <3>4
      <4>3. IsPairs(flatten[k - 1] \o seqs[k], seqs, k)
        BY <3>1, <3>2, <4>2, PairsNext
      <4> QED
        BY <3>1, <4>1, <4>3
    <3> QED
      BY <3>3, <3>4
  <2>12. \A k \in 0..n : k \in T
    <3> HIDE DEF T, n
    <3> QED
      BY <1>1, <2>10, <2>11, UpTo
  <2>13. n \in 0..n
    BY <1>1
  <2> QED
    BY <1>4, <2>8, <2>12, <2>13
<1> QED
  BY <1>3, <1>4

\* Versions are written as two bytes each.
LEMMA VersionsWritten ==
  ASSUME NEW vs \in Seq(Nat), \A i \in 1..Len(vs) : vs[i] <= UINT16_MAX
  PROVE  IsPairs(WriteVersions(vs), [i \in 1..Len(vs) |-> ToNetwork(vs[i], 2)], Len(vs))
<1>1. PICK n \in Nat : n = Len(vs) /\ DOMAIN vs = 1..n
  BY LenProperties
<1>2. PICK seqs : seqs = [i \in 1..n |-> ToNetwork(vs[i], 2)]
  OBVIOUS
<1>3. \A i \in 1..n : seqs[i] \in Seq(Byte) /\ Len(seqs[i]) = 2
  BY <1>1, <1>2, LengthBytes
<1>4. seqs \in [1..n -> Seq(Byte)]
  BY <1>2, <1>3
<1>5. seqs \in Seq(Seq(Byte)) /\ Len(seqs) = n
  BY <1>4
<1>6. WriteVersions(vs) = FlattenSeq(seqs)
  BY <1>1, <1>2 DEF WriteVersions
<1> QED
  BY <1>1, <1>2, <1>3, <1>5, <1>6, Flattened

\* A part of a part is a part.
LEMMA AtNested ==
  ASSUME NEW data \in Seq(Nat), NEW from \in Nat, NEW x \in Seq(Nat), NEW k \in Nat, NEW p \in Seq(Nat),
         At(data, from, x), At(x, k, p)
  PROVE  At(data, from + k, p)
<1>1. PICK d, m, n \in Nat : d = Len(data) /\ m = Len(x) /\ n = Len(p)
  BY LenProperties
<1>2. from + m <= d /\ \A i \in 1..m : data[from + i] = x[i]
  BY <1>1 DEF At
<1>3. k + n <= m /\ \A i \in 1..n : x[k + i] = p[i]
  BY <1>1 DEF At
<1>4. \A i \in 1..n : k + i \in 1..m /\ from + (k + i) = from + k + i
  BY <1>3
<1>5. \A i \in 1..n : data[from + k + i] = p[i]
  BY <1>2, <1>3, <1>4
<1> QED
  BY <1>1, <1>2, <1>3, <1>5 DEF At

(***************************************************************************)
(* A ClientHello is decoded as it was built.                               *)
(***************************************************************************)
LEMMA HelloLayout ==
  ASSUME NEW a \in Seq(Nat), NEW b \in Seq(Nat), NEW c \in Seq(Nat), NEW x \in Seq(Nat), NEW t \in Seq(Nat)
  PROVE  LET data == a \o b \o c \o x \o t
         IN /\ data \in Seq(Nat)
            /\ At(data, 0, a) /\ At(data, Len(a), b)
            /\ At(data, Len(a) + Len(b), c) /\ At(data, Len(a) + Len(b) + Len(c), x)
<1>1. PICK ab \in Seq(Nat) : ab = a \o b /\ Len(ab) = Len(a) + Len(b) /\ At(ab, 0, a) /\ At(ab, Len(a), b)
  BY AtRight
<1>2. PICK abc \in Seq(Nat) : abc = ab \o c /\ Len(abc) = Len(ab) + Len(c) /\ At(abc, Len(ab), c)
  BY AtRight
<1>3. PICK abcx \in Seq(Nat) : abcx = abc \o x /\ At(abcx, Len(abc), x)
  BY AtRight
<1>4. PICK data \in Seq(Nat) : data = abcx \o t
  BY AtRight
<1>5. PICK i, j, k \in Nat : i = Len(a) /\ j = i + Len(b) /\ k = j + Len(c)
  BY LenProperties
<1>6. At(abc, 0, a) /\ At(abc, i, b)
  BY <1>1, <1>2, <1>5, AtLeft
<1>7. At(abcx, 0, a) /\ At(abcx, i, b) /\ At(abcx, j, c)
  BY <1>1, <1>2, <1>3, <1>5, <1>6, AtLeft
<1>8. At(data, 0, a) /\ At(data, i, b) /\ At(data, j, c) /\ At(data, k, x)
  BY <1>1, <1>2, <1>3, <1>4, <1>5, <1>7, AtLeft
<1> QED
  BY <1>1, <1>2, <1>3, <1>4, <1>5, <1>8

\* The cast to 16 bits keeps a number that fits.
LEMMA SmallRemainder ==
  ASSUME NEW n \in Nat, n <= UINT16_MAX
  PROVE  n % (UINT16_MAX + 1) = n
<1>1. PICK b \in Nat \ {0} : b = UINT16_MAX + 1 /\ n \in 0..(b - 1)
  BY TwoBytes
<1>2. PICK z \in Nat : z = 0
  OBVIOUS
<1>3. (z * b + n) % b = n
  BY <1>1, QuotientOf
<1>4. z * b + n = n
  BY <1>2
<1> QED
  BY <1>1, <1>3, <1>4

\* The sizes of keys and signatures are naturals.
LEMMA SizeFacts ==
  KxKeyBytes \in Nat /\ SignKeyBytes \in Nat /\ SignatureBytes \in Nat
BY WireAssumption

\* Deserializing what ClientHello_serialize wrote, whatever follows, gives the hello.
LEMMA HelloRead ==
  ASSUME NEW vs \in Seq(Byte), Len(vs) <= UINT16_MAX, NEW identity \in BOOLEAN
  PROVE  LET h == HelloOf(vs, identity)
         IN ClientHello_deserialize(ClientHello_serialize(h) \o vs) = h
<1>1. PICK n, K, SK, SG \in Nat :
        n = Len(vs) /\ K = KxKeyBytes /\ SK = SignKeyBytes /\ SG = SignatureBytes
  BY ByteNat, SizeFacts
<1>2. PICK pk, ipk, isig \in Seq(Nat) :
        /\ pk = [i \in 1..K |-> 1] /\ ipk = [i \in 1..SK |-> 2] /\ isig = [i \in 1..SG |-> 0]
        /\ Len(pk) = K /\ Len(ipk) = SK /\ Len(isig) = SG
  <2>1. PICK pk, ipk, isig :
          pk = [i \in 1..K |-> 1] /\ ipk = [i \in 1..SK |-> 2] /\ isig = [i \in 1..SG |-> 0]
    OBVIOUS
  <2>2. pk \in Seq(Nat) /\ Len(pk) = K
    BY <2>1
  <2>3. ipk \in Seq(Nat) /\ Len(ipk) = SK
    BY <2>1
  <2>4. isig \in Seq(Nat) /\ Len(isig) = SG
    BY <2>1
  <2> QED
    BY <2>1, <2>2, <2>3, <2>4
<1>3. PICK h : h = HelloOf(vs, identity)
  OBVIOUS
<1>4. /\ h.supported_versions = vs /\ h.ephemeral_pk = pk /\ h.has_client_identity = identity
      /\ h.identity_pk = (IF identity THEN ipk ELSE <<>>)
      /\ h.identity_sig = (IF identity THEN isig ELSE <<>>)
      /\ h = [supported_versions |-> vs, ephemeral_pk |-> pk, has_client_identity |-> identity,
              identity_pk |-> (IF identity THEN ipk ELSE <<>>),
              identity_sig |-> (IF identity THEN isig ELSE <<>>)]
  BY <1>1, <1>2, <1>3 DEF HelloOf
<1>5. PICK a \in Seq(Byte) : a = ToNetwork(n, 2) /\ Len(a) = 2 /\ FromNetwork(a) = n
  BY <1>1, LengthBytes
<1>6. PICK seqs, b : seqs = [i \in 1..n |-> ToNetwork(vs[i], 2)] /\ b = WriteVersions(vs)
  OBVIOUS
<1>7. vs \in Seq(Nat) /\ \A i \in 1..n : vs[i] \in Nat /\ vs[i] <= UINT16_MAX
  <2>1. \A i \in 1..n : vs[i] \in Byte
    BY <1>1, ByteNat
  <2>2. Base * Base >= Base /\ UINT16_MAX = Base * Base - 1
    BY BaseFacts DEF UINT16_MAX
  <2>3. PICK s \in Nat : s = Base * Base
    BY BaseFacts
  <2> QED
    BY <1>1, <2>1, <2>2, <2>3, BaseFacts, ByteNat
<1>8. IsPairs(b, seqs, n)
  BY <1>1, <1>6, <1>7, VersionsWritten
<1>9. PICK x \in Seq(Nat) :
        /\ x = (IF identity THEN <<1>> \o ipk \o isig ELSE <<0>>)
        /\ x[1] = (IF identity THEN 1 ELSE 0)
        /\ Len(x) = 1 + (IF identity THEN SK + SG ELSE 0)
        /\ identity => At(x, 1, ipk) /\ At(x, 1 + SK, isig)
  <2>1. PICK one \in Seq(Nat), zero \in Seq(Nat) :
          one = <<1>> /\ zero = <<0>> /\ Len(one) = 1 /\ Len(zero) = 1
    <3>1. <<1>> \in Seq(Nat) /\ Len(<<1>>) = 1 /\ <<0>> \in Seq(Nat) /\ Len(<<0>>) = 1
      OBVIOUS
    <3> QED
      BY <3>1
  <2>2. PICK y \in Seq(Nat) : y = one \o ipk /\ Len(y) = 1 + SK /\ At(y, 0, one) /\ At(y, 1, ipk)
    BY <1>2, <2>1, AtRight
  <2>3. PICK z \in Seq(Nat) : z = y \o isig /\ Len(z) = 1 + SK + SG /\ At(z, 1 + SK, isig)
    <3>1. y \o isig \in Seq(Nat) /\ Len(y \o isig) = Len(y) + Len(isig) /\ At(y \o isig, Len(y), isig)
      BY AtRight
    <3> QED
      BY <1>2, <2>2, <3>1
  <2>4. At(z, 0, one) /\ At(z, 1, ipk)
    BY <2>2, <2>3, AtLeft
  <2>5. z[1] = 1 /\ zero[1] = 0
    <3>1. z[0 + 1] = one[1]
      BY <2>1, <2>4 DEF At
    <3> QED
      BY <2>1, <3>1
  <2>6. z = <<1>> \o ipk \o isig
    BY <2>1, <2>2, <2>3
  <2>7. PICK x \in Seq(Nat) : x = (IF identity THEN z ELSE zero)
    OBVIOUS
  <2>8. x[1] = (IF identity THEN 1 ELSE 0)
    BY <2>5, <2>7
  <2>9. Len(x) = 1 + (IF identity THEN SK + SG ELSE 0)
    BY <2>1, <2>3, <2>7
  <2>10. identity => At(x, 1, ipk) /\ At(x, 1 + SK, isig)
    BY <2>3, <2>4, <2>7
  <2>11. x = (IF identity THEN <<1>> \o ipk \o isig ELSE <<0>>)
    BY <2>1, <2>6, <2>7
  <2> QED
    BY <2>8, <2>9, <2>10, <2>11
<1>10. b \in Seq(Nat) /\ Len(b) = 2 * n /\ a \in Seq(Nat)
  BY <1>8, ByteNat DEF IsPairs
<1>11. PICK data \in Seq(Nat) : data = a \o b \o pk \o x \o vs
         /\ At(data, 0, a) /\ At(data, 2, b) /\ At(data, 2 + 2 * n, pk) /\ At(data, 2 + 2 * n + K, x)
  <2>1. PICK data : data = a \o b \o pk \o x \o vs
    OBVIOUS
  <2>2. data \in Seq(Nat) /\ At(data, 0, a) /\ At(data, Len(a), b)
        /\ At(data, Len(a) + Len(b), pk) /\ At(data, Len(a) + Len(b) + Len(pk), x)
    BY <1>7, <1>10, <2>1, HelloLayout
  <2> QED
    BY <1>2, <1>5, <1>10, <2>1, <2>2
<1>12. ClientHello_serialize(h) \o vs = data
  <2>1. n % (UINT16_MAX + 1) = n
    BY <1>1, SmallRemainder
  <2>2. ClientHello_serialize(h) = a \o b \o pk \o x
    <3>1. ClientHello_serialize(h) = ToNetwork(n % (UINT16_MAX + 1), 2) \o WriteVersions(vs) \o pk
            \o (IF identity THEN <<1>> \o h.identity_pk \o h.identity_sig ELSE <<0>>)
      BY <1>1, <1>4 DEF ClientHello_serialize
    <3>2. (IF identity THEN <<1>> \o h.identity_pk \o h.identity_sig ELSE <<0>>) = x
      BY <1>4, <1>9
    <3> QED
      BY <1>5, <1>6, <2>1, <3>1, <3>2
  <2> QED
    BY <1>11, <2>2
<1>13. FromNetwork(Slice(data, 0, 2)) = n
  <2>1. 0 \in Nat /\ Slice(data, 0, Len(a)) = a
    BY <1>10, <1>11, AtSlice
  <2> QED
    BY <1>5, <2>1
<1>14. ASSUME NEW i \in 1..n
       PROVE  FromNetwork(Slice(data, 2 * i, 2)) = vs[i]
  <2>1. PICK c \in Seq(Byte) : c = ToNetwork(vs[i], 2) /\ Len(c) = 2 /\ FromNetwork(c) = vs[i]
    BY <1>7, LengthBytes
  <2>2. PICK k \in Nat : k = 2 * i - 2
    OBVIOUS
  <2>3. k + 1 = 2 * i - 1 /\ k + 2 = 2 * i /\ 2 + k = 2 * i /\ k + 2 <= 2 * n
    BY <2>2
  <2>4. b[k + 1] = c[1] /\ b[k + 2] = c[2]
    BY <1>6, <1>8, <2>1, <2>3 DEF IsPairs
  <2>5. \A j \in 1..2 : j = 1 \/ j = 2
    OBVIOUS
  <2>6. At(b, k, c) /\ c \in Seq(Nat)
    BY <1>10, <2>1, <2>3, <2>4, <2>5, ByteNat DEF At
  <2>7. At(data, 2 + k, c)
    BY <1>10, <1>11, <2>6, AtNested
  <2>8. Slice(data, 2 + k, Len(c)) = c
    BY <2>6, <2>7, AtSlice
  <2> QED
    BY <2>1, <2>3, <2>8
<1>15. PICK flag \in Nat : flag = 2 + 2 * n + K /\ At(data, flag, x)
  BY <1>11
<1>16. data[flag + 1] = IF identity THEN 1 ELSE 0
  <2>1. Len(x) \in Nat /\ Len(x) >= 1
    BY <1>9
  <2>2. data[flag + 1] = x[1]
    BY <1>15, <2>1 DEF At
  <2> QED
    BY <1>9, <2>2
<1>17. Slice(data, 2 + 2 * n, K) = pk
  <2>1. 2 + 2 * n \in Nat
    OBVIOUS
  <2>2. Slice(data, 2 + 2 * n, Len(pk)) = pk
    BY <1>11, <2>1, AtSlice
  <2> QED
    BY <1>2, <2>2
<1>18. ASSUME identity
       PROVE  Slice(data, flag + 1, SK) = ipk /\ Slice(data, flag + 1 + SK, SG) = isig
  <2>1. At(data, flag + 1, ipk) /\ At(data, flag + (1 + SK), isig)
    <3>1. At(x, 1, ipk) /\ At(x, 1 + SK, isig)
      BY <1>9, <1>18
    <3>2. 1 \in Nat /\ 1 + SK \in Nat
      OBVIOUS
    <3>3. At(data, flag + 1, ipk)
      BY <1>15, <3>1, <3>2, AtNested
    <3>4. At(data, flag + (1 + SK), isig)
      BY <1>15, <3>1, <3>2, AtNested
    <3> QED
      BY <3>3, <3>4
  <2>2. flag + 1 \in Nat /\ flag + (1 + SK) \in Nat /\ flag + (1 + SK) = flag + 1 + SK
    OBVIOUS
  <2> QED
    BY <1>2, <2>1, <2>2, AtSlice
<1>19. flag + 1 + (IF identity THEN SK + SG ELSE 0) <= Len(data)
  <2>1. PICK k \in Nat : k = (IF identity THEN SK + SG ELSE 0)
    OBVIOUS
  <2>2. Len(x) = 1 + k
    BY <1>9, <2>1
  <2>3. flag + Len(x) <= Len(data)
    BY <1>15 DEF At
  <2>4. flag + 1 + k <= Len(data)
    BY <2>2, <2>3, LenProperties
  <2> QED
    BY <2>1, <2>4
<1>20. [i \in 1..n |-> FromNetwork(Slice(data, 2 * i, 2))] = vs
  <2>1. vs = [i \in 1..n |-> vs[i]]
    BY <1>1
  <2> QED
    BY <1>14, <2>1
<1>21. Len(data) \in Nat
  BY LenProperties
<1>22. (data[flag + 1] # 0) = identity
  BY <1>16
<1>23. ClientHello_deserialize(data) = h
  <2>1. CASE identity = TRUE
    <3>1. ~ (Len(data) < 2 \/ Len(data) < 2 + 2 * n \/ Len(data) < flag \/ Len(data) <= flag
             \/ Len(data) < flag + 1 + (SK + SG))
      BY <1>15, <1>19, <1>21, <2>1
    <3> QED
      BY <1>1, <1>4, <1>13, <1>15, <1>17, <1>18, <1>20, <1>22, <2>1, <3>1 DEF ClientHello_deserialize
  <2>2. CASE identity = FALSE
    <3>1. ~ (Len(data) < 2 \/ Len(data) < 2 + 2 * n \/ Len(data) < flag \/ Len(data) <= flag
             \/ Len(data) < flag + 1 + 0)
      BY <1>15, <1>19, <1>21, <2>2
    <3> QED
      BY <1>1, <1>4, <1>13, <1>15, <1>17, <1>20, <1>22, <2>2, <3>1 DEF ClientHello_deserialize
  <2> QED
    BY <2>1, <2>2
<1> QED
  BY <1>3, <1>12, <1>23

(***************************************************************************)
(* Bytes that are accepted as a hello are its encoding.                    *)
(***************************************************************************)
LEMMA NumberAt ==
  ASSUME NEW data \in Seq(Byte), NEW from \in Nat, from + 2 <= Len(data)
  PROVE  \E s \in Seq(Byte), v \in Nat :
            /\ s = Slice(data, from, 2) /\ v = FromNetwork(s) /\ v <= UINT16_MAX
            /\ ToNetwork(v, 2) = s /\ Len(s) = 2 /\ At(data, from, s)
            /\ s[1] = data[from + 1] /\ s[2] = data[from + 2]
<1>1. PICK s \in Seq(Byte) : s = Slice(data, from, 2) /\ Len(s) = 2 /\ At(data, from, s)
  BY SliceAt
<1>2. PICK v \in Nat : v = FromNetwork(s) /\ v < Values(2) /\ ToNetwork(v, 2) = s
  BY <1>1, NetworkOrder
<1>3. v <= UINT16_MAX /\ s[1] = data[from + 1] /\ s[2] = data[from + 2]
  BY <1>1, <1>2, TwoBytes DEF At
<1> QED
  BY <1>1, <1>2, <1>3

\* The pairs stand behind the number of versions.
LEMMA PairsAt ==
  ASSUME NEW data \in Seq(Nat), NEW seqs, NEW n \in Nat, NEW c, IsPairs(c, seqs, n),
         2 + 2 * n <= Len(data),
         \A i \in 1..n : data[2 * i + 1] = seqs[i][1] /\ data[2 * i + 2] = seqs[i][2]
  PROVE  At(data, 2, c)
<1>1. Len(c) = 2 * n
  BY DEF IsPairs
<1>2. ASSUME NEW j \in 1..(2 * n)
      PROVE  data[2 + j] = c[j]
  <2>1. PICK i \in 1..n : j = 2 * i - 1 \/ j = 2 * i
    <3>1. PICK k \in Int : k = (j + 1) \div 2
      OBVIOUS
    <3>2. k \in 1..n /\ (j = 2 * k - 1 \/ j = 2 * k)
      BY <3>1
    <3> QED
      BY <3>2
  <2>2. c[2 * i - 1] = seqs[i][1] /\ c[2 * i] = seqs[i][2]
    BY DEF IsPairs
  <2>3. 2 + (2 * i - 1) = 2 * i + 1 /\ 2 + 2 * i = 2 * i + 2
    OBVIOUS
  <2> QED
    BY <2>1, <2>2, <2>3
<1> QED
  BY <1>1, <1>2 DEF At

\* The bytes with the value 1 for a flag that is set.
Flagged(data, k) == [i \in DOMAIN data |-> IF i = k /\ data[i] # 0 THEN 1 ELSE data[i]]

\* Normalising the flag changes nothing before and behind it.
LEMMA AtFlagged ==
  ASSUME NEW data \in Seq(Byte), NEW k \in Nat, NEW from \in Nat, NEW p \in Seq(Nat),
         At(data, from, p), from + Len(p) < k \/ from >= k
  PROVE  /\ Flagged(data, k) \in Seq(Nat) /\ Len(Flagged(data, k)) = Len(data)
         /\ At(Flagged(data, k), from, p)
<1>1. PICK n, m \in Nat : n = Len(data) /\ m = Len(p) /\ DOMAIN data = 1..n
  BY LenProperties
<1>2. PICK f : f = Flagged(data, k)
  OBVIOUS
<1>3. f \in [1..n -> Nat] /\ \A i \in 1..n : i # k => f[i] = data[i]
  BY <1>1, <1>2, ByteNat DEF Flagged
<1>4. f \in Seq(Nat) /\ Len(f) = n
  BY <1>3
<1>5. from + m <= n /\ \A i \in 1..m : data[from + i] = p[i]
  BY <1>1 DEF At
<1>6. \A i \in 1..m : from + i \in 1..n /\ from + i # k
  BY <1>1, <1>5
<1>7. \A i \in 1..m : f[from + i] = p[i]
  BY <1>3, <1>5, <1>6
<1>8. At(f, from, p)
  BY <1>1, <1>4, <1>5, <1>7 DEF At
<1> QED
  BY <1>1, <1>2, <1>4, <1>8

\* The fields of a hello that is accepted, and that all of them are in the data.
LEMMA HelloFields ==
  ASSUME NEW data \in Seq(Byte), ClientHello_deserialize(data) # Error,
         NEW n \in Nat, n = FromNetwork(Slice(data, 0, 2)),
         NEW flag \in Nat, flag = 2 + 2 * n + KxKeyBytes,
         NEW has \in BOOLEAN, has = (data[flag + 1] # 0)
  PROVE  LET h == ClientHello_deserialize(data)
         IN /\ flag + 1 <= Len(data)
            /\ has => flag + 1 + (SignKeyBytes + SignatureBytes) <= Len(data)
            /\ h.supported_versions = [i \in 1..n |-> FromNetwork(Slice(data, 2 * i, 2))]
            /\ h.ephemeral_pk = Slice(data, 2 + 2 * n, KxKeyBytes)
            /\ h.has_client_identity = has
            /\ has => h.identity_pk = Slice(data, flag + 1, SignKeyBytes)
            /\ has => h.identity_sig = Slice(data, flag + 1 + SignKeyBytes, SignatureBytes)
<1>1. PICK N \in Nat : N = Len(data)
  BY ByteNat
<1>2. KxKeyBytes \in Nat /\ SignKeyBytes \in Nat /\ SignatureBytes \in Nat
  BY SizeFacts
<1>3. PICK vs : vs = [i \in 1..n |-> FromNetwork(Slice(data, 2 * i, 2))]
  OBVIOUS
<1>4. CASE has = TRUE
  <2>1. ClientHello_deserialize(data) =
          IF N < 2 \/ N < 2 + 2 * n \/ N < flag \/ N <= flag
             \/ N < flag + 1 + (SignKeyBytes + SignatureBytes)
          THEN Error
          ELSE [supported_versions |-> vs,
                ephemeral_pk |-> Slice(data, 2 + 2 * n, KxKeyBytes),
                has_client_identity |-> TRUE,
                identity_pk |-> Slice(data, flag + 1, SignKeyBytes),
                identity_sig |-> Slice(data, flag + 1 + SignKeyBytes, SignatureBytes)]
    BY <1>1, <1>3, <1>4 DEF ClientHello_deserialize
  <2>2. ~ (N <= flag) /\ ~ (N < flag + 1 + (SignKeyBytes + SignatureBytes))
    BY <2>1
  <2>3. flag + 1 <= N /\ flag + 1 + (SignKeyBytes + SignatureBytes) <= N
    <3>1. PICK e \in Nat : e = SignKeyBytes + SignatureBytes
      BY <1>2
    <3>2. ~ (N <= flag) /\ ~ (N < flag + 1 + e)
      BY <2>2, <3>1
    <3>3. flag + 1 <= N /\ flag + 1 + e <= N
      BY <3>2
    <3> QED
      BY <3>1, <3>3
  <2>4. PICK h : h = ClientHello_deserialize(data)
    OBVIOUS
  <2>5. h = [supported_versions |-> vs,
             ephemeral_pk |-> Slice(data, 2 + 2 * n, KxKeyBytes),
             has_client_identity |-> TRUE,
             identity_pk |-> Slice(data, flag + 1, SignKeyBytes),
             identity_sig |-> Slice(data, flag + 1 + SignKeyBytes, SignatureBytes)]
    BY <2>1, <2>4
  <2>6. /\ h.supported_versions = vs /\ h.ephemeral_pk = Slice(data, 2 + 2 * n, KxKeyBytes)
        /\ h.has_client_identity = TRUE
        /\ h.identity_pk = Slice(data, flag + 1, SignKeyBytes)
        /\ h.identity_sig = Slice(data, flag + 1 + SignKeyBytes, SignatureBytes)
    BY <2>5
  <2> QED
    BY <1>1, <1>3, <1>4, <2>3, <2>4, <2>6
<1>5. CASE has = FALSE
  <2>1. ClientHello_deserialize(data) =
          IF N < 2 \/ N < 2 + 2 * n \/ N < flag \/ N <= flag \/ N < flag + 1 + 0
          THEN Error
          ELSE [supported_versions |-> vs,
                ephemeral_pk |-> Slice(data, 2 + 2 * n, KxKeyBytes),
                has_client_identity |-> FALSE, identity_pk |-> <<>>, identity_sig |-> <<>>]
    BY <1>1, <1>3, <1>5 DEF ClientHello_deserialize
  <2>2. ~ (N <= flag)
    BY <2>1
  <2>3. flag + 1 <= N
    BY <2>2
  <2>4. PICK h : h = ClientHello_deserialize(data)
    OBVIOUS
  <2>5. h = [supported_versions |-> vs,
             ephemeral_pk |-> Slice(data, 2 + 2 * n, KxKeyBytes),
             has_client_identity |-> FALSE, identity_pk |-> <<>>, identity_sig |-> <<>>]
    BY <2>1, <2>4
  <2>6. /\ h.supported_versions = vs /\ h.ephemeral_pk = Slice(data, 2 + 2 * n, KxKeyBytes)
        /\ h.has_client_identity = FALSE
    BY <2>5
  <2> QED
    BY <1>1, <1>3, <1>5, <2>3, <2>4, <2>6
<1> QED
  BY <1>4, <1>5

(***************************************************************************)
(* The flag itself, and what is written for it.                            *)
(***************************************************************************)
LEMMA FlagAt ==
  ASSUME NEW data \in Seq(Byte), NEW flag \in Nat, flag + 1 <= Len(data)
  PROVE  /\ data[flag + 1] # 0 => At(Flagged(data, flag + 1), flag, <<1>>)
         /\ data[flag + 1] = 0 => At(Flagged(data, flag + 1), flag, <<0>>)
<1>1. PICK n \in Nat : n = Len(data) /\ DOMAIN data = 1..n
  BY LenProperties
<1>2. PICK f : f = Flagged(data, flag + 1)
  OBVIOUS
<1>3. f = [i \in 1..n |-> IF i = flag + 1 /\ data[i] # 0 THEN 1 ELSE data[i]]
  BY <1>1, <1>2 DEF Flagged
<1>4. f \in [1..n -> Nat]
  BY <1>1, <1>3, ByteNat
<1>5. Len(f) = n
  BY <1>4
<1>6. flag + 1 \in 1..n
  BY <1>1
<1>7. f[flag + 1] = IF data[flag + 1] # 0 THEN 1 ELSE 0
  BY <1>3, <1>6
<1>8. Len(<<1>>) = 1 /\ Len(<<0>>) = 1 /\ <<1>>[1] = 1 /\ <<0>>[1] = 0 /\ \A i \in 1..1 : i = 1
  OBVIOUS
<1>9. flag + 1 <= Len(f)
  BY <1>1, <1>5
<1> QED
  BY <1>2, <1>7, <1>8, <1>9 DEF At

\* The same for a prefix.
LEMMA AtNext ==
  ASSUME NEW data \in Seq(Nat), NEW a \in Seq(Nat), NEW b \in Seq(Nat),
         At(data, 0, a), At(data, Len(a), b)
  PROVE  a \o b \in Seq(Nat) /\ Len(a \o b) = Len(a) + Len(b) /\ At(data, 0, a \o b)
<1>1. PICK z, m \in Nat : z = 0 /\ m = Len(a)
  BY LenProperties
<1>2. z + Len(a) = m
  BY <1>1
<1>3. At(data, z, a) /\ At(data, z + Len(a), b)
  BY <1>1, <1>2
<1> QED
  BY <1>1, <1>3, AtBoth

\* The versions read, written again, stand behind their number.
LEMMA VersionsAt ==
  ASSUME NEW data \in Seq(Byte), NEW n \in Nat, 2 + 2 * n <= Len(data),
         NEW vs, vs = [i \in 1..n |-> FromNetwork(Slice(data, 2 * i, 2))]
  PROVE  /\ WriteVersions(vs) \in Seq(Nat) /\ Len(vs) = n
         /\ Len(WriteVersions(vs)) = 2 * n /\ At(data, 2, WriteVersions(vs))
<1>1. PICK N \in Nat : N = Len(data) /\ data \in Seq(Nat)
  BY ByteNat
<1>2. ASSUME NEW i \in 1..n
      PROVE  /\ vs[i] \in Nat /\ vs[i] <= UINT16_MAX
             /\ data[2 * i + 1] = ToNetwork(vs[i], 2)[1] /\ data[2 * i + 2] = ToNetwork(vs[i], 2)[2]
  <2>1. PICK k \in Nat : k = 2 * i
    OBVIOUS
  <2>2. k + 2 <= Len(data)
    BY <1>1, <2>1
  <2>3. PICK s \in Seq(Byte), v \in Nat :
          /\ s = Slice(data, k, 2) /\ v = FromNetwork(s) /\ v <= UINT16_MAX
          /\ ToNetwork(v, 2) = s /\ s[1] = data[k + 1] /\ s[2] = data[k + 2]
    BY <2>2, NumberAt
  <2>4. vs[i] = v
    BY <2>1, <2>3
  <2> QED
    BY <2>1, <2>3, <2>4
<1>3. vs \in [1..n -> Nat]
  BY <1>2
<1>4. vs \in Seq(Nat) /\ Len(vs) = n
  BY <1>3
<1>5. PICK seqs, c : seqs = [i \in 1..n |-> ToNetwork(vs[i], 2)] /\ c = WriteVersions(vs)
  OBVIOUS
<1>6. IsPairs(c, seqs, n)
  BY <1>2, <1>4, <1>5, VersionsWritten
<1>7. \A i \in 1..n : data[2 * i + 1] = seqs[i][1] /\ data[2 * i + 2] = seqs[i][2]
  BY <1>2, <1>5
<1>8. At(data, 2, c)
  BY <1>1, <1>6, <1>7, PairsAt
<1> QED
  BY <1>4, <1>5, <1>6, <1>8, ByteNat DEF IsPairs

\* Bytes accepted as a ClientHello begin with its encoding, but for the flag.
LEMMA HelloAccepted ==
  ASSUME NEW data \in Seq(Byte), ClientHello_deserialize(data) # Error
  PROVE  LET h == ClientHello_deserialize(data)
         IN IsPrefix(ClientHello_serialize(h), Flagged(data, 3 + 2 * Len(h.supported_versions) + KxKeyBytes))
<1>1. PICK K, SK, SG, N \in Nat :
        K = KxKeyBytes /\ SK = SignKeyBytes /\ SG = SignatureBytes /\ N = Len(data)
  BY ByteNat, SizeFacts
<1>2. 2 <= N
  BY <1>1 DEF ClientHello_deserialize
<1>3. PICK a \in Seq(Byte), n \in Nat :
        /\ a = Slice(data, 0, 2) /\ n = FromNetwork(a) /\ n <= UINT16_MAX
        /\ ToNetwork(n, 2) = a /\ Len(a) = 2 /\ At(data, 0, a)
  <2>1. 0 \in Nat /\ 0 + 2 <= Len(data)
    BY <1>1, <1>2
  <2> QED
    BY <2>1, NumberAt
<1>4. PICK flag \in Nat : flag = 2 + 2 * n + K
  OBVIOUS
<1>5. PICK has \in BOOLEAN : has = (data[flag + 1] # 0)
  OBVIOUS
<1>6. PICK h : h = ClientHello_deserialize(data)
  OBVIOUS
<1>7. PICK vs : vs = [i \in 1..n |-> FromNetwork(Slice(data, 2 * i, 2))]
  OBVIOUS
<1>8. /\ flag + 1 <= N
      /\ has => flag + 1 + (SK + SG) <= N
      /\ h.supported_versions = vs
      /\ h.ephemeral_pk = Slice(data, 2 + 2 * n, K)
      /\ h.has_client_identity = has
      /\ has => h.identity_pk = Slice(data, flag + 1, SK)
      /\ has => h.identity_sig = Slice(data, flag + 1 + SK, SG)
  <2>1. n = FromNetwork(Slice(data, 0, 2)) /\ flag = 2 + 2 * n + KxKeyBytes
    BY <1>1, <1>3, <1>4
  <2>2. LET g == ClientHello_deserialize(data)
        IN /\ flag + 1 <= Len(data)
           /\ has => flag + 1 + (SignKeyBytes + SignatureBytes) <= Len(data)
           /\ g.supported_versions = [i \in 1..n |-> FromNetwork(Slice(data, 2 * i, 2))]
           /\ g.ephemeral_pk = Slice(data, 2 + 2 * n, KxKeyBytes)
           /\ g.has_client_identity = has
           /\ has => g.identity_pk = Slice(data, flag + 1, SignKeyBytes)
           /\ has => g.identity_sig = Slice(data, flag + 1 + SignKeyBytes, SignatureBytes)
    BY <1>5, <2>1, HelloFields
  <2> QED
    BY <1>1, <1>6, <1>7, <2>2
<1>9. PICK w \in Seq(Nat) :
        w = WriteVersions(vs) /\ Len(vs) = n /\ Len(w) = 2 * n /\ At(data, 2, w)
  <2>1. 2 + 2 * n <= Len(data)
    BY <1>1, <1>4, <1>8
  <2> QED
    BY <1>7, <2>1, VersionsAt
<1>10. PICK pk \in Seq(Byte) :
         pk = Slice(data, 2 + 2 * n, K) /\ Len(pk) = K /\ At(data, 2 + 2 * n, pk)
  <2>1. 2 + 2 * n \in Nat /\ (2 + 2 * n) + K <= Len(data)
    BY <1>1, <1>4, <1>8
  <2> QED
    BY <2>1, SliceAt
<1>11. a \in Seq(Nat) /\ pk \in Seq(Nat) /\ <<1>> \in Seq(Nat) /\ <<0>> \in Seq(Nat)
       /\ Len(<<1>>) = 1 /\ Len(<<0>>) = 1
  BY ByteNat
<1>12. PICK f \in Seq(Nat) :
         f = Flagged(data, flag + 1) /\ At(f, 0, a) /\ At(f, 2, w) /\ At(f, 2 + 2 * n, pk)
  <2>1. PICK k \in Nat : k = flag + 1
    OBVIOUS
  <2>2. 0 + Len(a) < k /\ 2 + Len(w) < k /\ (2 + 2 * n) + Len(pk) < k /\ 2 + 2 * n \in Nat
    <3>1. PICK la, lw, lp \in Nat : la = Len(a) /\ lw = Len(w) /\ lp = Len(pk)
      BY <1>3, <1>9, <1>10
    <3>2. la = 2 /\ lw = 2 * n /\ lp = K
      BY <1>3, <1>9, <1>10, <3>1
    <3>3. 0 + la < k /\ 2 + lw < k /\ (2 + 2 * n) + lp < k
      BY <1>4, <2>1, <3>2
    <3> QED
      BY <3>1, <3>3
  <2>3. Flagged(data, k) \in Seq(Nat) /\ At(Flagged(data, k), 0, a)
    BY <1>3, <1>11, <2>2, AtFlagged
  <2>4. At(Flagged(data, k), 2, w)
    BY <1>9, <2>2, AtFlagged
  <2>5. At(Flagged(data, k), 2 + 2 * n, pk)
    BY <1>10, <1>11, <2>2, AtFlagged
  <2> QED
    BY <2>1, <2>3, <2>4, <2>5
<1>13. PICK aw \in Seq(Nat) : aw = a \o w /\ Len(aw) = 2 + 2 * n /\ At(f, 0, aw)
  <2>1. At(f, 0, a) /\ At(f, Len(a), w)
    BY <1>3, <1>12
  <2>2. a \in Seq(Nat)
    BY <1>11
  <2>3. a \o w \in Seq(Nat) /\ Len(a \o w) = Len(a) + Len(w) /\ At(f, 0, a \o w)
    BY <2>1, <2>2, AtNext
  <2> QED
    BY <1>3, <1>9, <2>3
<1>14. PICK awp \in Seq(Nat) : awp = aw \o pk /\ Len(awp) = flag /\ At(f, 0, awp)
  <2>1. At(f, 0, aw) /\ At(f, Len(aw), pk)
    BY <1>12, <1>13
  <2>2. pk \in Seq(Nat)
    BY <1>11
  <2>3. aw \o pk \in Seq(Nat) /\ Len(aw \o pk) = Len(aw) + Len(pk) /\ At(f, 0, aw \o pk)
    BY <2>1, <2>2, AtNext
  <2> QED
    BY <1>4, <1>10, <1>13, <2>3
<1>15. PICK x \in Seq(Nat) :
         /\ x = (IF has THEN <<1>> \o h.identity_pk \o h.identity_sig ELSE <<0>>)
         /\ At(f, flag, x)
  <2>1. CASE has = FALSE
    <3>1. At(f, flag, <<0>>)
      BY <1>1, <1>5, <1>8, <1>12, <2>1, FlagAt
    <3> QED
      BY <1>11, <2>1, <3>1
  <2>2. CASE has = TRUE
    <3>1. At(f, flag, <<1>>)
      BY <1>1, <1>5, <1>8, <1>12, <2>2, FlagAt
    <3>2. PICK k \in Nat : k = flag + 1
      OBVIOUS
    <3>3. k + SK + SG <= Len(data) /\ k + SK <= Len(data) /\ k + SK \in Nat
      <4>1. flag + 1 + (SK + SG) <= N
        BY <1>8, <2>2
      <4> QED
        BY <1>1, <3>2, <4>1
    <3>4. PICK ipk \in Seq(Byte) :
            ipk = Slice(data, k, SK) /\ Len(ipk) = SK /\ At(data, k, ipk)
      BY <3>3, SliceAt
    <3>5. PICK isig \in Seq(Byte) : isig = Slice(data, k + SK, SG) /\ At(data, k + SK, isig)
      BY <3>3, SliceAt
    <3>6. ipk \in Seq(Nat) /\ isig \in Seq(Nat) /\ k >= k /\ k + SK >= k
      BY ByteNat
    <3>7. At(f, k, ipk)
      BY <1>12, <3>2, <3>4, <3>6, AtFlagged
    <3>8. At(f, k + SK, isig)
      BY <1>12, <3>2, <3>3, <3>5, <3>6, AtFlagged
    <3>9. PICK y \in Seq(Nat) : y = <<1>> \o ipk /\ Len(y) = 1 + SK /\ At(f, flag, y)
      <4>1. flag + Len(<<1>>) = k
        BY <1>11, <3>2
      <4>2. <<1>> \o ipk \in Seq(Nat) /\ Len(<<1>> \o ipk) = Len(<<1>>) + Len(ipk) /\ At(f, flag, <<1>> \o ipk)
        BY <1>11, <3>1, <3>6, <3>7, <4>1, AtBoth
      <4> QED
        BY <1>11, <3>4, <4>2
    <3>10. PICK z \in Seq(Nat) : z = y \o isig /\ At(f, flag, z)
      <4>1. flag + (1 + SK) = k + SK
        BY <3>2
      <4>2. flag + Len(y) = k + SK
        BY <3>9, <4>1
      <4> QED
        BY <3>6, <3>8, <3>9, <4>2, AtBoth
    <3>11. h.identity_pk = ipk /\ h.identity_sig = isig
      BY <1>8, <2>2, <3>2, <3>4, <3>5
    <3> QED
      BY <2>2, <3>9, <3>10, <3>11
  <2> QED
    BY <2>1, <2>2
<1>16. awp \o x \in Seq(Nat) /\ At(f, 0, awp \o x)
  BY <1>14, <1>15, AtNext
<1>17. IsPrefix(awp \o x, f)
  BY <1>16, AtPrefix
<1>18. ClientHello_serialize(h) = awp \o x
  <2>1. n % (UINT16_MAX + 1) = n
    BY <1>3, SmallRemainder
  <2>2. ClientHello_serialize(h) = ToNetwork(n % (UINT16_MAX + 1), 2) \o WriteVersions(vs) \o pk
          \o (IF has THEN <<1>> \o h.identity_pk \o h.identity_sig ELSE <<0>>)
    BY <1>8, <1>9, <1>10 DEF ClientHello_serialize
  <2> QED
    BY <1>3, <1>9, <1>13, <1>14, <1>15, <2>1, <2>2
<1>19. 3 + 2 * Len(h.supported_versions) + KxKeyBytes = flag + 1
  BY <1>1, <1>4, <1>8, <1>9
<1> QED
  BY <1>6, <1>12, <1>17, <1>18, <1>19

\* Bytes accepted as a ServerHello begin with its encoding.
LEMMA ServerHelloAccepted ==
  ASSUME NEW data \in Seq(Byte), ServerHello_deserialize(data) # Error
  PROVE  IsPrefix(ServerHello_serialize(ServerHello_deserialize(data)), data)
<1>1. PICK K, SG, N \in Nat : K = KxKeyBytes /\ SG = SignatureBytes /\ N = Len(data)
  BY ByteNat, SizeFacts
<1>2. PICK h : h = ServerHello_deserialize(data)
  OBVIOUS
<1>3. ~ (N < 2 + K + SG)
  BY <1>1 DEF ServerHello_deserialize
<1>4. 0 + 2 <= N /\ 2 + K <= N /\ 2 + K + SG <= N /\ 2 + K \in Nat /\ 0 \in Nat
  BY <1>3
<1>5. PICK a \in Seq(Byte), v \in Nat :
        /\ a = Slice(data, 0, 2) /\ v = FromNetwork(a) /\ ToNetwork(v, 2) = a /\ Len(a) = 2
        /\ At(data, 0, a)
  BY <1>1, <1>4, NumberAt
<1>6. PICK pk \in Seq(Byte) : pk = Slice(data, 2, K) /\ Len(pk) = K /\ At(data, 2, pk)
  BY <1>1, <1>4, SliceAt
<1>7. PICK s \in Seq(Byte) : s = Slice(data, 2 + K, SG) /\ At(data, 2 + K, s)
  BY <1>1, <1>4, SliceAt
<1>8. a \in Seq(Nat) /\ pk \in Seq(Nat) /\ s \in Seq(Nat) /\ data \in Seq(Nat)
  BY ByteNat
<1>9. PICK y \in Seq(Nat) : y = a \o pk /\ Len(y) = 2 + K /\ At(data, 0, y)
  <2>1. a \o pk \in Seq(Nat) /\ Len(a \o pk) = Len(a) + Len(pk) /\ At(data, 0, a \o pk)
    BY <1>5, <1>6, <1>8, AtNext
  <2> QED
    BY <1>5, <1>6, <2>1
<1>10. y \o s \in Seq(Nat) /\ At(data, 0, y \o s)
  BY <1>7, <1>8, <1>9, AtNext
<1>11. h = [selected_version |-> v, ephemeral_pk |-> pk, signature |-> s]
  BY <1>1, <1>2, <1>3, <1>5, <1>6, <1>7 DEF ServerHello_deserialize
<1>12. h.selected_version = v /\ h.ephemeral_pk = pk /\ h.signature = s
  BY <1>11
<1>13. ServerHello_serialize(h) = y \o s
  BY <1>5, <1>9, <1>12 DEF ServerHello_serialize
<1> QED
  BY <1>2, <1>8, <1>10, <1>13, AtPrefix

\* Both directions hold of any bytes.
LEMMA HellosHold ==
  ASSUME params_data \in Seq(Byte)
  PROVE  HellosRoundTrip
<1>1. PICK data \in Seq(Byte) : data = params_data
  OBVIOUS
<1>2. ASSUME Len(data) <= UINT16_MAX, NEW identity \in BOOLEAN
      PROVE  ClientHello_deserialize(ClientHello_serialize(HelloOf(data, identity)) \o data)
               = HelloOf(data, identity)
  BY <1>2, HelloRead
<1>3. ASSUME ClientHello_deserialize(data) # Error
      PROVE  LET h == ClientHello_deserialize(data)
                 flag == 3 + 2 * Len(h.supported_versions) + KxKeyBytes
             IN IsPrefix(ClientHello_serialize(h),
                         [i \in DOMAIN data |-> IF i = flag /\ data[i] # 0 THEN 1 ELSE data[i]])
  BY <1>3, HelloAccepted DEF Flagged
<1>4. ASSUME ServerHello_deserialize(data) # Error
      PROVE  IsPrefix(ServerHello_serialize(ServerHello_deserialize(data)), data)
  BY <1>4, ServerHelloAccepted
<1> QED
  BY <1>1, <1>2, <1>3, <1>4 DEF HellosRoundTrip

(***************************************************************************)
(* Peers agree on every hello, of any number of versions and for every     *)
(* length of keys and signatures (handshake_messages.cpp).                 *)
(***************************************************************************)
THEOREM HellosCorrect == Spec => []HellosRoundTrip
<1>1. ReaderInv => HellosRoundTrip
  BY HellosHold DEF ReaderInv
<1> QED
  BY <1>1, ReaderInvariant, PTL

-----------------------------------------------------------------------------
(***************************************************************************)
(* A configuration file.  The last of some lines, 0 if there are none.     *)
(***************************************************************************)
Latest(K) == Max({0} \cup K)

\* It is one of them, and none of them comes later.
LEMMA LatestIs ==
  ASSUME NEW n \in Nat, NEW K, K \subseteq 1..n
  PROVE  Latest(K) \in 0..n /\ Latest(K) \in {0} \cup K /\ \A j \in K : j <= Latest(K)
<1>1. PICK S : S = {0} \cup K
  OBVIOUS
<1>2. S \subseteq 0..n /\ 0 \in S
  BY <1>1
<1>3. PICK T : T = {n - x : x \in S}
  OBVIOUS
<1>4. T \subseteq Nat /\ T # {}
  BY <1>2, <1>3
<1>5. PICK t \in T : \A y \in T : t <= y
  BY <1>4, LeastNatural
<1>6. PICK m \in S : t = n - m
  BY <1>3
<1>7. \A y \in S : m >= y
  <2>1. ASSUME NEW y \in S PROVE m >= y
    <3>1. n - y \in T
      BY <1>3
    <3>2. n - m <= n - y
      BY <1>5, <1>6, <3>1
    <3>3. m \in Nat /\ y \in Nat
      BY <1>2
    <3> QED
      BY <3>2, <3>3
  <2> QED
    BY <2>1
<1>8. Latest(K) = CHOOSE x \in S : \A y \in S : x >= y
  BY <1>1 DEF Latest, Max
<1>9. PICK l : l = Latest(K)
  OBVIOUS
<1>10. l \in S /\ \A y \in S : l >= y
  BY <1>7, <1>8, <1>9
<1>11. \A j \in K : j \in Nat /\ j \in S
  BY <1>1
<1>12. l \in 0..n
  BY <1>2, <1>10
<1>13. \A j \in K : j <= l
  BY <1>10, <1>11, <1>12
<1> QED
  BY <1>1, <1>9, <1>10, <1>12, <1>13

(***************************************************************************)
(* One line more: it is the last of its kind, or nothing changes.          *)
(***************************************************************************)
LEMMA LatestNext ==
  ASSUME NEW n \in Nat, NEW K, K \subseteq 1..n, NEW L, L \subseteq 1..(n + 1),
         \A j \in 1..n : j \in L <=> j \in K
  PROVE  /\ n + 1 \in L => Latest(L) = n + 1
         /\ n + 1 \notin L => Latest(L) = Latest(K)
<1>1. n + 1 \in Nat
  OBVIOUS
<1>2. Latest(L) \in 0..(n + 1) /\ \A j \in L : j <= Latest(L)
  BY <1>1, LatestIs
<1>3. CASE n + 1 \in L
  BY <1>2, <1>3
<1>4. CASE n + 1 \notin L
  <2>1. \A j \in 1..(n + 1) : j = n + 1 \/ j \in 1..n
    OBVIOUS
  <2>2. L = K
    BY <1>4, <2>1
  <2> QED
    BY <1>4, <2>2
<1> QED
  BY <1>3, <1>4

(***************************************************************************)
(* What a file says, for any lines and any configuration.                  *)
(***************************************************************************)
Keys == UInt32Keys \cup UInt16Keys
Headers(ls, i) == {j \in 1..(i - 1) : ls[j].kind = "section"}
SectionIn(ls, i) == IF Latest(Headers(ls, i)) = 0 THEN "" ELSE ls[Latest(Headers(ls, i))].name
EnabledLines(ls, s) == {j \in DOMAIN ls : ls[j].kind = "enabled" /\ SectionIn(ls, j) = s}
NumberLines(ls, k) ==
  {j \in DOMAIN ls : ls[j].kind = "number" /\ ls[j].key = k /\ parse_uint32(ls[j].text) # Invalid}
VersionLines(ls) ==
  {j \in DOMAIN ls : ls[j].kind = "supported_versions" /\ ParsedVersions(ls[j].list) # Invalid}

EnabledSays(ls, s, v) ==
  LET i == Latest(EnabledLines(ls, s)) IN v = IF i = 0 THEN TRUE ELSE ls[i].word = "yes"
NumberSays(ls, k, n) ==
  LET i == Latest(NumberLines(ls, k))
  IN IF i = 0 THEN n = Default
     ELSE /\ n < (IF k \in UInt16Keys THEN UInt16Values ELSE UInt32Values)
          /\ n = ParsedNumber(k, ls[i].text)
VersionsSay(ls, v) ==
  LET i == Latest(VersionLines(ls)) IN v = IF i = 0 THEN <<>> ELSE ParsedVersions(ls[i].list)

FileSays(ls, c) ==
  /\ \A s \in ConfigSections : EnabledSays(ls, s, c.enabled[s])
  /\ \A k \in Keys : NumberSays(ls, k, c.number[k])
  /\ VersionsSay(ls, c.supported_versions)

\* The property of Config in these terms.
LEMMA LastValidIs == LastValidWins <=> FileSays(lines, cfg)
<1>1. \A i : SectionOf(i) = SectionIn(lines, i)
  BY DEF SectionOf, SectionIn, Headers, Latest, Is
<1> QED
  BY <1>1 DEF LastValidWins, FileSays, EnabledSays, NumberSays, VersionsSay, Is, Latest, Keys,
     EnabledLines, NumberLines, VersionLines

(***************************************************************************)
(* The numbers: stoul throws or returns a number, and a number that is     *)
(* taken fits its field.                                                   *)
(***************************************************************************)
LEMMA ParsedFits ==
  ASSUME NEW text \in Text, NEW k \in Keys
  PROVE  /\ ParsedNumber(k, text) = Invalid <=> parse_uint32(text) = Invalid
         /\ parse_uint32(text) # Invalid =>
              ParsedNumber(k, text) < (IF k \in UInt16Keys THEN UInt16Values ELSE UInt32Values)
<1>1. UInt16Values \in Nat \ {0} /\ UInt32Values \in Nat \ {0} /\ Invalid \notin Nat
  BY ConfigAssumption
<1>2. k \in UInt16Keys => k \notin UInt32Keys
  BY DEF UInt16Keys, UInt32Keys
<1>3. PICK base \in Nat : base = IF text.hex THEN 16 ELSE 10
  OBVIOUS
<1>4. Numeral(base, text.digits) \in Nat
  <2>1. text.digits \in Seq(0..15)
    BY DEF Text
  <2>2. text.digits \in Seq(Nat)
    BY <2>1
  <2> QED
    BY <2>2, NumeralType
<1>5. PICK n \in Nat \cup {Invalid} : n = stoul(text, base)
  BY <1>4 DEF stoul
<1>6. parse_uint32(text) = IF n = Invalid THEN Invalid ELSE n % UInt32Values
  BY <1>3, <1>5 DEF parse_uint32
<1>7. CASE n = Invalid
  BY <1>6, <1>7 DEF ParsedNumber
<1>8. CASE n # Invalid
  <2>1. PICK q \in Nat, r \in 0..(UInt32Values - 1) : r = n % UInt32Values
    BY <1>1, <1>5, <1>8, Quotient
  <2>2. parse_uint32(text) = r /\ r \in Nat /\ r # Invalid /\ r < UInt32Values
    BY <1>1, <1>6, <1>8, <2>1
  <2>3. PICK p \in Nat, t \in 0..(UInt16Values - 1) : t = r % UInt16Values
    BY <1>1, <2>2, Quotient
  <2>4. t \in Nat /\ t # Invalid /\ t < UInt16Values
    BY <1>1, <2>3
  <2>5. ParsedNumber(k, text) = IF k \in UInt32Keys THEN r ELSE t
    BY <2>2, <2>3 DEF ParsedNumber
  <2> QED
    BY <1>2, <2>2, <2>4, <2>5 DEF Keys
<1> QED
  BY <1>7, <1>8

\* The kinds of lines and what they carry.
LEMMA LineKinds ==
  ASSUME NEW line \in Lines
  PROVE  \/ line.kind \in {"blank", "section"}
         \/ line.kind = "enabled" /\ line.word \in {"yes", "no"}
         \/ line.kind = "number" /\ line.key \in Keys /\ line.text \in Text
         \/ line.kind = "supported_versions"
<1>1. InputKeys \subseteq Keys /\ Texts \subseteq Text
  BY ConfigAssumption DEF Keys
<1>2. CASE line = Blank
  BY <1>2 DEF Blank
<1>3. CASE \E s \in Sections : line = Header(s)
  BY <1>3 DEF Header
<1>4. CASE \E w \in {"yes", "no"} : line = Enabled(w)
  BY <1>4 DEF Enabled
<1>5. CASE \E k \in InputKeys, t \in Texts : line = NumberLine(k, t)
  BY <1>1, <1>5 DEF NumberLine
<1>6. CASE \E l \in VersionLists : line = Versions(l)
  BY <1>6 DEF Versions
<1> QED
  BY <1>2, <1>3, <1>4, <1>5, <1>6 DEF Lines

(***************************************************************************)
(* A line more.  Longer(ls, more, line): more is ls with line at its end.  *)
(***************************************************************************)
Longer(ls, more, line) ==
  LET n == Len(ls)
  IN /\ n \in Nat /\ DOMAIN ls = 1..n /\ DOMAIN more = 1..(n + 1)
     /\ more[n + 1] = line /\ \A j \in 1..n : more[j] = ls[j]

\* Append makes a longer file.
LEMMA LineAppended ==
  ASSUME NEW S, NEW ls \in Seq(S), NEW line \in S
  PROVE  /\ Append(ls, line) \in Seq(S) /\ Len(Append(ls, line)) = Len(ls) + 1
         /\ Longer(ls, Append(ls, line), line)
<1>1. PICK n \in Nat : n = Len(ls) /\ DOMAIN ls = 1..n
  BY LenProperties
<1>2. PICK more \in Seq(S) : more = Append(ls, line) /\ Len(more) = n + 1
  BY <1>1, AppendProperties
<1>3. DOMAIN more = 1..(n + 1)
  BY <1>2, LenProperties
<1>4. more[n + 1] = line /\ \A j \in 1..n : more[j] = ls[j]
  BY <1>1, <1>2, AppendProperties
<1> QED
  BY <1>1, <1>2, <1>3, <1>4 DEF Longer

\* A line changes the section of no line before it, nor its own.
LEMMA SectionKept ==
  ASSUME NEW ls, NEW more, NEW line, Longer(ls, more, line), NEW i \in 1..(Len(ls) + 1)
  PROVE  SectionIn(more, i) = SectionIn(ls, i)
<1>1. PICK n \in Nat : n = Len(ls) /\ \A j \in 1..n : more[j] = ls[j]
  BY DEF Longer
<1>2. \A j \in 1..(i - 1) : j \in 1..n
  BY <1>1
<1>3. PICK K : K = Headers(ls, i)
  OBVIOUS
<1>4. Headers(more, i) = K
  BY <1>1, <1>2, <1>3 DEF Headers
<1>5. K \subseteq 1..n
  BY <1>2, <1>3 DEF Headers
<1>6. PICK h \in 0..n : h = Latest(K)
  BY <1>5, LatestIs
<1>7. h # 0 => more[h] = ls[h]
  BY <1>1, <1>6
<1> QED
  BY <1>3, <1>4, <1>6, <1>7 DEF SectionIn

\* A header opens a section for the lines behind it.
LEMMA SectionNext ==
  ASSUME NEW ls, NEW more, NEW line, Longer(ls, more, line)
  PROVE  SectionIn(more, Len(ls) + 2) =
           IF line.kind = "section" THEN line.name ELSE SectionIn(ls, Len(ls) + 1)
<1>1. PICK n \in Nat : n = Len(ls) /\ more[n + 1] = line /\ \A j \in 1..n : more[j] = ls[j]
  BY DEF Longer
<1>2. (n + 2) - 1 = n + 1 /\ (n + 1) - 1 = n /\ n + 1 # 0
      /\ (\A j \in 1..n : j \in 1..(n + 1)) /\ n + 1 \in 1..(n + 1)
  OBVIOUS
<1>3. PICK K, L : K = Headers(ls, n + 1) /\ L = Headers(more, n + 2)
  OBVIOUS
<1>4. K = {j \in 1..n : ls[j].kind = "section"} /\ L = {j \in 1..(n + 1) : more[j].kind = "section"}
  BY <1>2, <1>3 DEF Headers
<1>5. K \subseteq 1..n /\ L \subseteq 1..(n + 1)
  BY <1>4
<1>6. \A j \in 1..n : j \in L <=> j \in K
  BY <1>1, <1>2, <1>4
<1>7. n + 1 \in L <=> line.kind = "section"
  BY <1>1, <1>2, <1>4
<1>8. /\ n + 1 \in L => Latest(L) = n + 1
      /\ n + 1 \notin L => Latest(L) = Latest(K)
  BY <1>5, <1>6, LatestNext
<1>9. CASE line.kind = "section"
  <2>1. Latest(L) = n + 1
    BY <1>7, <1>8, <1>9
  <2> QED
    BY <1>1, <1>2, <1>3, <1>9, <2>1 DEF SectionIn
<1>10. CASE line.kind # "section"
  <2>1. Latest(L) = Latest(K)
    BY <1>7, <1>8, <1>10
  <2>2. Latest(K) \in 0..n
    BY <1>5, LatestIs
  <2>3. Latest(K) # 0 => more[Latest(K)] = ls[Latest(K)]
    BY <1>1, <2>2
  <2> QED
    BY <1>1, <1>3, <1>10, <2>1, <2>3 DEF SectionIn
<1> QED
  BY <1>9, <1>10

\* `enabled` decides for the section it stands in, any other line for none.
LEMMA EnabledNext ==
  ASSUME NEW ls, NEW more, NEW line, Longer(ls, more, line), NEW s, NEW v,
         EnabledSays(ls, s, v)
  PROVE  EnabledSays(more, s, IF line.kind = "enabled" /\ SectionIn(ls, Len(ls) + 1) = s
                              THEN line.word = "yes" ELSE v)
<1>1. PICK n \in Nat : /\ n = Len(ls) /\ DOMAIN ls = 1..n /\ DOMAIN more = 1..(n + 1)
                       /\ more[n + 1] = line /\ \A j \in 1..n : more[j] = ls[j]
  BY DEF Longer
<1>2. \A j \in 1..(n + 1) : SectionIn(more, j) = SectionIn(ls, j)
  BY <1>1, SectionKept
<1>3. PICK K, L : K = EnabledLines(ls, s) /\ L = EnabledLines(more, s)
  OBVIOUS
<1>4. K \subseteq 1..n /\ L \subseteq 1..(n + 1)
  BY <1>1, <1>3 DEF EnabledLines
<1>5. (\A j \in 1..n : j \in 1..(n + 1)) /\ n + 1 \in 1..(n + 1) /\ n + 1 # 0
  OBVIOUS
<1>6. \A j \in 1..n : j \in L <=> j \in K
  BY <1>1, <1>2, <1>3, <1>5 DEF EnabledLines
<1>7. n + 1 \in L <=> line.kind = "enabled" /\ SectionIn(ls, n + 1) = s
  BY <1>1, <1>2, <1>3, <1>5 DEF EnabledLines
<1>8. /\ n + 1 \in L => Latest(L) = n + 1
      /\ n + 1 \notin L => Latest(L) = Latest(K)
  BY <1>4, <1>6, LatestNext
<1>9. CASE line.kind = "enabled" /\ SectionIn(ls, n + 1) = s
  <2>1. Latest(L) = n + 1
    BY <1>7, <1>8, <1>9
  <2>2. EnabledSays(more, s, line.word = "yes")
    BY <1>1, <1>3, <1>5, <2>1 DEF EnabledSays
  <2> QED
    BY <1>1, <1>9, <2>2
<1>10. CASE ~ (line.kind = "enabled" /\ SectionIn(ls, n + 1) = s)
  <2>1. Latest(L) = Latest(K)
    BY <1>7, <1>8, <1>10
  <2>2. Latest(K) \in 0..n
    BY <1>4, LatestIs
  <2>3. Latest(K) # 0 => more[Latest(K)] = ls[Latest(K)]
    BY <1>1, <2>2
  <2>4. EnabledSays(ls, s, v)
    BY <1>1, <1>10
  <2>5. EnabledSays(more, s, v)
    BY <1>3, <2>1, <2>3, <2>4 DEF EnabledSays
  <2> QED
    BY <1>1, <1>10, <2>5
<1> QED
  BY <1>9, <1>10

\* A valid number decides for its key, any other line for none.
LEMMA NumberNext ==
  ASSUME NEW ls, NEW more, NEW line \in Lines, Longer(ls, more, line), NEW k \in Keys, NEW v,
         NumberSays(ls, k, v)
  PROVE  NumberSays(more, k, IF line.kind = "number" /\ line.key = k /\ ParsedNumber(k, line.text) # Invalid
                             THEN ParsedNumber(k, line.text) ELSE v)
<1>1. PICK n \in Nat : /\ n = Len(ls) /\ DOMAIN ls = 1..n /\ DOMAIN more = 1..(n + 1)
                       /\ more[n + 1] = line /\ \A j \in 1..n : more[j] = ls[j]
  BY DEF Longer
<1>2. line.kind = "number" =>
        /\ ParsedNumber(k, line.text) = Invalid <=> parse_uint32(line.text) = Invalid
        /\ parse_uint32(line.text) # Invalid =>
             ParsedNumber(k, line.text) < (IF k \in UInt16Keys THEN UInt16Values ELSE UInt32Values)
  BY LineKinds, ParsedFits
<1>3. PICK K, L : K = NumberLines(ls, k) /\ L = NumberLines(more, k)
  OBVIOUS
<1>4. K \subseteq 1..n /\ L \subseteq 1..(n + 1)
  BY <1>1, <1>3 DEF NumberLines
<1>5. (\A j \in 1..n : j \in 1..(n + 1)) /\ n + 1 \in 1..(n + 1) /\ n + 1 # 0
  OBVIOUS
<1>6. \A j \in 1..n : j \in L <=> j \in K
  BY <1>1, <1>3, <1>5 DEF NumberLines
<1>7. n + 1 \in L <=> line.kind = "number" /\ line.key = k /\ parse_uint32(line.text) # Invalid
  BY <1>1, <1>3, <1>5 DEF NumberLines
<1>8. /\ n + 1 \in L => Latest(L) = n + 1
      /\ n + 1 \notin L => Latest(L) = Latest(K)
  BY <1>4, <1>6, LatestNext
<1>9. CASE line.kind = "number" /\ line.key = k /\ ParsedNumber(k, line.text) # Invalid
  <2>1. Latest(L) = n + 1
    BY <1>2, <1>7, <1>8, <1>9
  <2>2. NumberSays(more, k, ParsedNumber(k, line.text))
    BY <1>1, <1>2, <1>3, <1>5, <1>9, <2>1 DEF NumberSays
  <2> QED
    BY <1>9, <2>2
<1>10. CASE ~ (line.kind = "number" /\ line.key = k /\ ParsedNumber(k, line.text) # Invalid)
  <2>1. Latest(L) = Latest(K)
    BY <1>2, <1>7, <1>8, <1>10
  <2>2. Latest(K) \in 0..n
    BY <1>4, LatestIs
  <2>3. Latest(K) # 0 => more[Latest(K)] = ls[Latest(K)]
    BY <1>1, <2>2
  <2>4. NumberSays(more, k, v)
    BY <1>3, <2>1, <2>3 DEF NumberSays
  <2> QED
    BY <1>10, <2>4
<1> QED
  BY <1>9, <1>10

\* A valid list of versions decides, any other line does not.
LEMMA VersionsNext ==
  ASSUME NEW ls, NEW more, NEW line, Longer(ls, more, line), NEW v, VersionsSay(ls, v)
  PROVE  VersionsSay(more, IF line.kind = "supported_versions" /\ ParsedVersions(line.list) # Invalid
                           THEN ParsedVersions(line.list) ELSE v)
<1>1. PICK n \in Nat : /\ n = Len(ls) /\ DOMAIN ls = 1..n /\ DOMAIN more = 1..(n + 1)
                       /\ more[n + 1] = line /\ \A j \in 1..n : more[j] = ls[j]
  BY DEF Longer
<1>2. PICK K, L : K = VersionLines(ls) /\ L = VersionLines(more)
  OBVIOUS
<1>3. K \subseteq 1..n /\ L \subseteq 1..(n + 1)
  BY <1>1, <1>2 DEF VersionLines
<1>4. (\A j \in 1..n : j \in 1..(n + 1)) /\ n + 1 \in 1..(n + 1) /\ n + 1 # 0
  OBVIOUS
<1>5. \A j \in 1..n : j \in L <=> j \in K
  BY <1>1, <1>2, <1>4 DEF VersionLines
<1>6. n + 1 \in L <=> line.kind = "supported_versions" /\ ParsedVersions(line.list) # Invalid
  BY <1>1, <1>2, <1>4 DEF VersionLines
<1>7. /\ n + 1 \in L => Latest(L) = n + 1
      /\ n + 1 \notin L => Latest(L) = Latest(K)
  BY <1>3, <1>5, LatestNext
<1>8. CASE line.kind = "supported_versions" /\ ParsedVersions(line.list) # Invalid
  <2>1. Latest(L) = n + 1
    BY <1>6, <1>7, <1>8
  <2>2. VersionsSay(more, ParsedVersions(line.list))
    BY <1>1, <1>2, <1>4, <2>1 DEF VersionsSay
  <2> QED
    BY <1>8, <2>2
<1>9. CASE ~ (line.kind = "supported_versions" /\ ParsedVersions(line.list) # Invalid)
  <2>1. Latest(L) = Latest(K)
    BY <1>6, <1>7, <1>9
  <2>2. Latest(K) \in 0..n
    BY <1>3, LatestIs
  <2>3. Latest(K) # 0 => more[Latest(K)] = ls[Latest(K)]
    BY <1>1, <2>2
  <2>4. VersionsSay(more, v)
    BY <1>2, <2>1, <2>3 DEF VersionsSay
  <2> QED
    BY <1>9, <2>4
<1> QED
  BY <1>8, <1>9

(***************************************************************************)
(* The configuration after a line, field by field.                         *)
(***************************************************************************)
IsConfig(c) ==
  /\ c = [enabled |-> c.enabled, number |-> c.number, supported_versions |-> c.supported_versions]
  /\ DOMAIN c.number = Keys

TakesEnabled(c, d, line, s) ==
  d.enabled[s] = IF line.kind = "enabled" /\ section = s THEN line.word = "yes" ELSE c.enabled[s]
TakesNumber(c, d, line, k) ==
  d.number[k] = IF line.kind = "number" /\ line.key = k /\ ParsedNumber(k, line.text) # Invalid
                THEN ParsedNumber(k, line.text) ELSE c.number[k]
TakesVersions(c, d, line) ==
  d.supported_versions = IF line.kind = "supported_versions" /\ ParsedVersions(line.list) # Invalid
                         THEN ParsedVersions(line.list) ELSE c.supported_versions

Takes(c, d, line) ==
  /\ IsConfig(d) /\ TakesVersions(c, d, line)
  /\ \A s \in ConfigSections : TakesEnabled(c, d, line, s)
  /\ \A k \in Keys : TakesNumber(c, d, line, k)

\* One round of the loop takes the line.
LEMMA LineTaken ==
  ASSUME NEW line \in Lines, from_yaml_line(line), IsConfig(cfg)
  PROVE  Takes(cfg, cfg', line)
<1>1. PICK e, m, v : cfg = [enabled |-> e, number |-> m, supported_versions |-> v] /\ DOMAIN m = Keys
  BY DEF IsConfig
<1>2. cfg.enabled = e /\ cfg.number = m /\ cfg.supported_versions = v
  BY <1>1
<1>3. cfg' = CASE line.kind = "enabled" -> SetEnabled(cfg, line.word \in {"true", "yes", "1"})
               [] line.kind = "number" -> SetNumber(cfg, line.key, line.text)
               [] line.kind = "supported_versions" -> SetVersions(cfg, line.list)
               [] OTHER -> cfg
  BY DEF from_yaml_line
<1>4. CASE line.kind = "enabled"
  <2>1. cfg' = SetEnabled(cfg, line.word \in {"true", "yes", "1"})
    BY <1>3, <1>4
  <2>2. PICK w : w = (line.word \in {"true", "yes", "1"})
    OBVIOUS
  <2>3. w = (line.word = "yes")
    <3>1. line.word = "yes" \/ line.word = "no"
      BY <1>4, LineKinds
    <3>2. CASE line.word = "yes"
      BY <2>2, <3>2
    <3>3. CASE line.word = "no"
      BY <2>2, <3>3
    <3> QED
      BY <3>1, <3>2, <3>3
  <2>4. PICK f : f = [s \in ConfigSections |-> IF s = section THEN w ELSE e[s]]
    OBVIOUS
  <2>5. cfg' = [enabled |-> f, number |-> m, supported_versions |-> v]
    BY <1>1, <2>1, <2>2, <2>4 DEF SetEnabled
  <2>6. cfg'.enabled = f /\ cfg'.number = m /\ cfg'.supported_versions = v
    BY <2>5
  <2>7. IsConfig(cfg')
    BY <1>1, <2>5, <2>6 DEF IsConfig
  <2>8. ASSUME NEW s \in ConfigSections PROVE TakesEnabled(cfg, cfg', line, s)
    <3>1. f[s] = IF s = section THEN w ELSE e[s]
      BY <2>4
    <3> QED
      BY <1>2, <1>4, <2>3, <2>6, <3>1 DEF TakesEnabled
  <2>9. TakesVersions(cfg, cfg', line) /\ \A k \in Keys : TakesNumber(cfg, cfg', line, k)
    BY <1>2, <1>4, <2>6 DEF TakesVersions, TakesNumber
  <2> QED
    BY <2>7, <2>8, <2>9 DEF Takes
<1>5. CASE line.kind = "number"
  <2>1. cfg' = SetNumber(cfg, line.key, line.text)
    BY <1>3, <1>5
  <2>2. PICK k, n : k = line.key /\ n = ParsedNumber(k, line.text)
    OBVIOUS
  <2>3. k \in Keys
    BY <1>5, <2>2, LineKinds
  <2>4. PICK g : g = IF n = Invalid THEN m ELSE [m EXCEPT ![k] = n]
    OBVIOUS
  <2>5. cfg' = [enabled |-> e, number |-> g, supported_versions |-> v]
    <3>1. CASE n = Invalid
      BY <1>1, <2>1, <2>2, <2>4, <3>1 DEF SetNumber
    <3>2. CASE n # Invalid
      <4>1. cfg' = [cfg EXCEPT !.number[k] = n]
        BY <2>1, <2>2, <3>2 DEF SetNumber
      <4> QED
        BY <1>1, <2>4, <3>2, <4>1
    <3> QED
      BY <3>1, <3>2
  <2>6. cfg'.enabled = e /\ cfg'.number = g /\ cfg'.supported_versions = v
    BY <2>5
  <2>7. DOMAIN g = Keys /\ \A j \in Keys : g[j] = IF j = k /\ n # Invalid THEN n ELSE m[j]
    BY <1>1, <2>3, <2>4
  <2>8. IsConfig(cfg')
    BY <2>5, <2>6, <2>7 DEF IsConfig
  <2>9. ASSUME NEW j \in Keys PROVE TakesNumber(cfg, cfg', line, j)
    BY <1>2, <1>5, <2>2, <2>6, <2>7 DEF TakesNumber
  <2>10. TakesVersions(cfg, cfg', line) /\ \A s \in ConfigSections : TakesEnabled(cfg, cfg', line, s)
    BY <1>2, <1>5, <2>6 DEF TakesVersions, TakesEnabled
  <2> QED
    BY <2>8, <2>9, <2>10 DEF Takes
<1>6. CASE line.kind = "supported_versions"
  <2>1. cfg' = SetVersions(cfg, line.list)
    BY <1>3, <1>6
  <2>2. PICK x, u : x = ParsedVersions(line.list) /\ u = IF x = Invalid THEN v ELSE x
    OBVIOUS
  <2>3. cfg' = [enabled |-> e, number |-> m, supported_versions |-> u]
    <3>1. CASE x = Invalid
      BY <1>1, <2>1, <2>2, <3>1 DEF SetVersions
    <3>2. CASE x # Invalid
      <4>1. cfg' = [cfg EXCEPT !.supported_versions = x]
        BY <2>1, <2>2, <3>2 DEF SetVersions
      <4> QED
        BY <1>1, <2>2, <3>2, <4>1
    <3> QED
      BY <3>1, <3>2
  <2>4. cfg'.enabled = e /\ cfg'.number = m /\ cfg'.supported_versions = u
    BY <2>3
  <2>5. IsConfig(cfg')
    BY <1>1, <2>3, <2>4 DEF IsConfig
  <2>6. TakesVersions(cfg, cfg', line)
    BY <1>2, <1>6, <2>2, <2>4 DEF TakesVersions
  <2>7. (\A s \in ConfigSections : TakesEnabled(cfg, cfg', line, s))
        /\ \A k \in Keys : TakesNumber(cfg, cfg', line, k)
    BY <1>2, <1>6, <2>4 DEF TakesEnabled, TakesNumber
  <2> QED
    BY <2>5, <2>6, <2>7 DEF Takes
<1>7. CASE line.kind \notin {"enabled", "number", "supported_versions"}
  <2>1. cfg' = cfg
    BY <1>3, <1>7
  <2> QED
    BY <1>7, <2>1 DEF Takes, TakesEnabled, TakesNumber, TakesVersions
<1> QED
  BY <1>4, <1>5, <1>6, <1>7

(***************************************************************************)
(* The inductive invariant: the section from_yaml stands in is the one the *)
(* lines read so far leave open.                                           *)
(***************************************************************************)
ConfigInv ==
  /\ lines \in Seq(Lines)
  /\ section = SectionIn(lines, Len(lines) + 1)
  /\ IsConfig(cfg)
  /\ FileSays(lines, cfg)

\* The invariant holds of the defaults and no lines.
LEMMA ConfigStart == Init => ConfigInv
<1> SUFFICES ASSUME Init PROVE ConfigInv
  OBVIOUS
<1>1. section = "" /\ cfg = Config_defaults /\ lines = <<>>
  BY DEF Init, ConfigInit
<1>2. lines \in Seq(Lines) /\ Len(lines) = 0 /\ DOMAIN lines = {}
  <2>1. <<>> \in Seq(Lines) /\ Len(<<>>) = 0
    OBVIOUS
  <2>2. DOMAIN <<>> = 1..0 /\ 1..0 = {}
    BY <2>1, LenProperties
  <2> QED
    BY <1>1, <2>1, <2>2
<1>3. 0 \in Nat /\ Latest({}) = 0
  <2>1. {} \subseteq 1..0 /\ 0 \in Nat
    OBVIOUS
  <2>2. Latest({}) \in 0..0
    BY <2>1, LatestIs
  <2> QED
    BY <2>2
<1>4. section = SectionIn(lines, Len(lines) + 1)
  <2>1. Headers(lines, 1) = {}
    BY DEF Headers
  <2>2. SectionIn(lines, 1) = ""
    BY <1>3, <2>1 DEF SectionIn
  <2>3. Len(lines) + 1 = 1
    BY <1>2
  <2> QED
    BY <1>1, <2>2, <2>3
<1>5. IsConfig(cfg)
  BY <1>1 DEF IsConfig, Config_defaults, Keys
<1>6. (\A s : EnabledLines(lines, s) = {}) /\ (\A k : NumberLines(lines, k) = {}) /\ VersionLines(lines) = {}
  BY <1>2 DEF EnabledLines, NumberLines, VersionLines
<1>7. \A s \in ConfigSections : EnabledSays(lines, s, cfg.enabled[s])
  BY <1>1, <1>3, <1>6 DEF EnabledSays, Config_defaults
<1>8. \A k \in Keys : NumberSays(lines, k, cfg.number[k])
  BY <1>1, <1>3, <1>6 DEF NumberSays, Config_defaults, Keys
<1>9. VersionsSay(lines, cfg.supported_versions)
  BY <1>1, <1>3, <1>6 DEF VersionsSay, Config_defaults
<1> QED
  BY <1>2, <1>4, <1>5, <1>7, <1>8, <1>9 DEF ConfigInv, FileSays

\* Every line keeps the invariant.
LEMMA ConfigStep ==
  ASSUME ConfigInv, [Next]_<<wireVars, configVars>>
  PROVE  ConfigInv'
<1>1. CASE UNCHANGED configVars
  BY <1>1 DEF configVars, ConfigInv
<1>2. ASSUME NEW line \in Lines, from_yaml_line(line)
      PROVE  ConfigInv'
  <2>1. lines \in Seq(Lines) /\ section = SectionIn(lines, Len(lines) + 1) /\ IsConfig(cfg)
        /\ FileSays(lines, cfg)
    BY DEF ConfigInv
  <2>2. lines' = Append(lines, line) /\ section' = SectionAfter(line)
    BY <1>2 DEF from_yaml_line
  <2>3. lines' \in Seq(Lines) /\ Len(lines') = Len(lines) + 1 /\ Longer(lines, lines', line)
    BY <2>1, <2>2, LineAppended
  <2>4. Takes(cfg, cfg', line)
    BY <1>2, <2>1, LineTaken
  <2>5. section' = SectionIn(lines', Len(lines') + 1)
    <3>1. SectionIn(lines', Len(lines) + 2) =
            IF line.kind = "section" THEN line.name ELSE SectionIn(lines, Len(lines) + 1)
      BY <2>3, SectionNext
    <3>2. Len(lines') + 1 = Len(lines) + 2
      BY <2>1, <2>3, LenProperties
    <3> QED
      BY <2>1, <2>2, <3>1, <3>2 DEF SectionAfter
  <2>6. ASSUME NEW s \in ConfigSections PROVE EnabledSays(lines', s, cfg'.enabled[s])
    <3>1. EnabledSays(lines, s, cfg.enabled[s])
      BY <2>1 DEF FileSays
    <3>2. EnabledSays(lines', s, IF line.kind = "enabled" /\ SectionIn(lines, Len(lines) + 1) = s
                                 THEN line.word = "yes" ELSE cfg.enabled[s])
      BY <2>3, <3>1, EnabledNext
    <3>3. TakesEnabled(cfg, cfg', line, s)
      BY <2>4 DEF Takes
    <3> QED
      BY <2>1, <3>2, <3>3 DEF TakesEnabled
  <2>7. ASSUME NEW k \in Keys PROVE NumberSays(lines', k, cfg'.number[k])
    <3>1. NumberSays(lines, k, cfg.number[k])
      BY <2>1 DEF FileSays
    <3>2. NumberSays(lines', k,
            IF line.kind = "number" /\ line.key = k /\ ParsedNumber(k, line.text) # Invalid
            THEN ParsedNumber(k, line.text) ELSE cfg.number[k])
      BY <2>3, <3>1, NumberNext
    <3>3. TakesNumber(cfg, cfg', line, k)
      BY <2>4 DEF Takes
    <3> QED
      BY <3>2, <3>3 DEF TakesNumber
  <2>8. VersionsSay(lines', cfg'.supported_versions)
    <3>1. VersionsSay(lines, cfg.supported_versions)
      BY <2>1 DEF FileSays
    <3>2. VersionsSay(lines',
            IF line.kind = "supported_versions" /\ ParsedVersions(line.list) # Invalid
            THEN ParsedVersions(line.list) ELSE cfg.supported_versions)
      BY <2>3, <3>1, VersionsNext
    <3>3. TakesVersions(cfg, cfg', line)
      BY <2>4 DEF Takes
    <3> QED
      BY <3>2, <3>3 DEF TakesVersions
  <2>9. FileSays(lines', cfg') /\ IsConfig(cfg')
    BY <2>4, <2>6, <2>7, <2>8 DEF FileSays, Takes
  <2> QED
    BY <2>3, <2>5, <2>9 DEF ConfigInv
<1> QED
  BY <1>1, <1>2 DEF Next, ReadPayload, ReadFile, configVars

(***************************************************************************)
(* What a file says is what the program gets (config.cpp 100-177), for     *)
(* every file, all keys, all spellings of numbers and all widths of the    *)
(* fields.                                                                 *)
(***************************************************************************)
THEOREM ConfigCorrect == Spec => []LastValidWins
<1>1. ConfigInv => LastValidWins
  BY LastValidIs DEF ConfigInv
<1> QED
  BY <1>1, ConfigStart, ConfigStep, PTL DEF Spec

=============================================================================
