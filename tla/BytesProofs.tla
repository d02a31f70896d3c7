-------------------------------- MODULE BytesProofs ---------------------------
(***************************************************************************)
(* What rests on the digits of numbers.  The ring of bytes is a bounded    *)
(* buffer, for every width of the counters and every size that the         *)
(* constructor can be asked for; Serialize gives back what was written,    *)
(* for every base and every widths; the ranges of Net are what they stand  *)
(* for, for any number of octets of any width; and the functions of        *)
(* Strings are right on every text.  The provers do not know what an       *)
(* exponential is: one law of it is a hypothesis of the theorems.          *)
(***************************************************************************)
EXTENDS AnnularCache, Serialize, Net, Strings, WellFoundedInduction, SequenceTheorems, TLAPS

\* What exponentiation is.
Doubling == \A n \in Nat : 2^(n + 1) = 2 * 2^n

\* The arguments for which GetRoundupPowerOfTwo is defined, and calls of any length.
InWord ==
  /\ Bits \in Nat /\ Bits >= 2 /\ Requests \subseteq 0..2^(Bits - 2) - 1
  /\ MaxLength \in Nat

-----------------------------------------------------------------------------
\* Powers of two.

\* The order of the numbers.
Before == {pair \in Nat \X Nat : pair[1] < pair[2]}

\* Every set of numbers that has one has a least one.
LEMMA Smallest ==
  ASSUME NEW T \in SUBSET Nat, T # {}
  PROVE  \E x \in T : \A y \in T : ~(y < x)
<1>1. Before = OpToRel(<, Nat)
  BY DEF OpToRel, Before
<1>2. IsWellFoundedOn(Before, Nat)
  BY NatLessThanWellFounded, <1>1
<1>3. \E x \in T : \A y \in T : ~(<<y, x>> \in Before)
  BY <1>2, WFMin
<1>4. \A x \in T, y \in T : <<y, x>> \in Before <=> y < x
  BY DEF Before
<1>. QED
  BY <1>3, <1>4

\* Induction, for sets of numbers.
LEMMA Induction ==
  ASSUME NEW S \in SUBSET Nat, 0 \in S, \A n \in S : n + 1 \in S
  PROVE  S = Nat
<1>1. SUFFICES ASSUME S # Nat PROVE FALSE
  OBVIOUS
<1>2. Nat \ S # {} /\ Nat \ S \in SUBSET Nat
  BY <1>1
<1>3. PICK x \in Nat \ S : \A y \in Nat \ S : ~(y < x)
  BY <1>2, Smallest
<1>4. x # 0 /\ x - 1 \in Nat /\ x - 1 < x
  BY <1>3
<1>5. x - 1 + 1 \in S
  BY <1>3, <1>4
<1>. QED
  BY <1>3, <1>4, <1>5

\* Powers are numbers, and larger than their exponents.
LEMMA PowerType ==
  ASSUME Doubling, NEW n \in Nat
  PROVE  2^n \in Nat /\ n < 2^n
<1>. DEFINE S == {k \in Nat : 2^k \in Nat /\ k < 2^k}
<1>1. 2^0 = 1
  OBVIOUS
<1>2. 0 \in S
  BY <1>1
<1>3. ASSUME NEW k \in S
      PROVE  k + 1 \in S
  <2>1. k \in Nat /\ 2^k \in Nat /\ k < 2^k /\ 2^(k + 1) = 2 * 2^k
    BY DEF Doubling
  <2>2. ASSUME NEW a \in Nat, k < a
        PROVE  2 * a \in Nat /\ k + 1 < 2 * a
    BY <2>1, <2>2
  <2>. QED
    BY <2>1, <2>2
<1>4. S = Nat
  <2>. HIDE DEF S
  <2>1. S \in SUBSET Nat
    BY DEF S
  <2>. QED
    BY <1>2, <1>3, <2>1, Induction
<1>. QED
  BY <1>4

\* A power is a multiple of every lower one, twice a number that is at least one.
LEMMA PowerSplit ==
  ASSUME Doubling, NEW m \in Nat, NEW n \in Nat
  PROVE  2^(m + n) = 2^n * 2^m
<1>. DEFINE S == {k \in Nat : 2^(m + k) = 2^k * 2^m}
<1>1. 0 \in S
  <2>1. 2^0 = 1 /\ m + 0 = m /\ 2^m \in Nat
    BY PowerType
  <2>. QED
    BY <2>1
<1>2. ASSUME NEW k \in S
      PROVE  k + 1 \in S
  <2>1. /\ k \in Nat /\ m + k \in Nat /\ m + (k + 1) = (m + k) + 1
        /\ 2^(m + k) = 2^k * 2^m /\ 2^k \in Nat /\ 2^m \in Nat
    BY PowerType
  <2>2. 2^(k + 1) = 2 * 2^k /\ 2^((m + k) + 1) = 2 * 2^(m + k)
    BY <2>1 DEF Doubling
  <2>3. ASSUME NEW a \in Nat, NEW b \in Nat
        PROVE  2 * (a * b) = (2 * a) * b
    BY <2>3
  <2>. QED
    BY <2>1, <2>2, <2>3
<1>3. S = Nat
  <2>. HIDE DEF S
  <2>1. S \in SUBSET Nat
    BY DEF S
  <2>. QED
    BY <1>1, <1>2, <2>1, Induction
<1>. QED
  BY <1>3

\* Higher exponents make higher powers.
LEMMA PowerGrows ==
  ASSUME Doubling, NEW m \in Nat, NEW n \in Nat, m < n
  PROVE  2 * 2^m <= 2^n
<1>1. n - (m + 1) \in Nat /\ m + 1 \in Nat /\ n = (m + 1) + (n - (m + 1))
  OBVIOUS
<1>2. 2^n = 2^(n - (m + 1)) * 2^(m + 1) /\ 2^(m + 1) = 2 * 2^m
  BY <1>1, PowerSplit DEF Doubling
<1>3. 2^(n - (m + 1)) \in Nat \ {0} /\ 2^m \in Nat
  BY <1>1, PowerType
<1>4. ASSUME NEW a \in Nat \ {0}, NEW b \in Nat
      PROVE  b <= a * b
  <2>1. PICK c \in Nat : a = c + 1
    <3>1. a - 1 \in Nat /\ a = (a - 1) + 1
      OBVIOUS
    <3>. QED
      BY <3>1
  <2>2. a * b = c * b + b /\ c * b \in Nat
    BY <2>1
  <2>. QED
    BY <2>2
<1>. QED
  BY <1>2, <1>3, <1>4

\* The sizes that the constructor makes.
Sizes == {u \in Nat \ {0} : Word \in Nat /\ u < Word /\ \E q \in Nat : Word = q * u}

\* GetRoundupPowerOfTwo answers a size, a power of two below the word.
LEMMA RoundupSize ==
  ASSUME Doubling, InWord, NEW n \in Requests
  PROVE  GetRoundupPowerOfTwo(n) \in Sizes
<1>1. /\ Bits \in Nat /\ Bits >= 2 /\ Bits - 2 \in Nat /\ 2^(Bits - 2) \in Nat
      /\ n \in Nat /\ n < 2^(Bits - 2)
  <2>1. Bits \in Nat /\ Bits >= 2 /\ Bits - 2 \in Nat
    BY DEF InWord
  <2>2. 2^(Bits - 2) \in Nat
    BY <2>1, PowerType
  <2>3. n \in 0..2^(Bits - 2) - 1
    BY DEF InWord
  <2>. QED
    BY <2>1, <2>2, <2>3
<1>2. ASSUME NEW k \in Nat, k < Bits
      PROVE  2^k \in Sizes
  <2>1. Bits - k \in Nat /\ Bits = k + (Bits - k)
    BY <1>1, <1>2
  <2>2. 2^Bits = 2^(Bits - k) * 2^k /\ 2^(Bits - k) \in Nat /\ 2^k \in Nat \ {0} /\ 2^Bits \in Nat
    BY <1>1, <2>1, PowerSplit, PowerType
  <2>3. 2 * 2^k <= 2^Bits
    BY <1>1, <1>2, PowerGrows
  <2>. QED
    BY <2>2, <2>3 DEF Sizes, Word
<1>3. CASE n = 0
  <2>1. 2^0 = 1 /\ 0 < Bits
    BY <1>1
  <2>2. GetRoundupPowerOfTwo(n) = 2^0
    BY <1>3, <2>1 DEF GetRoundupPowerOfTwo
  <2>. QED
    BY <1>2, <2>1, <2>2
<1>4. CASE n # 0
  <2>. DEFINE T == {k \in Nat : n < 2^k}
  <2>1. T \in SUBSET Nat /\ Bits - 2 \in T
    BY <1>1
  <2>2. PICK x \in T : \A y \in T : ~(y < x)
    <3>. HIDE DEF T
    <3>. QED
      BY <2>1, Smallest
  <2>3. x \in 0..Bits /\ n < 2^x /\ (x = 0 \/ n >= 2^(x - 1))
    <3>1. ~(Bits - 2 < x)
      BY <2>1, <2>2
    <3>2. x # 0 => x - 1 \in Nat /\ ~(n < 2^(x - 1)) /\ 2^(x - 1) \in Nat
      BY <2>2, PowerType
    <3>. QED
      BY <1>1, <2>2, <3>1, <3>2
  <2>4. /\ BitLength(n) \in 0..Bits
        /\ BitLength(n) = 0 \/ n >= 2^(BitLength(n) - 1)
    BY <2>3 DEF BitLength
  <2>5. BitLength(n) + 1 < Bits
    <3>1. CASE BitLength(n) = 0
      BY <1>1, <3>1
    <3>2. CASE BitLength(n) # 0
      <4>1. BitLength(n) - 1 \in Nat /\ 2^(BitLength(n) - 1) \in Nat /\ n >= 2^(BitLength(n) - 1)
        BY <1>1, <2>4, <3>2, PowerType
      <4>2. Bits - 2 < BitLength(n) - 1 => 2 * 2^(Bits - 2) <= 2^(BitLength(n) - 1)
        BY <1>1, <4>1, PowerGrows
      <4>3. Bits - 2 # BitLength(n) - 1
        BY <1>1, <4>1
      <4>4. ~(Bits - 2 < BitLength(n) - 1)
        BY <1>1, <4>1, <4>2
      <4>. QED
        BY <1>1, <2>4, <4>1, <4>3, <4>4
    <3>. QED
      BY <3>1, <3>2
  <2>6. BitLength(n) + 1 \in Nat
    BY <1>1, <2>4
  <2>7. GetRoundupPowerOfTwo(n) = 2^(BitLength(n) + 1)
    BY <1>4 DEF GetRoundupPowerOfTwo
  <2>. QED
    BY <1>2, <2>5, <2>6, <2>7
<1>. QED
  BY <1>3, <1>4

-----------------------------------------------------------------------------
\* Counters.

\* The counters, and no more unread than the ring holds.
RingInv ==
  /\ size \in Sizes
  /\ cache \in [0..size - 1 -> Bytes]
  /\ w \in 0..Word - 1 /\ r \in 0..Word - 1
  /\ Used <= size

\* Quotient and remainder.
LEMMA Remainder ==
  ASSUME NEW t \in Nat, NEW u \in Nat \ {0}
  PROVE  \E q \in Nat : t = q * u + (t % u) /\ t % u \in 0..u - 1
<1>1. t \div u \in Nat /\ t % u \in 0..u - 1
  BY SMT
<1>2. t = u * (t \div u) + (t % u)
  BY SMT
<1>3. u * (t \div u) = (t \div u) * u
  BY <1>1
<1>. QED
  BY <1>1, <1>2, <1>3

\* Multiples of u are at least u apart.
LEMMA MultiplesApart ==
  ASSUME NEW u \in Nat \ {0}, NEW a \in Nat, NEW b \in Nat, a < b
  PROVE  a * u + u <= b * u
<1>1. PICK d \in Nat : b = a + 1 + d
  <2>1. b - a - 1 \in Nat /\ b = a + 1 + (b - a - 1)
    OBVIOUS
  <2>. QED
    BY <2>1
<1>2. b * u = a * u + u + d * u
  BY <1>1
<1>3. d * u \in Nat /\ a * u \in Nat
  OBVIOUS
<1>. QED
  BY <1>2, <1>3

\* A remainder is told by its range.
LEMMA RemainderIs ==
  ASSUME NEW u \in Nat \ {0}, NEW q \in Nat, NEW v \in 0..u - 1
  PROVE  (q * u + v) % u = v
<1>1. q * u \in Nat /\ q * u + v \in Nat
  OBVIOUS
<1>2. PICK p \in Nat : /\ q * u + v = p * u + ((q * u + v) % u)
                       /\ (q * u + v) % u \in 0..u - 1
  BY <1>1, Remainder
<1>3. p * u \in Nat
  BY <1>2
<1>4. ~(p < q)
  <2>1. p < q => p * u + u <= q * u
    BY <1>2, MultiplesApart
  <2>. QED
    BY <1>1, <1>2, <1>3, <2>1
<1>5. ~(q < p)
  <2>1. q < p => q * u + u <= p * u
    BY <1>2, MultiplesApart
  <2>. QED
    BY <1>1, <1>2, <1>3, <2>1
<1>6. p = q
  BY <1>2, <1>4, <1>5
<1>. QED
  BY <1>1, <1>2, <1>6

\* A step of at most u goes round the ring once.
LEMMA Round ==
  ASSUME NEW u \in Nat \ {0}, NEW t \in Nat, NEW n \in 0..u
  PROVE  /\ t % u \in 0..u - 1
         /\ (t + n) % u = IF (t % u) + n < u THEN (t % u) + n ELSE (t % u) + n - u
<1>1. PICK q \in Nat : t = q * u + (t % u) /\ t % u \in 0..u - 1
  BY Remainder
<1>2. PICK v \in 0..u - 1 : v = t % u
  BY <1>1
<1>3. PICK a \in Nat : a = q * u
  BY <1>1
<1>4. t = a + v
  BY <1>1, <1>2, <1>3
<1>5. CASE v + n < u
  <2>1. v + n \in 0..u - 1 /\ t + n = q * u + (v + n)
    BY <1>5, <1>3, <1>4
  <2>2. (q * u + (v + n)) % u = v + n
    BY <2>1, RemainderIs
  <2>. QED
    BY <1>2, <1>5, <2>1, <2>2
<1>6. CASE ~(v + n < u)
  <2>1. v + n - u \in 0..u - 1 /\ q + 1 \in Nat /\ (q + 1) * u = a + u
    BY <1>6, <1>3
  <2>2. t + n = (q + 1) * u + (v + n - u)
    BY <1>4, <2>1
  <2>3. ((q + 1) * u + (v + n - u)) % u = v + n - u
    BY <2>1, RemainderIs
  <2>. QED
    BY <1>2, <1>6, <2>2, <2>3
<1>. QED
  BY <1>5, <1>6

\* The wrap of a counter does not move its index.
LEMMA WrapsUnseen ==
  ASSUME NEW u \in Sizes, NEW t \in Nat
  PROVE  (t + Word) % u = t % u
<1>1. u \in Nat \ {0} /\ Word \in Nat
  BY DEF Sizes
<1>2. PICK p \in Nat : Word = p * u
  BY DEF Sizes
<1>3. PICK q \in Nat : t = q * u + (t % u) /\ t % u \in 0..u - 1
  BY <1>1, Remainder
<1>4. PICK v \in 0..u - 1 : v = t % u
  BY <1>3
<1>5. PICK a \in Nat, b \in Nat : a = q * u /\ b = p * u
  BY <1>1, <1>2, <1>3
<1>6. q + p \in Nat /\ (q + p) * u = a + b
  BY <1>1, <1>2, <1>3, <1>5
<1>7. t = a + v /\ Word = b
  BY <1>2, <1>3, <1>4, <1>5
<1>8. t + Word = (q + p) * u + v
  BY <1>1, <1>6, <1>7
<1>9. ((q + p) * u + v) % u = v
  BY <1>1, <1>4, <1>6, RemainderIs
<1>. QED
  BY <1>4, <1>8, <1>9

\* A counter that went on by n.
LEMMA Wrapped ==
  ASSUME NEW t \in 0..Word - 1, NEW n \in 0..Word - 1, Word \in Nat
  PROVE  (t + n) % Word = IF t + n < Word THEN t + n ELSE t + n - Word
<1>1. Word \in Nat \ {0} /\ t \in Nat
  OBVIOUS
<1>2. t % Word = t
  <2>1. (0 * Word + t) % Word = t
    BY <1>1, RemainderIs
  <2>. QED
    BY <1>1, <2>1
<1>3. PICK u \in Nat \ {0} : u = Word
  BY <1>1
<1>4. n \in 0..u /\ (t + n) % u = IF (t % u) + n < u THEN (t % u) + n ELSE (t % u) + n - u
  <2>1. n \in 0..u
    BY <1>3
  <2>. QED
    BY <1>1, <2>1, Round
<1>. QED
  BY <1>2, <1>3, <1>4

\* How far a counter is ahead of another.
LEMMA UsedIs ==
  ASSUME NEW a \in 0..Word - 1, NEW b \in 0..Word - 1, Word \in Nat
  PROVE  (a - b) % Word = IF b <= a THEN a - b ELSE a - b + Word
  BY SMT

-----------------------------------------------------------------------------
\* The ring.

\* The unread bytes lie from the read index on, as far as the write index.
LEMMA Reading ==
  ASSUME RingInv
  PROVE  /\ size \in Nat \ {0} /\ Word \in Nat /\ size < Word /\ w \in Nat /\ r \in Nat
         /\ Used \in 0..size /\ r % size \in 0..size - 1 /\ w % size \in 0..size - 1
         /\ w = IF r + Used < Word THEN r + Used ELSE r + Used - Word
         /\ w % size = IF (r % size) + Used < size THEN (r % size) + Used
                       ELSE (r % size) + Used - size
         /\ \A k \in 1..size : (r + k - 1) % size =
              IF (r % size) + k - 1 < size THEN (r % size) + k - 1 ELSE (r % size) + k - 1 - size
         /\ Content \in Seq(Bytes) /\ Len(Content) = Used
         /\ \A k \in 1..Used : Content[k] = cache[(r + k - 1) % size]
<1>1. size \in Nat \ {0} /\ Word \in Nat /\ size < Word /\ w \in 0..Word - 1 /\ r \in 0..Word - 1
  BY DEF RingInv, Sizes
<1>2. Used = IF r <= w THEN w - r ELSE w - r + Word
  BY <1>1, UsedIs DEF Used
<1>3. Used \in 0..size /\ w = IF r + Used < Word THEN r + Used ELSE r + Used - Word
  <2>. HIDE DEF Used
  <2>1. Used <= size
    BY DEF RingInv
  <2>. QED
    BY <1>1, <1>2, <2>1
<1>4. /\ r % size \in 0..size - 1
      /\ (r + Used) % size = IF (r % size) + Used < size THEN (r % size) + Used
                             ELSE (r % size) + Used - size
  <2>1. size \in Nat \ {0} /\ r \in Nat /\ Used \in 0..size
    BY <1>1, <1>3
  <2>. QED
    BY <2>1, Round
<1>5. w % size = (r + Used) % size
  <2>1. CASE r + Used < Word
    BY <1>3, <2>1
  <2>2. CASE ~(r + Used < Word)
    <3>1. w \in Nat /\ w + Word = r + Used /\ size \in Sizes
      BY <1>1, <1>3, <2>2 DEF RingInv
    <3>2. (w + Word) % size = w % size
      BY <3>1, WrapsUnseen
    <3>. QED
      BY <3>1, <3>2
  <2>. QED
    BY <2>1, <2>2
<1>6. w % size \in 0..size - 1
  BY <1>1, Round
<1>7. ASSUME NEW k \in 1..size
      PROVE  /\ (r + k - 1) % size \in 0..size - 1
             /\ (r + k - 1) % size =
                  IF (r % size) + k - 1 < size THEN (r % size) + k - 1 ELSE (r % size) + k - 1 - size
  <2>1. k - 1 \in 0..size /\ r + (k - 1) = r + k - 1 /\ r \in Nat
    BY <1>1
  <2>2. (r + (k - 1)) % size = IF (r % size) + (k - 1) < size THEN (r % size) + (k - 1)
                              ELSE (r % size) + (k - 1) - size
    BY <1>1, <2>1, Round
  <2>. QED
    BY <1>1, <1>4, <2>1, <2>2
<1>8. ASSUME NEW k \in 1..Used
      PROVE  cache[(r + k - 1) % size] \in Bytes
  <2>1. k \in 1..size
    BY <1>1, <1>3
  <2>2. (r + k - 1) % size \in 0..size - 1
    BY <1>7, <2>1
  <2>. QED
    BY <2>2 DEF RingInv
<1>9. /\ Content \in Seq(Bytes) /\ Len(Content) = Used
      /\ \A k \in 1..Used : Content[k] = cache[(r + k - 1) % size]
  BY <1>3, <1>8 DEF Content
<1>10. w \in Nat /\ r \in Nat
  BY <1>1
<1>11. \A k \in 1..size : (r + k - 1) % size =
         IF (r % size) + k - 1 < size THEN (r % size) + k - 1 ELSE (r % size) + k - 1 - size
  BY <1>7
<1>. QED
  BY <1>1, <1>3, <1>4, <1>5, <1>6, <1>9, <1>10, <1>11, Zenon

\* Of a counter that is ahead by u, and goes on by n or is followed by n.
LEMMA Ahead ==
  ASSUME NEW m \in Nat, NEW a \in 0..m - 1, NEW b \in 0..m - 1, NEW u \in Nat, NEW n \in Nat,
         b = IF a + u < m THEN a + u ELSE a + u - m
  PROVE  /\ u + n < m =>
              LET c == IF b + n < m THEN b + n ELSE b + n - m
              IN  (IF a <= c THEN c - a ELSE c - a + m) = u + n
         /\ u < m /\ n <= u =>
              LET c == IF a + n < m THEN a + n ELSE a + n - m
              IN  (IF c <= b THEN b - c ELSE b - c + m) = u - n
  OBVIOUS

\* The slots that a push fills are those behind the unread ones, once round the ring.
LEMMA Slots ==
  ASSUME NEW m \in Nat, NEW b \in 0..m - 1, NEW u \in 0..m, NEW len \in 0..m - u,
         NEW at \in 0..m - 1, at = IF b + u < m THEN b + u ELSE b + u - m,
         NEW l \in 0..len, l <= m - at, l = len \/ l = m - at,
         NEW k \in 1..u + len,
         NEW p \in 0..m - 1, p = IF b + k - 1 < m THEN b + k - 1 ELSE b + k - 1 - m
  PROVE  IF k <= u THEN ~(p < len - l) /\ ~(p \in at..at + l - 1)
         ELSE \/ p < len - l /\ l + p + 1 = k - u
              \/ ~(p < len - l) /\ p \in at..at + l - 1 /\ p - at + 1 = k - u
  OBVIOUS

\* A call of Push or Pop is of any length.
LEMMA BlockType ==
  ASSUME InWord, NEW data \in Blocks
  PROVE  data \in Seq(Bytes) /\ Len(data) \in Nat
<1>1. PICK n \in 0..MaxLength : data \in [1..n -> Bytes]
  BY DEF Blocks
<1>2. n \in Nat
  BY <1>1 DEF InWord
<1>. QED
  BY <1>1, <1>2

\* Push puts what fits behind the unread bytes, and leaves those alone.
LEMMA PushKeeps ==
  ASSUME RingInv, InWord, NEW data \in Blocks, Push(data)
  PROVE  RingInv' /\ Buffer!Push
<1>1. /\ size \in Nat \ {0} /\ Word \in Nat /\ size < Word /\ w \in Nat /\ r \in Nat
      /\ Used \in 0..size /\ r % size \in 0..size - 1 /\ w % size \in 0..size - 1
      /\ w = IF r + Used < Word THEN r + Used ELSE r + Used - Word
      /\ w % size = IF (r % size) + Used < size THEN (r % size) + Used ELSE (r % size) + Used - size
  BY Reading, Zenon
<1>2. \A k \in 1..size : (r + k - 1) % size =
        IF (r % size) + k - 1 < size THEN (r % size) + k - 1 ELSE (r % size) + k - 1 - size
  BY Reading, Zenon
<1>3. /\ Content \in Seq(Bytes) /\ Len(Content) = Used
      /\ \A k \in 1..Used : Content[k] = cache[(r + k - 1) % size]
  BY Reading, Zenon
<1>4. data \in Seq(Bytes) /\ Len(data) \in Nat
  BY BlockType
<1>5. PICK u \in 0..size : u = Used
  BY <1>1
<1>6. PICK len \in Nat : len = Least(Len(data), size - u) /\ len <= Len(data) /\ len <= size - u
  BY <1>1, <1>4 DEF Least
<1>7. PICK at \in 0..size - 1 : at = w % size
  BY <1>1
<1>8. PICK l \in Nat : /\ l = Least(len, size - at) /\ l <= len /\ l <= size - at
                       /\ l = len \/ l = size - at
  BY <1>1, <1>6, <1>7 DEF Least
<1>9. /\ cache' = [k \in 0..size - 1 |->
                     IF k < len - l THEN data[l + k + 1]
                     ELSE IF k \in at..at + l - 1 THEN data[k - at + 1]
                     ELSE cache[k]]
      /\ w' = (w + len) % Word
      /\ moved' = [call |-> "push", asked |-> Len(data), bytes |-> SubSeq(data, 1, len)]
      /\ size' = size /\ r' = r
  BY <1>5, <1>6, <1>7, <1>8 DEF Push, Copied
<1>10. w \in 0..Word - 1 /\ r \in 0..Word - 1 /\ len \in 0..Word - 1
  BY <1>1, <1>6 DEF RingInv
<1>11. w' = IF w + len < Word THEN w + len ELSE w + len - Word
  BY <1>1, <1>9, <1>10, Wrapped
<1>12. w' \in 0..Word - 1
  BY <1>1, <1>10, <1>11
<1>13. Used' = u + len
  <2>1. Used' = IF r <= w' THEN w' - r ELSE w' - r + Word
    BY <1>1, <1>9, <1>10, <1>12, UsedIs DEF Used
  <2>2. PICK m \in Nat, a \in Nat, b \in Nat :
              m = Word /\ a = r /\ b = w /\ a \in 0..m - 1 /\ b \in 0..m - 1
    BY <1>1, <1>10
  <2>3. u + len < m /\ b = IF a + u < m THEN a + u ELSE a + u - m
    BY <1>1, <1>5, <1>6, <2>2
  <2>4. w' = IF b + len < m THEN b + len ELSE b + len - m
    BY <1>11, <2>2
  <2>. QED
    BY <2>1, <2>2, <2>3, <2>4, Ahead
<1>14. \A k \in 1..len : data[k] \in Bytes
  BY <1>4, <1>6
<1>15. RingInv'
  <2>1. cache' \in [0..size - 1 -> Bytes]
    <3>1. ASSUME NEW k \in 0..size - 1
          PROVE  (IF k < len - l THEN data[l + k + 1]
                  ELSE IF k \in at..at + l - 1 THEN data[k - at + 1]
                  ELSE cache[k]) \in Bytes
      <4>1. k < len - l => l + k + 1 \in 1..len
        BY <1>1, <1>6, <1>8
      <4>2. k \in at..at + l - 1 => k - at + 1 \in 1..len
        BY <1>1, <1>6, <1>7, <1>8
      <4>3. cache[k] \in Bytes
        BY DEF RingInv
      <4>. QED
        BY <1>14, <4>1, <4>2, <4>3
    <3>. QED
      BY <1>9, <3>1
  <2>2. Used' <= size' /\ size' \in Sizes
    <3>1. size \in Sizes
      BY DEF RingInv
    <3>. QED
      BY <1>1, <1>6, <1>9, <1>13, <3>1
  <2>. QED
    BY <1>9, <1>10, <1>12, <2>1, <2>2 DEF RingInv
<1>16. ASSUME NEW k \in 1..u + len
       PROVE  cache'[(r + k - 1) % size] = IF k <= u THEN cache[(r + k - 1) % size] ELSE data[k - u]
  <2>1. PICK b \in 0..size - 1 : b = r % size
    BY <1>1
  <2>2. at = IF b + u < size THEN b + u ELSE b + u - size
    BY <1>1, <1>5, <1>7, <2>1
  <2>3. PICK p \in 0..size - 1 : /\ p = (r + k - 1) % size
                                 /\ p = IF b + k - 1 < size THEN b + k - 1 ELSE b + k - 1 - size
    <3>1. k \in 1..size
      BY <1>1, <1>6
    <3>2. (r + k - 1) % size = IF b + k - 1 < size THEN b + k - 1 ELSE b + k - 1 - size
      BY <1>2, <2>1, <3>1
    <3>. QED
      BY <1>1, <2>1, <3>1, <3>2
  <2>4. cache'[p] = IF p < len - l THEN data[l + p + 1]
                    ELSE IF p \in at..at + l - 1 THEN data[p - at + 1]
                    ELSE cache[p]
    BY <1>9, <2>3
  <2>5. IF k <= u THEN ~(p < len - l) /\ ~(p \in at..at + l - 1)
        ELSE \/ p < len - l /\ l + p + 1 = k - u
             \/ ~(p < len - l) /\ p \in at..at + l - 1 /\ p - at + 1 = k - u
    <3>1. PICK m \in Nat : m = size /\ len \in 0..m - u /\ l \in 0..len
      BY <1>1, <1>6, <1>8
    <3>2. /\ u \in 0..m /\ at \in 0..m - 1 /\ b \in 0..m - 1 /\ p \in 0..m - 1
          /\ at = IF b + u < m THEN b + u ELSE b + u - m
          /\ p = IF b + k - 1 < m THEN b + k - 1 ELSE b + k - 1 - m
          /\ l <= m - at /\ (l = len \/ l = m - at)
      BY <1>8, <2>2, <2>3, <3>1
    <3>. QED
      BY <3>1, <3>2, Slots
  <2>. QED
    BY <2>3, <2>4, <2>5
<1>17. Content' = [k \in 1..u + len |-> IF k <= u THEN Content[k] ELSE data[k - u]]
  <2>1. Content' = [k \in 1..u + len |-> cache'[(r + k - 1) % size]]
    BY <1>9, <1>13 DEF Content
  <2>2. \A k \in 1..u + len : k <= u => k \in 1..u
    BY <1>5, <1>6
  <2>. QED
    BY <1>3, <1>5, <1>16, <2>1, <2>2
<1>18. /\ SubSeq(data, 1, len) \in Seq(Bytes) /\ Len(SubSeq(data, 1, len)) = len
       /\ \A k \in 1..len : SubSeq(data, 1, len)[k] = data[k]
  BY <1>4, <1>6
<1>19. Content' = Content \o SubSeq(data, 1, len)
  <2>. DEFINE taken == SubSeq(data, 1, len)
  <2>1. Content \o taken = [k \in 1..u + len |-> IF k <= u THEN Content[k] ELSE taken[k - u]]
    BY <1>3, <1>5, <1>6, <1>18
  <2>2. \A k \in 1..u + len : ~(k <= u) => k - u \in 1..len
    BY <1>5, <1>6
  <2>. QED
    BY <1>17, <1>18, <2>1, <2>2
<1>20. Buffer!Push
  <2>1. moved'.call = "push" /\ moved'.asked = Len(data) /\ moved'.bytes = SubSeq(data, 1, len)
    BY <1>9
  <2>2. Len(moved'.bytes) = Buffer!Lesser(moved'.asked, size - Len(Content))
    BY <1>3, <1>5, <1>6, <1>18, <2>1 DEF Buffer!Lesser, Least
  <2>. QED
    BY <1>9, <1>19, <2>1, <2>2 DEF Buffer!Push
<1>. QED
  BY <1>15, <1>20

\* Pop gives the oldest unread bytes, and leaves the others.
LEMMA PopKeeps ==
  ASSUME RingInv, InWord, NEW n \in 0..MaxLength, Pop(n)
  PROVE  RingInv' /\ Buffer!Pop
<1>1. /\ size \in Nat \ {0} /\ Word \in Nat /\ size < Word /\ w \in Nat /\ r \in Nat
      /\ Used \in 0..size /\ r % size \in 0..size - 1
      /\ w = IF r + Used < Word THEN r + Used ELSE r + Used - Word
  BY Reading, Zenon
<1>2. \A k \in 1..size : (r + k - 1) % size =
        IF (r % size) + k - 1 < size THEN (r % size) + k - 1 ELSE (r % size) + k - 1 - size
  BY Reading, Zenon
<1>3. /\ Content \in Seq(Bytes) /\ Len(Content) = Used
      /\ \A k \in 1..Used : Content[k] = cache[(r + k - 1) % size]
  BY Reading, Zenon
<1>4. n \in Nat
  BY DEF InWord
<1>5. PICK u \in 0..size : u = Used
  BY <1>1
<1>6. PICK len \in Nat : len = Least(n, u) /\ len <= u
  BY <1>1, <1>4, <1>5 DEF Least
<1>7. PICK at \in 0..size - 1 : at = r % size
  BY <1>1
<1>8. PICK l \in Nat : /\ l = Least(len, size - at) /\ l <= len /\ l <= size - at
                       /\ l = len \/ l = size - at
  BY <1>1, <1>6, <1>7 DEF Least
<1>9. /\ moved' = [call |-> "pop", asked |-> n,
                   bytes |-> [k \in 1..len |-> IF k <= l THEN cache[at + k - 1] ELSE cache[k - l - 1]]]
      /\ r' = (r + len) % Word
      /\ size' = size /\ cache' = cache /\ w' = w
  BY <1>5, <1>6, <1>7, <1>8 DEF Pop
<1>10. w \in 0..Word - 1 /\ r \in 0..Word - 1 /\ len \in 0..Word - 1
  BY <1>1, <1>6 DEF RingInv
<1>11. r' = IF r + len < Word THEN r + len ELSE r + len - Word
  BY <1>1, <1>9, <1>10, Wrapped
<1>12. r' \in 0..Word - 1
  BY <1>1, <1>10, <1>11
<1>13. Used' = u - len
  <2>1. Used' = IF r' <= w THEN w - r' ELSE w - r' + Word
    BY <1>1, <1>9, <1>10, <1>12, UsedIs DEF Used
  <2>2. PICK m \in Nat, a \in Nat, b \in Nat :
              m = Word /\ a = r /\ b = w /\ a \in 0..m - 1 /\ b \in 0..m - 1
    BY <1>1, <1>10
  <2>3. u < m /\ len <= u /\ b = IF a + u < m THEN a + u ELSE a + u - m
    BY <1>1, <1>5, <1>6, <2>2
  <2>4. r' = IF a + len < m THEN a + len ELSE a + len - m
    BY <1>11, <2>2
  <2>. QED
    BY <2>1, <2>2, <2>3, <2>4, Ahead
<1>14. RingInv'
  <2>1. Used' <= size' /\ size' \in Sizes
    <3>1. size \in Sizes
      BY DEF RingInv
    <3>. QED
      BY <1>1, <1>6, <1>9, <1>13, <3>1
  <2>2. cache' \in [0..size' - 1 -> Bytes]
    BY <1>9 DEF RingInv
  <2>. QED
    BY <1>9, <1>10, <1>12, <2>1, <2>2 DEF RingInv
<1>15. ASSUME NEW k \in 1..len
       PROVE  (IF k <= l THEN cache[at + k - 1] ELSE cache[k - l - 1]) = Content[k]
  <2>1. k \in 1..size /\ k \in 1..u
    BY <1>1, <1>6
  <2>2. (r + k - 1) % size = IF at + k - 1 < size THEN at + k - 1 ELSE at + k - 1 - size
    BY <1>2, <1>7, <2>1
  <2>3. (r + k - 1) % size = IF k <= l THEN at + k - 1 ELSE k - l - 1
    BY <1>1, <1>6, <1>7, <1>8, <2>1, <2>2
  <2>4. Content[k] = cache[(r + k - 1) % size]
    BY <1>3, <1>5, <2>1
  <2>. QED
    BY <2>3, <2>4
<1>16. ASSUME NEW k \in 1..u - len
       PROVE  (r' + k - 1) % size = (r + (len + k) - 1) % size
  <2>1. len + k \in 1..size /\ len + k - 1 \in 0..size
    BY <1>1, <1>6
  <2>2. PICK m \in Nat, a \in Nat, c \in Nat :
              m = Word /\ a = r /\ c = r' /\ a \in 0..m - 1 /\ c \in 0..m - 1
    BY <1>1, <1>10, <1>12
  <2>3. c = (IF a + len < m THEN a + len ELSE a + len - m) /\ k \in Nat \ {0} /\ c + k - 1 \in Nat
    BY <1>5, <1>6, <1>11, <2>2
  <2>4. CASE a + len < m
    <3>1. c + k - 1 = a + (len + k) - 1
      BY <2>3, <2>4
    <3>. QED
      BY <2>2, <3>1
  <2>5. CASE ~(a + len < m)
    <3>1. a + (len + k) - 1 = (c + k - 1) + m /\ size \in Sizes
      BY <2>3, <2>5 DEF RingInv
    <3>2. ((c + k - 1) + Word) % size = (c + k - 1) % size
      BY <2>3, <3>1, WrapsUnseen
    <3>. QED
      BY <2>2, <3>1, <3>2
  <2>. QED
    BY <2>4, <2>5
<1>17. Content' = [k \in 1..u - len |-> Content[len + k]]
  <2>1. Content' = [k \in 1..u - len |-> cache[(r' + k - 1) % size]]
    BY <1>9, <1>13 DEF Content
  <2>2. \A k \in 1..u - len : len + k \in 1..u
    BY <1>5, <1>6
  <2>. QED
    BY <1>3, <1>5, <1>16, <2>1, <2>2
<1>18. PICK taken, rest, all :
         taken = [k \in 1..len |-> Content[k]] /\ rest = Content' /\ all = Content
  OBVIOUS
<1>19. moved'.call = "pop" /\ moved'.asked = n /\ moved'.bytes = taken
  BY <1>9, <1>15, <1>18
<1>20. PICK left \in Nat : left = u - len /\ len + left = u
  BY <1>5, <1>6
<1>21. Content = taken \o Content'
  <2>1. /\ all \in Seq(Bytes) /\ Len(all) = u
        /\ taken = [k \in 1..len |-> all[k]] /\ rest = [k \in 1..left |-> all[len + k]]
    BY <1>3, <1>5, <1>17, <1>18, <1>20
  <2>2. /\ taken \in Seq(Bytes) /\ Len(taken) = len
        /\ rest \in Seq(Bytes) /\ Len(rest) = left
    <3>1. \A k \in 1..len : all[k] \in Bytes
      BY <1>20, <2>1
    <3>2. \A k \in 1..left : all[len + k] \in Bytes
      BY <1>20, <2>1
    <3>3. taken \in [1..len -> Bytes] /\ rest \in [1..left -> Bytes]
      BY <2>1, <3>1, <3>2
    <3>. QED
      BY <2>1, <3>3
  <2>3. taken \o rest = all
    <3>1. taken \o rest \in Seq(Bytes) /\ Len(taken \o rest) = u
      BY <1>20, <2>2
    <3>2. ASSUME NEW k \in 1..u
          PROVE  (taken \o rest)[k] = all[k]
      <4>1. CASE k <= len
        BY <1>20, <2>1, <2>2, <4>1
      <4>2. CASE ~(k <= len)
        <5>1. k - len \in 1..left /\ len + (k - len) = k
          BY <1>20, <4>2
        <5>2. (taken \o rest)[k] = rest[k - len]
          BY <1>20, <2>2, <4>2, <5>1
        <5>. QED
          BY <2>1, <5>1, <5>2
      <4>. QED
        BY <4>1, <4>2
    <3>. QED
      BY <2>1, <3>1, <3>2, SeqEqual
  <2>. QED
    BY <1>18, <2>3
<1>22. Buffer!Pop
  <2>1. Len(moved'.bytes) = Buffer!Lesser(moved'.asked, Len(Content))
    BY <1>3, <1>5, <1>6, <1>18, <1>19 DEF Buffer!Lesser, Least
  <2>. QED
    BY <1>9, <1>19, <1>21, <2>1 DEF Buffer!Pop
<1>. QED
  BY <1>14, <1>22

-----------------------------------------------------------------------------

\* RingRefined: whatever size the constructor is asked for and wherever the two
\* counters have wrapped, Push and Pop of AnnularCache are those of a bounded
\* first-in first-out buffer: no byte is lost, overwritten or read twice.
THEOREM RingRefined ==
  ASSUME Doubling, InWord
  PROVE  RingSpec => RefinesBuffer
<1>1. RingInit => RingInv /\ Buffer!Init
  <2>1. SUFFICES ASSUME RingInit PROVE RingInv /\ Buffer!Init
    OBVIOUS
  <2>2. size \in Sizes
    BY <2>1, RoundupSize DEF RingInit
  <2>3. size \in Nat \ {0} /\ Word \in Nat /\ size < Word
    BY <2>2 DEF Sizes
  <2>4. 0 \in 0..Word - 1 /\ w = 0 /\ r = 0
    BY <2>1, <2>3 DEF RingInit
  <2>5. Used = 0
    BY <2>3, <2>4, UsedIs DEF Used
  <2>6. Content = <<>>
    BY <2>5 DEF Content
  <2>7. RingInv
    BY <2>1, <2>2, <2>3, <2>4, <2>5 DEF RingInit, RingInv
  <2>. QED
    BY <2>1, <2>3, <2>6, <2>7 DEF RingInit, Buffer!Init
<1>2. RingInv /\ [RingNext]_ring => RingInv' /\ [Buffer!Next]_(Buffer!vars)
  <2>1. SUFFICES ASSUME RingInv, [RingNext]_ring
                 PROVE  RingInv' /\ [Buffer!Next]_(Buffer!vars)
    OBVIOUS
  <2>2. CASE \E data \in Blocks : Push(data)
    BY <2>1, <2>2, PushKeeps DEF Buffer!Next
  <2>3. CASE \E n \in 0..MaxLength : Pop(n)
    BY <2>1, <2>3, PopKeeps DEF Buffer!Next
  <2>4. CASE UNCHANGED ring
    <3>1. size' = size /\ cache' = cache /\ w' = w /\ r' = r /\ moved' = moved
      BY <2>4 DEF ring
    <3>2. Used' = Used
      BY <3>1 DEF Used
    <3>3. Content' = Content
      BY <3>1, <3>2 DEF Content
    <3>4. RingInv'
      BY <2>1, <3>1, <3>2 DEF RingInv
    <3>. QED
      BY <3>1, <3>3, <3>4 DEF Buffer!vars
  <2>. QED
    BY <2>1, <2>2, <2>3, <2>4 DEF RingNext
<1>. QED
  BY <1>1, <1>2, PTL DEF RingSpec, RefinesBuffer, Buffer!Spec

-----------------------------------------------------------------------------
\* What exponentiation is.
Powers == Base^0 = 1 /\ \A n \in Nat : Base^(n + 1) = Base * Base^n

\* The chars.
Char == 0..Base - 1

-----------------------------------------------------------------------------
\* Digits.

\* The powers of the base are positive, and multiply step by step.
LEMMA DigitPower ==
  ASSUME Powers, NEW n \in Nat
  PROVE  Base \in Nat /\ Base >= 2 /\ Base^n \in Nat \ {0} /\ Base^(n + 1) = Base * Base^n
<1>1. Base \in Nat /\ Base >= 2
  BY ItemsAssumption
<1>. DEFINE S == {k \in Nat : Base^k \in Nat \ {0}}
<1>2. 0 \in S
  BY DEF Powers
<1>3. ASSUME NEW k \in S
      PROVE  k + 1 \in S
  <2>1. k \in Nat /\ Base^k \in Nat \ {0} /\ Base^(k + 1) = Base * Base^k
    BY DEF Powers
  <2>2. ASSUME NEW a \in Nat \ {0}, NEW b \in Nat \ {0}
        PROVE  b * a \in Nat \ {0}
    BY <2>2
  <2>. QED
    BY <1>1, <2>1, <2>2
<1>4. S = Nat
  <2>. HIDE DEF S
  <2>1. S \in SUBSET Nat
    BY DEF S
  <2>. QED
    BY <1>2, <1>3, <2>1, Induction
<1>5. n \in S
  <2>. HIDE DEF S
  <2>. QED
    BY <1>4
<1>6. Base^(n + 1) = Base * Base^n
  BY DEF Powers
<1>. QED
  BY <1>1, <1>5, <1>6

\* The digits up to the n-th are the number up to the n-1-st and one digit more.
LEMMA OneDigitMore ==
  ASSUME NEW b \in Nat \ {0}, NEW p \in Nat \ {0}, NEW u \in Nat
  PROVE  u % (b * p) = (u % p) + ((u \div p) % b) * p
<1>1. PICK q \in Nat, v \in 0..p - 1 : u = q * p + v /\ v = u % p /\ q = u \div p
  <2>1. u \div p \in Nat /\ u % p \in 0..p - 1 /\ u = p * (u \div p) + (u % p)
    BY SMT
  <2>2. p * (u \div p) = (u \div p) * p
    BY <2>1
  <2>. QED
    BY <2>1, <2>2
<1>2. PICK t \in Nat, d \in 0..b - 1 : q = t * b + d /\ d = q % b
  BY Remainder
<1>3. PICK c \in Nat : c = d * p
  <2>1. d * p \in Nat
    BY <1>2
  <2>. QED
    BY <2>1
<1>4. PICK m \in Nat \ {0} : m = b * p
  <2>1. b * p \in Nat \ {0}
    BY SMT
  <2>. QED
    BY <2>1
<1>5. c + p <= m
  <2>1. d \in Nat /\ b \in Nat /\ d < b
    OBVIOUS
  <2>. QED
    BY <1>3, <1>4, <2>1, MultiplesApart
<1>6. c + v \in 0..m - 1
  BY <1>1, <1>3, <1>4, <1>5
<1>7. q * p = t * m + c
  <2>1. PICK s \in Nat : s = t * b
    <3>1. t * b \in Nat
      OBVIOUS
    <3>. QED
      BY <3>1
  <2>2. q * p = s * p + d * p
    BY <1>2, <2>1
  <2>3. s * p = t * m
    BY <1>4, <2>1
  <2>. QED
    BY <1>3, <2>2, <2>3
<1>8. t * m \in Nat
  BY <1>2, <1>4
<1>9. u = t * m + (c + v)
  BY <1>1, <1>3, <1>7, <1>8
<1>10. (t * m + (c + v)) % m = c + v
  BY <1>2, <1>4, <1>6, RemainderIs
<1>11. u % m = c + v
  BY <1>9, <1>10
<1>12. c \in Nat /\ v \in Nat /\ c + v = v + c
  BY <1>1, <1>3
<1>13. u % (b * p) = v + c
  BY <1>4, <1>11, <1>12, Zenon
<1>. QED
  BY <1>1, <1>2, <1>3, <1>13, Zenon

\* Chars are as many as asked for, and each is one.
LEMMA CharsType ==
  ASSUME Powers, NEW value \in Int, NEW width \in Nat, -(Base^width) <= value
  PROVE  Chars(value, width) \in Seq(Char) /\ Len(Chars(value, width)) = width
<1>1. PICK u \in Nat : u = IF value < 0 THEN value + Base^width ELSE value
  BY DigitPower
<1>2. ASSUME NEW i \in 1..width
      PROVE  (u \div Base^(i - 1)) % Base \in Char
  <2>1. i - 1 \in Nat
    OBVIOUS
  <2>2. PICK m \in Nat : m = i - 1
    BY <2>1
  <2>3. Base \in Nat \ {0} /\ Base^m \in Nat \ {0}
    BY DigitPower
  <2>4. ASSUME NEW a \in Nat \ {0}, NEW b \in Nat \ {0}
        PROVE  (u \div a) % b \in 0..b - 1
    BY SMT
  <2>. QED
    BY <2>2, <2>3, <2>4 DEF Char
<1>3. Chars(value, width) = [i \in 1..width |-> (u \div Base^(i - 1)) % Base]
  BY <1>1 DEF Chars
<1>. QED
  BY <1>2, <1>3

\* What Number adds up.
Sum(low, chars) ==
  [n \in 0..Len(chars) |-> IF n = 0 THEN 0 ELSE low[n - 1] + chars[n] * Base^(n - 1)]

\* The digits of u give back u, as far as there are digits.
LEMMA NumberIs ==
  ASSUME Powers, NEW u \in Nat, NEW width \in Nat, NEW chars,
         chars = [i \in 1..width |-> (u \div Base^(i - 1)) % Base]
  PROVE  Number(chars) = u % Base^width
<1>1. Len(chars) = width /\ \A i \in 1..width : chars[i] = (u \div Base^(i - 1)) % Base
  OBVIOUS
<1>2. PICK g : g = (CHOOSE h : h = Sum(h, chars)) /\ Number(chars) = g[width]
  BY <1>1 DEF Number, Sum
<1>3. ASSUME NEW m \in Nat, m < width
      PROVE  u % Base^(m + 1) = (u % Base^m) + chars[m + 1] * Base^m
  <2>1. m + 1 \in 1..width /\ (m + 1) - 1 = m
    BY <1>3
  <2>2. chars[m + 1] = (u \div Base^m) % Base
    BY <1>1, <2>1
  <2>3. PICK p \in Nat \ {0}, b \in Nat \ {0} : p = Base^m /\ b = Base
    <3>1. Base^m \in Nat \ {0} /\ Base \in Nat /\ Base >= 2
      BY DigitPower, Zenon
    <3>2. Base \in Nat \ {0}
      BY <3>1
    <3>. QED
      BY <3>1, <3>2, Zenon
  <2>4. Base^(m + 1) = b * p
    BY <2>3, DigitPower
  <2>5. u % (b * p) = (u % p) + ((u \div p) % b) * p
    BY OneDigitMore
  <2>. QED
    BY <2>2, <2>3, <2>4, <2>5
<1>4. u % Base^0 = 0
  <2>1. Base^0 = 1
    BY DEF Powers
  <2>. QED
    BY <2>1
<1>. DEFINE W == [n \in 0..width |-> u % Base^n]
<1>5. W = Sum(W, chars)
  <2>1. Sum(W, chars) = [n \in 0..width |-> IF n = 0 THEN 0 ELSE W[n - 1] + chars[n] * Base^(n - 1)]
    BY <1>1 DEF Sum
  <2>2. ASSUME NEW n \in 0..width
        PROVE  u % Base^n = IF n = 0 THEN 0 ELSE W[n - 1] + chars[n] * Base^(n - 1)
    <3>1. CASE n = 0
      BY <1>4, <3>1
    <3>2. CASE n # 0
      <4>1. PICK m \in Nat : m < width /\ n = m + 1 /\ n - 1 = m
        <5>1. n - 1 \in Nat /\ n - 1 < width /\ n = (n - 1) + 1
          BY <3>2
        <5>. QED
          BY <5>1
      <4>2. W[m] = u % Base^m
        BY <4>1
      <4>3. u % Base^(m + 1) = W[m] + chars[m + 1] * Base^m
        BY <1>3, <4>1, <4>2
      <4>. HIDE DEF W
      <4>. QED
        BY <3>2, <4>1, <4>3
    <3>. QED
      BY <3>1, <3>2
  <2>. QED
    BY <2>1, <2>2
<1>6. g = Sum(g, chars)
  <2>. HIDE DEF W
  <2>. QED
    BY <1>2, <1>5
<1>7. /\ g[0] = 0
      /\ \A m \in Nat : m < width => g[m + 1] = g[m] + chars[m + 1] * Base^m
  <2>1. \A h : Sum(h, chars)[0] = 0
    BY <1>1 DEF Sum
  <2>2. ASSUME NEW h, NEW m \in Nat, m < width
        PROVE  Sum(h, chars)[m + 1] = h[m] + chars[m + 1] * Base^m
    <3>1. m + 1 \in 0..width /\ (m + 1) - 1 = m /\ m + 1 # 0
      BY <2>2
    <3>2. Sum(h, chars)[m + 1] = h[(m + 1) - 1] + chars[m + 1] * Base^((m + 1) - 1)
      BY <1>1, <3>1 DEF Sum
    <3>. QED
      BY <3>1, <3>2
  <2>. HIDE DEF W
  <2>. QED
    BY <1>6, <2>1, <2>2
<1>. DEFINE S == {n \in Nat : n <= width => g[n] = u % Base^n}
<1>8. 0 \in S
  BY <1>4, <1>7
<1>9. ASSUME NEW n \in S
      PROVE  n + 1 \in S
  <2>1. SUFFICES ASSUME n + 1 <= width
                 PROVE  g[n + 1] = u % Base^(n + 1)
    OBVIOUS
  <2>2. n < width /\ n <= width /\ n \in Nat
    BY <2>1
  <2>3. g[n] = u % Base^n
    BY <2>2
  <2>4. g[n + 1] = g[n] + chars[n + 1] * Base^n
    BY <1>7, <2>2
  <2>5. u % Base^(n + 1) = (u % Base^n) + chars[n + 1] * Base^n
    BY <1>3, <2>2
  <2>. QED
    BY <2>3, <2>4, <2>5
<1>10. S = Nat
  <2>. HIDE DEF S
  <2>1. S \in SUBSET Nat
    BY DEF S
  <2>. QED
    BY <1>8, <1>9, <2>1, Induction
<1>11. width \in S
  <2>. HIDE DEF S
  <2>. QED
    BY <1>10
<1>12. g[width] = u % Base^width
  BY <1>11
<1>. QED
  BY <1>2, <1>12

\* A number below the modulus is its remainder.
LEMMA Below ==
  ASSUME NEW m \in Nat \ {0}, NEW u \in 0..m - 1
  PROVE  u % m = u
<1>1. (0 * m + u) % m = u
  BY RemainderIs
<1>. QED
  BY <1>1

\* An unsigned number comes back from its chars.
LEMMA UnsignedBack ==
  ASSUME Powers, NEW type, type # "int", NEW width \in Nat, NEW value \in 0..Base^width - 1
  PROVE  Value(type, Chars(value, width)) = value
<1>1. PICK m \in Nat \ {0} : m = Base^width
  <2>1. Base^width \in Nat \ {0}
    BY DigitPower
  <2>. QED
    BY <2>1
<1>2. value \in 0..m - 1 /\ value \in Nat /\ ~(value < 0)
  BY <1>1
<1>3. PICK chars : chars = Chars(value, width)
  OBVIOUS
<1>4. chars = [i \in 1..width |-> (value \div Base^(i - 1)) % Base]
  BY <1>2, <1>3 DEF Chars
<1>5. Number(chars) = value % m
  BY <1>1, <1>2, <1>4, NumberIs
<1>6. value % m = value
  BY <1>2, Below
<1>. QED
  BY <1>3, <1>5, <1>6 DEF Value

\* So does a signed one.
LEMMA SignedBack ==
  ASSUME Powers, NEW width \in Nat, NEW value \in Int,
         -(Base^width) <= 2 * value, 2 * value < Base^width
  PROVE  Value("int", Chars(value, width)) = value
<1>1. PICK m \in Nat \ {0} : m = Base^width
  <2>1. Base^width \in Nat \ {0}
    BY DigitPower
  <2>. QED
    BY <2>1
<1>2. PICK u \in 0..m - 1 : u = IF value < 0 THEN value + Base^width ELSE value
  <2>1. (IF value < 0 THEN value + m ELSE value) \in 0..m - 1
    BY <1>1
  <2>. QED
    BY <1>1, <2>1
<1>3. PICK chars : chars = Chars(value, width)
  OBVIOUS
<1>4. chars = [i \in 1..width |-> (u \div Base^(i - 1)) % Base]
  BY <1>2, <1>3 DEF Chars
<1>5. Number(chars) = u % m /\ Len(chars) = width
  BY <1>1, <1>2, <1>4, NumberIs
<1>6. u % m = u
  BY <1>2, Below
<1>7. Value("int", chars) = IF 2 * u >= m THEN u - m ELSE u
  BY <1>1, <1>5, <1>6 DEF Value
<1>8. u = IF value < 0 THEN value + m ELSE value
  BY <1>1, <1>2
<1>9. -m <= 2 * value /\ 2 * value < m
  BY <1>1
<1>10. (IF 2 * u >= m THEN u - m ELSE u) = value
  BY <1>8, <1>9
<1>. QED
  BY <1>3, <1>7, <1>10

\* The items are what their overloads take.
LEMMA ItemIs ==
  ASSUME Powers, NEW item \in Items
  PROVE  /\ item = [type |-> item.type, value |-> item.value]
         /\ item.type \in {"bool", "int", "uint32", "uint64", "string"}
         /\ Width["uint32"] \in Nat
         /\ item.type = "string" =>
              item.value \in Seq(Char) /\ Len(item.value) \in 0..Base^Width["uint32"] - 1
         /\ item.type = "int" =>
              /\ item.value \in Int
              /\ -(Base^Width["int"]) <= 2 * item.value /\ 2 * item.value < Base^Width["int"]
         /\ item.type \in {"bool", "uint32", "uint64"} =>
              item.value \in 0..Base^Width[item.type] - 1
         /\ item.type # "string" => Width[item.type] \in Nat
<1>1. /\ Width \in [{"bool", "int", "uint32", "uint64"} -> Nat \ {0}]
      /\ item.type \in DOMAIN Width \union {"string"} /\ item \in ItemOf(item.type)
  BY ItemsAssumption
<1>2. /\ item.type \in {"bool", "int", "uint32", "uint64", "string"} /\ Width["uint32"] \in Nat
      /\ item.type # "string" => Width[item.type] \in Nat \ {0}
  BY <1>1
<1>. DEFINE V == CASE item.type = "bool" -> {0, 1}
                   [] item.type = "int" -> {v \in Int : -(Base^Width["int"]) <= 2 * v /\ 2 * v < Base^Width["int"]}
                   [] item.type = "string" -> {s \in Seq(0..Base - 1) : Len(s) < Base^Width["uint32"]}
                   [] OTHER -> 0..Base^Width[item.type] - 1
<1>3. item \in [type : {item.type}, value : V]
  BY <1>1 DEF ItemOf
<1>4. item = [type |-> item.type, value |-> item.value] /\ item.value \in V
  <2>. HIDE DEF V
  <2>. QED
    BY <1>3
<1>5. CASE item.type = "bool"
  <2>1. item.value \in {0, 1}
    BY <1>4, <1>5
  <2>2. PICK k \in Nat : k + 1 = Width["bool"]
    <3>1. Width["bool"] \in Nat \ {0}
      BY <1>1
    <3>2. Width["bool"] - 1 \in Nat /\ (Width["bool"] - 1) + 1 = Width["bool"]
      BY <3>1
    <3>. QED
      BY <3>2
  <2>3. PICK p \in Nat \ {0}, b \in Nat : b >= 2 /\ p = Base^k /\ b = Base /\ Base^(k + 1) = Base * Base^k
    <3>1. Base^k \in Nat \ {0} /\ Base \in Nat /\ Base >= 2 /\ Base^(k + 1) = Base * Base^k
      BY DigitPower, Zenon
    <3>. QED
      BY <3>1, Zenon
  <2>4. b * p >= 2
    <3>1. 0 < p /\ 0 * b + b <= p * b /\ p * b = b * p
      BY <2>3, MultiplesApart
    <3>. QED
      BY <2>3, <3>1
  <2>5. PICK m \in Nat : m = Base^Width["bool"] /\ m >= 2
    <3>1. Base^Width["bool"] = b * p
      BY <2>2, <2>3, Zenon
    <3>2. b * p \in Nat
      OBVIOUS
    <3>. QED
      BY <2>4, <3>1, <3>2
  <2>6. item.value \in 0..m - 1
    BY <2>1, <2>5
  <2>7. item.value \in 0..Base^Width[item.type] - 1
    BY <1>5, <2>5, <2>6, Zenon
  <2>. HIDE DEF V
  <2>. QED
    BY <1>2, <1>4, <1>5, <2>7
<1>6. CASE item.type = "int"
  BY <1>2, <1>4, <1>6
<1>7. CASE item.type = "string"
  <2>1. item.value \in {s \in Seq(0..Base - 1) : Len(s) < Base^Width["uint32"]}
    BY <1>4, <1>7
  <2>2. PICK m \in Nat : m = Base^Width["uint32"]
    <3>1. Base^Width["uint32"] \in Nat
      BY <1>2, DigitPower
    <3>. QED
      BY <3>1
  <2>3. item.value \in Seq(Char) /\ Len(item.value) \in Nat /\ Len(item.value) < m
    BY <2>1, <2>2 DEF Char
  <2>4. Len(item.value) \in 0..m - 1
    BY <2>3
  <2>. HIDE DEF V
  <2>. QED
    BY <1>2, <1>4, <1>7, <2>2, <2>3, <2>4
<1>8. CASE item.type \in {"uint32", "uint64"}
  BY <1>2, <1>4, <1>8
<1>. HIDE DEF V
<1>. QED
  BY <1>2, <1>5, <1>6, <1>7, <1>8

-----------------------------------------------------------------------------
\* One item.

\* The part of b that is t.
LEMMA PartIs ==
  ASSUME NEW S, NEW b \in Seq(S), NEW t \in Seq(S), NEW m \in Nat, m + Len(t) <= Len(b),
         \A k \in 1..Len(t) : b[m + k] = t[k]
  PROVE  SubSeq(b, m + 1, m + Len(t)) = t
<1>1. Len(t) \in Nat /\ Len(b) \in Nat /\ \A i \in 1..Len(b) : b[i] \in S
  BY LenProperties
<1>2. PICK n \in Nat : n = Len(t)
  BY <1>1
<1>3. \A i \in m + 1..m + n : b[i] \in S
  BY <1>1, <1>2
<1>4. PICK u : u = SubSeq(b, m + 1, m + n)
  OBVIOUS
<1>5. /\ u \in Seq(S)
      /\ Len(u) = IF m + 1 <= m + n THEN (m + n) - (m + 1) + 1 ELSE 0
      /\ \A i \in 1..(m + n) - (m + 1) + 1 : u[i] = b[(m + 1) + i - 1]
  <2>1. m + 1 \in Int /\ m + n \in Int
    OBVIOUS
  <2>. QED
    BY <1>3, <1>4, <2>1, SubSeqProperties
<1>6. Len(u) = n
  BY <1>5
<1>7. ASSUME NEW i \in 1..n
      PROVE  u[i] = t[i]
  <2>1. (m + n) - (m + 1) + 1 = n /\ (m + 1) + i - 1 = m + i
    OBVIOUS
  <2>2. u[i] = b[m + i] /\ b[m + i] = t[i]
    BY <1>2, <1>5, <2>1
  <2>. QED
    BY <2>2
<1>8. u = t
  <2>1. u \in [1..n -> S] /\ t \in [1..n -> S]
    BY <1>2, <1>5, <1>6, LenProperties
  <2>. QED
    BY <1>7, <2>1
<1>. QED
  BY <1>2, <1>4, <1>8

\* What is appended for an item are chars.
LEMMA AppendedType ==
  ASSUME Powers, NEW item \in Items
  PROVE  /\ Appended(item) \in Seq(Char)
         /\ item.type = "string" =>
              LET head == Chars(Len(item.value), Width["uint32"])
              IN  /\ Appended(item) = head \o item.value
                  /\ head \in Seq(Char) /\ Len(head) = Width["uint32"]
                  /\ item.value \in Seq(Char)
                  /\ Value("uint32", head) = Len(item.value)
         /\ item.type # "string" =>
              /\ Appended(item) = Chars(item.value, Width[item.type])
              /\ Len(Appended(item)) = Width[item.type]
              /\ Value(item.type, Appended(item)) = item.value
<1>1. CASE item.type = "string"
  <2>. DEFINE head == Chars(Len(item.value), Width["uint32"])
  <2>1. /\ Width["uint32"] \in Nat /\ item.value \in Seq(Char)
        /\ Len(item.value) \in 0..Base^Width["uint32"] - 1
    BY <1>1, ItemIs
  <2>2. PICK m \in Nat : m = Base^Width["uint32"]
    <3>1. Base^Width["uint32"] \in Nat
      BY <2>1, DigitPower
    <3>. QED
      BY <3>1
  <2>3. Len(item.value) \in Int /\ -(Base^Width["uint32"]) <= Len(item.value)
    <3>1. Len(item.value) \in 0..m - 1
      BY <2>1, <2>2, Zenon
    <3>2. Len(item.value) \in Int /\ -m <= Len(item.value)
      BY <3>1
    <3>. QED
      BY <2>2, <3>2, Zenon
  <2>4. head \in Seq(Char) /\ Len(head) = Width["uint32"]
    BY <2>1, <2>3, CharsType
  <2>5. Value("uint32", head) = Len(item.value)
    BY <2>1, UnsignedBack
  <2>6. Appended(item) = head \o item.value
    BY <1>1 DEF Appended
  <2>. HIDE DEF head
  <2>7. head \o item.value \in Seq(Char)
    BY <2>1, <2>4, ConcatProperties
  <2>. QED
    BY <1>1, <2>1, <2>4, <2>5, <2>6, <2>7 DEF head
<1>2. CASE item.type # "string"
  <2>1. Appended(item) = Chars(item.value, Width[item.type]) /\ Width[item.type] \in Nat
    BY <1>2, ItemIs DEF Appended
  <2>2. PICK m \in Nat : m = Base^Width[item.type]
    <3>1. Base^Width[item.type] \in Nat
      BY <2>1, DigitPower
    <3>. QED
      BY <3>1
  <2>3. CASE item.type = "int"
    <3>1. /\ item.value \in Int /\ -(Base^Width[item.type]) <= 2 * item.value
          /\ 2 * item.value < Base^Width[item.type]
      BY <2>3, ItemIs
    <3>2. -m <= item.value
      BY <2>2, <3>1
    <3>3. -(Base^Width[item.type]) <= item.value
      BY <2>2, <3>2, Zenon
    <3>4. Value("int", Chars(item.value, Width[item.type])) = item.value
      BY <2>1, <3>1, SignedBack
    <3>. QED
      BY <1>2, <2>1, <2>3, <3>1, <3>3, <3>4, CharsType
  <2>4. CASE item.type # "int"
    <3>1. item.type \in {"bool", "uint32", "uint64"}
      BY <1>2, <2>4, ItemIs
    <3>2. item.value \in 0..Base^Width[item.type] - 1
      BY <3>1, ItemIs
    <3>3. item.value \in 0..m - 1
      BY <2>2, <3>2, Zenon
    <3>4. item.value \in Int /\ -m <= item.value
      BY <3>3
    <3>5. -(Base^Width[item.type]) <= item.value
      BY <2>2, <3>4, Zenon
    <3>6. Value(item.type, Chars(item.value, Width[item.type])) = item.value
      BY <2>1, <2>4, <3>2, UnsignedBack
    <3>. QED
      BY <1>2, <2>1, <3>4, <3>5, <3>6, CharsType
  <2>. QED
    BY <2>3, <2>4
<1>. QED
  BY <1>1, <1>2

\* Where the chars of an item are, it is read, and no char more.
LEMMA ExtractGives ==
  ASSUME Powers, NEW item \in Items, buffer \in Seq(Char), offset \in Nat,
         offset + Len(Appended(item)) <= Len(buffer),
         \A k \in 1..Len(Appended(item)) : buffer[offset + k] = Appended(item)[k],
         Extract(item.type)
  PROVE  read' = Append(read, item) /\ offset' = offset + Len(Appended(item))
<1>1. item = [type |-> item.type, value |-> item.value]
  BY ItemIs
<1>2. CASE item.type = "string"
  <2>1. PICK head \in Seq(Char) :
          /\ Appended(item) = head \o item.value /\ Len(head) = Width["uint32"]
          /\ Value("uint32", head) = Len(item.value)
    BY <1>2, AppendedType
  <2>2. PICK s \in Seq(Char) : s = item.value
    BY <1>2, AppendedType
  <2>3. /\ Len(head) \in Nat /\ Len(s) \in Nat /\ Len(buffer) \in Nat
        /\ Len(Appended(item)) = Len(head) + Len(s)
        /\ \A i \in 1..Len(head) + Len(s) :
             Appended(item)[i] = IF i <= Len(head) THEN head[i] ELSE s[i - Len(head)]
    <3>1. Appended(item) = head \o s
      BY <2>1, <2>2, Zenon
    <3>2. Len(head) \in Nat /\ Len(s) \in Nat /\ Len(buffer) \in Nat
      BY LenProperties, Zenon
    <3>3. /\ Len(head \o s) = Len(head) + Len(s)
          /\ \A i \in 1..Len(head) + Len(s) :
               (head \o s)[i] = IF i <= Len(head) THEN head[i] ELSE s[i - Len(head)]
      BY ConcatProperties, Zenon
    <3>. QED
      BY <3>1, <3>2, <3>3, Zenon
  <2>4. PICK a \in Nat, n \in Nat, o \in Nat : a = Len(head) /\ n = Len(s) /\ o = offset
    BY <2>3
  <2>5. SubSeq(buffer, offset + 1, offset + Len(head)) = head
    <3>1. offset + Len(head) <= Len(buffer)
      BY <2>3
    <3>2. ASSUME NEW k \in 1..Len(head)
          PROVE  buffer[offset + k] = head[k]
      <4>1. k \in 1..Len(head) + Len(s) /\ k <= Len(head)
        BY <2>3
      <4>. QED
        BY <2>3, <4>1
    <3>. QED
      BY <3>1, <3>2, PartIs
  <2>6. SubSeq(buffer, (offset + Len(head)) + 1, (offset + Len(head)) + Len(s)) = s
    <3>1. (offset + Len(head)) + Len(s) <= Len(buffer) /\ offset + Len(head) \in Nat
      BY <2>3
    <3>2. ASSUME NEW k \in 1..Len(s)
          PROVE  buffer[(offset + Len(head)) + k] = s[k]
      <4>1. /\ Len(head) + k \in 1..Len(head) + Len(s) /\ ~(Len(head) + k <= Len(head))
            /\ (Len(head) + k) - Len(head) = k /\ (offset + Len(head)) + k = offset + (Len(head) + k)
        BY <2>3
      <4>. QED
        BY <2>3, <4>1
    <3>. QED
      BY <3>1, <3>2, PartIs
  <2>7. /\ read' = Append(read, [type |-> item.type,
                                 value |-> SubSeq(buffer, (offset + Len(head)) + 1, (offset + Len(head)) + Len(s))])
        /\ offset' = (offset + Len(head)) + Len(s)
    BY <1>2, <2>1, <2>2, <2>5 DEF Extract
  <2>8. (offset + Len(head)) + Len(s) = offset + Len(Appended(item))
    BY <2>3
  <2>. QED
    BY <1>1, <2>2, <2>6, <2>7, <2>8
<1>3. CASE item.type # "string"
  <2>1. /\ Appended(item) \in Seq(Char) /\ Len(Appended(item)) = Width[item.type]
        /\ Value(item.type, Appended(item)) = item.value
    BY <1>3, AppendedType
  <2>2. SubSeq(buffer, offset + 1, offset + Len(Appended(item))) = Appended(item)
    BY <2>1, PartIs
  <2>. QED
    BY <1>1, <1>3, <2>1, <2>2 DEF Extract
<1>. QED
  BY <1>2, <1>3

-----------------------------------------------------------------------------
\* A session.

\* at tells where the chars of each written item end, from 0 on to the end of the
\* buffer, and what each place holds.
Places(at) ==
  /\ at \in [0..Len(written) -> Nat]
  /\ at[0] = 0 /\ at[Len(written)] = Len(buffer)
  /\ \A i \in 1..Len(written) :
       /\ at[i] = at[i - 1] + Len(Appended(written[i])) /\ at[i] <= Len(buffer)
       /\ \A k \in 1..Len(Appended(written[i])) : buffer[at[i - 1] + k] = Appended(written[i])[k]

\* The buffer holds the written items, one behind the other; those read are the first
\* of them, and the offset is where the last of these ends.
SerialInv ==
  /\ written \in Seq(Items) /\ buffer \in Seq(Char)
  /\ read \in Seq(Items) /\ Len(read) <= Len(written)
  /\ \A i \in 1..Len(read) : read[i] = written[i]
  /\ \E at : Places(at) /\ offset = at[Len(read)]

\* The invariant holds before anything is written.
LEMMA SerialStart ==
  ASSUME SerialInit
  PROVE  SerialInv
<1>1. buffer = <<>> /\ written = <<>> /\ read = <<>> /\ offset = 0
  BY DEF SerialInit
<1>. DEFINE at == [i \in 0..0 |-> 0]
<1>2. Len(written) = 0 /\ Len(buffer) = 0 /\ Len(read) = 0 /\ 1..0 = {}
  BY <1>1
<1>3. at \in [0..0 -> Nat] /\ at[0] = 0
  OBVIOUS
<1>. HIDE DEF at
<1>4. Places(at)
  BY <1>2, <1>3 DEF Places
<1>5. written \in Seq(Items) /\ buffer \in Seq(Char) /\ read \in Seq(Items)
  BY <1>1
<1>. QED
  BY <1>1, <1>2, <1>3, <1>4, <1>5 DEF SerialInv

\* Write puts the chars of the item behind the others.
LEMMA WriteKeeps ==
  ASSUME Powers, SerialInv, NEW item \in Items, Write(item)
  PROVE  SerialInv'
<1>1. /\ buffer' = buffer \o Appended(item) /\ written' = Append(written, item)
      /\ read' = read /\ offset' = offset
  BY DEF Write
<1>2. PICK at : Places(at) /\ offset = at[Len(read)]
  BY DEF SerialInv
<1>3. PICK chars \in Seq(Char) : chars = Appended(item)
  BY AppendedType
<1>4. /\ written \in Seq(Items) /\ buffer \in Seq(Char) /\ read \in Seq(Items)
      /\ Len(read) <= Len(written) /\ \A i \in 1..Len(read) : read[i] = written[i]
  BY DEF SerialInv
<1>5. PICK n \in Nat, m \in Nat, l \in Nat, j \in Nat :
        n = Len(written) /\ m = Len(buffer) /\ l = Len(chars) /\ j = Len(read)
  <2>1. Len(written) \in Nat /\ Len(buffer) \in Nat /\ Len(chars) \in Nat /\ Len(read) \in Nat
    BY <1>4, LenProperties, Zenon
  <2>. QED
    BY <2>1
<1>6. /\ written' \in Seq(Items) /\ Len(written') = n + 1 /\ written'[n + 1] = item
      /\ \A i \in 1..n : written'[i] = written[i]
  BY <1>1, <1>4, <1>5, AppendProperties
<1>7. /\ buffer' \in Seq(Char) /\ Len(buffer') = m + l
      /\ \A i \in 1..m + l : buffer'[i] = IF i <= m THEN buffer[i] ELSE chars[i - m]
  BY <1>1, <1>3, <1>4, <1>5, ConcatProperties
<1>8. /\ at \in [0..n -> Nat] /\ at[0] = 0 /\ at[n] = m
      /\ \A i \in 1..n :
           /\ at[i] = at[i - 1] + Len(Appended(written[i])) /\ at[i] <= m
           /\ \A k \in 1..Len(Appended(written[i])) : buffer[at[i - 1] + k] = Appended(written[i])[k]
  BY <1>2, <1>5 DEF Places
<1>. DEFINE to == [i \in 0..n + 1 |-> IF i <= n THEN at[i] ELSE m + l]
<1>9. to \in [0..n + 1 -> Nat] /\ to[n + 1] = m + l /\ \A i \in 0..n : to[i] = at[i]
  <2>1. ASSUME NEW i \in 0..n + 1
        PROVE  (IF i <= n THEN at[i] ELSE m + l) \in Nat
    BY <1>8
  <2>2. n + 1 \in 0..n + 1 /\ ~(n + 1 <= n) /\ \A i \in 0..n : i \in 0..n + 1 /\ i <= n
    OBVIOUS
  <2>. QED
    BY <2>1, <2>2
<1>. HIDE DEF to
<1>10. ASSUME NEW i \in 1..n
       PROVE  /\ to[i] = to[i - 1] + Len(Appended(written'[i])) /\ to[i] <= m + l
              /\ \A k \in 1..Len(Appended(written'[i])) : buffer'[to[i - 1] + k] = Appended(written'[i])[k]
  <2>1. i \in 0..n /\ i - 1 \in 0..n /\ written'[i] = written[i]
    BY <1>6
  <2>2. PICK a \in Nat, c \in Nat, s \in Seq(Char) :
          /\ a = at[i - 1] /\ s = Appended(written[i]) /\ c = Len(s)
    <3>1. Appended(written[i]) \in Seq(Char)
      <4>1. written[i] \in Items
        BY <1>4, <1>5, LenProperties
      <4>. QED
        BY <4>1, AppendedType
    <3>2. Len(Appended(written[i])) \in Nat /\ at[i - 1] \in Nat
      BY <1>8, <2>1, <3>1
    <3>. QED
      BY <3>1, <3>2
  <2>3. at[i] = a + c /\ a + c <= m /\ to[i] = at[i] /\ to[i - 1] = a
    BY <1>8, <1>9, <2>1, <2>2
  <2>4. ASSUME NEW k \in 1..c
        PROVE  buffer'[a + k] = s[k]
    <3>1. a + k \in 1..m + l /\ a + k <= m
      BY <2>3
    <3>2. buffer'[a + k] = buffer[a + k]
      BY <1>7, <3>1
    <3>3. buffer[a + k] = s[k]
      BY <1>8, <2>2
    <3>. QED
      BY <3>2, <3>3
  <2>5. a + c <= m + l
    BY <2>3
  <2>. QED
    BY <2>1, <2>2, <2>3, <2>4, <2>5
<1>11. /\ to[n + 1] = to[n] + Len(Appended(written'[n + 1])) /\ to[n + 1] <= m + l
       /\ \A k \in 1..Len(Appended(written'[n + 1])) : buffer'[to[n] + k] = Appended(written'[n + 1])[k]
  <2>1. to[n] = m /\ to[n + 1] = m + l /\ Appended(written'[n + 1]) = chars
    BY <1>3, <1>6, <1>8, <1>9
  <2>2. ASSUME NEW k \in 1..l
        PROVE  buffer'[m + k] = chars[k]
    <3>1. m + k \in 1..m + l /\ ~(m + k <= m) /\ (m + k) - m = k
      OBVIOUS
    <3>. QED
      BY <1>7, <3>1
  <2>. QED
    BY <1>5, <2>1, <2>2
<1>12. Places(to)'
  <2>1. to[0] = 0
    BY <1>8, <1>9
  <2>2. ASSUME NEW i \in 1..n + 1
        PROVE  /\ to[i] = to[i - 1] + Len(Appended(written'[i])) /\ to[i] <= m + l
               /\ \A k \in 1..Len(Appended(written'[i])) : buffer'[to[i - 1] + k] = Appended(written'[i])[k]
    <3>1. CASE i \in 1..n
      BY <1>10, <3>1
    <3>2. CASE i = n + 1
      <4>1. i - 1 = n
        BY <3>2
      <4>. QED
        BY <1>11, <3>2, <4>1, Zenon
    <3>3. i \in 1..n \/ i = n + 1
      OBVIOUS
    <3>. QED
      BY <3>1, <3>2, <3>3
  <2>. QED
    BY <1>6, <1>7, <1>9, <2>1, <2>2 DEF Places
<1>13. offset' = to[Len(read')]
  <2>1. j \in 0..n
    BY <1>4, <1>5
  <2>. QED
    BY <1>1, <1>2, <1>5, <1>9, <2>1
<1>14. read' \in Seq(Items) /\ Len(read') <= Len(written') /\ \A i \in 1..Len(read') : read'[i] = written'[i]
  <2>1. j <= n /\ j <= n + 1 /\ \A i \in 1..j : i \in 1..n
    BY <1>4, <1>5
  <2>. QED
    BY <1>1, <1>4, <1>5, <1>6, <2>1
<1>. QED
  BY <1>6, <1>7, <1>12, <1>13, <1>14 DEF SerialInv

\* Read returns the next of the written items.
LEMMA ReadKeeps ==
  ASSUME Powers, SerialInv, Read
  PROVE  SerialInv'
<1>1. /\ Len(read) < Len(written) /\ Extract(written[Len(read) + 1].type)
      /\ buffer' = buffer /\ written' = written
  BY DEF Read
<1>2. PICK at : Places(at) /\ offset = at[Len(read)]
  BY DEF SerialInv
<1>3. /\ written \in Seq(Items) /\ buffer \in Seq(Char) /\ read \in Seq(Items)
      /\ Len(read) <= Len(written) /\ \A i \in 1..Len(read) : read[i] = written[i]
  BY DEF SerialInv
<1>4. PICK n \in Nat, m \in Nat, j \in Nat : n = Len(written) /\ m = Len(buffer) /\ j = Len(read)
  <2>1. Len(written) \in Nat /\ Len(buffer) \in Nat /\ Len(read) \in Nat
    BY <1>3, LenProperties, Zenon
  <2>. QED
    BY <2>1
<1>5. j \in 0..n /\ j + 1 \in 1..n /\ (j + 1) - 1 = j /\ j + 1 <= n
  BY <1>1, <1>4
<1>6. PICK item \in Items : item = written[j + 1]
  BY <1>3, <1>4, <1>5, LenProperties
<1>7. /\ at[j] \in Nat /\ at[j + 1] = at[j] + Len(Appended(item)) /\ at[j + 1] <= m
      /\ \A k \in 1..Len(Appended(item)) : buffer[at[j] + k] = Appended(item)[k]
  <2>1. /\ at \in [0..n -> Nat]
        /\ \A i \in 1..n :
             /\ at[i] = at[i - 1] + Len(Appended(written[i])) /\ at[i] <= m
             /\ \A k \in 1..Len(Appended(written[i])) : buffer[at[i - 1] + k] = Appended(written[i])[k]
    BY <1>2, <1>4 DEF Places
  <2>2. /\ at[j + 1] = at[(j + 1) - 1] + Len(Appended(written[j + 1])) /\ at[j + 1] <= m
        /\ \A k \in 1..Len(Appended(written[j + 1])) :
             buffer[at[(j + 1) - 1] + k] = Appended(written[j + 1])[k]
    BY <1>5, <2>1
  <2>. QED
    BY <1>5, <1>6, <2>1, <2>2
<1>8. read' = Append(read, item) /\ offset' = at[j + 1]
  <2>1. /\ offset \in Nat /\ offset + Len(Appended(item)) <= Len(buffer)
        /\ \A k \in 1..Len(Appended(item)) : buffer[offset + k] = Appended(item)[k]
        /\ Extract(item.type)
    BY <1>1, <1>2, <1>4, <1>6, <1>7
  <2>2. read' = Append(read, item) /\ offset' = offset + Len(Appended(item))
    BY <1>3, <2>1, ExtractGives
  <2>. QED
    BY <1>2, <1>4, <1>7, <2>2
<1>9. /\ read' \in Seq(Items) /\ Len(read') = j + 1 /\ read'[j + 1] = item
      /\ \A i \in 1..j : read'[i] = read[i]
  BY <1>3, <1>4, <1>8, AppendProperties
<1>10. ASSUME NEW i \in 1..j + 1
       PROVE  read'[i] = written'[i]
  <2>1. i \in 1..j \/ i = j + 1
    OBVIOUS
  <2>. QED
    BY <1>1, <1>3, <1>4, <1>6, <1>9, <2>1
<1>11. Places(at)'
  BY <1>1, <1>2 DEF Places
<1>12. /\ written' \in Seq(Items) /\ buffer' \in Seq(Char) /\ Len(read') <= Len(written')
       /\ offset' = at[Len(read')]
  BY <1>1, <1>3, <1>4, <1>5, <1>8, <1>9
<1>. QED
  BY <1>9, <1>10, <1>11, <1>12 DEF SerialInv

\* RoundTrip, in the invariant.
LEMMA InvReads ==
  ASSUME SerialInv
  PROVE  RoundTrip
<1>1. PICK at : Places(at) /\ offset = at[Len(read)]
  BY DEF SerialInv
<1>2. /\ written \in Seq(Items) /\ read \in Seq(Items)
      /\ Len(read) <= Len(written) /\ \A i \in 1..Len(read) : read[i] = written[i]
  BY DEF SerialInv
<1>3. Len(read) \in Nat /\ Len(written) \in Nat
  BY <1>2, LenProperties, Zenon
<1>4. SubSeq(read, 1, Len(read)) = read
  BY <1>2, SubSeqFull
<1>5. SubSeq(written, 1, Len(read)) = read
  <2>1. 0 + Len(read) <= Len(written) /\ \A k \in 1..Len(read) : written[0 + k] = read[k]
    BY <1>2, <1>3
  <2>2. SubSeq(written, 0 + 1, 0 + Len(read)) = read
    BY <1>2, <2>1, PartIs
  <2>. QED
    BY <1>3, <2>2
<1>6. IsPrefix(read, written)
  BY <1>2, <1>4, <1>5 DEF IsPrefix
<1>7. read = written => offset = Len(buffer)
  BY <1>1 DEF Places
<1>. QED
  BY <1>6, <1>7 DEF RoundTrip

\* The items come back in their order with the values that were written, signed numbers
\* and empty strings among them, for every base, every widths, any items, and buffers
\* of any length; a reader that has got all has consumed the buffer (operator<<,
\* operator>> and Append of serialize.h).
THEOREM ItemsReadBack ==
  ASSUME Powers
  PROVE  SerialSpec => []RoundTrip
<1>1. SerialInit => SerialInv
  BY SerialStart
<1>2. SerialInv /\ [SerialNext]_serialize => SerialInv'
  <2>1. SUFFICES ASSUME SerialInv, [SerialNext]_serialize
                 PROVE  SerialInv'
    OBVIOUS
  <2>2. CASE \E item \in Items : Write(item)
    BY <2>1, <2>2, WriteKeeps
  <2>3. CASE Read
    BY <2>1, <2>3, ReadKeeps
  <2>4. CASE UNCHANGED serialize
    <3>1. buffer' = buffer /\ written' = written /\ read' = read /\ offset' = offset
      BY <2>4 DEF serialize
    <3>2. ASSUME NEW at, Places(at)
          PROVE  Places(at)'
      BY <3>1, <3>2 DEF Places
    <3>. QED
      BY <2>1, <3>1, <3>2 DEF SerialInv
  <2>. QED
    BY <2>1, <2>2, <2>3, <2>4 DEF SerialNext
<1>3. SerialInv => RoundTrip
  BY InvReads
<1>. QED
  BY <1>1, <1>2, <1>3, PTL DEF SerialSpec

-----------------------------------------------------------------------------
-----------------------------------------------------------------------------
\* Quotients.

\* A quotient is told by the range of what is left.
LEMMA QuotientIs ==
  ASSUME NEW p \in Nat \ {0}, NEW q \in Nat, NEW v \in 0..p - 1
  PROVE  (q * p + v) \div p = q
<1>1. PICK t \in Nat : t = q * p + v
  <2>1. q * p \in Nat
    OBVIOUS
  <2>. QED
    BY <2>1
<1>2. t % p = v
  BY <1>1, RemainderIs
<1>3. t = p * (t \div p) + (t % p) /\ t \div p \in Nat
  BY SMT
<1>4. PICK d \in Nat : d = t \div p
  BY <1>3
<1>5. p * d = d * p
  OBVIOUS
<1>6. d * p = q * p
  <2>1. d * p \in Nat /\ q * p \in Nat
    BY <1>1
  <2>. QED
    BY <1>1, <1>2, <1>3, <1>4, <1>5, <2>1
<1>7. ~(d < q) /\ ~(q < d)
  <2>1. d < q => d * p + p <= q * p
    BY MultiplesApart
  <2>2. q < d => q * p + p <= d * p
    BY MultiplesApart
  <2>3. d * p \in Nat /\ q * p \in Nat
    OBVIOUS
  <2>. QED
    BY <1>6, <2>1, <2>2, <2>3
<1>. QED
  BY <1>1, <1>4, <1>7

\* Quotient and remainder, by name.
LEMMA Divided ==
  ASSUME NEW x \in Nat, NEW p \in Nat \ {0}
  PROVE  \E q \in Nat, v \in 0..p - 1 : x = q * p + v /\ q = x \div p /\ v = x % p
<1>1. x \div p \in Nat /\ x % p \in 0..p - 1 /\ x = p * (x \div p) + (x % p)
  BY SMT
<1>2. p * (x \div p) = (x \div p) * p
  BY <1>1
<1>. QED
  BY <1>1, <1>2

\* To divide by a product is to divide twice.
LEMMA DividedTwice ==
  ASSUME NEW x \in Nat, NEW a \in Nat \ {0}, NEW b \in Nat \ {0}
  PROVE  x \div (b * a) = (x \div a) \div b
<1>1. PICK q \in Nat, v \in 0..a - 1 : x = q * a + v /\ q = x \div a
  BY Divided
<1>2. PICK s \in Nat, t \in 0..b - 1 : q = s * b + t /\ s = q \div b
  BY Divided
<1>3. PICK m \in Nat \ {0} : m = b * a
  <2>1. b * a \in Nat \ {0}
    BY SMT
  <2>. QED
    BY <2>1
<1>4. PICK c \in Nat : c = t * a
  <2>1. t * a \in Nat
    BY <1>2
  <2>. QED
    BY <2>1
<1>5. c + a <= m
  <2>1. t \in Nat /\ b \in Nat /\ t < b
    OBVIOUS
  <2>. QED
    BY <1>3, <1>4, <2>1, MultiplesApart
<1>6. c + v \in 0..m - 1
  BY <1>3, <1>4, <1>5
<1>7. q * a = s * m + c
  <2>1. PICK k \in Nat : k = s * b
    <3>1. s * b \in Nat
      OBVIOUS
    <3>. QED
      BY <3>1
  <2>2. q * a = k * a + t * a
    BY <1>2, <2>1
  <2>3. k * a = s * m
    BY <1>3, <2>1
  <2>. QED
    BY <1>4, <2>2, <2>3
<1>8. s * m \in Nat
  BY <1>2, <1>3
<1>9. x = s * m + (c + v)
  BY <1>1, <1>4, <1>7, <1>8
<1>10. (s * m + (c + v)) \div m = s
  BY <1>2, <1>3, <1>6, QuotientIs
<1>11. x \div m = s
  BY <1>9, <1>10
<1>. QED
  BY <1>1, <1>2, <1>3, <1>11, Zenon

\* A multiple of an even number does not change whether a number is odd.
LEMMA OddStays ==
  ASSUME NEW q \in Nat, NEW c \in Nat, NEW s \in Nat
  PROVE  (q * (2 * c) + s) % 2 = s % 2
<1>1. PICK k \in Nat, b \in 0..1 : s = k * 2 + b /\ b = s % 2
  <2>1. \E k \in Nat, b \in 0..2 - 1 : s = k * 2 + b /\ k = s \div 2 /\ b = s % 2
    BY Divided
  <2>. QED
    BY <2>1
<1>2. PICK d \in Nat : d = q * c
  <2>1. q * c \in Nat
    OBVIOUS
  <2>. QED
    BY <2>1
<1>3. q * (2 * c) = 2 * d
  BY <1>2
<1>4. q * (2 * c) + s = (d + k) * 2 + b
  BY <1>1, <1>3
<1>5. ((d + k) * 2 + b) % 2 = b
  BY RemainderIs
<1>. QED
  BY <1>1, <1>4, <1>5

-----------------------------------------------------------------------------
\* Ones and zeros.

\* The bit at place k.
Bit(x, k) == (x \div 2^k) % 2

\* A power has a name.
LEMMA PowerName ==
  ASSUME Doubling, NEW n \in Nat
  PROVE  2^n \in Nat \ {0}
<1>1. 2^n \in Nat /\ n < 2^n
  BY PowerType, Zenon
<1>. QED
  BY <1>1

\* A higher power is a lower one times a power.
LEMMA PowerOver ==
  ASSUME Doubling, NEW k \in Nat, NEW n \in Nat, k <= n
  PROVE  2^n = 2^(n - k) * 2^k /\ n - k \in Nat
<1>1. n - k \in Nat /\ k + (n - k) = n
  OBVIOUS
<1>2. PICK d \in Nat : d = n - k /\ k + d = n
  BY <1>1
<1>3. 2^(k + d) = 2^d * 2^k
  BY PowerSplit
<1>. QED
  BY <1>2, <1>3

\* An even power is twice another.
LEMMA PowerEven ==
  ASSUME Doubling, NEW n \in Nat \ {0}
  PROVE  \E c \in Nat \ {0} : 2^n = 2 * c
<1>1. PICK m \in Nat : n = m + 1
  <2>1. n - 1 \in Nat /\ n = (n - 1) + 1
    OBVIOUS
  <2>. QED
    BY <2>1
<1>2. 2^(m + 1) = 2 * 2^m /\ 2^m \in Nat \ {0}
  BY PowerName DEF Doubling
<1>. QED
  BY <1>1, <1>2

\* A bit is 0 or 1.
LEMMA BitType ==
  ASSUME Doubling, NEW x \in Nat, NEW k \in Nat
  PROVE  Bit(x, k) \in {0, 1}
<1>1. PICK p \in Nat \ {0} : p = 2^k
  BY PowerName
<1>2. x \div p \in Nat
  BY SMT
<1>3. PICK d \in Nat : d = x \div p
  BY <1>2
<1>4. d % 2 \in {0, 1}
  OBVIOUS
<1>. QED
  BY <1>1, <1>3, <1>4 DEF Bit

\* The number up to the k-th bit is the number below it and the bit.
LEMMA OneBitMore ==
  ASSUME Doubling, NEW x \in Nat, NEW k \in Nat
  PROVE  x % 2^(k + 1) = (x % 2^k) + Bit(x, k) * 2^k
<1>1. PICK p \in Nat \ {0} : p = 2^k
  BY PowerName
<1>2. 2^(k + 1) = 2 * p
  BY <1>1 DEF Doubling
<1>3. PICK q \in Nat, v \in 0..p - 1 : x = q * p + v /\ q = x \div p /\ v = x % p
  BY Divided
<1>4. PICK t \in Nat, d \in 0..2 - 1 : q = t * 2 + d /\ d = q % 2
  BY Divided
<1>5. PICK c \in Nat : c = d * p /\ c <= p
  <2>1. d = 0 \/ d = 1
    OBVIOUS
  <2>2. d * p = IF d = 0 THEN 0 ELSE p
    BY <2>1
  <2>. QED
    BY <2>1, <2>2
<1>6. PICK m \in Nat \ {0} : m = 2 * p
  OBVIOUS
<1>7. q * p = t * m + c
  <2>1. q * p = (t * 2) * p + d * p
    BY <1>4
  <2>2. (t * 2) * p = t * m
    BY <1>6
  <2>. QED
    BY <1>5, <2>1, <2>2
<1>8. c + v \in 0..m - 1
  BY <1>5, <1>6
<1>9. t * m \in Nat
  BY <1>6
<1>10. x = t * m + (c + v)
  BY <1>3, <1>7, <1>9
<1>11. (t * m + (c + v)) % m = c + v
  BY <1>8, RemainderIs
<1>12. x % m = v + c
  BY <1>10, <1>11
<1>13. Bit(x, k) = d
  BY <1>1, <1>3, <1>4 DEF Bit
<1>. QED
  BY <1>1, <1>2, <1>3, <1>5, <1>6, <1>12, <1>13

\* A number without ones where the other has none is not larger.
LEMMA FewerOnes ==
  ASSUME Doubling, NEW n \in Nat, NEW x \in 0..2^n - 1, NEW y \in 0..2^n - 1,
         \A k \in 0..n - 1 : Bit(x, k) = 1 => Bit(y, k) = 1
  PROVE  x <= y
<1>1. PICK m \in Nat \ {0} : m = 2^n
  BY PowerName
<1>2. x \in 0..m - 1 /\ y \in 0..m - 1 /\ x \in Nat /\ y \in Nat
  BY <1>1
<1>. DEFINE S == {k \in Nat : k <= n => x % 2^k <= y % 2^k}
<1>3. 0 \in S
  <2>1. 2^0 = 1 /\ x % 1 = 0 /\ y % 1 = 0
    BY <1>2
  <2>. QED
    BY <2>1
<1>4. ASSUME NEW k \in S
      PROVE  k + 1 \in S
  <2>1. SUFFICES ASSUME k + 1 <= n
                 PROVE  x % 2^(k + 1) <= y % 2^(k + 1)
    OBVIOUS
  <2>2. k \in Nat /\ k \in 0..n - 1 /\ x % 2^k <= y % 2^k
    BY <2>1
  <2>3. PICK p \in Nat \ {0} : p = 2^k
    BY <2>2, PowerName
  <2>4. PICK a \in Nat, b \in Nat : a = x % p /\ b = y % p /\ a <= b
    <3>1. x % p \in Nat /\ y % p \in Nat
      BY <1>2
    <3>. QED
      BY <2>2, <2>3, <3>1
  <2>5. PICK c \in {0, 1}, d \in {0, 1} : c = Bit(x, k) /\ d = Bit(y, k) /\ (c = 1 => d = 1)
    BY <1>2, <2>2, BitType
  <2>6. x % 2^(k + 1) = a + c * p /\ y % 2^(k + 1) = b + d * p
    BY <1>2, <2>2, <2>3, <2>4, <2>5, OneBitMore
  <2>7. a + c * p <= b + d * p
    BY <2>4, <2>5
  <2>. QED
    BY <2>6, <2>7
<1>5. S = Nat
  <2>. HIDE DEF S
  <2>1. S \in SUBSET Nat
    BY DEF S
  <2>. QED
    BY <1>3, <1>4, <2>1, Induction
<1>6. n \in S
  <2>. HIDE DEF S
  <2>. QED
    BY <1>5
<1>7. x % m <= y % m
  BY <1>1, <1>6
<1>8. x % m = x /\ y % m = y
  <2>1. (0 * m + x) % m = x /\ (0 * m + y) % m = y
    BY <1>2, RemainderIs
  <2>. QED
    BY <1>2, <2>1
<1>. QED
  BY <1>7, <1>8

\* The bits of a quotient are the higher bits.
LEMMA BitOfQuotient ==
  ASSUME Doubling, NEW x \in Nat, NEW k \in Nat, NEW j \in Nat
  PROVE  Bit(x \div 2^k, j) = Bit(x, k + j)
<1>1. PICK p \in Nat \ {0}, b \in Nat \ {0} : p = 2^k /\ b = 2^j
  <2>1. 2^k \in Nat \ {0} /\ 2^j \in Nat \ {0}
    BY PowerName, Zenon
  <2>. QED
    BY <2>1
<1>2. 2^(k + j) = b * p
  BY <1>1, PowerSplit
<1>3. x \div (b * p) = (x \div p) \div b
  BY DividedTwice
<1>. QED
  BY <1>1, <1>2, <1>3 DEF Bit

\* The lower bits of a number are those of its remainder.
LEMMA BitOfRemainder ==
  ASSUME Doubling, NEW x \in Nat, NEW n \in Nat, NEW j \in Nat, j < n
  PROVE  Bit(x % 2^n, j) = Bit(x, j)
<1>1. PICK m \in Nat \ {0}, p \in Nat \ {0} : m = 2^n /\ p = 2^j
  <2>1. 2^n \in Nat \ {0} /\ 2^j \in Nat \ {0}
    BY PowerName, Zenon
  <2>. QED
    BY <2>1
<1>2. PICK c \in Nat \ {0} : m = (2 * c) * p
  <2>1. 2^n = 2^(n - j) * 2^j /\ n - j \in Nat \ {0}
    BY PowerOver
  <2>2. PICK c \in Nat \ {0} : 2^(n - j) = 2 * c
    BY <2>1, PowerEven
  <2>. QED
    BY <1>1, <2>1, <2>2
<1>3. PICK q \in Nat, z \in 0..m - 1 : x = q * m + z /\ z = x % m
  BY Divided
<1>4. PICK s \in Nat, v \in 0..p - 1 : z = s * p + v /\ s = z \div p
  <2>1. z \in Nat
    OBVIOUS
  <2>. QED
    BY <2>1, Divided
<1>5. PICK t \in Nat : t = q * (2 * c)
  <2>1. q * (2 * c) \in Nat
    OBVIOUS
  <2>. QED
    BY <2>1
<1>6. q * m = t * p
  BY <1>2, <1>5
<1>7. PICK a \in Nat, b \in Nat : a = t * p /\ b = s * p
  <2>1. t * p \in Nat /\ s * p \in Nat
    OBVIOUS
  <2>. QED
    BY <2>1
<1>8. (t + s) * p = a + b /\ t + s \in Nat
  BY <1>7
<1>9. x = (t + s) * p + v
  <2>1. x = a + z /\ z = b + v
    BY <1>3, <1>4, <1>6, <1>7, Zenon
  <2>2. x = (a + b) + v
    BY <2>1
  <2>. QED
    BY <1>8, <2>2
<1>10. x \div p = t + s
  BY <1>8, <1>9, QuotientIs
<1>11. (t + s) % 2 = s % 2
  BY <1>5, OddStays
<1>12. Bit(x, j) = s % 2
  BY <1>1, <1>10, <1>11 DEF Bit
<1>13. Bit(x % 2^n, j) = s % 2
  BY <1>1, <1>3, <1>4 DEF Bit
<1>. QED
  BY <1>12, <1>13

\* The complement has ones where the number has none.
LEMMA BitOfComplement ==
  ASSUME Doubling, NEW n \in Nat, NEW x \in 0..2^n - 1, NEW k \in 0..n - 1
  PROVE  Bit(2^n - 1 - x, k) = 1 - Bit(x, k)
<1>1. PICK m \in Nat \ {0}, p \in Nat \ {0} : m = 2^n /\ p = 2^k
  <2>1. k \in Nat
    OBVIOUS
  <2>2. 2^n \in Nat \ {0} /\ 2^k \in Nat \ {0}
    BY <2>1, PowerName, Zenon
  <2>. QED
    BY <2>2
<1>2. PICK c \in Nat \ {0} : m = (2 * c) * p
  <2>1. 2^n = 2^(n - k) * 2^k /\ n - k \in Nat \ {0}
    BY PowerOver
  <2>2. PICK c \in Nat \ {0} : 2^(n - k) = 2 * c
    BY <2>1, PowerEven
  <2>. QED
    BY <1>1, <2>1, <2>2
<1>3. x \in 0..m - 1 /\ x \in Nat
  BY <1>1
<1>4. PICK q \in Nat, v \in 0..p - 1 : x = q * p + v /\ q = x \div p
  BY <1>3, Divided
<1>5. q < 2 * c
  <2>1. SUFFICES ASSUME ~(q < 2 * c)
                 PROVE  FALSE
    OBVIOUS
  <2>2. 2 * c < q \/ 2 * c = q
    BY <2>1
  <2>3. 2 * c < q => (2 * c) * p + p <= q * p
    BY MultiplesApart
  <2>4. (2 * c) * p \in Nat /\ q * p \in Nat
    OBVIOUS
  <2>. QED
    BY <1>2, <1>3, <1>4, <2>2, <2>3, <2>4
<1>6. PICK d \in Nat : d = 2 * c - 1 - q
  BY <1>5
<1>7. p - 1 - v \in 0..p - 1
  OBVIOUS
<1>8. m - 1 - x = d * p + (p - 1 - v)
  <2>1. 2 * c = d + q + 1
    BY <1>6
  <2>2. (2 * c) * p = d * p + q * p + p
    BY <2>1
  <2>3. PICK a \in Nat, b \in Nat : a = d * p /\ b = q * p
    <3>1. d * p \in Nat /\ q * p \in Nat
      OBVIOUS
    <3>. QED
      BY <3>1
  <2>4. m = a + b + p /\ x = b + v
    BY <1>2, <1>4, <2>2, <2>3
  <2>5. m - 1 - x = a + (p - 1 - v)
    BY <2>4
  <2>. QED
    BY <2>3, <2>5
<1>9. (m - 1 - x) \div p = d
  BY <1>7, <1>8, QuotientIs
<1>10. d % 2 = 1 - (q % 2)
  BY <1>6
<1>. QED
  BY <1>1, <1>4, <1>9, <1>10 DEF Bit

-----------------------------------------------------------------------------
\* Octets.

\* The addresses.
Addresses == [1..Octets -> OctetValues]

\* The powers of the octets.
LEMMA OctetPower ==
  ASSUME Doubling, NEW m \in Nat
  PROVE  /\ OctetBits \in Nat \ {0} /\ Octets \in Nat \ {0}
         /\ OctetBits * m \in Nat /\ 2^(OctetBits * m) \in Nat \ {0} /\ 2^OctetBits \in Nat \ {0}
         /\ 2^(OctetBits * (m + 1)) = 2^OctetBits * 2^(OctetBits * m)
<1>1. OctetBits \in Nat \ {0} /\ Octets \in Nat \ {0}
  BY NetAssumption
<1>2. PICK b \in Nat \ {0}, t \in Nat : b = OctetBits /\ t = b * m
  <2>1. OctetBits * m \in Nat
    BY <1>1
  <2>. QED
    BY <1>1, <2>1
<1>3. b * (m + 1) = t + b
  BY <1>2
<1>4. 2^(t + b) = 2^b * 2^t /\ 2^t \in Nat \ {0} /\ 2^b \in Nat \ {0}
  <2>1. 2^(t + b) = 2^b * 2^t
    BY PowerSplit
  <2>2. 2^t \in Nat \ {0} /\ 2^b \in Nat \ {0}
    BY PowerName
  <2>. QED
    BY <2>1, <2>2
<1>. QED
  BY <1>1, <1>2, <1>3, <1>4

\* f[n] is the number that the first n octets make.
IsByte(f, octets) ==
  /\ f \in [0..Octets -> Nat] /\ f[0] = 0
  /\ \A n \in 0..Octets - 1 : f[n + 1] = f[n] * 2^OctetBits + octets[n + 1]

\* What HostByte computes from.
Rec(h, octets) == [n \in 0..Octets |-> IF n = 0 THEN 0 ELSE h[n - 1] * 2^OctetBits + octets[n]]

\* An address has one number.
LEMMA HostByteIs ==
  ASSUME Doubling, NEW octets \in Addresses
  PROVE  \E f : IsByte(f, octets) /\ HostByte(octets) = f[Octets]
<1>1. PICK N \in Nat \ {0}, D \in Nat \ {0} : N = Octets /\ D = 2^OctetBits
  <2>1. Octets \in Nat \ {0} /\ 2^OctetBits \in Nat \ {0}
    <3>1. 0 \in Nat
      OBVIOUS
    <3>. QED
      BY <3>1, OctetPower, Zenon
  <2>. QED
    BY <2>1
<1>2. \A i \in 1..N : octets[i] \in Nat
  <2>1. \A i \in 1..N : octets[i] \in 0..D - 1
    BY <1>1 DEF Addresses, OctetValues
  <2>. QED
    BY <2>1
<1>. DEFINE R(f, n) == /\ f \in [0..n -> Nat] /\ f[0] = 0
                       /\ \A i \in 0..n - 1 : f[i + 1] = f[i] * D + octets[i + 1]
<1>. DEFINE S == {n \in Nat : n <= N => \E f : R(f, n)}
<1>3. 0 \in S
  <2>. DEFINE f == [i \in 0..0 |-> 0]
  <2>1. f \in [0..0 -> Nat] /\ f[0] = 0 /\ 0..0 - 1 = {}
    OBVIOUS
  <2>. HIDE DEF f
  <2>2. R(f, 0)
    BY <2>1
  <2>. HIDE DEF R
  <2>. QED
    BY <2>2
<1>4. ASSUME NEW n \in S
      PROVE  n + 1 \in S
  <2>1. n \in Nat
    OBVIOUS
  <2>2. SUFFICES ASSUME n + 1 <= N
                 PROVE  \E f : R(f, n + 1)
    <3>. HIDE DEF R
    <3>1. n + 1 \in Nat
      BY <2>1
    <3>. QED
      BY <3>1
  <2>3. n <= N
    BY <2>1, <2>2
  <2>4. PICK f : R(f, n)
    <3>. HIDE DEF R
    <3>. QED
      BY <2>3
  <2>5. /\ f \in [0..n -> Nat] /\ f[0] = 0
        /\ \A i \in 0..n - 1 : f[i + 1] = f[i] * D + octets[i + 1]
    BY <2>4
  <2>6. PICK x \in Nat : x = f[n] * D + octets[n + 1]
    <3>1. f[n] \in Nat /\ octets[n + 1] \in Nat
      BY <1>2, <2>1, <2>2, <2>5
    <3>2. f[n] * D + octets[n + 1] \in Nat
      BY <3>1
    <3>. QED
      BY <3>2
  <2>. DEFINE g == [i \in 0..n + 1 |-> IF i = n + 1 THEN x ELSE f[i]]
  <2>7. g \in [0..n + 1 -> Nat] /\ g[n + 1] = x /\ \A i \in 0..n : g[i] = f[i]
    <3>1. \A i \in 0..n + 1 : i = n + 1 \/ i \in 0..n
      BY <2>1
    <3>2. n + 1 \in 0..n + 1 /\ \A i \in 0..n : i \in 0..n + 1 /\ i # n + 1
      BY <2>1
    <3>. QED
      BY <2>5, <3>1, <3>2
  <2>. HIDE DEF g
  <2>8. ASSUME NEW i \in 0..(n + 1) - 1
        PROVE  g[i + 1] = g[i] * D + octets[i + 1]
    <3>1. CASE i = n
      <4>1. g[i] = f[n]
        BY <2>1, <2>7, <3>1
      <4>. QED
        BY <2>6, <2>7, <3>1, <4>1
    <3>2. CASE i # n
      <4>1. i \in 0..n - 1 /\ i \in 0..n /\ i + 1 \in 0..n
        BY <2>1, <3>2
      <4>. QED
        BY <2>5, <2>7, <4>1
    <3>. QED
      BY <3>1, <3>2
  <2>9. g[0] = 0
    BY <2>1, <2>5, <2>7
  <2>10. R(g, n + 1)
    BY <2>7, <2>8, <2>9
  <2>. HIDE DEF R
  <2>. QED
    BY <2>10
<1>5. S = Nat
  <2>. HIDE DEF S
  <2>1. S \in SUBSET Nat
    BY DEF S
  <2>. QED
    BY <1>3, <1>4, <2>1, Induction
<1>6. PICK f : R(f, N)
  <2>1. N \in S
    <3>. HIDE DEF S
    <3>. QED
      BY <1>5
  <2>. HIDE DEF R
  <2>. QED
    BY <2>1
<1>7. /\ f \in [0..N -> Nat] /\ f[0] = 0
      /\ \A i \in 0..N - 1 : f[i + 1] = f[i] * D + octets[i + 1]
  BY <1>6
<1>. HIDE DEF R, S
<1>8. f = Rec(f, octets)
  <2>1. ASSUME NEW n \in 0..N
        PROVE  f[n] = IF n = 0 THEN 0 ELSE f[n - 1] * D + octets[n]
    <3>1. CASE n = 0
      BY <1>7, <3>1
    <3>2. CASE n # 0
      <4>1. PICK k \in 0..N - 1 : n = k + 1 /\ n - 1 = k
        <5>1. n - 1 \in 0..N - 1 /\ n = (n - 1) + 1
          BY <3>2
        <5>. QED
          BY <5>1
      <4>. QED
        BY <1>7, <3>2, <4>1
    <3>. QED
      BY <3>1, <3>2
  <2>. QED
    BY <1>1, <1>7, <2>1 DEF Rec
<1>9. PICK g : g = (CHOOSE h : h = Rec(h, octets)) /\ HostByte(octets) = g[N]
  BY <1>1 DEF HostByte, Rec
<1>10. g = Rec(g, octets)
  BY <1>8, <1>9
<1>11. g[0] = 0 /\ \A k \in 0..N - 1 : g[k + 1] = g[k] * D + octets[k + 1]
  <2>1. \A h : Rec(h, octets)[0] = 0
    BY <1>1 DEF Rec
  <2>2. ASSUME NEW h, NEW k \in 0..N - 1
        PROVE  Rec(h, octets)[k + 1] = h[k] * D + octets[k + 1]
    <3>1. k + 1 \in 0..N /\ (k + 1) - 1 = k /\ k + 1 # 0
      OBVIOUS
    <3>2. Rec(h, octets)[k + 1] = h[(k + 1) - 1] * D + octets[k + 1]
      BY <1>1, <3>1 DEF Rec
    <3>. QED
      BY <3>1, <3>2
  <2>. QED
    BY <1>10, <2>1, <2>2
<1>. DEFINE T == {n \in Nat : n <= N => g[n] = f[n]}
<1>12. 0 \in T
  BY <1>7, <1>11
<1>13. ASSUME NEW n \in T
       PROVE  n + 1 \in T
  <2>1. SUFFICES ASSUME n + 1 <= N
                 PROVE  g[n + 1] = f[n + 1]
    OBVIOUS
  <2>2. n \in Nat /\ n <= N /\ n \in 0..N - 1 /\ g[n] = f[n]
    BY <2>1
  <2>. HIDE DEF T
  <2>. QED
    BY <1>7, <1>11, <2>2
<1>14. T = Nat
  <2>. HIDE DEF T
  <2>1. T \in SUBSET Nat
    BY DEF T
  <2>. QED
    BY <1>12, <1>13, <2>1, Induction
<1>15. g[N] = f[N]
  <2>1. N \in T
    <3>. HIDE DEF T
    <3>. QED
      BY <1>14
  <2>. QED
    BY <2>1
<1>16. IsByte(f, octets)
  BY <1>1, <1>7 DEF IsByte
<1>. QED
  BY <1>1, <1>9, <1>15, <1>16

\* The octets make a number below the power of their bits, and are its digits.
LEMMA ByteDigits ==
  ASSUME Doubling, NEW octets \in Addresses, NEW f, IsByte(f, octets), NEW n \in 0..Octets
  PROVE  /\ f[n] \in 0..2^(OctetBits * n) - 1
         /\ \A i \in 1..n : (f[n] \div 2^(OctetBits * (n - i))) % 2^OctetBits = octets[i]
<1>1. PICK N \in Nat \ {0}, D \in Nat \ {0} : N = Octets /\ D = 2^OctetBits
  <2>1. Octets \in Nat \ {0} /\ 2^OctetBits \in Nat \ {0}
    <3>1. 0 \in Nat
      OBVIOUS
    <3>. QED
      BY <3>1, OctetPower, Zenon
  <2>. QED
    BY <2>1
<1>2. \A i \in 1..N : octets[i] \in 0..D - 1
  BY <1>1 DEF Addresses, OctetValues
<1>3. f \in [0..N -> Nat] /\ f[0] = 0 /\ \A k \in 0..N - 1 : f[k + 1] = f[k] * D + octets[k + 1]
  BY <1>1 DEF IsByte
<1>. DEFINE P(k) == /\ f[k] \in 0..2^(OctetBits * k) - 1
                    /\ \A i \in 1..k : (f[k] \div 2^(OctetBits * (k - i))) % D = octets[i]
<1>. DEFINE S == {k \in Nat : k <= N => P(k)}
<1>4. OctetBits * 0 = 0 /\ 2^0 = 1
  BY NetAssumption
<1>5. P(0)
  <2>1. 2^(OctetBits * 0) = 1
    BY <1>4
  <2>2. f[0] \in 0..2^(OctetBits * 0) - 1
    BY <1>3, <2>1
  <2>3. 1..0 = {}
    OBVIOUS
  <2>. QED
    BY <2>2, <2>3
<1>6. ASSUME NEW k \in Nat, k < N, P(k)
      PROVE  P(k + 1)
  <2>1. PICK p \in Nat \ {0} : p = 2^(OctetBits * k) /\ 2^(OctetBits * (k + 1)) = D * p
    <3>1. 2^(OctetBits * k) \in Nat \ {0} /\ 2^(OctetBits * (k + 1)) = D * 2^(OctetBits * k)
      BY <1>1, OctetPower
    <3>. QED
      BY <3>1
  <2>2. PICK x \in 0..p - 1, y \in 0..D - 1 : x = f[k] /\ y = octets[k + 1] /\ f[k + 1] = x * D + y
    <3>1. k \in 0..N - 1 /\ k + 1 \in 1..N
      BY <1>6
    <3>2. f[k] \in 0..p - 1
      BY <1>6, <2>1
    <3>. QED
      BY <1>2, <1>3, <3>1, <3>2
  <2>3. x * D + y \in 0..D * p - 1
    <3>1. x \in Nat /\ p \in Nat /\ x < p
      OBVIOUS
    <3>2. x * D + D <= p * D
      BY <3>1, MultiplesApart
    <3>3. PICK a \in Nat, m \in Nat : a = x * D /\ m = p * D /\ m = D * p
      <4>1. x * D \in Nat /\ p * D \in Nat /\ p * D = D * p
        BY <3>1
      <4>. QED
        BY <4>1
    <3>4. a + y \in 0..m - 1
      BY <3>2, <3>3
    <3>. QED
      BY <3>3, <3>4
  <2>4. ASSUME NEW i \in 1..k + 1
        PROVE  (f[k + 1] \div 2^(OctetBits * ((k + 1) - i))) % D = octets[i]
    <3>1. CASE i = k + 1
      <4>1. (k + 1) - i = 0
        BY <3>1
      <4>2. 2^(OctetBits * ((k + 1) - i)) = 1
        BY <1>4, <4>1
      <4>3. PICK z \in Nat : z = x * D + y
        BY <2>3
      <4>4. z \div 1 = z
        <5>1. (z * 1 + 0) \div 1 = z
          BY QuotientIs
        <5>. QED
          BY <5>1
      <4>5. (x * D + y) % D = y
        BY RemainderIs
      <4>. QED
        BY <2>2, <3>1, <4>2, <4>3, <4>4, <4>5
    <3>2. CASE i # k + 1
      <4>1. i \in 1..k /\ k - i \in Nat /\ (k + 1) - i = (k - i) + 1
        BY <3>2
      <4>2. PICK e \in Nat : e = k - i /\ (k + 1) - i = e + 1
        BY <4>1
      <4>3. PICK u \in Nat \ {0} : u = 2^(OctetBits * e) /\ 2^(OctetBits * (e + 1)) = D * u
        <5>1. 2^(OctetBits * e) \in Nat \ {0} /\ 2^(OctetBits * (e + 1)) = D * 2^(OctetBits * e)
          BY <1>1, OctetPower
        <5>. QED
          BY <5>1
      <4>4. PICK z \in Nat : z = x * D + y /\ z \div D = x
        <5>1. (x * D + y) \div D = x
          BY QuotientIs
        <5>. QED
          BY <2>3, <5>1
      <4>5. z \div (u * D) = (z \div D) \div u
        BY DividedTwice
      <4>6. u * D = D * u
        OBVIOUS
      <4>7. f[k + 1] \div 2^(OctetBits * ((k + 1) - i)) = x \div u
        BY <2>2, <4>2, <4>3, <4>4, <4>5, <4>6, Zenon
      <4>8. (f[k] \div 2^(OctetBits * (k - i))) % D = octets[i]
        BY <1>6, <4>1
      <4>. QED
        BY <2>2, <4>2, <4>3, <4>7, <4>8, Zenon
    <3>. QED
      BY <3>1, <3>2
  <2>5. f[k + 1] \in 0..2^(OctetBits * (k + 1)) - 1
    BY <2>1, <2>2, <2>3
  <2>. QED
    BY <2>4, <2>5
<1>7. ASSUME NEW k \in S
      PROVE  k + 1 \in S
  <2>1. k \in Nat /\ (k <= N => P(k))
    OBVIOUS
  <2>. HIDE DEF P
  <2>2. k + 1 <= N => P(k + 1)
    BY <1>6, <2>1
  <2>. QED
    BY <2>1, <2>2
<1>8. 0 \in S
  <2>. HIDE DEF P
  <2>. QED
    BY <1>5
<1>9. S = Nat
  <2>. HIDE DEF S
  <2>1. S \in SUBSET Nat
    BY DEF S
  <2>. QED
    BY <1>7, <1>8, <2>1, Induction
<1>10. P(n)
  <2>1. n \in Nat /\ n <= N
    BY <1>1
  <2>2. n \in S
    <3>. HIDE DEF S
    <3>. QED
      BY <1>9, <2>1
  <2>. HIDE DEF P
  <2>. QED
    BY <2>1, <2>2
<1>. QED
  BY <1>1, <1>10

\* The widths have names.
LEMMA Widths ==
  ASSUME Doubling
  PROVE  /\ Octets \in Nat \ {0} /\ OctetBits \in Nat \ {0} /\ 2^OctetBits \in Nat \ {0}
         /\ AddressBits \in Nat \ {0} /\ AddressBits = OctetBits * Octets
         /\ AddressSpace \in Nat \ {0} /\ AddressSpace = 2^AddressBits
<1>1. Octets \in Nat \ {0} /\ OctetBits \in Nat \ {0}
  BY NetAssumption
<1>2. /\ Octets * OctetBits \in Nat \ {0} /\ Octets * OctetBits = OctetBits * Octets
  BY <1>1
<1>3. AddressBits \in Nat \ {0} /\ AddressBits = OctetBits * Octets
  BY <1>2 DEF AddressBits
<1>4. 2^AddressBits \in Nat \ {0} /\ 2^OctetBits \in Nat \ {0}
  <2>1. AddressBits \in Nat /\ OctetBits \in Nat
    BY <1>1, <1>3
  <2>. QED
    BY <2>1, PowerName, Zenon
<1>. QED
  BY <1>1, <1>3, <1>4 DEF AddressSpace

\* What AsString shows are octets.
LEMMA StringType ==
  ASSUME Doubling, NEW x \in Nat
  PROVE  AsString(x) \in Addresses
<1>1. PICK D \in Nat \ {0} : D = 2^OctetBits
  BY Widths
<1>2. ASSUME NEW i \in 1..Octets
      PROVE  (x \div 2^(OctetBits * (Octets - i))) % D \in 0..D - 1
  <2>1. PICK e \in Nat : e = Octets - i
    <3>1. Octets - i \in Nat
      BY Widths
    <3>. QED
      BY <3>1
  <2>2. PICK p \in Nat \ {0} : p = 2^(OctetBits * e)
    BY OctetPower
  <2>3. (x \div p) % D \in 0..D - 1
    BY SMT
  <2>. QED
    BY <2>1, <2>2, <2>3
<1>. QED
  BY <1>1, <1>2 DEF AsString, Addresses, OctetValues

\* AsString undoes HostByte.
LEMMA StringOfByte ==
  ASSUME Doubling, NEW octets \in Addresses
  PROVE  HostByte(octets) \in 0..AddressSpace - 1 /\ AsString(HostByte(octets)) = octets
<1>1. PICK f : IsByte(f, octets) /\ HostByte(octets) = f[Octets]
  BY HostByteIs
<1>2. Octets \in 0..Octets
  BY Widths
<1>3. /\ f[Octets] \in 0..2^(OctetBits * Octets) - 1
      /\ \A i \in 1..Octets : (f[Octets] \div 2^(OctetBits * (Octets - i))) % 2^OctetBits = octets[i]
  BY <1>1, <1>2, ByteDigits
<1>4. octets = [i \in 1..Octets |-> octets[i]]
  BY DEF Addresses
<1>5. 2^(OctetBits * Octets) = AddressSpace
  BY Widths
<1>. QED
  BY <1>1, <1>3, <1>4, <1>5 DEF AsString

\* A place among the bits is a place in an octet.
LEMMA PlaceIn ==
  ASSUME Doubling, NEW m \in 0..Octets - 1, NEW j \in 0..OctetBits - 1
  PROVE  OctetBits * m + j \in 0..AddressBits - 1
<1>1. PICK N \in Nat \ {0}, B \in Nat \ {0} : N = Octets /\ B = OctetBits
  BY Widths
<1>2. m \in Nat /\ m < N
  BY <1>1
<1>3. m * B + B <= N * B
  BY <1>2, MultiplesApart
<1>4. PICK a \in Nat, b \in Nat : a = m * B /\ a = B * m /\ b = N * B /\ b = B * N
  <2>1. m * B \in Nat /\ m * B = B * m /\ N * B \in Nat /\ N * B = B * N
    BY <1>2
  <2>. QED
    BY <2>1
<1>5. a + j \in 0..b - 1
  BY <1>1, <1>3, <1>4
<1>6. AddressBits = b
  BY <1>1, <1>4, Widths
<1>. QED
  BY <1>1, <1>4, <1>5, <1>6

\* Every place is one.
LEMMA PlaceOf ==
  ASSUME Doubling, NEW k \in 0..AddressBits - 1
  PROVE  \E m \in 0..Octets - 1, j \in 0..OctetBits - 1 : k = OctetBits * m + j
<1>1. PICK N \in Nat \ {0}, B \in Nat \ {0} : N = Octets /\ B = OctetBits /\ AddressBits = B * N
  BY Widths
<1>2. k \in Nat
  OBVIOUS
<1>3. PICK m \in Nat, j \in 0..B - 1 : k = m * B + j
  BY <1>2, Divided
<1>4. m < N
  <2>1. SUFFICES ASSUME ~(m < N)
                 PROVE  FALSE
    OBVIOUS
  <2>2. N < m => N * B + B <= m * B
    BY MultiplesApart
  <2>3. N * B \in Nat /\ m * B \in Nat /\ N * B = B * N
    OBVIOUS
  <2>4. N * B <= m * B
    <3>1. N = m \/ N < m
      BY <2>1
    <3>. QED
      BY <2>2, <2>3, <3>1
  <2>. QED
    BY <1>1, <1>3, <2>3, <2>4
<1>5. m * B = B * m
  OBVIOUS
<1>6. m \in 0..N - 1
  BY <1>4
<1>. QED
  BY <1>1, <1>3, <1>5, <1>6

\* The bits of a digit of a number.
LEMMA BitOfDigit ==
  ASSUME Doubling, NEW x \in Nat, NEW m \in Nat, NEW j \in 0..OctetBits - 1
  PROVE  Bit((x \div 2^(OctetBits * m)) % 2^OctetBits, j) = Bit(x, OctetBits * m + j)
<1>1. PICK k \in Nat : k = OctetBits * m
  BY OctetPower
<1>2. j \in Nat /\ OctetBits \in Nat /\ j < OctetBits
  BY Widths
<1>3. PICK p \in Nat \ {0} : p = 2^k
  BY PowerName
<1>4. PICK y \in Nat : y = x \div p
  <2>1. x \div p \in Nat
    BY SMT
  <2>. QED
    BY <2>1
<1>5. Bit(y % 2^OctetBits, j) = Bit(y, j)
  BY <1>2, BitOfRemainder
<1>6. Bit(x \div 2^k, j) = Bit(x, k + j)
  BY <1>2, BitOfQuotient
<1>. QED
  BY <1>1, <1>3, <1>4, <1>5, <1>6, Zenon

\* htonl turns the octets round.
LEMMA BitOfSwap ==
  ASSUME Doubling, NEW x \in Nat
  PROVE  /\ htonl(x) \in 0..AddressSpace - 1
         /\ \A m \in 0..Octets - 1, j \in 0..OctetBits - 1 :
              Bit(htonl(x), OctetBits * m + j) = Bit(x, OctetBits * (Octets - 1 - m) + j)
<1>1. PICK N \in Nat \ {0} : N = Octets
  BY Widths
<1>2. AsString(x) \in Addresses
  BY StringType
<1>. DEFINE octets == Reverse(AsString(x))
<1>3. AsString(x) \in [1..N -> OctetValues] /\ Len(AsString(x)) = N
  BY <1>1, <1>2 DEF Addresses
<1>4. octets = [i \in 1..N |-> AsString(x)[(N - i) + 1]]
  BY <1>3 DEF Reverse
<1>5. octets \in Addresses
  <2>1. \A i \in 1..N : (N - i) + 1 \in 1..N
    OBVIOUS
  <2>. HIDE DEF octets
  <2>. QED
    BY <1>1, <1>3, <1>4, <2>1 DEF Addresses
<1>6. htonl(x) = HostByte(octets)
  BY DEF htonl, NetByte
<1>. HIDE DEF octets
<1>7. htonl(x) \in 0..AddressSpace - 1 /\ AsString(htonl(x)) = octets
  BY <1>5, <1>6, StringOfByte
<1>8. PICK y \in Nat : y = htonl(x)
  <2>1. htonl(x) \in Nat
    BY <1>7, Widths
  <2>. QED
    BY <2>1
<1>9. ASSUME NEW m \in 0..Octets - 1, NEW j \in 0..OctetBits - 1
      PROVE  Bit(y, OctetBits * m + j) = Bit(x, OctetBits * (Octets - 1 - m) + j)
  <2>1. PICK i \in 1..N, e \in Nat : i = N - m /\ e = N - 1 - m
    <3>1. N - m \in 1..N /\ N - 1 - m \in Nat
      BY <1>1
    <3>. QED
      BY <3>1
  <2>2. N - i = m /\ (N - i) + 1 \in 1..N /\ N - ((N - i) + 1) = e /\ m \in Nat
    BY <1>1, <2>1
  <2>3. AsString(y)[i] = (y \div 2^(OctetBits * m)) % 2^OctetBits
    BY <1>1, <2>2 DEF AsString
  <2>4. AsString(x)[(N - i) + 1] = (x \div 2^(OctetBits * e)) % 2^OctetBits
    BY <1>1, <2>2 DEF AsString
  <2>5. AsString(y)[i] = AsString(x)[(N - i) + 1]
    BY <1>4, <1>7, <1>8
  <2>6. Bit(AsString(y)[i], j) = Bit(y, OctetBits * m + j)
    BY <2>2, <2>3, BitOfDigit
  <2>7. Bit(AsString(x)[(N - i) + 1], j) = Bit(x, OctetBits * e + j)
    BY <2>4, BitOfDigit
  <2>. QED
    BY <1>1, <2>1, <2>5, <2>6, <2>7
<1>. QED
  BY <1>7, <1>8, <1>9

-----------------------------------------------------------------------------
\* Ranges.

\* A number is told by its ones.
LEMMA OnesTell ==
  ASSUME Doubling, NEW x \in 0..AddressSpace - 1, NEW y \in 0..AddressSpace - 1,
         \A k \in 0..AddressBits - 1 : Bit(x, k) = 1 => Bit(y, k) = 1
  PROVE  x <= y
<1>1. AddressBits \in Nat /\ AddressSpace = 2^AddressBits
  BY Widths
<1>. QED
  BY <1>1, FewerOnes

\* What | answers: the number that has the ones of both.
LEMMA OrIs ==
  ASSUME Doubling, NEW a \in Nat, NEW b \in Nat, NEW n \in 0..AddressSpace - 1,
         \A k \in 0..AddressBits - 1 : Bit(n, k) = 1 <=> Bit(a, k) = 1 \/ Bit(b, k) = 1
  PROVE  Or(a, b) = n
<1>1. \A x : Ones(x) = {k \in 0..AddressBits - 1 : Bit(x, k) = 1}
  BY DEF Ones, Bit
<1>2. Ones(n) = Ones(a) \union Ones(b)
  BY <1>1
<1>3. PICK m : m = Or(a, b)
  OBVIOUS
<1>4. m \in 0..AddressSpace - 1 /\ Ones(m) = Ones(a) \union Ones(b)
  BY <1>2, <1>3 DEF Or
<1>5. \A k \in 0..AddressBits - 1 : Bit(m, k) = 1 <=> Bit(n, k) = 1
  BY <1>1, <1>2, <1>4
<1>6. m <= n /\ n <= m
  BY <1>4, <1>5, OnesTell
<1>7. m \in Int /\ n \in Int
  BY <1>4, Widths
<1>. QED
  BY <1>3, <1>6, <1>7

\* What a mask leaves open.
LEMMA OpenBits ==
  ASSUME Doubling, NEW mask \in 0..AddressBits
  PROVE  /\ AddressBits - mask \in Nat /\ 2^(AddressBits - mask) - 1 \in 0..AddressSpace - 1
         /\ mask # 0 => /\ Shifted(mask) \in 0..AddressSpace - 1
                        /\ Complement(Shifted(mask)) = 2^(AddressBits - mask) - 1
         /\ Complement(0) = AddressSpace - 1
<1>1. PICK n \in Nat \ {0}, W \in Nat \ {0} : n = AddressBits /\ W = AddressSpace /\ W = 2^n
  BY Widths
<1>2. PICK k \in 0..n : k = n - mask
  <2>1. n - mask \in 0..n
    BY <1>1
  <2>. QED
    BY <2>1
<1>3. k \in Nat /\ (mask # 0 => k < n)
  BY <1>1, <1>2
<1>4. PICK p \in Nat \ {0} : p = 2^k
  BY <1>3, PowerName
<1>5. p <= W
  <2>1. CASE k = n
    BY <1>1, <1>4, <2>1
  <2>2. CASE k # n
    <3>1. 2 * 2^k <= 2^n
      BY <1>3, <2>2, PowerGrows
    <3>. QED
      BY <1>1, <1>4, <3>1
  <2>. QED
    BY <2>1, <2>2
<1>6. p - 1 \in 0..W - 1
  BY <1>5
<1>7. ASSUME mask # 0
      PROVE  Shifted(mask) = W - p
  <2>1. p * W = (p - 1) * W + W /\ (W - 1) * p = W * p - p /\ W * p = p * W
    OBVIOUS
  <2>2. PICK a \in Nat : a = (p - 1) * W
    <3>1. (p - 1) * W \in Nat
      OBVIOUS
    <3>. QED
      BY <3>1
  <2>3. (W - 1) * p = a + (W - p)
    BY <2>1, <2>2
  <2>4. W - p \in 0..W - 1 /\ p - 1 \in Nat
    BY <1>5
  <2>5. ((p - 1) * W + (W - p)) % W = W - p
    BY <2>4, RemainderIs
  <2>6. ((W - 1) * p) % W = W - p
    BY <2>2, <2>3, <2>5
  <2>. QED
    BY <1>1, <1>2, <1>4, <2>6 DEF Shifted
<1>8. W - p \in 0..W - 1 /\ W - 1 - (W - p) = p - 1 /\ W - 1 - 0 = W - 1
  BY <1>5
<1>. QED
  BY <1>1, <1>2, <1>3, <1>4, <1>6, <1>7, <1>8 DEF Complement

\* The number whose lower bits are all ones.
LEMMA BitOfFull ==
  ASSUME Doubling, NEW k \in Nat, NEW j \in Nat
  PROVE  Bit(2^k - 1, j) = IF j < k THEN 1 ELSE 0
<1>1. PICK m \in Nat \ {0}, p \in Nat \ {0} : m = 2^k /\ p = 2^j
  <2>1. 2^k \in Nat \ {0} /\ 2^j \in Nat \ {0}
    BY PowerName, Zenon
  <2>. QED
    BY <2>1
<1>2. CASE j < k
  <2>1. 2^k = 2^(k - j) * 2^j /\ k - j \in Nat \ {0}
    BY <1>2, PowerOver
  <2>2. PICK c \in Nat \ {0} : 2^(k - j) = 2 * c
    BY <2>1, PowerEven
  <2>3. PICK q \in Nat : q = 2 * c - 1 /\ q + 1 = 2 * c
    <3>1. 2 * c - 1 \in Nat /\ (2 * c - 1) + 1 = 2 * c
      OBVIOUS
    <3>. QED
      BY <3>1
  <2>4. m = q * p + p
    <3>1. m = (q + 1) * p
      BY <1>1, <2>1, <2>2, <2>3
    <3>2. (q + 1) * p = q * p + p
      OBVIOUS
    <3>. QED
      BY <3>1, <3>2
  <2>5. m - 1 = q * p + (p - 1) /\ p - 1 \in 0..p - 1
    <3>1. PICK a \in Nat : a = q * p
      <4>1. q * p \in Nat
        OBVIOUS
      <4>. QED
        BY <4>1
    <3>. QED
      BY <2>4, <3>1
  <2>6. (m - 1) \div p = q
    BY <2>5, QuotientIs
  <2>7. q % 2 = 1
    BY <2>3
  <2>. QED
    BY <1>1, <1>2, <2>6, <2>7 DEF Bit
<1>3. CASE ~(j < k)
  <2>1. m <= p
    <3>1. CASE j = k
      BY <1>1, <3>1
    <3>2. CASE j # k
      <4>1. 2 * 2^k <= 2^j
        BY <1>3, <3>2, PowerGrows
      <4>. QED
        BY <1>1, <4>1
    <3>. QED
      BY <3>1, <3>2
  <2>2. m - 1 \in 0..p - 1 /\ m - 1 = 0 * p + (m - 1)
    BY <2>1
  <2>3. (m - 1) \div p = 0
    <3>1. (0 * p + (m - 1)) \div p = 0
      BY <2>2, QuotientIs
    <3>. QED
      BY <2>2, <3>1
  <2>. QED
    BY <1>1, <1>3, <2>3 DEF Bit
<1>. QED
  BY <1>2, <1>3

\* The last number that shares with h what stands above the k-th bit.
LEMMA LastOf ==
  ASSUME Doubling, NEW h \in 0..AddressSpace - 1, NEW k \in 0..AddressBits
  PROVE  \E t \in 0..AddressSpace - 1 :
           /\ h <= t /\ t \div 2^k = h \div 2^k
           /\ \A n \in 0..AddressSpace - 1 : n \div 2^k = h \div 2^k => n <= t
           /\ \A j \in 0..AddressBits - 1 : Bit(t, j) = IF j < k THEN 1 ELSE Bit(h, j)
<1>1. PICK n \in Nat \ {0}, W \in Nat \ {0} : n = AddressBits /\ W = AddressSpace /\ W = 2^n
  BY Widths
<1>2. k \in Nat /\ k <= n /\ h \in Nat /\ h < W
  BY <1>1
<1>3. PICK p \in Nat \ {0}, u \in Nat \ {0} : p = 2^k /\ W = u * p
  <2>1. 2^n = 2^(n - k) * 2^k /\ n - k \in Nat
    BY <1>2, PowerOver
  <2>2. PICK e \in Nat : e = n - k
    BY <2>1
  <2>3. 2^k \in Nat \ {0} /\ 2^e \in Nat \ {0}
    BY <1>2, PowerName, Zenon
  <2>. QED
    BY <1>1, <2>1, <2>2, <2>3
<1>4. PICK q \in Nat, v \in 0..p - 1 : h = q * p + v /\ q = h \div p
  BY <1>2, Divided
<1>5. PICK a \in Nat : a = q * p
  <2>1. q * p \in Nat
    OBVIOUS
  <2>. QED
    BY <2>1
<1>6. q < u
  <2>1. SUFFICES ASSUME ~(q < u)
                 PROVE  FALSE
    OBVIOUS
  <2>2. u < q => u * p + p <= q * p
    BY MultiplesApart
  <2>3. u = q \/ u < q
    BY <2>1
  <2>. QED
    BY <1>2, <1>3, <1>4, <1>5, <2>2, <2>3
<1>7. a + p <= W
  BY <1>3, <1>5, <1>6, MultiplesApart
<1>8. PICK t \in 0..W - 1 : t = a + (p - 1)
  BY <1>7
<1>9. t = q * p + (p - 1) /\ p - 1 \in 0..p - 1 /\ t \in Nat
  BY <1>5, <1>8
<1>10. t \div p = q
  BY <1>9, QuotientIs
<1>11. h <= t
  BY <1>4, <1>5, <1>8
<1>12. ASSUME NEW i \in 0..W - 1, i \div p = q
       PROVE  i <= t
  <2>1. i \in Nat
    OBVIOUS
  <2>2. PICK d \in Nat, z \in 0..p - 1 : i = d * p + z /\ d = i \div p
    BY <2>1, Divided
  <2>3. i = a + z
    BY <1>5, <1>12, <2>2
  <2>. QED
    BY <1>8, <2>3
<1>13. ASSUME NEW j \in 0..n - 1
       PROVE  Bit(t, j) = IF j < k THEN 1 ELSE Bit(h, j)
  <2>1. j \in Nat
    OBVIOUS
  <2>2. CASE j < k
    <3>1. t % p = p - 1
      BY <1>9, RemainderIs
    <3>2. Bit(t % 2^k, j) = Bit(t, j)
      BY <1>2, <1>9, <2>1, <2>2, BitOfRemainder
    <3>3. Bit(2^k - 1, j) = 1
      BY <1>2, <2>1, <2>2, BitOfFull
    <3>. QED
      BY <1>3, <2>2, <3>1, <3>2, <3>3
  <2>3. CASE ~(j < k)
    <3>1. PICK e \in Nat : j = k + e
      <4>1. j - k \in Nat /\ j = k + (j - k)
        BY <1>2, <2>1, <2>3
      <4>. QED
        BY <4>1
    <3>2. Bit(t \div 2^k, e) = Bit(t, k + e) /\ Bit(h \div 2^k, e) = Bit(h, k + e)
      BY <1>2, <1>9, BitOfQuotient
    <3>. QED
      BY <1>3, <1>4, <1>10, <2>3, <3>1, <3>2
  <2>. QED
    BY <2>2, <2>3
<1>14. t \div 2^k = h \div 2^k
  BY <1>3, <1>4, <1>10, Zenon
<1>15. ASSUME NEW i \in 0..AddressSpace - 1, i \div 2^k = h \div 2^k
       PROVE  i <= t
  <2>1. i \div p = q
    BY <1>3, <1>4, <1>15, Zenon
  <2>2. i \in 0..W - 1
    BY <1>1
  <2>. QED
    BY <1>12, <2>1, <2>2
<1>16. \A j \in 0..AddressBits - 1 : Bit(t, j) = IF j < k THEN 1 ELSE Bit(h, j)
  BY <1>1, <1>13
<1>17. t \in 0..AddressSpace - 1
  BY <1>1
<1>. QED
  BY <1>11, <1>14, <1>15, <1>16, <1>17, Zenon

\* htonl swaps ones with ones: of a number with the ones of two it makes one with the
\* ones of the two that it makes of them.
LEMMA SwapOr ==
  ASSUME Doubling, NEW h \in Nat, NEW t \in Nat, NEW c \in Nat, NEW d \in Nat,
         \A k \in 0..AddressBits - 1 : Bit(t, k) = 1 <=> Bit(h, k) = 1 \/ Bit(c, k) = 1,
         \A m \in 0..Octets - 1, j \in 0..OctetBits - 1 :
           Bit(d, OctetBits * m + j) = Bit(c, OctetBits * (Octets - 1 - m) + j)
  PROVE  Or(htonl(h), d) = htonl(t) /\ htonl(h) <= htonl(t)
<1>1. PICK a \in 0..AddressSpace - 1, b \in 0..AddressSpace - 1 : a = htonl(h) /\ b = htonl(t)
  BY BitOfSwap
<1>2. ASSUME NEW k \in 0..AddressBits - 1
      PROVE  Bit(b, k) = 1 <=> Bit(a, k) = 1 \/ Bit(d, k) = 1
  <2>1. PICK m \in 0..Octets - 1, j \in 0..OctetBits - 1 : k = OctetBits * m + j
    BY PlaceOf
  <2>2. PICK e \in 0..Octets - 1 : e = Octets - 1 - m
    <3>1. Octets - 1 - m \in 0..Octets - 1
      BY Widths
    <3>. QED
      BY <3>1
  <2>3. PICK i \in 0..AddressBits - 1 : i = OctetBits * e + j
    BY PlaceIn
  <2>4. Bit(a, k) = Bit(h, i) /\ Bit(b, k) = Bit(t, i)
    BY <1>1, <2>1, <2>2, <2>3, BitOfSwap
  <2>5. Bit(d, k) = Bit(c, i)
    BY <2>1, <2>2, <2>3
  <2>. QED
    BY <2>3, <2>4, <2>5
<1>3. a \in Nat
  BY Widths
<1>4. Or(a, d) = b
  BY <1>2, <1>3, OrIs
<1>5. a <= b
  BY <1>2, OnesTell
<1>. QED
  BY <1>1, <1>4, <1>5

\* The two forms of a block.
LEMMA Block ==
  ASSUME Doubling, NEW octets \in Addresses, NEW mask \in 0..AddressBits
  PROVE  LET head == HostByte(octets)
             host == AsHostBlock(octets, mask)
         IN  /\ host.head = head /\ host.status
             /\ host.tail = Max({n \in 0..(AddressSpace - 1) :
                                   n \div 2^(AddressBits - mask) = head \div 2^(AddressBits - mask)})
             /\ AsNetBlock(octets, mask) =
                  [head |-> htonl(host.head), tail |-> htonl(host.tail), status |-> TRUE]
<1>1. PICK h \in 0..AddressSpace - 1 : h = HostByte(octets) /\ AsString(h) = octets
  BY StringOfByte
<1>2. PICK k \in 0..AddressBits : k = AddressBits - mask
  <2>1. AddressBits - mask \in 0..AddressBits
    BY Widths
  <2>. QED
    BY <2>1
<1>3. k \in Nat /\ h \in Nat /\ mask \in Nat
  BY Widths
<1>4. PICK t \in 0..AddressSpace - 1 :
        /\ h <= t /\ t \div 2^k = h \div 2^k
        /\ \A n \in 0..AddressSpace - 1 : n \div 2^k = h \div 2^k => n <= t
        /\ \A j \in 0..AddressBits - 1 : Bit(t, j) = IF j < k THEN 1 ELSE Bit(h, j)
  BY LastOf
<1>5. t \in Nat
  BY Widths
<1>6. PICK c \in Nat : c = 2^k - 1
  <2>1. 2^k \in Nat \ {0}
    BY <1>3, PowerName
  <2>2. 2^k - 1 \in Nat
    BY <2>1
  <2>. QED
    BY <2>2
<1>7. \A j \in 0..AddressBits - 1 : Bit(c, j) = IF j < k THEN 1 ELSE 0
  <2>1. \A j \in 0..AddressBits - 1 : j \in Nat
    OBVIOUS
  <2>. QED
    BY <1>3, <1>6, <2>1, BitOfFull
<1>8. \A j \in 0..AddressBits - 1 : Bit(t, j) = 1 <=> Bit(h, j) = 1 \/ Bit(c, j) = 1
  BY <1>4, <1>7
<1>9. Or(h, c) = t
  BY <1>3, <1>6, <1>8, OrIs
<1>10. c = Complement(IF mask = 0 THEN 0 ELSE Shifted(mask))
  <2>1. CASE mask = 0
    <3>1. k = AddressBits /\ AddressSpace = 2^AddressBits
      BY <1>2, <2>1, Widths
    <3>. QED
      BY <1>6, <2>1, <3>1, OpenBits
  <2>2. CASE mask # 0
    BY <1>2, <1>6, <2>2, OpenBits
  <2>. QED
    BY <2>1, <2>2
<1>11. AsHostBlock(octets, mask) = [head |-> h, tail |-> t, status |-> TRUE]
  BY <1>1, <1>4, <1>9, <1>10 DEF AsHostBlock, Span
<1>12. Max({n \in 0..(AddressSpace - 1) : n \div 2^k = h \div 2^k}) = t
  <2>. DEFINE S == {n \in 0..AddressSpace - 1 : n \div 2^k = h \div 2^k}
  <2>1. t \in S /\ \A n \in S : n <= t /\ n \in Int
    BY <1>4
  <2>. HIDE DEF S
  <2>2. PICK m : m = Max(S)
    OBVIOUS
  <2>3. m \in S /\ \A n \in S : m >= n
    BY <2>1, <2>2 DEF Max
  <2>4. m = t
    BY <2>1, <2>3
  <2>. QED
    BY <2>2, <2>4 DEF S
<1>13. NetByte(octets) = htonl(h)
  BY <1>1 DEF htonl
<1>14. PICK d \in 0..AddressSpace - 1 : d = Complement(IF mask = 0 THEN 0 ELSE htonl(Shifted(mask)))
  <2>1. CASE mask = 0
    BY <2>1, OpenBits, Widths DEF Complement
  <2>2. CASE mask # 0
    <3>1. PICK x \in 0..AddressSpace - 1 : x = htonl(Shifted(mask))
      <4>1. Shifted(mask) \in Nat
        BY <2>2, OpenBits, Widths
      <4>. QED
        BY <4>1, BitOfSwap
    <3>2. AddressSpace - 1 - x \in 0..AddressSpace - 1
      BY Widths
    <3>. QED
      BY <2>2, <3>1, <3>2 DEF Complement
  <2>. QED
    BY <2>1, <2>2
<1>15. d \in Nat
  BY Widths
<1>16. ASSUME NEW m \in 0..Octets - 1, NEW j \in 0..OctetBits - 1
       PROVE  Bit(d, OctetBits * m + j) = Bit(c, OctetBits * (Octets - 1 - m) + j)
  <2>1. PICK e \in 0..Octets - 1 : e = Octets - 1 - m
    <3>1. Octets - 1 - m \in 0..Octets - 1
      BY Widths
    <3>. QED
      BY <3>1
  <2>2. PICK i \in 0..AddressBits - 1, l \in 0..AddressBits - 1 : i = OctetBits * e + j /\ l = OctetBits * m + j
    BY PlaceIn
  <2>3. AddressBits \in Nat /\ AddressSpace = 2^AddressBits
    BY Widths
  <2>4. CASE mask = 0
    <3>1. d = 2^AddressBits - 1 /\ c = 2^AddressBits - 1
      BY <1>10, <1>14, <2>3, <2>4, OpenBits
    <3>2. Bit(2^AddressBits - 1, l) = 1 /\ Bit(2^AddressBits - 1, i) = 1
      <4>1. i \in Nat /\ l \in Nat /\ i < AddressBits /\ l < AddressBits
        BY <2>3
      <4>. QED
        BY <2>3, <4>1, BitOfFull
    <3>. QED
      BY <2>1, <2>2, <3>1, <3>2
  <2>5. CASE mask # 0
    <3>1. PICK s \in 0..AddressSpace - 1 : s = Shifted(mask) /\ s \in Nat
      BY <2>5, OpenBits, Widths
    <3>2. PICK x \in 0..AddressSpace - 1 : x = htonl(s)
      BY <3>1, BitOfSwap
    <3>3. Bit(x, l) = Bit(s, i)
      BY <2>1, <2>2, <3>1, <3>2, BitOfSwap
    <3>4. d = 2^AddressBits - 1 - x /\ c = 2^AddressBits - 1 - s
      BY <1>10, <1>14, <2>3, <2>5, <3>1, <3>2 DEF Complement
    <3>5. Bit(d, l) = 1 - Bit(x, l) /\ Bit(c, i) = 1 - Bit(s, i)
      BY <2>3, <3>4, BitOfComplement
    <3>. QED
      BY <2>1, <2>2, <3>3, <3>5
  <2>. QED
    BY <2>4, <2>5
<1>17. Or(htonl(h), d) = htonl(t) /\ htonl(h) <= htonl(t)
  <2>1. h \in Nat /\ t \in Nat /\ c \in Nat /\ d \in Nat
    BY <1>3, <1>5, <1>15
  <2>2. Doubling
    OBVIOUS
  <2>. QED
    BY ONLY <2>1, <2>2, <1>8, <1>16, SwapOr
<1>18. AsNetBlock(octets, mask) = [head |-> htonl(h), tail |-> htonl(t), status |-> TRUE]
  BY <1>13, <1>14, <1>17 DEF AsNetBlock, Span
<1>. QED
  BY <1>1, <1>2, <1>4, <1>11, <1>12, <1>18

\* Numbers are in the order of their octets.
LEMMA OctetOrder ==
  ASSUME Doubling, NEW first \in Addresses, NEW last \in Addresses
  PROVE  HostByte(first) <= HostByte(last) <=> FirstOctetFirst(first, last)
<1>1. PICK N \in Nat \ {0}, D \in Nat \ {0} : N = Octets /\ D = 2^OctetBits
  BY Widths
<1>2. PICK f, g : /\ IsByte(f, first) /\ HostByte(first) = f[N]
                  /\ IsByte(g, last) /\ HostByte(last) = g[N]
  BY <1>1, HostByteIs
<1>3. /\ f \in [0..N -> Nat] /\ f[0] = 0 /\ \A k \in 0..N - 1 : f[k + 1] = f[k] * D + first[k + 1]
      /\ g \in [0..N -> Nat] /\ g[0] = 0 /\ \A k \in 0..N - 1 : g[k + 1] = g[k] * D + last[k + 1]
  BY <1>1, <1>2 DEF IsByte
<1>4. \A i \in 1..N : first[i] \in 0..D - 1 /\ last[i] \in 0..D - 1
  BY <1>1 DEF Addresses, OctetValues
<1>. DEFINE Same(k) == \A j \in 1..k : first[j] = last[j]
            Less(k) == \E i \in 1..k : first[i] < last[i] /\ \A j \in 1..(i - 1) : first[j] = last[j]
            P(k) == (f[k] < g[k] <=> Less(k)) /\ (f[k] = g[k] <=> Same(k))
            S == {k \in Nat : k <= N => P(k)}
<1>5. P(0)
  <2>1. 1..0 = {} /\ f[0] = 0 /\ g[0] = 0
    BY <1>3
  <2>. QED
    BY <2>1
<1>6. ASSUME NEW k \in Nat, k < N, P(k)
      PROVE  P(k + 1)
  <2>1. PICK a \in 0..D - 1, b \in 0..D - 1, x \in Nat, y \in Nat :
          /\ a = first[k + 1] /\ b = last[k + 1] /\ x = f[k] /\ y = g[k]
          /\ f[k + 1] = x * D + a /\ g[k + 1] = y * D + b
    <3>1. k \in 0..N - 1 /\ k + 1 \in 1..N /\ k \in 0..N
      BY <1>6
    <3>. QED
      BY <1>3, <1>4, <3>1
  <2>2. /\ x < y => x * D + D <= y * D
        /\ y < x => y * D + D <= x * D
        /\ x * D \in Nat /\ y * D \in Nat
    BY MultiplesApart
  <2>3. x * D + a < y * D + b <=> x < y \/ (x = y /\ a < b)
    <3>1. x < y \/ x = y \/ y < x
      OBVIOUS
    <3>. QED
      BY <2>2, <3>1
  <2>4. x * D + a = y * D + b <=> x = y /\ a = b
    <3>1. x < y \/ x = y \/ y < x
      OBVIOUS
    <3>. QED
      BY <2>2, <3>1
  <2>5. /\ \A j \in 1..k + 1 : j \in 1..k \/ j = k + 1
        /\ \A j \in 1..k : j \in 1..k + 1
        /\ k + 1 \in 1..k + 1 /\ (k + 1) - 1 = k
    OBVIOUS
  <2>6. Same(k + 1) <=> Same(k) /\ a = b
    BY <2>1, <2>5
  <2>7. Less(k + 1) <=> Less(k) \/ (Same(k) /\ a < b)
    <3>1. ASSUME NEW i \in 1..k + 1, first[i] < last[i], \A j \in 1..(i - 1) : first[j] = last[j]
          PROVE  Less(k) \/ (Same(k) /\ a < b)
      <4>1. CASE i \in 1..k
        BY <3>1, <4>1
      <4>2. CASE i = k + 1
        BY <2>1, <2>5, <3>1, <4>2
      <4>. QED
        BY <2>5, <4>1, <4>2
    <3>2. Less(k) => Less(k + 1)
      BY <2>5
    <3>3. Same(k) /\ a < b => Less(k + 1)
      BY <2>1, <2>5
    <3>. QED
      BY <3>1, <3>2, <3>3
  <2>. HIDE DEF Same, Less
  <2>. QED
    BY <1>6, <2>1, <2>3, <2>4, <2>6, <2>7
<1>. HIDE DEF P
<1>7. 0 \in S
  BY <1>5
<1>8. ASSUME NEW k \in S
      PROVE  k + 1 \in S
  <2>1. k \in Nat /\ (k <= N => P(k))
    OBVIOUS
  <2>2. k + 1 <= N => P(k + 1)
    BY <1>6, <2>1
  <2>. QED
    BY <2>1, <2>2
<1>9. S = Nat
  <2>. HIDE DEF S
  <2>1. S \in SUBSET Nat
    BY DEF S
  <2>. QED
    BY <1>7, <1>8, <2>1, Induction
<1>10. P(N)
  <2>1. N \in S
    <3>. HIDE DEF S
    <3>. QED
      BY <1>9
  <2>. QED
    BY <2>1
<1>11. Same(N) <=> first = last
  <2>1. first \in [1..N -> OctetValues] /\ last \in [1..N -> OctetValues]
    BY <1>1 DEF Addresses
  <2>. QED
    BY <2>1
<1>12. f[N] \in Nat /\ g[N] \in Nat
  BY <1>3
<1>13. f[N] <= g[N] <=> f[N] < g[N] \/ f[N] = g[N]
  BY <1>12
<1>. HIDE DEF Same
<1>. QED
  BY <1>1, <1>2, <1>10, <1>11, <1>13 DEF P, FirstOctetFirst

\* An address with its octets the other way round.
LEMMA Reversed ==
  ASSUME NEW octets \in Addresses
  PROVE  /\ Reverse(octets) \in Addresses
         /\ \A i \in 1..Octets : Reverse(octets)[i] = octets[(Octets - i) + 1]
<1>1. PICK N \in Nat \ {0} : N = Octets
  BY NetAssumption
<1>2. octets \in [1..N -> OctetValues] /\ Len(octets) = N
  BY <1>1 DEF Addresses
<1>3. Reverse(octets) = [i \in 1..N |-> octets[(N - i) + 1]]
  BY <1>2 DEF Reverse
<1>4. \A i \in 1..N : (N - i) + 1 \in 1..N
  OBVIOUS
<1>. QED
  BY <1>1, <1>2, <1>3, <1>4 DEF Addresses

\* The swapped numbers of two addresses are in the order of the octets from the last.
LEMMA SwappedOrder ==
  ASSUME Doubling, NEW first \in Addresses, NEW last \in Addresses
  PROVE  NetByte(first) <= NetByte(last) <=> LastOctetFirst(first, last)
<1>1. PICK N \in Nat \ {0} : N = Octets
  BY NetAssumption
<1>2. PICK a \in Addresses, b \in Addresses : a = Reverse(first) /\ b = Reverse(last)
  BY Reversed
<1>3. \A i \in 1..N : a[i] = first[(N - i) + 1] /\ b[i] = last[(N - i) + 1]
  BY <1>1, <1>2, Reversed
<1>4. \A i \in 1..N : (N - i) + 1 \in 1..N /\ (N - ((N - i) + 1)) + 1 = i
  OBVIOUS
<1>5. \A i \in 1..N : first[i] = a[(N - i) + 1] /\ last[i] = b[(N - i) + 1]
  BY <1>3, <1>4
<1>6. a = b <=> first = last
  <2>1. a \in [1..N -> OctetValues] /\ b \in [1..N -> OctetValues]
    BY <1>1 DEF Addresses
  <2>2. first \in [1..N -> OctetValues] /\ last \in [1..N -> OctetValues]
    BY <1>1 DEF Addresses
  <2>3. a = b => first = last
    BY <1>5, <2>2
  <2>4. first = last => a = b
    BY <1>3, <2>1
  <2>. QED
    BY <2>3, <2>4
<1>7. ASSUME NEW i \in 1..N, a[i] < b[i], \A j \in 1..(i - 1) : a[j] = b[j]
      PROVE  \E k \in 1..N : first[k] < last[k] /\ \A j \in (k + 1)..N : first[j] = last[j]
  <2>1. PICK k \in 1..N : k = (N - i) + 1
    BY <1>4
  <2>2. first[k] < last[k]
    BY <1>3, <1>7, <2>1
  <2>3. ASSUME NEW j \in (k + 1)..N
        PROVE  first[j] = last[j]
    <3>1. j \in 1..N /\ (N - j) + 1 \in 1..(i - 1)
      BY <2>1
    <3>. QED
      BY <1>5, <1>7, <3>1
  <2>. QED
    BY <2>2, <2>3
<1>8. ASSUME NEW k \in 1..N, first[k] < last[k], \A j \in (k + 1)..N : first[j] = last[j]
      PROVE  \E i \in 1..N : a[i] < b[i] /\ \A j \in 1..(i - 1) : a[j] = b[j]
  <2>1. PICK i \in 1..N : i = (N - k) + 1
    BY <1>4
  <2>2. a[i] < b[i]
    BY <1>5, <1>8, <2>1
  <2>3. ASSUME NEW j \in 1..(i - 1)
        PROVE  a[j] = b[j]
    <3>1. j \in 1..N /\ (N - j) + 1 \in (k + 1)..N
      BY <2>1
    <3>. QED
      BY <1>3, <1>8, <3>1
  <2>. QED
    BY <2>2, <2>3
<1>9. HostByte(a) <= HostByte(b) <=> FirstOctetFirst(a, b)
  BY OctetOrder
<1>10. FirstOctetFirst(a, b) <=> LastOctetFirst(first, last)
  BY <1>1, <1>6, <1>7, <1>8 DEF FirstOctetFirst, LastOctetFirst
<1>. QED
  BY <1>2, <1>9, <1>10 DEF NetByte

\* The ranges of addresses.  For any number of octets of any width: a block a.b.c.d/e
\* runs from the address given, which is not masked, to the last one that shares its
\* first e bits, a mask of 0 included, and its net form is the same with the octets
\* swapped; two ends written out are accepted in host form when their octets are in order
\* from the first, and in net form when they are in order from the last, since the
\* swapped numbers are compared (AsHostByte, AsNetByte and AsString of net.cpp).
THEOREM RangesAgree ==
  ASSUME Doubling
  PROVE  NetSpec => []BlockAgrees
<1>. DEFINE Inv == address = <<>> \/ address \in Addresses
<1>1. NetInit => Inv
  BY DEF NetInit
<1>2. Inv /\ [Choose]_address => Inv'
  BY DEF Choose, Addresses
<1>3. Inv => BlockAgrees
  <2>1. SUFFICES ASSUME address \in Addresses
                 PROVE  BlockAgrees
    BY DEF BlockAgrees
  <2>2. AsString(HostByte(address)) = address
    BY <2>1, StringOfByte
  <2>3. ASSUME NEW mask \in -1..(AddressBits + 1)
        PROVE  LET host == AsHostBlock(address, mask)
                   net == AsNetBlock(address, mask)
                   head == HostByte(address)
               IN  IF mask \in 0..AddressBits
                   THEN /\ host.head = head /\ host.status
                        /\ host.tail = Max({n \in 0..(AddressSpace - 1) :
                                              n \div 2^(AddressBits - mask) = head \div 2^(AddressBits - mask)})
                        /\ net = [head |-> htonl(host.head), tail |-> htonl(host.tail), status |-> TRUE]
                   ELSE host = Refused /\ net = Refused
    <3>1. CASE mask \in 0..AddressBits
      BY <2>1, <3>1, Block
    <3>2. CASE mask \notin 0..AddressBits
      BY <3>2 DEF AsHostBlock, AsNetBlock
    <3>. QED
      BY <3>1, <3>2
  <2>4. ASSUME NEW last \in Addresses
        PROVE  LET host == AsHostRange(address, last)
                   net == AsNetRange(address, last)
               IN  /\ host.status <=> FirstOctetFirst(address, last)
                   /\ net.status <=> LastOctetFirst(address, last)
                   /\ net.head = htonl(host.head) /\ net.tail = htonl(host.tail)
    <3>1. /\ AsHostRange(address, last).status <=> HostByte(address) <= HostByte(last)
          /\ AsHostRange(address, last).head = HostByte(address)
          /\ AsHostRange(address, last).tail = HostByte(last)
      BY DEF AsHostRange, Span
    <3>2. /\ AsNetRange(address, last).status <=> NetByte(address) <= NetByte(last)
          /\ AsNetRange(address, last).head = NetByte(address)
          /\ AsNetRange(address, last).tail = NetByte(last)
      BY DEF AsNetRange, Span
    <3>3. htonl(HostByte(address)) = NetByte(address) /\ htonl(HostByte(last)) = NetByte(last)
      BY <2>1, <2>4, StringOfByte DEF htonl
    <3>4. HostByte(address) <= HostByte(last) <=> FirstOctetFirst(address, last)
      BY <2>1, OctetOrder
    <3>5. NetByte(address) <= NetByte(last) <=> LastOctetFirst(address, last)
      BY <2>1, SwappedOrder
    <3>. QED
      BY <3>1, <3>2, <3>3, <3>4, <3>5, Zenon
  <2>. QED
    BY <2>2, <2>3, <2>4 DEF BlockAgrees, Addresses
<1>. QED
  BY <1>1, <1>2, <1>3, PTL DEF NetSpec

-----------------------------------------------------------------------------
-----------------------------------------------------------------------------
\* Walks over the places of a text.

\* Induction from the last place to the first.
LEMMA Downwards ==
  ASSUME NEW n \in Nat, NEW P, n + 1 \in P,
         \A j \in 1..n : (\A i \in j + 1..n + 1 : i \in P) => j \in P
  PROVE  \A j \in 1..n + 1 : j \in P
<1>. DEFINE S == {m \in Nat : m <= n => \A i \in n + 1 - m..n + 1 : i \in P}
<1>1. 0 \in S
  <2>1. \A i \in n + 1 - 0..n + 1 : i = n + 1
    OBVIOUS
  <2>. QED
    BY <2>1
<1>2. ASSUME NEW m \in S
      PROVE  m + 1 \in S
  <2>1. m \in Nat /\ (m <= n => \A i \in n + 1 - m..n + 1 : i \in P)
    OBVIOUS
  <2>2. CASE m + 1 <= n
    <3>1. n - m \in 1..n /\ \A i \in (n - m) + 1..n + 1 : i \in P
      BY <2>1, <2>2
    <3>2. n - m \in P
      BY <3>1
    <3>3. \A i \in n + 1 - (m + 1)..n + 1 : i = n - m \/ i \in (n - m) + 1..n + 1
      BY <2>1
    <3>4. \A i \in n + 1 - (m + 1)..n + 1 : i \in P
      BY <3>1, <3>2, <3>3
    <3>. QED
      BY <2>1, <3>4
  <2>3. CASE ~(m + 1 <= n)
    BY <2>1, <2>3
  <2>. QED
    BY <2>2, <2>3
<1>3. S = Nat
  <2>. HIDE DEF S
  <2>1. S \in SUBSET Nat
    BY DEF S
  <2>. QED
    BY <1>1, <1>2, <2>1, Induction
<1>4. \A i \in n + 1 - n..n + 1 : i \in P
  <2>1. n \in S
    <3>. HIDE DEF S
    <3>. QED
      BY <1>3
  <2>. QED
    BY <2>1
<1>. QED
  BY <1>4

\* next leads from each place to one behind it.
Leads(n, next) == next \in [1..n -> 2..n + 1] /\ \A j \in 1..n : j < next[j]

\* head gives each place a sequence; line gives each place an element.
Heads(n, head, S) == head \in [1..n -> Seq(S)]

Elements(n, line, S) == line \in [1..n -> S]

\* f puts head before what it gives to the next place, down to the end.
Grows(f, n, next, head, S) ==
  /\ f \in [1..n + 1 -> Seq(S)] /\ f[n + 1] = <<>>
  /\ \A j \in 1..n : f[j] = head[j] \o f[next[j]]

Adds(f, n, next, line) ==
  f[n + 1] = <<>> /\ \A j \in 1..n : f[j] = <<line[j]>> \o f[next[j]]

\* The places met from the first to the end.
Meets(m, cut, n, next) ==
  /\ cut \in [1..m + 1 -> 1..n + 1] /\ cut[1] = 1 /\ cut[m + 1] = n + 1
  /\ \A i \in 1..m : cut[i] \in 1..n /\ cut[i + 1] = next[cut[i]]

\* s is what lies between the cuts of t.
Parts(s, t, m, cut) ==
  /\ cut \in [1..m + 1 -> 1..Len(t) + 1] /\ cut[1] = 1 /\ cut[m + 1] = Len(t) + 1
  /\ \A i \in 1..m : cut[i] <= cut[i + 1]
  /\ s = [i \in 1..m |-> SubSeq(t, cut[i], cut[i + 1] - 1)]

\* A function that puts something before what it is behind, all the way down.
LEMMA Walk ==
  ASSUME NEW S, NEW n \in Nat, NEW next, Leads(n, next), NEW head, Heads(n, head, S)
  PROVE  \E f : Grows(f, n, next, head, S)
<1>. USE DEF Leads, Heads
<1>. DEFINE R(f, m) == /\ f \in [m..n + 1 -> Seq(S)] /\ f[n + 1] = <<>>
                       /\ \A j \in m..n : f[j] = head[j] \o f[next[j]]
<1>. DEFINE P == {m \in 1..n + 1 : \E f : R(f, m)}
<1>1. n + 1 \in P
  <2>. DEFINE f == [i \in n + 1..n + 1 |-> <<>>]
  <2>1. f \in [n + 1..n + 1 -> Seq(S)] /\ f[n + 1] = <<>> /\ n + 1..n = {}
    <3>1. <<>> \in Seq(S)
      BY EmptySeq
    <3>. QED
      BY <3>1
  <2>. HIDE DEF f
  <2>2. R(f, n + 1)
    BY <2>1
  <2>. HIDE DEF R
  <2>. QED
    BY <2>2
<1>2. ASSUME NEW m \in 1..n, \A i \in m + 1..n + 1 : i \in P
      PROVE  m \in P
  <2>1. m + 1 \in P
    <3>. HIDE DEF P
    <3>1. m + 1 \in m + 1..n + 1
      OBVIOUS
    <3>. QED
      BY <1>2, <3>1
  <2>2. PICK f : R(f, m + 1)
    <3>. HIDE DEF R
    <3>. QED
      BY <2>1
  <2>3. /\ f \in [m + 1..n + 1 -> Seq(S)] /\ f[n + 1] = <<>>
        /\ \A j \in m + 1..n : f[j] = head[j] \o f[next[j]]
    BY <2>2
  <2>4. next[m] \in m + 1..n + 1 /\ head[m] \in Seq(S)
    OBVIOUS
  <2>5. PICK x \in Seq(S) : x = head[m] \o f[next[m]]
    <3>1. head[m] \o f[next[m]] \in Seq(S)
      <4>1. f[next[m]] \in Seq(S)
        BY <2>3, <2>4
      <4>. QED
        BY <2>4, <4>1, ConcatProperties
    <3>. QED
      BY <3>1
  <2>. DEFINE g == [i \in m..n + 1 |-> IF i = m THEN x ELSE f[i]]
  <2>6. g \in [m..n + 1 -> Seq(S)] /\ g[m] = x /\ \A i \in m + 1..n + 1 : g[i] = f[i]
    <3>1. \A i \in m..n + 1 : i = m \/ i \in m + 1..n + 1
      OBVIOUS
    <3>2. m \in m..n + 1 /\ \A i \in m + 1..n + 1 : i \in m..n + 1 /\ i # m
      OBVIOUS
    <3>. QED
      BY <2>3, <3>1, <3>2
  <2>. HIDE DEF g
  <2>7. ASSUME NEW j \in m..n
        PROVE  g[j] = head[j] \o g[next[j]]
    <3>1. next[j] \in m + 1..n + 1 /\ (j = m \/ j \in m + 1..n)
      OBVIOUS
    <3>2. g[next[j]] = f[next[j]]
      BY <2>6, <3>1
    <3>3. CASE j = m
      BY <2>5, <2>6, <3>2, <3>3
    <3>4. CASE j \in m + 1..n
      <4>1. g[j] = f[j]
        BY <2>6, <3>4
      <4>. QED
        BY <2>3, <3>2, <3>4, <4>1
    <3>. QED
      BY <3>1, <3>3, <3>4
  <2>8. R(g, m)
    <3>1. g[n + 1] = <<>>
      BY <2>3, <2>6
    <3>. QED
      BY <2>6, <2>7, <3>1
  <2>. HIDE DEF R
  <2>. QED
    BY <2>8
<1>3. 1 \in P
  <2>. HIDE DEF P
  <2>1. \A j \in 1..n + 1 : j \in P
    BY <1>1, <1>2, Downwards
  <2>. QED
    BY <2>1
<1>4. PICK f : R(f, 1)
  <2>. HIDE DEF R
  <2>. QED
    BY <1>3
<1>5. Grows(f, n, next, head, S)
  BY <1>4 DEF Grows
<1>. QED
  BY <1>5

\* A walk from the first place meets places one behind the other, to the end.
LEMMA Cuts ==
  ASSUME NEW n \in Nat, NEW next, Leads(n, next)
  PROVE  \E m \in Nat : \E cut : Meets(m, cut, n, next)
<1>. USE DEF Leads
<1>. DEFINE R(m, cut, b) == /\ m \in Nat /\ cut \in [1..m + 1 -> 1..n + 1]
                            /\ cut[1] = b /\ cut[m + 1] = n + 1
                            /\ \A i \in 1..m : cut[i] \in 1..n /\ cut[i + 1] = next[cut[i]]
<1>. DEFINE P == {b \in 1..n + 1 : \E m, cut : R(m, cut, b)}
<1>1. n + 1 \in P
  <2>. DEFINE cut == [i \in 1..1 |-> n + 1]
  <2>1. 0 \in Nat /\ 0 + 1 = 1 /\ 1..0 = {} /\ cut \in [1..1 -> 1..n + 1] /\ cut[1] = n + 1
    OBVIOUS
  <2>. HIDE DEF cut
  <2>2. R(0, cut, n + 1)
    BY <2>1
  <2>. HIDE DEF R
  <2>. QED
    BY <2>2
<1>2. ASSUME NEW b \in 1..n, \A i \in b + 1..n + 1 : i \in P
      PROVE  b \in P
  <2>1. next[b] \in b + 1..n + 1
    OBVIOUS
  <2>2. next[b] \in P
    <3>. HIDE DEF P
    <3>. QED
      BY <1>2, <2>1
  <2>3. PICK m, c : R(m, c, next[b])
    <3>. HIDE DEF R
    <3>. QED
      BY <2>2
  <2>4. /\ m \in Nat /\ c \in [1..m + 1 -> 1..n + 1]
        /\ c[1] = next[b] /\ c[m + 1] = n + 1
        /\ \A i \in 1..m : c[i] \in 1..n /\ c[i + 1] = next[c[i]]
    BY <2>3
  <2>. DEFINE d == [i \in 1..(m + 1) + 1 |-> IF i = 1 THEN b ELSE c[i - 1]]
  <2>5. d \in [1..(m + 1) + 1 -> 1..n + 1] /\ d[1] = b
        /\ \A i \in 2..(m + 1) + 1 : d[i] = c[i - 1]
    <3>1. \A i \in 1..(m + 1) + 1 : i = 1 \/ i - 1 \in 1..m + 1
      BY <2>4
    <3>2. 1 \in 1..(m + 1) + 1 /\ \A i \in 2..(m + 1) + 1 : i \in 1..(m + 1) + 1 /\ i # 1
      BY <2>4
    <3>. QED
      BY <2>4, <3>1, <3>2
  <2>. HIDE DEF d
  <2>6. d[(m + 1) + 1] = n + 1
    <3>1. (m + 1) + 1 \in 2..(m + 1) + 1 /\ ((m + 1) + 1) - 1 = m + 1
      BY <2>4
    <3>. QED
      BY <2>4, <2>5, <3>1
  <2>7. ASSUME NEW i \in 1..m + 1
        PROVE  d[i] \in 1..n /\ d[i + 1] = next[d[i]]
    <3>1. i + 1 \in 2..(m + 1) + 1 /\ (i + 1) - 1 = i
      BY <2>4
    <3>2. d[i + 1] = c[i]
      BY <2>5, <3>1
    <3>3. CASE i = 1
      BY <2>4, <2>5, <3>2, <3>3
    <3>4. CASE i # 1
      <4>1. i - 1 \in 1..m /\ (i - 1) + 1 = i /\ i \in 2..(m + 1) + 1
        BY <2>4, <3>4
      <4>2. d[i] = c[i - 1] /\ c[(i - 1) + 1] = next[c[i - 1]] /\ c[i - 1] \in 1..n
        BY <2>4, <2>5, <4>1
      <4>. QED
        BY <3>2, <4>1, <4>2
    <3>. QED
      BY <3>3, <3>4
  <2>8. R(m + 1, d, b)
    BY <2>4, <2>5, <2>6, <2>7
  <2>. HIDE DEF R
  <2>. QED
    BY <2>8
<1>3. 1 \in P
  <2>. HIDE DEF P
  <2>1. \A j \in 1..n + 1 : j \in P
    BY <1>1, <1>2, Downwards
  <2>. QED
    BY <2>1
<1>4. PICK m, cut : R(m, cut, 1)
  <2>. HIDE DEF R
  <2>. QED
    BY <1>3
<1>5. m \in Nat /\ Meets(m, cut, n, next)
  BY <1>4 DEF Meets
<1>. QED
  BY <1>5

\* A function on the first places is a sequence.
LEMMA ListIs ==
  ASSUME NEW S, NEW m \in Nat, NEW s, Elements(m, s, S)
  PROVE  s \in Seq(S) /\ Len(s) = m
<1>1. s \in [1..m -> S]
  BY DEF Elements
<1>2. s \in Seq(S)
  BY <1>1, SeqDef
<1>. QED
  BY <1>1, <1>2, LenProperties

\* What such a function that adds one element at a time makes of a walk.
LEMMA Strung ==
  ASSUME NEW n \in Nat, NEW m \in Nat, NEW next, Leads(n, next), NEW cut, Meets(m, cut, n, next),
         NEW S, NEW line, Elements(n, line, S), NEW f, Adds(f, n, next, line)
  PROVE  f[1] = [i \in 1..m |-> line[cut[i]]]
<1>. /\ next \in [1..n -> 2..n + 1]
     /\ cut \in [1..m + 1 -> 1..n + 1] /\ cut[1] = 1 /\ cut[m + 1] = n + 1
     /\ \A i \in 1..m : cut[i] \in 1..n /\ cut[i + 1] = next[cut[i]]
     /\ line \in [1..n -> S] /\ f[n + 1] = <<>>
     /\ \A j \in 1..n : f[j] = <<line[j]>> \o f[next[j]]
  BY DEF Leads, Meets, Elements, Adds
<1>. DEFINE Rest(k) == [i \in 1..m + 1 - k |-> line[cut[k + i - 1]]]
<1>. DEFINE P == {k \in 1..m + 1 : f[cut[k]] = Rest(k)}
<1>1. m + 1 \in P
  <2>1. m + 1 - (m + 1) = 0 /\ 1..0 = {}
    OBVIOUS
  <2>2. Rest(m + 1) = <<>>
    BY <2>1
  <2>. QED
    BY <2>2
<1>2. ASSUME NEW k \in 1..m, \A i \in k + 1..m + 1 : i \in P
      PROVE  k \in P
  <2>1. f[cut[k + 1]] = Rest(k + 1)
    <3>1. k + 1 \in P
      <4>. HIDE DEF P
      <4>1. k + 1 \in k + 1..m + 1
        OBVIOUS
      <4>. QED
        BY <1>2, <4>1
    <3>. QED
      BY <3>1
  <2>2. f[cut[k]] = <<line[cut[k]]>> \o Rest(k + 1)
    <3>. HIDE DEF Rest, P
    <3>1. cut[k] \in 1..n /\ cut[k + 1] = next[cut[k]]
      OBVIOUS
    <3>2. f[cut[k]] = <<line[cut[k]]>> \o f[next[cut[k]]]
      BY <3>1
    <3>. QED
      BY <2>1, <3>1, <3>2
  <2>3. \A i \in 1..m : line[cut[i]] \in S
    OBVIOUS
  <2>4. PICK rest \in Seq(S) : /\ rest = Rest(k + 1) /\ Len(rest) = m - k
                            /\ \A i \in 1..m - k : rest[i] = line[cut[k + i]]
    <3>1. m + 1 - (k + 1) = m - k /\ m - k \in Nat
      OBVIOUS
    <3>2. \A i \in 1..m - k : (k + 1) + i - 1 = k + i /\ k + i \in 1..m
      OBVIOUS
    <3>3. PICK rest : rest = [i \in 1..m - k |-> line[cut[k + i]]]
      OBVIOUS
    <3>4. rest = Rest(k + 1)
      BY <3>1, <3>2, <3>3
    <3>5. rest \in [1..m - k -> S]
      BY <2>3, <3>2, <3>3
    <3>6. rest \in Seq(S) /\ Len(rest) = m - k
      BY <3>1, <3>5, ListIs DEF Elements
    <3>. QED
      BY <3>3, <3>4, <3>6
  <2>5. PICK q \in Seq(S) : /\ q = Rest(k) /\ Len(q) = m + 1 - k
                            /\ \A i \in 1..m + 1 - k : q[i] = line[cut[k + i - 1]]
    <3>1. m + 1 - k \in Nat /\ \A i \in 1..m + 1 - k : k + i - 1 \in 1..m
      <4>1. m + 1 - k \in Nat
        OBVIOUS
      <4>2. ASSUME NEW i \in 1..m + 1 - k
            PROVE  k + i - 1 \in 1..m
        OBVIOUS
      <4>. QED
        BY <4>1, <4>2
    <3>2. PICK q : q = Rest(k)
      OBVIOUS
    <3>3. q \in [1..m + 1 - k -> S]
      BY <2>3, <3>1, <3>2
    <3>5. PICK z \in Nat : z = m + 1 - k
      BY <3>1
    <3>6. Elements(z, q, S)
      BY <3>3, <3>5 DEF Elements
    <3>4. q \in Seq(S) /\ Len(q) = m + 1 - k
      BY <3>5, <3>6, ListIs
    <3>. QED
      BY <3>2, <3>4
  <2>. HIDE DEF Rest
  <2>6. PICK t \in Seq(S) : t = <<line[cut[k]]>>
    <3>1. PICK x \in S : x = line[cut[k]]
      BY <2>3
    <3>2. <<x>> \in Seq(S)
      OBVIOUS
    <3>. QED
      BY <3>1, <3>2
  <2>7. Len(t) = 1 /\ t[1] = line[cut[k]]
    BY <2>6
  <2>8. t \o rest \in Seq(S) /\ Len(t \o rest) = 1 + (m - k)
        /\ \A i \in 1..1 + (m - k) : (t \o rest)[i] = IF i <= 1 THEN t[i] ELSE rest[i - 1]
    <3>1. t \o rest \in Seq(S) /\ Len(t \o rest) = Len(t) + Len(rest)
          /\ \A i \in 1..Len(t) + Len(rest) : (t \o rest)[i] = IF i <= Len(t) THEN t[i] ELSE rest[i - Len(t)]
      BY ConcatProperties, Zenon
    <3>. QED
      BY <2>4, <2>7, <3>1
  <2>9. ASSUME NEW i \in 1..1 + (m - k)
        PROVE  (t \o rest)[i] = q[i]
    <3>1. i \in 1..m + 1 - k
      OBVIOUS
    <3>2. CASE i = 1
      <4>1. k + i - 1 = k
        BY <3>2
      <4>2. (t \o rest)[i] = t[1]
        <5>1. i <= 1
          BY <3>2
        <5>. QED
          BY <2>8, <3>2, <5>1
      <4>3. q[i] = line[cut[k]]
        BY <2>5, <3>1, <4>1
      <4>. QED
        BY <2>7, <4>2, <4>3
    <3>3. CASE i # 1
      <4>1. i - 1 \in 1..m - k /\ k + (i - 1) = k + i - 1 /\ ~(i <= 1)
        BY <3>3
      <4>2. (t \o rest)[i] = rest[i - 1]
        BY <2>8, <4>1
      <4>. QED
        BY <2>4, <2>5, <3>1, <4>1, <4>2
    <3>. QED
      BY <3>2, <3>3
  <2>10. t \o rest = q
    <3>1. Len(t \o rest) = Len(q)
      BY <2>5, <2>8
    <3>2. \A i \in 1..Len(t \o rest) : (t \o rest)[i] = q[i]
      BY <2>8, <2>9
    <3>3. t \o rest \in Seq(S)
      BY <2>8
    <3>. QED
      BY <3>1, <3>2, <3>3, SeqEqual
  <2>11. f[cut[k]] = q
    BY <2>2, <2>4, <2>6, <2>10
  <2>. QED
    BY <2>5, <2>11
<1>3. 1 \in P
  <2>1. \A k \in 1..m + 1 : k \in P
    <3>. HIDE DEF P
    <3>. QED
      BY <1>1, <1>2, Downwards
  <2>. HIDE DEF P
  <2>. QED
    BY <2>1
<1>4. Rest(1) = [i \in 1..m |-> line[cut[i]]]
  <2>1. m + 1 - 1 = m /\ \A i \in 1..m : 1 + i - 1 = i
    OBVIOUS
  <2>. QED
    BY <2>1
<1>. QED
  BY <1>3, <1>4

-----------------------------------------------------------------------------
\* FlattenSeq.

\* Two cuts leave a part between them.
LEMMA Between ==
  ASSUME NEW n \in Nat, NEW a \in 1..n + 1, NEW b \in 1..n + 1, a <= b
  PROVE  1 \in 1..n + 1 /\ a - 1 \in 1 - 1..n /\ b - 1 \in a - 1..n /\ (a - 1) + 1 = a
<1>1. 1 \in 1..n + 1 /\ (a - 1) + 1 = a
  OBVIOUS
<1>2. a - 1 \in 0..n /\ b - 1 \in Int /\ a - 1 <= b - 1 /\ b - 1 <= n
  OBVIOUS
<1>3. 1 - 1 = 0
  OBVIOUS
<1>. QED
  BY <1>1, <1>2, <1>3

\* What FlattenSeq computes from.
Joined(h, s) == [i \in 1..Len(s) |-> IF i = 1 THEN s[i] ELSE h[i - 1] \o s[i]]

\* The parts between the cuts of a text are the text.
LEMMA Tiled ==
  ASSUME NEW S, NEW t \in Seq(S), NEW m \in Nat, NEW cut, NEW s, Parts(s, t, m, cut)
  PROVE  FlattenSeq(s) = t
<1>. USE DEF Parts
<1>1. PICK n \in Nat : n = Len(t)
  BY LenProperties
<1>2. \A i \in 1..m + 1 : cut[i] \in 1..n + 1
  BY <1>1
<1>3. Len(s) = m
  OBVIOUS
<1>4. CASE m = 0
  <2>1. n = 0
    BY <1>1, <1>2, <1>4
  <2>2. t = <<>>
    BY <1>1, <2>1, EmptySeq
  <2>3. s = <<>>
    BY <1>4
  <2>. QED
    BY <1>3, <1>4, <2>2, <2>3 DEF FlattenSeq
<1>5. CASE m # 0
  <2>. DEFINE up == [i \in 1..m |-> SubSeq(t, 1, cut[i + 1] - 1)]
  <2>0. up = [i \in 1..m |-> SubSeq(t, 1, cut[i + 1] - 1)]
    OBVIOUS
  <2>. HIDE DEF up
  <2>1. s[1] = up[1]
    <3>1. 1 \in 1..m /\ 1 + 1 \in 1..m + 1
      BY <1>5
    <3>. QED
      BY <2>0, <3>1
  <2>2. ASSUME NEW i \in 2..m
        PROVE  up[i - 1] \o s[i] = up[i]
    <3>1. i \in 1..m /\ i \in 1..m + 1 /\ i + 1 \in 1..m + 1 /\ (i - 1) + 1 = i
      OBVIOUS
    <3>2. s[i] = SubSeq(t, cut[i], cut[i + 1] - 1)
      BY <3>1
    <3>3. PICK a \in 1..n + 1, b \in 1..n + 1 : a = cut[i] /\ b = cut[i + 1] /\ a <= b
      BY <1>2, <3>1
    <3>4. 1 \in 1..n + 1 /\ a - 1 \in 1 - 1..n /\ b - 1 \in a - 1..n /\ (a - 1) + 1 = a
      BY <3>3, Between
    <3>5. SubSeq(t, 1, a - 1) \o SubSeq(t, (a - 1) + 1, b - 1) = SubSeq(t, 1, b - 1)
      BY <1>1, <3>4, ConcatAdjacentSubSeq
    <3>6. up[i - 1] = SubSeq(t, 1, a - 1) /\ up[i] = SubSeq(t, 1, b - 1)
      <4>1. i - 1 \in 1..m /\ i \in 1..m
        OBVIOUS
      <4>. QED
        BY <2>0, <3>1, <3>3, <4>1
    <3>. QED
      BY <3>2, <3>3, <3>4, <3>5, <3>6
  <2>3. up = Joined(up, s)
    <3>1. ASSUME NEW i \in 1..m
          PROVE  up[i] = IF i = 1 THEN s[i] ELSE up[i - 1] \o s[i]
      <4>1. CASE i = 1
        BY <2>1, <4>1
      <4>2. CASE i # 1
        <5>1. i \in 2..m
          BY <4>2
        <5>. QED
          BY <2>2, <4>2, <5>1
      <4>. QED
        BY <4>1, <4>2
    <3>2. Joined(up, s) = [i \in 1..m |-> IF i = 1 THEN s[i] ELSE up[i - 1] \o s[i]]
      BY <1>3 DEF Joined
    <3>3. up = [i \in 1..m |-> up[i]]
      BY <2>0
    <3>4. [i \in 1..m |-> up[i]] = [i \in 1..m |-> IF i = 1 THEN s[i] ELSE up[i - 1] \o s[i]]
      BY <3>1, Zenon
    <3>. QED
      BY <3>2, <3>3, <3>4, Zenon
  <2>. DEFINE f == CHOOSE h : h = Joined(h, s)
  <2>4. f = Joined(f, s)
    <3>. QED
      BY <2>3
  <2>5. FlattenSeq(s) = f[m]
    <3>1. FlattenSeq(s) = (CHOOSE h : h = [i \in 1..Len(s) |-> IF i = 1 THEN s[i] ELSE h[i - 1] \o s[i]])[Len(s)]
      BY <1>3, <1>5 DEF FlattenSeq
    <3>. QED
      BY <1>3, <3>1 DEF Joined
  <2>. HIDE DEF f
  <2>6. \A i \in 1..m : f[i] = IF i = 1 THEN s[i] ELSE f[i - 1] \o s[i]
    <3>1. f = [i \in 1..m |-> IF i = 1 THEN s[i] ELSE f[i - 1] \o s[i]]
      BY <1>3, <2>4 DEF Joined
    <3>. QED
      BY <3>1
  <2>7. \A k \in Nat : k + 1 <= m => f[k + 1] = up[k + 1]
    <3>. DEFINE T == {k \in Nat : k + 1 <= m => f[k + 1] = up[k + 1]}
    <3>1. 0 \in T
      <4>1. 0 + 1 = 1 /\ 1 \in 1..m
        BY <1>5
      <4>. QED
        BY <2>1, <2>6, <4>1
    <3>2. ASSUME NEW k \in T
          PROVE  k + 1 \in T
      <4>1. k \in Nat /\ (k + 1 <= m => f[k + 1] = up[k + 1])
        OBVIOUS
      <4>2. SUFFICES ASSUME (k + 1) + 1 <= m
                     PROVE  f[(k + 1) + 1] = up[(k + 1) + 1]
        BY <4>1
      <4>3. (k + 1) + 1 \in 2..m /\ (k + 1) + 1 \in 1..m /\ ((k + 1) + 1) - 1 = k + 1
            /\ (k + 1) + 1 # 1 /\ k + 1 <= m
        BY <4>1, <4>2
      <4>4. f[(k + 1) + 1] = f[k + 1] \o s[(k + 1) + 1]
        BY <2>6, <4>3
      <4>. QED
        BY <2>2, <4>1, <4>3, <4>4
    <3>3. T = Nat
      <4>. HIDE DEF T
      <4>1. T \in SUBSET Nat
        BY DEF T
      <4>. QED
        BY <3>1, <3>2, <4>1, Induction
    <3>. QED
      BY <3>3
  <2>8. f[m] = up[m]
    <3>1. PICK k \in Nat : k + 1 = m
      <4>1. m - 1 \in Nat /\ (m - 1) + 1 = m
        BY <1>5
      <4>. QED
        BY <4>1
    <3>2. k + 1 <= m
      BY <3>1
    <3>3. f[k + 1] = up[k + 1]
      BY <2>7, <3>2
    <3>. QED
      BY <3>1, <3>3
  <2>9. up[m] = t
    <3>1. cut[m + 1] - 1 = n /\ m \in 1..m
      BY <1>1, <1>5
    <3>. QED
      BY <1>1, <2>0, <3>1, SubSeqFull
  <2>. QED
    BY <2>5, <2>8, <2>9
<1>. QED
  BY <1>4, <1>5

-----------------------------------------------------------------------------
\* SplitLines.

\* The least of some numbers.
LEMMA LeastIs ==
  ASSUME NEW T \in SUBSET Nat, T # {}
  PROVE  Min(T) \in T /\ \A y \in T : Min(T) <= y
<1>1. PICK x \in T : \A y \in T : ~(y < x)
  BY Smallest
<1>2. x \in T /\ \A y \in T : x =< y
  BY <1>1
<1>. QED
  BY <1>2 DEF Min

\* Where the line that begins at j ends, and where the next one begins.
Eol(value, j) == Min({i \in j..Len(value) : value[i] \in Enter} \union {Len(value) + 1})

Past(value, j) == Eol(value, j) + EnterAt(value, Eol(value, j))

\* The line that begins at j.
Line(value, j, keepEnter) ==
  Sub(value, j, IF keepEnter THEN Past(value, j) - 1 ELSE Eol(value, j) - 1)

\* A line ends with the first character of a line end, or with the text.
LEMMA EolIs ==
  ASSUME NEW S, NEW value \in Seq(S), NEW j \in 1..Len(value)
  PROVE  /\ Eol(value, j) \in j..Len(value) + 1
         /\ \A i \in j..Eol(value, j) - 1 : value[i] \notin Enter
         /\ Eol(value, j) <= Len(value) => value[Eol(value, j)] \in Enter
<1>1. PICK n \in Nat : n = Len(value)
  BY LenProperties
<1>. DEFINE T == {i \in j..n : value[i] \in Enter} \union {n + 1}
<1>2. PICK e : e = Eol(value, j)
  OBVIOUS
<1>3. e = Min(T)
  BY <1>1, <1>2 DEF Eol
<1>4. T \in SUBSET Nat /\ n + 1 \in T /\ T \subseteq j..n + 1
  BY <1>1
<1>5. e \in T /\ \A y \in T : e <= y
  <2>. HIDE DEF T
  <2>. QED
    BY <1>3, <1>4, LeastIs
<1>6. ASSUME NEW i \in j..e - 1
      PROVE  value[i] \notin Enter
  <2>1. e \in j..n + 1
    BY <1>4, <1>5
  <2>2. i \in j..n /\ ~(e <= i)
    BY <1>1, <2>1
  <2>3. i \notin T
    BY <1>5, <2>2
  <2>. QED
    BY <2>2, <2>3
<1>7. e <= n => value[e] \in Enter
  BY <1>1, <1>5
<1>. QED
  BY <1>1, <1>2, <1>4, <1>5, <1>6, <1>7

\* The next line begins behind the line end: one character, or CR LF.
LEMMA PastIs ==
  ASSUME NEW S, NEW value \in Seq(S), NEW j \in 1..Len(value)
  PROVE  /\ Past(value, j) \in 2..Len(value) + 1 /\ j < Past(value, j)
         /\ \/ Eol(value, j) = Len(value) + 1 /\ Past(value, j) = Len(value) + 1
            \/ /\ Eol(value, j) < Len(value) /\ Past(value, j) = Eol(value, j) + 2
               /\ value[Eol(value, j)] = CR /\ value[Eol(value, j) + 1] = LF
            \/ /\ Eol(value, j) <= Len(value) /\ Past(value, j) = Eol(value, j) + 1
               /\ ~(value[Eol(value, j)] = CR /\ Eol(value, j) < Len(value)
                    /\ value[Eol(value, j) + 1] = LF)
<1>1. PICK n \in Nat : n = Len(value)
  BY LenProperties
<1>2. PICK e \in j..n + 1 : e = Eol(value, j)
  BY <1>1, EolIs
<1>3. Past(value, j) = e + EnterAt(value, e)
  BY <1>2 DEF Past
<1>4. CASE e = n + 1
  <2>1. EnterAt(value, e) = 0
    BY <1>1, <1>4 DEF EnterAt
  <2>. QED
    BY <1>1, <1>2, <1>3, <1>4, <2>1
<1>5. CASE e # n + 1 /\ value[e] = CR /\ e < n /\ value[e + 1] = LF
  <2>1. EnterAt(value, e) = 2
    BY <1>1, <1>2, <1>5 DEF EnterAt
  <2>. QED
    BY <1>1, <1>2, <1>3, <1>5, <2>1
<1>6. CASE e # n + 1 /\ ~(value[e] = CR /\ e < n /\ value[e + 1] = LF)
  <2>1. e <= n
    BY <1>1, <1>2, <1>6
  <2>2. EnterAt(value, e) = 1
    BY <1>1, <1>2, <1>6, <2>1 DEF EnterAt
  <2>. QED
    BY <1>1, <1>2, <1>3, <1>6, <2>1, <2>2
<1>. QED
  BY <1>4, <1>5, <1>6

\* A part of a text.
LEMMA SubIs ==
  ASSUME NEW S, NEW value \in Seq(S), NEW a \in 1..Len(value) + 1, NEW b \in a - 1..Len(value)
  PROVE  /\ Sub(value, a, b) \in Seq(S) /\ Len(Sub(value, a, b)) = b + 1 - a
         /\ \A i \in 1..b + 1 - a : Sub(value, a, b)[i] = value[a + i - 1]
<1>1. Len(value) \in Nat /\ \A i \in 1..Len(value) : value[i] \in S
  BY LenProperties
<1>2. a \in Int /\ b \in Int /\ a - 1 <= b /\ \A i \in a..b : value[i] \in S
  BY <1>1
<1>3. PICK u : u = SubSeq(value, a, b)
  OBVIOUS
<1>4. /\ u \in Seq(S) /\ Len(u) = IF a <= b THEN b - a + 1 ELSE 0
      /\ \A i \in 1..b - a + 1 : u[i] = value[a + i - 1]
  BY <1>2, <1>3, SubSeqProperties
<1>5. b - a + 1 = b + 1 - a /\ (IF a <= b THEN b - a + 1 ELSE 0) = b + 1 - a
  BY <1>2
<1>6. u = Sub(value, a, b)
  BY <1>3 DEF Sub
<1>. QED
  BY <1>4, <1>5, <1>6

\* A part of a text, up to a place that it does not reach.
LEMMA PartOf ==
  ASSUME NEW S, NEW value \in Seq(S), NEW a \in 1..Len(value) + 1, NEW d \in a..Len(value) + 1
  PROVE  /\ Sub(value, a, d - 1) \in Seq(S) /\ Len(Sub(value, a, d - 1)) = d - a
         /\ \A i \in 1..d - a : Sub(value, a, d - 1)[i] = value[a + i - 1]
<1>1. Len(value) \in Nat
  BY LenProperties
<1>2. PICK b \in a - 1..Len(value) : b = d - 1 /\ b + 1 - a = d - a
  BY <1>1
<1>3. /\ Sub(value, a, b) \in Seq(S) /\ Len(Sub(value, a, b)) = b + 1 - a
      /\ \A i \in 1..b + 1 - a : Sub(value, a, b)[i] = value[a + i - 1]
  BY SubIs, Zenon
<1>. QED
  BY <1>2, <1>3

\* What SplitLines computes from.
LinesFrom(h, value, keepEnter) ==
  [j \in 1..(Len(value) + 1) |->
     IF j > Len(value) THEN <<>> ELSE <<Line(value, j, keepEnter)>> \o h[Past(value, j)]]

LEMMA LineType ==
  ASSUME NEW S, NEW value \in Seq(S), NEW j \in 1..Len(value), NEW keepEnter \in BOOLEAN
  PROVE  Line(value, j, keepEnter) \in Seq(S)
<1>1. PICK n \in Nat : n = Len(value)
  BY LenProperties
<1>2. Past(value, j) \in j + 1..n + 1 /\ Eol(value, j) \in j..n + 1
  BY <1>1, PastIs, EolIs
<1>3. PICK b \in j - 1..n : b = IF keepEnter THEN Past(value, j) - 1 ELSE Eol(value, j) - 1
  BY <1>1, <1>2
<1>4. j \in 1..Len(value) + 1 /\ b \in j - 1..Len(value)
  BY <1>1
<1>5. Sub(value, j, b) \in Seq(S)
  BY <1>4, SubIs
<1>. QED
  BY <1>3, <1>5 DEF Line

\* SplitLines puts each line before those behind it.
LEMMA LinesAre ==
  ASSUME NEW S, NEW value \in Seq(S), NEW keepEnter \in BOOLEAN
  PROVE  \E f : /\ SplitLines(value, keepEnter) = f[1] /\ f[Len(value) + 1] = <<>>
                /\ \A j \in 1..Len(value) :
                     f[j] = <<Line(value, j, keepEnter)>> \o f[Past(value, j)]
<1>1. PICK n \in Nat : n = Len(value)
  BY LenProperties
<1>2. PICK next : next = [j \in 1..n |-> Past(value, j)]
  OBVIOUS
<1>3. next \in [1..n -> 2..n + 1] /\ \A j \in 1..n : j < next[j]
  BY <1>1, <1>2, PastIs
<1>4. PICK head : head = [j \in 1..n |-> <<Line(value, j, keepEnter)>>]
  OBVIOUS
<1>5. head \in [1..n -> Seq(Seq(S))]
  <2>1. ASSUME NEW j \in 1..n
        PROVE  <<Line(value, j, keepEnter)>> \in Seq(Seq(S))
    <3>1. Line(value, j, keepEnter) \in Seq(S)
      BY <1>1, LineType
    <3>2. PICK x \in Seq(S) : x = Line(value, j, keepEnter)
      BY <3>1
    <3>3. <<x>> \in Seq(Seq(S))
      OBVIOUS
    <3>. QED
      BY <3>2, <3>3
  <2>. QED
    BY <1>4, <2>1
<1>0. PICK T : T = Seq(S)
  OBVIOUS
<1>13. PICK f : Grows(f, n, next, head, T)
  <2>1. Heads(n, head, T) /\ Leads(n, next)
    BY <1>0, <1>3, <1>5 DEF Heads, Leads
  <2>. QED
    BY <2>1, Walk
<1>6. /\ f \in [1..n + 1 -> Seq(T)] /\ f[n + 1] = <<>>
      /\ \A j \in 1..n : f[j] = head[j] \o f[next[j]]
  BY <1>13 DEF Grows
<1>7. f = LinesFrom(f, value, keepEnter)
  <2>1. ASSUME NEW j \in 1..n + 1
        PROVE  f[j] = IF j > n THEN <<>> ELSE <<Line(value, j, keepEnter)>> \o f[Past(value, j)]
    <3>1. CASE j = n + 1
      BY <1>6, <3>1
    <3>2. CASE j # n + 1
      <4>1. j \in 1..n /\ ~(j > n)
        BY <3>2
      <4>2. head[j] = <<Line(value, j, keepEnter)>> /\ next[j] = Past(value, j)
        BY <1>2, <1>4, <4>1
      <4>. QED
        BY <1>6, <4>1, <4>2
    <3>. QED
      BY <3>1, <3>2
  <2>2. f = [j \in 1..n + 1 |-> f[j]]
    BY <1>6
  <2>3. LinesFrom(f, value, keepEnter) =
          [j \in 1..n + 1 |-> IF j > n THEN <<>> ELSE <<Line(value, j, keepEnter)>> \o f[Past(value, j)]]
    BY <1>1 DEF LinesFrom
  <2>4. [j \in 1..n + 1 |-> f[j]] =
          [j \in 1..n + 1 |-> IF j > n THEN <<>> ELSE <<Line(value, j, keepEnter)>> \o f[Past(value, j)]]
    BY <2>1, Zenon
  <2>. QED
    BY <2>2, <2>3, <2>4, Zenon
<1>. DEFINE g == CHOOSE h : h = LinesFrom(h, value, keepEnter)
<1>8. g = LinesFrom(g, value, keepEnter)
  BY <1>7
<1>9. SplitLines(value, keepEnter) = g[1]
  BY DEF SplitLines, LinesFrom, Line, Past, Eol
<1>. HIDE DEF g
<1>10. g = [j \in 1..n + 1 |-> IF j > n THEN <<>> ELSE <<Line(value, j, keepEnter)>> \o g[Past(value, j)]]
  BY <1>1, <1>8 DEF LinesFrom
<1>11. g[n + 1] = <<>>
  <2>1. n + 1 \in 1..n + 1 /\ n + 1 > n
    OBVIOUS
  <2>. QED
    BY <1>10, <2>1
<1>12. \A j \in 1..n : g[j] = <<Line(value, j, keepEnter)>> \o g[Past(value, j)]
  <2>1. \A j \in 1..n : j \in 1..n + 1 /\ ~(j > n)
    OBVIOUS
  <2>. QED
    BY <1>10, <2>1
<1>. QED
  BY <1>1, <1>9, <1>11, <1>12

\* Both results of SplitLines follow the same cuts.
LEMMA LineCuts ==
  ASSUME NEW S, NEW value \in Seq(S)
  PROVE  \E m \in Nat : \E cut \in [1..m + 1 -> 1..Len(value) + 1] :
           /\ cut[1] = 1 /\ cut[m + 1] = Len(value) + 1
           /\ \A i \in 1..m : cut[i] \in 1..Len(value) /\ cut[i + 1] = Past(value, cut[i])
           /\ \A keepEnter \in BOOLEAN :
                SplitLines(value, keepEnter) = [i \in 1..m |-> Line(value, cut[i], keepEnter)]
<1>1. PICK n \in Nat : n = Len(value)
  BY LenProperties
<1>2. PICK next : next = [j \in 1..n |-> Past(value, j)]
  OBVIOUS
<1>3. next \in [1..n -> 2..n + 1] /\ \A j \in 1..n : j < next[j]
  BY <1>1, <1>2, PastIs
<1>0. Leads(n, next)
  BY <1>3 DEF Leads
<1>8. PICK m \in Nat : \E cut : Meets(m, cut, n, next)
  BY <1>0, Cuts
<1>7. PICK cut : Meets(m, cut, n, next)
  BY <1>8
<1>4. /\ cut \in [1..m + 1 -> 1..n + 1] /\ cut[1] = 1 /\ cut[m + 1] = n + 1
      /\ \A i \in 1..m : cut[i] \in 1..n /\ cut[i + 1] = next[cut[i]]
  BY <1>7 DEF Meets
<1>5. ASSUME NEW keepEnter \in BOOLEAN
      PROVE  SplitLines(value, keepEnter) = [i \in 1..m |-> Line(value, cut[i], keepEnter)]
  <2>1. PICK f : /\ SplitLines(value, keepEnter) = f[1] /\ f[Len(value) + 1] = <<>>
                 /\ \A j \in 1..Len(value) :
                      f[j] = <<Line(value, j, keepEnter)>> \o f[Past(value, j)]
    BY LinesAre
  <2>2. PICK line : line = [j \in 1..n |-> Line(value, j, keepEnter)]
    OBVIOUS
  <2>0. PICK T : T = Seq(S)
    OBVIOUS
  <2>3. Elements(n, line, T)
    BY <1>1, <2>0, <2>2, LineType DEF Elements
  <2>4. f[n + 1] = <<>>
    BY <1>1, <2>1
  <2>5. \A j \in 1..n : f[j] = <<line[j]>> \o f[next[j]]
    BY <1>1, <1>2, <2>1, <2>2
  <2>6. f[1] = [i \in 1..m |-> line[cut[i]]]
    <3>1. Adds(f, n, next, line)
      BY <2>4, <2>5 DEF Adds
    <3>. QED
      BY <1>0, <1>7, <2>3, <3>1, Strung
  <2>7. [i \in 1..m |-> line[cut[i]]] = [i \in 1..m |-> Line(value, cut[i], keepEnter)]
    BY <1>4, <2>2
  <2>. QED
    BY <1>4, <2>1, <2>6, <2>7
<1>6. \A i \in 1..m : cut[i + 1] = Past(value, cut[i])
  BY <1>2, <1>4
<1>. QED
  BY <1>1, <1>4, <1>5, <1>6

\* Nothing is lost, and each line has one end.
LEMMA LinesKeep ==
  ASSUME NEW S, NEW value \in Seq(S)
  PROVE  /\ FlattenSeq(SplitLines(value, TRUE)) = value
         /\ Len(SplitLines(value, FALSE)) = Len(SplitLines(value, TRUE))
         /\ \A i \in DOMAIN SplitLines(value, TRUE) :
              LET kept == SplitLines(value, TRUE)
                  bare == SplitLines(value, FALSE)
                  end == Sub(kept[i], Len(bare[i]) + 1, Len(kept[i]))
              IN  /\ kept[i] = bare[i] \o end
                  /\ end \in {<<CR>>, <<LF>>, <<NUL>>, <<CR, LF>>} \/ (end = <<>> /\ i = Len(kept))
                  /\ \A j \in DOMAIN bare[i] : bare[i][j] \notin Enter
                  /\ end = <<CR>> /\ i < Len(kept) => Head(kept[i + 1]) # LF
<1>1. PICK n \in Nat : n = Len(value)
  BY LenProperties
<1>0. PICK m \in Nat : \E cut \in [1..m + 1 -> 1..Len(value) + 1] :
        /\ cut[1] = 1 /\ cut[m + 1] = Len(value) + 1
        /\ \A i \in 1..m : cut[i] \in 1..Len(value) /\ cut[i + 1] = Past(value, cut[i])
        /\ \A keepEnter \in BOOLEAN :
             SplitLines(value, keepEnter) = [i \in 1..m |-> Line(value, cut[i], keepEnter)]
  BY LineCuts, Zenon
<1>2. PICK cut \in [1..m + 1 -> 1..Len(value) + 1] :
        /\ cut[1] = 1 /\ cut[m + 1] = Len(value) + 1
        /\ \A i \in 1..m : cut[i] \in 1..Len(value) /\ cut[i + 1] = Past(value, cut[i])
        /\ \A keepEnter \in BOOLEAN :
             SplitLines(value, keepEnter) = [i \in 1..m |-> Line(value, cut[i], keepEnter)]
  BY <1>0
<1>3. PICK kept : kept = SplitLines(value, TRUE)
  OBVIOUS
<1>4. PICK bare : bare = SplitLines(value, FALSE)
  OBVIOUS
<1>5. /\ kept = [i \in 1..m |-> SubSeq(value, cut[i], cut[i + 1] - 1)]
      /\ kept = [i \in 1..m |-> Sub(value, cut[i], cut[i + 1] - 1)]
  <2>1. TRUE \in BOOLEAN
    OBVIOUS
  <2>2. kept = [i \in 1..m |-> Line(value, cut[i], TRUE)]
    BY <1>2, <1>3, <2>1
  <2>3. \A i \in 1..m : Line(value, cut[i], TRUE) = Sub(value, cut[i], cut[i + 1] - 1)
    BY <1>2 DEF Line
  <2>. QED
    BY <2>2, <2>3 DEF Sub
<1>6. bare = [i \in 1..m |-> Sub(value, cut[i], Eol(value, cut[i]) - 1)]
  <2>1. FALSE \in BOOLEAN
    OBVIOUS
  <2>2. bare = [i \in 1..m |-> Line(value, cut[i], FALSE)]
    BY <1>2, <1>4, <2>1
  <2>3. \A i \in 1..m : Line(value, cut[i], FALSE) = Sub(value, cut[i], Eol(value, cut[i]) - 1)
    BY DEF Line
  <2>. QED
    BY <2>2, <2>3
<1>7. Len(kept) = m /\ Len(bare) = m /\ DOMAIN kept = 1..m
  BY <1>5, <1>6
<1>8. FlattenSeq(kept) = value
  <2>1. \A i \in 1..m : cut[i] <= cut[i + 1]
    <3>1. ASSUME NEW i \in 1..m
          PROVE  cut[i] <= cut[i + 1]
      <4>1. PICK j \in 1..Len(value) : j = cut[i]
        BY <1>2
      <4>2. j < Past(value, j) /\ Past(value, j) \in 2..Len(value) + 1
        BY PastIs
      <4>. QED
        BY <1>1, <1>2, <4>1, <4>2
    <3>. QED
      BY <3>1
  <2>2. kept = [i \in 1..m |-> SubSeq(value, cut[i], cut[i + 1] - 1)]
    BY <1>5
  <2>3. cut[1] = 1 /\ cut[m + 1] = Len(value) + 1
    BY <1>2
  <2>4. Parts(kept, value, m, cut)
    BY <2>1, <2>2, <2>3 DEF Parts
  <2>. QED
    BY <2>4, Tiled
<1>9. ASSUME NEW i \in 1..m
      PROVE  LET end == Sub(kept[i], Len(bare[i]) + 1, Len(kept[i]))
             IN  /\ kept[i] = bare[i] \o end
                 /\ end \in {<<CR>>, <<LF>>, <<NUL>>, <<CR, LF>>} \/ (end = <<>> /\ i = m)
                 /\ \A j \in DOMAIN bare[i] : bare[i][j] \notin Enter
                 /\ end = <<CR>> /\ i < m => Head(kept[i + 1]) # LF
  <2>1. PICK c \in 1..n : c = cut[i]
    BY <1>1, <1>2
  <2>2. PICK e \in c..n + 1 : e = Eol(value, c)
    BY <1>1, EolIs
  <2>3. /\ \A k \in c..e - 1 : value[k] \notin Enter
        /\ e <= n => value[e] \in Enter
    BY <1>1, <2>2, EolIs
  <2>4. PICK d \in c + 1..n + 1 : d = Past(value, c) /\ d = cut[i + 1]
    BY <1>1, <1>2, <2>1, PastIs
  <2>5. \/ e = n + 1 /\ d = n + 1
        \/ e < n /\ d = e + 2 /\ value[e] = CR /\ value[e + 1] = LF
        \/ e <= n /\ d = e + 1 /\ ~(value[e] = CR /\ e < n /\ value[e + 1] = LF)
    BY <1>1, <2>2, <2>4, PastIs
  <2>6. PICK k : k = kept[i]
    OBVIOUS
  <2>7. PICK b : b = bare[i]
    OBVIOUS
  <2>8. /\ k \in Seq(S) /\ Len(k) = d - c
        /\ \A x \in 1..d - c : k[x] = value[c + x - 1]
    <3>1. k = Sub(value, c, d - 1)
      BY <1>5, <2>1, <2>4, <2>6
    <3>2. c \in 1..Len(value) + 1 /\ d \in c..Len(value) + 1
      BY <1>1
    <3>. QED
      BY <3>1, <3>2, PartOf, Zenon
  <2>9. /\ b \in Seq(S) /\ Len(b) = e - c
        /\ \A x \in 1..e - c : b[x] = value[c + x - 1]
    <3>1. b = Sub(value, c, e - 1)
      BY <1>6, <2>1, <2>2, <2>7
    <3>2. c \in 1..Len(value) + 1 /\ e \in c..Len(value) + 1
      BY <1>1
    <3>. QED
      BY <3>1, <3>2, PartOf, Zenon
  <2>10. PICK end : end = Sub(k, Len(b) + 1, Len(k))
    OBVIOUS
  <2>11. e <= d
    BY <2>5
  <2>12. /\ end \in Seq(S) /\ Len(end) = d - e
         /\ \A x \in 1..d - e : end[x] = value[e + x - 1]
    <3>1. PICK p \in 1..Len(k) + 1, q \in 1..Len(k) + 1 :
            /\ q \in p..Len(k) + 1
            /\ p = Len(b) + 1 /\ q - 1 = Len(k) /\ p = (e - c) + 1 /\ q - p = d - e
      <4>1. Len(b) + 1 \in 1..Len(k) + 1 /\ Len(k) + 1 \in Len(b) + 1..Len(k) + 1
            /\ (Len(k) + 1) - 1 = Len(k) /\ (Len(k) + 1) - (Len(b) + 1) = d - e
        BY <2>8, <2>9, <2>11
      <4>. QED
        BY <2>9, <4>1
    <3>2. end = Sub(k, p, q - 1)
      BY <2>10, <3>1
    <3>4. q \in p..Len(k) + 1 /\ k \in Seq(S)
      BY <2>8, <3>1
    <3>0. /\ end \in Seq(S) /\ Len(end) = q - p
          /\ \A x \in 1..q - p : end[x] = k[p + x - 1]
      BY <3>2, <3>4, PartOf, Zenon
    <3>3. /\ end \in Seq(S) /\ Len(end) = d - e
          /\ \A x \in 1..d - e : end[x] = k[((e - c) + 1) + x - 1]
      BY <3>0, <3>1
    <3>5. ASSUME NEW x \in 1..d - e
          PROVE  end[x] = value[e + x - 1]
      <4>1. ((e - c) + 1) + x - 1 = (e - c) + x /\ (e - c) + x \in 1..d - c
            /\ c + ((e - c) + x) - 1 = e + x - 1
        OBVIOUS
      <4>. QED
        BY <2>8, <3>3, <4>1
    <3>. QED
      BY <3>3, <3>5
  <2>13. k = b \o end
    <3>1. /\ b \o end \in Seq(S) /\ Len(b \o end) = Len(b) + Len(end)
          /\ \A x \in 1..Len(b) + Len(end) :
               (b \o end)[x] = IF x <= Len(b) THEN b[x] ELSE end[x - Len(b)]
      BY <2>9, <2>12, ConcatProperties, Zenon
    <3>2. Len(b) + Len(end) = d - c
      BY <2>9, <2>12
    <3>3. ASSUME NEW x \in 1..d - c
          PROVE  (b \o end)[x] = k[x]
      <4>1. CASE x <= e - c
        BY <2>8, <2>9, <3>1, <3>2, <4>1
      <4>2. CASE ~(x <= e - c)
        <5>1. x - (e - c) \in 1..d - e /\ e + (x - (e - c)) - 1 = c + x - 1
          BY <4>2
        <5>2. (b \o end)[x] = end[x - (e - c)]
          BY <2>9, <3>1, <3>2, <4>2
        <5>. QED
          BY <2>8, <2>12, <5>1, <5>2
      <4>. QED
        BY <4>1, <4>2
    <3>4. Len(k) = Len(b \o end) /\ \A x \in 1..Len(k) : k[x] = (b \o end)[x]
      BY <2>8, <3>1, <3>2, <3>3
    <3>. QED
      BY <2>8, <3>1, <3>4, SeqEqual
  <2>14. \A j \in DOMAIN b : b[j] \notin Enter
    <3>1. DOMAIN b = 1..e - c
      BY <2>9, LenProperties
    <3>2. \A j \in 1..e - c : c + j - 1 \in c..e - 1
      OBVIOUS
    <3>. QED
      BY <2>3, <2>9, <3>1, <3>2
  <2>15. CASE e = n + 1 /\ d = n + 1
    <3>1. end = <<>>
      BY <2>12, <2>15, EmptySeq
    <3>2. i = m
      <4>1. i + 1 \in 1..m => cut[i + 1] \in 1..n
        BY <1>1, <1>2
      <4>. QED
        BY <2>4, <2>15, <4>1
    <3>3. end # <<CR>>
      BY <3>1
    <3>. QED
      BY <2>6, <2>7, <2>10, <2>13, <2>14, <3>1, <3>2, <3>3
  <2>16. CASE e < n /\ d = e + 2 /\ value[e] = CR /\ value[e + 1] = LF
    <3>0. Len(end) # 1
      BY <2>12, <2>16
    <3>1. Len(end) = 2 /\ end[1] = CR /\ end[2] = LF
      <4>1. d - e = 2 /\ 1 \in 1..d - e /\ 2 \in 1..d - e /\ e + 1 - 1 = e /\ e + 2 - 1 = e + 1
        BY <2>16
      <4>. QED
        BY <2>12, <2>16, <4>1
    <3>2. end = <<CR, LF>>
      BY <2>12, <3>1
    <3>3. end # <<CR>>
      BY <3>0
    <3>. QED
      BY <2>6, <2>7, <2>10, <2>13, <2>14, <3>2, <3>3
  <2>17. CASE e <= n /\ d = e + 1 /\ ~(value[e] = CR /\ e < n /\ value[e + 1] = LF)
    <3>1. Len(end) = 1 /\ end[1] = value[e]
      <4>1. d - e = 1 /\ 1 \in 1..d - e /\ e + 1 - 1 = e
        BY <2>17
      <4>. QED
        BY <2>12, <4>1
    <3>2. end = <<value[e]>>
      BY <2>12, <3>1
    <3>3. value[e] = CR \/ value[e] = LF \/ value[e] = NUL
      BY <2>3, <2>17 DEF Enter
    <3>4. ASSUME end = <<CR>>, i < m
          PROVE  Head(kept[i + 1]) # LF
      <4>1. value[e] = CR
        BY <3>1, <3>4
      <4>2. i + 1 \in 1..m /\ (i + 1) + 1 \in 1..m + 1
        BY <3>4
      <4>3. d \in 1..n
        BY <1>1, <1>2, <2>4, <4>2
      <4>4. value[d] # LF
        BY <2>17, <4>1, <4>3
      <4>5. PICK g \in d + 1..n + 1 : g = cut[(i + 1) + 1]
        BY <1>1, <1>2, <2>4, <4>2, <4>3, PastIs
      <4>6. kept[i + 1] = Sub(value, d, g - 1)
        BY <1>5, <2>4, <4>2, <4>5
      <4>7. /\ Sub(value, d, g - 1) \in Seq(S) /\ Len(Sub(value, d, g - 1)) = g - d
            /\ \A x \in 1..g - d : Sub(value, d, g - 1)[x] = value[d + x - 1]
        <5>1. d \in 1..Len(value) + 1 /\ g \in d..Len(value) + 1
          BY <1>1, <4>3
        <5>. QED
          BY <5>1, PartOf, Zenon
      <4>8. kept[i + 1][1] = value[d]
        <5>1. 1 \in 1..g - d /\ d + 1 - 1 = d
          BY <4>3, <4>5
        <5>. QED
          BY <4>6, <4>7, <5>1
      <4>. QED
        BY <4>4, <4>8
    <3>. QED
      BY <2>6, <2>7, <2>10, <2>13, <2>14, <3>2, <3>3, <3>4
  <2>. QED
    BY <2>5, <2>15, <2>16, <2>17
<1>. QED
  BY <1>3, <1>4, <1>7, <1>8, <1>9

-----------------------------------------------------------------------------
\* SplitString.

\* The q chunks of n characters begin behind the multiples of their size.
ChunksAt(q, at, n, chunk) ==
  /\ at \in [0..q -> Nat] /\ q = (n + chunk - 1) \div chunk /\ at[0] = 0 /\ n <= at[q]
  /\ \A i \in 0..q : at[i] = i * chunk
  /\ \A i \in 1..q : at[i] = at[i - 1] + chunk /\ at[i - 1] < n

\* There are such places.
LEMMA ChunkPlaces ==
  ASSUME NEW n \in Nat, NEW chunk \in Nat \ {0}
  PROVE  \E q \in Nat : \E at : ChunksAt(q, at, n, chunk)
<1>1. PICK q \in Nat, v \in 0..chunk - 1 : n + chunk - 1 = q * chunk + v /\ q = (n + chunk - 1) \div chunk
  <2>1. n + chunk - 1 \in Nat
    OBVIOUS
  <2>. QED
    BY <2>1, Divided
<1>2. PICK at : at = [i \in 0..q |-> i * chunk]
  OBVIOUS
<1>3. at \in [0..q -> Nat]
  <2>1. \A i \in 0..q : i * chunk \in Nat
    OBVIOUS
  <2>. QED
    BY <1>2, <2>1
<1>4. n <= at[q]
  <2>1. at[q] = q * chunk /\ at[q] \in Nat
    BY <1>2, <1>3
  <2>. QED
    BY <1>1, <2>1
<1>5. ASSUME NEW i \in 1..q
      PROVE  at[i] = at[i - 1] + chunk /\ at[i - 1] < n
  <2>1. i - 1 \in 0..q /\ i \in 0..q /\ i - 1 \in Nat /\ i - 1 < q
    OBVIOUS
  <2>2. at[i - 1] = (i - 1) * chunk /\ at[i] = i * chunk /\ at[q] = q * chunk
        /\ at[i] \in Nat /\ at[i - 1] \in Nat /\ at[q] \in Nat
    BY <1>2, <1>3, <2>1
  <2>3. i * chunk = (i - 1) * chunk + chunk
    OBVIOUS
  <2>4. (i - 1) * chunk + chunk <= q * chunk
    BY <2>1, MultiplesApart
  <2>5. n + chunk - 1 = at[q] + v
    BY <1>1, <2>2
  <2>6. at[i - 1] + chunk <= at[q]
    BY <2>2, <2>4
  <2>. QED
    BY <2>2, <2>3, <2>5, <2>6
<1>6. at[0] = 0
  <2>1. 0 * chunk = 0
    OBVIOUS
  <2>. QED
    BY <1>2, <2>1
<1>7. q = (n + chunk - 1) \div chunk /\ \A i \in 0..q : at[i] = i * chunk
  BY <1>1, <1>2
<1>8. ChunksAt(q, at, n, chunk)
  BY <1>3, <1>4, <1>5, <1>6, <1>7, Zenon DEF ChunksAt
<1>. QED
  BY <1>8

\* Nothing is lost, and only the last chunk may be short.
LEMMA ChunksKeep ==
  ASSUME NEW S, NEW value \in Seq(S), NEW chunk \in Nat \ {0}
  PROVE  /\ FlattenSeq(SplitString(value, chunk)) = value
         /\ \A i \in DOMAIN SplitString(value, chunk) :
              LET chunks == SplitString(value, chunk)
              IN  Len(chunks[i]) = chunk \/ (i = Len(chunks) /\ Len(chunks[i]) \in 1..chunk)
<1>1. PICK n \in Nat : n = Len(value)
  BY LenProperties
<1>12. PICK q \in Nat : \E at : ChunksAt(q, at, n, chunk)
  BY ChunkPlaces
<1>13. PICK at : ChunksAt(q, at, n, chunk)
  BY <1>12
<1>2. /\ at \in [0..q -> Nat] /\ at[0] = 0 /\ n <= at[q]
      /\ \A i \in 1..q : at[i] = at[i - 1] + chunk /\ at[i - 1] < n
  BY <1>13, Zenon DEF ChunksAt
<1>14. q = (n + chunk - 1) \div chunk /\ \A i \in 0..q : at[i] = i * chunk
  BY <1>13, Zenon DEF ChunksAt
<1>3. PICK chunks : chunks = SplitString(value, chunk)
  OBVIOUS
<1>4. PICK cut : cut = [i \in 1..q + 1 |-> IF i = q + 1 THEN n + 1 ELSE at[i - 1] + 1]
  OBVIOUS
<1>5. \A i \in 1..q : i \in 1..q + 1 /\ i + 1 \in 1..q + 1 /\ i - 1 \in 0..q /\ i \in 0..q /\ i # q + 1
  OBVIOUS
<1>6. ASSUME NEW i \in 1..q
      PROVE  /\ cut[i] = at[i - 1] + 1 /\ cut[i] \in 1..n
             /\ cut[i + 1] \in cut[i] + 1..n + 1
             /\ cut[i + 1] = IF i = q THEN n + 1 ELSE cut[i] + chunk
             /\ i = q => cut[i + 1] - cut[i] \in 1..chunk
             /\ cut[i + 1] - 1 = IF n <= at[i] THEN n ELSE at[i]
  <2>1. at[i - 1] \in Nat /\ at[i] \in Nat /\ at[i] = at[i - 1] + chunk /\ at[i - 1] < n
    BY <1>2, <1>5
  <2>2. cut[i] = at[i - 1] + 1 /\ cut[i] \in 1..n
    BY <1>4, <1>5, <2>1
  <2>3. CASE i = q
    <3>1. cut[i + 1] = n + 1
      BY <1>4, <1>5, <2>3
    <3>2. n <= at[i]
      BY <1>2, <2>3
    <3>. QED
      BY <2>1, <2>2, <2>3, <3>1, <3>2
  <2>4. CASE i # q
    <3>1. i + 1 \in 1..q /\ (i + 1) - 1 = i /\ i + 1 # q + 1
      BY <2>4
    <3>2. cut[i + 1] = at[i] + 1 /\ at[i] < n
      BY <1>2, <1>4, <1>5, <3>1
    <3>. QED
      BY <2>1, <2>2, <2>4, <3>2
  <2>. QED
    BY <2>3, <2>4
<1>7. chunks = [i \in 1..q |-> Sub(value, cut[i], cut[i + 1] - 1)]
  <2>1. chunks = [i \in 1..q |-> Sub(value, (i - 1) * chunk + 1, Min({i * chunk, n}))]
    BY <1>1, <1>3, <1>14 DEF SplitString
  <2>2. ASSUME NEW i \in 1..q
        PROVE  Sub(value, (i - 1) * chunk + 1, Min({i * chunk, n})) = Sub(value, cut[i], cut[i + 1] - 1)
    <3>1. i - 1 \in 0..q /\ i \in 0..q
      OBVIOUS
    <3>2. (i - 1) * chunk = at[i - 1] /\ i * chunk = at[i]
      BY <1>14, <3>1
    <3>3. Min({at[i], n}) = IF n <= at[i] THEN n ELSE at[i]
      <4>1. PICK x \in Nat : x = at[i]
        BY <1>2, <3>1
      <4>2. {x, n} \in SUBSET Nat /\ {x, n} # {}
        OBVIOUS
      <4>3. Min({x, n}) \in {x, n} /\ Min({x, n}) <= x /\ Min({x, n}) <= n
        BY <4>2, LeastIs
      <4>. QED
        BY <4>1, <4>3
    <3>4. cut[i] = at[i - 1] + 1 /\ cut[i + 1] - 1 = IF n <= at[i] THEN n ELSE at[i]
      BY <1>6
    <3>. QED
      BY <3>2, <3>3, <3>4, Zenon
  <2>. QED
    BY <2>1, <2>2, Zenon
<1>8. Len(chunks) = q /\ DOMAIN chunks = 1..q
  BY <1>7
<1>9. FlattenSeq(chunks) = value
  <2>1. cut[q + 1] = n + 1
    BY <1>4
  <2>2. cut[1] = 1
    <3>1. CASE q = 0
      <4>1. n = 0
        BY <1>2, <3>1
      <4>. QED
        BY <2>1, <3>1, <4>1
    <3>2. CASE q # 0
      <4>1. 1 \in 1..q /\ 1 - 1 = 0
        BY <3>2
      <4>2. cut[1] = at[1 - 1] + 1
        BY <1>6, <4>1
      <4>. QED
        BY <1>2, <4>1, <4>2
    <3>. QED
      BY <3>1, <3>2
  <2>3. cut \in [1..q + 1 -> 1..n + 1]
    <3>1. \A i \in 1..q + 1 : i = q + 1 \/ i \in 1..q
      OBVIOUS
    <3>2. \A i \in 1..q + 1 : cut[i] \in 1..n + 1
      BY <1>6, <2>1, <3>1
    <3>. QED
      BY <1>4, <3>2
  <2>4. \A i \in 1..q : cut[i] <= cut[i + 1]
    BY <1>6
  <2>5. Parts(chunks, value, q, cut)
    BY <1>1, <1>7, <2>1, <2>2, <2>3, <2>4 DEF Parts, Sub
  <2>. QED
    BY <2>5, Tiled
<1>10. ASSUME NEW i \in 1..q
       PROVE  Len(chunks[i]) = chunk \/ (i = q /\ Len(chunks[i]) \in 1..chunk)
  <2>1. PICK a \in 1..n, d \in 1..n + 1 : a = cut[i] /\ d = cut[i + 1] /\ d \in a..n + 1
    <3>1. cut[i] \in 1..n /\ cut[i + 1] \in cut[i] + 1..n + 1
      BY <1>6
    <3>2. cut[i + 1] \in 1..n + 1 /\ cut[i + 1] \in cut[i]..n + 1
      BY <3>1
    <3>. QED
      BY <3>1, <3>2
  <2>2. a \in 1..Len(value) + 1 /\ d \in a..Len(value) + 1
    BY <1>1, <2>1
  <2>3. Len(Sub(value, a, d - 1)) = d - a
    BY <2>2, PartOf, Zenon
  <2>4. Len(chunks[i]) = d - a
    BY <1>7, <2>1, <2>3
  <2>. QED
    BY <1>6, <2>1, <2>4
<1>. QED
  BY <1>3, <1>8, <1>9, <1>10

-----------------------------------------------------------------------------
\* Hexadecimal digits.

\* Where the digits of each byte are in its text.
HexOf(t, bytes) ==
  /\ t \in Seq(0..15 \union {Space}) /\ Len(t) = 3 * Len(bytes)
  /\ \A i \in 1..Len(bytes) :
       t[3 * i - 2] = bytes[i] \div 16 /\ t[3 * i - 1] = bytes[i] % 16 /\ t[3 * i] = Space

\* Every place of three times n is the first, the second or the third of its group.
LEMMA Thirds ==
  ASSUME NEW n \in Nat, NEW k \in 1..3 * n
  PROVE  \E i \in 1..n : k = 3 * i - 2 \/ k = 3 * i - 1 \/ k = 3 * i
<1>1. PICK q \in Nat, v \in 0..3 - 1 : k - 1 = q * 3 + v
  <2>1. k - 1 \in Nat /\ 3 \in Nat \ {0}
    OBVIOUS
  <2>. QED
    BY <2>1, Divided
<1>2. q + 1 \in 1..n
  BY <1>1
<1>3. k = 3 * (q + 1) - 2 \/ k = 3 * (q + 1) - 1 \/ k = 3 * (q + 1)
  BY <1>1
<1>. QED
  BY <1>2, <1>3

\* There is a text with the digits at these places.
LEMMA HexExists ==
  ASSUME NEW bytes \in Seq(0..255)
  PROVE  \E t : HexOf(t, bytes)
<1>1. PICK n \in Nat : n = Len(bytes)
  BY LenProperties
<1>2. \A i \in 1..n : bytes[i] \in 0..255
  BY <1>1, LenProperties
<1>. DEFINE D == 0..15 \union {Space}
<1>3. PICK t : t = [k \in 1..3 * n |->
                     IF k % 3 = 1 THEN bytes[(k + 2) \div 3] \div 16
                     ELSE IF k % 3 = 2 THEN bytes[(k + 1) \div 3] % 16 ELSE Space]
  OBVIOUS
<1>4. ASSUME NEW i \in 1..n
      PROVE  /\ t[3 * i - 2] = bytes[i] \div 16 /\ t[3 * i - 1] = bytes[i] % 16 /\ t[3 * i] = Space
             /\ bytes[i] \div 16 \in 0..15 /\ bytes[i] % 16 \in 0..15
  <2>1. 3 * i - 2 \in 1..3 * n /\ 3 * i - 1 \in 1..3 * n /\ 3 * i \in 1..3 * n
    OBVIOUS
  <2>2. (3 * i - 2) % 3 = 1 /\ ((3 * i - 2) + 2) \div 3 = i
    OBVIOUS
  <2>3. (3 * i - 1) % 3 = 2 /\ ((3 * i - 1) + 1) \div 3 = i
    OBVIOUS
  <2>4. (3 * i) % 3 = 0
    OBVIOUS
  <2>5. t[3 * i - 2] = bytes[i] \div 16
    BY <1>3, <2>1, <2>2
  <2>6. t[3 * i - 1] = bytes[i] % 16
    BY <1>3, <2>1, <2>3
  <2>7. t[3 * i] = Space
    BY <1>3, <2>1, <2>4
  <2>8. bytes[i] \div 16 \in 0..15 /\ bytes[i] % 16 \in 0..15
    <3>1. PICK b \in 0..255 : b = bytes[i]
      BY <1>2
    <3>2. b \div 16 \in 0..15 /\ b % 16 \in 0..15
      OBVIOUS
    <3>. QED
      BY <3>1, <3>2
  <2>. QED
    BY <2>5, <2>6, <2>7, <2>8
<1>5. \A k \in 1..3 * n : t[k] \in D
  <2>1. ASSUME NEW k \in 1..3 * n
        PROVE  t[k] \in D
    <3>1. PICK i \in 1..n : k = 3 * i - 2 \/ k = 3 * i - 1 \/ k = 3 * i
      BY Thirds
    <3>. QED
      BY <1>4, <3>1
  <2>. QED
    BY <2>1
<1>6. t \in [1..3 * n -> D]
  <2>. HIDE DEF D
  <2>. QED
    BY <1>3, <1>5
<1>7. PICK m \in Nat : m = 3 * n
  <2>1. 3 * n \in Nat
    OBVIOUS
  <2>. QED
    BY <2>1
<1>8. Elements(m, t, D)
  <2>. HIDE DEF D
  <2>. QED
    BY <1>6, <1>7 DEF Elements
<1>9. t \in Seq(D) /\ Len(t) = m
  <2>. HIDE DEF D
  <2>. QED
    BY <1>8, ListIs
<1>10. HexOf(t, bytes)
  BY <1>1, <1>4, <1>7, <1>9 DEF HexOf
<1>. QED
  BY <1>10

\* It is what AsByte2HexString returns.
LEMMA HexIs ==
  ASSUME NEW bytes \in Seq(0..255), NEW t, HexOf(t, bytes)
  PROVE  AsByte2HexString(bytes) = t
<1>1. PICK n \in Nat : n = Len(bytes)
  BY LenProperties
<1>. DEFINE D == 0..15 \union {Space}
<1>2. /\ t \in Seq(D) /\ Len(t) = 3 * n
      /\ \A i \in 1..n :
           t[3 * i - 2] = bytes[i] \div 16 /\ t[3 * i - 1] = bytes[i] % 16 /\ t[3 * i] = Space
  BY <1>1 DEF HexOf
<1>. HIDE DEF D
<1>3. PICK s : s = [i \in DOMAIN bytes |-> <<bytes[i] \div 16, bytes[i] % 16, Space>>]
  OBVIOUS
<1>4. PICK cut : cut = [i \in 1..n + 1 |-> 3 * i - 2]
  OBVIOUS
<1>5. cut \in [1..n + 1 -> 1..Len(t) + 1] /\ cut[1] = 1 /\ cut[n + 1] = Len(t) + 1
  BY <1>2, <1>4
<1>6. \A i \in 1..n : cut[i] = 3 * i - 2 /\ cut[i + 1] = 3 * i + 1
  BY <1>4
<1>7. ASSUME NEW i \in 1..n
      PROVE  s[i] = SubSeq(t, cut[i], cut[i + 1] - 1)
  <2>1. PICK a \in 1..Len(t) + 1 : a = 3 * i - 2 /\ a + 3 \in a..Len(t) + 1
    BY <1>2
  <2>2. PICK d \in a..Len(t) + 1 : d = a + 3
    BY <2>1
  <2>3. PICK u : u = Sub(t, a, d - 1)
    OBVIOUS
  <2>4. u \in Seq(D) /\ Len(u) = d - a /\ \A x \in 1..d - a : u[x] = t[a + x - 1]
    <3>1. t \in Seq(D)
      BY <1>2
    <3>2. a \in 1..Len(t) + 1
      OBVIOUS
    <3>3. d \in a..Len(t) + 1
      OBVIOUS
    <3>4. /\ Sub(t, a, d - 1) \in Seq(D) /\ Len(Sub(t, a, d - 1)) = d - a
          /\ \A x \in 1..d - a : Sub(t, a, d - 1)[x] = t[a + x - 1]
      BY <3>1, <3>2, <3>3, PartOf, Zenon
    <3>. QED
      BY <2>3, <3>4, Zenon
  <2>5. Len(u) = 3 /\ u[1] = t[a] /\ u[2] = t[a + 1] /\ u[3] = t[a + 2]
    <3>1. d - a = 3 /\ a + 1 - 1 = a /\ a + 2 - 1 = a + 1 /\ a + 3 - 1 = a + 2
      BY <2>1, <2>2
    <3>2. 1 \in 1..3 /\ 2 \in 1..3 /\ 3 \in 1..3
      OBVIOUS
    <3>. QED
      BY <2>4, <3>1, <3>2
  <2>6. u = <<u[1], u[2], u[3]>>
    <3>1. u \in Seq(D) /\ Len(u) = 3
      BY <2>4, <2>5, Zenon
    <3>2. PICK x \in D, y \in D, z \in D : x = u[1] /\ y = u[2] /\ z = u[3]
      <4>1. \A k \in 1..Len(u) : u[k] \in D
        BY <3>1, LenProperties
      <4>. QED
        BY <3>1, <4>1
    <3>3. PICK v \in Seq(D) : v = <<x, y, z>>
      <4>1. <<x, y, z>> \in Seq(D)
        BY SMT
      <4>. QED
        BY <4>1, Zenon
    <3>4. Len(v) = 3 /\ v[1] = x /\ v[2] = y /\ v[3] = z
      BY <3>3
    <3>5. \A k \in 1..Len(u) : u[k] = v[k]
      <4>1. \A k \in 1..3 : k = 1 \/ k = 2 \/ k = 3
        OBVIOUS
      <4>. QED
        BY <3>1, <3>2, <3>4, <4>1
    <3>6. u = v
      BY <3>1, <3>4, <3>5, SeqEqual
    <3>. QED
      BY <3>2, <3>3, <3>6
  <2>7. a + 1 = 3 * i - 1 /\ a + 2 = 3 * i
    BY <2>1
  <2>8. u = <<bytes[i] \div 16, bytes[i] % 16, Space>>
    BY <1>2, <2>1, <2>5, <2>6, <2>7
  <2>9. i \in DOMAIN bytes
    BY <1>1, LenProperties
  <2>10. s[i] = u
    BY <1>3, <2>8, <2>9
  <2>11. cut[i] = a /\ cut[i + 1] = d
    BY <1>6, <2>1, <2>2
  <2>. QED
    BY <2>3, <2>10, <2>11 DEF Sub
<1>8. s = [i \in 1..n |-> SubSeq(t, cut[i], cut[i + 1] - 1)]
  <2>1. DOMAIN bytes = 1..n
    BY <1>1, LenProperties
  <2>2. s = [i \in 1..n |-> s[i]]
    BY <1>3, <2>1
  <2>3. [i \in 1..n |-> s[i]] = [i \in 1..n |-> SubSeq(t, cut[i], cut[i + 1] - 1)]
    BY <1>7, Zenon
  <2>. QED
    BY <2>2, <2>3, Zenon
<1>9. \A i \in 1..n : cut[i] <= cut[i + 1]
  BY <1>6
<1>10. Parts(s, t, n, cut)
  BY <1>5, <1>8, <1>9 DEF Parts
<1>11. FlattenSeq(s) = t
  BY <1>2, <1>10, Tiled
<1>. QED
  BY <1>3, <1>11 DEF AsByte2HexString

\* What AsHexString2Byte computes from.
HexFrom(h, value) ==
  [index \in 1..(Len(value) + 1) |->
     IF index > Len(value) THEN <<>>
     ELSE IF value[index] = Space THEN h[index + 1]
     ELSE <<16 * value[index] + value[index + 1]>> \o h[index + 2]]

\* The digits of bytes are read as the bytes, whatever they are.
LEMMA HexBack ==
  ASSUME NEW bytes \in Seq(0..255)
  PROVE  AsHexString2Byte(<<Space>> \o AsByte2HexString(bytes)) = bytes
<1>1. PICK n \in Nat : n = Len(bytes)
  BY LenProperties
<1>2. \A i \in 1..n : bytes[i] \in 0..255
  BY <1>1, LenProperties
<1>3. PICK t : HexOf(t, bytes)
  BY HexExists
<1>4. AsByte2HexString(bytes) = t
  BY <1>3, HexIs
<1>. DEFINE D == 0..15 \union {Space}
<1>5. /\ t \in Seq(D) /\ Len(t) = 3 * n
      /\ \A i \in 1..n :
           t[3 * i - 2] = bytes[i] \div 16 /\ t[3 * i - 1] = bytes[i] % 16 /\ t[3 * i] = Space
  BY <1>1, <1>3 DEF HexOf
<1>. HIDE DEF D
<1>6. PICK one \in Seq(D) : one = <<Space>>
  <2>1. Space \in D
    BY DEF D
  <2>2. <<Space>> \in Seq(D)
    BY <2>1
  <2>. QED
    BY <2>2
<1>7. PICK d : d = one \o t
  OBVIOUS
<1>8. PICK L \in Nat : L = 3 * n + 1
  <2>1. 3 * n + 1 \in Nat
    OBVIOUS
  <2>. QED
    BY <2>1
<1>9. d \in Seq(D) /\ Len(d) = L /\ d[1] = Space /\ \A k \in 1..3 * n : d[k + 1] = t[k]
  <2>1. d \in Seq(D) /\ Len(d) = Len(one) + Len(t)
        /\ \A k \in 1..Len(one) + Len(t) : d[k] = IF k <= Len(one) THEN one[k] ELSE t[k - Len(one)]
    BY <1>5, <1>7, ConcatProperties, Zenon
  <2>2. Len(one) = 1 /\ one[1] = Space
    BY <1>6
  <2>3. 1 \in 1..1 + 3 * n /\ \A k \in 1..3 * n : k + 1 \in 1..1 + 3 * n /\ ~(k + 1 <= 1) /\ (k + 1) - 1 = k
    OBVIOUS
  <2>4. \A k \in 1..1 + 3 * n : d[k] = IF k <= 1 THEN one[k] ELSE t[k - 1]
    BY <1>5, <2>1, <2>2
  <2>5. d[1] = Space
    BY <2>2, <2>3, <2>4
  <2>6. \A k \in 1..3 * n : d[k + 1] = t[k]
    BY <2>3, <2>4
  <2>. QED
    BY <1>5, <1>8, <2>1, <2>2, <2>5, <2>6
<1>10. ASSUME NEW i \in 1..n
       PROVE  /\ d[3 * i - 1] = bytes[i] \div 16 /\ d[3 * i] = bytes[i] % 16 /\ d[3 * i + 1] = Space
              /\ d[3 * i - 1] # Space /\ d[3 * i] # Space
              /\ 16 * d[3 * i - 1] + d[3 * i] = bytes[i]
  <2>1. 3 * i - 2 \in 1..3 * n /\ 3 * i - 1 \in 1..3 * n /\ 3 * i \in 1..3 * n
        /\ (3 * i - 2) + 1 = 3 * i - 1 /\ (3 * i - 1) + 1 = 3 * i
    OBVIOUS
  <2>2. d[(3 * i - 2) + 1] = t[3 * i - 2] /\ d[(3 * i - 1) + 1] = t[3 * i - 1] /\ d[3 * i + 1] = t[3 * i]
    BY <1>9, <2>1
  <2>3. PICK b \in 0..255 : b = bytes[i]
    BY <1>2
  <2>4. b \div 16 \in 0..15 /\ b % 16 \in 0..15 /\ 16 * (b \div 16) + (b % 16) = b
    OBVIOUS
  <2>5. d[3 * i - 1] = b \div 16 /\ d[3 * i] = b % 16 /\ d[3 * i + 1] = Space
    BY <1>5, <2>1, <2>2, <2>3
  <2>. QED
    BY <2>3, <2>4, <2>5, TextAssumption DEF TextAssumption
<1>11. ASSUME NEW k \in 1..L
       PROVE  \/ k = 1 \/ \E i \in 1..n : k = 3 * i - 1 \/ k = 3 * i \/ k = 3 * i + 1
  <2>1. CASE k = 1
    BY <2>1
  <2>2. CASE k # 1
    <3>1. k - 1 \in 1..3 * n
      BY <1>8, <2>2
    <3>2. PICK x \in 1..3 * n : x = k - 1
      BY <3>1
    <3>3. PICK i \in 1..n : x = 3 * i - 2 \/ x = 3 * i - 1 \/ x = 3 * i
      BY Thirds
    <3>4. k = 3 * i - 1 \/ k = 3 * i \/ k = 3 * i + 1
      BY <3>2, <3>3
    <3>. QED
      BY <3>4
  <2>. QED
    BY <2>1, <2>2
<1>12. PICK next : next = [k \in 1..L |-> IF d[k] = Space THEN k + 1 ELSE k + 2]
  OBVIOUS
<1>13. Leads(L, next)
  <2>1. ASSUME NEW k \in 1..L
        PROVE  next[k] \in 2..L + 1 /\ k < next[k]
    <3>1. CASE d[k] = Space
      BY <1>12, <3>1
    <3>2. CASE d[k] # Space
      <4>1. k # 1
        BY <1>9, <3>2
      <4>2. PICK i \in 1..n : k = 3 * i - 1 \/ k = 3 * i \/ k = 3 * i + 1
        BY <1>11, <4>1
      <4>3. k # 3 * i + 1
        BY <1>10, <3>2
      <4>4. k + 2 \in 2..L + 1
        BY <1>8, <4>2, <4>3
      <4>. QED
        BY <1>12, <3>2, <4>4
    <3>. QED
      BY <3>1, <3>2
  <2>. QED
    BY <1>12, <2>1 DEF Leads
<1>. DEFINE V == {16 * d[k] + d[k + 1] : k \in 1..L}
<1>14. PICK head : head = [k \in 1..L |-> IF d[k] = Space THEN <<>> ELSE <<16 * d[k] + d[k + 1]>>]
  OBVIOUS
<1>15. Heads(L, head, V)
  <2>1. ASSUME NEW k \in 1..L
        PROVE  head[k] \in Seq(V)
    <3>1. PICK v \in V : v = 16 * d[k] + d[k + 1]
      OBVIOUS
    <3>. HIDE DEF V
    <3>2. <<v>> \in Seq(V) /\ <<>> \in Seq(V)
      OBVIOUS
    <3>. QED
      BY <1>14, <3>1, <3>2
  <2>. HIDE DEF V
  <2>. QED
    BY <1>14, <2>1 DEF Heads
<1>. HIDE DEF V
<1>16. PICK f : Grows(f, L, next, head, V)
  BY <1>13, <1>15, Walk
<1>17. /\ f \in [1..L + 1 -> Seq(V)] /\ f[L + 1] = <<>>
       /\ \A k \in 1..L : f[k] = head[k] \o f[next[k]]
  BY <1>16 DEF Grows
<1>18. f = HexFrom(f, d)
  <2>. DEFINE Body(h, k) == IF k > L THEN <<>> ELSE IF d[k] = Space THEN h[k + 1]
                            ELSE <<16 * d[k] + d[k + 1]>> \o h[k + 2]
  <2>1. ASSUME NEW k \in 1..L + 1
        PROVE  f[k] = Body(f, k)
    <3>1. CASE k = L + 1
      BY <1>17, <3>1
    <3>2. CASE k # L + 1 /\ d[k] = Space
      <4>1. k \in 1..L /\ ~(k > L) /\ k + 1 \in 1..L + 1
        BY <3>2
      <4>2. head[k] = <<>> /\ next[k] = k + 1
        BY <1>12, <1>14, <3>2, <4>1
      <4>3. f[k + 1] \in Seq(V)
        BY <1>17, <4>1
      <4>4. f[k] = <<>> \o f[k + 1]
        BY <1>17, <4>1, <4>2
      <4>5. <<>> \o f[k + 1] = f[k + 1]
        BY <4>3, ConcatEmptySeq
      <4>. QED
        BY <3>2, <4>1, <4>4, <4>5
    <3>3. CASE k # L + 1 /\ d[k] # Space
      <4>1. k \in 1..L /\ ~(k > L)
        BY <3>3
      <4>2. head[k] = <<16 * d[k] + d[k + 1]>> /\ next[k] = k + 2
        BY <1>12, <1>14, <3>3, <4>1
      <4>3. f[k] = head[k] \o f[next[k]]
        BY <1>17, <4>1
      <4>. QED
        BY <3>3, <4>1, <4>2, <4>3
    <3>. QED
      BY <3>1, <3>2, <3>3
  <2>2. f = [k \in 1..L + 1 |-> f[k]]
    BY <1>17
  <2>3. HexFrom(f, d) = [k \in 1..L + 1 |-> Body(f, k)]
    BY <1>9 DEF HexFrom
  <2>. HIDE DEF Body
  <2>4. [k \in 1..L + 1 |-> f[k]] = [k \in 1..L + 1 |-> Body(f, k)]
    BY <2>1, Zenon
  <2>. QED
    BY <2>2, <2>3, <2>4, Zenon
<1>. DEFINE g == CHOOSE h : h = HexFrom(h, d)
<1>19. g = HexFrom(g, d)
  BY <1>18
<1>20. AsHexString2Byte(d) = g[1]
  BY DEF AsHexString2Byte, HexFrom
<1>. HIDE DEF g
<1>21. g = [k \in 1..L + 1 |-> IF k > L THEN <<>> ELSE IF d[k] = Space THEN g[k + 1]
                              ELSE <<16 * d[k] + d[k + 1]>> \o g[k + 2]]
  BY <1>9, <1>19 DEF HexFrom
<1>22. /\ g[L + 1] = <<>>
       /\ \A k \in 1..L : g[k] = IF d[k] = Space THEN g[k + 1] ELSE <<16 * d[k] + d[k + 1]>> \o g[k + 2]
  <2>1. L + 1 \in 1..L + 1 /\ L + 1 > L /\ \A k \in 1..L : k \in 1..L + 1 /\ ~(k > L)
    OBVIOUS
  <2>. QED
    BY <1>21, <2>1
<1>23. PICK P : P = {i \in 1..n + 1 : g[3 * i - 1] = SubSeq(bytes, i, n)}
  OBVIOUS
<1>24. n + 1 \in P
  <2>1. 3 * (n + 1) - 1 = L + 1
    BY <1>8
  <2>2. SubSeq(bytes, n + 1, n) = <<>>
    BY SubSeqEmpty
  <2>3. n + 1 \in 1..n + 1
    OBVIOUS
  <2>4. g[3 * (n + 1) - 1] = SubSeq(bytes, n + 1, n)
    BY <1>22, <2>1, <2>2, Zenon
  <2>. QED
    BY <1>23, <2>3, <2>4
<1>25. ASSUME NEW i \in 1..n, \A j \in i + 1..n + 1 : j \in P
       PROVE  i \in P
  <2>1. i + 1 \in i + 1..n + 1
    OBVIOUS
  <2>2. g[3 * (i + 1) - 1] = SubSeq(bytes, i + 1, n)
    BY <1>23, <1>25, <2>1
  <2>3. 3 * i - 1 \in 1..L /\ 3 * i + 1 \in 1..L /\ (3 * i - 1) + 1 = 3 * i
        /\ (3 * i - 1) + 2 = 3 * i + 1 /\ (3 * i + 1) + 1 = 3 * (i + 1) - 1
    BY <1>8
  <2>4. g[3 * i + 1] = SubSeq(bytes, i + 1, n)
    BY <1>10, <1>22, <2>2, <2>3
  <2>5. g[3 * i - 1] = <<16 * d[3 * i - 1] + d[3 * i]>> \o g[3 * i + 1]
    BY <1>10, <1>22, <2>3
  <2>6. g[3 * i - 1] = <<bytes[i]>> \o SubSeq(bytes, i + 1, n)
    BY <1>10, <2>4, <2>5
  <2>7. SubSeq(bytes, i, n) = <<bytes[i]>> \o SubSeq(bytes, i + 1, n)
    <3>1. i \in 1..Len(bytes) /\ n \in i..Len(bytes)
      BY <1>1
    <3>. QED
      BY <3>1, SubSeqRecursiveFirst
  <2>8. i \in 1..n + 1
    OBVIOUS
  <2>. QED
    BY <1>23, <2>6, <2>7, <2>8
<1>26. 1 \in P
  <2>1. \A i \in 1..n + 1 : i \in P
    BY <1>24, <1>25, Downwards
  <2>. QED
    BY <2>1
<1>27. g[2] = bytes
  <2>1. g[2] = SubSeq(bytes, 1, n)
    BY <1>23, <1>26
  <2>. QED
    BY <1>1, <2>1, SubSeqFull
<1>28. g[1] = g[2]
  <2>1. 1 \in 1..L /\ 1 + 1 = 2
    BY <1>8
  <2>. QED
    BY <1>9, <1>22, <2>1
<1>. QED
  BY <1>4, <1>6, <1>7, <1>20, <1>27, <1>28

-----------------------------------------------------------------------------
\* Split.

\* Where key is in value.
Occurs(value, key) ==
  {i \in 1..(Len(value) - Len(key) + 1) : Sub(value, i, i + Len(key) - 1) = key}

\* taken are, from the left, the places found that begin outside those taken before.
Greedy(taken, found, K) ==
  \A i \in found : i \in taken <=> \A t \in taken : t < i => t + K <= i

\* No place taken before b reaches b.
Fresh(b, taken, K) == \A t \in taken : t < b => t + K <= b

\* free are the places that nothing taken covers.
Uncovered(free, n, taken, K) ==
  /\ free \subseteq 1..n
  /\ \A x \in 1..n : x \in free <=> \A t \in taken : ~(t <= x /\ x < t + K)

\* found are places.
PlacesIn(found, n) == found \subseteq 1..n

\* PlacesIn can be taken so.
LEMMA GreedyExists ==
  ASSUME NEW n \in Nat, NEW K \in Nat, NEW found, PlacesIn(found, n)
  PROVE  \E taken : taken \in SUBSET found /\ Greedy(taken, found, K)
<1>. found \in SUBSET (1..n)
  BY DEF PlacesIn
<1>. DEFINE R(taken, m) == /\ taken \subseteq found /\ taken \subseteq 1..m
                           /\ \A i \in found : i <= m =>
                                (i \in taken <=> \A t \in taken : t < i => t + K <= i)
<1>. DEFINE P == {m \in Nat : \E taken : R(taken, m)}
<1>1. 0 \in P
  <2>1. R({}, 0)
    OBVIOUS
  <2>. HIDE DEF R
  <2>. QED
    BY <2>1
<1>2. ASSUME NEW m \in P
      PROVE  m + 1 \in P
  <2>0. m \in Nat
    OBVIOUS
  <2>1. PICK taken : R(taken, m)
    <3>. HIDE DEF R
    <3>. QED
      OBVIOUS
  <2>2. CASE m + 1 \in found /\ \A t \in taken : t + K <= m + 1
    <3>1. PICK more : more = taken \union {m + 1}
      OBVIOUS
    <3>2. more \subseteq found /\ more \subseteq 1..m + 1
      BY <2>0, <2>1, <2>2, <3>1
    <3>3. ASSUME NEW i \in found, i <= m + 1
          PROVE  i \in more <=> \A t \in more : t < i => t + K <= i
      <4>1. CASE i = m + 1
        <5>1. \A t \in more : t < i => t \in taken
          BY <2>0, <3>1, <4>1
        <5>. QED
          BY <2>2, <3>1, <4>1, <5>1
      <4>2. CASE i # m + 1
        <5>1. i <= m /\ ~(m + 1 < i)
          BY <2>0, <3>3, <4>2
        <5>2. i \in more <=> i \in taken
          BY <3>1, <4>2
        <5>3. (\A t \in more : t < i => t + K <= i) <=> \A t \in taken : t < i => t + K <= i
          BY <3>1, <5>1
        <5>. QED
          BY <2>1, <5>1, <5>2, <5>3
      <4>. QED
        BY <4>1, <4>2
    <3>4. R(more, m + 1)
      BY <3>2, <3>3
    <3>. HIDE DEF R
    <3>. QED
      BY <2>0, <3>4
  <2>3. CASE ~(m + 1 \in found /\ \A t \in taken : t + K <= m + 1)
    <3>1. taken \subseteq 1..m + 1
      BY <2>0, <2>1
    <3>2. ASSUME NEW i \in found, i <= m + 1
          PROVE  i \in taken <=> \A t \in taken : t < i => t + K <= i
      <4>1. CASE i = m + 1
        <5>1. i \notin taken /\ \A t \in taken : t < i
          BY <2>0, <2>1, <4>1
        <5>. QED
          BY <2>3, <4>1, <5>1
      <4>2. CASE i # m + 1
        <5>1. i <= m
          BY <2>0, <3>2, <4>2
        <5>. QED
          BY <2>1, <5>1
      <4>. QED
        BY <4>1, <4>2
    <3>3. R(taken, m + 1)
      BY <2>1, <3>1, <3>2
    <3>. HIDE DEF R
    <3>. QED
      BY <2>0, <3>3
  <2>. QED
    BY <2>2, <2>3
<1>3. P = Nat
  <2>. HIDE DEF P
  <2>1. P \in SUBSET Nat
    BY DEF P
  <2>. QED
    BY <1>1, <1>2, <2>1, Induction
<1>4. PICK taken : R(taken, n)
  <2>. HIDE DEF R
  <2>. QED
    BY <1>3
<1>5. taken \in SUBSET found /\ Greedy(taken, found, K)
  BY <1>4 DEF Greedy
<1>. QED
  BY <1>5

\* Taken takes them so.
LEMMA TakenIs ==
  ASSUME NEW S, NEW value \in Seq(S), NEW key \in Seq(S), key # <<>>
  PROVE  /\ Len(key) \in Nat \ {0}
         /\ Occurs(value, key) \in SUBSET (1..Len(value))
         /\ \A i \in Occurs(value, key) : i + Len(key) <= Len(value) + 1
         /\ Taken(value, key) \in SUBSET Occurs(value, key)
         /\ Greedy(Taken(value, key), Occurs(value, key), Len(key))
<1>1. PICK n \in Nat : n = Len(value)
  BY LenProperties
<1>2. PICK K \in Nat \ {0} : K = Len(key)
  <2>1. Len(key) \in Nat /\ Len(key) # 0
    BY LenProperties, EmptySeq
  <2>. QED
    BY <2>1
<1>3. Occurs(value, key) \in SUBSET (1..n) /\ \A i \in Occurs(value, key) : i + K <= n + 1
  BY <1>1, <1>2 DEF Occurs
<1>4. PICK found \in SUBSET (1..n) : found = Occurs(value, key)
  BY <1>3
<1>5. \E taken \in SUBSET found : Greedy(taken, found, K)
  <2>1. K \in Nat
    OBVIOUS
  <2>2. PlacesIn(found, n)
    BY DEF PlacesIn
  <2>3. PICK taken : taken \in SUBSET found /\ Greedy(taken, found, K)
    BY <2>1, <2>2, GreedyExists
  <2>. QED
    BY <2>3
<1>6. Taken(value, key) = CHOOSE taken \in SUBSET found : Greedy(taken, found, K)
  BY <1>2, <1>4 DEF Taken, Occurs, Greedy
<1>7. Taken(value, key) \in SUBSET found /\ Greedy(Taken(value, key), found, K)
  BY <1>5, <1>6
<1>. QED
  BY <1>1, <1>2, <1>3, <1>4, <1>7

LEMMA FreeIs ==
  ASSUME NEW S, NEW value \in Seq(S), NEW key \in Seq(S), key # <<>>
  PROVE  Uncovered(Free(value, key), Len(value), Taken(value, key), Len(key))
<1>1. PICK n \in Nat : n = Len(value) /\ DOMAIN value = 1..n
  BY LenProperties
<1>2. PICK K \in Nat \ {0} : K = Len(key)
  BY TakenIs
<1>3. PICK taken \in SUBSET (1..n) : taken = Taken(value, key)
  BY <1>1, TakenIs
<1>4. Free(value, key) = 1..n \ UNION {t..(t + K - 1) : t \in taken}
  BY <1>1, <1>2, <1>3 DEF Free
<1>5. ASSUME NEW x \in 1..n
      PROVE  x \in Free(value, key) <=> \A t \in taken : ~(t <= x /\ x < t + K)
  <2>1. ASSUME NEW t \in taken
        PROVE  x \in t..(t + K - 1) <=> t <= x /\ x < t + K
    <3>1. t \in 1..n /\ x \in 1..n /\ K \in Nat
      OBVIOUS
    <3>. QED
      BY <3>1
  <2>2. x \in UNION {t..(t + K - 1) : t \in taken} <=> \E t \in taken : x \in t..(t + K - 1)
    BY Zenon
  <2>3. x \in Free(value, key) <=> ~(\E t \in taken : x \in t..(t + K - 1))
    BY <1>4, <2>2, Zenon
  <2>. QED
    BY <2>1, <2>3, Zenon
<1>6. Free(value, key) \subseteq 1..n
  BY <1>4
<1>. QED
  BY <1>1, <1>2, <1>3, <1>5, <1>6 DEF Uncovered

\* Search finds the first place from beg on.
LEMMA SearchIs ==
  ASSUME NEW S, NEW value \in Seq(S), NEW key \in Seq(S), key # <<>>,
         NEW beg \in 1..Len(value) + 1
  PROVE  /\ Search(value, key, beg) \in beg..Len(value) + 1
         /\ Search(value, key, beg) <= Len(value) => Search(value, key, beg) \in Occurs(value, key)
         /\ \A i \in Occurs(value, key) : beg <= i => Search(value, key, beg) <= i
<1>1. PICK n \in Nat : n = Len(value)
  BY LenProperties
<1>2. PICK K \in Nat \ {0} : K = Len(key)
  BY TakenIs
<1>. DEFINE T == {i \in beg..(n - K + 1) : Sub(value, i, i + K - 1) = key} \union {n + 1}
<1>3. PICK e : e = Search(value, key, beg)
  OBVIOUS
<1>4. e = Min(T)
  BY <1>1, <1>2, <1>3 DEF Search
<1>5. beg \in 1..n + 1
  BY <1>1
<1>6. T \in SUBSET Nat /\ n + 1 \in T /\ T \subseteq beg..n + 1
  BY <1>5
<1>7. e \in T /\ \A y \in T : e <= y
  <2>. HIDE DEF T
  <2>. QED
    BY <1>4, <1>6, LeastIs
<1>8. Occurs(value, key) = {i \in 1..(n - K + 1) : Sub(value, i, i + K - 1) = key}
  BY <1>1, <1>2 DEF Occurs
<1>9. e <= n => e \in Occurs(value, key)
  BY <1>5, <1>7, <1>8
<1>10. \A i \in Occurs(value, key) : beg <= i => i \in T
  BY <1>5, <1>8
<1>11. \A i \in Occurs(value, key) : beg <= i => e <= i
  BY <1>7, <1>10
<1>12. e \in beg..n + 1
  BY <1>6, <1>7
<1>. QED
  BY <1>1, <1>3, <1>9, <1>11, <1>12

\* e is the first place found from b on, or the end.
First(e, b, n, K, found) ==
  /\ found \subseteq 1..n /\ \A i \in found : i + K <= n + 1
  /\ e \in b..n + 1 /\ (e <= n => e \in found) /\ \A i \in found : b <= i => e <= i

\* What follows e.
Run(e, b, n, K, taken, free) ==
  /\ \A x \in b..e - 1 : x \in free
  /\ e \notin free
  /\ e <= n => /\ e + K \in 1..n + 1 /\ Fresh(e + K, taken, K)
               /\ \A x \in e..e + K - 1 : x \notin free

\* From a fresh place to the next one found nothing is covered; that one is taken, and
\* the place behind it is fresh.
LEMMA Runs ==
  ASSUME NEW n \in Nat, NEW K \in Nat \ {0}, NEW found,
         NEW taken, taken \subseteq found, Greedy(taken, found, K),
         NEW free, Uncovered(free, n, taken, K),
         NEW b \in 1..n + 1, Fresh(b, taken, K), NEW e, First(e, b, n, K, found)
  PROVE  Run(e, b, n, K, taken, free)
<1>. /\ found \in SUBSET (1..n) /\ \A i \in found : i + K <= n + 1
     /\ e \in b..n + 1 /\ (e <= n => e \in found) /\ \A i \in found : b <= i => e <= i
     /\ taken \in SUBSET found
  BY DEF First
<1>1. /\ free \subseteq 1..n
      /\ \A x \in 1..n : x \in free <=> \A t \in taken : ~(t <= x /\ x < t + K)
  BY DEF Uncovered
<1>2. \A t \in taken : t < b => t + K <= b
  BY DEF Fresh
<1>3. \A i \in found : i \in taken <=> \A t \in taken : t < i => t + K <= i
  BY DEF Greedy
<1>4. \A t \in taken : t \in 1..n /\ (t < b \/ e <= t)
  OBVIOUS
<1>5. ASSUME NEW x \in b..e - 1
      PROVE  x \in free
  <2>1. x \in 1..n
    OBVIOUS
  <2>2. ASSUME NEW t \in taken, t <= x, x < t + K
        PROVE  FALSE
    <3>1. t < b \/ e <= t
      BY <1>4
    <3>2. t < b => t + K <= b
      BY <1>2
    <3>. QED
      BY <1>4, <2>2, <3>1, <3>2
  <2>. QED
    BY <1>1, <2>1, <2>2
<1>6. ASSUME e <= n
      PROVE  e \in taken
  <2>1. ASSUME NEW t \in taken, t < e
        PROVE  t + K <= e
    <3>1. t \in 1..n /\ t < b
      BY <1>4, <2>1
    <3>2. t + K <= b
      BY <1>2, <3>1
    <3>. QED
      BY <3>1, <3>2
  <2>. QED
    BY <1>3, <1>6, <2>1
<1>7. ASSUME e <= n, NEW x \in e..e + K - 1
      PROVE  x \notin free
  <2>1. e \in taken /\ e <= x /\ x < e + K
    BY <1>6, <1>7
  <2>. QED
    BY <1>1, <2>1
<1>8. e \notin free
  <2>1. CASE e <= n
    <3>1. e \in e..e + K - 1
      OBVIOUS
    <3>. QED
      BY <1>7, <2>1, <3>1
  <2>2. CASE ~(e <= n)
    BY <1>1, <2>2
  <2>. QED
    BY <2>1, <2>2
<1>9. ASSUME e <= n
      PROVE  e + K \in 1..n + 1 /\ Fresh(e + K, taken, K)
  <2>1. e + K \in 1..n + 1
    BY <1>9
  <2>2. ASSUME NEW t \in taken, t < e + K
        PROVE  t + K <= e + K
    <3>1. t \in 1..n /\ (t < b \/ e <= t)
      BY <1>4
    <3>2. CASE t < b
      <4>1. t + K <= b
        BY <1>2, <3>2
      <4>. QED
        BY <3>1, <4>1
    <3>3. CASE t = e
      BY <3>3
    <3>4. CASE e < t
      <4>1. e + K <= t
        BY <1>3, <1>6, <1>9, <3>4
      <4>. QED
        BY <2>2, <3>1, <4>1
    <3>. QED
      BY <3>1, <3>2, <3>3, <3>4
  <2>. QED
    BY <2>1, <2>2 DEF Fresh
<1>. QED
  BY <1>5, <1>7, <1>8, <1>9 DEF Run

\* The field that begins at j, and where the next one may begin.
FieldAt(value, key, keepEmpty, j) ==
  LET str == Trim(Sub(value, j, Search(value, key, j) - 1), {CR, LF})
  IN  IF j # Search(value, key, j) /\ (keepEmpty \/ str # <<>>) THEN <<str>> ELSE <<>>

Behind(value, key, j) ==
  IF Search(value, key, j) = Len(value) + 1 THEN Len(value) + 1
  ELSE Search(value, key, j) + Len(key)

\* What Split computes from.
SplitFrom(h, value, key, keepEmpty) ==
  [j \in 1..(Len(value) + 1) |->
     IF Search(value, key, j) = Len(value) + 1 THEN FieldAt(value, key, keepEmpty, j)
     ELSE FieldAt(value, key, keepEmpty, j) \o h[Search(value, key, j) + Len(key)]]

\* The text from j to the next key, trimmed.
Strip(value, key, j) == Trim(Sub(value, j, Search(value, key, j) - 1), {CR, LF})

\* g gives each place the fields from there on.
SplitBy(g, value, key, keepEmpty, n, V) ==
  /\ Split(value, key, keepEmpty) = g[1]
  /\ g \in [1..n + 1 -> Seq(V)] /\ g[n + 1] = <<>>
  /\ \A j \in 1..n : /\ Behind(value, key, j) \in j + 1..n + 1
                     /\ g[j] = FieldAt(value, key, keepEmpty, j) \o g[Behind(value, key, j)]

\* Split puts the field at each place before those behind the next key.
LEMMA SplitIs ==
  ASSUME NEW S, NEW value \in Seq(S), NEW key \in Seq(S), key # <<>>, NEW keepEmpty \in BOOLEAN,
         NEW n \in Nat, n = Len(value), NEW V, V = {Strip(value, key, j) : j \in 1..n}
  PROVE  \E g : SplitBy(g, value, key, keepEmpty, n, V)
<1>. \A j \in 1..n : Strip(value, key, j) \in V
  OBVIOUS
<1>1. PICK K \in Nat \ {0} : K = Len(key)
  BY TakenIs
<1>2. \A j \in 1..n + 1 : /\ Search(value, key, j) \in j..n + 1
                          /\ Search(value, key, j) # n + 1 => Search(value, key, j) + K <= n + 1
  <2>1. ASSUME NEW j \in 1..n + 1
        PROVE  /\ Search(value, key, j) \in j..n + 1
               /\ Search(value, key, j) # n + 1 => Search(value, key, j) + K <= n + 1
    <3>1. j \in 1..Len(value) + 1
      OBVIOUS
    <3>2. PICK e : e = Search(value, key, j)
      OBVIOUS
    <3>3. e \in j..n + 1 /\ (e <= n => e \in Occurs(value, key))
      BY <3>1, <3>2, SearchIs
    <3>4. \A i \in Occurs(value, key) : i + K <= n + 1
      BY <1>1, TakenIs
    <3>5. e # n + 1 => e <= n
      BY <3>3
    <3>. QED
      BY <3>2, <3>3, <3>4, <3>5
  <2>. QED
    BY <2>1
<1>3. PICK next : next = [j \in 1..n |-> Behind(value, key, j)]
  OBVIOUS
<1>4. \A j \in 1..n : Behind(value, key, j) \in j + 1..n + 1
  <2>1. ASSUME NEW j \in 1..n
        PROVE  Behind(value, key, j) \in j + 1..n + 1
    <3>1. j \in 1..n + 1
      OBVIOUS
    <3>2. PICK e \in j..n + 1 : e = Search(value, key, j) /\ (e # n + 1 => e + K <= n + 1)
      BY <1>2, <3>1
    <3>3. Behind(value, key, j) = IF e = n + 1 THEN n + 1 ELSE e + K
      BY <1>1, <3>2 DEF Behind
    <3>. QED
      BY <3>2, <3>3
  <2>. QED
    BY <2>1
<1>5. Leads(n, next)
  BY <1>3, <1>4 DEF Leads
<1>6. PICK head : head = [j \in 1..n |-> FieldAt(value, key, keepEmpty, j)]
  OBVIOUS
<1>7. ASSUME NEW j \in 1..n
      PROVE  FieldAt(value, key, keepEmpty, j) \in Seq(V)
  <2>1. PICK v \in V : v = Strip(value, key, j)
    OBVIOUS
  <2>2. <<v>> \in Seq(V) /\ <<>> \in Seq(V)
    OBVIOUS
  <2>3. FieldAt(value, key, keepEmpty, j) = <<v>> \/ FieldAt(value, key, keepEmpty, j) = <<>>
    BY <2>1 DEF FieldAt, Strip
  <2>. QED
    BY <2>2, <2>3
<1>8. Heads(n, head, V)
  BY <1>6, <1>7 DEF Heads
<1>9. PICK f : Grows(f, n, next, head, V)
  BY <1>5, <1>8, Walk
<1>10. /\ f \in [1..n + 1 -> Seq(V)] /\ f[n + 1] = <<>>
       /\ \A j \in 1..n : f[j] = head[j] \o f[next[j]]
  BY <1>9 DEF Grows
<1>. DEFINE Body(h, j) ==
       IF Search(value, key, j) = n + 1 THEN FieldAt(value, key, keepEmpty, j)
       ELSE FieldAt(value, key, keepEmpty, j) \o h[Search(value, key, j) + K]
<1>11. ASSUME NEW h
       PROVE  SplitFrom(h, value, key, keepEmpty) = [j \in 1..n + 1 |-> Body(h, j)]
  BY <1>1 DEF SplitFrom
<1>12. ASSUME NEW h, h[n + 1] = <<>>, NEW j \in 1..n
       PROVE  Body(h, j) = FieldAt(value, key, keepEmpty, j) \o h[Behind(value, key, j)]
  <2>1. CASE Search(value, key, j) = n + 1
    <3>1. Behind(value, key, j) = n + 1
      BY <2>1 DEF Behind
    <3>2. FieldAt(value, key, keepEmpty, j) \o <<>> = FieldAt(value, key, keepEmpty, j)
      BY <1>7, ConcatEmptySeq
    <3>. QED
      BY <1>12, <2>1, <3>1, <3>2
  <2>2. CASE Search(value, key, j) # n + 1
    <3>1. Behind(value, key, j) = Search(value, key, j) + K
      BY <1>1, <2>2 DEF Behind
    <3>. QED
      BY <2>2, <3>1
  <2>. QED
    BY <2>1, <2>2
<1>13. ASSUME NEW h
       PROVE  Body(h, n + 1) = <<>>
  <2>1. n + 1 \in 1..n + 1
    OBVIOUS
  <2>2. Search(value, key, n + 1) \in n + 1..n + 1
    BY <1>2, <2>1
  <2>3. Search(value, key, n + 1) = n + 1
    BY <2>2
  <2>. QED
    BY <2>3 DEF FieldAt
<1>14. f = SplitFrom(f, value, key, keepEmpty)
  <2>1. ASSUME NEW j \in 1..n + 1
        PROVE  f[j] = Body(f, j)
    <3>1. CASE j = n + 1
      BY <1>10, <1>13, <3>1
    <3>2. CASE j # n + 1
      <4>1. j \in 1..n
        BY <3>2
      <4>2. head[j] = FieldAt(value, key, keepEmpty, j) /\ next[j] = Behind(value, key, j)
        BY <1>3, <1>6, <4>1
      <4>3. f[j] = FieldAt(value, key, keepEmpty, j) \o f[Behind(value, key, j)]
        BY <1>10, <4>1, <4>2
      <4>. HIDE DEF Body
      <4>. QED
        BY <1>10, <1>12, <4>1, <4>3
    <3>. QED
      BY <3>1, <3>2
  <2>2. f = [j \in 1..n + 1 |-> f[j]]
    BY <1>10
  <2>. HIDE DEF Body
  <2>3. [j \in 1..n + 1 |-> f[j]] = [j \in 1..n + 1 |-> Body(f, j)]
    BY <2>1, Zenon
  <2>. QED
    BY <1>11, <2>2, <2>3, Zenon
<1>. DEFINE g == CHOOSE h : h = SplitFrom(h, value, key, keepEmpty)
<1>15. g = SplitFrom(g, value, key, keepEmpty)
  BY <1>14
<1>16. Split(value, key, keepEmpty) = g[1]
  BY DEF Split, SplitFrom, FieldAt
<1>. HIDE DEF g
<1>17. \A j \in 1..n + 1 : g[j] = Body(g, j)
  <2>. HIDE DEF Body
  <2>1. g = [j \in 1..n + 1 |-> Body(g, j)]
    BY <1>11, <1>15
  <2>. QED
    BY <2>1
<1>18. g[n + 1] = <<>>
  <2>1. n + 1 \in 1..n + 1
    OBVIOUS
  <2>. HIDE DEF Body
  <2>. QED
    BY <1>13, <1>17, <2>1
<1>19. \A j \in 1..n : g[j] = FieldAt(value, key, keepEmpty, j) \o g[Behind(value, key, j)]
  <2>1. \A j \in 1..n : j \in 1..n + 1
    OBVIOUS
  <2>. HIDE DEF Body
  <2>. QED
    BY <1>12, <1>17, <1>18, <2>1
<1>20. \A j \in 1..n + 1 : g[j] = f[j]
  <2>. DEFINE P == {j \in 1..n + 1 : g[j] = f[j]}
  <2>1. n + 1 \in P
    BY <1>10, <1>18
  <2>2. ASSUME NEW j \in 1..n, \A i \in j + 1..n + 1 : i \in P
        PROVE  j \in P
    <3>1. head[j] = FieldAt(value, key, keepEmpty, j) /\ next[j] = Behind(value, key, j)
      BY <1>3, <1>6
    <3>2. g[Behind(value, key, j)] = f[Behind(value, key, j)]
      BY <1>4, <2>2
    <3>3. g[j] = FieldAt(value, key, keepEmpty, j) \o g[Behind(value, key, j)]
      BY <1>19
    <3>4. f[j] = FieldAt(value, key, keepEmpty, j) \o f[Behind(value, key, j)]
      BY <1>10, <3>1
    <3>5. g[j] = f[j]
      BY <3>2, <3>3, <3>4, Zenon
    <3>6. j \in 1..n + 1
      OBVIOUS
    <3>. QED
      BY <3>5, <3>6
  <2>3. \A j \in 1..n + 1 : j \in P
    <3>. HIDE DEF P
    <3>. QED
      BY <2>1, <2>2, Downwards
  <2>. QED
    BY <2>3
<1>21. g = f
  <2>1. g = [j \in 1..n + 1 |-> g[j]] /\ f = [j \in 1..n + 1 |-> f[j]]
    BY <1>10, <1>15 DEF SplitFrom
  <2>2. [j \in 1..n + 1 |-> g[j]] = [j \in 1..n + 1 |-> f[j]]
    BY <1>20, Zenon
  <2>. QED
    BY <2>1, <2>2, Zenon
<1>22. SplitBy(g, value, key, keepEmpty, n, V)
  <2>. HIDE DEF Body
  <2>1. g \in [1..n + 1 -> Seq(V)]
    BY <1>10, <1>21
  <2>. QED
    BY <1>4, <1>16, <1>18, <1>19, <2>1, Zenon DEF SplitBy
<1>. QED
  BY <1>22

\* fields are the values of fld at the places of X, in order.
Listed(fields, X, fld) ==
  \E order \in [DOMAIN fields -> X] :
    /\ \A k, l \in DOMAIN fields : k < l => order[k] < order[l]
    /\ X = {order[k] : k \in DOMAIN fields}
    /\ \A k \in DOMAIN fields : fields[k] = fld[order[k]]

\* No field for no place.
LEMMA ListedNone ==
  ASSUME NEW fld
  PROVE  Listed(<<>>, {}, fld)
<1>1. DOMAIN <<>> = {}
  OBVIOUS
<1>2. PICK order : order = [k \in {} |-> 0]
  OBVIOUS
<1>3. order \in [{} -> {}]
  BY <1>2
<1>. QED
  BY <1>1, <1>3 DEF Listed

\* One more field, for a place before the others.
LEMMA ListedMore ==
  ASSUME NEW V, NEW fields \in Seq(V), NEW X \in SUBSET Nat, NEW fld, Listed(fields, X, fld),
         NEW b \in Nat, \A x \in X : b < x, NEW v \in V, v = fld[b]
  PROVE  Listed(<<v>> \o fields, {b} \union X, fld)
<1>1. PICK n \in Nat : n = Len(fields) /\ DOMAIN fields = 1..n
  BY LenProperties
<1>2. PICK order \in [1..n -> X] :
        /\ \A k, l \in 1..n : k < l => order[k] < order[l]
        /\ X = {order[k] : k \in 1..n}
        /\ \A k \in 1..n : fields[k] = fld[order[k]]
  BY <1>1 DEF Listed
<1>3. PICK one \in Seq(V) : one = <<v>> /\ Len(one) = 1 /\ one[1] = v
  <2>1. <<v>> \in Seq(V) /\ Len(<<v>>) = 1 /\ <<v>>[1] = v
    OBVIOUS
  <2>. QED
    BY <2>1
<1>4. PICK all : all = <<v>> \o fields
  OBVIOUS
<1>5. /\ all \in Seq(V) /\ Len(all) = Len(one) + Len(fields)
      /\ \A k \in 1..Len(one) + Len(fields) :
           all[k] = IF k <= Len(one) THEN one[k] ELSE fields[k - Len(one)]
  BY <1>3, <1>4, ConcatProperties, Zenon
<1>6. all[1] = v /\ \A k \in 1..n : all[k + 1] = fields[k]
  <2>1. 1 \in 1..1 + n /\ \A k \in 1..n : k + 1 \in 1..1 + n /\ ~(k + 1 <= 1) /\ (k + 1) - 1 = k
    OBVIOUS
  <2>2. \A k \in 1..1 + n : all[k] = IF k <= 1 THEN one[k] ELSE fields[k - 1]
    BY <1>1, <1>3, <1>5
  <2>. QED
    BY <1>3, <2>1, <2>2
<1>7. DOMAIN all = 1..n + 1
  <2>1. DOMAIN all = 1..Len(all)
    BY <1>5, LenProperties
  <2>2. Len(all) = n + 1
    BY <1>1, <1>3, <1>5
  <2>. QED
    BY <2>1, <2>2
<1>8. PICK more : more = [k \in 1..n + 1 |-> IF k = 1 THEN b ELSE order[k - 1]]
  OBVIOUS
<1>9. \A k \in 1..n + 1 : k = 1 \/ \E l \in 1..n : k = l + 1
  <2>1. ASSUME NEW k \in 1..n + 1, k # 1
        PROVE  \E l \in 1..n : k = l + 1
    <3>1. k - 1 \in 1..n /\ k = (k - 1) + 1
      BY <2>1
    <3>. QED
      BY <3>1
  <2>. QED
    BY <2>1
<1>10. more[1] = b /\ \A k \in 1..n : k + 1 \in 1..n + 1 /\ more[k + 1] = order[k]
  <2>1. 1 \in 1..n + 1 /\ \A k \in 1..n : k + 1 \in 1..n + 1 /\ k + 1 # 1 /\ (k + 1) - 1 = k
    OBVIOUS
  <2>. QED
    BY <1>8, <2>1
<1>11. more \in [1..n + 1 -> {b} \union X]
  <2>1. ASSUME NEW k \in 1..n + 1
        PROVE  more[k] \in {b} \union X
    <3>1. CASE k = 1
      BY <1>10, <3>1
    <3>2. CASE k # 1
      <4>1. PICK l \in 1..n : k = l + 1
        BY <1>9, <3>2
      <4>2. order[l] \in X /\ more[k] = order[l]
        BY <1>10, <4>1
      <4>. QED
        BY <4>2
    <3>. QED
      BY <3>1, <3>2
  <2>. QED
    BY <1>8, <2>1
<1>12. ASSUME NEW k \in 1..n + 1, NEW l \in 1..n + 1, k < l
       PROVE  more[k] < more[l]
  <2>1. PICK j \in 1..n : l = j + 1
    <3>1. l # 1
      BY <1>12
    <3>. QED
      BY <1>9, <3>1
  <2>2. CASE k = 1
    BY <1>2, <1>10, <2>1, <2>2
  <2>3. CASE k # 1
    <3>1. PICK i \in 1..n : k = i + 1
      BY <1>9, <2>3
    <3>2. i < j
      BY <1>12, <2>1, <3>1
    <3>. QED
      BY <1>2, <1>10, <2>1, <3>1, <3>2
  <2>. QED
    BY <2>2, <2>3
<1>13. {b} \union X = {more[k] : k \in 1..n + 1}
  <2>1. ASSUME NEW x \in {b} \union X
        PROVE  \E k \in 1..n + 1 : x = more[k]
    <3>1. CASE x = b
      <4>1. 1 \in 1..n + 1
        OBVIOUS
      <4>. QED
        BY <1>10, <3>1, <4>1
    <3>2. CASE x \in X
      <4>1. PICK k \in 1..n : x = order[k]
        BY <1>2, <3>2
      <4>. QED
        BY <1>10, <4>1
    <3>. QED
      BY <3>1, <3>2
  <2>2. \A k \in 1..n + 1 : more[k] \in {b} \union X
    BY <1>11
  <2>. QED
    BY <2>1, <2>2
<1>14. ASSUME NEW k \in 1..n + 1
       PROVE  all[k] = fld[more[k]]
  <2>1. CASE k = 1
    BY <1>6, <1>10, <2>1
  <2>2. CASE k # 1
    <3>1. PICK i \in 1..n : k = i + 1
      BY <1>9, <2>2
    <3>. QED
      BY <1>2, <1>6, <1>10, <3>1
  <2>. QED
    BY <2>1, <2>2
<1>. QED
  BY <1>4, <1>7, <1>11, <1>12, <1>13, <1>14 DEF Listed

\* The run of uncovered places from i on.
RunEnd(free, i) == Max({j \in free : i..j \subseteq free})

\* It ends before the first place behind i that is covered.
LEMMA RunEndIs ==
  ASSUME NEW n \in Nat, NEW free \in SUBSET (1..n), NEW i \in 1..n, NEW e \in i + 1..n + 1,
         \A x \in i..e - 1 : x \in free, e \notin free
  PROVE  RunEnd(free, i) = e - 1
<1>. DEFINE T == {j \in free : i..j \subseteq free}
<1>1. e - 1 \in T
  <2>1. e - 1 \in i..e - 1
    OBVIOUS
  <2>. QED
    BY <2>1
<1>2. ASSUME NEW j \in T
      PROVE  j \in Int /\ e - 1 >= j
  <2>1. j \in 1..n /\ i..j \subseteq free
    OBVIOUS
  <2>2. e <= j => e \in i..j
    BY <2>1
  <2>. QED
    BY <2>1, <2>2
<1>3. RunEnd(free, i) = CHOOSE x \in T : \A y \in T : x >= y
  BY DEF RunEnd, Max
<1>4. PICK z : z = CHOOSE x \in T : \A y \in T : x >= y
  OBVIOUS
<1>. HIDE DEF T
<1>5. z \in T /\ \A y \in T : z >= y
  BY <1>1, <1>2, <1>4
<1>6. z \in Int /\ e - 1 >= z /\ z >= e - 1
  BY <1>1, <1>2, <1>5
<1>7. z = e - 1
  BY <1>6
<1>. QED
  BY <1>3, <1>4, <1>7

\* The places where a run of uncovered places begins whose field is kept.
Starts(free, fld, keepEmpty) ==
  {i \in free : i - 1 \notin free /\ (keepEmpty \/ fld[i] # <<>>)}

\* What Split agrees with.
SplitFor(value, key, keepEmpty, free, fld) ==
  Listed(Split(value, key, keepEmpty), Starts(free, fld, keepEmpty), fld)

LEMMA SplitListed ==
  ASSUME NEW S, NEW value \in Seq(S), NEW key \in Seq(S), key # <<>>, NEW keepEmpty \in BOOLEAN,
         NEW free, free = Free(value, key), NEW n \in Nat, n = Len(value),
         NEW fld, fld = [i \in 1..n |-> Trim(Sub(value, i, RunEnd(free, i)), {CR, LF})]
  PROVE  SplitFor(value, key, keepEmpty, free, fld)
<1>1. PICK K \in Nat \ {0} : K = Len(key)
  BY TakenIs
<1>2. PICK found \in SUBSET (1..n) :
        found = Occurs(value, key) /\ \A i \in found : i + K <= n + 1
  BY <1>1, TakenIs
<1>3. PICK taken \in SUBSET found : taken = Taken(value, key) /\ Greedy(taken, found, K)
  BY <1>1, <1>2, TakenIs
<1>4. Uncovered(free, n, taken, K)
  BY <1>1, <1>3, FreeIs
<1>5. free \in SUBSET (1..n)
  BY <1>4 DEF Uncovered
<1>6. PICK V : V = {Strip(value, key, j) : j \in 1..n}
  OBVIOUS
<1>7. \A j \in 1..n : Strip(value, key, j) \in V
  BY <1>6
<1>16. PICK g : SplitBy(g, value, key, keepEmpty, n, V)
  BY <1>6, SplitIs
<1>8. /\ Split(value, key, keepEmpty) = g[1]
      /\ g \in [1..n + 1 -> Seq(V)] /\ g[n + 1] = <<>>
      /\ \A j \in 1..n :
           /\ Behind(value, key, j) \in j + 1..n + 1
           /\ g[j] = FieldAt(value, key, keepEmpty, j) \o g[Behind(value, key, j)]
  BY <1>16, Zenon DEF SplitBy
<1>. DEFINE X(b) == {i \in Starts(free, fld, keepEmpty) : b <= i}
<1>. DEFINE Good(b) == Fresh(b, taken, K) /\ b - 1 \notin free
<1>. DEFINE P == {b \in 1..n + 1 : b = n + 1 \/ Good(b) => Listed(g[b], X(b), fld)}
<1>9. \A b : X(b) \subseteq 1..n /\ \A x \in X(b) : b <= x
  BY <1>5 DEF Starts
<1>10. n + 1 \in P
  <2>1. X(n + 1) = {}
    <3>1. \A x \in X(n + 1) : x \in 1..n /\ n + 1 <= x
      <4>. HIDE DEF X
      <4>. QED
        BY <1>9
    <3>2. \A x \in 1..n : ~(n + 1 <= x)
      OBVIOUS
    <3>. HIDE DEF X
    <3>. QED
      BY <3>1, <3>2
  <2>2. Listed(g[n + 1], X(n + 1), fld)
    <3>. HIDE DEF X
    <3>. QED
      BY <1>8, <2>1, ListedNone
  <2>. HIDE DEF X, Good
  <2>. QED
    BY <2>2
<1>11. ASSUME NEW b \in 1..n, \A i \in b + 1..n + 1 : i \in P
       PROVE  b \in P
  <2>1. SUFFICES ASSUME Good(b)
                 PROVE  Listed(g[b], X(b), fld)
    <3>. HIDE DEF X, Good
    <3>. QED
      OBVIOUS
  <2>2. b \in 1..n + 1 /\ b \in Nat
    OBVIOUS
  <2>3. PICK e \in b..n + 1 : /\ e = Search(value, key, b) /\ (e <= n => e \in found)
                              /\ \A i \in found : b <= i => e <= i
    BY <1>2, <2>2, SearchIs
  <2>4. /\ \A x \in b..e - 1 : x \in free
        /\ e \notin free
        /\ e <= n => /\ e + K \in 1..n + 1 /\ Fresh(e + K, taken, K)
                     /\ \A x \in e..e + K - 1 : x \notin free
    <3>1. First(e, b, n, K, found)
      BY <1>2, <2>3 DEF First
    <3>2. Fresh(b, taken, K)
      BY <2>1
    <3>. HIDE DEF X, P, Good
    <3>3. Run(e, b, n, K, taken, free)
      BY <1>3, <1>4, <2>2, <3>1, <3>2, Runs
    <3>. QED
      BY <3>3, Zenon DEF Run
  <2>5. PICK d \in b + 1..n + 1 : /\ d = Behind(value, key, b)
                                  /\ d = IF e = n + 1 THEN n + 1 ELSE e + K
    BY <1>1, <1>8, <2>3 DEF Behind
  <2>6. Listed(g[d], X(d), fld)
    <3>1. d \in P
      <4>. HIDE DEF P
      <4>. QED
        BY <1>11
    <3>2. d = n + 1 \/ Good(d)
      <4>1. SUFFICES ASSUME e # n + 1
                     PROVE  Good(d)
        BY <2>5
      <4>2. e <= n /\ d = e + K /\ e + K - 1 \in e..e + K - 1
        BY <2>3, <2>5, <4>1
      <4>. QED
        BY <2>4, <4>2
    <3>. HIDE DEF X, Good
    <3>. QED
      BY <3>1, <3>2
  <2>7. \A x \in e..d - 1 : x \notin free
    <3>1. CASE e = n + 1
      BY <2>5, <3>1
    <3>2. CASE e # n + 1
      BY <2>3, <2>4, <2>5, <3>2
    <3>. QED
      BY <3>1, <3>2
  <2>8. \A i \in X(b) : i = b \/ i \in X(d)
    <3>1. ASSUME NEW i \in X(b), i # b, ~(d <= i)
          PROVE  FALSE
      <4>1. i \in 1..n /\ b <= i /\ i \in free /\ i - 1 \notin free
        BY <1>5 DEF Starts
      <4>2. i \in b + 1..d - 1
        BY <3>1, <4>1
      <4>3. CASE i < e
        <5>1. i - 1 \in b..e - 1
          BY <4>2, <4>3
        <5>. QED
          BY <2>4, <4>1, <5>1
      <4>4. CASE ~(i < e)
        <5>1. i \in e..d - 1
          BY <4>2, <4>4
        <5>. QED
          BY <2>7, <4>1, <5>1
      <4>. QED
        BY <4>3, <4>4
    <3>. QED
      BY <3>1
  <2>9. \A i \in X(d) : i \in X(b) /\ b < i
    <3>1. \A i \in X(d) : i \in 1..n /\ d <= i /\ i \in Starts(free, fld, keepEmpty)
      BY <1>9
    <3>2. \A i \in 1..n : d <= i => b < i /\ b <= i
      OBVIOUS
    <3>. QED
      BY <3>1, <3>2
  <2>10. CASE b \in X(b)
    <3>1. b \in free /\ (keepEmpty \/ fld[b] # <<>>)
      BY <2>10 DEF Starts
    <3>2. e \in b + 1..n + 1
      <4>1. e # b
        BY <2>4, <3>1
      <4>. QED
        BY <4>1
    <3>3. RunEnd(free, b) = e - 1
      <4>. HIDE DEF X, P, Good
      <4>. QED
        BY <1>5, <2>4, <3>2, RunEndIs
    <3>4. fld[b] = Strip(value, key, b)
      BY <2>3, <3>3 DEF Strip
    <3>5. FieldAt(value, key, keepEmpty, b) = <<fld[b]>>
      <4>1. b # e
        BY <3>2
      <4>. QED
        BY <2>3, <3>1, <3>4, <4>1 DEF FieldAt, Strip
    <3>6. PICK v \in V : v = fld[b]
      BY <1>7, <3>4
    <3>7. g[b] = <<v>> \o g[d]
      BY <1>8, <2>5, <3>5, <3>6
    <3>8. X(b) = {b} \union X(d)
      <4>. HIDE DEF X
      <4>. QED
        BY <2>8, <2>9, <2>10
    <3>9. g[d] \in Seq(V) /\ X(d) \in SUBSET Nat /\ \A x \in X(d) : b < x
      <4>1. d \in 1..n + 1
        OBVIOUS
      <4>2. X(d) \subseteq 1..n
        BY <1>9
      <4>. HIDE DEF X
      <4>. QED
        BY <1>8, <2>9, <4>1, <4>2
    <3>. HIDE DEF X, P, Good
    <3>10. Listed(<<v>> \o g[d], {b} \union X(d), fld)
      BY <2>2, <2>6, <3>6, <3>9, ListedMore
    <3>. QED
      BY <3>7, <3>8, <3>10
  <2>11. CASE b \notin X(b)
    <3>1. FieldAt(value, key, keepEmpty, b) = <<>>
      <4>1. CASE b = e
        BY <2>3, <4>1 DEF FieldAt
      <4>2. CASE b # e
        <5>1. e \in b + 1..n + 1 /\ b \in b..e - 1
          BY <4>2
        <5>2. RunEnd(free, b) = e - 1
          <6>. HIDE DEF X, P, Good
          <6>. QED
            BY <1>5, <2>4, <5>1, RunEndIs
        <5>3. fld[b] = Strip(value, key, b)
          BY <2>3, <5>2 DEF Strip
        <5>4. ~(keepEmpty \/ fld[b] # <<>>)
          BY <2>1, <2>4, <2>11, <5>1 DEF Starts
        <5>. QED
          BY <2>3, <5>3, <5>4 DEF FieldAt, Strip
      <4>. QED
        BY <4>1, <4>2
    <3>2. g[b] = g[d]
      <4>1. d \in 1..n + 1
        OBVIOUS
      <4>2. <<>> \o g[d] = g[d]
        BY <1>8, <4>1, ConcatEmptySeq
      <4>. QED
        BY <1>8, <2>5, <3>1, <4>2
    <3>3. X(b) = X(d)
      <4>. HIDE DEF X
      <4>. QED
        BY <2>8, <2>9, <2>11
    <3>. HIDE DEF X, P, Good
    <3>. QED
      BY <2>6, <3>2, <3>3
  <2>. QED
    BY <2>10, <2>11
<1>12. 1 \in P
  <2>. HIDE DEF P
  <2>1. \A b \in 1..n + 1 : b \in P
    BY <1>10, <1>11, Downwards
  <2>. QED
    BY <2>1
<1>13. Good(1)
  <2>1. 1 - 1 \notin free
    BY <1>5
  <2>2. \A t \in taken : ~(t < 1)
    OBVIOUS
  <2>. QED
    BY <2>1, <2>2 DEF Fresh
<1>14. X(1) = Starts(free, fld, keepEmpty)
  BY <1>5 DEF Starts
<1>15. Listed(g[1], X(1), fld)
  <2>. HIDE DEF X, Good
  <2>. QED
    BY <1>12, <1>13
<1>. QED
  BY <1>8, <1>14, <1>15 DEF SplitFor

\* Split agrees with what the keys leave free.
LEMMA SplitRight ==
  ASSUME text \in Seq(Characters)
  PROVE  SplitAgrees
<1>1. PICK n \in Nat : n = Len(text)
  BY LenProperties
<1>2. ASSUME NEW key \in Keys, NEW keepEmpty \in BOOLEAN
      PROVE  LET fields == Split(text, key, keepEmpty)
                 free == Free(text, key)
                 EndOf(i) == Max({j \in free : i..j \subseteq free})
                 Field(i) == Trim(Sub(text, i, EndOf(i)), {CR, LF})
                 starts == {i \in free : i - 1 \notin free /\ (keepEmpty \/ Field(i) # <<>>)}
             IN  \E order \in [DOMAIN fields -> starts] :
                   /\ \A m, l \in DOMAIN fields : m < l => order[m] < order[l]
                   /\ starts = {order[m] : m \in DOMAIN fields}
                   /\ \A m \in DOMAIN fields : fields[m] = Field(order[m])
  <2>1. key \in Seq(Characters) /\ key # <<>>
    BY TextAssumption DEF TextAssumption
  <2>. DEFINE free == Free(text, key)
  <2>. DEFINE fields == Split(text, key, keepEmpty)
  <2>2. free = Free(text, key)
    OBVIOUS
  <2>3. fields = Split(text, key, keepEmpty)
    OBVIOUS
  <2>. HIDE DEF free, fields
  <2>. DEFINE Field(i) == Trim(Sub(text, i, RunEnd(free, i)), {CR, LF})
  <2>. DEFINE starts == {i \in free : i - 1 \notin free /\ (keepEmpty \/ Field(i) # <<>>)}
  <2>4. free \subseteq 1..n
    BY <1>1, <2>1, <2>2, FreeIs DEF Uncovered
  <2>5. PICK fld : fld = [i \in 1..n |-> Field(i)]
    OBVIOUS
  <2>6. \A i \in free : fld[i] = Field(i)
    BY <2>4, <2>5
  <2>7. SplitFor(text, key, keepEmpty, free, fld)
    BY <1>1, <2>1, <2>2, <2>5, SplitListed
  <2>8. Starts(free, fld, keepEmpty) = starts
    <3>. HIDE DEF Field
    <3>. QED
      BY <2>6 DEF Starts
  <2>9. Listed(fields, starts, fld)
    BY <2>3, <2>7, <2>8 DEF SplitFor
  <2>10. PICK order \in [DOMAIN fields -> starts] :
           /\ \A m, l \in DOMAIN fields : m < l => order[m] < order[l]
           /\ starts = {order[m] : m \in DOMAIN fields}
           /\ \A m \in DOMAIN fields : fields[m] = fld[order[m]]
    <3>. HIDE DEF starts
    <3>. QED
      BY <2>9 DEF Listed
  <2>11. \A m \in DOMAIN fields : fields[m] = Field(order[m])
    <3>1. \A i \in starts : i \in free
      OBVIOUS
    <3>. HIDE DEF starts, Field
    <3>. QED
      BY <2>6, <2>10, <3>1
  <2>12. \E o \in [DOMAIN fields -> starts] :
           /\ \A m, l \in DOMAIN fields : m < l => o[m] < o[l]
           /\ starts = {o[m] : m \in DOMAIN fields}
           /\ \A m \in DOMAIN fields : fields[m] = Field(o[m])
    <3>. HIDE DEF starts, Field
    <3>. QED
      BY <2>10, <2>11
  <2>. QED
    BY <2>12, Zenon DEF RunEnd, free, fields
<1>. QED
  BY <1>2, Zenon DEF SplitAgrees

\* The lines and the chunks hold the text.
LEMMA LinesRight ==
  ASSUME text \in Seq(Characters)
  PROVE  LinesKeepText
<1>1. ASSUME NEW chunk \in 1..MaxText
      PROVE  /\ FlattenSeq(SplitString(text, chunk)) = text
             /\ \A i \in DOMAIN SplitString(text, chunk) :
                  LET chunks == SplitString(text, chunk)
                  IN  Len(chunks[i]) = chunk \/ (i = Len(chunks) /\ Len(chunks[i]) \in 1..chunk)
  <2>1. chunk \in Nat \ {0}
    BY TextAssumption DEF TextAssumption
  <2>. QED
    BY <2>1, ChunksKeep
<1>. QED
  BY <1>1, LinesKeep, Zenon DEF LinesKeepText

\* The bytes of the text come back.
LEMMA HexRight ==
  ASSUME text \in Seq(Characters)
  PROVE  HexKeepsText
<1>1. PICK n \in Nat : n = Len(text) /\ DOMAIN text = 1..n /\ \A i \in 1..n : text[i] \in Characters
  BY LenProperties
<1>2. PICK bytes : bytes = [i \in DOMAIN text |-> Code[text[i]]]
  OBVIOUS
<1>3. PICK B : B = 0..255
  OBVIOUS
<1>4. Elements(n, bytes, B)
  <2>1. \A i \in 1..n : Code[text[i]] \in B
    BY <1>1, <1>3, TextAssumption DEF TextAssumption
  <2>. QED
    BY <1>1, <1>2, <2>1 DEF Elements
<1>5. bytes \in Seq(0..255)
  BY <1>3, <1>4, ListIs
<1>6. AsHexString2Byte(<<Space>> \o AsByte2HexString(bytes)) = bytes
  BY <1>5, HexBack
<1>. QED
  BY <1>2, <1>6 DEF HexKeepsText

\* The text is one.
TextIs == text \in Seq(Characters)

\* TextKept holds of every text that can be typed: whatever the characters and the keys, Split
\* returns what the keys leave free, in order and trimmed; SplitLines and SplitString lose
\* nothing; and bytes come back from their digits.
THEOREM TextsKept == TextSpec => []TextKept
<1>1. TextInit => TextIs
  BY DEF TextInit, TextIs
<1>2. TextIs /\ [Typed]_text => TextIs'
  <2>1. ASSUME text \in Seq(Characters), NEW c \in Characters, text' = Append(text, c)
        PROVE  text' \in Seq(Characters)
    BY <2>1
  <2>. QED
    BY <2>1 DEF Typed, TextIs
<1>3. TextIs => TextKept
  BY SplitRight, LinesRight, HexRight DEF TextKept, TextIs
<1>. QED
  BY <1>1, <1>2, <1>3, PTL DEF TextSpec
===============================================================================
