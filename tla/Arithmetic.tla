----------------------------- MODULE Arithmetic -----------------------------
(* Division with rest, rings of blocks and the queues in them, and numbers *)
(* written in digits of different bases.                                   *)
EXTENDS FiniteSetTheorems, SequenceTheorems, TLAPS

\* Division and remainder from a quotient and a rest.
LEMMA DivModUnique ==
  ASSUME NEW n \in Nat \ {0}, NEW q \in Nat, NEW r \in 0 .. n - 1,
         NEW a \in Int, a = n * q + r
  PROVE  a \div n = q /\ a % n = r
OBVIOUS

\* A quotient and a rest there always are.
LEMMA DivModExist ==
  ASSUME NEW n \in Nat \ {0}, NEW a \in Nat
  PROVE  \E q \in Nat, r \in 0 .. n - 1 : a = n * q + r
<1>1. a \div n \in Nat /\ a % n \in 0 .. n - 1 /\ a = n * (a \div n) + (a % n)
  OBVIOUS
<1> QED BY <1>1

-----------------------------------------------------------------------------
(* Rings of n blocks. *)

\* One step round a ring of n blocks (n_block of a databuf).
LEMMA ModIncrement ==
  ASSUME NEW n \in Nat \ {0}, NEW i \in 0 .. n - 1
  PROVE  (i + 1) % n = IF i + 1 = n THEN 0 ELSE i + 1
OBVIOUS

\* What is j blocks further in time is j blocks further round the ring.
LEMMA ModSum ==
  ASSUME NEW n \in Nat \ {0}, NEW k \in Nat, NEW j \in Nat
  PROVE  (k + j) % n = ((k % n) + j) % n
<1>1. PICK q \in Nat, r \in 0 .. n - 1 : k = n * q + r
  BY DivModExist
<1>2. k % n = r
  BY <1>1, DivModUnique
<1> DEFINE x == r + j
           y == k + j
<1>3. x \in Nat /\ y \in Nat
  OBVIOUS
<1>4. PICK p \in Nat, s \in 0 .. n - 1 : x = n * p + s
  <2> HIDE DEF x
  <2> QED BY <1>3, DivModExist
<1>5. y = n * (q + p) + s /\ q + p \in Nat
  BY <1>1, <1>4
<1>6. x % n = s /\ y % n = s
  <2> HIDE DEF x, y
  <2>1. x % n = s
    BY <1>3, <1>4, DivModUnique
  <2>2. y % n = s
    <3> DEFINE z == q + p
    <3>1. z \in Nat /\ y = n * z + s
      BY <1>5
    <3> HIDE DEF z
    <3> QED BY <1>3, <3>1, DivModUnique
  <2> QED BY <2>1, <2>2
<1> QED BY <1>2, <1>6

\* Numbers less than n apart that are the same block of a ring of n are equal.
LEMMA ModInjective ==
  ASSUME NEW n \in Nat \ {0}, NEW a \in Nat, NEW b \in Nat,
         a <= b, b < a + n, a % n = b % n
  PROVE  a = b
<1>1. PICK q \in Nat, r \in 0 .. n - 1 : a = n * q + r
  BY DivModExist
<1>2. PICK p \in Nat, s \in 0 .. n - 1 : b = n * p + s
  BY DivModExist
<1>3. r = s
  BY <1>1, <1>2, DivModUnique
<1>4. n * (p - q) >= 0 /\ n * (p - q) < n
  BY <1>1, <1>2, <1>3
<1>5. p - q >= 0 /\ p - q < 1
  BY <1>4
<1> QED BY <1>1, <1>2, <1>3, <1>5

\* A function on the first numbers is a sequence.
LEMMA FunctionIsSeq ==
  ASSUME NEW d \in Nat, NEW g, DOMAIN g = 1 .. d, g = [k \in 1 .. d |-> g[k]]
  PROVE  \E S : g \in Seq(S) /\ Len(g) = d
<1> DEFINE S == {g[k] : k \in 1 .. d}
<1>1. g \in [1 .. d -> S]
  OBVIOUS
<1>2. g \in Seq(S)
  BY <1>1, SeqDef
<1> HIDE DEF S
<1>3. Len(g) \in Nat /\ DOMAIN g = 1 .. Len(g)
  BY <1>2, LenProperties
<1>4. Len(g) = d
  BY <1>3
<1> QED BY <1>2, <1>4

\* Going round the ring at most once from one of its blocks.
LEMMA ModWithinTwo ==
  ASSUME NEW n \in Nat \ {0}, NEW a \in 0 .. 2 * n - 1
  PROVE  a % n = IF a < n THEN a ELSE a - n
<1>1. CASE a < n
  BY <1>1
<1>2. CASE a >= n
  <2> DEFINE d == a - n
  <2>1. d \in 0 .. n - 1 /\ a = n * 1 + d /\ a \in Nat
    BY <1>2
  <2> HIDE DEF d
  <2>2. a % n = d
    BY <2>1, DivModUnique
  <2> QED BY <1>2, <2>2 DEF d
<1> QED BY <1>1, <1>2

\* The blocks of a ring of n from block i on, as many as are filled.
RingQueue(n, i, filled, item) ==
  [k \in 1 .. Cardinality(filled) |-> item[(i + k - 1) % n]]

\* The queue is as long as there are filled blocks.
LEMMA RingQueueLen ==
  ASSUME NEW n, NEW i, NEW filled, IsFiniteSet(filled), NEW item
  PROVE  Len(RingQueue(n, i, filled, item)) = Cardinality(filled)
<1> DEFINE d == Cardinality(filled)
           q == RingQueue(n, i, filled, item)
<1>1. d \in Nat /\ q = [k \in 1 .. d |-> item[(i + k - 1) % n]]
  BY FS_CardinalityType DEF RingQueue
<1>2. DOMAIN q = 1 .. d /\ q = [k \in 1 .. d |-> q[k]]
  BY <1>1
<1> HIDE DEF d, q
<1> QED BY <1>1, <1>2, FunctionIsSeq DEF d, q

\* A block put where the queue ends changes nothing in front of it.
LEMMA RingQueuePut ==
  ASSUME NEW n, NEW i, NEW filled, IsFiniteSet(filled), NEW item,
         NEW more, Cardinality(more) = Cardinality(filled) + 1
  PROVE  SubSeq(RingQueue(n, i, more, item), 1, Cardinality(filled))
           = RingQueue(n, i, filled, item)
<1> DEFINE d == Cardinality(filled)
           old == RingQueue(n, i, filled, item)
           put == RingQueue(n, i, more, item)
<1>1. d \in Nat /\ Cardinality(more) = d + 1
  BY FS_CardinalityType
<1>2. /\ old = [k \in 1 .. d |-> item[(i + k - 1) % n]]
      /\ put = [k \in 1 .. d + 1 |-> item[(i + k - 1) % n]]
  BY <1>1 DEF RingQueue
<1> HIDE DEF d, old, put
<1>3. PICK S : old \in Seq(S) /\ Len(old) = d
  BY <1>1, <1>2, FunctionIsSeq
<1>4. PICK T : put \in Seq(T) /\ Len(put) = d + 1
  <2>1. d + 1 \in Nat /\ DOMAIN put = 1 .. d + 1 /\ put = [k \in 1 .. d + 1 |-> put[k]]
    BY <1>1, <1>2
  <2> QED BY <2>1, FunctionIsSeq
<1>5. \A k \in 1 .. d : put[k] = old[k]
  BY <1>1, <1>2 DEF d
<1>6. SubSeq(put, 1, d) = old
  <2>1. \A k \in 1 .. d : put[k] \in S
    BY <1>1, <1>3, <1>5, ElementOfSeq
  <2>2. /\ SubSeq(put, 1, d) \in Seq(S)
        /\ Len(SubSeq(put, 1, d)) = d
        /\ \A k \in 1 .. d : SubSeq(put, 1, d)[k] = put[k]
    BY <1>1, <2>1, SubSeqProperties
  <2> QED BY <1>1, <1>3, <1>5, <2>2, SeqEqual
<1> QED BY <1>6 DEF old, put, d

\* Giving the first block back and going on to the next removes the first item.
LEMMA RingQueueGiveBack ==
  ASSUME NEW n \in Nat \ {0}, NEW i \in Nat, NEW filled, IsFiniteSet(filled),
         NEW less, Cardinality(less) = Cardinality(filled) - 1, Cardinality(less) \in Nat,
         NEW next, next = (i + 1) % n, NEW item
  PROVE  /\ RingQueue(n, i, filled, item) # <<>>
         /\ RingQueue(n, next, less, item) = Tail(RingQueue(n, i, filled, item))
<1> DEFINE d == Cardinality(filled)
           old == RingQueue(n, i, filled, item)
           rest == RingQueue(n, next, less, item)
<1>1. d \in Nat /\ d - 1 \in Nat /\ Cardinality(less) = d - 1
  BY FS_CardinalityType
<1>2. /\ old = [k \in 1 .. d |-> item[(i + k - 1) % n]]
      /\ rest = [k \in 1 .. d - 1 |-> item[(((i + 1) % n) + k - 1) % n]]
  BY <1>1 DEF RingQueue
<1> HIDE DEF d, old, rest
<1>3. PICK S : old \in Seq(S) /\ Len(old) = d
  BY <1>1, <1>2, FunctionIsSeq
<1>4. PICK T : rest \in Seq(T) /\ Len(rest) = d - 1
  BY <1>1, <1>2, FunctionIsSeq
<1>5. old # <<>>
  BY <1>1, <1>3
<1>6. /\ Tail(old) \in Seq(S) /\ Len(Tail(old)) = d - 1
      /\ \A k \in 1 .. d - 1 : Tail(old)[k] = old[k + 1]
  BY <1>3, <1>5, HeadTailProperties
<1>7. ASSUME NEW k \in 1 .. d - 1 PROVE rest[k] = old[k + 1]
  <2>1. (((i + 1) % n) + k - 1) % n = (i + (k + 1) - 1) % n
    <3> DEFINE a == i + 1
               j == k - 1
    <3>1. a \in Nat /\ j \in Nat
      BY <1>1
    <3>2. (a + j) % n = ((a % n) + j) % n
      <4> HIDE DEF a, j
      <4> QED BY <3>1, ModSum
    <3> QED BY <1>1, <3>2
  <2> QED BY <1>1, <1>2, <2>1
<1>8. Tail(old) = rest
  <2>1. \A k \in 1 .. d - 1 : rest[k] \in S
    BY <1>1, <1>3, <1>7, ElementOfSeq
  <2>2. rest \in Seq(S)
    <3>1. rest \in [1 .. d - 1 -> S]
      BY <1>2, <2>1
    <3> QED BY <1>1, <3>1, SeqDef
  <2> QED BY <1>4, <1>6, <1>7, <2>2, SeqEqual
<1> QED BY <1>5, <1>8 DEF old, rest

-----------------------------------------------------------------------------
(* Digits. *)

\* One more digit d in base n: the number and what it says.
Digit(n, q, d) == n * q + d

\* A number below x with one more digit stays below n * x.
LEMMA DigitRange ==
  ASSUME NEW n \in Nat \ {0}, NEW x \in Nat, NEW q \in 0 .. x - 1, NEW d \in 0 .. n - 1
  PROVE  /\ Digit(n, q, d) \in 0 .. n * x - 1
         /\ n * x \in Nat
         /\ Digit(n, q, d) \in Nat
<1>1. n * q <= n * (x - 1)
  OBVIOUS
<1>2. n * (x - 1) = n * x - n
  OBVIOUS
<1>3. n * q \in Nat /\ n * x \in Nat
  OBVIOUS
<1>4. n * q + d <= n * x - 1
  BY <1>1, <1>2, <1>3
<1> QED BY <1>3, <1>4 DEF Digit

\* The last digit and the number before it can be read off.
LEMMA DigitRead ==
  ASSUME NEW n \in Nat \ {0}, NEW q \in Nat, NEW d \in 0 .. n - 1
  PROVE  Digit(n, q, d) \div n = q /\ Digit(n, q, d) % n = d
<1>1. Digit(n, q, d) \in Int
  BY DEF Digit
<1> QED BY <1>1, DivModUnique DEF Digit

\* A number below n * x is a number below x and a digit.
LEMMA DigitSplit ==
  ASSUME NEW n \in Nat \ {0}, NEW x \in Nat, NEW a \in 0 .. n * x - 1
  PROVE  a \div n \in 0 .. x - 1 /\ a % n \in 0 .. n - 1 /\ a = Digit(n, a \div n, a % n)
<1>1. a \in Nat
  <2>1. n * x \in Nat
    OBVIOUS
  <2> QED BY <2>1
<1>2. a \div n \in Nat /\ a % n \in 0 .. n - 1 /\ a = n * (a \div n) + (a % n)
  BY <1>1
<1>3. a \div n < x
  <2> SUFFICES ASSUME a \div n >= x PROVE FALSE
    BY <1>2
  <2>1. n * (a \div n) >= n * x
    BY <1>2
  <2> DEFINE y == n * x
             z == n * (a \div n)
  <2>2. a < y /\ a >= z /\ z >= y /\ y \in Nat /\ z \in Nat
    BY <1>2, <2>1
  <2> HIDE DEF y, z
  <2> QED BY <1>1, <2>2
<1> QED BY <1>2, <1>3 DEF Digit

\* Dividing in turn is dividing by the product.
LEMMA DivDiv ==
  ASSUME NEW n \in Nat \ {0}, NEW m \in Nat \ {0}, NEW a \in Nat
  PROVE  (a \div n) \div m = a \div (m * n)
<1>1. PICK q \in Nat, r \in 0 .. n - 1 : a = n * q + r
  BY DivModExist
<1>2. PICK p \in Nat, s \in 0 .. m - 1 : q = m * p + s
  BY DivModExist
<1>3. a \div n = q /\ q \div m = p
  BY <1>1, <1>2, DivModUnique
<1>4. a = (m * n) * p + (n * s + r)
  BY <1>1, <1>2
<1>5. n * s + r \in 0 .. (m * n) - 1
  <2>1. n * s + r \in Nat
    OBVIOUS
  <2>2. n * s <= n * (m - 1)
    OBVIOUS
  <2>3. n * s + r <= n * (m - 1) + n - 1
    BY <2>2
  <2> QED BY <2>1, <2>3
<1>6. m * n \in Nat \ {0}
  OBVIOUS
<1>7. a \div (m * n) = p
  <2> DEFINE b == m * n
             t == n * s + r
  <2>1. b \in Nat \ {0} /\ t \in 0 .. b - 1 /\ a = b * p + t
    BY <1>4, <1>5, <1>6
  <2> HIDE DEF b, t
  <2>2. a \div b = p
    BY <2>1, DivModUnique
  <2> QED BY <2>2 DEF b
<1> QED BY <1>3, <1>7

-----------------------------------------------------------------------------
(* A number of five digits; n1 to n4 are the bases of the last four. *)

Number(n1, n2, n3, n4, d0, d1, d2, d3, d4) ==
  Digit(n4, Digit(n3, Digit(n2, Digit(n1, d0, d1), d2), d3), d4)

\* How large a number is.
LEMMA NumberRange ==
  ASSUME NEW n0 \in Nat \ {0}, NEW n1 \in Nat \ {0}, NEW n2 \in Nat \ {0},
         NEW n3 \in Nat \ {0}, NEW n4 \in Nat \ {0},
         NEW d0 \in 0 .. n0 - 1, NEW d1 \in 0 .. n1 - 1, NEW d2 \in 0 .. n2 - 1,
         NEW d3 \in 0 .. n3 - 1, NEW d4 \in 0 .. n4 - 1
  PROVE  Number(n1, n2, n3, n4, d0, d1, d2, d3, d4) \in 0 .. n4 * (n3 * (n2 * (n1 * n0))) - 1
<1> DEFINE x1 == Digit(n1, d0, d1)
           x2 == Digit(n2, x1, d2)
           x3 == Digit(n3, x2, d3)
           x4 == Digit(n4, x3, d4)
           b1 == n1 * n0
           b2 == n2 * b1
           b3 == n3 * b2
           b4 == n4 * b3
<1>1. x1 \in 0 .. b1 - 1 /\ b1 \in Nat
  BY DigitRange
<1>2. x2 \in 0 .. b2 - 1 /\ b2 \in Nat
  <2> HIDE DEF x1, b1
  <2> QED BY <1>1, DigitRange
<1>3. x3 \in 0 .. b3 - 1 /\ b3 \in Nat
  <2> HIDE DEF x2, b2
  <2> QED BY <1>2, DigitRange
<1>4. x4 \in 0 .. b4 - 1
  <2> HIDE DEF x3, b3
  <2> QED BY <1>3, DigitRange
<1> QED BY <1>4 DEF Number

\* What x reads as, from the last digit to the first.
ReadsAs(n1, n2, n3, n4, x, d0, d1, d2, d3, d4) ==
  LET x3 == x \div n4
      x2 == x3 \div n3
      x1 == x2 \div n2
  IN  d0 = x1 \div n1 /\ d1 = x1 % n1 /\ d2 = x2 % n2 /\ d3 = x3 % n3 /\ d4 = x % n4

\* A number's digits are what it was made of, so equal numbers have equal digits.
LEMMA NumberRead ==
  ASSUME NEW n1 \in Nat \ {0}, NEW n2 \in Nat \ {0}, NEW n3 \in Nat \ {0},
         NEW n4 \in Nat \ {0},
         NEW d0 \in Nat, NEW d1 \in 0 .. n1 - 1, NEW d2 \in 0 .. n2 - 1,
         NEW d3 \in 0 .. n3 - 1, NEW d4 \in 0 .. n4 - 1
  PROVE  ReadsAs(n1, n2, n3, n4, Number(n1, n2, n3, n4, d0, d1, d2, d3, d4), d0, d1, d2, d3, d4)
<1> DEFINE x1 == Digit(n1, d0, d1)
           x2 == Digit(n2, x1, d2)
           x3 == Digit(n3, x2, d3)
           x4 == Digit(n4, x3, d4)
<1>1. x1 \in Nat
  BY DEF Digit
<1>2. x2 \in Nat
  <2> HIDE DEF x1
  <2> QED BY <1>1 DEF Digit
<1>3. x3 \in Nat
  <2> HIDE DEF x2
  <2> QED BY <1>2 DEF Digit
<1>4. x4 \div n4 = x3 /\ x4 % n4 = d4
  <2> HIDE DEF x3
  <2> QED BY <1>3, DigitRead
<1>5. x3 \div n3 = x2 /\ x3 % n3 = d3
  <2> HIDE DEF x2
  <2> QED BY <1>2, DigitRead
<1>6. x2 \div n2 = x1 /\ x2 % n2 = d2
  <2> HIDE DEF x1
  <2> QED BY <1>1, DigitRead
<1>7. x1 \div n1 = d0 /\ x1 % n1 = d1
  BY DigitRead
<1>8. Number(n1, n2, n3, n4, d0, d1, d2, d3, d4) = x4
  BY DEF Number
<1> HIDE DEF x1, x2, x3, x4
<1> QED BY <1>4, <1>5, <1>6, <1>7, <1>8 DEF ReadsAs

\* x is made of five digits, each read off with a division and a remainder.
Splits(n0, n1, n2, n3, n4, x) ==
  /\ x \div (n1 * (n2 * (n3 * n4))) \in 0 .. n0 - 1
  /\ (x \div (n2 * (n3 * n4))) % n1 \in 0 .. n1 - 1
  /\ (x \div (n3 * n4)) % n2 \in 0 .. n2 - 1
  /\ (x \div n4) % n3 \in 0 .. n3 - 1
  /\ x % n4 \in 0 .. n4 - 1
  /\ x = Number(n1, n2, n3, n4, x \div (n1 * (n2 * (n3 * n4))),
                (x \div (n2 * (n3 * n4))) % n1, (x \div (n3 * n4)) % n2,
                (x \div n4) % n3, x % n4)

\* So is every number that is not too large.
LEMMA NumberSplit ==
  ASSUME NEW n0 \in Nat \ {0}, NEW n1 \in Nat \ {0}, NEW n2 \in Nat \ {0},
         NEW n3 \in Nat \ {0}, NEW n4 \in Nat \ {0},
         NEW x \in 0 .. n4 * (n3 * (n2 * (n1 * n0))) - 1
  PROVE  Splits(n0, n1, n2, n3, n4, x)
<1> DEFINE b1 == n1 * n0
           b2 == n2 * b1
           b3 == n3 * b2
           p3 == n3 * n4
           p2 == n2 * p3
           p1 == n1 * p2
           x3 == x \div n4
           x2 == x \div p3
           x1 == x \div p2
           x0 == x \div p1
<1>1. b1 \in Nat /\ b2 \in Nat /\ b3 \in Nat
  <2>1. b1 \in Nat
    OBVIOUS
  <2>2. b2 \in Nat
    <3> HIDE DEF b1
    <3> QED BY <2>1
  <2>3. b3 \in Nat
    <3> HIDE DEF b2
    <3> QED BY <2>2
  <2> QED BY <2>1, <2>2, <2>3
<1>2. p3 \in Nat \ {0} /\ p2 \in Nat \ {0}
  <2>1. p3 \in Nat \ {0}
    OBVIOUS
  <2>2. p2 \in Nat \ {0}
    <3> HIDE DEF p3
    <3> QED BY <2>1
  <2> QED BY <2>1, <2>2
<1>3. x \in 0 .. n4 * b3 - 1 /\ x \in Nat
  <2> DEFINE y == n4 * b3
  <2>1. x \in 0 .. y - 1 /\ y \in Nat
    <3>1. y \in Nat
      <4> HIDE DEF b3
      <4> QED BY <1>1
    <3> QED BY <3>1
  <2>2. x \in Nat
    <3> HIDE DEF y
    <3> QED BY <2>1
  <2> QED BY <2>1, <2>2
<1>4. x3 \in 0 .. b3 - 1 /\ x % n4 \in 0 .. n4 - 1 /\ x = Digit(n4, x3, x % n4)
  <2> HIDE DEF b3
  <2> QED BY <1>1, <1>3, DigitSplit
<1>5. x2 \in 0 .. b2 - 1 /\ x3 % n3 \in 0 .. n3 - 1 /\ x3 = Digit(n3, x2, x3 % n3)
  <2>1. x2 = x3 \div n3
    BY <1>3, DivDiv
  <2> HIDE DEF b2, x2, x3
  <2> QED BY <1>1, <1>4, <2>1, DigitSplit DEF b3
<1>6. x1 \in 0 .. b1 - 1 /\ x2 % n2 \in 0 .. n2 - 1 /\ x2 = Digit(n2, x1, x2 % n2)
  <2>1. x1 = x2 \div n2
    <3> HIDE DEF p3
    <3> QED BY <1>2, <1>3, DivDiv
  <2> HIDE DEF b1, x1, x2
  <2> QED BY <1>1, <1>5, <2>1, DigitSplit DEF b2
<1>7. x0 \in 0 .. n0 - 1 /\ x1 % n1 \in 0 .. n1 - 1 /\ x1 = Digit(n1, x0, x1 % n1)
  <2>1. x0 = x1 \div n1
    <3> HIDE DEF p2
    <3> QED BY <1>2, <1>3, DivDiv
  <2> HIDE DEF x0, x1
  <2> QED BY <1>6, <2>1, DigitSplit DEF b1
<1>8. x = Number(n1, n2, n3, n4, x0, x1 % n1, x2 % n2, x3 % n3, x % n4)
  <2> HIDE DEF x0, x1, x2, x3
  <2> QED BY <1>4, <1>5, <1>6, <1>7 DEF Number
<1> QED BY <1>4, <1>5, <1>6, <1>7, <1>8 DEF Splits
=============================================================================
