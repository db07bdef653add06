------------------------- MODULE SessionClockProofs -------------------------
(***************************************************************************)
(* Proofs about SessionClock, for every base and number of digits of the   *)
(* fraction, every timeout and every period of heartbeats and sweeps.      *)
(*                                                                         *)
(* What is proved of the texts is that the order of strings agrees with    *)
(* the order of times as far as the sweep and the mail need it. The        *)
(* invariant ClockInv places lastSeen relative to the next sweep (how long *)
(* a silent session keeps its row) and to the next heartbeat (how many     *)
(* heartbeats a running one has lost).                                     *)
(***************************************************************************)
EXTENDS SessionClock, WellFoundedInduction, TLAPS

-----------------------------------------------------------------------------
(* Arithmetic *)

\* A second has at least one smallest unit.
LEMMA SecondPositive == Second \in Nat \ {0}
BY ClockAssumption, PowersAssumption DEF Second

\* The timeout the broker takes is a positive number of seconds.
LEMMA TimeoutPositive == Timeout \in Nat \ {0}
BY ClockAssumption DEF Timeout

\* There are at least two digits to write with, and at least one is written.
LEMMA DigitsPositive == Base \in Nat \ {0, 1} /\ FractionDigits \in Nat \ {0}
BY ClockAssumption

\* Quotient and remainder of a time by a number of units.
LEMMA Division ==
    ASSUME NEW x \in Int, NEW m \in Nat \ {0}
    PROVE  /\ x \div m \in Int /\ x % m \in 0 .. m - 1
           /\ x = m * (x \div m) + (x % m)
OBVIOUS

\* The quotient is the only number with a remainder in its range.
LEMMA DivisionUnique ==
    ASSUME NEW x \in Int, NEW m \in Nat \ {0}, NEW q \in Int, NEW r \in 0 .. m - 1,
           x = m * q + r
    PROVE  x \div m = q
OBVIOUS

\* A larger time does not have fewer whole units.
LEMMA DivisionMonotone ==
    ASSUME NEW x \in Int, NEW y \in Int, NEW m \in Nat \ {0}, x <= y
    PROVE  x \div m <= y \div m
<1> DEFINE p == x \div m
           q == y \div m
<1>1. /\ p \in Int /\ q \in Int
      /\ m * p <= x /\ y < m * q + m
  BY Division
<1> HIDE DEF p, q
<1>2. ASSUME q < p PROVE FALSE
  <2>1. m * (q + 1) <= m * p
    BY <1>1, <1>2
  <2> QED
    BY <1>1, <2>1
<1> QED
  BY <1>1, <1>2 DEF p, q

\* A time whose whole seconds are at most those of another is less than a second later.
LEMMA SameSecondClose ==
    ASSUME NEW x \in Int, NEW y \in Int, NEW m \in Nat \ {0}, x \div m <= y \div m
    PROVE  x < y + m
OBVIOUS

\* A set of numbers that is not empty has a least one.
LEMMA LeastNumber ==
    ASSUME NEW T \in SUBSET Nat, T # {}
    PROVE  \E m \in T : \A y \in T : m <= y
<1> DEFINE R == OpToRel(<, Nat)
<1>1. IsWellFoundedOn(R, Nat)
  BY NatLessThanWellFounded
<1>2. ASSUME NEW x \in Nat, NEW y \in Nat, y < x
      PROVE  <<y, x>> \in R
  <2> DEFINE p == <<y, x>>
  <2>1. p \in Nat \X Nat /\ p[1] < p[2]
    BY <1>2
  <2> HIDE DEF p
  <2>2. p \in R
    BY <2>1, Zenon DEF OpToRel
  <2> QED
    BY <2>2 DEF p
<1> HIDE DEF R
<1>3. PICK m \in T : \A y \in T : ~ (<<y, m>> \in R)
  BY <1>1, WFMin
<1>4. ASSUME NEW y \in T
      PROVE  m <= y
  <2>1. ~(y < m)
    BY <1>2, <1>3
  <2> QED
    BY <2>1
<1> QED
  BY <1>4

\* Dividing twice is dividing by the product.
LEMMA DivisionTwice ==
    ASSUME NEW x \in Int, NEW a \in Nat \ {0}, NEW b \in Nat \ {0}
    PROVE  (x \div a) \div b = x \div (b * a)
<1> DEFINE u == x \div a
           v == x % a
           w == u \div b
           z == u % b
<1>1. u \in Int /\ v \in 0 .. a - 1 /\ x = a * u + v
  BY Division
<1>2. w \in Int /\ z \in 0 .. b - 1 /\ u = b * w + z
  BY <1>1, Division
<1> HIDE DEF u, v, w, z
<1>3. b * a \in Nat \ {0}
  OBVIOUS
<1>4. a * z + v \in 0 .. b * a - 1
  <2>1. a * z <= a * (b - 1)
    BY <1>2
  <2>2. a * z \in Nat
    BY <1>2
  <2> QED
    BY <1>1, <1>2, <2>1, <2>2
<1>5. x = (b * a) * w + (a * z + v)
  BY <1>1, <1>2
<1>6. x \div (b * a) = w
  BY <1>2, <1>3, <1>4, <1>5, DivisionUnique
<1> QED
  BY <1>6 DEF u, w

-----------------------------------------------------------------------------
(* Times as text *)

\* The fraction of a second is a number of units, less than a second.
LEMMA FractionOfSecond ==
    ASSUME NEW t \in Nat
    PROVE  t % Second \in 0 .. Second - 1
BY SecondPositive, Division

\* The number that the first k digits of the fraction of t show.
Leading(t, k) == (t % Second) \div (Base ^ (FractionDigits - k))

\* No digit leads to zero, all digits to the fraction, and every digit extends the
\* number that the digits before it show.
LEMMA LeadingDigits ==
    ASSUME NEW t \in Nat
    PROVE  /\ \A k \in 0 .. FractionDigits : Leading(t, k) \in Int
           /\ Leading(t, 0) = 0
           /\ Leading(t, FractionDigits) = t % Second
           /\ \A k \in 1 .. FractionDigits :
                 /\ Digit(t, k) \in 0 .. Base - 1
                 /\ Leading(t, k) = Base * Leading(t, k - 1) + Digit(t, k)
<1> DEFINE f == t % Second
<1>1. f \in 0 .. Second - 1 /\ f \in Int
  BY FractionOfSecond, SecondPositive
<1>2. Leading(t, 0) = 0
  <2>1. Base ^ (FractionDigits - 0) = Second
    BY DigitsPositive DEF Second
  <2>2. f = Second * 0 + f
    BY <1>1, SecondPositive
  <2>3. f \div Second = 0
    BY <1>1, <2>2, SecondPositive, DivisionUnique
  <2> QED
    BY <2>1, <2>3 DEF Leading
<1>3. Leading(t, FractionDigits) = f
  <2>1. Base ^ (FractionDigits - FractionDigits) = 1
    BY DigitsPositive, PowersAssumption
  <2>2. f \div 1 = f
    BY <1>1
  <2> QED
    BY <2>1, <2>2 DEF Leading
<1>4. ASSUME NEW k \in 0 .. FractionDigits
      PROVE  Leading(t, k) \in Int
  <2>1. FractionDigits - k \in 0 .. FractionDigits
    BY <1>4, DigitsPositive
  <2>2. Base ^ (FractionDigits - k) \in Nat \ {0}
    BY <2>1, PowersAssumption
  <2> QED
    BY <1>1, <2>2, Division DEF Leading
<1>5. ASSUME NEW k \in 1 .. FractionDigits
      PROVE  /\ Digit(t, k) \in 0 .. Base - 1
             /\ Leading(t, k) = Base * Leading(t, k - 1) + Digit(t, k)
  <2> DEFINE a == Base ^ (FractionDigits - k)
  <2>1. /\ k \in 0 .. FractionDigits
        /\ FractionDigits - k \in 0 .. FractionDigits
        /\ FractionDigits - (k - 1) \in 1 .. FractionDigits
        /\ FractionDigits - (k - 1) - 1 = FractionDigits - k
    BY <1>5, DigitsPositive
  <2>2. a \in Nat \ {0}
    BY <2>1, PowersAssumption
  <2>3. Base ^ (FractionDigits - (k - 1)) = Base * a
    BY <2>1, PowersAssumption
  <2>4. Leading(t, k) \in Int
    BY <1>4, <2>1
  <2>5. Digit(t, k) = Leading(t, k) % Base
    BY DEF Digit, Leading
  <2>6. Leading(t, k) \div Base = Leading(t, k - 1)
    <3>1. (f \div a) \div Base = f \div (Base * a)
      BY <1>1, <2>2, DigitsPositive, DivisionTwice
    <3> QED
      BY <2>3, <3>1 DEF Leading
  <2> QED
    BY <2>4, <2>5, <2>6, DigitsPositive, Division
<1> QED
  BY <1>2, <1>3, <1>4, <1>5

\* How many digits of the fraction of t the text shows: a last one that is not zero, and
\* only zeros behind it.
ShownDigits(t, n) ==
    /\ n \in 0 .. FractionDigits
    /\ n # 0 => Digit(t, n) # 0
    /\ \A k \in n + 1 .. FractionDigits : Digit(t, k) = 0

\* There is such a number of digits for every time, so that Fraction is what its
\* definition says.
LEMMA FractionShows ==
    ASSUME NEW t \in Nat
    PROVE  \E n \in 0 .. FractionDigits :
              /\ ShownDigits(t, n)
              /\ Fraction(t) = [k \in 1 .. n |-> Digit(t, k)]
<1> DEFINE T == {n \in 0 .. FractionDigits :
                    \A k \in n + 1 .. FractionDigits : Digit(t, k) = 0}
<1>1. FractionDigits \in T
  BY DigitsPositive
<1>2. T \subseteq Nat
  BY DigitsPositive
<1>3. PICK m \in T : \A y \in T : m <= y
  BY <1>1, <1>2, LeastNumber
<1>5. ASSUME m # 0, Digit(t, m) = 0 PROVE FALSE
  <2>1. m - 1 \in 0 .. FractionDigits
    BY <1>3, <1>5, DigitsPositive
  <2>2. ASSUME NEW k \in (m - 1) + 1 .. FractionDigits PROVE Digit(t, k) = 0
    <3>1. k = m \/ k \in m + 1 .. FractionDigits
      BY <1>3, <2>2, DigitsPositive
    <3> QED
      BY <1>3, <1>5, <3>1
  <2>3. m - 1 \in T
    BY <2>1, <2>2
  <2> QED
    BY <1>2, <1>3, <2>3
<1>6. ShownDigits(t, m)
  BY <1>3, <1>5 DEF ShownDigits
<1> DEFINE Shown(n) == /\ n # 0 => Digit(t, n) # 0
                       /\ \A k \in n + 1 .. FractionDigits : Digit(t, k) = 0
           n0 == CHOOSE n \in 0 .. FractionDigits : Shown(n)
<1>7. n0 \in 0 .. FractionDigits /\ Shown(n0)
  <2>1. m \in 0 .. FractionDigits /\ Shown(m)
    BY <1>6 DEF ShownDigits
  <2> HIDE DEF Shown
  <2> QED
    BY <2>1
<1>8. Fraction(t) = [k \in 1 .. n0 |-> Digit(t, k)]
  BY DEF Fraction
<1> QED
  BY <1>7, <1>8 DEF ShownDigits

\* A symbol behind a text.
LEMMA EndedBy ==
    ASSUME NEW e \in Seq(Int), NEW z \in Int
    PROVE  /\ e \o <<z>> \in Seq(Int)
           /\ Len(e \o <<z>>) = Len(e) + 1
           /\ \A k \in 1 .. Len(e) : (e \o <<z>>)[k] = e[k]
OBVIOUS

\* The text of a time that has no fraction.
LEMMA WholeSeconds ==
    ASSUME NEW s \in Int, NEW z \in Int
    PROVE  /\ <<s>> \o <<>> \o <<z>> \in Seq(Int)
           /\ Len(<<s>> \o <<>> \o <<z>>) = 2
           /\ (<<s>> \o <<>> \o <<z>>)[1] = s
<1> DEFINE e == <<s>> \o <<>>
<1>1. e \in Seq(Int) /\ Len(e) = 1 /\ e[1] = s
  OBVIOUS
<1> HIDE DEF e
<1>2. /\ e \o <<z>> \in Seq(Int)
      /\ Len(e \o <<z>>) = Len(e) + 1
      /\ \A k \in 1 .. Len(e) : (e \o <<z>>)[k] = e[k]
  BY <1>1, EndedBy
<1>3. Len(e \o <<z>>) = 2
  BY <1>1, <1>2
<1>4. (e \o <<z>>)[1] = s
  BY <1>1, <1>2
<1> QED
  BY <1>2, <1>3, <1>4 DEF e

\* The text of a time: its whole seconds, and when it has a fraction a dot and its digits.
LEMMA NanoTextShows ==
    ASSUME NEW t \in Nat, NEW n \in 0 .. FractionDigits,
           Fraction(t) = [k \in 1 .. n |-> Digit(t, k)]
    PROVE  /\ NanoText(t) \in Seq(Int)
           /\ Len(NanoText(t)) = (IF n = 0 THEN 2 ELSE n + 3)
           /\ NanoText(t)[1] = t \div Second
           /\ n # 0 => NanoText(t)[2] = Dot
           /\ \A k \in 1 .. n : NanoText(t)[k + 2] = Digit(t, k)
<1> DEFINE s == t \div Second
<1>1. s \in Int /\ Dot \in Int /\ Zed \in Int /\ n \in Nat
  BY SecondPositive, Division, DigitsPositive DEF Dot, Zed
<1>2. \A k \in 1 .. n : Digit(t, k) \in Int
  BY LeadingDigits, DigitsPositive
<1>3. Fraction(t) \in Seq(Int) /\ Len(Fraction(t)) = n
  BY <1>1, <1>2
<1>4. CASE n = 0
  <2>1. Fraction(t) = <<>>
    BY <1>3, <1>4
  <2>2. NanoText(t) = <<s>> \o <<>> \o <<Zed>>
    BY <2>1 DEF NanoText
  <2> QED
    BY <1>1, <1>4, <2>2, WholeSeconds
<1>5. CASE n # 0
  <2>1. Fraction(t) # <<>>
    BY <1>3, <1>5
  <2>2. NanoText(t) = <<s>> \o (<<Dot>> \o Fraction(t)) \o <<Zed>>
    BY <2>1 DEF NanoText
  <2> DEFINE f == Fraction(t)
             g == <<Dot>> \o f
             h == <<s>> \o g
  <2>3. \A k \in 1 .. n : f[k] = Digit(t, k)
    OBVIOUS
  <2>4. f \in Seq(Int) /\ Len(f) = n
    BY <1>3
  <2> HIDE DEF f
  <2>5. /\ g \in Seq(Int) /\ Len(g) = n + 1
        /\ g[1] = Dot /\ \A k \in 1 .. n : g[k + 1] = f[k]
    BY <1>1, <2>4
  <2> HIDE DEF g
  <2>6. /\ h \in Seq(Int) /\ Len(h) = n + 2
        /\ h[1] = s /\ h[2] = Dot /\ \A k \in 1 .. n : h[k + 2] = g[k + 1]
    BY <1>1, <2>5
  <2> HIDE DEF h
  <2>7. /\ h \o <<Zed>> \in Seq(Int) /\ Len(h \o <<Zed>>) = n + 3
        /\ \A k \in 1 .. n + 2 : (h \o <<Zed>>)[k] = h[k]
    BY <1>1, <2>6, EndedBy
  <2>8. NanoText(t) = h \o <<Zed>>
    BY <2>2 DEF f, g, h
  <2> HIDE DEF s
  <2>9. \A k \in 1 .. n : h[k + 2] = Digit(t, k)
    BY <2>3, <2>5, <2>6
  <2>10. /\ (h \o <<Zed>>)[1] = s
         /\ (h \o <<Zed>>)[2] = Dot
         /\ \A k \in 1 .. n : (h \o <<Zed>>)[k + 2] = Digit(t, k)
    BY <1>1, <1>5, <2>6, <2>7, <2>9
  <2> QED
    BY <1>5, <2>7, <2>8, <2>10 DEF s
<1> QED
  BY <1>4, <1>5

\* Texts that begin with different seconds are in the order of the seconds, and a text
\* before another does not begin with a later second.
LEMMA FirstSymbolOrders ==
    ASSUME NEW a \in Seq(Int), NEW b \in Seq(Int), Len(a) >= 1, Len(b) >= 1
    PROVE  /\ a[1] < b[1] => Before(a, b)
           /\ Before(a, b) => a[1] <= b[1]
<1>1. 1 \in DOMAIN a /\ 1 \in DOMAIN b
  OBVIOUS
<1>2. ASSUME a[1] < b[1] PROVE Before(a, b)
  BY <1>1, <1>2 DEF Before
<1>3. ASSUME IsStrictPrefix(a, b) PROVE a[1] = b[1]
  <2>1. Len(a) <= Len(b) /\ SubSeq(a, 1, Len(a)) = SubSeq(b, 1, Len(a))
    BY <1>3 DEF IsStrictPrefix, IsPrefix
  <2>2. SubSeq(a, 1, Len(a))[1] = a[1]
    OBVIOUS
  <2>3. SubSeq(b, 1, Len(a))[1] = b[1]
    BY <2>1
  <2> QED
    BY <2>1, <2>2, <2>3
<1>4. ASSUME NEW k \in DOMAIN a \cap DOMAIN b,
             a[k] < b[k], \A j \in 1 .. k - 1 : a[j] = b[j]
      PROVE  a[1] <= b[1]
  <2>1. a[1] \in Int /\ b[1] \in Int
    BY <1>1
  <2>2. CASE k = 1
    BY <1>4, <2>1, <2>2
  <2>3. CASE k # 1
    <3>1. 1 \in 1 .. k - 1
      BY <1>4, <2>3
    <3> QED
      BY <1>4, <2>1, <3>1
  <2> QED
    BY <2>2, <2>3
<1>5. a[1] \in Int /\ b[1] \in Int
  BY <1>1
<1> QED
  BY <1>2, <1>3, <1>4, <1>5 DEF Before

\* The text of a time begins with its whole seconds.
LEMMA NanoTextBegins ==
    ASSUME NEW t \in Nat
    PROVE  /\ NanoText(t) \in Seq(Int) /\ Len(NanoText(t)) >= 1
           /\ NanoText(t)[1] = t \div Second
<1>1. PICK n \in 0 .. FractionDigits : Fraction(t) = [k \in 1 .. n |-> Digit(t, k)]
  BY FractionShows
<1>2. n \in Nat
  BY DigitsPositive
<1> QED
  BY <1>1, <1>2, NanoTextShows

\* Comparing last_seen with a cutoff compares their seconds: a time before the cutoff by
\* the order of texts is not a second later than it, and one that is not before it is not
\* a second earlier.
LEMMA CutoffCompares ==
    ASSUME NEW t \in Nat, NEW c \in Int
    PROVE  /\ Before(NanoText(t), SecondText(c)) => t < c + Second
           /\ ~Before(NanoText(t), SecondText(c)) => c < t + Second
<1> DEFINE a == NanoText(t)
           b == SecondText(c)
<1>1. a \in Seq(Int) /\ Len(a) >= 1 /\ a[1] = t \div Second
  BY NanoTextBegins
<1>2. t \div Second \in Int /\ c \div Second \in Int /\ Zed \in Int
  BY SecondPositive, Division, DigitsPositive DEF Zed
<1>3. b \in Seq(Int) /\ Len(b) >= 1 /\ b[1] = c \div Second
  BY <1>2 DEF SecondText
<1> HIDE DEF a, b
<1>4. /\ a[1] < b[1] => Before(a, b)
      /\ Before(a, b) => a[1] <= b[1]
  BY <1>1, <1>3, FirstSymbolOrders
<1>5. ASSUME Before(a, b) PROVE t < c + Second
  <2>1. t \div Second <= c \div Second
    BY <1>1, <1>3, <1>4, <1>5
  <2> QED
    BY <2>1, SecondPositive, SameSecondClose
<1>6. ASSUME ~Before(a, b) PROVE c < t + Second
  <2>1. c \div Second <= t \div Second
    BY <1>1, <1>2, <1>3, <1>4, <1>6
  <2> QED
    BY <2>1, SecondPositive, SameSecondClose
<1> QED
  BY <1>5, <1>6 DEF a, b

\* Two times of one second differ first in a digit that is larger in the later one.
LEMMA FirstDifference ==
    ASSUME NEW t \in Nat, NEW u \in Nat, t < u, t \div Second = u \div Second
    PROVE  \E k \in 1 .. FractionDigits :
              /\ Digit(t, k) < Digit(u, k)
              /\ \A j \in 1 .. k - 1 : Digit(t, j) = Digit(u, j)
<1> USE DigitsPositive
<1>1. t % Second < u % Second
  <2> DEFINE q == t \div Second
  <2>0. t \in Int /\ u \in Int /\ u \div Second = q
    OBVIOUS
  <2>1. /\ q \in Int
        /\ t = Second * q + (t % Second) /\ t % Second \in Int
        /\ u = Second * q + (u % Second) /\ u % Second \in Int
    <3>1. q \in Int /\ t = Second * q + (t % Second) /\ t % Second \in 0 .. Second - 1
      BY <2>0, SecondPositive, Division
    <3>2. u = Second * (u \div Second) + (u % Second) /\ u % Second \in 0 .. Second - 1
      BY <2>0, SecondPositive, Division
    <3>3. t % Second \in Int /\ u % Second \in Int
      BY FractionOfSecond, SecondPositive
    <3> QED
      BY <3>1, <3>2, <3>3
  <2>2. Second * q \in Int
    BY <2>1, SecondPositive
  <2> HIDE DEF q
  <2> QED
    BY <2>1, <2>2
<1> DEFINE T == {k \in 0 .. FractionDigits : Leading(t, k) # Leading(u, k)}
<1>2. FractionDigits \in T
  <2>1. t % Second # u % Second
    BY <1>1, FractionOfSecond, SecondPositive
  <2> QED
    BY <2>1, LeadingDigits
<1>3. PICK k \in T : \A j \in T : k <= j
  <2>1. T \in SUBSET Nat
    OBVIOUS
  <2> HIDE DEF T
  <2> QED
    BY <1>2, <2>1, LeastNumber
<1>4. k \in 1 .. FractionDigits
  BY <1>3, LeadingDigits
<1>5. \A j \in 0 .. k - 1 : Leading(t, j) = Leading(u, j)
  BY <1>3, <1>4
<1>6. /\ Digit(t, k) \in Int /\ Digit(u, k) \in Int
      /\ Leading(t, k) = Base * Leading(t, k - 1) + Digit(t, k)
      /\ Leading(u, k) = Base * Leading(u, k - 1) + Digit(u, k)
  BY <1>4, LeadingDigits
<1>7. Leading(t, k) <= Leading(u, k)
  <2>1. FractionDigits - k \in 0 .. FractionDigits
    BY <1>4
  <2>2. Base ^ (FractionDigits - k) \in Nat \ {0}
    BY <2>1, PowersAssumption
  <2>3. t % Second \in Int /\ u % Second \in Int /\ t % Second <= u % Second
    BY <1>1, FractionOfSecond, SecondPositive
  <2> QED
    BY <2>2, <2>3, DivisionMonotone DEF Leading
<1>8. Digit(t, k) < Digit(u, k)
  <2>1. Leading(t, k - 1) = Leading(u, k - 1) /\ Leading(t, k - 1) \in Int
    BY <1>4, <1>5, LeadingDigits
  <2>2. Base * Leading(t, k - 1) \in Int
    BY <2>1
  <2>3. Leading(t, k) # Leading(u, k)
    BY <1>3
  <2> QED
    BY <1>6, <1>7, <2>1, <2>2, <2>3
<1>9. ASSUME NEW j \in 1 .. k - 1
      PROVE  Digit(t, j) = Digit(u, j)
  <2>1. j \in 1 .. FractionDigits /\ j \in 0 .. k - 1 /\ j - 1 \in 0 .. k - 1
    BY <1>4, <1>9
  <2>2. Leading(t, j) = Leading(u, j) /\ Leading(t, j - 1) = Leading(u, j - 1)
    BY <1>5, <2>1
  <2>3. /\ Digit(t, j) \in 0 .. Base - 1
        /\ Leading(t, j) = Base * Leading(t, j - 1) + Digit(t, j)
    BY <2>1, LeadingDigits
  <2>4. /\ Digit(u, j) \in 0 .. Base - 1
        /\ Leading(u, j) = Base * Leading(u, j - 1) + Digit(u, j)
    BY <2>1, LeadingDigits
  <2>5. j - 1 \in 0 .. FractionDigits
    BY <2>1
  <2>6. Leading(t, j - 1) \in Int
    BY <2>5, LeadingDigits
  <2>7. Base * Leading(t, j - 1) \in Int
    BY <2>6
  <2>8. /\ Base * Leading(u, j - 1) = Base * Leading(t, j - 1)
        /\ Leading(u, j) = Leading(t, j)
    BY <2>2
  <2>9. \A a, x, y \in Int : a + x = a + y => x = y
    OBVIOUS
  <2>10. Digit(t, j) \in Int /\ Digit(u, j) \in Int
    BY <2>3, <2>4
  <2>11. Base * Leading(t, j - 1) + Digit(t, j) = Base * Leading(t, j - 1) + Digit(u, j)
    BY <2>3, <2>4, <2>8, Zenon
  <2> QED
    BY <2>7, <2>9, <2>10, <2>11
<1> QED
  BY <1>4, <1>8, <1>9

\* The text of the earlier of two times comes first, unless both are in one second and
\* the fraction of the earlier is a beginning of the later one's.
LEMMA TextOrder ==
    ASSUME NEW t \in Nat, NEW u \in Nat, t < u
    PROVE  \/ Before(NanoText(t), NanoText(u))
           \/ /\ t \div Second = u \div Second
              /\ IsStrictPrefix(Fraction(t), Fraction(u))
<1> USE DigitsPositive
<1>1. t \div Second \in Int /\ u \div Second \in Int /\ t \div Second <= u \div Second
  BY SecondPositive, Division, DivisionMonotone
<1>2. CASE t \div Second < u \div Second
  <2>1. /\ NanoText(t) \in Seq(Int) /\ Len(NanoText(t)) >= 1
        /\ NanoText(u) \in Seq(Int) /\ Len(NanoText(u)) >= 1
        /\ NanoText(t)[1] < NanoText(u)[1]
    BY <1>2, NanoTextBegins
  <2> QED
    BY <2>1, FirstSymbolOrders
<1>3. CASE t \div Second = u \div Second
  <2>1. PICK k \in 1 .. FractionDigits :
           /\ Digit(t, k) < Digit(u, k)
           /\ \A j \in 1 .. k - 1 : Digit(t, j) = Digit(u, j)
    BY <1>3, FirstDifference
  <2>2. PICK m \in 0 .. FractionDigits :
           ShownDigits(t, m) /\ Fraction(t) = [j \in 1 .. m |-> Digit(t, j)]
    BY FractionShows
  <2>3. PICK n \in 0 .. FractionDigits :
           ShownDigits(u, n) /\ Fraction(u) = [j \in 1 .. n |-> Digit(u, j)]
    BY FractionShows
  <2>4. \A j \in 1 .. FractionDigits :
           Digit(t, j) \in 0 .. Base - 1 /\ Digit(u, j) \in 0 .. Base - 1
    BY LeadingDigits
  <2>5. k <= n
    <3>1. Digit(u, k) # 0
      BY <2>1, <2>4
    <3> QED
      BY <2>3, <3>1 DEF ShownDigits
  <2>6. CASE k <= m
    <3> DEFINE a == NanoText(t)
               b == NanoText(u)
    <3>1. /\ a \in Seq(Int) /\ Len(a) = m + 3
          /\ a[1] = t \div Second /\ a[2] = Dot
          /\ \A j \in 1 .. m : a[j + 2] = Digit(t, j)
      BY <2>2, <2>6, NanoTextShows
    <3>2. /\ b \in Seq(Int) /\ Len(b) = n + 3
          /\ b[1] = u \div Second /\ b[2] = Dot
          /\ \A j \in 1 .. n : b[j + 2] = Digit(u, j)
      BY <2>3, <2>5, NanoTextShows
    <3> HIDE DEF a, b
    <3>3. k + 2 \in DOMAIN a \cap DOMAIN b
      BY <2>5, <2>6, <3>1, <3>2
    <3>4. a[k + 2] < b[k + 2]
      BY <2>1, <2>5, <2>6, <3>1, <3>2
    <3>5. ASSUME NEW j \in 1 .. (k + 2) - 1
          PROVE  a[j] = b[j]
      <4>1. CASE j = 1
        BY <1>3, <3>1, <3>2, <4>1
      <4>2. CASE j = 2
        BY <3>1, <3>2, <4>2
      <4>3. CASE j > 2
        <5> DEFINE i == j - 2
        <5>1. i \in 1 .. k - 1 /\ i \in 1 .. m /\ i \in 1 .. n /\ j = i + 2
          BY <2>5, <2>6, <3>5, <4>3
        <5> HIDE DEF i
        <5>2. a[i + 2] = Digit(t, i) /\ b[i + 2] = Digit(u, i)
          BY <3>1, <3>2, <5>1
        <5> QED
          BY <2>1, <5>1, <5>2
      <4> QED
        BY <3>5, <4>1, <4>2, <4>3
    <3>6. Before(a, b)
      BY <3>3, <3>4, <3>5 DEF Before
    <3> QED
      BY <3>6 DEF a, b
  <2>7. CASE m < k
    <3>1. \A j \in 1 .. m : Digit(t, j) = Digit(u, j)
      BY <2>1, <2>7
    <3> DEFINE a == Fraction(t)
               b == Fraction(u)
    <3>2. /\ a \in Seq(Int) /\ Len(a) = m
          /\ \A j \in 1 .. m : a[j] = Digit(t, j)
      BY <2>2, <2>4
    <3>3. /\ b \in Seq(Int) /\ Len(b) = n
          /\ \A j \in 1 .. n : b[j] = Digit(u, j)
      BY <2>3, <2>4
    <3> HIDE DEF a, b
    <3>4. m < n
      BY <2>5, <2>7
    <3>5. a # b
      BY <3>2, <3>3, <3>4
    <3>6. SubSeq(a, 1, m) = SubSeq(b, 1, m)
      <4>1. \A j \in 1 .. m : a[j] = b[j]
        BY <3>1, <3>2, <3>3, <3>4
      <4> QED
        BY <3>2, <3>3, <3>4, <4>1
    <3>7. IsStrictPrefix(a, b)
      BY <3>2, <3>3, <3>4, <3>5, <3>6 DEF IsStrictPrefix, IsPrefix
    <3> QED
      BY <1>3, <3>7 DEF a, b
  <2> QED
    BY <2>6, <2>7
<1> QED
  BY <1>1, <1>2, <1>3

-----------------------------------------------------------------------------
(* The periods in the smallest unit *)

Beat == HeartbeatEvery * Second
Gap == SweepEvery * Second
Limit == Timeout * Second

\* The periods are numbers of units, a heartbeat arrives within its period, and what the
\* properties write as products are sums of them.
LEMMA Periods ==
    /\ Beat \in Nat \ {0} /\ Gap \in Nat \ {0} /\ Limit \in Nat \ {0}
    /\ Second \in Nat \ {0}
    /\ MaxDelay \in Nat /\ MaxDelay < Beat
    /\ (Timeout + SweepEvery + 1) * Second = Limit + Gap + Second
    /\ (Timeout - 1) * Second = Limit - Second
<1>1. /\ HeartbeatEvery \in Nat \ {0} /\ SweepEvery \in Nat \ {0}
      /\ MaxDelay \in 0 .. HeartbeatEvery * Second - 1
  BY ClockAssumption
<1>2. Beat \in Nat \ {0} /\ Gap \in Nat \ {0} /\ Limit \in Nat \ {0}
  BY <1>1, SecondPositive, TimeoutPositive DEF Beat, Gap, Limit
<1>3. MaxDelay \in Nat /\ MaxDelay < Beat
  BY <1>1, <1>2 DEF Beat
<1>4. /\ (Timeout + SweepEvery + 1) * Second = Limit + Gap + Second
      /\ (Timeout - 1) * Second = Limit - Second
  BY <1>1, SecondPositive, TimeoutPositive DEF Gap, Limit
<1> QED
  BY <1>2, <1>3, <1>4, SecondPositive

\* Counting heartbeats.
LEMMA Beats ==
    ASSUME NEW m \in Nat
    PROVE  /\ m * Beat \in Nat
           /\ (m + 1) * Beat = m * Beat + Beat
           /\ (m + 1) * HeartbeatEvery * Second = m * Beat + Beat
<1>1. HeartbeatEvery \in Nat /\ Second \in Nat
  BY ClockAssumption, SecondPositive
<1> QED
  BY <1>1 DEF Beat

-----------------------------------------------------------------------------
(* The inductive invariant *)

\* A sweep is due within its period.
SweepIsDue == now <= sweepAt /\ sweepAt <= now + Gap

\* When the next sweep runs, a row's last_seen lies back at most the timeout, the second
\* that comparing texts leaves, and the time since the last sweep, which spared it.
SparedBySweep == row => lastSeen >= sweepAt - (Limit + Gap + Second)

\* The ticker of a running client has not been passed over, and its heartbeat arrives
\* within MaxDelay, before the ticker fires again.
BeatIsDue ==
    /\ alive => now <= beatAt
    /\ beating => alive /\ beatAt - Beat <= now /\ now <= beatAt - Beat + MaxDelay

\* The last heartbeat that was served is as many periods back as were lost, and the one
\* on its way.
LostBeats ==
    /\ alive /\ ~beating => lastSeen >= beatAt - (missed * Beat + Beat)
    /\ beating => lastSeen >= beatAt - (missed * Beat + Beat + Beat)

ClockInv == TypeOK /\ SweepIsDue /\ SparedBySweep /\ BeatIsDue /\ LostBeats

\* The session begins just registered, its first heartbeat a period away.
LEMMA InitClock == Init => ClockInv
<1> SUFFICES ASSUME Init PROVE ClockInv
  OBVIOUS
<1>1. /\ now \in 0 .. Second - 1 /\ lastSeen = now /\ row = TRUE /\ beating = FALSE
      /\ alive = TRUE /\ missed = 0 /\ sent = <<>>
      /\ beatAt = now + Beat /\ sweepAt \in now .. now + Gap
  BY DEF Init, Beat, Gap
<1>2. 0 * Beat = 0
  BY Periods
<1>3. now \in 0 .. MaxTime /\ now \in Nat
  <2>1. MaxTime \in Nat /\ MaxTime >= Second
    BY ClockAssumption
  <2>2. now \in 0 .. Second - 1
    BY <1>1
  <2> QED
    BY <2>1, <2>2, SecondPositive
<1>4. TypeOK
  <2>1. row \in BOOLEAN /\ beating \in BOOLEAN /\ alive \in BOOLEAN
    BY <1>1, Zenon
  <2>2. lastSeen \in 0 .. now /\ missed \in Nat /\ beatAt \in Nat /\ sweepAt \in Nat
    BY <1>1, <1>3, Periods
  <2>3. sent \in Seq(0 .. now)
    BY <1>1
  <2> QED
    BY <1>3, <2>1, <2>2, <2>3 DEF TypeOK
<1>5. SweepIsDue /\ SparedBySweep
  BY <1>1, <1>3, Periods DEF SweepIsDue, SparedBySweep
<1>6. BeatIsDue /\ LostBeats
  BY <1>1, <1>2, <1>3, Periods DEF BeatIsDue, LostBeats
<1> QED
  BY <1>4, <1>5, <1>6 DEF ClockInv

\* The types that arithmetic needs.
LEMMA Numbers ==
    TypeOK => /\ now \in Nat /\ lastSeen \in Nat /\ lastSeen <= now
              /\ beatAt \in Nat /\ sweepAt \in Nat /\ missed \in Nat
              /\ missed * Beat \in Nat
<1> SUFFICES ASSUME TypeOK
             PROVE  /\ now \in Nat /\ lastSeen \in Nat /\ lastSeen <= now
                    /\ beatAt \in Nat /\ sweepAt \in Nat /\ missed \in Nat
                    /\ missed * Beat \in Nat
  OBVIOUS
<1>1. /\ now \in 0 .. MaxTime /\ lastSeen \in 0 .. now
      /\ beatAt \in Nat /\ sweepAt \in Nat /\ missed \in Nat
  BY DEF TypeOK
<1>2. MaxTime \in Nat
  BY ClockAssumption
<1>3. missed * Beat \in Nat
  BY <1>1, Beats
<1> QED
  BY <1>1, <1>2, <1>3

\* A sequence over a set is one over every larger set.
LEMMA SeqOfMore ==
    ASSUME NEW S, NEW T, S \subseteq T, NEW s \in Seq(S)
    PROVE  s \in Seq(T)
OBVIOUS

\* The times of the messages stay times of the past.
LEMMA SentTypes ==
    ASSUME NEW n \in Nat, NEW m \in Nat, n <= m, NEW s \in Seq(0 .. n)
    PROVE  /\ s \in Seq(0 .. m)
           /\ \A i \in DOMAIN s : s[i] \in Nat
<1>1. 0 .. n \subseteq 0 .. m /\ 0 .. n \subseteq Nat
  OBVIOUS
<1>2. s \in Seq(0 .. m) /\ s \in Seq(Nat)
  BY <1>1, SeqOfMore
<1> QED
  BY <1>2

\* A sweep evicts a session only when its last_seen is older than the timeout but for a
\* second, and spares it only when it is younger than the timeout and a second.
LEMMA SweepCompares ==
    ASSUME TypeOK
    PROVE  /\ IsStale => lastSeen < now - Limit + Second
           /\ ~IsStale => lastSeen > now - Limit - Second
<1>1. lastSeen \in Nat /\ now \in Nat
  BY Numbers
<1>2. now - Limit \in Int /\ now - Timeout * Second = now - Limit
  BY <1>1, Periods DEF Limit
<1>3. /\ IsStale => lastSeen < (now - Limit) + Second
      /\ ~IsStale => now - Limit < lastSeen + Second
  BY <1>1, <1>2, CutoffCompares DEF IsStale
<1> QED
  BY <1>1, <1>2, <1>3, Periods

\* Every step keeps the invariant.
LEMMA NextClock == ClockInv /\ [Next]_vars => ClockInv'
<1> SUFFICES ASSUME ClockInv, [Next]_vars PROVE ClockInv'
  OBVIOUS
<1> USE DEF ClockInv
<1>1. CASE Tick
  <2>1. /\ now < MaxTime /\ now < sweepAt /\ (alive => now < beatAt)
        /\ (beating => now < beatAt - Beat + MaxDelay)
        /\ now' = now + 1
        /\ UNCHANGED <<row, lastSeen, beatAt, beating, missed, alive, sweepAt, sent>>
    BY <1>1 DEF Tick, Beat
  <2>2. TypeOK'
    <3>1. now \in 0 .. now' /\ now' \in 0 .. MaxTime /\ lastSeen \in 0 .. now'
      BY <2>1, Numbers, ClockAssumption DEF TypeOK
    <3>2. sent \in Seq(0 .. now')
      <4>1. sent \in Seq(0 .. now) /\ now \in Nat /\ now' \in Nat /\ now <= now'
        BY <2>1, Numbers DEF TypeOK
      <4> QED
        BY <4>1, SentTypes
    <3> QED
      BY <2>1, <3>1, <3>2 DEF TypeOK
  <2>3. SweepIsDue' /\ SparedBySweep'
    BY <2>1, Numbers, Periods DEF SweepIsDue, SparedBySweep
  <2>4. BeatIsDue'
    BY <2>1, Numbers, Periods DEF BeatIsDue
  <2>5. LostBeats'
    BY <2>1 DEF LostBeats
  <2> QED
    BY <2>2, <2>3, <2>4, <2>5
<1>2. CASE TickerFires
  <2>1. /\ alive /\ now = beatAt /\ beating' = TRUE /\ beatAt' = beatAt + Beat
        /\ UNCHANGED <<now, row, lastSeen, missed, alive, sweepAt, sent>>
    BY <1>2 DEF TickerFires, Beat
  <2>2. ~beating
    BY <2>1, Numbers, Periods DEF BeatIsDue
  <2>3. TypeOK'
    BY <2>1, Periods DEF TypeOK
  <2>4. SweepIsDue' /\ SparedBySweep'
    BY <2>1 DEF SweepIsDue, SparedBySweep
  <2>5. BeatIsDue'
    BY <2>1, Numbers, Periods DEF BeatIsDue
  <2>6. LostBeats'
    BY <2>1, <2>2, Numbers, Periods DEF LostBeats
  <2> QED
    BY <2>3, <2>4, <2>5, <2>6
<1>3. CASE HeartbeatServed
  <2>1. /\ beating /\ row' = TRUE /\ lastSeen' = now /\ beating' = FALSE /\ missed' = 0
        /\ UNCHANGED <<now, beatAt, alive, sweepAt, sent>>
    BY <1>3 DEF HeartbeatServed
  <2>2. TypeOK'
    <3>1. lastSeen' \in 0 .. now' /\ missed' \in Nat
      BY <2>1, Numbers
    <3>2. row' \in BOOLEAN /\ beating' \in BOOLEAN
      BY <2>1, Zenon
    <3> QED
      BY <2>1, <3>1, <3>2 DEF TypeOK
  <2>3. SweepIsDue' /\ SparedBySweep'
    BY <2>1, Numbers, Periods DEF SweepIsDue, SparedBySweep
  <2>4. BeatIsDue'
    BY <2>1 DEF BeatIsDue
  <2>5. LostBeats'
    <3>1. missed' * Beat = 0
      BY <2>1, Periods
    <3>2. now >= beatAt - Beat
      BY <2>1 DEF BeatIsDue
    <3> QED
      BY <2>1, <3>1, <3>2, Numbers, Periods DEF LostBeats
  <2> QED
    BY <2>2, <2>3, <2>4, <2>5
<1>4. CASE HeartbeatLost
  <2>1. /\ beating /\ beating' = FALSE /\ missed' = missed + 1
        /\ UNCHANGED <<now, row, lastSeen, beatAt, alive, sweepAt, sent>>
    BY <1>4 DEF HeartbeatLost
  <2>2. TypeOK'
    <3>1. missed' \in Nat
      BY <2>1, Numbers
    <3>2. beating' \in BOOLEAN
      BY <2>1, Zenon
    <3> QED
      BY <2>1, <3>1, <3>2 DEF TypeOK
  <2>3. SweepIsDue' /\ SparedBySweep'
    BY <2>1 DEF SweepIsDue, SparedBySweep
  <2>4. BeatIsDue'
    BY <2>1 DEF BeatIsDue
  <2>5. LostBeats'
    <3>1. missed' * Beat = missed * Beat + Beat
      BY <2>1, Numbers, Beats
    <3> QED
      BY <2>1, <3>1, Numbers, Periods DEF LostBeats
  <2> QED
    BY <2>2, <2>3, <2>4, <2>5
<1>5. CASE ClientDies
  <2>1. /\ alive' = FALSE /\ beating' = FALSE
        /\ UNCHANGED <<now, row, lastSeen, beatAt, missed, sweepAt, sent>>
    BY <1>5 DEF ClientDies
  <2> QED
    BY <2>1 DEF TypeOK, SweepIsDue, SparedBySweep, BeatIsDue, LostBeats
<1>6. CASE Sweep
  <2>1. /\ now = sweepAt /\ row' = (row /\ ~IsStale) /\ sweepAt' = now + Gap
        /\ UNCHANGED <<now, lastSeen, beatAt, beating, missed, alive, sent>>
    BY <1>6 DEF Sweep, Gap
  <2>2. TypeOK'
    BY <2>1, Periods DEF TypeOK
  <2>3. SweepIsDue'
    BY <2>1, Numbers, Periods DEF SweepIsDue
  <2>4. SparedBySweep'
    <3> SUFFICES ASSUME row' PROVE lastSeen' >= sweepAt' - (Limit + Gap + Second)
      BY DEF SparedBySweep
    <3>1. lastSeen > now - Limit - Second
      BY <2>1, SweepCompares
    <3> QED
      BY <2>1, <3>1, Numbers, Periods
  <2>5. BeatIsDue' /\ LostBeats'
    BY <2>1 DEF BeatIsDue, LostBeats
  <2> QED
    BY <2>2, <2>3, <2>4, <2>5
<1>7. CASE SendMessage
  <2>1. /\ sent' = Append(sent, now)
        /\ UNCHANGED <<now, row, lastSeen, beatAt, beating, missed, alive, sweepAt>>
    BY <1>7 DEF SendMessage
  <2>2. now \in 0 .. now
    BY Numbers
  <2>3. TypeOK'
    BY <2>1, <2>2 DEF TypeOK
  <2> QED
    BY <2>1, <2>3 DEF SweepIsDue, SparedBySweep, BeatIsDue, LostBeats
<1>8. CASE UNCHANGED vars
  BY <1>8 DEF vars, TypeOK, SweepIsDue, SparedBySweep, BeatIsDue, LostBeats
<1> QED
  BY <1>1, <1>2, <1>3, <1>4, <1>5, <1>6, <1>7, <1>8 DEF Next

\* The invariant holds throughout.
LEMMA ClockInvariant == Spec => []ClockInv
BY InitClock, NextClock, PTL DEF Spec

-----------------------------------------------------------------------------
(* Theorems *)

\* The clock, the session's times and the stored messages have their types; last_seen and
\* sent_at never lie in the future.
THEOREM TypeCorrect == Spec => []TypeOK
<1>1. ClockInv => TypeOK
  BY DEF ClockInv
<1> QED
  BY <1>1, ClockInvariant, PTL

\* cleanStalePeers removes a session that sends nothing one sweep and one second after its
\* timeout at the latest, whatever the digits of the fraction its last_seen was written
\* with.
THEOREM DeadSessionsAreSwept == Spec => []DeadAreSwept
<1>1. ClockInv => DeadAreSwept
  <2> SUFFICES ASSUME ClockInv, row
               PROVE  now - lastSeen <= (Timeout + SweepEvery + 1) * Second
    BY DEF DeadAreSwept
  <2>1. now <= sweepAt /\ lastSeen >= sweepAt - (Limit + Gap + Second)
    BY DEF ClockInv, SweepIsDue, SparedBySweep
  <2>2. TypeOK
    BY DEF ClockInv
  <2> QED
    BY <2>1, <2>2, Numbers, Periods
<1> QED
  BY <1>1, ClockInvariant, PTL

\* cleanStalePeers evicts a running client only when the heartbeats it lost in a row, with
\* the delay of the next, cover the timeout but for a second.
THEOREM RunningClientsStay == Spec => OnlyTheSilentAreEvicted
<1>1. ClockInv /\ [Next]_vars =>
         [alive /\ row /\ ~row' =>
            (missed + 1) * HeartbeatEvery * Second + MaxDelay > (Timeout - 1) * Second]_vars
  <2> SUFFICES ASSUME ClockInv, [Next]_vars, alive, row, ~row'
               PROVE  (missed + 1) * HeartbeatEvery * Second + MaxDelay
                         > (Timeout - 1) * Second
    OBVIOUS
  <2>1. row' = (row /\ ~IsStale)
    BY DEF Next, Tick, TickerFires, HeartbeatServed, HeartbeatLost, ClientDies, Sweep,
           SendMessage, vars
  <2>2. TypeOK /\ BeatIsDue /\ LostBeats
    BY DEF ClockInv
  <2>3. lastSeen < now - Limit + Second
    BY <2>1, <2>2, SweepCompares
  <2>4. lastSeen >= now - (missed * Beat + Beat + MaxDelay)
    <3>1. CASE beating
      BY <2>2, <3>1, Numbers, Periods DEF BeatIsDue, LostBeats
    <3>2. CASE ~beating
      BY <2>2, <3>2, Numbers, Periods DEF BeatIsDue, LostBeats
    <3> QED
      BY <3>1, <3>2
  <2>5. (missed + 1) * HeartbeatEvery * Second = missed * Beat + Beat
    BY <2>2, Numbers, Beats
  <2>6. missed * Beat + Beat + MaxDelay > Limit - Second
    BY <2>2, <2>3, <2>4, Numbers, Periods
  <2> QED
    BY <2>5, <2>6, Periods
<1> QED
  BY <1>1, ClockInvariant, PTL DEF Spec, OnlyTheSilentAreEvicted

\* handlePollMessages and handlePeekMessages ORDER BY sent_at: the order of the texts is
\* the order of sending, except within a second when the earlier fraction is a beginning
\* of the later.
THEOREM MailIsOrdered == Spec => []MailInOrder
<1>1. ClockInv => MailInOrder
  <2> SUFFICES ASSUME ClockInv, NEW i \in DOMAIN sent, NEW j \in DOMAIN sent,
                      sent[i] < sent[j]
               PROVE  \/ Before(NanoText(sent[i]), NanoText(sent[j]))
                      \/ /\ sent[i] \div Second = sent[j] \div Second
                         /\ IsStrictPrefix(Fraction(sent[i]), Fraction(sent[j]))
    BY DEF MailInOrder
  <2>1. sent \in Seq(0 .. now) /\ now \in Nat
    BY Numbers DEF ClockInv, TypeOK
  <2>2. sent[i] \in Nat /\ sent[j] \in Nat
    BY <2>1, SentTypes
  <2> QED
    BY <2>2, TextOrder
<1> QED
  BY <1>1, ClockInvariant, PTL
=============================================================================
