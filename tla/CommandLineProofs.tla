------------------------- MODULE CommandLineProofs -------------------------
(***************************************************************************)
(* Proofs about CommandLine and Durations, for any command lines, any      *)
(* directories and any duration texts.                                     *)
(*                                                                         *)
(* Each loop of the code has an invariant that says what its turns so far  *)
(* have done with the arguments before `at`, in the terms of the reference *)
(* definitions: which positions hold values (no turn ever begins at one),  *)
(* which ones were kept, which directories were looked at in vain.         *)
(***************************************************************************)
EXTENDS CommandLine, WellFoundedInduction, TLAPS

Forms == ChannelForms \cup PrintForms

\* parseGlobalFlags has kept what is not --as before `at`. The process was
\* started by the user, or by claude as its server.
GlobalScan ==
    pc = "main" =>
        /\ (args = typed /\ ~own) \/ args = <<W("server")>>
        /\ ~IsValue(args, at, "--as")
        /\ Lists(out, args, {i \in NotAs(args) : i < at})

Dispatched ==
    /\ pc \in {"dispatch", "issue-token"} => at = 1 /\ out = <<>>
    /\ pc = "dispatch" => \/ Lists(args, typed, NotAs(typed)) /\ ~own
                          \/ \A k \in DOMAIN args : args[k] = W("server")

\* buildRunArgv has passed everything on, for no --as is left.
RunScan ==
    pc = "run" =>
        /\ Lists(<<W("run")>> \o args, typed, NotAs(typed))
        /\ Len(out) = at - 1
        /\ \A k \in 1 .. at - 1 : out[k] = args[k]
        /\ own <=> \E k \in 1 .. at - 1 : args[k].opt \in Forms

\* findAgentFile has looked in vain at every directory below dir.
Walk ==
    /\ pc \notin {"walk", "named"} => place = Nowhere
    /\ pc = "walk" =>
        /\ place \in [cwd : Dirs, home : Homes, files : Trees]
        /\ dir \in Dirs /\ IsPrefix(dir, place.cwd)
        /\ IF IsInside(place.cwd, place.home) THEN Len(place.home) <= Len(dir) ELSE dir = place.cwd
        /\ \A d \in Dirs : IsPrefix(d, place.cwd) /\ Len(dir) < Len(d) => ~HasName(d)

\* The positions with a value of --ttl, the lifetime one of them asks for, and the
\* lifetime after those of S: the last one, and none was refused.
Given(a) == Values(a, "--ttl", "--ttl=")
Lifetime(a, t, i) == ParseFlexibleDuration(Spells(ValueAt(a, i, "--ttl"), t))
LifetimeAfter(a, t, S, d) ==
    /\ \A i \in S : Lifetime(a, t, i) # Refused
    /\ \/ S = {} /\ d = DefaultChildTTL(t)
       \/ \E i \in S : IsLast(i, S) /\ d = Lifetime(a, t, i)

\* What parseIssueTokenArgs returns.
Resolved(a, t, d) ==
    \/ d = Refused /\ (Dangling(a, "--ttl") \/ \E i \in Given(a) : Lifetime(a, t, i) = Refused)
    \/ ~Dangling(a, "--ttl") /\ LifetimeAfter(a, t, Given(a), d)

\* parseIssueTokenArgs has the lifetime after the values before `at`.
TTLScan ==
    /\ ttl # 0 => pc \in {"ttl", "issued", "exit"} /\ time \in Times
    /\ pc = "ttl" => /\ ttl # 0 /\ ~IsValue(args, at, "--ttl")
                     /\ LifetimeAfter(args, time, {i \in Given(args) : i < at}, ttl)
    /\ ttl # 0 /\ pc # "ttl" => Resolved(args, time, ttl)

IInv ==
    /\ TypeOK
    /\ GlobalScan
    /\ Dispatched
    /\ RunScan
    /\ ClaudeGetsTheRest
    /\ Walk
    /\ NearestFileNames
    /\ TTLScan
-----------------------------------------------------------------------------
(* Options and their values *)

\* A set of numbers that is not empty has a least one.
LEMMA LeastNumber ==
    ASSUME NEW T \in SUBSET Nat, T # {}
    PROVE  \E m \in T : \A y \in T : m <= y
<1> DEFINE R == OpToRel(<, Nat)
<1>1. IsWellFoundedOn(R, Nat)
  BY NatLessThanWellFounded
<1>2. ASSUME NEW x \in Nat, NEW y \in Nat, y < x
      PROVE  <<y, x>> \in R
  <2> DEFINE p == <<y, x>>
  <2>1. p \in Nat \X Nat /\ p[1] < p[2]
    BY <1>2
  <2> HIDE DEF p
  <2>2. p \in R
    BY <2>1, Zenon DEF OpToRel
  <2> QED
    BY <2>2 DEF p
<1> HIDE DEF R
<1>3. PICK m \in T : \A y \in T : ~ (<<y, m>> \in R)
  BY <1>1, WFMin
<1>4. ASSUME NEW y \in T
      PROVE  m <= y
  <2>1. ~(y < m)
    BY <1>2, <1>3
  <2> QED
    BY <2>1
<1> QED
  BY <1>4

\* A run of equal words before position i has a first one.
LEMMA RunBegins ==
    ASSUME NEW s, NEW w, NEW i \in Nat, i > 1, s[i - 1] = w
    PROVE  \E j \in 1 .. i - 1 : /\ \A k \in j .. i - 1 : s[k] = w
                                 /\ j = 1 \/ s[j - 1] # w
<1> DEFINE T == {j \in 1 .. i - 1 : \A k \in j .. i - 1 : s[k] = w}
<1>1. i - 1 \in T /\ T \subseteq Nat
  OBVIOUS
<1>2. PICK m \in T : \A y \in T : m <= y
  BY <1>1, LeastNumber
<1>3. ASSUME m # 1, s[m - 1] = w PROVE FALSE
  <2>1. m - 1 \in 1 .. i - 1
    BY <1>2, <1>3
  <2>2. ASSUME NEW k \in m - 1 .. i - 1 PROVE s[k] = w
    <3>1. k = m - 1 \/ k \in m .. i - 1
      BY <2>1, <2>2
    <3> QED
      BY <1>2, <1>3, <3>1
  <2>3. m - 1 \in T
    BY <2>1, <2>2
  <2> QED
    BY <1>1, <1>2, <2>3
<1> QED
  BY <1>2, <1>3

\* What follows an option that is not itself a value is its value.
LEMMA ValueFollows ==
    ASSUME NEW s, NEW o, NEW i \in Nat \ {0}, s[i] = Flag(o), ~IsValue(s, i, o)
    PROVE  IsValue(s, i + 1, o)
<1> DEFINE w == Flag(o)
<1>1. PICK j \in 1 .. i : /\ \A k \in j .. i : s[k] = w
                          /\ j = 1 \/ s[j - 1] # w
  <2>1. i + 1 \in Nat /\ i + 1 > 1 /\ (i + 1) - 1 = i
    OBVIOUS
  <2> HIDE DEF w
  <2> QED
    BY <2>1, RunBegins DEF w
<1>2. (i + 1 - j) % 2 = 1
  <2>1. CASE j = i
    BY <2>1
  <2>2. CASE j # i
    <3>1. j \in 1 .. i - 1 /\ \A k \in j .. i - 1 : s[k] = w
      BY <1>1, <2>2
    <3>2. (i - j) % 2 # 1
      BY <1>1, <3>1 DEF IsValue
    <3> QED
      BY <3>1, <3>2
  <2> QED
    BY <2>1, <2>2
<1> QED
  BY <1>1, <1>2 DEF IsValue

\* What follows another word is no value.
LEMMA NoValueFollows ==
    ASSUME NEW s, NEW o, NEW i \in Nat, s[i] # Flag(o)
    PROVE  ~IsValue(s, i + 1, o)
BY DEF IsValue

\* What follows a value is no value.
LEMMA ValueEnds ==
    ASSUME NEW s, NEW o, NEW i \in Nat \ {0}, IsValue(s, i, o)
    PROVE  ~IsValue(s, i + 1, o)
<1> DEFINE w == Flag(o)
<1>1. PICK j \in 1 .. i - 1 : /\ (i - j) % 2 = 1
                              /\ \A k \in j .. i - 1 : s[k] = w
                              /\ j = 1 \/ s[j - 1] # w
  BY DEF IsValue
<1>2. SUFFICES ASSUME IsValue(s, i + 1, o) PROVE FALSE
  OBVIOUS
<1>3. PICK l \in 1 .. i : /\ (i + 1 - l) % 2 = 1
                          /\ \A k \in l .. i : s[k] = w
                          /\ l = 1 \/ s[l - 1] # w
  BY <1>2 DEF IsValue
<1> HIDE DEF w
<1>4. ~(l < j)
  <2>1. ASSUME l < j PROVE j # 1 /\ j - 1 \in l .. i
    BY <2>1
  <2> QED
    BY <1>1, <1>3, <2>1
<1>5. ~(j < l)
  <2>1. ASSUME j < l PROVE l # 1 /\ l - 1 \in j .. i - 1
    BY <2>1
  <2> QED
    BY <1>1, <1>3, <2>1
<1>6. l = j
  BY <1>4, <1>5
<1> QED
  BY <1>1, <1>3, <1>6

\* The first position holds no value.
LEMMA FirstIsNoValue ==
    ASSUME NEW s, NEW o
    PROVE  ~IsValue(s, 1, o)
BY DEF IsValue

-----------------------------------------------------------------------------
(* Lists *)

\* Nothing lists no positions.
LEMMA ListsNothing ==
    ASSUME NEW s
    PROVE  Lists(<<>>, s, {})
<1> DEFINE f == [k \in DOMAIN << >> |-> 0]
<1>1. DOMAIN << >> = {}
  OBVIOUS
<1>2. f \in [DOMAIN << >> -> {}]
  BY <1>1
<1> HIDE DEF f
<1> QED
  BY <1>1, <1>2 DEF Lists

\* A later position extends the list.
LEMMA ListsOneMore ==
    ASSUME NEW q, NEW X, q \in Seq(X), NEW s, NEW S \in SUBSET Nat, NEW p \in Nat,
           s[p] \in X, Lists(q, s, S), \A i \in S : i < p
    PROVE  Lists(q \o <<s[p]>>, s, S \cup {p})
<1> DEFINE r == q \o <<s[p]>>
           n == Len(q)
<1>1. n \in Nat /\ DOMAIN q = 1 .. n /\ r \in Seq(X) /\ Len(r) = n + 1 /\ DOMAIN r = 1 .. n + 1
  OBVIOUS
<1>2. r[n + 1] = s[p] /\ \A k \in 1 .. n : r[k] = q[k]
  OBVIOUS
<1>3. PICK f \in [DOMAIN q -> S] :
        /\ \A k \in DOMAIN q : q[k] = s[f[k]]
        /\ \A k, l \in DOMAIN q : k < l => f[k] < f[l]
        /\ \A i \in S : \E k \in DOMAIN q : f[k] = i
  BY DEF Lists
<1> HIDE DEF r, n
<1> DEFINE g == [k \in 1 .. n + 1 |-> IF k = n + 1 THEN p ELSE f[k]]
<1>4. g[n + 1] = p /\ \A k \in 1 .. n : g[k] = f[k] /\ f[k] \in S
  BY <1>1, <1>3
<1>5. g \in [DOMAIN r -> S \cup {p}]
  BY <1>1, <1>3
<1> HIDE DEF g
<1>6. ASSUME NEW k \in DOMAIN r PROVE r[k] = s[g[k]]
  <2>1. k = n + 1 \/ k \in 1 .. n
    BY <1>1
  <2> QED
    BY <1>1, <1>2, <1>3, <1>4, <2>1
<1>7. ASSUME NEW k \in DOMAIN r, NEW l \in DOMAIN r, k < l PROVE g[k] < g[l]
  <2>1. k \in 1 .. n /\ (l = n + 1 \/ l \in 1 .. n)
    BY <1>1, <1>7
  <2> QED
    BY <1>1, <1>3, <1>4, <1>7, <2>1
<1>8. ASSUME NEW i \in S \cup {p} PROVE \E k \in DOMAIN r : g[k] = i
  <2>1. CASE i = p
    BY <1>1, <1>4, <2>1
  <2>2. CASE i \in S
    <3>1. PICK k \in 1 .. n : f[k] = i
      BY <1>1, <1>3, <2>2
    <3>2. k \in 1 .. n + 1
      BY <1>1
    <3> QED
      BY <1>1, <1>4, <3>1, <3>2
  <2> QED
    BY <2>1, <2>2
<1>9. Lists(r, s, S \cup {p})
  BY <1>5, <1>6, <1>7, <1>8 DEF Lists
<1> QED
  BY <1>9 DEF r

-----------------------------------------------------------------------------
(* Durations *)

\* A product that fits an int does not wrap.
LEMMA WrapFits ==
    ASSUME NEW x \in 0 .. MaxWord
    PROVE  Wrap(x) = x
<1> DEFINE M == MaxWord
           m == 2 * (M + 1)
           y == x + M + 1
           q == y \div m
           r == y % m
<1>1. M \in Nat
  BY DurationAssumption
<1>2. m \in Nat \ {0} /\ y \in 0 .. m - 1
  BY <1>1
<1>3. Wrap(x) = r - (M + 1)
  BY DEF Wrap
<1>4. q \in Int /\ r \in 0 .. m - 1 /\ y = m * q + r
  <2> HIDE DEF y, m
  <2> QED
    BY <1>2
<1>5. r = y
  <2> HIDE DEF q, r, y, m
  <2>1. CASE q = 0
    BY <1>2, <1>4, <2>1
  <2>2. CASE q >= 1
    <3>1. m * q >= m
      BY <1>2, <1>4, <2>2
    <3> QED
      BY <1>2, <1>4, <3>1
  <2>3. CASE q <= -1
    <3>1. m * q <= -m
      BY <1>2, <1>4, <2>3
    <3> QED
      BY <1>2, <1>4, <3>1
  <2> QED
    BY <1>4, <2>1, <2>2, <2>3
<1> HIDE DEF M, r
<1>6. r = x + M + 1
  BY <1>5
<1> QED
  BY <1>1, <1>3, <1>6

\* The rewriting of a plain term: the unit is known if it was, nothing is
\* negative, days fit an int, and the length is what the term means.
LEMMA RewriteKeepsMeaning ==
    ASSUME NEW t \in Terms, t.u # "?",
           t.u = "d" => t.f.len = 0 /\ t.i.n * HoursPerDay <= MaxWord
    PROVE  /\ DaysFit(t)
           /\ Rewrite(t).u # "?"
           /\ ~(Rewrite(t).i.n < 0) /\ ~(Rewrite(t).f.n < 0)
           /\ TermLength(Rewrite(t)) = MeaningOf(t)
<1>1. /\ t.i.n \in Nat /\ t.i.len \in Nat /\ t.f.n \in Nat /\ t.f.len \in Nat
      /\ t.f.len = 0 => t.f.n = 0
      /\ t.u \in {"d", "h", "m"}
  BY DEF Terms, Digits, Units
<1>2. HoursPerDay \in Nat \ {0} /\ HourLength \in Nat \ {0} /\ MaxWord \in Nat
  BY DurationAssumption
<1>3. CASE t.u # "d"
  <2>1. Rewrite(t) = t
    BY <1>3 DEF Rewrite
  <2>2. UnitLength(t.u) = IF t.u = "h" THEN HourLength ELSE 1
    BY DEF UnitLength
  <2>3. TermLength(t) = MeaningOf(t)
    <3>1. CASE t.u = "h"
      BY <3>1, <2>2 DEF TermLength, MeaningOf
    <3>2. CASE t.u = "m"
      BY <3>2, <2>2 DEF TermLength, MeaningOf
    <3> QED
      BY <1>1, <1>3, <3>1, <3>2
  <2> QED
    BY <1>1, <1>3, <2>1, <2>3 DEF DaysFit
<1>4. CASE t.u = "d"
  <2> DEFINE n == t.i.n
             h == n * HoursPerDay
  <2>1. t.f.len = 0 /\ t.f.n = 0 /\ h <= MaxWord
    BY <1>1, <1>4
  <2>2. h \in Nat /\ n <= h
    BY <1>1, <1>2
  <2>3. Wrap(h) = h
    <3> HIDE DEF h
    <3> QED
      BY <1>2, <2>1, <2>2, WrapFits
  <2>4. Rewrite(t) = Term(DaysToHours(t.i), t.f, "h")
    BY <1>4, <2>1 DEF Rewrite
  <2>5. DaysToHours(t.i).n = h
    BY <2>3 DEF DaysToHours
  <2>6. /\ Rewrite(t).i.n = h /\ Rewrite(t).f.n = 0 /\ Rewrite(t).u = "h"
        /\ Rewrite(t).f.len = 0
    BY <2>1, <2>4, <2>5 DEF Term
  <2>7. DaysFit(t)
    BY <1>1, <1>2, <2>1, <2>2 DEF DaysFit
  <2>8. TermLength(Rewrite(t)) = h * HourLength + (0 * HourLength) \div (Base ^ 0)
    BY <2>6 DEF TermLength, UnitLength
  <2>9. MeaningOf(t) = n * (HourLength * HoursPerDay) + (0 * (HourLength * HoursPerDay)) \div (Base ^ 0)
    BY <1>4, <2>1 DEF MeaningOf
  <2>10. /\ h * HourLength = n * (HourLength * HoursPerDay)
         /\ 0 * HourLength = 0 * (HourLength * HoursPerDay)
    BY <1>1, <1>2
  <2>11. TermLength(Rewrite(t)) = MeaningOf(t)
    <3> HIDE DEF h, n
    <3> QED
      BY <2>8, <2>9, <2>10
  <2> HIDE DEF h, n
  <2> QED
    BY <2>2, <2>6, <2>7, <2>11
<1> QED
  BY <1>3, <1>4

\* ParseFlexibleDuration answers what the text means, when that is within bounds,
\* for texts whose days are whole and fit an int.
THEOREM ParsesAsExpected ==
    ASSUME NEW ts \in Seq(Terms), Plain(ts)
    PROVE  ParseFlexibleDuration(ts) = Expected(ts)
<1> DEFINE hours == [k \in DOMAIN ts |-> Rewrite(ts[k])]
<1>1. DOMAIN ts = 1 .. Len(ts) /\ Len(ts) \in Nat /\ \A k \in DOMAIN ts : ts[k] \in Terms
  OBVIOUS
<1>2. DOMAIN hours = DOMAIN ts /\ \A k \in DOMAIN ts : hours[k] = Rewrite(ts[k])
  OBVIOUS
<1>3. ParseFlexibleDuration(ts) =
        IF \/ \E k \in DOMAIN ts : ~DaysFit(ts[k])
           \/ ParseFails(hours)
           \/ TotalLength(hours) \notin MinTTL .. MaxTTL
        THEN Refused
        ELSE TotalLength(hours)
  BY DEF ParseFlexibleDuration
<1> HIDE DEF hours
<1>4. CASE \E k \in DOMAIN ts : ts[k].u = "?"
  <2>1. PICK k \in DOMAIN ts : ts[k].u = "?"
    BY <1>4
  <2>2. hours[k].u = "?"
    BY <1>2, <2>1 DEF Rewrite
  <2>3. ParseFails(hours)
    BY <1>2, <2>2 DEF ParseFails
  <2> QED
    BY <1>3, <1>4, <2>3 DEF Expected
<1>5. CASE ts = <<>>
  <2>1. hours = <<>>
    BY <1>5 DEF hours
  <2> QED
    BY <1>3, <1>5, <2>1 DEF ParseFails, Expected
<1>6. CASE ts # <<>> /\ \A k \in DOMAIN ts : ts[k].u # "?"
  <2>1. ASSUME NEW k \in DOMAIN ts
        PROVE  /\ DaysFit(ts[k])
               /\ hours[k].u # "?"
               /\ ~(hours[k].i.n < 0) /\ ~(hours[k].f.n < 0)
               /\ TermLength(hours[k]) = MeaningOf(ts[k])
    BY <1>1, <1>2, <1>6, RewriteKeepsMeaning DEF Plain
  <2>2. TotalLength(hours) = Meaning(ts)
    <3>1. [k \in DOMAIN hours |-> TermLength(hours[k])] = [k \in DOMAIN ts |-> MeaningOf(ts[k])]
      BY <1>2, <2>1
    <3> QED
      BY <3>1, Zenon DEF TotalLength, Meaning
  <2>3. hours # <<>>
    BY <1>1, <1>2, <1>6
  <2>4. ParseFails(hours) <=> Meaning(ts) > MaxWord
    BY <1>2, <2>1, <2>2, <2>3 DEF ParseFails
  <2>5. MaxTTL \in Nat /\ MinTTL \in Nat /\ MaxWord \in Nat /\ MaxTTL <= MaxWord
    BY DurationAssumption
  <2> DEFINE mean == Meaning(ts)
  <2>6. ASSUME mean \in MinTTL .. MaxTTL PROVE ~(mean > MaxWord)
    <3> HIDE DEF mean
    <3> QED
      BY <2>5, <2>6
  <2>7. Expected(ts) = IF mean \in MinTTL .. MaxTTL THEN mean ELSE Refused
    BY <1>6 DEF Expected
  <2>8. ParseFlexibleDuration(ts) =
          IF mean > MaxWord \/ mean \notin MinTTL .. MaxTTL THEN Refused ELSE mean
    <3>1. ~\E k \in DOMAIN ts : ~DaysFit(ts[k])
      BY <2>1
    <3> QED
      BY <1>3, <2>2, <2>4, <3>1, Zenon
  <2> HIDE DEF mean
  <2> QED
    BY <2>6, <2>7, <2>8
<1> QED
  BY <1>4, <1>5, <1>6

\* ParseFlexibleDuration and the configured default stay within the bounds.
LEMMA LifetimeBounds ==
    ASSUME NEW ts
    PROVE  /\ ParseFlexibleDuration(ts) \in {Refused} \cup MinTTL .. MaxTTL
           /\ DefaultChildTTL(ts) \in MinTTL .. MaxTTL
<1>1. ParseFlexibleDuration(ts) \in {Refused} \cup MinTTL .. MaxTTL
  BY Zenon DEF ParseFlexibleDuration
<1>2. FallbackTTL \in MinTTL .. MaxTTL
  BY DurationAssumption
<1>3. DefaultChildTTL(ts) \in MinTTL .. MaxTTL
  <2> DEFINE d == ParseFlexibleDuration(ts)
  <2>1. DefaultChildTTL(ts) = IF ts = <<>> \/ d = Refused THEN FallbackTTL ELSE d
    BY DEF DefaultChildTTL
  <2> HIDE DEF d
  <2>2. d \in {Refused} \cup MinTTL .. MaxTTL
    BY <1>1 DEF d
  <2> QED
    BY <1>2, <2>1, <2>2
<1> QED
  BY <1>1, <1>3

\* No lifetime within the bounds is 0 or taken for a refusal.
LEMMA BoundsArePositive ==
    ASSUME NEW d \in MinTTL .. MaxTTL
    PROVE  d # 0 /\ d # Refused
BY DurationAssumption DEF Refused

-----------------------------------------------------------------------------
(* Types *)

\* Arguments built from arguments.
LEMMA ArgumentTypes ==
    /\ \A w \in Words : W(w) \in Arguments /\ Flag(w) \in Arguments
    /\ None \in Arguments
    /\ \A a \in Arguments : W(a.val) \in Arguments /\ TrimSpace(a) \in Arguments
    /\ InjectedChannel \in Seq(Arguments)
<1>1. \A w \in Words : W(w) \in Arguments /\ Flag(w) \in Arguments
  BY InputAssumption DEF W, Flag, Opt, Arguments
<1>2. None \in Arguments
  BY <1>1, InputAssumption DEF None
<1>3. ASSUME NEW a \in Arguments PROVE W(a.val) \in Arguments /\ TrimSpace(a) \in Arguments
  <2>1. a.val \in Words
    BY DEF Arguments
  <2>2. TrimSpace(a) \in {W(""), a}
    BY DEF TrimSpace
  <2> QED
    BY <1>1, <2>1, <2>2, InputAssumption
<1>4. InjectedChannel \in Seq(Arguments)
  <2>1. Flag("--channel") \in Arguments /\ W("server:claude-peers") \in Arguments
    BY <1>1, InputAssumption
  <2> HIDE DEF Flag, W
  <2> QED
    BY <2>1 DEF InjectedChannel
<1> QED
  BY <1>1, <1>2, <1>3, <1>4

\* The words of a command line, their concatenations and parts.
LEMMA LineTypes ==
    ASSUME NEW q \in Seq(Arguments), NEW r \in Seq(Arguments)
    PROVE  /\ q \o r \in Seq(Arguments)
           /\ Len(q) \in Nat
           /\ q # <<>> => Len(q) > 0 /\ q[1] \in Arguments /\ Tail(q) \in Seq(Arguments)
           /\ \A k \in 1 .. Len(q) : q[k] \in Arguments /\ <<q[k]>> \in Seq(Arguments)
           /\ <<>> \in Seq(Arguments)
OBVIOUS

\* A line of one word.
LEMMA OneWord ==
    ASSUME NEW a \in Arguments
    PROVE  <<a>> \in Seq(Arguments) /\ Len(<<a>>) = 1 /\ DOMAIN <<a>> = {1} /\ <<a>>[1] = a
OBVIOUS

\* TypeOK by the parts of the state.
PlaceOK == pc \in {"main", "dispatch", "run", "claude", "server", "walk", "named",
                   "issue-token", "ttl", "issued", "exit"}
LineOK == args \in Seq(Arguments) /\ out \in Seq(Arguments) /\ at \in 1 .. Len(args) + 1
EnvOK == env \in Seq(Arguments) /\ override \in Arguments
WrapperOK == asEnv \in Seq(Arguments) /\ claude \in Seq(Arguments) /\ own \in BOOLEAN
NamingOK == dir \in Dirs \cup {<<>>} /\ name \in Arguments
IssuingOK == time \in Times \cup {<<>>} /\ ttl \in {Refused, 0} \cup MinTTL .. MaxTTL

\* The type invariant, in the parts that actions leave alone together.
LEMMA TypeParts ==
    /\ TypeOK <=> PlaceOK /\ LineOK /\ EnvOK /\ WrapperOK /\ NamingOK /\ IssuingOK
    /\ TypeOK' <=> PlaceOK' /\ LineOK' /\ EnvOK' /\ WrapperOK' /\ NamingOK' /\ IssuingOK'
BY Zenon DEF TypeOK, PlaceOK, LineOK, EnvOK, WrapperOK, NamingOK, IssuingOK

\* What a step leaves alone stays well typed.
LEMMA TypeUnchanged ==
    ASSUME TypeOK
    PROVE  /\ UNCHANGED pc => PlaceOK'
           /\ UNCHANGED <<args, at, out>> => LineOK'
           /\ UNCHANGED <<env, override>> => EnvOK'
           /\ UNCHANGED wrapper => WrapperOK'
           /\ UNCHANGED naming => NamingOK'
           /\ UNCHANGED issuing => IssuingOK'
<1>1. UNCHANGED pc => PlaceOK'
  BY Zenon DEF TypeOK, PlaceOK
<1>2. UNCHANGED <<args, at, out>> => LineOK'
  BY Zenon DEF TypeOK, LineOK
<1>3. UNCHANGED <<env, override>> => EnvOK'
  BY Zenon DEF TypeOK, EnvOK
<1>4. UNCHANGED wrapper => WrapperOK'
  BY Zenon DEF TypeOK, WrapperOK, wrapper
<1>5. UNCHANGED naming => NamingOK'
  BY Zenon DEF TypeOK, NamingOK, naming
<1>6. UNCHANGED issuing => IssuingOK'
  BY Zenon DEF TypeOK, IssuingOK, issuing
<1> QED
  BY <1>1, <1>2, <1>3, <1>4, <1>5, <1>6

\* A process starts well typed.
LEMMA TypeInit ==
    Init => TypeOK
<1> SUFFICES ASSUME Init PROVE TypeOK
  OBVIOUS
<1>1. PICK st \in Starts : typed = st.line /\ env = st.env
  BY Zenon DEF Init
<1>2. st.line \in Seq(Arguments) /\ st.env \in Seq(Arguments)
  BY InputAssumption
<1>3. pc = "main" /\ args = typed /\ at = 1 /\ out = <<>> /\ override = W("")
  BY Zenon DEF Init
<1>4. own = FALSE /\ asEnv = <<>> /\ claude = <<>> /\ dir = <<>> /\ name = None /\ time = <<>> /\ ttl = 0
  BY Zenon DEF Init
<1>5. PlaceOK
  BY <1>3 DEF PlaceOK
<1>6. LineOK
  <2>1. args \in Seq(Arguments) /\ out \in Seq(Arguments)
    BY <1>1, <1>2, <1>3, LineTypes, Zenon
  <2>2. at = 1 /\ Len(args) \in Nat
    BY <1>3, <2>1, LineTypes, Zenon
  <2>3. at \in 1 .. Len(args) + 1
    BY <2>2
  <2> QED
    BY <2>1, <2>3, Zenon DEF LineOK
<1>7. EnvOK
  BY <1>1, <1>2, <1>3, ArgumentTypes, InputAssumption DEF EnvOK
<1>8. WrapperOK
  BY <1>2, <1>4, LineTypes, Zenon DEF WrapperOK
<1>9. NamingOK
  BY <1>4, ArgumentTypes, Zenon DEF NamingOK
<1>10. IssuingOK
  BY <1>4, Zenon DEF IssuingOK
<1> QED
  BY <1>5, <1>6, <1>7, <1>8, <1>9, <1>10, TypeParts

\* A turn of a loop over the arguments.
LEMMA TurnTypes ==
    ASSUME TypeOK, NEW n \in Nat, NEW kept \in Seq(Arguments),
           at + n <= Len(args) + 1, Turn(n, kept)
    PROVE  LineOK'
<1>1. args \in Seq(Arguments) /\ out \in Seq(Arguments) /\ at \in 1 .. Len(args) + 1
  BY Zenon DEF TypeOK
<1>2. args' = args /\ out' = out \o kept /\ at' = at + n
  BY DEF Turn
<1> QED
  BY <1>1, <1>2, LineTypes DEF LineOK

\* The argument a turn looks at, and the next one.
LEMMA TurnLooksAt ==
    ASSUME TypeOK, at <= Len(args)
    PROVE  /\ args[at] \in Arguments /\ <<args[at]>> \in Seq(Arguments) /\ W(args[at].val) \in Arguments
           /\ at + 1 <= Len(args) + 1
           /\ at < Len(args) => /\ args[at + 1] \in Arguments
                                /\ <<args[at], args[at + 1]>> \in Seq(Arguments)
                                /\ at + 2 <= Len(args) + 1
           /\ Len(args) \in Nat /\ at \in Nat \ {0}
<1>1. args \in Seq(Arguments) /\ at \in 1 .. Len(args) + 1
  BY Zenon DEF TypeOK
<1>2. Len(args) \in Nat /\ at \in 1 .. Len(args) /\ at \in Nat \ {0}
  BY <1>1
<1>3. args[at] \in Arguments
  BY <1>1, <1>2
<1>4. at < Len(args) => args[at + 1] \in Arguments
  BY <1>1, <1>2
<1> QED
  BY <1>2, <1>3, <1>4, ArgumentTypes

\* The step that ends resolveAgentName.
LEMMA NamedTypes ==
    ASSUME TypeOK, NEW n \in Arguments, Named(n)
    PROVE  TypeOK'
<1>1. pc' = "named" /\ name' = n /\ dir' = dir
  BY Zenon DEF Named
<1>2. PlaceOK'
  BY <1>1 DEF PlaceOK
<1>3. dir \in Dirs \cup {<<>>}
  BY Zenon DEF TypeOK
<1>4. NamingOK'
  BY <1>1, <1>3, Zenon DEF NamingOK
<1> QED
  BY <1>2, <1>4, TypeParts, TypeUnchanged, Zenon DEF Named

\* A turn of buildRunArgv takes one argument or two, and keeps them unless they
\* are an --as.
Taken ==
    IF args[at] \in {Flag("--channel"), Flag("--as")} /\ at < Len(args)
    THEN <<args[at], args[at + 1]>> ELSE <<args[at]>>
TakenAs ==
    IF args[at] = Flag("--as") THEN Tail(Taken)
    ELSE IF args[at].opt = "--as=" THEN <<W(args[at].val)>>
    ELSE <<>>

\* A turn of buildRunArgv, in terms of what it takes.
LEMMA RunTurn ==
    ASSUME BuildRunArgv
    PROVE  /\ pc = "run" /\ at <= Len(args)
           /\ own' = (own \/ args[at].opt \in Forms)
           /\ asEnv' = asEnv \o TakenAs
           /\ Turn(Len(Taken), IF TakenAs = <<>> THEN Taken ELSE <<>>)
           /\ UNCHANGED <<pc, override, env, claude, naming, issuing>>
BY Zenon DEF BuildRunArgv, Taken, TakenAs, Forms

\* A turn of buildRunArgv takes one or two of the arguments that are left.
LEMMA TakenTypes ==
    ASSUME TypeOK, at <= Len(args)
    PROVE  /\ Taken \in Seq(Arguments) /\ TakenAs \in Seq(Arguments)
           /\ \/ Len(Taken) = 1 /\ Taken = <<args[at]>>
              \/ Len(Taken) = 2 /\ Taken = <<args[at], args[at + 1]>> /\ at < Len(args)
<1>1. \/ Taken = <<args[at]>>
      \/ Taken = <<args[at], args[at + 1]>> /\ at < Len(args)
  BY Zenon DEF Taken
<1>2. Taken \in Seq(Arguments) /\ Len(Taken) >= 1
  <2>1. CASE Taken = <<args[at]>>
    <3>1. args[at] \in Arguments
      BY TurnLooksAt
    <3> QED
      BY <2>1, <3>1
  <2>2. CASE Taken = <<args[at], args[at + 1]>> /\ at < Len(args)
    <3>1. args[at] \in Arguments /\ args[at + 1] \in Arguments
      BY <2>2, TurnLooksAt
    <3> QED
      BY <2>2, <3>1
  <2> QED
    BY <1>1, <2>1, <2>2
<1>3. Tail(Taken) \in Seq(Arguments)
  BY <1>2
<1>4. <<W(args[at].val)>> \in Seq(Arguments)
  <2>1. W(args[at].val) \in Arguments
    BY TurnLooksAt
  <2> QED
    BY <2>1
<1>5. TakenAs \in Seq(Arguments)
  BY <1>3, <1>4, LineTypes, Zenon DEF TakenAs
<1> QED
  BY <1>1, <1>2, <1>5

\* Every step keeps the variables well typed: no turn of a loop runs past the
\* arguments, and no lifetime out of bounds is ever held.
LEMMA TypeStep ==
    TypeOK /\ Dispatched /\ Walk /\ [Next]_vars => TypeOK'
<1> SUFFICES ASSUME TypeOK, Dispatched, Walk, [Next]_vars PROVE TypeOK'
  OBVIOUS
<1> USE TypeUnchanged
<1>e. ASSUME Exit PROVE TypeOK'
  <2>1. PlaceOK'
    BY <1>e DEF Exit, PlaceOK
  <2> QED
    BY <1>e, <2>1, TypeParts, Zenon DEF Exit
<1>1. CASE ParseGlobalFlags
  <2>1. CASE Exit
    BY <1>e, <2>1
  <2>2. CASE ~Exit
    <3>1. /\ at <= Len(args)
          /\ \/ at < Len(args) /\ override' = args[at + 1] /\ Turn(2, <<>>)
             \/ override' = W(args[at].val) /\ Turn(1, <<>>)
             \/ Turn(1, <<args[at]>>) /\ UNCHANGED override
          /\ UNCHANGED <<pc, env, wrapper, naming, issuing>>
      BY <1>1, <2>2, Zenon DEF ParseGlobalFlags
    <3>2. override \in Arguments /\ env \in Seq(Arguments) /\ <<>> \in Seq(Arguments)
      BY LineTypes, Zenon DEF TypeOK
    <3>3. LineOK'
      BY <3>1, <3>2, TurnTypes, TurnLooksAt
    <3>4. override' \in Arguments /\ env' = env
      BY <3>1, <3>2, TurnLooksAt
    <3>5. EnvOK'
      BY <3>2, <3>4, Zenon DEF EnvOK
    <3> QED
      BY <3>1, <3>3, <3>5, TypeParts, Zenon
  <2> QED
    BY <2>1, <2>2
<1>2. CASE GlobalFlagsParsed
  <2>1. args' = out /\ at' = 1 /\ out' = <<>> /\ pc' = "dispatch"
    BY <1>2, Zenon DEF GlobalFlagsParsed
  <2>2. out \in Seq(Arguments)
    BY Zenon DEF TypeOK
  <2>3. LineOK' /\ PlaceOK'
    BY <2>1, <2>2 DEF LineOK, PlaceOK
  <2> QED
    BY <1>2, <2>3, TypeParts, Zenon DEF GlobalFlagsParsed
<1>3. CASE Dispatch
  <2>1. CASE Exit
    BY <1>e, <2>1
  <2>2. ASSUME NEW c \in Commands, args # <<>>, pc' = c, args' = Tail(args), pc = "dispatch",
               UNCHANGED <<at, out, override, env, wrapper, naming, issuing, typed>>
        PROVE  TypeOK'
    <3>1. PlaceOK'
      BY <2>2 DEF PlaceOK, Commands
    <3>2. args \in Seq(Arguments) /\ out \in Seq(Arguments) /\ at \in 1 .. Len(args) + 1
      BY Zenon DEF TypeOK
    <3>3. at = 1
      BY <2>2 DEF Dispatched
    <3>4. args' \in Seq(Arguments) /\ Len(args') \in Nat
      BY <2>2, <3>2
    <3>5. LineOK'
      BY <2>2, <3>2, <3>3, <3>4 DEF LineOK
    <3> QED
      BY <2>2, <3>1, <3>5, TypeParts, Zenon
  <2> QED
    BY <1>3, <2>1, <2>2, Zenon DEF Dispatch
<1>4. CASE BuildRunArgv
  <2>1. /\ at <= Len(args)
        /\ own' = (own \/ args[at].opt \in Forms)
        /\ asEnv' = asEnv \o TakenAs
        /\ Turn(Len(Taken), IF TakenAs = <<>> THEN Taken ELSE <<>>)
        /\ UNCHANGED <<pc, override, env, claude, naming, issuing>>
    BY <1>4, RunTurn
  <2>2. asEnv \in Seq(Arguments) /\ claude \in Seq(Arguments) /\ own \in BOOLEAN
    BY Zenon DEF TypeOK
  <2>3. WrapperOK'
    <3>1. asEnv' \in Seq(Arguments)
      BY <2>1, <2>2, TakenTypes, LineTypes
    <3>2. own' \in BOOLEAN /\ claude' = claude
      BY <2>1, Zenon
    <3> QED
      BY <2>2, <3>1, <3>2, Zenon DEF WrapperOK
  <2>4. LineOK'
    <3>1. (IF TakenAs = <<>> THEN Taken ELSE <<>>) \in Seq(Arguments)
      BY <2>1, TakenTypes, LineTypes, Zenon
    <3>2. Len(Taken) \in Nat /\ at + Len(Taken) <= Len(args) + 1
      BY <2>1, TakenTypes, TurnLooksAt
    <3> QED
      BY <2>1, <3>1, <3>2, TurnTypes
  <2> QED
    BY <2>1, <2>3, <2>4, TypeParts, Zenon
<1>5. CASE RunClaudeWrapped
  <2>1. /\ claude' = (IF own THEN <<>> ELSE InjectedChannel) \o out
        /\ env' = env \o asEnv /\ pc' = "claude"
        /\ UNCHANGED <<own, asEnv, override>>
    BY <1>5, Zenon DEF RunClaudeWrapped
  <2>2. out \in Seq(Arguments) /\ env \in Seq(Arguments) /\ asEnv \in Seq(Arguments)
        /\ own \in BOOLEAN /\ override \in Arguments
    BY Zenon DEF TypeOK
  <2>3. PlaceOK'
    BY <2>1 DEF PlaceOK
  <2>4. EnvOK'
    BY <2>1, <2>2, LineTypes DEF EnvOK
  <2>5. (IF own THEN <<>> ELSE InjectedChannel) \in Seq(Arguments)
    BY ArgumentTypes, LineTypes, Zenon
  <2>6. WrapperOK'
    <3>1. claude' \in Seq(Arguments)
      BY <2>1, <2>2, <2>5, LineTypes
    <3> QED
      BY <2>1, <2>2, <3>1, Zenon DEF WrapperOK
  <2> QED
    BY <1>5, <2>3, <2>4, <2>6, TypeParts, Zenon DEF RunClaudeWrapped
<1>6. CASE ClaudeMissing
  BY <1>6, <1>e DEF ClaudeMissing
<1>7. CASE ClaudeStartsServer
  <2>1. args' = <<W("server")>> /\ at' = 1 /\ out' = <<>> /\ pc' = "main" /\ override' = W("") /\ env' = env
    BY <1>7, Zenon DEF ClaudeStartsServer
  <2>2. W("server") \in Arguments /\ W("") \in Arguments
    BY ArgumentTypes, InputAssumption
  <2>3. LineOK'
    <3>1. <<W("server")>> \in Seq(Arguments) /\ Len(<<W("server")>>) = 1
      BY <2>2, OneWord, Zenon
    <3>2. args' \in Seq(Arguments) /\ out' \in Seq(Arguments) /\ at' = 1 /\ Len(args') = 1
      BY <2>1, <3>1, LineTypes, Zenon
    <3>3. at' \in 1 .. Len(args') + 1
      BY <3>2
    <3> QED
      BY <3>2, <3>3, Zenon DEF LineOK
  <2>4. PlaceOK'
    BY <2>1 DEF PlaceOK
  <2>5. env \in Seq(Arguments)
    BY Zenon DEF TypeOK
  <2>6. EnvOK'
    BY <2>1, <2>2, <2>5, Zenon DEF EnvOK
  <2> QED
    BY <1>7, <2>3, <2>4, <2>6, TypeParts, Zenon DEF ClaudeStartsServer
<1>8. CASE DeclaredName
  <2>1. PICK n \in {TrimSpace(override), TrimSpace(Getenv)} : Named(n)
    BY <1>8, Zenon DEF DeclaredName
  <2>2. n \in Arguments
    <3>1. env \in Seq(Arguments) /\ override \in Arguments
      BY Zenon DEF TypeOK
    <3>2. Getenv \in Arguments
      BY <3>1, LineTypes, ArgumentTypes, InputAssumption DEF Getenv
    <3> QED
      BY <2>1, <3>1, <3>2, ArgumentTypes
  <2> QED
    BY <2>1, <2>2, NamedTypes
<1>9. CASE FindAgentFile
  <2>1. dir \in Dirs /\ place.files \in [Dirs -> Arguments]
    BY <1>9, InputAssumption DEF FindAgentFile, Walk
  <2>2. NameIn(dir) \in Arguments
    BY <2>1, ArgumentTypes DEF NameIn
  <2>3. W("") \in Arguments
    BY ArgumentTypes, InputAssumption
  <2>4. ASSUME NEW n \in Arguments, Named(n) PROVE TypeOK'
    BY <2>4, NamedTypes
  <2>5. ASSUME dir # <<>>, dir' = Front(dir),
               UNCHANGED <<pc, args, at, out, override, env, wrapper, place, name, issuing, typed>>
        PROVE  TypeOK'
    <3>1. dir' \in Dirs
      BY <2>1, <2>5, PathAssumption
    <3>2. name \in Arguments
      BY Zenon DEF TypeOK
    <3>3. NamingOK'
      BY <2>5, <3>1, <3>2 DEF NamingOK
    <3> QED
      BY <2>5, <3>3, TypeParts, Zenon
  <2> QED
    BY <1>9, <2>2, <2>3, <2>4, <2>5, Zenon DEF FindAgentFile
<1>10. ASSUME NEW cwd \in Dirs, NEW home \in Homes, NEW files \in Trees, NoDeclaredName(cwd, home, files)
       PROVE  TypeOK'
  <2>1. pc' = "walk" /\ dir' = cwd /\ name' = name
    BY <1>10, Zenon DEF NoDeclaredName
  <2>2. PlaceOK'
    BY <2>1 DEF PlaceOK
  <2>3. NamingOK'
    BY <2>1, Zenon DEF NamingOK, TypeOK
  <2> QED
    BY <1>10, <2>2, <2>3, TypeParts, Zenon DEF NoDeclaredName
<1>11. ASSUME NEW t \in Times, CliIssueToken(t) PROVE TypeOK'
  <2>1. pc' = "ttl" /\ time' = t /\ ttl' = DefaultChildTTL(t)
    BY <1>11, Zenon DEF CliIssueToken
  <2>2. PlaceOK'
    BY <2>1 DEF PlaceOK
  <2>3. IssuingOK'
    BY <2>1, LifetimeBounds, Zenon DEF IssuingOK
  <2> QED
    BY <1>11, <2>2, <2>3, TypeParts, Zenon DEF CliIssueToken
<1>12. CASE ParseIssueTokenArgs
  <2>1. /\ pc = "ttl" /\ at <= Len(args) /\ time' = time
        /\ UNCHANGED <<override, env, wrapper, naming>>
    BY <1>12, Zenon DEF ParseIssueTokenArgs
  <2>2. PICK n \in {0, 1, 2}, kept \in {<<>>, <<args[at]>>} :
           Turn(n, kept) /\ (n = 2 => at < Len(args))
    BY <1>12 DEF ParseIssueTokenArgs, TTLFlag
  <2>3. LineOK'
    <3>1. kept \in Seq(Arguments)
      BY <2>1, <2>2, TurnLooksAt, LineTypes
    <3>2. n \in Nat /\ at + n <= Len(args) + 1
      BY <2>1, <2>2, TurnLooksAt
    <3> QED
      BY <2>2, <3>1, <3>2, TurnTypes
  <2>4. pc' \in {"ttl", "exit"}
    BY <1>12, <2>1 DEF ParseIssueTokenArgs, TTLFlag
  <2>5. PlaceOK'
    BY <2>4 DEF PlaceOK
  <2>6. ttl' \in {Refused, ttl} \/ \E raw : ttl' = ParseFlexibleDuration(Spells(raw, time))
    BY <1>12, Zenon DEF ParseIssueTokenArgs, TTLFlag
  <2>7. time \in Times \cup {<<>>} /\ ttl \in {Refused, 0} \cup MinTTL .. MaxTTL
    BY Zenon DEF TypeOK
  <2>8. ttl' \in {Refused, 0} \cup MinTTL .. MaxTTL
    BY <2>6, <2>7, LifetimeBounds, Zenon
  <2>9. IssuingOK'
    BY <2>1, <2>7, <2>8, Zenon DEF IssuingOK
  <2> QED
    BY <2>1, <2>3, <2>5, <2>9, TypeParts, Zenon
<1>13. CASE IssueToken
  <2>1. PlaceOK'
    BY <1>13 DEF IssueToken, PlaceOK
  <2> QED
    BY <1>13, <2>1, TypeParts, Zenon DEF IssueToken
<1>14. CASE UNCHANGED vars
  BY <1>14, TypeParts, Zenon DEF vars
<1> QED
  BY <1>1, <1>2, <1>3, <1>4, <1>5, <1>6, <1>7, <1>8, <1>9, <1>10, <1>11, <1>12, <1>13, <1>14, Zenon DEF Next

-----------------------------------------------------------------------------
(* Where a step leads *)

\* The actions after which the process is at each place.
LEMMA Arrivals ==
    ASSUME [Next]_vars
    PROVE  /\ pc' = "main" => ParseGlobalFlags \/ ClaudeStartsServer \/ UNCHANGED vars
           /\ pc' = "dispatch" => GlobalFlagsParsed \/ UNCHANGED vars
           /\ pc' = "issue-token" => Dispatch \/ UNCHANGED vars
           /\ pc' = "run" => Dispatch \/ BuildRunArgv \/ UNCHANGED vars
           /\ pc' = "claude" => RunClaudeWrapped \/ UNCHANGED vars
           /\ pc' = "walk" => \/ FindAgentFile
                              \/ \E cwd \in Dirs, home \in Homes, files \in Trees :
                                    NoDeclaredName(cwd, home, files)
                              \/ UNCHANGED vars
           /\ pc' = "named" => DeclaredName \/ FindAgentFile \/ UNCHANGED vars
           /\ pc' = "ttl" => (\E t \in Times : CliIssueToken(t)) \/ ParseIssueTokenArgs \/ UNCHANGED vars
<1>1. ParseGlobalFlags => pc' \in {"main", "exit"}
  BY DEF ParseGlobalFlags, Exit
<1>2. GlobalFlagsParsed => pc' = "dispatch"
  BY DEF GlobalFlagsParsed
<1>3. Dispatch => pc' \in {"run", "server", "issue-token", "exit"}
  BY DEF Dispatch, Exit, Commands
<1>4. BuildRunArgv => pc' = "run"
  BY RunTurn
<1>5. RunClaudeWrapped => pc' = "claude"
  BY DEF RunClaudeWrapped
<1>6. ClaudeMissing => pc' = "exit"
  BY DEF ClaudeMissing, Exit
<1>7. ClaudeStartsServer => pc' = "main"
  BY DEF ClaudeStartsServer
<1>8. DeclaredName => pc' = "named"
  BY DEF DeclaredName, Named
<1>9. FindAgentFile => pc' \in {"walk", "named"}
  BY DEF FindAgentFile, Named
<1>10. ASSUME NEW cwd \in Dirs, NEW home \in Homes, NEW files \in Trees, NoDeclaredName(cwd, home, files)
       PROVE  pc' = "walk"
  BY <1>10 DEF NoDeclaredName
<1>11. ASSUME NEW t \in Times, CliIssueToken(t) PROVE pc' = "ttl"
  BY <1>11 DEF CliIssueToken
<1>12. ParseIssueTokenArgs => pc' \in {"ttl", "exit"}
  BY DEF ParseIssueTokenArgs, TTLFlag
<1>13. IssueToken => pc' \in {"issued", "exit"}
  BY DEF IssueToken
<1> QED
  BY <1>1, <1>2, <1>3, <1>4, <1>5, <1>6, <1>7, <1>8, <1>9, <1>10, <1>11, <1>12, <1>13 DEF Next

-----------------------------------------------------------------------------
(* parseGlobalFlags *)

KeptBefore(s, i) == {k \in NotAs(s) : k < i}

\* Options of different names differ.
LEMMA OptionsDiffer ==
    ASSUME NEW a
    PROVE  /\ a.opt = "--as=" => a # Flag("--as")
           /\ a.opt = "--ttl=" => a # Flag("--ttl")
           /\ Flag("--as").opt = "--as" /\ Flag("--ttl").opt = "--ttl"
<1>1. Flag("--as").opt = "--as" /\ Flag("--ttl").opt = "--ttl"
  BY DEF Flag, Opt
<1>2. "--as" # "--as=" /\ "--ttl" # "--ttl="
  OBVIOUS
<1> QED
  BY <1>1, <1>2, Zenon

\* What one turn makes of the positions it passes.
LEMMA AsTurn ==
    ASSUME NEW s \in Seq(Arguments), NEW i \in 1 .. Len(s), ~IsValue(s, i, "--as")
    PROVE  /\ s[i] = Flag("--as") => /\ KeptBefore(s, i + 2) = KeptBefore(s, i)
                                     /\ ~IsValue(s, i + 2, "--as")
           /\ s[i].opt = "--as=" => /\ KeptBefore(s, i + 1) = KeptBefore(s, i)
                                    /\ ~IsValue(s, i + 1, "--as")
           /\ s[i] # Flag("--as") /\ s[i].opt # "--as=" =>
                 /\ KeptBefore(s, i + 1) = KeptBefore(s, i) \cup {i}
                 /\ ~IsValue(s, i + 1, "--as")
<1>1. i \in Nat \ {0} /\ DOMAIN s = 1 .. Len(s) /\ Len(s) \in Nat
  OBVIOUS
<1>2. ASSUME NEW k PROVE k \in NotAs(s) <=> /\ k \in 1 .. Len(s)
                                            /\ ~IsValue(s, k, "--as") /\ s[k].opt # "--as="
                                            /\ s[k] # Flag("--as")
  BY <1>1, Zenon DEF NotAs, Values
<1>3. ASSUME s[i] = Flag("--as")
      PROVE  KeptBefore(s, i + 2) = KeptBefore(s, i) /\ ~IsValue(s, i + 2, "--as")
  <2>1. IsValue(s, i + 1, "--as")
    BY <1>1, <1>3, ValueFollows
  <2>2. ~IsValue(s, (i + 1) + 1, "--as")
    BY <1>1, <2>1, ValueEnds
  <2>3. i \notin NotAs(s) /\ i + 1 \notin NotAs(s)
    BY <1>2, <1>3, <2>1
  <2>4. \A k \in 1 .. Len(s) : k < i + 2 <=> k < i \/ k = i \/ k = i + 1
    BY <1>1
  <2>5. ASSUME NEW k \in NotAs(s) PROVE k < i + 2 <=> k < i
    BY <1>2, <2>3, <2>4
  <2>6. (i + 1) + 1 = i + 2
    BY <1>1
  <2> QED
    BY <2>2, <2>5, <2>6 DEF KeptBefore
<1>4. ASSUME s[i] # Flag("--as") PROVE ~IsValue(s, i + 1, "--as")
  BY <1>1, <1>4, NoValueFollows
<1>5. \A k \in 1 .. Len(s) : k < i + 1 <=> k < i \/ k = i
  BY <1>1
<1>6. ASSUME s[i].opt = "--as=" PROVE KeptBefore(s, i + 1) = KeptBefore(s, i)
  <2>1. i \notin NotAs(s)
    BY <1>2, <1>6
  <2>2. ASSUME NEW k \in NotAs(s) PROVE k < i + 1 <=> k < i
    BY <1>2, <1>5, <2>1
  <2> QED
    BY <2>2 DEF KeptBefore
<1>7. ASSUME s[i] # Flag("--as"), s[i].opt # "--as="
      PROVE  KeptBefore(s, i + 1) = KeptBefore(s, i) \cup {i}
  <2>1. i \in NotAs(s)
    BY <1>2, <1>7
  <2>2. ASSUME NEW k \in NotAs(s) PROVE k < i + 1 <=> k < i \/ k = i
    BY <1>2, <1>5
  <2> QED
    BY <2>1, <2>2 DEF KeptBefore
<1> QED
  BY <1>3, <1>4, <1>6, <1>7, OptionsDiffer

\* Before the first position nothing is kept, and after the last everything is.
LEMMA KeptEnds ==
    ASSUME NEW s \in Seq(Arguments)
    PROVE  /\ KeptBefore(s, 1) = {}
           /\ KeptBefore(s, Len(s) + 1) = NotAs(s)
           /\ NotAs(s) \subseteq 1 .. Len(s)
<1>1. Len(s) \in Nat /\ NotAs(s) \subseteq 1 .. Len(s)
  BY DEF NotAs
<1>2. \A k \in 1 .. Len(s) : ~(k < 1) /\ k < Len(s) + 1
  BY <1>1
<1> QED
  BY <1>1, <1>2 DEF KeptBefore

\* Every turn of parseGlobalFlags keeps its invariant, and so does the process
\* that claude starts.
LEMMA GlobalScanStep ==
    TypeOK /\ GlobalScan /\ [Next]_vars => GlobalScan'
<1> SUFFICES ASSUME TypeOK, GlobalScan, [Next]_vars, pc' = "main"
             PROVE  /\ (args' = typed' /\ ~own') \/ args' = <<W("server")>>
                    /\ ~IsValue(args', at', "--as")
                    /\ Lists(out', args', KeptBefore(args', at'))
  BY Zenon DEF GlobalScan, KeptBefore
<1>t. /\ args \in Seq(Arguments) /\ out \in Seq(Arguments) /\ at \in 1 .. Len(args) + 1
  BY Zenon DEF TypeOK
<1>g. ASSUME pc = "main"
      PROVE  /\ (args = typed /\ ~own) \/ args = <<W("server")>>
             /\ ~IsValue(args, at, "--as")
             /\ Lists(out, args, KeptBefore(args, at))
  BY <1>g, Zenon DEF GlobalScan, KeptBefore
<1>1. CASE ParseGlobalFlags
  <2>1. /\ pc = "main" /\ at <= Len(args)
        /\ \/ args[at] = Flag("--as") /\ Turn(2, <<>>)
           \/ args[at].opt = "--as=" /\ Turn(1, <<>>)
           \/ args[at] # Flag("--as") /\ args[at].opt # "--as=" /\ Turn(1, <<args[at]>>)
        /\ UNCHANGED <<own, asEnv, claude>>
    BY <1>1 DEF ParseGlobalFlags, Exit, wrapper
  <2>2. args' = args /\ typed' = typed /\ own' = own
    BY <2>1, Zenon DEF Turn
  <2>3. at \in 1 .. Len(args) /\ at \in Nat /\ args[at] \in Arguments
    BY <1>t, <2>1
  <2>4. out \o <<>> = out
    BY <1>t
  <2>8. (args' = typed' /\ ~own') \/ args' = <<W("server")>>
    <3>1. (args = typed /\ ~own) \/ args = <<W("server")>>
      BY <1>g, <2>1
    <3>2. CASE args = typed /\ ~own
      BY <2>2, <3>2
    <3>3. CASE args = <<W("server")>>
      BY <2>2, <3>3
    <3> QED
      BY <3>1, <3>2, <3>3
  <2>5. CASE args[at] = Flag("--as") /\ Turn(2, <<>>)
    <3>1. at' = at + 2 /\ out' = out
      BY <2>4, <2>5, Zenon DEF Turn
    <3>2. KeptBefore(args, at + 2) = KeptBefore(args, at) /\ ~IsValue(args, at + 2, "--as")
      BY <1>t, <1>g, <2>1, <2>3, <2>5, AsTurn
    <3> QED
      BY <1>g, <2>1, <2>2, <2>8, <3>1, <3>2
  <2>6. CASE args[at].opt = "--as=" /\ Turn(1, <<>>)
    <3>1. at' = at + 1 /\ out' = out
      BY <2>4, <2>6, Zenon DEF Turn
    <3>2. KeptBefore(args, at + 1) = KeptBefore(args, at) /\ ~IsValue(args, at + 1, "--as")
      BY <1>t, <1>g, <2>1, <2>3, <2>6, AsTurn
    <3> QED
      BY <1>g, <2>1, <2>2, <2>8, <3>1, <3>2
  <2>7. CASE args[at] # Flag("--as") /\ args[at].opt # "--as=" /\ Turn(1, <<args[at]>>)
    <3>1. at' = at + 1 /\ out' = out \o <<args[at]>>
      BY <2>7, Zenon DEF Turn
    <3>2. KeptBefore(args, at + 1) = KeptBefore(args, at) \cup {at} /\ ~IsValue(args, at + 1, "--as")
      BY <1>t, <1>g, <2>1, <2>3, <2>7, AsTurn
    <3>3. KeptBefore(args, at) \in SUBSET Nat /\ \A k \in KeptBefore(args, at) : k < at
      BY <1>t, KeptEnds DEF KeptBefore
    <3>4. Lists(out, args, KeptBefore(args, at))
      BY <1>g, <2>1
    <3>5. Lists(out \o <<args[at]>>, args, KeptBefore(args, at) \cup {at})
      BY <1>t, <2>3, <3>3, <3>4, ListsOneMore, Zenon
    <3> QED
      BY <2>2, <2>8, <3>1, <3>2, <3>5
  <2> QED
    BY <2>1, <2>5, <2>6, <2>7
<1>2. CASE ClaudeStartsServer
  <2>1. args' = <<W("server")>> /\ at' = 1 /\ out' = <<>>
    BY <1>2, Zenon DEF ClaudeStartsServer
  <2>2. <<W("server")>> \in Seq(Arguments)
    BY ArgumentTypes, OneWord, InputAssumption
  <2>3. KeptBefore(<<W("server")>>, 1) = {}
    BY <2>2, KeptEnds, Zenon
  <2> QED
    BY <2>1, <2>3, ListsNothing, FirstIsNoValue, Zenon
<1>3. CASE UNCHANGED vars
  <2>1. UNCHANGED <<pc, args, at, out, own, typed>>
    BY <1>3, Zenon DEF vars, wrapper
  <2> QED
    BY <1>g, <2>1, Zenon
<1> QED
  BY <1>1, <1>2, <1>3, Arrivals, Zenon

\* A process starts with the line its user typed.
LEMMA GlobalScanInit ==
    Init => GlobalScan
<1> SUFFICES ASSUME Init PROVE GlobalScan
  OBVIOUS
<1>1. args = typed /\ own = FALSE /\ at = 1 /\ out = <<>>
  BY Zenon DEF Init
<1>2. args \in Seq(Arguments)
  BY TypeInit, Zenon DEF TypeOK
<1>3. KeptBefore(args, 1) = {}
  BY <1>2, KeptEnds, Zenon
<1> QED
  BY <1>1, <1>3, ListsNothing, FirstIsNoValue, Zenon DEF GlobalScan, KeptBefore

-----------------------------------------------------------------------------
(* Dispatch and buildRunArgv *)

\* A line is one word and the rest.
LEMMA HeadAndTail ==
    ASSUME NEW q \in Seq(Arguments), q # <<>>
    PROVE  q = <<q[1]>> \o Tail(q)
OBVIOUS

\* --channel is among the forms that count as the user's own, no word is.
LEMMA FormsAreOptions ==
    /\ Flag("--channel").opt \in Forms
    /\ \A w : W(w).opt \notin Forms
<1>1. Flag("--channel").opt = "--channel" /\ \A w : W(w).opt = ""
  BY DEF Flag, W, Opt
<1>2. "--channel" \in Forms /\ "" \notin Forms
  BY DEF Forms, ChannelForms, PrintForms
<1> QED
  BY <1>1, <1>2, Zenon

\* No command has been dispatched at the start.
LEMMA DispatchedInit ==
    Init => Dispatched
<1> SUFFICES ASSUME Init PROVE Dispatched
  OBVIOUS
<1>1. pc = "main"
  BY Zenon DEF Init
<1> QED
  BY <1>1 DEF Dispatched

\* The commands see the user's line without --as, or the line of a server.
LEMMA DispatchedStep ==
    TypeOK /\ GlobalScan /\ Dispatched /\ [Next]_vars => Dispatched'
<1> SUFFICES ASSUME TypeOK, GlobalScan, Dispatched, [Next]_vars PROVE Dispatched'
  OBVIOUS
<1>t. args \in Seq(Arguments) /\ out \in Seq(Arguments) /\ at \in 1 .. Len(args) + 1
  BY Zenon DEF TypeOK
<1>1. CASE GlobalFlagsParsed
  <2>1. /\ pc = "main" /\ at > Len(args) /\ args' = out /\ at' = 1 /\ out' = <<>> /\ pc' = "dispatch"
        /\ typed' = typed /\ own' = own
    BY <1>1, Zenon DEF GlobalFlagsParsed, wrapper
  <2>2. at = Len(args) + 1
    BY <1>t, <2>1
  <2>3. /\ (args = typed /\ ~own) \/ args = <<W("server")>>
        /\ Lists(out, args, KeptBefore(args, at))
    BY <2>1, Zenon DEF GlobalScan, KeptBefore
  <2>4. Lists(out, args, NotAs(args))
    BY <1>t, <2>2, <2>3, KeptEnds
  <2>5. CASE args = typed /\ ~own
    BY <2>1, <2>4, <2>5 DEF Dispatched
  <2>6. CASE args = <<W("server")>>
    <3>1. W("server") \in Arguments
      BY ArgumentTypes, InputAssumption
    <3>2. \A i \in NotAs(args) : args[i] = W("server")
      BY <2>6, <3>1, OneWord, Zenon DEF NotAs
    <3>3. \A k \in DOMAIN out : \E i \in NotAs(args) : out[k] = args[i]
      BY <2>4 DEF Lists
    <3>4. \A k \in DOMAIN out : out[k] = W("server")
      BY <3>2, <3>3, Zenon
    <3> QED
      BY <2>1, <3>4 DEF Dispatched
  <2> QED
    BY <2>3, <2>5, <2>6
<1>2. CASE Dispatch
  <2>1. pc = "dispatch" /\ pc' # "dispatch" /\ at' = at /\ out' = out
    BY <1>2 DEF Dispatch, Exit, Commands
  <2> QED
    BY <2>1 DEF Dispatched
<1>3. CASE UNCHANGED vars
  <2>1. UNCHANGED <<pc, args, at, out, own, typed>>
    BY <1>3, Zenon DEF vars, wrapper
  <2> QED
    BY <2>1 DEF Dispatched
<1>4. CASE pc' \notin {"dispatch", "issue-token"}
  BY <1>4 DEF Dispatched
<1> QED
  BY <1>1, <1>2, <1>3, <1>4, Arrivals

\* No --as is left when buildRunArgv looks for one.
LEMMA NoAsLeft ==
    ASSUME TypeOK, RunScan, pc = "run", NEW k \in 1 .. Len(args)
    PROVE  args[k] # Flag("--as") /\ args[k].opt # "--as="
<1> DEFINE q == <<W("run")>> \o args
<1>1. args \in Seq(Arguments)
  BY Zenon DEF TypeOK
<1>3. k + 1 \in DOMAIN q /\ q[k + 1] = args[k]
  <2>1. ASSUME NEW v PROVE k + 1 \in DOMAIN (<<v>> \o args) /\ (<<v>> \o args)[k + 1] = args[k]
    BY <1>1
  <2> QED
    BY <2>1
<1>4. Lists(q, typed, NotAs(typed))
  BY Zenon DEF RunScan
<1> HIDE DEF q
<1>5. PICK i \in NotAs(typed) : q[k + 1] = typed[i]
  BY <1>3, <1>4 DEF Lists
<1>6. typed[i] # Flag("--as") /\ typed[i].opt # "--as="
  BY Zenon DEF NotAs, Values
<1> QED
  BY <1>3, <1>5, <1>6

\* No loop of buildRunArgv has begun at the start.
LEMMA RunScanInit ==
    Init => RunScan
<1> SUFFICES ASSUME Init PROVE RunScan
  OBVIOUS
<1>1. pc = "main"
  BY Zenon DEF Init
<1> QED
  BY <1>1 DEF RunScan

\* What follows a list, and what is in it.
LEMMA TwoLists ==
    ASSUME NEW q \in Seq(Arguments), NEW r \in Seq(Arguments)
    PROVE  /\ Len(q \o r) = Len(q) + Len(r)
           /\ \A k \in 1 .. Len(q) : (q \o r)[k] = q[k]
           /\ \A k \in 1 .. Len(r) : (q \o r)[Len(q) + k] = r[k]
OBVIOUS

\* Every turn of buildRunArgv passes on what it looks at, and notices a channel
\* or print flag unless it has noticed one before.
LEMMA RunScanStep ==
    TypeOK /\ Dispatched /\ RunScan /\ [Next]_vars => RunScan'
<1> DEFINE Passed(o, a, i) == Len(o) = i - 1 /\ \A k \in 1 .. i - 1 : o[k] = a[k]
           Noticed(b, a, i) == b <=> \E k \in 1 .. i - 1 : a[k].opt \in Forms
<1> SUFFICES ASSUME TypeOK, Dispatched, RunScan, [Next]_vars, pc' = "run"
             PROVE  /\ Lists(<<W("run")>> \o args', typed', NotAs(typed'))
                    /\ Passed(out', args', at')
                    /\ Noticed(own', args', at')
  BY Zenon DEF RunScan
<1>t. /\ args \in Seq(Arguments) /\ out \in Seq(Arguments) /\ at \in 1 .. Len(args) + 1
      /\ own \in BOOLEAN
  BY Zenon DEF TypeOK
<1>g. ASSUME pc = "run"
      PROVE  /\ Lists(<<W("run")>> \o args, typed, NotAs(typed))
             /\ Passed(out, args, at)
             /\ Noticed(own, args, at)
  BY <1>g, Zenon DEF RunScan
<1>1. CASE Dispatch
  <2>1. /\ pc = "dispatch" /\ args # <<>> /\ args[1] = W("run") /\ args' = Tail(args)
        /\ UNCHANGED <<at, out, own, typed>>
    BY <1>1 DEF Dispatch, Exit, Commands, wrapper
  <2>2. at = 1 /\ out = <<>>
    BY <2>1, Zenon DEF Dispatched
  <2>3. ~\A k \in DOMAIN args : args[k] = W("server")
    <3>1. W("run") # W("server")
      BY DEF W, Opt
    <3>2. 1 \in DOMAIN args
      BY <1>t, <2>1
    <3> QED
      BY <2>1, <3>1, <3>2, Zenon
  <2>4. Lists(args, typed, NotAs(typed)) /\ ~own
    BY <2>1, <2>3, Zenon DEF Dispatched
  <2>5. args = <<W("run")>> \o args'
    BY <1>t, <2>1, HeadAndTail
  <2>6. Lists(<<W("run")>> \o args', typed', NotAs(typed'))
    BY <2>1, <2>4, <2>5
  <2>7. Passed(out', args', at')
    BY <2>1, <2>2
  <2>8. Noticed(own', args', at')
    <3>1. ~own' /\ at' = 1
      BY <2>1, <2>2, <2>4
    <3> QED
      BY <3>1
  <2> QED
    BY <2>6, <2>7, <2>8
<1>2. CASE BuildRunArgv
  <2>1. /\ pc = "run" /\ at <= Len(args)
        /\ own' = (own \/ args[at].opt \in Forms)
        /\ Turn(Len(Taken), IF TakenAs = <<>> THEN Taken ELSE <<>>)
    BY <1>2, RunTurn
  <2>2. at \in 1 .. Len(args) /\ at \in Nat \ {0} /\ Len(args) \in Nat
    BY <1>t, <2>1
  <2>3. args[at] # Flag("--as") /\ args[at].opt # "--as="
    BY <2>1, <2>2, NoAsLeft
  <2>4. TakenAs = <<>>
    BY <2>3, Zenon DEF TakenAs
  <2>5. args' = args /\ typed' = typed /\ at' = at + Len(Taken) /\ out' = out \o Taken
    BY <2>1, <2>4, Zenon DEF Turn
  <2>6. Lists(<<W("run")>> \o args', typed', NotAs(typed'))
    BY <1>g, <2>1, <2>5
  <2>7. Taken \in Seq(Arguments)
    BY <2>1, TakenTypes
  <2>8. Passed(out, args, at) /\ Noticed(own, args, at)
    BY <1>g, <2>1
  <2>9. CASE Len(Taken) = 1 /\ Taken = <<args[at]>>
    <3>1. at' = at + 1 /\ Taken[1] = args[at]
      BY <2>5, <2>9
    <3>2. Len(out') = Len(out) + 1 /\ out'[Len(out) + 1] = args[at] /\ \A k \in 1 .. Len(out) : out'[k] = out[k]
      BY <1>t, <2>5, <2>7, <2>9, <3>1, TwoLists
    <3>3. Len(out) = at - 1 /\ \A k \in 1 .. at - 1 : out[k] = args[k]
      BY <2>8
    <3>4. Passed(out', args', at')
      <4>1. ASSUME NEW k \in 1 .. (at + 1) - 1 PROVE out'[k] = args[k]
        <5>1. k = at \/ k \in 1 .. at - 1
          BY <2>2
        <5> QED
          BY <2>2, <3>2, <3>3, <5>1
      <4>2. Len(out') = (at + 1) - 1
        BY <2>2, <3>2, <3>3
      <4> QED
        BY <2>5, <3>1, <4>1, <4>2
    <3>5. Noticed(own', args', at')
      <4>1. (\E k \in 1 .. (at + 1) - 1 : args[k].opt \in Forms) <=>
              (\E k \in 1 .. at - 1 : args[k].opt \in Forms) \/ args[at].opt \in Forms
        <5>1. \A k : k \in 1 .. (at + 1) - 1 <=> k \in 1 .. at - 1 \/ k = at
          BY <2>2
        <5> QED
          BY <5>1, Zenon
      <4> QED
        BY <2>1, <2>5, <2>8, <3>1, <4>1, Zenon
    <3> QED
      BY <2>6, <3>4, <3>5
  <2>10. CASE Len(Taken) = 2 /\ Taken = <<args[at], args[at + 1]>> /\ at < Len(args)
    <3>1. at' = at + 2 /\ Taken[1] = args[at] /\ Taken[2] = args[at + 1]
      BY <2>5, <2>10
    <3>2. /\ Len(out') = Len(out) + 2 /\ out'[Len(out) + 1] = args[at] /\ out'[Len(out) + 2] = args[at + 1]
          /\ \A k \in 1 .. Len(out) : out'[k] = out[k]
      BY <1>t, <2>5, <2>7, <2>10, <3>1, TwoLists
    <3>3. Len(out) = at - 1 /\ \A k \in 1 .. at - 1 : out[k] = args[k]
      BY <2>8
    <3>4. Passed(out', args', at')
      <4>1. ASSUME NEW k \in 1 .. (at + 2) - 1 PROVE out'[k] = args[k]
        <5>1. k = at \/ k = at + 1 \/ k \in 1 .. at - 1
          BY <2>2
        <5> QED
          BY <2>2, <3>2, <3>3, <5>1
      <4>2. Len(out') = (at + 2) - 1
        BY <2>2, <3>2, <3>3
      <4> QED
        BY <2>5, <3>1, <4>1, <4>2
    <3>5. args[at].opt \in Forms
      <4>1. args[at] = Flag("--channel")
        <5>1. Taken # <<args[at]>>
          BY <2>10
        <5> QED
          BY <2>3, <5>1, Zenon DEF Taken
      <4> QED
        BY <4>1, FormsAreOptions, Zenon
    <3>6. at \in 1 .. (at + 2) - 1
      BY <2>2
    <3>7. Noticed(own', args', at')
      BY <2>1, <2>5, <3>1, <3>5, <3>6, Zenon
    <3> QED
      BY <2>6, <3>4, <3>7
  <2> QED
    BY <2>1, <2>9, <2>10, TakenTypes
<1>3. CASE UNCHANGED vars
  <2>1. UNCHANGED <<pc, args, at, out, own, typed>>
    BY <1>3, Zenon DEF vars, wrapper
  <2> QED
    BY <1>g, <2>1
<1> QED
  BY <1>1, <1>2, <1>3, Arrivals, Zenon

\* claude has not been started at the start.
LEMMA ClaudeGetsTheRestInit ==
    Init => ClaudeGetsTheRest
<1> SUFFICES ASSUME Init PROVE ClaudeGetsTheRest
  OBVIOUS
<1>1. pc = "main"
  BY Zenon DEF Init
<1> QED
  BY <1>1 DEF ClaudeGetsTheRest

\* The part of a line behind its front.
LEMMA BehindFront ==
    ASSUME NEW q \in Seq(Arguments), NEW r \in Seq(Arguments)
    PROVE  SubSeq(q \o r, Len(q) + 1, Len(q \o r)) = r
OBVIOUS

\* Two lines with the same words at the same positions.
LEMMA SameLine ==
    ASSUME NEW q \in Seq(Arguments), NEW r \in Seq(Arguments), Len(q) = Len(r),
           \A k \in 1 .. Len(r) : q[k] = r[k]
    PROVE  q = r
OBVIOUS

\* claude is started when every argument after `run` has been passed on.
LEMMA ClaudeGetsTheRestStep ==
    TypeOK /\ RunScan /\ ClaudeGetsTheRest /\ [Next]_vars => ClaudeGetsTheRest'
<1> DEFINE Owned(s) == \E i \in NotAs(s) : s[i].opt \in Forms
           Front1(s) == IF Owned(s) THEN <<>> ELSE InjectedChannel
           Rest(c, s) == SubSeq(c, Len(Front1(s)) + 1, Len(c))
           Right(c, s) == c = Front1(s) \o Rest(c, s) /\ Lists(<<W("run")>> \o Rest(c, s), s, NotAs(s))
<1>d. /\ ClaudeGetsTheRest <=> (pc = "claude" => Right(claude, typed))
      /\ ClaudeGetsTheRest' <=> (pc' = "claude" => Right(claude', typed'))
  BY Zenon DEF ClaudeGetsTheRest, Forms
<1> HIDE DEF Right
<1> SUFFICES ASSUME TypeOK, RunScan, ClaudeGetsTheRest, [Next]_vars, pc' = "claude"
             PROVE  Right(claude', typed')
  BY <1>d, Zenon
<1>t. /\ args \in Seq(Arguments) /\ out \in Seq(Arguments) /\ at \in 1 .. Len(args) + 1
      /\ own \in BOOLEAN
  BY Zenon DEF TypeOK
<1>1. CASE RunClaudeWrapped
  <2>1. /\ pc = "run" /\ at > Len(args) /\ typed' = typed
        /\ claude' = (IF own THEN <<>> ELSE InjectedChannel) \o out
    BY <1>1, Zenon DEF RunClaudeWrapped
  <2>2. /\ Lists(<<W("run")>> \o args, typed, NotAs(typed))
        /\ Len(out) = at - 1
        /\ \A k \in 1 .. at - 1 : out[k] = args[k]
        /\ own <=> \E k \in 1 .. at - 1 : args[k].opt \in Forms
    BY <2>1, Zenon DEF RunScan
  <2>3. at - 1 = Len(args) /\ Len(args) \in Nat
    BY <1>t, <2>1
  <2>4. out = args
    BY <1>t, <2>2, <2>3, SameLine
  <2>5. own <=> Owned(typed)
    <3> DEFINE q == <<W("run")>> \o args
    <3>1. /\ 1 \in DOMAIN q /\ q[1] = W("run")
          /\ \A k \in 1 .. Len(args) : k + 1 \in DOMAIN q /\ q[k + 1] = args[k]
          /\ \A k \in DOMAIN q : k = 1 \/ \E l \in 1 .. Len(args) : k = l + 1
      <4>1. ASSUME NEW v
            PROVE  /\ 1 \in DOMAIN (<<v>> \o args) /\ (<<v>> \o args)[1] = v
                   /\ \A k \in 1 .. Len(args) : k + 1 \in DOMAIN (<<v>> \o args) /\ (<<v>> \o args)[k + 1] = args[k]
                   /\ DOMAIN (<<v>> \o args) = 1 .. Len(args) + 1
        BY <1>t
      <4>2. \A k \in 1 .. Len(args) + 1 : k = 1 \/ (k - 1 \in 1 .. Len(args) /\ k = (k - 1) + 1)
        BY <2>3
      <4> QED
        BY <4>1, <4>2, Zenon
    <3> HIDE DEF q
    <3>2. PICK f \in [DOMAIN q -> NotAs(typed)] :
            /\ \A k \in DOMAIN q : q[k] = typed[f[k]]
            /\ \A i \in NotAs(typed) : \E k \in DOMAIN q : f[k] = i
      BY <2>2, Zenon DEF Lists, q
    <3>3. ASSUME own PROVE Owned(typed)
      <4>1. PICK k \in 1 .. Len(args) : args[k].opt \in Forms
        BY <2>2, <2>3, <3>3
      <4>2. k + 1 \in DOMAIN q /\ q[k + 1] = args[k]
        BY <3>1
      <4>3. f[k + 1] \in NotAs(typed) /\ typed[f[k + 1]] = args[k]
        BY <3>2, <4>2
      <4> QED
        BY <4>1, <4>3, Zenon
    <3>4. ASSUME Owned(typed) PROVE own
      <4>1. PICK i \in NotAs(typed) : typed[i].opt \in Forms
        BY <3>4
      <4>2. PICK k \in DOMAIN q : f[k] = i
        BY <3>2
      <4>3. q[k].opt \in Forms
        BY <3>2, <4>1, <4>2, Zenon
      <4>4. k # 1
        BY <3>1, <4>3, FormsAreOptions, Zenon
      <4>5. PICK l \in 1 .. Len(args) : k = l + 1
        BY <3>1, <4>4
      <4>6. args[l].opt \in Forms
        BY <3>1, <4>3, <4>5
      <4> QED
        BY <2>2, <2>3, <4>6
    <3> QED
      BY <3>3, <3>4
  <2>6. Front1(typed) \in Seq(Arguments)
    BY ArgumentTypes, LineTypes, Zenon
  <2>7. claude' = Front1(typed) \o args
    BY <2>1, <2>4, <2>5, Zenon
  <2>8. Rest(claude', typed) = args
    <3> HIDE DEF Front1
    <3> QED
      BY <1>t, <2>6, <2>7, BehindFront
  <2> HIDE DEF Front1, Rest
  <2>9. Right(claude', typed)
    BY <2>2, <2>7, <2>8, Zenon DEF Right
  <2> QED
    BY <2>1, <2>9
<1>2. CASE UNCHANGED vars
  <2>1. UNCHANGED <<pc, claude, typed>>
    BY <1>2, Zenon DEF vars, wrapper
  <2> QED
    BY <1>d, <2>1, Zenon
<1> QED
  BY <1>1, <1>2, Arrivals, Zenon

-----------------------------------------------------------------------------
(* findAgentFile *)

\* Directories that lead to the same one are the same if they are as deep.
LEMMA PrefixesAgree ==
    ASSUME NEW X, NEW c \in Seq(X), NEW d \in Seq(X), NEW e \in Seq(X),
           IsPrefix(d, c), IsPrefix(e, c), Len(d) = Len(e)
    PROVE  d = e
BY DEF IsPrefix

\* The first words of a sequence.
LEMMA Beginning ==
    ASSUME NEW X, NEW d \in Seq(X), NEW n \in Nat, n <= Len(d)
    PROVE  /\ SubSeq(d, 1, n) \in Seq(X) /\ Len(SubSeq(d, 1, n)) = n
           /\ \A k \in 1 .. n : SubSeq(d, 1, n)[k] = d[k]
OBVIOUS

\* The parent of a directory on the way is on the way, one level up.
LEMMA ParentIsPrefix ==
    ASSUME NEW X, NEW c \in Seq(X), NEW d \in Seq(X), d # <<>>, IsPrefix(d, c)
    PROVE  IsPrefix(Front(d), c) /\ Len(Front(d)) = Len(d) - 1 /\ Len(d) \in Nat \ {0}
<1>1. Len(d) \in Nat \ {0} /\ Len(c) \in Nat /\ Len(d) <= Len(c)
  BY DEF IsPrefix
<1>2. \A k \in 1 .. Len(d) : d[k] = c[k]
  <2>1. SubSeq(d, 1, Len(d)) = SubSeq(c, 1, Len(d))
    BY DEF IsPrefix
  <2>2. \A k \in 1 .. Len(d) : SubSeq(d, 1, Len(d))[k] = d[k] /\ SubSeq(c, 1, Len(d))[k] = c[k]
    BY <1>1
  <2> QED
    BY <2>1, <2>2
<1> DEFINE p == Front(d)
           n == Len(d) - 1
<1>3. p \in Seq(X) /\ Len(p) = n /\ \A k \in 1 .. n : p[k] = c[k]
  <2>1. n \in Nat /\ n <= Len(d) /\ \A k \in 1 .. n : k \in 1 .. Len(d)
    BY <1>1
  <2>2. p = SubSeq(d, 1, n)
    BY DEF Front
  <2> HIDE DEF p, n
  <2>3. p \in Seq(X) /\ Len(p) = n /\ \A k \in 1 .. n : p[k] = d[k]
    BY <2>1, <2>2, Beginning
  <2> QED
    BY <1>2, <2>1, <2>3
<1> HIDE DEF p
<1>4. SubSeq(p, 1, n) = SubSeq(c, 1, n)
  BY <1>1, <1>3
<1>5. IsPrefix(p, c)
  BY <1>1, <1>3, <1>4 DEF IsPrefix
<1> QED
  BY <1>1, <1>3, <1>5 DEF p

\* The depths around a directory and its parent.
LEMMA OneLevelUp ==
    ASSUME NEW a \in Nat, NEW b \in Nat \ {0}, NEW p, p = b - 1
    PROVE  /\ a <= b /\ a # b => a <= p
           /\ p < a => a = b \/ b < a
OBVIOUS

\* Every directory is on the way to itself.
LEMMA SelfIsPrefix ==
    ASSUME NEW X, NEW c \in Seq(X)
    PROVE  IsPrefix(c, c)
BY DEF IsPrefix

\* No directory has been looked at at the start.
LEMMA WalkInit ==
    Init => Walk /\ NearestFileNames
<1> SUFFICES ASSUME Init PROVE Walk /\ NearestFileNames
  OBVIOUS
<1>1. pc = "main" /\ place = Nowhere
  BY Zenon DEF Init
<1> QED
  BY <1>1 DEF Walk, NearestFileNames

\* Only the walk looks for a place, and it ends the process's search.
LEMMA PlaceUnchanged ==
    ASSUME [Next]_vars, pc' \notin {"walk", "named"}
    PROVE  (place' = place /\ pc \notin {"walk", "named"}) \/ UNCHANGED vars
<1>1. ASSUME UNCHANGED naming PROVE place' = place
  BY <1>1 DEF naming
<1>e. ASSUME Exit PROVE place' = place
  BY <1>e, <1>1 DEF Exit
<1>2. ParseGlobalFlags => place' = place /\ pc \notin {"walk", "named"}
  BY <1>1, <1>e DEF ParseGlobalFlags
<1>3. GlobalFlagsParsed => place' = place /\ pc \notin {"walk", "named"}
  BY <1>1 DEF GlobalFlagsParsed
<1>4. Dispatch => place' = place /\ pc \notin {"walk", "named"}
  BY <1>1, <1>e DEF Dispatch
<1>5. BuildRunArgv => place' = place /\ pc \notin {"walk", "named"}
  BY <1>1, RunTurn
<1>6. RunClaudeWrapped => place' = place /\ pc \notin {"walk", "named"}
  BY <1>1 DEF RunClaudeWrapped
<1>7. ClaudeMissing => place' = place /\ pc \notin {"walk", "named"}
  BY <1>e DEF ClaudeMissing
<1>8. ClaudeStartsServer => place' = place /\ pc \notin {"walk", "named"}
  BY <1>1 DEF ClaudeStartsServer
<1>9. ~DeclaredName /\ ~FindAgentFile
  <2>1. DeclaredName => pc' = "named"
    BY DEF DeclaredName, Named
  <2>2. FindAgentFile => pc' \in {"walk", "named"}
    BY DEF FindAgentFile, Named
  <2> QED
    BY <2>1, <2>2
<1>10. ASSUME NEW cwd \in Dirs, NEW home \in Homes, NEW files \in Trees
       PROVE  ~NoDeclaredName(cwd, home, files)
  BY DEF NoDeclaredName
<1>11. ASSUME NEW t \in Times, CliIssueToken(t) PROVE place' = place /\ pc \notin {"walk", "named"}
  BY <1>1, <1>11 DEF CliIssueToken
<1>12. ParseIssueTokenArgs => place' = place /\ pc \notin {"walk", "named"}
  BY <1>1 DEF ParseIssueTokenArgs
<1>13. IssueToken => place' = place /\ pc \notin {"walk", "named"}
  BY <1>1 DEF IssueToken
<1> QED
  BY <1>2, <1>3, <1>4, <1>5, <1>6, <1>7, <1>8, <1>9, <1>10, <1>11, <1>12, <1>13, Zenon DEF Next

\* Every turn of findAgentFile goes one directory up, past one without a name.
LEMMA WalkStep ==
    TypeOK /\ Walk /\ [Next]_vars => Walk'
<1> DEFINE OnTheWay(p, d) ==
        /\ p \in [cwd : Dirs, home : Homes, files : Trees]
        /\ d \in Dirs /\ IsPrefix(d, p.cwd)
        /\ IF IsInside(p.cwd, p.home) THEN Len(p.home) <= Len(d) ELSE d = p.cwd
        /\ \A e \in Dirs : IsPrefix(e, p.cwd) /\ Len(d) < Len(e) =>
              TrimSpace(p.files[e]) \in {None, W("")}
<1>d. /\ Walk <=> /\ pc \notin {"walk", "named"} => place = Nowhere
                  /\ pc = "walk" => OnTheWay(place, dir)
      /\ Walk' <=> /\ pc' \notin {"walk", "named"} => place' = Nowhere
                   /\ pc' = "walk" => OnTheWay(place', dir')
  BY Zenon DEF Walk, HasName, NameIn
<1> SUFFICES ASSUME TypeOK, Walk, [Next]_vars PROVE Walk'
  OBVIOUS
<1>1. pc' \notin {"walk", "named"} => place' = Nowhere
  <2>1. UNCHANGED vars => UNCHANGED <<pc, place>>
    BY Zenon DEF vars, naming
  <2> HIDE DEF OnTheWay
  <2> QED
    BY <1>d, <2>1, PlaceUnchanged
<1>2. ASSUME pc' = "walk" PROVE OnTheWay(place', dir')
  <2>1. CASE FindAgentFile
    <3>1. /\ pc = "walk" /\ place' = place /\ dir' = Front(dir) /\ ~HasName(dir)
          /\ IsInside(place.cwd, place.home) /\ dir # place.home /\ dir # <<>>
      <4>1. ~Named(NameIn(dir)) /\ ~Named(W(""))
        BY <1>2 DEF Named
      <4> QED
        BY <2>1, <4>1, Zenon DEF FindAgentFile
    <3> DEFINE c == place.cwd
               h == place.home
    <3>2. OnTheWay(place, dir)
      BY <1>d, <3>1, Zenon
    <3>3. /\ c \in Dirs /\ h \in Homes /\ dir \in Dirs /\ IsPrefix(dir, c) /\ Len(h) <= Len(dir)
          /\ \A e \in Dirs : IsPrefix(e, c) /\ Len(dir) < Len(e) => TrimSpace(place.files[e]) \in {None, W("")}
      BY <3>1, <3>2
    <3>4. h # NoHome /\ IsPrefix(h, c)
      BY <3>1, Zenon DEF IsInside
    <3>5. h \in Dirs
      BY <3>3, <3>4, PathAssumption
    <3> HIDE DEF c, h
    <3>6. c \in Seq(STRING) /\ h \in Seq(STRING) /\ dir \in Seq(STRING)
      BY <3>3, <3>5, PathAssumption
    <3>7. dir' \in Dirs
      BY <3>1, <3>3, PathAssumption
    <3>8. IsPrefix(dir', c) /\ Len(dir') = Len(dir) - 1 /\ Len(dir) \in Nat \ {0}
      BY <3>1, <3>3, <3>6, ParentIsPrefix
    <3>9. Len(h) # Len(dir) /\ Len(h) \in Nat
      <4>1. dir # h
        BY <3>1 DEF h
      <4>2. Len(h) \in Nat
        BY <3>6
      <4>3. ASSUME Len(h) = Len(dir) PROVE h = dir
        BY <3>3, <3>4, <3>6, <4>3, PrefixesAgree, Zenon
      <4> QED
        BY <4>1, <4>2, <4>3, Zenon
    <3>10. Len(h) <= Len(dir')
      BY <3>3, <3>8, <3>9, OneLevelUp, Zenon
    <3>11. ASSUME NEW e \in Dirs, IsPrefix(e, c), Len(dir') < Len(e)
           PROVE  TrimSpace(place.files[e]) \in {None, W("")}
      <4>1. e \in Seq(STRING) /\ Len(e) \in Nat
        BY PathAssumption
      <4>2. CASE Len(e) = Len(dir)
        <5>1. e = dir
          BY <3>3, <3>6, <3>11, <4>1, <4>2, PrefixesAgree
        <5> QED
          BY <3>1, <5>1, Zenon DEF HasName, NameIn
      <4>3. CASE Len(dir) < Len(e)
        BY <3>3, <3>11, <4>3
      <4>4. Len(e) = Len(dir) \/ Len(dir) < Len(e)
        BY <3>8, <3>11, <4>1, OneLevelUp, Zenon
      <4> QED
        BY <4>2, <4>3, <4>4
    <3> QED
      BY <3>1, <3>2, <3>7, <3>8, <3>10, <3>11, Zenon DEF c, h
  <2>2. ASSUME NEW cwd \in Dirs, NEW home \in Homes, NEW files \in Trees, NoDeclaredName(cwd, home, files)
        PROVE  OnTheWay(place', dir')
    <3>1. place' = [cwd |-> cwd, home |-> home, files |-> files] /\ dir' = cwd
      BY <2>2, Zenon DEF NoDeclaredName
    <3> DEFINE p == [cwd |-> cwd, home |-> home, files |-> files]
    <3>2. p \in [cwd : Dirs, home : Homes, files : Trees] /\ p.cwd = cwd /\ p.home = home
      OBVIOUS
    <3>3. cwd \in Seq(STRING) /\ IsPrefix(cwd, cwd)
      BY PathAssumption, SelfIsPrefix
    <3>4. ASSUME IsInside(cwd, home) PROVE Len(home) <= Len(cwd)
      BY <3>4 DEF IsInside, IsPrefix
    <3>5. ASSUME NEW e \in Dirs, IsPrefix(e, cwd), Len(cwd) < Len(e) PROVE FALSE
      <4>1. Len(e) \in Nat /\ Len(cwd) \in Nat
        BY PathAssumption
      <4>2. Len(e) <= Len(cwd)
        BY <3>5 DEF IsPrefix
      <4> QED
        BY <3>5, <4>1, <4>2
    <3> HIDE DEF p
    <3>6. OnTheWay(p, cwd)
      BY <3>2, <3>3, <3>4, <3>5, Zenon
    <3> QED
      BY <3>1, <3>6, Zenon DEF p
  <2>3. CASE UNCHANGED vars
    <3>1. UNCHANGED <<pc, place, dir>>
      BY <2>3, Zenon DEF vars, naming
    <3> QED
      BY <1>2, <1>d, <3>1, Zenon
  <2> QED
    BY <1>2, <2>1, <2>2, <2>3, Arrivals, Zenon
<1> QED
  BY <1>1, <1>2, <1>d, Zenon

\* The name is found at the first directory upwards that has one, and given up
\* for only when the walk has reached its end.
LEMMA NearestFileNamesStep ==
    TypeOK /\ Walk /\ NearestFileNames /\ [Next]_vars => NearestFileNames'
<1> DEFINE Ups(p) == {d \in Dirs : IsPrefix(d, p.cwd)}
           Hidden(p) == p.cwd # p.home /\ p.cwd[Len(p.home) + 1] \in Dotted
           Within(p) == IF p.home \in Ups(p) /\ ~Hidden(p) THEN {d \in Ups(p) : Len(p.home) <= Len(d)}
                        ELSE {p.cwd}
           At(p, d) == TrimSpace(p.files[d])
           With(p) == {d \in Within(p) : At(p, d) \notin {None, W("")}}
           Nearest(p, n) == \/ With(p) = {} /\ n = W("")
                            \/ \E d \in With(p) : (\A e \in With(p) : Len(e) <= Len(d)) /\ n = At(p, d)
<1>d. /\ NearestFileNames <=> (pc = "named" /\ place # Nowhere => Nearest(place, name))
      /\ NearestFileNames' <=> (pc' = "named" /\ place' # Nowhere => Nearest(place', name'))
  BY Zenon DEF NearestFileNames, HasName, NameIn
<1> SUFFICES ASSUME TypeOK, Walk, NearestFileNames, [Next]_vars, pc' = "named", place' # Nowhere
             PROVE  Nearest(place', name')
  <2> HIDE DEF Nearest
  <2> QED
    BY <1>d, Zenon
<1>1. CASE DeclaredName
  <2>1. pc = "server" /\ place' = place
    BY <1>1, Zenon DEF DeclaredName, Named
  <2>2. place = Nowhere
    BY <2>1 DEF Walk
  <2> QED
    BY <2>1, <2>2
<1>2. CASE FindAgentFile
  <2> DEFINE c == place.cwd
             h == place.home
             inside == IsInside(c, h)
  <2>1. /\ pc = "walk" /\ place' = place
        /\ \/ HasName(dir) /\ name' = NameIn(dir)
           \/ ~HasName(dir) /\ (~inside \/ dir = h \/ dir = <<>>) /\ name' = W("")
    <3>1. ~(pc = "walk" /\ pc' = pc)
      BY Zenon
    <3> QED
      BY <1>2, <3>1, Zenon DEF FindAgentFile, Named
  <2>2. /\ c \in Dirs /\ h \in Homes /\ dir \in Dirs /\ IsPrefix(dir, c)
        /\ inside => Len(h) <= Len(dir)
        /\ ~inside => dir = c
    BY <2>1 DEF Walk
  <2>3. \A e \in Dirs : IsPrefix(e, c) /\ Len(dir) < Len(e) => ~HasName(e)
    BY <2>1, Zenon DEF Walk
  <2>4. inside <=> h \in Ups(place) /\ ~Hidden(place)
    BY <2>2, PathAssumption, Zenon DEF IsInside
  <2>5. \A d : d \in With(place) <=> d \in Within(place) /\ HasName(d)
    BY Zenon DEF HasName, NameIn
  <2>6. NameIn(dir) = At(place, dir)
    BY DEF NameIn
  <2>7. c \in Seq(STRING) /\ dir \in Seq(STRING) /\ \A d \in Dirs : d \in Seq(STRING) /\ Len(d) \in Nat
    BY <2>2, PathAssumption
  <2>8. CASE inside
    <3>1. \A d : d \in Within(place) <=> d \in Dirs /\ IsPrefix(d, c) /\ Len(h) <= Len(d)
      BY <2>4, <2>8, Zenon
    <3>2. h \in Dirs
      BY <2>4, <2>8, Zenon
    <3> HIDE DEF With, Within, c, h, inside
    <3>3. ASSUME NEW d \in With(place) PROVE Len(d) <= Len(dir)
      <4>1. d \in Dirs /\ IsPrefix(d, c) /\ HasName(d)
        BY <2>5, <3>1, Zenon
      <4>2. ~(Len(dir) < Len(d))
        BY <2>3, <4>1, Zenon
      <4>3. Len(d) \in Nat /\ Len(dir) \in Nat
        BY <2>2, <2>7, <4>1, Zenon
      <4> QED
        BY <4>2, <4>3
    <3>4. CASE HasName(dir)
      <4>1. dir \in With(place)
        BY <2>2, <2>5, <2>8, <3>1, <3>4, Zenon
      <4>2. name' = At(place, dir)
        BY <2>1, <2>6, <3>4
      <4> QED
        BY <2>1, <3>3, <4>1, <4>2, Zenon
    <3>5. CASE ~HasName(dir)
      <4>1. (dir = h \/ dir = <<>>) /\ name' = W("")
        BY <2>1, <2>8, <3>5, Zenon
      <4>2. ASSUME NEW d \in With(place) PROVE FALSE
        <5>1. d \in Dirs /\ IsPrefix(d, c) /\ HasName(d) /\ Len(h) <= Len(d)
          BY <2>5, <3>1, Zenon
        <5>2. Len(d) <= Len(dir)
          BY <3>3
        <5>3. Len(d) \in Nat /\ Len(dir) \in Nat
          BY <2>2, <2>7, <5>1, Zenon
        <5>4. Len(d) = Len(dir)
          <6>1. CASE dir = h
            <7>1. Len(dir) <= Len(d)
              BY <5>1, <6>1, Zenon
            <7> QED
              BY <5>2, <5>3, <7>1
          <6>2. CASE dir = <<>>
            <7>1. Len(dir) = 0
              BY <6>2
            <7> QED
              BY <5>2, <5>3, <7>1
          <6> QED
            BY <4>1, <6>1, <6>2
        <5>5. d = dir
          BY <2>2, <2>7, <5>1, <5>4, PrefixesAgree, Zenon
        <5> QED
          BY <3>5, <5>1, <5>5, Zenon
      <4>3. With(place) = {}
        BY <4>2
      <4> QED
        BY <2>1, <4>1, <4>3, Zenon
    <3> QED
      BY <3>4, <3>5
  <2>9. CASE ~inside
    <3>1. Within(place) = {dir}
      BY <2>2, <2>4, <2>9, Zenon
    <3> HIDE DEF Within, c, h, inside
    <3>2. CASE HasName(dir)
      <4>1. With(place) = {dir}
        BY <2>5, <3>1, <3>2
      <4>2. Len(dir) <= Len(dir)
        BY <2>2, <2>7
      <4>3. name' = At(place, dir)
        BY <2>1, <2>6, <3>2
      <4> QED
        BY <2>1, <4>1, <4>2, <4>3
    <3>3. CASE ~HasName(dir)
      <4>1. With(place) = {}
        BY <2>5, <3>1, <3>3
      <4> QED
        BY <2>1, <3>3, <4>1, Zenon
    <3> QED
      BY <3>2, <3>3
  <2> QED
    BY <2>8, <2>9
<1>3. CASE UNCHANGED vars
  <2>1. UNCHANGED <<pc, place, name>>
    BY <1>3, Zenon DEF vars, naming
  <2> HIDE DEF Nearest
  <2> QED
    BY <1>d, <2>1, Zenon
<1> QED
  BY <1>1, <1>2, <1>3, Arrivals, Zenon

-----------------------------------------------------------------------------
(* parseIssueTokenArgs *)

GivenBefore(s, i) == {k \in Given(s) : k < i}

\* What one turn makes of the positions it passes.
LEMMA TTLTurn ==
    ASSUME NEW s \in Seq(Arguments), NEW i \in 1 .. Len(s), ~IsValue(s, i, "--ttl")
    PROVE  /\ s[i] = Flag("--ttl") /\ i < Len(s) =>
                 /\ i + 1 \in Given(s) /\ ValueAt(s, i + 1, "--ttl") = s[i + 1]
                 /\ GivenBefore(s, i + 2) = GivenBefore(s, i) \cup {i + 1}
                 /\ ~IsValue(s, i + 2, "--ttl")
           /\ s[i].opt = "--ttl=" =>
                 /\ i \in Given(s) /\ ValueAt(s, i, "--ttl") = W(s[i].val)
                 /\ GivenBefore(s, i + 1) = GivenBefore(s, i) \cup {i}
                 /\ ~IsValue(s, i + 1, "--ttl")
           /\ s[i] # Flag("--ttl") /\ s[i].opt # "--ttl=" =>
                 /\ GivenBefore(s, i + 1) = GivenBefore(s, i)
                 /\ ~IsValue(s, i + 1, "--ttl")
<1>1. i \in Nat \ {0} /\ DOMAIN s = 1 .. Len(s) /\ Len(s) \in Nat
  OBVIOUS
<1>2. ASSUME NEW k PROVE k \in Given(s) <=> k \in 1 .. Len(s) /\ (IsValue(s, k, "--ttl") \/ s[k].opt = "--ttl=")
  BY <1>1, Zenon DEF Given, Values
<1>3. ASSUME s[i] = Flag("--ttl"), i < Len(s)
      PROVE  /\ i + 1 \in Given(s) /\ ValueAt(s, i + 1, "--ttl") = s[i + 1]
             /\ GivenBefore(s, i + 2) = GivenBefore(s, i) \cup {i + 1}
             /\ ~IsValue(s, i + 2, "--ttl")
  <2>1. IsValue(s, i + 1, "--ttl")
    BY <1>1, <1>3, ValueFollows
  <2>2. ~IsValue(s, (i + 1) + 1, "--ttl")
    BY <1>1, <2>1, ValueEnds
  <2>3. i + 1 \in 1 .. Len(s) /\ (i + 1) + 1 = i + 2
    BY <1>1, <1>3
  <2>4. i \notin Given(s) /\ i + 1 \in Given(s)
    <3>1. s[i].opt # "--ttl="
      BY <1>3, OptionsDiffer, Zenon
    <3> QED
      BY <1>2, <2>1, <2>3, <3>1, Zenon
  <2>5. \A k \in 1 .. Len(s) : k < i + 2 <=> k < i \/ k = i \/ k = i + 1
    BY <1>1
  <2>6. ASSUME NEW k \in Given(s) PROVE k < i + 2 <=> k < i \/ k = i + 1
    BY <1>2, <2>4, <2>5
  <2>7. GivenBefore(s, i + 2) = GivenBefore(s, i) \cup {i + 1}
    BY <2>4, <2>6 DEF GivenBefore
  <2>8. ValueAt(s, i + 1, "--ttl") = s[i + 1]
    BY <2>1, Zenon DEF ValueAt
  <2> QED
    BY <2>2, <2>3, <2>4, <2>7, <2>8
<1>4. ASSUME s[i] # Flag("--ttl") PROVE ~IsValue(s, i + 1, "--ttl")
  BY <1>1, <1>4, NoValueFollows
<1>5. \A k \in 1 .. Len(s) : k < i + 1 <=> k < i \/ k = i
  BY <1>1
<1>6. ASSUME s[i].opt = "--ttl="
      PROVE  /\ i \in Given(s) /\ ValueAt(s, i, "--ttl") = W(s[i].val)
             /\ GivenBefore(s, i + 1) = GivenBefore(s, i) \cup {i}
  <2>1. i \in Given(s)
    BY <1>2, <1>6
  <2>2. ASSUME NEW k \in Given(s) PROVE k < i + 1 <=> k < i \/ k = i
    BY <1>2, <1>5
  <2>3. ValueAt(s, i, "--ttl") = W(s[i].val)
    BY Zenon DEF ValueAt
  <2> QED
    BY <2>1, <2>2, <2>3 DEF GivenBefore
<1>7. ASSUME s[i].opt # "--ttl="
      PROVE  GivenBefore(s, i + 1) = GivenBefore(s, i)
  <2>1. i \notin Given(s)
    BY <1>2, <1>7
  <2>2. ASSUME NEW k \in Given(s) PROVE k < i + 1 <=> k < i
    BY <1>2, <1>5, <2>1
  <2> QED
    BY <2>2 DEF GivenBefore
<1> QED
  BY <1>3, <1>4, <1>6, <1>7, OptionsDiffer

\* Before the first position no value is given, and after the last all are; then
\* no --ttl lacks its value.
LEMMA GivenEnds ==
    ASSUME NEW s \in Seq(Arguments)
    PROVE  /\ GivenBefore(s, 1) = {}
           /\ GivenBefore(s, Len(s) + 1) = Given(s)
           /\ Given(s) \subseteq 1 .. Len(s)
           /\ ~IsValue(s, Len(s) + 1, "--ttl") => ~Dangling(s, "--ttl")
<1>1. Len(s) \in Nat /\ Given(s) \subseteq 1 .. Len(s)
  BY DEF Given, Values
<1>2. \A k \in 1 .. Len(s) : ~(k < 1) /\ k < Len(s) + 1
  BY <1>1
<1>3. ASSUME Dangling(s, "--ttl") PROVE IsValue(s, Len(s) + 1, "--ttl")
  <2>1. s # <<>> /\ s[Len(s)] = Flag("--ttl") /\ ~IsValue(s, Len(s), "--ttl")
    BY <1>3, Zenon DEF Dangling, Last
  <2>2. Len(s) \in Nat \ {0}
    BY <2>1
  <2> QED
    BY <2>1, <2>2, ValueFollows
<1> QED
  BY <1>1, <1>2, <1>3 DEF GivenBefore

\* A later --ttl wins.
LEMMA LaterWins ==
    ASSUME NEW a, NEW t, NEW S \in SUBSET Nat, NEW d, NEW p \in Nat,
           LifetimeAfter(a, t, S, d), \A k \in S : k < p, Lifetime(a, t, p) # Refused
    PROVE  LifetimeAfter(a, t, S \cup {p}, Lifetime(a, t, p))
<1>1. IsLast(p, S \cup {p})
  BY DEF IsLast
<1>2. \A i \in S \cup {p} : Lifetime(a, t, i) # Refused
  BY Zenon DEF LifetimeAfter
<1> QED
  BY <1>1, <1>2, Zenon DEF LifetimeAfter

\* The steps outside issue-token have no lifetime to lose.
LEMMA NoLifetimeElsewhere ==
    ASSUME [Next]_vars
    PROVE  \/ \E t \in Times : CliIssueToken(t)
           \/ ParseIssueTokenArgs
           \/ IssueToken
           \/ UNCHANGED vars
           \/ pc \notin {"ttl", "issued", "exit"} /\ pc' # "ttl" /\ ttl' = ttl
<1> DEFINE Elsewhere == pc \notin {"ttl", "issued", "exit"} /\ pc' # "ttl" /\ ttl' = ttl
<1>1. ASSUME UNCHANGED issuing PROVE ttl' = ttl
  BY <1>1 DEF issuing
<1>e. ASSUME Exit PROVE ttl' = ttl /\ pc' = "exit"
  BY <1>e, <1>1 DEF Exit
<1>n. ASSUME NEW n, Named(n) PROVE ttl' = ttl /\ pc' = "named"
  BY <1>n, <1>1 DEF Named
<1>2. ParseGlobalFlags => Elsewhere
  BY <1>1, <1>e DEF ParseGlobalFlags
<1>3. GlobalFlagsParsed => Elsewhere
  BY <1>1 DEF GlobalFlagsParsed
<1>4. Dispatch => Elsewhere
  BY <1>1, <1>e DEF Dispatch, Commands
<1>5. BuildRunArgv => Elsewhere
  BY <1>1, RunTurn
<1>6. RunClaudeWrapped => Elsewhere
  BY <1>1 DEF RunClaudeWrapped
<1>7. ClaudeMissing => Elsewhere
  BY <1>e DEF ClaudeMissing
<1>8. ClaudeStartsServer => Elsewhere
  BY <1>1 DEF ClaudeStartsServer
<1>9. DeclaredName => Elsewhere
  BY <1>n DEF DeclaredName
<1>10. FindAgentFile => Elsewhere
  BY <1>1, <1>n DEF FindAgentFile
<1>11. ASSUME NEW cwd \in Dirs, NEW home \in Homes, NEW files \in Trees, NoDeclaredName(cwd, home, files)
       PROVE  Elsewhere
  BY <1>1, <1>11 DEF NoDeclaredName
<1> HIDE DEF Elsewhere
<1>12. \/ \E t \in Times : CliIssueToken(t)
       \/ ParseIssueTokenArgs
       \/ IssueToken
       \/ UNCHANGED vars
       \/ Elsewhere
  BY <1>2, <1>3, <1>4, <1>5, <1>6, <1>7, <1>8, <1>9, <1>10, <1>11, Zenon DEF Next
<1> QED
  BY <1>12, Zenon DEF Elsewhere

\* No lifetime has been asked for at the start.
LEMMA TTLScanInit ==
    Init => TTLScan
<1> SUFFICES ASSUME Init PROVE TTLScan
  OBVIOUS
<1>1. pc = "main" /\ ttl = 0
  BY Zenon DEF Init
<1> QED
  BY <1>1 DEF TTLScan

\* Every turn of parseIssueTokenArgs takes the lifetime it meets, or ends the
\* process with a refusal.
LEMMA TTLScanStep ==
    TypeOK /\ Dispatched /\ TTLScan /\ [Next]_vars => TTLScan'
<1> SUFFICES ASSUME TypeOK, Dispatched, TTLScan, [Next]_vars PROVE TTLScan'
  OBVIOUS
<1>t. args \in Seq(Arguments) /\ at \in 1 .. Len(args) + 1
  BY Zenon DEF TypeOK
<1>d. TTLScan' <=>
        /\ ttl' # 0 => pc' \in {"ttl", "issued", "exit"} /\ time' \in Times
        /\ pc' = "ttl" => /\ ttl' # 0 /\ ~IsValue(args', at', "--ttl")
                          /\ LifetimeAfter(args', time', GivenBefore(args', at'), ttl')
        /\ ttl' # 0 /\ pc' # "ttl" => Resolved(args', time', ttl')
  BY Zenon DEF TTLScan, GivenBefore
<1>g. ASSUME pc = "ttl"
      PROVE  /\ ttl # 0 /\ time \in Times
             /\ ~IsValue(args, at, "--ttl")
             /\ LifetimeAfter(args, time, GivenBefore(args, at), ttl)
  BY <1>g, Zenon DEF TTLScan, GivenBefore
<1>1. ASSUME NEW t \in Times, CliIssueToken(t) PROVE TTLScan'
  <2>1. /\ pc = "issue-token" /\ time' = t /\ ttl' = DefaultChildTTL(t) /\ pc' = "ttl"
        /\ args' = args /\ at' = at
    BY <1>1, Zenon DEF CliIssueToken
  <2>2. at = 1
    BY <2>1 DEF Dispatched
  <2>3. GivenBefore(args, 1) = {}
    BY <1>t, GivenEnds, Zenon
  <2>4. LifetimeAfter(args, t, {}, DefaultChildTTL(t))
    BY Zenon DEF LifetimeAfter
  <2>5. ttl' # 0
    BY <2>1, LifetimeBounds, BoundsArePositive, Zenon
  <2>6. ~IsValue(args, 1, "--ttl")
    BY FirstIsNoValue
  <2>7. ~IsValue(args', at', "--ttl") /\ LifetimeAfter(args', time', GivenBefore(args', at'), ttl')
    BY <2>1, <2>2, <2>3, <2>4, <2>6
  <2> QED
    BY <1>d, <2>1, <2>5, <2>7
<1>2. CASE ParseIssueTokenArgs
  <2>1. /\ pc = "ttl" /\ at <= Len(args) /\ time' = time
        /\ \/ args[at] = Flag("--ttl") /\ at = Len(args) /\ ttl' = Refused /\ pc' = "exit" /\ Turn(0, <<>>)
           \/ args[at] = Flag("--ttl") /\ at < Len(args) /\ TTLFlag(args[at + 1], 2)
           \/ args[at].opt = "--ttl=" /\ TTLFlag(W(args[at].val), 1)
           \/ /\ args[at] # Flag("--ttl") /\ args[at].opt # "--ttl="
              /\ Turn(1, <<args[at]>>) /\ UNCHANGED <<pc, ttl>>
    BY <1>2, Zenon DEF ParseIssueTokenArgs
  <2>2. at \in 1 .. Len(args) /\ at \in Nat \ {0} /\ Len(args) \in Nat
    BY <1>t, <2>1
  <2>3. ttl # 0 /\ time \in Times /\ ~IsValue(args, at, "--ttl")
        /\ LifetimeAfter(args, time, GivenBefore(args, at), ttl)
    BY <1>g, <2>1
  <2>4. GivenBefore(args, at) \in SUBSET Nat /\ \A k \in GivenBefore(args, at) : k < at /\ k < at + 1
    BY <1>t, <2>2, GivenEnds DEF GivenBefore
  <2>5. Refused # 0
    BY DEF Refused
  <2>f. ASSUME NEW p \in Nat, p \in Given(args), NEW n \in Nat, NEW raw, ValueAt(args, p, "--ttl") = raw,
               GivenBefore(args, at + n) = GivenBefore(args, at) \cup {p},
               \A k \in GivenBefore(args, at) : k < p,
               ~IsValue(args, at + n, "--ttl"), TTLFlag(raw, n)
        PROVE  TTLScan'
    <3>1. /\ ttl' = Lifetime(args, time, p) /\ pc' = (IF ttl' = Refused THEN "exit" ELSE pc)
          /\ args' = args /\ at' = at + n
      BY <2>f, Zenon DEF TTLFlag, Lifetime, Turn
    <3>2. ttl' # 0
      BY <2>5, <3>1, LifetimeBounds, BoundsArePositive, Zenon DEF Lifetime
    <3>3. CASE ttl' = Refused
      <4>1. Resolved(args, time, ttl')
        BY <2>f, <3>1, <3>3, Zenon DEF Resolved
      <4>2. pc' = "exit" /\ Resolved(args', time', ttl')
        BY <2>1, <3>1, <3>3, <4>1
      <4> QED
        BY <1>d, <2>1, <2>3, <4>2
    <3>4. CASE ttl' # Refused
      <4>1. LifetimeAfter(args, time, GivenBefore(args, at) \cup {p}, ttl')
        BY <2>3, <2>4, <2>f, <3>1, <3>4, LaterWins
      <4>2. pc' = "ttl" /\ ~IsValue(args', at', "--ttl")
            /\ LifetimeAfter(args', time', GivenBefore(args', at'), ttl')
        BY <2>1, <2>f, <3>1, <3>4, <4>1
      <4> QED
        BY <1>d, <2>1, <2>3, <3>2, <4>2
    <3> QED
      BY <3>3, <3>4
  <2>6. CASE args[at] = Flag("--ttl") /\ at = Len(args) /\ ttl' = Refused /\ pc' = "exit" /\ Turn(0, <<>>)
    <3>1. args' = args
      BY <2>6, Zenon DEF Turn
    <3>2. Dangling(args, "--ttl")
      <4>1. args # <<>> /\ Last(args) = Flag("--ttl")
        <5>1. args # <<>>
          BY <1>t, <2>2
        <5> QED
          BY <2>6, <5>1 DEF Last
      <4> QED
        BY <2>3, <2>6, <4>1 DEF Dangling
    <3>3. Resolved(args', time', ttl')
      BY <2>1, <2>6, <3>1, <3>2 DEF Resolved
    <3> QED
      BY <1>d, <2>1, <2>3, <2>6, <3>3
  <2>7. CASE args[at] = Flag("--ttl") /\ at < Len(args) /\ TTLFlag(args[at + 1], 2)
    <3>1. /\ at + 1 \in Given(args) /\ ValueAt(args, at + 1, "--ttl") = args[at + 1]
          /\ GivenBefore(args, at + 2) = GivenBefore(args, at) \cup {at + 1}
          /\ ~IsValue(args, at + 2, "--ttl")
      BY <1>t, <2>2, <2>3, <2>7, TTLTurn
    <3>2. at + 1 \in Nat /\ 2 \in Nat
      BY <2>2
    <3> QED
      BY <2>4, <2>7, <2>f, <3>1, <3>2, Zenon
  <2>8. CASE args[at].opt = "--ttl=" /\ TTLFlag(W(args[at].val), 1)
    <3>1. /\ at \in Given(args) /\ ValueAt(args, at, "--ttl") = W(args[at].val)
          /\ GivenBefore(args, at + 1) = GivenBefore(args, at) \cup {at}
          /\ ~IsValue(args, at + 1, "--ttl")
      BY <1>t, <2>2, <2>3, <2>8, TTLTurn
    <3>2. at \in Nat /\ 1 \in Nat
      BY <2>2
    <3> QED
      BY <2>4, <2>8, <2>f, <3>1, <3>2, Zenon
  <2>9. CASE /\ args[at] # Flag("--ttl") /\ args[at].opt # "--ttl="
             /\ Turn(1, <<args[at]>>) /\ UNCHANGED <<pc, ttl>>
    <3>1. args' = args /\ at' = at + 1 /\ pc' = "ttl" /\ ttl' = ttl
      BY <2>1, <2>9, Zenon DEF Turn
    <3>2. GivenBefore(args, at + 1) = GivenBefore(args, at) /\ ~IsValue(args, at + 1, "--ttl")
      BY <1>t, <2>2, <2>3, <2>9, TTLTurn
    <3>3. ~IsValue(args', at', "--ttl") /\ LifetimeAfter(args', time', GivenBefore(args', at'), ttl')
      BY <2>1, <2>3, <3>1, <3>2
    <3> QED
      BY <1>d, <2>1, <2>3, <3>1, <3>3
  <2> QED
    BY <2>1, <2>6, <2>7, <2>8, <2>9
<1>3. CASE IssueToken
  <2>1. /\ pc = "ttl" /\ at > Len(args) /\ pc' \in {"exit", "issued"}
        /\ args' = args /\ time' = time /\ ttl' = ttl
    BY <1>3 DEF IssueToken, issuing
  <2>2. at = Len(args) + 1
    BY <1>t, <2>1
  <2>3. ttl # 0 /\ time \in Times /\ ~IsValue(args, at, "--ttl")
        /\ LifetimeAfter(args, time, GivenBefore(args, at), ttl)
    BY <1>g, <2>1
  <2>4. ~Dangling(args, "--ttl") /\ GivenBefore(args, at) = Given(args)
    BY <1>t, <2>2, <2>3, GivenEnds
  <2>5. Resolved(args', time', ttl')
    BY <2>1, <2>3, <2>4 DEF Resolved
  <2> QED
    BY <1>d, <2>1, <2>3, <2>5
<1>4. CASE UNCHANGED vars
  <2>1. UNCHANGED <<pc, args, at, time, ttl>>
    BY <1>4, Zenon DEF vars, issuing
  <2> QED
    BY <2>1 DEF TTLScan
<1>5. CASE pc \notin {"ttl", "issued", "exit"} /\ pc' # "ttl" /\ ttl' = ttl
  <2>1. ttl = 0
    BY <1>5 DEF TTLScan
  <2> QED
    BY <1>d, <1>5, <2>1
<1> QED
  BY <1>1, <1>2, <1>3, <1>4, <1>5, NoLifetimeElsewhere, Zenon

\* Every text that is parsed is a sequence of terms.
LEMMA SpellsText ==
    ASSUME NEW a, NEW t \in Times
    PROVE  Spells(a, t) \in Seq(Terms)
<1>1. t \in Seq(Terms)
  BY InputAssumption
<1> DEFINE hour == Term([n |-> 1, len |-> 1], NoDigits, "h")
           junk == Term(NoDigits, NoDigits, "?")
<1>2. [n |-> 1, len |-> 1] \in Digits /\ NoDigits \in Digits
  BY DEF Digits, NoDigits
<1>3. hour \in Terms
  BY <1>2 DEF Terms, Term, Units, NoDigits
<1>4. junk \in Terms
  BY <1>2 DEF Terms, Term, Units, NoDigits
<1> HIDE DEF hour, junk
<1>5. <<hour>> \in Seq(Terms) /\ <<junk>> \in Seq(Terms)
  BY <1>3, <1>4
<1> QED
  BY <1>1, <1>5, Zenon DEF Spells, hour, junk

\* A resolved lifetime is the one asked for.
LEMMA ResolvedAsAsked ==
    TTLScan => IssuedAsAsked
<1> DEFINE given == Values(args, "--ttl", "--ttl=")
           text(i) == Spells(ValueAt(args, i, "--ttl"), time)
           bad == Dangling(args, "--ttl") \/ \E i \in given : Expected(text(i)) = Refused
           default == IF Expected(time) = Refused THEN FallbackTTL ELSE Expected(time)
<1> SUFFICES ASSUME TTLScan, ttl # 0, pc # "ttl", \A i \in given : Plain(text(i)), given = {} => Plain(time)
             PROVE  \/ bad /\ ttl = Refused
                    \/ ~bad /\ given = {} /\ ttl = default
                    \/ ~bad /\ \E i \in given : IsLast(i, given) /\ ttl = Expected(text(i))
  BY Zenon DEF IssuedAsAsked
<1>1. time \in Times /\ Resolved(args, time, ttl)
  BY Zenon DEF TTLScan
<1>2. ASSUME NEW i \in given PROVE Lifetime(args, time, i) = Expected(text(i))
  <2>1. text(i) \in Seq(Terms)
    BY <1>1, SpellsText, Zenon
  <2>2. ParseFlexibleDuration(text(i)) = Expected(text(i))
    BY <2>1, ParsesAsExpected, Zenon
  <2> QED
    BY <2>2, Zenon DEF Lifetime
<1>3. given = Given(args)
  BY DEF Given
<1> HIDE DEF given, text
<1>4. CASE ttl = Refused /\ (Dangling(args, "--ttl") \/ \E i \in Given(args) : Lifetime(args, time, i) = Refused)
  BY <1>2, <1>3, <1>4, Zenon
<1>5. CASE ~Dangling(args, "--ttl") /\ LifetimeAfter(args, time, Given(args), ttl)
  <2>1. ~bad
    BY <1>2, <1>3, <1>5, Zenon DEF LifetimeAfter
  <2>2. CASE given = {} /\ ttl = DefaultChildTTL(time)
    <3>1. time \in Seq(Terms)
      BY <1>1, InputAssumption
    <3>2. ParseFlexibleDuration(time) = Expected(time)
      BY <2>2, <3>1, ParsesAsExpected
    <3>3. Expected(<<>>) = Refused
      BY Zenon DEF Expected
    <3>4. ttl = default
      BY <2>2, <3>2, <3>3, Zenon DEF DefaultChildTTL
    <3> QED
      BY <2>1, <2>2, <3>4, Zenon
  <2>3. CASE \E i \in given : IsLast(i, given) /\ ttl = Lifetime(args, time, i)
    BY <1>2, <2>1, <2>3, Zenon
  <2> QED
    BY <1>3, <1>5, <2>2, <2>3, Zenon DEF LifetimeAfter
<1> QED
  BY <1>1, <1>4, <1>5, Zenon DEF Resolved

-----------------------------------------------------------------------------
(* Theorems *)

\* The inductive invariant holds in every reachable state.
THEOREM Invariant ==
    Spec => []IInv
<1>1. Init => IInv
  BY TypeInit, GlobalScanInit, DispatchedInit, RunScanInit, ClaudeGetsTheRestInit, WalkInit,
     TTLScanInit, Zenon DEF IInv
<1>2. IInv /\ [Next]_vars => IInv'
  BY TypeStep, GlobalScanStep, DispatchedStep, RunScanStep, ClaudeGetsTheRestStep, WalkStep,
     NearestFileNamesStep, TTLScanStep, Zenon DEF IInv
<1> QED
  BY <1>1, <1>2, PTL DEF Spec

\* No loop over the arguments runs past their end, and no lifetime out of bounds
\* is ever held.
THEOREM TypeCorrect ==
    Spec => []TypeOK
<1>1. IInv => TypeOK
  BY Zenon DEF IInv
<1> QED
  BY <1>1, Invariant, PTL

\* Whatever the user types around `run`, claude gets what is meant for it: the two
\* parsers, parseGlobalFlags and buildRunArgv, agree on what is a flag and what
\* its value.
THEOREM ClaudeArguments ==
    Spec => []ClaudeGetsTheRest
<1>1. IInv => ClaudeGetsTheRest
  BY Zenon DEF IInv
<1> QED
  BY <1>1, Invariant, PTL

\* In any tree of directories, findAgentFile names an undeclared session by the
\* nearest file within its scope.
THEOREM NamedByNearestFile ==
    Spec => []NearestFileNames
<1>1. IInv => NearestFileNames
  BY Zenon DEF IInv
<1> QED
  BY <1>1, Invariant, PTL

\* A token lives as long as the last --ttl asks, on any command line and for any
\* plain duration texts, and a lifetime out of bounds is refused.
THEOREM LifetimeAsAsked ==
    Spec => []IssuedAsAsked
<1>1. IInv => IssuedAsAsked
  BY ResolvedAsAsked, Zenon DEF IInv
<1> QED
  BY <1>1, Invariant, PTL
=============================================================================
