----------------------------- MODULE Durations -----------------------------
(***************************************************************************)
(* Token lifetimes as operators type them (ttl.go): ParseFlexibleDuration  *)
(* rewrites every "Nd" into hours and leaves the rest to the library's     *)
(* ParseDuration.                                                          *)
(*                                                                         *)
(* A text is the sequence of its terms, "1.5h" or "30d": the digits before *)
(* the point, those after it, and the unit. A run of digits is its value n *)
(* and its length len; without a point the second run has length 0. The    *)
(* int and the Duration are both words of WordBits bits; the smallest unit *)
(* stands for the nanosecond.                                              *)
(***************************************************************************)
EXTENDS Integers, Sequences, SequencesExt

CONSTANTS
    Base,         \* of the numerals
    WordBits,     \* width of int and Duration
    HourLength,   \* an hour, in the smallest unit
    HoursPerDay,
    MinTTL,       \* MinChildTokenTTL
    MaxTTL,       \* MaxChildTokenTTL
    FallbackTTL   \* the 24h of defaultChildTTL

MaxWord == 2 ^ (WordBits - 1) - 1

ASSUME DurationAssumption ==
    /\ Base \in Nat \ {0, 1} /\ WordBits \in Nat \ {0}
    /\ HourLength \in Nat \ {0} /\ HoursPerDay \in Nat \ {0}
    /\ MinTTL \in Nat \ {0} /\ MaxTTL \in Nat /\ MaxWord \in Nat
    /\ MinTTL <= MaxTTL /\ MaxTTL <= MaxWord
    /\ FallbackTTL \in MinTTL .. MaxTTL

Units == {"d", "h", "m", "?"}  \* "?": a letter ParseDuration does not know
Term(i, f, u) == [i |-> i, f |-> f, u |-> u]
NoDigits == [n |-> 0, len |-> 0]
Digits == {r \in [n : Nat, len : Nat] : r.len = 0 => r.n = 0}
Terms == {t \in [i : Digits, f : Digits, u : Units] : t.u = "?" \/ t.i.len + t.f.len > 0}

\* Two's complement: the product of two ints.
Wrap(x) == ((x + MaxWord + 1) % (2 * (MaxWord + 1))) - (MaxWord + 1)

\* The length of n as %d prints it.
PrintedLen(n) == CHOOSE k \in 1 .. n + 1 : n < Base ^ k /\ (k = 1 \/ Base ^ (k - 1) <= n)

\* Mutant of DaysToHours: a day of one hour less.
DaysToShortHours(r) == [n |-> Wrap(r.n * (HoursPerDay - 1)), len |-> r.len]

\* "Nd" becomes "<N*24>h". A product that wraps below zero prints a sign, which
\* makes the text negative or malformed: refused in either case.
DaysToHours(r) ==
    LET h == Wrap(r.n * HoursPerDay)
    IN  [n |-> h, len |-> IF h < 0 THEN 1 ELSE PrintedLen(h)]

\* The run next to the "d" is the one after the point if there is one.
Rewrite(t) ==
    IF t.u # "d" THEN t
    ELSE IF t.f.len = 0 THEN Term(DaysToHours(t.i), t.f, "h")
    ELSE Term(t.i, DaysToHours(t.f), "h")

UnitLength(u) == IF u = "h" THEN HourLength ELSE 1

\* time.ParseDuration: the length of a term, the fraction rounded down.
TermLength(t) == t.i.n * UnitLength(t.u) + (t.f.n * UnitLength(t.u)) \div Base ^ t.f.len

SumOf(ns) == FoldLeft(LAMBDA sum, n : sum + n, 0, ns)
TotalLength(ts) == SumOf([k \in DOMAIN ts |-> TermLength(ts[k])])

\* An unknown unit, a negative term, or more than the word holds.
ParseFails(ts) ==
    \/ ts = <<>>
    \/ \E k \in DOMAIN ts : ts[k].u = "?" \/ ts[k].i.n < 0 \/ ts[k].f.n < 0
    \/ TotalLength(ts) > MaxWord

Refused == -1

\* strconv.Atoi refuses a day count that is no int.
DaysFit(t) == t.u = "d" => t.i.n <= MaxWord /\ t.f.n <= MaxWord

\* Mutant of ParseFlexibleDuration: the upper bound is not checked.
ParseUnbounded(ts) ==
    LET hours == [k \in DOMAIN ts |-> Rewrite(ts[k])]
    IN  IF ParseFails(hours) \/ TotalLength(hours) < MinTTL THEN Refused ELSE TotalLength(hours)

ParseFlexibleDuration(ts) ==
    LET hours == [k \in DOMAIN ts |-> Rewrite(ts[k])]
    IN  IF \/ \E k \in DOMAIN ts : ~DaysFit(ts[k])
           \/ ParseFails(hours)
           \/ TotalLength(hours) \notin MinTTL .. MaxTTL
        THEN Refused
        ELSE TotalLength(hours)

\* The configured default; <<>> when none is.
DefaultChildTTL(configured) ==
    LET d == ParseFlexibleDuration(configured)
    IN  IF configured = <<>> \/ d = Refused THEN FallbackTTL ELSE d

-----------------------------------------------------------------------------
(* What a text means: exact lengths, a day as a unit of its own *)

MeaningOf(t) ==
    LET u == CASE t.u = "d" -> HourLength * HoursPerDay
               [] t.u = "h" -> HourLength
               [] t.u = "m" -> 1
    IN  t.i.n * u + (t.f.n * u) \div Base ^ t.f.len

Meaning(ts) == SumOf([k \in DOMAIN ts |-> MeaningOf(ts[k])])

\* No fraction of a day, and days whose hours are an int.
Plain(ts) ==
    \A k \in DOMAIN ts :
        ts[k].u = "d" => ts[k].f.len = 0 /\ ts[k].i.n * HoursPerDay <= MaxWord

\* What a correct parser answers.
Expected(ts) ==
    IF /\ ts # <<>>
       /\ \A k \in DOMAIN ts : ts[k].u # "?"
       /\ Meaning(ts) \in MinTTL .. MaxTTL
    THEN Meaning(ts)
    ELSE Refused
=============================================================================
