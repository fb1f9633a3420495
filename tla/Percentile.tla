----------------------------- MODULE Percentile -----------------------------
(***************************************************************************)
(* src/corotine/percentile.hpp: a ring of the last values of a key, and    *)
(* percentiles of them.  Stat and GetPercentile are functions of the ring. *)
(*                                                                         *)
(* GetPercentile computes with doubles, and its caller cuts the answer     *)
(* off.  A double is given as a number of units, Significand of which are  *)
(* 1: every number that occurs here is a whole number of units, because    *)
(* the literal, which is at least 1/2, is.  Every operation is followed by *)
(* the rounding to the nearest double (IEEE 754), ties to even.            *)
(***************************************************************************)
EXTENDS Integers, Sequences, FiniteSets, Functions

CONSTANTS
    max_stat_data_len_,     \* values kept, 1024 in the code
    Significand,            \* 2^53 for a double
    Spacings                \* the powers of two, up to Significand at least

ASSUME PercentileAssumption == max_stat_data_len_ \in Nat \ {0}

ASSUME DoubleAssumption ==
    /\ Spacings \subseteq Nat \ {0}
    /\ {1, Significand} \subseteq Spacings
    /\ \A u \in Spacings \ {1} : \E half \in Spacings : u = 2 * half

EmptyRing == [data |-> <<>>, index |-> 0]

IndexStuck(ring) == ring.index          \* mutant

NextIndex(ring) == (ring.index + 1) % max_stat_data_len_

Full(ring) == Len(ring.data) = max_stat_data_len_

Stat(ring, value) ==
    IF ~Full(ring)
    THEN [ring EXCEPT !.data = Append(@, value)]
    ELSE [data  |-> [ring.data EXCEPT ![ring.index + 1] = value],
          index |-> NextIndex(ring)]

\* std::sort: the values in ascending order, each as often as before.
Sorted(values) ==
    LET places == 1 .. Len(values)
        order  == CHOOSE p \in Bijection(places, places) :
                      \A i, j \in places : i < j => values[p[i]] <= values[p[j]]
    IN  [i \in places |-> values[order[i]]]

\* temp[i], counting from 0.  Beyond the end the code reads what is there; its
\* weight is 0.
At(temp, i) == IF i < Len(temp) THEN temp[i + 1] ELSE 0

\* The whole number nearest to a / b, the even one of two.
Nearest(a, b) ==
    LET q == a \div b
        r == a % b
    IN  IF 2 * r < b \/ (2 * r = b /\ q % 2 = 0) THEN q ELSE q + 1

\* The distance in units between the doubles around v.
Spacing(v) ==
    CHOOSE u \in Spacings : /\ v <= Significand * u
                            /\ \A w \in Spacings : v <= Significand * w => u <= w

Round(v) == Nearest(v, Spacing(v)) * Spacing(v)

\* The double of a literal num / den between 1/2 and 1.
Literal(num, den) == Nearest(Significand * num, den)

\* Linear interpolation between the two values around the rank x; x - i and
\* 1 - j are doubles and need no rounding.
GetPercentile(ring, num, den) ==
    LET temp == Sorted(ring.data)
        x    == Round((Len(temp) - 1) * Literal(num, den))
        i    == x \div Significand
        j    == x % Significand
    IN  Round(Round((Significand - j) * At(temp, i)) + Round(j * At(temp, i + 1)))

-----------------------------------------------------------------------------
(* What is meant, without a ring, without sorting and without rounding.    *)

\* The value of a rank, from 0: so many values are smaller.
OfRank(values, rank) ==
    LET smaller(v) == Cardinality({n \in DOMAIN values : values[n] < v})
        upTo(v)    == Cardinality({n \in DOMAIN values : values[n] <= v})
    IN  values[CHOOSE n \in DOMAIN values :
                  smaller(values[n]) <= rank /\ rank < upTo(values[n])]

\* The percentile num / den of the values, times den.
PercentileOf(values, num, den) ==
    LET x == (Len(values) - 1) * num
        i == x \div den
        j == x % den
        below == OfRank(values, i)
        above == IF j = 0 THEN below ELSE OfRank(values, i + 1)
    IN  (den - j) * below + j * above
=============================================================================
