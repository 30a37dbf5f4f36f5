-------------------------------- MODULE Scoring -------------------------------
\* How a placement worker chooses a location: the score of a candidate, and the
\* loop over the list that the warehouse service returns, in whatever order.
\* Scores are fractions of the limits; they are counted in parts of 1/Scale, and
\* Scale is a multiple of every denominator, so that nothing is rounded.
EXTENDS Integers, Sequences, FiniteSets

CONSTANTS
  Candidates,   \* [id, max, load, distance, matches, status] of locations
  Demands,      \* [weight, volume] of the lots to place
  MaxLength,    \* bound on the length of a list
  Scale, None

Dims == {"weight", "volume"}

ScoringAssumption ==
  /\ Scale \in Nat \ {0} /\ MaxLength \in Nat
  /\ \A c \in Candidates :
       /\ c.id \in Int /\ c.distance \in Nat
       /\ \A d \in Dims : /\ c.max[d] \in Nat \ {0} /\ c.load[d] \in Nat
                          /\ Scale % c.max[d] = 0
       /\ Scale % (10 + c.distance) = 0
  /\ \A w \in Demands : \A d \in Dims : w[d] \in Nat \ {0}
  /\ None \notin Candidates

VARIABLES
  demand,   \* what is to be placed
  list,     \* the candidates, as listed
  next,     \* the loop's position
  best, chosen

vars == <<demand, list, next, best, chosen>>

-----------------------------------------------------------------------------
Most(f)  == IF f["weight"] > f["volume"] THEN f["weight"] ELSE f["volume"]
Least(f) == IF f["weight"] < f["volume"] THEN f["weight"] ELSE f["volume"]

\* Warehouse, zone and storage type match, the location is open, and it fits.
Eligible(c, w) ==
  /\ c.matches
  /\ c.status \notin {"BLOCKED", "MAINTENANCE"}
  /\ \A d \in Dims : c.load[d] + w[d] <= c.max[d]

Occupancy(c) == Most([d \in Dims |-> (c.load[d] * Scale) \div c.max[d]])

\* Seeded fault: the lot itself is left out.
Remaining_Before(c, w) ==
  Least([d \in Dims |-> ((c.max[d] - c.load[d]) * Scale) \div c.max[d]])

Remaining(c, w) ==
  Least([d \in Dims |-> ((c.max[d] - c.load[d] - w[d]) * Scale) \div c.max[d]])

Nearness(c) == (300 * Scale) \div (10 + c.distance)

\* Seeded fault: a fuller location scores higher.
Score_Fuller(c, w) ==
  40 * Scale + 30 * Remaining(c, w) + Nearness(c) + 20 * Occupancy(c)

Score(c, w) ==
  40 * Scale + 30 * Remaining(c, w) + Nearness(c) - 20 * Occupancy(c)

Sentinel == - 1000000000    \* in scaled units, so closer to the scores than -1e9

-----------------------------------------------------------------------------
DistinctIds(s) == \A i, j \in DOMAIN s : s[i].id = s[j].id => i = j

Init ==
  /\ demand \in Demands
  /\ \E n \in 0 .. MaxLength : list \in [1 .. n -> Candidates]
  /\ DistinctIds(list)
  /\ next = 1
  /\ best = Sentinel /\ chosen = None

\* Seeded fault: among equals the later one wins.
Better_Last(c) == Score(c, demand) >= best

Better(c) ==
  \/ Score(c, demand) > best
  \/ Score(c, demand) = best /\ chosen # None /\ c.id < chosen.id

Take ==
  /\ next <= Len(list)
  /\ Eligible(list[next], demand) /\ Better(list[next])
  /\ best' = Score(list[next], demand)
  /\ chosen' = list[next]
  /\ next' = next + 1
  /\ UNCHANGED <<demand, list>>

Skip ==
  /\ next <= Len(list)
  /\ ~ (Eligible(list[next], demand) /\ Better(list[next]))
  /\ next' = next + 1
  /\ UNCHANGED <<demand, list, best, chosen>>

Next == Take \/ Skip

Spec == Init /\ [][Next]_vars

-----------------------------------------------------------------------------
\* The best of a set of candidates: the highest score, the lowest id among equals.
Beats(c, o) ==
  \/ Score(c, demand) > Score(o, demand)
  \/ Score(c, demand) = Score(o, demand) /\ c.id < o.id

IsBest(c, set) == c \in set /\ \A o \in set \ {c} : Beats(c, o)

Seen == {list[i] : i \in 1 .. next - 1}
Fitting == {c \in Seen : Eligible(c, demand)}

\* The loop keeps the one best of the candidates it has seen, and has one as soon
\* as any fits: the decision does not depend on the order of the list, so two
\* instances that read the same projection decide the same.
ChoiceIsBest ==
  IF Fitting = {} THEN chosen = None /\ best = Sentinel
  ELSE IsBest(chosen, Fitting) /\ best = Score(chosen, demand)

\* The factors stay in the ranges the weights 40, 30, 30 and 20 are meant for,
\* at an exact fit and in an empty location too.
ScoreInRange ==
  \A c \in Fitting : Score(c, demand) \in 20 * Scale + 1 .. 100 * Scale - 1

\* Of two locations with the same limits, the one that is emptier and nearer, or
\* as good in one respect, is preferred.
PrefersEmptierAndNearer ==
  \A c, o \in Fitting :
    (/\ c.max = o.max /\ c.distance <= o.distance
     /\ \A d \in Dims : c.load[d] <= o.load[d]
     /\ c.distance < o.distance \/ \A d \in Dims : c.load[d] < o.load[d])
    => Score(c, demand) > Score(o, demand)

\* The score ranks locations as it is meant to: no factor outgrows its weight, and
\* no location beats another that is better in every respect.
ScoreRanks == ScoreInRange /\ PrefersEmptierAndNearer
=============================================================================
