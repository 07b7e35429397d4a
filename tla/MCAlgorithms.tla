---------------------------- MODULE MCAlgorithms ----------------------------
(***************************************************************************)
(* The pure algorithms of proxy/reflex/inbound against their definitions,  *)
(* over all small inputs: every run starts with an input and computes one  *)
(* result from it.                                                         *)
(***************************************************************************)
EXTENDS KolmogorovSmirnov, TrafficProfile

CONSTANTS
  Values,           \* the values of a sample
  MaxSample,        \* bound on its length
  Observable,       \* the values that may be observed, some not positive
  MaxObservations   \* bound on their number

VARIABLES
  a, b,      \* the two samples of KolmogorovSmirnovStatistic
  d,         \* its result, a numerator over Denominator(a, b)
  observed,  \* the observations of CreateProfileFromObservations
  profile,   \* its result
  pc         \* "ks" or "profile" to compute, then "distance" or "draws"
vars == <<a, b, d, observed, profile, pc>>

Sequences(S, n) == UNION { [1..k -> S] : k \in 0..n }

Init ==
  /\ d = 0 /\ profile = [dist |-> <<>>, total |-> 0]
  /\ \/ /\ pc = "ks"
        /\ a \in Sequences(Values, MaxSample) /\ b \in Sequences(Values, MaxSample)
        /\ observed = <<>>
     \/ /\ pc = "profile"
        /\ observed \in Sequences(Observable, MaxObservations)
        /\ a = <<>> /\ b = <<>>

Compare ==
  /\ pc = "ks"
  /\ d' = KolmogorovSmirnovStatistic(a, b)
  /\ pc' = "distance"
  /\ UNCHANGED <<a, b, observed, profile>>

\* Without observations there is an error and no profile.
Create ==
  /\ pc = "profile" /\ observed # <<>>
  /\ profile' = calculateDistribution(observed)
  /\ pc' = "draws"
  /\ UNCHANGED <<a, b, d, observed>>

Next == Compare \/ Create

Spec == Init /\ [][Next]_vars

\* KolmogorovSmirnovStatistic gives the statistic of samples that have no value
\* in common, and no less than the statistic of any samples.
StatisticWithoutTies ==
  pc = "distance" =>
    /\ d >= Statistic(a, b) /\ d <= Denominator(a, b)
    /\ ToSet(a) \cap ToSet(b) = {} => d = Statistic(a, b)

\* The comment of KolmogorovSmirnovStatistic: it returns the two-sample KS D
\* statistic.
IsStatistic == pc = "distance" => d = Statistic(a, b)

\* A profile reproduces what it was made from: of the random numbers in the
\* middle of Total equal parts, exactly as many make weightedPick return a
\* value as there were observations of it, and none returns anything else; zero,
\* which the caller takes for no target, only without positive observations.
DrawsMatchObservations ==
  pc = "draws" =>
    LET total == Total(observed)
        draw(k) == weightedPick(profile.dist, profile.total, 2 * k - 1, 2 * total)
    IN  /\ \A v \in Positive(observed) :
             Freq(observed, v) = Cardinality({ k \in 1..total : draw(k) = v })
        /\ total = 0 => weightedPick(profile.dist, profile.total, 1, 2) = 0
=============================================================================
