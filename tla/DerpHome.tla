------------------------------ MODULE DerpHome ------------------------------
(***************************************************************************)
(* The choice of the home DERP region.  The bind picks the regions a round *)
(* probes (internal/tailnet/netcheck.go: selectDERPProbeTargets,           *)
(* limitDERPProbeTargets), and the client chooses a home from the reported *)
(* latencies and the map (client.go: onDERPLatency; map.go: the DERPMap    *)
(* part of applyMapResponse, choosePreferredDERP,                          *)
(* choosePreferredDERPMeasured).                                           *)
(*                                                                         *)
(* A map is the set of its usable regions, a latency a number of           *)
(* nanoseconds, 0 for none.  Reports arrive before the map changes again;  *)
(* Netcheck and DerpManager have the interleavings.                        *)
(***************************************************************************)
EXTENDS Integers, Sequences, FiniteSets, Functions

CONSTANTS
  N,                        \* the regions are 1..N
  Latencies,                \* what a probe may measure
  MaxIncremental, MaxFull   \* maxIncrementalDERPRegions, maxFullDERPRegions

ASSUME HomeConstants ==
  /\ N \in Nat \ {0} /\ Latencies \subseteq Nat \ {0}
  /\ MaxIncremental \in Nat \ {0, 1} /\ MaxFull \in Nat \ {0, 1}

RegionIDs == 1..N

VARIABLES
  usable,       \* the regions of the map that can be a home
  bindLatency,  \* Bind.derpLatency
  measured,     \* Client.derpLatency
  preferred     \* Client.preferredDERP, which the bind has as selfDERP

derpHomeVars == <<usable, bindLatency, measured, preferred>>

-----------------------------------------------------------------------------
(* The regions to probe.                                                   *)

\* The order of the probes: measured regions first, the fastest first.
Before(latest, a, c) ==
  \/ latest[a] # 0 /\ latest[c] = 0
  \/ latest[a] # 0 /\ latest[c] # 0 /\ latest[a] < latest[c]
  \/ latest[a] = latest[c] /\ a < c

\* Mutant: the first targets, whether or not home is among them.
LimitOnly(targets, home, limit) ==
  IF Len(targets) <= limit THEN targets ELSE SubSeq(targets, 1, limit)

\* The first targets, the last of them replaced by home if it is further down.
LimitTargets(targets, home, limit) ==
  LET selected == SubSeq(targets, 1, limit) IN
  IF Len(targets) <= limit THEN targets
  ELSE IF home \in Range(targets) \ Range(selected)
       THEN [selected EXCEPT ![limit] = home]
       ELSE selected

\* The regions in the order of the probes, which is total.
Sorted(regions, latest) ==
  CHOOSE s \in [1..Cardinality(regions) -> regions] :
    \A i, j \in DOMAIN s : i < j => Before(latest, s[i], s[j])

\* kickDiscovery's targets.  The sort of an incremental selection that follows
\* has no effect, as it is never limited again.
Targets(full) ==
  LimitTargets(Sorted(usable, bindLatency), preferred,
               IF full THEN MaxFull ELSE MaxIncremental)

-----------------------------------------------------------------------------
(* The home.                                                               *)

ChoosePreferredDERP(regions, current) ==
  IF current \in regions THEN current
  ELSE IF regions = {} THEN 0
  ELSE CHOOSE r \in regions : \A s \in regions : r <= s

\* Mutant: the first of several equally fast regions stays.
BetterLatency(latency, r, best) == best = 0 \/ latency[r] < latency[best]

Better(latency, r, best) ==
  \/ best = 0
  \/ latency[r] < latency[best]
  \/ latency[r] = latency[best] /\ r < best

\* One region in the loop over the latencies, and what the loop has found after
\* each number of them; a Go map yields them in any order.
VisitLatency(regions, latency, r, best) ==
  IF latency[r] # 0 /\ r \in regions /\ Better(latency, r, best) THEN r ELSE best

BestAfter(regions, latency, order) ==
  LET best[i \in 0..N] ==
        IF i = 0 THEN 0 ELSE VisitLatency(regions, latency, order[i], best[i - 1])
  IN best

Margin == 10000000   \* 10 ms

\* Mutant: either margin is enough.
EitherMargin(current, best) == current - best < Margin /\ best > (current \div 3) * 2

\* A current home that is not 10 ms and a third slower is kept.
Sticky(current, best) == current - best < Margin \/ best > (current \div 3) * 2

\* choosePreferredDERPMeasured.
ChooseMeasured(regions, current, latency, order) ==
  LET best == BestAfter(regions, latency, order)[N] IN
  IF best = 0 THEN ChoosePreferredDERP(regions, current)
  ELSE IF /\ current \in regions /\ latency[current] # 0
          /\ latency[current] <= latency[best] \/ Sticky(latency[current], latency[best])
       THEN current
       ELSE best

-----------------------------------------------------------------------------
Orders == Bijection(1..N, RegionIDs)

HomeInit ==
  /\ usable = {} /\ preferred = 0
  /\ bindLatency = [r \in RegionIDs |-> 0] /\ measured = [r \in RegionIDs |-> 0]

\* A full report replaces the latencies, another one adds to them.
Replaced(old, full, report) ==
  [r \in RegionIDs |-> IF report[r] # 0 \/ full THEN report[r] ELSE old[r]]

\* A round over the targets, some of which answer, and onDERPLatency.  With too
\* many regions a full round is not a full report.
Round(full) ==
  LET targets == Range(Targets(full))
      complete == full /\ Cardinality(usable) <= MaxFull
  IN
  /\ targets # {}
  /\ \E answers \in [targets -> Latencies \cup {0}] :
       LET report == [r \in RegionIDs |-> IF r \in targets THEN answers[r] ELSE 0] IN
       /\ bindLatency' = Replaced(bindLatency, complete, report)
       /\ measured' = Replaced(measured, complete, report)
  /\ preferred' \in {ChooseMeasured(usable, preferred, measured', o) : o \in Orders}
  /\ UNCHANGED usable

\* A map response with another DERPMap, which drops the latencies of regions
\* that are not usable any more.
NewMap(regions) ==
  /\ regions # usable
  /\ usable' = regions
  /\ measured' = [r \in RegionIDs |-> IF r \in regions THEN measured[r] ELSE 0]
  /\ preferred' \in {ChooseMeasured(regions, preferred, measured', o) : o \in Orders}
  /\ UNCHANGED bindLatency

HomeNext ==
  \/ \E full \in BOOLEAN : Round(full)
  \/ \E regions \in SUBSET RegionIDs : NewMap(regions)

HomeSpec == HomeInit /\ [][HomeNext]_derpHomeVars

-----------------------------------------------------------------------------
(* Properties.                                                             *)

\* a is at least 10 ms and a third faster than c, give or take the rounding of
\* the integer division.
MuchFaster(a, c, rounding) == a + Margin <= c /\ 3 * a <= 2 * c - rounding

\* There is a home whenever some region can be one, and it is such a region.
HomeUsable == IF usable = {} THEN preferred = 0 ELSE preferred \in usable

\* No measured region is much faster than the home, and a home that does not
\* answer gives way to one that does: measurements, maps and reports in any
\* order leave the home near the best region.
HomeNearBest ==
  \A r \in usable : measured[r] # 0 =>
    measured[preferred] # 0 /\ ~MuchFaster(measured[r], measured[preferred], 2)

\* The home changes only when it is gone, when it was not measured, or when the
\* new one is at least 10 ms and roughly one-third faster.
HomeSticky ==
  [][ preferred' # preferred /\ preferred # 0 =>
        \/ preferred \notin usable'
        \/ measured'[preferred] = 0
        \/ MuchFaster(measured'[preferred'], measured'[preferred], 0) ]_derpHomeVars

\* Whatever the current home, the choice does not depend on the order in which
\* latencies are visited, and choosing again from the same ones changes nothing.
ChoiceStable ==
  LET Homes(c) == {ChooseMeasured(usable, c, measured, o) : o \in Orders} IN
  usable # {} =>
    \A c \in RegionIDs \cup {0} : \E home \in Homes(c) :
      Homes(c) = {home} /\ Homes(home) = {home}

\* The home is usable, near the best region, and the same for every order in
\* which Go visits a map.
HomeWellChosen == HomeUsable /\ HomeNearBest /\ ChoiceStable

\* A round probes the home, if it can be probed, and the fastest region known,
\* within its limit and no region twice.
TargetsSound ==
  usable # {} => \A full \in BOOLEAN :
    LET targets == Targets(full) IN
    /\ Len(targets) = Cardinality(Range(targets)) /\ Range(targets) \subseteq usable
    /\ Len(targets) <= IF full THEN MaxFull ELSE MaxIncremental
    /\ preferred \in usable => preferred \in Range(targets)
    /\ \A r \in usable : (\A s \in usable \ {r} : Before(bindLatency, r, s)) =>
         r \in Range(targets)

-----------------------------------------------------------------------------
(* The inductive invariant of HomeWellChosen.                              *)

HomeTypeOK ==
  /\ usable \subseteq RegionIDs /\ preferred \in RegionIDs \cup {0}
  /\ bindLatency \in [RegionIDs -> Nat] /\ measured \in [RegionIDs -> Nat]

HomeInv == HomeTypeOK /\ HomeUsable /\ HomeNearBest
=============================================================================
