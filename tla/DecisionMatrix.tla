--------------------------- MODULE DecisionMatrix ----------------------------
(***************************************************************************)
(* The decision matrix of concept/decision-matrix: the catalogue of        *)
(* measures, the action simulator and the recommendation engine.  Lock     *)
(* values, impacts and indices are in hundredths, costs in thousands of    *)
(* euros.  Durations, personnel and the wording of a recommendation are    *)
(* left out: no decision below reads them.  The code adds and compares     *)
(* floating-point numbers, so a sum that is exactly on a threshold, or two *)
(* equal scores, may come out either way.                                  *)
(***************************************************************************)
EXTENDS Integers, Sequences, FiniteSets, FiniteSetsExt, SequencesExt, TLC

CONSTANTS Raised,     \* the answer of a call that raised ValueError
          NoIndex     \* a snapshot without resilience_index

Level == [low |-> 0, medium |-> 1, high |-> 2]
Tolerances == DOMAIN Level
Name(n) == CHOOSE r \in Tolerances : Level[r] = n

Effect(lock, impact) == [lock |-> lock, impact |-> impact]
Action(effects, cost, political, technical, public, prerequisites) ==
  [effects |-> effects, cost |-> cost, prerequisites |-> prerequisites,
   risks |-> [political |-> political, technical |-> technical, public |-> public]]

\* ACTIONS, in the order of the catalogue
Order ==
  <<"demand_response_residential", "demand_response_industrial", "reserve_power_activation",
    "import_increase_sweden", "import_increase_norway", "rolling_blackouts_targeted",
    "public_communication_emergency", "public_communication_preparedness">>

Catalog ==
  Order[1] :> Action({Effect("Reserve", 15), Effect("Governance", -5)}, 5, "low", "low", "medium", {})
  @@ Order[2] :> Action({Effect("Reserve", 25), Effect("Governance", -10)}, 50, "medium", "low", "medium", {})
  @@ Order[3] :> Action({Effect("Reserve", 30), Effect("Time", 5), Effect("Governance", -8)},
                        200, "medium", "low", "low", {})
  @@ Order[4] :> Action({Effect("Reserve", 12), Effect("Governance", -12)}, 100, "high", "medium", "low", {})
  @@ Order[5] :> Action({Effect("Reserve", 10), Effect("Governance", -10)}, 90, "medium", "medium", "low", {})
  @@ Order[6] :> Action({Effect("Reserve", 40), Effect("Governance", -35), Effect("Time", 10)},
                        500, "high", "medium", "high", {Order[7]})
  @@ Order[7] :> Action({Effect("Reserve", 5), Effect("Governance", 8)}, 10, "low", "low", "low", {})
  @@ Order[8] :> Action({Effect("Governance", 5)}, 5, "low", "low", "low", {})

Members(s) == {s[i] : i \in DOMAIN s}

-----------------------------------------------------------------------------
\* ActionSimulator

Value == [OK |-> 100, WEAK |-> 70, CRITICAL |-> 30, UNKNOWN |-> 50]

\* Mutated: the value of a WEAK lock reads as OK.
NumericToStatusLow(v) == IF v >= 70 THEN "OK" ELSE IF v >= 50 THEN "WEAK" ELSE "CRITICAL"

NumericToStatus(v) == IF v >= 85 THEN "OK" ELSE IF v >= 50 THEN "WEAK" ELSE "CRITICAL"
Clamped(v) == Max({0, Min({100, v})})

Touching(ids, lock) == {id \in ids : \E e \in Catalog[id].effects : e.lock = lock}
Impact(id, lock) == (CHOOSE e \in Catalog[id].effects : e.lock = lock).impact
LockChange(ids, lock) == MapThenSumSet(LAMBDA id : Impact(id, lock), Touching(ids, lock))

\* the statuses _numeric_to_lock_status may give a lock: a sum of several
\* impacts may fall just short of the threshold it is on
Statuses(ids, lock, v) ==
  {NumericToStatus(v)} \cup IF Cardinality(Touching(ids, lock)) > 1 THEN {NumericToStatus(v - 1)} ELSE {}

PrerequisitesMet(ids) == \A id \in ids : Catalog[id].prerequisites \subseteq ids

CombineRisks(ids) ==
  [kind \in {"political", "technical", "public"} |->
     Name(Max({0} \cup {Level[Catalog[id].risks[kind]] : id \in ids}))]

\* A snapshot without an index counts as index 0 here.
IndexOf(snap) == IF snap.index = NoIndex THEN 0 ELSE snap.index

\* simulate, with the gain in units of 1 / (100 * the number of locks)
Simulate(snap, scenario) ==
  LET ids == Members(scenario)
      names == DOMAIN snap.locks
      final == [l \in names |-> Clamped(Value[snap.locks[l]] + LockChange(ids, l))]
  IN  IF ~PrerequisitesMet(ids) THEN Raised
      ELSE [scenario |-> scenario,
            locks |-> [l \in names |-> Statuses(ids, l, final[l])],
            changes |-> [l \in names |-> LockChange(ids, l)],
            gain |-> MapThenSumSet(LAMBDA l : final[l], names) - Cardinality(names) * IndexOf(snap),
            cost |-> MapThenSumSet(LAMBDA id : Catalog[id].cost, ids),
            risks |-> CombineRisks(ids)]

-----------------------------------------------------------------------------
\* RecommendationEngine

CriticalLocks(snap) == {l \in DOMAIN snap.locks : snap.locks[l] = "CRITICAL"}

EstimateCombinedRisk(ids) ==
  LET risks == CombineRisks(ids)
  IN  Name(Max({Level[risks[kind]] : kind \in DOMAIN risks}))

RiskAcceptable(ids, tolerance) == Level[EstimateCombinedRisk(ids)] <= Level[tolerance]

IsCompatible(a, b) ==
  ~({a, b} \subseteq {"rolling_blackouts_targeted", "public_communication_preparedness"})

\* Mutated: a measure that touches a critical lock either way.
RelevantEitherWay(snap) ==
  SelectSeq(Order, LAMBDA id : \E e \in Catalog[id].effects : e.lock \in CriticalLocks(snap))

Relevant(snap) ==
  SelectSeq(Order, LAMBDA id : \E e \in Catalog[id].effects :
                                 e.lock \in CriticalLocks(snap) /\ e.impact > 0)

\* _generate_scenarios: single measures, pairs and, for high tolerance, triples,
\* of which only the neighbours are compared.
Scenarios(snap, tolerance) ==
  LET r == Relevant(snap)
      n == Len(r)
      S(seq) == SelectSeq(seq, LAMBDA s : RiskAcceptable(Members(s), tolerance))
      Apart(s) == \A i \in 1 .. Len(s) - 1 : IsCompatible(s[i], s[i + 1])
      Row(prefix, from) == [k \in 1 .. n - from + 1 |-> Append(prefix, r[from + k - 1])]
      Pairs == FlattenSeq([i \in 1 .. n |-> Row(<<r[i]>>, i + 1)])
      Triples == FlattenSeq([i \in 1 .. n |->
                   FlattenSeq([j \in 1 .. n - i |-> Row(<<r[i], r[i + j]>>, i + j + 1)])])
  IN  S(Row(<<>>, 1)) \o SelectSeq(S(Pairs), Apart)
        \o (IF tolerance = "high" THEN SelectSeq(S(Triples), Apart) ELSE <<>>)

CostPoints(cost) == IF cost < 50 THEN 15 ELSE IF cost < 150 THEN 10 ELSE IF cost < 300 THEN 5 ELSE 0
RiskPoints ==
  [low |-> [low |-> 15, medium |-> 10, high |-> 5],
   medium |-> [low |-> 12, medium |-> 12, high |-> 8],
   high |-> [low |-> 10, medium |-> 10, high |-> 10]]

\* _score_scenarios, times twice the number of locks
Score(snap, result, tolerance) ==
  LET n == Cardinality(DOMAIN snap.locks)
      critical == MapThenSumSet(LAMBDA l : result.changes[l], CriticalLocks(snap))
  IN  Min({80 * n, 4 * result.gain}) + Min({60 * n, 3 * n * critical})
        + 2 * n * (CostPoints(result.cost)
                     + RiskPoints[tolerance][EstimateCombinedRisk(Members(result.scenario))])

\* recommend: the answers it may give, the best of the scenarios first
Recommend(snap, most, tolerance) ==
  LET scenarios == Scenarios(snap, tolerance)
      all == DOMAIN scenarios
      results == [i \in all |-> Simulate(snap, scenarios[i])]
      score == [i \in all |-> Score(snap, results[i], tolerance)]
      taken == Min({most, Len(scenarios)})
      ranked == SortSeq([i \in all |-> i], LAMBDA i, j : score[i] > score[j])
      top == {i \in all : score[i] >= score[ranked[taken]]}
      Best(pick) ==
        /\ \A a, b \in 1 .. taken : a < b => pick[a] # pick[b] /\ score[pick[a]] >= score[pick[b]]
        /\ \A i \in all \ {pick[a] : a \in 1 .. taken} : score[i] <= score[pick[taken]]
  IN  IF Raised \in Members(results) THEN {Raised}
      ELSE IF taken = 0 THEN {<<>>}
      ELSE {[a \in 1 .. taken |->
               [result |-> results[pick[a]], score |-> score[pick[a]],
                risk |-> EstimateCombinedRisk(Members(scenarios[pick[a]]))]] :
              pick \in {p \in [1 .. taken -> top] : Best(p)}}

-----------------------------------------------------------------------------
(***************************************************************************)
(* The what-if table of karaokekoppi/l6_decision_matrix/hub/app:           *)
(* decision_matrix.py and action_simulator.py.  The index is in            *)
(* hundredths; texts and costs are left out.                               *)
(***************************************************************************)

CONSTANTS Unknown,    \* the answer to an action id that is not in the catalogue
          NoValue     \* a snapshot without metrics.resilience_index

LockOrder == <<"OK", "WEAK", "CRITICAL">>
LockIndex(level) == IF level \in {"OK", "WEAK", "CRITICAL"}
                    THEN CHOOSE i \in 1 .. 3 : LockOrder[i] = level ELSE 2

Clamp(v, lo, hi) == IF v < lo THEN lo ELSE IF v > hi THEN hi ELSE v
NudgeLock(level, step) == LockOrder[Clamp(LockIndex(level) - step, 1, 3)]

NoStep == [l \in {"Reserve", "Inertia", "Time", "Governance"} |-> 0]
Delta(index, steps) == [index |-> index, steps |-> steps @@ NoStep]

Actions ==
  "mFRR_DEMAND_RESPONSE_300" :> Delta(8, [Reserve |-> 1])
  @@ "PEAKING_UNITS_ON" :> Delta(12, [Reserve |-> 1, Inertia |-> 1])
  @@ "LEVEL2_PUBLIC_COMMS" :> Delta(2, [Governance |-> 1])
  @@ "CONTROLLED_LOAD_SHED_200" :> Delta(16, [Reserve |-> 1, Governance |-> 1])
  @@ "IMPORT_MAXIMIZATION" :> Delta(5, NoStep)
  @@ "DO_NOTHING" :> Delta(-3, NoStep)

InferAlert(index, locks) ==
  IF index < 40 /\ \E l \in DOMAIN locks : locks[l] = "CRITICAL" THEN "ADMINISTRATIVE_MANDATE"
  ELSE IF index < 25 THEN "CRISIS"
  ELSE IF index < 55 THEN "PREALERT"
  ELSE "STABLE"

\* A lock the snapshot does not have counts as WEAK and is in the answer.
SimulateAction(index, locks, id) ==
  IF id \notin DOMAIN Actions THEN Unknown
  ELSE LET before == IF index = NoValue THEN 100 ELSE index
           known == locks @@ [l \in DOMAIN NoStep |-> "WEAK"]
           after == Clamp(before + Actions[id].index, 0, 100)
           moved == [l \in DOMAIN NoStep |-> NudgeLock(known[l], Actions[id].steps[l])] @@ locks
       IN  [before |-> before, after |-> after, locks |-> moved, alert |-> InferAlert(after, moved)]
=============================================================================
