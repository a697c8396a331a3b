---------------------------- MODULE SituationRoom ----------------------------
(***************************************************************************)
(* The decision support around the grid: the hub, which takes the Time     *)
(* lock from the weather stations and hands each snapshot to the case      *)
(* manager (karaokekoppi/l5_core); the decision matrix, its simulator and  *)
(* recommendation engine, and the what-if table (decision-matrix and       *)
(* l6_decision_matrix); and the Lex Resiliens scores with the bridge from  *)
(* grid measurements (lex-resiliens), and the generator that computes the  *)
(* numbers of its documents.  The parts share no process, so a behaviour   *)
(* is a session at one desk, chosen at the start.                          *)
(*                                                                         *)
(* The service that polls the stations and calls the case manager is not   *)
(* in the repository; Evaluate is what its calls do.  The wall clock, in   *)
(* ticks, is assumed not to be set back.                                   *)
(***************************************************************************)
EXTENDS LexResiliens, DecisionMatrix

(***************************************************************************)
(* The Time lock of karaokekoppi/l5_core/ssa/weather_fmi.py, from the      *)
(* observations of the FMI stations: temperatures in degrees, winds in     *)
(* metres per second.  The service and its XML are outside; a place        *)
(* answers with both values, or the code gets nothing it can use.          *)
(***************************************************************************)

CONSTANT NoAnswer    \* get_fmi_data gave None, or a value was missing

Valid(answers) == {p \in DOMAIN answers : answers[p] # NoAnswer}

\* Mutated: the mean of all values instead of the worst two.
MeanOfAll(values) ==
  (2 * MapThenSumSet(LAMBDA p : values[p], DOMAIN values)) \div Cardinality(DOMAIN values)

\* the sum of the two lowest values, or twice the only one: twice t_med or w_med
WorstTwo(values) ==
  LET pairs == {q \in (DOMAIN values) \X (DOMAIN values) : q[1] # q[2]}
  IN  IF pairs = {} THEN 2 * values[CHOOSE p \in DOMAIN values : TRUE]
      ELSE Min({values[q[1]] + values[q[2]] : q \in pairs})

\* time_p, in thousandths
TimeRisk(t2, w2) == Max({0, Min({600, -12 * t2})}) + Max({0, Min({400, 20 * (20 - w2)})})

CalculateTimeLock(answers) ==
  IF Valid(answers) = {} THEN [status |-> "UNKNOWN", time_p |-> 0]
  ELSE LET t2 == WorstTwo([p \in Valid(answers) |-> answers[p].temp])
           w2 == WorstTwo([p \in Valid(answers) |-> answers[p].wind])
       IN  [status |-> IF w2 < 6 /\ t2 < -30 THEN "CRITICAL"
                       ELSE IF w2 < 10 \/ t2 < -20 THEN "WEAK" ELSE "OK",
            time_p |-> TimeRisk(t2, w2)]

-----------------------------------------------------------------------------
CONSTANTS
  Places, Observations,     \* weather stations and what they may report
  Indices,                  \* resilience indices of a snapshot, or NoValue
  Plans,                    \* action lists an operator simulates
  Tolerance,                \* the risk tolerances an operator asks for
  MaxRecommendations,
  Scores,                   \* function scores, or Missing
  Measurements,             \* snapshots of the bridge
  FactLines, FormulaLines,  \* entries of facts.yaml and formulas.yaml
  Shown, MaxLines,          \* the keys of the template; entries of a file
  Debounce,                 \* debounce_seconds, in ticks
  MaxTime,                  \* bound on the clock
  None                      \* no answer yet; no brief yet

VARIABLES
  desk,
  now, stations,
  cases,        \* CaseManager: last_index, last_brief_ts; case_id is the time of the brief
  evaluatedAt, briefedAt, crisisSince,  \* history: the last evaluation, the last that opened
                \* a case, the first of an unbroken run of evaluations with a CRITICAL lock
  snapshot,     \* what the matrix and the what-if table are asked about
  scores, measured,
  facts, formulas,  \* the files of the document
  answer        \* what the last call returned

hubVars == <<now, stations, cases, evaluatedAt, briefedAt, crisisSince>>
deskVars == <<snapshot, scores, measured, facts, formulas>>
vars == <<desk, hubVars, deskVars, answer>>

Locks == {"Reserve", "Time", "Governance"}
LockStates == {"OK", "WEAK", "CRITICAL", "UNKNOWN"}

Init ==
  /\ desk \in {"hub", "matrix", "scores", "bridge", "document"}
  /\ now = 0
  /\ stations = [p \in Places |-> NoAnswer]
  /\ cases = [last_index |-> 100, last_brief |-> None]
  /\ evaluatedAt = None
  /\ briefedAt = None
  /\ crisisSince = None
  /\ snapshot \in IF desk = "matrix" THEN [locks : {[l \in Locks |-> "OK"]}, index : Indices]
                  ELSE {[locks |-> [l \in Locks |-> "OK"], index |-> NoValue]}
  /\ scores = [f \in Functions6 |-> Missing]
  /\ measured = None
  /\ facts = <<>> /\ formulas = <<>>
  /\ answer = None

-----------------------------------------------------------------------------
\* The hub

Tick == now < MaxTime /\ now' = now + 1 /\ UNCHANGED <<stations, cases, evaluatedAt, briefedAt, crisisSince>>

Observe(p, o) ==
  /\ stations' = [stations EXCEPT ![p] = o]
  /\ UNCHANGED <<now, cases, evaluatedAt, briefedAt, crisisSince>>

\* Whether the index dropped by 0.07: the code subtracts floating-point numbers,
\* so a drop of exactly that much may or may not count.
Drops(by) == IF by = 7 THEN BOOLEAN ELSE {by > 7}
IndexRead(index) == IF index = NoValue THEN 100 ELSE index

\* CaseManager.evaluate: a drop or a CRITICAL lock opens a case, unless the last
\* one is too recent.
MayBrief == cases.last_brief = None \/ now - cases.last_brief > Debounce

\* Mutated: the time of the last brief moves on every trigger, debounced or not.
EvaluateCaseRestarting(index, trigger) ==
  cases' = [last_index |-> index, last_brief |-> IF trigger THEN now ELSE cases.last_brief]

EvaluateCase(index, trigger) ==
  cases' = [last_index |-> index,
            last_brief |-> IF trigger /\ MayBrief THEN now ELSE cases.last_brief]

\* One round of the orchestrator: the Time lock joins the locks from elsewhere.
EvaluateSnapshot(reserve, index) ==
  LET locks == [Reserve |-> reserve, Time |-> CalculateTimeLock(stations).status]
      crisis == \E l \in DOMAIN locks : locks[l] = "CRITICAL"
  IN  /\ \E drop \in Drops(cases.last_index - IndexRead(index)) :
           /\ EvaluateCase(IndexRead(index), drop \/ crisis)
           /\ briefedAt' = IF (drop \/ crisis) /\ MayBrief THEN now ELSE briefedAt
      /\ evaluatedAt' = now
      /\ crisisSince' = IF ~crisis THEN None ELSE IF crisisSince = None THEN now ELSE crisisSince
      /\ UNCHANGED <<now, stations>>

Hub ==
  /\ desk = "hub"
  /\ \/ Tick
     \/ \E p \in Places, o \in Observations \cup {NoAnswer} : Observe(p, o)
     \/ \E reserve \in {"OK", "CRITICAL"}, index \in Indices : EvaluateSnapshot(reserve, index)
  /\ UNCHANGED <<desk, deskVars, answer>>

-----------------------------------------------------------------------------
\* The matrix and the what-if table

NewSnapshot(l, s) ==
  /\ snapshot' = [snapshot EXCEPT !.locks[l] = s]
  /\ answer' = None

Asked(call) == UNCHANGED snapshot /\ answer = None /\ answer' \in call

AskRecommend(tolerance) ==
  Asked([call : {"recommend"}, tolerance : {tolerance},
         advice : Recommend(snapshot, MaxRecommendations, tolerance)])

AskSimulate(plan) == Asked([call : {"simulate"}, result : {Simulate(snapshot, plan)}])

AskWhatIf(id) ==
  Asked([call : {"what_if"}, id : {id}, result : {SimulateAction(snapshot.index, snapshot.locks, id)}])

Matrix ==
  /\ desk = "matrix"
  /\ \/ \E l \in Locks, s \in LockStates : NewSnapshot(l, s)
     \/ \E tolerance \in Tolerance : AskRecommend(tolerance)
     \/ \E plan \in Plans : AskSimulate(plan)
     \/ \E id \in DOMAIN Actions \cup {"NO_SUCH_ACTION"} : AskWhatIf(id)
  /\ UNCHANGED <<desk, hubVars, scores, measured, facts, formulas>>

-----------------------------------------------------------------------------
\* The scores and the bridge

Rescore(f, v, strict) ==
  /\ scores' = [scores EXCEPT ![f] = v]
  /\ answer' \in Evaluate(scores', strict)
  /\ UNCHANGED measured

Measure(m) ==
  /\ measured' = m
  /\ answer' = SnapshotToAgent(m)
  /\ UNCHANGED scores

Scoring ==
  /\ \/ desk = "scores" /\ \E f \in Functions6, v \in Scores, strict \in BOOLEAN : Rescore(f, v, strict)
     \/ desk = "bridge" /\ \E m \in Measurements : Measure(m)
  /\ UNCHANGED <<desk, hubVars, snapshot, facts, formulas>>

-----------------------------------------------------------------------------
\* The document: its author adds entries to the files and builds it.

AddEntry(file, line) == Len(file) < MaxLines /\ file' = Append(file, line) /\ answer' = None

BuildDocument == answer' = Build(facts, formulas, Shown)

Documents ==
  /\ desk = "document"
  /\ \/ \E line \in FactLines : AddEntry(facts, line) /\ UNCHANGED formulas
     \/ \E line \in FormulaLines : AddEntry(formulas, line) /\ UNCHANGED facts
     \/ BuildDocument /\ UNCHANGED <<facts, formulas>>
  /\ UNCHANGED <<desk, hubVars, snapshot, scores, measured>>

Next == Hub \/ Matrix \/ Scoring \/ Documents

Spec == Init /\ [][Next]_vars

-----------------------------------------------------------------------------
\* A crisis that outlasts the debounce window has been briefed: when a run of
\* evaluations with a CRITICAL lock is older than the window, a case was opened
\* within the run (CaseManager.evaluate keeps last_brief_ts while it debounces).
CrisisIsBriefed ==
  crisisSince # None /\ evaluatedAt - crisisSince > Debounce =>
    briefedAt # None /\ briefedAt >= crisisSince

Severity(status) == CASE status = "OK" -> 0 [] status = "WEAK" -> 1 [] status = "CRITICAL" -> 2 [] OTHER -> 1

\* With two stations answering, a further answer never makes the Time lock look
\* better: the worst two of N only get worse (calculate_time_lock).
HidesNothing ==
  Cardinality(Valid(stations)) >= 2 /\ (\A p \in Valid(stations) : stations'[p] = stations[p])
    => /\ Severity(CalculateTimeLock(stations').status) >= Severity(CalculateTimeLock(stations).status)
       /\ CalculateTimeLock(stations').time_p >= CalculateTimeLock(stations).time_p
MoreStationsNeverHide == [][HidesNothing]_vars

Helps(id, l) == \E e \in Catalog[id].effects : e.lock = l /\ e.impact > 0

\* What an operator may reasonably be told: one or two measures that each lift a
\* critical lock, go together and stay within the tolerance.
Reasonable(tolerance) ==
  {ids \in SUBSET DOMAIN Catalog :
     /\ Cardinality(ids) \in 1 .. 2
     /\ \A id \in ids : \E l \in CriticalLocks(snapshot) : Helps(id, l)
     /\ \A a, b \in ids : a # b => IsCompatible(a, b)
     /\ \A id \in ids : \A kind \in DOMAIN Catalog[id].risks :
          Level[Catalog[id].risks[kind]] <= Level[tolerance]}

\* Up to medium tolerance the recommendations are the best reasonable measures,
\* they can be carried out as listed, each lifts a critical lock, and what they
\* claim for the critical locks is what the simulation leaves after clamping.
AdviceIsSound ==
  answer # None /\ desk = "matrix" /\ answer.call = "recommend" /\ answer.tolerance # "high" =>
    LET listed == {Members(answer.advice[i].result.scenario) : i \in DOMAIN answer.advice}
        left == Reasonable(answer.tolerance) \ listed
    IN  /\ answer.advice # Raised
        /\ listed \subseteq Reasonable(answer.tolerance)
        /\ left # {} => Cardinality(listed) = MaxRecommendations
        /\ \A ids \in left : \A i \in DOMAIN answer.advice :
             LET other == CHOOSE s \in [1 .. Cardinality(ids) -> ids] : Members(s) = ids
             IN  Score(snapshot, Simulate(snapshot, other), answer.tolerance) <= answer.advice[i].score
        /\ \A i \in DOMAIN answer.advice :
             LET changes == answer.advice[i].result.changes
             IN  /\ PrerequisitesMet(Members(answer.advice[i].result.scenario))
                 /\ \E l \in CriticalLocks(snapshot) : changes[l] > 0
                 /\ \A l \in CriticalLocks(snapshot) : Clamped(30 + changes[l]) = 30 + changes[l]

\* The engine raises, where recommend's docstring promises a list, exactly at high
\* tolerance with the Reserve or the Time lock critical: it then proposes the rolling
\* blackouts alone, without the communication they require, and the simulator refuses
\* (recommendation_engine.py:129, action_simulator.py:143-151).
RaisesOnlyForBlackouts ==
  answer # None /\ desk = "matrix" /\ answer.call = "recommend" =>
    (answer.advice = Raised <=>
       answer.tolerance = "high" /\ CriticalLocks(snapshot) \cap {"Reserve", "Time"} # {})

\* A simulated lock is better (worse) than the snapshot's only if the measures
\* lift (strain) it, and a what-if action that only helps never raises the alert
\* (simulate, nudge_lock, _infer_alert); a lock of unknown status is exempt,
\* both simulators report one as WEAK.
Alarm == [STABLE |-> 0, PREALERT |-> 1, CRISIS |-> 2, ADMINISTRATIVE_MANDATE |-> 3]
Known == {l \in Locks : snapshot.locks[l] # "UNKNOWN"}
SimulationIsHonest ==
  answer # None /\ desk = "matrix" =>
    /\ answer.call = "simulate" /\ answer.result # Raised =>
         \A l \in Known : \A s \in answer.result.locks[l] :
           /\ Severity(s) < Severity(snapshot.locks[l]) => answer.result.changes[l] > 0
           /\ Severity(s) > Severity(snapshot.locks[l]) => answer.result.changes[l] < 0
    /\ answer.call = "what_if" /\ answer.result # Unknown =>
         LET effect == Actions[answer.id]
             moved == \E l \in DOMAIN effect.steps : effect.steps[l] > 0
         IN  /\ \A l \in Known : answer.result.locks[l] # snapshot.locks[l] => effect.steps[l] > 0
             /\ moved => Alarm[answer.result.alert] <= Alarm[InferAlert(answer.result.before, snapshot.locks)]

Rank == [Critical |-> 1, Fragile |-> 2, Tense |-> 3, Resilient |-> 4, Unknown |-> 0]
WorseReading(m, n) ==
  /\ Magnitude(n.flow) >= Magnitude(m.flow) /\ n.capacity <= m.capacity /\ n.internal = m.internal
  /\ n.shortage >= m.shortage /\ Magnitude(n.deviation) >= Magnitude(m.deviation)

\* Better never scores worse: raising one function's score cannot lower the
\* status (the status rules leave no gap and are in order), and a worse grid
\* reading cannot raise R or S (evaluate, _determine_status, wem_to_lr).  A
\* score off the scale counts as the end of the scale.
RaisedOne(f) ==
  /\ Missing \notin {scores[f], scores'[f]}
  /\ ClampTo(scores'[f], -3, 3) > ClampTo(scores[f], -3, 3)
  /\ \A g \in Functions6 \ {f} : scores'[g] = scores[g]
ScoresNoWorse ==
  answer \notin {None, Refused} /\ answer' # Refused =>
    /\ desk = "scores" /\ (\E f \in Functions6 : RaisedOne(f)) =>
         Rank[answer'.status] >= Rank[answer.status]
    /\ desk = "bridge" /\ WorseReading(measured, measured') =>
         answer'.R <= answer.R /\ answer'.S <= answer.S
BetterNeverScoresWorse == [][ScoresNoWorse]_vars

(***************************************************************************)
(* The numbers of a document agree with the files it was built from: when  *)
(* no key is entered twice, every entry of facts.yaml has the value its    *)
(* author wrote, and every entry of formulas.yaml is its expression over   *)
(* the final numbers, so none was computed from a value replaced later     *)
(* (compute_all has no ordering of its own and relies on the file's).      *)
(***************************************************************************)
Built == desk = "document" /\ answer \notin {None, FormulaError}
EntriesUnique(file) == \A i, j \in DOMAIN file : file[i].key = file[j].key => i = j
NumbersAgree ==
  Built /\ EntriesUnique(facts) /\ EntriesUnique(formulas) =>
    LET numbers == answer.namespace
    IN  /\ \A i \in DOMAIN facts : numbers[facts[i].key] = Number(facts[i].field)
        /\ \A i \in DOMAIN formulas :
             SameNumber(numbers[formulas[i].key], EvalNode(formulas[i].field, numbers))

\* What engine.py:8-11 and facts.yaml:5-7 say: the build crashes when a fact is
\* given two values.  yaml.safe_load keeps the last entry without a word.
DuplicatesAreRefused ==
  Built => \A i, j \in DOMAIN facts : facts[i].key = facts[j].key => facts[i].field = facts[j].field

\* What an operator is advised is sound, the call fails only where the blackouts are
\* tolerated, and what the advice was computed with, the simulation of each measure,
\* changes nothing but what the measure does.
AdviceIsHonest == AdviceIsSound /\ RaisesOnlyForBlackouts /\ SimulationIsHonest

\* No judgement improves because the situation got worse: neither the Time lock
\* with another station, nor a score with a better function or a worse grid.
JudgementsAreMonotone == MoreStationsNeverHide /\ BetterNeverScoresWorse
=============================================================================
