-------------------------- MODULE MCSituationRoom --------------------------
(***************************************************************************)
(* The situation room, and the logs in which decisions and runs are kept:  *)
(* two processes, one of which may run tamper tests, on either log.  room  *)
(* says which of the two a behaviour is about.                             *)
(***************************************************************************)
EXTENDS ChainedLogs

CONSTANTS writer1, writer2

CONSTANTS NoAnswer, NoIndex, NoValue, Unknown, Raised, Missing, Refused, NoField, FormulaError,
          Places, Observations, Indices, Plans, Tolerance, MaxRecommendations, Scores,
          Measurements, Nodes, FactLines, FormulaLines, Shown, MaxLines, Debounce, MaxTime

VARIABLES room, desk, now, stations, cases, evaluatedAt, briefedAt, crisisSince, snapshot,
          scores, measured, facts, formulas, answer

Room == INSTANCE SituationRoom
D == INSTANCE DecisionMatrix

ASSUME LogPayloads == PayloadAssumption
ASSUME ClockAssumption == None \notin Nat /\ Debounce \in Nat
ASSUME WeatherAssumption == IsFiniteSet(Places) /\ Observations \subseteq [temp : Int, wind : Int]
ASSUME ScoreAssumption == Scores \subseteq Int \cup {Missing}
ASSUME MeasurementAssumption ==
  Measurements \subseteq
    [flow : Int, capacity : Int, shortage : Int, deviation : Int, fresh : BOOLEAN,
     internal : {Missing} \cup [flow : Int, capacity : Int]]

Operands(n) ==
  CASE n.node = "binop" -> {n.left, n.right} [] n.node = "usub" -> {n.operand} [] OTHER -> {}
ASSUME TreeAssumption ==
  /\ \A n \in Nodes : Operands(n) \subseteq Nodes
  /\ \A T \in SUBSET Nodes : T # {} => \E n \in T : Operands(n) \cap T = {}
ASSUME EntryAssumption == \A line \in FormulaLines : line.field \in Nodes \cup {NoField}

MCObservations == {[temp |-> -20, wind |-> 2], [temp |-> -9, wind |-> 6], [temp |-> 4, wind |-> 12]}
MCIndices == {20, 83, 90, NoValue}
MCPlans ==
  {<<D!Order[1]>>, <<D!Order[6]>>, <<D!Order[6], D!Order[7]>>, <<D!Order[2], D!Order[5]>>,
   <<D!Order[1], D!Order[2], D!Order[3]>>}
MCScores == {-3, -1, 4, Missing}
MCMeasurements ==
  [flow : {-100, 0, 50}, capacity : {0, 100}, shortage : {0, 2, 3, 4}, deviation : {-5, 10, 50},
   fresh : BOOLEAN, internal : {Missing, [flow |-> 30, capacity |-> 60]}]
KeyRef(k) == [node |-> "name", id |-> k]
Op(l, op, rr) == [node |-> "binop", left |-> l, op |-> op, right |-> rr]
Three == [node |-> "constant", value |-> 3]
One == [node |-> "constant", value |-> 1]
MinusOne == [node |-> "usub", operand |-> One]
Less == Op(KeyRef("debt"), "+", MinusOne)
Tripled == Op(One, "*", Three)
Rest == Op(KeyRef("debt"), "-", Tripled)
Ratio == Op(KeyRef("gap"), "/", Rest)
Total == Op(KeyRef("effort"), "+", KeyRef("debt"))
Remainder == Op(One, "%", One)
Call == [node |-> "call"]
MCNodes == {KeyRef("debt"), KeyRef("gap"), KeyRef("effort"), Three, One, MinusOne, Less, Tripled, Rest,
            Ratio, Total, Remainder, Call}
MCFactLines == [key : {"debt"}, field : {3, 4}] \cup [key : {"gap"}, field : {2, NoField}]
MCFormulaLines ==
  [key : {"gap"}, field : {Less}] \cup [key : {"effort"}, field : {Ratio, NoField}]
  \cup [key : {"share"}, field : {Total, Remainder, Call}]
Stations == {"Helsinki", "Kuopio", "Oulu"}

MCPayloads == {[scenario |-> "NORMAL", assertion |-> "holds", text |-> 0],
               [scenario |-> "CRISIS", assertion |-> "holds", text |-> 0],
               [scenario |-> "CRISIS", assertion |-> "raises", text |-> None]}
Symmetry == Permutations(Writers)

hubVars == <<now, stations, cases, evaluatedAt, briefedAt, crisisSince>>
situationVars == <<desk, hubVars, snapshot, scores, measured, facts, formulas, answer>>
mcVars == <<room, vars, situationVars>>

MCInit ==
  /\ Init /\ Room!Init
  /\ \/ room = "situation" /\ tool = "decision"
     \/ room = "logs" /\ desk = "hub"

Situation == room = "situation" /\ Room!Next /\ UNCHANGED <<room, vars>>
Logs == room = "logs" /\ Next /\ UNCHANGED <<room, situationVars>>

MCNext == Situation \/ Logs
MCSpec == MCInit /\ [][MCNext]_mcVars

\* What the situation room promises (see SituationRoom)
CrisisIsBriefed == Room!CrisisIsBriefed
AdviceIsHonest == Room!AdviceIsHonest
NumbersAgree == Room!NumbersAgree
JudgementsAreMonotone == Room!JudgementsAreMonotone
DuplicatesAreRefused == Room!DuplicatesAreRefused
=============================================================================
