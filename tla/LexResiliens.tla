---------------------------- MODULE LexResiliens -----------------------------
(***************************************************************************)
(* Lex Resiliens scoring: framework/lr_open.py with the configuration in   *)
(* lr_open_core.json (weights in tenths), and wem_bridge/wem_to_lr.py      *)
(* (shares in hundredths, frequency deviations in hundredths of a hertz).  *)
(* Names, formatted text and warnings are left out.                        *)
(***************************************************************************)
EXTENDS Integers, Sequences, FiniteSets, FiniteSetsExt, SequencesExt, TLC

CONSTANTS Missing,     \* a function without a score; a snapshot without internal transfer
          Refused      \* the call raised ValueError

Weights(r, s, e) == [R |-> r, S |-> s, E |-> e]
AffectsComponents ==
  [RSM |-> Weights(7, 1, 2), RRM |-> Weights(3, 2, 5), TSM |-> Weights(4, 4, 2),
   RAP |-> Weights(1, 6, 3), IRS |-> Weights(1, 8, 1), LRM |-> Weights(3, 5, 2)]
Functions6 == DOMAIN AffectsComponents

ClampTo(v, lo, hi) == Max({lo, Min({hi, v})})

\* Python rounds the floating-point quotient: half a unit may go either way.
Rounded(num, den) ==
  {k \in -3 .. 3 : 2 * num - den <= 2 * k * den /\ 2 * k * den <= 2 * num + den}

Component(scores, c) ==
  LET given == {f \in Functions6 : scores[f] # Missing}
      num == MapThenSumSet(LAMBDA f : AffectsComponents[f][c] * ClampTo(scores[f], -3, 3), given)
      den == MapThenSumSet(LAMBDA f : AffectsComponents[f][c], given)
  IN  IF den = 0 THEN {0} ELSE Rounded(num, den)

\* Mutated: a gap between two rules.
DetermineStatusGap(R, S, E) ==
  LET least == Min({R, S, E})
  IN  IF R <= -2 \/ S <= -2 \/ E <= -2 THEN "Critical"
      ELSE IF -2 < least /\ least < -1 THEN "Fragile"
      ELSE IF -1 < least /\ least < 1 THEN "Tense"
      ELSE IF least >= 1 THEN "Resilient"
      ELSE "Unknown"

\* The rules of kri_index, the first that applies.
DetermineStatus(R, S, E) ==
  LET least == Min({R, S, E})
  IN  IF R <= -2 \/ S <= -2 \/ E <= -2 THEN "Critical"
      ELSE IF -2 < least /\ least <= -1 THEN "Fragile"
      ELSE IF -1 < least /\ least < 1 THEN "Tense"
      ELSE IF least >= 1 THEN "Resilient"
      ELSE "Unknown"

CheckVrfLock(status) == status \in {"Critical", "Fragile"}

\* evaluate: the results it may return
Evaluate(scores, strict) ==
  IF strict /\ \E f \in Functions6 : scores[f] = Missing THEN {Refused}
  ELSE {[R |-> R, S |-> S, E |-> E, status |-> DetermineStatus(R, S, E),
         vrf |-> CheckVrfLock(DetermineStatus(R, S, E))] :
          R \in Component(scores, "R"), S \in Component(scores, "S"), E \in Component(scores, "E")}

-----------------------------------------------------------------------------
\* wem_to_lr

Magnitude(v) == IF v < 0 THEN -v ELSE v
TransferMargin(flow, capacity) ==
  IF capacity <= 0 THEN 0 ELSE ClampTo(100 - (100 * Magnitude(flow)) \div capacity, 0, 100)
FrequencyScore(dev) == IF dev < 10 THEN 100 ELSE IF dev < 20 THEN 66 ELSE IF dev < 50 THEN 33 ELSE 0

\* in thousandths
ComputeR(snap) ==
  LET se1 == TransferMargin(snap.flow, snap.capacity)
  IN  IF snap.internal = Missing THEN 10 * se1
      ELSE 6 * se1 + 4 * TransferMargin(snap.internal.flow, snap.internal.capacity)

\* in six hundredths
ComputeS(snap) == 100 * (3 - snap.shortage) + 3 * FrequencyScore(Magnitude(snap.deviation))

SnapshotToAgent(snap) ==
  IF snap.shortage \notin 0 .. 3 THEN Refused
  ELSE [R |-> ComputeR(snap), S |-> ComputeS(snap), irs_ok |-> IF snap.fresh THEN 1 ELSE 0]

-----------------------------------------------------------------------------
(***************************************************************************)
(* The document generator of lex-resiliens/docgen: engine.py computes the  *)
(* numbers of a document from facts.yaml and formulas.yaml, build.py fills *)
(* the template in with them.  A file is the sequence of its entries.  A   *)
(* number is a fraction [n, d]; the code computes with floats.             *)
(***************************************************************************)

CONSTANTS
  Nodes,       \* the nodes of the formulas' syntax trees, each with its operands
  NoField,     \* the entry has no "value" (or "expression") field
  FormulaError \* raised by the engine, or by Python or the template engine under it

Number(k) == [n |-> k, d |-> 1]
SameNumber(x, y) == x.n * y.d = y.n * x.d

\* yaml.safe_load: a mapping in the order of the first occurrences of its keys, with
\* the value of the last one.
Keys(file) == {file[i].key : i \in DOMAIN file}
SafeLoad(file) ==
  [key \in Keys(file) |->
     file[CHOOSE i \in DOMAIN file : file[i].key = key /\ \A j \in DOMAIN file : j > i => file[j].key # key].field]

\* ALLOWED_BINOPS
Apply(op, x, y) ==
  CASE op = "+" -> [n |-> (x.n * y.d) + (y.n * x.d), d |-> x.d * y.d]
    [] op = "-" -> [n |-> (x.n * y.d) - (y.n * x.d), d |-> x.d * y.d]
    [] op = "*" -> [n |-> x.n * y.n, d |-> x.d * y.d]
    [] op = "/" -> IF y.n = 0 THEN FormulaError ELSE [n |-> x.n * y.d, d |-> x.d * y.n]
    [] OTHER -> FormulaError

\* SafeEvaluator: a node is a number, a name, an operation or a negation; anything
\* else raises.
Leaf(node, namespace) ==
  CASE node.node = "constant" -> Number(node.value)
    [] node.node = "name" -> IF node.id \in DOMAIN namespace THEN namespace[node.id] ELSE FormulaError
    [] OTHER -> FormulaError
Negated(x) == [x EXCEPT !.n = -@]
EvalNode(node, namespace) ==
  LET eval[n \in Nodes] ==
        IF n.node = "binop" THEN
          IF FormulaError \in {eval[n.left], eval[n.right]} THEN FormulaError
          ELSE Apply(n.op, eval[n.left], eval[n.right])
        ELSE IF n.node = "usub" THEN
          IF eval[n.operand] = FormulaError THEN FormulaError ELSE Negated(eval[n.operand])
        ELSE Leaf(n, namespace)
  IN  eval[node]

\* Mutated: a key may be in both files.
OverlapIgnored(facts, formulas) == {}

Overlap(facts, formulas) == Keys(facts) \cap Keys(formulas)

Assign(namespace, key, value) ==
  [k \in DOMAIN namespace \cup {key} |-> IF k = key THEN value ELSE namespace[k]]

\* One turn of compute_all's loop over the formulas, which adds a number.
AddNumber(namespace, key, expression) ==
  LET result == EvalNode(expression, namespace)
  IN  IF expression = NoField \/ result = FormulaError THEN FormulaError
      ELSE Assign(namespace, key, result)

\* compute_all: the formulas are evaluated in the order of their file; after[i] is
\* the namespace once those of its first i entries are, a repeated key at its first.
ComputeAll(facts, formulas) ==
  LET values == SafeLoad(facts)
      expressions == SafeLoad(formulas)
      after[i \in 0 .. Len(formulas)] ==
        IF i = 0 THEN [k \in DOMAIN values |-> Number(values[k])]
        ELSE IF after[i - 1] = FormulaError THEN FormulaError
        ELSE IF \E j \in 1 .. i - 1 : formulas[j].key = formulas[i].key THEN after[i - 1]
        ELSE AddNumber(after[i - 1], formulas[i].key, expressions[formulas[i].key])
  IN  IF Overlap(facts, formulas) # {} \/ \E k \in DOMAIN values : values[k] = NoField THEN FormulaError
      ELSE after[Len(formulas)]

\* build, whose template shows the keys in shown and stops at one that is undefined
Build(facts, formulas, shown) ==
  LET namespace == ComputeAll(facts, formulas)
  IN  IF namespace = FormulaError \/ ~ (shown \subseteq DOMAIN namespace) THEN FormulaError
      ELSE [numbers |-> [k \in shown |-> namespace[k]], namespace |-> namespace]
=============================================================================
