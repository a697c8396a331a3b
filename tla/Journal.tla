------------------------------- MODULE Journal -------------------------------
(***************************************************************************)
(* What the audit log promises to the unit that writes to it, without      *)
(* hashes, ring or timing: one decision at a time is taken, every decision *)
(* taken is recorded exactly once and in the order in which the decisions  *)
(* were taken, and nothing recorded changes until the unit is reset.       *)
(***************************************************************************)
EXTENDS Sequences

CONSTANTS Decisions,
          None          \* no decision is being recorded

VARIABLES entries,      \* the decisions recorded since the last reset
          inflight      \* the decision taken but not yet recorded

vars == <<entries, inflight>>

Init == entries = << >> /\ inflight = None

Take(decision) ==
  /\ inflight = None
  /\ inflight' = decision
  /\ UNCHANGED entries

Record ==
  /\ inflight # None
  /\ entries' = Append(entries, inflight)
  /\ inflight' = None

Reset == entries' = << >> /\ inflight' = None

Next == Reset \/ Record \/ \E decision \in Decisions : Take(decision)

Spec == Init /\ [][Next]_vars
=============================================================================
