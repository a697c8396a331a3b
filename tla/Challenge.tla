------------------------------ MODULE Challenge ------------------------------
(***************************************************************************)
(* What the attestation server promises about its nonces, without time,    *)
(* devices or messages: a challenge is issued once, it is answered at most *)
(* once and only while it is open, and one that was answered or forgotten  *)
(* is never open again.                                                    *)
(***************************************************************************)
CONSTANT Challenges

VARIABLES issued, open, answered

vars == <<issued, open, answered>>

Init == issued = {} /\ open = {} /\ answered = {}

\* Each step may also forget open challenges, which expire or are lost.
Issue(c, gone) ==
  /\ c \in Challenges \ issued
  /\ issued' = issued \cup {c}
  /\ open' = (open \ gone) \cup {c}
  /\ UNCHANGED answered

Answer(c, gone) ==
  /\ c \in open
  /\ open' = open \ (gone \cup {c})
  /\ answered' = answered \cup {c}
  /\ UNCHANGED issued

Forget(gone) ==
  /\ open' = open \ gone
  /\ UNCHANGED <<issued, answered>>

Next == \E gone \in SUBSET open :
          \/ Forget(gone)
          \/ \E c \in Challenges : Issue(c, gone) \/ Answer(c, gone)

Spec == Init /\ [][Next]_vars
=============================================================================
