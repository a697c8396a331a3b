------------------------------- MODULE MCMlKem --------------------------------
(***************************************************************************)
(* Decapsulation and encapsulation, each on its own: op says which top     *)
(* module is clocked in a behaviour, with the encryption core in it.       *)
(***************************************************************************)
EXTENDS MlKemDecaps

CONSTANTS k1, k2, m1, m2

\* A ciphertext for the one key, and one for the other with a part altered.
Ciphertext(k, m) == Encapsulated(PublicKey(k), m).c
TwoInputs ==
  {<<SecretKey(k1), Ciphertext(k1, m1)>>,
   <<SecretKey(k2), [Ciphertext(k2, m2) EXCEPT ![3] = <<"altered">>]>>}
TwoRequests == {<<PublicKey(k1), m1>>, <<PublicKey(k2), m2>>}

VARIABLES op, e_state, e_done, e_call, msg, K_val, r_val, unit,
          ek_in, m_in, e_start, e_used, e_starts, e_resets

E == INSTANCE MlKemEncaps WITH
  Requests <- TwoRequests, state <- e_state, done <- e_done, call <- e_call,
  start <- e_start, used <- e_used, starts <- e_starts, resets <- e_resets

encapsVars == <<e_state, e_done, e_call, msg, K_val, r_val, unit,
                ek_in, m_in, e_start, e_used, e_starts, e_resets>>
decapsVars == <<topVars, aVars, ecuVars>>
mcVars == <<op, vars, encapsVars>>

MCInit ==
  /\ Init /\ E!Init
  /\ m_in = m1
  /\ \/ op = "decaps"
     \/ op = "encaps" /\ dk_in = SecretKey(k1)

\* The two requests differ in names only: the first START is the first's.
FirstStart == e_start' /\ e_starts = 0 => m_in' = m1

Decaps(go) == op = "decaps" /\ Clock(go) /\ UNCHANGED <<op, encapsVars>>
DecapsReset == op = "decaps" /\ Reset /\ UNCHANGED <<op, encapsVars>>
Encaps(go) == op = "encaps" /\ E!Clock(go) /\ FirstStart /\ UNCHANGED <<op, decapsVars>>
EncapsReset == op = "encaps" /\ E!Reset /\ UNCHANGED <<op, decapsVars>>

MCNext ==
  DecapsReset \/ EncapsReset \/ \E go \in BOOLEAN : Decaps(go) \/ Encaps(go)

MCSpec ==
  MCInit /\ [][MCNext]_mcVars /\ WF_mcVars(Decaps(TRUE) \/ Encaps(TRUE))

(***************************************************************************)
(* Each of the two operations gives, at done, what FIPS 203 makes of the   *)
(* buffers at START.                                                       *)
(***************************************************************************)
ResultsCorrect == DecapsulationCorrect /\ E!EncapsulationCorrect

(***************************************************************************)
(* To the wrapper each of them is an operation: one START that finds it    *)
(* idle gives one run and one done.                                        *)
(***************************************************************************)
AreOperations == ImplementsOperation /\ E!ImplementsOperation

\* The encryption core finds each unit it calls at rest (MlKemEncaps).
CallsFindRest == E!CallsFindRest

(***************************************************************************)
(* Whichever it is, every run ends: no level of it waits for a pulse of    *)
(* the level below that has already gone.                                  *)
(***************************************************************************)
RunsEnd ==
  (state # "IDLE" \/ e_state # "IDLE") ~> (state = "IDLE" /\ e_state = "IDLE")
=============================================================================
