----------------------------- MODULE CalledUnit ------------------------------
(***************************************************************************)
(* The outside of a hash, sampling or transform unit of the hardware: idle *)
(* until start, it takes its input some edges later, and done is high for  *)
(* the one edge after the run.  out stays until the next run.              *)
(***************************************************************************)
CONSTANT Undefined      \* a register before it is written

IdleUnit == [fsm |-> "IDLE", out |-> Undefined, done |-> FALSE]

UnitAfter(unit, start, result, go) ==
  CASE unit.fsm = "IDLE"   -> [unit EXCEPT !.fsm = IF start THEN "ABSORB" ELSE "IDLE",
                                           !.done = FALSE]
    [] unit.fsm = "ABSORB" -> IF go THEN [unit EXCEPT !.fsm = "SQUEEZE", !.out = result]
                              ELSE unit
    [] OTHER               -> IF go THEN [unit EXCEPT !.fsm = "IDLE", !.done = TRUE]
                              ELSE unit

UnitReset(unit) == [unit EXCEPT !.fsm = "IDLE", !.done = FALSE]
=============================================================================
