------------------------------ MODULE Watchdog -------------------------------
(***************************************************************************)
(* The heartbeat watchdog of the Trust Anchor Unit,                        *)
(* hardware/pqc-rtl/fpga/tau/pqc_tau_watchdog.sv.  One step is one clock   *)
(* edge; the counter stops at the threshold, so its 32 bits never wrap.    *)
(***************************************************************************)
EXTENDS Integers

CONSTANTS TimeoutDefault,   \* TIMEOUT_CYCLES_DEFAULT
          MaxTimeout        \* bound on the thresholds that are configured

ASSUME TimeoutAssumption ==
  /\ MaxTimeout \in Nat
  /\ TimeoutDefault \in 0 .. MaxTimeout

VARIABLES active_timeout, counter, ecu_alive, timeout_event, timeout_count

watchdogVars == <<active_timeout, counter, ecu_alive, timeout_event, timeout_count>>

Timeouts == 0 .. MaxTimeout

WatchdogInit ==
  /\ active_timeout = TimeoutDefault
  /\ counter = 0
  /\ ecu_alive = TRUE
  /\ timeout_event = FALSE
  /\ timeout_count = 0

\* An edge with reset high.
WatchdogReset ==
  /\ active_timeout' = TimeoutDefault
  /\ counter' = 0
  /\ ecu_alive' = TRUE
  /\ timeout_event' = FALSE
  /\ timeout_count' = 0

\* timeout_cycles takes effect on the next edge
Configure(config_valid, timeout_cycles) ==
  active_timeout' = IF config_valid THEN timeout_cycles ELSE active_timeout

\* A heartbeat restarts the counter; it does not revive ecu_alive.
Heartbeat ==
  /\ counter' = 0
  /\ timeout_event' = FALSE
  /\ UNCHANGED <<ecu_alive, timeout_count>>

\* A silent cycle below the threshold.
Count ==
  /\ counter < active_timeout
  /\ counter' = counter + 1
  /\ timeout_event' = FALSE
  /\ UNCHANGED <<ecu_alive, timeout_count>>

\* A silent cycle at the threshold: the first one since reset is the timeout.
ExpireEarly ==
  /\ counter + 1 >= active_timeout
  /\ ecu_alive' = FALSE
  /\ timeout_event' = ecu_alive
  /\ timeout_count' = IF ecu_alive THEN timeout_count + 1 ELSE timeout_count
  /\ UNCHANGED counter
ExpireOnEquality ==
  /\ counter >= active_timeout
  /\ ecu_alive' = (ecu_alive /\ counter # active_timeout)
  /\ timeout_event' = (ecu_alive /\ ~ecu_alive')
  /\ timeout_count' = IF timeout_event' THEN timeout_count + 1 ELSE timeout_count
  /\ UNCHANGED counter
Expire ==
  /\ counter >= active_timeout
  /\ ecu_alive' = FALSE
  /\ timeout_event' = ecu_alive
  /\ timeout_count' = IF ecu_alive THEN timeout_count + 1 ELSE timeout_count
  /\ UNCHANGED counter

\* An edge with reset low and the given inputs.
WatchdogClock(heartbeat_valid, config_valid, timeout_cycles) ==
  /\ Configure(config_valid, timeout_cycles)
  /\ \/ heartbeat_valid /\ Heartbeat
     \/ ~heartbeat_valid /\ (Count \/ Expire)

WatchdogTypeOK ==
  /\ active_timeout \in Timeouts
  /\ counter \in Timeouts
  /\ ecu_alive \in BOOLEAN
  /\ timeout_event \in BOOLEAN
  /\ timeout_count \in Nat

-----------------------------------------------------------------------------
(***************************************************************************)
(* What holds of the watchdog on every edge, for every driver of its       *)
(* inputs: the proofs about the units it is built into start from here.    *)
(***************************************************************************)

\* The watchdog's types are preserved, and it raises its event at most once.
WatchdogInv ==
  /\ WatchdogTypeOK
  /\ timeout_event => ~ecu_alive

Numbers == active_timeout \in Timeouts /\ counter \in Timeouts /\ timeout_count \in Nat
Flags == ecu_alive \in BOOLEAN /\ timeout_event \in BOOLEAN /\ (timeout_event => ~ecu_alive)
=============================================================================
