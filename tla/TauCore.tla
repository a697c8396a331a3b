------------------------------- MODULE TauCore -------------------------------
(***************************************************************************)
(* The core of the Trust Anchor Unit,                                      *)
(* hardware/pqc-rtl/fpga/tau/pqc_tau_core.sv: the watchdog and the ECU     *)
(* share the write port of the audit log.  A timeout is logged with a      *)
(* fixed decision hash, and has priority over the ECU.                     *)
(***************************************************************************)
EXTENDS AuditLog, Watchdog, FiniteSets

CONSTANT Sentinel      \* WATCHDOG_SENTINEL_HASH

EcuDecisions == Decisions \ {Sentinel}

ASSUME SentinelAssumption == Sentinel \in Decisions

VARIABLES
  pending_watchdog_write,        \* a timeout waits for the log
  ecu_write_accepted,            \* one cycle: the ECU's request was taken
  write_was_watchdog_event_reg,  \* the write in progress is the watchdog's
  asked,                         \* history: requests the ECU made of a free log
  ackedWrites,                   \* history: requests the ECU was told are taken
  chainAtTimeout,                \* history: length of the chain at the timeout
  busyAtTimeout                  \* history: whether a write was then in progress

arbiterVars == <<pending_watchdog_write, ecu_write_accepted, write_was_watchdog_event_reg>>
historyVars == <<asked, ackedWrites, chainAtTimeout, busyAtTimeout>>
tauVars == <<logVars, watchdogVars, arbiterVars, historyVars>>

-----------------------------------------------------------------------------
NoRequests == [d \in EcuDecisions |-> 0]

TauInit ==
  /\ LogInit
  /\ WatchdogInit
  /\ pending_watchdog_write = FALSE
  /\ ecu_write_accepted = FALSE
  /\ write_was_watchdog_event_reg = FALSE
  /\ asked = NoRequests
  /\ ackedWrites = NoRequests
  /\ chainAtTimeout = 0
  /\ busyAtTimeout = FALSE

TauReset ==
  /\ LogReset
  /\ WatchdogReset
  /\ pending_watchdog_write' = FALSE
  /\ ecu_write_accepted' = FALSE
  /\ write_was_watchdog_event_reg' = FALSE
  /\ asked' = NoRequests
  /\ ackedWrites' = NoRequests
  /\ chainAtTimeout' = 0
  /\ busyAtTimeout' = FALSE

\* The arbiter, combinational: the watchdog goes first.
WatchdogWants == timeout_event \/ pending_watchdog_write

ArbDecisionFromEvent(ecu_write_valid, ecu_decision_hash) ==
  IF timeout_event THEN Sentinel ELSE ecu_decision_hash
ArbDecision(ecu_write_valid, ecu_decision_hash) ==
  IF WatchdogWants THEN Sentinel ELSE ecu_decision_hash

\* pending_watchdog_write: set by the event, cleared when the log is free.
\* The event is also set when the log takes the sentinel on that same edge.
PendingOneCycle ==
  pending_watchdog_write' = timeout_event
Pending ==
  pending_watchdog_write' =
    (timeout_event \/ (pending_watchdog_write /\ write_busy))

(***************************************************************************)
(* write_was_watchdog_event_reg and ecu_write_accepted.  The latter is     *)
(* driven by two always_ff blocks: the first clears it on every edge, the  *)
(* second sets it when the ECU's request is taken, and which assignment    *)
(* wins is not defined.                                                    *)
(***************************************************************************)
TagFromEvent(arb_write_valid) ==
  IF arb_write_valid /\ ~write_busy
  THEN /\ write_was_watchdog_event_reg' = timeout_event
       /\ ecu_write_accepted' \in IF timeout_event THEN {FALSE} ELSE BOOLEAN
  ELSE /\ ecu_write_accepted' = FALSE
       /\ UNCHANGED write_was_watchdog_event_reg
Tag(arb_write_valid) ==
  IF arb_write_valid /\ ~write_busy
  THEN /\ write_was_watchdog_event_reg' = WatchdogWants
       /\ ecu_write_accepted' \in IF WatchdogWants THEN {FALSE} ELSE BOOLEAN
  ELSE /\ ecu_write_accepted' = FALSE
       /\ UNCHANGED write_was_watchdog_event_reg

(***************************************************************************)
(* What an observer of the ECU's port writes down on an edge: a request    *)
(* that the log is free for, an acknowledgement, and for a timeout how far *)
(* the log had come.                                                       *)
(***************************************************************************)
Count1(counts, d) == [counts EXCEPT ![d] = counts[d] + 1]

Observe(ecu_write_valid, ecu_decision_hash) ==
  /\ asked' = IF ecu_write_valid /\ ~write_busy THEN Count1(asked, ecu_decision_hash) ELSE asked
  /\ ackedWrites' =
       IF ecu_write_accepted' THEN Count1(ackedWrites, ecu_decision_hash) ELSE ackedWrites
  /\ chainAtTimeout' = IF timeout_event' THEN Len(current_chain_head') ELSE chainAtTimeout
  /\ busyAtTimeout' = IF timeout_event' THEN write_busy' ELSE busyAtTimeout

\* One edge with reset low, given the ECU's request and the watchdog's inputs.
TauClock(ecu_write_valid, ecu_decision_hash, heartbeat_valid, config_valid, timeout_cycles) ==
  LET arb_write_valid == WatchdogWants \/ ecu_write_valid IN
  /\ LogClock(arb_write_valid, ArbDecision(ecu_write_valid, ecu_decision_hash))
  /\ WatchdogClock(heartbeat_valid, config_valid, timeout_cycles)
  /\ Pending
  /\ Tag(arb_write_valid)
  /\ Observe(ecu_write_valid, ecu_decision_hash)

\* The ECU may request, beat and reconfigure as it likes, MaxWrites requests in all.
TauStep(heartbeat_valid) ==
  \E valid \in BOOLEAN, decision \in EcuDecisions, config \in BOOLEAN, t \in Timeouts :
    /\ Offer(valid)
    /\ TauClock(valid, decision, heartbeat_valid, config, t)

TauNext == TauReset \/ TauStep(TRUE) \/ TauStep(FALSE)

TauSpec == TauInit /\ [][TauNext]_tauVars

\* The clock runs and the hash core finishes what it starts.
TauFairSpec ==
  /\ TauSpec
  /\ WF_tauVars((TauStep(TRUE) \/ TauStep(FALSE)) /\ CoreProgress)

-----------------------------------------------------------------------------
(***************************************************************************)
(* Properties                                                              *)
(***************************************************************************)
TauTypeOK ==
  /\ LogTypeOK
  /\ WatchdogTypeOK
  /\ pending_watchdog_write \in BOOLEAN
  /\ ecu_write_accepted \in BOOLEAN
  /\ write_was_watchdog_event_reg \in BOOLEAN
  /\ asked \in [EcuDecisions -> Nat]
  /\ ackedWrites \in [EcuDecisions -> Nat]
  /\ chainAtTimeout \in Nat
  /\ busyAtTimeout \in BOOLEAN

SentinelAt(n) == current_chain_head[n][1] = Sentinel
EntriesOf(d) == {n \in 1 .. Written : current_chain_head[n][1] = d}
SentinelEntries == EntriesOf(Sentinel)
SentinelInProgress == state # "IDLE" /\ decision_hash_reg = Sentinel

(***************************************************************************)
(* A timeout is never lost between the watchdog and the chain: from the    *)
(* cycle it is raised it is waiting, being hashed, or in the chain, even   *)
(* when it falls on an edge on which the ECU's own write is taken,         *)
(* committed or reported.  And no sentinel is ever logged without one.     *)
(***************************************************************************)
TimeoutNeverLost ==
  ~ecu_alive <=> \/ WatchdogWants
                 \/ SentinelInProgress
                 \/ SentinelEntries # {}

(***************************************************************************)
(* The watchdog overtakes the ECU: of what is committed after a timeout,   *)
(* at most one entry, the write that was in progress, is not the sentinel  *)
(* ("a safety-critical event must not be left waiting", pqc_tau_core.sv:   *)
(* 14-16).                                                                 *)
(***************************************************************************)
WatchdogGoesFirst ==
  ~ecu_alive /\ Written >= chainAtTimeout + 2 =>
    SentinelAt(chainAtTimeout + 1) \/ SentinelAt(chainAtTimeout + 2)

(***************************************************************************)
(* Together: a timeout raised at any time, in the middle of any write, is  *)
(* on its way to the chain, and next but one at the latest.                *)
(***************************************************************************)
TimeoutReachesChain == TimeoutNeverLost /\ WatchdogGoesFirst

(***************************************************************************)
(* write_was_watchdog_event, sampled with write_done, tells the two kinds  *)
(* of entries apart, although it is latched when a write is taken and read *)
(* when it is committed, with other requests arriving in between.          *)
(***************************************************************************)
write_was_watchdog_event == write_was_watchdog_event_reg /\ write_done

FlagTellsSource ==
  write_done => (write_was_watchdog_event <=> SentinelAt(Written))

\* The entries of a decision: those of the chain, and the write in progress.
Taken(d) ==
  Cardinality(EntriesOf(d)) + (IF state # "IDLE" /\ decision_hash_reg = d THEN 1 ELSE 0)

(***************************************************************************)
(* The books of the ECU agree with the chain, decision by decision.  What  *)
(* it was told is taken is an entry; there is no entry it did not ask for, *)
(* on an edge on which the log was free; and a request made of a free log  *)
(* is an entry, or gave way to a sentinel.  ecu_write_accepted may be      *)
(* missing for an entry (its two drivers), so the first bound is one-way.  *)
(***************************************************************************)
EcuEntriesAreAsked ==
  \A d \in EcuDecisions :
    /\ ackedWrites[d] <= Taken(d)
    /\ Taken(d) <= asked[d]
    /\ asked[d] <= Taken(d) + Taken(Sentinel)

(***************************************************************************)
(* The books of the watchdog: no sentinel without a timeout.  However long *)
(* it stays unacknowledged, a timeout raised while a write was in progress *)
(* costs exactly one entry, and one that found the log free exactly two,   *)
(* though pqc_tau_core_tb.sv:108-111 and M4_TAU_001_STATUS.md:150 expect   *)
(* one: the pulse asks for the log and sets pending_watchdog_write on the  *)
(* same edge.                                                              *)
(***************************************************************************)
SentinelsAreDue ==
  LET due == IF ecu_alive THEN 0 ELSE IF busyAtTimeout THEN 1 ELSE 2
  IN  /\ Taken(Sentinel) <= due
      /\ ~WatchdogWants => Taken(Sentinel) = due

(***************************************************************************)
(* Every entry of the log has an owner who caused it: the flag of          *)
(* write_done names the right one, each of the ECU's entries was asked for *)
(* and none of its requests vanishes, and the sentinels are those the      *)
(* timeout accounts for.                                                   *)
(***************************************************************************)
EntriesAreAttributed ==
  /\ TauTypeOK
  /\ FlagTellsSource
  /\ EcuEntriesAreAsked
  /\ SentinelsAreDue

(***************************************************************************)
(* A timeout reaches the chain, unless the unit is reset, whatever the ECU *)
(* does ("does not depend on the ECU at all", pqc_tau_core.sv:7-12).       *)
(***************************************************************************)
TimeoutIsLogged == ~ecu_alive ~> (SentinelEntries # {} \/ ecu_alive)

-----------------------------------------------------------------------------
(***************************************************************************)
(* The TAU core with a history variable that says what an observer of the  *)
(* heartbeat line would say: for how many edges the line has been silent.  *)
(***************************************************************************)

VARIABLE silence        \* edges since the last heartbeat, up to MaxTimeout + 1

vars == <<tauVars, silence>>

Lower(a, b) == IF a < b THEN a ELSE b

MonitorInit == TauInit /\ silence = 0

MonitorReset == TauReset /\ silence' = 0

Beat == TauStep(TRUE) /\ silence' = 0

Silent == TauStep(FALSE) /\ silence' = Lower(silence + 1, MaxTimeout + 1)

MonitorNext == MonitorReset \/ Beat \/ Silent

(***************************************************************************)
(* The clock runs and the hash core finishes what it starts; whether the   *)
(* ECU beats, writes or resets is the environment's choice.                *)
(***************************************************************************)
MonitorSpec ==
  /\ MonitorInit
  /\ [][MonitorNext]_vars
  /\ WF_vars((Beat \/ Silent) /\ CoreProgress)

-----------------------------------------------------------------------------
(***************************************************************************)
(* The degraded state is entered exactly by a silence that has reached the *)
(* active threshold, with a timeout_event of one cycle, and only reset     *)
(* leaves it: neither heartbeats nor a larger threshold do                 *)
(* (pqc_tau_watchdog.sv:59-64).  A threshold raised or lowered in the      *)
(* middle of a silence is compared with the whole of it.                   *)
(***************************************************************************)
DegradedOnlyBySilence ==
  [][/\ ecu_alive => counter = silence /\ silence <= MaxTimeout
     /\ ecu_alive /\ ~ecu_alive' => silence >= active_timeout /\ silence' > 0
     /\ timeout_event' <=> ecu_alive /\ ~ecu_alive'
     /\ ~ecu_alive /\ ecu_alive' => counter' = 0 /\ timeout_count' = 0]_vars

(***************************************************************************)
(* From the heartbeat line to the chain: an ECU that stops beating for     *)
(* good is declared degraded, however the threshold is reconfigured, and   *)
(* a timeout, once raised, is in the chain some time later whatever the    *)
(* ECU does, unless the unit is reset ("does not depend on the ECU at      *)
(* all", pqc_tau_core.sv:7-12).                                            *)
(***************************************************************************)
SilenceIsLogged ==
  /\ <>[](silence > 0) => <>(~ecu_alive)
  /\ TimeoutIsLogged
=============================================================================
