---------------------------- MODULE TauIntegrated ----------------------------
(***************************************************************************)
(* The integrated Trust Anchor Unit, hardware/pqc-rtl/fpga/tau/            *)
(* pqc_tau_integrated_wrapper.sv: the ECU starts ML-KEM operations over    *)
(* the bus, a watchdog interrupts the ones that run when the ECU falls     *)
(* silent, and an arbiter logs what happens.                               *)
(*                                                                         *)
(* One step is one clock edge.  The audit log is used through the promise  *)
(* it keeps (Journal, which AuditLog is proved to implement).  The three   *)
(* operations are their top FSMs (pqc_mlkem_keygen_core.sv, _decaps_top.sv *)
(* and _encaps_top.sv): a start is seen only when the FSM idles, a run     *)
(* takes any number of edges and ends with a one-cycle done.               *)
(***************************************************************************)
EXTENDS Watchdog, Sequences, FiniteSets, FiniteSetsExt

CONSTANTS MaxStarts,    \* bound on the STARTs between two resets
          UsedOps,      \* the operations the ECU starts
          Configs,      \* the thresholds the ECU configures
          Discipline    \* when the ECU writes START: "any", "busy" or "done"

ASSUME EcuAssumption == MaxStarts \in Nat /\ Configs \subseteq Timeouts
ASSUME DisciplineAssumption == Discipline \in {"any", "busy", "done"}

Priority == <<"keygen", "decaps", "encaps">>
Ops == {Priority[i] : i \in 1 .. 3}
Before(p, q) == \E i, j \in 1 .. 3 : i < j /\ Priority[i] = p /\ Priority[j] = q
Above(op) == {p \in Ops : Before(p, op)}

Kinds  == {"STARTED", "COMPLETED", "INTERRUPTED"}
Events == Ops \X Kinds              \* the nine fixed event hashes
None   == <<"NONE">>

Start(op) == <<"START", op>>
BusWrites == {None, <<"HEARTBEAT">>} \cup {Start(op) : op \in Ops}
               \cup {<<"CONFIG", t>> : t \in Configs}

VARIABLES
  entries, inflight,       \* the audit log
  bus,                     \* the write decoded on the last edge, as one-cycle pulses
  core,                    \* the FSM of each operation: "IDLE" or "RUN"
  done,                    \* its one-cycle done
  busy, done_sticky,       \* the status registers of each operation
  event,                   \* STARTED or COMPLETED while it waits for the log
  interrupt,               \* pending_watchdog_interrupt, _decaps, _encaps
  happened,                \* history: how often each event happened
  ignored,                 \* history: a START met a running core
  entriesAtTimeout         \* history: length of the log at the timeout

unitVars == <<entries, inflight, bus, core, done, busy, done_sticky, event, interrupt>>
history  == <<happened, ignored, entriesAtTimeout>>
intVars  == <<watchdogVars, unitVars, history>>

Log == INSTANCE Journal WITH Decisions <- Events

-----------------------------------------------------------------------------
IntInit ==
  /\ WatchdogInit
  /\ Log!Init
  /\ bus = None
  /\ core = [op \in Ops |-> "IDLE"]
  /\ done = [op \in Ops |-> FALSE]
  /\ busy = [op \in Ops |-> FALSE]
  /\ done_sticky = [op \in Ops |-> FALSE]
  /\ event = [op \in Ops |-> "none"]
  /\ interrupt = [op \in Ops |-> FALSE]
  /\ happened = [e \in Events |-> 0]
  /\ ignored = [op \in Ops |-> FALSE]
  /\ entriesAtTimeout = 0

IntReset ==
  /\ WatchdogReset
  /\ Log!Reset
  /\ bus' = None
  /\ core' = [op \in Ops |-> "IDLE"]
  /\ done' = [op \in Ops |-> FALSE]
  /\ busy' = [op \in Ops |-> FALSE]
  /\ done_sticky' = [op \in Ops |-> FALSE]
  /\ event' = [op \in Ops |-> "none"]
  /\ interrupt' = [op \in Ops |-> FALSE]
  /\ happened' = [e \in Events |-> 0]
  /\ ignored' = [op \in Ops |-> FALSE]
  /\ entriesAtTimeout' = 0

-----------------------------------------------------------------------------
\* An operation's FSM, when finishing says whether a run ends on this edge.
CoreOf(op, finishing) ==
  IF core[op] = "IDLE"
  THEN IF bus = Start(op) THEN "RUN" ELSE "IDLE"
  ELSE IF finishing THEN "IDLE" ELSE "RUN"

Cores(finishing) ==
  /\ core' = [op \in Ops |-> CoreOf(op, op \in finishing)]
  /\ done' = [op \in Ops |-> op \in finishing]

\* The interrupted operation: the timeout finds it busy.
Interrupts(op) == timeout_event /\ busy[op]

Busy ==
  busy' = [op \in Ops |-> /\ bus = Start(op) \/ busy[op]
                          /\ ~done[op]
                          /\ ~Interrupts(op)]

StickyIfBusy(write) ==
  done_sticky' = [op \in Ops |-> /\ (done[op] /\ busy[op]) \/ done_sticky[op]
                                 /\ write # Start(op)]
\* A START clears the flag even on the edge on which a done would set it.
StickyNotCleared(write) ==
  done_sticky' = [op \in Ops |-> done[op] \/ done_sticky[op]]
Sticky(write) ==
  done_sticky' = [op \in Ops |-> (done[op] \/ done_sticky[op]) /\ write # Start(op)]

-----------------------------------------------------------------------------
(***************************************************************************)
(* The arbiter: interrupts before events, keygen before decaps before      *)
(* encaps.  Each request has its own condition for having been taken.      *)
(***************************************************************************)
LogIdle == inflight = None

InterruptTakenAny(op) == LogIdle
InterruptTaken(op) == LogIdle /\ \A p \in Above(op) : ~interrupt[p]

NoInterrupt == \A op \in Ops : ~interrupt[op]

EventTaken(op) ==
  LogIdle /\ NoInterrupt /\ \A p \in Above(op) : event[p] = "none"

Interrupt ==
  interrupt' = [op \in Ops |-> Interrupts(op) \/ (interrupt[op] /\ ~InterruptTaken(op))]

Event ==
  event' = [op \in Ops |-> CASE bus = Start(op) -> "STARTED"
                             [] bus # Start(op) /\ done[op] -> "COMPLETED"
                             [] OTHER -> IF EventTaken(op) THEN "none" ELSE event[op]]

\* audit_decision_hash_buf
Interrupted == {op \in Ops : interrupt[op]}
Waiting == {op \in Ops : event[op] # "none"}
First(ops) == CHOOSE op \in ops : \A p \in ops : ~Before(p, op)

Decision ==
  IF Interrupted # {} THEN <<First(Interrupted), "INTERRUPTED">>
  ELSE <<First(Waiting), event[First(Waiting)]>>

LogWanted == Interrupted \cup Waiting # {}

AuditTakes == LogIdle /\ LogWanted /\ Log!Take(Decision)
AuditWaits == (LogIdle => ~LogWanted) /\ UNCHANGED <<entries, inflight>>
Audit == AuditTakes \/ AuditWaits \/ Log!Record

-----------------------------------------------------------------------------
Happens ==
  happened' = [e \in Events |->
    happened[e] + (IF \/ e[2] = "STARTED" /\ bus = Start(e[1])
                      \/ e[2] = "COMPLETED" /\ done[e[1]]
                      \/ e[2] = "INTERRUPTED" /\ Interrupts(e[1]) THEN 1 ELSE 0)]

Ignores ==
  ignored' = [op \in Ops |-> IF bus = Start(op) THEN core[op] # "IDLE" ELSE ignored[op]]

Starts == MapThenSumSet(LAMBDA op : happened[<<op, "STARTED">>], Ops)
            + (IF bus[1] = "START" THEN 1 ELSE 0)

\* The bus writes of an ECU of the given discipline.
Allowed(op) ==
  /\ op \in UsedOps
  /\ Starts < MaxStarts
  /\ Discipline = "busy" => ~busy[op] /\ bus # Start(op)
  /\ Discipline = "done" =>
       done_sticky[op] \/ (happened[<<op, "STARTED">>] = 0 /\ bus # Start(op))

\* One edge with reset low.
IntClock(write, finishing) ==
  /\ WatchdogClock(bus = <<"HEARTBEAT">>, bus[1] = "CONFIG",
                   IF bus[1] = "CONFIG" THEN bus[2] ELSE active_timeout)
  /\ Cores(finishing)
  /\ Busy
  /\ Sticky(write)
  /\ Interrupt
  /\ Event
  /\ Audit
  /\ bus' = write
  /\ Happens
  /\ Ignores
  /\ entriesAtTimeout' = IF timeout_event' THEN Len(entries') ELSE entriesAtTimeout

(***************************************************************************)
(* The runs that may end.  A run takes thousands of edges and an entry one *)
(* SHA3-256, so the entry of a start is written before its run ends; with  *)
(* an ECU that starts an operation anew during a run this says nothing.    *)
(***************************************************************************)
Outlasts(op) ==
  Discipline = "done" => event[op] # "STARTED" /\ inflight # <<op, "STARTED">>
Running == {op \in Ops : core[op] = "RUN" /\ Outlasts(op)}

EcuWrites(write) == write[1] = "START" => Allowed(write[2])

IntStep ==
  \E write \in BusWrites, finishing \in SUBSET Running :
    EcuWrites(write) /\ IntClock(write, finishing)

IntNext == IntReset \/ IntStep

IntSpec == IntInit /\ [][IntNext]_intVars

(***************************************************************************)
(* The clock runs, the log records what it has taken and a run ends; no    *)
(* heartbeat, START or reset is promised.                                  *)
(***************************************************************************)
Ends(op) == \E write \in BusWrites, finishing \in SUBSET Running :
              op \in finishing /\ EcuWrites(write) /\ IntClock(write, finishing)

IntFairSpec ==
  /\ IntSpec
  /\ WF_intVars(IntStep)
  /\ WF_intVars(inflight # None /\ IntStep /\ inflight' = None)
  /\ \A op \in Ops : WF_intVars(Ends(op))

-----------------------------------------------------------------------------
(***************************************************************************)
(* Properties                                                              *)
(***************************************************************************)
IntTypeOK ==
  /\ WatchdogTypeOK
  /\ entries \in Seq(Events)
  /\ inflight \in Events \cup {None}
  /\ bus \in BusWrites
  /\ core \in [Ops -> {"IDLE", "RUN"}]
  /\ done \in [Ops -> BOOLEAN]
  /\ busy \in [Ops -> BOOLEAN]
  /\ done_sticky \in [Ops -> BOOLEAN]
  /\ event \in [Ops -> {"none", "STARTED", "COMPLETED"}]
  /\ interrupt \in [Ops -> BOOLEAN]
  /\ happened \in [Events -> Nat]
  /\ ignored \in [Ops -> BOOLEAN]
  /\ entriesAtTimeout \in Nat

\* How often the event is in the log, being logged, or waiting for it.
Logged(e) == Cardinality({n \in 1 .. Len(entries) : entries[n] = e})
Waits(e) == IF e[2] = "INTERRUPTED" THEN interrupt[e[1]] ELSE event[e[1]] = e[2]
Known(e) == Logged(e) + (IF inflight = e THEN 1 ELSE 0) + (IF Waits(e) THEN 1 ELSE 0)

(***************************************************************************)
(* An interrupted operation is logged exactly once, with six requesters    *)
(* contending for one port: nothing is dropped when several operations are *)
(* interrupted on one edge, and nothing is logged twice or without a cause *)
(* ("this is logged ALWAYS", pqc_tau_integrated_wrapper.sv:154-158).       *)
(***************************************************************************)
InterruptsLoggedOnce ==
  /\ IntTypeOK
  /\ \A op \in Ops :
       LET e == <<op, "INTERRUPTED">> IN Known(e) = happened[e] /\ happened[e] <= 1

(***************************************************************************)
(* The interrupts of a timeout overtake every waiting event: after the     *)
(* timeout at most one other entry, the one in progress, goes before them, *)
(* and they come in the order of priority.                                 *)
(***************************************************************************)
InterruptEntries == {n \in 1 .. Len(entries) : entries[n][2] = "INTERRUPTED"}

InterruptsFirst ==
  /\ \A m, n \in InterruptEntries : m < n => Before(entries[m][1], entries[n][1])
  /\ (\E op \in Ops : interrupt[op]) =>
       Len(entries) <= entriesAtTimeout + 1 + Cardinality(InterruptEntries)

(***************************************************************************)
(* The log never holds an event that did not happen: a request that stays  *)
(* up while the log is busy is taken once.                                 *)
(***************************************************************************)
NothingInvented == \A e \in Events : Known(e) <= happened[e]

(***************************************************************************)
(* Together: whatever the ECU starts, what the chain says of interrupts is *)
(* complete and comes first, and what it says of runs is true.             *)
(***************************************************************************)
LogTellsTheTruth == InterruptsLoggedOnce /\ InterruptsFirst /\ NothingInvented

(***************************************************************************)
(* To an ECU that waits for done before the next START, the status         *)
(* register never reports a result that is still being overwritten, nor    *)
(* one that belongs to an earlier START, although the flag, the core and   *)
(* the bus change on three different edges.                                *)
(***************************************************************************)
DoneMeansDone ==
  \A op \in Ops : done_sticky[op] => core[op] = "IDLE" /\ ~ignored[op]

(***************************************************************************)
(* An interrupt reaches the log, unless the unit is reset, whatever the    *)
(* ECU starts in the meantime.                                             *)
(***************************************************************************)
InterruptReachesLog ==
  \A op \in Ops :
    LET e == <<op, "INTERRUPTED">> IN interrupt[op] ~> (Logged(e) > 0 \/ happened[e] = 0)

(***************************************************************************)
(* Every START of an ECU that waits for done is answered by done, unless   *)
(* the unit is reset: no START is swallowed by a run still in progress,    *)
(* although a timeout lowers busy while the core runs on.                  *)
(***************************************************************************)
StartIsAnswered ==
  \A op \in Ops : (bus = Start(op)) ~> (done_sticky[op] \/ happened[<<op, "STARTED">>] = 0)

(***************************************************************************)
(* Neither the ECU nor the auditor waits for ever: of a START the ECU      *)
(* learns by done, of an interrupt the auditor by its entry.               *)
(***************************************************************************)
NobodyIsLeftWaiting == StartIsAnswered /\ InterruptReachesLog

(***************************************************************************)
(* What the status document says of a run the watchdog cuts off: it is     *)
(* logged as interrupted and not as completed                              *)
(* (M4_TAU_001_INTEGRATION_STATUS.md:76-78, 101-103).                      *)
(***************************************************************************)
InterruptedNeverCompletes ==
  \A op \in Ops, m, n \in 1 .. Len(entries) :
    m < n /\ entries[m] = <<op, "INTERRUPTED">> /\ entries[n] = <<op, "COMPLETED">> =>
      \E k \in m .. n : entries[k] = <<op, "STARTED">>
=============================================================================
