------------------------------- MODULE NttPass -------------------------------
(***************************************************************************)
(* One transform in the decapsulation cores: load a polynomial into the    *)
(* NTT core, run its schedule entry by entry, read the result back.  The   *)
(* code writes these six states out for every transform (FWD, INV, INV_U,  *)
(* INV_V) with the transform's name in front of each state.                *)
(***************************************************************************)
EXTENDS KemTerms

VARIABLES
  state,    \* the core's FSM
  idx,      \* load_idx, sched_idx, read_idx
  drive,    \* ntt_start, ntt_mode with the entry's fields, ntt_load_*
  ntt       \* the NTT core: fsm, bank, stage_done, read_valid, read_data

IdleDrive == [start |-> FALSE, op |-> "ntt", entry |-> 0,
              load |-> FALSE, addr |-> 0, data |-> Undefined]
IdleNtt == [fsm |-> "IDLE", bank |-> Loaded(Undefined), stage_done |-> FALSE,
            read_valid |-> FALSE, read_data |-> Undefined]

\* All pulses low, load_valid included.
Low == drive' = [drive EXCEPT !.start = FALSE, !.load = FALSE]

\* The six states of each transform
FWD   == [load |-> "FWD_LOAD", setup |-> "FWD_SCHED_SETUP", start |-> "FWD_SCHED_START",
          wait |-> "FWD_SCHED_WAIT", read |-> "FWD_READ", fetched |-> "FWD_READ_WAIT"]
INV   == [load |-> "INV_LOAD", setup |-> "INV_SCHED_SETUP", start |-> "INV_SCHED_START",
          wait |-> "INV_SCHED_WAIT", read |-> "INV_READ", fetched |-> "INV_READ_WAIT"]
INV_U == [load |-> "INV_U_LOAD", setup |-> "INV_U_SCHED_SETUP", start |-> "INV_U_SCHED_START",
          wait |-> "INV_U_SCHED_WAIT", read |-> "INV_U_READ", fetched |-> "INV_U_READ_WAIT"]
INV_V == [load |-> "INV_V_LOAD", setup |-> "INV_V_SCHED_SETUP", start |-> "INV_V_SCHED_START",
          wait |-> "INV_V_SCHED_WAIT", read |-> "INV_V_READ", fetched |-> "INV_V_READ_WAIT"]

Load(p, f) ==
  /\ state = p.load
  /\ drive' = [drive EXCEPT !.start = FALSE, !.load = TRUE, !.addr = idx.load,
                            !.data = Coefficient("id", 0, f, idx.load)]
  /\ IF idx.load = Coeffs - 1 THEN state' = p.setup /\ idx' = [idx EXCEPT !.sched = 0]
     ELSE UNCHANGED state /\ idx' = [idx EXCEPT !.load = @ + 1]

SetUp(p, op) ==
  /\ state = p.setup /\ state' = p.start
  /\ drive' = [drive EXCEPT !.start = FALSE, !.load = FALSE, !.op = op, !.entry = idx.sched]
  /\ UNCHANGED idx

StartStage(p) ==
  /\ state = p.start /\ state' = p.wait
  /\ drive' = [drive EXCEPT !.start = TRUE, !.load = FALSE]
  /\ UNCHANGED idx

\* The next stage started as soon as the last one reports.
EndStageEager(p) ==
  /\ state = p.wait /\ ntt.stage_done
  /\ IF idx.sched = Entries - 1 THEN state' = p.read /\ idx' = [idx EXCEPT !.read = 0] /\ Low
     ELSE /\ UNCHANGED state /\ idx' = [idx EXCEPT !.sched = @ + 1]
          /\ drive' = [drive EXCEPT !.start = TRUE, !.entry = idx.sched + 1]
EndStage(p) ==
  /\ state = p.wait /\ ntt.stage_done /\ Low
  /\ IF idx.sched = Entries - 1 THEN state' = p.read /\ idx' = [idx EXCEPT !.read = 0]
     ELSE state' = p.setup /\ idx' = [idx EXCEPT !.sched = @ + 1]

Fetch(p) == state = p.read /\ state' = p.fetched /\ Low /\ UNCHANGED idx

\* The coefficient at idx.read has arrived: the core stores it.
Arrives(p) == state = p.fetched /\ ntt.read_valid

Take(p, next) ==
  /\ Arrives(p) /\ Low
  /\ IF idx.read = Coeffs - 1 THEN state' = next /\ UNCHANGED idx
     ELSE state' = p.read /\ idx' = [idx EXCEPT !.read = @ + 1]

Wait(p) ==
  /\ \/ state = p.wait /\ ~ntt.stage_done
     \/ state = p.fetched /\ ~ntt.read_valid
  /\ Low /\ UNCHANGED <<state, idx>>

\* The transform p of f with the schedule of op, then state next.
Pass(p, f, op, next) ==
  Load(p, f) \/ SetUp(p, op) \/ StartStage(p) \/ EndStage(p)
    \/ Fetch(p) \/ Take(p, next) \/ Wait(p)

-----------------------------------------------------------------------------
(***************************************************************************)
(* The NTT core: stage_done is high for two edges, a load writes whatever  *)
(* the core does, and a read is answered one edge later.  An edge with     *)
(* reset high keeps the memory, with some of the writes of a stage that is *)
(* cut off.                                                                *)
(***************************************************************************)
Written(memory) ==
  IF drive.load THEN [memory EXCEPT ![drive.addr] = drive.data] ELSE memory

NttEdge(reading, addr, go) ==
  LET ends  == ntt.fsm = "RUN" /\ go
      after == IF ends THEN Stage(drive.op, drive.entry, ntt.bank) ELSE ntt.bank
  IN  ntt' = [fsm        |-> CASE ntt.fsm = "IDLE" -> IF drive.start THEN "RUN" ELSE "IDLE"
                               [] ntt.fsm = "RUN"  -> IF go THEN "DONE" ELSE "RUN"
                               [] OTHER            -> "IDLE",
              bank       |-> Written(after),
              stage_done |-> ends \/ ntt.fsm = "DONE",
              read_valid |-> reading,
              read_data  |-> IF reading THEN ntt.bank[addr] ELSE ntt.read_data]

NttReset ==
  \E cut \in IF ntt.fsm = "RUN" THEN SUBSET Indices ELSE {{}} :
    LET staged == Stage(drive.op, drive.entry, ntt.bank)
        partly == [c \in Indices |-> IF c \in cut THEN staged[c] ELSE ntt.bank[c]]
    IN  ntt' = [ntt EXCEPT !.fsm = "IDLE", !.bank = Written(partly),
                           !.stage_done = FALSE, !.read_valid = FALSE]
=============================================================================
