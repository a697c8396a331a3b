------------------------- MODULE MlKemEncrypt_proofs -------------------------
(***************************************************************************)
(* Lemmas about the encryption core, for any driver of its inputs, every   *)
(* size of a polynomial, every length of the schedule and every latency.   *)
(* MlKem_proofs uses them for both of the operations the core is part of.  *)
(***************************************************************************)
EXTENDS MlKemEncrypt, TLAPS

(***************************************************************************)
(* The calls.  A unit runs only in its own wait state, where it has been   *)
(* started, runs, or is done; everywhere else it rests.                    *)
(***************************************************************************)
StartOf(u) == CASE u = "samplentt" -> "START_SNTT" [] u = "cbd1" -> "START_CBD1"
                [] u = "cbd2"      -> "START_CBD2" [] OTHER      -> "START_SHAKE256"
WaitOf(u)  == CASE u = "samplentt" -> "WAIT_SNTT"  [] u = "cbd1" -> "WAIT_CBD1"
                [] u = "cbd2"      -> "WAIT_CBD2"  [] OTHER      -> "WAIT_SHAKE256"

Resting(u) == b_call # u /\ b_unit[u].fsm = "IDLE" /\ ~b_unit[u].done
Called(u)  == \/ b_call = u /\ b_unit[u].fsm = "IDLE" /\ ~b_unit[u].done
              \/ b_call # u /\ b_unit[u].fsm \in {"ABSORB", "SQUEEZE"} /\ ~b_unit[u].done
              \/ b_call # u /\ b_unit[u].fsm = "IDLE" /\ b_unit[u].done

IsUnit(r) == r = [fsm |-> r.fsm, out |-> r.out, done |-> r.done] /\ r.done \in BOOLEAN

CallInv ==
  /\ DOMAIN b_in = Units
  /\ \A u \in Units : IsUnit(b_unit[u])
  /\ \A u \in Units : IF b_state = WaitOf(u) THEN Called(u) ELSE Resting(u)

\* What an edge of the FSM does to unit u, in terms of its two states.
FsmToUnit(u) ==
  /\ DOMAIN b_in' = Units
  /\ b_state = StartOf(u) => b_call' = u /\ b_state' = WaitOf(u)
  /\ b_state # StartOf(u) => b_call' # u /\ b_in'[u] = b_in[u]
  /\ b_state = WaitOf(u) => b_in' = b_in /\ (b_state' = b_state <=> ~b_unit[u].done)
  /\ b_state \notin {StartOf(u), WaitOf(u)} => b_state' # WaitOf(u)

\* The states of the transforms are none of the above.
Passing == {"FWD_LOAD", "FWD_SCHED_SETUP", "FWD_SCHED_START", "FWD_SCHED_WAIT", "FWD_READ",
            "FWD_READ_WAIT", "INV_U_LOAD", "INV_U_SCHED_SETUP", "INV_U_SCHED_START",
            "INV_U_SCHED_WAIT", "INV_U_READ", "INV_U_READ_WAIT", "INV_V_LOAD",
            "INV_V_SCHED_SETUP", "INV_V_SCHED_START", "INV_V_SCHED_WAIT", "INV_V_READ",
            "INV_V_READ_WAIT"}

LEMMA PassKeeps ==
  ASSUME Transform \/ InvertU \/ InvertV
  PROVE  /\ b_state \in Passing /\ b_state' \in Passing \cup {"FWD_NEXT", "INV_U_SCALE", "INV_V_SCALE"}
         /\ Quiet
<1>1. CASE Transform
  BY <1>1 DEF Transform, Passing, Quiet, Forward!Pass, Forward!Load, Forward!SetUp,
              Forward!StartStage, Forward!EndStage, Forward!Fetch, Forward!Take, Forward!Wait,
              Forward!Arrives, Forward!FWD
<1>2. CASE InvertU
  BY <1>2 DEF InvertU, Passing, Quiet, Inverse!Pass, Inverse!Load, Inverse!SetUp,
              Inverse!StartStage, Inverse!EndStage, Inverse!Fetch, Inverse!Take, Inverse!Wait,
              Inverse!Arrives, Inverse!INV_U
<1>3. CASE InvertV
  BY <1>3 DEF InvertV, Passing, Quiet, Inverse!Pass, Inverse!Load, Inverse!SetUp,
              Inverse!StartStage, Inverse!EndStage, Inverse!Fetch, Inverse!Take, Inverse!Wait,
              Inverse!Arrives, Inverse!INV_V
<1> QED
  BY <1>1, <1>2, <1>3

LEMMA FsmUnit ==
  ASSUME Fsm, DOMAIN b_in = Units, NEW u \in Units
  PROVE  FsmToUnit(u)
<1> USE DEF FsmToUnit, StartOf, WaitOf, Units, Stores, Quiet
<1>1. CASE Begin \/ Complete
  BY <1>1 DEF Begin, Complete
<1>2. CASE SampleMatrix
  BY <1>2 DEF SampleMatrix, Calls
<1>3. CASE SampleVectors \/ SampleLast
  BY <1>3 DEF SampleVectors, SampleLast, Calls
<1>4. CASE Transform \/ InvertU \/ InvertV
  BY <1>4, PassKeeps DEF Passing
<1>5. CASE NextTransform \/ FirstInverse \/ NextInverse
  BY <1>5 DEF NextTransform, FirstInverse, NextInverse
<1>6. CASE MultiplyMatrix
  BY <1>6 DEF MultiplyMatrix, Adds
<1>7. CASE AddError \/ AddMessage
  BY <1>7 DEF AddError, AddMessage, Adds
<1>8. CASE DecodeMessage
  BY <1>8 DEF DecodeMessage
<1>9. CASE EncodeCiphertext
  BY <1>9 DEF EncodeCiphertext
<1>10. CASE SelectSecret
  BY <1>10 DEF SelectSecret, Calls
<1>11. CASE Waiting
  BY <1>11 DEF Waiting
<1> QED
  BY <1>1, <1>2, <1>3, <1>4, <1>5, <1>6, <1>7, <1>8, <1>9, <1>10, <1>11 DEF Fsm

LEMMA UnitStep ==
  ASSUME CallInv, NEW go \in BOOLEAN, Clock(go), NEW u \in Units
  PROVE  /\ IsUnit(b_unit'[u])
         /\ (IF b_state = WaitOf(u) THEN Called(u) ELSE Resting(u))'
<1>1. FsmToUnit(u)
  BY FsmUnit DEF Clock, CallInv
<1> DEFINE r == b_unit[u]  s == b_unit'[u]
<1>2. /\ IsUnit(s)
      /\ r.fsm = "IDLE" => s.fsm = (IF b_call = u THEN "ABSORB" ELSE "IDLE") /\ ~s.done
      /\ r.fsm = "ABSORB" => s.fsm = (IF go THEN "SQUEEZE" ELSE "ABSORB") /\ s.done = r.done
      /\ r.fsm = "SQUEEZE" => IF go THEN s.fsm = "IDLE" /\ s.done ELSE s = r
  <2>1. PICK x : s = UnitAfter(r, b_call = u, x, go)
    BY DEF Clock, UnitsEdge
  <2>2. IsUnit(r)
    BY DEF CallInv
  <2> HIDE DEF r, s
  <2> QED
    BY <2>1, <2>2 DEF IsUnit, UnitAfter
<1>3. IF b_state = WaitOf(u) THEN Called(u) ELSE Resting(u)
  BY DEF CallInv
<1>4. StartOf(u) # WaitOf(u) /\ WaitOf(u)' = WaitOf(u)
  BY DEF StartOf, WaitOf, Units
<1>5. CASE b_state = WaitOf(u)
  <2>0. b_call' # u
    BY <1>1, <1>4, <1>5 DEF FsmToUnit
  <2>1. CASE b_call = u /\ r.fsm = "IDLE" /\ ~r.done
    BY <1>1, <1>2, <1>4, <1>5, <2>0, <2>1 DEF FsmToUnit, Called
  <2>2. CASE b_call # u /\ r.fsm \in {"ABSORB", "SQUEEZE"} /\ ~r.done
    BY <1>1, <1>2, <1>4, <1>5, <2>0, <2>2 DEF FsmToUnit, Called
  <2>3. CASE b_call # u /\ r.fsm = "IDLE" /\ r.done
    BY <1>1, <1>2, <1>4, <1>5, <2>0, <2>3 DEF FsmToUnit, Resting
  <2> QED
    BY <1>2, <1>3, <1>5, <2>1, <2>2, <2>3 DEF Called
<1>6. CASE b_state # WaitOf(u)
  BY <1>1, <1>2, <1>3, <1>4, <1>6 DEF FsmToUnit, Called, Resting
<1> QED
  BY <1>5, <1>6

LEMMA CallStep ==
  ASSUME CallInv, NEW go \in BOOLEAN, Clock(go)
  PROVE  CallInv'
<1>1. DOMAIN b_in' = Units
  <2>1. "cbd1" \in Units
    BY DEF Units
  <2> QED
    BY <2>1, FsmUnit DEF FsmToUnit, Clock, CallInv
<1> QED
  BY <1>1, UnitStep DEF CallInv

-----------------------------------------------------------------------------
(***************************************************************************)
(* The NTT core runs only in the wait states of the schedules; its second  *)
(* done edge falls on the state after; and nothing is loaded from the      *)
(* set-up to the end of a stage.                                           *)
(***************************************************************************)
Setups == {"FWD_SCHED_SETUP", "INV_U_SCHED_SETUP", "INV_V_SCHED_SETUP"}
Starts == {"FWD_SCHED_START", "INV_U_SCHED_START", "INV_V_SCHED_START"}
Waits  == {"FWD_SCHED_WAIT", "INV_U_SCHED_WAIT", "INV_V_SCHED_WAIT"}
Reads  == {"FWD_READ", "INV_U_READ", "INV_V_READ"}

StageInv ==
  /\ {"start", "load"} \subseteq DOMAIN b_drive
  /\ {"fsm", "stage_done"} \subseteq DOMAIN b_ntt
  /\ b_state \in Waits => \/ b_drive.start /\ b_ntt.fsm = "IDLE" /\ ~b_ntt.stage_done
                          \/ ~b_drive.start /\ b_ntt.fsm = "RUN" /\ ~b_ntt.stage_done
                          \/ ~b_drive.start /\ b_ntt.fsm = "DONE" /\ b_ntt.stage_done
  /\ b_state \notin Waits =>
       /\ ~b_drive.start /\ b_ntt.fsm = "IDLE"
       /\ b_ntt.stage_done => b_state \in Setups \cup Reads
  /\ b_state \in Starts \cup Waits => ~b_drive.load

\* What an edge of the FSM does to the NTT core.
FsmToStage ==
  /\ DOMAIN b_drive' = DOMAIN b_drive
  /\ b_state \in Starts => b_drive'.start /\ b_state' \in Waits /\ ~b_drive'.load
  /\ b_state \notin Starts => ~b_drive'.start
  /\ b_state \in Waits =>
       /\ ~b_drive'.load
       /\ IF b_ntt.stage_done THEN b_state' \in Setups \cup Reads ELSE b_state' = b_state
  /\ b_state \notin Starts \cup Waits => b_state' \notin Waits
  /\ b_state \in Setups => ~b_drive'.load
  /\ b_state \notin Setups => b_state' \notin Starts

LEMMA FsmStage ==
  ASSUME Fsm, {"start", "load"} \subseteq DOMAIN b_drive
  PROVE  FsmToStage
<1> USE DEF FsmToStage, Stores, Setups, Starts, Waits, Reads, Forward!Low
<1>1. CASE Begin \/ Complete
  BY <1>1 DEF Begin, Complete
<1>2. CASE SampleMatrix
  BY <1>2 DEF SampleMatrix, Calls
<1>3. CASE SampleVectors \/ SampleLast
  BY <1>3 DEF SampleVectors, SampleLast, Calls
<1>4. CASE Transform
  BY <1>4 DEF Transform, Forward!Pass, Forward!Load, Forward!SetUp,
              Forward!StartStage, Forward!EndStage, Forward!Fetch, Forward!Take, Forward!Wait,
              Forward!Arrives, Forward!FWD
<1>5. CASE InvertU
  BY <1>5 DEF InvertU, Inverse!Low, Inverse!Pass, Inverse!Load, Inverse!SetUp,
              Inverse!StartStage, Inverse!EndStage, Inverse!Fetch, Inverse!Take, Inverse!Wait,
              Inverse!Arrives, Inverse!INV_U
<1>6. CASE InvertV
  BY <1>6 DEF InvertV, Inverse!Low, Inverse!Pass, Inverse!Load, Inverse!SetUp,
              Inverse!StartStage, Inverse!EndStage, Inverse!Fetch, Inverse!Take, Inverse!Wait,
              Inverse!Arrives, Inverse!INV_V
<1>7. CASE NextTransform \/ FirstInverse \/ NextInverse
  BY <1>7 DEF NextTransform, FirstInverse, NextInverse
<1>8. CASE MultiplyMatrix
  BY <1>8 DEF MultiplyMatrix, Adds
<1>9. CASE AddError \/ AddMessage
  BY <1>9 DEF AddError, AddMessage, Adds
<1>10. CASE DecodeMessage
  BY <1>10 DEF DecodeMessage
<1>11. CASE EncodeCiphertext
  BY <1>11 DEF EncodeCiphertext
<1>12. CASE SelectSecret
  BY <1>12 DEF SelectSecret, Calls
<1>13. CASE Waiting
  BY <1>13 DEF Waiting
<1> QED
  BY <1>1, <1>2, <1>3, <1>4, <1>5, <1>6, <1>7, <1>8, <1>9, <1>10, <1>11, <1>12, <1>13 DEF Fsm

LEMMA StageStep ==
  ASSUME StageInv, NEW go \in BOOLEAN, Clock(go)
  PROVE  StageInv'
<1>1. FsmToStage
  BY FsmStage DEF Clock, StageInv
<1>2. /\ {"fsm", "stage_done"} \subseteq DOMAIN b_ntt'
      /\ b_ntt'.fsm = CASE b_ntt.fsm = "IDLE" -> IF b_drive.start THEN "RUN" ELSE "IDLE"
                        [] b_ntt.fsm = "RUN"  -> IF go THEN "DONE" ELSE "RUN"
                        [] OTHER              -> "IDLE"
      /\ b_ntt'.stage_done = ((b_ntt.fsm = "RUN" /\ go) \/ b_ntt.fsm = "DONE")
  BY DEF Clock, Forward!NttEdge
<1>3. CASE b_state \in Waits
  BY <1>1, <1>2, <1>3 DEF StageInv, FsmToStage, Setups, Starts, Waits, Reads
<1>4. CASE b_state \notin Waits
  BY <1>1, <1>2, <1>4 DEF StageInv, FsmToStage
<1> QED
  BY <1>3, <1>4

-----------------------------------------------------------------------------
RestInv == CallInv /\ StageInv

LEMMA RestInit == Init => RestInv
<1> SUFFICES ASSUME Init PROVE RestInv
  OBVIOUS
<1>1. CallInv
  <2>1. DOMAIN b_in = Units
    BY DEF Init
  <2>2. ASSUME NEW u \in Units PROVE IsUnit(b_unit[u]) /\ Resting(u) /\ b_state # WaitOf(u)
    BY <2>2 DEF Init, Resting, WaitOf, Units, IdleUnit, IsUnit
  <2> QED
    BY <2>1, <2>2 DEF CallInv
<1>2. StageInv
  BY DEF Init, StageInv, Forward!IdleDrive, Forward!IdleNtt, Starts, Waits
<1> QED
  BY <1>1, <1>2 DEF RestInv

LEMMA RestStep ==
  ASSUME RestInv, Reset \/ \E go \in BOOLEAN : Clock(go)
  PROVE  RestInv'
<1>1. CASE Reset
  <2>1. CallInv'
    <3>1. DOMAIN b_in' = Units
      BY <1>1 DEF RestInv, CallInv, Reset, Quiet
    <3>2. ASSUME NEW u \in Units
          PROVE  IsUnit(b_unit'[u]) /\ Resting(u)' /\ (b_state # WaitOf(u))'
      <4>1. IsUnit(b_unit[u]) /\ b_unit'[u] = UnitReset(b_unit[u]) /\ u # "none"
        BY <1>1 DEF RestInv, CallInv, Reset, Units
      <4>2. IsUnit(b_unit'[u]) /\ b_unit'[u].fsm = "IDLE" /\ ~b_unit'[u].done
        BY <4>1 DEF UnitReset, IsUnit
      <4> QED
        BY <1>1, <4>1, <4>2 DEF Reset, Quiet, Resting, WaitOf, Units
    <3> QED
      BY <3>1, <3>2 DEF CallInv
  <2>2. StageInv'
    <3>1. b_drive' = [b_drive EXCEPT !.start = FALSE, !.load = FALSE] /\ b_state' = "IDLE"
      BY <1>1 DEF Reset, Forward!Low
    <3>2. PICK bank : b_ntt' = [b_ntt EXCEPT !.fsm = "IDLE", !.bank = bank,
                                             !.stage_done = FALSE, !.read_valid = FALSE]
      BY <1>1 DEF Reset, Forward!NttReset
    <3>3. {"fsm", "stage_done"} \subseteq DOMAIN b_ntt
      BY DEF RestInv, StageInv
    <3> QED
      BY <3>1, <3>2, <3>3 DEF RestInv, StageInv, Starts, Waits
  <2> QED
    BY <2>1, <2>2 DEF RestInv
<1> QED
  BY <1>1, CallStep, StageStep DEF RestInv

\* In a step that starts where the calls are in order, nothing is disturbed.
LEMMA StepInOrder ==
  ASSUME RestInv, Reset \/ \E go \in BOOLEAN : Clock(go)
  PROVE  AtRest
<1>1. ASSUME NEW u \in Units
      PROVE  /\ b_call = u => b_unit[u].fsm = "IDLE"
             /\ b_unit[u].fsm # "IDLE" => b_in'[u] = b_in[u]
  <2>1. b_call = u => b_unit[u].fsm = "IDLE"
    BY <1>1 DEF RestInv, CallInv, Called, Resting
  <2>2. b_unit[u].fsm # "IDLE" => b_state = WaitOf(u)
    BY <1>1 DEF RestInv, CallInv, Resting
  <2>3. CASE Reset
    BY <2>1, <2>3 DEF Reset, Quiet
  <2>4. ASSUME NEW go \in BOOLEAN, Clock(go), b_state = WaitOf(u) PROVE b_in' = b_in
    BY <1>1, <2>4, FsmUnit DEF FsmToUnit, Clock, RestInv, CallInv
  <2> QED
    BY <2>1, <2>2, <2>3, <2>4
<1>2. /\ b_drive.start => b_ntt.fsm = "IDLE" /\ ~b_ntt.stage_done
      /\ b_ntt.fsm # "IDLE" => ~b_drive.load
  BY DEF RestInv, StageInv
<1> QED
  BY <1>1, <1>2 DEF AtRest

-----------------------------------------------------------------------------
(***************************************************************************)
(* One transform, for any schedule p of six states: loaded, taken through  *)
(* the schedule entry by entry and read back, the polynomial f becomes     *)
(* op(f) in dest.  PassInv is what holds on the way, whatever the memory   *)
(* held before and however long an entry takes.                            *)
(***************************************************************************)
Mem(op, e, f) == IF e = 0 THEN Loaded(f) ELSE Poly(op, e, f)
Pending(drive, bank) ==
  IF drive.load THEN [bank EXCEPT ![drive.addr] = drive.data] ELSE bank

\* One transform as the values before (s, idx, drive, ntt) and after a step.
PassMoves(p, f, op, next, s, idx, drive, ntt, s1, idx1, drive1) ==
  \/ /\ s = p.load
     /\ drive1 = [drive EXCEPT !.start = FALSE, !.load = TRUE, !.addr = idx.load,
                               !.data = Coefficient("id", 0, f, idx.load)]
     /\ IF idx.load = Coeffs - 1 THEN s1 = p.setup /\ idx1 = [idx EXCEPT !.sched = 0]
        ELSE s1 = s /\ idx1 = [idx EXCEPT !.load = @ + 1]
  \/ /\ s = p.setup /\ s1 = p.start
     /\ drive1 = [drive EXCEPT !.start = FALSE, !.load = FALSE, !.op = op, !.entry = idx.sched]
     /\ idx1 = idx
  \/ /\ s = p.start /\ s1 = p.wait
     /\ drive1 = [drive EXCEPT !.start = TRUE, !.load = FALSE]
     /\ idx1 = idx
  \/ /\ s = p.wait /\ ntt.stage_done
     /\ drive1 = [drive EXCEPT !.start = FALSE, !.load = FALSE]
     /\ IF idx.sched = Entries - 1 THEN s1 = p.read /\ idx1 = [idx EXCEPT !.read = 0]
        ELSE s1 = p.setup /\ idx1 = [idx EXCEPT !.sched = @ + 1]
  \/ /\ s = p.read /\ s1 = p.fetched
     /\ drive1 = [drive EXCEPT !.start = FALSE, !.load = FALSE] /\ idx1 = idx
  \/ /\ s = p.fetched /\ ntt.read_valid
     /\ drive1 = [drive EXCEPT !.start = FALSE, !.load = FALSE]
     /\ IF idx.read = Coeffs - 1 THEN s1 = next /\ idx1 = idx
        ELSE s1 = p.read /\ idx1 = [idx EXCEPT !.read = @ + 1]
  \/ /\ \/ s = p.wait /\ ~ntt.stage_done
        \/ s = p.fetched /\ ~ntt.read_valid
     /\ drive1 = [drive EXCEPT !.start = FALSE, !.load = FALSE]
     /\ s1 = s /\ idx1 = idx

NttMoves(drive, ntt, ntt1, go) ==
  /\ DOMAIN ntt1 = DOMAIN ntt
  /\ ntt1.fsm = CASE ntt.fsm = "IDLE" -> IF drive.start THEN "RUN" ELSE "IDLE"
                  [] ntt.fsm = "RUN"  -> IF go THEN "DONE" ELSE "RUN"
                  [] OTHER            -> "IDLE"
  /\ ntt1.bank = Pending(drive, IF ntt.fsm = "RUN" /\ go
                                THEN Stage(drive.op, drive.entry, ntt.bank) ELSE ntt.bank)

\* A schedule of names, none used twice, with next none of them.
Names(p, next) ==
  /\ p.load \notin {p.setup, p.start, p.wait, p.read, p.fetched, next}
  /\ p.setup \notin {p.start, p.wait, p.read, p.fetched, next}
  /\ p.start \notin {p.wait, p.read, p.fetched, next}
  /\ p.wait \notin {p.read, p.fetched, next}
  /\ p.read \notin {p.fetched, next}
  /\ p.fetched # next

Shape(idx, drive, bank) ==
  /\ idx = [load |-> idx.load, sched |-> idx.sched, read |-> idx.read]
  /\ drive = [start |-> drive.start, op |-> drive.op, entry |-> drive.entry,
              load |-> drive.load, addr |-> drive.addr, data |-> drive.data]
  /\ bank = [c \in Indices |-> bank[c]]

PassInv(p, f, op, s, idx, drive, ntt, dest) ==
  /\ s = p.load =>
       /\ idx.load \in Indices
       /\ \A c \in Indices : c < idx.load
            => Pending(drive, ntt.bank)[c] = Coefficient("id", 0, f, c)
  /\ s \in {p.setup, p.start} =>
       /\ idx.sched \in 0 .. Entries - 1
       /\ Pending(drive, ntt.bank) = Mem(op, idx.sched, f)
  /\ s \in {p.start, p.wait} => ~drive.load /\ drive.op = op /\ drive.entry = idx.sched
  /\ s = p.wait =>
       /\ idx.sched \in 0 .. Entries - 1
       /\ ntt.bank = Mem(op, IF ntt.fsm = "DONE" THEN idx.sched + 1 ELSE idx.sched, f)
  /\ s \in {p.read, p.fetched} =>
       /\ idx.read \in Indices
       /\ ~drive.load
       /\ ntt.bank = Poly(op, Entries, f)
       /\ \A c \in Indices : c < idx.read => dest[c] = Coefficient(op, Entries, f, c)
  /\ s = p.fetched => ntt.read_valid /\ ntt.read_data = Coefficient(op, Entries, f, idx.read)

\* The NTT core in the six states (StageInv).
InPass(p, s, drive, ntt) ==
  /\ s # p.wait => ntt.fsm = "IDLE" /\ ~drive.start
  /\ s = p.wait => \/ ntt.fsm \in {"IDLE", "RUN"} /\ ~ntt.stage_done
                   \/ ntt.fsm = "DONE" /\ ntt.stage_done

IsOver(g, S) == g = [x \in S |-> g[x]]

LEMMA StageOfMem ==
  ASSUME NEW op, NEW f, NEW e \in 0 .. Entries - 1
  PROVE  Stage(op, e, Mem(op, e, f)) = Mem(op, e + 1, f)
<1>1. 0 \in Indices
  BY SizeAssumption DEF Indices
<1>2. Mem(op, e, f)[0].poly = f
  BY <1>1 DEF Mem, Loaded, Poly, Coefficient
<1>3. Mem(op, e + 1, f) = Poly(op, e + 1, f)
  BY DEF Mem
<1> QED
  BY <1>2, <1>3 DEF Stage, Mem

LEMMA PassShape ==
  ASSUME NEW p, NEW f, NEW op, NEW next, NEW s, NEW idx, NEW drive, NEW ntt,
         NEW s1, NEW idx1, NEW drive1, NEW ntt1, NEW go,
         Shape(idx, drive, ntt.bank), 
         PassMoves(p, f, op, next, s, idx, drive, ntt, s1, idx1, drive1),
         NttMoves(drive, ntt, ntt1, go)
  PROVE  Shape(idx1, drive1, ntt1.bank)
<1>1. idx1 = [load |-> idx1.load, sched |-> idx1.sched, read |-> idx1.read]
  BY DEF Shape, PassMoves
<1>2. drive1 = [start |-> drive1.start, op |-> drive1.op, entry |-> drive1.entry,
              load |-> drive1.load, addr |-> drive1.addr, data |-> drive1.data]
  BY DEF Shape, PassMoves
<1>3. ntt1.bank = [c \in Indices |-> ntt1.bank[c]]
  <2> DEFINE b == IF ntt.fsm = "RUN" /\ go
                  THEN Stage(drive.op, drive.entry, ntt.bank) ELSE ntt.bank
  <2>1. b = [c \in Indices |-> b[c]]
    BY DEF Stage, Poly, Shape
  <2>2. ntt1.bank = Pending(drive, b)
    BY DEF NttMoves
  <2> HIDE DEF b
  <2> QED
    BY <2>1, <2>2 DEF Pending
<1> QED
  BY <1>1, <1>2, <1>3 DEF Shape

LEMMA PassKeepsInv ==
  ASSUME NEW p, NEW f, NEW op, NEW next, NEW s, NEW idx, NEW drive, NEW ntt,
         NEW s1, NEW idx1, NEW drive1, NEW ntt1, NEW go, NEW dest, NEW dest1,
         Names(p, next), s \in {p.load, p.setup, p.start, p.wait, p.read, p.fetched},
         Shape(idx, drive, ntt.bank), InPass(p, s, drive, ntt),
         PassInv(p, f, op, s, idx, drive, ntt, dest),
         PassMoves(p, f, op, next, s, idx, drive, ntt, s1, idx1, drive1),
         NttMoves(drive, ntt, ntt1, go),
         s \in {p.read, p.fetched} => ntt1.read_valid /\ ntt1.read_data = ntt.bank[idx.read],
         IsOver(dest, Indices),
         dest1 = IF s = p.fetched /\ ntt.read_valid THEN [dest EXCEPT ![idx.read] = ntt.read_data] ELSE dest
  PROVE  /\ PassInv(p, f, op, s1, idx1, drive1, ntt1, dest1)
         /\ s1 = next => dest1 = Poly(op, Entries, f)
<1> DEFINE six == {p.load, p.setup, p.start, p.wait, p.read, p.fetched}
<1>0. /\ 0 \in Indices /\ 0 \in 0 .. Entries - 1 /\ Coeffs \in Nat /\ Entries \in Nat
      /\ \A c \in Indices : c \in Nat /\ c < Coeffs /\ (c # Coeffs - 1 => c + 1 \in Indices)
  BY SizeAssumption DEF Indices
<1>a. DOMAIN idx = {"load", "sched", "read"}
  BY DEF Shape
<1>b. DOMAIN drive = {"start", "op", "entry", "load", "addr", "data"}
  BY DEF Shape
<1>1. CASE s = p.load
  <2>1. drive1 = [drive EXCEPT !.start = FALSE, !.load = TRUE, !.addr = idx.load,
                               !.data = Coefficient("id", 0, f, idx.load)]
        /\ IF idx.load = Coeffs - 1 THEN s1 = p.setup /\ idx1 = [idx EXCEPT !.sched = 0]
           ELSE s1 = s /\ idx1 = [idx EXCEPT !.load = @ + 1]
    BY <1>1 DEF PassMoves, Names
  <2>2. ntt1.bank = Pending(drive, ntt.bank) 
    BY <1>1 DEF NttMoves, InPass, Names
  <2>3. idx.load \in Indices
    BY <1>1 DEF PassInv
  <2>4. ntt1.bank = [c \in Indices |-> ntt1.bank[c]]
    BY <2>2 DEF Shape, Pending
  <2>5. Pending(drive1, ntt1.bank) = [ntt1.bank EXCEPT ![idx.load] = Coefficient("id", 0, f, idx.load)]
    BY <1>b, <2>1 DEF Pending
  <2>6. \A c \in Indices : c < idx.load + 1
           => Pending(drive1, ntt1.bank)[c] = Coefficient("id", 0, f, c)
    <3>1. \A c \in Indices : c < idx.load => ntt1.bank[c] = Coefficient("id", 0, f, c)
      BY <1>1, <2>2 DEF PassInv
    <3>2. ASSUME NEW c \in Indices, c < idx.load + 1 PROVE c = idx.load \/ c < idx.load
      BY <2>3, <3>2, SizeAssumption DEF Indices
    <3> QED
      BY <2>3, <2>4, <2>5, <3>1, <3>2
  <2>7. CASE idx.load = Coeffs - 1
    <3>1. s1 = p.setup /\ idx1.sched = 0
      BY <1>a, <2>1, <2>7
    <3>2. \A c \in Indices : Pending(drive1, ntt1.bank)[c] = Coefficient("id", 0, f, c)
      BY <1>0, <2>6, <2>7
    <3>3. Pending(drive1, ntt1.bank) = [c \in Indices |-> Pending(drive1, ntt1.bank)[c]]
      BY <2>4, <2>5
    <3>4. Pending(drive1, ntt1.bank) = Mem(op, 0, f)
      BY <3>2, <3>3 DEF Mem, Loaded, Poly
    <3> QED
      BY <1>0, <3>1, <3>4 DEF PassInv, Names
  <2>8. CASE idx.load # Coeffs - 1
    <3>1. s1 = p.load /\ idx1.load = idx.load + 1
      BY <1>a, <1>1, <2>1, <2>8
    <3> QED
      BY <1>0, <2>3, <2>6, <2>8, <3>1 DEF PassInv, Names
  <2> QED
    BY <2>7, <2>8
<1>2. CASE s = p.setup
  <2>1. /\ s1 = p.start /\ idx1 = idx
        /\ drive1 = [drive EXCEPT !.start = FALSE, !.load = FALSE, !.op = op, !.entry = idx.sched]
    BY <1>2 DEF PassMoves, Names
  <2>2. ntt1.bank = Pending(drive, ntt.bank)
    BY <1>2 DEF NttMoves, InPass, Names
  <2>3. ~drive1.load /\ drive1.op = op /\ drive1.entry = idx.sched
    BY <1>b, <2>1
  <2>4. Pending(drive1, ntt1.bank) = Mem(op, idx.sched, f) /\ idx.sched \in 0 .. Entries - 1
    BY <1>2, <2>2, <2>3 DEF PassInv, Pending
  <2> QED
    BY <2>1, <2>3, <2>4 DEF PassInv, Names
<1>3. CASE s = p.start
  <2>1. /\ s1 = p.wait /\ idx1 = idx
        /\ drive1 = [drive EXCEPT !.start = TRUE, !.load = FALSE]
    BY <1>3 DEF PassMoves, Names
  <2>2. ntt1.bank = Pending(drive, ntt.bank) /\ ntt1.fsm = "IDLE"
    BY <1>3 DEF NttMoves, InPass, Names
  <2>3. ~drive1.load /\ drive1.op = op /\ drive1.entry = idx.sched
    BY <1>b, <1>3, <2>1 DEF PassInv
  <2>4. ntt1.bank = Mem(op, idx.sched, f) /\ idx.sched \in 0 .. Entries - 1
    BY <1>3, <2>2 DEF PassInv
  <2> QED
    BY <2>1, <2>2, <2>3, <2>4 DEF PassInv, Names
<1>4. CASE s = p.wait
  <2>1. drive1 = [drive EXCEPT !.start = FALSE, !.load = FALSE]
    BY <1>4 DEF PassMoves, Names
  <2>2. ~drive1.load /\ drive1.op = op /\ drive1.entry = idx.sched
    BY <1>b, <1>4, <2>1 DEF PassInv
  <2>3. ~drive.load /\ drive.op = op /\ drive.entry = idx.sched /\ idx.sched \in 0 .. Entries - 1
    BY <1>4 DEF PassInv
  <2>4. CASE ntt.stage_done
    <3>1. ntt.fsm = "DONE" /\ ntt1.bank = Mem(op, idx.sched + 1, f)
      BY <1>4, <2>3, <2>4 DEF InPass, PassInv, NttMoves, Pending
    <3>2. IF idx.sched = Entries - 1 THEN s1 = p.read /\ idx1 = [idx EXCEPT !.read = 0]
          ELSE s1 = p.setup /\ idx1 = [idx EXCEPT !.sched = @ + 1]
      BY <1>4, <2>4 DEF PassMoves, Names
    <3>3. CASE idx.sched = Entries - 1
      <4>1. s1 = p.read /\ idx1.read = 0
        BY <1>a, <3>2, <3>3
      <4>2. ntt1.bank = Poly(op, Entries, f)
        BY <1>0, <3>1, <3>3, SizeAssumption DEF Mem
      <4>3. \A c \in Indices : ~(c < 0)
        BY DEF Indices
      <4> QED
        BY <1>0, <2>2, <4>1, <4>2, <4>3 DEF PassInv, Names
    <3>4. CASE idx.sched # Entries - 1
      <4>1. s1 = p.setup /\ idx1.sched = idx.sched + 1
        BY <1>a, <3>2, <3>4
      <4>2. idx.sched + 1 \in 0 .. Entries - 1
        BY <1>0, <2>3, <3>4
      <4>3. Pending(drive1, ntt1.bank) = ntt1.bank
        BY <2>2 DEF Pending
      <4> QED
        BY <3>1, <4>1, <4>2, <4>3 DEF PassInv, Names
    <3> QED
      BY <3>3, <3>4
  <2>5. CASE ~ntt.stage_done
    <3>1. s1 = p.wait /\ idx1 = idx
      BY <1>4, <2>5 DEF PassMoves, Names
    <3>2. ntt.fsm \in {"IDLE", "RUN"} /\ ntt.bank = Mem(op, idx.sched, f)
      BY <1>4, <2>5 DEF InPass, PassInv
    <3>3. CASE ntt.fsm = "RUN" /\ go
      <4>1. ntt1.fsm = "DONE" /\ ntt1.bank = Stage(op, idx.sched, Mem(op, idx.sched, f))
        BY <2>3, <3>2, <3>3 DEF NttMoves, Pending
      <4>2. ntt1.bank = Mem(op, idx.sched + 1, f)
        BY <2>3, <4>1, StageOfMem
      <4> QED
        BY <2>2, <2>3, <3>1, <4>1, <4>2 DEF PassInv, Names
    <3>4. CASE ~(ntt.fsm = "RUN" /\ go)
      <4>1. ntt1.fsm # "DONE" /\ ntt1.bank = ntt.bank
        BY <2>3, <3>2, <3>4 DEF NttMoves, Pending
      <4> QED
        BY <2>2, <2>3, <3>1, <3>2, <4>1 DEF PassInv, Names
    <3> QED
      BY <3>3, <3>4
  <2> QED
    BY <2>4, <2>5
<1>5. CASE s = p.read
  <2>1. s1 = p.fetched /\ idx1 = idx /\ drive1 = [drive EXCEPT !.start = FALSE, !.load = FALSE]
    BY <1>5 DEF PassMoves, Names
  <2>2. ~drive1.load /\ dest1 = dest
    BY <1>b, <1>5, <2>1 DEF Names
  <2>3. /\ idx.read \in Indices /\ ~drive.load /\ ntt.bank = Poly(op, Entries, f)
        /\ \A c \in Indices : c < idx.read => dest[c] = Coefficient(op, Entries, f, c)
    BY <1>5 DEF PassInv
  <2>4. ntt1.bank = ntt.bank
    BY <1>5, <2>3 DEF NttMoves, InPass, Names, Pending
  <2>5. ntt1.read_valid /\ ntt1.read_data = Coefficient(op, Entries, f, idx.read)
    BY <1>5, <2>3 DEF Poly
  <2> QED
    BY <2>1, <2>2, <2>3, <2>4, <2>5 DEF PassInv, Names
<1>6. CASE s = p.fetched
  <2>1. drive1 = [drive EXCEPT !.start = FALSE, !.load = FALSE]
    BY <1>6 DEF PassMoves, Names
  <2>2. ~drive1.load
    BY <1>b, <2>1
  <2>3. /\ idx.read \in Indices /\ ~drive.load /\ ntt.bank = Poly(op, Entries, f)
        /\ \A c \in Indices : c < idx.read => dest[c] = Coefficient(op, Entries, f, c)
        /\ ntt.read_valid /\ ntt.read_data = Coefficient(op, Entries, f, idx.read)
    BY <1>6 DEF PassInv
  <2>4. ntt1.bank = ntt.bank
    BY <1>6, <2>3 DEF NttMoves, InPass, Names, Pending
  <2>6. dest1 = [dest EXCEPT ![idx.read] = Coefficient(op, Entries, f, idx.read)]
    BY <1>6, <2>3
  <2>7. \A c \in Indices : c < idx.read + 1 => dest1[c] = Coefficient(op, Entries, f, c)
    <3>1. ASSUME NEW c \in Indices, c < idx.read + 1 PROVE c = idx.read \/ c < idx.read
      BY <1>0, <2>3, <3>1
    <3> QED
      BY <2>3, <2>6, <3>1 DEF IsOver
  <2>8. CASE ntt.read_valid /\ idx.read = Coeffs - 1
    <3>1. s1 = next /\ idx1 = idx
      BY <1>6, <2>8 DEF PassMoves, Names
    <3>2. dest1 = Poly(op, Entries, f)
      <4>1. \A c \in Indices : dest1[c] = Coefficient(op, Entries, f, c)
        BY <1>0, <2>7, <2>8
      <4>2. dest1 = [c \in Indices |-> dest1[c]]
        BY <2>6 DEF IsOver
      <4> QED
        BY <4>1, <4>2 DEF Poly
    <3> QED
      BY <3>1, <3>2 DEF PassInv, Names
  <2>9. CASE ntt.read_valid /\ idx.read # Coeffs - 1
    <3>1. s1 = p.read /\ idx1.read = idx.read + 1
      BY <1>a, <1>6, <2>9 DEF PassMoves, Names
    <3> QED
      BY <1>0, <2>2, <2>3, <2>4, <2>7, <2>9, <3>1 DEF PassInv, Names
  <2> QED
    BY <2>3, <2>8, <2>9
<1> QED
  BY <1>1, <1>2, <1>3, <1>4, <1>5, <1>6

-----------------------------------------------------------------------------
(***************************************************************************)
(* What a unit answers is what was asked of it.                            *)
(***************************************************************************)
ResultInv ==
  \A u \in Units : b_state = WaitOf(u) /\ (b_unit[u].fsm = "SQUEEZE" \/ b_unit[u].done)
                     => b_unit[u].out = Result(u, b_in[u])

LEMMA ResultStep ==
  ASSUME CallInv, ResultInv, NEW go \in BOOLEAN, Clock(go)
  PROVE  ResultInv'
<1> SUFFICES ASSUME NEW u \in Units, (b_state = WaitOf(u))',
                    (b_unit[u].fsm = "SQUEEZE" \/ b_unit[u].done)'
             PROVE  b_unit'[u].out = Result(u, b_in'[u])
  BY DEF ResultInv, Result
<1> DEFINE r == b_unit[u]
           x == IF r.fsm = "ABSORB" THEN Result(u, b_in[u]) ELSE Undefined
<1>1. FsmToUnit(u) /\ IsUnit(r)
  BY FsmUnit DEF Clock, CallInv
<1>2. b_unit'[u] = UnitAfter(r, b_call = u, x, go)
  BY DEF Clock, UnitsEdge
<1>3. IF b_state = WaitOf(u) THEN Called(u) ELSE Resting(u)
  BY DEF CallInv
<1>4. WaitOf(u)' = WaitOf(u) /\ StartOf(u) # WaitOf(u)
  BY DEF StartOf, WaitOf, Units
<1> HIDE DEF x
<1>5. CASE b_state = WaitOf(u)
  <2>1. b_in' = b_in /\ ~r.done
    BY <1>1, <1>4, <1>5 DEF FsmToUnit
  <2>2. CASE r.fsm = "ABSORB"
    <3>1. b_unit'[u].out = x
      BY <1>1, <1>2, <2>1, <2>2 DEF UnitAfter, IsUnit
    <3> QED
      BY <2>1, <2>2, <3>1 DEF x
  <2>3. CASE r.fsm = "SQUEEZE"
    <3>1. b_unit'[u].out = r.out
      BY <1>1, <1>2, <2>3 DEF UnitAfter, IsUnit
    <3> QED
      BY <1>5, <2>1, <2>3, <3>1 DEF ResultInv
  <2>4. CASE r.fsm = "IDLE"
    <3>1. b_unit'[u].fsm # "SQUEEZE" /\ ~b_unit'[u].done
      BY <1>1, <1>2, <2>4 DEF UnitAfter, IsUnit
    <3> QED
      BY <3>1
  <2> QED
    BY <1>3, <1>5, <2>2, <2>3, <2>4 DEF Called
<1>6. CASE b_state # WaitOf(u)
  <2>1. r.fsm = "IDLE"
    BY <1>3, <1>6 DEF Resting
  <2>2. b_unit'[u].fsm # "SQUEEZE" /\ ~b_unit'[u].done
    BY <1>1, <1>2, <2>1 DEF UnitAfter, IsUnit
  <2> QED
    BY <2>2
<1> QED
  BY <1>5, <1>6

-----------------------------------------------------------------------------
(***************************************************************************)
(* The data.  w is what the wires of the core carry in a run: ek, r, m, c, *)
(* z and the secret k of the accepted ciphertext.                          *)
(***************************************************************************)
WiresAre(w) == /\ ek_in = w.ek /\ r_prime_in = w.r /\ m_prime_in = w.m
               /\ c_in = w.c /\ z_in = w.z /\ K_prime_in = w.k

\* What Algorithm 14 makes of them, up to the n-th product of a sum.
YOf(w, i)  == SampleCBD(3, w.r, i)
AOf(w, i, j) == SampleNTT(Part(w.ek, K), j, i)
TOf(w, i)  == ByteDecode(12, Part(w.ek, i))
EOf(w, i)  == SampleCBD(2, w.r, K + i)
UProduct(w, i, j) == Multiply(AOf(w, j, i), NTT(YOf(w, j)))
VProduct(w, j)    == Multiply(TOf(w, j), NTT(YOf(w, j)))
USum(w, i, n) == CASE n = 0 -> Zero
                   [] n = 1 -> Plus(Zero, UProduct(w, i, 0))
                   [] OTHER -> Plus(Plus(Zero, UProduct(w, i, 0)), UProduct(w, i, 1))
VSum(w, n)    == CASE n = 0 -> Zero
                   [] n = 1 -> Plus(Zero, VProduct(w, 0))
                   [] OTHER -> Plus(Plus(Zero, VProduct(w, 0)), VProduct(w, 1))
UOf(w, i) == Plus(InverseNTT(USum(w, i, K)), EOf(w, i))
VOf(w)    == Plus(Plus(InverseNTT(VSum(w, K)), EOf(w, K)), Mu(w.m))

Registers == {"ek", "rho", "t_hat", "A", "y_vec", "e1", "e2", "y_hat", "padd_a", "padd_b",
              "u_acc", "v_acc", "raw_u", "raw_v", "scale_in", "scaled_v", "u_vec", "v_poly",
              "bdec1_in", "c1_y_in", "mu", "bcompu_in", "bencu_in", "bcompv_in", "bencv_in",
              "c_prime", "match", "K_final"}

\* The arrays keep their indices.
Arrays(r) ==
  /\ DOMAIN r = Registers
  /\ IsOver(r.A, Vec) /\ \A i \in Vec : IsOver(r.A[i], Vec)
  /\ IsOver(r.y_hat, Vec) /\ \A i \in Vec : IsOver(r.y_hat[i], Indices)
  /\ IsOver(r.y_vec, Vec) /\ IsOver(r.e1, Vec) /\ IsOver(r.u_acc, Vec) /\ IsOver(r.u_vec, Vec)
  /\ IsOver(r.raw_u, Indices) /\ IsOver(r.raw_v, Indices) /\ IsOver(r.mu, Indices)
  /\ IsOver(r.c_prime, 1 .. 3)

ShapeInv ==
  /\ Arrays(b_reg)
  /\ DOMAIN b_ctr = {"i", "j", "n", "fwd", "col", "mj", "inv", "bit"}
  /\ DOMAIN b_ntt = {"fsm", "bank", "stage_done", "read_valid", "read_data"}
  /\ Shape(b_fwd, b_drive, b_ntt.bank) /\ Shape(b_inv, b_drive, b_ntt.bank)

\* What the registers hold once a part of the work is done.
HasKey(w, r)    == \A i \in Vec : r.t_hat[i] = TOf(w, i)
HasMatrix(w, r) == \A i, j \in Vec : r.A[i][j] = AOf(w, i, j)
HasY(w, r)      == \A i \in Vec : r.y_vec[i] = YOf(w, i)
HasErrors(w, r) == (\A i \in Vec : r.e1[i] = EOf(w, i)) /\ r.e2 = EOf(w, K)
HasHats(w, r)   == \A i \in Vec : r.y_hat[i] = Poly("ntt", Entries, YOf(w, i))
HasSums(w, r)   == \A i \in Vec : r.u_acc[i] = USum(w, i, K)
HasU(w, r)      == \A i \in Vec : r.u_vec[i] = UOf(w, i)

Passes(p) == {p.load, p.setup, p.start, p.wait, p.read, p.fetched}
Sampling  == {"START_SNTT", "WAIT_SNTT", "SNTT_NEXT"}
Drawing   == {"START_CBD1", "WAIT_CBD1", "START_CBD2", "WAIT_CBD2"}
MultiplyingU == {"MATMUL_U", "MATMUL_U_CAPTURE", "MATMUL_U_NEXT"}
MultiplyingV == {"MATMUL_V", "MATMUL_V_CAPTURE"}
Forwarding == {"FWD_LOAD", "FWD_SCHED_SETUP", "FWD_SCHED_START", "FWD_SCHED_WAIT", "FWD_READ",
               "FWD_READ_WAIT", "FWD_NEXT"}
InvertingU == {"INV_U_LOAD", "INV_U_SCHED_SETUP", "INV_U_SCHED_START", "INV_U_SCHED_WAIT",
               "INV_U_READ", "INV_U_READ_WAIT", "INV_U_SCALE", "INV_U_ADD_E1", "INV_U_NEXT"}
InvertingV == {"INV_V_LOAD", "INV_V_SCHED_SETUP", "INV_V_SCHED_START", "INV_V_SCHED_WAIT",
               "INV_V_READ", "INV_V_READ_WAIT", "INV_V_SCALE"}
DecodingMu == {"DECODE_MU_SETUP", "DECODE_MU", "DECODE_MU_CAPTURE"}
Adding     == {"ADD_E2", "ADD_MU"}
Encoding   == {"COMPRESS_U_SETUP", "COMPRESS_U", "ENCODE_U", "COMPRESS_V_SETUP", "COMPRESS_V",
               "ENCODE_V"}
Choosing   == {"START_SHAKE256", "WAIT_SHAKE256"}

StartInv(w) == b_state = "DECODE_T" => b_reg.ek = w.ek /\ b_reg.rho = Part(w.ek, K)

SampleInv(w) == b_state \in Sampling =>
  /\ HasKey(w, b_reg) /\ b_reg.rho = Part(w.ek, K)
  /\ b_ctr.i \in Vec /\ b_ctr.j \in Vec
  /\ \A i, j \in Vec : K * i + j < K * b_ctr.i + b_ctr.j
       => b_reg.A[i][j] = AOf(w, i, j)
  /\ b_state = "WAIT_SNTT" => b_in["samplentt"] = <<Part(w.ek, K), b_ctr.j, b_ctr.i>>
  /\ b_state = "SNTT_NEXT" => b_reg.A[b_ctr.i][b_ctr.j] = AOf(w, b_ctr.i, b_ctr.j)

DrawInv(w) == b_state \in Drawing =>
  /\ HasKey(w, b_reg) /\ HasMatrix(w, b_reg)
  /\ b_ctr.n \in 0 .. 2 * K
  /\ b_state \in {"START_CBD1", "WAIT_CBD1"} <=> b_ctr.n < K
  /\ \A i \in Vec : i < b_ctr.n => b_reg.y_vec[i] = YOf(w, i)
  /\ \A i \in Vec : K + i < b_ctr.n => b_reg.e1[i] = EOf(w, i)
  /\ b_state = "WAIT_CBD1" => b_in["cbd1"] = <<w.r, b_ctr.n>>
  /\ b_state = "WAIT_CBD2" => b_in["cbd2"] = <<w.r, b_ctr.n>>

ForwardInv(w) == b_state \in Forwarding =>
  /\ HasKey(w, b_reg) /\ HasMatrix(w, b_reg) /\ HasY(w, b_reg) /\ HasErrors(w, b_reg)
  /\ b_ctr.fwd \in Vec
  /\ \A i \in Vec : i < b_ctr.fwd => b_reg.y_hat[i] = Poly("ntt", Entries, YOf(w, i))
  /\ PassInv(Forward!FWD, YOf(w, b_ctr.fwd), "ntt", b_state, b_fwd, b_drive, b_ntt,
             b_reg.y_hat[b_ctr.fwd])
  /\ b_state = "FWD_NEXT" =>
       b_reg.y_hat[b_ctr.fwd] = Poly("ntt", Entries, YOf(w, b_ctr.fwd))

MultiplyUInv(w) == b_state \in MultiplyingU =>
  /\ HasKey(w, b_reg) /\ HasMatrix(w, b_reg) /\ HasErrors(w, b_reg) /\ HasHats(w, b_reg)
  /\ b_ctr.col \in Vec /\ b_ctr.mj \in Vec
  /\ b_reg.v_acc = Zero
  /\ \A i \in Vec : /\ i < b_ctr.col => b_reg.u_acc[i] = USum(w, i, K)
                    /\ i > b_ctr.col => b_reg.u_acc[i] = Zero
  /\ b_reg.u_acc[b_ctr.col]
       = USum(w, b_ctr.col, IF b_state = "MATMUL_U_NEXT" THEN K ELSE b_ctr.mj)
  /\ b_state = "MATMUL_U_CAPTURE" => /\ b_reg.padd_a = USum(w, b_ctr.col, b_ctr.mj)
                                     /\ b_reg.padd_b = UProduct(w, b_ctr.col, b_ctr.mj)
  /\ b_state = "MATMUL_U_NEXT" => b_ctr.mj = 0

MultiplyVInv(w) == b_state \in MultiplyingV =>
  /\ HasKey(w, b_reg) /\ HasErrors(w, b_reg) /\ HasHats(w, b_reg) /\ HasSums(w, b_reg)
  /\ b_ctr.mj \in Vec
  /\ b_reg.v_acc = VSum(w, b_ctr.mj)
  /\ b_state = "MATMUL_V_CAPTURE" => /\ b_reg.padd_a = VSum(w, b_ctr.mj)
                                     /\ b_reg.padd_b = VProduct(w, b_ctr.mj)

InvertUInv(w) == b_state \in InvertingU =>
  /\ HasErrors(w, b_reg) /\ HasSums(w, b_reg) /\ b_reg.v_acc = VSum(w, K)
  /\ b_ctr.inv \in Vec
  /\ \A i \in Vec : i < b_ctr.inv => b_reg.u_vec[i] = UOf(w, i)
  /\ PassInv(Inverse!INV_U, USum(w, b_ctr.inv, K), "inverse", b_state, b_inv, b_drive, b_ntt,
             b_reg.raw_u)
  /\ b_state = "INV_U_SCALE" => b_reg.raw_u = Poly("inverse", Entries, USum(w, b_ctr.inv, K))
  /\ b_state = "INV_U_ADD_E1" => b_reg.scale_in = <<"inverse", Entries, USum(w, b_ctr.inv, K)>>
  /\ b_state = "INV_U_NEXT" => /\ b_reg.padd_a = InverseNTT(USum(w, b_ctr.inv, K))
                               /\ b_reg.padd_b = EOf(w, b_ctr.inv)

InvertVInv(w) == b_state \in InvertingV =>
  /\ b_reg.e2 = EOf(w, K) /\ b_reg.v_acc = VSum(w, K) /\ HasU(w, b_reg)
  /\ PassInv(Inverse!INV_V, VSum(w, K), "inverse", b_state, b_inv, b_drive, b_ntt, b_reg.raw_v)
  /\ b_state = "INV_V_SCALE" => b_reg.raw_v = Poly("inverse", Entries, VSum(w, K))

DecodeInv(w) == b_state \in DecodingMu =>
  /\ b_reg.e2 = EOf(w, K) /\ HasU(w, b_reg)
  /\ IF b_state = "DECODE_MU_SETUP" THEN b_reg.scale_in = <<"inverse", Entries, VSum(w, K)>>
     ELSE /\ b_reg.scaled_v = InverseNTT(VSum(w, K)) /\ b_reg.bdec1_in = w.m
          /\ b_ctr.bit \in Indices
          /\ \A c \in Indices : c < b_ctr.bit => b_reg.mu[c] = Coefficient("mu", 0, w.m, c)
  /\ b_state = "DECODE_MU_CAPTURE" => b_reg.c1_y_in = Coefficient("mu", 0, w.m, b_ctr.bit)

AddInv(w) == b_state \in Adding =>
  /\ HasU(w, b_reg) /\ b_reg.mu = Poly("mu", 0, w.m)
  /\ b_state = "ADD_E2" => b_reg.scaled_v = InverseNTT(VSum(w, K)) /\ b_reg.e2 = EOf(w, K)
  /\ b_state = "ADD_MU" => b_reg.padd_a = InverseNTT(VSum(w, K)) /\ b_reg.padd_b = EOf(w, K)

EncodeInv(w) ==
  /\ b_state = "COMPRESS_U_SETUP" =>
       /\ HasU(w, b_reg)
       /\ b_reg.padd_a = Plus(InverseNTT(VSum(w, K)), EOf(w, K)) /\ b_reg.padd_b = Mu(w.m)
  /\ b_state \in {"COMPRESS_U", "ENCODE_U"} => b_reg.v_poly = VOf(w)
  /\ b_state = "COMPRESS_U" => \A i \in Vec : b_reg.bcompu_in[i] = UOf(w, i)
  /\ b_state = "ENCODE_U" => \A i \in Vec : b_reg.bencu_in[i] = Compress(10, UOf(w, i))
  /\ b_state \in {"COMPRESS_V_SETUP", "COMPRESS_V", "ENCODE_V"} =>
       /\ b_reg.c_prime[1] = ByteEncode(10, Compress(10, UOf(w, 0)))
       /\ b_reg.c_prime[2] = ByteEncode(10, Compress(10, UOf(w, 1)))
  /\ b_state \in {"COMPRESS_V_SETUP", "COMPRESS_V"} => b_reg.bcompv_in = VOf(w)
  /\ b_state = "ENCODE_V" => b_reg.bencv_in = Compress(4, VOf(w))

ChooseInv(w) ==
  /\ b_state \in Choosing => b_reg.c_prime = KpkeEncrypt(w.ek, w.m, w.r)
  /\ b_state = "WAIT_SHAKE256" => b_in["shake256"] = <<w.z, w.c>>

\* The result, from DONE on.
Encrypted(w) ==
  LET c == KpkeEncrypt(w.ek, w.m, w.r)
  IN  /\ b_reg.c_prime = c
      /\ b_reg.match = (w.c = c)
      /\ b_reg.K_final = IF w.c = c THEN w.k ELSE J(w.z, w.c)

EndInv(w) ==
  /\ b_state = "DONE" \/ b_done => Encrypted(w)
  /\ b_done => b_state = "IDLE"

PhaseInv(w) ==
  /\ StartInv(w) /\ SampleInv(w) /\ DrawInv(w) /\ ForwardInv(w) /\ MultiplyUInv(w)
  /\ MultiplyVInv(w) /\ InvertUInv(w) /\ InvertVInv(w) /\ DecodeInv(w) /\ AddInv(w)
  /\ EncodeInv(w) /\ ChooseInv(w) /\ EndInv(w)

DataInv(w) == ShapeInv /\ PhaseInv(w)

-----------------------------------------------------------------------------
LEMMA StoreAt ==
  ASSUME NEW S, NEW f, IsOver(f, S), NEW i \in S, NEW v
  PROVE  /\ IsOver([f EXCEPT ![i] = v], S)
         /\ [f EXCEPT ![i] = v][i] = v
         /\ \A j \in S : j # i => [f EXCEPT ![i] = v][j] = f[j]
BY DEF IsOver

LEMMA GatherPoly ==
  ASSUME NEW o, NEW e, NEW f
  PROVE  Gather(Poly(o, e, f)) = <<o, e, f>>
<1>1. 0 \in Indices
  BY SizeAssumption DEF Indices
<1>2. Poly(o, e, f)[0].op = o /\ Poly(o, e, f)[0].stage = e /\ Poly(o, e, f)[0].poly = f
  BY <1>1 DEF Poly, Coefficient
<1> QED
  BY <1>2 DEF Gather

\* The encryption the parts of a run make up.
LEMMA PartsOfEncryption ==
  ASSUME NEW w, NEW c, IsOver(c, 1 .. 3),
         c[1] = ByteEncode(10, Compress(10, UOf(w, 0))),
         c[2] = ByteEncode(10, Compress(10, UOf(w, 1))),
         c[3] = ByteEncode(4, Compress(4, VOf(w)))
  PROVE  c = KpkeEncrypt(w.ek, w.m, w.r)
<1> DEFINE k == KpkeEncrypt(w.ek, w.m, w.r)
<1>1. k = <<ByteEncode(10, Compress(10, UOf(w, 0))), ByteEncode(10, Compress(10, UOf(w, 1))),
            ByteEncode(4, Compress(4, VOf(w)))>>
  <2>1. \A i \in Vec : USum(w, i, K) = Plus(Plus(Zero, UProduct(w, i, 0)), UProduct(w, i, 1))
    BY DEF USum, K
  <2>2. VSum(w, K) = Plus(Plus(Zero, VProduct(w, 0)), VProduct(w, 1))
    BY DEF VSum, K
  <2>3. K + K = 2 * K /\ 0 \in Vec /\ 1 \in Vec
    BY DEF K, Vec
  <2> QED
    BY <2>1, <2>2, <2>3, Zenon
       DEF KpkeEncrypt, UOf, VOf, UProduct, VProduct, EOf, YOf, AOf, TOf
<1>2. k = [i \in 1 .. 3 |-> k[i]]
  BY <1>1
<1>3. \A i \in 1 .. 3 : k[i] = c[i]
  BY <1>1
<1> HIDE DEF k
<1>4. k = c
  BY <1>2, <1>3 DEF IsOver
<1> QED
  BY <1>4 DEF k

-----------------------------------------------------------------------------
(***************************************************************************)
(* The arrays keep their indices, the drive and the counters their fields, *)
(* whatever a step writes.                                                 *)
(***************************************************************************)
\* A write outside an array's indices is lost, so that it keeps them always.
LEMMA StoreOver ==
  ASSUME NEW S, NEW f, IsOver(f, S), NEW i, NEW v
  PROVE  IsOver([f EXCEPT ![i] = v], S)
BY DEF IsOver

Put(f, i, j, v) == [f EXCEPT ![i][j] = v]

LEMMA StoreOverOver ==
  ASSUME NEW S, NEW T, NEW f, IsOver(f, S), \A i \in S : IsOver(f[i], T), NEW i, NEW j, NEW v
  PROVE  IsOver(Put(f, i, j, v), S) /\ \A a \in S : IsOver(Put(f, i, j, v)[a], T)
<1> DEFINE g == Put(f, i, j, v)
<1> USE DEF Put
<1>1. IsOver(g, S)
  BY DEF IsOver
<1>2. ASSUME NEW a \in S PROVE IsOver(g[a], T)
  <2>1. DOMAIN f = S /\ IsOver(f[a], T)
    BY DEF IsOver
  <2>2. CASE a = i
    <3>1. g[a] = [f[a] EXCEPT ![j] = v]
      BY <2>1, <2>2
    <3> QED
      BY <2>1, <3>1, StoreOver
  <2>3. CASE a # i
    <3>1. g[a] = f[a]
      BY <2>1, <2>3
    <3> QED
      BY <2>1, <3>1
  <2> QED
    BY <2>2, <2>3
<1> QED
  BY <1>1, <1>2

\* What stays of a record of arrays when one register is written.
Writes(r, r1, X) == DOMAIN r1 = Registers /\ \A x \in Registers \ X : r1[x] = r[x]

ArrayNames == {"A", "y_hat", "y_vec", "e1", "u_acc", "u_vec", "raw_u", "raw_v", "mu", "c_prime"}

IsDrive(d) == d = [start |-> d.start, op |-> d.op, entry |-> d.entry,
                   load |-> d.load, addr |-> d.addr, data |-> d.data]
IsIdx(x) == x = [load |-> x.load, sched |-> x.sched, read |-> x.read]

\* The drive of the NTT core and the indices keep their fields.
LEMMA DriveStep ==
  ASSUME IsDrive(b_drive), IsIdx(b_fwd), IsIdx(b_inv), Fsm
  PROVE  IsDrive(b_drive') /\ IsIdx(b_fwd') /\ IsIdx(b_inv') /\ DOMAIN b_ctr' = DOMAIN b_ctr
<1> USE DEF IsDrive, IsIdx, Stores, Forward!Low
<1>a. ASSUME \/ Begin \/ SampleMatrix \/ SampleVectors \/ MultiplyMatrix \/ AddError
             \/ DecodeMessage \/ AddMessage \/ EncodeCiphertext \/ SelectSecret
             \/ Complete \/ Waiting
      PROVE  IsDrive(b_drive') /\ DOMAIN b_ctr' = DOMAIN b_ctr
  <2>1. CASE Begin \/ Complete
    BY <2>1 DEF Begin, Complete
  <2>2. CASE SampleMatrix \/ SampleVectors
    BY <2>2 DEF SampleMatrix, SampleVectors, Calls
  <2>3. CASE MultiplyMatrix
    BY <2>3 DEF MultiplyMatrix, Adds
  <2>4. CASE AddError \/ AddMessage
    BY <2>4 DEF AddError, AddMessage, Adds
  <2>5. CASE DecodeMessage
    BY <2>5 DEF DecodeMessage
  <2>6. CASE EncodeCiphertext
    BY <2>6 DEF EncodeCiphertext
  <2>7. CASE SelectSecret
    BY <2>7 DEF SelectSecret, Calls
  <2>8. CASE Waiting
    BY <2>8 DEF Waiting
  <2> QED
    BY <1>a, <2>1, <2>2, <2>3, <2>4, <2>5, <2>6, <2>7, <2>8
<1>b. ASSUME SampleLast \/ NextTransform
      PROVE  IsDrive(b_drive') /\ IsIdx(b_fwd') /\ DOMAIN b_ctr' = DOMAIN b_ctr
  BY <1>b DEF SampleLast, NextTransform
<1>c. ASSUME FirstInverse \/ NextInverse
      PROVE  IsDrive(b_drive') /\ IsIdx(b_inv') /\ DOMAIN b_ctr' = DOMAIN b_ctr
  BY <1>c DEF FirstInverse, NextInverse
<1>1. ASSUME Transform
      PROVE  IsDrive(b_drive') /\ IsIdx(b_fwd') /\ DOMAIN b_ctr' = DOMAIN b_ctr
  <2>1. b_ctr' = b_ctr
    BY <1>1 DEF Transform
  <2>2. IsDrive(b_drive') /\ IsIdx(b_fwd')
    BY <1>1 DEF Transform, Forward!Pass, Forward!Load, Forward!SetUp,
                Forward!StartStage, Forward!EndStage, Forward!Fetch, Forward!Take, Forward!Wait
  <2> QED
    BY <2>1, <2>2
<1>2. ASSUME InvertU \/ InvertV
      PROVE  IsDrive(b_drive') /\ IsIdx(b_inv') /\ DOMAIN b_ctr' = DOMAIN b_ctr
  <2>1. b_ctr' = b_ctr
    BY <1>2 DEF InvertU, InvertV
  <2>2. IsDrive(b_drive') /\ IsIdx(b_inv')
    BY <1>2 DEF InvertU, InvertV, Inverse!Low, Inverse!Pass, Inverse!Load, Inverse!SetUp,
                Inverse!StartStage, Inverse!EndStage, Inverse!Fetch, Inverse!Take, Inverse!Wait
  <2> QED
    BY <2>1, <2>2
<1> QED
  BY <1>a, <1>b, <1>c, <1>1, <1>2 DEF Fsm

\* The edge of the NTT core, on its values.
LEMMA NttIsMoves ==
  ASSUME NEW reading, NEW addr, NEW go \in BOOLEAN, Forward!NttEdge(reading, addr, go),
         DOMAIN b_ntt = {"fsm", "bank", "stage_done", "read_valid", "read_data"}
  PROVE  /\ NttMoves(b_drive, b_ntt, b_ntt', go)
         /\ b_ntt'.read_valid = reading
         /\ reading => b_ntt'.read_data = b_ntt.bank[addr]
BY DEF Forward!NttEdge, Forward!Written, NttMoves, Pending, Stage, Forward!Stage, Loaded, Poly,
       Forward!Loaded, Forward!Poly, Indices, Forward!Indices, Coefficient, Forward!Coefficient

LEMMA ArraysStep ==
  ASSUME Arrays(b_reg), Fsm
  PROVE  Arrays(b_reg')
<1> USE DEF Stores
<1> DEFINE r == b_reg
<1>0. ASSUME NEW X, Writes(r, b_reg', X), X \cap ArrayNames = {}
      PROVE  Arrays(b_reg')
  BY <1>0 DEF Writes, ArrayNames, Arrays, Registers
<1>d. DOMAIN b_reg = Registers
  BY DEF Arrays
<1>1. CASE Begin
  <2>1. Writes(r, b_reg', {"ek", "rho", "t_hat"})
    BY <1>1, <1>d DEF Begin, Writes, Registers
  <2> QED
    BY <1>0, <2>1 DEF ArrayNames
<1>2. CASE SampleMatrix
  <2>1. PICK v : Writes(r, b_reg', {"A"}) /\ (b_reg'.A = r.A \/ b_reg'.A = Put(r.A, b_ctr.i, b_ctr.j, v))
    BY <1>2, <1>d DEF SampleMatrix, Calls, Writes, Registers, Put
  <2>2. IsOver(b_reg'.A, Vec) /\ \A i \in Vec : IsOver(b_reg'.A[i], Vec)
    BY <2>1, StoreOverOver DEF Arrays
  <2> QED
    BY <2>1, <2>2 DEF Writes, Arrays, Registers
<1>3. CASE SampleVectors
  <2>1. PICK i, v : /\ Writes(r, b_reg', {"y_vec", "e1"})
                    /\ b_reg'.y_vec \in {r.y_vec, [r.y_vec EXCEPT ![i] = v]}
                    /\ b_reg'.e1 \in {r.e1, [r.e1 EXCEPT ![i] = v]}
    <3>1. ASSUME UNCHANGED b_reg PROVE \E i, v : /\ Writes(r, b_reg', {"y_vec", "e1"})
                    /\ b_reg'.y_vec \in {r.y_vec, [r.y_vec EXCEPT ![i] = v]}
                    /\ b_reg'.e1 \in {r.e1, [r.e1 EXCEPT ![i] = v]}
      BY <1>d, <3>1 DEF Writes
    <3>2. ASSUME NEW i, NEW v, \/ b_reg' = [b_reg EXCEPT !.y_vec[i] = v]
                               \/ b_reg' = [b_reg EXCEPT !.e1[i] = v]
          PROVE  /\ Writes(r, b_reg', {"y_vec", "e1"})
                 /\ b_reg'.y_vec \in {r.y_vec, [r.y_vec EXCEPT ![i] = v]}
                 /\ b_reg'.e1 \in {r.e1, [r.e1 EXCEPT ![i] = v]}
      BY <1>d, <3>2 DEF Writes, Registers
    <3> QED
      BY <1>3, <3>1, <3>2 DEF SampleVectors, Calls
  <2>2. IsOver(b_reg'.y_vec, Vec) /\ IsOver(b_reg'.e1, Vec)
    BY <2>1 DEF Arrays, IsOver
  <2> QED
    BY <2>1, <2>2 DEF Writes, Arrays, Registers
<1>4. CASE SampleLast
  <2>1. Writes(r, b_reg', {"e2"})
    BY <1>4, <1>d DEF SampleLast, Writes, Registers
  <2> QED
    BY <1>0, <2>1 DEF ArrayNames
<1>5. CASE Transform
  <2>1. \/ b_reg' = b_reg
        \/ b_reg' = [b_reg EXCEPT !.y_hat[b_ctr.fwd][b_fwd.read] = b_ntt.read_data]
    BY <1>5 DEF Transform
  <2>2. /\ Writes(r, b_reg', {"y_hat"})
        /\ \/ b_reg'.y_hat = r.y_hat
           \/ b_reg'.y_hat = Put(r.y_hat, b_ctr.fwd, b_fwd.read, b_ntt.read_data)
    BY <1>d, <2>1 DEF Writes, Registers, Put
  <2>3. IsOver(b_reg'.y_hat, Vec) /\ \A i \in Vec : IsOver(b_reg'.y_hat[i], Indices)
    <3>1. IsOver(b_reg.y_hat, Vec) /\ \A i \in Vec : IsOver(b_reg.y_hat[i], Indices)
      BY DEF Arrays
    <3> DEFINE g == Put(b_reg.y_hat, b_ctr.fwd, b_fwd.read, b_ntt.read_data)
    <3>2. IsOver(g, Vec) /\ \A i \in Vec : IsOver(g[i], Indices)
      BY <3>1, StoreOverOver
    <3> HIDE DEF g
    <3> QED
      BY <2>2, <3>1, <3>2 DEF g
  <2> QED
    BY <2>2, <2>3 DEF Writes, Arrays, Registers
<1>6. CASE NextTransform \/ Complete \/ Waiting
  <2>1. b_reg' = b_reg
    BY <1>6 DEF NextTransform, Complete, Waiting
  <2> QED
    BY <2>1
<1>7. CASE MultiplyMatrix \/ FirstInverse
  <2>1. /\ Writes(r, b_reg', {"u_acc", "v_acc", "padd_a", "padd_b"})
        /\ \/ b_reg'.u_acc = r.u_acc
           \/ b_reg'.u_acc = [i \in Vec |-> Zero]
           \/ b_reg'.u_acc = [r.u_acc EXCEPT ![b_ctr.col] = Sum]
    BY <1>7, <1>d DEF MultiplyMatrix, FirstInverse, Adds, Writes, Registers
  <2>2. IsOver(b_reg'.u_acc, Vec)
    <3>1. IsOver([i \in Vec |-> Zero], Vec)
      BY DEF IsOver
    <3> QED
      BY <2>1, <3>1 DEF Arrays, IsOver
  <2> QED
    BY <2>1, <2>2 DEF Writes, Arrays, Registers
<1>8. CASE InvertU
  <2>1. \/ b_reg' = b_reg
        \/ b_reg' = [b_reg EXCEPT !.raw_u[b_inv.read] = b_ntt.read_data]
    BY <1>8 DEF InvertU
  <2>2. /\ Writes(r, b_reg', {"raw_u"})
        /\ \/ b_reg'.raw_u = r.raw_u
           \/ b_reg'.raw_u = [r.raw_u EXCEPT ![b_inv.read] = b_ntt.read_data]
    BY <1>d, <2>1 DEF Writes, Registers
  <2>3. IsOver(b_reg'.raw_u, Indices)
    BY <2>2 DEF Arrays, IsOver
  <2> QED
    BY <2>2, <2>3 DEF Writes, Arrays, Registers
<1>9. CASE InvertV
  <2>1. \/ b_reg' = b_reg
        \/ b_reg' = [b_reg EXCEPT !.raw_v[b_inv.read] = b_ntt.read_data]
    BY <1>9 DEF InvertV
  <2>2. /\ Writes(r, b_reg', {"raw_v"})
        /\ \/ b_reg'.raw_v = r.raw_v
           \/ b_reg'.raw_v = [r.raw_v EXCEPT ![b_inv.read] = b_ntt.read_data]
    BY <1>d, <2>1 DEF Writes, Registers
  <2>3. IsOver(b_reg'.raw_v, Indices)
    BY <2>2 DEF Arrays, IsOver
  <2> QED
    BY <2>2, <2>3 DEF Writes, Arrays, Registers
<1>10. CASE AddError \/ AddMessage
  <2>1. Writes(r, b_reg', {"scale_in", "padd_a", "padd_b"})
    BY <1>10, <1>d DEF AddError, AddMessage, Adds, Writes, Registers
  <2> QED
    BY <1>0, <2>1 DEF ArrayNames
<1>11. CASE NextInverse
  <2>1. Writes(r, b_reg', {"u_vec"}) /\ b_reg'.u_vec = [r.u_vec EXCEPT ![b_ctr.inv] = Sum]
    BY <1>11, <1>d DEF NextInverse, Writes, Registers
  <2>2. IsOver(b_reg'.u_vec, Vec)
    BY <2>1 DEF Arrays, IsOver
  <2> QED
    BY <2>1, <2>2 DEF Writes, Arrays, Registers
<1>12. CASE DecodeMessage
  <2>1. /\ Writes(r, b_reg', {"scale_in", "scaled_v", "bdec1_in", "c1_y_in", "mu"})
        /\ \/ b_reg'.mu = r.mu
           \/ b_reg'.mu = [r.mu EXCEPT ![b_ctr.bit] = b_reg.c1_y_in]
    BY <1>12, <1>d DEF DecodeMessage, Writes, Registers
  <2>2. IsOver(b_reg'.mu, Indices)
    BY <2>1 DEF Arrays, IsOver
  <2> QED
    BY <2>1, <2>2 DEF Writes, Arrays, Registers
<1>13. CASE EncodeCiphertext
  <2> DEFINE X == {"v_poly", "bcompu_in", "bencu_in", "c_prime", "bcompv_in", "bencv_in"}
  <2>1. /\ Writes(r, b_reg', X)
        /\ \/ b_reg'.c_prime = r.c_prime
           \/ b_reg'.c_prime = [r.c_prime EXCEPT ![1] = ByteEncode(10, b_reg.bencu_in[0]),
                                                 ![2] = ByteEncode(10, b_reg.bencu_in[1])]
           \/ b_reg'.c_prime = [r.c_prime EXCEPT ![3] = ByteEncode(4, b_reg.bencv_in)]
    <3> HIDE DEF Compress, ByteEncode
    <3>1. CASE b_state = "ENCODE_U"
      BY <1>13, <1>d, <3>1 DEF EncodeCiphertext, Writes, Registers
    <3>2. CASE b_state # "ENCODE_U"
      BY <1>13, <1>d, <3>2 DEF EncodeCiphertext, Writes, Registers
    <3> QED
      BY <3>1, <3>2
  <2>2. IsOver(b_reg'.c_prime, 1 .. 3)
    BY <2>1 DEF IsOver, Arrays
  <2> QED
    BY <2>1, <2>2 DEF Writes, Arrays, Registers
<1>14. CASE SelectSecret
  <2>1. Writes(r, b_reg', {"match", "K_final"})
    BY <1>14, <1>d DEF SelectSecret, Calls, Writes, Registers
  <2> QED
    BY <1>0, <2>1 DEF ArrayNames
<1> QED
  BY <1>1, <1>2, <1>3, <1>4, <1>5, <1>6, <1>7, <1>8, <1>9, <1>10, <1>11, <1>12, <1>13, <1>14 DEF Fsm

LEMMA ShapeStep ==
  ASSUME ShapeInv, NEW go \in BOOLEAN, Clock(go)
  PROVE  ShapeInv'
<1>1. Arrays(b_reg')
  BY ArraysStep DEF ShapeInv, Clock
<1>2. IsDrive(b_drive') /\ IsIdx(b_fwd') /\ IsIdx(b_inv') /\ DOMAIN b_ctr' = DOMAIN b_ctr
  BY DriveStep DEF ShapeInv, Shape, Clock, IsDrive, IsIdx
<1>3. NttMoves(b_drive, b_ntt, b_ntt', go) /\ DOMAIN b_ntt' = DOMAIN b_ntt
  BY NttIsMoves DEF Clock, ShapeInv, NttMoves
<1>4. b_ntt'.bank = [c \in Indices |-> b_ntt'.bank[c]]
  <2> DEFINE b == IF b_ntt.fsm = "RUN" /\ go
                  THEN Stage(b_drive.op, b_drive.entry, b_ntt.bank) ELSE b_ntt.bank
  <2>1. b = [c \in Indices |-> b[c]]
    BY DEF Stage, Poly, Shape, ShapeInv
  <2>2. b_ntt'.bank = Pending(b_drive, b)
    BY <1>3 DEF NttMoves
  <2> HIDE DEF b
  <2> QED
    BY <2>1, <2>2 DEF Pending
<1> QED
  BY <1>1, <1>2, <1>3, <1>4 DEF ShapeInv, Shape, IsDrive, IsIdx

\* A pass begins with nothing loaded.
LEMMA PassStarts ==
  ASSUME NEW p, NEW next, Names(p, next), NEW f, NEW op, NEW idx, NEW drive, NEW ntt, NEW dest,
         NEW s, s = p.load, idx.load = 0
  PROVE  PassInv(p, f, op, s, idx, drive, ntt, dest)
<1>1. 0 \in Indices /\ \A c \in Indices : ~(c < 0)
  BY SizeAssumption DEF Indices
<1> QED
  BY <1>1 DEF PassInv, Names

(***************************************************************************)
(* A step of one of the three transforms of the core is a step of PassInv. *)
(***************************************************************************)
LEMMA ForwardPass ==
  ASSUME ShapeInv, StageInv, NEW go \in BOOLEAN, Clock(go), Transform, NEW f, b_ctr.fwd \in Vec,
         f = b_reg.y_vec[b_ctr.fwd],
         PassInv(Forward!FWD, f, "ntt", b_state, b_fwd, b_drive, b_ntt, b_reg.y_hat[b_ctr.fwd])
  PROVE  /\ b_state \in Passes(Forward!FWD) /\ b_state' \in Passes(Forward!FWD) \cup {"FWD_NEXT"}
         /\ Writes(b_reg, b_reg', {"y_hat"}) /\ b_ctr' = b_ctr /\ ~b_done'
         /\ \A i \in Vec : i # b_ctr.fwd => b_reg'.y_hat[i] = b_reg.y_hat[i]
         /\ PassInv(Forward!FWD, f, "ntt", b_state', b_fwd', b_drive', b_ntt',
                    b_reg'.y_hat[b_ctr.fwd])
         /\ b_state' = "FWD_NEXT" => b_reg'.y_hat[b_ctr.fwd] = Poly("ntt", Entries, f)
<1> DEFINE p == Forward!FWD  dest == b_reg.y_hat[b_ctr.fwd]  dest1 == b_reg'.y_hat[b_ctr.fwd]
<1>0. b_ctr' = b_ctr /\ ~b_done'
  BY DEF Transform, Quiet
<1>1. PassMoves(p, f, "ntt", "FWD_NEXT", b_state, b_fwd, b_drive, b_ntt, b_state', b_fwd', b_drive')
  BY DEF Transform, Forward!Pass, Forward!Load, Forward!SetUp, Forward!StartStage,
         Forward!EndStage, Forward!Fetch, Forward!Take, Forward!Arrives, Forward!Wait,
         Forward!Low, PassMoves, Coefficient, Forward!Coefficient
<1>2. b_state \in Passes(p) /\ b_state' \in Passes(p) \cup {"FWD_NEXT"}
  BY <1>1 DEF PassMoves, Passes
<1>3. Names(p, "FWD_NEXT")
  BY DEF Names, Forward!FWD
<1>4. InPass(p, b_state, b_drive, b_ntt)
  BY <1>2 DEF StageInv, InPass, Passes, Forward!FWD, Waits, Setups, Reads
<1>5. /\ Shape(b_fwd, b_drive, b_ntt.bank) /\ DOMAIN b_reg = Registers
      /\ IsOver(b_reg.y_hat, Vec) /\ IsOver(dest, Indices)
  BY DEF ShapeInv, Arrays
<1>6. /\ NttMoves(b_drive, b_ntt, b_ntt', go)
      /\ b_state \in {p.read, p.fetched} =>
           b_ntt'.read_valid /\ b_ntt'.read_data = b_ntt.bank[b_fwd.read]
  <2>1. /\ b_ntt'.read_valid = Reading
        /\ Reading => b_ntt'.read_data = b_ntt.bank[IF Inverting THEN b_inv.read ELSE b_fwd.read]
        /\ NttMoves(b_drive, b_ntt, b_ntt', go)
    BY NttIsMoves DEF ShapeInv, Clock
  <2>2. b_state \in {p.read, p.fetched} => Reading /\ ~Inverting
    BY DEF Reading, Inverting, ReadingOf, Forward!FWD, Inverse!INV_U, Inverse!INV_V
  <2> QED
    BY <2>1, <2>2
<1>7. /\ Writes(b_reg, b_reg', {"y_hat"})
      /\ b_reg'.y_hat = IF b_state = p.fetched /\ b_ntt.read_valid
                        THEN Put(b_reg.y_hat, b_ctr.fwd, b_fwd.read, b_ntt.read_data)
                        ELSE b_reg.y_hat
  BY <1>5 DEF Transform, Forward!Arrives, Writes, Registers, Put
<1>8. /\ dest1 = IF b_state = p.fetched /\ b_ntt.read_valid
                 THEN [dest EXCEPT ![b_fwd.read] = b_ntt.read_data] ELSE dest
      /\ \A i \in Vec : i # b_ctr.fwd => b_reg'.y_hat[i] = b_reg.y_hat[i]
  BY <1>5, <1>7 DEF Put, IsOver
<1> HIDE DEF p, dest, dest1
<1>9. /\ PassInv(p, f, "ntt", b_state', b_fwd', b_drive', b_ntt', dest1)
      /\ b_state' = "FWD_NEXT" => dest1 = Poly("ntt", Entries, f)
  <2>1. b_state \in {p.load, p.setup, p.start, p.wait, p.read, p.fetched}
    BY <1>2 DEF Passes
  <2>2. PassInv(p, f, "ntt", b_state, b_fwd, b_drive, b_ntt, dest)
    BY DEF p, dest
  <2> QED
    BY <1>1, <1>3, <1>4, <1>5, <1>6, <1>8, <2>1, <2>2, PassKeepsInv
<1> QED
  BY <1>0, <1>2, <1>7, <1>8, <1>9 DEF p, dest1

LEMMA InversePassU ==
  ASSUME ShapeInv, StageInv, NEW go \in BOOLEAN, Clock(go), InvertU, NEW f,
         f = b_reg.u_acc[b_ctr.inv],
         PassInv(Inverse!INV_U, f, "inverse", b_state, b_inv, b_drive, b_ntt, b_reg.raw_u)
  PROVE  /\ b_state \in Passes(Inverse!INV_U)
         /\ b_state' \in Passes(Inverse!INV_U) \cup {"INV_U_SCALE"}
         /\ Writes(b_reg, b_reg', {"raw_u"}) /\ b_ctr' = b_ctr /\ ~b_done'
         /\ PassInv(Inverse!INV_U, f, "inverse", b_state', b_inv', b_drive', b_ntt', b_reg'.raw_u)
         /\ b_state' = "INV_U_SCALE" => b_reg'.raw_u = Poly("inverse", Entries, f)
<1> DEFINE p == Inverse!INV_U  dest == b_reg.raw_u  dest1 == b_reg'.raw_u
<1>0. b_ctr' = b_ctr /\ ~b_done'
  BY DEF InvertU, Quiet
<1>1. PassMoves(p, f, "inverse", "INV_U_SCALE", b_state, b_inv, b_drive, b_ntt,
                b_state', b_inv', b_drive')
  BY DEF InvertU, Inverse!Pass, Inverse!Load, Inverse!SetUp, Inverse!StartStage,
         Inverse!EndStage, Inverse!Fetch, Inverse!Take, Inverse!Arrives, Inverse!Wait,
         Inverse!Low, PassMoves, Coefficient, Inverse!Coefficient
<1>2. b_state \in Passes(p) /\ b_state' \in Passes(p) \cup {"INV_U_SCALE"}
  BY <1>1 DEF PassMoves, Passes
<1>3. Names(p, "INV_U_SCALE")
  BY DEF Names, Inverse!INV_U
<1>4. InPass(p, b_state, b_drive, b_ntt)
  BY <1>2 DEF StageInv, InPass, Passes, Inverse!INV_U, Waits, Setups, Reads
<1>5. Shape(b_inv, b_drive, b_ntt.bank) /\ DOMAIN b_reg = Registers /\ IsOver(dest, Indices)
  BY DEF ShapeInv, Arrays
<1>6. /\ NttMoves(b_drive, b_ntt, b_ntt', go)
      /\ b_state \in {p.read, p.fetched} =>
           b_ntt'.read_valid /\ b_ntt'.read_data = b_ntt.bank[b_inv.read]
  <2>1. /\ b_ntt'.read_valid = Reading
        /\ Reading => b_ntt'.read_data = b_ntt.bank[IF Inverting THEN b_inv.read ELSE b_fwd.read]
        /\ NttMoves(b_drive, b_ntt, b_ntt', go)
    BY NttIsMoves DEF ShapeInv, Clock
  <2>2. b_state \in {p.read, p.fetched} => Reading /\ Inverting
    BY DEF Reading, Inverting, ReadingOf
  <2> QED
    BY <2>1, <2>2
<1>7. /\ Writes(b_reg, b_reg', {"raw_u"})
      /\ dest1 = IF b_state = p.fetched /\ b_ntt.read_valid
                 THEN [dest EXCEPT ![b_inv.read] = b_ntt.read_data] ELSE dest
  BY <1>5 DEF InvertU, Inverse!Arrives, Writes, Registers
<1> HIDE DEF p, dest, dest1
<1>9. /\ PassInv(p, f, "inverse", b_state', b_inv', b_drive', b_ntt', dest1)
      /\ b_state' = "INV_U_SCALE" => dest1 = Poly("inverse", Entries, f)
  <2>1. b_state \in {p.load, p.setup, p.start, p.wait, p.read, p.fetched}
    BY <1>2 DEF Passes
  <2>2. PassInv(p, f, "inverse", b_state, b_inv, b_drive, b_ntt, dest)
    BY DEF p, dest
  <2> QED
    BY <1>1, <1>3, <1>4, <1>5, <1>6, <1>7, <2>1, <2>2, PassKeepsInv
<1> QED
  BY <1>0, <1>2, <1>7, <1>9 DEF p, dest1

LEMMA InversePassV ==
  ASSUME ShapeInv, StageInv, NEW go \in BOOLEAN, Clock(go), InvertV, NEW f, f = b_reg.v_acc,
         PassInv(Inverse!INV_V, f, "inverse", b_state, b_inv, b_drive, b_ntt, b_reg.raw_v)
  PROVE  /\ b_state \in Passes(Inverse!INV_V)
         /\ b_state' \in Passes(Inverse!INV_V) \cup {"INV_V_SCALE"}
         /\ Writes(b_reg, b_reg', {"raw_v"}) /\ b_ctr' = b_ctr /\ ~b_done'
         /\ PassInv(Inverse!INV_V, f, "inverse", b_state', b_inv', b_drive', b_ntt', b_reg'.raw_v)
         /\ b_state' = "INV_V_SCALE" => b_reg'.raw_v = Poly("inverse", Entries, f)
<1> DEFINE p == Inverse!INV_V  dest == b_reg.raw_v  dest1 == b_reg'.raw_v
<1>0. b_ctr' = b_ctr /\ ~b_done'
  BY DEF InvertV, Quiet
<1>1. PassMoves(p, f, "inverse", "INV_V_SCALE", b_state, b_inv, b_drive, b_ntt,
                b_state', b_inv', b_drive')
  BY DEF InvertV, Inverse!Pass, Inverse!Load, Inverse!SetUp, Inverse!StartStage,
         Inverse!EndStage, Inverse!Fetch, Inverse!Take, Inverse!Arrives, Inverse!Wait,
         Inverse!Low, PassMoves, Coefficient, Inverse!Coefficient
<1>2. b_state \in Passes(p) /\ b_state' \in Passes(p) \cup {"INV_V_SCALE"}
  BY <1>1 DEF PassMoves, Passes
<1>3. Names(p, "INV_V_SCALE")
  BY DEF Names, Inverse!INV_V
<1>4. InPass(p, b_state, b_drive, b_ntt)
  BY <1>2 DEF StageInv, InPass, Passes, Inverse!INV_V, Waits, Setups, Reads
<1>5. Shape(b_inv, b_drive, b_ntt.bank) /\ DOMAIN b_reg = Registers /\ IsOver(dest, Indices)
  BY DEF ShapeInv, Arrays
<1>6. /\ NttMoves(b_drive, b_ntt, b_ntt', go)
      /\ b_state \in {p.read, p.fetched} =>
           b_ntt'.read_valid /\ b_ntt'.read_data = b_ntt.bank[b_inv.read]
  <2>1. /\ b_ntt'.read_valid = Reading
        /\ Reading => b_ntt'.read_data = b_ntt.bank[IF Inverting THEN b_inv.read ELSE b_fwd.read]
        /\ NttMoves(b_drive, b_ntt, b_ntt', go)
    BY NttIsMoves DEF ShapeInv, Clock
  <2>2. b_state \in {p.read, p.fetched} => Reading /\ Inverting
    BY DEF Reading, Inverting, ReadingOf
  <2> QED
    BY <2>1, <2>2
<1>7. /\ Writes(b_reg, b_reg', {"raw_v"})
      /\ dest1 = IF b_state = p.fetched /\ b_ntt.read_valid
                 THEN [dest EXCEPT ![b_inv.read] = b_ntt.read_data] ELSE dest
  BY <1>5 DEF InvertV, Inverse!Arrives, Writes, Registers
<1> HIDE DEF p, dest, dest1
<1>9. /\ PassInv(p, f, "inverse", b_state', b_inv', b_drive', b_ntt', dest1)
      /\ b_state' = "INV_V_SCALE" => dest1 = Poly("inverse", Entries, f)
  <2>1. b_state \in {p.load, p.setup, p.start, p.wait, p.read, p.fetched}
    BY <1>2 DEF Passes
  <2>2. PassInv(p, f, "inverse", b_state, b_inv, b_drive, b_ntt, dest)
    BY DEF p, dest
  <2> QED
    BY <1>1, <1>3, <1>4, <1>5, <1>6, <1>7, <2>1, <2>2, PassKeepsInv
<1> QED
  BY <1>0, <1>2, <1>7, <1>9 DEF p, dest1

-----------------------------------------------------------------------------
(***************************************************************************)
(* The phases one after the other: each step takes what DataInv says of    *)
(* the registers to what it says of them next.                             *)
(***************************************************************************)
LEMMA BeginData ==
  ASSUME NEW w, DataInv(w), Begin, b_start \/ b_state # "IDLE" => WiresAre(w)
  PROVE  PhaseInv(w)'
<1>0. DOMAIN b_reg = Registers /\ DOMAIN b_ctr = {"i", "j", "n", "fwd", "col", "mj", "inv", "bit"}
  BY DEF DataInv, ShapeInv, Arrays
<1>1. CASE b_state = "IDLE" /\ b_start
  <2>1. b_state' = "DECODE_T" /\ ~b_done' /\ b_reg' = [b_reg EXCEPT !.ek = ek_in, !.rho = Part(ek_in, K)]
    BY <1>1 DEF Begin, Stores, Quiet
  <2>2. b_reg'.ek = w.ek /\ b_reg'.rho = Part(w.ek, K)
    BY <1>0, <1>1, <2>1 DEF Registers, WiresAre
  <2> QED
    BY <2>1, <2>2 DEF PhaseInv, StartInv, SampleInv, DrawInv, ForwardInv, MultiplyUInv,
         MultiplyVInv, InvertUInv, InvertVInv, DecodeInv, AddInv, EncodeInv, ChooseInv, EndInv,
         Sampling, Drawing, Forwarding, MultiplyingU, MultiplyingV, InvertingU, InvertingV,
         DecodingMu, Adding, Encoding, Choosing
<1>2. CASE b_state = "DECODE_T"
  <2>1. /\ b_state' = "START_SNTT" /\ ~b_done' /\ b_ctr' = [b_ctr EXCEPT !.i = 0, !.j = 0]
        /\ b_reg' = [b_reg EXCEPT !.t_hat = [i \in Vec |-> ByteDecode(12, Part(b_reg.ek, i))]]
    BY <1>2 DEF Begin, Stores, Quiet
  <2>2. b_reg.ek = w.ek /\ b_reg.rho = Part(w.ek, K)
    BY <1>2 DEF DataInv, PhaseInv, StartInv
  <2>3. b_reg'.t_hat = [i \in Vec |-> TOf(w, i)] /\ b_reg'.rho = Part(w.ek, K)
    BY <1>0, <2>1, <2>2 DEF Registers, TOf
  <2>4. b_ctr'.i = 0 /\ b_ctr'.j = 0 /\ 0 \in Vec
    BY <1>0, <2>1 DEF Vec, K
  <2>5. \A i, j \in Vec : ~(K * i + j < K * 0 + 0)
    BY DEF Vec, K
  <2>6. SampleInv(w)'
    BY <2>1, <2>3, <2>4, <2>5 DEF SampleInv, HasKey
  <2> QED
    BY <2>1, <2>6 DEF PhaseInv, StartInv, DrawInv, ForwardInv, MultiplyUInv,
         MultiplyVInv, InvertUInv, InvertVInv, DecodeInv, AddInv, EncodeInv, ChooseInv, EndInv,
         Drawing, Forwarding, MultiplyingU, MultiplyingV, InvertingU, InvertingV,
         DecodingMu, Adding, Encoding, Choosing
<1> QED
  BY <1>1, <1>2 DEF Begin

\* What the sampler returns is the entry it was asked for.
LEMMA MatrixData ==
  ASSUME NEW w, DataInv(w), CallInv, ResultInv, SampleMatrix
  PROVE  PhaseInv(w)'
<1>0. /\ DOMAIN b_reg = Registers /\ DOMAIN b_ctr = {"i", "j", "n", "fwd", "col", "mj", "inv", "bit"}
      /\ IsOver(b_reg.A, Vec) /\ \A i \in Vec : IsOver(b_reg.A[i], Vec)
  BY DEF DataInv, ShapeInv, Arrays
<1>1. /\ b_state \in Sampling /\ b_state' \in Sampling \cup {"START_CBD1"} /\ ~b_done'
      /\ Writes(b_reg, b_reg', {"A"})
  BY <1>0 DEF SampleMatrix, Stores, Calls, Quiet, Sampling, Writes, Registers
<1>2. /\ HasKey(w, b_reg) /\ b_reg.rho = Part(w.ek, K) /\ b_ctr.i \in Vec /\ b_ctr.j \in Vec
      /\ \A i, j \in Vec : K * i + j < K * b_ctr.i + b_ctr.j => b_reg.A[i][j] = AOf(w, i, j)
  BY <1>1 DEF DataInv, PhaseInv, SampleInv
<1>3. HasKey(w, b_reg)' /\ b_reg'.rho = Part(w.ek, K)
  BY <1>1, <1>2 DEF HasKey, Writes, Registers
<1>4. ASSUME b_state' \in Sampling => SampleInv(w)', b_state' = "START_CBD1" => DrawInv(w)'
      PROVE  PhaseInv(w)'
  BY <1>1, <1>4 DEF PhaseInv, StartInv, SampleInv, DrawInv, ForwardInv, MultiplyUInv,
         MultiplyVInv, InvertUInv, InvertVInv, DecodeInv, AddInv, EncodeInv, ChooseInv, EndInv,
         Sampling, Drawing, Forwarding, MultiplyingU, MultiplyingV, InvertingU, InvertingV,
         DecodingMu, Adding, Encoding, Choosing
<1>5. CASE b_state = "START_SNTT"
  <2>1. /\ b_state' = "WAIT_SNTT" /\ UNCHANGED <<b_ctr, b_reg>>
        /\ b_in'["samplentt"] = <<Part(w.ek, K), b_ctr.j, b_ctr.i>>
    BY <1>2, <1>5 DEF SampleMatrix, Calls, CallInv, Units
  <2>2. SampleInv(w)'
    BY <1>2, <1>3, <2>1 DEF SampleInv
  <2> QED
    BY <1>4, <2>1, <2>2
<1>6. CASE b_state = "WAIT_SNTT"
  <2>1. /\ b_state' = "SNTT_NEXT" /\ b_ctr' = b_ctr
        /\ b_reg'.A = Put(b_reg.A, b_ctr.i, b_ctr.j, b_unit["samplentt"].out)
        /\ b_unit["samplentt"].done
    BY <1>0, <1>6 DEF SampleMatrix, Stores, Registers, Put
  <2>2. b_unit["samplentt"].out = AOf(w, b_ctr.i, b_ctr.j)
    <3>1. b_in["samplentt"] = <<Part(w.ek, K), b_ctr.j, b_ctr.i>>
      BY <1>6 DEF DataInv, PhaseInv, SampleInv, Sampling
    <3>2. b_unit["samplentt"].out = Result("samplentt", b_in["samplentt"])
      BY <1>6, <2>1 DEF ResultInv, WaitOf, Units
    <3> QED
      BY <3>1, <3>2 DEF Result, AOf
  <2>3. /\ b_reg'.A[b_ctr.i][b_ctr.j] = AOf(w, b_ctr.i, b_ctr.j)
        /\ \A i, j \in Vec : i # b_ctr.i \/ j # b_ctr.j => b_reg'.A[i][j] = b_reg.A[i][j]
    <3>1. \A i \in Vec : i # b_ctr.i => b_reg'.A[i] = b_reg.A[i]
      BY <1>0, <2>1 DEF Put, IsOver
    <3>2. b_reg'.A[b_ctr.i] = [b_reg.A[b_ctr.i] EXCEPT ![b_ctr.j] = AOf(w, b_ctr.i, b_ctr.j)]
      BY <1>0, <1>2, <2>1, <2>2 DEF Put, IsOver
    <3>3. DOMAIN b_reg.A[b_ctr.i] = Vec
      BY <1>0, <1>2 DEF IsOver
    <3> HIDE DEF AOf
    <3> QED
      BY <1>2, <3>1, <3>2, <3>3
  <2>4. \A i, j \in Vec : K * i + j < K * b_ctr.i + b_ctr.j => i # b_ctr.i \/ j # b_ctr.j
    BY <1>2 DEF Vec, K
  <2>5. SampleInv(w)'
    BY <1>2, <1>3, <2>1, <2>3, <2>4 DEF SampleInv
  <2> QED
    BY <1>4, <2>1, <2>5
<1>7. CASE b_state = "SNTT_NEXT"
  <2>0. b_reg' = b_reg /\ b_reg.A[b_ctr.i][b_ctr.j] = AOf(w, b_ctr.i, b_ctr.j)
    BY <1>7 DEF SampleMatrix, Stores, DataInv, PhaseInv, SampleInv, Sampling
  <2>1. \A i, j \in Vec : K * i + j < K * b_ctr.i + b_ctr.j + 1 => b_reg.A[i][j] = AOf(w, i, j)
    <3>1. ASSUME NEW i \in Vec, NEW j \in Vec, K * i + j < K * b_ctr.i + b_ctr.j + 1
          PROVE  (i = b_ctr.i /\ j = b_ctr.j) \/ K * i + j < K * b_ctr.i + b_ctr.j
      BY <1>2, <3>1 DEF Vec, K
    <3> QED
      BY <1>2, <2>0, <3>1
  <2>2. CASE b_state' = "START_SNTT"
    <3>1. /\ b_ctr'.i \in Vec /\ b_ctr'.j \in Vec
          /\ K * b_ctr'.i + b_ctr'.j = K * b_ctr.i + b_ctr.j + 1
      <4>1. \/ b_ctr.j < K - 1 /\ b_ctr' = [b_ctr EXCEPT !.j = @ + 1]
            \/ b_ctr.j = K - 1 /\ b_ctr.i < K - 1 /\ b_ctr' = [b_ctr EXCEPT !.j = 0, !.i = @ + 1]
        BY <1>7, <2>2 DEF SampleMatrix, Stores
      <4>2. \/ b_ctr.j < K - 1 /\ b_ctr'.j = b_ctr.j + 1 /\ b_ctr'.i = b_ctr.i
            \/ b_ctr.j = K - 1 /\ b_ctr.i < K - 1 /\ b_ctr'.j = 0 /\ b_ctr'.i = b_ctr.i + 1
        BY <1>0, <4>1
      <4> QED
        BY <1>2, <4>2 DEF Vec, K
    <3>2. SampleInv(w)'
      BY <1>2, <1>3, <2>0, <2>1, <2>2, <3>1 DEF SampleInv
    <3> QED
      BY <1>4, <2>2, <3>2
  <2>3. CASE b_state' # "START_SNTT"
    <3>1. b_state' = "START_CBD1" /\ b_ctr.i = 1 /\ b_ctr.j = 1 /\ b_ctr'.n = 0
      <4>1. /\ b_state' = "START_CBD1" /\ b_ctr.j = K - 1 /\ b_ctr.i = K - 1
            /\ b_ctr' = [b_ctr EXCEPT !.j = 0, !.i = 0, !.n = 0]
        BY <1>7, <2>3 DEF SampleMatrix, Stores
      <4> QED
        BY <1>0, <4>1 DEF K
    <3>2. HasMatrix(w, b_reg)
      <4>1. \A i, j \in Vec : K * i + j < K * 1 + 1 + 1
        BY DEF Vec, K
      <4> QED
        BY <2>1, <3>1, <4>1 DEF HasMatrix
    <3>3. DrawInv(w)'
      BY <1>3, <2>0, <3>1, <3>2 DEF DrawInv, Drawing, Vec, K
    <3> QED
      BY <1>4, <3>1, <3>3 DEF Sampling
  <2> QED
    BY <2>2, <2>3
<1> QED
  BY <1>1, <1>5, <1>6, <1>7 DEF Sampling

LEMMA VectorsData ==
  ASSUME NEW w, DataInv(w), CallInv, ResultInv, SampleVectors, WiresAre(w)
  PROVE  PhaseInv(w)'
<1>0. /\ DOMAIN b_reg = Registers /\ DOMAIN b_ctr = {"i", "j", "n", "fwd", "col", "mj", "inv", "bit"}
      /\ IsOver(b_reg.y_vec, Vec) /\ IsOver(b_reg.e1, Vec)
  BY DEF DataInv, ShapeInv, Arrays
<1>1. /\ b_state \in Drawing /\ b_state' \in Drawing /\ ~b_done'
      /\ Writes(b_reg, b_reg', {"y_vec", "e1"})
  BY <1>0 DEF SampleVectors, Stores, Calls, Quiet, Drawing, Writes, Registers
<1>2. /\ HasKey(w, b_reg) /\ HasMatrix(w, b_reg) /\ b_ctr.n \in 0 .. 2 * K
      /\ b_state \in {"START_CBD1", "WAIT_CBD1"} <=> b_ctr.n < K
      /\ \A i \in Vec : i < b_ctr.n => b_reg.y_vec[i] = YOf(w, i)
      /\ \A i \in Vec : K + i < b_ctr.n => b_reg.e1[i] = EOf(w, i)
  BY <1>1 DEF DataInv, PhaseInv, DrawInv
<1>3. HasKey(w, b_reg)' /\ HasMatrix(w, b_reg)'
  BY <1>1, <1>2 DEF HasKey, HasMatrix, Writes, Registers
<1>4. ASSUME DrawInv(w)' PROVE PhaseInv(w)'
  BY <1>1, <1>4 DEF PhaseInv, StartInv, SampleInv, ForwardInv, MultiplyUInv,
         MultiplyVInv, InvertUInv, InvertVInv, DecodeInv, AddInv, EncodeInv, ChooseInv, EndInv,
         Sampling, Drawing, Forwarding, MultiplyingU, MultiplyingV, InvertingU, InvertingV,
         DecodingMu, Adding, Encoding, Choosing
<1>5. CASE b_state \in {"START_CBD1", "START_CBD2"}
  <2>1. /\ UNCHANGED <<b_ctr, b_reg>>
        /\ \/ /\ b_state = "START_CBD1" /\ b_state' = "WAIT_CBD1"
              /\ b_in'["cbd1"] = <<w.r, b_ctr.n>>
           \/ /\ b_state = "START_CBD2" /\ b_state' = "WAIT_CBD2"
              /\ b_in'["cbd2"] = <<w.r, b_ctr.n>>
    BY <1>5 DEF SampleVectors, Calls, CallInv, Units, WiresAre
  <2>2. DrawInv(w)'
    BY <1>2, <1>3, <2>1 DEF DrawInv
  <2> QED
    BY <1>4, <2>2
<1>6. CASE b_state = "WAIT_CBD1"
  <2>1. /\ b_state' = (IF b_ctr.n = K - 1 THEN "START_CBD2" ELSE "START_CBD1")
        /\ b_ctr' = [b_ctr EXCEPT !.n = @ + 1] /\ b_unit["cbd1"].done
        /\ b_reg'.y_vec = [b_reg.y_vec EXCEPT ![b_ctr.n % 2] = b_unit["cbd1"].out]
        /\ b_reg'.e1 = b_reg.e1
    BY <1>0, <1>6 DEF SampleVectors, Stores, Registers
  <2>2. b_unit["cbd1"].out = YOf(w, b_ctr.n)
    <3>1. b_in["cbd1"] = <<w.r, b_ctr.n>>
      BY <1>6 DEF DataInv, PhaseInv, DrawInv, Drawing
    <3>2. b_unit["cbd1"].out = Result("cbd1", b_in["cbd1"])
      BY <1>6, <2>1 DEF ResultInv, WaitOf, Units
    <3> QED
      BY <3>1, <3>2 DEF Result, YOf
  <2>3. b_ctr.n \in Vec /\ b_ctr.n % 2 = b_ctr.n /\ b_ctr'.n = b_ctr.n + 1
    BY <1>0, <1>2, <1>6, <2>1 DEF Vec, K
  <2>4. /\ b_reg'.y_vec[b_ctr.n] = YOf(w, b_ctr.n)
        /\ \A i \in Vec : i # b_ctr.n => b_reg'.y_vec[i] = b_reg.y_vec[i]
    BY <1>0, <2>1, <2>2, <2>3 DEF IsOver
  <2>5. \A i \in Vec : i < b_ctr'.n => b_reg'.y_vec[i] = YOf(w, i)
    <3>1. ASSUME NEW i \in Vec, i < b_ctr'.n PROVE i = b_ctr.n \/ i < b_ctr.n
      BY <2>3, <3>1 DEF Vec, K
    <3> QED
      BY <1>2, <2>4, <3>1
  <2>6. /\ \A i \in Vec : ~(K + i < b_ctr'.n)
        /\ b_ctr'.n \in 0 .. 2 * K
        /\ b_state' \in {"START_CBD1", "WAIT_CBD1"} <=> b_ctr'.n < K
    BY <2>1, <2>3 DEF Vec, K
  <2>7. DrawInv(w)'
    BY <1>3, <2>1, <2>5, <2>6 DEF DrawInv
  <2> QED
    BY <1>4, <2>7
<1>7. CASE b_state = "WAIT_CBD2"
  <2>1. /\ b_state' = "START_CBD2" /\ b_ctr.n < 2 * K
        /\ b_ctr' = [b_ctr EXCEPT !.n = @ + 1] /\ b_unit["cbd2"].done
        /\ b_reg'.e1 = [b_reg.e1 EXCEPT ![b_ctr.n - K] = b_unit["cbd2"].out]
        /\ b_reg'.y_vec = b_reg.y_vec
    BY <1>0, <1>7 DEF SampleVectors, Stores, Registers
  <2>2. b_ctr.n - K \in Vec /\ K + (b_ctr.n - K) = b_ctr.n /\ b_ctr'.n = b_ctr.n + 1
    BY <1>0, <1>2, <1>7, <2>1 DEF Vec, K
  <2>3. b_unit["cbd2"].out = EOf(w, b_ctr.n - K)
    <3>1. b_in["cbd2"] = <<w.r, b_ctr.n>>
      BY <1>7 DEF DataInv, PhaseInv, DrawInv, Drawing
    <3>2. b_unit["cbd2"].out = Result("cbd2", b_in["cbd2"])
      BY <1>7, <2>1 DEF ResultInv, WaitOf, Units
    <3> QED
      BY <2>2, <3>1, <3>2 DEF Result, EOf
  <2>4. /\ b_reg'.e1[b_ctr.n - K] = EOf(w, b_ctr.n - K)
        /\ \A i \in Vec : i # b_ctr.n - K => b_reg'.e1[i] = b_reg.e1[i]
    BY <1>0, <2>1, <2>2, <2>3 DEF IsOver
  <2>5. \A i \in Vec : K + i < b_ctr'.n => b_reg'.e1[i] = EOf(w, i)
    <3>1. ASSUME NEW i \in Vec, K + i < b_ctr'.n PROVE i = b_ctr.n - K \/ K + i < b_ctr.n
      BY <1>2, <2>2, <3>1 DEF Vec, K
    <3> QED
      BY <1>2, <2>4, <3>1
  <2>6. /\ \A i \in Vec : i < b_ctr.n
        /\ b_ctr'.n \in 0 .. 2 * K /\ ~(b_ctr'.n < K)
    BY <1>2, <1>7, <2>1, <2>2 DEF Vec, K
  <2>7. DrawInv(w)'
    BY <1>2, <1>3, <2>1, <2>5, <2>6 DEF DrawInv
  <2> QED
    BY <1>4, <2>7
<1> QED
  BY <1>1, <1>5, <1>6, <1>7 DEF Drawing

LEMMA LastVectorData ==
  ASSUME NEW w, DataInv(w), CallInv, ResultInv, SampleLast
  PROVE  PhaseInv(w)'
<1>0. /\ DOMAIN b_reg = Registers /\ DOMAIN b_ctr = {"i", "j", "n", "fwd", "col", "mj", "inv", "bit"}
      /\ DOMAIN b_fwd = {"load", "sched", "read"}
  BY DEF DataInv, ShapeInv, Arrays, Shape
<1>1. /\ b_state = "WAIT_CBD2" /\ b_state' = "FWD_LOAD" /\ ~b_done' /\ b_ctr.n = 2 * K
      /\ b_unit["cbd2"].done /\ Writes(b_reg, b_reg', {"e2"})
      /\ b_reg'.e2 = b_unit["cbd2"].out /\ b_ctr'.fwd = 0 /\ b_fwd'.load = 0
  BY <1>0 DEF SampleLast, Stores, Quiet, Writes, Registers
<1>2. /\ HasKey(w, b_reg) /\ HasMatrix(w, b_reg) /\ b_in["cbd2"] = <<w.r, b_ctr.n>>
      /\ \A i \in Vec : i < b_ctr.n => b_reg.y_vec[i] = YOf(w, i)
      /\ \A i \in Vec : K + i < b_ctr.n => b_reg.e1[i] = EOf(w, i)
  BY <1>1 DEF DataInv, PhaseInv, DrawInv, Drawing
<1>3. b_reg'.e2 = EOf(w, K)
  <2>1. b_unit["cbd2"].out = Result("cbd2", b_in["cbd2"])
    BY <1>1 DEF ResultInv, WaitOf, Units
  <2> QED
    BY <1>1, <1>2, <2>1 DEF Result, EOf, K
<1>4. HasY(w, b_reg) /\ \A i \in Vec : b_reg.e1[i] = EOf(w, i)
  <2>1. \A i \in Vec : i < b_ctr.n /\ K + i < b_ctr.n
    BY <1>1 DEF Vec, K
  <2> QED
    BY <1>2, <2>1 DEF HasY
<1>5. HasKey(w, b_reg') /\ HasMatrix(w, b_reg') /\ HasY(w, b_reg') /\ HasErrors(w, b_reg')
  BY <1>1, <1>2, <1>3, <1>4 DEF HasKey, HasMatrix, HasY, HasErrors, Writes, Registers
<1>6. PassInv(Forward!FWD, YOf(w, b_ctr'.fwd), "ntt", b_state', b_fwd', b_drive', b_ntt',
              b_reg'.y_hat[b_ctr'.fwd])
  <2>1. Names(Forward!FWD, "FWD_NEXT") /\ b_state' = Forward!FWD.load
    BY <1>1 DEF Names, Forward!FWD
  <2> QED
    BY <1>1, <2>1, PassStarts
<1>7. ForwardInv(w)'
  BY <1>1, <1>5, <1>6 DEF ForwardInv, HasKey, HasMatrix, HasY, HasErrors, Vec, K
<1> QED
  BY <1>1, <1>7 DEF PhaseInv, StartInv, SampleInv, DrawInv, MultiplyUInv,
         MultiplyVInv, InvertUInv, InvertVInv, DecodeInv, AddInv, EncodeInv, ChooseInv, EndInv,
         Sampling, Drawing, MultiplyingU, MultiplyingV, InvertingU, InvertingV,
         DecodingMu, Adding, Encoding, Choosing

LEMMA ForwardData ==
  ASSUME NEW w, DataInv(w), StageInv, NEW go \in BOOLEAN, Clock(go), Transform
  PROVE  PhaseInv(w)'
<1> DEFINE i == b_ctr.fwd
<1>1. b_state \in Forwarding
  BY DEF Forwarding, Transform, Forward!Pass, Forward!Load, Forward!SetUp, Forward!StartStage,
         Forward!EndStage, Forward!Fetch, Forward!Take, Forward!Arrives, Forward!Wait, Forward!FWD
<1>2. /\ HasKey(w, b_reg) /\ HasMatrix(w, b_reg) /\ HasY(w, b_reg) /\ HasErrors(w, b_reg)
      /\ i \in Vec
      /\ \A a \in Vec : a < i => b_reg.y_hat[a] = Poly("ntt", Entries, YOf(w, a))
      /\ PassInv(Forward!FWD, YOf(w, i), "ntt", b_state, b_fwd, b_drive, b_ntt, b_reg.y_hat[i])
  BY <1>1 DEF DataInv, PhaseInv, ForwardInv
<1>3. YOf(w, i) = b_reg.y_vec[i]
  BY <1>2 DEF HasY
<1>4. /\ b_state' \in Passes(Forward!FWD) \cup {"FWD_NEXT"}
      /\ Writes(b_reg, b_reg', {"y_hat"}) /\ b_ctr' = b_ctr /\ ~b_done'
      /\ \A a \in Vec : a # i => b_reg'.y_hat[a] = b_reg.y_hat[a]
      /\ PassInv(Forward!FWD, YOf(w, i), "ntt", b_state', b_fwd', b_drive', b_ntt', b_reg'.y_hat[i])
      /\ b_state' = "FWD_NEXT" => b_reg'.y_hat[i] = Poly("ntt", Entries, YOf(w, i))
  BY <1>2, <1>3, ForwardPass DEF DataInv
<1>5. HasKey(w, b_reg') /\ HasMatrix(w, b_reg') /\ HasY(w, b_reg') /\ HasErrors(w, b_reg')
  BY <1>2, <1>4 DEF HasKey, HasMatrix, HasY, HasErrors, Writes, Registers
<1>6. \A a \in Vec : a < i => b_reg'.y_hat[a] = Poly("ntt", Entries, YOf(w, a))
  BY <1>2, <1>4 DEF Vec, K
<1>7. ForwardInv(w)'
  BY <1>2, <1>4, <1>5, <1>6 DEF ForwardInv, HasKey, HasMatrix, HasY, HasErrors
<1> QED
  BY <1>4, <1>7 DEF PhaseInv, StartInv, SampleInv, DrawInv, MultiplyUInv, Passes, Forward!FWD,
         MultiplyVInv, InvertUInv, InvertVInv, DecodeInv, AddInv, EncodeInv, ChooseInv, EndInv,
         Sampling, Drawing, MultiplyingU, MultiplyingV, InvertingU, InvertingV,
         DecodingMu, Adding, Encoding, Choosing

LEMMA NextForwardData ==
  ASSUME NEW w, DataInv(w), NextTransform
  PROVE  PhaseInv(w)'
<1>0. /\ DOMAIN b_ctr = {"i", "j", "n", "fwd", "col", "mj", "inv", "bit"}
      /\ DOMAIN b_fwd = {"load", "sched", "read"}
  BY DEF DataInv, ShapeInv, Arrays, Shape
<1>1. /\ b_state = "FWD_NEXT" /\ b_state' = "FWD_LOAD" /\ ~b_done' /\ b_ctr.fwd < K - 1
      /\ b_reg' = b_reg /\ b_ctr'.fwd = b_ctr.fwd + 1 /\ b_fwd'.load = 0
  BY <1>0 DEF NextTransform, Stores, Quiet
<1>2. /\ HasKey(w, b_reg) /\ HasMatrix(w, b_reg) /\ HasY(w, b_reg) /\ HasErrors(w, b_reg)
      /\ b_ctr.fwd \in Vec
      /\ \A a \in Vec : a < b_ctr.fwd => b_reg.y_hat[a] = Poly("ntt", Entries, YOf(w, a))
      /\ b_reg.y_hat[b_ctr.fwd] = Poly("ntt", Entries, YOf(w, b_ctr.fwd))
  BY <1>1 DEF DataInv, PhaseInv, ForwardInv, Forwarding
<1>3. /\ b_ctr'.fwd \in Vec
      /\ \A a \in Vec : a < b_ctr'.fwd => a = b_ctr.fwd \/ a < b_ctr.fwd
  BY <1>1, <1>2 DEF Vec, K
<1>4. PassInv(Forward!FWD, YOf(w, b_ctr'.fwd), "ntt", b_state', b_fwd', b_drive', b_ntt',
              b_reg'.y_hat[b_ctr'.fwd])
  <2>1. Names(Forward!FWD, "FWD_NEXT") /\ b_state' = Forward!FWD.load
    BY <1>1 DEF Names, Forward!FWD
  <2> QED
    BY <1>1, <2>1, PassStarts
<1>5. ForwardInv(w)'
  BY <1>1, <1>2, <1>3, <1>4 DEF ForwardInv, HasKey, HasMatrix, HasY, HasErrors
<1> QED
  BY <1>1, <1>5 DEF PhaseInv, StartInv, SampleInv, DrawInv, MultiplyUInv,
         MultiplyVInv, InvertUInv, InvertVInv, DecodeInv, AddInv, EncodeInv, ChooseInv, EndInv,
         Sampling, Drawing, MultiplyingU, MultiplyingV, InvertingU, InvertingV,
         DecodingMu, Adding, Encoding, Choosing

LEMMA SumsGrow ==
  ASSUME NEW w, NEW i, NEW n \in Vec
  PROVE  /\ USum(w, i, 0) = Zero /\ VSum(w, 0) = Zero
         /\ USum(w, i, n + 1) = Plus(USum(w, i, n), UProduct(w, i, n))
         /\ VSum(w, n + 1) = Plus(VSum(w, n), VProduct(w, n))
<1>1. n = 0 \/ n = 1
  BY DEF Vec, K
<1> QED
  BY <1>1 DEF USum, VSum

LEMMA ProductsAre ==
  ASSUME NEW w, HasHats(w, b_reg), b_ctr.mj \in Vec
  PROVE  /\ b_state # "MATMUL_V" /\ HasMatrix(w, b_reg) /\ b_ctr.col \in Vec
              => Product = UProduct(w, b_ctr.col, b_ctr.mj)
         /\ b_state = "MATMUL_V" /\ HasKey(w, b_reg) => Product = VProduct(w, b_ctr.mj)
<1>1. Gather(b_reg.y_hat[b_ctr.mj]) = NTT(YOf(w, b_ctr.mj))
  BY GatherPoly DEF HasHats, NTT
<1> QED
  BY <1>1 DEF Product, UProduct, VProduct, HasMatrix, HasKey

LEMMA MultiplyData ==
  ASSUME NEW w, DataInv(w), MultiplyMatrix
  PROVE  PhaseInv(w)'
<1>0. /\ DOMAIN b_reg = Registers /\ DOMAIN b_ctr = {"i", "j", "n", "fwd", "col", "mj", "inv", "bit"}
      /\ IsOver(b_reg.u_acc, Vec) /\ 0 \in Vec
  BY DEF DataInv, ShapeInv, Arrays, Vec, K
<1>1. /\ b_state \in {"FWD_NEXT"} \cup MultiplyingU \cup MultiplyingV
      /\ b_state' \in MultiplyingU \cup MultiplyingV /\ ~b_done'
      /\ Writes(b_reg, b_reg', {"u_acc", "v_acc", "padd_a", "padd_b"})
  BY <1>0 DEF MultiplyMatrix, Adds, Stores, Quiet, MultiplyingU, MultiplyingV, Writes, Registers
<1>2. ASSUME b_state' \in MultiplyingU => MultiplyUInv(w)',
             b_state' \in MultiplyingV => MultiplyVInv(w)'
      PROVE  PhaseInv(w)'
  BY <1>1, <1>2 DEF PhaseInv, StartInv, SampleInv, DrawInv, ForwardInv, MultiplyUInv,
         MultiplyVInv, InvertUInv, InvertVInv, DecodeInv, AddInv, EncodeInv, ChooseInv, EndInv,
         Sampling, Drawing, Forwarding, MultiplyingU, MultiplyingV, InvertingU, InvertingV,
         DecodingMu, Adding, Encoding, Choosing
<1>3. CASE b_state = "FWD_NEXT"
  <2>1. /\ b_state' = "MATMUL_U" /\ b_ctr.fwd = K - 1
        /\ b_ctr' = [b_ctr EXCEPT !.col = 0, !.mj = 0]
        /\ b_reg' = [b_reg EXCEPT !.u_acc = [i \in Vec |-> Zero], !.v_acc = Zero]
    BY <1>3 DEF MultiplyMatrix, Stores
  <2>2. /\ b_ctr'.col = 0 /\ b_ctr'.mj = 0
        /\ b_reg'.u_acc = [i \in Vec |-> Zero] /\ b_reg'.v_acc = Zero
    BY <1>0, <2>1 DEF Registers
  <2>3. /\ HasKey(w, b_reg) /\ HasMatrix(w, b_reg) /\ HasErrors(w, b_reg)
        /\ HasHats(w, b_reg)
    <3>1. \A i \in Vec : i = b_ctr.fwd \/ i < b_ctr.fwd
      BY <2>1 DEF Vec, K
    <3> QED
      BY <1>3, <3>1 DEF DataInv, PhaseInv, ForwardInv, Forwarding, HasHats
  <2>4. /\ HasKey(w, b_reg') /\ HasMatrix(w, b_reg') /\ HasErrors(w, b_reg') /\ HasHats(w, b_reg')
    BY <1>1, <2>3 DEF HasKey, HasMatrix, HasErrors, HasHats, Writes, Registers
  <2>5. MultiplyUInv(w)'
    BY <1>0, <2>1, <2>2, <2>4, SumsGrow DEF MultiplyUInv, HasKey, HasMatrix, HasErrors, HasHats, Vec, K
  <2> QED
    BY <1>2, <2>1, <2>5 DEF MultiplyingV
<1>4. CASE b_state \in MultiplyingU
  <2>1. /\ HasKey(w, b_reg) /\ HasMatrix(w, b_reg) /\ HasErrors(w, b_reg) /\ HasHats(w, b_reg)
        /\ b_ctr.col \in Vec /\ b_ctr.mj \in Vec /\ b_reg.v_acc = Zero
        /\ \A i \in Vec : /\ i < b_ctr.col => b_reg.u_acc[i] = USum(w, i, K)
                          /\ i > b_ctr.col => b_reg.u_acc[i] = Zero
        /\ b_reg.u_acc[b_ctr.col]
             = USum(w, b_ctr.col, IF b_state = "MATMUL_U_NEXT" THEN K ELSE b_ctr.mj)
    BY <1>4 DEF DataInv, PhaseInv, MultiplyUInv
  <2>2. /\ HasKey(w, b_reg') /\ HasMatrix(w, b_reg') /\ HasErrors(w, b_reg') /\ HasHats(w, b_reg')
    BY <1>1, <2>1 DEF HasKey, HasMatrix, HasErrors, HasHats, Writes, Registers
  <2>3. CASE b_state = "MATMUL_U"
    <3>1. /\ b_state' = "MATMUL_U_CAPTURE" /\ b_ctr' = b_ctr
          /\ b_reg'.u_acc = b_reg.u_acc /\ b_reg'.v_acc = b_reg.v_acc
          /\ b_reg'.padd_a = b_reg.u_acc[b_ctr.col] /\ b_reg'.padd_b = Product
      BY <1>0, <2>3 DEF MultiplyMatrix, Adds, Stores, Registers
    <3>2. Product = UProduct(w, b_ctr.col, b_ctr.mj)
      BY <2>1, <2>3, ProductsAre
    <3>3. MultiplyUInv(w)'
      BY <2>1, <2>2, <2>3, <3>1, <3>2 DEF MultiplyUInv
    <3> QED
      BY <1>2, <3>1, <3>3 DEF MultiplyingV
  <2>4. CASE b_state = "MATMUL_U_CAPTURE"
    <3>1. /\ b_reg'.u_acc = [b_reg.u_acc EXCEPT ![b_ctr.col] = Sum]
          /\ b_reg'.v_acc = b_reg.v_acc
          /\ IF b_ctr.mj = K - 1 THEN b_state' = "MATMUL_U_NEXT" /\ b_ctr' = [b_ctr EXCEPT !.mj = 0]
             ELSE b_state' = "MATMUL_U" /\ b_ctr' = [b_ctr EXCEPT !.mj = @ + 1]
      BY <1>0, <2>4 DEF MultiplyMatrix, Stores, Registers
    <3>2. Sum = USum(w, b_ctr.col, b_ctr.mj + 1)
      <4>1. b_reg.padd_a = USum(w, b_ctr.col, b_ctr.mj) /\ b_reg.padd_b = UProduct(w, b_ctr.col, b_ctr.mj)
        BY <1>4, <2>4 DEF DataInv, PhaseInv, MultiplyUInv
      <4> QED
        BY <2>1, <4>1, SumsGrow DEF Sum
    <3>3. /\ b_reg'.u_acc[b_ctr.col] = USum(w, b_ctr.col, b_ctr.mj + 1)
          /\ \A i \in Vec : i # b_ctr.col => b_reg'.u_acc[i] = b_reg.u_acc[i]
      BY <1>0, <2>1, <3>1, <3>2 DEF IsOver
    <3>4. /\ b_ctr'.col = b_ctr.col
          /\ IF b_ctr.mj = K - 1 THEN b_ctr'.mj = 0 /\ b_ctr.mj + 1 = K
             ELSE b_ctr'.mj = b_ctr.mj + 1 /\ b_ctr.mj + 1 \in Vec
      BY <1>0, <2>1, <3>1 DEF Vec, K
    <3>5. MultiplyUInv(w)'
      <4>1. \A i \in Vec : i < b_ctr.col \/ i > b_ctr.col => i # b_ctr.col
        BY <2>1 DEF Vec, K
      <4> QED
        BY <1>0, <2>1, <2>2, <3>1, <3>3, <3>4, <4>1 DEF MultiplyUInv
    <3> QED
      BY <1>2, <3>1, <3>5 DEF MultiplyingV
  <2>5. CASE b_state = "MATMUL_U_NEXT"
    <3>1. /\ b_reg' = b_reg
          /\ IF b_ctr.col = K - 1 THEN b_state' = "MATMUL_V" /\ b_ctr' = b_ctr
             ELSE b_state' = "MATMUL_U" /\ b_ctr' = [b_ctr EXCEPT !.col = @ + 1]
      BY <2>5 DEF MultiplyMatrix, Stores
    <3>2. b_ctr.mj = 0
      BY <1>4, <2>5 DEF DataInv, PhaseInv, MultiplyUInv
    <3>3. CASE b_ctr.col = K - 1
      <4>1. HasSums(w, b_reg)
        <5>1. \A i \in Vec : i = b_ctr.col \/ i < b_ctr.col
          BY <3>3 DEF Vec, K
        <5> QED
          BY <2>1, <2>5, <5>1 DEF HasSums
      <4>2. MultiplyVInv(w)'
        BY <1>0, <2>1, <3>1, <3>2, <3>3, <4>1, SumsGrow
           DEF MultiplyVInv, HasSums, HasKey, HasErrors, HasHats
      <4> QED
        BY <1>2, <3>1, <3>3, <4>2 DEF MultiplyingU
    <3>4. CASE b_ctr.col # K - 1
      <4>1. /\ b_ctr'.col = b_ctr.col + 1 /\ b_ctr'.mj = 0 /\ b_ctr.col + 1 \in Vec
            /\ \A i \in Vec : /\ i < b_ctr.col + 1 => i = b_ctr.col \/ i < b_ctr.col
                              /\ i > b_ctr.col + 1 => i > b_ctr.col
            /\ b_ctr.col + 1 > b_ctr.col
        BY <1>0, <2>1, <3>1, <3>2, <3>4 DEF Vec, K
      <4>2. b_reg.u_acc[b_ctr.col] = USum(w, b_ctr.col, K)
        BY <2>1, <2>5
      <4>3. b_reg.u_acc[b_ctr.col + 1] = USum(w, b_ctr.col + 1, 0)
        BY <1>0, <2>1, <4>1, SumsGrow
      <4>4. MultiplyUInv(w)'
        BY <1>0, <2>1, <2>2, <3>1, <3>4, <4>1, <4>2, <4>3 DEF MultiplyUInv
      <4> QED
        BY <1>2, <3>1, <3>4, <4>4 DEF MultiplyingV
    <3> QED
      BY <3>3, <3>4
  <2> QED
    BY <1>4, <2>3, <2>4, <2>5 DEF MultiplyingU
<1>5. CASE b_state \in MultiplyingV
  <2>1. /\ HasKey(w, b_reg) /\ HasErrors(w, b_reg) /\ HasHats(w, b_reg) /\ HasSums(w, b_reg)
        /\ b_ctr.mj \in Vec /\ b_reg.v_acc = VSum(w, b_ctr.mj)
    BY <1>5 DEF DataInv, PhaseInv, MultiplyVInv
  <2>2. b_reg'.u_acc = b_reg.u_acc
    BY <1>0, <1>5 DEF MultiplyMatrix, Adds, Stores, Registers, MultiplyingV
  <2>3. /\ HasKey(w, b_reg') /\ HasErrors(w, b_reg') /\ HasHats(w, b_reg') /\ HasSums(w, b_reg')
    BY <1>1, <2>1, <2>2 DEF HasKey, HasErrors, HasHats, HasSums, Writes, Registers
  <2>4. CASE b_state = "MATMUL_V"
    <3>1. /\ b_state' = "MATMUL_V_CAPTURE" /\ b_ctr' = b_ctr /\ b_reg'.v_acc = b_reg.v_acc
          /\ b_reg'.padd_a = b_reg.v_acc /\ b_reg'.padd_b = Product
      BY <1>0, <2>4 DEF MultiplyMatrix, Adds, Stores, Registers
    <3>2. Product = VProduct(w, b_ctr.mj)
      BY <2>1, <2>4, ProductsAre
    <3>3. MultiplyVInv(w)'
      BY <2>1, <2>3, <3>1, <3>2 DEF MultiplyVInv
    <3> QED
      BY <1>2, <3>1, <3>3 DEF MultiplyingU
  <2>5. CASE b_state = "MATMUL_V_CAPTURE"
    <3>1. /\ b_state' = "MATMUL_V" /\ b_ctr.mj < K - 1 /\ b_reg'.v_acc = Sum
          /\ b_ctr'.mj = b_ctr.mj + 1
      BY <1>0, <2>5 DEF MultiplyMatrix, Stores, Registers
    <3>2. Sum = VSum(w, b_ctr.mj + 1)
      <4>1. b_reg.padd_a = VSum(w, b_ctr.mj) /\ b_reg.padd_b = VProduct(w, b_ctr.mj)
        BY <1>5, <2>5 DEF DataInv, PhaseInv, MultiplyVInv
      <4> QED
        BY <2>1, <4>1, SumsGrow DEF Sum
    <3>3. b_ctr'.mj \in Vec
      BY <2>1, <3>1 DEF Vec, K
    <3>4. MultiplyVInv(w)'
      BY <2>3, <3>1, <3>2, <3>3 DEF MultiplyVInv
    <3> QED
      BY <1>2, <3>1, <3>4 DEF MultiplyingU
  <2> QED
    BY <1>5, <2>4, <2>5 DEF MultiplyingV
<1> QED
  BY <1>1, <1>3, <1>4, <1>5

LEMMA FirstInverseData ==
  ASSUME NEW w, DataInv(w), FirstInverse
  PROVE  PhaseInv(w)'
<1>0. /\ DOMAIN b_reg = Registers /\ DOMAIN b_ctr = {"i", "j", "n", "fwd", "col", "mj", "inv", "bit"}
      /\ DOMAIN b_inv = {"load", "sched", "read"}
  BY DEF DataInv, ShapeInv, Arrays, Shape
<1>1. /\ b_state = "MATMUL_V_CAPTURE" /\ b_state' = "INV_U_LOAD" /\ ~b_done' /\ b_ctr.mj = K - 1
      /\ Writes(b_reg, b_reg', {"v_acc"}) /\ b_reg'.v_acc = Sum
      /\ b_ctr'.inv = 0 /\ b_inv'.load = 0
  BY <1>0 DEF FirstInverse, Stores, Quiet, Writes, Registers
<1>2. /\ HasErrors(w, b_reg) /\ HasSums(w, b_reg) /\ b_ctr.mj \in Vec
      /\ b_reg.padd_a = VSum(w, b_ctr.mj) /\ b_reg.padd_b = VProduct(w, b_ctr.mj)
  BY <1>1 DEF DataInv, PhaseInv, MultiplyVInv, MultiplyingV
<1>3. b_reg'.v_acc = VSum(w, K)
  <2>1. b_ctr.mj + 1 = K
    BY <1>1 DEF K
  <2> QED
    BY <1>1, <1>2, <2>1, SumsGrow DEF Sum
<1>4. HasErrors(w, b_reg') /\ HasSums(w, b_reg')
  BY <1>1, <1>2 DEF HasErrors, HasSums, Writes, Registers
<1>5. 0 \in Vec /\ \A i \in Vec : ~(i < 0)
  BY DEF Vec, K
<1>6. PassInv(Inverse!INV_U, USum(w, 0, K), "inverse", b_state', b_inv', b_drive', b_ntt',
              b_reg'.raw_u)
  <2>1. Names(Inverse!INV_U, "INV_U_SCALE") /\ b_state' = Inverse!INV_U.load
    BY <1>1 DEF Names, Inverse!INV_U
  <2> QED
    BY <1>1, <2>1, PassStarts
<1>7. InvertUInv(w)'
  BY <1>1, <1>3, <1>4, <1>5, <1>6 DEF InvertUInv
<1> QED
  BY <1>1, <1>7 DEF PhaseInv, StartInv, SampleInv, DrawInv, ForwardInv, MultiplyUInv,
         MultiplyVInv, InvertVInv, DecodeInv, AddInv, EncodeInv, ChooseInv, EndInv,
         Sampling, Drawing, Forwarding, MultiplyingU, MultiplyingV, InvertingV,
         DecodingMu, Adding, Encoding, Choosing

LEMMA InvertUData ==
  ASSUME NEW w, DataInv(w), StageInv, NEW go \in BOOLEAN, Clock(go), InvertU
  PROVE  PhaseInv(w)'
<1> DEFINE i == b_ctr.inv
<1>1. b_state \in InvertingU
      /\ b_state \notin {"INV_U_SCALE", "INV_U_ADD_E1", "INV_U_NEXT"}
  BY DEF InvertingU, InvertU, Inverse!Pass, Inverse!Load, Inverse!SetUp, Inverse!StartStage,
         Inverse!EndStage, Inverse!Fetch, Inverse!Take, Inverse!Arrives, Inverse!Wait,
         Inverse!INV_U
<1>2. /\ HasErrors(w, b_reg) /\ HasSums(w, b_reg) /\ b_reg.v_acc = VSum(w, K)
      /\ i \in Vec
      /\ \A a \in Vec : a < i => b_reg.u_vec[a] = UOf(w, a)
      /\ PassInv(Inverse!INV_U, USum(w, i, K), "inverse", b_state, b_inv, b_drive, b_ntt,
                 b_reg.raw_u)
  BY <1>1 DEF DataInv, PhaseInv, InvertUInv
<1>3. USum(w, i, K) = b_reg.u_acc[i]
  BY <1>2 DEF HasSums
<1>4. /\ b_state' \in Passes(Inverse!INV_U) \cup {"INV_U_SCALE"}
      /\ Writes(b_reg, b_reg', {"raw_u"}) /\ b_ctr' = b_ctr /\ ~b_done'
      /\ PassInv(Inverse!INV_U, USum(w, i, K), "inverse", b_state', b_inv', b_drive', b_ntt',
                 b_reg'.raw_u)
      /\ b_state' = "INV_U_SCALE" => b_reg'.raw_u = Poly("inverse", Entries, USum(w, i, K))
  BY <1>2, <1>3, InversePassU DEF DataInv
<1>5. /\ HasErrors(w, b_reg') /\ HasSums(w, b_reg') /\ b_reg'.v_acc = VSum(w, K)
      /\ b_reg'.u_vec = b_reg.u_vec
  BY <1>2, <1>4 DEF HasErrors, HasSums, Writes, Registers
<1>6. b_state' \notin {"INV_U_ADD_E1", "INV_U_NEXT"}
  BY <1>4 DEF Passes, Inverse!INV_U
<1>7. InvertUInv(w)'
  BY <1>2, <1>4, <1>5, <1>6 DEF InvertUInv, HasErrors, HasSums
<1> QED
  BY <1>4, <1>7 DEF PhaseInv, StartInv, SampleInv, DrawInv, ForwardInv, MultiplyUInv, Passes,
         MultiplyVInv, InvertVInv, DecodeInv, AddInv, EncodeInv, ChooseInv, EndInv,
         Inverse!INV_U, Sampling, Drawing, Forwarding, MultiplyingU, MultiplyingV, InvertingV,
         DecodingMu, Adding, Encoding, Choosing

LEMMA AddErrorData ==
  ASSUME NEW w, DataInv(w), AddError
  PROVE  PhaseInv(w)'
<1>0. DOMAIN b_reg = Registers
  BY DEF DataInv, ShapeInv, Arrays
<1>1. /\ b_state \in InvertingU /\ b_state \in {"INV_U_SCALE", "INV_U_ADD_E1"}
      /\ b_state' \in {"INV_U_ADD_E1", "INV_U_NEXT"} /\ ~b_done' /\ b_ctr' = b_ctr
      /\ Writes(b_reg, b_reg', {"scale_in", "padd_a", "padd_b"})
  BY <1>0 DEF AddError, Adds, Stores, Quiet, InvertingU, Writes, Registers
<1>2. /\ HasErrors(w, b_reg) /\ HasSums(w, b_reg) /\ b_reg.v_acc = VSum(w, K)
      /\ b_ctr.inv \in Vec
      /\ \A a \in Vec : a < b_ctr.inv => b_reg.u_vec[a] = UOf(w, a)
      /\ b_state = "INV_U_SCALE" => b_reg.raw_u = Poly("inverse", Entries, USum(w, b_ctr.inv, K))
      /\ b_state = "INV_U_ADD_E1"
           => b_reg.scale_in = <<"inverse", Entries, USum(w, b_ctr.inv, K)>>
  BY <1>1 DEF DataInv, PhaseInv, InvertUInv
<1>3. /\ HasErrors(w, b_reg') /\ HasSums(w, b_reg') /\ b_reg'.v_acc = VSum(w, K)
      /\ b_reg'.u_vec = b_reg.u_vec
  BY <1>1, <1>2 DEF HasErrors, HasSums, Writes, Registers
<1>4. /\ b_state = "INV_U_SCALE" => /\ b_state' = "INV_U_ADD_E1"
                                    /\ b_reg'.scale_in = Gather(b_reg.raw_u)
      /\ b_state = "INV_U_ADD_E1" => /\ b_state' = "INV_U_NEXT"
                                     /\ b_reg'.padd_a = Scale(b_reg.scale_in)
                                     /\ b_reg'.padd_b = b_reg.e1[b_ctr.inv]
  BY <1>0 DEF AddError, Adds, Stores, Registers
<1>5. b_state = "INV_U_SCALE" => b_reg'.scale_in = <<"inverse", Entries, USum(w, b_ctr.inv, K)>>
  BY <1>2, <1>4, GatherPoly
<1>6. b_state = "INV_U_ADD_E1" => /\ b_reg'.padd_a = InverseNTT(USum(w, b_ctr.inv, K))
                                  /\ b_reg'.padd_b = EOf(w, b_ctr.inv)
  BY <1>2, <1>4 DEF InverseNTT, HasErrors
<1>7. PassInv(Inverse!INV_U, USum(w, b_ctr.inv, K), "inverse", b_state', b_inv', b_drive', b_ntt',
              b_reg'.raw_u)
  BY <1>1 DEF PassInv, Inverse!INV_U
<1>8. InvertUInv(w)'
  BY <1>1, <1>2, <1>3, <1>4, <1>5, <1>6, <1>7 DEF InvertUInv
<1> QED
  BY <1>1, <1>8 DEF PhaseInv, StartInv, SampleInv, DrawInv, ForwardInv, MultiplyUInv,
         MultiplyVInv, InvertVInv, DecodeInv, AddInv, EncodeInv, ChooseInv, EndInv,
         Sampling, Drawing, Forwarding, MultiplyingU, MultiplyingV, InvertingV,
         DecodingMu, Adding, Encoding, Choosing

LEMMA NextInverseData ==
  ASSUME NEW w, DataInv(w), NextInverse
  PROVE  PhaseInv(w)'
<1> DEFINE i == b_ctr.inv
<1>0. /\ DOMAIN b_reg = Registers /\ DOMAIN b_ctr = {"i", "j", "n", "fwd", "col", "mj", "inv", "bit"}
      /\ DOMAIN b_inv = {"load", "sched", "read"} /\ IsOver(b_reg.u_vec, Vec)
  BY DEF DataInv, ShapeInv, Arrays, Shape
<1>1. /\ b_state = "INV_U_NEXT" /\ ~b_done' /\ b_inv'.load = 0
      /\ Writes(b_reg, b_reg', {"u_vec"}) /\ b_reg'.u_vec = [b_reg.u_vec EXCEPT ![i] = Sum]
      /\ IF i = K - 1 THEN b_state' = "INV_V_LOAD" /\ b_ctr' = b_ctr
         ELSE b_state' = "INV_U_LOAD" /\ b_ctr'.inv = i + 1
  BY <1>0 DEF NextInverse, Stores, Quiet, Writes, Registers
<1>2. /\ HasErrors(w, b_reg) /\ HasSums(w, b_reg) /\ b_reg.v_acc = VSum(w, K)
      /\ i \in Vec
      /\ \A a \in Vec : a < i => b_reg.u_vec[a] = UOf(w, a)
      /\ b_reg.padd_a = InverseNTT(USum(w, i, K)) /\ b_reg.padd_b = EOf(w, i)
  BY <1>1 DEF DataInv, PhaseInv, InvertUInv, InvertingU
<1>3. /\ HasErrors(w, b_reg') /\ HasSums(w, b_reg') /\ b_reg'.v_acc = VSum(w, K)
  BY <1>1, <1>2 DEF HasErrors, HasSums, Writes, Registers
<1>4. /\ b_reg'.u_vec[i] = UOf(w, i)
      /\ \A a \in Vec : a # i => b_reg'.u_vec[a] = b_reg.u_vec[a]
  BY <1>0, <1>1, <1>2 DEF IsOver, Sum, UOf
<1>5. CASE i = K - 1
  <2>1. HasU(w, b_reg')
    <3>1. \A a \in Vec : a = i \/ (a < i /\ a # i)
      BY <1>5 DEF Vec, K
    <3> QED
      BY <1>2, <1>4, <3>1 DEF HasU
  <2>2. PassInv(Inverse!INV_V, VSum(w, K), "inverse", b_state', b_inv', b_drive', b_ntt',
                b_reg'.raw_v)
    <3>1. Names(Inverse!INV_V, "INV_V_SCALE") /\ b_state' = Inverse!INV_V.load
      BY <1>1, <1>5 DEF Names, Inverse!INV_V
    <3> QED
      BY <1>1, <3>1, PassStarts
  <2>3. InvertVInv(w)'
    BY <1>1, <1>3, <1>5, <2>1, <2>2 DEF InvertVInv, HasErrors, HasU
  <2> QED
    BY <1>1, <1>5, <2>3 DEF PhaseInv, StartInv, SampleInv, DrawInv, ForwardInv, MultiplyUInv,
         MultiplyVInv, InvertUInv, DecodeInv, AddInv, EncodeInv, ChooseInv, EndInv,
         Sampling, Drawing, Forwarding, MultiplyingU, MultiplyingV, InvertingU,
         DecodingMu, Adding, Encoding, Choosing
<1>6. CASE i # K - 1
  <2>1. i + 1 \in Vec /\ \A a \in Vec : a < i + 1 => a = i \/ (a < i /\ a # i)
    BY <1>2, <1>6 DEF Vec, K
  <2>2. \A a \in Vec : a < i + 1 => b_reg'.u_vec[a] = UOf(w, a)
    BY <1>2, <1>4, <2>1
  <2>3. PassInv(Inverse!INV_U, USum(w, i + 1, K), "inverse", b_state', b_inv', b_drive', b_ntt',
                b_reg'.raw_u)
    <3>1. Names(Inverse!INV_U, "INV_U_SCALE") /\ b_state' = Inverse!INV_U.load
      BY <1>1, <1>6 DEF Names, Inverse!INV_U
    <3> QED
      BY <1>1, <3>1, PassStarts
  <2>4. InvertUInv(w)'
    BY <1>1, <1>3, <1>6, <2>1, <2>2, <2>3 DEF InvertUInv, HasErrors, HasSums
  <2> QED
    BY <1>1, <1>6, <2>4 DEF PhaseInv, StartInv, SampleInv, DrawInv, ForwardInv, MultiplyUInv,
         MultiplyVInv, InvertVInv, DecodeInv, AddInv, EncodeInv, ChooseInv, EndInv,
         Sampling, Drawing, Forwarding, MultiplyingU, MultiplyingV, InvertingV,
         DecodingMu, Adding, Encoding, Choosing
<1> QED
  BY <1>5, <1>6

LEMMA InvertVData ==
  ASSUME NEW w, DataInv(w), StageInv, NEW go \in BOOLEAN, Clock(go), InvertV
  PROVE  PhaseInv(w)'
<1>1. b_state \in InvertingV /\ b_state # "INV_V_SCALE"
  BY DEF InvertingV, InvertV, Inverse!Pass, Inverse!Load, Inverse!SetUp, Inverse!StartStage,
         Inverse!EndStage, Inverse!Fetch, Inverse!Take, Inverse!Arrives, Inverse!Wait,
         Inverse!INV_V
<1>2. /\ b_reg.e2 = EOf(w, K) /\ b_reg.v_acc = VSum(w, K) /\ HasU(w, b_reg)
      /\ PassInv(Inverse!INV_V, VSum(w, K), "inverse", b_state, b_inv, b_drive, b_ntt, b_reg.raw_v)
  BY <1>1 DEF DataInv, PhaseInv, InvertVInv
<1>4. /\ b_state' \in Passes(Inverse!INV_V) \cup {"INV_V_SCALE"}
      /\ Writes(b_reg, b_reg', {"raw_v"}) /\ b_ctr' = b_ctr /\ ~b_done'
      /\ PassInv(Inverse!INV_V, VSum(w, K), "inverse", b_state', b_inv', b_drive', b_ntt',
                 b_reg'.raw_v)
      /\ b_state' = "INV_V_SCALE" => b_reg'.raw_v = Poly("inverse", Entries, VSum(w, K))
  BY <1>2, InversePassV DEF DataInv
<1>5. b_reg'.e2 = EOf(w, K) /\ b_reg'.v_acc = VSum(w, K) /\ HasU(w, b_reg')
  BY <1>2, <1>4 DEF HasU, Writes, Registers
<1>7. InvertVInv(w)'
  BY <1>2, <1>4, <1>5 DEF InvertVInv, HasU
<1> QED
  BY <1>4, <1>7 DEF PhaseInv, StartInv, SampleInv, DrawInv, ForwardInv, MultiplyUInv, Passes,
         MultiplyVInv, InvertUInv, DecodeInv, AddInv, EncodeInv, ChooseInv, EndInv,
         Inverse!INV_V, Sampling, Drawing, Forwarding, MultiplyingU, MultiplyingV, InvertingU,
         DecodingMu, Adding, Encoding, Choosing

\* The message comes off its wire here, after all of the transforms.
LEMMA DecodeData ==
  ASSUME NEW w, DataInv(w), DecodeMessage, WiresAre(w)
  PROVE  PhaseInv(w)'
<1>0. /\ DOMAIN b_reg = Registers /\ DOMAIN b_ctr = {"i", "j", "n", "fwd", "col", "mj", "inv", "bit"}
      /\ IsOver(b_reg.mu, Indices)
  BY DEF DataInv, ShapeInv, Arrays
<1>1. /\ b_state \in {"INV_V_SCALE"} \cup DecodingMu /\ b_state' \in DecodingMu \cup {"ADD_E2"}
      /\ ~b_done' /\ Writes(b_reg, b_reg', {"scale_in", "scaled_v", "bdec1_in", "c1_y_in", "mu"})
  BY <1>0 DEF DecodeMessage, Stores, Quiet, DecodingMu, Writes, Registers
<1>2. b_reg.e2 = EOf(w, K) /\ HasU(w, b_reg)
  BY <1>1 DEF DataInv, PhaseInv, InvertVInv, InvertingV, DecodeInv
<1>3. b_reg'.e2 = EOf(w, K) /\ HasU(w, b_reg')
  BY <1>1, <1>2 DEF HasU, Writes, Registers
<1>4. ASSUME b_state' \in DecodingMu => DecodeInv(w)', b_state' = "ADD_E2" => AddInv(w)'
      PROVE  PhaseInv(w)'
  BY <1>1, <1>4 DEF PhaseInv, StartInv, SampleInv, DrawInv, ForwardInv, MultiplyUInv,
         MultiplyVInv, InvertUInv, InvertVInv, DecodeInv, AddInv, EncodeInv, ChooseInv, EndInv,
         Sampling, Drawing, Forwarding, MultiplyingU, MultiplyingV, InvertingU, InvertingV,
         DecodingMu, Adding, Encoding, Choosing
<1>5. CASE b_state = "INV_V_SCALE"
  <2>1. b_state' = "DECODE_MU_SETUP" /\ b_reg'.scale_in = Gather(b_reg.raw_v)
    BY <1>0, <1>5 DEF DecodeMessage, Stores, Registers
  <2>2. b_reg.raw_v = Poly("inverse", Entries, VSum(w, K))
    BY <1>5 DEF DataInv, PhaseInv, InvertVInv, InvertingV
  <2>3. b_reg'.scale_in = <<"inverse", Entries, VSum(w, K)>>
    BY <2>1, <2>2, GatherPoly
  <2>4. DecodeInv(w)'
    BY <1>3, <2>1, <2>3 DEF DecodeInv, HasU
  <2> QED
    BY <1>4, <2>1, <2>4
<1>6. CASE b_state = "DECODE_MU_SETUP"
  <2>1. /\ b_state' = "DECODE_MU" /\ b_ctr'.bit = 0
        /\ b_reg'.scaled_v = Scale(b_reg.scale_in) /\ b_reg'.bdec1_in = m_prime_in
    BY <1>0, <1>6 DEF DecodeMessage, Stores, Registers
  <2>2. b_reg.scale_in = <<"inverse", Entries, VSum(w, K)>>
    BY <1>6 DEF DataInv, PhaseInv, DecodeInv, DecodingMu
  <2>3. b_reg'.scaled_v = InverseNTT(VSum(w, K)) /\ b_reg'.bdec1_in = w.m
    BY <2>1, <2>2 DEF InverseNTT, WiresAre
  <2>4. 0 \in Indices /\ \A c \in Indices : ~(c < 0)
    BY SizeAssumption DEF Indices
  <2>5. DecodeInv(w)'
    BY <1>3, <2>1, <2>3, <2>4 DEF DecodeInv, HasU
  <2> QED
    BY <1>4, <2>1, <2>5
<1>7. CASE b_state \in {"DECODE_MU", "DECODE_MU_CAPTURE"}
  <2>1. /\ b_reg.scaled_v = InverseNTT(VSum(w, K)) /\ b_reg.bdec1_in = w.m
        /\ b_ctr.bit \in Indices
        /\ \A c \in Indices : c < b_ctr.bit => b_reg.mu[c] = Coefficient("mu", 0, w.m, c)
        /\ b_state = "DECODE_MU_CAPTURE" => b_reg.c1_y_in = Coefficient("mu", 0, w.m, b_ctr.bit)
    BY <1>7 DEF DataInv, PhaseInv, DecodeInv, DecodingMu
  <2>2. b_reg'.scaled_v = InverseNTT(VSum(w, K)) /\ b_reg'.bdec1_in = w.m
    BY <1>0, <1>7, <2>1 DEF DecodeMessage, Stores, Registers
  <2>3. CASE b_state = "DECODE_MU"
    <3>1. /\ b_state' = "DECODE_MU_CAPTURE" /\ b_ctr' = b_ctr /\ b_reg'.mu = b_reg.mu
          /\ b_reg'.c1_y_in = Coefficient("mu", 0, b_reg.bdec1_in, b_ctr.bit)
      BY <1>0, <2>3 DEF DecodeMessage, Stores, Registers
    <3>2. DecodeInv(w)'
      BY <1>3, <2>1, <2>2, <3>1 DEF DecodeInv, HasU
    <3> QED
      BY <1>4, <3>1, <3>2
  <2>4. CASE b_state = "DECODE_MU_CAPTURE"
    <3>1. /\ b_reg'.mu = [b_reg.mu EXCEPT ![b_ctr.bit] = b_reg.c1_y_in]
          /\ IF b_ctr.bit = Coeffs - 1 THEN b_state' = "ADD_E2"
             ELSE b_state' = "DECODE_MU" /\ b_ctr'.bit = b_ctr.bit + 1
      BY <1>0, <2>4 DEF DecodeMessage, Stores, Registers
    <3>2. \A c \in Indices : c < b_ctr.bit + 1 => b_reg'.mu[c] = Coefficient("mu", 0, w.m, c)
      <4>1. ASSUME NEW c \in Indices, c < b_ctr.bit + 1 PROVE c = b_ctr.bit \/ c < b_ctr.bit
        BY <2>1, <4>1, SizeAssumption DEF Indices
      <4>2. /\ b_reg'.mu[b_ctr.bit] = Coefficient("mu", 0, w.m, b_ctr.bit)
            /\ \A c \in Indices : c # b_ctr.bit => b_reg'.mu[c] = b_reg.mu[c]
        BY <1>0, <2>1, <2>4, <3>1 DEF IsOver
      <4> QED
        BY <2>1, <4>1, <4>2
    <3>3. CASE b_ctr.bit = Coeffs - 1
      <4>1. \A c \in Indices : c < b_ctr.bit + 1
        BY <3>3, SizeAssumption DEF Indices
      <4>2. b_reg'.mu = [c \in Indices |-> b_reg'.mu[c]]
        BY <1>0, <3>1 DEF IsOver
      <4>3. b_reg'.mu = Poly("mu", 0, w.m)
        BY <3>2, <4>1, <4>2 DEF Poly
      <4>4. AddInv(w)'
        BY <1>3, <2>2, <3>1, <3>3, <4>3 DEF AddInv, HasU
      <4> QED
        BY <1>4, <3>1, <3>3, <4>4 DEF DecodingMu
    <3>4. CASE b_ctr.bit # Coeffs - 1
      <4>1. b_ctr.bit + 1 \in Indices
        BY <2>1, <3>4, SizeAssumption DEF Indices
      <4>2. DecodeInv(w)'
        BY <1>3, <2>2, <3>1, <3>2, <3>4, <4>1 DEF DecodeInv, HasU
      <4> QED
        BY <1>4, <3>1, <3>4, <4>2
    <3> QED
      BY <3>3, <3>4
  <2> QED
    BY <1>7, <2>3, <2>4
<1> QED
  BY <1>1, <1>5, <1>6, <1>7 DEF DecodingMu

LEMMA AddMessageData ==
  ASSUME NEW w, DataInv(w), AddMessage
  PROVE  PhaseInv(w)'
<1>0. DOMAIN b_reg = Registers
  BY DEF DataInv, ShapeInv, Arrays
<1>1. /\ b_state \in Adding /\ ~b_done' /\ Writes(b_reg, b_reg', {"padd_a", "padd_b"})
      /\ b_state = "ADD_E2" => b_state' = "ADD_MU"
      /\ b_state = "ADD_MU" => b_state' = "COMPRESS_U_SETUP"
  BY <1>0 DEF AddMessage, Adds, Stores, Quiet, Adding, Writes, Registers
<1>2. HasU(w, b_reg) /\ b_reg.mu = Poly("mu", 0, w.m)
  BY <1>1 DEF DataInv, PhaseInv, AddInv
<1>3. HasU(w, b_reg') /\ b_reg'.mu = Poly("mu", 0, w.m)
  BY <1>1, <1>2 DEF HasU, Writes, Registers
<1>4. CASE b_state = "ADD_E2"
  <2>1. b_reg'.padd_a = b_reg.scaled_v /\ b_reg'.padd_b = b_reg.e2
    BY <1>0, <1>4 DEF AddMessage, Adds, Stores, Registers
  <2>2. b_reg.scaled_v = InverseNTT(VSum(w, K)) /\ b_reg.e2 = EOf(w, K)
    BY <1>4 DEF DataInv, PhaseInv, AddInv, Adding
  <2>3. AddInv(w)'
    BY <1>1, <1>3, <1>4, <2>1, <2>2 DEF AddInv, HasU
  <2> QED
    BY <1>1, <1>4, <2>3 DEF PhaseInv, StartInv, SampleInv, DrawInv, ForwardInv, MultiplyUInv,
         MultiplyVInv, InvertUInv, InvertVInv, DecodeInv, EncodeInv, ChooseInv, EndInv,
         Sampling, Drawing, Forwarding, MultiplyingU, MultiplyingV, InvertingU, InvertingV,
         DecodingMu, Encoding, Choosing
<1>5. CASE b_state = "ADD_MU"
  <2>1. b_reg'.padd_a = Sum /\ b_reg'.padd_b = Gather(b_reg.mu)
    BY <1>0, <1>5 DEF AddMessage, Adds, Stores, Registers
  <2>2. Sum = Plus(InverseNTT(VSum(w, K)), EOf(w, K))
    BY <1>5 DEF DataInv, PhaseInv, AddInv, Adding, Sum
  <2>3. Gather(b_reg.mu) = Mu(w.m)
    BY <1>2, GatherPoly DEF Mu
  <2>4. EncodeInv(w)'
    BY <1>1, <1>3, <1>5, <2>1, <2>2, <2>3 DEF EncodeInv, HasU
  <2> QED
    BY <1>1, <1>5, <2>4 DEF PhaseInv, StartInv, SampleInv, DrawInv, ForwardInv, MultiplyUInv,
         MultiplyVInv, InvertUInv, InvertVInv, DecodeInv, AddInv, ChooseInv, EndInv,
         Sampling, Drawing, Forwarding, MultiplyingU, MultiplyingV, InvertingU, InvertingV,
         DecodingMu, Adding, Choosing
<1> QED
  BY <1>1, <1>4, <1>5 DEF Adding

LEMMA EncodeData ==
  ASSUME NEW w, DataInv(w), EncodeCiphertext
  PROVE  PhaseInv(w)'
<1>0. DOMAIN b_reg = Registers /\ IsOver(b_reg.c_prime, 1 .. 3)
  BY DEF DataInv, ShapeInv, Arrays
<1>1. /\ b_state \in Encoding /\ b_state' \in Encoding \cup {"START_SHAKE256"} /\ ~b_done'
      /\ b_state' # "COMPRESS_U_SETUP"
  BY DEF EncodeCiphertext, Stores, Quiet, Encoding
<1>2. ASSUME b_state' \in Encoding => EncodeInv(w)', b_state' = "START_SHAKE256" => ChooseInv(w)'
      PROVE  PhaseInv(w)'
  BY <1>1, <1>2 DEF PhaseInv, StartInv, SampleInv, DrawInv, ForwardInv, MultiplyUInv,
         MultiplyVInv, InvertUInv, InvertVInv, DecodeInv, AddInv, EncodeInv, ChooseInv, EndInv,
         Sampling, Drawing, Forwarding, MultiplyingU, MultiplyingV, InvertingU, InvertingV,
         DecodingMu, Adding, Encoding, Choosing
<1>3. CASE b_state = "COMPRESS_U_SETUP"
  <2>1. b_state' = "COMPRESS_U" /\ b_reg'.v_poly = Sum /\ b_reg'.bcompu_in = b_reg.u_vec
    BY <1>0, <1>3 DEF EncodeCiphertext, Stores, Registers
  <2>2. /\ HasU(w, b_reg)
        /\ b_reg.padd_a = Plus(InverseNTT(VSum(w, K)), EOf(w, K)) /\ b_reg.padd_b = Mu(w.m)
    BY <1>3 DEF DataInv, PhaseInv, EncodeInv
  <2>3. b_reg'.v_poly = VOf(w) /\ \A i \in Vec : b_reg'.bcompu_in[i] = UOf(w, i)
    BY <2>1, <2>2 DEF Sum, VOf, HasU
  <2>4. EncodeInv(w)'
    BY <2>1, <2>3 DEF EncodeInv
  <2> QED
    BY <1>2, <2>1, <2>4
<1>4. CASE b_state = "COMPRESS_U"
  <2>1. /\ b_state' = "ENCODE_U" /\ b_reg'.v_poly = b_reg.v_poly
        /\ b_reg'.bencu_in = [i \in Vec |-> Compress(10, b_reg.bcompu_in[i])]
    BY <1>0, <1>4 DEF EncodeCiphertext, Stores, Registers
  <2>2. b_reg.v_poly = VOf(w) /\ \A i \in Vec : b_reg.bcompu_in[i] = UOf(w, i)
    BY <1>4 DEF DataInv, PhaseInv, EncodeInv
  <2>3. EncodeInv(w)'
    BY <2>1, <2>2 DEF EncodeInv
  <2> QED
    BY <1>2, <2>1, <2>3
<1>5. CASE b_state = "ENCODE_U"
  <2>1. /\ b_state' = "COMPRESS_V_SETUP"
        /\ b_reg'.c_prime = [b_reg.c_prime EXCEPT ![1] = ByteEncode(10, b_reg.bencu_in[0]),
                                                  ![2] = ByteEncode(10, b_reg.bencu_in[1])]
        /\ b_reg'.bcompv_in = b_reg.v_poly
    <3> HIDE DEF ByteEncode
    <3> QED
      BY <1>0, <1>5 DEF EncodeCiphertext, Stores, Registers
  <2>2. /\ b_reg'.c_prime[1] = ByteEncode(10, b_reg.bencu_in[0])
        /\ b_reg'.c_prime[2] = ByteEncode(10, b_reg.bencu_in[1])
    BY <1>0, <2>1 DEF IsOver
  <2>3. b_reg.v_poly = VOf(w) /\ \A i \in Vec : b_reg.bencu_in[i] = Compress(10, UOf(w, i))
    BY <1>5 DEF DataInv, PhaseInv, EncodeInv
  <2>4. 0 \in Vec /\ 1 \in Vec
    BY DEF Vec, K
  <2>5. EncodeInv(w)'
    BY <2>1, <2>2, <2>3, <2>4 DEF EncodeInv
  <2> QED
    BY <1>2, <2>1, <2>5
<1>6. CASE b_state \in {"COMPRESS_V_SETUP", "COMPRESS_V", "ENCODE_V"}
  <2>1. /\ b_reg.c_prime[1] = ByteEncode(10, Compress(10, UOf(w, 0)))
        /\ b_reg.c_prime[2] = ByteEncode(10, Compress(10, UOf(w, 1)))
        /\ b_state \in {"COMPRESS_V_SETUP", "COMPRESS_V"} => b_reg.bcompv_in = VOf(w)
        /\ b_state = "ENCODE_V" => b_reg.bencv_in = Compress(4, VOf(w))
    BY <1>6 DEF DataInv, PhaseInv, EncodeInv
  <2>2. CASE b_state = "COMPRESS_V_SETUP"
    <3>1. b_state' = "COMPRESS_V" /\ b_reg' = b_reg
      BY <2>2 DEF EncodeCiphertext, Stores
    <3>2. EncodeInv(w)'
      BY <2>1, <2>2, <3>1 DEF EncodeInv
    <3> QED
      BY <1>2, <3>1, <3>2
  <2>3. CASE b_state = "COMPRESS_V"
    <3>1. /\ b_state' = "ENCODE_V" /\ b_reg'.c_prime = b_reg.c_prime
          /\ b_reg'.bencv_in = Compress(4, b_reg.bcompv_in)
      BY <1>0, <2>3 DEF EncodeCiphertext, Stores, Registers
    <3>2. EncodeInv(w)'
      BY <2>1, <2>3, <3>1 DEF EncodeInv
    <3> QED
      BY <1>2, <3>1, <3>2
  <2>4. CASE b_state = "ENCODE_V"
    <3>1. /\ b_state' = "START_SHAKE256"
          /\ b_reg'.c_prime = [b_reg.c_prime EXCEPT ![3] = ByteEncode(4, b_reg.bencv_in)]
      BY <1>0, <2>4 DEF EncodeCiphertext, Stores, Registers
    <3>2. /\ b_reg'.c_prime[1] = ByteEncode(10, Compress(10, UOf(w, 0)))
          /\ b_reg'.c_prime[2] = ByteEncode(10, Compress(10, UOf(w, 1)))
          /\ b_reg'.c_prime[3] = ByteEncode(4, Compress(4, VOf(w)))
          /\ IsOver(b_reg'.c_prime, 1 .. 3)
      BY <1>0, <2>1, <2>4, <3>1 DEF IsOver
    <3>3. b_reg'.c_prime = KpkeEncrypt(w.ek, w.m, w.r)
      BY <3>2, PartsOfEncryption
    <3>4. ChooseInv(w)'
      BY <3>1, <3>3 DEF ChooseInv
    <3> QED
      BY <1>2, <3>1, <3>4 DEF Encoding
  <2> QED
    BY <1>6, <2>2, <2>3, <2>4
<1> QED
  BY <1>1, <1>3, <1>4, <1>5, <1>6 DEF Encoding

\* The ciphertext is compared when it comes off its wire for the last time.
LEMMA SelectData ==
  ASSUME NEW w, DataInv(w), CallInv, ResultInv, SelectSecret, WiresAre(w)
  PROVE  PhaseInv(w)'
<1>0. DOMAIN b_reg = Registers
  BY DEF DataInv, ShapeInv, Arrays
<1>1. /\ b_state \in Choosing /\ b_state' \in {"WAIT_SHAKE256", "DONE"} /\ ~b_done'
  BY DEF SelectSecret, Calls, Stores, Quiet, Choosing
<1>2. b_reg.c_prime = KpkeEncrypt(w.ek, w.m, w.r)
  BY <1>1 DEF DataInv, PhaseInv, ChooseInv
<1>3. ASSUME ChooseInv(w)', EndInv(w)'
      PROVE  PhaseInv(w)'
  BY <1>1, <1>3 DEF PhaseInv, StartInv, SampleInv, DrawInv, ForwardInv, MultiplyUInv,
         MultiplyVInv, InvertUInv, InvertVInv, DecodeInv, AddInv, EncodeInv,
         Sampling, Drawing, Forwarding, MultiplyingU, MultiplyingV, InvertingU, InvertingV,
         DecodingMu, Adding, Encoding
<1>4. CASE b_state = "START_SHAKE256"
  <2>1. b_state' = "WAIT_SHAKE256" /\ b_reg' = b_reg /\ b_in'["shake256"] = <<z_in, c_in>>
    BY <1>4 DEF SelectSecret, Calls, CallInv, Units
  <2>2. ChooseInv(w)'
    BY <1>2, <2>1 DEF ChooseInv, WiresAre
  <2>3. EndInv(w)'
    BY <1>1, <2>1 DEF EndInv
  <2> QED
    BY <1>3, <2>2, <2>3
<1>5. CASE b_state = "WAIT_SHAKE256"
  <2>1. /\ b_unit["shake256"].done /\ b_state' = "DONE"
        /\ b_reg'.c_prime = b_reg.c_prime /\ b_reg'.match = (c_in = b_reg.c_prime)
        /\ b_reg'.K_final = IF c_in = b_reg.c_prime THEN K_prime_in ELSE b_unit["shake256"].out
    BY <1>0, <1>5 DEF SelectSecret, Stores, Registers
  <2>2. b_unit["shake256"].out = J(w.z, w.c)
    <3>1. "shake256" \in Units /\ b_state = WaitOf("shake256")
      BY <1>5 DEF Units, WaitOf
    <3>2. b_unit["shake256"].out = Result("shake256", b_in["shake256"])
      BY <2>1, <3>1 DEF ResultInv
    <3>3. b_in["shake256"] = <<w.z, w.c>>
      BY <1>5 DEF DataInv, PhaseInv, ChooseInv
    <3> QED
      BY <3>2, <3>3 DEF Result
  <2>3. EndInv(w)'
    BY <1>1, <1>2, <2>1, <2>2 DEF EndInv, Encrypted, WiresAre
  <2>4. ChooseInv(w)'
    BY <2>1 DEF ChooseInv, Choosing
  <2> QED
    BY <1>3, <2>3, <2>4
<1> QED
  BY <1>1, <1>4, <1>5 DEF Choosing

LEMMA WaitingData ==
  ASSUME NEW w, DataInv(w), Complete \/ Waiting
  PROVE  PhaseInv(w)'
<1>1. CASE Complete
  <2>1. b_state = "DONE" /\ b_state' = "IDLE" /\ b_reg' = b_reg
    BY <1>1 DEF Complete
  <2>2. EndInv(w)'
    BY <2>1 DEF DataInv, PhaseInv, EndInv, Encrypted
  <2> QED
    BY <2>1, <2>2 DEF PhaseInv, StartInv, SampleInv, DrawInv, ForwardInv, MultiplyUInv,
         MultiplyVInv, InvertUInv, InvertVInv, DecodeInv, AddInv, EncodeInv, ChooseInv,
         Sampling, Drawing, Forwarding, MultiplyingU, MultiplyingV, InvertingU, InvertingV,
         DecodingMu, Adding, Encoding, Choosing
<1>2. CASE Waiting
  <2>1. /\ b_state \in {"IDLE", "WAIT_SNTT", "WAIT_CBD1", "WAIT_CBD2", "WAIT_SHAKE256"}
        /\ b_state' = b_state /\ b_reg' = b_reg /\ b_ctr' = b_ctr /\ b_in' = b_in /\ ~b_done'
    BY <1>2 DEF Waiting, Stores, Quiet
  <2>2. SampleInv(w)' /\ DrawInv(w)'
    BY <2>1 DEF DataInv, PhaseInv, SampleInv, DrawInv, HasKey, HasMatrix
  <2>3. ChooseInv(w)' /\ EndInv(w)'
    BY <2>1 DEF DataInv, PhaseInv, ChooseInv, EndInv
  <2> QED
    BY <2>1, <2>2, <2>3 DEF PhaseInv, StartInv, ForwardInv, MultiplyUInv,
         MultiplyVInv, InvertUInv, InvertVInv, DecodeInv, AddInv, EncodeInv,
         Forwarding, MultiplyingU, MultiplyingV, InvertingU, InvertingV,
         DecodingMu, Adding, Encoding
<1> QED
  BY <1>1, <1>2

-----------------------------------------------------------------------------
(***************************************************************************)
(* All of the core.  The wires must carry w from START to the end; nothing *)
(* is asked of them, of the registers or of the memory before.             *)
(***************************************************************************)
\* An edge of the core, while the wires carry w in a run.
LEMMA DataStep ==
  ASSUME NEW w, RestInv, ResultInv, DataInv(w), b_start \/ b_state # "IDLE" => WiresAre(w),
         NEW go \in BOOLEAN, Clock(go)
  PROVE  DataInv(w)'
<1>1. ShapeInv'
  BY ShapeStep DEF DataInv
<1>2. CallInv /\ StageInv
  BY DEF RestInv
<1>3. DecodeMessage \/ SampleVectors \/ SelectSecret => WiresAre(w)
  BY DEF DecodeMessage, SampleVectors, SelectSecret
<1>4. PhaseInv(w)'
  <2>1. CASE Begin
    BY <2>1, BeginData
  <2>2. CASE SampleMatrix
    BY <1>2, <2>2, MatrixData
  <2>3. CASE SampleVectors
    BY <1>2, <1>3, <2>3, VectorsData
  <2>4. CASE SampleLast
    BY <1>2, <2>4, LastVectorData
  <2>5. CASE Transform
    BY <1>2, <2>5, ForwardData
  <2>6. CASE NextTransform
    BY <2>6, NextForwardData
  <2>7. CASE MultiplyMatrix
    BY <2>7, MultiplyData
  <2>8. CASE FirstInverse
    BY <2>8, FirstInverseData
  <2>9. CASE InvertU
    BY <1>2, <2>9, InvertUData
  <2>10. CASE AddError
    BY <2>10, AddErrorData
  <2>11. CASE NextInverse
    BY <2>11, NextInverseData
  <2>12. CASE InvertV
    BY <1>2, <2>12, InvertVData
  <2>13. CASE DecodeMessage
    BY <1>3, <2>13, DecodeData
  <2>14. CASE AddMessage
    BY <2>14, AddMessageData
  <2>15. CASE EncodeCiphertext
    BY <2>15, EncodeData
  <2>16. CASE SelectSecret
    BY <1>2, <1>3, <2>16, SelectData
  <2>17. CASE Complete \/ Waiting
    BY <2>17, WaitingData
  <2> QED
    BY <2>1, <2>2, <2>3, <2>4, <2>5, <2>6, <2>7, <2>8, <2>9, <2>10, <2>11, <2>12, <2>13, <2>14,
       <2>15, <2>16, <2>17 DEF Clock, Fsm
<1> QED
  BY <1>1, <1>4 DEF DataInv

\* At rest, nothing is claimed of the registers.
LEMMA DataAtRest ==
  ASSUME NEW w, ShapeInv, b_state = "IDLE", ~b_done
  PROVE  DataInv(w)
BY DEF DataInv, PhaseInv, StartInv, SampleInv, DrawInv, ForwardInv, MultiplyUInv,
       MultiplyVInv, InvertUInv, InvertVInv, DecodeInv, AddInv, EncodeInv, ChooseInv, EndInv,
       Sampling, Drawing, Forwarding, MultiplyingU, MultiplyingV, InvertingU, InvertingV,
       DecodingMu, Adding, Encoding, Choosing

LEMMA ShapeInit == Init => ShapeInv /\ ResultInv
<1> SUFFICES ASSUME Init PROVE ShapeInv /\ ResultInv
  OBVIOUS
<1>1. Arrays(b_reg)
  <2> DEFINE none == [i \in Vec |-> Undefined]
  <2>1. IsOver(none, Vec) /\ IsOver(Loaded(Undefined), Indices)
    BY DEF IsOver, Loaded, Poly
  <2>2. /\ DOMAIN b_reg = Registers
        /\ b_reg.A = [i \in Vec |-> none] /\ b_reg.y_hat = [i \in Vec |-> Loaded(Undefined)]
        /\ b_reg.y_vec = none /\ b_reg.e1 = none /\ b_reg.u_acc = none /\ b_reg.u_vec = none
        /\ b_reg.raw_u = Loaded(Undefined) /\ b_reg.raw_v = Loaded(Undefined)
        /\ b_reg.mu = Loaded(Undefined)
        /\ b_reg.c_prime = <<Undefined, Undefined, Undefined>>
    BY DEF Init, Registers
  <2>3. IsOver(b_reg.c_prime, 1 .. 3)
    BY <2>2 DEF IsOver
  <2> HIDE DEF none
  <2>4. IsOver(b_reg.A, Vec) /\ \A i \in Vec : IsOver(b_reg.A[i], Vec)
    BY <2>1, <2>2 DEF IsOver
  <2>5. IsOver(b_reg.y_hat, Vec) /\ \A i \in Vec : IsOver(b_reg.y_hat[i], Indices)
    BY <2>1, <2>2 DEF IsOver
  <2> QED
    BY <2>1, <2>2, <2>3, <2>4, <2>5 DEF Arrays
<1>2. /\ DOMAIN b_ctr = {"i", "j", "n", "fwd", "col", "mj", "inv", "bit"}
      /\ DOMAIN b_ntt = {"fsm", "bank", "stage_done", "read_valid", "read_data"}
      /\ IsIdx(b_fwd) /\ IsIdx(b_inv) /\ IsDrive(b_drive)
  BY DEF Init, IsIdx, IsDrive, Forward!IdleDrive, Forward!IdleNtt
<1>3. b_ntt.bank = [c \in Indices |-> b_ntt.bank[c]]
  BY DEF Init, Forward!IdleNtt, Forward!Loaded, Forward!Poly, Forward!Indices, Indices
<1>4. ResultInv
  BY DEF Init, ResultInv, WaitOf, Units
<1> QED
  BY <1>1, <1>2, <1>3, <1>4 DEF ShapeInv, Shape, IsIdx, IsDrive

LEMMA ShapeReset == ShapeInv /\ Reset => ShapeInv' /\ ResultInv'
<1> SUFFICES ASSUME ShapeInv, Reset PROVE ShapeInv' /\ ResultInv'
  OBVIOUS
<1>1. b_drive' = [b_drive EXCEPT !.start = FALSE, !.load = FALSE] /\ b_state' = "IDLE"
      /\ UNCHANGED <<b_ctr, b_fwd, b_inv, b_reg>>
  BY DEF Reset, Forward!Low
<1>2. PICK b : /\ b_ntt' = [b_ntt EXCEPT !.fsm = "IDLE", !.bank = Forward!Written(b),
                                         !.stage_done = FALSE, !.read_valid = FALSE]
               /\ b = [c \in Indices |-> b[c]]
  <2> DEFINE staged == Forward!Stage(b_drive.op, b_drive.entry, b_ntt.bank)
             partly(cut) == [c \in Indices |-> IF c \in cut THEN staged[c] ELSE b_ntt.bank[c]]
  <2>1. PICK cut : b_ntt' = [b_ntt EXCEPT !.fsm = "IDLE", !.bank = Forward!Written(partly(cut)),
                                          !.stage_done = FALSE, !.read_valid = FALSE]
    BY Zenon DEF Reset, Forward!NttReset, Forward!Indices, Indices
  <2>2. partly(cut) = [c \in Indices |-> partly(cut)[c]]
    OBVIOUS
  <2> QED
    BY <2>1, <2>2
<1>3. IsDrive(b_drive')
  BY <1>1 DEF ShapeInv, Shape, IsDrive
<1>4. /\ DOMAIN b_ntt' = DOMAIN b_ntt /\ b_ntt'.bank = [c \in Indices |-> b_ntt'.bank[c]]
  BY <1>2 DEF ShapeInv, Forward!Written
<1>5. ShapeInv'
  BY <1>1, <1>3, <1>4 DEF ShapeInv, Shape, IsDrive
<1>6. ResultInv'
  BY <1>1 DEF ResultInv, WaitOf, Units
<1> QED
  BY <1>5, <1>6

\* The registers stay as they are while nothing runs.
LEMMA RegistersStay ==
  ASSUME Fsm, b_state = "IDLE", ~b_start
  PROVE  b_reg' = b_reg /\ b_state' = "IDLE" /\ ~b_done'
<1>1. Waiting
  BY DEF Fsm, Begin, SampleMatrix, SampleVectors, SampleLast, Transform, NextTransform,
         MultiplyMatrix, FirstInverse, InvertU, AddError, NextInverse, InvertV, DecodeMessage,
         AddMessage, EncodeCiphertext, SelectSecret, Complete, Adds,
         Forward!Pass, Forward!Load, Forward!SetUp, Forward!StartStage, Forward!EndStage,
         Forward!Fetch, Forward!Take, Forward!Arrives, Forward!Wait, Forward!FWD,
         Inverse!Pass, Inverse!Load, Inverse!SetUp, Inverse!StartStage, Inverse!EndStage,
         Inverse!Fetch, Inverse!Take, Inverse!Arrives, Inverse!Wait, Inverse!INV_U, Inverse!INV_V
<1> QED
  BY <1>1 DEF Waiting, Stores, Quiet

\* A run goes on until it says that it has ended.
LEMMA RunGoesOn ==
  ASSUME Fsm, b_start \/ b_state # "IDLE"
  PROVE  b_state' # "IDLE" \/ b_done'
<1> USE DEF Stores
<1>1. CASE Begin \/ Complete
  BY <1>1 DEF Begin, Complete
<1>2. CASE SampleMatrix
  BY <1>2 DEF SampleMatrix, Calls
<1>3. CASE SampleVectors \/ SampleLast
  BY <1>3 DEF SampleVectors, SampleLast, Calls
<1>4. CASE Transform \/ InvertU \/ InvertV
  BY <1>4, PassKeeps DEF Passing
<1>5. CASE NextTransform \/ FirstInverse \/ NextInverse
  BY <1>5 DEF NextTransform, FirstInverse, NextInverse
<1>6. CASE MultiplyMatrix
  BY <1>6 DEF MultiplyMatrix, Adds
<1>7. CASE AddError \/ AddMessage
  BY <1>7 DEF AddError, AddMessage, Adds
<1>8. CASE DecodeMessage
  BY <1>8 DEF DecodeMessage
<1>9. CASE EncodeCiphertext
  BY <1>9 DEF EncodeCiphertext
<1>10. CASE SelectSecret
  BY <1>10 DEF SelectSecret, Calls
<1>11. CASE Waiting
  BY <1>11 DEF Waiting
<1> QED
  BY <1>1, <1>2, <1>3, <1>4, <1>5, <1>6, <1>7, <1>8, <1>9, <1>10, <1>11 DEF Fsm

\* Nothing is claimed of anything but the state of the core.
LEMMA RestStays ==
  ASSUME UNCHANGED <<b_state, b_ctr, b_fwd, b_inv, b_reg, b_done, b_call, b_in, b_unit, b_drive,
                     b_ntt>>,
         RestInv, ResultInv, ShapeInv
  PROVE  RestInv' /\ ResultInv' /\ ShapeInv'
BY DEF RestInv, CallInv, StageInv, Called, Resting, ResultInv, ShapeInv

LEMMA DataStays ==
  ASSUME UNCHANGED <<b_state, b_ctr, b_fwd, b_inv, b_reg, b_done, b_call, b_in, b_unit, b_drive,
                     b_ntt>>,
         NEW w
  PROVE  (DataInv(w) => DataInv(w)') /\ (Encrypted(w) => Encrypted(w)')
<1>1. ShapeInv => ShapeInv'
  BY DEF ShapeInv
<1>2. PhaseInv(w) => PhaseInv(w)'
  BY DEF PhaseInv, StartInv, SampleInv, DrawInv, ForwardInv, MultiplyUInv, MultiplyVInv,
         InvertUInv, InvertVInv, DecodeInv, AddInv, EncodeInv, ChooseInv, EndInv, Encrypted
<1>3. Encrypted(w) => Encrypted(w)'
  BY DEF Encrypted
<1> QED
  BY <1>1, <1>2, <1>3 DEF DataInv
=============================================================================
