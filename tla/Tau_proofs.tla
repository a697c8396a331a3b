--------------------------- MODULE Tau_proofs ----------------------------
(***************************************************************************)
(* Proofs about the audit log, alone and on the bus (TauWishbone), and     *)
(* about the TAU core, which is the log and the watchdog with an arbiter:  *)
(* for every set of decisions, ring size, counter width, timeout threshold *)
(* and number of COMMITs.  The invariants of the log and of the watchdog   *)
(* are proved for any driver of their ports, so that the core, the bus     *)
(* wrapper and the integrated wrapper start from them.                     *)
(***************************************************************************)
EXTENDS TauCore, TauWishbone, TauIntegrated, FiniteSetTheorems, TLAPS

-----------------------------------------------------------------------------
(* Arithmetic of the ring.                                                 *)

\* A slot is a slot, whatever number it is computed from.
LEMMA SlotInRange == \A n \in Nat : Slot(n) \in Slots
BY LogDepthAssumption DEF Slot, Slots

\* The next sequence number is a sequence number (the 8-bit wrap).
LEMMA NextSeqInRange == \A n \in SeqNos : NextSeq(n) \in SeqNos
BY SeqModAssumption, LogDepthAssumption DEF NextSeq, SeqNos

\* Hashing extends a chain hash by one entry.
LEMMA Sha3Type ==
  ASSUME NEW h \in Hashes, NEW d \in Decisions, NEW s \in SeqNos
  PROVE  Sha3(h, d, s) \in Hashes
BY DEF Sha3, Hashes, Entries

\* Two numbers less than a ring apart never share a slot, not even when the
\* sequence counter wraps between them: this is what M % D = 0 is for.
LEMMA PositiveMultiple ==
  ASSUME NEW d \in Nat, d > 0, NEW k \in Int, k > 0
  PROVE  d * k >= d
<1>1. k - 1 >= 0
  OBVIOUS
<1>2. d * (k - 1) >= 0
  BY <1>1
<1>3. d * k = d * (k - 1) + d
  OBVIOUS
<1> QED
  BY <1>2, <1>3

LEMMA NonPositiveMultiple ==
  ASSUME NEW d \in Nat, NEW k \in Int, k <= 0
  PROVE  d * k <= 0
BY Z3

LEMMA Residue ==
  ASSUME NEW d \in Nat, d > 0, NEW n \in Nat
  PROVE  \E k \in Nat : n = d * k + (n % d)
<1>1. n = d * (n \div d) + (n % d)
  OBVIOUS
<1>2. n \div d \in Nat
  OBVIOUS
<1> QED
  BY <1>1, <1>2

LEMMA DistinctSlots ==
  ASSUME NEW D \in Nat, D > 0, NEW M \in Nat, M > 0, M % D = 0,
         NEW a \in Nat, NEW b \in Nat, b < a, a - b < D
  PROVE  (a % M) % D # (b % M) % D
<1> SUFFICES ASSUME (a % M) % D = (b % M) % D
             PROVE  FALSE
  OBVIOUS
<1>1. PICK q \in Nat : M = D * q + (M % D)
  BY Residue
<1>2. PICK x \in Nat : a = M * x + (a % M)
  BY Residue
<1>3. PICK y \in Nat : b = M * y + (b % M)
  BY Residue
<1>4. a % M \in Nat /\ b % M \in Nat
  OBVIOUS
<1>5. PICK u \in Nat : a % M = D * u + ((a % M) % D)
  BY <1>4, Residue
<1>6. PICK w \in Nat : b % M = D * w + ((b % M) % D)
  BY <1>4, Residue
<1> DEFINE k == q * x + u - (q * y + w)
<1>7. k \in Int
  OBVIOUS
<1>8. a - b = D * k
  <2>1. (a % M) % D \in Nat
    BY <1>4
  <2>2. a - b = (M * x - M * y) + (D * u - D * w)
    BY <1>2, <1>3, <1>4, <1>5, <1>6, <2>1
  <2>3. M * x = D * (q * x) /\ M * y = D * (q * y)
    BY <1>1
  <2> QED
    BY <2>2, <2>3
<1> HIDE DEF k
<1>9. CASE k > 0
  BY <1>7, <1>8, <1>9, PositiveMultiple
<1>10. CASE k <= 0
  BY <1>7, <1>8, <1>10, NonPositiveMultiple
<1> QED
  BY <1>7, <1>9, <1>10

LEMMA SlotsDiffer ==
  ASSUME NEW a \in Nat, NEW b \in Nat, b < a, a - b < LogDepth
  PROVE  Slot(a % SeqMod) # Slot(b % SeqMod)
<1>1. LogDepth \in Nat /\ LogDepth > 0 /\ SeqMod \in Nat /\ SeqMod > 0 /\ SeqMod % LogDepth = 0
  BY LogDepthAssumption, SeqModAssumption
<1>2. (a % SeqMod) % LogDepth # (b % SeqMod) % LogDepth
  BY <1>1, DistinctSlots
<1> QED
  BY <1>2 DEF Slot

\* Counting modulo SeqMod is counting, then reducing.
LEMMA ResidueUnique ==
  ASSUME NEW d \in Nat, d > 0, NEW n \in Nat, NEW k \in Int, NEW r \in 0 .. d - 1,
         n = d * k + r
  PROVE  n % d = r
<1>1. PICK j \in Nat : n = d * j + (n % d)
  BY Residue
<1>2. n % d \in 0 .. d - 1
  OBVIOUS
<1>3. d * (j - k) = r - (n % d)
  BY <1>1, <1>2
<1>4. j - k \in Int /\ k - j \in Int /\ d * (k - j) = (n % d) - r
  BY <1>2, <1>3
<1>5. CASE j - k > 0
  BY <1>2, <1>3, <1>4, <1>5, PositiveMultiple
<1>6. CASE k - j > 0
  BY <1>2, <1>4, <1>6, PositiveMultiple
<1>7. CASE j = k
  BY <1>2, <1>3, <1>7
<1> QED
  BY <1>4, <1>5, <1>6, <1>7

LEMMA NextSeqCounts == \A n \in Nat : NextSeq(n % SeqMod) = (n + 1) % SeqMod
<1> SUFFICES ASSUME NEW n \in Nat PROVE NextSeq(n % SeqMod) = (n + 1) % SeqMod
  OBVIOUS
<1>1. SeqMod \in Nat /\ SeqMod > 0
  BY LogDepthAssumption, SeqModAssumption
<1>2. PICK k \in Nat : n = SeqMod * k + (n % SeqMod)
  BY <1>1, Residue
<1>3. n % SeqMod \in 0 .. SeqMod - 1
  BY <1>1
<1> DEFINE r == n % SeqMod
<1>4. CASE r + 1 < SeqMod
  <2>1. n + 1 = SeqMod * k + (r + 1) /\ r + 1 \in 0 .. SeqMod - 1
    BY <1>1, <1>2, <1>3, <1>4
  <2>2. (n + 1) % SeqMod = r + 1
    BY <1>1, <2>1, ResidueUnique
  <2>3. (r + 1) % SeqMod = r + 1
    BY <1>1, <1>3, <1>4
  <2> QED
    BY <2>2, <2>3 DEF NextSeq
<1>5. CASE r + 1 = SeqMod
  <2>1. n + 1 = SeqMod * (k + 1) + 0 /\ 0 \in 0 .. SeqMod - 1 /\ k + 1 \in Int
    BY <1>1, <1>2, <1>3, <1>5
  <2>2. (n + 1) % SeqMod = 0
    BY <1>1, <2>1, ResidueUnique
  <2>3. (r + 1) % SeqMod = 0
    <3>1. r + 1 = SeqMod * 1 + 0 /\ r + 1 \in Nat
      BY <1>1, <1>5
    <3> QED
      BY <1>1, <2>1, <3>1, ResidueUnique
  <2> QED
    BY <2>2, <2>3 DEF NextSeq
<1> QED
  BY <1>1, <1>3, <1>4, <1>5

-----------------------------------------------------------------------------
(* Type correctness needs one fact besides the types: a decision has been  *)
(* latched whenever the FSM or the hash core is at work.                   *)
Latched ==
  state # "IDLE" \/ sha3_start \/ sha3_fsm # "IDLE" => decision_hash_reg \in Decisions

TypeInv == LogTypeOK /\ Latched

LEMMA TypeInit == Init => TypeInv
<1>1. 0 \in SeqNos
  BY SeqModAssumption, LogDepthAssumption DEF SeqNos
<1>2. Genesis \in Hashes
  BY DEF Genesis, Hashes
<1>3. 0 \in 0 .. LogDepth
  BY LogDepthAssumption
<1> QED
  BY <1>1, <1>2, <1>3 DEF Init, LogInit, TypeInv, LogTypeOK, Latched

\* Reset re-establishes the types.
LEMMA TypeReset == TypeInv /\ LogReset => TypeInv'
<1>1. 0 \in SeqNos
  BY SeqModAssumption, LogDepthAssumption DEF SeqNos
<1>2. Genesis \in Hashes
  BY DEF Genesis, Hashes
<1>3. 0 \in 0 .. LogDepth
  BY LogDepthAssumption
<1> QED
  BY <1>1, <1>2, <1>3 DEF LogReset, TypeInv, LogTypeOK, Latched

\* A clock edge preserves the types, whatever is on the write port.
LEMMA TypeClock ==
  ASSUME TypeInv, NEW v \in BOOLEAN, NEW d \in Decisions, LogClock(v, d)
  PROVE  TypeInv'
<1> USE DEF TypeInv, LogTypeOK, Latched
<1>1. FsmStep(v, d) /\ CoreStep
  BY DEF LogClock
<1>2. (sha3_fsm \in {"IDLE", "PAD", "ABSORB", "SQUEEZE"} /\ sha3_done \in BOOLEAN)'
  BY <1>1 DEF CoreStep, CoreProgress, CoreIdle, CorePad, CoreAbsorb, CoreSqueeze,
              CoreBusy, coreVars
<1>3. sha3_digest' \in Hashes
  BY <1>1, Sha3Type DEF CoreStep, CoreProgress, CoreIdle, CorePad, CoreAbsorb,
              CoreSqueeze, CoreBusy, coreVars
<1>4. sha3_fsm' # "IDLE" => sha3_fsm # "IDLE" \/ sha3_start
  BY <1>1 DEF CoreStep, CoreProgress, CoreIdle, CorePad, CoreAbsorb, CoreSqueeze,
              CoreBusy, coreVars
<1>5. CASE Idle(v)
  BY <1>2, <1>3, <1>4, <1>5 DEF Idle, ringVars
<1>6. CASE Accept(v, d)
  BY <1>2, <1>3, <1>4, <1>6 DEF Accept, ringVars
<1>7. CASE Hashing
  BY <1>2, <1>3, <1>4, <1>7 DEF Hashing, ringVars
<1>8. CASE Commit
  <2>1. Slot(seq_counter) \in Slots
    BY SlotInRange, SeqModAssumption DEF SeqNos
  <2>2. NextSeq(seq_counter) \in SeqNos
    BY NextSeqInRange
  <2>3. (/\ chain_hash_mem \in [Slots -> Hashes \cup {Undefined}]
         /\ decision_hash_mem \in [Slots -> Decisions \cup {Undefined}]
         /\ entry_valid_mem \in [Slots -> BOOLEAN])'
    BY <1>8, <2>1 DEF Commit, StoreEntry
  <2>4. (log_count \in 0 .. LogDepth /\ log_full \in BOOLEAN)'
    BY <1>8, LogDepthAssumption DEF Commit, Advance
  <2> QED
    BY <1>8, <1>2, <1>3, <1>4, <2>2, <2>3, <2>4 DEF Commit, Report, Advance
<1> QED
  BY <1>1, <1>5, <1>6, <1>7, <1>8 DEF FsmStep

\* In every reachable state every register holds a value of its type.
THEOREM TypeCorrect == Spec => []LogTypeOK
<1>1. TypeInv /\ [Next]_logVars => TypeInv'
  <2> SUFFICES ASSUME TypeInv, [Next]_logVars PROVE TypeInv'
    OBVIOUS
  <2>1. CASE LogReset
    BY <2>1, TypeReset
  <2>2. CASE Clock
    BY <2>2, TypeClock DEF Clock
  <2>3. CASE UNCHANGED logVars
    BY <2>3 DEF TypeInv, LogTypeOK, Latched, logVars, fsmVars, coreVars
  <2> QED
    BY <2>1, <2>2, <2>3 DEF Next
<1> QED
  BY <1>1, TypeInit, PTL DEF Spec, TypeInv

-----------------------------------------------------------------------------
(* The safety invariants.                                                  *)

(***************************************************************************)
(* Where the FSM and the hash core can be relative to each other, and when *)
(* the digest register already holds the hash of the write in progress.    *)
(* The invariants below are not inductive without it: only the phase says  *)
(* that nothing the core reads changes between the start and the commit.   *)
(***************************************************************************)
Fresh == sha3_digest = Sha3(current_chain_head, decision_hash_reg, seq_counter)

Phase ==
  /\ state = "IDLE" => sha3_fsm = "IDLE" /\ ~sha3_start /\ ~sha3_done
  /\ state = "HASHING" =>
       \/ sha3_fsm = "IDLE" /\ sha3_start /\ ~sha3_done
       \/ sha3_fsm \in {"PAD", "ABSORB"} /\ ~sha3_start /\ ~sha3_done
       \/ sha3_fsm = "SQUEEZE" /\ ~sha3_start /\ ~sha3_done /\ Fresh
       \/ sha3_fsm = "IDLE" /\ ~sha3_start /\ sha3_done /\ Fresh
  /\ state = "COMMIT" => sha3_fsm = "IDLE" /\ ~sha3_start /\ ~sha3_done /\ Fresh
  /\ write_busy <=> state # "IDLE"

PhaseInv == TypeInv /\ Phase

LEMMA PhaseInit == Init => Phase
BY DEF Init, LogInit, Phase

LEMMA PhaseReset == LogReset => Phase'
BY DEF LogReset, Phase

LEMMA PhaseClock ==
  ASSUME PhaseInv, NEW v \in BOOLEAN, NEW d \in Decisions, LogClock(v, d)
  PROVE  Phase'
<1> USE DEF PhaseInv, Phase, TypeInv, LogTypeOK
<1>1. FsmStep(v, d) /\ CoreStep
  BY DEF LogClock
<1>2. CASE Idle(v)
  BY <1>1, <1>2 DEF Idle, CoreStep, CoreProgress, CoreIdle, CorePad, CoreAbsorb,
                    CoreSqueeze, CoreBusy
<1>3. CASE Accept(v, d)
  BY <1>1, <1>3 DEF Accept, CoreStep, CoreProgress, CoreIdle, CorePad, CoreAbsorb,
                    CoreSqueeze, CoreBusy
<1>4. CASE Hashing
  <2>1. UNCHANGED <<current_chain_head, decision_hash_reg, seq_counter, write_busy>>
        /\ ~sha3_start'
    BY <1>4 DEF Hashing, ringVars
  <2>2. state' = IF sha3_done THEN "COMMIT" ELSE "HASHING"
    BY <1>4 DEF Hashing
  <2>3. state = "HASHING"
    BY <1>4 DEF Hashing
  <2>4. CASE CoreIdle
    BY <2>1, <2>2, <2>3, <2>4 DEF CoreIdle, Fresh
  <2>5. CASE CorePad
    BY <2>1, <2>2, <2>3, <2>5 DEF CorePad, Fresh
  <2>6. CASE CoreAbsorb
    BY <2>1, <2>2, <2>3, <2>6 DEF CoreAbsorb, Fresh
  <2>7. CASE CoreSqueeze
    BY <2>1, <2>2, <2>3, <2>7 DEF CoreSqueeze, Fresh
  <2>8. CASE CoreBusy
    BY <2>1, <2>2, <2>3, <2>8 DEF CoreBusy, coreVars, Fresh
  <2> QED
    BY <1>1, <2>4, <2>5, <2>6, <2>7, <2>8 DEF CoreStep, CoreProgress
<1>5. CASE Commit
  BY <1>1, <1>5 DEF Commit, CoreStep, CoreProgress, CoreIdle, CorePad, CoreAbsorb,
                    CoreSqueeze, CoreBusy
<1> QED
  BY <1>1, <1>2, <1>3, <1>4, <1>5 DEF FsmStep

\* What one clock edge does to the ring: nothing, or one commit of a fresh digest.
LEMMA EdgeEffect ==
  ASSUME PhaseInv, NEW v \in BOOLEAN, NEW d \in Decisions, LogClock(v, d)
  PROVE  \/ UNCHANGED ringVars /\ ~write_done'
         \/ Commit /\ Fresh /\ decision_hash_reg \in Decisions
BY DEF PhaseInv, Phase, TypeInv, Latched, LogClock, FsmStep, Idle, Accept, Hashing, Commit

(***************************************************************************)
(* The inductive invariant.                                                *)
(***************************************************************************)
Safety ==
  /\ RingHoldsTail
  /\ SequenceNumbers
  /\ FillLevel
  /\ DoneReportsLastEntry

IInv == PhaseInv /\ Safety

LEMMA EmptyChainSafe ==
  current_chain_head = Genesis /\ seq_counter = 0 /\ log_count = 0 /\ ~log_full /\ ~write_done
    => Safety
BY SeqModAssumption, LogDepthAssumption
   DEF Genesis, Safety, RingHoldsTail, SequenceNumbers, FillLevel, DoneReportsLastEntry, Written

\* A commit preserves every part of the safety invariant.
LEMMA CommitSafe ==
  ASSUME IInv, Commit, Fresh, decision_hash_reg \in Decisions
  PROVE  Safety'
<1> USE DEF IInv, PhaseInv, TypeInv, LogTypeOK
<1> DEFINE N == Len(current_chain_head)
           s == Slot(seq_counter)
<1>1. current_chain_head \in Seq(Entries) /\ N \in Nat
  BY DEF Hashes
<1>2. <<decision_hash_reg, seq_counter>> \in Entries
  BY DEF Entries
<1>3. current_chain_head' = Append(current_chain_head, <<decision_hash_reg, seq_counter>>)
      /\ sha3_digest = current_chain_head'
  BY DEF Commit, Advance, Fresh, Sha3
<1>4. /\ Written' = N + 1
      /\ current_chain_head'[N + 1] = <<decision_hash_reg, seq_counter>>
      /\ \A n \in 1 .. N : current_chain_head'[n] = current_chain_head[n]
  BY <1>1, <1>2, <1>3 DEF Written
<1>5. seq_counter = N % SeqMod /\ seq_counter \in Nat
  BY DEF Safety, SequenceNumbers, Written, SeqNos
<1>6. s \in Slots
  BY <1>5, SlotInRange
<1>7. SequenceNumbers'
  <2>1. seq_counter' = (N + 1) % SeqMod
    BY <1>1, <1>5, NextSeqCounts DEF Commit, Advance
  <2>2. \A n \in 1 .. N + 1 : current_chain_head'[n][2] = (n - 1) % SeqMod
    <3>1. \A n \in 1 .. N : current_chain_head[n][2] = (n - 1) % SeqMod
      BY DEF Safety, SequenceNumbers, Written
    <3>2. current_chain_head'[N + 1][2] = N % SeqMod
      BY <1>4, <1>5
    <3> QED
      BY <1>1, <1>4, <3>1, <3>2
  <2> QED
    BY <1>4, <2>1, <2>2 DEF SequenceNumbers
<1>8. FillLevel'
  <2>1. log_count = (IF N < LogDepth THEN N ELSE LogDepth) /\ (log_full <=> N > LogDepth)
    BY DEF Safety, FillLevel, Written
  <2>2. log_count' = IF log_count < LogDepth THEN log_count + 1 ELSE log_count
    BY DEF Commit, Advance
  <2>3. log_full' <=> log_full \/ ~(log_count < LogDepth)
    BY DEF Commit, Advance
  <2> QED
    BY <1>1, <1>4, <2>1, <2>2, <2>3, LogDepthAssumption DEF FillLevel
<1>9. /\ chain_hash_mem' = [chain_hash_mem EXCEPT ![s] = current_chain_head']
      /\ decision_hash_mem' = [decision_hash_mem EXCEPT ![s] = decision_hash_reg]
      /\ entry_valid_mem' = [entry_valid_mem EXCEPT ![s] = TRUE]
  BY <1>3 DEF Commit, StoreEntry
<1>10. RingHoldsTail'
  <2> SUFFICES ASSUME NEW n \in 1 .. N + 1, n > N + 1 - LogDepth
               PROVE  HoldsEntry(n)'
    BY <1>1, <1>4, LogDepthAssumption DEF RingHoldsTail, HoldsEntry
  <2> DEFINE t == SlotOfEntry(n)
  <2>1. CASE n = N + 1
    <3>1. t = s
      BY <1>1, <1>5, <2>1 DEF SlotOfEntry
    <3>2. SubSeq(current_chain_head', 1, n) = current_chain_head'
      BY <1>1, <1>2, <1>3, <2>1
    <3> QED
      BY <1>4, <1>6, <1>9, <2>1, <3>1, <3>2 DEF HoldsEntry
  <2>2. CASE n \in 1 .. N
    <3>1. n - 1 \in Nat /\ n - 1 < N /\ N - (n - 1) < LogDepth
      BY <1>1, <2>2, LogDepthAssumption
    <3>3. t # s
      BY <1>1, <1>5, <3>1, SlotsDiffer DEF SlotOfEntry
    <3>4. (n - 1) % SeqMod \in Nat
      BY <3>1, SeqModAssumption, LogDepthAssumption
    <3>5. t \in Slots
      BY <3>4, SlotInRange DEF SlotOfEntry
    <3>6. /\ entry_valid_mem'[t] = entry_valid_mem[t]
          /\ chain_hash_mem'[t] = chain_hash_mem[t]
          /\ decision_hash_mem'[t] = decision_hash_mem[t]
      BY <1>9, <3>3, <3>5
    <3>7. /\ entry_valid_mem[t]
          /\ chain_hash_mem[t] = SubSeq(current_chain_head, 1, n)
          /\ decision_hash_mem[t] = current_chain_head[n][1]
      BY <2>2, <1>1, LogDepthAssumption DEF Safety, RingHoldsTail, HoldsEntry, Written
    <3>8. SubSeq(current_chain_head', 1, n) = SubSeq(current_chain_head, 1, n)
      BY <1>1, <1>2, <1>3, <2>2
    <3> QED
      BY <1>4, <2>2, <3>6, <3>7, <3>8 DEF HoldsEntry
  <2> QED
    BY <1>1, <2>1, <2>2 DEF HoldsEntry
<1>11. DoneReportsLastEntry'
  <2>1. write_chain_hash' = current_chain_head' /\ write_seq' = seq_counter
    BY <1>3 DEF Commit, Report
  <2> QED
    BY <1>1, <1>4, <1>6, <1>9, <2>1 DEF DoneReportsLastEntry
<1> QED
  BY <1>7, <1>8, <1>10, <1>11 DEF Safety

\* The inductive step, one lemma per kind of step: they are stated for any
\* driver of the write port, so that a unit that embeds the log can cite them.
LEMMA ResetInductive == IInv /\ LogReset => IInv'
<1> SUFFICES ASSUME IInv, LogReset PROVE IInv'
  OBVIOUS
<1>1. TypeInv' /\ Phase'
  BY TypeReset, PhaseReset DEF IInv, PhaseInv
<1>2. (current_chain_head = Genesis /\ seq_counter = 0 /\ log_count = 0
       /\ ~log_full /\ ~write_done)'
  BY DEF LogReset
<1>3. Safety'
  BY <1>2, SeqModAssumption, LogDepthAssumption
     DEF Genesis, Safety, RingHoldsTail, HoldsEntry, SequenceNumbers, FillLevel,
         DoneReportsLastEntry, Written
<1> QED
  BY <1>1, <1>3 DEF IInv, PhaseInv

LEMMA ClockInductive ==
  ASSUME IInv, NEW v \in BOOLEAN, NEW d \in Decisions, LogClock(v, d)
  PROVE  IInv'
<1>1. TypeInv' /\ Phase'
  BY TypeClock, PhaseClock DEF IInv, PhaseInv
<1>2. CASE UNCHANGED ringVars /\ ~write_done'
  <2>1. Safety'
    BY <1>2 DEF IInv, Safety, RingHoldsTail, HoldsEntry, SequenceNumbers, FillLevel,
                DoneReportsLastEntry, Written, ringVars
  <2> QED
    BY <1>1, <2>1 DEF IInv, PhaseInv
<1>3. CASE Commit /\ Fresh /\ decision_hash_reg \in Decisions
  BY <1>1, <1>3, CommitSafe DEF IInv, PhaseInv
<1> QED
  BY <1>2, <1>3, EdgeEffect DEF IInv

LEMMA StutterInductive == IInv /\ UNCHANGED logVars => IInv'
<1> SUFFICES ASSUME IInv, UNCHANGED logVars PROVE IInv'
  OBVIOUS
<1>1. TypeInv' /\ Phase'
  BY DEF IInv, PhaseInv, TypeInv, LogTypeOK, Latched, Phase, Fresh, logVars,
         fsmVars, coreVars
<1>2. Safety'
  BY DEF IInv, Safety, RingHoldsTail, HoldsEntry, SequenceNumbers, FillLevel,
         DoneReportsLastEntry, Written, logVars, fsmVars
<1> QED
  BY <1>1, <1>2 DEF IInv, PhaseInv

LEMMA LogInitInductive == LogInit => IInv
BY TypeInit, PhaseInit, EmptyChainSafe DEF IInv, PhaseInv, Init, LogInit

LEMMA InvariantHolds == Spec => []IInv
<1>1. Init => IInv
  BY LogInitInductive DEF Init
<1>2. IInv /\ [Next]_logVars => IInv'
  <2> SUFFICES ASSUME IInv, [Next]_logVars PROVE IInv'
    OBVIOUS
  <2>1. CASE LogReset
    BY <2>1, ResetInductive
  <2>2. CASE Clock
    BY <2>2, ClockInductive DEF Clock
  <2>3. CASE UNCHANGED logVars
    BY <2>3, StutterInductive
  <2> QED
    BY <2>1, <2>2, <2>3 DEF Next
<1> QED
  BY <1>1, <1>2, PTL DEF Spec

-----------------------------------------------------------------------------
(* The theorems.                                                           *)

\* The ring always holds the last LogDepth entries of the chain, each in the
\* slot of its number, across the wraps of the ring and of the counter.
THEOREM RingCorrect == Spec => []RingHoldsTail
BY InvariantHolds, PTL DEF IInv, Safety

\* The entries are numbered consecutively modulo the counter's range, the fill
\* level is exact, and write_done reports the entry that was just committed.
THEOREM CountersCorrect == Spec => [](SequenceNumbers /\ FillLevel /\ DoneReportsLastEntry)
BY InvariantHolds, PTL DEF IInv, Safety

\* What is committed is the hash of the values at the commit, however long ago
\* the core read them.
THEOREM FreshDigest == Spec => []DigestIsFresh
<1>1. IInv => DigestIsFresh
  BY DEF IInv, PhaseInv, Phase, Fresh, DigestIsFresh
<1> QED
  BY <1>1, InvariantHolds, PTL

\* write_busy is low exactly when a request is taken, and the core then rests.
THEOREM HandshakeExact == Spec => []BusyIsExact
<1>1. IInv => BusyIsExact
  BY DEF IInv, PhaseInv, Phase, BusyIsExact
<1> QED
  BY <1>1, InvariantHolds, PTL

\* The ports agree with the chain on every edge.
THEOREM OutputsCorrect == Spec => []OutputsMatchLog
BY TypeCorrect, CountersCorrect, FreshDigest, HandshakeExact, PTL DEF OutputsMatchLog

-----------------------------------------------------------------------------
(* The log is append-only and implements Journal.                          *)

LEMMA Extends ==
  IInv /\ [Next]_logVars =>
    [\/ current_chain_head' = current_chain_head
     \/ current_chain_head' = Genesis /\ seq_counter' = 0 /\ ~write_done'
     \/ /\ current_chain_head' = Sha3(current_chain_head, decision_hash_reg, seq_counter)
        /\ write_done']_logVars
<1> SUFFICES ASSUME IInv, Next
             PROVE  \/ current_chain_head' = current_chain_head
                    \/ current_chain_head' = Genesis /\ seq_counter' = 0 /\ ~write_done'
                    \/ /\ current_chain_head' =
                            Sha3(current_chain_head, decision_hash_reg, seq_counter)
                       /\ write_done'
  OBVIOUS
<1>1. CASE LogReset
  BY <1>1 DEF LogReset
<1>2. CASE Clock
  <2>1. PICK v \in BOOLEAN, d \in Decisions : LogClock(v, d)
    BY <1>2 DEF Clock
  <2>2. CASE UNCHANGED ringVars /\ ~write_done'
    BY <2>2 DEF ringVars
  <2>3. CASE Commit /\ Fresh /\ decision_hash_reg \in Decisions
    BY <2>3 DEF Commit, Advance, Report, Fresh
  <2> QED
    BY <2>1, <2>2, <2>3, EdgeEffect DEF IInv
<1> QED
  BY <1>1, <1>2 DEF Next

\* Between resets a step keeps the head of the chain or extends it by the one
\* decision that was latched.
THEOREM ChainAppendOnly == Spec => AppendOnly
BY InvariantHolds, Extends, PTL DEF Spec, AppendOnly

\* The initial state is the empty journal.
LEMMA JournalInit == Init => Abstract!Init
BY DEF Init, LogInit, Abstract!Init, Decided, Written, Genesis

\* Every step is a step of the journal or leaves it alone.
LEMMA JournalStep == IInv /\ [Next]_logVars => [Abstract!Next]_(Abstract!vars)
<1> SUFFICES ASSUME IInv, [Next]_logVars
             PROVE  [Abstract!Next]_(Abstract!vars)
  OBVIOUS
<1> USE DEF IInv, PhaseInv, TypeInv, LogTypeOK
<1> DEFINE flight == IF state = "IDLE" THEN Undefined ELSE decision_hash_reg
<1>1. CASE LogReset
  <2>1. Decided' = << >> /\ flight' = Undefined
    BY <1>1 DEF LogReset, Decided, Written, Genesis
  <2> QED
    BY <2>1 DEF Abstract!Next, Abstract!Reset
<1>2. CASE Clock
  <2>1. PICK v \in BOOLEAN, d \in Decisions : LogClock(v, d)
    BY <1>2 DEF Clock
  <2>2. CASE Idle(v) \/ Hashing
    <3>1. Decided' = Decided /\ flight' = flight
      BY <2>2 DEF Idle, Hashing, ringVars, Decided, Written
    <3> QED
      BY <3>1 DEF Abstract!vars
  <2>3. CASE Accept(v, d)
    <3>1. Decided' = Decided /\ flight = Undefined /\ flight' = d
      BY <2>3 DEF Accept, ringVars, Decided, Written
    <3> QED
      BY <3>1 DEF Abstract!Next, Abstract!Take
  <2>4. CASE Commit
    <3>1. Fresh /\ decision_hash_reg \in Decisions
      BY <2>4 DEF Commit, Phase, Latched
    <3>2. /\ current_chain_head \in Seq(Entries)
          /\ <<decision_hash_reg, seq_counter>> \in Entries
          /\ current_chain_head' =
               Append(current_chain_head, <<decision_hash_reg, seq_counter>>)
      BY <2>4, <3>1 DEF Commit, Advance, Fresh, Sha3, Hashes, Entries
    <3>3. /\ Len(current_chain_head') = Len(current_chain_head) + 1
          /\ \A n \in 1 .. Len(current_chain_head) :
               current_chain_head'[n] = current_chain_head[n]
          /\ current_chain_head'[Len(current_chain_head) + 1] =
               <<decision_hash_reg, seq_counter>>
          /\ Len(current_chain_head) \in Nat
      BY <3>2
    <3>4. Decided' = [n \in 1 .. Written + 1 |-> current_chain_head'[n][1]]
      BY <3>3 DEF Decided, Written
    <3>5. Decided \in Seq(Decisions) /\ Len(Decided) = Written
      <4>1. \A n \in 1 .. Written : current_chain_head[n][1] \in Decisions
        BY <3>2 DEF Entries, Written
      <4> QED
        BY <3>3, <4>1 DEF Decided, Written
    <3>6. Append(Decided, decision_hash_reg) =
            [n \in 1 .. Written + 1 |->
               IF n = Written + 1 THEN decision_hash_reg ELSE Decided[n]]
      <4> DEFINE longer == Append(Decided, decision_hash_reg)
      <4>1. /\ longer \in Seq(Decisions)
            /\ Len(longer) = Written + 1
            /\ longer[Written + 1] = decision_hash_reg
            /\ \A n \in 1 .. Written : longer[n] = Decided[n]
            /\ Written \in Nat
        BY <3>1, <3>3, <3>5 DEF Written
      <4> HIDE DEF longer
      <4>2. longer = [n \in 1 .. Written + 1 |-> longer[n]]
        BY <4>1
      <4>3. \A n \in 1 .. Written + 1 :
              longer[n] = IF n = Written + 1 THEN decision_hash_reg ELSE Decided[n]
        BY <4>1
      <4>4. longer = [n \in 1 .. Written + 1 |->
                       IF n = Written + 1 THEN decision_hash_reg ELSE Decided[n]]
        BY <4>2, <4>3, Zenon
      <4> QED
        BY <4>4 DEF longer
    <3>7. Decided' = Append(Decided, decision_hash_reg)
      BY <3>3, <3>4, <3>6 DEF Decided, Written
    <3>8. flight = decision_hash_reg /\ flight # Undefined /\ flight' = Undefined
      BY <2>4, <3>1, UndefinedAssumption DEF Commit
    <3> QED
      BY <3>7, <3>8 DEF Abstract!Next, Abstract!Record
  <2> QED
    BY <2>1, <2>2, <2>3, <2>4 DEF LogClock, FsmStep
<1>3. CASE UNCHANGED logVars
  <2>1. Decided' = Decided /\ flight' = flight
    BY <1>3 DEF logVars, fsmVars, Decided, Written
  <2> QED
    BY <2>1 DEF Abstract!vars
<1> QED
  BY <1>1, <1>2, <1>3 DEF Next

\* The audit log implements the journal: every accepted decision is recorded
\* exactly once, in the order of acceptance.
THEOREM Implements == Spec => ImplementsJournal
BY JournalInit, JournalStep, InvariantHolds, PTL DEF Spec, ImplementsJournal, Abstract!Spec

-----------------------------------------------------------------------------
(* The log on the bus: the requests.                                       *)

Requests == Writes \cup Reads \cup {NoTransfer}

LEMMA RequestsDiffer ==
  /\ AuditCommit # NoTransfer /\ AuditCommit # NttStart /\ AuditCommit \in Writes
  /\ AuditCommit \notin Reads /\ NttStart \notin Reads /\ NoTransfer \notin Reads
  /\ Status \in Reads /\ Status # AuditSeq /\ Status # Chain
<1>1. /\ AuditCommit[1] = "COMMIT" /\ NttStart[1] = "NTT_START" /\ NoTransfer[1] = "NONE"
      /\ Status[1] = "STATUS" /\ AuditSeq[1] = "SEQ" /\ Chain[1] = "CHAIN_OUT"
  BY DEF AuditCommit, NttStart, NoTransfer, Status, AuditSeq, Chain
<1> QED
  BY <1>1 DEF Writes, Reads

LEMMA RequestType ==
  ASSUME NEW r \in Requests
  PROVE  /\ r[1] = "WORD_SEL" => r[2] \in Words
         /\ r[1] = "HASH_IN" => r[2] \in WordValues
<1>1. CASE r \in {AuditCommit, NttStart, NoTransfer} \cup Reads
  BY <1>1 DEF AuditCommit, NttStart, NoTransfer, Reads, Status, AuditSeq, Chain
<1>2. CASE \E w \in Words : r = Sel(w)
  BY <1>2 DEF Sel
<1>3. CASE \E v \in WordValues : r = HashIn(v)
  BY <1>3 DEF HashIn
<1> QED
  BY <1>1, <1>2, <1>3 DEF Requests, Writes

-----------------------------------------------------------------------------
(***************************************************************************)
(* The invariant.  A COMMIT is on its way to the chain in the write port,  *)
(* then in the log; there is at most one, because the master waits for     *)
(* done, and while there is one done is down.                              *)
(***************************************************************************)
Agrees ==
  /\ Written <= Len(committed)
  /\ \A n \in 1 .. Written : current_chain_head[n][1] = committed[n]

Settled == state = "IDLE" /\ ~audit_write_valid /\ Len(committed) = Written

Offered ==
  /\ state = "IDLE" /\ audit_write_valid /\ ~write_done
  /\ Len(committed) = Written + 1
  /\ audit_decision_hash_buf = committed[Written + 1]

Hashed ==
  /\ state # "IDLE" /\ ~audit_write_valid /\ ~write_done
  /\ Len(committed) = Written + 1
  /\ decision_hash_reg = committed[Written + 1]

OneOutstanding == Agrees /\ (Settled \/ Offered \/ Hashed)

MasterWaits ==
  /\ request = AuditCommit => ~awaiting
  /\ ~awaiting => Settled

DoneLatches ==
  write_done_sticky =>
    /\ Settled /\ Written > 0
    /\ chain_out_latched = current_chain_head
    /\ write_seq_sticky = current_chain_head[Written][2]

\* What an acknowledged read is answered with, and what it means when it says done.
Answers ==
  request \in Reads /\ audit_read_valid_reg =>
    /\ audit_read_data[1] = request
    /\ request = Status /\ audit_read_data[2].done => Settled

WbInv ==
  /\ IInv /\ WbTypeOK
  /\ OneOutstanding /\ MasterWaits /\ DoneLatches
  /\ Answers /\ DoneIsKept /\ ReadsMatch

-----------------------------------------------------------------------------
(* One edge of the log under this wrapper.                                 *)

\* The log at rest, taking a decision, hashing, or committing what it hashed.
LEMMA BusEdge ==
  ASSUME WbInv, LogClock(audit_write_valid, audit_decision_hash_buf)
  PROVE  /\ IInv'
         /\ \/ /\ state = "IDLE" /\ ~audit_write_valid /\ state' = "IDLE" /\ ~write_done'
               /\ current_chain_head' = current_chain_head
            \/ /\ state = "IDLE" /\ audit_write_valid /\ state' # "IDLE" /\ ~write_done'
               /\ current_chain_head' = current_chain_head
               /\ decision_hash_reg' = audit_decision_hash_buf
            \/ /\ state # "IDLE" /\ state' # "IDLE" /\ ~write_done'
               /\ current_chain_head' = current_chain_head
               /\ decision_hash_reg' = decision_hash_reg
            \/ /\ state # "IDLE" /\ state' = "IDLE" /\ write_done'
               /\ current_chain_head' =
                    Append(current_chain_head, <<decision_hash_reg, seq_counter>>)
               /\ <<decision_hash_reg, seq_counter>> \in Entries
<1>1. audit_write_valid \in BOOLEAN /\ audit_decision_hash_buf \in Decisions /\ IInv
  BY DEF WbInv, WbTypeOK
<1>2. IInv'
  BY <1>1, ClockInductive
<1>3. FsmStep(audit_write_valid, audit_decision_hash_buf)
  BY DEF LogClock
<1>4. CASE Idle(audit_write_valid)
  BY <1>2, <1>4 DEF Idle, ringVars
<1>5. CASE Accept(audit_write_valid, audit_decision_hash_buf)
  BY <1>2, <1>5 DEF Accept, ringVars
<1>6. CASE Hashing
  BY <1>2, <1>6 DEF Hashing, ringVars
<1>7. CASE Commit
  <2>1. Fresh /\ decision_hash_reg \in Decisions /\ seq_counter \in SeqNos
    BY <1>1, <1>7 DEF IInv, PhaseInv, TypeInv, LogTypeOK, Latched, Phase, Commit
  <2> QED
    BY <1>2, <1>7, <2>1 DEF Commit, Report, Advance, Fresh, Sha3, Entries
<1> QED
  BY <1>3, <1>4, <1>5, <1>6, <1>7 DEF FsmStep

LEMMA HeadType ==
  IInv => /\ current_chain_head \in Seq(Entries) /\ Written \in Nat
          /\ \A n \in 1 .. Written : current_chain_head[n][1] \in Decisions
                                     /\ current_chain_head[n][2] \in SeqNos
<1> SUFFICES ASSUME IInv
             PROVE  /\ current_chain_head \in Seq(Entries) /\ Written \in Nat
                    /\ \A n \in 1 .. Written : current_chain_head[n] \in Entries
  BY DEF Entries
<1>1. current_chain_head \in Seq(Entries)
  BY DEF IInv, PhaseInv, TypeInv, LogTypeOK, Hashes
<1> QED
  BY <1>1 DEF Written

LEMMA TypeEdge ==
  ASSUME WbInv, NEW r \in Requests, WbClock(r)
  PROVE  WbTypeOK'
<1> USE DEF WbInv, WbTypeOK
<1>1. LogTypeOK'
  BY BusEdge DEF WbClock, IInv, PhaseInv, TypeInv
<1>2. word_sel' \in Words /\ audit_decision_hash_buf' \in Decisions
  <2>1. /\ request[1] = "WORD_SEL" => request[2] \in Words
        /\ request[1] = "HASH_IN" => request[2] \in WordValues
    BY RequestType DEF Requests
  <2> QED
    BY <2>1, WordsAssumption DEF WbClock, Buffer, WordVectors
<1>3. audit_write_valid' \in BOOLEAN /\ audit_read_valid_reg' \in BOOLEAN
  BY DEF WbClock, CommitPulse, Read
<1>4. /\ write_done_sticky' \in BOOLEAN
      /\ write_seq_sticky' \in SeqNos
      /\ chain_out_latched' \in Hashes \cup {Undefined}
  <2>1. write_done => write_seq \in SeqNos
    BY HeadType DEF IInv, Safety, DoneReportsLastEntry
  <2>2. write_done \in BOOLEAN /\ write_chain_hash \in Hashes \cup {Undefined}
    BY DEF LogTypeOK
  <2> QED
    BY <2>1, <2>2 DEF WbClock, DoneBit
<1>5. audit_read_data'[1] \in Writes \cup Reads \cup {NoTransfer}
  BY DEF WbClock, Read
<1>6. request' \in Writes \cup Reads \cup {NoTransfer} /\ committed' \in Seq(Decisions)
  BY DEF WbClock, Master, Requests
<1>7. clearedByNtt' \in BOOLEAN /\ mismatched' \in BOOLEAN
  BY DEF WbClock, Master
<1>8. awaiting' \in BOOLEAN
  <2>1. awaiting' = CASE request = AuditCommit -> TRUE
                      [] request = Status /\ Acked -> awaiting /\ ~audit_read_data[2].done
                      [] OTHER -> awaiting
    BY DEF WbClock, Master
  <2> QED
    BY <2>1
<1> QED
  BY <1>1, <1>2, <1>3, <1>4, <1>5, <1>6, <1>7, <1>8

\* What the master does on an edge, by the request on the bus.
LEMMA MasterEdge ==
  ASSUME WbInv, NEW r \in Requests, Master(r)
  PROVE  /\ request = AuditCommit =>
              /\ request' = NoTransfer /\ awaiting'
              /\ committed' = Append(committed, audit_decision_hash_buf)
         /\ request # AuditCommit =>
              /\ committed' = committed
              /\ clearedByNtt' = (request = NttStart \/ clearedByNtt)
              /\ request' = AuditCommit => request = NoTransfer /\ ~awaiting
              /\ ~awaiting' => \/ ~awaiting
                               \/ request = Status /\ Acked /\ audit_read_data[2].done
         /\ request' \in Reads => request = NoTransfer \/ (request' = request /\ request \in Reads)
<1>1. /\ request' = r
      /\ IF request = NoTransfer THEN r = NoTransfer \/ MayTransfer(r)
         ELSE r = IF Acked THEN NoTransfer ELSE request
  BY DEF Master
<1>2. CASE request = AuditCommit
  BY <1>1, <1>2, RequestsDiffer DEF Master, Acked
<1>3. CASE request # AuditCommit
  <2>1. awaiting' = CASE request = AuditCommit -> TRUE
                      [] request = Status /\ Acked -> awaiting /\ ~audit_read_data[2].done
                      [] OTHER -> awaiting
    BY DEF Master
  <2>2. awaiting \in BOOLEAN /\ awaiting' \in BOOLEAN
    BY <1>3, <2>1 DEF WbInv, WbTypeOK
  <2>3. ~awaiting' => ~awaiting \/ (request = Status /\ Acked /\ audit_read_data[2].done)
    BY <1>3, <2>1, <2>2
  <2>4. request' = AuditCommit => request = NoTransfer /\ ~awaiting
    BY <1>1, <1>3, RequestsDiffer DEF MayTransfer
  <2>5. request' \in Reads => request = NoTransfer \/ (request' = request /\ request \in Reads)
    BY <1>1, RequestsDiffer
  <2> QED
    BY <1>3, <2>3, <2>4, <2>5, RequestsDiffer DEF Master
<1> QED
  BY <1>2, <1>3

-----------------------------------------------------------------------------
LEMMA OutstandingEdge ==
  ASSUME WbInv, NEW r \in Requests, WbClock(r)
  PROVE  /\ OneOutstanding'
         /\ Settled /\ request # AuditCommit =>
              /\ Settled' /\ ~write_done' /\ current_chain_head' = current_chain_head
         /\ Settled' => Settled \/ write_done'
         /\ write_done' => ~write_done /\ ~write_done_sticky
<1> USE DEF WbInv
<1>1. /\ audit_write_valid' <=> request = AuditCommit
      /\ request = AuditCommit => audit_decision_hash_buf' = audit_decision_hash_buf
  <2>1. request = AuditCommit => request[1] # "HASH_IN"
    BY DEF AuditCommit
  <2> QED
    BY <2>1 DEF WbClock, CommitPulse, Buffer
<1>2. /\ request = AuditCommit => committed' = Append(committed, audit_decision_hash_buf)
      /\ request # AuditCommit => committed' = committed
      /\ request = AuditCommit => Settled
  BY MasterEdge DEF WbClock, MasterWaits
<1>3. /\ committed \in Seq(Decisions) /\ audit_decision_hash_buf \in Decisions
      /\ current_chain_head \in Seq(Entries) /\ Written \in Nat
  BY HeadType DEF WbTypeOK
<1>4. Agrees /\ (Settled \/ Offered \/ Hashed)
  BY DEF OneOutstanding
<1>5. CASE Settled
  <2>1. /\ state' = "IDLE" /\ ~write_done' /\ current_chain_head' = current_chain_head
    BY <1>5, BusEdge DEF WbClock, Settled
  <2>2. Written' = Written
    BY <2>1 DEF Written
  <2>3. CASE request # AuditCommit
    BY <1>1, <1>2, <1>4, <1>5, <2>1, <2>2, <2>3 DEF OneOutstanding, Agrees, Settled
  <2>4. CASE request = AuditCommit
    <3>1. /\ Len(committed') = Len(committed) + 1
          /\ committed'[Len(committed) + 1] = audit_decision_hash_buf
          /\ \A n \in 1 .. Len(committed) : committed'[n] = committed[n]
      BY <1>2, <1>3, <2>4
    <3>2. Offered'
      BY <1>1, <1>3, <1>5, <2>1, <2>2, <2>4, <3>1 DEF Settled, Offered
    <3>3. Agrees'
      <4>1. /\ Len(committed) = Written
            /\ \A n \in 1 .. Written : current_chain_head[n][1] = committed[n]
        BY <1>4, <1>5 DEF Settled, Agrees
      <4>2. \A n \in 1 .. Written : current_chain_head'[n][1] = committed'[n]
        BY <2>1, <3>1, <4>1
      <4> QED
        BY <1>3, <2>2, <3>1, <4>1, <4>2 DEF Agrees
    <3> QED
      BY <1>5, <2>1, <2>4, <3>2, <3>3 DEF OneOutstanding
  <2> QED
    BY <2>3, <2>4
<1>6. CASE Offered
  <2>1. /\ state' # "IDLE" /\ ~write_done' /\ current_chain_head' = current_chain_head
        /\ decision_hash_reg' = audit_decision_hash_buf
    BY <1>6, BusEdge DEF WbClock, Offered
  <2>2. request # AuditCommit /\ ~Settled
    BY <1>2, <1>6 DEF Settled, Offered
  <2>3. Written' = Written
    BY <2>1 DEF Written
  <2> QED
    BY <1>1, <1>2, <1>4, <1>6, <2>1, <2>2, <2>3 DEF OneOutstanding, Agrees, Offered, Hashed, Settled
<1>7. CASE Hashed
  <2>1. request # AuditCommit /\ ~Settled /\ committed' = committed /\ ~audit_write_valid'
    BY <1>1, <1>2, <1>7 DEF Settled, Hashed
  <2>2. CASE /\ state' # "IDLE" /\ ~write_done' /\ current_chain_head' = current_chain_head
             /\ decision_hash_reg' = decision_hash_reg
    <3>1. Written' = Written
      BY <2>2 DEF Written
    <3> QED
      BY <1>4, <1>7, <2>1, <2>2, <3>1 DEF OneOutstanding, Agrees, Hashed, Settled
  <2>3. CASE /\ state' = "IDLE" /\ write_done'
             /\ current_chain_head' = Append(current_chain_head, <<decision_hash_reg, seq_counter>>)
             /\ <<decision_hash_reg, seq_counter>> \in Entries
    <3>1. /\ Written' = Written + 1
          /\ current_chain_head'[Written + 1] = <<decision_hash_reg, seq_counter>>
          /\ \A n \in 1 .. Written : current_chain_head'[n] = current_chain_head[n]
      BY <1>3, <2>3 DEF Written
    <3>2. current_chain_head'[Written + 1][1] = decision_hash_reg
      BY <3>1
    <3>3. Agrees'
      BY <1>3, <1>4, <1>7, <2>1, <3>1, <3>2 DEF Agrees, Hashed
    <3>4. Settled'
      BY <1>7, <2>1, <2>3, <3>1 DEF Hashed, Settled
    <3>5. ~write_done_sticky
      BY <2>1 DEF DoneLatches
    <3> QED
      BY <1>7, <2>1, <2>3, <3>3, <3>4, <3>5 DEF OneOutstanding, Hashed
  <2> QED
    BY <1>7, <2>2, <2>3, BusEdge DEF WbClock, Hashed
<1> QED
  BY <1>4, <1>5, <1>6, <1>7

LEMMA AnswersEdge ==
  ASSUME WbInv, NEW r \in Requests, WbClock(r)
  PROVE  Answers' /\ ReadsMatch' /\ MasterWaits'
<1> USE DEF WbInv
<1>1. /\ audit_read_data' = <<request, Register(request)>>
      /\ audit_read_valid_reg' <=> request \in Reads
  BY DEF WbClock, Read
<1>2. request = Status => Register(request).done = write_done_sticky
  BY RequestsDiffer DEF Register
<1>3. /\ request = AuditCommit => request' = NoTransfer /\ awaiting'
      /\ request # AuditCommit =>
           /\ request' = AuditCommit => request = NoTransfer /\ ~awaiting
           /\ ~awaiting' => ~awaiting \/ (request = Status /\ Acked /\ audit_read_data[2].done)
      /\ request' \in Reads => request = NoTransfer \/ (request' = request /\ request \in Reads)
  BY MasterEdge DEF WbClock
<1>4. Answers'
  <2> SUFFICES ASSUME request' \in Reads, audit_read_valid_reg'
               PROVE  /\ audit_read_data'[1] = request'
                      /\ request' = Status /\ audit_read_data'[2].done => Settled'
    BY DEF Answers
  <2>1. request' = request /\ request \in Reads /\ request # AuditCommit
    BY <1>1, <1>3, RequestsDiffer
  <2>2. request = Status /\ write_done_sticky => Settled'
    BY <2>1, OutstandingEdge DEF DoneLatches
  <2> QED
    BY <1>1, <1>2, <2>1, <2>2
<1>5. ReadsMatch'
  <2>1. request \in Reads /\ Acked => audit_read_data[1] = request
    <3>1. request \in Reads => request \notin Writes
      BY DEF Reads, Writes, Status, AuditSeq, Chain, AuditCommit, NttStart, Sel, HashIn
    <3> QED
      BY <3>1 DEF Answers, Acked
  <2> QED
    BY <2>1 DEF WbClock, Master, ReadsMatch
<1>6. MasterWaits'
  <2>1. request = Status => request \in Reads /\ request \notin Writes
    BY DEF Reads, Writes, Status, AuditSeq, Chain, AuditCommit, NttStart, Sel, HashIn
  <2>2. ~awaiting' => Settled /\ request # AuditCommit
    BY <1>3, <2>1 DEF MasterWaits, Answers, Acked
  <2>3. ~awaiting' => Settled'
    BY <2>2, OutstandingEdge
  <2>4. request' = AuditCommit => ~awaiting'
    <3>1. request' = AuditCommit => request = NoTransfer /\ ~awaiting
      BY <1>3, RequestsDiffer
    <3>2. request = NoTransfer /\ ~awaiting => ~awaiting'
      BY RequestsDiffer DEF WbClock, Master
    <3> QED
      BY <3>1, <3>2
  <2> QED
    BY <2>3, <2>4 DEF MasterWaits
<1> QED
  BY <1>4, <1>5, <1>6

LEMMA DoneEdge ==
  ASSUME WbInv, NEW r \in Requests, WbClock(r)
  PROVE  DoneLatches' /\ DoneIsKept'
<1> USE DEF WbInv
<1>1. /\ write_done_sticky' <=> /\ write_done \/ write_done_sticky
                                /\ request \notin {AuditCommit, NttStart}
      /\ write_seq_sticky' = IF write_done THEN write_seq ELSE write_seq_sticky
      /\ chain_out_latched' = IF write_done THEN write_chain_hash ELSE chain_out_latched
  BY DEF WbClock, DoneBit
<1>2. write_done =>
        /\ Written > 0
        /\ write_chain_hash = current_chain_head
        /\ write_seq = current_chain_head[Written][2]
        /\ Settled
  <2>1. write_done => Settled
    BY DEF OneOutstanding, Offered, Hashed
  <2> QED
    BY <2>1 DEF IInv, Safety, DoneReportsLastEntry
<1>3. Settled /\ request # AuditCommit =>
        Settled' /\ ~write_done' /\ current_chain_head' = current_chain_head /\ Written' = Written
  BY OutstandingEdge DEF Written
<1>4. DoneLatches'
  BY <1>1, <1>2, <1>3 DEF DoneLatches
<1>5. DoneIsKept'
  <2> SUFFICES ASSUME AtRest', committed' # << >>, ~clearedByNtt' PROVE write_done_sticky'
    BY DEF DoneIsKept
  <2>1. state' = "IDLE" /\ ~audit_write_valid' /\ ~write_done'
    BY DEF AtRest
  <2>2. request # AuditCommit
    BY <2>1 DEF WbClock, CommitPulse
  <2>3. /\ committed' = committed
        /\ clearedByNtt' = (request = NttStart \/ clearedByNtt)
    BY <2>2, MasterEdge DEF WbClock
  <2>4. ~clearedByNtt /\ request # NttStart
    BY <2>3
  <2>5. state = "IDLE" /\ ~audit_write_valid
    BY <2>1, BusEdge DEF WbClock
  <2>6. write_done \/ write_done_sticky
    BY <2>2, <2>3, <2>4, <2>5 DEF DoneIsKept, AtRest
  <2> QED
    BY <1>1, <2>2, <2>4, <2>6
<1> QED
  BY <1>4, <1>5

-----------------------------------------------------------------------------
LEMMA WbStart ==
  /\ WbInit => WbInv
  /\ WbInv /\ WbReset => WbInv'
<1>1. /\ 0 \in Words /\ [w \in Words |-> 0] \in Decisions
      /\ 0 \in SeqNos /\ Len(Genesis) = 0
  BY WordsAssumption, SeqModAssumption, LogDepthAssumption DEF Words, WordVectors, SeqNos, Genesis
<1>2. ASSUME WbInit PROVE WbInv
  <2>1. IInv
    BY <1>2, LogInitInductive DEF WbInit
  <2>2. WbTypeOK
    <3>1. LogTypeOK
      BY <2>1 DEF IInv, PhaseInv, TypeInv
    <3>2. committed \in Seq(Decisions)
      BY <1>2 DEF WbInit
    <3> QED
      BY <1>1, <1>2, <3>1, <3>2 DEF WbInit, WbTypeOK, NoData
  <2>3. /\ Written = 0 /\ state = "IDLE" /\ ~audit_write_valid /\ committed = << >>
        /\ ~write_done_sticky /\ ~mismatched /\ request = NoTransfer /\ ~awaiting
    BY <1>1, <1>2 DEF WbInit, LogInit, Written
  <2>4. OneOutstanding /\ Settled
    BY <2>3 DEF OneOutstanding, Agrees, Settled
  <2> QED
    BY <2>1, <2>2, <2>3, <2>4, RequestsDiffer
       DEF WbInv, MasterWaits, DoneLatches, Answers, DoneIsKept, ReadsMatch
<1>3. ASSUME WbInv, WbReset PROVE WbInv'
  <2>1. IInv'
    BY <1>3, ResetInductive DEF WbInv, WbReset
  <2>2. WbTypeOK'
    BY <1>1, <1>3, <2>1 DEF WbInv, WbReset, WrapperReset, WbTypeOK, IInv, PhaseInv, TypeInv
  <2>3. (/\ Written = 0 /\ state = "IDLE" /\ ~audit_write_valid /\ committed = << >>
         /\ ~write_done_sticky /\ ~mismatched /\ request = NoTransfer /\ ~awaiting)'
    BY <1>1, <1>3 DEF WbInv, WbReset, WrapperReset, LogReset, Written, ReadsMatch
  <2>4. OneOutstanding' /\ Settled'
    BY <2>3 DEF OneOutstanding, Agrees, Settled
  <2> QED
    BY <2>1, <2>2, <2>3, <2>4, RequestsDiffer
       DEF WbInv, MasterWaits, DoneLatches, Answers, DoneIsKept, ReadsMatch
<1> QED
  BY <1>2, <1>3

LEMMA WbInvariant == WbSpec => []WbInv
<1>1. WbInv /\ [WbNext]_wbVars => WbInv'
  <2> SUFFICES ASSUME WbInv, [WbNext]_wbVars PROVE WbInv'
    OBVIOUS
  <2>1. CASE WbReset
    BY <2>1, WbStart
  <2>2. CASE WbStep
    <3>1. PICK r \in Requests : WbClock(r)
      BY <2>2 DEF WbStep, Requests
    <3>2. IInv'
      BY <3>1, BusEdge DEF WbClock
    <3> QED
      BY <3>1, <3>2, TypeEdge, OutstandingEdge, AnswersEdge, DoneEdge DEF WbInv
  <2>3. CASE UNCHANGED wbVars
    <3>1. IInv'
      BY <2>3, StutterInductive DEF WbInv, wbVars
    <3>2. WbTypeOK'
      BY <2>3, <3>1 DEF WbInv, WbTypeOK, IInv, PhaseInv, TypeInv, wbVars, wrapperVars, masterVars
    <3>3. (OneOutstanding /\ MasterWaits /\ DoneLatches /\ Answers /\ DoneIsKept /\ ReadsMatch)'
      BY <2>3 DEF WbInv, OneOutstanding, Agrees, Settled, Offered, Hashed, MasterWaits,
                  DoneLatches, Answers, DoneIsKept, AtRest, ReadsMatch, Written,
                  wbVars, wrapperVars, masterVars, logVars, fsmVars
    <3> QED
      BY <3>1, <3>2, <3>3 DEF WbInv
  <2> QED
    BY <2>1, <2>2, <2>3 DEF WbNext
<1> QED
  BY <1>1, WbStart, PTL DEF WbSpec

\* The entries of the chain are the first of the committed hashes.
LEMMA EntriesAreCommits ==
  WbInv => /\ Decided = SubSeq(committed, 1, Written)
           /\ Settled => Decided = committed
<1> SUFFICES ASSUME WbInv
             PROVE  /\ Decided = SubSeq(committed, 1, Written)
                    /\ Settled => Decided = committed
  OBVIOUS
<1>1. /\ committed \in Seq(Decisions) /\ Written \in Nat /\ Written <= Len(committed)
      /\ \A n \in 1 .. Written : current_chain_head[n][1] = committed[n]
  BY HeadType DEF WbInv, WbTypeOK, OneOutstanding, Agrees
<1>2. Decided = [n \in 1 .. Written |-> committed[n]]
  BY <1>1 DEF Decided
<1>3. SubSeq(committed, 1, Written) = [n \in 1 .. Written |-> committed[n]]
  BY <1>1
<1>4. Settled => committed = [n \in 1 .. Written |-> committed[n]]
  BY <1>1 DEF Settled
<1> QED
  BY <1>2, <1>3, <1>4

(***************************************************************************)
(* Whatever a master that waits for done writes between its transfers,     *)
(* every COMMIT is one entry of the chain with the words as they were at   *)
(* the COMMIT; done, the number and the hash it reads are those of that    *)
(* entry, none of its reads is answered by an earlier one, and no done is  *)
(* lost (pqc_tau_wishbone_wrapper.sv:127-190).                             *)
(***************************************************************************)
THEOREM BusTruthful == WbSpec => []BusIsTruthful
<1>1. WbInv => BusIsTruthful
  <2> SUFFICES ASSUME WbInv PROVE BusIsTruthful
    OBVIOUS
  <2>1. Decided = SubSeq(committed, 1, Written) /\ (Settled => Decided = committed)
    BY EntriesAreCommits
  <2>2. Len(committed) <= Written + (IF awaiting \/ request = AuditCommit THEN 1 ELSE 0)
    BY HeadType DEF WbInv, OneOutstanding, MasterWaits, Settled, Offered, Hashed
  <2>3. CommitsAreEntries
    BY <2>1, <2>2 DEF WbInv, OneOutstanding, Agrees, CommitsAreEntries
  <2>4. DoneNamesEntry
    BY <2>1 DEF WbInv, DoneLatches, DoneNamesEntry
  <2> QED
    BY <2>3, <2>4 DEF WbInv, BusIsTruthful, PollsAreTrue
<1> QED
  BY <1>1, WbInvariant, PTL

-----------------------------------------------------------------------------
(* The watchdog, for any driver of its inputs.                             *)

LEMMA WatchdogParts == WatchdogInv <=> Numbers /\ Flags
BY Zenon DEF WatchdogInv, WatchdogTypeOK, Numbers, Flags

LEMMA WatchdogStart == WatchdogInit => WatchdogInv
<1> SUFFICES ASSUME WatchdogInit PROVE Numbers /\ Flags
  BY WatchdogParts
<1>1. Numbers
  BY TimeoutAssumption DEF WatchdogInit, Numbers, Timeouts
<1>2. Flags
  BY Zenon DEF WatchdogInit, Flags
<1> QED
  BY <1>1, <1>2

LEMMA WatchdogRestart == WatchdogReset => WatchdogInv'
<1> SUFFICES ASSUME WatchdogReset PROVE Numbers' /\ Flags'
  BY Zenon DEF WatchdogInv, WatchdogTypeOK, Numbers, Flags
<1>1. Numbers'
  BY TimeoutAssumption DEF WatchdogReset, Numbers, Timeouts
<1>2. Flags'
  BY Zenon DEF WatchdogReset, Flags
<1> QED
  BY <1>1, <1>2

LEMMA WatchdogStep ==
  ASSUME WatchdogInv, NEW h \in BOOLEAN, NEW c \in BOOLEAN, NEW t \in Timeouts,
         WatchdogClock(h, c, t)
  PROVE  /\ WatchdogInv'
         /\ timeout_event' <=> ecu_alive /\ ~ecu_alive'
         /\ ~ecu_alive => ~ecu_alive'
<1>1. Numbers /\ Flags
  BY WatchdogParts
<1>2. Numbers'
  <2>1. active_timeout' \in Timeouts
    BY <1>1 DEF WatchdogClock, Configure, Numbers
  <2>2. counter' \in Timeouts /\ timeout_count' \in Nat
    BY <1>1, TimeoutAssumption
       DEF WatchdogClock, Heartbeat, Count, Expire, Numbers, Timeouts
  <2> QED
    BY <2>1, <2>2 DEF Numbers
<1>3. \/ ecu_alive' = ecu_alive /\ timeout_event' = FALSE
      \/ ecu_alive' = FALSE /\ timeout_event' = ecu_alive
  BY Zenon DEF WatchdogClock, Heartbeat, Count, Expire
<1>4. /\ Flags'
      /\ timeout_event' <=> ecu_alive /\ ~ecu_alive'
      /\ ~ecu_alive => ~ecu_alive'
  <2>1. CASE ecu_alive' = ecu_alive /\ timeout_event' = FALSE
    BY <1>1, <2>1 DEF Flags
  <2>2. CASE ecu_alive' = FALSE /\ timeout_event' = ecu_alive
    BY <1>1, <2>2 DEF Flags
  <2> QED
    BY <1>3, <2>1, <2>2
<1>5. WatchdogInv'
  BY <1>2, <1>4, Zenon DEF WatchdogInv, WatchdogTypeOK, Numbers, Flags
<1> QED
  BY <1>4, <1>5

-----------------------------------------------------------------------------
(* The invariant.                                                          *)

(***************************************************************************)
(* Where a timeout is.  Written # chainAtTimeout tells whether the write   *)
(* that was in progress, if any, has been committed meanwhile.             *)
(***************************************************************************)
TimeoutPlaced ==
  /\ WatchdogWants => ~ecu_alive
  /\ SentinelInProgress => ~ecu_alive
  /\ SentinelEntries # {} => ~ecu_alive
  /\ ~ecu_alive =>
       \/ Written = chainAtTimeout /\ WatchdogWants
       \/ Written = chainAtTimeout /\ SentinelInProgress
       \/ Written = chainAtTimeout + 1 /\ pending_watchdog_write /\ state = "IDLE"
       \/ Written = chainAtTimeout + 1 /\ SentinelInProgress
       \/ Written >= chainAtTimeout + 1 /\ SentinelAt(chainAtTimeout + 1)
       \/ Written >= chainAtTimeout + 2 /\ SentinelAt(chainAtTimeout + 2)

\* The flag follows the decision from the edge it is taken to the cycle it is reported.
FlagTracksDecision ==
  /\ state # "IDLE" => (write_was_watchdog_event_reg <=> decision_hash_reg = Sentinel)
  /\ write_done =>
       /\ state = "IDLE"
       /\ Written > 0
       /\ current_chain_head[Written][1] = decision_hash_reg
       /\ write_was_watchdog_event_reg <=> decision_hash_reg = Sentinel

ArbiterTypeOK ==
  /\ pending_watchdog_write \in BOOLEAN
  /\ ecu_write_accepted \in BOOLEAN
  /\ write_was_watchdog_event_reg \in BOOLEAN
  /\ asked \in [EcuDecisions -> Nat]
  /\ ackedWrites \in [EcuDecisions -> Nat]
  /\ chainAtTimeout \in Nat
  /\ busyAtTimeout \in BOOLEAN

TauInv ==
  /\ IInv
  /\ WatchdogInv
  /\ ArbiterTypeOK
  /\ TimeoutPlaced
  /\ FlagTracksDecision

LEMMA TauInitInv == TauInit => TauInv
<1> SUFFICES ASSUME TauInit PROVE TauInv
  OBVIOUS
<1>1. IInv
  BY LogInitInductive DEF TauInit
<1>2. WatchdogInv
  BY WatchdogStart DEF TauInit
<1>3. ArbiterTypeOK
  BY DEF TauInit, ArbiterTypeOK, NoRequests
<1>4. TimeoutPlaced /\ FlagTracksDecision
  BY DEF TauInit, LogInit, WatchdogInit, TimeoutPlaced, FlagTracksDecision, WatchdogWants,
         SentinelInProgress, SentinelEntries, EntriesOf, Written, Genesis
<1> QED
  BY <1>1, <1>2, <1>3, <1>4 DEF TauInv

LEMMA TauResetInv == TauInv /\ TauReset => TauInv'
<1> SUFFICES ASSUME TauInv, TauReset PROVE TauInv'
  OBVIOUS
<1>1. IInv'
  BY ResetInductive DEF TauInv, TauReset
<1>2. WatchdogInv'
  BY WatchdogRestart DEF TauReset
<1>3. ArbiterTypeOK'
  BY DEF TauReset, ArbiterTypeOK, NoRequests
<1>4. TimeoutPlaced' /\ FlagTracksDecision'
  BY DEF TauReset, LogReset, WatchdogReset, TimeoutPlaced, FlagTracksDecision, WatchdogWants,
         SentinelInProgress, SentinelEntries, EntriesOf, Written, Genesis
<1> QED
  BY <1>1, <1>2, <1>3, <1>4 DEF TauInv

-----------------------------------------------------------------------------
(* A clock edge, seen from the arbiter: the log waits, takes what the      *)
(* arbiter offers, or commits what it took.                                *)

LogWaits ==
  /\ ~write_done'
  /\ UNCHANGED <<current_chain_head, decision_hash_reg>>
  /\ state = "IDLE" <=> state' = "IDLE"

LogTakes(decision) ==
  /\ state = "IDLE" /\ state' # "IDLE" /\ ~write_done'
  /\ decision_hash_reg' = decision
  /\ UNCHANGED current_chain_head

LogCommits ==
  /\ state # "IDLE" /\ state' = "IDLE"
  /\ current_chain_head' = Append(current_chain_head, <<decision_hash_reg, seq_counter>>)
  /\ UNCHANGED decision_hash_reg

LEMMA LogEdge ==
  ASSUME IInv, NEW v \in BOOLEAN, NEW d \in Decisions, LogClock(v, d)
  PROVE  \/ LogWaits /\ ~(v /\ ~write_busy)
         \/ LogTakes(d) /\ v /\ ~write_busy
         \/ LogCommits /\ write_busy
<1>1. FsmStep(v, d)
  BY DEF LogClock
<1>2. write_busy <=> state # "IDLE"
  BY DEF IInv, PhaseInv, Phase
<1>3. CASE Idle(v)
  BY <1>2, <1>3 DEF Idle, ringVars, LogWaits
<1>4. CASE Accept(v, d)
  BY <1>2, <1>4 DEF Accept, ringVars, LogTakes
<1>5. CASE Hashing
  BY <1>2, <1>5 DEF Hashing, ringVars, LogWaits
<1>6. CASE Commit
  BY <1>2, <1>6 DEF Commit, Advance, LogCommits, IInv, PhaseInv, Phase, Fresh, Sha3
<1> QED
  BY <1>1, <1>3, <1>4, <1>5, <1>6 DEF FsmStep

\* What a commit does to the chain.
LEMMA CommitAppends ==
  ASSUME IInv, LogCommits
  PROVE  /\ Written \in Nat /\ Written' = Written + 1
         /\ \A n \in 1 .. Written : current_chain_head'[n] = current_chain_head[n]
         /\ current_chain_head'[Written + 1][1] = decision_hash_reg
<1>1. current_chain_head \in Seq(Entries) /\ <<decision_hash_reg, seq_counter>> \in Entries
  BY DEF IInv, PhaseInv, TypeInv, LogTypeOK, Latched, LogCommits, Hashes, Entries
<1>2. /\ Len(current_chain_head) \in Nat
      /\ Len(current_chain_head') = Len(current_chain_head) + 1
      /\ \A n \in 1 .. Len(current_chain_head) : current_chain_head'[n] = current_chain_head[n]
      /\ current_chain_head'[Len(current_chain_head) + 1] = <<decision_hash_reg, seq_counter>>
  BY <1>1 DEF LogCommits
<1>3. Written = Len(current_chain_head) /\ Written' = Len(current_chain_head')
  BY DEF Written
<1> QED
  BY <1>2, <1>3

(***************************************************************************)
(* The step of the arbiter.  The numbered disjuncts of TimeoutPlaced are   *)
(* walked through in order: a timeout waits while the log is busy, is      *)
(* taken on the first edge on which it is not, and is then committed.      *)
(***************************************************************************)
LEMMA ClockInv ==
  ASSUME TauInv,
         NEW v \in BOOLEAN, NEW d \in EcuDecisions,
         NEW h \in BOOLEAN, NEW c \in BOOLEAN, NEW t \in Timeouts,
         TauClock(v, d, h, c, t)
  PROVE  TauInv'
<1> DEFINE av == WatchdogWants \/ v
           ad == ArbDecision(v, d)
<1>1. /\ LogClock(av, ad)
      /\ WatchdogClock(h, c, t)
      /\ Pending
      /\ Tag(av)
      /\ Observe(v, d)
  BY DEF TauClock
<1>2. av \in BOOLEAN /\ ad \in Decisions
  BY SentinelAssumption DEF ArbDecision, EcuDecisions
<1>3. IInv /\ IInv'
  BY <1>1, <1>2, ClockInductive DEF TauInv
<1>4. /\ WatchdogInv'
      /\ timeout_event' <=> ecu_alive /\ ~ecu_alive'
      /\ ~ecu_alive => ~ecu_alive'
  BY <1>1, WatchdogStep DEF TauInv
<1>5. write_busy <=> state # "IDLE"
  BY <1>3 DEF IInv, PhaseInv, Phase
<1>6. ad = Sentinel <=> WatchdogWants
  BY DEF ArbDecision, EcuDecisions
<1>7. \/ LogWaits /\ ~(av /\ ~write_busy)
      \/ LogTakes(ad) /\ av /\ ~write_busy
      \/ LogCommits /\ write_busy
  BY <1>1, <1>2, <1>3, LogEdge
<1> HIDE DEF av, ad
<1>8. FlagTracksDecision'
  <2>1. CASE LogWaits /\ ~(av /\ ~write_busy)
    <3>1. UNCHANGED write_was_watchdog_event_reg
      BY <1>1, <2>1 DEF Tag
    <3> QED
      BY <2>1, <3>1 DEF LogWaits, FlagTracksDecision, TauInv
  <2>2. CASE LogTakes(ad) /\ av /\ ~write_busy
    <3>1. write_was_watchdog_event_reg' = WatchdogWants
      BY <1>1, <2>2 DEF Tag
    <3> QED
      BY <1>6, <2>2, <3>1 DEF LogTakes, FlagTracksDecision
  <2>3. CASE LogCommits /\ write_busy
    <3>1. UNCHANGED write_was_watchdog_event_reg
      BY <1>1, <2>3 DEF Tag
    <3>2. Written' = Written + 1 /\ Written \in Nat
          /\ current_chain_head'[Written + 1][1] = decision_hash_reg
      BY <1>3, <2>3, CommitAppends
    <3>3. Written' > 0
      BY <3>2
    <3>4. decision_hash_reg' = decision_hash_reg
      BY <2>3 DEF LogCommits
    <3>5. current_chain_head'[Written'][1] = decision_hash_reg'
      BY <3>2, <3>4
    <3>6. write_was_watchdog_event_reg' <=> decision_hash_reg' = Sentinel
      BY <1>5, <2>3, <3>1, <3>4 DEF FlagTracksDecision, TauInv
    <3> QED
      BY <2>3, <3>3, <3>5, <3>6 DEF LogCommits, FlagTracksDecision
  <2> QED
    BY <1>7, <2>1, <2>2, <2>3
<1>9. ArbiterTypeOK'
  <2>1. pending_watchdog_write' \in BOOLEAN
    BY <1>1 DEF Pending
  <2>2. ecu_write_accepted' \in BOOLEAN /\ write_was_watchdog_event_reg' \in BOOLEAN
    BY <1>1 DEF Tag, TauInv, ArbiterTypeOK, WatchdogWants
  <2>3. asked' \in [EcuDecisions -> Nat] /\ ackedWrites' \in [EcuDecisions -> Nat]
    BY <1>1 DEF TauInv, ArbiterTypeOK, Observe, Count1
  <2>4. chainAtTimeout' \in Nat /\ busyAtTimeout' \in BOOLEAN
    BY <1>1, <1>3 DEF TauInv, ArbiterTypeOK, Observe, IInv, PhaseInv, TypeInv, LogTypeOK, Hashes
  <2> QED
    BY <2>1, <2>2, <2>3, <2>4 DEF ArbiterTypeOK
<1>10. TimeoutPlaced'
  <2>1. Written \in Nat /\ chainAtTimeout \in Nat
    BY <1>3 DEF Written, TauInv, ArbiterTypeOK, IInv, PhaseInv, TypeInv, LogTypeOK, Hashes
  <2>2. ~ecu_alive \/ WatchdogWants \/ SentinelInProgress \/ SentinelEntries # {}
          <=> ~ecu_alive
    BY DEF TauInv, TimeoutPlaced
  <2>3. CASE ecu_alive'
    <3>1. ecu_alive /\ ~timeout_event' /\ ~WatchdogWants /\ ~SentinelInProgress
          /\ SentinelEntries = {}
      BY <1>4, <2>2, <2>3
    <3>2. ~WatchdogWants'
      BY <1>1, <3>1 DEF Pending, WatchdogWants
    <3>3. ~SentinelInProgress'
      BY <1>6, <1>7, <3>1 DEF LogWaits, LogTakes, LogCommits, SentinelInProgress
    <3>4. SentinelEntries' = {}
      <4>1. CASE UNCHANGED current_chain_head
        BY <3>1, <4>1 DEF SentinelEntries, EntriesOf, SentinelAt, Written
      <4>2. CASE LogCommits
        <5>1. decision_hash_reg # Sentinel
          BY <3>1, <4>2 DEF LogCommits, SentinelInProgress
        <5>2. \A n \in 1 .. Written : current_chain_head[n][1] # Sentinel
          BY <3>1 DEF SentinelEntries, EntriesOf, SentinelAt
        <5>3. \A n \in 1 .. Written + 1 : current_chain_head'[n][1] # Sentinel
          BY <1>3, <2>1, <4>2, <5>1, <5>2, CommitAppends
        <5>4. Written' = Written + 1
          BY <1>3, <4>2, CommitAppends
        <5> QED
          BY <5>3, <5>4 DEF SentinelEntries, EntriesOf, SentinelAt
      <4> QED
        BY <1>7, <4>1, <4>2 DEF LogWaits, LogTakes
    <3> QED
      BY <2>3, <3>2, <3>3, <3>4 DEF TimeoutPlaced
  <2>4. CASE ecu_alive /\ ~ecu_alive'
    <3>1. timeout_event' /\ chainAtTimeout' = Written'
      BY <1>1, <1>4, <2>4 DEF Written, Observe
    <3> QED
      BY <2>4, <3>1 DEF TimeoutPlaced, WatchdogWants
  <2>5. CASE ~ecu_alive
    <3>1. ~ecu_alive' /\ ~timeout_event' /\ chainAtTimeout' = chainAtTimeout
      BY <1>1, <1>4, <2>5 DEF Observe
    <3> DEFINE Placed ==
          \/ Written = chainAtTimeout /\ WatchdogWants
          \/ Written = chainAtTimeout /\ SentinelInProgress
          \/ Written = chainAtTimeout + 1 /\ pending_watchdog_write /\ state = "IDLE"
          \/ Written = chainAtTimeout + 1 /\ SentinelInProgress
          \/ Written >= chainAtTimeout + 1 /\ SentinelAt(chainAtTimeout + 1)
          \/ Written >= chainAtTimeout + 2 /\ SentinelAt(chainAtTimeout + 2)
    <3>2. Placed
      BY <2>5 DEF TauInv, TimeoutPlaced
    <3>3. SUFFICES Placed'
      BY <3>1 DEF TimeoutPlaced
    <3>4. CASE LogWaits /\ ~(av /\ ~write_busy)
      <4>1. Written' = Written /\ (SentinelInProgress' <=> SentinelInProgress)
            /\ (state' = "IDLE" <=> state = "IDLE") /\ current_chain_head' = current_chain_head
        BY <3>4 DEF LogWaits, SentinelInProgress, Written
      <4>2. WatchdogWants => write_busy /\ pending_watchdog_write'
        BY <1>1, <3>4 DEF av, Pending, WatchdogWants
      <4> QED
        BY <3>1, <3>2, <4>1, <4>2, <1>5 DEF WatchdogWants, SentinelAt
    <3>5. CASE LogTakes(ad) /\ av /\ ~write_busy
      <4>1. Written' = Written /\ current_chain_head' = current_chain_head
            /\ state = "IDLE" /\ ~SentinelInProgress
        BY <3>5 DEF LogTakes, SentinelInProgress, Written
      <4>2. WatchdogWants => SentinelInProgress'
        BY <1>6, <3>5 DEF LogTakes, SentinelInProgress
      <4> QED
        BY <3>1, <3>2, <4>1, <4>2 DEF WatchdogWants, SentinelAt
    <3>6. CASE LogCommits /\ write_busy
      <4>1. /\ Written' = Written + 1 /\ state # "IDLE" /\ state' = "IDLE"
            /\ \A n \in 1 .. Written : current_chain_head'[n] = current_chain_head[n]
            /\ current_chain_head'[Written + 1][1] = decision_hash_reg
        BY <1>3, <3>6, CommitAppends DEF LogCommits
      <4>2. WatchdogWants => pending_watchdog_write'
        BY <1>1, <3>6 DEF Pending, WatchdogWants
      <4>3. CASE Written = chainAtTimeout /\ WatchdogWants
        BY <3>1, <4>1, <4>2, <4>3
      <4>4. CASE Written = chainAtTimeout /\ SentinelInProgress
        BY <2>1, <3>1, <4>1, <4>4 DEF SentinelInProgress, SentinelAt
      <4>5. CASE Written = chainAtTimeout + 1 /\ SentinelInProgress
        <5>1. Written + 1 = chainAtTimeout' + 2 /\ Written' >= chainAtTimeout' + 2
          BY <2>1, <3>1, <4>1, <4>5
        <5>2. current_chain_head'[chainAtTimeout' + 2][1] = Sentinel
          BY <4>1, <4>5, <5>1 DEF SentinelInProgress
        <5> QED
          BY <5>1, <5>2 DEF SentinelAt
      <4>6. CASE Written >= chainAtTimeout + 1 /\ SentinelAt(chainAtTimeout + 1)
        <5>1. chainAtTimeout + 1 \in 1 .. Written /\ Written' >= chainAtTimeout' + 1
          BY <2>1, <3>1, <4>1, <4>6
        <5>2. current_chain_head'[chainAtTimeout' + 1][1] = Sentinel
          BY <3>1, <4>1, <4>6, <5>1 DEF SentinelAt
        <5> QED
          BY <5>1, <5>2 DEF SentinelAt
      <4>7. CASE Written >= chainAtTimeout + 2 /\ SentinelAt(chainAtTimeout + 2)
        <5>1. chainAtTimeout + 2 \in 1 .. Written /\ Written' >= chainAtTimeout' + 2
          BY <2>1, <3>1, <4>1, <4>7
        <5>2. current_chain_head'[chainAtTimeout' + 2][1] = Sentinel
          BY <3>1, <4>1, <4>7, <5>1 DEF SentinelAt
        <5> QED
          BY <5>1, <5>2 DEF SentinelAt
      <4> QED
        BY <3>2, <4>1, <4>3, <4>4, <4>5, <4>6, <4>7
    <3> QED
      BY <1>7, <3>4, <3>5, <3>6
  <2> QED
    BY <1>4, <2>3, <2>4, <2>5
<1> QED
  BY <1>3, <1>4, <1>8, <1>9, <1>10 DEF TauInv

LEMMA TauInvariant == TauSpec => []TauInv
<1>1. TauInv /\ [TauNext]_tauVars => TauInv'
  <2> SUFFICES ASSUME TauInv, [TauNext]_tauVars PROVE TauInv'
    OBVIOUS
  <2>1. CASE TauReset
    BY <2>1, TauResetInv
  <2>2. ASSUME NEW h \in BOOLEAN, TauStep(h) PROVE TauInv'
    <3>1. PICK v \in BOOLEAN, d \in EcuDecisions, c \in BOOLEAN, t \in Timeouts :
            TauClock(v, d, h, c, t)
      BY <2>2 DEF TauStep
    <3> QED
      BY <3>1, ClockInv
  <2>3. CASE UNCHANGED tauVars
    <3>1. IInv'
      BY <2>3, StutterInductive DEF TauInv, tauVars
    <3>2. UNCHANGED <<state, decision_hash_reg, current_chain_head, write_done>>
      BY <2>3 DEF tauVars, logVars, fsmVars
    <3>3. UNCHANGED <<active_timeout, counter, ecu_alive, timeout_event, timeout_count>>
      BY <2>3 DEF tauVars, watchdogVars
    <3>4. UNCHANGED <<pending_watchdog_write, ecu_write_accepted,
                      write_was_watchdog_event_reg, historyVars>>
      BY <2>3 DEF tauVars, arbiterVars
    <3>5. WatchdogInv' /\ ArbiterTypeOK'
      BY <3>3, <3>4 DEF TauInv, WatchdogInv, WatchdogTypeOK, ArbiterTypeOK, historyVars
    <3>6. TimeoutPlaced' /\ FlagTracksDecision'
      BY <3>2, <3>3, <3>4
         DEF TauInv, TimeoutPlaced, FlagTracksDecision, WatchdogWants, SentinelInProgress,
             SentinelEntries, EntriesOf, SentinelAt, Written, historyVars
    <3> QED
      BY <3>1, <3>5, <3>6 DEF TauInv
  <2> QED
    BY <2>1, <2>2, <2>3 DEF TauNext
<1> QED
  BY <1>1, TauInitInv, PTL DEF TauSpec

-----------------------------------------------------------------------------
(* The theorems.                                                           *)

\* Every register of the log, the watchdog and the arbiter holds a value of its type.
THEOREM TauTypeCorrect == TauSpec => []TauTypeOK
<1>1. TauInv => TauTypeOK
  BY DEF TauInv, TauTypeOK, IInv, PhaseInv, TypeInv, WatchdogInv, ArbiterTypeOK
<1> QED
  BY <1>1, TauInvariant, PTL

\* A timeout is never lost on its way to the chain, and no entry of the chain
\* claims a timeout that was not raised.
THEOREM NeverLost == TauSpec => []TimeoutNeverLost
<1>1. TauInv => TimeoutNeverLost
  <2> SUFFICES ASSUME TauInv PROVE TimeoutNeverLost
    OBVIOUS
  <2>1. WatchdogWants \/ SentinelInProgress \/ SentinelEntries # {} => ~ecu_alive
    BY DEF TauInv, TimeoutPlaced
  <2>2. ASSUME ~ecu_alive
        PROVE  WatchdogWants \/ SentinelInProgress \/ SentinelEntries # {}
    <3>1. chainAtTimeout \in Nat /\ Written \in Nat
      BY DEF TauInv, ArbiterTypeOK, IInv, PhaseInv, TypeInv, LogTypeOK, Hashes, Written
    <3>2. ASSUME NEW k \in {1, 2}, Written >= chainAtTimeout + k,
                 SentinelAt(chainAtTimeout + k)
          PROVE  SentinelEntries # {}
      <4>1. chainAtTimeout + k \in SentinelEntries
        BY <3>1, <3>2 DEF SentinelEntries, EntriesOf, SentinelAt
      <4> QED
        BY <4>1
    <3> QED
      BY <2>2, <3>2 DEF TauInv, TimeoutPlaced, WatchdogWants
  <2> QED
    BY <2>1, <2>2 DEF TimeoutNeverLost
<1> QED
  BY <1>1, TauInvariant, PTL

\* After a timeout at most the write in progress comes before its entry.
THEOREM GoesFirst == TauSpec => []WatchdogGoesFirst
<1>1. TauInv => WatchdogGoesFirst
  BY DEF TauInv, TimeoutPlaced, WatchdogGoesFirst, ArbiterTypeOK
<1> QED
  BY <1>1, TauInvariant, PTL

\* A timeout is on its way to the chain from the edge it is raised on, and at most
\* one entry overtakes it.
THEOREM ReachesChain == TauSpec => []TimeoutReachesChain
BY NeverLost, GoesFirst, PTL DEF TimeoutReachesChain

\* The flag that accompanies write_done tells watchdog entries from the ECU's.
THEOREM FlagCorrect == TauSpec => []FlagTellsSource
<1>1. TauInv => FlagTellsSource
  BY DEF TauInv, FlagTracksDecision, FlagTellsSource, write_was_watchdog_event, SentinelAt
<1> QED
  BY <1>1, TauInvariant, PTL

\* The properties of the log survive its embedding: the ring holds the tail of
\* the chain, whoever the writes came from.
THEOREM TauRingCorrect == TauSpec => []RingHoldsTail
BY TauInvariant, PTL DEF TauInv, IInv, Safety

-----------------------------------------------------------------------------
(***************************************************************************)
(* Accounting.  An entry counts from the edge its request is taken: the    *)
(* log moves it from the register to the chain, and no count changes.      *)
(* What a timeout may still cost is what waits for the log.                *)
(***************************************************************************)
StillToCome ==
  IF timeout_event THEN (IF write_busy THEN 1 ELSE 2) ELSE IF pending_watchdog_write THEN 1 ELSE 0

Due == IF ecu_alive THEN 0 ELSE IF busyAtTimeout THEN 1 ELSE 2

AccountInv ==
  /\ EcuEntriesAreAsked
  /\ Taken(Sentinel) + StillToCome = Due

LEMMA WrittenType == IInv => Written \in Nat
BY DEF IInv, PhaseInv, TypeInv, LogTypeOK, Hashes, Written

LEMMA CountsType ==
  ASSUME IInv, NEW e
  PROVE  /\ IsFiniteSet(EntriesOf(e)) /\ Cardinality(EntriesOf(e)) \in Nat
         /\ Taken(e) \in Nat
<1>1. IsFiniteSet(1 .. Written)
  BY WrittenType, FS_Interval
<1>2. EntriesOf(e) \in SUBSET (1 .. Written)
  BY DEF EntriesOf
<1>3. IsFiniteSet(EntriesOf(e)) /\ Cardinality(EntriesOf(e)) \in Nat
  BY <1>1, <1>2, FS_Subset, FS_CardinalityType
<1> QED
  BY <1>3 DEF Taken

\* While the log waits no count changes.
LEMMA WaitKeepsCount ==
  ASSUME LogWaits, NEW e
  PROVE  Taken(e)' = Taken(e)
BY DEF LogWaits, Taken, EntriesOf, Written

\* What the log takes counts for its decision, and for no other.
LEMMA TakeCounts ==
  ASSUME IInv, NEW taken, LogTakes(taken), NEW e
  PROVE  Taken(e)' = Taken(e) + (IF e = taken THEN 1 ELSE 0)
<1>1. EntriesOf(e)' = EntriesOf(e) /\ state = "IDLE" /\ state' # "IDLE" /\ decision_hash_reg' = taken
  BY DEF LogTakes, EntriesOf, Written
<1> QED
  BY <1>1, CountsType DEF Taken

\* An entry is counted for the same decision before and after its commit.
LEMMA CommitMovesCount ==
  ASSUME IInv, LogCommits, NEW e
  PROVE  Taken(e)' = Taken(e)
<1>1. /\ Written \in Nat /\ Written' = Written + 1
      /\ \A n \in 1 .. Written : current_chain_head'[n] = current_chain_head[n]
      /\ current_chain_head'[Written + 1][1] = decision_hash_reg
  BY CommitAppends
<1>2. state # "IDLE" /\ state' = "IDLE"
  BY DEF LogCommits
<1>3. Written + 1 \notin EntriesOf(e) /\ 1 .. Written' = (1 .. Written) \cup {Written + 1}
  BY <1>1 DEF EntriesOf
<1>4. EntriesOf(e)' = {n \in (1 .. Written) \cup {Written + 1} : current_chain_head'[n][1] = e}
  BY <1>1, <1>3 DEF EntriesOf
<1>5. EntriesOf(e) = {n \in 1 .. Written : current_chain_head'[n][1] = e}
  BY <1>1 DEF EntriesOf
<1>6. EntriesOf(e)' = IF decision_hash_reg = e THEN EntriesOf(e) \cup {Written + 1} ELSE EntriesOf(e)
  BY <1>1, <1>4, <1>5
<1>7. Cardinality(EntriesOf(e) \cup {Written + 1}) = Cardinality(EntriesOf(e)) + 1
  BY <1>3, CountsType, FS_AddElement
<1>8. CASE decision_hash_reg = e
  BY <1>2, <1>6, <1>7, <1>8, CountsType DEF Taken
<1>9. CASE decision_hash_reg # e
  BY <1>2, <1>6, <1>9, CountsType DEF Taken
<1> QED
  BY <1>8, <1>9

LEMMA AccountStart ==
  ASSUME IInv', Written' = 0, state' = "IDLE", asked' = NoRequests, ackedWrites' = NoRequests,
         ecu_alive', ~timeout_event', ~pending_watchdog_write'
  PROVE  AccountInv'
<1>1. \A e : EntriesOf(e)' = {}
  BY DEF EntriesOf
<1>2. \A e : Taken(e)' = 0
  BY <1>1, FS_EmptySet DEF Taken
<1>3. EcuEntriesAreAsked'
  BY <1>2 DEF EcuEntriesAreAsked, NoRequests
<1> QED
  BY <1>2, <1>3 DEF AccountInv, StillToCome, Due

LEMMA AccountClock ==
  ASSUME TauInv, AccountInv,
         NEW v \in BOOLEAN, NEW d \in EcuDecisions,
         NEW h \in BOOLEAN, NEW c \in BOOLEAN, NEW t \in Timeouts,
         TauClock(v, d, h, c, t)
  PROVE  AccountInv'
<1> DEFINE av == WatchdogWants \/ v
           ad == ArbDecision(v, d)
<1>1. /\ LogClock(av, ad) /\ WatchdogClock(h, c, t) /\ Pending /\ Tag(av) /\ Observe(v, d)
  BY DEF TauClock
<1>2. av \in BOOLEAN /\ ad \in Decisions /\ ad = IF WatchdogWants THEN Sentinel ELSE d
  BY SentinelAssumption DEF ArbDecision, EcuDecisions
<1>3. /\ timeout_event' <=> ecu_alive /\ ~ecu_alive'
      /\ ~ecu_alive => ~ecu_alive'
  BY <1>1, WatchdogStep DEF TauInv
<1>4. /\ IInv /\ (write_busy <=> state # "IDLE")
      /\ asked \in [EcuDecisions -> Nat] /\ ackedWrites \in [EcuDecisions -> Nat]
      /\ \A e : Taken(e) \in Nat
  BY CountsType DEF TauInv, IInv, PhaseInv, Phase, ArbiterTypeOK
<1>5. \/ LogWaits /\ ~(av /\ ~write_busy)
      \/ LogTakes(ad) /\ av /\ ~write_busy
      \/ LogCommits /\ write_busy
  BY <1>1, <1>2, <1>4, LogEdge
<1>6. ecu_alive => ~WatchdogWants /\ Taken(Sentinel) = 0
  BY <1>4 DEF TauInv, TimeoutPlaced, AccountInv, Due, StillToCome, WatchdogWants
<1>7. busyAtTimeout' = IF timeout_event' THEN write_busy' ELSE busyAtTimeout
  BY <1>1 DEF Observe
<1> HIDE DEF av, ad
\* The counts move only when the log takes a request.
<1>8. CASE ~(av /\ ~write_busy)
  <2>1. \A e : Taken(e)' = Taken(e)
    BY <1>4, <1>5, <1>8, WaitKeepsCount, CommitMovesCount
  <2>2. WatchdogWants => write_busy
    BY <1>8 DEF av
  <2>3. ~(v /\ ~write_busy) /\ ~ecu_write_accepted'
    BY <1>1, <1>8 DEF av, Tag
  <2>4. asked' = asked /\ ackedWrites' = ackedWrites
    BY <1>1, <2>3 DEF Observe
  <2>5. EcuEntriesAreAsked'
    BY <2>1, <2>4 DEF EcuEntriesAreAsked, AccountInv
  <2>6. Taken(Sentinel)' + StillToCome' = Due'
    <3>1. CASE ecu_alive
      <4>1. ~pending_watchdog_write'
        BY <1>1, <1>6, <3>1 DEF Pending, WatchdogWants
      <4> QED
        BY <1>3, <1>6, <1>7, <2>1, <3>1, <4>1 DEF StillToCome, Due
    <3>2. CASE ~ecu_alive
      <4>1. ~ecu_alive' /\ ~timeout_event' /\ (pending_watchdog_write' <=> WatchdogWants)
        BY <1>1, <1>3, <2>2, <3>2 DEF Pending, WatchdogWants
      <4>2. StillToCome' = StillToCome
        BY <2>2, <4>1 DEF StillToCome, WatchdogWants
      <4> QED
        BY <1>7, <2>1, <3>2, <4>1, <4>2 DEF Due, AccountInv
    <3> QED
      BY <3>1, <3>2
  <2> QED
    BY <2>5, <2>6 DEF AccountInv
<1>9. CASE av /\ ~write_busy
  <2>1. LogTakes(ad)
    BY <1>5, <1>9
  <2>2. \A e : Taken(e)' = Taken(e) + (IF e = ad THEN 1 ELSE 0)
    BY <1>4, <2>1, TakeCounts
  <2>3. asked' = IF v THEN Count1(asked, d) ELSE asked
    BY <1>1, <1>9 DEF Observe
  <2>4. CASE WatchdogWants
    <3>1. /\ Taken(Sentinel)' = Taken(Sentinel) + 1
          /\ \A e \in EcuDecisions : Taken(e)' = Taken(e)
      BY <1>2, <1>4, <2>2, <2>4 DEF EcuDecisions
    <3>2. ackedWrites' = ackedWrites
      BY <1>1, <1>9, <2>4 DEF Tag, Observe
    <3>3. \A e \in EcuDecisions : asked'[e] \in {asked[e], asked[e] + 1}
      BY <1>4, <2>3 DEF Count1
    <3>4. EcuEntriesAreAsked'
      <4> SUFFICES ASSUME NEW e \in EcuDecisions
                   PROVE  /\ ackedWrites'[e] <= Taken(e)'
                          /\ Taken(e)' <= asked'[e]
                          /\ asked'[e] <= Taken(e)' + Taken(Sentinel)'
        BY DEF EcuEntriesAreAsked
      <4>1. /\ ackedWrites[e] <= Taken(e)
            /\ Taken(e) <= asked[e]
            /\ asked[e] <= Taken(e) + Taken(Sentinel)
        BY DEF AccountInv, EcuEntriesAreAsked
      <4>2. asked[e] \in Nat /\ ackedWrites[e] \in Nat /\ Taken(e) \in Nat /\ Taken(Sentinel) \in Nat
        BY <1>4
      <4> QED
        BY <3>1, <3>2, <3>3, <4>1, <4>2
    <3>5. ~ecu_alive /\ ~ecu_alive' /\ ~timeout_event'
      BY <1>3, <1>6, <2>4
    <3>6. pending_watchdog_write' <=> timeout_event
      BY <1>1, <1>9 DEF Pending
    <3>7. StillToCome = StillToCome' + 1
      BY <1>9, <2>4, <3>5, <3>6 DEF StillToCome, WatchdogWants
    <3>8. Due' = Due /\ StillToCome' \in Nat
      BY <1>7, <3>5 DEF Due, StillToCome
    <3> QED
      BY <1>4, <3>1, <3>4, <3>7, <3>8 DEF AccountInv
  <2>5. CASE ~WatchdogWants
    <3>1. v /\ ad = d /\ d # Sentinel
      BY <1>2, <1>9, <2>5 DEF av, EcuDecisions
    <3>2. Taken(Sentinel)' = Taken(Sentinel)
      BY <1>4, <2>2, <3>1
    <3>3. ackedWrites' \in {ackedWrites, Count1(ackedWrites, d)}
      BY <1>1 DEF Observe
    <3>4. EcuEntriesAreAsked'
      <4> SUFFICES ASSUME NEW e \in EcuDecisions
                   PROVE  /\ ackedWrites'[e] <= Taken(e)'
                          /\ Taken(e)' <= asked'[e]
                          /\ asked'[e] <= Taken(e)' + Taken(Sentinel)'
        BY DEF EcuEntriesAreAsked
      <4>1. /\ ackedWrites[e] <= Taken(e)
            /\ Taken(e) <= asked[e]
            /\ asked[e] <= Taken(e) + Taken(Sentinel)
        BY DEF AccountInv, EcuEntriesAreAsked
      <4>2. asked[e] \in Nat /\ ackedWrites[e] \in Nat /\ Taken(e) \in Nat /\ Taken(Sentinel) \in Nat
        BY <1>4
      <4>3. CASE e = d
        <5>1. Taken(e)' = Taken(e) + 1 /\ asked'[e] = asked[e] + 1
          BY <1>4, <2>2, <2>3, <3>1, <4>3 DEF Count1
        <5>2. ackedWrites'[e] <= ackedWrites[e] + 1
          BY <1>4, <3>3, <4>2, <4>3 DEF Count1
        <5>3. ackedWrites'[e] \in Nat
          BY <1>4, <3>3, <4>2, <4>3 DEF Count1
        <5> QED
          BY <3>2, <4>1, <4>2, <5>1, <5>2, <5>3
      <4>4. CASE e # d
        <5>1. Taken(e)' = Taken(e) /\ asked'[e] = asked[e]
          BY <1>4, <2>2, <2>3, <3>1, <4>4 DEF Count1
        <5>2. ackedWrites'[e] = ackedWrites[e]
          BY <1>4, <3>3, <4>4 DEF Count1
        <5> QED
          BY <3>2, <4>1, <4>2, <5>1, <5>2
      <4> QED
        BY <4>3, <4>4
    <3>5. ~pending_watchdog_write'
      BY <1>1, <2>5 DEF Pending, WatchdogWants
    <3>6. StillToCome = 0
      BY <2>5 DEF StillToCome, WatchdogWants
    <3>7. Taken(Sentinel)' + StillToCome' = Due'
      <4>1. CASE ecu_alive
        BY <1>3, <1>6, <1>7, <3>2, <3>5, <4>1 DEF StillToCome, Due
      <4>2. CASE ~ecu_alive
        <5>1. ~timeout_event' /\ ~ecu_alive'
          BY <1>3, <4>2
        <5> QED
          BY <1>7, <3>2, <3>5, <3>6, <4>2, <5>1 DEF StillToCome, Due, AccountInv
      <4> QED
        BY <4>1, <4>2
    <3> QED
      BY <3>4, <3>7 DEF AccountInv
  <2> QED
    BY <2>4, <2>5
<1> QED
  BY <1>8, <1>9

LEMMA AccountInvariant == TauSpec => []AccountInv
<1>1. TauInit /\ TauInv => AccountInv
  <2> SUFFICES ASSUME TauInit, TauInv PROVE AccountInv
    OBVIOUS
  <2>1. Written = 0 /\ state = "IDLE" /\ ecu_alive /\ ~timeout_event /\ ~pending_watchdog_write
        /\ asked = NoRequests /\ ackedWrites = NoRequests
    BY DEF TauInit, LogInit, WatchdogInit, Written, Genesis
  <2>2. \A e : EntriesOf(e) = {}
    BY <2>1 DEF EntriesOf
  <2>3. \A e : Taken(e) = 0
    BY <2>1, <2>2, FS_EmptySet DEF Taken
  <2>4. EcuEntriesAreAsked
    BY <2>1, <2>3 DEF EcuEntriesAreAsked, NoRequests
  <2> QED
    BY <2>1, <2>3, <2>4 DEF AccountInv, StillToCome, Due
<1>2. TauInv /\ TauInv' /\ AccountInv /\ [TauNext]_tauVars => AccountInv'
  <2> SUFFICES ASSUME TauInv, TauInv', AccountInv, [TauNext]_tauVars PROVE AccountInv'
    OBVIOUS
  <2>1. CASE TauReset
    <3>1. /\ Written' = 0 /\ state' = "IDLE" /\ ecu_alive' /\ ~timeout_event' /\ ~pending_watchdog_write'
          /\ asked' = NoRequests /\ ackedWrites' = NoRequests
      BY <2>1 DEF TauReset, LogReset, WatchdogReset, Written, Genesis
    <3> QED
      BY <3>1, AccountStart DEF TauInv
  <2>2. ASSUME NEW h \in BOOLEAN, TauStep(h) PROVE AccountInv'
    <3>1. PICK v \in BOOLEAN, d \in EcuDecisions, c \in BOOLEAN, t \in Timeouts :
            TauClock(v, d, h, c, t)
      BY <2>2 DEF TauStep
    <3> QED
      BY <3>1, AccountClock
  <2>3. CASE UNCHANGED tauVars
    BY <2>3 DEF tauVars, logVars, fsmVars, watchdogVars, arbiterVars, historyVars, AccountInv,
                StillToCome, Due, EcuEntriesAreAsked, Taken, EntriesOf, Written
  <2> QED
    BY <2>1, <2>2, <2>3 DEF TauNext
<1> QED
  BY <1>1, <1>2, TauInvariant, PTL DEF TauSpec

(***************************************************************************)
(* Every entry of the log has an owner who caused it, for any threshold,   *)
(* log depth and latency of the hash core: the flag of write_done names    *)
(* the right one, decision by decision the ECU has no entry it did not ask *)
(* for and no request that vanished, and a timeout costs one entry if a    *)
(* write was in progress when it was raised and two if not                 *)
(* (pqc_tau_core.sv:82-94).                                                *)
(***************************************************************************)
THEOREM Attributed == TauSpec => []EntriesAreAttributed
<1>1. TauInv /\ AccountInv => EcuEntriesAreAsked /\ SentinelsAreDue
  <2> SUFFICES ASSUME TauInv, AccountInv PROVE SentinelsAreDue
    BY DEF AccountInv
  <2>1. Taken(Sentinel) \in Nat /\ StillToCome \in Nat /\ (~WatchdogWants => StillToCome = 0)
    BY CountsType DEF TauInv, StillToCome, WatchdogWants
  <2>2. Taken(Sentinel) + StillToCome = Due
    BY DEF AccountInv
  <2> QED
    BY <2>1, <2>2 DEF SentinelsAreDue, Due
<1> QED
  BY <1>1, TauInvariant, AccountInvariant, TauTypeCorrect, FlagCorrect, PTL DEF EntriesAreAttributed

-----------------------------------------------------------------------------
(***************************************************************************)
(* What an observer of the heartbeat line may conclude, for every          *)
(* threshold, ring and counter.                                            *)
(***************************************************************************)

\* While the ECU is alive, the watchdog's counter is the observed silence.
CounterIsSilence ==
  /\ silence \in Nat
  /\ ecu_alive => counter = silence /\ silence <= MaxTimeout

MonitorInv == WatchdogInv /\ CounterIsSilence

LEMMA MonitorStart == MonitorInit => MonitorInv
<1> SUFFICES ASSUME MonitorInit PROVE MonitorInv
  OBVIOUS
<1>1. WatchdogInv
  BY WatchdogStart DEF MonitorInit, TauInit
<1>2. CounterIsSilence
  BY TimeoutAssumption DEF MonitorInit, TauInit, WatchdogInit, CounterIsSilence
<1> QED
  BY <1>1, <1>2 DEF MonitorInv

\* One edge, as the observer sees it
Observed ==
  /\ ecu_alive => counter = silence /\ silence <= MaxTimeout
  /\ ecu_alive /\ ~ecu_alive' => silence >= active_timeout /\ silence' > 0
  /\ timeout_event' <=> ecu_alive /\ ~ecu_alive'
  /\ ~ecu_alive /\ ecu_alive' => counter' = 0 /\ timeout_count' = 0

LEMMA MonitorReads ==
  ASSUME MonitorInv, NEW h \in BOOLEAN, TauStep(h),
         silence' = IF h THEN 0 ELSE Lower(silence + 1, MaxTimeout + 1)
  PROVE  MonitorInv' /\ Observed
<1>1. PICK c \in BOOLEAN, t \in Timeouts : WatchdogClock(h, c, t)
  BY DEF TauStep, TauClock
<1>2. /\ WatchdogInv'
      /\ timeout_event' <=> ecu_alive /\ ~ecu_alive'
      /\ ~ecu_alive => ~ecu_alive'
  BY <1>1, WatchdogStep DEF MonitorInv
<1>3. /\ Numbers /\ silence \in Nat /\ MaxTimeout \in Nat
      /\ ecu_alive => counter = silence /\ silence <= MaxTimeout
  BY WatchdogParts, TimeoutAssumption DEF MonitorInv, CounterIsSilence
<1>4. counter \in Nat /\ active_timeout \in Nat /\ active_timeout <= MaxTimeout
  BY <1>3 DEF Numbers, Timeouts
<1>5. silence' \in Nat
  BY <1>3 DEF Lower
<1>6. CASE h /\ Heartbeat
  <2>1. counter' = 0 /\ ecu_alive' = ecu_alive /\ silence' = 0
    BY <1>6 DEF Heartbeat
  <2>2. CounterIsSilence'
    BY <1>3, <2>1 DEF CounterIsSilence
  <2> QED
    BY <1>2, <1>3, <2>1, <2>2 DEF MonitorInv, Observed
<1>7. CASE ~h /\ Count
  <2>1. counter' = counter + 1 /\ ecu_alive' = ecu_alive /\ counter < active_timeout
    BY <1>7 DEF Count
  <2>2. ecu_alive => silence' = silence + 1 /\ silence + 1 <= MaxTimeout
    BY <1>3, <1>4, <1>7, <2>1 DEF Lower
  <2>3. CounterIsSilence'
    BY <1>3, <1>5, <2>1, <2>2 DEF CounterIsSilence
  <2> QED
    BY <1>2, <1>3, <2>1, <2>3 DEF MonitorInv, Observed
<1>8. CASE ~h /\ Expire
  <2>1. counter >= active_timeout /\ ecu_alive' = FALSE
    BY <1>8 DEF Expire
  <2>2. silence' > 0
    BY <1>3, <1>8 DEF Lower
  <2>3. CounterIsSilence'
    BY <1>5, <2>1 DEF CounterIsSilence
  <2> QED
    BY <1>2, <1>3, <2>1, <2>2, <2>3 DEF MonitorInv, Observed
<1> QED
  BY <1>1, <1>6, <1>7, <1>8 DEF WatchdogClock

LEMMA MonitorStep == MonitorInv /\ MonitorNext => MonitorInv' /\ Observed
<1> SUFFICES ASSUME MonitorInv, MonitorNext PROVE MonitorInv' /\ Observed
  OBVIOUS
<1>1. CASE MonitorReset
  <2>1. WatchdogInv'
    BY <1>1, WatchdogRestart DEF MonitorReset, TauReset
  <2>2. /\ silence' = 0 /\ counter' = 0 /\ ecu_alive' = TRUE /\ timeout_event' = FALSE
        /\ timeout_count' = 0
    BY <1>1 DEF MonitorReset, TauReset, WatchdogReset
  <2>3. CounterIsSilence'
    BY <2>2, TimeoutAssumption DEF CounterIsSilence
  <2> QED
    BY <2>1, <2>2, <2>3 DEF MonitorInv, CounterIsSilence, Observed
<1>2. CASE Beat
  BY <1>2, MonitorReads DEF Beat
<1>3. CASE Silent
  BY <1>3, MonitorReads DEF Silent
<1> QED
  BY <1>1, <1>2, <1>3 DEF MonitorNext

(***************************************************************************)
(* The degraded state is entered exactly by a silence that has reached the *)
(* active threshold, and left only by reset (pqc_tau_watchdog.sv:59-64),   *)
(* whatever thresholds are configured in the middle of a silence.          *)
(***************************************************************************)
THEOREM DegradedBySilence == MonitorSpec => DegradedOnlyBySilence
<1>1. MonitorInv /\ [MonitorNext]_vars => MonitorInv'
  <2>1. CASE UNCHANGED vars
    BY <2>1 DEF MonitorInv, WatchdogInv, WatchdogTypeOK, CounterIsSilence, vars, tauVars, watchdogVars
  <2> QED
    BY <2>1, MonitorStep
<1>2. MonitorInv /\ [MonitorNext]_vars => [Observed]_vars
  BY MonitorStep
<1>3. [Observed]_vars =>
        [/\ ecu_alive => counter = silence /\ silence <= MaxTimeout
         /\ ecu_alive /\ ~ecu_alive' => silence >= active_timeout /\ silence' > 0
         /\ timeout_event' <=> ecu_alive /\ ~ecu_alive'
         /\ ~ecu_alive /\ ecu_alive' => counter' = 0 /\ timeout_count' = 0]_vars
  BY DEF Observed
<1> QED
  BY <1>1, <1>2, <1>3, MonitorStart, PTL DEF MonitorSpec, DegradedOnlyBySilence

\* The observer only reads: what is proved of the core holds with it.
THEOREM MonitorOnlyReads == MonitorSpec => TauSpec
<1>1. MonitorInit => TauInit
  BY DEF MonitorInit
<1>2. [MonitorNext]_vars => [TauNext]_tauVars
  BY DEF MonitorNext, MonitorReset, Beat, Silent, TauNext, vars
<1> QED
  BY <1>1, <1>2, PTL DEF MonitorSpec, TauSpec

-----------------------------------------------------------------------------
(* The operations and their priority.                                      *)

LEMMA OpsAre == Ops = {"keygen", "decaps", "encaps"}
BY DEF Ops, Priority

LEMMA BeforeIs ==
  \A p, q : Before(p, q) <=> \/ p = "keygen" /\ q = "decaps"
                             \/ p = "keygen" /\ q = "encaps"
                             \/ p = "decaps" /\ q = "encaps"
<1> SUFFICES ASSUME NEW p, NEW q
             PROVE  Before(p, q) <=> \/ p = "keygen" /\ q = "decaps"
                                     \/ p = "keygen" /\ q = "encaps"
                                     \/ p = "decaps" /\ q = "encaps"
  OBVIOUS
<1>1. Priority[1] = "keygen" /\ Priority[2] = "decaps" /\ Priority[3] = "encaps"
  BY DEF Priority
<1> HIDE DEF Priority
<1> QED
  BY <1>1 DEF Before

LEMMA BeforeTotal ==
  \A p, q \in Ops : /\ p # q => Before(p, q) \/ Before(q, p)
                    /\ ~(Before(p, q) /\ Before(q, p))
                    /\ ~Before(p, p)
BY OpsAre, BeforeIs

\* The arbiter's choice: of the requests that are up, the one none is before.
LEMMA FirstIs ==
  ASSUME NEW S \in SUBSET Ops, S # {}
  PROVE  First(S) \in S /\ \A p \in S : ~Before(p, First(S))
<1>1. \E op \in S : \A p \in S : ~Before(p, op)
  <2>1. CASE "keygen" \in S
    BY <2>1, BeforeIs
  <2>2. CASE "keygen" \notin S /\ "decaps" \in S
    BY <2>2, BeforeIs
  <2>3. CASE "keygen" \notin S /\ "decaps" \notin S
    BY <2>3, OpsAre, BeforeIs
  <2> QED
    BY <2>1, <2>2, <2>3
<1> QED
  BY <1>1 DEF First

LEMMA EventsAre ==
  /\ None \notin Events
  /\ \A op \in Ops, k \in Kinds : <<op, k>> \in Events
  /\ \A e \in Events : /\ e[1] \in Ops /\ e[2] \in Kinds /\ e = <<e[1], e[2]>>
<1>1. ASSUME None \in Events PROVE FALSE
  <2>1. DOMAIN None = 1 .. 1
    BY DEF None
  <2>2. \A e \in Events : DOMAIN e = 1 .. 2
    BY DEF Events
  <2>3. 2 \in 1 .. 2 /\ 2 \notin 1 .. 1
    OBVIOUS
  <2> QED
    BY <1>1, <2>1, <2>2, <2>3
<1> QED
  BY <1>1 DEF Events

\* The watchdog's inputs as the bus register gives them.
LEMMA BusConfig ==
  ASSUME bus \in BusWrites, bus[1] = "CONFIG"
  PROVE  bus[2] \in Timeouts
<1>1. bus # None /\ bus # <<"HEARTBEAT">> /\ \A op \in Ops : bus # Start(op)
  BY DEF None, Start
<1> QED
  BY <1>1, EcuAssumption DEF BusWrites

-----------------------------------------------------------------------------
(* Counting entries.                                                       *)

Positions(s, E) == {n \in 1 .. Len(s) : s[n] \in E}

LEMMA PositionsFinite ==
  ASSUME NEW s \in Seq(Events), NEW E
  PROVE  IsFiniteSet(Positions(s, E)) /\ Cardinality(Positions(s, E)) \in Nat
<1>1. IsFiniteSet(1 .. Len(s)) /\ Positions(s, E) \in SUBSET (1 .. Len(s))
  BY FS_Interval DEF Positions
<1> QED
  BY <1>1, FS_Subset, FS_CardinalityType

LEMMA AppendCounts ==
  ASSUME NEW s \in Seq(Events), NEW x \in Events, NEW E
  PROVE  Cardinality(Positions(Append(s, x), E)) =
           Cardinality(Positions(s, E)) + (IF x \in E THEN 1 ELSE 0)
<1>1. /\ Len(s) \in Nat /\ Len(Append(s, x)) = Len(s) + 1
      /\ \A n \in 1 .. Len(s) : Append(s, x)[n] = s[n]
      /\ Append(s, x)[Len(s) + 1] = x
  OBVIOUS
<1>2. 1 .. Len(s) + 1 = (1 .. Len(s)) \cup {Len(s) + 1} /\ Len(s) + 1 \notin Positions(s, E)
  BY <1>1 DEF Positions
<1>3. Positions(Append(s, x), E) = Positions(s, E) \cup (IF x \in E THEN {Len(s) + 1} ELSE {})
  BY <1>1, <1>2 DEF Positions
<1>4. CASE x \in E
  BY <1>2, <1>3, <1>4, PositionsFinite, FS_AddElement
<1>5. CASE x \notin E
  <2>1. Positions(Append(s, x), E) = Positions(s, E)
    BY <1>3, <1>5
  <2> QED
    BY <1>5, <2>1, PositionsFinite
<1> QED
  BY <1>4, <1>5

\* Logged, or being logged
InLog(e) == Logged(e) + (IF inflight = e THEN 1 ELSE 0)

LEMMA LoggedIs == \A e : Logged(e) = Cardinality(Positions(entries, {e}))
<1> SUFFICES ASSUME NEW e PROVE Logged(e) = Cardinality(Positions(entries, {e}))
  OBVIOUS
<1>1. {n \in 1 .. Len(entries) : entries[n] = e} = Positions(entries, {e})
  BY DEF Positions
<1> QED
  BY <1>1 DEF Logged

-----------------------------------------------------------------------------
(* An edge of the log.                                                     *)

Waited == UNCHANGED <<entries, inflight>> /\ (LogIdle => ~LogWanted)

TookInterrupt(op) ==
  /\ LogIdle /\ interrupt[op]
  /\ \A p \in Ops : interrupt[p] /\ p # op => Before(op, p)
  /\ inflight' = <<op, "INTERRUPTED">> /\ entries' = entries

TookEvent(op) ==
  /\ LogIdle /\ NoInterrupt /\ event[op] # "none" /\ EventTaken(op)
  /\ inflight' = <<op, event[op]>> /\ entries' = entries

Recorded ==
  /\ inflight # None /\ inflight' = None
  /\ entries' = Append(entries, inflight)

LEMMA AuditEdge ==
  ASSUME Audit
  PROVE  \/ Waited
         \/ \E op \in Ops : TookInterrupt(op)
         \/ \E op \in Ops : TookEvent(op)
         \/ Recorded
<1>1. CASE AuditTakes
  <2>1. LogIdle /\ LogWanted /\ inflight' = Decision /\ entries' = entries
    BY <1>1 DEF AuditTakes, Log!Take
  <2>2. CASE Interrupted # {}
    <3> DEFINE op == First(Interrupted)
    <3>1. op \in Interrupted /\ \A p \in Interrupted : ~Before(p, op)
      BY <2>2, FirstIs DEF Interrupted
    <3>2. op \in Ops /\ interrupt[op]
      BY <3>1 DEF Interrupted
    <3>3. \A p \in Ops : interrupt[p] /\ p # op => Before(op, p)
      BY <3>1, <3>2, BeforeTotal DEF Interrupted
    <3>4. Decision = <<op, "INTERRUPTED">>
      BY <2>2 DEF Decision
    <3> HIDE DEF op
    <3>5. TookInterrupt(op)
      BY <2>1, <3>2, <3>3, <3>4 DEF TookInterrupt
    <3> QED
      BY <3>2, <3>5
  <2>3. CASE Interrupted = {}
    <3> DEFINE op == First(Waiting)
    <3>1. Waiting # {} /\ NoInterrupt
      BY <2>1, <2>3 DEF LogWanted, Interrupted, NoInterrupt
    <3>2. op \in Waiting /\ \A p \in Waiting : ~Before(p, op)
      BY <3>1, FirstIs DEF Waiting
    <3>3. op \in Ops /\ event[op] # "none" /\ \A p \in Above(op) : event[p] = "none"
      BY <3>2 DEF Waiting, Above
    <3>4. Decision = <<op, event[op]>>
      BY <2>3 DEF Decision
    <3> HIDE DEF op
    <3>5. TookEvent(op)
      BY <2>1, <3>1, <3>3, <3>4 DEF TookEvent, EventTaken
    <3> QED
      BY <3>3, <3>5
  <2> QED
    BY <2>2, <2>3
<1>2. CASE AuditWaits
  BY <1>2 DEF AuditWaits, Waited
<1>3. CASE Log!Record
  BY <1>3 DEF Log!Record, Recorded
<1> QED
  BY <1>1, <1>2, <1>3 DEF Audit

-----------------------------------------------------------------------------
(* Types and the watchdog.                                                 *)

LEMMA TypeStep ==
  ASSUME IntTypeOK, WatchdogInv, NEW write \in BusWrites, NEW finishing \in SUBSET Ops,
         IntClock(write, finishing)
  PROVE  /\ IntTypeOK' /\ WatchdogInv'
         /\ timeout_event' <=> ecu_alive /\ ~ecu_alive'
         /\ ~ecu_alive => ~ecu_alive'
<1>1. /\ WatchdogInv'
      /\ timeout_event' <=> ecu_alive /\ ~ecu_alive'
      /\ ~ecu_alive => ~ecu_alive'
  <2> DEFINE h == bus = <<"HEARTBEAT">>
             c == bus[1] = "CONFIG"
             t == IF bus[1] = "CONFIG" THEN bus[2] ELSE active_timeout
  <2>1. WatchdogClock(h, c, t)
    BY DEF IntClock
  <2>2. h \in BOOLEAN /\ c \in BOOLEAN
    OBVIOUS
  <2>3. t \in Timeouts
    BY BusConfig DEF IntTypeOK, WatchdogTypeOK
  <2> HIDE DEF h, c, t
  <2> QED
    BY <2>1, <2>2, <2>3, WatchdogStep
<1>2. entries' \in Seq(Events) /\ inflight' \in Events \cup {None}
  <2>1. \A op \in Ops : <<op, "INTERRUPTED">> \in Events
    BY EventsAre DEF Kinds
  <2>2. \A op \in Ops : event[op] # "none" => <<op, event[op]>> \in Events
    BY EventsAre DEF IntTypeOK, Kinds
  <2>3. CASE Waited
    BY <2>3 DEF Waited, IntTypeOK
  <2>4. ASSUME NEW op \in Ops, TookInterrupt(op) \/ TookEvent(op)
        PROVE  entries' \in Seq(Events) /\ inflight' \in Events \cup {None}
    BY <2>1, <2>2, <2>4 DEF TookInterrupt, TookEvent, IntTypeOK
  <2>5. CASE Recorded
    BY <2>5 DEF Recorded, IntTypeOK
  <2> QED
    BY <2>3, <2>4, <2>5, AuditEdge DEF IntClock
<1>3. bus' \in BusWrites /\ core' \in [Ops -> {"IDLE", "RUN"}]
  BY DEF IntClock, Cores, CoreOf
<1>4. done' \in [Ops -> BOOLEAN] /\ busy' \in [Ops -> BOOLEAN]
  BY DEF IntClock, Cores, Busy
<1>5. done_sticky' \in [Ops -> BOOLEAN] /\ interrupt' \in [Ops -> BOOLEAN]
  BY DEF IntClock, Sticky, Interrupt
<1>6. event' \in [Ops -> {"none", "STARTED", "COMPLETED"}]
  <2>1. event' = [op \in Ops |-> CASE bus = Start(op) -> "STARTED"
                                   [] bus # Start(op) /\ done[op] -> "COMPLETED"
                                   [] OTHER -> IF EventTaken(op) THEN "none" ELSE event[op]]
    BY DEF IntClock, Event
  <2>2. \A op \in Ops : event[op] \in {"none", "STARTED", "COMPLETED"}
    BY DEF IntTypeOK
  <2> QED
    BY <2>1, <2>2
<1>7. happened' \in [Events -> Nat]
  BY DEF IntClock, Happens, IntTypeOK
<1>8. ignored' \in [Ops -> BOOLEAN]
  BY DEF IntClock, Ignores, IntTypeOK
<1>9. entriesAtTimeout' \in Nat
  BY <1>2 DEF IntClock, IntTypeOK
<1>10. WatchdogTypeOK'
  BY <1>1 DEF WatchdogInv
<1> QED
  BY <1>1, <1>2, <1>3, <1>4, <1>5, <1>6, <1>7, <1>8, <1>9, <1>10 DEF IntTypeOK

-----------------------------------------------------------------------------
(***************************************************************************)
(* Counting events.  The log gains an event only by taking it; the request *)
(* that was taken is lowered on the same edge, and the other requests,     *)
(* which also see the log idle, are not.                                   *)
(***************************************************************************)
LEMMA InLogType ==
  ASSUME IntTypeOK, NEW e \in Events
  PROVE  Logged(e) \in Nat /\ InLog(e) \in Nat
<1>1. Cardinality(Positions(entries, {e})) \in Nat
  BY PositionsFinite DEF IntTypeOK
<1> QED
  BY <1>1, LoggedIs DEF InLog

LEMMA InLogStep ==
  ASSUME IntTypeOK, NEW e \in Events, Audit
  PROVE  InLog(e)' = InLog(e) + (IF LogIdle /\ inflight' = e THEN 1 ELSE 0)
<1>1. entries \in Seq(Events) /\ None \notin Events /\ inflight \in Events \cup {None}
  BY EventsAre DEF IntTypeOK
<1>2. Logged(e)' = Cardinality(Positions(entries', {e}))
  <2>1. {n \in 1 .. Len(entries') : entries'[n] = e} = Positions(entries', {e})
    BY DEF Positions
  <2> QED
    BY <2>1 DEF Logged
<1>3. Logged(e) = Cardinality(Positions(entries, {e})) /\ Logged(e) \in Nat
  BY LoggedIs, InLogType
<1>4. CASE entries' = entries
  <2>1. Logged(e)' = Logged(e)
    BY <1>2, <1>3, <1>4
  <2>2. CASE inflight' = inflight
    BY <1>1, <1>3, <2>1, <2>2 DEF InLog, LogIdle
  <2>3. CASE LogIdle
    BY <1>1, <1>3, <2>1, <2>3 DEF InLog, LogIdle
  <2> QED
    BY <1>4, <2>2, <2>3, AuditEdge DEF Waited, TookInterrupt, TookEvent, Recorded
<1>5. CASE Recorded
  <2>1. inflight \in Events /\ entries' = Append(entries, inflight) /\ inflight' = None /\ ~LogIdle
    BY <1>1, <1>5 DEF Recorded, LogIdle
  <2>2. Logged(e)' = Logged(e) + (IF inflight = e THEN 1 ELSE 0)
    BY <1>1, <1>2, <1>3, <2>1, AppendCounts
  <2> QED
    BY <1>1, <1>3, <2>1, <2>2 DEF InLog
<1> QED
  BY <1>4, <1>5, AuditEdge DEF Waited, TookInterrupt, TookEvent

\* An interrupt that is up stays up or is taken.
LEMMA InterruptStep ==
  ASSUME IntTypeOK, NEW op \in Ops, Audit, Interrupt
  PROVE  /\ interrupt'[op] <=> \/ Interrupts(op)
                               \/ interrupt[op] /\ ~(LogIdle /\ inflight' = <<op, "INTERRUPTED">>)
         /\ LogIdle /\ inflight' = <<op, "INTERRUPTED">> => interrupt[op]
<1>1. interrupt'[op] <=> Interrupts(op) \/ (interrupt[op] /\ ~InterruptTaken(op))
  BY DEF Interrupt, IntTypeOK
<1>2. \A p \in Ops : event[p] \in {"none", "STARTED", "COMPLETED"} /\ interrupt[p] \in BOOLEAN
  BY DEF IntTypeOK
<1>3. CASE Waited
  <2>1. LogIdle => ~interrupt[op] /\ inflight' # <<op, "INTERRUPTED">>
    <3> SUFFICES ASSUME LogIdle PROVE ~interrupt[op] /\ inflight' # <<op, "INTERRUPTED">>
      OBVIOUS
    <3>1. inflight' = None
      BY <1>3 DEF Waited, LogIdle
    <3>2. <<op, "INTERRUPTED">> \in Events
      BY EventsAre DEF Kinds
    <3> QED
      BY <1>3, <3>1, <3>2, EventsAre DEF Waited, LogWanted, Interrupted
  <2> QED
    BY <1>1, <2>1 DEF InterruptTaken
<1>4. ASSUME NEW p \in Ops, TookInterrupt(p)
      PROVE  /\ interrupt[op] => (InterruptTaken(op) <=> op = p)
             /\ LogIdle /\ (inflight' = <<op, "INTERRUPTED">> <=> op = p) /\ interrupt[p]
  <2>1. LogIdle /\ interrupt[p] /\ inflight' = <<p, "INTERRUPTED">>
        /\ \A q \in Ops : interrupt[q] /\ q # p => Before(p, q)
    BY <1>4 DEF TookInterrupt
  <2>2. ASSUME interrupt[op] PROVE InterruptTaken(op) <=> op = p
    <3>1. CASE op = p
      <4>1. ASSUME NEW q \in Above(op) PROVE ~interrupt[q]
        <5>1. q \in Ops /\ Before(q, op) /\ q # op
          BY BeforeTotal DEF Above
        <5> QED
          BY <2>1, <3>1, <5>1, BeforeTotal
      <4> QED
        BY <2>1, <3>1, <4>1 DEF InterruptTaken
    <3>2. CASE op # p
      <4>1. p \in Above(op)
        BY <2>1, <2>2, <3>2 DEF Above
      <4> QED
        BY <2>1, <3>2, <4>1 DEF InterruptTaken
    <3> QED
      BY <3>1, <3>2
  <2>3. inflight' = <<op, "INTERRUPTED">> <=> op = p
    BY <2>1
  <2> QED
    BY <2>1, <2>2, <2>3
<1>5. ASSUME NEW p \in Ops, TookEvent(p) PROVE ~interrupt[op] /\ inflight' # <<op, "INTERRUPTED">>
  <2>1. event[p] # "INTERRUPTED" /\ ~interrupt[op] /\ inflight' = <<p, event[p]>>
    BY <1>2, <1>5 DEF TookEvent, NoInterrupt
  <2> QED
    BY <2>1
<1>6. CASE Recorded
  BY <1>1, <1>6 DEF Recorded, LogIdle, InterruptTaken
<1> QED
  BY <1>1, <1>3, <1>4, <1>5, <1>6, AuditEdge

\* A STARTED or COMPLETED that is up has just happened, or was up and was not taken.
LEMMA EventStep ==
  ASSUME IntTypeOK, NEW op \in Ops, NEW k \in {"STARTED", "COMPLETED"}, Audit, Event
  PROVE  /\ event'[op] = k => \/ k = "STARTED" /\ bus = Start(op)
                              \/ k = "COMPLETED" /\ done[op]
                              \/ event[op] = k /\ ~(LogIdle /\ inflight' = <<op, k>>)
         /\ LogIdle /\ inflight' = <<op, k>> => event[op] = k
<1>1. event'[op] = CASE bus = Start(op) -> "STARTED"
                     [] bus # Start(op) /\ done[op] -> "COMPLETED"
                     [] OTHER -> IF EventTaken(op) THEN "none" ELSE event[op]
  BY DEF Event
<1>2. LogIdle /\ inflight' = <<op, k>> => EventTaken(op) /\ event[op] = k
  <2> SUFFICES ASSUME LogIdle, inflight' = <<op, k>> PROVE EventTaken(op) /\ event[op] = k
    OBVIOUS
  <2>1. inflight' # None
    BY EventsAre DEF Kinds
  <2>2. ~Waited /\ ~Recorded
    BY <2>1 DEF Waited, Recorded, LogIdle
  <2>3. ASSUME NEW p \in Ops, TookInterrupt(p) PROVE FALSE
    BY <2>3 DEF TookInterrupt
  <2>4. PICK p \in Ops : TookEvent(p)
    BY <2>2, <2>3, AuditEdge
  <2>5. <<op, k>> = <<p, event[p]>>
    BY <2>4 DEF TookEvent
  <2> QED
    BY <2>4, <2>5 DEF TookEvent
<1> QED
  BY <1>1, <1>2

\* Before a timeout, and on the edge that reports it, no interrupt has happened.
NoneYet == ecu_alive \/ timeout_event => \A op \in Ops : happened[<<op, "INTERRUPTED">>] = 0

CountInv ==
  /\ IntTypeOK
  /\ WatchdogInv
  /\ NoneYet
  /\ \A op \in Ops :
       LET e == <<op, "INTERRUPTED">> IN Known(e) = happened[e] /\ happened[e] <= 1
  /\ NothingInvented

LEMMA CountStep ==
  ASSUME CountInv, NEW write \in BusWrites, NEW finishing \in SUBSET Ops,
         IntClock(write, finishing)
  PROVE  CountInv'
<1>1. Audit /\ Interrupt /\ Event /\ Happens
  BY DEF IntClock
<1>2. /\ IntTypeOK /\ IntTypeOK' /\ WatchdogInv'
      /\ timeout_event' <=> ecu_alive /\ ~ecu_alive'
      /\ ~ecu_alive => ~ecu_alive'
  BY TypeStep DEF CountInv
<1>3. \A e \in Events : InLog(e) \in Nat /\ happened[e] \in Nat
  BY <1>2, InLogType DEF IntTypeOK
<1>4. ASSUME NEW op \in Ops
      PROVE  LET e == <<op, "INTERRUPTED">> IN
               /\ happened'[e] = happened[e] + (IF Interrupts(op) THEN 1 ELSE 0)
               /\ Known(e)' = Known(e) + (IF Interrupts(op) THEN 1 ELSE 0)
               /\ Known(e)' = happened'[e] /\ happened'[e] <= 1
  <2> DEFINE e == <<op, "INTERRUPTED">>
  <2>1. e \in Events /\ e[1] = op /\ e[2] = "INTERRUPTED"
    BY EventsAre DEF Kinds
  <2>2. happened'[e] = happened[e] + (IF Interrupts(op) THEN 1 ELSE 0)
    BY <1>1, <2>1 DEF Happens
  <2>3. Known(e) = InLog(e) + (IF interrupt[op] THEN 1 ELSE 0)
    BY <2>1 DEF Known, InLog, Waits
  <2>4. Known(e)' = InLog(e)' + (IF interrupt'[op] THEN 1 ELSE 0)
    BY <2>1 DEF Known, InLog, Waits
  <2>5. InLog(e)' = InLog(e) + (IF LogIdle /\ inflight' = e THEN 1 ELSE 0)
    BY <1>1, <1>2, <2>1, InLogStep
  <2>6. Known(e) = happened[e] /\ happened[e] <= 1 /\ happened[e] \in Nat /\ InLog(e) \in Nat
    BY <1>3, <2>1 DEF CountInv
  <2>7. /\ interrupt'[op] <=> \/ Interrupts(op)
                              \/ interrupt[op] /\ ~(LogIdle /\ inflight' = e)
        /\ LogIdle /\ inflight' = e => interrupt[op]
    BY <1>1, <1>2, InterruptStep
  <2>8. Interrupts(op) => happened[e] = 0
    BY DEF Interrupts, CountInv, NoneYet
  <2> HIDE DEF e
  <2>9. CASE Interrupts(op)
    <3>1. ~interrupt[op] /\ InLog(e) = 0
      BY <2>3, <2>6, <2>8, <2>9
    <3> QED
      BY <2>2, <2>3, <2>4, <2>5, <2>6, <2>7, <2>8, <2>9, <3>1 DEF e
  <2>10. CASE ~Interrupts(op)
    BY <2>2, <2>3, <2>4, <2>5, <2>6, <2>7, <2>10 DEF e
  <2> QED
    BY <2>9, <2>10
<1>5. NoneYet'
  <2> SUFFICES ASSUME ecu_alive' \/ timeout_event', NEW op \in Ops
               PROVE  happened'[<<op, "INTERRUPTED">>] = 0
    BY DEF NoneYet
  <2>1. ecu_alive /\ ~timeout_event
    BY <1>2 DEF CountInv, WatchdogInv
  <2>2. happened[<<op, "INTERRUPTED">>] = 0
    BY <2>1 DEF CountInv, NoneYet
  <2> QED
    BY <1>4, <2>1, <2>2 DEF Interrupts
<1>6. NothingInvented'
  <2> SUFFICES ASSUME NEW e \in Events PROVE Known(e)' <= happened'[e]
    BY DEF NothingInvented
  <2> DEFINE op == e[1]
             k == e[2]
  <2>1. op \in Ops /\ k \in Kinds /\ e = <<op, k>>
    BY EventsAre
  <2>2. CASE k = "INTERRUPTED"
    BY <1>2, <1>3, <1>4, <2>1, <2>2 DEF IntTypeOK
  <2>3. CASE k \in {"STARTED", "COMPLETED"}
    <3>1. Known(e) = InLog(e) + (IF event[op] = k THEN 1 ELSE 0)
      BY <2>3 DEF Known, InLog, Waits
    <3>2. Known(e)' = InLog(e)' + (IF event'[op] = k THEN 1 ELSE 0)
      BY <2>3 DEF Known, InLog, Waits
    <3>3. InLog(e)' = InLog(e) + (IF LogIdle /\ inflight' = e THEN 1 ELSE 0)
      BY <1>1, <1>2, InLogStep
    <3>4. /\ event'[op] = k => \/ k = "STARTED" /\ bus = Start(op)
                               \/ k = "COMPLETED" /\ done[op]
                               \/ event[op] = k /\ ~(LogIdle /\ inflight' = e)
          /\ LogIdle /\ inflight' = e => event[op] = k
      BY <1>1, <1>2, <2>1, <2>3, EventStep
    <3>5. happened'[e] = happened[e] + (IF \/ k = "STARTED" /\ bus = Start(op)
                                           \/ k = "COMPLETED" /\ done[op] THEN 1 ELSE 0)
      BY <1>1, <2>3 DEF Happens
    <3>6. Known(e) <= happened[e] /\ happened[e] \in Nat /\ InLog(e) \in Nat
      BY <1>3 DEF CountInv, NothingInvented
    <3> HIDE DEF op, k
    <3> QED
      BY <3>1, <3>2, <3>3, <3>4, <3>5, <3>6
  <2> QED
    BY <2>1, <2>2, <2>3 DEF Kinds
<1> QED
  BY <1>2, <1>4, <1>5, <1>6 DEF CountInv

LEMMA CountInit == IntInit => CountInv
<1> SUFFICES ASSUME IntInit PROVE CountInv
  OBVIOUS
<1>1. WatchdogInv
  BY WatchdogStart DEF IntInit
<1>2. IntTypeOK
  BY <1>1, EventsAre DEF IntInit, IntTypeOK, WatchdogInv, BusWrites, Log!Init
<1>3. \A e \in Events : Known(e) = 0 /\ happened[e] = 0
  <2> SUFFICES ASSUME NEW e \in Events PROVE Known(e) = 0 /\ happened[e] = 0
    OBVIOUS
  <2>1. entries = << >> /\ inflight # e
    BY EventsAre DEF IntInit, Log!Init
  <2>2. Logged(e) = 0
    <3>1. {n \in 1 .. Len(entries) : entries[n] = e} = {}
      BY <2>1
    <3> QED
      BY <3>1, FS_EmptySet DEF Logged
  <2>3. ~Waits(e) /\ happened[e] = 0
    BY EventsAre DEF IntInit, Waits, Kinds
  <2> QED
    BY <2>1, <2>2, <2>3 DEF Known
<1>4. \A op \in Ops : <<op, "INTERRUPTED">> \in Events
  BY EventsAre DEF Kinds
<1> QED
  BY <1>1, <1>2, <1>3, <1>4 DEF CountInv, NoneYet, NothingInvented

LEMMA CountReset == IntReset => CountInv'
<1> SUFFICES ASSUME IntReset PROVE CountInv'
  OBVIOUS
<1>1. WatchdogInv'
  BY WatchdogRestart DEF IntReset
<1>2. IntTypeOK'
  BY <1>1, EventsAre DEF IntReset, IntTypeOK, WatchdogInv, BusWrites, Log!Reset
<1>3. \A e \in Events : Known(e)' = 0 /\ happened'[e] = 0
  <2> SUFFICES ASSUME NEW e \in Events PROVE Known(e)' = 0 /\ happened'[e] = 0
    OBVIOUS
  <2>1. entries' = << >> /\ inflight' # e
    BY EventsAre DEF IntReset, Log!Reset
  <2>2. Logged(e)' = 0
    <3>1. {n \in 1 .. Len(entries') : entries'[n] = e} = {}
      BY <2>1
    <3> QED
      BY <3>1, FS_EmptySet DEF Logged
  <2>3. ~Waits(e)' /\ happened'[e] = 0
    BY EventsAre DEF IntReset, Waits, Kinds
  <2> QED
    BY <2>1, <2>2, <2>3 DEF Known
<1>4. \A op \in Ops : <<op, "INTERRUPTED">> \in Events
  BY EventsAre DEF Kinds
<1> QED
  BY <1>1, <1>2, <1>3, <1>4 DEF CountInv, NoneYet, NothingInvented

-----------------------------------------------------------------------------
(***************************************************************************)
(* The order of the interrupts.  TakenEntries is the log with the entry    *)
(* being recorded at its end: it grows when the arbiter takes a request,   *)
(* and recording leaves it as it is.                                       *)
(***************************************************************************)
TakenEntries == IF inflight = None THEN entries ELSE Append(entries, inflight)

Interruptions == {e \in Events : e[2] = "INTERRUPTED"}

LEMMA TakenType == IntTypeOK => TakenEntries \in Seq(Events)
BY DEF IntTypeOK, TakenEntries

LEMMA TakenStep ==
  ASSUME IntTypeOK, Audit
  PROVE  \/ TakenEntries' = TakenEntries
         \/ \E op \in Ops : TookInterrupt(op) /\ TakenEntries' = Append(TakenEntries, <<op, "INTERRUPTED">>)
         \/ \E op \in Ops : TookEvent(op) /\ TakenEntries' = Append(TakenEntries, <<op, event[op]>>)
<1>1. None \notin Events
  BY EventsAre
<1>2. CASE Waited
  BY <1>2 DEF Waited, TakenEntries
<1>3. ASSUME NEW op \in Ops, TookInterrupt(op)
      PROVE  TakenEntries' = Append(TakenEntries, <<op, "INTERRUPTED">>)
  <2>1. <<op, "INTERRUPTED">> \in Events
    BY EventsAre DEF Kinds
  <2> QED
    BY <1>1, <1>3, <2>1 DEF TookInterrupt, LogIdle, TakenEntries
<1>4. ASSUME NEW op \in Ops, TookEvent(op)
      PROVE  TakenEntries' = Append(TakenEntries, <<op, event[op]>>)
  <2>1. <<op, event[op]>> \in Events
    BY <1>4, EventsAre DEF TookEvent, IntTypeOK, Kinds
  <2> QED
    BY <1>1, <1>4, <2>1 DEF TookEvent, LogIdle, TakenEntries
<1>5. CASE Recorded
  BY <1>5 DEF Recorded, TakenEntries
<1> QED
  BY <1>2, <1>3, <1>4, <1>5, AuditEdge

\* Up to the edge that reports the timeout there is no interrupt anywhere.
LEMMA NoneBefore ==
  ASSUME CountInv, ecu_alive \/ timeout_event
  PROVE  NoInterrupt /\ Positions(TakenEntries, Interruptions) = {}
<1>1. \A op \in Ops : Known(<<op, "INTERRUPTED">>) = 0
  BY DEF CountInv, NoneYet
<1>2. ASSUME NEW op \in Ops
      PROVE  /\ ~interrupt[op] /\ inflight # <<op, "INTERRUPTED">>
             /\ \A n \in 1 .. Len(entries) : entries[n] # <<op, "INTERRUPTED">>
  <2> DEFINE e == <<op, "INTERRUPTED">>
  <2>1. e \in Events /\ e[2] = "INTERRUPTED" /\ e[1] = op
    BY EventsAre DEF Kinds
  <2>2. Logged(e) \in Nat /\ Known(e) = 0
    BY <1>1, <2>1, InLogType DEF CountInv
  <2> HIDE DEF e
  <2>3. Logged(e) = 0 /\ inflight # e /\ ~interrupt[op]
    BY <2>1, <2>2 DEF Known, Waits
  <2>4. Positions(entries, {e}) = {}
    BY <2>3, LoggedIs, PositionsFinite, FS_EmptySet DEF CountInv, IntTypeOK
  <2> QED
    BY <2>3, <2>4 DEF Positions, e
<1>3. \A n \in 1 .. Len(TakenEntries) : TakenEntries[n] \notin Interruptions
  <2> SUFFICES ASSUME NEW n \in 1 .. Len(TakenEntries), TakenEntries[n] \in Interruptions PROVE FALSE
    OBVIOUS
  <2>1. entries \in Seq(Events)
    BY DEF CountInv, IntTypeOK
  <2>2. TakenEntries[n] = inflight \/ (n \in 1 .. Len(entries) /\ TakenEntries[n] = entries[n])
    BY <2>1 DEF TakenEntries
  <2>3. \E op \in Ops : TakenEntries[n] = <<op, "INTERRUPTED">>
    BY EventsAre DEF Interruptions
  <2> QED
    BY <1>2, <2>2, <2>3
<1> QED
  BY <1>2, <1>3 DEF NoInterrupt, Positions

OrderInv ==
  /\ \A m, n \in Positions(TakenEntries, Interruptions) : m < n => Before(TakenEntries[m][1], TakenEntries[n][1])
  /\ \A m \in Positions(TakenEntries, Interruptions), op \in Ops :
       interrupt[op] => Before(TakenEntries[m][1], op)
  /\ timeout_event => Len(entries) = entriesAtTimeout
  /\ ~NoInterrupt =>
       Len(TakenEntries) <= entriesAtTimeout + 1 + Cardinality(Positions(TakenEntries, Interruptions))

LEMMA OrderStep ==
  ASSUME CountInv, OrderInv, NEW write \in BusWrites, NEW finishing \in SUBSET Ops,
         IntClock(write, finishing)
  PROVE  OrderInv'
<1> DEFINE P == Positions(TakenEntries, Interruptions)
<1>1. Audit /\ Interrupt /\ IntTypeOK
  BY DEF IntClock, CountInv
<1>2. /\ timeout_event' <=> ecu_alive /\ ~ecu_alive'
      /\ IntTypeOK'
      /\ timeout_event => ~ecu_alive
  BY TypeStep DEF CountInv, WatchdogInv
<1>3. entriesAtTimeout' = IF timeout_event' THEN Len(entries') ELSE entriesAtTimeout
  BY DEF IntClock
<1>4. TakenEntries \in Seq(Events) /\ Len(TakenEntries) \in Nat /\ Cardinality(P) \in Nat
  BY <1>1, TakenType, PositionsFinite
<1>5. \A op \in Ops : interrupt'[op] =>
        \/ Interrupts(op)
        \/ interrupt[op] /\ ~(LogIdle /\ inflight' = <<op, "INTERRUPTED">>)
  BY <1>1, InterruptStep
<1>6. timeout_event \/ ecu_alive => NoInterrupt /\ P = {}
  BY NoneBefore
<1>7. timeout_event' => Len(entries') = entriesAtTimeout'
  BY <1>3
<1>8. CASE TakenEntries' = TakenEntries \/ \E op \in Ops : TookEvent(op) /\ TakenEntries' = Append(TakenEntries, <<op, event[op]>>)
  <2>1. Positions(TakenEntries', Interruptions) = P /\ \A m \in P : TakenEntries'[m] = TakenEntries[m]
    <3>1. CASE TakenEntries' = TakenEntries
      BY <3>1
    <3>2. ASSUME NEW op \in Ops, TookEvent(op), TakenEntries' = Append(TakenEntries, <<op, event[op]>>)
          PROVE  Positions(TakenEntries', Interruptions) = P /\ \A m \in P : TakenEntries'[m] = TakenEntries[m]
      <4>1. event[op] \in {"STARTED", "COMPLETED"}
        BY <1>1, <3>2 DEF TookEvent, IntTypeOK
      <4>2. <<op, event[op]>> \notin Interruptions
        BY <4>1 DEF Interruptions
      <4> QED
        BY <1>4, <3>2, <4>2 DEF Positions
    <3> QED
      BY <1>8, <3>1, <3>2
  <2>2. ASSUME NEW m \in P, NEW op \in Ops, interrupt'[op] PROVE Before(TakenEntries[m][1], op)
    BY <1>5, <1>6, <2>2 DEF OrderInv, Interrupts
  <2>3. ~NoInterrupt' => Len(TakenEntries') <= entriesAtTimeout' + 1 + Cardinality(P)
    <3> SUFFICES ASSUME NEW op \in Ops, interrupt'[op]
                 PROVE  Len(TakenEntries') <= entriesAtTimeout' + 1 + Cardinality(P)
      BY DEF NoInterrupt
    <3>1. CASE interrupt[op]
      <4>1. ~NoInterrupt /\ ~ecu_alive /\ ~timeout_event'
        BY <1>2, <1>6, <3>1 DEF NoInterrupt
      <4>2. TakenEntries' = TakenEntries
        BY <1>8, <4>1 DEF TookEvent
      <4> QED
        BY <1>3, <4>1, <4>2 DEF OrderInv
    <3>2. CASE timeout_event
      <4>1. Len(entries) = entriesAtTimeout /\ entriesAtTimeout' = entriesAtTimeout
        BY <1>2, <1>3, <3>2 DEF OrderInv
      <4>2. Len(entries) \in Nat /\ entries \in Seq(Events)
        BY <1>1 DEF IntTypeOK
      <4>3. Len(TakenEntries') <= Len(entries) + 1
        <5>1. CASE TakenEntries' = TakenEntries
          <6>1. TakenEntries = entries \/ TakenEntries = Append(entries, inflight)
            BY DEF TakenEntries
          <6> QED
            BY <4>2, <5>1, <6>1
        <5>2. CASE LogIdle /\ \E e : TakenEntries' = Append(TakenEntries, e)
          <6>1. TakenEntries = entries
            BY <5>2 DEF TakenEntries, LogIdle
          <6> QED
            BY <4>2, <5>2, <6>1
        <5> QED
          BY <1>8, <5>1, <5>2 DEF TookEvent
      <4> QED
        BY <1>4, <4>1, <4>2, <4>3
    <3> QED
      BY <1>5, <3>1, <3>2 DEF Interrupts
  <2> QED
    BY <1>7, <2>1, <2>2, <2>3 DEF OrderInv
<1>9. ASSUME NEW p \in Ops, TookInterrupt(p), TakenEntries' = Append(TakenEntries, <<p, "INTERRUPTED">>)
      PROVE  OrderInv'
  <2> DEFINE e == <<p, "INTERRUPTED">>
             last == Len(TakenEntries) + 1
  <2>1. e \in Interruptions /\ e \in Events /\ e[1] = p
    BY EventsAre DEF Interruptions, Kinds
  <2>2. LogIdle /\ interrupt[p] /\ \A q \in Ops : interrupt[q] /\ q # p => Before(p, q)
    BY <1>9 DEF TookInterrupt
  <2>3. inflight' = e /\ ~timeout_event /\ ~ecu_alive /\ ~timeout_event'
    BY <1>2, <1>6, <1>9, <2>2 DEF TookInterrupt, NoInterrupt
  <2>4. /\ Positions(TakenEntries', Interruptions) = P \cup {last} /\ last \notin P
        /\ TakenEntries'[last] = e /\ \A m \in P : TakenEntries'[m] = TakenEntries[m] /\ m < last
    BY <1>4, <1>9, <2>1 DEF Positions
  <2>5. Cardinality(P \cup {last}) = Cardinality(P) + 1
    BY <1>4, <2>4, PositionsFinite, FS_AddElement
  <2>6. Len(TakenEntries') = last
    BY <1>4, <1>9
  <2>7. \A m \in P : Before(TakenEntries[m][1], p)
    BY <2>2 DEF OrderInv
  <2>8. ASSUME NEW op \in Ops, interrupt'[op]
        PROVE  Before(p, op) /\ \A m \in P : Before(TakenEntries[m][1], op)
    BY <1>5, <2>2, <2>3, <2>8 DEF OrderInv, Interrupts
  <2>9. Len(TakenEntries) <= entriesAtTimeout + 1 + Cardinality(P) /\ entriesAtTimeout' = entriesAtTimeout
    BY <1>3, <2>2, <2>3 DEF OrderInv, NoInterrupt
  <2>10. entriesAtTimeout \in Nat
    BY <1>1 DEF IntTypeOK
  <2>11. \A m, n \in P \cup {last} : m < n => Before(TakenEntries'[m][1], TakenEntries'[n][1])
    <3> SUFFICES ASSUME NEW m \in P \cup {last}, NEW n \in P \cup {last}, m < n
                 PROVE  Before(TakenEntries'[m][1], TakenEntries'[n][1])
      OBVIOUS
    <3>1. m \in P
      <4>1. last \in Int /\ P \subseteq Int /\ \A k \in P : k < last
        BY <1>4, <2>4 DEF Positions
      <4> QED
        BY <4>1
    <3>2. CASE n \in P
      BY <2>4, <3>1, <3>2 DEF OrderInv
    <3>3. CASE n = last
      BY <2>1, <2>4, <2>7, <3>1, <3>3
    <3> QED
      BY <3>2, <3>3
  <2>12. \A m \in P \cup {last}, op \in Ops : interrupt'[op] => Before(TakenEntries'[m][1], op)
    BY <2>1, <2>4, <2>8
  <2>13. Len(TakenEntries') <= entriesAtTimeout' + 1 + Cardinality(P \cup {last})
    BY <1>4, <2>5, <2>6, <2>9, <2>10
  <2> QED
    BY <1>7, <2>4, <2>11, <2>12, <2>13 DEF OrderInv
<1> QED
  BY <1>1, <1>8, <1>9, TakenStep

LEMMA OrderStart ==
  /\ IntInit => OrderInv
  /\ IntReset => OrderInv'
<1>1. ASSUME IntInit PROVE OrderInv
  <2>1. TakenEntries = << >> /\ NoInterrupt /\ ~timeout_event
    BY <1>1 DEF IntInit, Log!Init, WatchdogInit, TakenEntries, NoInterrupt
  <2>2. Positions(TakenEntries, Interruptions) = {}
    BY <2>1 DEF Positions
  <2> QED
    BY <2>1, <2>2 DEF OrderInv
<1>2. ASSUME IntReset PROVE OrderInv'
  <2>1. TakenEntries' = << >> /\ NoInterrupt' /\ ~timeout_event'
    BY <1>2 DEF IntReset, Log!Reset, WatchdogReset, TakenEntries, NoInterrupt
  <2>2. Positions(TakenEntries, Interruptions)' = {}
    BY <2>1 DEF Positions
  <2> QED
    BY <2>1, <2>2 DEF OrderInv
<1> QED
  BY <1>1, <1>2

-----------------------------------------------------------------------------
LEMMA LogInvariant == IntSpec => [](CountInv /\ OrderInv)
<1>1. IntInit => CountInv /\ OrderInv
  BY CountInit, OrderStart
<1>2. CountInv /\ OrderInv /\ [IntNext]_intVars => (CountInv /\ OrderInv)'
  <2> SUFFICES ASSUME CountInv, OrderInv, [IntNext]_intVars PROVE (CountInv /\ OrderInv)'
    OBVIOUS
  <2>1. CASE IntReset
    BY <2>1, CountReset, OrderStart
  <2>2. CASE IntStep
    <3>1. PICK write \in BusWrites, finishing \in SUBSET Running : IntClock(write, finishing)
      BY <2>2 DEF IntStep
    <3>2. finishing \in SUBSET Ops
      BY DEF Running
    <3> QED
      BY <3>1, <3>2, CountStep, OrderStep
  <2>3. CASE UNCHANGED intVars
    <3>1. IntTypeOK' /\ WatchdogInv' /\ NoneYet'
      BY <2>3 DEF CountInv, IntTypeOK, WatchdogInv, WatchdogTypeOK, NoneYet,
                  intVars, watchdogVars, unitVars, history
    <3>2. \A e : Known(e)' = Known(e) /\ happened'[e] = happened[e]
      BY <2>3 DEF Known, Logged, Waits, intVars, watchdogVars, unitVars, history
    <3>3. CountInv'
      BY <3>1, <3>2 DEF CountInv, NothingInvented
    <3>4. OrderInv'
      BY <2>3 DEF OrderInv, TakenEntries, NoInterrupt, Positions,
                  intVars, watchdogVars, unitVars, history
    <3> QED
      BY <3>3, <3>4
  <2> QED
    BY <2>1, <2>2, <2>3 DEF IntNext
<1> QED
  BY <1>1, <1>2, PTL DEF IntSpec

\* The order of the taken entries is the order of the recorded ones.
LEMMA OrderImplies == CountInv /\ OrderInv => InterruptsFirst
<1> SUFFICES ASSUME CountInv, OrderInv PROVE InterruptsFirst
  OBVIOUS
<1> DEFINE P == Positions(TakenEntries, Interruptions)
<1>1. entries \in Seq(Events) /\ inflight \in Events \cup {None} /\ entriesAtTimeout \in Nat
  BY DEF CountInv, IntTypeOK
<1>2. InterruptEntries = Positions(entries, Interruptions)
  BY <1>1 DEF InterruptEntries, Positions, Interruptions
<1>3. CASE inflight = None
  BY <1>2, <1>3 DEF OrderInv, TakenEntries, InterruptsFirst, NoInterrupt
<1>4. CASE inflight # None
  <2>1. inflight \in Events /\ TakenEntries = Append(entries, inflight)
    BY <1>1, <1>4 DEF TakenEntries
  <2>2. /\ Len(TakenEntries) = Len(entries) + 1 /\ Len(entries) \in Nat
        /\ InterruptEntries \subseteq P
        /\ \A n \in InterruptEntries : TakenEntries[n] = entries[n]
    BY <1>1, <1>2, <2>1 DEF Positions
  <2>3. /\ Cardinality(InterruptEntries) \in Nat
        /\ Cardinality(P) \in Nat
        /\ Cardinality(P) <= Cardinality(InterruptEntries) + 1
    BY <1>1, <1>2, <2>1, AppendCounts, PositionsFinite
  <2>4. \A m, n \in InterruptEntries : m < n => Before(entries[m][1], entries[n][1])
    <3>1. \A m, n \in P : m < n => Before(TakenEntries[m][1], TakenEntries[n][1])
      BY DEF OrderInv
    <3> QED
      BY <2>2, <3>1
  <2>5. ~NoInterrupt => Len(TakenEntries) <= entriesAtTimeout + 1 + Cardinality(P)
    BY DEF OrderInv
  <2> QED
    BY <1>1, <2>2, <2>3, <2>4, <2>5 DEF InterruptsFirst, NoInterrupt
<1> QED
  BY <1>3, <1>4

(***************************************************************************)
(* Every interrupted operation is in the log once, or on its way there;    *)
(* the interrupts of a timeout overtake everything but the entry being     *)
(* written; and nothing is logged that did not happen                      *)
(* (pqc_tau_integrated_wrapper.sv:154-158, 288-296).                       *)
(***************************************************************************)
THEOREM LogTruthful == IntSpec => []LogTellsTheTruth
<1>1. CountInv /\ OrderInv => LogTellsTheTruth
  BY OrderImplies DEF CountInv, LogTellsTheTruth, InterruptsLoggedOnce
<1> QED
  BY <1>1, LogInvariant, PTL

-----------------------------------------------------------------------------
(***************************************************************************)
(* What done says.  The write on the bus, the core, its done pulse and the *)
(* status flag are four registers that follow each other edge by edge; to  *)
(* an ECU that waits for done at most one of them is up, so that a new     *)
(* START meets an idle core, and no done of an older one can come after it.*)
(***************************************************************************)
Started(op) == happened[<<op, "STARTED">>] > 0

AtMost(op, command, run, pulse, flag) ==
  /\ (bus = Start(op)) <=> command
  /\ (core[op] = "RUN") <=> run
  /\ done[op] <=> pulse
  /\ done_sticky[op] <=> flag

Unstarted(op)     == AtMost(op, FALSE, FALSE, FALSE, FALSE) /\ ~Started(op)
Commanded(op) == AtMost(op, TRUE, FALSE, FALSE, FALSE)
Runs(op)      == AtMost(op, FALSE, TRUE, FALSE, FALSE) /\ Started(op)
Finishes(op)  == AtMost(op, FALSE, FALSE, TRUE, FALSE) /\ Started(op)
Ready(op)     == AtMost(op, FALSE, FALSE, FALSE, TRUE) /\ Started(op)

OneAtATime ==
  \A op \in Ops :
    /\ ~ignored[op]
    /\ Unstarted(op) \/ Commanded(op) \/ Runs(op) \/ Finishes(op) \/ Ready(op)

\* What one edge does to the registers of one operation.
LEMMA OperationEdge ==
  ASSUME IntTypeOK, NEW write \in BusWrites, NEW finishing \in SUBSET Running,
         IntClock(write, finishing), NEW op \in Ops
  PROVE  /\ core'[op] = CoreOf(op, op \in finishing)
         /\ done'[op] <=> op \in finishing
         /\ op \in finishing => core[op] = "RUN"
         /\ done_sticky'[op] <=> (done[op] \/ done_sticky[op]) /\ write # Start(op)
         /\ bus' = write
         /\ ignored'[op] = IF bus = Start(op) THEN core[op] # "IDLE" ELSE ignored[op]
         /\ Started(op)' <=> Started(op) \/ bus = Start(op)
<1>1. /\ core' = [p \in Ops |-> CoreOf(p, p \in finishing)]
      /\ done' = [p \in Ops |-> p \in finishing]
      /\ ignored' = [p \in Ops |-> IF bus = Start(p) THEN core[p] # "IDLE" ELSE ignored[p]]
      /\ bus' = write
  BY DEF IntClock, Cores, Ignores
<1>2. done_sticky'[op] <=> (done[op] \/ done_sticky[op]) /\ write # Start(op)
  BY DEF IntClock, Sticky
<1>3. op \in finishing => core[op] = "RUN"
  BY DEF Running
<1>4. Started(op)' <=> Started(op) \/ bus = Start(op)
  <2> DEFINE e == <<op, "STARTED">>
  <2>1. e \in Events /\ e[1] = op /\ e[2] = "STARTED"
    BY EventsAre DEF Kinds
  <2>2. happened'[e] = happened[e] + (IF bus = Start(op) THEN 1 ELSE 0)
    BY <2>1 DEF IntClock, Happens
  <2>3. happened[e] \in Nat
    BY <2>1 DEF IntTypeOK
  <2> QED
    BY <2>2, <2>3 DEF Started
<1> QED
  BY <1>1, <1>2, <1>3, <1>4

LEMMA OneAtATimeStep ==
  ASSUME Discipline = "done", IntTypeOK, OneAtATime,
         NEW write \in BusWrites, NEW finishing \in SUBSET Running,
         EcuWrites(write), IntClock(write, finishing)
  PROVE  OneAtATime'
<1> SUFFICES ASSUME NEW op \in Ops
             PROVE  /\ ~ignored'[op]
                    /\ Unstarted(op)' \/ Commanded(op)' \/ Runs(op)' \/ Finishes(op)' \/ Ready(op)'
  BY DEF OneAtATime
<1>1. write = Start(op) => done_sticky[op] \/ (~Started(op) /\ bus # Start(op))
  <2> SUFFICES ASSUME write = Start(op)
               PROVE  done_sticky[op] \/ (~Started(op) /\ bus # Start(op))
    OBVIOUS
  <2>1. Allowed(op)
    BY DEF EcuWrites, Start
  <2> QED
    BY <2>1 DEF Allowed, Started
<1>2. core[op] \in {"IDLE", "RUN"} /\ ~ignored[op]
  BY DEF IntTypeOK, OneAtATime
<1>3. /\ core'[op] = CoreOf(op, op \in finishing)
      /\ done'[op] <=> op \in finishing
      /\ op \in finishing => core[op] = "RUN"
      /\ done_sticky'[op] <=> (done[op] \/ done_sticky[op]) /\ write # Start(op)
      /\ bus' = write
      /\ ignored'[op] = IF bus = Start(op) THEN core[op] # "IDLE" ELSE ignored[op]
      /\ Started(op)' <=> Started(op) \/ bus = Start(op)
  BY OperationEdge
<1>4. CASE Unstarted(op)
  <2>1. CASE write = Start(op)
    BY <1>2, <1>3, <1>4, <2>1 DEF Unstarted, Commanded, AtMost, CoreOf
  <2>2. CASE write # Start(op)
    BY <1>2, <1>3, <1>4, <2>2 DEF Unstarted, AtMost, CoreOf
  <2> QED
    BY <2>1, <2>2
<1>5. CASE Commanded(op)
  BY <1>1, <1>2, <1>3, <1>5 DEF Commanded, Runs, AtMost, CoreOf
<1>6. CASE Runs(op)
  BY <1>1, <1>2, <1>3, <1>6 DEF Runs, Finishes, AtMost, CoreOf
<1>7. CASE Finishes(op)
  BY <1>1, <1>2, <1>3, <1>7 DEF Finishes, Ready, AtMost, CoreOf
<1>8. CASE Ready(op)
  <2>1. CASE write = Start(op)
    BY <1>2, <1>3, <1>8, <2>1 DEF Ready, Commanded, AtMost, CoreOf
  <2>2. CASE write # Start(op)
    BY <1>2, <1>3, <1>8, <2>2 DEF Ready, AtMost, CoreOf
  <2> QED
    BY <2>1, <2>2
<1> QED
  BY <1>4, <1>5, <1>6, <1>7, <1>8 DEF OneAtATime

LEMMA OneAtATimeStart ==
  /\ IntInit => OneAtATime
  /\ IntReset => OneAtATime'
<1>1. ASSUME NEW op \in Ops PROVE None # Start(op)
  <2>1. None[1] = "NONE" /\ Start(op)[1] = "START"
    BY DEF None, Start
  <2> QED
    BY <2>1
<1>2. ASSUME NEW op \in Ops PROVE <<op, "STARTED">> \in Events
  BY EventsAre DEF Kinds
<1>3. ASSUME IntInit PROVE OneAtATime
  <2> SUFFICES ASSUME NEW op \in Ops PROVE ~ignored[op] /\ Unstarted(op)
    BY DEF OneAtATime
  <2>1. ~ignored[op] /\ ~done[op] /\ ~done_sticky[op] /\ core[op] = "IDLE" /\ bus = None
    BY <1>3 DEF IntInit
  <2>2. happened[<<op, "STARTED">>] = 0
    BY <1>2, <1>3 DEF IntInit
  <2> QED
    BY <1>1, <2>1, <2>2 DEF Unstarted, AtMost, Started
<1>4. ASSUME IntReset PROVE OneAtATime'
  <2> SUFFICES ASSUME NEW op \in Ops PROVE ~ignored'[op] /\ Unstarted(op)'
    BY DEF OneAtATime
  <2>1. ~ignored'[op] /\ ~done'[op] /\ ~done_sticky'[op] /\ core'[op] = "IDLE" /\ bus' = None
    BY <1>4 DEF IntReset
  <2>2. happened'[<<op, "STARTED">>] = 0
    BY <1>2, <1>4 DEF IntReset
  <2> QED
    BY <1>1, <2>1, <2>2 DEF Unstarted, AtMost, Started
<1> QED
  BY <1>3, <1>4

(***************************************************************************)
(* An ECU that waits for done before the next START of an operation never  *)
(* sees done while a result is being overwritten, nor one that belongs to  *)
(* an earlier START, whatever the watchdog does and however many runs      *)
(* overlap (pqc_tau_integrated_wrapper.sv:325-379).                        *)
(***************************************************************************)
THEOREM DoneIsDone == Discipline = "done" => (IntSpec => []DoneMeansDone)
<1> SUFFICES ASSUME Discipline = "done" PROVE IntSpec => []DoneMeansDone
  OBVIOUS
<1>1. IntInit => OneAtATime
  BY OneAtATimeStart
<1>2. CountInv /\ OneAtATime /\ [IntNext]_intVars => OneAtATime'
  <2> SUFFICES ASSUME CountInv, OneAtATime, [IntNext]_intVars PROVE OneAtATime'
    OBVIOUS
  <2>1. CASE IntReset
    BY <2>1, OneAtATimeStart
  <2>2. CASE IntStep
    <3>1. PICK write \in BusWrites, finishing \in SUBSET Running :
            EcuWrites(write) /\ IntClock(write, finishing)
      BY <2>2 DEF IntStep
    <3> QED
      BY <3>1, OneAtATimeStep DEF CountInv
  <2>3. CASE UNCHANGED intVars
    BY <2>3 DEF OneAtATime, Unstarted, Commanded, Runs, Finishes, Ready, AtMost, Started,
                intVars, unitVars, history
  <2> QED
    BY <2>1, <2>2, <2>3 DEF IntNext
<1>3. CountInv /\ OneAtATime => DoneMeansDone
  BY DEF CountInv, IntTypeOK, OneAtATime, Unstarted, Commanded, Runs, Finishes, Ready, AtMost,
         DoneMeansDone
<1> QED
  BY <1>1, <1>2, <1>3, LogInvariant, PTL DEF IntSpec
=============================================================================
