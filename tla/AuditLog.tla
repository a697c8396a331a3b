------------------------------ MODULE AuditLog ------------------------------
(***************************************************************************)
(* The hash-chained audit log of the Trust Anchor Unit,                    *)
(* hardware/pqc-rtl/fpga/tau/pqc_tau_audit_log.sv, with the SHA3-256 core  *)
(* it instantiates (hardware/pqc-rtl/rtl/pqc_sha3_256.sv).                 *)
(*                                                                         *)
(* The design is synchronous: one step of this module is one rising edge   *)
(* of clk, and every register takes its next value from the values before  *)
(* the edge.  A clock edge is the conjunction of a step of the write FSM   *)
(* and a step of the hash core, which share only sha3_start, sha3_done and *)
(* the three inputs of the hash.                                           *)
(*                                                                         *)
(* SHA3-256 is modelled as a free constructor: a chain hash is the         *)
(* sequence of the <<decision, seq>> pairs that were hashed into it.  Its  *)
(* latency is any number of clock edges.                                   *)
(***************************************************************************)
EXTENDS Integers, Sequences

CONSTANTS Decisions,   \* the decision hashes a writer may submit
          LogDepth,    \* LOG_DEPTH, the number of slots of the ring
          SeqMod,      \* 2^8 for the 8-bit seq_counter
          Undefined,   \* what a register that reset leaves alone holds at power-up
          MaxWrites    \* bound on the number of writes between two resets

ASSUME LogDepthAssumption == LogDepth \in Nat /\ LogDepth > 0
ASSUME SeqModAssumption ==
  /\ SeqMod \in Nat
  /\ SeqMod > LogDepth            \* LOG_DEPTH[7:0] is LOG_DEPTH itself
  /\ SeqMod % LogDepth = 0        \* LOG_DEPTH is 64 wherever it is instantiated
ASSUME UndefinedAssumption == Undefined \notin Decisions
ASSUME MaxWritesAssumption == MaxWrites \in Nat

VARIABLES
  state,               \* the write FSM
  decision_hash_reg,   \* the decision that is being hashed
  current_chain_head,  \* the hash of the last committed entry
  seq_counter,
  chain_hash_mem, decision_hash_mem, entry_valid_mem,   \* the ring
  write_busy, write_done, write_seq, write_chain_hash,
  log_count, log_full,
  sha3_start, sha3_done, sha3_fsm, sha3_digest

fsmVars  == <<state, decision_hash_reg, current_chain_head, seq_counter,
              chain_hash_mem, decision_hash_mem, entry_valid_mem, write_busy,
              write_done, write_seq, write_chain_hash, log_count, log_full,
              sha3_start>>
coreVars == <<sha3_done, sha3_fsm, sha3_digest>>
logVars  == <<fsmVars, coreVars>>

-----------------------------------------------------------------------------
Slots   == 0 .. LogDepth - 1
SeqNos  == 0 .. SeqMod - 1
Entries == Decisions \X SeqNos
Genesis == << >>                        \* 256'b0

\* SHA3-256(chain head || decision || seq), the concatenation sha3_msg_in
Sha3(head, decision, seq) == Append(head, <<decision, seq>>)

SlotOneShort(seq) == seq % (LogDepth - 1)
Slot(seq) == seq % LogDepth

NextSeq(seq) == (seq + 1) % SeqMod

-----------------------------------------------------------------------------
LogInit ==
  /\ state = "IDLE"
  /\ decision_hash_reg = Undefined
  /\ current_chain_head = Genesis
  /\ seq_counter = 0
  /\ chain_hash_mem = [i \in Slots |-> Undefined]
  /\ decision_hash_mem = [i \in Slots |-> Undefined]
  /\ entry_valid_mem = [i \in Slots |-> FALSE]
  /\ write_busy = FALSE
  /\ write_done = FALSE
  /\ write_seq = Undefined
  /\ write_chain_hash = Undefined
  /\ log_count = 0
  /\ log_full = FALSE
  /\ sha3_start = FALSE
  /\ sha3_done = FALSE
  /\ sha3_fsm = "IDLE"
  /\ sha3_digest = Genesis

(***************************************************************************)
(* An edge with reset high.  It clears the FSM, the head, the counters and *)
(* the valid bits, and the hash core; the two memories, the decision       *)
(* register, write_seq and write_chain_hash keep what they held.           *)
(***************************************************************************)
LogReset ==
  /\ state' = "IDLE"
  /\ current_chain_head' = Genesis
  /\ seq_counter' = 0
  /\ sha3_start' = FALSE
  /\ write_done' = FALSE
  /\ write_busy' = FALSE
  /\ log_count' = 0
  /\ log_full' = FALSE
  /\ entry_valid_mem' = [i \in Slots |-> FALSE]
  /\ sha3_fsm' = "IDLE"
  /\ sha3_done' = FALSE
  /\ sha3_digest' = Genesis
  /\ UNCHANGED <<decision_hash_reg, chain_hash_mem, decision_hash_mem,
                 write_seq, write_chain_hash>>

\* What the FSM leaves alone in every state but COMMIT.
ringVars == <<current_chain_head, seq_counter, chain_hash_mem,
              decision_hash_mem, entry_valid_mem, write_seq,
              write_chain_hash, log_count, log_full>>

\* S_IDLE without a request
Idle(valid) ==
  /\ state = "IDLE"
  /\ ~valid
  /\ write_busy' = FALSE
  /\ write_done' = FALSE
  /\ sha3_start' = FALSE
  /\ UNCHANGED <<state, decision_hash_reg, ringVars>>

\* S_IDLE with write_valid: latch the decision and start the hash core
Accept(valid, decision) ==
  /\ state = "IDLE"
  /\ valid
  /\ decision_hash_reg' = decision
  /\ sha3_start' = TRUE
  /\ write_busy' = TRUE
  /\ write_done' = FALSE
  /\ state' = "HASHING"
  /\ UNCHANGED ringVars

\* S_HASHING: wait for sha3_done
HashingEarly ==
  /\ state = "HASHING"
  /\ state' = IF sha3_start THEN "COMMIT" ELSE "HASHING"
  /\ write_done' = FALSE
  /\ sha3_start' = FALSE
  /\ UNCHANGED <<decision_hash_reg, write_busy, ringVars>>
Hashing ==
  /\ state = "HASHING"
  /\ state' = IF sha3_done THEN "COMMIT" ELSE "HASHING"
  /\ write_done' = FALSE
  /\ sha3_start' = FALSE
  /\ UNCHANGED <<decision_hash_reg, write_busy, ringVars>>

\* S_COMMIT, the ring: the entry goes to the slot of its number
StoreEntry ==
  /\ chain_hash_mem' = [chain_hash_mem EXCEPT ![Slot(seq_counter)] = sha3_digest]
  /\ decision_hash_mem' =
       [decision_hash_mem EXCEPT ![Slot(seq_counter)] = decision_hash_reg]
  /\ entry_valid_mem' = [entry_valid_mem EXCEPT ![Slot(seq_counter)] = TRUE]

\* S_COMMIT, the outputs: a one-cycle write_done with the entry's number and hash
Report ==
  /\ write_done' = TRUE
  /\ write_seq' = seq_counter
  /\ write_chain_hash' = sha3_digest

\* S_COMMIT, the counters: log_count saturates, log_full is set when it has
AdvanceFullEarly ==
  /\ current_chain_head' = sha3_digest
  /\ seq_counter' = NextSeq(seq_counter)
  /\ log_count' = IF log_count < LogDepth THEN log_count + 1 ELSE log_count
  /\ log_full' = (log_full \/ log_count + 1 >= LogDepth)
Advance ==
  /\ current_chain_head' = sha3_digest
  /\ seq_counter' = NextSeq(seq_counter)
  /\ log_count' = IF log_count < LogDepth THEN log_count + 1 ELSE log_count
  /\ log_full' = (log_full \/ ~(log_count < LogDepth))

Commit ==
  /\ state = "COMMIT"
  /\ StoreEntry
  /\ Report
  /\ Advance
  /\ write_busy' = FALSE
  /\ sha3_start' = FALSE
  /\ state' = "IDLE"
  /\ UNCHANGED decision_hash_reg

FsmStep(valid, decision) ==
  \/ Idle(valid)
  \/ Accept(valid, decision)
  \/ Hashing
  \/ Commit

-----------------------------------------------------------------------------
(***************************************************************************)
(* The hash core.  sha3_msg_in is combinational: the core reads the head,  *)
(* the latched decision and the counter some time after sha3_start, when   *)
(* the absorb stage starts its permutation, and shows the digest some time *)
(* later with a one-cycle sha3_done.                                       *)
(***************************************************************************)
CoreIdle ==
  /\ sha3_fsm = "IDLE"
  /\ sha3_fsm' = IF sha3_start THEN "PAD" ELSE "IDLE"
  /\ sha3_done' = FALSE
  /\ UNCHANGED sha3_digest

CorePad ==
  /\ sha3_fsm = "PAD"
  /\ sha3_fsm' = "ABSORB"
  /\ UNCHANGED <<sha3_done, sha3_digest>>

CoreAbsorb ==
  /\ sha3_fsm = "ABSORB"
  /\ sha3_fsm' = "SQUEEZE"
  /\ sha3_digest' = Sha3(current_chain_head, decision_hash_reg, seq_counter)
  /\ UNCHANGED sha3_done

CoreSqueeze ==
  /\ sha3_fsm = "SQUEEZE"
  /\ sha3_fsm' = "IDLE"
  /\ sha3_done' = TRUE
  /\ UNCHANGED sha3_digest

\* An edge inside the absorb or the squeeze stage.
CoreBusy == sha3_fsm \in {"ABSORB", "SQUEEZE"} /\ UNCHANGED coreVars

CoreProgress == CoreIdle \/ CorePad \/ CoreAbsorb \/ CoreSqueeze

CoreStep == CoreProgress \/ CoreBusy

-----------------------------------------------------------------------------
\* An edge with reset low and the given values on write_valid and decision_hash.
LogClock(valid, decision) == FsmStep(valid, decision) /\ CoreStep

Init == LogInit

\* The writer: it may offer any decision on any cycle, MaxWrites in all.
Offer(valid) == valid => Len(current_chain_head) < MaxWrites

Clock == \E valid \in BOOLEAN, decision \in Decisions :
           Offer(valid) /\ LogClock(valid, decision)

Next == LogReset \/ Clock

Spec == Init /\ [][Next]_logVars

-----------------------------------------------------------------------------
(***************************************************************************)
(* Properties                                                              *)
(***************************************************************************)
Hashes == Seq(Entries)

\* Every register holds a value of its type.
LogTypeOK ==
  /\ state \in {"IDLE", "HASHING", "COMMIT"}
  /\ decision_hash_reg \in Decisions \cup {Undefined}
  /\ current_chain_head \in Hashes
  /\ seq_counter \in SeqNos
  /\ chain_hash_mem \in [Slots -> Hashes \cup {Undefined}]
  /\ decision_hash_mem \in [Slots -> Decisions \cup {Undefined}]
  /\ entry_valid_mem \in [Slots -> BOOLEAN]
  /\ write_busy \in BOOLEAN
  /\ write_done \in BOOLEAN
  /\ write_seq \in SeqNos \cup {Undefined}
  /\ write_chain_hash \in Hashes \cup {Undefined}
  /\ log_count \in 0 .. LogDepth
  /\ log_full \in BOOLEAN
  /\ sha3_start \in BOOLEAN
  /\ sha3_done \in BOOLEAN
  /\ sha3_fsm \in {"IDLE", "PAD", "ABSORB", "SQUEEZE"}
  /\ sha3_digest \in Hashes

Written == Len(current_chain_head)       \* commits since the last reset

(***************************************************************************)
(* What is committed is the hash of the head, the latched decision and the *)
(* counter as they are at the commit, although the core read them an       *)
(* arbitrary time earlier (S_COMMIT stores sha3_digest without a check).   *)
(***************************************************************************)
DigestIsFresh ==
  state = "COMMIT" =>
    sha3_digest = Sha3(current_chain_head, decision_hash_reg, seq_counter)

SlotOfEntry(n) == Slot((n - 1) % SeqMod)

HoldsEntry(n) ==
  /\ entry_valid_mem[SlotOfEntry(n)]
  /\ chain_hash_mem[SlotOfEntry(n)] = SubSeq(current_chain_head, 1, n)
  /\ decision_hash_mem[SlotOfEntry(n)] = current_chain_head[n][1]

(***************************************************************************)
(* The ring holds the last LogDepth entries of the chain, each in the slot *)
(* of its sequence number, across every wrap of the ring and of the 8-bit  *)
(* counter: entry n of the chain hashes exactly the first n decisions.     *)
(***************************************************************************)
RingHoldsTail ==
  \A n \in 1 .. Written : n > Written - LogDepth => HoldsEntry(n)

(***************************************************************************)
(* The chain numbers its entries 0, 1, 2, ... modulo 2^8, and seq_counter  *)
(* is the number of the next one.                                          *)
(***************************************************************************)
SequenceNumbers ==
  /\ seq_counter = Written % SeqMod
  /\ \A n \in 1 .. Written : current_chain_head[n][2] = (n - 1) % SeqMod

(***************************************************************************)
(* log_count saturates at the capacity, and log_full is raised by the      *)
(* first commit that destroys an entry, not by the one that fills the ring.*)
(***************************************************************************)
FillLevel ==
  /\ log_count = IF Written < LogDepth THEN Written ELSE LogDepth
  /\ log_full <=> Written > LogDepth

(***************************************************************************)
(* A reader may trust the pair write_seq, write_chain_hash while           *)
(* write_done is high: they are the entry just committed, and no write in  *)
(* progress has disturbed them.                                            *)
(***************************************************************************)
DoneReportsLastEntry ==
  write_done =>
    /\ Written > 0
    /\ write_chain_hash = current_chain_head
    /\ write_seq = current_chain_head[Written][2]
    /\ chain_hash_mem[Slot(write_seq)] = write_chain_hash

(***************************************************************************)
(* The handshake: write_busy is low exactly when the FSM can take a        *)
(* request on this edge, so a writer that samples it loses nothing, and a  *)
(* request is taken only while the hash core rests.                        *)
(***************************************************************************)
BusyIsExact ==
  /\ write_busy <=> state # "IDLE"
  /\ state = "IDLE" => sha3_fsm = "IDLE" /\ ~sha3_start /\ ~sha3_done

(***************************************************************************)
(* Everything the ports tell a writer or a reader is what the chain says,  *)
(* on every edge: the fill level, the entry reported, the handshake and    *)
(* the digest about to be stored, although they are set on different edges *)
(* and two of them from what the hash core read long before.               *)
(***************************************************************************)
OutputsMatchLog ==
  /\ LogTypeOK
  /\ DigestIsFresh
  /\ FillLevel
  /\ DoneReportsLastEntry
  /\ BusyIsExact

(***************************************************************************)
(* Between resets the chain is append-only: a step keeps the head or       *)
(* extends it by the one decision that was latched.                        *)
(***************************************************************************)
AppendOnly ==
  [][\/ current_chain_head' = current_chain_head
     \/ current_chain_head' = Genesis /\ seq_counter' = 0 /\ ~write_done'
     \/ /\ current_chain_head' = Sha3(current_chain_head, decision_hash_reg, seq_counter)
        /\ write_done']_logVars

(***************************************************************************)
(* The log implements Journal: the recorded decisions are those hashed     *)
(* into the head, and a decision is in flight while the FSM is not idle.   *)
(***************************************************************************)
Decided == [n \in 1 .. Written |-> current_chain_head[n][1]]

Abstract == INSTANCE Journal WITH
              entries  <- Decided,
              inflight <- IF state = "IDLE" THEN Undefined ELSE decision_hash_reg,
              None     <- Undefined

ImplementsJournal == Abstract!Spec
=============================================================================
