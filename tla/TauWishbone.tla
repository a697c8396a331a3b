----------------------------- MODULE TauWishbone -----------------------------
(***************************************************************************)
(* The audit log on the Wishbone bus,                                      *)
(* hardware/pqc-rtl/fpga/tau/pqc_tau_wishbone_wrapper.sv, and a bus master *)
(* that drives it as pqc_tau_wishbone_tb.sv does: it writes a decision     *)
(* hash word by word, commits it, polls the status register and reads the  *)
(* result back.  It commits only when it has seen the last COMMIT done.    *)
(*                                                                         *)
(* One step is one clock edge.  A write is acknowledged in the cycle in    *)
(* which it is on the bus; a read is answered from a register, one edge    *)
(* later, and the master releases the bus for a cycle after each transfer. *)
(* The NTT core that shares the bus is represented by its START write, and *)
(* the deferred read port is the log's own (AuditLog!ReadEntryValid).      *)
(***************************************************************************)
EXTENDS AuditLog

CONSTANTS WordCount,     \* the words of a hash, 16 of 16 bits in the code
          WordValues     \* what a word may hold

Words == 0 .. WordCount - 1

\* A decision hash, as the bus writes it.
WordVectors == [Words -> WordValues]

ASSUME WordsAssumption ==
  /\ WordCount \in Nat /\ WordCount > 0
  /\ 0 \in WordValues
  /\ Decisions = WordVectors

VARIABLES
  word_sel, audit_decision_hash_buf, audit_write_valid,
  write_done_sticky, write_seq_sticky, chain_out_latched,
  audit_read_data,        \* the read register: the address it answers and the value
  audit_read_valid_reg,
  request,                \* what the master drives on the bus in this cycle
  committed,              \* history: the buffer at each COMMIT since reset
  clearedByNtt,           \* history: an NTT run was started since the last COMMIT
  awaiting,               \* the master has not seen its last COMMIT done
  mismatched              \* history: a read was answered for another address

wrapperVars == <<word_sel, audit_decision_hash_buf, audit_write_valid, write_done_sticky,
                 write_seq_sticky, chain_out_latched, audit_read_data, audit_read_valid_reg>>
masterVars == <<request, committed, clearedByNtt, awaiting, mismatched>>
wbVars == <<logVars, wrapperVars, masterVars>>

NoTransfer == <<"NONE">>
AuditCommit  == <<"COMMIT">>
NttStart == <<"NTT_START">>
Sel(w)   == <<"WORD_SEL", w>>
HashIn(v) == <<"HASH_IN", v>>
Status == <<"STATUS">>
AuditSeq   == <<"SEQ">>
Chain  == <<"CHAIN_OUT">>

Writes == {AuditCommit, NttStart} \cup {Sel(w) : w \in Words} \cup {HashIn(v) : v \in WordValues}
Reads  == {Status, AuditSeq, Chain}

-----------------------------------------------------------------------------
NoData == <<NoTransfer, Undefined>>

WrapperReset ==
  /\ word_sel' = 0
  /\ audit_decision_hash_buf' = [w \in Words |-> 0]
  /\ audit_write_valid' = FALSE
  /\ write_done_sticky' = FALSE
  /\ write_seq_sticky' = 0
  /\ audit_read_valid_reg' = FALSE
  /\ UNCHANGED <<chain_out_latched, audit_read_data>>

WbInit ==
  /\ LogInit
  /\ word_sel = 0
  /\ audit_decision_hash_buf = [w \in Words |-> 0]
  /\ audit_write_valid = FALSE
  /\ write_done_sticky = FALSE
  /\ write_seq_sticky = 0
  /\ chain_out_latched = Undefined
  /\ audit_read_data = NoData
  /\ audit_read_valid_reg = FALSE
  /\ request = NoTransfer
  /\ committed = << >>
  /\ clearedByNtt = FALSE
  /\ awaiting = FALSE
  /\ mismatched = FALSE

WbReset ==
  /\ LogReset
  /\ WrapperReset
  /\ request' = NoTransfer
  /\ committed' = << >>
  /\ clearedByNtt' = FALSE
  /\ awaiting' = FALSE
  /\ UNCHANGED mismatched

-----------------------------------------------------------------------------
\* AUDIT_WORD_SEL and AUDIT_HASH_IN
Buffer ==
  /\ word_sel' = IF request[1] = "WORD_SEL" THEN request[2] ELSE word_sel
  /\ audit_decision_hash_buf' =
       IF request[1] = "HASH_IN" THEN [audit_decision_hash_buf EXCEPT ![word_sel] = request[2]]
       ELSE audit_decision_hash_buf

\* AUDIT_COMMIT: one cycle of write_valid, whether or not the log is busy
CommitHeld == audit_write_valid' = (request = AuditCommit \/ audit_write_valid)
CommitPulse == audit_write_valid' = (request = AuditCommit)

\* write_done is a pulse: keep it, with the number and the hash of the entry.
DoneBitKept ==
  /\ write_done_sticky' = (write_done \/ write_done_sticky)
  /\ write_seq_sticky' = IF write_done THEN write_seq ELSE write_seq_sticky
  /\ chain_out_latched' = IF write_done THEN write_chain_hash ELSE chain_out_latched
DoneBit ==
  /\ write_done_sticky' = /\ write_done \/ write_done_sticky
                          /\ request \notin {AuditCommit, NttStart}
  /\ write_seq_sticky' = IF write_done THEN write_seq ELSE write_seq_sticky
  /\ chain_out_latched' = IF write_done THEN write_chain_hash ELSE chain_out_latched

\* The read register, by address: one word of the chain hash is the pair of the two.
Register(address) ==
  CASE address = Status -> [busy |-> write_busy, done |-> write_done_sticky]
    [] address = AuditSeq   -> write_seq_sticky
    [] address = Chain  -> <<chain_out_latched, word_sel>>
    [] OTHER            -> Undefined

Read ==
  /\ audit_read_data' = <<request, Register(request)>>
  /\ audit_read_valid_reg' = (request \in Reads)

-----------------------------------------------------------------------------
\* The master.  A transfer ends when it is acknowledged.
Acked == request \in Writes \/ (request \in Reads /\ audit_read_valid_reg)

MayTransfer(r) == r = AuditCommit => Len(committed) < MaxWrites /\ ~awaiting

Master(r) ==
  /\ request' = r
  /\ IF request = NoTransfer THEN r = NoTransfer \/ MayTransfer(r)
     ELSE r = IF Acked THEN NoTransfer ELSE request
  /\ committed' = IF request = AuditCommit THEN Append(committed, audit_decision_hash_buf)
                  ELSE committed
  /\ clearedByNtt' = (request = NttStart \/ (clearedByNtt /\ request # AuditCommit))
  /\ awaiting' = CASE request = AuditCommit -> TRUE
                   [] request = Status /\ Acked -> awaiting /\ ~audit_read_data[2].done
                   [] OTHER -> awaiting
  /\ mismatched' = (mismatched \/ (request \in Reads /\ Acked /\ audit_read_data[1] # request))

\* One edge with rst low.
WbClock(r) ==
  /\ LogClock(audit_write_valid, audit_decision_hash_buf)
  /\ Buffer
  /\ CommitPulse
  /\ DoneBit
  /\ Read
  /\ Master(r)

WbStep == \E r \in Writes \cup Reads \cup {NoTransfer} : WbClock(r)

WbNext == WbReset \/ WbStep

WbSpec == WbInit /\ [][WbNext]_wbVars

-----------------------------------------------------------------------------
(***************************************************************************)
(* Properties                                                              *)
(***************************************************************************)
WbTypeOK ==
  /\ LogTypeOK
  /\ word_sel \in Words
  /\ audit_decision_hash_buf \in Decisions
  /\ audit_write_valid \in BOOLEAN
  /\ write_done_sticky \in BOOLEAN
  /\ write_seq_sticky \in SeqNos
  /\ chain_out_latched \in Hashes \cup {Undefined}
  /\ audit_read_data[1] \in Writes \cup Reads \cup {NoTransfer}
  /\ audit_read_valid_reg \in BOOLEAN
  /\ request \in Writes \cup Reads \cup {NoTransfer}
  /\ committed \in Seq(Decisions)
  /\ clearedByNtt \in BOOLEAN
  /\ awaiting \in BOOLEAN
  /\ mismatched \in BOOLEAN

(***************************************************************************)
(* Every COMMIT of a master that waits becomes one entry, with the words   *)
(* as they were at the COMMIT: those of the next hash, which the master    *)
(* may write from the next transfer on, never leak into it.  A master that *)
(* has seen done can rely on all of its commits being in the chain.        *)
(***************************************************************************)
CommitsAreEntries ==
  /\ WbTypeOK
  /\ Written <= Len(committed)
  /\ Decided = SubSeq(committed, 1, Written)
  /\ Len(committed) <= Written + (IF awaiting \/ request = AuditCommit THEN 1 ELSE 0)

(***************************************************************************)
(* While the status register says done, the sequence and chain registers   *)
(* are those of the last COMMIT, so that words of the chain hash read one  *)
(* by one belong together.                                                 *)
(***************************************************************************)
DoneNamesEntry ==
  write_done_sticky =>
    /\ Decided = committed
    /\ chain_out_latched = current_chain_head
    /\ write_seq_sticky = current_chain_head[Written][2]

(***************************************************************************)
(* No read is answered with the register of an earlier transfer, although  *)
(* the acknowledge stays up for a cycle after a read.                      *)
(***************************************************************************)
ReadsMatch == ~mismatched

(***************************************************************************)
(* The one-cycle write_done is never lost to a master that polls: once the *)
(* log is at rest after a COMMIT, done is up and stays up, until the next  *)
(* COMMIT or the next NTT run, whose start clears the log's flag too       *)
(* (pqc_tau_wishbone_wrapper.sv:136).                                      *)
(***************************************************************************)
AtRest == state = "IDLE" /\ ~audit_write_valid /\ ~write_done /\ request # AuditCommit

DoneIsKept == AtRest /\ committed # << >> /\ ~clearedByNtt => write_done_sticky

(***************************************************************************)
(* A master that polls and reads word by word learns the truth: done is    *)
(* up when and only when the last COMMIT is in the chain, it stays up, and *)
(* the registers read then are that entry's.                               *)
(***************************************************************************)
PollsAreTrue == DoneNamesEntry /\ DoneIsKept /\ ReadsMatch

(***************************************************************************)
(* The bus tells the truth about the log: what is committed is what the    *)
(* master meant, and what it polls and reads is what was committed.        *)
(***************************************************************************)
BusIsTruthful == CommitsAreEntries /\ PollsAreTrue
=============================================================================
