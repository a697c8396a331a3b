# TLA+ models and proofs for aether-one

This directory holds TLA+ models of this repository: the Trust Anchor Unit in
`hardware/pqc-rtl/fpga/tau` (SystemVerilog), the TrustCore attestation server and the
edge node it attests (`pi2_trust_server`, `pi5_edge_node`, Python), the hash-chained logs
and the decision support under `concept/`, ML-DSA signing
(`hardware/pqc-rtl/dilithium-rtl`) and the ML-KEM reference (`hardware/pqc-rtl/m2-golden`). Every module is model-checked with TLC on a small
instance, and the central properties of the concurrent ones are proved with TLAPS for
every value of the constants. `PROJECT.json` ties every definition to the lines it models
and lists the hazards the properties are aimed at.

Contents: [inventory](#inventory), [modules and code](#modules-and-the-code),
[runs](#runs), [fairness](#fairness), [proofs](#proofs),
[assumptions](#assumptions-about-the-environment),
[differences found](#where-code-and-documents-differ),
[not modelled](#what-is-not-modelled), [plan](#plan).

To repeat a check: `tlc -workers 2 -config TauCore.cfg TauCore`, and for a proof
`tlapm Tau_proofs.tla`. Each run of the table below is one configuration; where its
module is not obvious, `PROJECT.json` ("runs") names it.

## Inventory

### Trust Anchor Unit (hardware/pqc-rtl/fpga/tau)

A synchronous design with one clock. All units below share it, so "concurrent" means:
several FSMs take their next value from the same edge, and a value one of them reads may
be one edge older or newer than its author thought.

**Audit log** (`pqc_tau_audit_log.sv`, `rtl/pqc_sha3_256.sv`).
State: the write FSM (S_IDLE, S_HASHING, S_COMMIT), the chain head, an 8-bit sequence
counter, a ring of LOG_DEPTH entries (chain hash, decision hash, valid bit), write_busy,
a one-cycle write_done with write_seq and write_chain_hash, log_count, log_full, and the
FSM of the SHA3-256 core. Operations: take a request, hash, commit; read an entry; reset.
Hard: the core's message is combinational and is read an unknown time after sha3_start;
ring and counter wrap at different writes; reset may fall in the middle of a write and
leaves the memories alone. Correct when: the ring is the tail of the chain, the digest
committed is that of the registers at the commit, the counters agree with the chain, and
a writer that samples write_busy loses nothing.

**Watchdog** (`pqc_tau_watchdog.sv`). State: silence counter, active threshold,
ecu_alive, a one-cycle timeout_event, timeout_count. Operations: heartbeat, threshold
configuration at any time, silent edge, reset. Hard: thresholds lowered below the running
counter, a heartbeat on the edge of the timeout. Correct when: it fires exactly when the
silence reaches the threshold, once between resets.

**TAU core** (`pqc_tau_core.sv`). Watchdog and ECU over one audit log: an arbiter, a flag
that keeps the pulse while the log is busy, a flag that names the source of an entry.
Hard: pulse, ECU request, commit and done on the same or on neighbouring edges;
ecu_write_accepted is driven by two always_ff blocks. Correct when: a timeout is never
lost, overtakes the ECU, is told apart from its entries, and the ECU is never told that
something was taken which is not logged.

**Integrated wrapper** (`pqc_tau_integrated_wrapper.sv`). Starts KeyGen, Decaps and
Encaps over the bus; per operation a busy bit, a sticky done, an event slot (STARTED or
COMPLETED) and an interrupt flag; a six-way arbiter over the log; HEARTBEAT and CONFIG
registers; data buffers. Hard: six requesters with individual "taken" conditions, START,
done and interrupt on three different edges, a core that runs on after the timeout.
Correct when: interrupts are logged exactly once and first, nothing is invented, and
done means what it says to an ECU that follows the protocol.

**KeyGen core** (`pqc_mlkem_keygen_core.sv`). An FSM of 28 states (four of them unused)
that calls SHA3-512, SampleNTT, SamplePolyCBD, the NTT core (stage by stage, from a
schedule of 64 entries) and SHA3-256, with nine counters and registers that several calls
share, and without a reset between calls or runs. Hard: two-edge stage_done, registered
read port, leftovers of a run cut off by reset, seeds rewritten during a run. Correct
when: done comes with the key pair of the seeds at START, every call finds its unit at
rest, every run ends.

**Encaps, Decaps** (`pqc_mlkem_encaps_top.sv`, `pqc_mlkem_decaps_*.sv`). A small FSM over
hashes and K-PKE.Encrypt, and one over two phases: decrypt, and encrypt again to choose
between the secret and the rejection secret. The encryption core (53 states) is shared; it
runs one NTT core through five transforms and two schedules, with accumulators, pipeline
registers and units that are never reset between them. The ciphertext and the keys are
wires from the wrapper's buffers, read in both phases. Correct when: done comes with the
secret and ciphertext of FIPS 203 for the buffers at START, every call finds its unit at
rest, every run ends.

**Wishbone wrapper** (`pqc_tau_wishbone_wrapper.sv`). The audit log and an NTT core on
one bus: a word-wise decision buffer, COMMIT, a sticky done with latched outputs, a
registered read path. Hard: the buffer may change the edge after COMMIT, a pulse polled
over a slow bus, an acknowledge that stays up for a cycle. Correct when: each COMMIT is
one entry with the words of that moment, and done names that entry and is never missed.

**NTT stage and bank mapping** (`rtl/pqc_ntt_stage_banked.sv`, `m2-golden/bank_mapping_*`).
Two lanes serve a transform from four single-ported banks through an if-else chain; a
mapping of 256 addresses to banks is searched for, checked against the schedule and built
in. Correct when: a mapping that passes the check computes the transform, and one that
does not pass would lose a write.

**ML-KEM and Keccak reference** (`m2-golden/*_golden.py`). NTT, sampling, compression,
K-PKE, FO transform, sponge. State: none between calls; the hard parts are numbering of
the zetas in three loops, the transposed matrix, rejection at the end of a buffer, the
padding at a block boundary. Correct when: both parties agree, an altered ciphertext ends
in the rejection secret, products are products, hashes depend on every byte.

**ML-DSA signing** (`dilithium-rtl/pqc_dilithium_sign_top2.sv` and its cores). A loop over
five cores with a register after each: masks, w = A y, challenge, z, hints; each of the
last two may reject the attempt, then kappa advances by L and the loop starts again. State:
the registers between the stages, kappa and the attempt counter, and in each core counters,
operand registers and results that outlive the attempt. Hard: leftovers of a rejected
attempt, of an earlier signature and of one cut off by reset; ports read at different times.
Correct when: done comes with the signature of the first attempt that passes.

**ML-DSA samplers** (`pqc_dilithium_sample_in_ball.sv`, `..._rej_ntt_poly.sv`,
`..._rej_bounded_poly.sv`). One block of hash output each, read candidate by candidate.
Hard: the end of the block. Correct when: the result is that of FIPS 204 for any block that
suffices, and a block that does not is reported.

**Datapath** (`rtl/`), the other ML-DSA units, the NTT prototype and experiments (`fpga/`),
vectors and testbenches, RISC-V vector code, OpenSSL provider, TVM glue: arithmetic over
coefficients, reference computations and build material.

### TrustCore (pi2_trust_server, pi5_edge_node)

**Server** (`core/trustcore/server.py`, two identical copies). State: `_NONCES` in memory
with expiry times, `devices.json`. Operations: GET /nonce (a plain `def`, so a worker
thread), POST /verify and POST /enroll (`async def`, so the event loop), prune, consume,
load and save. Hard: nonces shared by thread and loop, bundles lost, late or repeated, a
restart that empties the nonces, a rewrite of the registry that truncates first. Correct
when: a nonce is honoured once and in time, a PASS is fresh, a device told OK is held to
its baseline, no crash makes the server forget whom it knows.

**Edge relay** (`aether_relay.py`, `kri_engine.py`, `lr_core.py`). State: SENSOR_CACHE,
LAST_DECISION, and `_previous_state` of the engine, all module variables of one event
loop. Two tasks: `sensor_update_loop` (every 2 s: readings, LR evaluation, decision and
its hash) and `attestation_loop` (nonce, await, bundle, await, status). Endpoints, some
of which call `compute_kri` and so move `_previous_state`. Hard: what lies between two
awaits, a poll between two readings, an attempt that ends after the server accepted.
Correct when: a decision, the readings served with it and the readings signed with its
hash belong together; polls of /kri do not disturb the dissonance of the next decision;
PASS does not outlive a failed attempt.

**Client and keys** (`client.py`, `crypto.py`). The client signs a bundle over nonce,
PCRs, sensor hash and decision hash. PQCManager writes three key files one after the
other and loads them when all are there. Correct when: whatever crashes, the device keeps
one identity.

**Sensor readers** (`sensor_reader/`). The gas sensor on whichever converter answers; the
camera, whose activation is the change since the last frame, one frame for all endpoints.

### Chains on disk and decision support (concept/)

**TrustLog and decision records** (`lex-resiliens/.../trustlog.py`,
`golden_runner.py`, `karaokekoppi/.../decision_record.py`, `verify_decision_chain.py`). JSONL hash
chains: read the last hash, append, no lock; `tamper_test` rewrites the live log and puts
it back from a `.bak`. Hard: two writers, a line cut short and three readers that treat
it differently, a process that dies in the tamper test. Correct when: a log only one
process wrote is exact, a fork is never accepted, damage stays visible, no record is lost.

**Situation room** (`karaokekoppi`: `case_manager.py`, `weather_fmi.py`;
`l6_decision_matrix`, `decision-matrix`: what-if table, two simulators, recommendation
engine; `lex-resiliens`: `lr_open.py`, `wem_to_lr.py`, `docgen`). State: last index and
time of the last brief; everything else is a function of its input. Hard: debouncing with
a baseline that moves while it debounces, stations dropping out, prerequisites that raise
after the filters, thresholds of rounded numbers, formulas in file order. Correct when: a
lasting crisis is briefed, a further observation never hides one, advice is the best
sound advice, simulation changes only what a measure changes, better never scores worse,
the numbers of a document agree.

### How the components interact

    ECU --bus--> integrated wrapper --start/done--> KeyGen, Decaps, Encaps --> NTT, SHA3
                      |   ^ timeout_event
                      |   +---- watchdog <-- heartbeat, config
                      +-- arbiter --> audit log --> SHA3-256
    ECU --request--> TAU core (arbiter, watchdog) --> audit log
    ECU --Wishbone--> Wishbone wrapper --> audit log
    signing top --start/done--> ExpandA, ExpandMask, w, challenge, z, hint cores
                                     `--> NTT cores, SHAKE, SampleInBall, RejNTTPoly

    dashboard --polls--> edge relay (sensor loop | attestation loop) --> readers, KRI, LR
                              | bundle, verdict
                              v
                           server <--> devices.json        key files <--> client

    weather, grid --> hub, case manager, LR scores --> matrix, simulators, documents
                                   `--> decision records, trust log (JSONL)

## Modules and the code

One step of a hardware module is one rising clock edge. Every register takes its next
value from the values before the edge; units that change on the same edge are
conjunctions, not interleavings. Reset is an action of its own and may fall on any edge.
SHA3 and the other functions are free constructors (two results are equal only if their
arguments are), and a latency is any number of edges. One step of the server is one
handler, split where the code can be observed in between (the file rewrite); one step of
the edge node is what happens between two awaits; one step of a log is what a process does
between two accesses to the file.

| module | models | state and actions |
|---|---|---|
| `Journal` | what the log promises | decisions recorded, one in flight; Take, Record, Reset |
| `AuditLog` | `pqc_tau_audit_log.sv`, FSM of `pqc_sha3_256.sv` | register by register; Idle, Accept, Hashing, Commit, each with a step of the hash core; LogReset |
| `Watchdog` | `pqc_tau_watchdog.sv` | Configure with Heartbeat, Count or Expire; WatchdogReset |
| `TauCore` | `pqc_tau_core.sv` | EXTENDS AuditLog and Watchdog: TauClock is an edge of both and of the arbiter. The double-driven ecu_write_accepted takes either value. An observer of the heartbeat line keeps `silence`, the edges since the last heartbeat (Beat, Silent) |
| `Operation` | what an operation promises the wrapper | Begin, Finish, Quiet, Reset |
| `TauIntegrated` | `pqc_tau_integrated_wrapper.sv`, outsides of the three operation FSMs | EXTENDS Watchdog, uses the log as Journal; IntClock is the edge of all registers: cores, busy, sticky, interrupts, events, arbiter |
| `MlKemKeyGen` | `pqc_mlkem_keygen_core.sv`, unit and NTT handshakes | each action is one state, or one loop of states, of the FSM; UnitsEdge and NttEdge are the units on that edge; Ecu is the wrapper's seeds and START |
| `CalledUnit` | what a unit that is started and waited for looks like outside | IdleUnit, UnitAfter, UnitReset |
| `KemTerms`, `NttPass` | data of the Encaps and Decaps cores as free terms; load, stages and read-back of one transform | operators; the six states of a transform, under the names FWD, INV, INV_U and INV_V give them, and NttEdge |
| `MlKemEncrypt`, `MlKemDecrypt` | `pqc_mlkem_decaps_b1_core.sv`, `..._decaps_a_core.sv` | each action is one state or one loop of states; Clock and Reset of the core with its units |
| `MlKemEncaps`, `MlKemDecaps` | `pqc_mlkem_encaps_top.sv`, `..._decaps_top.sv` and the wrapper's buffers | the top FSM over the cores above (INSTANCE); Ecu |
| `MlDsaTerms`, `MlDsaCore` | data of signing as free terms, and one attempt of FIPS 204; what the arithmetic cores share | operators |
| `MlDsaSampling` | `..._expand_a.sv`, `..._expand_mask_vector.sv`, `..._sign_challenge.sv` | the three cores that call a sampler: one action per state or loop of states |
| `MlDsaW`, `MlDsaZ`, `MlDsaHint` | `..._sign_w_core.sv`, `..._sign_z_core.sv`, `..._sign_hint_core.sv` | one action per state or loop of states; Clock, Reset |
| `MlDsaSign` | `pqc_dilithium_sign_top2.sv` | EXTENDS MlDsaSampling: the loop over the six cores: DeriveSeeds, ExpandMatrix, Commit, Challenge, Respond, Hint; User |
| `MlDsaSamplers` | `..._sample_in_ball.sv`; `..._rej_ntt_poly.sv` and `..._rej_bounded_poly.sv` | `sampler` says which; TakeSigns, InitCoeffs, SampleIndex, Swap (ball); Begin, Sample (reject); ShakeEdge for the sponge, Reset |
| `TauWishbone` | `pqc_tau_wishbone_wrapper.sv` and a bus master | EXTENDS AuditLog: Buffer, CommitPulse, DoneBit, Read and Master on each edge |
| `Challenge` | what the server promises of its nonces | Issue, Answer, Forget |
| `TrustServer` | `server.py`, devices, network | GetNonce, Handle (Verify: FirstSeen, NotEnrolled, KeyMismatch, Migrate, Check; Enroll), Saved, Crash, Restart; Attest, RequestEnroll, Lose, Tick |
| `EdgeNode` | `aether_relay.py`, `kri_engine.py`, `lr_core.py`, `sensor_reader/`, `crypto.py`, `client.py` | the scores as operators (Rse, Kri, Deltas, Flags, Status); the readers (CamFrame, CamMock, Mq9Readings); the key files (LoadKeys, GenerateKeys, WriteKeyFile, LoseKeys); the relay: Start, Client*, Crash, SensorUpdate, Poll*, AskNonce, PostBundle, ServerVerifies, TakeVerdict, AttemptFails |
| `ChainedLogs` | `trustlog.py`, `golden_runner.py`, `decision_record.py`, `verify_decision_chain.py` | formats, readers and verifiers as operators (ReadAll, TrustVerify, DecisionVerify, Golden); Build and Append by each process, WriterDies, the steps of tamper_test, TestDies |
| `DecisionMatrix` | catalogues, simulators, recommendation engine, what-if table | operators |
| `LexResiliens` | LR scores, market bridge, document engine | operators |
| `SituationRoom` | hub, weather lock, case manager, and the users of the two above | a session at one desk: the hub, the matrix, the scores, the bridge, the document |
| `MlKemGolden` | `m2-golden`: ring, sampling (its loop with both guards), K-PKE, FO transform; the banked stage and check_mapping | operators; LaneCycle, one cycle of the schedule |
| `KemExchange` | Keccak's sponge (padding, absorption in lanes by both of its loops, squeezing), and the regression and self-checks that use the reference | KeyGen, Encaps, Corrupt, Decaps; AddTerm, Draw, Extend, RunLanes |
| `*_proofs` | theorems about the module of that name; `Tau_proofs` about AuditLog, TauCore, TauIntegrated and TauWishbone, which share the log and the watchdog; `MlKem_proofs` about MCMlKem, with the lemmas of `MlKemEncrypt_proofs` about the core in both operations; `MlDsa_proofs` about MlDsaSign and MCMlDsa; `SituationRoom_proofs` about ChainedLogs and MCSituationRoom | |
| `MC*` | values of the constants | MCMlDsa, MCMlKem and MCSituationRoom hold two units that do not interact in one run: `unit`, `op` and `room` say which of them moves in a behaviour, and never change |

Refinements, each a property of a run and a theorem: AuditLog implements Journal (checked
inside the TAU core, whose arbiter drives the log), MlKemKeyGen, MlKemEncaps,
MlKemDecaps and MlDsaSign implement Operation, TrustServer implements Challenge. TauIntegrated uses the two hardware promises in place of
the units (Journal by INSTANCE; CoreOf is Operation's Begin and Finish), which is what
keeps its state space small. EdgeNode uses the server by what it does with a nonce.

Variants. Beside many definitions stands a second one with a defect a maintainer could
introduce (`SlotOneShort`, `PendingOneCycle`, `StickyNotCleared`, `ConsumeKeeps`, ...).
They are not used by any specification. `PROJECT.json` ("mutants") says which property
each of them violates when it is put in the place of the real definition; with them a
reader can see that no property holds by accident.

History variables record what a correct observer would know: `asked`, `ackedWrites`,
`chainAtTimeout`, `busyAtTimeout`, `silence`, `happened`, `ignored`, `entriesAtTimeout`, `used`,
`committed`, `awaiting`, `mismatched`, `honoured`, `passes`, `acked`, `attempted`,
`enrolments`, `foreign`, `identities`, `concluded`, `recorded`, `disturbed`, `verdicts`,
`crisisSince`, `ending`. No guard that models code reads one; the environments' guards may (an ECU
that waits for done).

Numbers. KRI and LR values are integers in twentieths, scores and resilience in
hundredths; where the code's floats decide a tie at a boundary, both outcomes are steps
(Drops). The numbers of a document are exact fractions. The ML-KEM reference runs on a
ring of 16 coefficients modulo 193 with every parameter a constant; 256 and 3329 are
others (ETA1 2 and ETA2 1 there; 3 and 2 in ML-KEM-512). Hash functions of that model are
small tables, chosen so that messages that differ in one bit get different noise and no
decryption failure is met; the Keccak permutation is a constant, given to TLC as a map that
loses nothing, since only then can a byte that is absorbed be seen to count.

## Runs

Bounds name a constant of the module. "Deadlock off" is set where the bound on STARTs,
commits, nonces, records or time ends the environment, not where the system could get
stuck.

| run | instance | shows |
|---|---|---|
| `tau_core` | sentinel and 1 decision, LogDepth 2, SeqMod 4, MaxWrites 4, thresholds 0 to 2 | RingHoldsTail, OutputsMatchLog, ImplementsJournal, TimeoutReachesChain, EntriesAreAttributed, DegradedOnlyBySilence, SilenceIsLogged |
| `tau_integrated` | all three operations, 2 STARTs in all, the next of an operation after its done | LogTellsTheTruth, DoneMeansDone, NobodyIsLeftWaiting |
| `tau_integrated_completes` | keygen, 1 START | InterruptedNeverCompletes is violated |
| `keygen` | 2 seeds, Coeffs 2, Entries 2, 2 STARTs, 1 reset | KeyPairCorrect, ImplementsOperation, RunsEnd |
| `kem_cores` | Encaps: 2 keys, 2 messages; Decaps: 2 ciphertexts of 2 keys, one altered; K 2, Coeffs 2, 2 entries, 2 STARTs, 1 reset | ResultsCorrect, AreOperations, CallsFindRest, RunsEnd |
| `mldsa` | signing: 2 inputs, K, L and Coeffs 2, one input rejected by z, then by the hints. Samplers: 3 coefficients, 2 of them set, blocks of one byte of signs and three more; 2 coefficients from 4 candidates. 2 starts, 1 reset | SignatureCorrect, SamplesCorrect, ImplementsOperation, AllRunsEnd |
| `tau_wishbone` | 2 words of 1 bit, LogDepth 1, SeqMod 2, 2 commits, NTT starts | BusIsTruthful |
| `trust_server` | 2 devices, at most one of them on record by an earlier version, 2 measurements, 2 nonces, Ttl 1, 1 tick, 1 crash; symmetric in devices and in measurements | PassesAreEarned, RegistryIsKept, ImplementsChallenge |
| `edge_node` | 2 readings, 2 decisions a boot, 2 nonces, 1 crash, with and without liboqs | DecisionBelongsToInputs, OneIdentity, PassIsCurrent, BaselinesServeAll, AttestationReports |
| `situation_and_logs` | the real catalogues and rules, 3 stations, 4 ticks, 3 entries a file. Logs: 2 processes, 3 records, 1 death, 2 tamper tests, either log; symmetric in the processes | CrisisIsBriefed, AdviceIsHonest, NumbersAgree, JudgementsAreMonotone, RecordsAreReliable, DamageStays |
| `document_duplicates` | as `situation_and_logs` | DuplicatesAreRefused is violated |
| `kem` | 16 coefficients modulo 193, K 2; 2 seeds, 2 messages, 1 inverted bit; 4 mappings; messages to 5 bytes, rates 2, 3 and 4, lanes of 2 bytes | SecretsAgree, AlteredIsRejected, PartsAreExact, BanksComputeTransform |

Each property is stated with a comment at its definition; some are conjunctions of named
parts (BusIsTruthful is CommitsAreEntries and PollsAreTrue), which have one each. Why the bounds suffice:

- *tau_core.* Four entries fill and overrun the ring of two and wrap the counter once, so
  a slot is overwritten before and at the wrap; the timeout can fall on every phase of a
  write and at every fill level. Every threshold from 0 (fires at once) to 2 can replace
  every other in the middle of a silence. The bound is on the writes between two resets;
  resets are not bounded. The proofs remove all of it.
- *tau_integrated.* The two STARTs are counted over all operations: a timeout may find two
  of them busy, in any order of START, done and event, or one that is started again around
  it. Three operations busy at once would need a third START, with which the run's liveness
  no longer fits; what is said of interrupts and of the order of the log is proved for any
  number of STARTs (LogTruthful), and so is DoneMeansDone (DoneIsDone). Threshold 1 lets a
  silence of two edges fire; heartbeats at any time place it at any edge. Configuration is
  left out here (`tau_core` covers it); the theorem LogTruthful allows it, and an ECU that
  starts what it likes when it likes.
- *keygen.* Two coefficients and two stages are the least for which first, middle and last
  count differ; every loop runs more than once (K is 2 as in ML-KEM-512). Two runs
  and a reset at any edge of either give every leftover a run can find. A stage cut off
  by the reset leaves any subset of its writes.
- *kem_cores.* As `keygen`; two keys and two messages (or ciphertexts) differ in every
  term made of them, so anything left from the first run, or from one cut off by the reset
  at any edge, shows in the second. The altered ciphertext takes the other branch of the
  comparison than the honest one. The two requests of Encaps are alike, so the first START
  may be taken to be of the first.
- *mldsa, signing.* A rejection by z leaves the hint core at the attempt before, one by the hints
  leaves all cores full; both come before an attempt that passes, and a signature that
  passes at once comes before or after. Two rows, columns and coefficients make every loop
  count from first to last, and a coefficient, row or mask out of place gives another term.
- *mldsa, samplers.* Every block is tried: enough at the first candidates, only with the
  last, one short, none at all; twice in a row, so that each result meets the leftovers of
  every other. A byte of the challenge may be below, at and above the running index.
- *tau_wishbone.* Two words are the least that can be torn; a ring of one and a counter of
  two wrap at the second commit.
- *trust_server.* Two nonces allow a verify and an enroll, of the same or of different
  devices, in each order and delivered again; the crash may fall into either rewrite;
  one tick is the expiry boundary (Ttl 1). The record of an earlier version lacks a key
  and has a baseline, or is of another key than the device now presents; the other device
  enters devices.json beside it.
- *edge_node.* Two decisions and polls in between are what a stale delta needs; two
  attempts are what a stale verdict needs; the crash may fall between any two files and
  into any of them. The calm and the alarming reading differ in every flag, and two levels
  of brightness with the stream failing at any frame give every order of frame and mock.
- *situation_and_logs, logs.* A fork needs two records on one predecessor and a third shows what
  later appends make of it; damage likewise. The second tamper test is the one that meets
  what an interrupted first one left.
- *situation_and_logs, session.* Three ticks pass the window of two. The catalogues, thresholds and weights
  are the repository's own; inputs are at, below and above the thresholds.
- *kem.* Ring arithmetic is linear in each factor, so products of up to two terms with
  unit, small and -1 coefficients meet every pair of positions. The sampling rounds
  contain Q - 1, Q and pairs of which either half or both are refused, at every fill of the
  buffer, and buffers end before, at and after the last coefficient. Rates of one lane, of a
  block and of a lane and a half put messages of up to five bytes on both sides of each
  boundary; their bytes are those that padding could be mistaken for.

## Fairness

Liveness is only claimed from what the code guarantees:

- the clock runs: weak fairness of the step with reset low. No edge is promised to have a
  heartbeat, a START, a request or the absence of a reset, so each liveness property has
  a way out through reset;
- a hash core, unit or NTT stage that has started finishes: the latencies are constants of
  the RTL (MonitorSpec: WF of a step with CoreProgress; WF of Clock(TRUE) in MlKemKeyGen,
  MlKemEncaps, MlKemDecaps, MlDsaSign and MlDsaSamplers, in the MC modules of the one
  that is clocked);
- in TauIntegrated, a log entry in flight is recorded, which is the hash core's progress
  in AuditLog, and a run ends, which is RunsEnd of the three operations' own modules;
- in MlDsaSign a unit that samples ends. MlDsaSamplers shows the exception, a block that
  lacks exactly one coefficient (MostRunsEnd leaves it out); FIPS 204 makes that block one
  of very many;
- in EdgeNode, the event loop runs: startup finishes, the sensor loop turns, an attempt
  ends (httpx gives up after ten seconds). Nothing is promised of the server, of restarts
  or of the dashboard.

TrustServer, ChainedLogs, SituationRoom and KemExchange have no fairness: nothing they
promise is eventual, except CrisisIsBriefed, which is stated with the clock.

## Proofs

`Tau_proofs`, on the log (`TypeCorrect`, `RingCorrect`, `CountersCorrect`, `FreshDigest`,
`HandshakeExact`, `OutputsCorrect`, `ChainAppendOnly`, `Implements`). Assumptions:
LogDepth > 0, SeqMod a multiple of LogDepth and larger, Undefined not a decision. The
invariant IInv is a phase part (for each state of the write FSM, what write_busy,
sha3_start, sha3_done and the hash core may be, and, once the core has absorbed, that its
digest is the one of the registers as they are now) and a safety part (ring, counters,
outputs). Neither is inductive alone: RingHoldsTail needs the digest at the commit, and
the digest needs to know that head, decision and counter do not move until the commit.
The arithmetic is one lemma: LogDepth consecutive numbers have distinct slots, also across
the wrap, because the depth divides the range of the counter (SlotsDiffer,
ResidueUnique). A depth that does not divide 256 would break the ring, which is why
SeqModAssumption is there; the depth in the code is 64.

The same module proves `BusTruthful` of TauWishbone, for every width of a decision, depth
of the ring and number of COMMITs. The log's invariant holds for any driver, so only the
bus side is new: the request is the words of the COMMIT from the pulse to the edge the log
takes it, and there is never more than one (OneOutstanding: Settled, Offered or Hashed),
because the master waits for done (MasterWaits); the sticky done is up only when nothing
is outstanding, with the outputs of the last entry (DoneLatches); and an acknowledged read
is answered with the register it asked for (Answers).

The watchdog comes as lemmas, used for the core and for the integrated wrapper: its types
and, for any driver of its inputs, that the event is raised exactly when ecu_alive falls,
and that nothing but reset raises ecu_alive.

On the core it proves `TauTypeCorrect`, `NeverLost`, `GoesFirst`, `ReachesChain`,
`FlagCorrect`, `TauRingCorrect`, `Attributed`. TauInv joins the log's invariant, which
holds for any driver of its port (ResetInductive and ClockInductive are reused as they
stand), the watchdog's, and three facts about the arbiter: its types; where a timeout is
(TimeoutPlaced: waiting, in progress or logged, with at most one other entry before it
since it was raised); and that the source flag follows the decision from the edge it is
taken to its report (FlagTracksDecision). The proof goes by the four cases of an edge of
the log. `Attributed` says of each decision of the ECU that acknowledgements, entries and
requests bound one another: no acknowledgement without an entry, no entry without a request
made of a free log, and no such request without its entry or a sentinel that took its place.
The converse of the first does not hold, because ecu_write_accepted has two drivers and an
entry may stay unacknowledged. Its invariant (AccountInv) adds the sentinels still to come:
none before the timeout, then one if a write was in progress and two if the log was free;
so once nothing waits any more, the sentinels are exactly as many.

Also about the core are `DegradedBySilence` and `MonitorOnlyReads`.
While the ECU is alive the
watchdog's counter is the observer's silence (CounterIsSilence), whatever thresholds are
configured; and the observer is a pure reader, so that everything proved of the core
holds with it.

On the integrated wrapper (`LogTruthful`). Two parts. CountInv counts: an interrupt is in the
log, being logged or waiting exactly as often as it happened, at most once, and other
events at most as often. It needs NoneYet (up to the edge that reports the timeout no
interrupt has happened), since otherwise a second timeout could set a flag that is still
up; and InterruptStep: of the six requesters, which all see the log idle, exactly the one
whose entry is taken is lowered. OrderInv speaks of the entries taken (the log with the
one in progress at its end), which grow in one way only: interrupts come in the order of
priority, each waiting one is behind all that were taken, and since the timeout at most
one other entry was taken. Recording leaves the sequence as it is, so the order of the
log follows.

`DoneIsDone` is about the done bit, and holds of the ECU that waits for it (Discipline is
"done"; without that it is false). The write on the bus, the core, its done pulse and the
flag follow each other edge by edge; with such an ECU at most one of the four is up for an
operation (OneAtATime: fresh, commanded, running, finishing or ready), so a START meets an
idle core and no done of an older one comes after it.

`MlKemKeyGen_proofs` (`CoreIsOperation`, `CallsAtRest`). The first follows from the
step alone: every action but Begin and Complete stays inside a run. The second needs
AtRestInv: a unit that is not idle, or is being started, is the one the FSM waits for
(CallInv); a stage runs, or its done is up, only in the states where the FSM expects it
(StageInv); load_valid is down there (LoadShape). Leftovers of a reset are
the reason the invariant speaks about load in every state.

`KeysAreOfTheSeeds` is the functional correctness of the core: done comes with the key
pair of the seeds at START, for every rank, number of coefficients and schedule. PairInv
adds to AtRestInv what the registers hold in each state as a term over the seeds
(DataInv: rho and sigma, the vector s, the row of A, the accumulator, the nonce; ResultInv:
which part of the key is stored), and what the banks hold (BankShape, BankInv: during the
load the first coefficients, between two stages the memory after that many entries of the
schedule, during the read-back the whole transform). The memory after n entries is a
recursive function; that it exists (MemoryExists) is by the least number for which it
would not, which the library's theorem on well-founded orders supplies.

`MlKem_proofs` (`CallsAtRest`, `CoresAreOperations`, `ResultsAreCorrect`), for encapsulation and
decapsulation. The encryption core is in both, behind different inputs, so what is said
of it is proved in `MlKemEncrypt_proofs` for any driver of them: RestInv, like AtRestInv
above, is a part for the units (CallInv) and one for the stages (StageInv), and every
edge of the FSM is reduced to what it does to one unit (FsmToUnit) and to the transform
(FsmToStage) before any case is split. `MlKem_proofs` takes those lemmas for each of the
two drivers; that the core they speak of is the one the model clocks is a handful of lemmas that
only expand definitions (EncapsInstanceClock and its like). RestInv does not
mention the inputs, so one invariant serves the run of either operation. That they are
operations needs no invariant: done is high for the one edge after the state DONE.

`ResultsAreCorrect` is the functional correctness of both operations, on the pattern of
KeysAreOfTheSeeds. DataInv of `MlKemEncrypt_proofs` says, of values w on the core's wires,
what each register holds in each state as a term over w, up to Encrypted: the ciphertext is
K-PKE.Encrypt of w and the secret the one its comparison with w's ciphertext selects. It is
kept as long as the wires carry w in a run (DataStep), whatever the registers, the counters
and the NTT memory held before. PassInv is the same for one transform; it is proved once,
for any six states of a schedule (PassKeepsInv), and used for the three transforms of that
core and the two of the decryption core, whose invariant is APhaseInv. The inductive
invariant of the whole (ResultsInv) joins them: each core runs in its own state of the top
module and rests in the others (EncapsCore, DecryptCore, EncryptCore), what its wires carry
is fixed while it runs, because the wrapper does not rewrite the buffers in a run and the
registers of a resting core stay (RegistersStay, ARegistersStay), and it is what the phase
before has computed. The law that decryption undoes encryption is not needed: that the core
rounds the polynomial of Algorithm 15 and compares what Algorithm 14 gives for it holds for
any ciphertext. Hypothesis: SizeAssumption, at least one coefficient and one entry.

`MlDsa_proofs`, on signing (`SigningIsOperation`, `CoresAnswer`, `SignatureIsAlgorithm7`). The
loop has no length of its own: the argument goes edge by edge, with the attempt as a
parameter. CallsMatch has a part for each hash unit and each core (MuCalls up to
HintCalls): it is at rest unless the FSM waits for it, what it was called on stands on its
ports until it answers, and what each of its own states has made so far is a term over
that. StagesKnown is the
top level: in each state of the FSM the registers of the stages that are over hold the
terms of Algorithm 7 for the attempt whose number stands in iter, and no attempt before it
has passed. It takes CallsMatch as it stands; CallsMatch never mentions an attempt, which
is why the leftovers of a rejected one can do no harm. That the verdict a core computes is
the one the input's fate names for this attempt needs that the terms of two attempts
differ (CommitmentsDiffer, HashInputsDiffer, ScaledDiffer). Hypotheses:
SizeAssumption; FateAssumption, the verdicts of the norm checks are a sequence for each
input, and some attempt passes.

On the samplers (`SamplersAreRight`), for every block, tau and length. SamplersRun: the hash
is called once in a run and its block stays (ShakeCalls). For the challenge, BallShuffles
relates the FSM to Algorithm 29, a recursive function over the indices (BallOf, whose
existence is shown as that of the NTT memory): as long as the block has enough bytes the
coefficients are the algorithm's at the same index, and the bytes between its last one and
the FSM's are all too large (InStep). Where it has too few, the FSM can still swap, by the
last byte once more; the invariant then keeps the count, Placed coefficients that are not
zero (Sparse), for which it needs that every coefficient from the running index on is
still zero. For the others PolyRuns counts: as many are accepted as fit before `at`, and
no two candidates that fit come after equally many (FitsInOnePlace). Hypothesis:
SamplerAssumption, what the constants are.

`TrustServer_proofs` (`HonouredOnce`, `NoncesAreChallenges`, `PassesEarned`,
`RegistryKept`, `TornForever`). NonceInv: a nonce that is live has been issued and not
honoured, and an honoured one is never live again; NetworkInv: a bundle carries one of the
nonces. Handlers only shrink `live` and only an issue of an unused nonce enlarges it. For
the registry, RegistryInv follows a save through its two steps: the file, or the contents
about to replace it, hold everybody that was passed and every baseline that was
acknowledged with the device's key, or one attempted later whose acknowledgement a crash swallowed. TornForever
is the price of the rewrite in place: a file cut short is never mended.

`EdgeNode_proofs` (`IdentityIsOne`, `VerdictIsCurrent`, `DecisionsBelong`, `BaselinesServe`). FilesInv: the
metadata is written last, so once it is there, cut short or not, both halves are of the
newest generation, all three files exist, and no later start generates; before that no
pair has ever been in use. VerdictInv follows PASS from the server's answer over the await
to the cache; DecisionInv the decision's hash, its readings and the bundle made of them. BaselinesServe
is an action property of the two values remembered between readings, the camera's frame
and the engine's previous state. NodeAssumption says what the readings are.
Assumptions: Absent, Torn and None are no numbers and differ.

`SituationRoom_proofs`, on the logs (`RecordsReliable`, `DamageIsKept`), for any number of writers,
records, crashes and tamper tests, and both logs. LogInv: as long as nothing overlapped
there is one writer or one test at work (OneAtATime), and then the file and its .bak are
known at each stage (TestFile), a log without a crash is exactly the records in their
order, each on the one before it (Whole, Exact), and the file or the .bak keeps what was
acknowledged (Saved). Two parts need no invariant. A fork is seen in *any* file: in an
accepted one each line's hash is the next line's prev, so two equal prevs would repeat a
hash, and a hash contains its predecessor (NoForks, by the least position that would
repeat). And marking a record changes its hash's argument (TamperingIsSeen). Hypothesis:
LogAssumption, that is, payloads are as the module describes them (PayloadAssumption, which
TLC evaluates) and Bad, None and Idle are none of the records.

The same module, on the situation room (`CrisesAreBriefed`, `JudgementsHold`,
`NumbersOfDocumentsAgree`). BriefInv: while a crisis lasts, a
case was opened no longer than the window before the last evaluation, however far apart
the evaluations are and whatever the window; so a crisis older than the window has one in
it. JudgementsHold is an action property, with an invariant (Judging) that only ties the
last answer to its input; the work is in the operators:

- WorstTwo of a finite set of stations is the least sum of two of them (WorstTwoIs), so it
  falls when the set grows, and both readings of it, status and time_p, fall with it;
- one component of the scores is a rounded quotient of two sums over the functions that
  have a score. The sums are the folds of FiniteSetsExt, shown to exist and to grow with
  their summands by least counterexamples (SumsExist, SumGrows): raising one function by
  what counts of it (a score off the scale counts as its end) raises the numerator
  strictly, and then no rounding of it, ties going either way, is below one of the old
  (ComponentGrows);
- more flow over less capacity leaves no larger margin (QuotientGrows, MarginFalls).

NumbersOfDocumentsAgree has two inductions over data, again by least counterexamples.
Every node has a value, as no set of nodes refers only to itself (EvalExists); a value that
was found does not change when names are added (EvalKeeps). Then along the file: after each
entry the namespace is the facts and the formulas so far, each with its value over this
very namespace (Agreed), because a new key is in none of what is there: not among the
facts, the overlap check sees to that, and a repeated key is computed once. Where no key is
entered twice, what safe_load keeps of a key is its one entry (LoadedIsEntry); without that
premise the theorem is false, which is the run `document_duplicates`. Hypotheses, which TLC
evaluates: ClockAssumption, WeatherAssumption, ScoreAssumption and MeasurementAssumption say
what the constants are, EntryAssumption that expressions are syntax trees, TreeAssumption
that the trees are finite.

Only model-checked, and why:

- everything under fairness (SilenceIsLogged, NobodyIsLeftWaiting, RunsEnd, AllRunsEnd,
  AttestationReports): liveness and ENABLED are out of this prover's reach;
- AdviceIsHonest: the recommendation engine filters and sorts sequences, and nothing is
  known to the prover of SelectSeq and SortSeq; its catalogues are fixed, so the run covers
  every table, and only the tolerances, plans and lock states it enumerates are a choice;
- KemExchange and MlKemGolden, whose operators are RECURSIVE: those runs compare an
  algorithm with a reference over bounded inputs.

Induction over data as the library states it is not to be had, its theorems take an operator
as a parameter; where a proof above speaks of a recursive *function* (the NTT memory of
MlKemKeyGen, Kept of ChainedLogs, the syntax trees of LexResiliens), a least counterexample
takes its place.

## Assumptions about the environment

- ECU of the theorem LogTruthful: none, it starts what it likes when it likes. Of the run
  `tau_integrated`: it waits for the done bit before the next START of the same
  operation, and a run outlasts the write of its own STARTED entry (a run is thousands of
  edges, an entry one SHA3-256).
- ECU of `keygen`: d_seed may be rewritten at any time, z_seed not during a run: the core
  reads it at the end (`pqc_mlkem_keygen_core.sv:424`). START may come at any time.
- ECU of `kem_cores`, user of the signing in `mldsa`: buffers and ports are held during a run;
  START may come at any time. Decryption undoes encryption: the one law of the terms.
- Signing: some attempt passes, before the 8-bit attempt counter wraps.
- Bus master of `tau_wishbone`: commits after it has seen the last commit done, and
  releases the bus for a cycle after a transfer, as the testbench's tasks do.
- Keccak permutation of `kem`: an invertible map, which the property that every byte counts
  needs.
- Devices: a device keeps the key its id is made of (only a record from before may name another
  key); a signature verifies unless the bundle was damaged. A device may report any measurement, or none.
- Server: handlers run to the end without an await once the body is there, so
  two of them do not overlap; only /nonce, in its worker thread, falls into a rewrite of
  the file. A crash leaves the file torn or complete.
- Edge node: the sensor loop has decided before the first nonce is asked for (its task is
  created first). A crash cuts at most the file that is being written.
- Logs: a line is written whole or, by a process that dies, cut short.
- Case manager: the wall clock is not set back. Its caller is not in the repository; the
  model's hub calls it with any snapshot.

## Where code and documents differ

With a run:

1. *An interrupted run is later logged as completed* (`tau_integrated_completes`). On a
   timeout the wrapper only lowers `keygen_busy` (`pqc_tau_integrated_wrapper.sv:202`);
   the core runs on, and its end puts COMPLETED behind INTERRUPTED.
   `M4_TAU_001_INTEGRATION_STATUS.md:77-78` promises either the one or the other, `:101-103`
   that no completion entry follows an interruption.
2. *A fact entered twice does not stop the build* (`document_duplicates`). `engine.py:69` loads
   the file with `yaml.safe_load`, which keeps the last of two entries; `engine.py:8-11` and
   `facts.yaml:5-7` promise a crash.

Stated by a property that holds, of what the code does where a document says otherwise:

- *One timeout is logged twice* (SentinelsAreDue in EntriesAreAttributed). `timeout_event` asks
  for the log and sets `pending_watchdog_write` on the same edge (`pqc_tau_core.sv:82-83`,
  `:92-94`); a log that is free takes the sentinel at once, and once more when that write is
  done. `pqc_tau_core_tb.sv:108-111` and `M4_TAU_001_STATUS.md:150` expect one entry of the
  watchdog; the testbench counts after the first. The property says that it is always two
  when the log was free and always one when it was not.
- *Asking for advice at high tolerance can raise* (RaisesOnlyForBlackouts in AdviceIsHonest).
  `recommendation_engine.py:129` proposes targeted blackouts alone, whose prerequisite
  `action_simulator.py:143-151` then misses; `:51` and `:59-62` document "high" as a value
  the call answers. It happens exactly with the Reserve or the Time lock critical.

Noticed while reading, without a run of their own:

- TAU: the log's slot for a read is valid by slot, not by index
  (`pqc_tau_audit_log.sv:49`, `:153`), `log_count` saturates (`:52`, `:137`) and `log_full`
  rises with the first overwritten entry (`:53`, `:138`). `timeout_count`
  (`pqc_tau_watchdog.sv:40`) never passes 1 between two resets.
- Integrated wrapper: a second event overwrites the one that waits (`:250`, against the
  header's `:9-11`), START is ignored while the core of an interrupted run is still busy
  (`:23`), and AUDIT_STATUS shows the one-cycle `write_done` unlatched (`:404`).
- ML-DSA samplers: `pqc_dilithium_sample_in_ball.sv:110-113` leaves byte_idx on the last
  byte and samples on with it; its comment says that the next index then runs out of bytes
  at once (BallCorrect holds all the same). `pqc_dilithium_rej_ntt_poly.sv:94-96` and
  `pqc_dilithium_rej_bounded_poly.sv:92-93` enter neither S_EXHAUSTED nor S_DONE when the
  last candidate of the last coefficient is rejected, where the port's comment (`:38`) and
  `DK2_STATUS.md:24-25` promise error_exhausted (MostRunsEnd needs the exception).
  error_exhausted is high one edge before done (`pqc_dilithium_rej_ntt_poly.sv:104-117`)
  and low at done, where the testbench samples it (`..._tb.sv:53`). The first two need
  blocks of hash output that hardly exist at the real sizes.
- Wishbone wrapper: an NTT start clears the log's done flag
  (`pqc_tau_wishbone_wrapper.sv:136`), a COMMIT during a write is dropped (`:14`, `:142`).
- ML-KEM: `M4_MLKEM_ORCH_001_STATUS.md:91-96` says the shared units need no reset between
  calls; that is confirmed (`UnitsAtRest`, `CallsAtRest` in MlKemKeyGen_proofs). `z_seed` is
  read only when the run ends (`pqc_mlkem_keygen_core.sv:424`).
- Trust server: a baseline register the device does not report passes (`server.py:182`
  against `:10`). /enroll stores a body that JSON cannot write back (`:205`, `:276`; the
  action EnrollRaises). GET /attestation of the relay reports the last result only, with no
  age (`QUICKSTART.md:148`, `NETWORK_SETUP.md:280-284`).
- Edge node: the `decision_hash` served at /decision cannot be recomputed from what is
  served, because the inputs by then hold the hash. /node_status_realtime feeds S*500 and
  E*100 to the KRI, so its number differs from /kri's. Polls of /kri alone never show
  dissonance: they compare a reading with itself.
- Logs: a crash in `tamper_test` can leave a shortened log that `verify()` accepts, and a
  second test replaces the .bak of the first (`trustlog.py:117` promises a restore).
- The guide's worked example is not what the engine answers. For the snapshot of
  `DECISION_MATRIX_GUIDE.md:12-30` it ranks industrial demand response with reserve power,
  reserve power with emergency communication, residential demand response with reserve power
  (index +0.14, +0.13, +0.12). The guide (`:54-105`) prints the first of these (+0.18), then
  reserve power alone (+0.12), then residential demand response with emergency communication
  (+0.07). AdviceIsHonest is about the engine's own filter and score, not about the guide.
- Decision support: an index that drops during the debounce is never briefed. A missing
  index counts 1.0 in the case manager and the what-if, 0.0 in the simulator. Both
  simulators turn UNKNOWN into WEAK. Prerequisites "executed first" are not checked for
  order. A recommendation may worsen another critical lock.
- Document generator: `build.py:22` reads `facts.yaml` a second time.
- NTT banks: every level-6 quadruple of the schedule is, as a set, one of level 5, which is
  why both versions of the SAT proof agree; `conflict_flag` does not compare a lane with
  itself (`pqc_ntt_stage_banked.sv:140-147`).

## What is not modelled

| Part | Why |
|---|---|
| ML-KEM datapath (butterflies, samplers, codecs, Keccak rounds in RTL) | 256 coefficients of 12 bits are out of TLC's reach; free constructors in the models of the cores, the algorithms at 16 coefficients in MlKemGolden |
| Keccak permutation | a constant of KemExchange: nothing around it depends on what it computes |
| Decryption failures | the small ring's parameters are chosen so that none occurs; at the real parameters the rate is a number no finite run shows |
| ML-DSA KeyGen and Verify, packing, arithmetic, golden models | schedules of the stages that signing runs in a loop, without a retry; arithmetic |
| NTT Wishbone prototype, FPGA experiments | superseded variants of modules modelled in their final form |
| RISC-V vector code, OpenSSL provider, TVM | straight-line arithmetic and build glue |
| Data buffers and read multiplexers of the integrated wrapper | no control depends on them |
| Signature check of decision records, linked files, trends | payload; the chain does not depend on them |
| Report texts, costs and timelines | wording, or numbers that nothing else reads |
| TPM parsing, drivers, user interface, narrative | hardware access and rendering; what they report is any value |

## Plan

Done: the Trust Anchor Unit from the watchdog to the integrated wrapper, KeyGen, Encaps
and Decaps with their refinements to Operation, ML-DSA signing and its samplers, the trust
server with its refinement to Challenge, the edge node, both kinds of hash-chained log, the
decision support, the document generator and the ML-KEM reference; proofs in eight modules.

Left, in this order:

1. ML-DSA KeyGen and Verify over the cores of MlDsaSign.
2. The absorb and squeeze handshakes of the RTL's Keccak core against the sponge of KemExchange.
