----------------------------- MODULE ChainedLogs -----------------------------
(***************************************************************************)
(* Two logs at work, on the formats below.  tool tells which: "trustlog" is*)
(* TrustLog of generic_bridge/trustlog.py, "decision" the command line     *)
(* tool decision_record.py.  Both read the last line, build a record on it *)
(* and append, without a lock; any number of processes may do so, and any  *)
(* of them may die while its line is being written.  TrustLog.tamper_test  *)
(* rewrites the log in place, with a .bak beside it, and puts it back.     *)
(***************************************************************************)
EXTENDS Integers, SequencesExt, FiniteSets

(***************************************************************************)
(* A log of one JSON record per line, each bound to the one before it by   *)
(* its hash: what generic_bridge/trustlog.py and decision_record.py read   *)
(* and write, and the golden tests that read it back.                      *)
(*                                                                         *)
(* SHA-256 is a free constructor: the hash of a record is the record.  A   *)
(* line that is not JSON is Bad.                                           *)
(***************************************************************************)

CONSTANTS Bad,     \* a line that does not parse
          None     \* no hash: "" in trustlog.py, None in decision_record.py

Hash(record) == record
Line(record) == [hash |-> Hash(record), record |-> record]

\* The elements of s at the given positions, in their order
Kept(s, positions) ==
  LET kept[n \in 0 .. Len(s)] ==
        IF n = 0 THEN <<>>
        ELSE IF n \in positions THEN Append(kept[n - 1], s[n]) ELSE kept[n - 1]
  IN kept[Len(s)]

\* TrustLog.read_all: the lines that do not parse are skipped
ReadAll(lines) ==
  LET readable == Kept(lines, {i \in DOMAIN lines : lines[i] # Bad})
  IN [i \in DOMAIN readable |-> readable[i].record]

\* What a line must be to pass, after the lines before it
Follows(lines, i) ==
  /\ lines[i] # Bad
  /\ lines[i].hash = Hash(lines[i].record)
  /\ lines[i].record.prev = IF i = 1 THEN None ELSE lines[i - 1].hash

\* TrustLog.verify, and a form of it that does not look at prev_hash
IntactLines(lines) == \A i \in DOMAIN lines : lines[i] # Bad /\ lines[i].hash = Hash(lines[i].record)
Intact(lines) == \A i \in DOMAIN lines : Follows(lines, i)
TrustVerify(lines) == Intact(lines)

\* verify_chain stops at the first line that does not follow; json.loads raises
DecisionVerify(lines) ==
  LET wrong == {i \in DOMAIN lines : ~Follows(lines, i)} IN
  CASE wrong = {} -> "ok"
    [] wrong # {} /\ lines[Min(wrong)] = Bad -> "raises"
    [] OTHER -> "broken"

\* The last line; None when there is none
LastLine(lines) == IF lines = <<>> THEN None ELSE Last(lines)

\* TrustLog._last_hash: no line, or one that does not parse, starts a new chain
TrustLastHash(lines) == IF LastLine(lines) \in {None, Bad} THEN None ELSE Last(lines).hash

\* last_entry_hash: the same, but a line that does not parse raises
DecisionCanReadAll(lines) == TRUE
DecisionCanRead(lines) == LastLine(lines) # Bad
DecisionLastHash(lines) == TrustLastHash(lines)

(***************************************************************************)
(* golden_runner.py: a check takes the last record of its scenario, and    *)
(* fails when there is none, or when an assertion is false or raises.      *)
(***************************************************************************)
FirstMatching(records, scenario) ==
  {i \in DOMAIN records : /\ records[i].payload.scenario = scenario
                          /\ \A j \in 1 .. i - 1 : records[j].payload.scenario # scenario}
LastMatching(records, scenario) ==
  {i \in DOMAIN records : /\ records[i].payload.scenario = scenario
                          /\ \A j \in i + 1 .. Len(records) : records[j].payload.scenario # scenario}
GoldenPasses(records, scenario) ==
  \E i \in LastMatching(records, scenario) : records[i].payload.assertion = "holds"

-----------------------------------------------------------------------------
CONSTANTS Writers, ScenarioNames,
          Tools,         \* of "trustlog" and "decision"
          Payloads,      \* each with its scenario, what the golden assertion says of it ("holds",
                         \* "fails", "raises"), and how often its first string was marked (None: no string)
          Idle,          \* no tamper test is under way
          MaxRecords,    \* bound on the records appended
          MaxCrashes,    \* bound on the processes that die
          MaxTests       \* bound on the tamper tests

\* Any JSON object is a payload; what is read of it here is its scenario, its
\* assertion and its first string.
PayloadAssumption ==
  /\ None \notin Nat
  /\ Payloads \subseteq [scenario : ScenarioNames, assertion : {"holds", "fails", "raises"},
                         text : Nat \cup {None}]

VARIABLES
  tool,
  file, ended,    \* the lines, and whether the last one ends in a newline
  pending,        \* the record each writer has built and not yet appended
  bak,            \* the .bak: None, or the lines and their newline
  test,           \* Idle, or the stage of tamper_test and the lines it wrote
  acked,          \* history: the records whose append returned
  recorded,       \* history: the records whose line was completed
  disturbed,      \* history: what has happened to the log besides appends
  verdicts,       \* history: what tamper tests returned
  tests, crashes

logVars == <<file, ended, bak>>
historyVars == <<acked, recorded, disturbed, verdicts, tests, crashes>>
vars == <<tool, logVars, pending, test, historyVars>>

Init ==
  /\ tool \in Tools
  /\ file = <<>> /\ ended = TRUE
  /\ pending = [w \in Writers |-> None]
  /\ bak = None /\ test = Idle
  /\ acked = {} /\ recorded = <<>>
  /\ disturbed = {} /\ verdicts = {} /\ tests = 0 /\ crashes = 0

Busy == \E w \in Writers : pending[w] # None
Disturb(why, if) == disturbed' = disturbed \cup (IF if THEN {why} ELSE {})

-----------------------------------------------------------------------------
\* The first half of an append: the last line is read, the record is built.
Build(w, payload, prev) ==
  /\ pending[w] = None
  /\ Len(recorded) + Cardinality({v \in Writers : pending[v] # None}) < MaxRecords
  /\ pending' = [pending EXCEPT ![w] = [payload |-> payload, prev |-> prev]]
  /\ Disturb("overlap", Busy \/ test # Idle)
  /\ UNCHANGED <<tool, logVars, test, acked, recorded, verdicts, tests, crashes>>

TrustBuild(w, payload) ==
  /\ tool = "trustlog"
  /\ Build(w, payload, TrustLastHash(file))

\* build_record; it raises after a line that does not parse
DecisionBuild(w, payload) ==
  /\ tool = "decision"
  /\ DecisionCanRead(file)
  /\ Build(w, payload, DecisionLastHash(file))

\* A line is written after a newline, or runs on in the line that lacks one.
Appended(line) == IF ended \/ file = <<>> THEN Append(file, line) ELSE [file EXCEPT ![Len(file)] = Bad]

Write(w) ==
  /\ pending[w] # None
  /\ file' = Appended(Line(pending[w]))
  /\ ended' = TRUE
  /\ pending' = [pending EXCEPT ![w] = None]
  /\ acked' = acked \cup {pending[w]}
  /\ recorded' = Append(recorded, pending[w])
  /\ Disturb("overlap", test # Idle)
  /\ UNCHANGED <<tool, bak, test, verdicts, tests, crashes>>

TrustAppend(w) == tool = "trustlog" /\ Write(w)
DecisionAppend(w) == tool = "decision" /\ Write(w)

\* A writer dies: nothing, part, all but the newline, or all of its line is there.
WriterDies(w) ==
  /\ pending[w] # None
  /\ crashes < MaxCrashes
  /\ crashes' = crashes + 1
  /\ pending' = [pending EXCEPT ![w] = None]
  /\ \/ UNCHANGED <<file, ended, recorded, disturbed>>
     \/ /\ file' \in {Appended(Bad), Appended(Line(pending[w]))}
        /\ ended' = FALSE
        /\ Disturb("torn", TRUE)
        /\ UNCHANGED recorded
     \/ /\ file' = Appended(Line(pending[w]))
        /\ ended' = TRUE
        /\ recorded' = Append(recorded, pending[w])
        /\ Disturb("overlap", test # Idle)
  /\ UNCHANGED <<tool, bak, test, acked, verdicts, tests>>

-----------------------------------------------------------------------------
(***************************************************************************)
(* tamper_test: copy the log, mark the first string field of the second    *)
(* record (of the only one, if there is one) without a new hash, write the *)
(* log, verify, copy back.  write_text and copy2 truncate first; a line    *)
(* that is appended before they write is written over, at least in part.   *)
(***************************************************************************)
Victim(lines) == IF Len(lines) > 1 THEN 2 ELSE 1
MarkText(payload) == [payload EXCEPT !.text = IF @ = None THEN None ELSE @ + 1]
Tampered(lines) == [lines EXCEPT ![Victim(lines)].record.payload = MarkText(@)]

CopyLate == [lines |-> <<>>, ended |-> TRUE]
Copy == [lines |-> file, ended |-> ended]

Over(lines) == IF file = <<>> THEN {lines} ELSE {lines, Append(lines, Bad)}

TestBacksUp ==
  /\ tool = "trustlog" /\ test = Idle /\ tests < MaxTests /\ file # <<>>
  /\ tests' = tests + 1
  /\ bak' = Copy
  /\ test' = IF file[Victim(file)] = Bad THEN Idle
             ELSE [stage |-> "copied", lines |-> Tampered(file)]
  /\ Disturb("overlap", Busy)
  /\ UNCHANGED <<tool, file, ended, pending, acked, recorded, verdicts, crashes>>

\* The log is there but empty: the copy is removed again, and with it an older one.
TestOfNothing ==
  /\ tool = "trustlog" /\ test = Idle /\ tests < MaxTests /\ file = <<>> /\ bak # None
  /\ tests' = tests + 1
  /\ bak' = None
  /\ UNCHANGED <<tool, file, ended, pending, test, acked, recorded, disturbed, verdicts, crashes>>

Truncate(from, to) ==
  /\ test # Idle /\ test.stage = from
  /\ test' = [test EXCEPT !.stage = to]
  /\ file' = <<>> /\ ended' = TRUE

TestTruncates ==
  /\ Truncate("copied", "truncated")
  /\ UNCHANGED <<tool, pending, bak, historyVars>>

TestTampers ==
  /\ test # Idle /\ test.stage = "truncated"
  /\ file' \in Over(test.lines)
  /\ ended' = TRUE
  /\ test' = [test EXCEPT !.stage = "tampered"]
  /\ UNCHANGED <<tool, pending, bak, historyVars>>

TestVerifies ==
  /\ Truncate("tampered", "verified")
  /\ verdicts' = verdicts \cup {[detected |-> ~TrustVerify(file), before |-> TrustVerify(bak.lines),
                                 changed |-> test.lines # bak.lines, alone |-> "overlap" \notin disturbed]}
  /\ UNCHANGED <<tool, pending, bak, acked, recorded, disturbed, tests, crashes>>

TestRestores ==
  /\ test # Idle /\ test.stage = "verified"
  /\ file' \in Over(bak.lines)
  /\ ended' = bak.ended
  /\ bak' = None
  /\ test' = Idle
  /\ UNCHANGED <<tool, pending, historyVars>>

\* The tester dies; a copy it was writing may be cut short.
TestDies ==
  /\ test # Idle
  /\ crashes < MaxCrashes
  /\ crashes' = crashes + 1
  /\ test' = Idle
  /\ file' \in CASE test.stage = "truncated" /\ file = <<>> -> Prefixes(test.lines)
                 [] test.stage = "verified" /\ file = <<>>  -> Prefixes(bak.lines)
                 [] OTHER -> {file}
  /\ Disturb("interrupted", TRUE)
  /\ UNCHANGED <<tool, ended, pending, bak, acked, recorded, verdicts, tests>>

-----------------------------------------------------------------------------
Next ==
  \/ \E w \in Writers :
       \/ \E payload \in Payloads : TrustBuild(w, payload) \/ DecisionBuild(w, payload)
       \/ TrustAppend(w) \/ DecisionAppend(w) \/ WriterDies(w)
  \/ TestBacksUp \/ TestOfNothing \/ TestTruncates \/ TestTampers \/ TestVerifies \/ TestRestores
  \/ TestDies

Spec == Init /\ [][Next]_vars

-----------------------------------------------------------------------------
(***************************************************************************)
(* Properties                                                              *)
(***************************************************************************)
LogTypeOK ==
  /\ tool \in Tools /\ ended \in BOOLEAN
  /\ bak # None => bak.ended \in BOOLEAN
  /\ test # Idle => test.stage \in {"copied", "truncated", "tampered", "verified"}
  /\ acked \subseteq ToSet(recorded)
  /\ disturbed \subseteq {"overlap", "torn", "interrupted"}

\* What the golden tests say of a sequence of records
Golden(records) == {s \in ScenarioNames : GoldenPasses(records, s)}
LastHolds(records) ==
  {s \in ScenarioNames :
     LET mine == Kept(records, {i \in DOMAIN records : records[i].payload.scenario = s})
     IN mine # <<>> /\ Last(mine).payload.assertion = "holds"}

(***************************************************************************)
(* One process at a time, no line cut short and no tamper test interrupted:*)
(* the log is accepted, it is the records in the order they were appended, *)
(* and a golden test passes when the latest record of its scenario does -  *)
(* also after tamper tests, which rewrite the log, and after crashes       *)
(* between the reading and the writing of a record.                        *)
(***************************************************************************)
UndisturbedLogIsExact ==
  /\ LogTypeOK
  /\ disturbed = {} /\ test = Idle =>
       /\ IF tool = "trustlog" THEN TrustVerify(file) ELSE DecisionVerify(file) = "ok"
       /\ ReadAll(file) = recorded
       /\ Golden(ReadAll(file)) = LastHolds(recorded)

(***************************************************************************)
(* A fork is seen: when two processes have read the same last line, no log *)
(* that holds both of their records is accepted, whatever happens to it.   *)
(***************************************************************************)
ForksAreSeen ==
  TrustVerify(file) =>
    \A i, j \in DOMAIN ReadAll(file) : i # j => ReadAll(file)[i].prev # ReadAll(file)[j].prev

(***************************************************************************)
(* What a tamper test returns is what happened: the tampering is detected  *)
(* exactly when it changed something, or the log was broken before.        *)
(***************************************************************************)
DetectionIsReal ==
  \A v \in verdicts : v.alone => (v.detected <=> v.changed \/ ~v.before)

(***************************************************************************)
(* The verifier can be relied on both ways: what it accepts is no fork, and*)
(* what a tamper test makes of its answer is true.                         *)
(***************************************************************************)
VerifierIsRight == ForksAreSeen /\ DetectionIsReal

(***************************************************************************)
(* Damage stays visible: a decision log whose last line does not parse     *)
(* takes no further decision, and a trust log with such a line, which does *)
(* take further records, is not accepted by any append.                    *)
(***************************************************************************)
DamageStays ==
  [][/\ tool = "decision" /\ "overlap" \notin disturbed' /\ LastLine(file) = Bad => file' = file
     /\ Bad \in ToSet(file) /\ test = Idle => Bad \in ToSet(file') /\ ~TrustVerify(file')]_vars

(***************************************************************************)
(* The log or its .bak holds every record whose append has returned, at    *)
(* every moment of a first tamper test and wherever it dies.               *)
(***************************************************************************)
KeptByFirstTest ==
  disturbed \subseteq {"interrupted"} /\ tests <= 1 =>
    acked \subseteq ToSet(ReadAll(file)) \cup (IF bak = None THEN {} ELSE ToSet(ReadAll(bak.lines)))

(***************************************************************************)
(* Every record is there and can be believed: a log only one process wrote *)
(* is exact, the verifier is right about any log, and a tamper test keeps  *)
(* what was acknowledged.                                                  *)
(***************************************************************************)
RecordsAreReliable == UndisturbedLogIsExact /\ VerifierIsRight /\ KeptByFirstTest
=============================================================================
