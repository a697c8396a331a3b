----------------------- MODULE SituationRoom_proofs ------------------------
(***************************************************************************)
(* Proofs about the logs on disk, for every number of writers, records,    *)
(* crashes and tamper tests and all payloads; and about the situation      *)
(* room: the case manager, the judgements (the Time lock, the scores, the  *)
(* bridge) and the numbers of a document, for all stations, observations,  *)
(* scores, measurements, files and syntax trees.                           *)
(***************************************************************************)
EXTENDS MCSituationRoom, SequenceTheorems, FiniteSetTheorems, WellFoundedInduction, TLAPS

-----------------------------------------------------------------------------
(* Sequences, whatever their elements.                                     *)

IsSeq(s) == s \in Seq(ToSet(s))

\* What is known of a sequence over any set.
LEMMA Sequence ==
  ASSUME NEW S, NEW s \in Seq(S)
  PROVE  IsSeq(s) /\ Len(s) \in Nat /\ DOMAIN s = 1 .. Len(s) /\ s = [i \in 1 .. Len(s) |-> s[i]]
<1>1. Len(s) \in Nat /\ DOMAIN s = 1 .. Len(s) /\ s = [i \in 1 .. Len(s) |-> s[i]]
  BY LenProperties
<1>2. s \in [1 .. Len(s) -> ToSet(s)]
  BY <1>1 DEF ToSet
<1> QED
  BY <1>1, <1>2, SeqDef DEF IsSeq

LEMMA Empty == IsSeq(<<>>) /\ Len(<<>>) = 0 /\ DOMAIN <<>> = {}
  BY EmptySeq, LenProperties DEF IsSeq

\* One more element at the end.
LEMMA Longer ==
  ASSUME NEW s, IsSeq(s), NEW e
  PROVE  /\ IsSeq(Append(s, e)) /\ Len(Append(s, e)) = Len(s) + 1
         /\ Len(s) \in Nat /\ DOMAIN s = 1 .. Len(s) /\ DOMAIN Append(s, e) = 1 .. Len(s) + 1
         /\ Append(s, e)[Len(s) + 1] = e
         /\ \A i \in 1 .. Len(s) : Append(s, e)[i] = s[i]
         /\ Append(s, e) # <<>>
<1> DEFINE S == ToSet(s) \cup {e}
<1>1. s \in Seq(S) /\ e \in S
  BY SeqMonotonic DEF IsSeq
<1>2. Append(s, e) \in Seq(S)
  BY <1>1, AppendProperties
<1> HIDE DEF S
<1>3. /\ Len(Append(s, e)) = Len(s) + 1 /\ Append(s, e) # <<>>
      /\ Append(s, e)[Len(s) + 1] = e
      /\ \A i \in 1 .. Len(s) : Append(s, e)[i] = s[i]
  BY <1>1, AppendProperties
<1>4. /\ IsSeq(Append(s, e)) /\ DOMAIN Append(s, e) = 1 .. Len(Append(s, e))
      /\ Len(s) \in Nat /\ DOMAIN s = 1 .. Len(s)
  BY <1>1, <1>2, Sequence
<1> QED
  BY <1>3, <1>4

\* Another element in a place.
LEMMA Replaced ==
  ASSUME NEW s, IsSeq(s), NEW n \in 1 .. Len(s), NEW e
  PROVE  /\ IsSeq([s EXCEPT ![n] = e]) /\ Len([s EXCEPT ![n] = e]) = Len(s)
         /\ Len(s) \in Nat /\ DOMAIN s = 1 .. Len(s) /\ DOMAIN [s EXCEPT ![n] = e] = 1 .. Len(s)
         /\ \A i \in 1 .. Len(s) : [s EXCEPT ![n] = e][i] = IF i = n THEN e ELSE s[i]
<1> DEFINE S == ToSet(s) \cup {e}
<1>1. s \in Seq(S) /\ e \in S
  BY SeqMonotonic DEF IsSeq
<1> HIDE DEF S
<1>2. /\ [s EXCEPT ![n] = e] \in Seq(S) /\ Len([s EXCEPT ![n] = e]) = Len(s)
      /\ \A i \in 1 .. Len(s) : [s EXCEPT ![n] = e][i] = IF i = n THEN e ELSE s[i]
  BY <1>1, ExceptSeq
<1> QED
  BY <1>1, <1>2, Sequence

\* A prefix.
LEMMA Shorter ==
  ASSUME NEW s, IsSeq(s), NEW p \in Prefixes(s)
  PROVE  /\ IsSeq(p) /\ DOMAIN p \subseteq DOMAIN s
         /\ \A i \in DOMAIN p : p[i] = s[i]
<1>1. PICK n \in 0 .. Len(s) : p = SubSeq(s, 1, n)
  BY DEF Prefixes
<1>2. Len(s) \in Nat /\ DOMAIN s = 1 .. Len(s)
  BY Sequence DEF IsSeq
<1>3. \A i \in 1 .. n : s[i] \in ToSet(s)
  BY <1>2 DEF ToSet
<1>4. p \in Seq(ToSet(s)) /\ Len(p) = n /\ \A i \in 1 .. n : p[i] = s[i]
  BY <1>1, <1>2, <1>3, SubSeqProperties
<1> QED
  BY <1>2, <1>4, Sequence

\* When two sequences are the same.
LEMMA Same ==
  ASSUME NEW s, NEW t, IsSeq(s), IsSeq(t), Len(s) = Len(t), \A i \in 1 .. Len(s) : s[i] = t[i]
  PROVE  s = t
<1>1. s = [i \in 1 .. Len(s) |-> s[i]] /\ t = [i \in 1 .. Len(t) |-> t[i]]
  BY Sequence DEF IsSeq
<1> QED
  BY <1>1

LEMMA Nonempty ==
  ASSUME NEW s, IsSeq(s)
  PROVE  s # <<>> <=> Len(s) >= 1
<1>1. Len(s) \in Nat
  BY Sequence DEF IsSeq
<1>2. Len(s) = 0 => s = <<>>
  BY Empty, Same
<1> QED
  BY <1>1, <1>2, EmptySeq DEF IsSeq

-----------------------------------------------------------------------------
\* Any set of numbers has a smallest one.
LEMMA Smallest ==
  ASSUME NEW S \in SUBSET Nat, S # {}
  PROVE  \E n \in S : \A m \in S : n <= m
<1> DEFINE R == {p \in Nat \X Nat : p[1] < p[2]}
<1>1. IsWellFoundedOn(R, Nat)
  BY NatLessThanWellFounded DEF OpToRel
<1> HIDE DEF R
<1>2. PICK n \in S : \A m \in S : <<m, n>> \notin R
  BY <1>1, WFMin
<1>3. \A m \in S : m \in Nat /\ n \in Nat /\ (m < n => <<m, n>> \in R)
  BY DEF R
<1>4. ASSUME NEW m \in S PROVE n <= m
  <2>1. m \in Nat /\ n \in Nat /\ ~(m < n)
    BY <1>2, <1>3, <1>4, Zenon
  <2> QED
    BY <2>1
<1> QED
  BY <1>4

\* kept selects from the first n elements of s, as Kept does.
IsKept(s, positions, n, kept) ==
  kept = [m \in 0 .. n |->
            IF m = 0 THEN <<>>
            ELSE IF m \in positions THEN Append(kept[m - 1], s[m]) ELSE kept[m - 1]]

\* The recursion that selects from a sequence has a solution.
LEMMA KeptExists ==
  ASSUME NEW s, NEW positions
  PROVE  \A n \in Nat : \E kept : IsKept(s, positions, n, kept)
<1> DEFINE S == {n \in Nat : ~ \E kept : IsKept(s, positions, n, kept)}
<1> SUFFICES ASSUME S # {} PROVE FALSE
  OBVIOUS
<1>1. PICK n \in S : \A m \in S : n <= m
  <2>1. S \in SUBSET Nat
    OBVIOUS
  <2> HIDE DEF S
  <2> QED
    BY <2>1, Smallest
<1>2. n # 0
  <2>1. IsKept(s, positions, 0, [m \in 0 .. 0 |-> <<>>])
    BY DEF IsKept
  <2> QED
    BY <2>1
<1>3. n - 1 \in Nat /\ n - 1 \notin S
  BY <1>1, <1>2
<1>4. PICK before : IsKept(s, positions, n - 1, before)
  BY <1>3
<1> DEFINE last == IF n \in positions THEN Append(before[n - 1], s[n]) ELSE before[n - 1]
           kept == [m \in 0 .. n |-> IF m = n THEN last ELSE before[m]]
<1>5. \A m \in 0 .. n : kept[m] = IF m = 0 THEN <<>>
                                  ELSE IF m \in positions THEN Append(kept[m - 1], s[m])
                                                          ELSE kept[m - 1]
  <2> SUFFICES ASSUME NEW m \in 0 .. n
               PROVE  kept[m] = IF m = 0 THEN <<>>
                                ELSE IF m \in positions THEN Append(kept[m - 1], s[m])
                                                        ELSE kept[m - 1]
    OBVIOUS
  <2>1. n \in Nat /\ n - 1 \in 0 .. n /\ n - 1 # n
    BY <1>2, <1>3
  <2>2. kept[n] = last /\ kept[n - 1] = before[n - 1]
    BY <2>1
  <2>3. CASE m = n
    BY <1>2, <2>2, <2>3
  <2>4. CASE m # n
    <3>1. m \in 0 .. n - 1 /\ (m # 0 => m - 1 \in 0 .. n - 1)
      BY <2>1, <2>4
    <3>2. kept[m] = before[m] /\ (m # 0 => kept[m - 1] = before[m - 1])
      BY <2>1, <3>1
    <3> HIDE DEF kept
    <3> QED
      BY <1>4, <3>1, <3>2 DEF IsKept
  <2> QED
    BY <2>3, <2>4
<1>6. kept = [m \in 0 .. n |-> kept[m]]
  OBVIOUS
<1>7. IsKept(s, positions, n, kept)
  <2> HIDE DEF kept
  <2> QED
    BY <1>5, <1>6 DEF IsKept
<1> QED
  BY <1>7

\* What the selection is after each element.
LEMMA KeptStages ==
  ASSUME NEW s, IsSeq(s), NEW positions
  PROVE  \E kept : /\ kept[0] = <<>>
                   /\ \A n \in 1 .. Len(s) :
                        kept[n] = IF n \in positions THEN Append(kept[n - 1], s[n]) ELSE kept[n - 1]
                   /\ kept[Len(s)] = Kept(s, positions)
<1> DEFINE kept == CHOOSE kept : IsKept(s, positions, Len(s), kept)
<1>1. Len(s) \in Nat
  BY Sequence DEF IsSeq
<1>2. IsKept(s, positions, Len(s), kept)
  BY <1>1, KeptExists
<1>3. Kept(s, positions) = kept[Len(s)]
  BY Zenon DEF Kept, IsKept
<1> HIDE DEF kept
<1>4. \A m \in 0 .. Len(s) :
        kept[m] = IF m = 0 THEN <<>>
                  ELSE IF m \in positions THEN Append(kept[m - 1], s[m]) ELSE kept[m - 1]
  BY <1>2, Zenon DEF IsKept
<1>5. kept[0] = <<>>
  BY <1>1, <1>4
<1>6. \A n \in 1 .. Len(s) :
        kept[n] = IF n \in positions THEN Append(kept[n - 1], s[n]) ELSE kept[n - 1]
  BY <1>1, <1>4
<1> QED
  BY <1>3, <1>5, <1>6

\* kept is the selection from the first n elements: it holds all of them if
\* all are selected, and it ends with the last one that is.
Selects(kept, s, positions, n) ==
  /\ IsSeq(kept)
  /\ (\A i \in 1 .. n : i \in positions) => Len(kept) = n /\ \A i \in 1 .. n : kept[i] = s[i]
  /\ \A k \in DOMAIN kept : \E i \in 1 .. n : i \in positions /\ kept[k] = s[i]
  /\ \A i \in 1 .. n : i \in positions => \E k \in DOMAIN kept : kept[k] = s[i]
  /\ \A i \in 1 .. n :
       i \in positions /\ (\A j \in i + 1 .. n : j \notin positions) =>
         kept # <<>> /\ kept[Len(kept)] = s[i]

\* One more element is looked at.
LEMMA SelectsNext ==
  ASSUME NEW s, NEW positions, NEW n \in Nat, n # 0, NEW kept,
         Selects(kept, s, positions, n - 1)
  PROVE  Selects(IF n \in positions THEN Append(kept, s[n]) ELSE kept, s, positions, n)
<1>1. CASE n \notin positions
  <2>1. \A i \in 1 .. n : i \in positions => i \in 1 .. n - 1
    BY <1>1
  <2>2. \A i \in 1 .. n - 1 : i \in 1 .. n
    OBVIOUS
  <2>3. n \in 1 .. n
    OBVIOUS
  <2>4. \A i \in 1 .. n - 1 : i + 1 .. n - 1 \subseteq i + 1 .. n
    OBVIOUS
  <2> QED
    BY <1>1, <2>1, <2>2, <2>3, <2>4 DEF Selects
<1>2. CASE n \in positions
  <2> DEFINE more == Append(kept, s[n])
  <2>1. /\ IsSeq(more) /\ Len(more) = Len(kept) + 1 /\ Len(kept) \in Nat
        /\ DOMAIN kept = 1 .. Len(kept) /\ DOMAIN more = 1 .. Len(kept) + 1
        /\ more[Len(kept) + 1] = s[n] /\ more # <<>>
        /\ \A i \in 1 .. Len(kept) : more[i] = kept[i]
    BY SMTT(30), Longer DEF Selects
  <2> HIDE DEF more
  <2>2. ASSUME \A i \in 1 .. n : i \in positions
        PROVE  Len(more) = n /\ \A i \in 1 .. n : more[i] = s[i]
    <3>1. Len(kept) = n - 1 /\ \A i \in 1 .. n - 1 : kept[i] = s[i]
      BY <2>2 DEF Selects
    <3> QED
      BY <2>1, <3>1
  <2>3. ASSUME NEW k \in DOMAIN more
        PROVE  \E i \in 1 .. n : i \in positions /\ more[k] = s[i]
    <3>1. CASE k = Len(kept) + 1
      BY <1>2, <2>1, <3>1
    <3>2. CASE k \in DOMAIN kept
      <4>1. PICK i \in 1 .. n - 1 : i \in positions /\ kept[k] = s[i]
        BY <3>2 DEF Selects
      <4> QED
        BY <2>1, <3>2, <4>1
    <3> QED
      BY <2>1, <3>1, <3>2
  <2>4. ASSUME NEW i \in 1 .. n, i \in positions
        PROVE  \E k \in DOMAIN more : more[k] = s[i]
    <3>1. CASE i = n
      BY <2>1, <3>1
    <3>2. CASE i # n
      <4>1. PICK k \in DOMAIN kept : kept[k] = s[i]
        <5>1. i \in 1 .. n - 1
          BY <3>2
        <5> QED
          BY <2>4, <5>1 DEF Selects
      <4> QED
        BY <2>1, <4>1
    <3> QED
      BY <3>1, <3>2
  <2>5. ASSUME NEW i \in 1 .. n, i \in positions, \A j \in i + 1 .. n : j \notin positions
        PROVE  more # <<>> /\ more[Len(more)] = s[i]
    <3>1. i = n
      BY <1>2, <2>5
    <3> QED
      BY <2>1, <3>1
  <2> QED
    BY <1>2, <2>1, <2>2, <2>3, <2>4, <2>5 DEF Selects, more
<1> QED
  BY <1>1, <1>2

LEMMA Selection ==
  ASSUME NEW s, IsSeq(s), NEW positions
  PROVE  Selects(Kept(s, positions), s, positions, Len(s))
<1>1. PICK kept : /\ kept[0] = <<>>
                  /\ \A n \in 1 .. Len(s) :
                       kept[n] = IF n \in positions THEN Append(kept[n - 1], s[n]) ELSE kept[n - 1]
                  /\ kept[Len(s)] = Kept(s, positions)
  BY KeptStages
<1>2. Len(s) \in Nat
  BY Sequence DEF IsSeq
<1> DEFINE S == {n \in 0 .. Len(s) : ~Selects(kept[n], s, positions, n)}
<1>3. SUFFICES ASSUME S # {} PROVE FALSE
  BY <1>1, <1>2
<1>4. PICK n \in S : \A m \in S : n <= m
  <2>1. S \in SUBSET Nat
    BY <1>2
  <2> HIDE DEF S
  <2> QED
    BY <1>3, <2>1, Smallest
<1>5. n \in 0 .. Len(s) /\ n \in Nat
  BY <1>2
<1>6. n # 0
  <2>1. Selects(<<>>, s, positions, 0)
    BY Empty DEF Selects
  <2> QED
    BY <1>1, <2>1
<1>7. n - 1 \in 0 .. Len(s) /\ n - 1 \notin S /\ n \in 1 .. Len(s)
  BY <1>2, <1>4, <1>5, <1>6
<1>8. Selects(kept[n - 1], s, positions, n - 1)
  BY <1>7
<1>9. Selects(IF n \in positions THEN Append(kept[n - 1], s[n]) ELSE kept[n - 1], s, positions, n)
  BY <1>5, <1>6, <1>8, SelectsNext
<1> QED
  BY <1>1, <1>7, <1>9

-----------------------------------------------------------------------------
\* What can be read of a log.
Readable(lines) == {lines[i].record : i \in {j \in DOMAIN lines : lines[j] # Bad}}

LEMMA Reads ==
  ASSUME NEW lines, IsSeq(lines)
  PROVE  ToSet(ReadAll(lines)) = Readable(lines)
<1> DEFINE good == {i \in DOMAIN lines : lines[i] # Bad}
           kept == Kept(lines, good)
<1>1. DOMAIN lines = 1 .. Len(lines)
  BY Sequence DEF IsSeq
<1>2. Selects(kept, lines, good, Len(lines))
  BY Selection
<1>3. ReadAll(lines) = [i \in DOMAIN kept |-> kept[i].record]
  BY DEF ReadAll
<1>4. \A i \in good : i \in DOMAIN lines
  OBVIOUS
<1>5. Readable(lines) = {lines[i].record : i \in good}
  BY DEF Readable
<1> HIDE DEF good, kept
<1>6. ToSet(ReadAll(lines)) = {kept[k].record : k \in DOMAIN kept}
  BY <1>3 DEF ToSet
<1>7. \A k \in DOMAIN kept : \E i \in good : kept[k] = lines[i]
  BY <1>2 DEF Selects
<1>8. \A i \in good : \E k \in DOMAIN kept : kept[k] = lines[i]
  BY <1>1, <1>2, <1>4 DEF Selects
<1> QED
  BY <1>5, <1>6, <1>7, <1>8

\* Of a log without a damaged line everything can be read.
LEMMA ReadsEvery ==
  ASSUME NEW lines, IsSeq(lines), \A i \in DOMAIN lines : lines[i] # Bad
  PROVE  /\ DOMAIN ReadAll(lines) = 1 .. Len(lines) /\ Len(lines) \in Nat
         /\ DOMAIN lines = 1 .. Len(lines)
         /\ ReadAll(lines) = [i \in 1 .. Len(lines) |-> lines[i].record]
<1> DEFINE good == {i \in DOMAIN lines : lines[i] # Bad}
           kept == Kept(lines, good)
<1>1. DOMAIN lines = 1 .. Len(lines) /\ Len(lines) \in Nat
  BY Sequence DEF IsSeq
<1>2. Selects(kept, lines, good, Len(lines))
  BY Selection
<1>3. ReadAll(lines) = [i \in DOMAIN kept |-> kept[i].record]
  BY DEF ReadAll
<1>4. \A i \in 1 .. Len(lines) : i \in good
  BY <1>1
<1> HIDE DEF good, kept
<1>5. Len(kept) = Len(lines) /\ \A i \in 1 .. Len(lines) : kept[i] = lines[i]
  BY <1>2, <1>4 DEF Selects
<1>6. DOMAIN kept = 1 .. Len(lines)
  BY <1>2, <1>5, Sequence DEF Selects, IsSeq
<1> QED
  BY <1>1, <1>3, <1>5, <1>6

\* The record a golden test reads is the last one of its scenario.
LEMMA GoldenReadsLast ==
  ASSUME NEW records, IsSeq(records)
  PROVE  Golden(records) = LastHolds(records)
<1> SUFFICES ASSUME NEW scenario \in ScenarioNames
             PROVE  scenario \in Golden(records) <=> scenario \in LastHolds(records)
  BY DEF Golden, LastHolds
<1> DEFINE mine == {i \in DOMAIN records : records[i].payload.scenario = scenario}
           kept == Kept(records, mine)
<1>1. DOMAIN records = 1 .. Len(records) /\ Len(records) \in Nat
  BY Sequence DEF IsSeq
<1>2. Selects(kept, records, mine, Len(records))
  BY Selection
<1>3. scenario \in LastHolds(records) <=>
        kept # <<>> /\ kept[Len(kept)].payload.assertion = "holds"
  BY DEF LastHolds, Last
<1>4. scenario \in Golden(records) <=>
        \E i \in mine : /\ \A j \in i + 1 .. Len(records) : j \notin mine
                        /\ records[i].payload.assertion = "holds"
  <2>1. LastMatching(records, scenario) =
          {i \in mine : \A j \in i + 1 .. Len(records) : j \notin mine}
    BY <1>1 DEF LastMatching
  <2> QED
    BY <2>1 DEF Golden, GoldenPasses
<1>5. \A i \in mine : i \in 1 .. Len(records)
  BY <1>1
<1> HIDE DEF mine, kept
<1>6. CASE mine = {}
  <2>1. DOMAIN kept = {}
    BY <1>2, <1>6 DEF Selects
  <2>2. kept = <<>>
    BY <1>2, <2>1, Sequence, Nonempty DEF Selects, IsSeq
  <2> QED
    BY <1>3, <1>4, <1>6, <2>2
<1>7. CASE mine # {}
  <2>1. PICK last \in mine : \A i \in mine : i <= last
    <3> DEFINE after == {n \in 0 .. Len(records) : Len(records) - n \in mine}
    <3>1. after # {}
      <4>1. PICK i \in mine : TRUE
        BY <1>7
      <4>2. Len(records) - i \in after
        BY <1>1, <1>5, <4>1
      <4> QED
        BY <4>2
    <3>2. after \in SUBSET Nat
      BY <1>1
    <3>3. PICK n \in after : \A m \in after : n <= m
      <4> HIDE DEF after
      <4> QED
        BY <3>1, <3>2, Smallest
    <3>4. n \in Nat /\ Len(records) - n \in mine
      BY <3>2
    <3>5. ASSUME NEW i \in mine PROVE i <= Len(records) - n
      <4>1. Len(records) - i \in after
        BY <1>1, <1>5, <3>5
      <4>2. n <= Len(records) - i
        BY <3>3, <4>1
      <4> QED
        BY <1>1, <1>5, <3>4, <3>5, <4>2
    <3> QED
      BY <3>4, <3>5
  <2>2. last \in 1 .. Len(records) /\ \A j \in last + 1 .. Len(records) : j \notin mine
    BY <1>1, <1>5, <2>1
  <2>3. kept # <<>> /\ kept[Len(kept)] = records[last]
    BY <1>2, <2>1, <2>2 DEF Selects
  <2>4. \A i \in mine : (\A j \in i + 1 .. Len(records) : j \notin mine) => i = last
    <3> SUFFICES ASSUME NEW i \in mine, i # last
                 PROVE  \E j \in i + 1 .. Len(records) : j \in mine
      OBVIOUS
    <3>1. last \in i + 1 .. Len(records)
      BY <1>1, <1>5, <2>1, <2>2
    <3> QED
      BY <2>1, <3>1
  <2> QED
    BY <1>3, <1>4, <2>1, <2>2, <2>3, <2>4
<1> QED
  BY <1>6, <1>7
-----------------------------------------------------------------------------
(***************************************************************************)
(* Bad, None and Idle stand where a line, a hash or a test could, and are  *)
(* none: in the code an unreadable line, "" or None, and no test at all.   *)
(***************************************************************************)
Placeholders ==
  /\ \A h, r : Bad # [hash |-> h, record |-> r] /\ None # [hash |-> h, record |-> r]
  /\ \A p, q : None # [payload |-> p, prev |-> q]
  /\ \A l, e : None # [lines |-> l, ended |-> e]
  /\ \A s, l : Idle # [stage |-> s, lines |-> l]

IsPayload(p) ==
  /\ p = [scenario |-> p.scenario, assertion |-> p.assertion, text |-> p.text]
  /\ p.text = None \/ p.text \in Nat
IsRecord(r) == r = [payload |-> r.payload, prev |-> r.prev] /\ IsPayload(r.payload)

\* A line: its record may have been marked since the hash was computed.
IsLine(l) ==
  /\ l = [hash |-> l.hash, record |-> l.record]
  /\ IsRecord(l.hash) /\ IsRecord(l.record)
  /\ l.hash.payload.text = None <=> l.record.payload.text = None
  /\ l.record.payload.text # None => l.hash.payload.text <= l.record.payload.text

AreLines(lines) == IsSeq(lines) /\ \A i \in DOMAIN lines : lines[i] = Bad \/ IsLine(lines[i])

\* The log of these records as their writers meant it, and that each is bound to the last
LinesOf(records) == [i \in DOMAIN records |-> Line(records[i])]
Chained(records) ==
  \A i \in DOMAIN records : records[i].prev = IF i = 1 THEN None ELSE records[i - 1]

\* The types of the log, of its copy, of the writers and of the tamper test
FileInv == AreLines(file) /\ ended \in BOOLEAN
RecordedInv == IsSeq(recorded) /\ \A i \in DOMAIN recorded : IsRecord(recorded[i])
PendingInv ==
  /\ DOMAIN pending = Writers
  /\ \A w \in Writers : pending[w] # None => IsRecord(pending[w])
BakInv ==
  bak # None =>
    bak = [lines |-> bak.lines, ended |-> bak.ended] /\ AreLines(bak.lines) /\ bak.ended \in BOOLEAN
TestInv ==
  test # Idle =>
    /\ test = [stage |-> test.stage, lines |-> test.lines]
    /\ test.stage \in {"copied", "truncated", "tampered", "verified"}
    /\ bak # None /\ bak.lines # <<>> /\ bak.lines[Victim(bak.lines)] # Bad
    /\ test.lines = Tampered(bak.lines)
HistoryInv ==
  /\ acked \subseteq ToSet(recorded) /\ disturbed \subseteq {"overlap", "torn", "interrupted"}
  /\ tool \in Tools /\ tests \in Nat
  /\ tests = 0 => bak = None /\ test = Idle
  /\ tool = "decision" => test = Idle
LogTypes == FileInv /\ RecordedInv /\ PendingInv /\ BakInv /\ TestInv /\ HistoryInv

(***************************************************************************)
(* As long as nobody has overlapped, at most one process is at work, and   *)
(* what a writer has read is still the end of the log.                     *)
(***************************************************************************)
OneAtATime ==
  "overlap" \notin disturbed =>
    /\ \A v, w \in Writers : pending[v] # None /\ pending[w] # None => v = w
    /\ test # Idle => ~Busy
    /\ \A w \in Writers : pending[w] # None =>
         /\ pending[w].prev = TrustLastHash(file)
         /\ tool = "decision" => LastLine(file) # Bad

\* The tamper test finds the log as it left it.
TestFile ==
  "overlap" \notin disturbed /\ test # Idle =>
     /\ test.stage \in {"truncated", "verified"} => file = <<>>
     /\ test.stage = "tampered" => file = test.lines

Whole == "torn" \notin disturbed => ended /\ (bak # None => bak.ended)

\* Undisturbed, the log or the copy of a test under way is what was recorded.
Exact ==
  disturbed = {} =>
    /\ Chained(recorded)
    /\ IF test = Idle THEN file = LinesOf(recorded) ELSE bak.lines = LinesOf(recorded)

\* Until a second test starts, the acknowledged records are in the copy, or
\* in the log that no test is rewriting.
Saved ==
  disturbed \subseteq {"interrupted"} /\ tests <= 1 =>
    acked \subseteq (IF bak = None THEN {} ELSE Readable(bak.lines))
                    \cup (IF test = Idle THEN Readable(file) ELSE {})

LogInv ==
  LogTypes /\ OneAtATime /\ TestFile /\ Whole /\ Exact /\ Saved /\ DetectionIsReal

-----------------------------------------------------------------------------
\* Lines.

LEMMA FreshLine ==
  ASSUME Placeholders, NEW r, IsRecord(r)
  PROVE  r # None /\ Line(r) # Bad /\ IsLine(Line(r)) /\ Line(r).hash = r /\ Line(r).record = r
<1>1. r # None
  BY DEF Placeholders, IsRecord
<1>2. Line(r) # Bad
  BY DEF Placeholders, Line, Hash
<1>3. Line(r).hash = r /\ Line(r).record = r
  BY DEF Line, Hash
<1>4. Line(r) = [hash |-> Line(r).hash, record |-> Line(r).record]
  BY DEF Line, Hash
<1>5. r.payload.text # None => r.payload.text \in Nat
  BY DEF IsRecord, IsPayload
<1>6. IsLine(Line(r))
  BY <1>3, <1>4, <1>5 DEF IsLine
<1> QED
  BY <1>1, <1>2, <1>3, <1>6

LEMMA NoLine == AreLines(<<>>) /\ Readable(<<>>) = {}
  BY Empty DEF AreLines, Readable

LEMMA LineIsReadable ==
  ASSUME NEW lines, NEW i \in DOMAIN lines, lines[i] # Bad
  PROVE  lines[i].record \in Readable(lines)
  BY DEF Readable

LEMMA OneMoreLine ==
  ASSUME NEW lines, AreLines(lines), NEW l, l = Bad \/ IsLine(l)
  PROVE  /\ AreLines(Append(lines, l)) /\ LastLine(Append(lines, l)) = l
         /\ Readable(Append(lines, l)) = Readable(lines) \cup (IF l = Bad THEN {} ELSE {l.record})
<1> DEFINE more == Append(lines, l)
<1>1. /\ IsSeq(more) /\ Len(more) = Len(lines) + 1 /\ Len(lines) \in Nat
      /\ DOMAIN lines = 1 .. Len(lines) /\ DOMAIN more = 1 .. Len(lines) + 1
      /\ more[Len(lines) + 1] = l /\ more # <<>>
      /\ \A i \in 1 .. Len(lines) : more[i] = lines[i]
  BY Longer DEF AreLines
<1> HIDE DEF more
<1>2. \A i \in 1 .. Len(lines) + 1 : i \in 1 .. Len(lines) \/ i = Len(lines) + 1
  BY <1>1
<1>3. AreLines(more)
  BY <1>1, <1>2 DEF AreLines
<1>4. LastLine(more) = l
  BY <1>1 DEF LastLine, Last
<1>5. Readable(more) = Readable(lines) \cup (IF l = Bad THEN {} ELSE {l.record})
  <2>1. ASSUME NEW x \in Readable(more)
        PROVE  x \in Readable(lines) \/ (l # Bad /\ x = l.record)
    <3>1. PICK i \in DOMAIN more : more[i] # Bad /\ x = more[i].record
      BY DEF Readable
    <3>2. CASE i \in DOMAIN lines
      <4>1. more[i] = lines[i]
        BY <1>1, <3>2
      <4>2. lines[i] # Bad /\ x = lines[i].record
        BY <3>1, <4>1
      <4> QED
        BY <3>2, <4>2, LineIsReadable
    <3>3. CASE i = Len(lines) + 1
      BY <1>1, <3>1, <3>3
    <3> QED
      BY <1>1, <1>2, <3>2, <3>3
  <2>2. ASSUME NEW x \in Readable(lines)
        PROVE  x \in Readable(more)
    <3>1. PICK i \in DOMAIN lines : lines[i] # Bad /\ x = lines[i].record
      BY DEF Readable
    <3>2. i \in DOMAIN more /\ more[i] = lines[i]
      BY <1>1
    <3> QED
      BY <3>1, <3>2 DEF Readable
  <2>3. ASSUME l # Bad PROVE l.record \in Readable(more)
    BY <1>1, <2>3 DEF Readable
  <2> QED
    BY <2>1, <2>2, <2>3
<1> QED
  BY <1>3, <1>4, <1>5 DEF more

\* Appending keeps the lines, whether or not the last one is whole.
LEMMA AppendedLine ==
  ASSUME FileInv, NEW l, l = Bad \/ IsLine(l)
  PROVE  /\ AreLines(Appended(l)) /\ Appended(l) # <<>>
         /\ Bad \in ToSet(file) => Bad \in ToSet(Appended(l))
<1>1. AreLines(file) /\ Len(file) \in Nat /\ DOMAIN file = 1 .. Len(file) /\ IsSeq(file)
  BY Sequence DEF FileInv, AreLines, IsSeq
<1>2. CASE ended \/ file = <<>>
  <2>1. Appended(l) = Append(file, l)
    BY <1>2 DEF Appended
  <2>2. /\ \A i \in 1 .. Len(file) : Append(file, l)[i] = file[i] 
        /\ DOMAIN Append(file, l) = 1 .. Len(file) + 1 /\ Append(file, l) # <<>>
    BY <1>1, Longer
  <2>3. Bad \in ToSet(file) => Bad \in ToSet(Append(file, l))
    BY <1>1, <2>2 DEF ToSet
  <2> QED
    BY <1>1, <2>1, <2>2, <2>3, OneMoreLine
<1>3. CASE ~(ended \/ file = <<>>)
  <2> DEFINE spoiled == [file EXCEPT ![Len(file)] = Bad]
  <2>1. Appended(l) = spoiled
    BY <1>3 DEF Appended
  <2>2. Len(file) \in 1 .. Len(file)
    BY <1>1, <1>3, Nonempty
  <2>3. /\ IsSeq(spoiled) /\ DOMAIN spoiled = 1 .. Len(file)
        /\ \A i \in 1 .. Len(file) : spoiled[i] = IF i = Len(file) THEN Bad ELSE file[i]
    BY <1>1, <2>2, Replaced
  <2> HIDE DEF spoiled
  <2>4. AreLines(spoiled)
    BY <1>1, <2>3 DEF AreLines
  <2>5. spoiled # <<>> /\ Bad \in ToSet(spoiled)
    BY <2>2, <2>3, Empty DEF ToSet
  <2> QED
    BY <2>1, <2>4, <2>5
<1> QED
  BY <1>2, <1>3

LEMMA PrefixOfLines ==
  ASSUME NEW lines, AreLines(lines), NEW p \in Prefixes(lines)
  PROVE  AreLines(p)
  BY Shorter DEF AreLines

\* The victim is one of the lines.
LEMMA VictimIn ==
  ASSUME NEW lines, AreLines(lines), lines # <<>>
  PROVE  Victim(lines) \in 1 .. Len(lines)
<1>1. Len(lines) \in Nat /\ Len(lines) >= 1
  BY Nonempty, Sequence DEF AreLines, IsSeq
<1> QED
  BY <1>1 DEF Victim

(***************************************************************************)
(* Marking a record is seen, and repairs nothing: what was marked is       *)
(* accepted only if it is what it was and was accepted before.             *)
(***************************************************************************)
LEMMA TamperingIsSeen ==
  ASSUME Placeholders, None \notin Nat,
         NEW lines, AreLines(lines), lines # <<>>, lines[Victim(lines)] # Bad
  PROVE  /\ AreLines(Tampered(lines)) /\ Tampered(lines) # <<>>
         /\ TrustVerify(Tampered(lines)) <=> Tampered(lines) = lines /\ TrustVerify(lines)
<1> DEFINE v == Victim(lines)
           l == lines[v]
           marked == MarkText(l.record.payload)
           m == [l EXCEPT !.record.payload = marked]
           after == [lines EXCEPT ![v] = m]
<1>1. v \in 1 .. Len(lines) /\ IsSeq(lines) /\ DOMAIN lines = 1 .. Len(lines)
  BY VictimIn, Sequence DEF AreLines, IsSeq
<1>2. IsLine(l)
  BY <1>1 DEF AreLines
<1>3. Tampered(lines) = after
  BY <1>1 DEF Tampered
<1>4. /\ IsSeq(after) /\ DOMAIN after = 1 .. Len(lines)
      /\ \A i \in 1 .. Len(lines) : after[i] = IF i = v THEN m ELSE lines[i]
  BY <1>1, Replaced
<1> HIDE DEF after, v
<1>5. /\ IsPayload(marked)
      /\ l.record.payload.text = None => marked = l.record.payload
      /\ l.record.payload.text # None =>
           marked.text = l.record.payload.text + 1 /\ l.record.payload.text \in Nat
  <2> DEFINE p == l.record.payload
  <2>1. IsPayload(p)
    BY <1>2 DEF IsLine, IsRecord
  <2>2. marked = [p EXCEPT !.text = IF p.text = None THEN None ELSE p.text + 1]
    BY DEF MarkText
  <2> HIDE DEF p
  <2>3. marked = [scenario |-> p.scenario, assertion |-> p.assertion,
                  text |-> IF p.text = None THEN None ELSE p.text + 1]
    BY <2>1, <2>2 DEF IsPayload
  <2> QED
    BY <2>1, <2>3 DEF IsPayload, p
<1> HIDE DEF l, marked
<1>6. m = [hash |-> l.hash, record |-> [payload |-> marked, prev |-> l.record.prev]]
  BY <1>2 DEF IsLine, IsRecord
<1> HIDE DEF m
<1>7. IsLine(m) /\ m # Bad
  <2>1. m # Bad
    BY <1>6 DEF Placeholders
  <2>2. m.hash = l.hash /\ m.record = [payload |-> marked, prev |-> l.record.prev]
    BY <1>6
  <2>3. IsRecord(m.record)
    BY <1>5, <2>2 DEF IsRecord
  <2>4. /\ m.hash.payload.text = None <=> m.record.payload.text = None
        /\ m.record.payload.text # None => m.hash.payload.text <= m.record.payload.text
    <3>1. IsPayload(l.hash.payload)
      BY <1>2 DEF IsLine, IsRecord
    <3>2. CASE l.record.payload.text = None
      BY <1>2, <1>5, <2>2, <3>2 DEF IsLine
    <3>3. CASE l.record.payload.text # None
      <4>1. l.hash.payload.text \in Nat /\ l.hash.payload.text <= l.record.payload.text
        BY <1>2, <3>1, <3>3 DEF IsLine, IsPayload
      <4> QED
        BY <1>5, <2>2, <3>3, <4>1
    <3> QED
      BY <3>2, <3>3
  <2> QED
    BY <1>2, <1>6, <2>1, <2>2, <2>3, <2>4 DEF IsLine
<1>8. AreLines(after) /\ after # <<>>
  BY <1>1, <1>4, <1>7, Empty DEF AreLines
<1>9. CASE l.record.payload.text = None
  <2>1. m = l
    BY <1>2, <1>5, <1>6, <1>9 DEF IsLine, IsRecord
  <2>2. after = lines
    BY <1>1, <1>4, <2>1, Same, Sequence DEF l, IsSeq
  <2> QED
    BY <1>3, <1>8, <2>2 DEF AreLines
<1>10. CASE l.record.payload.text # None
  <2>1. l.hash.payload.text \in Nat /\ l.hash.payload.text <= l.record.payload.text
    BY <1>2, <1>10 DEF IsLine, IsRecord, IsPayload
  <2>2. m.record.payload.text = l.record.payload.text + 1 /\ m.hash = l.hash
    BY <1>5, <1>6, <1>10
  <2>3. m.hash # m.record
    BY SMTT(30), <1>5, <1>10, <2>1, <2>2
  <2>4. ~Follows(after, v)
    BY <1>1, <1>4, <2>3 DEF Follows, Hash
  <2>5. ~TrustVerify(after)
    BY <1>1, <1>4, <2>4 DEF TrustVerify, Intact
  <2>6. m # l
    BY <1>5, <1>10, <2>2
  <2>7. after # lines
    BY <1>1, <1>4, <2>6 DEF l
  <2> QED
    BY <1>3, <1>8, <2>5, <2>7
<1> QED
  BY <1>9, <1>10

\* What was recorded, as lines: nothing is lost and nothing added.
LEMMA RecordedLines ==
  ASSUME Placeholders, NEW records, IsSeq(records), \A i \in DOMAIN records : IsRecord(records[i])
  PROVE  /\ AreLines(LinesOf(records)) /\ DOMAIN LinesOf(records) = 1 .. Len(records)
         /\ Len(LinesOf(records)) = Len(records) /\ Len(records) \in Nat
         /\ DOMAIN records = 1 .. Len(records)
         /\ \A i \in 1 .. Len(records) : /\ LinesOf(records)[i] = Line(records[i])
                                         /\ LinesOf(records)[i] # Bad
                                         /\ LinesOf(records)[i].hash = records[i]
                                         /\ LinesOf(records)[i].record = records[i]
<1> DEFINE lines == LinesOf(records)
<1>1. Len(records) \in Nat /\ DOMAIN records = 1 .. Len(records)
  BY Sequence DEF IsSeq
<1>2. DOMAIN lines = 1 .. Len(records) /\ \A i \in 1 .. Len(records) : lines[i] = Line(records[i])
  BY <1>1 DEF LinesOf
<1>3. lines \in [1 .. Len(records) -> {Line(records[i]) : i \in 1 .. Len(records)}]
  BY <1>1 DEF LinesOf
<1>4. lines \in Seq({Line(records[i]) : i \in 1 .. Len(records)})
  BY <1>1, <1>3, SeqDef
<1>5. IsSeq(lines) /\ Len(lines) \in Nat /\ DOMAIN lines = 1 .. Len(lines)
  BY <1>4, Sequence
<1>6. Len(lines) = Len(records)
  BY <1>1, <1>2, <1>5
<1> HIDE DEF lines
<1>7. ASSUME NEW i \in 1 .. Len(records)
      PROVE  /\ lines[i] # Bad /\ IsLine(lines[i])
             /\ lines[i].hash = records[i] /\ lines[i].record = records[i]
  BY <1>1, <1>2, FreshLine
<1> QED
  BY <1>1, <1>2, <1>5, <1>6, <1>7 DEF AreLines, lines

LEMMA RecordedEnd ==
  ASSUME Placeholders, NEW records, IsSeq(records), \A i \in DOMAIN records : IsRecord(records[i])
  PROVE  TrustLastHash(LinesOf(records)) = IF records = <<>> THEN None ELSE records[Len(records)]
<1> DEFINE lines == LinesOf(records)
<1>1. /\ IsSeq(lines) /\ Len(lines) = Len(records) /\ Len(records) \in Nat
      /\ \A i \in 1 .. Len(records) : /\ lines[i] = Line(records[i]) /\ lines[i] # Bad
                                      /\ lines[i].hash = records[i]
  BY RecordedLines DEF AreLines
<1> HIDE DEF lines
<1>2. lines = <<>> <=> records = <<>>
  BY <1>1, Nonempty
<1>3. CASE records = <<>>
  BY <1>2, <1>3 DEF TrustLastHash, LastLine, lines
<1>4. CASE records # <<>>
  <2>1. Len(records) \in 1 .. Len(records)
    BY <1>1, <1>4, Nonempty
  <2>2. Last(lines) = lines[Len(records)] /\ LastLine(lines) = lines[Len(records)]
    BY <1>1, <1>2, <1>4 DEF Last, LastLine
  <2>3. lines[Len(records)] \notin {None, Bad}
    BY <1>1, <2>1 DEF Placeholders, Line
  <2> QED
    BY <1>1, <1>4, <2>1, <2>2, <2>3 DEF TrustLastHash, lines
<1> QED
  BY <1>3, <1>4

LEMMA RecordedOneMore ==
  ASSUME Placeholders, NEW records, IsSeq(records), \A i \in DOMAIN records : IsRecord(records[i]),
         NEW r, IsRecord(r)
  PROVE  /\ Append(LinesOf(records), Line(r)) = LinesOf(Append(records, r))
         /\ IsSeq(Append(records, r))
         /\ \A i \in DOMAIN Append(records, r) : IsRecord(Append(records, r)[i])
         /\ ToSet(Append(records, r)) = ToSet(records) \cup {r}
         /\ Chained(records) /\ r.prev = TrustLastHash(LinesOf(records)) =>
              Chained(Append(records, r))
<1> DEFINE more == Append(records, r)
           n == Len(records)
<1>1. /\ IsSeq(more) /\ Len(more) = n + 1 /\ n \in Nat /\ DOMAIN records = 1 .. n
      /\ DOMAIN more = 1 .. n + 1 /\ more[n + 1] = r
      /\ \A i \in 1 .. n : more[i] = records[i]
  BY Longer
<1> HIDE DEF more
<1>2. \A i \in 1 .. n + 1 : i \in 1 .. n \/ i = n + 1
  BY <1>1
<1>3. \A i \in DOMAIN more : IsRecord(more[i])
  BY <1>1, <1>2
<1>4. /\ IsSeq(LinesOf(records)) /\ Len(LinesOf(records)) = n
      /\ \A i \in 1 .. n : LinesOf(records)[i] = Line(records[i])
  BY RecordedLines DEF AreLines
<1>5. /\ IsSeq(LinesOf(more)) /\ Len(LinesOf(more)) = n + 1
      /\ \A i \in 1 .. n + 1 : LinesOf(more)[i] = Line(more[i])
  BY <1>1, <1>3, RecordedLines DEF AreLines
<1>6. /\ IsSeq(Append(LinesOf(records), Line(r))) /\ Len(Append(LinesOf(records), Line(r))) = n + 1
      /\ Append(LinesOf(records), Line(r))[n + 1] = Line(r)
      /\ \A i \in 1 .. n : Append(LinesOf(records), Line(r))[i] = LinesOf(records)[i]
  BY <1>4, Longer
<1>7. \A i \in 1 .. n + 1 : Append(LinesOf(records), Line(r))[i] = LinesOf(more)[i]
  BY <1>1, <1>2, <1>4, <1>5, <1>6
<1>8. Append(LinesOf(records), Line(r)) = LinesOf(more)
  BY <1>5, <1>6, <1>7, Same
<1>9. ToSet(more) = ToSet(records) \cup {r}
  <2>1. ASSUME NEW x \in ToSet(more) PROVE x \in ToSet(records) \cup {r}
    BY <1>1, <1>2 DEF ToSet
  <2>2. ASSUME NEW x \in ToSet(records) PROVE x \in ToSet(more)
    <3>1. PICK i \in DOMAIN records : x = records[i]
      BY DEF ToSet
    <3>2. i \in DOMAIN more /\ x = more[i]
      BY <1>1, <3>1
    <3> QED
      BY <3>2 DEF ToSet
  <2>3. r \in ToSet(more)
    BY <1>1 DEF ToSet
  <2> QED
    BY <2>1, <2>2, <2>3
<1>10. ASSUME Chained(records), r.prev = TrustLastHash(LinesOf(records))
       PROVE  Chained(more)
  <2>1. r.prev = IF records = <<>> THEN None ELSE records[n]
    BY <1>10, RecordedEnd
  <2>2. records = <<>> <=> n = 0
    BY <1>1, Nonempty
  <2> SUFFICES ASSUME NEW i \in 1 .. n + 1
               PROVE  more[i].prev = IF i = 1 THEN None ELSE more[i - 1]
    BY <1>1 DEF Chained
  <2>3. CASE i \in 1 .. n
    <3>1. records[i].prev = IF i = 1 THEN None ELSE records[i - 1]
      BY <1>1, <1>10, <2>3 DEF Chained
    <3>2. i # 1 => i - 1 \in 1 .. n
      BY <1>1, <2>3
    <3> QED
      BY <1>1, <2>3, <3>1, <3>2
  <2>4. CASE i = n + 1
    <3>1. n # 0 => n \in 1 .. n
      BY <1>1
    <3> QED
      BY <1>1, <2>1, <2>2, <2>4, <3>1
  <2> QED
    BY <1>2, <2>3, <2>4
<1> QED
  BY <1>1, <1>3, <1>8, <1>9, <1>10 DEF more

\* A log of what was recorded passes both verifiers and is read back as it is.
LEMMA RecordedIsAccepted ==
  ASSUME Placeholders, NEW records, IsSeq(records), \A i \in DOMAIN records : IsRecord(records[i]),
         Chained(records)
  PROVE  /\ TrustVerify(LinesOf(records)) /\ DecisionVerify(LinesOf(records)) = "ok"
         /\ ReadAll(LinesOf(records)) = records
<1> DEFINE lines == LinesOf(records)
<1>1. /\ IsSeq(lines) /\ Len(lines) = Len(records) /\ Len(records) \in Nat
      /\ DOMAIN lines = 1 .. Len(records) /\ DOMAIN records = 1 .. Len(records)
      /\ \A i \in 1 .. Len(records) : /\ lines[i] # Bad
                                      /\ lines[i].hash = records[i] /\ lines[i].record = records[i]
  BY RecordedLines DEF AreLines
<1> HIDE DEF lines
<1>2. \A i \in DOMAIN lines : Follows(lines, i)
  <2> SUFFICES ASSUME NEW i \in 1 .. Len(records) PROVE Follows(lines, i)
    BY <1>1
  <2>1. records[i].prev = IF i = 1 THEN None ELSE records[i - 1]
    BY <1>1 DEF Chained
  <2>2. i # 1 => i - 1 \in 1 .. Len(records)
    BY <1>1
  <2> QED
    BY <1>1, <2>1, <2>2 DEF Follows, Hash
<1>3. {i \in DOMAIN lines : ~Follows(lines, i)} = {}
  BY <1>2
<1>4. ReadAll(lines) = [i \in 1 .. Len(records) |-> records[i]]
  BY <1>1, ReadsEvery
<1>5. records = [i \in 1 .. Len(records) |-> records[i]]
  BY Sequence DEF IsSeq
<1> QED
  BY <1>2, <1>3, <1>4, <1>5 DEF TrustVerify, Intact, DecisionVerify, lines

(***************************************************************************)
(* A log that is accepted has no two records on the same predecessor: the  *)
(* first of them would be bound to the same hash, so the records before    *)
(* them would be one, down to the first, whose predecessor is none.        *)
(***************************************************************************)
LEMMA NoForks ==
  ASSUME Placeholders, NEW lines, AreLines(lines), TrustVerify(lines)
  PROVE  \A i, j \in DOMAIN ReadAll(lines) :
           i # j => ReadAll(lines)[i].prev # ReadAll(lines)[j].prev
<1>1. IsSeq(lines) /\ \A i \in DOMAIN lines : Follows(lines, i) /\ lines[i] # Bad
  BY DEF AreLines, TrustVerify, Intact, Follows
<1>2. /\ DOMAIN ReadAll(lines) = 1 .. Len(lines) /\ Len(lines) \in Nat
      /\ DOMAIN lines = 1 .. Len(lines)
      /\ \A i \in 1 .. Len(lines) : ReadAll(lines)[i] = lines[i].record
  BY <1>1, ReadsEvery
<1> DEFINE Forks(i) == \E j \in 1 .. Len(lines) :
                         j > i /\ lines[i].record.prev = lines[j].record.prev
           S == {i \in 1 .. Len(lines) : Forks(i)}
<1>3. S = {}
  <2> SUFFICES ASSUME S # {} PROVE FALSE
    OBVIOUS
  <2>1. PICK i \in S : \A m \in S : i <= m
    <3>1. S \in SUBSET Nat
      BY <1>2
    <3> HIDE DEF S
    <3> QED
      BY <3>1, Smallest
  <2>2. PICK j \in 1 .. Len(lines) : j > i /\ lines[i].record.prev = lines[j].record.prev
    BY <2>1
  <2>3. i \in 1 .. Len(lines) /\ j - 1 \in 1 .. Len(lines) /\ j # 1
    BY <1>2, <2>1, <2>2
  <2>4. lines[j].record.prev = lines[j - 1].hash /\ lines[j - 1].hash = lines[j - 1].record
    BY <1>1, <1>2, <2>3 DEF Follows, Hash
  <2>5. CASE i = 1
    <3>1. lines[i].record.prev = None
      BY <1>1, <1>2, <2>3, <2>5 DEF Follows
    <3>2. IsRecord(lines[j - 1].record)
      BY <1>1, <1>2, <2>3 DEF AreLines, IsLine
    <3>3. lines[j - 1].record # None
      BY <3>2, FreshLine
    <3> QED
      BY <2>2, <2>4, <3>1, <3>3
  <2>6. CASE i # 1
    <3>1. i - 1 \in 1 .. Len(lines) /\ j - 1 > i - 1
      BY <1>2, <2>2, <2>3, <2>6
    <3>2. lines[i].record.prev = lines[i - 1].hash /\ lines[i - 1].hash = lines[i - 1].record
      BY <1>1, <1>2, <2>3, <2>6, <3>1 DEF Follows, Hash
    <3>3. i - 1 \in S
      BY <2>2, <2>3, <2>4, <3>1, <3>2
    <3> QED
      BY <1>2, <2>1, <2>3, <3>3
  <2> QED
    BY <2>5, <2>6
<1>4. ASSUME NEW i \in 1 .. Len(lines), NEW j \in 1 .. Len(lines), i # j
      PROVE  lines[i].record.prev # lines[j].record.prev
  <2>1. i \notin S /\ j \notin S
    BY <1>3
  <2> QED
    BY <1>2, <1>4, <2>1
<1> QED
  BY <1>2, <1>4

-----------------------------------------------------------------------------
(***************************************************************************)
(* The invariant, step by step.                                            *)
(***************************************************************************)
LogAssumption == PayloadAssumption /\ Placeholders

LEMMA LogStart == LogAssumption /\ Init => LogInv
<1> SUFFICES ASSUME LogAssumption, Init PROVE LogInv
  OBVIOUS
<1>1. LogTypes
  BY Empty, NoLine DEF Init, LogTypes, FileInv, RecordedInv, PendingInv, BakInv, TestInv, HistoryInv
<1>2. OneAtATime /\ TestFile /\ Whole /\ Saved /\ DetectionIsReal
  BY DEF Init, OneAtATime, TestFile, Whole, Saved, DetectionIsReal, Busy
<1>3. Exact
  <2>1. LinesOf(<<>>) = <<>>
    BY RecordedLines, Empty, Nonempty DEF LogAssumption, AreLines
  <2> QED
    BY <2>1, Empty DEF Init, Exact, Chained
<1> QED
  BY <1>1, <1>2, <1>3 DEF LogInv

\* A record that a writer builds
LEMMA BuiltRecord ==
  ASSUME LogAssumption, NEW payload \in Payloads, NEW prev
  PROVE  LET r == [payload |-> payload, prev |-> prev] IN IsRecord(r) /\ r # None /\ r.prev = prev
<1>1. IsPayload(payload)
  BY DEF LogAssumption, PayloadAssumption, IsPayload
<1> QED
  BY <1>1 DEF IsRecord, LogAssumption, Placeholders

LEMMA BuildStep ==
  ASSUME LogAssumption, LogInv, NEW w \in Writers, NEW payload \in Payloads,
         tool = "decision" => LastLine(file) # Bad,
         Build(w, payload, TrustLastHash(file))
  PROVE  LogInv'
<1> DEFINE r == [payload |-> payload, prev |-> TrustLastHash(file)]
<1>1. IsRecord(r) /\ r # None /\ r.prev = TrustLastHash(file)
  BY BuiltRecord
<1>2. pending[w] = None /\ pending' = [pending EXCEPT ![w] = r]
  BY DEF Build
<1> HIDE DEF r
<1>3. /\ disturbed' = disturbed \cup (IF Busy \/ test # Idle THEN {"overlap"} ELSE {})
      /\ UNCHANGED <<tool, file, ended, bak, test, acked, recorded, verdicts, tests, crashes>>
  BY DEF Build, Disturb, logVars
<1>4. LogTypes'
  <2>1. PendingInv'
    BY <1>1, <1>2 DEF LogInv, LogTypes, PendingInv
  <2>2. FileInv' /\ RecordedInv' /\ BakInv' /\ TestInv' /\ HistoryInv'
    BY <1>3 DEF LogInv, LogTypes, FileInv, RecordedInv, BakInv, TestInv, HistoryInv
  <2> QED
    BY <2>1, <2>2 DEF LogTypes
<1>5. OneAtATime'
  <2> SUFFICES ASSUME "overlap" \notin disturbed' PROVE OneAtATime'
    BY DEF OneAtATime
  <2>1. ~Busy /\ test = Idle
    BY <1>3
  <2>2. \A v \in Writers : pending'[v] # None => v = w
    BY <1>2, <2>1 DEF Busy, LogInv, LogTypes, PendingInv
  <2>3. pending'[w] = r
    BY <1>2 DEF LogInv, LogTypes, PendingInv
  <2> QED
    BY <1>1, <1>3, <2>1, <2>2, <2>3 DEF OneAtATime
<1>6. TestFile' /\ Whole' /\ Exact' /\ Saved' /\ DetectionIsReal'
  BY <1>3 DEF LogInv, TestFile, Whole, Exact, Saved, DetectionIsReal
<1> QED
  BY <1>4, <1>5, <1>6 DEF LogInv

\* A writer that is done: what is left of OneAtATime when its line is there.
LEMMA WriterLeaves ==
  ASSUME OneAtATime, NEW w \in Writers, pending[w] # None, DOMAIN pending = Writers,
         pending' = [pending EXCEPT ![w] = None], test' = test, disturbed \subseteq disturbed'
  PROVE  OneAtATime' /\ ("overlap" \notin disturbed' => test = Idle)
<1> SUFFICES ASSUME "overlap" \notin disturbed' PROVE OneAtATime' /\ test = Idle
  BY DEF OneAtATime
<1>1. "overlap" \notin disturbed
  OBVIOUS
<1>2. \A v \in Writers : pending'[v] = None
  BY <1>1 DEF OneAtATime
<1>3. test = Idle
  BY <1>1 DEF OneAtATime, Busy
<1> QED
  BY <1>2, <1>3 DEF OneAtATime

(***************************************************************************)
(* A whole line is there, and the record counts as recorded; it is         *)
(* acknowledged unless its writer has died.                                *)
(***************************************************************************)
LEMMA RecordStep ==
  ASSUME LogAssumption, LogInv, NEW w \in Writers, pending[w] # None,
         file' = Appended(Line(pending[w])), ended' = TRUE,
         pending' = [pending EXCEPT ![w] = None],
         recorded' = Append(recorded, pending[w]),
         acked' = acked \/ acked' = acked \cup {pending[w]},
         Disturb("overlap", test # Idle),
         UNCHANGED <<tool, bak, test, verdicts, tests>>
  PROVE  LogInv'
<1> DEFINE r == pending[w]
<1>1. /\ DOMAIN pending = Writers /\ IsRecord(r) /\ AreLines(file)
      /\ IsSeq(recorded) /\ \A i \in DOMAIN recorded : IsRecord(recorded[i])
  BY DEF LogInv, LogTypes, PendingInv, RecordedInv, FileInv
<1>2. disturbed \subseteq disturbed' /\ disturbed' \subseteq disturbed \cup {"overlap"}
  BY DEF Disturb
<1>3. IsLine(Line(r)) /\ Line(r) # Bad /\ Line(r).record = r
  BY <1>1, FreshLine DEF LogAssumption
<1>4. OneAtATime' /\ ("overlap" \notin disturbed' => test = Idle)
  BY <1>1, <1>2, WriterLeaves DEF LogInv
<1>5. AreLines(file')
  BY <1>3, AppendedLine DEF LogInv, LogTypes
<1>6. /\ LinesOf(recorded') = Append(LinesOf(recorded), Line(r)) /\ IsSeq(recorded')
      /\ \A i \in DOMAIN recorded' : IsRecord(recorded'[i])
      /\ ToSet(recorded') = ToSet(recorded) \cup {r}
      /\ Chained(recorded) /\ r.prev = TrustLastHash(LinesOf(recorded)) => Chained(recorded')
  BY <1>1, RecordedOneMore DEF LogAssumption
<1>7. LogTypes'
  <2>1. FileInv' /\ RecordedInv'
    BY <1>5, <1>6 DEF FileInv, RecordedInv
  <2>2. PendingInv'
    BY DEF LogInv, LogTypes, PendingInv
  <2>3. BakInv' /\ TestInv'
    BY DEF LogInv, LogTypes, BakInv, TestInv
  <2>4. HistoryInv'
    BY <1>2, <1>6 DEF LogInv, LogTypes, HistoryInv
  <2> QED
    BY <2>1, <2>2, <2>3, <2>4 DEF LogTypes
<1>8. TestFile' /\ DetectionIsReal'
  BY <1>4 DEF LogInv, TestFile, DetectionIsReal
<1>9. Whole'
  BY <1>2 DEF LogInv, Whole
<1>10. ASSUME "torn" \notin disturbed'
       PROVE  file' = Append(file, Line(r))
  BY <1>2, <1>10 DEF LogInv, Whole, Appended
<1>11. Exact'
  <2> SUFFICES ASSUME disturbed' = {} PROVE Exact'
    BY DEF Exact
  <2>1. disturbed = {} /\ test = Idle
    BY <1>2, <1>4
  <2>2. Chained(recorded) /\ file = LinesOf(recorded)
    BY <2>1 DEF LogInv, Exact
  <2>3. r.prev = TrustLastHash(file)
    BY <2>1 DEF LogInv, OneAtATime
  <2> QED
    BY <1>6, <1>10, <2>1, <2>2, <2>3 DEF Exact
<1>12. Saved'
  <2> SUFFICES ASSUME disturbed' \subseteq {"interrupted"}, tests <= 1 PROVE Saved'
    BY DEF Saved
  <2>1. test = Idle /\ disturbed \subseteq {"interrupted"}
    BY <1>2, <1>4
  <2>2. Readable(file') = Readable(file) \cup {r}
    BY <1>1, <1>3, <1>10, OneMoreLine
  <2> QED
    BY <2>1, <2>2 DEF LogInv, Saved
<1> QED
  BY <1>4, <1>7, <1>8, <1>9, <1>11, <1>12 DEF LogInv

\* A line that was cut short, or only lacks its newline
LEMMA TearStep ==
  ASSUME LogAssumption, LogInv, NEW w \in Writers, pending[w] # None,
         file' \in {Appended(Bad), Appended(Line(pending[w]))}, ended' = FALSE,
         pending' = [pending EXCEPT ![w] = None],
         Disturb("torn", TRUE),
         UNCHANGED <<tool, bak, test, acked, recorded, verdicts, tests>>
  PROVE  LogInv'
<1>1. DOMAIN pending = Writers /\ IsRecord(pending[w])
  BY DEF LogInv, LogTypes, PendingInv
<1>2. disturbed' = disturbed \cup {"torn"}
  BY DEF Disturb
<1>3. OneAtATime' /\ ("overlap" \notin disturbed' => test = Idle)
  BY <1>1, <1>2, WriterLeaves DEF LogInv
<1>4. AreLines(file')
  <2>1. IsLine(Line(pending[w]))
    BY <1>1, FreshLine DEF LogAssumption
  <2> QED
    BY <2>1, AppendedLine DEF LogInv, LogTypes
<1>5. LogTypes'
  <2>1. FileInv' /\ RecordedInv'
    BY <1>4 DEF LogInv, LogTypes, FileInv, RecordedInv
  <2>2. PendingInv'
    BY DEF LogInv, LogTypes, PendingInv
  <2>3. BakInv' /\ TestInv' /\ HistoryInv'
    BY <1>2 DEF LogInv, LogTypes, BakInv, TestInv, HistoryInv
  <2> QED
    BY <2>1, <2>2, <2>3 DEF LogTypes
<1>6. TestFile' /\ Whole' /\ Exact' /\ Saved' /\ DetectionIsReal'
  BY <1>2, <1>3 DEF LogInv, TestFile, Whole, Exact, Saved, DetectionIsReal
<1> QED
  BY <1>3, <1>5, <1>6 DEF LogInv

\* A writer dies with nothing of its line there.
LEMMA VanishStep ==
  ASSUME LogInv, NEW w \in Writers, pending[w] # None,
         pending' = [pending EXCEPT ![w] = None],
         UNCHANGED <<tool, file, ended, bak, test, acked, recorded, disturbed, verdicts, tests>>
  PROVE  LogInv'
<1>1. DOMAIN pending = Writers
  BY DEF LogInv, LogTypes, PendingInv
<1>2. OneAtATime'
  BY <1>1, WriterLeaves DEF LogInv
<1>3. LogTypes'
  <2>1. PendingInv'
    BY DEF LogInv, LogTypes, PendingInv
  <2>2. FileInv' /\ RecordedInv' /\ BakInv' /\ TestInv' /\ HistoryInv'
    BY DEF LogInv, LogTypes, FileInv, RecordedInv, BakInv, TestInv, HistoryInv
  <2> QED
    BY <2>1, <2>2 DEF LogTypes
<1>4. TestFile' /\ Whole' /\ Exact' /\ Saved' /\ DetectionIsReal'
  BY DEF LogInv, TestFile, Whole, Exact, Saved, DetectionIsReal
<1> QED
  BY <1>2, <1>3, <1>4 DEF LogInv

LEMMA DeathStep ==
  ASSUME LogAssumption, LogInv, NEW w \in Writers, WriterDies(w)
  PROVE  LogInv'
<1>1. /\ pending[w] # None /\ pending' = [pending EXCEPT ![w] = None]
      /\ UNCHANGED <<tool, bak, test, acked, verdicts, tests>>
  BY DEF WriterDies
<1>2. CASE UNCHANGED <<file, ended, recorded, disturbed>>
  BY <1>1, <1>2, VanishStep
<1>3. CASE /\ file' \in {Appended(Bad), Appended(Line(pending[w]))}
           /\ ended' = FALSE
           /\ Disturb("torn", TRUE)
           /\ UNCHANGED recorded
  BY <1>1, <1>3, TearStep
<1>4. CASE /\ file' = Appended(Line(pending[w]))
           /\ ended' = TRUE
           /\ recorded' = Append(recorded, pending[w])
           /\ Disturb("overlap", test # Idle)
  BY <1>1, <1>4, RecordStep
<1> QED
  BY <1>2, <1>3, <1>4 DEF WriterDies

(***************************************************************************)
(* A tamper test at work: no writer is, unless they overlap, so that what  *)
(* the test does to the log is nobody's business but its own.              *)
(***************************************************************************)
LEMMA TesterAlone ==
  ASSUME OneAtATime, test # Idle, pending' = pending, disturbed \subseteq disturbed'
  PROVE  OneAtATime'
<1> SUFFICES ASSUME "overlap" \notin disturbed' PROVE OneAtATime'
  BY DEF OneAtATime
<1>1. ~Busy
  BY DEF OneAtATime
<1>2. ~Busy'
  BY <1>1 DEF Busy
<1> QED
  BY <1>2 DEF OneAtATime, Busy

LEMMA BackUpStep ==
  ASSUME LogAssumption, LogInv, TestBacksUp
  PROVE  LogInv'
<1>1. /\ tool = "trustlog" /\ test = Idle /\ file # <<>> /\ tests' = tests + 1
      /\ bak' = [lines |-> file, ended |-> ended]
      /\ disturbed' = disturbed \cup (IF Busy THEN {"overlap"} ELSE {})
      /\ UNCHANGED <<tool, file, ended, pending, acked, recorded, verdicts>>
  BY DEF TestBacksUp, Copy, Disturb
<1>2. bak' # None /\ bak'.lines = file /\ bak'.ended = ended
  BY <1>1 DEF LogAssumption, Placeholders
<1>3. tests \in Nat /\ AreLines(file) /\ (tests = 0 => bak = None)
  BY DEF LogInv, LogTypes, HistoryInv, FileInv
<1>4. \/ file[Victim(file)] = Bad /\ test' = Idle
      \/ /\ file[Victim(file)] # Bad /\ test' # Idle
         /\ test' = [stage |-> "copied", lines |-> Tampered(file)]
  BY DEF TestBacksUp, LogAssumption, Placeholders
<1>5. LogTypes'
  <2>1. FileInv' /\ RecordedInv' /\ PendingInv'
    BY <1>1 DEF LogInv, LogTypes, FileInv, RecordedInv, PendingInv
  <2>2. BakInv'
    BY <1>1, <1>2 DEF LogInv, LogTypes, FileInv, BakInv
  <2>3. TestInv'
    BY <1>1, <1>2, <1>4 DEF TestInv
  <2>4. HistoryInv'
    BY <1>1, <1>3 DEF LogInv, LogTypes, HistoryInv
  <2> QED
    BY <2>1, <2>2, <2>3, <2>4 DEF LogTypes
<1>6. OneAtATime'
  <2> SUFFICES ASSUME "overlap" \notin disturbed' PROVE OneAtATime'
    BY DEF OneAtATime
  <2>1. ~Busy
    BY <1>1
  <2>2. ~Busy'
    BY <1>1, <2>1 DEF Busy
  <2> QED
    BY <2>2 DEF OneAtATime, Busy
<1>7. TestFile'
  BY <1>4 DEF TestFile
<1>8. Whole' /\ DetectionIsReal'
  BY <1>1, <1>2 DEF LogInv, Whole, DetectionIsReal
<1>9. Exact'
  BY <1>1, <1>2, <1>4 DEF LogInv, Exact
<1>10. Saved'
  <2> SUFFICES ASSUME disturbed' \subseteq {"interrupted"}, tests' <= 1 PROVE Saved'
    BY DEF Saved
  <2>1. tests = 0 /\ bak = None /\ disturbed \subseteq {"interrupted"}
    BY <1>1, <1>3
  <2>2. acked \subseteq Readable(file)
    BY <1>1, <1>3, <2>1 DEF LogInv, Saved
  <2> QED
    BY <1>1, <1>2, <2>2 DEF Saved
<1> QED
  BY <1>5, <1>6, <1>7, <1>8, <1>9, <1>10 DEF LogInv

\* The copy of an empty log is removed, and with it an older one.
LEMMA NothingStep ==
  ASSUME LogInv, TestOfNothing
  PROVE  LogInv'
<1>1. /\ tool = "trustlog" /\ test = Idle /\ bak # None /\ tests' = tests + 1 /\ bak' = None
      /\ UNCHANGED <<tool, file, ended, pending, test, acked, recorded, disturbed, verdicts>>
  BY DEF TestOfNothing
<1>2. tests \in Nat /\ tests # 0
  BY <1>1 DEF LogInv, LogTypes, HistoryInv
<1>3. LogTypes'
  <2>1. FileInv' /\ RecordedInv' /\ PendingInv' /\ BakInv' /\ TestInv'
    BY <1>1 DEF LogInv, LogTypes, FileInv, RecordedInv, PendingInv, BakInv, TestInv
  <2>2. HistoryInv'
    BY <1>1, <1>2 DEF LogInv, LogTypes, HistoryInv
  <2> QED
    BY <2>1, <2>2 DEF LogTypes
<1>4. OneAtATime' /\ TestFile' /\ Whole' /\ Exact' /\ DetectionIsReal'
  BY <1>1 DEF LogInv, OneAtATime, TestFile, Whole, Exact, DetectionIsReal, Busy
<1>5. Saved'
  BY <1>1, <1>2 DEF Saved
<1> QED
  BY <1>3, <1>4, <1>5 DEF LogInv

\* The log is empty, for the lines the test will write next.
LEMMA EmptiedStep ==
  ASSUME LogAssumption, LogInv, NEW from,
         NEW to \in {"truncated", "verified"}, Truncate(from, to), DetectionIsReal',
         UNCHANGED <<tool, pending, bak, acked, recorded, disturbed, tests>>
  PROVE  LogInv'
<1>1. /\ test # Idle /\ test' = [test EXCEPT !.stage = to]
      /\ file' = <<>> /\ ended' = TRUE
  BY DEF Truncate
<1>2. test = [stage |-> test.stage, lines |-> test.lines]
  BY <1>1 DEF LogInv, LogTypes, TestInv
<1>3. test' = [stage |-> to, lines |-> test.lines]
  BY <1>1, <1>2
<1>4. test' # Idle /\ test'.stage = to /\ test'.lines = test.lines
  BY <1>3 DEF LogAssumption, Placeholders
<1>5. LogTypes'
  <2>1. FileInv' /\ RecordedInv' /\ PendingInv' /\ BakInv'
    BY <1>1, NoLine DEF LogInv, LogTypes, FileInv, RecordedInv, PendingInv, BakInv
  <2>2. TestInv'
    BY <1>1, <1>3, <1>4 DEF LogInv, LogTypes, TestInv
  <2>3. HistoryInv'
    BY <1>1 DEF LogInv, LogTypes, HistoryInv
  <2> QED
    BY <2>1, <2>2, <2>3 DEF LogTypes
<1>6. OneAtATime'
  BY <1>1, TesterAlone DEF LogInv
<1>7. TestFile' /\ Whole'
  BY <1>1, <1>4 DEF LogInv, TestFile, Whole
<1>8. Exact' /\ Saved'
  BY <1>1, <1>4 DEF LogInv, Exact, Saved
<1> QED
  BY <1>5, <1>6, <1>7, <1>8 DEF LogInv

\* Writing lines over what is there
LEMMA OverLines ==
  ASSUME NEW lines, AreLines(lines), NEW over \in Over(lines)
  PROVE  AreLines(over) /\ (file = <<>> => over = lines)
  BY OneMoreLine DEF Over

LEMMA TamperStep ==
  ASSUME LogAssumption, LogInv, TestTampers
  PROVE  LogInv'
<1>1. /\ test # Idle /\ test.stage = "truncated" /\ file' \in Over(test.lines) /\ ended' = TRUE
      /\ test' = [test EXCEPT !.stage = "tampered"]
      /\ UNCHANGED <<tool, pending, bak, acked, recorded, disturbed, verdicts, tests>>
  BY DEF TestTampers, historyVars
<1>2. /\ test = [stage |-> test.stage, lines |-> test.lines]
      /\ bak # None /\ bak.lines # <<>> /\ bak.lines[Victim(bak.lines)] # Bad
      /\ test.lines = Tampered(bak.lines) /\ AreLines(bak.lines)
  BY <1>1 DEF LogInv, LogTypes, TestInv, BakInv
<1>3. test' = [stage |-> "tampered", lines |-> test.lines]
  BY <1>1, <1>2
<1>4. test' # Idle /\ test'.stage = "tampered" /\ test'.lines = test.lines
  BY <1>3 DEF LogAssumption, Placeholders
<1>5. AreLines(test.lines)
  BY <1>2, TamperingIsSeen DEF LogAssumption, PayloadAssumption
<1>6. AreLines(file') /\ (file = <<>> => file' = test.lines)
  BY <1>1, <1>5, OverLines
<1>7. LogTypes'
  <2>1. FileInv' /\ RecordedInv' /\ PendingInv' /\ BakInv'
    BY <1>1, <1>6 DEF LogInv, LogTypes, FileInv, RecordedInv, PendingInv, BakInv
  <2>2. TestInv'
    BY <1>1, <1>3, <1>4 DEF LogInv, LogTypes, TestInv
  <2>3. HistoryInv'
    BY <1>1 DEF LogInv, LogTypes, HistoryInv
  <2> QED
    BY <2>1, <2>2, <2>3 DEF LogTypes
<1>8. OneAtATime'
  BY <1>1, TesterAlone DEF LogInv
<1>9. TestFile'
  BY <1>1, <1>4, <1>6 DEF LogInv, TestFile
<1>10. Whole' /\ Exact' /\ Saved' /\ DetectionIsReal'
  BY <1>1, <1>4 DEF LogInv, Whole, Exact, Saved, DetectionIsReal
<1> QED
  BY <1>7, <1>8, <1>9, <1>10 DEF LogInv

LEMMA VerifyStep ==
  ASSUME LogAssumption, LogInv, TestVerifies
  PROVE  LogInv'
<1> DEFINE verdict == [detected |-> ~TrustVerify(file), before |-> TrustVerify(bak.lines),
                       changed |-> test.lines # bak.lines, alone |-> "overlap" \notin disturbed]
<1>1. /\ Truncate("tampered", "verified") /\ verdicts' = verdicts \cup {verdict}
      /\ UNCHANGED <<tool, pending, bak, acked, recorded, disturbed, tests>>
  BY DEF TestVerifies
<1>2. test # Idle /\ test.stage = "tampered"
  BY <1>1 DEF Truncate
<1>3. /\ bak # None /\ bak.lines # <<>> /\ bak.lines[Victim(bak.lines)] # Bad
      /\ test.lines = Tampered(bak.lines) /\ AreLines(bak.lines)
  BY <1>2 DEF LogInv, LogTypes, TestInv, BakInv
<1>4. TrustVerify(test.lines) <=> test.lines = bak.lines /\ TrustVerify(bak.lines)
  BY <1>3, TamperingIsSeen DEF LogAssumption, PayloadAssumption
<1>5. "overlap" \notin disturbed => file = test.lines
  BY <1>2 DEF LogInv, TestFile
<1>6. verdict.alone => (verdict.detected <=> verdict.changed \/ ~verdict.before)
  BY <1>4, <1>5
<1> HIDE DEF verdict
<1>7. DetectionIsReal'
  BY <1>1, <1>6 DEF LogInv, DetectionIsReal
<1> QED
  BY <1>1, <1>7, EmptiedStep

LEMMA RestoreStep ==
  ASSUME LogInv, TestRestores
  PROVE  LogInv'
<1>1. /\ test # Idle /\ test.stage = "verified" /\ file' \in Over(bak.lines)
      /\ ended' = bak.ended /\ bak' = None /\ test' = Idle
      /\ UNCHANGED <<tool, pending, acked, recorded, disturbed, verdicts, tests>>
  BY DEF TestRestores, historyVars
<1>2. bak # None /\ AreLines(bak.lines) /\ bak.ended \in BOOLEAN
  BY <1>1 DEF LogInv, LogTypes, TestInv, BakInv
<1>3. AreLines(file') /\ (file = <<>> => file' = bak.lines)
  BY <1>1, <1>2, OverLines
<1>4. "overlap" \notin disturbed => file' = bak.lines
  BY <1>1, <1>3 DEF LogInv, TestFile
<1>5. LogTypes'
  <2>1. FileInv' /\ RecordedInv' /\ PendingInv' /\ BakInv' /\ TestInv'
    BY <1>1, <1>2, <1>3
       DEF LogInv, LogTypes, FileInv, RecordedInv, PendingInv, BakInv, TestInv
  <2>2. HistoryInv'
    BY <1>1 DEF LogInv, LogTypes, HistoryInv
  <2> QED
    BY <2>1, <2>2 DEF LogTypes
<1>6. OneAtATime'
  BY <1>1, TesterAlone DEF LogInv
<1>7. TestFile' /\ Whole' /\ DetectionIsReal'
  BY <1>1, <1>2 DEF LogInv, TestFile, Whole, DetectionIsReal
<1>8. Exact'
  BY <1>1, <1>4 DEF LogInv, Exact
<1>9. Saved'
  BY <1>1, <1>2, <1>4 DEF LogInv, Saved
<1> QED
  BY <1>5, <1>6, <1>7, <1>8, <1>9 DEF LogInv

LEMMA TesterDiesStep ==
  ASSUME LogAssumption, LogInv, TestDies
  PROVE  LogInv'
<1>1. /\ test # Idle /\ test' = Idle /\ disturbed' = disturbed \cup {"interrupted"}
      /\ UNCHANGED <<tool, ended, pending, bak, acked, recorded, verdicts, tests>>
      /\ \/ file' \in Prefixes(test.lines)
         \/ file' \in Prefixes(bak.lines)
         \/ file' = file
  BY DEF TestDies, Disturb
<1>2. /\ bak # None /\ bak.lines # <<>> /\ bak.lines[Victim(bak.lines)] # Bad
      /\ test.lines = Tampered(bak.lines) /\ AreLines(bak.lines) /\ AreLines(file)
  BY <1>1 DEF LogInv, LogTypes, TestInv, BakInv, FileInv
<1>3. AreLines(test.lines)
  BY <1>2, TamperingIsSeen DEF LogAssumption, PayloadAssumption
<1>4. AreLines(file')
  BY <1>1, <1>2, <1>3, PrefixOfLines
<1>5. LogTypes'
  <2>1. FileInv' /\ RecordedInv' /\ PendingInv' /\ BakInv' /\ TestInv'
    BY <1>1, <1>4 DEF LogInv, LogTypes, FileInv, RecordedInv, PendingInv, BakInv, TestInv
  <2>2. HistoryInv'
    BY <1>1 DEF LogInv, LogTypes, HistoryInv
  <2> QED
    BY <2>1, <2>2 DEF LogTypes
<1>6. OneAtATime'
  BY <1>1, TesterAlone DEF LogInv
<1>7. TestFile' /\ Whole' /\ Exact' /\ DetectionIsReal'
  BY <1>1 DEF LogInv, TestFile, Whole, Exact, DetectionIsReal
<1>8. Saved'
  <2> SUFFICES ASSUME disturbed' \subseteq {"interrupted"}, tests' <= 1 PROVE Saved'
    BY DEF Saved
  <2>1. acked \subseteq Readable(bak.lines)
    BY <1>1, <1>2 DEF LogInv, Saved
  <2> QED
    BY <1>1, <1>2, <2>1 DEF Saved
<1> QED
  BY <1>5, <1>6, <1>7, <1>8 DEF LogInv

LEMMA LogStep == LogAssumption /\ LogInv /\ [Next]_vars => LogInv'
<1> SUFFICES ASSUME LogAssumption, LogInv, [Next]_vars PROVE LogInv'
  OBVIOUS
<1>1. ASSUME NEW w \in Writers, NEW payload \in Payloads, TrustBuild(w, payload)
      PROVE  LogInv'
  BY <1>1, BuildStep DEF TrustBuild
<1>2. ASSUME NEW w \in Writers, NEW payload \in Payloads, DecisionBuild(w, payload)
      PROVE  LogInv'
  BY <1>2, BuildStep DEF DecisionBuild, DecisionCanRead, DecisionLastHash
<1>3. ASSUME NEW w \in Writers, TrustAppend(w) \/ DecisionAppend(w)
      PROVE  LogInv'
  <2>1. Write(w)
    BY <1>3 DEF TrustAppend, DecisionAppend
  <2> QED
    BY <2>1, RecordStep DEF Write
<1>4. ASSUME NEW w \in Writers, WriterDies(w)
      PROVE  LogInv'
  BY <1>4, DeathStep
<1>5. CASE TestBacksUp \/ TestOfNothing
  BY <1>5, BackUpStep, NothingStep
<1>6. CASE TestTruncates
  <2>1. DetectionIsReal'
    BY <1>6 DEF TestTruncates, historyVars, LogInv, DetectionIsReal
  <2> QED
    BY <1>6, <2>1, EmptiedStep DEF TestTruncates, historyVars
<1>7. CASE TestTampers \/ TestVerifies \/ TestRestores
  BY <1>7, TamperStep, VerifyStep, RestoreStep
<1>8. CASE TestDies
  BY <1>8, TesterDiesStep
<1>9. CASE UNCHANGED vars
  <2>1. LogTypes'
    BY <1>9 DEF LogInv, LogTypes, FileInv, RecordedInv, PendingInv, BakInv, TestInv, HistoryInv,
                vars, logVars, historyVars
  <2>2. OneAtATime' /\ TestFile' /\ Whole' /\ Exact' /\ Saved' /\ DetectionIsReal'
    BY <1>9 DEF LogInv, OneAtATime, Busy, TestFile, Whole, Exact, Saved, DetectionIsReal,
                vars, logVars, historyVars
  <2> QED
    BY <2>1, <2>2 DEF LogInv
<1> QED
  BY <1>1, <1>2, <1>3, <1>4, <1>5, <1>6, <1>7, <1>8, <1>9 DEF Next

\* What the invariant says of the three properties
LEMMA LogIsReliable ==
  ASSUME LogAssumption, LogInv
  PROVE  RecordsAreReliable
<1>1. /\ AreLines(file) /\ IsSeq(file)
      /\ IsSeq(recorded) /\ \A i \in DOMAIN recorded : IsRecord(recorded[i])
  BY DEF LogInv, LogTypes, FileInv, RecordedInv, AreLines
<1>2. LogTypeOK
  BY DEF LogInv, LogTypes, FileInv, BakInv, TestInv, HistoryInv, LogTypeOK
<1>3. UndisturbedLogIsExact
  <2> SUFFICES ASSUME disturbed = {}, test = Idle
               PROVE  /\ IF tool = "trustlog" THEN TrustVerify(file)
                                              ELSE DecisionVerify(file) = "ok"
                      /\ ReadAll(file) = recorded
                      /\ Golden(ReadAll(file)) = LastHolds(recorded)
    BY <1>2 DEF UndisturbedLogIsExact
  <2>1. Chained(recorded) /\ file = LinesOf(recorded)
    BY DEF LogInv, Exact
  <2>2. TrustVerify(file) /\ DecisionVerify(file) = "ok" /\ ReadAll(file) = recorded
    BY <1>1, <2>1, RecordedIsAccepted DEF LogAssumption
  <2> QED
    BY <1>1, <2>2, GoldenReadsLast
<1>4. ForksAreSeen
  BY <1>1, NoForks DEF ForksAreSeen, LogAssumption
<1>5. KeptByFirstTest
  <2> SUFFICES ASSUME disturbed \subseteq {"interrupted"}, tests <= 1 PROVE KeptByFirstTest
    BY DEF KeptByFirstTest
  <2>1. ToSet(ReadAll(file)) = Readable(file)
    BY <1>1, Reads
  <2>2. bak # None => ToSet(ReadAll(bak.lines)) = Readable(bak.lines)
    BY Reads DEF LogInv, LogTypes, BakInv, AreLines
  <2> QED
    BY <2>1, <2>2 DEF LogInv, Saved, KeptByFirstTest
<1> QED
  BY <1>3, <1>4, <1>5 DEF LogInv, RecordsAreReliable, VerifierIsRight

LEMMA LogInvariant == ASSUME LogAssumption PROVE Spec => []LogInv
<1>1. Init => LogInv
  BY LogStart
<1>2. LogInv /\ [Next]_vars => LogInv'
  BY LogStep
<1> QED
  BY <1>1, <1>2, PTL DEF Spec

(***************************************************************************)
(* Every record is there and can be believed, for any number of writers,   *)
(* records, crashes and tamper tests: a log that was written by one        *)
(* process at a time is read back as it was written and passes its         *)
(* verifier (trustlog.py, verify_decision_chain.py), an accepted log has   *)
(* no fork, what a tamper test reports is true, and the first tamper test  *)
(* loses no acknowledged record wherever it dies.                          *)
(***************************************************************************)
THEOREM RecordsReliable == LogAssumption => (Spec => []RecordsAreReliable)
<1> SUFFICES ASSUME LogAssumption PROVE Spec => []RecordsAreReliable
  OBVIOUS
<1>1. LogInv => RecordsAreReliable
  BY LogIsReliable
<1> QED
  BY <1>1, LogInvariant, PTL

\* Damage is in the log as long as nobody overlaps with its repair.
LEMMA DamageStep ==
  ASSUME LogAssumption, LogInv, [Next]_vars
  PROVE  /\ tool = "decision" /\ "overlap" \notin disturbed' /\ LastLine(file) = Bad => file' = file
         /\ Bad \in ToSet(file) /\ test = Idle => Bad \in ToSet(file') /\ ~TrustVerify(file')
<1>1. ASSUME Bad \in ToSet(file')
      PROVE  ~TrustVerify(file')
  BY <1>1 DEF ToSet, TrustVerify, Intact, Follows
<1>2. ASSUME NEW w \in Writers, pending[w] # None, disturbed \subseteq disturbed',
             tool = "decision", "overlap" \notin disturbed'
      PROVE  LastLine(file) # Bad
  BY <1>2 DEF LogInv, OneAtATime
<1>3. CASE file' = file
  BY <1>1, <1>3
<1>4. ASSUME NEW w \in Writers, pending[w] # None, disturbed \subseteq disturbed',
             file' \in {Appended(Bad), Appended(Line(pending[w]))}
      PROVE  /\ tool = "decision" /\ "overlap" \notin disturbed' /\ LastLine(file) = Bad =>
                   file' = file
             /\ Bad \in ToSet(file) => Bad \in ToSet(file')
  <2>1. IsLine(Line(pending[w]))
    BY <1>4, FreshLine DEF LogInv, LogTypes, PendingInv, LogAssumption
  <2>2. Bad \in ToSet(file) => Bad \in ToSet(file')
    BY <1>4, <2>1, AppendedLine DEF LogInv, LogTypes
  <2> QED
    BY <1>2, <1>4, <2>2
<1>5. ASSUME NEW w \in Writers, TrustAppend(w) \/ DecisionAppend(w) \/ WriterDies(w), file' # file
      PROVE  /\ pending[w] # None /\ disturbed \subseteq disturbed'
             /\ file' \in {Appended(Bad), Appended(Line(pending[w]))}
  BY <1>5 DEF TrustAppend, DecisionAppend, Write, WriterDies, Disturb
<1>6. CASE \E w \in Writers : TrustAppend(w) \/ DecisionAppend(w) \/ WriterDies(w)
  BY <1>1, <1>3, <1>4, <1>5, <1>6
<1>7. CASE \E w \in Writers, payload \in Payloads :
             TrustBuild(w, payload) \/ DecisionBuild(w, payload)
  <2>1. file' = file
    BY <1>7 DEF TrustBuild, DecisionBuild, Build, logVars
  <2> QED
    BY <1>3, <2>1
<1>8. CASE TestBacksUp \/ TestOfNothing \/ UNCHANGED vars
  <2>1. file' = file
    BY <1>8 DEF TestBacksUp, TestOfNothing, vars, logVars
  <2> QED
    BY <1>3, <2>1
<1>9. CASE TestTruncates \/ TestTampers \/ TestVerifies \/ TestRestores \/ TestDies
  <2>1. test # Idle
    BY <1>9 DEF TestTruncates, TestTampers, TestVerifies, TestRestores, TestDies, Truncate
  <2>2. tool # "decision"
    BY <2>1 DEF LogInv, LogTypes, HistoryInv
  <2> QED
    BY <2>1, <2>2
<1> QED
  BY <1>6, <1>7, <1>8, <1>9 DEF Next

(***************************************************************************)
(* Damage stays visible: after a line that does not parse no decision is   *)
(* taken (build_record raises), and a trust log with such a line, to which *)
(* append does add, is never accepted, whatever is appended to it.         *)
(***************************************************************************)
THEOREM DamageIsKept == LogAssumption => (Spec => DamageStays)
<1> SUFFICES ASSUME LogAssumption PROVE Spec => DamageStays
  OBVIOUS
<1>1. LogInv /\ [Next]_vars =>
        [/\ tool = "decision" /\ "overlap" \notin disturbed' /\ LastLine(file) = Bad => file' = file
         /\ Bad \in ToSet(file) /\ test = Idle => Bad \in ToSet(file') /\ ~TrustVerify(file')]_vars
  BY DamageStep
<1> QED
  BY <1>1, LogInvariant, PTL DEF Spec, DamageStays

-----------------------------------------------------------------------------
(* The case manager.                                                       *)

\* The last brief is the last time a case was opened, and since a crisis began
\* none has been further back than the window.
BriefInv ==
  /\ now \in Nat
  /\ cases.last_brief = briefedAt
  /\ briefedAt = None \/ briefedAt \in 0 .. now
  /\ crisisSince # None =>
       /\ crisisSince \in Nat /\ evaluatedAt \in Nat /\ evaluatedAt <= now
       /\ briefedAt # None /\ evaluatedAt - briefedAt <= Debounce

LEMMA BriefInit == MCInit => BriefInv
  BY ClockAssumption DEF MCInit, Room!Init, BriefInv

LEMMA BriefEvaluate ==
  ASSUME BriefInv, NEW reserve, NEW index, Room!EvaluateSnapshot(reserve, index)
  PROVE  BriefInv'
<1>1. PICK crisis, drop :
         /\ Room!EvaluateCase(Room!IndexRead(index), drop \/ crisis)
         /\ briefedAt' = IF (drop \/ crisis) /\ Room!MayBrief THEN now ELSE briefedAt
         /\ evaluatedAt' = now /\ now' = now
         /\ crisisSince' = IF ~crisis THEN None ELSE IF crisisSince = None THEN now ELSE crisisSince
  BY DEF Room!EvaluateSnapshot
<1>2. cases'.last_brief = briefedAt'
  BY <1>1 DEF Room!EvaluateCase, BriefInv
<1>3. briefedAt' = None \/ briefedAt' \in 0 .. now
  BY <1>1 DEF BriefInv
<1>4. crisis => briefedAt' # None /\ now - briefedAt' <= Debounce
  BY <1>1, ClockAssumption DEF BriefInv, Room!MayBrief
<1>5. crisisSince' # None => crisis /\ crisisSince' \in Nat
  BY <1>1, ClockAssumption DEF BriefInv
<1> QED
  BY <1>1, <1>2, <1>3, <1>4, <1>5 DEF BriefInv

LEMMA BriefStep == BriefInv /\ [MCNext]_mcVars => BriefInv'
<1> SUFFICES ASSUME BriefInv, [MCNext]_mcVars PROVE BriefInv'
  OBVIOUS
<1>1. ASSUME UNCHANGED hubVars PROVE BriefInv'
  BY <1>1 DEF hubVars, BriefInv
<1>2. CASE Room!Hub
  <2>1. CASE Room!Tick
    BY <2>1 DEF Room!Tick, BriefInv
  <2>2. ASSUME NEW p \in Places, NEW o \in Observations \cup {NoAnswer}, Room!Observe(p, o)
        PROVE  BriefInv'
    BY <2>2 DEF Room!Observe, BriefInv
  <2> QED
    BY <1>2, <2>1, <2>2, BriefEvaluate DEF Room!Hub
<1>3. CASE Room!Matrix \/ Room!Scoring \/ Room!Documents
  BY <1>1, <1>3 DEF Room!Matrix, Room!Scoring, Room!Documents, Room!hubVars, hubVars
<1>4. CASE Logs \/ UNCHANGED mcVars
  BY <1>1, <1>4 DEF Logs, mcVars, situationVars, hubVars
<1> QED
  BY <1>2, <1>3, <1>4 DEF MCNext, Situation, Room!Next

(***************************************************************************)
(* CaseManager.evaluate briefs every crisis that outlasts its debounce     *)
(* window, for any length of the window, any locks and indices, and        *)
(* however the evaluations are spaced.                                     *)
(***************************************************************************)
THEOREM CrisesAreBriefed == MCSpec => []CrisisIsBriefed
<1>1. BriefInv => CrisisIsBriefed
  BY ClockAssumption DEF BriefInv, CrisisIsBriefed, Room!CrisisIsBriefed
<1> QED
  BY <1>1, BriefInit, BriefStep, PTL DEF MCSpec

-----------------------------------------------------------------------------
(* Sums over a set.                                                        *)

\* Sums of f over the parts of T that have at most n elements, an element at
\* a time, as MapThenFoldSet computes them.
Parts(T, n) == {s \in SUBSET T : Cardinality(s) <= n}
Picked(s) == CHOOSE x \in s : TRUE
SumStep(f, sum, s) == IF s = {} THEN 0 ELSE f[Picked(s)] + sum[s \ {Picked(s)}]
IsSum(f, P, sum) == sum = [s \in P |-> SumStep(f, sum, s)]

LEMMA PartsShrink ==
  ASSUME NEW T, IsFiniteSet(T), NEW s \in SUBSET T, s # {}
  PROVE  /\ Picked(s) \in s /\ s \ {Picked(s)} \in SUBSET T
         /\ IsFiniteSet(s) /\ Cardinality(s) \in Nat
         /\ Cardinality(s \ {Picked(s)}) = Cardinality(s) - 1
<1>1. Picked(s) \in s
  BY DEF Picked
<1>2. IsFiniteSet(s) /\ Cardinality(s) \in Nat
  BY FS_Subset, FS_CardinalityType
<1> QED
  BY <1>1, <1>2, FS_RemoveElement

LEMMA SumsExist ==
  ASSUME NEW T, IsFiniteSet(T), NEW f
  PROVE  \A n \in Nat : \E sum : IsSum(f, Parts(T, n), sum)
<1> DEFINE S0 == {n \in Nat : ~ \E sum : IsSum(f, Parts(T, n), sum)}
<1> SUFFICES ASSUME S0 # {} PROVE FALSE
  OBVIOUS
<1>1. PICK n \in S0 : \A m \in S0 : n <= m
  <2>1. S0 \in SUBSET Nat
    OBVIOUS
  <2> HIDE DEF S0
  <2> QED
    BY <2>1, Smallest
<1>2. n # 0
  <2> DEFINE zero == [s \in Parts(T, 0) |-> 0]
  <2>1. ASSUME NEW s \in Parts(T, 0) PROVE s = {}
    <3>1. s \in SUBSET T /\ Cardinality(s) <= 0
      BY <2>1 DEF Parts
    <3>2. IsFiniteSet(s) /\ Cardinality(s) \in Nat
      BY <3>1, FS_Subset, FS_CardinalityType
    <3> QED
      BY <3>1, <3>2, FS_EmptySet
  <2>2. IsSum(f, Parts(T, 0), zero)
    BY <2>1 DEF IsSum, SumStep
  <2> QED
    BY <2>2
<1>3. n - 1 \in Nat /\ n - 1 \notin S0
  BY <1>1, <1>2
<1>4. PICK before : IsSum(f, Parts(T, n - 1), before)
  BY <1>3
<1> DEFINE sum == [s \in Parts(T, n) |-> SumStep(f, before, s)]
<1>5. ASSUME NEW s \in Parts(T, n) PROVE sum[s] = SumStep(f, sum, s)
  <2>1. CASE s = {}
    BY <2>1 DEF SumStep
  <2>2. CASE s # {}
    <3> DEFINE r == s \ {Picked(s)}
    <3>1. s \in SUBSET T /\ Cardinality(s) <= n
      BY DEF Parts
    <3>2. r \in SUBSET T /\ Cardinality(r) = Cardinality(s) - 1 /\ Cardinality(s) \in Nat
      BY <2>2, <3>1, PartsShrink
    <3>3. r \in Parts(T, n) /\ r \in Parts(T, n - 1)
      BY <3>1, <3>2 DEF Parts
    <3>4. before[r] = SumStep(f, before, r) /\ sum[r] = SumStep(f, before, r)
      BY <1>4, <3>3 DEF IsSum
    <3>5. sum[s] = SumStep(f, before, s)
      OBVIOUS
    <3> HIDE DEF r, sum
    <3>6. sum[r] = before[r]
      BY <3>4
    <3> QED
      BY <2>2, <3>5, <3>6 DEF SumStep, r
  <2> QED
    BY <2>1, <2>2
<1>6. IsSum(f, Parts(T, n), sum)
  <2>1. sum = [s \in Parts(T, n) |-> sum[s]]
    OBVIOUS
  <2> HIDE DEF sum
  <2> QED
    BY <1>5, <2>1 DEF IsSum
<1> QED
  BY <1>6

LEMMA SumExists ==
  ASSUME NEW T, IsFiniteSet(T), NEW f
  PROVE  \E sum : IsSum(f, SUBSET T, sum)
<1>1. Cardinality(T) \in Nat /\ \A s \in SUBSET T : Cardinality(s) <= Cardinality(T)
  BY FS_CardinalityType, FS_Subset
<1>2. Parts(T, Cardinality(T)) = SUBSET T
  BY <1>1 DEF Parts
<1> QED
  BY <1>1, <1>2, SumsExist

\* Larger summands make a larger sum.
AreSums(T, f, p, g, q) ==
  /\ IsFiniteSet(T) /\ IsSum(f, SUBSET T, p) /\ IsSum(g, SUBSET T, q)
  /\ \A x \in T : f[x] \in Int /\ g[x] \in Int /\ f[x] <= g[x]

LEMMA SumGrows ==
  ASSUME NEW T, NEW f, NEW p, NEW g, NEW q, AreSums(T, f, p, g, q)
  PROVE  \A s \in SUBSET T :
           /\ p[s] \in Int /\ q[s] \in Int /\ p[s] <= q[s]
           /\ (\E x \in s : f[x] < g[x]) => p[s] < q[s]
<1> USE DEF AreSums
<1> DEFINE Good(s) == /\ p[s] \in Int /\ q[s] \in Int /\ p[s] <= q[s]
                      /\ (\E x \in s : f[x] < g[x]) => p[s] < q[s]
           S0 == {Cardinality(s) : s \in {r \in SUBSET T : ~Good(r)}}
<1> SUFFICES ASSUME S0 # {} PROVE FALSE
  OBVIOUS
<1>1. S0 \in SUBSET Nat
  BY FS_Subset, FS_CardinalityType
<1>2. PICK n \in S0 : \A m \in S0 : n <= m
  <2> HIDE DEF S0
  <2> QED
    BY <1>1, Smallest
<1>3. PICK s \in SUBSET T : ~Good(s) /\ Cardinality(s) = n
  OBVIOUS
<1>4. p[s] = SumStep(f, p, s) /\ q[s] = SumStep(g, q, s)
  BY DEF IsSum
<1>5. s # {}
  BY <1>3, <1>4 DEF SumStep
<1> DEFINE r == s \ {Picked(s)}
<1>6. Picked(s) \in s /\ r \in SUBSET T /\ Cardinality(r) = n - 1 /\ n \in Nat
  BY <1>3, <1>5, PartsShrink
<1>7. Good(r)
  <2>1. Good(r) \/ Cardinality(r) \in S0
    BY <1>6
  <2> HIDE DEF S0, Good, r
  <2> QED
    BY <1>2, <1>6, <2>1
<1>8. p[s] = f[Picked(s)] + p[r] /\ q[s] = g[Picked(s)] + q[r]
  BY <1>4, <1>5 DEF SumStep
<1>9. s = r \cup {Picked(s)}
  BY <1>6
<1>10. Picked(s) \in T
  BY <1>6
<1> HIDE DEF r
<1>11. Good(s)
  BY <1>7, <1>8, <1>9, <1>10
<1> QED
  BY <1>3, <1>11

-----------------------------------------------------------------------------
(* The scores.                                                             *)

LEMMA MinOfTwo ==
  ASSUME NEW a \in Int, NEW b \in Int
  PROVE  Room!Min({a, b}) = IF a <= b THEN a ELSE b
  BY DEF Room!Min

LEMMA MaxOfTwo ==
  ASSUME NEW a \in Int, NEW b \in Int
  PROVE  Room!Max({a, b}) = IF a >= b THEN a ELSE b
  BY DEF Room!Max

LEMMA ClampIs ==
  ASSUME NEW v \in Int, NEW lo \in Int, NEW hi \in Int, lo <= hi
  PROVE  Room!ClampTo(v, lo, hi) = IF v < lo THEN lo ELSE IF v > hi THEN hi ELSE v
<1>1. Room!Min({hi, v}) = IF hi <= v THEN hi ELSE v
  BY MinOfTwo
<1>2. Room!ClampTo(v, lo, hi) = Room!Max({lo, IF hi <= v THEN hi ELSE v})
  BY <1>1 DEF Room!ClampTo
<1>3. (IF hi <= v THEN hi ELSE v) \in Int
  OBVIOUS
<1>4. Room!Max({lo, IF hi <= v THEN hi ELSE v})
        = IF lo >= (IF hi <= v THEN hi ELSE v) THEN lo ELSE (IF hi <= v THEN hi ELSE v)
  BY <1>3, MaxOfTwo
<1> QED
  BY <1>2, <1>4

Given(sc) == {f \in Room!Functions6 : sc[f] # Missing}
Weighted(sc, c) ==
  [f \in Room!Functions6 |-> Room!AffectsComponents[f][c] * Room!ClampTo(sc[f], -3, 3)]
WeightOf(c) == [f \in Room!Functions6 |-> Room!AffectsComponents[f][c]]
Numerator(sc, c) ==
  Room!MapThenSumSet(LAMBDA f : Room!AffectsComponents[f][c] * Room!ClampTo(sc[f], -3, 3), Given(sc))
Denominator(sc, c) == Room!MapThenSumSet(LAMBDA f : Room!AffectsComponents[f][c], Given(sc))
IsTotal(f, T, v) == \E sum : IsSum(f, SUBSET T, sum) /\ v = sum[T]

LEMMA WeightsAre ==
  /\ IsFiniteSet(Room!Functions6)
  /\ \A f \in Room!Functions6, c \in {"R", "S", "E"} : Room!AffectsComponents[f][c] \in Nat \ {0}
<1>1. Room!Functions6 = {"RSM", "RRM", "TSM"} \cup {"RAP", "IRS", "LRM"}
  BY DEF Room!Functions6, Room!AffectsComponents
<1>2. \A f \in Room!Functions6, c \in {"R", "S", "E"} : Room!AffectsComponents[f][c] \in Nat \ {0}
  BY <1>1 DEF Room!AffectsComponents, Room!Weights
<1>3. ASSUME NEW a, NEW b, NEW c PROVE IsFiniteSet({a, b, c})
  <2>1. IsFiniteSet({a} \cup {b}) /\ {a, b, c} = ({a} \cup {b}) \cup {c}
    BY FS_Singleton, FS_AddElement
  <2> QED
    BY <2>1, FS_AddElement
<1>4. IsFiniteSet({"RSM", "RRM", "TSM"}) /\ IsFiniteSet({"RAP", "IRS", "LRM"})
  BY <1>3
<1> QED
  BY <1>1, <1>2, <1>4, FS_Union

LEMMA NumeratorIs ==
  ASSUME NEW sc, NEW c
  PROVE  IsTotal(Weighted(sc, c), Given(sc), Numerator(sc, c))
<1> DEFINE T == Given(sc)
           Sum(sum) == sum = [s \in SUBSET T |->
                         IF s = {} THEN 0
                         ELSE Room!AffectsComponents[Picked(s)][c] * Room!ClampTo(sc[Picked(s)], -3, 3)
                                + sum[s \ {Picked(s)}]]
           iter == CHOOSE sum : Sum(sum)
<1>1. Numerator(sc, c) = iter[T]
  BY DEF Numerator, Room!MapThenSumSet, Room!MapThenFoldSet, Picked
<1>2. IsFiniteSet(T) /\ T \subseteq Room!Functions6
  BY WeightsAre, FS_Subset DEF Given
<1>3. PICK sum : IsSum(Weighted(sc, c), SUBSET T, sum)
  BY <1>2, SumExists
<1>4. ASSUME NEW it PROVE Sum(it) <=> IsSum(Weighted(sc, c), SUBSET T, it)
  <2>1. ASSUME NEW s \in SUBSET T, s # {}
        PROVE  Weighted(sc, c)[Picked(s)]
                 = Room!AffectsComponents[Picked(s)][c] * Room!ClampTo(sc[Picked(s)], -3, 3)
    <3>1. Picked(s) \in Room!Functions6
      BY <1>2, <2>1 DEF Picked
    <3> QED
      BY <3>1 DEF Weighted
  <2> HIDE DEF T
  <2> QED
    BY <2>1 DEF IsSum, SumStep
<1> HIDE DEF Sum, T
<1>5. IsSum(Weighted(sc, c), SUBSET T, iter)
  BY <1>3, <1>4
<1> HIDE DEF iter
<1> QED
  BY <1>1, <1>5, Zenon DEF IsTotal, T

LEMMA DenominatorIs ==
  ASSUME NEW sc, NEW c
  PROVE  IsTotal(WeightOf(c), Given(sc), Denominator(sc, c))
<1> DEFINE T == Given(sc)
           Sum(sum) == sum = [s \in SUBSET T |->
                         IF s = {} THEN 0
                         ELSE Room!AffectsComponents[Picked(s)][c] + sum[s \ {Picked(s)}]]
           iter == CHOOSE sum : Sum(sum)
<1>1. Denominator(sc, c) = iter[T]
  BY DEF Denominator, Room!MapThenSumSet, Room!MapThenFoldSet, Picked
<1>2. IsFiniteSet(T) /\ T \subseteq Room!Functions6
  BY WeightsAre, FS_Subset DEF Given
<1>3. PICK sum : IsSum(WeightOf(c), SUBSET T, sum)
  BY <1>2, SumExists
<1>4. ASSUME NEW it PROVE Sum(it) <=> IsSum(WeightOf(c), SUBSET T, it)
  <2>1. ASSUME NEW s \in SUBSET T, s # {}
        PROVE  WeightOf(c)[Picked(s)] = Room!AffectsComponents[Picked(s)][c]
    <3>1. Picked(s) \in Room!Functions6
      BY <1>2, <2>1 DEF Picked
    <3> QED
      BY <3>1 DEF WeightOf
  <2> HIDE DEF T
  <2> QED
    BY <2>1 DEF IsSum, SumStep
<1> HIDE DEF Sum, T
<1>5. IsSum(WeightOf(c), SUBSET T, iter)
  BY <1>3, <1>4
<1> QED
  BY <1>1, <1>5 DEF IsTotal, T

\* The scores that are given are numbers.
ScoresOk(sc) == \A f \in Room!Functions6 : sc[f] # Missing => sc[f] \in Int

LEMMA SummandsAre ==
  ASSUME NEW sc, ScoresOk(sc), NEW c \in {"R", "S", "E"}, NEW f \in Given(sc)
  PROVE  /\ Room!ClampTo(sc[f], -3, 3) \in -3 .. 3
         /\ Weighted(sc, c)[f] = WeightOf(c)[f] * Room!ClampTo(sc[f], -3, 3)
         /\ Weighted(sc, c)[f] \in Int /\ WeightOf(c)[f] \in Nat \ {0}
<1>1. f \in Room!Functions6 /\ sc[f] \in Int
  BY DEF Given, ScoresOk
<1>2. Room!ClampTo(sc[f], -3, 3) \in -3 .. 3
  BY <1>1, ClampIs
<1>3. Weighted(sc, c)[f] = Room!AffectsComponents[f][c] * Room!ClampTo(sc[f], -3, 3)
  BY <1>1 DEF Weighted
<1>4. WeightOf(c)[f] = Room!AffectsComponents[f][c] /\ Room!AffectsComponents[f][c] \in Nat \ {0}
  BY <1>1, WeightsAre DEF WeightOf
<1> QED
  BY <1>2, <1>3, <1>4

LEMMA ComponentIs ==
  ASSUME NEW sc, NEW c
  PROVE  Room!Component(sc, c) = IF Denominator(sc, c) = 0 THEN {0}
                                 ELSE Room!Rounded(Numerator(sc, c), Denominator(sc, c))
<1>1. Room!Component(sc, c) = IF Denominator(sc, c) = 0 THEN {0}
                              ELSE Room!Rounded(Numerator(sc, c), Denominator(sc, c))
  BY Zenon DEF Room!Component, Given, Numerator, Denominator
<1> QED
  BY <1>1, Zenon

LEMMA TotalsGrow ==
  ASSUME NEW T, IsFiniteSet(T), NEW f, NEW g, NEW v, NEW w, IsTotal(f, T, v), IsTotal(g, T, w),
         \A x \in T : f[x] \in Int /\ g[x] \in Int /\ f[x] <= g[x]
  PROVE  v \in Int /\ w \in Int /\ v <= w /\ ((\E x \in T : f[x] < g[x]) => v < w)
<1>1. PICK p, q : IsSum(f, SUBSET T, p) /\ v = p[T] /\ IsSum(g, SUBSET T, q) /\ w = q[T]
  BY DEF IsTotal
<1>2. AreSums(T, f, p, g, q)
  BY <1>1 DEF AreSums
<1> QED
  BY <1>1, <1>2, SumGrows

\* One function's score is higher, by what counts of it.
Raised1(sc, sd, f) ==
  /\ f \in Room!Functions6 /\ Missing \notin {sc[f], sd[f]}
  /\ Room!ClampTo(sd[f], -3, 3) > Room!ClampTo(sc[f], -3, 3)
  /\ \A g \in Room!Functions6 \ {f} : sc[g] = sd[g]

LEMMA ComponentGrows ==
  ASSUME NEW sc, NEW sd, ScoresOk(sc), ScoresOk(sd), NEW f, Raised1(sc, sd, f),
         NEW c \in {"R", "S", "E"}, NEW x \in Room!Component(sc, c), NEW y \in Room!Component(sd, c)
  PROVE  x \in Int /\ y \in Int /\ x <= y
<1>1. Given(sc) = Given(sd) /\ f \in Given(sc) /\ IsFiniteSet(Given(sc))
  <2>1. \A g \in Room!Functions6 : sc[g] # Missing <=> sd[g] # Missing
    BY DEF Raised1
  <2>2. Given(sc) \in SUBSET Room!Functions6
    BY DEF Given
  <2> QED
    BY <2>1, <2>2, WeightsAre, FS_Subset DEF Given, Raised1
<1>2. PICK num, den : /\ IsTotal(Weighted(sc, c), Given(sc), num)
                      /\ IsTotal(WeightOf(c), Given(sc), den)
                      /\ Room!Component(sc, c) = IF den = 0 THEN {0} ELSE Room!Rounded(num, den)
  BY ComponentIs, NumeratorIs, DenominatorIs
<1>3. PICK num2, den2 : /\ IsTotal(Weighted(sd, c), Given(sc), num2)
                        /\ IsTotal(WeightOf(c), Given(sc), den2)
                        /\ Room!Component(sd, c) = IF den2 = 0 THEN {0} ELSE Room!Rounded(num2, den2)
  BY <1>1, ComponentIs, NumeratorIs, DenominatorIs
<1>4. ASSUME NEW g \in Given(sc)
      PROVE  /\ Weighted(sc, c)[g] \in Int /\ Weighted(sd, c)[g] \in Int
             /\ Weighted(sc, c)[g] <= Weighted(sd, c)[g]
             /\ (g = f => Weighted(sc, c)[g] < Weighted(sd, c)[g])
             /\ WeightOf(c)[g] \in Int /\ WeightOf(c)[g] > 0
  <2> DEFINE k == WeightOf(c)[g]
             a == Room!ClampTo(sc[g], -3, 3)
             b == Room!ClampTo(sd[g], -3, 3)
  <2>1. /\ a \in Int /\ b \in Int /\ k \in Nat \ {0}
        /\ Weighted(sc, c)[g] = k * a /\ Weighted(sd, c)[g] = k * b
        /\ k * a \in Int /\ k * b \in Int
    BY <1>1, SummandsAre
  <2>2. a <= b /\ (g = f => a < b)
    <3>1. CASE g = f
      BY <2>1, <3>1 DEF Raised1
    <3>2. CASE g # f
      <4>1. sc[g] = sd[g]
        BY <3>2 DEF Raised1, Given
      <4> QED
        BY <2>1, <3>2, <4>1
    <3> QED
      BY <3>1, <3>2
  <2> HIDE DEF k, a, b
  <2>3. k * a <= k * b /\ (a < b => k * a < k * b)
    BY <2>1, <2>2
  <2> QED
    BY <2>1, <2>2, <2>3 DEF k
<1>5. num \in Int /\ num2 \in Int /\ num < num2
  BY <1>1, <1>2, <1>3, <1>4, TotalsGrow
<1>6. den \in Int /\ den2 \in Int /\ den = den2
  <2>1. den \in Int /\ den2 \in Int /\ den <= den2 /\ den2 <= den
    BY <1>1, <1>2, <1>3, <1>4, TotalsGrow
  <2> QED
    BY <2>1
<1>7. CASE den = 0
  BY <1>2, <1>3, <1>6, <1>7
<1>8. CASE den # 0
  <2>1. /\ x \in Int /\ 2 * num - den <= 2 * x * den /\ 2 * x * den <= 2 * num + den
        /\ y \in Int /\ 2 * num2 - den <= 2 * y * den /\ 2 * y * den <= 2 * num2 + den
    BY <1>2, <1>3, <1>6, <1>8 DEF Room!Rounded
  <2>2. (2 * x * den) - (2 * y * den) < 2 * den /\ den > 0
    BY <1>5, <1>6, <1>8, <2>1
  <2>3. (2 * x * den) - (2 * y * den) = (2 * (x - y)) * den
    BY <1>6, <2>1
  <2>4. ASSUME x - y >= 1 PROVE FALSE
    <3>1. (2 * (x - y)) * den >= 2 * den
      BY <1>6, <2>1, <2>2, <2>4
    <3> QED
      BY <1>6, <2>1, <2>2, <2>3, <3>1
  <2> QED
    BY <2>1, <2>4
<1> QED
  BY <1>7, <1>8

LEMMA StatusIs ==
  ASSUME NEW R \in Int, NEW S0 \in Int, NEW E \in Int
  PROVE  Room!DetermineStatus(R, S0, E)
           = IF R <= -2 \/ S0 <= -2 \/ E <= -2 THEN "Critical"
             ELSE IF R <= -1 \/ S0 <= -1 \/ E <= -1 THEN "Fragile"
             ELSE IF R < 1 \/ S0 < 1 \/ E < 1 THEN "Tense" ELSE "Resilient"
<1> DEFINE least == Room!Min({R, S0, E})
<1>1. least \in {R, S0, E} /\ least <= R /\ least <= S0 /\ least <= E
  <2>1. \E x \in {R, S0, E} : x <= R /\ x <= S0 /\ x <= E
    OBVIOUS
  <2> QED
    BY <2>1 DEF Room!Min
<1>2. Room!DetermineStatus(R, S0, E)
        = IF R <= -2 \/ S0 <= -2 \/ E <= -2 THEN "Critical"
          ELSE IF -2 < least /\ least <= -1 THEN "Fragile"
          ELSE IF -1 < least /\ least < 1 THEN "Tense"
          ELSE IF least >= 1 THEN "Resilient"
          ELSE "Unknown"
  BY DEF Room!DetermineStatus
<1> HIDE DEF least
<1> QED
  BY <1>1, <1>2

\* The status is no worse when no component is lower.
LEMMA StatusGrows ==
  ASSUME NEW R \in Int, NEW S0 \in Int, NEW E \in Int, NEW R2 \in Int, NEW S2 \in Int, NEW E2 \in Int,
         R <= R2, S0 <= S2, E <= E2
  PROVE  Room!Rank[Room!DetermineStatus(R2, S2, E2)] >= Room!Rank[Room!DetermineStatus(R, S0, E)]
<1>1. /\ Room!Rank["Critical"] = 1 /\ Room!Rank["Fragile"] = 2
      /\ Room!Rank["Tense"] = 3 /\ Room!Rank["Resilient"] = 4
  BY DEF Room!Rank
<1>2. CASE R <= -2 \/ S0 <= -2 \/ E <= -2
  BY <1>1, <1>2, StatusIs
<1>3. CASE ~(R <= -2 \/ S0 <= -2 \/ E <= -2) /\ (R <= -1 \/ S0 <= -1 \/ E <= -1)
  <2>1. ~(R2 <= -2 \/ S2 <= -2 \/ E2 <= -2)
    BY <1>3
  <2> QED
    BY <1>1, <1>3, <2>1, StatusIs
<1>4. CASE ~(R <= -1 \/ S0 <= -1 \/ E <= -1) /\ (R < 1 \/ S0 < 1 \/ E < 1)
  <2>1. ~(R2 <= -2 \/ S2 <= -2 \/ E2 <= -2) /\ ~(R2 <= -1 \/ S2 <= -1 \/ E2 <= -1)
    BY <1>4
  <2>2. Room!DetermineStatus(R, S0, E) = "Tense"
    BY <1>4, StatusIs
  <2> QED
    BY <1>1, <2>1, <2>2, StatusIs
<1>5. CASE ~(R < 1 \/ S0 < 1 \/ E < 1)
  <2>1. ~(R2 <= -2 \/ S2 <= -2 \/ E2 <= -2) /\ ~(R2 <= -1 \/ S2 <= -1 \/ E2 <= -1)
        /\ ~(R2 < 1 \/ S2 < 1 \/ E2 < 1)
    BY <1>5
  <2>2. Room!DetermineStatus(R, S0, E) = "Resilient" /\ Room!DetermineStatus(R2, S2, E2) = "Resilient"
    BY <1>5, <2>1, StatusIs
  <2> QED
    BY <1>1, <2>2
<1> QED
  BY <1>2, <1>3, <1>4, <1>5

\* An answer the scores may have been given.
Judged(sc, a) ==
  \E R \in Room!Component(sc, "R"), S0 \in Room!Component(sc, "S"), E \in Room!Component(sc, "E") :
    a.status = Room!DetermineStatus(R, S0, E)

LEMMA EvaluateIs ==
  ASSUME NEW sc, NEW strict, NEW a \in Room!Evaluate(sc, strict), a # Refused
  PROVE  Judged(sc, a)
<1>1. PICK R \in Room!Component(sc, "R"), S0 \in Room!Component(sc, "S"), E \in Room!Component(sc, "E") :
        a = [R |-> R, S |-> S0, E |-> E, status |-> Room!DetermineStatus(R, S0, E),
             vrf |-> Room!CheckVrfLock(Room!DetermineStatus(R, S0, E))]
  BY DEF Room!Evaluate
<1>2. a.status = Room!DetermineStatus(R, S0, E)
  BY <1>1
<1> QED
  BY <1>2 DEF Judged

LEMMA JudgementGrows ==
  ASSUME NEW sc, NEW sd, ScoresOk(sc), ScoresOk(sd), NEW f, Raised1(sc, sd, f),
         NEW a, Judged(sc, a), NEW b, Judged(sd, b)
  PROVE  Room!Rank[b.status] >= Room!Rank[a.status]
<1>1. PICK R \in Room!Component(sc, "R"), S0 \in Room!Component(sc, "S"), E \in Room!Component(sc, "E") :
        a.status = Room!DetermineStatus(R, S0, E)
  BY DEF Judged
<1>2. PICK R2 \in Room!Component(sd, "R"), S2 \in Room!Component(sd, "S"), E2 \in Room!Component(sd, "E") :
        b.status = Room!DetermineStatus(R2, S2, E2)
  BY DEF Judged
<1>3. R \in Int /\ R2 \in Int /\ R <= R2
  BY ComponentGrows
<1>4. S0 \in Int /\ S2 \in Int /\ S0 <= S2
  BY ComponentGrows
<1>5. E \in Int /\ E2 \in Int /\ E <= E2
  BY ComponentGrows
<1> QED
  BY <1>1, <1>2, <1>3, <1>4, <1>5, StatusGrows

-----------------------------------------------------------------------------
(* The bridge.                                                             *)

Readings ==
  [flow : Int, capacity : Int, shortage : Int, deviation : Int, fresh : BOOLEAN,
   internal : {Missing} \cup [flow : Int, capacity : Int]]

LEMMA QuotientGrows ==
  ASSUME NEW a \in Nat, NEW b \in Nat, NEW c \in Int, NEW d \in Int, a <= b, d <= c, d > 0
  PROVE  a \div c \in Int /\ b \div d \in Int /\ a \div c <= b \div d
<1> DEFINE q == a \div c
           r == b \div d
<1>1. q \in Nat /\ c * q <= a
  OBVIOUS
<1>2. r \in Nat /\ b < d * (r + 1)
  OBVIOUS
<1> HIDE DEF q, r
<1>3. ASSUME q >= r + 1 PROVE FALSE
  <2>1. d * q >= d * (r + 1) /\ d * q \in Int /\ d * (r + 1) \in Int
    BY <1>1, <1>2, <1>3
  <2>2. c * q >= d * q /\ c * q \in Int
    BY <1>1
  <2> QED
    BY <1>1, <1>2, <2>1, <2>2
<1>4. q \in Int /\ r \in Int /\ q <= r
  BY <1>1, <1>2, <1>3
<1> QED
  BY <1>4 DEF q, r

LEMMA MagnitudeIs ==
  ASSUME NEW v \in Int
  PROVE  Room!Magnitude(v) \in Nat
  BY DEF Room!Magnitude

\* A transfer with more flow and less capacity leaves no larger margin.
LEMMA MarginFalls ==
  ASSUME NEW f \in Int, NEW c \in Int, NEW g \in Int, NEW d \in Int,
         Room!Magnitude(f) <= Room!Magnitude(g), d <= c
  PROVE  /\ Room!TransferMargin(f, c) \in Int /\ Room!TransferMargin(g, d) \in Int
         /\ Room!TransferMargin(g, d) <= Room!TransferMargin(f, c)
<1>1. ASSUME NEW v \in Int PROVE Room!ClampTo(v, 0, 100) \in 0 .. 100
  <2>1. Room!ClampTo(v, 0, 100) = IF v < 0 THEN 0 ELSE IF v > 100 THEN 100 ELSE v
    BY ClampIs
  <2> QED
    BY <2>1
<1>2. 100 * Room!Magnitude(f) \in Nat /\ 100 * Room!Magnitude(g) \in Nat
      /\ 100 * Room!Magnitude(f) <= 100 * Room!Magnitude(g)
  BY MagnitudeIs
<1> DEFINE p(h, e) == (100 * Room!Magnitude(h)) \div e
<1>3. ASSUME NEW h \in Int, NEW e \in Int, e > 0 PROVE p(h, e) \in Int
  <2>1. 100 * Room!Magnitude(h) \in Int
    BY MagnitudeIs
  <2> HIDE DEF p
  <2>2. ASSUME NEW a \in Int PROVE a \div e \in Int
    BY <1>3
  <2> QED
    BY <2>1, <2>2 DEF p
<1>4. ASSUME NEW h \in Int, NEW e \in Int
      PROVE  Room!TransferMargin(h, e) = IF e <= 0 THEN 0 ELSE Room!ClampTo(100 - p(h, e), 0, 100)
  BY DEF Room!TransferMargin
<1>5. d > 0 => p(f, c) <= p(g, d)
  <2>1. ASSUME d > 0 PROVE p(f, c) <= p(g, d)
    BY <1>2, <2>1, QuotientGrows
  <2> QED
    BY <2>1
<1> HIDE DEF p
<1>6. ASSUME NEW h \in Int, NEW e \in Int PROVE Room!TransferMargin(h, e) \in 0 .. 100
  <2>1. CASE e <= 0
    BY <1>4, <2>1
  <2>2. CASE e > 0
    <3>1. PICK v \in Int : v = 100 - p(h, e)
      BY <1>3, <2>2
    <3>2. Room!TransferMargin(h, e) = Room!ClampTo(v, 0, 100)
      BY <1>4, <2>2, <3>1
    <3> QED
      BY <1>1, <3>2
  <2> QED
    BY <2>1, <2>2
<1>7. CASE d <= 0
  <2>1. Room!TransferMargin(g, d) = 0 /\ Room!TransferMargin(f, c) \in 0 .. 100
    BY <1>4, <1>6, <1>7
  <2> QED
    BY <2>1
<1>8. CASE d > 0
  <2>1. p(f, c) \in Int /\ p(g, d) \in Int /\ p(f, c) <= p(g, d)
    BY <1>3, <1>5, <1>8
  <2>2. Room!ClampTo(100 - p(g, d), 0, 100) <= Room!ClampTo(100 - p(f, c), 0, 100)
    BY <2>1, ClampIs
  <2> QED
    BY <1>4, <1>6, <1>8, <2>2
<1> QED
  BY <1>7, <1>8

LEMMA FrequencyFalls ==
  ASSUME NEW a \in Nat, NEW b \in Nat, a <= b
  PROVE  /\ Room!FrequencyScore(a) \in Int /\ Room!FrequencyScore(b) \in Int
         /\ Room!FrequencyScore(b) <= Room!FrequencyScore(a)
  BY DEF Room!FrequencyScore

\* A worse reading raises neither component.
LEMMA BridgeFalls ==
  ASSUME NEW m \in Readings, NEW n \in Readings, Room!WorseReading(m, n)
  PROVE  Room!ComputeR(n) <= Room!ComputeR(m) /\ Room!ComputeS(n) <= Room!ComputeS(m)
<1>1. /\ Room!Magnitude(m.flow) <= Room!Magnitude(n.flow) /\ n.capacity <= m.capacity
      /\ n.internal = m.internal
      /\ n.shortage >= m.shortage /\ Room!Magnitude(m.deviation) <= Room!Magnitude(n.deviation)
  BY MagnitudeIs DEF Room!WorseReading, Readings
<1>2. /\ Room!TransferMargin(m.flow, m.capacity) \in Int
      /\ Room!TransferMargin(n.flow, n.capacity) \in Int
      /\ Room!TransferMargin(n.flow, n.capacity) <= Room!TransferMargin(m.flow, m.capacity)
  BY <1>1, MarginFalls DEF Readings
<1>3. m.internal # Missing => Room!TransferMargin(m.internal.flow, m.internal.capacity) \in Int
  <2>1. ASSUME m.internal # Missing
        PROVE  m.internal.flow \in Int /\ m.internal.capacity \in Int
    BY <2>1 DEF Readings
  <2>2. ASSUME NEW f \in Int, NEW c \in Int PROVE Room!TransferMargin(f, c) \in Int
    <3>1. Room!Magnitude(f) <= Room!Magnitude(f) /\ c <= c
      BY MagnitudeIs
    <3> QED
      BY <3>1, MarginFalls
  <2> QED
    BY <2>1, <2>2
<1>4. Room!ComputeR(n) <= Room!ComputeR(m)
  BY <1>1, <1>2, <1>3 DEF Room!ComputeR
<1>5. Room!Magnitude(m.deviation) \in Nat /\ Room!Magnitude(n.deviation) \in Nat
      /\ m.shortage \in Int /\ n.shortage \in Int
  BY MagnitudeIs DEF Readings
<1>6. Room!ComputeS(n) <= Room!ComputeS(m)
  BY <1>1, <1>5, FrequencyFalls DEF Room!ComputeS
<1> QED
  BY <1>4, <1>6

\* An answer the measurements may have been given.
Bridged(m, a) == m \in Readings /\ a.R = Room!ComputeR(m) /\ a.S = Room!ComputeS(m)

LEMMA BridgeIs ==
  ASSUME NEW m \in Readings, Room!SnapshotToAgent(m) # Refused
  PROVE  Bridged(m, Room!SnapshotToAgent(m))
  BY DEF Room!SnapshotToAgent, Bridged

-----------------------------------------------------------------------------
(* The Time lock.                                                          *)

\* Over a finite set, a number has a least value.
LEMMA LeastExists ==
  ASSUME NEW T, IsFiniteSet(T), NEW f, \A x \in T : f[x] \in Int
  PROVE  \A s \in SUBSET T : s # {} => \E x \in s : \A y \in s : f[x] <= f[y]
<1> DEFINE Good(s) == s # {} => \E x \in s : \A y \in s : f[x] <= f[y]
           S0 == {Cardinality(s) : s \in {r \in SUBSET T : ~Good(r)}}
<1> SUFFICES ASSUME S0 # {} PROVE FALSE
  OBVIOUS
<1>1. S0 \in SUBSET Nat
  BY FS_Subset, FS_CardinalityType
<1>2. PICK n \in S0 : \A m \in S0 : n <= m
  <2> HIDE DEF S0
  <2> QED
    BY <1>1, Smallest
<1>3. PICK s \in SUBSET T : ~Good(s) /\ Cardinality(s) = n
  OBVIOUS
<1> DEFINE r == s \ {Picked(s)}
<1>4. Picked(s) \in s /\ r \in SUBSET T /\ Cardinality(r) = n - 1 /\ n \in Nat
  BY <1>3, PartsShrink
<1>5. Good(r)
  <2>1. Good(r) \/ Cardinality(r) \in S0
    BY <1>4
  <2> HIDE DEF S0, Good, r
  <2> QED
    BY <1>2, <1>4, <2>1
<1>6. s = r \cup {Picked(s)} /\ r \subseteq T /\ Picked(s) \in T
  BY <1>4
<1> HIDE DEF r
<1>7. Good(s)
  <2>1. CASE r = {}
    BY <1>6, <2>1
  <2>2. ASSUME NEW x \in r, \A y \in r : f[x] <= f[y] PROVE Good(s)
    <3>1. CASE f[x] <= f[Picked(s)]
      BY <1>6, <2>2, <3>1
    <3>2. CASE f[Picked(s)] <= f[x]
      <4>1. \A y \in r : f[Picked(s)] <= f[y]
        BY <1>6, <2>2, <3>2
      <4> QED
        BY <1>6, <4>1
    <3> QED
      BY <1>6, <3>1, <3>2
  <2> QED
    BY <1>5, <2>1, <2>2
<1> QED
  BY <1>3, <1>7

Pairs(D0) == {q \in D0 \X D0 : q[1] # q[2]}

\* Of two or more places, WorstTwo is the least sum of two.
LEMMA WorstTwoIs ==
  ASSUME NEW D0, IsFiniteSet(D0), NEW a \in D0, NEW b \in D0, a # b,
         NEW v, DOMAIN v = D0, \A p \in D0 : v[p] \in Int
  PROVE  \E q \in Pairs(D0) :
           /\ Room!WorstTwo(v) = v[q[1]] + v[q[2]] /\ Room!WorstTwo(v) \in Int
           /\ \A r \in Pairs(D0) : Room!WorstTwo(v) <= v[r[1]] + v[r[2]]
<1> DEFINE f == [q \in Pairs(D0) |-> v[q[1]] + v[q[2]]]
           sums == {v[q[1]] + v[q[2]] : q \in Pairs(D0)}
<1>1. IsFiniteSet(Pairs(D0))
  <2>1. IsFiniteSet(D0 \X D0)
    BY FS_Product
  <2>2. Pairs(D0) \in SUBSET (D0 \X D0)
    BY DEF Pairs
  <2> QED
    BY <2>1, <2>2, FS_Subset
<1>2. \A q \in Pairs(D0) : v[q[1]] + v[q[2]] \in Int
  BY DEF Pairs
<1>3. <<a, b>> \in Pairs(D0)
  BY DEF Pairs
<1>4. PICK q \in Pairs(D0) : \A r \in Pairs(D0) : f[q] <= f[r]
  <2>1. \A x \in Pairs(D0) : f[x] \in Int
    BY <1>2
  <2> HIDE DEF f
  <2> QED
    BY <1>1, <1>3, <2>1, LeastExists
<1>5. Room!WorstTwo(v) = Room!Min(sums)
  <2>1. Room!WorstTwo(v) = IF Pairs(D0) = {} THEN 2 * v[CHOOSE p \in D0 : TRUE] ELSE Room!Min(sums)
    BY Zenon DEF Room!WorstTwo, Pairs
  <2>2. Pairs(D0) # {}
    BY <1>3
  <2> HIDE DEF sums
  <2> QED
    BY <2>1, <2>2
<1>6. Room!Min(sums) \in sums /\ \A y \in sums : Room!Min(sums) <= y
  <2>1. f[q] \in sums /\ \A y \in sums : f[q] <= y
    BY <1>4
  <2> HIDE DEF sums, f
  <2> QED
    BY <2>1 DEF Room!Min
<1>7. PICK r \in Pairs(D0) : Room!Min(sums) = v[r[1]] + v[r[2]]
  BY <1>6
<1>8. \A s \in Pairs(D0) : Room!Min(sums) <= v[s[1]] + v[s[2]]
  BY <1>6
<1> HIDE DEF sums
<1> QED
  BY <1>2, <1>5, <1>7, <1>8

\* More places make the worst two no better.
LEMMA WorstTwoFalls ==
  ASSUME NEW D0, NEW D1, D0 \subseteq D1, IsFiniteSet(D1), NEW a \in D0, NEW b \in D0, a # b,
         NEW v, DOMAIN v = D0, NEW w, DOMAIN w = D1, \A p \in D1 : w[p] \in Int,
         \A p \in D0 : w[p] = v[p]
  PROVE  /\ Room!WorstTwo(v) \in Int /\ Room!WorstTwo(w) \in Int
         /\ Room!WorstTwo(w) <= Room!WorstTwo(v)
<1>1. IsFiniteSet(D0) /\ \A p \in D0 : v[p] \in Int
  BY FS_Subset
<1>2. PICK q \in Pairs(D0) :
        Room!WorstTwo(v) = v[q[1]] + v[q[2]] /\ Room!WorstTwo(v) \in Int
  BY <1>1, WorstTwoIs
<1>3. a \in D1 /\ b \in D1
  OBVIOUS
<1>4. Room!WorstTwo(w) \in Int /\ \A r \in Pairs(D1) : Room!WorstTwo(w) <= w[r[1]] + w[r[2]]
  BY <1>3, WorstTwoIs
<1>5. q \in Pairs(D1) /\ q[1] \in D0 /\ q[2] \in D0
  BY DEF Pairs
<1> QED
  BY <1>2, <1>4, <1>5

Bounded(x, hi) == IF x <= 0 THEN 0 ELSE IF x >= hi THEN hi ELSE x

LEMMA BoundedGrows ==
  ASSUME NEW x \in Int, NEW y \in Int, x <= y, NEW hi \in Nat
  PROVE  Bounded(x, hi) \in Int /\ Bounded(y, hi) \in Int /\ Bounded(x, hi) <= Bounded(y, hi)
  BY DEF Bounded

LEMMA TimeRiskIs ==
  ASSUME NEW t \in Int, NEW w \in Int
  PROVE  Room!TimeRisk(t, w) = Bounded(-12 * t, 600) + Bounded(20 * (20 - w), 400)
<1>1. ASSUME NEW x \in Int, NEW hi \in Nat
      PROVE  Room!Max({0, Room!Min({hi, x})}) = Bounded(x, hi)
  <2>1. Room!Min({hi, x}) = IF hi <= x THEN hi ELSE x
    BY MinOfTwo
  <2>2. PICK m \in Int : m = Room!Min({hi, x}) /\ m = IF hi <= x THEN hi ELSE x
    <3>1. (IF hi <= x THEN hi ELSE x) \in Int
      OBVIOUS
    <3> QED
      BY <2>1, <3>1
  <2>3. Room!Max({0, m}) = IF 0 >= m THEN 0 ELSE m
    BY MaxOfTwo
  <2> QED
    BY <2>2, <2>3 DEF Bounded
<1>2. PICK x \in Int, y \in Int : x = -12 * t /\ y = 20 * (20 - w)
  <2>1. -12 * t \in Int /\ 20 * (20 - w) \in Int
    OBVIOUS
  <2> QED
    BY <2>1
<1>3. Room!TimeRisk(t, w) = Room!Max({0, Room!Min({600, x})}) + Room!Max({0, Room!Min({400, y})})
  BY <1>2 DEF Room!TimeRisk
<1> QED
  BY <1>1, <1>2, <1>3

\* Colder and calmer is no less risky.
LEMMA TimeRiskGrows ==
  ASSUME NEW t \in Int, NEW w \in Int, NEW t1 \in Int, NEW w1 \in Int, t1 <= t, w1 <= w
  PROVE  Room!TimeRisk(t, w) <= Room!TimeRisk(t1, w1)
<1>1. PICK a \in Int, b \in Int, c \in Int, d \in Int :
        /\ a = -12 * t /\ b = -12 * t1 /\ c = 20 * (20 - w) /\ d = 20 * (20 - w1)
        /\ a <= b /\ c <= d
  <2>1. /\ -12 * t \in Int /\ -12 * t1 \in Int /\ -12 * t <= -12 * t1
        /\ 20 * (20 - w) \in Int /\ 20 * (20 - w1) \in Int /\ 20 * (20 - w) <= 20 * (20 - w1)
    OBVIOUS
  <2> QED
    BY <2>1
<1>2. /\ Bounded(a, 600) \in Int /\ Bounded(b, 600) \in Int /\ Bounded(a, 600) <= Bounded(b, 600)
      /\ Bounded(c, 400) \in Int /\ Bounded(d, 400) \in Int /\ Bounded(c, 400) <= Bounded(d, 400)
  BY <1>1, BoundedGrows
<1>3. /\ Room!TimeRisk(t, w) = Bounded(a, 600) + Bounded(c, 400)
      /\ Room!TimeRisk(t1, w1) = Bounded(b, 600) + Bounded(d, 400)
  BY <1>1, TimeRiskIs
<1> QED
  BY <1>2, <1>3

\* The worst two of what the stations answered, and the lock's two readings of it.
Reports == [temp : Int, wind : Int]
Reported(st, D0) == D0 = Room!Valid(st) /\ IsFiniteSet(D0) /\ \A p \in D0 : st[p] \in Reports
Coldest(st) == Room!WorstTwo([p \in Room!Valid(st) |-> st[p].temp])
Calmest(st) == Room!WorstTwo([p \in Room!Valid(st) |-> st[p].wind])
LockStatus(t2, w2) ==
  IF w2 < 6 /\ t2 < -30 THEN "CRITICAL" ELSE IF w2 < 10 \/ t2 < -20 THEN "WEAK" ELSE "OK"

LEMMA TimeLockIs ==
  ASSUME NEW st, Room!Valid(st) # {}
  PROVE  /\ Room!CalculateTimeLock(st).status = LockStatus(Coldest(st), Calmest(st))
         /\ Room!CalculateTimeLock(st).time_p = Room!TimeRisk(Coldest(st), Calmest(st))
<1>1. Room!CalculateTimeLock(st)
        = IF Room!Valid(st) = {} THEN [status |-> "UNKNOWN", time_p |-> 0]
          ELSE [status |-> LockStatus(Coldest(st), Calmest(st)),
                time_p |-> Room!TimeRisk(Coldest(st), Calmest(st))]
  BY Zenon DEF Room!CalculateTimeLock, LockStatus, Coldest, Calmest
<1> QED
  BY <1>1

LEMMA SeverityGrows ==
  ASSUME NEW t \in Int, NEW w \in Int, NEW t1 \in Int, NEW w1 \in Int, t1 <= t, w1 <= w
  PROVE  Room!Severity(LockStatus(t1, w1)) >= Room!Severity(LockStatus(t, w))
  BY DEF LockStatus, Room!Severity

LEMMA TimeLockFalls ==
  ASSUME NEW st, NEW D0, Reported(st, D0), NEW su, NEW D1, Reported(su, D1),
         \A p \in D0 : su[p] = st[p], D0 \subseteq D1,
         NEW a \in D0, NEW b \in D0, a # b
  PROVE  /\ Room!Severity(Room!CalculateTimeLock(su).status)
              >= Room!Severity(Room!CalculateTimeLock(st).status)
         /\ Room!CalculateTimeLock(su).time_p >= Room!CalculateTimeLock(st).time_p
<1>1. /\ Coldest(st) \in Int /\ Coldest(su) \in Int /\ Coldest(su) <= Coldest(st)
  <2> DEFINE v == [p \in D0 |-> st[p].temp]
             w == [p \in D1 |-> su[p].temp]
  <2>1. /\ DOMAIN v = D0 /\ DOMAIN w = D1 /\ IsFiniteSet(D1)
        /\ (\A p \in D1 : w[p] \in Int) /\ \A p \in D0 : w[p] = v[p]
    BY DEF Reported, Reports
  <2>2. Coldest(st) = Room!WorstTwo(v) /\ Coldest(su) = Room!WorstTwo(w)
    BY DEF Coldest, Reported
  <2> HIDE DEF v, w
  <2> QED
    BY <2>1, <2>2, WorstTwoFalls
<1>2. /\ Calmest(st) \in Int /\ Calmest(su) \in Int /\ Calmest(su) <= Calmest(st)
  <2> DEFINE v == [p \in D0 |-> st[p].wind]
             w == [p \in D1 |-> su[p].wind]
  <2>1. /\ DOMAIN v = D0 /\ DOMAIN w = D1 /\ IsFiniteSet(D1)
        /\ (\A p \in D1 : w[p] \in Int) /\ \A p \in D0 : w[p] = v[p]
    BY DEF Reported, Reports
  <2>2. Calmest(st) = Room!WorstTwo(v) /\ Calmest(su) = Room!WorstTwo(w)
    BY DEF Calmest, Reported
  <2> HIDE DEF v, w
  <2> QED
    BY <2>1, <2>2, WorstTwoFalls
<1>3. Room!Valid(st) # {} /\ Room!Valid(su) # {}
  BY DEF Reported
<1>4. Room!TimeRisk(Coldest(st), Calmest(st)) <= Room!TimeRisk(Coldest(su), Calmest(su))
  BY <1>1, <1>2, TimeRiskGrows
<1>5. Room!Severity(LockStatus(Coldest(su), Calmest(su)))
        >= Room!Severity(LockStatus(Coldest(st), Calmest(st)))
  BY <1>1, <1>2, SeverityGrows
<1> QED
  BY <1>3, <1>4, <1>5, TimeLockIs

-----------------------------------------------------------------------------
(* The judgements.                                                         *)

Judging ==
  /\ stations \in [Places -> Observations \cup {NoAnswer}]
  /\ scores \in [Room!Functions6 -> Scores \cup {Missing}]
  /\ desk = "scores" /\ answer \notin {None, Refused} => Judged(scores, answer)
  /\ desk = "bridge" /\ answer \notin {None, Refused} => Bridged(measured, answer)

LEMMA JudgingInit == MCInit => Judging
  BY DEF MCInit, Room!Init, Judging

LEMMA ScoresAreNumbers ==
  ASSUME NEW sc \in [Room!Functions6 -> Scores \cup {Missing}]
  PROVE  ScoresOk(sc)
  BY ScoreAssumption DEF ScoresOk

LEMMA RescoreJudges ==
  ASSUME Judging, NEW f \in Room!Functions6, NEW v \in Scores, NEW strict, Room!Rescore(f, v, strict)
  PROVE  scores' \in [Room!Functions6 -> Scores \cup {Missing}] /\ (answer' # Refused => Judged(scores', answer'))
<1>1. answer' \in Room!Evaluate(scores', strict) /\ scores' = [scores EXCEPT ![f] = v]
  BY DEF Room!Rescore
<1>2. scores' \in [Room!Functions6 -> Scores \cup {Missing}]
  BY <1>1 DEF Judging
<1> QED
  BY <1>1, <1>2, EvaluateIs

LEMMA MeasureBridges ==
  ASSUME NEW m \in Measurements, Room!Measure(m), answer' # Refused
  PROVE  Bridged(measured', answer')
<1>1. measured' = m /\ answer' = Room!SnapshotToAgent(m) /\ m \in Readings
  BY MeasurementAssumption DEF Room!Measure, Readings
<1> QED
  BY <1>1, BridgeIs

LEMMA JudgingStep == Judging /\ [MCNext]_mcVars => Judging'
<1> SUFFICES ASSUME Judging, [MCNext]_mcVars PROVE Judging'
  OBVIOUS
<1>1. ASSUME UNCHANGED <<desk, stations, scores, measured, answer>> PROVE Judging'
  BY <1>1 DEF Judging
<1>2. CASE Room!Hub
  <2>1. desk = "hub" /\ UNCHANGED <<desk, scores, measured, answer>>
    BY <1>2 DEF Room!Hub, Room!deskVars
  <2>2. stations' \in [Places -> Observations \cup {NoAnswer}]
    BY <1>2 DEF Room!Hub, Room!Tick, Room!Observe, Room!EvaluateSnapshot, Judging
  <2> QED
    BY <2>1, <2>2 DEF Judging
<1>3. CASE Room!Matrix \/ Room!Documents
  <2>1. desk \notin {"scores", "bridge"} /\ UNCHANGED <<desk, stations, scores>>
    BY <1>3 DEF Room!Matrix, Room!Documents, Room!hubVars
  <2> QED
    BY <2>1 DEF Judging
<1>4. CASE Room!Scoring
  <2>1. UNCHANGED <<desk, stations>>
    BY <1>4 DEF Room!Scoring, Room!hubVars
  <2>2. ASSUME desk = "scores", NEW f \in Room!Functions6, NEW v \in Scores, NEW strict \in BOOLEAN,
               Room!Rescore(f, v, strict)
        PROVE  Judging'
    BY <2>1, <2>2, RescoreJudges DEF Judging
  <2>3. ASSUME desk = "bridge", NEW m \in Measurements, Room!Measure(m) PROVE Judging'
    <3>1. UNCHANGED scores
      BY <2>3 DEF Room!Measure
    <3> QED
      BY <2>1, <2>3, <3>1, MeasureBridges DEF Judging
  <2> QED
    BY <1>4, <2>2, <2>3 DEF Room!Scoring
<1>5. CASE Logs \/ UNCHANGED mcVars
  BY <1>1, <1>5 DEF Logs, mcVars, situationVars, hubVars
<1> QED
  BY <1>2, <1>3, <1>4, <1>5 DEF MCNext, Situation, Room!Next

LEMMA RoomCardinality == ASSUME NEW T PROVE Room!Cardinality(T) = Cardinality(T)
  BY DEF Room!Cardinality, Cardinality

LEMMA TwoOf ==
  ASSUME NEW T, IsFiniteSet(T), Cardinality(T) >= 2
  PROVE  \E a \in T, b \in T : a # b
<1> SUFFICES ASSUME \A a \in T, b \in T : a = b PROVE FALSE
  OBVIOUS
<1>1. CASE T = {}
  BY <1>1, FS_EmptySet
<1>2. ASSUME NEW a \in T PROVE FALSE
  <2>1. T = {a}
    OBVIOUS
  <2>2. Cardinality({a}) = 1
    BY FS_Singleton
  <2> QED
    BY <2>1, <2>2
<1> QED
  BY <1>1, <1>2

LEMMA StationsHideNothing == Judging /\ Judging' => Room!HidesNothing
<1> SUFFICES ASSUME Judging, Judging', Room!Cardinality(Room!Valid(stations)) >= 2,
                    \A p \in Room!Valid(stations) : stations'[p] = stations[p]
             PROVE  /\ Room!Severity(Room!CalculateTimeLock(stations').status)
                         >= Room!Severity(Room!CalculateTimeLock(stations).status)
                    /\ Room!CalculateTimeLock(stations').time_p
                         >= Room!CalculateTimeLock(stations).time_p
  BY DEF Room!HidesNothing
<1>1. ASSUME NEW st \in [Places -> Observations \cup {NoAnswer}]
      PROVE  Reported(st, Room!Valid(st))
  <2>1. Room!Valid(st) \in SUBSET Places /\ \A p \in Room!Valid(st) : st[p] \in Reports
    BY WeatherAssumption DEF Room!Valid, Reports
  <2> QED
    BY <2>1, WeatherAssumption, FS_Subset DEF Reported
<1>2. Reported(stations, Room!Valid(stations)) /\ Reported(stations', Room!Valid(stations'))
  BY <1>1 DEF Judging
<1>3. Room!Valid(stations) \subseteq Room!Valid(stations')
  BY DEF Room!Valid, Judging
<1>4. PICK a \in Room!Valid(stations), b \in Room!Valid(stations) : a # b
  BY <1>2, RoomCardinality, TwoOf DEF Reported
<1> QED
  BY <1>2, <1>3, <1>4, TimeLockFalls

LEMMA NoScoreWorse == Judging /\ Room!Next => Room!ScoresNoWorse
<1> SUFFICES ASSUME Judging, Room!Next, answer \notin {None, Refused}, answer' # Refused
             PROVE  /\ desk = "scores" /\ (\E f \in Room!Functions6 : Room!RaisedOne(f)) =>
                         Room!Rank[answer'.status] >= Room!Rank[answer.status]
                    /\ desk = "bridge" /\ Room!WorseReading(measured, measured') =>
                         answer'.R <= answer.R /\ answer'.S <= answer.S
  BY DEF Room!ScoresNoWorse
<1>1. desk \in {"scores", "bridge"} => Room!Scoring
  BY DEF Room!Next, Room!Hub, Room!Matrix, Room!Documents
<1>2. ASSUME desk = "scores", NEW f \in Room!Functions6, Room!RaisedOne(f)
      PROVE  Room!Rank[answer'.status] >= Room!Rank[answer.status]
  <2>1. PICK g \in Room!Functions6, v \in Scores, strict \in BOOLEAN : Room!Rescore(g, v, strict)
    BY <1>1, <1>2 DEF Room!Scoring
  <2>2. scores' \in [Room!Functions6 -> Scores \cup {Missing}] /\ Judged(scores', answer')
    BY <2>1, RescoreJudges
  <2>3. ScoresOk(scores) /\ ScoresOk(scores') /\ Judged(scores, answer)
    BY <1>2, <2>2, ScoresAreNumbers DEF Judging
  <2>4. Raised1(scores, scores', f)
    BY <1>2 DEF Room!RaisedOne, Raised1
  <2> QED
    BY <2>2, <2>3, <2>4, JudgementGrows
<1>3. ASSUME desk = "bridge", Room!WorseReading(measured, measured')
      PROVE  answer'.R <= answer.R /\ answer'.S <= answer.S
  <2>1. PICK m \in Measurements : Room!Measure(m)
    BY <1>1, <1>3 DEF Room!Scoring
  <2>2. Bridged(measured, answer) /\ Bridged(measured', answer')
    BY <1>3, <2>1, MeasureBridges DEF Judging
  <2> QED
    BY <1>3, <2>2, BridgeFalls DEF Bridged
<1> QED
  BY <1>2, <1>3

(***************************************************************************)
(* No judgement improves because the situation got worse.  With two        *)
(* stations answering, for any places and observations, a further answer   *)
(* never makes calculate_time_lock report less; for any scores, given or   *)
(* missing, raising one never lowers the status of evaluate, however the   *)
(* quotients are rounded; and for any measurements, a worse reading never  *)
(* raises R or S of wem_to_lr.                                             *)
(***************************************************************************)
THEOREM JudgementsHold == MCSpec => JudgementsAreMonotone
<1>1. Judging /\ Judging' /\ [MCNext]_mcVars => [Room!HidesNothing]_(Room!vars)
  BY StationsHideNothing
<1>2. Judging /\ [MCNext]_mcVars => [Room!ScoresNoWorse]_(Room!vars)
  <2>1. UNCHANGED situationVars => UNCHANGED Room!vars
    BY DEF situationVars, hubVars, Room!vars, Room!hubVars, Room!deskVars
  <2>2. UNCHANGED mcVars => UNCHANGED situationVars
    BY DEF mcVars
  <2> QED
    BY <2>1, <2>2, NoScoreWorse DEF MCNext, Situation, Logs
<1> QED
  BY <1>1, <1>2, JudgingInit, JudgingStep, PTL
  DEF MCSpec, JudgementsAreMonotone, Room!JudgementsAreMonotone, Room!MoreStationsNeverHide,
      Room!BetterNeverScoresWorse

-----------------------------------------------------------------------------
(* The formulas of a document.                                             *)

\* The value of a node, from those of its operands.
NodeValue(n, e, ns) ==
  IF n.node = "binop" THEN
    IF FormulaError \in {e[n.left], e[n.right]} THEN FormulaError
    ELSE Room!Apply(n.op, e[n.left], e[n.right])
  ELSE IF n.node = "usub" THEN
    IF e[n.operand] = FormulaError THEN FormulaError ELSE Room!Negated(e[n.operand])
  ELSE Room!Leaf(n, ns)
IsEval(D0, e, ns) == e = [n \in D0 |-> NodeValue(n, e, ns)]
Closed(D0) == D0 \in SUBSET Nodes /\ \A n \in D0 : Operands(n) \subseteq D0

LEMMA NodeValueFrom ==
  ASSUME NEW n, NEW e, NEW g, NEW ns, \A m \in Operands(n) : e[m] = g[m]
  PROVE  NodeValue(n, e, ns) = NodeValue(n, g, ns)
<1>1. CASE n.node = "binop"
  <2>1. e[n.left] = g[n.left] /\ e[n.right] = g[n.right]
    BY <1>1 DEF Operands
  <2> QED
    BY <1>1, <2>1 DEF NodeValue
<1>2. CASE n.node = "usub"
  <2>1. e[n.operand] = g[n.operand]
    BY <1>2 DEF Operands
  <2> QED
    BY <1>2, <2>1 DEF NodeValue
<1>3. CASE n.node \notin {"binop", "usub"}
  BY <1>3 DEF NodeValue
<1> QED
  BY <1>1, <1>2, <1>3

\* Two evaluations agree where both are defined.
LEMMA EvalAgrees ==
  ASSUME NEW ns, NEW D0, NEW e, Closed(D0), IsEval(D0, e, ns),
         NEW D1, NEW g, Closed(D1), IsEval(D1, g, ns)
  PROVE  \A n \in D0 \cap D1 : e[n] = g[n]
<1> DEFINE S0 == {n \in D0 \cap D1 : e[n] # g[n]}
<1> SUFFICES ASSUME S0 # {} PROVE FALSE
  OBVIOUS
<1>1. S0 \in SUBSET Nodes
  BY DEF Closed
<1>2. PICK n \in S0 : Operands(n) \cap S0 = {}
  <2> HIDE DEF S0
  <2> QED
    BY <1>1, TreeAssumption
<1>3. \A m \in Operands(n) : e[m] = g[m]
  BY <1>2 DEF Closed
<1>4. NodeValue(n, e, ns) = NodeValue(n, g, ns)
  BY <1>3, NodeValueFrom
<1>5. e[n] = NodeValue(n, e, ns) /\ g[n] = NodeValue(n, g, ns)
  <2>1. n \in D0 /\ n \in D1
    OBVIOUS
  <2> QED
    BY <2>1 DEF IsEval
<1> QED
  BY <1>4, <1>5

\* Syntax trees are finite, so every node has a value.
LEMMA EvalExists == ASSUME NEW ns PROVE \E e : IsEval(Nodes, e, ns)
<1> DEFINE Solves(D0, e) == Closed(D0) /\ IsEval(D0, e, ns)
           Solved == {n \in Nodes : \E D0, e : Solves(D0, e) /\ n \in D0}
           sol(n) == CHOOSE e : \E D0 : Solves(D0, e) /\ n \in D0
           all == [n \in Solved |-> sol(n)[n]]
<1>1. ASSUME NEW n \in Solved PROVE \E D0 : Solves(D0, sol(n)) /\ n \in D0
  <2>1. \E e : \E D0 : Solves(D0, e) /\ n \in D0
    OBVIOUS
  <2> HIDE DEF Solves, Solved
  <2> QED
    BY <2>1
<1>2. ASSUME NEW D0, NEW e, Solves(D0, e), NEW n \in D0 PROVE n \in Solved /\ all[n] = e[n]
  <2>1. n \in Solved
    BY <1>2 DEF Closed
  <2>2. PICK D1 : Solves(D1, sol(n)) /\ n \in D1
    BY <1>1, <2>1
  <2>3. sol(n)[n] = e[n]
    <3> HIDE DEF sol
    <3> QED
      BY <1>2, <2>2, EvalAgrees
  <2>4. all[n] = sol(n)[n]
    BY <2>1
  <2> QED
    BY <2>1, <2>3, <2>4
<1>3. ASSUME NEW n \in Solved PROVE Operands(n) \subseteq Solved /\ all[n] = NodeValue(n, all, ns)
  <2>1. PICK D0, e : Solves(D0, e) /\ n \in D0
    OBVIOUS
  <2>2. Operands(n) \subseteq D0
    BY <2>1 DEF Closed
  <2>3. \A m \in D0 : m \in Solved /\ all[m] = e[m]
    BY <1>2, <2>1
  <2> HIDE DEF all, Solved
  <2>4. NodeValue(n, all, ns) = NodeValue(n, e, ns)
    BY <2>2, <2>3, NodeValueFrom
  <2>5. e[n] = NodeValue(n, e, ns)
    BY <2>1 DEF IsEval
  <2> QED
    BY <2>1, <2>2, <2>3, <2>4, <2>5
<1>4. Solved \in SUBSET Nodes /\ DOMAIN all = Solved /\ all = [n \in Solved |-> all[n]]
  OBVIOUS
<1>5. ASSUME Solved # Nodes PROVE FALSE
  <2>1. PICK n \in Nodes \ Solved : Operands(n) \subseteq Solved
    <3>1. Nodes \ Solved \in SUBSET Nodes /\ Nodes \ Solved # {}
      BY <1>4, <1>5
    <3> HIDE DEF Solved
    <3>2. PICK n \in Nodes \ Solved : Operands(n) \cap (Nodes \ Solved) = {}
      BY <3>1, TreeAssumption
    <3> QED
      BY <3>2, TreeAssumption
  <2> DEFINE D1 == Solved \cup {n}
             g == [m \in D1 |-> NodeValue(m, all, ns)]
  <2>2. Closed(D1)
    <3> HIDE DEF Solved, all
    <3> QED
      BY <1>3, <1>4, <2>1 DEF Closed
  <2>3. ASSUME NEW m \in D1 PROVE g[m] = NodeValue(m, g, ns)
    <3>1. \A o \in Operands(m) : o \in Solved /\ g[o] = all[o]
      <4> HIDE DEF Solved, all
      <4> QED
        BY <1>3, <2>1
    <3>2. g[m] = NodeValue(m, all, ns)
      OBVIOUS
    <3> HIDE DEF g, all, D1, Solved
    <3> QED
      BY <3>1, <3>2, NodeValueFrom
  <2>4. IsEval(D1, g, ns)
    <3>1. g = [m \in D1 |-> g[m]]
      OBVIOUS
    <3> HIDE DEF g, D1
    <3> QED
      BY <2>3, <3>1 DEF IsEval
  <2>5. n \in D1
    OBVIOUS
  <2> HIDE DEF g, D1
  <2>6. n \in Solved
    BY <2>1, <2>2, <2>4, <2>5
  <2> QED
    BY <2>1, <2>6
<1>6. IsEval(Nodes, all, ns)
  <2> HIDE DEF all, Solved
  <2> QED
    BY <1>3, <1>4, <1>5 DEF IsEval
<1> QED
  BY <1>6

LEMMA EvalNodeChooses ==
  ASSUME NEW ns, NEW n
  PROVE  Room!EvalNode(n, ns) = (CHOOSE e : e = [m \in Nodes |-> NodeValue(m, e, ns)])[n]
  BY DEF Room!EvalNode, NodeValue

LEMMA EvalNodeIs ==
  ASSUME NEW ns
  PROVE  \E e : IsEval(Nodes, e, ns) /\ \A n : Room!EvalNode(n, ns) = e[n]
<1> DEFINE found == CHOOSE e : e = [m \in Nodes |-> NodeValue(m, e, ns)]
<1>1. IsEval(Nodes, found, ns)
  <2>1. \E e : e = [m \in Nodes |-> NodeValue(m, e, ns)]
    BY EvalExists DEF IsEval
  <2> QED
    BY <2>1, Zenon DEF IsEval
<1>2. \A n : Room!EvalNode(n, ns) = found[n]
  BY EvalNodeChooses
<1> QED
  BY <1>1, <1>2, Zenon

\* More names change no value that was found.
LEMMA EvalKeeps ==
  ASSUME NEW ns, NEW ms, DOMAIN ns \subseteq DOMAIN ms, \A k \in DOMAIN ns : ms[k] = ns[k],
         NEW n \in Nodes, Room!EvalNode(n, ns) # FormulaError
  PROVE  Room!EvalNode(n, ms) = Room!EvalNode(n, ns)
<1>1. PICK e : IsEval(Nodes, e, ns) /\ \A m : Room!EvalNode(m, ns) = e[m]
  BY EvalNodeIs
<1>2. PICK g : IsEval(Nodes, g, ms) /\ \A m : Room!EvalNode(m, ms) = g[m]
  BY EvalNodeIs
<1> DEFINE S0 == {m \in Nodes : e[m] # FormulaError /\ g[m] # e[m]}
<1>3. ASSUME S0 # {} PROVE FALSE
  <2>1. PICK m \in S0 : Operands(m) \cap S0 = {}
    <3>1. S0 \in SUBSET Nodes
      OBVIOUS
    <3> HIDE DEF S0
    <3> QED
      BY <1>3, <3>1, TreeAssumption
  <2>2. m \in Nodes /\ e[m] # FormulaError /\ g[m] # e[m]
    OBVIOUS
  <2>3. \A o \in Operands(m) : e[o] = FormulaError \/ g[o] = e[o]
    BY <2>1, <2>2, TreeAssumption
  <2>4. e[m] = NodeValue(m, e, ns) /\ g[m] = NodeValue(m, g, ms)
    BY <1>1, <1>2, <2>2 DEF IsEval
  <2> HIDE DEF S0
  <2>5. CASE m.node = "binop"
    <3>1. e[m.left] # FormulaError /\ e[m.right] # FormulaError
      BY <2>2, <2>4, <2>5 DEF NodeValue
    <3>2. g[m.left] = e[m.left] /\ g[m.right] = e[m.right]
      BY <2>3, <2>5, <3>1 DEF Operands
    <3> QED
      BY <2>2, <2>4, <2>5, <3>2 DEF NodeValue
  <2>6. CASE m.node = "usub"
    <3>1. e[m.operand] # FormulaError
      BY <2>2, <2>4, <2>6 DEF NodeValue
    <3>2. g[m.operand] = e[m.operand]
      BY <2>3, <2>6, <3>1 DEF Operands
    <3> QED
      BY <2>2, <2>4, <2>6, <3>2 DEF NodeValue
  <2>7. CASE m.node = "name"
    BY <2>2, <2>4, <2>7 DEF NodeValue, Room!Leaf
  <2>8. CASE m.node \notin {"binop", "usub", "name"}
    BY <2>2, <2>4, <2>8 DEF NodeValue, Room!Leaf
  <2> QED
    BY <2>5, <2>6, <2>7, <2>8
<1> QED
  BY <1>1, <1>2, <1>3

\* The namespaces of a run over the formulas, and what holds of each.
Entry(fa, fo, a, i) ==
  IF i = 0 THEN [k \in DOMAIN Room!SafeLoad(fa) |-> Room!Number(Room!SafeLoad(fa)[k])]
  ELSE IF a[i - 1] = FormulaError THEN FormulaError
  ELSE IF \E j \in 1 .. i - 1 : fo[j].key = fo[i].key THEN a[i - 1]
  ELSE Room!AddNumber(a[i - 1], fo[i].key, Room!SafeLoad(fo)[fo[i].key])
IsRun(fa, fo, n, a) == a = [i \in 0 .. n |-> Entry(fa, fo, a, i)]

LEMMA EntryFrom ==
  ASSUME NEW fa, NEW fo, NEW a, NEW b, NEW i, i # 0 => a[i - 1] = b[i - 1]
  PROVE  Entry(fa, fo, a, i) = Entry(fa, fo, b, i)
  BY DEF Entry

LEMMA RunExists == ASSUME NEW fa, NEW fo PROVE \A n \in Nat : \E a : IsRun(fa, fo, n, a)
<1> DEFINE S0 == {n \in Nat : ~ \E a : IsRun(fa, fo, n, a)}
<1> SUFFICES ASSUME S0 # {} PROVE FALSE
  OBVIOUS
<1>1. PICK n \in S0 : \A m \in S0 : n <= m
  <2>1. S0 \in SUBSET Nat
    OBVIOUS
  <2> HIDE DEF S0
  <2> QED
    BY <2>1, Smallest
<1>2. n \in Nat /\ ~ \E a : IsRun(fa, fo, n, a)
  OBVIOUS
<1>3. ASSUME n # 0 PROVE n - 1 \in Nat /\ \E a : IsRun(fa, fo, n - 1, a)
  <2>1. n - 1 \in Nat /\ ~(n <= n - 1)
    BY <1>2, <1>3
  <2>2. n - 1 \notin S0
    <3> HIDE DEF S0
    <3> QED
      BY <1>1, <2>1
  <2> QED
    BY <2>1, <2>2
<1> HIDE DEF S0
<1>4. PICK a : n = 0 \/ IsRun(fa, fo, n - 1, a)
  BY <1>3
<1> DEFINE b == [i \in 0 .. n |-> Entry(fa, fo, a, i)]
<1>5. ASSUME NEW i \in 0 .. n PROVE b[i] = Entry(fa, fo, b, i)
  <2>1. i # 0 => a[i - 1] = b[i - 1]
    <3>1. ASSUME i # 0 PROVE a[i - 1] = b[i - 1]
      <4>1. i - 1 \in 0 .. n /\ i - 1 \in 0 .. n - 1 /\ n # 0
        BY <1>2, <3>1
      <4>2. a[i - 1] = Entry(fa, fo, a, i - 1)
        BY <1>4, <4>1 DEF IsRun
      <4>3. b[i - 1] = Entry(fa, fo, a, i - 1)
        BY <4>1
      <4> QED
        BY <4>2, <4>3
    <3> QED
      BY <3>1
  <2>2. b[i] = Entry(fa, fo, a, i)
    OBVIOUS
  <2> HIDE DEF b
  <2> QED
    BY <2>1, <2>2, EntryFrom
<1>6. IsRun(fa, fo, n, b)
  <2>1. b = [i \in 0 .. n |-> b[i]]
    OBVIOUS
  <2> HIDE DEF b
  <2> QED
    BY <1>5, <2>1 DEF IsRun
<1> QED
  BY <1>2, <1>6

LEMMA ComputeAllIs ==
  ASSUME NEW fa, NEW fo, Len(fo) \in Nat, Room!ComputeAll(fa, fo) # FormulaError
  PROVE  /\ Room!Keys(fa) \cap Room!Keys(fo) = {}
         /\ \E a : IsRun(fa, fo, Len(fo), a) /\ Room!ComputeAll(fa, fo) = a[Len(fo)]
<1> DEFINE after == CHOOSE a : a = [i \in 0 .. Len(fo) |-> Entry(fa, fo, a, i)]
<1>1. \E a : a = [i \in 0 .. Len(fo) |-> Entry(fa, fo, a, i)]
  BY RunExists DEF IsRun
<1>2. Room!ComputeAll(fa, fo)
        = IF Room!Overlap(fa, fo) # {} \/ \E k \in DOMAIN Room!SafeLoad(fa) : Room!SafeLoad(fa)[k] = NoField
          THEN FormulaError ELSE after[Len(fo)]
  BY DEF Room!ComputeAll, Entry
<1>3. IsRun(fa, fo, Len(fo), after)
  BY <1>1, Zenon DEF IsRun
<1> HIDE DEF after
<1>4. Room!ComputeAll(fa, fo) = after[Len(fo)] /\ Room!Overlap(fa, fo) = {}
  BY <1>2
<1> QED
  BY <1>3, <1>4 DEF Room!Overlap

\* The formulas of the entries of a file.
Expressed(fo) ==
  /\ fo \in Seq(FormulaLines)
  /\ \A k \in Room!Keys(fo) : Room!SafeLoad(fo)[k] \in Nodes \cup {NoField}

LEMMA LoadedIsExpressed == ASSUME NEW fo \in Seq(FormulaLines) PROVE Expressed(fo)
<1> SUFFICES ASSUME NEW k \in Room!Keys(fo) PROVE Room!SafeLoad(fo)[k] \in Nodes \cup {NoField}
  BY DEF Expressed
<1> DEFINE Final(i) == i \in DOMAIN fo /\ fo[i].key = k /\ \A j \in DOMAIN fo : j > i => fo[j].key # k
           S0 == {n \in Nat : \E i \in DOMAIN fo : fo[i].key = k /\ n = Len(fo) - i}
<1>1. DOMAIN fo = 1 .. Len(fo) /\ Len(fo) \in Nat
  OBVIOUS
<1>2. PICK n \in S0 : \A m \in S0 : n <= m
  <2>1. S0 \in SUBSET Nat
    OBVIOUS
  <2>2. PICK i \in DOMAIN fo : fo[i].key = k
    BY DEF Room!Keys
  <2>3. Len(fo) - i \in S0
    BY <1>1, <2>2
  <2> HIDE DEF S0
  <2> QED
    BY <2>1, <2>3, Smallest
<1>3. PICK i \in DOMAIN fo : fo[i].key = k /\ n = Len(fo) - i
  OBVIOUS
<1>4. ASSUME NEW j \in DOMAIN fo, j > i PROVE fo[j].key # k
  <2>1. ASSUME fo[j].key = k PROVE Len(fo) - j \in S0
    BY <1>1, <2>1
  <2> HIDE DEF S0
  <2> QED
    BY <1>1, <1>2, <1>3, <1>4, <2>1
<1>5. Final(i)
  BY <1>3, <1>4
<1>6. Room!SafeLoad(fo)[k] = fo[CHOOSE m \in DOMAIN fo : fo[m].key = k /\ \A j \in DOMAIN fo : j > m => fo[j].key # k].field
  BY Zenon DEF Room!SafeLoad
<1>7. (CHOOSE m \in DOMAIN fo : fo[m].key = k /\ \A j \in DOMAIN fo : j > m => fo[j].key # k) \in DOMAIN fo
  BY <1>3, <1>4
<1>8. \A m \in DOMAIN fo : fo[m].field \in Nodes \cup {NoField}
  BY EntryAssumption
<1> QED
  BY <1>6, <1>7, <1>8

\* After i entries: the facts, and each formula over the numbers so far.
Agreed(fa, fo, i, ns) ==
  /\ DOMAIN ns = Room!Keys(fa) \cup {fo[j].key : j \in 1 .. i}
  /\ \A k \in Room!Keys(fa) : ns[k] = Room!Number(Room!SafeLoad(fa)[k])
  /\ \A j \in 1 .. i : /\ Room!SafeLoad(fo)[fo[j].key] \in Nodes
                       /\ ns[fo[j].key] # FormulaError
                       /\ Room!EvalNode(Room!SafeLoad(fo)[fo[j].key], ns) = ns[fo[j].key]

LEMMA AgreedGrows ==
  ASSUME NEW fa, NEW fo, Expressed(fo), Room!Keys(fa) \cap Room!Keys(fo) = {},
         NEW i \in 1 .. Len(fo), NEW ns, Agreed(fa, fo, i - 1, ns),
         \A j \in 1 .. i - 1 : fo[j].key # fo[i].key,
         NEW ms, ms = Room!AddNumber(ns, fo[i].key, Room!SafeLoad(fo)[fo[i].key]), ms # FormulaError
  PROVE  Agreed(fa, fo, i, ms)
<1> DEFINE key == fo[i].key
           expression == Room!SafeLoad(fo)[key]
           result == Room!EvalNode(expression, ns)
<1>1. expression # NoField /\ result # FormulaError /\ ms = Room!Assign(ns, key, result)
  BY DEF Room!AddNumber
<1>2. i \in DOMAIN fo /\ Len(fo) \in Nat /\ i \in Nat /\ key \in Room!Keys(fo)
  BY DEF Expressed, Room!Keys
<1>3. expression \in Nodes
  BY <1>1, <1>2 DEF Expressed
<1>4. key \notin DOMAIN ns
  BY <1>2 DEF Agreed
<1> HIDE DEF result, expression
<1>5. DOMAIN ms = DOMAIN ns \cup {key} /\ ms[key] = result /\ \A k \in DOMAIN ns : ms[k] = ns[k]
  BY <1>1, <1>4 DEF Room!Assign
<1>6. ASSUME NEW n \in Nodes, Room!EvalNode(n, ns) # FormulaError
      PROVE  Room!EvalNode(n, ms) = Room!EvalNode(n, ns)
  BY <1>5, <1>6, EvalKeeps
<1>7. 1 .. i = (1 .. i - 1) \cup {i}
  BY <1>2
<1>8. DOMAIN ms = Room!Keys(fa) \cup {fo[j].key : j \in 1 .. i}
  BY <1>5, <1>7 DEF Agreed
<1>9. \A k \in Room!Keys(fa) : ms[k] = Room!Number(Room!SafeLoad(fa)[k])
  BY <1>5 DEF Agreed
<1>10. ASSUME NEW j \in 1 .. i
       PROVE  /\ Room!SafeLoad(fo)[fo[j].key] \in Nodes
              /\ ms[fo[j].key] # FormulaError
              /\ Room!EvalNode(Room!SafeLoad(fo)[fo[j].key], ms) = ms[fo[j].key]
  <2>1. CASE j = i
    BY <1>1, <1>3, <1>5, <1>6, <2>1 DEF result, expression
  <2>2. CASE j # i
    <3>1. j \in 1 .. i - 1
      BY <1>7, <2>2
    <3>2. /\ Room!SafeLoad(fo)[fo[j].key] \in Nodes /\ ns[fo[j].key] # FormulaError
          /\ Room!EvalNode(Room!SafeLoad(fo)[fo[j].key], ns) = ns[fo[j].key]
          /\ fo[j].key \in DOMAIN ns
      BY <3>1 DEF Agreed
    <3> QED
      BY <1>5, <1>6, <3>2
  <2> QED
    BY <2>1, <2>2
<1> QED
  BY <1>8, <1>9, <1>10 DEF Agreed

LEMMA RunAgrees ==
  ASSUME NEW fa, NEW fo, Expressed(fo), Room!Keys(fa) \cap Room!Keys(fo) = {},
         NEW a, IsRun(fa, fo, Len(fo), a)
  PROVE  \A i \in 0 .. Len(fo) : a[i] # FormulaError => Agreed(fa, fo, i, a[i])
<1> DEFINE S0 == {i \in 0 .. Len(fo) : a[i] # FormulaError /\ ~Agreed(fa, fo, i, a[i])}
<1> SUFFICES ASSUME S0 # {} PROVE FALSE
  OBVIOUS
<1>1. Len(fo) \in Nat /\ DOMAIN fo = 1 .. Len(fo)
  BY DEF Expressed
<1>2. PICK i \in S0 : \A m \in S0 : i <= m
  <2>1. S0 \in SUBSET Nat
    BY <1>1
  <2> HIDE DEF S0
  <2> QED
    BY <2>1, Smallest
<1>3. i \in 0 .. Len(fo) /\ a[i] # FormulaError /\ ~Agreed(fa, fo, i, a[i]) /\ i \in Nat
  BY <1>1
<1>4. a[i] = Entry(fa, fo, a, i)
  BY <1>3 DEF IsRun
<1>5. i # 0 => a[i - 1] = FormulaError \/ Agreed(fa, fo, i - 1, a[i - 1])
  <2>1. ASSUME i # 0 PROVE i - 1 \in 0 .. Len(fo) /\ i - 1 \notin S0
    BY <1>1, <1>2, <1>3, <2>1
  <2> QED
    BY <2>1
<1> HIDE DEF S0
<1>6. CASE i = 0
  <2>1. DOMAIN Room!SafeLoad(fa) = Room!Keys(fa)
    BY DEF Room!SafeLoad
  <2>2. a[0] = [k \in Room!Keys(fa) |-> Room!Number(Room!SafeLoad(fa)[k])]
    BY <1>4, <1>6, <2>1 DEF Entry
  <2>3. 1 .. 0 = {}
    OBVIOUS
  <2>4. {fo[j].key : j \in 1 .. 0} = {}
    BY <2>3
  <2> QED
    BY <1>3, <1>6, <2>2, <2>3, <2>4 DEF Agreed
<1>7. CASE i # 0
  <2> DEFINE ns == a[i - 1]
  <2>1. ns # FormulaError /\ Agreed(fa, fo, i - 1, ns) /\ i \in 1 .. Len(fo)
    BY <1>3, <1>4, <1>5, <1>7 DEF Entry
  <2>2. CASE \E j \in 1 .. i - 1 : fo[j].key = fo[i].key
    <3>1. a[i] = ns
      BY <1>4, <1>7, <2>1, <2>2 DEF Entry
    <3>2. 1 .. i = (1 .. i - 1) \cup {i}
      BY <1>1, <2>1
    <3> HIDE DEF ns
    <3>3. {fo[j].key : j \in 1 .. i} = {fo[j].key : j \in 1 .. i - 1}
      BY <2>2, <3>2
    <3>4. PICK l \in 1 .. i - 1 : fo[l].key = fo[i].key
      BY <2>2
    <3>5. Agreed(fa, fo, i, ns)
      BY <2>1, <3>2, <3>3, <3>4 DEF Agreed
    <3> QED
      BY <1>3, <3>1, <3>5
  <2>3. CASE ~ \E j \in 1 .. i - 1 : fo[j].key = fo[i].key
    <3>1. a[i] = Room!AddNumber(ns, fo[i].key, Room!SafeLoad(fo)[fo[i].key])
      BY <1>4, <1>7, <2>1, <2>3 DEF Entry
    <3> HIDE DEF ns
    <3> QED
      BY <1>3, <2>1, <2>3, <3>1, AgreedGrows
  <2> QED
    BY <2>2, <2>3
<1> QED
  BY <1>6, <1>7

Documented ==
  /\ facts \in Seq(FactLines) /\ formulas \in Seq(FormulaLines)
  /\ desk = "document" /\ answer \notin {None, FormulaError} => answer = Room!Build(facts, formulas, Shown)

LEMMA DocumentedInit == MCInit => Documented
  BY DEF MCInit, Room!Init, Documented

LEMMA DocumentedStep == Documented /\ [MCNext]_mcVars => Documented'
<1> SUFFICES ASSUME Documented, [MCNext]_mcVars PROVE Documented'
  OBVIOUS
<1>1. CASE Room!Hub \/ Room!Matrix \/ Room!Scoring
  <2>1. desk # "document" /\ UNCHANGED <<desk, facts, formulas>>
    BY <1>1 DEF Room!Hub, Room!Matrix, Room!Scoring, Room!deskVars
  <2> QED
    BY <2>1 DEF Documented
<1>2. CASE Room!Documents
  <2>1. ASSUME NEW line \in FactLines, Room!AddEntry(facts, line), UNCHANGED formulas PROVE Documented'
    <3>1. facts' = Append(facts, line) /\ formulas' = formulas /\ answer' = None
      BY <2>1 DEF Room!AddEntry
    <3>2. facts' \in Seq(FactLines) /\ formulas' \in Seq(FormulaLines)
      BY <3>1 DEF Documented
    <3> QED
      BY <3>1, <3>2 DEF Documented
  <2>2. ASSUME NEW line \in FormulaLines, Room!AddEntry(formulas, line), UNCHANGED facts PROVE Documented'
    <3>1. formulas' = Append(formulas, line) /\ facts' = facts /\ answer' = None
      BY <2>2 DEF Room!AddEntry
    <3>2. facts' \in Seq(FactLines) /\ formulas' \in Seq(FormulaLines)
      BY <3>1 DEF Documented
    <3> QED
      BY <3>1, <3>2 DEF Documented
  <2>3. ASSUME Room!BuildDocument, UNCHANGED <<facts, formulas>> PROVE Documented'
    BY <2>3 DEF Room!BuildDocument, Documented
  <2> QED
    BY <1>2, <2>1, <2>2, <2>3 DEF Room!Documents
<1>3. CASE Logs \/ UNCHANGED mcVars
  BY <1>3 DEF Logs, mcVars, situationVars, Documented
<1> QED
  BY <1>1, <1>2, <1>3 DEF MCNext, Situation, Room!Next

\* In a file that names no key twice, safe_load gives every entry its own field.
LEMMA LoadedIsEntry ==
  ASSUME NEW S, NEW lines \in Seq(S), Room!EntriesUnique(lines), NEW i \in DOMAIN lines
  PROVE  lines[i].key \in Room!Keys(lines) /\ Room!SafeLoad(lines)[lines[i].key] = lines[i].field
<1> DEFINE IsLast(m) == lines[m].key = lines[i].key /\ \A j \in DOMAIN lines : j > m => lines[j].key # lines[i].key
<1>1. lines[i].key \in Room!Keys(lines)
  BY DEF Room!Keys
<1>2. Room!SafeLoad(lines)[lines[i].key] = lines[CHOOSE m \in DOMAIN lines : IsLast(m)].field
  BY <1>1, Zenon DEF Room!SafeLoad
<1>3. \A m \in DOMAIN lines : lines[m].key = lines[i].key => m = i
  BY DEF Room!EntriesUnique
<1>4. i \in 1 .. Len(lines) /\ Len(lines) \in Nat /\ ~(i > i)
  OBVIOUS
<1>5. IsLast(i)
  BY <1>3, <1>4
<1>6. (CHOOSE m \in DOMAIN lines : IsLast(m)) = i
  BY <1>3, <1>5
<1> QED
  BY <1>1, <1>2, <1>6

(***************************************************************************)
(* The numbers of a document that was built agree with its files, whatever *)
(* the entries of facts.yaml and formulas.yaml, as long as none is entered *)
(* twice, in any order, and for any finite syntax trees: the namespace of  *)
(* compute_all has for every entry of facts.yaml the value written there,  *)
(* and every formula has the value it has over the namespace itself.       *)
(***************************************************************************)
THEOREM NumbersOfDocumentsAgree == MCSpec => []NumbersAgree
<1>1. Documented => NumbersAgree
  <2> SUFFICES ASSUME Documented, Room!Built, Room!EntriesUnique(facts), Room!EntriesUnique(formulas)
               PROVE  /\ \A i \in DOMAIN facts :
                           answer.namespace[facts[i].key] = Room!Number(facts[i].field)
                      /\ \A i \in DOMAIN formulas :
                           Room!SameNumber(answer.namespace[formulas[i].key],
                                           Room!EvalNode(formulas[i].field, answer.namespace))
    BY DEF NumbersAgree, Room!NumbersAgree
  <2>1. /\ answer.namespace = Room!ComputeAll(facts, formulas)
        /\ Room!ComputeAll(facts, formulas) # FormulaError
    BY DEF Documented, Room!Built, Room!Build
  <2>2. Expressed(formulas) /\ Len(formulas) \in Nat /\ DOMAIN formulas = 1 .. Len(formulas)
    BY LoadedIsExpressed DEF Documented
  <2>3. PICK a : /\ Room!Keys(facts) \cap Room!Keys(formulas) = {}
                 /\ IsRun(facts, formulas, Len(formulas), a)
                 /\ answer.namespace = a[Len(formulas)] /\ a[Len(formulas)] # FormulaError
    BY <2>1, <2>2, ComputeAllIs
  <2>4. Agreed(facts, formulas, Len(formulas), answer.namespace)
    <3>1. Len(formulas) \in 0 .. Len(formulas)
      BY <2>2
    <3> QED
      BY <2>2, <2>3, <3>1, RunAgrees
  <2>5. ASSUME NEW i \in DOMAIN facts
        PROVE  answer.namespace[facts[i].key] = Room!Number(facts[i].field)
    <3>1. facts[i].key \in Room!Keys(facts) /\ Room!SafeLoad(facts)[facts[i].key] = facts[i].field
      BY LoadedIsEntry DEF Documented
    <3> QED
      BY <2>4, <3>1 DEF Agreed
  <2>6. ASSUME NEW i \in DOMAIN formulas
        PROVE  Room!EvalNode(formulas[i].field, answer.namespace) = answer.namespace[formulas[i].key]
    <3>1. Room!SafeLoad(formulas)[formulas[i].key] = formulas[i].field
      BY LoadedIsEntry DEF Documented
    <3> QED
      BY <2>2, <2>4, <3>1 DEF Agreed
  <2>7. \A x : Room!SameNumber(x, x)
    BY DEF Room!SameNumber
  <2> QED
    BY <2>5, <2>6, <2>7
<1> QED
  BY <1>1, DocumentedInit, DocumentedStep, PTL DEF MCSpec
=============================================================================
