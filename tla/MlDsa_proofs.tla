---------------------------- MODULE MlDsa_proofs -----------------------------
(***************************************************************************)
(* Proofs about ML-DSA signing and its samplers, for every size of the     *)
(* matrix and of a block, any key and message, number of attempts, runs    *)
(* and resets, and latency of a unit.                                      *)
(*                                                                         *)
(* Signing: what the cores are asked and answer (CallsMatch, a part for    *)
(* each core), and what the registers hold in each state as terms of       *)
(* Algorithm 7 (StagesKnown).  The samplers: the hash is called once in a  *)
(* run (ShakeCalls); the shuffle is as far as Algorithm 29 at the same     *)
(* index (BallRuns); the coefficients taken are the candidates that fit    *)
(* (PolyRuns).                                                             *)
(***************************************************************************)
EXTENDS MCMlDsa, FiniteSetTheorems, WellFoundedInduction, SequenceTheorems, TLAPS

-----------------------------------------------------------------------------
(* Signing is an operation.                                                *)

LEMMA WorkInside ==
  ASSUME DeriveSeeds \/ ExpandMatrix \/ Commit \/ Challenge \/ Respond \/ Hint
  PROVE  state # "IDLE" /\ state' # "IDLE" /\ done' = FALSE
<1> USE DEF Starts, Goes, Retry
<1>1. CASE DeriveSeeds
  BY <1>1 DEF DeriveSeeds
<1>2. CASE ExpandMatrix \/ Commit
  BY <1>2 DEF ExpandMatrix, Commit
<1>3. CASE Challenge \/ Respond
  BY <1>3 DEF Challenge, Respond
<1>4. CASE Hint
  BY <1>4 DEF Hint
<1> QED
  BY <1>1, <1>2, <1>3, <1>4

LEMMA OperationStep == [Next]_vars => [Op!Next]_(Op!vars)
<1> SUFFICES ASSUME [Next]_vars PROVE [Op!Next]_(Op!vars)
  OBVIOUS
<1>1. CASE UNCHANGED vars
  BY <1>1 DEF vars, Op!vars
<1>2. CASE Reset
  BY <1>2 DEF Reset, Goes, Op!Next, Op!Reset
<1>3. ASSUME NEW go \in BOOLEAN, Clock(go) PROVE Op!Next
  <2>1. CASE Begin
    BY <2>1 DEF Begin, Goes, Op!Next, Op!Begin
  <2>2. CASE Complete
    BY <2>2 DEF Complete, Op!Next, Op!Finish
  <2>3. CASE Waiting
    BY <2>3 DEF Waiting, Goes, Op!Next, Op!Quiet
  <2>4. CASE DeriveSeeds \/ ExpandMatrix \/ Commit \/ Challenge \/ Respond \/ Hint
    BY <2>4, WorkInside DEF Op!Next, Op!Quiet
  <2> QED
    BY <1>3, <2>1, <2>2, <2>3, <2>4 DEF Clock, Fsm
<1> QED
  BY <1>1, <1>2, <1>3 DEF Next

(***************************************************************************)
(* Signing (pqc_dilithium_sign_top2.sv) is an operation to its user: one   *)
(* start that finds it idle gives one run and one edge of done, however    *)
(* many attempts are rejected in it and whatever the units' latencies.     *)
(***************************************************************************)
THEOREM SigningIsOperation == Spec => ImplementsOperation
<1>1. Init => Op!Init
  BY DEF Init, Op!Init
<1> QED
  BY <1>1, OperationStep, PTL DEF Spec, ImplementsOperation, Op!Spec

-----------------------------------------------------------------------------
(* The terms of Algorithm 7.                                               *)

\* Any set of numbers has a smallest one.
LEMMA Smallest ==
  ASSUME NEW S0 \in SUBSET Nat, S0 # {}
  PROVE  \E n \in S0 : \A m \in S0 : n <= m
<1> DEFINE R == {p \in Nat \X Nat : p[1] < p[2]}
<1>1. IsWellFoundedOn(R, Nat)
  BY NatLessThanWellFounded DEF OpToRel
<1> HIDE DEF R
<1>2. PICK n \in S0 : \A m \in S0 : <<m, n>> \notin R
  BY <1>1, WFMin
<1>3. \A m \in S0 : m \in Nat /\ n \in Nat /\ (m < n => <<m, n>> \in R)
  BY DEF R
<1>4. ASSUME NEW m \in S0 PROVE n <= m
  <2>1. m \in Nat /\ n \in Nat /\ ~(m < n)
    BY <1>2, <1>3, <1>4, Zenon
  <2> QED
    BY <2>1
<1> QED
  BY <1>4

\* A function is the partial sums of f up to n.
IsSum(f, n, sum) ==
  sum = [i \in 0 .. n |-> IF i = 0 THEN f[0] ELSE Plus(sum[i - 1], f[i])]

LEMMA SumExists ==
  ASSUME NEW f
  PROVE  \A n \in Nat : \E sum : IsSum(f, n, sum)
<1> DEFINE S0 == {n \in Nat : ~ \E sum : IsSum(f, n, sum)}
<1> SUFFICES ASSUME S0 # {} PROVE FALSE
  OBVIOUS
<1>1. PICK n \in S0 : \A m \in S0 : n <= m
  <2>1. S0 \in SUBSET Nat
    OBVIOUS
  <2> HIDE DEF S0
  <2> QED
    BY <2>1, Smallest
<1>2. n # 0
  <2>1. IsSum(f, 0, [i \in 0 .. 0 |-> f[0]])
    BY DEF IsSum
  <2> QED
    BY <2>1
<1>3. n - 1 \in Nat /\ n - 1 \notin S0
  BY <1>1, <1>2
<1>4. PICK before : IsSum(f, n - 1, before)
  BY <1>3
<1> DEFINE sum == [i \in 0 .. n |-> IF i = n THEN Plus(before[n - 1], f[n]) ELSE before[i]]
<1>5. \A i \in 0 .. n : sum[i] = IF i = 0 THEN f[0] ELSE Plus(sum[i - 1], f[i])
  <2>1. ASSUME NEW i \in 0 .. n, i # n
        PROVE  sum[i] = IF i = 0 THEN f[0] ELSE Plus(sum[i - 1], f[i])
    <3>1. i \in 0 .. n - 1 /\ sum[i] = before[i]
      BY <1>3, <2>1
    <3>2. i # 0 => i - 1 \in 0 .. n /\ i - 1 # n /\ sum[i - 1] = before[i - 1]
      BY <1>3, <2>1
    <3> QED
      BY <1>4, <3>1, <3>2 DEF IsSum
  <2>2. sum[n] = Plus(sum[n - 1], f[n])
    <3>1. sum[n - 1] = before[n - 1] /\ sum[n] = Plus(before[n - 1], f[n])
      BY <1>3
    <3> QED
      BY <3>1
  <2> QED
    BY <1>2, <2>1, <2>2
<1>6. sum = [i \in 0 .. n |-> sum[i]]
  OBVIOUS
<1>7. IsSum(f, n, sum)
  <2> HIDE DEF sum
  <2> QED
    BY <1>5, <1>6 DEF IsSum
<1> QED
  BY <1>7

\* Two partial sums agree where both are defined.
LEMMA SumUnique ==
  ASSUME NEW f, NEW m \in Nat, NEW n \in Nat, m <= n,
         NEW low, IsSum(f, m, low), NEW high, IsSum(f, n, high)
  PROVE  low[m] = high[m]
<1> DEFINE S0 == {i \in 0 .. m : low[i] # high[i]}
<1> SUFFICES ASSUME S0 # {} PROVE FALSE
  OBVIOUS
<1>1. PICK i \in S0 : \A j \in S0 : i <= j
  <2>1. S0 \in SUBSET Nat
    OBVIOUS
  <2> HIDE DEF S0
  <2> QED
    BY <2>1, Smallest
<1>2. i \in 0 .. m /\ i \in 0 .. n /\ low[i] # high[i]
  OBVIOUS
<1>3. i # 0
  BY <1>2 DEF IsSum
<1>4. i - 1 \in 0 .. m /\ i - 1 \notin S0
  BY <1>1, <1>3
<1>5. low[i - 1] = high[i - 1]
  BY <1>4
<1>6. /\ low[i] = Plus(low[i - 1], f[i])
      /\ high[i] = Plus(high[i - 1], f[i])
  BY <1>2, <1>3 DEF IsSum
<1> QED
  BY <1>2, <1>5, <1>6

LEMMA SumIs ==
  ASSUME NEW f, NEW n \in Nat
  PROVE  \E sum : IsSum(f, n, sum) /\ SumTo(f, n) = sum[n]
<1> DEFINE sum == CHOOSE g : IsSum(f, n, g)
<1>1. IsSum(f, n, sum)
  BY SumExists
<1>2. SumTo(f, n) = sum[n]
  BY DEF SumTo, IsSum
<1> QED
  BY <1>1, <1>2

\* The sum, one summand after the other.
LEMMA SumFirst ==
  ASSUME NEW f
  PROVE  SumTo(f, 0) = f[0]
<1>1. PICK sum : IsSum(f, 0, sum) /\ SumTo(f, 0) = sum[0]
  BY SumIs
<1> QED
  BY <1>1 DEF IsSum

LEMMA SumNext ==
  ASSUME NEW f, NEW n \in Nat, n # 0
  PROVE  SumTo(f, n) = Plus(SumTo(f, n - 1), f[n])
<1>1. PICK high : IsSum(f, n, high) /\ SumTo(f, n) = high[n]
  BY SumIs
<1>2. n - 1 \in Nat /\ n - 1 <= n
  OBVIOUS
<1>3. PICK low : IsSum(f, n - 1, low) /\ SumTo(f, n - 1) = low[n - 1]
  BY <1>2, SumIs
<1>4. low[n - 1] = high[n - 1]
  BY <1>1, <1>2, <1>3, SumUnique
<1>5. high[n] = Plus(high[n - 1], f[n])
  BY <1>1 DEF IsSum
<1> QED
  BY <1>1, <1>3, <1>4, <1>5

\* What belongs to an attempt belongs to no other.
IsAttempt(x, n) == x \in Inputs /\ n \in 1 .. Len(Fate[x])

LEMMA AttemptsAre ==
  /\ \A x, n : IsAttempt(x, n) => <<x, n>> \in Attempts /\ n \in Nat /\ n >= 1
  /\ \A a \in Attempts : \E x, n : IsAttempt(x, n) /\ a = <<x, n>>
<1>1. ASSUME NEW x, NEW n, IsAttempt(x, n) PROVE <<x, n>> \in Attempts /\ n \in Nat /\ n >= 1
  <2>1. Len(Fate[x]) \in Nat
    BY <1>1, FateAssumption DEF IsAttempt
  <2> QED
    BY <1>1, <2>1 DEF Attempts, IsAttempt
<1>2. ASSUME NEW a \in Attempts PROVE \E x, n : IsAttempt(x, n) /\ a = <<x, n>>
  BY DEF Attempts, IsAttempt
<1> QED
  BY <1>1, <1>2

LEMMA SizesAre ==
  /\ 0 \in Rows /\ 0 \in Columns /\ L - 1 \in Columns /\ 0 \in Indices
  /\ \A i \in Rows : i \in Nat /\ i < K /\ (i # K - 1 => i + 1 \in Rows /\ i < K - 1)
  /\ \A j \in Columns : j \in Nat /\ j < L /\ (j # L - 1 => j + 1 \in Columns /\ j < L - 1)
  /\ \A c \in Indices : c \in Nat /\ c < Coeffs /\ (c # Coeffs - 1 => c + 1 \in Indices /\ c < Coeffs - 1)
  /\ K \in Nat /\ L \in Nat /\ Coeffs \in Nat /\ K > 0 /\ L > 0 /\ Coeffs > 0
  BY SizeAssumption DEF Rows, Columns, Indices

LEMMA NoneBelow ==
  /\ \A i \in Rows : ~(i < 0)
  /\ \A j \in Columns : ~(j < 0)
  /\ \A c \in Indices : ~(c < 0)
  BY SizeAssumption DEF Rows, Columns, Indices

LEMMA CountersDiffer ==
  ASSUME NEW n \in Nat, NEW m \in Nat, Counter(n) = Counter(m)
  PROVE  n = m
<1>1. L \in Nat /\ L > 0 /\ (n - 1) * L = (m - 1) * L
  BY SizeAssumption DEF Counter
<1>2. ((n - 1) - (m - 1)) * L = 0
  BY <1>1
<1> QED
  BY <1>1, <1>2

\* The products that Commitment sums up for a row.
Summands(x, kappa, i) ==
  [j \in Columns |-> Multiply(RejNTTPoly(Port("rho", x), i, j), NTT(Zq(Mask(x, kappa)[j])))]

LEMMA CommitmentIs ==
  ASSUME NEW x, NEW kappa, NEW i \in Rows
  PROVE  Commitment(x, kappa)[i] = InverseNTT(SumTo(Summands(x, kappa, i), L - 1))
  BY DEF Commitment, Summands

LEMMA CommitmentsDiffer ==
  ASSUME NEW x, NEW n \in Nat, NEW m \in Nat,
         Commitment(x, Counter(n))[0] = Commitment(x, Counter(m))[0]
  PROVE  n = m
<1> DEFINE f == Summands(x, Counter(n), 0)
           g == Summands(x, Counter(m), 0)
<1>1. SumTo(f, L - 1) = SumTo(g, L - 1)
  BY CommitmentIs, SizesAre DEF InverseNTT
<1> HIDE DEF f, g
<1>2. f[L - 1] = g[L - 1]
  <2>1. CASE L = 1
    BY <1>1, <2>1, SumFirst
  <2>2. CASE L # 1
    <3>1. L - 1 \in Nat /\ L - 1 # 0
      BY <2>2, SizesAre
    <3>2. /\ SumTo(f, L - 1) = Plus(SumTo(f, (L - 1) - 1), f[L - 1])
          /\ SumTo(g, L - 1) = Plus(SumTo(g, (L - 1) - 1), g[L - 1])
      BY <3>1, SumNext
    <3> QED
      BY <1>1, <3>2 DEF Plus
  <2> QED
    BY <2>1, <2>2
<1>3. Mask(x, Counter(n))[L - 1] = Mask(x, Counter(m))[L - 1]
  <2>1. NTT(Zq(Mask(x, Counter(n))[L - 1])) = NTT(Zq(Mask(x, Counter(m))[L - 1]))
    BY <1>2, SizesAre DEF f, g, Summands, Multiply
  <2> QED
    BY <2>1 DEF NTT, Zq
<1>4. Counter(n) + (L - 1) = Counter(m) + (L - 1)
  BY <1>3, SizesAre DEF Mask, ExpandMask
<1>5. Counter(n) \in Int /\ Counter(m) \in Int /\ L \in Int
  BY SizesAre DEF Counter
<1>6. Counter(n) = Counter(m)
  BY <1>4, <1>5
<1> QED
  BY <1>6, CountersDiffer

HashInput(x, kappa) == <<MuOf(x), [i \in Rows |-> HighBits(Commitment(x, kappa)[i])]>>

LEMMA HashInputsDiffer ==
  ASSUME NEW x, NEW y, NEW n \in Nat, NEW m \in Nat,
         HashInput(x, Counter(n)) = HashInput(y, Counter(m))
  PROVE  x = y /\ n = m
<1>1. MuOf(x) = MuOf(y)
  BY DEF HashInput
<1>2. x = y
  BY <1>1 DEF MuOf, Mu, Port
<1>3. HighBits(Commitment(x, Counter(n))[0]) = HighBits(Commitment(x, Counter(m))[0])
  BY <1>2, SizesAre DEF HashInput
<1>4. Commitment(x, Counter(n))[0] = Commitment(x, Counter(m))[0]
  BY <1>3 DEF HighBits
<1> QED
  BY <1>2, <1>4, CommitmentsDiffer

\* The hash tells the attempts apart.
LEMMA HashOfAttempt ==
  ASSUME NEW x, NEW n, IsAttempt(x, n),
         NEW w1, w1 = [i \in Rows |-> HighBits(Commitment(x, Counter(n))[i])]
  PROVE  ChallengeHash(MuOf(x), w1) = <<"c~", <<x, n>>>>
<1>1. <<x, n>> \in Attempts
  BY AttemptsAre
<1>2. \A a \in Attempts : Hashed[a] = HashInput(a[1], Counter(a[2]))
  BY DEF Hashed, HashInput
<1>3. <<MuOf(x), w1>> = HashInput(x, Counter(n))
  BY DEF HashInput
<1>4. ASSUME NEW a \in Attempts, Hashed[a] = <<MuOf(x), w1>> PROVE a = <<x, n>>
  <2>1. PICK y, m : IsAttempt(y, m) /\ a = <<y, m>>
    BY AttemptsAre
  <2>2. HashInput(y, Counter(m)) = HashInput(x, Counter(n))
    BY <1>2, <1>3, <1>4, <2>1
  <2>3. m \in Nat /\ n \in Nat
    BY <2>1, AttemptsAre
  <2> QED
    BY <2>1, <2>2, <2>3, HashInputsDiffer
<1>5. Hashed[<<x, n>>] = <<MuOf(x), w1>>
  BY <1>1, <1>2, <1>3
<1>6. (CHOOSE a \in Attempts : Hashed[a] = <<MuOf(x), w1>>) = <<x, n>>
  BY <1>1, <1>4, <1>5
<1> QED
  BY <1>1, <1>5, <1>6 DEF ChallengeHash

\* The verdicts.
LEMMA MadeIs ==
  ASSUME NEW x, NEW n, IsAttempt(x, n)
  PROVE  Made[<<x, n>>] = Attempt(x, n)
  BY AttemptsAre DEF Made

LEMMA ScaledDiffer ==
  ASSUME NEW f, NEW g, NEW c, NEW d, Scaled(f, c) = Scaled(g, d)
  PROVE  c = d
<1>1. NTT(Zq(c)) = NTT(Zq(d))
  BY DEF Scaled, InverseNTT, Multiply
<1> QED
  BY <1>1 DEF NTT, Zq

LEMMA VerdictOnZ ==
  ASSUME NEW x, NEW n, IsAttempt(x, n)
  PROVE  RejectsZ(Attempt(x, n).z) <=> Fate[x][n] = "z"
<1>1. ASSUME NEW a \in Attempts, Made[a].z = Attempt(x, n).z PROVE a = <<x, n>>
  <2>1. PICK y, m : IsAttempt(y, m) /\ a = <<y, m>>
    BY AttemptsAre
  <2>2. Attempt(y, m).z = Attempt(x, n).z
    BY <1>1, <2>1, MadeIs
  <2>3. \A t, o : Attempt(t, o).z[0] = Plus(Mask(t, Counter(o))[0],
                     Scaled(Poly("s1", t, 0), SampleInBall(<<"c~", <<t, o>>>>)))
    BY SizesAre DEF Attempt
  <2>4. Scaled(Poly("s1", y, 0), SampleInBall(<<"c~", <<y, m>>>>))
          = Scaled(Poly("s1", x, 0), SampleInBall(<<"c~", <<x, n>>>>))
    BY <2>2, <2>3 DEF Plus
  <2>5. SampleInBall(<<"c~", <<y, m>>>>) = SampleInBall(<<"c~", <<x, n>>>>)
    BY <2>4, ScaledDiffer
  <2> QED
    BY <2>1, <2>5 DEF SampleInBall
<1>2. <<x, n>> \in Attempts /\ Made[<<x, n>>].z = Attempt(x, n).z
  BY AttemptsAre, MadeIs
<1> QED
  BY <1>1, <1>2 DEF RejectsZ

LEMMA VerdictOnH ==
  ASSUME NEW x, NEW n, IsAttempt(x, n)
  PROVE  RejectsH(Attempt(x, n).h) <=> Fate[x][n] = "h"
<1>1. ASSUME NEW a \in Attempts, Made[a].h = Attempt(x, n).h PROVE a = <<x, n>>
  <2>1. PICK y, m : IsAttempt(y, m) /\ a = <<y, m>>
    BY AttemptsAre
  <2>2. Attempt(y, m).h = Attempt(x, n).h
    BY <1>1, <2>1, MadeIs
  <2>3. \A t, o : Attempt(t, o).h[0]
                    = MakeHint(Commitment(t, Counter(o))[0],
                               Scaled(Poly("s2", t, 0), SampleInBall(<<"c~", <<t, o>>>>)),
                               Scaled(Poly("t0", t, 0), SampleInBall(<<"c~", <<t, o>>>>)))
    BY SizesAre DEF Attempt
  <2>4. Scaled(Poly("s2", y, 0), SampleInBall(<<"c~", <<y, m>>>>))
          = Scaled(Poly("s2", x, 0), SampleInBall(<<"c~", <<x, n>>>>))
    BY <2>2, <2>3 DEF MakeHint
  <2>5. SampleInBall(<<"c~", <<y, m>>>>) = SampleInBall(<<"c~", <<x, n>>>>)
    BY <2>4, ScaledDiffer
  <2> QED
    BY <2>1, <2>5 DEF SampleInBall
<1>2. <<x, n>> \in Attempts /\ Made[<<x, n>>].h = Attempt(x, n).h
  BY AttemptsAre, MadeIs
<1> QED
  BY <1>1, <1>2 DEF RejectsH

\* The first attempt that passes, and those before it.
LEMMA PassingIs ==
  ASSUME NEW x \in Inputs
  PROVE  /\ IsAttempt(x, Passing(x)) /\ Fate[x][Passing(x)] = "ok"
         /\ \A o \in 1 .. Passing(x) : IsAttempt(x, o) /\ Fate[x][o] \in {"z", "h", "ok"}
         /\ \A o \in 1 .. Passing(x) : Fate[x][o] = "ok" => o = Passing(x)
<1>0. Len(Fate[x]) \in Nat /\ Fate[x] \in Seq({"z", "h", "ok"})
  BY FateAssumption
<1>1. \E n \in 1 .. Len(Fate[x]) : Fate[x][n] = "ok" /\ \A o \in 1 .. n - 1 : Fate[x][o] # "ok"
  BY FateAssumption
<1>2. /\ Passing(x) \in 1 .. Len(Fate[x]) /\ Fate[x][Passing(x)] = "ok"
      /\ \A o \in 1 .. Passing(x) - 1 : Fate[x][o] # "ok"
  BY <1>1 DEF Passing
<1>3. ASSUME NEW o \in 1 .. Passing(x)
      PROVE  /\ IsAttempt(x, o) /\ Fate[x][o] \in {"z", "h", "ok"}
             /\ Fate[x][o] = "ok" => o = Passing(x)
  <2>1. o \in 1 .. Len(Fate[x]) /\ (o # Passing(x) => o \in 1 .. Passing(x) - 1)
    BY <1>0, <1>2
  <2> QED
    BY <1>0, <1>2, <2>1 DEF IsAttempt
<1> QED
  BY <1>2, <1>3 DEF IsAttempt

-----------------------------------------------------------------------------
(* The units the cores call, hashes, samplers and transforms alike.        *)

IsUnit(u) == DOMAIN u = {"fsm", "out", "done"}
UnitRests(u) == u.fsm = "IDLE" /\ ~u.done
UnitCalled(u, called, r) ==
  \/ called /\ u.fsm = "IDLE" /\ ~u.done
  \/ ~called /\ u.fsm = "ABSORB" /\ ~u.done
  \/ ~called /\ u.fsm = "SQUEEZE" /\ ~u.done /\ u.out = r
  \/ ~called /\ u.fsm = "IDLE" /\ u.done /\ u.out = r

LEMMA UnitIdles == IsUnit(IdleUnit) /\ UnitRests(IdleUnit)
  BY DEF IsUnit, UnitRests, IdleUnit

LEMMA UnitStops ==
  ASSUME NEW u, IsUnit(u)
  PROVE  IsUnit(UnitReset(u)) /\ UnitRests(UnitReset(u))
  BY DEF IsUnit, UnitRests, UnitReset

-----------------------------------------------------------------------------
(* pqc_dilithium_expand_a.sv.                                              *)

AShape ==
  /\ DOMAIN A = {"state", "done", "call", "i", "j", "at", "A_mem"}
  /\ DOMAIN A.A_mem = Rows /\ \A r \in Rows : DOMAIN A.A_mem[r] = Columns
  /\ IsUnit(A_poly)

AEdge(go) ==
  ExpandA /\ A_poly' = UnitAfter(A_poly, A.call = "poly",
                                 RejNTTPoly(Port("rho", in), A.at[1], A.at[2]), go)

MatrixAt(r, c) == RejNTTPoly(Port("rho", in), r, c)
IsMatrix(mem) == \A r \in Rows, c \in Columns : mem[r][c] = MatrixAt(r, c)

ARests ==
  A.state = "IDLE" /\ ~A.done /\ A.call = "none" /\ UnitRests(A_poly)
ARuns ==
  /\ A.state \in {"START_POLY", "WAIT_POLY", "STORE", "NEXT", "DONE"} /\ ~A.done
  /\ A.i \in Rows /\ A.j \in Columns
  /\ IF A.state = "WAIT_POLY"
     THEN A.at = <<A.i, A.j>> /\ UnitCalled(A_poly, A.call = "poly", MatrixAt(A.i, A.j))
     ELSE A.call = "none" /\ UnitRests(A_poly)
  /\ A.state = "STORE" => A_poly.out = MatrixAt(A.i, A.j)
  /\ \A r \in Rows, c \in Columns :
       \/ A.state = "DONE" \/ r < A.i \/ (r = A.i /\ c < A.j)
       \/ A.state = "NEXT" /\ r = A.i /\ c = A.j
       => A.A_mem[r][c] = MatrixAt(r, c)
AAnswers ==
  /\ A.state = "IDLE" /\ A.done /\ A.call = "none" /\ UnitRests(A_poly)
  /\ IsMatrix(A.A_mem)

LEMMA AIdle ==
  ASSUME AShape, ARests \/ AAnswers, NEW go \in BOOLEAN, AEdge(go)
  PROVE  /\ AShape'
         /\ call # "A" => ARests'
         /\ call = "A" => ARuns'
<1>1. A.state = "IDLE" /\ A.call = "none" /\ UnitRests(A_poly)
  BY DEF ARests, AAnswers
<1>2. IsUnit(A_poly') /\ UnitRests(A_poly')
  BY <1>1 DEF AEdge, AShape, UnitAfter, IsUnit, UnitRests
<1>3. \/ call # "A" /\ A' = Low(A)
      \/ call = "A" /\ A' = [Low(A) EXCEPT !.i = 0, !.j = 0, !.state = "START_POLY"]
  BY <1>1 DEF AEdge, ExpandA, CoreIdles, CoreWaits, UnitDone, CoreComplete
<1>4. CASE call # "A"
  BY <1>1, <1>2, <1>3, <1>4 DEF Low, AShape, ARests
<1>5. CASE call = "A"
  <2>1. /\ A'.state = "START_POLY" /\ ~A'.done /\ A'.call = "none" /\ A'.i = 0 /\ A'.j = 0
        /\ A'.A_mem = A.A_mem /\ DOMAIN A' = DOMAIN A
    BY <1>3, <1>5 DEF Low, AShape
  <2>2. \A r \in Rows : ~(r < 0)
    BY SizesAre
  <2>3. \A c \in Columns : ~(c < 0)
    BY SizesAre
  <2> QED
    BY <1>2, <1>5, <2>1, <2>2, <2>3, SizesAre DEF AShape, ARuns
<1> QED
  BY <1>4, <1>5

LEMMA ARun ==
  ASSUME AShape, ARuns, in' = in, NEW go \in BOOLEAN, AEdge(go)
  PROVE  AShape' /\ (ARuns' \/ AAnswers')
<1>0. MatrixAt(A.i, A.j)' = MatrixAt(A'.i, A'.j) /\ \A r, c : MatrixAt(r, c)' = MatrixAt(r, c)
  BY DEF MatrixAt
<1>1. CASE A.state = "START_POLY"
  <2>1. A' = [Low(A) EXCEPT !.at = <<A.i, A.j>>, !.call = "poly", !.state = "WAIT_POLY"]
    BY <1>1 DEF AEdge, ExpandA, CoreIdles, CoreWaits, UnitDone, CoreComplete
  <2>2. /\ A'.state = "WAIT_POLY" /\ ~A'.done /\ A'.call = "poly" /\ A'.at = <<A.i, A.j>>
        /\ A'.i = A.i /\ A'.j = A.j /\ A'.A_mem = A.A_mem /\ DOMAIN A' = DOMAIN A
    BY <2>1 DEF Low, AShape
  <2>3. IsUnit(A_poly') /\ UnitRests(A_poly')
    BY <1>1 DEF AEdge, AShape, ARuns, UnitAfter, IsUnit, UnitRests
  <2>4. AShape'
    BY <2>2, <2>3 DEF AShape
  <2> QED
    BY <1>0, <1>1, <2>2, <2>3, <2>4 DEF ARuns, UnitCalled, UnitRests
<1>2. CASE A.state = "WAIT_POLY"
  <2>1. A' = IF A_poly.done THEN [Low(A) EXCEPT !.state = "STORE"] ELSE Low(A)
    BY <1>2 DEF AEdge, ExpandA, CoreIdles, CoreWaits, UnitDone, CoreComplete
  <2>2. /\ A'.state = IF A_poly.done THEN "STORE" ELSE "WAIT_POLY"
        /\ ~A'.done /\ A'.call = "none" /\ A'.at = A.at
        /\ A'.i = A.i /\ A'.j = A.j /\ A'.A_mem = A.A_mem /\ DOMAIN A' = DOMAIN A
    BY <1>2, <2>1 DEF Low, AShape
  <2>3. A.at[1] = A.i /\ A.at[2] = A.j
    BY <1>2 DEF ARuns
  <2>4. UnitCalled(A_poly, A.call = "poly", MatrixAt(A.i, A.j))
    BY <1>2 DEF ARuns
  <2>5. A_poly' = UnitAfter(A_poly, A.call = "poly", MatrixAt(A.i, A.j), go)
    BY <2>3 DEF AEdge, MatrixAt
  <2>6. /\ IsUnit(A_poly')
        /\ A_poly.done => UnitRests(A_poly') /\ A_poly'.out = MatrixAt(A.i, A.j)
        /\ ~A_poly.done => UnitCalled(A_poly', FALSE, MatrixAt(A.i, A.j))
    BY <2>4, <2>5 DEF AShape, UnitAfter, IsUnit, UnitRests, UnitCalled
  <2>7. AShape'
    BY <2>2, <2>6 DEF AShape
  <2> QED
    BY <1>0, <1>2, <2>2, <2>6, <2>7 DEF ARuns
<1>3. CASE A.state = "STORE"
  <2>1. A' = [Low(A) EXCEPT !.A_mem[A.i][A.j] = A_poly.out, !.state = "NEXT"]
    BY <1>3 DEF AEdge, ExpandA, CoreIdles, CoreWaits, UnitDone, CoreComplete
  <2>2. /\ A'.state = "NEXT" /\ ~A'.done /\ A'.call = "none"
        /\ A'.i = A.i /\ A'.j = A.j /\ DOMAIN A' = DOMAIN A
        /\ A'.A_mem = [A.A_mem EXCEPT ![A.i][A.j] = A_poly.out]
    BY <2>1 DEF Low, AShape
  <2>3. IsUnit(A_poly') /\ UnitRests(A_poly')
    BY <1>3 DEF AEdge, AShape, ARuns, UnitAfter, IsUnit, UnitRests
  <2>4. /\ DOMAIN A'.A_mem = Rows /\ \A r \in Rows : DOMAIN A'.A_mem[r] = Columns
        /\ \A r \in Rows, c \in Columns :
             A'.A_mem[r][c] = IF r = A.i /\ c = A.j THEN MatrixAt(A.i, A.j) ELSE A.A_mem[r][c]
    BY <1>3, <2>2 DEF AShape, ARuns
  <2>5. AShape'
    BY <2>2, <2>3, <2>4 DEF AShape
  <2> QED
    BY <1>0, <1>3, <2>2, <2>3, <2>4, <2>5 DEF ARuns
<1>4. CASE A.state = "NEXT"
  <2>1. A' = IF A.j < L - 1 THEN [Low(A) EXCEPT !.j = @ + 1, !.state = "START_POLY"]
             ELSE IF A.i < K - 1
             THEN [Low(A) EXCEPT !.i = @ + 1, !.j = 0, !.state = "START_POLY"]
             ELSE [Low(A) EXCEPT !.j = 0, !.state = "DONE"]
    BY <1>4 DEF AEdge, ExpandA, CoreIdles, CoreWaits, UnitDone, CoreComplete
  <2>2. /\ ~A'.done /\ A'.call = "none" /\ A'.A_mem = A.A_mem /\ DOMAIN A' = DOMAIN A
        /\ IF A.j < L - 1 THEN A'.state = "START_POLY" /\ A'.i = A.i /\ A'.j = A.j + 1
           ELSE IF A.i < K - 1 THEN A'.state = "START_POLY" /\ A'.i = A.i + 1 /\ A'.j = 0
           ELSE A'.state = "DONE" /\ A'.i = A.i /\ A'.j = 0
    BY <2>1 DEF Low, AShape
  <2>3. IsUnit(A_poly') /\ UnitRests(A_poly')
    BY <1>4 DEF AEdge, AShape, ARuns, UnitAfter, IsUnit, UnitRests
  <2>4. AShape'
    BY <2>2, <2>3 DEF AShape
  <2>5. A'.i \in Rows /\ A'.j \in Columns
    BY <2>2, SizesAre DEF ARuns
  <2>6. ASSUME NEW r \in Rows, NEW c \in Columns,
               A'.state = "DONE" \/ r < A'.i \/ (r = A'.i /\ c < A'.j)
        PROVE  A.A_mem[r][c] = MatrixAt(r, c)
    <3>0. /\ A.i \in Nat /\ A.j \in Nat /\ r \in Nat /\ c \in Nat
          /\ A.j < L /\ A.i < K /\ c < L /\ r < K /\ K \in Nat /\ L \in Nat
      BY SizesAre DEF ARuns
    <3>1. r < A.i \/ (r = A.i /\ c < A.j) \/ (r = A.i /\ c = A.j)
      <4>1. CASE A.j < L - 1
        BY <2>2, <2>6, <3>0, <4>1
      <4>2. CASE A.j >= L - 1 /\ A.i < K - 1
        BY <2>2, <2>6, <3>0, <4>2
      <4>3. CASE A.j >= L - 1 /\ A.i >= K - 1
        BY <2>2, <2>6, <3>0, <4>3
      <4> QED
        BY <3>0, <4>1, <4>2, <4>3
    <3> QED
      BY <1>4, <3>1 DEF ARuns
  <2> QED
    BY <1>0, <1>4, <2>2, <2>3, <2>4, <2>5, <2>6 DEF ARuns
<1>5. CASE A.state = "DONE"
  <2>1. A' = [Low(A) EXCEPT !.state = "IDLE", !.done = TRUE]
    BY <1>5 DEF AEdge, ExpandA, CoreIdles, CoreWaits, UnitDone, CoreComplete
  <2>2. /\ A'.state = "IDLE" /\ A'.done /\ A'.call = "none" /\ A'.A_mem = A.A_mem
        /\ DOMAIN A' = DOMAIN A
    BY <2>1 DEF Low, AShape
  <2>3. IsUnit(A_poly') /\ UnitRests(A_poly')
    BY <1>5 DEF AEdge, AShape, ARuns, UnitAfter, IsUnit, UnitRests
  <2> QED
    BY <1>0, <1>5, <2>2, <2>3 DEF ARuns, AAnswers, AShape, IsMatrix
<1> QED
  BY <1>1, <1>2, <1>3, <1>4, <1>5 DEF ARuns

LEMMA AStops ==
  ASSUME AShape, CoreReset(A), A_poly' = UnitReset(A_poly)
  PROVE  AShape' /\ ARests'
<1>1. /\ A'.state = "IDLE" /\ ~A'.done /\ A'.call = "none" /\ A'.A_mem = A.A_mem
      /\ DOMAIN A' = DOMAIN A
  BY DEF CoreReset, Low, AShape
<1> QED
  BY <1>1, UnitStops DEF AShape, ARests

LEMMA AStarts ==
  ASSUME SamplingInit
  PROVE  AShape /\ ARests
  BY UnitIdles DEF AShape, ARests, SamplingInit

-----------------------------------------------------------------------------
(* pqc_dilithium_expand_mask_vector.sv.                                    *)

EmShape ==
  /\ DOMAIN em = {"state", "done", "call", "i", "kappa_plus_i", "y_mem"}
  /\ DOMAIN em.y_mem = Columns
  /\ IsUnit(em_poly)

EmEdge(go) ==
  ExpandMaskVector /\ em_poly' = UnitAfter(em_poly, em.call = "poly",
                                           ExpandMask(reg.rho_prime, em.kappa_plus_i), go)

MaskAt(c) == ExpandMask(reg.rho_prime, reg.kappa + c)

EmRests ==
  em.state = "IDLE" /\ ~em.done /\ em.call = "none" /\ UnitRests(em_poly)
EmRuns ==
  /\ em.state \in {"START_POLY", "WAIT_POLY", "STORE", "DONE"} /\ ~em.done
  /\ em.i \in Columns
  /\ IF em.state = "WAIT_POLY"
     THEN em.kappa_plus_i = reg.kappa + em.i /\ UnitCalled(em_poly, em.call = "poly", MaskAt(em.i))
     ELSE em.call = "none" /\ UnitRests(em_poly)
  /\ em.state = "STORE" => em_poly.out = MaskAt(em.i)
  /\ \A c \in Columns : em.state = "DONE" \/ c < em.i => em.y_mem[c] = MaskAt(c)
EmAnswers ==
  /\ em.state = "IDLE" /\ em.done /\ em.call = "none" /\ UnitRests(em_poly)
  /\ \A c \in Columns : em.y_mem[c] = MaskAt(c)

LEMMA EmIdle ==
  ASSUME EmShape, EmRests \/ EmAnswers, NEW go \in BOOLEAN, EmEdge(go)
  PROVE  /\ EmShape'
         /\ call # "em" => EmRests'
         /\ call = "em" => EmRuns'
<1>1. em.state = "IDLE" /\ em.call = "none" /\ UnitRests(em_poly)
  BY DEF EmRests, EmAnswers
<1>2. IsUnit(em_poly') /\ UnitRests(em_poly')
  BY <1>1 DEF EmEdge, EmShape, UnitAfter, IsUnit, UnitRests
<1>3. \/ call # "em" /\ em' = Low(em)
      \/ call = "em" /\ em' = [Low(em) EXCEPT !.i = 0, !.state = "START_POLY"]
  BY <1>1 DEF EmEdge, ExpandMaskVector, CoreIdles, CoreWaits, UnitDone, CoreComplete
<1>4. CASE call # "em"
  BY <1>1, <1>2, <1>3, <1>4 DEF Low, EmShape, EmRests
<1>5. CASE call = "em"
  <2>1. /\ em'.state = "START_POLY" /\ ~em'.done /\ em'.call = "none" /\ em'.i = 0
        /\ em'.y_mem = em.y_mem /\ DOMAIN em' = DOMAIN em
    BY <1>3, <1>5 DEF Low, EmShape
  <2>2. \A c \in Columns : ~(c < 0)
    BY SizesAre
  <2> QED
    BY <1>2, <1>5, <2>1, <2>2, SizesAre DEF EmShape, EmRuns
<1> QED
  BY <1>4, <1>5

LEMMA EmRun ==
  ASSUME EmShape, EmRuns, reg' = reg, NEW go \in BOOLEAN, EmEdge(go)
  PROVE  EmShape' /\ (EmRuns' \/ EmAnswers')
<1>0. MaskAt(em.i)' = MaskAt(em'.i) /\ \A c : MaskAt(c)' = MaskAt(c)
  BY DEF MaskAt
<1>1. CASE em.state = "START_POLY"
  <2>1. em' = [Low(em) EXCEPT !.kappa_plus_i = reg.kappa + em.i, !.call = "poly",
                              !.state = "WAIT_POLY"]
    BY <1>1 DEF EmEdge, ExpandMaskVector, CoreIdles, CoreWaits, UnitDone, CoreComplete
  <2>2. /\ em'.state = "WAIT_POLY" /\ ~em'.done /\ em'.call = "poly"
        /\ em'.kappa_plus_i = reg.kappa + em.i
        /\ em'.i = em.i /\ em'.y_mem = em.y_mem /\ DOMAIN em' = DOMAIN em
    BY <2>1 DEF Low, EmShape
  <2>3. IsUnit(em_poly') /\ UnitRests(em_poly')
    BY <1>1 DEF EmEdge, EmShape, EmRuns, UnitAfter, IsUnit, UnitRests
  <2>4. EmShape'
    BY <2>2, <2>3 DEF EmShape
  <2> QED
    BY <1>0, <1>1, <2>2, <2>3, <2>4 DEF EmRuns, UnitCalled, UnitRests
<1>2. CASE em.state = "WAIT_POLY"
  <2>1. em' = IF em_poly.done THEN [Low(em) EXCEPT !.state = "STORE"] ELSE Low(em)
    BY <1>2 DEF EmEdge, ExpandMaskVector, CoreIdles, CoreWaits, UnitDone, CoreComplete
  <2>2. /\ em'.state = IF em_poly.done THEN "STORE" ELSE "WAIT_POLY"
        /\ ~em'.done /\ em'.call = "none" /\ em'.kappa_plus_i = em.kappa_plus_i
        /\ em'.i = em.i /\ em'.y_mem = em.y_mem /\ DOMAIN em' = DOMAIN em
    BY <1>2, <2>1 DEF Low, EmShape
  <2>3. UnitCalled(em_poly, em.call = "poly", MaskAt(em.i))
    BY <1>2 DEF EmRuns
  <2>4. em_poly' = UnitAfter(em_poly, em.call = "poly", MaskAt(em.i), go)
    BY <1>2 DEF EmEdge, EmRuns, MaskAt
  <2>5. /\ IsUnit(em_poly')
        /\ em_poly.done => UnitRests(em_poly') /\ em_poly'.out = MaskAt(em.i)
        /\ ~em_poly.done => UnitCalled(em_poly', FALSE, MaskAt(em.i))
    BY <2>3, <2>4 DEF EmShape, UnitAfter, IsUnit, UnitRests, UnitCalled
  <2>6. EmShape'
    BY <2>2, <2>5 DEF EmShape
  <2> QED
    BY <1>0, <1>2, <2>2, <2>5, <2>6 DEF EmRuns
<1>3. CASE em.state = "STORE"
  <2>1. em' = LET stored == [Low(em) EXCEPT !.y_mem[em.i] = em_poly.out]
              IN  IF em.i = L - 1 THEN [stored EXCEPT !.state = "DONE"]
                  ELSE [stored EXCEPT !.i = @ + 1, !.state = "START_POLY"]
    BY <1>3 DEF EmEdge, ExpandMaskVector, CoreIdles, CoreWaits, UnitDone, CoreComplete
  <2>2. /\ ~em'.done /\ em'.call = "none" /\ DOMAIN em' = DOMAIN em
        /\ em'.y_mem = [em.y_mem EXCEPT ![em.i] = em_poly.out]
        /\ IF em.i = L - 1 THEN em'.state = "DONE" /\ em'.i = em.i
           ELSE em'.state = "START_POLY" /\ em'.i = em.i + 1
    BY <2>1 DEF Low, EmShape
  <2>3. IsUnit(em_poly') /\ UnitRests(em_poly')
    BY <1>3 DEF EmEdge, EmShape, EmRuns, UnitAfter, IsUnit, UnitRests
  <2>4. /\ DOMAIN em'.y_mem = Columns
        /\ \A c \in Columns : em'.y_mem[c] = IF c = em.i THEN MaskAt(em.i) ELSE em.y_mem[c]
    BY <1>3, <2>2 DEF EmShape, EmRuns
  <2>5. EmShape' /\ em'.i \in Columns
    BY <2>2, <2>3, <2>4, SizesAre DEF EmShape, EmRuns
  <2>6. ASSUME NEW c \in Columns, em'.state = "DONE" \/ c < em'.i
        PROVE  c < em.i \/ c = em.i
    BY <2>2, <2>6, SizesAre DEF EmRuns
  <2> QED
    BY <1>0, <1>3, <2>2, <2>3, <2>4, <2>5, <2>6 DEF EmRuns
<1>4. CASE em.state = "DONE"
  <2>1. em' = [Low(em) EXCEPT !.state = "IDLE", !.done = TRUE]
    BY <1>4 DEF EmEdge, ExpandMaskVector, CoreIdles, CoreWaits, UnitDone, CoreComplete
  <2>2. /\ em'.state = "IDLE" /\ em'.done /\ em'.call = "none" /\ em'.y_mem = em.y_mem
        /\ DOMAIN em' = DOMAIN em
    BY <2>1 DEF Low, EmShape
  <2>3. IsUnit(em_poly') /\ UnitRests(em_poly')
    BY <1>4 DEF EmEdge, EmShape, EmRuns, UnitAfter, IsUnit, UnitRests
  <2> QED
    BY <1>0, <1>4, <2>2, <2>3 DEF EmRuns, EmAnswers, EmShape
<1> QED
  BY <1>1, <1>2, <1>3, <1>4 DEF EmRuns

LEMMA EmStops ==
  ASSUME EmShape, CoreReset(em), em_poly' = UnitReset(em_poly)
  PROVE  EmShape' /\ EmRests'
<1>1. /\ em'.state = "IDLE" /\ ~em'.done /\ em'.call = "none" /\ em'.y_mem = em.y_mem
      /\ DOMAIN em' = DOMAIN em
  BY DEF CoreReset, Low, EmShape
<1> QED
  BY <1>1, UnitStops DEF EmShape, EmRests

LEMMA EmStarts ==
  ASSUME SamplingInit
  PROVE  EmShape /\ EmRests
  BY UnitIdles DEF EmShape, EmRests, SamplingInit

-----------------------------------------------------------------------------
(* pqc_dilithium_sign_challenge.sv.                                        *)

ChShape ==
  /\ DOMAIN ch = {"state", "done", "call", "msg", "c_tilde"}
  /\ IsUnit(ch_shake) /\ IsUnit(ch_sib)

ChEdge(go) ==
  /\ SignChallenge
  /\ ch_shake' = UnitAfter(ch_shake, ch.call = "shake", ChallengeHash(ch.msg[1], ch.msg[2]), go)
  /\ ch_sib' = UnitAfter(ch_sib, ch.call = "sib", SampleInBall(ch.c_tilde), go)

\* What it hashes, and the hash.
Message == <<reg.mu, [i \in Rows |-> HighBits(reg.w[i])]>>
Tilde == ChallengeHash(reg.mu, [i \in Rows |-> HighBits(reg.w[i])])

ChUnitsRest == UnitRests(ch_shake) /\ UnitRests(ch_sib)
ChRests == ch.state = "IDLE" /\ ~ch.done /\ ch.call = "none" /\ ChUnitsRest
ChRuns ==
  /\ ch.state \in {"START_SHAKE", "WAIT_SHAKE", "START_SIB", "WAIT_SIB", "DONE"} /\ ~ch.done
  /\ ch.msg = Message
  /\ ch.state \in {"START_SHAKE", "START_SIB", "DONE"} => ch.call = "none"
  /\ IF ch.state = "WAIT_SHAKE"
     THEN UnitCalled(ch_shake, ch.call = "shake", Tilde) /\ ch.call # "sib"
     ELSE UnitRests(ch_shake)
  /\ IF ch.state = "WAIT_SIB"
     THEN UnitCalled(ch_sib, ch.call = "sib", SampleInBall(Tilde)) /\ ch.call # "shake"
     ELSE UnitRests(ch_sib)
  /\ ch.state \in {"START_SIB", "WAIT_SIB", "DONE"} => ch.c_tilde = Tilde
  /\ ch.state = "DONE" => ch_sib.out = SampleInBall(Tilde)
ChAnswers ==
  /\ ch.state = "IDLE" /\ ch.done /\ ch.call = "none" /\ ChUnitsRest
  /\ ch.c_tilde = Tilde /\ ch_sib.out = SampleInBall(Tilde)

LEMMA ChIdle ==
  ASSUME ChShape, ChRests \/ ChAnswers, NEW go \in BOOLEAN, ChEdge(go)
  PROVE  /\ ChShape'
         /\ call # "ch" => ChRests'
         /\ call = "ch" /\ reg' = reg => ChRuns'
<1>1. ch.state = "IDLE" /\ ch.call = "none" /\ ChUnitsRest
  BY DEF ChRests, ChAnswers
<1>2. IsUnit(ch_shake') /\ IsUnit(ch_sib') /\ ChUnitsRest'
  BY <1>1 DEF ChEdge, ChShape, ChUnitsRest, UnitAfter, IsUnit, UnitRests
<1>3. \/ call # "ch" /\ ch' = Low(ch)
      \/ call = "ch" /\ ch' = [Low(ch) EXCEPT !.msg = Message, !.state = "START_SHAKE"]
  BY <1>1 DEF ChEdge, SignChallenge, CoreIdles, CoreWaits, UnitDone, CallsUnit, CoreComplete,
              Message
<1>4. CASE call # "ch"
  BY <1>1, <1>2, <1>3, <1>4 DEF Low, ChShape, ChRests
<1>5. CASE call = "ch"
  <2>1. /\ ch'.state = "START_SHAKE" /\ ~ch'.done /\ ch'.call = "none" /\ ch'.msg = Message
        /\ DOMAIN ch' = DOMAIN ch
    BY <1>3, <1>5 DEF Low, ChShape
  <2>2. reg' = reg => Message' = Message
    BY DEF Message
  <2> QED
    BY <1>2, <1>5, <2>1, <2>2 DEF ChShape, ChRuns, ChUnitsRest
<1> QED
  BY <1>4, <1>5

LEMMA ChRun ==
  ASSUME ChShape, ChRuns, reg' = reg, NEW go \in BOOLEAN, ChEdge(go)
  PROVE  ChShape' /\ (ChRuns' \/ ChAnswers')
<1>0. Message' = Message /\ Tilde' = Tilde /\ SampleInBall(Tilde)' = SampleInBall(Tilde)
  BY DEF Message, Tilde, SampleInBall
<1>a. ChallengeHash(ch.msg[1], ch.msg[2]) = Tilde
  BY DEF ChRuns, Message, Tilde
<1>b. /\ ch_shake' = UnitAfter(ch_shake, ch.call = "shake", Tilde, go)
      /\ ch_sib' = UnitAfter(ch_sib, ch.call = "sib", SampleInBall(ch.c_tilde), go)
  BY <1>a DEF ChEdge
<1>1. CASE ch.state = "START_SHAKE"
  <2>1. ch' = [Low(ch) EXCEPT !.call = "shake", !.state = "WAIT_SHAKE"]
    BY <1>1 DEF ChEdge, SignChallenge, CoreIdles, CoreWaits, UnitDone, CallsUnit, CoreComplete
  <2>2. /\ ch'.state = "WAIT_SHAKE" /\ ~ch'.done /\ ch'.call = "shake" /\ ch'.msg = ch.msg
        /\ DOMAIN ch' = DOMAIN ch
    BY <2>1 DEF Low, ChShape
  <2>3. IsUnit(ch_shake') /\ UnitRests(ch_shake') /\ IsUnit(ch_sib') /\ UnitRests(ch_sib')
    BY <1>1, <1>b DEF ChShape, ChRuns, UnitAfter, IsUnit, UnitRests
  <2> QED
    BY <1>0, <1>1, <2>2, <2>3 DEF ChShape, ChRuns, UnitCalled, UnitRests
<1>2. CASE ch.state = "WAIT_SHAKE"
  <2>1. ch' = IF ch_shake.done THEN [Low(ch) EXCEPT !.c_tilde = ch_shake.out, !.state = "START_SIB"]
              ELSE Low(ch)
    BY <1>2 DEF ChEdge, SignChallenge, CoreIdles, CoreWaits, UnitDone, CallsUnit, CoreComplete
  <2>2. /\ ch'.state = IF ch_shake.done THEN "START_SIB" ELSE "WAIT_SHAKE"
        /\ ~ch'.done /\ ch'.call = "none" /\ ch'.msg = ch.msg /\ DOMAIN ch' = DOMAIN ch
        /\ ch_shake.done => ch'.c_tilde = ch_shake.out
    BY <1>2, <2>1 DEF Low, ChShape
  <2>3. UnitCalled(ch_shake, ch.call = "shake", Tilde) /\ UnitRests(ch_sib) /\ ch.call # "sib"
    BY <1>2 DEF ChRuns
  <2>4. /\ IsUnit(ch_shake') /\ IsUnit(ch_sib') /\ UnitRests(ch_sib')
        /\ ch_shake.done => UnitRests(ch_shake') /\ ch_shake.out = Tilde
        /\ ~ch_shake.done => UnitCalled(ch_shake', FALSE, Tilde)
    BY <1>b, <2>3 DEF ChShape, UnitAfter, IsUnit, UnitRests, UnitCalled
  <2> QED
    BY <1>0, <1>2, <2>2, <2>4 DEF ChShape, ChRuns
<1>3. CASE ch.state = "START_SIB"
  <2>1. ch' = [Low(ch) EXCEPT !.call = "sib", !.state = "WAIT_SIB"]
    BY <1>3 DEF ChEdge, SignChallenge, CoreIdles, CoreWaits, UnitDone, CallsUnit, CoreComplete
  <2>2. /\ ch'.state = "WAIT_SIB" /\ ~ch'.done /\ ch'.call = "sib" /\ ch'.msg = ch.msg
        /\ ch'.c_tilde = ch.c_tilde /\ DOMAIN ch' = DOMAIN ch
    BY <2>1 DEF Low, ChShape
  <2>3. IsUnit(ch_shake') /\ UnitRests(ch_shake') /\ IsUnit(ch_sib') /\ UnitRests(ch_sib')
    BY <1>3, <1>b DEF ChShape, ChRuns, UnitAfter, IsUnit, UnitRests
  <2> QED
    BY <1>0, <1>3, <2>2, <2>3 DEF ChShape, ChRuns, UnitCalled, UnitRests
<1>4. CASE ch.state = "WAIT_SIB"
  <2>1. ch' = IF ch_sib.done THEN [Low(ch) EXCEPT !.state = "DONE"] ELSE Low(ch)
    BY <1>4 DEF ChEdge, SignChallenge, CoreIdles, CoreWaits, UnitDone, CallsUnit, CoreComplete
  <2>2. /\ ch'.state = IF ch_sib.done THEN "DONE" ELSE "WAIT_SIB"
        /\ ~ch'.done /\ ch'.call = "none" /\ ch'.msg = ch.msg /\ DOMAIN ch' = DOMAIN ch
        /\ ch'.c_tilde = ch.c_tilde
    BY <1>4, <2>1 DEF Low, ChShape
  <2>3. /\ UnitCalled(ch_sib, ch.call = "sib", SampleInBall(Tilde)) /\ UnitRests(ch_shake)
        /\ ch.call # "shake" /\ ch.c_tilde = Tilde
    BY <1>4 DEF ChRuns
  <2>4. /\ IsUnit(ch_shake') /\ IsUnit(ch_sib') /\ UnitRests(ch_shake')
        /\ ch_sib.done => UnitRests(ch_sib') /\ ch_sib'.out = SampleInBall(Tilde)
        /\ ~ch_sib.done => UnitCalled(ch_sib', FALSE, SampleInBall(Tilde))
    BY <1>b, <2>3 DEF ChShape, UnitAfter, IsUnit, UnitRests, UnitCalled
  <2> QED
    BY <1>0, <1>4, <2>2, <2>3, <2>4 DEF ChShape, ChRuns
<1>5. CASE ch.state = "DONE"
  <2>1. ch' = [Low(ch) EXCEPT !.state = "IDLE", !.done = TRUE]
    BY <1>5 DEF ChEdge, SignChallenge, CoreIdles, CoreWaits, UnitDone, CallsUnit, CoreComplete
  <2>2. /\ ch'.state = "IDLE" /\ ch'.done /\ ch'.call = "none" /\ ch'.c_tilde = ch.c_tilde
        /\ DOMAIN ch' = DOMAIN ch
    BY <2>1 DEF Low, ChShape
  <2>3. /\ IsUnit(ch_shake') /\ UnitRests(ch_shake') /\ IsUnit(ch_sib') /\ UnitRests(ch_sib')
        /\ ch_sib'.out = ch_sib.out
    BY <1>5, <1>b DEF ChShape, ChRuns, UnitAfter, IsUnit, UnitRests
  <2> QED
    BY <1>0, <1>5, <2>2, <2>3 DEF ChRuns, ChAnswers, ChShape, ChUnitsRest
<1> QED
  BY <1>1, <1>2, <1>3, <1>4, <1>5 DEF ChRuns

LEMMA ChStops ==
  ASSUME ChShape, CoreReset(ch), ch_shake' = UnitReset(ch_shake), ch_sib' = UnitReset(ch_sib)
  PROVE  ChShape' /\ ChRests'
<1>1. ch'.state = "IDLE" /\ ~ch'.done /\ ch'.call = "none" /\ DOMAIN ch' = DOMAIN ch
  BY DEF CoreReset, Low, ChShape
<1> QED
  BY <1>1, UnitStops DEF ChShape, ChRests, ChUnitsRest

LEMMA ChStarts ==
  ASSUME SamplingInit
  PROVE  ChShape /\ ChRests
  BY UnitIdles DEF ChShape, ChRests, ChUnitsRest, SamplingInit

-----------------------------------------------------------------------------
(* pqc_dilithium_sign_w_core.sv.                                           *)

\* The core's own copies of the operators on terms are those used here.
LEMMA TermsOfW ==
  /\ w_dut!Rows = Rows /\ w_dut!Columns = Columns /\ w_dut!Indices = Indices
  /\ \A f : w_dut!NTT(f) = NTT(f) /\ w_dut!InverseNTT(f) = InverseNTT(f)
  /\ \A f, i : w_dut!At(f, i) = At(f, i)
  /\ w_dut!Zero = Zero
  /\ \A a, b : w_dut!Times(a, b) = Times(a, b) /\ w_dut!Accumulate(a, b) = Accumulate(a, b)
  /\ \A p : w_dut!Gather(p) = Gather(p)
  /\ \A u, r, c, s : w_dut!UnitAfter(u, c, r, s) = UnitAfter(u, c, r, s)
  /\ \A u : w_dut!UnitReset(u) = UnitReset(u)
  /\ w_dut!IdleUnit = IdleUnit
<1>1. w_dut!Rows = Rows /\ w_dut!Columns = Columns /\ w_dut!Indices = Indices
  BY DEF w_dut!Rows, Rows, w_dut!Columns, Columns, w_dut!Indices, Indices
<1>2. \A f : w_dut!NTT(f) = NTT(f) /\ w_dut!InverseNTT(f) = InverseNTT(f)
  BY DEF w_dut!NTT, NTT, w_dut!InverseNTT, InverseNTT
<1>3. /\ \A f, i : w_dut!At(f, i) = At(f, i)
      /\ w_dut!Zero = Zero
  BY DEF w_dut!At, At, w_dut!Zero, Zero
<1>4. \A a, b : w_dut!Times(a, b) = Times(a, b)
  BY <1>3, Zenon DEF w_dut!Times, Times, w_dut!Multiply, Multiply
<1>5. \A a, b : w_dut!Accumulate(a, b) = Accumulate(a, b)
  BY <1>3, Zenon DEF w_dut!Accumulate, Accumulate, w_dut!Plus, Plus
<1>6. \A p : w_dut!Gather(p) = Gather(p)
  BY <1>1, <1>3, Zenon DEF w_dut!Gather, Gather
<1>7. /\ \A u, r, c, s : w_dut!UnitAfter(u, c, r, s) = UnitAfter(u, c, r, s)
      /\ \A u : w_dut!UnitReset(u) = UnitReset(u)
      /\ w_dut!IdleUnit = IdleUnit
  BY Zenon DEF w_dut!UnitAfter, UnitAfter, w_dut!UnitReset, UnitReset, w_dut!IdleUnit, IdleUnit
<1> QED
  BY <1>1, <1>2, <1>3, <1>4, <1>5, <1>6, <1>7

WShape ==
  /\ DOMAIN w = {"state", "done", "call", "fwd_in", "inv_in", "mm_a", "mm_b", "ctr", "row",
                 "coeff", "acc", "col", "y_hat", "w_hat", "w_raw"}
  /\ w.ctr \in Columns /\ w.row \in Rows /\ w.coeff \in Indices /\ w.col \in Columns
  /\ DOMAIN w.y_hat = Columns /\ DOMAIN w.w_hat = Rows /\ DOMAIN w.w_raw = Rows
  /\ \A r \in Rows : DOMAIN w.w_hat[r] = Indices
  /\ IsUnit(w_fwd) /\ IsUnit(w_inv)

\* What it makes of its inputs: a transformed mask, the products of a row, their
\* sum so far, the sum, and the row of w.
MaskHat(j) == NTT(reg.y_zq[j])
RowProducts(r) == [j \in Columns |-> Multiply(reg.A_hat[r][j], MaskHat(j))]
RowPartial(r, j) == SumTo(RowProducts(r), j)
RowSum(r) == RowPartial(r, L - 1)
RowAt(r) == InverseNTT(RowSum(r))

WUnitsRest == UnitRests(w_fwd) /\ UnitRests(w_inv)
WRests == w.state = "IDLE" /\ ~w.done /\ w.call = "none" /\ WUnitsRest

WForward == {"FWD_Y_START", "FWD_Y_WAIT", "FWD_Y_STORE"}
WMultiply == {"MM_ACC_SETUP", "MM_ACC_CAPTURE", "MM_ACC_NEXT"}
WInverse == {"INV_START", "INV_WAIT", "INV_STORE"}

\* The transforms of the core, while one of them is called.
WCalls ==
  /\ IF w.state = "FWD_Y_WAIT"
     THEN /\ UnitCalled(w_fwd, w.call = "fwd", MaskHat(w.ctr)) /\ w.call # "inv"
          /\ w.fwd_in = reg.y_zq[w.ctr]
     ELSE UnitRests(w_fwd)
  /\ IF w.state = "INV_WAIT"
     THEN /\ UnitCalled(w_inv, w.call = "inv", RowAt(w.row)) /\ w.call # "fwd"
          /\ w.inv_in = RowSum(w.row)
     ELSE UnitRests(w_inv)
  /\ w.state \notin {"FWD_Y_WAIT", "INV_WAIT"} => w.call = "none"
  /\ w.state = "FWD_Y_STORE" => w_fwd.out = MaskHat(w.ctr)
  /\ w.state = "INV_STORE" => w_inv.out = RowAt(w.row)

\* How far the transforms, the sums and the rows are.
WMasks == \A j \in Columns : (w.state \in WForward => j < w.ctr) => w.y_hat[j] = MaskHat(j)
WSum ==
  /\ w.state \in {"MM_ACC_SETUP", "MM_ACC_CAPTURE"} =>
       w.acc = IF w.col = 0 THEN Zero ELSE At(RowPartial(w.row, w.col - 1), w.coeff)
  /\ w.state = "MM_ACC_CAPTURE" =>
       w.mm_a = At(reg.A_hat[w.row][w.col], w.coeff) /\ w.mm_b = At(MaskHat(w.col), w.coeff)
  /\ w.state = "MM_ACC_NEXT" => w.acc = At(RowPartial(w.row, w.col), w.coeff)
WSums ==
  \A r \in Rows : \A c \in Indices :
    (\/ w.state \in WInverse \cup {"DONE"}
     \/ w.state \in WMultiply /\ (r < w.row \/ (r = w.row /\ c < w.coeff)))
      => w.w_hat[r][c] = At(RowSum(r), c)
WResults ==
  \A r \in Rows :
    w.state = "DONE" \/ (w.state \in WInverse /\ r < w.row) => w.w_raw[r] = RowAt(r)

WRuns ==
  /\ w.state \in WForward \cup {"MM_ROW_INIT"} \cup WMultiply \cup WInverse \cup {"DONE"}
  /\ ~w.done
  /\ w.state = "MM_ROW_INIT" => w.row = 0
  /\ WCalls /\ WMasks /\ WSum /\ WSums /\ WResults
WAnswers ==
  /\ w.state = "IDLE" /\ w.done /\ w.call = "none" /\ WUnitsRest
  /\ \A r \in Rows : w.w_raw[r] = RowAt(r)

LEMMA WIdle ==
  ASSUME WShape, WRests \/ WAnswers, NEW go \in BOOLEAN, w_dut!Clock(go)
  PROVE  /\ WShape'
         /\ call # "w" => WRests'
         /\ call = "w" => WRuns'
<1>1. w.state = "IDLE" /\ w.call = "none" /\ WUnitsRest
  BY DEF WRests, WAnswers
<1> USE DEF w_dut!Clock, w_dut!Begin, w_dut!TransformMask, w_dut!Forward, w_dut!MultiplyMatrix,
        w_dut!Operands, w_dut!NextCoefficient, w_dut!InvertRows, w_dut!Inverse, w_dut!Complete,
        w_dut!Waiting, w_dut!FWD_Y, w_dut!MM_ACC, w_dut!INV, w_dut!Transform, w_dut!Product
<1>2. IsUnit(w_fwd') /\ IsUnit(w_inv') /\ WUnitsRest'
  BY <1>1, TermsOfW DEF w_dut!UnitsEdge, WShape, WUnitsRest, UnitAfter, IsUnit, UnitRests
<1>3. \/ call # "w" /\ w' = w_dut!Low
      \/ call = "w" /\ w' = [w_dut!Low EXCEPT !.state = "FWD_Y_START", !.ctr = 0]
  BY <1>1
<1>4. CASE call # "w"
  BY <1>1, <1>2, <1>3, <1>4 DEF w_dut!Low, WShape, WRests
<1>5. CASE call = "w"
  <2>1. /\ w'.state = "FWD_Y_START" /\ ~w'.done /\ w'.call = "none" /\ w'.ctr = 0
        /\ w'.row = w.row /\ w'.coeff = w.coeff /\ w'.col = w.col
        /\ w'.y_hat = w.y_hat /\ w'.w_hat = w.w_hat /\ w'.w_raw = w.w_raw
        /\ DOMAIN w' = DOMAIN w
    BY <1>3, <1>5 DEF w_dut!Low, WShape
  <2>2. WShape'
    BY <1>2, <2>1, SizesAre DEF WShape
  <2>3. \A j \in Columns : ~(j < 0)
    BY SizesAre
  <2> QED
    BY <1>2, <1>5, <2>1, <2>2, <2>3 DEF WRuns, WForward, WMultiply, WInverse, WCalls, WMasks,
       WSum, WSums, WResults, WUnitsRest
<1> QED
  BY <1>4, <1>5

LEMMA WStops ==
  ASSUME WShape, w_dut!Reset
  PROVE  WShape' /\ WRests'
<1>1. /\ w'.state = "IDLE" /\ ~w'.done /\ w'.call = "none" /\ DOMAIN w' = DOMAIN w
      /\ w'.ctr = w.ctr /\ w'.row = w.row /\ w'.coeff = w.coeff /\ w'.col = w.col
      /\ w'.y_hat = w.y_hat /\ w'.w_hat = w.w_hat /\ w'.w_raw = w.w_raw
  BY DEF w_dut!Reset, w_dut!Low, WShape
<1> QED
  BY <1>1, TermsOfW, UnitStops DEF WShape, WRests, WUnitsRest, w_dut!Reset, w_dut!UnitsReset

LEMMA WStarts ==
  ASSUME w_dut!Init
  PROVE  WShape /\ WRests
<1>1. /\ DOMAIN w = {"state", "done", "call", "fwd_in", "inv_in", "mm_a", "mm_b", "ctr", "row",
                     "coeff", "acc", "col", "y_hat", "w_hat", "w_raw"}
      /\ w.ctr = 0 /\ w.row = 0 /\ w.coeff = 0 /\ w.col = 0
      /\ w.y_hat = [j \in Columns |-> Undefined]
      /\ w.w_hat = [i \in Rows |-> w_dut!Blank]
      /\ w.w_raw = [i \in Rows |-> Undefined]
      /\ w.state = "IDLE" /\ ~w.done /\ w.call = "none"
  BY TermsOfW DEF w_dut!Init
<1>2. DOMAIN w_dut!Blank = Indices
  BY TermsOfW DEF w_dut!Blank
<1>3. w_fwd = IdleUnit /\ w_inv = IdleUnit
  BY TermsOfW DEF w_dut!Init
<1> QED
  BY <1>1, <1>2, <1>3, UnitIdles, SizesAre DEF WShape, WRests, WUnitsRest

LEMMA GatherIs ==
  ASSUME NEW p, NEW f, \A c \in Indices : p[c] = At(f, c)
  PROVE  Gather(p) = f
<1>0. 0 \in Indices
  BY SizesAre
<1>1. p[0].of = f
  <2>1. p[0] = At(f, 0)
    BY <1>0
  <2>2. At(f, 0).of = f
    BY DEF At
  <2> QED
    BY <2>1, <2>2
<1> QED
  BY <1>1 DEF Gather

\* One more product, or the first one.
LEMMA RowPartials ==
  ASSUME NEW r \in Rows, NEW j \in Columns, NEW c
  PROVE  Accumulate(IF j = 0 THEN Zero ELSE At(RowPartial(r, j - 1), c),
                    Times(At(reg.A_hat[r][j], c), At(MaskHat(j), c)))
           = At(RowPartial(r, j), c)
<1>1. Times(At(reg.A_hat[r][j], c), At(MaskHat(j), c)) = At(RowProducts(r)[j], c)
  BY DEF Times, At, RowProducts
<1>2. CASE j = 0
  <2>1. RowPartial(r, 0) = RowProducts(r)[0]
    BY SumFirst DEF RowPartial
  <2> QED
    BY <1>1, <1>2, <2>1 DEF Accumulate
<1>3. CASE j # 0
  <2>1. j \in Nat
    BY SizesAre
  <2>2. RowPartial(r, j) = Plus(RowPartial(r, j - 1), RowProducts(r)[j])
    BY <1>3, <2>1, SumNext DEF RowPartial
  <2>3. RowPartial(r, j - 1) # <<"0">>
    <3>1. 0 \in Columns
      BY SizesAre
    <3>2. CASE j - 1 = 0
      <4>1. RowPartial(r, 0) = RowProducts(r)[0]
        BY SumFirst DEF RowPartial
      <4> QED
        BY <3>1, <3>2, <4>1 DEF RowProducts, Multiply
    <3>3. CASE j - 1 # 0
      <4>1. j - 1 \in Nat
        BY <2>1, <1>3
      <4>2. RowPartial(r, j - 1) = Plus(RowPartial(r, (j - 1) - 1), RowProducts(r)[j - 1])
        BY <4>1, <3>3, SumNext DEF RowPartial
      <4> QED
        BY <4>2 DEF Plus
    <3> QED
      BY <3>2, <3>3
  <2>4. At(RowPartial(r, j - 1), c) # Zero
    BY <2>3 DEF At, Zero
  <2> QED
    BY <1>1, <1>3, <2>2, <2>4 DEF Accumulate, At
<1> QED
  BY <1>2, <1>3

\* What an edge does in each state of a run.
LEMMA WUnits ==
  ASSUME NEW go \in BOOLEAN, w_dut!Clock(go)
  PROVE  /\ w_fwd' = UnitAfter(w_fwd, w.call = "fwd", NTT(w.fwd_in), go)
         /\ w_inv' = UnitAfter(w_inv, w.call = "inv", InverseNTT(w.inv_in), go)
  BY TermsOfW DEF w_dut!Clock, w_dut!UnitsEdge

LEMMA WRunTransform ==
  ASSUME WShape, WRuns, reg' = reg, NEW go \in BOOLEAN, w_dut!Clock(go),
         w.state \in WForward \cup {"MM_ROW_INIT"}
  PROVE  WShape' /\ WRuns'
<1>0. /\ \A j : MaskHat(j)' = MaskHat(j)
      /\ \A r : RowSum(r)' = RowSum(r) /\ RowAt(r)' = RowAt(r)
  BY DEF MaskHat, RowSum, RowAt, RowPartial, RowProducts
<1>a. UnitRests(w_inv) /\ UnitRests(w_inv') /\ IsUnit(w_inv')
  BY WUnits DEF WForward, WRuns, WCalls, WShape, UnitAfter, IsUnit, UnitRests
<1> USE DEF WForward, WMultiply, WInverse
<1>1. CASE w.state = "FWD_Y_START"
  <2>0. w' = [w_dut!Low EXCEPT !.fwd_in = reg.y_zq[w.ctr], !.call = "fwd",
                               !.state = "FWD_Y_WAIT"]
    BY <1>1
       DEF w_dut!Clock, w_dut!Begin, w_dut!TransformMask, w_dut!Forward, w_dut!MultiplyMatrix,
           w_dut!Operands, w_dut!NextCoefficient, w_dut!InvertRows, w_dut!Inverse, w_dut!Complete,
           w_dut!Waiting, w_dut!FWD_Y, w_dut!MM_ACC, w_dut!INV, w_dut!Transform, w_dut!Product
  <2>1. /\ w'.state = "FWD_Y_WAIT" /\ ~w'.done /\ w'.call = "fwd" /\ w'.fwd_in = reg.y_zq[w.ctr]
        /\ w'.ctr = w.ctr /\ w'.row = w.row /\ w'.coeff = w.coeff /\ w'.col = w.col
        /\ w'.y_hat = w.y_hat /\ w'.w_hat = w.w_hat /\ w'.w_raw = w.w_raw /\ DOMAIN w' = DOMAIN w
    BY <1>1, <2>0 DEF w_dut!Low, WShape
  <2>2. IsUnit(w_fwd') /\ UnitRests(w_fwd')
    BY <1>1, WUnits DEF WRuns, WCalls, WShape, UnitAfter, IsUnit, UnitRests
  <2>3. WShape'
    BY <1>a, <2>1, <2>2 DEF WShape
  <2>4. WCalls'
    BY <1>a, <2>1, <2>2 DEF WCalls, UnitCalled, UnitRests
  <2>5. WMasks' /\ WSum' /\ WSums' /\ WResults'
    BY <1>0, <1>1, <2>1 DEF WRuns, WMasks, WSum, WSums, WResults
  <2> QED
    BY <2>1, <2>3, <2>4, <2>5 DEF WRuns
<1>2. CASE w.state = "FWD_Y_WAIT"
  <2>0. w' = IF w_fwd.done THEN [w_dut!Low EXCEPT !.state = "FWD_Y_STORE"] ELSE w_dut!Low
    BY <1>2
       DEF w_dut!Clock, w_dut!Begin, w_dut!TransformMask, w_dut!Forward, w_dut!MultiplyMatrix,
           w_dut!Operands, w_dut!NextCoefficient, w_dut!InvertRows, w_dut!Inverse, w_dut!Complete,
           w_dut!Waiting, w_dut!FWD_Y, w_dut!MM_ACC, w_dut!INV, w_dut!Transform, w_dut!Product
  <2>1. /\ w'.state = IF w_fwd.done THEN "FWD_Y_STORE" ELSE "FWD_Y_WAIT"
        /\ ~w'.done /\ w'.call = "none" /\ w'.fwd_in = w.fwd_in
        /\ w'.ctr = w.ctr /\ w'.row = w.row /\ w'.coeff = w.coeff /\ w'.col = w.col
        /\ w'.y_hat = w.y_hat /\ w'.w_hat = w.w_hat /\ w'.w_raw = w.w_raw /\ DOMAIN w' = DOMAIN w
    BY <1>2, <2>0 DEF w_dut!Low, WShape
  <2>2. /\ UnitCalled(w_fwd, w.call = "fwd", MaskHat(w.ctr))
        /\ w_fwd' = UnitAfter(w_fwd, w.call = "fwd", MaskHat(w.ctr), go)
    BY <1>2, WUnits DEF WRuns, WCalls, MaskHat
  <2>3. /\ IsUnit(w_fwd')
        /\ w_fwd.done => UnitRests(w_fwd') /\ w_fwd'.out = MaskHat(w.ctr)
        /\ ~w_fwd.done => UnitCalled(w_fwd', FALSE, MaskHat(w.ctr))
    BY <2>2 DEF WShape, UnitAfter, IsUnit, UnitRests, UnitCalled
  <2>4. WShape'
    BY <1>a, <2>1, <2>3 DEF WShape
  <2>5. WCalls'
    BY <1>0, <1>2, <1>a, <2>1, <2>3 DEF WRuns, WCalls
  <2>6. WMasks' /\ WSum' /\ WSums' /\ WResults'
    BY <1>0, <1>2, <2>1 DEF WRuns, WMasks, WSum, WSums, WResults
  <2> QED
    BY <2>1, <2>4, <2>5, <2>6 DEF WRuns
<1>3. CASE w.state = "FWD_Y_STORE"
  <2>0. w' = IF w.ctr = L - 1
             THEN [w_dut!Low EXCEPT !.y_hat[w.ctr] = w_fwd.out, !.row = 0,
                                    !.state = "MM_ROW_INIT"]
             ELSE [w_dut!Low EXCEPT !.y_hat[w.ctr] = w_fwd.out, !.ctr = @ + 1,
                                    !.state = "FWD_Y_START"]
    BY <1>3
       DEF w_dut!Clock, w_dut!Begin, w_dut!TransformMask, w_dut!Forward, w_dut!MultiplyMatrix,
           w_dut!Operands, w_dut!NextCoefficient, w_dut!InvertRows, w_dut!Inverse, w_dut!Complete,
           w_dut!Waiting, w_dut!FWD_Y, w_dut!MM_ACC, w_dut!INV, w_dut!Transform, w_dut!Product
  <2>1. /\ ~w'.done /\ w'.call = "none" /\ w'.coeff = w.coeff /\ w'.col = w.col
        /\ w'.y_hat = [w.y_hat EXCEPT ![w.ctr] = w_fwd.out]
        /\ w'.w_hat = w.w_hat /\ w'.w_raw = w.w_raw /\ DOMAIN w' = DOMAIN w
        /\ IF w.ctr = L - 1 THEN w'.state = "MM_ROW_INIT" /\ w'.row = 0 /\ w'.ctr = w.ctr
           ELSE w'.state = "FWD_Y_START" /\ w'.row = w.row /\ w'.ctr = w.ctr + 1
    BY <1>3, <2>0 DEF w_dut!Low, WShape
  <2>2. IsUnit(w_fwd') /\ UnitRests(w_fwd')
    BY <1>3, WUnits DEF WRuns, WCalls, WShape, UnitAfter, IsUnit, UnitRests
  <2>3. /\ DOMAIN w'.y_hat = Columns
        /\ \A j \in Columns : w'.y_hat[j] = IF j = w.ctr THEN MaskHat(j) ELSE w.y_hat[j]
    BY <1>3, <2>1 DEF WShape, WRuns, WCalls
  <2>4. WShape'
    BY <1>a, <2>1, <2>2, <2>3, SizesAre DEF WShape
  <2>5. WCalls'
    BY <1>a, <2>1, <2>2 DEF WCalls
  <2>6. ASSUME NEW j \in Columns, w'.state \in WForward => j < w'.ctr
        PROVE  j < w.ctr \/ j = w.ctr
    <3>1. j \in Nat /\ j < L /\ w.ctr \in Nat /\ L \in Nat
      BY SizesAre DEF WShape
    <3> QED
      BY <2>1, <2>6, <3>1
  <2>7. WMasks'
    BY <1>0, <1>3, <2>3, <2>6 DEF WRuns, WMasks
  <2>8. WSum' /\ WSums' /\ WResults'
    BY <2>1 DEF WSum, WSums, WResults
  <2> QED
    BY <2>1, <2>4, <2>5, <2>7, <2>8 DEF WRuns
<1>4. CASE w.state = "MM_ROW_INIT"
  <2>0. w' = [w_dut!Low EXCEPT !.col = 0, !.coeff = 0, !.acc = w_dut!Zero,
                               !.state = "MM_ACC_SETUP"]
    BY <1>4
       DEF w_dut!Clock, w_dut!Begin, w_dut!TransformMask, w_dut!Forward, w_dut!MultiplyMatrix,
           w_dut!Operands, w_dut!NextCoefficient, w_dut!InvertRows, w_dut!Inverse, w_dut!Complete,
           w_dut!Waiting, w_dut!FWD_Y, w_dut!MM_ACC, w_dut!INV, w_dut!Transform, w_dut!Product
  <2>1. /\ w'.state = "MM_ACC_SETUP" /\ ~w'.done /\ w'.call = "none" /\ w'.ctr = w.ctr
        /\ w'.row = 0 /\ w'.coeff = 0 /\ w'.col = 0 /\ w'.acc = w_dut!Zero
        /\ w'.y_hat = w.y_hat /\ w'.w_hat = w.w_hat /\ w'.w_raw = w.w_raw /\ DOMAIN w' = DOMAIN w
    BY <1>4, <2>0 DEF w_dut!Low, WShape, WRuns
  <2>2. IsUnit(w_fwd') /\ UnitRests(w_fwd')
    BY <1>4, WUnits DEF WRuns, WCalls, WShape, UnitAfter, IsUnit, UnitRests
  <2>3. WShape'
    BY <1>a, <2>1, <2>2, SizesAre DEF WShape
  <2>4. WCalls'
    BY <1>a, <2>1, <2>2 DEF WCalls
  <2>5. WMasks' /\ WResults'
    BY <1>0, <1>4, <2>1 DEF WRuns, WMasks, WResults
  <2>6. WSum'
    BY <2>1, TermsOfW DEF WSum
  <2>7. \A r \in Rows, c \in Indices : ~(r < 0) /\ ~(c < 0)
    BY SizesAre
  <2>8. WSums'
    BY <2>1, <2>7 DEF WSums
  <2> QED
    BY <2>1, <2>3, <2>4, <2>5, <2>6, <2>8 DEF WRuns
<1> QED
  BY <1>1, <1>2, <1>3, <1>4

LEMMA WRunMultiply ==
  ASSUME WShape, WRuns, reg' = reg, NEW go \in BOOLEAN, w_dut!Clock(go), w.state \in WMultiply
  PROVE  WShape' /\ WRuns'
<1>0. /\ \A j : MaskHat(j)' = MaskHat(j)
      /\ \A r : RowSum(r)' = RowSum(r) /\ RowAt(r)' = RowAt(r)
      /\ \A r, j : RowPartial(r, j)' = RowPartial(r, j)
  BY DEF MaskHat, RowSum, RowAt, RowPartial, RowProducts
<1>a. /\ UnitRests(w_inv) /\ UnitRests(w_inv') /\ IsUnit(w_inv')
      /\ UnitRests(w_fwd) /\ UnitRests(w_fwd') /\ IsUnit(w_fwd')
  BY WUnits DEF WMultiply, WRuns, WCalls, WShape, UnitAfter, IsUnit, UnitRests
<1> USE DEF WForward, WMultiply, WInverse
<1>1. CASE w.state = "MM_ACC_SETUP"
  <2>0. w' = [w_dut!Low EXCEPT !.mm_a = w_dut!At(reg.A_hat[w.row][w.col], w.coeff),
                               !.mm_b = w_dut!At(w.y_hat[w.col], w.coeff),
                               !.state = "MM_ACC_CAPTURE"]
    BY <1>1
       DEF w_dut!Clock, w_dut!Begin, w_dut!TransformMask, w_dut!Forward, w_dut!MultiplyMatrix,
           w_dut!Operands, w_dut!NextCoefficient, w_dut!InvertRows, w_dut!Inverse, w_dut!Complete,
           w_dut!Waiting, w_dut!FWD_Y, w_dut!MM_ACC, w_dut!INV, w_dut!Transform, w_dut!Product
  <2>1. /\ w'.state = "MM_ACC_CAPTURE" /\ ~w'.done /\ w'.call = "none" /\ w'.ctr = w.ctr
        /\ w'.row = w.row /\ w'.coeff = w.coeff /\ w'.col = w.col /\ w'.acc = w.acc
        /\ w'.mm_a = w_dut!At(reg.A_hat[w.row][w.col], w.coeff)
        /\ w'.mm_b = w_dut!At(w.y_hat[w.col], w.coeff)
        /\ w'.y_hat = w.y_hat /\ w'.w_hat = w.w_hat /\ w'.w_raw = w.w_raw /\ DOMAIN w' = DOMAIN w
    BY <1>1, <2>0 DEF w_dut!Low, WShape
  <2>2. WShape'
    BY <1>a, <2>1 DEF WShape
  <2>3. WCalls'
    BY <1>a, <2>1 DEF WCalls
  <2>4. w.y_hat[w.col] = MaskHat(w.col)
    BY <1>1 DEF WShape, WRuns, WMasks
  <2>5. WSum'
    BY <1>0, <1>1, <2>1, <2>4, TermsOfW DEF WRuns, WSum
  <2>6. WMasks' /\ WSums' /\ WResults'
    BY <1>0, <1>1, <2>1 DEF WRuns, WMasks, WSums, WResults
  <2> QED
    BY <2>1, <2>2, <2>3, <2>5, <2>6 DEF WRuns
<1>2. CASE w.state = "MM_ACC_CAPTURE"
  <2>0. w' = [w_dut!Low EXCEPT !.acc = w_dut!Accumulate(@, w_dut!Times(w.mm_a, w.mm_b)),
                               !.state = "MM_ACC_NEXT"]
    BY <1>2
       DEF w_dut!Clock, w_dut!Begin, w_dut!TransformMask, w_dut!Forward, w_dut!MultiplyMatrix,
           w_dut!Operands, w_dut!NextCoefficient, w_dut!InvertRows, w_dut!Inverse, w_dut!Complete,
           w_dut!Waiting, w_dut!FWD_Y, w_dut!MM_ACC, w_dut!INV, w_dut!Transform, w_dut!Product,
           w_dut!mm_out
  <2>1. /\ w'.state = "MM_ACC_NEXT" /\ ~w'.done /\ w'.call = "none" /\ w'.ctr = w.ctr
        /\ w'.row = w.row /\ w'.coeff = w.coeff /\ w'.col = w.col
        /\ w'.acc = w_dut!Accumulate(w.acc, w_dut!Times(w.mm_a, w.mm_b))
        /\ w'.y_hat = w.y_hat /\ w'.w_hat = w.w_hat /\ w'.w_raw = w.w_raw /\ DOMAIN w' = DOMAIN w
    BY <1>2, <2>0 DEF w_dut!Low, WShape
  <2>2. WShape'
    BY <1>a, <2>1 DEF WShape
  <2>3. WCalls'
    BY <1>a, <2>1 DEF WCalls
  <2>4. w'.acc = At(RowPartial(w.row, w.col), w.coeff)
    <3>1. /\ w.acc = IF w.col = 0 THEN Zero ELSE At(RowPartial(w.row, w.col - 1), w.coeff)
          /\ w.mm_a = At(reg.A_hat[w.row][w.col], w.coeff)
          /\ w.mm_b = At(MaskHat(w.col), w.coeff)
      BY <1>2 DEF WRuns, WSum
    <3>2. w.row \in Rows /\ w.col \in Columns
      BY DEF WShape
    <3> QED
      BY <2>1, <3>1, <3>2, RowPartials, TermsOfW
  <2>5. WSum'
    BY <1>0, <2>1, <2>4 DEF WSum
  <2>6. WMasks' /\ WSums' /\ WResults'
    BY <1>0, <1>2, <2>1 DEF WRuns, WMasks, WSums, WResults
  <2> QED
    BY <2>1, <2>2, <2>3, <2>5, <2>6 DEF WRuns
<1>3. CASE w.state = "MM_ACC_NEXT" /\ w.col # L - 1
  <2>0. w' = [w_dut!Low EXCEPT !.col = @ + 1, !.state = "MM_ACC_SETUP"]
    BY <1>3, SizesAre
       DEF w_dut!Clock, w_dut!Begin, w_dut!TransformMask, w_dut!Forward, w_dut!MultiplyMatrix,
           w_dut!Operands, w_dut!NextCoefficient, w_dut!InvertRows, w_dut!Inverse, w_dut!Complete,
           w_dut!Waiting, w_dut!FWD_Y, w_dut!MM_ACC, w_dut!INV, w_dut!Transform, w_dut!Product
  <2>1. /\ w'.state = "MM_ACC_SETUP" /\ ~w'.done /\ w'.call = "none" /\ w'.ctr = w.ctr
        /\ w'.row = w.row /\ w'.coeff = w.coeff /\ w'.col = w.col + 1 /\ w'.acc = w.acc
        /\ w'.y_hat = w.y_hat /\ w'.w_hat = w.w_hat /\ w'.w_raw = w.w_raw /\ DOMAIN w' = DOMAIN w
    BY <1>3, <2>0 DEF w_dut!Low, WShape
  <2>2. WShape'
    BY <1>3, <1>a, <2>1, SizesAre DEF WShape
  <2>3. WCalls'
    BY <1>a, <2>1 DEF WCalls
  <2>4. w.col + 1 # 0 /\ (w.col + 1) - 1 = w.col
    BY SizesAre DEF WShape
  <2>5. WSum'
    BY <1>0, <1>3, <2>1, <2>4 DEF WRuns, WSum
  <2>6. WMasks' /\ WSums' /\ WResults'
    BY <1>0, <1>3, <2>1 DEF WRuns, WMasks, WSums, WResults
  <2> QED
    BY <2>1, <2>2, <2>3, <2>5, <2>6 DEF WRuns
<1>4. CASE w.state = "MM_ACC_NEXT" /\ w.col = L - 1
  <2>0. w_dut!NextCoefficient
    BY <1>4, SizesAre
       DEF w_dut!Clock, w_dut!Begin, w_dut!TransformMask, w_dut!Forward, w_dut!MultiplyMatrix,
           w_dut!Operands, w_dut!NextCoefficient, w_dut!InvertRows, w_dut!Inverse, w_dut!Complete,
           w_dut!Waiting, w_dut!FWD_Y, w_dut!MM_ACC, w_dut!INV, w_dut!Transform, w_dut!Product
  <2>1. /\ ~w'.done /\ w'.call = "none" /\ w'.ctr = w.ctr /\ w'.col = 0 /\ w'.acc = w_dut!Zero
        /\ w'.w_hat = [w.w_hat EXCEPT ![w.row][w.coeff] = w.acc]
        /\ w'.y_hat = w.y_hat /\ w'.w_raw = w.w_raw /\ DOMAIN w' = DOMAIN w
        /\ \/ /\ w.coeff < Coeffs - 1 /\ w'.state = "MM_ACC_SETUP"
              /\ w'.row = w.row /\ w'.coeff = w.coeff + 1
           \/ /\ ~(w.coeff < Coeffs - 1) /\ w.row < K - 1 /\ w'.state = "MM_ACC_SETUP"
              /\ w'.row = w.row + 1 /\ w'.coeff = 0
           \/ /\ ~(w.coeff < Coeffs - 1) /\ ~(w.row < K - 1) /\ w'.state = "INV_START"
              /\ w'.row = 0 /\ w'.coeff = w.coeff
    BY <1>4, <2>0 DEF w_dut!Low, WShape, w_dut!NextCoefficient
  <2>2. /\ DOMAIN w'.w_hat = Rows
        /\ \A r \in Rows : DOMAIN w'.w_hat[r] = Indices
        /\ \A r \in Rows : \A c \in Indices :
             w'.w_hat[r][c] = IF r = w.row /\ c = w.coeff THEN w.acc ELSE w.w_hat[r][c]
    BY <2>1 DEF WShape
  <2>3. WShape'
    BY <1>a, <2>1, <2>2, SizesAre DEF WShape
  <2>4. WCalls'
    BY <1>a, <2>1 DEF WCalls
  <2>5. WSum'
    BY <2>1, TermsOfW DEF WSum
  <2>6. WMasks'
    BY <1>0, <1>4, <2>1 DEF WRuns, WMasks
  <2>7. WResults'
    BY <2>1, SizesAre DEF WResults
  <2>8. ASSUME NEW r \in Rows, NEW c \in Indices,
               \/ w'.state \in WInverse \cup {"DONE"}
               \/ w'.state \in WMultiply /\ (r < w'.row \/ (r = w'.row /\ c < w'.coeff))
        PROVE  r < w.row \/ (r = w.row /\ c < w.coeff) \/ (r = w.row /\ c = w.coeff)
    <3>1. /\ r \in Nat /\ r < K /\ w.row \in Nat /\ w.row < K /\ K \in Nat
          /\ c \in Nat /\ c < Coeffs /\ w.coeff \in Nat /\ w.coeff < Coeffs /\ Coeffs \in Nat
      BY SizesAre DEF WShape
    <3> QED
      BY <2>1, <2>8, <3>1
  <2>9. w.acc = At(RowSum(w.row), w.coeff)
    BY <1>4 DEF WRuns, WSum, RowSum
  <2>10. \A r \in Rows : \A c \in Indices :
           r < w.row \/ (r = w.row /\ c < w.coeff) => w.w_hat[r][c] = At(RowSum(r), c)
    BY <1>4 DEF WRuns, WSums
  <2>11. WSums'
    BY <1>0, <2>2, <2>8, <2>9, <2>10 DEF WSums
  <2> QED
    BY <2>1, <2>3, <2>4, <2>5, <2>6, <2>7, <2>11 DEF WRuns
<1> QED
  BY <1>1, <1>2, <1>3, <1>4

LEMMA WRunInvert ==
  ASSUME WShape, WRuns, reg' = reg, NEW go \in BOOLEAN, w_dut!Clock(go), w.state \in WInverse
  PROVE  WShape' /\ WRuns'
<1>0. /\ \A j : MaskHat(j)' = MaskHat(j)
      /\ \A r : RowSum(r)' = RowSum(r) /\ RowAt(r)' = RowAt(r)
  BY DEF MaskHat, RowSum, RowAt, RowPartial, RowProducts
<1>a. UnitRests(w_fwd) /\ UnitRests(w_fwd') /\ IsUnit(w_fwd')
  BY WUnits DEF WInverse, WRuns, WCalls, WShape, UnitAfter, IsUnit, UnitRests
<1> USE DEF WForward, WMultiply, WInverse
<1>1. CASE w.state = "INV_START"
  <2>0. w' = [w_dut!Low EXCEPT !.inv_in = w_dut!Gather(w.w_hat[w.row]), !.call = "inv",
                               !.state = "INV_WAIT"]
    BY <1>1
       DEF w_dut!Clock, w_dut!Begin, w_dut!TransformMask, w_dut!Forward, w_dut!MultiplyMatrix,
           w_dut!Operands, w_dut!NextCoefficient, w_dut!InvertRows, w_dut!Inverse, w_dut!Complete,
           w_dut!Waiting, w_dut!FWD_Y, w_dut!MM_ACC, w_dut!INV, w_dut!Transform, w_dut!Product
  <2>1. /\ w'.state = "INV_WAIT" /\ ~w'.done /\ w'.call = "inv"
        /\ w'.inv_in = w_dut!Gather(w.w_hat[w.row])
        /\ w'.ctr = w.ctr /\ w'.row = w.row /\ w'.coeff = w.coeff /\ w'.col = w.col
        /\ w'.y_hat = w.y_hat /\ w'.w_hat = w.w_hat /\ w'.w_raw = w.w_raw /\ DOMAIN w' = DOMAIN w
    BY <1>1, <2>0 DEF w_dut!Low, WShape
  <2>2. w'.inv_in = RowSum(w.row)
    <3>1. \A c \in Indices : w.w_hat[w.row][c] = At(RowSum(w.row), c)
      BY <1>1 DEF WShape, WRuns, WSums
    <3>2. Gather(w.w_hat[w.row]) = RowSum(w.row)
      BY <3>1, GatherIs
    <3> QED
      BY <2>1, <3>2, TermsOfW
  <2>3. IsUnit(w_inv') /\ UnitRests(w_inv')
    BY <1>1, WUnits DEF WRuns, WCalls, WShape, UnitAfter, IsUnit, UnitRests
  <2>4. WShape'
    BY <1>a, <2>1, <2>3 DEF WShape
  <2>5. WCalls'
    BY <1>0, <1>a, <2>1, <2>2, <2>3 DEF WCalls, UnitCalled, UnitRests
  <2>6. WMasks' /\ WSum' /\ WSums' /\ WResults'
    BY <1>0, <1>1, <2>1 DEF WRuns, WMasks, WSum, WSums, WResults
  <2> QED
    BY <2>1, <2>4, <2>5, <2>6 DEF WRuns
<1>2. CASE w.state = "INV_WAIT"
  <2>0. w' = IF w_inv.done THEN [w_dut!Low EXCEPT !.state = "INV_STORE"] ELSE w_dut!Low
    BY <1>2
       DEF w_dut!Clock, w_dut!Begin, w_dut!TransformMask, w_dut!Forward, w_dut!MultiplyMatrix,
           w_dut!Operands, w_dut!NextCoefficient, w_dut!InvertRows, w_dut!Inverse, w_dut!Complete,
           w_dut!Waiting, w_dut!FWD_Y, w_dut!MM_ACC, w_dut!INV, w_dut!Transform, w_dut!Product
  <2>1. /\ w'.state = IF w_inv.done THEN "INV_STORE" ELSE "INV_WAIT"
        /\ ~w'.done /\ w'.call = "none" /\ w'.inv_in = w.inv_in
        /\ w'.ctr = w.ctr /\ w'.row = w.row /\ w'.coeff = w.coeff /\ w'.col = w.col
        /\ w'.y_hat = w.y_hat /\ w'.w_hat = w.w_hat /\ w'.w_raw = w.w_raw /\ DOMAIN w' = DOMAIN w
    BY <1>2, <2>0 DEF w_dut!Low, WShape
  <2>2. /\ UnitCalled(w_inv, w.call = "inv", RowAt(w.row))
        /\ w_inv' = UnitAfter(w_inv, w.call = "inv", RowAt(w.row), go)
    BY <1>2, WUnits DEF WRuns, WCalls, RowAt
  <2>3. /\ IsUnit(w_inv')
        /\ w_inv.done => UnitRests(w_inv') /\ w_inv'.out = RowAt(w.row)
        /\ ~w_inv.done => UnitCalled(w_inv', FALSE, RowAt(w.row))
    BY <2>2 DEF WShape, UnitAfter, IsUnit, UnitRests, UnitCalled
  <2>4. WShape'
    BY <1>a, <2>1, <2>3 DEF WShape
  <2>5. WCalls'
    BY <1>0, <1>2, <1>a, <2>1, <2>3 DEF WRuns, WCalls
  <2>6. WMasks' /\ WSum' /\ WSums' /\ WResults'
    BY <1>0, <1>2, <2>1 DEF WRuns, WMasks, WSum, WSums, WResults
  <2> QED
    BY <2>1, <2>4, <2>5, <2>6 DEF WRuns
<1>3. CASE w.state = "INV_STORE"
  <2>0. w' = IF w.row = K - 1
             THEN [w_dut!Low EXCEPT !.w_raw[w.row] = w_inv.out, !.state = "DONE"]
             ELSE [w_dut!Low EXCEPT !.w_raw[w.row] = w_inv.out, !.row = @ + 1,
                                    !.state = "INV_START"]
    BY <1>3
       DEF w_dut!Clock, w_dut!Begin, w_dut!TransformMask, w_dut!Forward, w_dut!MultiplyMatrix,
           w_dut!Operands, w_dut!NextCoefficient, w_dut!InvertRows, w_dut!Inverse, w_dut!Complete,
           w_dut!Waiting, w_dut!FWD_Y, w_dut!MM_ACC, w_dut!INV, w_dut!Transform, w_dut!Product
  <2>1. /\ ~w'.done /\ w'.call = "none" /\ w'.ctr = w.ctr /\ w'.coeff = w.coeff /\ w'.col = w.col
        /\ w'.w_raw = [w.w_raw EXCEPT ![w.row] = w_inv.out]
        /\ w'.w_hat = w.w_hat /\ w'.y_hat = w.y_hat /\ DOMAIN w' = DOMAIN w
        /\ IF w.row = K - 1 THEN w'.state = "DONE" /\ w'.row = w.row
           ELSE w'.state = "INV_START" /\ w'.row = w.row + 1
    BY <1>3, <2>0 DEF w_dut!Low, WShape
  <2>2. IsUnit(w_inv') /\ UnitRests(w_inv')
    BY <1>3, WUnits DEF WRuns, WCalls, WShape, UnitAfter, IsUnit, UnitRests
  <2>3. /\ DOMAIN w'.w_raw = Rows
        /\ \A r \in Rows : w'.w_raw[r] = IF r = w.row THEN RowAt(r) ELSE w.w_raw[r]
    BY <1>3, <2>1 DEF WShape, WRuns, WCalls
  <2>4. WShape'
    BY <1>a, <2>1, <2>2, <2>3, SizesAre DEF WShape
  <2>5. WCalls'
    BY <1>a, <2>1, <2>2 DEF WCalls
  <2>6. ASSUME NEW r \in Rows, w'.state = "DONE" \/ (w'.state \in WInverse /\ r < w'.row)
        PROVE  r < w.row \/ r = w.row
    <3>1. r \in Nat /\ r < K /\ w.row \in Nat /\ K \in Nat
      BY SizesAre DEF WShape
    <3> QED
      BY <2>1, <2>6, <3>1
  <2>7. WResults'
    BY <1>0, <1>3, <2>3, <2>6 DEF WRuns, WResults
  <2>8. WMasks' /\ WSum' /\ WSums'
    BY <1>0, <1>3, <2>1 DEF WRuns, WMasks, WSum, WSums
  <2> QED
    BY <2>1, <2>4, <2>5, <2>7, <2>8 DEF WRuns
<1> QED
  BY <1>1, <1>2, <1>3

LEMMA WRun ==
  ASSUME WShape, WRuns, reg' = reg, NEW go \in BOOLEAN, w_dut!Clock(go)
  PROVE  WShape' /\ (WRuns' \/ WAnswers')
<1>1. CASE w.state = "DONE"
  <2>0. w' = [w_dut!Low EXCEPT !.state = "IDLE", !.done = TRUE]
    BY <1>1
       DEF w_dut!Clock, w_dut!Begin, w_dut!TransformMask, w_dut!Forward, w_dut!MultiplyMatrix,
           w_dut!Operands, w_dut!NextCoefficient, w_dut!InvertRows, w_dut!Inverse, w_dut!Complete,
           w_dut!Waiting, w_dut!FWD_Y, w_dut!MM_ACC, w_dut!INV, w_dut!Transform, w_dut!Product
  <2>1. /\ w'.state = "IDLE" /\ w'.done /\ w'.call = "none"
        /\ w'.ctr = w.ctr /\ w'.row = w.row /\ w'.coeff = w.coeff /\ w'.col = w.col
        /\ w'.y_hat = w.y_hat /\ w'.w_hat = w.w_hat /\ w'.w_raw = w.w_raw /\ DOMAIN w' = DOMAIN w
    BY <1>1, <2>0 DEF w_dut!Low, WShape
  <2>2. IsUnit(w_fwd') /\ IsUnit(w_inv') /\ WUnitsRest'
    BY <1>1, WUnits DEF WRuns, WCalls, WShape, WUnitsRest, UnitAfter, IsUnit, UnitRests
  <2>3. \A r \in Rows : w'.w_raw[r] = RowAt(r) /\ RowAt(r)' = RowAt(r)
    BY <1>1, <2>1 DEF WRuns, WResults, RowAt, RowSum, RowPartial, RowProducts, MaskHat
  <2> QED
    BY <2>1, <2>2, <2>3 DEF WShape, WAnswers
<1> QED
  BY <1>1, WRunTransform, WRunMultiply, WRunInvert DEF WRuns

-----------------------------------------------------------------------------
(* pqc_dilithium_sign_z_core.sv.                                           *)

\* A transformed secret polynomial, the transformed challenge and their product.
SecretHat(name, j) == NTT(Poly(name, in, j))
ChallengeHat == NTT(Zq(reg.c))
ProductHat(name, j) == Multiply(SecretHat(name, j), ChallengeHat)
ScaledSecret(name, j) == InverseNTT(ProductHat(name, j))

LEMMA ScaledSecretIs ==
  ASSUME NEW name, NEW j
  PROVE  ScaledSecret(name, j) = Scaled(Poly(name, in, j), reg.c)
  BY DEF ScaledSecret, ProductHat, SecretHat, ChallengeHat, Scaled

LEMMA SecretsKept ==
  ASSUME reg' = reg, in' = in
  PROVE  /\ ChallengeHat' = ChallengeHat
         /\ \A name, j : /\ SecretHat(name, j)' = SecretHat(name, j)
                         /\ ProductHat(name, j)' = ProductHat(name, j)
                         /\ ScaledSecret(name, j)' = ScaledSecret(name, j)
  BY DEF SecretHat, ChallengeHat, ProductHat, ScaledSecret

LEMMA TermsOfZ ==
  /\ z_dut!Rows = Rows /\ z_dut!Columns = Columns /\ z_dut!Indices = Indices
  /\ \A f : z_dut!NTT(f) = NTT(f) /\ z_dut!InverseNTT(f) = InverseNTT(f) /\ z_dut!Zq(f) = Zq(f)
  /\ \A f, i : z_dut!At(f, i) = At(f, i)
  /\ \A a, b : z_dut!Times(a, b) = Times(a, b)
  /\ \A p : z_dut!Gather(p) = Gather(p)
  /\ \A u, r, c, s : z_dut!UnitAfter(u, c, r, s) = UnitAfter(u, c, r, s)
  /\ \A u : z_dut!UnitReset(u) = UnitReset(u)
  /\ z_dut!IdleUnit = IdleUnit
<1>1. z_dut!Rows = Rows /\ z_dut!Columns = Columns /\ z_dut!Indices = Indices
  BY DEF z_dut!Rows, Rows, z_dut!Columns, Columns, z_dut!Indices, Indices
<1>2. \A f : z_dut!NTT(f) = NTT(f) /\ z_dut!InverseNTT(f) = InverseNTT(f) /\ z_dut!Zq(f) = Zq(f)
  BY DEF z_dut!NTT, NTT, z_dut!InverseNTT, InverseNTT, z_dut!Zq, Zq
<1>3. \A f, i : z_dut!At(f, i) = At(f, i)
  BY DEF z_dut!At, At
<1>4. \A a, b : z_dut!Times(a, b) = Times(a, b)
  BY <1>3, Zenon DEF z_dut!Times, Times, z_dut!Multiply, Multiply
<1>5. \A p : z_dut!Gather(p) = Gather(p)
  BY <1>1, <1>3, Zenon DEF z_dut!Gather, Gather
<1>6. /\ \A u, r, c, s : z_dut!UnitAfter(u, c, r, s) = UnitAfter(u, c, r, s)
      /\ \A u : z_dut!UnitReset(u) = UnitReset(u)
      /\ z_dut!IdleUnit = IdleUnit
  BY Zenon DEF z_dut!UnitAfter, UnitAfter, z_dut!UnitReset, UnitReset, z_dut!IdleUnit, IdleUnit
<1> QED
  BY <1>1, <1>2, <1>3, <1>4, <1>5, <1>6

ZShape ==
  /\ DOMAIN z = {"state", "done", "call", "fwd_in", "inv_in", "mm_a", "mm_b", "ctr", "row",
                  "coeff", "c_hat", "s1_hat", "c_s1_hat", "c_s1_raw"}
  /\ z.ctr \in Columns /\ z.row \in Columns /\ z.coeff \in Indices
  /\ DOMAIN z.s1_hat = Columns /\ DOMAIN z.c_s1_hat = Columns /\ DOMAIN z.c_s1_raw = Columns
  /\ \A r \in Columns : DOMAIN z.c_s1_hat[r] = Indices
  /\ IsUnit(z_fwd) /\ IsUnit(z_inv)

ZUnitsRest == UnitRests(z_fwd) /\ UnitRests(z_inv)
ZRests == z.state = "IDLE" /\ ~z.done /\ z.call = "none" /\ ZUnitsRest

\* The loops of a run.
ZFwdS1 == {"FWD_S1_START", "FWD_S1_WAIT", "FWD_S1_STORE"}
ZFwdC == {"FWD_C_START", "FWD_C_WAIT", "FWD_C_STORE"}
ZMulS1 == {"MUL_SETUP", "MUL_CAPTURE", "MUL_NEXT"}
ZInvS1 == {"INV_START", "INV_WAIT", "INV_STORE"}

\* The transforms of the core, while one of them is called.
ZCalls ==
  /\ z.state = "FWD_S1_WAIT" =>
       /\ UnitCalled(z_fwd, z.call = "fwd", SecretHat("s1", z.ctr)) /\ z.call # "inv"
       /\ z.fwd_in = Poly("s1", in, z.ctr)
  /\ z.state = "FWD_S1_STORE" => z_fwd.out = SecretHat("s1", z.ctr)
  /\ z.state = "FWD_C_WAIT" =>
       /\ UnitCalled(z_fwd, z.call = "fwd", ChallengeHat) /\ z.call # "inv"
       /\ z.fwd_in = Zq(reg.c)
  /\ z.state = "FWD_C_STORE" => z_fwd.out = ChallengeHat
  /\ z.state = "INV_WAIT" =>
       /\ UnitCalled(z_inv, z.call = "inv", ScaledSecret("s1", z.row)) /\ z.call # "fwd"
       /\ z.inv_in = ProductHat("s1", z.row)
  /\ z.state = "INV_STORE" => z_inv.out = ScaledSecret("s1", z.row)
  /\ z.state \notin {"FWD_S1_WAIT", "FWD_C_WAIT"} => UnitRests(z_fwd)
  /\ z.state \notin {"INV_WAIT"} => UnitRests(z_inv)
  /\ z.state \notin {"FWD_S1_WAIT", "FWD_C_WAIT", "INV_WAIT"} => z.call = "none"

\* How far the loops are.
ZHatS1 ==
  \A j \in Columns :
    (z.state \in ZFwdS1 => j < z.ctr) => z.s1_hat[j] = SecretHat("s1", j)
ZHatC == z.state \notin ZFwdS1 \cup ZFwdC => z.c_hat = ChallengeHat
ZOperands ==
  /\ z.state = "MUL_CAPTURE" => /\ z.mm_a = At(SecretHat("s1", z.row), z.coeff)
                                /\ z.mm_b = At(ChallengeHat, z.coeff)
\* The coefficient c of row r is computed.
ZPassed(r, c) ==
  \/ r < z.row
  \/ r = z.row /\ (c < z.coeff \/ (c = z.coeff /\ z.state \in {"MUL_NEXT"}))
ZProductS1 ==
  \A r \in Columns : \A c \in Indices :
    z.state \in ZInvS1 \cup {"DONE"} \/ (z.state \in ZMulS1 /\ ZPassed(r, c))
      => z.c_s1_hat[r][c] = At(ProductHat("s1", r), c)
ZRawS1 ==
  \A r \in Columns :
    z.state = "DONE" \/ (z.state \in ZInvS1 /\ r < z.row)
      => z.c_s1_raw[r] = ScaledSecret("s1", r)

ZRuns ==
  /\ z.state \in ZFwdS1 \cup ZFwdC \cup ZMulS1 \cup ZInvS1 \cup {"DONE"}
  /\ ~z.done
  /\ ZCalls /\ ZHatS1 /\ ZHatC /\ ZOperands /\ ZProductS1 /\ ZRawS1
ZAnswers ==
  /\ z.state = "IDLE" /\ z.done /\ z.call = "none" /\ ZUnitsRest
  /\ \A r \in Columns : z.c_s1_raw[r] = ScaledSecret("s1", r)

LEMMA ZUnits ==
  ASSUME NEW go \in BOOLEAN, z_dut!Clock(go)
  PROVE  /\ z_fwd' = UnitAfter(z_fwd, z.call = "fwd", NTT(z.fwd_in), go)
         /\ z_inv' = UnitAfter(z_inv, z.call = "inv", InverseNTT(z.inv_in), go)
  BY TermsOfZ DEF z_dut!Clock, z_dut!UnitsEdge

LEMMA ZIdle ==
  ASSUME ZShape, ZRests \/ ZAnswers, NEW go \in BOOLEAN, z_dut!Clock(go)
  PROVE  /\ ZShape'
         /\ call # "z" => ZRests'
         /\ call = "z" => ZRuns'
<1>1. z.state = "IDLE" /\ z.call = "none" /\ ZUnitsRest
  BY DEF ZRests, ZAnswers
<1>2. IsUnit(z_fwd') /\ IsUnit(z_inv') /\ ZUnitsRest'
  BY <1>1, ZUnits DEF ZShape, ZUnitsRest, UnitAfter, IsUnit, UnitRests
<1>3. \/ call # "z" /\ z' = z_dut!Low
      \/ call = "z" /\ z' = [z_dut!Low EXCEPT !.state = "FWD_S1_START", !.ctr = 0]
  BY <1>1
     DEF z_dut!Clock, z_dut!Begin, z_dut!TransformSecret, z_dut!TransformChallenge, z_dut!Scale,
         z_dut!Forward, z_dut!Operands, z_dut!InvertRows, z_dut!Inverse, z_dut!Complete,
         z_dut!Waiting, z_dut!FWD_S1, z_dut!FWD_C, z_dut!MUL, z_dut!INV, z_dut!Transform,
         z_dut!Product
<1>4. CASE call # "z"
  BY <1>1, <1>2, <1>3, <1>4 DEF z_dut!Low, ZShape, ZRests
<1>5. CASE call = "z"
  <2>1. /\ z'.state = "FWD_S1_START" /\ ~z'.done /\ z'.call = "none" /\ z'.ctr = 0
        /\ z'.row = z.row /\ z'.coeff = z.coeff /\ z'.c_hat = z.c_hat /\ z'.s1_hat = z.s1_hat
        /\ z'.c_s1_hat = z.c_s1_hat /\ z'.c_s1_raw = z.c_s1_raw /\ DOMAIN z' = DOMAIN z
    BY <1>3, <1>5 DEF z_dut!Low, ZShape
  <2>2. ZShape'
    BY <1>2, <2>1, SizesAre DEF ZShape
  <2>4. ZCalls'
    BY <1>2, <2>1 DEF ZCalls, ZUnitsRest
  <2> QED
    BY <1>5, <2>1, <2>2, <2>4, NoneBelow
       DEF ZRuns, ZHatS1, ZHatC, ZOperands, ZProductS1, ZRawS1,
           ZFwdS1, ZFwdC, ZMulS1, ZInvS1
<1> QED
  BY <1>4, <1>5

LEMMA ZStops ==
  ASSUME ZShape, z_dut!Reset
  PROVE  ZShape' /\ ZRests'
<1>1. /\ z'.state = "IDLE" /\ ~z'.done /\ z'.call = "none"
      /\ z'.ctr = z.ctr /\ z'.row = z.row /\ z'.coeff = z.coeff /\ z'.c_hat = z.c_hat
      /\ z'.s1_hat = z.s1_hat /\ z'.c_s1_hat = z.c_s1_hat /\ z'.c_s1_raw = z.c_s1_raw
      /\ DOMAIN z' = DOMAIN z
  BY DEF z_dut!Reset, z_dut!Low, ZShape
<1> QED
  BY <1>1, TermsOfZ, UnitStops DEF ZShape, ZRests, ZUnitsRest, z_dut!Reset, z_dut!UnitsReset

LEMMA ZStarts ==
  ASSUME z_dut!Init
  PROVE  ZShape /\ ZRests
<1>1. /\ DOMAIN z = {"state", "done", "call", "fwd_in", "inv_in", "mm_a", "mm_b", "ctr", "row",
                      "coeff", "c_hat", "s1_hat", "c_s1_hat", "c_s1_raw"}
      /\ z.ctr = 0 /\ z.row = 0 /\ z.coeff = 0
      /\ z.s1_hat = [i \in Columns |-> Undefined] /\ z.c_s1_hat = [i \in Columns |-> z_dut!Blank]
      /\ z.c_s1_raw = [i \in Columns |-> Undefined]
      /\ z.state = "IDLE" /\ ~z.done /\ z.call = "none"
  BY TermsOfZ DEF z_dut!Init
<1>2. DOMAIN z_dut!Blank = Indices
  BY TermsOfZ DEF z_dut!Blank
<1>3. z_fwd = IdleUnit /\ z_inv = IdleUnit
  BY TermsOfZ DEF z_dut!Init
<1> QED
  BY <1>1, <1>2, <1>3, UnitIdles, SizesAre, TermsOfZ DEF ZShape, ZRests, ZUnitsRest

LEMMA ZRunTransform ==
  ASSUME ZShape, ZRuns, reg' = reg, in' = in, NEW go \in BOOLEAN, z_dut!Clock(go),
         z.state \in ZFwdS1 \cup ZFwdC
  PROVE  ZShape' /\ ZRuns'
<1>0. /\ ChallengeHat' = ChallengeHat
      /\ \A name, j : /\ SecretHat(name, j)' = SecretHat(name, j)
                      /\ ProductHat(name, j)' = ProductHat(name, j)
                      /\ ScaledSecret(name, j)' = ScaledSecret(name, j)
  BY SecretsKept
<1>a. UnitRests(z_inv) /\ UnitRests(z_inv') /\ IsUnit(z_inv')
  BY ZUnits DEF ZFwdS1, ZFwdC, ZRuns, ZCalls, ZShape, UnitAfter, IsUnit, UnitRests
<1> USE DEF ZFwdS1, ZFwdC, ZMulS1, ZInvS1
<1>1. CASE z.state = "FWD_S1_START"
  <2>0. z' = [z_dut!Low EXCEPT !.fwd_in = Secret("s1", Columns)[z.ctr], !.call = "fwd",
                               !.state = "FWD_S1_WAIT"]
    BY <1>1
       DEF z_dut!Clock, z_dut!Begin, z_dut!TransformSecret, z_dut!TransformChallenge, z_dut!Scale,
           z_dut!Forward, z_dut!Operands, z_dut!InvertRows, z_dut!Inverse, z_dut!Complete,
           z_dut!Waiting, z_dut!FWD_S1, z_dut!FWD_C, z_dut!MUL, z_dut!INV, z_dut!Transform,
           z_dut!Product
  <2>1. /\ z'.state = "FWD_S1_WAIT" /\ ~z'.done /\ z'.call = "fwd" /\ z'.fwd_in = Secret("s1", Columns)[z.ctr]
        /\ z'.ctr = z.ctr /\ z'.row = z.row /\ z'.coeff = z.coeff /\ z'.c_hat = z.c_hat
        /\ z'.s1_hat = z.s1_hat /\ z'.c_s1_hat = z.c_s1_hat /\ z'.c_s1_raw = z.c_s1_raw
        /\ DOMAIN z' = DOMAIN z
    BY <1>1, <2>0 DEF z_dut!Low, ZShape
  <2>2. Secret("s1", Columns)[z.ctr] = Poly("s1", in, z.ctr)
    BY DEF Secret, ZShape
  <2>3. IsUnit(z_fwd') /\ UnitRests(z_fwd')
    BY <1>1, ZUnits DEF ZRuns, ZCalls, ZShape, UnitAfter, IsUnit, UnitRests
  <2>4. ZShape'
    BY <1>a, <2>1, <2>3 DEF ZShape
  <2>5. ZCalls'
    BY <1>a, <2>1, <2>2, <2>3 DEF ZCalls, UnitCalled, UnitRests
  <2>6. ZHatS1' /\ ZHatC' /\ ZOperands' /\ ZProductS1' /\ ZRawS1'
    BY <1>0, <1>1, <2>1 DEF ZRuns, ZPassed, ZHatS1, ZHatC, ZOperands, ZProductS1, ZRawS1
  <2> QED
    BY <2>1, <2>4, <2>5, <2>6 DEF ZRuns
<1>2. CASE z.state = "FWD_S1_WAIT"
  <2>0. z' = IF z_fwd.done THEN [z_dut!Low EXCEPT !.state = "FWD_S1_STORE"] ELSE z_dut!Low
    BY <1>2
       DEF z_dut!Clock, z_dut!Begin, z_dut!TransformSecret, z_dut!TransformChallenge, z_dut!Scale,
           z_dut!Forward, z_dut!Operands, z_dut!InvertRows, z_dut!Inverse, z_dut!Complete,
           z_dut!Waiting, z_dut!FWD_S1, z_dut!FWD_C, z_dut!MUL, z_dut!INV, z_dut!Transform,
           z_dut!Product
  <2>1. /\ z'.state = IF z_fwd.done THEN "FWD_S1_STORE" ELSE "FWD_S1_WAIT"
        /\ ~z'.done /\ z'.call = "none" /\ z'.fwd_in = z.fwd_in
        /\ z'.ctr = z.ctr /\ z'.row = z.row /\ z'.coeff = z.coeff /\ z'.c_hat = z.c_hat
        /\ z'.s1_hat = z.s1_hat /\ z'.c_s1_hat = z.c_s1_hat /\ z'.c_s1_raw = z.c_s1_raw
        /\ DOMAIN z' = DOMAIN z
    BY <1>2, <2>0 DEF z_dut!Low, ZShape
  <2>2. /\ UnitCalled(z_fwd, z.call = "fwd", SecretHat("s1", z.ctr))
        /\ z_fwd' = UnitAfter(z_fwd, z.call = "fwd", SecretHat("s1", z.ctr), go)
    BY <1>2, ZUnits DEF ZRuns, ZCalls, SecretHat
  <2>3. /\ IsUnit(z_fwd')
        /\ z_fwd.done => UnitRests(z_fwd') /\ z_fwd'.out = SecretHat("s1", z.ctr)
        /\ ~z_fwd.done => UnitCalled(z_fwd', FALSE, SecretHat("s1", z.ctr))
    BY <2>2 DEF ZShape, UnitAfter, IsUnit, UnitRests, UnitCalled
  <2>4. ZShape'
    BY <1>a, <2>1, <2>3 DEF ZShape
  <2>5. ZCalls'
    BY <1>0, <1>2, <1>a, <2>1, <2>3 DEF ZRuns, ZCalls
  <2>6. ZHatS1' /\ ZHatC' /\ ZOperands' /\ ZProductS1' /\ ZRawS1'
    BY <1>0, <1>2, <2>1 DEF ZRuns, ZPassed, ZHatS1, ZHatC, ZOperands, ZProductS1, ZRawS1
  <2> QED
    BY <2>1, <2>4, <2>5, <2>6 DEF ZRuns
<1>3. CASE z.state = "FWD_S1_STORE"
  <2>0. z' = IF z.ctr = L - 1
             THEN [z_dut!Low EXCEPT !.s1_hat[z.ctr] = z_fwd.out, !.state = "FWD_C_START"]
             ELSE [z_dut!Low EXCEPT !.s1_hat[z.ctr] = z_fwd.out, !.ctr = @ + 1,
                                    !.state = "FWD_S1_START"]
    BY <1>3
       DEF z_dut!Clock, z_dut!Begin, z_dut!TransformSecret, z_dut!TransformChallenge, z_dut!Scale,
           z_dut!Forward, z_dut!Operands, z_dut!InvertRows, z_dut!Inverse, z_dut!Complete,
           z_dut!Waiting, z_dut!FWD_S1, z_dut!FWD_C, z_dut!MUL, z_dut!INV, z_dut!Transform,
           z_dut!Product
  <2>1. /\ ~z'.done /\ z'.call = "none"
        /\ z'.s1_hat = [z.s1_hat EXCEPT ![z.ctr] = z_fwd.out]
        /\ z'.row = z.row /\ z'.coeff = z.coeff /\ z'.c_hat = z.c_hat /\ z'.c_s1_hat = z.c_s1_hat
        /\ z'.c_s1_raw = z.c_s1_raw /\ DOMAIN z' = DOMAIN z
        /\ IF z.ctr = L - 1 THEN z'.state = "FWD_C_START" /\ z'.ctr = z.ctr
           ELSE z'.state = "FWD_S1_START" /\ z'.ctr = z.ctr + 1
    BY <1>3, <2>0 DEF z_dut!Low, ZShape
  <2>2. IsUnit(z_fwd') /\ UnitRests(z_fwd')
    BY <1>3, ZUnits DEF ZRuns, ZCalls, ZShape, UnitAfter, IsUnit, UnitRests
  <2>3. /\ DOMAIN z'.s1_hat = Columns
        /\ \A j \in Columns :
             z'.s1_hat[j] = IF j = z.ctr THEN SecretHat("s1", j) ELSE z.s1_hat[j]
    BY <1>3, <2>1 DEF ZShape, ZRuns, ZCalls
  <2>4. ZShape'
    BY <1>a, <2>1, <2>2, <2>3, SizesAre DEF ZShape
  <2>5. ZCalls'
    BY <1>a, <2>1, <2>2 DEF ZCalls
  <2>6. ASSUME NEW j \in Columns, z'.state \in ZFwdS1 => j < z'.ctr
        PROVE  j < z.ctr \/ j = z.ctr
    <3>1. j \in Nat /\ j < L /\ z.ctr \in Nat /\ L \in Nat
      BY SizesAre DEF ZShape
    <3> QED
      BY <2>1, <2>6, <3>1
  <2>7. ZHatS1'
    BY <1>0, <1>3, <2>1, <2>3, <2>6 DEF ZRuns, ZHatS1
  <2>8. ZHatC' /\ ZOperands' /\ ZProductS1' /\ ZRawS1'
    BY <1>0, <1>3, <2>1, NoneBelow DEF ZRuns, ZPassed, ZHatC, ZOperands, ZProductS1, ZRawS1
  <2> QED
    BY <2>1, <2>4, <2>5, <2>7, <2>8 DEF ZRuns
<1>4. CASE z.state = "FWD_C_START"
  <2>0. z' = [z_dut!Low EXCEPT !.fwd_in = z_dut!Zq(reg.c), !.call = "fwd",
                               !.state = "FWD_C_WAIT"]
    BY <1>4
       DEF z_dut!Clock, z_dut!Begin, z_dut!TransformSecret, z_dut!TransformChallenge, z_dut!Scale,
           z_dut!Forward, z_dut!Operands, z_dut!InvertRows, z_dut!Inverse, z_dut!Complete,
           z_dut!Waiting, z_dut!FWD_S1, z_dut!FWD_C, z_dut!MUL, z_dut!INV, z_dut!Transform,
           z_dut!Product
  <2>1. /\ z'.state = "FWD_C_WAIT" /\ ~z'.done /\ z'.call = "fwd" /\ z'.fwd_in = z_dut!Zq(reg.c)
        /\ z'.ctr = z.ctr /\ z'.row = z.row /\ z'.coeff = z.coeff /\ z'.c_hat = z.c_hat
        /\ z'.s1_hat = z.s1_hat /\ z'.c_s1_hat = z.c_s1_hat /\ z'.c_s1_raw = z.c_s1_raw
        /\ DOMAIN z' = DOMAIN z
    BY <1>4, <2>0 DEF z_dut!Low, ZShape
  <2>2. z_dut!Zq(reg.c) = Zq(reg.c)
    BY TermsOfZ
  <2>3. IsUnit(z_fwd') /\ UnitRests(z_fwd')
    BY <1>4, ZUnits DEF ZRuns, ZCalls, ZShape, UnitAfter, IsUnit, UnitRests
  <2>4. ZShape'
    BY <1>a, <2>1, <2>3 DEF ZShape
  <2>5. ZCalls'
    BY <1>a, <2>1, <2>2, <2>3 DEF ZCalls, UnitCalled, UnitRests
  <2>6. ZHatS1' /\ ZHatC' /\ ZOperands' /\ ZProductS1' /\ ZRawS1'
    BY <1>0, <1>4, <2>1 DEF ZRuns, ZPassed, ZHatS1, ZHatC, ZOperands, ZProductS1, ZRawS1
  <2> QED
    BY <2>1, <2>4, <2>5, <2>6 DEF ZRuns
<1>5. CASE z.state = "FWD_C_WAIT"
  <2>0. z' = IF z_fwd.done THEN [z_dut!Low EXCEPT !.state = "FWD_C_STORE"] ELSE z_dut!Low
    BY <1>5
       DEF z_dut!Clock, z_dut!Begin, z_dut!TransformSecret, z_dut!TransformChallenge, z_dut!Scale,
           z_dut!Forward, z_dut!Operands, z_dut!InvertRows, z_dut!Inverse, z_dut!Complete,
           z_dut!Waiting, z_dut!FWD_S1, z_dut!FWD_C, z_dut!MUL, z_dut!INV, z_dut!Transform,
           z_dut!Product
  <2>1. /\ z'.state = IF z_fwd.done THEN "FWD_C_STORE" ELSE "FWD_C_WAIT"
        /\ ~z'.done /\ z'.call = "none" /\ z'.fwd_in = z.fwd_in
        /\ z'.ctr = z.ctr /\ z'.row = z.row /\ z'.coeff = z.coeff /\ z'.c_hat = z.c_hat
        /\ z'.s1_hat = z.s1_hat /\ z'.c_s1_hat = z.c_s1_hat /\ z'.c_s1_raw = z.c_s1_raw
        /\ DOMAIN z' = DOMAIN z
    BY <1>5, <2>0 DEF z_dut!Low, ZShape
  <2>2. /\ UnitCalled(z_fwd, z.call = "fwd", ChallengeHat)
        /\ z_fwd' = UnitAfter(z_fwd, z.call = "fwd", ChallengeHat, go)
    BY <1>5, ZUnits DEF ZRuns, ZCalls, ChallengeHat
  <2>3. /\ IsUnit(z_fwd')
        /\ z_fwd.done => UnitRests(z_fwd') /\ z_fwd'.out = ChallengeHat
        /\ ~z_fwd.done => UnitCalled(z_fwd', FALSE, ChallengeHat)
    BY <2>2 DEF ZShape, UnitAfter, IsUnit, UnitRests, UnitCalled
  <2>4. ZShape'
    BY <1>a, <2>1, <2>3 DEF ZShape
  <2>5. ZCalls'
    BY <1>0, <1>5, <1>a, <2>1, <2>3 DEF ZRuns, ZCalls
  <2>6. ZHatS1' /\ ZHatC' /\ ZOperands' /\ ZProductS1' /\ ZRawS1'
    BY <1>0, <1>5, <2>1 DEF ZRuns, ZPassed, ZHatS1, ZHatC, ZOperands, ZProductS1, ZRawS1
  <2> QED
    BY <2>1, <2>4, <2>5, <2>6 DEF ZRuns
<1>6. CASE z.state = "FWD_C_STORE"
  <2>0. z' = [z_dut!Low EXCEPT !.c_hat = z_fwd.out, !.row = 0, !.coeff = 0, !.state = "MUL_SETUP"]
    BY <1>6
       DEF z_dut!Clock, z_dut!Begin, z_dut!TransformSecret, z_dut!TransformChallenge, z_dut!Scale,
           z_dut!Forward, z_dut!Operands, z_dut!InvertRows, z_dut!Inverse, z_dut!Complete,
           z_dut!Waiting, z_dut!FWD_S1, z_dut!FWD_C, z_dut!MUL, z_dut!INV, z_dut!Transform,
           z_dut!Product
  <2>1. /\ z'.state = "MUL_SETUP" /\ ~z'.done /\ z'.call = "none"
        /\ z'.c_hat = z_fwd.out /\ z'.row = 0 /\ z'.coeff = 0
        /\ z'.ctr = z.ctr /\ z'.s1_hat = z.s1_hat /\ z'.c_s1_hat = z.c_s1_hat
        /\ z'.c_s1_raw = z.c_s1_raw /\ DOMAIN z' = DOMAIN z
    BY <1>6, <2>0 DEF z_dut!Low, ZShape
  <2>2. IsUnit(z_fwd') /\ UnitRests(z_fwd')
    BY <1>6, ZUnits DEF ZRuns, ZCalls, ZShape, UnitAfter, IsUnit, UnitRests
  <2>3. ZShape'
    BY <1>a, <2>1, <2>2, SizesAre DEF ZShape
  <2>4. ZCalls'
    BY <1>a, <2>1, <2>2 DEF ZCalls
  <2>6. ZHatC'
    BY <1>0, <1>6, <2>1 DEF ZRuns, ZCalls, ZHatC
  <2>7. ZHatS1' /\ ZOperands' /\ ZProductS1' /\ ZRawS1'
    BY <1>0, <1>6, <2>1, NoneBelow DEF ZRuns, ZPassed, ZHatS1, ZOperands, ZProductS1, ZRawS1
  <2> QED
    BY <2>1, <2>3, <2>4, <2>6, <2>7 DEF ZRuns
<1> QED
  BY <1>1, <1>2, <1>3, <1>4, <1>5, <1>6

LEMMA ZRunScale ==
  ASSUME ZShape, ZRuns, reg' = reg, in' = in, NEW go \in BOOLEAN, z_dut!Clock(go),
         z.state \in ZMulS1
  PROVE  ZShape' /\ ZRuns'
<1>0. /\ ChallengeHat' = ChallengeHat
      /\ \A name, j : /\ SecretHat(name, j)' = SecretHat(name, j)
                      /\ ProductHat(name, j)' = ProductHat(name, j)
                      /\ ScaledSecret(name, j)' = ScaledSecret(name, j)
  BY SecretsKept
<1>a. /\ UnitRests(z_inv) /\ UnitRests(z_inv') /\ IsUnit(z_inv')
      /\ UnitRests(z_fwd) /\ UnitRests(z_fwd') /\ IsUnit(z_fwd')
  BY ZUnits DEF ZMulS1, ZRuns, ZCalls, ZShape, UnitAfter, IsUnit, UnitRests
<1> USE DEF ZFwdS1, ZFwdC, ZMulS1, ZInvS1
<1>1. CASE z.state = "MUL_SETUP"
  <2>0. z' = [z_dut!Low EXCEPT !.mm_a = z_dut!At(z.s1_hat[z.row], z.coeff),
                               !.mm_b = z_dut!At(z.c_hat, z.coeff),
                               !.state = "MUL_CAPTURE"]
    BY <1>1
       DEF z_dut!Clock, z_dut!Begin, z_dut!TransformSecret, z_dut!TransformChallenge, z_dut!Scale,
           z_dut!Forward, z_dut!Operands, z_dut!InvertRows, z_dut!Inverse, z_dut!Complete,
           z_dut!Waiting, z_dut!FWD_S1, z_dut!FWD_C, z_dut!MUL, z_dut!INV, z_dut!Transform,
           z_dut!Product
  <2>1. /\ z'.state = "MUL_CAPTURE" /\ ~z'.done /\ z'.call = "none"
        /\ z'.mm_a = z_dut!At(z.s1_hat[z.row], z.coeff)
        /\ z'.mm_b = z_dut!At(z.c_hat, z.coeff)
        /\ z'.ctr = z.ctr /\ z'.row = z.row /\ z'.coeff = z.coeff /\ z'.c_hat = z.c_hat
        /\ z'.s1_hat = z.s1_hat /\ z'.c_s1_hat = z.c_s1_hat /\ z'.c_s1_raw = z.c_s1_raw
        /\ DOMAIN z' = DOMAIN z
    BY <1>1, <2>0 DEF z_dut!Low, ZShape
  <2>2. ZShape'
    BY <1>a, <2>1 DEF ZShape
  <2>3. ZCalls'
    BY <1>a, <2>1 DEF ZCalls
  <2>4. z.s1_hat[z.row] = SecretHat("s1", z.row) /\ z.c_hat = ChallengeHat
    BY <1>1 DEF ZShape, ZRuns, ZHatS1, ZHatC
  <2>5. ZOperands'
    BY <1>0, <2>1, <2>4, TermsOfZ DEF ZOperands
  <2>6. ZHatS1' /\ ZHatC' /\ ZProductS1' /\ ZRawS1'
    BY <1>0, <1>1, <2>1 DEF ZRuns, ZPassed, ZHatS1, ZHatC, ZProductS1, ZRawS1
  <2> QED
    BY <2>1, <2>2, <2>3, <2>5, <2>6 DEF ZRuns
<1>2. CASE z.state = "MUL_CAPTURE"
  <2>0. z' = [z_dut!Low EXCEPT !.c_s1_hat[z.row][z.coeff] = z_dut!mm_out, !.state = "MUL_NEXT"]
    BY <1>2
       DEF z_dut!Clock, z_dut!Begin, z_dut!TransformSecret, z_dut!TransformChallenge, z_dut!Scale,
           z_dut!Forward, z_dut!Operands, z_dut!InvertRows, z_dut!Inverse, z_dut!Complete,
           z_dut!Waiting, z_dut!FWD_S1, z_dut!FWD_C, z_dut!MUL, z_dut!INV, z_dut!Transform,
           z_dut!Product
  <2>1. /\ z'.state = "MUL_NEXT" /\ ~z'.done /\ z'.call = "none"
        /\ z'.c_s1_hat = [z.c_s1_hat EXCEPT ![z.row][z.coeff] = z_dut!mm_out]
        /\ z'.ctr = z.ctr /\ z'.row = z.row /\ z'.coeff = z.coeff /\ z'.c_hat = z.c_hat
        /\ z'.s1_hat = z.s1_hat /\ z'.c_s1_raw = z.c_s1_raw /\ DOMAIN z' = DOMAIN z
    BY <1>2, <2>0 DEF z_dut!Low, ZShape
  <2>2. z_dut!mm_out = At(ProductHat("s1", z.row), z.coeff)
    <3>1. /\ z.mm_a = At(SecretHat("s1", z.row), z.coeff)
          /\ z.mm_b = At(ChallengeHat, z.coeff)
      BY <1>2 DEF ZRuns, ZOperands
    <3>2. z_dut!mm_out = Times(z.mm_a, z.mm_b)
      BY TermsOfZ DEF z_dut!mm_out
    <3> QED
      BY <3>1, <3>2 DEF Times, At, ProductHat
  <2>3. /\ DOMAIN z'.c_s1_hat = Columns
        /\ \A r \in Columns : DOMAIN z'.c_s1_hat[r] = Indices
        /\ \A r \in Columns : \A c \in Indices :
             z'.c_s1_hat[r][c] = IF r = z.row /\ c = z.coeff
                                  THEN At(ProductHat("s1", r), c) ELSE z.c_s1_hat[r][c]
    BY <2>1, <2>2 DEF ZShape
  <2>4. ZShape'
    BY <1>a, <2>1, <2>3 DEF ZShape
  <2>5. ZCalls'
    BY <1>a, <2>1 DEF ZCalls
  <2>6. ZProductS1'
    BY <1>0, <1>2, <2>1, <2>3 DEF ZRuns, ZPassed, ZProductS1
  <2>7. ZHatS1' /\ ZHatC' /\ ZOperands' /\ ZRawS1'
    BY <1>0, <1>2, <2>1 DEF ZRuns, ZPassed, ZHatS1, ZHatC, ZOperands, ZRawS1
  <2> QED
    BY <2>1, <2>4, <2>5, <2>6, <2>7 DEF ZRuns
<1>3. CASE z.state = "MUL_NEXT"
  <2>0. z' = IF z.coeff < Coeffs - 1
             THEN [z_dut!Low EXCEPT !.coeff = @ + 1, !.state = "MUL_SETUP"]
             ELSE IF z.row < L - 1
             THEN [z_dut!Low EXCEPT !.row = @ + 1, !.coeff = 0, !.state = "MUL_SETUP"]
             ELSE [z_dut!Low EXCEPT !.row = 0, !.state = "INV_START"]
    BY <1>3
       DEF z_dut!Clock, z_dut!Begin, z_dut!TransformSecret, z_dut!TransformChallenge, z_dut!Scale,
           z_dut!Forward, z_dut!Operands, z_dut!InvertRows, z_dut!Inverse, z_dut!Complete,
           z_dut!Waiting, z_dut!FWD_S1, z_dut!FWD_C, z_dut!MUL, z_dut!INV, z_dut!Transform,
           z_dut!Product
  <2>1. /\ ~z'.done /\ z'.call = "none"
        /\ z'.ctr = z.ctr /\ z'.c_hat = z.c_hat /\ z'.s1_hat = z.s1_hat
        /\ z'.c_s1_hat = z.c_s1_hat /\ z'.c_s1_raw = z.c_s1_raw /\ DOMAIN z' = DOMAIN z
        /\ \/ /\ z.coeff < Coeffs - 1 /\ z'.state = "MUL_SETUP"
              /\ z'.row = z.row /\ z'.coeff = z.coeff + 1
           \/ /\ ~(z.coeff < Coeffs - 1) /\ z.row < L - 1 /\ z'.state = "MUL_SETUP"
              /\ z'.row = z.row + 1 /\ z'.coeff = 0
           \/ /\ ~(z.coeff < Coeffs - 1) /\ ~(z.row < L - 1)
              /\ z'.state = "INV_START" /\ z'.row = 0 /\ z'.coeff = z.coeff
    BY <1>3, <2>0 DEF z_dut!Low, ZShape
  <2>2. /\ z.row \in Nat /\ z.row < L /\ L \in Nat
        /\ z.coeff \in Nat /\ z.coeff < Coeffs /\ Coeffs \in Nat
    BY SizesAre DEF ZShape
  <2>3. ZShape'
    BY <1>a, <2>1, <2>2, SizesAre DEF ZShape
  <2>4. ZCalls'
    BY <1>a, <2>1 DEF ZCalls
  <2>5. ASSUME NEW r \in Columns, NEW c \in Indices, z'.state \in ZMulS1 => ZPassed(r, c)'
        PROVE  ZPassed(r, c)
    <3>1. r \in Nat /\ r < L /\ c \in Nat /\ c < Coeffs
      BY SizesAre
    <3> QED
      BY <1>3, <2>1, <2>2, <2>5, <3>1 DEF ZPassed
  <2>6. ZProductS1'
    BY <1>0, <1>3, <2>1, <2>5 DEF ZRuns, ZProductS1
  <2>8. ZHatS1' /\ ZHatC' /\ ZOperands' /\ ZRawS1'
    BY <1>0, <1>3, <2>1, NoneBelow DEF ZRuns, ZPassed, ZHatS1, ZHatC, ZOperands, ZRawS1
  <2> QED
    BY <2>1, <2>3, <2>4, <2>6, <2>8 DEF ZRuns
<1> QED
  BY <1>1, <1>2, <1>3

LEMMA ZRunInvert ==
  ASSUME ZShape, ZRuns, reg' = reg, in' = in, NEW go \in BOOLEAN, z_dut!Clock(go),
         z.state \in ZInvS1
  PROVE  ZShape' /\ ZRuns'
<1>0. /\ ChallengeHat' = ChallengeHat
      /\ \A name, j : /\ SecretHat(name, j)' = SecretHat(name, j)
                      /\ ProductHat(name, j)' = ProductHat(name, j)
                      /\ ScaledSecret(name, j)' = ScaledSecret(name, j)
  BY SecretsKept
<1>a. UnitRests(z_fwd) /\ UnitRests(z_fwd') /\ IsUnit(z_fwd')
  BY ZUnits DEF ZInvS1, ZRuns, ZCalls, ZShape, UnitAfter, IsUnit, UnitRests
<1> USE DEF ZFwdS1, ZFwdC, ZMulS1, ZInvS1
<1>1. CASE z.state = "INV_START"
  <2>0. z' = [z_dut!Low EXCEPT !.inv_in = z_dut!Gather(z.c_s1_hat[z.row]), !.call = "inv",
                               !.state = "INV_WAIT"]
    BY <1>1
       DEF z_dut!Clock, z_dut!Begin, z_dut!TransformSecret, z_dut!TransformChallenge, z_dut!Scale,
           z_dut!Forward, z_dut!Operands, z_dut!InvertRows, z_dut!Inverse, z_dut!Complete,
           z_dut!Waiting, z_dut!FWD_S1, z_dut!FWD_C, z_dut!MUL, z_dut!INV, z_dut!Transform,
           z_dut!Product
  <2>1. /\ z'.state = "INV_WAIT" /\ ~z'.done /\ z'.call = "inv"
        /\ z'.inv_in = z_dut!Gather(z.c_s1_hat[z.row])
        /\ z'.ctr = z.ctr /\ z'.row = z.row /\ z'.coeff = z.coeff /\ z'.c_hat = z.c_hat
        /\ z'.s1_hat = z.s1_hat /\ z'.c_s1_hat = z.c_s1_hat /\ z'.c_s1_raw = z.c_s1_raw
        /\ DOMAIN z' = DOMAIN z
    BY <1>1, <2>0 DEF z_dut!Low, ZShape
  <2>2. z'.inv_in = ProductHat("s1", z.row)
    <3>1. \A c \in Indices : z.c_s1_hat[z.row][c] = At(ProductHat("s1", z.row), c)
      BY <1>1 DEF ZShape, ZRuns, ZProductS1
    <3>2. Gather(z.c_s1_hat[z.row]) = ProductHat("s1", z.row)
      BY <3>1, GatherIs
    <3> QED
      BY <2>1, <3>2, TermsOfZ
  <2>3. IsUnit(z_inv') /\ UnitRests(z_inv')
    BY <1>1, ZUnits DEF ZRuns, ZCalls, ZShape, UnitAfter, IsUnit, UnitRests
  <2>4. ZShape'
    BY <1>a, <2>1, <2>3 DEF ZShape
  <2>5. ZCalls'
    BY <1>0, <1>a, <2>1, <2>2, <2>3 DEF ZCalls, UnitCalled, UnitRests
  <2>6. ZHatS1' /\ ZHatC' /\ ZOperands' /\ ZProductS1' /\ ZRawS1'
    BY <1>0, <1>1, <2>1 DEF ZRuns, ZPassed, ZHatS1, ZHatC, ZOperands, ZProductS1, ZRawS1
  <2> QED
    BY <2>1, <2>4, <2>5, <2>6 DEF ZRuns
<1>2. CASE z.state = "INV_WAIT"
  <2>0. z' = IF z_inv.done THEN [z_dut!Low EXCEPT !.state = "INV_STORE"] ELSE z_dut!Low
    BY <1>2
       DEF z_dut!Clock, z_dut!Begin, z_dut!TransformSecret, z_dut!TransformChallenge, z_dut!Scale,
           z_dut!Forward, z_dut!Operands, z_dut!InvertRows, z_dut!Inverse, z_dut!Complete,
           z_dut!Waiting, z_dut!FWD_S1, z_dut!FWD_C, z_dut!MUL, z_dut!INV, z_dut!Transform,
           z_dut!Product
  <2>1. /\ z'.state = IF z_inv.done THEN "INV_STORE" ELSE "INV_WAIT"
        /\ ~z'.done /\ z'.call = "none" /\ z'.inv_in = z.inv_in
        /\ z'.ctr = z.ctr /\ z'.row = z.row /\ z'.coeff = z.coeff /\ z'.c_hat = z.c_hat
        /\ z'.s1_hat = z.s1_hat /\ z'.c_s1_hat = z.c_s1_hat /\ z'.c_s1_raw = z.c_s1_raw
        /\ DOMAIN z' = DOMAIN z
    BY <1>2, <2>0 DEF z_dut!Low, ZShape
  <2>2. /\ UnitCalled(z_inv, z.call = "inv", ScaledSecret("s1", z.row))
        /\ z_inv' = UnitAfter(z_inv, z.call = "inv", ScaledSecret("s1", z.row), go)
    BY <1>2, ZUnits DEF ZRuns, ZCalls, ScaledSecret
  <2>3. /\ IsUnit(z_inv')
        /\ z_inv.done => UnitRests(z_inv') /\ z_inv'.out = ScaledSecret("s1", z.row)
        /\ ~z_inv.done => UnitCalled(z_inv', FALSE, ScaledSecret("s1", z.row))
    BY <2>2 DEF ZShape, UnitAfter, IsUnit, UnitRests, UnitCalled
  <2>4. ZShape'
    BY <1>a, <2>1, <2>3 DEF ZShape
  <2>5. ZCalls'
    BY <1>0, <1>2, <1>a, <2>1, <2>3 DEF ZRuns, ZCalls
  <2>6. ZHatS1' /\ ZHatC' /\ ZOperands' /\ ZProductS1' /\ ZRawS1'
    BY <1>0, <1>2, <2>1 DEF ZRuns, ZPassed, ZHatS1, ZHatC, ZOperands, ZProductS1, ZRawS1
  <2> QED
    BY <2>1, <2>4, <2>5, <2>6 DEF ZRuns
<1>3. CASE z.state = "INV_STORE"
  <2>0. z' = IF z.row = L - 1
             THEN [z_dut!Low EXCEPT !.c_s1_raw[z.row] = z_inv.out, !.state = "DONE"]
             ELSE [z_dut!Low EXCEPT !.c_s1_raw[z.row] = z_inv.out, !.row = @ + 1,
                                    !.state = "INV_START"]
    BY <1>3
       DEF z_dut!Clock, z_dut!Begin, z_dut!TransformSecret, z_dut!TransformChallenge, z_dut!Scale,
           z_dut!Forward, z_dut!Operands, z_dut!InvertRows, z_dut!Inverse, z_dut!Complete,
           z_dut!Waiting, z_dut!FWD_S1, z_dut!FWD_C, z_dut!MUL, z_dut!INV, z_dut!Transform,
           z_dut!Product
  <2>1. /\ ~z'.done /\ z'.call = "none"
        /\ z'.c_s1_raw = [z.c_s1_raw EXCEPT ![z.row] = z_inv.out]
        /\ z'.ctr = z.ctr /\ z'.coeff = z.coeff /\ z'.c_hat = z.c_hat /\ z'.s1_hat = z.s1_hat
        /\ z'.c_s1_hat = z.c_s1_hat /\ DOMAIN z' = DOMAIN z
        /\ IF z.row = L - 1 THEN z'.state = "DONE" /\ z'.row = z.row
           ELSE z'.state = "INV_START" /\ z'.row = z.row + 1
    BY <1>3, <2>0 DEF z_dut!Low, ZShape
  <2>2. IsUnit(z_inv') /\ UnitRests(z_inv')
    BY <1>3, ZUnits DEF ZRuns, ZCalls, ZShape, UnitAfter, IsUnit, UnitRests
  <2>3. /\ DOMAIN z'.c_s1_raw = Columns
        /\ \A r \in Columns :
             z'.c_s1_raw[r] = IF r = z.row THEN ScaledSecret("s1", r) ELSE z.c_s1_raw[r]
    BY <1>3, <2>1 DEF ZShape, ZRuns, ZCalls
  <2>4. ZShape'
    BY <1>a, <2>1, <2>2, <2>3, SizesAre DEF ZShape
  <2>5. ZCalls'
    BY <1>a, <2>1, <2>2 DEF ZCalls
  <2>6. ASSUME NEW r \in Columns, z'.state \in ZInvS1 => r < z'.row
        PROVE  r < z.row \/ r = z.row
    <3>1. r \in Nat /\ r < L /\ z.row \in Nat /\ L \in Nat
      BY SizesAre DEF ZShape
    <3> QED
      BY <2>1, <2>6, <3>1
  <2>7. ZRawS1'
    BY <1>0, <1>3, <2>1, <2>3, <2>6 DEF ZRuns, ZRawS1
  <2>9. ZHatS1' /\ ZHatC' /\ ZOperands' /\ ZProductS1'
    BY <1>0, <1>3, <2>1, NoneBelow DEF ZRuns, ZPassed, ZHatS1, ZHatC, ZOperands, ZProductS1
  <2> QED
    BY <2>1, <2>4, <2>5, <2>7, <2>9 DEF ZRuns
<1> QED
  BY <1>1, <1>2, <1>3

LEMMA ZRun ==
  ASSUME ZShape, ZRuns, reg' = reg, in' = in, NEW go \in BOOLEAN, z_dut!Clock(go)
  PROVE  ZShape' /\ (ZRuns' \/ ZAnswers')
<1>1. CASE z.state = "DONE"
  <2>0. z' = [z_dut!Low EXCEPT !.state = "IDLE", !.done = TRUE]
    BY <1>1
       DEF z_dut!Clock, z_dut!Begin, z_dut!TransformSecret, z_dut!TransformChallenge, z_dut!Scale,
           z_dut!Forward, z_dut!Operands, z_dut!InvertRows, z_dut!Inverse, z_dut!Complete,
           z_dut!Waiting, z_dut!FWD_S1, z_dut!FWD_C, z_dut!MUL, z_dut!INV, z_dut!Transform,
           z_dut!Product
  <2>1. /\ z'.state = "IDLE" /\ z'.done /\ z'.call = "none"
        /\ z'.ctr = z.ctr /\ z'.row = z.row /\ z'.coeff = z.coeff /\ z'.c_hat = z.c_hat
        /\ z'.s1_hat = z.s1_hat /\ z'.c_s1_hat = z.c_s1_hat /\ z'.c_s1_raw = z.c_s1_raw
        /\ DOMAIN z' = DOMAIN z
    BY <1>1, <2>0 DEF z_dut!Low, ZShape
  <2>2. IsUnit(z_fwd') /\ IsUnit(z_inv') /\ ZUnitsRest'
    BY <1>1, ZUnits DEF ZRuns, ZCalls, ZShape, ZUnitsRest, UnitAfter, IsUnit, UnitRests
  <2>3. \A r \in Columns : z.c_s1_raw[r] = ScaledSecret("s1", r)
    BY <1>1 DEF ZRuns, ZRawS1
  <2> QED
    BY <2>1, <2>2, <2>3, SecretsKept DEF ZShape, ZAnswers
<1> QED
  BY <1>1, ZRunTransform, ZRunScale, ZRunInvert DEF ZRuns

-----------------------------------------------------------------------------
(* pqc_dilithium_sign_hint_core.sv.                                        *)

LEMMA TermsOfH ==
  /\ h_dut!Rows = Rows /\ h_dut!Columns = Columns /\ h_dut!Indices = Indices
  /\ \A f : h_dut!NTT(f) = NTT(f) /\ h_dut!InverseNTT(f) = InverseNTT(f) /\ h_dut!Zq(f) = Zq(f)
  /\ \A f, i : h_dut!At(f, i) = At(f, i)
  /\ \A a, b : h_dut!Times(a, b) = Times(a, b)
  /\ \A p : h_dut!Gather(p) = Gather(p)
  /\ \A u, r, c, s : h_dut!UnitAfter(u, c, r, s) = UnitAfter(u, c, r, s)
  /\ \A u : h_dut!UnitReset(u) = UnitReset(u)
  /\ h_dut!IdleUnit = IdleUnit
<1>1. h_dut!Rows = Rows /\ h_dut!Columns = Columns /\ h_dut!Indices = Indices
  BY DEF h_dut!Rows, Rows, h_dut!Columns, Columns, h_dut!Indices, Indices
<1>2. \A f : h_dut!NTT(f) = NTT(f) /\ h_dut!InverseNTT(f) = InverseNTT(f) /\ h_dut!Zq(f) = Zq(f)
  BY DEF h_dut!NTT, NTT, h_dut!InverseNTT, InverseNTT, h_dut!Zq, Zq
<1>3. \A f, i : h_dut!At(f, i) = At(f, i)
  BY DEF h_dut!At, At
<1>4. \A a, b : h_dut!Times(a, b) = Times(a, b)
  BY <1>3, Zenon DEF h_dut!Times, Times, h_dut!Multiply, Multiply
<1>5. \A p : h_dut!Gather(p) = Gather(p)
  BY <1>1, <1>3, Zenon DEF h_dut!Gather, Gather
<1>6. /\ \A u, r, c, s : h_dut!UnitAfter(u, c, r, s) = UnitAfter(u, c, r, s)
      /\ \A u : h_dut!UnitReset(u) = UnitReset(u)
      /\ h_dut!IdleUnit = IdleUnit
  BY Zenon DEF h_dut!UnitAfter, UnitAfter, h_dut!UnitReset, UnitReset, h_dut!IdleUnit, IdleUnit
<1> QED
  BY <1>1, <1>2, <1>3, <1>4, <1>5, <1>6

HShape ==
  /\ DOMAIN h = {"state", "done", "call", "fwd_in", "inv_in", "mm_a", "mm_b", "ctr", "row",
                  "coeff", "c_hat", "s2_hat", "t0_hat", "c_s2_hat", "c_t0_hat", "c_s2_raw",
                  "c_t0_raw"}
  /\ h.ctr \in Rows /\ h.row \in Rows /\ h.coeff \in Indices
  /\ DOMAIN h.s2_hat = Rows /\ DOMAIN h.t0_hat = Rows /\ DOMAIN h.c_s2_hat = Rows
  /\ DOMAIN h.c_t0_hat = Rows /\ DOMAIN h.c_s2_raw = Rows /\ DOMAIN h.c_t0_raw = Rows
  /\ \A r \in Rows : DOMAIN h.c_s2_hat[r] = Indices /\ DOMAIN h.c_t0_hat[r] = Indices
  /\ IsUnit(h_fwd) /\ IsUnit(h_inv)

HUnitsRest == UnitRests(h_fwd) /\ UnitRests(h_inv)
HRests == h.state = "IDLE" /\ ~h.done /\ h.call = "none" /\ HUnitsRest

\* The loops of a run.
HFwdS2 == {"FWD_S2_START", "FWD_S2_WAIT", "FWD_S2_STORE"}
HFwdT0 == {"FWD_T0_START", "FWD_T0_WAIT", "FWD_T0_STORE"}
HFwdC == {"FWD_C_START", "FWD_C_WAIT", "FWD_C_STORE"}
HMulS2 == {"MUL_S2_SETUP", "MUL_S2_CAPTURE", "MUL_S2_NEXT"}
HMulT0 == {"MUL_T0_SETUP", "MUL_T0_CAPTURE", "MUL_T0_NEXT"}
HInvS2 == {"INV_S2_START", "INV_S2_WAIT", "INV_S2_STORE"}
HInvT0 == {"INV_T0_START", "INV_T0_WAIT", "INV_T0_STORE"}

\* The transforms of the core, while one of them is called.
HCalls ==
  /\ h.state = "FWD_S2_WAIT" =>
       /\ UnitCalled(h_fwd, h.call = "fwd", SecretHat("s2", h.ctr)) /\ h.call # "inv"
       /\ h.fwd_in = Poly("s2", in, h.ctr)
  /\ h.state = "FWD_S2_STORE" => h_fwd.out = SecretHat("s2", h.ctr)
  /\ h.state = "FWD_T0_WAIT" =>
       /\ UnitCalled(h_fwd, h.call = "fwd", SecretHat("t0", h.ctr)) /\ h.call # "inv"
       /\ h.fwd_in = Poly("t0", in, h.ctr)
  /\ h.state = "FWD_T0_STORE" => h_fwd.out = SecretHat("t0", h.ctr)
  /\ h.state = "FWD_C_WAIT" =>
       /\ UnitCalled(h_fwd, h.call = "fwd", ChallengeHat) /\ h.call # "inv"
       /\ h.fwd_in = Zq(reg.c)
  /\ h.state = "FWD_C_STORE" => h_fwd.out = ChallengeHat
  /\ h.state = "INV_S2_WAIT" =>
       /\ UnitCalled(h_inv, h.call = "inv", ScaledSecret("s2", h.row)) /\ h.call # "fwd"
       /\ h.inv_in = ProductHat("s2", h.row)
  /\ h.state = "INV_S2_STORE" => h_inv.out = ScaledSecret("s2", h.row)
  /\ h.state = "INV_T0_WAIT" =>
       /\ UnitCalled(h_inv, h.call = "inv", ScaledSecret("t0", h.row)) /\ h.call # "fwd"
       /\ h.inv_in = ProductHat("t0", h.row)
  /\ h.state = "INV_T0_STORE" => h_inv.out = ScaledSecret("t0", h.row)
  /\ h.state \notin {"FWD_S2_WAIT", "FWD_T0_WAIT", "FWD_C_WAIT"} => UnitRests(h_fwd)
  /\ h.state \notin {"INV_S2_WAIT", "INV_T0_WAIT"} => UnitRests(h_inv)
  /\ h.state \notin {"FWD_S2_WAIT", "FWD_T0_WAIT", "FWD_C_WAIT", "INV_S2_WAIT",
                      "INV_T0_WAIT"} =>
       h.call = "none"

\* How far the loops are.
HHatS2 ==
  \A j \in Rows :
    (h.state \in HFwdS2 => j < h.ctr) => h.s2_hat[j] = SecretHat("s2", j)
HHatT0 ==
  \A j \in Rows :
    h.state \notin HFwdS2 /\ (h.state \in HFwdT0 => j < h.ctr) => h.t0_hat[j] = SecretHat("t0", j)
HHatC == h.state \notin HFwdS2 \cup HFwdT0 \cup HFwdC => h.c_hat = ChallengeHat
HOperands ==
  /\ h.state = "MUL_S2_CAPTURE" => /\ h.mm_a = At(SecretHat("s2", h.row), h.coeff)
                                   /\ h.mm_b = At(ChallengeHat, h.coeff)
  /\ h.state = "MUL_T0_CAPTURE" => /\ h.mm_a = At(SecretHat("t0", h.row), h.coeff)
                                   /\ h.mm_b = At(ChallengeHat, h.coeff)
\* The coefficient c of row r is computed.
HPassed(r, c) ==
  \/ r < h.row
  \/ r = h.row /\ (c < h.coeff \/ (c = h.coeff /\ h.state \in {"MUL_S2_NEXT", "MUL_T0_NEXT"}))
HProductS2 ==
  \A r \in Rows : \A c \in Indices :
    h.state \in HMulT0 \cup HInvS2 \cup HInvT0 \cup {"DONE"}
      \/ (h.state \in HMulS2 /\ HPassed(r, c))
      => h.c_s2_hat[r][c] = At(ProductHat("s2", r), c)
HProductT0 ==
  \A r \in Rows : \A c \in Indices :
    h.state \in HInvS2 \cup HInvT0 \cup {"DONE"} \/ (h.state \in HMulT0 /\ HPassed(r, c))
      => h.c_t0_hat[r][c] = At(ProductHat("t0", r), c)
HRawS2 ==
  \A r \in Rows :
    h.state \in HInvT0 \cup {"DONE"} \/ (h.state \in HInvS2 /\ r < h.row)
      => h.c_s2_raw[r] = ScaledSecret("s2", r)
HRawT0 ==
  \A r \in Rows :
    h.state = "DONE" \/ (h.state \in HInvT0 /\ r < h.row)
      => h.c_t0_raw[r] = ScaledSecret("t0", r)

HRuns ==
  /\ h.state \in HFwdS2 \cup HFwdT0 \cup HFwdC \cup HMulS2
       \cup HMulT0 \cup HInvS2 \cup HInvT0 \cup {"DONE"}
  /\ ~h.done
  /\ HCalls /\ HHatS2 /\ HHatT0 /\ HHatC /\ HOperands /\ HProductS2 /\ HProductT0 /\ HRawS2
  /\ HRawT0
HAnswers ==
  /\ h.state = "IDLE" /\ h.done /\ h.call = "none" /\ HUnitsRest
  /\ \A r \in Rows : h.c_s2_raw[r] = ScaledSecret("s2", r)
  /\ \A r \in Rows : h.c_t0_raw[r] = ScaledSecret("t0", r)

LEMMA HUnits ==
  ASSUME NEW go \in BOOLEAN, h_dut!Clock(go)
  PROVE  /\ h_fwd' = UnitAfter(h_fwd, h.call = "fwd", NTT(h.fwd_in), go)
         /\ h_inv' = UnitAfter(h_inv, h.call = "inv", InverseNTT(h.inv_in), go)
  BY TermsOfH DEF h_dut!Clock, h_dut!UnitsEdge

LEMMA HIdle ==
  ASSUME HShape, HRests \/ HAnswers, NEW go \in BOOLEAN, h_dut!Clock(go)
  PROVE  /\ HShape'
         /\ call # "h" => HRests'
         /\ call = "h" => HRuns'
<1>1. h.state = "IDLE" /\ h.call = "none" /\ HUnitsRest
  BY DEF HRests, HAnswers
<1>2. IsUnit(h_fwd') /\ IsUnit(h_inv') /\ HUnitsRest'
  BY <1>1, HUnits DEF HShape, HUnitsRest, UnitAfter, IsUnit, UnitRests
<1>3. \/ call # "h" /\ h' = h_dut!Low
      \/ call = "h" /\ h' = [h_dut!Low EXCEPT !.state = "FWD_S2_START", !.ctr = 0]
  BY <1>1
     DEF h_dut!Clock, h_dut!Begin, h_dut!TransformSecret, h_dut!TransformLowBits,
         h_dut!TransformChallenge, h_dut!ScaleSecret, h_dut!ScaleLowBits, h_dut!NextProduct,
         h_dut!Forward, h_dut!Operands, h_dut!InvertSecret, h_dut!InvertLowBits, h_dut!Inverse,
         h_dut!Complete, h_dut!Waiting, h_dut!FWD_S2, h_dut!FWD_T0, h_dut!FWD_C, h_dut!MUL_S2,
         h_dut!MUL_T0, h_dut!INV_S2, h_dut!INV_T0, h_dut!Transform, h_dut!Product
<1>4. CASE call # "h"
  BY <1>1, <1>2, <1>3, <1>4 DEF h_dut!Low, HShape, HRests
<1>5. CASE call = "h"
  <2>1. /\ h'.state = "FWD_S2_START" /\ ~h'.done /\ h'.call = "none" /\ h'.ctr = 0
        /\ h'.row = h.row /\ h'.coeff = h.coeff /\ h'.c_hat = h.c_hat /\ h'.s2_hat = h.s2_hat
        /\ h'.t0_hat = h.t0_hat /\ h'.c_s2_hat = h.c_s2_hat /\ h'.c_t0_hat = h.c_t0_hat
        /\ h'.c_s2_raw = h.c_s2_raw /\ h'.c_t0_raw = h.c_t0_raw /\ DOMAIN h' = DOMAIN h
    BY <1>3, <1>5 DEF h_dut!Low, HShape
  <2>2. HShape'
    BY <1>2, <2>1, SizesAre DEF HShape
  <2>4. HCalls'
    BY <1>2, <2>1 DEF HCalls, HUnitsRest
  <2> QED
    BY <1>5, <2>1, <2>2, <2>4, NoneBelow
       DEF HRuns, HHatS2, HHatT0, HHatC, HOperands, HProductS2, HProductT0, HRawS2, HRawT0,
           HFwdS2, HFwdT0, HFwdC, HMulS2, HMulT0, HInvS2, HInvT0
<1> QED
  BY <1>4, <1>5

LEMMA HStops ==
  ASSUME HShape, h_dut!Reset
  PROVE  HShape' /\ HRests'
<1>1. h' = [h_dut!Low EXCEPT
              !.state = "IDLE", !.c_hat = h_dut!Zeros,
              !.s2_hat = h_dut!Polys(h_dut!Zeros), !.t0_hat = h_dut!Polys(h_dut!Zeros),
              !.c_s2_hat = h_dut!Polys([c \in h_dut!Indices |-> h_dut!At(h_dut!Zeros, c)]),
              !.c_t0_hat = h_dut!Polys([c \in h_dut!Indices |-> h_dut!At(h_dut!Zeros, c)]),
              !.c_s2_raw = h_dut!Polys(h_dut!Zeros), !.c_t0_raw = h_dut!Polys(h_dut!Zeros)]
  BY DEF h_dut!Reset
<1>2. /\ h'.state = "IDLE" /\ ~h'.done /\ h'.call = "none" /\ DOMAIN h' = DOMAIN h
      /\ h'.ctr = h.ctr /\ h'.row = h.row /\ h'.coeff = h.coeff
  BY <1>1 DEF h_dut!Low, HShape
<1>3. /\ h'.s2_hat = h_dut!Polys(h_dut!Zeros) /\ h'.t0_hat = h_dut!Polys(h_dut!Zeros)
      /\ h'.c_s2_raw = h_dut!Polys(h_dut!Zeros) /\ h'.c_t0_raw = h_dut!Polys(h_dut!Zeros)
  BY <1>1 DEF h_dut!Low, HShape
<1>4. /\ h'.c_s2_hat = h_dut!Polys([c \in h_dut!Indices |-> h_dut!At(h_dut!Zeros, c)])
      /\ h'.c_t0_hat = h_dut!Polys([c \in h_dut!Indices |-> h_dut!At(h_dut!Zeros, c)])
  BY <1>1 DEF h_dut!Low, HShape
<1>5. /\ DOMAIN h'.s2_hat = Rows /\ DOMAIN h'.t0_hat = Rows
      /\ DOMAIN h'.c_s2_raw = Rows /\ DOMAIN h'.c_t0_raw = Rows
  BY <1>3, TermsOfH DEF h_dut!Polys
<1>6. /\ DOMAIN h'.c_s2_hat = Rows /\ \A r \in Rows : DOMAIN h'.c_s2_hat[r] = Indices
      /\ DOMAIN h'.c_t0_hat = Rows /\ \A r \in Rows : DOMAIN h'.c_t0_hat[r] = Indices
  BY <1>4, TermsOfH DEF h_dut!Polys
<1>7. IsUnit(h_fwd') /\ IsUnit(h_inv') /\ HUnitsRest'
  BY TermsOfH, UnitStops DEF HShape, HUnitsRest, h_dut!Reset, h_dut!UnitsReset
<1> QED
  BY <1>2, <1>5, <1>6, <1>7 DEF HShape, HRests

LEMMA HStarts ==
  ASSUME h_dut!Init
  PROVE  HShape /\ HRests
<1>1. /\ DOMAIN h = {"state", "done", "call", "fwd_in", "inv_in", "mm_a", "mm_b", "ctr", "row",
                      "coeff", "c_hat", "s2_hat", "t0_hat", "c_s2_hat", "c_t0_hat", "c_s2_raw",
                      "c_t0_raw"}
      /\ h.ctr = 0 /\ h.row = 0 /\ h.coeff = 0
      /\ h.s2_hat = h_dut!Polys(Undefined) /\ h.t0_hat = h_dut!Polys(Undefined)
      /\ h.c_s2_hat = h_dut!Polys(h_dut!Blank) /\ h.c_t0_hat = h_dut!Polys(h_dut!Blank)
      /\ h.c_s2_raw = h_dut!Polys(Undefined) /\ h.c_t0_raw = h_dut!Polys(Undefined)
      /\ h.state = "IDLE" /\ ~h.done /\ h.call = "none"
  BY TermsOfH DEF h_dut!Init
<1>2. DOMAIN h_dut!Blank = Indices
  BY TermsOfH DEF h_dut!Blank
<1>3. h_fwd = IdleUnit /\ h_inv = IdleUnit
  BY TermsOfH DEF h_dut!Init
<1> QED
  BY <1>1, <1>2, <1>3, UnitIdles, SizesAre, TermsOfH DEF HShape, HRests, HUnitsRest, h_dut!Polys

LEMMA HRunTransform ==
  ASSUME HShape, HRuns, reg' = reg, in' = in, NEW go \in BOOLEAN, h_dut!Clock(go),
         h.state \in HFwdS2 \cup HFwdT0 \cup HFwdC
  PROVE  HShape' /\ HRuns'
<1>0. /\ ChallengeHat' = ChallengeHat
      /\ \A name, j : /\ SecretHat(name, j)' = SecretHat(name, j)
                      /\ ProductHat(name, j)' = ProductHat(name, j)
                      /\ ScaledSecret(name, j)' = ScaledSecret(name, j)
  BY SecretsKept
<1>a. UnitRests(h_inv) /\ UnitRests(h_inv') /\ IsUnit(h_inv')
  BY HUnits DEF HFwdS2, HFwdT0, HFwdC, HRuns, HCalls, HShape, UnitAfter, IsUnit, UnitRests
<1> USE DEF HFwdS2, HFwdT0, HFwdC, HMulS2, HMulT0, HInvS2, HInvT0
<1>1. CASE h.state = "FWD_S2_START"
  <2>0. h' = [h_dut!Low EXCEPT !.fwd_in = Secret("s2", Rows)[h.ctr], !.call = "fwd",
                               !.state = "FWD_S2_WAIT"]
    BY <1>1
       DEF h_dut!Clock, h_dut!Begin, h_dut!TransformSecret, h_dut!TransformLowBits,
           h_dut!TransformChallenge, h_dut!ScaleSecret, h_dut!ScaleLowBits, h_dut!NextProduct,
           h_dut!Forward, h_dut!Operands, h_dut!InvertSecret, h_dut!InvertLowBits, h_dut!Inverse,
           h_dut!Complete, h_dut!Waiting, h_dut!FWD_S2, h_dut!FWD_T0, h_dut!FWD_C, h_dut!MUL_S2,
           h_dut!MUL_T0, h_dut!INV_S2, h_dut!INV_T0, h_dut!Transform, h_dut!Product
  <2>1. /\ h'.state = "FWD_S2_WAIT" /\ ~h'.done /\ h'.call = "fwd"
        /\ h'.fwd_in = Secret("s2", Rows)[h.ctr]
        /\ h'.ctr = h.ctr /\ h'.row = h.row /\ h'.coeff = h.coeff /\ h'.c_hat = h.c_hat
        /\ h'.s2_hat = h.s2_hat /\ h'.t0_hat = h.t0_hat /\ h'.c_s2_hat = h.c_s2_hat
        /\ h'.c_t0_hat = h.c_t0_hat /\ h'.c_s2_raw = h.c_s2_raw /\ h'.c_t0_raw = h.c_t0_raw
        /\ DOMAIN h' = DOMAIN h
    BY <1>1, <2>0 DEF h_dut!Low, HShape
  <2>2. Secret("s2", Rows)[h.ctr] = Poly("s2", in, h.ctr)
    BY DEF Secret, HShape
  <2>3. IsUnit(h_fwd') /\ UnitRests(h_fwd')
    BY <1>1, HUnits DEF HRuns, HCalls, HShape, UnitAfter, IsUnit, UnitRests
  <2>4. HShape'
    BY <1>a, <2>1, <2>3 DEF HShape
  <2>5. HCalls'
    BY <1>a, <2>1, <2>2, <2>3 DEF HCalls, UnitCalled, UnitRests
  <2>6. /\ HHatS2' /\ HHatT0' /\ HHatC' /\ HOperands' /\ HProductS2'
        /\ HProductT0' /\ HRawS2' /\ HRawT0'
    BY <1>0, <1>1, <2>1
       DEF HRuns, HPassed, HHatS2, HHatT0, HHatC, HOperands, HProductS2, HProductT0, HRawS2,
           HRawT0
  <2> QED
    BY <2>1, <2>4, <2>5, <2>6 DEF HRuns
<1>2. CASE h.state = "FWD_S2_WAIT"
  <2>0. h' = IF h_fwd.done THEN [h_dut!Low EXCEPT !.state = "FWD_S2_STORE"] ELSE h_dut!Low
    BY <1>2
       DEF h_dut!Clock, h_dut!Begin, h_dut!TransformSecret, h_dut!TransformLowBits,
           h_dut!TransformChallenge, h_dut!ScaleSecret, h_dut!ScaleLowBits, h_dut!NextProduct,
           h_dut!Forward, h_dut!Operands, h_dut!InvertSecret, h_dut!InvertLowBits, h_dut!Inverse,
           h_dut!Complete, h_dut!Waiting, h_dut!FWD_S2, h_dut!FWD_T0, h_dut!FWD_C, h_dut!MUL_S2,
           h_dut!MUL_T0, h_dut!INV_S2, h_dut!INV_T0, h_dut!Transform, h_dut!Product
  <2>1. /\ h'.state = IF h_fwd.done THEN "FWD_S2_STORE" ELSE "FWD_S2_WAIT"
        /\ ~h'.done /\ h'.call = "none" /\ h'.fwd_in = h.fwd_in
        /\ h'.ctr = h.ctr /\ h'.row = h.row /\ h'.coeff = h.coeff /\ h'.c_hat = h.c_hat
        /\ h'.s2_hat = h.s2_hat /\ h'.t0_hat = h.t0_hat /\ h'.c_s2_hat = h.c_s2_hat
        /\ h'.c_t0_hat = h.c_t0_hat /\ h'.c_s2_raw = h.c_s2_raw /\ h'.c_t0_raw = h.c_t0_raw
        /\ DOMAIN h' = DOMAIN h
    BY <1>2, <2>0 DEF h_dut!Low, HShape
  <2>2. /\ UnitCalled(h_fwd, h.call = "fwd", SecretHat("s2", h.ctr))
        /\ h_fwd' = UnitAfter(h_fwd, h.call = "fwd", SecretHat("s2", h.ctr), go)
    BY <1>2, HUnits DEF HRuns, HCalls, SecretHat
  <2>3. /\ IsUnit(h_fwd')
        /\ h_fwd.done => UnitRests(h_fwd') /\ h_fwd'.out = SecretHat("s2", h.ctr)
        /\ ~h_fwd.done => UnitCalled(h_fwd', FALSE, SecretHat("s2", h.ctr))
    BY <2>2 DEF HShape, UnitAfter, IsUnit, UnitRests, UnitCalled
  <2>4. HShape'
    BY <1>a, <2>1, <2>3 DEF HShape
  <2>5. HCalls'
    BY <1>0, <1>2, <1>a, <2>1, <2>3 DEF HRuns, HCalls
  <2>6. /\ HHatS2' /\ HHatT0' /\ HHatC' /\ HOperands' /\ HProductS2'
        /\ HProductT0' /\ HRawS2' /\ HRawT0'
    BY <1>0, <1>2, <2>1
       DEF HRuns, HPassed, HHatS2, HHatT0, HHatC, HOperands, HProductS2, HProductT0, HRawS2,
           HRawT0
  <2> QED
    BY <2>1, <2>4, <2>5, <2>6 DEF HRuns
<1>3. CASE h.state = "FWD_S2_STORE"
  <2>0. h' = IF h.ctr = K - 1
             THEN [h_dut!Low EXCEPT !.s2_hat[h.ctr] = h_fwd.out, !.ctr = 0,
                                    !.state = "FWD_T0_START"]
             ELSE [h_dut!Low EXCEPT !.s2_hat[h.ctr] = h_fwd.out, !.ctr = @ + 1,
                                    !.state = "FWD_S2_START"]
    BY <1>3
       DEF h_dut!Clock, h_dut!Begin, h_dut!TransformSecret, h_dut!TransformLowBits,
           h_dut!TransformChallenge, h_dut!ScaleSecret, h_dut!ScaleLowBits, h_dut!NextProduct,
           h_dut!Forward, h_dut!Operands, h_dut!InvertSecret, h_dut!InvertLowBits, h_dut!Inverse,
           h_dut!Complete, h_dut!Waiting, h_dut!FWD_S2, h_dut!FWD_T0, h_dut!FWD_C, h_dut!MUL_S2,
           h_dut!MUL_T0, h_dut!INV_S2, h_dut!INV_T0, h_dut!Transform, h_dut!Product
  <2>1. /\ ~h'.done /\ h'.call = "none"
        /\ h'.s2_hat = [h.s2_hat EXCEPT ![h.ctr] = h_fwd.out]
        /\ h'.row = h.row /\ h'.coeff = h.coeff /\ h'.c_hat = h.c_hat /\ h'.t0_hat = h.t0_hat
        /\ h'.c_s2_hat = h.c_s2_hat /\ h'.c_t0_hat = h.c_t0_hat /\ h'.c_s2_raw = h.c_s2_raw
        /\ h'.c_t0_raw = h.c_t0_raw /\ DOMAIN h' = DOMAIN h
        /\ IF h.ctr = K - 1 THEN h'.state = "FWD_T0_START" /\ h'.ctr = 0
           ELSE h'.state = "FWD_S2_START" /\ h'.ctr = h.ctr + 1
    BY <1>3, <2>0 DEF h_dut!Low, HShape
  <2>2. IsUnit(h_fwd') /\ UnitRests(h_fwd')
    BY <1>3, HUnits DEF HRuns, HCalls, HShape, UnitAfter, IsUnit, UnitRests
  <2>3. /\ DOMAIN h'.s2_hat = Rows
        /\ \A j \in Rows :
             h'.s2_hat[j] = IF j = h.ctr THEN SecretHat("s2", j) ELSE h.s2_hat[j]
    BY <1>3, <2>1 DEF HShape, HRuns, HCalls
  <2>4. HShape'
    BY <1>a, <2>1, <2>2, <2>3, SizesAre DEF HShape
  <2>5. HCalls'
    BY <1>a, <2>1, <2>2 DEF HCalls
  <2>6. ASSUME NEW j \in Rows, h'.state \in HFwdS2 => j < h'.ctr
        PROVE  j < h.ctr \/ j = h.ctr
    <3>1. j \in Nat /\ j < K /\ h.ctr \in Nat /\ K \in Nat
      BY SizesAre DEF HShape
    <3> QED
      BY <2>1, <2>6, <3>1
  <2>7. HHatS2'
    BY <1>0, <1>3, <2>1, <2>3, <2>6 DEF HRuns, HHatS2
  <2>8. /\ HHatT0' /\ HHatC' /\ HOperands' /\ HProductS2' /\ HProductT0'
        /\ HRawS2' /\ HRawT0'
    BY <1>0, <1>3, <2>1, NoneBelow
       DEF HRuns, HPassed, HHatT0, HHatC, HOperands, HProductS2, HProductT0, HRawS2, HRawT0
  <2> QED
    BY <2>1, <2>4, <2>5, <2>7, <2>8 DEF HRuns
<1>4. CASE h.state = "FWD_T0_START"
  <2>0. h' = [h_dut!Low EXCEPT !.fwd_in = Secret("t0", Rows)[h.ctr], !.call = "fwd",
                               !.state = "FWD_T0_WAIT"]
    BY <1>4
       DEF h_dut!Clock, h_dut!Begin, h_dut!TransformSecret, h_dut!TransformLowBits,
           h_dut!TransformChallenge, h_dut!ScaleSecret, h_dut!ScaleLowBits, h_dut!NextProduct,
           h_dut!Forward, h_dut!Operands, h_dut!InvertSecret, h_dut!InvertLowBits, h_dut!Inverse,
           h_dut!Complete, h_dut!Waiting, h_dut!FWD_S2, h_dut!FWD_T0, h_dut!FWD_C, h_dut!MUL_S2,
           h_dut!MUL_T0, h_dut!INV_S2, h_dut!INV_T0, h_dut!Transform, h_dut!Product
  <2>1. /\ h'.state = "FWD_T0_WAIT" /\ ~h'.done /\ h'.call = "fwd"
        /\ h'.fwd_in = Secret("t0", Rows)[h.ctr]
        /\ h'.ctr = h.ctr /\ h'.row = h.row /\ h'.coeff = h.coeff /\ h'.c_hat = h.c_hat
        /\ h'.s2_hat = h.s2_hat /\ h'.t0_hat = h.t0_hat /\ h'.c_s2_hat = h.c_s2_hat
        /\ h'.c_t0_hat = h.c_t0_hat /\ h'.c_s2_raw = h.c_s2_raw /\ h'.c_t0_raw = h.c_t0_raw
        /\ DOMAIN h' = DOMAIN h
    BY <1>4, <2>0 DEF h_dut!Low, HShape
  <2>2. Secret("t0", Rows)[h.ctr] = Poly("t0", in, h.ctr)
    BY DEF Secret, HShape
  <2>3. IsUnit(h_fwd') /\ UnitRests(h_fwd')
    BY <1>4, HUnits DEF HRuns, HCalls, HShape, UnitAfter, IsUnit, UnitRests
  <2>4. HShape'
    BY <1>a, <2>1, <2>3 DEF HShape
  <2>5. HCalls'
    BY <1>a, <2>1, <2>2, <2>3 DEF HCalls, UnitCalled, UnitRests
  <2>6. /\ HHatS2' /\ HHatT0' /\ HHatC' /\ HOperands' /\ HProductS2'
        /\ HProductT0' /\ HRawS2' /\ HRawT0'
    BY <1>0, <1>4, <2>1
       DEF HRuns, HPassed, HHatS2, HHatT0, HHatC, HOperands, HProductS2, HProductT0, HRawS2,
           HRawT0
  <2> QED
    BY <2>1, <2>4, <2>5, <2>6 DEF HRuns
<1>5. CASE h.state = "FWD_T0_WAIT"
  <2>0. h' = IF h_fwd.done THEN [h_dut!Low EXCEPT !.state = "FWD_T0_STORE"] ELSE h_dut!Low
    BY <1>5
       DEF h_dut!Clock, h_dut!Begin, h_dut!TransformSecret, h_dut!TransformLowBits,
           h_dut!TransformChallenge, h_dut!ScaleSecret, h_dut!ScaleLowBits, h_dut!NextProduct,
           h_dut!Forward, h_dut!Operands, h_dut!InvertSecret, h_dut!InvertLowBits, h_dut!Inverse,
           h_dut!Complete, h_dut!Waiting, h_dut!FWD_S2, h_dut!FWD_T0, h_dut!FWD_C, h_dut!MUL_S2,
           h_dut!MUL_T0, h_dut!INV_S2, h_dut!INV_T0, h_dut!Transform, h_dut!Product
  <2>1. /\ h'.state = IF h_fwd.done THEN "FWD_T0_STORE" ELSE "FWD_T0_WAIT"
        /\ ~h'.done /\ h'.call = "none" /\ h'.fwd_in = h.fwd_in
        /\ h'.ctr = h.ctr /\ h'.row = h.row /\ h'.coeff = h.coeff /\ h'.c_hat = h.c_hat
        /\ h'.s2_hat = h.s2_hat /\ h'.t0_hat = h.t0_hat /\ h'.c_s2_hat = h.c_s2_hat
        /\ h'.c_t0_hat = h.c_t0_hat /\ h'.c_s2_raw = h.c_s2_raw /\ h'.c_t0_raw = h.c_t0_raw
        /\ DOMAIN h' = DOMAIN h
    BY <1>5, <2>0 DEF h_dut!Low, HShape
  <2>2. /\ UnitCalled(h_fwd, h.call = "fwd", SecretHat("t0", h.ctr))
        /\ h_fwd' = UnitAfter(h_fwd, h.call = "fwd", SecretHat("t0", h.ctr), go)
    BY <1>5, HUnits DEF HRuns, HCalls, SecretHat
  <2>3. /\ IsUnit(h_fwd')
        /\ h_fwd.done => UnitRests(h_fwd') /\ h_fwd'.out = SecretHat("t0", h.ctr)
        /\ ~h_fwd.done => UnitCalled(h_fwd', FALSE, SecretHat("t0", h.ctr))
    BY <2>2 DEF HShape, UnitAfter, IsUnit, UnitRests, UnitCalled
  <2>4. HShape'
    BY <1>a, <2>1, <2>3 DEF HShape
  <2>5. HCalls'
    BY <1>0, <1>5, <1>a, <2>1, <2>3 DEF HRuns, HCalls
  <2>6. /\ HHatS2' /\ HHatT0' /\ HHatC' /\ HOperands' /\ HProductS2'
        /\ HProductT0' /\ HRawS2' /\ HRawT0'
    BY <1>0, <1>5, <2>1
       DEF HRuns, HPassed, HHatS2, HHatT0, HHatC, HOperands, HProductS2, HProductT0, HRawS2,
           HRawT0
  <2> QED
    BY <2>1, <2>4, <2>5, <2>6 DEF HRuns
<1>6. CASE h.state = "FWD_T0_STORE"
  <2>0. h' = IF h.ctr = K - 1
             THEN [h_dut!Low EXCEPT !.t0_hat[h.ctr] = h_fwd.out, !.state = "FWD_C_START"]
             ELSE [h_dut!Low EXCEPT !.t0_hat[h.ctr] = h_fwd.out, !.ctr = @ + 1,
                                    !.state = "FWD_T0_START"]
    BY <1>6
       DEF h_dut!Clock, h_dut!Begin, h_dut!TransformSecret, h_dut!TransformLowBits,
           h_dut!TransformChallenge, h_dut!ScaleSecret, h_dut!ScaleLowBits, h_dut!NextProduct,
           h_dut!Forward, h_dut!Operands, h_dut!InvertSecret, h_dut!InvertLowBits, h_dut!Inverse,
           h_dut!Complete, h_dut!Waiting, h_dut!FWD_S2, h_dut!FWD_T0, h_dut!FWD_C, h_dut!MUL_S2,
           h_dut!MUL_T0, h_dut!INV_S2, h_dut!INV_T0, h_dut!Transform, h_dut!Product
  <2>1. /\ ~h'.done /\ h'.call = "none"
        /\ h'.t0_hat = [h.t0_hat EXCEPT ![h.ctr] = h_fwd.out]
        /\ h'.row = h.row /\ h'.coeff = h.coeff /\ h'.c_hat = h.c_hat /\ h'.s2_hat = h.s2_hat
        /\ h'.c_s2_hat = h.c_s2_hat /\ h'.c_t0_hat = h.c_t0_hat /\ h'.c_s2_raw = h.c_s2_raw
        /\ h'.c_t0_raw = h.c_t0_raw /\ DOMAIN h' = DOMAIN h
        /\ IF h.ctr = K - 1 THEN h'.state = "FWD_C_START" /\ h'.ctr = h.ctr
           ELSE h'.state = "FWD_T0_START" /\ h'.ctr = h.ctr + 1
    BY <1>6, <2>0 DEF h_dut!Low, HShape
  <2>2. IsUnit(h_fwd') /\ UnitRests(h_fwd')
    BY <1>6, HUnits DEF HRuns, HCalls, HShape, UnitAfter, IsUnit, UnitRests
  <2>3. /\ DOMAIN h'.t0_hat = Rows
        /\ \A j \in Rows :
             h'.t0_hat[j] = IF j = h.ctr THEN SecretHat("t0", j) ELSE h.t0_hat[j]
    BY <1>6, <2>1 DEF HShape, HRuns, HCalls
  <2>4. HShape'
    BY <1>a, <2>1, <2>2, <2>3, SizesAre DEF HShape
  <2>5. HCalls'
    BY <1>a, <2>1, <2>2 DEF HCalls
  <2>6. ASSUME NEW j \in Rows, h'.state \in HFwdT0 => j < h'.ctr
        PROVE  j < h.ctr \/ j = h.ctr
    <3>1. j \in Nat /\ j < K /\ h.ctr \in Nat /\ K \in Nat
      BY SizesAre DEF HShape
    <3> QED
      BY <2>1, <2>6, <3>1
  <2>7. HHatT0'
    BY <1>0, <1>6, <2>1, <2>3, <2>6 DEF HRuns, HHatT0
  <2>8. /\ HHatS2' /\ HHatC' /\ HOperands' /\ HProductS2' /\ HProductT0'
        /\ HRawS2' /\ HRawT0'
    BY <1>0, <1>6, <2>1, NoneBelow
       DEF HRuns, HPassed, HHatS2, HHatC, HOperands, HProductS2, HProductT0, HRawS2, HRawT0
  <2> QED
    BY <2>1, <2>4, <2>5, <2>7, <2>8 DEF HRuns
<1>7. CASE h.state = "FWD_C_START"
  <2>0. h' = [h_dut!Low EXCEPT !.fwd_in = h_dut!Zq(reg.c), !.call = "fwd",
                               !.state = "FWD_C_WAIT"]
    BY <1>7
       DEF h_dut!Clock, h_dut!Begin, h_dut!TransformSecret, h_dut!TransformLowBits,
           h_dut!TransformChallenge, h_dut!ScaleSecret, h_dut!ScaleLowBits, h_dut!NextProduct,
           h_dut!Forward, h_dut!Operands, h_dut!InvertSecret, h_dut!InvertLowBits, h_dut!Inverse,
           h_dut!Complete, h_dut!Waiting, h_dut!FWD_S2, h_dut!FWD_T0, h_dut!FWD_C, h_dut!MUL_S2,
           h_dut!MUL_T0, h_dut!INV_S2, h_dut!INV_T0, h_dut!Transform, h_dut!Product
  <2>1. /\ h'.state = "FWD_C_WAIT" /\ ~h'.done /\ h'.call = "fwd" /\ h'.fwd_in = h_dut!Zq(reg.c)
        /\ h'.ctr = h.ctr /\ h'.row = h.row /\ h'.coeff = h.coeff /\ h'.c_hat = h.c_hat
        /\ h'.s2_hat = h.s2_hat /\ h'.t0_hat = h.t0_hat /\ h'.c_s2_hat = h.c_s2_hat
        /\ h'.c_t0_hat = h.c_t0_hat /\ h'.c_s2_raw = h.c_s2_raw /\ h'.c_t0_raw = h.c_t0_raw
        /\ DOMAIN h' = DOMAIN h
    BY <1>7, <2>0 DEF h_dut!Low, HShape
  <2>2. h_dut!Zq(reg.c) = Zq(reg.c)
    BY TermsOfH
  <2>3. IsUnit(h_fwd') /\ UnitRests(h_fwd')
    BY <1>7, HUnits DEF HRuns, HCalls, HShape, UnitAfter, IsUnit, UnitRests
  <2>4. HShape'
    BY <1>a, <2>1, <2>3 DEF HShape
  <2>5. HCalls'
    BY <1>a, <2>1, <2>2, <2>3 DEF HCalls, UnitCalled, UnitRests
  <2>6. /\ HHatS2' /\ HHatT0' /\ HHatC' /\ HOperands' /\ HProductS2'
        /\ HProductT0' /\ HRawS2' /\ HRawT0'
    BY <1>0, <1>7, <2>1
       DEF HRuns, HPassed, HHatS2, HHatT0, HHatC, HOperands, HProductS2, HProductT0, HRawS2,
           HRawT0
  <2> QED
    BY <2>1, <2>4, <2>5, <2>6 DEF HRuns
<1>8. CASE h.state = "FWD_C_WAIT"
  <2>0. h' = IF h_fwd.done THEN [h_dut!Low EXCEPT !.state = "FWD_C_STORE"] ELSE h_dut!Low
    BY <1>8
       DEF h_dut!Clock, h_dut!Begin, h_dut!TransformSecret, h_dut!TransformLowBits,
           h_dut!TransformChallenge, h_dut!ScaleSecret, h_dut!ScaleLowBits, h_dut!NextProduct,
           h_dut!Forward, h_dut!Operands, h_dut!InvertSecret, h_dut!InvertLowBits, h_dut!Inverse,
           h_dut!Complete, h_dut!Waiting, h_dut!FWD_S2, h_dut!FWD_T0, h_dut!FWD_C, h_dut!MUL_S2,
           h_dut!MUL_T0, h_dut!INV_S2, h_dut!INV_T0, h_dut!Transform, h_dut!Product
  <2>1. /\ h'.state = IF h_fwd.done THEN "FWD_C_STORE" ELSE "FWD_C_WAIT"
        /\ ~h'.done /\ h'.call = "none" /\ h'.fwd_in = h.fwd_in
        /\ h'.ctr = h.ctr /\ h'.row = h.row /\ h'.coeff = h.coeff /\ h'.c_hat = h.c_hat
        /\ h'.s2_hat = h.s2_hat /\ h'.t0_hat = h.t0_hat /\ h'.c_s2_hat = h.c_s2_hat
        /\ h'.c_t0_hat = h.c_t0_hat /\ h'.c_s2_raw = h.c_s2_raw /\ h'.c_t0_raw = h.c_t0_raw
        /\ DOMAIN h' = DOMAIN h
    BY <1>8, <2>0 DEF h_dut!Low, HShape
  <2>2. /\ UnitCalled(h_fwd, h.call = "fwd", ChallengeHat)
        /\ h_fwd' = UnitAfter(h_fwd, h.call = "fwd", ChallengeHat, go)
    BY <1>8, HUnits DEF HRuns, HCalls, ChallengeHat
  <2>3. /\ IsUnit(h_fwd')
        /\ h_fwd.done => UnitRests(h_fwd') /\ h_fwd'.out = ChallengeHat
        /\ ~h_fwd.done => UnitCalled(h_fwd', FALSE, ChallengeHat)
    BY <2>2 DEF HShape, UnitAfter, IsUnit, UnitRests, UnitCalled
  <2>4. HShape'
    BY <1>a, <2>1, <2>3 DEF HShape
  <2>5. HCalls'
    BY <1>0, <1>8, <1>a, <2>1, <2>3 DEF HRuns, HCalls
  <2>6. /\ HHatS2' /\ HHatT0' /\ HHatC' /\ HOperands' /\ HProductS2'
        /\ HProductT0' /\ HRawS2' /\ HRawT0'
    BY <1>0, <1>8, <2>1
       DEF HRuns, HPassed, HHatS2, HHatT0, HHatC, HOperands, HProductS2, HProductT0, HRawS2,
           HRawT0
  <2> QED
    BY <2>1, <2>4, <2>5, <2>6 DEF HRuns
<1>9. CASE h.state = "FWD_C_STORE"
  <2>0. h' = [h_dut!Low EXCEPT !.c_hat = h_fwd.out, !.row = 0, !.coeff = 0,
                               !.state = "MUL_S2_SETUP"]
    BY <1>9
       DEF h_dut!Clock, h_dut!Begin, h_dut!TransformSecret, h_dut!TransformLowBits,
           h_dut!TransformChallenge, h_dut!ScaleSecret, h_dut!ScaleLowBits, h_dut!NextProduct,
           h_dut!Forward, h_dut!Operands, h_dut!InvertSecret, h_dut!InvertLowBits, h_dut!Inverse,
           h_dut!Complete, h_dut!Waiting, h_dut!FWD_S2, h_dut!FWD_T0, h_dut!FWD_C, h_dut!MUL_S2,
           h_dut!MUL_T0, h_dut!INV_S2, h_dut!INV_T0, h_dut!Transform, h_dut!Product
  <2>1. /\ h'.state = "MUL_S2_SETUP" /\ ~h'.done /\ h'.call = "none"
        /\ h'.c_hat = h_fwd.out /\ h'.row = 0 /\ h'.coeff = 0
        /\ h'.ctr = h.ctr /\ h'.s2_hat = h.s2_hat /\ h'.t0_hat = h.t0_hat
        /\ h'.c_s2_hat = h.c_s2_hat /\ h'.c_t0_hat = h.c_t0_hat /\ h'.c_s2_raw = h.c_s2_raw
        /\ h'.c_t0_raw = h.c_t0_raw /\ DOMAIN h' = DOMAIN h
    BY <1>9, <2>0 DEF h_dut!Low, HShape
  <2>2. IsUnit(h_fwd') /\ UnitRests(h_fwd')
    BY <1>9, HUnits DEF HRuns, HCalls, HShape, UnitAfter, IsUnit, UnitRests
  <2>3. HShape'
    BY <1>a, <2>1, <2>2, SizesAre DEF HShape
  <2>4. HCalls'
    BY <1>a, <2>1, <2>2 DEF HCalls
  <2>6. HHatC'
    BY <1>0, <1>9, <2>1 DEF HRuns, HCalls, HHatC
  <2>7. /\ HHatS2' /\ HHatT0' /\ HOperands' /\ HProductS2' /\ HProductT0'
        /\ HRawS2' /\ HRawT0'
    BY <1>0, <1>9, <2>1, NoneBelow
       DEF HRuns, HPassed, HHatS2, HHatT0, HOperands, HProductS2, HProductT0, HRawS2, HRawT0
  <2> QED
    BY <2>1, <2>3, <2>4, <2>6, <2>7 DEF HRuns
<1> QED
  BY <1>1, <1>2, <1>3, <1>4, <1>5, <1>6, <1>7, <1>8, <1>9

LEMMA HRunScale ==
  ASSUME HShape, HRuns, reg' = reg, in' = in, NEW go \in BOOLEAN, h_dut!Clock(go),
         h.state \in HMulS2 \cup HMulT0
  PROVE  HShape' /\ HRuns'
<1>0. /\ ChallengeHat' = ChallengeHat
      /\ \A name, j : /\ SecretHat(name, j)' = SecretHat(name, j)
                      /\ ProductHat(name, j)' = ProductHat(name, j)
                      /\ ScaledSecret(name, j)' = ScaledSecret(name, j)
  BY SecretsKept
<1>a. /\ UnitRests(h_inv) /\ UnitRests(h_inv') /\ IsUnit(h_inv')
      /\ UnitRests(h_fwd) /\ UnitRests(h_fwd') /\ IsUnit(h_fwd')
  BY HUnits DEF HMulS2, HMulT0, HRuns, HCalls, HShape, UnitAfter, IsUnit, UnitRests
<1> USE DEF HFwdS2, HFwdT0, HFwdC, HMulS2, HMulT0, HInvS2, HInvT0
<1>1. CASE h.state = "MUL_S2_SETUP"
  <2>0. h' = [h_dut!Low EXCEPT !.mm_a = h_dut!At(h.s2_hat[h.row], h.coeff),
                               !.mm_b = h_dut!At(h.c_hat, h.coeff),
                               !.state = "MUL_S2_CAPTURE"]
    BY <1>1
       DEF h_dut!Clock, h_dut!Begin, h_dut!TransformSecret, h_dut!TransformLowBits,
           h_dut!TransformChallenge, h_dut!ScaleSecret, h_dut!ScaleLowBits, h_dut!NextProduct,
           h_dut!Forward, h_dut!Operands, h_dut!InvertSecret, h_dut!InvertLowBits, h_dut!Inverse,
           h_dut!Complete, h_dut!Waiting, h_dut!FWD_S2, h_dut!FWD_T0, h_dut!FWD_C, h_dut!MUL_S2,
           h_dut!MUL_T0, h_dut!INV_S2, h_dut!INV_T0, h_dut!Transform, h_dut!Product
  <2>1. /\ h'.state = "MUL_S2_CAPTURE" /\ ~h'.done /\ h'.call = "none"
        /\ h'.mm_a = h_dut!At(h.s2_hat[h.row], h.coeff)
        /\ h'.mm_b = h_dut!At(h.c_hat, h.coeff)
        /\ h'.ctr = h.ctr /\ h'.row = h.row /\ h'.coeff = h.coeff /\ h'.c_hat = h.c_hat
        /\ h'.s2_hat = h.s2_hat /\ h'.t0_hat = h.t0_hat /\ h'.c_s2_hat = h.c_s2_hat
        /\ h'.c_t0_hat = h.c_t0_hat /\ h'.c_s2_raw = h.c_s2_raw /\ h'.c_t0_raw = h.c_t0_raw
        /\ DOMAIN h' = DOMAIN h
    BY <1>1, <2>0 DEF h_dut!Low, HShape
  <2>2. HShape'
    BY <1>a, <2>1 DEF HShape
  <2>3. HCalls'
    BY <1>a, <2>1 DEF HCalls
  <2>4. h.s2_hat[h.row] = SecretHat("s2", h.row) /\ h.c_hat = ChallengeHat
    BY <1>1 DEF HShape, HRuns, HHatS2, HHatC
  <2>5. HOperands'
    BY <1>0, <2>1, <2>4, TermsOfH DEF HOperands
  <2>6. /\ HHatS2' /\ HHatT0' /\ HHatC' /\ HProductS2' /\ HProductT0'
        /\ HRawS2' /\ HRawT0'
    BY <1>0, <1>1, <2>1
       DEF HRuns, HPassed, HHatS2, HHatT0, HHatC, HProductS2, HProductT0, HRawS2, HRawT0
  <2> QED
    BY <2>1, <2>2, <2>3, <2>5, <2>6 DEF HRuns
<1>2. CASE h.state = "MUL_S2_CAPTURE"
  <2>0. h' = [h_dut!Low EXCEPT !.c_s2_hat[h.row][h.coeff] = h_dut!mm_out, !.state = "MUL_S2_NEXT"]
    BY <1>2
       DEF h_dut!Clock, h_dut!Begin, h_dut!TransformSecret, h_dut!TransformLowBits,
           h_dut!TransformChallenge, h_dut!ScaleSecret, h_dut!ScaleLowBits, h_dut!NextProduct,
           h_dut!Forward, h_dut!Operands, h_dut!InvertSecret, h_dut!InvertLowBits, h_dut!Inverse,
           h_dut!Complete, h_dut!Waiting, h_dut!FWD_S2, h_dut!FWD_T0, h_dut!FWD_C, h_dut!MUL_S2,
           h_dut!MUL_T0, h_dut!INV_S2, h_dut!INV_T0, h_dut!Transform, h_dut!Product
  <2>1. /\ h'.state = "MUL_S2_NEXT" /\ ~h'.done /\ h'.call = "none"
        /\ h'.c_s2_hat = [h.c_s2_hat EXCEPT ![h.row][h.coeff] = h_dut!mm_out]
        /\ h'.ctr = h.ctr /\ h'.row = h.row /\ h'.coeff = h.coeff /\ h'.c_hat = h.c_hat
        /\ h'.s2_hat = h.s2_hat /\ h'.t0_hat = h.t0_hat /\ h'.c_t0_hat = h.c_t0_hat
        /\ h'.c_s2_raw = h.c_s2_raw /\ h'.c_t0_raw = h.c_t0_raw /\ DOMAIN h' = DOMAIN h
    BY <1>2, <2>0 DEF h_dut!Low, HShape
  <2>2. h_dut!mm_out = At(ProductHat("s2", h.row), h.coeff)
    <3>1. /\ h.mm_a = At(SecretHat("s2", h.row), h.coeff)
          /\ h.mm_b = At(ChallengeHat, h.coeff)
      BY <1>2 DEF HRuns, HOperands
    <3>2. h_dut!mm_out = Times(h.mm_a, h.mm_b)
      BY TermsOfH DEF h_dut!mm_out
    <3> QED
      BY <3>1, <3>2 DEF Times, At, ProductHat
  <2>3. /\ DOMAIN h'.c_s2_hat = Rows
        /\ \A r \in Rows : DOMAIN h'.c_s2_hat[r] = Indices
        /\ \A r \in Rows : \A c \in Indices :
             h'.c_s2_hat[r][c] = IF r = h.row /\ c = h.coeff
                                  THEN At(ProductHat("s2", r), c) ELSE h.c_s2_hat[r][c]
    BY <2>1, <2>2 DEF HShape
  <2>4. HShape'
    BY <1>a, <2>1, <2>3 DEF HShape
  <2>5. HCalls'
    BY <1>a, <2>1 DEF HCalls
  <2>6. HProductS2'
    BY <1>0, <1>2, <2>1, <2>3 DEF HRuns, HPassed, HProductS2
  <2>7. /\ HHatS2' /\ HHatT0' /\ HHatC' /\ HOperands' /\ HProductT0'
        /\ HRawS2' /\ HRawT0'
    BY <1>0, <1>2, <2>1
       DEF HRuns, HPassed, HHatS2, HHatT0, HHatC, HOperands, HProductT0, HRawS2, HRawT0
  <2> QED
    BY <2>1, <2>4, <2>5, <2>6, <2>7 DEF HRuns
<1>3. CASE h.state = "MUL_S2_NEXT"
  <2>0. h' = IF h.coeff < Coeffs - 1
             THEN [h_dut!Low EXCEPT !.coeff = @ + 1, !.state = "MUL_S2_SETUP"]
             ELSE IF h.row < K - 1
             THEN [h_dut!Low EXCEPT !.row = @ + 1, !.coeff = 0, !.state = "MUL_S2_SETUP"]
             ELSE [h_dut!Low EXCEPT !.row = 0, !.coeff = 0, !.state = "MUL_T0_SETUP"]
    BY <1>3
       DEF h_dut!Clock, h_dut!Begin, h_dut!TransformSecret, h_dut!TransformLowBits,
           h_dut!TransformChallenge, h_dut!ScaleSecret, h_dut!ScaleLowBits, h_dut!NextProduct,
           h_dut!Forward, h_dut!Operands, h_dut!InvertSecret, h_dut!InvertLowBits, h_dut!Inverse,
           h_dut!Complete, h_dut!Waiting, h_dut!FWD_S2, h_dut!FWD_T0, h_dut!FWD_C, h_dut!MUL_S2,
           h_dut!MUL_T0, h_dut!INV_S2, h_dut!INV_T0, h_dut!Transform, h_dut!Product
  <2>1. /\ ~h'.done /\ h'.call = "none"
        /\ h'.ctr = h.ctr /\ h'.c_hat = h.c_hat /\ h'.s2_hat = h.s2_hat /\ h'.t0_hat = h.t0_hat
        /\ h'.c_s2_hat = h.c_s2_hat /\ h'.c_t0_hat = h.c_t0_hat /\ h'.c_s2_raw = h.c_s2_raw
        /\ h'.c_t0_raw = h.c_t0_raw /\ DOMAIN h' = DOMAIN h
        /\ \/ /\ h.coeff < Coeffs - 1 /\ h'.state = "MUL_S2_SETUP"
              /\ h'.row = h.row /\ h'.coeff = h.coeff + 1
           \/ /\ ~(h.coeff < Coeffs - 1) /\ h.row < K - 1 /\ h'.state = "MUL_S2_SETUP"
              /\ h'.row = h.row + 1 /\ h'.coeff = 0
           \/ /\ ~(h.coeff < Coeffs - 1) /\ ~(h.row < K - 1)
              /\ h'.state = "MUL_T0_SETUP" /\ h'.row = 0 /\ h'.coeff = 0
    BY <1>3, <2>0 DEF h_dut!Low, HShape
  <2>2. /\ h.row \in Nat /\ h.row < K /\ K \in Nat
        /\ h.coeff \in Nat /\ h.coeff < Coeffs /\ Coeffs \in Nat
    BY SizesAre DEF HShape
  <2>3. HShape'
    BY <1>a, <2>1, <2>2, SizesAre DEF HShape
  <2>4. HCalls'
    BY <1>a, <2>1 DEF HCalls
  <2>5. ASSUME NEW r \in Rows, NEW c \in Indices, h'.state \in HMulS2 => HPassed(r, c)'
        PROVE  HPassed(r, c)
    <3>1. r \in Nat /\ r < K /\ c \in Nat /\ c < Coeffs
      BY SizesAre
    <3> QED
      BY <1>3, <2>1, <2>2, <2>5, <3>1 DEF HPassed
  <2>6. HProductS2'
    BY <1>0, <1>3, <2>1, <2>5 DEF HRuns, HProductS2
  <2>8. /\ HHatS2' /\ HHatT0' /\ HHatC' /\ HOperands' /\ HProductT0'
        /\ HRawS2' /\ HRawT0'
    BY <1>0, <1>3, <2>1, NoneBelow
       DEF HRuns, HPassed, HHatS2, HHatT0, HHatC, HOperands, HProductT0, HRawS2, HRawT0
  <2> QED
    BY <2>1, <2>3, <2>4, <2>6, <2>8 DEF HRuns
<1>4. CASE h.state = "MUL_T0_SETUP"
  <2>0. h' = [h_dut!Low EXCEPT !.mm_a = h_dut!At(h.t0_hat[h.row], h.coeff),
                               !.mm_b = h_dut!At(h.c_hat, h.coeff),
                               !.state = "MUL_T0_CAPTURE"]
    BY <1>4
       DEF h_dut!Clock, h_dut!Begin, h_dut!TransformSecret, h_dut!TransformLowBits,
           h_dut!TransformChallenge, h_dut!ScaleSecret, h_dut!ScaleLowBits, h_dut!NextProduct,
           h_dut!Forward, h_dut!Operands, h_dut!InvertSecret, h_dut!InvertLowBits, h_dut!Inverse,
           h_dut!Complete, h_dut!Waiting, h_dut!FWD_S2, h_dut!FWD_T0, h_dut!FWD_C, h_dut!MUL_S2,
           h_dut!MUL_T0, h_dut!INV_S2, h_dut!INV_T0, h_dut!Transform, h_dut!Product
  <2>1. /\ h'.state = "MUL_T0_CAPTURE" /\ ~h'.done /\ h'.call = "none"
        /\ h'.mm_a = h_dut!At(h.t0_hat[h.row], h.coeff)
        /\ h'.mm_b = h_dut!At(h.c_hat, h.coeff)
        /\ h'.ctr = h.ctr /\ h'.row = h.row /\ h'.coeff = h.coeff /\ h'.c_hat = h.c_hat
        /\ h'.s2_hat = h.s2_hat /\ h'.t0_hat = h.t0_hat /\ h'.c_s2_hat = h.c_s2_hat
        /\ h'.c_t0_hat = h.c_t0_hat /\ h'.c_s2_raw = h.c_s2_raw /\ h'.c_t0_raw = h.c_t0_raw
        /\ DOMAIN h' = DOMAIN h
    BY <1>4, <2>0 DEF h_dut!Low, HShape
  <2>2. HShape'
    BY <1>a, <2>1 DEF HShape
  <2>3. HCalls'
    BY <1>a, <2>1 DEF HCalls
  <2>4. h.t0_hat[h.row] = SecretHat("t0", h.row) /\ h.c_hat = ChallengeHat
    BY <1>4 DEF HShape, HRuns, HHatT0, HHatC
  <2>5. HOperands'
    BY <1>0, <2>1, <2>4, TermsOfH DEF HOperands
  <2>6. /\ HHatS2' /\ HHatT0' /\ HHatC' /\ HProductS2' /\ HProductT0'
        /\ HRawS2' /\ HRawT0'
    BY <1>0, <1>4, <2>1
       DEF HRuns, HPassed, HHatS2, HHatT0, HHatC, HProductS2, HProductT0, HRawS2, HRawT0
  <2> QED
    BY <2>1, <2>2, <2>3, <2>5, <2>6 DEF HRuns
<1>5. CASE h.state = "MUL_T0_CAPTURE"
  <2>0. h' = [h_dut!Low EXCEPT !.c_t0_hat[h.row][h.coeff] = h_dut!mm_out, !.state = "MUL_T0_NEXT"]
    BY <1>5
       DEF h_dut!Clock, h_dut!Begin, h_dut!TransformSecret, h_dut!TransformLowBits,
           h_dut!TransformChallenge, h_dut!ScaleSecret, h_dut!ScaleLowBits, h_dut!NextProduct,
           h_dut!Forward, h_dut!Operands, h_dut!InvertSecret, h_dut!InvertLowBits, h_dut!Inverse,
           h_dut!Complete, h_dut!Waiting, h_dut!FWD_S2, h_dut!FWD_T0, h_dut!FWD_C, h_dut!MUL_S2,
           h_dut!MUL_T0, h_dut!INV_S2, h_dut!INV_T0, h_dut!Transform, h_dut!Product
  <2>1. /\ h'.state = "MUL_T0_NEXT" /\ ~h'.done /\ h'.call = "none"
        /\ h'.c_t0_hat = [h.c_t0_hat EXCEPT ![h.row][h.coeff] = h_dut!mm_out]
        /\ h'.ctr = h.ctr /\ h'.row = h.row /\ h'.coeff = h.coeff /\ h'.c_hat = h.c_hat
        /\ h'.s2_hat = h.s2_hat /\ h'.t0_hat = h.t0_hat /\ h'.c_s2_hat = h.c_s2_hat
        /\ h'.c_s2_raw = h.c_s2_raw /\ h'.c_t0_raw = h.c_t0_raw /\ DOMAIN h' = DOMAIN h
    BY <1>5, <2>0 DEF h_dut!Low, HShape
  <2>2. h_dut!mm_out = At(ProductHat("t0", h.row), h.coeff)
    <3>1. /\ h.mm_a = At(SecretHat("t0", h.row), h.coeff)
          /\ h.mm_b = At(ChallengeHat, h.coeff)
      BY <1>5 DEF HRuns, HOperands
    <3>2. h_dut!mm_out = Times(h.mm_a, h.mm_b)
      BY TermsOfH DEF h_dut!mm_out
    <3> QED
      BY <3>1, <3>2 DEF Times, At, ProductHat
  <2>3. /\ DOMAIN h'.c_t0_hat = Rows
        /\ \A r \in Rows : DOMAIN h'.c_t0_hat[r] = Indices
        /\ \A r \in Rows : \A c \in Indices :
             h'.c_t0_hat[r][c] = IF r = h.row /\ c = h.coeff
                                  THEN At(ProductHat("t0", r), c) ELSE h.c_t0_hat[r][c]
    BY <2>1, <2>2 DEF HShape
  <2>4. HShape'
    BY <1>a, <2>1, <2>3 DEF HShape
  <2>5. HCalls'
    BY <1>a, <2>1 DEF HCalls
  <2>6. HProductT0'
    BY <1>0, <1>5, <2>1, <2>3 DEF HRuns, HPassed, HProductT0
  <2>7. /\ HHatS2' /\ HHatT0' /\ HHatC' /\ HOperands' /\ HProductS2'
        /\ HRawS2' /\ HRawT0'
    BY <1>0, <1>5, <2>1
       DEF HRuns, HPassed, HHatS2, HHatT0, HHatC, HOperands, HProductS2, HRawS2, HRawT0
  <2> QED
    BY <2>1, <2>4, <2>5, <2>6, <2>7 DEF HRuns
<1>6. CASE h.state = "MUL_T0_NEXT"
  <2>0. h' = IF h.coeff < Coeffs - 1
             THEN [h_dut!Low EXCEPT !.coeff = @ + 1, !.state = "MUL_T0_SETUP"]
             ELSE IF h.row < K - 1
             THEN [h_dut!Low EXCEPT !.row = @ + 1, !.coeff = 0, !.state = "MUL_T0_SETUP"]
             ELSE [h_dut!Low EXCEPT !.row = 0, !.state = "INV_S2_START"]
    BY <1>6
       DEF h_dut!Clock, h_dut!Begin, h_dut!TransformSecret, h_dut!TransformLowBits,
           h_dut!TransformChallenge, h_dut!ScaleSecret, h_dut!ScaleLowBits, h_dut!NextProduct,
           h_dut!Forward, h_dut!Operands, h_dut!InvertSecret, h_dut!InvertLowBits, h_dut!Inverse,
           h_dut!Complete, h_dut!Waiting, h_dut!FWD_S2, h_dut!FWD_T0, h_dut!FWD_C, h_dut!MUL_S2,
           h_dut!MUL_T0, h_dut!INV_S2, h_dut!INV_T0, h_dut!Transform, h_dut!Product
  <2>1. /\ ~h'.done /\ h'.call = "none"
        /\ h'.ctr = h.ctr /\ h'.c_hat = h.c_hat /\ h'.s2_hat = h.s2_hat /\ h'.t0_hat = h.t0_hat
        /\ h'.c_s2_hat = h.c_s2_hat /\ h'.c_t0_hat = h.c_t0_hat /\ h'.c_s2_raw = h.c_s2_raw
        /\ h'.c_t0_raw = h.c_t0_raw /\ DOMAIN h' = DOMAIN h
        /\ \/ /\ h.coeff < Coeffs - 1 /\ h'.state = "MUL_T0_SETUP"
              /\ h'.row = h.row /\ h'.coeff = h.coeff + 1
           \/ /\ ~(h.coeff < Coeffs - 1) /\ h.row < K - 1 /\ h'.state = "MUL_T0_SETUP"
              /\ h'.row = h.row + 1 /\ h'.coeff = 0
           \/ /\ ~(h.coeff < Coeffs - 1) /\ ~(h.row < K - 1)
              /\ h'.state = "INV_S2_START" /\ h'.row = 0 /\ h'.coeff = h.coeff
    BY <1>6, <2>0 DEF h_dut!Low, HShape
  <2>2. /\ h.row \in Nat /\ h.row < K /\ K \in Nat
        /\ h.coeff \in Nat /\ h.coeff < Coeffs /\ Coeffs \in Nat
    BY SizesAre DEF HShape
  <2>3. HShape'
    BY <1>a, <2>1, <2>2, SizesAre DEF HShape
  <2>4. HCalls'
    BY <1>a, <2>1 DEF HCalls
  <2>5. ASSUME NEW r \in Rows, NEW c \in Indices, h'.state \in HMulT0 => HPassed(r, c)'
        PROVE  HPassed(r, c)
    <3>1. r \in Nat /\ r < K /\ c \in Nat /\ c < Coeffs
      BY SizesAre
    <3> QED
      BY <1>6, <2>1, <2>2, <2>5, <3>1 DEF HPassed
  <2>6. HProductT0'
    BY <1>0, <1>6, <2>1, <2>5 DEF HRuns, HProductT0
  <2>8. /\ HHatS2' /\ HHatT0' /\ HHatC' /\ HOperands' /\ HProductS2'
        /\ HRawS2' /\ HRawT0'
    BY <1>0, <1>6, <2>1, NoneBelow
       DEF HRuns, HPassed, HHatS2, HHatT0, HHatC, HOperands, HProductS2, HRawS2, HRawT0
  <2> QED
    BY <2>1, <2>3, <2>4, <2>6, <2>8 DEF HRuns
<1> QED
  BY <1>1, <1>2, <1>3, <1>4, <1>5, <1>6

LEMMA HRunInvert ==
  ASSUME HShape, HRuns, reg' = reg, in' = in, NEW go \in BOOLEAN, h_dut!Clock(go),
         h.state \in HInvS2 \cup HInvT0
  PROVE  HShape' /\ HRuns'
<1>0. /\ ChallengeHat' = ChallengeHat
      /\ \A name, j : /\ SecretHat(name, j)' = SecretHat(name, j)
                      /\ ProductHat(name, j)' = ProductHat(name, j)
                      /\ ScaledSecret(name, j)' = ScaledSecret(name, j)
  BY SecretsKept
<1>a. UnitRests(h_fwd) /\ UnitRests(h_fwd') /\ IsUnit(h_fwd')
  BY HUnits DEF HInvS2, HInvT0, HRuns, HCalls, HShape, UnitAfter, IsUnit, UnitRests
<1> USE DEF HFwdS2, HFwdT0, HFwdC, HMulS2, HMulT0, HInvS2, HInvT0
<1>1. CASE h.state = "INV_S2_START"
  <2>0. h' = [h_dut!Low EXCEPT !.inv_in = h_dut!Gather(h.c_s2_hat[h.row]), !.call = "inv",
                               !.state = "INV_S2_WAIT"]
    BY <1>1
       DEF h_dut!Clock, h_dut!Begin, h_dut!TransformSecret, h_dut!TransformLowBits,
           h_dut!TransformChallenge, h_dut!ScaleSecret, h_dut!ScaleLowBits, h_dut!NextProduct,
           h_dut!Forward, h_dut!Operands, h_dut!InvertSecret, h_dut!InvertLowBits, h_dut!Inverse,
           h_dut!Complete, h_dut!Waiting, h_dut!FWD_S2, h_dut!FWD_T0, h_dut!FWD_C, h_dut!MUL_S2,
           h_dut!MUL_T0, h_dut!INV_S2, h_dut!INV_T0, h_dut!Transform, h_dut!Product
  <2>1. /\ h'.state = "INV_S2_WAIT" /\ ~h'.done /\ h'.call = "inv"
        /\ h'.inv_in = h_dut!Gather(h.c_s2_hat[h.row])
        /\ h'.ctr = h.ctr /\ h'.row = h.row /\ h'.coeff = h.coeff /\ h'.c_hat = h.c_hat
        /\ h'.s2_hat = h.s2_hat /\ h'.t0_hat = h.t0_hat /\ h'.c_s2_hat = h.c_s2_hat
        /\ h'.c_t0_hat = h.c_t0_hat /\ h'.c_s2_raw = h.c_s2_raw /\ h'.c_t0_raw = h.c_t0_raw
        /\ DOMAIN h' = DOMAIN h
    BY <1>1, <2>0 DEF h_dut!Low, HShape
  <2>2. h'.inv_in = ProductHat("s2", h.row)
    <3>1. \A c \in Indices : h.c_s2_hat[h.row][c] = At(ProductHat("s2", h.row), c)
      BY <1>1 DEF HShape, HRuns, HProductS2
    <3>2. Gather(h.c_s2_hat[h.row]) = ProductHat("s2", h.row)
      BY <3>1, GatherIs
    <3> QED
      BY <2>1, <3>2, TermsOfH
  <2>3. IsUnit(h_inv') /\ UnitRests(h_inv')
    BY <1>1, HUnits DEF HRuns, HCalls, HShape, UnitAfter, IsUnit, UnitRests
  <2>4. HShape'
    BY <1>a, <2>1, <2>3 DEF HShape
  <2>5. HCalls'
    BY <1>0, <1>a, <2>1, <2>2, <2>3 DEF HCalls, UnitCalled, UnitRests
  <2>6. /\ HHatS2' /\ HHatT0' /\ HHatC' /\ HOperands' /\ HProductS2'
        /\ HProductT0' /\ HRawS2' /\ HRawT0'
    BY <1>0, <1>1, <2>1
       DEF HRuns, HPassed, HHatS2, HHatT0, HHatC, HOperands, HProductS2, HProductT0, HRawS2,
           HRawT0
  <2> QED
    BY <2>1, <2>4, <2>5, <2>6 DEF HRuns
<1>2. CASE h.state = "INV_S2_WAIT"
  <2>0. h' = IF h_inv.done THEN [h_dut!Low EXCEPT !.state = "INV_S2_STORE"] ELSE h_dut!Low
    BY <1>2
       DEF h_dut!Clock, h_dut!Begin, h_dut!TransformSecret, h_dut!TransformLowBits,
           h_dut!TransformChallenge, h_dut!ScaleSecret, h_dut!ScaleLowBits, h_dut!NextProduct,
           h_dut!Forward, h_dut!Operands, h_dut!InvertSecret, h_dut!InvertLowBits, h_dut!Inverse,
           h_dut!Complete, h_dut!Waiting, h_dut!FWD_S2, h_dut!FWD_T0, h_dut!FWD_C, h_dut!MUL_S2,
           h_dut!MUL_T0, h_dut!INV_S2, h_dut!INV_T0, h_dut!Transform, h_dut!Product
  <2>1. /\ h'.state = IF h_inv.done THEN "INV_S2_STORE" ELSE "INV_S2_WAIT"
        /\ ~h'.done /\ h'.call = "none" /\ h'.inv_in = h.inv_in
        /\ h'.ctr = h.ctr /\ h'.row = h.row /\ h'.coeff = h.coeff /\ h'.c_hat = h.c_hat
        /\ h'.s2_hat = h.s2_hat /\ h'.t0_hat = h.t0_hat /\ h'.c_s2_hat = h.c_s2_hat
        /\ h'.c_t0_hat = h.c_t0_hat /\ h'.c_s2_raw = h.c_s2_raw /\ h'.c_t0_raw = h.c_t0_raw
        /\ DOMAIN h' = DOMAIN h
    BY <1>2, <2>0 DEF h_dut!Low, HShape
  <2>2. /\ UnitCalled(h_inv, h.call = "inv", ScaledSecret("s2", h.row))
        /\ h_inv' = UnitAfter(h_inv, h.call = "inv", ScaledSecret("s2", h.row), go)
    BY <1>2, HUnits DEF HRuns, HCalls, ScaledSecret
  <2>3. /\ IsUnit(h_inv')
        /\ h_inv.done => UnitRests(h_inv') /\ h_inv'.out = ScaledSecret("s2", h.row)
        /\ ~h_inv.done => UnitCalled(h_inv', FALSE, ScaledSecret("s2", h.row))
    BY <2>2 DEF HShape, UnitAfter, IsUnit, UnitRests, UnitCalled
  <2>4. HShape'
    BY <1>a, <2>1, <2>3 DEF HShape
  <2>5. HCalls'
    BY <1>0, <1>2, <1>a, <2>1, <2>3 DEF HRuns, HCalls
  <2>6. /\ HHatS2' /\ HHatT0' /\ HHatC' /\ HOperands' /\ HProductS2'
        /\ HProductT0' /\ HRawS2' /\ HRawT0'
    BY <1>0, <1>2, <2>1
       DEF HRuns, HPassed, HHatS2, HHatT0, HHatC, HOperands, HProductS2, HProductT0, HRawS2,
           HRawT0
  <2> QED
    BY <2>1, <2>4, <2>5, <2>6 DEF HRuns
<1>3. CASE h.state = "INV_S2_STORE"
  <2>0. h' = IF h.row = K - 1
             THEN [h_dut!Low EXCEPT !.c_s2_raw[h.row] = h_inv.out, !.row = 0,
                                    !.state = "INV_T0_START"]
             ELSE [h_dut!Low EXCEPT !.c_s2_raw[h.row] = h_inv.out, !.row = @ + 1,
                                    !.state = "INV_S2_START"]
    BY <1>3
       DEF h_dut!Clock, h_dut!Begin, h_dut!TransformSecret, h_dut!TransformLowBits,
           h_dut!TransformChallenge, h_dut!ScaleSecret, h_dut!ScaleLowBits, h_dut!NextProduct,
           h_dut!Forward, h_dut!Operands, h_dut!InvertSecret, h_dut!InvertLowBits, h_dut!Inverse,
           h_dut!Complete, h_dut!Waiting, h_dut!FWD_S2, h_dut!FWD_T0, h_dut!FWD_C, h_dut!MUL_S2,
           h_dut!MUL_T0, h_dut!INV_S2, h_dut!INV_T0, h_dut!Transform, h_dut!Product
  <2>1. /\ ~h'.done /\ h'.call = "none"
        /\ h'.c_s2_raw = [h.c_s2_raw EXCEPT ![h.row] = h_inv.out]
        /\ h'.ctr = h.ctr /\ h'.coeff = h.coeff /\ h'.c_hat = h.c_hat /\ h'.s2_hat = h.s2_hat
        /\ h'.t0_hat = h.t0_hat /\ h'.c_s2_hat = h.c_s2_hat /\ h'.c_t0_hat = h.c_t0_hat
        /\ h'.c_t0_raw = h.c_t0_raw /\ DOMAIN h' = DOMAIN h
        /\ IF h.row = K - 1 THEN h'.state = "INV_T0_START" /\ h'.row = 0
           ELSE h'.state = "INV_S2_START" /\ h'.row = h.row + 1
    BY <1>3, <2>0 DEF h_dut!Low, HShape
  <2>2. IsUnit(h_inv') /\ UnitRests(h_inv')
    BY <1>3, HUnits DEF HRuns, HCalls, HShape, UnitAfter, IsUnit, UnitRests
  <2>3. /\ DOMAIN h'.c_s2_raw = Rows
        /\ \A r \in Rows :
             h'.c_s2_raw[r] = IF r = h.row THEN ScaledSecret("s2", r) ELSE h.c_s2_raw[r]
    BY <1>3, <2>1 DEF HShape, HRuns, HCalls
  <2>4. HShape'
    BY <1>a, <2>1, <2>2, <2>3, SizesAre DEF HShape
  <2>5. HCalls'
    BY <1>a, <2>1, <2>2 DEF HCalls
  <2>6. ASSUME NEW r \in Rows, h'.state \in HInvS2 => r < h'.row
        PROVE  r < h.row \/ r = h.row
    <3>1. r \in Nat /\ r < K /\ h.row \in Nat /\ K \in Nat
      BY SizesAre DEF HShape
    <3> QED
      BY <2>1, <2>6, <3>1
  <2>7. HRawS2'
    BY <1>0, <1>3, <2>1, <2>3, <2>6 DEF HRuns, HRawS2
  <2>9. /\ HHatS2' /\ HHatT0' /\ HHatC' /\ HOperands' /\ HProductS2'
        /\ HProductT0' /\ HRawT0'
    BY <1>0, <1>3, <2>1, NoneBelow
       DEF HRuns, HPassed, HHatS2, HHatT0, HHatC, HOperands, HProductS2, HProductT0, HRawT0
  <2> QED
    BY <2>1, <2>4, <2>5, <2>7, <2>9 DEF HRuns
<1>4. CASE h.state = "INV_T0_START"
  <2>0. h' = [h_dut!Low EXCEPT !.inv_in = h_dut!Gather(h.c_t0_hat[h.row]), !.call = "inv",
                               !.state = "INV_T0_WAIT"]
    BY <1>4
       DEF h_dut!Clock, h_dut!Begin, h_dut!TransformSecret, h_dut!TransformLowBits,
           h_dut!TransformChallenge, h_dut!ScaleSecret, h_dut!ScaleLowBits, h_dut!NextProduct,
           h_dut!Forward, h_dut!Operands, h_dut!InvertSecret, h_dut!InvertLowBits, h_dut!Inverse,
           h_dut!Complete, h_dut!Waiting, h_dut!FWD_S2, h_dut!FWD_T0, h_dut!FWD_C, h_dut!MUL_S2,
           h_dut!MUL_T0, h_dut!INV_S2, h_dut!INV_T0, h_dut!Transform, h_dut!Product
  <2>1. /\ h'.state = "INV_T0_WAIT" /\ ~h'.done /\ h'.call = "inv"
        /\ h'.inv_in = h_dut!Gather(h.c_t0_hat[h.row])
        /\ h'.ctr = h.ctr /\ h'.row = h.row /\ h'.coeff = h.coeff /\ h'.c_hat = h.c_hat
        /\ h'.s2_hat = h.s2_hat /\ h'.t0_hat = h.t0_hat /\ h'.c_s2_hat = h.c_s2_hat
        /\ h'.c_t0_hat = h.c_t0_hat /\ h'.c_s2_raw = h.c_s2_raw /\ h'.c_t0_raw = h.c_t0_raw
        /\ DOMAIN h' = DOMAIN h
    BY <1>4, <2>0 DEF h_dut!Low, HShape
  <2>2. h'.inv_in = ProductHat("t0", h.row)
    <3>1. \A c \in Indices : h.c_t0_hat[h.row][c] = At(ProductHat("t0", h.row), c)
      BY <1>4 DEF HShape, HRuns, HProductT0
    <3>2. Gather(h.c_t0_hat[h.row]) = ProductHat("t0", h.row)
      BY <3>1, GatherIs
    <3> QED
      BY <2>1, <3>2, TermsOfH
  <2>3. IsUnit(h_inv') /\ UnitRests(h_inv')
    BY <1>4, HUnits DEF HRuns, HCalls, HShape, UnitAfter, IsUnit, UnitRests
  <2>4. HShape'
    BY <1>a, <2>1, <2>3 DEF HShape
  <2>5. HCalls'
    BY <1>0, <1>a, <2>1, <2>2, <2>3 DEF HCalls, UnitCalled, UnitRests
  <2>6. /\ HHatS2' /\ HHatT0' /\ HHatC' /\ HOperands' /\ HProductS2'
        /\ HProductT0' /\ HRawS2' /\ HRawT0'
    BY <1>0, <1>4, <2>1
       DEF HRuns, HPassed, HHatS2, HHatT0, HHatC, HOperands, HProductS2, HProductT0, HRawS2,
           HRawT0
  <2> QED
    BY <2>1, <2>4, <2>5, <2>6 DEF HRuns
<1>5. CASE h.state = "INV_T0_WAIT"
  <2>0. h' = IF h_inv.done THEN [h_dut!Low EXCEPT !.state = "INV_T0_STORE"] ELSE h_dut!Low
    BY <1>5
       DEF h_dut!Clock, h_dut!Begin, h_dut!TransformSecret, h_dut!TransformLowBits,
           h_dut!TransformChallenge, h_dut!ScaleSecret, h_dut!ScaleLowBits, h_dut!NextProduct,
           h_dut!Forward, h_dut!Operands, h_dut!InvertSecret, h_dut!InvertLowBits, h_dut!Inverse,
           h_dut!Complete, h_dut!Waiting, h_dut!FWD_S2, h_dut!FWD_T0, h_dut!FWD_C, h_dut!MUL_S2,
           h_dut!MUL_T0, h_dut!INV_S2, h_dut!INV_T0, h_dut!Transform, h_dut!Product
  <2>1. /\ h'.state = IF h_inv.done THEN "INV_T0_STORE" ELSE "INV_T0_WAIT"
        /\ ~h'.done /\ h'.call = "none" /\ h'.inv_in = h.inv_in
        /\ h'.ctr = h.ctr /\ h'.row = h.row /\ h'.coeff = h.coeff /\ h'.c_hat = h.c_hat
        /\ h'.s2_hat = h.s2_hat /\ h'.t0_hat = h.t0_hat /\ h'.c_s2_hat = h.c_s2_hat
        /\ h'.c_t0_hat = h.c_t0_hat /\ h'.c_s2_raw = h.c_s2_raw /\ h'.c_t0_raw = h.c_t0_raw
        /\ DOMAIN h' = DOMAIN h
    BY <1>5, <2>0 DEF h_dut!Low, HShape
  <2>2. /\ UnitCalled(h_inv, h.call = "inv", ScaledSecret("t0", h.row))
        /\ h_inv' = UnitAfter(h_inv, h.call = "inv", ScaledSecret("t0", h.row), go)
    BY <1>5, HUnits DEF HRuns, HCalls, ScaledSecret
  <2>3. /\ IsUnit(h_inv')
        /\ h_inv.done => UnitRests(h_inv') /\ h_inv'.out = ScaledSecret("t0", h.row)
        /\ ~h_inv.done => UnitCalled(h_inv', FALSE, ScaledSecret("t0", h.row))
    BY <2>2 DEF HShape, UnitAfter, IsUnit, UnitRests, UnitCalled
  <2>4. HShape'
    BY <1>a, <2>1, <2>3 DEF HShape
  <2>5. HCalls'
    BY <1>0, <1>5, <1>a, <2>1, <2>3 DEF HRuns, HCalls
  <2>6. /\ HHatS2' /\ HHatT0' /\ HHatC' /\ HOperands' /\ HProductS2'
        /\ HProductT0' /\ HRawS2' /\ HRawT0'
    BY <1>0, <1>5, <2>1
       DEF HRuns, HPassed, HHatS2, HHatT0, HHatC, HOperands, HProductS2, HProductT0, HRawS2,
           HRawT0
  <2> QED
    BY <2>1, <2>4, <2>5, <2>6 DEF HRuns
<1>6. CASE h.state = "INV_T0_STORE"
  <2>0. h' = IF h.row = K - 1
             THEN [h_dut!Low EXCEPT !.c_t0_raw[h.row] = h_inv.out, !.state = "DONE"]
             ELSE [h_dut!Low EXCEPT !.c_t0_raw[h.row] = h_inv.out, !.row = @ + 1,
                                    !.state = "INV_T0_START"]
    BY <1>6
       DEF h_dut!Clock, h_dut!Begin, h_dut!TransformSecret, h_dut!TransformLowBits,
           h_dut!TransformChallenge, h_dut!ScaleSecret, h_dut!ScaleLowBits, h_dut!NextProduct,
           h_dut!Forward, h_dut!Operands, h_dut!InvertSecret, h_dut!InvertLowBits, h_dut!Inverse,
           h_dut!Complete, h_dut!Waiting, h_dut!FWD_S2, h_dut!FWD_T0, h_dut!FWD_C, h_dut!MUL_S2,
           h_dut!MUL_T0, h_dut!INV_S2, h_dut!INV_T0, h_dut!Transform, h_dut!Product
  <2>1. /\ ~h'.done /\ h'.call = "none"
        /\ h'.c_t0_raw = [h.c_t0_raw EXCEPT ![h.row] = h_inv.out]
        /\ h'.ctr = h.ctr /\ h'.coeff = h.coeff /\ h'.c_hat = h.c_hat /\ h'.s2_hat = h.s2_hat
        /\ h'.t0_hat = h.t0_hat /\ h'.c_s2_hat = h.c_s2_hat /\ h'.c_t0_hat = h.c_t0_hat
        /\ h'.c_s2_raw = h.c_s2_raw /\ DOMAIN h' = DOMAIN h
        /\ IF h.row = K - 1 THEN h'.state = "DONE" /\ h'.row = h.row
           ELSE h'.state = "INV_T0_START" /\ h'.row = h.row + 1
    BY <1>6, <2>0 DEF h_dut!Low, HShape
  <2>2. IsUnit(h_inv') /\ UnitRests(h_inv')
    BY <1>6, HUnits DEF HRuns, HCalls, HShape, UnitAfter, IsUnit, UnitRests
  <2>3. /\ DOMAIN h'.c_t0_raw = Rows
        /\ \A r \in Rows :
             h'.c_t0_raw[r] = IF r = h.row THEN ScaledSecret("t0", r) ELSE h.c_t0_raw[r]
    BY <1>6, <2>1 DEF HShape, HRuns, HCalls
  <2>4. HShape'
    BY <1>a, <2>1, <2>2, <2>3, SizesAre DEF HShape
  <2>5. HCalls'
    BY <1>a, <2>1, <2>2 DEF HCalls
  <2>6. ASSUME NEW r \in Rows, h'.state \in HInvT0 => r < h'.row
        PROVE  r < h.row \/ r = h.row
    <3>1. r \in Nat /\ r < K /\ h.row \in Nat /\ K \in Nat
      BY SizesAre DEF HShape
    <3> QED
      BY <2>1, <2>6, <3>1
  <2>7. HRawT0'
    BY <1>0, <1>6, <2>1, <2>3, <2>6 DEF HRuns, HRawT0
  <2>9. /\ HHatS2' /\ HHatT0' /\ HHatC' /\ HOperands' /\ HProductS2'
        /\ HProductT0' /\ HRawS2'
    BY <1>0, <1>6, <2>1, NoneBelow
       DEF HRuns, HPassed, HHatS2, HHatT0, HHatC, HOperands, HProductS2, HProductT0, HRawS2
  <2> QED
    BY <2>1, <2>4, <2>5, <2>7, <2>9 DEF HRuns
<1> QED
  BY <1>1, <1>2, <1>3, <1>4, <1>5, <1>6

LEMMA HRun ==
  ASSUME HShape, HRuns, reg' = reg, in' = in, NEW go \in BOOLEAN, h_dut!Clock(go)
  PROVE  HShape' /\ (HRuns' \/ HAnswers')
<1>1. CASE h.state = "DONE"
  <2>0. h' = [h_dut!Low EXCEPT !.state = "IDLE", !.done = TRUE]
    BY <1>1
       DEF h_dut!Clock, h_dut!Begin, h_dut!TransformSecret, h_dut!TransformLowBits,
           h_dut!TransformChallenge, h_dut!ScaleSecret, h_dut!ScaleLowBits, h_dut!NextProduct,
           h_dut!Forward, h_dut!Operands, h_dut!InvertSecret, h_dut!InvertLowBits, h_dut!Inverse,
           h_dut!Complete, h_dut!Waiting, h_dut!FWD_S2, h_dut!FWD_T0, h_dut!FWD_C, h_dut!MUL_S2,
           h_dut!MUL_T0, h_dut!INV_S2, h_dut!INV_T0, h_dut!Transform, h_dut!Product
  <2>1. /\ h'.state = "IDLE" /\ h'.done /\ h'.call = "none"
        /\ h'.ctr = h.ctr /\ h'.row = h.row /\ h'.coeff = h.coeff /\ h'.c_hat = h.c_hat
        /\ h'.s2_hat = h.s2_hat /\ h'.t0_hat = h.t0_hat /\ h'.c_s2_hat = h.c_s2_hat
        /\ h'.c_t0_hat = h.c_t0_hat /\ h'.c_s2_raw = h.c_s2_raw /\ h'.c_t0_raw = h.c_t0_raw
        /\ DOMAIN h' = DOMAIN h
    BY <1>1, <2>0 DEF h_dut!Low, HShape
  <2>2. IsUnit(h_fwd') /\ IsUnit(h_inv') /\ HUnitsRest'
    BY <1>1, HUnits DEF HRuns, HCalls, HShape, HUnitsRest, UnitAfter, IsUnit, UnitRests
  <2>3. \A r \in Rows : /\ h.c_s2_raw[r] = ScaledSecret("s2", r)
                       /\ h.c_t0_raw[r] = ScaledSecret("t0", r)
    BY <1>1 DEF HRuns, HRawS2, HRawT0
  <2> QED
    BY <2>1, <2>2, <2>3, SecretsKept DEF HShape, HAnswers
<1> QED
  BY <1>1, HRunTransform, HRunScale, HRunInvert DEF HRuns

-----------------------------------------------------------------------------
(* The units and the cores between the calls of the FSM.                   *)

MuDue == Mu(reg.mu_msg[1], reg.mu_msg[2])
RpDue == RhoPrime(reg.rp_msg[1], reg.rp_msg[2], reg.rp_msg[3])

MuCalls ==
  /\ IsUnit(mu_dut)
  /\ IF state = "WAIT_MU" THEN UnitCalled(mu_dut, call = "mu", MuDue)
     ELSE call # "mu" /\ UnitRests(mu_dut)
RpCalls ==
  /\ IsUnit(rp_dut)
  /\ IF state = "WAIT_RP" THEN UnitCalled(rp_dut, call = "rp", RpDue)
     ELSE call # "rp" /\ UnitRests(rp_dut)

\* A core is called at rest, runs while the FSM waits for it, and answers once.
ACalls ==
  /\ AShape
  /\ IF state = "WAIT_A" THEN (call = "A" /\ ARests) \/ (call # "A" /\ (ARuns \/ AAnswers))
     ELSE call # "A" /\ ARests
EmCalls ==
  /\ EmShape
  /\ IF state = "LOOP_WAIT_EM"
     THEN (call = "em" /\ EmRests) \/ (call # "em" /\ (EmRuns \/ EmAnswers))
     ELSE call # "em" /\ EmRests
MatrixCalls ==
  /\ WShape
  /\ IF state = "LOOP_WAIT_W" THEN (call = "w" /\ WRests) \/ (call # "w" /\ (WRuns \/ WAnswers))
     ELSE call # "w" /\ WRests
ChCalls ==
  /\ ChShape
  /\ IF state = "LOOP_WAIT_CH"
     THEN (call = "ch" /\ ChRests) \/ (call # "ch" /\ (ChRuns \/ ChAnswers))
     ELSE call # "ch" /\ ChRests
ResponseCalls ==
  /\ ZShape
  /\ IF state = "LOOP_WAIT_Z" THEN (call = "z" /\ ZRests) \/ (call # "z" /\ (ZRuns \/ ZAnswers))
     ELSE call # "z" /\ ZRests
HintCalls ==
  /\ HShape
  /\ IF state = "LOOP_WAIT_H" THEN (call = "h" /\ HRests) \/ (call # "h" /\ (HRuns \/ HAnswers))
     ELSE call # "h" /\ HRests

CallsMatch ==
  /\ MuCalls /\ RpCalls /\ ACalls /\ EmCalls /\ MatrixCalls /\ ChCalls /\ ResponseCalls
  /\ HintCalls

LEMMA CallsStart == Init => CallsMatch
<1> SUFFICES ASSUME Init PROVE CallsMatch
  OBVIOUS
<1>1. state = "IDLE" /\ call = "none" /\ mu_dut = IdleUnit /\ rp_dut = IdleUnit
      /\ SamplingInit /\ w_dut!Init /\ z_dut!Init /\ h_dut!Init
  BY DEF Init
<1> QED
  BY <1>1, UnitIdles, AStarts, EmStarts, ChStarts, WStarts, ZStarts, HStarts
     DEF CallsMatch, MuCalls, RpCalls, ACalls, EmCalls, MatrixCalls, ChCalls, ResponseCalls,
         HintCalls

LEMMA CallsReset == CallsMatch /\ Reset => CallsMatch'
<1> SUFFICES ASSUME CallsMatch, Reset PROVE CallsMatch'
  OBVIOUS
<1>1. state' = "IDLE" /\ call' = "none"
  BY DEF Reset, Goes
<1>2. MuCalls' /\ RpCalls'
  BY <1>1, UnitStops DEF CallsMatch, MuCalls, RpCalls, Reset
<1>3. ACalls' /\ EmCalls' /\ ChCalls'
  BY <1>1, AStops, EmStops, ChStops
     DEF CallsMatch, ACalls, EmCalls, ChCalls, Reset, SamplingReset
<1>4. MatrixCalls' /\ ResponseCalls' /\ HintCalls'
  BY <1>1, WStops, ZStops, HStops DEF CallsMatch, MatrixCalls, ResponseCalls, HintCalls, Reset
<1> QED
  BY <1>2, <1>3, <1>4 DEF CallsMatch

\* The FSM calls a unit in one state and leaves the next one when it is done.
FsmWaits(s, u, t, d) ==
  /\ state = s => state' = t /\ call' = u
  /\ state = t /\ ~d => state' = t /\ call' # u /\ reg' = reg
  /\ state = t /\ d => state' # t /\ call' # u
  /\ state \notin {s, t} => state' # t /\ call' # u

LEMMA FsmCalls ==
  ASSUME Fsm
  PROVE  /\ FsmWaits("START_MU", "mu", "WAIT_MU", mu_dut.done)
         /\ FsmWaits("START_RP", "rp", "WAIT_RP", rp_dut.done)
         /\ FsmWaits("START_A", "A", "WAIT_A", A.done)
         /\ FsmWaits("LOOP_START_EM", "em", "LOOP_WAIT_EM", em.done)
         /\ FsmWaits("LOOP_START_W", "w", "LOOP_WAIT_W", w.done)
         /\ FsmWaits("LOOP_START_CH", "ch", "LOOP_WAIT_CH", ch.done)
         /\ FsmWaits("LOOP_START_Z", "z", "LOOP_WAIT_Z", z.done)
         /\ FsmWaits("LOOP_START_H", "h", "LOOP_WAIT_H", h.done)
<1> USE DEF FsmWaits, Starts, Goes, Retry
<1>1. CASE Begin \/ Complete
  BY <1>1 DEF Begin, Complete
<1>2. CASE DeriveSeeds
  BY <1>2 DEF DeriveSeeds
<1>3. CASE ExpandMatrix
  BY <1>3 DEF ExpandMatrix
<1>4. CASE Commit
  BY <1>4 DEF Commit
<1>5. CASE Challenge
  BY <1>5 DEF Challenge
<1>6. CASE Respond
  BY <1>6 DEF Respond
<1>7. CASE Hint
  BY <1>7 DEF Hint
<1>8. CASE Waiting
  BY <1>8 DEF Waiting
<1> QED
  BY <1>1, <1>2, <1>3, <1>4, <1>5, <1>6, <1>7, <1>8 DEF Fsm

LEMMA PortsHeld ==
  ASSUME NEW go \in BOOLEAN, Clock(go), state # "IDLE"
  PROVE  in' = in /\ used' = used
  BY DEF Clock, User

LEMMA UnitsClock ==
  ASSUME MuCalls, RpCalls, NEW go \in BOOLEAN, Clock(go)
  PROVE  MuCalls' /\ RpCalls'
<1>1. /\ FsmWaits("START_MU", "mu", "WAIT_MU", mu_dut.done)
      /\ FsmWaits("START_RP", "rp", "WAIT_RP", rp_dut.done)
  BY FsmCalls DEF Clock
<1>2. /\ mu_dut' = UnitAfter(mu_dut, call = "mu", MuDue, go)
      /\ rp_dut' = UnitAfter(rp_dut, call = "rp", RpDue, go)
  BY DEF Clock, HashEdge, MuDue, RpDue
<1>3. reg' = reg => MuDue' = MuDue /\ RpDue' = RpDue
  BY DEF MuDue, RpDue
<1>4. MuCalls'
  BY <1>1, <1>2, <1>3 DEF MuCalls, FsmWaits, UnitAfter, IsUnit, UnitRests, UnitCalled
<1>5. RpCalls'
  BY <1>1, <1>2, <1>3 DEF RpCalls, FsmWaits, UnitAfter, IsUnit, UnitRests, UnitCalled
<1> QED
  BY <1>4, <1>5

LEMMA SamplingClocks ==
  ASSUME ACalls, EmCalls, ChCalls, NEW go \in BOOLEAN, Clock(go)
  PROVE  ACalls' /\ EmCalls' /\ ChCalls'
<1>1. /\ FsmWaits("START_A", "A", "WAIT_A", A.done)
      /\ FsmWaits("LOOP_START_EM", "em", "LOOP_WAIT_EM", em.done)
      /\ FsmWaits("LOOP_START_CH", "ch", "LOOP_WAIT_CH", ch.done)
  BY FsmCalls DEF Clock
<1>2. AEdge(go) /\ EmEdge(go) /\ ChEdge(go)
  BY DEF Clock, CoresEdge, SamplingClock, SamplersEdge, AEdge, EmEdge, ChEdge
<1>3. ACalls'
  <2>1. CASE state = "WAIT_A" /\ call # "A" /\ ARuns
    <3>1. ~A.done /\ in' = in
      BY <2>1, PortsHeld DEF ARuns
    <3> QED
      BY <1>1, <1>2, <2>1, <3>1, ARun DEF ACalls, FsmWaits
  <2>2. CASE ~(state = "WAIT_A" /\ call # "A" /\ ARuns)
    <3>0. ARests \/ AAnswers
      BY <2>2 DEF ACalls
    <3>1. AShape' /\ (call # "A" => ARests') /\ (call = "A" => ARuns')
      BY <1>2, <3>0, AIdle DEF ACalls
    <3>2. (ARests => ~A.done) /\ (AAnswers => A.done)
      BY DEF ARests, AAnswers
    <3> QED
      BY <1>1, <2>2, <3>1, <3>2 DEF ACalls, FsmWaits
  <2> QED
    BY <2>1, <2>2
<1>4. EmCalls'
  <2>1. CASE state = "LOOP_WAIT_EM" /\ call # "em" /\ EmRuns
    <3>1. ~em.done
      BY <2>1 DEF EmRuns
    <3> QED
      BY <1>1, <1>2, <2>1, <3>1, EmRun DEF EmCalls, FsmWaits
  <2>2. CASE ~(state = "LOOP_WAIT_EM" /\ call # "em" /\ EmRuns)
    <3>0. EmRests \/ EmAnswers
      BY <2>2 DEF EmCalls
    <3>1. EmShape' /\ (call # "em" => EmRests') /\ (call = "em" => EmRuns')
      BY <1>2, <3>0, EmIdle DEF EmCalls
    <3>2. (EmRests => ~em.done) /\ (EmAnswers => em.done)
      BY DEF EmRests, EmAnswers
    <3> QED
      BY <1>1, <2>2, <3>1, <3>2 DEF EmCalls, FsmWaits
  <2> QED
    BY <2>1, <2>2
<1>5. ChCalls'
  <2>1. CASE state = "LOOP_WAIT_CH" /\ call # "ch" /\ ChRuns
    <3>1. ~ch.done
      BY <2>1 DEF ChRuns
    <3> QED
      BY <1>1, <1>2, <2>1, <3>1, ChRun DEF ChCalls, FsmWaits
  <2>2. CASE ~(state = "LOOP_WAIT_CH" /\ call # "ch" /\ ChRuns)
    <3>0. ChRests \/ ChAnswers
      BY <2>2 DEF ChCalls
    <3>1. (ChRests => ~ch.done) /\ (ChAnswers => ch.done)
      BY DEF ChRests, ChAnswers
    <3>2. /\ ChShape' /\ (call # "ch" => ChRests')
          /\ call = "ch" /\ reg' = reg => ChRuns'
      BY <1>2, <3>0, ChIdle DEF ChCalls
    <3> QED
      BY <1>1, <2>2, <3>1, <3>2 DEF ChCalls, FsmWaits
  <2> QED
    BY <2>1, <2>2
<1> QED
  BY <1>3, <1>4, <1>5

LEMMA ArithmeticClocks ==
  ASSUME MatrixCalls, ResponseCalls, HintCalls, NEW go \in BOOLEAN, Clock(go)
  PROVE  MatrixCalls' /\ ResponseCalls' /\ HintCalls'
<1>1. /\ FsmWaits("LOOP_START_W", "w", "LOOP_WAIT_W", w.done)
      /\ FsmWaits("LOOP_START_Z", "z", "LOOP_WAIT_Z", z.done)
      /\ FsmWaits("LOOP_START_H", "h", "LOOP_WAIT_H", h.done)
  BY FsmCalls DEF Clock
<1>2. w_dut!Clock(go) /\ z_dut!Clock(go) /\ h_dut!Clock(go)
  BY DEF Clock, CoresEdge
<1>3. MatrixCalls'
  <2>1. CASE state = "LOOP_WAIT_W" /\ call # "w" /\ WRuns
    <3>1. ~w.done
      BY <2>1 DEF WRuns
    <3> QED
      BY <1>1, <1>2, <2>1, <3>1, WRun DEF MatrixCalls, FsmWaits
  <2>2. CASE ~(state = "LOOP_WAIT_W" /\ call # "w" /\ WRuns)
    <3>0. WRests \/ WAnswers
      BY <2>2 DEF MatrixCalls
    <3>1. WShape' /\ (call # "w" => WRests') /\ (call = "w" => WRuns')
      BY <1>2, <3>0, WIdle DEF MatrixCalls
    <3>2. (WRests => ~w.done) /\ (WAnswers => w.done)
      BY DEF WRests, WAnswers
    <3> QED
      BY <1>1, <2>2, <3>1, <3>2 DEF MatrixCalls, FsmWaits
  <2> QED
    BY <2>1, <2>2
<1>4. ResponseCalls'
  <2>1. CASE state = "LOOP_WAIT_Z" /\ call # "z" /\ ZRuns
    <3>1. ~z.done /\ in' = in
      BY <2>1, PortsHeld DEF ZRuns
    <3> QED
      BY <1>1, <1>2, <2>1, <3>1, ZRun DEF ResponseCalls, FsmWaits
  <2>2. CASE ~(state = "LOOP_WAIT_Z" /\ call # "z" /\ ZRuns)
    <3>0. ZRests \/ ZAnswers
      BY <2>2 DEF ResponseCalls
    <3>1. ZShape' /\ (call # "z" => ZRests') /\ (call = "z" => ZRuns')
      BY <1>2, <3>0, ZIdle DEF ResponseCalls
    <3>2. (ZRests => ~z.done) /\ (ZAnswers => z.done)
      BY DEF ZRests, ZAnswers
    <3> QED
      BY <1>1, <2>2, <3>1, <3>2 DEF ResponseCalls, FsmWaits
  <2> QED
    BY <2>1, <2>2
<1>5. HintCalls'
  <2>1. CASE state = "LOOP_WAIT_H" /\ call # "h" /\ HRuns
    <3>1. ~h.done /\ in' = in
      BY <2>1, PortsHeld DEF HRuns
    <3> QED
      BY <1>1, <1>2, <2>1, <3>1, HRun DEF HintCalls, FsmWaits
  <2>2. CASE ~(state = "LOOP_WAIT_H" /\ call # "h" /\ HRuns)
    <3>0. HRests \/ HAnswers
      BY <2>2 DEF HintCalls
    <3>1. HShape' /\ (call # "h" => HRests') /\ (call = "h" => HRuns')
      BY <1>2, <3>0, HIdle DEF HintCalls
    <3>2. (HRests => ~h.done) /\ (HAnswers => h.done)
      BY DEF HRests, HAnswers
    <3> QED
      BY <1>1, <2>2, <3>1, <3>2 DEF HintCalls, FsmWaits
  <2> QED
    BY <2>1, <2>2
<1> QED
  BY <1>3, <1>4, <1>5

LEMMA CallsKept ==
  ASSUME CallsMatch, UNCHANGED vars
  PROVE  CallsMatch'
<1> USE DEF vars, coreVars, samplingVars
<1>1. MuCalls' /\ RpCalls'
  BY DEF CallsMatch, MuCalls, RpCalls, MuDue, RpDue
<1>2. ACalls'
  BY DEF CallsMatch, ACalls, AShape, ARests, ARuns, AAnswers, IsMatrix, MatrixAt
<1>3. EmCalls'
  BY DEF CallsMatch, EmCalls, EmShape, EmRests, EmRuns, EmAnswers, MaskAt
<1>4. ChCalls'
  BY DEF CallsMatch, ChCalls, ChShape, ChRests, ChRuns, ChAnswers, ChUnitsRest, Message, Tilde
<1>5. MatrixCalls'
  BY DEF CallsMatch, MatrixCalls, WShape, WRests, WRuns, WAnswers, WUnitsRest, WCalls, WMasks,
         WSum, WSums, WResults, MaskHat, RowProducts, RowPartial, RowSum, RowAt
<1>6. ResponseCalls'
  BY DEF CallsMatch, ResponseCalls, ZShape, ZRests, ZRuns, ZAnswers, ZUnitsRest, ZCalls, ZHatS1,
         ZHatC, ZOperands, ZPassed, ZProductS1, ZRawS1, SecretHat, ChallengeHat, ProductHat,
         ScaledSecret
<1>7. HintCalls'
  BY DEF CallsMatch, HintCalls, HShape, HRests, HRuns, HAnswers, HUnitsRest, HCalls, HHatS2,
         HHatT0, HHatC, HOperands, HPassed, HProductS2, HProductT0, HRawS2, HRawT0, SecretHat,
         ChallengeHat, ProductHat, ScaledSecret
<1> QED
  BY <1>1, <1>2, <1>3, <1>4, <1>5, <1>6, <1>7 DEF CallsMatch

(***************************************************************************)
(* In every state of signing (pqc_dilithium_sign_top2.sv) each hash unit   *)
(* and each core is at rest unless the FSM waits for it: it is called at   *)
(* rest, it runs on inputs that do not change under it, and what it has    *)
(* when it answers is what it makes of them, in every attempt, whatever    *)
(* the latencies and whatever a reset or an earlier run left in it.        *)
(***************************************************************************)
THEOREM CoresAnswer == Spec => []CallsMatch
<1>1. CallsMatch /\ [Next]_vars => CallsMatch'
  <2> SUFFICES ASSUME CallsMatch, [Next]_vars PROVE CallsMatch'
    OBVIOUS
  <2>1. CASE UNCHANGED vars
    BY <2>1, CallsKept
  <2>2. CASE Reset
    BY <2>2, CallsReset
  <2>3. ASSUME NEW go \in BOOLEAN, Clock(go) PROVE CallsMatch'
    BY <2>3, UnitsClock, SamplingClocks, ArithmeticClocks DEF CallsMatch
  <2> QED
    BY <2>1, <2>2, <2>3 DEF Next
<1> QED
  BY CallsStart, <1>1, PTL DEF Spec

-----------------------------------------------------------------------------
(* What the registers hold at each stage of an attempt.                    *)

InHints     == {"LOOP_START_H", "LOOP_WAIT_H", "LOOP_CHECK_H", "DONE"}
InResponse  == {"LOOP_START_Z", "LOOP_WAIT_Z", "LOOP_CHECK_Z"} \cup InHints
InChallenge == {"LOOP_START_CH", "LOOP_WAIT_CH"} \cup InResponse
InCommit    == {"LOOP_START_W", "LOOP_WAIT_W"} \cup InChallenge
InLoop      == {"LOOP_START_EM", "LOOP_WAIT_EM"} \cup InCommit
InMatrix    == {"START_A", "WAIT_A"} \cup InLoop
InRho       == {"START_RP", "WAIT_RP"} \cup InMatrix
InRun       == {"START_MU", "WAIT_MU"} \cup InRho

\* The attempt that is made.
Now == reg.iter + 1

PortsKnown ==
  /\ DOMAIN reg = {"mu_msg", "mu", "rp_msg", "rho_prime", "A_hat", "y", "y_zq", "w", "c_tilde",
                   "c", "z", "z_reject", "h", "h_reject", "kappa", "iter"}
  /\ in \in Inputs
  /\ state \in {"IDLE"} \cup InRun
  /\ state # "IDLE" => used = in /\ ~done
SeedsKnown ==
  /\ state \in {"START_MU", "WAIT_MU"} => reg.mu_msg = <<Port("tr", in), Port("m", in)>>
  /\ state \in InRho => reg.mu = MuOf(in)
  /\ state \in {"START_RP", "WAIT_RP"} =>
       reg.rp_msg = <<Port("K", in), Port("rnd", in), MuOf(in)>>
  /\ state \in InMatrix => reg.rho_prime = RhoPrimeOf(in)
MatrixKnown ==
  state \in InLoop => \A i \in Rows, j \in Columns : reg.A_hat[i][j] = MatrixAt(i, j)
AttemptKnown ==
  state \in InLoop =>
    reg.iter \in Nat /\ Now \in 1 .. Passing(in) /\ reg.kappa = Counter(Now)
MasksKnown ==
  /\ state \in InCommit => \A j \in Columns : reg.y[j] = Mask(in, Counter(Now))[j]
  /\ state \in InCommit \ {"LOOP_START_W"} =>
       \A j \in Columns : reg.y_zq[j] = Zq(Mask(in, Counter(Now))[j])
CommitmentKnown ==
  state \in InChallenge => \A i \in Rows : reg.w[i] = Commitment(in, Counter(Now))[i]
ChallengeKnown ==
  state \in InResponse =>
    /\ reg.c_tilde = <<"c~", <<in, Now>>>>
    /\ reg.c = SampleInBall(<<"c~", <<in, Now>>>>)
ResponseKnown ==
  /\ state \in {"LOOP_CHECK_Z"} \cup InHints =>
       reg.z = Attempt(in, Now).z /\ (reg.z_reject <=> Fate[in][Now] = "z")
  /\ state \in InHints => Fate[in][Now] # "z"
HintsKnown ==
  /\ state \in {"LOOP_CHECK_H", "DONE"} =>
       reg.h = Attempt(in, Now).h /\ (reg.h_reject <=> Fate[in][Now] = "h")
  /\ state = "DONE" => Fate[in][Now] = "ok"

StagesKnown ==
  /\ PortsKnown /\ SeedsKnown /\ MatrixKnown /\ AttemptKnown /\ MasksKnown /\ CommitmentKnown
  /\ ChallengeKnown /\ ResponseKnown /\ HintsKnown

\* What each answer is, given what its core was called on.
LEMMA AttemptMade ==
  ASSUME PortsKnown, AttemptKnown, state \in InLoop
  PROVE  /\ IsAttempt(in, Now) /\ Now \in Nat
         /\ Fate[in][Now] \in {"z", "h", "ok"} /\ (Fate[in][Now] = "ok" => Now = Passing(in))
<1>1. in \in Inputs /\ Now \in 1 .. Passing(in)
  BY DEF PortsKnown, AttemptKnown
<1> QED
  BY <1>1, PassingIs

LEMMA MasksAnswered ==
  ASSUME SeedsKnown, AttemptKnown, state \in InLoop, NEW j \in Columns
  PROVE  MaskAt(j) = Mask(in, Counter(Now))[j]
<1>1. reg.rho_prime = RhoPrimeOf(in) /\ reg.kappa = Counter(Now)
  BY DEF SeedsKnown, AttemptKnown, InMatrix
<1> QED
  BY <1>1 DEF MaskAt, Mask

LEMMA RowsAnswered ==
  ASSUME MatrixKnown, MasksKnown, state = "LOOP_WAIT_W", NEW i \in Rows
  PROVE  RowAt(i) = Commitment(in, Counter(Now))[i]
<1>1. \A j \in Columns : reg.y_zq[j] = Zq(Mask(in, Counter(Now))[j])
  BY DEF MasksKnown, InCommit
<1>2. \A j \in Columns : reg.A_hat[i][j] = RejNTTPoly(Port("rho", in), i, j)
  BY DEF MatrixKnown, MatrixAt, InLoop, InCommit
<1>3. RowProducts(i) = Summands(in, Counter(Now), i)
  BY <1>1, <1>2 DEF RowProducts, Summands, MaskHat
<1> QED
  BY <1>3, CommitmentIs DEF RowAt, RowSum, RowPartial

LEMMA HashAnswered ==
  ASSUME PortsKnown, SeedsKnown, AttemptKnown, CommitmentKnown, state = "LOOP_WAIT_CH"
  PROVE  Tilde = <<"c~", <<in, Now>>>>
<1>1. state \in InRho /\ state \in InLoop /\ state \in InChallenge
  BY DEF InRho, InMatrix, InLoop, InCommit, InChallenge
<1>2. reg.mu = MuOf(in)
  BY <1>1 DEF SeedsKnown
<1>3. [i \in Rows |-> HighBits(reg.w[i])] = [i \in Rows |-> HighBits(Commitment(in, Counter(Now))[i])]
  BY <1>1 DEF CommitmentKnown
<1>4. IsAttempt(in, Now)
  BY <1>1, AttemptMade
<1> QED
  BY <1>2, <1>3, <1>4, HashOfAttempt DEF Tilde

LEMMA ChallengeIs ==
  ASSUME ChallengeKnown, state \in InResponse, NEW name, NEW i
  PROVE  ScaledSecret(name, i) = Scaled(Poly(name, in, i), SampleInBall(<<"c~", <<in, Now>>>>))
<1>1. reg.c = SampleInBall(<<"c~", <<in, Now>>>>)
  BY DEF ChallengeKnown
<1> QED
  BY <1>1, ScaledSecretIs

LEMMA ResponseAnswered ==
  ASSUME MasksKnown, ChallengeKnown, ZAnswers, state = "LOOP_WAIT_Z"
  PROVE  z_dut!z_out = Attempt(in, Now).z
<1>1. \A i \in Columns : reg.y[i] = Mask(in, Counter(Now))[i]
  BY DEF MasksKnown, InCommit, InChallenge, InResponse
<1>2. \A i \in Columns :
        z.c_s1_raw[i] = Scaled(Poly("s1", in, i), SampleInBall(<<"c~", <<in, Now>>>>))
  BY ChallengeIs DEF ZAnswers, InResponse
<1>3. z_dut!z_out = [i \in Columns |-> Plus(reg.y[i], z.c_s1_raw[i])]
  BY TermsOfZ, Zenon DEF z_dut!z_out, z_dut!Plus, Plus
<1> QED
  BY <1>1, <1>2, <1>3 DEF Attempt

LEMMA HintsAnswered ==
  ASSUME CommitmentKnown, ChallengeKnown, HAnswers, state = "LOOP_WAIT_H"
  PROVE  h_dut!h_out = Attempt(in, Now).h
<1>1. \A i \in Rows : reg.w[i] = Commitment(in, Counter(Now))[i]
  BY DEF CommitmentKnown, InChallenge, InResponse, InHints
<1>2. \A i \in Rows :
        /\ h.c_s2_raw[i] = Scaled(Poly("s2", in, i), SampleInBall(<<"c~", <<in, Now>>>>))
        /\ h.c_t0_raw[i] = Scaled(Poly("t0", in, i), SampleInBall(<<"c~", <<in, Now>>>>))
  BY ChallengeIs DEF HAnswers, InResponse, InHints
<1>3. h_dut!h_out = [i \in Rows |-> MakeHint(reg.w[i], h.c_s2_raw[i], h.c_t0_raw[i])]
  BY TermsOfH, Zenon DEF h_dut!h_out, h_dut!MakeHint, MakeHint
<1> QED
  BY <1>1, <1>2, <1>3 DEF Attempt

LEMMA ResponseVerdicts == \A f : z_dut!RejectsZ(f) <=> RejectsZ(f)
<1>1. z_dut!Attempts = Attempts /\ z_dut!Made = Made
  BY Zenon
     DEF z_dut!Attempts, Attempts, z_dut!Made, Made, z_dut!Attempt, Attempt, z_dut!Commitment,
         Commitment, z_dut!Mask, Mask, z_dut!MuOf, MuOf, z_dut!RhoPrimeOf, RhoPrimeOf,
         z_dut!Counter, Counter, z_dut!Port, Port, z_dut!Poly, Poly, z_dut!Mu, Mu,
         z_dut!RhoPrime, RhoPrime, z_dut!RejNTTPoly, RejNTTPoly, z_dut!ExpandMask, ExpandMask,
         z_dut!SampleInBall, SampleInBall, z_dut!Plus, Plus, z_dut!Multiply, Multiply, z_dut!Zq,
         Zq, z_dut!NTT, NTT, z_dut!InverseNTT, InverseNTT, z_dut!MakeHint, MakeHint, z_dut!SumTo,
         SumTo, z_dut!Scaled, Scaled, z_dut!Rows, Rows, z_dut!Columns, Columns
<1> QED
  BY <1>1, Zenon DEF z_dut!RejectsZ, RejectsZ

LEMMA HintVerdicts == \A f : h_dut!RejectsH(f) <=> RejectsH(f)
<1>1. h_dut!Attempts = Attempts /\ h_dut!Made = Made
  BY Zenon
     DEF h_dut!Attempts, Attempts, h_dut!Made, Made, h_dut!Attempt, Attempt, h_dut!Commitment,
         Commitment, h_dut!Mask, Mask, h_dut!MuOf, MuOf, h_dut!RhoPrimeOf, RhoPrimeOf,
         h_dut!Counter, Counter, h_dut!Port, Port, h_dut!Poly, Poly, h_dut!Mu, Mu,
         h_dut!RhoPrime, RhoPrime, h_dut!RejNTTPoly, RejNTTPoly, h_dut!ExpandMask, ExpandMask,
         h_dut!SampleInBall, SampleInBall, h_dut!Plus, Plus, h_dut!Multiply, Multiply, h_dut!Zq,
         Zq, h_dut!NTT, NTT, h_dut!InverseNTT, InverseNTT, h_dut!MakeHint, MakeHint, h_dut!SumTo,
         SumTo, h_dut!Scaled, Scaled, h_dut!Rows, Rows, h_dut!Columns, Columns
<1> QED
  BY <1>1, Zenon DEF h_dut!RejectsH, RejectsH

LEMMA VerdictsAnswered ==
  ASSUME PortsKnown, AttemptKnown, MasksKnown, CommitmentKnown, ChallengeKnown
  PROVE  /\ state = "LOOP_WAIT_Z" /\ ZAnswers => (z_dut!reject <=> Fate[in][Now] = "z")
         /\ state = "LOOP_WAIT_H" /\ HAnswers => (h_dut!reject <=> Fate[in][Now] = "h")
<1>1. state \in {"LOOP_WAIT_Z", "LOOP_WAIT_H"} => IsAttempt(in, Now)
  BY AttemptMade DEF InLoop, InCommit, InChallenge, InResponse, InHints
<1>2. ASSUME state = "LOOP_WAIT_Z", ZAnswers PROVE z_dut!reject <=> Fate[in][Now] = "z"
  BY <1>1, <1>2, ResponseAnswered, ResponseVerdicts, VerdictOnZ DEF z_dut!reject
<1>3. ASSUME state = "LOOP_WAIT_H", HAnswers PROVE h_dut!reject <=> Fate[in][Now] = "h"
  BY <1>1, <1>3, HintsAnswered, HintVerdicts, VerdictOnH DEF h_dut!reject
<1> QED
  BY <1>2, <1>3

LEMMA StagesStart == Init => StagesKnown
<1> SUFFICES ASSUME Init PROVE StagesKnown
  OBVIOUS
<1>1. state = "IDLE" /\ in \in Inputs /\ PortsKnown
  BY DEF Init, PortsKnown
<1> QED
  BY <1>1 DEF StagesKnown, SeedsKnown, MatrixKnown, AttemptKnown, MasksKnown, CommitmentKnown,
     ChallengeKnown, ResponseKnown, HintsKnown, InRun, InRho, InMatrix, InLoop, InCommit,
     InChallenge, InResponse, InHints

LEMMA StagesReset == StagesKnown /\ Reset => StagesKnown'
<1> SUFFICES ASSUME StagesKnown, Reset PROVE StagesKnown'
  OBVIOUS
<1>1. state' = "IDLE" /\ reg' = reg /\ in' = in
  BY DEF Reset, Goes
<1>2. PortsKnown'
  BY <1>1 DEF StagesKnown, PortsKnown
<1> QED
  BY <1>1, <1>2 DEF StagesKnown, SeedsKnown, MatrixKnown, AttemptKnown, MasksKnown,
     CommitmentKnown, ChallengeKnown, ResponseKnown, HintsKnown, InRun, InRho, InMatrix, InLoop,
     InCommit, InChallenge, InResponse, InHints

LEMMA StagesStay ==
  ASSUME StagesKnown, state' = state, reg' = reg, in' = in, used' = used, done' = done \/ ~done'
  PROVE  StagesKnown'
<1>1. PortsKnown' /\ SeedsKnown' /\ AttemptKnown'
  BY DEF StagesKnown, PortsKnown, SeedsKnown, AttemptKnown, Now
<1>2. MatrixKnown' /\ MasksKnown' /\ CommitmentKnown'
  BY DEF StagesKnown, MatrixKnown, MasksKnown, CommitmentKnown, MatrixAt, Now
<1>3. ChallengeKnown' /\ ResponseKnown' /\ HintsKnown'
  BY DEF StagesKnown, ChallengeKnown, ResponseKnown, HintsKnown, Now
<1> QED
  BY <1>1, <1>2, <1>3 DEF StagesKnown

LEMMA StagesBegin ==
  ASSUME StagesKnown, NEW go \in BOOLEAN, Clock(go), Begin
  PROVE  StagesKnown'
<1>1. /\ state' = "START_MU" /\ done' = FALSE
      /\ reg' = [reg EXCEPT !.mu_msg = <<Port("tr", in), Port("m", in)>>]
      /\ in' = in /\ used' = in
  BY DEF Clock, User, Begin, Goes
<1>2. PortsKnown'
  BY <1>1 DEF StagesKnown, PortsKnown, InRun
<1>3. SeedsKnown'
  BY <1>1 DEF StagesKnown, PortsKnown, SeedsKnown, InRho, InMatrix, InLoop, InCommit, InChallenge,
     InResponse, InHints
<1> QED
  BY <1>1, <1>2, <1>3 DEF StagesKnown, MatrixKnown, AttemptKnown, MasksKnown, CommitmentKnown,
     ChallengeKnown, ResponseKnown, HintsKnown, InLoop, InCommit, InChallenge, InResponse, InHints

LEMMA StagesSeeds ==
  ASSUME CallsMatch, StagesKnown, NEW go \in BOOLEAN, Clock(go), DeriveSeeds
  PROVE  StagesKnown'
<1>0. state \in {"START_MU", "WAIT_MU", "START_RP", "WAIT_RP"} /\ in' = in /\ used' = used
  BY PortsHeld DEF DeriveSeeds, Starts
<1>1. /\ state = "WAIT_MU" /\ mu_dut.done => mu_dut.out = MuOf(in)
      /\ state = "WAIT_RP" /\ rp_dut.done => rp_dut.out = RhoPrimeOf(in)
  BY DEF CallsMatch, MuCalls, RpCalls, UnitCalled, StagesKnown, SeedsKnown, MuDue, RpDue, MuOf,
     RhoPrimeOf
<1>2. /\ state' \in {"WAIT_MU", "START_RP", "WAIT_RP", "START_A"} /\ done' = FALSE
      /\ DOMAIN reg' = DOMAIN reg
  BY DEF DeriveSeeds, Starts, Goes
<1>3. PortsKnown'
  BY <1>0, <1>2 DEF StagesKnown, PortsKnown, InRun, InRho, InMatrix
<1>4. SeedsKnown'
  <2> USE DEF SeedsKnown, InRho, InMatrix, InLoop, InCommit, InChallenge, InResponse, InHints
  <2>1. CASE Starts("START_MU", "mu", reg, "WAIT_MU") \/ Starts("START_RP", "rp", reg, "WAIT_RP")
    BY <1>0, <2>1 DEF StagesKnown, Starts
  <2>2. CASE state = "WAIT_MU" /\ mu_dut.done
    <3>1. /\ state' = "START_RP"
          /\ reg' = [reg EXCEPT !.mu = MuOf(in),
                                !.rp_msg = <<Port("K", in), Port("rnd", in), MuOf(in)>>]
      BY <1>1, <2>2 DEF DeriveSeeds, Goes, Starts
    <3> QED
      BY <1>0, <3>1 DEF StagesKnown, PortsKnown
  <2>3. CASE state = "WAIT_RP" /\ rp_dut.done
    <3>1. /\ state' = "START_A"
          /\ reg' = [reg EXCEPT !.rho_prime = RhoPrimeOf(in)]
      BY <1>1, <2>3 DEF DeriveSeeds, Goes, Starts
    <3> QED
      BY <1>0, <2>3, <3>1 DEF StagesKnown, PortsKnown
  <2> QED
    BY <2>1, <2>2, <2>3 DEF DeriveSeeds
<1> QED
  BY <1>2, <1>3, <1>4 DEF StagesKnown, MatrixKnown, AttemptKnown, MasksKnown, CommitmentKnown,
     ChallengeKnown, ResponseKnown, HintsKnown, InLoop, InCommit, InChallenge, InResponse, InHints

\* The seeds and the matrix stay for all attempts of a run.
LEMMA SeedsStay ==
  ASSUME StagesKnown, state \in InLoop, state' \in InLoop, in' = in,
         reg'.mu = reg.mu, reg'.rho_prime = reg.rho_prime, reg'.A_hat = reg.A_hat
  PROVE  SeedsKnown' /\ MatrixKnown'
<1>1. /\ state \in InRho /\ state \in InMatrix
      /\ state' \notin {"START_MU", "WAIT_MU", "START_RP", "WAIT_RP"}
  BY DEF InRho, InMatrix, InLoop, InCommit, InChallenge, InResponse, InHints
<1>2. SeedsKnown'
  BY <1>1 DEF StagesKnown, SeedsKnown
<1>3. MatrixKnown'
  BY DEF StagesKnown, MatrixKnown, MatrixAt
<1> QED
  BY <1>2, <1>3

\* A step inside an attempt that leaves the first registers alone.
LEMMA AttemptStays ==
  ASSUME StagesKnown, state \in InLoop, state' \in InLoop, in' = in,
         reg'.iter = reg.iter, reg'.kappa = reg.kappa
  PROVE  AttemptKnown'
  BY DEF StagesKnown, AttemptKnown, Now

LEMMA MasksStay ==
  ASSUME StagesKnown, state \in InCommit \ {"LOOP_START_W"}, state' \in InCommit, in' = in,
         reg'.iter = reg.iter, reg'.y = reg.y, reg'.y_zq = reg.y_zq
  PROVE  MasksKnown'
  BY DEF StagesKnown, MasksKnown, Now

LEMMA CommitmentStays ==
  ASSUME StagesKnown, state \in InChallenge, in' = in, reg'.iter = reg.iter, reg'.w = reg.w
  PROVE  CommitmentKnown'
  BY DEF StagesKnown, CommitmentKnown, Now

LEMMA ChallengeStays ==
  ASSUME StagesKnown, state \in InResponse, in' = in, reg'.iter = reg.iter,
         reg'.c_tilde = reg.c_tilde, reg'.c = reg.c
  PROVE  ChallengeKnown'
  BY DEF StagesKnown, ChallengeKnown, Now

LEMMA StagesMatrix ==
  ASSUME CallsMatch, StagesKnown, NEW go \in BOOLEAN, Clock(go), ExpandMatrix
  PROVE  StagesKnown'
<1>0. state \in {"START_A", "WAIT_A"} /\ in' = in /\ used' = used
  BY PortsHeld DEF ExpandMatrix, Starts
<1>1. CASE Starts("START_A", "A", reg, "WAIT_A")
  <2>1. state' = "WAIT_A" /\ reg' = reg /\ done' = FALSE
    BY <1>1 DEF Starts
  <2>2. PortsKnown' /\ SeedsKnown'
    BY <1>0, <2>1 DEF StagesKnown, PortsKnown, SeedsKnown, InRun, InRho, InMatrix, InLoop,
       InCommit, InChallenge, InResponse, InHints
  <2> QED
    BY <2>1, <2>2 DEF StagesKnown, MatrixKnown, AttemptKnown, MasksKnown, CommitmentKnown,
       ChallengeKnown, ResponseKnown, HintsKnown, InLoop, InCommit, InChallenge, InResponse, InHints
<1>2. CASE state = "WAIT_A" /\ A.done
  <2>1. /\ state' = "LOOP_START_EM" /\ done' = FALSE
        /\ reg' = [reg EXCEPT !.A_hat = A.A_mem, !.kappa = 0, !.iter = 0]
    BY <1>2 DEF ExpandMatrix, Starts, Goes
  <2>2. \A i \in Rows, j \in Columns : A.A_mem[i][j] = MatrixAt(i, j)
    BY <1>2 DEF CallsMatch, ACalls, ARests, ARuns, AAnswers, IsMatrix
  <2>3. /\ DOMAIN reg' = DOMAIN reg /\ reg'.A_hat = A.A_mem /\ reg'.kappa = 0 /\ reg'.iter = 0
        /\ reg'.mu = reg.mu /\ reg'.rho_prime = reg.rho_prime
    BY <2>1 DEF StagesKnown, PortsKnown
  <2>4. PortsKnown' /\ SeedsKnown'
    BY <1>0, <2>1, <2>3 DEF StagesKnown, PortsKnown, SeedsKnown, InRun, InRho, InMatrix, InLoop,
       InCommit, InChallenge, InResponse, InHints
  <2>5. MatrixKnown'
    BY <1>0, <2>2, <2>3 DEF MatrixKnown, MatrixAt
  <2>6. AttemptKnown'
    <3>1. in \in Inputs
      BY DEF StagesKnown, PortsKnown
    <3>2. Passing(in) \in Nat /\ Passing(in) >= 1
      BY <3>1, PassingIs, AttemptsAre
    <3>3. Now' = 1 /\ Counter(1) = 0
      BY <2>3, SizesAre DEF Now, Counter
    <3> QED
      BY <1>0, <2>3, <3>2, <3>3 DEF AttemptKnown
  <2> QED
    BY <2>1, <2>4, <2>5, <2>6 DEF StagesKnown, MasksKnown, CommitmentKnown, ChallengeKnown,
       ResponseKnown, HintsKnown, InCommit, InChallenge, InResponse, InHints
<1> QED
  BY <1>1, <1>2 DEF ExpandMatrix

LEMMA StagesCommit ==
  ASSUME CallsMatch, StagesKnown, NEW go \in BOOLEAN, Clock(go), Commit
  PROVE  StagesKnown'
<1>0. /\ state \in {"LOOP_START_EM", "LOOP_WAIT_EM", "LOOP_START_W", "LOOP_WAIT_W"}
      /\ state' \in {"LOOP_WAIT_EM", "LOOP_START_W", "LOOP_WAIT_W", "LOOP_START_CH"}
      /\ in' = in /\ used' = used /\ done' = FALSE
  BY PortsHeld DEF Commit, Starts, Goes
<1>1. state \in InLoop /\ state' \in InLoop /\ state' \notin InResponse /\ state' # "IDLE"
  BY <1>0 DEF InLoop, InCommit, InChallenge, InResponse, InHints
<1>2. /\ DOMAIN reg' = DOMAIN reg /\ reg'.A_hat = reg.A_hat /\ reg'.kappa = reg.kappa
      /\ reg'.iter = reg.iter /\ reg'.mu = reg.mu /\ reg'.rho_prime = reg.rho_prime
  BY DEF Commit, Starts, Goes, StagesKnown, PortsKnown
<1>3. PortsKnown'
  BY <1>0, <1>1, <1>2 DEF StagesKnown, PortsKnown, InRun, InRho, InMatrix
<1>4. SeedsKnown' /\ MatrixKnown' /\ AttemptKnown'
  BY <1>0, <1>1, <1>2, SeedsStay, AttemptStays
<1>5. Now' = Now
  BY <1>2 DEF Now
<1>6. MasksKnown' /\ CommitmentKnown'
  <2> USE DEF InCommit, InChallenge
  <2>1. CASE Starts("LOOP_START_EM", "em", reg, "LOOP_WAIT_EM")
    BY <1>1, <2>1 DEF Starts, MasksKnown, CommitmentKnown
  <2>2. CASE state = "LOOP_WAIT_EM" /\ em.done
    <3>1. state' = "LOOP_START_W" /\ reg'.y = em.y_mem
      BY <2>2 DEF Commit, Starts, Goes, StagesKnown, PortsKnown
    <3>2. \A j \in Columns : em.y_mem[j] = MaskAt(j)
      BY <2>2 DEF CallsMatch, EmCalls, EmRests, EmRuns, EmAnswers
    <3>3. \A j \in Columns : em.y_mem[j] = Mask(in, Counter(Now))[j]
      BY <1>1, <3>2, MasksAnswered DEF StagesKnown
    <3> QED
      BY <1>0, <1>1, <1>5, <3>1, <3>3 DEF MasksKnown, CommitmentKnown
  <2>3. CASE state = "LOOP_START_W"
    <3>1. /\ state' = "LOOP_WAIT_W"
          /\ reg' = [reg EXCEPT !.y_zq = [j \in Columns |-> Zq(reg.y[j])]]
      BY <2>3 DEF Commit, Starts, Goes
    <3>2. reg'.y = reg.y /\ reg'.y_zq = [j \in Columns |-> Zq(reg.y[j])]
      BY <3>1 DEF StagesKnown, PortsKnown
    <3>3. \A j \in Columns : reg.y[j] = Mask(in, Counter(Now))[j]
      BY <2>3 DEF StagesKnown, MasksKnown
    <3> QED
      BY <1>0, <1>1, <1>5, <3>1, <3>2, <3>3 DEF MasksKnown, CommitmentKnown
  <2>4. CASE state = "LOOP_WAIT_W" /\ w.done
    <3>1. state' = "LOOP_START_CH" /\ reg' = [reg EXCEPT !.w = w.w_raw]
      BY <2>4 DEF Commit, Starts, Goes
    <3>2. reg'.y = reg.y /\ reg'.y_zq = reg.y_zq /\ reg'.w = w.w_raw
      BY <3>1 DEF StagesKnown, PortsKnown
    <3>3. \A i \in Rows : w.w_raw[i] = RowAt(i)
      BY <2>4 DEF CallsMatch, MatrixCalls, WRests, WRuns, WAnswers
    <3>4. \A i \in Rows : w.w_raw[i] = Commitment(in, Counter(Now))[i]
      BY <2>4, <3>3, RowsAnswered DEF StagesKnown
    <3>5. CommitmentKnown'
      BY <1>0, <1>5, <3>2, <3>4 DEF CommitmentKnown
    <3>6. MasksKnown'
      BY <1>0, <1>2, <2>4, <3>1, <3>2, MasksStay
    <3> QED
      BY <3>5, <3>6
  <2> QED
    BY <2>1, <2>2, <2>3, <2>4 DEF Commit, Starts
<1> QED
  BY <1>1, <1>3, <1>4, <1>6 DEF StagesKnown, ChallengeKnown, ResponseKnown, HintsKnown,
     InResponse, InHints

LEMMA StagesChallenge ==
  ASSUME CallsMatch, StagesKnown, NEW go \in BOOLEAN, Clock(go), Challenge
  PROVE  StagesKnown'
<1>0. /\ state \in {"LOOP_START_CH", "LOOP_WAIT_CH"}
      /\ state' \in {"LOOP_WAIT_CH", "LOOP_START_Z"}
      /\ in' = in /\ used' = used /\ done' = FALSE
  BY PortsHeld DEF Challenge, Starts, Goes
<1>1. /\ state \in InLoop /\ state' \in InLoop /\ state \in InChallenge /\ state' \in InCommit
      /\ state \in InCommit \ {"LOOP_START_W"} /\ state' \notin {"LOOP_CHECK_Z"} \cup InHints
  BY <1>0 DEF InLoop, InCommit, InChallenge, InResponse, InHints
<1>2. /\ DOMAIN reg' = DOMAIN reg /\ reg'.A_hat = reg.A_hat /\ reg'.kappa = reg.kappa
      /\ reg'.iter = reg.iter /\ reg'.mu = reg.mu /\ reg'.rho_prime = reg.rho_prime
      /\ reg'.y = reg.y /\ reg'.y_zq = reg.y_zq /\ reg'.w = reg.w
  BY DEF Challenge, Starts, Goes, StagesKnown, PortsKnown
<1>3. PortsKnown'
  BY <1>0, <1>1, <1>2 DEF StagesKnown, PortsKnown, InRun, InRho, InMatrix
<1>4. SeedsKnown' /\ MatrixKnown' /\ AttemptKnown' /\ MasksKnown' /\ CommitmentKnown'
  BY <1>0, <1>1, <1>2, SeedsStay, AttemptStays, MasksStay, CommitmentStays
<1>5. ChallengeKnown'
  <2>1. CASE Starts("LOOP_START_CH", "ch", reg, "LOOP_WAIT_CH")
    BY <2>1 DEF Starts, ChallengeKnown, InResponse, InHints
  <2>2. CASE state = "LOOP_WAIT_CH" /\ ch.done
    <3>1. reg' = [reg EXCEPT !.c_tilde = ch.c_tilde, !.c = ch_sib.out]
      BY <2>2 DEF Challenge, Starts, Goes
    <3>2. reg'.c_tilde = ch.c_tilde /\ reg'.c = ch_sib.out /\ Now' = Now
      BY <3>1 DEF StagesKnown, PortsKnown, Now
    <3>3. ch.c_tilde = Tilde /\ ch_sib.out = SampleInBall(Tilde)
      BY <2>2 DEF CallsMatch, ChCalls, ChRests, ChRuns, ChAnswers
    <3>4. Tilde = <<"c~", <<in, Now>>>>
      BY <2>2, HashAnswered DEF StagesKnown
    <3> QED
      BY <1>0, <3>2, <3>3, <3>4 DEF ChallengeKnown
  <2> QED
    BY <2>1, <2>2 DEF Challenge
<1> QED
  BY <1>1, <1>3, <1>4, <1>5 DEF StagesKnown, ResponseKnown, HintsKnown, InHints

\* A rejected attempt was not the last one, and the counters move on together.
LEMMA NextAttempt ==
  ASSUME StagesKnown, state \in InLoop, Fate[in][Now] # "ok",
         reg'.kappa = reg.kappa + L, reg'.iter = reg.iter + 1, in' = in
  PROVE  AttemptKnown'
<1>1. in \in Inputs /\ reg.iter \in Nat /\ Now \in 1 .. Passing(in) /\ reg.kappa = Counter(Now)
  BY DEF StagesKnown, PortsKnown, AttemptKnown
<1>2. Now # Passing(in) /\ Passing(in) \in Nat
  BY <1>1, PassingIs, AttemptsAre
<1>3. Now' = Now + 1 /\ Now \in Nat /\ reg'.iter \in Nat
  BY <1>1 DEF Now
<1>4. Now' \in 1 .. Passing(in)
  BY <1>1, <1>2, <1>3
<1>5. Counter(Now + 1) = Counter(Now) + L
  <2>1. \A n \in Nat : ((n + 1) - 1) * L = (n - 1) * L + L
    BY SizesAre
  <2> QED
    BY <1>3, <2>1 DEF Counter
<1> QED
  BY <1>1, <1>3, <1>4, <1>5 DEF AttemptKnown

LEMMA StagesRetry ==
  ASSUME StagesKnown, NEW go \in BOOLEAN, Clock(go), Retry,
         state \in {"LOOP_CHECK_Z", "LOOP_CHECK_H"}, Fate[in][Now] # "ok"
  PROVE  StagesKnown'
<1>0. /\ state' = "LOOP_START_EM" /\ in' = in /\ used' = used /\ done' = FALSE
      /\ reg' = [reg EXCEPT !.kappa = @ + L, !.iter = @ + 1]
  BY PortsHeld DEF Retry, Goes
<1>1. state \in InLoop /\ state' \in InLoop /\ state' \notin InCommit
  BY <1>0 DEF InLoop, InCommit, InChallenge, InResponse, InHints
<1>2. /\ DOMAIN reg' = DOMAIN reg /\ reg'.A_hat = reg.A_hat /\ reg'.mu = reg.mu
      /\ reg'.rho_prime = reg.rho_prime
      /\ reg'.kappa = reg.kappa + L /\ reg'.iter = reg.iter + 1
  BY <1>0 DEF StagesKnown, PortsKnown
<1>3. PortsKnown'
  BY <1>0, <1>2 DEF StagesKnown, PortsKnown, InRun, InRho, InMatrix, InLoop
<1>4. SeedsKnown' /\ MatrixKnown' /\ AttemptKnown'
  BY <1>0, <1>1, <1>2, SeedsStay, NextAttempt
<1> QED
  BY <1>0, <1>3, <1>4 DEF StagesKnown, MasksKnown, CommitmentKnown, ChallengeKnown, ResponseKnown,
     HintsKnown, InCommit, InChallenge, InResponse, InHints

\* What the checks of a response and of the hints find known before them.
LEMMA StagesBefore ==
  ASSUME StagesKnown, state \in InResponse, state' \in InResponse, in' = in, used' = used,
         done' = FALSE, DOMAIN reg' = DOMAIN reg,
         reg'.A_hat = reg.A_hat, reg'.kappa = reg.kappa, reg'.iter = reg.iter, reg'.mu = reg.mu,
         reg'.rho_prime = reg.rho_prime, reg'.y = reg.y, reg'.y_zq = reg.y_zq, reg'.w = reg.w,
         reg'.c_tilde = reg.c_tilde, reg'.c = reg.c
  PROVE  /\ PortsKnown' /\ SeedsKnown' /\ MatrixKnown' /\ AttemptKnown' /\ MasksKnown'
         /\ CommitmentKnown' /\ ChallengeKnown'
<1>1. /\ state \in InLoop /\ state' \in InLoop /\ state \in InChallenge /\ state' \in InCommit
      /\ state \in InCommit \ {"LOOP_START_W"} /\ state' \in InRun
      /\ state # "IDLE" /\ state' # "IDLE"
  BY DEF InLoop, InCommit, InChallenge, InResponse, InHints, InRun, InRho, InMatrix
<1>2. PortsKnown'
  BY <1>1 DEF StagesKnown, PortsKnown
<1> QED
  BY <1>1, <1>2, SeedsStay, AttemptStays, MasksStay, CommitmentStays, ChallengeStays

LEMMA StagesRespond ==
  ASSUME CallsMatch, StagesKnown, NEW go \in BOOLEAN, Clock(go), Respond
  PROVE  StagesKnown'
<1>0. /\ state \in {"LOOP_START_Z", "LOOP_WAIT_Z", "LOOP_CHECK_Z"} /\ state \in InResponse
      /\ in' = in /\ used' = used
  BY PortsHeld DEF Respond, Starts, InResponse
<1>1. CASE Starts("LOOP_START_Z", "z", reg, "LOOP_WAIT_Z")
  <2>1. state' = "LOOP_WAIT_Z" /\ reg' = reg /\ done' = FALSE /\ state' \in InResponse
    BY <1>1 DEF Starts, InResponse
  <2> QED
    BY <1>0, <2>1, StagesBefore DEF StagesKnown, ResponseKnown, HintsKnown, InHints
<1>2. CASE state = "LOOP_WAIT_Z" /\ z.done
  <2>1. /\ state' = "LOOP_CHECK_Z" /\ done' = FALSE /\ state' \in InResponse
        /\ reg' = [reg EXCEPT !.z = z_dut!z_out, !.z_reject = z_dut!reject]
    BY <1>2 DEF Respond, Starts, Goes, InResponse
  <2>2. /\ DOMAIN reg' = DOMAIN reg
        /\ reg'.A_hat = reg.A_hat /\ reg'.kappa = reg.kappa /\ reg'.iter = reg.iter
        /\ reg'.mu = reg.mu /\ reg'.rho_prime = reg.rho_prime /\ reg'.y = reg.y
        /\ reg'.y_zq = reg.y_zq /\ reg'.w = reg.w /\ reg'.c_tilde = reg.c_tilde /\ reg'.c = reg.c
    BY <2>1 DEF StagesKnown, PortsKnown
  <2>3. reg'.z = z_dut!z_out /\ reg'.z_reject = z_dut!reject
    BY <2>1 DEF StagesKnown, PortsKnown
  <2>4. ZAnswers
    BY <1>2 DEF CallsMatch, ResponseCalls, ZRests, ZRuns
  <2>5. z_dut!z_out = Attempt(in, Now).z /\ (z_dut!reject <=> Fate[in][Now] = "z")
    BY <1>2, <2>4, ResponseAnswered, VerdictsAnswered DEF StagesKnown
  <2>6. Now' = Now
    BY <2>2 DEF Now
  <2>7. ResponseKnown' /\ HintsKnown'
    BY <1>0, <2>1, <2>3, <2>5, <2>6 DEF ResponseKnown, HintsKnown, InHints
  <2> QED
    BY <1>0, <2>1, <2>2, <2>7, StagesBefore DEF StagesKnown
<1>3. CASE state = "LOOP_CHECK_Z" /\ reg.z_reject /\ Retry
  <2>1. Fate[in][Now] # "ok"
    BY <1>3 DEF StagesKnown, ResponseKnown
  <2> QED
    BY <1>3, <2>1, StagesRetry
<1>4. CASE state = "LOOP_CHECK_Z" /\ ~reg.z_reject /\ Goes("LOOP_START_H", reg)
  <2>1. state' = "LOOP_START_H" /\ reg' = reg /\ done' = FALSE /\ state' \in InResponse
    BY <1>4 DEF Goes, InResponse, InHints
  <2>2. ResponseKnown' /\ HintsKnown'
    BY <1>0, <1>4, <2>1 DEF StagesKnown, ResponseKnown, HintsKnown, InHints, Now
  <2> QED
    BY <1>0, <2>1, <2>2, StagesBefore DEF StagesKnown
<1> QED
  BY <1>1, <1>2, <1>3, <1>4 DEF Respond

LEMMA StagesHint ==
  ASSUME CallsMatch, StagesKnown, NEW go \in BOOLEAN, Clock(go), Hint
  PROVE  StagesKnown'
<1>0. /\ state \in {"LOOP_START_H", "LOOP_WAIT_H", "LOOP_CHECK_H"}
      /\ state \in InResponse /\ state \in InHints /\ state \in InLoop
      /\ in' = in /\ used' = used
  BY PortsHeld DEF Hint, Starts, InLoop, InCommit, InChallenge, InResponse, InHints
<1>1. CASE Starts("LOOP_START_H", "h", reg, "LOOP_WAIT_H")
  <2>1. state' = "LOOP_WAIT_H" /\ reg' = reg /\ done' = FALSE /\ state' \in InResponse
    BY <1>1 DEF Starts, InResponse, InHints
  <2>2. ResponseKnown' /\ HintsKnown'
    BY <1>0, <2>1 DEF StagesKnown, ResponseKnown, HintsKnown, Now
  <2> QED
    BY <1>0, <2>1, <2>2, StagesBefore DEF StagesKnown
<1>2. CASE state = "LOOP_WAIT_H" /\ h.done
  <2>1. /\ state' = "LOOP_CHECK_H" /\ done' = FALSE /\ state' \in InResponse
        /\ reg' = [reg EXCEPT !.h = h_dut!h_out, !.h_reject = h_dut!reject]
    BY <1>2 DEF Hint, Starts, Goes, InResponse, InHints
  <2>2. /\ DOMAIN reg' = DOMAIN reg
        /\ reg'.A_hat = reg.A_hat /\ reg'.kappa = reg.kappa /\ reg'.iter = reg.iter
        /\ reg'.mu = reg.mu /\ reg'.rho_prime = reg.rho_prime /\ reg'.y = reg.y
        /\ reg'.y_zq = reg.y_zq /\ reg'.w = reg.w /\ reg'.c_tilde = reg.c_tilde /\ reg'.c = reg.c
    BY <2>1 DEF StagesKnown, PortsKnown
  <2>3. /\ reg'.h = h_dut!h_out /\ reg'.h_reject = h_dut!reject
        /\ reg'.z = reg.z /\ reg'.z_reject = reg.z_reject
    BY <2>1 DEF StagesKnown, PortsKnown
  <2>4. HAnswers
    BY <1>2 DEF CallsMatch, HintCalls, HRests, HRuns
  <2>5. h_dut!h_out = Attempt(in, Now).h /\ (h_dut!reject <=> Fate[in][Now] = "h")
    BY <1>2, <2>4, HintsAnswered, VerdictsAnswered DEF StagesKnown
  <2>6. Now' = Now
    BY <2>2 DEF Now
  <2>7. ResponseKnown' /\ HintsKnown'
    BY <1>0, <2>1, <2>3, <2>5, <2>6 DEF StagesKnown, ResponseKnown, HintsKnown
  <2> QED
    BY <1>0, <2>1, <2>2, <2>7, StagesBefore DEF StagesKnown
<1>3. CASE state = "LOOP_CHECK_H" /\ reg.h_reject /\ Retry
  <2>1. Fate[in][Now] # "ok"
    BY <1>3 DEF StagesKnown, HintsKnown
  <2> QED
    BY <1>3, <2>1, StagesRetry
<1>4. CASE state = "LOOP_CHECK_H" /\ ~reg.h_reject /\ Goes("DONE", reg)
  <2>1. state' = "DONE" /\ reg' = reg /\ done' = FALSE /\ state' \in InResponse
    BY <1>4 DEF Goes, InResponse, InHints
  <2>2. Fate[in][Now] \in {"z", "h", "ok"} /\ Fate[in][Now] # "z" /\ Fate[in][Now] # "h"
    BY <1>0, <1>4, AttemptMade DEF StagesKnown, ResponseKnown, HintsKnown
  <2>3. ResponseKnown' /\ HintsKnown'
    BY <1>0, <1>4, <2>1, <2>2 DEF StagesKnown, ResponseKnown, HintsKnown, Now
  <2> QED
    BY <1>0, <2>1, <2>3, StagesBefore DEF StagesKnown
<1> QED
  BY <1>1, <1>2, <1>3, <1>4 DEF Hint

LEMMA StagesComplete ==
  ASSUME StagesKnown, NEW go \in BOOLEAN, Clock(go), Complete
  PROVE  StagesKnown' /\ SignatureCorrect'
<1>0. state = "DONE" /\ state' = "IDLE" /\ reg' = reg /\ in' = in /\ used' = used
  BY PortsHeld DEF Complete
<1>1. PortsKnown'
  BY <1>0 DEF StagesKnown, PortsKnown
<1>2. StagesKnown'
  BY <1>0, <1>1 DEF StagesKnown, SeedsKnown, MatrixKnown, AttemptKnown, MasksKnown,
     CommitmentKnown, ChallengeKnown, ResponseKnown, HintsKnown, InRho, InMatrix, InLoop, InCommit,
     InChallenge, InResponse, InHints
<1>3. state \in InLoop /\ state \in InResponse /\ state \in InHints
  BY <1>0 DEF InLoop, InCommit, InChallenge, InResponse, InHints
<1>4. used = in /\ Fate[in][Now] = "ok" /\ reg.kappa = Counter(Now) /\ reg.iter \in Nat
  BY <1>0, <1>3 DEF StagesKnown, PortsKnown, HintsKnown, AttemptKnown
<1>5. IsAttempt(in, Now) /\ Now = Passing(in)
  BY <1>3, <1>4, AttemptMade DEF StagesKnown
<1>6. Made[<<in, Now>>] = Attempt(in, Now)
  BY <1>5, MadeIs
<1>7. /\ reg.c_tilde = Attempt(in, Now).c_tilde /\ reg.z = Attempt(in, Now).z
      /\ reg.h = Attempt(in, Now).h
  BY <1>0, <1>3 DEF StagesKnown, ChallengeKnown, ResponseKnown, HintsKnown, Attempt
<1>8. reg.iter = Now - 1
  BY <1>4 DEF Now
<1>9. SignatureCorrect'
  BY <1>0, <1>4, <1>5, <1>6, <1>7, <1>8 DEF SignatureCorrect
<1> QED
  BY <1>2, <1>9

LEMMA StagesWaiting ==
  ASSUME StagesKnown, NEW go \in BOOLEAN, Clock(go), Waiting
  PROVE  StagesKnown'
<1>1. state' = state /\ reg' = reg /\ done' = FALSE
  BY DEF Waiting, Goes
<1>2. CASE state # "IDLE"
  BY <1>1, <1>2, PortsHeld, StagesStay
<1>3. CASE state = "IDLE"
  <2>1. in' \in Inputs
    BY <1>3 DEF Clock, User, StagesKnown, PortsKnown
  <2>2. PortsKnown'
    BY <1>1, <1>3, <2>1 DEF StagesKnown, PortsKnown
  <2> QED
    BY <1>1, <1>3, <2>2 DEF StagesKnown, SeedsKnown, MatrixKnown, AttemptKnown, MasksKnown,
       CommitmentKnown, ChallengeKnown, ResponseKnown, HintsKnown, InRho, InMatrix, InLoop,
       InCommit, InChallenge, InResponse, InHints
<1> QED
  BY <1>2, <1>3

\* Only Complete raises done.
LEMMA DoneRises ==
  ASSUME NEW go \in BOOLEAN, Clock(go), ~Complete
  PROVE  done' = FALSE
<1>1. CASE Begin \/ Waiting
  BY <1>1 DEF Begin, Waiting, Goes
<1>2. CASE DeriveSeeds \/ ExpandMatrix \/ Commit \/ Challenge \/ Respond \/ Hint
  BY <1>2, WorkInside
<1> QED
  BY <1>1, <1>2 DEF Clock, Fsm

LEMMA StagesClock ==
  ASSUME CallsMatch, StagesKnown, NEW go \in BOOLEAN, Clock(go)
  PROVE  StagesKnown' /\ SignatureCorrect'
<1>1. CASE Complete
  BY <1>1, StagesComplete
<1>2. CASE ~Complete
  <2>1. SignatureCorrect'
    BY <1>2, DoneRises DEF SignatureCorrect
  <2>2. StagesKnown'
    BY <1>2, StagesBegin, StagesSeeds, StagesMatrix, StagesCommit, StagesChallenge,
       StagesRespond, StagesHint, StagesWaiting DEF Clock, Fsm
  <2> QED
    BY <2>1, <2>2
<1> QED
  BY <1>1, <1>2

(***************************************************************************)
(* Of every input, whatever the size of the matrix and the verdicts of the *)
(* norm checks, signing (pqc_dilithium_sign_top2.sv) gives the signature   *)
(* of Algorithm 7: when done rises the outputs are those of the first      *)
(* attempt that passes both checks, kappa and iter are its own, and        *)
(* nothing of a rejected attempt, of an earlier signature or of a run cut  *)
(* off by reset is left in them.                                           *)
(***************************************************************************)
THEOREM SignatureIsAlgorithm7 == Spec => []SignatureCorrect
<1> DEFINE Correct == StagesKnown /\ SignatureCorrect
<1>1. Init => Correct
  BY StagesStart DEF Init, SignatureCorrect
<1>2. CallsMatch /\ Correct /\ [Next]_vars => Correct'
  <2> SUFFICES ASSUME CallsMatch, Correct, [Next]_vars PROVE Correct'
    OBVIOUS
  <2>1. CASE UNCHANGED vars
    <3>1. StagesKnown'
      BY <2>1, StagesStay DEF vars
    <3> QED
      BY <2>1, <3>1 DEF vars, SignatureCorrect
  <2>2. CASE Reset
    BY <2>2, StagesReset DEF Reset, Goes, SignatureCorrect
  <2>3. ASSUME NEW go \in BOOLEAN, Clock(go) PROVE Correct'
    BY <2>3, StagesClock
  <2> QED
    BY <2>1, <2>2, <2>3 DEF Next
<1>3. Correct => SignatureCorrect
  OBVIOUS
<1> HIDE DEF Correct
<1> QED
  BY CoresAnswer, <1>1, <1>2, <1>3, PTL DEF Spec

-----------------------------------------------------------------------------
(* The samplers.                                                           *)

\* Algorithm 29 on a block, one index after the other.
BallStart == [enough |-> TRUE, c |-> [c \in 0 .. N - 1 |-> 0], next |-> SignBytes]
FitBytes(block, p, n) == {b \in p.next .. XofBytes - 1 : block.byte[b] <= N - Tau + n - 1}
\* Coefficient i is that of j, and then that of j is v.
Moved(f, i, j, v) == [f EXCEPT ![i] = f[j], ![j] = v]
BallNext(block, p, n) ==
  IF FitBytes(block, p, n) = {} THEN [p EXCEPT !.enough = FALSE]
  ELSE [p EXCEPT !.c = Moved(p.c, N - Tau + n - 1, block.byte[S!Min(FitBytes(block, p, n))],
                             block.sign[n]),
                 !.next = S!Min(FitBytes(block, p, n)) + 1]
IsBall(block, m, ball) ==
  ball = [n \in 0 .. m |-> IF n = 0 THEN BallStart ELSE BallNext(block, ball[n - 1], n)]
BallOf(block) ==
  LET ball[n \in 0 .. Tau] == IF n = 0 THEN BallStart ELSE BallNext(block, ball[n - 1], n)
  IN  ball
BallAt(n) == BallOf(shake.out)[n]

\* The hash is called once in a run, and its block stays until the run ends.
ShakeCalls ==
  /\ IsUnit(shake)
  /\ IF s_state = "WAIT_SHAKE"
     THEN \/ shake_start /\ UnitRests(shake)
          \/ ~shake_start /\ shake.fsm = "ABSORB" /\ ~shake.done
          \/ ~shake_start /\ shake.fsm = "SQUEEZE" /\ ~shake.done /\ shake.out \in S!Blocks
          \/ ~shake_start /\ shake.fsm = "IDLE" /\ shake.done /\ shake.out \in S!Blocks
     ELSE ~shake_start /\ UnitRests(shake)
  /\ s_state \notin {"IDLE", "START_SHAKE", "WAIT_SHAKE"} \/ s_done => shake.out \in S!Blocks

\* The coefficients that are not zero.
NonZero(f) == {c \in 0 .. N - 1 : f[c] # 0}

\* f is a challenge so far; i is the next coefficient to take a value, and j the
\* one it takes it from, which is set to v.
MaySet(f, i, j, v) ==
  /\ DOMAIN f = 0 .. N - 1 /\ \A c \in 0 .. N - 1 : f[c] \in {-1, 0, 1}
  /\ i \in 0 .. N - 1 /\ f[i] = 0 /\ j \in 0 .. N - 1 /\ v \in {1, -1}

\* How many coefficients are set, and that Algorithm 29 has set the same ones.
Placed == i_ctr - (N - Tau)
Sparse(k) ==
  /\ \A c \in 0 .. N - 1 : coeffs[c] \in {-1, 0, 1}
  /\ Cardinality(NonZero(coeffs)) = k
InStep ==
  /\ BallAt(Placed).enough /\ coeffs = BallAt(Placed).c
  /\ BallAt(Placed).next \in SignBytes .. at
  /\ \A b \in BallAt(Placed).next .. at - 1 : shake.out.byte[b] > i_ctr
BallIs == BallAt(Tau).enough => coeffs = BallAt(Tau).c

BallCleared ==
  /\ init_idx \in 0 .. N - 1 /\ at = SignBytes /\ sign_reg = shake.out.sign
  /\ \A c \in 0 .. N - 1 : c < init_idx => coeffs[c] = 0
BallShuffles ==
  /\ i_ctr \in N - Tau .. N - 1 /\ at \in SignBytes .. XofBytes - 1
  /\ sign_reg = [k \in 1 .. Tau - Placed |-> shake.out.sign[Placed + k]]
  /\ Sparse(Placed) /\ \A c \in 0 .. N - 1 : c >= i_ctr => coeffs[c] = 0
  /\ InStep \/ ~BallAt(Tau).enough
BallRuns ==
  /\ s_state \in {"IDLE", "START_SHAKE", "WAIT_SHAKE", "INIT_COEFFS", "SAMPLE_J", "SWAP",
                  "DONE", "EXHAUSTED"}
  /\ DOMAIN coeffs = 0 .. N - 1
  /\ s_state = "INIT_COEFFS" => BallCleared
  /\ s_state \in {"SAMPLE_J", "SWAP"} => BallShuffles
  /\ s_state = "SWAP" => shake.out.byte[at] <= i_ctr
  /\ s_state = "DONE" => Sparse(Tau) /\ BallIs
  /\ s_state = "EXHAUSTED" => ~BallAt(Tau).enough
  /\ s_done => BallIs /\ (ending = "DONE" => Sparse(Tau))

\* A candidate is the one that c others come before.
CountBefore(n) == Cardinality(S!Fitting(shake.out, n))
IsAfter(c, v) ==
  \E m \in S!Fitting(shake.out, Candidates) : CountBefore(m) = c /\ v = shake.out[m]
PolyIs == S!Enough(shake.out) /\ \A c \in 0 .. Sampled - 1 : IsAfter(c, coeffs[c])

PolyRuns ==
  /\ s_state \in {"IDLE", "START_SHAKE", "WAIT_SHAKE", "SAMPLE", "DONE", "EXHAUSTED"}
  /\ DOMAIN coeffs = 0 .. Sampled - 1
  /\ s_state = "SAMPLE" =>
       /\ at \in 0 .. Candidates - 1 /\ accepted \in 0 .. Sampled - 1
       /\ CountBefore(at) = accepted
       /\ \A c \in 0 .. Sampled - 1 : c < accepted => IsAfter(c, coeffs[c])
  /\ s_state = "DONE" => PolyIs
  /\ s_state = "EXHAUSTED" => ~S!Enough(shake.out)
  /\ s_done => IF ending = "DONE" THEN PolyIs ELSE ~S!Enough(shake.out)

SamplersRun ==
  /\ sampler \in {"ball", "reject"}
  /\ s_done => s_state = "IDLE"
  /\ ShakeCalls
  /\ sampler = "ball" => BallRuns
  /\ sampler = "reject" => PolyRuns

LEMMA BallExists ==
  ASSUME NEW block
  PROVE  \A n \in Nat : \E ball : IsBall(block, n, ball)
<1> DEFINE S0 == {n \in Nat : ~ \E ball : IsBall(block, n, ball)}
<1> SUFFICES ASSUME S0 # {} PROVE FALSE
  OBVIOUS
<1>1. PICK n \in S0 : \A m \in S0 : n <= m
  <2>1. S0 \in SUBSET Nat
    OBVIOUS
  <2> HIDE DEF S0
  <2> QED
    BY <2>1, Smallest
<1>2. n # 0
  <2>1. IsBall(block, 0, [i \in 0 .. 0 |-> BallStart])
    BY DEF IsBall
  <2> QED
    BY <2>1
<1>3. n - 1 \in Nat /\ n - 1 \notin S0
  BY <1>1, <1>2
<1>4. PICK before : IsBall(block, n - 1, before)
  BY <1>3
<1> DEFINE ball == [i \in 0 .. n |-> IF i = n THEN BallNext(block, before[n - 1], n) ELSE before[i]]
<1>5. \A i \in 0 .. n : ball[i] = IF i = 0 THEN BallStart ELSE BallNext(block, ball[i - 1], i)
  <2>1. ASSUME NEW i \in 0 .. n, i # n
        PROVE  ball[i] = IF i = 0 THEN BallStart ELSE BallNext(block, ball[i - 1], i)
    <3>1. i \in 0 .. n - 1 /\ ball[i] = before[i]
      BY <1>3, <2>1
    <3>2. i # 0 => i - 1 \in 0 .. n /\ i - 1 # n /\ ball[i - 1] = before[i - 1]
      BY <1>3, <2>1
    <3> QED
      BY <1>4, <3>1, <3>2 DEF IsBall
  <2>2. ball[n] = BallNext(block, ball[n - 1], n)
    <3>1. ball[n - 1] = before[n - 1] /\ ball[n] = BallNext(block, before[n - 1], n)
      BY <1>3
    <3> QED
      BY <3>1
  <2> QED
    BY <1>2, <2>1, <2>2
<1>6. ball = [i \in 0 .. n |-> ball[i]]
  OBVIOUS
<1>7. IsBall(block, n, ball)
  <2> HIDE DEF ball
  <2> QED
    BY <1>5, <1>6 DEF IsBall
<1> QED
  BY <1>7

LEMMA BallSteps ==
  ASSUME NEW block
  PROVE  /\ BallOf(block)[0] = BallStart
         /\ \A n \in 1 .. Tau : BallOf(block)[n] = BallNext(block, BallOf(block)[n - 1], n)
<1> DEFINE ball == CHOOSE f : IsBall(block, Tau, f)
<1>1. IsBall(block, Tau, ball)
  BY BallExists, SamplerAssumption
<1>2. BallOf(block) = ball
  BY DEF BallOf, IsBall
<1> HIDE DEF ball
<1> QED
  BY <1>1, <1>2, SamplerAssumption DEF IsBall

LEMMA ShuffledIs ==
  ASSUME sampler = "ball", NEW block
  PROVE  S!Shuffled(block) = BallOf(block)[Tau]
<1>1. S!Indices = 0 .. N - 1
  BY DEF S!Indices
<1> QED
  BY <1>1 DEF S!Shuffled, BallOf, BallStart, BallNext, Moved, FitBytes

LEMMA BallShape ==
  ASSUME NEW block
  PROVE  \A n \in 0 .. Tau : DOMAIN BallOf(block)[n] = {"enough", "c", "next"}
<1> DEFINE S0 == {n \in 0 .. Tau : DOMAIN BallOf(block)[n] # {"enough", "c", "next"}}
<1> SUFFICES ASSUME S0 # {} PROVE FALSE
  OBVIOUS
<1>1. PICK n \in S0 : \A m \in S0 : n <= m
  <2>1. S0 \in SUBSET Nat
    OBVIOUS
  <2> HIDE DEF S0
  <2> QED
    BY <2>1, Smallest
<1>2. n \in 0 .. Tau /\ n # 0
  BY BallSteps DEF BallStart
<1>3. n \in 1 .. Tau /\ n - 1 \in 0 .. Tau /\ n - 1 \notin S0
  BY <1>1, <1>2, SamplerAssumption
<1>4. DOMAIN BallNext(block, BallOf(block)[n - 1], n) = DOMAIN BallOf(block)[n - 1]
  BY DEF BallNext
<1> QED
  BY <1>2, <1>3, <1>4, BallSteps

\* Once the bytes are too few, they stay so.
LEMMA LackStays ==
  ASSUME NEW block, NEW n \in 0 .. Tau, ~BallOf(block)[n].enough
  PROVE  ~BallOf(block)[Tau].enough
<1> DEFINE S0 == {m \in n .. Tau : BallOf(block)[m].enough}
<1> SUFFICES ASSUME S0 # {} PROVE FALSE
  BY SamplerAssumption
<1>1. PICK m \in S0 : \A o \in S0 : m <= o
  <2>1. S0 \in SUBSET Nat
    BY SamplerAssumption
  <2> HIDE DEF S0
  <2> QED
    BY <2>1, Smallest
<1>2. m \in n .. Tau /\ m # n /\ BallOf(block)[m].enough
  OBVIOUS
<1>3. m \in 1 .. Tau /\ m - 1 \in 0 .. Tau /\ m - 1 \notin S0 /\ m - 1 \in n .. Tau
  BY <1>1, <1>2, SamplerAssumption
<1>4. ~BallOf(block)[m - 1].enough /\ DOMAIN BallOf(block)[m - 1] = {"enough", "c", "next"}
  BY <1>3, BallShape
<1>5. ~BallNext(block, BallOf(block)[m - 1], m).enough
  BY <1>4 DEF BallNext
<1> QED
  BY <1>2, <1>3, <1>5, BallSteps

LEMMA MinIs ==
  ASSUME NEW T \in SUBSET Int, NEW m \in T, \A n \in T : m <= n
  PROVE  S!Min(T) = m
<1>1. S!Min(T) = CHOOSE x \in T : \A y \in T : x <= y
  BY DEF S!Min
<1>2. S!Min(T) \in T /\ \A y \in T : S!Min(T) <= y
  BY <1>1
<1>3. S!Min(T) \in Int /\ m \in Int /\ S!Min(T) <= m /\ m <= S!Min(T)
  BY <1>2
<1> QED
  BY <1>3

\* What a step of Algorithm 29 does when the next byte that fits is b, and
\* when there is none.
IsNextByte(block, n, p, b) ==
  /\ n \in 1 .. Tau /\ DOMAIN p = {"enough", "c", "next"}
  /\ p.next \in SignBytes .. XofBytes /\ b \in SignBytes .. XofBytes - 1 /\ p.next <= b
  /\ block.byte[b] <= N - Tau + n - 1
  /\ \A o \in p.next .. b - 1 : block.byte[o] > N - Tau + n - 1
  /\ \A o \in SignBytes .. XofBytes - 1 : block.byte[o] \in 0 .. N - 1

LEMMA BallTakes ==
  ASSUME NEW block, NEW n, NEW p, NEW b, IsNextByte(block, n, p, b)
  PROVE  /\ BallNext(block, p, n).enough = p.enough
         /\ BallNext(block, p, n).c = Moved(p.c, N - Tau + n - 1, block.byte[b], block.sign[n])
         /\ BallNext(block, p, n).next = b + 1
<1> DEFINE fit == FitBytes(block, p, n)
<1> USE DEF IsNextByte
<1>1. /\ SignBytes \in Int /\ XofBytes \in Int /\ N \in Int /\ Tau \in Int /\ n \in Int
      /\ p.next \in Int /\ b \in Int
  BY SamplerAssumption
<1>2. fit \in SUBSET Int /\ b \in fit
  BY <1>1 DEF FitBytes
<1>3. ASSUME NEW o \in fit PROVE b <= o
  <2>1. o \in p.next .. XofBytes - 1 /\ block.byte[o] <= N - Tau + n - 1
    BY DEF FitBytes
  <2>2. o \in SignBytes .. XofBytes - 1 /\ o \in Int
    BY <1>1, <2>1
  <2>3. block.byte[o] \in Int /\ ~(block.byte[o] > N - Tau + n - 1)
    BY <1>1, <2>1, <2>2
  <2>4. o \notin p.next .. b - 1
    BY <2>3
  <2> QED
    BY <1>1, <2>1, <2>2, <2>4
<1>4. S!Min(fit) = b /\ fit # {}
  <2> HIDE DEF fit
  <2> QED
    BY <1>2, <1>3, MinIs
<1>5. BallNext(block, p, n)
        = [p EXCEPT !.c = Moved(p.c, N - Tau + n - 1, block.byte[b], block.sign[n]),
                    !.next = b + 1]
  BY <1>4 DEF BallNext
<1> QED
  BY <1>5

LEMMA BallLacks ==
  ASSUME NEW block, NEW n \in 1 .. Tau, NEW p, DOMAIN p = {"enough", "c", "next"},
         p.next \in SignBytes .. XofBytes,
         \A o \in p.next .. XofBytes - 1 : block.byte[o] > N - Tau + n - 1,
         \A o \in SignBytes .. XofBytes - 1 : block.byte[o] \in 0 .. N - 1
  PROVE  ~BallNext(block, p, n).enough
<1>1. /\ SignBytes \in Int /\ XofBytes \in Int /\ N \in Int /\ Tau \in Int /\ n \in Int
      /\ p.next \in Int
  BY SamplerAssumption
<1>2. ASSUME NEW o \in p.next .. XofBytes - 1 PROVE ~(block.byte[o] <= N - Tau + n - 1)
  <2>1. o \in SignBytes .. XofBytes - 1
    BY <1>1
  <2> QED
    BY <1>1, <1>2, <2>1
<1>3. FitBytes(block, p, n) = {}
  BY <1>2 DEF FitBytes
<1> QED
  BY <1>3 DEF BallNext

SamplerMoves ==
  /\ sampler' = sampler
  /\ IF s_state = "START_SHAKE" THEN s_state' = "WAIT_SHAKE" /\ shake_start' ELSE ~shake_start'
  /\ s_state = "WAIT_SHAKE" =>
       IF shake.done THEN s_state' \in {"INIT_COEFFS", "SAMPLE"} ELSE s_state' = "WAIT_SHAKE"
  /\ s_state = "IDLE" => s_state' \in {"IDLE", "START_SHAKE"}
  /\ s_state \notin {"START_SHAKE", "WAIT_SHAKE"} => s_state' # "WAIT_SHAKE"
  /\ s_done' => s_state \in {"DONE", "EXHAUSTED"} /\ s_state' = "IDLE"

LEMMA SamplerFsm ==
  ASSUME NEW go \in BOOLEAN, S!Clock(go)
  PROVE  SamplerMoves
<1> USE DEF SamplerMoves, S!Goes
<1>0. sampler' = sampler
  BY DEF S!Clock
<1>1. CASE S!Hash
  BY <1>0, <1>1 DEF S!Hash
<1>2. CASE S!SampleInBall
  BY <1>0, <1>2 DEF S!SampleInBall, S!TakeSigns, S!InitCoeffs, S!SampleIndex, S!Swap
<1>3. CASE S!RejectPoly
  BY <1>0, <1>3 DEF S!RejectPoly, S!Begin, S!Sample
<1>4. CASE S!Complete
  BY <1>0, <1>4 DEF S!Complete
<1>5. CASE S!Waiting
  BY <1>0, <1>5 DEF S!Waiting
<1> QED
  BY <1>1, <1>2, <1>3, <1>4, <1>5 DEF S!Clock

LEMMA ShakeKeeps ==
  ASSUME ShakeCalls, NEW go \in BOOLEAN, S!Clock(go)
  PROVE  /\ ShakeCalls'
         /\ s_state # "WAIT_SHAKE" \/ shake.done => shake'.out = shake.out
         /\ s_state = "WAIT_SHAKE" /\ shake.done => shake.out \in S!Blocks
<1>1. SamplerMoves
  BY SamplerFsm
<1>2. S!Blocks' = S!Blocks
  BY <1>1 DEF SamplerMoves, S!Blocks, S!BallBlocks
<1>3. PICK block : /\ shake' = UnitAfter(shake, shake_start, block, go)
                   /\ shake.fsm = "ABSORB" /\ go => block \in S!Blocks
  BY DEF S!Clock, S!ShakeEdge, S!UnitAfter, UnitAfter
<1> HIDE DEF S!Blocks
<1>4. s_state # "WAIT_SHAKE" \/ shake.done => shake'.out = shake.out
  BY <1>3 DEF ShakeCalls, UnitAfter, IsUnit, UnitRests
<1>5. s_state = "WAIT_SHAKE" /\ shake.done => shake.out \in S!Blocks
  BY DEF ShakeCalls, UnitRests
<1>6. IsUnit(shake)'
  BY <1>3 DEF ShakeCalls, UnitAfter, IsUnit
<1>7. CASE s_state = "WAIT_SHAKE" /\ ~shake.done
  <2>1. s_state' = "WAIT_SHAKE" /\ ~shake_start' /\ ~s_done'
    BY <1>1, <1>7 DEF SamplerMoves
  <2>2. \/ shake'.fsm = "ABSORB" /\ ~shake'.done
        \/ shake'.fsm = "SQUEEZE" /\ ~shake'.done /\ shake'.out \in S!Blocks
        \/ shake'.fsm = "IDLE" /\ shake'.done /\ shake'.out \in S!Blocks
    BY <1>3, <1>7 DEF ShakeCalls, UnitAfter, IsUnit, UnitRests
  <2> QED
    BY <1>2, <1>4, <1>5, <1>6, <2>1, <2>2 DEF ShakeCalls
<1>8. CASE s_state = "START_SHAKE"
  <2>1. s_state' = "WAIT_SHAKE" /\ shake_start' /\ ~s_done'
    BY <1>1, <1>8 DEF SamplerMoves
  <2>2. UnitRests(shake)'
    BY <1>3, <1>8 DEF ShakeCalls, UnitAfter, IsUnit, UnitRests
  <2> QED
    BY <1>2, <1>4, <1>5, <1>6, <2>1, <2>2 DEF ShakeCalls
<1>9. CASE s_state # "START_SHAKE" /\ ~(s_state = "WAIT_SHAKE" /\ ~shake.done)
  <2>1. s_state' # "WAIT_SHAKE" /\ ~shake_start'
    BY <1>1, <1>9 DEF SamplerMoves
  <2>2. UnitRests(shake)'
    BY <1>3, <1>9 DEF ShakeCalls, UnitAfter, IsUnit, UnitRests
  <2>3. s_state' \notin {"IDLE", "START_SHAKE"} \/ s_done' => shake.out \in S!Blocks
    BY <1>1, <1>5, <1>9 DEF SamplerMoves, ShakeCalls
  <2> QED
    BY <1>2, <1>4, <1>5, <1>6, <1>9, <2>1, <2>2, <2>3 DEF ShakeCalls
<1> QED
  BY <1>7, <1>8, <1>9

LEMMA NonZeroFinite ==
  ASSUME NEW f
  PROVE  IsFiniteSet(NonZero(f)) /\ Cardinality(NonZero(f)) \in Nat
<1>1. IsFiniteSet(0 .. N - 1)
  BY SamplerAssumption, FS_Interval
<1>2. NonZero(f) \subseteq 0 .. N - 1
  BY DEF NonZero
<1> QED
  BY <1>1, <1>2, FS_Subset, FS_CardinalityType

LEMMA NoneIsSet ==
  ASSUME NEW f, \A c \in 0 .. N - 1 : f[c] = 0
  PROVE  Cardinality(NonZero(f)) = 0
<1>1. NonZero(f) = {}
  BY DEF NonZero
<1> QED
  BY <1>1, FS_EmptySet

\* One more is set, whether or not the coefficient that moves was set.
LEMMA OneMoreIsSet ==
  ASSUME NEW f, NEW i, NEW j, NEW v, MaySet(f, i, j, v)
  PROVE  /\ \A c \in 0 .. N - 1 : Moved(f, i, j, v)[c] \in {-1, 0, 1}
         /\ Cardinality(NonZero(Moved(f, i, j, v))) = Cardinality(NonZero(f)) + 1
<1> USE DEF MaySet
<1> DEFINE g == Moved(f, i, j, v)
<1>0. IsFiniteSet(NonZero(f))
  BY NonZeroFinite
<1>1. /\ DOMAIN g = 0 .. N - 1 /\ g[j] = v /\ (i # j => g[i] = f[j])
      /\ \A c \in 0 .. N - 1 : c # i /\ c # j => g[c] = f[c]
  BY DEF Moved
<1> HIDE DEF g
<1>2. \A c \in 0 .. N - 1 : g[c] \in {-1, 0, 1}
  BY <1>1
<1>3. ASSUME i = j \/ f[j] # 0 PROVE Cardinality(NonZero(g)) = Cardinality(NonZero(f)) + 1
  <2>1. NonZero(g) = NonZero(f) \cup {i}
    BY <1>1, <1>3 DEF NonZero
  <2>2. i \notin NonZero(f)
    BY DEF NonZero
  <2>3. Cardinality(NonZero(f) \cup {i}) = Cardinality(NonZero(f)) + 1
    BY <1>0, <2>2, FS_AddElement, Zenon
  <2> QED
    BY <1>2, <2>1, <2>3
<1>4. ASSUME i # j, f[j] = 0 PROVE Cardinality(NonZero(g)) = Cardinality(NonZero(f)) + 1
  <2>1. NonZero(g) = NonZero(f) \cup {j}
    BY <1>1, <1>4 DEF NonZero
  <2>2. j \notin NonZero(f)
    BY <1>4 DEF NonZero
  <2>3. Cardinality(NonZero(f) \cup {j}) = Cardinality(NonZero(f)) + 1
    BY <1>0, <2>2, FS_AddElement, Zenon
  <2> QED
    BY <1>2, <2>1, <2>3
<1> QED
  BY <1>2, <1>3, <1>4 DEF g

LEMMA BallBlock ==
  ASSUME sampler = "ball", NEW block \in S!Blocks
  PROVE  /\ block.sign \in [1 .. Tau -> {1, -1}]
         /\ \A o \in SignBytes .. XofBytes - 1 : block.byte[o] \in 0 .. N - 1
  BY DEF S!Blocks, S!BallBlocks

LEMMA RestOfSigns ==
  ASSUME NEW f, NEW m \in Nat, m > 0, \A k \in 1 .. m : f[k] \in {1, -1},
         NEW s, s = [k \in 1 .. m |-> f[k]]
  PROVE  Head(s) = f[1] /\ Tail(s) = [k \in 1 .. m - 1 |-> f[k + 1]]
<1>1. s \in Seq({1, -1}) /\ Len(s) = m /\ s # <<>>
  BY SMTT(30)
<1>2. /\ Head(s) = s[1] /\ Tail(s) \in Seq({1, -1}) /\ Len(Tail(s)) = m - 1
      /\ \A k \in 1 .. m - 1 : Tail(s)[k] = s[k + 1]
  BY <1>1, HeadTailProperties
<1>3. Tail(s) = [k \in 1 .. m - 1 |-> Tail(s)[k]]
  BY <1>2
<1> QED
  BY <1>2, <1>3

\* What every step in a run of the challenge keeps.
LEMMA BallKeeps ==
  ASSUME SamplersRun, sampler = "ball", NEW go \in BOOLEAN, S!Clock(go)
  PROVE  /\ BallRuns /\ sampler' = "ball"
         /\ s_state \in {"INIT_COEFFS", "SAMPLE_J", "SWAP", "DONE", "EXHAUSTED"} =>
              /\ shake.out \in S!Blocks /\ shake'.out = shake.out
              /\ \A n : BallAt(n)' = BallAt(n)
<1>1. sampler' = "ball" /\ ShakeCalls
  BY SamplerFsm DEF SamplerMoves, SamplersRun
<1>2. ASSUME s_state \in {"INIT_COEFFS", "SAMPLE_J", "SWAP", "DONE", "EXHAUSTED"}
      PROVE  shake.out \in S!Blocks /\ shake'.out = shake.out
  BY <1>1, <1>2, ShakeKeeps DEF ShakeCalls
<1> QED
  BY <1>1, <1>2 DEF SamplersRun, BallAt

LEMMA BallTakeSigns ==
  ASSUME SamplersRun, sampler = "ball", NEW go \in BOOLEAN, S!Clock(go), S!TakeSigns
  PROVE  BallRuns'
<1>1. /\ s_state = "WAIT_SHAKE" /\ s_state' = "INIT_COEFFS" /\ s_done' = FALSE
      /\ sign_reg' = shake.out.sign /\ at' = SignBytes /\ init_idx' = 0 /\ coeffs' = coeffs
  BY DEF S!TakeSigns, S!Goes
<1>2. shake'.out = shake.out /\ DOMAIN coeffs = 0 .. N - 1
  BY ShakeKeeps, BallKeeps DEF S!TakeSigns, SamplersRun, BallRuns
<1>3. BallCleared'
  BY <1>1, <1>2, SamplerAssumption DEF BallCleared
<1> QED
  BY <1>1, <1>2, <1>3 DEF BallRuns

LEMMA BallInit ==
  ASSUME SamplersRun, sampler = "ball", NEW go \in BOOLEAN, S!Clock(go), S!InitCoeffs
  PROVE  BallRuns'
<1>1. /\ s_state = "INIT_COEFFS" /\ s_done' = FALSE /\ coeffs' = [coeffs EXCEPT ![init_idx] = 0]
      /\ at' = at /\ sign_reg' = sign_reg
  BY DEF S!InitCoeffs, S!Goes
<1>2. BallCleared /\ DOMAIN coeffs = 0 .. N - 1 /\ shake'.out = shake.out
      /\ shake.out \in S!Blocks /\ \A n : BallAt(n)' = BallAt(n)
  BY <1>1, BallKeeps DEF BallRuns
<1>3. init_idx \in 0 .. N - 1 /\ N \in Nat /\ Tau \in 1 .. N
  BY <1>2, SamplerAssumption DEF BallCleared
<1>4. DOMAIN coeffs' = 0 .. N - 1 /\ \A c \in 0 .. N - 1 : c < init_idx + 1 => coeffs'[c] = 0
  BY <1>1, <1>2, <1>3 DEF BallCleared
<1>5. CASE init_idx = N - 1
  <2>1. s_state' = "SAMPLE_J" /\ i_ctr' = N - Tau
    BY <1>5 DEF S!InitCoeffs, S!Goes
  <2>2. Placed' = 0
    BY <1>3, <2>1 DEF Placed
  <2>3. \A c \in 0 .. N - 1 : coeffs'[c] = 0
    BY <1>3, <1>4, <1>5
  <2>4. Sparse(0)'
    BY <2>3, NoneIsSet DEF Sparse
  <2>5. coeffs' = [c \in 0 .. N - 1 |-> 0]
    BY <1>1, <1>4, <2>3
  <2>6. BallAt(Placed)' = BallStart
    BY <2>2, BallSteps DEF BallAt
  <2>7. InStep'
    <3>1. at' = SignBytes /\ SignBytes \in Nat
      BY <1>1, <1>2, SamplerAssumption DEF BallCleared
    <3>2. /\ BallAt(Placed)'.enough /\ BallAt(Placed)'.c = [c \in 0 .. N - 1 |-> 0]
          /\ BallAt(Placed)'.next = SignBytes
      BY <2>6 DEF BallStart
    <3>3. SignBytes \in SignBytes .. at' /\ \A b \in SignBytes .. at' - 1 : FALSE
      BY <3>1
    <3> QED
      BY <2>5, <3>2, <3>3 DEF InStep
  <2>8. sign_reg' = [k \in 1 .. Tau - Placed |-> shake.out.sign[Placed + k]]'
    <3>1. sign_reg' = shake.out.sign /\ shake.out.sign \in [1 .. Tau -> {1, -1}]
      BY <1>1, <1>2, BallBlock DEF BallCleared
    <3>2. sign_reg' = [k \in 1 .. Tau - 0 |-> shake.out.sign[0 + k]]
      BY <1>3, <3>1
    <3> QED
      BY <1>2, <2>2, <3>2
  <2>9. BallShuffles'
    <3>1. i_ctr' \in N - Tau .. N - 1 /\ at' \in SignBytes .. XofBytes - 1
      BY <1>1, <1>2, <1>3, <2>1, SamplerAssumption DEF BallCleared
    <3> QED
      BY <2>2, <2>3, <2>4, <2>7, <2>8, <3>1 DEF BallShuffles
  <2> QED
    BY <1>1, <1>4, <2>1, <2>9 DEF BallRuns
<1>6. CASE init_idx # N - 1
  <2>1. s_state' = "INIT_COEFFS" /\ init_idx' = init_idx + 1
    BY <1>1, <1>6 DEF S!InitCoeffs, S!Goes
  <2>2. BallCleared'
    BY <1>1, <1>2, <1>3, <1>4, <1>6, <2>1 DEF BallCleared
  <2> QED
    BY <1>1, <1>4, <2>1, <2>2 DEF BallRuns
<1> QED
  BY <1>5, <1>6

\* Where the shuffle is, in numbers.
LEMMA BallNumbers ==
  ASSUME BallShuffles, sampler = "ball", shake.out \in S!Blocks
  PROVE  /\ Placed \in Nat /\ Placed + 1 \in 1 .. Tau /\ Placed \in 0 .. Tau
         /\ i_ctr = N - Tau + Placed /\ i_ctr = N - Tau + (Placed + 1) - 1
         /\ i_ctr \in 0 .. N - 1 /\ at \in Nat /\ at \in SignBytes .. XofBytes - 1
         /\ N \in Nat /\ Tau \in Nat /\ SignBytes \in Nat /\ XofBytes \in Nat
         /\ \A o \in SignBytes .. XofBytes - 1 : shake.out.byte[o] \in 0 .. N - 1
<1>1. i_ctr \in N - Tau .. N - 1 /\ at \in SignBytes .. XofBytes - 1
  BY DEF BallShuffles
<1>2. \A o \in SignBytes .. XofBytes - 1 : shake.out.byte[o] \in 0 .. N - 1
  BY BallBlock
<1> QED
  BY <1>1, <1>2, SamplerAssumption DEF Placed

\* The shuffle is in step with Algorithm 29, and its byte is none that fits or is the one.
LEMMA InStepLacks ==
  ASSUME BallShuffles, sampler = "ball", shake.out \in S!Blocks, InStep, at = XofBytes - 1,
         shake.out.byte[at] > i_ctr
  PROVE  ~BallAt(Tau).enough
<1> DEFINE p == BallAt(Placed)
           n == Placed + 1
<1>1. /\ n \in 1 .. Tau /\ Placed \in 0 .. Tau /\ n - 1 = Placed /\ i_ctr = N - Tau + n - 1
      /\ SignBytes \in Nat /\ XofBytes \in Nat /\ at \in Nat
      /\ \A o \in SignBytes .. XofBytes - 1 : shake.out.byte[o] \in 0 .. N - 1
  BY BallNumbers
<1>2. p.next \in SignBytes .. at /\ \A o \in p.next .. at - 1 : shake.out.byte[o] > i_ctr
  BY DEF InStep
<1>3. DOMAIN p = {"enough", "c", "next"}
  BY <1>1, BallShape DEF BallAt
<1>4. BallAt(n) = BallNext(shake.out, p, n)
  BY <1>1, BallSteps DEF BallAt
<1> HIDE DEF p, n
<1>5. p.next \in SignBytes .. XofBytes
  BY <1>1, <1>2
<1>6. \A o \in p.next .. XofBytes - 1 : shake.out.byte[o] > N - Tau + n - 1
  <2>1. ASSUME NEW o \in p.next .. XofBytes - 1 PROVE o = at \/ o \in p.next .. at - 1
    BY <1>1, <1>2
  <2> QED
    BY <1>1, <1>2, <2>1
<1>7. ~BallNext(shake.out, p, n).enough
  BY <1>1, <1>3, <1>5, <1>6, BallLacks
<1> QED
  BY <1>1, <1>4, <1>7, LackStays DEF BallAt

LEMMA InStepTakes ==
  ASSUME BallShuffles, sampler = "ball", shake.out \in S!Blocks, InStep,
         shake.out.byte[at] <= i_ctr
  PROVE  /\ BallAt(Placed + 1).enough /\ BallAt(Placed + 1).next = at + 1
         /\ BallAt(Placed + 1).c
              = Moved(coeffs, i_ctr, shake.out.byte[at], shake.out.sign[Placed + 1])
<1> DEFINE p == BallAt(Placed)
           n == Placed + 1
<1>1. /\ n \in 1 .. Tau /\ Placed \in 0 .. Tau /\ n - 1 = Placed /\ i_ctr = N - Tau + n - 1
      /\ SignBytes \in Nat /\ XofBytes \in Nat /\ at \in SignBytes .. XofBytes - 1
      /\ \A o \in SignBytes .. XofBytes - 1 : shake.out.byte[o] \in 0 .. N - 1
  BY BallNumbers
<1>2. /\ p.enough /\ p.c = coeffs /\ p.next \in SignBytes .. at
      /\ \A o \in p.next .. at - 1 : shake.out.byte[o] > i_ctr
  BY DEF InStep
<1>3. DOMAIN p = {"enough", "c", "next"}
  BY <1>1, BallShape DEF BallAt
<1>4. BallAt(n) = BallNext(shake.out, p, n)
  BY <1>1, BallSteps DEF BallAt
<1> HIDE DEF p
<1>5. p.next \in SignBytes .. XofBytes /\ p.next <= at
  BY <1>1, <1>2
<1>6. \A o \in p.next .. at - 1 : shake.out.byte[o] > N - Tau + n - 1
  BY <1>1, <1>2
<1>7. shake.out.byte[at] <= N - Tau + n - 1
  BY <1>1
<1>0. IsNextByte(shake.out, n, p, at)
  BY <1>1, <1>3, <1>5, <1>6, <1>7 DEF IsNextByte
<1> HIDE DEF n
<1>8. /\ BallNext(shake.out, p, n).enough = p.enough
      /\ BallNext(shake.out, p, n).c
           = Moved(p.c, N - Tau + n - 1, shake.out.byte[at], shake.out.sign[n])
      /\ BallNext(shake.out, p, n).next = at + 1
  BY <1>0, BallTakes
<1>9. N - Tau + n - 1 = i_ctr
  BY <1>1
<1> QED
  BY <1>2, <1>4, <1>8, <1>9 DEF n

\* After the last byte there is none for the next index.
LEMMA NoMoreBytes ==
  ASSUME NEW block, NEW n \in 0 .. Tau - 1, BallOf(block)[n].next = XofBytes
  PROVE  ~BallOf(block)[Tau].enough
<1> DEFINE p == BallOf(block)[n]
<1>1. n \in 0 .. Tau /\ n + 1 \in 0 .. Tau /\ n + 1 \in 1 .. Tau /\ (n + 1) - 1 = n
  BY SamplerAssumption
<1>2. DOMAIN p = {"enough", "c", "next"}
  BY <1>1, BallShape
<1>3. BallOf(block)[n + 1] = BallNext(block, p, n + 1)
  BY <1>1, BallSteps
<1> HIDE DEF p
<1>4. FitBytes(block, p, n + 1) = {}
  <2>1. p.next = XofBytes
    BY DEF p
  <2>2. XofBytes .. XofBytes - 1 = {}
    BY SamplerAssumption
  <2> QED
    BY <2>1, <2>2 DEF FitBytes
<1>5. ~BallNext(block, p, n + 1).enough
  BY <1>2, <1>4 DEF BallNext
<1> QED
  BY <1>1, <1>3, <1>5, LackStays

LEMMA BallSamples ==
  ASSUME SamplersRun, sampler = "ball", NEW go \in BOOLEAN, S!Clock(go), S!SampleIndex
  PROVE  BallRuns'
<1>1. /\ s_state = "SAMPLE_J" /\ s_done' = FALSE
      /\ coeffs' = coeffs /\ sign_reg' = sign_reg /\ i_ctr' = i_ctr
  BY DEF S!SampleIndex, S!Goes
<1>2. BallShuffles /\ DOMAIN coeffs = 0 .. N - 1 /\ shake'.out = shake.out
      /\ shake.out \in S!Blocks /\ \A n : BallAt(n)' = BallAt(n)
  BY <1>1, BallKeeps DEF BallRuns
<1>0. at \in Nat /\ at \in SignBytes .. XofBytes - 1 /\ SignBytes \in Nat /\ XofBytes \in Nat
  BY <1>2, BallNumbers
<1>3. Placed' = Placed
  BY <1>1 DEF Placed
<1>4. CASE shake.out.byte[at] <= i_ctr /\ s_state' = "SWAP" /\ at' = at
  <2>1. BallShuffles'
    BY <1>1, <1>2, <1>3, <1>4 DEF BallShuffles, Sparse, InStep, BallAt
  <2> QED
    BY <1>1, <1>2, <1>4, <2>1 DEF BallRuns
<1>5. CASE shake.out.byte[at] > i_ctr /\ at = XofBytes - 1 /\ s_state' = "EXHAUSTED"
  <2>1. ~BallAt(Tau).enough
    BY <1>2, <1>5, InStepLacks DEF BallShuffles
  <2> QED
    BY <1>1, <1>2, <1>5, <2>1 DEF BallRuns, BallAt
<1>6. CASE /\ shake.out.byte[at] > i_ctr /\ at # XofBytes - 1
           /\ s_state' = "SAMPLE_J" /\ at' = at + 1
  <2>1. at' \in SignBytes .. XofBytes - 1
    BY <1>0, <1>6
  <2>2. InStep => InStep'
    <3>1. SUFFICES ASSUME InStep PROVE InStep'
      OBVIOUS
    <3> DEFINE p == BallAt(Placed)
    <3>2. BallAt(Placed)' = p
      BY <1>2, <1>3 DEF BallAt
    <3>3. /\ p.next \in SignBytes .. at /\ p.enough /\ coeffs = p.c
          /\ \A o \in p.next .. at - 1 : shake.out.byte[o] > i_ctr
      BY <3>1 DEF InStep
    <3> HIDE DEF p
    <3>4. p.next \in SignBytes .. at' /\ \A o \in p.next .. at' - 1 : o = at \/ o \in p.next .. at - 1
      BY <1>0, <1>6, <3>3
    <3> QED
      BY <1>1, <1>2, <1>6, <3>2, <3>3, <3>4 DEF InStep
  <2>3. BallShuffles'
    BY <1>1, <1>2, <1>3, <2>1, <2>2 DEF BallShuffles, Sparse, BallAt
  <2> QED
    BY <1>1, <1>2, <1>6, <2>3 DEF BallRuns
<1> QED
  BY <1>4, <1>5, <1>6 DEF S!SampleIndex, S!Goes, S!cur_byte, S!LastByte

LEMMA BallSwaps ==
  ASSUME SamplersRun, sampler = "ball", NEW go \in BOOLEAN, S!Clock(go), S!Swap
  PROVE  BallRuns'
<1>0. PICK j, n : j = shake.out.byte[at] /\ n = Placed + 1
  OBVIOUS
<1>1. /\ s_state = "SWAP" /\ s_done' = FALSE
      /\ coeffs' = Moved(coeffs, i_ctr, j, Head(sign_reg)) /\ sign_reg' = Tail(sign_reg)
      /\ at' = IF at = XofBytes - 1 THEN at ELSE at + 1
  BY <1>0 DEF S!Swap, S!Goes, S!cur_byte, S!LastByte, Moved
<1>2. BallShuffles /\ DOMAIN coeffs = 0 .. N - 1 /\ shake'.out = shake.out
      /\ shake.out \in S!Blocks /\ j <= i_ctr /\ \A k : BallAt(k)' = BallAt(k)
  BY <1>0, <1>1, BallKeeps DEF BallRuns
<1>3. /\ Placed \in Nat /\ n \in 1 .. Tau /\ Placed \in 0 .. Tau
      /\ i_ctr = N - Tau + Placed /\ i_ctr \in 0 .. N - 1
      /\ at \in Nat /\ at \in SignBytes .. XofBytes - 1
      /\ N \in Nat /\ Tau \in Nat /\ SignBytes \in Nat /\ XofBytes \in Nat /\ j \in 0 .. N - 1
  BY <1>0, <1>2, BallNumbers
<1>4. /\ Head(sign_reg) = shake.out.sign[n] /\ shake.out.sign[n] \in {1, -1}
      /\ Tail(sign_reg) = [k \in 1 .. Tau - n |-> shake.out.sign[n + k]]
  <2> DEFINE f == [k \in Int |-> shake.out.sign[Placed + k]]
  <2>1. shake.out.sign \in [1 .. Tau -> {1, -1}]
    BY <1>2, BallBlock
  <2>2. Tau - Placed \in Nat /\ Tau - Placed > 0 /\ \A k \in 1 .. Tau - Placed : f[k] \in {1, -1}
    BY <1>3, <2>1
  <2>3. sign_reg = [k \in 1 .. Tau - Placed |-> f[k]]
    BY <1>2, <1>3 DEF BallShuffles
  <2> HIDE DEF f
  <2>4. Head(sign_reg) = f[1] /\ Tail(sign_reg) = [k \in 1 .. (Tau - Placed) - 1 |-> f[k + 1]]
    BY <2>2, <2>3, RestOfSigns
  <2>5. \A k \in Nat : f[k + 1] = shake.out.sign[n + k]
    BY <1>0, <1>3 DEF f
  <2>6. f[1] = shake.out.sign[n] /\ (Tau - Placed) - 1 = Tau - n
    BY <1>0, <1>3 DEF f
  <2>7. \A k \in 1 .. Tau - n : f[k + 1] = shake.out.sign[n + k]
    BY <1>3, <2>5
  <2> QED
    BY <1>3, <2>1, <2>4, <2>6, <2>7
<1>5. Sparse(n)'
  <2>1. coeffs[i_ctr] = 0 /\ Sparse(Placed)
    BY <1>2, <1>3 DEF BallShuffles
  <2>2. /\ \A c \in 0 .. N - 1 : coeffs'[c] \in {-1, 0, 1}
        /\ Cardinality(NonZero(coeffs')) = Cardinality(NonZero(coeffs)) + 1
    <3>1. coeffs' = Moved(coeffs, i_ctr, j, shake.out.sign[n]) /\ DOMAIN coeffs = 0 .. N - 1
      BY <1>1, <1>2, <1>4
    <3>2. \A c \in 0 .. N - 1 : coeffs[c] \in {-1, 0, 1}
      BY <2>1 DEF Sparse
    <3>3. i_ctr \in 0 .. N - 1 /\ j \in 0 .. N - 1 /\ shake.out.sign[n] \in {1, -1}
      BY <1>3, <1>4
    <3>4. /\ \A c \in 0 .. N - 1 : Moved(coeffs, i_ctr, j, shake.out.sign[n])[c] \in {-1, 0, 1}
          /\ Cardinality(NonZero(Moved(coeffs, i_ctr, j, shake.out.sign[n])))
               = Cardinality(NonZero(coeffs)) + 1
      <4>1. MaySet(coeffs, i_ctr, j, shake.out.sign[n])
        BY <2>1, <3>1, <3>2, <3>3 DEF MaySet
      <4> QED
        BY <4>1, OneMoreIsSet
    <3> QED
      BY <3>1, <3>4
  <2> QED
    BY <1>0, <2>1, <2>2 DEF Sparse
<1>6. DOMAIN coeffs' = 0 .. N - 1 /\ \A c \in 0 .. N - 1 : c > i_ctr => coeffs'[c] = 0
  <2>1. \A c \in 0 .. N - 1 : c > i_ctr => c # i_ctr /\ c # j /\ coeffs[c] = 0
    BY <1>2, <1>3 DEF BallShuffles
  <2> QED
    BY <1>1, <1>2, <2>1 DEF Moved
<1>7. InStep => BallAt(n).enough /\ BallAt(n).c = coeffs' /\ BallAt(n).next = at + 1
  BY <1>0, <1>1, <1>2, <1>4, InStepTakes
<1>8. CASE i_ctr = N - 1
  <2>1. s_state' = "DONE" /\ n = Tau
    <3>1. S!Goes("DONE")
      BY <1>8 DEF S!Swap
    <3> QED
      BY <1>0, <1>3, <1>8, <3>1 DEF S!Goes
  <2>2. InStep \/ ~BallAt(Tau).enough
    BY <1>2 DEF BallShuffles
  <2>3. Sparse(Tau)' /\ BallIs'
    BY <1>2, <1>5, <1>7, <2>1, <2>2 DEF BallIs
  <2> QED
    BY <1>1, <1>6, <2>1, <2>3 DEF BallRuns
<1>9. CASE i_ctr # N - 1
  <2>1. s_state' = "SAMPLE_J" /\ i_ctr' = i_ctr + 1 /\ n \in 0 .. Tau - 1
    <3>1. S!Goes("SAMPLE_J") /\ i_ctr' = i_ctr + 1
      BY <1>9 DEF S!Swap
    <3>2. s_state' = "SAMPLE_J"
      BY <3>1 DEF S!Goes
    <3>3. n \in 0 .. Tau - 1
      BY <1>0, <1>3, <1>9
    <3> QED
      BY <3>1, <3>2, <3>3
  <2>2. Placed' = n
    BY <1>0, <1>3, <2>1 DEF Placed
  <2>3. i_ctr' \in N - Tau .. N - 1 /\ at' \in SignBytes .. XofBytes - 1
    BY <1>1, <1>3, <1>9, <2>1
  <2>4. \A c \in 0 .. N - 1 : c >= i_ctr' => coeffs'[c] = 0
    BY <1>3, <1>6, <2>1
  <2>5. (InStep \/ ~BallAt(Tau).enough)'
    <3>1. CASE ~InStep
      BY <1>2, <3>1 DEF BallShuffles
    <3>2. CASE InStep /\ at = XofBytes - 1
      <4>1. BallAt(n).next = XofBytes
        BY <1>3, <1>7, <3>2
      <4>2. ~BallAt(Tau).enough
        BY <2>1, <4>1, NoMoreBytes DEF BallAt
      <4> QED
        BY <1>2, <4>2
    <3>3. CASE InStep /\ at # XofBytes - 1
      <4>1. at' = at + 1 /\ BallAt(Placed)' = BallAt(n)
        BY <1>1, <1>2, <2>2, <3>3 DEF BallAt
      <4>2. BallAt(n).next \in SignBytes .. at' /\ \A b \in BallAt(n).next .. at' - 1 : FALSE
        BY <1>3, <1>7, <3>3, <4>1
      <4> QED
        BY <1>7, <3>3, <4>1, <4>2 DEF InStep
    <3> QED
      BY <3>1, <3>2, <3>3
  <2>6. BallShuffles'
    BY <1>1, <1>2, <1>4, <1>5, <2>2, <2>3, <2>4, <2>5 DEF BallShuffles
  <2> QED
    BY <1>1, <1>6, <2>1, <2>6 DEF BallRuns
<1> QED
  BY <1>8, <1>9

LEMMA BallRun ==
  ASSUME SamplersRun, sampler = "ball", NEW go \in BOOLEAN, S!Clock(go)
  PROVE  BallRuns'
<1>1. CASE S!Hash \/ S!Waiting
  <2>1. /\ s_state \in {"IDLE", "START_SHAKE", "WAIT_SHAKE"} /\ s_done' = FALSE /\ coeffs' = coeffs
        /\ s_state' \in {"IDLE", "START_SHAKE", "WAIT_SHAKE"}
    BY <1>1 DEF S!Hash, S!Waiting, S!Goes, S!data
  <2> QED
    BY <2>1, BallKeeps DEF BallRuns
<1>2. CASE S!Complete
  <2>1. /\ s_state \in {"DONE", "EXHAUSTED"} /\ s_state' = "IDLE" /\ ending' = s_state
        /\ coeffs' = coeffs
    BY <1>2 DEF S!Complete, S!data
  <2>2. BallRuns /\ \A n : BallAt(n)' = BallAt(n)
    BY <2>1, BallKeeps
  <2> QED
    BY <2>1, <2>2 DEF BallRuns, BallIs, Sparse
<1>3. CASE S!SampleInBall
  BY <1>3, BallTakeSigns, BallInit, BallSamples, BallSwaps DEF S!SampleInBall
<1> QED
  BY <1>1, <1>2, <1>3 DEF S!Clock, S!RejectPoly

\* The samplers count as the library does.
LEMMA SameCardinality == ASSUME NEW T PROVE S!Cardinality(T) = Cardinality(T)
  BY DEF S!Cardinality, Cardinality

\* Candidates that fit are counted from the first one on.
LEMMA FittingGrows ==
  ASSUME NEW block, NEW n \in Nat
  PROVE  /\ IsFiniteSet(S!Fitting(block, n)) /\ Cardinality(S!Fitting(block, n)) \in Nat
         /\ Cardinality(S!Fitting(block, n + 1))
              = IF block[n] # TooLarge THEN Cardinality(S!Fitting(block, n)) + 1
                ELSE Cardinality(S!Fitting(block, n))
         /\ \A m \in 0 .. n : Cardinality(S!Fitting(block, m)) <= Cardinality(S!Fitting(block, n))
<1>0. 0 .. (n + 1) - 1 = (0 .. n - 1) \cup {n} /\ n \notin 0 .. n - 1
  OBVIOUS
<1>1. IsFiniteSet(0 .. n - 1)
  BY FS_Interval
<1>2. S!Fitting(block, n) \in SUBSET (0 .. n - 1)
  BY DEF S!Fitting
<1>3. IsFiniteSet(S!Fitting(block, n))
  BY <1>1, <1>2, FS_Subset
<1>4. Cardinality(S!Fitting(block, n)) \in Nat
  BY <1>3, FS_CardinalityType
<1>5. ASSUME block[n] # TooLarge
      PROVE  Cardinality(S!Fitting(block, n + 1)) = Cardinality(S!Fitting(block, n)) + 1
  <2>1. S!Fitting(block, n + 1) = S!Fitting(block, n) \cup {n} /\ n \notin S!Fitting(block, n)
    BY <1>0, <1>5 DEF S!Fitting
  <2>2. Cardinality(S!Fitting(block, n) \cup {n}) = Cardinality(S!Fitting(block, n)) + 1
    BY <1>3, <2>1, FS_AddElement, Zenon
  <2> QED
    BY <2>1, <2>2
<1>6. ASSUME block[n] = TooLarge
      PROVE  Cardinality(S!Fitting(block, n + 1)) = Cardinality(S!Fitting(block, n))
  <2>1. S!Fitting(block, n + 1) = S!Fitting(block, n)
    BY <1>0, <1>6 DEF S!Fitting
  <2> QED
    BY <2>1
<1>7. ASSUME NEW m \in 0 .. n
      PROVE  Cardinality(S!Fitting(block, m)) <= Cardinality(S!Fitting(block, n))
  <2>1. S!Fitting(block, m) \in SUBSET S!Fitting(block, n)
    BY DEF S!Fitting
  <2> QED
    BY <1>3, <2>1, FS_Subset
<1> QED
  BY <1>3, <1>4, <1>5, <1>6, <1>7

LEMMA NoneFitsYet == ASSUME NEW block PROVE Cardinality(S!Fitting(block, 0)) = 0
<1>1. S!Fitting(block, 0) = {}
  BY DEF S!Fitting
<1> QED
  BY <1>1, FS_EmptySet

\* No two candidates that fit come after equally many others.
LEMMA FitsInOnePlace ==
  ASSUME NEW block, NEW n \in Nat, NEW m \in S!Fitting(block, n), NEW o \in S!Fitting(block, n),
         Cardinality(S!Fitting(block, m)) = Cardinality(S!Fitting(block, o))
  PROVE  m = o
<1>1. m \in Nat /\ o \in Nat /\ block[m] # TooLarge /\ block[o] # TooLarge
  BY DEF S!Fitting
<1>2. ASSUME NEW x \in Nat, NEW y \in Nat, block[x] # TooLarge, x < y
      PROVE  Cardinality(S!Fitting(block, x)) < Cardinality(S!Fitting(block, y))
  <2>1. x + 1 \in 0 .. y /\ x + 1 \in Nat
    BY <1>2
  <2>2. /\ Cardinality(S!Fitting(block, x + 1)) = Cardinality(S!Fitting(block, x)) + 1
        /\ Cardinality(S!Fitting(block, x)) \in Nat /\ Cardinality(S!Fitting(block, y)) \in Nat
    BY <1>2, FittingGrows
  <2>3. Cardinality(S!Fitting(block, x + 1)) <= Cardinality(S!Fitting(block, y))
    BY <2>1, FittingGrows
  <2> QED
    BY <2>2, <2>3
<1>3. /\ Cardinality(S!Fitting(block, m)) \in Nat
      /\ ~(m < o) /\ ~(o < m)
  BY <1>1, <1>2, FittingGrows
<1> QED
  BY <1>1, <1>3

LEMMA AfterIsFound ==
  ASSUME NEW c, NEW v, IsAfter(c, v)
  PROVE  S!FittingAfter(shake.out, c) = v
<1>1. PICK m \in S!Fitting(shake.out, Candidates) : CountBefore(m) = c /\ v = shake.out[m]
  BY DEF IsAfter
<1> DEFINE o == CHOOSE n \in S!Fitting(shake.out, Candidates) :
                  Cardinality(S!Fitting(shake.out, n)) = c
<1>2. o \in S!Fitting(shake.out, Candidates) /\ Cardinality(S!Fitting(shake.out, o)) = c
  BY <1>1 DEF CountBefore
<1>3. S!FittingAfter(shake.out, c) = shake.out[o]
  BY SameCardinality DEF S!FittingAfter
<1> HIDE DEF o
<1>4. o = m
  <2>1. /\ Candidates \in Nat
        /\ Cardinality(S!Fitting(shake.out, o)) = Cardinality(S!Fitting(shake.out, m))
    BY <1>1, <1>2, SamplerAssumption DEF CountBefore
  <2> QED
    BY <1>2, <2>1, FitsInOnePlace
<1> QED
  BY <1>1, <1>3, <1>4

LEMMA PolyKeeps ==
  ASSUME SamplersRun, sampler = "reject", NEW go \in BOOLEAN, S!Clock(go)
  PROVE  /\ PolyRuns /\ sampler' = "reject"
         /\ s_state \in {"SAMPLE", "DONE", "EXHAUSTED"} => shake'.out = shake.out
<1>1. sampler' = "reject" /\ ShakeCalls
  BY SamplerFsm DEF SamplerMoves, SamplersRun
<1>2. s_state \in {"SAMPLE", "DONE", "EXHAUSTED"} => shake'.out = shake.out
  BY <1>1, ShakeKeeps
<1> QED
  BY <1>1, <1>2 DEF SamplersRun

LEMMA PolyBegins ==
  ASSUME SamplersRun, sampler = "reject", NEW go \in BOOLEAN, S!Clock(go), S!Begin
  PROVE  PolyRuns'
<1>1. /\ s_state' = "SAMPLE" /\ s_done' = FALSE
      /\ accepted' = 0 /\ at' = 0 /\ coeffs' = coeffs
  BY DEF S!Begin, S!Goes
<1>2. PolyRuns
  BY PolyKeeps
<1>3. CountBefore(at)' = 0
  BY <1>1, NoneFitsYet DEF CountBefore
<1>4. Candidates \in Nat \ {0} /\ Sampled \in Nat \ {0}
  BY SamplerAssumption
<1> QED
  BY <1>1, <1>2, <1>3, <1>4 DEF PolyRuns

LEMMA PolySamples ==
  ASSUME SamplersRun, sampler = "reject", NEW go \in BOOLEAN, S!Clock(go), S!Sample
  PROVE  PolyRuns'
<1>1. /\ s_state = "SAMPLE" /\ s_done' = FALSE
      /\ s_state' = IF accepted = Sampled - 1 THEN IF S!Fits THEN "DONE" ELSE "SAMPLE"
                    ELSE IF at = Candidates - 1 THEN "EXHAUSTED" ELSE "SAMPLE"
      /\ at' = IF at = Candidates - 1 THEN at ELSE at + 1
  BY DEF S!Sample, S!Goes, S!Advance, S!Last
<1>2. /\ coeffs' = IF S!Fits THEN [coeffs EXCEPT ![accepted] = shake.out[at]] ELSE coeffs
      /\ accepted' = IF S!Fits /\ accepted # Sampled - 1 THEN accepted + 1 ELSE accepted
  BY DEF S!Sample, S!Accept, S!candidate
<1>3. /\ at \in 0 .. Candidates - 1 /\ accepted \in 0 .. Sampled - 1
      /\ CountBefore(at) = accepted /\ DOMAIN coeffs = 0 .. Sampled - 1
      /\ \A c \in 0 .. Sampled - 1 : c < accepted => IsAfter(c, coeffs[c])
      /\ shake'.out = shake.out
  BY <1>1, PolyKeeps DEF PolyRuns
<1>4. /\ Candidates \in Nat \ {0} /\ Sampled \in Nat \ {0} /\ at \in Nat /\ accepted \in Nat
      /\ at + 1 \in 0 .. Candidates
  BY <1>3, SamplerAssumption
<1>5. /\ \A n : CountBefore(n)' = CountBefore(n)
      /\ \A c, v : IsAfter(c, v)' = IsAfter(c, v)
      /\ S!Enough(shake.out)' = S!Enough(shake.out)
  BY <1>3 DEF CountBefore, IsAfter
<1>6. CountBefore(at + 1) = IF S!Fits THEN accepted + 1 ELSE accepted
  BY <1>3, <1>4, FittingGrows DEF CountBefore, S!Fits, S!candidate
<1>7. S!Fits => IsAfter(accepted, shake.out[at])
  BY <1>3, <1>4 DEF IsAfter, S!Fits, S!candidate, S!Fitting
<1>8. /\ DOMAIN coeffs' = 0 .. Sampled - 1
      /\ \A c \in 0 .. Sampled - 1 : c < accepted => IsAfter(c, coeffs'[c])
      /\ S!Fits => IsAfter(accepted, coeffs'[accepted])
  BY <1>2, <1>3, <1>4, <1>7
<1>9. S!Enough(shake.out) <=> CountBefore(Candidates) >= Sampled
  BY SameCardinality DEF S!Enough, CountBefore
<1>10. CASE S!Fits /\ accepted = Sampled - 1
  <2>1. CountBefore(at + 1) <= CountBefore(Candidates) /\ CountBefore(Candidates) \in Nat
    BY <1>4, FittingGrows DEF CountBefore
  <2>2. S!Enough(shake.out)
    BY <1>4, <1>6, <1>9, <1>10, <2>1
  <2>3. \A c \in 0 .. Sampled - 1 : IsAfter(c, coeffs'[c])
    BY <1>4, <1>8, <1>10
  <2>4. PolyIs'
    BY <1>5, <2>2, <2>3 DEF PolyIs
  <2> QED
    BY <1>1, <1>8, <1>10, <2>4 DEF PolyRuns
<1>11. CASE accepted # Sampled - 1 /\ at = Candidates - 1
  <2>1. CountBefore(Candidates) < Sampled
    BY <1>3, <1>4, <1>6, <1>11
  <2>2. ~S!Enough(shake.out)
    <3>1. CountBefore(Candidates) \in Nat
      BY <1>4, FittingGrows DEF CountBefore
    <3> QED
      BY <1>4, <1>9, <2>1, <3>1
  <2> QED
    BY <1>1, <1>5, <1>8, <1>11, <2>2 DEF PolyRuns
<1>12. CASE /\ ~(S!Fits /\ accepted = Sampled - 1)
            /\ ~(accepted # Sampled - 1 /\ at = Candidates - 1)
  <2>1. s_state' = "SAMPLE" /\ at' \in 0 .. Candidates - 1 /\ accepted' \in 0 .. Sampled - 1
    BY <1>1, <1>2, <1>3, <1>4, <1>12
  <2>2. CountBefore(at') = accepted'
    BY <1>1, <1>2, <1>3, <1>6, <1>12
  <2>3. \A c \in 0 .. Sampled - 1 : c < accepted' => IsAfter(c, coeffs'[c])
    BY <1>2, <1>4, <1>8
  <2>4. CountBefore(at)' = accepted'
    BY <1>3, <2>2 DEF CountBefore
  <2>5. \A c \in 0 .. Sampled - 1 : c < accepted' => IsAfter(c, coeffs[c])'
    BY <1>3, <2>3 DEF IsAfter, CountBefore
  <2> QED
    BY <1>1, <1>8, <2>1, <2>4, <2>5 DEF PolyRuns
<1> QED
  BY <1>10, <1>11, <1>12

LEMMA PolyRun ==
  ASSUME SamplersRun, sampler = "reject", NEW go \in BOOLEAN, S!Clock(go)
  PROVE  PolyRuns'
<1>1. CASE S!Hash \/ S!Waiting
  <2>1. /\ s_done' = FALSE /\ coeffs' = coeffs
        /\ s_state' \in {"IDLE", "START_SHAKE", "WAIT_SHAKE"}
    BY <1>1 DEF S!Hash, S!Waiting, S!Goes, S!data
  <2> QED
    BY <2>1, PolyKeeps DEF PolyRuns
<1>2. CASE S!Complete
  <2>1. /\ s_state \in {"DONE", "EXHAUSTED"} /\ s_state' = "IDLE" /\ ending' = s_state
        /\ coeffs' = coeffs
    BY <1>2 DEF S!Complete, S!data
  <2>2. PolyRuns /\ shake'.out = shake.out
    BY <2>1, PolyKeeps
  <2>3. PolyIs' = PolyIs /\ S!Enough(shake.out)' = S!Enough(shake.out)
    BY <2>1, <2>2 DEF PolyIs, IsAfter, CountBefore
  <2> QED
    BY <2>1, <2>2, <2>3 DEF PolyRuns
<1>3. CASE S!RejectPoly
  BY <1>3, PolyBegins, PolySamples DEF S!RejectPoly
<1> QED
  BY <1>1, <1>2, <1>3 DEF S!Clock, S!SampleInBall

LEMMA SamplersReset ==
  ASSUME SamplersRun, S!Reset
  PROVE  SamplersRun'
<1>1. /\ s_state' = "IDLE" /\ s_done' = FALSE /\ ~shake_start' /\ sampler' = sampler
      /\ coeffs' = coeffs /\ shake' = S!UnitReset(shake)
  BY DEF S!Reset, S!Goes, S!data
<1>2. ShakeCalls'
  BY <1>1 DEF SamplersRun, ShakeCalls, S!UnitReset, IsUnit, UnitRests
<1> QED
  BY <1>1, <1>2 DEF SamplersRun, BallRuns, PolyRuns

LEMMA SamplersClock ==
  ASSUME SamplersRun, NEW go \in BOOLEAN, S!Clock(go)
  PROVE  SamplersRun'
<1>1. ShakeCalls' /\ sampler' = sampler /\ (s_done' => s_state' = "IDLE")
  BY SamplerFsm, ShakeKeeps DEF SamplersRun, SamplerMoves
<1>2. sampler = "ball" => BallRuns'
  BY BallRun
<1>3. sampler = "reject" => PolyRuns'
  BY PolyRun
<1> QED
  BY <1>1, <1>2, <1>3 DEF SamplersRun

LEMMA SamplersStep == SamplersRun /\ [MCNext]_mcVars => SamplersRun'
<1> SUFFICES ASSUME SamplersRun, [MCNext]_mcVars PROVE SamplersRun'
  OBVIOUS
<1>1. ASSUME UNCHANGED samplerVars PROVE SamplersRun'
  BY <1>1 DEF samplerVars, SamplersRun, ShakeCalls, BallRuns, BallCleared, BallShuffles, Sparse,
     Placed, InStep, BallIs, BallAt, PolyRuns, PolyIs, IsAfter, CountBefore, S!Blocks, S!BallBlocks
<1>2. CASE UNCHANGED mcVars
  BY <1>1, <1>2 DEF mcVars
<1>3. CASE SigningReset
  BY <1>1, <1>3 DEF SigningReset
<1>4. CASE SamplerReset
  BY <1>4, SamplersReset DEF SamplerReset
<1>5. ASSUME NEW go \in BOOLEAN, Signing(go) PROVE SamplersRun'
  BY <1>1, <1>5 DEF Signing
<1>6. ASSUME NEW go \in BOOLEAN, Sampler(go) PROVE SamplersRun'
  BY <1>6, SamplersClock DEF Sampler
<1> QED
  BY <1>2, <1>3, <1>4, <1>5, <1>6 DEF MCNext

LEMMA SamplersInit == MCInit => SamplersRun
<1> SUFFICES ASSUME MCInit PROVE SamplersRun
  OBVIOUS
<1>1. /\ sampler \in {"ball", "reject"} /\ s_state = "IDLE" /\ s_done = FALSE
      /\ shake_start = FALSE /\ shake = S!IdleUnit /\ coeffs = [c \in S!Indices |-> Undefined]
  BY DEF MCInit, S!Init
<1>2. S!Indices = 0 .. (IF sampler = "ball" THEN N ELSE Sampled) - 1
  BY DEF S!Indices
<1>3. ShakeCalls
  BY <1>1 DEF ShakeCalls, S!IdleUnit, IsUnit, UnitRests
<1>4. DOMAIN coeffs = 0 .. (IF sampler = "ball" THEN N ELSE Sampled) - 1
  BY <1>1, <1>2
<1> QED
  BY <1>1, <1>3, <1>4 DEF SamplersRun, BallRuns, PolyRuns

LEMMA ChallengeIsRight == SamplersRun => S!BallCorrect
<1> SUFFICES ASSUME SamplersRun, sampler = "ball", s_done
             PROVE  /\ S!Shuffled(shake.out).enough => coeffs = S!Shuffled(shake.out).c
                    /\ ending = "DONE" =>
                         /\ S!Cardinality({c \in S!Indices : coeffs[c] # 0}) = Tau
                         /\ \A c \in S!Indices : coeffs[c] \in {-1, 0, 1}
  BY DEF S!BallCorrect
<1>1. BallIs /\ (ending = "DONE" => Sparse(Tau))
  BY DEF SamplersRun, BallRuns
<1>2. S!Indices = 0 .. N - 1
  BY DEF S!Indices
<1>3. S!Shuffled(shake.out) = BallAt(Tau)
  BY ShuffledIs DEF BallAt
<1>4. {c \in S!Indices : coeffs[c] # 0} = NonZero(coeffs)
  BY <1>2 DEF NonZero
<1>5. S!Cardinality(NonZero(coeffs)) = Cardinality(NonZero(coeffs))
  BY SameCardinality
<1> QED
  BY <1>1, <1>2, <1>3, <1>4, <1>5 DEF BallIs, Sparse

LEMMA PolynomialIsRight == SamplersRun => S!PolyCorrect
<1> SUFFICES ASSUME SamplersRun, sampler = "reject", s_done
             PROVE  /\ ending = "DONE" <=> S!Enough(shake.out)
                    /\ ending = "DONE" =>
                         \A c \in S!Indices : coeffs[c] = S!FittingAfter(shake.out, c)
  BY DEF S!PolyCorrect
<1>1. IF ending = "DONE" THEN PolyIs ELSE ~S!Enough(shake.out)
  BY DEF SamplersRun, PolyRuns
<1>2. S!Indices = 0 .. Sampled - 1
  BY DEF S!Indices
<1>3. ASSUME PolyIs, NEW c \in 0 .. Sampled - 1 PROVE coeffs[c] = S!FittingAfter(shake.out, c)
  BY <1>3, AfterIsFound DEF PolyIs
<1> QED
  BY <1>1, <1>2, <1>3 DEF PolyIs

(***************************************************************************)
(* At done the challenge (pqc_dilithium_sample_in_ball.sv) is that of      *)
(* Algorithm 29 on the block of this run, if the block has enough bytes,   *)
(* and has exactly Tau coefficients that are not zero; the polynomials of  *)
(* rejection sampling (..._rej_ntt_poly.sv, ..._rej_bounded_poly.sv) are   *)
(* the candidates that fit, in order, and the run has given up exactly if  *)
(* the block has too few: whatever the block, the sizes, the latency of    *)
(* the hash, and what earlier runs or resets left behind.                  *)
(***************************************************************************)
THEOREM SamplersAreRight == MCSpec => []SamplesCorrect
<1>1. SamplersRun => SamplesCorrect
  BY ChallengeIsRight, PolynomialIsRight DEF SamplesCorrect, S!SamplesCorrect
<1> QED
  BY <1>1, SamplersInit, SamplersStep, PTL DEF MCSpec

=============================================================================
