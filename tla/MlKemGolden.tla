----------------------------- MODULE MlKemGolden -----------------------------
(***************************************************************************)
(* The Python reference of ML-KEM in hardware/pqc-rtl/m2-golden, over a    *)
(* ring of any size: kyber_ntt_golden.py, compress_golden.py,              *)
(* byteencode_golden.py, samplepolycbd_golden.py, samplentt_golden.py,     *)
(* kpke_encrypt_golden.py and mlkem_golden.py.  A polynomial is a function *)
(* on 0 .. N-1, a byte string a sequence, a key or ciphertext the tuple of *)
(* its parts.  The hash functions are parameters: their outputs are taken  *)
(* to be distinct for distinct inputs.                                     *)
(***************************************************************************)
EXTENDS Integers, Sequences, FiniteSets
LOCAL INSTANCE SequencesExt
LOCAL INSTANCE FiniteSetsExt
LOCAL INSTANCE TLC

CONSTANTS
  N, Q, ZETA,       \* ring size, modulus, primitive N-th root of unity (256, 3329, 17)
  LogHalfN,         \* N = 2^(LogHalfN + 1)
  CoeffBits,        \* bits of a coefficient of a key (12)
  K_dim, ETA1, ETA2, DU, DV,
  Nibble,           \* the candidates of SampleNTT are below Nibble^3 (16)
  XofBytes,         \* the size of its buffer
  Xof(_, _, _),     \* shake128(rho || j || i)
  Prf(_, _, _),     \* shake256(seed || n), 64 * eta bytes (N * eta / 4)
  Exhausted         \* RuntimeError: the buffer ended before N coefficients

ASSUME RingAssumption ==
  /\ N = 2 ^ (LogHalfN + 1) /\ LogHalfN \in Nat \ {0}
  /\ (ZETA ^ (N \div 2)) % Q = Q - 1
  /\ Q < 2 ^ CoeffBits

Index == 0 .. N - 1
Poly == [Index -> 0 .. Q - 1]
Zero == [i \in Index |-> 0]

\* f itself: the union makes TLC compute each value once and not at every use.
Computed(f) == f @@ <<>>

Add(f, g) == Computed([i \in Index |-> (f[i] + g[i]) % Q])
Sub(f, g) == Computed([i \in Index |-> (f[i] - g[i]) % Q])
SumOf(g) == Computed([i \in Index |-> MapThenSumSet(LAMBDA k : g[k][i], DOMAIN g) % Q])

-----------------------------------------------------------------------------
\* kyber_ntt_golden.py

Bit(i, b) == (i \div (2 ^ b)) % 2
BitRev(i) == MapThenSumSet(LAMBDA b : Bit(i, b) * (2 ^ (LogHalfN - 1 - b)), 0 .. LogHalfN - 1)

\* b ^ e % Q for every e up to n
Powers(b, n) == LET p[e \in 0 .. n] == IF e = 0 THEN 1 ELSE (p[e - 1] * b) % Q IN Computed(p)
Zetas == Powers(ZETA, N - 1)
NInverse == CHOOSE x \in 1 .. Q - 1 : (x * (N \div 2)) % Q = 1    \* Q is a prime

\* The butterflies of one level: groups of 2 * length coefficients, each with its
\* own power of zeta; k is the loop's counter at the first of them.
Level(f, length, k) ==
  Computed([i \in Index |->
     LET zeta == Zetas[BitRev(k + (i \div (2 * length)))]
     IN  IF i % (2 * length) < length THEN (f[i] + (zeta * f[i + length])) % Q
         ELSE (f[i - length] - (zeta * f[i])) % Q])
InverseLevel(f, length, k) ==
  Computed([i \in Index |->
     LET zeta == Zetas[BitRev(k - (i \div (2 * length)))]
     IN  IF i % (2 * length) < length THEN (f[i] + f[i + length]) % Q
         ELSE (zeta * (f[i] - f[i - length])) % Q])

\* k goes up from 1 in ntt and down from N / 2 - 1 in ntt_inv.
Ntt(f) ==
  FoldLeft(LAMBDA g, l : Level(g, 2 ^ (LogHalfN + 1 - l), 2 ^ (l - 1)), f, [l \in 1 .. LogHalfN |-> l])
NttInv(f) ==
  LET sums == FoldLeft(LAMBDA g, l : InverseLevel(g, 2 ^ l, (2 ^ (LogHalfN + 1 - l)) - 1),
                       f, [l \in 1 .. LogHalfN |-> l])
  IN  Computed([i \in Index |-> (sums[i] * NInverse) % Q])

\* Mutated: the gammas of the pairs lack the odd exponent.
GammaPlain(i) == Zetas[2 * BitRev(i)]

Gamma(i) == Zetas[(2 * BitRev(i)) + 1]

\* multiply_ntts, base_case_multiply
MultiplyNtts(f, g) ==
  Computed([k \in Index |->
     LET i == k - (k % 2)
     IN  IF k % 2 = 0 THEN ((f[i] * g[i]) + (((f[i + 1] * g[i + 1]) % Q) * Gamma(i \div 2))) % Q
         ELSE ((f[i] * g[i + 1]) + (f[i + 1] * g[i])) % Q])

\* negacyclic_convolution: the product modulo X^N + 1 without a transform
NegacyclicConvolution(f, g) ==
  [k \in Index |->
     MapThenSumSet(LAMBDA i : LET product == f[i] * g[(k - i) % N]
                              IN  IF i <= k THEN product ELSE -product, Index) % Q]

-----------------------------------------------------------------------------
\* compress_golden.py and byteencode_golden.py

Compress(d, x) == (((x * (2 ^ d)) + (Q \div 2)) \div Q) % (2 ^ d)
Decompress(d, y) == ((y * Q) + ((2 ^ d) \div 2)) \div (2 ^ d)

BytesToBits(B) == Computed([n \in 1 .. 8 * Len(B) |-> Bit(B[((n - 1) \div 8) + 1], (n - 1) % 8)])
Value(bits, from, n) == MapThenSumSet(LAMBDA j : bits[from + j] * (2 ^ (j - 1)), 1 .. n)
BitsToBytes(b) == Computed([n \in 1 .. Len(b) \div 8 |-> Value(b, 8 * (n - 1), 8)])

ByteEncode(d, F) == BitsToBytes([n \in 1 .. N * d |-> Bit(F[(n - 1) \div d], (n - 1) % d)])
ByteDecode(d, B) ==
  LET b == BytesToBits(B)
      m == IF d = CoeffBits THEN Q ELSE 2 ^ d
  IN  Computed([i \in Index |-> Value(b, i * d, d) % m])

\* A polynomial in and out of d bits a coefficient.
Pack(d, f) == ByteEncode(d, [i \in Index |-> Compress(d, f[i])])
Unpack(d, B) == LET y == ByteDecode(d, B) IN Computed([i \in Index |-> Decompress(d, y[i])])

-----------------------------------------------------------------------------
\* Sampling

SamplePolyCBD(eta, B) ==
  LET b == BytesToBits(B)
      Ones(from) == MapThenSumSet(LAMBDA j : b[from + j], 1 .. eta)
  IN  Computed([i \in Index |-> (Ones(2 * i * eta) - Ones((2 * i * eta) + eta)) % Q])

\* Mutated: a candidate equal to Q is kept.
AcceptableUpToQ(d) == d <= Q

Acceptable(d) == d < Q

\* The two candidates that three bytes hold.
Candidates(C) ==
  <<C[1] + (Nibble * Nibble * (C[2] % Nibble)), (C[2] \div Nibble) + (Nibble * C[3])>>

\* Mutated: the last three bytes of the buffer are never drawn.
BufferEndsEarly(bytes, i) == i + 3 >= Len(bytes)

BufferEnds(bytes, i) == i + 3 > Len(bytes)

\* Mutated: the second candidate of a round is kept although the first filled a_hat.
HasRoomAlways(a_hat) == TRUE

HasRoom(a_hat) == Len(a_hat) < N

\* The loop of sample_ntt.  a_hat holds the coefficients so far, j of them; a
\* coefficient beyond the last would show in the domain of the result.
RECURSIVE SampleFrom(_, _, _)
SampleFrom(bytes, i, a_hat) ==
  IF Len(a_hat) >= N THEN a_hat
  ELSE IF BufferEnds(bytes, i) THEN Exhausted
  ELSE LET d == Candidates(SubSeq(bytes, i + 1, i + 3))
           first == IF Acceptable(d[1]) THEN Append(a_hat, d[1]) ELSE a_hat
           second == IF Acceptable(d[2]) /\ HasRoom(first) THEN Append(first, d[2]) ELSE first
       IN  SampleFrom(bytes, i + 3, second)

SampleNtt(bytes) ==
  LET a_hat == SampleFrom(bytes, 0, <<>>)
  IN  IF a_hat = Exhausted THEN Exhausted
      ELSE Computed([j \in 0 .. Len(a_hat) - 1 |-> a_hat[j + 1]])

-----------------------------------------------------------------------------
\* K-PKE

Dim == 1 .. K_dim
Matrix(rho) == Computed([i \in Dim |-> Computed([j \in Dim |-> SampleNtt(Xof(rho, j - 1, i - 1))])])
Noise(eta, seed, n) == SamplePolyCBD(eta, Prf(eta, seed, n))

\* kpke_keygen, from the two halves of sha3_512(d || K)
KpkeKeyGen(rho, sigma) ==
  LET A == Matrix(rho)
      s_hat == Computed([i \in Dim |-> Ntt(Noise(ETA1, sigma, i - 1))])
      e_hat == Computed([i \in Dim |-> Ntt(Noise(ETA1, sigma, K_dim + i - 1))])
      t_hat == [i \in Dim |-> Add(SumOf([j \in Dim |-> MultiplyNtts(A[i][j], s_hat[j])]), e_hat[i])]
  IN  [ek |-> [t |-> [i \in Dim |-> ByteEncode(CoeffBits, t_hat[i])], rho |-> rho],
       dk |-> [i \in Dim |-> ByteEncode(CoeffBits, s_hat[i])]]

\* Mutated: the matrix is not transposed.
EntryPlain(A, i, j) == A[i][j]

Entry(A, i, j) == A[j][i]      \* of the transposed matrix

KpkeEncrypt(ek, m, r) ==
  LET t_hat == [i \in Dim |-> ByteDecode(CoeffBits, ek.t[i])]
      A == Matrix(ek.rho)
      y_hat == Computed([i \in Dim |-> Ntt(Noise(ETA1, r, i - 1))])
      u == [i \in Dim |-> Add(NttInv(SumOf([j \in Dim |-> MultiplyNtts(Entry(A, i, j), y_hat[j])])),
                              Noise(ETA2, r, K_dim + i - 1))]
      mu == Unpack(1, m)
      v == Add(Add(NttInv(SumOf([j \in Dim |-> MultiplyNtts(t_hat[j], y_hat[j])])),
                   Noise(ETA2, r, 2 * K_dim)), mu)
  IN  [c1 |-> [i \in Dim |-> Pack(DU, u[i])], c2 |-> Pack(DV, v)]

KpkeDecrypt(dk, c) ==
  LET s_hat == [i \in Dim |-> ByteDecode(CoeffBits, dk[i])]
      u_hat == [i \in Dim |-> Ntt(Unpack(DU, c.c1[i]))]
      inner == NttInv(SumOf([i \in Dim |-> MultiplyNtts(s_hat[i], u_hat[i])]))
  IN  Pack(1, Sub(Unpack(DV, c.c2), inner))

-----------------------------------------------------------------------------
\* ML-KEM; H, G and J are written as the tuples they hash

KeyGenInternal(d, z) ==
  LET keys == KpkeKeyGen(<<"rho", d>>, <<"sigma", d>>)
  IN  [ek |-> keys.ek, dk |-> [dkPKE |-> keys.dk, ek |-> keys.ek, h |-> <<"H", keys.ek>>, z |-> z]]

SharedSecret(m, h) == <<"K", m, h>>
Coins(m, h) == <<"r", m, h>>

EncapsInternal(ek, m) ==
  LET h == <<"H", ek>>
  IN  [K |-> SharedSecret(m, h), c |-> KpkeEncrypt(ek, m, Coins(m, h))]

\* Mutated: no re-encryption.
DecapsUnchecked(dk, c) == SharedSecret(KpkeDecrypt(dk.dkPKE, c), dk.h)

DecapsInternal(dk, c) ==
  LET m == KpkeDecrypt(dk.dkPKE, c)
  IN  IF c # KpkeEncrypt(dk.ek, m, Coins(m, dk.h)) THEN <<"J", dk.z, c>>
      ELSE SharedSecret(m, dk.h)

-----------------------------------------------------------------------------
(***************************************************************************)
(* The forward transform on two lanes and four memory banks: the stage of  *)
(* hardware/pqc-rtl/rtl/pqc_ntt_stage_banked.sv (NTT_READ_LATENCY = 1),    *)
(* which serves one address per bank and cycle, run along the schedule of  *)
(* gen_full_ntt_vectors.py with a mapping of addresses to banks as         *)
(* bank_mapping_search.py tries them and bank_mapping_sat_proof_v2.py      *)
(* accepts them.                                                           *)
(***************************************************************************)

CONSTANTS
  Candidates4,  \* the mappings tried: records of functions bank and local on Index
  Inputs        \* the polynomials transformed

VARIABLES
  mapping, input,
  memory,   \* [bank -> [local -> coefficient]]
  cycle     \* of the schedule

laneVars == <<mapping, input, memory, cycle>>

Bank == 0 .. 3
Local == 0 .. (N \div 4) - 1

-----------------------------------------------------------------------------
\* The candidates, in digits of two bits: a % 4 is addr[1:0].

Xor(x, y) == (((x % 2) + (y % 2)) % 2) + (2 * (((x \div 2) + (y \div 2)) % 2))
Naive == [bank |-> [a \in Index |-> a % 4], local |-> [a \in Index |-> a \div 4]]
Upper == [bank |-> [a \in Index |-> a \div (N \div 4)], local |-> [a \in Index |-> a % (N \div 4)]]
Folded ==
  [bank |-> [a \in Index |-> Xor(a \div (N \div 4), a % 4)], local |-> [a \in Index |-> a \div 4]]

-----------------------------------------------------------------------------
\* The four addresses of a cycle <<lane 0: a, b; lane 1: a, b>> and the number k of
\* the group of each lane.  The one group of the first level is split between the
\* lanes; from then on each lane has a group of its own.

Quad(a0, a1, length, k0, k1) == [at |-> <<a0, a0 + length, a1, a1 + length>>, k |-> <<k0, k1>>]
FirstLevel == [j \in 1 .. N \div 4 |-> Quad(j - 1, (N \div 4) + j - 1, N \div 2, 1, 1)]
LevelOf(length) ==
  [n \in 1 .. N \div 4 |->
     LET pair == (n - 1) \div length
         first == 4 * length * pair
         j == (n - 1) % length
         k == ((N \div 2) \div length) + (2 * pair)
     IN  Quad(first + j, first + (2 * length) + j, length, k, k + 1)]
LaterLevels(lengths) == FlattenSeq([l \in 1 .. Len(lengths) |-> LevelOf(lengths[l])])

Lengths == [l \in 1 .. LogHalfN - 1 |-> 2 ^ (LogHalfN - l)]
Schedule == Computed(FirstLevel \o LaterLevels(Lengths))

\* check_mapping: no two addresses share a place, no two of a cycle a bank.
OneToOne(mp) == Cardinality({<<mp.bank[a], mp.local[a]>> : a \in Index}) = N
Distinct(mp, quad) == Cardinality({mp.bank[quad.at[p]] : p \in 1 .. 4}) = 4

\* Mutated: the check leaves out the last level.
CheckMappingShort(mp) ==
  OneToOne(mp) /\ \A n \in 1 .. Len(Schedule) - (N \div 4) : Distinct(mp, Schedule[n])

CheckMapping(mp) == OneToOne(mp) /\ \A n \in DOMAIN Schedule : Distinct(mp, Schedule[n])

-----------------------------------------------------------------------------
\* The stage

\* Of the ports that claim a bank, in the order a0, b0, a1, b1, the first has it.
Served(at, bank) ==
  LET claims == {p \in 1 .. 4 : mapping.bank[at[p]] = bank}
  IN  IF claims = {} THEN 0 ELSE Min(claims)

\* Every port takes what the bank it aimed at delivers, be it for another port.
ReadData(at, p) ==
  LET bank == mapping.bank[at[p]]
  IN  memory[bank][mapping.local[at[Served(at, bank)]]]

\* What the two butterflies write back.
WriteData(quad, p) ==
  LET lane == IF p <= 2 THEN 1 ELSE 2
      x == ReadData(quad.at, (2 * lane) - 1)
      y == (Zetas[BitRev(quad.k[lane])] * ReadData(quad.at, 2 * lane)) % Q
  IN  IF p % 2 = 1 THEN (x + y) % Q ELSE (x - y) % Q

\* The coefficients are loaded in the order of their addresses.
LoadedLast(mp, bank, loc) ==
  LET here == {a \in Index : mp.bank[a] = bank /\ mp.local[a] = loc}
  IN  IF here = {} THEN 0 ELSE input[Max(here)]

LaneInit ==
  /\ mapping \in Candidates4 /\ input \in Inputs /\ cycle = 1
  /\ memory = [bank \in Bank |-> [loc \in Local |-> LoadedLast(mapping, bank, loc)]]

LaneCycle ==
  /\ cycle \in DOMAIN Schedule
  /\ LET quad == Schedule[cycle]
     IN  memory' = [bank \in Bank |->
                      LET p == Served(quad.at, bank)
                      IN  IF p = 0 THEN memory[bank]
                          ELSE [memory[bank] EXCEPT ![mapping.local[quad.at[p]]] = WriteData(quad, p)]]
  /\ cycle' = cycle + 1
  /\ UNCHANGED <<mapping, input>>

\* What the banks hold, by address.
Contents == [a \in Index |-> memory[mapping.bank[a]][mapping.local[a]]]

\* A mapping passes the check exactly if the two lanes compute the transform of the
\* reference with it: no operand is read from a bank another port has, no result lost.
BanksComputeTransform ==
  (cycle = Len(Schedule) + 1) => (CheckMapping(mapping) <=> (Contents = Ntt(input)))
=============================================================================
