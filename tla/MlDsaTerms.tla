----------------------------- MODULE MlDsaTerms ------------------------------
(***************************************************************************)
(* ML-DSA signing (FIPS 204, Algorithm 7) over symbolic data: what the     *)
(* combinational blocks and the units of pqc_dilithium_sign_top2.sv and    *)
(* its cores return, and the signature Sign_internal makes of the same     *)
(* blocks.  A block is a free constructor; a polynomial handled            *)
(* coefficient by coefficient is a function on Indices.                    *)
(***************************************************************************)
EXTENDS Integers, Sequences, CalledUnit

CONSTANTS Inputs,       \* what may be asked to be signed, key and randomness included
          Fate,         \* the verdicts of the norm checks on the attempts of each
          K, L,         \* rows and columns of the matrix
          Coeffs,       \* the coefficients of a polynomial
          Mixed         \* data that does not belong together

ASSUME SizeAssumption ==
  /\ K \in Nat /\ K > 0 /\ L \in Nat /\ L > 0
  /\ Coeffs \in Nat /\ Coeffs > 0

\* An attempt fails the check of z, that of the hints, or none.
ASSUME FateAssumption ==
  /\ Fate \in [Inputs -> Seq({"z", "h", "ok"})]
  /\ \A x \in Inputs : \E n \in 1 .. Len(Fate[x]) :
       Fate[x][n] = "ok" /\ \A o \in 1 .. n - 1 : Fate[x][o] # "ok"

Rows    == 0 .. K - 1
Columns == 0 .. L - 1
Indices == 0 .. Coeffs - 1

-----------------------------------------------------------------------------
\* The ports for an input: rho_in, k_key_in, tr_in, m_in, rnd_in, and the
\* polynomials of s1_in, s2_in and t0_in.
Port(name, x)    == <<name, x>>
Poly(name, x, i) == <<name, x, i>>

Mu(tr, m)            == <<"mu", tr, m>>
RhoPrime(k, rnd, mu) == <<"rho'", k, rnd, mu>>
RejNTTPoly(rho, i, j) == <<"A", rho, i, j>>
ExpandMask(rp, n)    == <<"y", rp, n>>
SampleInBall(ct)     == <<"c", ct>>

Plus(f, g)     == <<"+", f, g>>
Multiply(f, g) == <<"mul", f, g>>
Zq(f)          == <<"zq", f>>
NTT(f)         == <<"ntt", f>>
InverseNTT(f)  == <<"inverse", f>>
HighBits(f)    == <<"high", f>>
MakeHint(w, cs2, ct0) == <<"hint", w, cs2, ct0>>

\* Coefficient at of a polynomial, products and sums of coefficients, and
\* the polynomial a register holds that was filled one by one.
At(f, at) == [of |-> f, at |-> at]
Zero == At(<<"0">>, 0)
Times(a, b) == At(IF a.at = b.at THEN Multiply(a.of, b.of) ELSE Mixed, a.at)
Accumulate(acc, b) ==
  IF acc = Zero THEN b ELSE At(IF acc.at = b.at THEN Plus(acc.of, b.of) ELSE Mixed, b.at)
Gather(p) == IF \A c \in Indices : p[c] = At(p[0].of, c) THEN p[0].of ELSE Mixed

-----------------------------------------------------------------------------
\* One attempt of Algorithm 7 at counter kappa.
MuOf(x) == Mu(Port("tr", x), Port("m", x))
RhoPrimeOf(x) == RhoPrime(Port("K", x), Port("rnd", x), MuOf(x))

\* The sum of f[0], ..., f[n].
SumTo(f, n) ==
  LET sum[i \in 0 .. n] == IF i = 0 THEN f[0] ELSE Plus(sum[i - 1], f[i]) IN sum[n]

Mask(x, kappa) == [j \in Columns |-> ExpandMask(RhoPrimeOf(x), kappa + j)]
Commitment(x, kappa) ==
  [i \in Rows |->
     InverseNTT(SumTo([j \in Columns |-> Multiply(RejNTTPoly(Port("rho", x), i, j),
                                                  NTT(Zq(Mask(x, kappa)[j])))], L - 1))]

\* The counter of attempt n, and all attempts that can be made.
Counter(n) == (n - 1) * L
Attempts == UNION {{<<x, n>> : n \in 1 .. Len(Fate[x])} : x \in Inputs}

(***************************************************************************)
(* The hash of mu and the high bits of w.  What an attempt hashes has its  *)
(* own value; of anything else it only matters that it is none of them.    *)
(***************************************************************************)
Hashed ==
  [a \in Attempts |->
     <<MuOf(a[1]), [i \in Rows |-> HighBits(Commitment(a[1], Counter(a[2]))[i])]>>]
ChallengeHash(mu, w1) ==
  IF \E a \in Attempts : Hashed[a] = <<mu, w1>>
  THEN <<"c~", CHOOSE a \in Attempts : Hashed[a] = <<mu, w1>>>> ELSE Mixed

Scaled(f, c) == InverseNTT(Multiply(NTT(f), NTT(Zq(c))))

Attempt(x, n) ==
  LET w == Commitment(x, Counter(n))
      ct == <<"c~", <<x, n>>>>
      c == SampleInBall(ct)
  IN  [c_tilde |-> ct,
       z |-> [i \in Columns |-> Plus(Mask(x, Counter(n))[i], Scaled(Poly("s1", x, i), c))],
       h |-> [i \in Rows |-> MakeHint(w[i], Scaled(Poly("s2", x, i), c),
                                            Scaled(Poly("t0", x, i), c))]]
Made == [a \in Attempts |-> Attempt(a[1], a[2])]

\* The norm checks: they look at z alone, and at w, c*s2 and c*t0 alone.
RejectsZ(z) == \E a \in Attempts : Fate[a[1]][a[2]] = "z" /\ Made[a].z = z
RejectsH(h) == \E a \in Attempts : Fate[a[1]][a[2]] = "h" /\ Made[a].h = h

\* Algorithm 7: the signature is that of the first attempt that passes.
Passing(x) == CHOOSE n \in 1 .. Len(Fate[x]) :
                Fate[x][n] = "ok" /\ \A o \in 1 .. n - 1 : Fate[x][o] # "ok"
=============================================================================
