------------------------------ MODULE KemTerms -------------------------------
(***************************************************************************)
(* ML-KEM (FIPS 203) over symbolic data, for the encapsulation and         *)
(* decapsulation cores of the Trust Anchor Unit: what the combinational    *)
(* blocks of pqc_mlkem_decaps_a_core.sv and pqc_mlkem_decaps_b1_core.sv    *)
(* return, and what Algorithms 14, 15, 17 and 18 compute from the same     *)
(* blocks.                                                                 *)
(*                                                                         *)
(* A block is a free constructor: <<name, argument, ...>>.  A polynomial   *)
(* that is handled coefficient by coefficient is a function on Indices.    *)
(***************************************************************************)
EXTENDS Integers, Sequences, CalledUnit

CONSTANTS Keys,         \* key pairs
          Messages,     \* values of m
          Coeffs,       \* the coefficients of a polynomial
          Entries,      \* the entries of a schedule ROM
          Mixed         \* a polynomial whose coefficients do not belong together,
                        \* and a message nobody sent

ASSUME SizeAssumption ==
  /\ Coeffs \in Nat /\ Coeffs > 0
  /\ Entries \in Nat /\ Entries > 0

K == 2
Vec == 0 .. K - 1
Indices == 0 .. Coeffs - 1

-----------------------------------------------------------------------------
\* Hashes and samplers.
H(ek)   == <<"H", ek>>
G(m, h) == <<<<"K", m, h>>, <<"r", m, h>>>>
J(z, c) == <<"J", z, c>>
SampleNTT(rho, j, i) == <<"A", rho, j, i>>
SampleCBD(eta, r, n) == <<"cbd", eta, r, n>>

\* Arithmetic, coding and compression of whole polynomials.
Zero            == <<"0">>
Plus(f, g)      == <<"+", f, g>>
Minus(f, g)     == <<"-", f, g>>
Multiply(f, g)  == <<"mul", f, g>>
Scale(f)        == <<"scale", f>>
Compress(d, f)   == <<"compress", d, f>>
Decompress(d, f) == <<"decompress", d, f>>
ByteEncode(d, f) == <<"enc", d, f>>
ByteDecode(d, b) == <<"dec", d, b>>

(***************************************************************************)
(* Coefficient at of op(f), after stage of the stages of a transform.  A   *)
(* register filled coefficient by coefficient holds op(f) if all of them   *)
(* are of the same, and nothing else of interest otherwise.                *)
(***************************************************************************)
Coefficient(op, stage, f, at) == [op |-> op, stage |-> stage, poly |-> f, at |-> at]
Poly(op, stage, f) == [c \in Indices |-> Coefficient(op, stage, f, c)]
Loaded(f) == Poly("id", 0, f)
Gather(p) ==
  IF p = Poly(p[0].op, p[0].stage, p[0].poly) THEN <<p[0].op, p[0].stage, p[0].poly>>
  ELSE Mixed
NTT(f)        == <<"ntt", Entries, f>>
InverseNTT(f) == Scale(<<"inverse", Entries, f>>)

\* One entry of a schedule, over the whole memory.
Stage(op, entry, memory) ==
  LET f == memory[0].poly
  IN  IF memory = (IF entry = 0 THEN Loaded(f) ELSE Poly(op, entry, f))
      THEN Poly(op, entry + 1, f) ELSE Poly(op, entry + 1, Mixed)

-----------------------------------------------------------------------------
\* K-PKE.Encrypt of FIPS 203 (Algorithm 14): c as <<c1[0], c1[1], c2>>.
Part(b, i) == <<"part", b, i>>
Mu(m) == <<"mu", 0, m>>

KpkeEncrypt(ek, m, r) ==
  LET rho == Part(ek, K)
      yHat(i) == NTT(SampleCBD(3, r, i))
      A(i, j) == SampleNTT(rho, j, i)
      u(i) == Plus(InverseNTT(Plus(Plus(Zero, Multiply(A(0, i), yHat(0))),
                                   Multiply(A(1, i), yHat(1)))),
                   SampleCBD(2, r, K + i))
      tHat(i) == ByteDecode(12, Part(ek, i))
      v == Plus(Plus(InverseNTT(Plus(Plus(Zero, Multiply(tHat(0), yHat(0))),
                                     Multiply(tHat(1), yHat(1)))),
                     SampleCBD(2, r, 2 * K)),
                Mu(m))
  IN  <<ByteEncode(10, Compress(10, u(0))), ByteEncode(10, Compress(10, u(1))),
        ByteEncode(4, Compress(4, v))>>

\* The polynomial K-PKE.Decrypt (Algorithm 15) rounds to the message.
Rounded(sk, c) ==
  LET u(i) == Decompress(10, ByteDecode(10, c[i + 1]))
      sHat(i) == ByteDecode(12, Part(sk, i))
  IN  Minus(Decompress(4, ByteDecode(4, c[3])),
            InverseNTT(Plus(Plus(Zero, Multiply(sHat(0), NTT(u(0)))),
                            Multiply(sHat(1), NTT(u(1))))))

\* Key pairs.
PublicKey(k) == <<"ek", k>>
SecretKey(k) == [pke |-> <<"dk", k>>, ek |-> PublicKey(k), h |-> H(PublicKey(k)),
                 z |-> <<"z", k>>]

\* Algorithm 17: the shared secret and the ciphertext.
Encapsulated(ek, m) ==
  LET g == G(m, H(ek)) IN [secret |-> g[1], c |-> KpkeEncrypt(ek, m, g[2])]

(***************************************************************************)
(* That decryption undoes encryption is the one law about the blocks: the  *)
(* bits of the polynomial rounded from an encryption of m are those of m,  *)
(* whosever coins G derived.                                              *)
(***************************************************************************)
Decryptions ==
  {[of |-> Rounded(SecretKey(k).pke, KpkeEncrypt(PublicKey(k), m, r)), m |-> m] :
     k \in Keys, m \in Messages, r \in {G(n, H(PublicKey(l)))[2] : n \in Messages, l \in Keys}}

\* The message whose bits have been gathered from rounded coefficients; of
\* any other it only matters that it is none of them.
Message(bits) ==
  LET w == Gather(bits)
      known == {d \in Decryptions : w = <<"bit", 0, d.of>>}
  IN  IF known = {} THEN Mixed ELSE (CHOOSE d \in known : TRUE).m
KpkeDecrypt(sk, c) == Message(Poly("bit", 0, Rounded(sk, c)))

\* Algorithm 18: implicit rejection.
Decapsulated(dk, c) ==
  LET m == KpkeDecrypt(dk.pke, c)
      g == G(m, dk.h)
      match == c = KpkeEncrypt(dk.ek, m, g[2])
  IN  [match |-> match, secret |-> IF match THEN g[1] ELSE J(dk.z, c)]
=============================================================================
