--------------------------- MODULE MCKemExchange ---------------------------
(***************************************************************************)
(* A ring of 16 coefficients modulo 193, where 3 is a primitive 16th       *)
(* root of unity.  The hash functions are small tables with sparse noise,  *)
(* so that no message of the run meets a decryption failure (FIPS 203      *)
(* bounds their probability, the reference does not handle them).          *)
(***************************************************************************)
EXTENDS KemExchange

MCSeeds == {1, 2}
MCRejections == {"z"}
MCMessages == {<<165, 7>>, <<255, 255>>}
MCFactors == {1, 57, 192}

\* Bytes are below 36 = Nibble^2.  The candidates are (192, 0), (193, 35), (0, 215),
\* (194, 192): the last coefficient, Q itself, and pairs with either half refused.
MCRounds == {<<12, 5, 0, 12, 5, 0>>, <<13, 35, 5, 0, 30, 35>>,
             <<14, 5, 32, 12, 5, 0>>, <<14, 5, 32, 13, 35, 5>>}
MCFlippedBits == {0, 7}

MCXof(rho, j, i) ==
  [n \in 1 .. XofBytes |-> ((7 * n * n) + (n * ((5 * j) + (3 * i) + rho[2])) + (11 * i) + j) % 36]

\* Four bytes for every unit of eta, one bit set in each of two: different noise for
\* messages that differ in one bit, and for the seeds of the keys.
Seed(s) == IF s[1] = "sigma" THEN s[2] ELSE s[2][1] + s[2][2] + s[3][2].rho[2]
MCPrf(eta, seed, n) ==
  [i \in 1 .. 4 * eta |-> CASE i = 2 -> 2 ^ ((Seed(seed) + n) % 3)
                             [] i = 4 * eta -> 2 ^ ((Seed(seed) + (2 * n)) % 7)
                             [] OTHER -> 0]

\* The candidates of bank_mapping_search.py, and one whose local address lacks the
\* digit its bank does not give back.
MCAliased == [Folded EXCEPT !.local = [a \in Index |-> ((a \div 4) + (a % 4)) % 4]]
MCCandidates4 == {Naive, Upper, Folded, MCAliased}
MCInputs == {[i \in Index |-> ((7 * i * i) + 5) % Q], [i \in Index |-> IF i = 1 THEN 1 ELSE 0]}

\* A state of six bytes and a linear map that can be undone (its determinant is odd).
MCPermute(s) == [i \in 1 .. 6 |-> ((4 * s[(i % 6) + 1]) + (3 * s[i]) + i) % 256]

(***************************************************************************)
(* The rates are a lane, a block, and a length between.  The bytes of a    *)
(* message are those that padding could be mistaken for: 0, 128 and the    *)
(* suffixes.                                                               *)
(***************************************************************************)
MCHashedBytes == {0, 6, 128}

=============================================================================
