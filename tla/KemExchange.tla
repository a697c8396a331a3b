----------------------------- MODULE KemExchange -----------------------------
(***************************************************************************)
(* What hardware/pqc-rtl/m2-golden does with the operators of MlKemGolden: *)
(* mlkem_regression.py runs KeyGen, Encaps and Decaps, with the ciphertext *)
(* intact or with one bit inverted on the way; the self-checks of          *)
(* kyber_ntt_golden.py compare the product taken through the transform     *)
(* with the schoolbook one; samplentt_golden.py draws coefficients from a  *)
(* buffer that may be too short; bank_mapping_search.py runs the           *)
(* transform on a banked stage; the self-checks of keccak_golden.py hash   *)
(* messages around the size of a block.  One bench of the five is at work  *)
(* in a behaviour.                                                         *)
(***************************************************************************)
EXTENDS MlKemGolden
LOCAL INSTANCE SequencesExt
LOCAL INSTANCE FiniteSetsExt

(***************************************************************************)
(* The sponge of hardware/pqc-rtl/m2-golden/keccak_golden.py over a        *)
(* permutation of any state of bytes: padding, absorption, and both ways   *)
(* the file squeezes.  The state is a sequence of StateBytes bytes; the    *)
(* rate is the number of bytes of a block.                                 *)
(***************************************************************************)

CONSTANTS
  StateBytes,   \* 200
  LaneBytes,    \* of a lane of the state: 8
  BlockBytes,   \* what a block is filled up to before it is absorbed: 168
  Permute(_)    \* keccak_f1600

BitOf(x, b) == (x \div (2 ^ b)) % 2
XorByte(x, y) == MapThenSumSet(LAMBDA b : ((BitOf(x, b) + BitOf(y, b)) % 2) * (2 ^ b), 0 .. 7)
Zeros(n) == [i \in 1 .. n |-> 0]

\* Mutated: the last byte is set, not combined with the domain suffix before it.
PadMessageSet(message, rate, suffix) ==
  LET msg == Append(message, suffix)
      padded == msg \o Zeros((-Len(msg)) % rate)
  IN  [padded EXCEPT ![Len(padded)] = 128]

PadMessage(message, rate, suffix) ==
  LET msg == Append(message, suffix)
      padded == msg \o Zeros((-Len(msg)) % rate)
  IN  [padded EXCEPT ![Len(padded)] = XorByte(@, 128)]

\* Mutated: the last lane of the block is not read.
BytesToStateShort(b) ==
  [i \in 1 .. StateBytes |-> IF i <= LaneBytes * ((Len(b) - 1) \div LaneBytes) THEN b[i] ELSE 0]

\* bytes_to_state reads whole lanes: bytes after the last whole lane are left out.
BytesToState(b) ==
  [i \in 1 .. StateBytes |-> IF i <= LaneBytes * (Len(b) \div LaneBytes) THEN b[i] ELSE 0]

XorState(state, lanes) == [i \in 1 .. StateBytes |-> XorByte(state[i], lanes[i])]

FilledUp(block) == block \o Zeros(Max({0, BlockBytes - Len(block)}))

BlockAt(msg, i, rate) == SubSeq(msg, i + 1, Min({i + rate, Len(msg)}))

\* The loop of keccak_sponge, from byte i of the padded message
RECURSIVE Absorb(_, _, _, _)
Absorb(state, msg, i, rate) ==
  IF i >= Len(msg) THEN state
  ELSE Absorb(Permute(XorState(state, BytesToState(FilledUp(BlockAt(msg, i, rate))))), msg, i + rate, rate)

\* absorb_instrumented: the state after each block
RECURSIVE Snapshots(_, _, _, _)
Snapshots(state, msg, i, rate) ==
  IF i >= Len(msg) THEN <<>>
  ELSE LET next == Permute(XorState(state, BytesToState(FilledUp(BlockAt(msg, i, rate)))))
       IN  <<next>> \o Snapshots(next, msg, i + rate, rate)
AbsorbInstrumented(message, rate, suffix) ==
  Snapshots(Zeros(StateBytes), PadMessage(message, rate, suffix), 0, rate)

\* keccak_sponge: another permutation only while bytes are missing
RECURSIVE SqueezeLoop(_, _, _, _)
SqueezeLoop(state, out, rate, n) ==
  IF Len(out) >= n THEN SubSeq(out, 1, n)
  ELSE LET more == out \o SubSeq(state, 1, rate)
       IN  SqueezeLoop(IF Len(more) < n THEN Permute(state) ELSE state, more, rate, n)
KeccakSponge(message, rate, n, suffix) ==
  SqueezeLoop(Absorb(Zeros(StateBytes), PadMessage(message, rate, suffix), 0, rate), <<>>, rate, n)

\* squeeze_instrumented, which begins with a block: <<output, permutations>>
RECURSIVE SqueezeFrom(_, _, _, _, _)
SqueezeFrom(state, out, rate, n, permutations) ==
  IF Len(out) >= n THEN <<SubSeq(out, 1, n), permutations>>
  ELSE LET next == Permute(state)
       IN  SqueezeFrom(next, out \o SubSeq(next, 1, rate), rate, n, permutations + 1)
SqueezeInstrumented(state, rate, n) == SqueezeFrom(state, SubSeq(state, 1, rate), rate, n, 0)

-----------------------------------------------------------------------------
\* Reading a padded message backwards: the last bit, the zeros, the suffix.
Unpad(padded) ==
  LET opened == [padded EXCEPT ![Len(padded)] = XorByte(@, 128)]
      marks == {i \in DOMAIN opened : opened[i] # 0}
  IN  IF marks = {} THEN [message |-> <<>>, suffix |-> 0]
      ELSE [message |-> SubSeq(opened, 1, Max(marks) - 1), suffix |-> opened[Max(marks)]]

\* The padding can be undone, so no two messages, nor one message under two
\* suffixes, are absorbed as the same blocks.
PaddingIsExact(message, rate, suffix) ==
  LET padded == PadMessage(message, rate, suffix)
  IN  /\ Len(padded) % rate = 0 /\ Len(padded) - Len(message) \in 1 .. rate
      /\ Unpad(padded) = [message |-> message, suffix |-> suffix]

\* Every byte of the padded message goes to its own byte of the state, block by
\* block with one permutation each, as FIPS 202 defines the sponge on bytes.
AbsorptionIsExact(message, rate, suffix) ==
  LET padded == PadMessage(message, rate, suffix)
      snapshots == AbsorbInstrumented(message, rate, suffix)
      before(k) == IF k = 1 THEN Zeros(StateBytes) ELSE snapshots[k - 1]
      byte(k, i) == IF i <= rate THEN padded[((k - 1) * rate) + i] ELSE 0
  IN  /\ Len(snapshots) * rate = Len(padded)
      /\ \A k \in DOMAIN snapshots :
           snapshots[k] = Permute([i \in 1 .. StateBytes |-> XorByte(before(k)[i], byte(k, i))])

\* Both ways to squeeze give the same bytes from the state absorbed, after as many
\* permutations as the output needs.
SqueezesAgree(message, rate, suffix, n) ==
  LET squeezed == SqueezeInstrumented(Last(AbsorbInstrumented(message, rate, suffix)), rate, n)
  IN  /\ KeccakSponge(message, rate, n, suffix) = squeezed[1]
      /\ squeezed[2] = IF n = 0 THEN 0 ELSE (n - 1) \div rate

\* A message with one byte replaced leaves another state, wherever the byte is; so
\* does another suffix.  This is about the code as long as Permute loses nothing.
Absorbed(message, rate, suffix) == Last(AbsorbInstrumented(message, rate, suffix))
EveryByteCounts(message, rate, suffix, bytes, suffixes) ==
  LET state == Absorbed(message, rate, suffix)
  IN  /\ \A i \in DOMAIN message : \A byte \in bytes \ {message[i]} :
           Absorbed([message EXCEPT ![i] = byte], rate, suffix) # state
      /\ \A other \in suffixes \ {suffix} : Absorbed(message, rate, other) # state

-----------------------------------------------------------------------------
CONSTANTS
  Seeds,        \* the values d, z and m are drawn from
  Rejections,
  Messages,
  Factors,      \* what a term of a polynomial of the ring bench may have as coefficient
  MaxTerms,     \* its number of terms
  FlippedBits,  \* of a byte of the ciphertext
  Rounds,       \* the bytes the sampling bench draws at a time
  HashedBytes, MaxMessage,    \* the messages of the hash bench
  Rates, DomainSuffixes, OutLengths \* and how they are hashed

VARIABLES
  bench,
  keys,         \* of mlkem_keygen_internal, or <<>> before it
  sent,         \* what Bob holds: [K, c] of every encapsulation
  wire,         \* the ciphertexts under way
  taken,        \* what Alice made of them: [K, c]
  left, right,  \* the factors of the ring bench
  buffer        \* the bytes of the sampling bench, the message of the hash bench

kemVars == <<keys, sent, wire, taken>>
vars == <<bench, kemVars, left, right, buffer, laneVars>>

Init ==
  /\ \/ /\ bench \in {"exchange", "ring", "sampling", "hash"}
        /\ mapping = <<>> /\ input = <<>> /\ memory = <<>> /\ cycle = 0
     \/ bench = "lanes" /\ LaneInit
  /\ keys = <<>> /\ sent = {} /\ wire = {} /\ taken = {}
  /\ left = Zero /\ right = Zero /\ buffer = <<>>

KeyGen(d, z) ==
  /\ bench = "exchange" /\ keys = <<>>
  /\ keys' = KeyGenInternal(d, z)
  /\ UNCHANGED <<bench, sent, wire, taken, left, right, buffer, laneVars>>

Encaps(m) ==
  /\ bench = "exchange" /\ keys # <<>> /\ sent = {}
  /\ \E s \in {EncapsInternal(keys.ek, m)} : sent' = {s} /\ wire' = {s.c}
  /\ UNCHANGED <<bench, keys, taken, left, right, buffer, laneVars>>

\* c_corrupted[byte_idx] ^= 1 << bit_idx
FlipBit(bytes, n, b) ==
  [bytes EXCEPT ![n] = IF Bit(@, b) = 0 THEN @ + (2 ^ b) ELSE @ - (2 ^ b)]
FlipC1(c, i, n, b) == [c EXCEPT !.c1[i] = FlipBit(@, n, b)]
FlipC2(c, n, b) == [c EXCEPT !.c2 = FlipBit(@, n, b)]

\* One bit of the ciphertext is inverted; the intact one is still delivered.
Corrupt ==
  /\ bench = "exchange" /\ taken = {}
  /\ \E s \in sent, b \in FlippedBits :
       \/ \E i \in Dim, n \in DOMAIN s.c.c1[1] : wire' = wire \cup {FlipC1(s.c, i, n, b)}
       \/ \E n \in DOMAIN s.c.c2 : wire' = wire \cup {FlipC2(s.c, n, b)}
  /\ Cardinality(wire) = 1
  /\ UNCHANGED <<bench, keys, sent, taken, left, right, buffer, laneVars>>

Decaps(c) ==
  /\ bench = "exchange"
  /\ wire' = wire \ {c}
  /\ taken' = taken \cup {[K |-> DecapsInternal(keys.dk, c), c |-> c]}
  /\ UNCHANGED <<bench, keys, sent, left, right, buffer, laneVars>>

Terms(f) == Cardinality({i \in Index : f[i] # 0})

AddTerm(i, x) ==
  /\ bench = "ring" /\ Terms(left) + Terms(right) < MaxTerms
  /\ \/ left[i] = 0 /\ left' = [left EXCEPT ![i] = x] /\ right' = right
     \/ right[i] = 0 /\ right' = [right EXCEPT ![i] = x] /\ left' = left
  /\ UNCHANGED <<bench, kemVars, buffer, laneVars>>

Draw(bytes) ==
  /\ bench = "sampling" /\ Len(buffer) + Len(bytes) <= XofBytes
  /\ buffer' = buffer \o bytes
  /\ UNCHANGED <<bench, kemVars, left, right, laneVars>>

Extend(byte) ==
  /\ bench = "hash" /\ Len(buffer) < MaxMessage
  /\ buffer' = Append(buffer, byte)
  /\ UNCHANGED <<bench, kemVars, left, right, laneVars>>

RunLanes ==
  /\ bench = "lanes" /\ LaneCycle
  /\ UNCHANGED <<bench, kemVars, left, right, buffer>>

Next ==
  \/ \E d \in Seeds, z \in Rejections : KeyGen(d, z)
  \/ \E m \in Messages : Encaps(m)
  \/ Corrupt
  \/ \E c \in wire : Decaps(c)
  \/ \E i \in Index, x \in Factors : AddTerm(i, x)
  \/ \E bytes \in Rounds : Draw(bytes)
  \/ \E byte \in HashedBytes : Extend(byte)
  \/ RunLanes

Spec == Init /\ [][Next]_vars

-----------------------------------------------------------------------------

\* Both parties derive the same secret from a ciphertext that arrives as it was
\* sent: the transposition, the packing and the noise of the two sides fit.
SecretsAgree == \A s \in sent, t \in taken : s.c = t.c => s.K = t.K

\* A ciphertext with one inverted bit gives Alice the rejection secret of her own
\* z and of the ciphertext she got, although it decrypts to the same message.
AlteredIsRejected ==
  \A s \in sent, t \in taken : s.c # t.c => t.K = <<"J", keys.dk.z, t.c>> /\ t.K # s.K

\* The product through the transform is the schoolbook product modulo X^N + 1,
\* and the inverse transform undoes the transform.
ProductsAgree ==
  bench = "ring" =>
    /\ NttInv(MultiplyNtts(Ntt(left), Ntt(right))) = NegacyclicConvolution(left, right)
    /\ NttInv(Ntt(left)) = left

\* The coefficients drawn are the first N candidates below Q of the buffer, none
\* lost, repeated or written beyond the last, up to the last three bytes of the
\* buffer; the draw fails only if there are fewer (samplentt_golden.py:60-90).
AllCandidates ==
  FlattenSeq([r \in 1 .. Len(buffer) \div 3 |->
                Candidates(SubSeq(buffer, (3 * r) - 2, 3 * r))])
SamplesAreExact ==
  bench = "sampling" =>
    LET accepted == SelectSeq(AllCandidates, LAMBDA x : x \in 0 .. Q - 1)
        drawn == SampleNtt(buffer)
    IN  IF Len(accepted) < N THEN drawn = Exhausted
        ELSE drawn = [i \in Index |-> accepted[i + 1]]

\* Hashing depends on every byte of the message and on the suffix, at the lengths
\* around a block as elsewhere, and both ways to absorb and squeeze are the sponge.
HashesAreExact ==
  bench = "hash" =>
    \A rate \in Rates, suffix \in DomainSuffixes :
      /\ PaddingIsExact(buffer, rate, suffix)
      /\ AbsorptionIsExact(buffer, rate, suffix)
      /\ EveryByteCounts(buffer, rate, suffix, HashedBytes, DomainSuffixes)
      /\ \A n \in OutLengths : SqueezesAgree(buffer, rate, suffix, n)

\* What the exchange is built from computes what it is for: products through the
\* transform are products, a draw takes the first acceptable candidates of its
\* buffer in order, and a hash depends on every byte of its message.
PartsAreExact == ProductsAgree /\ SamplesAreExact /\ HashesAreExact
=============================================================================
