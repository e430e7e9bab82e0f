------------------------------ MODULE WotsChains ------------------------------
(***************************************************************************)
(* WOTS+ as backend/native.rs computes it, over hashes that are what they   *)
(* are of: a chain element is the secret and the chain it was expanded      *)
(* from, and the addresses of the steps taken since.  Two elements are      *)
(* equal when, and only when, every step was.                               *)
(*                                                                          *)
(* The digits, the checksum's shift and the address words are the code's,   *)
(* a byte being two digits and a checksum three.  The hash of a step takes the public seed and *)
(* the address words 0-4 with it: nothing writes these, and `own` names     *)
(* them together.                                                           *)
(***************************************************************************)
EXTENDS Integers, Sequences

CONSTANTS
  WOTSW,            \* the base of a digit
  WOTSN             \* bytes of a digest

WOTSLEN1 == 2 * WOTSN             \* digits of a digest
WOTSLEN2 == 3                     \* digits of its checksum
WOTSLEN == WOTSLEN1 + WOTSLEN2
ByteSize == WOTSW * WOTSW

\* The checksum's digits hold its largest sum.
ASSUME WotsAssumption ==
  /\ WOTSW \in Nat /\ WOTSW > 1
  /\ WOTSN \in Nat \ {0}
  /\ WOTSLEN1 * (WOTSW - 1) < WOTSW * WOTSW * WOTSW

\* f[1] + ... + f[n]
Total(f, n) ==
  LET sum[i \in 0 .. n] == IF i = 0 THEN 0 ELSE sum[i - 1] + f[i]
  IN  sum[n]

-----------------------------------------------------------------------------
(* The digits.                                                              *)

\* Big-endian in the two bytes of a checksum, the high end of a value too wide
\* dropped.
UllToBytes(value) == <<(value \div ByteSize) % ByteSize, value % ByteSize>>

\* The first n digits, the high one of a byte first.
BaseW(n, bytes) ==
  [i \in 1 .. n |-> IF i % 2 = 1 THEN bytes[(i + 1) \div 2] \div WOTSW
                                 ELSE bytes[i \div 2] % WOTSW]

\* What the digits leave to walk of their chains.
Remaining(digits) == Total([i \in 1 .. WOTSLEN1 |-> WOTSW - 1 - digits[i]], WOTSLEN1)

\* Variant: the sum is not shifted to the top of its bytes.
WotsChecksumUnshifted(digits) ==
  BaseW(WOTSLEN2, UllToBytes(Remaining(digits)))

\* The bytes hold one digit more than are read: the sum is shifted past it.
WotsChecksum(digits) ==
  BaseW(WOTSLEN2, UllToBytes(Remaining(digits) * WOTSW))

ChainLengths(msg) ==
  LET digits == BaseW(WOTSLEN1, msg)
  IN  digits \o WotsChecksum(digits)

-----------------------------------------------------------------------------
(* The chains.  An address is its own words and the three scratch words.    *)

Adrs(own) == [own |-> own, chain |-> 0, hash |-> 0, mask |-> 0]

ExpandSeed(secret) ==
  [i \in 1 .. WOTSLEN |-> [secret |-> secret, chain |-> i - 1, steps |-> <<>>]]

\* A step sets the mask word before it reads it, so what it hashes is under the
\* rest of the address; a walk of no steps leaves the words as they were.
GenChain(element, start, steps, adrs) ==
  LET n == IF start + steps <= WOTSW THEN steps ELSE WOTSW - start
  IN  [out  |-> [element EXCEPT !.steps =
                  @ \o [i \in 1 .. n |-> <<adrs.own, adrs.chain, start + i - 1>>]],
       adrs |-> IF n = 0 THEN adrs
                ELSE [own |-> adrs.own, chain |-> adrs.chain, hash |-> start + n - 1, mask |-> 1]]

\* The loop over the chains, one address threaded through them.
EachChain(elements, starts, steps, adrs) ==
  LET Run(i, at) == GenChain(elements[i], starts[i], steps[i], [at EXCEPT !.chain = i - 1])
      after[i \in 0 .. WOTSLEN] == IF i = 0 THEN adrs ELSE Run(i, after[i - 1]).adrs
  IN  [chains |-> [i \in 1 .. WOTSLEN |-> Run(i, after[i - 1]).out],
       adrs |-> after[WOTSLEN]]

All(n) == [i \in 1 .. WOTSLEN |-> n]

WotsPkgen(secret, adrs) ==
  EachChain(ExpandSeed(secret), All(0), All(WOTSW - 1), adrs)

WotsSign(msg, secret, adrs) ==
  EachChain(ExpandSeed(secret), All(0), ChainLengths(msg), adrs)

\* Each chain resumes where signing over this digest stops.
WotsPkFromSig(signature, msg, adrs) ==
  LET lengths == ChainLengths(msg)
  IN  EachChain(signature, lengths, [i \in 1 .. WOTSLEN |-> WOTSW - 1 - lengths[i]], adrs)
=============================================================================
