---------------------------- MODULE SpendArtifact ----------------------------
(***************************************************************************)
(* One spend as data: from what the operator typed to the plan, from the    *)
(* plan to the signed bytes that go to the node, and back from those bytes  *)
(* or from a second typing of the spend.                                    *)
(*                                                                          *)
(* Sources: cli/args.rs (spend_args), cli/mod.rs (plan_spend, cmd_submit,   *)
(* cmd_resign), mesh/spend.rs (SpendPlan, SignedTransaction), tx/wire.rs.   *)
(*                                                                          *)
(* What the state of the store allows is SpendLifecycle's: here the account *)
(* is reconciled and every commit succeeds.  A byte is a number, a machine  *)
(* word two of them in base Base, low byte first; a tag, a key, a signature *)
(* and a hash are one byte each of a kind of their own.  A hash is what it  *)
(* is of, so equal hashes are hashes of equal bytes; the chains of a        *)
(* signature, WotsChains', read a digest as bytes of their own size.        *)
(***************************************************************************)
EXTENDS Integers, FiniteSets, Functions, SequencesExt, WotsChains

CONSTANTS
  None,             \* no plan; as an amount, the word `all`
  Base,             \* a byte is in 0 .. Base - 1
  MaxDestinations,  \* of a transaction; its count byte is one less
  MFEE,             \* the node's fee for one destination
  ReferenceLen,     \* bytes of a destination's reference
  Tags,             \* of the accounts there are, this one's among them
  Amounts, Fees, Balances, BlocksToLive,  \* the values tried
  References        \* those tried in a spend of several destinations

ZeroTag == 0                      \* twenty zero bytes, whose checksum is zero too
Self == 1                         \* the account's tag

ASSUME ArtifactAssumption ==
  /\ Base \in Nat /\ Base > 1 /\ MaxDestinations \in 1 .. Base
  /\ MFEE \in Nat \ {0} /\ ReferenceLen \in Nat \ {0}
  /\ Amounts \cup Fees \cup Balances \cup BlocksToLive \subseteq 0 .. Base * Base - 1
  /\ Tags \subseteq Int /\ {Self, 2} \subseteq Tags
  /\ None \notin Int

Limit == Base * Base - 1          \* u64::MAX
Word(n) == <<n % Base, n \div Base>>
Number(w) == w[1] + Base * w[2]

\* The classes of a reference's bytes, in ASCII order.
NUL == 0
Dash == 1
Digit == 2
Upper == 3
Other == 4
AllReferences == [1 .. ReferenceLen -> NUL .. Other]

ASSUME ReferencesAssumption == References \subseteq AllReferences

Source == [tag |-> Self, key |-> 1]
Change == [tag |-> Self, key |-> 2]

VARIABLES
  plan,      \* SpendPlan: the spend laid out, and then reserved; or None
  artifact,  \* the bytes `send` printed and submitted; <<>> if none
  copy,      \* what the operator has kept of them
  answer     \* what the last command was given and said

vars == <<plan, artifact, copy, answer>>

NoAnswer == [verb |-> "none"]

Init ==
  /\ plan = None
  /\ artifact = <<>>
  /\ copy = <<>>
  /\ answer = NoAnswer

-----------------------------------------------------------------------------
(* The planner.                                                             *)

\* The node's machine for a reference, as the triples state, byte, state.
ReferenceSteps ==
  { <<"Start", NUL, "Zero">>,       <<"Start", Digit, "Digit">>,
    <<"Start", Upper, "Upper">>,    <<"DigitDash", Upper, "Upper">>,
    <<"UpperDash", Digit, "Digit">>, <<"Digit", Digit, "Digit">>,
    <<"Digit", Dash, "DigitDash">>, <<"Digit", NUL, "Zero">>,
    <<"Upper", Upper, "Upper">>,    <<"Upper", Dash, "UpperDash">>,
    <<"Upper", NUL, "Zero">>,       <<"Zero", NUL, "Zero">> }

ReferenceEnds == {"Zero", "Digit", "Upper"}

ReferenceAfter(state, c) ==
  {s[3] : s \in {t \in ReferenceSteps : t[1] = state /\ t[2] = c}}

\* The states the machine can be in after each byte.
ReferenceIsValid(reference) ==
  LET states[i \in 0 .. ReferenceLen] ==
        IF i = 0 THEN {"Start"}
        ELSE UNION {ReferenceAfter(q, reference[i]) : q \in states[i - 1]}
  IN  states[ReferenceLen] \cap ReferenceEnds # {}

MdstImage(d) == <<d.tag>> \o d.reference \o Word(d.amount)

Precedes(d, e) ==
  LET p == MdstImage(d)
      q == MdstImage(e)
  IN  \E i \in DOMAIN p : p[i] < q[i] /\ \A j \in 1 .. i - 1 : p[j] = q[j]

\* The same elements in any order.
Arrangements(s) ==
  {[i \in DOMAIN s |-> s[p[i]]] : p \in Bijection(DOMAIN s, DOMAIN s)}

\* Variants: the order of tags and amounts as numbers; the operator's order.
WireOrderNumeric(dsts) ==
  CHOOSE s \in Arrangements(dsts) :
    \A i \in 1 .. Len(s) - 1 : s[i].tag < s[i + 1].tag
      \/ (s[i].tag = s[i + 1].tag /\ s[i].amount <= s[i + 1].amount)
WireOrderAsTyped(dsts) == dsts

\* sort_by_key over the images: two destinations with one image are equal.
WireOrder(dsts) ==
  CHOOSE s \in Arrangements(dsts) : \A i \in 1 .. Len(s) - 1 : ~Precedes(s[i + 1], s[i])

Tally(dsts) == Total([i \in DOMAIN dsts |-> dsts[i].amount], Len(dsts))

\* The first rule that destination i fails, the tally being of those up to it.
Fault(dsts, i) ==
  CASE dsts[i].amount = 0 -> "ZeroAmount"
    [] dsts[i].tag = Source.tag -> "DestinationIsSource"
    [] Tally(SubSeq(dsts, 1, i)) > Limit -> "Overflow"
    [] ~ReferenceIsValid(dsts[i].reference) -> "InvalidReference"
    [] OTHER -> "none"

FirstFault(dsts) ==
  LET faulty == {i \in DOMAIN dsts : Fault(dsts, i) # "none"}
  IN  IF faulty = {} THEN "none"
      ELSE Fault(dsts, CHOOSE i \in faulty : \A j \in faulty : i <= j)

\* Why SpendPlan::new refuses these destinations, in the order it looks.
Refusal(entry, dsts, fee) ==
  CASE entry.address # Source -> "ChainAddressMismatch"
    [] Len(dsts) \notin 1 .. MaxDestinations -> "Range"
    [] FirstFault(dsts) # "none" -> FirstFault(dsts)
    [] fee < MFEE * Len(dsts) -> "FeeBelowMinimum"
    [] Tally(dsts) + fee > Limit -> "Overflow"
    [] Tally(dsts) + fee > entry.balance -> "InsufficientBalance"
    [] OTHER -> "none"

SpendPlan(entry, dsts, fee, btl) ==
  [dsts |-> dsts, send |-> Tally(dsts), change |-> entry.balance - Tally(dsts) - fee,
   fee |-> fee, btl |-> btl, balance |-> entry.balance]

\* The amount of `all`: the balance less the fee, or None.
SpendAllAmount(balance, fee) == IF balance > fee THEN balance - fee ELSE None

SpendsEverything(s) == Len(s.dsts) = 1 /\ s.dsts[1].amount = None

\* `all` resolved against an entry; of no use where there is no such amount.
Resolved(s, entry) ==
  IF SpendsEverything(s)
  THEN <<[s.dsts[1] EXCEPT !.amount = SpendAllAmount(entry.balance, s.fee)]>>
  ELSE s.dsts

NothingToSend(s, entry) ==
  SpendsEverything(s) /\ SpendAllAmount(entry.balance, s.fee) = None

\* What SpendPlan::new says of the spend s, read for `all` at `first`.
Verdict(s, first, entry) ==
  IF NothingToSend(s, first) THEN "InsufficientBalance"
  ELSE Refusal(entry, WireOrder(Resolved(s, first)), s.fee)

Planned(s, first, entry) ==
  SpendPlan(entry, WireOrder(Resolved(s, first)), s.fee, s.btl)

-----------------------------------------------------------------------------
(* The wire image.                                                          *)

DatMdst == 0
DsaWots == 0
SizeHdr == 16
SizeMdst == 1 + ReferenceLen + 2
SizeWots == 2
SizeTlr == 3
NoTrailer == <<>>

\* Variant: the count itself.
CountByteAsCounted(count) == count
CountByte(count) == count - 1

\* Header and destinations: what is signed.
SignedPrefix(tx) ==
  <<DatMdst, DsaWots, CountByte(Len(tx.dsts)), tx.reserved>>
    \o <<tx.src.tag, tx.src.key, tx.chg.tag, tx.chg.key>>
    \o Word(tx.send) \o Word(tx.change) \o Word(tx.fee) \o Word(tx.btl)
    \o FlattenSeq([i \in DOMAIN tx.dsts |-> MdstImage(tx.dsts[i])])

Sha256(bytes) == [hash |-> bytes]
MessageDigest(tx) == Sha256(SignedPrefix(tx))
WotsVal(tx) == <<tx.wots.signature, tx.wots.adrs>>
IdDigest(tx, nonce) == Sha256(SignedPrefix(tx) \o WotsVal(tx) \o Word(nonce))

ToWire(tx) ==
  SignedPrefix(tx) \o WotsVal(tx)
    \o (IF tx.trailer = NoTrailer THEN <<>> ELSE Word(tx.trailer.nonce) \o <<tx.trailer.id>>)

TxSz(count) == SizeHdr + SizeMdst * count + SizeWots + SizeTlr

IsTransaction(bytes) ==
  /\ Len(bytes) >= SizeHdr
  /\ bytes[1] = DatMdst /\ bytes[2] = DsaWots
  /\ Len(bytes) \in TxSz(bytes[3] + 1) - SizeTlr .. TxSz(bytes[3] + 1)

ZeroTrailer == Word(0) \o <<Sha256(<<>>)>>

\* What is there of a trailer, the rest of it zero.
ReadTrailer(rest) ==
  IF rest = <<>> THEN NoTrailer
  ELSE LET padded == rest \o SubSeq(ZeroTrailer, Len(rest) + 1, SizeTlr)
       IN  [nonce |-> Number(SubSeq(padded, 1, 2)), id |-> padded[3]]

FromWire(bytes) ==
  LET WordAt(i) == Number(SubSeq(bytes, i, i + 1))
      Mdst(i) == LET at == SizeHdr + (i - 1) * SizeMdst
                 IN  [tag |-> bytes[at + 1],
                      reference |-> SubSeq(bytes, at + 2, at + 1 + ReferenceLen),
                      amount |-> WordAt(at + 2 + ReferenceLen)]
      count == bytes[3] + 1
      dsa == SizeHdr + SizeMdst * count
  IN  [reserved |-> bytes[4],
       src |-> [tag |-> bytes[5], key |-> bytes[6]],
       chg |-> [tag |-> bytes[7], key |-> bytes[8]],
       send |-> WordAt(9), change |-> WordAt(11), fee |-> WordAt(13), btl |-> WordAt(15),
       dsts |-> [i \in 1 .. count |-> Mdst(i)],
       wots |-> [signature |-> bytes[dsa + 1], adrs |-> bytes[dsa + 2]],
       trailer |-> ReadTrailer(SubSeq(bytes, dsa + SizeWots + 1, Len(bytes)))]

-----------------------------------------------------------------------------
(* The signature.                                                           *)

\* What the chains read of a digest: any function of it that spreads would do.
DigestBytes(digest) ==
  [i \in 1 .. WOTSN |->
    Total([k \in DOMAIN digest.hash |-> (2 * i * k + 1) * digest.hash[k]],
          Len(digest.hash)) % ByteSize]

\* A key's secret and its own address words go by the key's name.
PublicKey(key) == WotsPkgen(key, Adrs(key)).chains

\* wots::sign: the scheme it leaves is dropped with its copy.
Chains(signature) ==
  WotsSign(signature.over, signature.key, Adrs(signature.key)).chains

\* wots::pk_from_sig: a key comes out of any signature over any digest.
PkFromSig(signature, digest, adrs) ==
  WotsPkFromSig(Chains(signature), DigestBytes(digest), adrs)

Unsigned(p) ==
  [reserved |-> 0, src |-> Source, chg |-> Change,
   send |-> p.send, change |-> p.change, fee |-> p.fee, btl |-> p.btl, dsts |-> p.dsts,
   wots |-> [signature |-> [key |-> 0, over |-> <<>>], adrs |-> Adrs(0)],
   trailer |-> NoTrailer]

\* Signatures a caller can hold: of this position's key or the next one's,
\* over any digest.
Signatures ==
  [index : {Source.key, Change.key}, key : {Source.key, Change.key},
   over : [1 .. WOTSN -> 0 .. ByteSize - 1]]

OurSignature(p) ==
  [index |-> Source.key, key |-> Source.key,
   over |-> DigestBytes(MessageDigest(Unsigned(p)))]

Signed(p, sig, adrs) ==
  [Unsigned(p) EXCEPT
    !.wots = [signature |-> [key |-> sig.key, over |-> sig.over], adrs |-> adrs]]

\* Variant: the scheme the signature started from goes on the wire.
AssembledAsStarted(p, sig) == Signed(p, sig, Adrs(sig.key))

\* The image with the signature in it and the scheme its walk ends on.
Assembled(p, sig) ==
  Signed(p, sig, PkFromSig(sig, MessageDigest(Unsigned(p)), Adrs(sig.key)).adrs)

VerifyWots(tx) ==
  LET recovered == PkFromSig(tx.wots.signature, MessageDigest(tx), tx.wots.adrs)
  IN  recovered.adrs = tx.wots.adrs /\ recovered.chains = PublicKey(tx.src.key)

Attaches(p, sig) ==
  /\ sig.index = Source.key
  /\ PkFromSig(sig, MessageDigest(Unsigned(p)), Adrs(sig.key)).chains = PublicKey(sig.key)
  /\ VerifyWots(Assembled(p, sig))

\* SignedTransaction::attach: sealed with the trailer the node writes.
Attached(p, sig) ==
  LET tx == Assembled(p, sig)
  IN  [tx EXCEPT !.trailer = [nonce |-> 0, id |-> IdDigest(tx, 0)]]

-----------------------------------------------------------------------------
(* The commands.                                                            *)

Entries == [address : {Source, Change}, balance : Balances]
Destinations == [tag : Tags, reference : References, amount : Amounts]

\* One destination with any reference at all, some with a few values each,
\* too many of them, and `all`.
Lists ==
  LET One(tags, references, amounts) ==
        {<<d>> : d \in [tag : tags, reference : references, amount : amounts]}
  IN  One({2}, AllReferences, {1}) \cup One(Tags, References, {None})
        \cup SeqOf(Destinations, MaxDestinations)
        \cup {[i \in 1 .. MaxDestinations + 1 |-> d] : d \in Destinations}

Spends == [dsts : Lists, fee : Fees, btl : BlocksToLive]

\* What spend_args takes.  A reference is text there, so nothing follows a NUL.
IsText(reference) ==
  \A i, j \in 1 .. ReferenceLen : i < j /\ reference[i] = NUL => reference[j] = NUL

\* Its rules of its own, which are not the node's.
ZeroTagIsTyped(dsts) == \E i \in DOMAIN dsts : dsts[i].tag = ZeroTag
ATagIsTypedTwice(dsts) == \E i, j \in DOMAIN dsts : i # j /\ dsts[i].tag = dsts[j].tag

SpendArgs(s) ==
  /\ ~ZeroTagIsTyped(s.dsts)
  /\ \A i \in DOMAIN s.dsts : ReferenceIsValid(s.dsts[i].reference)
  /\ Len(s.dsts) \in 1 .. MaxDestinations
  /\ ~ATagIsTypedTwice(s.dsts)

\* `send` from the command line, or Wallet::plan of a program that links the
\* crate; `all` resolved against the entry the plan is made on.
Send ==
  /\ answer = NoAnswer /\ plan = None
  /\ \E s \in Spends, entry \in Entries, via \in {"cli", "library"} :
       /\ via = "library" => ~SpendsEverything(s)
       /\ via = "cli" => \A i \in DOMAIN s.dsts : IsText(s.dsts[i].reference)
       /\ LET verdict == IF via = "cli" /\ ~SpendArgs(s) THEN "Usage"
                         ELSE Verdict(s, entry, entry)
          IN  /\ plan' = IF verdict = "none" THEN Planned(s, entry, entry) ELSE None
              /\ answer' = [verb |-> "send", typed |-> s, entry |-> entry, via |-> via,
                            said |-> verdict]
  /\ UNCHANGED <<artifact, copy>>

Attach ==
  /\ answer = NoAnswer /\ plan # None /\ artifact = <<>>
  /\ \E sig \in Signatures :
       /\ IF Attaches(plan, sig)
          THEN /\ artifact' = ToWire(Attached(plan, sig))
               /\ copy' = artifact'
          ELSE UNCHANGED <<artifact, copy>>
       /\ answer' = [verb |-> "attach", sig |-> sig, taken |-> Attaches(plan, sig)]
  /\ UNCHANGED plan

\* The operator's copy is cut short, runs on, or has one byte of its layout
\* wrong.  Of a wrong amount or signature only the node can tell.
Damage ==
  /\ answer = NoAnswer /\ artifact # <<>> /\ copy = artifact
  /\ \/ \E n \in 0 .. Len(artifact) - 1 : copy' = SubSeq(artifact, 1, n)
     \/ copy' = Append(artifact, 0)
     \/ \E i \in 1 .. 3, b \in 0 .. Base - 1 :
          b # artifact[i] /\ copy' = [artifact EXCEPT ![i] = b]
  /\ UNCHANGED <<plan, artifact, answer>>

\* Variant: what can be read is sent.
SubmittableAsRead(bytes) == IsTransaction(bytes)
Submittable(bytes) == IsTransaction(bytes) /\ ToWire(FromWire(bytes)) = bytes

SubmitCopy ==
  /\ answer = NoAnswer /\ copy # <<>>
  /\ answer' =
       IF ~Submittable(copy) THEN [verb |-> "submit", sent |-> FALSE]
       ELSE LET tx == FromWire(copy)
                nonce == IF tx.trailer = NoTrailer THEN 0 ELSE tx.trailer.nonce
            IN  [verb |-> "submit", sent |-> TRUE, id |-> IdDigest(tx, nonce)]
  /\ UNCHANGED <<plan, artifact, copy>>

\* A second typing of the reserved spend: in another order, with one
\* destination another, one left out, or `all`.
Retyped(dsts) ==
  Arrangements(dsts)
    \cup {ReplaceAt(dsts, i, d) : i \in DOMAIN dsts, d \in {e \in Destinations : e.tag # Self}}
    \cup {Tail(dsts)}
    \cup (IF Len(dsts) = 1 THEN {<<[dsts[1] EXCEPT !.amount = None]>>} ELSE {})

\* What resign_pending says of the spend s, read for `all` at `first`.
ResignVerdict(s, first, second) ==
  LET verdict == Verdict(s, first, second)
      digest == MessageDigest(Unsigned(Planned(s, first, second)))
  IN  CASE verdict = "ChainAddressMismatch" -> "ReservationAlreadyLanded"
        [] verdict \notin {"none", "ChainAddressMismatch"} -> verdict
        [] verdict = "none" /\ digest # MessageDigest(Unsigned(plan)) -> "NotTheReservedSpend"
        [] OTHER -> "Resigned"

\* `resign` from the command line, or Wallet::resign_pending of a program; for
\* `all` cmd_resign reads the entry itself, and resign_pending again.
Resign ==
  /\ answer = NoAnswer /\ artifact # <<>>
  /\ copy = <<>>                       \* a bound: no answer depends on the copy
  /\ \E dsts \in Retyped(plan.dsts), fee \in Fees, btl \in BlocksToLive,
        first, second \in Entries, via \in {"cli", "library"} :
       LET s == [dsts |-> dsts, fee |-> fee, btl |-> btl]
           said == IF via = "cli" /\ ~SpendArgs(s) THEN "Usage"
                   ELSE ResignVerdict(s, first, second)
       IN  /\ via = "library" => ~SpendsEverything(s)
           /\ via = "cli" => \A i \in DOMAIN dsts : IsText(dsts[i].reference)
           /\ SpendsEverything(s) \/ first = second
           /\ answer' =
                [verb |-> "resign", typed |-> s, first |-> first, second |-> second, via |-> via,
                 said |-> said,
                 wire |-> IF said # "Resigned" THEN <<>>
                          ELSE ToWire(Attached(Planned(s, first, second), OurSignature(plan)))]
  /\ UNCHANGED <<plan, artifact, copy>>

\* The command ends; what it refused to plan is forgotten with it.
Return ==
  /\ answer # NoAnswer
  /\ answer' = NoAnswer
  /\ UNCHANGED <<plan, artifact, copy>>

\* The spend has landed and `settle` closed the reservation.
Settle ==
  /\ answer = NoAnswer /\ artifact # <<>>
  /\ plan' = None /\ artifact' = <<>> /\ copy' = <<>>
  /\ UNCHANGED answer

Next ==
  \/ Send
  \/ Attach
  \/ Damage
  \/ SubmitCopy
  \/ Resign
  \/ Return
  \/ Settle

Spec == Init /\ [][Next]_vars

-----------------------------------------------------------------------------
(* What must hold.                                                          *)

\* The state's shape: a plan with its bytes, or neither; what an answer is of.
TypeOK ==
  /\ plan = None \/ plan.dsts \in Seq([tag : Tags, reference : AllReferences, amount : 1 .. Limit])
  /\ plan # None => {plan.send, plan.change, plan.fee, plan.btl, plan.balance} \subseteq 0 .. Limit
  /\ plan = None => artifact = <<>>
  /\ artifact = <<>> => copy = <<>>
  /\ answer.verb \in {"none", "send", "attach", "submit", "resign"}

SameList(s, t) ==
  \A d \in ToSet(s) \cup ToSet(t) :
    Cardinality({i \in DOMAIN s : s[i] = d}) = Cardinality({i \in DOMAIN t : t[i] = d})

\* The node's grammar of a reference, said of the text and not of a machine.
IsGrammatical(r) ==
  \E n \in 0 .. ReferenceLen :
    /\ \A i \in 1 .. ReferenceLen : r[i] = NUL <=> i > n
    /\ \A i \in 1 .. n : r[i] # Other
    /\ n > 0 => r[1] # Dash /\ r[n] # Dash
    /\ \A i \in 2 .. n : {r[i - 1], r[i]} \notin {{Dash}, {Digit, Upper}}
    /\ \A i \in 2 .. n - 1 : r[i] = Dash => r[i - 1] # r[i + 1]

\* The node's rules for destinations and a fee, over integers.
IsPayable(dsts, fee, entry) ==
  /\ entry.address = Source
  /\ Len(dsts) \in 1 .. MaxDestinations
  /\ \A i \in DOMAIN dsts :
       dsts[i].amount > 0 /\ dsts[i].tag # Self /\ IsGrammatical(dsts[i].reference)
  /\ fee >= MFEE * Len(dsts)
  /\ Tally(dsts) + fee <= entry.balance

\* What was typed, as numbers: `all` is the amount that leaves nothing.
Meanings(s, entry) ==
  IF SpendsEverything(s)
  THEN {<<[s.dsts[1] EXCEPT !.amount = a]>> : a \in {n \in 1 .. Limit : n + s.fee = entry.balance}}
  ELSE {s.dsts}

PlanIsPayable ==
  /\ \E dsts \in Meanings(answer.typed, answer.entry) :
       SameList(dsts, plan.dsts) /\ IsPayable(dsts, answer.typed.fee, answer.entry)
  /\ \A i \in 1 .. Len(plan.dsts) - 1 : ~Precedes(plan.dsts[i + 1], plan.dsts[i])
  /\ plan.send = Tally(plan.dsts)
  /\ plan.send + plan.change + plan.fee = answer.entry.balance

NoPayableSpendIsRefused ==
  \A dsts \in Meanings(answer.typed, answer.entry) :
    IsPayable(dsts, answer.typed.fee, answer.entry) =>
      answer.via = "cli" /\ (ZeroTagIsTyped(dsts) \/ ATagIsTypedTwice(dsts))

\* A plan is a spend the node takes of what the ledger showed: destinations in
\* the order of their bytes, totals that add up to the balance without
\* wrapping, every rule kept -- and it is what was typed, `all` leaving nothing.
\* A plan that is not burns the account's key on bytes no node will take
\* (mesh/spend.rs:198).  And what is refused the node would refuse as well, but
\* for two spends it would take and the command line refuses by itself: one
\* that names the all-zero tag, which the ledger credits and nobody can spend
\* from (cli/args.rs:479), and one that names a tag twice (cli/args.rs:772).
PlanAgreesWithNode ==
  answer.verb = "send" =>
    IF answer.said = "none" THEN PlanIsPayable ELSE NoPayableSpendIsRefused

\* Attach takes the signature of the plan's own key over the plan's own digest
\* and no other: every chain is walked to its end exactly when it was left where
\* this digest leaves it.  What it then holds passes the node's check, under the
\* scheme the key's own generation ends on, whatever the digest
\* (mesh/spend.rs:396).  And a signature over one digest is not on the way to a
\* signature over another: the checksum makes some chain of that one shorter
\* (backend/native.rs:374).
AttachTakesTheRightSignature ==
  answer.verb = "attach" =>
    /\ answer.taken <=> answer.sig = OurSignature(plan)
    /\ answer.taken =>
         /\ VerifyWots(FromWire(artifact))
         /\ FromWire(artifact).wots.adrs = WotsPkgen(Source.key, Adrs(Source.key)).adrs
    /\ LET ours == ChainLengths(OurSignature(plan).over)
           theirs == ChainLengths(answer.sig.over)
       IN  ours # theirs => \E i \in 1 .. WOTSLEN : ours[i] < theirs[i]

\* The printed bytes read back as the plan that was signed, and under the id
\* they are sealed with, which is what the node calls the transaction
\* (tx/wire.rs:395).
ArtifactReadsBack ==
  artifact # <<>> =>
    /\ IsTransaction(artifact) /\ ToWire(FromWire(artifact)) = artifact
    /\ LET tx == FromWire(artifact)
       IN  /\ [dsts |-> tx.dsts, send |-> tx.send, change |-> tx.change, fee |-> tx.fee,
               btl |-> tx.btl, balance |-> tx.send + tx.change + tx.fee] = plan
           /\ tx.src = Source /\ tx.chg = Change
           /\ tx.trailer.id = IdDigest(tx, 0)

\* A copy damaged in its length or its layout reaches the socket only when
\* what it lost is exactly the trailer, and then it is the same transaction,
\* under the same id (cli/mod.rs:1128).
DamagedCopyIsNotAnother ==
  answer.verb = "submit" /\ answer.sent =>
    /\ copy \in {artifact, SubSeq(artifact, 1, Len(artifact) - SizeTlr)}
    /\ answer.id = FromWire(artifact).trailer.id

\* A retyped spend is reproduced if and only if it is the reserved one -- the
\* same destinations in any order, and the same fee, block-to-live and balance,
\* an `all` having resolved to the reserved amount at both reads -- and then
\* byte for byte (wallet.rs:812).  One of the two spends the command line
\* refuses by itself can be reserved by a program that links the crate, and then
\* only a program can reproduce it.
RetypedSpendIsTheReserved ==
  answer.verb = "resign" =>
    /\ answer.said = "Resigned" <=>
         /\ answer.second = [address |-> Source, balance |-> plan.balance]
         /\ answer.typed.fee = plan.fee /\ answer.typed.btl = plan.btl
         /\ SameList(Resolved(answer.typed, answer.first), plan.dsts)
         /\ answer.via = "cli" =>
              ~ZeroTagIsTyped(answer.typed.dsts) /\ ~ATagIsTypedTwice(answer.typed.dsts)
    /\ answer.said = "Resigned" => answer.wire = artifact
=============================================================================
