----------------------- MODULE SpendLifecycleProofs -----------------------
(***************************************************************************)
(* Proofs about SpendLifecycle, for every number of accounts, every last    *)
(* position and every ledger.                                               *)
(***************************************************************************)
EXTENDS SpendLifecycle, SequenceTheorems, TLAPS

-----------------------------------------------------------------------------
(* Types. *)

\* The ledger's half: every tag has an entry, and the furthest key position the
\* ledger showed is not behind the present one.
LedgerShape ==
  \A a \in Accounts : Len(chain[a]) >= 1 /\ ChainKey(a) <= reached[a]

TypeInv == TypeOK /\ LedgerShape

\* What a ledger entry may be given its account's state.
LEMMA EntryTypes ==
  ASSUME TypeInv, NEW a \in Accounts
  PROVE  /\ ChainKey(a) \in Positions
         /\ ChainBalance(a) \in 0 .. MaxBalance
         /\ \A ans \in Answers(a) :
              /\ ans.kind \in {"not_found", "unreachable", "entry"}
              /\ ans.kind = "entry" =>
                   ans.key = ChainKey(a) /\ ans.balance = ChainBalance(a)
  <1>1. chain[a] \in Seq(0 .. MaxBalance) /\ reached[a] \in Positions
    BY DEF TypeInv, TypeOK
  <1>2. Len(chain[a]) >= 1 /\ Len(chain[a]) - 1 <= reached[a]
    BY DEF TypeInv, LedgerShape, ChainKey
  <1>3. Len(chain[a]) \in Nat
    BY <1>1
  <1>4. ChainKey(a) \in Positions
    BY <1>1, <1>2, <1>3, ConstantsAssumption DEF ChainKey, Positions
  <1>5. ChainBalance(a) \in 0 .. MaxBalance
    <2>1. Len(chain[a]) \in 1 .. Len(chain[a])
      BY <1>2, <1>3
    <2>2. chain[a][Len(chain[a])] \in 0 .. MaxBalance
      BY <1>1, <2>1, ElementOfSeq
    <2> QED
      BY <2>2 DEF ChainBalance
  <1> QED
    BY <1>4, <1>5 DEF Answers

\* The comparison with the ledger gives a status or a divergence.
LEMMA ReconcileTypes ==
  ASSUME NEW rec, NEW ans, ans.kind \in {"not_found", "unreachable", "entry"}
  PROVE  Reconcile(rec, ans) \in OkStatus \cup Divergences
  BY DEF Reconcile, ReservationAt, OkStatus, Divergences

\* A plan laid out at a position that may be spent is a digest.
LEMMA PlanDigestTypes ==
  ASSUME TypeInv, NEW a \in Accounts, NEW p \in SpendablePositions,
         NEW c \in Costs, NEW x \in Expiries, NEW ans \in Entries(a),
         c <= ans.balance
  PROVE  PlanDigest(a, p, c, ans, x) \in Digest
  <1>1. ans.balance \in 0 .. MaxBalance
    BY EntryTypes DEF Entries
  <1> QED
    BY <1>1 DEF PlanDigest, Digest

\* What a commit writes keeps the store's types, whichever way it ends.
LEMMA CommitTypes ==
  ASSUME TypeInv, NEW a \in Accounts, NEW rec \in Record, NEW done \in Operation,
         Commit(a, rec, done)
  PROVE  /\ disk' \in [Accounts -> Record]
         /\ mem' \in [Accounts -> Record]
         /\ phase' \in Phases
         /\ op' \in Operation
  <1>1. Idle \in Operation
    BY ConstantsAssumption DEF Idle, Operation, Positions
  <1> QED
    BY <1>1 DEF Commit, Images, TypeInv, TypeOK, Phases

\* A step that leaves the ledger alone leaves its types alone.
LEMMA LedgerKept ==
  ASSUME TypeInv, UNCHANGED <<chain, reached>>
  PROVE  /\ chain' \in [Accounts -> Seq(0 .. MaxBalance)]
         /\ reached' \in [Accounts -> Positions]
         /\ LedgerShape'
  BY DEF TypeInv, TypeOK, LedgerShape, ChainKey

\* A new chain of an account, one of whose entries may be new.
LEMMA MovesTypes ==
  ASSUME TypeInv, NEW a \in Accounts, NEW entries \in Seq(0 .. MaxBalance),
         Len(entries) >= 1, Len(entries) - 1 <= MaxIndex, Moves(a, entries)
  PROVE  /\ chain' \in [Accounts -> Seq(0 .. MaxBalance)]
         /\ reached' \in [Accounts -> Positions]
         /\ LedgerShape'
  <1>1. /\ chain \in [Accounts -> Seq(0 .. MaxBalance)]
        /\ reached \in [Accounts -> Positions]
    BY DEF TypeInv, TypeOK
  <1>2. Len(entries) - 1 \in Positions
    BY ConstantsAssumption DEF Positions
  <1>3. /\ chain' = [chain EXCEPT ![a] = entries]
        /\ reached' = [reached EXCEPT ![a] = MaxOf(reached[a], Len(entries) - 1)]
    BY DEF Moves
  <1>4. reached[a] \in Positions
    BY <1>1
  <1>5. /\ MaxOf(reached[a], Len(entries) - 1) \in Positions
        /\ Len(entries) - 1 <= MaxOf(reached[a], Len(entries) - 1)
    BY <1>2, <1>4, ConstantsAssumption DEF MaxOf, Positions
  <1>6. LedgerShape'
    <2> SUFFICES ASSUME NEW b \in Accounts
                 PROVE  Len(chain'[b]) >= 1 /\ Len(chain'[b]) - 1 <= reached'[b]
      BY DEF LedgerShape, ChainKey
    <2>1. CASE b = a
      BY <2>1, <1>1, <1>3, <1>5
    <2>2. CASE b # a
      BY <2>2, <1>1, <1>3 DEF TypeInv, LedgerShape, ChainKey
    <2> QED
      BY <2>1, <2>2
  <1> QED
    BY <1>1, <1>3, <1>5, <1>6

\* Each operation record an action writes is one, and names what it is about.
LEMMA OperationTypes ==
  /\ Idle \in Operation
  /\ \A pc \in {"rechecked", "verified", "reserved", "signed", "submitted"},
       t \in Accounts, d \in Digest, i \in Positions : At(pc, t, d, i) \in Operation
  /\ \A pc \in {"settling", "advancing"}, t \in Accounts, i \in Positions :
       At(pc, t, None, i) \in Operation
  /\ 0 \in Positions
  BY ConstantsAssumption DEF At, Operation, Positions

\* What a step reads of the operation in progress has its type.
LEMMA OperationParts ==
  ASSUME op \in Operation, op.pc # "idle"
  PROVE  /\ op.tag \in Accounts
         /\ op.index \in Positions
         /\ op.pc \in {"rechecked", "verified", "reserved", "signed", "submitted"} =>
              /\ op.digest \in Digest
              /\ [op EXCEPT !.pc = "verified"] \in Operation
              /\ [op EXCEPT !.pc = "submitted"] \in Operation
  <1>1. Idle.pc = "idle"
    BY DEF Idle
  <1> QED
    BY <1>1 DEF Operation

\* The empty store, no operation and the first balance have their types.
LEMMA TypeInit == Init => TypeInv
  <1> SUFFICES ASSUME Init PROVE TypeInv
    OBVIOUS
  <1>1. <<MaxBalance>> \in Seq(0 .. MaxBalance) /\ Len(<<MaxBalance>>) = 1
    BY ConstantsAssumption
  <1>2. [wots_index |-> 0, pending |-> None, settled |-> None] \in Record
    BY ConstantsAssumption DEF Record, Positions
  <1> QED
    BY <1>1, <1>2, OperationTypes, ConstantsAssumption
    DEF Init, TypeInv, TypeOK, LedgerShape, ChainKey, Phases, Positions

\* Every handler keeps the types; the guards on the last position are what
\* keeps an index within u32.
LEMMA TypeStep == TypeInv /\ [Next]_vars => TypeInv'
  <1> SUFFICES ASSUME TypeInv, [Next]_vars PROVE TypeInv'
    OBVIOUS
  <1> USE DEF storeVars, ledgerVars
  <1>1. CASE OpenStore
    BY <1>1, LedgerKept DEF OpenStore, TypeInv, TypeOK, Phases
  <1>2. CASE BeginGate
    BY <1>2, LedgerKept DEF BeginGate, TypeInv, TypeOK, Phases
  <1>3. CASE FinishGate
    BY <1>3, LedgerKept DEF FinishGate, TypeInv, TypeOK, Phases
  <1>4. CASE Stop
    BY <1>4, LedgerKept, OperationTypes DEF Stop, TypeInv, TypeOK, Phases
  <1>5. ASSUME NEW a \in Accounts, GateAccount(a) PROVE TypeInv'
    <2>1. \A ans \in Answers(a) : Reconcile(mem[a], ans) \in OkStatus \cup Divergences
      BY EntryTypes, ReconcileTypes
    <2> QED
      BY <1>5, <2>1, LedgerKept DEF GateAccount, TypeInv, TypeOK
  <1>6. ASSUME NEW a \in Accounts, NEW c \in Costs, NEW x \in Expiries, Plan(a, c, x)
        PROVE  TypeInv'
    <2>1. mem[a].wots_index \in SpendablePositions
      BY <1>6, ConstantsAssumption
      DEF Plan, MaySpend, CanAdvance, TypeInv, TypeOK, Record, Positions, SpendablePositions
    <2>2. plan' \in Digest
      BY <1>6, <2>1, PlanDigestTypes DEF Plan
    <2> QED
      BY <1>6, <2>2, LedgerKept DEF Plan, TypeInv, TypeOK
  <1>7. CASE RecheckPlan
    <2>1. plan \in Digest /\ plan.tag \in Accounts
      BY <1>7 DEF RecheckPlan, TypeInv, TypeOK, Digest
    <2> QED
      BY <1>7, <2>1, OperationTypes, LedgerKept DEF RecheckPlan, TypeInv, TypeOK
  <1>8. CASE ReadEntryAgain
    <2>1. [op EXCEPT !.pc = "verified"] \in Operation
      BY <1>8, OperationParts DEF ReadEntryAgain, TypeInv, TypeOK
    <2> QED
      BY <1>8, <2>1, OperationTypes, LedgerKept DEF ReadEntryAgain, TypeInv, TypeOK
  <1>9. CASE Reserve
    <2>1. op.tag \in Accounts /\ op.digest \in Digest
      BY <1>9, OperationParts DEF Reserve, TypeInv, TypeOK
    <2> DEFINE rec == mem[op.tag]
    <2>2. rec.wots_index \in SpendablePositions
      BY <1>9, <2>1, ConstantsAssumption
      DEF Reserve, CanAdvance, TypeInv, TypeOK, Record, Positions, SpendablePositions
    <2>3. rec.wots_index + 1 \in Positions
      BY <2>2, ConstantsAssumption DEF Positions, SpendablePositions
    <2>4. Advanced(rec, op.digest) \in Record
      BY <2>1, <2>2, <2>3 DEF Advanced, Record, Reservation
    <2>5. At("reserved", op.tag, op.digest, rec.wots_index + 1) \in Operation
      BY <2>1, <2>3, OperationTypes
    <2>6. /\ disk' \in [Accounts -> Record]
          /\ mem' \in [Accounts -> Record]
          /\ phase' \in Phases
          /\ op' \in Operation
      BY <1>9, <2>1, <2>4, <2>5, CommitTypes DEF Reserve
    <2> QED
      BY <1>9, <2>6, LedgerKept DEF Reserve, TypeInv, TypeOK
  <1>10. CASE Sign
    <2>1. op.tag \in Accounts /\ op.digest \in Digest
      BY <1>10, OperationParts DEF Sign, TypeInv, TypeOK
    <2>2. mem[op.tag].pending \in Reservation
      BY <1>10, <2>1 DEF Sign, TypeInv, TypeOK, Record
    <2>3. mem[op.tag].pending.spent_index \in SpendablePositions
      BY <2>2 DEF Reservation
    <2>4. [tag |-> op.tag, key |-> mem[op.tag].pending.spent_index, digest |-> op.digest]
            \in Signature
      BY <2>1, <2>3 DEF Signature
    <2>5. signed' \subseteq Signature
      BY <1>10, <2>4 DEF Sign, TypeInv, TypeOK
    <2>6. op' \in Operation
      BY <1>10, <2>1, OperationTypes DEF Sign
    <2> QED
      BY <1>10, <2>5, <2>6, LedgerKept DEF Sign, TypeInv, TypeOK
  <1>11. CASE Submit
    <2>1. op.digest \in Digest /\ [op EXCEPT !.pc = "submitted"] \in Operation
      BY <1>11, OperationParts DEF Submit, TypeInv, TypeOK
    <2> QED
      BY <1>11, <2>1, LedgerKept DEF Submit, TypeInv, TypeOK
  <1>12. CASE PrintArtifact
    <2>1. op.digest \in Digest
      BY <1>12, OperationParts DEF PrintArtifact, TypeInv, TypeOK
    <2> QED
      BY <1>12, <2>1, OperationTypes, LedgerKept DEF PrintArtifact, TypeInv, TypeOK
  <1>13. ASSUME NEW a \in Accounts, NEW c \in Costs, NEW x \in Expiries, Resign(a, c, x)
         PROVE  TypeInv'
    <2> DEFINE position == mem[a].pending.spent_index
    <2>1. position \in SpendablePositions
      BY <1>13 DEF Resign, TypeInv, TypeOK, Record, Reservation
    <2>2. PICK ans \in Entries(a) :
            LET d == PlanDigest(a, position, c, ans, x) IN
            /\ c <= ans.balance
            /\ signed' = signed \cup {[tag |-> a, key |-> position, digest |-> d]}
            /\ op' = At("signed", a, d, 0)
      BY <1>13 DEF Resign
    <2>3. PlanDigest(a, position, c, ans, x) \in Digest
      BY <2>1, <2>2, PlanDigestTypes
    <2>4. op' \in Operation
      BY <2>2, <2>3, OperationTypes
    <2>5. signed' \subseteq Signature
      BY <2>1, <2>2, <2>3 DEF Signature, TypeInv, TypeOK
    <2> QED
      BY <1>13, <2>4, <2>5, LedgerKept DEF Resign, TypeInv, TypeOK
  <1>14. ASSUME NEW a \in Accounts, ObserveLanded(a) PROVE TypeInv'
    BY <1>14, OperationTypes, LedgerKept DEF ObserveLanded, TypeInv, TypeOK
  <1>15. CASE Settle
    <2>1. op.tag \in Accounts
      BY <1>15, OperationParts DEF Settle, TypeInv, TypeOK
    <2>2. Settled(mem[op.tag]) \in Record
      BY <2>1 DEF Settled, Record, TypeInv, TypeOK
    <2>3. /\ disk' \in [Accounts -> Record]
          /\ mem' \in [Accounts -> Record]
          /\ phase' \in Phases
          /\ op' \in Operation
      BY <1>15, <2>1, <2>2, OperationTypes, CommitTypes DEF Settle
    <2> QED
      BY <1>15, <2>3, LedgerKept DEF Settle, TypeInv, TypeOK
  <1>16. ASSUME NEW a \in Accounts, NEW t \in Positions, ObserveAhead(a, t)
         PROVE  TypeInv'
    BY <1>16, OperationTypes, LedgerKept DEF ObserveAhead, TypeInv, TypeOK
  <1>17. CASE AdvanceTo
    <2>1. op.tag \in Accounts /\ op.index \in Positions
      BY <1>17, OperationParts DEF AdvanceTo, TypeInv, TypeOK
    <2>2. AdvancedTo(op.index) \in Record
      BY <2>1 DEF AdvancedTo, Record
    <2>3. /\ disk' \in [Accounts -> Record]
          /\ mem' \in [Accounts -> Record]
          /\ phase' \in Phases
          /\ op' \in Operation
      BY <1>17, <2>1, <2>2, OperationTypes, CommitTypes DEF AdvanceTo
    <2> QED
      BY <1>17, <2>3, LedgerKept DEF AdvanceTo, TypeInv, TypeOK
  <1>18. ASSUME NEW d \in saved, SubmitSaved(d) PROVE TypeInv'
    BY <1>18, LedgerKept DEF SubmitSaved, TypeInv, TypeOK
  <1>19. ASSUME NEW a \in Accounts, ResubmitSettled(a) PROVE TypeInv'
    BY <1>19, LedgerKept DEF ResubmitSettled, TypeInv, TypeOK
  <1>20. ASSUME NEW d \in mempool, Land(d) PROVE TypeInv'
    <2> DEFINE landed == Append(chain[d.tag], d.balance - d.cost)
    <2>1. /\ d \in Digest
          /\ d.tag \in Accounts
          /\ d.from \in SpendablePositions
          /\ d.balance - d.cost \in 0 .. MaxBalance
      <3>1. d \in Digest
        BY DEF TypeInv, TypeOK
      <3>2. /\ d.tag \in Accounts
            /\ d.from \in SpendablePositions
            /\ d.cost \in Costs
            /\ d.balance \in 0 .. MaxBalance
            /\ d.cost <= d.balance
        BY <3>1 DEF Digest
      <3>3. d.cost \in Nat
        BY <3>2, ConstantsAssumption
      <3> QED
        BY <3>1, <3>2, <3>3, ConstantsAssumption
    <2>2. chain[d.tag] \in Seq(0 .. MaxBalance) /\ Len(chain[d.tag]) \in Nat
      BY <2>1 DEF TypeInv, TypeOK
    <2>3. /\ landed \in Seq(0 .. MaxBalance)
          /\ Len(landed) = Len(chain[d.tag]) + 1
      BY <2>1, <2>2
    <2>4. Len(landed) >= 1 /\ Len(landed) - 1 <= MaxIndex
      BY <1>20, <2>1, <2>2, <2>3, ConstantsAssumption
      DEF Land, ChainKey, SpendablePositions
    <2> QED
      BY <1>20, <2>1, <2>3, <2>4, MovesTypes DEF Land, TypeInv, TypeOK
  <1>21. ASSUME NEW a \in Accounts, Deposit(a) PROVE TypeInv'
    <2> DEFINE paid == [chain[a] EXCEPT ![Len(chain[a])] = @ + 1]
    <2>1. /\ chain[a] \in Seq(0 .. MaxBalance)
          /\ Len(chain[a]) \in 1 .. Len(chain[a])
          /\ Len(chain[a]) - 1 <= MaxIndex
      <3>1. chain[a] \in Seq(0 .. MaxBalance) /\ Len(chain[a]) \in Nat
        BY DEF TypeInv, TypeOK
      <3> QED
        BY <3>1, EntryTypes DEF TypeInv, LedgerShape, ChainKey, Positions
    <2>2. chain[a][Len(chain[a])] + 1 \in 0 .. MaxBalance
      BY <1>21, EntryTypes, ConstantsAssumption DEF Deposit, ChainBalance
    <2>3. paid \in Seq(0 .. MaxBalance) /\ Len(paid) = Len(chain[a])
      BY <2>1, <2>2, ExceptSeq
    <2>4. Moves(a, paid)
      BY <1>21 DEF Deposit
    <2> HIDE DEF paid
    <2>5. /\ chain' \in [Accounts -> Seq(0 .. MaxBalance)]
          /\ reached' \in [Accounts -> Positions]
          /\ LedgerShape'
      BY <2>1, <2>3, <2>4, MovesTypes
    <2> QED
      BY <1>21, <2>5 DEF Deposit, TypeInv, TypeOK
  <1>22. ASSUME NEW a \in Accounts, Reorg(a) PROVE TypeInv'
    <2> DEFINE back == SubSeq(chain[a], 1, Len(chain[a]) - 1)
    <2>1. chain[a] \in Seq(0 .. MaxBalance) /\ Len(chain[a]) \in Nat
      BY DEF TypeInv, TypeOK
    <2>2. Len(chain[a]) > 1 /\ Len(chain[a]) - 1 <= MaxIndex
      BY <1>22, EntryTypes DEF Reorg, ChainKey, Positions
    <2>3. \A i \in 1 .. Len(chain[a]) - 1 : chain[a][i] \in 0 .. MaxBalance
      <3> TAKE i \in 1 .. Len(chain[a]) - 1
      <3>1. i \in 1 .. Len(chain[a])
        BY <2>1
      <3> QED
        BY <2>1, <3>1, ElementOfSeq
    <2>4. back \in Seq(0 .. MaxBalance) /\ Len(back) = Len(chain[a]) - 1
      BY <2>1, <2>2, <2>3, SubSeqProperties
    <2>5. Len(back) >= 1 /\ Len(back) - 1 <= MaxIndex
      BY <2>1, <2>2, <2>4, ConstantsAssumption
    <2> QED
      BY <1>22, <2>4, <2>5, MovesTypes DEF Reorg, TypeInv, TypeOK
  <1>23. ASSUME NEW a \in Accounts, ForeignSpend(a) PROVE TypeInv'
    <2> DEFINE moved == Append(chain[a], ChainBalance(a) - 1)
    <2>1. chain[a] \in Seq(0 .. MaxBalance) /\ Len(chain[a]) \in Nat
      BY DEF TypeInv, TypeOK
    <2>2. ChainBalance(a) - 1 \in 0 .. MaxBalance
      BY <1>23, EntryTypes, ConstantsAssumption DEF ForeignSpend
    <2>3. /\ moved \in Seq(0 .. MaxBalance)
          /\ Len(moved) >= 1
          /\ Len(moved) - 1 <= MaxIndex
      BY <1>23, <2>1, <2>2, ConstantsAssumption DEF ForeignSpend
    <2> QED
      BY <1>23, <2>3, MovesTypes DEF ForeignSpend, TypeInv, TypeOK
  <1>24. CASE Tick
    BY <1>24, LedgerKept, ConstantsAssumption DEF Tick, TypeInv, TypeOK
  <1>25. CASE UNCHANGED vars
    BY <1>25, LedgerKept DEF vars, TypeInv, TypeOK
  <1> QED
    BY <1>1, <1>2, <1>3, <1>4, <1>5, <1>6, <1>7, <1>8, <1>9, <1>10, <1>11,
       <1>12, <1>13, <1>14, <1>15, <1>16, <1>17, <1>18, <1>19, <1>20, <1>21,
       <1>22, <1>23, <1>24, <1>25
    DEF Next, Wallet, Ledger

\* Type correctness: no step of the wallet or of the ledger leaves the states
\* the records, the indexes and the digests are declared over; the position
\* never passes the last one.
THEOREM TypeCorrect == Spec => []TypeOK
  <1>1. TypeInv => TypeOK
    BY DEF TypeInv
  <1> QED
    BY <1>1, TypeInit, TypeStep, PTL DEF Spec

-----------------------------------------------------------------------------
(***************************************************************************)
(* One digest per key.  The signatures alone are not inductive: why a key   *)
(* is not signed again is that the disk has moved past it, or still names   *)
(* the digest it signed; and that what the process decides on, its memory,  *)
(* is the disk.                                                             *)
(***************************************************************************)

\* Memory is what a restart would read, unless a commit failed under it.
MemIsDisk == phase # "poisoned" => mem = disk

\* An operation runs over a live handle.
OperationIsLive == op.pc # "idle" => phase \in {"store", "open"}

\* A send past its recheck is for the next position of an unreserved account.
SendIsForNextKey ==
  op.pc \in {"rechecked", "verified"} =>
    /\ op.digest.tag = op.tag
    /\ op.digest.from = mem[op.tag].wots_index

\* A key's signature and its standing reservation name one digest.
ReservationIsSigned ==
  \A s \in signed :
    disk[s.tag].pending # None /\ disk[s.tag].pending.spent_index = s.key
      => disk[s.tag].pending.digest = s.digest

KeyInv ==
  /\ MemIsDisk
  /\ OperationIsLive
  /\ SendIsForNextKey
  /\ BlocksAgreeWithIndex
  /\ SignedKeysAreBehindDisk
  /\ SignatureIsUnderItsSource
  /\ ReservationIsSigned
  /\ OneDigestPerKey

\* What a record must be to be written over an account's.
BlocksAgree(a, rec) ==
  /\ rec.pending = None \/ rec.settled = None
  /\ \A b \in {rec.pending, rec.settled} \ {None} :
       /\ b.spent_index + 1 = rec.wots_index
       /\ b.digest.from = b.spent_index
       /\ b.digest.tag = a

Fits(a, rec) ==
  /\ BlocksAgree(a, rec)
  /\ rec.wots_index >= disk[a].wots_index
  /\ \A s \in signed :
       s.tag = a /\ rec.pending # None /\ rec.pending.spent_index = s.key
         => rec.pending.digest = s.digest

\* A step that touches neither the store nor a signature, and leaves the
\* operation as it is or takes it to a step that sends nothing new.
LEMMA KeyQuiet ==
  ASSUME TypeInv, KeyInv, UNCHANGED <<disk, mem, signed>>,
         phase' = phase \/ (phase' # "poisoned" /\ mem = disk),
         OperationIsLive', SendIsForNextKey'
  PROVE  KeyInv'
  BY DEF KeyInv, MemIsDisk, BlocksAgreeWithIndex, SignedKeysAreBehindDisk,
         SignatureIsUnderItsSource, ReservationIsSigned, OneDigestPerKey

\* A commit of a record that fits keeps the keys safe, whichever way it ends.
LEMMA KeyCommit ==
  ASSUME TypeInv, KeyInv, NEW a \in Accounts, NEW rec \in Record, NEW done,
         Commit(a, rec, done), Fits(a, rec), mem = disk, phase # "poisoned",
         signed' = signed,
         OperationIsLive', SendIsForNextKey'
  PROVE  KeyInv'
  <1>1. disk \in [Accounts -> Record] /\ signed \subseteq Signature
    BY DEF TypeInv, TypeOK
  <1>2. disk' = disk \/ disk' = [disk EXCEPT ![a] = rec]
    BY DEF Commit, Images
  <1>3. \A b \in Accounts : disk'[b] = disk[b] \/ (b = a /\ disk'[b] = rec)
    BY <1>1, <1>2
  <1>4. MemIsDisk'
    BY DEF Commit, Images, MemIsDisk
  <1>5. BlocksAgreeWithIndex'
    <2> SUFFICES ASSUME NEW b \in Accounts PROVE BlocksAgree(b, disk'[b])
      BY DEF BlocksAgreeWithIndex, BlocksAgree
    <2> QED
      BY <1>3 DEF Fits, KeyInv, BlocksAgreeWithIndex, BlocksAgree
  <1>6. SignedKeysAreBehindDisk'
    <2> SUFFICES ASSUME NEW s \in signed PROVE s.key < disk'[s.tag].wots_index
      BY DEF SignedKeysAreBehindDisk
    <2>1. s.tag \in Accounts /\ s.key \in SpendablePositions
      BY <1>1 DEF Signature
    <2>2. s.key < disk[s.tag].wots_index
      BY DEF KeyInv, SignedKeysAreBehindDisk
    <2>3. disk[s.tag].wots_index \in Positions /\ rec.wots_index \in Positions
      BY <1>1, <2>1 DEF Record
    <2> QED
      BY <1>3, <2>1, <2>2, <2>3, ConstantsAssumption
      DEF Fits, Positions, SpendablePositions
  <1>7. ReservationIsSigned'
    <2> SUFFICES ASSUME NEW s \in signed,
                        disk'[s.tag].pending # None,
                        disk'[s.tag].pending.spent_index = s.key
                 PROVE  disk'[s.tag].pending.digest = s.digest
      BY DEF ReservationIsSigned
    <2>1. s.tag \in Accounts
      BY <1>1 DEF Signature
    <2> QED
      BY <1>3, <2>1 DEF Fits, KeyInv, ReservationIsSigned
  <1>8. SignatureIsUnderItsSource' /\ OneDigestPerKey'
    BY DEF KeyInv, SignatureIsUnderItsSource, OneDigestPerKey
  <1> QED
    BY <1>4, <1>5, <1>6, <1>7, <1>8 DEF KeyInv

\* Releasing the standing reservation's digest under its own key is safe.
LEMMA KeySigned ==
  ASSUME TypeInv, KeyInv, NEW a \in Accounts, mem = disk, mem[a].pending # None,
         signed' = signed \cup {[tag |-> a, key |-> mem[a].pending.spent_index,
                                 digest |-> mem[a].pending.digest]},
         UNCHANGED <<disk, mem, phase>>,
         OperationIsLive', SendIsForNextKey'
  PROVE  KeyInv'
  <1> DEFINE pending == disk[a].pending
             new == [tag |-> a, key |-> pending.spent_index, digest |-> pending.digest]
  <1>1. /\ disk[a] \in Record
        /\ pending \in Reservation
        /\ signed \subseteq Signature
    BY DEF TypeInv, TypeOK, Record
  <1>2. /\ pending.spent_index + 1 = disk[a].wots_index
        /\ pending.digest.from = pending.spent_index
        /\ pending.digest.tag = a
    BY DEF KeyInv, BlocksAgreeWithIndex
  <1>3. signed' = signed \cup {new}
    OBVIOUS
  <1>4. pending.spent_index < disk[a].wots_index
    BY <1>1, <1>2 DEF Reservation, SpendablePositions, Record, Positions
  <1>5. SignedKeysAreBehindDisk'
    BY <1>3, <1>4 DEF KeyInv, SignedKeysAreBehindDisk
  <1>6. SignatureIsUnderItsSource'
    BY <1>2, <1>3 DEF KeyInv, SignatureIsUnderItsSource
  <1>7. ReservationIsSigned'
    BY <1>3 DEF KeyInv, ReservationIsSigned
  <1>8. \A s \in signed : s.tag = a /\ s.key = pending.spent_index => s.digest = pending.digest
    BY DEF KeyInv, ReservationIsSigned
  <1>9. OneDigestPerKey'
    BY <1>3, <1>8 DEF KeyInv, OneDigestPerKey
  <1>10. MemIsDisk' /\ BlocksAgreeWithIndex'
    BY DEF KeyInv, MemIsDisk, BlocksAgreeWithIndex
  <1> QED
    BY <1>5, <1>6, <1>7, <1>9, <1>10 DEF KeyInv

\* A new store has reserved nothing and signed nothing.
LEMMA KeyInit == Init => KeyInv
  BY DEF Init, Idle, KeyInv, MemIsDisk, OperationIsLive, SendIsForNextKey,
         BlocksAgreeWithIndex, SignedKeysAreBehindDisk, SignatureIsUnderItsSource,
         ReservationIsSigned, OneDigestPerKey

\* Every handler keeps the keys safe: those that commit or sign by the lemmas
\* above, the others because they touch neither the records nor `signed`.
LEMMA KeyStep == TypeInv /\ KeyInv /\ [Next]_vars => KeyInv'
  <1> SUFFICES ASSUME TypeInv, KeyInv, [Next]_vars PROVE KeyInv'
    OBVIOUS
  <1> USE DEF storeVars, ledgerVars
  <1>1. /\ MemIsDisk /\ OperationIsLive /\ SendIsForNextKey
        /\ op \in Operation
    BY DEF KeyInv, TypeInv, TypeOK
  <1>2. Idle.pc = "idle"
    BY DEF Idle
  <1>3. \A pc, t, d, i : At(pc, t, d, i).pc = pc
    BY DEF At
  <1>4. phase = "down" => op.pc = "idle"
    BY <1>1 DEF OperationIsLive
  <1>5. CASE OpenStore
    <2>1. /\ MemIsDisk' /\ OperationIsLive' /\ SendIsForNextKey'
          /\ UNCHANGED <<disk, signed>>
      BY <1>4, <1>5 DEF OpenStore, MemIsDisk, OperationIsLive, SendIsForNextKey
    <2> QED
      BY <2>1 DEF KeyInv, BlocksAgreeWithIndex, SignedKeysAreBehindDisk,
                  SignatureIsUnderItsSource, ReservationIsSigned, OneDigestPerKey
  <1>6. CASE Stop
    <2>1. /\ MemIsDisk' /\ OperationIsLive' /\ SendIsForNextKey'
          /\ UNCHANGED <<disk, signed>>
      BY <1>2, <1>6 DEF Stop, MemIsDisk, OperationIsLive, SendIsForNextKey
    <2> QED
      BY <2>1 DEF KeyInv, BlocksAgreeWithIndex, SignedKeysAreBehindDisk,
                  SignatureIsUnderItsSource, ReservationIsSigned, OneDigestPerKey
  <1>7. CASE BeginGate
    BY <1>1, <1>2, <1>7, KeyQuiet
    DEF BeginGate, MemIsDisk, OperationIsLive, SendIsForNextKey
  <1>8. CASE FinishGate
    BY <1>1, <1>8, KeyQuiet
    DEF FinishGate, MemIsDisk, OperationIsLive, SendIsForNextKey
  <1>9. CASE RecheckPlan
    <2>1. /\ op'.pc = "rechecked"
          /\ op'.digest = plan
          /\ op'.tag = plan.tag
          /\ plan.from = mem[plan.tag].wots_index
          /\ phase = "open"
          /\ UNCHANGED <<disk, mem, phase, signed>>
      BY <1>9 DEF RecheckPlan, PlanIsCurrent, At
    <2> QED
      BY <2>1, KeyQuiet DEF OperationIsLive, SendIsForNextKey
  <1>10. CASE ReadEntryAgain
    <2>1. /\ op' = Idle \/ op' = [op EXCEPT !.pc = "verified"]
          /\ op.pc = "rechecked"
          /\ UNCHANGED <<disk, mem, phase, signed>>
      BY <1>10 DEF ReadEntryAgain
    <2>2. CASE op' = Idle
      BY <1>2, <2>1, <2>2, KeyQuiet DEF OperationIsLive, SendIsForNextKey
    <2>3. CASE op' = [op EXCEPT !.pc = "verified"]
      <3>1. op'.pc = "verified" /\ op'.tag = op.tag /\ op'.digest = op.digest
        BY <1>1, <1>2, <2>1, <2>3 DEF Operation
      <3> QED
        BY <1>1, <2>1, <3>1, KeyQuiet DEF OperationIsLive, SendIsForNextKey
    <2> QED
      BY <2>1, <2>2, <2>3
  <1>11. CASE Reserve
    <2> DEFINE a == op.tag
               rec == Advanced(mem[a], op.digest)
               done == At("reserved", a, op.digest, mem[a].wots_index + 1)
    <2>1. /\ a \in Accounts
          /\ op.digest \in Digest
          /\ phase \in {"store", "open"}
          /\ op.digest.tag = a
          /\ op.digest.from = mem[a].wots_index
      BY <1>1, <1>11, OperationParts
      DEF Reserve, OperationIsLive, SendIsForNextKey
    <2>2. mem = disk
      BY <1>1, <2>1 DEF MemIsDisk
    <2>3. mem[a].wots_index \in SpendablePositions
      BY <1>11, <2>1, ConstantsAssumption
      DEF Reserve, CanAdvance, TypeInv, TypeOK, Record, Positions, SpendablePositions
    <2>4. mem[a].wots_index + 1 \in Positions
      BY <2>3, ConstantsAssumption DEF Positions, SpendablePositions
    <2>5. rec \in Record
      BY <2>1, <2>3, <2>4 DEF Advanced, Record, Reservation
    <2>6. BlocksAgree(a, rec)
      BY <2>1 DEF Advanced, BlocksAgree
    <2>7. \A s \in signed : s.tag = a => s.key # mem[a].wots_index
      <3> SUFFICES ASSUME NEW s \in signed, s.tag = a PROVE s.key # mem[a].wots_index
        OBVIOUS
      <3>1. s.key \in SpendablePositions
        BY DEF TypeInv, TypeOK, Signature
      <3>2. s.key < mem[a].wots_index
        BY <2>2 DEF KeyInv, SignedKeysAreBehindDisk
      <3> QED
        BY <2>3, <3>1, <3>2 DEF SpendablePositions
    <2>8. Fits(a, rec)
      BY <2>2, <2>3, <2>6, <2>7 DEF Fits, Advanced, SpendablePositions
    <2>9. OperationIsLive' /\ SendIsForNextKey'
      BY <1>2, <1>3, <1>11, <2>1 DEF Reserve, Commit, OperationIsLive, SendIsForNextKey
    <2> QED
      BY <1>11, <2>1, <2>2, <2>5, <2>8, <2>9, KeyCommit DEF Reserve
  <1>12. CASE Sign
    <2>1. op.tag \in Accounts /\ phase \in {"store", "open"}
      BY <1>1, <1>12, OperationParts DEF Sign, OperationIsLive
    <2>2. mem = disk
      BY <1>1, <2>1 DEF MemIsDisk
    <2>3. /\ mem[op.tag].pending # None
          /\ signed' = signed \cup {[tag |-> op.tag, key |-> mem[op.tag].pending.spent_index,
                                     digest |-> mem[op.tag].pending.digest]}
          /\ UNCHANGED <<disk, mem, phase>>
      BY <1>12 DEF Sign
    <2>4. OperationIsLive' /\ SendIsForNextKey'
      BY <1>3, <1>12, <2>1 DEF Sign, OperationIsLive, SendIsForNextKey
    <2> QED
      BY <2>1, <2>2, <2>3, <2>4, KeySigned
  <1>13. CASE Submit
    <2>1. op'.pc = "submitted" /\ op.pc = "signed"
      BY <1>1, <1>2, <1>13 DEF Submit, Operation
    <2> QED
      BY <1>1, <1>13, <2>1, KeyQuiet DEF Submit, OperationIsLive, SendIsForNextKey
  <1>14. CASE PrintArtifact
    BY <1>2, <1>14, KeyQuiet DEF PrintArtifact, OperationIsLive, SendIsForNextKey
  <1>15. ASSUME NEW a \in Accounts, NEW c \in Costs, NEW x \in Expiries, Resign(a, c, x)
         PROVE  KeyInv'
    <2>1. mem = disk
      BY <1>1, <1>15 DEF Resign, MemIsDisk
    <2>2. /\ mem[a].pending # None
          /\ signed' = signed \cup {[tag |-> a, key |-> mem[a].pending.spent_index,
                                     digest |-> mem[a].pending.digest]}
          /\ UNCHANGED <<disk, mem, phase>>
      BY <1>15 DEF Resign, Resignable
    <2>3. OperationIsLive' /\ SendIsForNextKey'
      BY <1>3, <1>15 DEF Resign, OperationIsLive, SendIsForNextKey
    <2> QED
      BY <2>1, <2>2, <2>3, KeySigned
  <1>16. ASSUME NEW a \in Accounts, ObserveLanded(a) PROVE KeyInv'
    BY <1>3, <1>16, KeyQuiet DEF ObserveLanded, OperationIsLive, SendIsForNextKey
  <1>17. CASE Settle
    <2> DEFINE a == op.tag
               rec == Settled(mem[a])
    <2>1. a \in Accounts /\ phase \in {"store", "open"}
      BY <1>1, <1>17, OperationParts DEF Settle, OperationIsLive
    <2>2. mem = disk
      BY <1>1, <2>1 DEF MemIsDisk
    <2>3. /\ mem[a] \in Record
          /\ mem[a].pending # None
          /\ BlocksAgree(a, mem[a])
      BY <1>17, <2>1, <2>2 DEF Settle, TypeInv, TypeOK, KeyInv, BlocksAgreeWithIndex, BlocksAgree
    <2>4. rec = [wots_index |-> mem[a].wots_index, pending |-> None,
                 settled |-> mem[a].pending]
      BY DEF Settled
    <2>5. rec \in Record /\ BlocksAgree(a, rec)
      BY <2>3, <2>4 DEF Record, BlocksAgree
    <2>6. Fits(a, rec)
      BY <2>2, <2>3, <2>4, <2>5 DEF Fits, Record, Positions
    <2>7. OperationIsLive' /\ SendIsForNextKey'
      BY <1>2, <1>17 DEF Settle, Commit, OperationIsLive, SendIsForNextKey
    <2> QED
      BY <1>17, <2>1, <2>2, <2>5, <2>6, <2>7, KeyCommit DEF Settle
  <1>18. ASSUME NEW a \in Accounts, NEW t \in Positions, ObserveAhead(a, t)
         PROVE  KeyInv'
    BY <1>3, <1>18, KeyQuiet DEF ObserveAhead, OperationIsLive, SendIsForNextKey
  <1>19. CASE AdvanceTo
    <2> DEFINE a == op.tag
               rec == AdvancedTo(op.index)
    <2>1. a \in Accounts /\ op.index \in Positions /\ phase \in {"store", "open"}
      BY <1>1, <1>19, OperationParts DEF AdvanceTo, OperationIsLive
    <2>2. mem = disk
      BY <1>1, <2>1 DEF MemIsDisk
    <2>3. rec \in Record
      BY <2>1 DEF AdvancedTo, Record
    <2>4. Fits(a, rec)
      BY <1>19, <2>1, <2>2 DEF AdvanceTo, AdvancedTo, Fits, BlocksAgree,
                               TypeInv, TypeOK, Record, Positions
    <2>5. OperationIsLive' /\ SendIsForNextKey'
      BY <1>2, <1>19 DEF AdvanceTo, Commit, OperationIsLive, SendIsForNextKey
    <2> QED
      BY <1>19, <2>1, <2>2, <2>3, <2>4, <2>5, KeyCommit DEF AdvanceTo
  <1>20. CASE UNCHANGED <<disk, mem, phase, op, signed>>
    BY <1>1, <1>20, KeyQuiet DEF OperationIsLive, SendIsForNextKey
  <1>21. CASE Ledger
    BY <1>20, <1>21 DEF Ledger, Land, Deposit, Reorg, ForeignSpend, Tick
  <1>22. CASE \/ \E a \in Accounts : GateAccount(a)
              \/ \E a \in Accounts, c \in Costs, x \in Expiries : Plan(a, c, x)
              \/ \E d \in saved : SubmitSaved(d)
              \/ \E a \in Accounts : ResubmitSettled(a)
    BY <1>20, <1>22 DEF GateAccount, Plan, SubmitSaved, ResubmitSettled
  <1>23. CASE UNCHANGED vars
    BY <1>20, <1>23 DEF vars
  <1> QED
    BY <1>5, <1>6, <1>7, <1>8, <1>9, <1>10, <1>11, <1>12, <1>13, <1>14, <1>15,
       <1>16, <1>17, <1>18, <1>19, <1>21, <1>22, <1>23
    DEF Next, Wallet

\* The invariant that carries I1, I2 and I3 holds of every behaviour.
THEOREM KeysSafe == Spec => [](TypeInv /\ KeyInv)
  BY TypeInit, TypeStep, KeyInit, KeyStep, PTL DEF Spec

\* I1, for every number of accounts and every ledger: one WOTS+ key signs one
\* digest, over crashes, failed commits, stale plans and repeated signings.
THEOREM OneDigestPerKeyHolds == Spec => []OneDigestPerKey
  BY KeysSafe, PTL DEF KeyInv

\* I2: a key that has signed is behind the position on disk.
THEOREM SignedKeysAreBehindDiskHolds == Spec => []SignedKeysAreBehindDisk
  BY KeysSafe, PTL DEF KeyInv

\* A released signature is under the key its digest names as source.
THEOREM SignatureIsUnderItsSourceHolds == Spec => []SignatureIsUnderItsSource
  BY KeysSafe, PTL DEF KeyInv

\* I3: index, reservation and retained settle agree in every image.
THEOREM BlocksAgreeWithIndexHolds == Spec => []BlocksAgreeWithIndex
  BY KeysSafe, PTL DEF KeyInv

-----------------------------------------------------------------------------
(***************************************************************************)
(* The store against the ledger.  `reached` never falls, so what an         *)
(* operation read of the ledger before its commit still holds of `reached`  *)
(* when the commit is made, whatever reverted in between.                   *)
(***************************************************************************)

\* A settle in progress saw the ledger at the change key; an advance, at its
\* target.
ObservedReached ==
  /\ op.pc = "settling" => mem[op.tag].wots_index <= reached[op.tag]
  /\ op.pc = "advancing" => op.index <= reached[op.tag]

LedgerInv ==
  /\ ObservedReached
  /\ NoSignedSpendForgotten
  /\ NoKeyIsAbandoned

\* The ledger's furthest key of an account is never forgotten, reorgs included.
LEMMA ReachedGrows ==
  ASSUME TypeInv, [Next]_vars
  PROVE  \A a \in Accounts : reached'[a] >= reached[a]
  <1>1. reached \in [Accounts -> Positions]
    BY DEF TypeInv, TypeOK
  <1>2. ASSUME UNCHANGED reached PROVE \A a \in Accounts : reached'[a] >= reached[a]
    BY <1>1, <1>2 DEF Positions
  <1>3. ASSUME NEW a \in Accounts, NEW entries, Len(entries) \in Nat, Moves(a, entries)
        PROVE  \A b \in Accounts : reached'[b] >= reached[b]
    <2>1. reached' = [reached EXCEPT ![a] = MaxOf(reached[a], Len(entries) - 1)]
      BY <1>3 DEF Moves
    <2>2. MaxOf(reached[a], Len(entries) - 1) >= reached[a]
      BY <1>1, <1>3 DEF MaxOf, Positions
    <2> QED
      BY <1>1, <2>1, <2>2 DEF Positions
  <1>4. ASSUME NEW a \in Accounts
        PROVE  /\ chain[a] \in Seq(0 .. MaxBalance)
               /\ Len(chain[a]) \in Nat
               /\ Len(chain[a]) >= 1
    BY DEF TypeInv, TypeOK, LedgerShape
  <1>5. ASSUME NEW d \in mempool, Land(d) PROVE \A b \in Accounts : reached'[b] >= reached[b]
    <2>1. d.tag \in Accounts
      BY DEF TypeInv, TypeOK, Digest
    <2>2. Len(Append(chain[d.tag], d.balance - d.cost)) \in Nat
      BY <1>4, <2>1
    <2> QED
      BY <1>3, <1>5, <2>1, <2>2 DEF Land
  <1>6. ASSUME NEW a \in Accounts, Deposit(a) PROVE \A b \in Accounts : reached'[b] >= reached[b]
    <2> DEFINE paid == [chain[a] EXCEPT ![Len(chain[a])] = @ + 1]
    <2>1. Len(paid) \in Nat
      BY <1>4
    <2>2. Moves(a, paid)
      BY <1>6 DEF Deposit
    <2> QED
      BY <1>3, <2>1, <2>2
  <1>7. ASSUME NEW a \in Accounts, Reorg(a) PROVE \A b \in Accounts : reached'[b] >= reached[b]
    <2> DEFINE back == SubSeq(chain[a], 1, Len(chain[a]) - 1)
    <2>1. Len(back) \in Nat
      BY <1>4
    <2> QED
      BY <1>3, <1>7, <2>1 DEF Reorg
  <1>8. ASSUME NEW a \in Accounts, ForeignSpend(a)
        PROVE  \A b \in Accounts : reached'[b] >= reached[b]
    <2>1. Len(Append(chain[a], ChainBalance(a) - 1)) \in Nat
      BY <1>4
    <2> QED
      BY <1>3, <1>8, <2>1 DEF ForeignSpend
  <1>9. CASE Wallet
    BY <1>2, <1>9
    DEF Wallet, OpenStore, BeginGate, FinishGate, Stop, GateAccount, Plan, RecheckPlan,
        ReadEntryAgain, Reserve, Sign, Submit, PrintArtifact, Resign, ObserveLanded,
        Settle, ObserveAhead, AdvanceTo, SubmitSaved, ResubmitSettled, ledgerVars
  <1>10. CASE Tick
    BY <1>2, <1>10 DEF Tick
  <1>11. CASE UNCHANGED vars
    BY <1>2, <1>11 DEF vars
  <1> QED
    BY <1>5, <1>6, <1>7, <1>8, <1>9, <1>10, <1>11 DEF Next, Ledger

\* What a record must be, given the ledger, to be written over an account's.
Accounted(a, rec) ==
  /\ \A s \in signed :
       s.tag = a => \/ s.key < reached[a]
                    \/ rec.pending # None /\ rec.pending.digest = s.digest
  /\ rec.wots_index <= reached[a] + (IF rec.pending # None THEN 1 ELSE 0)

\* A step that writes at most one record, and one that is accounted for.
LEMMA LedgerWrite ==
  ASSUME TypeInv, TypeInv', LedgerInv, NEW a \in Accounts, NEW rec \in Record,
         Accounted(a, rec), signed' = signed,
         disk' = disk \/ disk' = [disk EXCEPT ![a] = rec],
         \A b \in Accounts : reached'[b] >= reached[b],
         ObservedReached'
  PROVE  LedgerInv'
  <1>1. /\ disk \in [Accounts -> Record]
        /\ signed \subseteq Signature
        /\ reached \in [Accounts -> Positions]
        /\ reached' \in [Accounts -> Positions]
    BY DEF TypeInv, TypeOK
  <1>2. \A b \in Accounts : disk'[b] = disk[b] \/ (b = a /\ disk'[b] = rec)
    BY <1>1
  <1>3. NoSignedSpendForgotten'
    <2> SUFFICES ASSUME NEW s \in signed
                 PROVE  \/ s.key < reached'[s.tag]
                        \/ /\ disk'[s.tag].pending # None
                           /\ disk'[s.tag].pending.digest = s.digest
      BY DEF NoSignedSpendForgotten
    <2>1. s.tag \in Accounts /\ s.key \in SpendablePositions
      BY <1>1 DEF Signature
    <2>2. s.key < reached[s.tag] => s.key < reached'[s.tag]
      BY <1>1, <2>1, ConstantsAssumption DEF Positions, SpendablePositions
    <2>3. \/ s.key < reached[s.tag]
          \/ disk[s.tag].pending # None /\ disk[s.tag].pending.digest = s.digest
      BY DEF LedgerInv, NoSignedSpendForgotten
    <2> QED
      BY <1>2, <2>1, <2>2, <2>3 DEF Accounted
  <1>4. NoKeyIsAbandoned'
    <2> SUFFICES ASSUME NEW b \in Accounts
                 PROVE  disk'[b].wots_index
                          <= reached'[b] + (IF disk'[b].pending # None THEN 1 ELSE 0)
      BY DEF NoKeyIsAbandoned
    <2>1. disk'[b].wots_index <= reached[b] + (IF disk'[b].pending # None THEN 1 ELSE 0)
      BY <1>2 DEF Accounted, LedgerInv, NoKeyIsAbandoned
    <2>2. /\ disk'[b].wots_index \in Positions
          /\ reached[b] \in Positions
          /\ reached'[b] \in Positions
      BY <1>1 DEF TypeInv, TypeOK, Record
    <2> QED
      BY <2>1, <2>2 DEF Positions
  <1> QED
    BY <1>3, <1>4 DEF LedgerInv

\* A step that writes nothing and signs nothing.
LEMMA LedgerQuiet ==
  ASSUME TypeInv, TypeInv', LedgerInv, UNCHANGED <<disk, signed>>,
         \A b \in Accounts : reached'[b] >= reached[b],
         ObservedReached'
  PROVE  LedgerInv'
  <1>1. ASSUME NEW a \in Accounts PROVE LedgerInv'
    <2>1. disk[a] \in Record
      BY DEF TypeInv, TypeOK
    <2>2. Accounted(a, disk[a])
      BY DEF Accounted, LedgerInv, NoSignedSpendForgotten, NoKeyIsAbandoned
    <2> QED
      BY <2>1, <2>2, LedgerWrite
  <1>2. CASE Accounts = {}
    BY <1>2 DEF LedgerInv, NoSignedSpendForgotten, NoKeyIsAbandoned, TypeInv, TypeOK, Signature
  <1> QED
    BY <1>1, <1>2

\* A signature over the standing reservation's digest.
LEMMA LedgerSigned ==
  ASSUME TypeInv, LedgerInv, NEW a \in Accounts, disk[a].pending # None,
         signed' = signed \cup {[tag |-> a, key |-> disk[a].pending.spent_index,
                                 digest |-> disk[a].pending.digest]},
         UNCHANGED <<disk, reached>>, ObservedReached'
  PROVE  LedgerInv'
  BY DEF LedgerInv, NoSignedSpendForgotten, NoKeyIsAbandoned

\* A new store is at the first key and the ledger has been there.
LEMMA LedgerInit == Init => LedgerInv
  BY DEF Init, Idle, LedgerInv, ObservedReached, NoSignedSpendForgotten, NoKeyIsAbandoned

\* A record that a settle is about to move: the ledger has been past its key.
LEMMA SettleObserved ==
  ASSUME TypeInv, KeyInv, LedgerInv, Settle
  PROVE  /\ op.tag \in Accounts
         /\ mem = disk
         /\ disk[op.tag].pending # None
         /\ disk[op.tag].pending.spent_index < reached[op.tag]
         /\ disk[op.tag].wots_index <= reached[op.tag]
  <1>1. op.tag \in Accounts /\ mem = disk /\ disk[op.tag].pending # None
    BY OperationParts DEF Settle, TypeInv, TypeOK, KeyInv, MemIsDisk, OperationIsLive
  <1>2. disk[op.tag].wots_index <= reached[op.tag]
    BY <1>1 DEF Settle, LedgerInv, ObservedReached
  <1>3. disk[op.tag].pending.spent_index + 1 = disk[op.tag].wots_index
    BY <1>1 DEF KeyInv, BlocksAgreeWithIndex
  <1>4. disk[op.tag].pending.spent_index \in SpendablePositions
    BY <1>1 DEF TypeInv, TypeOK, Record, Reservation
  <1>5. reached[op.tag] \in Positions
    BY <1>1 DEF TypeInv, TypeOK
  <1> QED
    BY <1>1, <1>2, <1>3, <1>4, <1>5 DEF Positions, SpendablePositions

\* Every handler keeps the store and the ledger in agreement: a record leaves
\* its key only by a reservation, or after the ledger was seen past it.
LEMMA LedgerStep ==
  TypeInv /\ TypeInv' /\ KeyInv /\ LedgerInv /\ [Next]_vars => LedgerInv'
  <1> SUFFICES ASSUME TypeInv, TypeInv', KeyInv, LedgerInv, [Next]_vars
               PROVE  LedgerInv'
    OBVIOUS
  <1> USE DEF storeVars, ledgerVars
  <1>1. \A a \in Accounts : reached'[a] >= reached[a]
    BY ReachedGrows
  <1>2. /\ ObservedReached
        /\ op \in Operation
        /\ reached \in [Accounts -> Positions]
        /\ reached' \in [Accounts -> Positions]
    BY DEF LedgerInv, TypeInv, TypeOK
  <1>3. Idle.pc = "idle" /\ \A pc, t, d, i : At(pc, t, d, i).pc = pc
    BY DEF Idle, At
  <1>4. ASSUME UNCHANGED <<mem, op>> PROVE ObservedReached'
    <2>1. CASE op.pc = "settling"
      <3>1. op.tag \in Accounts /\ mem[op.tag].wots_index \in Positions
        BY <1>2, <2>1, OperationParts DEF TypeInv, TypeOK, Record
      <3> QED
        BY <1>1, <1>2, <1>4, <2>1, <3>1 DEF ObservedReached, Positions
    <2>2. CASE op.pc = "advancing"
      <3>1. op.tag \in Accounts /\ op.index \in Positions
        BY <1>2, <2>2, OperationParts
      <3> QED
        BY <1>1, <1>2, <1>4, <2>2, <3>1 DEF ObservedReached, Positions
    <2> QED
      BY <1>4, <2>1, <2>2 DEF ObservedReached
  <1>5. ASSUME op'.pc \notin {"settling", "advancing"} PROVE ObservedReached'
    BY <1>5 DEF ObservedReached
  <1>6. ASSUME NEW a \in Accounts, NEW ans \in Answers(a), ans.kind = "entry"
        PROVE  ans.key \in Positions /\ ans.key <= reached[a]
    BY <1>6, EntryTypes DEF TypeInv, LedgerShape
  <1>7. CASE OpenStore
    <2>1. op.pc = "idle"
      BY <1>2, <1>7 DEF OpenStore, KeyInv, OperationIsLive
    <2> QED
      BY <1>1, <1>5, <1>7, <2>1, LedgerQuiet DEF OpenStore
  <1>8. CASE Stop
    BY <1>1, <1>3, <1>5, <1>8, LedgerQuiet DEF Stop
  <1>9. CASE RecheckPlan
    BY <1>1, <1>3, <1>5, <1>9, LedgerQuiet DEF RecheckPlan
  <1>10. CASE ReadEntryAgain
    <2>1. op'.pc \in {"idle", "verified"}
      BY <1>2, <1>3, <1>10 DEF ReadEntryAgain, Operation
    <2> QED
      BY <1>1, <1>5, <1>10, <2>1, LedgerQuiet DEF ReadEntryAgain
  <1>11. CASE Reserve
    <2> DEFINE a == op.tag
               rec == Advanced(mem[a], op.digest)
    <2>1. a \in Accounts /\ op.digest \in Digest /\ mem = disk
      BY <1>2, <1>11, OperationParts DEF Reserve, KeyInv, MemIsDisk, OperationIsLive
    <2>2. disk[a].pending = None /\ disk[a].wots_index \in SpendablePositions
      BY <1>11, <2>1, ConstantsAssumption
      DEF Reserve, CanAdvance, TypeInv, TypeOK, Record, Positions, SpendablePositions
    <2>3. disk[a].wots_index + 1 \in Positions
      BY <2>2, ConstantsAssumption DEF Positions, SpendablePositions
    <2>4. rec \in Record
      BY <2>1, <2>2, <2>3 DEF Advanced, Record, Reservation
    <2>5. \A s \in signed : s.tag = a => s.key < reached[a]
      BY <2>2 DEF LedgerInv, NoSignedSpendForgotten
    <2>6. disk[a].wots_index <= reached[a]
      BY <1>2, <2>1, <2>2 DEF LedgerInv, NoKeyIsAbandoned, Positions
    <2>7. rec.pending # None
      BY <2>4, NoneAssumption, <2>1, <2>2 DEF Advanced, Reservation
    <2>8. Accounted(a, rec)
      BY <1>2, <2>1, <2>2, <2>5, <2>6, <2>7
      DEF Accounted, Advanced, Positions, SpendablePositions
    <2>9. /\ disk' = disk \/ disk' = [disk EXCEPT ![a] = rec]
          /\ op'.pc \notin {"settling", "advancing"}
          /\ signed' = signed
      BY <1>3, <1>11 DEF Reserve, Commit, Images
    <2> QED
      BY <1>1, <1>5, <2>1, <2>4, <2>8, <2>9, LedgerWrite
  <1>12. CASE Sign
    <2>1. op.tag \in Accounts /\ mem = disk
      BY <1>2, <1>12, OperationParts DEF Sign, KeyInv, MemIsDisk, OperationIsLive
    <2>2. /\ disk[op.tag].pending # None
          /\ signed' = signed \cup {[tag |-> op.tag, key |-> disk[op.tag].pending.spent_index,
                                     digest |-> disk[op.tag].pending.digest]}
          /\ UNCHANGED <<disk, reached>>
          /\ op'.pc = "signed"
      BY <1>3, <1>12, <2>1 DEF Sign
    <2> QED
      BY <1>5, <2>1, <2>2, LedgerSigned
  <1>13. CASE Submit
    <2>1. op'.pc = "submitted"
      BY <1>2, <1>3, <1>13 DEF Submit, Operation
    <2> QED
      BY <1>1, <1>5, <1>13, <2>1, LedgerQuiet DEF Submit
  <1>14. CASE PrintArtifact
    BY <1>1, <1>3, <1>5, <1>14, LedgerQuiet DEF PrintArtifact
  <1>15. ASSUME NEW a \in Accounts, NEW c \in Costs, NEW x \in Expiries, Resign(a, c, x)
         PROVE  LedgerInv'
    <2>1. mem = disk
      BY <1>15 DEF Resign, KeyInv, MemIsDisk
    <2>2. /\ disk[a].pending # None
          /\ signed' = signed \cup {[tag |-> a, key |-> disk[a].pending.spent_index,
                                     digest |-> disk[a].pending.digest]}
          /\ UNCHANGED <<disk, reached>>
          /\ op'.pc = "signed"
      BY <1>3, <1>15, <2>1 DEF Resign, Resignable
    <2> QED
      BY <1>5, <2>2, LedgerSigned
  <1>16. ASSUME NEW a \in Accounts, ObserveLanded(a) PROVE LedgerInv'
    <2>1. PICK ans \in Answers(a) : Landed(mem[a], ans)
      BY <1>16 DEF ObserveLanded
    <2>2. ans.kind \in {"not_found", "unreachable", "entry"}
      BY EntryTypes
    <2>3. ans.kind = "entry" /\ ans.key = mem[a].wots_index
      BY <2>1, <2>2 DEF Landed, Reconcile, ReservationAt
    <2>4. mem[a].wots_index <= reached[a]
      BY <1>6, <2>3
    <2>5. op'.pc = "settling" /\ op'.tag = a /\ UNCHANGED <<mem, reached, disk, signed>>
      BY <1>16 DEF ObserveLanded, At
    <2>6. ObservedReached'
      BY <2>4, <2>5 DEF ObservedReached
    <2> QED
      BY <1>1, <2>5, <2>6, LedgerQuiet
  <1>17. CASE Settle
    <2> DEFINE a == op.tag
               rec == Settled(mem[a])
    <2>1. /\ a \in Accounts
          /\ mem = disk
          /\ disk[a].pending # None
          /\ disk[a].pending.spent_index < reached[a]
          /\ disk[a].wots_index <= reached[a]
      BY <1>17, SettleObserved
    <2>2. rec \in Record
      BY <2>1 DEF Settled, Record, TypeInv, TypeOK
    <2>3. ASSUME NEW s \in signed, s.tag = a PROVE s.key < reached[a]
      <3>1. CASE disk[a].pending.digest = s.digest
        BY <2>1, <2>3, <3>1 DEF KeyInv, SignatureIsUnderItsSource, BlocksAgreeWithIndex
      <3>2. CASE disk[a].pending.digest # s.digest
        BY <2>3, <3>2 DEF LedgerInv, NoSignedSpendForgotten
      <3> QED
        BY <3>1, <3>2
    <2>4. Accounted(a, rec)
      BY <1>2, <2>1, <2>3 DEF Accounted, Settled, Positions
    <2>5. /\ disk' = disk \/ disk' = [disk EXCEPT ![a] = rec]
          /\ op'.pc \notin {"settling", "advancing"}
          /\ signed' = signed
      BY <1>3, <1>17 DEF Settle, Commit, Images
    <2> QED
      BY <1>1, <1>5, <2>1, <2>2, <2>4, <2>5, LedgerWrite
  <1>18. ASSUME NEW a \in Accounts, NEW t \in Positions, ObserveAhead(a, t)
         PROVE  LedgerInv'
    <2>1. PICK ans \in Answers(a) :
            /\ Reconcile(mem[a], ans) = "IndexMismatch"
            /\ TargetAgrees(t, ans.key)
      BY <1>18 DEF ObserveAhead
    <2>2. ans.kind \in {"not_found", "unreachable", "entry"}
      BY EntryTypes
    <2>3. ans.kind = "entry" /\ ans.key = t
      BY <2>1, <2>2 DEF Reconcile, TargetAgrees
    <2>4. t <= reached[a]
      BY <1>6, <2>3
    <2>5. /\ op'.pc = "advancing" /\ op'.tag = a /\ op'.index = t
          /\ UNCHANGED <<reached, disk, signed>>
      BY <1>18 DEF ObserveAhead, At
    <2>6. ObservedReached'
      BY <2>4, <2>5 DEF ObservedReached
    <2> QED
      BY <1>1, <2>5, <2>6, LedgerQuiet
  <1>19. CASE AdvanceTo
    <2> DEFINE a == op.tag
               rec == AdvancedTo(op.index)
    <2>1. /\ a \in Accounts
          /\ op.index \in Positions
          /\ mem = disk
          /\ disk[a].pending = None
      BY <1>2, <1>19, OperationParts DEF AdvanceTo, KeyInv, MemIsDisk, OperationIsLive
    <2>2. rec \in Record
      BY <2>1 DEF AdvancedTo, Record
    <2>3. \A s \in signed : s.tag = a => s.key < reached[a]
      BY <2>1 DEF LedgerInv, NoSignedSpendForgotten
    <2>4. op.index <= reached[a]
      BY <1>2, <1>19 DEF AdvanceTo, ObservedReached
    <2>5. Accounted(a, rec)
      BY <1>2, <2>1, <2>3, <2>4 DEF Accounted, AdvancedTo, Positions
    <2>6. /\ disk' = disk \/ disk' = [disk EXCEPT ![a] = rec]
          /\ op'.pc \notin {"settling", "advancing"}
          /\ signed' = signed
      BY <1>3, <1>19 DEF AdvanceTo, Commit, Images
    <2> QED
      BY <1>1, <1>5, <2>1, <2>2, <2>5, <2>6, LedgerWrite
  <1>20. CASE UNCHANGED <<disk, signed, mem, op>>
    BY <1>1, <1>4, <1>20, LedgerQuiet
  <1>21. CASE Ledger
    BY <1>20, <1>21 DEF Ledger, Land, Deposit, Reorg, ForeignSpend, Tick
  <1>22. CASE \/ BeginGate \/ FinishGate
              \/ \E a \in Accounts : GateAccount(a)
              \/ \E a \in Accounts, c \in Costs, x \in Expiries : Plan(a, c, x)
              \/ \E d \in saved : SubmitSaved(d)
              \/ \E a \in Accounts : ResubmitSettled(a)
    BY <1>20, <1>22
    DEF BeginGate, FinishGate, GateAccount, Plan, SubmitSaved, ResubmitSettled
  <1>23. CASE UNCHANGED vars
    BY <1>20, <1>23 DEF vars
  <1> QED
    BY <1>7, <1>8, <1>9, <1>10, <1>11, <1>12, <1>13, <1>14, <1>15,
       <1>16, <1>17, <1>18, <1>19, <1>21, <1>22, <1>23
    DEF Next, Wallet

\* What the signed spends, the store and the ledger say of one another holds
\* of every behaviour.
THEOREM StoreAndLedgerAgree == Spec => [](TypeInv /\ KeyInv /\ LedgerInv)
  <1>1. TypeInv /\ KeyInv /\ LedgerInv /\ [Next]_vars
          => (TypeInv /\ KeyInv /\ LedgerInv)'
    BY TypeStep, KeyStep, LedgerStep
  <1> QED
    BY <1>1, TypeInit, KeyInit, LedgerInit, PTL DEF Spec

\* Until the ledger has moved past its key, a signed spend stays in the durable
\* record as the reservation it was signed for.
THEOREM NoSignedSpendForgottenHolds == Spec => []NoSignedSpendForgotten
  BY StoreAndLedgerAgree, PTL DEF LedgerInv

\* The store is never past a key the ledger was not, but for an open
\* reservation's: no balance is left at a position it cannot go back to.
THEOREM NoKeyIsAbandonedHolds == Spec => []NoKeyIsAbandoned
  BY StoreAndLedgerAgree, PTL DEF LedgerInv

-----------------------------------------------------------------------------
(* What a step may never do. *)

\* What one commit does to an account's record, as the action property has it.
LeavesByLanding ==
  \A a \in Accounts :
    /\ disk'[a].wots_index >= disk[a].wots_index
    /\ disk[a].pending # None /\ disk'[a] # disk[a] =>
         /\ disk'[a] = Settled(disk[a])
         /\ disk[a].pending.spent_index < reached[a]

\* A step that changes a record with a standing reservation settles it, and
\* no step moves the position back.
LEMMA LandingStep ==
  ASSUME TypeInv, KeyInv, LedgerInv, [Next]_vars
  PROVE  LeavesByLanding
  <1> USE DEF storeVars
  <1>1. disk \in [Accounts -> Record] /\ op \in Operation
    BY DEF TypeInv, TypeOK
  <1>2. \A a \in Accounts : disk[a].wots_index \in Positions
    BY <1>1 DEF Record
  <1>3. CASE UNCHANGED disk
    BY <1>2, <1>3 DEF LeavesByLanding, Positions
  <1>4. ASSUME NEW a \in Accounts, NEW rec, NEW done, Commit(a, rec, done)
        PROVE  \A b \in Accounts : disk'[b] = disk[b] \/ (b = a /\ disk'[b] = rec)
    <2>1. disk' = disk \/ disk' = [disk EXCEPT ![a] = rec]
      BY <1>4 DEF Commit, Images
    <2> QED
      BY <1>1, <2>1
  <1>5. CASE Reserve
    <2>1. op.tag \in Accounts /\ mem = disk
      BY <1>1, <1>5, OperationParts DEF Reserve, KeyInv, MemIsDisk, OperationIsLive
    <2>2. disk[op.tag].pending = None
      BY <1>5, <2>1 DEF Reserve
    <2>3. \A b \in Accounts :
            disk'[b] = disk[b] \/ (b = op.tag /\ disk'[b] = Advanced(disk[b], op.digest))
      BY <1>4, <1>5, <2>1 DEF Reserve
    <2>4. Advanced(disk[op.tag], op.digest).wots_index = disk[op.tag].wots_index + 1
      BY DEF Advanced
    <2>5. \A b \in Accounts : disk'[b].wots_index >= disk[b].wots_index
      BY <1>2, <2>1, <2>3, <2>4 DEF Positions
    <2> QED
      BY <2>2, <2>3, <2>5 DEF LeavesByLanding
  <1>6. CASE Settle
    <2>1. /\ op.tag \in Accounts
          /\ mem = disk
          /\ disk[op.tag].pending.spent_index < reached[op.tag]
      BY <1>6, SettleObserved
    <2>2. \A b \in Accounts : disk'[b] = disk[b] \/ (b = op.tag /\ disk'[b] = Settled(disk[b]))
      BY <1>4, <1>6, <2>1 DEF Settle
    <2>3. \A b \in Accounts : Settled(disk[b]).wots_index = disk[b].wots_index
      BY DEF Settled
    <2>4. \A b \in Accounts : disk'[b].wots_index >= disk[b].wots_index
      BY <1>2, <2>2, <2>3 DEF Positions
    <2> QED
      BY <2>1, <2>2, <2>4 DEF LeavesByLanding
  <1>7. CASE AdvanceTo
    <2>1. /\ op.tag \in Accounts
          /\ op.index \in Positions
          /\ mem = disk
          /\ disk[op.tag].pending = None
          /\ op.index > disk[op.tag].wots_index
      BY <1>1, <1>7, OperationParts DEF AdvanceTo, KeyInv, MemIsDisk, OperationIsLive
    <2>2. \A b \in Accounts : disk'[b] = disk[b] \/ (b = op.tag /\ disk'[b] = AdvancedTo(op.index))
      BY <1>4, <1>7, <2>1 DEF AdvanceTo
    <2> QED
      BY <1>2, <2>1, <2>2 DEF LeavesByLanding, AdvancedTo, Positions
  <1>8. CASE Ledger \/ UNCHANGED vars
    BY <1>3, <1>8 DEF Ledger, Land, Deposit, Reorg, ForeignSpend, Tick, vars
  <1> QED
    BY <1>3, <1>5, <1>6, <1>7, <1>8
    DEF Next, Wallet, OpenStore, BeginGate, FinishGate, Stop, GateAccount, Plan,
        RecheckPlan, ReadEntryAgain, Sign, Submit, PrintArtifact, Resign,
        ObserveLanded, ObserveAhead, SubmitSaved, ResubmitSettled

\* The position never moves back, and a reservation leaves the record only as
\* its own settled block, after the ledger has been past its key.
THEOREM ReservationLeavesByLandingHolds == Spec => ReservationLeavesByLanding
  <1>1. TypeInv /\ KeyInv /\ LedgerInv /\ [Next]_vars => [LeavesByLanding]_vars
    BY LandingStep
  <1>2. [LeavesByLanding]_vars =>
          [\A a \in Accounts :
             /\ disk'[a].wots_index >= disk[a].wots_index
             /\ disk[a].pending # None /\ disk'[a] # disk[a] =>
                  /\ disk'[a] = Settled(disk[a])
                  /\ disk[a].pending.spent_index < reached[a]]_vars
    BY DEF LeavesByLanding
  <1> QED
    BY <1>1, <1>2, StoreAndLedgerAgree, PTL DEF Spec, ReservationLeavesByLanding

-----------------------------------------------------------------------------
(***************************************************************************)
(* The gate.  A wallet is open only once every account has its answer, and  *)
(* the partition is fixed for as long as it is.                             *)
(***************************************************************************)

GateInv ==
  /\ phase = "open" => \A a \in Accounts : gate[a] # "unasked"
  /\ op.pc \notin {"idle", "advancing"} => phase = "open"
  /\ op.pc \in {"rechecked", "verified", "reserved"} => RequireReconciled(op.tag)

\* Nothing is in progress at the start.
LEMMA GateInit == Init => GateInv
  BY DEF Init, Idle, GateInv

\* Every handler keeps the gate's invariant: an operation that may sign was
\* begun in an open wallet, for an account the gate reconciled.
LEMMA GateStep == TypeInv /\ KeyInv /\ GateInv /\ [Next]_vars => GateInv'
  <1> SUFFICES ASSUME TypeInv, KeyInv, GateInv, [Next]_vars PROVE GateInv'
    OBVIOUS
  <1> USE DEF storeVars, ledgerVars, RequireReconciled, Diverged
  <1>1. op \in Operation /\ gate \in [Accounts -> OkStatus \cup Divergences \cup {"unasked"}]
    BY DEF TypeInv, TypeOK
  <1>2. Idle.pc = "idle"
    BY DEF Idle
  <1>3. \A pc, t, d, i : At(pc, t, d, i).pc = pc /\ At(pc, t, d, i).tag = t
    BY DEF At
  <1>4. CASE OpenStore
    BY <1>4 DEF OpenStore, GateInv, KeyInv, OperationIsLive
  <1>5. CASE BeginGate
    BY <1>2, <1>5 DEF BeginGate, GateInv
  <1>6. ASSUME NEW a \in Accounts, GateAccount(a) PROVE GateInv'
    BY <1>6 DEF GateAccount, GateInv, KeyInv, OperationIsLive
  <1>7. CASE FinishGate
    BY <1>7 DEF FinishGate, GateInv, KeyInv, OperationIsLive
  <1>8. CASE Stop
    BY <1>2, <1>8 DEF Stop, GateInv
  <1>9. CASE RecheckPlan
    BY <1>3, <1>9 DEF RecheckPlan, GateInv
  <1>10. CASE ReadEntryAgain
    <2>1. /\ op' = Idle \/ (op'.pc = "verified" /\ op'.tag = op.tag)
          /\ op.pc = "rechecked"
          /\ UNCHANGED <<gate, phase>>
      BY <1>1, <1>2, <1>10 DEF ReadEntryAgain, Operation
    <2> QED
      BY <1>2, <2>1 DEF GateInv
  <1>11. CASE Reserve
    BY <1>2, <1>3, <1>11 DEF Reserve, Commit, GateInv
  <1>12. CASE Sign
    BY <1>3, <1>12 DEF Sign, GateInv
  <1>13. CASE Submit
    <2>1. op.pc = "signed" /\ op'.pc = "submitted" /\ UNCHANGED <<gate, phase>>
      BY <1>1, <1>2, <1>13 DEF Submit, Operation
    <2> QED
      BY <2>1 DEF GateInv
  <1>14. CASE PrintArtifact
    BY <1>2, <1>14 DEF PrintArtifact, GateInv
  <1>15. ASSUME NEW a \in Accounts, NEW c \in Costs, NEW x \in Expiries, Resign(a, c, x)
         PROVE  GateInv'
    BY <1>3, <1>15 DEF Resign, GateInv
  <1>16. ASSUME NEW a \in Accounts, ObserveLanded(a) PROVE GateInv'
    BY <1>3, <1>16 DEF ObserveLanded, GateInv
  <1>17. CASE Settle
    BY <1>2, <1>17 DEF Settle, Commit, GateInv
  <1>18. ASSUME NEW a \in Accounts, NEW t \in Positions, ObserveAhead(a, t)
         PROVE  GateInv'
    BY <1>3, <1>18 DEF ObserveAhead, GateInv
  <1>19. CASE AdvanceTo
    BY <1>2, <1>19 DEF AdvanceTo, Commit, GateInv
  <1>20. CASE UNCHANGED <<gate, phase, op>>
    BY <1>20 DEF GateInv
  <1> QED
    BY <1>4, <1>5, <1>6, <1>7, <1>8, <1>9, <1>10, <1>11, <1>12, <1>13, <1>14,
       <1>15, <1>16, <1>17, <1>18, <1>19, <1>20
    DEF Next, Wallet, Ledger, Plan, SubmitSaved, ResubmitSettled, Land, Deposit,
        Reorg, ForeignSpend, Tick, vars

\* What a releasing step needs of the gate.
GatePassed ==
  \A s \in signed' \ signed :
    phase = "open" /\ gate[s.tag] \in {"InSync", "SpendOutstanding", "SpendLanded"}

\* A step that releases a signature is one of such an operation, or resign's
\* own check of the gate.
LEMMA GatePassedStep ==
  ASSUME TypeInv, GateInv, [Next]_vars
  PROVE  GatePassed
  <1>1. op \in Operation /\ gate \in [Accounts -> OkStatus \cup Divergences \cup {"unasked"}]
    BY DEF TypeInv, TypeOK
  <1>2. CASE Sign
    <2>1. op.tag \in Accounts /\ phase = "open" /\ RequireReconciled(op.tag)
      BY <1>1, <1>2, OperationParts DEF Sign, GateInv
    <2>2. \A s \in signed' \ signed : s.tag = op.tag
      BY <1>2 DEF Sign
    <2> QED
      BY <1>1, <2>1, <2>2 DEF GatePassed, GateInv, RequireReconciled, Diverged, OkStatus
  <1>3. ASSUME NEW a \in Accounts, NEW c \in Costs, NEW x \in Expiries, Resign(a, c, x)
        PROVE  GatePassed
    <2>1. phase = "open" /\ RequireReconciled(a)
      BY <1>3 DEF Resign
    <2>2. \A s \in signed' \ signed : s.tag = a
      BY <1>3 DEF Resign
    <2> QED
      BY <1>1, <2>1, <2>2 DEF GatePassed, GateInv, RequireReconciled, Diverged, OkStatus
  <1>4. CASE UNCHANGED signed
    BY <1>4 DEF GatePassed
  <1> QED
    BY <1>2, <1>3, <1>4
    DEF Next, Wallet, Ledger, OpenStore, BeginGate, FinishGate, Stop, GateAccount,
        Plan, RecheckPlan, ReadEntryAgain, Reserve, Submit, PrintArtifact,
        ObserveLanded, Settle, ObserveAhead, AdvanceTo, SubmitSaved, ResubmitSettled,
        Land, Deposit, Reorg, ForeignSpend, Tick, vars

\* I4: a signature is released only under a gate that compared its account with
\* the ledger and found the ledger where the record says.
THEOREM SignaturesPassTheGateHolds == Spec => SignaturesPassTheGate
  <1>1. TypeInv /\ KeyInv /\ GateInv /\ [Next]_vars
          => (TypeInv /\ KeyInv /\ GateInv)' /\ [GatePassed]_vars
    BY TypeStep, KeyStep, GateStep, GatePassedStep
  <1>2. [GatePassed]_vars =>
          [\A s \in signed' \ signed :
             phase = "open"
             /\ gate[s.tag] \in {"InSync", "SpendOutstanding", "SpendLanded"}]_vars
    BY DEF GatePassed
  <1> QED
    BY <1>1, <1>2, TypeInit, KeyInit, GateInit, PTL DEF Spec, SignaturesPassTheGate

=============================================================================
