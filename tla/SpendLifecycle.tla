--------------------------- MODULE SpendLifecycle ---------------------------
(***************************************************************************)
(* The life of a spend in the wallet: plan, recheck, reserve, sign, submit, *)
(* then settle -- or, after a crash, sign the same spend again -- over one  *)
(* keystore, for a ledger that moves underneath.  A WOTS+ key may sign one  *)
(* digest in its life, so the order of the durable write and the signature  *)
(* is what the whole program is about.                                      *)
(*                                                                          *)
(* Sources: wallet.rs (the session), keystore/mod.rs (the records and the   *)
(* commit), keystore/sign.rs (the two routes to a signature), recon.rs (the *)
(* comparison with the ledger).                                             *)
(*                                                                          *)
(* The commit is one step here: it completes, or it fails with the file at  *)
(* the old image or at the new one, and the handle is poisoned.  The        *)
(* modules of the storage layer say what a commit is made of.               *)
(*                                                                          *)
(* A digest is a record of what it commits to: the account's tag, the       *)
(* position of the source key, the total the spend takes (destinations,     *)
(* amounts and fee together), the balance it was planned against (the       *)
(* change is the rest of it) and the block-to-live.                         *)
(***************************************************************************)
EXTENDS Integers, Sequences

CONSTANTS
  Accounts,       \* the tags the store holds
  None,           \* no reservation, no plan
  MaxIndex,       \* the last key position: u32::MAX in the code
  Costs,          \* what a spend may take in all
  MaxBalance,     \* bound of a ledger balance
  Expiries,       \* the block-to-live values asked for; 0 is "no expiry"
  ExpiryWindow,   \* how far past the tip an expiry may lie: 256 in the code
  MaxTip,         \* bound of the block height
  ScanWindow,     \* DIVERGENCE_WINDOW, 20 in the code
  ScanCeiling,    \* RECOVERY_CEILING, 10000 in the code
  Deposits,       \* deposits: "any", or "idle" (none while a spend is on its
                  \* way, and none into a key the store has moved past)
  ReorgDepth,     \* how many landed spends of a tag the ledger may revert
  Foreign         \* whether another copy of the seed spends

Positions == 0 .. MaxIndex

SpendablePositions == 0 .. MaxIndex - 1

Digest ==
  {d \in [tag : Accounts, from : SpendablePositions, cost : Costs,
          balance : 0 .. MaxBalance, blk_to_live : Expiries] : d.cost <= d.balance}

Reservation == [spent_index : SpendablePositions, digest : Digest]

Record == [wots_index : Positions,
           pending : Reservation \cup {None},
           settled : Reservation \cup {None}]

ASSUME ConstantsAssumption ==
  /\ MaxIndex \in Nat \ {0}
  /\ MaxBalance \in Nat
  /\ MaxTip \in Nat
  /\ ExpiryWindow \in Nat
  /\ ScanWindow \in Nat
  /\ ScanCeiling \in Nat
  /\ Costs \subseteq Nat \ {0}
  /\ Expiries \subseteq Nat
  /\ Deposits \in {"any", "idle"}
  /\ ReorgDepth \in Nat
  /\ Foreign \in BOOLEAN

ASSUME NoneAssumption ==
  /\ None \notin Reservation
  /\ None \notin Digest
  /\ None \notin Accounts

VARIABLES
  disk,      \* what opening the store reads: a Record per account
  phase,     \* of the one process that holds the store's lock
  mem,       \* the handle's copy of the records
  gate,      \* what Wallet::open made of each account
  plan,      \* the plan the caller holds, if any
  op,        \* the operation in progress, between two of its steps
  signed,    \* every signature ever released (history)
  saved,     \* the digests whose signed bytes the operator holds
  mempool,   \* the digests the network holds and has not mined
  chain,     \* per account, its balance at each key position so far
  reached,   \* the furthest key position the ledger ever showed (history)
  tip        \* the block height

storeVars  == <<disk, phase, mem>>
ledgerVars == <<mempool, chain, reached, tip>>
vars == <<disk, phase, mem, gate, plan, op, signed, saved, mempool, chain,
          reached, tip>>

Phases == {"down", "store", "gating", "open", "poisoned"}

(***************************************************************************)
(* "store": the keystore is open, no wallet is built over it (the commands  *)
(* decided before the gate).  "gating": Wallet::open is asking.  "open":    *)
(* the wallet is built.  "poisoned": a commit failed.                       *)
(***************************************************************************)
Signature == [tag : Accounts, key : SpendablePositions, digest : Digest]

Idle == [pc |-> "idle", tag |-> None, digest |-> None, index |-> 0]
Operation ==
  {Idle}
    \cup [pc : {"rechecked", "verified", "reserved", "signed", "submitted"},
          tag : Accounts, digest : Digest, index : Positions]
    \cup [pc : {"settling", "advancing"},
          tag : Accounts, digest : {None}, index : Positions]

At(pc, tag, digest, index) ==
  [pc |-> pc, tag |-> tag, digest |-> digest, index |-> index]

Init ==
  /\ disk = [a \in Accounts |-> [wots_index |-> 0, pending |-> None, settled |-> None]]
  /\ mem = disk
  /\ phase = "down"
  /\ gate = [a \in Accounts |-> "unasked"]
  /\ plan = None
  /\ op = Idle
  /\ signed = {}
  /\ saved = {}
  /\ mempool = {}
  /\ chain = [a \in Accounts |-> <<MaxBalance>>]
  /\ reached = [a \in Accounts |-> 0]
  /\ tip = 0

-----------------------------------------------------------------------------
(* The ledger: one entry per tag, the key position it sits at and a balance. *)

ChainKey(a) == Len(chain[a]) - 1
ChainBalance(a) == chain[a][Len(chain[a])]

\* A node's answers.  It says "not found" of a tag at zero balance, and of a
\* lookup that failed; and it may not answer.
Answers(a) ==
  {[kind |-> k, key |-> 0, balance |-> 0] : k \in {"not_found", "unreachable"}}
    \cup
  {[kind |-> "entry", key |-> ChainKey(a), balance |-> b] :
      b \in {ChainBalance(a)} \ {0}}

Entries(a) == {ans \in Answers(a) : ans.kind = "entry"}

\* The walk of recon.rs reaches the window around the local position, its high
\* edge one short of the last position, and the positions below the ceiling.
InScope(local, p) ==
  \/ local - ScanWindow <= p /\ p <= local + ScanWindow /\ p <= MaxIndex - 1
  \/ p < ScanCeiling

\* Where a walk from the local position finds the ledger's.
Locate(local, p) ==
  IF ~InScope(local, p) THEN "Unlocated"
  ELSE IF p > local THEN "Ahead" ELSE "Behind"

\* An account with a reservation, the ledger at a key.
ReservationAt(rec, key) ==
  CASE key = rec.pending.spent_index -> "SpendOutstanding"
    [] key = rec.wots_index          -> "SpendLanded"
    [] OTHER                         -> "ReservationUnexplained"

Reconcile(rec, ans) ==
  CASE ans.kind = "not_found"   -> "TagUnresolved"
    [] ans.kind = "unreachable" -> "ChainUnreachable"
    [] ans.kind = "entry" /\ rec.pending # None -> ReservationAt(rec, ans.key)
    [] OTHER -> IF ans.key = rec.wots_index THEN "InSync" ELSE "IndexMismatch"

OkStatus == {"InSync", "SpendOutstanding", "SpendLanded"}
Divergences == {"TagUnresolved", "ChainUnreachable", "IndexMismatch",
                "ReservationUnexplained"}
Diverged == {a \in Accounts : gate[a] \in Divergences}

-----------------------------------------------------------------------------
(***************************************************************************)
(* Variants.  Each is what a plausible mistake would make of the definition *)
(* named beside it; putting it in that one's place must break a property.   *)
(***************************************************************************)

\* of CanAdvance: the last position may be advanced from.
CanAdvanceAtCeiling(i) == i <= MaxIndex

\* of Images: the call returns before the write is durable.
ImagesUnsynced(a, rec) == {disk, [disk EXCEPT ![a] = rec]}

\* of Advanced: the settled block is kept beside the new reservation.
AdvancedKeepingSettled(rec, d) ==
  [rec EXCEPT !.wots_index = rec.wots_index + 1,
              !.pending = [spent_index |-> rec.wots_index, digest |-> d]]

\* of Landed: a reservation the ledger has not taken counts.
LandedOrOutstanding(rec, ans) ==
  Reconcile(rec, ans) \in {"SpendLanded", "SpendOutstanding"}

\* of RequireReconciled: the gate's partition is not consulted.
RequireNothing(a) == a \in Accounts

\* of PlanIsCurrent: the position is not compared with the store's.
PlanIsOfAccount(d) == d.tag \in Accounts

\* of EntryIsPlans: the balance is not compared with the plan's.
EntryIsAtKey(ans, d) == ans.kind = "entry" /\ ans.key = mem[d.tag].wots_index

\* of Resignable: the rebuilt plan is not compared with the reserved digest.
AnyRebuilt(d, pending) == d.from = pending.spent_index

\* of TargetAgrees: any target beyond the ledger's position will do.
TargetReaches(target, key) == key <= target

\* of Reverted: the ledger is looked for at the local position.
RevertedAtIndex(rec, ans) ==
  /\ ans.key = rec.wots_index
  /\ ans.balance = rec.settled.digest.balance

-----------------------------------------------------------------------------
(* The keystore's commit: whole image, then memory, and poison on an error. *)

\* What a restart may find once the commit has returned.
Images(a, rec) == {[disk EXCEPT ![a] = rec]}

Commit(a, rec, done) ==
  \/ /\ disk' \in Images(a, rec)
     /\ mem' = [mem EXCEPT ![a] = rec]
     /\ op' = done
     /\ UNCHANGED phase
  \/ /\ disk' \in {disk, [disk EXCEPT ![a] = rec]}
     /\ phase' = "poisoned"
     /\ op' = Idle
     /\ UNCHANGED mem

\* The next position exists: WotsIndex::advanced refuses at u32::MAX.
CanAdvance(i) == i < MaxIndex

\* What persist_advance, persist_settled and persist_advance_to write.
Advanced(rec, d) ==
  [wots_index |-> rec.wots_index + 1,
   pending |-> [spent_index |-> rec.wots_index, digest |-> d],
   settled |-> None]
Settled(rec) ==
  [wots_index |-> rec.wots_index, pending |-> None, settled |-> rec.pending]
AdvancedTo(target) ==
  [wots_index |-> target, pending |-> None, settled |-> None]

\* The guards of a spend: spend_addresses refuses an open reservation and the
\* last position; require_reconciled refuses an account the gate set aside.
MaySpend(a) == mem[a].pending = None /\ CanAdvance(mem[a].wots_index)
RequireReconciled(a) == a \notin Diverged

-----------------------------------------------------------------------------
(* The process: one holder of the store's lock at a time. *)

OpenStore ==
  /\ phase = "down"
  /\ phase' = "store"
  /\ mem' = disk
  /\ UNCHANGED <<disk, gate, plan, op, signed, saved, ledgerVars>>

BeginGate ==
  /\ phase = "store"
  /\ op = Idle
  /\ phase' = "gating"
  /\ UNCHANGED <<disk, mem, gate, plan, op, signed, saved, ledgerVars>>

\* One account's turn.  The code asks in tag order; nothing an answer decides
\* depends on the order, so any account not yet asked may be next.
GateAccount(a) ==
  /\ phase = "gating"
  /\ gate[a] = "unasked"
  /\ \E ans \in Answers(a) :
       gate' = [gate EXCEPT ![a] = Reconcile(mem[a], ans)]
  /\ UNCHANGED <<plan, op, signed, saved, storeVars, ledgerVars>>

\* The wallet is built over whatever reconciled, and refused outright only
\* when nothing did.
FinishGate ==
  /\ phase = "gating"
  /\ \A a \in Accounts : gate[a] # "unasked"
  /\ \/ /\ Diverged # Accounts
        /\ phase' = "open"
        /\ UNCHANGED gate
     \/ /\ Diverged = Accounts
        /\ phase' = "store"
        /\ gate' = [a \in Accounts |-> "unasked"]
  /\ UNCHANGED <<disk, mem, plan, op, signed, saved, ledgerVars>>

\* The process ends, at any point, for any reason.  What it held is gone; a
\* signature not yet printed with it.
Stop ==
  /\ phase # "down"
  /\ phase' = "down"
  /\ mem' = disk
  /\ gate' = [a \in Accounts |-> "unasked"]
  /\ plan' = None
  /\ op' = Idle
  /\ UNCHANGED <<disk, signed, saved, ledgerVars>>

-----------------------------------------------------------------------------
(* send: plan, recheck, reserve, sign, submit, print. *)

\* What SpendPlan::new builds from the account's two addresses and the entry.
PlanDigest(a, position, cost, ans, exp) ==
  [tag |-> a, from |-> position, cost |-> cost, balance |-> ans.balance,
   blk_to_live |-> exp]

Plan(a, cost, exp) ==
  /\ phase = "open"
  /\ op = Idle
  /\ RequireReconciled(a)
  /\ MaySpend(a)
  /\ \E ans \in Entries(a) :
       /\ ans.key = mem[a].wots_index
       /\ cost <= ans.balance
       /\ plan' = PlanDigest(a, mem[a].wots_index, cost, ans, exp)
  /\ UNCHANGED <<gate, op, signed, saved, storeVars, ledgerVars>>

PlanIsCurrent(d) == d.from = mem[d.tag].wots_index

\* reserve_and_sign, up to the tip read: the plan against the store, the
\* expiry against the height.
RecheckPlan ==
  /\ phase = "open"
  /\ op = Idle
  /\ plan # None
  /\ RequireReconciled(plan.tag)
  /\ MaySpend(plan.tag)
  /\ PlanIsCurrent(plan)
  /\ plan.blk_to_live # 0 => plan.blk_to_live - tip \in 1 .. ExpiryWindow
  /\ op' = At("rechecked", plan.tag, plan, 0)
  /\ UNCHANGED <<gate, plan, signed, saved, storeVars, ledgerVars>>

EntryIsPlans(ans, d) ==
  /\ ans.kind = "entry"
  /\ ans.key = mem[d.tag].wots_index
  /\ ans.balance = d.balance

\* The second read of the ledger: the entry must be the plan's, or the send
\* is refused with the key unused.
ReadEntryAgain ==
  /\ op.pc = "rechecked"
  /\ \E ans \in Answers(op.tag) :
       op' = IF EntryIsPlans(ans, op.digest) THEN [op EXCEPT !.pc = "verified"]
             ELSE Idle
  /\ UNCHANGED <<gate, plan, signed, saved, storeVars, ledgerVars>>

\* persist_advance: the reservation and the index in one image; the receipt
\* it returns attests the new index.
Reserve ==
  /\ op.pc = "verified"
  /\ mem[op.tag].pending = None
  /\ CanAdvance(mem[op.tag].wots_index)
  /\ Commit(op.tag, Advanced(mem[op.tag], op.digest),
            At("reserved", op.tag, op.digest, mem[op.tag].wots_index + 1))
  /\ UNCHANGED <<gate, plan, signed, saved, ledgerVars>>

\* sign_spend: the receipt must name the live index, and the reservation the
\* position before it and this digest.
Sign ==
  /\ op.pc = "reserved"
  /\ LET rec == mem[op.tag] IN
       /\ rec.wots_index = op.index
       /\ rec.pending # None
       /\ rec.pending.spent_index + 1 = op.index
       /\ rec.pending.digest = op.digest
       /\ signed' = signed \cup
            {[tag |-> op.tag, key |-> rec.pending.spent_index, digest |-> op.digest]}
  /\ op' = At("signed", op.tag, op.digest, 0)
  /\ UNCHANGED <<gate, plan, saved, storeVars, ledgerVars>>

\* The submission is a socket write: it may not arrive.
Submit ==
  /\ op.pc = "signed"
  /\ mempool' \in {mempool, mempool \cup {op.digest}}
  /\ op' = [op EXCEPT !.pc = "submitted"]
  /\ UNCHANGED <<gate, plan, signed, saved, storeVars, chain, reached, tip>>

\* The page with the signed bytes is printed after the submission, whatever
\* came of it.
PrintArtifact ==
  /\ op.pc = "submitted"
  /\ saved' = saved \cup {op.digest}
  /\ op' = Idle
  /\ UNCHANGED <<gate, plan, signed, storeVars, ledgerVars>>

-----------------------------------------------------------------------------
(* resign: the reserved spend's bytes again, from the store's reservation.  *)

\* The rebuilt plan must have the reserved digest.
Resignable(d, pending) == d = pending.digest

\* The operator names the spend; the plan is rebuilt at the reserved position
\* over the balance the ledger holds there.
Resign(a, cost, exp) ==
  /\ phase = "open"
  /\ op = Idle
  /\ RequireReconciled(a)
  /\ mem[a].pending # None
  /\ LET pending == mem[a].pending IN
       \E ans \in Entries(a) :
         LET d == PlanDigest(a, pending.spent_index, cost, ans, exp) IN
         /\ ans.key = pending.spent_index
         /\ cost <= ans.balance
         /\ Resignable(d, pending)
         /\ signed' = signed \cup {[tag |-> a, key |-> pending.spent_index, digest |-> d]}
         /\ op' = At("signed", a, d, 0)
  /\ UNCHANGED <<gate, plan, saved, storeVars, ledgerVars>>

-----------------------------------------------------------------------------
(* settle: one observation of the change key, then one commit. *)

Landed(rec, ans) == Reconcile(rec, ans) = "SpendLanded"

\* settle_if_landed asks again and does not read the partition: an account the
\* gate set aside settles if the ledger says so now.
ObserveLanded(a) ==
  /\ phase = "open"
  /\ op = Idle
  /\ \E ans \in Answers(a) : Landed(mem[a], ans)
  /\ op' = At("settling", a, None, 0)
  /\ UNCHANGED <<gate, plan, signed, saved, storeVars, ledgerVars>>

Settle ==
  /\ op.pc = "settling"
  /\ mem[op.tag].pending # None
  /\ Commit(op.tag, Settled(mem[op.tag]), Idle)
  /\ UNCHANGED <<gate, plan, signed, saved, ledgerVars>>

-----------------------------------------------------------------------------
(* reconcile: advance past keys another copy of the seed spent. *)

TargetAgrees(target, key) == key = target

\* The comparison is made again at the write, and only a ledger ahead of the
\* store at the acknowledged target is advanced to.
ObserveAhead(a, target) ==
  /\ phase \in {"store", "open"}
  /\ op = Idle
  /\ \E ans \in Answers(a) :
       /\ Reconcile(mem[a], ans) = "IndexMismatch"
       /\ Locate(mem[a].wots_index, ans.key) = "Ahead"
       /\ TargetAgrees(target, ans.key)
  /\ op' = At("advancing", a, None, target)
  /\ UNCHANGED <<gate, plan, signed, saved, storeVars, ledgerVars>>

AdvanceTo ==
  /\ op.pc = "advancing"
  /\ mem[op.tag].pending = None
  /\ op.index > mem[op.tag].wots_index
  /\ Commit(op.tag, AdvancedTo(op.index), Idle)
  /\ UNCHANGED <<gate, plan, signed, saved, ledgerVars>>

-----------------------------------------------------------------------------
(* Saved artifacts. *)

\* `submit` opens no wallet: it sends whatever bytes it is given.
SubmitSaved(d) ==
  /\ d \in saved
  /\ d \notin mempool
  /\ mempool' = mempool \cup {d}
  /\ UNCHANGED <<gate, plan, op, signed, saved, storeVars, chain, reached, tip>>

\* The ledger is one position behind a settled spend and holds what that spend
\* was reserved against.
Reverted(rec, ans) ==
  /\ ans.key + 1 = rec.wots_index
  /\ ans.balance = rec.settled.digest.balance

\* resubmit_reverted_settle: the saved bytes of an unexpired settled spend the
\* ledger took back go out again.  No write.
ResubmitSettled(a) ==
  /\ phase \in {"store", "open"}
  /\ op = Idle
  /\ mem[a].pending = None
  /\ mem[a].settled # None
  /\ LET settled == mem[a].settled IN
     /\ settled.digest \in saved
     /\ \E ans \in Entries(a) : Reverted(mem[a], ans)
     /\ settled.digest.blk_to_live # 0 => tip < settled.digest.blk_to_live
     /\ mempool' = mempool \cup {settled.digest}
  /\ UNCHANGED <<gate, plan, op, signed, saved, storeVars, chain, reached, tip>>

-----------------------------------------------------------------------------
(* The ledger's own steps (not this repository's code). *)

MaxOf(m, n) == IF m < n THEN n ELSE m

Moves(a, entries) ==
  /\ chain' = [chain EXCEPT ![a] = entries]
  /\ reached' = [reached EXCEPT ![a] = MaxOf(@, Len(entries) - 1)]

\* A transaction is accepted from the current key of its tag, for the whole
\* balance it was built against, before it expires.
Land(d) ==
  /\ d \in mempool
  /\ d.from = ChainKey(d.tag)
  /\ d.balance = ChainBalance(d.tag)
  /\ d.blk_to_live # 0 => tip < d.blk_to_live
  /\ Moves(d.tag, Append(chain[d.tag], d.balance - d.cost))
  /\ mempool' = mempool \ {d}
  /\ UNCHANGED <<gate, plan, op, signed, saved, tip, storeVars>>

\* Anyone may pay into a tag; the current entry grows.
DepositAllowed(a) ==
  \/ Deposits = "any"
  \/ /\ disk[a].pending = None
     /\ op = Idle
     /\ ChainKey(a) = disk[a].wots_index
  \/ ChainBalance(a) = 0

Deposit(a) ==
  /\ DepositAllowed(a)
  /\ ChainBalance(a) < MaxBalance
  /\ Moves(a, [chain[a] EXCEPT ![Len(chain[a])] = @ + 1])
  /\ UNCHANGED <<gate, plan, op, signed, saved, mempool, tip, storeVars>>

\* A landed spend is reverted and its transaction forgotten by the nodes.
Reorg(a) ==
  /\ Len(chain[a]) > 1
  /\ reached[a] - ChainKey(a) < ReorgDepth
  /\ Moves(a, SubSeq(chain[a], 1, Len(chain[a]) - 1))
  /\ UNCHANGED <<gate, plan, op, signed, saved, mempool, tip, storeVars>>

\* Another copy of the seed spends from the current key.
ForeignSpend(a) ==
  /\ Foreign
  /\ Len(chain[a]) - 1 < MaxIndex
  /\ ChainBalance(a) > 0
  /\ Moves(a, Append(chain[a], ChainBalance(a) - 1))
  /\ UNCHANGED <<gate, plan, op, signed, saved, mempool, tip, storeVars>>

Tick ==
  /\ tip < MaxTip
  /\ tip' = tip + 1
  /\ UNCHANGED <<gate, plan, op, signed, saved, mempool, chain, reached, storeVars>>

-----------------------------------------------------------------------------
Wallet ==
  \/ OpenStore \/ BeginGate \/ FinishGate \/ Stop
  \/ \E a \in Accounts : GateAccount(a)
  \/ \E a \in Accounts, c \in Costs, x \in Expiries : Plan(a, c, x)
  \/ RecheckPlan \/ ReadEntryAgain \/ Reserve \/ Sign \/ Submit \/ PrintArtifact
  \/ \E a \in Accounts, c \in Costs, x \in Expiries : Resign(a, c, x)
  \/ \E a \in Accounts : ObserveLanded(a)
  \/ Settle
  \/ \E a \in Accounts, t \in Positions : ObserveAhead(a, t)
  \/ AdvanceTo
  \/ \E d \in saved : SubmitSaved(d)
  \/ \E a \in Accounts : ResubmitSettled(a)

Ledger ==
  \/ \E d \in mempool : Land(d)
  \/ \E a \in Accounts : Deposit(a) \/ Reorg(a) \/ ForeignSpend(a)
  \/ Tick

Next == Wallet \/ Ledger

Spec == Init /\ [][Next]_vars

(***************************************************************************)
(* What progress needs from outside the code: an operator who keeps         *)
(* running the commands, a disk and a network that work again and again, a  *)
(* ledger that mines what it accepts, and someone who pays into an emptied  *)
(* account.  The process may still stop at every step, any number of times. *)
(***************************************************************************)
EntryAtGate(a) == GateAccount(a) /\ gate'[a] \notin {"TagUnresolved", "ChainUnreachable"}
Written(A) == A /\ phase' # "poisoned"

\* An operation begun goes on to its next step, or its process ends.
Continue ==
  \/ ReadEntryAgain \/ Reserve \/ Sign \/ Submit \/ PrintArtifact \/ Settle \/ AdvanceTo
  \/ op # Idle /\ Stop

Fairness ==
  /\ WF_vars(Continue)
  /\ WF_vars(OpenStore) /\ SF_vars(BeginGate)
  /\ WF_vars(FinishGate) /\ SF_vars(FinishGate /\ phase' = "open")
  /\ WF_vars(Stop /\ phase \in {"store", "open", "poisoned"} /\ op = Idle)
  /\ \A a \in Accounts :
       /\ SF_vars(EntryAtGate(a))
       /\ SF_vars(\E c \in Costs, x \in Expiries : Resign(a, c, x))
       /\ SF_vars(ObserveLanded(a))
       /\ SF_vars(ResubmitSettled(a))
       /\ WF_vars(ChainBalance(a) = 0 /\ Deposit(a))
  /\ SF_vars(Written(Settle))
  /\ SF_vars(Submit /\ mempool' = mempool \cup {op.digest})
  /\ SF_vars(PrintArtifact)
  /\ \A d \in Digest : WF_vars(Land(d))

FairSpec == Spec /\ Fairness

-----------------------------------------------------------------------------
(* Properties. *)

\* Every variable has its type; in particular an index never passes the last
\* position and a plan or an operation names a digest of this wallet.
TypeOK ==
  /\ disk \in [Accounts -> Record]
  /\ mem \in [Accounts -> Record]
  /\ phase \in Phases
  /\ gate \in [Accounts -> OkStatus \cup Divergences \cup {"unasked"}]
  /\ plan \in Digest \cup {None}
  /\ op \in Operation
  /\ signed \subseteq Signature
  /\ saved \subseteq Digest
  /\ mempool \subseteq Digest
  /\ chain \in [Accounts -> Seq(0 .. MaxBalance)]
  /\ reached \in [Accounts -> Positions]
  /\ tip \in 0 .. MaxTip

\* I1: one WOTS+ key signs at most one digest, whatever crashes, failed
\* commits, stale plans and repeated signings of a reservation come between.
OneDigestPerKey ==
  \A s, t \in signed :
    s.tag = t.tag /\ s.key = t.key => s.digest = t.digest

\* I2: a key that has signed is below the position the disk holds, so no
\* restart can find it unused.
SignedKeysAreBehindDisk ==
  \A s \in signed : s.key < disk[s.tag].wots_index

\* A released signature is under the key its own digest names as source: a
\* plan gone stale while the store moved on is never signed by a later key.
SignatureIsUnderItsSource ==
  \A s \in signed : s.digest.from = s.key /\ s.digest.tag = s.tag

\* I3: index, reservation and retained settle agree in whatever image a
\* restart finds: never both blocks, either one exactly one position back,
\* and naming a digest of that position.
BlocksAgreeWithIndex ==
  \A a \in Accounts :
    LET rec == disk[a] IN
    /\ rec.pending = None \/ rec.settled = None
    /\ \A b \in {rec.pending, rec.settled} \ {None} :
         /\ b.spent_index + 1 = rec.wots_index
         /\ b.digest.from = b.spent_index
         /\ b.digest.tag = a

\* A signed spend is never forgotten: until the ledger has moved past its key,
\* the durable record still holds its reservation, and with it the way to the
\* same bytes again.
NoSignedSpendForgotten ==
  \A s \in signed :
    \/ s.key < reached[s.tag]
    \/ /\ disk[s.tag].pending # None
       /\ disk[s.tag].pending.digest = s.digest

\* The store never moves past a key without a spend the ledger took from it:
\* only a reserved key is ahead of the ledger, so no balance is left behind at
\* a position the wallet cannot go back to.
NoKeyIsAbandoned ==
  \A a \in Accounts :
    disk[a].wots_index <= reached[a] + (IF disk[a].pending # None THEN 1 ELSE 0)

\* I4: a signature is released only in a session whose gate compared the
\* account with the ledger and found the ledger where the record says.
SignaturesPassTheGate ==
  [][\A s \in signed' \ signed :
       phase = "open" /\ gate[s.tag] \in {"InSync", "SpendOutstanding", "SpendLanded"}]_vars

\* The durable position never moves back, and a standing reservation is
\* replaced by nothing but its own settled block, and that only once the
\* ledger has been past its key.
ReservationLeavesByLanding ==
  [][\A a \in Accounts :
       /\ disk'[a].wots_index >= disk[a].wots_index
       /\ disk[a].pending # None /\ disk'[a] # disk[a] =>
            /\ disk'[a] = Settled(disk[a])
            /\ disk[a].pending.spent_index < reached[a]]_vars

ReorgsEnd == <>[][\A a \in Accounts : ~Reorg(a)]_vars

\* A reservation never wedges the account: whatever the crash left -- no
\* signature, a signature nobody saw, bytes never sent -- signing the same
\* reservation again, sending and settling bring the account back, once
\* reverting ends; unless the ledger took back an earlier spend or the balance
\* the reservation was made against.
TakenBack(a) ==
  /\ disk[a].pending # None
  /\ \/ ChainKey(a) < disk[a].pending.spent_index
     \/ /\ ChainKey(a) = disk[a].pending.spent_index
        /\ ChainBalance(a) < disk[a].pending.digest.balance

ReservationsResolve ==
  ReorgsEnd => \A a \in Accounts :
    (disk[a].pending # None) ~> (disk[a].pending = None \/ TakenBack(a))

\* A settle the ledger took back does not stay taken back: while the record
\* holds the settled block and the ledger sits at its key with the balance it
\* was reserved against, the saved bytes go out again and the ledger moves on,
\* once reverting ends.  (It may end otherwise: the ledger reverts further, or
\* a send that had read the ledger before puts its reservation over the block.)
SettleReverted(a) ==
  /\ disk[a].settled # None
  /\ disk[a].settled.digest \in saved
  /\ ChainKey(a) = disk[a].settled.spent_index
  /\ ChainBalance(a) = disk[a].settled.digest.balance

RevertedSettlesReturn ==
  ReorgsEnd => \A a \in Accounts : []<>~SettleReverted(a)

=============================================================================
