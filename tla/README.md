# A verification model of tawara, the command-line Mochimo wallet

The program (`crates/mochimo-crypto`) is a wallet for a ledger whose accounts
are WOTS+ keys: a key may sign **one** digest in its life, and a second one
gives the key away. So the wallet is a state machine about key positions: a
position must be durably used up before a signature under it exists, whatever
crashes, fails, is repeated or is cancelled in between. These modules state what
that means, TLC checks it on small instances, and TLAPS proves most of it
for every instance.

All paths below are under `src/crates/mochimo-crypto/src/`. The invariants I1 to
I5 are those of `docs/specification.md`.

## 1. The system

| Component | State it keeps | Operations | What must hold |
|---|---|---|---|
| Keystore (`keystore/mod.rs`) | lock, the records in memory, generation, poison | `create`, `open`, `adopt_master`, `add`, `persist_advance`, `persist_settled`, `persist_advance_to`; each one commit | whole images only; memory equals disk or the handle is poisoned; one history |
| Medium, directory, slots (`keystore/medium.rs`, `directory.rs`, `slots.rs`) | temp file and snapshot (Unix), two slot files (Windows) | write, flush, rename, flush the directory; write slot, flush slot, choose a slot | a `Durable` is never taken back; an image is always found |
| Signing (`keystore/sign.rs`) | none | `sign_spend` under a receipt, `resign_reserved` | I1, I2 |
| Accounts, spends (`account.rs`, `keystore/spend.rs`, `mesh/spend.rs`) | index, one reservation or one settled block | plan, digest, advance | I3 |
| Reconciliation (`recon.rs`) | none of its own | comparison, walk, guarded advance, restore scan, resubmission of a reverted settle; `Cancel` | I4; the store follows the ledger and never passes it |
| Wallet (`wallet.rs`) | the store, the gate's partition | `open`, `plan`, `reserve_and_sign`, `submit`, `settle_if_landed`, `resign_pending` | I4, no spend forgotten, no account wedged |
| Command line (`cli/`, `bin/tawara.rs`) | none between commands | every verb, from its arguments to its page | what the page says is what the disk holds and what was sent; no diverged account is passed over |
| Terminal (`bin/tawara.rs`) | the device's echo, which outlives a process | ask a secret, ask a visible line, put echo back | a secret is asked in silence, a confirmation in sight; the line taken is the line typed |
| Node client (`mesh/`) | none | resolve a tag, tip, blocks, queue, search, submit | an answer that is absent or damaged is refused, as is one about another tag; whether a block or a transaction is the one asked for is not checked |
| Spend and its bytes (`cli/args.rs`, `mesh/spend.rs`, `tx/wire.rs`) | none between commands | admit, plan, attach, write, read back | the plan is what the node takes; the bytes are the plan's |
| Keystore image (`keystore/format.rs`, `crypt.rs`) | the file | encode, frame, decrypt, parse, upgrade | what is written is read back; one nonce seals one image; no record is made up |
| Key streams (`derive.rs`, `account.rs`) | none | derive, import, reach a key | no two accounts reach one key |
| WOTS+ (`wots.rs`, `backend/`) | the address words a walk leaves | generate, sign, recover | recovery gives the key exactly over the signed digest |
| Encodings (`addr.rs`, `base58.rs`, `mnemonic/`, `mesh/hex.rs`) | none | bytes to bytes | vectors |

Interactions: a verb opens the keystore (which takes the directory's lock until
the process ends), asks the node about every account, and either builds the
wallet over what reconciled or, for `create`, `restore` and `reconcile`, works
before that gate. Every change of state is a commit of the whole image. The
ledger and the operator act at any time.

What is hard about it: a process dies between two steps of a commit or between a
commit and the signature it allows; a commit fails after its file is in place;
the ledger moves between two reads, takes blocks back, or is moved by another
copy of the seed; a submission is lost or repeated; two processes create in one
directory; a cancel arrives from another thread at any moment. `PROJECT.json`
lists each of these hazards at its line.

## 2. The modules

| Module | Models | Composed with |
|---|---|---|
| `SpendLifecycle` | records, commit as a unit, gate, plan, reserve, sign, submit, settle, resign, advance, resubmit; the ledger | the storage layer is abstracted to "done, or failed with the old or the new image" |
| `DurableStore` | what a commit promises: one growing history of which everything attested is a part | implemented by the next two |
| `SnapshotCommit` | Unix: create, open, the lock and the steps of a commit, several processes, kills, power cuts | `INSTANCE DurableStore WITH kept <- Kept` |
| `SlotCommit` | Windows: the two slots, torn and unflushed writes, open's choice and its flush, the crossing from the rename layout | `INSTANCE DurableStore WITH kept <- Kept` |
| `AdvanceReview` | `reconcile --advance-to`: comparison of every account, the searches, the cancel, the second comparison, the write | the commit as in `SpendLifecycle` |
| `StoreCreation` | `create` with its prompts and its three commits, `restore` with its scan, several processes | the commit as in `SpendLifecycle` |
| `SpendArtifact` | one spend as data: what is typed, the plan and its refusals, attach, the wire image written and read, `submit`, a second typing at `resign` | the account is reconciled and commits succeed: the states in between are `SpendLifecycle`'s |
| `WotsChains` | the WOTS+ digits and checksum, the chains, the address words, generation, signing, recovery | extended by `SpendArtifact` |
| `KeyStreams` | derivation, import, which account reaches which key, as operators | extended by `StoreImage` |
| `StoreImage` | the store's file: both versions, the reader's gates, upgrades, keys and nonces, `add` and the commits, copies, damage | extends `KeyStreams` |
| `Console` | the terminal on both platforms: echo and its guard, the two line reads | extended by `CommandRun` |
| `NodeReads` | the verbs that read a node over several requests, and a node that moves between them | extended by `CommandRun` |
| `CommandRun` | one run of the program: arguments, password, `decide`, every verb, its page | extends `Console` and `NodeReads` |
| `SpendLifecycleProofs`, `SnapshotCommitProofs`, `SlotCommitProofs`, `AdvanceReviewProofs`, `StoreCreationProofs`, `StoreImageProofs`, `CommandRunProofs`, `SpendArtifactProofs` | theorems | each extends its module; `SnapshotCommitProofs` proves those of `DurableStore`, `CommandRunProofs` those of `Console` and `NodeReads`, `SpendArtifactProofs` those of `WotsChains`, `StoreImageProofs` those of `KeyStreams` |

`MC*` modules only give TLC definitions a configuration needs. A definition
under the comment *Variant* (in the older modules, in the section *Variants*) is
what a plausible mistake would make of the definition it stands before; each
property is shown to break under one of them (`mutants` in `PROJECT.json`).

### SpendLifecycle

State: `disk` is what opening the store reads; `mem` the handle's copy; `phase`
the one process that holds the lock; `gate` what `Wallet::open` made of each
account; `plan` the caller's plan, which it may keep for as long as it likes;
`op` the operation between two of its steps (`rechecked`, `verified`,
`reserved`, `signed`, `submitted` are the points of `reserve_and_sign` and
`cmd_send` where a crash or the ledger can come between); `signed` and `reached`
are history. `saved` is what the operator holds on paper, `mempool` and `chain`
are the ledger's.

A digest is the record of what it commits to. The total a spend takes stands for
destinations, amounts and fee together; the change is the rest of the balance.
The gate asks accounts in any order (the code in tag order): no answer depends
on another's.

### SnapshotCommit and SlotCommit

An image is the sequence of the changes that led to it, so that "the same store,
later" is `IsPrefix` and two images of which neither extends the other are two
histories. What a restart is sure to find (`Kept`) is the cache after a kill and
the device after a power cut. A flush that returns has stored what the cache
shows: devices that lie about it, and kernels that drop a dirty page after a
failed flush, are outside.

`SnapshotCommit` has kills and power cuts in one model: processes die at any
step, and the power may go at any step. Two properties are stated apart because
they promise different things: `ImplementsDurableStore` holds over both,
`KillsKeepSigned` only over kills (see `resign_cut` in 6).

`SlotCommit` has one process, the lock being the same code; the directory entry
of the store in its parent is taken as durable (there is no call to flush it on
Windows: a residue the source documents); slots of two different stores, and the
interval between the two flushes of the crossing as an *old* build sees it
(`FORK.md`), are not modelled.

### AdvanceReview

One command at a time over a store whose lock it holds. `cancel` is the caller's
`Cancel`: `NEVER`, not yet raised, raised, or raised once and cleared by the
asking that heard it, which `Cancel::when` permits. The walk is position by
position, because the cancel is asked before each one, over the sequence of
positions `ScanScope::positions` yields. The ledger moves by one position
either way at any time. Progress reports and an account whose key the store
cannot derive are left out.

### StoreCreation

A process has a place in its prompts and commits; the phrase stands for the
master seed it gives. Whether the operator holds a phrase is history: typed for
`--from-phrase`, or read back rightly. A commit is done, or failed with the old
image or the new one. Imported accounts are not in it: no verb makes one (`add`
of one is in `StoreImage`).

### SpendArtifact

State: `plan` (`SpendPlan`, the reserved one once it is laid out), `artifact`
(the bytes `send` prints), `copy` (what the operator has of them) and `answer`
(what the last command was given and said). A machine word is two bytes in a
small base, so that totals wrap, and so that the little-endian order the
destinations must be in is not the order of the amounts. That order is a chosen
arrangement of the destinations whose images ascend; two with one image are
equal, so there is one such list, which is what the code's stable sort returns.
What is typed goes through the command line's own two refusals, of a tag named
twice and of the all-zero tag, or through a program that links the crate and has
neither; `send` and `resign` each come both ways (`via`). A reference's bytes are the five classes the node's machine tells apart. A signature names its key and
the digest it is over, a hash is what it is of. The model compares the plan with
the node's rules stated over integers, `reference_is_valid` with the grammar its
comment states, and the bytes with what they were made from. A wrong amount or
signature in the copy is the node's to refuse (`submit` judges layout only) and
is not one of the damages tried.

Attach and the node's check run the chains of `WotsChains`. A chain element is
what it was expanded from and the addresses of the steps taken since, so two
elements are equal exactly when every step was: a recovery ends on the key only
if each chain resumed where signing left it, under the address words signing
used. Digits, checksum shift, byte widths and address words are the code's. The
base of a digit and the bytes of a digest are constants: a byte is two digits
and the checksum three of them, which holds of the code's 16 and 32
(`WotsAssumption`: the largest checksum, 64 * 15, is below 16^3) and of the
run's 4 and 1. In both the checksum's bytes are wider than its digits, so the
shift matters. What the chains read of a digest is one fixed
function of what is hashed; the signatures tried are over every digest there is.

### KeyStreams and StoreImage

A seed is the path of derivations that made it, a key its secret and the public
components it was generated from: the generator and the hashes are injective.
A file is its header, the sealed box and its length in bytes, the widths being
the real ones. A box opens under the key, nonce and header it was sealed with
and yields nothing otherwise. The records nobody touches are a number (`Crowds`),
which lets a store stand at the real cap of 65 536. `file` holds what each of
two directories has, `handle` the live, poisoned or closed handle of the one
process that may hold it, `sealed` and `reserved` are history. Steps: create,
open with either password, adopt the master, add (derived, imported, of another
master, with a forged identity), the three commits of a record, close, a copy
from directory to directory, one damaged field. Every commit is done, or fails
with the old image or the new one in place.

### Console, NodeReads and CommandRun

`Console` is the device: its echo, the `Tty` and its guard, and a line arriving
in reads of any size, with characters of two units and a Ctrl-Z. It is Unix or
Windows by `windows`, chosen at the start. A killed process puts nothing back;
the shell sets the echo it wants before it reads.

`NodeReads` is the explorer verbs and `discover`, one request a step. Every
reply goes through the layers of the client: no answer, a status, a body past
its cap, not an object, an error code, missing fields. Between two requests the
node's chain is replaced from any block up, its queue and rows change, a tag
begins or ceases to resolve; `seen` records what was ever true while the command
read. A node may also *stray*: answer a question about one block, one hash, one
queued transaction or one tag with another's. The client compares only the tag
(`parse_tag_resolve`), so of such a node `PagesAreWhole` says what is the
program's own doing (how many rows, under which id each is listed, the extent of
`discover`) and of a node that answers what it was asked, that each row is the
one asked for. The page of `discover` is the set of the sightings that found something:
the order of its rows is layout.

`CommandRun` takes a run from arguments to exit code: the flags with their
order and refusals, the password, `decide` (what runs before the gate, what the
gate refuses, what stands in front of every later page), then each verb with its
commit or submission, each of which may fail in each of its ways, and the page's
claims. What the ledger says is chosen anew at every question. How positions,
plans and images work is in the other modules: here a record is an index and
whether a spend is reserved.

## 3. The runs

| Run | Instance | Shows |
|---|---|---|
| `spend` | 1 account, 3 positions, 2 costs, 3 expiries, reorgs of 3, any deposits | I1, I2, I3, the source of each signature, that no signed spend is forgotten and a reservation leaves only by landing |
| `second_copy` | 2 accounts, 3 positions, another copy of the seed spends | advancing never passes the ledger; I4: nothing is signed for the account the gate set aside |
| `liveness` | fair; reorgs of 2 that end | every reservation a crash leaves is settled, or is of a spend the ledger took back and the operator lost; a settled spend taken back is sent again and lands |
| `snapshot` | 2 processes, 2 changes, deaths and power cuts at every step | one history, no `Durable` taken back; what a signature was released from survives every kill |
| `slots` | 4 images, so each slot is written twice | open always finds an image; no `Durable` taken back; no signature before its flush; an old build finds nothing stale |
| `review` | 2 accounts, 4 positions, window and ceiling 1 | a review that was stopped wrote nothing; what is written is what was acknowledged; no advance beside a second wallet; the scan's positions and their count |
| `create` | 2 processes, 2 phrases, 2 accounts | every account can be recovered, a restored one stands where the ledger put it, nothing is lost |
| `artifact` | words of 2 digits in base 3, 4 tags (the all-zero one and the source's among them), 2 destinations, references of 4 bytes, all 625 of them alone; 5 chains of 4 positions, all 16 digests | the plan and the node agree on what is payable; attach takes the one right signature; the bytes read back; a damaged copy is never another transaction; `resign` reproduces the reserved spend and no other |
| `image` | 2 directories, 3 seals, 3 opens, both versions, a store one short of its cap | no nonce seals twice; what is written is read back; blocks are as reserved over upgrades; a refusal names a real account; no key is reached by two accounts |
| `command` | 2 accounts, 20 stores, 3 flags, lines of 3 units read 2 at a time, a chain of 2, a queue and rows of 3, pages of at most 2, 2 moves, nodes that stray and nodes that do not | echo and lines are right; the lists are whole and paging skips none; a page tells what its run did; every diverged account is named |
| `resign_cut` | **violation** | see 6 |
| `create_refused` | **violation** | see 6 |

Why the bounds are enough. A position is used by one spend, so three positions
give a spend before, the one in question and one after; a second digest needs
two costs or two expiries. A window and a ceiling of 1 over four positions give
every relation of the two ranges of a scan (apart, adjacent, overlapping, cut at
0 and at the last position). A commit needs two images to be torn between and a
third to be taken back from; the slots alternate, so the third write is in the
first's place. Two processes are enough for the create race: the lock has
one holder, and what a third would see is one of the two. Two accounts give a
named one and another, before and after it in tag order. Two destinations have an
order, may be equal, and a third is one too many; a word up to 8 lets two amounts
and a fee overflow, and 1 and 3 are in the other order as bytes. Four bytes of a
reference hold two groups and a dash, and a field without a NUL.

In `image`, three seals are a first image, a second under the same key and one
from a copy of the first: the shortest way to one nonce for two images. A crowd
of 65 534 beside the account of the store lets `add` reach the cap and be
refused beyond it. One field is damaged, and nothing is written after: what a
reader makes of two damages is the same gates in the same order. Imported roots
are the seed of an account of the master or a foreign one, under their own
components or others; importing the master itself, or the secret of one rotation
as a root, is not tried. In `command` a run opens any of a small set of stores
rather than what the run before it left: a run reads nothing else of earlier
runs but the device's echo, which is kept, and paging, which is. A page of 2 over
3 rows leaves a row for the next one and, on a chain cut to 1, asks for more than
there is. The blocks of one index are symmetric: they differ, and nothing reads
in what.

`second_copy` has no reorgs and no deposits on the way, which `spend` has; both
of its properties are proved for every instance (5).

`liveness` has no deposit while a spend of the tag is on its way
(`Deposits = "idle"`) and no expiry. Without that the property is false and
documented to be (`recon.rs:1585`): a deposit or a passed expiry makes an
unlanded reservation dead, and the account stays locked. And it lets a
reservation stand whose spend the ledger took back after the operator lost the
bytes and the mempool the spend (`TakenBack`).

`CHECK_DEADLOCK` is on everywhere.

## 4. Fairness

`FairSpec` assumes of the world: an operator who goes on running the commands;
a disk on which a commit succeeds again and again; a network that carries a
submission again and again; a node that answers; a ledger that mines what it
accepts and whose reorgs end; someone who pays into an emptied account. Weak fairness is on a step
the code takes by itself once begun (`Continue`: the process goes on or ends) and
strong fairness on what is tried repeatedly and may fail each time. The process
may still stop at every step, any number of times: nothing in `Fairness` forbids
`Stop`. The safety properties assume no fairness.

## 5. The proofs

Every safety property the passing runs check is proved for every value of the
constants; `AccountsReachTheirOwnKeys` with an exception for two kinds of
imported root, which is stated with it below. What stays with TLC is liveness.
None of the invariants is inductive as it stands. Each proof has an invariant
that is, which TLC checked first on the run's instance; one lemma per action
preserves it; and the properties are read off it. What each needs beyond the
property is the part worth reading.

**`SpendLifecycleProofs`.** For any accounts, costs, expiries, bounds, deposits,
reorg depth and foreign spends with `ConstantsAssumption` (naturals; at least
one position to spend) and `NoneAssumption` (`None` is not a digest, a
reservation or an account): `TypeOK`, `OneDigestPerKey`,
`SignedKeysAreBehindDisk`, `SignatureIsUnderItsSource`, `BlocksAgreeWithIndex`,
`NoSignedSpendForgotten`, `NoKeyIsAbandoned`, `ReservationLeavesByLanding` and
`SignaturesPassTheGate`.

1. `TypeInv` adds to `TypeOK` the shape of the ledger (at least one entry per
   account, never beyond the last position), which types every read.
2. `KeyInv` is the heart. I1 does not follow from "sign only under a
   reservation": a poisoned handle has memory and disk that differ, and a plan
   outlives what it was made from. `KeyInv` says that memory is the disk's while
   an operation that signs or commits can run, that the two blocks agree with
   the index, and that every signature under the reserved position is of the
   reserved digest. I1, I2 and I3 are read off it.
3. `LedgerInv` relates the store to the furthest position the ledger showed:
   the index is past it by at most the reservation, so what settles or is
   advanced over was really taken.
4. `GateInv` says a plan or an operation in progress is of an account the gate
   reconciled, which gives I4.

**`SnapshotCommitProofs`.** First of the promise itself: whatever behaves as
`DurableStore` keeps what it attested (`AttestedKeptHolds`) and has one history
(`OneHistoryHolds`). The two refinements, here and in the next module, make both
true of both platforms. `CommitImplementsDurableStore`: for any processes,
any set of changes and any bound (`SnapshotAssumption`: it is positive, and
`Nobody` is no process), every step of the Unix commit is a step of
`DurableStore` or none of its, over deaths, failed calls and power cuts at every
point. `AttestedSurvive` and `KillsKeepSignedHolds` follow. `CommitInv` says that
only the lock's holder is past the lock; that every name on the disk stands for
a whole and flushed file; that the device's image is a prefix of the cache's;
and, of the process in the middle of a commit, what each of its four steps has
established. The third part is why a power cut between rename and the flush of
the directory takes nothing attested back.

**`SlotCommitProofs`.** `SlotsImplementDurableStore`, `OpenTakesAnImageHolds`,
`OldBuildReadsNothingStaleHolds` and `SignedIsKeptHolds`, with a bound of at
least two changes (`SlotAssumption`: with one there is no second write to tear).
`SlotInv` says that one slot is always a *base*: it is on the device, it holds
an image, and the other one has on the device an older image or none, and in the
cache the same, a newer image or none. The slot a commit writes over is never the base, and the
crossing from the rename layout is the case where the base is the plain image.

**`AdvanceReviewProofs`.** `StopWritesNothingHolds`,
`NoAdvanceBesideASecondWalletHolds`, `AdvanceIsAcknowledgedHolds` and
`ScopeIsSearchedOnceHolds`, over any number of accounts in any order, any window
and any ceiling (`ReviewAssumption`). `ReviewInv` needs that the reports are in up to the
account whose turn it is, so that "every other account is reconciled" is about
this review and not the one before, and that a call which goes on has written
nothing, whichever of the three ways of asking heard the cancel. The scope needs
no invariant beyond the type of an index: `WalkedOnce` gives each of the two
parts of a walk its ascending list, shows that they have nothing in common, and
adds up their lengths to what `reach` counts from the edges, for every window,
ceiling and index, saturated or not.

**`StoreCreationProofs`.** `AccountsAreRecoverableHolds`,
`RestoredFromTheLedgerHolds` and `StoreOnlyGrowsHolds`, for any number of
processes and phrases (`CreationAssumption`). `CreationInv` says what a process
relies on at its place: the phrase it is about to write was read back, and since
it looked at the directory under the lock nobody else has written there.

**`StoreImageProofs`.** `NonceSealsOneImageHolds`, `WrittenImagesReadBackHolds`,
`BlocksAreAsReservedHolds`, `RefusalNamesARealAccountHolds` and
`AccountsReachTheirOwnKeysHolds`, for any number of directories, seals and
opens, up to the real cap. `ImageAssumption`: `None` is no block, no figures, no
master and no count; the records nobody touches leave room for one more
(`Crowds`); the master is a seed; an account offered to `add` is one its
constructors make, and its record restores. `ImageInv` says that a live handle holds what its
file reads as, under the entropy of an open no other handle shares, at a
generation no lower than anything sealed under that entropy. The last clause is
what a failed commit would break if the handle were not poisoned: the next seal
would take a nonce already used.

Whose a key is needs a second invariant. `OwnersInv` says that in every image
ever sealed the same identity is the same record; `add` keeps it because it
compares the identity it *recomputed* and not the one the record claims. Two
accounts that are reached and have different identities have different seeds,
and two different seeds give a key twice only if one of them is a derivation of
the other. Among derived accounts that never is. An imported root could be the
master itself, or the secret of one rotation of an account: both are 32 bytes
and nothing in the code refuses either, so the property is false of them, and
the theorem is of states without one (`RootsAreForeign`), which all states of a
store without imports are. `PositionsHaveTheirOwnKeys` says the same of one
account: an index that only grows never comes back to a key.

**`CommandRunProofs`.** Three invariants, over any stores, accounts, flags,
lines, chains, queues and counts (`CommandAssumption`: the stores are stores;
`ConsoleAssumption`: what is typed is characters; `NodeAssumption`: the ids of
the queue are finitely many, the chain has a bound, and `Absent` is no number and
no error code).

1. `RunInv` gives `PageTellsTheRunHolds` and `DivergedAreNamedHolds`: at each
   place of a run, what was opened, what the gate set aside, and that nothing was
   signed or sent before the reservation stood. The page of a restore whose
   commit failed is the one exception (6), and even there the other accounts
   are as they were.
2. `ConsoleInv` gives `AnswersAreTypedAsAskedHolds` and `LineIsWhatWasTypedHolds`.
   What was read of a line and what is left of it are together what was typed;
   on Windows what was read is whole characters and does not begin with Ctrl-Z.
   The line is thus right however it is cut, for lines and reads of any length.
3. `NodeInv` gives `PagesAreWholeHolds` and `PagingSkipsNoneHolds`. Of each verb
   it has what the walk has listed so far; `seen` covers what the node holds
   *now* as well as what was read, because the next reply is read from the node
   as it then is; and for paging, that the rows there were at the first page are
   now `shift` places further from the newest and those before the next offset
   have been read. It rests on `RunInv`: only a run that is walking has a walk. What the rows
   are of is carried under "the node does not stray".

**`SpendArtifactProofs`.** The five invariants of the run and `TypeOK`, for any
base of a word, number of destinations, length of a reference, set of tags, base
of a digit and length of a digest with `ArtifactAssumption`,
`ReferencesAssumption` and `WotsAssumption`; the widths of the header, the
signature and the trailer are fixed. The state needs little: `IInv` says that
what stands between two commands is a plan the planner can make, the artifact of
that plan, and a copy that is the artifact or one damage away from it. The
work is in what the operators compute, and most of it was reached by recursion
or choice:

1. Sums, digits, runs of a chain and the walk over a reference are recursive
   functions. What they give is by induction over a set (`UpTo`: a set with 0 in
   it, and with i whenever i - 1 is, is all of 0..n), which rests on the least
   element of a set of naturals and needs no operator parameter. `TotalArranged`
   then has the sum of a list in any order.
2. `RecoveryFinds`: recovering from a signature gives the key's public chains if
   and only if the digest is the signed one. `LengthsDiffer` is why: of two
   digests each has a chain shorter than the other's, the checksum falling as the
   digits rise, so a signature of one never only needs walking on to be one of
   the other.
3. `WireRoundTrip`: what is laid out reads back field by field, with a trailer
   and without.
4. `ReferencesAreGrammatical`: the state machine accepts exactly what the
   grammar in its comment describes, for every length.
5. `RefusalIs`: the planner refuses a list exactly when a rule of the node, over
   integers, is against it, whatever a total of words would have wrapped to.
6. `OneDigestOnePlan`: two plans with one digest are one plan. The ascending
   list exists by insertion and is unique because equal images are equal
   destinations; so `resign` may be typed in any order, and nothing but the
   reserved spend, in whatever order, has its digest.

**Model-checked only:** *liveness* (`ReservationsResolve`,
`RevertedSettlesReturn`): fairness and ENABLED are out of the prover's reach.
Of `AccountsReachTheirOwnKeys` nothing more is left to the run: with a root of
the exception it is false, and the run offers none (3).

`Console`, `NodeReads` and `CommandRun` have no `TypeOK`: the types their proofs
need are conjuncts of the three invariants. The `TypeOK` of `SnapshotCommit`,
`SlotCommit`, `AdvanceReview` and `StoreCreation` is in no configuration: it is
the first conjunct of the invariant proved. That of `SpendArtifact` is proved
(`TypesHold`). That of `StoreImage` says what its variables hold; `ImageInv` has
the types its proof needs. That of `SpendLifecycle`, where an index could pass the last
position, is both checked and proved.

## 6. Two places where the text says more than the code

* **`resign_cut`.** The specification's I2 says the advanced position is durable
  before a signature is released, and the README that a power cut cannot bring
  back a state older than the last reported one. On Unix `open_with` flushes
  nothing. A process that died between rename and the flush of the directory
  leaves a snapshot the next process reads and `resign_reserved` signs from
  without a commit; a power cut can then bring the older snapshot back. The
  Windows open flushes the slot it takes, for this reason.
* **`create_refused`.** A comment in `cli/create.rs` says every refusal of
  `create` leaves nothing on disk, and its page says "Nothing was created." A
  commit that fails after its rename, or the second or third one failing at all,
  leaves a store without an account, which the next `create` refuses.

Both need a failing disk or a power cut, and neither is a key signing twice by
itself.

Others, with no run of their own:

* When the store refuses the account `restore` found, the page says "Nothing was
  written." (`recon.rs:1387`) and the comment on that outcome "Nothing reached
  disk" (`recon.rs:1312`). Its one commit may fail after the rename: the account
  is then in the store, at the index found, and the next `restore` finds it there
  and says so. `CmdRestore` has that page and that failure, and `PageTellsTheRun`
  states it as its exception: there the *other* accounts are as they were.
* `cli/args.rs:222` and the comment on `destination_lines` (`cli/mod.rs`) say
  the operator's order of the destinations is the one `send`'s page lists and
  the one `resign` demands back. `cmd_send` lists the plan's order, which is
  sorted, and `RetypedSpendIsTheReserved` shows that `resign` takes any order.
* `cli/mod.rs:388` says the diverged accounts are rendered on every page of a
  wallet that started. When two are diverged and one of them is addressed, the
  page that refuses it names that one only and says of the others that they are
  not affected; `DivergedAreNamed` states that page as its exception.
* `cli/args.rs` refuses two spends the planner and the node would take: one that
  names a tag twice and one to the all-zero tag, which `refuse_the_zero_tag` and
  `check_destinations` call a policy of the command line. A program that links
  the crate can reserve such a spend; `resign` on the command line cannot then
  reproduce it, and only that program can. `PlanAgreesWithNode` and
  `RetypedSpendIsTheReserved` state both as their exceptions.
* `block N`, `blocks`, `transaction` and `mempool` show the block or the
  transaction that was answered, which nothing compares with the one asked for.
  `PagesAreWhole` claims that a row is of its number or id only of a node that
  answers what it was asked.
* On Windows `EchoGuard::restore` puts back the mode it found. After a process
  was killed with echo off, that is silence, so the next visible prompt, checked
  as it is, is typed blind; `AnswersAreTypedAsAsked` states that exception.
* `blocks` heads its page with the count asked for where the chain had fewer
  blocks, and rows read across a reorg need not link to each other;
  `PagesAreWhole` states what such a page does hold.

## 7. Not modelled, and why

* **Addresses, Base58, CRC, mnemonics, hex, JSON, HTTP.** Functions of bytes, one
  call each, held by vectors from a second implementation: a model would restate
  them. So for the hashes, the generator and the cipher, which the models take to
  be injective and tight.
* **Permissions.** What the operating system answers about owners and access
  lists, asked once at open; nothing of it changes while the program runs.
* **Secrets and errors.** Types, messages, and the erasure of memory, which no
  state here shows. Password guessing cost is not about states.
* **Wording and layout** of pages, and how a word on the command line is cut into
  a number, a tag or a hash.
* **Slots of two different stores** side by side, and the interval between the
  two flushes of the crossing as an *old* build sees it (`FORK.md`).
* **The parent's entry of the store directory on Windows** (`medium.rs:292`):
  there is no call to flush it; the source documents the residue and the model
  takes the entry as durable.
* **`set_dsts`** of the wire format, which the wallet does not call, and the
  counted twins of the WOTS+ functions as functions of their own (the counts are
  in the steps of each chain).

## 8. The plan

Done: the core and its storage, proofs of the core, review, creation, artifact;
then liveness over reorgs, the image and its key streams, the commands with
their terminal and their node, the chains of a signature.

Then the proofs: both commits implement `DurableStore`; the review; creation and
restore; the image; the run of a command with its terminal and its reads; one
spend as data, from what is typed to the bytes; and whose a key is.

Next, if the code grows there:

1. A refusal at import of a root that is the master or a rotation's secret would
   make `RootsAreForeign` an invariant and `AccountsReachTheirOwnKeys` hold
   without exception.
2. Two stores' slots side by side, and the crossing as an old build sees it
   between its two flushes (7).
