---------------------------- MODULE StoreCreation ----------------------------
(***************************************************************************)
(* How a store comes to be and is filled: `create`, from a fresh phrase or  *)
(* from the operator's, with its prompts in their order and then its three  *)
(* commits (the empty store, the master seed, account 0); and `restore`,    *)
(* which adds an account at the position the ledger has it at.  Processes   *)
(* run them over one directory; a commit may fail, and a process may end,   *)
(* anywhere.                                                                *)
(*                                                                          *)
(* Sources: cli/create.rs (orchestrate, create), cli/restore.rs,            *)
(* keystore/mod.rs (create_with, adopt_master, add).                        *)
(*                                                                          *)
(* A commit is one step: done, or failed with the file at the old image or  *)
(* the new one (SnapshotCommit is what it is made of).                      *)
(***************************************************************************)
EXTENDS Naturals, FiniteSets

CONSTANTS
  Processes,     \* that run `create` or `restore` over the directory
  Nobody,        \* the lock's holder when it has none
  Phrases,       \* recovery phrases; each is also the master seed it gives
  NotHeld,       \* no store, no seed, no phrase, no account
  MaxAccount,    \* bound of an account's number
  MaxIndex       \* bound of a key position

Accounts == 0 .. MaxAccount
Positions == 0 .. MaxIndex

Store == [master : Phrases \cup {NotHeld}, index : [Accounts -> Positions \cup {NotHeld}]]

ASSUME CreationAssumption ==
  /\ Nobody \notin Processes
  /\ MaxAccount \in Nat /\ MaxIndex \in Nat
  /\ NotHeld \notin Phrases \cup Nat \cup Store

VARIABLES
  store,     \* what opening the directory reads
  lock,      \* the process that holds keystore.lock
  at,        \* per process, its place, its phrase and the account it is about
  page,      \* per process, what its last command said
  held,      \* the phrases an operator confirmed or typed (history)
  used,      \* the phrases ever generated or typed (history)
  maker,     \* the process whose create made the store (history)
  key        \* per phrase and account, the ledger's position of its tag

vars == <<store, lock, at, page, held, used, maker, key>>

UnderLock == {"locked", "empty", "seeded", "opened", "found"}
Place ==
  [pc : {"idle", "probed", "password", "shown", "ready"} \cup UnderLock,
   phrase : Phrases \cup {NotHeld}, account : Accounts,
   index : Positions]

Idle == [pc |-> "idle", phrase |-> NotHeld, account |-> 0, index |-> 0]

Empty == [master |-> NotHeld, index |-> [k \in Accounts |-> NotHeld]]

Init ==
  /\ store = NotHeld
  /\ lock = Nobody
  /\ at = [p \in Processes |-> Idle]
  /\ page = [p \in Processes |-> "none"]
  /\ held = {}
  /\ used = {}
  /\ maker = Nobody
  /\ key \in [Phrases -> [Accounts -> {NotHeld, 0}]]

-----------------------------------------------------------------------------
(* Variants: what a plausible mistake would make of the definition named     *)
(* beside each.                                                              *)

\* of Occupied: the check under the lock is left out.
OccupiedBefore(p) == at[p].pc = "idle" /\ store # NotHeld

\* of Scanned: an account the ledger has not is taken to be at the first key.
ScannedOrZero(w, k) == {IF key[w][k] = NotHeld THEN 0 ELSE key[w][k]}

\* of Adopted: the seed is left for a later commit.
AdoptedLater(w) == store

-----------------------------------------------------------------------------
Goes(p, place) == at' = [at EXCEPT ![p] = place]
Says(p, text) == page' = [page EXCEPT ![p] = text]

\* What the operating system does with the lock of a handle that is dropped.
Released(p) == IF lock = p THEN Nobody ELSE lock

\* The command ends with a page; the handle, if any, is dropped.
Ends(p, text) ==
  /\ Goes(p, Idle)
  /\ Says(p, text)
  /\ lock' = Released(p)

Refuses(p) == Ends(p, "nothing was created")

\* A commit over the directory: done, or failed either way.
Commit(p, image, next) ==
  \/ /\ store' = image
     /\ Goes(p, next)
     /\ UNCHANGED <<lock, page>>
  \/ /\ store' \in {store, image}
     /\ Refuses(p)

-----------------------------------------------------------------------------
(* create: the terminal first, then the directory, the password, the phrase. *)

Occupied(p) == store # NotHeld

\* No terminal, or a directory that holds a store: refused before a question.
Probe(p) ==
  /\ at[p].pc = "idle"
  /\ \/ ~Occupied(p) /\ Goes(p, [Idle EXCEPT !.pc = "probed"]) /\ UNCHANGED <<page, lock>>
     \/ Refuses(p)
  /\ UNCHANGED <<store, held, used, maker, key>>

\* Typed twice and long enough, or refused.
ReadPassword(p) ==
  /\ at[p].pc = "probed"
  /\ \/ Goes(p, [Idle EXCEPT !.pc = "password"]) /\ UNCHANGED <<page, lock>>
     \/ Refuses(p)
  /\ UNCHANGED <<store, held, used, maker, key>>

\* A fresh phrase is shown; a display that fails is a refusal.
Show(p) ==
  /\ at[p].pc = "password"
  /\ \E w \in Phrases \ used :
       /\ used' = used \cup {w}
       /\ \/ Goes(p, [Idle EXCEPT !.pc = "shown", !.phrase = w]) /\ UNCHANGED <<page, lock>>
          \/ Refuses(p)
  /\ UNCHANGED <<store, held, maker, key>>

ConfirmationMatches(right) == right

\* The operator reads the words back, rightly only from a phrase that is held;
\* the answer matches, or nothing is created.
Confirm(p) ==
  /\ at[p].pc = "shown"
  /\ \E right \in BOOLEAN :
       /\ held' = IF right THEN held \cup {at[p].phrase} ELSE held
       /\ \/ /\ ConfirmationMatches(right)
             /\ Goes(p, [at[p] EXCEPT !.pc = "ready"])
             /\ UNCHANGED <<page, lock>>
          \/ ~ConfirmationMatches(right) /\ Refuses(p)
  /\ UNCHANGED <<store, used, maker, key>>

\* --from-phrase: the operator's phrase, which may have been used before; one
\* that does not parse is refused before the directory is made.
TypePhrase(p) ==
  /\ at[p].pc = "password"
  /\ \/ \E w \in Phrases :
          /\ held' = held \cup {w}
          /\ used' = used \cup {w}
          /\ Goes(p, [Idle EXCEPT !.pc = "ready", !.phrase = w])
          /\ UNCHANGED <<page, lock>>
     \/ Refuses(p) /\ UNCHANGED <<held, used>>
  /\ UNCHANGED <<store, maker, key>>

(* The write: the lock, the check again under it, then three commits. *)

CreateLock(p) ==
  /\ at[p].pc = "ready"
  /\ \/ /\ lock = Nobody
        /\ ~Occupied(p)
        /\ lock' = p
        /\ Goes(p, [at[p] EXCEPT !.pc = "locked"])
        /\ UNCHANGED page
     \/ Refuses(p)
  /\ UNCHANGED <<store, held, used, maker, key>>

CommitEmpty(p) ==
  /\ at[p].pc = "locked"
  /\ Commit(p, Empty, [at[p] EXCEPT !.pc = "empty"])
  /\ maker' = IF store' # store THEN p ELSE maker
  /\ UNCHANGED <<held, used, key>>

\* Only into a store that has none.
Adopted(w) == [store EXCEPT !.master = w]

AdoptMaster(p) ==
  /\ at[p].pc = "empty"
  /\ store.master = NotHeld
  /\ Commit(p, Adopted(at[p].phrase), [at[p] EXCEPT !.pc = "seeded"])
  /\ UNCHANGED <<held, used, maker, key>>

\* Account 0, at its first key: its page is the one that says "created".
AddFirst(p) ==
  /\ at[p].pc = "seeded"
  /\ LET image == [store EXCEPT !.index[0] = 0] IN
       \/ store' = image /\ Ends(p, "created")
       \/ store' \in {store, image} /\ Refuses(p)
  /\ UNCHANGED <<held, used, maker, key>>

-----------------------------------------------------------------------------
(* restore: an account at the position the ledger has it at. *)

\* Only a store that holds its master can derive the account's keys.
OpenForRestore(p, k) ==
  /\ at[p].pc = "idle"
  /\ lock = Nobody
  /\ store # NotHeld
  /\ \/ /\ store.master # NotHeld
        /\ lock' = p
        /\ Goes(p, [pc |-> "opened", phrase |-> store.master, account |-> k, index |-> 0])
        /\ UNCHANGED page
     \/ /\ store.master = NotHeld
        /\ Ends(p, "needs a master")
  /\ UNCHANGED <<store, held, used, maker, key>>

\* Where the scan finds the ledger's address of the account.
Scanned(w, k) == {key[w][k]} \ {NotHeld}

\* The node may not answer, may not know the tag, the scan may not reach it or
\* be cancelled: each refuses.  An account already held is reported as it is.
Scan(p) ==
  /\ at[p].pc = "opened"
  /\ \/ /\ store.index[at[p].account] = NotHeld
        /\ \E i \in Scanned(at[p].phrase, at[p].account) :
             Goes(p, [at[p] EXCEPT !.pc = "found", !.index = i])
        /\ UNCHANGED <<page, lock>>
     \/ Ends(p, "not restored")
  /\ UNCHANGED <<store, held, used, maker, key>>

\* Asked once more whether it is cancelled, then one commit.
AddRestored(p) ==
  /\ at[p].pc = "found"
  /\ LET image == [store EXCEPT !.index[at[p].account] = at[p].index] IN
       \/ store' = image /\ Ends(p, "restored")
       \/ store' \in {store, image} /\ Ends(p, "not restored")
  /\ UNCHANGED <<held, used, maker, key>>

-----------------------------------------------------------------------------
(* Not this repository's code. *)

\* The process ends.
Kill(p) ==
  /\ at[p].pc # "idle"
  /\ Goes(p, Idle)
  /\ lock' = IF lock = p THEN Nobody ELSE lock
  /\ UNCHANGED <<store, page, held, used, maker, key>>

\* An account is paid for the first time, or spends, here or elsewhere.
LedgerMoves(w, k) ==
  /\ key' \in {[key EXCEPT ![w][k] = i] : i \in Positions}
  /\ key[w][k] # NotHeld => key'[w][k] = key[w][k] + 1
  /\ key[w][k] = NotHeld => key'[w][k] = 0
  /\ UNCHANGED <<store, lock, at, page, held, used, maker>>

-----------------------------------------------------------------------------
Next ==
  \/ \E p \in Processes :
       \/ Probe(p) \/ ReadPassword(p) \/ Show(p) \/ Confirm(p) \/ TypePhrase(p)
       \/ CreateLock(p) \/ CommitEmpty(p) \/ AdoptMaster(p) \/ AddFirst(p)
       \/ \E k \in Accounts : OpenForRestore(p, k)
       \/ Scan(p) \/ AddRestored(p) \/ Kill(p)
  \/ \E w \in Phrases, k \in Accounts : LedgerMoves(w, k)

Spec == Init /\ [][Next]_vars

-----------------------------------------------------------------------------
(* Properties. *)

\* Every variable has its type, and the lock is held by exactly the process
\* that is writing: no refusal and no death leaves it behind.
TypeOK ==
  /\ store \in Store \cup {NotHeld}
  /\ at \in [Processes -> Place]
  /\ \A p \in Processes : at[p].pc \in UnderLock <=> lock = p
  /\ lock \in Processes \cup {Nobody}
  /\ page \in [Processes -> {"none", "created", "nothing was created", "needs a master",
                             "restored", "not restored"}]
  /\ held \subseteq Phrases /\ used \subseteq Phrases
  /\ maker \in Processes \cup {Nobody}
  /\ key \in [Phrases -> [Accounts -> Positions \cup {NotHeld}]]

\* What a store holds can be signed for and can be made again: no death between
\* create's commits leaves an account without the seed that derives its keys,
\* and a seed in a store is of a phrase the operator read back or typed
\* (cli/create.rs).
AccountsAreRecoverable ==
  store # NotHeld =>
    IF store.master = NotHeld THEN \A k \in Accounts : store.index[k] = NotHeld
    ELSE store.master \in held

\* What create reported stays: its seed and its account 0 are in the store, for
\* every other process that creates or restores in the directory afterwards.
\* (A process that was refused, or killed, takes nothing away.)
StoreOnlyGrows ==
  [][store # NotHeld =>
       /\ store' # NotHeld
       /\ store.master # NotHeld => store'.master = store.master
       /\ \A k \in Accounts : store.index[k] # NotHeld => store'.index[k] = store.index[k]]_vars

\* I5: an account but the first enters at a position the ledger has had it at,
\* never at one assumed.
RestoredFromTheLedger ==
  store # NotHeld =>
    \A k \in Accounts \ {0} :
      store.index[k] # NotHeld =>
        /\ key[store.master][k] # NotHeld
        /\ store.index[k] <= key[store.master][k]

\* "Every refusal from `create` leaves nothing on disk" (cli/create.rs:563-565):
\* a create that ended so made no store.
RefusalLeavesNothing ==
  \A p \in Processes :
    page[p] = "nothing was created" /\ at[p].pc = "idle" => store = NotHeld \/ maker # p

=============================================================================
