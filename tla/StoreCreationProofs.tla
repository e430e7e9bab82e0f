-------------------------- MODULE StoreCreationProofs --------------------------
(***************************************************************************)
(* For any number of processes creating and restoring in one directory: the *)
(* store only grows, what it holds can be derived again from a phrase the   *)
(* operator has, and no restored account is ahead of the ledger.            *)
(***************************************************************************)
EXTENDS StoreCreation, TLAPS

-----------------------------------------------------------------------------
(* The invariant. *)

\* What a process relies on at its place in a command: a phrase it is about to
\* write was read back or typed, and while it holds the lock nobody else has
\* written since it looked.
Prepared(h) ==
  /\ h.pc = "shown" => h.phrase \in Phrases
  /\ h.pc \in {"ready", "locked", "empty", "seeded"} =>
       h.phrase \in held /\ h.phrase \in Phrases
  /\ h.pc = "locked" => store = NotHeld
  /\ h.pc = "empty" => store = Empty
  /\ h.pc = "seeded" =>
       /\ store \in Store /\ store.master = h.phrase
       /\ \A k \in Accounts : store.index[k] = NotHeld
  /\ h.pc \in {"opened", "found"} =>
       store \in Store /\ store.master \in Phrases /\ store.master = h.phrase
  /\ h.pc = "found" =>
       /\ store.index[h.account] = NotHeld
       /\ key[h.phrase][h.account] # NotHeld
       /\ h.index <= key[h.phrase][h.account]

CreationInv ==
  /\ TypeOK
  /\ \A p \in Processes : Prepared(at[p])
  /\ AccountsAreRecoverable
  /\ RestoredFromTheLedger

\* What StoreOnlyGrows says of a step.
StoreGrows ==
  store # NotHeld =>
    /\ store' # NotHeld
    /\ store.master # NotHeld => store'.master = store.master
    /\ \A k \in Accounts : store.index[k] # NotHeld => store'.index[k] = store.index[k]

-----------------------------------------------------------------------------
(* Stores and places. *)

\* "Not held" is no store, no phrase and no position; the empty store is one.
LEMMA NothingIsNotHeld ==
  /\ NotHeld \notin Phrases /\ NotHeld \notin Nat /\ NotHeld \notin Store
  /\ 0 \in Accounts /\ 0 \in Positions /\ Positions \subseteq Nat
  /\ Empty \in Store /\ Empty # NotHeld /\ Empty.master = NotHeld
  /\ \A k \in Accounts : Empty.index[k] = NotHeld
  /\ Nobody \notin Processes
  BY CreationAssumption DEF Empty, Store, Accounts, Positions

\* A place, field by field.
LEMMA Places ==
  ASSUME NEW h \in Place
  PROVE  /\ h.phrase \in Phrases \cup {NotHeld}
         /\ h.account \in Accounts /\ h.index \in Positions
         /\ \A c \in {"locked", "empty", "seeded", "ready"} :
              LET g == [h EXCEPT !.pc = c]
              IN  /\ g \in Place /\ g.pc = c /\ g.phrase = h.phrase
                  /\ g.account = h.account /\ g.index = h.index
<1>1. /\ h.phrase \in Phrases \cup {NotHeld}
      /\ h.account \in Accounts /\ h.index \in Positions
  BY DEF Place
<1>2. ASSUME NEW c \in {"locked", "empty", "seeded", "ready"}
      PROVE  LET g == [h EXCEPT !.pc = c]
             IN  /\ g \in Place /\ g.pc = c /\ g.phrase = h.phrase
                 /\ g.account = h.account /\ g.index = h.index
  BY DEF Place, UnderLock
<1>3. QED
  BY <1>1, <1>2

\* The places a command begins from.
LEMMA IdlePlaces ==
  /\ Idle \in Place /\ Idle.pc = "idle"
  /\ \A c \in {"probed", "password"} :
       LET g == [Idle EXCEPT !.pc = c] IN g \in Place /\ g.pc = c
  /\ \A w \in Phrases, c \in {"shown", "ready"} :
       LET g == [Idle EXCEPT !.pc = c, !.phrase = w]
       IN  g \in Place /\ g.pc = c /\ g.phrase = w
<1>1. /\ Idle \in Place /\ Idle.pc = "idle"
  BY NothingIsNotHeld DEF Idle, Place
<1>2. ASSUME NEW c \in {"probed", "password"}
      PROVE  LET g == [Idle EXCEPT !.pc = c] IN g \in Place /\ g.pc = c
  BY NothingIsNotHeld DEF Idle, Place
<1>3. ASSUME NEW w \in Phrases, NEW c \in {"shown", "ready"}
      PROVE  LET g == [Idle EXCEPT !.pc = c, !.phrase = w]
             IN  g \in Place /\ g.pc = c /\ g.phrase = w
  BY NothingIsNotHeld DEF Idle, Place
<1>4. QED
  BY <1>1, <1>2, <1>3

-----------------------------------------------------------------------------
(* One process moves. *)

\* The texts a page may hold.
Texts == {"none", "created", "nothing was created", "needs a master",
          "restored", "not restored"}

\* What a step of p does to the rest, where p alone may write and only while
\* it holds the lock.
Moves(p, place) ==
  /\ at' = [at EXCEPT ![p] = place]
  /\ key' = key
  /\ held \subseteq held' /\ held' \subseteq Phrases /\ used' \subseteq Phrases
  /\ maker' \in Processes \cup {Nobody}
  /\ \E text \in Texts : page' = [page EXCEPT ![p] = text] \/ page' = page
  /\ lock' \in {lock, p, Nobody} /\ (lock' # lock => lock \in {p, Nobody})
  /\ place.pc \in UnderLock <=> lock' = p
  /\ store' = store \/ (lock = p /\ store' \in Store)

\* The rest of the invariant goes on: the others had not the lock.
LEMMA OthersStayPrepared ==
  ASSUME CreationInv, NEW p \in Processes, NEW place \in Place, Moves(p, place),
         Prepared(place)', AccountsAreRecoverable', RestoredFromTheLedger'
  PROVE  CreationInv'
<1>1. /\ at \in [Processes -> Place] /\ at' \in [Processes -> Place]
      /\ at'[p] = place /\ \A q \in Processes : q # p => at'[q] = at[q]
  BY DEF CreationInv, TypeOK, Moves
<1>2. ASSUME NEW q \in Processes, q # p
      PROVE  /\ at'[q].pc \in UnderLock <=> lock' = q
             /\ Prepared(at[q])'
  <2>1. PICK h \in Place : h = at[q] /\ at'[q] = h
    BY <1>1, <1>2
  <2>2. h.pc \in UnderLock <=> lock = q
    BY <2>1 DEF CreationInv, TypeOK
  <2>3. lock' = q <=> lock = q
    BY <1>2, NothingIsNotHeld DEF Moves
  <2>4. Prepared(h)
    BY <2>1 DEF CreationInv, Prepared
  <2>5. CASE h.pc \in UnderLock
    <3>1. store' = store /\ key' = key /\ held \subseteq held'
      BY <1>2, <2>2, <2>5 DEF Moves
    <3>2. Prepared(h)'
      BY <2>4, <3>1 DEF Prepared
    <3>3. QED
      BY <2>1, <2>2, <2>3, <3>2 DEF Prepared
  <2>6. CASE h.pc \notin UnderLock
    <3>1. Prepared(h)'
      BY <2>4, <2>6 DEF Prepared, UnderLock, Moves
    <3>2. QED
      BY <2>1, <2>2, <2>3, <3>1 DEF Prepared
  <2>7. QED
    BY <2>5, <2>6
<1>3. \A q \in Processes : Prepared(at[q])'
  <2> SUFFICES ASSUME NEW q \in Processes
               PROVE  Prepared(at[q])'
    OBVIOUS
  <2>1. CASE q = p
    BY <1>1, <2>1 DEF Prepared
  <2>2. CASE q # p
    BY <1>2, <2>2
  <2>3. QED
    BY <2>1, <2>2
<1>4. TypeOK'
  <2>1. \A q \in Processes : at'[q].pc \in UnderLock <=> lock' = q
    BY <1>1, <1>2 DEF Moves
  <2>2. store' \in Store \cup {NotHeld} /\ lock' \in Processes \cup {Nobody}
    BY DEF CreationInv, TypeOK, Moves
  <2>3. page' \in [Processes -> Texts]
    BY DEF CreationInv, TypeOK, Moves, Texts
  <2>4. QED
    BY <1>1, <2>1, <2>2, <2>3 DEF CreationInv, TypeOK, Moves, Texts
<1>5. QED
  BY <1>3, <1>4 DEF CreationInv

\* A step that writes nothing.
LEMMA WritesNothing ==
  ASSUME CreationInv, NEW p \in Processes, NEW place \in Place, Moves(p, place),
         store' = store, Prepared(place)'
  PROVE  CreationInv' /\ StoreGrows
<1>1. AccountsAreRecoverable' /\ RestoredFromTheLedger'
  BY DEF CreationInv, AccountsAreRecoverable, RestoredFromTheLedger, Moves
<1>2. CreationInv'
  BY <1>1, OthersStayPrepared
<1>3. QED
  BY <1>2 DEF StoreGrows

\* What the command ends with, and how the lock is left.
LEMMA Endings ==
  ASSUME CreationInv, NEW p \in Processes, NEW text \in Texts, Ends(p, text),
         UNCHANGED <<key, maker>>,
         held \subseteq held', held' \subseteq Phrases, used' \subseteq Phrases,
         store' = store \/ (lock = p /\ store' \in Store)
  PROVE  Moves(p, Idle) /\ Prepared(Idle)'
<1>1. lock' \in {lock, Nobody} /\ (lock' # lock => lock = p) /\ lock' # p
  BY NothingIsNotHeld DEF Ends, Released
<1>2. Idle.pc \notin UnderLock
  BY IdlePlaces DEF UnderLock
<1>3. Prepared(Idle)'
  BY IdlePlaces DEF Prepared
<1>4. QED
  BY <1>1, <1>2, <1>3 DEF Moves, Ends, Goes, Says, CreationInv, TypeOK

\* The command ends and writes nothing.
LEMMA EndsUnwritten ==
  ASSUME CreationInv, NEW p \in Processes, NEW text \in Texts, Ends(p, text),
         UNCHANGED <<store, key, maker>>,
         held \subseteq held', held' \subseteq Phrases, used' \subseteq Phrases
  PROVE  CreationInv' /\ StoreGrows
  BY Endings, IdlePlaces, WritesNothing

\* What the operator and the terminal decide before the directory is locked.
LEMMA PromptSteps ==
  ASSUME CreationInv, NEW p \in Processes,
         Probe(p) \/ ReadPassword(p) \/ Show(p) \/ Confirm(p) \/ TypePhrase(p)
  PROVE  CreationInv' /\ StoreGrows
<1>1. /\ at[p] \in Place /\ at[p].pc \notin UnderLock /\ lock # p
      /\ UNCHANGED <<store, maker, key>> /\ used \subseteq Phrases /\ held \subseteq Phrases
      /\ maker \in Processes \cup {Nobody}
  BY DEF Probe, ReadPassword, Show, Confirm, TypePhrase, CreationInv, TypeOK, UnderLock
<1>2. held \subseteq held' /\ held' \subseteq Phrases /\ used' \subseteq Phrases
  <2>1. at[p].pc = "shown" => at[p].phrase \in Phrases
    BY DEF CreationInv, Prepared
  <2>2. QED
    BY <1>1, <2>1 DEF Probe, ReadPassword, Show, Confirm, TypePhrase
<1>3. CASE Refuses(p)
  BY <1>1, <1>2, <1>3, EndsUnwritten DEF Refuses, Texts
<1>4. ASSUME NEW place \in Place, Goes(p, place), UNCHANGED <<page, lock>>,
             \/ place.pc \in {"probed", "password"}
             \/ place.pc = "shown" /\ place.phrase \in Phrases
             \/ place.pc = "ready" /\ place.phrase \in held' /\ place.phrase \in Phrases
      PROVE  CreationInv' /\ StoreGrows
  <2>1. Moves(p, place)
    BY <1>1, <1>2, <1>4 DEF Moves, Goes, UnderLock, Texts
  <2>2. Prepared(place)'
    BY <1>4 DEF Prepared
  <2>3. QED
    BY <1>1, <2>1, <2>2, WritesNothing
<1>5. CASE Probe(p)
  BY <1>3, <1>4, <1>5, IdlePlaces DEF Probe
<1>6. CASE ReadPassword(p)
  BY <1>3, <1>4, <1>6, IdlePlaces DEF ReadPassword
<1>7. CASE Show(p)
  BY <1>3, <1>4, <1>7, IdlePlaces DEF Show
<1>8. CASE Confirm(p)
  <2>1. PICK right \in BOOLEAN :
          /\ held' = IF right THEN held \cup {at[p].phrase} ELSE held
          /\ \/ /\ ConfirmationMatches(right)
                /\ Goes(p, [at[p] EXCEPT !.pc = "ready"])
                /\ UNCHANGED <<page, lock>>
             \/ ~ConfirmationMatches(right) /\ Refuses(p)
    BY <1>8 DEF Confirm
  <2>2. CASE right
    <3>1. at[p].phrase \in held' /\ at[p].phrase \in Phrases
      BY <1>2, <2>1, <2>2
    <3>2. QED
      BY <1>1, <1>4, <2>1, <2>2, <3>1, Places DEF ConfirmationMatches
  <2>3. CASE ~right
    BY <1>3, <2>1, <2>3 DEF ConfirmationMatches
  <2>4. QED
    BY <2>2, <2>3
<1>9. CASE TypePhrase(p)
  <2>1. CASE Refuses(p)
    BY <1>3, <2>1
  <2>2. CASE \E w \in Phrases :
               /\ held' = held \cup {w}
               /\ Goes(p, [Idle EXCEPT !.pc = "ready", !.phrase = w])
               /\ UNCHANGED <<page, lock>>
    BY <1>4, <2>2, IdlePlaces
  <2>3. QED
    BY <1>9, <2>1, <2>2 DEF TypePhrase
<1>10. QED
  BY <1>5, <1>6, <1>7, <1>8, <1>9

\* The lock is taken over an empty directory.
LEMMA CreateLockStep ==
  ASSUME CreationInv, NEW p \in Processes, CreateLock(p)
  PROVE  CreationInv' /\ StoreGrows
<1>1. /\ at[p] \in Place /\ at[p].pc = "ready" /\ Prepared(at[p])
      /\ UNCHANGED <<store, held, used, maker, key>>
      /\ used \subseteq Phrases /\ held \subseteq Phrases
      /\ maker \in Processes \cup {Nobody}
  BY DEF CreateLock, CreationInv, TypeOK
<1>2. CASE Refuses(p)
  BY <1>1, <1>2, EndsUnwritten DEF Refuses, Texts
<1>3. CASE /\ lock = Nobody /\ ~Occupied(p) /\ lock' = p
           /\ Goes(p, [at[p] EXCEPT !.pc = "locked"]) /\ UNCHANGED page
  <2>1. PICK place \in Place :
          /\ place.pc = "locked" /\ place.phrase = at[p].phrase /\ Goes(p, place)
    BY <1>1, <1>3, Places
  <2>2. Moves(p, place)
    BY <1>1, <1>3, <2>1 DEF Moves, Goes, UnderLock, Texts
  <2>3. Prepared(place)'
    BY <1>1, <1>3, <2>1 DEF Prepared, Occupied
  <2>4. QED
    BY <1>1, <2>2, <2>3, WritesNothing
<1>4. QED
  BY <1>2, <1>3 DEF CreateLock

\* One commit, done or failed either way, of an image that may be left.
LEMMA CommitStep ==
  ASSUME CreationInv, NEW p \in Processes, lock = p, at[p].pc \in UnderLock,
         NEW image \in Store, NEW next \in Place, next.pc \in UnderLock,
         \/ Commit(p, image, next)
         \/ \E text \in Texts : store' \in {store, image} /\ Ends(p, text),
         UNCHANGED <<held, used, key>>, maker' \in Processes \cup {Nobody},
         store' = image => AccountsAreRecoverable' /\ RestoredFromTheLedger',
         store' = image => Prepared(next)',
         store' = image => StoreGrows
  PROVE  CreationInv' /\ StoreGrows
<1>1. held' \subseteq Phrases /\ used' \subseteq Phrases /\ held \subseteq held'
  BY DEF CreationInv, TypeOK
<1>2. store' \in {store, image}
  BY DEF Commit
<1>3. AccountsAreRecoverable' /\ RestoredFromTheLedger' /\ StoreGrows
  <2>1. CASE store' = image
    BY <2>1
  <2>2. CASE store' = store
    BY <2>2 DEF CreationInv, AccountsAreRecoverable, RestoredFromTheLedger, StoreGrows
  <2>3. QED
    BY <1>2, <2>1, <2>2
<1>4. CASE store' = image /\ Goes(p, next) /\ UNCHANGED <<lock, page>>
  <2>1. Moves(p, next)
    BY <1>1, <1>4 DEF Moves, Goes, Texts
  <2>2. QED
    BY <1>3, <1>4, <2>1, OthersStayPrepared
<1>5. CASE \E text \in Texts : Ends(p, text)
  <2>1. PICK text \in Texts : Ends(p, text)
    BY <1>5
  <2>2. Moves(p, Idle) /\ Prepared(Idle)'
    <3>1. lock' \in {lock, Nobody} /\ (lock' # lock => lock = p) /\ lock' # p
      BY <2>1, NothingIsNotHeld DEF Ends, Released
    <3>2. Idle.pc \notin UnderLock
      BY IdlePlaces DEF UnderLock
    <3>3. Prepared(Idle)'
      BY IdlePlaces DEF Prepared
    <3>4. QED
      BY <1>1, <1>2, <2>1, <3>1, <3>2, <3>3 DEF Moves, Ends, Goes, Says
  <2>3. QED
    BY <1>3, <2>2, IdlePlaces, OthersStayPrepared
<1>6. QED
  BY <1>4, <1>5 DEF Commit, Refuses, Texts

\* create's first commit: the empty store, where there was none.
LEMMA CommitEmptyStep ==
  ASSUME CreationInv, NEW p \in Processes, CommitEmpty(p)
  PROVE  CreationInv' /\ StoreGrows
<1>1. /\ at[p] \in Place /\ at[p].pc = "locked" /\ Prepared(at[p]) /\ store = NotHeld
      /\ UNCHANGED <<held, used, key>> /\ lock = p /\ at[p].pc \in UnderLock
      /\ maker' \in Processes \cup {Nobody}
  BY DEF CommitEmpty, CreationInv, TypeOK, Prepared, UnderLock
<1>2. PICK next \in Place :
        /\ next = [at[p] EXCEPT !.pc = "empty"]
        /\ next.pc = "empty" /\ next.phrase = at[p].phrase
  BY <1>1, Places
<1>3. Commit(p, Empty, next)
  BY <1>2 DEF CommitEmpty
<1>4. ASSUME store' = Empty
      PROVE  /\ AccountsAreRecoverable' /\ RestoredFromTheLedger'
             /\ Prepared(next)' /\ StoreGrows
  BY <1>1, <1>2, <1>4, NothingIsNotHeld
     DEF AccountsAreRecoverable, RestoredFromTheLedger, Prepared, StoreGrows
<1>5. QED
  BY <1>1, <1>2, <1>3, <1>4, NothingIsNotHeld, CommitStep DEF UnderLock

\* The second: the seed, into the empty store.
LEMMA AdoptMasterStep ==
  ASSUME CreationInv, NEW p \in Processes, AdoptMaster(p)
  PROVE  CreationInv' /\ StoreGrows
<1>1. /\ at[p] \in Place /\ at[p].pc = "empty" /\ Prepared(at[p]) /\ store = Empty
      /\ UNCHANGED <<held, used, maker, key>> /\ lock = p /\ at[p].pc \in UnderLock
      /\ maker \in Processes \cup {Nobody}
      /\ at[p].phrase \in held /\ at[p].phrase \in Phrases
  BY DEF AdoptMaster, CreationInv, TypeOK, Prepared, UnderLock
<1>2. PICK next \in Place :
        /\ next = [at[p] EXCEPT !.pc = "seeded"]
        /\ next.pc = "seeded" /\ next.phrase = at[p].phrase
  BY <1>1, Places
<1>3. PICK image : image = Adopted(at[p].phrase)
  OBVIOUS
<1>4. /\ image \in Store /\ image.master = at[p].phrase
      /\ \A k \in Accounts : image.index[k] = NotHeld
  BY <1>1, <1>3, NothingIsNotHeld DEF Adopted, Store
<1>5. Commit(p, image, next)
  BY <1>2, <1>3 DEF AdoptMaster
<1>6. ASSUME store' = image
      PROVE  /\ AccountsAreRecoverable' /\ RestoredFromTheLedger'
             /\ Prepared(next)' /\ StoreGrows
  BY <1>1, <1>2, <1>4, <1>6, NothingIsNotHeld
     DEF AccountsAreRecoverable, RestoredFromTheLedger, Prepared, StoreGrows
<1>7. QED
  BY <1>1, <1>2, <1>4, <1>5, <1>6, CommitStep DEF UnderLock

\* An account is written into a store that has not got it.
LEMMA Entered ==
  ASSUME store \in Store, NEW k \in Accounts, NEW i \in Positions,
         store.index[k] = NotHeld, store.master \in Phrases,
         AccountsAreRecoverable, RestoredFromTheLedger, UNCHANGED <<held, key>>,
         k = 0 \/ (key[store.master][k] # NotHeld /\ i <= key[store.master][k]),
         NEW image, image = [store EXCEPT !.index[k] = i]
  PROVE  /\ image \in Store
         /\ store' = image =>
              /\ AccountsAreRecoverable' /\ RestoredFromTheLedger'
              /\ StoreGrows
<1>1. /\ store.master \in Phrases \cup {NotHeld}
      /\ store.index \in [Accounts -> Positions \cup {NotHeld}]
  BY DEF Store
<1>2. /\ image \in Store /\ image.master = store.master /\ image.index[k] = i
      /\ \A j \in Accounts : j # k => image.index[j] = store.index[j]
  BY <1>1 DEF Store
<1>3. ASSUME store' = image
      PROVE  AccountsAreRecoverable' /\ RestoredFromTheLedger' /\ StoreGrows
  <2>1. store # NotHeld /\ image # NotHeld /\ store.master # NotHeld
    BY <1>2, NothingIsNotHeld
  <2>2. AccountsAreRecoverable'
    BY <1>2, <1>3, <2>1 DEF AccountsAreRecoverable
  <2>3. RestoredFromTheLedger'
    BY <1>2, <1>3, <2>1 DEF RestoredFromTheLedger
  <2>4. StoreGrows
    BY <1>2, <1>3, <2>1 DEF StoreGrows
  <2>5. QED
    BY <2>2, <2>3, <2>4
<1>4. QED
  BY <1>2, <1>3

\* The third: account 0, which the first key is assumed of.
LEMMA AddFirstStep ==
  ASSUME CreationInv, NEW p \in Processes, AddFirst(p)
  PROVE  CreationInv' /\ StoreGrows
<1>1. /\ at[p] \in Place /\ at[p].pc = "seeded"
      /\ UNCHANGED <<held, used, maker, key>> /\ lock = p /\ at[p].pc \in UnderLock
      /\ maker \in Processes \cup {Nobody} /\ held \subseteq Phrases /\ used \subseteq Phrases
      /\ store \in Store /\ store.master \in Phrases /\ store.index[0] = NotHeld
      /\ AccountsAreRecoverable /\ RestoredFromTheLedger
  BY NothingIsNotHeld
     DEF AddFirst, CreationInv, TypeOK, Prepared, UnderLock
<1>2. PICK image : image = [store EXCEPT !.index[0] = 0]
  OBVIOUS
<1>3. /\ image \in Store
      /\ store' = image => AccountsAreRecoverable' /\ RestoredFromTheLedger' /\ StoreGrows
  BY <1>1, <1>2, NothingIsNotHeld, Entered
<1>4. store' \in {store, image} /\ \E text \in Texts : Ends(p, text)
  BY <1>2 DEF AddFirst, Refuses, Texts
<1>5. AccountsAreRecoverable' /\ RestoredFromTheLedger' /\ StoreGrows
  BY <1>1, <1>3, <1>4 DEF AccountsAreRecoverable, RestoredFromTheLedger, StoreGrows
<1>6. PICK text \in Texts : Ends(p, text)
  BY <1>4
<1>7. Moves(p, Idle) /\ Prepared(Idle)'
  BY <1>1, <1>3, <1>4, <1>6, Endings
<1>8. QED
  BY <1>5, <1>7, IdlePlaces, OthersStayPrepared

\* A restore opens the store of a master.
LEMMA OpenForRestoreStep ==
  ASSUME CreationInv, NEW p \in Processes, NEW k \in Accounts, OpenForRestore(p, k)
  PROVE  CreationInv' /\ StoreGrows
<1>1. /\ at[p].pc = "idle" /\ UNCHANGED <<store, held, used, maker, key>>
      /\ lock = Nobody /\ store \in Store /\ store.master \in Phrases \cup {NotHeld}
      /\ maker \in Processes \cup {Nobody} /\ held \subseteq Phrases /\ used \subseteq Phrases
  BY DEF OpenForRestore, CreationInv, TypeOK, Store
<1>2. CASE Ends(p, "needs a master")
  BY <1>1, <1>2, EndsUnwritten DEF Texts
<1>3. CASE /\ store.master # NotHeld /\ lock' = p /\ UNCHANGED page
           /\ Goes(p, [pc |-> "opened", phrase |-> store.master, account |-> k, index |-> 0])
  <2>1. PICK place \in Place :
          place.pc = "opened" /\ place.phrase = store.master /\ Goes(p, place)
    <3>1. [pc |-> "opened", phrase |-> store.master, account |-> k, index |-> 0] \in Place
      BY <1>1, NothingIsNotHeld DEF Place, UnderLock
    <3>2. QED
      BY <1>3, <3>1
  <2>2. Moves(p, place)
    BY <1>1, <1>3, <2>1 DEF Moves, Goes, UnderLock, Texts
  <2>3. Prepared(place)'
    BY <1>1, <1>3, <2>1 DEF Prepared
  <2>4. QED
    BY <1>1, <2>2, <2>3, WritesNothing
<1>4. QED
  BY <1>2, <1>3 DEF OpenForRestore

\* The scan finds a position the ledger has had the account at.
LEMMA ScanStep ==
  ASSUME CreationInv, NEW p \in Processes, Scan(p)
  PROVE  CreationInv' /\ StoreGrows
<1>1. /\ at[p] \in Place /\ at[p].pc = "opened" /\ Prepared(at[p]) /\ lock = p
      /\ UNCHANGED <<store, held, used, maker, key>>
      /\ maker \in Processes \cup {Nobody} /\ held \subseteq Phrases /\ used \subseteq Phrases
      /\ key \in [Phrases -> [Accounts -> Positions \cup {NotHeld}]]
  BY DEF Scan, CreationInv, TypeOK, UnderLock
<1>2. CASE Ends(p, "not restored")
  BY <1>1, <1>2, EndsUnwritten DEF Texts
<1>3. CASE /\ store.index[at[p].account] = NotHeld
           /\ \E i \in Scanned(at[p].phrase, at[p].account) :
                Goes(p, [at[p] EXCEPT !.pc = "found", !.index = i])
           /\ UNCHANGED <<page, lock>>
  <2>1. PICK i \in Scanned(at[p].phrase, at[p].account) :
          Goes(p, [at[p] EXCEPT !.pc = "found", !.index = i])
    BY <1>3
  <2>2. /\ at[p].phrase \in Phrases /\ at[p].account \in Accounts
        /\ i = key[at[p].phrase][at[p].account] /\ i # NotHeld /\ i \in Positions
    <3>1. at[p].phrase \in Phrases /\ at[p].account \in Accounts
      BY <1>1, Places DEF Prepared
    <3>2. key[at[p].phrase][at[p].account] \in Positions \cup {NotHeld}
      BY <1>1, <3>1
    <3>3. QED
      BY <2>1, <3>1, <3>2 DEF Scanned
  <2>3. PICK place \in Place :
          /\ place.pc = "found" /\ place.phrase = at[p].phrase
          /\ place.account = at[p].account /\ place.index = i /\ Goes(p, place)
    <3>1. PICK h \in Place, n \in Positions : h = at[p] /\ n = i
      BY <1>1, <2>2
    <3>2. PICK place : place = [h EXCEPT !.pc = "found", !.index = n]
      OBVIOUS
    <3>3. /\ place \in Place /\ place.pc = "found" /\ place.phrase = h.phrase
          /\ place.account = h.account /\ place.index = n
      BY <3>2 DEF Place, UnderLock
    <3>4. QED
      BY <2>1, <3>1, <3>2, <3>3
  <2>4. Moves(p, place)
    BY <1>1, <1>3, <2>3 DEF Moves, Goes, UnderLock, Texts
  <2>5. Prepared(place)'
    BY <1>1, <1>3, <2>2, <2>3, NothingIsNotHeld DEF Prepared, Positions
  <2>6. QED
    BY <1>1, <2>4, <2>5, WritesNothing
<1>4. QED
  BY <1>2, <1>3 DEF Scan

\* The restored account is written where the scan found it.
LEMMA AddRestoredStep ==
  ASSUME CreationInv, NEW p \in Processes, AddRestored(p)
  PROVE  CreationInv' /\ StoreGrows
<1>1. /\ at[p] \in Place /\ at[p].pc = "found" /\ Prepared(at[p])
      /\ UNCHANGED <<held, used, maker, key>> /\ lock = p /\ at[p].pc \in UnderLock
      /\ maker \in Processes \cup {Nobody} /\ held \subseteq Phrases /\ used \subseteq Phrases
      /\ AccountsAreRecoverable /\ RestoredFromTheLedger
  BY DEF AddRestored, CreationInv, TypeOK, UnderLock
<1>2. PICK k \in Accounts, i \in Positions : k = at[p].account /\ i = at[p].index
  BY <1>1, Places
<1>3. /\ store \in Store /\ store.master \in Phrases /\ store.index[k] = NotHeld
      /\ key[store.master][k] # NotHeld /\ i <= key[store.master][k]
  BY <1>1, <1>2 DEF Prepared
<1>4. PICK image : image = [store EXCEPT !.index[k] = i]
  OBVIOUS
<1>5. /\ image \in Store
      /\ store' = image => AccountsAreRecoverable' /\ RestoredFromTheLedger' /\ StoreGrows
  BY <1>1, <1>2, <1>3, <1>4, Entered
<1>6. store' \in {store, image} /\ \E text \in Texts : Ends(p, text)
  BY <1>2, <1>4 DEF AddRestored, Texts
<1>7. AccountsAreRecoverable' /\ RestoredFromTheLedger' /\ StoreGrows
  BY <1>1, <1>5, <1>6 DEF AccountsAreRecoverable, RestoredFromTheLedger, StoreGrows
<1>8. PICK text \in Texts : Ends(p, text)
  BY <1>6
<1>9. Moves(p, Idle) /\ Prepared(Idle)'
  BY <1>1, <1>5, <1>6, <1>8, Endings
<1>10. QED
  BY <1>7, <1>9, IdlePlaces, OthersStayPrepared

\* A process ends at any step; the operating system gives its lock back.
LEMMA KillStep ==
  ASSUME CreationInv, NEW p \in Processes, Kill(p)
  PROVE  CreationInv' /\ StoreGrows
<1>1. /\ UNCHANGED <<store, page, held, used, maker, key>>
      /\ held \subseteq Phrases /\ used \subseteq Phrases /\ maker \in Processes \cup {Nobody}
      /\ lock' \in {lock, Nobody} /\ (lock' # lock => lock = p) /\ lock' # p
  BY NothingIsNotHeld DEF Kill, CreationInv, TypeOK
<1>2. Idle.pc \notin UnderLock
  BY IdlePlaces DEF UnderLock
<1>3. Moves(p, Idle)
  BY <1>1, <1>2 DEF Moves, Kill, Goes, Texts
<1>4. Prepared(Idle)'
  BY IdlePlaces DEF Prepared
<1>5. QED
  BY <1>1, <1>3, <1>4, IdlePlaces, WritesNothing

\* The ledger's position of an account only grows.
LEMMA LedgerMovesStep ==
  ASSUME CreationInv, NEW w \in Phrases, NEW k \in Accounts, LedgerMoves(w, k)
  PROVE  CreationInv' /\ StoreGrows
<1>1. /\ UNCHANGED <<store, lock, at, page, held, used, maker>>
      /\ key \in [Phrases -> [Accounts -> Positions \cup {NotHeld}]]
      /\ at \in [Processes -> Place]
  BY DEF LedgerMoves, CreationInv, TypeOK
<1>2. PICK i \in Positions : key' = [key EXCEPT ![w][k] = i]
  BY DEF LedgerMoves
<1>3. /\ key' \in [Phrases -> [Accounts -> Positions \cup {NotHeld}]]
      /\ key'[w][k] = i
      /\ \A v \in Phrases, j \in Accounts : v # w \/ j # k => key'[v][j] = key[v][j]
  BY <1>1, <1>2
<1>4. key[w][k] # NotHeld => i = key[w][k] + 1
  BY <1>3 DEF LedgerMoves
<1>5. \A v \in Phrases, j \in Accounts :
        key[v][j] # NotHeld =>
          /\ key'[v][j] # NotHeld
          /\ \A n \in Nat : n <= key[v][j] => n <= key'[v][j]
  <2> SUFFICES ASSUME NEW v \in Phrases, NEW j \in Accounts, key[v][j] # NotHeld
               PROVE  /\ key'[v][j] # NotHeld
                      /\ \A n \in Nat : n <= key[v][j] => n <= key'[v][j]
    OBVIOUS
  <2>1. CASE v = w /\ j = k
    <3>1. key[w][k] \in Positions
      BY <1>1, <2>1
    <3>2. key[w][k] \in Nat /\ key'[w][k] = key[w][k] + 1
      BY <1>3, <1>4, <2>1, <3>1, NothingIsNotHeld
    <3>3. QED
      BY <2>1, <3>2, NothingIsNotHeld
  <2>2. CASE v # w \/ j # k
    BY <1>3, <2>2
  <2>3. QED
    BY <2>1, <2>2
<1>6. TypeOK'
  BY <1>1, <1>3 DEF CreationInv, TypeOK
<1>7. \A p \in Processes : Prepared(at[p])'
  <2> SUFFICES ASSUME NEW p \in Processes
               PROVE  Prepared(at[p])'
    OBVIOUS
  <2>1. Prepared(at[p]) /\ at[p] \in Place /\ at'[p] = at[p]
    BY <1>1 DEF CreationInv
  <2>2. at[p].account \in Accounts /\ at[p].index \in Nat
    BY <2>1, Places, NothingIsNotHeld
  <2>3. QED
    BY <1>1, <1>5, <2>1, <2>2 DEF Prepared
<1>8. AccountsAreRecoverable'
  BY <1>1 DEF CreationInv, AccountsAreRecoverable
<1>9. RestoredFromTheLedger'
  <2> SUFFICES ASSUME store # NotHeld, NEW j \in Accounts \ {0}, store.index[j] # NotHeld
               PROVE  key'[store.master][j] # NotHeld /\ store.index[j] <= key'[store.master][j]
    BY <1>1 DEF RestoredFromTheLedger
  <2>1. /\ store \in Store /\ store.master \in Phrases
        /\ key[store.master][j] # NotHeld /\ store.index[j] <= key[store.master][j]
    BY DEF CreationInv, TypeOK, AccountsAreRecoverable, RestoredFromTheLedger
  <2>2. store.index[j] \in Nat
    BY <2>1, NothingIsNotHeld DEF Store
  <2>3. QED
    BY <1>5, <2>1, <2>2
<1>10. QED
  BY <1>1, <1>6, <1>7, <1>8, <1>9 DEF CreationInv, StoreGrows

\* Every step.
LEMMA EveryStep == ASSUME CreationInv, Next PROVE CreationInv' /\ StoreGrows
  BY PromptSteps, CreateLockStep, CommitEmptyStep, AdoptMasterStep, AddFirstStep,
     OpenForRestoreStep, ScanStep, AddRestoredStep, KillStep, LedgerMovesStep
     DEF Next

-----------------------------------------------------------------------------
(* What holds of the store. *)

\* The invariant, which has the type invariant in it: the lock is held by
\* exactly the process that is writing.
THEOREM CreationInvariant == Spec => []CreationInv
<1>1. Init => CreationInv
  <2> SUFFICES ASSUME Init
               PROVE  CreationInv
    OBVIOUS
  <2>1. TypeOK
    <3>1. \A p \in Processes : at[p].pc \in UnderLock <=> lock = p
      BY IdlePlaces, NothingIsNotHeld DEF Init, UnderLock
    <3>2. at \in [Processes -> Place]
      BY IdlePlaces DEF Init
    <3>3. key \in [Phrases -> [Accounts -> Positions \cup {NotHeld}]]
      <4>1. {NotHeld, 0} \subseteq Positions \cup {NotHeld}
        BY NothingIsNotHeld
      <4>2. QED
        BY <4>1 DEF Init
    <3>4. QED
      BY <3>1, <3>2, <3>3 DEF Init, TypeOK
  <2>2. \A p \in Processes : Prepared(at[p])
    BY IdlePlaces DEF Init, Prepared
  <2>3. QED
    BY <2>1, <2>2 DEF Init, CreationInv, AccountsAreRecoverable, RestoredFromTheLedger
<1>2. CreationInv /\ UNCHANGED vars => CreationInv'
  <2> SUFFICES ASSUME CreationInv, UNCHANGED vars
               PROVE  CreationInv'
    OBVIOUS
  <2>1. TypeOK' /\ AccountsAreRecoverable' /\ RestoredFromTheLedger'
    BY DEF CreationInv, vars, TypeOK, AccountsAreRecoverable, RestoredFromTheLedger
  <2>2. \A p \in Processes : Prepared(at[p])'
    BY DEF CreationInv, vars, Prepared
  <2>3. QED
    BY <2>1, <2>2 DEF CreationInv
<1>3. QED
  BY <1>1, <1>2, EveryStep, PTL DEF Spec

\* A seed in a store is of a phrase the operator read back or typed, and no
\* death between create's commits leaves an account without its seed.
THEOREM AccountsAreRecoverableHolds == Spec => []AccountsAreRecoverable
<1>1. CreationInv => AccountsAreRecoverable
  BY DEF CreationInv
<1>2. QED
  BY <1>1, CreationInvariant, PTL

\* I5: a restored account is never ahead of the ledger, whatever the ledger
\* and the other processes did between the scan and the write.
THEOREM RestoredFromTheLedgerHolds == Spec => []RestoredFromTheLedger
<1>1. CreationInv => RestoredFromTheLedger
  BY DEF CreationInv
<1>2. QED
  BY <1>1, CreationInvariant, PTL

\* No step of any process takes away a store, a seed or an account.
THEOREM StoreOnlyGrowsHolds == Spec => StoreOnlyGrows
<1>1. CreationInv /\ [Next]_vars => [StoreGrows]_vars
  BY EveryStep
<1>2. StoreGrows <=>
        (store # NotHeld =>
          /\ store' # NotHeld
          /\ store.master # NotHeld => store'.master = store.master
          /\ \A k \in Accounts : store.index[k] # NotHeld => store'.index[k] = store.index[k])
  BY DEF StoreGrows
<1>3. QED
  BY <1>1, <1>2, CreationInvariant, PTL DEF Spec, StoreOnlyGrows

=============================================================================
