--------------------------- MODULE SnapshotCommit ---------------------------
(***************************************************************************)
(* The Unix keystore's files: a commit writes a temp file, flushes it,      *)
(* renames it over accounts.mks and flushes the directory, each a step that *)
(* may fail or be the process's last.  Several processes create and open    *)
(* one store directory under its lock, the kernel writes directory entries  *)
(* back when it likes, and the power may go.                                *)
(*                                                                          *)
(* Sources: keystore/mod.rs (create, open, commit), keystore/medium.rs (the *)
(* steps), keystore/directory.rs (the calls they make).                     *)
(*                                                                          *)
(* An image is the sequence of the changes that led to it (DurableStore);   *)
(* the first is the creation, whose salt tells one store from another.      *)
(***************************************************************************)
EXTENDS Naturals, Sequences, SequencesExt

CONSTANTS
  Processes,      \* that run a command over the directory
  Nobody,         \* the lock's holder when it has none
  Changes,        \* what a commit may add
  MaxLength       \* bound of an image's length

Image == BoundedSeq(Changes, MaxLength)

\* A file: what was written to it, all of it or not, and whether its data is
\* on the device.
File == [image : Image, whole : BOOLEAN, flushed : BOOLEAN]

NoFile == [image |-> <<>>, whole |-> FALSE, flushed |-> FALSE]

ASSUME SnapshotAssumption ==
  /\ Nobody \notin Processes
  /\ MaxLength \in Nat \ {0}     \* a creation is an image

VARIABLES
  snapshot,   \* accounts.mks, as every process sees it
  onDevice,   \* accounts.mks, as a power cut now would leave the directory
  temp,       \* accounts.mks.tmp
  rooted,     \* the directory's own entry in its parent is on the device
  lock,       \* the process that holds keystore.lock
  handle,     \* per process, where it is and the images in its hands
  attested,   \* the images a Durable was minted for (history)
  signed      \* the images a signature was released from (history)

files == <<snapshot, onDevice, temp, rooted>>
vars == <<snapshot, onDevice, temp, rooted, lock, handle, attested, signed>>

\* A handle that is not committing has no next image.
Committing == {"sealed", "written", "flushed", "renamed"}
Handle ==
  [pc : {"down", "checked", "locked", "live", "poisoned"}, image : Image, next : {<<>>}]
    \cup [pc : Committing, image : Image, next : Image \ {<<>>}]

Down == [pc |-> "down", image |-> <<>>, next |-> <<>>]

Init ==
  /\ snapshot = NoFile
  /\ onDevice = NoFile
  /\ temp = NoFile
  /\ rooted = FALSE
  /\ lock = Nobody
  /\ handle = [p \in Processes |-> Down]
  /\ attested = {}
  /\ signed = {}

-----------------------------------------------------------------------------
To(p, h) == handle' = [handle EXCEPT ![p] = h]

\* The handle create builds, with its first image sealed.
Creating(c) == [pc |-> "sealed", image |-> <<>>, next |-> <<c>>]

-----------------------------------------------------------------------------
(***************************************************************************)
(* Variants: what a plausible mistake would make of the definition named    *)
(* beside each.                                                             *)
(***************************************************************************)

\* of StillUnoccupied: the check before the lock is enough.
CheckedBefore(p) == handle[p].pc = "checked"

\* of FlushParent: create goes straight to its first commit.
SealUnrooted(p) ==
  /\ handle[p].pc = "locked"
  /\ \E c \in Changes : To(p, Creating(c))
  /\ UNCHANGED <<files, lock, attested, signed>>

-----------------------------------------------------------------------------
\* An error inside a commit poisons the handle before it is returned.
Failed(h) == [pc |-> "poisoned", image |-> h.image, next |-> <<>>]

\* A step is taken by a handle at the place before it; it succeeds, or it
\* fails with its effect there or not.
Succeeds(p, from, to) ==
  handle[p].pc = from /\ To(p, [handle[p] EXCEPT !.pc = to])
Fails(p, from) ==
  handle[p].pc = from /\ To(p, Failed(handle[p]))

-----------------------------------------------------------------------------
(* create: asked twice whether the directory holds a store, once before the *)
(* lock and once under it.                                                  *)

CreateCheck(p) ==
  /\ handle[p].pc = "down"
  /\ snapshot = NoFile
  /\ To(p, [Down EXCEPT !.pc = "checked"])
  /\ UNCHANGED <<files, lock, attested, signed>>

StillUnoccupied(p) == handle[p].pc = "checked" /\ snapshot = NoFile

\* A held lock, like a store that appeared meanwhile, refuses the create.
CreateLock(p) ==
  /\ handle[p].pc = "checked"
  /\ \/ /\ lock = Nobody
        /\ StillUnoccupied(p)
        /\ lock' = p
        /\ To(p, [Down EXCEPT !.pc = "locked"])
     \/ /\ lock # Nobody \/ ~StillUnoccupied(p)
        /\ To(p, Down)
        /\ UNCHANGED lock
  /\ UNCHANGED <<files, attested, signed>>

\* fsync_parent, once and before the first commit: its failure ends create.
FlushParent(p) ==
  /\ handle[p].pc = "locked"
  /\ \/ /\ rooted' = TRUE
        /\ \E c \in Changes : To(p, Creating(c))
        /\ UNCHANGED lock
     \/ /\ rooted' \in {rooted, TRUE}
        /\ To(p, Down)
        /\ lock' = Nobody
  /\ UNCHANGED <<snapshot, onDevice, temp, attested, signed>>

-----------------------------------------------------------------------------
(* A commit of a live handle: the next image is sealed, then the four steps. *)

Seal(p) ==
  /\ handle[p].pc = "live"
  /\ Len(handle[p].image) < MaxLength
  /\ \E c \in Changes :
       To(p, [handle[p] EXCEPT !.pc = "sealed", !.next = Append(handle[p].image, c)])
  /\ UNCHANGED <<files, lock, attested, signed>>

\* A temp left behind is unlinked, a new one created and written.
Temp(h, whole) == [image |-> h.next, whole |-> whole, flushed |-> FALSE]

WriteTemp(p) ==
  /\ \/ /\ Succeeds(p, "sealed", "written")
        /\ temp' = Temp(handle[p], TRUE)
     \/ /\ Fails(p, "sealed")
        /\ temp' \in {temp, NoFile, Temp(handle[p], FALSE), Temp(handle[p], TRUE)}
  /\ UNCHANGED <<snapshot, onDevice, rooted, lock, attested, signed>>

Flushed(file) == [file EXCEPT !.flushed = TRUE]

FsyncFile(p) ==
  /\ \/ Succeeds(p, "written", "flushed") /\ temp' = Flushed(temp)
     \/ Fails(p, "written") /\ temp' \in {temp, Flushed(temp)}
  /\ UNCHANGED <<snapshot, onDevice, rooted, lock, attested, signed>>

Rename(p) ==
  /\ \/ Succeeds(p, "flushed", "renamed") /\ snapshot' = temp /\ temp' = NoFile
     \/ Fails(p, "flushed") /\ snapshot' = temp /\ temp' = NoFile
     \/ Fails(p, "flushed") /\ UNCHANGED <<snapshot, temp>>
  /\ UNCHANGED <<onDevice, rooted, lock, attested, signed>>

\* The last step: on its success a Durable is minted, and the caller's copy of
\* the records moves to the image written.
FsyncDir(p) ==
  /\ \/ /\ handle[p].pc = "renamed"
        /\ onDevice' = snapshot
        /\ attested' = attested \cup {handle[p].next}
        /\ To(p, [pc |-> "live", image |-> handle[p].next, next |-> <<>>])
     \/ /\ Fails(p, "renamed")
        /\ onDevice' \in {onDevice, snapshot}
        /\ UNCHANGED attested
  /\ UNCHANGED <<snapshot, temp, rooted, lock, signed>>

-----------------------------------------------------------------------------
(* open: under the lock, a stale temp is unlinked and the snapshot read.    *)
(* Nothing is flushed.                                                      *)

OpenWith(p) ==
  /\ handle[p].pc = "down"
  /\ lock = Nobody
  /\ snapshot # NoFile
  /\ temp' = NoFile
  /\ IF snapshot.whole
     THEN lock' = p /\ To(p, [Down EXCEPT !.pc = "live", !.image = snapshot.image])
     ELSE UNCHANGED <<lock, handle>>
  /\ UNCHANGED <<snapshot, onDevice, rooted, attested, signed>>

\* A signature from the reservation the handle holds: sign_spend under the
\* receipt of the commit that made it, or resign_reserved, which asks for no
\* receipt.  Neither writes.  The image of a creation reserves nothing.
SignReserved(p) ==
  /\ handle[p].pc = "live"
  /\ Len(handle[p].image) > 1
  /\ signed' = signed \cup {handle[p].image}
  /\ UNCHANGED <<files, lock, handle, attested>>

\* The process ends, or a poisoned handle is dropped, or a command is done.
Stop(p) ==
  /\ handle[p].pc # "down"
  /\ To(p, Down)
  /\ lock' = IF lock = p THEN Nobody ELSE lock
  /\ UNCHANGED <<files, attested, signed>>

-----------------------------------------------------------------------------
(* The kernel and the power (not this repository's code). *)

\* The kernel stores a directory's entries in its own time.
Writeback ==
  /\ \/ onDevice # snapshot /\ onDevice' = snapshot /\ UNCHANGED rooted
     \/ rooted' = TRUE /\ UNCHANGED onDevice
  /\ UNCHANGED <<snapshot, temp, lock, handle, attested, signed>>

\* What the device holds of a file whose data was not flushed: anything.
AfterCut(file) ==
  IF file = NoFile THEN NoFile ELSE [file EXCEPT !.whole = file.flushed]

\* Every process ends and the cache is gone, and the directory with it if its
\* own entry was not stored.
PowerCut ==
  /\ \/ snapshot' = AfterCut(onDevice)
     \/ ~rooted /\ snapshot' = NoFile
  /\ onDevice' = snapshot'
  /\ temp' \in {NoFile, [temp EXCEPT !.whole = FALSE]}
  /\ lock' = Nobody
  /\ handle' = [p \in Processes |-> Down]
  /\ UNCHANGED <<rooted, attested, signed>>

-----------------------------------------------------------------------------
Next ==
  \/ \E p \in Processes :
       \/ CreateCheck(p) \/ CreateLock(p) \/ FlushParent(p)
       \/ Seal(p) \/ WriteTemp(p) \/ FsyncFile(p) \/ Rename(p) \/ FsyncDir(p)
       \/ OpenWith(p) \/ SignReserved(p) \/ Stop(p)
  \/ Writeback \/ PowerCut

Spec == Init /\ [][Next]_vars

-----------------------------------------------------------------------------
(* Properties. *)

\* Every variable has its type; a handle has a next image exactly while it is
\* committing one.
TypeOK ==
  /\ {snapshot, onDevice, temp} \subseteq File
  /\ rooted \in BOOLEAN
  /\ lock \in Processes \cup {Nobody}
  /\ handle \in [Processes -> Handle]
  /\ attested \subseteq Image
  /\ signed \subseteq Image

\* What a restart is sure to find after a power cut.
Kept ==
  IF rooted /\ AfterCut(onDevice).whole THEN onDevice.image ELSE <<>>

Durable == INSTANCE DurableStore WITH kept <- Kept

\* I3: the commit keeps its promise, with two processes creating, opening and
\* dying in one directory: one history, which only grows, and a Durable only
\* for what no power cut can take back.
ImplementsDurableStore == Durable!Spec

\* I2 where processes die and the power stays: a signature is released from
\* what the snapshot holds, and no step of any process takes that back.  (Its
\* key is unused in any image that does not extend the one it was signed from.)
KillsKeepSigned ==
  [][~PowerCut => \A i \in signed' :
       i \notin signed \/ IsPrefix(i, snapshot.image) => IsPrefix(i, snapshot'.image)]_vars

\* I2 as it is stated: the position a signature was released from is durable.
SignedIsKept == \A i \in signed : IsPrefix(i, Kept)

=============================================================================
