------------------------- MODULE SnapshotCommitProofs -------------------------
(***************************************************************************)
(* The Unix commit keeps the promise of DurableStore, whatever processes    *)
(* create, open and die in one directory and wherever the power goes, and   *)
(* no death of a process takes back what a signature was released from.     *)
(***************************************************************************)
EXTENDS SnapshotCommit, SequenceTheorems, TLAPS

-----------------------------------------------------------------------------
(* Prefixes. *)

\* A prefix, position by position.
LEMMA PrefixByPosition ==
  ASSUME NEW s \in Seq(Changes), NEW t \in Seq(Changes)
  PROVE  IsPrefix(s, t) <=>
           Len(s) <= Len(t) /\ \A k \in 1 .. Len(s) : s[k] = t[k]
<1>1. ASSUME Len(s) <= Len(t)
      PROVE  (SubSeq(s, 1, Len(s)) = SubSeq(t, 1, Len(s)))
               <=> \A k \in 1 .. Len(s) : s[k] = t[k]
  <2>1. /\ SubSeq(s, 1, Len(s)) \in Seq(Changes)
        /\ SubSeq(t, 1, Len(s)) \in Seq(Changes)
        /\ Len(SubSeq(s, 1, Len(s))) = Len(s)
        /\ Len(SubSeq(t, 1, Len(s))) = Len(s)
        /\ \A k \in 1 .. Len(s) : SubSeq(s, 1, Len(s))[k] = s[k]
        /\ \A k \in 1 .. Len(s) : SubSeq(t, 1, Len(s))[k] = t[k]
    BY <1>1
  <2>2. QED
    BY <2>1, SeqEqual
<1>2. QED
  BY <1>1 DEF IsPrefix

\* An image that extends one that extends a third extends the third.
LEMMA PrefixTransitive ==
  ASSUME NEW s \in Seq(Changes), NEW t \in Seq(Changes), NEW u \in Seq(Changes),
         IsPrefix(s, t), IsPrefix(t, u)
  PROVE  IsPrefix(s, u)
  BY PrefixByPosition

\* Two images of which one store kept both are parts of one history.
LEMMA PrefixesCompare ==
  ASSUME NEW s \in Seq(Changes), NEW t \in Seq(Changes), NEW u \in Seq(Changes),
         IsPrefix(s, u), IsPrefix(t, u)
  PROVE  IsPrefix(s, t) \/ IsPrefix(t, s)
<1>1. CASE Len(s) <= Len(t)
  BY <1>1, PrefixByPosition
<1>2. CASE Len(t) <= Len(s)
  BY <1>2, PrefixByPosition
<1>3. QED
  BY <1>1, <1>2

-----------------------------------------------------------------------------
(* Images. *)

\* An image is a sequence of changes no longer than the bound.
LEMMA ImageIsSeq ==
  ASSUME NEW i
  PROVE  i \in Image <=> i \in Seq(Changes) /\ Len(i) <= MaxLength
<1>1. ASSUME i \in Image
      PROVE  i \in Seq(Changes) /\ Len(i) <= MaxLength
  BY <1>1, SnapshotAssumption DEF Image, BoundedSeq, SeqOf
<1>2. ASSUME i \in Seq(Changes), Len(i) <= MaxLength
      PROVE  i \in Image
  <2>1. Len(i) \in 0 .. MaxLength /\ i \in [1 .. Len(i) -> Changes]
    BY <1>2, SnapshotAssumption, LenProperties
  <2>2. QED
    BY <2>1 DEF Image, BoundedSeq, SeqOf
<1>3. QED
  BY <1>1, <1>2

\* Every image extends no store and itself, and what extends an extension
\* extends the image.
LEMMA PrefixOrder ==
  ASSUME NEW i \in Image
  PROVE  /\ IsPrefix(<<>>, i)
         /\ IsPrefix(i, i)
         /\ \A j, k \in Image : IsPrefix(i, j) /\ IsPrefix(j, k) => IsPrefix(i, k)
<1>1. i \in Seq(Changes) /\ <<>> \in Seq(Changes)
  BY ImageIsSeq, EmptySeq
<1>2. IsPrefix(<<>>, i) /\ IsPrefix(i, i)
  <2>1. Len(<<>>) = 0 /\ Len(i) \in Nat /\ \A k \in 1 .. 0 : FALSE
    BY <1>1, EmptySeq, LenProperties
  <2>2. IsPrefix(<<>>, i)
    <3>1. ASSUME NEW e \in Seq(Changes), Len(e) = 0
          PROVE  IsPrefix(e, i)
      <4>1. Len(e) <= Len(i) /\ \A k \in 1 .. Len(e) : e[k] = i[k]
        BY <2>1, <3>1
      <4>2. QED
        BY <1>1, <4>1, PrefixByPosition
    <3>2. QED
      BY <1>1, <2>1, <3>1
  <2>3. IsPrefix(i, i)
    BY <1>1, <2>1, PrefixByPosition
  <2>4. QED
    BY <2>2, <2>3
<1>3. ASSUME NEW j \in Image, NEW k \in Image, IsPrefix(i, j), IsPrefix(j, k)
      PROVE  IsPrefix(i, k)
  <2>1. j \in Seq(Changes) /\ k \in Seq(Changes)
    BY ImageIsSeq
  <2>2. QED
    BY <1>1, <1>3, <2>1, PrefixTransitive
<1>4. QED
  BY <1>2, <1>3

\* Only no store is extended by no store.
LEMMA NothingBeforeEmpty ==
  ASSUME NEW i \in Image, IsPrefix(i, <<>>)
  PROVE  i = <<>>
<1>1. i \in Seq(Changes) /\ Len(i) <= 0
  BY ImageIsSeq, EmptySeq DEF IsPrefix
<1>2. QED
  BY <1>1, EmptySeq, LenProperties

\* A change appended to an image that is below the bound gives an image that
\* extends it.
LEMMA AppendExtends ==
  ASSUME NEW i \in Image, NEW c \in Changes, Len(i) < MaxLength
  PROVE  /\ Append(i, c) \in Image \ {<<>>}
         /\ IsPrefix(i, Append(i, c))
<1>1. i \in Seq(Changes)
  BY ImageIsSeq
<1>2. /\ Append(i, c) \in Seq(Changes)
      /\ Len(Append(i, c)) = Len(i) + 1
      /\ \A k \in 1 .. Len(i) : Append(i, c)[k] = i[k]
  BY <1>1, AppendProperties
<1>3. Len(Append(i, c)) <= MaxLength /\ Len(i) <= Len(Append(i, c))
  BY <1>1, <1>2, LenProperties, SnapshotAssumption
<1>4. Append(i, c) # <<>>
  BY <1>1, <1>2, LenProperties, EmptySeq
<1>5. IsPrefix(i, Append(i, c))
  BY <1>1, <1>2, <1>3, PrefixByPosition
<1>6. QED
  BY <1>2, <1>3, <1>4, <1>5, ImageIsSeq

-----------------------------------------------------------------------------
(* The invariant. *)

\* Only the holder of the lock is past it.
PastLock == {"locked", "live", "poisoned"} \cup Committing

\* A name stands for a whole file whose data is stored, or for none: rename
\* comes after the flush, and a power cut leaves either.
Stored(f) == f = NoFile \/ (f.whole /\ f.flushed /\ f.image # <<>>)

\* What the process p relies on at its place in a command.
InHand(p) ==
  LET h == handle[p]
  IN  /\ h.pc \in PastLock => lock = p
      /\ h.pc \in {"live"} \cup Committing => rooted
      /\ h.pc = "locked" => snapshot = NoFile
      /\ h.pc = "live" => snapshot # NoFile
      /\ h.pc \in {"live", "sealed", "written", "flushed"} => snapshot.image = h.image
      /\ h.pc \in Committing => IsPrefix(h.image, h.next)
      /\ h.pc = "written" => temp.image = h.next /\ temp.whole
      /\ h.pc = "flushed" => temp = [image |-> h.next, whole |-> TRUE, flushed |-> TRUE]
      /\ h.pc = "renamed" => snapshot # NoFile /\ snapshot.image = h.next

CommitInv ==
  /\ TypeOK
  /\ Stored(snapshot) /\ Stored(onDevice)
  /\ snapshot # NoFile => rooted
  /\ IsPrefix(onDevice.image, snapshot.image)
  /\ \A p \in Processes : InHand(p)

-----------------------------------------------------------------------------
(* Handles. *)

\* The empty store is an image.
LEMMA EmptyIsImage == <<>> \in Image
<1>1. <<>> \in Seq(Changes) /\ Len(<<>>) <= MaxLength
  BY EmptySeq, SnapshotAssumption
<1>2. QED
  BY <1>1, ImageIsSeq

\* A creation's first image.
LEMMA FirstIsImage ==
  ASSUME NEW c \in Changes
  PROVE  <<c>> \in Image \ {<<>>} /\ IsPrefix(<<>>, <<c>>)
<1>1. <<c>> \in Seq(Changes) /\ <<c>> # <<>> /\ Len(<<c>>) <= MaxLength
  BY SnapshotAssumption
<1>2. <<c>> \in Image
  BY <1>1, ImageIsSeq
<1>3. QED
  BY <1>1, <1>2, PrefixOrder

\* A handle, field by field.
LEMMA HandleFields ==
  ASSUME NEW h \in Handle
  PROVE  /\ h = [pc |-> h.pc, image |-> h.image, next |-> h.next]
         /\ h.pc \in {"down", "checked"} \cup PastLock
         /\ h.image \in Image /\ h.next \in Image
         /\ h.pc \in Committing <=> h.next # <<>>
  BY EmptyIsImage DEF Handle, PastLock, Committing

\* What setting one handle leaves of the others.
LEMMA SetHandle ==
  ASSUME TypeOK, NEW p \in Processes, NEW h \in Handle, To(p, h)
  PROVE  /\ handle' \in [Processes -> Handle]
         /\ handle'[p] = h
         /\ \A q \in Processes \ {p} : handle'[q] = handle[q]
  BY DEF TypeOK, To

\* While one process holds the lock every other is before it.
LEMMA OthersWait ==
  ASSUME CommitInv, NEW p \in Processes, NEW q \in Processes \ {p}, lock = p
  PROVE  handle[q].pc \in {"down", "checked"}
<1>1. handle[q] \in Handle
  BY DEF CommitInv, TypeOK
<1>2. QED
  BY <1>1, HandleFields DEF CommitInv, InHand

\* A process that is not there is a handle, and down.
LEMMA DownIsHandle ==
  /\ Down \in Handle
  /\ Down = [pc |-> "down", image |-> <<>>, next |-> <<>>]
  /\ [Down EXCEPT !.pc = "checked"] = [pc |-> "checked", image |-> <<>>, next |-> <<>>]
  /\ [Down EXCEPT !.pc = "locked"] = [pc |-> "locked", image |-> <<>>, next |-> <<>>]
  BY EmptyIsImage DEF Down, Handle

-----------------------------------------------------------------------------
(* The steps of create. *)

\* create looks for a store before it takes the lock.
LEMMA CreateCheckStep ==
  ASSUME CommitInv, NEW p \in Processes, CreateCheck(p)
  PROVE  CommitInv'
<1> DEFINE h == [pc |-> "checked", image |-> <<>>, next |-> <<>>]
<1>1. h \in Handle
  BY EmptyIsImage DEF Handle
<1>2. To(p, h)
  BY DownIsHandle DEF CreateCheck
<1>3. /\ handle' \in [Processes -> Handle]
      /\ handle'[p] = h
      /\ \A q \in Processes \ {p} : handle'[q] = handle[q]
  BY <1>1, <1>2, SetHandle DEF CommitInv
<1>4. TypeOK'
  BY <1>3 DEF CommitInv, TypeOK, CreateCheck, files
<1>5. ASSUME NEW q \in Processes
      PROVE  InHand(q)'
  BY <1>3 DEF CommitInv, InHand, CreateCheck, files, PastLock, Committing
<1>6. QED
  BY <1>4, <1>5 DEF CommitInv, CreateCheck, files, Stored

\* create takes the lock and looks again.
LEMMA CreateLockStep ==
  ASSUME CommitInv, NEW p \in Processes, CreateLock(p)
  PROVE  CommitInv'
<1> DEFINE h == [pc |-> "locked", image |-> <<>>, next |-> <<>>]
<1>1. h \in Handle
  BY EmptyIsImage DEF Handle
<1>2. handle[p].pc = "checked"
  BY DEF CreateLock
<1>3. CASE lock = Nobody /\ StillUnoccupied(p) /\ lock' = p /\ To(p, h)
  <2>1. /\ handle' \in [Processes -> Handle]
        /\ handle'[p] = h
        /\ \A q \in Processes \ {p} : handle'[q] = handle[q]
    BY <1>1, <1>3, SetHandle DEF CommitInv
  <2>2. TypeOK'
    BY <1>3, <2>1 DEF CommitInv, TypeOK, CreateLock, files
  <2>3. ASSUME NEW q \in Processes
        PROVE  InHand(q)'
    <3>1. CASE q = p
      BY <1>3, <2>1, <3>1 DEF InHand, CreateLock, files, PastLock, Committing, StillUnoccupied
    <3>2. CASE q # p
      BY <1>3, <2>1, <3>2, SnapshotAssumption
         DEF CommitInv, InHand, CreateLock, files, PastLock, Committing
    <3>3. QED
      BY <3>1, <3>2
  <2>4. QED
    BY <2>2, <2>3 DEF CommitInv, CreateLock, files, Stored
<1>4. CASE To(p, Down) /\ lock' = lock
  <2>1. /\ handle' \in [Processes -> Handle]
        /\ handle'[p] = Down
        /\ \A q \in Processes \ {p} : handle'[q] = handle[q]
    BY <1>4, DownIsHandle, SetHandle DEF CommitInv
  <2>2. TypeOK'
    BY <1>4, <2>1 DEF CommitInv, TypeOK, CreateLock, files
  <2>3. ASSUME NEW q \in Processes
        PROVE  InHand(q)'
    BY <1>4, <2>1 DEF CommitInv, InHand, CreateLock, files, PastLock, Committing, Down
  <2>4. QED
    BY <2>2, <2>3 DEF CommitInv, CreateLock, files, Stored
<1>5. QED
  BY <1>3, <1>4, DownIsHandle DEF CreateLock

\* create flushes the entry of the store directory in its parent.
LEMMA FlushParentStep ==
  ASSUME CommitInv, NEW p \in Processes, FlushParent(p)
  PROVE  CommitInv'
<1>1. handle[p].pc = "locked" /\ lock = p /\ snapshot = NoFile
  BY DEF FlushParent, CommitInv, InHand, PastLock
<1>2. \A q \in Processes \ {p} : handle[q].pc \in {"down", "checked"}
  BY <1>1, OthersWait
<1>3. ASSUME NEW c \in Changes, rooted', To(p, Creating(c)), lock' = lock
      PROVE  CommitInv'
  <2>1. Creating(c) \in Handle
    BY FirstIsImage, EmptyIsImage DEF Creating, Handle, Committing
  <2>2. /\ handle' \in [Processes -> Handle]
        /\ handle'[p] = Creating(c)
        /\ \A q \in Processes \ {p} : handle'[q] = handle[q]
    BY <1>3, <2>1, SetHandle DEF CommitInv
  <2>3. TypeOK'
    BY <1>3, <2>2 DEF CommitInv, TypeOK, FlushParent
  <2>4. ASSUME NEW q \in Processes
        PROVE  InHand(q)'
    <3>1. CASE q = p
      BY <1>1, <1>3, <2>2, <3>1, FirstIsImage
         DEF InHand, FlushParent, PastLock, Committing, Creating, NoFile
    <3>2. CASE q # p
      BY <1>2, <2>2, <3>2 DEF InHand, PastLock, Committing
    <3>3. QED
      BY <3>1, <3>2
  <2>5. QED
    BY <1>3, <2>3, <2>4 DEF CommitInv, FlushParent, Stored
<1>4. ASSUME rooted' \in {rooted, TRUE}, To(p, Down), lock' = Nobody
      PROVE  CommitInv'
  <2>1. /\ handle' \in [Processes -> Handle]
        /\ handle'[p] = Down
        /\ \A q \in Processes \ {p} : handle'[q] = handle[q]
    BY <1>4, DownIsHandle, SetHandle DEF CommitInv
  <2>2. TypeOK'
    BY <1>4, <2>1 DEF CommitInv, TypeOK, FlushParent
  <2>3. ASSUME NEW q \in Processes
        PROVE  InHand(q)'
    BY <1>2, <2>1 DEF InHand, PastLock, Committing, Down
  <2>4. QED
    BY <1>1, <1>4, <2>2, <2>3 DEF CommitInv, FlushParent, Stored
<1>5. QED
  BY <1>3, <1>4 DEF FlushParent

-----------------------------------------------------------------------------
(* The steps of a commit, all of the lock's holder. *)

\* Whatever the holder of the lock does to its handle, the others are before
\* the lock and rely on nothing.
LEMMA HolderMoves ==
  ASSUME CommitInv, NEW p \in Processes, handle[p].pc \in PastLock,
         NEW h \in Handle, To(p, h)
  PROVE  /\ handle' \in [Processes -> Handle]
         /\ handle'[p] = h
         /\ \A q \in Processes \ {p} : InHand(q)'
<1>1. lock = p
  BY DEF CommitInv, InHand
<1>2. /\ handle' \in [Processes -> Handle]
      /\ handle'[p] = h
      /\ \A q \in Processes \ {p} : handle'[q] = handle[q]
  BY SetHandle DEF CommitInv
<1>3. \A q \in Processes \ {p} : handle'[q].pc \in {"down", "checked"}
  BY <1>1, <1>2, OthersWait
<1>4. \A q \in Processes \ {p} : InHand(q)'
  BY <1>3 DEF InHand, PastLock, Committing
<1>5. QED
  BY <1>2, <1>4

\* The handle of a step that succeeds, and of one that fails.
LEMMA StepHandles ==
  ASSUME NEW h \in Handle, h.pc \in Committing
  PROVE  /\ Failed(h) \in Handle
         /\ Failed(h) = [pc |-> "poisoned", image |-> h.image, next |-> <<>>]
         /\ \A to \in Committing :
              /\ [h EXCEPT !.pc = to] \in Handle
              /\ [h EXCEPT !.pc = to] = [pc |-> to, image |-> h.image, next |-> h.next]
         /\ h.image \in Image /\ h.next \in Image \ {<<>>}
  BY EmptyIsImage DEF Handle, Failed, Committing

\* A step that fails before or after its effect, leaving every name stored.
LEMMA FailedStep ==
  ASSUME CommitInv, NEW p \in Processes, handle[p].pc \in Committing,
         To(p, Failed(handle[p])), lock' = lock
  PROVE  /\ handle' \in [Processes -> Handle]
         /\ \A q \in Processes : InHand(q)'
<1>1. handle[p] \in Handle
  BY DEF CommitInv, TypeOK
<1>2. /\ handle' \in [Processes -> Handle]
      /\ handle'[p] = [pc |-> "poisoned", image |-> handle[p].image, next |-> <<>>]
      /\ \A q \in Processes \ {p} : InHand(q)'
  BY <1>1, StepHandles, HolderMoves DEF PastLock
<1>3. lock' = p
  BY DEF CommitInv, InHand, PastLock
<1>4. InHand(p)'
  BY <1>2, <1>3 DEF InHand, PastLock, Committing
<1>5. QED
  BY <1>2, <1>4

\* The handle of a commit that begins.
LEMMA SealedHandle ==
  ASSUME NEW h \in Handle, NEW i \in Image \ {<<>>}
  PROVE  /\ [h EXCEPT !.pc = "sealed", !.next = i] \in Handle
         /\ [h EXCEPT !.pc = "sealed", !.next = i]
              = [pc |-> "sealed", image |-> h.image, next |-> i]
<1> DEFINE g == [h EXCEPT !.pc = "sealed", !.next = i]
<1>1. g \in Handle /\ g.pc = "sealed" /\ g.image = h.image /\ g.next = i
  BY DEF Handle, Committing
<1> HIDE DEF g
<1>2. g = [pc |-> "sealed", image |-> h.image, next |-> i]
  BY <1>1, HandleFields
<1>3. QED
  BY <1>1, <1>2 DEF g

\* seal takes the next image, one change later.
LEMMA SealStep ==
  ASSUME CommitInv, NEW p \in Processes, Seal(p)
  PROVE  CommitInv'
<1>1. PICK c \in Changes :
        To(p, [handle[p] EXCEPT !.pc = "sealed", !.next = Append(handle[p].image, c)])
  BY DEF Seal
<1> DEFINE h == [pc |-> "sealed", image |-> handle[p].image,
                 next |-> Append(handle[p].image, c)]
<1>2. handle[p] \in Handle /\ handle[p].pc = "live" /\ handle[p].image \in Image
  BY HandleFields DEF Seal, CommitInv, TypeOK
<1>3. h.next \in Image \ {<<>>} /\ IsPrefix(h.image, h.next)
  BY <1>2, AppendExtends DEF Seal
<1>4. h \in Handle
  BY <1>2, <1>3 DEF Handle, Committing
<1>5. [handle[p] EXCEPT !.pc = "sealed", !.next = Append(handle[p].image, c)] = h
  BY <1>2, <1>3, SealedHandle
<1>6. /\ handle' \in [Processes -> Handle]
      /\ handle'[p] = h
      /\ \A q \in Processes \ {p} : InHand(q)'
  BY <1>1, <1>2, <1>4, <1>5, HolderMoves DEF PastLock
<1>7. InHand(p)'
  BY <1>2, <1>3, <1>6 DEF CommitInv, InHand, Seal, files, PastLock, Committing
<1>8. QED
  BY <1>6, <1>7 DEF CommitInv, TypeOK, Seal, files, Stored

\* Files, field by field.
LEMMA Files ==
  /\ NoFile \in File
  /\ NoFile.image = <<>>
  /\ \A h \in Handle, w \in BOOLEAN : Temp(h, w) \in File
  /\ \A f \in File : /\ Flushed(f) \in File
                     /\ Flushed(f) = [image |-> f.image, whole |-> f.whole,
                                      flushed |-> TRUE]
<1>1. NoFile \in File /\ NoFile.image = <<>>
  BY EmptyIsImage DEF NoFile, File
<1>2. ASSUME NEW h \in Handle, NEW w \in BOOLEAN
      PROVE  Temp(h, w) \in File
  BY HandleFields DEF Temp, File
<1>3. ASSUME NEW f \in File
      PROVE  /\ Flushed(f) \in File
             /\ Flushed(f) = [image |-> f.image, whole |-> f.whole, flushed |-> TRUE]
  <2> DEFINE g == Flushed(f)
  <2>1. g \in File /\ g.image = f.image /\ g.whole = f.whole /\ g.flushed = TRUE
    BY DEF Flushed, File
  <2> HIDE DEF g
  <2>2. g = [image |-> g.image, whole |-> g.whole, flushed |-> g.flushed]
    BY <2>1 DEF File
  <2>3. g = [image |-> f.image, whole |-> f.whole, flushed |-> TRUE]
    BY <2>1, <2>2
  <2>4. QED
    BY <2>1, <2>3 DEF g
<1>4. QED
  BY <1>1, <1>2, <1>3

\* The next image is written to the temporary file, whole or in part.
LEMMA WriteTempStep ==
  ASSUME CommitInv, NEW p \in Processes, WriteTemp(p)
  PROVE  CommitInv'
<1>1. handle[p] \in Handle /\ handle[p].pc = "sealed" /\ handle[p].pc \in Committing
  BY DEF WriteTemp, Succeeds, Fails, CommitInv, TypeOK, Committing
<1>2. {snapshot, onDevice, temp}' \subseteq File
  BY <1>1, Files DEF WriteTemp, CommitInv, TypeOK
<1>3. CASE Succeeds(p, "sealed", "written") /\ temp' = Temp(handle[p], TRUE)
  <2>1. /\ handle' \in [Processes -> Handle]
        /\ handle'[p] = [pc |-> "written", image |-> handle[p].image,
                         next |-> handle[p].next]
        /\ \A q \in Processes \ {p} : InHand(q)'
    BY <1>1, <1>3, StepHandles, HolderMoves DEF Succeeds, PastLock, Committing
  <2>2. InHand(p)'
    BY <1>1, <1>3, <2>1 DEF CommitInv, InHand, WriteTemp, Temp, PastLock, Committing
  <2>3. QED
    BY <1>2, <2>1, <2>2 DEF CommitInv, TypeOK, WriteTemp, Stored
<1>4. CASE Fails(p, "sealed")
  <2>1. handle' \in [Processes -> Handle] /\ \A q \in Processes : InHand(q)'
    BY <1>1, <1>4, FailedStep DEF Fails, WriteTemp
  <2>2. QED
    BY <1>2, <2>1 DEF CommitInv, TypeOK, WriteTemp, Stored
<1>5. QED
  BY <1>3, <1>4 DEF WriteTemp

\* The temporary file is flushed; a flush that failed has stored it or has not.
LEMMA FsyncFileStep ==
  ASSUME CommitInv, NEW p \in Processes, FsyncFile(p)
  PROVE  CommitInv'
<1>1. handle[p] \in Handle /\ handle[p].pc = "written" /\ handle[p].pc \in Committing
  BY DEF FsyncFile, Succeeds, Fails, CommitInv, TypeOK, Committing
<1>2. {snapshot, onDevice, temp}' \subseteq File
  BY <1>1, Files DEF FsyncFile, CommitInv, TypeOK
<1>3. CASE Succeeds(p, "written", "flushed") /\ temp' = Flushed(temp)
  <2>1. /\ handle' \in [Processes -> Handle]
        /\ handle'[p] = [pc |-> "flushed", image |-> handle[p].image,
                         next |-> handle[p].next]
        /\ \A q \in Processes \ {p} : InHand(q)'
    BY <1>1, <1>3, StepHandles, HolderMoves DEF Succeeds, PastLock, Committing
  <2>2. temp' = [image |-> handle[p].next, whole |-> TRUE, flushed |-> TRUE]
    BY <1>1, <1>3, Files DEF CommitInv, TypeOK, InHand
  <2>3. InHand(p)'
    BY <1>1, <2>1, <2>2 DEF CommitInv, InHand, FsyncFile, PastLock, Committing
  <2>4. QED
    BY <1>2, <2>1, <2>3 DEF CommitInv, TypeOK, FsyncFile, Stored
<1>4. CASE Fails(p, "written")
  <2>1. handle' \in [Processes -> Handle] /\ \A q \in Processes : InHand(q)'
    BY <1>1, <1>4, FailedStep DEF Fails, FsyncFile
  <2>2. QED
    BY <1>2, <2>1 DEF CommitInv, TypeOK, FsyncFile, Stored
<1>5. QED
  BY <1>3, <1>4 DEF FsyncFile

\* The snapshot moves on to the image the holder had, which extends it.
LEMMA RenameGrows ==
  ASSUME CommitInv, NEW p \in Processes, handle[p].pc = "flushed", snapshot' = temp
  PROVE  /\ snapshot' \in File /\ Stored(snapshot') /\ snapshot' # NoFile
         /\ snapshot'.image = handle[p].next
         /\ IsPrefix(snapshot.image, snapshot'.image)
         /\ IsPrefix(onDevice.image, snapshot'.image)
<1>1. handle[p] \in Handle
  BY DEF CommitInv, TypeOK
<1>2. handle[p].image \in Image /\ handle[p].next \in Image \ {<<>>}
  BY <1>1, HandleFields DEF Committing
<1>3. /\ temp = [image |-> handle[p].next, whole |-> TRUE, flushed |-> TRUE]
      /\ snapshot.image = handle[p].image
      /\ IsPrefix(handle[p].image, handle[p].next)
  BY DEF CommitInv, InHand, Committing
<1>4. temp \in File /\ snapshot \in File /\ onDevice \in File
  BY DEF CommitInv, TypeOK
<1>5. onDevice.image \in Image
  BY <1>4 DEF File
<1>6. IsPrefix(onDevice.image, handle[p].next)
  BY <1>2, <1>3, <1>5, PrefixOrder DEF CommitInv
<1>7. QED
  BY <1>2, <1>3, <1>4, <1>6, Files DEF Stored

\* The temporary file takes the name of the snapshot.
LEMMA RenameStep ==
  ASSUME CommitInv, NEW p \in Processes, Rename(p)
  PROVE  CommitInv'
<1>1. handle[p] \in Handle /\ handle[p].pc = "flushed" /\ handle[p].pc \in Committing
  BY DEF Rename, Succeeds, Fails, CommitInv, TypeOK, Committing
<1>2. rooted
  BY <1>1 DEF CommitInv, InHand
<1>3. ASSUME snapshot' = temp, temp' = NoFile, handle' \in [Processes -> Handle],
             \A q \in Processes : InHand(q)'
      PROVE  CommitInv'
  <2>1. /\ snapshot' \in File /\ Stored(snapshot')
        /\ IsPrefix(onDevice.image, snapshot'.image)
    BY <1>1, <1>3, RenameGrows
  <2>2. TypeOK'
    BY <1>3, <2>1, Files DEF CommitInv, TypeOK, Rename
  <2>3. QED
    BY <1>2, <1>3, <2>1, <2>2 DEF CommitInv, Rename, Stored
<1>4. CASE Succeeds(p, "flushed", "renamed") /\ snapshot' = temp /\ temp' = NoFile
  <2>1. /\ handle' \in [Processes -> Handle]
        /\ handle'[p] = [pc |-> "renamed", image |-> handle[p].image,
                         next |-> handle[p].next]
        /\ \A q \in Processes \ {p} : InHand(q)'
    BY <1>1, <1>4, StepHandles, HolderMoves DEF Succeeds, PastLock, Committing
  <2>2. snapshot' # NoFile /\ snapshot'.image = handle[p].next
    BY <1>1, <1>4, RenameGrows
  <2>3. InHand(p)'
    BY <1>1, <2>1, <2>2 DEF CommitInv, InHand, Rename, PastLock, Committing
  <2>4. QED
    BY <1>3, <1>4, <2>1, <2>3
<1>5. CASE Fails(p, "flushed")
  <2>1. handle' \in [Processes -> Handle] /\ \A q \in Processes : InHand(q)'
    BY <1>1, <1>5, FailedStep DEF Fails, Rename
  <2>2. CASE snapshot' = temp /\ temp' = NoFile
    BY <1>3, <2>1, <2>2
  <2>3. CASE UNCHANGED <<snapshot, temp>>
    BY <2>1, <2>3 DEF CommitInv, TypeOK, Rename, Stored
  <2>4. QED
    BY <1>1, <2>2, <2>3 DEF Rename, Succeeds
<1>6. QED
  BY <1>4, <1>5 DEF Rename

\* The directory is flushed: the name is on the device, and a Durable is minted.
LEMMA FsyncDirStep ==
  ASSUME CommitInv, NEW p \in Processes, FsyncDir(p)
  PROVE  CommitInv'
<1>1. /\ handle[p] \in Handle /\ handle[p].pc = "renamed"
      /\ handle[p].pc \in Committing /\ handle[p].pc \in PastLock
  BY DEF FsyncDir, Fails, CommitInv, TypeOK, Committing, PastLock
<1>2. /\ snapshot \in File /\ snapshot.image \in Image
      /\ IsPrefix(snapshot.image, snapshot.image)
  BY PrefixOrder DEF CommitInv, TypeOK, File
<1>3. onDevice' \in {onDevice, snapshot}
  BY DEF FsyncDir
<1>4. CASE /\ attested' = attested \cup {handle[p].next}
           /\ To(p, [pc |-> "live", image |-> handle[p].next, next |-> <<>>])
  <2>1. handle[p].next \in Image
    BY <1>1, HandleFields
  <2>2. [pc |-> "live", image |-> handle[p].next, next |-> <<>>] \in Handle
    BY <2>1 DEF Handle
  <2>3. /\ handle' \in [Processes -> Handle]
        /\ handle'[p] = [pc |-> "live", image |-> handle[p].next, next |-> <<>>]
        /\ \A q \in Processes \ {p} : InHand(q)'
    BY <1>1, <1>4, <2>2, HolderMoves
  <2>4. InHand(p)'
    BY <1>1, <2>3 DEF CommitInv, InHand, FsyncDir, PastLock, Committing
  <2>5. QED
    BY <1>2, <1>3, <1>4, <2>1, <2>3, <2>4 DEF CommitInv, TypeOK, FsyncDir, Stored
<1>5. CASE Fails(p, "renamed") /\ UNCHANGED attested
  <2>1. handle' \in [Processes -> Handle] /\ \A q \in Processes : InHand(q)'
    BY <1>1, <1>5, FailedStep DEF Fails, FsyncDir
  <2>2. QED
    BY <1>2, <1>3, <1>5, <2>1 DEF CommitInv, TypeOK, FsyncDir, Stored
<1>6. QED
  BY <1>4, <1>5 DEF FsyncDir

-----------------------------------------------------------------------------
(* Opening, signing and ending. *)

\* open takes the lock and what the snapshot holds.
LEMMA OpenWithStep ==
  ASSUME CommitInv, NEW p \in Processes, OpenWith(p)
  PROVE  CommitInv'
<1> DEFINE h == [Down EXCEPT !.pc = "live", !.image = snapshot.image]
<1>1. snapshot \in File /\ snapshot.image \in Image
  BY DEF CommitInv, TypeOK, File
<1>2. h \in Handle /\ h.pc = "live" /\ h.image = snapshot.image
  BY <1>1, DownIsHandle DEF Handle
<1>3. snapshot.whole /\ snapshot # NoFile
  BY DEF OpenWith, CommitInv, Stored
<1>4. lock = Nobody /\ lock' = p /\ To(p, h)
  BY <1>3 DEF OpenWith
<1> HIDE DEF h
<1>5. /\ handle' \in [Processes -> Handle]
      /\ handle'[p] = h
      /\ \A q \in Processes \ {p} : handle'[q] = handle[q]
  BY <1>2, <1>4, SetHandle DEF CommitInv
<1>6. TypeOK'
  BY <1>4, <1>5, Files DEF CommitInv, TypeOK, OpenWith
<1>7. ASSUME NEW q \in Processes
      PROVE  InHand(q)'
  <2>1. CASE q = p
    BY <1>2, <1>3, <1>4, <1>5, <2>1 DEF CommitInv, InHand, OpenWith, PastLock, Committing
  <2>2. CASE q # p
    <3>1. handle[q] \in Handle /\ handle[q].pc \notin PastLock
      BY <1>4, SnapshotAssumption DEF CommitInv, TypeOK, InHand
    <3>2. QED
      BY <1>5, <2>2, <3>1 DEF InHand, PastLock, Committing
  <2>3. QED
    BY <2>1, <2>2
<1>8. QED
  BY <1>6, <1>7 DEF CommitInv, OpenWith, Stored

\* A signature is released from what the handle holds.
LEMMA SignReservedStep ==
  ASSUME CommitInv, NEW p \in Processes, SignReserved(p)
  PROVE  CommitInv'
<1>1. handle[p].image \in Image
  BY HandleFields DEF CommitInv, TypeOK
<1>2. QED
  BY <1>1 DEF CommitInv, TypeOK, InHand, Stored, SignReserved, files

\* A process ends where it stands, and its lock with it.
LEMMA StopStep ==
  ASSUME CommitInv, NEW p \in Processes, Stop(p)
  PROVE  CommitInv'
<1>1. /\ handle' \in [Processes -> Handle]
      /\ handle'[p] = Down
      /\ \A q \in Processes \ {p} : handle'[q] = handle[q]
  BY DownIsHandle, SetHandle DEF Stop, CommitInv
<1>2. TypeOK'
  BY <1>1 DEF CommitInv, TypeOK, Stop, files
<1>3. ASSUME NEW q \in Processes
      PROVE  InHand(q)'
  <2>1. CASE q = p
    BY <1>1, <2>1, DownIsHandle DEF InHand, PastLock, Committing
  <2>2. CASE q # p
    BY <1>1, <2>2 DEF CommitInv, InHand, Stop, files
  <2>3. QED
    BY <2>1, <2>2
<1>4. QED
  BY <1>2, <1>3 DEF CommitInv, Stop, files, Stored

-----------------------------------------------------------------------------
(* The kernel and the power. *)

\* The cache reaches the device in its own time.
LEMMA WritebackStep ==
  ASSUME CommitInv, Writeback
  PROVE  CommitInv'
<1>1. /\ snapshot \in File /\ snapshot.image \in Image
      /\ IsPrefix(snapshot.image, snapshot.image)
  BY PrefixOrder DEF CommitInv, TypeOK, File
<1>2. onDevice' \in {onDevice, snapshot} /\ rooted' \in {rooted, TRUE}
  BY DEF Writeback
<1>3. TypeOK'
  BY <1>1, <1>2 DEF CommitInv, TypeOK, Writeback
<1>4. \A q \in Processes : InHand(q)'
  BY <1>2 DEF CommitInv, InHand, Writeback
<1>5. QED
  BY <1>1, <1>2, <1>3, <1>4 DEF CommitInv, Writeback, Stored

\* The power leaves what the device held, or nothing of a directory whose own
\* entry it had not.
LEMMA CutLeaves ==
  ASSUME CommitInv
  PROVE  AfterCut(onDevice) = onDevice
<1>1. onDevice \in File
  BY DEF CommitInv, TypeOK
<1>2. CASE onDevice = NoFile
  BY <1>2 DEF AfterCut
<1>3. CASE onDevice # NoFile
  BY <1>1, <1>3 DEF AfterCut, CommitInv, Stored, File
<1>4. QED
  BY <1>2, <1>3

\* A power cut leaves what the device has, and no process.
LEMMA PowerCutStep ==
  ASSUME CommitInv, PowerCut
  PROVE  CommitInv'
<1>1. snapshot' \in {onDevice, NoFile} /\ onDevice' = snapshot'
  BY CutLeaves DEF PowerCut
<1>2. snapshot' \in File /\ Stored(snapshot') /\ snapshot'.image \in Image
  BY <1>1, Files DEF CommitInv, TypeOK, Stored, File
<1>3. temp' \in File
  BY Files DEF PowerCut, CommitInv, TypeOK, File
<1>4. TypeOK'
  BY <1>1, <1>2, <1>3, DownIsHandle DEF CommitInv, TypeOK, PowerCut
<1>5. \A q \in Processes : InHand(q)'
  BY DownIsHandle DEF InHand, PowerCut, PastLock, Committing
<1>6. snapshot' # NoFile => rooted
  <2>1. ASSUME snapshot' = onDevice, onDevice # NoFile, snapshot = NoFile
        PROVE  FALSE
    <3>1. onDevice.image \in Image \ {<<>>}
      BY <2>1 DEF CommitInv, TypeOK, Stored, File
    <3>2. IsPrefix(onDevice.image, <<>>)
      BY <2>1, Files DEF CommitInv
    <3>3. QED
      BY <3>1, <3>2, NothingBeforeEmpty
  <2>2. QED
    BY <1>1, <2>1 DEF CommitInv
<1>7. QED
  BY <1>1, <1>2, <1>4, <1>5, <1>6, PrefixOrder DEF CommitInv, PowerCut

-----------------------------------------------------------------------------
(* The invariant, and what it gives. *)

\* The initial states satisfy the invariant.
LEMMA InitEstablishes == Init => CommitInv
<1> SUFFICES ASSUME Init
             PROVE  CommitInv
  OBVIOUS
<1>1. TypeOK
  BY Files, DownIsHandle DEF Init, TypeOK
<1>2. \A p \in Processes : InHand(p)
  BY DownIsHandle DEF Init, InHand, PastLock, Committing
<1>3. IsPrefix(<<>>, <<>>)
  BY EmptyIsImage, PrefixOrder
<1>4. QED
  BY <1>1, <1>2, <1>3, Files DEF Init, CommitInv, Stored

\* Every step keeps the invariant.
LEMMA StepPreserves == CommitInv /\ [Next]_vars => CommitInv'
<1> SUFFICES ASSUME CommitInv, [Next]_vars
             PROVE  CommitInv'
  OBVIOUS
<1>1. ASSUME NEW p \in Processes,
             \/ CreateCheck(p) \/ CreateLock(p) \/ FlushParent(p)
             \/ Seal(p) \/ WriteTemp(p) \/ FsyncFile(p) \/ Rename(p) \/ FsyncDir(p)
             \/ OpenWith(p) \/ SignReserved(p) \/ Stop(p)
      PROVE  CommitInv'
  BY <1>1, CreateCheckStep, CreateLockStep, FlushParentStep, SealStep,
     WriteTempStep, FsyncFileStep, RenameStep, FsyncDirStep, OpenWithStep,
     SignReservedStep, StopStep
<1>2. CASE Writeback \/ PowerCut
  BY <1>2, WritebackStep, PowerCutStep
<1>3. CASE UNCHANGED vars
  BY <1>3 DEF vars, CommitInv, TypeOK, InHand, Stored
<1>4. QED
  BY <1>1, <1>2, <1>3 DEF Next

\* The lock's holder has the image of the snapshot in hand, what it wrote is
\* whole before it is named, and the device is never ahead of the snapshot.
LEMMA CommitInvariant == Spec => []CommitInv
<1>1. QED
  BY InitEstablishes, StepPreserves, PTL DEF Spec

\* A power cut takes back nothing a name on the device stands for.
KeptFacts ==
  /\ Kept = IF rooted THEN onDevice.image ELSE <<>>
  /\ Kept \in Image /\ onDevice.image \in Image

\* What a restart is sure to find, as the invariant has it.
LEMMA KeptIsOnDevice == CommitInv => KeptFacts
<1> SUFFICES ASSUME CommitInv
             PROVE  KeptFacts
  OBVIOUS
<1>1. onDevice \in File /\ onDevice.image \in Image /\ rooted \in BOOLEAN
  BY DEF CommitInv, TypeOK, File
<1>2. AfterCut(onDevice) = onDevice
  BY CutLeaves
<1>3. ~onDevice.whole => onDevice.image = <<>>
  BY Files DEF CommitInv, Stored
<1>4. Kept = IF rooted THEN onDevice.image ELSE <<>>
  BY <1>1, <1>2, <1>3 DEF Kept
<1>5. QED
  BY <1>1, <1>4, EmptyIsImage DEF KeptFacts

\* Every step of the files is a step of the store or leaves it alone.
LEMMA StepImplements ==
  CommitInv /\ CommitInv' /\ [Next]_vars => [Durable!Commit]_<<Kept, attested>>
<1> SUFFICES ASSUME CommitInv, CommitInv', [Next]_vars
             PROVE  [Durable!Commit]_<<Kept, attested>>
  OBVIOUS
<1>1. KeptFacts /\ KeptFacts'
  BY KeptIsOnDevice, PTL
<1>2. snapshot.image \in Image
  BY DEF CommitInv, TypeOK, File
<1>3. ASSUME IsPrefix(Kept, Kept'), attested' \in {attested, attested \cup {Kept'}}
      PROVE  Durable!Commit
  BY <1>1, <1>3, ImageIsSeq DEF KeptFacts, Durable!Commit, Durable!IsPrefix, IsPrefix
<1>4. ASSUME rooted => rooted', IsPrefix(onDevice.image, onDevice'.image)
       PROVE  IsPrefix(Kept, Kept')
  <2>1. CASE rooted
    BY <1>1, <1>4, <2>1 DEF KeptFacts
  <2>2. CASE ~rooted
    BY <1>1, <2>2, PrefixOrder DEF KeptFacts
  <2>3. QED
    BY <2>1, <2>2
<1>5. ASSUME UNCHANGED <<onDevice, rooted, attested>>
      PROVE  UNCHANGED <<Kept, attested>>
  BY <1>1, <1>5 DEF KeptFacts
<1>6. ASSUME NEW p \in Processes, FlushParent(p)
      PROVE  Durable!Commit
  <2>1. UNCHANGED <<onDevice, attested>> /\ (rooted => rooted')
    <3>1. UNCHANGED <<onDevice, attested>> /\ (rooted' = TRUE \/ rooted' = rooted)
      BY <1>6 DEF FlushParent
    <3>2. QED
      BY <3>1
  <2>2. IsPrefix(onDevice.image, onDevice'.image)
    BY <1>1, <2>1, PrefixOrder DEF KeptFacts
  <2>3. QED
    BY <1>3, <1>4, <2>1, <2>2
<1>7. ASSUME NEW p \in Processes, FsyncDir(p)
      PROVE  Durable!Commit
  <2>1. /\ rooted /\ UNCHANGED rooted /\ snapshot.image = handle[p].next
        /\ onDevice' \in {onDevice, snapshot}
        /\ \/ onDevice' = snapshot /\ attested' = attested \cup {handle[p].next}
           \/ UNCHANGED attested
    BY <1>7 DEF FsyncDir, Fails, CommitInv, InHand, Committing
  <2>2. IsPrefix(onDevice.image, onDevice'.image)
    BY <1>1, <2>1, PrefixOrder DEF KeptFacts, CommitInv
  <2>3. attested' \in {attested, attested \cup {Kept'}}
    BY <1>1, <2>1 DEF KeptFacts
  <2>4. QED
    BY <1>3, <1>4, <2>1, <2>2, <2>3
<1>8. CASE Writeback
  <2>1. onDevice' \in {onDevice, snapshot} /\ (rooted => rooted') /\ UNCHANGED attested
    BY <1>8 DEF Writeback
  <2>2. IsPrefix(onDevice.image, onDevice'.image)
    BY <1>1, <2>1, PrefixOrder DEF KeptFacts, CommitInv
  <2>3. QED
    BY <1>3, <1>4, <2>1, <2>2
<1>9. CASE PowerCut
  <2>1. UNCHANGED <<rooted, attested>>
    BY <1>9 DEF PowerCut
  <2>2. onDevice' = onDevice \/ ~rooted
    BY <1>9, CutLeaves DEF PowerCut
  <2>3. QED
    BY <1>1, <2>1, <2>2 DEF KeptFacts
<1>10. ASSUME NEW p \in Processes,
             \/ CreateCheck(p) \/ CreateLock(p)
             \/ Seal(p) \/ WriteTemp(p) \/ FsyncFile(p) \/ Rename(p)
             \/ OpenWith(p) \/ SignReserved(p) \/ Stop(p)
      PROVE  UNCHANGED <<onDevice, rooted, attested>>
  BY <1>10 DEF CreateCheck, CreateLock, Seal, WriteTemp, FsyncFile, Rename,
     OpenWith, SignReserved, Stop, files
<1>11. CASE UNCHANGED vars
  BY <1>5, <1>11 DEF vars
<1>12. QED
  BY <1>5, <1>6, <1>7, <1>8, <1>9, <1>10, <1>11 DEF Next

\* I3: the Unix commit, with any number of processes creating, opening and
\* dying in one directory and power cuts at any step, keeps the promise of
\* DurableStore: one history, which only grows, and a Durable only for what no
\* power cut can take back.
THEOREM CommitImplementsDurableStore == Spec => ImplementsDurableStore
<1>1. Init => Durable!Init
  BY DEF Init, Durable!Init, Kept
<1>2. QED
  BY <1>1, CommitInvariant, StepImplements, PTL
     DEF Spec, ImplementsDurableStore, Durable!Spec

-----------------------------------------------------------------------------
(* What a store that keeps the promise keeps, whatever its kept image is. *)

StoreInv ==
  /\ Kept \in Seq(Changes)
  /\ attested \subseteq Seq(Changes)
  /\ \A i \in attested : IsPrefix(i, Kept)

\* Whatever a step keeps extends what was kept, so it keeps the attested too.
LEMMA StoreInvariant == Durable!Spec => []StoreInv
<1>1. Durable!Init => StoreInv
  BY EmptySeq DEF Durable!Init, StoreInv
<1>2. StoreInv /\ [Durable!Commit]_<<Kept, attested>> => StoreInv'
  <2>1. ASSUME StoreInv, Durable!Commit
        PROVE  StoreInv'
    <3>1. /\ Kept' \in Seq(Changes) /\ IsPrefix(Kept, Kept')
          /\ attested' = attested \/ attested' = attested \cup {Kept'}
      BY <2>1 DEF Durable!Commit, Durable!IsPrefix, IsPrefix
    <3>2. attested' \subseteq Seq(Changes)
      BY <2>1, <3>1 DEF StoreInv
    <3>3. ASSUME NEW i \in attested'
          PROVE  IsPrefix(i, Kept')
      <4>1. CASE i \in attested
        BY <4>1, <2>1, <3>1, PrefixTransitive DEF StoreInv
      <4>2. CASE i = Kept'
        BY <4>2, <3>1, PrefixByPosition
      <4>3. QED
        BY <3>1, <3>3, <4>1, <4>2
    <3>4. QED
      BY <3>1, <3>2, <3>3 DEF StoreInv
  <2>2. ASSUME StoreInv, UNCHANGED <<Kept, attested>>
        PROVE  StoreInv'
    BY <2>2 DEF StoreInv
  <2>3. QED
    BY <2>1, <2>2
<1>3. QED
  BY <1>1, <1>2, PTL DEF Durable!Spec

\* No attested image is ever taken back by a later step of the store: what a
\* Durable was minted for is a part of whatever a restart finds.
THEOREM AttestedKeptHolds == Durable!Spec => []Durable!AttestedKept
<1>1. StoreInv => Durable!AttestedKept
  BY DEF StoreInv, Durable!AttestedKept, Durable!IsPrefix, IsPrefix
<1>2. QED
  BY <1>1, StoreInvariant, PTL

\* No run of crashes and reopenings attests two images of which neither is
\* part of the other: the store never says of two histories that each is kept.
THEOREM OneHistoryHolds == Durable!Spec => []Durable!OneHistory
<1>1. StoreInv => Durable!OneHistory
  BY PrefixesCompare DEF StoreInv, Durable!OneHistory, Durable!IsPrefix, IsPrefix
<1>2. QED
  BY <1>1, StoreInvariant, PTL

\* So the Unix store keeps them: no power cut takes back an image a Durable was
\* minted for, and any two of those are parts of one history.
THEOREM AttestedSurvive ==
  Spec => [](/\ \A i \in attested : IsPrefix(i, Kept)
             /\ \A i, j \in attested : IsPrefix(i, j) \/ IsPrefix(j, i))
<1>1. Durable!AttestedKept /\ Durable!OneHistory =>
        /\ \A i \in attested : IsPrefix(i, Kept)
        /\ \A i, j \in attested : IsPrefix(i, j) \/ IsPrefix(j, i)
  BY DEF Durable!AttestedKept, Durable!OneHistory, Durable!IsPrefix, IsPrefix
<1>2. QED
  BY <1>1, AttestedKeptHolds, OneHistoryHolds, CommitImplementsDurableStore, PTL
     DEF ImplementsDurableStore

\* I2 over kills: whatever step a process dies at, the snapshot goes on
\* holding everything a signature was released from, and resign_reserved, which
\* asks for no receipt, releases from nothing else.
THEOREM KillsKeepSignedHolds == Spec => KillsKeepSigned
<1>1. CommitInv /\ [Next]_vars =>
        [~PowerCut => \A i \in signed' :
           i \notin signed \/ IsPrefix(i, snapshot.image)
             => IsPrefix(i, snapshot'.image)]_vars
  <2> SUFFICES ASSUME CommitInv, Next, ~PowerCut, NEW i \in signed',
                      i \notin signed \/ IsPrefix(i, snapshot.image)
               PROVE  IsPrefix(i, snapshot'.image)
    BY DEF vars
  <2>1. snapshot.image \in Image /\ snapshot'.image \in Image /\ i \in Image
    BY StepPreserves DEF CommitInv, TypeOK, File
  <2>2. IsPrefix(i, snapshot.image)
    <3>1. CASE i \in signed
      BY <3>1
    <3>2. CASE i \notin signed
      <4>1. PICK p \in Processes : SignReserved(p) /\ i = handle[p].image
        BY <3>2 DEF Next, Writeback, PowerCut, CreateCheck, CreateLock, FlushParent,
           Seal, WriteTemp, FsyncFile, Rename, FsyncDir, OpenWith, SignReserved,
           Stop, files
      <4>2. QED
        BY <2>1, <4>1, PrefixOrder DEF SignReserved, CommitInv, InHand
    <3>3. QED
      BY <3>1, <3>2
  <2>3. IsPrefix(snapshot.image, snapshot'.image)
    <3>1. CASE \E p \in Processes : Rename(p)
      BY <2>1, <3>1, RenameGrows, PrefixOrder DEF Rename, Succeeds, Fails
    <3>2. CASE ~\E p \in Processes : Rename(p)
      <4>1. UNCHANGED snapshot
        BY <3>2 DEF Next, Writeback, CreateCheck, CreateLock, FlushParent,
           Seal, WriteTemp, FsyncFile, FsyncDir, OpenWith, SignReserved, Stop, files
      <4>2. QED
        BY <2>1, <4>1, PrefixOrder
    <3>3. QED
      BY <3>1, <3>2
  <2>4. QED
    BY <2>1, <2>2, <2>3, PrefixOrder
<1>2. QED
  BY <1>1, CommitInvariant, PTL DEF Spec, KillsKeepSigned

=============================================================================
