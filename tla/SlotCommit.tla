----------------------------- MODULE SlotCommit -----------------------------
(***************************************************************************)
(* The Windows keystore's files: two slots rewritten in place, accounts.mks *)
(* (slot 0) and accounts.mks.1 (slot 1).  A commit writes the slot that     *)
(* does not hold the newest image and flushes it; open takes the newer of   *)
(* the intact images and flushes that before it hands anything out.  A      *)
(* power cut may undo a write not yet flushed, or leave a mix of old and    *)
(* new sectors.                                                             *)
(*                                                                          *)
(* Sources: keystore/mod.rs (create, open, write_slots), keystore/slots.rs  *)
(* (what a slot holds, which one is taken), keystore/medium.rs (the steps). *)
(*                                                                          *)
(* One process at a time: the lock and create's race are SnapshotCommit's,  *)
(* and the same code.  An image is the sequence of the changes that led to  *)
(* it (DurableStore), so its length stands for the generation.              *)
(***************************************************************************)
EXTENDS Naturals, Sequences, SequencesExt

CONSTANTS
  Changes,      \* what a commit may add
  MaxLength     \* bound of an image's length

Slots == {0, 1}
NoSlot == 2

Image == BoundedSeq(Changes, MaxLength)

\* What a slot file holds, as `sort` tells it: a frame around an image or
\* around nothing, a frame that does not check, or bytes that are no frame --
\* a whole image of the rename layout, or the remainder of one overwritten.
Frame(i) == [kind |-> "frame", image |-> i]
Plain(i) == [kind |-> "plain", image |-> i]
Absent == [kind |-> "absent", image |-> <<>>]
Vacant == [kind |-> "vacant", image |-> <<>>]
Torn   == [kind |-> "torn", image |-> <<>>]
Scrap  == [kind |-> "scrap", image |-> <<>>]

Content ==
  {Absent, Vacant, Torn, Scrap}
    \cup {Frame(i) : i \in Image} \cup {Plain(i) : i \in Image}

\* A store that is found in the rename layout is of one or two changes.
ASSUME SlotAssumption == MaxLength \in Nat /\ MaxLength >= 2

VARIABLES
  slot,       \* the two files, as a process sees them
  device,     \* the two files, as they were when last stored
  handle,     \* of the one process, its place and what it knows
  attested,   \* the images a Durable was minted for (history)
  signed      \* the images a signature was released from (history)

vars == <<slot, device, handle, attested, signed>>

Committing == {"sealed", "written", "vacating", "vacated"}
Handle ==
  [pc : {"down", "live", "poisoned"}, image : Image, next : {<<>>},
   newest : Slots \cup {NoSlot}, vacate : BOOLEAN]
    \cup
  [pc : Committing, image : Image, next : Image \ {<<>>},
   newest : Slots \cup {NoSlot}, vacate : BOOLEAN]

Down ==
  [pc |-> "down", image |-> <<>>, next |-> <<>>, newest |-> NoSlot, vacate |-> FALSE]

Init ==
  /\ slot = [s \in Slots |-> Absent]
  /\ device = slot
  /\ handle = Down
  /\ attested = {}
  /\ signed = {}

-----------------------------------------------------------------------------
(* What open makes of the two slots. *)

Framed(c) == c.kind \in {"vacant", "frame", "torn"}

\* The slots that hold an image: an intact frame, or the rename layout's in
\* slot 0.
Candidates(files) ==
  {s \in Slots : files[s].kind = "frame" \/ (s = 0 /\ files[s].kind = "plain")}

Refused(files) ==
  \/ Framed(files[0]) /\ files[1] = Absent
  \/ Candidates(files) = {}
  \/ Candidates(files) = Slots /\ Len(files[0].image) = Len(files[1].image)

Newest(files) ==
  CHOOSE s \in Candidates(files) :
    \A t \in Candidates(files) : Len(files[t].image) <= Len(files[s].image)

\* The image of the store in the files; none, if they are refused or missing.
Taken(files) ==
  IF files[0] = Absent \/ Refused(files) THEN <<>> ELSE files[Newest(files)].image

\* What a write of `new` over `old` leaves when it is not finished, or not
\* stored: either, or a frame that does not check -- or, where no frame was,
\* bytes that are none.
Partly(old, new) ==
  {old, new, Torn} \cup (IF Framed(old) THEN {} ELSE {Scrap})

\* What a power cut may leave of the slots: of one with nothing unstored, that.
AfterCut ==
  LET Outcomes(s) ==
        IF slot[s] = device[s] THEN {slot[s]} ELSE Partly(device[s], slot[s])
  IN  {[s \in Slots |-> IF s = 0 THEN c0 ELSE c1] :
         c0 \in Outcomes(0), c1 \in Outcomes(1)}

-----------------------------------------------------------------------------
(***************************************************************************)
(* Variants: what a plausible mistake would make of the definition named    *)
(* beside each.                                                             *)
(***************************************************************************)

\* of Target: the newest slot is written over.
TargetNewest(h) == IF h.newest = 1 THEN 1 ELSE 0

\* of Target: a store with nothing in either slot begins with slot 0.
TargetZeroFirst(h) == IF h.newest = 0 THEN 1 ELSE 0

\* of MustVacate: only create makes slot 0 the vacant frame.
LeavePlain(h) == h.newest = NoSlot

\* of FlushStanding: open reads and does not flush.
NotStanding(s) == device[s]

-----------------------------------------------------------------------------
(* create: into slot 1 first; nothing may be in either. *)

Create ==
  /\ handle.pc = "down"
  /\ slot = [s \in Slots |-> Absent]
  /\ \E c \in Changes :
       handle' = [pc |-> "sealed", image |-> <<>>, next |-> <<c>>,
                  newest |-> NoSlot, vacate |-> TRUE]
  /\ UNCHANGED <<slot, device, attested, signed>>

(* A commit. *)

Seal ==
  /\ handle.pc = "live"
  /\ Len(handle.image) < MaxLength
  /\ \E c \in Changes :
       handle' = [handle EXCEPT !.pc = "sealed", !.next = Append(handle.image, c)]
  /\ UNCHANGED <<slot, device, attested, signed>>

Target(h) == IF h.newest = 1 THEN 0 ELSE 1

\* Slot 0 is not a frame yet, and slot 1 now holds the store.
MustVacate(h) == Target(h) = 1 /\ h.vacate

\* An error inside a commit poisons the handle before it is returned.
Failed(h) == [h EXCEPT !.pc = "poisoned", !.next = <<>>]

\* write_slot, whole or not.
Write(s, content, from, to) ==
  /\ handle.pc = from
  /\ \/ /\ slot' = [slot EXCEPT ![s] = content]
        /\ handle' = [handle EXCEPT !.pc = to]
     \/ /\ \E left \in Partly(slot[s], content) : slot' = [slot EXCEPT ![s] = left]
        /\ handle' = Failed(handle)
  /\ UNCHANGED <<device, attested, signed>>

\* The commit's end: a Durable is minted, the slot written is the newest.
Committed(h) ==
  /\ attested' = attested \cup {h.next}
  /\ handle' = [pc |-> "live", image |-> h.next, next |-> <<>>,
                newest |-> Target(h), vacate |-> FALSE]

\* flush_slot; a flush that failed has stored the slot or has not.
FlushFails(s) ==
  /\ device' \in {device, [device EXCEPT ![s] = slot[s]]}
  /\ handle' = Failed(handle)
  /\ UNCHANGED attested

WriteSlot == Write(Target(handle), Frame(handle.next), "sealed", "written")

FlushSlot ==
  /\ handle.pc = "written"
  /\ LET s == Target(handle) IN
       \/ /\ device' = [device EXCEPT ![s] = slot[s]]
          /\ IF MustVacate(handle)
             THEN handle' = [handle EXCEPT !.pc = "vacating"] /\ UNCHANGED attested
             ELSE Committed(handle)
       \/ FlushFails(s)
  /\ UNCHANGED <<slot, signed>>

WriteVacant == Write(0, Vacant, "vacating", "vacated")

FlushVacant ==
  /\ handle.pc = "vacated"
  /\ \/ /\ device' = [device EXCEPT ![0] = slot[0]]
        /\ Committed(handle)
     \/ FlushFails(0)
  /\ UNCHANGED <<slot, signed>>

-----------------------------------------------------------------------------
(* open: the newest slot is on the device before the handle exists; one that *)
(* cannot be flushed refuses the open.                                       *)

FlushStanding(s) == slot[s]

OpenWith ==
  /\ handle.pc = "down"
  /\ slot[0] # Absent
  /\ ~Refused(slot)
  /\ LET s == Newest(slot) IN
       \/ /\ device' = [device EXCEPT ![s] = FlushStanding(s)]
          /\ handle' = [pc |-> "live", image |-> slot[s].image, next |-> <<>>,
                        newest |-> s, vacate |-> slot[0].kind \in {"plain", "scrap"}]
       \/ /\ device' = [device EXCEPT ![s] = slot[s]]
          /\ UNCHANGED handle
  /\ UNCHANGED <<slot, attested, signed>>

\* A signature from the reservation the handle holds, with a receipt or
\* without (resign_reserved); neither writes.
SignReserved ==
  /\ handle.pc = "live"
  /\ Len(handle.image) > 1
  /\ signed' = signed \cup {handle.image}
  /\ UNCHANGED <<slot, device, handle, attested>>

\* The process ends, or drops its handle.
Stop ==
  /\ handle.pc # "down"
  /\ handle' = Down
  /\ UNCHANGED <<slot, device, attested, signed>>

-----------------------------------------------------------------------------
(* Not this repository's code. *)

\* A store of the rename layout is copied into an empty directory.
PlaceSnapshot ==
  /\ handle.pc = "down"
  /\ slot = [s \in Slots |-> Absent]
  /\ device = slot
  /\ \E i \in BoundedSeq(Changes, 2) \ {<<>>} : slot' = [slot EXCEPT ![0] = Plain(i)]
  /\ device' = slot'
  /\ UNCHANGED <<handle, attested, signed>>

\* The cache reaches the device in its own time.
Writeback(s) ==
  /\ slot[s] # device[s]
  /\ device' = [device EXCEPT ![s] = slot[s]]
  /\ UNCHANGED <<slot, handle, attested, signed>>

PowerCut ==
  /\ slot' \in AfterCut
  /\ device' = slot'
  /\ handle' = Down
  /\ UNCHANGED <<attested, signed>>

-----------------------------------------------------------------------------
Next ==
  \/ Create \/ Seal \/ WriteSlot \/ FlushSlot \/ WriteVacant \/ FlushVacant
  \/ OpenWith \/ SignReserved \/ Stop
  \/ PlaceSnapshot \/ PowerCut \/ \E s \in Slots : Writeback(s)

Spec == Init /\ [][Next]_vars

-----------------------------------------------------------------------------
(* Properties. *)

\* Every variable has its type; a handle has a next image exactly while it is
\* committing one.
TypeOK ==
  /\ slot \in [Slots -> Content]
  /\ device \in [Slots -> Content]
  /\ handle \in Handle
  /\ attested \subseteq Image
  /\ signed \subseteq Image

\* accounts.mks existing means an image is there to take: whatever step the
\* process died at, and whatever a power cut now would leave, open refuses
\* nothing the wallet itself wrote.
OpenTakesAnImage ==
  \A files \in {slot} \cup AfterCut : files[0] # Absent => ~Refused(files)

\* From the first change on, a build that reads only the rename layout finds
\* no store in accounts.mks: the plain image is gone, and stays gone, before a
\* Durable says that a newer one is kept.
OldBuildReadsNothingStale ==
  \A files \in {slot, device} :
    files[0].kind = "plain" => \A i \in attested : IsPrefix(i, files[0].image)

\* What any power cut leaves is this or extends it.
Kept == Taken(device)

Durable == INSTANCE DurableStore WITH kept <- Kept

\* The slots keep the commit's promise: one history, which only grows, and a
\* Durable only for what no kill and no power cut can take back.
ImplementsDurableStore == Durable!Spec

\* I2, through resign too: the position a signature was released from is
\* durable, because open flushed the image it took.
SignedIsKept == \A i \in signed : IsPrefix(i, Kept)

=============================================================================
