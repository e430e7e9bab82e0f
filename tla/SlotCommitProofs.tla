--------------------------- MODULE SlotCommitProofs ---------------------------
(***************************************************************************)
(* The Windows commit keeps the promise of DurableStore over kills and      *)
(* power cuts, open always finds an image, a signature is released only     *)
(* from what the device holds, and no build of the rename layout reads a    *)
(* store older than what a Durable was minted for.                          *)
(***************************************************************************)
EXTENDS SlotCommit, SequenceTheorems, TLAPS

-----------------------------------------------------------------------------
(* Prefixes. *)

\* A prefix, position by position.
LEMMA PrefixByPosition ==
  ASSUME NEW s \in Seq(Changes), NEW t \in Seq(Changes)
  PROVE  IsPrefix(s, t) <=>
           Len(s) <= Len(t) /\ \A k \in 1 .. Len(s) : s[k] = t[k]
<1>1. ASSUME Len(s) <= Len(t)
      PROVE  (SubSeq(s, 1, Len(s)) = SubSeq(t, 1, Len(s)))
               <=> \A k \in 1 .. Len(s) : s[k] = t[k]
  <2>1. /\ SubSeq(s, 1, Len(s)) \in Seq(Changes)
        /\ SubSeq(t, 1, Len(s)) \in Seq(Changes)
        /\ Len(SubSeq(s, 1, Len(s))) = Len(s)
        /\ Len(SubSeq(t, 1, Len(s))) = Len(s)
        /\ \A k \in 1 .. Len(s) : SubSeq(s, 1, Len(s))[k] = s[k]
        /\ \A k \in 1 .. Len(s) : SubSeq(t, 1, Len(s))[k] = t[k]
    BY <1>1
  <2>2. QED
    BY <2>1, SeqEqual
<1>2. QED
  BY <1>1 DEF IsPrefix

\* An image that extends one that extends a third extends the third.
LEMMA PrefixTransitive ==
  ASSUME NEW s \in Seq(Changes), NEW t \in Seq(Changes), NEW u \in Seq(Changes),
         IsPrefix(s, t), IsPrefix(t, u)
  PROVE  IsPrefix(s, u)
  BY PrefixByPosition

-----------------------------------------------------------------------------
(* Images. *)

\* An image is a sequence of changes no longer than the bound.
LEMMA ImageIsSeq ==
  ASSUME NEW i
  PROVE  i \in Image <=> i \in Seq(Changes) /\ Len(i) <= MaxLength
<1>1. ASSUME i \in Image
      PROVE  i \in Seq(Changes) /\ Len(i) <= MaxLength
  BY <1>1, SlotAssumption DEF Image, BoundedSeq, SeqOf
<1>2. ASSUME i \in Seq(Changes), Len(i) <= MaxLength
      PROVE  i \in Image
  <2>1. Len(i) \in 0 .. MaxLength /\ i \in [1 .. Len(i) -> Changes]
    BY <1>2, SlotAssumption, LenProperties
  <2>2. QED
    BY <2>1 DEF Image, BoundedSeq, SeqOf
<1>3. QED
  BY <1>1, <1>2

\* The empty store is an image.
LEMMA EmptyIsImage == <<>> \in Image /\ Len(<<>>) = 0
<1>1. <<>> \in Seq(Changes) /\ Len(<<>>) <= MaxLength
  BY EmptySeq, SlotAssumption
<1>2. QED
  BY <1>1, ImageIsSeq, EmptySeq

\* One image is a part of another and not all of it.
Under(i, j) == IsPrefix(i, j) /\ Len(i) < Len(j)

\* Images are ordered by prefix, and two parts of one are told apart by length.
LEMMA PrefixOrder ==
  ASSUME NEW i \in Image
  PROVE  /\ Len(i) \in Nat
         /\ Len(i) = 0 <=> i = <<>>
         /\ IsPrefix(<<>>, i) /\ IsPrefix(i, i)
         /\ IsPrefix(i, <<>>) => i = <<>>
         /\ \A j, k \in Image : IsPrefix(i, j) /\ IsPrefix(j, k) => IsPrefix(i, k)
         /\ \A j, k \in Image : Under(i, j) /\ Under(j, k) => Under(i, k)
<1>1. i \in Seq(Changes) /\ <<>> \in Seq(Changes) /\ Len(i) \in Nat
  BY ImageIsSeq, EmptySeq, LenProperties
<1>2. Len(i) = 0 <=> i = <<>>
  BY <1>1, EmptySeq, LenProperties
<1>3. IsPrefix(<<>>, i) /\ IsPrefix(i, i)
  <2>1. Len(<<>>) = 0 /\ Len(i) \in Nat /\ \A k \in 1 .. 0 : FALSE
    BY <1>1, EmptySeq, LenProperties
  <2>2. IsPrefix(<<>>, i)
    <3>1. ASSUME NEW e \in Seq(Changes), Len(e) = 0
          PROVE  IsPrefix(e, i)
      <4>1. Len(e) <= Len(i) /\ \A k \in 1 .. Len(e) : e[k] = i[k]
        BY <2>1, <3>1
      <4>2. QED
        BY <1>1, <4>1, PrefixByPosition
    <3>2. QED
      BY <1>1, <2>1, <3>1
  <2>3. IsPrefix(i, i)
    BY <1>1, <2>1, PrefixByPosition
  <2>4. QED
    BY <2>2, <2>3
<1>4. IsPrefix(i, <<>>) => i = <<>>
  BY <1>1, <1>2, EmptySeq DEF IsPrefix
<1>5. ASSUME NEW j \in Image, NEW k \in Image, IsPrefix(i, j), IsPrefix(j, k)
      PROVE  IsPrefix(i, k)
  <2>1. j \in Seq(Changes) /\ k \in Seq(Changes)
    BY ImageIsSeq
  <2>2. QED
    BY <1>1, <1>5, <2>1, PrefixTransitive
<1>6. ASSUME NEW j \in Image, NEW k \in Image, Under(i, j), Under(j, k)
      PROVE  Under(i, k)
  <2>1. Len(j) \in Nat /\ Len(k) \in Nat
    BY ImageIsSeq, LenProperties
  <2>2. QED
    BY <1>1, <1>5, <1>6, <2>1 DEF Under
<1>7. QED
  BY <1>1, <1>2, <1>3, <1>4, <1>5, <1>6

\* A change appended to an image gives one that it is under.
LEMMA AppendExtends ==
  ASSUME NEW i \in Image, NEW c \in Changes, Len(i) < MaxLength
  PROVE  Append(i, c) \in Image \ {<<>>} /\ Under(i, Append(i, c))
<1>1. i \in Seq(Changes)
  BY ImageIsSeq
<1>2. /\ Append(i, c) \in Seq(Changes)
      /\ Len(Append(i, c)) = Len(i) + 1
      /\ \A k \in 1 .. Len(i) : Append(i, c)[k] = i[k]
  BY <1>1, AppendProperties
<1>3. Len(Append(i, c)) <= MaxLength /\ Len(i) < Len(Append(i, c))
  BY <1>1, <1>2, LenProperties, SlotAssumption
<1>4. Append(i, c) # <<>>
  BY <1>1, <1>2, LenProperties, EmptySeq
<1>5. IsPrefix(i, Append(i, c))
  <2>1. Len(i) <= Len(Append(i, c))
    BY <1>1, <1>2, LenProperties
  <2>2. QED
    BY <1>1, <1>2, <2>1, PrefixByPosition
<1>6. QED
  BY <1>2, <1>3, <1>4, <1>5, ImageIsSeq DEF Under

\* A creation's first image.
LEMMA FirstIsImage ==
  ASSUME NEW c \in Changes
  PROVE  <<c>> \in Image \ {<<>>} /\ Len(<<c>>) = 1 /\ Under(<<>>, <<c>>)
<1>1. <<c>> \in Seq(Changes) /\ <<c>> # <<>> /\ Len(<<c>>) = 1 /\ Len(<<c>>) <= MaxLength
  BY SlotAssumption
<1>2. <<c>> \in Image
  BY <1>1, ImageIsSeq
<1>3. QED
  BY <1>1, <1>2, PrefixOrder, EmptyIsImage DEF Under

-----------------------------------------------------------------------------
(* Slots. *)

\* A slot's content by its kind: only frames and plain images hold an image.
LEMMA Kinds ==
  /\ \A i \in Image : /\ Frame(i) \in Content /\ Frame(i).kind = "frame"
                      /\ Frame(i).image = i
                      /\ Plain(i) \in Content /\ Plain(i).kind = "plain"
                      /\ Plain(i).image = i
  /\ {Absent, Vacant, Torn, Scrap} \subseteq Content
  /\ Absent.kind = "absent" /\ Vacant.kind = "vacant"
  /\ Torn.kind = "torn" /\ Scrap.kind = "scrap"
  /\ \A c \in Content : /\ c.image \in Image
                        /\ c.kind = "absent" <=> c = Absent
<1>1. ASSUME NEW i \in Image
      PROVE  /\ Frame(i) \in Content /\ Plain(i) \in Content
             /\ Frame(i).kind = "frame" /\ Plain(i).kind = "plain"
             /\ Frame(i).image = i /\ Plain(i).image = i
  <2>1. Frame(i) \in Content /\ Plain(i) \in Content
    BY DEF Content
  <2>2. QED
    BY <2>1 DEF Frame, Plain
<1>2. {Absent, Vacant, Torn, Scrap} \subseteq Content
  BY DEF Content
<1>3. /\ Absent.kind = "absent" /\ Vacant.kind = "vacant"
      /\ Torn.kind = "torn" /\ Scrap.kind = "scrap"
      /\ \A c \in {Absent, Vacant, Torn, Scrap} : c.image = <<>>
  BY DEF Absent, Vacant, Torn, Scrap
<1>4. ASSUME NEW c \in Content
      PROVE  c.image \in Image /\ (c.kind = "absent" <=> c = Absent)
  <2>1. CASE c \in {Absent, Vacant, Torn, Scrap}
    BY <1>3, <2>1, EmptyIsImage
  <2>2. CASE \E i \in Image : c = Frame(i) \/ c = Plain(i)
    BY <1>1, <1>3, <2>2
  <2>3. QED
    BY <2>1, <2>2 DEF Content
<1>5. QED
  BY <1>1, <1>2, <1>3, <1>4

\* What an unfinished write leaves: the old content, the new, or no image.
LEMMA PartlyLeaves ==
  ASSUME NEW old \in Content, NEW new \in Content, NEW c \in Partly(old, new)
  PROVE  /\ c \in Content
         /\ c = old \/ c = new \/ c.kind \in {"torn", "scrap"}
  BY Kinds DEF Partly

Holds(s, c) == c.kind = "frame" \/ (s = 0 /\ c.kind = "plain")

Other(s) == IF s = 0 THEN 1 ELSE 0

\* What open and a power cut make of two files, of which one slot holds an
\* image and the other none or one that is told apart from it.
LEMMA Reading ==
  ASSUME NEW f \in [Slots -> Content], NEW s \in Slots, Holds(s, f[s]),
         f[0] # Absent,
         f[0].kind \in {"vacant", "frame", "torn"} => f[1] # Absent,
         Holds(Other(s), f[Other(s)]) => Len(f[Other(s)].image) < Len(f[s].image)
  PROVE  ~Refused(f) /\ Newest(f) = s /\ Taken(f) = f[s].image
<1> DEFINE o == Other(s)
<1>1. o \in Slots /\ o # s /\ Slots = {s, o} /\ f[s] \in Content /\ f[o] \in Content
  BY DEF Slots, Other
<1>2. /\ f[s].image \in Image /\ f[o].image \in Image
      /\ Len(f[s].image) \in Nat /\ Len(f[o].image) \in Nat
  BY <1>1, Kinds, PrefixOrder
<1>3. Candidates(f) = {t \in Slots : Holds(t, f[t])} /\ s \in Candidates(f)
  BY DEF Candidates, Holds
<1>4. \A t \in Candidates(f) : t # s => Len(f[t].image) < Len(f[s].image)
  BY <1>1, <1>3
<1>5. ~Refused(f)
  <2>1. ~(Framed(f[0]) /\ f[1] = Absent)
    BY DEF Framed
  <2>2. Candidates(f) # {}
    BY <1>3
  <2>3. Candidates(f) = Slots => Len(f[0].image) # Len(f[1].image)
    BY <1>1, <1>2, <1>4 DEF Slots, Other
  <2>4. QED
    BY <2>1, <2>2, <2>3 DEF Refused
<1>6. Newest(f) = s
  <2>1. \A t \in Candidates(f) : Len(f[t].image) <= Len(f[s].image)
    BY <1>2, <1>4
  <2>2. ASSUME NEW u \in Candidates(f),
               \A t \in Candidates(f) : Len(f[t].image) <= Len(f[u].image)
        PROVE  u = s
    BY <1>1, <1>2, <1>3, <1>4, <2>2
  <2>3. QED
    BY <1>3, <2>1, <2>2 DEF Newest
<1>7. QED
  BY <1>5, <1>6 DEF Taken

-----------------------------------------------------------------------------
(* The invariant of the files. *)

\* The slot s is on the device and holds an image; what the other one has on
\* the device is older or none, and what a process sees there is that, newer,
\* or none.
Base(s) ==
  LET o == Other(s)
  IN  /\ slot[s] = device[s]
      /\ Holds(s, slot[s])
      /\ Holds(o, device[o]) => Under(device[o].image, slot[s].image)
      /\ Holds(o, slot[o]) => \/ slot[o] = device[o]
                              \/ Under(slot[s].image, slot[o].image)
      /\ slot[0].kind \in {"frame", "vacant", "torn"} => slot[1] # Absent
      /\ device[0].kind \in {"frame", "vacant", "torn"} => device[1] # Absent

\* Where accounts.mks exists one slot is a base; where the device has none
\* yet, slot 1 holds no more than a creation.
DiskInv ==
  /\ slot \in [Slots -> Content]
  /\ device \in [Slots -> Content]
  /\ \A s \in Slots : slot[s] = Absent => device[s] = Absent
  /\ slot[0] # Absent => \E s \in Slots : Base(s)
  /\ device[0] = Absent => /\ slot[1].kind = "frame" => Len(slot[1].image) = 1
                           /\ device[1].kind = "frame" => Len(device[1].image) = 1

\* What the device has was attested and signed from, and nothing was attested
\* while the plain image is there.
HistoryInv ==
  /\ attested \subseteq Image /\ signed \subseteq Image
  /\ <<>> \notin attested /\ <<>> \notin signed
  /\ \A i \in attested \cup signed : IsPrefix(i, Kept)
  /\ slot[0].kind = "plain" \/ device[0].kind = "plain" => attested = {}

\* What the one process relies on at its place in a command: the image in its
\* hand is its newest slot's, and what it is writing goes over the other.
InHand ==
  LET h == handle
      n == h.newest
      t == Target(h)
  IN  /\ h.pc \in Committing => Under(h.image, h.next)
      /\ h.pc \in {"live", "sealed", "written"} /\ n \in Slots =>
           /\ slot[n] = device[n] /\ Holds(n, slot[n]) /\ slot[n].image = h.image
           /\ n = 0 => (h.vacate <=> slot[0].kind = "plain")
           /\ slot[0] # Absent
      /\ (/\ h.pc \in {"live", "sealed"} /\ n \in Slots
          /\ Holds(Other(n), slot[Other(n)]))
           => Under(slot[Other(n)].image, slot[n].image)
      /\ h.pc = "live" => n \in Slots
      /\ h.pc \in {"sealed", "written"} /\ n = NoSlot =>
           h.vacate /\ Len(h.next) = 1 /\ slot[0] = Absent /\ device[0] = Absent
      /\ h.pc = "sealed" /\ n = NoSlot => slot[1] = Absent
      /\ h.pc = "written" => slot[t] = Frame(h.next)
      /\ h.pc \in {"vacating", "vacated"} =>
           /\ t = 1
           /\ slot[1] = Frame(h.next) /\ device[1] = Frame(h.next)
           /\ device[0] = Absent => Len(h.next) = 1
      /\ h.pc = "vacating" =>
           \/ slot[0] = Absent
           \/ /\ slot[0].kind = "plain" /\ device[0] = slot[0]
              /\ slot[0].image = h.image
      /\ h.pc = "vacated" => slot[0] = Vacant

SlotInv == TypeOK /\ DiskInv /\ HistoryInv /\ InHand

-----------------------------------------------------------------------------
(* What the invariant says of reading the files. *)

\* There are two slots, each the other's other.
LEMMA SlotFacts ==
  /\ \A s \in Slots : Other(s) \in Slots /\ Other(s) # s /\ Other(Other(s)) = s
  /\ Slots = {0, 1} /\ NoSlot \notin Slots
  /\ Other(0) = 1 /\ Other(1) = 0
  BY DEF Slots, Other, NoSlot

\* A slot that holds an image is there.
LEMMA HeldIsThere ==
  ASSUME NEW c \in Content, NEW s \in Slots, Holds(s, c)
  PROVE  c # Absent /\ c.kind \in {"frame", "plain"} /\ (s = 1 => c.kind = "frame")
  BY Kinds DEF Holds

\* What a restart after a power cut would take is the base's image; none where
\* the device has no accounts.mks.
KeptIs ==
  /\ device[0] = Absent => Kept = <<>>
  /\ \A s \in Slots : Base(s) /\ device[0] # Absent => Kept = slot[s].image
  /\ Kept \in Image

\* What a restart is sure to find is the base of what the device holds.
LEMMA KeptIsBase == DiskInv => KeptIs
<1> SUFFICES ASSUME DiskInv
             PROVE  KeptIs
  OBVIOUS
<1>1. device[0] = Absent => Kept = <<>>
  BY DEF Kept, Taken
<1>2. ASSUME NEW s \in Slots, Base(s), device[0] # Absent
      PROVE  Kept = slot[s].image
  <2>1. Holds(s, device[s]) /\ device[s] = slot[s]
    BY <1>2 DEF Base
  <2>2. Holds(Other(s), device[Other(s)]) =>
          Len(device[Other(s)].image) < Len(device[s].image)
    BY <1>2 DEF Base, Under
  <2>3. device[0].kind \in {"vacant", "frame", "torn"} => device[1] # Absent
    BY <1>2 DEF Base
  <2>4. QED
    BY <1>2, <2>1, <2>2, <2>3, Reading DEF Kept, DiskInv
<1>3. Kept \in Image
  <2>1. CASE device[0] = Absent
    BY <1>1, <2>1, EmptyIsImage
  <2>2. CASE device[0] # Absent
    <3>1. PICK s \in Slots : Base(s)
      BY <2>2, SlotFacts DEF DiskInv
    <3>2. slot[s].image \in Image
      BY Kinds DEF DiskInv
    <3>3. QED
      BY <1>2, <2>2, <3>1, <3>2
  <2>3. QED
    BY <2>1, <2>2
<1>4. QED
  BY <1>1, <1>2, <1>3 DEF KeptIs

\* Open takes the newest image, and the other slot's is older or none.
LEMMA OpenReads ==
  ASSUME DiskInv, slot[0] # Absent
  PROVE  /\ ~Refused(slot)
         /\ Newest(slot) \in Slots
         /\ LET n == Newest(slot)
            IN  /\ Holds(n, slot[n])
                /\ Holds(Other(n), slot[Other(n)]) =>
                     Under(slot[Other(n)].image, slot[n].image)
<1>1. PICK s \in Slots : Base(s)
  BY DEF DiskInv
<1> DEFINE o == Other(s)
<1>2. /\ o \in Slots /\ Other(o) = s /\ slot \in [Slots -> Content]
      /\ slot[0].kind \in {"vacant", "frame", "torn"} => slot[1] # Absent
  BY <1>1, SlotFacts DEF Base, DiskInv
<1>3. CASE Holds(o, slot[o]) /\ Under(slot[s].image, slot[o].image)
  BY <1>1, <1>2, <1>3, Reading DEF Under
<1>4. CASE Holds(o, slot[o]) => Under(slot[o].image, slot[s].image)
  <2>1. Holds(s, slot[s])
    BY <1>1 DEF Base
  <2>2. ~Refused(slot) /\ Newest(slot) = s
    BY <1>2, <1>4, <2>1, Reading DEF Under
  <2>3. QED
    BY <1>4, <2>1, <2>2
<1>5. QED
  BY <1>1, <1>3, <1>4 DEF Base

\* Whatever a power cut leaves of the slots, open takes an image from it.
LEMMA CutReads ==
  ASSUME DiskInv, NEW f \in AfterCut
  PROVE  /\ f \in [Slots -> Content]
         /\ \A s \in Slots : f[s] \in {slot[s], device[s]} \/ f[s].kind \in {"torn", "scrap"}
         /\ \A s \in Slots : slot[s] = device[s] => f[s] = slot[s]
<1> DEFINE Outcomes(s) ==
             IF slot[s] = device[s] THEN {slot[s]} ELSE Partly(device[s], slot[s])
<1>1. ASSUME NEW s \in Slots, NEW c \in Outcomes(s)
      PROVE  /\ c \in Content
             /\ c \in {slot[s], device[s]} \/ c.kind \in {"torn", "scrap"}
             /\ slot[s] = device[s] => c = slot[s]
  <2>1. slot[s] \in Content /\ device[s] \in Content
    BY DEF DiskInv
  <2>2. QED
    BY <1>1, <2>1, PartlyLeaves
<1>2. PICK c0 \in Outcomes(0), c1 \in Outcomes(1) :
        f = [s \in Slots |-> IF s = 0 THEN c0 ELSE c1]
  BY DEF AfterCut
<1>3. \A s \in Slots : f[s] \in Outcomes(s)
  BY <1>2, SlotFacts
<1>4. f \in [Slots -> Content]
  BY <1>1, <1>2, SlotFacts
<1>5. QED
  BY <1>1, <1>3, <1>4

-----------------------------------------------------------------------------
(* What a step does to the files. *)

\* A flush, asked for or not: the store only grows, and to no more than what
\* the process saw.
LEMMA StoreSlot ==
  ASSUME DiskInv, NEW t \in Slots,
         slot' = slot, device' = [device EXCEPT ![t] = slot[t]]
  PROVE  DiskInv' /\ IsPrefix(Kept, Kept')
<1>1. /\ slot \in [Slots -> Content] /\ device \in [Slots -> Content]
      /\ device' \in [Slots -> Content]
      /\ device'[t] = slot[t]
      /\ \A s \in Slots : s # t => device'[s] = device[s]
      /\ \A s \in Slots : slot[s] = Absent => device'[s] = Absent
  BY DEF DiskInv
<1>2. ASSUME slot[0] # Absent
      PROVE  \E s \in Slots : Base(s)'
  <2>1. PICK s \in Slots : Base(s)
    BY <1>2 DEF DiskInv
  <2> DEFINE o == Other(s)
  <2>2. o \in Slots /\ Other(o) = s /\ o # s /\ Slots = {s, o} /\ t \in {s, o}
    BY SlotFacts
  <2>3. device'[0].kind \in {"frame", "vacant", "torn"} => device'[1] # Absent
    <3>1. ASSUME device'[0].kind \in {"frame", "vacant", "torn"}, device'[1] = Absent
          PROVE  FALSE
      <4>1. device[1] = Absent \/ slot[1] = Absent
        BY <1>1, <3>1, SlotFacts
      <4>2. device[1] = Absent
        BY <1>1, <4>1, SlotFacts DEF DiskInv
      <4>3. device'[0] = slot[0] \/ device'[0] = device[0]
        BY <1>1, SlotFacts
      <4>4. s = 0
        BY <2>1, <4>2, <1>1, SlotFacts, HeldIsThere DEF Base
      <4>5. slot[0] = device[0]
        BY <2>1, <4>4 DEF Base
      <4>6. QED
        BY <2>1, <3>1, <4>2, <4>3, <4>5 DEF Base
    <3>2. QED
      BY <3>1
  <2>4. CASE t = s
    <3>1. device' = device
      BY <1>1, <2>1, <2>4 DEF Base
    <3>2. Base(s)'
      BY <2>1, <3>1 DEF Base
    <3>3. QED
      BY <3>2
  <2>5. CASE t = o /\ Holds(o, slot[o]) /\ Under(slot[s].image, slot[o].image)
    <3>1. device'[o] = slot[o] /\ device'[s] = slot[s]
      BY <1>1, <2>1, <2>2, <2>5 DEF Base
    <3>2. Base(o)'
      BY <2>1, <2>2, <2>3, <2>5, <3>1 DEF Base
    <3>3. QED
      BY <2>2, <3>2
  <2>6. CASE t = o /\ (Holds(o, slot[o]) => slot[o] = device[o])
    <3>1. device'[o] = slot[o] /\ device'[s] = slot[s]
      BY <1>1, <2>1, <2>2, <2>6 DEF Base
    <3>2. Base(s)'
      BY <2>1, <2>2, <2>3, <2>6, <3>1 DEF Base
    <3>3. QED
      BY <3>2
  <2>7. QED
    BY <2>1, <2>2, <2>4, <2>5, <2>6 DEF Base
<1>3. device'[0] = Absent =>
        /\ slot[1].kind = "frame" => Len(slot[1].image) = 1
        /\ device'[1].kind = "frame" => Len(device'[1].image) = 1
  BY <1>1, SlotFacts DEF DiskInv
<1>4. DiskInv'
  BY <1>1, <1>2, <1>3 DEF DiskInv
<1>5. KeptIs /\ KeptIs'
  BY <1>4, KeptIsBase, PTL
<1>6. CASE device[0] = Absent
  BY <1>4, <1>5, <1>6, PrefixOrder DEF KeptIs
<1>7. CASE device[0] # Absent
  <2>1. slot[0] # Absent /\ device'[0] # Absent
    BY <1>1, <1>7, SlotFacts DEF DiskInv
  <2>2. PICK s \in Slots : Base(s)
    BY <2>1 DEF DiskInv
  <2>3. PICK r \in Slots : Base(r)'
    BY <1>2, <2>1
  <2>4. Kept = slot[s].image /\ Kept' = slot[r].image
    BY <1>5, <1>7, <2>1, <2>2, <2>3 DEF KeptIs
  <2>5. CASE r = s
    BY <1>4, <1>5, <2>4, <2>5, PrefixOrder DEF KeptIs
  <2>6. CASE r # s
    <3>1. Other(r) = s
      BY <2>6, SlotFacts
    <3>2. device'[s] = slot[s] /\ Holds(s, slot[s])
      BY <1>1, <2>2 DEF Base
    <3>3. Under(slot[s].image, slot[r].image)
      BY <2>3, <3>1, <3>2 DEF Base
    <3>4. QED
      BY <1>4, <2>4, <3>3 DEF Under
  <2>7. QED
    BY <2>5, <2>6
<1>8. QED
  BY <1>4, <1>6, <1>7

\* A power cut takes back nothing the device had.
LEMMA CutKeeps ==
  ASSUME DiskInv, PowerCut
  PROVE  DiskInv' /\ IsPrefix(Kept, Kept')
<1>1. /\ slot \in [Slots -> Content] /\ device \in [Slots -> Content]
      /\ slot' \in [Slots -> Content] /\ device' = slot'
      /\ \A s \in Slots :
           slot'[s] \in {slot[s], device[s]} \/ slot'[s].kind \in {"torn", "scrap"}
      /\ \A s \in Slots : slot[s] = device[s] => slot'[s] = slot[s]
  BY CutReads DEF PowerCut, DiskInv
<1>2. ASSUME NEW s \in Slots, Base(s)
      PROVE  /\ \E r \in Slots : Base(r)'
             /\ slot'[0] = Absent => device[0] = Absent
  <2> DEFINE o == Other(s)
  <2>1. o \in Slots /\ Other(o) = s /\ o # s /\ Slots = {s, o}
    BY SlotFacts
  <2>2. slot'[s] = slot[s] /\ slot[s] = device[s] /\ Holds(s, slot[s])
    BY <1>1, <1>2 DEF Base
  <2>3. \A t \in Slots : slot'[t] = Absent => device[t] = Absent
    BY <1>1, Kinds DEF DiskInv
  <2>4. slot'[0].kind \in {"frame", "vacant", "torn"} => slot'[1] # Absent
    <3>1. ASSUME slot'[1] = Absent
          PROVE  s = 0 /\ device[1] = Absent
      BY <2>2, <2>3, <3>1, SlotFacts, HeldIsThere DEF DiskInv
    <3>2. QED
      BY <1>2, <2>2, <3>1 DEF Base
  <2>5. CASE Holds(o, slot'[o]) /\ Under(slot[s].image, slot'[o].image)
    <3>1. Base(o)'
      BY <1>1, <2>1, <2>2, <2>4, <2>5 DEF Base
    <3>2. QED
      BY <2>1, <2>3, <3>1, SlotFacts
  <2>6. CASE Holds(o, slot'[o]) => Under(slot'[o].image, slot[s].image)
    <3>1. Base(s)'
      BY <1>1, <2>1, <2>2, <2>4, <2>6 DEF Base
    <3>2. QED
      BY <2>1, <2>3, <3>1, SlotFacts
  <2>7. (Holds(o, slot'[o]) /\ Under(slot[s].image, slot'[o].image))
          \/ (Holds(o, slot'[o]) => Under(slot'[o].image, slot[s].image))
    <3>1. CASE slot'[o] = device[o]
      BY <1>2, <3>1 DEF Base
    <3>2. CASE slot'[o] = slot[o]
      BY <1>2, <3>2 DEF Base
    <3>3. CASE slot'[o].kind \in {"torn", "scrap"}
      BY <3>3 DEF Holds
    <3>4. QED
      BY <1>1, <2>1, <3>1, <3>2, <3>3
  <2>8. QED
    BY <2>5, <2>6, <2>7
<1>3. slot'[0] # Absent => slot[0] # Absent
  BY <1>1, Kinds, SlotFacts DEF DiskInv
<1>4. device[0] # Absent => slot[0] # Absent
  BY SlotFacts DEF DiskInv
<1>5. slot'[0] # Absent => \E s \in Slots : Base(s)'
  BY <1>2, <1>3 DEF DiskInv
<1>6. device'[0] = Absent =>
        /\ slot'[1].kind = "frame" => Len(slot'[1].image) = 1
        /\ device'[1].kind = "frame" => Len(device'[1].image) = 1
  <2>1. ASSUME slot'[0] = Absent
        PROVE  device[0] = Absent
    BY <1>1, <2>1, Kinds, SlotFacts DEF DiskInv
  <2>2. QED
    BY <1>1, <2>1, SlotFacts DEF DiskInv
<1>7. DiskInv'
  BY <1>1, <1>5, <1>6 DEF DiskInv
<1>8. KeptIs /\ KeptIs'
  BY <1>7, KeptIsBase, PTL
<1>9. CASE device[0] = Absent
  BY <1>7, <1>8, <1>9, PrefixOrder DEF KeptIs
<1>10. CASE device[0] # Absent
  <2>1. PICK s \in Slots : Base(s)
    BY <1>4, <1>10 DEF DiskInv
  <2>2. device'[0] # Absent
    BY <1>1, <1>2, <1>10, <2>1
  <2>3. PICK r \in Slots : Base(r)'
    BY <1>2, <2>1
  <2>4. Kept = slot[s].image /\ Kept' = slot'[r].image
    BY <1>8, <1>10, <2>1, <2>2, <2>3 DEF KeptIs
  <2>5. slot'[s] = slot[s] /\ device'[s] = slot[s] /\ Holds(s, slot[s])
    BY <1>1, <2>1 DEF Base
  <2>6. CASE r = s
    BY <1>7, <1>8, <2>4, <2>5, <2>6, PrefixOrder DEF KeptIs
  <2>7. CASE r # s
    <3>1. Other(r) = s
      BY <2>7, SlotFacts
    <3>2. Under(slot[s].image, slot'[r].image)
      BY <2>3, <2>5, <3>1 DEF Base
    <3>3. QED
      BY <1>7, <2>4, <3>2 DEF Under
  <2>8. QED
    BY <2>6, <2>7
<1>11. QED
  BY <1>7, <1>9, <1>10

\* A write over the slot beside the base leaves the base.
LEMMA WriteOver ==
  ASSUME DiskInv, NEW n \in Slots, Base(n), NEW c \in Content,
         slot' = [slot EXCEPT ![Other(n)] = c], device' = device,
         \/ c = slot[Other(n)]
         \/ c.kind \in {"torn", "scrap", "vacant"}
         \/ c.kind = "frame" /\ Under(slot[n].image, c.image),
         n = 1 \/ slot[0] # Absent
  PROVE  DiskInv' /\ Base(n)'
<1> DEFINE o == Other(n)
<1>1. o \in Slots /\ o # n /\ Slots = {n, o}
  BY SlotFacts
<1>2. /\ slot' \in [Slots -> Content] /\ slot'[o] = c /\ slot'[n] = slot[n]
      /\ slot \in [Slots -> Content] /\ device \in [Slots -> Content]
  BY <1>1 DEF DiskInv
<1>3. \A s \in Slots : slot'[s] = Absent => device[s] = Absent
  BY <1>1, <1>2, Kinds DEF DiskInv
<1>4. Base(n)'
  <2>1. Holds(o, c) => c = slot[o] \/ Under(slot[n].image, c.image)
    BY DEF Holds
  <2>2. slot'[0].kind \in {"frame", "vacant", "torn"} => slot'[1] # Absent
    <3>1. CASE n = 1
      BY <1>2, <3>1, HeldIsThere DEF Base, DiskInv
    <3>2. CASE n = 0
      BY <1>2, <3>2, Kinds, SlotFacts DEF Base
    <3>3. QED
      BY <3>1, <3>2, SlotFacts
  <2>3. QED
    BY <1>2, <2>1, <2>2 DEF Base
<1>5. device[0] = Absent =>
        /\ slot'[1].kind = "frame" => Len(slot'[1].image) = 1
        /\ device'[1].kind = "frame" => Len(device'[1].image) = 1
  <2>1. CASE n = 1
    BY <1>2, <2>1 DEF DiskInv
  <2>2. CASE n = 0
    <3>1. device[0] # Absent
      BY <2>2, HeldIsThere DEF Base, DiskInv
    <3>2. QED
      BY <3>1
  <2>3. QED
    BY <2>1, <2>2, SlotFacts
<1>6. QED
  BY <1>2, <1>3, <1>4, <1>5 DEF DiskInv

-----------------------------------------------------------------------------
(* The handle. *)

\* A handle, field by field, through the changes the steps make to it.
LEMMA HandleFields ==
  ASSUME NEW h \in Handle
  PROVE  /\ h.pc \in {"down", "live", "poisoned"} \cup Committing
         /\ h.image \in Image /\ h.next \in Image
         /\ h.newest \in Slots \cup {NoSlot} /\ h.vacate \in BOOLEAN
         /\ h.pc \in Committing <=> h.next # <<>>
         /\ Target(h) \in Slots /\ (Target(h) = 1 <=> h.newest # 1)
  BY EmptyIsImage, SlotFacts DEF Handle, Committing, Target

\* The handles a step of a commit leaves are handles.
LEMMA HandleMoves ==
  ASSUME NEW h \in Handle
  PROVE  /\ Failed(h) \in Handle /\ Failed(h).pc = "poisoned"
         /\ h.pc \in Committing =>
              \A to \in Committing :
                LET g == [h EXCEPT !.pc = to]
                IN  /\ g \in Handle /\ g.pc = to
                    /\ g.image = h.image /\ g.next = h.next
                    /\ g.newest = h.newest /\ g.vacate = h.vacate
         /\ \A i \in Image \ {<<>>} :
              LET g == [h EXCEPT !.pc = "sealed", !.next = i]
              IN  /\ g \in Handle /\ g.pc = "sealed"
                  /\ g.image = h.image /\ g.next = i
                  /\ g.newest = h.newest /\ g.vacate = h.vacate
<1>1. Failed(h) \in Handle /\ Failed(h).pc = "poisoned"
  BY EmptyIsImage DEF Handle, Failed, Committing
<1>2. ASSUME h.pc \in Committing, NEW to \in Committing
      PROVE  LET g == [h EXCEPT !.pc = to]
             IN  /\ g \in Handle /\ g.pc = to
                 /\ g.image = h.image /\ g.next = h.next
                 /\ g.newest = h.newest /\ g.vacate = h.vacate
  BY <1>2 DEF Handle, Committing
<1>3. ASSUME NEW i \in Image \ {<<>>}
      PROVE  LET g == [h EXCEPT !.pc = "sealed", !.next = i]
             IN  /\ g \in Handle /\ g.pc = "sealed"
                 /\ g.image = h.image /\ g.next = i
                 /\ g.newest = h.newest /\ g.vacate = h.vacate
  BY DEF Handle, Committing
<1>4. QED
  BY <1>1, <1>2, <1>3

\* A process that is not there is a handle, and down.
LEMMA DownIsHandle == Down \in Handle /\ Down.pc = "down"
  BY EmptyIsImage DEF Down, Handle

\* A handle that is down or poisoned relies on nothing.
LEMMA IdleNeedsNothing ==
  ASSUME handle'.pc \in {"down", "poisoned"}
  PROVE  InHand'
  BY DEF InHand, Committing

\* The newest slot of a handle that has not written yet is the base.
LEMMA NewestIsBase ==
  ASSUME TypeOK, DiskInv, InHand,
         handle.pc \in {"live", "sealed"}, handle.newest \in Slots
  PROVE  Base(handle.newest)
<1> DEFINE n == handle.newest
           o == Other(n)
<1>1. /\ o \in Slots /\ o # n /\ Slots = {n, o} /\ Other(o) = n
      /\ slot[n] \in Content /\ slot[o] \in Content
      /\ device[n] \in Content /\ device[o] \in Content
  BY SlotFacts DEF DiskInv
<1>2. /\ slot[n] = device[n] /\ Holds(n, slot[n]) /\ slot[0] # Absent
      /\ Holds(o, slot[o]) => Under(slot[o].image, slot[n].image)
  BY DEF InHand
<1>3. PICK s \in Slots : Base(s)
  BY <1>2 DEF DiskInv
<1>4. ASSUME s = o
      PROVE  FALSE
  <2>1. Holds(o, slot[o]) /\ Under(slot[n].image, slot[o].image)
    BY <1>1, <1>2, <1>3, <1>4 DEF Base
  <2>2. Len(slot[n].image) \in Nat /\ Len(slot[o].image) \in Nat
    BY <1>1, Kinds, PrefixOrder
  <2>3. QED
    BY <1>2, <2>1, <2>2 DEF Under
<1>5. QED
  BY <1>1, <1>3, <1>4

\* While what is kept grows, what was attested and signed from stays kept.
LEMMA HistoryGoesOn ==
  ASSUME DiskInv, DiskInv', HistoryInv, IsPrefix(Kept, Kept'),
         attested' = attested, signed' = signed,
         slot'[0].kind = "plain" \/ device'[0].kind = "plain" =>
           slot[0].kind = "plain" \/ device[0].kind = "plain"
  PROVE  HistoryInv'
<1>1. KeptIs /\ KeptIs'
  BY KeptIsBase, PTL
<1>2. Kept \in Image /\ Kept' \in Image
  BY <1>1 DEF KeptIs
<1>3. QED
  BY <1>2, PrefixOrder DEF HistoryInv

\* A step that leaves the files alone.
LEMMA FilesUntouched ==
  ASSUME DiskInv, slot' = slot, device' = device
  PROVE  DiskInv' /\ Kept' = Kept /\ IsPrefix(Kept, Kept')
<1>1. DiskInv' /\ Kept' = Kept
  BY DEF DiskInv, Base, Kept, Taken, Refused, Newest, Candidates, Framed
<1>2. QED
  BY <1>1, KeptIsBase, PrefixOrder DEF KeptIs

-----------------------------------------------------------------------------
(* The steps. *)

\* create begins a commit and writes nothing yet.
LEMMA CreateStep == ASSUME SlotInv, Create PROVE SlotInv'
<1>1. PICK c \in Changes :
        handle' = [pc |-> "sealed", image |-> <<>>, next |-> <<c>>,
                   newest |-> NoSlot, vacate |-> TRUE]
  BY DEF Create
<1>2. handle' \in Handle
  BY <1>1, FirstIsImage, EmptyIsImage DEF Handle, Committing
<1>3. slot[0] = Absent /\ slot[1] = Absent /\ device[0] = Absent
  BY SlotFacts DEF Create, SlotInv, DiskInv
<1>4. TypeOK' /\ DiskInv' /\ HistoryInv'
  BY <1>2, FilesUntouched, HistoryGoesOn DEF SlotInv, TypeOK, Create
<1>5. InHand'
  BY <1>1, <1>3, FirstIsImage, SlotFacts DEF InHand, Create, Committing, Target
<1>6. QED
  BY <1>4, <1>5 DEF SlotInv

\* seal takes the next image, one change later.
LEMMA SealStep == ASSUME SlotInv, Seal PROVE SlotInv'
<1>1. PICK c \in Changes :
        handle' = [handle EXCEPT !.pc = "sealed", !.next = Append(handle.image, c)]
  BY DEF Seal
<1>2. handle \in Handle /\ handle.image \in Image /\ handle.pc = "live"
  BY HandleFields DEF SlotInv, TypeOK, Seal
<1>3. /\ Append(handle.image, c) \in Image \ {<<>>}
      /\ Under(handle.image, Append(handle.image, c))
  BY <1>2, AppendExtends DEF Seal
<1>4. /\ handle' \in Handle /\ handle'.pc = "sealed"
      /\ handle'.image = handle.image /\ handle'.next = Append(handle.image, c)
      /\ handle'.newest = handle.newest /\ handle'.vacate = handle.vacate
  BY <1>1, <1>2, <1>3, HandleMoves
<1>5. TypeOK' /\ DiskInv' /\ HistoryInv'
  BY <1>4, FilesUntouched, HistoryGoesOn DEF SlotInv, TypeOK, Seal
<1>6. InHand'
  BY <1>2, <1>3, <1>4, SlotFacts DEF SlotInv, InHand, Seal, Committing, Target
<1>7. QED
  BY <1>5, <1>6 DEF SlotInv

\* What a write puts in its slot, whole or not, and what it leaves of the rest.
LEMMA WriteLeaves ==
  ASSUME SlotInv, NEW s \in Slots, NEW content \in Content,
         NEW from \in Committing, NEW to \in Committing,
         Write(s, content, from, to)
  PROVE  /\ handle \in Handle /\ handle.pc = from
         /\ \E c \in Content :
              /\ slot' = [slot EXCEPT ![s] = c]
              /\ c \in {slot[s], content} \/ c.kind \in {"torn", "scrap"}
         /\ slot' \in [Slots -> Content] /\ handle' \in Handle
         /\ \/ /\ slot' = [slot EXCEPT ![s] = content]
               /\ handle'.pc = to
               /\ handle'.image = handle.image /\ handle'.next = handle.next
               /\ handle'.newest = handle.newest /\ handle'.vacate = handle.vacate
            \/ handle'.pc = "poisoned"
<1>1. handle \in Handle /\ handle.pc = from /\ slot[s] \in Content
  BY DEF SlotInv, TypeOK, Write
<1>2. CASE slot' = [slot EXCEPT ![s] = content] /\ handle' = [handle EXCEPT !.pc = to]
  BY <1>1, <1>2, HandleMoves DEF SlotInv, TypeOK
<1>3. CASE /\ \E left \in Partly(slot[s], content) : slot' = [slot EXCEPT ![s] = left]
           /\ handle' = Failed(handle)
  <2>1. PICK left \in Partly(slot[s], content) : slot' = [slot EXCEPT ![s] = left]
    BY <1>3
  <2>2. left \in Content /\ (left \in {slot[s], content} \/ left.kind \in {"torn", "scrap"})
    BY <1>1, PartlyLeaves
  <2>3. QED
    BY <1>1, <1>3, <2>1, <2>2, HandleMoves DEF SlotInv, TypeOK
<1>4. QED
  BY <1>2, <1>3 DEF Write

\* A write leaves the device, so what is kept, alone.
LEMMA WriteKeeps ==
  ASSUME SlotInv, DiskInv', slot' \in [Slots -> Content], device' = device,
         attested' = attested, signed' = signed,
         slot'[0].kind = "plain" => slot[0].kind = "plain"
  PROVE  HistoryInv'
<1>1. Kept' = Kept
  BY DEF Kept, Taken, Refused, Newest, Candidates, Framed
<1>2. IsPrefix(Kept, Kept')
  BY <1>1, KeptIsBase, PrefixOrder DEF KeptIs, SlotInv
<1>3. QED
  BY <1>2, HistoryGoesOn DEF SlotInv

\* write_slot: whole, or as much of it as a failure leaves; the other slot still
\* holds the store.
LEMMA WriteSlotStep == ASSUME SlotInv, WriteSlot PROVE SlotInv'
<1> DEFINE t == Target(handle)
           n == handle.newest
<1>1. /\ handle \in Handle /\ handle.next \in Image /\ t \in Slots
      /\ n \in Slots \cup {NoSlot} /\ (t = 1 <=> n # 1)
      /\ handle.pc = "sealed" /\ Under(handle.image, handle.next)
  BY HandleFields DEF SlotInv, TypeOK, InHand, WriteSlot, Write, Committing
<1>2. /\ Frame(handle.next) \in Content /\ Frame(handle.next).kind = "frame"
      /\ Frame(handle.next).image = handle.next
  BY <1>1, Kinds
<1>3. /\ \E c \in Content :
           /\ slot' = [slot EXCEPT ![t] = c]
           /\ c \in {slot[t], Frame(handle.next)} \/ c.kind \in {"torn", "scrap"}
      /\ slot' \in [Slots -> Content] /\ handle' \in Handle
      /\ \/ /\ slot' = [slot EXCEPT ![t] = Frame(handle.next)]
            /\ handle'.pc = "written"
            /\ handle'.image = handle.image /\ handle'.next = handle.next
            /\ handle'.newest = handle.newest /\ handle'.vacate = handle.vacate
         \/ handle'.pc = "poisoned"
  BY <1>1, <1>2, WriteLeaves DEF WriteSlot, Committing
<1>4. PICK c \in Content :
           /\ slot' = [slot EXCEPT ![t] = c]
           /\ c \in {slot[t], Frame(handle.next)} \/ c.kind \in {"torn", "scrap"}
  BY <1>3
<1>5. UNCHANGED <<device, attested, signed>>
  BY DEF WriteSlot, Write
<1>6. DiskInv'
  <2>1. CASE n \in Slots
    <3>1. Base(n) /\ slot[0] # Absent /\ slot[n].image = handle.image /\ t = Other(n)
      BY <1>1, <2>1, NewestIsBase, SlotFacts DEF SlotInv, InHand
    <3>2. QED
      BY <1>1, <1>2, <1>4, <1>5, <2>1, <3>1, WriteOver DEF SlotInv
  <2>2. CASE n = NoSlot
    <3>1. /\ t = 1 /\ Len(handle.next) = 1
          /\ slot[0] = Absent /\ slot[1] = Absent /\ device[0] = Absent
      BY <1>1, <2>2, SlotFacts DEF SlotInv, InHand
    <3>2. slot'[0] = Absent /\ slot'[1] = c /\ device[1] = Absent
      BY <1>4, <3>1, SlotFacts DEF SlotInv, DiskInv
    <3>3. c.kind = "frame" => Len(c.image) = 1
      BY <1>2, <1>4, <3>1, Kinds
    <3>4. QED
      BY <1>3, <1>5, <3>1, <3>2, <3>3, SlotFacts, Kinds DEF SlotInv, DiskInv
  <2>3. QED
    BY <1>1, <2>1, <2>2
<1>7. HistoryInv'
  <2>1. slot'[0].kind = "plain" => slot[0].kind = "plain"
    BY <1>2, <1>4, SlotFacts DEF SlotInv, DiskInv
  <2>2. QED
    BY <1>3, <1>5, <1>6, <2>1, WriteKeeps
<1>8. InHand'
  <2>1. CASE /\ slot' = [slot EXCEPT ![t] = Frame(handle.next)]
             /\ handle'.pc = "written"
             /\ handle'.image = handle.image /\ handle'.next = handle.next
             /\ handle'.newest = handle.newest /\ handle'.vacate = handle.vacate
    <3>1. slot'[t] = Frame(handle.next) /\ \A s \in Slots : s # t => slot'[s] = slot[s]
      BY <1>1, <2>1 DEF SlotInv, DiskInv
    <3>2. Target(handle)' = t /\ (n \in Slots => n # t)
      BY <1>1, <2>1, SlotFacts DEF Target
    <3>3. slot'[0] = Absent => slot[0] = Absent
      BY <1>1, <1>2, <3>1, Kinds, SlotFacts
    <3>4. n = NoSlot => t # 0
      BY <1>1, SlotFacts
    <3>5. QED
      BY <1>1, <1>2, <1>5, <2>1, <3>1, <3>2, <3>3, <3>4, SlotFacts
         DEF SlotInv, InHand, Committing
  <2>2. CASE handle'.pc = "poisoned"
    BY <2>2, IdleNeedsNothing
  <2>3. QED
    BY <1>3, <2>1, <2>2
<1>9. QED
  BY <1>3, <1>5, <1>6, <1>7, <1>8 DEF SlotInv, TypeOK

\* A flush on behalf of nobody or of a handle it poisons.
LEMMA FlushKeeps ==
  ASSUME SlotInv, NEW s \in Slots,
         device' \in {device, [device EXCEPT ![s] = slot[s]]},
         UNCHANGED <<slot, attested, signed>>
  PROVE  /\ device' \in [Slots -> Content] /\ DiskInv' /\ HistoryInv'
         /\ IsPrefix(Kept, Kept')
<1>1. slot \in [Slots -> Content] /\ device \in [Slots -> Content]
  BY DEF SlotInv, TypeOK
<1>2. DiskInv' /\ IsPrefix(Kept, Kept') /\ device' \in [Slots -> Content]
  <2>1. CASE device' = device
    BY <1>1, <2>1, FilesUntouched DEF SlotInv
  <2>2. CASE device' = [device EXCEPT ![s] = slot[s]]
    BY <1>1, <2>2, StoreSlot DEF SlotInv
  <2>3. QED
    BY <2>1, <2>2
<1>3. device'[0] \in {device[0], slot[0]}
  BY <1>1, SlotFacts
<1>4. QED
  BY <1>2, <1>3, HistoryGoesOn DEF SlotInv

\* A commit's end: its slot is the base, so the Durable it mints is true.
LEMMA CommitEnds ==
  ASSUME SlotInv, handle.pc \in Committing, Committed(handle),
         NEW s \in Slots, device' = [device EXCEPT ![s] = slot[s]],
         UNCHANGED <<slot, signed>>,
         slot[Target(handle)] = Frame(handle.next),
         device'[Target(handle)] = Frame(handle.next),
         LET o == Other(Target(handle))
         IN  Holds(o, slot[o]) => Under(slot[o].image, handle.next),
         slot[0] # Absent, slot[0].kind # "plain",
         device'[0] # Absent, device'[0].kind # "plain"
  PROVE  SlotInv' /\ Kept' = handle.next /\ IsPrefix(Kept, Kept')
<1>1. PICK t \in Slots : t = Target(handle)
  BY HandleFields DEF SlotInv, TypeOK
<1> DEFINE o == Other(t)
<1>2. /\ handle \in Handle /\ handle.next \in Image \ {<<>>}
      /\ slot \in [Slots -> Content] /\ device \in [Slots -> Content]
      /\ slot[t] = Frame(handle.next) /\ device'[t] = Frame(handle.next)
      /\ Holds(o, slot[o]) => Under(slot[o].image, handle.next)
  BY <1>1, HandleFields DEF SlotInv, TypeOK
<1>3. o \in Slots /\ o # t /\ Slots = {t, o} /\ Other(o) = t
  BY <1>2, SlotFacts
<1>4. /\ Frame(handle.next).kind = "frame" /\ Frame(handle.next).image = handle.next
      /\ Holds(t, slot[t])
  BY <1>2, Kinds DEF Holds
<1>5. DiskInv' /\ IsPrefix(Kept, Kept') /\ device' \in [Slots -> Content]
  BY <1>2, StoreSlot DEF SlotInv
<1>6. Base(t)'
  <2>1. PICK r \in Slots : Base(r)'
    BY <1>5 DEF DiskInv
  <2>2. ASSUME r = o
        PROVE  FALSE
    <3>1. Under(handle.next, slot[o].image) /\ Holds(o, slot[o])
      BY <1>2, <1>3, <1>4, <2>1, <2>2 DEF Base
    <3>2. Len(slot[o].image) \in Nat /\ Len(handle.next) \in Nat
      BY <1>2, <1>3, Kinds, PrefixOrder
    <3>3. QED
      BY <1>2, <3>1, <3>2 DEF Under
  <2>3. QED
    BY <1>3, <2>1, <2>2
<1>7. KeptIs'
  BY <1>5, KeptIsBase, PTL
<1>8. Kept' = handle.next
  BY <1>2, <1>4, <1>6, <1>7 DEF KeptIs
<1>9. attested' = attested \cup {handle.next}
  BY DEF Committed
<1>10. HistoryInv'
  <2>1. KeptIs
    BY KeptIsBase DEF SlotInv
  <2>2. \A i \in attested \cup signed : i \in Image /\ IsPrefix(i, Kept)
    BY DEF SlotInv, HistoryInv
  <2>3. \A i \in attested' \cup signed' : IsPrefix(i, Kept')
    BY <1>2, <1>5, <1>8, <1>9, <2>1, <2>2, PrefixOrder DEF KeptIs
  <2>4. QED
    BY <1>2, <1>9, <2>3 DEF SlotInv, HistoryInv
<1>11. /\ handle' \in Handle /\ handle'.pc = "live" /\ handle'.image = handle.next
       /\ handle'.newest = t /\ handle'.vacate = FALSE
  BY <1>2, <1>1 DEF Committed, Handle
<1>12. InHand'
  BY <1>2, <1>3, <1>4, <1>11, SlotFacts DEF InHand, Committing
<1>13. TypeOK'
  BY <1>2, <1>5, <1>9, <1>11 DEF SlotInv, TypeOK
<1>14. QED
  BY <1>5, <1>8, <1>10, <1>12, <1>13 DEF SlotInv

\* What each step promises: the invariant, and that the store only grew by an
\* image that is attested when it is the last word.
Grows ==
  /\ SlotInv'
  /\ IsPrefix(Kept, Kept')
  /\ attested' \in {attested, attested \cup {Kept'}}

\* A flush that failed has stored the slot or has not, and poisons the handle.
LEMMA FlushFailsStep ==
  ASSUME SlotInv, NEW s \in Slots, FlushFails(s), UNCHANGED <<slot, signed>>
  PROVE  Grows
<1>1. /\ device' \in [Slots -> Content] /\ DiskInv' /\ HistoryInv'
      /\ IsPrefix(Kept, Kept')
  BY FlushKeeps DEF FlushFails
<1>2. handle' \in Handle /\ handle'.pc = "poisoned"
  BY HandleMoves DEF FlushFails, SlotInv, TypeOK
<1>3. InHand'
  BY <1>2, IdleNeedsNothing
<1>4. QED
  BY <1>1, <1>2, <1>3 DEF Grows, SlotInv, TypeOK, FlushFails

\* flush_slot: the image is on the device; the commit ends, or vacates slot 0.
LEMMA FlushSlotStep == ASSUME SlotInv, FlushSlot PROVE Grows
<1> DEFINE t == Target(handle)
           n == handle.newest
           o == Other(t)
<1>1. /\ handle \in Handle /\ handle.next \in Image /\ t \in Slots
      /\ n \in Slots \cup {NoSlot} /\ (t = 1 <=> n # 1)
      /\ handle.pc = "written" /\ handle.pc \in Committing
      /\ Under(handle.image, handle.next) /\ slot[t] = Frame(handle.next)
      /\ slot \in [Slots -> Content] /\ device \in [Slots -> Content]
  BY HandleFields DEF SlotInv, TypeOK, InHand, FlushSlot, Committing
<1>2. /\ Frame(handle.next) \in Content /\ Frame(handle.next).kind = "frame"
      /\ Frame(handle.next).image = handle.next /\ Frame(handle.next) # Absent
  BY <1>1, Kinds
<1>3. /\ n \in Slots =>
           /\ n = o /\ slot[n] = device[n] /\ slot[n].image = handle.image
           /\ slot[0] # Absent /\ (n = 0 => (handle.vacate <=> slot[0].kind = "plain"))
      /\ n = NoSlot =>
           handle.vacate /\ Len(handle.next) = 1 /\ slot[0] = Absent /\ device[0] = Absent
  BY <1>1, SlotFacts DEF SlotInv, InHand
<1>4. CASE FlushFails(t)
  BY <1>1, <1>4, FlushFailsStep DEF FlushSlot
<1>5. CASE /\ device' = [device EXCEPT ![t] = slot[t]]
           /\ MustVacate(handle)
           /\ handle' = [handle EXCEPT !.pc = "vacating"] /\ UNCHANGED attested
  <2>1. t = 1 /\ handle.vacate
    BY <1>5 DEF MustVacate
  <2>2. /\ device' \in [Slots -> Content] /\ DiskInv' /\ HistoryInv'
        /\ IsPrefix(Kept, Kept')
    BY <1>1, <1>5, FlushKeeps DEF FlushSlot
  <2>3. /\ handle' \in Handle /\ handle'.pc = "vacating"
        /\ handle'.image = handle.image /\ handle'.next = handle.next
        /\ handle'.newest = n /\ handle'.vacate = handle.vacate
    BY <1>1, <1>5, HandleMoves DEF Committing
  <2>4. /\ device'[1] = Frame(handle.next) /\ device'[0] = device[0]
        /\ slot' = slot /\ Target(handle)' = 1
    BY <1>1, <1>5, <2>1, <2>3, SlotFacts DEF FlushSlot, Target
  <2>5. n \in Slots => n = 0 /\ slot[0].kind = "plain"
    BY <1>1, <1>3, <2>1, SlotFacts
  <2>6. InHand'
    BY <1>1, <1>3, <2>1, <2>3, <2>4, <2>5, SlotFacts DEF InHand, Committing
  <2>7. QED
    BY <1>5, <2>2, <2>3, <2>6 DEF Grows, SlotInv, TypeOK, FlushSlot
<1>6. CASE /\ device' = [device EXCEPT ![t] = slot[t]]
           /\ ~MustVacate(handle) /\ Committed(handle)
  <2>1. t = 1 => ~handle.vacate
    BY <1>6 DEF MustVacate
  <2>2. n \in Slots
    BY <1>1, <1>3, <2>1, SlotFacts
  <2>3. slot[0].kind # "plain" /\ device'[t] = slot[t] /\ device'[0] = slot[0]
    BY <1>1, <1>2, <1>3, <1>6, <2>1, <2>2, SlotFacts
  <2>4. SlotInv' /\ Kept' = handle.next /\ IsPrefix(Kept, Kept')
    BY <1>1, <1>3, <1>6, <2>2, <2>3, CommitEnds DEF FlushSlot
  <2>5. QED
    BY <1>6, <2>4 DEF Grows, Committed
<1>7. QED
  BY <1>4, <1>5, <1>6 DEF FlushSlot

\* The vacant frame is written over slot 0: slot 1 holds the store.
LEMMA WriteVacantStep == ASSUME SlotInv, WriteVacant PROVE SlotInv'
<1>1. /\ handle \in Handle /\ handle.next \in Image /\ handle.pc = "vacating"
      /\ Under(handle.image, handle.next) /\ Target(handle) = 1
      /\ slot[1] = Frame(handle.next) /\ device[1] = Frame(handle.next)
      /\ device[0] = Absent => Len(handle.next) = 1
      /\ \/ slot[0] = Absent
         \/ /\ slot[0].kind = "plain" /\ device[0] = slot[0]
            /\ slot[0].image = handle.image
      /\ slot \in [Slots -> Content] /\ device \in [Slots -> Content]
  BY HandleFields DEF SlotInv, TypeOK, InHand, WriteVacant, Write, Committing
<1>2. /\ Frame(handle.next).kind = "frame" /\ Frame(handle.next).image = handle.next
      /\ Frame(handle.next) # Absent
      /\ Vacant \in Content /\ Vacant.kind = "vacant" /\ Absent.kind = "absent"
  BY <1>1, Kinds
<1>3. /\ \E c \in Content :
           /\ slot' = [slot EXCEPT ![0] = c]
           /\ c \in {slot[0], Vacant} \/ c.kind \in {"torn", "scrap"}
      /\ slot' \in [Slots -> Content] /\ handle' \in Handle
      /\ \/ /\ slot' = [slot EXCEPT ![0] = Vacant]
            /\ handle'.pc = "vacated"
            /\ handle'.image = handle.image /\ handle'.next = handle.next
            /\ handle'.newest = handle.newest /\ handle'.vacate = handle.vacate
         \/ handle'.pc = "poisoned"
  BY <1>2, SlotFacts, WriteLeaves DEF WriteVacant, Committing
<1>4. PICK c \in Content :
           /\ slot' = [slot EXCEPT ![0] = c]
           /\ c \in {slot[0], Vacant} \/ c.kind \in {"torn", "scrap"}
  BY <1>3
<1>5. UNCHANGED <<device, attested, signed>>
  BY DEF WriteVacant, Write
<1>6. Base(1)
  <2>1. slot[0] = Absent => device[0] = Absent
    BY SlotFacts DEF SlotInv, DiskInv
  <2>2. Holds(0, device[0]) => Under(device[0].image, slot[1].image)
    BY <1>1, <1>2, <2>1 DEF Holds
  <2>3. Holds(0, slot[0]) => slot[0] = device[0]
    BY <1>1, <1>2, <2>1 DEF Holds
  <2>4. QED
    BY <1>1, <1>2, <2>2, <2>3, SlotFacts DEF Base, Holds
<1>7. DiskInv'
  BY <1>2, <1>4, <1>5, <1>6, SlotFacts, WriteOver DEF SlotInv
<1>8. slot'[0] = c /\ slot'[1] = slot[1]
  BY <1>1, <1>4, SlotFacts
<1>9. HistoryInv'
  BY <1>2, <1>3, <1>4, <1>5, <1>7, <1>8, WriteKeeps
<1>10. InHand'
  <2>1. CASE /\ slot' = [slot EXCEPT ![0] = Vacant]
             /\ handle'.pc = "vacated"
             /\ handle'.image = handle.image /\ handle'.next = handle.next
             /\ handle'.newest = handle.newest /\ handle'.vacate = handle.vacate
    <3>1. slot'[0] = Vacant /\ Target(handle)' = 1
      BY <1>1, <2>1, SlotFacts DEF Target
    <3>2. QED
      BY <1>1, <1>5, <1>8, <2>1, <3>1 DEF InHand, Committing
  <2>2. CASE handle'.pc = "poisoned"
    BY <2>2, IdleNeedsNothing
  <2>3. QED
    BY <1>3, <2>1, <2>2
<1>11. QED
  BY <1>3, <1>5, <1>7, <1>9, <1>10 DEF SlotInv, TypeOK

\* The vacant frame is on the device, and the commit ends.
LEMMA FlushVacantStep == ASSUME SlotInv, FlushVacant PROVE Grows
<1>1. /\ handle \in Handle /\ handle.next \in Image /\ handle.pc = "vacated"
      /\ handle.pc \in Committing /\ Target(handle) = 1
      /\ slot[1] = Frame(handle.next) /\ device[1] = Frame(handle.next)
      /\ slot[0] = Vacant
      /\ slot \in [Slots -> Content] /\ device \in [Slots -> Content]
  BY HandleFields DEF SlotInv, TypeOK, InHand, FlushVacant, Committing
<1>2. Vacant.kind = "vacant" /\ Vacant # Absent /\ ~Holds(0, slot[0])
  BY <1>1, Kinds DEF Holds
<1>3. CASE FlushFails(0)
  BY <1>3, SlotFacts, FlushFailsStep DEF FlushVacant
<1>4. CASE device' = [device EXCEPT ![0] = slot[0]] /\ Committed(handle)
  <2>1. device'[0] = Vacant /\ device'[1] = device[1]
    BY <1>1, <1>4, SlotFacts
  <2>2. SlotInv' /\ Kept' = handle.next /\ IsPrefix(Kept, Kept')
    BY <1>1, <1>2, <1>4, <2>1, SlotFacts, CommitEnds DEF FlushVacant
  <2>3. QED
    BY <1>4, <2>2 DEF Grows, Committed
<1>5. QED
  BY <1>3, <1>4 DEF FlushVacant

\* A step that writes no file and mints no Durable.
LEMMA OnlyInHand ==
  ASSUME SlotInv, UNCHANGED <<slot, device, attested>>, handle' \in Handle,
         signed' \subseteq Image, <<>> \notin signed',
         \A i \in signed' : IsPrefix(i, Kept), InHand'
  PROVE  Grows
<1>1. DiskInv' /\ Kept' = Kept /\ IsPrefix(Kept, Kept')
  BY FilesUntouched DEF SlotInv
<1>2. TypeOK' /\ HistoryInv'
  BY <1>1 DEF SlotInv, TypeOK, HistoryInv
<1>3. QED
  BY <1>1, <1>2 DEF Grows, SlotInv

\* What open hands out has been flushed.
LEMMA OpenWithStep == ASSUME SlotInv, OpenWith PROVE Grows
<1>1. PICK n \in Slots : n = Newest(slot)
  BY OpenReads DEF SlotInv, OpenWith
<1>2. /\ Holds(n, slot[n])
      /\ Holds(Other(n), slot[Other(n)]) => Under(slot[Other(n)].image, slot[n].image)
      /\ slot[0] # Absent /\ slot[0] \in Content /\ slot[n] \in Content
      /\ slot[n].image \in Image
      /\ slot \in [Slots -> Content] /\ device \in [Slots -> Content]
  BY <1>1, OpenReads, Kinds, SlotFacts DEF SlotInv, DiskInv, OpenWith
<1>3. device' = [device EXCEPT ![n] = slot[n]]
  BY <1>1 DEF OpenWith, FlushStanding
<1>4. /\ device' \in [Slots -> Content] /\ DiskInv' /\ HistoryInv'
      /\ IsPrefix(Kept, Kept')
  BY <1>3, FlushKeeps DEF OpenWith
<1>5. CASE handle' = [pc |-> "live", image |-> slot[n].image, next |-> <<>>,
                      newest |-> n, vacate |-> slot[0].kind \in {"plain", "scrap"}]
  <2>1. handle' \in Handle
    BY <1>2, <1>5 DEF Handle
  <2>2. /\ handle'.pc = "live" /\ handle'.image = slot[n].image /\ handle'.newest = n
        /\ handle'.vacate <=> slot[0].kind \in {"plain", "scrap"}
    BY <1>5
  <2>3. n = 0 => slot[0].kind # "scrap"
    BY <1>2 DEF Holds
  <2>4. device'[n] = slot[n] /\ slot' = slot
    BY <1>2, <1>3 DEF OpenWith
  <2>5. InHand'
    BY <1>2, <2>2, <2>3, <2>4, SlotFacts DEF InHand, Committing
  <2>6. QED
    BY <1>4, <2>1, <2>5 DEF Grows, SlotInv, TypeOK, OpenWith
<1>6. CASE handle' = handle
  <2>1. InHand'
    BY <1>6, IdleNeedsNothing DEF OpenWith
  <2>2. QED
    BY <1>4, <1>6, <2>1 DEF Grows, SlotInv, TypeOK, OpenWith
<1>7. QED
  BY <1>1, <1>5, <1>6 DEF OpenWith

\* A signature is released from what the device holds.
LEMMA SignReservedStep == ASSUME SlotInv, SignReserved PROVE Grows
<1>1. PICK i \in Image : i = handle.image
  BY HandleFields DEF SlotInv, TypeOK
<1>2. PICK n \in Slots : n = handle.newest
  BY DEF SlotInv, InHand, SignReserved
<1>3. Base(n) /\ slot[n].image = i /\ Holds(n, slot[n]) /\ slot[n] = device[n]
  BY <1>1, <1>2, NewestIsBase DEF SlotInv, InHand, SignReserved
<1>4. Len(i) > 1 /\ i # <<>>
  BY <1>1, EmptyIsImage DEF SignReserved
<1>5. device[0] # Absent
  <2>1. ASSUME device[0] = Absent
        PROVE  n = 1
    BY <1>3, <2>1, HeldIsThere, SlotFacts DEF SlotInv, DiskInv
  <2>2. ASSUME n = 1
        PROVE  slot[1].kind = "frame" /\ slot[1].image = i
    BY <1>3, <2>2 DEF Holds
  <2>3. ASSUME device[0] = Absent
        PROVE  Len(i) = 1
    BY <2>1, <2>2, <2>3 DEF SlotInv, DiskInv
  <2>4. QED
    BY <1>4, <2>3
<1>6. Kept = i
  BY <1>3, <1>5, KeptIsBase DEF KeptIs, SlotInv
<1>7. signed' = signed \cup {i} /\ UNCHANGED <<slot, device, handle, attested>>
  BY <1>1 DEF SignReserved
<1>8. InHand'
  BY <1>7 DEF SlotInv, InHand, Target
<1>9. \A j \in signed' : IsPrefix(j, Kept)
  BY <1>6, <1>7, PrefixOrder DEF SlotInv, HistoryInv
<1>10. QED
  BY <1>4, <1>7, <1>8, <1>9, OnlyInHand DEF SlotInv, TypeOK, HistoryInv

\* The process ends where it stands: the cache is as it was.
LEMMA StopStep == ASSUME SlotInv, Stop PROVE Grows
<1>1. handle' \in Handle /\ InHand'
  BY DownIsHandle, IdleNeedsNothing DEF Stop
<1>2. QED
  BY <1>1, OnlyInHand DEF Stop, SlotInv, TypeOK, HistoryInv

\* A copied store is there whole, on the device too, before anything else.
LEMMA PlaceSnapshotStep == ASSUME SlotInv, PlaceSnapshot PROVE Grows
<1>1. PICK i \in BoundedSeq(Changes, 2) \ {<<>>} : slot' = [slot EXCEPT ![0] = Plain(i)]
  BY DEF PlaceSnapshot
<1>2. i \in Image /\ i # <<>>
  <2>1. i \in Seq(Changes) /\ Len(i) <= 2
    <3>1. PICK m \in 0 .. 2 : i \in [1 .. m -> Changes]
      BY <1>1 DEF BoundedSeq, SeqOf
    <3>2. QED
      BY <3>1
  <2>2. Len(i) <= MaxLength
    BY <2>1, LenProperties, SlotAssumption
  <2>3. QED
    BY <1>1, <2>1, <2>2, ImageIsSeq
<1>3. Plain(i) \in Content /\ Plain(i).kind = "plain" /\ Plain(i).image = i
  BY <1>2, Kinds
<1>4. /\ slot[0] = Absent /\ slot[1] = Absent /\ device = slot
      /\ slot \in [Slots -> Content]
      /\ slot'[0] = Plain(i) /\ slot'[1] = Absent /\ slot' \in [Slots -> Content]
      /\ device' = slot' /\ UNCHANGED <<handle, attested, signed>>
      /\ handle.pc = "down"
  BY <1>1, <1>3, SlotFacts DEF PlaceSnapshot, SlotInv, DiskInv
<1>5. Absent.kind = "absent" /\ Plain(i) # Absent
  BY <1>3, Kinds
<1>6. Base(0)'
  BY <1>3, <1>4, <1>5, SlotFacts DEF Base, Holds
<1>7. DiskInv'
  BY <1>3, <1>4, <1>5, <1>6, SlotFacts DEF DiskInv
<1>8. Kept = <<>>
  BY <1>4, KeptIsBase DEF KeptIs, SlotInv
<1>9. KeptIs'
  BY <1>7, KeptIsBase, PTL
<1>10. Kept' \in Image /\ IsPrefix(Kept, Kept')
  BY <1>8, <1>9, PrefixOrder DEF KeptIs
<1>11. attested = {} /\ signed = {}
  <2>1. \A j \in attested \cup signed : j \in Image /\ IsPrefix(j, <<>>) /\ j # <<>>
    BY <1>8 DEF SlotInv, HistoryInv
  <2>2. QED
    BY <2>1, PrefixOrder
<1>12. HistoryInv'
  BY <1>4, <1>11 DEF HistoryInv
<1>13. InHand'
  BY <1>4, IdleNeedsNothing
<1>14. QED
  BY <1>4, <1>7, <1>10, <1>12, <1>13 DEF Grows, SlotInv, TypeOK

\* The cache takes nothing away, whenever it stores a slot.
LEMMA WritebackStep == ASSUME SlotInv, NEW s \in Slots, Writeback(s) PROVE Grows
<1>1. /\ device' = [device EXCEPT ![s] = slot[s]] /\ slot[s] # device[s]
      /\ UNCHANGED <<slot, handle, attested, signed>>
  BY DEF Writeback
<1>2. /\ device' \in [Slots -> Content] /\ DiskInv' /\ HistoryInv'
      /\ IsPrefix(Kept, Kept')
  BY <1>1, FlushKeeps
<1>3. \A r \in Slots : /\ slot[r] = device[r] => device'[r] = device[r]
                       /\ device'[r] = device[r] \/ device'[r] = slot[r]
  BY <1>1 DEF SlotInv, TypeOK
<1>4. slot[0] = Absent => device[0] = Absent
  BY SlotFacts DEF SlotInv, DiskInv
<1>5. Target(handle)' = Target(handle) /\ (Target(handle) = 1 => Target(handle) \in Slots)
  BY <1>1, SlotFacts DEF Target
<1>6. InHand'
  BY <1>1, <1>3, <1>4, <1>5, SlotFacts DEF SlotInv, InHand
<1>7. QED
  BY <1>1, <1>2, <1>6 DEF Grows, SlotInv, TypeOK

\* A power cut leaves each slot as the device has it, or partly as the cache.
LEMMA PowerCutStep == ASSUME SlotInv, PowerCut PROVE Grows
<1>1. DiskInv' /\ IsPrefix(Kept, Kept')
  BY CutKeeps DEF SlotInv
<1>2. /\ slot' \in [Slots -> Content] /\ device' = slot'
      /\ slot'[0] \in {slot[0], device[0]} \/ slot'[0].kind \in {"torn", "scrap"}
  BY CutReads, SlotFacts DEF PowerCut, SlotInv
<1>3. handle' \in Handle /\ InHand'
  BY DownIsHandle, IdleNeedsNothing DEF PowerCut
<1>4. HistoryInv'
  BY <1>1, <1>2, HistoryGoesOn DEF SlotInv, PowerCut
<1>5. QED
  BY <1>1, <1>2, <1>3, <1>4 DEF Grows, SlotInv, TypeOK, PowerCut

\* A step that changes nothing.
LEMMA StutterStep == ASSUME SlotInv, UNCHANGED vars PROVE Grows
<1>1. InHand'
  BY DEF vars, SlotInv, InHand, Target
<1>2. QED
  BY <1>1, OnlyInHand DEF vars, SlotInv, TypeOK, HistoryInv

\* A step that leaves the device and the attested images keeps what is kept.
LEMMA WriteGrows ==
  ASSUME SlotInv, SlotInv', UNCHANGED <<device, attested>>
  PROVE  Grows
<1>1. Kept' = Kept
  BY DEF Kept, Taken, Refused, Newest, Candidates, Framed
<1>2. IsPrefix(Kept, Kept')
  BY <1>1, KeptIsBase, PrefixOrder DEF KeptIs, SlotInv
<1>3. QED
  BY <1>2 DEF Grows

\* Every step keeps the invariant, and is a commit of DurableStore or nothing.
LEMMA EveryStep == ASSUME SlotInv, [Next]_vars PROVE Grows
<1>1. CASE Create
  BY <1>1, CreateStep, WriteGrows DEF Create
<1>2. CASE Seal
  BY <1>2, SealStep, WriteGrows DEF Seal
<1>3. CASE WriteSlot
  BY <1>3, WriteSlotStep, WriteGrows DEF WriteSlot, Write
<1>4. CASE WriteVacant
  BY <1>4, WriteVacantStep, WriteGrows DEF WriteVacant, Write
<1>5. CASE FlushSlot
  BY <1>5, FlushSlotStep
<1>6. CASE FlushVacant
  BY <1>6, FlushVacantStep
<1>7. CASE OpenWith
  BY <1>7, OpenWithStep
<1>8. CASE SignReserved
  BY <1>8, SignReservedStep
<1>9. CASE Stop
  BY <1>9, StopStep
<1>10. CASE PlaceSnapshot
  BY <1>10, PlaceSnapshotStep
<1>11. CASE PowerCut
  BY <1>11, PowerCutStep
<1>12. CASE \E s \in Slots : Writeback(s)
  BY <1>12, WritebackStep
<1>13. CASE UNCHANGED vars
  BY <1>13, StutterStep
<1>14. QED
  BY <1>1, <1>2, <1>3, <1>4, <1>5, <1>6, <1>7, <1>8, <1>9, <1>10, <1>11, <1>12, <1>13
     DEF Next

\* There is no store to begin with.
LEMMA NothingAtFirst == Init => SlotInv /\ Kept = <<>>
<1> SUFFICES ASSUME Init
             PROVE  SlotInv /\ Kept = <<>>
  OBVIOUS
<1>1. /\ slot \in [Slots -> Content] /\ device \in [Slots -> Content]
      /\ \A s \in Slots : slot[s] = Absent /\ device[s] = Absent
      /\ Absent.kind = "absent"
  BY Kinds DEF Init
<1>2. DiskInv
  BY <1>1, SlotFacts DEF DiskInv
<1>3. handle \in Handle /\ handle.pc = "down"
  BY DownIsHandle DEF Init
<1>4. InHand
  BY <1>3 DEF InHand, Committing
<1>5. HistoryInv /\ TypeOK
  BY <1>1, <1>3, SlotFacts DEF Init, HistoryInv, TypeOK
<1>6. Kept = <<>>
  BY <1>1, SlotFacts DEF Kept, Taken
<1>7. QED
  BY <1>2, <1>4, <1>5, <1>6 DEF SlotInv

-----------------------------------------------------------------------------
(* What holds of the Windows store. *)

\* The invariant: of two slots one is always whole on the device and newest
\* there, and each place in a command has the slots it relies on.
THEOREM SlotInvariant == Spec => []SlotInv
<1>1. SlotInv /\ [Next]_vars => SlotInv'
  BY EveryStep DEF Grows
<1>2. QED
  BY <1>1, NothingAtFirst, PTL DEF Spec

\* The type invariant.
THEOREM TypeCorrect == Spec => []TypeOK
<1>1. SlotInv => TypeOK
  BY DEF SlotInv
<1>2. QED
  BY <1>1, SlotInvariant, PTL

\* I3 on Windows: two slots rewritten in place, no rename and no file beside
\* them, keep the promise of DurableStore over kills, failed flushes and power
\* cuts: one history, which only grows, and a Durable only for what no power
\* cut can take back.
THEOREM SlotsImplementDurableStore == Spec => ImplementsDurableStore
<1>1. Init => Durable!Init
  BY NothingAtFirst DEF Init, Durable!Init
<1>2. SlotInv /\ [Next]_vars => [Durable!Commit]_<<Kept, attested>>
  <2> SUFFICES ASSUME SlotInv, [Next]_vars
               PROVE  Durable!Commit
    OBVIOUS
  <2>1. Grows
    BY EveryStep
  <2>2. KeptIs'
    BY <2>1, KeptIsBase, PTL DEF Grows, SlotInv
  <2>3. QED
    BY <2>1, <2>2, ImageIsSeq
       DEF Grows, KeptIs, Durable!Commit, Durable!IsPrefix, IsPrefix
<1>3. QED
  BY <1>1, <1>2, SlotInvariant, PTL DEF Spec, ImplementsDurableStore, Durable!Spec

\* A power cut that leaves accounts.mks there leaves a slot to take.
LEMMA CutIsReadable ==
  ASSUME DiskInv, NEW f \in AfterCut, f[0] # Absent
  PROVE  ~Refused(f)
<1>1. /\ f \in [Slots -> Content]
      /\ \A s \in Slots : f[s] \in {slot[s], device[s]} \/ f[s].kind \in {"torn", "scrap"}
      /\ \A s \in Slots : slot[s] = device[s] => f[s] = slot[s]
      /\ slot \in [Slots -> Content] /\ device \in [Slots -> Content]
  BY CutReads DEF DiskInv
<1>2. slot[0] # Absent
  BY <1>1, Kinds, SlotFacts DEF DiskInv
<1>3. PICK s \in Slots : Base(s)
  BY <1>2 DEF DiskInv
<1> DEFINE o == Other(s)
<1>4. o \in Slots /\ Other(o) = s /\ o # s /\ Slots = {s, o}
  BY SlotFacts
<1>5. f[s] = slot[s] /\ Holds(s, f[s])
  BY <1>1, <1>3 DEF Base
<1>6. f[0].kind \in {"vacant", "frame", "torn"} => f[1] # Absent
  <2>1. ASSUME f[1] = Absent
        PROVE  s = 0 /\ (slot[1] = Absent \/ device[1] = Absent)
    BY <1>1, <1>5, <2>1, Kinds, SlotFacts, HeldIsThere
  <2>2. QED
    BY <1>1, <1>3, <1>5, <2>1, SlotFacts DEF Base, DiskInv
<1>7. CASE Holds(o, f[o]) /\ Under(slot[s].image, f[o].image)
  BY <1>1, <1>4, <1>5, <1>6, <1>7, Reading DEF Under
<1>8. CASE Holds(o, f[o]) => Under(f[o].image, slot[s].image)
  BY <1>1, <1>4, <1>5, <1>6, <1>8, Reading DEF Under
<1>9. f[o].kind \in {"torn", "scrap"} => ~Holds(o, f[o])
  BY DEF Holds
<1>10. QED
  BY <1>1, <1>3, <1>4, <1>7, <1>8, <1>9 DEF Base

\* A user is not locked out of the store: whatever step the process died at,
\* and whatever a power cut now would leave of the slots, open takes an image.
THEOREM OpenTakesAnImageHolds == Spec => []OpenTakesAnImage
<1>1. SlotInv => OpenTakesAnImage
  BY OpenReads, CutIsReadable DEF SlotInv, OpenTakesAnImage
<1>2. QED
  BY <1>1, SlotInvariant, PTL

\* A build that reads only the rename layout finds no store in accounts.mks
\* once a Durable says that a newer image is kept.
THEOREM OldBuildReadsNothingStaleHolds == Spec => []OldBuildReadsNothingStale
<1>1. SlotInv => OldBuildReadsNothingStale
  BY DEF SlotInv, HistoryInv, OldBuildReadsNothingStale
<1>2. QED
  BY <1>1, SlotInvariant, PTL

\* I2 on Windows, through resign too: what a signature was released from is on
\* the device, so no power cut hands its position out again.
THEOREM SignedIsKeptHolds == Spec => []SignedIsKept
<1>1. SlotInv => SignedIsKept
  BY DEF SlotInv, HistoryInv, SignedIsKept
<1>2. QED
  BY <1>1, SlotInvariant, PTL

=============================================================================
