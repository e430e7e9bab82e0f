--------------------------- MODULE StoreImageProofs ---------------------------
(***************************************************************************)
(* Proofs about StoreImage: that one nonce seals one image, that what was    *)
(* written reads back, that a reservation is kept as it was made, that no    *)
(* refusal makes an account up, and whose a key is.                          *)
(***************************************************************************)
EXTENDS StoreImage, FiniteSetTheorems, SequenceTheorems, TLAPS

-----------------------------------------------------------------------------
(* What is true of a slot, of a box and of a file.                          *)

\* A reservation of an account, as `reserved` has it.
Reservation(slot) ==
  [tag |-> slot.account.tag, spent |-> Block(slot).spent,
   digest |-> Block(slot).digest, figures |-> Block(slot).figures]

\* An account that restores, and at most one block, of the position before the
\* index and reserved as it stands.
SlotOK(slot, R) ==
  /\ slot = Slot(slot.account, slot.pending, slot.settled)
  /\ IsAccount(slot.account) /\ Restores(slot.account)
  /\ slot.pending \in Blocks \cup {None} /\ slot.settled \in Blocks \cup {None}
  /\ Encodable(slot)
  /\ Block(slot) # None => Reservation(slot) \in R

LengthOf(box) ==
  HEADER_LEN + BodyLenAt(box.aad.version, box.body.count) + TRAILER_LEN

SlotsIn(box) == {SlotOf(box.aad.version, r) : r \in box.body.records}

\* A box was sealed under a header the gates pass, and holds no more than the
\* cap and nothing but records that read as slots.
BoxOK(b, R, n) ==
  /\ b.nonce = NonceFor(b.nonce[1], b.body.generation)
  /\ b.nonce[1] \in 0..n /\ b.body.generation \in Nat
  /\ b.aad = [magic |-> TRUE, version |-> b.aad.version, kdfId |-> ARGON2ID,
              kdf |-> RECOMMENDED, salt |-> b.aad.salt, nonce |-> b.nonce]
  /\ b.aad.version \in {V3_VERSION, VERSION}
  /\ b.body.count \in 0..MAX_ACCOUNTS /\ b.body.others \in Nat
  /\ IsFiniteSet(SlotsIn(b))
  /\ \A r \in b.body.records : Canonical(b.aad.version, r)
  /\ \A slot \in SlotsIn(b) : SlotOK(slot, R)

\* The header and the length of the file are those its box was sealed under.
Whole(f) == f.header = f.box.aad /\ f.length = LengthOf(f.box)

FileShape(f) ==
  /\ f = [header |-> f.header, box |-> f.box, length |-> f.length,
          older |-> f.older, damaged |-> f.damaged]
  /\ f.header = [magic |-> f.header.magic, version |-> f.header.version,
                 kdfId |-> f.header.kdfId, kdf |-> f.header.kdf,
                 salt |-> f.header.salt, nonce |-> f.header.nonce]
  /\ f.header.kdf = [m |-> f.header.kdf.m, t |-> f.header.kdf.t,
                     p |-> f.header.kdf.p]

\* A file is an old build's, which no gate of this one passes, or one of the
\* boxes sealed; and one field at most is not what was written.
FileOK(f, S) ==
  /\ FileShape(f)
  /\ \/ f.box = None /\ f.header.kdfId # ARGON2ID /\ f.older # None
     \/ /\ f.box \in S /\ f.older = None
        /\ ~f.damaged => Whole(f)
        /\ f.header.version \in {1, 2} =>
             f.header.kdf = RECOMMENDED /\ f.length = LengthOf(f.box)

-----------------------------------------------------------------------------
(* The operators of the format.                                             *)

\* The widths of format.rs, added up.
LEMMA Widths ==
  /\ HEADER_LEN = 51 /\ BODY_HEADER_LEN = 45 /\ RECORD_LEN = 195
  /\ TRAILER_LEN = 16 /\ V3_RECORD_LEN = 178 /\ MAX_ACCOUNTS = 65536
  /\ MIN_IMAGE_LEN = 112 /\ MAX_IMAGE_LEN = 112 + 65536 * 195
BY DEF HEADER_LEN, BODY_HEADER_LEN, RECORD_LEN, TRAILER_LEN, V3_RECORD_LEN,
       MAX_ACCOUNTS, MIN_IMAGE_LEN, MAX_IMAGE_LEN

\* The length of an image is its records' and 112 bytes.
LEMMA LengthIs ==
  ASSUME NEW box, box.body.count \in Nat, box.aad.version \in {V3_VERSION, VERSION}
  PROVE  \/ LengthOf(box) = 112 + 178 * box.body.count
         \/ LengthOf(box) = 112 + 195 * box.body.count
<1>1. CASE box.aad.version = V3_VERSION
  <2>1. BodyLenAt(box.aad.version, box.body.count) = box.body.count * 178 + 45
    BY <1>1, Widths DEF BodyLenAt, RecordLenAt
  <2> QED
    BY <2>1, Widths DEF LengthOf
<1>2. CASE box.aad.version # V3_VERSION
  <2>1. BodyLenAt(box.aad.version, box.body.count) = box.body.count * 195 + 45
    BY <1>2, Widths DEF BodyLenAt, RecordLenAt
  <2> QED
    BY <2>1, Widths DEF LengthOf
<1> QED
  BY <1>1, <1>2

\* The costs a store is made with pass the range check.
LEMMA RecommendedIsChecked == Checked(RECOMMENDED)
<1>1. RECOMMENDED.m = 65536 /\ RECOMMENDED.t = 3 /\ RECOMMENDED.p = 1
  BY DEF RECOMMENDED
<1>2. /\ MIN_M_COST \in Nat /\ MAX_M_COST \in Nat
      /\ MIN_M_COST <= 65536 /\ 65536 <= MAX_M_COST
  BY DEF MIN_M_COST, MAX_M_COST
<1> QED
  BY <1>1, <1>2 DEF Checked

\* The fields of a box, without the records.
LEMMA BoxFields ==
  ASSUME NEW b, NEW R, NEW n, BoxOK(b, R, n)
  PROVE  /\ b.aad.magic = TRUE /\ b.aad.kdfId = ARGON2ID
         /\ b.aad.kdf = RECOMMENDED /\ b.aad.nonce = b.nonce
         /\ b.aad.version \in {V3_VERSION, VERSION}
         /\ b.body.count \in Nat /\ b.body.count <= MAX_ACCOUNTS
<1>1. /\ b.aad = [magic |-> TRUE, version |-> b.aad.version, kdfId |-> ARGON2ID,
                  kdf |-> RECOMMENDED, salt |-> b.aad.salt, nonce |-> b.nonce]
      /\ b.aad.version \in {V3_VERSION, VERSION}
      /\ b.body.count \in 0..MAX_ACCOUNTS
  BY DEF BoxOK
<1>2. /\ b.aad.magic = TRUE /\ b.aad.kdfId = ARGON2ID
      /\ b.aad.kdf = RECOMMENDED /\ b.aad.nonce = b.nonce
  BY <1>1
<1>3. MAX_ACCOUNTS \in Nat
  BY DEF MAX_ACCOUNTS
<1>4. b.body.count \in Nat /\ b.body.count <= MAX_ACCOUNTS
  BY <1>1, <1>3
<1> QED
  BY <1>1, <1>2, <1>4

\* parse_with_key of a whole file, with the key of its box: what is in the box.
LEMMA WholeParses ==
  ASSUME NEW f, NEW R, NEW n, Whole(f), BoxOK(f.box, R, n)
  PROVE  ParseWithKey(f, f.box.key) =
           [said |-> "parsed", first |-> None,
            generation |-> f.box.body.generation, master |-> f.box.body.master,
            others |-> f.box.body.others, slots |-> SlotsIn(f.box)]
<1>0. /\ f.box.body.count \in Nat /\ f.box.body.count <= MAX_ACCOUNTS
      /\ f.box.aad.version \in {V3_VERSION, VERSION}
  BY BoxFields, Zenon
<1>1. /\ f.length >= TRAILER_LEN + 10 /\ f.length >= MIN_IMAGE_LEN
      /\ f.length <= MAX_IMAGE_LEN /\ f.length \in Nat
  <2>0. MAX_ACCOUNTS = 65536
    BY DEF MAX_ACCOUNTS
  <2>1. /\ f.box.body.count \in Nat /\ f.box.body.count <= 65536
        /\ f.box.aad.version \in {V3_VERSION, VERSION}
    BY <1>0, <2>0
  <2>2. f.length = 112 + 178 * f.box.body.count \/ f.length = 112 + 195 * f.box.body.count
    BY <2>1, LengthIs DEF Whole
  <2> QED
    BY <2>1, <2>2, Widths
<1>2. /\ f.header.magic = TRUE /\ f.header.version \in {V3_VERSION, VERSION}
      /\ f.header.kdfId = ARGON2ID /\ f.header.kdf = RECOMMENDED
      /\ f.header.nonce = f.box.nonce
  BY BoxFields DEF Whole
<1>3. ReadHeader(f) = Refusal("framed")
  <2>1. ~(f.length > MAX_IMAGE_LEN) /\ ~(f.length < TRAILER_LEN + 10)
        /\ ~(f.length < MIN_IMAGE_LEN)
    BY <1>1, Widths
  <2> QED
    BY <1>2, <2>1, RecommendedIsChecked DEF ReadHeader
<1>4. Decrypts(f, f.box.key)
  BY <1>2 DEF Decrypts, Whole, LengthOf
<1>5. ~(f.box.body.count > MAX_ACCOUNTS)
  <2>1. MAX_ACCOUNTS \in Nat
    BY DEF MAX_ACCOUNTS
  <2> QED
    BY <2>1, <1>0
<1>6. f.length = HEADER_LEN + BodyLenAt(f.header.version, f.box.body.count) + TRAILER_LEN
  BY DEF Whole, LengthOf
<1>7. /\ \A r \in f.box.body.records : Canonical(f.header.version, r)
      /\ SlotsIn(f.box) = {SlotOf(f.header.version, r) : r \in f.box.body.records}
  BY DEF Whole, BoxOK, SlotsIn
<1> QED
  BY <1>3, <1>4, <1>5, <1>6, <1>7 DEF ParseWithKey, Refusal

\* parse_with_key takes nothing else: the gates, the key and the header's
\* binding leave only a whole file under its own key.
LEMMA ParsedIsWhole ==
  ASSUME NEW f, NEW S, NEW key, FileOK(f, S), ParseWithKey(f, key).said = "parsed"
  PROVE  f.box \in S /\ Whole(f) /\ key = f.box.key
<1>1. ReadHeader(f).said = "framed"
  <2>1. CASE ReadHeader(f).said # "framed"
    <3>1. ParseWithKey(f, key) = ReadHeader(f)
      BY <2>1 DEF ParseWithKey
    <3>2. ReadHeader(f).said # "parsed"
      BY DEF ReadHeader, Refusal
    <3> QED
      BY <3>1, <3>2
  <2> QED
    BY <2>1
<1>2. f.header.kdfId = ARGON2ID
  BY <1>1 DEF ReadHeader, Refusal
<1>3. Decrypts(f, key)
  BY <1>1 DEF ParseWithKey, Refusal
<1> QED
  BY <1>2, <1>3 DEF FileOK, Decrypts, Whole, LengthOf

\* A file passes a name to a refusal only if it is an old build's: 256, the
\* count the costs spell, is the length of no sealed image.
LEMMA RefusalNamesOlder ==
  ASSUME NEW f, NEW S, NEW R, NEW n, FileOK(f, S), \A b \in S : BoxOK(b, R, n),
         ReadHeader(f).first # None
  PROVE  f.older # None /\ ReadHeader(f).first = f.older.first
<1>1. OlderFirstAccount(f) # None /\ ReadHeader(f).first = OlderFirstAccount(f)
  BY DEF ReadHeader, Refusal
<1>2. CASE f.older # None
  BY <1>1, <1>2 DEF OlderFirstAccount, OldFirst
<1>3. CASE f.older = None
  <2>1. /\ f.box \in S /\ f.header.version \in {1, 2}
        /\ f.header.kdf = RECOMMENDED /\ f.length = LengthOf(f.box)
        /\ f.length = 22 + OldCount(f) * OldRecordLen(f.header.version) + 32
    BY <1>1, <1>3 DEF FileOK, OlderFirstAccount
  <2>2. OldCount(f) = 256
    <3>1. f.header.kdf.t = 3 /\ f.header.kdf.p = 1
      BY <2>1 DEF RECOMMENDED
    <3>2. 3 \div TOP_BYTE = 0 /\ 1 % TOP_BYTE = 1
      BY DEF TOP_BYTE
    <3> QED
      BY <1>3, <3>1, <3>2 DEF OldCount
  <2>3. f.length = 24118 \/ f.length = 45622
    BY <2>1, <2>2 DEF OldRecordLen
  <2>4. PICK k \in Nat : f.length = 112 + 178 * k \/ f.length = 112 + 195 * k
    <3>1. BoxOK(f.box, R, n)
      BY <2>1
    <3>2. /\ f.box.body.count \in Nat
          /\ f.box.aad.version \in {V3_VERSION, VERSION}
      BY <3>1, BoxFields
    <3> QED
      BY <2>1, <3>2, LengthIs
  <2> QED
    BY <2>3, <2>4
<1> QED
  BY <1>2, <1>3

-----------------------------------------------------------------------------
(* Encoding: what is sealed reads as what was held.                         *)

\* A record this version writes passes the rules and reads as its slot.
LEMMA RoundTrip ==
  ASSUME NEW slot, NEW R, SlotOK(slot, R)
  PROVE  Canonical(VERSION, Record(slot)) /\ SlotOf(VERSION, Record(slot)) = slot
<1> DEFINE r == Record(slot)
<1>1. VERSION # V3_VERSION
  BY DEF VERSION, V3_VERSION
<1>2. /\ r.account = slot.account
      /\ r.flag = IF slot.pending # None THEN 1 ELSE IF slot.settled # None THEN 2 ELSE 0
      /\ r.spent = IF Block(slot) = None THEN 0 ELSE Block(slot).spent
      /\ r.digest = IF Block(slot) = None THEN 0 ELSE Block(slot).digest
      /\ r.figures = FiguresOf(Block(slot))
  BY DEF Record
<1>3. /\ slot = [account |-> slot.account, pending |-> slot.pending, settled |-> slot.settled]
      /\ Restores(slot.account) /\ Encodable(slot)
      /\ slot.pending \in Blocks \cup {None} /\ slot.settled \in Blocks \cup {None}
  BY DEF SlotOK, Slot
<1> HIDE DEF r
<1>4. CASE Block(slot) = None
  <2>1. slot.pending = None /\ slot.settled = None
    BY <1>4 DEF Block
  <2>2. r.flag = 0 /\ r.spent = 0 /\ r.digest = 0 /\ r.figures = <<0, 0, 0>>
    BY <1>2, <1>4, <2>1 DEF FiguresOf
  <2>3. Canonical(VERSION, r)
    BY <1>1, <1>2, <1>3, <2>2 DEF Canonical
  <2>4. SlotOf(VERSION, r) = slot
    BY <1>2, <1>3, <2>1, <2>2 DEF SlotOf, Slot
  <2> QED
    BY <2>3, <2>4 DEF r
<1>5. CASE Block(slot) # None
  <2>1. PICK block : block = Block(slot)
    OBVIOUS
  <2>2. /\ block \in Blocks /\ block # None /\ block.spent + 1 = slot.account.wots
        /\ \/ slot.pending = block /\ slot.settled = None /\ r.flag = 1
           \/ slot.pending = None /\ slot.settled = block /\ r.flag = 2
    BY <1>2, <1>3, <1>5, <2>1 DEF Block, Encodable
  <2>3. r.spent = block.spent /\ r.digest = block.digest /\ r.figures = FiguresOf(block)
    BY <1>2, <1>5, <2>1
  <2>4. /\ block = [spent |-> block.spent, digest |-> block.digest, figures |-> block.figures]
        /\ block.figures \in Figures \cup {None}
    BY <2>2 DEF Blocks
  <2>5. \/ /\ block.figures = None /\ r.figures = <<0, 0, 0>>
        \/ /\ block.figures # None
           /\ r.figures = <<1, block.figures.balance, block.figures.live>>
           /\ block.figures = [balance |-> block.figures.balance,
                               live |-> block.figures.live]
    BY <2>2, <2>3, <2>4, ImageAssumption DEF FiguresOf
  <2>6. /\ r.figures[1] \in {0, 1}
        /\ r.figures[1] = 0 => block.figures = None /\ r.figures = <<0, 0, 0>>
        /\ r.figures[1] # 0 => block.figures = [balance |-> r.figures[2],
                                                live |-> r.figures[3]]
    BY <2>5
  <2>7. Canonical(VERSION, r)
    BY <1>1, <1>2, <1>3, <2>2, <2>3, <2>6 DEF Canonical
  <2>8. [spent |-> r.spent, digest |-> r.digest,
         figures |-> IF VERSION = V3_VERSION \/ r.figures[1] = 0 THEN None
                     ELSE [balance |-> r.figures[2], live |-> r.figures[3]]] = block
    BY <1>1, <2>3, <2>4, <2>6
  <2>9. SlotOf(VERSION, r) = Slot(r.account, IF r.flag = 1 THEN block ELSE None,
                                             IF r.flag = 2 THEN block ELSE None)
    BY <2>8 DEF SlotOf
  <2>10. SlotOf(VERSION, r) = slot
    BY <1>2, <1>3, <2>2, <2>9 DEF Slot
  <2> QED
    BY <2>7, <2>10 DEF r
<1> QED
  BY <1>4, <1>5

\* The body encode seals.
BodyOf(slots, others, generation, master) ==
  [generation |-> generation, count |-> Count(slots, others), master |-> master,
   records |-> {Record(slot) : slot \in slots}, others |-> others]

\* The image is what a handle of these slots and this crypto seals.
SealedFrom(image, slots, others, generation, master, crypto, R, n) ==
  /\ others \in Nat /\ generation \in Nat /\ n \in Nat
  /\ IsFiniteSet(slots) /\ \A slot \in slots : SlotOK(slot, R)
  /\ Count(slots, others) <= MAX_ACCOUNTS
  /\ crypto.kdf = RECOMMENDED /\ crypto.seed \in 0..n
  /\ image = Sealed(VERSION, crypto, NonceFor(crypto.seed, generation),
                    BodyOf(slots, others, generation, master))

\* The image is a whole one of this version and carries just that.
Carries(image, slots, others, generation, master, crypto, R, n) ==
  /\ FileShape(image) /\ Whole(image) /\ BoxOK(image.box, R, n)
  /\ image.older = None /\ image.header.version = VERSION
  /\ image.box.key = crypto.key /\ SlotsIn(image.box) = slots
  /\ image.box.nonce = NonceFor(crypto.seed, generation)
  /\ image.box.nonce[1] = crypto.seed
  /\ image.box.body = BodyOf(slots, others, generation, master)

\* An image: a whole file of this version, around a box that is all right.
LEMMA SealedIs ==
  ASSUME NEW slots, NEW others, NEW generation, NEW master,
         NEW crypto, NEW R, NEW n, NEW image,
         SealedFrom(image, slots, others, generation, master, crypto, R, n)
  PROVE  Carries(image, slots, others, generation, master, crypto, R, n)
<1>0. /\ others \in Nat /\ generation \in Nat /\ n \in Nat
      /\ IsFiniteSet(slots) /\ \A slot \in slots : SlotOK(slot, R)
      /\ Count(slots, others) <= MAX_ACCOUNTS
      /\ crypto.kdf = RECOMMENDED /\ crypto.seed \in 0..n
      /\ image = Sealed(VERSION, crypto, NonceFor(crypto.seed, generation),
                        BodyOf(slots, others, generation, master))
  BY DEF SealedFrom
<1> USE <1>0
<1> DEFINE body   == BodyOf(slots, others, generation, master)
           nonce  == NonceFor(crypto.seed, generation)
           header == [magic |-> TRUE, version |-> VERSION, kdfId |-> ARGON2ID,
                      kdf |-> crypto.kdf, salt |-> crypto.salt, nonce |-> nonce]
<1>1. /\ image.header = header /\ image.older = None /\ image.damaged = FALSE
      /\ image.box = [key |-> crypto.key, nonce |-> nonce, aad |-> header, body |-> body]
      /\ image.length = HEADER_LEN + BodyLenAt(VERSION, body.count) + TRAILER_LEN
      /\ image = [header |-> image.header, box |-> image.box, length |-> image.length,
                  older |-> image.older, damaged |-> image.damaged]
  BY DEF Sealed
<1>2. /\ body.generation = generation /\ body.count = Count(slots, others)
      /\ body.records = {Record(slot) : slot \in slots} /\ body.others = others
  BY DEF BodyOf
<1>3. nonce[1] = crypto.seed /\ nonce = NonceFor(nonce[1], generation)
  BY DEF NonceFor
<1> HIDE DEF body, nonce
<1>4. /\ image.box.key = crypto.key /\ image.box.nonce = nonce
      /\ image.box.aad = header /\ image.box.body = body
      /\ header.version = VERSION /\ header.salt = crypto.salt
  BY <1>1
<1>5. FileShape(image)
  <2>1. RECOMMENDED = [m |-> RECOMMENDED.m, t |-> RECOMMENDED.t, p |-> RECOMMENDED.p]
    BY DEF RECOMMENDED
  <2>2. header.kdf = RECOMMENDED
    OBVIOUS
  <2> QED
    BY <1>1, <2>1, <2>2 DEF FileShape
<1>6. Whole(image)
  BY <1>1, <1>4 DEF Whole, LengthOf
<1>7. SlotsIn(image.box) = slots
  <2>1. SlotsIn(image.box) = {SlotOf(VERSION, r) : r \in {Record(slot) : slot \in slots}}
    BY <1>2, <1>4 DEF SlotsIn
  <2> QED
    BY <2>1, RoundTrip
<1>8. \A r \in image.box.body.records : Canonical(image.box.aad.version, r)
  BY <1>2, <1>4, RoundTrip
<1>9. Count(slots, others) \in 0..MAX_ACCOUNTS
  <2>1. Cardinality(slots) \in Nat
    BY FS_CardinalityType
  <2>2. MAX_ACCOUNTS \in Nat
    BY DEF MAX_ACCOUNTS
  <2> QED
    BY <2>1, <2>2 DEF Count
<1>10. header = [magic |-> TRUE, version |-> header.version, kdfId |-> ARGON2ID,
                 kdf |-> RECOMMENDED, salt |-> header.salt, nonce |-> nonce]
  OBVIOUS
<1> HIDE DEF header
<1>11. BoxOK(image.box, R, n)
  <2>1. /\ image.box.nonce = NonceFor(image.box.nonce[1], image.box.body.generation)
        /\ image.box.nonce[1] \in 0..n /\ image.box.body.generation \in Nat
    BY <1>2, <1>3, <1>4
  <2>2. /\ image.box.aad = [magic |-> TRUE, version |-> image.box.aad.version,
                            kdfId |-> ARGON2ID, kdf |-> RECOMMENDED,
                            salt |-> image.box.aad.salt, nonce |-> image.box.nonce]
        /\ image.box.aad.version \in {V3_VERSION, VERSION}
    BY <1>4, <1>10
  <2>3. image.box.body.count \in 0..MAX_ACCOUNTS /\ image.box.body.others \in Nat
    BY <1>2, <1>4, <1>9
  <2>4. /\ IsFiniteSet(SlotsIn(image.box))
        /\ \A slot \in SlotsIn(image.box) : SlotOK(slot, R)
    BY <1>7
  <2> QED
    BY <1>8, <2>1, <2>2, <2>3, <2>4, Zenon DEF BoxOK
<1> QED
  BY <1>1, <1>3, <1>4, <1>5, <1>6, <1>7, <1>11
     DEF body, nonce, header, Carries

\* encode refuses, or seals the body it was given.
LEMMA EncodeIs ==
  ASSUME NEW slots, NEW others, NEW generation, NEW master, NEW crypto,
         Encode(slots, others, generation, master, crypto) # None
  PROVE  /\ ~(Count(slots, others) > MAX_ACCOUNTS)
         /\ Encode(slots, others, generation, master, crypto)
              = Sealed(VERSION, crypto, NonceFor(crypto.seed, generation),
                       BodyOf(slots, others, generation, master))
BY DEF Encode, BodyOf

-----------------------------------------------------------------------------
(* The inductive invariant.                                                 *)

\* A live handle is what its file reads as, under the entropy of an open of
\* its own, and is as late as anything sealed under it.
LiveOK(h, f, S, n) ==
  /\ h = [state |-> "live", generation |-> h.generation, master |-> h.master,
          slots |-> h.slots, others |-> h.others, crypto |-> h.crypto,
          opened |-> h.opened, onDisk |-> h.onDisk]
  /\ h.generation \in Nat /\ h.others \in Nat
  /\ h.crypto.kdf = RECOMMENDED /\ h.crypto.seed \in 1..n
  /\ f.box \in S /\ Whole(f) /\ f.header.version = h.onDisk
  /\ f.box.key = h.crypto.key
  /\ f.box.body.generation = h.generation /\ f.box.body.master = h.master
  /\ f.box.body.others = h.others /\ SlotsIn(f.box) = h.slots
  /\ \A b \in S : b.nonce[1] = h.crypto.seed => b.body.generation <= h.generation

Functions == file = [d \in Dirs |-> file[d]] /\ handle = [d \in Dirs |-> handle[d]]

BoxesOK == \A b \in sealed : BoxOK(b, reserved, opens)

OneNonceOneBox == \A a, b \in sealed : a.nonce = b.nonce => a = b

FilesOK == \A d \in Dirs : file[d] # NoFile => FileOK(file[d], sealed)

HandlesOK == \A d \in Dirs : IsLive(d) => LiveOK(handle[d], file[d], sealed, opens)

SeedsDiffer ==
  \A d, e \in Dirs : d # e /\ IsLive(d) /\ IsLive(e) =>
    handle[d].crypto.seed # handle[e].crypto.seed

ImageInv ==
  /\ Functions /\ opens \in Nat
  /\ BoxesOK /\ OneNonceOneBox /\ FilesOK /\ HandlesOK /\ SeedsDiffer

\* What is all right stays so as reservations are made, handles opened and
\* images sealed.
LEMMA StaysOK ==
  ASSUME NEW R, NEW R2, R \subseteq R2, NEW n \in Nat, NEW n2 \in Nat, n <= n2,
         NEW S, NEW S2, S \subseteq S2
  PROVE  /\ \A slot : SlotOK(slot, R) => SlotOK(slot, R2)
         /\ \A b : BoxOK(b, R, n) => BoxOK(b, R2, n2)
         /\ \A f : FileOK(f, S) => FileOK(f, S2)
<1>1. \A slot : SlotOK(slot, R) => SlotOK(slot, R2)
  BY DEF SlotOK
<1>2. ASSUME NEW b, BoxOK(b, R, n) PROVE BoxOK(b, R2, n2)
  <2>1. \A slot \in SlotsIn(b) : SlotOK(slot, R2)
    BY <1>1, <1>2 DEF BoxOK
  <2>2. b.nonce[1] \in 0..n
    BY <1>2 DEF BoxOK
  <2>3. b.nonce[1] \in 0..n2
    BY <2>2
  <2> QED
    BY <1>2, <2>1, <2>3, Zenon DEF BoxOK
<1>3. ASSUME NEW f, FileOK(f, S) PROVE FileOK(f, S2)
  BY <1>3, Zenon DEF FileOK
<1> QED
  BY <1>1, <1>2, <1>3

\* The commit of a live handle, whatever came of it.
LEMMA CommitStep ==
  ASSUME ImageInv, NEW d \in Dirs, IsLive(d), NEW h, h = handle[d],
         NEW slots, NEW master, NEW next,
         IsFiniteSet(slots), \A slot \in slots : SlotOK(slot, reserved'),
         reserved \subseteq reserved', opens' = opens,
         next = [state |-> "live", generation |-> h.generation + 1,
                 master |-> master, slots |-> slots, others |-> h.others,
                 crypto |-> h.crypto, opened |-> h.opened, onDisk |-> h.onDisk],
         Commit(d, Sealing(h, slots, master), next)
  PROVE  ImageInv'
<1>1. PICK image : image = Sealing(h, slots, master)
  OBVIOUS
<1>2. LiveOK(h, file[d], sealed, opens) /\ opens \in Nat /\ Functions
  BY DEF ImageInv, HandlesOK
<1>3. /\ h = [state |-> "live", generation |-> h.generation, master |-> h.master,
              slots |-> h.slots, others |-> h.others, crypto |-> h.crypto,
              opened |-> h.opened, onDisk |-> h.onDisk]
      /\ h.generation \in Nat /\ h.others \in Nat
      /\ h.crypto.kdf = RECOMMENDED /\ h.crypto.seed \in 1..opens
      /\ \A b \in sealed : b.nonce[1] = h.crypto.seed => b.body.generation <= h.generation
  BY <1>2 DEF LiveOK
<1>4. /\ image # None /\ sealed' = sealed \cup {image.box}
      /\ \/ /\ file' = [file EXCEPT ![d] = image]
            /\ handle' = [handle EXCEPT ![d] = [next EXCEPT !.onDisk = VERSION]]
         \/ /\ file' \in {file, [file EXCEPT ![d] = image]}
            /\ handle' = [handle EXCEPT ![d] = Failed(h)]
  BY <1>1, <1>2 DEF Commit, Functions
<1>5. /\ ~(Count(slots, h.others) > MAX_ACCOUNTS)
      /\ image = Sealed(VERSION, h.crypto, NonceFor(h.crypto.seed, h.generation + 1),
                        BodyOf(slots, h.others, h.generation + 1, master))
  BY <1>1, <1>4, EncodeIs DEF Sealing
<1>6. Count(slots, h.others) <= MAX_ACCOUNTS
  <2>1. Cardinality(slots) \in Nat
    BY FS_CardinalityType
  <2>2. MAX_ACCOUNTS \in Nat
    BY DEF MAX_ACCOUNTS
  <2>3. Count(slots, h.others) \in Nat
    BY <1>3, <2>1 DEF Count
  <2> QED
    BY <1>5, <2>2, <2>3
<1>7. /\ FileShape(image) /\ Whole(image) /\ BoxOK(image.box, reserved', opens)
      /\ image.older = None /\ image.header.version = VERSION
      /\ image.box.key = h.crypto.key /\ SlotsIn(image.box) = slots
      /\ image.box.nonce = NonceFor(h.crypto.seed, h.generation + 1)
      /\ image.box.nonce[1] = h.crypto.seed
      /\ image.box.body = BodyOf(slots, h.others, h.generation + 1, master)
  <2>1. h.crypto.seed \in 0..opens /\ h.generation + 1 \in Nat
    BY <1>2, <1>3
  <2> QED
    <3>1. PICK generation, others, crypto, R, n :
             /\ generation = h.generation + 1 /\ others = h.others
             /\ crypto = h.crypto /\ R = reserved' /\ n = opens
      OBVIOUS
    <3>2. SealedFrom(image, slots, others, generation, master, crypto, R, n)
      BY <1>2, <1>3, <1>5, <1>6, <2>1, <3>1 DEF SealedFrom
    <3>3. Carries(image, slots, others, generation, master, crypto, R, n)
      BY <3>2, SealedIs
    <3>4. /\ FileShape(image) /\ Whole(image) /\ BoxOK(image.box, R, n)
          /\ image.older = None /\ image.header.version = VERSION
          /\ image.box.key = crypto.key /\ SlotsIn(image.box) = slots
          /\ image.box.nonce = NonceFor(crypto.seed, generation)
          /\ image.box.nonce[1] = crypto.seed
          /\ image.box.body = BodyOf(slots, others, generation, master)
      BY <3>3 DEF Carries
    <3> QED
      BY <3>1, <3>4
<1>8. /\ image.box.body.generation = h.generation + 1
      /\ image.box.body.master = master /\ image.box.body.others = h.others
  BY <1>7 DEF BodyOf
<1>9. FileOK(image, sealed')
  <2>1. image.header.version \notin {1, 2}
    BY <1>7 DEF VERSION
  <2> QED
    BY <1>4, <1>7, <2>1 DEF FileOK
<1>10. /\ \A b : BoxOK(b, reserved, opens) => BoxOK(b, reserved', opens)
       /\ \A f : FileOK(f, sealed) => FileOK(f, sealed')
  <2>1. sealed \subseteq sealed' /\ opens <= opens
    BY <1>2, <1>4
  <2> QED
    BY <1>2, <2>1, StaysOK
<1>11. \A e \in Dirs : file'[e] = file[e] \/ (e = d /\ file'[e] = image)
  BY <1>2, <1>4 DEF Functions
<1>12. \A e \in Dirs : e # d => file'[e] = file[e] /\ handle'[e] = handle[e]
  BY <1>2, <1>4 DEF Functions
<1>13. \/ /\ file'[d] = image
          /\ handle'[d] = [next EXCEPT !.onDisk = VERSION]
       \/ handle'[d].state = "poisoned"
  BY <1>2, <1>3, <1>4 DEF Functions, Failed
<1>14. Functions' /\ opens' \in Nat
  BY <1>2, <1>4 DEF Functions
<1>15. BoxesOK'
  BY <1>4, <1>7, <1>10 DEF ImageInv, BoxesOK
<1>16. OneNonceOneBox'
  <2>1. ASSUME NEW b \in sealed, b.nonce = image.box.nonce PROVE FALSE
    <3>1. b.nonce = NonceFor(b.nonce[1], b.body.generation) /\ b.body.generation \in Nat
      BY DEF ImageInv, BoxesOK, BoxOK
    <3>2. b.nonce[1] = h.crypto.seed /\ b.body.generation = h.generation + 1
      BY <1>7, <2>1, <3>1 DEF NonceFor
    <3> QED
      BY <1>3, <3>1, <3>2
  <2> QED
    BY <1>4, <2>1 DEF ImageInv, OneNonceOneBox
<1>17. FilesOK'
  BY <1>9, <1>10, <1>11 DEF ImageInv, FilesOK
<1>18. HandlesOK'
  <2> SUFFICES ASSUME NEW e \in Dirs, handle'[e].state = "live"
               PROVE  LiveOK(handle'[e], file'[e], sealed', opens)
    BY DEF HandlesOK, IsLive
  <2>1. CASE e = d
    <3>1. PICK g : g = handle'[d]
      OBVIOUS
    <3>2. file'[d] = image /\ g = [next EXCEPT !.onDisk = VERSION]
      BY <1>13, <2>1, <3>1
    <3>3. g = [state |-> "live", generation |-> h.generation + 1,
               master |-> master, slots |-> slots, others |-> h.others,
               crypto |-> h.crypto, opened |-> h.opened, onDisk |-> VERSION]
      BY <3>2
    <3>4. /\ g.generation = h.generation + 1 /\ g.master = master /\ g.slots = slots
          /\ g.others = h.others /\ g.crypto = h.crypto /\ g.onDisk = VERSION
          /\ g = [state |-> "live", generation |-> g.generation, master |-> g.master,
                  slots |-> g.slots, others |-> g.others, crypto |-> g.crypto,
                  opened |-> g.opened, onDisk |-> g.onDisk]
      BY <3>3
    <3>5. \A b \in sealed' : b.nonce[1] = g.crypto.seed => b.body.generation <= g.generation
      <4>1. \A b \in sealed : b.body.generation \in Nat
        BY DEF ImageInv, BoxesOK, BoxOK
      <4> QED
        BY <1>3, <1>4, <1>8, <3>4, <4>1
    <3>6. g.generation \in Nat
      BY <1>3, <3>4
    <3> QED
      BY <1>3, <1>4, <1>7, <1>8, <2>1, <3>1, <3>2, <3>4, <3>5, <3>6 DEF LiveOK
  <2>2. CASE e # d
    <3>1. /\ file'[e] = file[e] /\ handle'[e] = handle[e]
          /\ LiveOK(handle[e], file[e], sealed, opens)
          /\ handle[e].crypto.seed # h.crypto.seed
      BY <1>12, <2>2 DEF ImageInv, HandlesOK, IsLive, SeedsDiffer
    <3>2. \A b \in sealed' : b.nonce[1] = handle[e].crypto.seed =>
            b.body.generation <= handle[e].generation
      BY <1>4, <1>7, <3>1 DEF LiveOK
    <3> QED
      BY <1>4, <3>1, <3>2 DEF LiveOK
  <2> QED
    BY <2>1, <2>2
<1>19. SeedsDiffer'
  <2>1. handle'[d].state = "live" => handle'[d].crypto = h.crypto
    BY <1>13
  <2> QED
    BY <1>12, <2>1 DEF ImageInv, SeedsDiffer, IsLive
<1> QED
  BY <1>14, <1>15, <1>16, <1>17, <1>18, <1>19 DEF ImageInv

-----------------------------------------------------------------------------
(* The steps.                                                               *)

\* The slots of a live handle are all right, being what its file reads as.
LEMMA LiveSlots ==
  ASSUME ImageInv, NEW d \in Dirs, IsLive(d)
  PROVE  /\ LiveOK(handle[d], file[d], sealed, opens)
         /\ IsFiniteSet(handle[d].slots)
         /\ \A slot \in handle[d].slots : SlotOK(slot, reserved)
<1>1. LiveOK(handle[d], file[d], sealed, opens)
  BY DEF ImageInv, HandlesOK
<1>2. BoxOK(file[d].box, reserved, opens) /\ SlotsIn(file[d].box) = handle[d].slots
  BY <1>1 DEF ImageInv, BoxesOK, LiveOK
<1>3. IsFiniteSet(handle[d].slots) /\ \A slot \in handle[d].slots : SlotOK(slot, reserved)
  BY <1>2 DEF BoxOK
<1> QED
  BY <1>1, <1>3

\* A store before the first step holds what it reads as.
LEMMA SealedBeforeInv ==
  ASSUME NEW version \in {V3_VERSION, VERSION}, NEW crowd \in 0..MAX_ACCOUNTS - 1,
         NEW master, NEW record,
         Canonical(version, record), SlotOK(SlotOf(version, record), reserved),
         SealedBefore(OldStore(version, crowd, master, record)),
         handle = [d \in Dirs |-> Closed], opens = 0
  PROVE  ImageInv
<1> DEFINE crypto == Crypto(Password, <<"salt">>, RECOMMENDED, 0)
           body   == [generation |-> 0, count |-> 1 + crowd, master |-> master,
                      records |-> {record}, others |-> crowd]
           nonce  == NonceFor(0, 0)
           header == [magic |-> TRUE, version |-> version, kdfId |-> ARGON2ID,
                      kdf |-> RECOMMENDED, salt |-> <<"salt">>, nonce |-> nonce]
<1>1. PICK f : f = OldStore(version, crowd, master, record)
  OBVIOUS
<1>2. /\ InOneDirectory(f) /\ sealed = {f.box}
  BY <1>1 DEF SealedBefore
<1>3. crypto.kdf = RECOMMENDED /\ crypto.salt = <<"salt">>
  BY DEF Crypto
<1>4. /\ f.header = header /\ f.older = None /\ f.damaged = FALSE
      /\ f.box = [key |-> crypto.key, nonce |-> nonce, aad |-> header, body |-> body]
      /\ f.length = HEADER_LEN + BodyLenAt(version, body.count) + TRAILER_LEN
      /\ f = [header |-> f.header, box |-> f.box, length |-> f.length,
              older |-> f.older, damaged |-> f.damaged]
  BY <1>1, <1>3 DEF OldStore, Sealed
<1>5. /\ f.box.nonce = nonce /\ f.box.aad = header /\ f.box.body = body
      /\ header.version = version /\ header.kdf = RECOMMENDED
      /\ header.salt = <<"salt">>
      /\ body.generation = 0 /\ body.count = 1 + crowd /\ body.others = crowd
      /\ body.records = {record}
      /\ nonce = NonceFor(nonce[1], 0) /\ nonce[1] = 0
  BY <1>4 DEF NonceFor
<1> HIDE DEF crypto, body, nonce
<1>6. FileShape(f)
  <2>1. RECOMMENDED = [m |-> RECOMMENDED.m, t |-> RECOMMENDED.t, p |-> RECOMMENDED.p]
    BY DEF RECOMMENDED
  <2> QED
    BY <1>4, <1>5, <2>1 DEF FileShape
<1>7. header = [magic |-> TRUE, version |-> header.version, kdfId |-> ARGON2ID,
                kdf |-> RECOMMENDED, salt |-> header.salt, nonce |-> nonce]
  OBVIOUS
<1> HIDE DEF header
<1>8. SlotsIn(f.box) = {SlotOf(version, record)}
  BY <1>5 DEF SlotsIn
<1>9. BoxOK(f.box, reserved, opens)
  <2>1. /\ f.box.nonce = NonceFor(f.box.nonce[1], f.box.body.generation)
        /\ f.box.nonce[1] \in 0..opens /\ f.box.body.generation \in Nat
    BY <1>5
  <2>2. /\ f.box.aad = [magic |-> TRUE, version |-> f.box.aad.version, kdfId |-> ARGON2ID,
                        kdf |-> RECOMMENDED, salt |-> f.box.aad.salt, nonce |-> f.box.nonce]
        /\ f.box.aad.version \in {V3_VERSION, VERSION}
    BY <1>5, <1>7
  <2>3. f.box.body.count \in 0..MAX_ACCOUNTS /\ f.box.body.others \in Nat
    <3>1. MAX_ACCOUNTS \in Nat
      BY DEF MAX_ACCOUNTS
    <3> QED
      BY <1>5, <3>1
  <2>4. /\ IsFiniteSet(SlotsIn(f.box))
        /\ \A slot \in SlotsIn(f.box) : SlotOK(slot, reserved)
    BY <1>8, FS_Singleton
  <2>5. \A r \in f.box.body.records : Canonical(f.box.aad.version, r)
    BY <1>5
  <2> QED
    BY <2>1, <2>2, <2>3, <2>4, <2>5, Zenon DEF BoxOK
<1>10. FileOK(f, sealed)
  <2>1. f.header.version \notin {1, 2}
    BY <1>4, <1>5 DEF VERSION, V3_VERSION
  <2>2. Whole(f)
    BY <1>4, <1>5 DEF Whole, LengthOf
  <2> QED
    BY <1>2, <1>4, <1>6, <2>1, <2>2 DEF FileOK
<1>11. PICK home \in Dirs : file = [d \in Dirs |-> IF d = home THEN f ELSE NoFile]
  BY <1>2 DEF InOneDirectory
<1>12. FilesOK /\ Functions
  BY <1>10, <1>11 DEF FilesOK, Functions
<1>13. BoxesOK /\ OneNonceOneBox
  BY <1>2, <1>9 DEF BoxesOK, OneNonceOneBox
<1>14. HandlesOK /\ SeedsDiffer
  BY DEF HandlesOK, SeedsDiffer, IsLive, Closed
<1> QED
  BY <1>12, <1>13, <1>14 DEF ImageInv

\* Whatever store there is to begin with, the invariant holds of it.
LEMMA InitInv == Init => ImageInv
<1> SUFFICES ASSUME Init PROVE ImageInv
  OBVIOUS
<1>1. handle = [d \in Dirs |-> Closed] /\ opens = 0
  BY DEF Init
<1>2. CASE /\ \E found \in {NoFile, Unsealed(1), Unsealed(2)} : InOneDirectory(found)
           /\ sealed = {} /\ reserved = {}
  <2>1. PICK found \in {NoFile, Unsealed(1), Unsealed(2)} : InOneDirectory(found)
    BY <1>2
  <2>2. found = NoFile \/ FileOK(found, sealed)
    <3>1. ASSUME NEW v, found = Unsealed(v) PROVE FileOK(found, sealed)
      <4>1. /\ found.box = None /\ found.header.kdfId # ARGON2ID
            /\ found.older = [count |-> 2, first |-> Derive(Master, 0).tag]
        BY <3>1 DEF Unsealed, ARGON2ID
      <4>2. FileShape(found)
        BY <3>1 DEF Unsealed, FileShape
      <4>3. found.older # None
        BY <4>1, ImageAssumption
      <4> QED
        BY <4>1, <4>2, <4>3 DEF FileOK
    <3> QED
      BY <2>1, <3>1
  <2>3. PICK home \in Dirs : file = [d \in Dirs |-> IF d = home THEN found ELSE NoFile]
    BY <2>1 DEF InOneDirectory
  <2>4. FilesOK /\ Functions
    BY <1>1, <2>2, <2>3 DEF FilesOK, Functions
  <2>5. HandlesOK /\ SeedsDiffer
    BY <1>1 DEF HandlesOK, SeedsDiffer, IsLive, Closed
  <2> QED
    BY <1>1, <1>2, <2>4, <2>5 DEF ImageInv, BoxesOK, OneNonceOneBox
<1> DEFINE made == [Derive(Master, 0) EXCEPT !.wots = 1]
           block == [spent |-> 0, digest |-> Digest, figures |-> None]
<1>3. /\ IsAccount(made) /\ Restores(made) /\ made.wots = 1
      /\ made.tag = OldRecord.account.tag
  BY DEF IsAccount, Restores, Derive, Derived, OldRecord
<1>4. /\ OldRecord.account = made /\ OldRecord.flag = 1 /\ OldRecord.spent = 0
      /\ OldRecord.digest = Digest /\ OldRecord.figures = <<0, 0, 0>>
  BY DEF OldRecord
<1>5. block \in Blocks /\ block # None /\ block.spent = 0 /\ block.figures = None
      /\ block.digest = Digest
  BY ImageAssumption DEF Blocks
<1> HIDE DEF made, block
<1>6. ASSUME NEW version, NEW record, record.account = made,
             record.flag \in {1, 2}, record.flag = 2 => version # V3_VERSION,
             record.spent = 0, record.digest = Digest, record.figures = <<0, 0, 0>>,
             reserved = {[tag |-> made.tag, spent |-> 0, digest |-> Digest,
                          figures |-> None]}
      PROVE  Canonical(version, record) /\ SlotOK(SlotOf(version, record), reserved)
  <2>1. Canonical(version, record)
    BY <1>3, <1>6 DEF Canonical
  <2>2. SlotOf(version, record)
          = Slot(made, IF record.flag = 1 THEN block ELSE None,
                       IF record.flag = 2 THEN block ELSE None)
    BY <1>6 DEF SlotOf, block
  <2>3. PICK slot : slot = SlotOf(version, record)
    OBVIOUS
  <2>4. /\ slot.account = made /\ Block(slot) = block
        /\ slot = Slot(slot.account, slot.pending, slot.settled)
        /\ \/ slot.pending = block /\ slot.settled = None
           \/ slot.pending = None /\ slot.settled = block
    BY <1>5, <1>6, <2>2, <2>3 DEF Slot, Block
  <2>5. Reservation(slot) \in reserved /\ Encodable(slot)
    BY <1>3, <1>5, <1>6, <2>4 DEF Reservation, Encodable
  <2>6. SlotOK(slot, reserved)
    BY <1>3, <1>5, <2>4, <2>5 DEF SlotOK
  <2> QED
    BY <2>1, <2>3, <2>6
<1>7. ASSUME NEW version, NEW crowd, NEW record,
             SealedBefore(OldStore(version, crowd, Master, record))
      PROVE  reserved = {[tag |-> made.tag, spent |-> 0, digest |-> Digest,
                          figures |-> None]}
  <2>1. OldStore(version, crowd, Master, record).box.body.master = Master
    BY DEF OldStore, Sealed
  <2>2. Master # None
    BY ImageAssumption
  <2> QED
    BY <1>3, <1>7, <2>1, <2>2 DEF SealedBefore
<1>8. \A n \in Crowds : n \in 0..MAX_ACCOUNTS - 1
  BY ImageAssumption
<1>9. ASSUME NEW n \in Crowds, SealedBefore(OldStore(V3_VERSION, n, Master, OldRecord))
      PROVE  ImageInv
  <2>1. /\ Canonical(V3_VERSION, OldRecord)
        /\ SlotOK(SlotOf(V3_VERSION, OldRecord), reserved)
    BY <1>4, <1>6, <1>7, <1>9
  <2> QED
    BY <1>1, <1>8, <1>9, <2>1, SealedBeforeInv
<1>10. ASSUME NEW n \in Crowds,
              SealedBefore(OldStore(VERSION, n, Master, [OldRecord EXCEPT !.flag = 2]))
       PROVE  ImageInv
  <2>1. PICK record : record = [OldRecord EXCEPT !.flag = 2]
    OBVIOUS
  <2>2. /\ record.account = made /\ record.flag = 2 /\ record.spent = 0
        /\ record.digest = Digest /\ record.figures = <<0, 0, 0>>
    BY <1>4, <2>1 DEF OldRecord
  <2>3. VERSION # V3_VERSION
    BY DEF VERSION, V3_VERSION
  <2>4. Canonical(VERSION, record) /\ SlotOK(SlotOf(VERSION, record), reserved)
    BY <1>6, <1>7, <1>10, <2>1, <2>2, <2>3
  <2> QED
    BY <1>1, <1>8, <1>10, <2>1, <2>4, SealedBeforeInv
<1>11. ASSUME NEW a \in Offered, SealedBefore(OldStore(VERSION, 0, None, Carried(a)))
       PROVE  ImageInv
  <2>1. /\ Carried(a).account = a /\ Carried(a).flag = 0 /\ Carried(a).spent = 0
        /\ Carried(a).digest = 0 /\ Carried(a).figures = <<0, 0, 0>>
    BY DEF Carried
  <2>2. Restores(a) /\ IsAccount(a)
    BY ImageAssumption
  <2>3. Canonical(VERSION, Carried(a))
    BY <2>1, <2>2 DEF Canonical
  <2>4. SlotOf(VERSION, Carried(a)) = Slot(a, None, None)
    BY <2>1 DEF SlotOf
  <2>5. SlotOK(Slot(a, None, None), reserved)
    BY <2>2 DEF SlotOK, Slot, Encodable, Block
  <2>6. 0 \in 0..MAX_ACCOUNTS - 1
    BY DEF MAX_ACCOUNTS
  <2> QED
    BY <1>1, <1>11, <2>3, <2>4, <2>5, <2>6, SealedBeforeInv
<1> QED
  BY <1>2, <1>9, <1>10, <1>11 DEF Init

\* create: the first image of a store, under entropy nothing was sealed under.
LEMMA CreateStep ==
  ASSUME ImageInv, NEW d \in Dirs, Create(d)
  PROVE  ImageInv'
<1>1. PICK n : n = opens
  OBVIOUS
<1>2. PICK crypto : crypto = Crypto(Password, <<"salt", n + 1>>, RECOMMENDED, n + 1)
  OBVIOUS
<1>3. PICK image : image = Encode({}, 0, 0, None, crypto)
  OBVIOUS
<1>4. PICK h : h = Live(0, None, {}, 0, crypto, VERSION)
  OBVIOUS
<1>5. /\ n \in Nat /\ Functions /\ BoxesOK /\ OneNonceOneBox /\ FilesOK
      /\ HandlesOK /\ SeedsDiffer
  BY <1>1 DEF ImageInv
<1>6. /\ file[d] = NoFile /\ handle[d] = Closed
      /\ opens' = n + 1 /\ sealed' = sealed \cup {image.box} /\ reserved' = reserved
      /\ \/ file' = [file EXCEPT ![d] = image] /\ handle' = [handle EXCEPT ![d] = h]
         \/ file' = [file EXCEPT ![d] = image] /\ handle' = handle
         \/ file' = file /\ handle' = handle
  BY <1>1, <1>2, <1>3, <1>4 DEF Create
<1>7. /\ crypto.kdf = RECOMMENDED /\ crypto.seed = n + 1
  BY <1>2 DEF Crypto
<1>8. image = Sealed(VERSION, crypto, NonceFor(crypto.seed, 0), BodyOf({}, 0, 0, None))
      /\ Count({}, 0) <= MAX_ACCOUNTS
  <2>1. Count({}, 0) = 0
    BY FS_EmptySet DEF Count
  <2>2. MAX_ACCOUNTS \in Nat
    BY DEF MAX_ACCOUNTS
  <2> QED
    BY <1>3, <1>7, <2>1, <2>2, RecommendedIsChecked DEF Encode, BodyOf
<1>9. /\ FileShape(image) /\ Whole(image) /\ BoxOK(image.box, reserved, n + 1)
      /\ image.older = None /\ image.header.version = VERSION
      /\ image.box.key = crypto.key /\ SlotsIn(image.box) = {}
      /\ image.box.nonce = NonceFor(n + 1, 0) /\ image.box.nonce[1] = n + 1
      /\ image.box.body = BodyOf({}, 0, 0, None)
  <2>1. PICK R, m, none, zero : /\ R = reserved /\ m = n + 1
                                /\ none = {} /\ zero = 0
    OBVIOUS
  <2>2. SealedFrom(image, none, zero, zero, None, crypto, R, m)
    BY <1>5, <1>7, <1>8, <2>1, FS_EmptySet DEF SealedFrom
  <2>3. Carries(image, none, zero, zero, None, crypto, R, m)
    BY <2>2, SealedIs
  <2>4. /\ FileShape(image) /\ Whole(image) /\ BoxOK(image.box, R, m)
        /\ image.older = None /\ image.header.version = VERSION
        /\ image.box.key = crypto.key /\ SlotsIn(image.box) = none
        /\ image.box.nonce = NonceFor(crypto.seed, zero)
        /\ image.box.nonce[1] = crypto.seed
        /\ image.box.body = BodyOf(none, zero, zero, None)
    BY <2>3 DEF Carries
  <2> QED
    BY <1>7, <2>1, <2>4
<1>10. /\ image.box.body.generation = 0 /\ image.box.body.master = None
       /\ image.box.body.others = 0
  BY <1>9 DEF BodyOf
<1>11. FileOK(image, sealed')
  <2>1. image.header.version \notin {1, 2}
    BY <1>9 DEF VERSION
  <2> QED
    BY <1>6, <1>9, <2>1 DEF FileOK
<1>12. /\ \A b : BoxOK(b, reserved, n) => BoxOK(b, reserved, n + 1)
       /\ \A f : FileOK(f, sealed) => FileOK(f, sealed')
  <2>1. sealed \subseteq sealed' /\ n <= n + 1 /\ n + 1 \in Nat
    BY <1>5, <1>6
  <2> QED
    BY <1>5, <2>1, StaysOK
<1>13. \A b \in sealed : b.nonce[1] \in 0..n /\ b.body.generation \in Nat
  BY <1>1, <1>5 DEF BoxesOK, BoxOK
<1>14. /\ \A e \in Dirs : file'[e] = file[e] \/ file'[e] = image
       /\ \A e \in Dirs : e # d => file'[e] = file[e] /\ handle'[e] = handle[e]
       /\ \/ file'[d] = image /\ handle'[d] = h
          \/ handle'[d] = Closed
  BY <1>5, <1>6 DEF Functions
<1>15. Functions' /\ opens' \in Nat
  BY <1>5, <1>6 DEF Functions
<1>16. BoxesOK'
  BY <1>1, <1>5, <1>6, <1>9, <1>12 DEF BoxesOK
<1>17. OneNonceOneBox'
  <2>1. \A b \in sealed : b.nonce # image.box.nonce
    BY <1>5, <1>9, <1>13
  <2> QED
    BY <1>5, <1>6, <2>1 DEF OneNonceOneBox
<1>18. FilesOK'
  BY <1>5, <1>11, <1>12, <1>14 DEF FilesOK
<1>19. HandlesOK'
  <2> SUFFICES ASSUME NEW e \in Dirs, handle'[e].state = "live"
               PROVE  LiveOK(handle'[e], file'[e], sealed', opens')
    BY DEF HandlesOK, IsLive
  <2>1. CASE e = d
    <3>1. file'[d] = image /\ handle'[d] = h
      BY <1>14, <2>1 DEF Closed
    <3>2. /\ h.generation = 0 /\ h.master = None /\ h.slots = {}
          /\ h.others = 0 /\ h.crypto = crypto /\ h.onDisk = VERSION
          /\ h = [state |-> "live", generation |-> h.generation, master |-> h.master,
                  slots |-> h.slots, others |-> h.others, crypto |-> h.crypto,
                  opened |-> h.opened, onDisk |-> h.onDisk]
      BY <1>4 DEF Live
    <3>3. \A b \in sealed' : b.nonce[1] = n + 1 => b.body.generation <= 0
      BY <1>5, <1>6, <1>10, <1>13
    <3>4. n + 1 \in 1..opens'
      BY <1>5, <1>6
    <3> QED
      BY <1>6, <1>7, <1>9, <1>10, <2>1, <3>1, <3>2, <3>3, <3>4 DEF LiveOK
  <2>2. CASE e # d
    <3>1. /\ file'[e] = file[e] /\ handle'[e] = handle[e]
          /\ LiveOK(handle[e], file[e], sealed, n)
      BY <1>1, <1>5, <1>14, <2>2 DEF HandlesOK, IsLive
    <3>2. handle[e].crypto.seed \in 1..n
      BY <3>1 DEF LiveOK
    <3>3. handle[e].crypto.seed \in 1..opens' /\ handle[e].crypto.seed # n + 1
      BY <1>5, <1>6, <3>2
    <3>4. \A b \in sealed' : b.nonce[1] = handle[e].crypto.seed =>
            b.body.generation <= handle[e].generation
      BY <1>6, <1>9, <3>1, <3>3 DEF LiveOK
    <3> QED
      BY <1>6, <3>1, <3>3, <3>4 DEF LiveOK
  <2> QED
    BY <2>1, <2>2
<1>20. SeedsDiffer'
  <2>1. \A e \in Dirs : IsLive(e) => handle[e].crypto.seed \in 1..n
    BY <1>1, <1>5 DEF HandlesOK, LiveOK
  <2>2. \A e \in Dirs : IsLive(e) => handle[e].crypto.seed # n + 1
    BY <1>5, <2>1
  <2>3. handle'[d].state = "live" => handle'[d].crypto.seed = n + 1
    BY <1>4, <1>7, <1>14 DEF Live, Closed
  <2> QED
    BY <1>5, <1>14, <2>2, <2>3 DEF SeedsDiffer, IsLive
<1> QED
  BY <1>15, <1>16, <1>17, <1>18, <1>19, <1>20 DEF ImageInv

\* open: what the file reads as, under entropy of its own.
LEMMA OpenStep ==
  ASSUME ImageInv, NEW d \in Dirs, NEW password, Open(d, password)
  PROVE  ImageInv'
<1>1. PICK n : n = opens
  OBVIOUS
<1>2. PICK f : f = file[d]
  OBVIOUS
<1>3. PICK crypto : crypto = Crypto(password, f.header.salt, f.header.kdf, n + 1)
  OBVIOUS
<1>4. PICK parsed : parsed = ParseWithKey(f, crypto.key)
  OBVIOUS
<1>5. PICK h : h = Live(parsed.generation, parsed.master, parsed.slots, parsed.others,
                        crypto, f.header.version)
  OBVIOUS
<1>6. /\ n \in Nat /\ Functions /\ BoxesOK /\ OneNonceOneBox /\ FilesOK
      /\ HandlesOK /\ SeedsDiffer
  BY <1>1 DEF ImageInv
<1>7. /\ f # NoFile /\ handle[d] = Closed /\ parsed.said = "parsed"
      /\ handle' = [handle EXCEPT ![d] = h] /\ opens' = n + 1
      /\ file' = file /\ sealed' = sealed /\ reserved' = reserved
  BY <1>1, <1>2, <1>3, <1>4, <1>5 DEF Open
<1>8. f.box \in sealed /\ Whole(f) /\ crypto.key = f.box.key
  BY <1>2, <1>4, <1>6, <1>7, ParsedIsWhole DEF FilesOK
<1>9. BoxOK(f.box, reserved, n)
  BY <1>1, <1>6, <1>8 DEF BoxesOK
<1>10. /\ parsed.generation = f.box.body.generation /\ parsed.master = f.box.body.master
       /\ parsed.others = f.box.body.others /\ parsed.slots = SlotsIn(f.box)
  <2>1. parsed = ParseWithKey(f, f.box.key)
    BY <1>4, <1>8
  <2>2. ParseWithKey(f, f.box.key)
          = [said |-> "parsed", first |-> None,
             generation |-> f.box.body.generation, master |-> f.box.body.master,
             others |-> f.box.body.others, slots |-> SlotsIn(f.box)]
    BY <1>8, <1>9, WholeParses
  <2> QED
    BY <2>1, <2>2
<1>11. /\ f.box.body.generation \in Nat /\ f.box.body.others \in Nat
       /\ f.header.kdf = RECOMMENDED
  BY <1>8, <1>9, BoxFields DEF BoxOK, Whole
<1>12. crypto.kdf = RECOMMENDED /\ crypto.seed = n + 1
  BY <1>3, <1>11 DEF Crypto
<1>13. \A b \in sealed : b.nonce[1] \in 0..n
  BY <1>1, <1>6 DEF BoxesOK, BoxOK
<1>14. LiveOK(h, f, sealed, n + 1)
  <2>1. /\ h.generation = parsed.generation /\ h.master = parsed.master
        /\ h.slots = parsed.slots /\ h.others = parsed.others
        /\ h.crypto = crypto /\ h.onDisk = f.header.version
        /\ h = [state |-> "live", generation |-> h.generation, master |-> h.master,
                slots |-> h.slots, others |-> h.others, crypto |-> h.crypto,
                opened |-> h.opened, onDisk |-> h.onDisk]
    BY <1>5 DEF Live
  <2>2. n + 1 \in 1..(n + 1) /\ \A b \in sealed : b.nonce[1] # n + 1
    BY <1>6, <1>13
  <2> QED
    BY <1>8, <1>10, <1>11, <1>12, <2>1, <2>2 DEF LiveOK
<1>15. /\ handle'[d] = h
       /\ \A e \in Dirs : e # d => handle'[e] = handle[e]
       /\ Functions'
  BY <1>6, <1>7 DEF Functions
<1>16. BoxesOK'
  <2>1. n <= n + 1 /\ n + 1 \in Nat
    BY <1>6
  <2>2. \A b : BoxOK(b, reserved, n) => BoxOK(b, reserved, n + 1)
    BY <1>6, <2>1, StaysOK
  <2> QED
    BY <1>1, <1>6, <1>7, <2>2 DEF BoxesOK
<1>17. OneNonceOneBox' /\ FilesOK'
  BY <1>6, <1>7 DEF OneNonceOneBox, FilesOK
<1>18. ASSUME NEW e \in Dirs, IsLive(e)
       PROVE  /\ handle[e].crypto.seed \in 1..(n + 1) /\ handle[e].crypto.seed # n + 1
              /\ LiveOK(handle[e], file[e], sealed, n + 1)
  <2>1. LiveOK(handle[e], file[e], sealed, n)
    BY <1>1, <1>6, <1>18 DEF HandlesOK
  <2>2. handle[e].crypto.seed \in 1..n
    BY <2>1 DEF LiveOK
  <2>3. handle[e].crypto.seed \in 1..(n + 1) /\ handle[e].crypto.seed # n + 1
    BY <1>6, <2>2
  <2> QED
    BY <2>1, <2>3 DEF LiveOK
<1>19. HandlesOK'
  BY <1>2, <1>7, <1>14, <1>15, <1>18 DEF HandlesOK, IsLive
<1>20. SeedsDiffer'
  <2>1. h.crypto.seed = n + 1
    BY <1>5, <1>12 DEF Live
  <2> QED
    BY <1>6, <1>15, <1>18, <2>1 DEF SeedsDiffer, IsLive
<1> QED
  BY <1>6, <1>7, <1>15, <1>16, <1>17, <1>19, <1>20 DEF ImageInv

\* A handle is closed, or a file copied over one nobody has open: whatever is
\* live is as it was.
LEMMA QuietStep ==
  ASSUME ImageInv, Functions', sealed' = sealed, reserved' = reserved, opens' = opens,
         FilesOK',
         \A e \in Dirs : handle'[e].state = "live" =>
           handle'[e] = handle[e] /\ file'[e] = file[e]
  PROVE  ImageInv'
<1>1. BoxesOK' /\ OneNonceOneBox' /\ opens' \in Nat
  BY DEF ImageInv, BoxesOK, OneNonceOneBox
<1>2. HandlesOK' /\ SeedsDiffer'
  BY DEF ImageInv, HandlesOK, SeedsDiffer, IsLive
<1> QED
  BY <1>1, <1>2 DEF ImageInv

\* A handle is dropped: nothing else changes.
LEMMA CloseStep ==
  ASSUME ImageInv, NEW d \in Dirs, Close(d)
  PROVE  ImageInv'
<1>1. /\ handle' = [handle EXCEPT ![d] = Closed] /\ file' = file
      /\ sealed' = sealed /\ reserved' = reserved /\ opens' = opens
  BY DEF Close
<1>2. Functions' /\ FilesOK'
  BY <1>1 DEF ImageInv, Functions, FilesOK
<1>3. \A e \in Dirs : handle'[e].state = "live" => handle'[e] = handle[e]
  BY <1>1 DEF ImageInv, Functions, Closed
<1> QED
  BY <1>1, <1>2, <1>3, QuietStep

\* A file is copied over one nobody has open.
LEMMA CopyStep ==
  ASSUME ImageInv, NEW from \in Dirs, NEW to \in Dirs, Copy(from, to)
  PROVE  ImageInv'
<1>1. /\ file[from] # NoFile /\ handle[to] = Closed
      /\ file' = [file EXCEPT ![to] = file[from]] /\ handle' = handle
      /\ sealed' = sealed /\ reserved' = reserved /\ opens' = opens
  BY DEF Copy
<1>2. \A e \in Dirs : file'[e] = IF e = to THEN file[from] ELSE file[e]
  BY <1>1 DEF ImageInv, Functions
<1>3. Functions' /\ FilesOK'
  BY <1>1, <1>2 DEF ImageInv, Functions, FilesOK
<1>4. \A e \in Dirs : handle'[e].state = "live" => file'[e] = file[e]
  BY <1>1, <1>2 DEF Closed
<1> QED
  BY <1>1, <1>3, <1>4, QuietStep

\* g is f under another header: not of this build's kind unless f was, and of
\* f's version or with f's costs.
Reheaded(g, f, h, k) ==
  /\ g = [f EXCEPT !.header = k]
  /\ k = [magic |-> k.magic, version |-> k.version, kdfId |-> k.kdfId,
          kdf |-> k.kdf, salt |-> k.salt, nonce |-> k.nonce]
  /\ k.kdf = [m |-> k.kdf.m, t |-> k.kdf.t, p |-> k.kdf.p]
  /\ k.kdfId \in {h.kdfId, 2}
  /\ k.version = h.version \/ k.kdf = h.kdf

\* A field of a file is not what was written.  A sealed image whose version
\* word becomes 1 or 2 keeps the costs and the length it was sealed with.
LEMMA DamagedOK ==
  ASSUME NEW f, NEW S, NEW R, NEW n, FileOK(f, S), ~f.damaged,
         \A b \in S : BoxOK(b, R, n), NEW g \in Damages(f)
  PROVE  FileOK([g EXCEPT !.damaged = TRUE], S)
<1>1. FileShape(f)
  BY DEF FileOK
<1>2. PICK h : h = f.header
  OBVIOUS
<1>3. /\ f = [header |-> f.header, box |-> f.box, length |-> f.length,
              older |-> f.older, damaged |-> f.damaged]
      /\ h = [magic |-> h.magic, version |-> h.version, kdfId |-> h.kdfId,
              kdf |-> h.kdf, salt |-> h.salt, nonce |-> h.nonce]
      /\ h.kdf = [m |-> h.kdf.m, t |-> h.kdf.t, p |-> h.kdf.p]
  BY <1>1, <1>2 DEF FileShape
<1>4. \/ \E k : Reheaded(g, f, h, k)
      \/ \E l : g = [f EXCEPT !.length = l]
  <2>1. CASE \E l : g = [f EXCEPT !.length = l]
    BY <2>1
  <2>2. ASSUME NEW k, g = [f EXCEPT !.header = k],
               \/ k = [h EXCEPT !.magic = FALSE] \/ k = [h EXCEPT !.kdfId = 2]
               \/ k = [h EXCEPT !.salt = <<"other">>]
               \/ k = [h EXCEPT !.nonce = <<"other">>]
        PROVE  Reheaded(g, f, h, k)
    BY <1>3, <2>2 DEF Reheaded
  <2>3. ASSUME NEW k, NEW v, g = [f EXCEPT !.header = k], k = [h EXCEPT !.version = v]
        PROVE  Reheaded(g, f, h, k)
    BY <1>3, <2>3 DEF Reheaded
  <2>4. ASSUME NEW k, NEW v, g = [f EXCEPT !.header = k],
               \/ k = [h EXCEPT !.kdf.m = v] \/ k = [h EXCEPT !.kdf.t = v]
               \/ k = [h EXCEPT !.kdf.p = v]
        PROVE  Reheaded(g, f, h, k)
    <3>1. PICK c : c = k.kdf
      OBVIOUS
    <3>2. c = [m |-> c.m, t |-> c.t, p |-> c.p]
      BY <1>3, <2>4, <3>1
    <3>3. /\ k = [magic |-> k.magic, version |-> k.version, kdfId |-> k.kdfId,
                  kdf |-> k.kdf, salt |-> k.salt, nonce |-> k.nonce]
          /\ k.kdfId = h.kdfId /\ k.version = h.version
      BY <1>3, <2>4
    <3> QED
      BY <2>4, <3>1, <3>2, <3>3 DEF Reheaded
  <2>5. \/ \E k : /\ g = [f EXCEPT !.header = k]
                  /\ \/ k = [h EXCEPT !.magic = FALSE] \/ k = [h EXCEPT !.kdfId = 2]
                     \/ k = [h EXCEPT !.salt = <<"other">>]
                     \/ k = [h EXCEPT !.nonce = <<"other">>]
        \/ \E k, v : g = [f EXCEPT !.header = k] /\ k = [h EXCEPT !.version = v]
        \/ \E k, v : /\ g = [f EXCEPT !.header = k]
                     /\ \/ k = [h EXCEPT !.kdf.m = v] \/ k = [h EXCEPT !.kdf.t = v]
                        \/ k = [h EXCEPT !.kdf.p = v]
        \/ \E l : g = [f EXCEPT !.length = l]
    BY <1>2, Zenon DEF Damages
  <2> QED
    BY <2>2, <2>3, <2>4, <2>5
<1>5. PICK e : e = [g EXCEPT !.damaged = TRUE]
  OBVIOUS
<1>6. /\ e.box = f.box /\ e.older = f.older /\ e.damaged = TRUE
      /\ FileShape(e) /\ e.header.kdfId \in {h.kdfId, 2}
      /\ \/ e.header.version = h.version
         \/ e.header.kdf = h.kdf /\ e.length = f.length
  <2>1. CASE \E l : g = [f EXCEPT !.length = l]
    <3>1. PICK l : g = [f EXCEPT !.length = l]
      BY <2>1
    <3>2. e = [header |-> h, box |-> f.box, length |-> l, older |-> f.older,
               damaged |-> TRUE]
      BY <1>2, <1>3, <1>5, <3>1
    <3> QED
      BY <1>3, <3>2 DEF FileShape
  <2>2. CASE \E k : Reheaded(g, f, h, k)
    <3>1. PICK k : Reheaded(g, f, h, k)
      BY <2>2
    <3>2. e = [header |-> k, box |-> f.box, length |-> f.length, older |-> f.older,
               damaged |-> TRUE]
      BY <1>3, <1>5, <3>1 DEF Reheaded
    <3> QED
      BY <3>1, <3>2 DEF FileShape, Reheaded
  <2> QED
    BY <1>4, <2>1, <2>2
<1>7. CASE f.box = None /\ f.header.kdfId # ARGON2ID /\ f.older # None
  <2>1. e.header.kdfId # ARGON2ID
    BY <1>2, <1>6, <1>7 DEF ARGON2ID
  <2> QED
    BY <1>5, <1>6, <1>7, <2>1 DEF FileOK
<1>8. CASE ~(f.box = None /\ f.header.kdfId # ARGON2ID /\ f.older # None)
  <2>1. f.box \in S /\ f.older = None /\ Whole(f)
    BY <1>8 DEF FileOK
  <2>2. /\ h.kdf = RECOMMENDED /\ h.version \in {V3_VERSION, VERSION}
        /\ f.length = LengthOf(f.box)
    <3>1. BoxOK(f.box, R, n)
      BY <2>1
    <3> QED
      BY <1>2, <2>1, <3>1, BoxFields DEF Whole
  <2>3. h.version \notin {1, 2}
    BY <2>2 DEF V3_VERSION, VERSION
  <2> QED
    BY <1>5, <1>6, <2>1, <2>2, <2>3 DEF FileOK
<1> QED
  BY <1>7, <1>8

\* A file nobody has open is damaged.
LEMMA DamageStep ==
  ASSUME ImageInv, Undamaged, NEW d \in Dirs, Damage(d)
  PROVE  ImageInv'
<1>1. PICK f : f = file[d]
  OBVIOUS
<1>2. PICK g \in Damages(f) : file' = [file EXCEPT ![d] = [g EXCEPT !.damaged = TRUE]]
  BY <1>1 DEF Damage
<1>3. /\ f # NoFile /\ handle[d] = Closed /\ handle' = handle
      /\ sealed' = sealed /\ reserved' = reserved /\ opens' = opens
  BY <1>1 DEF Damage
<1>4. FileOK(f, sealed) /\ ~f.damaged /\ \A b \in sealed : BoxOK(b, reserved, opens)
  BY <1>1, <1>3 DEF ImageInv, FilesOK, BoxesOK, Undamaged
<1>5. FileOK([g EXCEPT !.damaged = TRUE], sealed)
  BY <1>4, DamagedOK
<1>6. \A e \in Dirs : file'[e] = IF e = d THEN [g EXCEPT !.damaged = TRUE] ELSE file[e]
  BY <1>2 DEF ImageInv, Functions
<1>7. Functions' /\ FilesOK'
  BY <1>2, <1>3, <1>5, <1>6 DEF ImageInv, Functions, FilesOK
<1>8. \A e \in Dirs : handle'[e].state = "live" => file'[e] = file[e]
  BY <1>3, <1>6 DEF Closed
<1> QED
  BY <1>3, <1>7, <1>8, QuietStep

\* adopt_master: the slots stay, the master comes.
LEMMA AdoptMasterStep ==
  ASSUME ImageInv, NEW d \in Dirs, AdoptMaster(d)
  PROVE  ImageInv'
<1>1. PICK h : h = handle[d]
  OBVIOUS
<1>2. PICK next : next = [h EXCEPT !.generation = @ + 1, !.master = Master]
  OBVIOUS
<1>3. PICK slots : slots = h.slots
  OBVIOUS
<1>4. /\ IsLive(d) /\ reserved' = reserved /\ opens' = opens
      /\ Commit(d, Sealing(h, slots, Master), next)
  BY <1>1, <1>2, <1>3 DEF AdoptMaster
<1>5. /\ LiveOK(h, file[d], sealed, opens) /\ IsFiniteSet(slots)
      /\ \A slot \in slots : SlotOK(slot, reserved')
  BY <1>1, <1>3, <1>4, LiveSlots
<1>6. next = [state |-> "live", generation |-> h.generation + 1,
              master |-> Master, slots |-> slots, others |-> h.others,
              crypto |-> h.crypto, opened |-> h.opened, onDisk |-> h.onDisk]
  <2>1. PICK g, m, o, c, v, w :
          h = [state |-> "live", generation |-> g, master |-> m, slots |-> slots,
               others |-> o, crypto |-> c, opened |-> v, onDisk |-> w]
    BY <1>3, <1>5 DEF LiveOK
  <2>2. next = [state |-> "live", generation |-> g + 1, master |-> Master,
                slots |-> slots, others |-> o, crypto |-> c, opened |-> v,
                onDisk |-> w]
    BY <1>2, <2>1
  <2> QED
    BY <2>1, <2>2
<1> QED
  BY <1>1, <1>4, <1>5, <1>6, CommitStep

\* A commit of other slots, the master as it was.
LEMMA SlotsStep ==
  ASSUME ImageInv, NEW d \in Dirs, IsLive(d), NEW h, h = handle[d], NEW slots,
         IsFiniteSet(slots), \A slot \in slots : SlotOK(slot, reserved'),
         reserved \subseteq reserved', opens' = opens,
         Commit(d, Sealing(h, slots, h.master),
                [h EXCEPT !.generation = @ + 1, !.slots = slots])
  PROVE  ImageInv'
<1>1. PICK next : next = [h EXCEPT !.generation = @ + 1, !.slots = slots]
  OBVIOUS
<1>2. PICK master : master = h.master
  OBVIOUS
<1>3. next = [state |-> "live", generation |-> h.generation + 1,
              master |-> master, slots |-> slots, others |-> h.others,
              crypto |-> h.crypto, opened |-> h.opened, onDisk |-> h.onDisk]
  <2>1. PICK g, m, t, o, c, v, w :
          /\ g = h.generation /\ m = h.master /\ t = h.slots /\ o = h.others
          /\ c = h.crypto /\ v = h.opened /\ w = h.onDisk
    OBVIOUS
  <2>2. LiveOK(h, file[d], sealed, opens)
    BY LiveSlots
  <2>3. h = [state |-> "live", generation |-> g, master |-> m, slots |-> t,
             others |-> o, crypto |-> c, opened |-> v, onDisk |-> w]
    BY <2>1, <2>2, Zenon DEF LiveOK
  <2>4. next = [state |-> "live", generation |-> g + 1, master |-> m,
                slots |-> slots, others |-> o, crypto |-> c, opened |-> v,
                onDisk |-> w]
    <3>1. PICK mid : mid = [h EXCEPT !.generation = @ + 1]
      OBVIOUS
    <3>2. mid = [state |-> "live", generation |-> g + 1, master |-> m, slots |-> t,
                 others |-> o, crypto |-> c, opened |-> v, onDisk |-> w]
      BY <2>3, <3>1
    <3>3. next = [mid EXCEPT !.slots = slots]
      BY <1>1, <3>1
    <3> QED
      BY <3>2, <3>3
  <2> QED
    BY <1>2, <2>1, <2>4
<1>4. Commit(d, Sealing(h, slots, master), next)
  BY <1>1, <1>2
<1> QED
  BY <1>3, <1>4, CommitStep

\* add: one account more, with nothing reserved.
LEMMA AddStep ==
  ASSUME ImageInv, NEW d \in Dirs, NEW account \in Offered, Add(d, account)
  PROVE  ImageInv'
<1>1. PICK h : h = handle[d]
  OBVIOUS
<1>2. PICK slots : slots = h.slots \cup {Slot(account, None, None)}
  OBVIOUS
<1>3. /\ IsLive(d) /\ reserved' = reserved /\ opens' = opens
      /\ Commit(d, Sealing(h, slots, h.master),
                [h EXCEPT !.generation = @ + 1, !.slots = slots])
  BY <1>1, <1>2 DEF Add
<1>4. SlotOK(Slot(account, None, None), reserved)
  <2>1. IsAccount(account) /\ Restores(account)
    BY ImageAssumption
  <2> QED
    BY <2>1 DEF SlotOK, Slot, Encodable, Block
<1>5. IsFiniteSet(h.slots) /\ \A slot \in h.slots : SlotOK(slot, reserved)
  BY <1>1, <1>3, LiveSlots
<1>6. IsFiniteSet(slots) /\ \A slot \in slots : SlotOK(slot, reserved')
  BY <1>2, <1>3, <1>4, <1>5, FS_AddElement
<1> QED
  BY <1>1, <1>3, <1>6, SlotsStep

\* One slot becomes another that is all right.
LEMMA CommitSlotStep ==
  ASSUME ImageInv, NEW d \in Dirs, IsLive(d), NEW slot,
         NEW account, NEW pending, NEW settled,
         SlotOK(Slot(account, pending, settled), reserved'),
         reserved \subseteq reserved', opens' = opens,
         CommitSlot(d, slot, account, pending, settled)
  PROVE  ImageInv'
<1>1. PICK h : h = handle[d]
  OBVIOUS
<1>2. PICK slots : slots = (h.slots \ {slot}) \cup {Slot(account, pending, settled)}
  OBVIOUS
<1>3. Commit(d, Sealing(h, slots, h.master),
             [h EXCEPT !.generation = @ + 1, !.slots = slots])
  BY <1>1, <1>2 DEF CommitSlot, Replaced
<1>4. IsFiniteSet(h.slots) /\ \A s \in h.slots : SlotOK(s, reserved)
  BY <1>1, LiveSlots
<1>5. IsFiniteSet(slots)
  BY <1>2, <1>4, FS_RemoveElement, FS_AddElement
<1>6. \A s \in slots : SlotOK(s, reserved')
  BY <1>2, <1>4 DEF SlotOK
<1> QED
  BY <1>1, <1>3, <1>5, <1>6, SlotsStep

\* persist_advance: the block is of the position the index leaves, and is
\* reserved as it is written.
LEMMA PersistAdvanceStep ==
  ASSUME ImageInv, NEW d \in Dirs, IsLive(d), NEW slot \in handle[d].slots,
         NEW figures \in Figures, PersistAdvance(d, slot, figures)
  PROVE  ImageInv'
<1>1. PICK at : at = slot.account.wots
  OBVIOUS
<1>2. PICK account : account = [slot.account EXCEPT !.wots = at + 1]
  OBVIOUS
<1>3. PICK block : block = [spent |-> at, digest |-> Digest, figures |-> figures]
  OBVIOUS
<1>4. PICK held : held = [tag |-> slot.account.tag, spent |-> at, digest |-> Digest,
                          figures |-> figures]
  OBVIOUS
<1>5. /\ CommitSlot(d, slot, account, block, None)
      /\ reserved' = reserved \cup {held} /\ opens' = opens
  BY <1>1, <1>2, <1>3, <1>4 DEF PersistAdvance
<1>6. IsAccount(slot.account) /\ Restores(slot.account)
  BY LiveSlots DEF SlotOK
<1>7. /\ IsAccount(account) /\ Restores(account)
      /\ account.wots = at + 1 /\ account.tag = slot.account.tag /\ at \in Nat
  BY <1>1, <1>2, <1>6 DEF IsAccount, Restores
<1>8. block \in Blocks /\ block # None
  BY <1>3, <1>7, ImageAssumption DEF Blocks
<1>9. PICK new : new = Slot(account, block, None)
  OBVIOUS
<1>10. /\ new.account = account /\ new.pending = block /\ new.settled = None
       /\ new = Slot(new.account, new.pending, new.settled) /\ Block(new) = block
  BY <1>8, <1>9 DEF Slot, Block
<1>11. Reservation(new) = held /\ Encodable(new)
  BY <1>3, <1>4, <1>7, <1>10 DEF Reservation, Encodable
<1>12. SlotOK(new, reserved')
  BY <1>5, <1>7, <1>8, <1>10, <1>11 DEF SlotOK
<1> QED
  BY <1>5, <1>9, <1>12, CommitSlotStep

\* persist_advance_to: the index goes on and nothing is reserved.
LEMMA PersistAdvanceToStep ==
  ASSUME ImageInv, NEW d \in Dirs, IsLive(d), NEW slot \in handle[d].slots,
         NEW target \in 1..MaxPosition, PersistAdvanceTo(d, slot, target)
  PROVE  ImageInv'
<1>1. PICK account : account = [slot.account EXCEPT !.wots = target]
  OBVIOUS
<1>2. /\ CommitSlot(d, slot, account, None, None)
      /\ reserved' = reserved /\ opens' = opens
  BY <1>1 DEF PersistAdvanceTo
<1>3. IsAccount(slot.account) /\ Restores(slot.account)
  BY LiveSlots DEF SlotOK
<1>4. target \in Nat
  BY ImageAssumption
<1>5. IsAccount(account) /\ Restores(account)
  BY <1>1, <1>3, <1>4 DEF IsAccount, Restores
<1>6. SlotOK(Slot(account, None, None), reserved')
  BY <1>5 DEF SlotOK, Slot, Encodable, Block
<1> QED
  BY <1>2, <1>6, CommitSlotStep

\* persist_settled: the block is the one that was pending.
LEMMA PersistSettledStep ==
  ASSUME ImageInv, NEW d \in Dirs, IsLive(d), NEW slot \in handle[d].slots,
         PersistSettled(d, slot)
  PROVE  ImageInv'
<1>1. PICK account, block : account = slot.account /\ block = slot.pending
  OBVIOUS
<1>2. /\ CommitSlot(d, slot, account, None, block) /\ block # None
      /\ reserved' = reserved /\ opens' = opens
  BY <1>1 DEF PersistSettled
<1>3. SlotOK(slot, reserved)
  BY LiveSlots
<1>4. PICK new : new = Slot(account, None, block)
  OBVIOUS
<1>5. /\ new.account = account /\ new.pending = None /\ new.settled = block
      /\ new = Slot(new.account, new.pending, new.settled)
      /\ Block(new) = block /\ Block(slot) = block
  BY <1>1, <1>2, <1>4 DEF Slot, Block
<1>6. /\ IsAccount(account) /\ Restores(account) /\ block \in Blocks \cup {None}
      /\ block.spent + 1 = account.wots /\ Reservation(slot) \in reserved
  BY <1>1, <1>2, <1>3, <1>5 DEF SlotOK, Encodable
<1>7. Reservation(new) = Reservation(slot) /\ Encodable(new)
  BY <1>1, <1>5, <1>6 DEF Reservation, Encodable
<1>8. SlotOK(new, reserved')
  BY <1>2, <1>5, <1>6, <1>7 DEF SlotOK
<1> QED
  BY <1>2, <1>4, <1>8, CommitSlotStep

\* Every step keeps the invariant.
LEMMA NextInv == ImageInv /\ [Next]_vars => ImageInv'
<1> SUFFICES ASSUME ImageInv, [Next]_vars PROVE ImageInv'
  OBVIOUS
<1>1. CASE UNCHANGED vars
  BY <1>1 DEF vars, ImageInv, Functions, BoxesOK, OneNonceOneBox, FilesOK, HandlesOK,
              SeedsDiffer, IsLive
<1>2. ASSUME NEW d \in Dirs, Undamaged, Write(d) PROVE ImageInv'
  <2>1. ASSUME NEW slot \in handle[d].slots, IsLive(d),
               \/ \E figures \in Figures : PersistAdvance(d, slot, figures)
               \/ \E target \in 1..MaxPosition : PersistAdvanceTo(d, slot, target)
               \/ PersistSettled(d, slot)
        PROVE  ImageInv'
    BY <2>1, PersistAdvanceStep, PersistAdvanceToStep, PersistSettledStep
  <2>2. CASE Create(d)
    BY <2>2, CreateStep
  <2>3. CASE Close(d)
    BY <2>3, CloseStep
  <2>4. CASE AdoptMaster(d)
    BY <2>4, AdoptMasterStep
  <2>5. CASE Damage(d)
    BY <1>2, <2>5, DamageStep
  <2>6. CASE \E account \in Offered : Add(d, account)
    BY <2>6, AddStep
  <2>7. CASE \E to \in Dirs \ {d} : Copy(d, to)
    BY <2>7, CopyStep
  <2> QED
    BY <1>2, <2>1, <2>2, <2>3, <2>4, <2>5, <2>6, <2>7 DEF Write
<1>3. ASSUME NEW d \in Dirs, Read(d) PROVE ImageInv'
  <2>1. CASE \E password \in {Password, Typo} : Open(d, password)
    BY <2>1, OpenStep
  <2>2. CASE \E password \in {Password, Typo} : OpenRefused(d, password)
    BY <1>1, <2>2 DEF OpenRefused
  <2> QED
    BY <1>3, <2>1, <2>2 DEF Read
<1> QED
  BY <1>1, <1>2, <1>3 DEF Next

-----------------------------------------------------------------------------
(* The theorems.                                                            *)

\* The invariant holds of every behaviour.
THEOREM ImageInvariant == Spec => []ImageInv
<1> QED
  BY InitInv, NextInv, PTL DEF Spec

\* What the invariant says of the properties.
LEMMA InvImplies ==
  ImageInv => /\ NonceSealsOneImage /\ WrittenImagesReadBack
              /\ BlocksAreAsReserved /\ RefusalNamesARealAccount
<1> SUFFICES ASSUME ImageInv
             PROVE  /\ NonceSealsOneImage /\ WrittenImagesReadBack
                    /\ BlocksAreAsReserved /\ RefusalNamesARealAccount
  OBVIOUS
<1>1. NonceSealsOneImage
  BY DEF ImageInv, OneNonceOneBox, NonceSealsOneImage
<1>2. ASSUME NEW d \in Dirs, file[d] # NoFile, file[d].box # None
      PROVE  file[d].box \in sealed /\ (~file[d].damaged => Whole(file[d]))
             /\ FileOK(file[d], sealed)
  BY <1>2 DEF ImageInv, FilesOK, FileOK
<1>3. \A b \in sealed : BoxOK(b, reserved, opens)
  BY DEF ImageInv, BoxesOK
<1>4. ASSUME NEW d \in Dirs, file[d].box \in sealed, Whole(file[d])
      PROVE  ParseWithKey(file[d], file[d].box.key) =
               [said |-> "parsed", first |-> None,
                generation |-> file[d].box.body.generation,
                master |-> file[d].box.body.master,
                others |-> file[d].box.body.others, slots |-> SlotsIn(file[d].box)]
  BY <1>3, <1>4, WholeParses
<1>5. WrittenImagesReadBack
  <2>1. ASSUME NEW d \in Dirs, file[d] # NoFile, ~file[d].damaged, file[d].box # None
        PROVE  ParseWithKey(file[d], file[d].box.key).said = "parsed"
    <3>1. PICK parsed : parsed = ParseWithKey(file[d], file[d].box.key)
      OBVIOUS
    <3>2. parsed = [said |-> "parsed", first |-> None,
                    generation |-> file[d].box.body.generation,
                    master |-> file[d].box.body.master,
                    others |-> file[d].box.body.others, slots |-> SlotsIn(file[d].box)]
      BY <1>2, <1>4, <2>1, <3>1
    <3> QED
      BY <3>1, <3>2
  <2>2. ASSUME NEW d \in Dirs, IsLive(d)
        PROVE  LET parsed == ParseWithKey(file[d], handle[d].crypto.key)
               IN  /\ parsed.said = "parsed"
                   /\ parsed.generation = handle[d].generation
                   /\ parsed.slots = handle[d].slots
                   /\ parsed.others = handle[d].others
                   /\ parsed.master = handle[d].master
                   /\ file[d].header.version = handle[d].onDisk
    <3>1. /\ file[d].box \in sealed /\ Whole(file[d])
          /\ file[d].header.version = handle[d].onDisk
          /\ file[d].box.key = handle[d].crypto.key
          /\ file[d].box.body.generation = handle[d].generation
          /\ file[d].box.body.master = handle[d].master
          /\ file[d].box.body.others = handle[d].others
          /\ SlotsIn(file[d].box) = handle[d].slots
      BY <2>2, LiveSlots DEF LiveOK
    <3>2. PICK parsed : parsed = ParseWithKey(file[d], handle[d].crypto.key)
      OBVIOUS
    <3>3. parsed = [said |-> "parsed", first |-> None,
                    generation |-> file[d].box.body.generation,
                    master |-> file[d].box.body.master,
                    others |-> file[d].box.body.others, slots |-> SlotsIn(file[d].box)]
      BY <1>4, <3>1, <3>2
    <3>4. /\ parsed.said = "parsed"
          /\ parsed.generation = file[d].box.body.generation
          /\ parsed.slots = SlotsIn(file[d].box)
          /\ parsed.others = file[d].box.body.others
          /\ parsed.master = file[d].box.body.master
      BY <3>3
    <3> QED
      BY <3>1, <3>2, <3>4
  <2> QED
    BY <2>1, <2>2, Zenon DEF WrittenImagesReadBack
<1>6. BlocksAreAsReserved
  <2> SUFFICES ASSUME NEW d \in Dirs, file[d] # NoFile, file[d].box # None,
                      ParseWithKey(file[d], file[d].box.key).said = "parsed",
                      NEW slot \in ParseWithKey(file[d], file[d].box.key).slots,
                      Block(slot) # None
               PROVE  Reservation(slot) \in reserved
    BY DEF BlocksAreAsReserved, Reservation
  <2>1. file[d].box \in sealed /\ Whole(file[d])
    BY <1>2, ParsedIsWhole
  <2>2. slot \in SlotsIn(file[d].box)
    <3>1. PICK parsed : parsed = ParseWithKey(file[d], file[d].box.key)
      OBVIOUS
    <3>2. parsed = [said |-> "parsed", first |-> None,
                    generation |-> file[d].box.body.generation,
                    master |-> file[d].box.body.master,
                    others |-> file[d].box.body.others, slots |-> SlotsIn(file[d].box)]
      BY <1>4, <2>1, <3>1
    <3>3. parsed.slots = SlotsIn(file[d].box)
      BY <3>2
    <3> QED
      BY <3>1, <3>3
  <2>3. SlotOK(slot, reserved)
    BY <1>3, <2>1, <2>2 DEF BoxOK
  <2> QED
    BY <2>3 DEF SlotOK
<1>7. RefusalNamesARealAccount
  <2>1. ASSUME NEW d \in Dirs, file[d] # NoFile, ReadHeader(file[d]).first # None
        PROVE  file[d].older # None /\ ReadHeader(file[d]).first = file[d].older.first
    <3>1. FileOK(file[d], sealed)
      BY <2>1 DEF ImageInv, FilesOK
    <3> QED
      BY <1>3, <2>1, <3>1, RefusalNamesOlder
  <2> QED
    BY <2>1 DEF RefusalNamesARealAccount
<1> QED
  BY <1>1, <1>5, <1>6, <1>7

\* Over every copy of a store, every failed commit and every restart, one key
\* and one nonce seal one image (crypt.rs, nonce_for; mod.rs, commit).
THEOREM NonceSealsOneImageHolds == Spec => []NonceSealsOneImage
<1> QED
  BY ImageInvariant, InvImplies, PTL

\* What was written and not damaged is read back, up to the cap and by both
\* formats, and a live handle is what its file reads as (format.rs).
THEOREM WrittenImagesReadBackHolds == Spec => []WrittenImagesReadBack
<1> QED
  BY ImageInvariant, InvImplies, PTL

\* A block a file reads as was reserved with these figures or by a build that
\* kept none (format.rs, the version-3 arm; mod.rs, persist_settled).
THEOREM BlocksAreAsReservedHolds == Spec => []BlocksAreAsReserved
<1> QED
  BY ImageInvariant, InvImplies, PTL

\* A refusal names an account only if the file has it (format.rs,
\* older_first_account).
THEOREM RefusalNamesARealAccountHolds == Spec => []RefusalNamesARealAccount
<1> QED
  BY ImageInvariant, InvImplies, PTL

-----------------------------------------------------------------------------
(* Whose a key is.                                                          *)

\* A path and one step more is a path, and says what it is of.
LEMMA PathOfAppend ==
  ASSUME NEW s, IsPath(s), NEW t, IsPath(t), NEW x, NEW y
  PROVE  /\ IsPath(Append(s, x)) /\ Append(s, x) # s
         /\ Append(s, x) = Append(t, y) => s = t /\ x = y
<1> DEFINE S == {s[i] : i \in 1 .. Len(s)} \cup {t[i] : i \in 1 .. Len(t)} \cup {x, y}
<1>1. s \in Seq(S) /\ t \in Seq(S) /\ x \in S /\ y \in S
  <2>1. s \in [1 .. Len(s) -> S] /\ t \in [1 .. Len(t) -> S]
    BY DEF IsPath
  <2>2. QED
    BY <2>1, SeqDef DEF IsPath
<1> HIDE DEF S
<1>2. /\ Append(s, x) \in Seq(S) /\ Len(Append(s, x)) = Len(s) + 1 /\ Len(s) \in Nat
      /\ Len(Append(t, y)) = Len(t) + 1 /\ Len(t) \in Nat
  BY <1>1, AppendProperties, LenProperties
<1>3. IsPath(Append(s, x))
  BY <1>2, LenProperties DEF IsPath
<1>4. Append(s, x) # s
  <2>1. Append(s, x) = s => Len(s) + 1 = Len(s)
    BY <1>2, Zenon
  <2>2. QED
    BY <1>2, <2>1
<1>5. ASSUME Append(s, x) = Append(t, y)
      PROVE  s = t /\ x = y
  <2>1. Len(s) = Len(t) /\ Len(s) \in Nat
    <3>1. Len(s) + 1 = Len(t) + 1
      BY <1>2, <1>5, Zenon
    <3>2. QED
      BY <1>2, <3>1
  <2>2. \A i \in 1 .. Len(s) : s[i] = t[i]
    BY <1>1, <1>5, <2>1, AppendProperties
  <2>3. x = y
    BY <1>1, <1>5, <2>1, AppendProperties
  <2>4. s = t
    BY <2>1, <2>2 DEF IsPath
  <2>5. QED
    BY <2>3, <2>4
<1>6. QED
  BY <1>3, <1>4, <1>5

\* What an account's rotations are derived from.
SeedOf(a, master) ==
  IF a.kind = "derived" THEN Append(master, a.index) ELSE a.root

\* The secret of a key is the account's seed or one derivation of it.
LEMMA KeyIs ==
  ASSUME NEW a, NEW master, NEW i \in Nat
  PROVE  KeyAt(a, i, master).secret
           = IF i = 0 THEN SeedOf(a, master) ELSE Append(SeedOf(a, master), i - 1)
<1>1. \A s, k : DeriveWotsKey(s, k) = [secret |-> Append(s, k), public |-> Append(s, k)]
  BY DEF DeriveWotsKey, FirstKey, DeriveSeed
<1>2. \A j : DeriveAccount(master, j).seed = Append(master, j)
             /\ DeriveAccount(master, j).first.secret = Append(master, j)
  BY DEF DeriveAccount, FirstKey, DeriveSeed
<1>3. \A s, c : FirstKeyFromComponents(s, c).secret = s
  BY DEF FirstKeyFromComponents
<1>4. CASE i > 0
  <2>1. PICK s : s = SeedOf(a, master)
    OBVIOUS
  <2>2. s = IF a.kind = "derived" THEN DeriveAccount(master, a.index).seed ELSE a.root
    BY <1>2, <2>1 DEF SeedOf
  <2>3. KeyAt(a, i, master) = DeriveWotsKey(s, i - 1)
    BY <1>4, <2>2 DEF KeyAt
  <2>4. KeyAt(a, i, master).secret = Append(s, i - 1)
    BY <1>1, <2>3
  <2>5. QED
    BY <1>4, <2>1, <2>4
<1>5. CASE i = 0
  <2>1. ~(i > 0)
    BY <1>5
  <2>2. CASE a.kind = "derived"
    <3>1. KeyAt(a, i, master) = DeriveAccount(master, a.index).first
      BY <2>1, <2>2 DEF KeyAt
    <3>2. KeyAt(a, i, master).secret = Append(master, a.index)
      BY <1>2, <3>1
    <3>3. QED
      BY <1>5, <2>2, <3>2 DEF SeedOf
  <2>3. CASE a.kind # "derived"
    <3>1. KeyAt(a, i, master) = FirstKeyFromComponents(a.root, a.first)
      BY <2>1, <2>3 DEF KeyAt
    <3>2. KeyAt(a, i, master).secret = a.root
      BY <1>3, <3>1
    <3>3. QED
      BY <1>5, <2>3, <3>2 DEF SeedOf
  <2>4. QED
    BY <2>2, <2>3
<1>6. QED
  BY <1>4, <1>5

\* The seed of an account is a path.
LEMMA SeedIsPath ==
  ASSUME NEW a, IsAccount(a), NEW master, IsPath(master)
  PROVE  IsPath(SeedOf(a, master))
BY PathOfAppend DEF IsAccount, SeedOf

\* No two positions of one account have one key (account.rs, the wots index;
\* keystore/sign.rs, key_at): an index that only grows never comes back to a
\* key that signed.
THEOREM PositionsHaveTheirOwnKeys ==
  ASSUME NEW a, IsAccount(a), NEW master, IsPath(master),
         NEW i \in Nat, NEW j \in Nat, i # j
  PROVE  KeyAt(a, i, master) # KeyAt(a, j, master)
<1>1. PICK s : s = SeedOf(a, master)
  OBVIOUS
<1>2. IsPath(s)
  BY <1>1, SeedIsPath
<1>3. \A k : Append(s, k) # s
  BY <1>2, PathOfAppend
<1>4. \A k, l : Append(s, k) = Append(s, l) => k = l
  BY <1>2, PathOfAppend
<1>5. \A k \in Nat : KeyAt(a, k, master).secret = IF k = 0 THEN s ELSE Append(s, k - 1)
  BY <1>1, KeyIs
<1>6. i # 0 /\ j # 0 => i - 1 # j - 1
  OBVIOUS
<1>7. QED
  BY <1>3, <1>4, <1>5, <1>6

\* The same identity is the same account.
Single(X) == \A x, y \in X : x.account.stream = y.account.stream => x = y

\* Every image has its accounts apart, and the one master there is or none.
OwnersInv ==
  \A b \in sealed : Single(b.body.records) /\ b.body.master \in {None, Master}

\* A record and its slot are of one account.
LEMMA AccountIsKept ==
  /\ \A slot : Record(slot).account = slot.account
  /\ \A version, r : SlotOf(version, r).account = r.account
  /\ \A account, pending, settled : Slot(account, pending, settled).account = account
BY DEF Record, SlotOf, Slot

\* What is live has its accounts apart.
LEMMA LiveOwners ==
  ASSUME ImageInv, OwnersInv, NEW d \in Dirs, IsLive(d)
  PROVE  /\ Single(handle[d].slots) /\ handle[d].master \in {None, Master}
         /\ \A slot \in handle[d].slots : IsAccount(slot.account) /\ Restores(slot.account)
<1>1. LiveOK(handle[d], file[d], sealed, opens)
      /\ \A slot \in handle[d].slots : SlotOK(slot, reserved)
  BY LiveSlots
<1>2. PICK b \in sealed : b = file[d].box /\ SlotsIn(b) = handle[d].slots /\ b.body.master = handle[d].master
  BY <1>1 DEF LiveOK
<1>3. Single(b.body.records) /\ b.body.master \in {None, Master}
  BY DEF OwnersInv
<1>4. Single(SlotsIn(b))
  BY <1>3, AccountIsKept DEF Single, SlotsIn
<1>5. QED
  BY <1>1, <1>2, <1>3, <1>4 DEF SlotOK

\* A commit of slots that are apart, whatever came of it.
LEMMA CommitOwners ==
  ASSUME OwnersInv, NEW d, NEW h, NEW slots, NEW master, NEW next,
         Single(slots), master \in {None, Master},
         Commit(d, Sealing(h, slots, master), next)
  PROVE  OwnersInv'
<1>1. PICK image : image = Sealing(h, slots, master)
  OBVIOUS
<1>2. image # None /\ sealed' = sealed \cup {image.box}
  BY <1>1 DEF Commit
<1>3. image.box.body = BodyOf(slots, h.others, h.generation + 1, master)
  <2>1. image = Sealed(VERSION, h.crypto, NonceFor(h.crypto.seed, h.generation + 1),
                       BodyOf(slots, h.others, h.generation + 1, master))
    BY <1>1, <1>2, EncodeIs DEF Sealing
  <2>2. QED
    BY <2>1 DEF Sealed
<1>4. image.box.body.records = {Record(slot) : slot \in slots} /\ image.box.body.master = master
  BY <1>3 DEF BodyOf
<1>5. Single(image.box.body.records)
  BY <1>4, AccountIsKept DEF Single
<1>6. QED
  BY <1>2, <1>4, <1>5 DEF OwnersInv

\* add: no account there is has the identity the new one was recomputed to.
LEMMA AddOwners ==
  ASSUME ImageInv, OwnersInv, NEW d \in Dirs, NEW account \in Offered, Add(d, account)
  PROVE  OwnersInv'
<1>1. PICK h : h = handle[d]
  OBVIOUS
<1>2. PICK slots : slots = h.slots \cup {Slot(account, None, None)}
  OBVIOUS
<1>3. /\ IsLive(d) /\ ~Collides(h, account) /\ RecomputedStreamId(h, account) # None
      /\ Commit(d, Sealing(h, slots, h.master),
                [h EXCEPT !.generation = @ + 1, !.slots = slots])
  BY <1>1, <1>2 DEF Add
<1>4. Single(h.slots) /\ h.master \in {None, Master}
  BY <1>1, <1>3, LiveOwners
<1>5. RecomputedStreamId(h, account) = account.stream
  <2>1. Restores(account)
    BY ImageAssumption
  <2>2. QED
    BY <1>3, <2>1 DEF RecomputedStreamId, Restores
<1>6. \A slot \in h.slots : slot.account.stream # account.stream
  BY <1>3, <1>5 DEF Collides, Accounts
<1>7. Single(slots)
  BY <1>2, <1>4, <1>6, AccountIsKept DEF Single
<1>8. QED
  BY <1>3, <1>4, <1>7, CommitOwners

\* One slot becomes another of the same identity.
LEMMA SlotOwners ==
  ASSUME ImageInv, OwnersInv, NEW d \in Dirs, IsLive(d), NEW slot \in handle[d].slots,
         NEW account, account.stream = slot.account.stream, NEW pending, NEW settled,
         CommitSlot(d, slot, account, pending, settled)
  PROVE  OwnersInv'
<1>1. PICK h : h = handle[d]
  OBVIOUS
<1>2. PICK slots : slots = (h.slots \ {slot}) \cup {Slot(account, pending, settled)}
  OBVIOUS
<1>3. Commit(d, Sealing(h, slots, h.master),
             [h EXCEPT !.generation = @ + 1, !.slots = slots])
  BY <1>1, <1>2 DEF CommitSlot, Replaced
<1>4. Single(h.slots) /\ h.master \in {None, Master}
  BY <1>1, LiveOwners
<1>5. Single(slots)
  BY <1>1, <1>2, <1>4, AccountIsKept DEF Single
<1>6. QED
  BY <1>3, <1>4, <1>5, CommitOwners

\* Every step keeps the accounts of every image apart.
LEMMA NextOwners == ImageInv /\ OwnersInv /\ [Next]_vars => OwnersInv'
<1> SUFFICES ASSUME ImageInv, OwnersInv, [Next]_vars
             PROVE  OwnersInv'
  OBVIOUS
<1>1. ASSUME sealed' = sealed
      PROVE  OwnersInv'
  BY <1>1 DEF OwnersInv
<1>2. ASSUME NEW d \in Dirs, Create(d)
      PROVE  OwnersInv'
  <2>1. PICK crypto : sealed' = sealed \cup {Encode({}, 0, 0, None, crypto).box}
                      /\ crypto = Crypto(Password, <<"salt", opens + 1>>, RECOMMENDED, opens + 1)
    BY <1>2 DEF Create
  <2>2. Encode({}, 0, 0, None, crypto).box.body = BodyOf({}, 0, 0, None)
    <3>1. Cardinality({}) = 0
      BY FS_EmptySet
    <3>2. crypto.kdf = RECOMMENDED
      BY <2>1 DEF Crypto
    <3>3. ~(Count({}, 0) > MAX_ACCOUNTS)
      BY <3>1, Widths DEF Count
    <3>4. Encode({}, 0, 0, None, crypto)
            = Sealed(VERSION, crypto, NonceFor(crypto.seed, 0), BodyOf({}, 0, 0, None))
      BY <3>2, <3>3, RecommendedIsChecked DEF Encode, BodyOf
    <3>5. QED
      BY <3>4 DEF Sealed
  <2>3. BodyOf({}, 0, 0, None).records = {} /\ BodyOf({}, 0, 0, None).master = None
    BY DEF BodyOf
  <2>4. QED
    BY <2>1, <2>2, <2>3 DEF OwnersInv, Single
<1>3. ASSUME NEW d \in Dirs, AdoptMaster(d)
      PROVE  OwnersInv'
  <2>1. Single(handle[d].slots)
    BY <1>3, LiveOwners DEF AdoptMaster
  <2>2. QED
    BY <1>3, <2>1, CommitOwners DEF AdoptMaster
<1>4. ASSUME NEW d \in Dirs, IsLive(d), NEW slot \in handle[d].slots,
             \/ \E figures \in Figures : PersistAdvance(d, slot, figures)
             \/ \E target \in 1..MaxPosition : PersistAdvanceTo(d, slot, target)
             \/ PersistSettled(d, slot)
      PROVE  OwnersInv'
  <2>1. PICK account, pending, settled :
          CommitSlot(d, slot, account, pending, settled)
          /\ (account = slot.account \/ \E n : account = [slot.account EXCEPT !.wots = n])
    BY <1>4 DEF PersistAdvance, PersistAdvanceTo, PersistSettled
  <2>2. IsAccount(slot.account)
    BY <1>4, LiveOwners
  <2>3. account.stream = slot.account.stream
    BY <2>1, <2>2 DEF IsAccount
  <2>4. QED
    BY <1>4, <2>1, <2>3, SlotOwners
<1>5. ASSUME NEW d \in Dirs, Write(d)
      PROVE  OwnersInv'
  <2>1. Close(d) \/ Damage(d) \/ (\E to \in Dirs \ {d} : Copy(d, to)) => sealed' = sealed
    BY DEF Close, Damage, Copy
  <2>2. QED
    BY <1>1, <1>2, <1>3, <1>4, <1>5, <2>1, AddOwners DEF Write
<1>6. ASSUME NEW d \in Dirs, Read(d)
      PROVE  OwnersInv'
  BY <1>1, <1>6 DEF Read, Open, OpenRefused, vars
<1>7. CASE UNCHANGED vars
  BY <1>1, <1>7 DEF vars
<1>8. QED
  BY <1>5, <1>6, <1>7 DEF Next

\* A store there already was has one record of an account.
LEMMA InitOwners == Init => OwnersInv
<1> SUFFICES ASSUME Init
             PROVE  OwnersInv
  OBVIOUS
<1>1. ASSUME NEW version, NEW crowd, NEW master \in {None, Master}, NEW record,
             SealedBefore(OldStore(version, crowd, master, record))
      PROVE  OwnersInv
  <2>1. PICK found : found = OldStore(version, crowd, master, record) /\ sealed = {found.box}
    BY <1>1 DEF SealedBefore
  <2>2. found.box.body.records = {record} /\ found.box.body.master = master
    BY <2>1 DEF OldStore, Sealed
  <2>3. QED
    BY <2>1, <2>2 DEF OwnersInv, Single
<1>2. CASE sealed = {}
  BY <1>2 DEF OwnersInv
<1>3. QED
  BY <1>1, <1>2 DEF Init

\* Of a store that holds its master, no imported root is that master or the
\* secret of one rotation of an account of the store. Nothing in the code refuses
\* such a root, and its keys are then shared: see AccountsReachTheirOwnKeys.
RootsAreForeign ==
  \A d \in Dirs : IsLive(d) /\ handle[d].master # None =>
    \A a, b \in Accounts(handle[d]) : b.kind = "imported" =>
      /\ b.root # handle[d].master
      /\ \A k \in 0 .. MaxPosition : b.root # Append(SeedOf(a, handle[d].master), k)

\* An account the store reaches is of the identity of its seed.
LEMMA ReachedIs ==
  ASSUME NEW a, IsAccount(a), Restores(a), NEW master, NEW roots,
         KeyIsReached(a, master, roots)
  PROVE  a.stream = StreamId(SeedOf(a, master))
<1>1. \A j : DeriveAccount(master, j).seed = Append(master, j)
  BY DEF DeriveAccount, DeriveSeed
<1>2. CASE a.kind = "derived"
  BY <1>1, <1>2 DEF KeyIsReached, SeedOf
<1>3. CASE a.kind = "imported"
  BY <1>3 DEF Restores, SeedOf
<1>4. QED
  BY <1>2, <1>3 DEF IsAccount

\* Two paths neither of which is one derivation of the other give no key twice.
LEMMA SeedsGiveTheirOwnKeys ==
  ASSUME NEW a, NEW b, NEW m, NEW s, NEW t, IsPath(s), IsPath(t), s # t,
         s = SeedOf(a, m), t = SeedOf(b, m),
         NEW i \in 0 .. MaxPosition, NEW j \in 0 .. MaxPosition,
         \A k \in 0 .. MaxPosition : s # Append(t, k) /\ t # Append(s, k)
  PROVE  KeyAt(a, i, m) # KeyAt(b, j, m)
<1>1. i \in Nat /\ j \in Nat /\ MaxPosition \in Nat
  BY ImageAssumption
<1>2. /\ KeyAt(a, i, m).secret = IF i = 0 THEN s ELSE Append(s, i - 1)
      /\ KeyAt(b, j, m).secret = IF j = 0 THEN t ELSE Append(t, j - 1)
  BY <1>1, KeyIs
<1>3. \A x, y : Append(s, x) # Append(t, y)
  BY PathOfAppend
<1>4. /\ i # 0 => i - 1 \in 0 .. MaxPosition
      /\ j # 0 => j - 1 \in 0 .. MaxPosition
  BY <1>1
<1>5. QED
  BY <1>2, <1>3, <1>4

\* What OwnersInv says of the property.
LEMMA OwnersImply ==
  ASSUME ImageInv, OwnersInv, RootsAreForeign
  PROVE  AccountsReachTheirOwnKeys
<1> SUFFICES ASSUME NEW d \in Dirs, IsLive(d), handle[d].master # None
             PROVE  /\ \A a \in Accounts(handle[d]) :
                         (a.kind = "derived" =>
                            [a EXCEPT !.wots = 0] = Derive(handle[d].master, a.index))
                         => KeyIsReached(a, handle[d].master, ImportedRoots(handle[d]))
                    /\ \A a, b \in Accounts(handle[d]) :
                         /\ a # b
                         /\ KeyIsReached(a, handle[d].master, ImportedRoots(handle[d]))
                         /\ KeyIsReached(b, handle[d].master, ImportedRoots(handle[d]))
                         => {KeyAt(a, i, handle[d].master) : i \in 0..MaxPosition}
                              \cap {KeyAt(b, i, handle[d].master) : i \in 0..MaxPosition} = {}
  BY Zenon DEF AccountsReachTheirOwnKeys
<1>1. PICK h, m, roots : h = handle[d] /\ m = h.master /\ roots = ImportedRoots(h)
  OBVIOUS
<1>2. m = Master /\ m # None /\ IsPath(m)
  BY <1>1, LiveOwners, ImageAssumption
<1>3. \A a \in Accounts(h) : IsAccount(a) /\ Restores(a)
  BY <1>1, LiveOwners DEF Accounts
<1>4. \A a, b \in Accounts(h) : a.stream = b.stream => a = b
  BY <1>1, LiveOwners DEF Accounts, Single
<1>5. \A j : DeriveAccount(m, j).seed = Append(m, j)
  BY DEF DeriveAccount, DeriveSeed
<1>6. ASSUME NEW a \in Accounts(h),
             a.kind = "derived" => [a EXCEPT !.wots = 0] = Derive(m, a.index)
      PROVE  KeyIsReached(a, m, roots)
  <2> SUFFICES ASSUME a.kind = "derived"
               PROVE  KeyIsReached(a, m, roots)
    BY DEF KeyIsReached
  <2>1. /\ a.tag = DeriveAccount(m, a.index).tag
        /\ a.stream = StreamId(DeriveAccount(m, a.index).seed)
    <3>1. [a EXCEPT !.wots = 0] = Derive(m, a.index)
      BY <1>6
    <3>2. /\ [a EXCEPT !.wots = 0].tag = a.tag
          /\ [a EXCEPT !.wots = 0].stream = a.stream
      BY <1>3 DEF IsAccount
    <3>3. /\ Derive(m, a.index).tag = DeriveAccount(m, a.index).tag
          /\ Derive(m, a.index).stream = StreamId(DeriveAccount(m, a.index).seed)
      BY DEF Derive, Derived
    <3>4. QED
      BY <3>1, <3>2, <3>3
  <2>2. ASSUME DeriveAccount(m, a.index).seed \in roots
        PROVE  FALSE
    <3>1. PICK b \in Accounts(h) : b.kind = "imported" /\ b.root = DeriveAccount(m, a.index).seed
      BY <1>1, <2>2 DEF ImportedRoots
    <3>2. b.stream = a.stream
      BY <1>3, <2>1, <3>1 DEF Restores
    <3>3. QED
      BY <1>4, <3>1, <3>2
  <2>3. QED
    BY <1>2, <2>1, <2>2 DEF KeyIsReached
<1>7. ASSUME NEW a \in Accounts(h), NEW b \in Accounts(h), a # b,
             KeyIsReached(a, m, roots), KeyIsReached(b, m, roots),
             NEW i \in 0 .. MaxPosition, NEW j \in 0 .. MaxPosition
      PROVE  KeyAt(a, i, m) # KeyAt(b, j, m)
  <2>1. PICK s, t : s = SeedOf(a, m) /\ t = SeedOf(b, m)
    OBVIOUS
  <2>2. IsPath(s) /\ IsPath(t)
    BY <1>2, <1>3, <2>1, SeedIsPath
  <2>3. s # t
    <3>1. a.stream = StreamId(s) /\ b.stream = StreamId(t)
      BY <1>3, <1>7, <2>1, ReachedIs
    <3>2. QED
      BY <1>4, <1>7, <3>1
  <2>4. ASSUME NEW x \in Accounts(h), NEW y \in Accounts(h), NEW k \in 0 .. MaxPosition
        PROVE  SeedOf(x, m) # Append(SeedOf(y, m), k)
    <3>2. CASE x.kind = "imported"
      <4>1. x.root # Append(SeedOf(y, m), k)
        BY <1>1, <3>2 DEF RootsAreForeign
      <4>2. QED
        BY <3>2, <4>1 DEF SeedOf
    <3>3. CASE x.kind = "derived"
      <4>1. SeedOf(x, m) = Append(m, x.index)
        BY <3>3 DEF SeedOf
      <4>2. SeedOf(y, m) # m
        <5>1. CASE y.kind = "imported"
          BY <1>1, <5>1 DEF RootsAreForeign, SeedOf
        <5>2. CASE y.kind = "derived"
          BY <1>2, <5>2, PathOfAppend DEF SeedOf
        <5>3. QED
          BY <1>3, <5>1, <5>2 DEF IsAccount
      <4>3. IsPath(SeedOf(y, m))
        BY <1>2, <1>3, SeedIsPath
      <4>4. QED
        BY <1>2, <4>1, <4>2, <4>3, PathOfAppend
    <3>4. QED
      BY <1>3, <3>2, <3>3 DEF IsAccount
  <2>5. \A k \in 0 .. MaxPosition : s # Append(t, k) /\ t # Append(s, k)
    BY <2>1, <2>4
  <2>6. QED
    BY <2>1, <2>2, <2>3, <2>5, SeedsGiveTheirOwnKeys
<1>8. QED
  BY <1>1, <1>6, <1>7

\* Of a store that holds its master an account made by its own derivation is
\* reached, and no key is reached by two accounts (mod.rs, add; sign.rs, key_at),
\* but for an imported root that is the master itself or one rotation's secret.
\* Of derived accounts alone it holds without exception.
THEOREM AccountsReachTheirOwnKeysHolds == Spec => [](RootsAreForeign => AccountsReachTheirOwnKeys)
<1>1. ImageInv /\ OwnersInv => (RootsAreForeign => AccountsReachTheirOwnKeys)
  BY OwnersImply
<1>2. QED
  BY <1>1, ImageInvariant, InitOwners, NextOwners, PTL DEF Spec
=============================================================================
