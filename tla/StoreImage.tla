------------------------------ MODULE StoreImage ------------------------------
(***************************************************************************)
(* The keystore's file: format.rs, crypt.rs and the commits of              *)
(* keystore/mod.rs that seal it, over the accounts of KeyStreams.           *)
(*                                                                          *)
(* A file is its plaintext header, the box the rest is sealed in and its    *)
(* length in bytes; the widths are the real ones.  A store is the accounts  *)
(* it names and a number of others nothing is done with.  A box opens under *)
(* the key, the nonce and the header it was sealed with.                    *)
(***************************************************************************)
EXTENDS KeyStreams, FiniteSets

CONSTANTS
  Dirs,           \* directories: the store's, and where a copy is kept
  Password, Typo, \* the password of every store here, and another one typed
  Master,         \* the seed the store adopts
  Offered,        \* the accounts `add` is called with
  Digest, Figures,\* what is reserved: a digest and pairs of figures
  Crowds,         \* how many other accounts an old store holds
  MaxPosition,    \* bound on an account's index
  MaxOpens,       \* bound on the handles created or opened
  MaxSeals        \* bound on the images sealed

VARIABLES
  file,           \* [d -> what accounts.mks holds in d]
  handle,         \* [d -> the handle of the process that holds d's lock]
  opens,          \* how many handles there have been: each drew fresh entropy
  sealed,         \* history: every box
  reserved        \* history: every reservation a commit was tried for

vars == <<file, handle, opens, sealed, reserved>>

HEADER_LEN      == 8 + 2 + 1 + 4 + 4 + 4 + 16 + 12
BODY_HEADER_LEN == 8 + 4 + 1 + 32
RECORD_LEN      == 20 + 1 + 32 + 64 + 20 + 4 + 1 + 4 + 32 + 1 + 8 + 8
V3_RECORD_LEN   == 178
TRAILER_LEN     == 16
MAX_ACCOUNTS    == 65536
VERSION         == 4
V3_VERSION      == 3
ARGON2ID        == 1
MAX_M_COST      == 1024 * 1024
MIN_M_COST      == 8

\* What a reservation is, as the store keeps it.
Blocks == [spent : Nat, digest : {Digest}, figures : Figures \cup {None}]

\* A build refuses to write more accounts than the cap, and an account it is
\* given to add is one it could restore.
ASSUME ImageAssumption ==
  /\ None \notin {Master} \cup Figures \cup Blocks
                \cup [count : Nat, first : {Derive(Master, 0).tag}]
  /\ Crowds \subseteq 0 .. MAX_ACCOUNTS - 1 /\ MaxPosition \in Nat
  /\ Figures \subseteq [balance : Nat, live : Nat]
  /\ IsPath(Master) /\ \A a \in Offered : IsAccount(a) /\ Restores(a)

\* Variant: the sum as version 2 had it, without the body header.
MaxImageLenV2 == HEADER_LEN + MAX_ACCOUNTS * RECORD_LEN + TRAILER_LEN

MAX_IMAGE_LEN ==
  HEADER_LEN + BODY_HEADER_LEN + MAX_ACCOUNTS * RECORD_LEN + TRAILER_LEN
MIN_IMAGE_LEN == HEADER_LEN + BODY_HEADER_LEN + TRAILER_LEN

RecordLenAt(version) == IF version = V3_VERSION THEN V3_RECORD_LEN ELSE RECORD_LEN
BodyLenAt(version, count) == count * RecordLenAt(version) + BODY_HEADER_LEN
ImageLen(count) == BodyLenAt(VERSION, count) + HEADER_LEN + TRAILER_LEN

-----------------------------------------------------------------------------
(* Keys and nonces.                                                         *)

RECOMMENDED == [m |-> 65536, t |-> 3, p |-> 1]

Checked(kdf) == /\ kdf.m \in MIN_M_COST..MAX_M_COST
                /\ kdf.m >= 8 * kdf.p
                /\ kdf.t > 0 /\ kdf.p > 0

DeriveKey(password, salt, kdf) == <<password, salt, kdf>>

NonceFor(seed, generation) == <<seed, generation>>

-----------------------------------------------------------------------------
(* Encoding.  A slot is an account and its two blocks; a record is the same *)
(* as flags and fields, zero where nothing is.                              *)

Slot(account, pending, settled) ==
  [account |-> account, pending |-> pending, settled |-> settled]

Count(records, others) == Cardinality(records) + others

Block(slot) == IF slot.pending # None THEN slot.pending ELSE slot.settled

FiguresOf(block) ==
  IF block = None \/ block.figures = None THEN <<0, 0, 0>>
  ELSE <<1, block.figures.balance, block.figures.live>>

Record(slot) ==
  LET block == Block(slot)
  IN  [account |-> slot.account,
       flag    |-> IF slot.pending # None THEN 1
                   ELSE IF slot.settled # None THEN 2 ELSE 0,
       spent   |-> IF block = None THEN 0 ELSE block.spent,
       digest  |-> IF block = None THEN 0 ELSE block.digest,
       figures |-> FiguresOf(block)]

\* What encode refuses of a record: both blocks, or a block that is not of
\* the position before the index.
Encodable(slot) ==
  /\ slot.pending = None \/ slot.settled = None
  /\ Block(slot) # None => Block(slot).spent + 1 = slot.account.wots

\* A file around a body: the header is what the box is bound to.
Sealed(version, crypto, nonce, body) ==
  LET header == [magic |-> TRUE, version |-> version, kdfId |-> ARGON2ID,
                 kdf |-> crypto.kdf, salt |-> crypto.salt, nonce |-> nonce]
  IN  [header |-> header,
       box    |-> [key |-> crypto.key, nonce |-> nonce, aad |-> header,
                   body |-> body],
       length |-> HEADER_LEN + BodyLenAt(version, body.count) + TRAILER_LEN,
       older  |-> None, damaged |-> FALSE]

Encode(slots, others, generation, master, crypto) ==
  IF \/ Count(slots, others) > MAX_ACCOUNTS
     \/ ~Checked(crypto.kdf)
     \/ \E slot \in slots : ~Encodable(slot)
  THEN None
  ELSE Sealed(VERSION, crypto, NonceFor(crypto.seed, generation),
         [generation |-> generation, count |-> Count(slots, others),
          master |-> master, records |-> {Record(slot) : slot \in slots},
          others |-> others])

-----------------------------------------------------------------------------
(* Reading.                                                                 *)

TOP_BYTE == 256 * 256 * 256

\* The count an image before version 3 has at bytes 18 to 21.  In a later one
\* they are the top byte of t_cost and the low three of p_cost.
OldCount(f) ==
  IF f.older # None THEN f.older.count
  ELSE (f.header.kdf.t \div TOP_BYTE) + 256 * (f.header.kdf.p % TOP_BYTE)

\* The bytes 22 to 42: the first record's tag, or a part of the salt.
OldFirst(f) == IF f.older # None THEN f.older.first ELSE f.header.salt

OldRecordLen(version) == IF version = 1 THEN 94 ELSE 178

\* Variant: an image of an old version is taken at its word.
FirstAccountUnmeasured(f) ==
  IF f.header.version \in {1, 2} /\ OldCount(f) > 0 THEN OldFirst(f) ELSE None

OlderFirstAccount(f) ==
  IF /\ f.header.version \in {1, 2}
     /\ OldCount(f) > 0
     /\ f.length = 22 + OldCount(f) * OldRecordLen(f.header.version) + 32
  THEN OldFirst(f) ELSE None

Refusal(what) == [said |-> what, first |-> None]

\* read_header: the gates in the order the code has them.
ReadHeader(f) ==
  IF f.length > MAX_IMAGE_LEN THEN Refusal("range")
  ELSE IF f.length < TRAILER_LEN + 10 \/ ~f.header.magic THEN Refusal("corrupt")
  ELSE IF f.header.version \notin {VERSION, V3_VERSION}
       THEN [said |-> "unsupported", first |-> OlderFirstAccount(f)]
  ELSE IF f.header.kdfId # ARGON2ID THEN Refusal("unsupported")
  ELSE IF ~Checked(f.header.kdf) THEN Refusal("range")
  ELSE IF f.length < MIN_IMAGE_LEN THEN Refusal("corrupt")
  ELSE Refusal("framed")

\* crypt::open: one refusal whatever the cause.
Decrypts(f, key) ==
  /\ f.box.key = key /\ f.box.nonce = f.header.nonce
  /\ f.box.aad = f.header
  /\ f.length = HEADER_LEN + BodyLenAt(f.box.aad.version, f.box.body.count)
                  + TRAILER_LEN

\* The rules a record of this version keeps.  A record of version 3 ends at
\* the digest and has no state 2.
Canonical(version, r) ==
  LET figures == IF version = V3_VERSION THEN <<0, 0, 0>> ELSE r.figures
  IN  /\ figures[1] \in {0, 1}
      /\ figures[1] = 0 => figures = <<0, 0, 0>>
      /\ r.flag \in IF version = V3_VERSION THEN {0, 1} ELSE {0, 1, 2}
      /\ r.flag = 0 => r.spent = 0 /\ r.digest = 0 /\ figures[1] = 0
      /\ r.flag # 0 => r.spent + 1 = r.account.wots
      /\ Restores(r.account)

\* Variant: the three fields of a version-4 record, whatever the version.
SlotOfV4(version, r) ==
  LET block == [spent |-> r.spent, digest |-> r.digest,
                figures |-> [balance |-> r.figures[2], live |-> r.figures[3]]]
  IN  Slot(r.account, IF r.flag = 1 THEN block ELSE None,
                      IF r.flag = 2 THEN block ELSE None)

SlotOf(version, r) ==
  LET block == [spent |-> r.spent, digest |-> r.digest,
                figures |-> IF version = V3_VERSION \/ r.figures[1] = 0 THEN None
                            ELSE [balance |-> r.figures[2], live |-> r.figures[3]]]
  IN  Slot(r.account, IF r.flag = 1 THEN block ELSE None,
                      IF r.flag = 2 THEN block ELSE None)

ParseWithKey(f, key) ==
  LET header == ReadHeader(f)
      body   == f.box.body
  IN  IF header.said # "framed" THEN header
      ELSE IF ~Decrypts(f, key) THEN Refusal("wrong password")
      ELSE IF body.count > MAX_ACCOUNTS THEN Refusal("range")
      ELSE IF \/ f.length # HEADER_LEN + BodyLenAt(f.header.version, body.count)
                              + TRAILER_LEN
              \/ \E r \in body.records : ~Canonical(f.header.version, r)
           THEN Refusal("corrupt")
      ELSE [said |-> "parsed", first |-> None, generation |-> body.generation,
            master |-> body.master, others |-> body.others,
            slots |-> {SlotOf(f.header.version, r) : r \in body.records}]

-----------------------------------------------------------------------------
(* Handles.                                                                 *)

NoFile == None
Closed == [state |-> "closed"]
IsLive(d) == handle[d].state = "live"

Crypto(password, salt, kdf, seed) ==
  [key |-> DeriveKey(password, salt, kdf), kdf |-> kdf, salt |-> salt, seed |-> seed]

Live(generation, master, slots, others, crypto, version) ==
  [state |-> "live", generation |-> generation, master |-> master,
   slots |-> slots, others |-> others, crypto |-> crypto,
   opened |-> version, onDisk |-> version]

\* The stores there may already be: a version-3 one with a reservation; one of
\* this version that settled what it was upgraded with; one with no master,
\* holding an account as it was handed over.
OldRecord == [account |-> [Derive(Master, 0) EXCEPT !.wots = 1], flag |-> 1,
              spent |-> 0, digest |-> Digest, figures |-> <<0, 0, 0>>]
Carried(account) == [account |-> account, flag |-> 0, spent |-> 0, digest |-> 0,
                    figures |-> <<0, 0, 0>>]
OldStore(version, crowd, master, record) ==
  LET crypto == Crypto(Password, <<"salt">>, RECOMMENDED, 0)
  IN  Sealed(version, crypto, NonceFor(0, 0),
        [generation |-> 0, count |-> 1 + crowd, master |-> master,
         records |-> {record}, others |-> crowd])

\* What a build before encryption left: a count and a first account.
Unsealed(version) ==
  [header |-> [magic |-> TRUE, version |-> version, kdfId |-> 0,
               kdf |-> [m |-> 0, t |-> 0, p |-> 0], salt |-> <<>>, nonce |-> <<>>],
   box |-> None, length |-> 22 + 2 * OldRecordLen(version) + 32,
   older |-> [count |-> 2, first |-> Derive(Master, 0).tag], damaged |-> FALSE]

InOneDirectory(found) ==
  \E home \in Dirs : file = [d \in Dirs |-> IF d = home THEN found ELSE NoFile]

SealedBefore(found) ==
  /\ InOneDirectory(found)
  /\ sealed = {found.box}
  /\ reserved = IF found.box.body.master = None THEN {}
                ELSE {[tag |-> OldRecord.account.tag, spent |-> 0,
                       digest |-> Digest, figures |-> None]}

Init ==
  /\ \/ /\ \E found \in {NoFile, Unsealed(1), Unsealed(2)} : InOneDirectory(found)
        /\ sealed = {} /\ reserved = {}
     \/ \E n \in Crowds :
          \/ SealedBefore(OldStore(V3_VERSION, n, Master, OldRecord))
          \/ SealedBefore(OldStore(VERSION, n, Master, [OldRecord EXCEPT !.flag = 2]))
     \/ \E a \in Offered :
          /\ a.kind = "derived"
          /\ SealedBefore(OldStore(VERSION, 0, None, Carried(a)))
  /\ handle = [d \in Dirs |-> Closed]
  /\ opens = 0

\* Variant: the handle goes on after a commit that failed.
StillLive(h) == h

\* Keystore::commit: an error poisons.
Failed(h) == [h EXCEPT !.state = "poisoned"]

\* The image is in place and known to be; or the commit failed before its
\* rename, or after it.  An image that encode refuses is not committed and
\* leaves everything as it was.
Commit(d, image, next) ==
  /\ image # None
  /\ sealed' = sealed \cup {image.box}
  /\ \/ /\ file' = [file EXCEPT ![d] = image]
        /\ handle' = [handle EXCEPT ![d] = [next EXCEPT !.onDisk = VERSION]]
     \/ /\ file' \in {file, [file EXCEPT ![d] = image]}
        /\ handle' = [handle EXCEPT ![d] = Failed(@)]

\* seal, of a live handle with these slots and this master, one later.
Sealing(h, slots, master) ==
  Encode(slots, h.others, h.generation + 1, master, h.crypto)

CanSeal == Cardinality(sealed) < MaxSeals

Create(d) ==
  /\ file[d] = NoFile /\ handle[d] = Closed /\ opens < MaxOpens /\ CanSeal
  /\ LET fresh == opens + 1
         crypto == Crypto(Password, <<"salt", fresh>>, RECOMMENDED, fresh)
         h == Live(0, None, {}, 0, crypto, VERSION)
     IN  /\ opens' = fresh
         /\ sealed' = sealed \cup {Encode({}, 0, 0, None, crypto).box}
         /\ \/ /\ file' = [file EXCEPT ![d] = Encode({}, 0, 0, None, crypto)]
               /\ handle' \in {[handle EXCEPT ![d] = h], handle}
            \/ UNCHANGED <<file, handle>>
  /\ UNCHANGED reserved

Open(d, password) ==
  /\ file[d] # NoFile /\ handle[d] = Closed /\ opens < MaxOpens
  /\ LET f == file[d]
         crypto == Crypto(password, f.header.salt, f.header.kdf, opens + 1)
         parsed == ParseWithKey(f, crypto.key)
     IN  /\ parsed.said = "parsed"
         /\ handle' = [handle EXCEPT ![d] =
              Live(parsed.generation, parsed.master, parsed.slots, parsed.others,
                   crypto, f.header.version)]
  /\ opens' = opens + 1
  /\ UNCHANGED <<file, sealed, reserved>>

OpenRefused(d, password) ==
  /\ handle[d] = Closed
  /\ file[d] # NoFile =>
       ParseWithKey(file[d], DeriveKey(password, file[d].header.salt,
                                       file[d].header.kdf)).said # "parsed"
  /\ UNCHANGED vars

\* The process ends, or the handle is dropped.
Close(d) ==
  /\ handle[d] # Closed
  /\ handle' = [handle EXCEPT ![d] = Closed]
  /\ UNCHANGED <<file, opens, sealed, reserved>>

AdoptMaster(d) ==
  /\ IsLive(d) /\ CanSeal
  /\ handle[d].master = None
  /\ LET h == handle[d]
     IN  Commit(d, Sealing(h, h.slots, Master),
                [h EXCEPT !.generation = @ + 1, !.master = Master])
  /\ UNCHANGED <<opens, reserved>>

Accounts(h) == {slot.account : slot \in h.slots}
ImportedRoots(h) == {a.root : a \in {b \in Accounts(h) : b.kind = "imported"}}

\* recomputed_stream_id, or None where the account is not what it says.
RecomputedStreamId(h, account) ==
  IF account.kind = "imported" THEN StreamId(account.root)
  ELSE IF h.master = None THEN account.stream
  ELSE LET derived == DeriveAccount(h.master, account.index)
       IN  IF derived.tag = account.tag /\ StreamId(derived.seed) = account.stream
           THEN account.stream ELSE None

\* Variant: the two collisions version 1 refused.
CollidesByTagOrRoot(h, account) ==
  \/ \E a \in Accounts(h) : a.tag = account.tag
  \/ account.kind = "imported" /\ account.root \in ImportedRoots(h)

Collides(h, account) ==
  \/ \E a \in Accounts(h) : a.tag = account.tag
  \/ account.kind = "imported" /\ account.root \in ImportedRoots(h)
  \/ \E a \in Accounts(h) : a.stream = RecomputedStreamId(h, account)

Add(d, account) ==
  /\ IsLive(d) /\ CanSeal
  /\ ~Collides(handle[d], account)
  /\ RecomputedStreamId(handle[d], account) # None
  /\ LET h == handle[d]
         slots == h.slots \cup {Slot(account, None, None)}
     IN  Commit(d, Sealing(h, slots, h.master),
                [h EXCEPT !.generation = @ + 1, !.slots = slots])
  /\ UNCHANGED <<opens, reserved>>

Replaced(slots, slot, account, pending, settled) ==
  (slots \ {slot}) \cup {Slot(account, pending, settled)}

\* advance_committed and persist_settled: one slot of the live state becomes
\* another, on disk and then in memory.
CommitSlot(d, slot, account, pending, settled) ==
  LET h == handle[d]
      slots == Replaced(h.slots, slot, account, pending, settled)
  IN  Commit(d, Sealing(h, slots, h.master),
             [h EXCEPT !.generation = @ + 1, !.slots = slots])

PersistAdvance(d, slot, figures) ==
  /\ slot.pending = None
  /\ slot.account.wots < MaxPosition
  /\ LET at == slot.account.wots
         block == [spent |-> at, digest |-> Digest, figures |-> figures]
     IN  /\ CommitSlot(d, slot, [slot.account EXCEPT !.wots = at + 1], block, None)
         /\ reserved' = reserved \cup
              {[tag |-> slot.account.tag, spent |-> at, digest |-> Digest,
                figures |-> figures]}
  /\ UNCHANGED opens

PersistAdvanceTo(d, slot, target) ==
  /\ slot.pending = None
  /\ target > slot.account.wots
  /\ CommitSlot(d, slot, [slot.account EXCEPT !.wots = target], None, None)
  /\ UNCHANGED <<opens, reserved>>

PersistSettled(d, slot) ==
  /\ slot.pending # None
  /\ CommitSlot(d, slot, slot.account, None, slot.pending)
  /\ UNCHANGED <<opens, reserved>>

\* The operator copies the file to another directory, or a backup over it.
Copy(from, to) ==
  /\ file[from] # NoFile /\ file[to] # file[from]
  /\ handle[from] = Closed /\ handle[to] = Closed
  /\ file' = [file EXCEPT ![to] = file[from]]
  /\ UNCHANGED <<handle, opens, sealed, reserved>>

\* One field of the file is not what was written.
Damages(f) ==
  LET H(g) == [f EXCEPT !.header = g]
      h    == f.header
  IN  {H([h EXCEPT !.magic = FALSE]), H([h EXCEPT !.kdfId = 2]),
       H([h EXCEPT !.salt = <<"other">>]), H([h EXCEPT !.nonce = <<"other">>])}
      \cup {H([h EXCEPT !.version = v]) : v \in 1..5}
      \cup {H([h EXCEPT !.kdf.m = m]) : m \in {MIN_M_COST - 1, MIN_M_COST, 2 * MAX_M_COST}}
      \cup {H([h EXCEPT !.kdf.t = t]) : t \in {0, 1}}
      \cup {H([h EXCEPT !.kdf.p = p]) : p \in {0, 2}}
      \cup {[f EXCEPT !.length = n] :
              n \in {0, TRAILER_LEN, f.length - 1, f.length + 1, MAX_IMAGE_LEN + 1}}

\* Bounds: the one file there is is damaged, and nothing is written after.
Undamaged == \A d \in Dirs : file[d] # NoFile => ~file[d].damaged

Damage(d) ==
  /\ file[d] # NoFile /\ handle[d] = Closed
  /\ \A e \in Dirs \ {d} : file[e] = NoFile /\ handle[e] = Closed
  /\ \E f \in Damages(file[d]) \ {file[d]} :
       file' = [file EXCEPT ![d] = [f EXCEPT !.damaged = TRUE]]
  /\ UNCHANGED <<handle, opens, sealed, reserved>>

Write(d) ==
  \/ Create(d) \/ Close(d) \/ AdoptMaster(d) \/ Damage(d)
  \/ \E account \in Offered : Add(d, account)
  \/ /\ IsLive(d) /\ CanSeal
     /\ \E slot \in handle[d].slots :
          \/ \E figures \in Figures : PersistAdvance(d, slot, figures)
          \/ \E target \in 1..MaxPosition : PersistAdvanceTo(d, slot, target)
          \/ PersistSettled(d, slot)
  \/ \E to \in Dirs \ {d} : Copy(d, to)

Read(d) == \E password \in {Password, Typo} : Open(d, password) \/ OpenRefused(d, password)

Next == \E d \in Dirs : (Undamaged /\ Write(d)) \/ Read(d)

Spec == Init /\ [][Next]_vars

-----------------------------------------------------------------------------
(* Properties.                                                              *)

TypeOK ==
  /\ \A d \in Dirs :
       /\ file[d] # NoFile => /\ file[d].length \in Nat
                              /\ file[d].header.version \in 1..5
       /\ handle[d].state \in {"closed", "poisoned", "live"}
       /\ IsLive(d) => /\ handle[d].onDisk \in {V3_VERSION, VERSION}
                       /\ handle[d].opened \in {V3_VERSION, VERSION}
                       /\ handle[d].master \in {None, Master}
                       /\ Count(handle[d].slots, handle[d].others) \in 0..MAX_ACCOUNTS
                       /\ \A slot \in handle[d].slots :
                            slot.account.wots \in 0..MaxPosition
  /\ opens \in 0..MaxOpens
  /\ Cardinality(sealed) <= MaxSeals

\* One key and one nonce seal one image, over every copy of a store, every
\* failed commit and every restart (crypt.rs, nonce_for; mod.rs, commit).
NonceSealsOneImage ==
  \A a, b \in sealed : a.key = b.key /\ a.nonce = b.nonce => a = b

\* What a build of this wallet wrote and nothing damaged is read back by the
\* key it was sealed with, up to the cap, and a live handle's memory is what
\* its file reads as (format.rs, encode and parse_with_key; mod.rs, commit).
WrittenImagesReadBack ==
  \A d \in Dirs :
    /\ file[d] # NoFile => (~file[d].damaged /\ file[d].box # None =>
         ParseWithKey(file[d], file[d].box.key).said = "parsed")
    /\ IsLive(d) =>
         LET parsed == ParseWithKey(file[d], handle[d].crypto.key)
         IN  /\ parsed.said = "parsed"
             /\ parsed.generation = handle[d].generation
             /\ parsed.slots = handle[d].slots
             /\ parsed.others = handle[d].others
             /\ parsed.master = handle[d].master
             /\ file[d].header.version = handle[d].onDisk

\* A block a file reads as was reserved with these figures, or with none by a
\* build that recorded none: no upgrade makes a figure up, and no change of
\* state alters one (format.rs, the version-3 arm; mod.rs, persist_settled).
BlocksAreAsReserved ==
  \A d \in Dirs : file[d] # NoFile /\ file[d].box # None =>
    LET parsed == ParseWithKey(file[d], file[d].box.key)
    IN  parsed.said = "parsed" =>
          \A slot \in parsed.slots : Block(slot) # None =>
            [tag |-> slot.account.tag, spent |-> Block(slot).spent,
             digest |-> Block(slot).digest, figures |-> Block(slot).figures]
              \in reserved

\* A refusal names an account only if the file has it: a sealed image whose
\* version word is damaged is not described by its salt
\* (format.rs, older_first_account).
RefusalNamesARealAccount ==
  \A d \in Dirs : file[d] # NoFile =>
    (ReadHeader(file[d]).first # None =>
       file[d].older # None /\ ReadHeader(file[d]).first = file[d].older.first)

\* Of a store that holds its master: an account made by its own derivation is
\* reached, and no key is reached by two accounts, forged records and roots
\* under other components included (mod.rs, add; sign.rs, key_at). A root that
\* is the master itself or the secret of one rotation is refused by nothing and
\* would share its keys; no entry offered here has one.
AccountsReachTheirOwnKeys ==
  \A d \in Dirs : IsLive(d) /\ handle[d].master # None =>
    LET h          == handle[d]
        Reached(a) == KeyIsReached(a, h.master, ImportedRoots(h))
        Honest(a)  == a.kind = "derived" => [a EXCEPT !.wots = 0] = Derive(h.master, a.index)
        Keys(a)    == {KeyAt(a, i, h.master) : i \in 0..MaxPosition}
    IN  /\ \A a \in Accounts(h) : Honest(a) => Reached(a)
        /\ \A a, b \in Accounts(h) :
             a # b /\ Reached(a) /\ Reached(b) => Keys(a) \cap Keys(b) = {}
=============================================================================
