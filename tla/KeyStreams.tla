------------------------------ MODULE KeyStreams ------------------------------
(***************************************************************************)
(* Accounts and the keys they sign with: derive.rs, account.rs and the key  *)
(* half of keystore/sign.rs, as operators.                                  *)
(*                                                                          *)
(* A hash is what it is of.  A 32-byte seed is the path that made it: the   *)
(* name it was drawn under, then the index of every deriveSeed on the way;  *)
(* the generator deriveSeed leaves behind is named by the same path.  A key *)
(* is its secret and the public components it was generated from, and a tag *)
(* or a stream identity, being the hash of a public key, is the key.        *)
(***************************************************************************)
EXTENDS Naturals, Sequences

CONSTANT None     \* an absent option

\* derive_seed: the secret the fresh generator gives first, and the generator.
DeriveSeed(seed, id) == [secret |-> Append(seed, id), prng |-> Append(seed, id)]

\* first_key: the components are the next bytes of that generator.
FirstKey(derived) == [secret |-> derived.secret, public |-> derived.prng]

FirstKeyFromComponents(secret, components) ==
  [secret |-> secret, public |-> components]

TagOf(key) == key

DeriveWotsKey(seed, rotation) == FirstKey(DeriveSeed(seed, rotation))

\* The identity of a stream is its rotation 0, the first key that is a
\* function of the seed alone.
StreamId(seed) == TagOf(DeriveWotsKey(seed, 0))

DeriveAccount(master, index) ==
  LET derived == DeriveSeed(master, index)
      first   == FirstKey(derived)
  IN  [tag |-> TagOf(first), seed |-> derived.secret, first |-> first]

-----------------------------------------------------------------------------
(* KeyMaterial: a derived account has an index and no root, an imported one *)
(* a root and the components of its first key.                              *)

Derived(tag, index, stream, wots) ==
  [kind |-> "derived", tag |-> tag, index |-> index,
   root |-> None, first |-> None, stream |-> stream, wots |-> wots]

Imported(tag, root, first, stream, wots) ==
  [kind |-> "imported", tag |-> tag, index |-> None,
   root |-> root, first |-> first, stream |-> stream, wots |-> wots]

\* A seed as the path that made it.
IsPath(seed) == Len(seed) \in Nat /\ seed = [i \in 1 .. Len(seed) |-> seed[i]]

\* The fields of either.
IsAccount(a) ==
  /\ a = [kind |-> a.kind, tag |-> a.tag, index |-> a.index, root |-> a.root,
          first |-> a.first, stream |-> a.stream, wots |-> a.wots]
  /\ a.wots \in Nat
  /\ a.kind = "derived" \/ (a.kind = "imported" /\ IsPath(a.root))

Derive(master, index) ==
  LET account == DeriveAccount(master, index)
  IN  Derived(account.tag, index, StreamId(account.seed), 0)

ImportedParts(root, components) ==
  LET key == FirstKeyFromComponents(root, components)
  IN  [pk |-> key, tag |-> TagOf(key)]

\* A backup entry is a root and a first address: a public key and the
\* components after it.  Account::import refuses a key the root does not give.
CanImport(entry) == ImportedParts(entry.root, entry.components).pk = entry.pk

Import(entry) ==
  Imported(ImportedParts(entry.root, entry.components).tag, entry.root,
           entry.components, StreamId(entry.root), 0)

\* restore_from_record: what an imported record can be checked for without
\* the master, it is.
Restores(record) ==
  record.kind = "imported" =>
    /\ ImportedParts(record.root, record.first).tag = record.tag
    /\ StreamId(record.root) = record.stream

-----------------------------------------------------------------------------
(* Keystore::key_at under the master or the stored root.                    *)

\* The master derives this account, its seed is no imported root beside it,
\* and the stored identity is the seed's.
KeyIsReached(account, master, roots) ==
  account.kind = "derived" =>
    /\ master # None
    /\ LET derived == DeriveAccount(master, account.index)
       IN  /\ derived.tag = account.tag
           /\ derived.seed \notin roots
           /\ StreamId(derived.seed) = account.stream

KeyAt(account, position, master) ==
  LET seed == IF account.kind = "derived"
              THEN DeriveAccount(master, account.index).seed
              ELSE account.root
  IN  IF position > 0 THEN DeriveWotsKey(seed, position - 1)
      ELSE IF account.kind = "derived"
           THEN DeriveAccount(master, account.index).first
           ELSE FirstKeyFromComponents(seed, account.first)
=============================================================================
