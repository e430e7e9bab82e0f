----------------------------- MODULE MCStoreImage -----------------------------
EXTENDS StoreImage, TLC

MCSymmetry == Permutations(Dirs)

MCMaster == <<"master">>
MCFigures == {[balance |-> 1, live |-> 2]}

\* Backup entries: the seed of account 0 under its own first address and under
\* another, a root from elsewhere under two, and one that does not verify.
Entry(root, components) ==
  [root |-> root, components |-> components,
   pk |-> FirstKeyFromComponents(root, components)]
Entries ==
  LET seed == DeriveAccount(MCMaster, 0).seed
  IN  {Entry(seed, seed), Entry(seed, <<"junk">>),
       Entry(<<"root">>, <<"first">>), Entry(<<"root">>, <<"junk">>),
       [Entry(<<"bad">>, <<"first">>) EXCEPT !.pk.secret = <<"other">>]}

\* What `add` may be called with: accounts of the master, of another master,
\* a record with a false identity, and the entries.
MCOffered ==
  {Derive(MCMaster, 0), Derive(MCMaster, 1), Derive(<<"other">>, 0),
   [Derive(MCMaster, 0) EXCEPT !.stream = StreamId(<<"forged">>)]}
  \cup {Import(e) : e \in {e \in Entries : CanImport(e)}}
=============================================================================
