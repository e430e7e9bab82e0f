---------------------------- MODULE DurableStore ----------------------------
(***************************************************************************)
(* What the keystore's commit promises, whatever the platform makes it of:  *)
(* one history of the store, which only grows, and of which everything a    *)
(* Durable was minted for is a part.                                        *)
(*                                                                          *)
(* An image of the store is the sequence of the changes that led to it, the *)
(* store's creation first; <<>> is no store.  Two images of which neither   *)
(* extends the other are two histories of one store, and a key reserved in  *)
(* the one is unused in the other.                                          *)
(***************************************************************************)
EXTENDS Naturals, Sequences, SequencesExt

CONSTANT Changes

VARIABLES
  kept,      \* the image a restart is sure to find, or an extension of it
  attested   \* the images a Durable was minted for

Init ==
  /\ kept = <<>>
  /\ attested = {}

\* A commit makes its image the kept one and may say so; a crash may leave an
\* image kept that nobody was told of, and a step of the store that is not
\* its last changes nothing here.
Commit ==
  /\ kept' \in Seq(Changes)
  /\ IsPrefix(kept, kept')
  /\ attested' \in {attested, attested \cup {kept'}}

Spec == Init /\ [][Commit]_<<kept, attested>>

\* What was attested is never taken back.
AttestedKept == \A i \in attested : IsPrefix(i, kept)

\* No two attested images are of different histories.
OneHistory ==
  \A i, j \in attested : IsPrefix(i, j) \/ IsPrefix(j, i)

=============================================================================
