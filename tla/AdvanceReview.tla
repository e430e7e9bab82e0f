---------------------------- MODULE AdvanceReview ----------------------------
(***************************************************************************)
(* `reconcile <tag> --advance-to N`: every account of the store is compared *)
(* with the ledger, a diverged one's position is searched for, and the      *)
(* named account is advanced if the report, and a second comparison at the  *)
(* write, put the ledger at exactly N.  The review can be cancelled from    *)
(* outside at any moment; the ledger moves while it runs.                   *)
(*                                                                          *)
(* Sources: cli/reconcile.rs (review_asking), recon.rs (the comparison, the *)
(* walk, the guarded advance, Cancel).  The store's lock is held all along: *)
(* nothing else writes it.                                                  *)
(***************************************************************************)
EXTENDS Integers, Sequences, SequencesExt, FiniteSetsExt

CONSTANTS
  Tags,           \* the store's accounts, a sequence in tag order
  None,           \* no window, no local index, no report
  MaxIndex,       \* the last key position: u32::MAX in the code
  Window,         \* DIVERGENCE_WINDOW, 20 in the code
  Ceiling,        \* RECOVERY_CEILING, 10000 in the code
  StartIndexes    \* where the records and the ledger may begin

Accounts == Range(Tags)
Positions == 0 .. MaxIndex

\* The account the command names is one of the store's.
ASSUME ReviewAssumption ==
  /\ MaxIndex \in Nat \ {0}
  /\ Window \in Nat
  /\ Ceiling \in Positions
  /\ StartIndexes \subseteq Positions
  /\ None \notin Nat \cup Accounts
  /\ Tags \in Seq(Accounts) /\ Len(Tags) > 0 /\ IsInjective(Tags)

VARIABLES
  disk,      \* per account, its index and whether a reservation is open
  key,       \* per account, the key position the ledger holds its tag at
  pc,        \* where the review is
  named,     \* the account and the index the operator typed
  turn,      \* how many accounts have been compared
  reports,   \* per account, what the comparison said of it
  walk,      \* the search in progress
  cancel,    \* the caller's Cancel: never asked, off, raised, or raised once
             \* and cleared by the asking that heard it
  heard,     \* whether an asking of this call was told to stop (history)
  before,    \* the disk as the call found it (history)
  result     \* the last call's

vars == <<disk, key, pc, named, turn, reports, walk, cancel, heard, before, result>>

Report ==
  [kind : {"Reconciled", "TagUnresolved", "ChainUnreachable"}, found : {None}, at : {0}]
    \cup
  [kind : {"IndexMismatch", "ReservationUnexplained"},
   found : {"Ahead", "Behind", "Unlocated"}, at : Positions]

Record == {r \in [wots_index : Positions, pending : BOOLEAN] : r.pending => r.wots_index > 0}

NoWalk == [kind |-> "none"]

Init ==
  /\ disk \in [Accounts -> {r \in Record : r.wots_index \in StartIndexes}]
  /\ key \in [Accounts -> StartIndexes]
  /\ pc = "idle"
  /\ named = [tag |-> Tags[1], advance_to |-> 0]
  /\ turn = 0
  /\ reports = [a \in Accounts |-> None]
  /\ walk = NoWalk
  /\ cancel = "never"
  /\ heard = FALSE
  /\ before = disk
  /\ result = "none"

-----------------------------------------------------------------------------
(***************************************************************************)
(* Variants: what a plausible mistake would make of the definition named    *)
(* beside each.                                                             *)
(***************************************************************************)

\* of Shared: the window and the range are counted twice where they overlap.
CountedTwice(scope, lo, hi) == 0

\* of Elsewhere: an account not yet reconciled is not looked at.
ElsewhereFirst == {a \in {Tags[1]} \ {named.tag} : reports[a].kind = "ReservationUnexplained"}

\* of Matches: any acknowledged position ahead is as good.
MatchesAhead(report) == report.kind = "IndexMismatch" /\ report.found = "Ahead"

-----------------------------------------------------------------------------
(* The positions a search walks: the window around the local index, first,  *)
(* then the range below the ceiling without it.                             *)

SaturatingSub(m, n) == IF m < n THEN 0 ELSE m - n
SaturatingAdd(m, n) == IF m + n > MaxIndex THEN MaxIndex ELSE m + n

Scope(window, ceiling) == [window |-> window, ceiling |-> ceiling]
DIAGNOSTIC == Scope(Window, Ceiling)
RESTORE == Scope(None, Ceiling)
ScopeTo(to) == [DIAGNOSTIC EXCEPT !.ceiling = SaturatingAdd(to, 1)]

\* The high edge stops one short of the last position.
HighEdge(local, window) == Min({SaturatingAdd(local, window), MaxIndex - 1})

InWindow(scope, local) ==
  IF scope.window = None \/ local = None THEN {}
  ELSE SaturatingSub(local, scope.window) .. HighEdge(local, scope.window)

\* The members of S, as an iterator over a range and its filter yield them.
Ascending(S) ==
  CHOOSE s \in [1 .. Cardinality(S) -> S] :
    \A i, j \in DOMAIN s : i < j => s[i] < s[j]

PositionsOf(scope, local) ==
  LET window == InWindow(scope, local)
      below  == 0 .. scope.ceiling - 1
  IN  Ascending(window) \o Ascending(below \ window)

\* How many positions that is, counted from the edges.
Shared(scope, lo, hi) ==
  IF scope.ceiling = 0 THEN 0
  ELSE SaturatingSub(Min({hi, scope.ceiling - 1}) + 1, lo)

Reach(scope, local) ==
  IF scope.window = None \/ local = None THEN scope.ceiling
  ELSE LET lo == SaturatingSub(local, scope.window)
           hi == HighEdge(local, scope.window)
       IN  Min({SaturatingSub(hi + 1, lo) + scope.ceiling - Shared(scope, lo, hi), MaxIndex})

-----------------------------------------------------------------------------
(* The comparison of one account with the ledger. *)

\* A node's answers: the entry, "not found" (which it also says of an empty
\* account and of a failed lookup), or none.
Answers(a) == {"not_found", "unreachable", "entry"}

Compared(a, answer) ==
  LET rec == disk[a] IN
  CASE answer = "not_found"   -> "TagUnresolved"
    [] answer = "unreachable" -> "ChainUnreachable"
    [] answer = "entry" /\ ~rec.pending ->
         IF key[a] = rec.wots_index THEN "Reconciled" ELSE "IndexMismatch"
    [] answer = "entry" /\ rec.pending ->
         IF key[a] \in {rec.wots_index - 1, rec.wots_index} THEN "Reconciled"
         ELSE "ReservationUnexplained"

Without(kind) == [kind |-> kind, found |-> None, at |-> 0]

\* A report that needs no search is complete; the others start one.
Searched(kind) == kind \in {"IndexMismatch", "ReservationUnexplained"}

Located(a, kind, p) ==
  [kind |-> kind, found |-> IF p > disk[a].wots_index THEN "Ahead" ELSE "Behind", at |-> p]
Unlocated(kind) == [kind |-> kind, found |-> "Unlocated", at |-> 0]

Search(a, kind, scope) ==
  [kind |-> kind, sought |-> key[a], left |-> PositionsOf(scope, disk[a].wots_index)]

-----------------------------------------------------------------------------
(* Cancel: asked between the steps and before each position of a search. *)

Ask(stop) ==
  /\ stop = (cancel = "raised")
  /\ cancel' \in IF stop THEN {"raised", "cleared"} ELSE {cancel}
  /\ heard' = (heard \/ stop)

\* `remembered`: whether the search heard a stop, not asked again.
Remembered(stopped) == stopped

Ends(r) == pc' = "idle" /\ result' = r

-----------------------------------------------------------------------------
(* The review. *)

Start(a, to, c) ==
  /\ pc = "idle"
  /\ pc' = "asking"
  /\ named' = [tag |-> a, advance_to |-> to]
  /\ turn' = 0
  /\ reports' = [b \in Accounts |-> None]
  /\ walk' = NoWalk
  /\ cancel' = c
  /\ heard' = FALSE
  /\ before' = disk
  /\ result' = "none"
  /\ UNCHANGED <<disk, key>>

\* Asked before each account.
AskBefore ==
  /\ pc = "asking"
  /\ turn < Len(Tags)
  /\ \E stop \in BOOLEAN :
       /\ Ask(stop)
       /\ IF stop THEN Ends("cancelled") ELSE pc' = "comparing" /\ UNCHANGED result
  /\ UNCHANGED <<disk, key, named, turn, reports, walk, before>>

Current == Tags[turn + 1]
ScopeOf(a) == IF a = named.tag THEN ScopeTo(named.advance_to) ELSE DIAGNOSTIC

\* The account's report is in; the next one's turn.
Reported(report) ==
  /\ reports' = [reports EXCEPT ![Current] = report]
  /\ turn' = turn + 1
  /\ walk' = NoWalk
  /\ pc' = "asking"

Compare ==
  /\ pc = "comparing"
  /\ \E answer \in Answers(Current) :
       LET kind == Compared(Current, answer) IN
       \/ /\ Searched(kind)
          /\ walk' = Search(Current, kind, ScopeOf(Current))
          /\ pc' = "searching"
          /\ UNCHANGED <<reports, turn>>
       \/ /\ ~Searched(kind)
          /\ Reported(Without(kind))
  /\ UNCHANGED <<disk, key, named, cancel, heard, before, result>>

\* One position: asked first, then derived and compared.
SearchOn ==
  /\ pc = "searching"
  /\ \/ /\ walk.left = <<>>
        /\ Reported(Unlocated(walk.kind))
        /\ UNCHANGED <<cancel, heard, result>>
     \/ /\ walk.left # <<>>
        /\ Ask(TRUE)
        /\ Ends("cancelled")
        /\ walk' = NoWalk
        /\ UNCHANGED <<reports, turn>>
     \/ /\ walk.left # <<>>
        /\ Ask(FALSE)
        /\ IF Head(walk.left) = walk.sought
           THEN Reported(Located(Current, walk.kind, walk.sought))
           ELSE walk' = [walk EXCEPT !.left = Tail(@)] /\ UNCHANGED <<reports, turn, pc>>
        /\ UNCHANGED result
  /\ UNCHANGED <<disk, key, named, before>>

\* The other accounts a second wallet on this seed shows at.
Elsewhere == {a \in Accounts \ {named.tag} : reports[a].kind = "ReservationUnexplained"}

\* advance_target, and the index the operator typed.
AdvanceTarget(report) == report.kind = "IndexMismatch" /\ report.found = "Ahead"
Matches(report) == AdvanceTarget(report) /\ report.at = named.advance_to

Decide ==
  /\ pc = "asking"
  /\ turn = Len(Tags)
  /\ LET report == reports[named.tag] IN
     \/ report.kind = "Reconciled" /\ Ends("nothing to reconcile")
     \/ report.kind # "Reconciled" /\ Elsewhere # {} /\ Ends("second instance")
     \/ /\ report.kind # "Reconciled" /\ Elsewhere = {} /\ ~Matches(report)
        /\ Ends("no advance")
     \/ /\ Elsewhere = {} /\ Matches(report)
        /\ pc' = "deciding" /\ UNCHANGED result
  /\ UNCHANGED <<disk, key, named, turn, reports, walk, cancel, heard, before>>

\* Asked before the second comparison.
AskAgain ==
  /\ pc = "deciding"
  /\ \E stop \in BOOLEAN :
       /\ Ask(stop)
       /\ IF stop THEN Ends("cancelled") ELSE pc' = "rechecking" /\ UNCHANGED result
  /\ UNCHANGED <<disk, key, named, turn, reports, walk, before>>

\* The comparison again; what it finds must be what was acknowledged.
Recheck ==
  /\ pc = "rechecking"
  /\ \E answer \in Answers(named.tag) :
       LET kind == Compared(named.tag, answer) IN
       \/ /\ Searched(kind)
          /\ walk' = Search(named.tag, kind, ScopeTo(named.advance_to))
          /\ pc' = "researching"
          /\ UNCHANGED result
       \/ /\ ~Searched(kind)
          /\ Ends("refused")
          /\ UNCHANGED walk
  /\ UNCHANGED <<disk, key, named, turn, reports, cancel, heard, before>>

\* A stop leaves the account unlocated, which no acknowledgement names: the
\* refusal is answered as a cancel because the search's stop is remembered.
SearchAgain ==
  /\ pc = "researching"
  /\ \/ /\ walk.left = <<>>
        /\ Ends("refused")
        /\ walk' = NoWalk
        /\ UNCHANGED <<cancel, heard>>
     \/ /\ walk.left # <<>>
        /\ Ask(TRUE)
        /\ IF Remembered(TRUE) THEN Ends("cancelled") ELSE Ends("refused")
        /\ walk' = NoWalk
     \/ /\ walk.left # <<>>
        /\ Ask(FALSE)
        /\ IF Head(walk.left) = walk.sought
           THEN /\ walk' = NoWalk
                /\ IF Matches(Located(named.tag, walk.kind, walk.sought))
                   THEN pc' = "matched" /\ UNCHANGED result
                   ELSE Ends("refused")
           ELSE walk' = [walk EXCEPT !.left = Tail(@)] /\ UNCHANGED <<pc, result>>
  /\ UNCHANGED <<disk, key, named, turn, reports, before>>

\* Variant of AskBeforeWrite: written, then asked.
AskAfterWrite ==
  /\ pc = "matched"
  /\ disk' = [disk EXCEPT ![named.tag].wots_index = named.advance_to]
  /\ \E stop \in BOOLEAN : Ask(stop) /\ Ends(IF stop THEN "cancelled" ELSE "advanced")
  /\ UNCHANGED <<key, named, turn, reports, walk, before>>

\* before_write: the last asking.
AskBeforeWrite ==
  /\ pc = "matched"
  /\ \E stop \in BOOLEAN :
       /\ Ask(stop)
       /\ IF stop THEN Ends("cancelled") ELSE pc' = "writing" /\ UNCHANGED result
  /\ UNCHANGED <<disk, key, named, turn, reports, walk, before>>

\* persist_advance_to: no open reservation, strictly ahead, one commit; a
\* failed one has written or not.
PersistAdvanceTo ==
  /\ pc = "writing"
  /\ ~disk[named.tag].pending
  /\ named.advance_to > disk[named.tag].wots_index
  /\ LET advanced == [disk EXCEPT ![named.tag].wots_index = named.advance_to] IN
     \/ disk' = advanced /\ Ends("advanced")
     \/ disk' \in {disk, advanced} /\ Ends("failed")
  /\ UNCHANGED <<key, named, turn, reports, walk, cancel, heard, before>>

-----------------------------------------------------------------------------
(* Not this repository's code: the caller and the ledger. *)

Raise ==
  /\ cancel = "off"
  /\ cancel' = "raised"
  /\ UNCHANGED <<disk, key, pc, named, turn, reports, walk, heard, before, result>>

\* A spend by another copy of the seed, or a reverted one.
LedgerMoves(a) ==
  /\ \E p \in {key[a] + 1, key[a] - 1} \cap Positions : key' = [key EXCEPT ![a] = p]
  /\ UNCHANGED <<disk, pc, named, turn, reports, walk, cancel, heard, before, result>>

-----------------------------------------------------------------------------
Next ==
  \/ \E a \in Accounts, to \in 0 .. MaxIndex - 1, c \in {"never", "off"} : Start(a, to, c)
  \/ AskBefore \/ Compare \/ SearchOn \/ Decide
  \/ AskAgain \/ Recheck \/ SearchAgain \/ AskBeforeWrite \/ PersistAdvanceTo
  \/ Raise
  \/ \E a \in Accounts : LedgerMoves(a)

Spec == Init /\ [][Next]_vars

-----------------------------------------------------------------------------
(* Properties. *)

\* Every variable has its type.
TypeOK ==
  /\ disk \in [Accounts -> Record]
  /\ key \in [Accounts -> Positions]
  /\ pc \in {"idle", "asking", "comparing", "searching", "deciding", "rechecking",
             "researching", "matched", "writing"}
  /\ named \in [tag : Accounts, advance_to : 0 .. MaxIndex - 1]
  /\ turn \in 0 .. Len(Tags)
  /\ reports \in [Accounts -> Report \cup {None}]
  /\ walk # NoWalk <=> pc \in {"searching", "researching"}
  /\ cancel \in {"never", "off", "raised", "cleared"}
  /\ heard \in BOOLEAN
  /\ before \in [Accounts -> Record]

\* A stop is answered as a stop and writes nothing, wherever in the review, the
\* two searches or the last asking it was heard: no call that heard one reports
\* a finding or a refusal of its own making, even from a Cancel that says so
\* only once (cli/reconcile.rs, review_asking; recon.rs, remembered).
StopWritesNothing ==
  /\ heard => result = "cancelled"
  /\ result = "cancelled" => disk = before

\* Nothing is advanced while another account of the store, before or after the
\* named one in tag order, shows a spend this wallet did not make.
NoAdvanceBesideASecondWallet ==
  disk # before =>
    \A a \in Accounts \ {named.tag} : reports[a].kind # "ReservationUnexplained"

\* An advance is of the named account alone, to the index typed, ahead of where
\* it was, and that index is what the whole store's report put the ledger at.
AdvanceIsAcknowledged ==
  disk # before =>
    /\ disk = [before EXCEPT ![named.tag].wots_index = named.advance_to]
    /\ disk[named.tag].wots_index > before[named.tag].wots_index
    /\ reports[named.tag] =
         [kind |-> "IndexMismatch", found |-> "Ahead", at |-> named.advance_to]

\* Around the index of any account a review begins with, and around none: a
\* search walks every position of its scope once and the last position never,
\* and the count told to the operator is the count of the positions.
ScopeIsSearchedOnce ==
  pc = "asking" /\ turn = 0 =>
    \A window \in Positions \cup {None}, ceiling \in Positions,
       local \in {disk[named.tag].wots_index, None} :
      LET scope == Scope(window, ceiling)
          walked == PositionsOf(scope, local)
      IN  /\ IsInjective(walked)
          /\ MaxIndex \notin Range(walked)
          /\ 0 .. ceiling - 1 \subseteq Range(walked)
          /\ Len(walked) = Reach(scope, local)

=============================================================================
