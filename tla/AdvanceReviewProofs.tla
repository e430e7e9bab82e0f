-------------------------- MODULE AdvanceReviewProofs --------------------------
(***************************************************************************)
(* The reviewed advance, for every store and every ledger: a stop writes    *)
(* nothing, nothing is advanced beside a second wallet, an advance is the   *)
(* acknowledged one, and a search walks each position of its scope once.    *)
(***************************************************************************)
EXTENDS AdvanceReview, SequenceTheorems, FiniteSetTheorems, TLAPS

-----------------------------------------------------------------------------
(* The store's accounts and what is said of them. *)

\* Each turn is of an account of the store.
LEMMA TurnsAreAccounts ==
  /\ Len(Tags) \in Nat
  /\ 1 \in 1 .. Len(Tags)
  /\ \A i \in 1 .. Len(Tags) : Tags[i] \in Accounts
  /\ \A a \in Accounts : \E i \in 1 .. Len(Tags) : Tags[i] = a
  BY ReviewAssumption, LenProperties DEF Accounts, Range

\* The comparison has one of five answers, and a search is of two of them.
LEMMA FiveKinds ==
  ASSUME NEW a, NEW answer \in Answers(a)
  PROVE  /\ Compared(a, answer) \in
              {"Reconciled", "TagUnresolved", "ChainUnreachable",
               "IndexMismatch", "ReservationUnexplained"}
         /\ Searched(Compared(a, answer)) <=>
              Compared(a, answer) \in {"IndexMismatch", "ReservationUnexplained"}
         /\ ~Searched(Compared(a, answer)) => Without(Compared(a, answer)) \in Report
  BY DEF Answers, Compared, Searched, Without, Report

\* A search ends in a report.
LEMMA SearchesEnd ==
  ASSUME NEW kind \in {"IndexMismatch", "ReservationUnexplained"},
         NEW p \in Positions, NEW a
  PROVE  Located(a, kind, p) \in Report /\ Unlocated(kind) \in Report
  BY ReviewAssumption DEF Located, Unlocated, Report, Positions

\* What was acknowledged: the ledger ahead of the record, at the index typed.
Acknowledged == [kind |-> "IndexMismatch", found |-> "Ahead", at |-> named.advance_to]

\* A report that matches says exactly that.
LEMMA MatchIsAcknowledged ==
  ASSUME NEW report \in Report, Matches(report)
  PROVE  report = Acknowledged
  BY DEF Matches, AdvanceTarget, Report, Acknowledged

-----------------------------------------------------------------------------
(* The invariant. *)

\* Past the report of the whole store.
Decided == {"deciding", "rechecking", "researching", "matched", "writing"}

\* A search is of an account that has diverged.
WalkInv ==
  walk # NoWalk =>
    /\ walk = [kind |-> walk.kind, sought |-> walk.sought, left |-> walk.left]
    /\ walk.kind \in {"IndexMismatch", "ReservationUnexplained"}
    /\ walk.sought \in Positions

\* The reports are in up to the turn.
TurnInv ==
  /\ pc \in {"comparing", "searching"} => turn < Len(Tags)
  /\ \A i \in 1 .. turn : reports[Tags[i]] \in Report

\* A stop that was heard ended the call; a call that goes on has written
\* nothing, nor has one that was cancelled.
StopInv ==
  /\ heard => pc = "idle" /\ result = "cancelled"
  /\ pc # "idle" \/ result = "cancelled" => disk = before

\* Past the report, and in what was written, the report allows it.
AdvanceInv ==
  /\ pc \in Decided \/ disk # before =>
       Elsewhere = {} /\ reports[named.tag] = Acknowledged
  /\ disk # before =>
       /\ disk = [before EXCEPT ![named.tag].wots_index = named.advance_to]
       /\ named.advance_to > before[named.tag].wots_index

ReviewInv == TypeOK /\ WalkInv /\ TurnInv /\ StopInv /\ AdvanceInv

-----------------------------------------------------------------------------
(* The steps. *)

\* While the call goes on no asking has been told to stop; the next one says.
LEMMA AskingIsHeard ==
  ASSUME TypeOK, StopInv, pc # "idle", NEW stop \in BOOLEAN, Ask(stop)
  PROVE  /\ heard' = stop
         /\ cancel' \in {"never", "off", "raised", "cleared"}
  BY DEF TypeOK, StopInv, Ask

\* A step that moves neither the records, the command nor the reports.
Untouched == UNCHANGED <<disk, key, named, turn, reports, before>>

\* The call ends at a stop that was heard.
LEMMA CallIsCancelled ==
  ASSUME ReviewInv, pc # "idle", Untouched, walk' = NoWalk,
         Ask(TRUE), Ends("cancelled")
  PROVE  ReviewInv'
<1>1. heard' = TRUE /\ cancel' \in {"never", "off", "raised", "cleared"}
  BY AskingIsHeard DEF ReviewInv
<1>2. TypeOK'
  BY <1>1 DEF ReviewInv, TypeOK, Untouched, Ends
<1>3. disk' = before'
  BY DEF ReviewInv, StopInv, Untouched
<1>4. WalkInv' /\ TurnInv' /\ StopInv' /\ AdvanceInv'
  BY <1>1, <1>3 DEF ReviewInv, WalkInv, TurnInv, StopInv, AdvanceInv,
     Untouched, Ends, Decided
<1>5. QED
  BY <1>2, <1>4 DEF ReviewInv

\* The call ends without a stop and writes nothing.
LEMMA CallEnds ==
  ASSUME ReviewInv, pc # "idle", Untouched, walk' = NoWalk,
         heard' = FALSE, cancel' \in {"never", "off", "raised", "cleared"},
         NEW r, r # "cancelled", Ends(r)
  PROVE  ReviewInv'
<1>1. TypeOK'
  BY DEF ReviewInv, TypeOK, Untouched, Ends
<1>2. disk' = before'
  BY DEF ReviewInv, StopInv, Untouched
<1>3. WalkInv' /\ TurnInv' /\ StopInv' /\ AdvanceInv'
  BY <1>2 DEF ReviewInv, WalkInv, TurnInv, StopInv, AdvanceInv,
     Untouched, Ends, Decided
<1>4. QED
  BY <1>1, <1>3 DEF ReviewInv

\* The call goes on to a place of the same side of the report.
LEMMA CallGoesOn ==
  ASSUME ReviewInv, pc # "idle", Untouched, UNCHANGED result,
         heard' = FALSE, cancel' \in {"never", "off", "raised", "cleared"},
         pc' \in {"asking", "comparing", "searching"} \cup Decided,
         pc' \in Decided => pc \in Decided \/ (Elsewhere = {} /\ reports[named.tag] = Acknowledged),
         pc' \in {"comparing", "searching"} => turn < Len(Tags),
         walk' # NoWalk <=> pc' \in {"searching", "researching"}, WalkInv'
  PROVE  ReviewInv'
<1>1. TypeOK'
  BY DEF ReviewInv, TypeOK, Untouched, Decided
<1>2. disk' = before' /\ pc' # "idle"
  BY DEF ReviewInv, StopInv, Untouched, Decided
<1>3. TurnInv' /\ StopInv'
  BY <1>2 DEF ReviewInv, TurnInv, StopInv, Untouched
<1>4. AdvanceInv'
  <2>1. Elsewhere' = Elsewhere /\ Acknowledged' = Acknowledged
    BY DEF Untouched, Elsewhere, Acknowledged
  <2>2. QED
    BY <1>2, <2>1 DEF ReviewInv, AdvanceInv, Untouched
<1>5. QED
  BY <1>1, <1>3, <1>4 DEF ReviewInv

\* An account's report is in and the next one's turn comes.
LEMMA ReportIsIn ==
  ASSUME ReviewInv, pc \in {"comparing", "searching"}, NEW report \in Report,
         Reported(report), UNCHANGED <<disk, key, named, before, result>>,
         heard' = FALSE, cancel' \in {"never", "off", "raised", "cleared"}
  PROVE  ReviewInv'
<1>1. /\ turn \in 0 .. Len(Tags) /\ turn < Len(Tags) /\ Current \in Accounts
      /\ Current = Tags[turn + 1] /\ turn' = turn + 1 /\ turn' \in 0 .. Len(Tags)
      /\ reports \in [Accounts -> Report \cup {None}]
      /\ reports' = [reports EXCEPT ![Current] = report]
      /\ pc' = "asking" /\ walk' = NoWalk
  BY TurnsAreAccounts DEF ReviewInv, TypeOK, TurnInv, Current, Reported
<1>2. TypeOK'
  BY <1>1 DEF ReviewInv, TypeOK
<1>3. disk' = before'
  BY DEF ReviewInv, StopInv
<1>4. \A i \in 1 .. turn' : reports'[Tags[i]] \in Report
  <2> SUFFICES ASSUME NEW i \in 1 .. turn'
               PROVE  reports'[Tags[i]] \in Report
    OBVIOUS
  <2>1. Tags[i] \in Accounts
    BY <1>1, TurnsAreAccounts
  <2>2. CASE Tags[i] = Current
    BY <1>1, <2>2
  <2>3. CASE Tags[i] # Current
    <3>1. i \in 1 .. turn
      BY <1>1, <2>3
    <3>2. QED
      BY <1>1, <2>1, <2>3, <3>1 DEF ReviewInv, TurnInv
  <2>4. QED
    BY <2>2, <2>3
<1>5. WalkInv' /\ TurnInv' /\ StopInv' /\ AdvanceInv'
  BY <1>1, <1>3, <1>4 DEF WalkInv, TurnInv, StopInv, AdvanceInv, Decided
<1>6. QED
  BY <1>2, <1>5 DEF ReviewInv

\* A new call finds no report and no stop.
LEMMA StartStep ==
  ASSUME ReviewInv, NEW a \in Accounts, NEW to \in 0 .. MaxIndex - 1,
         NEW c \in {"never", "off"}, Start(a, to, c)
  PROVE  ReviewInv'
<1>1. TypeOK'
  <2>1. /\ named' \in [tag : Accounts, advance_to : 0 .. MaxIndex - 1]
        /\ turn' \in 0 .. Len(Tags)
        /\ reports' \in [Accounts -> Report \cup {None}]
    BY TurnsAreAccounts DEF Start
  <2>2. QED
    BY <2>1 DEF ReviewInv, TypeOK, Start
<1>2. WalkInv' /\ TurnInv' /\ StopInv' /\ AdvanceInv'
  BY TurnsAreAccounts DEF ReviewInv, WalkInv, TurnInv, StopInv, AdvanceInv,
     Start, Decided, TypeOK
<1>3. QED
  BY <1>1, <1>2 DEF ReviewInv

\* The three askings between the steps.
LEMMA AskSteps ==
  ASSUME ReviewInv, AskBefore \/ AskAgain \/ AskBeforeWrite
  PROVE  ReviewInv'
<1>1. PICK stop \in BOOLEAN :
        /\ Ask(stop)
        /\ IF stop THEN Ends("cancelled")
           ELSE /\ \/ pc = "asking" /\ turn < Len(Tags) /\ pc' = "comparing"
                   \/ pc = "deciding" /\ pc' = "rechecking"
                   \/ pc = "matched" /\ pc' = "writing"
                /\ UNCHANGED result
  BY DEF AskBefore, AskAgain, AskBeforeWrite
<1>2. /\ pc \in {"asking", "deciding", "matched"} /\ Untouched /\ walk' = walk
      /\ walk = NoWalk
  BY DEF AskBefore, AskAgain, AskBeforeWrite, Untouched, ReviewInv, TypeOK
<1>3. CASE stop = TRUE
  BY <1>1, <1>2, <1>3, CallIsCancelled
<1>4. CASE stop = FALSE
  <2>1. heard' = FALSE /\ cancel' \in {"never", "off", "raised", "cleared"}
    BY <1>1, <1>2, <1>4, AskingIsHeard DEF ReviewInv
  <2>2. WalkInv'
    BY <1>2 DEF WalkInv
  <2>3. QED
    BY <1>1, <1>2, <1>4, <2>1, <2>2, CallGoesOn DEF Decided
<1>5. QED
  BY <1>3, <1>4

\* What a search starts from.
LEMMA SearchBegins ==
  ASSUME TypeOK, NEW a \in Accounts,
         NEW kind \in {"IndexMismatch", "ReservationUnexplained"}, NEW scope,
         walk' = Search(a, kind, scope)
  PROVE  walk' # NoWalk /\ WalkInv'
<1>1. key[a] \in Positions
  BY DEF TypeOK
<1>2. /\ walk'.kind = kind /\ walk'.sought = key[a]
      /\ walk' = [kind |-> walk'.kind, sought |-> walk'.sought, left |-> walk'.left]
  BY DEF Search
<1>3. walk' # NoWalk
  BY <1>2 DEF NoWalk
<1>4. QED
  BY <1>1, <1>2, <1>3 DEF WalkInv

\* One account's comparison.
LEMMA CompareStep == ASSUME ReviewInv, Compare PROVE ReviewInv'
<1>1. PICK answer \in Answers(Current) :
        LET kind == Compared(Current, answer) IN
        \/ /\ Searched(kind)
           /\ walk' = Search(Current, kind, ScopeOf(Current))
           /\ pc' = "searching"
           /\ UNCHANGED <<reports, turn>>
        \/ /\ ~Searched(kind)
           /\ Reported(Without(kind))
  BY DEF Compare
<1>2. /\ UNCHANGED <<disk, key, named, cancel, heard, before, result>>
      /\ pc = "comparing" /\ turn < Len(Tags) /\ Current \in Accounts
      /\ heard' = FALSE /\ cancel' \in {"never", "off", "raised", "cleared"}
  BY TurnsAreAccounts DEF Compare, ReviewInv, TypeOK, TurnInv, StopInv, Current
<1> DEFINE kind == Compared(Current, answer)
<1>3. CASE /\ Searched(kind)
           /\ walk' = Search(Current, kind, ScopeOf(Current))
           /\ pc' = "searching" /\ UNCHANGED <<reports, turn>>
  <2>1. kind \in {"IndexMismatch", "ReservationUnexplained"}
    BY <1>3, FiveKinds
  <2>2. walk' # NoWalk /\ WalkInv'
    BY <1>2, <1>3, <2>1, SearchBegins DEF ReviewInv
  <2>3. Untouched
    BY <1>2, <1>3 DEF Untouched
  <2>4. QED
    BY <1>2, <1>3, <2>2, <2>3, CallGoesOn DEF Decided
<1>4. CASE ~Searched(kind) /\ Reported(Without(kind))
  <2>1. Without(kind) \in Report
    BY <1>4, FiveKinds
  <2>2. QED
    BY <1>2, <1>4, <2>1, ReportIsIn
<1>5. QED
  BY <1>1, <1>3, <1>4

\* What is left of a search of one position fewer.
LEMMA SearchGoesOn ==
  ASSUME WalkInv, walk # NoWalk, walk' = [walk EXCEPT !.left = Tail(@)]
  PROVE  walk' # NoWalk /\ WalkInv'
<1>1. /\ walk' = [kind |-> walk.kind, sought |-> walk.sought, left |-> Tail(walk.left)]
      /\ walk.kind \in {"IndexMismatch", "ReservationUnexplained"}
      /\ walk.sought \in Positions
  BY DEF WalkInv
<1>2. QED
  BY <1>1 DEF WalkInv, NoWalk

\* One position of an account's search.
LEMMA SearchOnStep == ASSUME ReviewInv, SearchOn PROVE ReviewInv'
<1>1. /\ UNCHANGED <<disk, key, named, before>> /\ pc = "searching" /\ heard = FALSE
      /\ walk # NoWalk /\ turn < Len(Tags)
      /\ cancel \in {"never", "off", "raised", "cleared"}
  BY DEF SearchOn, ReviewInv, TypeOK, StopInv, TurnInv
<1>2. /\ walk.kind \in {"IndexMismatch", "ReservationUnexplained"}
      /\ walk.sought \in Positions
  BY <1>1 DEF ReviewInv, WalkInv
<1>3. CASE /\ Reported(Unlocated(walk.kind))
           /\ UNCHANGED <<cancel, heard, result>>
  <2>1. Unlocated(walk.kind) \in Report
    BY <1>2, SearchesEnd
  <2>2. QED
    BY <1>1, <1>3, <2>1, ReportIsIn
<1>4. CASE Ask(TRUE) /\ Ends("cancelled") /\ walk' = NoWalk /\ UNCHANGED <<reports, turn>>
  BY <1>1, <1>4, CallIsCancelled DEF Untouched
<1>5. CASE /\ Ask(FALSE) /\ Reported(Located(Current, walk.kind, walk.sought))
           /\ UNCHANGED result
  <2>1. heard' = FALSE /\ cancel' \in {"never", "off", "raised", "cleared"}
    BY <1>1, <1>5, AskingIsHeard DEF ReviewInv
  <2>2. Located(Current, walk.kind, walk.sought) \in Report
    BY <1>2, SearchesEnd
  <2>3. QED
    BY <1>1, <1>5, <2>1, <2>2, ReportIsIn
<1>6. CASE /\ Ask(FALSE) /\ walk' = [walk EXCEPT !.left = Tail(@)]
           /\ UNCHANGED <<reports, turn, pc>> /\ UNCHANGED result
  <2>1. heard' = FALSE /\ cancel' \in {"never", "off", "raised", "cleared"}
    BY <1>1, <1>6, AskingIsHeard DEF ReviewInv
  <2>2. walk' # NoWalk /\ WalkInv'
    BY <1>1, <1>6, SearchGoesOn DEF ReviewInv
  <2>3. QED
    BY <1>1, <1>6, <2>1, <2>2, CallGoesOn DEF Untouched, Decided
<1>7. QED
  BY <1>3, <1>4, <1>5, <1>6 DEF SearchOn

\* The whole store's report is in.
LEMMA DecideStep == ASSUME ReviewInv, Decide PROVE ReviewInv'
<1>1. /\ Untouched /\ walk' = walk /\ walk = NoWalk /\ pc = "asking" /\ turn = Len(Tags)
      /\ heard' = FALSE /\ cancel' \in {"never", "off", "raised", "cleared"}
      /\ named.tag \in Accounts
  BY DEF Decide, Untouched, ReviewInv, TypeOK, StopInv
<1>2. reports[named.tag] \in Report
  BY <1>1, TurnsAreAccounts DEF ReviewInv, TurnInv
<1>3. CASE Ends("nothing to reconcile") \/ Ends("second instance") \/ Ends("no advance")
  BY <1>1, <1>3, CallEnds
<1>4. CASE /\ Elsewhere = {} /\ Matches(reports[named.tag])
           /\ pc' = "deciding" /\ UNCHANGED result
  <2>1. reports[named.tag] = Acknowledged
    BY <1>2, <1>4, MatchIsAcknowledged
  <2>2. WalkInv'
    BY <1>1 DEF WalkInv
  <2>3. QED
    BY <1>1, <1>4, <2>1, <2>2, CallGoesOn DEF Decided
<1>5. QED
  BY <1>3, <1>4 DEF Decide

\* The second comparison.
LEMMA RecheckStep == ASSUME ReviewInv, Recheck PROVE ReviewInv'
<1>1. /\ Untouched /\ walk = NoWalk /\ pc = "rechecking"
      /\ heard' = FALSE /\ cancel' \in {"never", "off", "raised", "cleared"}
      /\ named.tag \in Accounts
  BY DEF Recheck, Untouched, ReviewInv, TypeOK, StopInv
<1>2. PICK answer \in Answers(named.tag) :
        LET kind == Compared(named.tag, answer) IN
        \/ /\ Searched(kind)
           /\ walk' = Search(named.tag, kind, ScopeTo(named.advance_to))
           /\ pc' = "researching"
           /\ UNCHANGED result
        \/ /\ Ends("refused")
           /\ UNCHANGED walk
  BY DEF Recheck
<1> DEFINE kind == Compared(named.tag, answer)
<1>3. CASE /\ Searched(kind)
           /\ walk' = Search(named.tag, kind, ScopeTo(named.advance_to))
           /\ pc' = "researching" /\ UNCHANGED result
  <2>1. kind \in {"IndexMismatch", "ReservationUnexplained"}
    BY <1>3, FiveKinds
  <2>2. walk' # NoWalk /\ WalkInv'
    BY <1>1, <1>3, <2>1, SearchBegins DEF ReviewInv
  <2>3. QED
    BY <1>1, <1>3, <2>2, CallGoesOn DEF Decided
<1>4. CASE Ends("refused") /\ UNCHANGED walk
  BY <1>1, <1>4, CallEnds
<1>5. QED
  BY <1>2, <1>3, <1>4

\* One position of the second search.
LEMMA SearchAgainStep == ASSUME ReviewInv, SearchAgain PROVE ReviewInv'
<1>1. /\ Untouched /\ pc = "researching" /\ heard = FALSE /\ walk # NoWalk
      /\ cancel \in {"never", "off", "raised", "cleared"}
  BY DEF SearchAgain, Untouched, ReviewInv, TypeOK, StopInv
<1>2. CASE Ends("refused") /\ walk' = NoWalk /\ UNCHANGED <<cancel, heard>>
  BY <1>1, <1>2, CallEnds
<1>3. CASE Ask(TRUE) /\ Ends("cancelled") /\ walk' = NoWalk
  BY <1>1, <1>3, CallIsCancelled
<1>4. ASSUME Ask(FALSE)
      PROVE  heard' = FALSE /\ cancel' \in {"never", "off", "raised", "cleared"}
  BY <1>1, <1>4, AskingIsHeard DEF ReviewInv
<1>5. CASE Ask(FALSE) /\ walk' = NoWalk /\ pc' = "matched" /\ UNCHANGED result
  <2>1. WalkInv'
    BY <1>5 DEF WalkInv
  <2>2. QED
    BY <1>1, <1>4, <1>5, <2>1, CallGoesOn DEF Decided
<1>6. CASE Ask(FALSE) /\ walk' = NoWalk /\ Ends("refused")
  BY <1>1, <1>4, <1>6, CallEnds
<1>7. CASE Ask(FALSE) /\ walk' = [walk EXCEPT !.left = Tail(@)] /\ UNCHANGED <<pc, result>>
  <2>1. walk' # NoWalk /\ WalkInv'
    BY <1>1, <1>7, SearchGoesOn DEF ReviewInv
  <2>2. QED
    BY <1>1, <1>4, <1>7, <2>1, CallGoesOn DEF Decided
<1>8. QED
  BY <1>2, <1>3, <1>5, <1>6, <1>7 DEF SearchAgain, Remembered

\* The write: of the named account, to the index typed.
LEMMA PersistStep == ASSUME ReviewInv, PersistAdvanceTo PROVE ReviewInv'
<1> DEFINE a == named.tag
           advanced == [disk EXCEPT ![a].wots_index = named.advance_to]
<1>1. /\ a \in Accounts /\ named.advance_to \in Positions
      /\ disk \in [Accounts -> Record] /\ walk = NoWalk /\ heard = FALSE
      /\ disk = before /\ Elsewhere = {} /\ reports[a] = Acknowledged
      /\ ~disk[a].pending /\ named.advance_to > disk[a].wots_index /\ pc = "writing"
      /\ UNCHANGED <<key, named, turn, reports, walk, cancel, heard, before>>
  BY ReviewAssumption
     DEF PersistAdvanceTo, ReviewInv, TypeOK, StopInv, AdvanceInv, Decided, Positions
<1>2. advanced \in [Accounts -> Record]
  <2>1. disk[a] \in [wots_index : Positions, pending : BOOLEAN] /\ ~disk[a].pending
    BY <1>1 DEF Record
  <2>2. [disk[a] EXCEPT !.wots_index = named.advance_to] \in Record
    BY <1>1, <2>1 DEF Record
  <2>3. QED
    BY <1>1, <2>2
<1>3. disk' \in {disk, advanced} /\ pc' = "idle" /\ result' \in {"advanced", "failed"}
  BY DEF PersistAdvanceTo, Ends
<1>4. TypeOK'
  BY <1>1, <1>2, <1>3 DEF ReviewInv, TypeOK
<1>5. WalkInv' /\ TurnInv' /\ StopInv'
  BY <1>1, <1>3 DEF ReviewInv, WalkInv, TurnInv, StopInv
<1>6. AdvanceInv'
  <2>1. Elsewhere' = {} /\ reports'[named'.tag] = Acknowledged'
    BY <1>1 DEF Elsewhere, Acknowledged
  <2>2. QED
    BY <1>1, <1>3, <2>1 DEF AdvanceInv, Decided
<1>7. QED
  BY <1>4, <1>5, <1>6 DEF ReviewInv

\* The caller, the ledger, or nobody moves.
LEMMA OutsideStep ==
  ASSUME ReviewInv, Raise \/ (\E a \in Accounts : LedgerMoves(a)) \/ UNCHANGED vars
  PROVE  ReviewInv'
<1>1. /\ UNCHANGED <<disk, pc, named, turn, reports, walk, heard, before, result>>
      /\ cancel' \in {cancel, "raised"}
      /\ key' \in [Accounts -> Positions]
  BY DEF Raise, LedgerMoves, vars, ReviewInv, TypeOK
<1>2. TypeOK'
  BY <1>1 DEF ReviewInv, TypeOK
<1>3. WalkInv' /\ TurnInv' /\ StopInv' /\ AdvanceInv'
  BY <1>1 DEF ReviewInv, WalkInv, TurnInv, StopInv, AdvanceInv, Elsewhere, Acknowledged
<1>4. QED
  BY <1>2, <1>3 DEF ReviewInv

-----------------------------------------------------------------------------
(* What holds of the review. *)

\* The invariant.
THEOREM ReviewInvariant == Spec => []ReviewInv
<1>1. Init => ReviewInv
  <2> SUFFICES ASSUME Init
               PROVE  ReviewInv
    OBVIOUS
  <2>1. TypeOK
    <3>1. disk \in [Accounts -> Record] /\ key \in [Accounts -> Positions]
      BY ReviewAssumption DEF Init
    <3>2. /\ named \in [tag : Accounts, advance_to : 0 .. MaxIndex - 1]
          /\ turn \in 0 .. Len(Tags)
          /\ reports \in [Accounts -> Report \cup {None}]
      BY ReviewAssumption, TurnsAreAccounts DEF Init
    <3>3. QED
      BY <3>1, <3>2 DEF Init, TypeOK
  <2>2. WalkInv /\ TurnInv /\ StopInv /\ AdvanceInv
    BY TurnsAreAccounts DEF Init, WalkInv, TurnInv, StopInv, AdvanceInv, Decided
  <2>3. QED
    BY <2>1, <2>2 DEF ReviewInv
<1>2. ReviewInv /\ [Next]_vars => ReviewInv'
  <2> SUFFICES ASSUME ReviewInv, [Next]_vars
               PROVE  ReviewInv'
    OBVIOUS
  <2>1. CASE \E a \in Accounts, to \in 0 .. MaxIndex - 1, c \in {"never", "off"} : Start(a, to, c)
    BY <2>1, StartStep
  <2>2. CASE AskBefore \/ AskAgain \/ AskBeforeWrite
    BY <2>2, AskSteps
  <2>3. CASE Compare
    BY <2>3, CompareStep
  <2>4. CASE SearchOn
    BY <2>4, SearchOnStep
  <2>5. CASE Decide
    BY <2>5, DecideStep
  <2>6. CASE Recheck
    BY <2>6, RecheckStep
  <2>7. CASE SearchAgain
    BY <2>7, SearchAgainStep
  <2>8. CASE PersistAdvanceTo
    BY <2>8, PersistStep
  <2>9. CASE Raise \/ (\E a \in Accounts : LedgerMoves(a)) \/ UNCHANGED vars
    BY <2>9, OutsideStep
  <2>10. QED
    BY <2>1, <2>2, <2>3, <2>4, <2>5, <2>6, <2>7, <2>8, <2>9 DEF Next
<1>3. QED
  BY <1>1, <1>2, PTL DEF Spec

\* A stop heard anywhere in the review, from a Cancel that may say so only
\* once, is answered as a stop, and nothing is written.
THEOREM StopWritesNothingHolds == Spec => []StopWritesNothing
<1>1. ReviewInv => StopWritesNothing
  BY DEF ReviewInv, StopInv, StopWritesNothing
<1>2. QED
  BY <1>1, ReviewInvariant, PTL

\* Nothing is advanced while any other account of the store, in whatever order
\* they were compared, shows a spend this wallet did not make.
THEOREM NoAdvanceBesideASecondWalletHolds == Spec => []NoAdvanceBesideASecondWallet
<1>1. ReviewInv => NoAdvanceBesideASecondWallet
  BY DEF ReviewInv, AdvanceInv, NoAdvanceBesideASecondWallet, Elsewhere
<1>2. QED
  BY <1>1, ReviewInvariant, PTL

\* However the ledger moves between the report and the write, an advance is of
\* the named account alone, to the index typed and reported, and forward.
THEOREM AdvanceIsAcknowledgedHolds == Spec => []AdvanceIsAcknowledged
<1>1. ReviewInv => AdvanceIsAcknowledged
  <2> SUFFICES ASSUME ReviewInv, disk # before
               PROVE  /\ disk = [before EXCEPT ![named.tag].wots_index = named.advance_to]
                      /\ disk[named.tag].wots_index > before[named.tag].wots_index
                      /\ reports[named.tag] = Acknowledged
    BY DEF AdvanceIsAcknowledged, Acknowledged
  <2>1. /\ disk = [before EXCEPT ![named.tag].wots_index = named.advance_to]
        /\ named.advance_to > before[named.tag].wots_index
        /\ reports[named.tag] = Acknowledged
        /\ named.tag \in Accounts /\ before \in [Accounts -> Record]
    BY DEF ReviewInv, AdvanceInv, TypeOK
  <2>2. disk[named.tag].wots_index = named.advance_to
    BY <2>1 DEF Record
  <2>3. QED
    BY <2>1, <2>2
<1>2. QED
  BY <1>1, ReviewInvariant, PTL

-----------------------------------------------------------------------------
(* The positions of a search.                                               *)

\* The n members of S in order.
Enumerates(f, S, n) ==
  /\ f \in [1..n -> S]
  /\ \A i, j \in 1..n : i < j => f[i] < f[j]
  /\ \A x \in S : \E i \in 1..n : f[i] = x

\* Ascending lists the n members of S, each once.
Listed(S, n) ==
  /\ Ascending(S) \in Seq(S) /\ Len(Ascending(S)) = n
  /\ IsInjective(Ascending(S))
  /\ \A x \in S : \E i \in 1..n : Ascending(S)[i] = x

\* If the members of a set can be given in order at all, Ascending lists them.
LEMMA AscendingLists ==
  ASSUME NEW S, S \subseteq Int, NEW n \in Nat, NEW f, Enumerates(f, S, n)
  PROVE  Listed(S, n)
<1> USE DEF Enumerates
<1>1. \A i, j \in 1..n : f[i] = f[j] => i = j
  <2> SUFFICES ASSUME NEW i \in 1..n, NEW j \in 1..n, f[i] = f[j]
               PROVE  i = j
    OBVIOUS
  <2>1. f[i] \in Int /\ f[j] \in Int
    OBVIOUS
  <2>2. i < j \/ j < i \/ i = j
    OBVIOUS
  <2>3. QED
    BY <2>1, <2>2
<1>2. f \in Bijection(1..n, S)
  BY <1>1 DEF Bijection, Injection, Surjection, IsInjective
<1>3. /\ IsFiniteSet(1..n) /\ Cardinality(1..n) = n
  BY FS_Interval
<1>4. /\ IsFiniteSet(S) /\ Cardinality(S) = n
  BY <1>2, <1>3, FS_Bijection DEF ExistsBijection
<1> DEFINE s == Ascending(S)
<1>5. s \in [1..n -> S] /\ \A i, j \in 1..n : i < j => s[i] < s[j]
  <2>1. \E g \in [1..Cardinality(S) -> S] : \A i, j \in DOMAIN g : i < j => g[i] < g[j]
    BY <1>4
  <2>2. s \in [1..Cardinality(S) -> S] /\ \A i, j \in DOMAIN s : i < j => s[i] < s[j]
    BY <2>1 DEF Ascending
  <2>3. QED
    BY <2>2, <1>4
<1> HIDE DEF s
<1>6. \A i, j \in 1..n : s[i] = s[j] => i = j
  <2> SUFFICES ASSUME NEW i \in 1..n, NEW j \in 1..n, s[i] = s[j]
               PROVE  i = j
    OBVIOUS
  <2>1. s[i] \in Int /\ s[j] \in Int
    BY <1>5
  <2>2. i < j \/ j < i \/ i = j
    OBVIOUS
  <2>3. QED
    BY <1>5, <2>1, <2>2
<1>7. s \in Injection(1..n, S)
  BY <1>5, <1>6 DEF Injection, IsInjective
<1>8. s \in Surjection(1..n, S)
  BY <1>3, <1>4, <1>7, FS_Injection
<1>9. s \in Seq(S) /\ Len(s) = n /\ DOMAIN s = 1..n
  BY <1>5
<1>10. IsInjective(s)
  BY <1>6, <1>9 DEF IsInjective
<1>11. \A x \in S : \E i \in 1..n : s[i] = x
  BY <1>8 DEF Surjection
<1> QED
  BY <1>9, <1>10, <1>11 DEF s, Listed

\* An interval is listed, from the one edge to the other.
LEMMA WindowInOrder ==
  ASSUME NEW lo \in Nat, NEW hi \in Nat
  PROVE  Listed(lo..hi, IF lo <= hi THEN hi + 1 - lo ELSE 0)
<1> DEFINE n == IF lo <= hi THEN hi + 1 - lo ELSE 0
           f == [i \in 1..n |-> lo + i - 1]
<1>1. n \in Nat /\ f \in [1..n -> lo..hi] /\ lo..hi \subseteq Int
  OBVIOUS
<1>2. \A i, j \in 1..n : i < j => f[i] < f[j]
  OBVIOUS
<1>3. \A x \in lo..hi : \E i \in 1..n : f[i] = x
  <2> TAKE x \in lo..hi
  <2>1. x - lo + 1 \in 1..n /\ f[x - lo + 1] = x
    OBVIOUS
  <2>2. QED
    BY <2>1
<1> HIDE DEF n, f
<1>4. Enumerates(f, lo..hi, n)
  BY <1>1, <1>2, <1>3 DEF Enumerates
<1> QED
  BY <1>1, <1>4, AscendingLists DEF n

\* The range below the ceiling without the window is listed: what is left of
\* the window and what is right of it.
LEMMA RangeInOrder ==
  ASSUME NEW c \in Nat, NEW lo \in Nat, NEW hi \in Nat, lo <= hi + 1
  PROVE  Listed((0 .. c - 1) \ (lo .. hi),
                (IF lo <= c THEN lo ELSE c) + (IF hi + 1 <= c THEN c - (hi + 1) ELSE 0))
<1> DEFINE S == (0 .. c - 1) \ (lo .. hi)
           left == IF lo <= c THEN lo ELSE c
           right == IF hi + 1 <= c THEN c - (hi + 1) ELSE 0
           n == left + right
           f == [i \in 1..n |-> IF i <= left THEN i - 1 ELSE hi + i - left]
<1>1. n \in Nat /\ left \in Nat /\ right \in Nat /\ S \subseteq Int
  OBVIOUS
<1>2. f \in [1..n -> S]
  <2>1. ASSUME NEW i \in 1..n
        PROVE  (IF i <= left THEN i - 1 ELSE hi + i - left) \in S
    OBVIOUS
  <2>2. QED
    BY <2>1
<1>3. \A i, j \in 1..n : i < j => f[i] < f[j]
  OBVIOUS
<1>4. \A x \in S : \E i \in 1..n : f[i] = x
  <2> TAKE x \in S
  <2>1. CASE x < lo
    <3>1. x + 1 \in 1..n /\ f[x + 1] = x
      BY <2>1
    <3>2. QED
      BY <3>1
  <2>2. CASE ~(x < lo)
    <3>1. x > hi /\ x < c
      BY <2>2
    <3>2. x - hi + left \in 1..n /\ ~(x - hi + left <= left)
      BY <3>1
    <3>3. f[x - hi + left] = x
      BY <3>1, <3>2
    <3>4. QED
      BY <3>2, <3>3
  <2>3. QED
    BY <2>1, <2>2
<1> HIDE DEF f, S, n
<1>5. Enumerates(f, S, n)
  BY <1>2, <1>3, <1>4 DEF Enumerates
<1>6. Listed(S, n)
  BY <1>1, <1>5, AscendingLists
<1> QED
  BY <1>6 DEF n, S

\* Two lists with nothing in common, one after the other.
LEMMA JoinedInOrder ==
  ASSUME NEW S, NEW T, S \cap T = {},
         NEW m \in Nat, NEW n \in Nat, Listed(S, m), Listed(T, n)
  PROVE  /\ IsInjective(Ascending(S) \o Ascending(T))
         /\ Range(Ascending(S) \o Ascending(T)) = S \cup T
         /\ Len(Ascending(S) \o Ascending(T)) = m + n
<1> DEFINE s == Ascending(S)
           t == Ascending(T)
           st == s \o t
<1>0. /\ s \in Seq(S) /\ Len(s) = m /\ IsInjective(s)
      /\ t \in Seq(T) /\ Len(t) = n /\ IsInjective(t)
      /\ \A x \in S : \E i \in 1..m : s[i] = x
      /\ \A x \in T : \E i \in 1..n : t[i] = x
  BY DEF Listed
<1> HIDE DEF s, t
<1>1. s \in Seq(S \cup T) /\ t \in Seq(S \cup T)
  BY <1>0
<1>2. /\ st \in Seq(S \cup T) /\ Len(st) = Len(s) + Len(t)
      /\ \A i \in 1..Len(s) : st[i] = s[i]
      /\ \A i \in 1..Len(t) : st[Len(s) + i] = t[i]
      /\ Len(s) \in Nat /\ Len(t) \in Nat
      /\ DOMAIN s = 1..Len(s) /\ DOMAIN t = 1..Len(t) /\ DOMAIN st = 1..Len(st)
      /\ \A i \in 1..Len(s) : s[i] \in S
      /\ \A i \in 1..Len(t) : t[i] \in T
  <2>1. /\ DOMAIN s = 1..Len(s) /\ \A i \in 1..Len(s) : s[i] \in S
        /\ DOMAIN t = 1..Len(t) /\ \A i \in 1..Len(t) : t[i] \in T
        /\ Len(s) \in Nat /\ Len(t) \in Nat
    BY <1>0, ElementOfSeq, LenProperties
  <2>2. /\ st \in Seq(S \cup T) /\ Len(st) = Len(s) + Len(t)
        /\ \A i \in 1..Len(s) + Len(t) :
             st[i] = IF i <= Len(s) THEN s[i] ELSE t[i - Len(s)]
    BY <1>1, ConcatProperties
  <2>3. DOMAIN st = 1..Len(st)
    BY <2>2, LenProperties
  <2>4. ASSUME NEW i \in 1..Len(t) PROVE st[Len(s) + i] = t[i]
    <3>1. /\ Len(s) + i \in 1..Len(s) + Len(t) /\ ~(Len(s) + i <= Len(s))
          /\ Len(s) + i - Len(s) = i
      BY <2>1
    <3> QED
      BY <2>2, <3>1
  <2>5. ASSUME NEW i \in 1..Len(s) PROVE st[i] = s[i]
    <3>1. i \in 1..Len(s) + Len(t) /\ i <= Len(s)
      BY <2>1
    <3> QED
      BY <2>2, <3>1
  <2> QED
    BY <2>1, <2>2, <2>3, <2>4, <2>5
<1> HIDE DEF st
<1>3. \A i \in 1..Len(st) :
        \/ i \in 1..Len(s) /\ st[i] = s[i] /\ st[i] \in S
        \/ i - Len(s) \in 1..Len(t) /\ st[i] = t[i - Len(s)] /\ st[i] \in T
  <2> TAKE i \in 1..Len(st)
  <2>1. CASE i <= Len(s)
    BY <2>1, <1>2
  <2>2. CASE ~(i <= Len(s))
    <3> DEFINE k == i - Len(s)
    <3>1. k \in 1..Len(t) /\ i = Len(s) + k
      BY <2>2, <1>2
    <3>2. st[Len(s) + k] = t[k] /\ t[k] \in T
      BY <3>1, <1>2
    <3> QED
      BY <3>1, <3>2
  <2> QED
    BY <2>1, <2>2
<1>4. IsInjective(st)
  <2> SUFFICES ASSUME NEW i \in 1..Len(st), NEW j \in 1..Len(st), st[i] = st[j]
               PROVE  i = j
    BY <1>2 DEF IsInjective
  <2>1. CASE i \in 1..Len(s) /\ j \in 1..Len(s)
    <3>1. i \in DOMAIN s /\ j \in DOMAIN s /\ s[i] = s[j]
      BY <2>1, <1>2
    <3>2. QED
      BY <1>0, <3>1 DEF IsInjective
  <2>2. CASE ~(i \in 1..Len(s)) /\ ~(j \in 1..Len(s))
    <3>1. /\ i - Len(s) \in DOMAIN t /\ j - Len(s) \in DOMAIN t
          /\ t[i - Len(s)] = t[j - Len(s)]
      BY <2>2, <1>2, <1>3
    <3>2. i - Len(s) = j - Len(s)
      BY <1>0, <3>1 DEF IsInjective
    <3>3. QED
      BY <3>2, <1>2
  <2>3. CASE ~(i \in 1..Len(s) <=> j \in 1..Len(s))
    <3>1. \A k \in 1..Len(st) : k \in 1..Len(s) => st[k] \in S
      BY <1>2
    <3>2. \A k \in 1..Len(st) : ~(k \in 1..Len(s)) => st[k] \in T
      BY <1>3
    <3>3. QED
      BY <2>3, <3>1, <3>2
  <2> QED
    BY <2>1, <2>2, <2>3
<1>5. Range(st) = S \cup T
  <2>1. \A i \in DOMAIN st : st[i] \in S \cup T
    BY <1>2, <1>3
  <2>2. ASSUME NEW x \in S PROVE \E i \in DOMAIN st : st[i] = x
    <3>1. PICK i \in 1..Len(s) : s[i] = x
      BY <1>0
    <3>2. i \in DOMAIN st /\ st[i] = x
      BY <3>1, <1>2
    <3>3. QED
      BY <3>2
  <2>3. ASSUME NEW x \in T PROVE \E i \in DOMAIN st : st[i] = x
    <3>1. PICK i \in 1..Len(t) : t[i] = x
      BY <1>0
    <3>2. Len(s) + i \in DOMAIN st /\ st[Len(s) + i] = x
      BY <3>1, <1>2
    <3>3. QED
      BY <3>2
  <2> QED
    BY <2>1, <2>2, <2>3 DEF Range
<1> QED
  BY <1>0, <1>2, <1>4, <1>5 DEF st, s, t

\* The lesser of two.
LEMMA MinOfTwo ==
  ASSUME NEW m \in Int, NEW n \in Int
  PROVE  Min({m, n}) = IF m <= n THEN m ELSE n
  BY DEF Min

\* A search walks every position of its scope once and no other, and their
\* number is the one told.
LEMMA WalkedOnce ==
  ASSUME NEW window \in Positions \cup {None}, NEW ceiling \in Positions,
         NEW local \in Positions \cup {None}
  PROVE  LET scope == Scope(window, ceiling)
             walked == PositionsOf(scope, local)
         IN  /\ IsInjective(walked)
             /\ Range(walked) = InWindow(scope, local) \cup (0 .. ceiling - 1)
             /\ InWindow(scope, local) \subseteq 0 .. MaxIndex - 1
             /\ Len(walked) = Reach(scope, local)
<1> DEFINE scope == Scope(window, ceiling)
           within == InWindow(scope, local)
           below == 0 .. ceiling - 1
<1>1. scope.window = window /\ scope.ceiling = ceiling
  BY DEF Scope
<1>2. ceiling \in Nat /\ MaxIndex \in Nat \ {0} /\ ceiling <= MaxIndex
  BY ReviewAssumption DEF Positions
<1>3. ASSUME NEW m \in Nat, NEW n \in Nat, Listed(within, m), Listed(below \ within, n),
             within \subseteq 0 .. MaxIndex - 1, Reach(scope, local) = m + n
      PROVE  /\ IsInjective(PositionsOf(scope, local))
             /\ Range(PositionsOf(scope, local)) = within \cup below
             /\ within \subseteq 0 .. MaxIndex - 1
             /\ Len(PositionsOf(scope, local)) = Reach(scope, local)
  <2> DEFINE rest == below \ within
  <2>1. PositionsOf(scope, local) = Ascending(within) \o Ascending(rest)
    BY <1>1 DEF PositionsOf
  <2>2. within \cap rest = {} /\ within \cup rest = within \cup below
    OBVIOUS
  <2> HIDE DEF rest, within, scope
  <2>3. Listed(rest, n)
    BY <1>3 DEF rest
  <2>4. /\ IsInjective(Ascending(within) \o Ascending(rest))
        /\ Range(Ascending(within) \o Ascending(rest)) = within \cup rest
        /\ Len(Ascending(within) \o Ascending(rest)) = m + n
    BY <1>3, <2>2, <2>3, JoinedInOrder
  <2> QED
    BY <1>3, <2>1, <2>2, <2>4
<1>4. CASE window = None \/ local = None
  <2>1. within = {} /\ Reach(scope, local) = ceiling
    BY <1>1, <1>4 DEF InWindow, Reach
  <2>2. within = 1 .. 0
    BY <2>1
  <2> HIDE DEF within, scope
  <2>3. Listed(1 .. 0, IF 1 <= 0 THEN 0 + 1 - 1 ELSE 0)
    BY WindowInOrder
  <2>4. Listed(within, 0)
    BY <2>2, <2>3
  <2>5. Listed(below \ (1 .. 0), (IF 1 <= ceiling THEN 1 ELSE ceiling)
                 + (IF 0 + 1 <= ceiling THEN ceiling - (0 + 1) ELSE 0))
    <3>1. 0 \in Nat /\ 1 \in Nat /\ 1 <= 0 + 1 /\ ceiling \in Nat
      BY <1>2
    <3> QED
      BY <3>1, RangeInOrder, Zenon
  <2>6. (IF 1 <= ceiling THEN 1 ELSE ceiling)
          + (IF 0 + 1 <= ceiling THEN ceiling - (0 + 1) ELSE 0) = ceiling
    BY <1>2
  <2>7. Listed(below \ within, ceiling)
    BY <2>2, <2>5, <2>6
  <2>8. within \subseteq 0 .. MaxIndex - 1 /\ Reach(scope, local) = 0 + ceiling
    BY <1>2, <2>1
  <2> QED
    BY <1>2, <1>3, <2>4, <2>7, <2>8 DEF within, scope
<1>5. CASE window # None /\ local # None
  <2> DEFINE lo == SaturatingSub(local, window)
             hi == HighEdge(local, window)
             left == IF lo <= ceiling THEN lo ELSE ceiling
             right == IF hi + 1 <= ceiling THEN ceiling - (hi + 1) ELSE 0
             size == IF lo <= hi THEN hi + 1 - lo ELSE 0
  <2>1. /\ window \in Nat /\ window <= MaxIndex
        /\ local \in Nat /\ local <= MaxIndex
    BY <1>5, ReviewAssumption DEF Positions
  <2>2. hi = IF local + window >= MaxIndex THEN MaxIndex - 1 ELSE local + window
    <3>1. SaturatingAdd(local, window) = IF local + window > MaxIndex THEN MaxIndex ELSE local + window
      BY DEF SaturatingAdd
    <3>2. hi = IF SaturatingAdd(local, window) <= MaxIndex - 1
               THEN SaturatingAdd(local, window) ELSE MaxIndex - 1
      BY <1>2, <2>1, <3>1, MinOfTwo DEF HighEdge
    <3> QED
      BY <1>2, <2>1, <3>1, <3>2
  <2>3. lo = IF local < window THEN 0 ELSE local - window
    BY DEF SaturatingSub
  <2>4. lo \in Nat /\ hi \in Nat /\ lo <= hi + 1 /\ hi < MaxIndex
    BY <1>2, <2>1, <2>2, <2>3
  <2>5. within = lo .. hi
    BY <1>1, <1>5 DEF InWindow
  <2>6. Reach(scope, local) =
          Min({SaturatingSub(hi + 1, lo) + ceiling - Shared(scope, lo, hi), MaxIndex})
    BY <1>1, <1>5, Zenon DEF Reach
  <2>7. Shared(scope, lo, hi) =
          IF ceiling = 0 THEN 0 ELSE SaturatingSub(Min({hi, ceiling - 1}) + 1, lo)
    BY <1>1, Zenon DEF Shared
  <2> HIDE DEF lo, hi, scope, within
  <2>8. Min({hi, ceiling - 1}) = IF hi <= ceiling - 1 THEN hi ELSE ceiling - 1
    BY <1>2, <2>4, MinOfTwo
  <2>9. SaturatingSub(hi + 1, lo) = IF hi + 1 < lo THEN 0 ELSE hi + 1 - lo
    <3>1. \A m, n \in Nat : SaturatingSub(m, n) = IF m < n THEN 0 ELSE m - n
      BY DEF SaturatingSub
    <3> QED
      BY <2>4, <3>1
  <2>10. Shared(scope, lo, hi) = IF ceiling = 0 THEN 0
           ELSE IF hi <= ceiling - 1 THEN (IF hi + 1 < lo THEN 0 ELSE hi + 1 - lo)
           ELSE (IF ceiling < lo THEN 0 ELSE ceiling - lo)
    BY <1>2, <2>4, <2>7, <2>8 DEF SaturatingSub
  <2>11. /\ SaturatingSub(hi + 1, lo) + ceiling - Shared(scope, lo, hi) = size + (left + right)
         /\ size + (left + right) \in Nat /\ size + (left + right) <= MaxIndex
         /\ size \in Nat /\ left + right \in Nat
    BY <1>2, <2>4, <2>9, <2>10
  <2>12. Listed(lo .. hi, size)
    BY <2>4, WindowInOrder
  <2>13. Listed(below \ (lo .. hi), left + right)
    BY <1>2, <2>4, RangeInOrder
  <2>14. within \subseteq 0 .. MaxIndex - 1
    BY <1>2, <2>4, <2>5
  <2> HIDE DEF size, left, right
  <2>15. Min({size + (left + right), MaxIndex}) = size + (left + right)
    BY <1>2, <2>11, MinOfTwo
  <2>16. Reach(scope, local) = size + (left + right)
    BY <2>6, <2>11, <2>15
  <2>17. Listed(within, size) /\ Listed(below \ within, left + right)
    BY <2>5, <2>12, <2>13
  <2> QED
    BY <1>3, <2>11, <2>14, <2>16, <2>17 DEF within, scope
<1> QED
  BY <1>4, <1>5

\* Around the index of the account a review begins with, and around none, a
\* search walks each position of its scope once and the last position never,
\* and the count told to the operator is their number.
THEOREM ScopeIsSearchedOnceHolds == Spec => []ScopeIsSearchedOnce
<1>1. ReviewInv => ScopeIsSearchedOnce
  <2> SUFFICES ASSUME ReviewInv,
                      NEW window \in Positions \cup {None}, NEW ceiling \in Positions,
                      NEW local \in {disk[named.tag].wots_index, None}
               PROVE  LET scope == Scope(window, ceiling)
                          walked == PositionsOf(scope, local)
                      IN  /\ IsInjective(walked)
                          /\ MaxIndex \notin Range(walked)
                          /\ 0 .. ceiling - 1 \subseteq Range(walked)
                          /\ Len(walked) = Reach(scope, local)
    BY DEF ScopeIsSearchedOnce
  <2>1. local \in Positions \cup {None}
    BY DEF ReviewInv, TypeOK, Record
  <2> DEFINE scope == Scope(window, ceiling)
             walked == PositionsOf(scope, local)
  <2>2. /\ IsInjective(walked)
        /\ Range(walked) = InWindow(scope, local) \cup (0 .. ceiling - 1)
        /\ InWindow(scope, local) \subseteq 0 .. MaxIndex - 1
        /\ Len(walked) = Reach(scope, local)
    BY <2>1, WalkedOnce
  <2> HIDE DEF walked, scope
  <2>3. MaxIndex \notin 0 .. MaxIndex - 1 /\ MaxIndex \notin 0 .. ceiling - 1
    BY ReviewAssumption DEF Positions
  <2>4. MaxIndex \notin Range(walked) /\ 0 .. ceiling - 1 \subseteq Range(walked)
    BY <2>2, <2>3
  <2> QED
    BY <2>2, <2>4 DEF walked, scope
<1>2. QED
  BY <1>1, ReviewInvariant, PTL

=============================================================================
