--------------------------- MODULE CommandRunProofs ---------------------------
(***************************************************************************)
(* Proofs about one run of the program: what its page says, its terminal,   *)
(* and the pages it reads from a node.  The three parts have an invariant   *)
(* each; that of the reads needs the run's, to know which run is reading.   *)
(***************************************************************************)
EXTENDS CommandRun, TLAPS, FiniteSetTheorems, SequenceTheorems

-----------------------------------------------------------------------------
(* The run and its page.                                                    *)

\* The fields of an invocation, of a page.
RunShape(r) ==
  r = [state |-> r.state, verb |-> r.verb, account |-> r.account, node |-> r.node,
       allowed |-> r.allowed, before |-> r.before, gate |-> r.gate,
       standing |-> r.standing, signed |-> r.signed, sent |-> r.sent, took |-> r.took]
PageShape(p) ==
  p = [code |-> p.code, claims |-> p.claims, named |-> p.named,
       artifact |-> p.artifact, upgraded |-> p.upgraded]

PageIs(p, code, claims, named, artifact, upgraded) ==
  /\ PageShape(p)
  /\ p.code = code /\ p.claims = claims /\ p.named = named
  /\ p.artifact = artifact /\ p.upgraded = upgraded

\* Nothing was signed or sent yet.
Untouched(r) == r.signed = FALSE /\ r.sent = FALSE /\ r.took = FALSE

\* Before a store is opened there is none, and no gate.
Unopened == /\ run.before = None /\ run.gate = {} /\ run.standing = {}
            /\ Untouched(run)

\* A store is open, and is as it was opened.
AsOpened == /\ disk \in Stores /\ run.before = disk
            /\ Untouched(run) /\ run.account \in Accounts /\ run.verb \notin Explorers

\* What each state of a run rests on.
StateInv ==
  /\ RunShape(run)
  /\ run.state # "page" => page = None
  /\ run.state \in {"idle", "password", "creating", "asking a node"} => Unopened
  /\ run.state = "password" => run.account \in Accounts /\ run.verb \notin Explorers
  /\ run.state = "opened" => AsOpened /\ run.gate = {} /\ run.standing = {}
  /\ run.state = "gated" =>
       /\ AsOpened /\ run.gate = run.standing /\ run.gate \subseteq Accounts
       /\ run.verb # "balance" => run.account \notin run.gate
  /\ run.state = "reserved" =>
       /\ disk \in Stores /\ run.before \in Stores /\ disk.version = VERSION
       /\ Untouched(run) /\ run.verb \notin Explorers
       /\ run.gate = run.standing /\ run.account \notin run.gate
       /\ \A a \in run.gate : disk.held[a] = run.before.held[a]
  /\ run.state = "walking" =>
       /\ run.gate = {} /\ run.standing = {} /\ Untouched(run)
       /\ run.before = None \/ (run.before = disk /\ run.verb \notin Explorers)
  /\ run.state = "page" /\ run.verb \in Explorers => Unopened

RunInv == StateInv /\ PageTellsTheRun /\ DivergedAreNamed

\* What PageTellsTheRun and DivergedAreNamed say of a page, a run and a disk.
Tells(p, r, d) ==
  /\ "nothing written" \in p.claims => d = r.before \/ "not stored" \in p.claims
  /\ "not stored" \in p.claims =>
       /\ r.verb = "restore" /\ r.before.held[r.account] = None
       /\ \A a \in Accounts \ {r.account} : d.held[a] = r.before.held[a]
  /\ "nothing signed" \in p.claims => ~r.signed
  /\ "nothing sent" \in p.claims => ~r.sent
  /\ "submitted" \in p.claims => r.took
  /\ p.artifact <=> r.signed
  /\ "added" \in p.claims =>
       r.account \in Accounts /\ d.held[r.account] # None /\ r.before.held[r.account] = None
  /\ "settled" \in p.claims =>
       r.before.held[r.account].pending /\ ~d.held[r.account].pending
  /\ "advanced" \in p.claims =>
       d.held[r.account].index > r.before.held[r.account].index
  /\ p.upgraded => d.version # r.before.version
  /\ d.version # r.before.version =>
       p.upgraded
         \/ (p.code = "refused" /\ (p.claims = {} \/ "not stored" \in p.claims))

Names(p, r, d) ==
  /\ \/ r.gate \subseteq p.named
     \/ /\ r.verb # "balance" /\ r.account \in r.gate
        /\ p.named = {r.account} /\ p.code = "refused"
  /\ r.signed => r.account \notin r.gate
  /\ \A a \in r.gate : d.held[a] = r.before.held[a]

\* The end of a run: its page is rendered, and it is what the two properties
\* ask when the outcome tells the run and the account that stands alone or the
\* standing divergences are the gate's.
LEMMA EndsStep ==
  ASSUME NEW now, NEW outcome, RunShape(now), PageShape(outcome), Ends(now, outcome),
         now.before # None => Tells(outcome, now, disk'),
         now.gate # {} =>
           /\ \/ now.gate \subseteq outcome.named \/ now.gate = now.standing
              \/ /\ now.verb # "balance" /\ now.account \in now.gate /\ now.standing = {}
                 /\ outcome.named = {now.account} /\ outcome.code = "refused"
           /\ now.signed => now.account \notin now.gate
           /\ \A a \in now.gate : (disk').held[a] = now.before.held[a],
         now.verb \in Explorers =>
           now.before = None /\ now.gate = {} /\ now.standing = {} /\ Untouched(now)
  PROVE  RunInv'
<1>1. PICK d : d = disk'
  OBVIOUS
<1>2. PICK p : p = [outcome EXCEPT !.named = @ \cup now.standing]
  OBVIOUS
<1>3. PICK r : r = [now EXCEPT !.state = "page"]
  OBVIOUS
<1>4. /\ p.code = outcome.code /\ p.claims = outcome.claims
      /\ p.named = outcome.named \cup now.standing
      /\ p.artifact = outcome.artifact /\ p.upgraded = outcome.upgraded
  BY <1>2 DEF PageShape
<1>5. /\ RunShape(r) /\ r.state = "page" /\ r.verb = now.verb /\ r.account = now.account
      /\ r.before = now.before /\ r.gate = now.gate /\ r.standing = now.standing
      /\ r.signed = now.signed /\ r.sent = now.sent /\ r.took = now.took
  BY <1>3 DEF RunShape
<1>6. page' = p /\ run' = r
  BY <1>2, <1>3 DEF Ends, Render
<1>7. r.before # None => Tells(p, r, d)
  BY <1>1, <1>4, <1>5 DEF Tells
<1>8. r.gate # {} => Names(p, r, d)
  BY <1>1, <1>4, <1>5 DEF Names
<1>9. PageTellsTheRun'
  BY <1>1, <1>6, <1>7 DEF PageTellsTheRun, Tells, Held
<1>10. DivergedAreNamed'
  <2>1. Addressed' = IF r.verb = "balance" THEN {} ELSE {r.account}
    BY <1>6 DEF Addressed
  <2> QED
    BY <1>1, <1>6, <1>8, <2>1 DEF DivergedAreNamed, Names
<1>11. StateInv'
  BY <1>5, <1>6 DEF StateInv, Unopened, Untouched
<1> QED
  BY <1>9, <1>10, <1>11 DEF RunInv

\* A page built field by field.
LEMMA FieldSet ==
  ASSUME NEW p, NEW code, NEW claims, NEW named, NEW artifact, NEW upgraded, NEW x,
         PageIs(p, code, claims, named, artifact, upgraded)
  PROVE  /\ PageIs([p EXCEPT !.claims = x], code, x, named, artifact, upgraded)
         /\ PageIs([p EXCEPT !.named = x], code, claims, x, artifact, upgraded)
         /\ PageIs([p EXCEPT !.artifact = x], code, claims, named, x, upgraded)
         /\ PageIs([p EXCEPT !.upgraded = x], code, claims, named, artifact, x)
BY DEF PageIs, PageShape

\* The page that says nothing, and the one that makes claims.
LEMMA ToldIs ==
  ASSUME NEW code, NEW claims
  PROVE  /\ PageIs(Plain(code), code, {}, {}, FALSE, FALSE)
         /\ PageIs(Told(code, claims), code, claims, {}, FALSE, FALSE)
<1>1. PageIs(Plain(code), code, {}, {}, FALSE, FALSE)
  <2>1. Plain(code) = [code |-> code, claims |-> {}, named |-> {}, artifact |-> FALSE,
                       upgraded |-> FALSE]
    BY DEF Plain
  <2> QED
    BY <2>1 DEF PageIs, PageShape
<1> QED
  BY <1>1, FieldSet, Zenon DEF Told

\* The pages that report a change.
LEMMA LoudPages ==
  ASSUME NEW submitted, NEW reports
  PROVE  /\ PageIs(SentPage(submitted), CodeOf(submitted), ShippedTail(submitted), {},
                   TRUE, UpgradedFrom)
         /\ PageIs(ResignedPage(submitted), CodeOf(submitted),
                   ShippedTail(submitted) \cup IF submitted THEN {} ELSE {"nothing written"},
                   {}, TRUE, FALSE)
         /\ PageIs(SettledPage("settled"), "ok", {"settled"}, {}, FALSE, UpgradedFrom)
         /\ PageIs(RestoredPage(TRUE), "ok", {"added"}, {}, FALSE, UpgradedFrom)
         /\ PageIs(ReconciledPage("advanced", reports), "ok", {"advanced"}, reports, FALSE,
                   UpgradedFrom)
<1>1. PageIs(SentPage(submitted), CodeOf(submitted), ShippedTail(submitted), {},
             TRUE, UpgradedFrom)
  <2> DEFINE told == Told(CodeOf(submitted), ShippedTail(submitted))
             bytes == [told EXCEPT !.artifact = TRUE]
  <2>1. PageIs(told, CodeOf(submitted), ShippedTail(submitted), {}, FALSE, FALSE)
    BY ToldIs
  <2>2. PageIs(bytes, CodeOf(submitted), ShippedTail(submitted), {}, TRUE, FALSE)
    BY <2>1, FieldSet, Zenon
  <2>3. PageIs([bytes EXCEPT !.upgraded = UpgradedFrom], CodeOf(submitted),
               ShippedTail(submitted), {}, TRUE, UpgradedFrom)
    BY <2>2, FieldSet, Zenon
  <2> QED
    BY <2>3 DEF SentPage
<1>2. PageIs(ResignedPage(submitted), CodeOf(submitted),
             ShippedTail(submitted) \cup IF submitted THEN {} ELSE {"nothing written"},
             {}, TRUE, FALSE)
  BY ToldIs, FieldSet, Zenon DEF ResignedPage
<1>3. PageIs(SettledPage("settled"), "ok", {"settled"}, {}, FALSE, UpgradedFrom)
  <2>1. SettledPage("settled") = [Told("ok", {"settled"}) EXCEPT !.upgraded = UpgradedFrom]
    BY DEF SettledPage
  <2>2. PageIs([Told("ok", {"settled"}) EXCEPT !.upgraded = UpgradedFrom], "ok", {"settled"}, {},
               FALSE, UpgradedFrom)
    BY ToldIs, FieldSet, Zenon
  <2> QED
    BY <2>1, <2>2
<1>4. PageIs(RestoredPage(TRUE), "ok", {"added"}, {}, FALSE, UpgradedFrom)
  <2>1. RestoredPage(TRUE) = [Told("ok", {"added"}) EXCEPT !.upgraded = UpgradedFrom]
    BY DEF RestoredPage
  <2>2. PageIs([Told("ok", {"added"}) EXCEPT !.upgraded = UpgradedFrom], "ok", {"added"}, {},
               FALSE, UpgradedFrom)
    BY ToldIs, FieldSet, Zenon
  <2> QED
    BY <2>1, <2>2
<1>5. PageIs(ReconciledPage("advanced", reports), "ok", {"advanced"}, reports, FALSE,
             UpgradedFrom)
  <2> DEFINE named == [Told("ok", {"advanced"}) EXCEPT !.named = reports]
  <2>1. ReconciledPage("advanced", reports) = [named EXCEPT !.upgraded = UpgradedFrom]
    BY DEF ReconciledPage
  <2>2. PageIs(named, "ok", {"advanced"}, reports, FALSE, FALSE)
    BY ToldIs, FieldSet, Zenon
  <2>3. PageIs([named EXCEPT !.upgraded = UpgradedFrom], "ok", {"advanced"}, reports, FALSE,
               UpgradedFrom)
    BY <2>2, FieldSet, Zenon
  <2> QED
    BY <2>1, <2>3
<1> QED
  BY <1>1, <1>2, <1>3, <1>4, <1>5

\* What a page says that reports no change: nothing that has to be so, but
\* what was not done.
Quiet(p) ==
  /\ PageShape(p)
  /\ p.artifact = FALSE /\ p.upgraded = FALSE
  /\ p.claims \subseteq {"nothing written", "nothing signed", "nothing sent",
                        "nothing reserved", "nothing reserved now"}

\* The pages that report no change.
LEMMA PagesAreQuiet ==
  /\ \A code : Quiet(Plain(code))
  /\ \A settlement \in {"dead", "outstanding", "nothing"} : Quiet(SettledPage(settlement))
  /\ Quiet(RestoredPage(FALSE))
  /\ \A reports, outcome : outcome \in {"not held", "nothing", "second instance", "no advance"}
       => Quiet(ReconciledPage(outcome, reports))
  /\ \A account, verdict : Quiet(StatusPage(account, verdict))
  /\ \A diverged : Quiet(StartupRefusedPage(diverged))
  /\ \A account : Quiet(RefusedPage(account))
  /\ Quiet(NotReservedSpendPage) /\ Quiet(LandedPage) /\ Quiet(UnstoredAddressPage)
  /\ Quiet(NoMasterPage) /\ Quiet(FailedPage) /\ Quiet(ShownPage)
<1> DEFINE Silent == {"nothing written", "nothing signed", "nothing sent",
                      "nothing reserved", "nothing reserved now"}
<1>0. ASSUME NEW p, NEW code, NEW claims, NEW named, claims \subseteq Silent,
             PageIs(p, code, claims, named, FALSE, FALSE)
      PROVE  Quiet(p)
  BY <1>0 DEF Quiet, PageIs
<1>1. ASSUME NEW code, NEW claims, claims \subseteq Silent PROVE Quiet(Told(code, claims))
  BY <1>0, <1>1, ToldIs
<1>2. ASSUME NEW code, NEW claims, NEW named, claims \subseteq Silent
      PROVE  Quiet([Told(code, claims) EXCEPT !.named = named])
  <2>1. PageIs([Told(code, claims) EXCEPT !.named = named], code, claims, named, FALSE, FALSE)
    BY ToldIs, FieldSet, Zenon
  <2> QED
    BY <1>0, <1>2, <2>1
<1>3. ASSUME NEW code PROVE Quiet(Plain(code))
  <2>1. {} \subseteq Silent
    OBVIOUS
  <2> QED
    BY <1>0, <2>1, ToldIs, Zenon
<1>4. ASSUME NEW code, NEW named PROVE Quiet([Plain(code) EXCEPT !.named = named])
  <2>1. PageIs([Plain(code) EXCEPT !.named = named], code, {}, named, FALSE, FALSE)
    BY ToldIs, FieldSet, Zenon
  <2> QED
    BY <1>0, <2>1
<1>5. \A settlement \in {"dead", "outstanding", "nothing"} : Quiet(SettledPage(settlement))
  BY <1>1, <1>3 DEF SettledPage
<1>6. Quiet(RestoredPage(FALSE))
  BY <1>1 DEF RestoredPage
<1>7. ASSUME NEW outcome \in {"not held", "nothing", "second instance", "no advance"},
             NEW reports
      PROVE  Quiet(ReconciledPage(outcome, reports))
  <2>1. CASE outcome = "not held"
    BY <1>3, <2>1 DEF ReconciledPage
  <2>2. CASE outcome = "nothing"
    BY <1>4, <2>2 DEF ReconciledPage
  <2>3. CASE outcome \in {"second instance", "no advance"}
    BY <1>2, <2>3 DEF ReconciledPage
  <2> QED
    BY <2>1, <2>2, <2>3
<1>8. \A account, verdict : Quiet(StatusPage(account, verdict))
  BY <1>2, <1>3, <1>4 DEF StatusPage
<1>9. /\ \A diverged : Quiet(StartupRefusedPage(diverged))
      /\ \A account : Quiet(RefusedPage(account))
  BY <1>4 DEF StartupRefusedPage, RefusedPage
<1>10. Quiet(NotReservedSpendPage) /\ Quiet(LandedPage) /\ Quiet(UnstoredAddressPage)
  BY <1>1 DEF NotReservedSpendPage, LandedPage, UnstoredAddressPage
<1>11. Quiet(NoMasterPage) /\ Quiet(FailedPage)
  BY <1>1, <1>3 DEF NoMasterPage, FailedPage
<1>12. Quiet(ShownPage)
  BY <1>1, <1>3, <1>11 DEF ShownPage
<1> QED
  BY <1>3, <1>5, <1>6, <1>7, <1>8, <1>9, <1>10, <1>11, <1>12

\* A run that printed nothing yet has no page to be wrong.
LEMMA NoPage ==
  ASSUME page' = None, StateInv'
  PROVE  RunInv'
BY DEF RunInv, PageTellsTheRun, DivergedAreNamed

\* A store with one account's record written.
LEMMA WrittenIs ==
  ASSUME disk \in Stores, NEW account \in Accounts, NEW record \in Records, NEW new,
         new = Written(account, record)
  PROVE  /\ new \in Stores /\ new.version = VERSION /\ new.held[account] = record
         /\ \A a \in Accounts : a # account => new.held[a] = disk.held[a]
<1>1. PICK held : held = [disk.held EXCEPT ![account] = record]
  OBVIOUS
<1>2. /\ disk = [version |-> disk.version, master |-> disk.master, held |-> disk.held]
      /\ disk.master \in BOOLEAN /\ disk.held \in [Accounts -> Records \cup {None}]
  BY DEF Stores
<1>3. /\ held \in [Accounts -> Records \cup {None}] /\ held[account] = record
      /\ \A a \in Accounts : a # account => held[a] = disk.held[a]
  BY <1>1, <1>2
<1>4. new = [version |-> VERSION, master |-> disk.master, held |-> held]
  BY <1>1, <1>2 DEF Written
<1> QED
  BY <1>2, <1>3, <1>4 DEF Stores, VERSION

\* A run that ends with a page of no change ends right, the store being as it
\* was opened or never opened.
LEMMA QuietEnds ==
  ASSUME NEW now, NEW outcome, RunShape(now), Ends(now, outcome), Quiet(outcome),
         Untouched(now),
         now.before # None \/ now.gate # {} => disk' = now.before,
         now.gate # {} =>
           \/ now.gate \subseteq outcome.named \/ now.gate = now.standing
           \/ /\ now.verb # "balance" /\ now.account \in now.gate /\ now.standing = {}
              /\ outcome.named = {now.account} /\ outcome.code = "refused",
         now.verb \in Explorers =>
           now.before = None /\ now.gate = {} /\ now.standing = {} /\ Untouched(now)
  PROVE  RunInv'
<1>1. PageShape(outcome)
  BY DEF Quiet
<1>2. now.before # None => Tells(outcome, now, disk')
  BY DEF Tells, Quiet, Untouched
<1>3. now.gate # {} => /\ now.signed => now.account \notin now.gate
                       /\ \A a \in now.gate : (disk').held[a] = now.before.held[a]
  BY DEF Untouched
<1> QED
  BY <1>1, <1>2, <1>3, EndsStep

\* The run itself ends with a page of no change.
LEMMA RunEndsQuietly ==
  ASSUME RunInv, NEW outcome, Quiet(outcome), Ends(run, outcome), disk' = disk,
         run.state \in {"creating", "password", "asking a node", "opened", "gated", "walking"}
  PROVE  RunInv'
<1>1. StateInv
  BY DEF RunInv
<1>2. /\ RunShape(run) /\ Untouched(run)
      /\ run.before # None \/ run.gate # {} => disk' = run.before
      /\ run.gate # {} => run.gate = run.standing
      /\ run.verb \in Explorers => run.before = None /\ run.gate = {} /\ run.standing = {}
  <2>1. CASE run.state \in {"creating", "password", "asking a node"}
    BY <1>1, <2>1 DEF StateInv, Unopened
  <2>2. CASE run.state \in {"opened", "gated"}
    BY <1>1, <2>2 DEF StateInv, AsOpened
  <2>3. CASE run.state = "walking"
    BY <1>1, <2>3 DEF StateInv
  <2> QED
    BY <2>1, <2>2, <2>3
<1>3. PICK r : r = run
  OBVIOUS
<1> QED
  BY <1>2, <1>3, QuietEnds

\* A run whose commit failed ends with the page that claims nothing, whichever
\* store it left.
LEMMA FailedEnds ==
  ASSUME RunInv, run.state \in {"opened", "gated"}, run.account \notin run.gate,
         NEW record \in Records,
         CommitFails(Written(run.account, record)), Ends(run, FailedPage)
  PROVE  RunInv'
<1>1. PICK r : r = run
  OBVIOUS
<1>2. PICK d : d = disk'
  OBVIOUS
<1>3. /\ RunShape(r) /\ r.before = disk /\ disk \in Stores /\ Untouched(r)
      /\ r.account \in Accounts /\ r.verb \notin Explorers /\ r.gate = r.standing
      /\ r.gate \subseteq Accounts
  BY <1>1 DEF RunInv, StateInv, AsOpened
<1>4. \A a \in r.gate : d.held[a] = r.before.held[a]
  BY <1>1, <1>2, <1>3, WrittenIs DEF CommitFails
<1>5. PageIs(FailedPage, "refused", {}, {}, FALSE, FALSE)
  BY ToldIs, Zenon DEF FailedPage
<1>6. PICK outcome : outcome = FailedPage
  OBVIOUS
<1>7. Tells(outcome, r, d)
  BY <1>3, <1>5, <1>6 DEF PageIs, Tells, Untouched
<1> QED
  BY <1>1, <1>2, <1>3, <1>4, <1>5, <1>6, <1>7, EndsStep DEF PageIs, Untouched

\* A restore whose commit failed ends with the page that says nothing was
\* written, the store it left being its own but for the account restored.
LEMMA RestoreFails ==
  ASSUME RunInv, run.state = "opened", run.verb = "restore", run.gate = {},
         disk.held[run.account] = None, NEW record \in Records,
         CommitFails(Written(run.account, record)), Ends(run, CannotStorePage)
  PROVE  RunInv'
<1>1. PICK r : r = run
  OBVIOUS
<1>2. PICK d : d = disk'
  OBVIOUS
<1>3. /\ RunShape(r) /\ r.before = disk /\ disk \in Stores /\ Untouched(r)
      /\ r.account \in Accounts /\ r.verb = "restore" /\ r.gate = {}
      /\ r.before.held[r.account] = None
  BY <1>1 DEF RunInv, StateInv, AsOpened
<1>4. \A a \in Accounts \ {r.account} : d.held[a] = r.before.held[a]
  BY <1>1, <1>2, <1>3, WrittenIs DEF CommitFails
<1>5. PageIs(CannotStorePage, "refused", {"nothing written", "not stored"}, {}, FALSE, FALSE)
  BY ToldIs, Zenon DEF CannotStorePage
<1>6. PICK outcome : outcome = CannotStorePage
  OBVIOUS
<1>7. Tells(outcome, r, d)
  BY <1>3, <1>4, <1>5, <1>6 DEF PageIs, Tells, Untouched
<1>8. r.verb \notin Explorers
  BY <1>3 DEF Explorers
<1> QED
  BY <1>1, <1>2, <1>3, <1>5, <1>6, <1>7, <1>8, EndsStep DEF PageIs

\* Before the first command there is nothing to be wrong.
LEMMA RunInit ==
  ASSUME InitCommand
  PROVE  RunInv
<1>1. StateInv
  BY DEF InitCommand, NoRun, StateInv, RunShape, Unopened, Untouched
<1> QED
  BY <1>1 DEF InitCommand, RunInv, PageTellsTheRun, DivergedAreNamed

\* A step of the terminal, of the node or of the world changes no run.
LEMMA RunUntouched ==
  ASSUME RunInv, UNCHANGED runVars
  PROVE  RunInv'
<1>1. run' = run /\ page' = page /\ disk' = disk
  BY DEF runVars
<1>2. StateInv'
  BY <1>1 DEF RunInv, StateInv, RunShape, Unopened, AsOpened, Untouched, Addressed
<1>3. PageTellsTheRun'
  BY <1>1 DEF RunInv, PageTellsTheRun, Held
<1>4. DivergedAreNamed'
  BY <1>1 DEF RunInv, DivergedAreNamed, Addressed
<1> QED
  BY <1>2, <1>3, <1>4 DEF RunInv

\* The run before any is an invocation of nothing.
LEMMA NoRunIs ==
  RunShape(NoRun) /\ Untouched(NoRun) /\ NoRun.before = None /\ NoRun.gate = {}
    /\ NoRun.standing = {} /\ NoRun.state = "idle"
BY DEF NoRun, RunShape, Untouched

\* A run is begun, or its arguments end it.
LEMMA InvokeStep ==
  ASSUME RunInv, Invoke
  PROVE  RunInv'
<1>1. StateInv /\ run.state = "idle" /\ page = None /\ disk' = disk
  BY DEF RunInv, StateInv, Invoke
<1>2. ASSUME NEW code, Ends(NoRun, Plain(code)) PROVE RunInv'
  BY <1>2, NoRunIs, PagesAreQuiet, QuietEnds
<1>3. ASSUME NEW flags, NEW verb, NEW account \in Accounts, NEW url,
             run' = Invocation(flags, verb, account, url), page' = page
      PROVE  RunInv'
  <2>1. PICK r : r = Invocation(flags, verb, account, url)
    OBVIOUS
  <2>2. /\ RunShape(r) /\ Untouched(r) /\ r.before = None /\ r.gate = {} /\ r.standing = {}
        /\ r.state = FirstState(verb) /\ r.verb = verb /\ r.account = account
    <3>1. PICK state, named, allowed, b :
            /\ r = [b EXCEPT !.state = state, !.verb = verb, !.account = account,
                      !.node = named, !.allowed = allowed]
            /\ state = FirstState(verb) /\ b = NoRun
      BY <2>1, Zenon DEF Invocation
    <3>2. RunShape(b) /\ Untouched(b) /\ b.before = None /\ b.gate = {} /\ b.standing = {}
      BY <3>1, NoRunIs
    <3>3. /\ RunShape(r) /\ r.state = state /\ r.verb = verb /\ r.account = account
          /\ r.before = b.before /\ r.gate = b.gate /\ r.standing = b.standing
          /\ r.signed = b.signed /\ r.sent = b.sent /\ r.took = b.took
      BY <3>1, <3>2 DEF RunShape
    <3> QED
      BY <3>1, <3>2, <3>3 DEF Untouched
  <2>3. /\ r.state \in {"creating", "asking a node", "password"}
        /\ r.state = "password" => r.verb \notin Explorers
    BY <2>2 DEF FirstState, OpensNoStore
  <2>4. StateInv'
    BY <1>1, <1>3, <2>1, <2>2, <2>3 DEF StateInv, Unopened, Untouched
  <2> QED
    BY <1>1, <1>3, <2>4, NoPage
<1>4. PICK flags, verb, what, url : \E account \in Accounts :
        RunFromArgv(flags, verb, account, what, url)
  BY Zenon DEF Invoke
<1>5. PICK account \in Accounts : RunFromArgv(flags, verb, account, what, url)
  BY <1>4
<1> QED
  BY <1>2, <1>3, <1>5, Zenon DEF RunFromArgv

\* The prompts of create end.
LEMMA CreateEndsStep ==
  ASSUME RunInv, CreateEnds
  PROVE  RunInv'
<1>1. PICK code : Ends(run, Plain(code)) /\ disk' = disk /\ run.state = "creating"
  BY DEF CreateEnds
<1> QED
  BY <1>1, PagesAreQuiet, RunEndsQuietly

\* A killed run leaves no page.
LEMMA KillRunStep ==
  ASSUME RunInv, KillRun
  PROVE  RunInv'
<1>1. run' = NoRun /\ page' = None
  BY DEF KillRun, RunInv, StateInv
<1>2. StateInv'
  BY <1>1, NoRunIs DEF StateInv, Unopened, Untouched
<1> QED
  BY <1>1, <1>2, NoPage

\* The page has been read.
LEMMA DoneStep ==
  ASSUME RunInv, Done
  PROVE  RunInv'
<1>1. run' = NoRun /\ page' = None
  BY DEF Done
<1>2. StateInv'
  BY <1>1, NoRunIs DEF StateInv, Unopened, Untouched
<1> QED
  BY <1>1, <1>2, NoPage

\* The store is opened, or the run is refused at its start.
LEMMA OpenStoreStep ==
  ASSUME RunInv, OpenStore
  PROVE  RunInv'
<1>1. /\ run.state = "password" /\ page = None /\ RunShape(run) /\ Unopened
      /\ run.account \in Accounts /\ run.verb \notin Explorers
  BY DEF OpenStore, RunInv, StateInv
<1>2. CASE Ends(run, Plain("startup refused")) /\ disk' = disk
  BY <1>1, <1>2, PagesAreQuiet, RunEndsQuietly
<1>3. CASE /\ disk' \in Disks
           /\ run' = [run EXCEPT !.state = "opened", !.before = disk']
           /\ page' = page
  <2>1. PICK d, r : d = disk' /\ r = run
    OBVIOUS
  <2>2. PICK mid : mid = [r EXCEPT !.state = "opened"]
    OBVIOUS
  <2>3. PICK new : new = [mid EXCEPT !.before = d]
    OBVIOUS
  <2>4. run' = new
    BY <1>3, <2>1, <2>2, <2>3
  <2>5. /\ RunShape(mid) /\ mid.state = "opened" /\ mid.verb = r.verb
        /\ mid.account = r.account /\ mid.gate = r.gate /\ mid.standing = r.standing
        /\ mid.signed = r.signed /\ mid.sent = r.sent /\ mid.took = r.took
    BY <1>1, <2>1, <2>2 DEF RunShape
  <2>6. /\ RunShape(new) /\ new.state = "opened" /\ new.verb = r.verb /\ new.before = d
        /\ new.account = r.account /\ new.gate = r.gate /\ new.standing = r.standing
        /\ new.signed = r.signed /\ new.sent = r.sent /\ new.took = r.took
    BY <2>3, <2>5 DEF RunShape
  <2>7. StateInv'
    BY <1>1, <1>3, <2>1, <2>4, <2>6, CommandAssumption
       DEF StateInv, AsOpened, Unopened, Untouched
  <2> QED
    BY <1>1, <1>3, <2>7, NoPage
<1> QED
  BY <1>2, <1>3 DEF OpenStore

\* What the state of a store's command rests on.
LEMMA OpenedRun ==
  ASSUME RunInv, run.state = "opened"
  PROVE  /\ RunShape(run) /\ disk \in Stores /\ run.before = disk /\ Untouched(run)
         /\ run.account \in Accounts /\ run.verb \notin Explorers /\ page = None
         /\ run.gate = {} /\ run.standing = {} /\ disk # None
<1>1. None \notin Stores
  BY CommandAssumption
<1> QED
  BY <1>1 DEF RunInv, StateInv, AsOpened

\* A command that wrote one account's record ends with a page that tells of it.
LEMMA WrittenEnds ==
  ASSUME RunInv, run.state \in {"opened", "gated"}, run.account \notin run.gate,
         NEW record \in Records, disk' = Written(run.account, record),
         NEW outcome, NEW claims, NEW named,
         PageIs(outcome, "ok", claims, named, FALSE, UpgradedFrom),
         \/ claims = {"added"} /\ disk.held[run.account] = None
         \/ claims = {"settled"} /\ disk.held[run.account].pending /\ ~record.pending
         \/ claims = {"advanced"} /\ record.index > disk.held[run.account].index,
         Ends(run, outcome)
  PROVE  RunInv'
<1>1. PICK r : r = run
  OBVIOUS
<1>2. PICK d : d = disk'
  OBVIOUS
<1>3. PICK b : b = disk
  OBVIOUS
<1>4. /\ RunShape(r) /\ r.before = b /\ b \in Stores /\ Untouched(r)
      /\ r.account \in Accounts /\ r.verb \notin Explorers /\ r.gate = r.standing
      /\ r.gate \subseteq Accounts
  BY <1>1, <1>3 DEF RunInv, StateInv, AsOpened
<1>5. /\ d.held[r.account] = record
      /\ \A a \in r.gate : d.held[a] = b.held[a]
  BY <1>1, <1>2, <1>3, <1>4, WrittenIs
<1>6. /\ PageShape(outcome) /\ outcome.code = "ok" /\ outcome.claims = claims
      /\ outcome.artifact = FALSE /\ outcome.upgraded = UpgradedFrom
  BY DEF PageIs
<1>7. UpgradedFrom <=> d.version # b.version
  BY <1>1, <1>2, <1>3, <1>4 DEF UpgradedFrom
<1>8. outcome.upgraded <=> d.version # b.version
  BY <1>6, <1>7
<1>9. record # None
  BY CommandAssumption
<1>10. Tells(outcome, r, d)
  BY <1>1, <1>3, <1>4, <1>5, <1>6, <1>8, <1>9 DEF Tells, Untouched
<1> QED
  BY <1>1, <1>2, <1>3, <1>4, <1>5, <1>6, <1>10, EndsStep DEF Untouched

\* The commands that write nothing whatever they find.
LEMMA ReadOnlySteps ==
  ASSUME RunInv, CmdAddress \/ CmdStatus \/ CmdBalance \/ NoSuchAccount \/ WalkEnds
  PROVE  RunInv'
<1>1. PICK outcome :
        /\ Quiet(outcome) /\ Ends(run, outcome) /\ disk' = disk
        /\ run.state \in {"opened", "gated", "walking"}
  <2>1. CASE CmdAddress
    BY <2>1, PagesAreQuiet DEF CmdAddress, EndsUnwritten, Opened
  <2>2. CASE CmdStatus
    BY <2>2, PagesAreQuiet DEF CmdStatus, EndsUnwritten, Opened
  <2>3. CASE CmdBalance
    BY <2>3, PagesAreQuiet DEF CmdBalance, EndsUnwritten, Gated
  <2>4. CASE NoSuchAccount
    BY <2>4, PagesAreQuiet DEF NoSuchAccount, EndsUnwritten
  <2>5. CASE WalkEnds
    BY <2>5, PagesAreQuiet DEF WalkEnds, EndsUnwritten
  <2> QED
    BY <2>1, <2>2, <2>3, <2>4, <2>5
<1> QED
  BY <1>1, RunEndsQuietly

\* restore: the account's record is written, or the page reports no change.
LEMMA RestoreStep ==
  ASSUME RunInv, CmdRestore
  PROVE  RunInv'
<1>0. run.verb = "restore"
  BY DEF CmdRestore, Opened
<1>1. run.state = "opened"
  BY DEF CmdRestore, Opened
<1>2. /\ run.before = disk /\ run.account \in Accounts /\ run.gate = {}
  BY <1>1, OpenedRun
<1>3. CASE ~disk.master /\ EndsUnwritten(run, FailedPage)
  BY <1>1, <1>3, PagesAreQuiet, RunEndsQuietly DEF EndsUnwritten
<1>4. ASSUME NEW answer \in Readings, NEW found,
             found = Written(run.account, [index |-> answer, pending |-> FALSE]),
             IF answer < 0 THEN EndsUnwritten(run, FailedPage)
             ELSE IF ~Adds(run.account) THEN EndsUnwritten(run, RestoredPage(FALSE))
             ELSE \/ Committed(found)
                     /\ Ends(run, RestoredPage(run.before.held[run.account] = None))
                  \/ CommitFails(found) /\ Ends(run, CannotStorePage)
      PROVE  RunInv'
  <2>1. CASE EndsUnwritten(run, FailedPage) \/ EndsUnwritten(run, RestoredPage(FALSE))
    BY <1>1, <2>1, PagesAreQuiet, RunEndsQuietly DEF EndsUnwritten
  <2>2. CASE /\ ~(answer < 0) /\ Adds(run.account)
             /\ \/ Committed(found)
                   /\ Ends(run, RestoredPage(run.before.held[run.account] = None))
                \/ CommitFails(found) /\ Ends(run, CannotStorePage)
    <3>1. PICK record : record = [index |-> answer, pending |-> FALSE]
      OBVIOUS
    <3>2. answer \in Nat
      BY <2>2 DEF Readings, Unread
    <3>3. record \in Records
      BY <3>1, <3>2 DEF Records
    <3>4. disk.held[run.account] = None
      BY <1>2, <2>2 DEF Adds, Held
    <3>5. CASE CommitFails(found) /\ Ends(run, CannotStorePage)
      BY <1>1, <1>2, <1>4, <3>1, <3>3, <3>4, <3>5, <1>0, RestoreFails
    <3>6. CASE /\ Committed(found)
               /\ Ends(run, RestoredPage(run.before.held[run.account] = None))
      <4>1. RestoredPage(run.before.held[run.account] = None) = RestoredPage(TRUE)
        BY <1>2, <3>4 DEF RestoredPage
      <4>2. Ends(run, RestoredPage(TRUE))
        BY <3>6, <4>1
      <4>3. disk' = Written(run.account, record)
        BY <1>4, <3>1, <3>6 DEF Committed
      <4>4. PageIs(RestoredPage(TRUE), "ok", {"added"}, {}, FALSE, UpgradedFrom)
        BY LoudPages
      <4> QED
        BY <1>1, <1>2, <3>3, <3>4, <4>2, <4>3, <4>4, WrittenEnds
    <3> QED
      BY <2>2, <3>5, <3>6
  <2> QED
    BY <1>4, <2>1, <2>2
<1> QED
  BY <1>3, <1>4 DEF CmdRestore

\* reconcile: the account named is advanced, or the page reports no change.
LEMMA ReconcileStep ==
  ASSUME RunInv, CmdReconcile
  PROVE  RunInv'
<1>1. run.state = "opened"
  BY DEF CmdReconcile, Opened
<1>2. run.before = disk /\ disk \in Stores /\ run.account \in Accounts /\ run.gate = {}
  BY <1>1, OpenedRun
<1>3. ASSUME NEW answers \in [Held -> Readings], NEW advanceTo \in 0..3,
             NEW verdicts, NEW reports, NEW named, NEW advanced,
             verdicts = Verdicts(answers), reports = DivergedIn(verdicts),
             named = run.account,
             advanced = Written(named, [index |-> advanceTo, pending |-> FALSE]),
             IF named \notin Held THEN EndsUnwritten(run, ReconciledPage("not held", reports))
             ELSE IF named \notin reports
                  THEN EndsUnwritten(run, ReconciledPage("nothing", reports))
             ELSE IF \E other \in Held \ {named} : verdicts[other] = "unexplained"
                  THEN EndsUnwritten(run, ReconciledPage("second instance", reports))
             ELSE IF verdicts[named] # "ahead" \/ advanceTo # answers[named]
                  THEN EndsUnwritten(run, ReconciledPage("no advance", reports))
             ELSE \/ Committed(advanced) /\ Ends(run, ReconciledPage("advanced", reports))
                  \/ CommitFails(advanced) /\ Ends(run, FailedPage)
      PROVE  RunInv'
  <2>1. CASE \E outcome \in {"not held", "nothing", "second instance", "no advance"} :
               EndsUnwritten(run, ReconciledPage(outcome, reports))
    BY <1>1, <2>1, PagesAreQuiet, RunEndsQuietly DEF EndsUnwritten
  <2>2. CASE /\ named \in Held /\ verdicts[named] = "ahead" /\ advanceTo = answers[named]
             /\ \/ Committed(advanced) /\ Ends(run, ReconciledPage("advanced", reports))
                \/ CommitFails(advanced) /\ Ends(run, FailedPage)
    <3>1. PICK record : record = [index |-> advanceTo, pending |-> FALSE]
      OBVIOUS
    <3>2. record \in Records /\ record.index = advanceTo
      BY <3>1 DEF Records
    <3>3. PICK old : old = disk.held[named]
      OBVIOUS
    <3>4. old \in Records
      BY <1>2, <1>3, <2>2, <3>3 DEF Stores, Held
    <3>5. Verdict(old, advanceTo) = "ahead"
      BY <1>3, <2>2, <3>3 DEF Verdicts
    <3>6. advanceTo > old.index
      BY <3>4, <3>5 DEF Verdict, Unread, Lacking, Elsewhere, Records
    <3>7. CASE CommitFails(advanced) /\ Ends(run, FailedPage)
      BY <1>1, <1>2, <1>3, <3>1, <3>2, <3>7, FailedEnds
    <3>8. CASE Committed(advanced) /\ Ends(run, ReconciledPage("advanced", reports))
      <4>1. PICK outcome : outcome = ReconciledPage("advanced", reports)
        OBVIOUS
      <4>2. PageIs(outcome, "ok", {"advanced"}, reports, FALSE, UpgradedFrom)
        BY <4>1, LoudPages
      <4>3. disk' = Written(run.account, record)
        BY <1>3, <3>1, <3>8 DEF Committed
      <4> QED
        BY <1>1, <1>2, <1>3, <3>2, <3>3, <3>6, <3>8, <4>1, <4>2, <4>3, WrittenEnds
    <3> QED
      BY <2>2, <3>7, <3>8
  <2> QED
    BY <1>3, <2>1, <2>2
<1> QED
  BY <1>3, Zenon DEF CmdReconcile

\* discover begins to walk, or has no master to walk for.
LEMMA DiscoverStep ==
  ASSUME RunInv, CmdDiscover
  PROVE  RunInv'
<1>1. run.state = "opened"
  BY DEF CmdDiscover, Opened
<1>2. CASE EndsUnwritten(run, NoMasterPage)
  BY <1>1, <1>2, PagesAreQuiet, RunEndsQuietly DEF EndsUnwritten
<1>3. CASE run' = [run EXCEPT !.state = "walking"] /\ disk' = disk /\ page' = page
  <2>1. PICK r, new : r = run /\ new = [r EXCEPT !.state = "walking"]
    OBVIOUS
  <2>2. /\ RunShape(r) /\ r.before = disk /\ Untouched(r) /\ r.verb \notin Explorers
        /\ page = None /\ r.gate = {} /\ r.standing = {}
    BY <1>1, <2>1, OpenedRun
  <2>3. /\ RunShape(new) /\ new.state = "walking" /\ new.before = disk /\ Untouched(new)
        /\ new.verb \notin Explorers /\ new.gate = {} /\ new.standing = {}
    BY <2>1, <2>2 DEF RunShape, Untouched
  <2>4. StateInv'
    BY <1>3, <2>1, <2>2, <2>3 DEF StateInv, Untouched
  <2> QED
    BY <1>3, <2>2, <2>4, NoPage
<1> QED
  BY <1>2, <1>3 DEF CmdDiscover

\* The gate: the wallet starts with the diverged accounts set aside, or the
\* page that refuses it names them, or names the one it was asked for alone.
LEMMA OpenWalletStep ==
  ASSUME RunInv, OpenWallet
  PROVE  RunInv'
<1>1. run.state = "opened" /\ run.verb \in WalletVerbs /\ disk' = disk
  BY DEF OpenWallet
<1>2. PICK r : r = run
  OBVIOUS
<1>3. /\ RunShape(r) /\ disk \in Stores /\ r.before = disk /\ Untouched(r)
      /\ r.account \in Accounts /\ r.verb \notin Explorers /\ page = None
      /\ r.gate = {} /\ r.standing = {}
  BY <1>1, <1>2, OpenedRun
<1>4. PICK diverged, gated :
        /\ diverged \subseteq Held /\ gated = [r EXCEPT !.gate = diverged]
        /\ IF diverged # {} /\ diverged = Held THEN Ends(gated, StartupRefusedPage(diverged))
           ELSE IF GateRefuses(diverged) THEN Ends(gated, RefusedPage(run.account))
           ELSE /\ run' = [gated EXCEPT !.standing = diverged, !.state = "gated"]
                /\ UNCHANGED page
  <2>1. PICK answers \in [Held -> Readings] :
          LET diverged == DivergedIn(Verdicts(answers))
              gated == [run EXCEPT !.gate = diverged]
          IN  IF diverged # {} /\ diverged = Held THEN Ends(gated, StartupRefusedPage(diverged))
              ELSE IF GateRefuses(diverged) THEN Ends(gated, RefusedPage(run.account))
              ELSE /\ run' = [gated EXCEPT !.standing = diverged, !.state = "gated"]
                   /\ UNCHANGED page
    BY Zenon DEF OpenWallet
  <2>2. PICK diverged : diverged = DivergedIn(Verdicts(answers))
    OBVIOUS
  <2>3. diverged \subseteq Held
    BY <2>2 DEF DivergedIn
  <2> QED
    BY <1>2, <2>1, <2>2, <2>3, Zenon
<1>5. /\ RunShape(gated) /\ gated.state = r.state /\ gated.verb = r.verb
      /\ gated.account = r.account /\ gated.before = r.before /\ gated.gate = diverged
      /\ gated.standing = r.standing /\ gated.signed = r.signed
      /\ gated.sent = r.sent /\ gated.took = r.took
  BY <1>3, <1>4 DEF RunShape
<1>6. CASE Ends(gated, StartupRefusedPage(diverged))
  <2>1. StartupRefusedPage(diverged).named = diverged
    <3>1. PageIs(StartupRefusedPage(diverged), "startup refused", {}, diverged, FALSE, FALSE)
      BY ToldIs, FieldSet, Zenon DEF StartupRefusedPage
    <3> QED
      BY <3>1 DEF PageIs
  <2>2. PICK outcome : outcome = StartupRefusedPage(diverged)
    OBVIOUS
  <2> QED
    BY <1>1, <1>3, <1>5, <1>6, <2>1, <2>2, PagesAreQuiet, QuietEnds DEF Untouched
<1>7. CASE GateRefuses(diverged) /\ Ends(gated, RefusedPage(run.account))
  <2>1. PICK outcome : outcome = RefusedPage(run.account)
    OBVIOUS
  <2>2. outcome.named = {run.account} /\ outcome.code = "refused"
    <3>1. PageIs(RefusedPage(run.account), "refused", {}, {run.account}, FALSE, FALSE)
      BY ToldIs, FieldSet, Zenon DEF RefusedPage
    <3> QED
      BY <2>1, <3>1 DEF PageIs
  <2>3. gated.verb # "balance" /\ gated.account \in gated.gate
    BY <1>2, <1>5, <1>7 DEF GateRefuses, Addressed
  <2> QED
    BY <1>1, <1>2, <1>3, <1>5, <1>7, <2>1, <2>2, <2>3, PagesAreQuiet, QuietEnds DEF Untouched
<1>8. CASE /\ ~GateRefuses(diverged)
           /\ run' = [gated EXCEPT !.standing = diverged, !.state = "gated"]
           /\ page' = page
  <2>1. PICK new : new = [gated EXCEPT !.standing = diverged, !.state = "gated"]
    OBVIOUS
  <2>2. /\ RunShape(new) /\ new.state = "gated" /\ new.verb = r.verb
        /\ new.account = r.account /\ new.before = r.before /\ new.gate = diverged
        /\ new.standing = diverged /\ new.signed = r.signed
        /\ new.sent = r.sent /\ new.took = r.took
    BY <1>5, <2>1 DEF RunShape
  <2>3. /\ diverged \subseteq Accounts
        /\ (IF r.verb = "balance" THEN {} ELSE {r.account}) \cap diverged = {}
    BY <1>2, <1>4, <1>8 DEF GateRefuses, Addressed, Held
  <2>4. StateInv'
    BY <1>1, <1>3, <1>8, <2>1, <2>2, <2>3 DEF StateInv, AsOpened, Untouched, Addressed
  <2> QED
    BY <1>3, <1>8, <2>4, NoPage
<1> QED
  BY <1>4, <1>6, <1>7, <1>8

\* What the state of a wallet's command rests on.
LEMMA GatedRun ==
  ASSUME RunInv, run.state = "gated"
  PROVE  /\ RunShape(run) /\ disk \in Stores /\ run.before = disk /\ Untouched(run)
         /\ run.account \in Accounts /\ run.verb \notin Explorers /\ page = None
         /\ run.gate = run.standing /\ run.gate \subseteq Accounts
         /\ run.verb # "balance" => run.account \notin run.gate
BY DEF RunInv, StateInv, AsOpened

\* settle: a landed spend's record is written, or the page reports no change.
LEMMA SettleStep ==
  ASSUME RunInv, CmdSettle
  PROVE  RunInv'
<1>1. run.state = "gated" /\ run.verb = "settle" /\ run.account \in Held
  BY DEF CmdSettle, Gated
<1>2. /\ run.before = disk /\ disk \in Stores /\ run.account \in Accounts
      /\ run.account \notin run.gate
  BY <1>1, GatedRun
<1>3. PICK old : old = disk.held[run.account]
  OBVIOUS
<1>4. old \in Records
  BY <1>1, <1>2, <1>3 DEF Stores, Held
<1>5. PICK record : record = [old EXCEPT !.pending = FALSE]
  OBVIOUS
<1>6. record \in Records /\ record.pending = FALSE
  BY <1>4, <1>5 DEF Records
<1>7. PICK answer \in Readings :
        \/ \E settlement \in {"dead", "outstanding", "nothing"} :
             EndsUnwritten(run, SettledPage(settlement))
        \/ EndsUnwritten(run, FailedPage)
        \/ /\ Verdict(old, answer) = "landed"
           /\ \/ Committed(Written(run.account, record)) /\ Ends(run, SettledPage("settled"))
              \/ CommitFails(Written(run.account, record)) /\ Ends(run, FailedPage)
  <2>1. PICK answer \in Readings, dead \in BOOLEAN :
          CASE Verdict(old, answer) = "in sync" -> EndsUnwritten(run, SettledPage("nothing"))
            [] Verdict(old, answer) = "outstanding" ->
                 EndsUnwritten(run, SettledPage(IF dead THEN "dead" ELSE "outstanding"))
            [] Verdict(old, answer) = "landed" ->
                 \/ Committed(Written(run.account, record)) /\ Ends(run, SettledPage("settled"))
                 \/ CommitFails(Written(run.account, record)) /\ Ends(run, FailedPage)
            [] OTHER -> EndsUnwritten(run, FailedPage)
    BY <1>3, <1>5, Zenon DEF CmdSettle
  <2> QED
    BY <2>1
<1>8. CASE \/ \E settlement \in {"dead", "outstanding", "nothing"} :
                EndsUnwritten(run, SettledPage(settlement))
           \/ EndsUnwritten(run, FailedPage)
  BY <1>1, <1>8, PagesAreQuiet, RunEndsQuietly DEF EndsUnwritten
<1>9. CASE /\ Verdict(old, answer) = "landed" /\ Committed(Written(run.account, record))
           /\ Ends(run, SettledPage("settled"))
  <2>1. old.pending
    BY <1>4, <1>9 DEF Verdict, Records
  <2>2. PICK outcome : outcome = SettledPage("settled")
    OBVIOUS
  <2>3. PageIs(outcome, "ok", {"settled"}, {}, FALSE, UpgradedFrom)
    BY <2>2, LoudPages
  <2>4. disk.held[run.account].pending /\ ~record.pending
    BY <1>3, <1>6, <2>1
  <2> QED
    BY <1>1, <1>2, <1>6, <1>9, <2>2, <2>3, <2>4, WrittenEnds DEF Committed
<1>10. CASE CommitFails(Written(run.account, record)) /\ Ends(run, FailedPage)
  BY <1>1, <1>2, <1>6, <1>10, FailedEnds
<1> QED
  BY <1>7, <1>8, <1>9, <1>10

\* send: the reservation is committed, or the page claims nothing.
LEMMA SendStep ==
  ASSUME RunInv, CmdSend
  PROVE  RunInv'
<1>1. run.state = "gated" /\ run.verb = "send" /\ run.account \in Held
  BY DEF CmdSend, Gated
<1>2. PICK r : r = run
  OBVIOUS
<1>3. /\ RunShape(r) /\ disk \in Stores /\ r.before = disk /\ Untouched(r)
      /\ r.account \in Accounts /\ r.verb \notin Explorers /\ page = None
      /\ r.gate = r.standing /\ r.gate \subseteq Accounts
      /\ r.account \notin r.gate
  BY <1>1, <1>2, GatedRun
<1>4. PICK old : old = disk.held[run.account]
  OBVIOUS
<1>5. PICK record : record = [index |-> old.index + 1, pending |-> TRUE]
  OBVIOUS
<1>6. record \in Records
  <2>1. old \in Records
    BY <1>1, <1>2, <1>3, <1>4 DEF Stores, Held
  <2>2. old.index + 1 \in Nat
    BY <2>1 DEF Records
  <2> QED
    BY <1>5, <2>2 DEF Records
<1>7. \/ EndsUnwritten(run, FailedPage)
      \/ /\ Committed(Written(run.account, record))
         /\ run' = [run EXCEPT !.state = "reserved"] /\ page' = page
      \/ CommitFails(Written(run.account, record)) /\ Ends(run, FailedPage)
  BY <1>4, <1>5, Zenon DEF CmdSend
<1>8. CASE EndsUnwritten(run, FailedPage)
  BY <1>1, <1>8, PagesAreQuiet, RunEndsQuietly DEF EndsUnwritten
<1>9. CASE CommitFails(Written(run.account, record)) /\ Ends(run, FailedPage)
  BY <1>1, <1>2, <1>3, <1>6, <1>9, FailedEnds
<1>10. CASE /\ Committed(Written(run.account, record))
            /\ run' = [run EXCEPT !.state = "reserved"] /\ page' = page
  <2>1. PICK new, d : new = [r EXCEPT !.state = "reserved"] /\ d = disk'
    OBVIOUS
  <2>2. /\ RunShape(new) /\ new.state = "reserved" /\ new.verb = r.verb
        /\ new.account = r.account /\ new.before = r.before /\ new.gate = r.gate
        /\ new.standing = r.standing /\ new.signed = r.signed
        /\ new.sent = r.sent /\ new.took = r.took
    BY <1>3, <2>1 DEF RunShape
  <2>3. d = Written(r.account, record)
    BY <1>2, <1>10, <2>1 DEF Committed
  <2>4. /\ d \in Stores /\ d.version = VERSION
        /\ \A a \in r.gate : d.held[a] = r.before.held[a]
    BY <1>3, <1>6, <2>3, WrittenIs
  <2>5. StateInv'
    BY <1>2, <1>3, <1>10, <2>1, <2>2, <2>4 DEF StateInv, Untouched
  <2> QED
    BY <1>3, <1>10, <2>5, NoPage
<1> QED
  BY <1>7, <1>8, <1>9, <1>10

\* A run that submits ends telling what it signed and what the node took.
LEMMA SubmitsStep ==
  ASSUME NEW now, NEW pages, Submits(now, pages), RunShape(now),
         \A took, answered, r :
           /\ took \in BOOLEAN /\ answered \in BOOLEAN
           /\ answered => took
           /\ RunShape(r) /\ r.verb = now.verb /\ r.account = now.account
           /\ r.before = now.before /\ r.gate = now.gate /\ r.standing = now.standing
           /\ r.signed = now.signed /\ r.sent = TRUE /\ r.took = took
           /\ Ends(r, pages[answered])
           => RunInv'
  PROVE  RunInv'
<1>1. PICK took \in BOOLEAN, answered \in BOOLEAN :
        /\ answered => took
        /\ Ends([now EXCEPT !.sent = TRUE, !.took = took], pages[answered])
  BY DEF Submits
<1>2. PICK sent : sent = TRUE
  OBVIOUS
<1>3. PICK r : r = [now EXCEPT !.sent = sent, !.took = took]
  OBVIOUS
<1>4. /\ RunShape(r) /\ r.verb = now.verb /\ r.account = now.account
      /\ r.before = now.before /\ r.gate = now.gate /\ r.standing = now.standing
      /\ r.signed = now.signed /\ r.sent = sent /\ r.took = took
  BY <1>3 DEF RunShape
<1>5. Ends(r, pages[answered])
  BY <1>1, <1>2, <1>3
<1> QED
  BY <1>1, <1>2, <1>4, <1>5, Zenon

\* What the tail of a page says was taken, was.
LEMMA Tails ==
  ASSUME NEW submitted \in BOOLEAN
  PROVE  /\ ShippedTail(submitted) # {}
         /\ ShippedTail(submitted) \subseteq {"submitted", "submission failed"}
         /\ "submitted" \in ShippedTail(submitted) => submitted
BY DEF ShippedTail

\* send signs what it reserved and submits it.
LEMMA SendSignedStep ==
  ASSUME RunInv, SendSigned
  PROVE  RunInv'
<1>1. run.state = "reserved" /\ disk' = disk
  BY DEF SendSigned
<1>2. PICK r, signed, now : /\ r = run /\ signed = TRUE
                            /\ now = [r EXCEPT !.signed = signed]
  OBVIOUS
<1>3. /\ RunShape(r) /\ disk \in Stores /\ r.before \in Stores /\ Untouched(r)
      /\ r.verb \notin Explorers /\ r.gate = r.standing /\ r.account \notin r.gate
      /\ \A a \in r.gate : disk.held[a] = r.before.held[a]
  BY <1>1, <1>2 DEF RunInv, StateInv
<1>4. /\ RunShape(now) /\ now.verb = r.verb /\ now.account = r.account
      /\ now.before = r.before /\ now.gate = r.gate /\ now.standing = r.standing
      /\ now.signed = signed
  BY <1>2, <1>3 DEF RunShape
<1>5. PICK pages : pages = [answered \in BOOLEAN |-> SentPage(answered)]
  OBVIOUS
<1>6. Submits(now, pages)
  BY <1>2, <1>5 DEF SendSigned
<1>7. ASSUME NEW took \in BOOLEAN, NEW answered \in BOOLEAN, NEW s,
             answered => took,
             RunShape(s), s.verb = now.verb, s.account = now.account,
             s.before = now.before, s.gate = now.gate, s.standing = now.standing,
             s.signed = now.signed, s.sent = TRUE, s.took = took,
             Ends(s, pages[answered])
      PROVE  RunInv'
  <2>1. PICK outcome : outcome = SentPage(answered)
    OBVIOUS
  <2>2. pages[answered] = outcome
    BY <1>5, <2>1
  <2>3. /\ PageShape(outcome) /\ outcome.claims = ShippedTail(answered)
        /\ outcome.artifact = TRUE /\ outcome.upgraded = UpgradedFrom
    <3>1. PageIs(outcome, CodeOf(answered), ShippedTail(answered), {}, TRUE, UpgradedFrom)
      BY <2>1, LoudPages
    <3> QED
      BY <3>1 DEF PageIs
  <2>4. PICK d : d = disk
    OBVIOUS
  <2>5. UpgradedFrom <=> d.version # r.before.version
    BY <1>1, <1>2, <2>4 DEF UpgradedFrom
  <2>6. outcome.upgraded <=> d.version # r.before.version
    BY <2>3, <2>5
  <2>7. s.signed = TRUE
    BY <1>2, <1>4, <1>7
  <2>8. Tells(outcome, s, d)
    <3>1. (outcome.artifact <=> s.signed) /\ (outcome.upgraded <=> d.version # s.before.version)
      BY <1>4, <1>7, <2>3, <2>6, <2>7
    <3>2. "submitted" \in outcome.claims => s.took
      BY <1>7, <2>3, Tails
    <3>3. \A claim \in {"nothing written", "not stored", "nothing signed", "nothing sent",
                         "added", "settled", "advanced"} : claim \notin outcome.claims
      BY <2>3, Tails
    <3> QED
      BY <3>1, <3>2, <3>3 DEF Tells
  <2> QED
    BY <1>1, <1>3, <1>4, <1>7, <2>2, <2>3, <2>4, <2>8, EndsStep
<1> QED
  BY <1>4, <1>6, <1>7, SubmitsStep

\* resign signs the reserved digest again and submits it, or the page claims
\* that nothing was signed, or nothing.
LEMMA ResignStep ==
  ASSUME RunInv, CmdResign
  PROVE  RunInv'
<1>1. run.state = "gated" /\ run.verb = "resign" /\ disk' = disk
  BY DEF CmdResign, Gated
<1>2. PICK r, signed, now : /\ r = run /\ signed = TRUE
                            /\ now = [r EXCEPT !.signed = signed]
  OBVIOUS
<1>3. /\ RunShape(r) /\ disk \in Stores /\ r.before = disk /\ Untouched(r)
      /\ r.verb \notin Explorers /\ r.gate = r.standing /\ r.account \notin r.gate
  BY <1>1, <1>2, GatedRun
<1>4. /\ RunShape(now) /\ now.verb = r.verb /\ now.account = r.account
      /\ now.before = r.before /\ now.gate = r.gate /\ now.standing = r.standing
      /\ now.signed = signed
  BY <1>2, <1>3 DEF RunShape
<1>5. PICK pages : pages = [answered \in BOOLEAN |-> ResignedPage(answered)]
  OBVIOUS
<1>6. \/ \E outcome \in {LandedPage, FailedPage, NotReservedSpendPage} : Ends(run, outcome)
      \/ Submits(now, pages)
  BY <1>2, <1>5 DEF CmdResign
<1>7. CASE \E outcome \in {LandedPage, FailedPage, NotReservedSpendPage} : Ends(run, outcome)
  BY <1>1, <1>7, PagesAreQuiet, RunEndsQuietly
<1>8. ASSUME NEW took \in BOOLEAN, NEW answered \in BOOLEAN, NEW s,
             answered => took,
             RunShape(s), s.verb = now.verb, s.account = now.account,
             s.before = now.before, s.gate = now.gate, s.standing = now.standing,
             s.signed = now.signed, s.sent = TRUE, s.took = took,
             Ends(s, pages[answered])
      PROVE  RunInv'
  <2>1. PICK outcome : outcome = ResignedPage(answered)
    OBVIOUS
  <2>2. pages[answered] = outcome
    BY <1>5, <2>1
  <2>3. /\ PageShape(outcome)
        /\ outcome.claims = ShippedTail(answered)
                              \cup IF answered THEN {} ELSE {"nothing written"}
        /\ outcome.artifact = TRUE /\ outcome.upgraded = FALSE
    <3>1. PageIs(outcome, CodeOf(answered),
                 ShippedTail(answered) \cup IF answered THEN {} ELSE {"nothing written"},
                 {}, TRUE, FALSE)
      BY <2>1, LoudPages
    <3> QED
      BY <3>1 DEF PageIs
  <2>4. PICK d : d = disk
    OBVIOUS
  <2>5. s.signed = TRUE
    BY <1>2, <1>4, <1>8
  <2>6. /\ outcome.claims \subseteq {"submitted", "submission failed", "nothing written"}
        /\ "submitted" \in outcome.claims => took
    BY <1>8, <2>3, Tails
  <2>7. d = s.before
    BY <1>3, <1>4, <1>8, <2>4
  <2>8. Tells(outcome, s, d)
    <3>1. ~outcome.upgraded /\ (outcome.artifact <=> s.signed)
      BY <2>3, <2>5
    <3>2. "submitted" \in outcome.claims => s.took
      BY <1>8, <2>6
    <3>3. \A claim \in {"not stored", "nothing signed", "nothing sent", "added", "settled",
                         "advanced"} : claim \notin outcome.claims
      BY <2>6
    <3> QED
      BY <2>7, <3>1, <3>2, <3>3 DEF Tells
  <2> QED
    BY <1>1, <1>3, <1>4, <1>8, <2>2, <2>3, <2>4, <2>8, EndsStep
<1> QED
  BY <1>4, <1>6, <1>7, <1>8, SubmitsStep

\* submit opens no store, so its page is of no run the properties ask about.
LEMMA SubmitStep ==
  ASSUME RunInv, CmdSubmit
  PROVE  RunInv'
<1>1. PICK r : r = run
  OBVIOUS
<1>2. /\ run.state = "asking a node" /\ run.verb = "submit" /\ disk' = disk
      /\ RunShape(r) /\ r.before = None /\ r.gate = {} /\ r.standing = {} /\ Untouched(r)
  BY <1>1 DEF CmdSubmit, RunInv, StateInv, Unopened
<1>3. PICK pages : pages = [answered \in BOOLEAN |-> SubmittedPage(answered)]
  OBVIOUS
<1>4. Ends(run, NotSubmittedPage) \/ Submits(r, pages)
  BY <1>1, <1>3 DEF CmdSubmit
<1>5. ASSUME NEW code, NEW claims, NEW s, NEW outcome, outcome = Told(code, claims),
             RunShape(s), s.verb = r.verb, s.before = r.before, s.gate = r.gate,
             Ends(s, outcome)
      PROVE  RunInv'
  <2>1. PageShape(outcome)
    BY <1>5, ToldIs DEF PageIs
  <2>2. s.verb \notin Explorers
    BY <1>1, <1>2, <1>5 DEF Explorers
  <2> QED
    BY <1>2, <1>5, <2>1, <2>2, EndsStep
<1>6. CASE Ends(run, NotSubmittedPage)
  BY <1>1, <1>2, <1>5, <1>6 DEF NotSubmittedPage
<1>7. CASE Submits(r, pages)
  <2>1. ASSUME NEW took \in BOOLEAN, NEW answered \in BOOLEAN, NEW s,
               RunShape(s), s.verb = r.verb, s.before = r.before, s.gate = r.gate,
               Ends(s, pages[answered])
        PROVE  RunInv'
    <3>1. pages[answered] = Told(CodeOf(answered),
                                 ShippedTail(answered) \cup {"nothing written", "nothing signed"})
      BY <1>3 DEF SubmittedPage
    <3> QED
      BY <1>5, <2>1, <3>1
  <2> QED
    BY <1>2, <1>7, <2>1, SubmitsStep
<1> QED
  BY <1>4, <1>6, <1>7

\* An explorer verb begins to read.
LEMMA ExplorerStep ==
  ASSUME RunInv, RunExplorer \/ AskNextPage
  PROVE  RunInv'
<1>1. PICK r, new : r = run /\ new = [r EXCEPT !.state = "walking"]
  OBVIOUS
<1>2. /\ run' = new /\ page' = None /\ disk' = disk
      /\ RunShape(r) /\ r.before = None /\ r.gate = {} /\ r.standing = {} /\ Untouched(r)
  <2>1. CASE RunExplorer
    BY <1>1, <2>1 DEF RunExplorer, RunInv, StateInv, Unopened
  <2>2. CASE AskNextPage
    BY <1>1, <2>2 DEF AskNextPage, RunInv, StateInv, Unopened, Explorers
  <2> QED
    BY <2>1, <2>2
<1>3. /\ RunShape(new) /\ new.state = "walking" /\ new.before = None
      /\ new.gate = {} /\ new.standing = {} /\ Untouched(new)
  BY <1>1, <1>2 DEF RunShape, Untouched
<1>4. StateInv'
  BY <1>2, <1>3 DEF StateInv, Untouched
<1> QED
  BY <1>2, <1>4, NoPage

\* Every step keeps the run's invariant.
LEMMA RunStep ==
  ASSUME RunInv, [Next]_vars
  PROVE  RunInv'
<1>1. CASE AskPassword \/ AskForCreate \/ Walks \/ External \/ UNCHANGED vars
  <2>1. UNCHANGED runVars
    BY <1>1 DEF AskPassword, AskForCreate, Walks, External, vars
  <2> QED
    BY <2>1, RunUntouched
<1>2. CASE Invoke \/ CreateEnds \/ KillRun \/ OpenStore \/ Done
  BY <1>2, InvokeStep, CreateEndsStep, KillRunStep, OpenStoreStep, DoneStep
<1>3. CASE CmdRestore \/ CmdAddress \/ CmdStatus \/ CmdReconcile \/ CmdDiscover
  BY <1>3, RestoreStep, ReadOnlySteps, ReconcileStep, DiscoverStep
<1>4. CASE \/ OpenWallet \/ CmdBalance \/ NoSuchAccount \/ CmdSettle \/ CmdSend
           \/ SendSigned \/ CmdResign
  BY <1>4, OpenWalletStep, ReadOnlySteps, SettleStep, SendStep, SendSignedStep, ResignStep
<1>5. CASE CmdSubmit \/ RunExplorer \/ WalkEnds \/ AskNextPage
  BY <1>5, SubmitStep, ExplorerStep, ReadOnlySteps
<1> QED
  BY <1>1, <1>2, <1>3, <1>4, <1>5 DEF Next

\* The state a run is in is what its page will be answered from.
THEOREM RunInvariant == Spec => []RunInv
<1>1. InitCommand => RunInv
  BY RunInit
<1>2. RunInv /\ [Next]_vars => RunInv'
  BY RunStep
<1> QED
  BY <1>1, <1>2, PTL DEF Spec

\* A page tells what its run did (PageTellsTheRun), for any stores and any
\* accounts: what it says was not written, signed or sent was not, what it says
\* was added, settled, advanced or submitted was, and the signed bytes are on
\* the page of exactly the runs that signed.  The page of a restore that could
\* not store is the exception: only the other accounts are as they were.
THEOREM PageTellsTheRunHolds == Spec => []PageTellsTheRun
<1>1. RunInv => PageTellsTheRun
  BY DEF RunInv
<1> QED
  BY <1>1, RunInvariant, PTL

\* Every account the gate set aside is on the page, or the one asked for alone,
\* and none of them was signed for or moved (DivergedAreNamed).
THEOREM DivergedAreNamedHolds == Spec => []DivergedAreNamed
<1>1. RunInv => DivergedAreNamed
  BY DEF RunInv
<1> QED
  BY <1>1, RunInvariant, PTL

-----------------------------------------------------------------------------
(* The terminal.                                                            *)

\* The device, and what its echo is while something holds or released it.
EchoInv ==
  /\ windows \in BOOLEAN
  /\ tty \in [state : {"closed", "open", "asking", "answered", "refused"},
              guarded : BOOLEAN, found : BOOLEAN]
  /\ echo \in BOOLEAN
  /\ tty.guarded => ~echo
  /\ tty.state = "asking" /\ ~tty.guarded => echo \/ (windows /\ ~tty.found)

Keys == Unit \cup {LF}

\* What a line is read from.
Pressed(r) == IF r.enter THEN Append(r.typed, LF) ELSE r.typed

\* What was read of a line and what is left are what was typed; on Windows what
\* was read is whole characters, and does not begin with Ctrl-Z.
ReadingOK(r) ==
  /\ r \in [typed : Seq(Unit), enter : BOOLEAN, line : Seq(Keys), lineStart : BOOLEAN,
            left : Seq(Keys)]
  /\ r.line \o r.left = Pressed(r)
  /\ r.enter => r.left # <<>>
  /\ r.lineStart <=> r.line = <<>>
  /\ windows /\ ~r.enter => r.typed = <<>>
  /\ windows => WellFormed(r.line) /\ (r.line # <<>> => r.line[1] # "Z")

ConsoleInv ==
  /\ EchoInv
  /\ tty.state = "asking" => ReadingOK(reading)
  /\ LineIsWhatWasTyped

\* Enter is no half of a character.
LEMMA EnterIsNoHalf ==
  ASSUME NEW typed \in Seq(Unit)
  PROVE  WellFormed(Append(typed, LF)) <=> WellFormed(typed)
<1> DEFINE full == Append(typed, LF)
<1>1. /\ Len(full) = Len(typed) + 1 /\ full[Len(typed) + 1] = LF
      /\ \A i \in 1..Len(typed) : full[i] = typed[i] /\ typed[i] # LF
      /\ Len(typed) \in Nat
  BY DEF Unit, LF
<1>2. LF # "high" /\ LF # "low"
  BY DEF LF
<1> HIDE DEF full
<1>3. ASSUME WellFormed(full) PROVE WellFormed(typed)
  BY <1>1, <1>2, <1>3 DEF WellFormed
<1>4. ASSUME WellFormed(typed) PROVE WellFormed(full)
  BY <1>1, <1>2, <1>4 DEF WellFormed
<1> QED
  BY <1>3, <1>4 DEF full

\* It is the same line whichever of its parts are joined first.
LEMMA JoinsInAnyOrder ==
  ASSUME NEW S, NEW a \in Seq(S), NEW b \in Seq(S), NEW c \in Seq(S)
  PROVE  (a \o b) \o c = a \o (b \o c)
  BY ConcatAssociative

\* One read of n units takes the next n.
Parts(line, left, n, units, next, rest, full) ==
  /\ line \in Seq(Keys) /\ left \in Seq(Keys) /\ n \in 1..Len(left)
  /\ units = SubSeq(left, 1, n) /\ next = line \o units
  /\ rest = SubSeq(left, n + 1, Len(left)) /\ full = line \o left

\* What that makes of them.
Joined(line, left, n, units, next, rest, full) ==
  /\ line \in Seq(Keys) /\ left \in Seq(Keys) /\ n \in 1..Len(left)
  /\ units \in Seq(Keys) /\ Len(units) = n
  /\ next \in Seq(Keys) /\ Len(next) = Len(line) + n
  /\ rest \in Seq(Keys) /\ Len(rest) = Len(left) - n
  /\ full \in Seq(Keys) /\ Len(full) = Len(line) + Len(left)
  /\ \A i \in 1..n : units[i] = left[i] /\ units[i] = full[Len(line) + i]
  /\ \A i \in 1..Len(line) : line[i] = full[i] /\ next[i] = full[i]
  /\ \A i \in 1..n : next[Len(line) + i] = units[i]
  /\ \A i \in 1..Len(left) : left[i] = full[Len(line) + i]
  /\ next \o rest = full

\* One read takes the next units and leaves the others.
LEMMA ReadParts ==
  ASSUME NEW line, NEW left, NEW n, NEW units, NEW next, NEW rest, NEW full,
         Parts(line, left, n, units, next, rest, full)
  PROVE  Joined(line, left, n, units, next, rest, full)
<1>0. /\ line \in Seq(Keys) /\ left \in Seq(Keys) /\ n \in 1..Len(left)
      /\ units = SubSeq(left, 1, n) /\ next = line \o units
      /\ rest = SubSeq(left, n + 1, Len(left)) /\ full = line \o left
  BY DEF Parts
<1>1. Len(line) \in Nat /\ Len(left) \in Nat /\ n \in Nat /\ n <= Len(left)
  BY <1>0
<1>2. units \in Seq(Keys) /\ Len(units) = n /\ \A i \in 1..n : units[i] = left[i]
  BY <1>0, <1>1
<1>3. next \in Seq(Keys) /\ Len(next) = Len(line) + n
  BY <1>0, <1>1, <1>2
<1>4. rest \in Seq(Keys) /\ Len(rest) = Len(left) - n
  BY <1>0, <1>1
<1>5. full \in Seq(Keys) /\ Len(full) = Len(line) + Len(left)
  BY <1>0, <1>1
<1>6. \A i \in 1..Len(left) : left[i] = full[Len(line) + i]
  BY <1>0, <1>1, <1>5
<1>7. \A i \in 1..Len(line) : line[i] = full[i] /\ next[i] = full[i]
  BY <1>0, <1>1, <1>2, <1>3, <1>5
<1>8. \A i \in 1..n : next[Len(line) + i] = units[i]
  BY <1>0, <1>1, <1>2, <1>3
<1>9. next \o rest = full
  <2>1. 1 \in 1..(Len(left) + 1) /\ n \in 0..Len(left)
    BY <1>0, <1>1
  <2>2. SubSeq(left, 1, n) \o SubSeq(left, n + 1, Len(left)) = SubSeq(left, 1, Len(left))
    BY <1>0, <1>1, <2>1, ConcatAdjacentSubSeq
  <2>3. units \o rest = left
    BY <1>0, <2>2, SubSeqFull
  <2>4. (line \o units) \o rest = line \o (units \o rest)
    <3>1. line \in Seq(Keys) /\ units \in Seq(Keys) /\ rest \in Seq(Keys)
      BY <1>0, <1>2, <1>4
    <3> QED
      BY <3>1, JoinsInAnyOrder
  <2> QED
    BY <1>0, <2>3, <2>4
<1>10. \A i \in 1..n : n <= Len(left) /\ i \in 1..Len(left)
  BY <1>1
<1> QED
  BY <1>0, <1>2, <1>3, <1>4, <1>5, <1>6, <1>7, <1>8, <1>9, <1>10 DEF Joined

\* Whole characters after whole characters are whole characters.
LEMMA WholeAfterWhole ==
  ASSUME NEW line, NEW left, NEW n, NEW units, NEW next, NEW rest, NEW full,
         Parts(line, left, n, units, next, rest, full),
         WellFormed(line), WellFormed(units)
  PROVE  WellFormed(next)
<1>0. Joined(line, left, n, units, next, rest, full)
  BY ReadParts
<1>1. /\ Len(line) \in Nat /\ n \in Nat /\ Len(units) = n /\ Len(next) = Len(line) + n
      /\ \A i \in 1..Len(line) : next[i] = line[i]
      /\ \A i \in 1..n : next[Len(line) + i] = units[i]
  BY <1>0 DEF Joined
<1> SUFFICES ASSUME NEW i \in 1..Len(next)
             PROVE  /\ next[i] = "high" => i < Len(next) /\ next[i + 1] = "low"
                    /\ next[i] = "low" => i > 1 /\ next[i - 1] = "high"
  BY DEF WellFormed
<1>2. CASE i <= Len(line)
  <2>1. i \in 1..Len(line) /\ next[i] = line[i]
    BY <1>1, <1>2
  <2>2. /\ line[i] = "high" => i < Len(line) /\ line[i + 1] = "low"
        /\ line[i] = "low" => i > 1 /\ line[i - 1] = "high"
    BY <2>1 DEF WellFormed
  <2>3. /\ i < Len(line) => next[i + 1] = line[i + 1]
        /\ i > 1 => next[i - 1] = line[i - 1]
    <3>1. i < Len(line) => i + 1 \in 1..Len(line)
      BY <1>1, <2>1
    <3>2. i > 1 => i - 1 \in 1..Len(line)
      BY <1>1, <2>1
    <3> QED
      BY <1>1, <3>1, <3>2
  <2> QED
    BY <1>1, <2>1, <2>2, <2>3
<1>3. CASE i > Len(line)
  <2>1. PICK j \in 1..n : i = Len(line) + j
    <3>1. i - Len(line) \in 1..n /\ i = Len(line) + (i - Len(line))
      BY <1>1, <1>3
    <3> QED
      BY <3>1
  <2>2. /\ units[j] = "high" => j < n /\ units[j + 1] = "low"
        /\ units[j] = "low" => j > 1 /\ units[j - 1] = "high"
    BY <1>1 DEF WellFormed
  <2>3. /\ next[i] = units[j]
        /\ j < n => next[i + 1] = units[j + 1]
        /\ j > 1 => next[i - 1] = units[j - 1]
    <3>1. j < n => j + 1 \in 1..n /\ i + 1 = Len(line) + (j + 1)
      BY <1>1, <2>1
    <3>2. j > 1 => j - 1 \in 1..n /\ i - 1 = Len(line) + (j - 1)
      BY <1>1, <2>1
    <3> QED
      BY <1>1, <2>1, <3>1, <3>2
  <2> QED
    BY <1>1, <2>1, <2>2, <2>3
<1> QED
  BY <1>1, <1>2, <1>3

\* What is read of whole characters after whole characters, up to no first
\* half, is whole characters.
LEMMA WholeReads ==
  ASSUME NEW line, NEW left, NEW n, NEW units, NEW next, NEW rest, NEW full,
         Parts(line, left, n, units, next, rest, full),
         WellFormed(line), WellFormed(full), units[n] # "high"
  PROVE  WellFormed(units)
<1>0. Joined(line, left, n, units, next, rest, full)
  BY ReadParts
<1>1. /\ Len(line) \in Nat /\ n \in Nat /\ Len(units) = n
      /\ n <= Len(left) /\ Len(full) = Len(line) + Len(left) /\ Len(left) \in Nat
      /\ \A i \in 1..Len(line) : full[i] = line[i]
      /\ \A i \in 1..n : full[Len(line) + i] = units[i]
  BY <1>0 DEF Joined
<1> SUFFICES ASSUME NEW j \in 1..n
             PROVE  /\ units[j] = "high" => j < n /\ units[j + 1] = "low"
                    /\ units[j] = "low" => j > 1 /\ units[j - 1] = "high"
  BY <1>1 DEF WellFormed
<1>2. PICK k : k = Len(line) + j
  OBVIOUS
<1>3. k \in 1..Len(full) /\ full[k] = units[j]
  BY <1>1, <1>2
<1>4. /\ units[j] = "high" => full[k + 1] = "low"
      /\ units[j] = "low" => k > 1 /\ full[k - 1] = "high"
  BY <1>3 DEF WellFormed
<1>5. ASSUME units[j] = "high" PROVE j < n /\ units[j + 1] = "low"
  <2>1. j < n
    BY <1>1, <1>5
  <2>2. j + 1 \in 1..n /\ k + 1 = Len(line) + (j + 1)
    BY <1>1, <1>2, <2>1
  <2> QED
    BY <1>1, <1>4, <1>5, <2>1, <2>2
<1>6. ASSUME units[j] = "low" PROVE j > 1 /\ units[j - 1] = "high"
  <2>1. CASE j = 1
    <3>1. k - 1 = Len(line) /\ Len(line) \in 1..Len(line) /\ full[k - 1] = "high"
      BY <1>1, <1>2, <1>4, <1>6, <2>1
    <3>2. line[Len(line)] = "high"
      BY <1>1, <3>1
    <3> QED
      BY <3>1, <3>2 DEF WellFormed
  <2>2. CASE j > 1
    <3>1. j - 1 \in 1..n /\ k - 1 = Len(line) + (j - 1)
      BY <1>1, <1>2, <2>2
    <3> QED
      BY <1>1, <1>4, <1>6, <2>2, <3>1
  <2> QED
    BY <1>1, <2>1, <2>2
<1> QED
  BY <1>5, <1>6

\* The terminal's variables are untouched.
LEMMA ConsoleUntouched ==
  ASSUME ConsoleInv, UNCHANGED consoleVars
  PROVE  ConsoleInv'
  BY DEF ConsoleInv, EchoInv, ReadingOK, LineIsWhatWasTyped, consoleVars, WellFormed,
         END_OF_INPUT, LineOf, Unreadable, Pressed

\* What a guard that is dropped leaves is a mode of the device.
LEMMA DropIsAMode ==
  ASSUME EchoInv, DropGuard
  PROVE  echo' \in BOOLEAN
<1>1. tty.found \in BOOLEAN /\ echo \in BOOLEAN /\ Restored \in BOOLEAN
  BY DEF EchoInv, Restored
<1> QED
  BY <1>1 DEF DropGuard

\* A terminal that is taken, refused, let go or killed asks nothing.
LEMMA TerminalSteps ==
  ASSUME ConsoleInv,
         \/ OpenTerminal \/ Refuse \/ CloseTerminal \/ KillTty \/ ShellRestoresEcho
  PROVE  ConsoleInv'
<1>1. PICK found : found = echo /\ found \in BOOLEAN
  BY DEF ConsoleInv, EchoInv
<1>2. EchoInv' /\ tty'.state # "asking"
  <2>1. CASE OpenTerminal
    <3>1. PICK on, off : on = TRUE /\ off = FALSE
      OBVIOUS
    <3>4. windows' = windows /\ windows \in BOOLEAN
      BY <2>1 DEF OpenTerminal, ConsoleInv, EchoInv
    <3>2. CASE echo' = FALSE /\ tty' = Tty("open", TRUE, echo)
      <4>1. tty' = [state |-> "open", guarded |-> on, found |-> found]
        BY <1>1, <3>1, <3>2 DEF Tty
      <4>2. /\ tty'.state = "open" /\ tty'.guarded = on
            /\ tty' \in [state : {"closed", "open", "asking", "answered", "refused"},
                         guarded : BOOLEAN, found : BOOLEAN]
        BY <1>1, <3>1, <4>1
      <4> QED
        BY <3>1, <3>2, <3>4, <4>2, Zenon DEF EchoInv
    <3>3. CASE tty' = Failed /\ echo' = echo
      <4>1. tty' = [state |-> "refused", guarded |-> off, found |-> on]
        BY <3>1, <3>3 DEF Tty, Failed
      <4>2. /\ tty'.state = "refused" /\ tty'.guarded = off
            /\ tty' \in [state : {"closed", "open", "asking", "answered", "refused"},
                         guarded : BOOLEAN, found : BOOLEAN]
        BY <1>1, <3>1, <4>1
      <4> QED
        BY <1>1, <3>1, <3>3, <3>4, <4>2 DEF EchoInv
    <3> QED
      BY <2>1, <3>2, <3>3 DEF OpenTerminal
  <2>2. CASE Refuse
    BY <2>2, DropIsAMode DEF Refuse, ConsoleInv, EchoInv, Failed, Tty
  <2>3. CASE CloseTerminal
    BY <2>3, DropIsAMode DEF CloseTerminal, ConsoleInv, EchoInv, NoTty, Tty
  <2>4. CASE KillTty
    BY <2>4 DEF KillTty, ConsoleInv, EchoInv, NoTty, Tty
  <2>5. CASE ShellRestoresEcho
    BY <2>5 DEF ShellRestoresEcho, ConsoleInv, EchoInv, NoTty, Tty
  <2> QED
    BY <2>1, <2>2, <2>3, <2>4, <2>5
<1>3. windows' = windows /\ (heard' = heard \/ heard' = None)
  BY DEF OpenTerminal, Refuse, CloseTerminal, KillTty, ShellRestoresEcho
<1>4. LineIsWhatWasTyped'
  <2>1. CASE heard' = None
    BY <2>1 DEF LineIsWhatWasTyped
  <2>2. CASE heard' = heard
    <3>1. UNCHANGED <<windows, heard>> /\ LineIsWhatWasTyped
      BY <1>3, <2>2 DEF ConsoleInv
    <3> QED
      BY <3>1 DEF LineIsWhatWasTyped
  <2> QED
    BY <1>3, <2>1, <2>2
<1> QED
  BY <1>2, <1>4 DEF ConsoleInv

\* A line that is asked for is one of which nothing was read.
LEMMA PromptedReads ==
  ASSUME Prompted, windows' = windows, windows \in BOOLEAN
  PROVE  ReadingOK(reading)'
<1>1. PICK typed \in Typed, enter \in BOOLEAN :
        /\ windows /\ ~enter => typed = <<>>
        /\ reading' = [typed |-> typed, enter |-> enter, line |-> <<>>, lineStart |-> TRUE,
                       left |-> IF enter THEN Append(typed, LF) ELSE typed]
  BY DEF Prompted
<1>2. PICK left : left = IF enter THEN Append(typed, LF) ELSE typed
  OBVIOUS
<1>3. PICK begun : begun = TRUE
  OBVIOUS
<1>4. reading' = [typed |-> typed, enter |-> enter, line |-> <<>>, lineStart |-> begun,
                  left |-> left]
  BY <1>1, <1>2, <1>3
<1>5. typed \in Seq(Unit) /\ typed \in Seq(Keys) /\ <<>> \in Seq(Keys)
  BY ConsoleAssumption DEF Keys
<1>6. left \in Seq(Keys) /\ (enter => left # <<>>)
  BY <1>2, <1>5 DEF Keys
<1>7. <<>> \o left = left
  BY <1>6
<1>8. WellFormed(<<>>)
  BY DEF WellFormed
<1>9. /\ reading'.typed = typed /\ reading'.enter = enter /\ reading'.line = <<>>
      /\ reading'.lineStart = begun /\ reading'.left = left
      /\ reading' \in [typed : Seq(Unit), enter : BOOLEAN, line : Seq(Keys),
                       lineStart : BOOLEAN, left : Seq(Keys)]
  BY <1>3, <1>4, <1>5, <1>6
<1>10. Pressed(reading') = left
  BY <1>2, <1>9 DEF Pressed
<1> QED
  BY <1>1, <1>3, <1>6, <1>7, <1>8, <1>9, <1>10 DEF ReadingOK, WellFormed, Pressed

\* A secret is asked silently and a confirmation with the echo put back.
LEMMA AskStep ==
  ASSUME ConsoleInv, ReadSecretLine \/ ReadVisibleLine
  PROVE  ConsoleInv'
<1>1. CASE Refuse
  BY <1>1, TerminalSteps
<1>2. CASE /\ CanAsk /\ Prompted /\ heard' = None /\ windows' = windows
           /\ tty' = [tty EXCEPT !.state = "asking"] /\ echo' = echo
  <2>1. EchoInv'
    BY <1>2 DEF CanAsk, ConsoleInv, EchoInv
  <2>2. ReadingOK(reading)'
    BY <1>2, PromptedReads DEF ConsoleInv, EchoInv
  <2> QED
    BY <1>2, <2>1, <2>2 DEF ConsoleInv, LineIsWhatWasTyped
<1>3. CASE /\ CanAsk /\ RestoreChecked /\ Prompted /\ heard' = None /\ windows' = windows
           /\ tty' = [tty EXCEPT !.state = "asking", !.guarded = FALSE]
  <2>1. PICK open : open = FALSE
    OBVIOUS
  <2>2. tty' = [tty EXCEPT !.state = "asking", !.guarded = open]
    BY <1>3, <2>1
  <2>3. /\ tty'.state = "asking" /\ tty'.guarded = open /\ tty'.found = tty.found
        /\ tty' \in [state : {"closed", "open", "asking", "answered", "refused"},
                     guarded : BOOLEAN, found : BOOLEAN]
    BY <2>1, <2>2 DEF ConsoleInv, EchoInv
  <2>4. echo' = IF windows THEN tty.found ELSE TRUE
    BY <1>3 DEF RestoreChecked, Restored
  <2>5. EchoInv'
    BY <1>3, <2>1, <2>3, <2>4 DEF ConsoleInv, EchoInv
  <2>6. ReadingOK(reading)'
    BY <1>3, PromptedReads DEF ConsoleInv, EchoInv
  <2> QED
    BY <1>3, <2>5, <2>6 DEF ConsoleInv, LineIsWhatWasTyped
<1> QED
  BY <1>1, <1>2, <1>3 DEF ReadSecretLine, ReadVisibleLine

\* What a prompt with this typed should come to.
Due(typed, enter) ==
  IF \/ typed = <<>> /\ ~enter
     \/ windows /\ typed # <<>> /\ typed[1] = "Z"
  THEN END_OF_INPUT
  ELSE IF WellFormed(typed) THEN LineOf(typed)
  ELSE Unreadable

\* A line delivered as it is due is what was typed.
LEMMA DeliverStep ==
  ASSUME ConsoleInv, NEW got, Deliver(got), tty.state = "asking",
         got = Due(reading.typed, reading.enter)
  PROVE  ConsoleInv'
<1>1. EchoInv' /\ tty'.state # "asking"
  BY DEF Deliver, ConsoleInv, EchoInv
<1>2. /\ heard'.typed = reading.typed /\ heard'.enter = reading.enter /\ heard'.got = got
      /\ windows' = windows
  BY DEF Deliver
<1>3. LineIsWhatWasTyped'
  BY <1>2 DEF Due, LineIsWhatWasTyped, WellFormed, END_OF_INPUT, LineOf, Unreadable
<1> QED
  BY <1>1, <1>3 DEF ConsoleInv

\* The input that ends leaves the line that was read.
LEMMA ReadEndStep ==
  ASSUME ConsoleInv, ReadEnd
  PROVE  ConsoleInv'
<1>1. /\ tty.state = "asking" /\ reading.left = <<>> /\ Deliver(Answered(reading.line))
      /\ ReadingOK(reading)
  BY DEF ReadEnd, ConsoleInv
<1>2. PICK line, typed : line = reading.line /\ typed = reading.typed
  OBVIOUS
<1>3. /\ reading.enter = FALSE /\ typed \in Seq(Unit) /\ line \in Seq(Keys)
      /\ line \o <<>> = typed /\ (windows => typed = <<>>)
  BY <1>1, <1>2 DEF ReadingOK, Pressed
<1>4. line = typed
  BY <1>3
<1>5. typed # <<>> => Len(typed) \in 1..Len(typed) /\ typed[Len(typed)] \in Unit
  BY <1>3
<1>6. typed # <<>> => typed[Len(typed)] # LF
  BY <1>5 DEF Unit, LF
<1>7. Answered(line) = Due(typed, FALSE)
  <2>1. CASE typed = <<>>
    BY <1>4, <2>1 DEF Answered, Due
  <2>2. CASE typed # <<>>
    BY <1>3, <1>4, <1>6, <2>2 DEF Answered, Due
  <2> QED
    BY <2>1, <2>2
<1> QED
  BY <1>1, <1>2, <1>3, <1>7, DeliverStep

\* Enter, when it was pressed, is the last key of a line and no other.
LEMMA EnterIsLast ==
  ASSUME NEW r, ReadingOK(r), NEW full, full = Pressed(r)
  PROVE  /\ full \in Seq(Keys) /\ r.typed \in Seq(Unit)
         /\ \A i \in 1..Len(full) : full[i] = LF <=> r.enter /\ i = Len(full)
         /\ r.enter => full = Append(r.typed, LF) /\ Len(full) = Len(r.typed) + 1
         /\ ~r.enter => full = r.typed
         /\ r.typed # <<>> => full # <<>> /\ full[1] = r.typed[1]
         /\ WellFormed(full) <=> WellFormed(r.typed)
<1>1. PICK typed, enter : typed = r.typed /\ enter = r.enter
  OBVIOUS
<1>2. /\ typed \in Seq(Unit) /\ enter \in BOOLEAN
      /\ full = IF enter THEN Append(typed, LF) ELSE typed
  BY <1>1 DEF ReadingOK, Pressed
<1>3. typed \in Seq(Keys) /\ \A i \in 1..Len(typed) : typed[i] # LF
  BY <1>2 DEF Unit, LF, Keys
<1>4. CASE enter
  <2>1. /\ full \in Seq(Keys) /\ Len(full) = Len(typed) + 1 /\ full[Len(full)] = LF
        /\ \A i \in 1..Len(typed) : full[i] = typed[i]
    BY <1>2, <1>3, <1>4 DEF Keys
  <2>2. \A i \in 1..Len(full) : full[i] = LF <=> i = Len(full)
    BY <1>2, <1>3, <2>1
  <2>3. typed # <<>> => 1 \in 1..Len(typed) /\ full # <<>>
    BY <1>2, <2>1
  <2>4. full = Append(typed, LF) /\ (WellFormed(full) <=> WellFormed(typed))
    BY <1>2, <1>4, EnterIsNoHalf
  <2> QED
    BY <1>1, <1>2, <1>4, <2>1, <2>2, <2>3, <2>4
<1>5. CASE ~enter
  BY <1>1, <1>2, <1>3, <1>5
<1> QED
  BY <1>2, <1>4, <1>5

\* The first key is the first one read, when nothing was read before it.
LEMMA FirstIsRead ==
  ASSUME NEW line, NEW left, NEW n, NEW units, NEW next, NEW rest, NEW full,
         Parts(line, left, n, units, next, rest, full),
         full[1] = "Z", line # <<>> => line[1] # "Z"
  PROVE  line = <<>> /\ units[1] = "Z"
<1>0. Joined(line, left, n, units, next, rest, full)
  BY ReadParts
<1>1. /\ line \in Seq(Keys) /\ n \in Nat /\ n >= 1
      /\ \A i \in 1..n : units[i] = full[Len(line) + i]
      /\ \A i \in 1..Len(line) : line[i] = full[i]
  BY <1>0 DEF Joined
<1>2. line # <<>> => 1 \in 1..Len(line)
  BY <1>1
<1>3. line = <<>>
  BY <1>1, <1>2
<1>4. Len(line) = 0 /\ 1 \in 1..n
  BY <1>1, <1>3
<1> QED
  BY <1>1, <1>3, <1>4

\* One read of m units of what is left, and what it leaves.
LEMMA ReadOnce ==
  ASSUME NEW r, ReadingOK(r), NEW m \in 1..Len(r.left),
         NEW units, units = SubSeq(r.left, 1, m),
         NEW next, next = r.line \o units,
         NEW rest, rest = SubSeq(r.left, m + 1, Len(r.left)),
         NEW full, full = Pressed(r)
  PROVE  /\ Parts(r.line, r.left, m, units, next, rest, full)
         /\ r.typed # <<>> /\ r.typed[1] = "Z" /\ windows => r.line = <<>> /\ units[1] = "Z"
<1>1. Parts(r.line, r.left, m, units, next, rest, full)
  BY DEF Parts, ReadingOK
<1>2. ASSUME r.typed # <<>>, r.typed[1] = "Z", windows
      PROVE  r.line = <<>> /\ units[1] = "Z"
  <2>1. full[1] = "Z"
    BY <1>2, EnterIsLast
  <2>2. r.line # <<>> => r.line[1] # "Z"
    BY <1>2 DEF ReadingOK
  <2> QED
    BY <1>1, <2>1, <2>2, FirstIsRead
<1> QED
  BY <1>1, <1>2

\* A first half is taken with the second.
LEMMA NoHalfIsLeft ==
  ASSUME NEW r, ReadingOK(r), NEW m \in 1..Len(r.left), NEW n \in 1..m,
         r.left[n] = "high" => m = n + 1, r.left[n] # "high" => m = n,
         WellFormed(r.typed)
  PROVE  r.left[m] # "high"
<1>1. PICK line, left, full : line = r.line /\ left = r.left /\ full = Pressed(r)
  OBVIOUS
<1>2. line \in Seq(Keys) /\ left \in Seq(Keys) /\ full = line \o left /\ WellFormed(full)
  BY <1>1, EnterIsLast DEF ReadingOK
<1>3. Len(full) = Len(line) + Len(left) /\ Len(line) \in Nat /\ Len(left) \in Nat
  BY <1>2
<1>4. \A i \in 1..Len(left) : left[i] = full[Len(line) + i]
  BY <1>2
<1>5. CASE left[n] = "high"
  <2>1. n \in 1..Len(left) /\ m = n + 1 /\ m \in 1..Len(left)
    BY <1>1, <1>3, <1>5
  <2>2. Len(line) + n \in 1..Len(full) /\ full[Len(line) + n] = "high"
    BY <1>3, <1>4, <1>5, <2>1
  <2>3. full[(Len(line) + n) + 1] = "low"
    BY <1>2, <2>2 DEF WellFormed
  <2>4. left[m] = "low"
    BY <1>3, <1>4, <2>1, <2>3
  <2> QED
    BY <1>1, <2>4
<1> QED
  BY <1>1, <1>5

\* The line that Enter ends is what was typed.
LEMMA WholeLine ==
  ASSUME NEW r, ReadingOK(r), r.enter, NEW full, full = Pressed(r),
         ~(windows /\ r.typed # <<>> /\ r.typed[1] = "Z")
  PROVE  Answered(full) = Due(r.typed, r.enter)
<1>1. PICK typed : typed = r.typed
  OBVIOUS
<1>2. /\ typed \in Seq(Unit) /\ full = Append(typed, LF) /\ full # <<>>
      /\ full[Len(full)] = LF /\ (WellFormed(full) <=> WellFormed(typed))
  BY <1>1, EnterIsLast
<1>3. SubSeq(full, 1, Len(full) - 1) = typed
  BY <1>2
<1>4. Answered(full) = IF WellFormed(typed) THEN LineOf(typed) ELSE Unreadable
  BY <1>2, <1>3 DEF Answered
<1>5. Due(typed, r.enter) = IF WellFormed(typed) THEN LineOf(typed) ELSE Unreadable
  BY <1>1 DEF Due
<1> QED
  BY <1>1, <1>4, <1>5

\* A read that begins a line with Ctrl-Z, that does not decode, that ends the
\* line or that does not, keeps the line what was typed.
LEMMA ReadStep ==
  ASSUME ConsoleInv, Read
  PROVE  ConsoleInv'
<1>1. tty.state = "asking" /\ ReadingOK(reading)
  BY DEF Read, ConsoleInv
<1>2. PICK n \in 1..ReadUnits :
        /\ n <= Len(reading.left) /\ Taken(n) <= Len(reading.left)
        /\ LET units == SubSeq(reading.left, 1, Taken(n))
               line  == reading.line \o units
               last  == units[Len(units)]
           IN  IF windows /\ LineStart /\ units[1] = "Z" THEN Deliver(Answered(reading.line))
               ELSE IF windows /\ ~WellFormed(units) THEN Deliver(Unreadable)
               ELSE IF last = LF THEN Deliver(Answered(line))
               ELSE /\ reading' = [reading EXCEPT !.line = line, !.lineStart = FALSE,
                          !.left = SubSeq(@, Taken(n) + 1, Len(@))]
                    /\ UNCHANGED <<windows, echo, tty, heard>>
  BY Zenon DEF Read
<1>3. PICK r, line, left, m, units, next, rest, full :
        /\ r = reading /\ line = r.line /\ left = r.left
        /\ m = Taken(n) /\ units = SubSeq(left, 1, m)
        /\ next = line \o units /\ rest = SubSeq(left, m + 1, Len(left))
        /\ full = Pressed(r)
  OBVIOUS
<1>4. \/ windows /\ r.lineStart /\ units[1] = "Z" /\ Deliver(Answered(line))
      \/ /\ ~(windows /\ r.lineStart /\ units[1] = "Z")
         /\ \/ windows /\ ~WellFormed(units) /\ Deliver(Unreadable)
            \/ /\ windows => WellFormed(units)
               /\ \/ units[Len(units)] = LF /\ Deliver(Answered(next))
                  \/ /\ units[Len(units)] # LF
                     /\ reading' = [r EXCEPT !.line = next, !.lineStart = FALSE, !.left = rest]
                     /\ UNCHANGED <<windows, echo, tty, heard>>
  BY <1>2, <1>3 DEF LineStart
<1>5. /\ line \in Seq(Keys) /\ left \in Seq(Keys) /\ ReadingOK(r)
      /\ full = line \o left /\ r.enter \in BOOLEAN
      /\ (r.enter => left # <<>>) /\ (r.lineStart <=> line = <<>>)
      /\ (windows /\ ~r.enter => r.typed = <<>>)
      /\ (windows => WellFormed(line) /\ (line # <<>> => line[1] # "Z"))
  BY <1>1, <1>3 DEF ReadingOK
<1>6. n \in Nat /\ n >= 1 /\ n <= Len(left) /\ m <= Len(left)
  BY <1>2, <1>3
<1>7. m = IF windows /\ left[n] = "high" THEN n + 1 ELSE n
  BY <1>3 DEF Taken
<1>8. m \in 1..Len(left) /\ n \in 1..m
  BY <1>5, <1>6, <1>7
<1>9. /\ Parts(line, left, m, units, next, rest, full)
      /\ r.typed # <<>> /\ r.typed[1] = "Z" /\ windows => line = <<>> /\ units[1] = "Z"
  BY <1>3, <1>5, <1>8, ReadOnce
<1>14. Joined(line, left, m, units, next, rest, full)
  BY <1>9, ReadParts
<1> HIDE <1>2
<1>10. CASE windows /\ r.lineStart /\ units[1] = "Z" /\ Deliver(Answered(line))
  <2>1. full # <<>> /\ line = <<>> /\ full[1] = "Z"
    <3>1. Len(line) = 0 /\ 1 \in 1..m
      BY <1>5, <1>8, <1>10
    <3>2. units[1] = full[Len(line) + 1] /\ full \in Seq(Keys) /\ Len(full) = Len(line) + Len(left)
      BY <3>1, <1>14 DEF Joined
    <3> QED
      BY <1>5, <1>8, <1>10, <3>1, <3>2
  <2>2. r.typed # <<>> /\ r.typed[1] = "Z"
    <3>1. 1 \in 1..Len(full) /\ full[1] # LF
      BY <1>3, <1>5, <2>1, EnterIsLast DEF LF
    <3>2. full[1] = LF <=> r.enter /\ 1 = Len(full)
      BY <1>3, <1>5, <3>1, EnterIsLast
    <3>3. r.enter => full = Append(r.typed, LF) /\ Len(full) = Len(r.typed) + 1
      BY <1>3, <1>5, EnterIsLast
    <3>4. ~r.enter => full = r.typed
      BY <1>3, <1>5, EnterIsLast
    <3>5. r.typed \in Seq(Unit) /\ (r.typed # <<>> => full[1] = r.typed[1])
      BY <1>3, <1>5, EnterIsLast
    <3>6. r.typed # <<>>
      BY <2>1, <3>1, <3>2, <3>3, <3>4, <3>5
    <3> QED
      BY <2>1, <3>5, <3>6
  <2>3. Answered(line) = Due(r.typed, r.enter)
    BY <1>10, <2>1, <2>2 DEF Answered, Due
  <2> QED
    BY <1>1, <1>3, <1>10, <2>3, DeliverStep
<1>11. CASE /\ ~(windows /\ r.lineStart /\ units[1] = "Z")
            /\ windows /\ ~WellFormed(units) /\ Deliver(Unreadable)
  <2>1. ~WellFormed(r.typed)
    <3>1. SUFFICES ASSUME WellFormed(r.typed) PROVE FALSE
      OBVIOUS
    <3>2. left[m] # "high"
      <4>1. /\ m \in 1..Len(r.left) /\ n \in 1..m
            /\ r.left[n] = "high" => m = n + 1
            /\ r.left[n] # "high" => m = n
        BY <1>3, <1>7, <1>8, <1>11
      <4> QED
        BY <1>3, <1>5, <3>1, <4>1, NoHalfIsLeft
    <3>3. units[m] = left[m]
      BY <1>8, <1>14 DEF Joined
    <3>4. WellFormed(full)
      BY <1>3, <1>5, <3>1, EnterIsLast
    <3> QED
      BY <1>5, <1>9, <1>11, <3>2, <3>3, <3>4, WholeReads
  <2>2. ~(r.typed # <<>> /\ r.typed[1] = "Z")
    BY <1>5, <1>9, <1>11
  <2>3. r.typed # <<>> \/ r.enter
    <3>1. r.typed = <<>> => WellFormed(r.typed)
      BY DEF WellFormed
    <3> QED
      BY <2>1, <3>1
  <2>4. Unreadable = Due(r.typed, r.enter)
    BY <2>1, <2>2, <2>3 DEF Due
  <2> QED
    BY <1>1, <1>3, <1>11, <2>4, DeliverStep
<1>12. CASE /\ ~(windows /\ r.lineStart /\ units[1] = "Z")
            /\ windows => WellFormed(units)
            /\ units[Len(units)] = LF /\ Deliver(Answered(next))
  <2>1. /\ Len(units) = m /\ units[m] = full[Len(line) + m] /\ full \in Seq(Keys)
        /\ Len(full) = Len(line) + Len(left) /\ next \o rest = full
        /\ rest \in Seq(Keys) /\ Len(rest) = Len(left) - m /\ next \in Seq(Keys)
    BY <1>8, <1>14 DEF Joined
  <2>2. r.enter /\ Len(line) + m = Len(full)
    <3>1. Len(line) + m \in 1..Len(full) /\ full[Len(line) + m] = LF
      BY <1>5, <1>8, <1>12, <2>1
    <3>2. \A k \in 1..Len(full) : full[k] = LF <=> r.enter /\ k = Len(full)
      BY <1>3, <1>5, EnterIsLast
    <3> QED
      BY <3>1, <3>2
  <2>3. next = full
    <3>1. rest = <<>>
      BY <1>5, <1>8, <2>1, <2>2
    <3> QED
      BY <2>1, <3>1
  <2>4. ~(windows /\ r.typed # <<>> /\ r.typed[1] = "Z")
    BY <1>5, <1>9, <1>12
  <2>5. Answered(next) = Due(r.typed, r.enter)
    BY <1>3, <1>5, <2>2, <2>3, <2>4, WholeLine
  <2> QED
    BY <1>1, <1>3, <1>12, <2>5, DeliverStep
<1>13. CASE /\ ~(windows /\ r.lineStart /\ units[1] = "Z")
            /\ windows => WellFormed(units)
            /\ units[Len(units)] # LF
            /\ reading' = [r EXCEPT !.line = next, !.lineStart = FALSE, !.left = rest]
            /\ UNCHANGED <<windows, echo, tty, heard>>
  <2>1. /\ Len(units) = m /\ units[m] = full[Len(line) + m] /\ full \in Seq(Keys)
        /\ Len(full) = Len(line) + Len(left) /\ next \o rest = full
        /\ rest \in Seq(Keys) /\ Len(rest) = Len(left) - m
        /\ next \in Seq(Keys) /\ Len(next) = Len(line) + m
    BY <1>8, <1>14 DEF Joined
  <2>2. r.enter => rest # <<>>
    <3>1. SUFFICES ASSUME r.enter, rest = <<>> PROVE FALSE
      OBVIOUS
    <3>2. Len(line) + m = Len(full) /\ Len(full) \in 1..Len(full)
      <4>1. Len(rest) = 0 /\ Len(left) \in Nat /\ Len(line) \in Nat /\ m \in 1..Len(left)
        BY <1>5, <1>8, <3>1
      <4>2. Len(rest) = Len(left) - m /\ Len(full) = Len(line) + Len(left)
        BY <2>1
      <4> HIDE <1>3, <1>13, <2>1
      <4> QED
        BY <4>1, <4>2
    <3>3. full[Len(full)] = LF
      BY <1>3, <1>5, <3>1, <3>2, EnterIsLast
    <3> QED
      BY <1>13, <2>1, <3>2, <3>3
  <2>3. next # <<>> /\ Len(next) # 0
    BY <1>5, <1>8, <2>1
  <2>4. windows => WellFormed(next)
    BY <1>5, <1>9, <1>13, WholeAfterWhole
  <2>5. windows => next[1] # "Z"
    <3>1. CASE line = <<>>
      <4>1. Len(line) = 0 /\ 1 \in 1..m
        BY <1>8, <3>1
      <4>2. next[Len(line) + 1] = units[1]
        BY <4>1, <1>14 DEF Joined
      <4> QED
        BY <1>5, <1>13, <3>1, <4>1, <4>2
    <3>2. CASE line # <<>>
      <4>1. 1 \in 1..Len(line)
        BY <1>5, <3>2
      <4>2. line[1] = full[1] /\ next[1] = full[1]
        BY <4>1, <1>14 DEF Joined
      <4> QED
        BY <1>5, <3>2, <4>2
    <3> QED
      BY <3>1, <3>2
  <2>6. PICK begun, new :
          /\ begun = FALSE
          /\ new = [r EXCEPT !.line = next, !.lineStart = begun, !.left = rest]
    OBVIOUS
  <2>7. reading' = new
    BY <1>13, <2>6
  <2>8. /\ new \in [typed : Seq(Unit), enter : BOOLEAN, line : Seq(Keys),
                    lineStart : BOOLEAN, left : Seq(Keys)]
        /\ new.typed = r.typed /\ new.enter = r.enter /\ new.line = next
        /\ new.lineStart = begun /\ new.left = rest
    BY <1>5, <2>1, <2>6 DEF ReadingOK
  <2>9. Pressed(new) = full
    BY <1>3, <2>8 DEF Pressed
  <2>10. ReadingOK(new)
    BY <1>5, <2>1, <2>2, <2>3, <2>4, <2>5, <2>6, <2>8, <2>9 DEF ReadingOK
  <2>11. ReadingOK(reading)'
    <3>1. windows' = windows
      BY <1>13
    <3> HIDE <1>13, <2>6
    <3> QED
      BY <2>7, <2>10, <3>1 DEF ReadingOK, WellFormed, Pressed
  <2>12. EchoInv' /\ LineIsWhatWasTyped'
    BY <1>13 DEF ConsoleInv, EchoInv, LineIsWhatWasTyped, WellFormed, END_OF_INPUT,
                 LineOf, Unreadable
  <2> QED
    BY <2>11, <2>12 DEF ConsoleInv
<1> QED
  BY <1>4, <1>10, <1>11, <1>12, <1>13

\* Every step keeps the terminal's invariant.
LEMMA ConsoleStep ==
  ASSUME ConsoleInv, [Next]_vars
  PROVE  ConsoleInv'
<1>1. CASE UNCHANGED consoleVars
  BY <1>1, ConsoleUntouched
<1>2. CASE \/ OpenTerminal \/ ReadSecretLine \/ ReadVisibleLine \/ ReadLine \/ CloseTerminal
           \/ KillTty \/ ShellRestoresEcho
  BY <1>2, TerminalSteps, AskStep, ReadStep, ReadEndStep DEF ReadLine, ReadError
<1>3. CASE AskPassword \/ AskForCreate \/ CreateEnds \/ KillRun \/ OpenStore \/ External
  <2>1. \/ OpenTerminal \/ ReadSecretLine \/ ReadVisibleLine \/ ReadLine \/ CloseTerminal
        \/ KillTty \/ ShellRestoresEcho \/ UNCHANGED consoleVars
    BY <1>3 DEF AskPassword, AskForCreate, CreateEnds, KillRun, OpenStore, External
  <2> QED
    BY <1>1, <1>2, <2>1
<1>4. CASE \/ Invoke \/ Done \/ CmdRestore \/ CmdAddress \/ CmdStatus \/ CmdReconcile
           \/ CmdDiscover \/ OpenWallet \/ CmdBalance \/ NoSuchAccount
  <2>1. UNCHANGED consoleVars
    BY <1>4 DEF Invoke, Done, CmdRestore, CmdAddress, CmdStatus, CmdReconcile, CmdDiscover,
                OpenWallet, CmdBalance, NoSuchAccount
  <2> QED
    BY <1>1, <2>1
<1>5. CASE \/ CmdSettle \/ CmdSend \/ SendSigned \/ CmdResign \/ CmdSubmit \/ RunExplorer
           \/ Walks \/ WalkEnds \/ AskNextPage \/ UNCHANGED vars
  <2>1. UNCHANGED consoleVars
    BY <1>5 DEF CmdSettle, CmdSend, SendSigned, CmdResign, CmdSubmit, RunExplorer, Walks,
                WalkEnds, AskNextPage, vars
  <2> QED
    BY <1>1, <2>1
<1> QED
  BY <1>3, <1>4, <1>5 DEF Next

\* What is read of a line, and what is left, is always what was typed.
THEOREM ConsoleInvariant == Spec => []ConsoleInv
<1>1. InitCommand => ConsoleInv
  <2> SUFFICES ASSUME InitCommand PROVE ConsoleInv
    OBVIOUS
  <2>1. PICK shows, off : shows = TRUE /\ off = FALSE
    OBVIOUS
  <2>2. /\ tty = [state |-> "closed", guarded |-> off, found |-> shows]
        /\ echo = shows /\ heard = None /\ windows \in BOOLEAN
    BY <2>1 DEF InitCommand, ConsoleInit, NoTty, Tty
  <2>3. EchoInv /\ tty.state # "asking"
    BY <2>1, <2>2 DEF EchoInv
  <2> QED
    BY <2>2, <2>3 DEF ConsoleInv, LineIsWhatWasTyped
<1>2. ConsoleInv /\ [Next]_vars => ConsoleInv'
  BY ConsoleStep
<1> QED
  BY <1>1, <1>2, PTL DEF Spec

\* A secret is asked on a silent terminal and a confirmation on one that shows
\* it, through kills, refusals and restores that fail (AnswersAreTypedAsAsked).
THEOREM AnswersAreTypedAsAskedHolds == Spec => []AnswersAreTypedAsAsked
<1>1. ConsoleInv => AnswersAreTypedAsAsked
  BY DEF ConsoleInv, EchoInv, AnswersAreTypedAsAsked
<1> QED
  BY <1>1, ConsoleInvariant, PTL

\* The line taken is the line typed (LineIsWhatWasTyped), for lines of any
\* length, broken into reads of any size.
THEOREM LineIsWhatWasTypedHolds == Spec => []LineIsWhatWasTyped
<1>1. ConsoleInv => LineIsWhatWasTyped
  BY DEF ConsoleInv
<1> QED
  BY <1>1, ConsoleInvariant, PTL

-----------------------------------------------------------------------------
(* Reading a node.                                                          *)

\* What a reply is, its fields named one by one.
ReplyIs(reply, status, fits, object, code, fields, dated, result) ==
  /\ reply.status = status /\ reply.fits = fits /\ reply.object = object
  /\ reply.code = code /\ reply.fields = fields /\ reply.dated = dated
  /\ reply.result = result

\* A caller is handed an answer whose every check passed, or an error.
Handed(reply, got) ==
  /\ got.ok \in BOOLEAN
  /\ got.ok => got.result = reply.result /\ got.reply = reply
  /\ got.ok => reply.status = 200 /\ reply.fits /\ reply.object /\ reply.code = Absent
                 /\ reply.fields
  /\ reply.status = 200 /\ reply.fits /\ reply.object /\ reply.code = Absent
       /\ reply.fields => got.ok
  /\ ~got.ok => got.error \in {"transport", "status", "too large", "shape"}
                  \/ got.error = reply.code

\* What every reply that is whole has.
WholeReply(reply) ==
  reply.status = 200 /\ reply.fits /\ reply.object /\ reply.code = Absent /\ reply.fields

\* An error is handed over when the reply is not whole.
LEMMA ErrorIsHanded ==
  ASSUME NEW reply, NEW got, got.ok = FALSE, ~WholeReply(reply),
         got.error \in {"transport", "status", "too large", "shape"} \cup {reply.code}
  PROVE  Handed(reply, got)
<1>1. got.error \in {"transport", "status", "too large", "shape"} \/ got.error = reply.code
  OBVIOUS
<1> QED
  BY <1>1, Zenon DEF Handed, WholeReply

\* A result is handed over when it is.
LEMMA ResultIsHanded ==
  ASSUME NEW reply, NEW got, got.ok = TRUE, got.result = reply.result, got.reply = reply,
         WholeReply(reply)
  PROVE  Handed(reply, got)
  BY Zenon DEF Handed, WholeReply

\* The checks of the client, in the order they are made.
LEMMA FieldsRead ==
  ASSUME NEW reply
  PROVE  Handed(reply, Fields(Post(reply)))
<1>1. PICK yes, no : yes = TRUE /\ no = FALSE
  OBVIOUS
<1>2. PICK got : got = [ok |-> yes, error |-> Absent, reply |-> reply, result |-> reply.result]
  OBVIOUS
<1>3. got = Got(reply) /\ got.ok = yes /\ got.reply = reply /\ got.result = reply.result
  BY <1>1, <1>2 DEF Got
<1>4. ASSUME NEW error PROVE Err(error).ok = no /\ Err(error).error = error
  <2>1. PICK err : err = [ok |-> no, error |-> error, reply |-> Absent, result |-> Absent]
    OBVIOUS
  <2>2. err = Err(error) /\ err.ok = no /\ err.error = error
    BY <1>1, <2>1 DEF Err
  <2> QED
    BY <2>2
<1>5. CASE reply.status # 200 \/ ~reply.fits
  <2>1. \E error \in {"transport", "status", "too large"} :
          Post(reply) = Err(error) /\ Envelope(Post(reply)) = Err(error)
            /\ Fields(Post(reply)) = Err(error)
    BY <1>1, <1>4, <1>5, Zenon DEF Post, Envelope, Fields
  <2>2. PICK error \in {"transport", "status", "too large"} : Fields(Post(reply)) = Err(error)
    BY <2>1
  <2>3. Fields(Post(reply)).ok = FALSE /\ Fields(Post(reply)).error = error
    BY <1>1, <1>4, <2>2, Zenon
  <2>4. error \in {"transport", "status", "too large", "shape"} \cup {reply.code}
    OBVIOUS
  <2>5. ~WholeReply(reply)
    BY <1>5, Zenon DEF WholeReply
  <2> QED
    BY <2>3, <2>4, <2>5, ErrorIsHanded
<1>6. CASE reply.status # 0 /\ reply.status = 200 /\ reply.fits
  <2>1. Post(reply) = got
    BY <1>3, <1>6, Zenon DEF Post
  <2>2. Envelope(got) = IF ~reply.object THEN Err("shape")
                        ELSE IF reply.code # Absent THEN Err(reply.code) ELSE got
    BY <1>1, <1>3, Zenon DEF Envelope
  <2>3. CASE ~reply.object
    <3>1. Fields(got) = Err("shape")
      BY <1>1, <1>4, <2>2, <2>3, Zenon DEF Fields
    <3> QED
      BY <1>1, <1>4, <2>1, <2>3, <3>1, Zenon DEF Handed
  <2>4. CASE reply.object /\ reply.code # Absent
    <3>1. Fields(got) = Err(reply.code)
      BY <1>1, <1>4, <2>2, <2>4, Zenon DEF Fields
    <3> QED
      BY <1>1, <1>4, <2>1, <2>4, <3>1, Zenon DEF Handed
  <2>5. CASE reply.object /\ reply.code = Absent
    <3>1. Fields(got) = IF ~reply.fields THEN Err("shape") ELSE got
      BY <1>1, <1>3, <2>2, <2>5, Zenon DEF Fields
    <3>2. CASE ~reply.fields
      BY <1>1, <1>4, <2>1, <3>1, <3>2, Zenon DEF Handed
    <3>3. CASE reply.fields
      <4>1. Fields(Post(reply)) = got /\ got.ok = TRUE
        BY <1>1, <1>3, <2>1, <3>1, <3>3
      <4>2. WholeReply(reply)
        BY <1>6, <2>5, <3>3 DEF WholeReply
      <4> QED
        BY <1>3, <4>1, <4>2, ResultIsHanded
    <3> QED
      BY <3>2, <3>3
  <2> QED
    BY <2>3, <2>4, <2>5
<1>7. reply.status = 0 => reply.status # 200
  OBVIOUS
<1> QED
  BY <1>5, <1>6, <1>7

\* A result that arrives whole is handed on.
LEMMA AnswerIs ==
  ASSUME NEW result
  PROVE  ReplyIs(Answer(result), 200, TRUE, TRUE, Absent, TRUE, TRUE, result)
<1>1. PICK yes : yes = TRUE
  OBVIOUS
<1>2. PICK whole : whole = [status |-> 200, fits |-> yes, object |-> yes, code |-> Absent,
                            fields |-> yes, dated |-> yes, result |-> result]
  OBVIOUS
<1>3. ReplyIs(whole, 200, yes, yes, Absent, yes, yes, result)
  BY <1>2 DEF ReplyIs
<1>4. whole = Answer(result)
  BY <1>1, <1>2 DEF Answer, Whole
<1> QED
  BY <1>1, <1>3, <1>4, Zenon

\* An error object carries its code and no result.
LEMMA CodedIs ==
  ASSUME NEW code
  PROVE  ReplyIs(Coded(code), 200, TRUE, TRUE, code, TRUE, TRUE, Absent)
<1>1. PICK yes : yes = TRUE
  OBVIOUS
<1>2. PICK whole : whole = [status |-> 200, fits |-> yes, object |-> yes, code |-> Absent,
                            fields |-> yes, dated |-> yes, result |-> Absent]
  OBVIOUS
<1>3. PICK coded : coded = [whole EXCEPT !.code = code]
  OBVIOUS
<1>4. ReplyIs(coded, 200, yes, yes, code, yes, yes, Absent)
  BY <1>2, <1>3 DEF ReplyIs
<1>5. coded = Coded(code)
  BY <1>1, <1>2, <1>3 DEF Coded, Whole
<1> QED
  BY <1>1, <1>4, <1>5, Zenon

\* What went wrong with a reply.
Spoilt(reply) ==
  \/ reply.status # 200 \/ ~reply.fits \/ ~reply.object \/ ~reply.fields
  \/ reply.code \in {"code 2", "code 4"}

\* Every fault spoils a reply, but an undated row only one of rows.
LEMMA FaultsSpoil ==
  ASSUME NEW path, NEW reply \in Faults(path)
  PROVE  /\ Spoilt(reply) \/ (path = "search" /\ ~reply.dated)
         /\ reply.code \in {Absent, "code 2", "code 4"}
<1>1. PICK yes, no : yes = TRUE /\ no = FALSE
  OBVIOUS
<1>2. PICK whole : whole = [status |-> 200, fits |-> yes, object |-> yes, code |-> Absent,
                            fields |-> yes, dated |-> yes, result |-> Absent]
  OBVIOUS
<1>3. whole = Whole(Absent)
  BY <1>1, <1>2 DEF Whole
<1>4. \/ reply = [whole EXCEPT !.status = 0] \/ reply = [whole EXCEPT !.status = 404]
      \/ reply = [whole EXCEPT !.fits = no] \/ reply = [whole EXCEPT !.object = no]
      \/ reply = [whole EXCEPT !.fields = no]
      \/ path = "search" /\ reply = [whole EXCEPT !.dated = no]
      \/ \E code \in {"code 2", "code 4"} : reply = Coded(code)
  BY <1>1, <1>3 DEF Faults, Lost, CodesOf
<1>5. CASE reply = [whole EXCEPT !.status = 0] \/ reply = [whole EXCEPT !.status = 404]
  <2>1. reply.status # 200 /\ reply.code = Absent
    BY <1>2, <1>5
  <2> QED
    BY <2>1 DEF Spoilt
<1>6. CASE reply = [whole EXCEPT !.fits = no]
  <2>1. reply.fits = no /\ reply.code = Absent
    BY <1>2, <1>6
  <2> QED
    BY <1>1, <2>1 DEF Spoilt
<1>7. CASE reply = [whole EXCEPT !.object = no]
  <2>1. reply.object = no /\ reply.code = Absent
    BY <1>2, <1>7
  <2> QED
    BY <1>1, <2>1 DEF Spoilt
<1>8. CASE reply = [whole EXCEPT !.fields = no]
  <2>1. reply.fields = no /\ reply.code = Absent
    BY <1>2, <1>8
  <2> QED
    BY <1>1, <2>1 DEF Spoilt
<1>9. CASE path = "search" /\ reply = [whole EXCEPT !.dated = no]
  <2>1. reply.dated = no /\ reply.code = Absent
    BY <1>2, <1>9
  <2> QED
    BY <1>1, <1>9, <2>1
<1>10. CASE \E code \in {"code 2", "code 4"} : reply = Coded(code)
  <2>1. PICK code \in {"code 2", "code 4"} : reply = Coded(code)
    BY <1>10
  <2>2. reply.code = code
    BY <2>1, CodedIs, Zenon DEF ReplyIs
  <2> QED
    BY <2>1, <2>2 DEF Spoilt
<1> QED
  BY <1>4, <1>5, <1>6, <1>7, <1>8, <1>9, <1>10

\* A reply that is whole is no fault.
LEMMA SpoiltIsRefused ==
  ASSUME NEW reply, Spoilt(reply)
  PROVE  ~WholeReply(reply)
<1>1. "code 2" # Absent /\ "code 4" # Absent
  BY NodeAssumption
<1>2. CASE reply.code \in {"code 2", "code 4"}
  BY <1>1, <1>2 DEF WholeReply
<1>3. CASE reply.status # 200 \/ ~reply.fits \/ ~reply.object \/ ~reply.fields
  BY <1>3, Zenon DEF WholeReply
<1> QED
  BY <1>2, <1>3 DEF Spoilt

\* A caller is handed a result only of what the node answered, and the code of
\* an error only when a reply carried it.
LEMMA OfNoFault ==
  ASSUME NEW path, NEW reply \in Faults(path)
  PROVE  /\ path # "search" => ~Fields(Post(reply)).ok
         /\ ~Rows(Post(reply), TRUE).ok
         /\ ~Fields(Post(reply)).ok => Fields(Post(reply)).error # "code 3"
<1>1. Handed(reply, Fields(Post(reply)))
  BY FieldsRead
<1>2. PICK got : got = Fields(Post(reply))
  OBVIOUS
<1>3. got.ok => WholeReply(reply)
  BY <1>1, <1>2, Zenon DEF Handed, WholeReply
<1>4. CASE Spoilt(reply)
  <2>1. ~got.ok
    BY <1>3, <1>4, SpoiltIsRefused
  <2>2. Rows(Post(reply), TRUE) = got
    BY <1>2, <2>1, Zenon DEF Rows
  <2>3. got.error # "code 3"
    <3>1. reply.code \in {Absent, "code 2", "code 4"} /\ Absent # "code 3"
      BY FaultsSpoil, NodeAssumption
    <3>2. got.error \in {"transport", "status", "too large", "shape"} \/ got.error = reply.code
      BY <1>1, <1>2, <2>1, Zenon DEF Handed
    <3> QED
      BY <3>1, <3>2
  <2> QED
    BY <1>2, <2>1, <2>2, <2>3
<1>5. CASE path = "search" /\ ~reply.dated
  <2>1. Err("shape").ok = FALSE
    <3>1. PICK no : no = FALSE
      OBVIOUS
    <3>2. PICK err : err = [ok |-> no, error |-> "shape", reply |-> Absent, result |-> Absent]
      OBVIOUS
    <3>3. err.ok = no /\ err = Err("shape")
      BY <3>1, <3>2 DEF Err
    <3> QED
      BY <3>1, <3>3
  <2>2. ~Rows(Post(reply), TRUE).ok
    <3>1. CASE got.ok
      <4>1. got.reply = reply
        BY <1>1, <1>2, <3>1, Zenon DEF Handed
      <4>2. Rows(Post(reply), TRUE) = Err("shape")
        BY <1>2, <1>5, <3>1, <4>1, Zenon DEF Rows
      <4> QED
        BY <2>1, <4>2
    <3>2. CASE ~got.ok
      <4>1. Rows(Post(reply), TRUE) = got
        BY <1>2, <3>2, Zenon DEF Rows
      <4> QED
        BY <3>2, <4>1
    <3> QED
      BY <3>1, <3>2
  <2>3. ~got.ok => got.error # "code 3"
    <3>1. reply.code \in {Absent, "code 2", "code 4"} /\ Absent # "code 3"
      BY FaultsSpoil, NodeAssumption
    <3>2. ~got.ok => got.error \in {"transport", "status", "too large", "shape"}
                       \/ got.error = reply.code
      BY <1>1, <1>2, Zenon DEF Handed
    <3> QED
      BY <3>1, <3>2
  <2> QED
    BY <1>2, <1>5, <2>2, <2>3
<1>6. Spoilt(reply) \/ (path = "search" /\ ~reply.dated)
  BY FaultsSpoil, Zenon
<1> QED
  BY <1>4, <1>5, <1>6, Zenon

\* A fault of a request that asks for no rows is an error.
LEMMA OfFault ==
  ASSUME NEW path \in {"status", "block", "mempool", "mempool/transaction", "tag_resolve"},
         NEW reply \in Faults(path)
  PROVE  ~Fields(Post(reply)).ok
<1>1. path # "search"
  OBVIOUS
<1>2. path # "search" => ~Fields(Post(reply)).ok
  BY OfNoFault, Zenon
<1> QED
  BY <1>1, <1>2

\* What the node answers is handed on, rows with their block and time.
LEMMA OfAnswer ==
  ASSUME NEW result
  PROVE  LET got == Fields(Post(Answer(result)))
         IN  /\ got.ok /\ got.result = result
             /\ Rows(Post(Answer(result)), TRUE) = got
<1>1. PICK got, reply : reply = Answer(result) /\ got = Fields(Post(reply))
  OBVIOUS
<1>2. Handed(reply, got)
  BY <1>1, FieldsRead
<1>3. ReplyIs(reply, 200, TRUE, TRUE, Absent, TRUE, TRUE, result)
  BY <1>1, AnswerIs
<1>4. got.ok /\ got.result = result /\ got.reply = reply
  BY <1>2, <1>3, Zenon DEF Handed, ReplyIs
<1>5. reply.dated
  BY <1>3, Zenon DEF ReplyIs
<1>6. Rows(Post(reply), TRUE) = got
  BY <1>1, <1>4, <1>5, Zenon DEF Rows
<1> QED
  BY <1>1, <1>4, <1>6

\* A refusal is handed on with its code.
LEMMA OfCode ==
  ASSUME NEW code \in {"code 2", "code 3", "code 4"}
  PROVE  ~Fields(Post(Coded(code))).ok
<1>1. PICK got, reply : reply = Coded(code) /\ got = Fields(Post(reply))
  OBVIOUS
<1>2. Handed(reply, got)
  BY <1>1, FieldsRead
<1>3. reply.code = code /\ code # Absent
  BY <1>1, CodedIs, NodeAssumption DEF ReplyIs
<1>4. ~got.ok
  BY <1>2, <1>3, Zenon DEF Handed
<1> QED
  BY <1>1, <1>4

-----------------------------------------------------------------------------
(* What each request is answered with.                                      *)

\* `status` tells the tip.
LEMMA StatusIsTip ==
  ASSUME NEW reply \in StatusReplies, ParseStatus(Post(reply)).ok
  PROVE  ParseStatus(Post(reply)).result = Tip
<1>1. CASE reply = Answer(Tip)
  BY <1>1, OfAnswer DEF ParseStatus
<1>2. CASE reply \in Faults("status")
  BY <1>2, OfFault DEF ParseStatus
<1> QED
  BY <1>1, <1>2 DEF StatusReplies

\* `block` is of the index asked for, unless the node strays.
LEMMA BlockIsAsked ==
  ASSUME NEW index, index # 0, NEW reply \in BlockReplies(index), ParseBlock(Post(reply)).ok
  PROVE  \/ node.strays /\ ParseBlock(Post(reply)).result \in [index : 1..MaxTip, fork : Forks]
         \/ ParseBlock(Post(reply)).result = BlockAt(index) /\ index <= Tip
<1>1. ParseBlock(Post(reply)) = Fields(Post(reply))
  BY Zenon DEF ParseBlock, Rows
<1>2. CASE reply \in Faults("block")
  BY <1>1, <1>2, OfFault
<1>3. CASE index <= Tip /\ reply = Answer(BlockAt(index))
  BY <1>1, <1>3, OfAnswer
<1>4. CASE reply = Coded("code 2")
  BY <1>1, <1>4, OfCode
<1>5. CASE \E block \in [index : 1..MaxTip, fork : Forks] : node.strays /\ reply = Answer(block)
  BY <1>1, <1>5, OfAnswer
<1>6. reply \in Strays({Answer(block) : block \in [index : 1..MaxTip, fork : Forks]})
        => \E block \in [index : 1..MaxTip, fork : Forks] : node.strays /\ reply = Answer(block)
  BY DEF Strays
<1> QED
  BY <1>2, <1>3, <1>4, <1>5, <1>6 DEF BlockReplies

\* The queue's ids, or none.
LEMMA QueueIsRead ==
  ASSUME NEW reply \in QueueReplies, ParseMempool(Post(reply)).ok
  PROVE  ParseMempool(Post(reply)).result \in {<<>>, node.queue}
<1>1. PICK got : got = Fields(Post(reply))
  OBVIOUS
<1>2. Got(Answer(<<>>)).result = <<>>
  <2>1. PICK answer, yes : answer = Answer(<<>>) /\ yes = TRUE
    OBVIOUS
  <2>2. answer.result = <<>>
    BY <2>1, AnswerIs, Zenon DEF ReplyIs
  <2>3. PICK given : given = [ok |-> yes, error |-> Absent, reply |-> answer,
                              result |-> answer.result]
    OBVIOUS
  <2>4. given.result = <<>> /\ given = Got(answer)
    BY <2>1, <2>2, <2>3 DEF Got
  <2> QED
    BY <2>1, <2>4
<1>3. CASE reply \in Faults("mempool")
  <2>1. ~got.ok
    BY <1>1, <1>3, OfFault
  <2>2. ParseMempool(Post(reply)) = got
    BY <1>1, <2>1, Zenon DEF ParseMempool
  <2> QED
    BY <2>1, <2>2
<1>4. CASE reply = Answer(IF node.queue = <<>> THEN Absent ELSE node.queue)
  <2>1. got.ok /\ got.result = IF node.queue = <<>> THEN Absent ELSE node.queue
    BY <1>1, <1>4, OfAnswer
  <2>2. ParseMempool(Post(reply)) = IF got.result = Absent THEN Got(Answer(<<>>)) ELSE got
    BY <1>1, <2>1, Zenon DEF ParseMempool
  <2> QED
    BY <1>2, <2>1, <2>2
<1> QED
  BY <1>3, <1>4 DEF QueueReplies

\* A waiting transaction is answered with itself and code 3 is of an id that is
\* not in the queue, unless the node strays.
LEMMA QueuedIsAsked ==
  ASSUME NEW id, NEW reply \in QueuedReplies(id)
  PROVE  /\ ParseQueued(Post(reply)).ok =>
              \/ node.strays /\ ParseQueued(Post(reply)).result \in Ids
              \/ ParseQueued(Post(reply)).result = id
         /\ ~ParseQueued(Post(reply)).ok /\ LeftTheQueue(ParseQueued(Post(reply)).error) =>
              node.strays \/ id \notin ToSet(node.queue)
<1>1. ParseQueued(Post(reply)) = Fields(Post(reply))
  BY Zenon DEF ParseQueued, Rows
<1>2. CASE reply \in Faults("mempool/transaction")
  BY <1>1, <1>2, OfNoFault, OfFault DEF LeftTheQueue
<1>3. CASE reply = Answer(id)
  BY <1>1, <1>3, OfAnswer
<1>4. CASE reply = Coded("code 3") /\ (node.strays \/ id \notin ToSet(node.queue))
  BY <1>1, <1>4, OfCode
<1>5. CASE \E other \in Ids : node.strays /\ reply = Answer(other)
  BY <1>1, <1>5, OfAnswer
<1>6. reply \in Strays({Coded("code 3")} \cup {Answer(other) : other \in Ids})
        => node.strays /\ (reply = Coded("code 3") \/ \E other \in Ids : reply = Answer(other))
  BY DEF Strays
<1> QED
  BY <1>2, <1>3, <1>4, <1>5, <1>6 DEF QueuedReplies

\* A hash is answered with its row or none, unless the node strays.
LEMMA LookedUpIsAsked ==
  ASSUME NEW id, NEW reply \in LookUpReplies(id), ParseSearch(Post(reply)).ok
  PROVE  node.strays \/ ParseSearch(Post(reply)).result \subseteq {id}
<1>1. CASE reply \in Faults("search")
  BY <1>1, OfNoFault DEF ParseSearch
<1>2. CASE reply = Answer(ToSet(node.rows) \cap {id})
  <2>1. ParseSearch(Post(reply)).result = ToSet(node.rows) \cap {id}
    BY <1>2, OfAnswer DEF ParseSearch
  <2> QED
    BY <2>1
<1>3. reply \in Strays({Answer({other}) : other \in ToSet(node.rows)}) => node.strays
  BY DEF Strays
<1> QED
  BY <1>1, <1>2, <1>3 DEF LookUpReplies

\* A tag that resolves is the one asked about.
LEMMA ResolvedIsAsked ==
  ASSUME NEW account, NEW reply, ParseTagResolve(Post(reply), account).ok
  PROVE  ParseTagResolve(Post(reply), account).result = account
<1>1. PICK got : got = Fields(Post(reply))
  OBVIOUS
<1>2. Err("shape").ok = FALSE
  <2>1. PICK no : no = FALSE
    OBVIOUS
  <2>2. PICK err : err = [ok |-> no, error |-> "shape", reply |-> Absent, result |-> Absent]
    OBVIOUS
  <2>3. err.ok = no /\ err = Err("shape")
    BY <2>1, <2>2 DEF Err
  <2> QED
    BY <2>1, <2>3
<1>3. ParseTagResolve(Post(reply), account)
        = IF got.ok /\ got.result # account THEN Err("shape") ELSE got
  BY <1>1, Zenon DEF ParseTagResolve
<1> QED
  BY <1>2, <1>3, Zenon

\* A page of rows is the rows from its offset, and the offset after them.
LEMMA SearchIsAsked ==
  ASSUME NEW from, NEW count, NEW reply \in SearchReplies(from, count),
         ParseSearch(Post(reply)).ok
  PROVE  LET upto == IF from + count < Len(node.rows) THEN from + count ELSE Len(node.rows)
         IN  ParseSearch(Post(reply)).result
               = [rows |-> SubSeq(node.rows, from + 1, upto),
                  next |-> IF upto < Len(node.rows) THEN upto ELSE Absent]
<1>1. PICK asked :
        asked = LET upto == IF from + count < Len(node.rows) THEN from + count ELSE Len(node.rows)
               IN  [rows |-> SubSeq(node.rows, from + 1, upto),
                    next |-> IF upto < Len(node.rows) THEN upto ELSE Absent]
  OBVIOUS
<1>2. CASE reply \in Faults("search")
  BY <1>2, OfNoFault DEF ParseSearch
<1>3. CASE reply = Answer(asked)
  BY <1>1, <1>3, OfAnswer DEF ParseSearch
<1> QED
  BY <1>1, <1>2, <1>3 DEF SearchReplies

-----------------------------------------------------------------------------
(* What is known of a read in progress.                                     *)

Row   == Ids \cup [new : Nat]
Block == [index : Nat, fork : Forks]
Waiting == [id : Ids, transaction : Ids \cup {Absent}]

NodeType == [chain : Seq(Forks), queue : Seq(Ids), rows : Seq(Row), resolving : SUBSET Nat,
             strays : BOOLEAN]

\* A row is of the block asked for, and that was on the chain; one of the queue
\* is under the id asked for, and of its transaction.
BlockAsked(row, index, blocks, strays) ==
  strays \/ (row.index = index /\ row \in blocks)
QueuedAsked(row, id, gone, strays) ==
  /\ row.id = id
  /\ strays \/ (row.transaction \in {id, Absent} /\ (row.transaction = Absent => id \in gone))

\* `blocks`: read down from the tip, each when it was on the chain.
BlocksSoFar(w, blocks, strays) ==
  /\ w \in [verb : {"blocks"}, count : Nat, tip : Nat \cup {Absent}, rows : Seq(Block)]
  /\ w.tip = Absent => w.rows = <<>>
  /\ w.tip # Absent => Len(w.rows) <= w.tip
  /\ Len(w.rows) <= w.count
  /\ \A i \in 1..Len(w.rows) : BlockAsked(w.rows[i], w.tip + 1 - i, blocks, strays)

\* `mempool`: the first of the ids, and which of them had left.
QueueSoFar(w, gone, strays) ==
  /\ w \in [verb : {"mempool"}, count : Nat, ids : Seq(Ids) \cup {Absent},
            rows : Seq(Waiting)]
  /\ w.ids = Absent => w.rows = <<>>
  /\ w.ids # Absent => Len(w.rows) <= Len(w.ids)
  /\ \A i \in 1..Len(w.rows) : QueuedAsked(w.rows[i], w.ids[i], gone, strays)

\* `discover`: every index from 0, once, with its own entry.
SweepSoFar(w) ==
  /\ w.verb = "discover"
  /\ w \in [verb : {"discover"}, to : Nat, held : {w.held},
            sightings : Seq([account : Nat, entry : Nat \cup {Absent}])]
  /\ Len(w.sightings) <= w.to + 1
  /\ \A i \in 1..Len(w.sightings) :
       w.sightings[i].account = i - 1 /\ w.sightings[i].entry \in {Absent, i - 1}

\* A page of recent transactions is asked for at the offset that is due.
PageSoFar(w, r) ==
  /\ w.verb = "recent" /\ w.from \in Nat /\ w.count \in Nat /\ w.count >= 1
  /\ r.next = w.from

WalkOK ==
  \/ walk = NoWalk
  \/ BlocksSoFar(walk, seen.blocks, node.strays)
  \/ walk.verb = "block" /\ walk.index \in Nat \ {0}
  \/ QueueSoFar(walk, seen.gone, node.strays)
  \/ SweepSoFar(walk)
  \/ walk.verb = "transaction"
  \/ PageSoFar(walk, reader)

\* Of the rows there were when the first page was asked for, which are now
\* `shift` further from the newest, those before the next offset were read.
PagingOK(r, rows) ==
  /\ r \in [first : Seq(Row), rows : SUBSET Row, next : Nat \cup {Absent}, count : Nat]
  /\ r.count >= 1
  /\ Len(r.first) <= Len(rows)
  /\ LET shift == Len(rows) - Len(r.first)
     IN  /\ \A j \in 1..Len(r.first) : r.first[j] = rows[j + shift]
         /\ \A j \in 1..Len(r.first) :
              r.next = Absent \/ j + shift <= r.next => r.first[j] \in r.rows

\* The whole of what a page says it lists.
BlocksWhole(p, blocks, strays) ==
  /\ Len(p.rows) = Min({p.count, p.tip})
  /\ \A i \in 1..Len(p.rows) : BlockAsked(p.rows[i], p.tip + 1 - i, blocks, strays)
QueueWhole(p, gone, strays) ==
  /\ Len(p.rows) + p.unread = Len(p.ids)
  /\ \A i \in 1..Len(p.rows) : QueuedAsked(p.rows[i], p.ids[i], gone, strays)
SweepWhole(p) ==
  LET listed == {row.account : row \in p.rows}
  IN  /\ listed \cup p.unresolved = 0..p.to
      /\ listed \cap p.unresolved = {}
      /\ p.held \cap 0..p.to \subseteq listed
      /\ \A row \in p.rows : row.entry \in {Absent, row.account}
PageWhole(p, blocks, gone, strays) ==
  /\ p.verb = "blocks" => BlocksWhole(p, blocks, strays)
  /\ p.verb = "block" => BlockAsked(p.row, p.index, blocks, strays)
  /\ p.verb = "transaction" => strays \/ p.rows = {p.id}
  /\ p.verb = "mempool" => QueueWhole(p, gone, strays)
  /\ p.verb = "discover" => SweepWhole(p)

NodeInv ==
  /\ walk # NoWalk => run.state = "walking"
  /\ moves \in Nat
  /\ walk # NoWalk \/ reader # Absent => node \in NodeType
  /\ WalkOK
  /\ walk.verb \in {"blocks", "block"} => \A i \in 1..Tip : BlockAt(i) \in seen.blocks
  /\ walk.verb = "mempool" => Ids \ ToSet(node.queue) \subseteq seen.gone
  /\ walk.verb = "recent" \/ reader # Absent => PagingOK(reader, node.rows)
  /\ shown # Absent => PageWhole(shown, seen.blocks, seen.gone, node.strays)

\* The ids in some order are a sequence of them.
LEMMA IdsInOrder == SetToSeq(Ids) \in Seq(Ids)
<1>1. /\ Cardinality(Ids) \in Nat
      /\ ExistsBijection(1..Cardinality(Ids), Ids)
  BY NodeAssumption, FS_CardinalityType
<1>2. \E f \in [1..Cardinality(Ids) -> Ids] : IsInjective(f)
  BY <1>1 DEF ExistsBijection, Bijection, Injection
<1>3. SetToSeq(Ids) \in [1..Cardinality(Ids) -> Ids]
  BY <1>2 DEF SetToSeq
<1> QED
  BY <1>1, <1>3

\* A node a command finds is one.
LEMMA NodesAreTyped ==
  ASSUME NEW n \in Nodes
  PROVE  n \in NodeType
<1>1. ASSUME NEW fork \in Forks PROVE [i \in 1..MaxTip |-> fork] \in Seq(Forks)
  <2>1. [i \in 1..MaxTip |-> fork] \in [1..MaxTip -> Forks] /\ MaxTip \in Nat
    BY <1>1, NodeAssumption
  <2> QED
    BY <2>1
<1>2. <<>> \in Seq(Ids) /\ SetToSeq(Ids) \in Seq(Ids) /\ SetToSeq(Ids) \in Seq(Row)
  <2>1. PICK ids : ids = SetToSeq(Ids)
    OBVIOUS
  <2>2. ids \in Seq(Ids)
    BY <2>1, IdsInOrder
  <2>3. ids \in Seq(Row)
    BY <2>2 DEF Row
  <2> QED
    BY <2>1, <2>2, <2>3
<1>3. {} \subseteq Nat /\ {1} \subseteq Nat /\ Indices \subseteq Nat
  <2>1. \A i \in 0..MaxTo : i \in Nat
    OBVIOUS
  <2> QED
    BY <2>1 DEF Indices
<1>4. PICK chain \in {[i \in 1..MaxTip |-> fork] : fork \in Forks},
           queue \in {<<>>, SetToSeq(Ids)}, rows \in {SetToSeq(Ids)},
           resolving \in {{}, {1}, Indices}, strays \in BOOLEAN :
        n = [chain |-> chain, queue |-> queue, rows |-> rows, resolving |-> resolving,
             strays |-> strays]
  BY DEF Nodes
<1>5. chain \in Seq(Forks)
  BY <1>1, <1>4
<1>6. queue \in Seq(Ids) /\ rows \in Seq(Row)
  BY <1>2, <1>4
<1>7. resolving \in SUBSET Nat
  <2>1. resolving = {} \/ resolving = {1} \/ resolving = Indices
    BY <1>4
  <2>2. resolving \subseteq Nat
    <3>1. CASE resolving = {}
      BY <3>1, <1>3, Zenon
    <3>2. CASE resolving = {1}
      BY <3>2, <1>3, Zenon
    <3>3. CASE resolving = Indices
      BY <3>3, <1>3, Zenon
    <3> QED
      BY <2>1, <3>1, <3>2, <3>3, Zenon
  <2> QED
    BY <2>2, Zenon
<1> QED
  BY <1>4, <1>5, <1>6, <1>7 DEF NodeType

\* A command begins on a node of which everything is still to be seen.
LEMMA BeginStep ==
  ASSUME NEW new, Begin(new)
  PROVE  /\ node' \in NodeType /\ moves' = 0 /\ walk' = new /\ shown' = Absent
         /\ \A i \in 1..Tip' : BlockAt(i)' \in (seen').blocks
         /\ Ids \ ToSet((node').queue) \subseteq (seen').gone
<1>1. node' \in Nodes /\ moves' = 0 /\ walk' = new /\ shown' = Absent /\ seen' = Seen'
  BY DEF Begin
<1>2. PICK n : n = node'
  OBVIOUS
<1>3. seen' = [blocks |-> {[index |-> i, fork |-> n.chain[i]] : i \in 1..Len(n.chain)},
               gone |-> Ids \ ToSet(n.queue)]
  BY <1>1, <1>2 DEF Seen, BlockAt, Tip
<1>4. /\ (seen').blocks = {[index |-> i, fork |-> n.chain[i]] : i \in 1..Len(n.chain)}
      /\ (seen').gone = Ids \ ToSet(n.queue)
  BY <1>3
<1>5. \A i \in 1..Tip' : BlockAt(i)' \in (seen').blocks
  BY <1>2, <1>4 DEF BlockAt, Tip
<1>6. Ids \ ToSet((node').queue) \subseteq (seen').gone
  BY <1>2, <1>4
<1> QED
  BY <1>1, <1>5, <1>6, NodesAreTyped

\* What was seen stays seen when the node moves, and what is there now is too.
LEMMA MovesStep ==
  ASSUME NEW new, Moves(new), moves \in Nat
  PROVE  /\ node' = new /\ moves' \in Nat /\ UNCHANGED <<walk, shown, reader>>
         /\ seen.blocks \subseteq (seen').blocks /\ seen.gone \subseteq (seen').gone
         /\ \A i \in 1..Tip' : BlockAt(i)' \in (seen').blocks
         /\ Ids \ ToSet((node').queue) \subseteq (seen').gone
<1>1. /\ node' = new /\ moves' = moves + 1 /\ UNCHANGED <<walk, shown, reader>>
      /\ seen' = [blocks |-> seen.blocks \cup Seen'.blocks, gone |-> seen.gone \cup Seen'.gone]
  BY DEF Moves
<1>2. PICK now : now = Seen'
  OBVIOUS
<1>3. now = [blocks |-> {[index |-> i, fork |-> new.chain[i]] : i \in 1..Len(new.chain)},
             gone |-> Ids \ ToSet(new.queue)]
  BY <1>1, <1>2 DEF Seen, BlockAt, Tip
<1>4. /\ now.blocks = {[index |-> i, fork |-> new.chain[i]] : i \in 1..Len(new.chain)}
      /\ now.gone = Ids \ ToSet(new.queue)
  BY <1>3
<1>5. (seen').blocks = seen.blocks \cup now.blocks /\ (seen').gone = seen.gone \cup now.gone
  BY <1>1, <1>2
<1>6. \A i \in 1..Tip' : BlockAt(i)' \in (seen').blocks
  BY <1>1, <1>4, <1>5 DEF BlockAt, Tip
<1> QED
  BY <1>1, <1>4, <1>5, <1>6

\* A page stays whole as more is seen.
LEMMA WholeStays ==
  ASSUME NEW p, NEW blocks, NEW gone, NEW blocks2, NEW gone2,
         NEW strays, PageWhole(p, blocks, gone, strays),
         blocks \subseteq blocks2, gone \subseteq gone2
  PROVE  PageWhole(p, blocks2, gone2, strays)
<1>1. BlocksWhole(p, blocks, strays) => BlocksWhole(p, blocks2, strays)
  BY DEF BlocksWhole, BlockAsked
<1>2. QueueWhole(p, gone, strays) => QueueWhole(p, gone2, strays)
  BY DEF QueueWhole, QueuedAsked
<1>3. BlockAsked(p.row, p.index, blocks, strays) => BlockAsked(p.row, p.index, blocks2, strays)
  BY DEF BlockAsked
<1> QED
  BY <1>1, <1>2, <1>3, Zenon DEF PageWhole

\* The verb of a read in progress tells what is known of it.
LEMMA VerbTells ==
  ASSUME WalkOK
  PROVE  /\ walk.verb = "blocks" => BlocksSoFar(walk, seen.blocks, node.strays)
         /\ walk.verb = "block" => walk.index \in Nat \ {0}
         /\ walk.verb = "mempool" => QueueSoFar(walk, seen.gone, node.strays)
         /\ walk.verb = "discover" => SweepSoFar(walk)
         /\ walk.verb = "recent" => PageSoFar(walk, reader)
<1>1. CASE walk = NoWalk
  <2>1. walk.verb = "none"
    BY <1>1 DEF NoWalk
  <2> QED
    BY <2>1
<1>2. CASE BlocksSoFar(walk, seen.blocks, node.strays)
  <2>1. walk.verb = "blocks"
    BY <1>2 DEF BlocksSoFar
  <2> QED
    BY <1>2, <2>1
<1>3. CASE QueueSoFar(walk, seen.gone, node.strays)
  <2>1. walk.verb = "mempool"
    BY <1>3 DEF QueueSoFar
  <2> QED
    BY <1>3, <2>1
<1>4. CASE SweepSoFar(walk)
  <2>1. walk.verb = "discover"
    BY <1>4 DEF SweepSoFar
  <2> QED
    BY <1>4, <2>1
<1>5. CASE PageSoFar(walk, reader)
  <2>1. walk.verb = "recent"
    BY <1>5 DEF PageSoFar
  <2> QED
    BY <1>5, <2>1
<1>6. CASE walk.verb = "block" /\ walk.index \in Nat \ {0}
  BY <1>6
<1>7. CASE walk.verb = "transaction"
  BY <1>7
<1> QED
  BY <1>1, <1>2, <1>3, <1>4, <1>5, <1>6, <1>7 DEF WalkOK

\* A request that was answered, and another is due.
LEMMA ContinueStep ==
  ASSUME NodeInv, NEW next, Continue(next), reader' = reader, run' = run, walk # NoWalk,
         next.verb = walk.verb,
         \/ BlocksSoFar(next, seen.blocks, node.strays)
         \/ QueueSoFar(next, seen.gone, node.strays) \/ SweepSoFar(next)
  PROVE  NodeInv'
<1>1. walk' = next /\ UNCHANGED <<node, moves, seen, shown, reader, run>>
  BY DEF Continue
<1>2. WalkOK'
  <2>1. CASE BlocksSoFar(next, seen.blocks, node.strays)
    BY <1>1, <2>1 DEF WalkOK, BlocksSoFar
  <2>2. CASE QueueSoFar(next, seen.gone, node.strays)
    BY <1>1, <2>2 DEF WalkOK, QueueSoFar
  <2>3. CASE SweepSoFar(next)
    BY <1>1, <2>3 DEF WalkOK, SweepSoFar
  <2> QED
    BY <2>1, <2>2, <2>3
<1>3. /\ run.state = "walking" /\ moves \in Nat /\ node \in NodeType
      /\ walk.verb \in {"blocks", "block"} => \A i \in 1..Tip : BlockAt(i) \in seen.blocks
      /\ walk.verb = "mempool" => Ids \ ToSet(node.queue) \subseteq seen.gone
      /\ walk.verb = "recent" \/ reader # Absent => PagingOK(reader, node.rows)
      /\ shown # Absent => PageWhole(shown, seen.blocks, seen.gone, node.strays)
  BY DEF NodeInv
<1>4. /\ walk'.verb \in {"blocks", "block"} => \A i \in 1..Tip' : BlockAt(i)' \in (seen').blocks
      /\ walk'.verb = "mempool" => Ids \ ToSet((node').queue) \subseteq (seen').gone
  BY <1>1, <1>3 DEF Tip, BlockAt
<1>5. walk'.verb = "recent" \/ reader' # Absent => PagingOK(reader', (node').rows)
  BY <1>1, <1>3
<1>6. shown' # Absent => PageWhole(shown', (seen').blocks, (seen').gone, (node').strays)
  BY <1>1, <1>3
<1>7. run'.state = "walking" /\ moves' \in Nat /\ node' \in NodeType
  BY <1>1, <1>3
<1> QED
  BY <1>2, <1>4, <1>5, <1>6, <1>7, Zenon DEF NodeInv

\* The last request was answered, and its page is whole.
LEMMA ShowStep ==
  ASSUME NodeInv, NEW p, Show(p), run' = run, walk # NoWalk,
         PageWhole(p, seen.blocks, seen.gone, node.strays),
         reader' # Absent => PagingOK(reader', node.rows)
  PROVE  NodeInv'
<1>1. walk' = NoWalk /\ shown' = p /\ UNCHANGED <<node, moves, seen, run>>
  BY DEF Show
<1>2. walk'.verb = "none" /\ WalkOK'
  BY <1>1 DEF NoWalk, WalkOK
<1>3. /\ moves' \in Nat /\ node' \in NodeType
      /\ reader' # Absent => PagingOK(reader', (node').rows)
      /\ PageWhole(shown', (seen').blocks, (seen').gone, (node').strays)
  BY <1>1 DEF NodeInv
<1> QED
  BY <1>1, <1>2, <1>3 DEF NodeInv

\* A read that stopped lists nothing.
LEMMA StoppedStep ==
  ASSUME NodeInv, NEW error, Show(Stopped(error)), reader' = reader \/ reader' = Absent,
         run' = run, walk # NoWalk
  PROVE  NodeInv'
<1>1. PICK p : p = Stopped(error)
  OBVIOUS
<1>2. p.verb = "stopped"
  BY <1>1 DEF Stopped
<1>3. PageWhole(p, seen.blocks, seen.gone, node.strays)
  BY <1>2 DEF PageWhole
<1>4. reader' # Absent => PagingOK(reader', node.rows)
  BY DEF NodeInv
<1> QED
  BY <1>1, <1>3, <1>4, ShowStep

\* `blocks` asks for the tip.
LEMMA ReadStatusStep ==
  ASSUME NodeInv, ReadStatus, run' = run
  PROVE  NodeInv'
<1>1. walk.verb = "blocks" /\ walk.tip = Absent /\ reader' = reader
  BY DEF ReadStatus
<1>2. walk # NoWalk
  BY <1>1 DEF NoWalk
<1>3. BlocksSoFar(walk, seen.blocks, node.strays) /\ node \in NodeType
  BY <1>1, <1>2, VerbTells DEF NodeInv
<1>4. PICK reply \in StatusReplies :
        IF ParseStatus(Post(reply)).ok
        THEN Continue([walk EXCEPT !.tip = ParseStatus(Post(reply)).result])
        ELSE Show(Stopped(ParseStatus(Post(reply)).error))
  BY DEF ReadStatus
<1>5. CASE ParseStatus(Post(reply)).ok
  <2>1. PICK w, next, tip : w = walk /\ tip = Tip /\ next = [w EXCEPT !.tip = tip]
    OBVIOUS
  <2>2. Continue(next)
    BY <1>4, <1>5, <2>1, StatusIsTip
  <2>3. tip \in Nat /\ tip # Absent
    <3>1. node.chain \in Seq(Forks)
      BY <1>3, Zenon DEF NodeType
    <3>2. Len(node.chain) \in Nat
      BY <3>1
    <3> QED
      BY <2>1, <3>2, NodeAssumption DEF Tip
  <2>4. BlocksSoFar(w, seen.blocks, node.strays) /\ w.rows = <<>>
    BY <1>1, <1>3, <2>1 DEF BlocksSoFar
  <2>5. BlocksSoFar(next, seen.blocks, node.strays) /\ next.verb = "blocks"
    BY <2>1, <2>3, <2>4 DEF BlocksSoFar
  <2> QED
    BY <1>1, <1>2, <2>2, <2>5, ContinueStep
<1>6. CASE ~ParseStatus(Post(reply)).ok
  BY <1>1, <1>2, <1>4, <1>6, StoppedStep
<1> QED
  BY <1>5, <1>6

\* The less of two numbers.
LEMMA LessOfTwo ==
  ASSUME NEW a \in Nat, NEW b \in Nat, NEW c \in {a, b}, c <= a, c <= b
  PROVE  Min({a, b}) = c
<1>1. \E x \in {a, b} : \A y \in {a, b} : x =< y
  OBVIOUS
<1>2. PICK m : m = Min({a, b}) /\ m \in {a, b} /\ \A y \in {a, b} : m =< y
  BY <1>1 DEF Min
<1>3. m <= c /\ c <= m /\ m \in Nat /\ c \in Nat
  BY <1>2
<1> QED
  BY <1>2, <1>3

\* `blocks` reads the next one down, or is done.
LEMMA ReadBlocksStep ==
  ASSUME NodeInv, ReadBlocks, run' = run
  PROVE  NodeInv'
<1>1. walk.verb = "blocks" /\ walk.tip # Absent /\ reader' = reader
  BY DEF ReadBlocks
<1>2. walk # NoWalk
  BY <1>1 DEF NoWalk
<1>3. BlocksSoFar(walk, seen.blocks, node.strays) /\ node \in NodeType
  BY <1>1, <1>2, VerbTells DEF NodeInv
<1>4. PICK w, index : w = walk /\ index = w.tip - Len(w.rows)
  OBVIOUS
<1>5. BlocksSoFar(w, seen.blocks, node.strays)
  BY <1>3, <1>4
<1>6. /\ w.count \in Nat /\ w.tip \in Nat /\ w.rows \in Seq(Block) /\ Len(w.rows) \in Nat
      /\ Len(w.rows) <= w.tip /\ Len(w.rows) <= w.count
      /\ \A i \in 1..Len(w.rows) :
           BlockAsked(w.rows[i], w.tip + 1 - i, seen.blocks, node.strays)
  BY <1>1, <1>4, <1>5 DEF BlocksSoFar
<1>7. CASE Walked(index)
  <2>1. PICK p : p = BlocksPage
    OBVIOUS
  <2>2. Show(p)
    BY <1>4, <1>7, <2>1 DEF ReadBlocks
  <2>3. /\ p.verb = "blocks" /\ p.count = w.count /\ p.tip = w.tip /\ p.rows = w.rows
    BY <1>4, <2>1 DEF BlocksPage
  <2>4. Len(w.rows) \in {w.count, w.tip}
    BY <1>4, <1>6, <1>7 DEF Walked
  <2>5. Min({w.count, w.tip}) = Len(w.rows)
    BY <1>6, <2>4, LessOfTwo
  <2>6. BlocksWhole(p, seen.blocks, node.strays)
    BY <1>6, <2>3, <2>5 DEF BlocksWhole
  <2>7. PageWhole(p, seen.blocks, seen.gone, node.strays)
    BY <2>3, <2>6 DEF PageWhole
  <2>8. reader' # Absent => PagingOK(reader', node.rows)
    BY <1>1 DEF NodeInv
  <2> QED
    BY <1>2, <2>2, <2>7, <2>8, ShowStep
<1>8. CASE ~Walked(index)
  <2>1. PICK reply \in BlockReplies(index) :
          IF ParseBlock(Post(reply)).ok
          THEN Continue([walk EXCEPT !.rows = Append(@, ParseBlock(Post(reply)).result)])
          ELSE Show(Stopped(ParseBlock(Post(reply)).error))
    BY <1>4, <1>8 DEF ReadBlocks
  <2>2. index \in Nat /\ index >= 1 /\ Len(w.rows) # w.count /\ index = w.tip - Len(w.rows)
    BY <1>4, <1>6, <1>8 DEF Walked
  <2>3. CASE ParseBlock(Post(reply)).ok
    <3>1. PICK block, rows, next : block = ParseBlock(Post(reply)).result
                                     /\ rows = Append(w.rows, block)
                                     /\ next = [w EXCEPT !.rows = rows]
      OBVIOUS
    <3>2. \/ node.strays /\ block \in [index : 1..MaxTip, fork : Forks]
          \/ block = BlockAt(index) /\ index <= Tip
      BY <2>2, <2>3, <3>1, BlockIsAsked
    <3>3. Continue(next)
      BY <1>4, <2>1, <2>3, <3>1
    <3>4. BlockAsked(block, index, seen.blocks, node.strays)
      <4>1. block = BlockAt(index) /\ index <= Tip => block \in seen.blocks /\ block.index = index
        BY <1>1, <2>2 DEF NodeInv, Tip, NodeType, BlockAt
      <4> QED
        BY <3>2, <4>1 DEF BlockAsked
    <3>5. block \in Block
      <4>1. CASE block \in [index : 1..MaxTip, fork : Forks]
        BY <4>1 DEF Block
      <4>2. CASE block = BlockAt(index) /\ index <= Tip
        <5>1. node.chain \in Seq(Forks) /\ index \in 1..Len(node.chain)
          BY <1>3, <2>2, <4>2 DEF NodeType, Tip
        <5> QED
          BY <2>2, <4>2, <5>1 DEF Block, BlockAt
      <4> QED
        BY <3>2, <4>1, <4>2
    <3>6. /\ rows \in Seq(Block) /\ Len(rows) = Len(w.rows) + 1
          /\ \A i \in 1..Len(w.rows) : rows[i] = w.rows[i]
          /\ rows[Len(w.rows) + 1] = block
      BY <1>6, <3>1, <3>5
    <3>7. \A i \in 1..Len(rows) : BlockAsked(rows[i], w.tip + 1 - i, seen.blocks, node.strays)
      <4>1. SUFFICES ASSUME NEW i \in 1..Len(rows)
                     PROVE  BlockAsked(rows[i], w.tip + 1 - i, seen.blocks, node.strays)
        OBVIOUS
      <4>2. CASE i = Len(w.rows) + 1
        <5>1. w.tip + 1 - i = index
          BY <1>6, <2>2, <4>2
        <5> QED
          BY <3>4, <3>6, <4>2, <5>1
      <4>3. CASE i # Len(w.rows) + 1
        <5>1. i \in 1..Len(w.rows) /\ rows[i] = w.rows[i]
          BY <1>6, <3>6, <4>1, <4>3
        <5> QED
          BY <1>6, <5>1
      <4> QED
        BY <4>2, <4>3
    <3>8. BlocksSoFar(next, seen.blocks, node.strays) /\ next.verb = "blocks"
      <4>1. /\ next.rows = rows /\ next.tip = w.tip /\ next.count = w.count /\ next.verb = "blocks"
            /\ next \in [verb : {"blocks"}, count : Nat, tip : Nat \cup {Absent},
                         rows : Seq(Block)]
        BY <1>5, <3>1, <3>6 DEF BlocksSoFar
      <4> QED
        BY <1>1, <1>4, <1>6, <2>2, <3>6, <3>7, <4>1 DEF BlocksSoFar
    <3> QED
      BY <1>1, <1>2, <3>3, <3>8, ContinueStep
  <2>4. CASE ~ParseBlock(Post(reply)).ok
    BY <1>1, <1>2, <2>1, <2>4, StoppedStep
  <2> QED
    BY <2>3, <2>4
<1> QED
  BY <1>7, <1>8

\* `block` reads the one asked for.
LEMMA ReadBlockStep ==
  ASSUME NodeInv, ReadBlock, run' = run
  PROVE  NodeInv'
<1>1. walk.verb = "block" /\ reader' = reader
  BY DEF ReadBlock
<1>2. walk # NoWalk
  BY <1>1 DEF NoWalk
<1>3. walk.index \in Nat \ {0}
  BY <1>1, VerbTells DEF NodeInv
<1>4. PICK reply \in BlockReplies(walk.index) :
        Show(IF ParseBlock(Post(reply)).ok THEN BlockPage(ParseBlock(Post(reply)).result)
             ELSE Stopped(ParseBlock(Post(reply)).error))
  BY DEF ReadBlock
<1>5. CASE ParseBlock(Post(reply)).ok
  <2>1. PICK block, index, p : block = ParseBlock(Post(reply)).result /\ index = walk.index
                                 /\ p = BlockPage(block)
    OBVIOUS
  <2>2. Show(p)
    BY <1>4, <1>5, <2>1
  <2>3. p.verb = "block" /\ p.row = block /\ p.index = index
    BY <2>1 DEF BlockPage
  <2>4. BlockAsked(block, index, seen.blocks, node.strays)
    <3>1. node.strays \/ (block = BlockAt(index) /\ index <= Tip)
      BY <1>3, <1>4, <1>5, <2>1, BlockIsAsked
    <3>2. block = BlockAt(index) /\ index <= Tip => block \in seen.blocks /\ block.index = index
      BY <1>1, <1>3, <2>1 DEF NodeInv, BlockAt
    <3> QED
      BY <3>1, <3>2 DEF BlockAsked
  <2>5. PageWhole(p, seen.blocks, seen.gone, node.strays)
    BY <2>3, <2>4 DEF PageWhole
  <2>6. reader' # Absent => PagingOK(reader', node.rows)
    BY <1>1 DEF NodeInv
  <2> QED
    BY <1>2, <2>2, <2>5, <2>6, ShowStep
<1>6. CASE ~ParseBlock(Post(reply)).ok
  BY <1>1, <1>2, <1>4, <1>6, StoppedStep
<1> QED
  BY <1>5, <1>6

\* `mempool` asks for the queue's ids.
LEMMA ReadQueueStep ==
  ASSUME NodeInv, ReadQueue, run' = run
  PROVE  NodeInv'
<1>1. walk.verb = "mempool" /\ walk.ids = Absent /\ reader' = reader
  BY DEF ReadQueue
<1>2. walk # NoWalk
  BY <1>1 DEF NoWalk
<1>3. QueueSoFar(walk, seen.gone, node.strays) /\ node \in NodeType
  BY <1>1, <1>2, VerbTells DEF NodeInv
<1>4. PICK reply \in QueueReplies :
        IF ParseMempool(Post(reply)).ok
        THEN Continue([walk EXCEPT !.ids = ParseMempool(Post(reply)).result])
        ELSE Show(Stopped(ParseMempool(Post(reply)).error))
  BY DEF ReadQueue
<1>5. CASE ParseMempool(Post(reply)).ok
  <2>1. PICK w, ids, next : w = walk /\ ids = ParseMempool(Post(reply)).result
                              /\ next = [w EXCEPT !.ids = ids]
    OBVIOUS
  <2>2. Continue(next)
    BY <1>4, <1>5, <2>1
  <2>3. ids \in Seq(Ids)
    <3>1. node.queue \in Seq(Ids) /\ <<>> \in Seq(Ids)
      BY <1>3 DEF NodeType
    <3>2. ids = <<>> \/ ids = node.queue
      BY <1>5, <2>1, QueueIsRead
    <3> QED
      BY <3>1, <3>2
  <2>4. QueueSoFar(w, seen.gone, node.strays) /\ w.rows = <<>>
    BY <1>1, <1>3, <2>1 DEF QueueSoFar
  <2>5. QueueSoFar(next, seen.gone, node.strays) /\ next.verb = "mempool"
    BY <2>1, <2>3, <2>4 DEF QueueSoFar
  <2> QED
    BY <1>1, <1>2, <2>2, <2>5, ContinueStep
<1>6. CASE ~ParseMempool(Post(reply)).ok
  BY <1>1, <1>2, <1>4, <1>6, StoppedStep
<1> QED
  BY <1>5, <1>6

\* `mempool` reads the next of them whole, or learns that it left the queue.
LEMMA ReadQueuedStep ==
  ASSUME NodeInv, ReadQueued, run' = run
  PROVE  NodeInv'
<1>1. walk.verb = "mempool" /\ walk.ids # Absent /\ reader' = reader
  BY DEF ReadQueued
<1>2. walk # NoWalk
  BY <1>1 DEF NoWalk
<1>3. QueueSoFar(walk, seen.gone, node.strays) /\ node \in NodeType
  BY <1>1, <1>2, VerbTells DEF NodeInv
<1>4. PICK w, n : w = walk /\ n = Len(w.rows) + 1
  OBVIOUS
<1>5. QueueSoFar(w, seen.gone, node.strays) /\ w.ids # Absent
  BY <1>1, <1>3, <1>4
<1>6. /\ w.count \in Nat /\ w.ids \in Seq(Ids) /\ Len(w.ids) \in Nat
      /\ w.rows \in Seq(Waiting) /\ Len(w.rows) \in Nat
      /\ Len(w.rows) <= Len(w.ids)
      /\ \A i \in 1..Len(w.rows) : QueuedAsked(w.rows[i], w.ids[i], seen.gone, node.strays)
  BY <1>5 DEF QueueSoFar
<1>7. CASE n > w.count \/ n > Len(w.ids)
  <2>1. PICK p : p = MempoolPage
    OBVIOUS
  <2>2. Show(p)
    BY <1>4, <1>7, <2>1 DEF ReadQueued
  <2>3. /\ p.verb = "mempool" /\ p.ids = w.ids /\ p.rows = w.rows
        /\ p.unread = Len(w.ids) - Len(w.rows)
    BY <1>4, <2>1 DEF MempoolPage
  <2>4. QueueWhole(p, seen.gone, node.strays)
    BY <1>6, <2>3 DEF QueueWhole
  <2>5. PageWhole(p, seen.blocks, seen.gone, node.strays)
    BY <2>3, <2>4 DEF PageWhole
  <2>6. reader' # Absent => PagingOK(reader', node.rows)
    BY <1>1 DEF NodeInv
  <2> QED
    BY <1>2, <2>2, <2>5, <2>6, ShowStep
<1>8. CASE ~(n > w.count \/ n > Len(w.ids))
  <2>1. PICK id : id = w.ids[n]
    OBVIOUS
  <2>2. id \in Ids /\ n \in 1..Len(w.ids)
    BY <1>4, <1>6, <1>8, <2>1
  <2>3. PICK reply \in QueuedReplies(id) :
          LET got == ParseQueued(Post(reply))
              RowOf(transaction) ==
                [walk EXCEPT !.rows = Append(@, [id |-> id, transaction |-> transaction])]
          IN  IF got.ok THEN Continue(RowOf(got.result))
              ELSE IF LeftTheQueue(got.error) THEN Continue(RowOf(Absent))
              ELSE Show(Stopped(got.error))
    BY <1>4, <1>8, <2>1 DEF ReadQueued
  <2>4. ASSUME NEW transaction \in Ids \cup {Absent},
               \/ node.strays
               \/ transaction \in {id, Absent} /\ (transaction = Absent => id \in seen.gone),
               Continue([walk EXCEPT !.rows = Append(@, [id |-> id, transaction |-> transaction])])
        PROVE  NodeInv'
    <3>1. PICK line, rows, next : line = [id |-> id, transaction |-> transaction]
                                    /\ rows = Append(w.rows, line)
                                    /\ next = [w EXCEPT !.rows = rows]
      OBVIOUS
    <3>2. Continue(next)
      BY <1>4, <2>4, <3>1
    <3>3. line \in Waiting /\ QueuedAsked(line, id, seen.gone, node.strays)
      <4>1. line.id = id /\ line.transaction = transaction
        BY <3>1
      <4>2. line \in Waiting
        BY <2>2, <2>4, <3>1 DEF Waiting
      <4> QED
        BY <2>4, <4>1, <4>2 DEF QueuedAsked
    <3>4. /\ rows \in Seq(Waiting) /\ Len(rows) = n
          /\ \A i \in 1..Len(w.rows) : rows[i] = w.rows[i]
          /\ rows[n] = line
      BY <1>4, <1>6, <3>1, <3>3
    <3>5. \A i \in 1..Len(rows) : QueuedAsked(rows[i], w.ids[i], seen.gone, node.strays)
      <4>1. SUFFICES ASSUME NEW i \in 1..Len(rows)
                     PROVE  QueuedAsked(rows[i], w.ids[i], seen.gone, node.strays)
        OBVIOUS
      <4>2. CASE i = n
        BY <2>1, <3>3, <3>4, <4>2
      <4>3. CASE i # n
        <5>1. i \in 1..Len(w.rows) /\ rows[i] = w.rows[i]
          BY <1>4, <1>6, <3>4, <4>1, <4>3
        <5> QED
          BY <1>6, <5>1
      <4> QED
        BY <4>2, <4>3
    <3>6. /\ next.rows = rows /\ next.ids = w.ids /\ next.verb = "mempool"
          /\ next \in [verb : {"mempool"}, count : Nat, ids : Seq(Ids) \cup {Absent},
                       rows : Seq(Waiting)]
      BY <1>5, <3>1, <3>4 DEF QueueSoFar
    <3>7. QueueSoFar(next, seen.gone, node.strays)
      BY <1>5, <2>2, <3>4, <3>5, <3>6 DEF QueueSoFar
    <3> QED
      BY <1>1, <1>2, <3>2, <3>6, <3>7, ContinueStep
  <2>5. CASE ParseQueued(Post(reply)).ok
    <3>1. PICK transaction : transaction = ParseQueued(Post(reply)).result
      OBVIOUS
    <3>2. (node.strays /\ transaction \in Ids) \/ transaction = id
      BY <2>5, <3>1, QueuedIsAsked
    <3>3. Continue([walk EXCEPT !.rows = Append(@, [id |-> id, transaction |-> transaction])])
      BY <2>3, <2>5, <3>1
    <3>4. Absent \notin Ids
      BY NodeAssumption
    <3> QED
      BY <2>2, <2>4, <3>2, <3>3, <3>4
  <2>6. CASE ~ParseQueued(Post(reply)).ok /\ LeftTheQueue(ParseQueued(Post(reply)).error)
    <3>1. node.strays \/ id \notin ToSet(node.queue)
      BY <2>6, QueuedIsAsked
    <3>2. node.strays \/ id \in seen.gone
      BY <1>1, <2>2, <3>1 DEF NodeInv
    <3>3. Continue([walk EXCEPT !.rows = Append(@, [id |-> id, transaction |-> Absent])])
      BY <2>3, <2>6
    <3> QED
      BY <2>4, <3>2, <3>3
  <2>7. CASE ~ParseQueued(Post(reply)).ok /\ ~LeftTheQueue(ParseQueued(Post(reply)).error)
    BY <1>1, <1>2, <2>3, <2>7, StoppedStep
  <2> QED
    BY <2>5, <2>6, <2>7
<1> QED
  BY <1>7, <1>8

\* The elements of a sequence, by their places.
LEMMA ElementsOf ==
  ASSUME NEW S, NEW q \in Seq(S)
  PROVE  ToSet(q) = {q[i] : i \in 1..Len(q)}
<1>1. DOMAIN q = 1..Len(q)
  OBVIOUS
<1> QED
  BY <1>1, Zenon DEF ToSet

\* A sweep that reached its last index lists each of them once.
LEMMA SweptPage ==
  ASSUME NEW w, SweepSoFar(w), Len(w.sightings) > w.to, NEW p,
         p.verb = "discover", p.to = w.to, p.held = w.held,
         p.rows = {s \in ToSet(w.sightings) : s.entry # Absent \/ s.account \in w.held},
         p.unresolved = {t.account : t \in {s \in ToSet(w.sightings) :
                                              ~(s.entry # Absent \/ s.account \in w.held)}}
  PROVE  SweepWhole(p)
<1>1. PICK s, to, held : s = w.sightings /\ to = w.to /\ held = w.held
  OBVIOUS
<1>2. /\ s \in Seq([account : Nat, entry : Nat \cup {Absent}]) /\ to \in Nat
      /\ Len(s) = to + 1
      /\ \A i \in 1..Len(s) : s[i].account = i - 1 /\ s[i].entry \in {Absent, i - 1}
  BY <1>1 DEF SweepSoFar
<1>3. ToSet(s) = {s[i] : i \in 1..Len(s)}
  <2>1. PICK S : S = [account : Nat, entry : Nat \cup {Absent}]
    OBVIOUS
  <2>2. s \in Seq(S)
    BY <1>2, <2>1
  <2> QED
    BY <2>2, ElementsOf
<1>4. \A a \in 0..to : a + 1 \in 1..Len(s) /\ s[a + 1] \in ToSet(s) /\ s[a + 1].account = a
  <2>1. ASSUME NEW a \in 0..to
        PROVE  a + 1 \in 1..Len(s) /\ s[a + 1] \in ToSet(s) /\ s[a + 1].account = a
    <3>1. a + 1 \in 1..Len(s)
      BY <1>2, <2>1
    <3>2. s[a + 1].account = (a + 1) - 1
      BY <1>2, <3>1
    <3> QED
      BY <1>3, <2>1, <3>1, <3>2
  <2> QED
    BY <2>1
<1>5. \A t \in ToSet(s) : /\ t.account \in 0..to /\ t = s[t.account + 1]
                          /\ t.entry \in {Absent, t.account}
  <2>1. ASSUME NEW t \in ToSet(s)
        PROVE  t.account \in 0..to /\ t = s[t.account + 1] /\ t.entry \in {Absent, t.account}
    <3>1. PICK i \in 1..Len(s) : t = s[i]
      BY <1>3, <2>1
    <3>2. t.account = i - 1 /\ t.entry \in {Absent, i - 1}
      BY <1>2, <3>1
    <3> QED
      BY <1>2, <3>1, <3>2
  <2> QED
    BY <2>1
<1>6. PICK rows, unresolved, listed :
        /\ rows = {t \in ToSet(s) : t.entry # Absent \/ t.account \in held}
        /\ unresolved = {t.account : t \in ToSet(s) \ rows}
        /\ listed = {t.account : t \in rows}
  OBVIOUS
<1>7. /\ p.rows = rows /\ p.unresolved = unresolved /\ p.to = to /\ p.held = held
  <2>1. p.rows = rows
    BY <1>1, <1>6
  <2>2. {t \in ToSet(s) : ~(t.entry # Absent \/ t.account \in held)} = ToSet(s) \ rows
    BY <1>6
  <2> QED
    BY <1>1, <1>6, <2>1, <2>2
<1>8. listed \cup unresolved = 0..to
  <2>1. \A a \in listed \cup unresolved : a \in 0..to
    BY <1>5, <1>6
  <2>2. ASSUME NEW a \in 0..to PROVE a \in listed \cup unresolved
    <3>1. PICK t \in ToSet(s) : t.account = a
      BY <1>4, <2>2
    <3> QED
      BY <1>6, <3>1
  <2> QED
    BY <2>1, <2>2
<1>9. listed \cap unresolved = {}
  <2>1. SUFFICES ASSUME NEW a \in listed, a \in unresolved PROVE FALSE
    OBVIOUS
  <2>2. PICK t \in rows : a = t.account
    BY <1>6, <2>1
  <2>3. PICK u \in ToSet(s) \ rows : a = u.account
    BY <1>6, <2>1
  <2>4. t = s[a + 1] /\ u = s[a + 1]
    BY <1>5, <1>6, <2>2, <2>3
  <2> QED
    BY <2>2, <2>3, <2>4
<1>10. held \cap 0..to \subseteq listed
  <2>1. SUFFICES ASSUME NEW a \in 0..to, a \in held PROVE a \in listed
    OBVIOUS
  <2>2. PICK t \in ToSet(s) : t.account = a
    BY <1>4, <2>1
  <2>3. t \in rows
    BY <1>6, <2>1, <2>2
  <2> QED
    BY <1>6, <2>2, <2>3
<1>11. \A t \in rows : t.entry \in {Absent, t.account}
  BY <1>5, <1>6
<1> HIDE <1>1, <1>2
<1> QED
  BY <1>6, <1>7, <1>8, <1>9, <1>10, <1>11 DEF SweepWhole

\* `discover` asks about the next index, or is done.
LEMMA SweepStep ==
  ASSUME NodeInv, Sweep, run' = run
  PROVE  NodeInv'
<1>1. walk.verb = "discover" /\ reader' = reader
  BY DEF Sweep
<1>2. walk # NoWalk
  BY <1>1 DEF NoWalk
<1>3. PICK w, n : w = walk /\ n = Len(w.sightings)
  OBVIOUS
<1>4. SweepSoFar(w)
  BY <1>1, <1>2, <1>3, VerbTells DEF NodeInv
<1>5. /\ w.to \in Nat /\ w.sightings \in Seq([account : Nat, entry : Nat \cup {Absent}])
      /\ n \in Nat /\ n <= w.to + 1 /\ n = Len(w.sightings)
      /\ \A i \in 1..n : w.sightings[i].account = i - 1 /\ w.sightings[i].entry \in {Absent, i - 1}
  BY <1>3, <1>4 DEF SweepSoFar
<1>6. CASE n > w.to
  <2>1. PICK p : p = DiscoveredPage
    OBVIOUS
  <2>2. Show(p)
    BY <1>3, <1>6, <2>1 DEF Sweep
  <2>3. /\ p.verb = "discover" /\ p.to = w.to /\ p.held = w.held
        /\ p.rows = {s \in ToSet(w.sightings) : s.entry # Absent \/ s.account \in w.held}
        /\ p.unresolved = {t.account : t \in {s \in ToSet(w.sightings) :
                                                ~(s.entry # Absent \/ s.account \in w.held)}}
    BY <1>3, <2>1 DEF DiscoveredPage, Listed
  <2>4. SweepWhole(p)
    BY <1>3, <1>4, <1>6, <2>3, SweptPage
  <2>5. PageWhole(p, seen.blocks, seen.gone, node.strays)
    BY <2>3, <2>4 DEF PageWhole
  <2>6. reader' # Absent => PagingOK(reader', node.rows)
    BY <1>1 DEF NodeInv
  <2> QED
    BY <1>2, <2>2, <2>5, <2>6, ShowStep
<1>7. CASE ~(n > w.to)
  <2>1. PICK reply \in ResolveReplies(n) :
          LET got == ParseTagResolve(Post(reply), n)
              SightingOf(entry) == [walk EXCEPT !.sightings =
                                      Append(@, [account |-> n, entry |-> entry])]
          IN  IF got.ok THEN Continue(SightingOf(got.result))
              ELSE IF Unresolved(got.error) THEN Continue(SightingOf(Absent))
              ELSE Show(Stopped(got.error))
    BY <1>3, <1>7 DEF Sweep
  <2>2. ASSUME NEW entry \in {Absent, n},
               Continue([walk EXCEPT !.sightings = Append(@, [account |-> n, entry |-> entry])])
        PROVE  NodeInv'
    <3>1. PICK line, lines, next : line = [account |-> n, entry |-> entry]
                                     /\ lines = Append(w.sightings, line)
                                     /\ next = [w EXCEPT !.sightings = lines]
      OBVIOUS
    <3>2. Continue(next)
      BY <1>3, <2>2, <3>1
    <3>3. /\ line \in [account : Nat, entry : Nat \cup {Absent}]
          /\ line.account = n /\ line.entry \in {Absent, n}
      BY <1>5, <2>2, <3>1
    <3>4. /\ lines \in Seq([account : Nat, entry : Nat \cup {Absent}]) /\ Len(lines) = n + 1
          /\ \A i \in 1..n : lines[i] = w.sightings[i]
          /\ lines[n + 1] = line
      BY <1>5, <3>1, <3>3
    <3>5. \A i \in 1..Len(lines) : lines[i].account = i - 1 /\ lines[i].entry \in {Absent, i - 1}
      <4>1. SUFFICES ASSUME NEW i \in 1..Len(lines)
                     PROVE  lines[i].account = i - 1 /\ lines[i].entry \in {Absent, i - 1}
        OBVIOUS
      <4>2. CASE i = n + 1
        <5>1. i - 1 = n /\ lines[i] = line
          BY <1>5, <3>4, <4>2
        <5> QED
          BY <3>3, <5>1
      <4>3. CASE i # n + 1
        <5>1. i \in 1..n /\ lines[i] = w.sightings[i]
          BY <1>5, <3>4, <4>1, <4>3
        <5> QED
          BY <1>5, <5>1
      <4> QED
        BY <4>2, <4>3
    <3>6. /\ next.sightings = lines /\ next.to = w.to /\ next.held = w.held
          /\ next.verb = "discover"
          /\ next \in [verb : {"discover"}, to : Nat, held : {w.held},
                       sightings : Seq([account : Nat, entry : Nat \cup {Absent}])]
      BY <1>4, <3>1, <3>4 DEF SweepSoFar
    <3>7. Len(lines) <= w.to + 1
      BY <1>5, <1>7, <3>4
    <3>8. SweepSoFar(next)
      BY <3>5, <3>6, <3>7 DEF SweepSoFar
    <3> QED
      BY <1>1, <1>2, <3>2, <3>6, <3>8, ContinueStep
  <2>3. CASE ParseTagResolve(Post(reply), n).ok
    <3>1. ParseTagResolve(Post(reply), n).result = n
      BY <2>3, ResolvedIsAsked
    <3>2. Continue([walk EXCEPT !.sightings = Append(@, [account |-> n, entry |-> n])])
      BY <2>1, <2>3, <3>1
    <3> QED
      BY <2>2, <3>2
  <2>4. CASE /\ ~ParseTagResolve(Post(reply), n).ok
             /\ Unresolved(ParseTagResolve(Post(reply), n).error)
    <3>1. Continue([walk EXCEPT !.sightings = Append(@, [account |-> n, entry |-> Absent])])
      BY <2>1, <2>4
    <3> QED
      BY <2>2, <3>1
  <2>5. CASE /\ ~ParseTagResolve(Post(reply), n).ok
             /\ ~Unresolved(ParseTagResolve(Post(reply), n).error)
    BY <1>1, <1>2, <2>1, <2>5, StoppedStep
  <2> QED
    BY <2>3, <2>4, <2>5
<1> QED
  BY <1>6, <1>7

\* `transaction` looks one up.
LEMMA LookUpStep ==
  ASSUME NodeInv, LookUp, run' = run
  PROVE  NodeInv'
<1>1. walk.verb = "transaction" /\ reader' = reader
  BY DEF LookUp
<1>2. walk # NoWalk
  BY <1>1 DEF NoWalk
<1>3. PICK reply \in LookUpReplies(walk.id) :
        Show(IF ParseSearch(Post(reply)).ok /\ ParseSearch(Post(reply)).result # {}
             THEN TransactionPage(ParseSearch(Post(reply)).result)
             ELSE Stopped(ParseSearch(Post(reply)).error))
  BY DEF LookUp
<1>4. CASE ParseSearch(Post(reply)).ok /\ ParseSearch(Post(reply)).result # {}
  <2>1. PICK rows, p : rows = ParseSearch(Post(reply)).result /\ p = TransactionPage(rows)
    OBVIOUS
  <2>2. Show(p)
    BY <1>3, <1>4, <2>1
  <2>3. p.verb = "transaction" /\ p.rows = rows /\ p.id = walk.id
    BY <2>1 DEF TransactionPage
  <2>4. PageWhole(p, seen.blocks, seen.gone, node.strays)
    <3>1. node.strays \/ rows = {walk.id}
      BY <1>3, <1>4, <2>1, LookedUpIsAsked
    <3> QED
      BY <2>3, <3>1 DEF PageWhole
  <2>5. reader' # Absent => PagingOK(reader', node.rows)
    BY <1>1 DEF NodeInv
  <2> QED
    BY <1>2, <2>2, <2>4, <2>5, ShowStep
<1>5. CASE ~(ParseSearch(Post(reply)).ok /\ ParseSearch(Post(reply)).result # {})
  BY <1>1, <1>2, <1>3, <1>5, StoppedStep
<1> QED
  BY <1>4, <1>5

\* A piece of a sequence has the elements of its places.
LEMMA PieceOf ==
  ASSUME NEW S, NEW q \in Seq(S), NEW low \in Nat, NEW high \in Nat, high <= Len(q)
  PROVE  /\ ToSet(SubSeq(q, low + 1, high)) \subseteq S
         /\ \A k \in 1..Len(q) :
              low < k /\ k <= high => q[k] \in ToSet(SubSeq(q, low + 1, high))
<1>1. PICK piece : piece = SubSeq(q, low + 1, high)
  OBVIOUS
<1>2. /\ piece \in Seq(S)
      /\ low < high => Len(piece) = high - low /\ \A i \in 1..(high - low) : piece[i] = q[low + i]
  BY <1>1
<1>3. ToSet(piece) = {piece[i] : i \in 1..Len(piece)}
  BY <1>2, ElementsOf
<1>4. ToSet(piece) \subseteq S
  <2>1. \A i \in 1..Len(piece) : piece[i] \in S
    BY <1>2
  <2> QED
    BY <1>3, <2>1
<1>5. ASSUME NEW k \in 1..Len(q), low < k, k <= high
      PROVE  q[k] \in ToSet(piece)
  <2>1. PICK i : i = k - low
    OBVIOUS
  <2>2. i \in 1..(high - low) /\ k = low + i /\ low < high
    BY <1>5, <2>1
  <2>3. i \in 1..Len(piece) /\ piece[i] = q[k]
    BY <1>2, <2>2
  <2> QED
    BY <1>3, <2>3
<1> QED
  BY <1>1, <1>4, <1>5

\* A page from the offset that is due leaves none before the next one unread.
LEMMA PageIsRead ==
  ASSUME NEW r, NEW rows, PagingOK(r, rows), rows \in Seq(Row),
         NEW from \in Nat, r.next = from, NEW count \in Nat, count >= 1,
         NEW upto, upto = IF from + count < Len(rows) THEN from + count ELSE Len(rows),
         NEW got, got = SubSeq(rows, from + 1, upto),
         NEW next, next = IF upto < Len(rows) THEN upto ELSE Absent,
         NEW r2, r2 = [r EXCEPT !.rows = @ \cup ToSet(got), !.next = next]
  PROVE  PagingOK(r2, rows)
<1>1. PICK first, old : first = r.first /\ old = r.rows
  OBVIOUS
<1>2. /\ first \in Seq(Row) /\ old \in SUBSET Row /\ r.count \in Nat /\ r.count >= 1
      /\ Len(first) \in Nat /\ Len(rows) \in Nat /\ Len(first) <= Len(rows)
      /\ \A j \in 1..Len(first) : first[j] = rows[j + (Len(rows) - Len(first))]
      /\ \A j \in 1..Len(first) : j + (Len(rows) - Len(first)) <= from => first[j] \in old
  BY <1>1 DEF PagingOK
<1>3. upto \in Nat /\ upto <= Len(rows) /\ (upto = Len(rows) \/ upto = from + count)
  BY <1>2
<1>4. /\ next \in Nat \cup {Absent}
      /\ (next # Absent => next = upto) /\ (next = Absent => upto = Len(rows))
  BY <1>2, <1>3, NodeAssumption
<1>5. /\ ToSet(got) \subseteq Row
      /\ \A k \in 1..Len(rows) : from < k /\ k <= upto => rows[k] \in ToSet(got)
  <2>1. /\ ToSet(SubSeq(rows, from + 1, upto)) \subseteq Row
        /\ \A k \in 1..Len(rows) :
             from < k /\ k <= upto => rows[k] \in ToSet(SubSeq(rows, from + 1, upto))
    BY <1>3, PieceOf
  <2> QED
    BY <2>1, Zenon
<1>7. PICK read : read = old \cup ToSet(got)
  OBVIOUS
<1>8. /\ r2.first = first /\ r2.rows = read /\ r2.next = next /\ r2.count = r.count
      /\ r2 \in [first : Seq(Row), rows : SUBSET Row, next : Nat \cup {Absent}, count : Nat]
  <2>1. read \in SUBSET Row
    BY <1>2, <1>5, <1>7
  <2> QED
    BY <1>1, <1>4, <1>7, <2>1 DEF PagingOK
<1>9. ASSUME NEW j \in 1..Len(first), next = Absent \/ j + (Len(rows) - Len(first)) <= next
      PROVE  first[j] \in read
  <2>1. PICK k : k = j + (Len(rows) - Len(first))
    OBVIOUS
  <2>2. k \in 1..Len(rows) /\ k <= upto
    <3>1. j \in 1..Len(first) /\ (next = Absent \/ k <= next)
      BY <1>9, <2>1
    <3>2. Len(first) \in Nat /\ Len(rows) \in Nat /\ Len(first) <= Len(rows)
      BY <1>2
    <3>3. k \in 1..Len(rows)
      BY <2>1, <3>1, <3>2
    <3>4. k <= upto
      BY <1>3, <1>4, <3>1, <3>3
    <3> QED
      BY <3>3, <3>4
  <2>3. first[j] = rows[k] /\ (k <= from => first[j] \in old)
    BY <1>2, <1>9, <2>1
  <2> QED
    BY <1>5, <1>7, <2>2, <2>3
<1> QED
  BY <1>2, <1>8, <1>9 DEF PagingOK

\* A page of recent transactions is read, or not.
LEMMA ReadRecentStep ==
  ASSUME NodeInv, ReadRecent, run' = run
  PROVE  NodeInv'
<1>1. walk.verb = "recent"
  BY DEF ReadRecent
<1>2. walk # NoWalk
  BY <1>1 DEF NoWalk
<1>3. PageSoFar(walk, reader) /\ PagingOK(reader, node.rows) /\ node \in NodeType
  BY <1>1, <1>2, VerbTells DEF NodeInv
<1>4. PICK from, count, rows, r :
        from = walk.from /\ count = walk.count /\ rows = node.rows /\ r = reader
  OBVIOUS
<1>5. /\ from \in Nat /\ count \in Nat /\ count >= 1 /\ r.next = from
      /\ PagingOK(r, rows) /\ rows \in Seq(Row)
  BY <1>3, <1>4 DEF PageSoFar, NodeType
<1>6. PICK reply \in SearchReplies(from, count) :
        IF ParseSearch(Post(reply)).ok
        THEN /\ Show(RecentPage(ParseSearch(Post(reply)).result))
             /\ reader' = [reader EXCEPT !.rows = @ \cup ToSet((shown').rows),
                                         !.next = (shown').next]
        ELSE /\ Show(Stopped(ParseSearch(Post(reply)).error))
             /\ reader' = Absent
  BY <1>4 DEF ReadRecent, Offset
<1>7. CASE ParseSearch(Post(reply)).ok
  <2>1. PICK upto, got, next, answer :
          /\ upto = IF from + count < Len(rows) THEN from + count ELSE Len(rows)
          /\ got = SubSeq(rows, from + 1, upto)
          /\ next = IF upto < Len(rows) THEN upto ELSE Absent
          /\ answer = [rows |-> got, next |-> next]
    OBVIOUS
  <2>2. ParseSearch(Post(reply)).result = answer
    BY <1>4, <1>7, <2>1, SearchIsAsked
  <2>3. PICK p : p = RecentPage(answer)
    OBVIOUS
  <2>4. /\ Show(p) /\ reader' = [reader EXCEPT !.rows = @ \cup ToSet((shown').rows),
                                               !.next = (shown').next]
    BY <1>6, <1>7, <2>2, <2>3
  <2>5. p.verb = "recent" /\ p.rows = got /\ p.next = next
    BY <2>1, <2>3 DEF RecentPage
  <2>6. PICK r2 : r2 = [r EXCEPT !.rows = @ \cup ToSet(got), !.next = next]
    OBVIOUS
  <2>7. reader' = r2
    <3>1. shown' = p
      BY <2>4 DEF Show
    <3> QED
      BY <1>4, <2>4, <2>5, <2>6, <3>1
  <2>8. PagingOK(r2, rows)
    BY <1>5, <2>1, <2>6, PageIsRead
  <2>9. PageWhole(p, seen.blocks, seen.gone, node.strays)
    BY <2>5 DEF PageWhole
  <2>10. PagingOK(reader', node.rows)
    BY <1>4, <2>7, <2>8
  <2> QED
    BY <1>2, <2>4, <2>9, <2>10, ShowStep
<1>8. CASE ~ParseSearch(Post(reply)).ok
  BY <1>2, <1>6, <1>8, StoppedStep
<1> QED
  BY <1>7, <1>8

\* Every request of a read in progress keeps what is known of it.
LEMMA WalksStep ==
  ASSUME NodeInv, NodeStep, run' = run
  PROVE  NodeInv'
  BY ReadStatusStep, ReadBlocksStep, ReadBlockStep, ReadQueueStep, ReadQueuedStep, SweepStep,
     LookUpStep, ReadRecentStep DEF NodeStep

-----------------------------------------------------------------------------

\* A command that begins to read knows nothing yet.
LEMMA BegunStep ==
  ASSUME NodeInv, NEW new, Begin(new), (run').state = "walking",
         \/ /\ reader' = Absent
            /\ \/ BlocksSoFar(new, {}, (node').strays)
               \/ QueueSoFar(new, {}, (node').strays) \/ SweepSoFar(new)
               \/ new.verb = "transaction" \/ (new.verb = "block" /\ new.index \in Nat \ {0})
         \/ PageSoFar(new, reader') /\ PagingOK(reader', (node').rows)
  PROVE  NodeInv'
<1>1. /\ node' \in NodeType /\ moves' = 0 /\ walk' = new /\ shown' = Absent
      /\ \A i \in 1..Tip' : BlockAt(i)' \in (seen').blocks
      /\ Ids \ ToSet((node').queue) \subseteq (seen').gone
  BY BeginStep
<1>2. WalkOK'
  <2>1. CASE BlocksSoFar(new, {}, (node').strays)
    <3>1. BlocksSoFar(new, (seen').blocks, (node').strays)
      BY <2>1 DEF BlocksSoFar, BlockAsked
    <3> QED
      BY <1>1, <3>1 DEF WalkOK, BlocksSoFar
  <2>2. CASE QueueSoFar(new, {}, (node').strays)
    <3>1. QueueSoFar(new, (seen').gone, (node').strays)
      BY <2>2 DEF QueueSoFar, QueuedAsked
    <3> QED
      BY <1>1, <3>1 DEF WalkOK, QueueSoFar
  <2>3. CASE SweepSoFar(new)
    BY <1>1, <2>3 DEF WalkOK, SweepSoFar
  <2>4. CASE new.verb = "transaction" \/ (new.verb = "block" /\ new.index \in Nat \ {0})
    BY <1>1, <2>4 DEF WalkOK
  <2>5. CASE PageSoFar(new, reader')
    BY <1>1, <2>5 DEF WalkOK, PageSoFar
  <2> QED
    BY <2>1, <2>2, <2>3, <2>4, <2>5
<1>3. walk'.verb = "recent" \/ reader' # Absent => PagingOK(reader', (node').rows)
  <2>1. BlocksSoFar(new, {}, (node').strays) => new.verb = "blocks"
    BY DEF BlocksSoFar
  <2>2. QueueSoFar(new, {}, (node').strays) => new.verb = "mempool"
    BY DEF QueueSoFar
  <2>3. SweepSoFar(new) => new.verb = "discover"
    BY DEF SweepSoFar
  <2> QED
    BY <1>1, <2>1, <2>2, <2>3
<1>4. moves' \in Nat
  BY <1>1
<1> QED
  BY <1>1, <1>2, <1>3, <1>4, Zenon DEF NodeInv

\* Each verb begins at its beginning.
LEMMA BeginsStep ==
  ASSUME NodeInv, (run').state = "walking",
         \/ \E count \in 0..MAX_COUNT : BeginBlocks(count)
         \/ \E index \in 0..MaxTip : BeginBlock(index)
         \/ \E count \in 0..MAX_COUNT : BeginMempool(count)
         \/ \E held : \E to \in Indices : BeginDiscover(to, held)
         \/ \E id \in Ids : BeginTransaction(id)
         \/ \E count \in 0..MAX_COUNT : BeginRecent(count)
  PROVE  NodeInv'
<1>1. ASSUME NEW count \in 0..MAX_COUNT, BeginBlocks(count) PROVE NodeInv'
  <2>1. PICK new : new = [verb |-> "blocks", count |-> count, tip |-> Absent, rows |-> <<>>]
    OBVIOUS
  <2>2. Begin(new) /\ reader' = Absent
    BY <1>1, <2>1 DEF BeginBlocks
  <2>3. BlocksSoFar(new, {}, (node').strays)
    BY <1>1, <2>1 DEF BlocksSoFar
  <2> QED
    BY <2>2, <2>3, BegunStep
<1>2. ASSUME NEW index \in 0..MaxTip, BeginBlock(index) PROVE NodeInv'
  <2>1. PICK new : new = [verb |-> "block", index |-> index]
    OBVIOUS
  <2>2. Begin(new) /\ reader' = Absent /\ index # 0
    BY <1>2, <2>1 DEF BeginBlock, BlockArg
  <2>3. new.verb = "block" /\ new.index = index /\ index \in Nat \ {0}
    <3>1. index \in Nat
      OBVIOUS
    <3> QED
      BY <2>1, <2>2, <3>1
  <2> QED
    BY <2>2, <2>3, BegunStep
<1>3. ASSUME NEW count \in 0..MAX_COUNT, BeginMempool(count) PROVE NodeInv'
  <2>1. PICK new : new = [verb |-> "mempool", count |-> count, ids |-> Absent, rows |-> <<>>]
    OBVIOUS
  <2>2. Begin(new) /\ reader' = Absent
    BY <1>3, <2>1 DEF BeginMempool
  <2>3. QueueSoFar(new, {}, (node').strays)
    BY <1>3, <2>1 DEF QueueSoFar
  <2> QED
    BY <2>2, <2>3, BegunStep
<1>4. ASSUME NEW to \in Indices, NEW held, BeginDiscover(to, held) PROVE NodeInv'
  <2>1. PICK new : new = [verb |-> "discover", to |-> to, held |-> held, sightings |-> <<>>]
    OBVIOUS
  <2>2. Begin(new) /\ reader' = Absent
    BY <1>4, <2>1 DEF BeginDiscover
  <2>3. to \in Nat
    BY <1>4 DEF Indices
  <2>4. SweepSoFar(new)
    BY <2>1, <2>3 DEF SweepSoFar
  <2> QED
    BY <2>2, <2>4, BegunStep
<1>5. ASSUME NEW id \in Ids, BeginTransaction(id) PROVE NodeInv'
  <2>1. PICK new : new = [verb |-> "transaction", id |-> id]
    OBVIOUS
  <2>2. Begin(new) /\ reader' = Absent /\ new.verb = "transaction"
    BY <1>5, <2>1 DEF BeginTransaction
  <2> QED
    BY <2>2, BegunStep
<1>6. ASSUME NEW count \in 0..MAX_COUNT, BeginRecent(count) PROVE NodeInv'
  <2>1. PICK new : new = [verb |-> "recent", count |-> count, from |-> 0]
    OBVIOUS
  <2>2. PICK rows, r :
          /\ rows = (node').rows
          /\ r = [first |-> rows, rows |-> {}, next |-> 0, count |-> count]
    OBVIOUS
  <2>3. Begin(new) /\ reader' = r /\ count \in Nat /\ count >= 1
    BY <1>6, <2>1, <2>2 DEF BeginRecent, CountArg
  <2>4. rows \in Seq(Row)
    BY <2>2, <2>3, BeginStep DEF NodeType
  <2>5. PageSoFar(new, r)
    BY <2>1, <2>2, <2>3 DEF PageSoFar
  <2>6. PagingOK(r, rows)
    <3>1. /\ r.first = rows /\ r.rows = {} /\ r.next = 0 /\ r.count = count
          /\ r \in [first : Seq(Row), rows : SUBSET Row, next : Nat \cup {Absent}, count : Nat]
      BY <2>2, <2>3, <2>4
    <3>2. Len(rows) \in Nat /\ Absent # 0
      <4>1. Len(rows) \in Nat
        BY <2>4
      <4>2. 0 \in Nat
        OBVIOUS
      <4> QED
        BY <4>1, <4>2, NodeAssumption, Zenon
    <3>3. \A j \in 1..Len(rows) : j + (Len(rows) - Len(rows)) = j /\ ~(j <= 0)
      BY <3>2
    <3> HIDE <2>2
    <3> QED
      BY <2>3, <3>1, <3>2, <3>3 DEF PagingOK
  <2> QED
    BY <2>2, <2>3, <2>5, <2>6, BegunStep
<1> QED
  BY <1>1, <1>2, <1>3, <1>4, <1>5, <1>6

\* The next page is asked for at the offset the last one named.
LEMMA NextPageStep ==
  ASSUME NodeInv, NextPage, (run').state = "walking"
  PROVE  NodeInv'
<1>1. /\ walk = NoWalk /\ reader # Absent /\ reader.next # Absent /\ reader.next > 0
      /\ walk' = [verb |-> "recent", count |-> reader.count, from |-> reader.next]
      /\ shown' = Absent /\ UNCHANGED <<node, moves, seen, reader>>
  BY DEF NextPage
<1>2. PagingOK(reader, node.rows) /\ node \in NodeType /\ moves \in Nat
  BY <1>1 DEF NodeInv
<1>3. reader.next \in Nat /\ reader.count \in Nat /\ reader.count >= 1
  BY <1>1, <1>2 DEF PagingOK
<1>4. walk'.verb = "recent" /\ walk'.from = reader.next /\ walk'.count = reader.count
  BY <1>1
<1>5. PageSoFar(walk', reader')
  BY <1>1, <1>3, <1>4 DEF PageSoFar
<1>6. WalkOK'
  BY <1>5 DEF WalkOK, PageSoFar
<1> QED
  BY <1>1, <1>2, <1>4, <1>6 DEF NodeInv

-----------------------------------------------------------------------------

\* While the node moves, what is known of a read stays.
LEMMA MovedStep ==
  ASSUME NodeInv, NEW new, Moves(new), run' = run, new \in NodeType, new.strays = node.strays,
         walk # NoWalk \/ reader # Absent,
         walk.verb = "recent" \/ reader # Absent => PagingOK(reader, new.rows)
  PROVE  NodeInv'
<1>1. /\ node' = new /\ moves' \in Nat /\ UNCHANGED <<walk, shown, reader>>
      /\ seen.blocks \subseteq (seen').blocks /\ seen.gone \subseteq (seen').gone
      /\ \A i \in 1..Tip' : BlockAt(i)' \in (seen').blocks
      /\ Ids \ ToSet((node').queue) \subseteq (seen').gone
  BY MovesStep DEF NodeInv
<1>2. WalkOK'
  <2>1. BlocksSoFar(walk, seen.blocks, node.strays)
          => BlocksSoFar(walk, (seen').blocks, (node').strays)
    BY <1>1 DEF BlocksSoFar, BlockAsked
  <2>2. QueueSoFar(walk, seen.gone, node.strays)
          => QueueSoFar(walk, (seen').gone, (node').strays)
    BY <1>1 DEF QueueSoFar, QueuedAsked
  <2>3. walk' = walk /\ reader' = reader /\ WalkOK
    BY <1>1 DEF NodeInv
  <2> QED
    BY <2>1, <2>2, <2>3 DEF WalkOK, BlocksSoFar, QueueSoFar, SweepSoFar, PageSoFar
<1>3. shown' # Absent => PageWhole(shown', (seen').blocks, (seen').gone, (node').strays)
  <2>1. shown' = shown /\ (shown # Absent => PageWhole(shown, seen.blocks, seen.gone, node.strays))
    BY <1>1 DEF NodeInv
  <2> QED
    BY <1>1, <2>1, WholeStays
<1>4. /\ walk' # NoWalk => run'.state = "walking"
      /\ moves' \in Nat /\ node' \in NodeType
      /\ walk'.verb = "recent" \/ reader' # Absent => PagingOK(reader', (node').rows)
  BY <1>1 DEF NodeInv
<1> QED
  BY <1>1, <1>2, <1>3, <1>4, Zenon DEF NodeInv

\* A row that arrives moves the others one further from the newest.
LEMMA ArrivesStep ==
  ASSUME NEW r, NEW rows \in Seq(Row), PagingOK(r, rows), NEW row \in Row
  PROVE  <<row>> \o rows \in Seq(Row) /\ PagingOK(r, <<row>> \o rows)
<1>1. PICK more, first, old, next :
        more = <<row>> \o rows /\ first = r.first /\ old = r.rows /\ next = r.next
  OBVIOUS
<1>2. /\ more \in Seq(Row) /\ Len(more) = Len(rows) + 1 /\ Len(rows) \in Nat
      /\ \A i \in 1..Len(rows) : more[i + 1] = rows[i]
  BY <1>1
<1>3. /\ first \in Seq(Row) /\ Len(first) \in Nat /\ Len(first) <= Len(rows)
      /\ next \in Nat \cup {Absent}
      /\ \A j \in 1..Len(first) : first[j] = rows[j + (Len(rows) - Len(first))]
      /\ \A j \in 1..Len(first) :
           next = Absent \/ j + (Len(rows) - Len(first)) <= next => first[j] \in old
  BY <1>1 DEF PagingOK
<1>4. ASSUME NEW j \in 1..Len(first)
      PROVE  /\ first[j] = more[j + (Len(more) - Len(first))]
             /\ next = Absent \/ j + (Len(more) - Len(first)) <= next => first[j] \in old
  <2>1. PICK k : k = j + (Len(rows) - Len(first))
    OBVIOUS
  <2>2. k \in 1..Len(rows) /\ j + (Len(more) - Len(first)) = k + 1
    BY <1>2, <1>3, <1>4, <2>1
  <2>3. first[j] = more[k + 1]
    BY <1>2, <1>3, <2>1, <2>2
  <2>4. next = Absent \/ k + 1 <= next => first[j] \in old
    <3>1. next = Absent \/ k <= next => first[j] \in old
      BY <1>3, <2>1
    <3>2. next # Absent => next \in Nat
      BY <1>3
    <3> QED
      BY <2>2, <3>1, <3>2
  <2> QED
    BY <2>2, <2>3, <2>4
<1>5. Len(first) <= Len(more)
  BY <1>2, <1>3
<1>6. PagingOK(r, more)
  BY <1>1, <1>4, <1>5 DEF PagingOK
<1> QED
  BY <1>1, <1>2, <1>6

\* The chain is replaced, the queue or the tags move, a row arrives.
LEMMA NodeMovesStep ==
  ASSUME NodeInv, NodeMoves, run' = run
  PROVE  NodeInv'
<1>1. PICK n : n = node
  OBVIOUS
<1>2. CASE Reorganise
  <2>1. PICK keep \in 0..Tip, fork \in Forks, length \in 1..MaxTip :
          Moves([node EXCEPT !.chain =
            [i \in 1..length |-> IF i <= keep THEN node.chain[i] ELSE fork]])
    BY <1>2 DEF Reorganise
  <2>2. walk # NoWalk
    BY <1>2 DEF Reorganise, NoWalk
  <2>3. n \in NodeType
    BY <1>1, <2>2 DEF NodeInv
  <2>4. PICK chain, new :
          /\ chain = [i \in 1..length |-> IF i <= keep THEN n.chain[i] ELSE fork]
          /\ new = [n EXCEPT !.chain = chain]
    OBVIOUS
  <2>5. chain \in Seq(Forks)
    <3>1. n.chain \in Seq(Forks) /\ keep \in 0..Len(n.chain) /\ length \in Nat
      <4>1. n.chain \in Seq(Forks)
        BY <2>3 DEF NodeType
      <4>2. keep \in 0..Len(n.chain)
        BY <1>1, <2>1, Zenon DEF Tip
      <4>3. length \in 1..MaxTip /\ MaxTip \in Nat
        BY <2>1, NodeAssumption, Zenon
      <4>4. length \in Nat
        BY <4>3
      <4> QED
        BY <4>1, <4>2, <4>4
    <3>2. \A i \in 1..length : (IF i <= keep THEN n.chain[i] ELSE fork) \in Forks
      BY <3>1
    <3> QED
      BY <2>4, <3>1, <3>2
  <2>6. new \in NodeType /\ new.rows = n.rows /\ new.strays = node.strays
    BY <1>1, <2>3, <2>4, <2>5 DEF NodeType
  <2>7. Moves(new)
    BY <1>1, <2>1, <2>4
  <2>8. walk.verb = "recent" \/ reader # Absent => PagingOK(reader, new.rows)
    BY <1>1, <2>6 DEF NodeInv
  <2> QED
    BY <2>2, <2>6, <2>7, <2>8, MovedStep
<1>3. CASE QueueMoves
  <2>1. walk # NoWalk
    BY <1>3 DEF QueueMoves, NoWalk
  <2>2. n \in NodeType /\ n.queue \in Seq(Ids)
    BY <1>1, <2>1 DEF NodeInv, NodeType
  <2>3. PICK queue : queue \in Seq(Ids) /\ Moves([node EXCEPT !.queue = queue])
    <3>1. CASE \E i \in 1..Len(node.queue) : Moves([node EXCEPT !.queue = RemoveAt(@, i)])
      <4>1. PICK i \in 1..Len(node.queue) : Moves([node EXCEPT !.queue = RemoveAt(@, i)])
        BY <3>1
      <4>2. RemoveAt(n.queue, i) \in Seq(Ids)
        <5>1. PICK queue, before, after :
                /\ queue = n.queue /\ before = SubSeq(queue, 1, i - 1)
                /\ after = SubSeq(queue, i + 1, Len(queue))
          OBVIOUS
        <5>2. queue \in Seq(Ids) /\ i \in 1..Len(queue)
          BY <1>1, <2>2, <5>1
        <5>3. before \in Seq(Ids) /\ after \in Seq(Ids)
          BY <5>1, <5>2
        <5>4. RemoveAt(queue, i) = before \o after
          BY <5>1, Zenon DEF RemoveAt
        <5> QED
          BY <5>1, <5>3, <5>4
      <4> QED
        BY <1>1, <4>1, <4>2
    <3>2. CASE \E id \in Ids \ ToSet(node.queue) : Moves([node EXCEPT !.queue = Append(@, id)])
      <4>1. PICK id \in Ids \ ToSet(node.queue) : Moves([node EXCEPT !.queue = Append(@, id)])
        BY <3>2
      <4>2. Append(n.queue, id) \in Seq(Ids)
        BY <2>2
      <4> QED
        BY <1>1, <4>1, <4>2
    <3> QED
      BY <1>3, <3>1, <3>2 DEF QueueMoves
  <2>4. PICK new : new = [n EXCEPT !.queue = queue]
    OBVIOUS
  <2>5. Moves(new) /\ new \in NodeType /\ new.rows = n.rows /\ new.strays = node.strays
    BY <1>1, <2>2, <2>3, <2>4 DEF NodeType
  <2>6. walk.verb = "recent" \/ reader # Absent => PagingOK(reader, new.rows)
    BY <1>1, <2>5 DEF NodeInv
  <2> QED
    BY <2>1, <2>5, <2>6, MovedStep
<1>4. CASE RowArrives
  <2>1. walk.verb = "recent" \/ (walk = NoWalk /\ reader # Absent)
    BY <1>4 DEF RowArrives
  <2>2. walk # NoWalk \/ reader # Absent
    BY <2>1 DEF NoWalk
  <2>3. n \in NodeType /\ n.rows \in Seq(Row) /\ PagingOK(reader, n.rows)
    BY <1>1, <2>1, <2>2 DEF NodeInv, NodeType
  <2>4. PICK row, rows, new :
          row = [new |-> moves] /\ rows = <<row>> \o n.rows /\ new = [n EXCEPT !.rows = rows]
    OBVIOUS
  <2>5. row \in Row
    BY <2>4 DEF Row, NodeInv
  <2>6. rows \in Seq(Row) /\ PagingOK(reader, rows)
    BY <2>3, <2>4, <2>5, ArrivesStep
  <2>7. Moves(new)
    BY <1>1, <1>4, <2>4 DEF RowArrives
  <2>8. new \in NodeType /\ new.rows = rows /\ new.strays = node.strays
    BY <1>1, <2>3, <2>4, <2>6 DEF NodeType
  <2> QED
    BY <2>2, <2>6, <2>7, <2>8, MovedStep
<1>5. CASE ResolvingMoves
  <2>1. walk # NoWalk
    BY <1>5 DEF ResolvingMoves, NoWalk
  <2>2. n \in NodeType /\ n.resolving \in SUBSET Nat
    BY <1>1, <2>1 DEF NodeInv, NodeType
  <2>3. PICK account \in Indices :
          Moves([node EXCEPT !.resolving =
            IF account \in @ THEN @ \ {account} ELSE @ \cup {account}])
    BY <1>5 DEF ResolvingMoves
  <2>4. PICK resolving, new :
          /\ resolving = IF account \in n.resolving THEN n.resolving \ {account}
                         ELSE n.resolving \cup {account}
          /\ new = [n EXCEPT !.resolving = resolving]
    OBVIOUS
  <2>5. resolving \in SUBSET Nat
    <3>1. account \in Nat
      BY <2>3 DEF Indices
    <3> QED
      BY <2>2, <2>4, <3>1
  <2>6. Moves(new)
    BY <1>1, <2>3, <2>4
  <2>7. new \in NodeType /\ new.rows = n.rows /\ new.strays = node.strays
    BY <1>1, <2>2, <2>4, <2>5 DEF NodeType
  <2>8. walk.verb = "recent" \/ reader # Absent => PagingOK(reader, new.rows)
    BY <1>1, <2>7 DEF NodeInv
  <2> QED
    BY <2>1, <2>6, <2>7, <2>8, MovedStep
<1> QED
  BY <1>2, <1>3, <1>4, <1>5 DEF NodeMoves

\* A step that touches no read keeps what is known of it.
LEMMA NodeUntouched ==
  ASSUME NodeInv, UNCHANGED nodeVars, walk # NoWalk => (run').state = "walking"
  PROVE  NodeInv'
<1>1. UNCHANGED <<node, moves, walk, shown, seen, reader>>
  BY DEF nodeVars
<1>2. /\ WalkOK' /\ moves' \in Nat
      /\ walk' # NoWalk \/ reader' # Absent => node' \in NodeType
      /\ walk'.verb \in {"blocks", "block"} => \A i \in 1..Tip' : BlockAt(i)' \in (seen').blocks
      /\ walk'.verb = "mempool" => Ids \ ToSet((node').queue) \subseteq (seen').gone
      /\ walk'.verb = "recent" \/ reader' # Absent => PagingOK(reader', (node').rows)
      /\ shown' # Absent => PageWhole(shown', (seen').blocks, (seen').gone, (node').strays)
  BY <1>1 DEF NodeInv, WalkOK, BlocksSoFar, QueueSoFar, SweepSoFar, PageSoFar, Tip, BlockAt
<1> QED
  BY <1>1, <1>2, Zenon DEF NodeInv

\* Every step keeps what is known of a read.
LEMMA ReadsStep ==
  ASSUME NodeInv, RunInv, [Next]_vars
  PROVE  NodeInv'
<1>1. CASE UNCHANGED nodeVars /\ (run.state # "walking" \/ walk = NoWalk \/ run' = run)
  BY <1>1, NodeUntouched DEF NodeInv
<1>2. PICK r, new : r = run /\ new = [r EXCEPT !.state = "walking"]
  OBVIOUS
<1>3. RunShape(r) => new.state = "walking"
  BY <1>2 DEF RunShape
<1>4. RunShape(r)
  BY <1>2 DEF RunInv, StateInv
<1>5. CASE Walks \/ External
  <2>1. CASE Walks
    BY <2>1, WalksStep DEF Walks, runVars
  <2>2. CASE NodeMoves /\ UNCHANGED <<consoleVars, runVars>>
    BY <2>2, NodeMovesStep DEF runVars
  <2>3. CASE ShellRestoresEcho /\ UNCHANGED <<nodeVars, runVars>>
    BY <1>1, <2>3 DEF runVars
  <2> QED
    BY <1>5, <2>1, <2>2, <2>3 DEF External
<1>6. CASE RunExplorer
  <2>1. run' = new
    BY <1>2, <1>6 DEF RunExplorer
  <2>2. \/ \E count \in 0..MAX_COUNT : BeginBlocks(count)
        \/ \E index \in 0..MaxTip : BeginBlock(index)
        \/ \E count \in 0..MAX_COUNT : BeginMempool(count)
        \/ \E id \in Ids : BeginTransaction(id)
        \/ \E count \in 0..MAX_COUNT : BeginRecent(count)
    BY <1>6 DEF RunExplorer
  <2> QED
    BY <1>3, <1>4, <2>1, <2>2, BeginsStep
<1>7. CASE AskNextPage
  <2>1. run' = new /\ NextPage
    BY <1>2, <1>7 DEF AskNextPage
  <2> QED
    BY <1>3, <1>4, <2>1, NextPageStep
<1>8. CASE CmdDiscover
  <2>1. CASE UNCHANGED nodeVars
    BY <1>1, <1>8, <2>1 DEF CmdDiscover, Opened
  <2>2. CASE (\E to \in Indices : BeginDiscover(to, Held)) /\ run' = new
    BY <1>3, <1>4, <2>2, BeginsStep
  <2> QED
    BY <1>2, <1>8, <2>1, <2>2 DEF CmdDiscover
<1>9. CASE Done
  <2>1. /\ walk = NoWalk /\ walk' = walk /\ moves' = 0 /\ shown' = Absent /\ reader' = Absent
    BY <1>9 DEF Done, NodeInv
  <2>2. walk'.verb = "none" /\ WalkOK'
    BY <2>1 DEF NoWalk, WalkOK
  <2> QED
    BY <2>1, <2>2 DEF NodeInv
<1>10. CASE AskPassword \/ AskForCreate \/ UNCHANGED vars
  <2>1. UNCHANGED nodeVars /\ run' = run
    BY <1>10 DEF AskPassword, AskForCreate, vars, runVars
  <2> QED
    BY <1>1, <2>1
<1>11. CASE \/ Invoke \/ CreateEnds \/ KillRun \/ OpenStore \/ CmdRestore \/ CmdAddress
            \/ CmdStatus \/ CmdReconcile \/ WalkEnds
  <2>1. UNCHANGED nodeVars
    BY <1>11 DEF Invoke, CreateEnds, KillRun, OpenStore, CmdRestore, CmdAddress, CmdStatus,
                 CmdReconcile, WalkEnds
  <2>2. run.state # "walking" \/ walk = NoWalk
    BY <1>11 DEF Invoke, CreateEnds, KillRun, OpenStore, CmdRestore, CmdAddress, CmdStatus,
                 CmdReconcile, WalkEnds, Opened
  <2> QED
    BY <1>1, <2>1, <2>2
<1>12. CASE \/ OpenWallet \/ CmdBalance \/ NoSuchAccount \/ CmdSettle \/ CmdSend
            \/ SendSigned \/ CmdResign \/ CmdSubmit
  <2>1. UNCHANGED nodeVars
    BY <1>12 DEF OpenWallet, CmdBalance, NoSuchAccount, CmdSettle, CmdSend, SendSigned,
                 CmdResign, CmdSubmit
  <2>2. run.state # "walking"
    BY <1>12 DEF OpenWallet, CmdBalance, NoSuchAccount, CmdSettle, CmdSend, SendSigned,
                 CmdResign, CmdSubmit, Opened, Gated
  <2> QED
    BY <1>1, <2>1, <2>2
<1> QED
  BY <1>5, <1>6, <1>7, <1>8, <1>9, <1>10, <1>11, <1>12 DEF Next

\* What is known of a read in progress is what its page will be whole by.
THEOREM ReadsInvariant == Spec => []NodeInv
<1>1. InitCommand => NodeInv
  <2> SUFFICES ASSUME InitCommand PROVE NodeInv
    OBVIOUS
  <2>1. walk = NoWalk /\ reader = Absent /\ shown = Absent /\ moves = 0
    BY DEF InitCommand, NodeInit
  <2>2. walk.verb = "none" /\ WalkOK
    BY <2>1 DEF NoWalk, WalkOK
  <2> QED
    BY <2>1, <2>2 DEF NodeInv
<1>2. NodeInv /\ RunInv /\ [Next]_vars => NodeInv'
  BY ReadsStep
<1> QED
  BY <1>1, <1>2, RunInvariant, PTL DEF Spec

\* A page of a list has the rows it says it has, whatever the node answered and
\* did while it was read (PagesAreWhole): any chain, any queue, any sweep.  Of a
\* node that answers about what it is asked, each row is the one asked for.
THEOREM PagesAreWholeHolds == Spec => []PagesAreWhole
<1>1. NodeInv => PagesAreWhole
  BY DEF NodeInv, PagesAreWhole, PageWhole, BlocksWhole, QueueWhole, SweepWhole, BlockAsked,
         QueuedAsked
<1> QED
  BY <1>1, ReadsInvariant, PTL

\* Pages asked for at the offset the one before named skip no row there was at
\* first, however many rows arrive between them (PagingSkipsNone).
THEOREM PagingSkipsNoneHolds == Spec => []PagingSkipsNone
<1>1. NodeInv => PagingSkipsNone
  <2> SUFFICES ASSUME NodeInv, reader # Absent, reader.next = Absent
               PROVE  ToSet(reader.first) \subseteq reader.rows
    BY DEF PagingSkipsNone
  <2>1. PagingOK(reader, node.rows)
    BY DEF NodeInv
  <2>2. PICK first : first = reader.first
    OBVIOUS
  <2>3. first \in Seq(Row) /\ \A j \in 1..Len(first) : first[j] \in reader.rows
    BY <2>1, <2>2 DEF PagingOK
  <2>4. ToSet(first) = {first[j] : j \in 1..Len(first)}
    BY <2>3, ElementsOf
  <2> QED
    BY <2>2, <2>3, <2>4
<1> QED
  BY <1>1, ReadsInvariant, PTL
=============================================================================
