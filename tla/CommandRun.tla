------------------------------ MODULE CommandRun ------------------------------
(***************************************************************************)
(* One run of the program, from its arguments to its page: cli/args.rs,     *)
(* bin/tawara.rs, cli/mod.rs, cli/outcome.rs and cli/render.rs, over the    *)
(* terminal of Console and the node's pages of NodeReads.                   *)
(*                                                                          *)
(* A store is what a command finds in it: its format version, whether it    *)
(* holds a master seed (its accounts are derived then, imported otherwise)  *)
(* and, of each account, the next index and whether a spend is reserved.    *)
(* What the ledger says of an account is asked whenever the code asks, and  *)
(* may be another thing each time.  A page is its exit code and what it     *)
(* tells: its claims, the diverged accounts it names, whether it carries    *)
(* the signed bytes, whether it says the format crossed.  How keys, plans   *)
(* and commits work is in the modules of those parts.                       *)
(***************************************************************************)
EXTENDS Console, NodeReads

CONSTANTS
  Accounts,      \* account indices: 0..n
  Disks,         \* the stores a run may find
  Flags,         \* global arguments before the verb
  MaxFlags,      \* bound on how many
  PASSWORD       \* the line that opens the store

VARIABLES
  disk,          \* the store
  run,           \* the invocation
  page           \* what it printed, once it has ended

runVars == <<disk, run, page>>
vars == <<consoleVars, nodeVars, runVars>>

VERSION == 4

Explorers   == {"transaction", "recent", "block", "blocks", "mempool"}
WalletVerbs == {"balance", "settle", "send", "resign"}
StoreVerbs  == {"restore", "address", "accounts", "unstored", "discover", "status", "reconcile"}
Verbs       == Explorers \cup WalletVerbs \cup StoreVerbs \cup {"create", "submit"}

\* A record is an index and whether a spend is reserved; a store holds one of
\* an account, or none.
Records == [index : Nat, pending : BOOLEAN]
Stores  == [version : Nat, master : BOOLEAN, held : [Accounts -> Records \cup {None}]]

ASSUME CommandAssumption ==
  /\ None \notin Records \cup Stores
  /\ Disks \subseteq Stores

-----------------------------------------------------------------------------
(* Arguments: cli/args.rs.                                                  *)

\* Command::needs_node and Command::opens_no_store.
NeedsNode(verb) == verb \notin {"create", "address", "accounts", "unstored"}
OpensNoStore(verb) == verb \in Explorers \cup {"submit"}

\* plaintext_off_loopback, of an https node, an http one on this machine or
\* off it, and what is no node's address at all.
Urls == {"https", "loopback", "remote http", "unusable"}
PlaintextOffLoopback(url) == url = "remote http"

\* parse: the flags up to the verb, left to right, then the verb's own
\* arguments (what = "good", "bad" or "help"), then the flags together.
Parse(flags, verb, what, url) ==
  LET given(flag) == \E i \in DOMAIN flags : flags[i] = flag
      stops == {i \in DOMAIN flags : \/ flags[i] \in {"help", "unknown"}
                                     \/ \E j \in 1..(i - 1) : flags[j] = flags[i]}
  IN  IF stops # {} THEN IF flags[Min(stops)] = "help" THEN "help" ELSE "usage"
      ELSE IF \/ what # "good"
              \/ ~given("--dir")
              \/ given("--node") /\ PlaintextOffLoopback(url) /\ ~given("--allow-plaintext-node")
              \/ NeedsNode(verb) /\ ~given("--node")
           THEN "usage"
      ELSE "run"

-----------------------------------------------------------------------------
(* Pages: cli/render.rs and the words of cli/mod.rs.                        *)

Plain(code) ==
  [code |-> code, claims |-> {}, named |-> {}, artifact |-> FALSE, upgraded |-> FALSE]
Told(code, claims) == [Plain(code) EXCEPT !.claims = claims]

\* run.before is the store as this run opened it; upgraded_from.
UpgradedFrom == disk'.version # run.before.version

\* shipped_tail.
ShippedTail(submitted) == IF submitted THEN {"submitted"} ELSE {"submission failed"}
CodeOf(submitted)      == IF submitted THEN "ok" ELSE "refused"

\* Variant: the bytes are printed beside the answer of the node.
SentWhenTaken(submitted) ==
  [Told(CodeOf(submitted), ShippedTail(submitted))
     EXCEPT !.artifact = submitted, !.upgraded = UpgradedFrom]

SentPage(submitted) ==
  [Told(CodeOf(submitted), ShippedTail(submitted))
     EXCEPT !.artifact = TRUE, !.upgraded = UpgradedFrom]

\* resigned, with resign_refusal under a refused write.
ResignedPage(submitted) ==
  [Told(CodeOf(submitted),
        ShippedTail(submitted) \cup IF submitted THEN {} ELSE {"nothing written"})
     EXCEPT !.artifact = TRUE]

\* submitted_page.
SubmittedPage(submitted) ==
  Told(CodeOf(submitted), ShippedTail(submitted) \cup {"nothing written", "nothing signed"})

\* SUBMIT_NOTHING, under each refusal of the artifact's text.
NotSubmittedPage == Told("refused", {"nothing written", "nothing sent"})

SettledPage(settlement) ==
  CASE settlement = "settled" ->
         [Told("ok", {"settled"}) EXCEPT !.upgraded = UpgradedFrom]
    [] settlement = "dead"  -> Told("ok", {"nothing written"})
    [] settlement = "outstanding" -> Plain("ok")
    [] settlement = "nothing" -> Told("ok", {"nothing reserved"})

\* The page of `restore`: added is whether the store lacked the account.
RestoredPage(added) ==
  IF added THEN [Told("ok", {"added"}) EXCEPT !.upgraded = UpgradedFrom]
  ELSE Told("ok", {"nothing written"})

\* RestoreFailure::CannotStore: the store refused the account.
CannotStorePage == Told("refused", {"nothing written", "not stored"})

\* reconciled: the reports are the whole store's, on every arm but "not held".
ReconciledPage(outcome, reports) ==
  CASE outcome = "not held" -> Plain("refused")
    [] outcome = "nothing"  -> [Plain("refused") EXCEPT !.named = reports]
    [] outcome \in {"second instance", "no advance"} ->
         [Told("refused", {"nothing written"}) EXCEPT !.named = reports]
    [] outcome = "advanced" ->
         [Told("ok", {"advanced"}) EXCEPT !.named = reports, !.upgraded = UpgradedFrom]

\* status_page, and the outcome of one that diverged.
StatusPage(account, verdict) ==
  CASE verdict \in {"in sync", "outstanding", "landed"} -> Plain("ok")
    [] verdict = "cannot read" -> [Plain("refused") EXCEPT !.named = {account}]
    [] OTHER -> [Told("ok", {"nothing written"}) EXCEPT !.named = {account}]

\* StartupRefused: every account's report, and next_steps.
StartupRefusedPage(diverged) == [Plain("startup refused") EXCEPT !.named = diverged]

\* refuse_diverged_account: that account's report and no other's.
RefusedPage(account) == [Plain("refused") EXCEPT !.named = {account}]

NotReservedSpendPage == Told("refused", {"nothing signed"})
LandedPage == Told("refused", {"nothing reserved now", "nothing signed", "nothing sent"})
UnstoredAddressPage == Told("ok", {"nothing written"})
NoMasterPage == Told("refused", {"nothing written"})
FailedPage == Plain("refused")

\* What a page of a list shows is NodeReads'; of the sweep's, that it wrote
\* nothing and signed nothing, and of a stopped sweep's, that it wrote nothing.
ShownPage ==
  IF shown.verb = "discover" THEN Told("ok", {"nothing written", "nothing signed"})
  ELSE IF shown.verb # "stopped" THEN Plain("ok")
  ELSE IF shown.of = "discover" THEN Told("refused", {"nothing written"})
  ELSE FailedPage

\* Variant: only a page that exits 0 carries the notice.
RenderOkOnly(outcome, standing) ==
  IF outcome.code = "ok" THEN [outcome EXCEPT !.named = @ \cup standing] ELSE outcome

\* render: the standing divergences in front of whatever the command said.
Render(outcome, standing) == [outcome EXCEPT !.named = @ \cup standing]

-----------------------------------------------------------------------------
(* The store and the ledger, as a command meets them.                       *)

Held == {a \in Accounts : disk.held[a] # None}

\* What asking the node about a tag may come to: a position of the account's
\* own keys, a key no walk finds, no such tag, no answer.
Elsewhere == -1
Lacking   == -2
Unread    == -3
Readings  == Unread..3

Diverged == {"ahead", "behind", "unlocated", "unexplained", "unresolved", "cannot read"}

\* reconcile_account_with.
Verdict(record, answer) ==
  CASE answer = Unread  -> "cannot read"
    [] answer = Lacking -> "unresolved"
    [] record.pending /\ answer >= Lacking ->
         IF answer = record.index - 1 THEN "outstanding"
         ELSE IF answer = record.index THEN "landed" ELSE "unexplained"
    [] OTHER -> IF answer = record.index THEN "in sync"
                ELSE IF answer = Elsewhere THEN "unlocated"
                ELSE IF answer > record.index THEN "ahead" ELSE "behind"

\* The store with one account's record written, by whichever commit: it is
\* sealed in this build's format.
Written(account, record) ==
  [disk EXCEPT !.version = VERSION, !.held[account] = record]

\* A commit is made, or fails with the store as it was or as it would be.
Committed(new) == disk' = new
CommitFails(new) == disk' \in {disk, new}

-----------------------------------------------------------------------------
(* The life of a run.                                                       *)

NoRun == [state |-> "idle", verb |-> None, account |-> None, node |-> None, allowed |-> FALSE,
          before |-> None, gate |-> {}, standing |-> {},
          signed |-> FALSE, sent |-> FALSE, took |-> FALSE]

InitCommand ==
  /\ ConsoleInit
  /\ NodeInit
  /\ disk = None
  /\ run = NoRun
  /\ page = None

\* main: a page ends the run, and nothing is written after it.
Ends(now, outcome) ==
  /\ page' = Render(outcome, now.standing)
  /\ run' = [now EXCEPT !.state = "page"]

\* What a run of each verb begins with: run_from_argv.
FirstState(verb) ==
  IF verb = "create" THEN "creating"
  ELSE IF OpensNoStore(verb) THEN "asking a node" ELSE "password"

\* What the arguments of a run make of it: Invocation and Globals.
Invocation(flags, verb, account, url) ==
  [NoRun EXCEPT !.state = FirstState(verb), !.verb = verb, !.account = account,
     !.node = IF \E i \in DOMAIN flags : flags[i] = "--node" THEN url ELSE None,
     !.allowed = \E i \in DOMAIN flags : flags[i] = "--allow-plaintext-node"]

\* run_from_argv: a node's address is looked at before anything else is done.
RunFromArgv(flags, verb, account, what, url) ==
  LET parsed == Parse(flags, verb, what, url)
      new    == Invocation(flags, verb, account, url)
  IN  \/ parsed = "help"  /\ Ends(NoRun, Plain("ok"))
      \/ parsed = "usage" /\ Ends(NoRun, Plain("usage"))
      \/ parsed = "run" /\ new.node = "unusable" /\ Ends(NoRun, Plain("startup refused"))
      \/ parsed = "run" /\ new.node # "unusable" /\ run' = new /\ UNCHANGED page

Invoke ==
  /\ run.state = "idle"
  /\ \E n \in 0..MaxFlags : \E flags \in [1..n -> Flags] :
     \E verb \in Verbs, account \in Accounts, what \in {"good", "bad", "help"}, url \in Urls :
       RunFromArgv(flags, verb, account, what, url)
  /\ UNCHANGED <<consoleVars, nodeVars, disk>>

\* The terminal between a run's first prompt and its last.
AskPassword ==
  /\ run.state = "password"
  /\ \/ OpenTerminal
     \/ tty.state = "open" /\ ReadSecretLine
     \/ ReadLine
  /\ UNCHANGED <<nodeVars, runVars>>

\* create asks for secrets and for confirmations; what it does with them is
\* StoreCreation's.
AskForCreate ==
  /\ run.state = "creating"
  /\ OpenTerminal \/ ReadSecretLine \/ ReadVisibleLine \/ ReadLine
  /\ UNCHANGED <<nodeVars, runVars>>

CreateEnds ==
  /\ run.state = "creating"
  /\ CloseTerminal
  /\ \E code \in {"ok", "refused"} :
       /\ code = "ok" => tty.state = "answered" /\ heard.got.said = "line"
       /\ Ends(run, Plain(code))
  /\ UNCHANGED <<nodeVars, disk>>

\* A killed run prints nothing; its terminal is as it left it.
KillRun ==
  /\ run.state \in {"password", "creating"} /\ tty # NoTty
  /\ KillTty
  /\ run' = NoRun
  /\ UNCHANGED <<nodeVars, disk, page>>

\* The page has been read.
Done ==
  /\ run.state = "page"
  /\ run' = NoRun /\ page' = None /\ disk' = None
  /\ node' = CHOOSE n \in Nodes : TRUE
  /\ moves' = 0 /\ shown' = Absent /\ reader' = Absent
  /\ seen' = [blocks |-> {}, gone |-> {}]
  /\ UNCHANGED <<consoleVars, walk>>

\* The password read, the terminal back, the store opened with it; the
\* machine's random bytes or the open may fail.
OpenStore ==
  /\ run.state = "password"
  /\ CloseTerminal
  /\ LET right == tty.state = "answered" /\ heard.got = LineOf(PASSWORD)
     IN  \/ /\ right
            /\ disk' \in Disks
            /\ run' = [run EXCEPT !.state = "opened", !.before = disk']
            /\ UNCHANGED page
         \/ /\ tty.state \in {"answered", "refused"}
            /\ Ends(run, Plain("startup refused"))
            /\ UNCHANGED disk
  /\ UNCHANGED nodeVars

-----------------------------------------------------------------------------
(* Commands that answer before a wallet is opened: decide.                  *)

Opened(verb) == run.state = "opened" /\ run.verb = verb
EndsUnwritten(now, outcome) == Ends(now, outcome) /\ UNCHANGED disk

Adds(account) == account \notin Held

CmdRestore ==
  /\ Opened("restore")
  /\ \/ ~disk.master /\ EndsUnwritten(run, FailedPage)
     \/ /\ disk.master
        /\ \E answer \in Readings :
             LET found == Written(run.account, [index |-> answer, pending |-> FALSE])
             IN  IF answer < 0 THEN EndsUnwritten(run, FailedPage)
                 ELSE IF ~Adds(run.account) THEN EndsUnwritten(run, RestoredPage(FALSE))
                 ELSE \/ Committed(found)
                         /\ Ends(run, RestoredPage(run.before.held[run.account] = None))
                      \/ CommitFails(found) /\ Ends(run, CannotStorePage)
  /\ UNCHANGED <<consoleVars, nodeVars>>

\* The three shapes of `address`; none of them asks a node.
CmdAddress ==
  /\ \/ Opened("accounts") /\ EndsUnwritten(run, Plain("ok"))
     \/ Opened("address")
        /\ EndsUnwritten(run, IF run.account \in Held THEN Plain("ok") ELSE FailedPage)
     \/ Opened("unstored")
        /\ EndsUnwritten(run, IF disk.master /\ run.account \notin Held THEN UnstoredAddressPage
                              ELSE NoMasterPage)
  /\ UNCHANGED <<consoleVars, nodeVars>>

CmdStatus ==
  /\ Opened("status")
  /\ \E answer \in Readings :
       EndsUnwritten(run, IF run.account \notin Held THEN FailedPage
                          ELSE StatusPage(run.account, Verdict(disk.held[run.account], answer)))
  /\ UNCHANGED <<consoleVars, nodeVars>>

\* The verdict on every account, as one round of questions comes out.
Verdicts(answers) == [a \in Held |-> Verdict(disk.held[a], answers[a])]
DivergedIn(verdicts) == {a \in Held : verdicts[a] \in Diverged}

CmdReconcile ==
  /\ Opened("reconcile")
  /\ \E answers \in [Held -> Readings], advanceTo \in 0..3 :
       LET verdicts == Verdicts(answers)
           reports  == DivergedIn(verdicts)
           named    == run.account
           Page(outcome) == ReconciledPage(outcome, reports)
           advanced == Written(named, [index |-> advanceTo, pending |-> FALSE])
       IN  IF named \notin Held THEN EndsUnwritten(run, Page("not held"))
           ELSE IF named \notin reports THEN EndsUnwritten(run, Page("nothing"))
           ELSE IF \E other \in Held \ {named} : verdicts[other] = "unexplained"
                THEN EndsUnwritten(run, Page("second instance"))
           ELSE IF verdicts[named] # "ahead" \/ advanceTo # answers[named]
                THEN EndsUnwritten(run, Page("no advance"))
           ELSE \/ Committed(advanced) /\ Ends(run, Page("advanced"))
                \/ CommitFails(advanced) /\ Ends(run, FailedPage)
  /\ UNCHANGED <<consoleVars, nodeVars>>

\* discover asks the node about accounts of the master's.
CmdDiscover ==
  /\ Opened("discover")
  /\ \/ ~disk.master /\ EndsUnwritten(run, NoMasterPage) /\ UNCHANGED nodeVars
     \/ /\ disk.master
        /\ \E to \in Indices : BeginDiscover(to, Held)
        /\ run' = [run EXCEPT !.state = "walking"]
        /\ UNCHANGED <<disk, page>>
  /\ UNCHANGED consoleVars

-----------------------------------------------------------------------------
(* Commands of a wallet.                                                    *)

\* The verbs that name the account they act on.
Addressed == IF run.verb = "balance" THEN {} ELSE {run.account}

GateRefuses(diverged) == Addressed \cap diverged # {}

\* Wallet::open and decide's gate: the page of an account refused names it
\* and stands alone.
OpenWallet ==
  /\ run.state = "opened" /\ run.verb \in WalletVerbs
  /\ \E answers \in [Held -> Readings] :
       LET diverged == DivergedIn(Verdicts(answers))
           gated == [run EXCEPT !.gate = diverged]
       IN  IF diverged # {} /\ diverged = Held THEN Ends(gated, StartupRefusedPage(diverged))
           ELSE IF GateRefuses(diverged) THEN Ends(gated, RefusedPage(run.account))
           ELSE /\ run' = [gated EXCEPT !.standing = diverged, !.state = "gated"]
                /\ UNCHANGED page
  /\ UNCHANGED <<consoleVars, nodeVars, disk>>

Gated(verb) == run.state = "gated" /\ run.verb = verb

CmdBalance ==
  /\ Gated("balance")
  /\ EndsUnwritten(run, Plain("ok"))
  /\ UNCHANGED <<consoleVars, nodeVars>>

NoSuchAccount ==
  /\ run.state = "gated" /\ run.verb # "balance" /\ run.account \notin Held
  /\ EndsUnwritten(run, FailedPage)
  /\ UNCHANGED <<consoleVars, nodeVars>>

CmdSettle ==
  /\ Gated("settle") /\ run.account \in Held
  /\ \E answer \in Readings, dead \in BOOLEAN :
       LET record  == disk.held[run.account]
           verdict == Verdict(record, answer)
           settled == Written(run.account, [record EXCEPT !.pending = FALSE])
       IN  CASE verdict = "in sync" -> EndsUnwritten(run, SettledPage("nothing"))
             [] verdict = "outstanding" ->
                  EndsUnwritten(run, SettledPage(IF dead THEN "dead" ELSE "outstanding"))
             [] verdict = "landed" ->
                  \/ Committed(settled) /\ Ends(run, SettledPage("settled"))
                  \/ CommitFails(settled) /\ Ends(run, FailedPage)
             [] OTHER -> EndsUnwritten(run, FailedPage)
  /\ UNCHANGED <<consoleVars, nodeVars>>

\* cmd_send to the commit of the reservation: the plan and the checks of
\* reserve_and_sign may refuse, each having asked the node.
CmdSend ==
  /\ Gated("send") /\ run.account \in Held
  /\ LET record   == disk.held[run.account]
         reserved == Written(run.account, [index |-> record.index + 1, pending |-> TRUE])
     IN  \/ EndsUnwritten(run, FailedPage)
         \/ /\ ~record.pending
            /\ \/ /\ Committed(reserved)
                  /\ run' = [run EXCEPT !.state = "reserved"]
                  /\ UNCHANGED page
               \/ CommitFails(reserved) /\ Ends(run, FailedPage)
  /\ UNCHANGED <<consoleVars, nodeVars>>

\* What submitting comes to: the node has the bytes or not, and its answer
\* may be lost; it does not answer for bytes it has not.
Submits(now, pages) ==
  \E took, answered \in BOOLEAN :
    /\ answered => took
    /\ Ends([now EXCEPT !.sent = TRUE, !.took = took], pages[answered])

SendSigned ==
  /\ run.state = "reserved"
  /\ UNCHANGED disk
  /\ Submits([run EXCEPT !.signed = TRUE],
                 [answered \in BOOLEAN |-> SentPage(answered)])
  /\ UNCHANGED <<consoleVars, nodeVars>>

\* cmd_resign: the chain is compared before the digest is.
CmdResign ==
  /\ Gated("resign") /\ run.account \in Held
  /\ UNCHANGED disk
  /\ \E answer \in Readings, same \in BOOLEAN :
       LET record  == disk.held[run.account]
           verdict == Verdict(record, answer)
       IN  IF verdict = "landed" THEN Ends(run, LandedPage)
           ELSE IF verdict # "outstanding" THEN Ends(run, FailedPage)
           ELSE IF ~same THEN Ends(run, NotReservedSpendPage)
           ELSE Submits([run EXCEPT !.signed = TRUE],
                 [answered \in BOOLEAN |-> ResignedPage(answered)])
  /\ UNCHANGED <<consoleVars, nodeVars>>

-----------------------------------------------------------------------------
(* Commands that open no store.                                             *)

CmdSubmit ==
  /\ run.state = "asking a node" /\ run.verb = "submit"
  /\ \/ Ends(run, NotSubmittedPage)
     \/ Submits(run,
                 [answered \in BOOLEAN |-> SubmittedPage(answered)])
  /\ UNCHANGED <<consoleVars, nodeVars, disk>>

RunExplorer ==
  /\ run.state = "asking a node"
  /\ \/ run.verb = "blocks" /\ \E count \in 0..MAX_COUNT : BeginBlocks(count)
     \/ run.verb = "block" /\ \E index \in 0..MaxTip : BeginBlock(index)
     \/ run.verb = "mempool" /\ \E count \in 0..MAX_COUNT : BeginMempool(count)
     \/ run.verb = "transaction" /\ \E id \in Ids : BeginTransaction(id)
     \/ run.verb = "recent" /\ \E count \in 0..MAX_COUNT : BeginRecent(count)
  /\ run' = [run EXCEPT !.state = "walking"]
  /\ UNCHANGED <<consoleVars, disk, page>>

Walks == NodeStep /\ UNCHANGED <<consoleVars, runVars>>

WalkEnds ==
  /\ run.state = "walking" /\ walk = NoWalk
  /\ EndsUnwritten(run, ShownPage)
  /\ UNCHANGED <<consoleVars, nodeVars>>

\* The next page of recent transactions is another run, with --from.
AskNextPage ==
  /\ run.state = "page" /\ run.verb = "recent"
  /\ NextPage
  /\ run' = [run EXCEPT !.state = "walking"]
  /\ page' = None
  /\ UNCHANGED <<consoleVars, disk>>

External ==
  \/ NodeMoves /\ UNCHANGED <<consoleVars, runVars>>
  \/ run.state = "idle" /\ ShellRestoresEcho /\ UNCHANGED <<nodeVars, runVars>>

Next ==
  \/ Invoke \/ AskPassword \/ AskForCreate \/ CreateEnds \/ KillRun \/ OpenStore \/ Done
  \/ CmdRestore \/ CmdAddress \/ CmdStatus \/ CmdReconcile \/ CmdDiscover
  \/ OpenWallet \/ CmdBalance \/ NoSuchAccount \/ CmdSettle \/ CmdSend \/ SendSigned \/ CmdResign
  \/ CmdSubmit \/ RunExplorer \/ Walks \/ WalkEnds \/ AskNextPage
  \/ External

Spec == InitCommand /\ [][Next]_vars

-----------------------------------------------------------------------------

\* What a page says happened, happened, and what it says did not, did not --
\* but where the store refused restore's account, which may be there all the
\* same, it alone; the signed bytes are on the page of every run that signed,
\* whatever became of the submission; and the page of the first write to a
\* version-3 store says that the store crossed, unless the write is reported as
\* a failure (cli/mod.rs, the cmd_* functions; cli/restore.rs; render.rs).
PageTellsTheRun ==
  page # None /\ run.before # None =>
    /\ "nothing written" \in page.claims =>
         disk = run.before \/ "not stored" \in page.claims
    /\ "not stored" \in page.claims =>
         /\ run.verb = "restore" /\ run.before.held[run.account] = None
         /\ \A a \in Accounts \ {run.account} : disk.held[a] = run.before.held[a]
    /\ "nothing signed" \in page.claims => ~run.signed
    /\ "nothing sent" \in page.claims => ~run.sent
    /\ "submitted" \in page.claims => run.took
    /\ page.artifact <=> run.signed
    /\ "added" \in page.claims => run.account \in Held /\ run.before.held[run.account] = None
    /\ "settled" \in page.claims =>
         run.before.held[run.account].pending /\ ~disk.held[run.account].pending
    /\ "advanced" \in page.claims =>
         disk.held[run.account].index > run.before.held[run.account].index
    /\ page.upgraded => disk.version # run.before.version
    /\ disk.version # run.before.version =>
         page.upgraded
           \/ (page.code = "refused" /\ (page.claims = {} \/ "not stored" \in page.claims))

\* Every account found diverged as the wallet opened is on the page of the
\* command, except that the page refusing such an account names it alone; and
\* no command of that wallet signs for one or moves it (decide;
\* Wallet::open; render).
DivergedAreNamed ==
  page # None /\ run.gate # {} =>
    /\ run.gate \subseteq page.named
         \/ /\ Addressed \subseteq run.gate /\ page.named = Addressed
            /\ page.code = "refused"
    /\ run.signed => run.account \notin run.gate
    /\ \A a \in run.gate : disk.held[a] = run.before.held[a]

=============================================================================
