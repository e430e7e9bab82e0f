------------------------------- MODULE NodeReads -------------------------------
(***************************************************************************)
(* The verbs that read a node and nothing else, and the sweep of account    *)
(* indices: cli/mod.rs, cli/discover.rs, over the client of mesh/.          *)
(*                                                                          *)
(* The node is external.  Its chain is replaced from any block up, by a     *)
(* shorter one too; its queue empties and fills; its index of an account's  *)
(* transactions gains rows at the new end; a tag begins or ceases to        *)
(* resolve.  A request may be lost, refused or answered out of shape; and a  *)
(* node that strays answers about another block, transaction or tag than    *)
(* the one it was asked about.                                              *)
(***************************************************************************)
EXTENDS Integers, Sequences, FiniteSets, SequencesExt, FiniteSetsExt

CONSTANTS
  Absent,       \* what an optional answer is when it is not there
  Forks,        \* what tells two blocks of one index apart
  Ids,          \* transactions
  MaxTip,       \* bound on the chain's length
  MaxTo,        \* bound on the account indices swept
  MaxMoves,     \* bound on what the node does while a command reads it
  MAX_COUNT,    \* the most rows a page asks for; 100
  DISCOVER_MAX_TO \* the most accounts a sweep asks for; 1024

VARIABLES
  node,         \* [chain, queue, rows, resolving, strays]
  moves,        \* how often it has moved while it is read
  walk,         \* the command reading it
  shown,        \* the page it came to
  seen,         \* history: the blocks that were on the chain, and the ids that
                \* were not in the queue, while this command read
  reader        \* the pages of recent transactions read one after the other

nodeVars == <<node, moves, walk, shown, seen, reader>>

\* An answer that is not there is no count, no tag, no transaction and no code.
ASSUME NodeAssumption ==
  /\ Absent \notin Nat \cup Ids \cup {"code 2", "code 3", "code 4"}
  /\ IsFiniteSet(Ids)
  /\ MaxTip \in Nat

Tip      == Len(node.chain)
BlockAt(index) == [index |-> index, fork |-> node.chain[index]]
Indices == 0..MaxTo

\* A node: a chain that begins the same everywhere, a queue, rows newest first,
\* and whether it strays.
Nodes ==
  {[chain |-> chain, queue |-> queue, rows |-> rows, resolving |-> resolving,
    strays |-> strays] :
     chain \in {[i \in 1..MaxTip |-> fork] : fork \in Forks},
     queue \in {<<>>, SetToSeq(Ids)}, rows \in {SetToSeq(Ids)},
     resolving \in {{}, {1}, Indices}, strays \in BOOLEAN}

Seen == [blocks |-> {BlockAt(i) : i \in 1..Tip}, gone |-> Ids \ ToSet(node.queue)]

NoWalk == [verb |-> "none"]

-----------------------------------------------------------------------------
(* The client.  A reply is what arrived: a status, a body that fits the      *)
(* path's cap or does not, is an object or is not, carries an error code,    *)
(* has the fields its parser reads or not, each row with its block and time  *)
(* or not, and the result.  A caller is handed the result or an error.       *)

Whole(result) ==
  [status |-> 200, fits |-> TRUE, object |-> TRUE, code |-> Absent,
   fields |-> TRUE, dated |-> TRUE, result |-> result]
Answer(result) == Whole(result)
Coded(code)    == [Whole(Absent) EXCEPT !.code = code]

Lost == [Whole(Absent) EXCEPT !.status = 0]

\* The codes a request may be refused with whatever was asked.
CodesOf(path) == {"code 2"} \cup IF path = "tag_resolve" THEN {"code 4"} ELSE {}

Faults(path) ==
  {Lost, [Whole(Absent) EXCEPT !.status = 404], [Whole(Absent) EXCEPT !.fits = FALSE],
   [Whole(Absent) EXCEPT !.object = FALSE], [Whole(Absent) EXCEPT !.fields = FALSE]}
  \cup (IF path = "search" THEN {[Whole(Absent) EXCEPT !.dated = FALSE]} ELSE {})
  \cup {Coded(code) : code \in CodesOf(path)}

Got(reply) == [ok |-> TRUE, error |-> Absent, reply |-> reply, result |-> reply.result]
Err(error) == [ok |-> FALSE, error |-> error, reply |-> Absent, result |-> Absent]

\* UreqTransport::post: no answer, another status than 200, or a body past the
\* cap of the path.
Post(reply) ==
  IF reply.status = 0 THEN Err("transport")
  ELSE IF reply.status # 200 THEN Err("status")
  ELSE IF ~reply.fits THEN Err("too large")
  ELSE Got(reply)

\* envelope: an error object is an answer of its own, read before any field.
Envelope(got) ==
  IF ~got.ok THEN got
  ELSE IF ~got.reply.object THEN Err("shape")
  ELSE IF got.reply.code # Absent THEN Err(got.reply.code)
  ELSE got

\* field, object, unsigned, string, tip: what is read of an answer is there.
Fields(got) ==
  LET read == Envelope(got)
  IN  IF read.ok /\ ~read.reply.fields THEN Err("shape") ELSE read

\* parse_transaction: a row of the indexer carries its block and its time.
Rows(got, withBlock) ==
  LET read == Fields(got)
  IN  IF read.ok /\ withBlock /\ ~read.reply.dated THEN Err("shape") ELSE read

ParseStatus(got) == Fields(got)
ParseBlock(got)  == Rows(got, FALSE)
ParseQueued(got) == Rows(got, FALSE)
ParseSearch(got) == Rows(got, TRUE)

\* What the node answers to each request.  Index 0 is the current block, and
\* a queue with nothing in it is null.  What a list holds is the node's to say:
\* it strays only where one block, transaction or tag was asked for.
Strays(answers) == IF node.strays THEN answers ELSE {}

StatusReplies == {Answer(Tip)} \cup Faults("status")
BlockReplies(index) ==
  Faults("block")
    \cup Strays({Answer(block) : block \in [index : 1..MaxTip, fork : Forks]}) \cup
    IF index = 0 THEN {Answer(BlockAt(Tip))}
    ELSE IF index <= Tip THEN {Answer(BlockAt(index))} ELSE {Coded("code 2")}
QueueReplies ==
  Faults("mempool") \cup {Answer(IF node.queue = <<>> THEN Absent ELSE node.queue)}
QueuedReplies(id) ==
  Faults("mempool/transaction")
    \cup Strays({Coded("code 3")} \cup {Answer(other) : other \in Ids})
    \cup {IF id \in ToSet(node.queue) THEN Answer(id) ELSE Coded("code 3")}
SearchReplies(from, count) ==
  LET upto == IF from + count < Len(node.rows) THEN from + count ELSE Len(node.rows)
  IN  Faults("search") \cup
        {Answer([rows |-> SubSeq(node.rows, from + 1, upto),
                 next |-> IF upto < Len(node.rows) THEN upto ELSE Absent])}

\* A tag that resolves is answered with its address.
ResolveReplies(account) ==
  Faults("tag_resolve")
    \cup {IF account \in node.resolving THEN Answer(account) ELSE Coded("code 4")}
    \cup Strays({Coded("code 4")} \cup {Answer(other) : other \in Indices})

\* The rows of one transaction's hash.
LookUpReplies(id) ==
  Faults("search")
    \cup Strays({Answer({other}) : other \in ToSet(node.rows)})
    \cup {Answer(ToSet(node.rows) \cap {id})}

\* parse_mempool: the ids in the queue's order; null is a queue with nothing.
ParseMempool(got) ==
  LET read == Fields(got)
  IN  IF read.ok /\ read.result = Absent THEN Got(Answer(<<>>)) ELSE read

\* parse_tag_resolve: the address begins with the tag that was asked.  Nothing
\* else that is read is compared with what was asked for.
ParseTagResolve(got, account) ==
  LET read == Fields(got)
  IN  IF read.ok /\ read.result # account THEN Err("shape") ELSE read

-----------------------------------------------------------------------------
(* What is asked for: cli/args.rs.                                          *)

BlockArg(index)   == index # 0
CountArg(count)   == count \in 1..MAX_COUNT
DiscoverArg(to)   == to \in 1..DISCOVER_MAX_TO

-----------------------------------------------------------------------------
(* Beginning and ending a command.  It finds the node as the node is.       *)

Begin(new) ==
  /\ walk = NoWalk
  /\ node' \in Nodes
  /\ moves' = 0
  /\ walk' = new
  /\ shown' = Absent
  /\ seen' = Seen'

\* A page, or a refusal that lists nothing.
Show(page) == /\ shown' = page
              /\ walk' = NoWalk
              /\ UNCHANGED <<node, moves, seen>>
Stopped(error) == [verb |-> "stopped", of |-> walk.verb, error |-> error]
Continue(next) == /\ walk' = next
                  /\ UNCHANGED <<node, moves, seen, shown>>

BeginBlocks(count) ==
  /\ CountArg(count)
  /\ Begin([verb |-> "blocks", count |-> count, tip |-> Absent, rows |-> <<>>])
  /\ reader' = Absent

BeginBlock(index) ==
  /\ BlockArg(index)
  /\ Begin([verb |-> "block", index |-> index])
  /\ reader' = Absent

BeginMempool(count) ==
  /\ CountArg(count)
  /\ Begin([verb |-> "mempool", count |-> count, ids |-> Absent, rows |-> <<>>])
  /\ reader' = Absent

\* held is what the store holds of the accounts swept.
BeginDiscover(to, held) ==
  /\ DiscoverArg(to) /\ to \in Indices
  /\ Begin([verb |-> "discover", to |-> to, held |-> held, sightings |-> <<>>])
  /\ reader' = Absent

BeginTransaction(id) ==
  /\ Begin([verb |-> "transaction", id |-> id])
  /\ reader' = Absent

\* The first page asked for, and the one the page before it named.
BeginRecent(count) ==
  /\ CountArg(count)
  /\ Begin([verb |-> "recent", count |-> count, from |-> 0])
  /\ reader' = [first |-> node'.rows, rows |-> {}, next |-> 0, count |-> count]

NextPage ==
  /\ walk = NoWalk /\ reader # Absent
  /\ reader.next # Absent /\ reader.next > 0
  /\ walk' = [verb |-> "recent", count |-> reader.count, from |-> reader.next]
  /\ shown' = Absent
  /\ UNCHANGED <<node, moves, seen, reader>>

-----------------------------------------------------------------------------
(* The pages: cli/render.rs.  A row's figures are left out.                  *)

BlocksPage == [verb |-> "blocks", count |-> walk.count, tip |-> walk.tip, rows |-> walk.rows]
BlockPage(block) == [verb |-> "block", index |-> walk.index, row |-> block]
TransactionPage(rows) == [verb |-> "transaction", id |-> walk.id, rows |-> rows]

\* The rows read, how many wait, and how many of them were not read.  A row is
\* an id of the list and the transaction that was answered, or none.
MempoolPage ==
  [verb |-> "mempool", ids |-> walk.ids, rows |-> walk.rows,
   unread |-> Len(walk.ids) - Len(walk.rows)]

\* Numbered from the offset asked for, with the offset to ask for next.
RecentPage(got) ==
  [verb |-> "recent", first |-> walk.from + 1, rows |-> got.rows, next |-> got.next]

\* An account this store holds is a row whatever the node said of it.
Listed(sighting) == sighting.entry # Absent \/ sighting.account \in walk.held

DiscoveredPage ==
  [verb |-> "discover", to |-> walk.to, held |-> walk.held,
   rows |-> {sighting \in ToSet(walk.sightings) : Listed(sighting)},
   unresolved |-> {sighting.account :
                     sighting \in {s \in ToSet(walk.sightings) : ~Listed(s)}}]

-----------------------------------------------------------------------------
(* The commands, one request a step.                                        *)

\* cmd_blocks: the tip, then down from it.
ReadStatus ==
  /\ walk.verb = "blocks" /\ walk.tip = Absent
  /\ \E reply \in StatusReplies :
       LET got == ParseStatus(Post(reply))
       IN  IF got.ok THEN Continue([walk EXCEPT !.tip = got.result])
           ELSE Show(Stopped(got.error))
  /\ UNCHANGED reader

\* Variant: the walk does not stop above index 0.
WalkedToZero(index) == Len(walk.rows) = walk.count \/ index < 0

Walked(index) == Len(walk.rows) = walk.count \/ index <= 0

ReadBlocks ==
  /\ walk.verb = "blocks" /\ walk.tip # Absent
  /\ LET index == walk.tip - Len(walk.rows)
     IN  IF Walked(index)
         THEN Show(BlocksPage)
         ELSE \E reply \in BlockReplies(index) :
                LET got == ParseBlock(Post(reply))
                IN  IF got.ok THEN Continue([walk EXCEPT !.rows = Append(@, got.result)])
                    ELSE Show(Stopped(got.error))
  /\ UNCHANGED reader

ReadBlock ==
  /\ walk.verb = "block"
  /\ \E reply \in BlockReplies(walk.index) :
       LET got == ParseBlock(Post(reply))
       IN  Show(IF got.ok THEN BlockPage(got.result) ELSE Stopped(got.error))
  /\ UNCHANGED reader

\* cmd_mempool: the ids, then the first of them read whole.
ReadQueue ==
  /\ walk.verb = "mempool" /\ walk.ids = Absent
  /\ \E reply \in QueueReplies :
       LET got == ParseMempool(Post(reply))
       IN  IF got.ok THEN Continue([walk EXCEPT !.ids = got.result])
           ELSE Show(Stopped(got.error))
  /\ UNCHANGED reader

LeftTheQueue(error) == error = "code 3"

ReadQueued ==
  /\ walk.verb = "mempool" /\ walk.ids # Absent
  /\ LET row == Len(walk.rows) + 1
     IN  IF row > walk.count \/ row > Len(walk.ids)
         THEN Show(MempoolPage)
         ELSE \E reply \in QueuedReplies(walk.ids[row]) :
                LET got == ParseQueued(Post(reply))
                    Row(transaction) ==
                      [walk EXCEPT !.rows =
                         Append(@, [id |-> walk.ids[row], transaction |-> transaction])]
                IN  IF got.ok THEN Continue(Row(got.result))
                    ELSE IF LeftTheQueue(got.error) THEN Continue(Row(Absent))
                    ELSE Show(Stopped(got.error))
  /\ UNCHANGED reader

\* sweep: code 4 is an answer about an index; anything else stops the sweep.
Unresolved(error) == error = "code 4"

Sweep ==
  /\ walk.verb = "discover"
  /\ LET account == Len(walk.sightings)
     IN  IF account > walk.to
         THEN Show(DiscoveredPage)
         ELSE \E reply \in ResolveReplies(account) :
                LET got == ParseTagResolve(Post(reply), account)
                    Sighting(entry) == [walk EXCEPT !.sightings =
                                          Append(@, [account |-> account, entry |-> entry])]
                IN  IF got.ok THEN Continue(Sighting(got.result))
                    ELSE IF Unresolved(got.error) THEN Continue(Sighting(Absent))
                    ELSE Show(Stopped(got.error))
  /\ UNCHANGED reader

\* cmd_transaction: the index's row for a hash; none is said to be none.
LookUp ==
  /\ walk.verb = "transaction"
  /\ \E reply \in LookUpReplies(walk.id) :
       LET got == ParseSearch(Post(reply))
       IN  Show(IF got.ok /\ got.result # {} THEN TransactionPage(got.result)
                ELSE Stopped(got.error))
  /\ UNCHANGED reader

\* Variant: the offset is sent as a number of pages.
OffsetInPages(from, count) == from * count

Offset(from, count) == from

\* cmd_recent_transactions_from: one page, and the offset after it.
ReadRecent ==
  /\ walk.verb = "recent"
  /\ \E reply \in SearchReplies(Offset(walk.from, walk.count), walk.count) :
       LET got == ParseSearch(Post(reply))
       IN  IF got.ok
           THEN /\ Show(RecentPage(got.result))
                /\ reader' = [reader EXCEPT !.rows = @ \cup ToSet(shown'.rows),
                                            !.next = shown'.next]
           ELSE /\ Show(Stopped(got.error))
                /\ reader' = Absent

NodeStep == \/ ReadStatus \/ ReadBlocks \/ ReadBlock \/ ReadQueue \/ ReadQueued
            \/ Sweep \/ LookUp \/ ReadRecent

-----------------------------------------------------------------------------
(* The node moves, while a command reads that part of it.                   *)

Moves(new) ==
  /\ moves < MaxMoves
  /\ moves' = moves + 1
  /\ node' = new
  /\ seen' = [blocks |-> seen.blocks \cup Seen'.blocks, gone |-> seen.gone \cup Seen'.gone]
  /\ UNCHANGED <<walk, shown, reader>>

Reorganise ==
  /\ walk.verb \in {"blocks", "block"}
  /\ \E keep \in 0..Tip, fork \in Forks : \E length \in 1..MaxTip :
       /\ length > keep
       /\ Moves([node EXCEPT !.chain =
            [i \in 1..length |-> IF i <= keep THEN node.chain[i] ELSE fork]])

QueueMoves ==
  /\ walk.verb = "mempool"
  /\ \/ \E i \in 1..Len(node.queue) :
           Moves([node EXCEPT !.queue = RemoveAt(@, i)])
     \/ \E id \in Ids \ ToSet(node.queue) :
           Moves([node EXCEPT !.queue = Append(@, id)])

\* A block brings a row, while a page is read or between two.
RowArrives ==
  /\ walk.verb = "recent" \/ (walk = NoWalk /\ reader # Absent)
  /\ Moves([node EXCEPT !.rows = <<[new |-> moves]>> \o @])

ResolvingMoves ==
  /\ walk.verb = "discover"
  /\ \E account \in Indices : Moves([node EXCEPT !.resolving =
       IF account \in @ THEN @ \ {account} ELSE @ \cup {account}])

NodeMoves == Reorganise \/ QueueMoves \/ RowArrives \/ ResolvingMoves

NodeInit ==
  /\ node = CHOOSE n \in Nodes : TRUE
  /\ moves = 0
  /\ walk = NoWalk
  /\ shown = Absent
  /\ seen = [blocks |-> {}, gone |-> {}]
  /\ reader = Absent

-----------------------------------------------------------------------------

\* A page of a list has as many rows as it says, whatever the node answered and
\* did while it was read: `blocks` down from the tip it was told, `mempool` one
\* under each of the first ids, `discover` every index asked for, once, with its
\* own entry or none, and every account held.  A walk that stopped shows no
\* rows.  And where the node answers about what it was asked -- of `discover`
\* alone is that checked (parse_tag_resolve) -- each row is the one asked for:
\* a block of its number that was on the chain as the page was read, "left the
\* queue" only of one that did (cmd_blocks, cmd_mempool, sweep).
PagesAreWhole ==
  shown # Absent =>
    /\ shown.verb = "blocks" =>
         /\ Len(shown.rows) = Min({shown.count, shown.tip})
         /\ ~node.strays => \A i \in 1..Len(shown.rows) :
              /\ shown.rows[i].index = shown.tip + 1 - i
              /\ shown.rows[i] \in seen.blocks
    /\ shown.verb = "block" /\ ~node.strays =>
         shown.row.index = shown.index /\ shown.row \in seen.blocks
    /\ shown.verb = "transaction" /\ ~node.strays => shown.rows = {shown.id}
    /\ shown.verb = "mempool" =>
         /\ Len(shown.rows) + shown.unread = Len(shown.ids)
         /\ \A i \in 1..Len(shown.rows) :
              /\ shown.rows[i].id = shown.ids[i]
              /\ ~node.strays =>
                   /\ shown.rows[i].transaction \in {shown.ids[i], Absent}
                   /\ shown.rows[i].transaction = Absent => shown.ids[i] \in seen.gone
    /\ shown.verb = "discover" =>
         LET listed == {row.account : row \in shown.rows}
         IN  /\ listed \cup shown.unresolved = 0..shown.to
             /\ listed \cap shown.unresolved = {}
             /\ shown.held \cap 0..shown.to \subseteq listed
             /\ \A row \in shown.rows : row.entry \in {Absent, row.account}

\* Pages of recent transactions, each asked for at the offset the page before
\* it named, skip no row there was when the first was asked for, whatever
\* arrives between them (cmd_recent_transactions_from; render.rs, the note of
\* the next offset).
PagingSkipsNone ==
  reader # Absent /\ reader.next = Absent => ToSet(reader.first) \subseteq reader.rows
=============================================================================
