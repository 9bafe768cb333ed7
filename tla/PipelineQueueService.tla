------------------------ MODULE PipelineQueueService ------------------------
(***************************************************************************)
(* RedisPipelineQueueService                                               *)
(* (adapters/secondary/redis_pipeline_queue_service.py), one pipeline.     *)
(* The queue is spread over a sorted set (item -> board position), a       *)
(* metadata hash (item -> status) and a reverse index (the items known to  *)
(* be queued).  A MULTI/EXEC transaction is one step; between two Redis    *)
(* commands, and during the fetch of the board, other callers run and      *)
(* people move cards.                                                      *)
(***************************************************************************)
EXTENDS Integers, Sequences, FiniteSets, SequencesExt

CONSTANTS Items,        \* work items
          ColumnOrder,  \* the board's columns, first to last
          Trigger,      \* the pipeline trigger column
          Callers,      \* coroutines that may be inside a call at one time
          NoItem,       \* "no item" and "no column"
          MaxMoves,     \* bound: card moves in a behaviour
          MaxCuts       \* bound: commands that fail, calls that are cancelled

Columns == ToSet(ColumnOrder)

ASSUME QueueAssumption == /\ IsFiniteSet(Items)
                          /\ ColumnOrder \in Seq(STRING)
                          /\ Trigger \in Columns
                          /\ NoItem \notin Items \cup Columns
                          /\ MaxMoves \in Nat
                          /\ MaxCuts \in Nat

VARIABLES board,   \* board[c]: the items of column c, top to bottom
          zset,    \* zset[i]: score of i in the sorted set, Absent if none
          meta,    \* meta[i]: status in the metadata hash, "none" if none
          index,   \* the items of the reverse index
          call,    \* call[c]: the call caller c is in
          orphans, \* items whose enqueue was cut with the index written
          moves, cuts

redis == <<zset, meta, index>>
bounds == <<moves, cuts>>
vars == <<board, zset, meta, index, call, orphans, moves, cuts>>

Absent == -1
Queued == {i \in Items : zset[i] # Absent}

\* item: the argument, or the answer of get_next_waiting_item; pos: the score
\* to write; snap, col: the board fetched and the column chosen from it; seen:
\* the sorted set as ZRANGE returned it; todo: the items still to visit; read:
\* the status read by HGET; alone: no other call, move or failure so far.
Idle == [pc |-> "idle"]
Blank == [pc |-> "idle", item |-> NoItem, pos |-> 0,
          snap |-> [c \in Columns |-> <<>>], col |-> NoItem, seen |-> {},
          todo |-> <<>>, read |-> "none", alone |-> FALSE]

At(c, pc) == call[c].pc = pc
Goto(c, pc) == call' = [call EXCEPT ![c].pc = pc]
Return(c) == call' = [call EXCEPT ![c] = Idle]

Boards == {b \in [Columns -> UNION {SetToSeqs(S) : S \in SUBSET Items}] :
             /\ \A c, d \in Columns : c # d => ToSet(b[c]) \cap ToSet(b[d]) = {}
             /\ UNION {ToSet(b[c]) : c \in Columns} = Items}

Init == /\ board \in {b \in Boards : \A c \in Columns \ {Head(ColumnOrder), Trigger} :
                                        b[c] = <<>>}
        /\ zset = [i \in Items |-> Absent]
        /\ meta = [i \in Items |-> "none"]
        /\ index = {}
        /\ call = [c \in Callers |-> Idle]
        /\ orphans = {}
        /\ moves = 0 /\ cuts = 0

\* Once the sync is over the board is kept only to judge the answer of a call
\* that ran alone.
Settled(r) == IF r.alone \/ r.pc \notin {"range", "pick", "answer"} THEN r
              ELSE [r EXCEPT !.snap = Blank.snap, !.col = NoItem]

\* Whatever happens beside a call ends the claim that it ran alone.
Disturb(calls) == [c \in Callers |->
    IF calls[c].pc = "idle" THEN Idle
    ELSE Settled([calls[c] EXCEPT !.alone = FALSE])]

Begin(c, pc, i, pos) ==
    /\ At(c, "idle")
    /\ LET quiet == \A d \in Callers : At(d, "idle")
       IN  call' = [Disturb(call) EXCEPT
                      ![c] = [Blank EXCEPT !.pc = pc, !.item = i, !.pos = pos,
                                           !.alone = quiet]]
    /\ UNCHANGED <<board, redis, orphans, bounds>>

\* The position of an item in a column, from 0 at the top.
Position(s, i) == (CHOOSE n \in 1 .. Len(s) : s[n] = i) - 1
-----------------------------------------------------------------------------
(* enqueue_item: HSETNX on the index, then ZADD, HSET and SADD in a MULTI.   *)
(* The board handler calls it for a card it found in the trigger column.    *)

Enqueue(c, i) == /\ i \in ToSet(board[Trigger])
                 /\ Begin(c, "hsetnx", i, Position(board[Trigger], i))

\* An item already in the index is a DuplicateQueueEntryError.
HSetNx(c) ==
    /\ At(c, "hsetnx")
    /\ index' = index \cup {call[c].item}
    /\ IF call[c].item \in index THEN Return(c) ELSE Goto(c, "enqueueTx")
    /\ UNCHANGED <<board, zset, meta, orphans, bounds>>

Write(i, pos, status) == /\ zset' = [zset EXCEPT ![i] = pos]
                         /\ meta' = [meta EXCEPT ![i] = status]

EnqueueTx(c) == /\ At(c, "enqueueTx")
                /\ Write(call[c].item, call[c].pos, "waiting")
                /\ Return(c)
                /\ UNCHANGED <<board, index, orphans, bounds>>

\* Mutant: the cleanup takes the item off the queue and leaves the index.
CleanupQueue(c) == /\ At(c, "cleanup")
                   /\ zset' = [zset EXCEPT ![call[c].item] = Absent]
                   /\ meta' = [meta EXCEPT ![call[c].item] = "none"]
                   /\ Return(c)
                   /\ UNCHANGED <<board, index, orphans, bounds>>

\* After a failed MULTI the index entry is removed again.
Cleanup(c) == /\ At(c, "cleanup")
              /\ index' = index \ {call[c].item}
              /\ Return(c)
              /\ UNCHANGED <<board, zset, meta, orphans, bounds>>
-----------------------------------------------------------------------------
(* remove_from_queue and mark_item_active find the item through the index.  *)

RemoveItem(c, i) == Begin(c, "lookup", i, 0)
MarkActive(c, i) == Begin(c, "lookupActive", i, 0)

Lookup(c) == /\ At(c, "lookup")
             /\ IF call[c].item \in index THEN Goto(c, "removeTx") ELSE Return(c)
             /\ UNCHANGED <<board, redis, orphans, bounds>>

\* Mutant: the transaction deletes the metadata and misses the sorted set.
ForgetMeta(items) == /\ meta' = [i \in Items |-> IF i \in items THEN "none" ELSE meta[i]]
                     /\ index' = index \ items
                     /\ UNCHANGED zset

Forget(items) == /\ zset' = [i \in Items |-> IF i \in items THEN Absent ELSE zset[i]]
                 /\ meta' = [i \in Items |-> IF i \in items THEN "none" ELSE meta[i]]
                 /\ index' = index \ items

RemoveTx(c) == /\ At(c, "removeTx")
               /\ Forget({call[c].item})
               /\ Return(c)
               /\ UNCHANGED <<board, orphans, bounds>>

LookupActive(c) ==
    /\ At(c, "lookupActive")
    /\ IF call[c].item \in index THEN Goto(c, "readActive") ELSE Return(c)
    /\ UNCHANGED <<board, redis, orphans, bounds>>

\* Missing metadata and a status that is ACTIVE already are errors.
ReadActive(c) ==
    /\ At(c, "readActive")
    /\ IF meta[call[c].item] = "waiting" THEN Goto(c, "setActive") ELSE Return(c)
    /\ UNCHANGED <<board, redis, orphans, bounds>>

SetActive(c) == /\ At(c, "setActive")
                /\ meta' = [meta EXCEPT ![call[c].item] = "active"]
                /\ Return(c)
                /\ UNCHANGED <<board, zset, index, orphans, bounds>>
-----------------------------------------------------------------------------
(* get_next_waiting_item: fetch the board, sync the queue with one of its   *)
(* columns, then take the first waiting item by score.                      *)

GetNext(c) == Begin(c, "getBoard", NoItem, 0)

GetBoard(c) == /\ At(c, "getBoard")
               /\ call' = [call EXCEPT ![c].snap = board, ![c].pc = "scan"]
               /\ UNCHANGED <<board, redis, orphans, bounds>>

\* The first column of the board that holds any queued item is the one the
\* queue is synced with, whether or not it is the trigger column.
Holding(snap, n) == ToSet(snap[ColumnOrder[n]]) \cap Queued # {}

Scan(c) ==
    /\ At(c, "scan")
    /\ LET snap == call[c].snap
       IN  \/ \E n \in DOMAIN ColumnOrder :
                /\ Holding(snap, n)
                /\ \A m \in 1 .. n - 1 : ~Holding(snap, m)
                /\ call' = [call EXCEPT ![c].col = ColumnOrder[n], ![c].pc = "syncScan"]
           \/ /\ \A n \in DOMAIN ColumnOrder : ~Holding(snap, n)
              /\ call' = [call EXCEPT ![c] = Settled([@ EXCEPT !.pc = "range"])]
    /\ UNCHANGED <<board, redis, orphans, bounds>>

\* _sync_queue_with_board_internal reads the sorted set again.
SyncScan(c) ==
    /\ At(c, "syncScan")
    /\ LET column == call[c].snap[call[c].col]
       IN  call' = [call EXCEPT
             ![c].seen = Queued,
             ![c].todo = column,
             ![c].pc = IF Queued \subseteq ToSet(column) THEN "syncItem" ELSE "dropTx"]
    /\ UNCHANGED <<board, redis, orphans, bounds>>

DropTx(c) == /\ At(c, "dropTx")
             /\ Forget(call[c].seen \ ToSet(call[c].snap[call[c].col]))
             /\ Goto(c, "syncItem")
             /\ UNCHANGED <<board, orphans, bounds>>

Syncing(c) == At(c, "syncItem") /\ call[c].todo # <<>>
Next1(c) == Head(call[c].todo)
\* Mutant: the distance from the bottom, one too many.
ScoreFromBottom(c) == Len(call[c].todo)

\* Mutant: the distance from the bottom in place of that from the top.
ScoreReversed(c) == Len(call[c].todo) - 1

\* The index of the head of todo in its column is its new score.
NewScore(c) == Len(call[c].snap[call[c].col]) - Len(call[c].todo)
Advance(c, pc) == call' = [call EXCEPT ![c].todo = Tail(@), ![c].pc = pc]

\* An item of the column that ZRANGE had returned: HGET its metadata (missing
\* metadata skips it), then write the metadata back with the new score.
SyncRead(c) ==
    /\ Syncing(c) /\ Next1(c) \in call[c].seen
    /\ IF meta[Next1(c)] = "none"
         THEN Advance(c, "syncItem")
         ELSE call' = [call EXCEPT ![c].read = meta[Next1(c)], ![c].pc = "updateTx"]
    /\ UNCHANGED <<board, redis, orphans, bounds>>

UpdateTx(c) == /\ At(c, "updateTx")
               /\ Write(Next1(c), NewScore(c), call[c].read)
               /\ call' = [call EXCEPT ![c].todo = Tail(@), ![c].pc = "syncItem",
                                       ![c].read = "none"]
               /\ UNCHANGED <<board, index, orphans, bounds>>

\* Any other item of the column is added, in one MULTI.
AddTx(c) == /\ Syncing(c) /\ Next1(c) \notin call[c].seen
            /\ Write(Next1(c), NewScore(c), "waiting")
            /\ index' = index \cup {Next1(c)}
            /\ Advance(c, "syncItem")
            /\ UNCHANGED <<board, orphans, bounds>>

Synced(c) == /\ At(c, "syncItem") /\ call[c].todo = <<>>
             /\ call' = [call EXCEPT ![c] = Settled([@ EXCEPT !.pc = "range",
                                                                !.seen = {}])]
             /\ UNCHANGED <<board, redis, orphans, bounds>>

\* ZRANGE WITHSCORES: all items by score, in some order where scores are equal.
ZRange(c) ==
    /\ At(c, "range")
    /\ \E s \in SetToSeqs(Queued) :
         /\ \A m, n \in 1 .. Len(s) : m < n => zset[s[m]] <= zset[s[n]]
         /\ call' = [call EXCEPT ![c].todo = s, ![c].pc = "pick"]
    /\ UNCHANGED <<board, redis, orphans, bounds>>

\* Each item's metadata is read in turn; the first WAITING one is the answer.
Pick(c) ==
    /\ At(c, "pick")
    /\ IF call[c].todo = <<>>
         THEN Goto(c, "answer")
       ELSE IF meta[Next1(c)] = "waiting"
         THEN call' = [call EXCEPT ![c].item = Next1(c), ![c].pc = "answer"]
       ELSE Advance(c, "pick")
    /\ UNCHANGED <<board, redis, orphans, bounds>>

Answer(c) == /\ At(c, "answer")
             /\ Return(c)
             /\ UNCHANGED <<board, redis, orphans, bounds>>
-----------------------------------------------------------------------------
(* Failures, and the people at the board                                    *)

Cut(c) == cuts < MaxCuts /\ cuts' = cuts + 1

\* A failure inside the sync is logged and never ends the call: without the
\* board or the sorted set there is no sync, and a command on one item that
\* fails skips that item.
SyncFails(c) ==
    /\ \/ \E pc \in {"getBoard", "scan", "syncScan", "dropTx", "updateTx"} : At(c, pc)
       \/ Syncing(c)
    /\ Cut(c)
    /\ call' = [Disturb(call) EXCEPT
                  ![c].pc = IF call[c].pc \in {"getBoard", "scan", "syncScan"}
                              THEN "range" ELSE "syncItem",
                  ![c].todo = IF call[c].pc \in {"syncItem", "updateTx"}
                                THEN Tail(@) ELSE @,
                  ![c].read = "none"]
    /\ UNCHANGED <<board, redis, orphans, moves>>

\* The MULTI of an enqueue raises, before or after Redis executed it.
EnqueueTxFails(c) ==
    /\ At(c, "enqueueTx")
    /\ Cut(c)
    /\ \/ Write(call[c].item, call[c].pos, "waiting")
       \/ UNCHANGED <<zset, meta>>
    /\ call' = [Disturb(call) EXCEPT ![c].pc = "cleanup"]
    /\ UNCHANGED <<board, index, orphans, moves>>

\* A read fails, the call is cancelled (the decorator's timeout) or the process
\* dies: nothing cleans up.  CancelledError is not an Exception.
Abandon(c) ==
    /\ ~At(c, "idle")
    /\ Cut(c)
    /\ orphans' = IF At(c, "enqueueTx") \/ At(c, "cleanup")
                    THEN orphans \cup {call[c].item} ELSE orphans
    /\ call' = [Disturb(call) EXCEPT ![c] = Idle]
    /\ UNCHANGED <<board, redis, moves>>

\* A card is dragged to the top or to the bottom of a column; the others keep
\* their order.
MoveCard(i, to) ==
    /\ moves < MaxMoves
    /\ moves' = moves + 1
    /\ board' \in Boards \ {board}
    /\ \A c \in Columns : Remove(board'[c], i) = Remove(board[c], i)
    /\ i \in ToSet(board'[to]) /\ i \in {Head(board'[to]), Last(board'[to])}
    /\ call' = Disturb(call)
    /\ UNCHANGED <<redis, orphans, cuts>>

Step(c) == \/ HSetNx(c) \/ EnqueueTx(c) \/ Cleanup(c)
           \/ Lookup(c) \/ RemoveTx(c)
           \/ LookupActive(c) \/ ReadActive(c) \/ SetActive(c)
           \/ GetBoard(c) \/ Scan(c) \/ SyncScan(c) \/ DropTx(c)
           \/ SyncRead(c) \/ UpdateTx(c) \/ AddTx(c) \/ Synced(c)
           \/ ZRange(c) \/ Pick(c) \/ Answer(c)

Next == \/ \E c \in Callers : \/ Step(c) \/ GetNext(c)
                              \/ SyncFails(c) \/ EnqueueTxFails(c) \/ Abandon(c)
                              \/ \E i \in Items : \/ Enqueue(c, i) \/ RemoveItem(c, i)
                                                  \/ MarkActive(c, i)
        \/ \E i \in Items, to \in Columns : MoveCard(i, to)

Spec == Init /\ [][Next]_vars
-----------------------------------------------------------------------------
(* Properties *)

Pcs == {"hsetnx", "enqueueTx", "cleanup", "lookup", "removeTx", "lookupActive",
        "readActive", "setActive", "getBoard", "scan", "syncScan", "dropTx",
        "syncItem", "updateTx", "range", "pick", "answer"}

\* The state is well formed: scores are positions of the board (0 to the
\* number of items less one), statuses are those of QueueStatus.
TypeOK ==
    /\ board \in Boards
    /\ zset \in [Items -> 0 .. Cardinality(Items) - 1 \cup {Absent}]
    /\ meta \in [Items -> {"none", "waiting", "active"}]
    /\ index \subseteq Items
    /\ orphans \subseteq Items
    /\ \A c \in Callers :
         \/ call[c] = Idle
         \/ /\ call[c].pc \in Pcs
            /\ call[c].item \in Items \cup {NoItem}
            /\ call[c].col \in Columns \cup {NoItem}
            /\ call[c].seen \subseteq Items
            /\ ToSet(call[c].todo) \subseteq Items
    /\ moves \in 0 .. MaxMoves /\ cuts \in 0 .. MaxCuts

\* Every entry of the sorted set has its metadata, whatever fails and however
\* calls interleave: the transactions write and delete the two together, so
\* the QueueMetadataCorruptionEvent branches that skip an entry for good are
\* never taken for an entry that stays.
EntryHasMetadata == \A i \in Queued : meta[i] # "none"

\* An item that is indexed but not queued makes every later enqueue raise
\* DuplicateQueueEntryError, after which the board handler gives the item up.
\* Only a running enqueue, or one that was cut before its cleanup, leaves one.
NoOrphanIndex ==
    \A i \in index \ Queued :
        \/ i \in orphans
        \/ \E c \in Callers : /\ At(c, "enqueueTx") \/ At(c, "cleanup")
                            /\ call[c].item = i

\* get_next_waiting_item, undisturbed, answers with the topmost waiting item
\* of the column it synced with, and with None only when nobody waits.
TopmostFirst ==
    \A c \in Callers :
        At(c, "answer") /\ call[c].alone =>
            IF call[c].item = NoItem
              THEN \A i \in Queued : meta[i] # "waiting"
            ELSE \A n \in 1 .. Len(call[c].snap[call[c].col]) :
                   LET i == call[c].snap[call[c].col][n]
                   IN  meta[i] = "waiting" =>
                         Position(call[c].snap[call[c].col], call[c].item) <= n - 1

=============================================================================
