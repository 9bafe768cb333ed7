--------------------- MODULE PipelineQueueService_proofs ---------------------
(***************************************************************************)
(* Proofs about PipelineQueueService, for any number of items, columns,    *)
(* callers, card moves and failures.                                       *)
(***************************************************************************)
EXTENDS PipelineQueueService, FiniteSetTheorems, SequenceTheorems, TLAPS

\* The columns of a board are sequences without repetition.
Arrangements == UNION {SetToSeqs(S) : S \in SUBSET Items}

\* A call in progress: the locals of Blank, each with its type.
CallRec == [pc : Pcs, item : Items \cup {NoItem}, pos : Nat,
            snap : [Columns -> Arrangements \cup {<<>>}],
            col : Columns \cup {NoItem}, seen : SUBSET Items,
            todo : Seq(Items), read : {"none", "waiting", "active"},
            alone : BOOLEAN]

\* t is what is left of s.
Suffix(t, s) == /\ Len(t) <= Len(s)
                /\ \A n \in 1 .. Len(t) : t[n] = s[Len(s) - Len(t) + n]

ItemPcs == {"hsetnx", "enqueueTx", "cleanup", "lookup", "removeTx", "lookupActive",
            "readActive", "setActive"}
SyncPcs == {"syncScan", "dropTx", "syncItem", "updateTx"}

\* What the locals of a call hold at its steps: the sync walks down the column
\* it chose, of a board that was fetched.
Local(r) ==
    /\ r.pc \in ItemPcs => r.item \in Items
    /\ r.pc \in {"hsetnx", "enqueueTx"} => r.pos < Cardinality(Items)
    /\ r.pc \in SyncPcs \cup {"scan"} => r.snap \in Boards
    /\ r.pc \in SyncPcs => r.col \in Columns
    /\ r.pc \in SyncPcs \ {"syncScan"} => Suffix(r.todo, r.snap[r.col])
    /\ r.pc = "updateTx" => r.todo # <<>> /\ r.read # "none"

TypeInv ==
    /\ board \in Boards
    /\ zset \in [Items -> (0 .. Cardinality(Items) - 1) \cup {Absent}]
    /\ meta \in [Items -> {"none", "waiting", "active"}]
    /\ index \subseteq Items
    /\ orphans \subseteq Items
    /\ call \in [Callers -> {Idle} \cup CallRec]
    /\ \A c \in Callers : Local(call[c])
    /\ moves \in 0 .. MaxMoves /\ cuts \in 0 .. MaxCuts

\* The synced column is in order: its first n cards are queued, each with its
\* place as score.
InPlace(s, n) == \A k \in 1 .. n : zset[s[k]] = k - 1

\* A call that ran alone from its beginning: nobody else is in a call, the
\* board is the one it fetched, and the queue is what the call has made of it.
Undisturbed(c) ==
    LET r == call[c]
        column == r.snap[r.col]
    IN  /\ \A d \in Callers \ {c} : call[d] = Idle
        /\ r.pc \in {"scan", "range", "pick", "answer"} \cup SyncPcs => r.snap = board
        /\ r.pc \in {"getBoard", "scan", "range", "pick"} \cup SyncPcs => r.item = NoItem
        /\ r.pc \in {"getBoard", "scan"} => r.col = NoItem
        /\ r.pc = "dropTx" => r.seen = Queued /\ r.todo = column
        /\ r.pc \in {"syncItem", "updateTx"} =>
              /\ Queued \subseteq ToSet(column)
              /\ r.seen \cap ToSet(column) \subseteq Queued
              /\ InPlace(column, Len(column) - Len(r.todo))
        /\ r.pc \in {"range", "pick", "answer"} =>
              \/ r.col = NoItem /\ Queued = {}
              \/ /\ r.col \in Columns
                 /\ Queued = ToSet(column)
                 /\ InPlace(column, Len(column))
        /\ r.pc = "pick" =>
              /\ ToSet(r.todo) \subseteq Queued
              /\ {i \in Queued : meta[i] = "waiting"} \subseteq ToSet(r.todo)
              /\ \A m, n \in 1 .. Len(r.todo) : m < n => zset[r.todo[m]] <= zset[r.todo[n]]
        /\ r.pc = "answer" =>
              IF r.item = NoItem THEN \A i \in Queued : meta[i] # "waiting"
              ELSE /\ r.item \in Queued
                   /\ \A i \in Queued : meta[i] = "waiting" => zset[r.item] <= zset[i]

Alone(c) == call[c] # Idle /\ call[c].alone
AloneInv == \A c \in Callers : Alone(c) => Undisturbed(c)
-----------------------------------------------------------------------------
(* Boards and sequences *)

LEMMA ItemsFinite ==
  /\ Cardinality(Items) \in Nat
  /\ \A S \in SUBSET Items : /\ Cardinality(S) \in Nat
                             /\ Cardinality(S) <= Cardinality(Items)
  BY QueueAssumption, FS_Subset, FS_CardinalityType

\* A column is a sequence of items, no longer than there are items, that has
\* every item at most once.
LEMMA ArrangementIsSeq ==
  ASSUME NEW s \in Arrangements
  PROVE  /\ s \in Seq(Items)
         /\ Len(s) <= Cardinality(Items)
         /\ \A m, n \in 1 .. Len(s) : s[m] = s[n] => m = n
<1>1. PICK S \in SUBSET Items : s \in SetToSeqs(S)
  BY DEF Arrangements
<1>2. s \in [1 .. Cardinality(S) -> S]
  BY <1>1 DEF SetToSeqs
<1>3. Cardinality(S) \in Nat /\ Cardinality(S) <= Cardinality(Items)
  BY ItemsFinite
<1>4. s \in Seq(S) /\ Len(s) = Cardinality(S)
  BY <1>2, <1>3, IsASeq, LenProperties
<1>5. s \in Seq(Items)
  BY <1>4, SeqMonotonic
<1> QED
  BY <1>1, <1>3, <1>4, <1>5 DEF SetToSeqs

LEMMA ColumnOfBoard ==
  ASSUME NEW b \in Boards, NEW c \in Columns
  PROVE  b[c] \in Arrangements
  BY DEF Boards, Arrangements

\* The place of an item that is in the sequence.
LEMMA PositionOf ==
  ASSUME NEW s \in Seq(Items), NEW i \in ToSet(s)
  PROVE  /\ Position(s, i) \in 0 .. Len(s) - 1
         /\ s[Position(s, i) + 1] = i
<1>1. \E n \in 1 .. Len(s) : s[n] = i
  BY DEF ToSet
<1>2. (CHOOSE n \in 1 .. Len(s) : s[n] = i) \in 1 .. Len(s)
      /\ s[CHOOSE n \in 1 .. Len(s) : s[n] = i] = i
  BY <1>1
<1> QED
  BY <1>2 DEF Position

\* Walking down a column: the rest of a suffix is a suffix, and its head is
\* the card at the next place.
LEMMA SuffixTail ==
  ASSUME NEW s \in Seq(Items), NEW t \in Seq(Items), Suffix(t, s), t # <<>>
  PROVE  /\ Tail(t) \in Seq(Items)
         /\ Len(Tail(t)) = Len(t) - 1
         /\ Suffix(Tail(t), s)
         /\ Len(s) - Len(t) + 1 \in 1 .. Len(s)
         /\ Head(t) = s[Len(s) - Len(t) + 1]
         /\ Head(t) \in Items
<1>1. /\ Len(t) \in Nat \ {0} /\ Tail(t) \in Seq(Items)
      /\ Len(Tail(t)) = Len(t) - 1
      /\ \A n \in 1 .. Len(t) - 1 : Tail(t)[n] = t[n + 1]
      /\ Head(t) = t[1] /\ Head(t) \in Items
  BY HeadTailProperties, EmptySeq, LenProperties
<1>2. Len(s) \in Nat /\ Len(t) <= Len(s)
  BY LenProperties DEF Suffix
<1>3. \A n \in 1 .. Len(t) : t[n] = s[Len(s) - Len(t) + n]
  BY DEF Suffix
<1>4. Suffix(Tail(t), s)
  BY <1>1, <1>2, <1>3 DEF Suffix
<1> QED
  BY <1>1, <1>2, <1>3, <1>4

LEMMA WholeIsSuffix ==
  ASSUME NEW s \in Seq(Items)
  PROVE  Suffix(s, s)
  BY LenProperties DEF Suffix

-----------------------------------------------------------------------------
(* Calls *)

\* The types of a call's locals, one by one.
LEMMA CallFields ==
  ASSUME NEW r \in CallRec
  PROVE  /\ r.pc \in Pcs /\ r.pc # "idle" /\ r # Idle
         /\ r.item \in Items \cup {NoItem}
         /\ r.pos \in Nat
         /\ r.snap \in [Columns -> Arrangements \cup {<<>>}]
         /\ r.col \in Columns \cup {NoItem}
         /\ r.seen \subseteq Items
         /\ r.todo \in Seq(Items)
         /\ r.read \in {"none", "waiting", "active"}
         /\ r.alone \in BOOLEAN
<1>1. r.pc \in Pcs /\ r.pc # "idle"
  BY DEF CallRec, Pcs
<1>2. r # Idle
  BY <1>1 DEF Idle
<1> QED
  BY <1>1, <1>2 DEF CallRec

LEMMA IdleLocal == Local(Idle)
  BY DEF Local, Idle, ItemPcs, SyncPcs

\* What an action may assume of the caller it moves.
LEMMA InCall ==
  ASSUME TypeInv, NEW c \in Callers, call[c].pc # "idle"
  PROVE  call[c] \in CallRec /\ Local(call[c])
  BY DEF TypeInv, Idle

LEMMA NotInCall ==
  ASSUME TypeInv, NEW c \in Callers, call[c].pc = "idle"
  PROVE  call[c] = Idle
  BY CallFields DEF TypeInv

\* A step of one caller leaves the others' calls as they are.
LEMMA OneCallMoves ==
  ASSUME TypeInv, NEW c \in Callers, NEW r \in {Idle} \cup CallRec, Local(r),
         call' = [call EXCEPT ![c] = r]
  PROVE  /\ call' \in [Callers -> {Idle} \cup CallRec]
         /\ \A d \in Callers : Local(call'[d])
         /\ call'[c] = r /\ \A d \in Callers \ {c} : call'[d] = call[d]
  BY DEF TypeInv

\* What is forgotten after the sync is nothing the rest of the call relies on.
LEMMA SettledCall ==
  ASSUME NEW r \in CallRec, Local(r)
  PROVE  /\ Settled(r) \in CallRec /\ Local(Settled(r))
         /\ r.alone => Settled(r) = r
         /\ Settled(r).alone = r.alone
         /\ Settled(r).pc = r.pc /\ Settled(r).item = r.item
         /\ Settled(r).todo = r.todo
<1>1. CASE Settled(r) = r
  BY <1>1
<1>2. CASE /\ ~r.alone /\ r.pc \in {"range", "pick", "answer"}
           /\ Settled(r) = [r EXCEPT !.snap = Blank.snap, !.col = NoItem]
  <2>1. Blank.snap \in [Columns -> Arrangements \cup {<<>>}]
    BY DEF Blank
  <2>2. Settled(r) \in CallRec
    BY <1>2, <2>1 DEF CallRec
  <2>3. /\ Settled(r).pc = r.pc /\ Settled(r).item = r.item
        /\ Settled(r).todo = r.todo /\ Settled(r).alone = r.alone
    BY <1>2 DEF CallRec
  <2> QED
    BY <1>2, <2>2, <2>3 DEF Local, ItemPcs, SyncPcs
<1> QED
  BY <1>1, <1>2 DEF Settled

\* Disturbing calls ends their being alone and nothing else they rely on.
LEMMA DisturbedCalls ==
  ASSUME TypeInv
  PROVE  /\ Disturb(call) \in [Callers -> {Idle} \cup CallRec]
         /\ \A c \in Callers :
              /\ Local(Disturb(call)[c])
              /\ call[c] = Idle => Disturb(call)[c] = Idle
              /\ call[c] # Idle => /\ Disturb(call)[c] \in CallRec
                                   /\ ~Disturb(call)[c].alone
              /\ Disturb(call)[c].pc = call[c].pc
              /\ call[c] # Idle => /\ Disturb(call)[c].item = call[c].item
                                   /\ Disturb(call)[c].todo = call[c].todo
<1> SUFFICES ASSUME NEW c \in Callers
             PROVE  /\ Disturb(call)[c] \in {Idle} \cup CallRec
                    /\ Local(Disturb(call)[c])
                    /\ call[c] = Idle => Disturb(call)[c] = Idle
                    /\ call[c] # Idle => /\ Disturb(call)[c] \in CallRec
                                         /\ ~Disturb(call)[c].alone
                    /\ Disturb(call)[c].pc = call[c].pc
                    /\ call[c] # Idle => /\ Disturb(call)[c].item = call[c].item
                                         /\ Disturb(call)[c].todo = call[c].todo
  BY DEF Disturb
<1>1. CASE call[c] = Idle
  BY <1>1, IdleLocal DEF Disturb, Idle
<1>2. CASE call[c] # Idle
  <2> DEFINE r == [call[c] EXCEPT !.alone = FALSE]
  <2>1. call[c] \in CallRec /\ Local(call[c]) /\ call[c].pc # "idle"
    BY <1>2, CallFields DEF TypeInv
  <2>2. /\ r \in CallRec /\ ~r.alone
        /\ r.pc = call[c].pc /\ r.item = call[c].item /\ r.todo = call[c].todo
        /\ r.snap = call[c].snap /\ r.col = call[c].col /\ r.pos = call[c].pos
        /\ r.read = call[c].read
    BY <2>1 DEF CallRec
  <2>3. Local(r)
    BY <2>1, <2>2 DEF Local
  <2>4. Disturb(call)[c] = Settled(r)
    BY <2>1 DEF Disturb
  <2> HIDE DEF r
  <2> QED
    BY <1>2, <2>2, <2>3, <2>4, SettledCall
<1> QED
  BY <1>1, <1>2

-----------------------------------------------------------------------------
(* Type correctness *)

LEMMA InitType == Init => TypeInv
<1> SUFFICES ASSUME Init PROVE TypeInv
  OBVIOUS
<1>1. board \in Boards
  BY DEF Init
<1>2. call \in [Callers -> {Idle} \cup CallRec] /\ \A c \in Callers : Local(call[c])
  BY IdleLocal DEF Init
<1>3. MaxMoves \in Nat /\ MaxCuts \in Nat
  BY QueueAssumption
<1> QED
  BY <1>1, <1>2, <1>3 DEF Init, TypeInv

\* A caller begins a call.
LEMMA BeginType ==
  ASSUME TypeInv, NEW c \in Callers, NEW pc \in Pcs, NEW i \in Items \cup {NoItem},
         NEW pos \in Nat, Begin(c, pc, i, pos),
         Local([Blank EXCEPT !.pc = pc, !.item = i, !.pos = pos,
                             !.alone = \A d \in Callers : At(d, "idle")])
  PROVE  TypeInv'
<1> DEFINE quiet == \A d \in Callers : At(d, "idle")
           r == [Blank EXCEPT !.pc = pc, !.item = i, !.pos = pos, !.alone = quiet]
<1>1. call' = [Disturb(call) EXCEPT ![c] = r]
  BY DEF Begin
<1>2. quiet \in BOOLEAN
  BY DEF At
<1> HIDE DEF quiet
<1>3. r \in CallRec
  <2> DEFINE AnyRec == [pc : Pcs \cup {"idle"}, item : Items \cup {NoItem}, pos : Nat,
                        snap : [Columns -> Arrangements \cup {<<>>}],
                        col : Columns \cup {NoItem}, seen : SUBSET Items,
                        todo : Seq(Items), read : {"none", "waiting", "active"},
                        alone : BOOLEAN]
  <2>1. [k \in Columns |-> <<>>] \in [Columns -> Arrangements \cup {<<>>}]
        /\ <<>> \in Seq(Items)
    OBVIOUS
  <2>2. Blank \in AnyRec
    BY <2>1 DEF Blank
  <2> QED
    BY <1>2, <2>2 DEF CallRec
<1> HIDE DEF r
<1>4. call' \in [Callers -> {Idle} \cup CallRec] /\ \A d \in Callers : Local(call'[d])
  BY <1>1, <1>3, DisturbedCalls DEF r, quiet
<1> QED
  BY <1>4 DEF TypeInv, Begin, redis, bounds

\* What the transactions write has its type.
LEMMA WriteType ==
  ASSUME TypeInv, NEW i \in Items, NEW pos \in 0 .. Cardinality(Items) - 1,
         NEW status \in {"waiting", "active"}, Write(i, pos, status)
  PROVE  /\ zset' \in [Items -> (0 .. Cardinality(Items) - 1) \cup {Absent}]
         /\ meta' \in [Items -> {"none", "waiting", "active"}]
         /\ zset'[i] = pos /\ meta'[i] = status
         /\ \A j \in Items \ {i} : zset'[j] = zset[j] /\ meta'[j] = meta[j]
  BY DEF TypeInv, Write

LEMMA ForgetType ==
  ASSUME TypeInv, NEW items, Forget(items)
  PROVE  /\ zset' \in [Items -> (0 .. Cardinality(Items) - 1) \cup {Absent}]
         /\ meta' \in [Items -> {"none", "waiting", "active"}]
         /\ index' = index \ items
         /\ \A j \in Items : IF j \in items THEN zset'[j] = Absent /\ meta'[j] = "none"
                             ELSE zset'[j] = zset[j] /\ meta'[j] = meta[j]
  BY DEF TypeInv, Forget

\* A step of a caller that goes on at pc.
LEMMA GotoType ==
  ASSUME TypeInv, NEW c \in Callers, call[c].pc # "idle", NEW pc \in Pcs, Goto(c, pc),
         Local([call[c] EXCEPT !.pc = pc])
  PROVE  /\ call' \in [Callers -> {Idle} \cup CallRec]
         /\ \A d \in Callers : Local(call'[d])
<1>1. call[c] \in CallRec
  BY InCall
<1>2. [call[c] EXCEPT !.pc = pc] \in CallRec
  BY <1>1 DEF CallRec
<1>3. call' = [call EXCEPT ![c] = [call[c] EXCEPT !.pc = pc]]
  BY DEF Goto, TypeInv
<1> QED
  BY <1>2, <1>3, OneCallMoves

LEMMA ReturnType ==
  ASSUME TypeInv, NEW c \in Callers, Return(c)
  PROVE  /\ call' \in [Callers -> {Idle} \cup CallRec]
         /\ \A d \in Callers : Local(call'[d])
  BY OneCallMoves, IdleLocal DEF Return

\* What a sync step knows of the column it walks down.
LEMMA SyncColumn ==
  ASSUME TypeInv, NEW c \in Callers, call[c].pc \in SyncPcs
  PROVE  /\ call[c] \in CallRec /\ Local(call[c])
         /\ call[c].snap[call[c].col] \in Arrangements
         /\ call[c].snap[call[c].col] \in Seq(Items)
         /\ Len(call[c].snap[call[c].col]) <= Cardinality(Items)
         /\ call[c].pc # "syncScan" =>
              Suffix(call[c].todo, call[c].snap[call[c].col])
         /\ call[c].pc # "syncScan" /\ call[c].todo # <<>> =>
              /\ Next1(c) \in Items
              /\ NewScore(c) \in 0 .. Cardinality(Items) - 1
              /\ NewScore(c) + 1 \in 1 .. Len(call[c].snap[call[c].col])
              /\ Next1(c) = call[c].snap[call[c].col][NewScore(c) + 1]
              /\ Tail(call[c].todo) \in Seq(Items)
              /\ Len(Tail(call[c].todo)) = Len(call[c].todo) - 1
              /\ Suffix(Tail(call[c].todo), call[c].snap[call[c].col])
<1> DEFINE r == call[c]
           column == r.snap[r.col]
<1>1. r.pc # "idle"
  BY DEF SyncPcs
<1>2. r \in CallRec /\ Local(r)
  BY <1>1, InCall
<1>3. r.snap \in Boards /\ r.col \in Columns
  BY <1>2 DEF Local
<1>4. /\ column \in Arrangements
      /\ column \in Seq(Items) /\ Len(column) <= Cardinality(Items)
  BY <1>3, ColumnOfBoard, ArrangementIsSeq
<1>5. r.pc # "syncScan" => Suffix(r.todo, column)
  BY <1>2 DEF Local
<1>6. r.todo \in Seq(Items)
  BY <1>2, CallFields
<1>7. ASSUME r.pc # "syncScan", r.todo # <<>>
      PROVE  /\ Next1(c) \in Items
             /\ NewScore(c) \in 0 .. Cardinality(Items) - 1
             /\ NewScore(c) + 1 \in 1 .. Len(column)
             /\ Next1(c) = column[NewScore(c) + 1]
             /\ Tail(r.todo) \in Seq(Items)
             /\ Len(Tail(r.todo)) = Len(r.todo) - 1
             /\ Suffix(Tail(r.todo), column)
  <2> HIDE DEF column
  <2>1. /\ Tail(r.todo) \in Seq(Items)
        /\ Len(Tail(r.todo)) = Len(r.todo) - 1
        /\ Suffix(Tail(r.todo), column)
        /\ Len(column) - Len(r.todo) + 1 \in 1 .. Len(column)
        /\ Head(r.todo) = column[Len(column) - Len(r.todo) + 1]
        /\ Head(r.todo) \in Items
    BY <1>4, <1>5, <1>6, <1>7, SuffixTail
  <2>2. NewScore(c) = Len(column) - Len(r.todo)
    BY DEF NewScore, column
  <2>3. Len(column) \in Nat /\ Len(r.todo) \in Nat
    BY <1>4, <1>6, LenProperties
  <2>4. Len(column) - Len(r.todo) \in 0 .. Cardinality(Items) - 1
    BY <1>4, <2>1, <2>3, ItemsFinite
  <2> QED
    BY <2>1, <2>2, <2>4 DEF Next1
<1> QED
  BY <1>2, <1>4, <1>5, <1>7

\* The steps of enqueue_item, remove_from_queue and mark_item_active.
LEMMA ItemStepsType ==
  ASSUME TypeInv, NEW c \in Callers,
         \/ HSetNx(c) \/ EnqueueTx(c) \/ Cleanup(c) \/ Lookup(c) \/ RemoveTx(c)
         \/ LookupActive(c) \/ ReadActive(c) \/ SetActive(c)
  PROVE  TypeInv'
<1> DEFINE r == call[c]
           CallsOK == /\ call' \in [Callers -> {Idle} \cup CallRec]
                      /\ \A d \in Callers : Local(call'[d])
<1>1. r.pc \in ItemPcs
  BY DEF ItemPcs, At, HSetNx, EnqueueTx, Cleanup, Lookup, RemoveTx, LookupActive,
         ReadActive, SetActive
<1>2. r.pc # "idle"
  BY <1>1 DEF ItemPcs
<1>3. r \in CallRec /\ Local(r)
  BY <1>2, InCall
<1>4. r.item \in Items /\ r.pos \in Nat
  BY <1>1, <1>3 DEF Local, CallRec
<1>5. r.pc \in {"hsetnx", "enqueueTx"} => r.pos \in 0 .. Cardinality(Items) - 1
  BY <1>3, <1>4, ItemsFinite DEF Local
<1>6. \A pc \in ItemPcs : (pc \in {"hsetnx", "enqueueTx"} => r.pc = "hsetnx")
                           => Local([r EXCEPT !.pc = pc])
  BY <1>3, <1>4, <1>5, ItemsFinite DEF CallRec, Local, ItemPcs, SyncPcs
<1>7. ASSUME NEW pc \in ItemPcs, pc \in {"hsetnx", "enqueueTx"} => r.pc = "hsetnx",
             Goto(c, pc)
      PROVE  CallsOK
  BY <1>2, <1>6, <1>7, GotoType DEF ItemPcs, Pcs
<1>8. ASSUME Return(c) PROVE CallsOK
  BY <1>8, ReturnType
<1> HIDE DEF CallsOK, r
<1>9. CASE HSetNx(c)
  <2>1. CallsOK
    BY <1>7, <1>8, <1>9 DEF HSetNx, At, ItemPcs, r
  <2> QED BY <1>4, <1>9, <2>1 DEF TypeInv, HSetNx, CallsOK, bounds, r
<1>10. CASE EnqueueTx(c)
  <2>1. CallsOK /\ Write(r.item, r.pos, "waiting")
    BY <1>8, <1>10 DEF EnqueueTx, r
  <2>2. r.pos \in 0 .. Cardinality(Items) - 1
    BY <1>5, <1>10 DEF EnqueueTx, At, r
  <2>3. /\ zset' \in [Items -> (0 .. Cardinality(Items) - 1) \cup {Absent}]
        /\ meta' \in [Items -> {"none", "waiting", "active"}]
    BY <1>4, <2>1, <2>2, WriteType
  <2> QED BY <1>10, <2>1, <2>3 DEF TypeInv, EnqueueTx, CallsOK, bounds
<1>11. CASE Cleanup(c)
  BY <1>8, <1>11 DEF TypeInv, Cleanup, CallsOK, bounds
<1>12. CASE Lookup(c) \/ LookupActive(c) \/ ReadActive(c)
  <2>1. CallsOK
    BY <1>7, <1>8, <1>12 DEF Lookup, LookupActive, ReadActive, ItemPcs
  <2> QED
    BY <1>12, <2>1 DEF TypeInv, Lookup, LookupActive, ReadActive, CallsOK, redis, bounds
<1>13. CASE RemoveTx(c)
  <2>1. Forget({r.item}) /\ CallsOK
    BY <1>8, <1>13 DEF RemoveTx, r
  <2>2. /\ zset' \in [Items -> (0 .. Cardinality(Items) - 1) \cup {Absent}]
        /\ meta' \in [Items -> {"none", "waiting", "active"}]
        /\ index' = index \ {r.item}
    BY <2>1, ForgetType
  <2> QED BY <1>13, <2>1, <2>2 DEF TypeInv, RemoveTx, CallsOK, bounds
<1>14. CASE SetActive(c)
  BY <1>8, <1>14 DEF TypeInv, SetActive, CallsOK, bounds
<1> QED
  BY <1>9, <1>10, <1>11, <1>12, <1>13, <1>14

\* The steps of get_next_waiting_item up to the end of the sync.
LEMMA SyncStepsType ==
  ASSUME TypeInv, NEW c \in Callers,
         \/ GetBoard(c) \/ Scan(c) \/ SyncScan(c) \/ DropTx(c)
         \/ SyncRead(c) \/ UpdateTx(c) \/ AddTx(c) \/ Synced(c)
  PROVE  TypeInv'
<1> DEFINE r == call[c]
           column == r.snap[r.col]
           StoreOK == /\ zset' \in [Items -> (0 .. Cardinality(Items) - 1) \cup {Absent}]
                      /\ meta' \in [Items -> {"none", "waiting", "active"}]
                      /\ index' \subseteq Items
<1>1. /\ r.pc # "idle" /\ r \in CallRec /\ Local(r)
      /\ r.pc \in SyncPcs \/ r.pc \in {"getBoard", "scan"}
  <2>1. r.pc # "idle" /\ (r.pc \in SyncPcs \/ r.pc \in {"getBoard", "scan"})
    BY DEF GetBoard, Scan, SyncScan, DropTx, SyncRead, UpdateTx, AddTx, Synced,
           Syncing, At, SyncPcs
  <2> QED BY <2>1, InCall
<1>2. ASSUME NEW n \in CallRec, Local(n), call' = [call EXCEPT ![c] = n], StoreOK,
             UNCHANGED <<board, orphans, bounds>>
      PROVE  TypeInv'
  BY <1>2, OneCallMoves DEF TypeInv, bounds
<1>3. UNCHANGED redis => StoreOK
  BY DEF TypeInv, redis
<1> HIDE DEF StoreOK
<1>4. CASE GetBoard(c)
  <2> DEFINE n == [r EXCEPT !.snap = board, !.pc = "scan"]
  <2>1. board \in [Columns -> Arrangements \cup {<<>>}]
    <3>1. board \in Boards
      BY DEF TypeInv
    <3>2. \A k \in Columns : board[k] \in Arrangements
      BY <3>1, ColumnOfBoard
    <3> QED BY <3>1, <3>2 DEF Boards
  <2>2. n \in CallRec /\ Local(n)
    BY <1>1, <2>1 DEF CallRec, Local, TypeInv, Pcs, ItemPcs, SyncPcs
  <2>3. call' = [call EXCEPT ![c] = n]
    BY <1>4 DEF GetBoard
  <2> HIDE DEF n
  <2> QED BY <1>2, <1>3, <1>4, <2>2, <2>3 DEF GetBoard
<1>5. CASE Scan(c)
  <2>1. ASSUME NEW k \in DOMAIN ColumnOrder,
               call' = [call EXCEPT ![c].col = ColumnOrder[k], ![c].pc = "syncScan"]
        PROVE  TypeInv'
    <3> DEFINE n == [r EXCEPT !.col = ColumnOrder[k], !.pc = "syncScan"]
    <3>1. ColumnOrder[k] \in Columns
      BY DEF Columns, ToSet
    <3>2. n \in CallRec /\ Local(n)
      BY <1>1, <1>5, <3>1 DEF Scan, At, CallRec, Local, Pcs, ItemPcs, SyncPcs
    <3>3. call' = [call EXCEPT ![c] = n]
      BY <2>1 DEF TypeInv
    <3> HIDE DEF n
    <3> QED BY <1>2, <1>3, <1>5, <3>2, <3>3 DEF Scan
  <2>2. ASSUME call' = [call EXCEPT ![c] = Settled([@ EXCEPT !.pc = "range"])]
        PROVE  TypeInv'
    <3> DEFINE n == [r EXCEPT !.pc = "range"]
    <3>1. n \in CallRec /\ Local(n)
      BY <1>1 DEF CallRec, Local, Pcs, ItemPcs, SyncPcs
    <3>2. call' = [call EXCEPT ![c] = Settled(n)]
      BY <2>2
    <3> HIDE DEF n
    <3>3. Settled(n) \in CallRec /\ Local(Settled(n))
      BY <3>1, SettledCall
    <3> QED BY <1>2, <1>3, <1>5, <3>2, <3>3 DEF Scan
  <2> QED BY <1>5, <2>1, <2>2 DEF Scan
<1>6. CASE SyncScan(c)
  <2> DEFINE n == [r EXCEPT !.seen = Queued, !.todo = column,
                            !.pc = IF Queued \subseteq ToSet(column)
                                   THEN "syncItem" ELSE "dropTx"]
  <2>1. r.pc \in SyncPcs
    BY <1>6 DEF SyncScan, At, SyncPcs
  <2>2. column \in Seq(Items) /\ Suffix(column, column)
    BY <2>1, SyncColumn, WholeIsSuffix
  <2>3. Queued \subseteq Items
    BY DEF Queued
  <2>4. n \in CallRec
    BY <1>1, <2>2, <2>3 DEF CallRec, Pcs
  <2>5. n.pc \in {"syncItem", "dropTx"} /\ n.snap = r.snap /\ n.col = r.col
        /\ n.todo = column
    BY <1>1 DEF CallRec
  <2>6. Local(n)
    BY <1>1, <2>1, <2>2, <2>5 DEF Local, ItemPcs, SyncPcs
  <2>7. call' = [call EXCEPT ![c] = n]
    BY <1>6 DEF SyncScan, TypeInv
  <2> HIDE DEF n
  <2> QED BY <1>2, <1>3, <1>6, <2>4, <2>6, <2>7 DEF SyncScan
<1>7. CASE DropTx(c)
  <2>1. Forget(r.seen \ ToSet(column)) /\ call' = [call EXCEPT ![c].pc = "syncItem"]
    BY <1>7 DEF DropTx, Goto
  <2>2. StoreOK
    BY <2>1, ForgetType DEF StoreOK, TypeInv
  <2> DEFINE n == [r EXCEPT !.pc = "syncItem"]
  <2>3. n \in CallRec /\ Local(n)
    BY <1>1, <1>7 DEF DropTx, At, CallRec, Local, Pcs, ItemPcs, SyncPcs
  <2>4. call' = [call EXCEPT ![c] = n]
    BY <2>1 DEF TypeInv
  <2> HIDE DEF n
  <2> QED BY <1>2, <1>7, <2>2, <2>3, <2>4 DEF DropTx
<1>8. CASE SyncRead(c) \/ AddTx(c) \/ UpdateTx(c)
  <2>1. /\ r.pc \in SyncPcs /\ r.pc # "syncScan" /\ r.todo # <<>>
        /\ r.pc \in {"syncItem", "updateTx"}
    BY <1>1, <1>8 DEF SyncRead, AddTx, UpdateTx, Syncing, At, SyncPcs, Local
  <2>2. /\ Next1(c) \in Items /\ NewScore(c) \in 0 .. Cardinality(Items) - 1
        /\ Tail(r.todo) \in Seq(Items) /\ Suffix(Tail(r.todo), column)
    BY <2>1, SyncColumn
  <2> DEFINE n == [r EXCEPT !.todo = Tail(@), !.pc = "syncItem"]
             m == [n EXCEPT !.read = "none"]
             u == [r EXCEPT !.read = meta[Next1(c)], !.pc = "updateTx"]
  <2>3. n \in CallRec /\ m \in CallRec
    BY <1>1, <2>2 DEF CallRec, Pcs
  <2>4. /\ n.pc = "syncItem" /\ n.todo = Tail(r.todo) /\ n.snap = r.snap /\ n.col = r.col
        /\ m.pc = "syncItem" /\ m.todo = Tail(r.todo) /\ m.snap = r.snap /\ m.col = r.col
    BY <1>1 DEF CallRec
  <2>5. Local(n) /\ Local(m)
    BY <1>1, <2>1, <2>2, <2>4 DEF Local, ItemPcs, SyncPcs
  <2>6. CASE SyncRead(c)
    <3>1. CASE meta[Next1(c)] = "none"
      <4>1. call' = [call EXCEPT ![c] = n]
        BY <2>6, <3>1 DEF SyncRead, Advance, TypeInv
      <4> HIDE DEF n
      <4> QED BY <1>2, <1>3, <2>3, <2>5, <2>6, <4>1 DEF SyncRead
    <3>2. CASE meta[Next1(c)] # "none"
      <4>1. meta[Next1(c)] \in {"waiting", "active"}
        BY <2>2, <3>2 DEF TypeInv
      <4>2. u \in CallRec
        BY <1>1, <4>1 DEF CallRec, Pcs
      <4>3. u.pc = "updateTx" /\ u.todo = r.todo /\ u.snap = r.snap /\ u.col = r.col
            /\ u.read = meta[Next1(c)]
        BY <1>1 DEF CallRec
      <4>4. Local(u)
        BY <1>1, <2>1, <3>2, <4>3 DEF Local, ItemPcs, SyncPcs
      <4>5. call' = [call EXCEPT ![c] = u]
        BY <2>6, <3>2 DEF SyncRead, TypeInv
      <4> HIDE DEF u
      <4> QED BY <1>2, <1>3, <2>6, <4>2, <4>4, <4>5 DEF SyncRead
    <3> QED BY <3>1, <3>2
  <2>7. CASE UpdateTx(c)
    <3>1. r.read \in {"waiting", "active"}
      BY <1>1, <2>7 DEF UpdateTx, At, Local, CallRec
    <3>2. Write(Next1(c), NewScore(c), r.read) /\ index' = index
      BY <2>7 DEF UpdateTx
    <3>3. StoreOK
      BY <2>2, <3>1, <3>2, WriteType DEF StoreOK, TypeInv
    <3>4. call' = [call EXCEPT ![c] = m]
      BY <2>7 DEF UpdateTx, TypeInv
    <3> HIDE DEF m
    <3> QED BY <1>2, <2>3, <2>5, <2>7, <3>3, <3>4 DEF UpdateTx
  <2>8. CASE AddTx(c)
    <3>1. Write(Next1(c), NewScore(c), "waiting") /\ index' = index \cup {Next1(c)}
      BY <2>8 DEF AddTx
    <3>2. StoreOK
      BY <2>2, <3>1, WriteType DEF StoreOK, TypeInv
    <3>3. call' = [call EXCEPT ![c] = n]
      BY <2>8 DEF AddTx, Advance, TypeInv
    <3> HIDE DEF n
    <3> QED BY <1>2, <2>3, <2>5, <2>8, <3>2, <3>3 DEF AddTx
  <2> QED BY <1>8, <2>6, <2>7, <2>8
<1>9. CASE Synced(c)
  <2> DEFINE n == [r EXCEPT !.pc = "range", !.seen = {}]
  <2>1. n \in CallRec /\ Local(n)
    BY <1>1 DEF CallRec, Local, Pcs, ItemPcs, SyncPcs
  <2>2. call' = [call EXCEPT ![c] = Settled(n)]
    BY <1>9 DEF Synced
  <2> HIDE DEF n
  <2>3. Settled(n) \in CallRec /\ Local(Settled(n))
    BY <2>1, SettledCall
  <2> QED BY <1>2, <1>3, <1>9, <2>2, <2>3 DEF Synced
<1> QED
  BY <1>4, <1>5, <1>6, <1>7, <1>8, <1>9

\* The steps of get_next_waiting_item after the sync.
LEMMA PickStepsType ==
  ASSUME TypeInv, NEW c \in Callers, ZRange(c) \/ Pick(c) \/ Answer(c)
  PROVE  TypeInv'
<1> DEFINE r == call[c]
<1>1. r.pc \in {"range", "pick", "answer"} /\ r \in CallRec
  <2>1. r.pc \in {"range", "pick", "answer"} /\ r.pc # "idle"
    BY DEF ZRange, Pick, Answer, At
  <2> QED BY <2>1, InCall
<1>2. ASSUME NEW n \in CallRec, n.pc \in {"pick", "answer"}, call' = [call EXCEPT ![c] = n],
             UNCHANGED <<board, redis, orphans, bounds>>
      PROVE  TypeInv'
  <2>1. Local(n)
    BY <1>2 DEF Local, ItemPcs, SyncPcs
  <2> QED BY <1>2, <2>1, OneCallMoves DEF TypeInv, redis, bounds
<1>3. CASE ZRange(c)
  <2>1. PICK s \in SetToSeqs(Queued) :
               call' = [call EXCEPT ![c].todo = s, ![c].pc = "pick"]
    BY <1>3 DEF ZRange
  <2>2. s \in Seq(Items)
    <3>1. Queued \in SUBSET Items
      BY DEF Queued
    <3>2. s \in Arrangements
      BY <2>1, <3>1 DEF Arrangements
    <3> QED BY <3>2, ArrangementIsSeq
  <2> DEFINE n == [r EXCEPT !.todo = s, !.pc = "pick"]
  <2>3. n \in CallRec /\ n.pc \in {"pick", "answer"}
    BY <1>1, <2>2 DEF CallRec, Pcs
  <2>4. call' = [call EXCEPT ![c] = n]
    BY <2>1 DEF TypeInv
  <2> HIDE DEF n
  <2> QED BY <1>2, <1>3, <2>3, <2>4 DEF ZRange
<1>4. CASE Pick(c)
  <2>1. r.todo # <<>> => Next1(c) \in Items /\ Tail(r.todo) \in Seq(Items)
    BY <1>1, CallFields, HeadTailProperties, EmptySeq DEF Next1
  <2>2. CASE r.todo = <<>>
    <3> DEFINE n == [r EXCEPT !.pc = "answer"]
    <3>1. n \in CallRec /\ n.pc \in {"pick", "answer"}
      BY <1>1 DEF CallRec, Pcs
    <3>2. call' = [call EXCEPT ![c] = n]
      BY <1>4, <2>2 DEF Pick, Goto, TypeInv
    <3> HIDE DEF n
    <3> QED BY <1>2, <1>4, <3>1, <3>2 DEF Pick
  <2>3. CASE r.todo # <<>> /\ meta[Next1(c)] = "waiting"
    <3> DEFINE n == [r EXCEPT !.item = Next1(c), !.pc = "answer"]
    <3>1. n \in CallRec /\ n.pc \in {"pick", "answer"}
      BY <1>1, <2>1, <2>3 DEF CallRec, Pcs
    <3>2. call' = [call EXCEPT ![c] = n]
      BY <1>4, <2>3 DEF Pick, TypeInv
    <3> HIDE DEF n
    <3> QED BY <1>2, <1>4, <3>1, <3>2 DEF Pick
  <2>4. CASE r.todo # <<>> /\ meta[Next1(c)] # "waiting"
    <3> DEFINE n == [r EXCEPT !.todo = Tail(@), !.pc = "pick"]
    <3>1. n \in CallRec /\ n.pc \in {"pick", "answer"}
      BY <1>1, <2>1, <2>4 DEF CallRec, Pcs
    <3>2. call' = [call EXCEPT ![c] = n]
      BY <1>4, <2>4 DEF Pick, Advance, TypeInv
    <3> HIDE DEF n
    <3> QED BY <1>2, <1>4, <3>1, <3>2 DEF Pick
  <2> QED BY <2>2, <2>3, <2>4
<1>5. CASE Answer(c)
  BY <1>5, ReturnType DEF Answer, TypeInv, redis, bounds
<1> QED
  BY <1>3, <1>4, <1>5

\* The beginnings of the calls.
LEMMA BeginStepsType ==
  ASSUME TypeInv, NEW c \in Callers,
         \/ GetNext(c)
         \/ \E i \in Items : Enqueue(c, i) \/ RemoveItem(c, i) \/ MarkActive(c, i)
  PROVE  TypeInv'
<1> DEFINE quiet == \A d \in Callers : At(d, "idle")
           New(pc, i, pos) == [Blank EXCEPT !.pc = pc, !.item = i, !.pos = pos,
                                            !.alone = quiet]
<1>1. \A pc, i, pos : /\ New(pc, i, pos).pc = pc /\ New(pc, i, pos).item = i
                      /\ New(pc, i, pos).pos = pos
  BY DEF Blank
<1> HIDE DEF New
<1>2. CASE GetNext(c)
  <2>1. Local(New("getBoard", NoItem, 0))
    BY <1>1 DEF Local, ItemPcs, SyncPcs
  <2> QED BY <1>2, <2>1, BeginType DEF GetNext, Pcs, New
<1>3. ASSUME NEW i \in Items, NEW pc \in {"lookup", "lookupActive"}, Begin(c, pc, i, 0)
      PROVE  TypeInv'
  <2>1. Local(New(pc, i, 0))
    BY <1>1, <1>3 DEF Local, ItemPcs, SyncPcs
  <2> QED BY <1>3, <2>1, BeginType DEF Pcs, New
<1>4. ASSUME NEW i \in Items, Enqueue(c, i)
      PROVE  TypeInv'
  <2> DEFINE pos == Position(board[Trigger], i)
  <2>1. board[Trigger] \in Seq(Items) /\ Len(board[Trigger]) <= Cardinality(Items)
    BY ColumnOfBoard, ArrangementIsSeq, QueueAssumption DEF TypeInv
  <2>2. pos \in 0 .. Len(board[Trigger]) - 1
    BY <1>4, <2>1, PositionOf DEF Enqueue
  <2>3. pos \in Nat /\ pos < Cardinality(Items)
    BY <2>1, <2>2, ItemsFinite, LenProperties
  <2> HIDE DEF pos
  <2>4. Local(New("hsetnx", i, pos))
    BY <1>1, <2>3 DEF Local, ItemPcs, SyncPcs
  <2> QED BY <1>4, <2>3, <2>4, BeginType DEF Enqueue, Pcs, New, pos
<1> QED
  BY <1>2, <1>3, <1>4 DEF RemoveItem, MarkActive

\* Failures and cancellations.
LEMMA FailureStepsType ==
  ASSUME TypeInv, NEW c \in Callers, SyncFails(c) \/ EnqueueTxFails(c) \/ Abandon(c)
  PROVE  TypeInv'
<1> DEFINE calls == Disturb(call)
<1>1. call[c].pc # "idle" /\ call[c] # Idle
  BY DEF SyncFails, EnqueueTxFails, Abandon, Syncing, At, Idle
<1>2. call[c] \in CallRec /\ Local(call[c])
  BY <1>1, InCall
<1>3. /\ calls \in [Callers -> {Idle} \cup CallRec]
      /\ \A d \in Callers : Local(calls[d])
      /\ calls[c] \in CallRec /\ calls[c].pc = call[c].pc
      /\ calls[c].todo = call[c].todo /\ calls[c].item = call[c].item
  BY <1>1, DisturbedCalls
<1> HIDE DEF calls
<1>4. ASSUME NEW n \in {Idle} \cup CallRec, Local(n), call' = [calls EXCEPT ![c] = n]
      PROVE  /\ call' \in [Callers -> {Idle} \cup CallRec]
             /\ \A d \in Callers : Local(call'[d])
  BY <1>3, <1>4
<1>5. cuts' \in 0 .. MaxCuts
  BY QueueAssumption DEF SyncFails, EnqueueTxFails, Abandon, Cut, TypeInv
<1>6. CASE SyncFails(c)
  <2> DEFINE n == [calls[c] EXCEPT
                     !.pc = IF call[c].pc \in {"getBoard", "scan", "syncScan"}
                              THEN "range" ELSE "syncItem",
                     !.todo = IF call[c].pc \in {"syncItem", "updateTx"}
                                THEN Tail(@) ELSE @,
                     !.read = "none"]
  <2>1. call' = [calls EXCEPT ![c] = n]
    BY <1>3, <1>6 DEF SyncFails, calls
  <2>2. CASE call[c].pc \in {"getBoard", "scan", "syncScan"}
    <3>1. n \in CallRec /\ n.pc = "range"
      BY <1>3, <2>2 DEF CallRec, Pcs
    <3>2. Local(n)
      BY <3>1 DEF Local, ItemPcs, SyncPcs
    <3> HIDE DEF n
    <3> QED BY <1>4, <1>5, <1>6, <2>1, <3>1, <3>2 DEF TypeInv, SyncFails, redis
  <2>3. CASE call[c].pc \in {"dropTx", "syncItem", "updateTx"}
    <3> DEFINE column == calls[c].snap[calls[c].col]
    <3>1. /\ calls[c].snap \in Boards /\ calls[c].col \in Columns
          /\ Suffix(calls[c].todo, column)
          /\ calls[c].todo \in Seq(Items) /\ column \in Seq(Items)
      <4>1. calls[c].snap \in Boards /\ calls[c].col \in Columns
        BY <1>3, <2>3 DEF Local, SyncPcs
      <4> QED
        BY <1>3, <2>3, <4>1, CallFields, ColumnOfBoard, ArrangementIsSeq
        DEF Local, SyncPcs
    <3>2. call[c].pc # "dropTx" => call[c].todo # <<>>
      BY <1>2, <1>6, <2>3 DEF SyncFails, Syncing, At, Local
    <3>3. \/ n.todo = calls[c].todo
          \/ n.todo = Tail(calls[c].todo) /\ call[c].todo # <<>>
      BY <1>3, <2>3, <3>2 DEF CallRec
    <3> HIDE DEF column
    <3>4. n.todo \in Seq(Items) /\ Suffix(n.todo, column)
      BY <1>3, <3>1, <3>3, SuffixTail
    <3>5. /\ n.pc = "syncItem" /\ n.snap = calls[c].snap /\ n.col = calls[c].col
          /\ n.item = calls[c].item /\ n.pos = calls[c].pos /\ n.seen = calls[c].seen
          /\ n.read = "none" /\ n.alone = calls[c].alone
          /\ n = [calls[c] EXCEPT !.pc = "syncItem", !.todo = n.todo, !.read = "none"]
      BY <1>3, <2>3 DEF CallRec
    <3> HIDE DEF n
    <3>6. n \in CallRec
      BY <1>3, <3>4, <3>5 DEF CallRec, Pcs
    <3>7. Local(n)
      BY <3>1, <3>4, <3>5 DEF Local, ItemPcs, SyncPcs, column
    <3> QED BY <1>4, <1>5, <1>6, <2>1, <3>6, <3>7 DEF TypeInv, SyncFails, redis
  <2> QED BY <1>6, <2>2, <2>3 DEF SyncFails, Syncing, At
<1>7. CASE EnqueueTxFails(c)
  <2>1. call[c].item \in Items /\ call[c].pos \in 0 .. Cardinality(Items) - 1
    BY <1>2, <1>7, ItemsFinite DEF EnqueueTxFails, At, Local, ItemPcs, CallRec
  <2>2. /\ zset' \in [Items -> (0 .. Cardinality(Items) - 1) \cup {Absent}]
        /\ meta' \in [Items -> {"none", "waiting", "active"}]
    BY <1>7, <2>1, WriteType DEF EnqueueTxFails, TypeInv
  <2> DEFINE n == [calls[c] EXCEPT !.pc = "cleanup"]
  <2>3. n \in CallRec
    BY <1>3 DEF CallRec, Pcs
  <2>4. n.pc = "cleanup" /\ n.item = call[c].item
    BY <1>3 DEF CallRec
  <2>5. Local(n)
    BY <2>1, <2>4 DEF Local, ItemPcs, SyncPcs
  <2>6. call' = [calls EXCEPT ![c] = n]
    BY <1>3, <1>7 DEF EnqueueTxFails, calls
  <2> HIDE DEF n
  <2> QED BY <1>4, <1>5, <1>7, <2>2, <2>3, <2>5, <2>6 DEF TypeInv, EnqueueTxFails
<1>8. CASE Abandon(c)
  <2>1. orphans' \subseteq Items
    BY <1>2, <1>8 DEF Abandon, TypeInv, At, Local, ItemPcs
  <2>2. call' = [calls EXCEPT ![c] = Idle]
    BY <1>8 DEF Abandon, calls
  <2> QED BY <1>4, <1>5, <1>8, <2>1, <2>2, IdleLocal DEF TypeInv, Abandon, redis
<1> QED
  BY <1>6, <1>7, <1>8

LEMMA NextType == TypeInv /\ [Next]_vars => TypeInv'
<1> SUFFICES ASSUME TypeInv, [Next]_vars
             PROVE  TypeInv'
  OBVIOUS
<1>1. ASSUME NEW c \in Callers, Step(c)
      PROVE  TypeInv'
  BY <1>1, ItemStepsType, SyncStepsType, PickStepsType DEF Step
<1>2. ASSUME NEW i \in Items, NEW to \in Columns, MoveCard(i, to)
      PROVE  TypeInv'
  <2>1. /\ call' \in [Callers -> {Idle} \cup CallRec]
        /\ \A c \in Callers : Local(call'[c])
    BY <1>2, DisturbedCalls DEF MoveCard
  <2>2. board' \in Boards /\ moves' \in 0 .. MaxMoves
    BY <1>2, QueueAssumption DEF MoveCard, TypeInv
  <2> QED BY <1>2, <2>1, <2>2 DEF TypeInv, MoveCard, redis
<1>3. CASE UNCHANGED vars
  BY <1>3 DEF TypeInv, vars
<1> QED
  BY <1>1, <1>2, <1>3, BeginStepsType, FailureStepsType DEF Next

LEMMA TypeInvImpliesTypeOK == TypeInv => TypeOK
<1> SUFFICES ASSUME TypeInv, NEW c \in Callers, call[c] # Idle
             PROVE  /\ call[c].pc \in Pcs
                    /\ call[c].item \in Items \cup {NoItem}
                    /\ call[c].col \in Columns \cup {NoItem}
                    /\ call[c].seen \subseteq Items
                    /\ ToSet(call[c].todo) \subseteq Items
  BY DEF TypeInv, TypeOK
<1>1. call[c] \in CallRec
  BY DEF TypeInv
<1>2. call[c].todo \in Seq(Items)
  BY <1>1, CallFields
<1>3. ToSet(call[c].todo) \subseteq Items
  BY <1>2, ElementOfSeq DEF ToSet
<1> QED
  BY <1>1, <1>3, CallFields

\* The state is well formed, whoever fails and however calls interleave: every
\* score is a position of the board, every call is at one of its steps.
THEOREM TypeCorrect == Spec => []TypeOK
  BY InitType, NextType, TypeInvImpliesTypeOK, PTL DEF Spec

-----------------------------------------------------------------------------
(* Entries, their metadata and the reverse index *)

\* What any step does to the three keys in Redis.
StoreChange ==
    \/ UNCHANGED redis
    \/ UNCHANGED <<zset, meta>>
    \/ \E i \in Items, pos \in 0 .. Cardinality(Items) - 1, status \in {"waiting", "active"} :
          Write(i, pos, status)
    \/ \E items : Forget(items)
    \/ \E i \in Items : meta' = [meta EXCEPT ![i] = "active"] /\ UNCHANGED zset

LEMMA EveryStoreChange ==
  ASSUME TypeInv, [Next]_vars
  PROVE  StoreChange
<1>1. ASSUME NEW c \in Callers, HSetNx(c) \/ Cleanup(c)
      PROVE  UNCHANGED <<zset, meta>>
  BY <1>1 DEF HSetNx, Cleanup
<1>2. ASSUME NEW c \in Callers, EnqueueTx(c) \/ EnqueueTxFails(c)
      PROVE  StoreChange
  <2>1. call[c].pc = "enqueueTx" /\ call[c].pc # "idle"
    BY <1>2 DEF EnqueueTx, EnqueueTxFails, At
  <2>2. call[c].item \in Items /\ call[c].pos \in 0 .. Cardinality(Items) - 1
    BY <2>1, InCall, CallFields, ItemsFinite DEF Local, ItemPcs
  <2> QED BY <1>2, <2>2 DEF EnqueueTx, EnqueueTxFails, StoreChange
<1>3. ASSUME NEW c \in Callers, UpdateTx(c) \/ AddTx(c)
      PROVE  StoreChange
  <2>1. call[c].pc \in {"updateTx", "syncItem"} /\ call[c].pc # "idle"
    BY <1>3 DEF UpdateTx, AddTx, Syncing, At
  <2>2. call[c] \in CallRec /\ Local(call[c])
    BY <2>1, InCall
  <2>3. call[c].todo # <<>> /\ (UpdateTx(c) => call[c].read \in {"waiting", "active"})
    BY <1>3, <2>2, CallFields DEF UpdateTx, AddTx, Syncing, At, Local
  <2>4. Next1(c) \in Items /\ NewScore(c) \in 0 .. Cardinality(Items) - 1
    BY <2>1, <2>3, SyncColumn DEF SyncPcs
  <2> QED BY <1>3, <2>3, <2>4 DEF UpdateTx, AddTx, StoreChange
<1>4. ASSUME NEW c \in Callers, RemoveTx(c) \/ DropTx(c)
      PROVE  StoreChange
  BY <1>4 DEF RemoveTx, DropTx, StoreChange
<1>5. ASSUME NEW c \in Callers, SetActive(c)
      PROVE  StoreChange
  <2>1. call[c].pc = "setActive" /\ call[c].pc # "idle"
    BY <1>5 DEF SetActive, At
  <2>2. call[c].item \in Items
    BY <2>1, InCall DEF Local, ItemPcs
  <2> QED BY <1>5, <2>2 DEF SetActive, StoreChange
<1>6. ASSUME NEW c \in Callers,
             \/ Lookup(c) \/ LookupActive(c) \/ ReadActive(c) \/ GetBoard(c) \/ Scan(c)
             \/ SyncScan(c) \/ SyncRead(c) \/ Synced(c) \/ ZRange(c) \/ Pick(c)
             \/ Answer(c) \/ SyncFails(c) \/ Abandon(c)
      PROVE  UNCHANGED redis
  BY <1>6 DEF Lookup, LookupActive, ReadActive, GetBoard, Scan, SyncScan, SyncRead,
              Synced, ZRange, Pick, Answer, SyncFails, Abandon
<1>7. ASSUME NEW c \in Callers,
             \/ GetNext(c)
             \/ \E i \in Items : Enqueue(c, i) \/ RemoveItem(c, i) \/ MarkActive(c, i)
      PROVE  UNCHANGED redis
  BY <1>7 DEF GetNext, Enqueue, RemoveItem, MarkActive, Begin
<1>8. ASSUME NEW i \in Items, NEW to \in Columns, MoveCard(i, to)
      PROVE  UNCHANGED redis
  BY <1>8 DEF MoveCard
<1>9. CASE UNCHANGED vars
  BY <1>9 DEF vars, redis, StoreChange
<1> QED
  BY <1>1, <1>2, <1>3, <1>4, <1>5, <1>6, <1>7, <1>8, <1>9 DEF Next, Step, StoreChange

LEMMA NextMetadata ==
  ASSUME TypeInv, EntryHasMetadata, StoreChange
  PROVE  EntryHasMetadata'
<1>1. CASE UNCHANGED <<zset, meta>>
  BY <1>1 DEF EntryHasMetadata, Queued
<1>2. ASSUME NEW i \in Items, NEW pos \in 0 .. Cardinality(Items) - 1,
             NEW status \in {"waiting", "active"}, Write(i, pos, status)
      PROVE  EntryHasMetadata'
  BY <1>2, WriteType DEF EntryHasMetadata, Queued
<1>3. ASSUME NEW items, Forget(items)
      PROVE  EntryHasMetadata'
  BY <1>3, ForgetType DEF EntryHasMetadata, Queued
<1>4. ASSUME NEW i \in Items, meta' = [meta EXCEPT ![i] = "active"], UNCHANGED zset
      PROVE  EntryHasMetadata'
  BY <1>4 DEF EntryHasMetadata, Queued, TypeInv
<1> QED
  BY <1>1, <1>2, <1>3, <1>4 DEF StoreChange, redis

\* Every entry of the sorted set has its metadata, whatever fails and however
\* calls interleave: the branches that skip an entry without metadata, and so
\* never grant it the lock, are not taken for an entry that stays.
THEOREM MetadataKept == Spec => []EntryHasMetadata
<1>1. Init => EntryHasMetadata
  BY DEF Init, EntryHasMetadata, Queued
<1>2. TypeInv /\ EntryHasMetadata /\ [Next]_vars => EntryHasMetadata'
  BY EveryStoreChange, NextMetadata
<1> QED
  BY <1>1, <1>2, InitType, NextType, PTL DEF Spec

\* The item an enqueue has indexed and not entered yet.
Entering(c, i) == /\ At(c, "enqueueTx") \/ At(c, "cleanup")
                  /\ call[c].item = i

\* A step that leaves index and sorted set alone keeps the index right if the
\* enqueues in progress go on, or are written down as orphans.
LEMMA IndexKept ==
  ASSUME TypeInv, NoOrphanIndex, UNCHANGED <<zset, index>>,
         orphans \subseteq orphans',
         \A c \in Callers, i \in Items : Entering(c, i) => Entering(c, i)' \/ i \in orphans'
  PROVE  NoOrphanIndex'
<1> SUFFICES ASSUME NEW i \in (index \ Queued)', i \notin orphans'
             PROVE  \E c \in Callers : Entering(c, i)'
  BY DEF NoOrphanIndex, Entering
<1>1. i \in index \ Queued /\ i \in Items /\ i \notin orphans
  BY DEF Queued, TypeInv
<1>2. PICK c \in Callers : Entering(c, i)
  BY <1>1 DEF NoOrphanIndex, Entering
<1> QED
  BY <1>1, <1>2

\* A step of one caller leaves the enqueues of the others in progress.
LEMMA OthersEnter ==
  ASSUME TypeInv, NEW c \in Callers, \A d \in Callers \ {c} : call'[d] = call[d],
         NEW d \in Callers \ {c}, NEW i, Entering(d, i)
  PROVE  Entering(d, i)'
  BY DEF Entering, At

LEMMA OthersStay ==
  ASSUME TypeInv, NEW c \in Callers, Step(c)
  PROVE  \A d \in Callers \ {c} : call'[d] = call[d]
  BY DEF TypeInv, Step, HSetNx, EnqueueTx, Cleanup, Lookup, RemoveTx, LookupActive,
         ReadActive, SetActive, GetBoard, Scan, SyncScan, DropTx, SyncRead, UpdateTx,
         AddTx, Synced, ZRange, Pick, Answer, Goto, Return, Advance

\* Disturbing calls leaves the enqueues in progress.
LEMMA DisturbedEnter ==
  ASSUME TypeInv, NEW d \in Callers, NEW i, Entering(d, i), call'[d] = Disturb(call)[d]
  PROVE  Entering(d, i)'
<1>1. call[d] # Idle
  BY DEF Entering, At, Idle
<1> QED
  BY <1>1, DisturbedCalls DEF Entering, At

LEMMA StepIndex ==
  ASSUME TypeInv, NoOrphanIndex, NEW c \in Callers, Step(c)
  PROVE  NoOrphanIndex'
<1>1. \A d \in Callers \ {c} : call'[d] = call[d]
  BY OthersStay
<1>2. orphans' = orphans
  BY DEF Step, HSetNx, EnqueueTx, Cleanup, Lookup, RemoveTx, LookupActive,
         ReadActive, SetActive, GetBoard, Scan, SyncScan, DropTx, SyncRead, UpdateTx,
         AddTx, Synced, ZRange, Pick, Answer
<1> DEFINE Kept(i) == i \in index \ Queued /\ ~Entering(c, i)
\* What has to be shown of the indexed items that are new or were c's own.
<1>3. ASSUME \A i \in (index \ Queued)' : Kept(i) \/ Entering(c, i)'
      PROVE  NoOrphanIndex'
  <2> SUFFICES ASSUME NEW i \in (index \ Queued)', i \notin orphans
               PROVE  \E d \in Callers : Entering(d, i)'
    BY <1>2 DEF NoOrphanIndex, Entering
  <2>1. CASE Kept(i)
    <3>1. PICK d \in Callers : Entering(d, i)
      BY <2>1 DEF NoOrphanIndex, Entering
    <3> QED BY <1>1, <2>1, <3>1, OthersEnter
  <2> QED BY <1>3, <2>1
<1>4. CASE HSetNx(c)
  <2>1. /\ index' = index \cup {call[c].item} /\ Queued' = Queued
        /\ call[c].pc = "hsetnx"
        /\ call[c].item \notin index => call' = [call EXCEPT ![c].pc = "enqueueTx"]
    BY <1>4 DEF HSetNx, Queued, At, Goto
  <2>2. call[c] \in CallRec
    BY <2>1, InCall
  <2>3. ASSUME call[c].item \notin index, NEW i, i = call[c].item
        PROVE  Entering(c, i)'
    BY <2>1, <2>2, <2>3 DEF Entering, At, CallRec, TypeInv
  <2>4. \A i : ~Entering(c, i)
    BY <2>1 DEF Entering, At
  <2> SUFFICES ASSUME NEW i \in (index \ Queued)'
               PROVE  Kept(i) \/ Entering(c, i)'
    BY <1>3
  <2>5. CASE i = call[c].item /\ i \notin index
    BY <2>3, <2>5
  <2>6. CASE i \in index
    BY <2>1, <2>4, <2>6
  <2> QED BY <2>1, <2>5, <2>6
<1>6. CASE EnqueueTx(c)
  <2>1. /\ call[c].pc = "enqueueTx" /\ call[c].pc # "idle"
        /\ Write(call[c].item, call[c].pos, "waiting") /\ index' = index
    BY <1>6 DEF EnqueueTx, At
  <2>2. call[c].item \in Items /\ call[c].pos \in 0 .. Cardinality(Items) - 1
    BY <2>1, InCall, CallFields, ItemsFinite DEF Local, ItemPcs
  <2>3. Queued' = Queued \cup {call[c].item}
    BY <2>1, <2>2, WriteType DEF Queued, Absent
  <2> QED BY <1>3, <2>1, <2>3 DEF Entering
<1>7. CASE Cleanup(c)
  BY <1>3, <1>7 DEF Cleanup, Queued, Entering
<1>8. CASE RemoveTx(c) \/ DropTx(c)
  <2>1. PICK items : Forget(items)
    BY <1>8 DEF RemoveTx, DropTx
  <2>2. index' = index \ items /\ Queued' = Queued \ items
    BY <2>1, ForgetType DEF Queued
  <2>3. \A i : ~Entering(c, i)
    BY <1>8 DEF RemoveTx, DropTx, Entering, At
  <2> QED BY <1>3, <2>2, <2>3
<1>9. CASE UpdateTx(c) \/ AddTx(c)
  <2>1. /\ call[c].pc \in {"updateTx", "syncItem"} /\ call[c].pc # "idle"
        /\ UpdateTx(c) => index' = index
        /\ AddTx(c) => index' = index \cup {Next1(c)}
        /\ \E status : Write(Next1(c), NewScore(c), status)
    BY <1>9 DEF UpdateTx, AddTx, Syncing, At
  <2>2. call[c].todo # <<>>
    BY <1>9, <2>1, InCall DEF UpdateTx, AddTx, Syncing, At, Local
  <2>3. Next1(c) \in Items /\ NewScore(c) \in 0 .. Cardinality(Items) - 1
    BY <2>1, <2>2, SyncColumn DEF SyncPcs
  <2>4. Queued' = Queued \cup {Next1(c)}
    BY <2>1, <2>3 DEF Queued, Write, Absent, TypeInv
  <2>5. \A i : ~Entering(c, i)
    BY <2>1 DEF Entering, At
  <2> QED BY <1>3, <1>9, <2>1, <2>4, <2>5
<1>10. CASE \/ Lookup(c) \/ LookupActive(c) \/ ReadActive(c) \/ SetActive(c)
            \/ GetBoard(c) \/ Scan(c) \/ SyncScan(c) \/ SyncRead(c) \/ Synced(c)
            \/ ZRange(c) \/ Pick(c) \/ Answer(c)
  <2>1. UNCHANGED <<zset, index>> /\ \A i : ~Entering(c, i)
    BY <1>10 DEF Lookup, LookupActive, ReadActive, SetActive, GetBoard, Scan, SyncScan,
                 SyncRead, Synced, ZRange, Pick, Answer, Syncing, redis, Entering, At
  <2>2. index' \ Queued' = index \ Queued
    BY <2>1 DEF Queued
  <2> QED BY <1>3, <2>1, <2>2
<1> QED
  BY <1>4, <1>6, <1>7, <1>8, <1>9, <1>10 DEF Step

LEMMA NextIndex ==
  ASSUME TypeInv, NoOrphanIndex, [Next]_vars
  PROVE  NoOrphanIndex'
<1>1. ASSUME NEW c \in Callers,
             \/ GetNext(c)
             \/ \E i \in Items : Enqueue(c, i) \/ RemoveItem(c, i) \/ MarkActive(c, i)
      PROVE  NoOrphanIndex'
  <2>1. /\ At(c, "idle") /\ UNCHANGED <<zset, index, orphans>>
        /\ \A d \in Callers \ {c} : call'[d] = Disturb(call)[d]
    BY <1>1, DisturbedCalls DEF GetNext, Enqueue, RemoveItem, MarkActive, Begin, redis
  <2>2. \A i : ~Entering(c, i)
    BY <2>1 DEF Entering, At
  <2> QED BY <2>1, <2>2, DisturbedEnter, IndexKept
<1>2. ASSUME NEW c \in Callers, SyncFails(c)
      PROVE  NoOrphanIndex'
  <2>1. /\ UNCHANGED <<zset, index, orphans>>
        /\ \A d \in Callers \ {c} : call'[d] = Disturb(call)[d]
        /\ ~At(c, "enqueueTx") /\ ~At(c, "cleanup")
    BY <1>2, DisturbedCalls DEF SyncFails, Syncing, At, redis
  <2>2. \A i : ~Entering(c, i)
    BY <2>1 DEF Entering
  <2> QED BY <2>1, <2>2, DisturbedEnter, IndexKept
<1>3. ASSUME NEW c \in Callers, EnqueueTxFails(c)
      PROVE  NoOrphanIndex'
  <2>1. /\ call[c].pc = "enqueueTx" /\ call[c].pc # "idle" /\ UNCHANGED <<index, orphans>>
        /\ call' = [Disturb(call) EXCEPT ![c].pc = "cleanup"]
        /\ Write(call[c].item, call[c].pos, "waiting") \/ UNCHANGED <<zset, meta>>
    BY <1>3 DEF EnqueueTxFails, At
  <2>2. call[c] \in CallRec /\ call[c] # Idle
    BY <2>1, InCall, CallFields
  <2>3. call[c].item \in Items /\ call[c].pos \in 0 .. Cardinality(Items) - 1
    BY <2>1, InCall, CallFields, ItemsFinite DEF Local, ItemPcs
  <2>4. Queued \subseteq Queued'
    BY <2>1, <2>3 DEF Queued, Write, Absent, TypeInv
  <2>5. call'[c].pc = "cleanup" /\ call'[c].item = call[c].item
    BY <2>1, <2>2, DisturbedCalls DEF CallRec
  <2>6. \A i : Entering(c, i) => Entering(c, i)'
    BY <2>5 DEF Entering, At
  <2>7. \A d \in Callers \ {c} : call'[d] = Disturb(call)[d]
    BY <2>1, DisturbedCalls
  <2>8. \A d \in Callers, i \in Items : Entering(d, i) => Entering(d, i)'
    BY <2>6, <2>7, DisturbedEnter
  <2> SUFFICES ASSUME NEW i \in (index \ Queued)', i \notin orphans
               PROVE  \E d \in Callers : Entering(d, i)'
    BY <2>1 DEF NoOrphanIndex, Entering
  <2>9. i \in index \ Queued /\ i \in Items
    BY <2>1, <2>4 DEF TypeInv
  <2>10. PICK d \in Callers : Entering(d, i)
    BY <2>9 DEF NoOrphanIndex, Entering
  <2> QED BY <2>8, <2>9, <2>10
<1>4. ASSUME NEW c \in Callers, Abandon(c)
      PROVE  NoOrphanIndex'
  <2>1. /\ UNCHANGED <<zset, index>> /\ orphans \subseteq orphans'
        /\ \A d \in Callers \ {c} : call'[d] = Disturb(call)[d]
        /\ \A i : Entering(c, i) => i \in orphans'
    BY <1>4, DisturbedCalls DEF Abandon, redis, Entering
  <2> QED BY <2>1, DisturbedEnter, IndexKept
<1>5. ASSUME NEW i \in Items, NEW to \in Columns, MoveCard(i, to)
      PROVE  NoOrphanIndex'
  <2>1. UNCHANGED <<zset, index, orphans>> /\ call' = Disturb(call)
    BY <1>5 DEF MoveCard, redis
  <2> QED BY <2>1, DisturbedEnter, IndexKept
<1>6. CASE UNCHANGED vars
  BY <1>6 DEF NoOrphanIndex, vars, Queued, At
<1> QED
  BY <1>1, <1>2, <1>3, <1>4, <1>5, <1>6, StepIndex DEF Next

\* An item is indexed without being queued only inside an enqueue, or after one
\* that nothing could clean up: no interleaving of other calls, no failed
\* transaction leaves an item that every later enqueue refuses.
THEOREM OrphansOnlyByCut == Spec => []NoOrphanIndex
<1>1. Init => NoOrphanIndex
  BY DEF Init, NoOrphanIndex
<1>2. TypeInv /\ NoOrphanIndex /\ [Next]_vars => NoOrphanIndex'
  BY NextIndex
<1> QED
  BY <1>1, <1>2, InitType, NextType, PTL DEF Spec

-----------------------------------------------------------------------------
(* The answer of a call that ran alone *)

\* A sequence that has every element of a finite set once has them all.
LEMMA AllInOrder ==
  ASSUME NEW S \in SUBSET Items, NEW s \in SetToSeqs(S)
  PROVE  ToSet(s) = S
<1>1. /\ s \in [1 .. Cardinality(S) -> S]
      /\ \A m, n \in 1 .. Cardinality(S) : m # n => s[m] # s[n]
  BY DEF SetToSeqs
<1>2. IsFiniteSet(S) /\ Cardinality(S) \in Nat
  BY QueueAssumption, FS_Subset, FS_CardinalityType
<1>3. s \in Injection(1 .. Cardinality(S), S)
  BY <1>1 DEF Injection, IsInjective
<1>4. Cardinality(1 .. Cardinality(S)) = Cardinality(S)
  BY <1>2, FS_Interval
<1>5. s \in Surjection(1 .. Cardinality(S), S)
  BY <1>2, <1>3, <1>4, FS_Injection
<1> QED
  BY <1>1, <1>5 DEF Surjection, ToSet

\* A step of a caller that was alone leaves nobody else in a call, and a step
\* never makes a call alone.
LEMMA StepAlone ==
  ASSUME TypeInv, AloneInv, NEW c \in Callers, Step(c), NEW d \in Callers, Alone(d)'
  PROVE  d = c /\ Alone(c) /\ Undisturbed(c)
<1>1. call[c].pc # "idle" /\ call[c] # Idle
  BY DEF Idle, Step, HSetNx, EnqueueTx, Cleanup, Lookup, RemoveTx, LookupActive,
         ReadActive, SetActive, GetBoard, Scan, SyncScan, DropTx, SyncRead, UpdateTx,
         AddTx, Synced, ZRange, Pick, Answer, Syncing, At
<1>2. d # c => call'[d] = call[d]
  BY OthersStay
<1>3. d # c => Alone(d) /\ call[c] = Idle
  BY <1>2 DEF Alone, AloneInv, Undisturbed
<1>4. d = c
  BY <1>1, <1>3
<1> SUFFICES Alone(c)
  BY <1>4 DEF AloneInv
<1>5. call[c] \in CallRec /\ Local(call[c])
  BY <1>1, InCall
<1>6. ASSUME NEW n \in CallRec, call' = [call EXCEPT ![c] = n], n.alone = call[c].alone
      PROVE  Alone(c)
  BY <1>1, <1>4, <1>6 DEF Alone, TypeInv
<1>7. ~Return(c)
  BY <1>4 DEF Alone, Return, TypeInv
<1>8. ASSUME NEW pc, Goto(c, pc)
      PROVE  Alone(c)
  <2>1. call'[c] = [call[c] EXCEPT !.pc = pc]
    BY <1>8 DEF Goto, TypeInv
  <2>2. call'[c].alone = call[c].alone
    BY <1>5, <2>1 DEF CallRec
  <2> QED BY <1>1, <1>4, <2>2 DEF Alone
<1>9. CASE \/ HSetNx(c) \/ EnqueueTx(c) \/ Cleanup(c) \/ Lookup(c) \/ RemoveTx(c)
           \/ LookupActive(c) \/ ReadActive(c) \/ SetActive(c) \/ DropTx(c) \/ Answer(c)
  BY <1>7, <1>8, <1>9
  DEF HSetNx, EnqueueTx, Cleanup, Lookup, RemoveTx, LookupActive, ReadActive, SetActive,
      DropTx, Answer
<1>10. CASE \/ GetBoard(c) \/ SyncScan(c) \/ SyncRead(c) \/ UpdateTx(c) \/ AddTx(c)
            \/ ZRange(c) \/ Pick(c)
  <2>1. ASSUME NEW pc, Advance(c, pc)
        PROVE  Alone(c)
    <3>1. call'[c].alone = call[c].alone
      BY <1>5, <2>1 DEF Advance, CallRec, TypeInv
    <3> QED BY <1>1, <1>4, <3>1 DEF Alone
  <2>2. ASSUME NEW pc, NEW v,
               \/ call' = [call EXCEPT ![c].snap = v, ![c].pc = pc]
               \/ call' = [call EXCEPT ![c].read = v, ![c].pc = pc]
               \/ call' = [call EXCEPT ![c].item = v, ![c].pc = pc]
               \/ call' = [call EXCEPT ![c].todo = v, ![c].pc = pc]
        PROVE  Alone(c)
    <3>1. call'[c].alone = call[c].alone
      BY <1>5, <2>2 DEF CallRec, TypeInv
    <3> QED BY <1>1, <1>4, <3>1 DEF Alone
  <2>3. ASSUME SyncScan(c)
        PROVE  Alone(c)
    <3>1. call'[c].alone = call[c].alone
      BY <1>5, <2>3 DEF SyncScan, CallRec, TypeInv
    <3> QED BY <1>1, <1>4, <3>1 DEF Alone
  <2>4. ASSUME UpdateTx(c)
        PROVE  Alone(c)
    <3>1. call'[c].alone = call[c].alone
      BY <1>5, <2>4 DEF UpdateTx, CallRec, TypeInv
    <3> QED BY <1>1, <1>4, <3>1 DEF Alone
  <2> QED
    BY <1>8, <1>10, <2>1, <2>2, <2>3, <2>4 DEF GetBoard, SyncRead, AddTx, ZRange, Pick
<1>11. CASE Scan(c)
  <2>1. ASSUME NEW k, call' = [call EXCEPT ![c].col = k, ![c].pc = "syncScan"]
        PROVE  Alone(c)
    <3>1. call'[c].alone = call[c].alone
      BY <1>5, <2>1 DEF CallRec, TypeInv
    <3> QED BY <1>1, <1>4, <3>1 DEF Alone
  <2>2. ASSUME call' = [call EXCEPT ![c] = Settled([@ EXCEPT !.pc = "range"])]
        PROVE  Alone(c)
    <3> DEFINE n == [call[c] EXCEPT !.pc = "range"]
    <3>1. n \in CallRec /\ Local(n) /\ n.alone = call[c].alone
      BY <1>5 DEF CallRec, Local, Pcs, ItemPcs, SyncPcs
    <3>2. call'[c] = Settled(n)
      BY <2>2 DEF TypeInv
    <3> HIDE DEF n
    <3> QED BY <1>1, <1>4, <3>1, <3>2, SettledCall DEF Alone
  <2> QED BY <1>11, <2>1, <2>2 DEF Scan
<1>12. CASE Synced(c)
  <2> DEFINE n == [call[c] EXCEPT !.pc = "range", !.seen = {}]
  <2>1. n \in CallRec /\ Local(n) /\ n.alone = call[c].alone
    BY <1>5 DEF CallRec, Local, Pcs, ItemPcs, SyncPcs
  <2>2. call'[c] = Settled(n)
    BY <1>12 DEF Synced, TypeInv
  <2> HIDE DEF n
  <2> QED BY <1>1, <1>4, <2>1, <2>2, SettledCall DEF Alone
<1> QED
  BY <1>9, <1>10, <1>11, <1>12 DEF Step

\* Whatever does not belong to one call ends every claim to be alone.
LEMMA NobodyAlone ==
  ASSUME TypeInv, call' = Disturb(call)
  PROVE  \A d \in Callers : ~Alone(d)'
  BY DisturbedCalls DEF Alone

\* The steps of a call that ran alone up to the choice of the column.
LEMMA UndisturbedStart ==
  ASSUME TypeInv, NEW c \in Callers, Alone(c), Undisturbed(c),
         GetBoard(c) \/ Scan(c) \/ SyncScan(c)
  PROVE  Undisturbed(c)'
<1> DEFINE r == call[c]
           n == call'[c]
           column == r.snap[r.col]
<1>1. /\ r \in CallRec /\ r.alone
      /\ board' = board /\ Queued' = Queued
      /\ \A d \in Callers \ {c} : call'[d] = Idle
      /\ r.item = NoItem
  <2>1. r \in CallRec /\ r.alone
    BY DEF Alone, TypeInv
  <2>2. Step(c) /\ board' = board /\ Queued' = Queued
    BY DEF Step, GetBoard, Scan, SyncScan, redis, Queued
  <2>3. \A d \in Callers \ {c} : call'[d] = Idle
    BY <2>2, OthersStay DEF Undisturbed
  <2>4. r.item = NoItem
    BY DEF GetBoard, Scan, SyncScan, At, SyncPcs, Undisturbed
  <2> QED BY <2>1, <2>2, <2>3, <2>4
<1>2. CASE GetBoard(c)
  <2>1. n.pc = "scan" /\ n.snap = board /\ n.item = NoItem /\ n.col = r.col
    BY <1>1, <1>2 DEF GetBoard, CallRec, TypeInv
  <2>2. r.col = NoItem
    BY <1>2 DEF GetBoard, At, Undisturbed
  <2> QED BY <1>1, <2>1, <2>2 DEF Undisturbed, SyncPcs
<1>3. CASE Scan(c)
  <2>1. r.pc = "scan" /\ r.snap = board /\ r.col = NoItem
    BY <1>3 DEF Scan, At, Undisturbed
  <2>2. ASSUME NEW k, call' = [call EXCEPT ![c].col = k, ![c].pc = "syncScan"]
        PROVE  Undisturbed(c)'
    <3>1. n.pc = "syncScan" /\ n.snap = r.snap /\ n.item = NoItem
      BY <1>1, <2>2 DEF CallRec, TypeInv
    <3> QED BY <1>1, <2>1, <3>1 DEF Undisturbed, SyncPcs
  <2>3. ASSUME call' = [call EXCEPT ![c] = Settled([@ EXCEPT !.pc = "range"])],
               \A k \in DOMAIN ColumnOrder : ~Holding(r.snap, k)
        PROVE  Undisturbed(c)'
    <3>1. n = [r EXCEPT !.pc = "range"]
      <4>1. [r EXCEPT !.pc = "range"].alone
        BY <1>1 DEF CallRec
      <4> QED BY <2>3, <4>1 DEF Settled, TypeInv
    <3>2. n.pc = "range" /\ n.snap = r.snap /\ n.item = NoItem /\ n.col = NoItem
      BY <1>1, <2>1, <3>1 DEF CallRec
    <3>3. Queued = {}
      <4> SUFFICES ASSUME NEW i \in Queued
                   PROVE  FALSE
        OBVIOUS
      <4>1. board \in Boards /\ i \in Items
        BY DEF TypeInv, Queued
      <4>2. PICK k \in Columns : i \in ToSet(board[k])
        BY <4>1 DEF Boards
      <4>3. PICK m \in DOMAIN ColumnOrder : k = ColumnOrder[m]
        BY DEF Columns, ToSet
      <4> QED BY <2>1, <2>3, <4>2, <4>3 DEF Holding
    <3> QED BY <1>1, <2>1, <3>2, <3>3 DEF Undisturbed, SyncPcs
  <2> QED BY <1>3, <2>2, <2>3 DEF Scan
<1>4. CASE SyncScan(c)
  <2>1. r.pc = "syncScan" /\ r.snap = board
    BY <1>4 DEF SyncScan, At, Undisturbed, SyncPcs
  <2>2. /\ n.pc = (IF Queued \subseteq ToSet(column) THEN "syncItem" ELSE "dropTx")
        /\ n.snap = r.snap /\ n.col = r.col /\ n.item = NoItem
        /\ n.seen = Queued /\ n.todo = column
    BY <1>1, <1>4 DEF SyncScan, CallRec, TypeInv
  <2>3. column \in Seq(Items)
    BY <2>1, SyncColumn DEF SyncPcs
  <2>4. PICK s \in Seq(Items) : s = column
    BY <2>3
  <2>5. n.snap[n.col] = s /\ n.todo = s /\ (Queued \subseteq ToSet(s) \/ n.pc = "dropTx")
    BY <2>2, <2>4
  <2>6. n.pc \in {"syncItem", "dropTx"}
    BY <2>2
  <2>7. Len(s) - Len(n.todo) = 0
    BY <2>5, LenProperties
  <2>8. \A k \in 1 .. Len(s) - Len(n.todo) : zset'[s[k]] = k - 1
    BY <2>7
  <2> HIDE DEF column
  <2> QED
    BY <1>1, <2>1, <2>2, <2>5, <2>6, <2>8 DEF Undisturbed, SyncPcs, InPlace
<1> QED
  BY <1>2, <1>3, <1>4

\* A step of the sync that ran alone: once the cards of other columns are
\* dropped, each card it passes is queued with its place as score.
LEMMA UndisturbedSync ==
  ASSUME TypeInv, EntryHasMetadata, NEW c \in Callers, Alone(c), Undisturbed(c),
         DropTx(c) \/ SyncRead(c) \/ UpdateTx(c) \/ AddTx(c) \/ Synced(c)
  PROVE  Undisturbed(c)'
<1> DEFINE r == call[c]
           n == call'[c]
<1>1. /\ r.pc \in {"dropTx", "syncItem", "updateTx"} /\ r.pc \in SyncPcs
      /\ r \in CallRec /\ Local(r) /\ r.alone
      /\ r.snap = board /\ board' = board /\ r.item = NoItem /\ r.col \in Columns
      /\ \A d \in Callers \ {c} : call'[d] = Idle
  <2>1. Step(c) /\ board' = board
    BY DEF Step, DropTx, SyncRead, UpdateTx, AddTx, Synced
  <2>2. r.pc \in {"dropTx", "syncItem", "updateTx"} /\ r.pc \in SyncPcs /\ r.pc # "idle"
    BY DEF DropTx, SyncRead, UpdateTx, AddTx, Synced, Syncing, At, SyncPcs
  <2>3. \A d \in Callers \ {c} : call'[d] = Idle
    BY <2>1, OthersStay DEF Undisturbed
  <2> QED BY <2>1, <2>2, <2>3, InCall DEF Alone, Undisturbed, Local
<1>2. PICK s \in Seq(Items) : s = r.snap[r.col]
  BY <1>1, SyncColumn
<1>3. /\ s \in Arrangements /\ Len(s) \in Nat
      /\ \A k \in 1 .. Len(s) : s[k] \in Items
      /\ \A k, m \in 1 .. Len(s) : s[k] = s[m] => k = m
  BY <1>1, <1>2, SyncColumn, ArrangementIsSeq, LenProperties, ElementOfSeq
<1>4. ASSUME n.pc \in {"syncItem", "updateTx"}, n.snap = r.snap, n.col = r.col,
             n.item = NoItem, Queued' \subseteq ToSet(s), n.seen = r.seen,
             r.seen \cap ToSet(s) \subseteq Queued',
             \A k \in 1 .. Len(s) - Len(n.todo) : zset'[s[k]] = k - 1
      PROVE  Undisturbed(c)'
  BY <1>1, <1>2, <1>4 DEF Undisturbed, SyncPcs, InPlace
<1>5. CASE DropTx(c)
  <2>1. r.pc = "dropTx" /\ r.seen = Queued /\ r.todo = s
    BY <1>2, <1>5 DEF DropTx, At, Undisturbed
  <2>2. /\ n.pc = "syncItem" /\ n.snap = r.snap /\ n.col = r.col /\ n.item = NoItem
        /\ n.seen = r.seen /\ n.todo = s
    BY <1>1, <1>5, <2>1 DEF DropTx, Goto, CallRec, TypeInv
  <2>3. Forget(Queued \ ToSet(s))
    BY <1>2, <1>5, <2>1 DEF DropTx
  <2>4. Queued' = Queued \cap ToSet(s)
    BY <2>3, ForgetType DEF Queued
  <2>5. \A k \in 1 .. Len(s) - Len(n.todo) : zset'[s[k]] = k - 1
    BY <1>3, <2>2
  <2> QED BY <1>4, <2>1, <2>2, <2>4, <2>5
<1>6. ASSUME r.pc \in {"syncItem", "updateTx"}
      PROVE  /\ Queued \subseteq ToSet(s) /\ r.seen \cap ToSet(s) \subseteq Queued
             /\ r.todo \in Seq(Items) /\ Len(r.todo) \in Nat /\ Len(r.todo) <= Len(s)
             /\ \A k \in 1 .. Len(s) - Len(r.todo) : zset[s[k]] = k - 1
             /\ r.todo # <<>> => /\ Next1(c) \in ToSet(s) /\ Next1(c) \in Items
                                 /\ Len(Tail(r.todo)) = Len(r.todo) - 1
                                 /\ NewScore(c) = Len(s) - Len(r.todo)
                                 /\ NewScore(c) \in 0 .. Cardinality(Items) - 1
                                 /\ NewScore(c) + 1 \in 1 .. Len(s)
                                 /\ Next1(c) = s[NewScore(c) + 1]
  <2>1. r.todo \in Seq(Items) /\ Len(r.todo) \in Nat /\ Suffix(r.todo, s)
    BY <1>1, <1>2, <1>6, SyncColumn, CallFields, LenProperties
  <2>2. /\ Queued \subseteq ToSet(s) /\ r.seen \cap ToSet(s) \subseteq Queued
        /\ \A k \in 1 .. Len(s) - Len(r.todo) : zset[s[k]] = k - 1
    BY <1>2, <1>6 DEF Undisturbed, InPlace
  <2>3. ASSUME r.todo # <<>>
        PROVE  /\ Next1(c) \in ToSet(s) /\ Next1(c) \in Items
               /\ Len(Tail(r.todo)) = Len(r.todo) - 1
               /\ NewScore(c) = Len(s) - Len(r.todo)
               /\ NewScore(c) \in 0 .. Cardinality(Items) - 1
               /\ NewScore(c) + 1 \in 1 .. Len(s)
               /\ Next1(c) = s[NewScore(c) + 1]
    <3>1. /\ Next1(c) \in Items /\ NewScore(c) \in 0 .. Cardinality(Items) - 1
          /\ NewScore(c) + 1 \in 1 .. Len(s)
          /\ Next1(c) = s[NewScore(c) + 1]
      BY <1>1, <1>2, <1>6, <2>3, SyncColumn
    <3>2. NewScore(c) = Len(s) - Len(r.todo)
      BY <1>2 DEF NewScore
    <3>3. Len(Tail(r.todo)) = Len(r.todo) - 1
      BY <2>1, <2>3, SuffixTail
    <3>4. Next1(c) \in ToSet(s)
      BY <3>1 DEF ToSet
    <3> QED BY <3>1, <3>2, <3>3, <3>4
  <2> QED BY <2>1, <2>2, <2>3 DEF Suffix
<1>7. CASE SyncRead(c)
  <2>1. r.pc = "syncItem" /\ r.todo # <<>> /\ Next1(c) \in r.seen /\ UNCHANGED <<zset, meta>>
    BY <1>7 DEF SyncRead, Syncing, At, redis
  <2>2. Next1(c) \in Queued
    BY <1>6, <2>1
  <2>3. meta[Next1(c)] # "none"
    BY <2>2 DEF EntryHasMetadata
  <2>4. call' = [call EXCEPT ![c].read = meta[Next1(c)], ![c].pc = "updateTx"]
    BY <1>7, <2>3 DEF SyncRead
  <2>5. /\ n.pc = "updateTx" /\ n.snap = r.snap /\ n.col = r.col /\ n.item = NoItem
        /\ n.seen = r.seen /\ n.todo = r.todo
    BY <1>1, <2>4 DEF CallRec, TypeInv
  <2>6. Queued' = Queued
    BY <2>1 DEF Queued
  <2> QED BY <1>4, <1>6, <2>1, <2>5, <2>6
<1>8. CASE UpdateTx(c) \/ AddTx(c)
  <2>1. /\ r.pc \in {"syncItem", "updateTx"} /\ r.todo # <<>>
        /\ \E status \in {"waiting", "active"} : Write(Next1(c), NewScore(c), status)
    <3>1. r.pc \in {"syncItem", "updateTx"} /\ r.todo # <<>>
      BY <1>1, <1>8 DEF UpdateTx, AddTx, Syncing, At, Local
    <3>2. UpdateTx(c) => r.read \in {"waiting", "active"}
      BY <1>1, CallFields DEF UpdateTx, At, Local
    <3> QED BY <1>8, <3>1, <3>2 DEF UpdateTx, AddTx
  <2>2. /\ n.pc = "syncItem" /\ n.snap = r.snap /\ n.col = r.col /\ n.item = NoItem
        /\ n.seen = r.seen /\ n.todo = Tail(r.todo)
    BY <1>1, <1>8 DEF UpdateTx, AddTx, Advance, CallRec, TypeInv
  <2>3. PICK h \in Items, p \in Nat :
           h = Next1(c) /\ p = NewScore(c) /\ p \in 0 .. Cardinality(Items) - 1
    BY <1>6, <2>1, ItemsFinite
  <2>4. /\ zset'[h] = p /\ \A j \in Items : j # h => zset'[j] = zset[j]
    BY <2>1, <2>3, WriteType
  <2>5. /\ h \in ToSet(s) /\ h = s[p + 1] /\ p + 1 \in 1 .. Len(s)
        /\ p = Len(s) - Len(r.todo) /\ Len(n.todo) = Len(r.todo) - 1
    BY <1>6, <2>1, <2>2, <2>3
  <2>6. Queued' = Queued \cup {h}
    <3>1. p # Absent
      BY DEF Absent
    <3> QED BY <2>4, <3>1 DEF Queued
  <2>7. ASSUME NEW k \in 1 .. Len(s) - Len(n.todo)
        PROVE  zset'[s[k]] = k - 1
    <3>1. k \in Nat /\ k \in 1 .. p + 1 /\ k \in 1 .. Len(s) /\ s[k] \in Items
      BY <1>3, <1>6, <2>1, <2>5
    <3>2. CASE k = p + 1
      <4>1. k - 1 = p /\ s[k] = h
        BY <2>5, <3>1, <3>2
      <4> QED BY <2>4, <4>1
    <3>3. CASE k # p + 1
      <4>1. k \in 1 .. p
        BY <3>1, <3>3
      <4>2. s[k] # h
        BY <1>3, <2>5, <3>1, <3>3
      <4> QED BY <1>6, <2>1, <2>4, <2>5, <3>1, <4>1, <4>2
    <3> QED BY <3>2, <3>3
  <2> QED BY <1>4, <1>6, <2>1, <2>2, <2>5, <2>6, <2>7
<1>9. CASE Synced(c)
  <2>1. r.pc = "syncItem" /\ r.todo = <<>> /\ UNCHANGED zset
    BY <1>9 DEF Synced, At, redis
  <2>2. /\ n = Settled([r EXCEPT !.pc = "range", !.seen = {}])
        /\ [r EXCEPT !.pc = "range", !.seen = {}].alone
    BY <1>1, <1>9 DEF Synced, CallRec, TypeInv
  <2>3. n.pc = "range" /\ n.snap = r.snap /\ n.col = r.col /\ n.item = NoItem
    BY <1>1, <2>2 DEF Settled, CallRec
  <2>4. \A k \in 1 .. Len(s) : zset[s[k]] = k - 1
    BY <1>6, <2>1, EmptySeq
  <2>5. Queued = ToSet(s) /\ Queued' = Queued
    <3>1. \A k \in 1 .. Len(s) : s[k] \in Queued
      BY <1>3, <2>4 DEF Queued, Absent
    <3> QED BY <1>6, <2>1, <3>1 DEF ToSet, Queued
  <2> QED BY <1>1, <1>2, <2>1, <2>3, <2>4, <2>5 DEF Undisturbed, SyncPcs, InPlace
<1> QED
  BY <1>5, <1>7, <1>8, <1>9

\* The end of a call that ran alone: the items come in the order of their
\* scores, and those passed over do not wait.
LEMMA UndisturbedPick ==
  ASSUME TypeInv, NEW c \in Callers, Alone(c), Undisturbed(c), ZRange(c) \/ Pick(c)
  PROVE  Undisturbed(c)'
<1> DEFINE r == call[c]
           n == call'[c]
<1>1. /\ r.pc \in {"range", "pick"} /\ r \in CallRec /\ r.snap = board /\ r.item = NoItem
      /\ UNCHANGED <<board, zset, meta>>
      /\ \A d \in Callers \ {c} : call'[d] = Idle
  <2>1. Step(c) /\ UNCHANGED <<board, zset, meta>>
    BY DEF Step, ZRange, Pick, redis
  <2>2. r.pc \in {"range", "pick"} /\ r.pc # "idle"
    BY DEF ZRange, Pick, At
  <2>3. \A d \in Callers \ {c} : call'[d] = Idle
    BY <2>1, OthersStay DEF Undisturbed
  <2> QED BY <2>1, <2>2, <2>3, InCall DEF Undisturbed
<1>2. Queued' = Queued /\ \A i \in Items : zset[i] \in Int
  BY <1>1, ItemsFinite DEF Queued, TypeInv, Absent
<1>3. PICK s : s = r.snap[r.col]
  OBVIOUS
<1>4. \/ r.col = NoItem /\ Queued = {}
      \/ /\ r.col \in Columns
         /\ Queued = ToSet(s)
         /\ \A k \in 1 .. Len(s) : zset[s[k]] = k - 1
  BY <1>1, <1>3 DEF Undisturbed, InPlace
<1>5. ASSUME n.pc = "pick", n.snap = r.snap, n.col = r.col, n.item = NoItem,
             ToSet(n.todo) \subseteq Queued,
             {i \in Queued : meta[i] = "waiting"} \subseteq ToSet(n.todo),
             \A k, m \in 1 .. Len(n.todo) : k < m => zset[n.todo[k]] <= zset[n.todo[m]]
      PROVE  Undisturbed(c)'
  BY <1>1, <1>2, <1>3, <1>4, <1>5 DEF Undisturbed, SyncPcs, InPlace
<1>6. ASSUME n.pc = "answer", n.snap = r.snap, n.col = r.col,
             IF n.item = NoItem THEN \A i \in Queued : meta[i] # "waiting"
             ELSE /\ n.item \in Queued
                  /\ \A i \in Queued : meta[i] = "waiting" => zset[n.item] <= zset[i]
      PROVE  Undisturbed(c)'
  BY <1>1, <1>2, <1>3, <1>4, <1>6 DEF Undisturbed, SyncPcs, InPlace
<1>7. CASE ZRange(c)
  <2>1. PICK t \in SetToSeqs(Queued) :
           /\ \A k, m \in 1 .. Len(t) : k < m => zset[t[k]] <= zset[t[m]]
           /\ call' = [call EXCEPT ![c].todo = t, ![c].pc = "pick"]
    BY <1>7 DEF ZRange
  <2>2. /\ n.pc = "pick" /\ n.snap = r.snap /\ n.col = r.col /\ n.item = NoItem
        /\ n.todo = t
    BY <1>1, <2>1 DEF CallRec, TypeInv
  <2>3. ToSet(t) = Queued
    BY AllInOrder DEF Queued
  <2> QED BY <1>5, <2>1, <2>2, <2>3
<1>8. CASE Pick(c)
  <2>1. /\ r.pc = "pick" /\ r.todo \in Seq(Items) /\ ToSet(r.todo) \subseteq Queued
        /\ {i \in Queued : meta[i] = "waiting"} \subseteq ToSet(r.todo)
        /\ \A k, m \in 1 .. Len(r.todo) : k < m => zset[r.todo[k]] <= zset[r.todo[m]]
    BY <1>1, <1>8, CallFields DEF Pick, At, Undisturbed
  <2>2. PICK t \in Seq(Items) : t = r.todo
    BY <2>1
  <2>3. CASE t = <<>>
    <3>1. Goto(c, "answer")
      BY <1>8, <2>2, <2>3 DEF Pick
    <3>2. n.pc = "answer" /\ n.snap = r.snap /\ n.col = r.col /\ n.item = NoItem
      BY <1>1, <3>1 DEF Goto, CallRec, TypeInv
    <3>3. ToSet(t) = {}
      BY <2>3, EmptySeq DEF ToSet
    <3> QED BY <1>6, <2>1, <2>2, <3>2, <3>3
  <2> SUFFICES ASSUME t # <<>> PROVE Undisturbed(c)'
    BY <2>3
  <2>4. /\ Len(t) \in Nat \ {0} /\ Tail(t) \in Seq(Items) /\ Len(Tail(t)) = Len(t) - 1
        /\ \A k \in 1 .. Len(t) - 1 : Tail(t)[k] = t[k + 1]
        /\ Head(t) = t[1] /\ Head(t) \in Items
    BY HeadTailProperties, EmptySeq, LenProperties
  <2>5. PICK h \in Items : h = Head(t)
    BY <2>4
  <2>6. Next1(c) = h
    BY <2>2, <2>5 DEF Next1
  <2>7. h \in Queued /\ h # NoItem
    BY <2>1, <2>2, <2>4, <2>5, QueueAssumption DEF ToSet
  <2>8. \A i \in ToSet(t) : i = h \/ \E k \in 2 .. Len(t) : t[k] = i
    BY <2>4, <2>5 DEF ToSet
  <2>9. CASE meta[h] = "waiting"
    <3>1. call' = [call EXCEPT ![c].item = h, ![c].pc = "answer"]
      BY <1>8, <2>2, <2>6, <2>9 DEF Pick
    <3>2. n.pc = "answer" /\ n.snap = r.snap /\ n.col = r.col /\ n.item = h
      BY <1>1, <3>1 DEF CallRec, TypeInv
    <3>3. ASSUME NEW i \in Queued, meta[i] = "waiting"
          PROVE  zset[h] <= zset[i]
      <4>1. CASE i = h
        BY <1>2, <4>1
      <4>2. ASSUME NEW k \in 2 .. Len(t), t[k] = i
            PROVE  zset[h] <= zset[i]
        <5>1. k \in 1 .. Len(t) /\ 1 \in 1 .. Len(t) /\ 1 < k
          BY <2>4
        <5> QED BY <2>1, <2>2, <2>4, <2>5, <4>2, <5>1
      <4> QED BY <2>1, <2>2, <2>8, <3>3, <4>1, <4>2
    <3> QED BY <1>6, <2>7, <3>2, <3>3
  <2>10. CASE meta[h] # "waiting"
    <3>1. Advance(c, "pick")
      BY <1>8, <2>2, <2>6, <2>10 DEF Pick
    <3>2. /\ n.pc = "pick" /\ n.snap = r.snap /\ n.col = r.col /\ n.item = NoItem
          /\ n.todo = Tail(t)
      BY <1>1, <2>2, <3>1 DEF Advance, CallRec, TypeInv
    <3>3. ToSet(Tail(t)) \subseteq ToSet(t)
      BY <2>4 DEF ToSet
    <3>4. \A k \in 2 .. Len(t) : t[k] \in ToSet(Tail(t))
      <4> SUFFICES ASSUME NEW k \in 2 .. Len(t)
                   PROVE  t[k] \in ToSet(Tail(t))
        OBVIOUS
      <4>1. k - 1 \in 1 .. Len(Tail(t)) /\ Tail(t)[k - 1] = t[k]
        BY <2>4
      <4>2. PICK m \in 1 .. Len(Tail(t)) : Tail(t)[m] = t[k]
        BY <4>1
      <4>3. Len(Tail(t)) \in Nat /\ DOMAIN Tail(t) = 1 .. Len(Tail(t))
        BY <2>4, LenProperties
      <4> QED BY <4>2, <4>3 DEF ToSet
    <3>5. {i \in Queued : meta[i] = "waiting"} \subseteq ToSet(Tail(t))
      BY <2>1, <2>2, <2>8, <2>10, <3>4
    <3>6. \A k, m \in 1 .. Len(Tail(t)) : k < m => zset[Tail(t)[k]] <= zset[Tail(t)[m]]
      <4> SUFFICES ASSUME NEW k \in 1 .. Len(Tail(t)), NEW m \in 1 .. Len(Tail(t)), k < m
                   PROVE  zset[Tail(t)[k]] <= zset[Tail(t)[m]]
        OBVIOUS
      <4>1. /\ k + 1 \in 1 .. Len(t) /\ m + 1 \in 1 .. Len(t) /\ k + 1 < m + 1
            /\ Tail(t)[k] = t[k + 1] /\ Tail(t)[m] = t[m + 1]
        BY <2>4
      <4> QED BY <2>1, <2>2, <4>1
    <3> QED BY <1>5, <2>1, <2>2, <3>2, <3>3, <3>5, <3>6
  <2> QED BY <2>9, <2>10
<1> QED
  BY <1>7, <1>8

\* The steps of the other operations, and the return of an answer.
LEMMA UndisturbedItem ==
  ASSUME TypeInv, NEW c \in Callers, Alone(c), Undisturbed(c),
         \/ HSetNx(c) \/ EnqueueTx(c) \/ Cleanup(c) \/ Lookup(c) \/ RemoveTx(c)
         \/ LookupActive(c) \/ ReadActive(c) \/ SetActive(c) \/ Answer(c)
  PROVE  Undisturbed(c)'
<1>1. Step(c)
  BY DEF Step
<1>2. \A d \in Callers \ {c} : call'[d] = Idle
  BY <1>1, OthersStay DEF Undisturbed
<1>3. call[c] \in CallRec
  BY DEF Alone, TypeInv
<1>4. ASSUME NEW pc, Goto(c, pc)
      PROVE  call'[c].pc = pc
  BY <1>3, <1>4 DEF Goto, CallRec, TypeInv
<1>5. Return(c) => call'[c].pc = "idle"
  BY DEF Return, TypeInv, Idle
<1>6. call'[c].pc \in ItemPcs \cup {"idle"}
  BY <1>4, <1>5 DEF HSetNx, EnqueueTx, Cleanup, Lookup, RemoveTx, LookupActive,
     ReadActive, SetActive, Answer, ItemPcs
<1> QED
  BY <1>2, <1>6 DEF Undisturbed, ItemPcs, SyncPcs

\* A call is alone from its beginning only where nobody is in a call.
LEMMA BeginAlone ==
  ASSUME TypeInv, NEW c \in Callers,
         \/ GetNext(c)
         \/ \E i \in Items : Enqueue(c, i) \/ RemoveItem(c, i) \/ MarkActive(c, i)
  PROVE  AloneInv'
<1>1. PICK pc, i, pos :
         /\ pc \in {"hsetnx", "lookup", "lookupActive", "getBoard"}
         /\ Begin(c, pc, i, pos)
         /\ pc = "getBoard" => i = NoItem
  BY DEF GetNext, Enqueue, RemoveItem, MarkActive
<1> DEFINE quiet == \A d \in Callers : At(d, "idle")
           r == [Blank EXCEPT !.pc = pc, !.item = i, !.pos = pos, !.alone = quiet]
<1>2. call' = [Disturb(call) EXCEPT ![c] = r]
  BY <1>1 DEF Begin
<1> HIDE DEF quiet
<1>3. r.pc = pc /\ r.item = i /\ r.col = NoItem /\ r.alone = quiet
  BY DEF Blank
<1> HIDE DEF r
<1>4. call'[c] = r /\ \A d \in Callers \ {c} : call'[d] = Disturb(call)[d]
  BY <1>2, DisturbedCalls
<1>5. \A d \in Callers \ {c} : ~Alone(d)'
  BY <1>4, DisturbedCalls DEF Alone
<1> SUFFICES ASSUME Alone(c)' PROVE Undisturbed(c)'
  BY <1>5 DEF AloneInv
<1>6. quiet
  BY <1>3, <1>4 DEF Alone
<1>7. \A d \in Callers \ {c} : call'[d] = Idle
  BY <1>4, <1>6, NotInCall, DisturbedCalls DEF quiet, At
<1> QED
  BY <1>1, <1>3, <1>4, <1>7 DEF Undisturbed, SyncPcs

\* A failure, a cancelled call or a moved card leaves no call alone.
LEMMA FailureAlone ==
  ASSUME TypeInv,
         \/ \E c \in Callers : SyncFails(c) \/ EnqueueTxFails(c) \/ Abandon(c)
         \/ \E i \in Items, to \in Columns : MoveCard(i, to)
  PROVE  AloneInv'
<1>1. CASE \E i \in Items, to \in Columns : MoveCard(i, to)
  BY <1>1, NobodyAlone DEF MoveCard, AloneInv
<1>2. ASSUME NEW c \in Callers, SyncFails(c) \/ EnqueueTxFails(c) \/ Abandon(c)
      PROVE  AloneInv'
  <2>1. call[c].pc # "idle" /\ call[c] # Idle
    <3>1. call[c].pc # "idle"
      BY <1>2 DEF SyncFails, Syncing, EnqueueTxFails, Abandon, At
    <3> QED BY <3>1 DEF Idle
  <2>2. Disturb(call)[c] \in CallRec /\ ~Disturb(call)[c].alone
    BY <2>1, DisturbedCalls
  <2>3. \A d \in Callers \ {c} : call'[d] = Disturb(call)[d]
    BY <1>2, DisturbedCalls DEF SyncFails, EnqueueTxFails, Abandon
  <2>4. Abandon(c) => call'[c] = Idle
    BY DisturbedCalls DEF Abandon
  <2>5. SyncFails(c) \/ EnqueueTxFails(c) => ~call'[c].alone
    <3>1. ASSUME NEW pc, NEW todo, NEW read,
                 \/ call' = [Disturb(call) EXCEPT ![c].pc = pc, ![c].todo = todo,
                                                  ![c].read = read]
                 \/ call' = [Disturb(call) EXCEPT ![c].pc = pc]
          PROVE  ~call'[c].alone
      BY <2>2, <3>1, DisturbedCalls DEF CallRec
    <3>2. EnqueueTxFails(c) => call' = [Disturb(call) EXCEPT ![c].pc = "cleanup"]
      BY DEF EnqueueTxFails
    <3> DEFINE left == IF call[c].pc \in {"syncItem", "updateTx"}
                         THEN Tail(Disturb(call)[c].todo) ELSE Disturb(call)[c].todo
    <3>3. SyncFails(c) => \E pc, todo, read :
              call' = [Disturb(call) EXCEPT ![c].pc = pc, ![c].todo = todo, ![c].read = read]
      <4> SUFFICES ASSUME SyncFails(c)
                   PROVE  \E pc : call' = [Disturb(call) EXCEPT ![c].pc = pc,
                                             ![c].todo = left, ![c].read = "none"]
        OBVIOUS
      <4>1. Disturb(call) = [d \in Callers |-> Disturb(call)[d]]
        BY DisturbedCalls
      <4>2. call' = [Disturb(call) EXCEPT
                  ![c].pc = IF call[c].pc \in {"getBoard", "scan", "syncScan"}
                              THEN "range" ELSE "syncItem",
                  ![c].todo = IF call[c].pc \in {"syncItem", "updateTx"}
                                THEN Tail(@) ELSE @,
                  ![c].read = "none"]
        BY DEF SyncFails
      <4>3. Disturb(call)[c] \in CallRec
        BY <2>2
      <4> QED BY <4>1, <4>2, <4>3 DEF CallRec
    <3> QED BY <3>1, <3>2, <3>3
  <2>6. \A d \in Callers : ~Alone(d)'
    BY <1>2, <2>3, <2>4, <2>5, DisturbedCalls DEF Alone
  <2> QED BY <2>6 DEF AloneInv
<1> QED
  BY <1>1, <1>2

LEMMA NextAlone ==
  TypeInv /\ EntryHasMetadata /\ AloneInv /\ [Next]_vars => AloneInv'
<1> SUFFICES ASSUME TypeInv, EntryHasMetadata, AloneInv, [Next]_vars
             PROVE  AloneInv'
  OBVIOUS
<1>1. ASSUME NEW c \in Callers, Step(c)
      PROVE  AloneInv'
  <2> SUFFICES ASSUME NEW d \in Callers, Alone(d)'
               PROVE  Undisturbed(d)'
    BY DEF AloneInv
  <2>1. d = c /\ Alone(c) /\ Undisturbed(c)
    BY <1>1, StepAlone
  <2> QED
    BY <1>1, <2>1, UndisturbedStart, UndisturbedSync, UndisturbedPick, UndisturbedItem
    DEF Step
<1>2. CASE UNCHANGED vars
  BY <1>2 DEF AloneInv, Alone, Undisturbed, InPlace, vars, Queued
<1> QED
  BY <1>1, <1>2, BeginAlone, FailureAlone DEF Next

\* The answer with the least score is the topmost: the scores are the places
\* in the synced column.
LEMMA LeastIsTopmost == TypeInv /\ AloneInv => TopmostFirst
<1> SUFFICES ASSUME TypeInv, AloneInv, NEW c \in Callers, At(c, "answer"), call[c].alone,
                    call[c].item # NoItem,
                    NEW n \in 1 .. Len(call[c].snap[call[c].col]),
                    meta[call[c].snap[call[c].col][n]] = "waiting"
             PROVE  Position(call[c].snap[call[c].col], call[c].item) <= n - 1
  <2>1. ASSUME TypeInv, AloneInv, NEW c \in Callers, At(c, "answer"), call[c].alone,
               call[c].item = NoItem
        PROVE  \A i \in Queued : meta[i] # "waiting"
    <3>1. call[c].pc = "answer" /\ call[c] # Idle
      BY <2>1 DEF At, Idle
    <3>2. Undisturbed(c)
      BY <2>1, <3>1 DEF AloneInv, Alone
    <3> QED BY <2>1, <3>1, <3>2 DEF Undisturbed
  <2> QED BY <2>1 DEF TopmostFirst
<1> DEFINE r == call[c]
<1>1. r.pc = "answer" /\ r \in CallRec /\ Undisturbed(c)
  BY InCall DEF AloneInv, Alone, At, Idle
<1>2. r.snap = board /\ r.item \in Queued
  BY <1>1 DEF Undisturbed
<1>3. r.col \in Columns /\ Queued = ToSet(r.snap[r.col])
      /\ InPlace(r.snap[r.col], Len(r.snap[r.col]))
  BY <1>1, <1>2 DEF Undisturbed
<1>4. PICK s \in Seq(Items) : s = r.snap[r.col] /\ Len(s) \in Nat
  BY <1>2, <1>3, ColumnOfBoard, ArrangementIsSeq, LenProperties DEF TypeInv
<1>5. Position(s, r.item) \in 0 .. Len(s) - 1 /\ s[Position(s, r.item) + 1] = r.item
  BY <1>2, <1>3, <1>4, PositionOf
<1>6. PICK p \in Nat : p = Position(s, r.item) /\ p + 1 \in 1 .. Len(s) /\ s[p + 1] = r.item
  BY <1>4, <1>5
<1>7. zset[r.item] = p /\ zset[s[n]] = n - 1
  BY <1>3, <1>4, <1>6 DEF InPlace
<1>8. s[n] \in Queued
  BY <1>3, <1>4 DEF ToSet
<1>9. zset[r.item] <= zset[s[n]]
  BY <1>1, <1>4, <1>8 DEF Undisturbed
<1> QED
  BY <1>4, <1>6, <1>7, <1>9

\* Whatever the queue held before, a call of get_next_waiting_item that nothing
\* disturbed answers with the topmost waiting card of the column it synced the
\* queue with, and with None only when no queued card waits.
THEOREM TopmostAnswered == Spec => []TopmostFirst
<1>1. Init => TypeInv /\ EntryHasMetadata /\ AloneInv
  BY InitType DEF Init, EntryHasMetadata, AloneInv, Alone, Queued
<1>2. TypeInv /\ EntryHasMetadata /\ AloneInv /\ [Next]_vars
        => (TypeInv /\ EntryHasMetadata /\ AloneInv)'
  BY NextType, EveryStoreChange, NextMetadata, NextAlone
<1> QED
  BY <1>1, <1>2, LeastIsTopmost, PTL DEF Spec
=============================================================================
