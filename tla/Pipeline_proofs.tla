--------------------------- MODULE Pipeline_proofs ---------------------------
(***************************************************************************)
(* Proofs about Pipeline, for any items, any board template and any bound  *)
(* on mishaps.                                                             *)
(***************************************************************************)
EXTENDS Pipeline, FiniteSetTheorems, SequenceTheorems, TLAPS

\* A handler in progress: the locals of Handler, each with its type.
HandlerRec == [pc : HandlerPcs, item : Items \cup {Nobody}, to : Columns \cup {NoColumn},
               then : {"end", "move", "completeRun"}, named : BOOLEAN,
               snap : [Items -> Columns] \cup {<<>>}, next : Items \cup {Nobody}]

ReleasePcs == {"release", "script", "deleteMeta", "fetch", "sync", "grant", "grantHset",
               "granted", "dequeue"}
MovedPcs == {"event", "enqueue", "acquire", "hset", "acquired", "checkRun", "startRun",
             "readRun", "setStage", "execute", "completeRun"}
CompletedPcs == {"succeeded", "move", "failed", "moveBack", "failRun"}
ScanPcs == {"scanHolders", "scanRun"}

\* A handler in progress that is where coroutine p may be: it keeps to the steps
\* and the item of its own, and has the locals its next step uses.
Fits(p, r) ==
    /\ r \in HandlerRec
    /\ p[1] = "moved" => /\ r.item = p[2]
                         /\ r.pc \in MovedPcs \cup ReleasePcs
                         /\ r.then \in {"end", "completeRun"}
    /\ p[1] = "completed" => /\ r.item = p[2]
                             /\ r.pc \in CompletedPcs \cup ReleasePcs
                             /\ r.then \in {"end", "move"}
    /\ p[1] = "scan" => r.pc \in ScanPcs \cup ReleasePcs /\ r.then = "end"
    /\ r.pc # "scanHolders" => r.item \in Items
    /\ r.pc \in {"event", "move", "moveBack"} => r.to \in Columns
    /\ r.pc \in ReleasePcs /\ r.then = "move" => r.to \in Columns
    /\ r.pc = "sync" => r.snap \in [Items -> Columns]
    /\ r.pc \in {"grant", "grantHset", "granted", "dequeue"} => r.next \in Items

StateOK ==
    /\ col \in [Items -> Columns]
    /\ owner \in Items \cup {Nobody}
    /\ meta \in BOOLEAN
    /\ queue \subseteq Items
    /\ run \subseteq Items
    /\ task \in [Items -> [pc : {"idle", "started", "working", "clear", "report",
                                 "cleanup"}, ok : BOOLEAN]]
    /\ stranded \in BOOLEAN
    /\ mishaps \subseteq Mishaps /\ Cardinality(mishaps) <= MaxMishaps

ProcsOK == /\ proc \in [Procs -> {Idle} \cup HandlerRec]
           /\ \A p \in Procs : proc[p] # Idle => Fits(p, proc[p])

TypeInv == StateOK /\ ProcsOK

\* A handler that will look for the next holder of a free lock.
Waking(r) == r.pc \in {"acquire", "deleteMeta", "fetch", "sync", "grant"}

\* Why no wakeup is lost: as long as somebody waits for a free lock, some
\* handler is on its way to hand it over.
SomebodyWakes == owner = Nobody /\ queue # {} /\ ~stranded => \E p \in Procs : Waking(proc[p])

\* The handler of a column change has the lock for its item from the moment it
\* is sure of it until the agent is started.
Sure(r) == \/ r.pc = "event" /\ r.to \in Agents \ {Trigger}
           \/ r.pc \in {"hset", "acquired", "checkRun", "startRun", "readRun", "setStage",
                        "execute"}

\* One thing at a time happens to an item while nothing goes wrong, and what
\* may start or is running its agent has the lock.
OneThing(i) ==
    /\ proc[Moved(i)] # Idle => proc[Completed(i)] = Idle /\ task[i] = NoTask
    /\ task[i] # NoTask =>
         \/ proc[Completed(i)] = Idle
         \/ /\ task[i].pc = "cleanup"
            /\ proc[Completed(i)].pc \in {"failed", "moveBack", "failRun"}
    /\ task[i].pc \in {"started", "working"} => owner = i
    /\ Sure(proc[Moved(i)]) => owner = i

Orderly == proc[Scan] = Idle /\ \A i \in Items : OneThing(i)

OrderlyInv == mishaps = {} => Orderly
-----------------------------------------------------------------------------
(* Coroutines and their steps *)

LEMMA ProcKinds ==
  ASSUME NEW p \in Procs
  PROVE  /\ p[1] \in {"moved", "completed", "scan"}
         /\ p[1] = "moved" => p[2] \in Items /\ p = Moved(p[2])
         /\ p[1] = "completed" => p[2] \in Items /\ p = Completed(p[2])
         /\ p[1] = "scan" => p = Scan
  BY DEF Procs, Moved, Completed, Scan

\* Handlers of different items, and of different kinds, are different.
LEMMA ProcNames ==
  /\ Scan \in Procs /\ Scan[1] = "scan"
  /\ \A i \in Items : /\ Moved(i) \in Procs /\ Completed(i) \in Procs
                      /\ Moved(i)[1] = "moved" /\ Moved(i)[2] = i
                      /\ Completed(i)[1] = "completed" /\ Completed(i)[2] = i
  /\ \A i, j : Moved(i) # Completed(j)
  /\ \A i : Moved(i) # Scan /\ Completed(i) # Scan
  BY DEF Procs, Moved, Completed, Scan

LEMMA BoardNotEmpty ==
  /\ ColumnOrder # <<>> /\ Head(ColumnOrder) \in Columns
  /\ \A c \in Columns : NextColumn(c) \in Columns \cup {NoColumn}
<1>1. /\ ColumnOrder \in Seq(STRING) /\ Len(ColumnOrder) \in Nat
      /\ DOMAIN ColumnOrder = 1 .. Len(ColumnOrder)
  BY PipelineAssumption, LenProperties
<1>2. PICK k \in 1 .. Len(ColumnOrder) : Trigger = ColumnOrder[k]
  BY <1>1, PipelineAssumption DEF Columns, ToSet
<1>3. ColumnOrder # <<>> /\ Head(ColumnOrder) = ColumnOrder[1] /\ 1 \in 1 .. Len(ColumnOrder)
  BY <1>1, <1>2, HeadTailProperties, EmptySeq
<1>4. ASSUME NEW c \in Columns
      PROVE  NextColumn(c) \in Columns \cup {NoColumn}
  <2> DEFINE n == CHOOSE n \in 1 .. Len(ColumnOrder) : ColumnOrder[n] = c
  <2>1. n \in 1 .. Len(ColumnOrder)
    <3>1. \E m \in 1 .. Len(ColumnOrder) : ColumnOrder[m] = c
      BY <1>1 DEF Columns, ToSet
    <3>2. \A S : (\E m \in S : ColumnOrder[m] = c) => (CHOOSE m \in S : ColumnOrder[m] = c) \in S
      BY Zenon
    <3> QED BY <3>1, <3>2
  <2>2. PICK m : m = n
    OBVIOUS
  <2>3. NextColumn(c) = IF m = Len(ColumnOrder) THEN NoColumn ELSE ColumnOrder[m + 1]
    BY <2>2 DEF NextColumn
  <2> HIDE DEF n
  <2>4. m \in Nat /\ m \in 1 .. Len(ColumnOrder)
    BY <1>1, <2>1, <2>2
  <2>5. m # Len(ColumnOrder) => m + 1 \in 1 .. Len(ColumnOrder)
    <3>1. \A x, y \in Nat : x \in 1 .. y /\ x # y => x + 1 \in 1 .. y
      OBVIOUS
    <3> QED BY <1>1, <2>4, <3>1
  <2>6. \A j \in 1 .. Len(ColumnOrder) : ColumnOrder[j] \in Columns
    BY <1>1 DEF Columns, ToSet
  <2> QED BY <2>3, <2>5, <2>6
<1> QED
  BY <1>1, <1>3, <1>4 DEF Columns, ToSet

\* The types of a handler's locals, one by one.
LEMMA HandlerFields ==
  ASSUME NEW r \in HandlerRec
  PROVE  /\ r.pc \in HandlerPcs /\ r.pc # "idle" /\ r # Idle
         /\ r.item \in Items \cup {Nobody}
         /\ r.to \in Columns \cup {NoColumn}
         /\ r.then \in {"end", "move", "completeRun"}
         /\ r.named \in BOOLEAN
         /\ r.snap \in [Items -> Columns] \cup {<<>>}
         /\ r.next \in Items \cup {Nobody}
<1>1. r.pc \in HandlerPcs /\ r.pc # "idle"
  BY DEF HandlerRec, HandlerPcs
<1>2. r # Idle
  BY <1>1 DEF Idle
<1> QED
  BY <1>1, <1>2 DEF HandlerRec

\* What an action may assume of the coroutine it moves.
LEMMA InHandler ==
  ASSUME ProcsOK, NEW p \in Procs, proc[p].pc # "idle"
  PROVE  Fits(p, proc[p]) /\ proc[p] \in HandlerRec /\ proc[p] # Idle
  BY DEF ProcsOK, Idle, Fits

\* A fresh handler.
LEMMA NewHandler ==
  ASSUME NEW pc \in HandlerPcs, NEW i \in Items \cup {Nobody}, NEW to \in Columns \cup {NoColumn}
  PROVE  /\ Handler(pc, i, to) \in HandlerRec /\ Handler(pc, i, to).pc = pc
         /\ Handler(pc, i, to).item = i /\ Handler(pc, i, to).to = to
         /\ Handler(pc, i, to).then = "end"
  BY DEF Handler, HandlerRec

\* One coroutine moves on.
LEMMA OneMoves ==
  ASSUME ProcsOK, NEW p \in Procs, NEW n, n = Idle \/ Fits(p, n), proc' = [proc EXCEPT ![p] = n]
  PROVE  ProcsOK' /\ proc'[p] = n /\ \A q \in Procs \ {p} : proc'[q] = proc[q]
  BY DEF ProcsOK, Fits

\* Handler r of coroutine p may go on at pc.
CanGo(p, r, pc) ==
    /\ pc \in HandlerPcs /\ r.item \in Items
    /\ \/ p[1] = "moved" /\ pc \in MovedPcs \cup ReleasePcs
       \/ p[1] = "completed" /\ pc \in CompletedPcs \cup ReleasePcs
       \/ p[1] = "scan" /\ pc \in ScanPcs \cup ReleasePcs
    /\ pc \in {"event", "move", "moveBack"} => r.to \in Columns
    /\ pc \in ReleasePcs /\ r.then = "move" => r.to \in Columns
    /\ pc = "sync" => r.snap \in [Items -> Columns]
    /\ pc \in {"grant", "grantHset", "granted", "dequeue"} => r.next \in Items

LEMMA MovesOn ==
  ASSUME NEW p \in Procs, NEW r, Fits(p, r), NEW pc, CanGo(p, r, pc)
  PROVE  Fits(p, [r EXCEPT !.pc = pc])
<1> DEFINE n == [r EXCEPT !.pc = pc]
<1>1. /\ n \in HandlerRec /\ n.pc = pc /\ n.item = r.item /\ n.to = r.to
      /\ n.then = r.then /\ n.snap = r.snap /\ n.next = r.next
  BY DEF Fits, HandlerRec, CanGo
<1> HIDE DEF n
<1>2. Fits(p, n)
  BY <1>1, ProcKinds DEF Fits, CanGo
<1> QED BY <1>2 DEF n

LEMMA GotoOK ==
  ASSUME ProcsOK, NEW p \in Procs, proc[p].pc # "idle", NEW pc, Goto(p, pc),
         pc = "end" \/ CanGo(p, proc[p], pc)
  PROVE  /\ ProcsOK'
         /\ proc'[p] = IF pc = "end" THEN Idle ELSE [proc[p] EXCEPT !.pc = pc]
         /\ \A q \in Procs \ {p} : proc'[q] = proc[q]
<1> DEFINE n == IF pc = "end" THEN Idle ELSE [proc[p] EXCEPT !.pc = pc]
<1>1. n = Idle \/ Fits(p, n)
  BY InHandler, MovesOn
<1>2. proc' = [proc EXCEPT ![p] = n]
  BY DEF Goto
<1> HIDE DEF n
<1>3. ProcsOK' /\ proc'[p] = n /\ \A q \in Procs \ {p} : proc'[q] = proc[q]
  BY <1>1, <1>2, OneMoves
<1> QED BY <1>3 DEF n

LEMMA ResumeOK ==
  ASSUME ProcsOK, NEW p \in Procs, proc[p].pc # "idle", NEW pc, Resume(p, pc),
         pc = "end" \/ CanGo(p, proc[p], pc),
         pc \notin {"sync", "grant", "grantHset", "granted", "dequeue"}
  PROVE  /\ ProcsOK'
         /\ pc = "end" => proc'[p] = Idle
         /\ pc # "end" => proc'[p].pc = pc /\ proc'[p].to = proc[p].to
         /\ \A q \in Procs \ {p} : proc'[q] = proc[q]
<1> DEFINE r == proc[p]
           n == IF pc = "end" THEN Idle
                ELSE [r EXCEPT !.pc = pc, !.named = FALSE, !.snap = <<>>, !.next = Nobody]
<1>1. Fits(p, r)
  BY InHandler
<1>2. pc # "end" => /\ n \in HandlerRec /\ n.pc = pc /\ n.item = r.item /\ n.to = r.to
                    /\ n.then = r.then
  BY <1>1 DEF Fits, HandlerRec, CanGo
<1>3. pc = "end" => n = Idle
  OBVIOUS
<1>4. proc' = [proc EXCEPT ![p] = n]
  BY DEF Resume
<1> HIDE DEF n
<1>5. n = Idle \/ Fits(p, n)
  BY <1>1, <1>2, <1>3, ProcKinds DEF Fits, CanGo
<1> QED
  BY <1>2, <1>3, <1>4, <1>5, OneMoves

LEMMA ReleaseOK ==
  ASSUME ProcsOK, NEW p \in Procs, proc[p].pc # "idle", NEW then, ReleaseThen(p, then),
         proc[p].item \in Items,
         then = "end" \/ (then = "completeRun" /\ p[1] = "moved")
  PROVE  /\ ProcsOK'
         /\ proc'[p].pc = "release"
         /\ \A q \in Procs \ {p} : proc'[q] = proc[q]
<1> DEFINE r == proc[p]
           n == [r EXCEPT !.pc = "release", !.then = then]
<1>1. Fits(p, r)
  BY InHandler
<1>2. /\ n \in HandlerRec /\ n.pc = "release" /\ n.item = r.item /\ n.to = r.to
      /\ n.then = then
  BY <1>1 DEF Fits, HandlerRec, HandlerPcs
<1>3. proc' = [proc EXCEPT ![p] = n]
  BY DEF ReleaseThen, ProcsOK
<1> HIDE DEF n
<1>4. Fits(p, n)
  BY <1>1, <1>2, ProcKinds DEF Fits, ReleasePcs
<1> QED
  BY <1>2, <1>3, <1>4, OneMoves

-----------------------------------------------------------------------------
(* Type correctness *)

LEMMA InitType == Init => TypeInv
<1> SUFFICES ASSUME Init PROVE TypeInv
  OBVIOUS
<1>1. col \in [Items -> Columns]
  BY BoardNotEmpty DEF Init
<1>2. Cardinality({}) = 0 /\ MaxMishaps \in Nat
  BY FS_EmptySet, PipelineAssumption
<1>3. ProcsOK
  BY DEF Init, ProcsOK
<1>4. task \in [Items -> [pc : {"idle", "started", "working", "clear", "report",
                              "cleanup"}, ok : BOOLEAN]]
  BY DEF Init, NoTask
<1>5. mishaps = {} /\ Cardinality(mishaps) <= MaxMishaps
  BY <1>2 DEF Init
<1> QED
  BY <1>1, <1>3, <1>4, <1>5 DEF Init, TypeInv, StateOK

\* The steps before a handler's release: what it does with a card that moved.
LEMMA MovedStepsType ==
  ASSUME TypeInv, NEW p \in Procs,
         \/ HandleColumnChange(p) \/ Enqueue(p) \/ TryAcquire(p)
         \/ HsetMeta(p) /\ At(p, "hset")
         \/ OnLockAcquired(p) \/ CheckRun(p) \/ StartWorkflowRun(p)
         \/ ReadRun(p) \/ SetStage(p) \/ Execute(p) \/ ExecuteFails(p) \/ CompleteRun(p)
  PROVE  /\ TypeInv' /\ p = Moved(Item(p)) /\ Item(p) \in Items
         /\ \A q \in Procs \ {p} : proc'[q] = proc[q]
<1> DEFINE r == proc[p]
<1>1. r.pc \in MovedPcs /\ r.pc # "idle"
  BY DEF HandleColumnChange, Enqueue, TryAcquire, HsetMeta, OnLockAcquired, CheckRun,
         StartWorkflowRun, ReadRun, SetStage, Execute, ExecuteFails, CompleteRun, At, MovedPcs
<1>2. Fits(p, r)
  BY <1>1, InHandler DEF TypeInv
<1>3. p[1] = "moved" /\ r.item \in Items /\ p = Moved(r.item)
  BY <1>1, <1>2, ProcKinds DEF Fits, MovedPcs, CompletedPcs, ScanPcs, ReleasePcs
<1>4. Item(p) = r.item
  BY DEF Item
<1>5. ASSUME NEW pc, Goto(p, pc),
             pc \in {"end", "enqueue", "acquire", "hset", "acquired", "checkRun", "startRun",
                     "readRun", "setStage", "execute"}
      PROVE  ProcsOK' /\ \A q \in Procs \ {p} : proc'[q] = proc[q]
  <2>1. pc = "end" \/ CanGo(p, r, pc)
    BY <1>3, <1>5 DEF CanGo, HandlerPcs, MovedPcs, ReleasePcs
  <2> QED BY <1>1, <1>5, <2>1, GotoOK DEF TypeInv
<1>6. ASSUME NEW then \in {"end", "completeRun"}, ReleaseThen(p, then)
      PROVE  ProcsOK' /\ \A q \in Procs \ {p} : proc'[q] = proc[q]
  BY <1>1, <1>3, <1>6, ReleaseOK DEF TypeInv
<1>7. StartAgent(p) \in {"end", "readRun"}
  BY DEF StartAgent
<1> SUFFICES TypeInv' /\ \A q \in Procs \ {p} : proc'[q] = proc[q]
  BY <1>3, <1>4
<1>8. CASE HandleColumnChange(p)
  <2>1. ProcsOK' /\ \A q \in Procs \ {p} : proc'[q] = proc[q]
    BY <1>5, <1>6, <1>8 DEF HandleColumnChange
  <2> QED BY <1>8, <2>1 DEF HandleColumnChange, lock, ghosts, TypeInv, StateOK
<1>9. CASE Enqueue(p)
  <2>1. ProcsOK' /\ \A q \in Procs \ {p} : proc'[q] = proc[q]
    BY <1>5, <1>9 DEF Enqueue
  <2> QED BY <1>3, <1>4, <1>9, <2>1 DEF Enqueue, lock, ghosts, TypeInv, StateOK
<1>10. CASE TryAcquire(p)
  <2>1. ProcsOK' /\ \A q \in Procs \ {p} : proc'[q] = proc[q]
    BY <1>5, <1>7, <1>10 DEF TryAcquire
  <2> QED BY <1>3, <1>4, <1>10, <2>1 DEF TryAcquire, ghosts, TypeInv, StateOK
<1>11. CASE HsetMeta(p) /\ At(p, "hset")
  <2>1. ProcsOK' /\ \A q \in Procs \ {p} : proc'[q] = proc[q]
    BY <1>5, <1>11 DEF HsetMeta, At
  <2> QED BY <1>11, <2>1 DEF HsetMeta, ghosts, TypeInv, StateOK
<1>12. CASE OnLockAcquired(p)
  <2>1. ProcsOK' /\ \A q \in Procs \ {p} : proc'[q] = proc[q]
    BY <1>5, <1>12 DEF OnLockAcquired
  <2> QED BY <1>12, <2>1 DEF OnLockAcquired, lock, ghosts, TypeInv, StateOK
<1>13. CASE CheckRun(p) \/ ReadRun(p)
  <2>1. ProcsOK' /\ \A q \in Procs \ {p} : proc'[q] = proc[q]
    BY <1>5, <1>13 DEF CheckRun, ReadRun
  <2> QED BY <1>13, <2>1 DEF CheckRun, ReadRun, lock, ghosts, TypeInv, StateOK
<1>14. CASE StartWorkflowRun(p) \/ SetStage(p) \/ CompleteRun(p)
  <2>1. ProcsOK' /\ \A q \in Procs \ {p} : proc'[q] = proc[q]
    BY <1>5, <1>7, <1>14 DEF StartWorkflowRun, SetStage, CompleteRun
  <2> QED
    BY <1>3, <1>4, <1>14, <2>1
    DEF StartWorkflowRun, SetStage, CompleteRun, lock, ghosts, TypeInv, StateOK
<1>15. CASE Execute(p)
  <2>1. ProcsOK' /\ \A q \in Procs \ {p} : proc'[q] = proc[q]
    BY <1>5, <1>15 DEF Execute
  <2> QED BY <1>15, <2>1 DEF Execute, lock, ghosts, TypeInv, StateOK
<1>16. CASE ExecuteFails(p)
  <2>1. ProcsOK' /\ \A q \in Procs \ {p} : proc'[q] = proc[q]
    BY <1>5, <1>6, <1>16 DEF ExecuteFails
  <2> QED BY <1>16, <2>1 DEF ExecuteFails, lock, ghosts, TypeInv, StateOK
<1> QED
  BY <1>8, <1>9, <1>10, <1>11, <1>12, <1>13, <1>14, <1>15, <1>16

LEMMA SyncedItems ==
  ASSUME StateOK, NEW snap
  PROVE  Synced(snap) \subseteq Items
  BY DEF Synced, StateOK

\* Release and hand-over.
LEMMA ReleaseStepsType ==
  ASSUME TypeInv, NEW p \in Procs,
         \/ ReadMeta(p) \/ Release(p) \/ DeleteMeta(p) \/ FetchBoard(p) \/ Peek(p)
         \/ Grant(p)
         \/ HsetMeta(p) /\ At(p, "grantHset")
         \/ Granted(p) \/ Dequeue(p)
  PROVE  /\ TypeInv' /\ Item(p) \in Items
         /\ \A q \in Procs \ {p} : proc'[q] = proc[q]
<1> DEFINE r == proc[p]
           Others == \A q \in Procs \ {p} : proc'[q] = proc[q]
<1>1. r.pc \in ReleasePcs /\ r.pc # "idle" /\ r.pc # "scanHolders"
  BY DEF ReadMeta, Release, DeleteMeta, FetchBoard, Peek, Grant, HsetMeta, Granted, Dequeue,
         At, ReleasePcs
<1>2. Fits(p, r) /\ r \in HandlerRec
  BY <1>1, InHandler DEF TypeInv
<1>3. r.item \in Items /\ Item(p) = r.item
  BY <1>1, <1>2 DEF Fits, Item
<1>4. /\ r.then \in {"end", "move", "completeRun"}
      /\ r.then = "end" \/ CanGo(p, r, r.then)
  BY <1>1, <1>2, <1>3, ProcKinds, HandlerFields
  DEF Fits, CanGo, HandlerPcs, CompletedPcs, MovedPcs, ReleasePcs
<1>5. ASSUME NEW pc \in {"fetch", "end", r.then}, Resume(p, pc)
      PROVE  ProcsOK' /\ Others
  <2>1. pc = "end" \/ CanGo(p, r, pc)
    BY <1>1, <1>2, <1>3, <1>4, <1>5, ProcKinds DEF CanGo, Fits, HandlerPcs, ReleasePcs
  <2>2. pc \notin {"sync", "grant", "grantHset", "granted", "dequeue"}
    BY <1>4, <1>5
  <2> QED BY <1>1, <1>5, <2>1, <2>2, ResumeOK DEF TypeInv
<1>6. ASSUME NEW n \in HandlerRec, n.item = r.item, n.to = r.to, n.then = r.then,
             n.pc \in ReleasePcs,
             n.pc = "sync" => n.snap \in [Items -> Columns],
             n.pc \in {"grant", "grantHset", "granted", "dequeue"} => n.next \in Items,
             proc' = [proc EXCEPT ![p] = n]
      PROVE  ProcsOK' /\ Others
  <2>1. Fits(p, n)
    BY <1>1, <1>2, <1>3, <1>6, ProcKinds DEF Fits, ReleasePcs
  <2> QED BY <1>6, <2>1, OneMoves DEF TypeInv
<1>7. ASSUME NEW pc \in ReleasePcs \ {"sync"}, Goto(p, pc),
             pc \in {"grant", "grantHset", "granted", "dequeue"} => r.next \in Items
      PROVE  ProcsOK' /\ Others
  <2>1. CanGo(p, r, pc)
    BY <1>1, <1>2, <1>3, <1>7, ProcKinds DEF CanGo, Fits, HandlerPcs, ReleasePcs
  <2> QED BY <1>1, <1>7, <2>1, GotoOK DEF TypeInv, ReleasePcs
<1>8. CASE ReadMeta(p)
  <2> DEFINE n == [r EXCEPT !.named = meta, !.pc = "script"]
  <2>1. proc' = [proc EXCEPT ![p] = n]
    BY <1>8 DEF ReadMeta, TypeInv, ProcsOK
  <2>2. n \in HandlerRec /\ n.pc = "script" /\ n.item = r.item /\ n.to = r.to /\ n.then = r.then
    BY <1>2 DEF HandlerRec, HandlerPcs, TypeInv, StateOK
  <2> HIDE DEF n
  <2>3. ProcsOK' /\ Others
    BY <1>6, <2>1, <2>2 DEF ReleasePcs
  <2> QED BY <1>3, <1>8, <2>3 DEF ReadMeta, lock, ghosts, TypeInv, StateOK
<1>9. CASE Release(p)
  <2>1. ProcsOK' /\ Others
    <3>1. CASE Goto(p, "deleteMeta")
      BY <1>7, <3>1 DEF ReleasePcs
    <3>2. CASE Resume(p, IF r.then = "completeRun" THEN "end" ELSE r.then)
      BY <1>5, <3>2
    <3> QED BY <1>9, <3>1, <3>2 DEF Release
  <2> QED BY <1>3, <1>9, <2>1 DEF Release, ghosts, TypeInv, StateOK
<1>10. CASE DeleteMeta(p)
  <2>1. ProcsOK' /\ Others
    <3>1. Resume(p, IF r.named THEN "fetch" ELSE r.then)
      BY <1>10 DEF DeleteMeta
    <3> QED BY <1>5, <3>1
  <2>2. stranded' \in BOOLEAN
    BY <1>10 DEF DeleteMeta
  <2> QED BY <1>3, <1>10, <2>1, <2>2 DEF DeleteMeta, TypeInv, StateOK
<1>11. CASE FetchBoard(p)
  <2> DEFINE n == [r EXCEPT !.snap = col, !.pc = "sync"]
  <2>1. proc' = [proc EXCEPT ![p] = n]
    BY <1>11 DEF FetchBoard, TypeInv, ProcsOK
  <2>2. /\ n \in HandlerRec /\ n.pc = "sync" /\ n.item = r.item /\ n.to = r.to
        /\ n.then = r.then /\ n.snap = col
    BY <1>2 DEF HandlerRec, HandlerPcs, TypeInv, StateOK
  <2> HIDE DEF n
  <2>3. ProcsOK' /\ Others
    BY <1>6, <2>1, <2>2 DEF ReleasePcs, TypeInv, StateOK
  <2> QED BY <1>3, <1>11, <2>3 DEF FetchBoard, lock, ghosts, TypeInv, StateOK
<1>12. CASE Peek(p)
  <2>1. queue' \subseteq Items
    <3>1. Synced(r.snap) \subseteq Items
      BY SyncedItems DEF TypeInv
    <3>2. queue' \in {queue, Synced(r.snap)}
      BY <1>12 DEF Peek
    <3> QED BY <3>1, <3>2 DEF TypeInv, StateOK
  <2>2. ASSUME NEW i \in queue', proc' = [proc EXCEPT ![p].next = i, ![p].pc = "grant",
                                                      ![p].snap = <<>>]
        PROVE  ProcsOK' /\ Others
    <3> DEFINE n == [r EXCEPT !.next = i, !.pc = "grant", !.snap = <<>>]
    <3>1. proc' = [proc EXCEPT ![p] = n]
      BY <2>2 DEF TypeInv, ProcsOK
    <3>2. /\ n \in HandlerRec /\ n.pc = "grant" /\ n.item = r.item /\ n.to = r.to
          /\ n.then = r.then /\ n.next = i
      BY <1>2, <2>1 DEF HandlerRec, HandlerPcs
    <3> HIDE DEF n
    <3> QED BY <1>6, <2>1, <3>1, <3>2 DEF ReleasePcs
  <2>3. ProcsOK' /\ Others
    BY <1>5, <1>12, <2>2 DEF Peek
  <2> QED BY <1>3, <1>12, <2>1, <2>3 DEF Peek, lock, ghosts, TypeInv, StateOK
<1>13. CASE Grant(p)
  <2>1. r.next \in Items
    BY <1>2, <1>13 DEF Grant, At, Fits
  <2>2. ProcsOK' /\ Others
    BY <1>5, <1>7, <1>13, <2>1 DEF Grant, ReleasePcs
  <2> QED BY <1>3, <1>13, <2>1, <2>2 DEF Grant, ghosts, TypeInv, StateOK
<1>14. CASE HsetMeta(p) /\ At(p, "grantHset")
  <2>1. r.next \in Items
    BY <1>2, <1>14 DEF At, Fits
  <2>2. ProcsOK' /\ Others
    BY <1>7, <1>14, <2>1 DEF HsetMeta, At, ReleasePcs
  <2> QED BY <1>3, <1>14, <2>2 DEF HsetMeta, ghosts, TypeInv, StateOK
<1>15. CASE Granted(p) \/ Dequeue(p)
  <2>1. r.next \in Items
    BY <1>2, <1>15 DEF Granted, Dequeue, At, Fits
  <2>2. ProcsOK' /\ Others
    BY <1>5, <1>7, <1>15, <2>1 DEF Granted, Dequeue, ReleasePcs
  <2> QED BY <1>3, <1>15, <2>2 DEF Granted, Dequeue, lock, ghosts, TypeInv, StateOK
<1> QED
  BY <1>8, <1>9, <1>10, <1>11, <1>12, <1>13, <1>14, <1>15

\* The handler of a completion.
LEMMA CompletedStepsType ==
  ASSUME TypeInv, NEW p \in Procs,
         \/ HandleSuccess(p) \/ AutoMove(p)
         \/ HandleFailure(p) \/ MoveBack(p) \/ FailRun(p)
  PROVE  /\ TypeInv' /\ p = Completed(Item(p)) /\ Item(p) \in Items
         /\ \A q \in Procs \ {p} : proc'[q] = proc[q]
<1> DEFINE r == proc[p]
           Others == \A q \in Procs \ {p} : proc'[q] = proc[q]
<1>1. r.pc \in CompletedPcs /\ r.pc # "idle"
  BY DEF HandleSuccess, AutoMove, HandleFailure, MoveBack, FailRun, At, CompletedPcs
<1>2. Fits(p, r) /\ r \in HandlerRec
  BY <1>1, InHandler DEF TypeInv
<1>3. p[1] = "completed" /\ r.item \in Items /\ p = Completed(r.item)
  BY <1>1, <1>2, ProcKinds DEF Fits, MovedPcs, CompletedPcs, ScanPcs, ReleasePcs
<1>4. Item(p) = r.item
  BY DEF Item
<1>5. ASSUME NEW pc \in {"end", "failRun"}, Goto(p, pc)
      PROVE  ProcsOK' /\ Others
  <2>1. pc = "end" \/ CanGo(p, r, pc)
    BY <1>3, <1>5 DEF CanGo, HandlerPcs, CompletedPcs, ReleasePcs
  <2> QED BY <1>1, <1>5, <2>1, GotoOK DEF TypeInv
<1>6. ASSUME NEW n \in HandlerRec, n.item = r.item, n.then \in {"end", "move"},
             n.pc \in {"move", "release", "moveBack"}, n.to \in Columns,
             proc' = [proc EXCEPT ![p] = n]
      PROVE  ProcsOK' /\ Others
  <2>1. Fits(p, n)
    BY <1>2, <1>3, <1>6 DEF Fits, CompletedPcs, ReleasePcs
  <2> QED BY <1>6, <2>1, OneMoves DEF TypeInv
<1>7. col[r.item] \in Columns
  BY <1>3 DEF TypeInv, StateOK
<1> SUFFICES TypeInv' /\ Others
  BY <1>3, <1>4
<1>8. CASE HandleSuccess(p)
  <2>1. ProcsOK' /\ Others
    <3>1. CASE ReleaseThen(p, "end")
      BY <1>1, <1>3, <3>1, ReleaseOK DEF TypeInv
    <3>2. CASE ~ReleaseThen(p, "end")
      <4>1. PICK next : next = NextColumn(col[r.item])
        OBVIOUS
      <4>2. PICK pc \in {"move", "release"} :
               /\ next # NoColumn
               /\ proc' = [proc EXCEPT ![p].to = next, ![p].then = "move", ![p].pc = pc]
        BY <1>4, <1>8, <3>2, <4>1 DEF HandleSuccess
      <4>3. next \in Columns
        BY <1>7, <4>1, <4>2, BoardNotEmpty
      <4> DEFINE n == [r EXCEPT !.to = next, !.then = "move", !.pc = pc]
      <4>4. proc' = [proc EXCEPT ![p] = n]
        BY <4>2 DEF TypeInv, ProcsOK
      <4>5. n \in HandlerRec /\ n.item = r.item /\ n.then = "move" /\ n.pc = pc /\ n.to = next
        BY <1>2, <4>3 DEF HandlerRec, HandlerPcs
      <4> HIDE DEF n
      <4> QED BY <1>6, <4>3, <4>4, <4>5
    <3> QED BY <3>1, <3>2
  <2> QED BY <1>8, <2>1 DEF HandleSuccess, lock, ghosts, TypeInv, StateOK
<1>9. CASE AutoMove(p)
  <2>1. ProcsOK' /\ Others
    BY <1>5, <1>9 DEF AutoMove
  <2>2. r.to \in Columns
    BY <1>2, <1>9 DEF AutoMove, At, Fits
  <2> QED BY <1>3, <1>4, <1>9, <2>1, <2>2 DEF AutoMove, lock, ghosts, TypeInv, StateOK
<1>10. CASE HandleFailure(p)
  <2>1. ProcsOK' /\ Others
    <3>1. CASE Goto(p, "failRun")
      BY <1>5, <3>1
    <3>2. CASE ~Goto(p, "failRun")
      <4>1. PICK to : to = OnFailure[col[r.item]]
        OBVIOUS
      <4>2. to # NoColumn /\ proc' = [proc EXCEPT ![p].to = to, ![p].pc = "moveBack"]
        BY <1>4, <1>10, <3>2, <4>1 DEF HandleFailure
      <4>3. to \in Columns
        BY <1>7, <4>1, <4>2, PipelineAssumption
      <4> DEFINE n == [r EXCEPT !.to = to, !.pc = "moveBack"]
      <4>4. proc' = [proc EXCEPT ![p] = n]
        BY <4>2 DEF TypeInv, ProcsOK
      <4>5. /\ n \in HandlerRec /\ n.item = r.item /\ n.then = r.then /\ n.pc = "moveBack"
            /\ n.to = to
        BY <1>2, <4>3 DEF HandlerRec, HandlerPcs
      <4>6. r.then \in {"end", "move"}
        BY <1>2, <1>3 DEF Fits
      <4> HIDE DEF n
      <4> QED BY <1>6, <4>3, <4>4, <4>5, <4>6
    <3> QED BY <3>1, <3>2
  <2> QED BY <1>10, <2>1 DEF HandleFailure, lock, ghosts, TypeInv, StateOK
<1>11. CASE MoveBack(p)
  <2>1. ProcsOK' /\ Others
    BY <1>5, <1>11 DEF MoveBack
  <2>2. r.to \in Columns
    BY <1>2, <1>11 DEF MoveBack, At, Fits
  <2> QED BY <1>3, <1>4, <1>11, <2>1, <2>2 DEF MoveBack, lock, ghosts, TypeInv, StateOK
<1>12. CASE FailRun(p)
  <2>1. ProcsOK' /\ Others
    BY <1>5, <1>12 DEF FailRun
  <2> QED BY <1>12, <2>1 DEF FailRun, lock, ghosts, TypeInv, StateOK
<1> QED
  BY <1>8, <1>9, <1>10, <1>11, <1>12

\* A coroutine is started.
LEMMA StartOK ==
  ASSUME ProcsOK, NEW p \in Procs, NEW r, Fits(p, r), Start(p, r)
  PROVE  /\ ProcsOK' /\ proc[p] = Idle /\ proc'[p] = r
         /\ \A q \in Procs \ {p} : proc'[q] = proc[q]
  BY OneMoves DEF Start

LEMMA ReportOK ==
  ASSUME ProcsOK, NEW i \in Items, NEW ok \in BOOLEAN, Report(i, ok)
  PROVE  /\ ProcsOK' /\ proc[Completed(i)] = Idle
         /\ proc'[Completed(i)].pc = IF ok THEN "succeeded" ELSE "failed"
         /\ \A q \in Procs \ {Completed(i)} : proc'[q] = proc[q]
<1> DEFINE pc == IF ok THEN "succeeded" ELSE "failed"
           r == Handler(pc, i, NoColumn)
<1>1. /\ r \in HandlerRec /\ r.pc = pc /\ r.item = i /\ r.then = "end"
  BY NewHandler DEF HandlerPcs
<1>2. Start(Completed(i), r)
  BY DEF Report
<1> HIDE DEF r
<1>3. Fits(Completed(i), r)
  BY <1>1, ProcNames DEF Fits, CompletedPcs, ReleasePcs
<1> QED
  BY <1>1, <1>2, <1>3, StartOK, ProcNames

LEMMA TaskStepsType ==
  ASSUME TypeInv, NEW i \in Items, TaskStep(i)
  PROVE  /\ TypeInv'
         /\ \A j \in Items \ {i} : task'[j] = task[j]
         /\ \A q \in Procs \ {Completed(i)} : proc'[q] = proc[q]
<1> DEFINE TaskRec == [pc : {"idle", "started", "working", "clear", "report", "cleanup"},
                       ok : BOOLEAN]
<1>1. task \in [Items -> TaskRec] /\ task[i] \in TaskRec
  BY DEF TypeInv, StateOK
<1>2. NoTask \in TaskRec
  BY DEF NoTask
<1>3. \A pc \in {"started", "working", "clear", "report", "cleanup"} :
        [task[i] EXCEPT !.pc = pc] \in TaskRec
  BY <1>1
<1>4. ASSUME NEW t \in TaskRec, task' = [task EXCEPT ![i] = t],
             UNCHANGED <<col, owner, meta, queue, stranded, mishaps>>,
             run' \subseteq run, ProcsOK'
      PROVE  TypeInv' /\ \A j \in Items \ {i} : task'[j] = task[j]
  BY <1>1, <1>4 DEF TypeInv, StateOK
<1>5. ASSUME NEW pc \in {"started", "working", "clear", "report", "cleanup"},
             task' = [task EXCEPT ![i].pc = pc]
      PROVE  \E t \in TaskRec : task' = [task EXCEPT ![i] = t]
  BY <1>1, <1>3, <1>5
<1>6. CASE BeginExecution(i)
  <2>1. ProcsOK' /\ \A q \in Procs \ {Completed(i)} : proc'[q] = proc[q]
    BY <1>6, ReportOK DEF BeginExecution, TypeInv, ProcsOK
  <2> QED BY <1>4, <1>5, <1>6, <2>1 DEF BeginExecution, lock, ghosts
<1>7. CASE PrepareFails(i)
  <2>1. ProcsOK' /\ \A q \in Procs \ {Completed(i)} : proc'[q] = proc[q]
    BY <1>7, ReportOK DEF PrepareFails, TypeInv
  <2> QED BY <1>4, <1>5, <1>7, <2>1 DEF PrepareFails, lock, ghosts
<1>8. CASE AgentReturns(i)
  <2>1. PICK ok \in BOOLEAN : task' = [task EXCEPT ![i] = [pc |-> "clear", ok |-> ok]]
    BY <1>8 DEF AgentReturns
  <2>2. [pc |-> "clear", ok |-> ok] \in TaskRec
    OBVIOUS
  <2>3. ProcsOK' /\ proc' = proc
    BY <1>8 DEF AgentReturns, TypeInv, ProcsOK
  <2> QED BY <1>4, <1>8, <2>1, <2>2, <2>3 DEF AgentReturns, lock, ghosts
<1>9. CASE ClearRun(i)
  <2>1. \E t \in TaskRec : task' = [task EXCEPT ![i] = t]
    BY <1>1, <1>2, <1>3, <1>9 DEF ClearRun
  <2>2. ProcsOK' /\ proc' = proc
    BY <1>9 DEF ClearRun, TypeInv, ProcsOK
  <2> QED BY <1>4, <1>9, <2>1, <2>2 DEF ClearRun, lock, ghosts
<1>10. CASE PublishCompletion(i)
  <2>1. ProcsOK' /\ \A q \in Procs \ {Completed(i)} : proc'[q] = proc[q]
    BY <1>1, <1>10, ReportOK DEF PublishCompletion, TypeInv
  <2> QED BY <1>2, <1>4, <1>10, <2>1 DEF PublishCompletion, lock, ghosts
<1> QED
  BY <1>6, <1>7, <1>8, <1>9, <1>10 DEF TaskStep

LEMMA MishapType ==
  ASSUME StateOK, NEW kind, Mishap(kind)
  PROVE  mishaps' \subseteq Mishaps /\ Cardinality(mishaps') <= MaxMishaps /\ mishaps' # {}
<1>1. Mishaps \subseteq {"careless", "restart"} /\ MaxMishaps \in Nat
  BY PipelineAssumption
<1>2. IsFiniteSet({"careless"} \cup {"restart"})
  BY FS_Singleton, FS_Union
<1>3. IsFiniteSet(mishaps)
  <2>1. mishaps \subseteq {"careless"} \cup {"restart"}
    BY <1>1 DEF StateOK
  <2> QED BY <1>2, <2>1, FS_Subset
<1>4. Cardinality(mishaps) \in Nat /\ Cardinality(mishaps \cup {kind}) = Cardinality(mishaps) + 1
  BY <1>3, FS_CardinalityType, FS_AddElement DEF Mishap
<1> QED
  BY <1>1, <1>4 DEF Mishap, StateOK

LEMMA MoveCardType ==
  ASSUME TypeInv, NEW i \in Items, NEW to \in Columns, MoveCard(i, to)
  PROVE  /\ TypeInv'
         /\ proc[Moved(i)] = Idle /\ proc'[Moved(i)] = Handler("event", i, to)
         /\ \A q \in Procs \ {Moved(i)} : proc'[q] = proc[q]
<1>1. Fits(Moved(i), Handler("event", i, to))
  BY NewHandler, ProcNames DEF Fits, MovedPcs, ReleasePcs, HandlerPcs
<1>2. /\ ProcsOK' /\ proc[Moved(i)] = Idle /\ proc'[Moved(i)] = Handler("event", i, to)
      /\ \A q \in Procs \ {Moved(i)} : proc'[q] = proc[q]
  BY <1>1, StartOK, ProcNames DEF MoveCard, TypeInv
<1>3. mishaps' \subseteq Mishaps /\ Cardinality(mishaps') <= MaxMishaps
  BY MishapType DEF MoveCard, TypeInv, StateOK
<1> QED
  BY <1>2, <1>3 DEF MoveCard, lock, TypeInv, StateOK

LEMMA ScanStepsType ==
  ASSUME TypeInv, ScanStep
  PROVE  /\ TypeInv' /\ proc[Scan] # Idle
         /\ \A q \in Procs \ {Scan} : proc'[q] = proc[q]
<1> DEFINE r == proc[Scan]
<1>1. r.pc \in ScanPcs /\ r.pc # "idle"
  BY DEF ScanStep, ScanHolders, ScanRun, At, ScanPcs
<1>2. Fits(Scan, r) /\ r \in HandlerRec /\ r # Idle /\ r.then = "end"
  BY <1>1, InHandler, ProcNames DEF TypeInv, Fits
<1>3. ProcsOK' /\ \A q \in Procs \ {Scan} : proc'[q] = proc[q]
  <2>1. CASE ScanHolders
    <3> DEFINE n == IF owner = Nobody THEN Idle ELSE [r EXCEPT !.pc = "scanRun", !.item = owner]
    <3>1. proc' = [proc EXCEPT ![Scan] = n]
      BY <2>1, ProcNames DEF ScanHolders, TypeInv, ProcsOK
    <3>2. owner # Nobody => owner \in Items
      BY DEF TypeInv, StateOK
    <3>3. owner # Nobody => /\ n \in HandlerRec /\ n.pc = "scanRun" /\ n.item = owner
                            /\ n.then = "end"
      BY <1>2, <3>2 DEF HandlerRec, HandlerPcs
    <3>4. owner = Nobody => n = Idle
      OBVIOUS
    <3> HIDE DEF n
    <3>5. n = Idle \/ Fits(Scan, n)
      BY <3>2, <3>3, <3>4, ProcNames DEF Fits, ScanPcs, ReleasePcs
    <3> QED BY <3>1, <3>5, OneMoves, ProcNames DEF TypeInv
  <2>2. CASE ScanRun
    <3>1. r.item \in Items
      BY <1>2, <2>2 DEF ScanRun, At, Fits
    <3> QED BY <1>1, <2>2, <3>1, GotoOK, ReleaseOK, ProcNames DEF ScanRun, TypeInv
  <2> QED BY <2>1, <2>2 DEF ScanStep
<1> QED
  BY <1>2, <1>3 DEF ScanStep, ScanHolders, ScanRun, lock, ghosts, TypeInv, StateOK

LEMMA RestartType ==
  ASSUME TypeInv, Restart
  PROVE  TypeInv' /\ mishaps' # {}
<1> DEFINE r == Handler("scanHolders", Nobody, NoColumn)
<1>1. r \in HandlerRec /\ r.pc = "scanHolders" /\ r.then = "end"
  BY NewHandler DEF HandlerPcs
<1>2. Fits(Scan, r)
  BY <1>1, ProcNames DEF Fits, ScanPcs, ReleasePcs
<1>3. proc' = [[p \in Procs |-> Idle] EXCEPT ![Scan] = r]
  BY DEF Restart
<1> HIDE DEF r
<1>4. ProcsOK'
  BY <1>1, <1>2, <1>3 DEF ProcsOK
<1>5. task' \in [Items -> [pc : {"idle", "started", "working", "clear", "report",
                                "cleanup"}, ok : BOOLEAN]]
  BY DEF Restart, NoTask
<1>6. /\ mishaps' \subseteq Mishaps /\ Cardinality(mishaps') <= MaxMishaps /\ mishaps' # {}
      /\ stranded' \in BOOLEAN
  BY MishapType DEF Restart, TypeInv
<1> QED
  BY <1>4, <1>5, <1>6 DEF Restart, lock, TypeInv, StateOK

LEMMA NextType == TypeInv /\ [Next]_vars => TypeInv'
<1> SUFFICES ASSUME TypeInv, [Next]_vars
             PROVE  TypeInv'
  OBVIOUS
<1>1. ASSUME NEW p \in Procs, HandlerStep(p)
      PROVE  TypeInv'
  <2>1. HsetMeta(p) => At(p, "hset") \/ At(p, "grantHset")
    BY DEF HsetMeta
  <2> QED
    BY <1>1, <2>1, MovedStepsType, ReleaseStepsType, CompletedStepsType DEF HandlerStep
<1>2. CASE UNCHANGED vars
  BY <1>2 DEF vars, TypeInv, StateOK, ProcsOK
<1> QED
  BY <1>1, <1>2, TaskStepsType, MoveCardType, ScanStepsType, RestartType DEF Next

LEMMA TypeInvImpliesTypeOK == TypeInv => TypeOK
<1> SUFFICES ASSUME TypeInv PROVE TypeOK
  OBVIOUS
<1>1. \A p \in Procs : proc[p] # Idle =>
        /\ proc[p].pc \in HandlerPcs
        /\ proc[p].item \in Items \cup {Nobody}
        /\ proc[p].to \in Columns \cup {NoColumn}
        /\ proc[p].then \in {"end", "move", "completeRun"}
        /\ proc[p].named \in BOOLEAN
        /\ proc[p].snap \in [Items -> Columns] \cup {<<>>}
        /\ proc[p].next \in Items \cup {Nobody}
  BY HandlerFields DEF TypeInv, ProcsOK, Fits
<1> QED
  BY <1>1 DEF TypeOK, TypeInv, StateOK, ProcsOK

\* The state is well formed in every reachable state: items stand in columns of
\* the template, and a handler is at one of its steps with the locals it needs.
THEOREM TypeCorrect == Spec => []TypeOK
<1> QED
  BY InitType, NextType, TypeInvImpliesTypeOK, PTL DEF Spec

-----------------------------------------------------------------------------
(* No lost wakeup *)

LEMMA GotoPc ==
  ASSUME ProcsOK, NEW p \in Procs, proc[p].pc # "idle", NEW pc, pc # "end",
         Goto(p, pc) \/ Resume(p, pc)
  PROVE  proc'[p].pc = pc /\ proc'[p].to = proc[p].to
<1>1. proc[p] \in HandlerRec
  BY InHandler
<1>2. \/ proc'[p] = [proc[p] EXCEPT !.pc = pc]
      \/ proc'[p] = [proc[p] EXCEPT !.pc = pc, !.named = FALSE, !.snap = <<>>,
                                    !.next = Nobody]
  BY DEF Goto, Resume, ProcsOK
<1> QED
  BY <1>1, <1>2 DEF HandlerRec

\* A step that neither frees the lock nor queues an item, of a handler that had
\* nothing to hand over.
LEMMA KeepsWaking ==
  ASSUME SomebodyWakes, NEW p \in Procs, ~Waking(proc[p]),
         \A q \in Procs \ {p} : proc'[q] = proc[q],
         owner' = owner \/ owner' # Nobody, queue' \subseteq queue, stranded' = stranded
  PROVE  SomebodyWakes'
<1> SUFFICES ASSUME owner' = Nobody, queue' # {}, ~stranded'
             PROVE  \E q \in Procs : Waking(proc'[q])
  BY DEF SomebodyWakes, Waking
<1>1. PICK q \in Procs : Waking(proc[q])
  BY DEF SomebodyWakes
<1> QED BY <1>1

LEMMA WakesNow ==
  ASSUME NEW p \in Procs, proc'[p].pc \in {"acquire", "deleteMeta", "fetch", "sync", "grant"}
  PROVE  SomebodyWakes'
  BY DEF SomebodyWakes, Waking

LEMMA HandlerWakes ==
  ASSUME TypeInv, SomebodyWakes, NEW p \in Procs, HandlerStep(p)
  PROVE  SomebodyWakes'
<1> USE DEF Item
<1>1. Nobody \notin Items
  BY PipelineAssumption
<1>2. HsetMeta(p) => At(p, "hset") \/ At(p, "grantHset")
  BY DEF HsetMeta
<1>3. \A q \in Procs \ {p} : proc'[q] = proc[q]
  BY <1>2, MovedStepsType, ReleaseStepsType, CompletedStepsType DEF HandlerStep
<1>4. ASSUME ~Waking(proc[p]), owner' = owner, queue' \subseteq queue, stranded' = stranded
      PROVE  SomebodyWakes'
  BY <1>3, <1>4, KeepsWaking
<1>5. CASE \/ HandleColumnChange(p) \/ HsetMeta(p) \/ OnLockAcquired(p) \/ CheckRun(p)
           \/ StartWorkflowRun(p) \/ ReadRun(p) \/ SetStage(p) \/ Execute(p)
           \/ ExecuteFails(p) \/ CompleteRun(p) \/ ReadMeta(p) \/ Granted(p) \/ Dequeue(p)
  <2>1. /\ ~Waking(proc[p]) /\ owner' = owner /\ queue' \subseteq queue
        /\ stranded' = stranded
    BY <1>5 DEF HandleColumnChange, HsetMeta, OnLockAcquired, CheckRun, StartWorkflowRun,
       ReadRun, SetStage, Execute, ExecuteFails, CompleteRun, ReadMeta, Granted, Dequeue,
       At, Waking, lock, ghosts
  <2> QED BY <1>4, <2>1
<1>6. CASE \/ HandleSuccess(p) \/ AutoMove(p) \/ HandleFailure(p) \/ MoveBack(p) \/ FailRun(p)
  <2>1. /\ ~Waking(proc[p]) /\ owner' = owner /\ queue' \subseteq queue
        /\ stranded' = stranded
    BY <1>6 DEF HandleSuccess, AutoMove, HandleFailure, MoveBack, FailRun,
       At, Waking, lock, ghosts
  <2> QED BY <1>4, <2>1
<1>7. CASE Enqueue(p)
  <2>1. CASE Item(p) \in queue
    <3>1. /\ ~Waking(proc[p]) /\ owner' = owner /\ queue' \subseteq queue
          /\ stranded' = stranded
      BY <1>7, <2>1 DEF Enqueue, At, Waking, lock, ghosts
    <3> QED BY <1>4, <3>1
  <2>2. CASE Item(p) \notin queue
    <3>1. Goto(p, "acquire") /\ proc[p].pc # "idle"
      BY <1>7, <2>2 DEF Enqueue, At
    <3>2. proc'[p].pc = "acquire"
      BY <3>1, GotoPc DEF TypeInv
    <3> QED BY <3>2, WakesNow
  <2> QED BY <2>1, <2>2
<1>8. CASE TryAcquire(p)
  <2>1. owner' # Nobody
    BY <1>1, <1>8, MovedStepsType DEF TryAcquire
  <2> QED BY <2>1 DEF SomebodyWakes
<1>9. CASE Release(p)
  <2>1. CASE Goto(p, "deleteMeta")
    <3>1. proc[p].pc # "idle"
      BY <1>9 DEF Release, At
    <3>2. proc'[p].pc = "deleteMeta"
      BY <2>1, <3>1, GotoPc DEF TypeInv
    <3> QED BY <3>2, WakesNow
  <2>2. CASE ~Goto(p, "deleteMeta")
    <3>1. /\ ~Waking(proc[p]) /\ owner' = owner /\ queue' \subseteq queue
          /\ stranded' = stranded
      BY <1>9, <2>2 DEF Release, At, Waking, ghosts
    <3> QED BY <1>4, <3>1
  <2> QED BY <2>1, <2>2
<1>10. CASE DeleteMeta(p)
  <2>1. CASE proc[p].named
    <3>1. Resume(p, "fetch") /\ proc[p].pc # "idle"
      BY <1>10, <2>1 DEF DeleteMeta, At
    <3>2. proc'[p].pc = "fetch"
      BY <3>1, GotoPc DEF TypeInv
    <3> QED BY <3>2, WakesNow
  <2>2. CASE ~proc[p].named
    BY <1>10, <2>2 DEF DeleteMeta, SomebodyWakes
  <2> QED BY <2>1, <2>2
<1>11. CASE FetchBoard(p)
  <2>1. proc[p] \in HandlerRec
    BY <1>11, InHandler DEF FetchBoard, At, TypeInv
  <2>2. proc'[p].pc = "sync"
    BY <1>11, <2>1 DEF FetchBoard, TypeInv, ProcsOK, HandlerRec
  <2> QED BY <2>2, WakesNow
<1>12. CASE Peek(p)
  <2>1. proc[p] \in HandlerRec
    BY <1>12, InHandler DEF Peek, At, TypeInv
  <2>2. ASSUME NEW i, proc' = [proc EXCEPT ![p].next = i, ![p].pc = "grant",
                                           ![p].snap = <<>>]
        PROVE  SomebodyWakes'
    <3>1. proc'[p].pc = "grant"
      BY <2>1, <2>2 DEF TypeInv, ProcsOK, HandlerRec
    <3> QED BY <3>1, WakesNow
  <2>3. queue' = {} => SomebodyWakes'
    BY DEF SomebodyWakes
  <2> QED BY <1>12, <2>2, <2>3 DEF Peek
<1>13. CASE Grant(p)
  <2>1. proc[p].next \in Items
    BY <1>13, InHandler DEF Grant, At, TypeInv, Fits
  <2>2. owner' # Nobody
    BY <1>1, <1>13, <2>1 DEF Grant
  <2> QED BY <2>2 DEF SomebodyWakes
<1> QED
  BY <1>5, <1>6, <1>7, <1>8, <1>9, <1>10, <1>11, <1>12, <1>13 DEF HandlerStep

LEMMA NextWakes == TypeInv /\ SomebodyWakes /\ [Next]_vars => SomebodyWakes'
<1> SUFFICES ASSUME TypeInv, SomebodyWakes, [Next]_vars
             PROVE  SomebodyWakes'
  OBVIOUS
<1>1. ~Waking(Idle)
  BY DEF Waking, Idle
<1>2. ASSUME UNCHANGED <<owner, queue, stranded, proc>>
      PROVE  SomebodyWakes'
  BY <1>2 DEF SomebodyWakes, Waking
<1>3. ASSUME NEW i \in Items, TaskStep(i)
      PROVE  SomebodyWakes'
  <2>1. UNCHANGED <<owner, queue, stranded>>
    BY <1>3 DEF TaskStep, BeginExecution, PrepareFails, AgentReturns, ClearRun,
       PublishCompletion, lock, ghosts
  <2>2. UNCHANGED proc \/ \E ok \in BOOLEAN : Report(i, ok)
    <3>1. task[i].ok \in BOOLEAN
      BY DEF TypeInv, StateOK
    <3> QED
      BY <1>3, <3>1 DEF TaskStep, BeginExecution, PrepareFails, AgentReturns, ClearRun,
         PublishCompletion
  <2>3. ASSUME NEW ok \in BOOLEAN, Report(i, ok)
        PROVE  SomebodyWakes'
    <3>1. proc[Completed(i)] = Idle /\ \A q \in Procs \ {Completed(i)} : proc'[q] = proc[q]
      BY <2>3, ReportOK DEF TypeInv
    <3> QED BY <1>1, <2>1, <3>1, KeepsWaking, ProcNames
  <2> QED BY <1>2, <2>1, <2>2, <2>3
<1>4. ASSUME NEW i \in Items, NEW to \in Columns, MoveCard(i, to)
      PROVE  SomebodyWakes'
  <2>1. UNCHANGED <<owner, queue, stranded>>
    BY <1>4 DEF MoveCard, lock
  <2>2. proc[Moved(i)] = Idle /\ \A q \in Procs \ {Moved(i)} : proc'[q] = proc[q]
    BY <1>4, MoveCardType
  <2> QED BY <1>1, <2>1, <2>2, KeepsWaking, ProcNames
<1>5. CASE ScanStep
  <2>1. ~Waking(proc[Scan]) /\ UNCHANGED <<owner, queue, stranded>>
    BY <1>5 DEF ScanStep, ScanHolders, ScanRun, At, Waking, lock, ghosts
  <2> QED BY <1>5, <2>1, KeepsWaking, ProcNames, ScanStepsType
<1>6. CASE Restart
  BY <1>6 DEF Restart, lock, SomebodyWakes
<1>7. CASE UNCHANGED vars
  BY <1>2, <1>7 DEF vars
<1> QED
  BY <1>3, <1>4, <1>5, <1>6, <1>7, HandlerWakes DEF Next

\* When all handlers are done, a free lock has nobody waiting for it, unless a
\* restart cut a hand-over short or the metadata was missing at a release: in no
\* interleaving of column changes, completions and releases does each handler
\* leave the hand-over to another.
THEOREM WakeupsKept == Spec => []NoLostWakeup
<1>1. Init => SomebodyWakes
  BY DEF Init, SomebodyWakes
<1>2. SomebodyWakes => NoLostWakeup
  BY DEF SomebodyWakes, NoLostWakeup, Quiet, Waking, Idle
<1> QED
  BY <1>1, <1>2, InitType, NextType, NextWakes, PTL DEF Spec

-----------------------------------------------------------------------------
(* An agent works with the lock *)

\* What happens to one item is nothing to the others: it takes nobody else's
\* lock.
LEMMA OnlyItem ==
  ASSUME Orderly, NEW i \in Items, OneThing(i)',
         \A q \in Procs \ {Moved(i), Completed(i)} : proc'[q] = proc[q],
         \A j \in Items \ {i} : task'[j] = task[j],
         owner' = owner \/ owner \in {Nobody, i}
  PROVE  Orderly'
<1>1. proc'[Scan] = Idle
  BY ProcNames DEF Orderly
<1>2. ASSUME NEW j \in Items, j # i
      PROVE  OneThing(j)'
  <2>1. Moved(j) \notin {Moved(i), Completed(i)} /\ Completed(j) \notin {Moved(i), Completed(i)}
    BY <1>2, ProcNames
  <2>2. /\ proc'[Moved(j)] = proc[Moved(j)] /\ proc'[Completed(j)] = proc[Completed(j)]
        /\ task'[j] = task[j]
    BY <1>2, <2>1, ProcNames
  <2>3. owner = j => owner' = j
    BY <1>2, PipelineAssumption
  <2>4. OneThing(j)
    BY DEF Orderly
  <2> QED BY <2>2, <2>3, <2>4 DEF OneThing, Sure
<1> QED
  BY <1>1, <1>2 DEF Orderly

LEMMA IdleUnsure == ~Sure(Idle) /\ NoTask.pc = "idle"
  BY DEF Sure, Idle, NoTask

LEMMA MovedOrderly ==
  ASSUME TypeInv, Orderly, NEW p \in Procs,
         \/ HandleColumnChange(p) \/ Enqueue(p) \/ TryAcquire(p)
         \/ HsetMeta(p) /\ At(p, "hset")
         \/ OnLockAcquired(p) \/ CheckRun(p) \/ StartWorkflowRun(p)
         \/ ReadRun(p) \/ SetStage(p) \/ Execute(p) \/ ExecuteFails(p) \/ CompleteRun(p)
  PROVE  Orderly'
<1>1. PICK i \in Items : i = Item(p) /\ p = Moved(i) /\ \A q \in Procs \ {p} : proc'[q] = proc[q]
  BY MovedStepsType
<1> DEFINE r == proc[p]
<1>2. r.pc \in MovedPcs /\ r.pc # "idle" /\ r # Idle
  BY DEF HandleColumnChange, Enqueue, TryAcquire, HsetMeta, OnLockAcquired, CheckRun, Idle,
         StartWorkflowRun, ReadRun, SetStage, Execute, ExecuteFails, CompleteRun, At, MovedPcs
<1>3. /\ proc[Completed(i)] = Idle /\ proc'[Completed(i)] = Idle /\ task[i] = NoTask
      /\ Sure(r) => owner = i
  BY <1>1, <1>2, ProcNames DEF Orderly, OneThing
<1>4. ASSUME task' = task, Sure(proc'[p]) => owner' = i, owner' = owner \/ owner = Nobody
      PROVE  Orderly'
  <2>1. OneThing(i)'
    BY <1>1, <1>3, <1>4, IdleUnsure DEF OneThing
  <2> QED BY <1>1, <1>4, <2>1, OnlyItem
<1>5. ASSUME Goto(p, "end")
      PROVE  proc'[p] = Idle
  BY <1>5 DEF Goto, TypeInv, ProcsOK
<1>6. ASSUME NEW pc, Goto(p, pc), pc # "end"
      PROVE  proc'[p].pc = pc /\ proc'[p].to = r.to
  BY <1>2, <1>6, GotoPc DEF TypeInv
<1>7. ASSUME NEW then, ReleaseThen(p, then)
      PROVE  proc'[p].pc = "release"
  <2>1. r \in HandlerRec
    BY <1>2, InHandler DEF TypeInv
  <2> QED BY <1>7, <2>1 DEF ReleaseThen, TypeInv, ProcsOK, HandlerRec
<1>8. StartAgent(p) \in {"end", "readRun"}
  BY DEF StartAgent
<1>9. CASE HandleColumnChange(p)
  <2>1. task' = task /\ owner' = owner
    BY <1>9 DEF HandleColumnChange, lock
  <2>2. CASE r.to \in Agents \ {Trigger}
    <3>1. owner = i
      BY <1>3, <1>9, <2>2 DEF HandleColumnChange, At, Sure
    <3> QED BY <1>4, <2>1, <3>1
  <2>3. CASE r.to \notin Agents \ {Trigger}
    <3>1. \/ Goto(p, "enqueue") \/ Goto(p, "end") \/ ReleaseThen(p, "completeRun")
      BY <1>9, <2>3 DEF HandleColumnChange
    <3>2. ~Sure(proc'[p])
      BY <1>5, <1>6, <1>7, <3>1, IdleUnsure DEF Sure
    <3> QED BY <1>4, <2>1, <3>2
  <2> QED BY <2>2, <2>3
<1>10. CASE Enqueue(p) \/ CompleteRun(p)
  <2>1. Goto(p, "end") \/ Goto(p, "acquire")
    BY <1>10 DEF Enqueue, CompleteRun
  <2>2. ~Sure(proc'[p])
    BY <1>5, <1>6, <2>1, IdleUnsure DEF Sure
  <2>3. task' = task /\ owner' = owner
    BY <1>10 DEF Enqueue, CompleteRun, lock
  <2> QED BY <1>4, <2>2, <2>3
<1>11. CASE TryAcquire(p)
  <2>1. task' = task
    BY <1>11 DEF TryAcquire
  <2>2. CASE owner \notin {Nobody, i}
    <3>1. Goto(p, "end") /\ owner' = owner
      BY <1>1, <1>11, <2>2 DEF TryAcquire
    <3> QED BY <1>4, <1>5, <2>1, <3>1, IdleUnsure
  <2>3. CASE owner \in {Nobody, i}
    <3>1. owner' = i /\ (owner' = owner \/ owner = Nobody)
      BY <1>1, <1>11, <2>3 DEF TryAcquire
    <3> QED BY <1>4, <2>1, <3>1
  <2> QED BY <2>2, <2>3
<1>12. CASE \/ HsetMeta(p) /\ At(p, "hset")
            \/ OnLockAcquired(p) \/ CheckRun(p) \/ StartWorkflowRun(p) \/ ReadRun(p)
            \/ SetStage(p)
  <2>1. task' = task /\ owner' = owner /\ Sure(r)
    BY <1>12 DEF HsetMeta, OnLockAcquired, CheckRun, StartWorkflowRun, ReadRun, SetStage,
       At, Sure, lock
  <2> QED BY <1>3, <1>4, <2>1
<1>13. CASE ExecuteFails(p)
  <2>1. Goto(p, "end") \/ ReleaseThen(p, "end")
    BY <1>13 DEF ExecuteFails
  <2>2. ~Sure(proc'[p])
    BY <1>5, <1>7, <2>1, IdleUnsure DEF Sure
  <2>3. task' = task /\ owner' = owner
    BY <1>13 DEF ExecuteFails, lock
  <2> QED BY <1>4, <2>2, <2>3
<1>14. CASE Execute(p)
  <2>1. Sure(r) /\ owner' = owner /\ proc'[p] = Idle
    BY <1>5, <1>14 DEF Execute, At, Sure, lock
  <2>2. owner' = i
    BY <1>3, <2>1
  <2>3. \A j \in Items \ {i} : task'[j] = task[j]
    BY <1>1, <1>14 DEF Execute, TypeInv, StateOK
  <2>4. OneThing(i)'
    BY <1>1, <1>3, <2>1, <2>2, IdleUnsure DEF OneThing
  <2> QED BY <1>1, <2>1, <2>3, <2>4, OnlyItem
<1> QED
  BY <1>9, <1>10, <1>11, <1>12, <1>13, <1>14

\* A handler in its release or hand-over is not about to start an agent.
LEMMA ReleaseOrderly ==
  ASSUME TypeInv, Orderly, NEW p \in Procs,
         \/ ReadMeta(p) \/ Release(p) \/ DeleteMeta(p) \/ FetchBoard(p) \/ Peek(p)
         \/ Grant(p)
         \/ HsetMeta(p) /\ At(p, "grantHset")
         \/ Granted(p) \/ Dequeue(p)
  PROVE  Orderly'
<1> DEFINE r == proc[p]
<1>1. Item(p) \in Items /\ \A q \in Procs \ {p} : proc'[q] = proc[q]
  BY ReleaseStepsType
<1>2. r.pc \in ReleasePcs /\ r.pc # "idle" /\ r # Idle
  <2>1. r.pc \in ReleasePcs /\ r.pc # "idle"
    BY DEF ReadMeta, Release, DeleteMeta, FetchBoard, Peek, Grant, HsetMeta, Granted, Dequeue,
           At, ReleasePcs
  <2> QED BY <2>1 DEF Idle
<1>3. Fits(p, r) /\ r \in HandlerRec
  BY <1>2, InHandler DEF TypeInv
<1>4. PICK i \in Items : i = Item(p) /\ (p = Moved(i) \/ p = Completed(i))
  <2>1. p # Scan
    BY <1>2 DEF Orderly
  <2> QED BY <1>1, <1>3, <2>1, ProcKinds DEF Fits, Item
<1>5. task' = task /\ (owner' = owner \/ owner \in {Nobody, i})
  BY <1>4 DEF ReadMeta, Release, DeleteMeta, FetchBoard, Peek, Grant, HsetMeta, Granted,
              Dequeue, lock
<1>6. task[i] = NoTask
  BY <1>2, <1>4, ProcNames DEF Orderly, OneThing, ReleasePcs
<1>7. ~Sure(proc'[p])
  <2>1. r.then \in {"end", "move", "completeRun"}
    BY <1>3, HandlerFields
  <2>2. ASSUME NEW pc \in {"end", "fetch", "move", "completeRun"}, Resume(p, pc)
        PROVE  ~Sure(proc'[p])
    <3>1. pc = "end" => proc'[p] = Idle
      BY <2>2 DEF Resume, TypeInv, ProcsOK
    <3>2. pc # "end" => proc'[p].pc = pc
      BY <1>2, <2>2, GotoPc DEF TypeInv
    <3> QED BY <3>1, <3>2, IdleUnsure DEF Sure
  <2>3. ASSUME NEW pc \in {"deleteMeta", "grantHset", "granted", "dequeue"}, Goto(p, pc)
        PROVE  ~Sure(proc'[p])
    <3>1. proc'[p].pc = pc
      BY <1>2, <2>3, GotoPc DEF TypeInv
    <3> QED BY <3>1 DEF Sure
  <2>4. ASSUME NEW v, NEW w,
               \/ proc' = [proc EXCEPT ![p].named = v, ![p].pc = "script"]
               \/ proc' = [proc EXCEPT ![p].snap = v, ![p].pc = "sync"]
               \/ proc' = [proc EXCEPT ![p].next = v, ![p].pc = "grant", ![p].snap = w]
        PROVE  ~Sure(proc'[p])
    <3>1. proc'[p].pc \in {"script", "sync", "grant"}
      BY <1>3, <2>4 DEF TypeInv, ProcsOK, HandlerRec
    <3> QED BY <3>1 DEF Sure
  <2>5. CASE Release(p)
    <3>1. \/ Goto(p, "deleteMeta")
          \/ Resume(p, IF r.then = "completeRun" THEN "end" ELSE r.then)
      BY <2>5 DEF Release
    <3> QED BY <2>1, <2>2, <2>3, <3>1
  <2>6. CASE DeleteMeta(p)
    <3>1. Resume(p, IF r.named THEN "fetch" ELSE r.then)
      BY <2>6 DEF DeleteMeta
    <3> QED BY <2>1, <2>2, <3>1
  <2>7. CASE ReadMeta(p) \/ FetchBoard(p)
    BY <2>4, <2>7 DEF ReadMeta, FetchBoard
  <2>8. CASE Peek(p)
    BY <2>1, <2>2, <2>4, <2>8 DEF Peek
  <2>9. CASE Grant(p) \/ Granted(p) \/ Dequeue(p)
    BY <2>1, <2>2, <2>3, <2>9 DEF Grant, Granted, Dequeue
  <2>10. CASE HsetMeta(p) /\ At(p, "grantHset")
    BY <2>3, <2>10 DEF HsetMeta, At
  <2> QED BY <2>5, <2>6, <2>7, <2>8, <2>9, <2>10
<1>8. p = Completed(i) => proc[Moved(i)] = Idle
  BY <1>2 DEF Orderly, OneThing
<1>9. p = Moved(i) => proc[Completed(i)] = Idle
  BY <1>2, <1>4 DEF Orderly, OneThing
<1>10. OneThing(i)'
  BY <1>1, <1>4, <1>5, <1>6, <1>7, <1>8, <1>9, ProcNames, IdleUnsure DEF OneThing
<1> QED
  BY <1>1, <1>4, <1>5, <1>10, OnlyItem

LEMMA CompletedOrderly ==
  ASSUME TypeInv, Orderly, NEW p \in Procs,
         \/ HandleSuccess(p) \/ AutoMove(p)
         \/ HandleFailure(p) \/ MoveBack(p) \/ FailRun(p)
  PROVE  Orderly'
<1>1. PICK i \in Items : /\ i = Item(p) /\ p = Completed(i)
                         /\ \A q \in Procs \ {p} : proc'[q] = proc[q]
  BY CompletedStepsType
<1> DEFINE r == proc[p]
<1>2. r.pc \in CompletedPcs /\ r.pc # "idle" /\ r # Idle
  BY DEF HandleSuccess, AutoMove, HandleFailure, MoveBack, FailRun, At, CompletedPcs, Idle
<1>3. r \in HandlerRec
  BY <1>2, InHandler DEF TypeInv
<1>4. task' = task /\ owner' = owner
  BY DEF HandleSuccess, AutoMove, HandleFailure, MoveBack, FailRun, lock
<1>5. /\ proc[Moved(i)] = Idle /\ proc'[Moved(i)] = Idle
      /\ task[i] = NoTask \/ (task[i].pc = "cleanup" /\ r.pc \in {"failed", "moveBack", "failRun"})
  BY <1>1, <1>2, ProcNames DEF Orderly, OneThing
<1>6. r.pc \in {"failed", "moveBack", "failRun"} =>
        proc'[p] = Idle \/ proc'[p].pc \in {"moveBack", "failRun"}
  <2>1. ASSUME NEW pc, Goto(p, pc), pc # "end"
        PROVE  proc'[p].pc = pc
    BY <1>2, <2>1, GotoPc DEF TypeInv
  <2>2. ASSUME Goto(p, "end")
        PROVE  proc'[p] = Idle
    BY <2>2 DEF Goto, TypeInv, ProcsOK
  <2>3. ASSUME NEW to, proc' = [proc EXCEPT ![p].to = to, ![p].pc = "moveBack"]
        PROVE  proc'[p].pc = "moveBack"
    BY <1>3, <2>3 DEF TypeInv, ProcsOK, HandlerRec
  <2>4. HandleFailure(p) => proc'[p].pc \in {"moveBack", "failRun"}
    BY <2>1, <2>3 DEF HandleFailure
  <2>5. MoveBack(p) => proc'[p].pc = "failRun"
    BY <2>1 DEF MoveBack
  <2>6. FailRun(p) => proc'[p] = Idle
    BY <2>2 DEF FailRun
  <2>7. HandleSuccess(p) \/ AutoMove(p) => r.pc \notin {"failed", "moveBack", "failRun"}
    BY DEF HandleSuccess, AutoMove, At
  <2> QED BY <2>4, <2>5, <2>6, <2>7
<1>7. OneThing(i)'
  BY <1>1, <1>4, <1>5, <1>6, ProcNames, IdleUnsure DEF OneThing
<1> QED
  BY <1>1, <1>4, <1>7, OnlyItem

LEMMA TaskOrderly ==
  ASSUME TypeInv, Orderly, NEW i \in Items, TaskStep(i)
  PROVE  Orderly'
<1>1. /\ \A j \in Items \ {i} : task'[j] = task[j]
      /\ \A q \in Procs \ {Completed(i)} : proc'[q] = proc[q]
  BY TaskStepsType
<1>2. task[i].pc # "idle" /\ task[i] # NoTask
  <2>1. task[i].pc # "idle"
    BY DEF TaskStep, BeginExecution, PrepareFails, AgentReturns, ClearRun, PublishCompletion
  <2> QED BY <2>1 DEF NoTask
<1>3. owner' = owner
  BY DEF TaskStep, BeginExecution, PrepareFails, AgentReturns, ClearRun, PublishCompletion,
         lock
<1>4. proc[Moved(i)] = Idle /\ proc'[Moved(i)] = Idle /\ OneThing(i)
  BY <1>1, <1>2, ProcNames DEF Orderly, OneThing
<1>5. /\ task \in [Items -> [pc : {"idle", "started", "working", "clear", "report", "cleanup"},
                             ok : BOOLEAN]]
      /\ task[i] \in [pc : {"idle", "started", "working", "clear", "report", "cleanup"},
                      ok : BOOLEAN]
  BY DEF TypeInv, StateOK
<1>6. \A pc : task' = [task EXCEPT ![i].pc = pc] => task'[i].pc = pc
  BY <1>5
<1>7. \A t : task' = [task EXCEPT ![i] = t] => task'[i] = t
  BY <1>5
<1>8. OneThing(i)'
  <2>1. CASE BeginExecution(i)
    <3>1. CASE i \in run
      <4>1. task'[i].pc = "working" /\ proc' = proc /\ task[i].pc = "started"
        BY <1>6, <2>1, <3>1 DEF BeginExecution
      <4> QED BY <1>2, <1>3, <1>4, <4>1, IdleUnsure DEF OneThing
    <3>2. CASE i \notin run
      <4>1. task'[i].pc = "cleanup" /\ proc'[Completed(i)].pc = "failed"
        BY <1>6, <2>1, <3>2, ReportOK DEF BeginExecution, TypeInv
      <4> QED BY <1>4, <4>1, IdleUnsure DEF OneThing
    <3> QED BY <3>1, <3>2
  <2>2. CASE PrepareFails(i)
    <3>1. task'[i].pc = "cleanup" /\ proc'[Completed(i)].pc = "failed"
      BY <1>6, <2>2, ReportOK DEF PrepareFails, TypeInv
    <3> QED BY <1>4, <3>1, IdleUnsure DEF OneThing
  <2>3. CASE AgentReturns(i)
    <3>1. PICK ok \in BOOLEAN : task' = [task EXCEPT ![i] = [pc |-> "clear", ok |-> ok]]
      BY <2>3 DEF AgentReturns
    <3>2. task'[i].pc = "clear"
      BY <1>5, <3>1
    <3>3. proc' = proc /\ task[i].pc = "working"
      BY <2>3 DEF AgentReturns
    <3> QED BY <1>2, <1>4, <3>2, <3>3, IdleUnsure DEF OneThing
  <2>4. CASE ClearRun(i)
    <3>1. CASE task[i].pc = "cleanup"
      <4>1. task'[i] = NoTask
        BY <1>7, <2>4, <3>1 DEF ClearRun
      <4> QED BY <1>4, <4>1, IdleUnsure DEF OneThing
    <3>2. CASE task[i].pc # "cleanup"
      <4>1. task' = [task EXCEPT ![i] = [task[i] EXCEPT !.pc = "report"]]
        BY <1>5, <2>4, <3>2 DEF ClearRun
      <4>2. task'[i].pc = "report"
        BY <1>5, <4>1
      <4>3. proc' = proc
        BY <2>4 DEF ClearRun
      <4> QED BY <1>2, <1>4, <3>2, <4>2, <4>3, IdleUnsure DEF OneThing
    <3> QED BY <3>1, <3>2
  <2>5. CASE PublishCompletion(i)
    <3>1. task'[i] = NoTask
      BY <1>7, <2>5 DEF PublishCompletion
    <3> QED BY <1>4, <3>1, IdleUnsure DEF OneThing
  <2> QED BY <2>1, <2>2, <2>3, <2>4, <2>5 DEF TaskStep
<1> QED
  BY <1>1, <1>3, <1>8, OnlyItem

LEMMA NextOrderly == TypeInv /\ OrderlyInv /\ [Next]_vars => OrderlyInv'
<1> SUFFICES ASSUME TypeInv, OrderlyInv, [Next]_vars, mishaps' = {}
             PROVE  Orderly'
  BY DEF OrderlyInv
<1>1. ASSUME NEW p \in Procs, HandlerStep(p)
      PROVE  Orderly'
  <2>1. mishaps' = mishaps
    BY <1>1 DEF HandlerStep, HandleColumnChange, Enqueue, TryAcquire, HsetMeta,
       OnLockAcquired, CheckRun, StartWorkflowRun, ReadRun, SetStage, Execute, ExecuteFails,
       CompleteRun, ReadMeta, Release, DeleteMeta, FetchBoard, Peek, Grant, Granted, Dequeue,
       HandleSuccess, AutoMove, HandleFailure, MoveBack, FailRun, ghosts
  <2>2. Orderly
    BY <2>1 DEF OrderlyInv
  <2>3. HsetMeta(p) => At(p, "hset") \/ At(p, "grantHset")
    BY DEF HsetMeta
  <2> QED
    BY <1>1, <2>2, <2>3, MovedOrderly, ReleaseOrderly, CompletedOrderly DEF HandlerStep
<1>2. ASSUME NEW i \in Items, TaskStep(i)
      PROVE  Orderly'
  <2>1. mishaps' = mishaps
    BY <1>2 DEF TaskStep, BeginExecution, PrepareFails, AgentReturns, ClearRun,
       PublishCompletion, ghosts
  <2> QED BY <1>2, <2>1, TaskOrderly DEF OrderlyInv
<1>3. ASSUME NEW i \in Items, NEW to \in Columns, MoveCard(i, to)
      PROVE  Orderly'
  <2>1. ~Mishap("careless")
    BY DEF Mishap
  <2>2. Considerate(i, to) /\ mishaps' = mishaps /\ owner' = owner /\ task' = task
    BY <1>3, <2>1 DEF MoveCard, lock
  <2>3. Orderly
    BY <2>2 DEF OrderlyInv
  <2>4. /\ proc'[Moved(i)] = Handler("event", i, to)
        /\ \A q \in Procs \ {Moved(i)} : proc'[q] = proc[q]
    BY <1>3, MoveCardType
  <2>5. Sure(proc'[Moved(i)]) => owner = i
    BY <2>2, <2>4 DEF Sure, Handler, Considerate
  <2>6. OneThing(i)'
    BY <2>2, <2>4, <2>5, ProcNames, IdleUnsure DEF OneThing, Considerate, AtRest
  <2> QED BY <2>2, <2>3, <2>4, <2>6, OnlyItem
<1>4. CASE ScanStep
  <2>1. mishaps' = mishaps
    BY <1>4 DEF ScanStep, ScanHolders, ScanRun, ghosts
  <2> QED BY <1>4, <2>1, ScanStepsType DEF OrderlyInv, Orderly
<1>5. CASE Restart
  BY <1>5, RestartType
<1>6. CASE UNCHANGED vars
  BY <1>6 DEF vars, OrderlyInv, Orderly, OneThing, Sure
<1> QED
  BY <1>1, <1>2, <1>3, <1>4, <1>5, <1>6 DEF Next

LEMMA InitOrderly == Init => OrderlyInv
  BY ProcNames, IdleUnsure DEF Init, OrderlyInv, Orderly, OneThing

\* "The lock ensures mutual exclusion during execution": until somebody moves a
\* card without regard to its agent or the server restarts, an agent works on an
\* item only while the item has the board's lock.
THEOREM WorkHasLock == Spec => [](mishaps = {} => ExecutionHoldsLock)
<1>1. OrderlyInv => (mishaps = {} => ExecutionHoldsLock)
  BY DEF OrderlyInv, Orderly, OneThing, ExecutionHoldsLock
<1> QED
  BY <1>1, InitType, InitOrderly, NextType, NextOrderly, PTL DEF Spec

\* So on one board at most one agent works at a time, however many items wait.
THEOREM OneAgentWorks ==
  Spec => [](mishaps = {} => \A i, j \in Items :
                task[i].pc = "working" /\ task[j].pc = "working" => i = j)
<1>1. OrderlyInv => (mishaps = {} => \A i, j \in Items :
                       task[i].pc = "working" /\ task[j].pc = "working" => i = j)
  BY DEF OrderlyInv, Orderly, OneThing
<1> QED
  BY <1>1, InitType, InitOrderly, NextType, NextOrderly, PTL DEF Spec
=============================================================================
