------------------------------ MODULE Pipeline ------------------------------
(***************************************************************************)
(* One board's pipeline: the event handlers that react to a moved card, to *)
(* a finished agent and to a released lock (application/event_handlers/    *)
(* board_event_handler.py and pipeline_orchestrator.py) together with the  *)
(* agent executor (adapters/secondary/execution_service_agent_executor.py).*)
(* Each handler is a coroutine; other coroutines run, and people move      *)
(* cards, at its awaits.  The distributed lock and the queue appear by     *)
(* what their calls do (RedisDistributedLock and PipelineQueueService are  *)
(* the modules about their insides).                                       *)
(***************************************************************************)
EXTENDS Integers, Sequences, FiniteSets, SequencesExt

CONSTANTS Items,        \* work items on the board
          Nobody,       \* no item: the owner of a free lock
          ColumnOrder,  \* the board template: columns, first to last,
          Trigger,      \*   the pipeline trigger column,
          Exits,        \*   the exit columns,
          Agents,       \*   the automated columns with an agent,
          AutoProgress, \*   those with auto_progress_on_completion,
          OnFailure,    \*   on_failure_column of each column, or NoColumn
          NoColumn,
          Mishaps,      \* what may go wrong: "careless" moves, "restart"s
          MaxMishaps    \* bound: how often, in a behaviour

Columns == ToSet(ColumnOrder)

ASSUME PipelineAssumption == /\ Nobody \notin Items
                             /\ ColumnOrder \in Seq(STRING)
                             /\ Trigger \in Columns
                             /\ Exits \subseteq Columns \ (Agents \cup {Trigger})
                             /\ Agents \subseteq Columns
                             /\ NoColumn \notin Columns
                             /\ OnFailure \in [Columns -> Columns \cup {NoColumn}]
                             /\ Mishaps \subseteq {"careless", "restart"}
                             /\ MaxMishaps \in Nat

VARIABLES col,      \* col[i]: the column of i on the board
          owner,    \* the holder of the board's pipeline lock, or Nobody
          meta,     \* whether the lock's metadata hash is there
          queue,    \* the items in the pipeline queue
          run,      \* the items with an active run in the run registry
          task,     \* task[i]: the executor's background task for i
          proc,     \* proc[p]: the handler coroutine p
          stranded, \* a hand-over was lost with the server, or with the metadata
          mishaps   \* the mishaps so far

ghosts == <<stranded, mishaps>>
lock == <<owner, meta>>
vars == <<col, owner, meta, queue, run, task, proc, stranded, mishaps>>

\* Coroutines: the handler of i's column change, that of i's completion event,
\* and the orchestrator's startup scan.  Bound: one column change and one
\* completion of an item are being handled at a time.
Moved(i) == <<"moved", i>>
Completed(i) == <<"completed", i>>
Scan == <<"scan", Nobody>>
Procs == {Moved(i) : i \in Items} \cup {Completed(i) : i \in Items} \cup {Scan}

\* item: the work item handled, whose lock is released; to: the column entered
\* (or to move to); then: where to go on after a release and its hand-over;
\* named: release found project and board in the metadata hash; snap: the board
\* as fetched; next: the item peeked from the queue.
Idle == [pc |-> "idle"]
Handler(pc, i, to) == [pc |-> pc, item |-> i, to |-> to, then |-> "end",
                       named |-> FALSE, snap |-> <<>>, next |-> Nobody]

At(p, pc) == proc[p].pc = pc
Item(p) == proc[p].item
Goto(p, pc) == proc' = [proc EXCEPT ![p] = IF pc = "end" THEN Idle
                                           ELSE [@ EXCEPT !.pc = pc]]
Start(p, r) == proc[p] = Idle /\ proc' = [proc EXCEPT ![p] = r]
\* A release and its hand-over are over: what they kept is dropped.
Resume(p, pc) == proc' = [proc EXCEPT
    ![p] = IF pc = "end" THEN Idle
           ELSE [@ EXCEPT !.pc = pc, !.named = FALSE, !.snap = <<>>, !.next = Nobody]]
ReleaseThen(p, then) == proc' = [proc EXCEPT ![p].pc = "release",
                                             ![p].then = then]

NoTask == [pc |-> "idle", ok |-> FALSE]

Init == /\ col = [i \in Items |-> Head(ColumnOrder)]
        /\ owner = Nobody
        /\ meta = FALSE
        /\ queue = {}
        /\ run = {}
        /\ task = [i \in Items |-> NoTask]
        /\ proc = [p \in Procs |-> Idle]
        /\ stranded = FALSE
        /\ mishaps = {}
-----------------------------------------------------------------------------
(* People at the board, and handle_column_change                            *)

Mishap(kind) == /\ kind \in Mishaps
                /\ kind \notin mishaps
                /\ Cardinality(mishaps) < MaxMishaps
                /\ mishaps' = mishaps \cup {kind}

\* Considerate people move a card only while nothing works on it, and into an
\* agent column only if it has the lock.
AtRest(i) == proc[Moved(i)] = Idle /\ proc[Completed(i)] = Idle /\ task[i] = NoTask
Considerate(i, to) == AtRest(i) /\ (to \in Agents \ {Trigger} => owner = i)

MoveCard(i, to) ==
    /\ to # col[i]
    /\ \/ Considerate(i, to) /\ UNCHANGED mishaps
       \/ ~Considerate(i, to) /\ Mishap("careless")
    /\ col' = [col EXCEPT ![i] = to]
    /\ Start(Moved(i), Handler("event", i, to))
    /\ UNCHANGED <<lock, queue, run, task, stranded>>

\* The trigger column and the exit columns have handlers of their own, an
\* agent column starts its agent without looking at the lock.
HandleColumnChange(p) ==
    /\ At(p, "event")
    /\ LET to == proc[p].to
       IN  \/ to = Trigger /\ Goto(p, "enqueue")
           \/ to \in Exits /\ ReleaseThen(p, "completeRun")
           \/ to \in Agents \ {Trigger} /\ Goto(p, "checkRun")
           \/ to \notin Exits \cup Agents \cup {Trigger} /\ Goto(p, "end")
    /\ UNCHANGED <<col, lock, queue, run, task, ghosts>>

\* _handle_pipeline_trigger: an item that is queued already raises
\* DuplicateQueueEntryError, which ends the handler.
Enqueue(p) == /\ At(p, "enqueue")
              /\ queue' = queue \cup {Item(p)}
              /\ Goto(p, IF Item(p) \in queue THEN "end" ELSE "acquire")
              /\ UNCHANGED <<col, lock, run, task, ghosts>>

StartAgent(p) == IF proc[p].to \in Agents THEN "readRun" ELSE "end"

\* The lock key is set; its metadata and the event that announces the holder
\* are commands of their own (HsetMeta, OnLockAcquired).
TryAcquire(p) ==
    /\ At(p, "acquire")
    /\ \/ owner = Nobody /\ owner' = Item(p) /\ Goto(p, "hset")
       \/ owner = Item(p) /\ Goto(p, StartAgent(p)) /\ UNCHANGED owner
       \/ owner \notin {Nobody, Item(p)} /\ Goto(p, "end") /\ UNCHANGED owner
    /\ UNCHANGED <<col, meta, queue, run, task, ghosts>>

HsetMeta(p) == /\ \/ At(p, "hset") /\ Goto(p, "acquired")
                  \/ At(p, "grantHset") /\ Goto(p, "granted")
               /\ meta' = TRUE
               /\ UNCHANGED <<col, owner, queue, run, task, ghosts>>

\* on_lock_acquired runs inside try_acquire: it takes the holder off the queue.
OnLockAcquired(p) == /\ At(p, "acquired")
                     /\ queue' = queue \ {Item(p)}
                     /\ Goto(p, "startRun")
                     /\ UNCHANGED <<col, lock, run, task, ghosts>>

CheckRun(p) == /\ At(p, "checkRun")
               /\ Goto(p, IF Item(p) \in run THEN "readRun" ELSE "startRun")
               /\ UNCHANGED <<col, lock, queue, run, task, ghosts>>

StartWorkflowRun(p) == /\ At(p, "startRun")
                       /\ run' = run \cup {Item(p)}
                       /\ Goto(p, StartAgent(p))
                       /\ UNCHANGED <<col, lock, queue, task, ghosts>>

\* _trigger_agent reads the run, writes it back with the new stage, and calls
\* execute(), which ignores an item that is being executed already.
ReadRun(p) == /\ At(p, "readRun")
              /\ Goto(p, IF Item(p) \in run THEN "setStage" ELSE "execute")
              /\ UNCHANGED <<col, lock, queue, run, task, ghosts>>

SetStage(p) == /\ At(p, "setStage")
               /\ run' = run \cup {Item(p)}
               /\ Goto(p, "execute")
               /\ UNCHANGED <<col, lock, queue, task, ghosts>>

Execute(p) == /\ At(p, "execute")
              /\ task' = IF task[Item(p)] = NoTask
                           THEN [task EXCEPT ![Item(p)].pc = "started"] ELSE task
              /\ Goto(p, "end")
              /\ UNCHANGED <<col, lock, queue, run, ghosts>>

\* execute() raises: the recovery service records the failure of the run and
\* leaves it in the registry; the lock is released if there is a run.
ExecuteFails(p) ==
    /\ At(p, "execute")
    /\ IF Item(p) \in run THEN ReleaseThen(p, "end") ELSE Goto(p, "end")
    /\ UNCHANGED <<col, lock, queue, run, task, ghosts>>

CompleteRun(p) == /\ At(p, "completeRun")
                  /\ run' = run \ {Item(p)}
                  /\ Goto(p, "end")
                  /\ UNCHANGED <<col, lock, queue, task, ghosts>>
-----------------------------------------------------------------------------
(* release, and on_lock_released inside it                                  *)

\* release first reads the metadata, for the event it will publish.
ReadMeta(p) == /\ At(p, "release")
               /\ proc' = [proc EXCEPT ![p].named = meta, ![p].pc = "script"]
               /\ UNCHANGED <<col, lock, queue, run, task, ghosts>>

\* Mutant: the key is deleted whoever holds it.
ReleaseAnyones(p) == /\ At(p, "script")
                     /\ owner' = Nobody
                     /\ Goto(p, "deleteMeta")
                     /\ UNCHANGED <<col, meta, queue, run, task, ghosts>>

\* An exit handler whose release is refused returns, the others go on.
Release(p) ==
    /\ At(p, "script")
    /\ \/ owner = Item(p) /\ owner' = Nobody /\ Goto(p, "deleteMeta")
       \/ /\ owner # Item(p)
          /\ Resume(p, IF proc[p].then = "completeRun" THEN "end" ELSE proc[p].then)
          /\ UNCHANGED owner
    /\ UNCHANGED <<col, meta, queue, run, task, ghosts>>

\* The event takes project and board from the metadata that was read: without
\* them on_lock_released looks for the queue of no board and returns.
DeleteMeta(p) ==
    /\ At(p, "deleteMeta")
    /\ meta' = FALSE
    /\ Resume(p, IF proc[p].named THEN "fetch" ELSE proc[p].then)
    /\ stranded' = (stranded \/ (~proc[p].named /\ queue # {}))
    /\ UNCHANGED <<col, owner, queue, run, task, mishaps>>

\* peek fetches the board, then syncs the queue with the first column in which
\* it finds a queued item; if the sync fails the queue serves as it is.
FetchBoard(p) == /\ At(p, "fetch")
                 /\ proc' = [proc EXCEPT ![p].snap = col, ![p].pc = "sync"]
                 /\ UNCHANGED <<col, lock, queue, run, task, ghosts>>

Synced(snap) ==
    LET busy == SelectSeq(ColumnOrder, LAMBDA c : \E i \in queue : snap[i] = c)
    IN  IF busy = <<>> THEN queue ELSE {i \in Items : snap[i] = Head(busy)}

\* Mutant: an unreachable board ends the hand-over.
PeekGivesUp(p) ==
    /\ At(p, "sync")
    /\ queue' \in {queue, Synced(proc[p].snap)}
    /\ \/ /\ queue' = queue
          /\ Resume(p, proc[p].then)
       \/ \E i \in queue' : proc' = [proc EXCEPT ![p].next = i, ![p].pc = "grant",
                                                 ![p].snap = <<>>]
    /\ UNCHANGED <<col, lock, run, task, ghosts>>

Peek(p) ==
    /\ At(p, "sync")
    /\ queue' \in {queue, Synced(proc[p].snap)}
    /\ \/ /\ queue' = {}
          /\ Resume(p, proc[p].then)
       \/ \E i \in queue' : proc' = [proc EXCEPT ![p].next = i, ![p].pc = "grant",
                                                 ![p].snap = <<>>]
    /\ UNCHANGED <<col, lock, run, task, ghosts>>

Grant(p) ==
    /\ At(p, "grant")
    /\ \/ owner = Nobody /\ owner' = proc[p].next /\ Goto(p, "grantHset")
       \/ owner # Nobody /\ Resume(p, proc[p].then) /\ UNCHANGED owner
    /\ UNCHANGED <<col, meta, queue, run, task, ghosts>>

\* on_lock_acquired removes the new holder from the queue, and on_lock_released
\* does it again when try_acquire is back.
Granted(p) == /\ At(p, "granted")
              /\ queue' = queue \ {proc[p].next}
              /\ Goto(p, "dequeue")
              /\ UNCHANGED <<col, lock, run, task, ghosts>>

Dequeue(p) == /\ At(p, "dequeue")
              /\ queue' = queue \ {proc[p].next}
              /\ Resume(p, proc[p].then)
              /\ UNCHANGED <<col, lock, run, task, ghosts>>
-----------------------------------------------------------------------------
(* The executor's background task (_run_execution)                          *)

Report(i, ok) == Start(Completed(i), Handler(IF ok THEN "succeeded" ELSE "failed",
                                             i, NoColumn))

\* Without an active run it reports failure before the finally block runs.
BeginExecution(i) ==
    /\ task[i].pc = "started"
    /\ \/ i \in run /\ task' = [task EXCEPT ![i].pc = "working"] /\ UNCHANGED proc
       \/ i \notin run /\ task' = [task EXCEPT ![i].pc = "cleanup"] /\ Report(i, FALSE)
    /\ UNCHANGED <<col, lock, queue, run, ghosts>>

\* A step that prepares the execution fails: again reported, then cleaned up.
PrepareFails(i) == /\ task[i].pc = "working"
                   /\ task' = [task EXCEPT ![i].pc = "cleanup"]
                   /\ Report(i, FALSE)
                   /\ UNCHANGED <<col, lock, queue, run, ghosts>>

AgentReturns(i) == /\ task[i].pc = "working"
                   /\ \E ok \in BOOLEAN :
                        task' = [task EXCEPT ![i] = [pc |-> "clear", ok |-> ok]]
                   /\ UNCHANGED <<col, lock, queue, run, proc, ghosts>>

ClearRun(i) == /\ task[i].pc \in {"clear", "cleanup"}
               /\ run' = run \ {i}
               /\ task' = [task EXCEPT ![i] = IF task[i].pc = "cleanup" THEN NoTask
                                              ELSE [@ EXCEPT !.pc = "report"]]
               /\ UNCHANGED <<col, lock, queue, proc, ghosts>>

\* The completion event is published detached and the task is done.
PublishCompletion(i) == /\ task[i].pc = "report"
                        /\ Report(i, task[i].ok)
                        /\ task' = [task EXCEPT ![i] = NoTask]
                        /\ UNCHANGED <<col, lock, queue, run, ghosts>>
-----------------------------------------------------------------------------
(* handle_agent_completion                                                  *)

\* get_next_column: the column after c, NoColumn for the last.
NextColumn(c) == LET n == CHOOSE n \in 1 .. Len(ColumnOrder) : ColumnOrder[n] = c
                 IN  IF n = Len(ColumnOrder) THEN NoColumn ELSE ColumnOrder[n + 1]

\* An item that will not be picked up by another agent gives its lock up
\* before it is moved; one that stays where it is gives it up and that is all.
HandleSuccess(p) ==
    /\ At(p, "succeeded")
    /\ LET here == col[Item(p)]
           next == NextColumn(here)
       IN  IF here \notin AutoProgress \/ next = NoColumn
             THEN ReleaseThen(p, "end")
             ELSE proc' = [proc EXCEPT
                             ![p].to = next,
                             ![p].then = "move",
                             ![p].pc = IF next \in Agents THEN "move" ELSE "release"]
    /\ UNCHANGED <<col, lock, queue, run, task, ghosts>>

\* The orchestrator's own move raises no column change; a failure is swallowed.
AutoMove(p) == /\ At(p, "move")
               /\ col' \in {col, [col EXCEPT ![Item(p)] = proc[p].to]}
               /\ Goto(p, "end")
               /\ UNCHANGED <<lock, queue, run, task, ghosts>>

\* Mutant: a column without on_failure_column is not told apart.
HandleFailureAnywhere(p) ==
    /\ At(p, "failed")
    /\ proc' = [proc EXCEPT ![p].to = OnFailure[col[Item(p)]], ![p].pc = "moveBack"]
    /\ UNCHANGED <<col, lock, queue, run, task, ghosts>>

HandleFailure(p) ==
    /\ At(p, "failed")
    /\ LET to == OnFailure[col[Item(p)]]
       IN  IF to = NoColumn THEN Goto(p, "failRun")
           ELSE proc' = [proc EXCEPT ![p].to = to, ![p].pc = "moveBack"]
    /\ UNCHANGED <<col, lock, queue, run, task, ghosts>>

MoveBack(p) == /\ At(p, "moveBack")
               /\ col' \in {col, [col EXCEPT ![Item(p)] = proc[p].to]}
               /\ Goto(p, "failRun")
               /\ UNCHANGED <<lock, queue, run, task, ghosts>>

\* _fail_workflow_run; the lock stays with the item.
FailRun(p) == /\ At(p, "failRun")
              /\ run' = run \ {Item(p)}
              /\ Goto(p, "end")
              /\ UNCHANGED <<col, lock, queue, task, ghosts>>
-----------------------------------------------------------------------------
(* Restart of the server, and on_startup                                    *)

\* Lock, queue and run registry live in Redis and the board at GitHub; the
\* coroutines and the executor's tasks are gone.
Restart == /\ Mishap("restart")
           /\ stranded' = (stranded \/ (owner = Nobody /\ queue # {}))
           /\ task' = [i \in Items |-> NoTask]
           /\ proc' = [[p \in Procs |-> Idle] EXCEPT
                         ![Scan] = Handler("scanHolders", Nobody, NoColumn)]
           /\ UNCHANGED <<col, lock, queue, run>>

\* get_all_holders; the holder's run is looked up afterwards.
ScanHolders == /\ At(Scan, "scanHolders")
               /\ proc' = [proc EXCEPT ![Scan] =
                             IF owner = Nobody THEN Idle
                             ELSE [@ EXCEPT !.pc = "scanRun", !.item = owner]]
               /\ UNCHANGED <<col, lock, queue, run, task, ghosts>>

\* Mutant: the scan deletes the orphaned key instead of releasing the lock.
ScanRunDeletes == /\ At(Scan, "scanRun")
                  /\ owner' = IF Item(Scan) \in run THEN owner ELSE Nobody
                  /\ Goto(Scan, "end")
                  /\ UNCHANGED <<col, meta, queue, run, task, ghosts>>

ScanRun == /\ At(Scan, "scanRun")
           /\ IF Item(Scan) \in run THEN Goto(Scan, "end") ELSE ReleaseThen(Scan, "end")
           /\ UNCHANGED <<col, lock, queue, run, task, ghosts>>
-----------------------------------------------------------------------------
HandlerStep(p) == \/ HandleColumnChange(p) \/ Enqueue(p) \/ TryAcquire(p)
                  \/ HsetMeta(p) \/ OnLockAcquired(p) \/ CheckRun(p) \/ StartWorkflowRun(p)
                  \/ ReadRun(p) \/ SetStage(p) \/ Execute(p) \/ ExecuteFails(p)
                  \/ CompleteRun(p)
                  \/ ReadMeta(p) \/ Release(p) \/ DeleteMeta(p) \/ FetchBoard(p) \/ Peek(p)
                  \/ Grant(p) \/ Granted(p) \/ Dequeue(p)
                  \/ HandleSuccess(p) \/ AutoMove(p)
                  \/ HandleFailure(p) \/ MoveBack(p) \/ FailRun(p)

TaskStep(i) == \/ BeginExecution(i) \/ PrepareFails(i) \/ AgentReturns(i)
               \/ ClearRun(i) \/ PublishCompletion(i)

ScanStep == ScanHolders \/ ScanRun

Next == \/ \E i \in Items : TaskStep(i) \/ \E to \in Columns : MoveCard(i, to)
        \/ \E p \in Procs : HandlerStep(p)
        \/ ScanStep \/ Restart

Spec == Init /\ [][Next]_vars

\* asyncio runs every coroutine that can go on, and every agent returns (its
\* timeout sees to that).  Nothing is assumed of people.
Fairness == /\ \A p \in Procs : WF_vars(HandlerStep(p))
            /\ \A i \in Items : WF_vars(TaskStep(i))
            /\ WF_vars(ScanStep)

FairSpec == Spec /\ Fairness
-----------------------------------------------------------------------------
(* Properties *)

HandlerPcs == {"event", "enqueue", "acquire", "hset", "acquired", "checkRun", "startRun",
               "readRun", "setStage", "execute", "completeRun", "release",
               "script", "deleteMeta", "fetch", "sync", "grant", "grantHset",
               "granted", "dequeue", "succeeded",
               "move", "failed", "moveBack", "failRun", "scanHolders", "scanRun"}

\* The state is well formed: items stand in columns of the template, and a
\* handler is at one of its steps.
TypeOK ==
    /\ col \in [Items -> Columns]
    /\ owner \in Items \cup {Nobody}
    /\ meta \in BOOLEAN
    /\ queue \subseteq Items
    /\ run \subseteq Items
    /\ task \in [Items -> [pc : {"idle", "started", "working", "clear", "report",
                                 "cleanup"}, ok : BOOLEAN]]
    /\ DOMAIN proc = Procs
    /\ \A p \in Procs :
         \/ proc[p] = Idle
         \/ /\ proc[p].pc \in HandlerPcs
            /\ proc[p].item \in Items \cup {Nobody}
            /\ proc[p].to \in Columns \cup {NoColumn}
            /\ proc[p].then \in {"end", "move", "completeRun"}
            /\ proc[p].named \in BOOLEAN
            /\ proc[p].snap \in [Items -> Columns] \cup {<<>>}
            /\ proc[p].next \in Items \cup {Nobody}
    /\ stranded \in BOOLEAN
    /\ mishaps \subseteq Mishaps /\ Cardinality(mishaps) <= MaxMishaps

Quiet == \A p \in Procs : proc[p] = Idle

\* "The lock ensures mutual exclusion during execution": an agent works on an
\* item only while the item has the board's lock, so on one item at a time.
ExecutionHoldsLock == \A i \in Items : task[i].pc = "working" => owner = i

\* No lost wakeup: when the handlers are done, a free lock has no one waiting,
\* unless a restart cut a hand-over short or the metadata was missing at a
\* release.  There is no third way to strand a queue.
NoLostWakeup == Quiet /\ owner = Nobody /\ ~stranded => queue = {}

\* "Grants lock to next queued work item" on every PipelineLockReleasedEvent:
\* no item is left waiting in the trigger column for a lock that is free.
ReleaseGrantsNext == Quiet /\ owner = Nobody => \A i \in queue : col[i] # Trigger

\* A free lock that somebody waits for is handed over in the end: whoever
\* released it, or whoever enqueued, goes on to acquire it (or the hand-over
\* was lost, as for NoLostWakeup).
LockHandedOver ==
    owner = Nobody /\ queue # {} ~> owner # Nobody \/ queue = {} \/ stranded

=============================================================================
