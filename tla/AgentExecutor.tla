---------------------------- MODULE AgentExecutor ----------------------------
(***************************************************************************)
(* Executions of agents: execute() of                                      *)
(* adapters/secondary/execution_service_agent_executor.py and the          *)
(* background task it starts, the execution service the task drives        *)
(* (application/execution_service.py with domain/agent_execution.py), the  *)
(* event bus that delivers the completion event, and what the board event  *)
(* handler and the recovery service then record of the workflow run.       *)
(* A step ends where a coroutine waits; tasks may be cancelled there.      *)
(***************************************************************************)
EXTENDS Integers, Sequences, SequencesExt

CONSTANTS Items,      \* work items
          Calls,      \* execute() calls; each may start one background task
          MaxRuns,    \* bound: workflow runs started
          MaxRetries, \* the bus calls a failing callback again this often
          MaxCancels, \* bound: tasks and executions cancelled
          MaxFaults   \* bound: calls of stores and registry that fail

ASSUME ExecutorAssumption == /\ Items # {}
                             /\ MaxRuns \in Nat \ {0}
                             /\ {MaxRetries, MaxCancels, MaxFaults} \subseteq Nat

VARIABLES run,       \* run[i]: the active run in the registry, or NoRun
          runs,      \* how many runs were started
          runLog,    \* runLog[r]: what the event stream of run r says
          executing, \* _executing_work_items
          call,      \* call[c]: the call, then its background task
          exec,      \* exec[c]: the AgentExecution entity and its event stream
          pub,       \* pub[c]: the delivery of the completion event
          raced,     \* the items for which two calls met in execute()
          cancels,
          faults

bounds == <<cancels, faults>>
registry == <<run, runs, runLog>>
vars == <<run, runs, runLog, executing, call, exec, pub, raced, cancels, faults>>

NoRun == 0

\* item: the work item; ok: what the task will report; committed: the
\* commit step succeeded.  History: reports counts the completion events published; cut: cancelled
\* where it could not report; cancelled, unstored: a cancellation, a failed append.
NewCall == [pc |-> "new", item |-> CHOOSE i \in Items : TRUE, ok |-> FALSE,
            committed |-> FALSE, reports |-> 0, cut |-> FALSE, cancelled |-> FALSE, unstored |-> FALSE]
NewExec == [status |-> "none", pend |-> <<>>, log |-> <<>>]
NoPub == [pc |-> "none", ok |-> FALSE, tries |-> 0, noted |-> FALSE]

At(c, pc) == call[c].pc = pc
Goto(c, pc) == call' = [call EXCEPT ![c].pc = pc]
Item(c) == call[c].item

\* The states of a background task that runs, and those in its finally block.
Driving == {"begin", "prepare", "create", "start", "agent", "commit", "complete",
            "fail", "finalize", "abort"}
Cleaning == {"clear", "cleanup"}
Running(c) == call[c].pc \in Driving \cup Cleaning \cup {"done"}

Fault == faults < MaxFaults /\ faults' = faults + 1

Init == /\ run = [i \in Items |-> NoRun]
        /\ runs = 0
        /\ runLog = [r \in 1 .. MaxRuns |-> {}]
        /\ executing = {}
        /\ call = [c \in Calls |-> NewCall]
        /\ exec = [c \in Calls |-> NewExec]
        /\ pub = [c \in Calls |-> NoPub]
        /\ raced = {}
        /\ cancels = 0
        /\ faults = 0
-----------------------------------------------------------------------------
(* Callers: the board event handler starts a run, it or the scheduler calls *)

StartRun(i) == /\ runs < MaxRuns
               /\ runs' = runs + 1
               /\ run' = [run EXCEPT ![i] = runs']
               /\ UNCHANGED <<runLog, executing, call, exec, pub, raced, bounds>>

\* Mutant: the guard against double dispatch is gone.
ExecuteUnguarded(c, i) ==
    /\ At(c, "new")
    /\ call' = [call EXCEPT ![c].item = i, ![c].pc = "lookup"]
    /\ raced' = raced \cup {i2 \in {i} : \E d \in Calls : At(d, "lookup") /\ Item(d) = i}
    /\ UNCHANGED <<registry, executing, exec, pub, bounds>>

\* A call for an item that is being executed is ignored; otherwise it waits
\* for the registry and the agent repository.
Execute(c, i) ==
    /\ At(c, "new")
    /\ call' = [call EXCEPT ![c].item = i,
                            ![c].pc = IF i \in executing THEN "ignored" ELSE "lookup"]
    /\ raced' = raced \cup {i2 \in {i} : \E d \in Calls : At(d, "lookup") /\ Item(d) = i}
    /\ UNCHANGED <<registry, executing, exec, pub, bounds>>

Schedule(c) == /\ At(c, "lookup")
               /\ executing' = executing \cup {Item(c)}
               /\ Goto(c, "begin")
               /\ UNCHANGED <<registry, exec, pub, raced, bounds>>

\* The lookup raises: _trigger_agent turns to the recovery service.
LookupFails(c) == /\ At(c, "lookup")
                  /\ Fault
                  /\ Goto(c, "recover")
                  /\ UNCHANGED <<registry, executing, exec, pub, raced, cancels>>

\* handle_agent_execution_failure: the run's stream says failed, if it can be
\* written; the registry keeps the run.
RecoverRun(c) ==
    /\ At(c, "recover")
    /\ \/ /\ runLog' = [r \in DOMAIN runLog |-> IF r = run[Item(c)]
                          THEN runLog[r] \cup {"failed"} ELSE runLog[r]]
          /\ UNCHANGED faults
       \/ run[Item(c)] # NoRun /\ Fault /\ UNCHANGED runLog
    /\ Goto(c, "raised")
    /\ UNCHANGED <<run, runs, executing, exec, pub, raced, cancels>>
-----------------------------------------------------------------------------
(* _run_execution: looking the run up, preparing the workspace              *)

\* _call_completion: the event is published detached.
Report(c, ok, pc) ==
    /\ call' = [call EXCEPT ![c].pc = pc, ![c].reports = @ + 1]
    /\ pub' = [pub EXCEPT ![c] = [NoPub EXCEPT !.pc = "handling", !.ok = ok]]

Begin(c) == /\ At(c, "begin")
            /\ \/ run[Item(c)] # NoRun /\ Goto(c, "prepare") /\ UNCHANGED pub
               \/ run[Item(c)] = NoRun /\ Report(c, FALSE, "cleanup")
            /\ UNCHANGED <<registry, executing, exec, raced, bounds>>

\* Mutant: after the report the task goes on to its end instead of returning.
PrepareReportsTwice(c) ==
    /\ At(c, "prepare")
    /\ \/ Goto(c, "create") /\ UNCHANGED pub
       \/ Report(c, FALSE, "clear")
    /\ UNCHANGED <<registry, executing, exec, raced, bounds>>

\* Agent, work item, project, clone, route, branch, workspace: any of these
\* may fail, and the task reports before its finally block runs.
Prepare(c) == /\ At(c, "prepare")
              /\ \/ Goto(c, "create") /\ UNCHANGED pub
                 \/ Report(c, FALSE, "cleanup")
              /\ UNCHANGED <<registry, executing, exec, raced, bounds>>

\* An exception nobody expects: reported after the finally block.
Unexpected(c) == /\ call[c].pc \in {"begin", "prepare", "abort"}
                 /\ Fault
                 /\ Goto(c, "clear")
                 /\ UNCHANGED <<registry, executing, exec, pub, raced, cancels>>

\* create_execution or start_execution failed: finalize_workspace, then report.
Abort(c) == /\ At(c, "abort")
            /\ Report(c, FALSE, "cleanup")
            /\ UNCHANGED <<registry, executing, exec, raced, bounds>>
-----------------------------------------------------------------------------
(* The execution service and the AgentExecution entity                      *)

\* The entity moves to status and what is pending is appended to its stream;
\* when the append raises, the event stays pending.
Record(c, status, event, good, bad) ==
    \/ /\ exec' = [exec EXCEPT ![c].status = status,
                               ![c].pend = <<>>,
                               ![c].log = @ \o Append(exec[c].pend, event)]
       /\ call' = [call EXCEPT ![c].pc = good, ![c].ok = status = "completed"]
       /\ UNCHANGED faults
    \/ /\ Fault
       /\ exec' = [exec EXCEPT ![c].status = status, ![c].pend = Append(@, event)]
       /\ call' = [call EXCEPT ![c].pc = bad, ![c].unstored = TRUE]

CreateExecution(c) ==
    /\ At(c, "create")
    /\ Record(c, "initialized", "Initialized", "start", "abort")
    /\ UNCHANGED <<registry, executing, pub, raced, cancels>>

StartExecution(c) ==
    /\ At(c, "start")
    /\ Record(c, "running", "Started", "agent", "abort")
    /\ UNCHANGED <<registry, executing, pub, raced, cancels>>

\* The coding agent returns success or failure, or raises.
AgentReturns(c) == /\ At(c, "agent")
                   /\ \E next \in {"commit", "fail"} : Goto(c, next)
                   /\ UNCHANGED <<registry, executing, exec, pub, raced, bounds>>

\* Mutant: a failed commit or push does not make the execution fail.
CommitRegardless(c) ==
    /\ At(c, "commit")
    /\ \/ call' = [call EXCEPT ![c].pc = "complete", ![c].committed = TRUE] /\ UNCHANGED faults
       \/ Goto(c, "complete") /\ Fault
    /\ UNCHANGED <<registry, executing, exec, pub, raced, cancels>>

\* _commit_workspace: commit and push come before completion; for an agent that
\* makes no commits (CommitPolicy.NONE, not can_make_commits) the step does nothing.
Commit(c) ==
    /\ At(c, "commit")
    /\ \/ call' = [call EXCEPT ![c].pc = "complete", ![c].committed = TRUE] /\ UNCHANGED faults
       \/ Goto(c, "fail") /\ Fault
    /\ UNCHANGED <<registry, executing, exec, pub, raced, cancels>>

\* An entity that has left "running" refuses complete() and fail().
Refused(c) == exec[c].status # "running" /\ Goto(c, "finalize") /\ UNCHANGED <<exec, faults>>

\* When complete() or its append raises, fail() is tried and refused.
Complete(c) ==
    /\ At(c, "complete")
    /\ \/ /\ exec[c].status = "running"
          /\ Record(c, "completed", "Completed", "finalize", "finalize")
       \/ Refused(c)
    /\ UNCHANGED <<registry, executing, pub, raced, cancels>>

Fail(c) ==
    /\ At(c, "fail")
    /\ \/ /\ exec[c].status = "running"
          /\ Record(c, "failed", "Failed", "finalize", "finalize")
       \/ Refused(c)
    /\ UNCHANGED <<registry, executing, pub, raced, cancels>>

\* cancel_execution, while the agent runs or its work is committed: the entity
\* is cancelled, the task knows nothing of it.
CancelExecution(c) ==
    /\ call[c].pc \in {"agent", "commit"}
    /\ exec[c].status = "running"
    /\ cancels < MaxCancels
    /\ cancels' = cancels + 1
    /\ \/ /\ exec' = [exec EXCEPT ![c].status = "cancelled",
                                  ![c].log = Append(@, "Cancelled")]
          /\ call' = [call EXCEPT ![c].cancelled = TRUE]
          /\ UNCHANGED faults
       \/ /\ Fault
          /\ exec' = [exec EXCEPT ![c].status = "cancelled", ![c].pend = <<"Cancelled">>]
          /\ call' = [call EXCEPT ![c].cancelled = TRUE, ![c].unstored = TRUE]
    /\ UNCHANGED <<registry, executing, pub, raced>>
-----------------------------------------------------------------------------
(* The end of the task                                                      *)

\* finalize_workspace; its failure is logged.
Finalize(c) == /\ At(c, "finalize")
               /\ Goto(c, "clear")
               /\ UNCHANGED <<registry, executing, exec, pub, raced, bounds>>

\* The finally block clears the item's run, whichever that is; what has not
\* been reported yet is reported then.
Clear(c) ==
    /\ call[c].pc \in Cleaning
    /\ \/ run' = [run EXCEPT ![Item(c)] = NoRun] /\ UNCHANGED faults
       \/ UNCHANGED run /\ Fault
    /\ IF At(c, "clear") THEN Report(c, call[c].ok, "done")
       ELSE Goto(c, "done") /\ UNCHANGED pub
    /\ UNCHANGED <<runs, runLog, executing, exec, raced, cancels>>

\* The watchdog cancels the task of an execution that exceeds its timeout, the
\* event loop does at shutdown.  A task that has not begun ends at once; one
\* in its finally block leaves it, whether or not the registry was told.
CancelTask(c) ==
    /\ cancels < MaxCancels
    /\ cancels' = cancels + 1
    /\ \/ /\ call[c].pc \in Driving
          /\ call' = [call EXCEPT ![c].pc = "cleanup", ![c].reports = @ + 1,
                                  ![c].cancelled = TRUE]
          /\ pub' = [pub EXCEPT ![c] = [NoPub EXCEPT !.pc = "handling"]]
          /\ UNCHANGED run
       \/ /\ At(c, "begin")
          /\ call' = [call EXCEPT ![c].pc = "done", ![c].cut = TRUE, ![c].cancelled = TRUE]
          /\ UNCHANGED <<run, pub>>
       \/ /\ call[c].pc \in Cleaning
          /\ run' \in {run, [run EXCEPT ![Item(c)] = NoRun]}
          /\ call' = [call EXCEPT ![c].pc = "done", ![c].cut = At(c, "clear"),
                                  ![c].cancelled = TRUE]
          /\ UNCHANGED pub
    /\ UNCHANGED <<runs, runLog, executing, exec, raced, faults>>

\* Mutant: a task that was cancelled keeps its item in the set.
DoneCallbackReturnsEarly(c) ==
    /\ At(c, "done")
    /\ executing' = IF call[c].cancelled THEN executing ELSE executing \ {Item(c)}
    /\ Goto(c, "over")
    /\ UNCHANGED <<registry, exec, pub, raced, bounds>>

\* _task_done_callback, in a later turn of the event loop.
TaskDoneCallback(c) == /\ At(c, "done")
                       /\ executing' = executing \ {Item(c)}
                       /\ Goto(c, "over")
                       /\ UNCHANGED <<registry, exec, pub, raced, bounds>>
-----------------------------------------------------------------------------
(* Delivery of AgentExecutionCompletedEvent                                 *)

\* handle_agent_completion of a success: the card stays or is moved on;
\* _advance_workflow_stage records the move in the stream of the active run.
HandleSuccess(c) ==
    /\ pub[c].pc = "handling" /\ pub[c].ok
    /\ \/ /\ pub' = [pub EXCEPT ![c].pc = "parked"]
          /\ UNCHANGED runLog
       \/ /\ pub' = [pub EXCEPT ![c].pc = "advanced", ![c].noted = run[Item(c)] # NoRun]
          /\ runLog' = [r \in DOMAIN runLog |-> IF r = run[Item(c)]
                          THEN runLog[r] \cup {"advanced"} ELSE runLog[r]]
    /\ UNCHANGED <<run, runs, executing, call, exec, raced, bounds>>

\* ... of a failure: _fail_workflow_run records it and clears the run.
HandleFailure(c) ==
    /\ pub[c].pc = "handling" /\ ~pub[c].ok
    /\ pub' = [pub EXCEPT ![c].pc = "parked"]
    /\ runLog' = [r \in DOMAIN runLog |-> IF r = run[Item(c)]
                    THEN runLog[r] \cup {"failed"} ELSE runLog[r]]
    /\ run' = [run EXCEPT ![Item(c)] = NoRun]
    /\ UNCHANGED <<runs, executing, call, exec, raced, bounds>>

\* Mutants: the attempt counter is reset by every retry; one retry too many.
CallbackRetriedForEver(c) ==
    /\ pub[c].pc = "handling"
    /\ pub' = [pub EXCEPT ![c].tries = (@ + 1) % (MaxRetries + 1)]
    /\ UNCHANGED <<registry, executing, call, exec, raced, bounds>>

CallbackRetriedOnceMore(c) ==
    /\ pub[c].pc = "handling"
    /\ \/ pub[c].tries <= MaxRetries /\ pub' = [pub EXCEPT ![c].tries = @ + 1]
       \/ pub[c].tries > MaxRetries /\ pub' = [pub EXCEPT ![c].pc = "dropped"]
    /\ UNCHANGED <<registry, executing, call, exec, raced, bounds>>

\* The callback raises: it is called again, and after the last retry the bus
\* logs the error; publish() itself has succeeded, and nobody is told.
CallbackRaises(c) ==
    /\ pub[c].pc = "handling"
    /\ \/ pub[c].tries < MaxRetries /\ pub' = [pub EXCEPT ![c].tries = @ + 1]
       \/ pub[c].tries >= MaxRetries /\ pub' = [pub EXCEPT ![c].pc = "dropped"]
    /\ UNCHANGED <<registry, executing, call, exec, raced, bounds>>
-----------------------------------------------------------------------------
CallStep(c) == \/ Schedule(c) \/ LookupFails(c) \/ RecoverRun(c)
               \/ Begin(c) \/ Prepare(c) \/ Unexpected(c) \/ Abort(c)
               \/ CreateExecution(c) \/ StartExecution(c) \/ AgentReturns(c)
               \/ Commit(c) \/ Complete(c) \/ Fail(c) \/ Finalize(c)
               \/ Clear(c) \/ TaskDoneCallback(c)

DeliveryStep(c) == HandleSuccess(c) \/ HandleFailure(c) \/ CallbackRaises(c)

Next == \/ \E i \in Items : StartRun(i) \/ \E c \in Calls : Execute(c, i)
        \/ \E c \in Calls : \/ CallStep(c) \/ DeliveryStep(c)
                            \/ CancelExecution(c) \/ CancelTask(c)

Spec == Init /\ [][Next]_vars

\* asyncio goes on with every coroutine that can; an agent returns within its
\* timeout, and awaited calls return or raise.
Fairness == \A c \in Calls : WF_vars(CallStep(c)) /\ WF_vars(DeliveryStep(c))

FairSpec == Spec /\ Fairness
-----------------------------------------------------------------------------
(* Properties *)

Events == {"Initialized", "Started", "Completed", "Failed", "Cancelled"}

\* The state is well formed.
TypeOK ==
    /\ run \in [Items -> 0 .. MaxRuns]
    /\ runs \in 0 .. MaxRuns
    /\ runLog \in [1 .. MaxRuns -> SUBSET {"advanced", "failed"}]
    /\ executing \subseteq Items
    /\ raced \subseteq Items
    /\ call \in [Calls -> [pc : Driving \cup Cleaning \cup {"new", "ignored", "lookup",
                                  "recover", "raised", "done", "over"},
                           item : Items, ok : BOOLEAN, committed : BOOLEAN, reports : Nat,
                           cut : BOOLEAN, cancelled : BOOLEAN, unstored : BOOLEAN]]
    /\ exec \in [Calls -> [status : {"none", "initialized", "running", "completed",
                                     "failed", "cancelled"},
                           pend : Seq(Events), log : Seq(Events)]]
    /\ pub \in [Calls -> [pc : {"none", "handling", "parked", "advanced", "dropped"},
                          ok : BOOLEAN, tries : 0 .. MaxRetries, noted : BOOLEAN]]
    /\ cancels \in 0 .. MaxCancels
    /\ faults \in 0 .. MaxFaults

\* A task publishes one completion event and no second one, whatever fails in
\* it and on whichever path it leaves _run_execution; only a cancellation before
\* its first step, or in its finally block before the report, leaves it silent.
ReportedOnce ==
    \A c \in Calls : /\ call[c].reports <= 1
                     /\ call[c].pc \in {"done", "over"} =>
                          (call[c].reports = 0 <=> call[c].cut)

\* "Guard against double-dispatch": two tasks run for one item only after two
\* calls met between the test of the guard and the insertion.
DuplicateOnlyByRace ==
    \A c, d \in Calls :
        c # d /\ Running(c) /\ Running(d) /\ Item(c) = Item(d) => Item(c) \in raced

\* No item is locked out: an item is in the guard only while a task will take
\* it out again, however the task ends.
GuardHasTask == \A i \in executing : \E c \in Calls : Running(c) /\ Item(c) = i

\* The completion event tells what the stream tells: success only after the
\* commit step succeeded and Completed was appended; and a stream without failed
\* appends or cancellations ends with the event that agrees with the report.
ReportMatchesStream ==
    \A c \in Calls :
        LET log == exec[c].log
        IN  /\ pub[c].ok => call[c].committed /\ Last(log) = "Completed"
            /\ call[c].pc = "over" /\ ~call[c].unstored /\ ~call[c].cancelled /\ log # <<>> =>
                 Last(log) = IF pub[c].ok THEN "Completed" ELSE "Failed"

\* "Persist WorkflowStageAdvanced event on auto-progression": when a finished
\* agent's card is moved on, the stream of its run says so.
AdvanceRecorded == \A c \in Calls : pub[c].pc = "advanced" => pub[c].noted

\* Every call that began ends, its item is free again, and its completion
\* event has been handled, or given up after the retries.
ExecutionEnds ==
    \A c \in Calls : At(c, "lookup") ~> /\ call[c].pc \in {"raised", "over"}
                                        /\ pub[c].pc # "handling"
=============================================================================
