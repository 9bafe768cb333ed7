---------------------------- MODULE RepairCycle ----------------------------
(***************************************************************************)
(* The repair cycle: a card that enters a column with repair agents makes  *)
(* the event handler run execute() of the one shared                       *)
(* ProductionRepairCycleAdapter, for each configured test type a loop of   *)
(* run the tests, review warnings and run them again, classify the         *)
(* failures, dispatch a fix, save a checkpoint.  The handler then runs the *)
(* CI checks and publishes RepairCycleCompleted, on which the orchestrator *)
(* moves the card.  The bus retries a handler that raises.                 *)
(*                                                                         *)
(* A step ends at an await of the code: an agent call, the checkpoint      *)
(* store, the CI service, the board.  Column changes are published         *)
(* detached, so the handlers of two of them interleave at those awaits.    *)
(* What the agents answer is nondeterministic.                             *)
(***************************************************************************)
EXTENDS Naturals, Sequences

CONSTANTS
    Runs,                \* column changes into the repair column
    Items,               \* the cards
    Types,               \* run -> number of configured test types
    MaxIterations,       \* run -> max_iterations of its test types
    CheckpointInterval,  \* checkpoint_interval
    MaxTransient,        \* max_consecutive_transient
    MaxRebuilds,         \* max_env_rebuilds
    MaxAttempts,         \* dispatches of one event to a handler: 1 + max_retries
    WithCI,              \* the runs whose column also has the CI type
    OnFailure,           \* column -> its on_failure_column, or NoColumn
    MaxMoves             \* bound: moves of cards by people

\* Columns of the board by position; the repair column is the second.
Columns == 1 .. 4
RepairColumn == 2
NoColumn == 0

ASSUME RepairBounds ==
    /\ Types \in [Runs -> Nat \ {0}]
    /\ MaxIterations \in [Runs -> Nat \ {0}]
    /\ {CheckpointInterval, MaxRebuilds, MaxAttempts} \subseteq Nat \ {0}
    /\ {MaxTransient, MaxMoves} \subseteq Nat
    /\ WithCI \subseteq Runs
    /\ OnFailure \in [Columns -> Columns \cup {NoColumn}]
    /\ Items # {}

VARIABLES
    run,       \* run -> the handler's locals
    tracked,   \* _cycle_results of the shared adapter
    stored,    \* run -> its last saved checkpoint, and the attempt that saved it
    position,  \* item -> index of its column on the board
    moves      \* moves of people so far

vars == <<run, tracked, stored, position, moves>>

NoCheckpoint == [attempt |-> 0, results |-> <<>>]

Waiting == {"tests", "review", "retest", "analyze", "fix", "rebuild", "verify",
            "checkpoint", "backoff", "ci", "locate", "move"}
InFlight(r) == run[r].pc \in Waiting

\* Run r's locals are now `me`.
Becomes(r, me) == run' = [run EXCEPT ![r] = me]

-----------------------------------------------------------------------------
(* The handler and the start of execute()                                   *)

Idle == [pc |-> "idle", item |-> CHOOSE i \in Items : TRUE, attempt |-> 1,
         report |-> "none", seen |-> RepairColumn,
         overlapped |-> FALSE, disturbed |-> FALSE,
         type |-> 1, results |-> <<>>, ci |-> "none",
         iteration |-> 1, failing |-> FALSE, passed |-> FALSE, transients |-> 0,
         rebuilds |-> 0, last |-> "none", unfixed |-> 0, saving |-> <<>>]

\* The locals of _run_test_cycle when it begins, forgotten when it ends.
Fresh(me) == [me EXCEPT !.iteration = 1, !.failing = FALSE, !.passed = FALSE,
                        !.transients = 0, !.rebuilds = 0, !.last = "none", !.unfixed = 0,
                        !.saving = <<>>]

\* execute() begins: it forgets what the adapter tracked, and the loop over
\* the test types starts with the first test run.
FirstTests(me) ==
    [Fresh(me) EXCEPT !.pc = "tests", !.type = 1, !.results = <<>>, !.ci = "none"]

\* Mutant: execute() does not forget what an earlier call tracked.
KeepTracking == UNCHANGED tracked

ResetTracking == tracked' = <<>>

Init ==
    /\ run = [r \in Runs |-> Idle]
    /\ tracked = <<>>
    /\ stored = [r \in Runs |-> NoCheckpoint]
    /\ position = [i \in Items |-> 1]
    /\ moves = 0

\* A card enters the repair column: the handler starts the cycle.  The ghosts
\* note the runs in flight together and the cards repaired twice at a time.
Enter(r, i) ==
    LET others == {q \in Runs : InFlight(q)}
        same   == {q \in others : run[q].item = i}
    IN  /\ run[r].pc = "idle"
        /\ position[i] # RepairColumn
        /\ position' = [position EXCEPT ![i] = RepairColumn]
        /\ run' = [q \in Runs |->
              IF q = r
              THEN [FirstTests(run[q]) EXCEPT !.item = i, !.overlapped = others # {},
                                              !.disturbed = same # {}]
              ELSE [run[q] EXCEPT !.overlapped = @ \/ q \in others,
                                  !.disturbed = @ \/ q \in same]]
        /\ ResetTracking
        /\ UNCHANGED <<stored, moves>>

\* Mutant: the bus never gives up.
RaiseForEver(r) == [Fresh(run[r]) EXCEPT !.pc = "backoff"]

\* The handler raises: the bus sleeps and calls it again, or gives up and logs.
Raise(r) ==
    IF run[r].attempt < MaxAttempts
    THEN [Fresh(run[r]) EXCEPT !.pc = "backoff", !.attempt = @ + 1]
    ELSE [Fresh(run[r]) EXCEPT !.pc = "gone"]

Redispatch(r) ==
    /\ run[r].pc = "backoff"
    /\ Becomes(r, FirstTests(run[r]))
    /\ ResetTracking
    /\ UNCHANGED <<stored, position, moves>>

-----------------------------------------------------------------------------
(* The end of a test type                                                   *)

\* What the handler does with the result of execute().
AfterExecute(r) == IF r \in WithCI THEN "ci" ELSE "locate"

\* Mutant: CycleResult without its consistency check.
ContradictsNever(passed, error) == FALSE

\* CycleResult refuses a result that passed and carries an error: the
\* exception leaves execute() and the handler.
Contradicts(passed, error) == passed /\ error

\* The loop of a test type is over.  Its result goes to the local list and to
\* the tracked one; a type that did not pass ends the cycle (fast fail).
Conclude(r, passed, error, last) ==
    LET result == [type |-> run[r].type, passed |-> passed, last |-> last]
        me     == [Fresh(run[r]) EXCEPT !.results = Append(@, result)]
    IN  IF Contradicts(passed, error)
        THEN Becomes(r, Raise(r)) /\ UNCHANGED tracked
        ELSE /\ Becomes(r, IF passed /\ run[r].type < Types[r]
                           THEN [me EXCEPT !.pc = "tests", !.type = @ + 1]
                           ELSE [me EXCEPT !.pc = AfterExecute(r)])
             /\ tracked' = Append(tracked, result)

\* The end of an iteration whose tests fail, with the locals `me`: a
\* checkpoint when one is due, made of what the adapter tracks before its store
\* is awaited; or the next test run, or the end of the type.
CheckpointDue(r) == run[r].iteration % CheckpointInterval = 0

Continue(r, me) ==
    IF run[r].iteration < MaxIterations[r]
    THEN /\ Becomes(r, [me EXCEPT !.pc = "tests", !.rebuilds = 0, !.failing = FALSE,
                                  !.iteration = @ + 1, !.saving = <<>>])
         /\ UNCHANGED tracked
    ELSE Conclude(r, FALSE, TRUE, run[r].last)

EndIteration(r, me) ==
    IF CheckpointDue(r)
    THEN Becomes(r, [me EXCEPT !.pc = "checkpoint", !.saving = tracked]) /\ UNCHANGED tracked
    ELSE Continue(r, me)

-----------------------------------------------------------------------------
(* run_tests and handle_warnings                                            *)

\* The first test run of an iteration: it passes, passes with warnings, fails,
\* or raises (a timeout, an answer that is no JSON), which ends the type.
TestsPass(r) ==
    /\ run[r].pc = "tests"
    /\ Conclude(r, TRUE, FALSE, "pass")

TestsWarn(r) ==
    /\ run[r].pc = "tests"
    /\ Becomes(r, [run[r] EXCEPT !.pc = "review", !.passed = TRUE, !.failing = FALSE,
                                 !.last = "pass"])
    /\ UNCHANGED tracked

TestsFail(r) ==
    /\ run[r].pc = "tests"
    /\ Becomes(r, [run[r] EXCEPT !.pc = "analyze", !.failing = TRUE, !.last = "fail"])
    /\ UNCHANGED tracked

TestsRaise(r) ==
    /\ run[r].pc = "tests"
    /\ Conclude(r, run[r].passed, TRUE, "raised")

\* handle_warnings keeps its agent's failures to itself.
Reviewed(r) ==
    /\ run[r].pc = "review"
    /\ Becomes(r, [run[r] EXCEPT !.pc = "retest", !.unfixed = 0])
    /\ UNCHANGED tracked

RetestPasses(r) ==
    /\ run[r].pc = "retest"
    /\ Conclude(r, run[r].passed, FALSE, "pass")

\* The review broke something: the analysis gets the failures of the first
\* run, and there are none.
RetestFails(r) ==
    /\ run[r].pc = "retest"
    /\ Becomes(r, [run[r] EXCEPT !.pc = "analyze", !.passed = FALSE, !.last = "fail"])
    /\ UNCHANGED tracked

\* The local `passed` is still the first run's.
RetestRaises(r) ==
    /\ run[r].pc = "retest"
    /\ Conclude(r, run[r].passed, TRUE, "raised")

Tests(r) ==
    \/ TestsPass(r)    \/ TestsWarn(r)   \/ TestsFail(r)   \/ TestsRaise(r)
    \/ Reviewed(r)     \/ RetestPasses(r) \/ RetestFails(r) \/ RetestRaises(r)

-----------------------------------------------------------------------------
(* Classification and dispatch                                              *)

\* An iteration with failures that no agent call tried to repair; a reviewed
\* warning counts as a try.
Untried(r) == run[r].unfixed + (IF run[r].failing THEN 1 ELSE 0)

\* A code defect, an exception of the analysis, a dependency or configuration
\* issue, or a systemic fix.  Fixing by file with no failures calls nobody; a
\* systemic fix of no failures raises and falls back to fixing by file.
ToFix(r) ==
    /\ run[r].pc = "analyze"
    /\ \E transients \in {0, run[r].transients} :   \* kept when analyze raises
          LET me == [run[r] EXCEPT !.transients = transients] IN
          IF run[r].failing
          THEN Becomes(r, [me EXCEPT !.pc = "fix"]) /\ UNCHANGED tracked
          ELSE EndIteration(r, me)

\* apply_systemic_fixes asks its agent whatever the failures.
ToDependencyFix(r) ==
    /\ run[r].pc = "analyze"
    /\ ~run[r].failing
    /\ Becomes(r, [run[r] EXCEPT !.pc = "fix", !.transients = 0])
    /\ UNCHANGED tracked

\* Mutant: escalation comes one transient failure late.
TransientOnceMore(r) ==
    /\ run[r].pc = "analyze"
    /\ run[r].transients <= MaxTransient
    /\ EndIteration(r, [run[r] EXCEPT !.transients = @ + 1, !.unfixed = Untried(r)])

\* Retried without a fix; after MaxTransient in a row fixed as a code defect.
Transient(r) ==
    /\ run[r].pc = "analyze"
    /\ run[r].transients < MaxTransient
    /\ EndIteration(r, [run[r] EXCEPT !.transients = @ + 1, !.unfixed = Untried(r)])

Escalate(r) ==
    /\ run[r].pc = "analyze"
    /\ run[r].transients >= MaxTransient
    /\ IF run[r].failing
       THEN Becomes(r, [run[r] EXCEPT !.pc = "fix", !.transients = 0]) /\ UNCHANGED tracked
       ELSE EndIteration(r, [run[r] EXCEPT !.transients = 0])

\* The fixing agent is done; its failures are swallowed.
Fixed(r) ==
    /\ run[r].pc = "fix"
    /\ EndIteration(r, [run[r] EXCEPT !.unfixed = 0])

ToRebuild(r) ==
    /\ run[r].pc = "analyze"
    /\ Becomes(r, [run[r] EXCEPT !.pc = "rebuild", !.transients = 0, !.rebuilds = 1,
                                 !.unfixed = 0])
    /\ UNCHANGED tracked

Rebuilt(r) ==
    /\ run[r].pc = "rebuild"
    /\ Becomes(r, [run[r] EXCEPT !.pc = "verify"])
    /\ UNCHANGED tracked

\* Mutant: one rebuild too many.
RebuildFailsOnceMore(r) ==
    /\ run[r].pc \in {"rebuild", "verify"}
    /\ IF run[r].rebuilds <= MaxRebuilds
       THEN Becomes(r, [run[r] EXCEPT !.pc = "rebuild", !.rebuilds = @ + 1])
            /\ UNCHANGED tracked
       ELSE Conclude(r, run[r].passed, TRUE, run[r].last)

\* A rebuild or a verification that fails or times out: another attempt, or
\* the type ends as failed.
RebuildFails(r) ==
    /\ run[r].pc \in {"rebuild", "verify"}
    /\ IF run[r].rebuilds < MaxRebuilds
       THEN Becomes(r, [run[r] EXCEPT !.pc = "rebuild", !.rebuilds = @ + 1])
            /\ UNCHANGED tracked
       ELSE Conclude(r, run[r].passed, TRUE, run[r].last)

\* An answer that is no JSON leaves the attempts: it is handled as a failure of
\* the analysis.
RebuildUnreadable(r) ==
    /\ run[r].pc \in {"rebuild", "verify"}
    /\ IF run[r].failing
       THEN Becomes(r, [run[r] EXCEPT !.pc = "fix", !.rebuilds = 0]) /\ UNCHANGED tracked
       ELSE EndIteration(r, [run[r] EXCEPT !.rebuilds = 0])

Verified(r) ==
    /\ run[r].pc = "verify"
    /\ EndIteration(r, [run[r] EXCEPT !.rebuilds = 0])

Dispatch(r) ==
    \/ ToFix(r)     \/ ToDependencyFix(r) \/ Transient(r) \/ Escalate(r) \/ Fixed(r)
    \/ ToRebuild(r) \/ Rebuilt(r) \/ RebuildFails(r) \/ RebuildUnreadable(r) \/ Verified(r)

\* The store has kept the checkpoint or failed: the loop goes on.
SaveCheckpoint(r) ==
    /\ run[r].pc = "checkpoint"
    /\ stored' \in {stored, [stored EXCEPT ![r] =
                        [attempt |-> run[r].attempt, results |-> run[r].saving]]}
    /\ Continue(r, run[r])

-----------------------------------------------------------------------------
(* CI, the report and the orchestrator                                      *)

\* run_ci_checks: a known exception of the service is a failed result, any
\* other leaves the handler.
CIAnswers(r) ==
    /\ run[r].pc = "ci"
    /\ \/ \E answer \in {"pass", "fail"} :
             Becomes(r, [run[r] EXCEPT !.pc = "locate", !.ci = answer])
       \/ Becomes(r, Raise(r))

\* Mutant: the merged result forgets the CI checks.
OverallOfAgents(r) == \A k \in DOMAIN run[r].results : run[r].results[k].passed

\* overall_success of the merged result.
Overall(r) ==
    /\ run[r].ci # "fail"
    /\ \A k \in DOMAIN run[r].results : run[r].results[k].passed

\* RepairCycleCompleted is published: the orchestrator reads where the card is.
\* A board that cannot tell (GitHub's adapter has no get_item_position) makes
\* it give up, and the card stays.
Publish(r) ==
    /\ run[r].pc = "locate"
    /\ \E next \in {"move", "gone"} :
          Becomes(r, [run[r] EXCEPT !.pc = next, !.seen = position[run[r].item],
                                    !.report = IF Overall(r) THEN "success" ELSE "failure"])
    /\ UNCHANGED position

\* The column it moves the card to, by the configuration of the column it saw.
Destination(r) ==
    CASE run[r].report = "success" /\ run[r].seen + 1 \in Columns -> run[r].seen + 1
      [] run[r].report = "failure" /\ OnFailure[run[r].seen] # NoColumn
           -> OnFailure[run[r].seen]
      [] OTHER -> position[run[r].item]

\* Mutant: the handler raises after the move, and the bus calls it again.
MoveOnAndRaise(r) ==
    /\ run[r].pc = "move"
    /\ position' = [position EXCEPT ![run[r].item] = Destination(r)]
    /\ Becomes(r, Raise(r))

\* The move, which the board may refuse; it disturbs the other runs of the
\* card that are in flight.
MoveOn(r) ==
    /\ run[r].pc = "move"
    /\ position' \in {position, [position EXCEPT ![run[r].item] = Destination(r)]}
    /\ run' = [q \in Runs |->
          IF q = r THEN [run[q] EXCEPT !.pc = "gone"]
          ELSE [run[q] EXCEPT !.disturbed =
                    @ \/ (InFlight(q) /\ run[q].item = run[r].item)]]

\* A person moves a card out of a column, during its repair perhaps.
PersonMoves(i, c) ==
    /\ moves < MaxMoves
    /\ c \notin {RepairColumn, position[i]}
    /\ moves' = moves + 1
    /\ position' = [position EXCEPT ![i] = c]
    /\ run' = [q \in Runs |->
          [run[q] EXCEPT !.disturbed = @ \/ (InFlight(q) /\ run[q].item = i)]]
    /\ UNCHANGED <<tracked, stored>>

-----------------------------------------------------------------------------
Step(r) ==
    \/ Redispatch(r)
    \/ (Tests(r) \/ Dispatch(r)) /\ UNCHANGED <<stored, position, moves>>
    \/ SaveCheckpoint(r) /\ UNCHANGED <<position, moves>>
    \/ CIAnswers(r) /\ UNCHANGED <<tracked, stored, position, moves>>
    \/ (Publish(r) \/ MoveOn(r)) /\ UNCHANGED <<tracked, stored, moves>>

Next ==
    \/ \E r \in Runs : Step(r) \/ \E i \in Items : Enter(r, i)
    \/ \E i \in Items, c \in Columns : PersonMoves(i, c)

Spec == Init /\ [][Next]_vars

\* Every agent call and every call of a service has a timeout, and the bus
\* sleeps a bounded time: a handler that started goes on.
FairSpec == Spec /\ \A r \in Runs : WF_vars(Step(r))

-----------------------------------------------------------------------------
Result == [type : Nat, passed : BOOLEAN, last : {"none", "pass", "fail", "raised"}]

\* The handler's locals keep within the loops' bounds, the rebuild attempts and
\* the results per type included.
TypeOK ==
    /\ \A r \in Runs :
          /\ run[r].pc \in Waiting \cup {"idle", "gone"}
          /\ run[r].item \in Items
          /\ run[r].attempt \in 1 .. MaxAttempts
          /\ run[r].type \in 1 .. Types[r]
          /\ run[r].iteration \in 1 .. MaxIterations[r]
          /\ run[r].transients \in 0 .. MaxTransient
          /\ run[r].rebuilds \in 0 .. MaxRebuilds
          /\ {run[r].failing, run[r].passed} \subseteq BOOLEAN
          /\ run[r].results \in Seq(Result) /\ Len(run[r].results) <= Types[r]
          /\ run[r].seen \in Columns
          /\ run[r].report \in {"none", "success", "failure"}
    /\ tracked \in Seq(Result)
    /\ \A r \in Runs : stored[r].results \in Seq(Result)
    /\ position \in [Items -> Columns]
    /\ moves \in 0 .. MaxMoves

\* A test type is recorded as passed only if the last run of its tests passed:
\* a review of warnings that breaks the tests, or whose second run never
\* answers, cannot leave the first run's verdict in a result.
PassIsLastWord ==
    \A r \in Runs : \A k \in DOMAIN run[r].results :
        run[r].results[k].passed => run[r].results[k].last = "pass"

\* A success is reported only when every configured type was run in this
\* attempt, in order, each with a passing result, and the CI checks passed: a
\* retry of the handler, a fast fail or another card's repair lends no result.
SuccessCoversEveryType ==
    \A r \in Runs : run[r].report = "success" =>
        /\ Len(run[r].results) = Types[r]
        /\ \A k \in 1 .. Types[r] : run[r].results[k].type = k /\ run[r].results[k].passed
        /\ r \in WithCI => run[r].ci = "pass"

\* The tests are not run again and again on untouched code: no more than
\* MaxTransient iterations in a row leave their failures without any attempt
\* at a fix.
FailuresGetAFix == \A r \in Runs : run[r].unfixed <= MaxTransient

\* The checkpoint of a repair that ran alone holds this attempt's own results,
\* in order: nothing is left in it of a repair or of an attempt before.
CheckpointIsOwn ==
    \A r \in Runs : LET saved == stored[r].results IN
        ~run[r].overlapped /\ stored[r].attempt = run[r].attempt =>
            /\ Len(saved) <= Len(run[r].results)
            /\ saved = SubSeq(run[r].results, 1, Len(saved))

\* While its cycle runs, a card that no person and no second repair touched is
\* in the repair column, until the one move that follows the report: a handler
\* the bus calls again has not moved its card already.
CardWaitsForReport ==
    \A r \in Runs : ~run[r].disturbed =>
        /\ InFlight(r) => position[run[r].item] = RepairColumn
        /\ run[r].report # "none" => run[r].seen = RepairColumn

\* Every repair ends, whatever the agents answer: the iterations, the rebuilds
\* and the dispatches by the bus are all bounded.
RepairEnds == []<>(\A r \in Runs : ~InFlight(r))
=============================================================================
