-------------------------- MODULE GitHubBoardAdapter --------------------------
(***************************************************************************)
(* adapters/secondary/github_board_adapter.py: one adapter object for all   *)
(* boards.  Whoever calls get_board() leaves its board as the context that  *)
(* later moves use, and makes sure that a poll loop watches the board.  The *)
(* poll loop compares what it reads with what it read last and reports the  *)
(* differences as moves by somebody else; moves through the adapter are     *)
(* entered in that baseline so that it does not report them.                *)
(*                                                                         *)
(* A reading is a query to GitHub, whose answer is then parsed with one     *)
(* lookup of a work item after the other: other coroutines run between the  *)
(* answer and its use.  GitHub and the people who drag cards are external.  *)
(***************************************************************************)
EXTENDS Integers, FiniteSets

CONSTANTS Boards, Items, Columns,
          Home,      \* item -> the board its card is on
          NoBoard,
          Callers,   \* coroutines that move cards: completion handlers, POST /trigger
          MaxMoves,  \* bound: cards dragged by people
          MaxFaults  \* bound: requests that fail

ASSUME BoardAdapterAssumption ==
    /\ Items # {} /\ Home \in [Items -> Boards]
    /\ NoBoard \notin Boards
    /\ "absent" \notin Columns /\ "nobody" \notin Callers
    /\ MaxMoves \in Nat /\ MaxFaults \in Nat

VARIABLES column,   \* column[i]: where card i is on GitHub, or Absent
          context,  \* _current_project_id and _current_board_id
          poll,     \* poll[b]: the poll loop of board b and the reading it works on
          baseline, \* baseline[b]: _last_known_state of board b; based: it has one
          based,
          lock,     \* who holds _board_lock
          call,     \* call[m]: a get_board() and the move after it
          \* history
          told,     \* told[i]: the column the application last heard of
          dragged,  \* cards dragged since the application was last told of them
          raced,    \* cards moved or answered for while their board was read, or never answered
          crossed,  \* cards whose move was entered in no baseline of their board
          moves,
          faults

bounds == <<moves, faults>>
vars == <<column, context, poll, baseline, based, lock, call,
          told, dragged, raced, crossed, moves, faults>>

Absent == "absent"
Nobody == "nobody"
Loop(pc) == [pc |-> pc, reading |-> [i \in Items |-> Absent]]
NoCall == [pc |-> "idle", item |-> CHOOSE i \in Items : TRUE, to |-> Absent,
           board |-> NoBoard, from |-> Absent]

Fault == faults < MaxFaults /\ faults' = faults + 1

\* What a query of board b is answered with.
Reading(b) == [i \in Items |-> IF Home[i] = b THEN column[i] ELSE Absent]

\* A fresh process; the cards are where they were left.
Init == /\ column \in [Items -> Columns]
        /\ context = NoBoard
        /\ poll = [b \in Boards |-> Loop("none")]
        /\ baseline = [b \in Boards |-> [i \in Items |-> Absent]]
        /\ based = {}
        /\ lock = Nobody
        /\ call = [m \in Callers |-> NoCall]
        /\ told = [i \in Items |-> Absent]
        /\ dragged = {} /\ raced = {} /\ crossed = {}
        /\ moves = 0
        /\ faults = 0
-----------------------------------------------------------------------------
(* The poll loop *)

\* _ensure_polling: a loop that has ended is started again.
EnsurePolling(b) ==
    poll' = IF poll[b].pc \in {"none", "dead"} THEN [poll EXCEPT ![b] = Loop("asleep")] ELSE poll

\* After the interval the board is read; get_board() sets the context.
PollReads(b) == /\ poll[b].pc = "asleep"
                /\ poll' = [poll EXCEPT ![b] = [pc |-> "parsing", reading |-> Reading(b)]]
                /\ context' = b
                /\ UNCHANGED <<column, baseline, based, lock, call, told, dragged, raced,
                               crossed, bounds>>

\* Cards whose move GitHub has made and the adapter has not entered yet.
Unanswered == {call[m].item : m \in {n \in Callers : call[n].pc = "moved"}}

\* Mutant: a board that is read for the first time is compared with nothing.
ChangesFromNothing(b) == {i \in Items : /\ poll[b].reading[i] # Absent
                                        /\ baseline[b][i] # poll[b].reading[i]}

\* _detect_column_changes: cards of the baseline that stand elsewhere now.
Changes(b) == IF b \notin based THEN {}
              ELSE {i \in Items : /\ poll[b].reading[i] # Absent
                                  /\ baseline[b][i] \notin {Absent, poll[b].reading[i]}}

\* The differences are reported, and the reading is the new baseline.  The
\* first sight of a card is not reported; the application is taken to know it.
PollReports(b) ==
    /\ poll[b].pc = "parsing"
    /\ LET new == {i \in Items : poll[b].reading[i] # Absent /\ told[i] = Absent}
           heard == Changes(b) \cup new
       IN  /\ told' = [i \in Items |-> IF i \in heard THEN poll[b].reading[i] ELSE told[i]]
           /\ dragged' = {i \in dragged : Home[i] # b \/ poll[b].reading[i] # column[i]}
    /\ raced' = raced \cup {i \in Unanswered : Home[i] = b}
    /\ baseline' = [baseline EXCEPT ![b] = poll[b].reading]
    /\ based' = based \cup {b}
    /\ poll' = [poll EXCEPT ![b] = Loop("asleep")]
    /\ UNCHANGED <<column, context, lock, call, crossed, bounds>>

\* Any error ends the loop, those the comment calls transient too.
PollFails(b) == /\ poll[b].pc \in {"asleep", "parsing"}
                /\ Fault
                /\ poll' = [poll EXCEPT ![b] = Loop("dead")]
                /\ context' \in {context, b}
                /\ UNCHANGED <<column, baseline, based, lock, call, told, dragged, raced,
                               crossed, moves>>
-----------------------------------------------------------------------------
(* A move through the adapter *)

\* Mutant: whoever reads a board renews its baseline.
OnlyReadsRenews(b) == /\ context' = b
                      /\ EnsurePolling(b)
                      /\ baseline' = [baseline EXCEPT ![b] = Reading(b)]
                      /\ based' = based \cup {b}
                      /\ UNCHANGED <<column, lock, call, told, dragged, raced, crossed, bounds>>

\* The start-up, the queue service and the web API read boards without moving
\* anything.
OnlyReads(b) == /\ context' = b
                /\ EnsurePolling(b)
                /\ UNCHANGED <<column, baseline, based, lock, call, told, dragged, raced,
                               crossed, bounds>>

\* The caller reads the card's board first, so that the context is there.
GetBoard(m, i, c) ==
    /\ call[m].pc = "idle"
    /\ context' = Home[i]
    /\ EnsurePolling(Home[i])
    /\ call' = [call EXCEPT ![m] = [NoCall EXCEPT !.pc = "parsing", !.item = i, !.to = c]]
    /\ UNCHANGED <<column, baseline, based, lock, told, dragged, raced, crossed, bounds>>

\* move_item_to_column: under the lock the context is looked up, and its board
\* is read.
TakeLock(m) ==
    /\ call[m].pc = "parsing"
    /\ lock = Nobody
    /\ lock' = m
    /\ call' = [call EXCEPT ![m].pc = "reading", ![m].board = context]
    /\ UNCHANGED <<column, context, poll, baseline, based, told, dragged, raced, crossed, bounds>>

ReadBoard(m) ==
    /\ call[m].pc = "reading"
    /\ context' = call[m].board
    /\ EnsurePolling(call[m].board)
    /\ call' = [call EXCEPT ![m].pc = "moving", ![m].from = Reading(call[m].board)[call[m].item]]
    /\ UNCHANGED <<column, baseline, based, lock, told, dragged, raced, crossed, bounds>>

\* The call raises; the lock is released.
Raises(m) == /\ call' = [call EXCEPT ![m] = NoCall]
             /\ lock' = Nobody

\* The mutation names the board of the context, which need not be the one
\* that was read.  GitHub refuses a card of another board.
Mutate(m) ==
    /\ call[m].pc = "moving"
    /\ LET i == call[m].item
       IN  IF call[m].from # Absent /\ context = Home[i]
           THEN /\ column' = [column EXCEPT ![i] = call[m].to]
                /\ call' = [call EXCEPT ![m].pc = "moved"]
                /\ raced' = IF poll[Home[i]].pc = "parsing" THEN raced \cup {i} ELSE raced
                /\ UNCHANGED lock
           ELSE Raises(m) /\ UNCHANGED <<column, raced>>
    /\ UNCHANGED <<context, poll, baseline, based, told, dragged, crossed, bounds>>

\* Mutant: the move is not entered in the baseline.
FinishForgets(m) ==
    /\ call[m].pc = "moved"
    /\ told' = [told EXCEPT ![call[m].item] = call[m].to]
    /\ Raises(m)
    /\ UNCHANGED <<column, context, poll, baseline, based, dragged, raced, crossed, bounds>>

\* The move is entered in the baseline of the context's board, if it has one.
\* The application hears of it: by an event, or, the orchestrator, as the caller.
Finish(m) ==
    /\ call[m].pc = "moved"
    /\ LET i == call[m].item
       IN  /\ baseline' = IF context \in based
                          THEN [baseline EXCEPT ![context][i] = call[m].to] ELSE baseline
           /\ told' = [told EXCEPT ![i] = call[m].to]
           /\ dragged' = IF column[i] = call[m].to THEN dragged \ {i} ELSE dragged
           /\ crossed' = IF context \in based \cap {Home[i]} THEN crossed ELSE crossed \cup {i}
           /\ raced' = IF poll[Home[i]].pc = "parsing" THEN raced \cup {i} ELSE raced
    /\ Raises(m)
    /\ UNCHANGED <<column, context, poll, based, bounds>>

\* A request of the call fails; the move may have been made, unanswered.
CallFails(m) ==
    /\ call[m].pc # "idle"
    /\ Fault
    /\ call' = [call EXCEPT ![m] = NoCall]
    /\ lock' = IF lock = m THEN Nobody ELSE lock
    /\ raced' = IF call[m].pc = "moved" THEN raced \cup {call[m].item} ELSE raced
    /\ \/ UNCHANGED <<context, poll>>
       \/ call[m].pc = "reading" /\ context' = call[m].board /\ EnsurePolling(call[m].board)
    /\ UNCHANGED <<column, baseline, based, told, dragged, crossed, moves>>
-----------------------------------------------------------------------------
PersonMoves(i, c) ==
    /\ moves < MaxMoves
    /\ c # column[i]
    /\ moves' = moves + 1
    /\ column' = [column EXCEPT ![i] = c]
    /\ dragged' = dragged \cup {i}
    /\ UNCHANGED <<context, poll, baseline, based, lock, call, told, raced, crossed, faults>>

PollStep(b) == PollReads(b) \/ PollReports(b) \/ PollFails(b)
CallStep(m) == TakeLock(m) \/ ReadBoard(m) \/ Mutate(m) \/ Finish(m) \/ CallFails(m)

Next == \/ \E b \in Boards : PollStep(b) \/ OnlyReads(b)
        \/ \E m \in Callers : CallStep(m) \/ \E i \in Items, c \in Columns : GetBoard(m, i, c)
        \/ \E i \in Items, c \in Columns : PersonMoves(i, c)

Spec == Init /\ [][Next]_vars

\* The event loop goes on with every coroutine; requests are answered or fail.
FairSpec == /\ Spec
            /\ \A b \in Boards : WF_vars(PollStep(b))
            /\ \A m \in Callers : WF_vars(CallStep(m))
-----------------------------------------------------------------------------
(* Properties *)

Positions == [Items -> Columns \cup {Absent}]

\* The state is well formed.
TypeOK ==
    /\ column \in [Items -> Columns]
    /\ context \in Boards \cup {NoBoard}
    /\ poll \in [Boards -> [pc : {"none", "asleep", "parsing", "dead"}, reading : Positions]]
    /\ baseline \in [Boards -> Positions]
    /\ based \subseteq Boards
    /\ lock \in Callers \cup {Nobody}
    /\ call \in [Callers -> [pc : {"idle", "parsing", "reading", "moving", "moved"},
                             item : Items, to : Columns \cup {Absent},
                             board : Boards \cup {NoBoard}, from : Columns \cup {Absent}]]
    /\ told \in Positions
    /\ dragged \cup raced \cup crossed \subseteq Items
    /\ moves \in 0 .. MaxMoves /\ faults \in 0 .. MaxFaults

\* The baseline of a board holds what the application was told, so that a
\* difference is news and no difference hides one: only a move that was entered
\* in no baseline of its board, or in another's, can part the two.
BaselineIsTold ==
    \A i \in Items \ crossed :
        baseline[Home[i]][i] # Absent => baseline[Home[i]][i] = told[i]

\* "so the background poll loop does not re-report it as an external change":
\* what a loop is about to report was moved by a person, unless a move through
\* the adapter met a reading of the board half way, was never answered, or
\* missed the baseline.
ReportsPeoplesMoves ==
    \A b \in Boards : poll[b].pc = "parsing" =>
        Changes(b) \subseteq dragged \cup raced \cup crossed \cup Unanswered

\* As long as its board is polled, the application comes to know where a card
\* lies, whatever readings and moves have overtaken each other before.
CardsSeen ==
    \A i \in Items :
        /\ []<>(poll[Home[i]].pc = "parsing")
        /\ [](i \notin crossed)
        => []<>(told[i] = column[i])
=============================================================================
