-------------------------- MODULE AgentExecutor_proofs --------------------------
(***************************************************************************)
(* Theorems about AgentExecutor, for any items, calls and bounds.  A step   *)
(* of a task changes the records of its own call; what a call's records say *)
(* of each other (Counted, Tells) and what guard and calls say of each      *)
(* other (Guard) are kept apart.                                            *)
(***************************************************************************)
EXTENDS AgentExecutor, SequenceTheorems, TLAPS

Places == Driving \cup Cleaning \cup {"new", "ignored", "lookup", "recover", "raised",
                                      "done", "over"}
CallType == [pc : Places, item : Items, ok : BOOLEAN, committed : BOOLEAN, reports : Nat,
             cut : BOOLEAN, cancelled : BOOLEAN, unstored : BOOLEAN]
Statuses == {"none", "initialized", "running", "completed", "failed", "cancelled"}
Log == Seq(Events)
ExecType == [status : Statuses, pend : Log, log : Log]
PubType == [pc : {"none", "handling", "parked", "advanced", "dropped"},
            ok : BOOLEAN, tries : 0 .. MaxRetries, noted : BOOLEAN]

EndsWith(log, event) == log # <<>> /\ Last(log) = event

\* How often a call has reported, from where it is.
Counted(r) ==
    /\ r.pc \in Places \ {"cleanup", "done", "over"} => r.reports = 0 /\ ~r.cut
    /\ r.pc = "cleanup" => r.reports = 1 /\ ~r.cut
    /\ r.pc \in {"done", "over"} => r.reports <= 1 /\ (r.reports = 0 <=> r.cut)

\* What call r, entity e with its stream, and report p say of each other.
Before == {"new", "ignored", "lookup", "recover", "raised", "begin", "prepare", "create"}
Ending == {"finalize", "clear", "cleanup", "done", "over"}
Tells(r, e, p) ==
    /\ r.ok => r.pc \in Ending /\ r.committed /\ EndsWith(e.log, "Completed")
    /\ p.ok => r.pc \in {"done", "over"} /\ r.committed /\ EndsWith(e.log, "Completed")
    /\ r.pc \in Before => e.log = <<>> /\ ~r.unstored /\ ~r.cancelled
    /\ r.pc = "abort" => r.unstored
    /\ r.pc = "complete" => r.committed
    /\ r.pc \in {"agent", "commit", "complete", "fail"} => e.status = "running" \/ r.cancelled
    /\ ~r.unstored /\ ~r.cancelled /\ e.log # <<>> =>
         /\ r.pc \in Ending => EndsWith(e.log, IF r.ok THEN "Completed" ELSE "Failed")
         /\ r.pc # "cleanup"
         /\ r.pc \in {"done", "over"} => p.ok = r.ok

CallsAgree == \A c \in Calls : Counted(call[c]) /\ Tells(call[c], exec[c], pub[c])

\* An item of a task is in the guard, unless tasks raced for it; two calls past
\* the test of the guard have raced.
Live(c) == At(c, "lookup") \/ Running(c)
Guard == /\ GuardHasTask
         /\ \A c \in Calls : Running(c) => Item(c) \in executing \cup raced
         /\ \A c, d \in Calls : c # d /\ Live(c) /\ Live(d) /\ Item(c) = Item(d)
                                  => Item(c) \in raced

IInv == TypeOK /\ CallsAgree /\ Guard

-----------------------------------------------------------------------------
LEMMA Facts == /\ MaxRuns \in Nat \ {0} /\ MaxRetries \in Nat
               /\ MaxCancels \in Nat /\ MaxFaults \in Nat /\ Items # {}
BY ExecutorAssumption

\* The last element of a stream that has just been appended to.
LEMMA AppendedEnds ==
    ASSUME NEW S, NEW log \in Seq(S), NEW pend \in Seq(S), NEW event \in S
    PROVE  /\ log \o Append(pend, event) \in Seq(S)
           /\ EndsWith(log \o Append(pend, event), event)
<1> DEFINE more == Append(pend, event)
           all == log \o more
<1>1. more \in Seq(S) /\ Len(more) = Len(pend) + 1 /\ more[Len(more)] = event
  OBVIOUS
<1> HIDE DEF more
<1>2. all \in Seq(S) /\ Len(all) = Len(log) + Len(more) /\ Len(log) \in Nat /\ Len(pend) \in Nat
  BY <1>1
<1>3. all[Len(all)] = event
  BY <1>1, <1>2
<1>4. all # <<>>
  BY <1>1, <1>2
<1> QED BY <1>1, <1>2, <1>3, <1>4 DEF EndsWith, Last, more

\* The same for the streams of executions.
LEMMA LogEnds ==
    ASSUME NEW log \in Log, NEW pend \in Log, NEW event \in Events
    PROVE  /\ log \o Append(pend, event) \in Log
           /\ EndsWith(log \o Append(pend, event), event)
           /\ Append(pend, event) \in Log /\ <<>> \in Log
<1>1. Append(pend, event) \in Seq(Events)
  BY Zenon, AppendProperties DEF Log
<1>2. <<>> \in Log
  BY DEF Log
<1> QED BY <1>1, <1>2, Zenon, AppendedEnds DEF Log

LEMMA Types == ASSUME TypeOK
               PROVE  /\ call \in [Calls -> CallType] /\ exec \in [Calls -> ExecType]
                      /\ pub \in [Calls -> PubType] /\ run \in [Items -> 0 .. MaxRuns]
BY DEF TypeOK, CallType, ExecType, PubType, Places, Statuses, Log

LEMMA NewCallType ==
    /\ NewCall \in CallType /\ NewCall.pc = "new" /\ NewCall.reports = 0
    /\ ~NewCall.cut /\ ~NewCall.ok /\ ~NewCall.unstored /\ ~NewCall.cancelled
<1>1. (CHOOSE i \in Items : TRUE) \in Items
  BY Facts
<1> QED BY <1>1 DEF NewCall, CallType, Places

LEMMA NoPubType == NoPub \in PubType /\ ~NoPub.ok
BY Facts DEF NoPub, PubType

\* One call goes to another place.
Same(r, q) == /\ r.item = q.item /\ r.ok = q.ok /\ r.committed = q.committed /\ r.cut = q.cut
              /\ r.cancelled = q.cancelled /\ r.unstored = q.unstored

Alone(c) == \A d \in Calls : d # c => /\ call'[d] = call[d]
                                      /\ exec'[d] = exec[d]
                                      /\ pub'[d] = pub[d]

LEMMA GotoEffect ==
    ASSUME TypeOK, NEW c \in Calls, NEW pc \in Places, Goto(c, pc)
    PROVE  /\ call' \in [Calls -> CallType]
           /\ Same(call'[c], call[c]) /\ call'[c].pc = pc /\ call'[c].reports = call[c].reports
           /\ \A d \in Calls : d # c => call'[d] = call[d]
<1> DEFINE r == [call[c] EXCEPT !.pc = pc]
<1>1. call \in [Calls -> CallType]
  BY Types
<1>2. r \in CallType /\ Same(r, call[c]) /\ r.pc = pc /\ r.reports = call[c].reports
  BY <1>1 DEF CallType, Same
<1>3. call' = [call EXCEPT ![c] = r]
  BY DEF Goto
<1> HIDE DEF r
<1> QED BY <1>1, <1>2, <1>3

\* A call publishes its completion event.
LEMMA ReportEffect ==
    ASSUME TypeOK, NEW c \in Calls, NEW ok \in BOOLEAN, NEW pc \in Places, Report(c, ok, pc)
    PROVE  /\ call' \in [Calls -> CallType] /\ pub' \in [Calls -> PubType]
           /\ Same(call'[c], call[c]) /\ call'[c].pc = pc
           /\ call'[c].reports = call[c].reports + 1
           /\ pub'[c].ok = ok
           /\ \A d \in Calls : d # c => call'[d] = call[d] /\ pub'[d] = pub[d]
<1> DEFINE n == call[c].reports + 1
           r == [call[c] EXCEPT !.pc = pc, !.reports = n]
           p == [NoPub EXCEPT !.pc = "handling", !.ok = ok]
<1>1. call \in [Calls -> CallType] /\ pub \in [Calls -> PubType]
  BY Types
<1>n. n \in Nat
  BY <1>1 DEF CallType
<1> HIDE DEF n
<1>2. r \in CallType /\ Same(r, call[c]) /\ r.pc = pc /\ r.reports = n
  BY <1>1, <1>n DEF CallType, Same
<1>3. p \in PubType /\ p.ok = ok
  BY NoPubType DEF PubType
<1>4. call' = [call EXCEPT ![c] = r] /\ pub' = [pub EXCEPT ![c] = p]
  BY DEF Report, n
<1> HIDE DEF r, p
<1> QED BY <1>1, <1>2, <1>3, <1>4 DEF n

\* An event is appended to the stream of c, or the append raises.
LEMMA RecordEffect ==
    ASSUME TypeOK, NEW c \in Calls, NEW status \in Statuses, NEW event \in Events,
           NEW good \in Places, NEW bad \in Places, Record(c, status, event, good, bad)
    PROVE  /\ call' \in [Calls -> CallType] /\ exec' \in [Calls -> ExecType]
           /\ \A d \in Calls : d # c => call'[d] = call[d] /\ exec'[d] = exec[d]
           /\ call'[c].item = call[c].item /\ call'[c].committed = call[c].committed
           /\ call'[c].cut = call[c].cut /\ call'[c].cancelled = call[c].cancelled
           /\ call'[c].reports = call[c].reports
           /\ exec'[c].status = status
           /\ faults' \in 0 .. MaxFaults
           /\ \/ /\ call'[c].pc = good /\ call'[c].ok = (status = "completed")
                 /\ call'[c].unstored = call[c].unstored
                 /\ EndsWith(exec'[c].log, event)
              \/ /\ call'[c].pc = bad /\ call'[c].ok = call[c].ok /\ call'[c].unstored
                 /\ exec'[c].log = exec[c].log
<1>1. /\ call \in [Calls -> CallType] /\ exec \in [Calls -> ExecType]
      /\ faults \in 0 .. MaxFaults /\ MaxFaults \in Nat
  BY Types, Facts DEF TypeOK
<1>2. CASE /\ exec' = [exec EXCEPT ![c].status = status,
                                   ![c].pend = <<>>,
                                   ![c].log = @ \o Append(exec[c].pend, event)]
           /\ call' = [call EXCEPT ![c].pc = good, ![c].ok = status = "completed"]
           /\ UNCHANGED faults
  <2> DEFINE log == exec[c].log \o Append(exec[c].pend, event)
             e == [exec[c] EXCEPT !.status = status, !.pend = <<>>, !.log = log]
             r == [call[c] EXCEPT !.pc = good, !.ok = status = "completed"]
  <2>1. log \in Log /\ EndsWith(log, event)
    BY <1>1, LogEnds DEF ExecType
  <2>f. faults' = faults
    BY <1>2
  <2> HIDE DEF log
  <2>2. e \in ExecType /\ e.status = status /\ e.log = log
    BY <1>1, <2>1, LogEnds DEF ExecType
  <2>3. /\ r \in CallType /\ r.pc = good /\ r.ok = (status = "completed")
        /\ r.unstored = call[c].unstored /\ r.reports = call[c].reports
        /\ r.item = call[c].item /\ r.committed = call[c].committed
        /\ r.cut = call[c].cut /\ r.cancelled = call[c].cancelled
    BY <1>1 DEF CallType
  <2>4. exec' = [exec EXCEPT ![c] = e] /\ call' = [call EXCEPT ![c] = r]
    BY <1>2 DEF log
  <2> HIDE DEF e, r
  <2>5. call'[c] = r /\ exec'[c] = e /\ faults' = faults
        /\ call' \in [Calls -> CallType] /\ exec' \in [Calls -> ExecType]
        /\ \A d \in Calls : d # c => call'[d] = call[d] /\ exec'[d] = exec[d]
    BY <1>1, <2>f, <2>2, <2>3, <2>4
  <2> QED BY <1>1, <2>1, <2>2, <2>3, <2>5
<1>3. CASE /\ Fault
           /\ exec' = [exec EXCEPT ![c].status = status, ![c].pend = Append(@, event)]
           /\ call' = [call EXCEPT ![c].pc = bad, ![c].unstored = TRUE]
  <2> DEFINE e == [exec[c] EXCEPT !.status = status, !.pend = Append(@, event)]
             r == [call[c] EXCEPT !.pc = bad, !.unstored = TRUE]
  <2>1. Append(exec[c].pend, event) \in Log
    BY <1>1, LogEnds DEF ExecType
  <2>2. e \in ExecType /\ e.status = status /\ e.log = exec[c].log
    BY <1>1, <2>1 DEF ExecType
  <2>3. /\ r \in CallType /\ r.pc = bad /\ r.ok = call[c].ok
        /\ r.unstored /\ r.reports = call[c].reports
        /\ r.item = call[c].item /\ r.committed = call[c].committed
        /\ r.cut = call[c].cut /\ r.cancelled = call[c].cancelled
    BY <1>1 DEF CallType
  <2>4. exec' = [exec EXCEPT ![c] = e] /\ call' = [call EXCEPT ![c] = r]
    BY <1>3
  <2>5. faults' \in 0 .. MaxFaults
    BY <1>1, <1>3 DEF Fault
  <2> HIDE DEF e, r
  <2> QED BY <1>1, <2>2, <2>3, <2>4, <2>5
<1> QED BY <1>2, <1>3 DEF Record
-----------------------------------------------------------------------------
Busy == Driving \cup Cleaning \cup {"done"}
Marks == [1 .. MaxRuns -> SUBSET {"advanced", "failed"}]

LEMMA FaultCounts == ASSUME TypeOK, Fault PROVE faults' \in 0 .. MaxFaults
BY Facts DEF TypeOK, Fault

\* A step that changes only the records of c, and neither starts nor ends its task.
LEMMA TaskStep ==
    ASSUME IInv, NEW c \in Calls,
           call' \in [Calls -> CallType], exec' \in [Calls -> ExecType],
           pub' \in [Calls -> PubType], run' \in [Items -> 0 .. MaxRuns],
           faults' \in 0 .. MaxFaults, cancels' \in 0 .. MaxCancels, runLog' \in Marks,
           UNCHANGED <<runs, executing, raced>>, Alone(c),
           call'[c].item = call[c].item,
           call'[c].pc \in Busy <=> call[c].pc \in Busy,
           call'[c].pc = "lookup" => call[c].pc = "lookup",
           Counted(call'[c]), Tells(call'[c], exec'[c], pub'[c])
    PROVE  IInv'
<1>1. TypeOK'
  BY DEF IInv, TypeOK, CallType, ExecType, PubType, Places, Statuses, Log, Marks
<1>2. CallsAgree'
  BY DEF IInv, CallsAgree, Alone
<1>3. \A d \in Calls : /\ Item(d)' = Item(d)
                       /\ Running(d)' <=> Running(d)
                       /\ Live(d)' => Live(d)
  BY DEF Alone, Item, Running, Live, Busy, At
<1>4. Guard'
  BY <1>3 DEF IInv, Guard, GuardHasTask
<1> QED BY <1>1, <1>2, <1>4 DEF IInv

\* What the invariant says of one call.
LEMMA OfCall ==
    ASSUME IInv, NEW c \in Calls
    PROVE  /\ TypeOK /\ Counted(call[c]) /\ Tells(call[c], exec[c], pub[c])
           /\ call[c] \in CallType /\ exec[c] \in ExecType /\ pub[c] \in PubType
           /\ call \in [Calls -> CallType] /\ exec \in [Calls -> ExecType]
           /\ pub \in [Calls -> PubType] /\ run \in [Items -> 0 .. MaxRuns]
           /\ faults \in 0 .. MaxFaults /\ cancels \in 0 .. MaxCancels /\ runLog \in Marks
BY Types DEF IInv, CallsAgree, TypeOK, Marks

\* A step that only goes on.
LEMMA GotoStep ==
    ASSUME IInv, NEW c \in Calls, NEW pc \in Places, Goto(c, pc),
           UNCHANGED <<runs, executing, exec, pub, raced, cancels>>,
           run' \in [Items -> 0 .. MaxRuns], faults' \in 0 .. MaxFaults, runLog' \in Marks,
           pc \in Busy <=> call[c].pc \in Busy, pc # "lookup",
           ASSUME NEW r \in CallType, Same(r, call[c]), r.pc = pc, r.reports = call[c].reports
           PROVE  Counted(r) /\ Tells(r, exec[c], pub[c])
    PROVE  IInv'
<1>1. /\ call' \in [Calls -> CallType]
      /\ Same(call'[c], call[c]) /\ call'[c].pc = pc /\ call'[c].reports = call[c].reports
      /\ \A d \in Calls : d # c => call'[d] = call[d]
  BY OfCall, GotoEffect
<1>2. call'[c] \in CallType
  BY <1>1
<1>3. Counted(call'[c]) /\ Tells(call'[c], exec[c], pub[c])
  BY <1>1, <1>2
<1>4. Alone(c) /\ call'[c].item = call[c].item
  BY <1>1 DEF Alone, Same
<1> QED BY <1>1, <1>3, <1>4, OfCall, TaskStep

\* A step that publishes the completion event and goes on.
LEMMA ReportStep ==
    ASSUME IInv, NEW c \in Calls, NEW ok \in BOOLEAN, NEW pc \in Places, Report(c, ok, pc),
           UNCHANGED <<runs, runLog, executing, exec, raced, cancels>>,
           run' \in [Items -> 0 .. MaxRuns], faults' \in 0 .. MaxFaults,
           pc \in Busy <=> call[c].pc \in Busy, pc # "lookup",
           ASSUME NEW r, NEW p, Same(r, call[c]), r.pc = pc,
                  r.reports = call[c].reports + 1, p.ok = ok
           PROVE  Counted(r) /\ Tells(r, exec[c], p)
    PROVE  IInv'
<1>1. /\ call' \in [Calls -> CallType] /\ pub' \in [Calls -> PubType]
      /\ Same(call'[c], call[c]) /\ call'[c].pc = pc
      /\ call'[c].reports = call[c].reports + 1
      /\ pub'[c].ok = ok
      /\ \A d \in Calls : d # c => call'[d] = call[d] /\ pub'[d] = pub[d]
  BY OfCall, ReportEffect
<1>2. Counted(call'[c]) /\ Tells(call'[c], exec[c], pub'[c])
  BY <1>1
<1>3. Alone(c) /\ call'[c].item = call[c].item
  BY <1>1 DEF Alone, Same
<1> QED BY <1>1, <1>2, <1>3, OfCall, TaskStep

-----------------------------------------------------------------------------
(* The steps of a task                                                      *)

LEMMA LookupFailsKeeps == ASSUME IInv, NEW c \in Calls, LookupFails(c) PROVE IInv'
<1>1. Goto(c, "recover") /\ call[c].pc = "lookup" /\ faults' \in 0 .. MaxFaults
  BY OfCall, FaultCounts DEF LookupFails, At
<1>2. ASSUME NEW r \in CallType, Same(r, call[c]), r.pc = "recover",
             r.reports = call[c].reports
      PROVE  Counted(r) /\ Tells(r, exec[c], pub[c])
  BY <1>1, <1>2, OfCall DEF Counted, Tells, Same, Places, Driving, Cleaning, Before, Ending
<1> QED BY <1>1, <1>2, OfCall, GotoStep
        DEF LookupFails, registry, Places, Busy, Driving, Cleaning

LEMMA RecoverRunKeeps == ASSUME IInv, NEW c \in Calls, RecoverRun(c) PROVE IInv'
<1>1. Goto(c, "raised") /\ call[c].pc = "recover"
  BY DEF RecoverRun, At
<1>2. faults' \in 0 .. MaxFaults /\ runLog' \in Marks
  <2>1. CASE UNCHANGED faults /\ runLog' = [r \in DOMAIN runLog |->
               IF r = run[Item(c)] THEN runLog[r] \cup {"failed"} ELSE runLog[r]]
    BY <2>1, OfCall DEF Marks
  <2>2. CASE Fault /\ UNCHANGED runLog
    BY <2>2, OfCall, FaultCounts
  <2> QED BY <2>1, <2>2 DEF RecoverRun
<1>3. ASSUME NEW r \in CallType, Same(r, call[c]), r.pc = "raised",
             r.reports = call[c].reports
      PROVE  Counted(r) /\ Tells(r, exec[c], pub[c])
  BY <1>1, <1>3, OfCall DEF Counted, Tells, Same, Places, Driving, Cleaning, Before, Ending
<1> QED BY <1>1, <1>2, <1>3, OfCall, GotoStep
        DEF RecoverRun, Places, Busy, Driving, Cleaning

LEMMA BeginKeeps == ASSUME IInv, NEW c \in Calls, Begin(c) PROVE IInv'
<1>1. call[c].pc = "begin" /\ UNCHANGED <<registry, executing, exec, raced, bounds>>
  BY DEF Begin, At
<1>2. CASE Goto(c, "prepare") /\ UNCHANGED pub
  <2>1. ASSUME NEW r \in CallType, Same(r, call[c]), r.pc = "prepare",
               r.reports = call[c].reports
        PROVE  Counted(r) /\ Tells(r, exec[c], pub[c])
    BY <1>1, <2>1, OfCall DEF Counted, Tells, Same, Places, Driving, Cleaning, Before, Ending
  <2> QED BY <1>1, <1>2, <2>1, OfCall, GotoStep
          DEF registry, bounds, Places, Busy, Driving, Cleaning
<1>3. CASE Report(c, FALSE, "cleanup")
  <2>1. ASSUME NEW r, NEW p, Same(r, call[c]), r.pc = "cleanup",
               r.reports = call[c].reports + 1, p.ok = FALSE
        PROVE  Counted(r) /\ Tells(r, exec[c], p)
    BY <1>1, <2>1, OfCall DEF Counted, Tells, Same, Places, Driving, Cleaning, Before, Ending
  <2> QED BY <1>1, <1>3, <2>1, OfCall, ReportStep
          DEF registry, bounds, Places, Busy, Driving, Cleaning
<1> QED BY <1>2, <1>3 DEF Begin

LEMMA PrepareKeeps == ASSUME IInv, NEW c \in Calls, Prepare(c) PROVE IInv'
<1>1. call[c].pc = "prepare" /\ UNCHANGED <<registry, executing, exec, raced, bounds>>
  BY DEF Prepare, At
<1>2. CASE Goto(c, "create") /\ UNCHANGED pub
  <2>1. ASSUME NEW r \in CallType, Same(r, call[c]), r.pc = "create",
               r.reports = call[c].reports
        PROVE  Counted(r) /\ Tells(r, exec[c], pub[c])
    BY <1>1, <2>1, OfCall DEF Counted, Tells, Same, Places, Driving, Cleaning, Before, Ending
  <2> QED BY <1>1, <1>2, <2>1, OfCall, GotoStep
          DEF registry, bounds, Places, Busy, Driving, Cleaning
<1>3. CASE Report(c, FALSE, "cleanup")
  <2>1. ASSUME NEW r, NEW p, Same(r, call[c]), r.pc = "cleanup",
               r.reports = call[c].reports + 1, p.ok = FALSE
        PROVE  Counted(r) /\ Tells(r, exec[c], p)
    BY <1>1, <2>1, OfCall DEF Counted, Tells, Same, Places, Driving, Cleaning, Before, Ending
  <2> QED BY <1>1, <1>3, <2>1, OfCall, ReportStep
          DEF registry, bounds, Places, Busy, Driving, Cleaning
<1> QED BY <1>2, <1>3 DEF Prepare

LEMMA UnexpectedKeeps == ASSUME IInv, NEW c \in Calls, Unexpected(c) PROVE IInv'
<1>1. Goto(c, "clear") /\ call[c].pc \in {"begin", "prepare", "abort"}
      /\ faults' \in 0 .. MaxFaults
  BY OfCall, FaultCounts DEF Unexpected
<1>2. ASSUME NEW r \in CallType, Same(r, call[c]), r.pc = "clear",
             r.reports = call[c].reports
      PROVE  Counted(r) /\ Tells(r, exec[c], pub[c])
  BY <1>1, <1>2, OfCall DEF Counted, Tells, Same, Places, Driving, Cleaning, Before, Ending
<1> QED BY <1>1, <1>2, OfCall, GotoStep
        DEF Unexpected, registry, Places, Busy, Driving, Cleaning

LEMMA AbortKeeps == ASSUME IInv, NEW c \in Calls, Abort(c) PROVE IInv'
<1>1. Report(c, FALSE, "cleanup") /\ call[c].pc = "abort"
      /\ UNCHANGED <<registry, executing, exec, raced, bounds>>
  BY DEF Abort, At
<1>2. ASSUME NEW r, NEW p, Same(r, call[c]), r.pc = "cleanup",
             r.reports = call[c].reports + 1, p.ok = FALSE
      PROVE  Counted(r) /\ Tells(r, exec[c], p)
  BY <1>1, <1>2, OfCall DEF Counted, Tells, Same, Places, Driving, Cleaning, Before, Ending
<1> QED BY <1>1, <1>2, OfCall, ReportStep
        DEF registry, bounds, Places, Busy, Driving, Cleaning

LEMMA AgentReturnsKeeps == ASSUME IInv, NEW c \in Calls, AgentReturns(c) PROVE IInv'
<1>1. call[c].pc = "agent" /\ UNCHANGED <<registry, executing, exec, pub, raced, bounds>>
  BY DEF AgentReturns, At
<1>2. PICK next \in {"commit", "fail"} : Goto(c, next)
  BY DEF AgentReturns
<1>3. ASSUME NEW r \in CallType, Same(r, call[c]), r.pc = next,
             r.reports = call[c].reports
      PROVE  Counted(r) /\ Tells(r, exec[c], pub[c])
  BY <1>1, <1>2, <1>3, OfCall
     DEF Counted, Tells, Same, Places, Driving, Cleaning, Before, Ending
<1>4. next \in Places /\ next \in Busy /\ next # "lookup"
  BY DEF Places, Busy, Driving
<1> QED BY <1>1, <1>2, <1>3, <1>4, OfCall, GotoStep
        DEF registry, bounds, Busy, Driving

LEMMA CommitKeeps == ASSUME IInv, NEW c \in Calls, Commit(c) PROVE IInv'
<1>1. call[c].pc = "commit" /\ UNCHANGED <<registry, executing, exec, pub, raced, cancels>>
  BY DEF Commit, At
<1>2. CASE call' = [call EXCEPT ![c].pc = "complete", ![c].committed = TRUE] /\ UNCHANGED faults
  <2> DEFINE r == [call[c] EXCEPT !.pc = "complete", !.committed = TRUE]
  <2>1. /\ r \in CallType /\ r.pc = "complete" /\ r.committed /\ r.item = call[c].item
        /\ r.reports = call[c].reports /\ r.ok = call[c].ok /\ r.cut = call[c].cut
        /\ r.unstored = call[c].unstored /\ r.cancelled = call[c].cancelled
    BY OfCall DEF CallType, Places, Driving
  <2>2. call' = [call EXCEPT ![c] = r]
    BY <1>2
  <2> HIDE DEF r
  <2>3. Counted(r) /\ Tells(r, exec[c], pub[c])
    BY <1>1, <2>1, OfCall DEF Counted, Tells, Places, Driving, Cleaning, Before, Ending
  <2>4. call' \in [Calls -> CallType] /\ call'[c] = r /\ Alone(c)
    BY <1>1, <2>1, <2>2, OfCall DEF Alone
  <2> QED BY <1>1, <1>2, <2>1, <2>3, <2>4, OfCall, TaskStep
          DEF registry, Busy, Driving
<1>3. CASE Goto(c, "fail") /\ Fault
  <2>1. ASSUME NEW r \in CallType, Same(r, call[c]), r.pc = "fail",
               r.reports = call[c].reports
        PROVE  Counted(r) /\ Tells(r, exec[c], pub[c])
    BY <1>1, <2>1, OfCall DEF Counted, Tells, Same, Places, Driving, Cleaning, Before, Ending
  <2>2. faults' \in 0 .. MaxFaults
    BY <1>3, OfCall, FaultCounts
  <2> QED BY <1>1, <1>3, <2>1, <2>2, OfCall, GotoStep
          DEF registry, Places, Busy, Driving, Cleaning
<1> QED BY <1>2, <1>3 DEF Commit

\* create_execution and start_execution: on to good, or to "abort".
LEMMA RecordOn ==
    ASSUME IInv, NEW c \in Calls, NEW status \in {"initialized", "running"},
           NEW event \in Events, NEW good \in {"start", "agent"},
           call[c].pc \in {"create", "start"}, good = "agent" => status = "running",
           Record(c, status, event, good, "abort"),
           UNCHANGED <<registry, executing, pub, raced, cancels>>
    PROVE  IInv'
<1>1. /\ status \in Statuses /\ event \in Events /\ good \in Places /\ "abort" \in Places
      /\ good \in Busy /\ "abort" \in Busy /\ call[c].pc \in Busy
      /\ status # "completed"
  BY DEF Statuses, Places, Busy, Driving
<1>2. /\ call' \in [Calls -> CallType] /\ exec' \in [Calls -> ExecType]
      /\ \A d \in Calls : d # c => call'[d] = call[d] /\ exec'[d] = exec[d]
      /\ call'[c].item = call[c].item /\ call'[c].committed = call[c].committed
      /\ call'[c].cut = call[c].cut /\ call'[c].cancelled = call[c].cancelled
      /\ call'[c].reports = call[c].reports
      /\ exec'[c].status = status
      /\ faults' \in 0 .. MaxFaults
  BY <1>1, OfCall, RecordEffect
<1>3. \/ /\ call'[c].pc = good /\ call'[c].ok = (status = "completed")
         /\ call'[c].unstored = call[c].unstored
      \/ call'[c].pc = "abort" /\ call'[c].ok = call[c].ok /\ call'[c].unstored
  BY <1>1, OfCall, RecordEffect
<1>4. Counted(call'[c])
  BY <1>2, <1>3, OfCall DEF Counted, Places, Driving, Cleaning
<1>5. Tells(call'[c], exec'[c], pub[c])
  BY <1>1, <1>2, <1>3, OfCall DEF Tells, Before, Ending
<1>6. Alone(c) /\ pub' = pub
  BY <1>2 DEF Alone
<1> QED BY <1>1, <1>2, <1>3, <1>4, <1>5, <1>6, OfCall, TaskStep DEF registry

\* complete and fail: on to "finalize", whether or not the event is appended.
LEMMA RecordEnd ==
    ASSUME IInv, NEW c \in Calls, NEW status \in {"completed", "failed"},
           NEW event \in Events,
           status = "completed" => call[c].pc = "complete" /\ event = "Completed",
           status = "failed" => event = "Failed",
           call[c].pc \in {"complete", "fail"},
           Record(c, status, event, "finalize", "finalize"),
           UNCHANGED <<registry, executing, pub, raced, cancels>>
    PROVE  IInv'
<1>1. /\ status \in Statuses /\ event \in Events /\ "finalize" \in Places
      /\ "finalize" \in Busy /\ call[c].pc \in Busy
  BY DEF Statuses, Places, Busy, Driving
<1>2. /\ call' \in [Calls -> CallType] /\ exec' \in [Calls -> ExecType]
      /\ \A d \in Calls : d # c => call'[d] = call[d] /\ exec'[d] = exec[d]
      /\ call'[c].item = call[c].item /\ call'[c].committed = call[c].committed
      /\ call'[c].cut = call[c].cut /\ call'[c].cancelled = call[c].cancelled
      /\ call'[c].reports = call[c].reports
      /\ faults' \in 0 .. MaxFaults
      /\ call'[c].pc = "finalize"
  BY <1>1, OfCall, RecordEffect
<1>3. \/ /\ call'[c].ok = (status = "completed") /\ call'[c].unstored = call[c].unstored
         /\ EndsWith(exec'[c].log, event)
      \/ /\ call'[c].ok = call[c].ok /\ call'[c].unstored
         /\ exec'[c].log = exec[c].log
  BY <1>1, OfCall, RecordEffect
<1>4. Counted(call'[c])
  BY <1>2, OfCall DEF Counted, Places, Driving, Cleaning
<1>5. Tells(call'[c], exec'[c], pub[c])
  BY <1>2, <1>3, OfCall DEF Tells, Before, Ending
<1>6. Alone(c) /\ pub' = pub
  BY <1>2 DEF Alone
<1> QED BY <1>1, <1>2, <1>4, <1>5, <1>6, OfCall, TaskStep DEF registry

LEMMA CreateExecutionKeeps == ASSUME IInv, NEW c \in Calls, CreateExecution(c) PROVE IInv'
<1>1. "Initialized" \in Events
  BY DEF Events
<1>2. /\ call[c].pc = "create" /\ Record(c, "initialized", "Initialized", "start", "abort")
      /\ UNCHANGED <<registry, executing, pub, raced, cancels>>
  BY DEF CreateExecution, At
<1> QED BY <1>1, <1>2, RecordOn

LEMMA StartExecutionKeeps == ASSUME IInv, NEW c \in Calls, StartExecution(c) PROVE IInv'
<1>1. "Started" \in Events
  BY DEF Events
<1>2. /\ call[c].pc = "start" /\ Record(c, "running", "Started", "agent", "abort")
      /\ UNCHANGED <<registry, executing, pub, raced, cancels>>
  BY DEF StartExecution, At
<1> QED BY <1>1, <1>2, RecordOn

LEMMA RefusedKeeps ==
    ASSUME IInv, NEW c \in Calls, call[c].pc \in {"complete", "fail"}, Refused(c),
           UNCHANGED <<registry, executing, pub, raced, cancels>>
    PROVE  IInv'
<1>1. Goto(c, "finalize") /\ exec[c].status # "running" /\ UNCHANGED <<exec, faults>>
  BY DEF Refused
<1>2. ASSUME NEW r \in CallType, Same(r, call[c]), r.pc = "finalize",
             r.reports = call[c].reports
      PROVE  Counted(r) /\ Tells(r, exec[c], pub[c])
  BY <1>1, <1>2, OfCall DEF Counted, Tells, Same, Places, Driving, Cleaning, Before, Ending
<1> QED BY <1>1, <1>2, OfCall, GotoStep
        DEF registry, Places, Busy, Driving, Cleaning

LEMMA CompleteKeeps == ASSUME IInv, NEW c \in Calls, Complete(c) PROVE IInv'
<1>1. call[c].pc = "complete" /\ UNCHANGED <<registry, executing, pub, raced, cancels>>
  BY DEF Complete, At
<1>2. CASE Record(c, "completed", "Completed", "finalize", "finalize")
  <2>1. "Completed" \in Events
    BY DEF Events
  <2> QED BY <1>1, <1>2, <2>1, RecordEnd
<1>3. CASE Refused(c)
  BY <1>1, <1>3, RefusedKeeps
<1> QED BY <1>2, <1>3 DEF Complete

LEMMA FailKeeps == ASSUME IInv, NEW c \in Calls, Fail(c) PROVE IInv'
<1>1. call[c].pc = "fail" /\ UNCHANGED <<registry, executing, pub, raced, cancels>>
  BY DEF Fail, At
<1>2. CASE Record(c, "failed", "Failed", "finalize", "finalize")
  <2>1. "Failed" \in Events
    BY DEF Events
  <2> QED BY <1>1, <1>2, <2>1, RecordEnd
<1>3. CASE Refused(c)
  BY <1>1, <1>3, RefusedKeeps
<1> QED BY <1>2, <1>3 DEF Fail

LEMMA FinalizeKeeps == ASSUME IInv, NEW c \in Calls, Finalize(c) PROVE IInv'
<1>1. Goto(c, "clear") /\ call[c].pc = "finalize"
      /\ UNCHANGED <<registry, executing, exec, pub, raced, bounds>>
  BY DEF Finalize, At
<1>2. ASSUME NEW r \in CallType, Same(r, call[c]), r.pc = "clear",
             r.reports = call[c].reports
      PROVE  Counted(r) /\ Tells(r, exec[c], pub[c])
  BY <1>1, <1>2, OfCall DEF Counted, Tells, Same, Places, Driving, Cleaning, Before, Ending
<1> QED BY <1>1, <1>2, OfCall, GotoStep
        DEF registry, bounds, Places, Busy, Driving, Cleaning

LEMMA ClearedRun ==
    ASSUME TypeOK, NEW i \in Items
    PROVE  [run EXCEPT ![i] = NoRun] \in [Items -> 0 .. MaxRuns]
BY Facts DEF TypeOK, NoRun

LEMMA ItemOfCall == ASSUME IInv, NEW c \in Calls PROVE Item(c) \in Items
BY OfCall DEF CallType, Item

LEMMA ClearKeeps == ASSUME IInv, NEW c \in Calls, Clear(c) PROVE IInv'
<1>1. call[c].pc \in Cleaning /\ UNCHANGED <<runs, runLog, executing, exec, raced, cancels>>
  BY DEF Clear
<1>2. run' \in [Items -> 0 .. MaxRuns] /\ faults' \in 0 .. MaxFaults
  <2>1. CASE run' = [run EXCEPT ![Item(c)] = NoRun] /\ UNCHANGED faults
    BY <2>1, ClearedRun, ItemOfCall, OfCall
  <2>2. CASE UNCHANGED run /\ Fault
    BY <2>2, FaultCounts, OfCall
  <2> QED BY <2>1, <2>2 DEF Clear
<1>3. CASE call[c].pc = "clear" /\ Report(c, call[c].ok, "done")
  <2>1. call[c].ok \in BOOLEAN
    BY OfCall DEF CallType
  <2>2. ASSUME NEW r, NEW p, Same(r, call[c]), r.pc = "done",
               r.reports = call[c].reports + 1, p.ok = call[c].ok
        PROVE  Counted(r) /\ Tells(r, exec[c], p)
    BY <1>3, <2>2, OfCall DEF Counted, Tells, Same, Places, Driving, Cleaning, Before, Ending
  <2> QED BY <1>1, <1>2, <1>3, <2>1, <2>2, OfCall, ReportStep
          DEF Places, Busy, Driving, Cleaning
<1>4. CASE call[c].pc = "cleanup" /\ Goto(c, "done") /\ UNCHANGED pub
  <2>1. ASSUME NEW r \in CallType, Same(r, call[c]), r.pc = "done",
               r.reports = call[c].reports
        PROVE  Counted(r) /\ Tells(r, exec[c], pub[c])
    BY <1>4, <2>1, OfCall DEF Counted, Tells, Same, Places, Driving, Cleaning, Before, Ending
  <2> QED BY <1>1, <1>2, <1>4, <2>1, OfCall, GotoStep
          DEF Places, Busy, Driving, Cleaning
<1> QED BY <1>1, <1>3, <1>4 DEF Clear, At, Cleaning

-----------------------------------------------------------------------------
(* Cancellations                                                            *)

\* Who is cancelled keeps its place in cancel_execution; its entity's status
\* and stream change, a stream only while the call has not reported success.
LEMMA CancelExecutionKeeps == ASSUME IInv, NEW c \in Calls, CancelExecution(c) PROVE IInv'
<1>1. call[c].pc \in {"agent", "commit"} /\ UNCHANGED <<registry, executing, pub, raced>>
      /\ cancels' \in 0 .. MaxCancels
  BY OfCall, Facts DEF CancelExecution
<1>2. CASE /\ exec' = [exec EXCEPT ![c].status = "cancelled",
                                   ![c].log = Append(@, "Cancelled")]
           /\ call' = [call EXCEPT ![c].cancelled = TRUE]
           /\ UNCHANGED faults
  <2> DEFINE log == Append(exec[c].log, "Cancelled")
             e == [exec[c] EXCEPT !.status = "cancelled", !.log = log]
             r == [call[c] EXCEPT !.cancelled = TRUE]
  <2>1. log \in Log
    BY OfCall, LogEnds DEF ExecType, Events
  <2> HIDE DEF log
  <2>2. e \in ExecType
    BY OfCall, <2>1 DEF ExecType, Statuses
  <2>3. /\ r \in CallType /\ r.pc = call[c].pc /\ r.committed = call[c].committed
        /\ r.item = call[c].item /\ r.reports = call[c].reports /\ r.ok = call[c].ok
        /\ r.cut = call[c].cut /\ r.cancelled /\ r.unstored = call[c].unstored
    BY OfCall DEF CallType
  <2>4. exec' = [exec EXCEPT ![c] = e] /\ call' = [call EXCEPT ![c] = r]
    BY <1>2 DEF log
  <2> HIDE DEF e, r
  <2>5. Counted(r) /\ Tells(r, e, pub[c])
    BY <1>1, <2>3, OfCall DEF Counted, Tells, Places, Driving, Cleaning, Before, Ending
  <2>6. /\ call' \in [Calls -> CallType] /\ exec' \in [Calls -> ExecType]
        /\ call'[c] = r /\ exec'[c] = e /\ Alone(c)
    BY <1>1, <2>2, <2>3, <2>4, OfCall DEF Alone
  <2> QED BY <1>1, <1>2, <2>3, <2>5, <2>6, OfCall, TaskStep DEF registry
<1>3. CASE /\ Fault
           /\ exec' = [exec EXCEPT ![c].status = "cancelled", ![c].pend = <<"Cancelled">>]
           /\ call' = [call EXCEPT ![c].cancelled = TRUE, ![c].unstored = TRUE]
  <2> DEFINE pend == <<"Cancelled">>
             e == [exec[c] EXCEPT !.status = "cancelled", !.pend = pend]
             r == [call[c] EXCEPT !.cancelled = TRUE, !.unstored = TRUE]
  <2>1. pend \in Log
    BY DEF Events, Log
  <2> HIDE DEF pend
  <2>2. e \in ExecType
    BY OfCall, <2>1 DEF ExecType, Statuses
  <2>3. /\ r \in CallType /\ r.pc = call[c].pc /\ r.committed = call[c].committed
        /\ r.item = call[c].item /\ r.reports = call[c].reports /\ r.ok = call[c].ok
        /\ r.cut = call[c].cut /\ r.cancelled /\ r.unstored
    BY OfCall DEF CallType
  <2>4. exec' = [exec EXCEPT ![c] = e] /\ call' = [call EXCEPT ![c] = r]
    BY <1>3 DEF pend
  <2> HIDE DEF e, r
  <2>5. Counted(r) /\ Tells(r, e, pub[c])
    BY <1>1, <2>3, OfCall DEF Counted, Tells, Places, Driving, Cleaning, Before, Ending
  <2>6. /\ call' \in [Calls -> CallType] /\ exec' \in [Calls -> ExecType]
        /\ call'[c] = r /\ exec'[c] = e /\ Alone(c)
    BY <1>1, <2>2, <2>3, <2>4, OfCall DEF Alone
  <2>7. faults' \in 0 .. MaxFaults
    BY <1>3, OfCall, FaultCounts
  <2> QED BY <1>1, <2>3, <2>5, <2>6, <2>7, OfCall, TaskStep DEF registry
<1> QED BY <1>2, <1>3 DEF CancelExecution

LEMMA CancelTaskKeeps == ASSUME IInv, NEW c \in Calls, CancelTask(c) PROVE IInv'
<1>1. UNCHANGED <<runs, runLog, executing, exec, raced, faults>> /\ cancels' \in 0 .. MaxCancels
  BY OfCall, Facts DEF CancelTask
<1>2. CASE /\ call[c].pc \in Driving
           /\ call' = [call EXCEPT ![c].pc = "cleanup", ![c].reports = @ + 1,
                                   ![c].cancelled = TRUE]
           /\ pub' = [pub EXCEPT ![c] = [NoPub EXCEPT !.pc = "handling"]]
           /\ UNCHANGED run
  <2> DEFINE n == call[c].reports + 1
             r == [call[c] EXCEPT !.pc = "cleanup", !.reports = n, !.cancelled = TRUE]
             p == [NoPub EXCEPT !.pc = "handling"]
  <2>1. n \in Nat
    BY OfCall DEF CallType
  <2> HIDE DEF n
  <2>2. /\ r \in CallType /\ r.pc = "cleanup" /\ r.committed = call[c].committed
        /\ r.item = call[c].item /\ r.reports = n /\ r.ok = call[c].ok
        /\ r.cut = call[c].cut /\ r.cancelled /\ r.unstored = call[c].unstored
    BY <2>1, OfCall DEF CallType, Places, Cleaning
  <2>3. p \in PubType /\ ~p.ok
    BY NoPubType DEF PubType
  <2>4. call' = [call EXCEPT ![c] = r] /\ pub' = [pub EXCEPT ![c] = p]
    BY <1>2 DEF n
  <2> HIDE DEF r, p
  <2>5. Counted(r) /\ Tells(r, exec[c], p)
    BY <1>2, <2>2, <2>3, OfCall
       DEF Counted, Tells, Places, Driving, Cleaning, Before, Ending, n
  <2>6. /\ call' \in [Calls -> CallType] /\ pub' \in [Calls -> PubType]
        /\ call'[c] = r /\ pub'[c] = p /\ Alone(c)
    BY <1>1, <2>2, <2>3, <2>4, OfCall DEF Alone
  <2> QED BY <1>1, <1>2, <2>2, <2>5, <2>6, OfCall, TaskStep DEF Busy, Driving, Cleaning
<1>3. CASE /\ call[c].pc = "begin"
           /\ call' = [call EXCEPT ![c].pc = "done", ![c].cut = TRUE, ![c].cancelled = TRUE]
           /\ UNCHANGED <<run, pub>>
  <2> DEFINE r == [call[c] EXCEPT !.pc = "done", !.cut = TRUE, !.cancelled = TRUE]
  <2>2. /\ r \in CallType /\ r.pc = "done" /\ r.committed = call[c].committed
        /\ r.item = call[c].item /\ r.reports = call[c].reports /\ r.ok = call[c].ok
        /\ r.cut /\ r.cancelled /\ r.unstored = call[c].unstored
    BY OfCall DEF CallType, Places
  <2>4. call' = [call EXCEPT ![c] = r]
    BY <1>3
  <2> HIDE DEF r
  <2>5. Counted(r) /\ Tells(r, exec[c], pub[c])
    BY <1>3, <2>2, OfCall DEF Counted, Tells, Places, Driving, Cleaning, Before, Ending
  <2>6. call' \in [Calls -> CallType] /\ call'[c] = r /\ Alone(c)
    BY <1>1, <1>3, <2>2, <2>4, OfCall DEF Alone
  <2> QED BY <1>1, <1>3, <2>2, <2>5, <2>6, OfCall, TaskStep DEF Busy, Driving, Cleaning
<1>4. CASE /\ call[c].pc \in Cleaning
           /\ run' \in {run, [run EXCEPT ![Item(c)] = NoRun]}
           /\ call' = [call EXCEPT ![c].pc = "done", ![c].cut = At(c, "clear"),
                                   ![c].cancelled = TRUE]
           /\ UNCHANGED pub
  <2> DEFINE cut == At(c, "clear")
             r == [call[c] EXCEPT !.pc = "done", !.cut = cut, !.cancelled = TRUE]
  <2>0. call[c].pc \in Cleaning /\ pub' = pub
    BY <1>4
  <2>1. cut \in BOOLEAN /\ cut = (call[c].pc = "clear")
    BY DEF At
  <2> HIDE DEF cut
  <2>2. /\ r \in CallType /\ r.pc = "done" /\ r.committed = call[c].committed
        /\ r.item = call[c].item /\ r.reports = call[c].reports /\ r.ok = call[c].ok
        /\ r.cut = cut /\ r.cancelled /\ r.unstored = call[c].unstored
    BY <2>1, OfCall DEF CallType, Places
  <2>4. call' = [call EXCEPT ![c] = r]
    BY <1>4 DEF cut
  <2> HIDE DEF r
  <2>3. r.cut <=> call[c].pc = "clear"
    BY <2>1, <2>2
  <2>5. Counted(r) /\ Tells(r, exec[c], pub[c])
    <3>1. Counted(r)
      BY <2>0, <2>2, <2>3, OfCall DEF Counted, Places, Driving, Cleaning
    <3>2. Tells(r, exec[c], pub[c])
      BY <2>0, <2>2, OfCall DEF Tells, Cleaning, Before, Ending
    <3> QED BY <3>1, <3>2
  <2>6. call' \in [Calls -> CallType] /\ call'[c] = r /\ Alone(c)
    BY <1>1, <2>0, <2>2, <2>4, OfCall DEF Alone
  <2>7. run' \in [Items -> 0 .. MaxRuns]
    BY <1>4, OfCall, ClearedRun, ItemOfCall
  <2> QED BY <1>1, <2>0, <2>2, <2>5, <2>6, <2>7, OfCall, TaskStep DEF Busy, Driving, Cleaning
<1> QED BY <1>2, <1>3, <1>4 DEF CancelTask, At

-----------------------------------------------------------------------------
(* The delivery of the completion event                                     *)

\* A handler's step: the report of c keeps what it says.
LEMMA DeliveryKeeps ==
    ASSUME IInv, NEW c \in Calls, NEW p \in PubType, p.ok = pub[c].ok,
           pub' = [pub EXCEPT ![c] = p],
           run' \in [Items -> 0 .. MaxRuns], runLog' \in Marks,
           UNCHANGED <<runs, executing, call, exec, raced, bounds>>
    PROVE  IInv'
<1>1. pub' \in [Calls -> PubType] /\ pub'[c] = p /\ Alone(c)
  BY OfCall DEF Alone
<1>2. Tells(call[c], exec[c], p)
  BY OfCall DEF Tells
<1> QED BY <1>1, <1>2, OfCall, TaskStep DEF bounds

LEMMA HandleSuccessKeeps == ASSUME IInv, NEW c \in Calls, HandleSuccess(c) PROVE IInv'
<1>1. UNCHANGED <<run, runs, executing, call, exec, raced, bounds>>
  BY DEF HandleSuccess
<1>2. CASE pub' = [pub EXCEPT ![c].pc = "parked"] /\ UNCHANGED runLog
  <2> DEFINE p == [pub[c] EXCEPT !.pc = "parked"]
  <2>1. p \in PubType /\ p.ok = pub[c].ok
    BY OfCall DEF PubType
  <2>2. pub' = [pub EXCEPT ![c] = p]
    BY <1>2
  <2> HIDE DEF p
  <2> QED BY <1>1, <1>2, <2>1, <2>2, OfCall, DeliveryKeeps
<1>3. CASE /\ pub' = [pub EXCEPT ![c].pc = "advanced", ![c].noted = run[Item(c)] # NoRun]
           /\ runLog' = [r \in DOMAIN runLog |-> IF r = run[Item(c)]
                           THEN runLog[r] \cup {"advanced"} ELSE runLog[r]]
  <2> DEFINE noted == run[Item(c)] # NoRun
             p == [pub[c] EXCEPT !.pc = "advanced", !.noted = noted]
  <2>1. noted \in BOOLEAN
    OBVIOUS
  <2> HIDE DEF noted
  <2>2. p \in PubType /\ p.ok = pub[c].ok
    BY <2>1, OfCall DEF PubType
  <2>3. pub' = [pub EXCEPT ![c] = p]
    BY <1>3 DEF noted
  <2>4. runLog' \in Marks
    BY <1>3, OfCall DEF Marks
  <2> HIDE DEF p
  <2> QED BY <1>1, <2>2, <2>3, <2>4, OfCall, DeliveryKeeps
<1> QED BY <1>2, <1>3 DEF HandleSuccess

LEMMA HandleFailureKeeps == ASSUME IInv, NEW c \in Calls, HandleFailure(c) PROVE IInv'
<1> DEFINE p == [pub[c] EXCEPT !.pc = "parked"]
<1>1. UNCHANGED <<runs, executing, call, exec, raced, bounds>>
  BY DEF HandleFailure
<1>2. p \in PubType /\ p.ok = pub[c].ok
  BY OfCall DEF PubType
<1>3. pub' = [pub EXCEPT ![c] = p]
  BY DEF HandleFailure
<1>4. runLog' \in Marks
  BY OfCall DEF HandleFailure, Marks
<1>5. run' \in [Items -> 0 .. MaxRuns]
  BY OfCall, ItemOfCall, ClearedRun DEF HandleFailure
<1> HIDE DEF p
<1> QED BY <1>1, <1>2, <1>3, <1>4, <1>5, DeliveryKeeps

LEMMA CallbackRaisesKeeps == ASSUME IInv, NEW c \in Calls, CallbackRaises(c) PROVE IInv'
<1>1. UNCHANGED <<registry, executing, call, exec, raced, bounds>>
  BY DEF CallbackRaises
<1>2. CASE /\ pub[c].tries < MaxRetries
           /\ pub' = [pub EXCEPT ![c].tries = pub[c].tries + 1]
  <2> DEFINE n == pub[c].tries + 1
             p == [pub[c] EXCEPT !.tries = n]
  <2>1. n \in 0 .. MaxRetries
    BY <1>2, OfCall, Facts DEF PubType
  <2> HIDE DEF n
  <2>2. p \in PubType /\ p.ok = pub[c].ok
    BY <2>1, OfCall DEF PubType
  <2>3. pub' = [pub EXCEPT ![c] = p]
    BY <1>2 DEF n
  <2> HIDE DEF p
  <2> QED BY <1>1, <2>2, <2>3, OfCall, DeliveryKeeps DEF registry
<1>3. CASE pub' = [pub EXCEPT ![c].pc = "dropped"]
  <2> DEFINE p == [pub[c] EXCEPT !.pc = "dropped"]
  <2>2. p \in PubType /\ p.ok = pub[c].ok
    BY OfCall DEF PubType
  <2>3. pub' = [pub EXCEPT ![c] = p]
    BY <1>3
  <2> HIDE DEF p
  <2> QED BY <1>1, <2>2, <2>3, OfCall, DeliveryKeeps DEF registry
<1> QED BY <1>2, <1>3 DEF CallbackRaises
-----------------------------------------------------------------------------
(* Steps that touch the guard                                               *)

LEMMA StartRunKeeps == ASSUME IInv, NEW i \in Items, StartRun(i) PROVE IInv'
<1>1. runs' \in 0 .. MaxRuns /\ run' \in [Items -> 0 .. MaxRuns]
      /\ UNCHANGED <<runLog, executing, call, exec, pub, raced, bounds>>
  BY Facts DEF IInv, TypeOK, StartRun
<1>2. TypeOK'
  BY <1>1 DEF IInv, TypeOK, bounds
<1>3. CallsAgree' /\ Guard'
  BY <1>1 DEF IInv, CallsAgree, Guard, GuardHasTask, Live, Running, At, Item
<1> QED BY <1>2, <1>3 DEF IInv

\* The parts of TypeOK and CallsAgree in a step of call c that leaves exec and pub.
LEMMA CallStepKeeps ==
    ASSUME IInv, NEW c \in Calls, NEW r \in CallType, call' = [call EXCEPT ![c] = r],
           UNCHANGED <<registry, exec, pub, bounds>>,
           executing' \subseteq Items, raced' \subseteq Items,
           Counted(r), Tells(r, exec[c], pub[c])
    PROVE  /\ TypeOK' /\ CallsAgree' /\ call'[c] = r
           /\ \A d \in Calls : d # c => call'[d] = call[d]
<1>1. /\ call' \in [Calls -> CallType] /\ call'[c] = r
      /\ \A d \in Calls : d # c => call'[d] = call[d]
  BY OfCall
<1>2. TypeOK'
  BY <1>1, OfCall
     DEF TypeOK, registry, bounds, CallType, ExecType, PubType, Places, Statuses, Log, Marks
<1>3. CallsAgree'
  BY <1>1 DEF IInv, CallsAgree
<1> QED BY <1>1, <1>2, <1>3

LEMMA ExecuteKeeps ==
    ASSUME IInv, NEW c \in Calls, NEW i \in Items, Execute(c, i)
    PROVE  IInv'
<1> DEFINE next == IF i \in executing THEN "ignored" ELSE "lookup"
           r == [call[c] EXCEPT !.item = i, !.pc = next]
           met == \E d \in Calls : At(d, "lookup") /\ Item(d) = i
<1>1. /\ call[c].pc = "new" /\ UNCHANGED <<registry, executing, exec, pub, bounds>>
      /\ executing \subseteq Items /\ raced \subseteq Items
  BY DEF Execute, At, IInv, TypeOK
<1>2. next \in {"ignored", "lookup"} /\ (next = "lookup" => i \notin executing)
  OBVIOUS
<1>3. raced' = raced \cup {i2 \in {i} : met}
  BY DEF Execute
<1>4. call' = [call EXCEPT ![c] = r]
  BY DEF Execute
<1> HIDE DEF next
<1>5. /\ r \in CallType /\ r.item = i /\ r.pc = next /\ Counted(r)
      /\ Tells(r, exec[c], pub[c])
  <2>1. /\ r \in CallType /\ r.item = i /\ r.pc = next /\ r.ok = call[c].ok
        /\ r.committed = call[c].committed /\ r.reports = call[c].reports /\ r.cut = call[c].cut
        /\ r.cancelled = call[c].cancelled /\ r.unstored = call[c].unstored
    BY <1>2, OfCall DEF CallType, Places
  <2> HIDE DEF r
  <2>2. Counted(r) /\ Tells(r, exec[c], pub[c])
    BY <1>1, <1>2, <2>1, OfCall
       DEF Counted, Tells, Places, Driving, Cleaning, Before, Ending
  <2> QED BY <2>1, <2>2
<1> HIDE DEF r
<1>6. /\ TypeOK' /\ CallsAgree' /\ call'[c] = r
      /\ \A d \in Calls : d # c => call'[d] = call[d]
  BY <1>1, <1>3, <1>4, <1>5, CallStepKeeps
<1>7. /\ ~Running(c) /\ ~Running(c)' /\ (Live(c)' => i \notin executing)
      /\ Item(c)' = i
      /\ \A d \in Calls : d # c => /\ Item(d)' = Item(d) /\ (Running(d)' <=> Running(d))
                                   /\ (Live(d)' <=> Live(d))
  BY <1>1, <1>2, <1>5, <1>6 DEF Running, Live, At, Item, Driving, Cleaning
<1>8. GuardHasTask'
  BY <1>1, <1>7 DEF IInv, Guard, GuardHasTask
<1>9. ASSUME NEW d \in Calls, Running(d)'
      PROVE  Item(d)' \in executing' \cup raced'
  BY <1>1, <1>3, <1>7, <1>9 DEF IInv, Guard
<1>10. ASSUME NEW d \in Calls, d # c, Live(d), Item(d) = i, i \notin executing
       PROVE  i \in raced'
  <2>1. CASE At(d, "lookup")
    BY <1>3, <1>10, <2>1
  <2>2. CASE Running(d)
    BY <1>3, <1>10, <2>2 DEF IInv, Guard
  <2> QED BY <1>10, <2>1, <2>2 DEF Live
<1>11. ASSUME NEW d \in Calls, NEW e \in Calls, d # e, Live(d)', Live(e)', Item(d)' = Item(e)'
       PROVE  Item(d)' \in raced'
  <2>1. CASE d = c
    BY <1>7, <1>10, <1>11, <2>1
  <2>2. CASE e = c
    BY <1>7, <1>10, <1>11, <2>2
  <2>3. CASE d # c /\ e # c
    BY <1>3, <1>7, <1>11, <2>3 DEF IInv, Guard
  <2> QED BY <2>1, <2>2, <2>3
<1> QED BY <1>6, <1>8, <1>9, <1>11 DEF IInv, Guard

LEMMA ScheduleKeeps == ASSUME IInv, NEW c \in Calls, Schedule(c) PROVE IInv'
<1> DEFINE r == [call[c] EXCEPT !.pc = "begin"]
<1>1. /\ call[c].pc = "lookup" /\ UNCHANGED <<registry, exec, pub, raced, bounds>>
      /\ executing' = executing \cup {Item(c)} /\ Item(c) \in Items
      /\ executing \subseteq Items /\ raced \subseteq Items
  BY ItemOfCall DEF Schedule, At, IInv, TypeOK
<1>2. call' = [call EXCEPT ![c] = r]
  BY DEF Schedule, Goto
<1>3. /\ r \in CallType /\ Same(r, call[c]) /\ r.pc = "begin" /\ r.reports = call[c].reports
  BY OfCall DEF CallType, Places, Driving, Same
<1> HIDE DEF r
<1>4. Counted(r) /\ Tells(r, exec[c], pub[c])
  BY <1>1, <1>3, OfCall DEF Counted, Tells, Same, Places, Driving, Cleaning, Before, Ending
<1>5. /\ TypeOK' /\ CallsAgree' /\ call'[c] = r
      /\ \A d \in Calls : d # c => call'[d] = call[d]
  BY <1>1, <1>2, <1>3, <1>4, CallStepKeeps
<1>6. /\ Running(c)' /\ Live(c)
      /\ \A d \in Calls : /\ Item(d)' = Item(d)
                          /\ (Live(d)' <=> Live(d))
                          /\ (d # c => (Running(d)' <=> Running(d)))
                          /\ (Running(d) => Running(d)')
  BY <1>1, <1>3, <1>5 DEF Running, Live, At, Item, Driving, Cleaning, Same
<1>7. Guard'
  BY <1>1, <1>6 DEF IInv, Guard, GuardHasTask
<1> QED BY <1>5, <1>7 DEF IInv

LEMMA TaskDoneCallbackKeeps == ASSUME IInv, NEW c \in Calls, TaskDoneCallback(c) PROVE IInv'
<1> DEFINE r == [call[c] EXCEPT !.pc = "over"]
<1>1. /\ call[c].pc = "done" /\ UNCHANGED <<registry, exec, pub, raced, bounds>>
      /\ executing' = executing \ {Item(c)}
      /\ executing \subseteq Items /\ raced \subseteq Items
  BY DEF TaskDoneCallback, At, IInv, TypeOK
<1>2. call' = [call EXCEPT ![c] = r]
  BY DEF TaskDoneCallback, Goto
<1>3. /\ r \in CallType /\ Same(r, call[c]) /\ r.pc = "over" /\ r.reports = call[c].reports
  BY OfCall DEF CallType, Places, Same
<1> HIDE DEF r
<1>4. Counted(r) /\ Tells(r, exec[c], pub[c])
  BY <1>1, <1>3, OfCall DEF Counted, Tells, Same, Places, Driving, Cleaning, Before, Ending
<1>5. /\ TypeOK' /\ CallsAgree' /\ call'[c] = r
      /\ \A d \in Calls : d # c => call'[d] = call[d]
  BY <1>1, <1>2, <1>3, <1>4, CallStepKeeps
<1>6. /\ Running(c) /\ Live(c) /\ ~Running(c)' /\ ~Live(c)'
      /\ \A d \in Calls : /\ Item(d)' = Item(d)
                          /\ (d # c => (Running(d)' <=> Running(d)))
                          /\ (d # c => (Live(d)' <=> Live(d)))
  BY <1>1, <1>3, <1>5 DEF Running, Live, At, Item, Driving, Cleaning, Same
<1>7. GuardHasTask'
  BY <1>1, <1>6 DEF IInv, Guard, GuardHasTask
<1>8. ASSUME NEW d \in Calls, Running(d)'
      PROVE  Item(d)' \in executing' \cup raced'
  <2>1. d # c /\ Running(d) /\ Live(d) /\ Item(d)' = Item(d)
    BY <1>6, <1>8 DEF Live
  <2>2. Item(d) \in executing \cup raced /\ (Item(d) = Item(c) => Item(d) \in raced)
    BY <1>6, <2>1 DEF IInv, Guard
  <2> QED BY <1>1, <2>1, <2>2
<1>9. ASSUME NEW d \in Calls, NEW e \in Calls, d # e, Live(d)', Live(e)', Item(d)' = Item(e)'
      PROVE  Item(d)' \in raced'
  BY <1>1, <1>6, <1>9 DEF IInv, Guard
<1> QED BY <1>5, <1>7, <1>8, <1>9 DEF IInv, Guard

-----------------------------------------------------------------------------
(* The invariant and what follows from it                                   *)

LEMMA InitHolds == Init => IInv
<1> SUFFICES ASSUME Init PROVE IInv
  OBVIOUS
<1>1. NewExec \in ExecType /\ NewExec.log = <<>>
  BY DEF NewExec, ExecType, Statuses, Log
<1>2. TypeOK
  <2>1. /\ call \in [Calls -> CallType] /\ exec \in [Calls -> ExecType]
        /\ pub \in [Calls -> PubType]
    BY <1>1, NewCallType, NoPubType DEF Init
  <2> QED BY <2>1, Facts
          DEF Init, TypeOK, CallType, ExecType, PubType, Places, Statuses, Log, NoRun
<1>3. CallsAgree
  BY <1>1, NewCallType, NoPubType
     DEF Init, CallsAgree, Counted, Tells, Places, Driving, Cleaning, Before, Ending
<1>4. \A c \in Calls : ~Live(c) /\ ~Running(c)
  BY NewCallType DEF Init, Live, Running, At, Driving, Cleaning
<1>5. Guard
  BY <1>4 DEF Init, Guard, GuardHasTask
<1> QED BY <1>2, <1>3, <1>5 DEF IInv

LEMMA StutterKeeps == ASSUME IInv, UNCHANGED vars PROVE IInv'
<1>1. TypeOK'
  BY DEF IInv, TypeOK, vars
<1>2. CallsAgree' /\ Guard'
  BY DEF IInv, CallsAgree, Guard, GuardHasTask, Live, Running, At, Item, vars
<1> QED BY <1>1, <1>2 DEF IInv

\* Every step keeps the invariant: one lemma for each action.
LEMMA NextKeeps == ASSUME IInv, [Next]_vars PROVE IInv'
<1>1. ASSUME NEW i \in Items, StartRun(i) PROVE IInv'
  BY <1>1, StartRunKeeps
<1>2. ASSUME NEW i \in Items, NEW c \in Calls, Execute(c, i) PROVE IInv'
  BY <1>2, ExecuteKeeps
<1>3. ASSUME NEW c \in Calls, CallStep(c) PROVE IInv'
  BY <1>3, ScheduleKeeps, LookupFailsKeeps, RecoverRunKeeps, BeginKeeps, PrepareKeeps,
     UnexpectedKeeps, AbortKeeps, CreateExecutionKeeps, StartExecutionKeeps,
     AgentReturnsKeeps, CommitKeeps, CompleteKeeps, FailKeeps, FinalizeKeeps,
     ClearKeeps, TaskDoneCallbackKeeps DEF CallStep
<1>4. ASSUME NEW c \in Calls, DeliveryStep(c) PROVE IInv'
  BY <1>4, HandleSuccessKeeps, HandleFailureKeeps, CallbackRaisesKeeps DEF DeliveryStep
<1>5. ASSUME NEW c \in Calls, CancelExecution(c) \/ CancelTask(c) PROVE IInv'
  BY <1>5, CancelExecutionKeeps, CancelTaskKeeps
<1> QED BY <1>1, <1>2, <1>3, <1>4, <1>5, StutterKeeps DEF Next

\* The inductive invariant: types, what the records of a call say of each other,
\* and that the guard has exactly the items of the running tasks, but for races.
THEOREM Invariance == Spec => []IInv
BY InitHolds, NextKeeps, PTL DEF Spec

\* The state stays well formed.
THEOREM TypeCorrect == Spec => []TypeOK
<1>1. IInv => TypeOK
  BY DEF IInv
<1> QED BY Invariance, <1>1, PTL

\* A task publishes one completion event and no second one, on whichever path
\* it leaves _run_execution, and none only if it was cut off before its report.
THEOREM ReportsOnce == Spec => []ReportedOnce
<1>1. IInv => ReportedOnce
  BY DEF IInv, CallsAgree, Counted, ReportedOnce, TypeOK, Places, Driving, Cleaning
<1> QED BY Invariance, <1>1, PTL

\* No item is locked out of execute(): what is in the guard has a task that
\* will take it out.
THEOREM GuardIsHeld == Spec => []GuardHasTask
<1>1. IInv => GuardHasTask
  BY DEF IInv, Guard
<1> QED BY Invariance, <1>1, PTL

\* The guard against double dispatch fails only for calls that met in execute().
THEOREM RacesOnly == Spec => []DuplicateOnlyByRace
<1>1. IInv => DuplicateOnlyByRace
  BY DEF IInv, Guard, Live, DuplicateOnlyByRace
<1> QED BY Invariance, <1>1, PTL

\* The completion event and the event stream of the execution tell the same.
THEOREM ReportAgrees == Spec => []ReportMatchesStream
<1>1. ASSUME IInv, NEW c \in Calls
      PROVE  LET log == exec[c].log
             IN  /\ pub[c].ok => call[c].committed /\ Last(log) = "Completed"
                 /\ call[c].pc = "over" /\ ~call[c].unstored /\ ~call[c].cancelled
                      /\ log # <<>> =>
                      Last(log) = IF pub[c].ok THEN "Completed" ELSE "Failed"
  BY <1>1, OfCall DEF Tells, EndsWith, Ending
<1>2. IInv => ReportMatchesStream
  BY <1>1 DEF ReportMatchesStream
<1> QED BY Invariance, <1>2, PTL
=============================================================================
