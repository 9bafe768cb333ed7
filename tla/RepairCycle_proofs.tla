------------------------- MODULE RepairCycle_proofs -------------------------
(***************************************************************************)
(* Proofs about RepairCycle: its type invariant, what the results, the     *)
(* reports and the checkpoints say, and where the card of a repair stands. *)
(*                                                                         *)
(* Most of the invariant speaks of the locals of one handler (Sound): a    *)
(* step of a handler changes the locals of no other, so each action is     *)
(* shown once to leave its own handler sound (Goes), and one lemma carries *)
(* that to the whole state.  Alone and TrackedIsOwn tie the handlers to    *)
(* what the shared adapter tracks.                                         *)
(***************************************************************************)
EXTENDS RepairCycle, SequenceTheorems, TLAPS

-----------------------------------------------------------------------------
(* The inductive invariant                                                  *)

\* Where a handler is in the loops of execute(), before its type is concluded.
InLoop == {"tests", "review", "retest", "analyze", "fix", "rebuild", "verify",
           "checkpoint"}

Locals == [pc : Waiting \cup {"idle", "gone"}, item : Items, attempt : 1 .. MaxAttempts,
           report : {"none", "success", "failure"}, seen : Columns,
           overlapped : BOOLEAN, disturbed : BOOLEAN,
           type : Nat, results : Seq(Result), ci : {"none", "pass", "fail"},
           iteration : Nat, failing : BOOLEAN, passed : BOOLEAN,
           transients : 0 .. MaxTransient, rebuilds : 0 .. MaxRebuilds,
           last : {"none", "pass", "fail", "raised"}, unfixed : Nat,
           saving : Seq(Result)]

Checkpoints == [attempt : 0 .. MaxAttempts, results : Seq(Result)]

TypeInv ==
    /\ run \in [Runs -> Locals]
    /\ tracked \in Seq(Result)
    /\ stored \in [Runs -> Checkpoints]
    /\ position \in [Items -> Columns]
    /\ moves \in 0 .. MaxMoves

\* The loops count from one to their bounds.
Bounded(r, me) ==
    /\ me.type \in 1 .. Types[r]
    /\ me.iteration \in 1 .. MaxIterations[r]

AllPassed(results) == \A k \in 1 .. Len(results) : results[k].passed

\* The results are those of the types so far, in order; the loop goes on only
\* while all of them passed, and it stops early only for one that did not.
ResultsSoFar(r, me) ==
    /\ Len(me.results) <= Types[r]
    /\ \A k \in 1 .. Len(me.results) :
          /\ me.results[k].type = k
          /\ me.results[k].passed => me.results[k].last = "pass"
    /\ me.pc \in InLoop \cup {"idle"} =>
          Len(me.results) = me.type - 1 /\ AllPassed(me.results)
    /\ me.pc \in {"ci", "locate"} =>
          (AllPassed(me.results) => Len(me.results) = Types[r])

\* The report comes last, after the CI checks of a column that has them.
ReportsLast(r, me) ==
    /\ me.pc = "ci" => r \in WithCI
    /\ me.pc = "locate" /\ r \in WithCI => me.ci # "none"
    /\ me.report # "none" => me.pc \in {"move", "gone"}
    /\ me.report = "success" =>
          /\ Len(me.results) = Types[r]
          /\ AllPassed(me.results)
          /\ r \in WithCI => me.ci = "pass"

\* The iterations that left their failures alone are transient failures in a
\* row; the one exception is a fix under way, which is about to end the row.
UnfixedCounted(me) ==
    /\ me.unfixed <= IF me.pc = "fix" THEN MaxTransient ELSE me.transients
    /\ me.pc = "analyze" /\ ~me.failing => me.unfixed = 0
    /\ me.pc = "retest" => me.unfixed = 0

Sound(r, me) ==
    /\ me \in Locals
    /\ Bounded(r, me)
    /\ ResultsSoFar(r, me)
    /\ ReportsLast(r, me)
    /\ UnfixedCounted(me)

AllSound == \A r \in Runs : Sound(r, run[r])

\* Handlers in flight together know that they overlapped.
Alone == \A r, q \in Runs : InFlight(r) /\ InFlight(q) /\ r # q => run[r].overlapped

\* What the adapter tracks are the results of the one handler in flight.
TrackedIsOwn == \A r \in Runs : InFlight(r) /\ ~run[r].overlapped => tracked = run[r].results

\* A handler that waits for the checkpoint store saves its own results, if it
\* has been alone.
SavingIsOwn ==
    \A r \in Runs : run[r].pc = "checkpoint" /\ ~run[r].overlapped
                       => run[r].saving = run[r].results

\* A checkpoint is never of an attempt to come, and none is there yet of an
\* attempt about to begin.
CheckpointAges ==
    \A r \in Runs :
        /\ stored[r].attempt <= run[r].attempt
        /\ run[r].pc \in {"idle", "backoff"} => stored[r].attempt < run[r].attempt

Inv ==
    /\ TypeInv
    /\ AllSound
    /\ Alone
    /\ TrackedIsOwn
    /\ SavingIsOwn
    /\ CheckpointAges
    /\ CheckpointIsOwn
    /\ CardWaitsForReport
-----------------------------------------------------------------------------
(* A step of a handler                                                      *)

\* Handler r goes on with the locals `me`: what it tracks stays in step with
\* its results, a checkpoint is made of what is tracked, and only a retry of the
\* bus counts an attempt.
Goes(r, me) ==
    /\ Becomes(r, me)
    /\ Sound(r, me)
    /\ me.pc # "idle"
    /\ me.item = run[r].item
    /\ me.overlapped = run[r].overlapped
    /\ me.disturbed = run[r].disturbed
    /\ me.report # "none" => me.seen = position[run[r].item]
    /\ me.attempt = IF me.pc = "backoff" THEN run[r].attempt + 1 ELSE run[r].attempt
    /\ \/ me.results = run[r].results /\ tracked' = tracked
       \/ \E x \in Result : /\ me.results = Append(run[r].results, x)
                            /\ tracked' = Append(tracked, x)
    /\ me.pc = "checkpoint" => me.saving = tracked /\ me.results = run[r].results

\* The bounds of the loops are numbers.
LEMMA Bounds ==
    /\ MaxAttempts \in Nat /\ MaxAttempts > 0
    /\ MaxRebuilds \in Nat /\ MaxRebuilds > 0
    /\ MaxTransient \in Nat
    /\ MaxMoves \in Nat
    /\ \A r \in Runs : Types[r] \in Nat /\ Types[r] > 0
    /\ \A r \in Runs : MaxIterations[r] \in Nat /\ MaxIterations[r] > 0
  BY RepairBounds

\* A handler that starts a test type anew has locals of the right types, and
\* nothing of the type before is left in them.
LEMMA FreshLocals ==
  ASSUME NEW me \in Locals
  PROVE  /\ Fresh(me) \in Locals
         /\ Fresh(me).pc = me.pc /\ Fresh(me).item = me.item
         /\ Fresh(me).attempt = me.attempt /\ Fresh(me).report = me.report
         /\ Fresh(me).seen = me.seen /\ Fresh(me).overlapped = me.overlapped
         /\ Fresh(me).disturbed = me.disturbed /\ Fresh(me).type = me.type
         /\ Fresh(me).results = me.results /\ Fresh(me).ci = me.ci
         /\ Fresh(me).iteration = 1 /\ Fresh(me).failing = FALSE
         /\ Fresh(me).transients = 0 /\ Fresh(me).unfixed = 0
  <1>1. 0 \in 0 .. MaxTransient /\ 0 \in 0 .. MaxRebuilds /\ 1 \in Nat /\ 0 \in Nat
        /\ <<>> \in Seq(Result)
    BY Bounds
  <1>2. Fresh(me) \in Locals
    BY <1>1, Zenon DEF Fresh, Locals
  <1>3. QED  BY <1>2 DEF Fresh, Locals

\* The result of one more type, appended to the results so far.
LEMMA OneMoreResult ==
  ASSUME NEW s \in Seq(Result), NEW x \in Result
  PROVE  /\ Append(s, x) \in Seq(Result)
         /\ Len(Append(s, x)) = Len(s) + 1
         /\ \A k \in 1 .. Len(s) : Append(s, x)[k] = s[k]
         /\ Append(s, x)[Len(s) + 1] = x
  BY AppendProperties

\* A handler in one of the loops, with its locals written out.
LEMMA LoopFacts ==
  ASSUME Inv, NEW r \in Runs, run[r].pc \in InLoop
  PROVE  /\ run[r] \in Locals
         /\ Sound(r, run[r])
         /\ run[r].report = "none"
         /\ Len(run[r].results) = run[r].type - 1
         /\ AllPassed(run[r].results)
         /\ run[r].unfixed <= MaxTransient
  <1>1. run[r] \in Locals /\ Sound(r, run[r])
    BY DEF Inv, TypeInv, AllSound
  <1>3. run[r].report = "none"
    BY <1>1 DEF Sound, ReportsLast, InLoop
  <1>4. Len(run[r].results) = run[r].type - 1 /\ AllPassed(run[r].results)
    BY <1>1 DEF Sound, ResultsSoFar
  <1>5. run[r].unfixed <= MaxTransient
    BY <1>1, Bounds DEF Sound, UnfixedCounted, Locals
  <1>6. QED  BY <1>1, <1>3, <1>4, <1>5

\* A handler that raises is called again or given up; its results and what is
\* tracked stay as they are until then.
LEMMA RaiseGoes ==
  ASSUME Inv, NEW r \in Runs, run[r].pc \in InLoop \cup {"ci"},
         Becomes(r, Raise(r)), UNCHANGED tracked
  PROVE  Goes(r, Raise(r))
  <1> DEFINE me == Raise(r)
             fresh == Fresh(run[r])
  <1>1. run[r] \in Locals /\ Sound(r, run[r])
    BY DEF Inv, TypeInv, AllSound
  <1>2. /\ fresh \in Locals
        /\ fresh.item = run[r].item /\ fresh.attempt = run[r].attempt
        /\ fresh.report = run[r].report
        /\ fresh.overlapped = run[r].overlapped /\ fresh.disturbed = run[r].disturbed
        /\ fresh.type = run[r].type /\ fresh.results = run[r].results
        /\ fresh.iteration = 1 /\ fresh.transients = 0 /\ fresh.unfixed = 0
    BY <1>1, FreshLocals
  <1>3. run[r].report = "none"
    BY <1>1 DEF Sound, ReportsLast, InLoop
  <1> HIDE DEF fresh
  <1>4. me = IF run[r].attempt < MaxAttempts
             THEN [fresh EXCEPT !.pc = "backoff", !.attempt = @ + 1]
             ELSE [fresh EXCEPT !.pc = "gone"]
    BY DEF Raise, fresh
  <1> HIDE DEF me
  <1>5. /\ me \in Locals
        /\ me.pc \in {"backoff", "gone"}
        /\ me.attempt = IF me.pc = "backoff" THEN run[r].attempt + 1 ELSE run[r].attempt
        /\ me.item = run[r].item /\ me.report = "none"
        /\ me.overlapped = run[r].overlapped /\ me.disturbed = run[r].disturbed
        /\ me.type = run[r].type /\ me.results = run[r].results
        /\ me.iteration = 1 /\ me.transients = 0 /\ me.unfixed = 0
    <2>1. CASE run[r].attempt < MaxAttempts
      <3>1. me = [fresh EXCEPT !.pc = "backoff", !.attempt = @ + 1]
        BY <1>4, <2>1
      <3>2. fresh.attempt + 1 \in 1 .. MaxAttempts /\ "backoff" \in Waiting
        BY <1>2, <2>1, Bounds DEF Locals, Waiting
      <3>3. me \in Locals
        BY <1>2, <3>1, <3>2, Zenon DEF Locals
      <3>4. QED  BY <1>2, <1>3, <3>1, <3>3 DEF Locals
    <2>2. CASE ~(run[r].attempt < MaxAttempts)
      <3>1. me = [fresh EXCEPT !.pc = "gone"]
        BY <1>4, <2>2
      <3>2. me \in Locals
        BY <1>2, <3>1 DEF Locals
      <3>3. QED  BY <1>2, <1>3, <3>1, <3>2 DEF Locals
    <2>3. QED  BY <2>1, <2>2
  <1>6. Bounded(r, me)
    BY <1>1, <1>5, Bounds DEF Bounded, Sound
  <1>7. ResultsSoFar(r, me)
    BY <1>1, <1>5 DEF ResultsSoFar, Sound, InLoop
  <1>8. ReportsLast(r, me) /\ UnfixedCounted(me)
    BY <1>5 DEF ReportsLast, UnfixedCounted
  <1>9. Sound(r, me)
    BY <1>5, <1>6, <1>7, <1>8 DEF Sound
  <1>10. Becomes(r, me)
    BY DEF me
  <1>11. Goes(r, me)
    BY <1>5, <1>9, <1>10 DEF Goes
  <1>12. QED  BY <1>11 DEF me

\* The result of a type that is over follows those of the types before; the
\* loop begins the next type, or the handler looks at the CI checks or reports.
LEMMA ConcludeGoes ==
  ASSUME Inv, NEW r \in Runs, run[r].pc \in InLoop,
         NEW passed \in BOOLEAN, NEW error \in BOOLEAN,
         NEW last \in {"none", "pass", "fail", "raised"},
         passed /\ ~error => last = "pass",
         Conclude(r, passed, error, last)
  PROVE  \E me : Goes(r, me)
  <1> DEFINE result == [type |-> run[r].type, passed |-> passed, last |-> last]
             done == [Fresh(run[r]) EXCEPT !.results = Append(@, result)]
             more == passed /\ run[r].type < Types[r]
             me == IF more THEN [done EXCEPT !.pc = "tests", !.type = @ + 1]
                   ELSE [done EXCEPT !.pc = AfterExecute(r)]
  <1>1. CASE Contradicts(passed, error)
    <2>1. Becomes(r, Raise(r)) /\ UNCHANGED tracked
      BY <1>1 DEF Conclude
    <2>2. QED  BY <2>1, RaiseGoes
  <1>2. CASE ~Contradicts(passed, error)
    <2>1. Becomes(r, me) /\ tracked' = Append(tracked, result)
      BY <1>2 DEF Conclude
    <2>2. /\ run[r] \in Locals /\ Sound(r, run[r]) /\ run[r].report = "none"
          /\ Len(run[r].results) = run[r].type - 1 /\ AllPassed(run[r].results)
      BY LoopFacts
    <2>3. result \in Result /\ result.type = run[r].type /\ result.passed = passed
          /\ result.last = last
      BY <2>2 DEF Result, Locals
    <2>4. passed => last = "pass"
      BY <1>2 DEF Contradicts
    <2>5. run[r].results \in Seq(Result)
      BY <2>2 DEF Locals
    <2> HIDE DEF result
    <2> DEFINE longer == Append(run[r].results, result)
    <2>6. /\ longer \in Seq(Result) /\ Len(longer) = run[r].type
          /\ \A k \in 1 .. run[r].type - 1 : longer[k] = run[r].results[k]
          /\ longer[run[r].type] = result
      <3>1. Len(run[r].results) + 1 = run[r].type
        BY <2>2 DEF Locals
      <3>2. QED  BY <2>2, <2>3, <2>5, <3>1, OneMoreResult
    <2> HIDE DEF longer
    <2>7. /\ done \in Locals /\ done.results = longer /\ done.type = run[r].type
          /\ done.item = run[r].item /\ done.attempt = run[r].attempt
          /\ done.report = "none" /\ done.ci = run[r].ci
          /\ done.overlapped = run[r].overlapped /\ done.disturbed = run[r].disturbed
          /\ done.iteration = 1 /\ done.transients = 0 /\ done.unfixed = 0
      <3> DEFINE fresh == Fresh(run[r])
      <3>1. /\ fresh \in Locals /\ fresh.results = run[r].results /\ fresh.type = run[r].type
            /\ fresh.item = run[r].item /\ fresh.attempt = run[r].attempt
            /\ fresh.report = "none" /\ fresh.ci = run[r].ci
            /\ fresh.overlapped = run[r].overlapped /\ fresh.disturbed = run[r].disturbed
            /\ fresh.iteration = 1 /\ fresh.transients = 0 /\ fresh.unfixed = 0
        BY <2>2, FreshLocals
      <3> HIDE DEF fresh
      <3>2. done = [fresh EXCEPT !.results = longer]
        BY <3>1 DEF fresh, longer, Locals
      <3> HIDE DEF done
      <3>3. QED  BY <2>6, <3>1, <3>2 DEF Locals
    <2> HIDE DEF done
    <2>8. /\ me \in Locals /\ me.results = longer
          /\ me.item = run[r].item /\ me.attempt = run[r].attempt /\ me.report = "none"
          /\ me.overlapped = run[r].overlapped /\ me.disturbed = run[r].disturbed
          /\ me.iteration = 1 /\ me.transients = 0 /\ me.unfixed = 0
          /\ more => me.pc = "tests" /\ me.type = run[r].type + 1
          /\ ~more => me.type = run[r].type /\ me.pc = AfterExecute(r)
      <3>1. CASE more
        <4>1. me = [done EXCEPT !.pc = "tests", !.type = @ + 1]
          BY <3>1
        <4>2. done.type + 1 \in Nat /\ "tests" \in Waiting
          BY <2>7 DEF Locals, Waiting
        <4> HIDE DEF me
        <4>3. me \in Locals
          BY <2>7, <4>1, <4>2, Zenon DEF Locals
        <4>4. QED  BY <2>7, <3>1, <4>1, <4>3 DEF Locals
      <3>2. CASE ~more
        <4>1. me = [done EXCEPT !.pc = AfterExecute(r)] /\ AfterExecute(r) \in Waiting
          BY <3>2 DEF AfterExecute, Waiting
        <4> HIDE DEF me
        <4>2. me \in Locals
          BY <2>7, <4>1 DEF Locals
        <4>3. QED  BY <2>7, <3>2, <4>1, <4>2 DEF Locals
      <3>3. QED  BY <3>1, <3>2
    <2> HIDE DEF me
    <2>9. /\ run[r].type \in Nat /\ run[r].type >= 1 /\ run[r].type <= Types[r]
          /\ Types[r] \in Nat
      BY <2>2, Bounds DEF Sound, Bounded
    <2>10. Bounded(r, me)
      BY <2>8, <2>9, Bounds DEF Bounded
    <2>11. ResultsSoFar(r, me)
      <3>1. \A k \in 1 .. run[r].type : longer[k].type = k
                                        /\ (longer[k].passed => longer[k].last = "pass")
        <4> TAKE k \in 1 .. run[r].type
        <4>1. CASE k = run[r].type
          BY <4>1, <2>3, <2>4, <2>6
        <4>2. CASE k # run[r].type
          <5>1. k \in 1 .. run[r].type - 1 /\ k \in 1 .. Len(run[r].results)
            BY <4>2, <2>2, <2>9
          <5>2. QED  BY <5>1, <2>2, <2>6 DEF Sound, ResultsSoFar
        <4>3. QED  BY <4>1, <4>2
      <3>2. more => AllPassed(longer)
        <4> SUFFICES ASSUME more, NEW k \in 1 .. run[r].type
                     PROVE  longer[k].passed
          BY <2>6 DEF AllPassed
        <4>1. CASE k = run[r].type
          BY <4>1, <2>3, <2>6
        <4>2. CASE k # run[r].type
          <5>1. k \in 1 .. run[r].type - 1 /\ k \in 1 .. Len(run[r].results)
            BY <4>2, <2>2, <2>9
          <5>2. QED  BY <5>1, <2>2, <2>6 DEF AllPassed
        <4>3. QED  BY <4>1, <4>2
      <3>3. AllPassed(longer) /\ ~more => run[r].type = Types[r]
        <4>1. AllPassed(longer) => passed
          BY <2>3, <2>6, <2>9 DEF AllPassed
        <4>2. QED  BY <4>1, <2>9
      <3>4. me.pc \in InLoop \cup {"idle"} => more
        BY <2>8 DEF AfterExecute, InLoop
      <3>5. QED  BY <2>6, <2>8, <2>9, <3>1, <3>2, <3>3, <3>4 DEF ResultsSoFar
    <2>12. ReportsLast(r, me)
      <3>1. me.pc = "ci" => r \in WithCI
        BY <2>8 DEF AfterExecute
      <3>2. me.pc = "locate" => r \notin WithCI
        BY <2>8 DEF AfterExecute
      <3>3. QED  BY <2>8, <3>1, <3>2 DEF ReportsLast
    <2>13. UnfixedCounted(me)
      BY <2>8, Bounds DEF UnfixedCounted
    <2>14. Sound(r, me)
      BY <2>8, <2>10, <2>11, <2>12, <2>13 DEF Sound
    <2>15. me.pc \notin {"idle", "backoff", "checkpoint"}
      BY <2>8 DEF AfterExecute
    <2>16. Goes(r, me)
      BY <2>1, <2>3, <2>8, <2>14, <2>15 DEF Goes, longer
    <2>17. QED  BY <2>16
  <1>3. QED  BY <1>1, <1>2

-----------------------------------------------------------------------------
(* The loop of a test type                                                  *)

\* The locals `me` differ from those of r only inside the loop of its type.
Stays(r, me) ==
    /\ me \in Locals
    /\ me.item = run[r].item /\ me.attempt = run[r].attempt /\ me.report = run[r].report
    /\ me.overlapped = run[r].overlapped /\ me.disturbed = run[r].disturbed
    /\ me.type = run[r].type /\ me.results = run[r].results
    /\ me.iteration = run[r].iteration

\* A handler goes on inside the loop of a test type.
LEMMA StaysGoes ==
  ASSUME Inv, NEW r \in Runs, run[r].pc \in InLoop,
         NEW me, Stays(r, me), me.pc \in InLoop, UnfixedCounted(me),
         me.pc = "checkpoint" => me.saving = tracked,
         Becomes(r, me), UNCHANGED tracked
  PROVE  \E x : Goes(r, x)
  <1>1. /\ Sound(r, run[r]) /\ run[r].report = "none"
        /\ Len(run[r].results) = run[r].type - 1 /\ AllPassed(run[r].results)
    BY LoopFacts
  <1>2. Bounded(r, me)
    BY <1>1 DEF Stays, Sound, Bounded
  <1>3. ResultsSoFar(r, me)
    BY <1>1 DEF Stays, Sound, ResultsSoFar, InLoop
  <1>4. ReportsLast(r, me)
    BY <1>1 DEF Stays, ReportsLast, InLoop
  <1>5. Sound(r, me)
    BY <1>2, <1>3, <1>4 DEF Sound, Stays
  <1>6. me.pc # "idle" /\ me.pc # "backoff" /\ me.report = "none"
    BY <1>1 DEF InLoop, Stays
  <1>7. Goes(r, me)
    BY <1>5, <1>6 DEF Goes, Stays
  <1>8. QED  BY <1>7

\* The next iteration, or the end of the type as a failed one.
LEMMA ContinueGoes ==
  ASSUME Inv, NEW r \in Runs, run[r].pc \in InLoop,
         NEW me, Stays(r, me), me.unfixed <= me.transients, Continue(r, me)
  PROVE  \E x : Goes(r, x)
  <1>1. CASE run[r].iteration < MaxIterations[r]
    <2> DEFINE next == [me EXCEPT !.pc = "tests", !.rebuilds = 0, !.failing = FALSE,
                                  !.iteration = @ + 1, !.saving = <<>>]
    <2>1. Becomes(r, next) /\ UNCHANGED tracked
      BY <1>1 DEF Continue
    <2>2. /\ Sound(r, run[r]) /\ run[r].report = "none"
          /\ Len(run[r].results) = run[r].type - 1 /\ AllPassed(run[r].results)
      BY LoopFacts
    <2>3. me \in Locals /\ me.iteration + 1 \in Nat /\ 0 \in 0 .. MaxRebuilds /\ "tests" \in Waiting
          /\ <<>> \in Seq(Result)
      BY Bounds DEF Stays, Locals, Waiting
    <2>4. next \in Locals
      BY <2>3, Zenon DEF Locals
    <2>5. /\ next.pc = "tests" /\ next.iteration = run[r].iteration + 1
          /\ next.item = run[r].item /\ next.attempt = run[r].attempt /\ next.report = "none"
          /\ next.overlapped = run[r].overlapped /\ next.disturbed = run[r].disturbed
          /\ next.type = run[r].type /\ next.results = run[r].results
          /\ next.unfixed = me.unfixed /\ next.transients = me.transients
      BY <2>2, <2>3 DEF Stays, Locals
    <2> HIDE DEF next
    <2>6. Bounded(r, next)
      BY <1>1, <2>2, <2>5, Bounds DEF Sound, Bounded
    <2>7. ResultsSoFar(r, next)
      BY <2>2, <2>5 DEF Sound, ResultsSoFar
    <2>8. ReportsLast(r, next) /\ UnfixedCounted(next)
      BY <2>5 DEF ReportsLast, UnfixedCounted
    <2>9. Sound(r, next)
      BY <2>4, <2>6, <2>7, <2>8 DEF Sound
    <2>10. Goes(r, next)
      BY <2>1, <2>5, <2>9 DEF Goes
    <2>11. QED  BY <2>10
  <1>2. CASE ~(run[r].iteration < MaxIterations[r])
    <2>1. Conclude(r, FALSE, TRUE, run[r].last)
      BY <1>2 DEF Continue
    <2>2. run[r].last \in {"none", "pass", "fail", "raised"}
      BY LoopFacts DEF Locals
    <2>3. QED  BY <2>1, <2>2, ConcludeGoes
  <1>3. QED  BY <1>1, <1>2

\* The end of an iteration, with the checkpoint first when one is due.
LEMMA EndIterationGoes ==
  ASSUME Inv, NEW r \in Runs, run[r].pc \in InLoop,
         NEW me, Stays(r, me), me.unfixed <= me.transients, EndIteration(r, me)
  PROVE  \E x : Goes(r, x)
  <1>1. CASE CheckpointDue(r)
    <2> DEFINE next == [me EXCEPT !.pc = "checkpoint", !.saving = tracked]
    <2>1. Becomes(r, next) /\ UNCHANGED tracked
      BY <1>1 DEF EndIteration
    <2>2. next \in Locals /\ Stays(r, next) /\ next.pc = "checkpoint"
          /\ next.unfixed <= next.transients /\ next.saving = tracked
      BY DEF Inv, TypeInv, Stays, Locals, Waiting
    <2> HIDE DEF next
    <2>3. UnfixedCounted(next) /\ next.pc \in InLoop
      BY <2>2 DEF UnfixedCounted, InLoop
    <2>4. QED  BY <2>1, <2>2, <2>3, StaysGoes
  <1>2. CASE ~CheckpointDue(r)
    <2>1. Continue(r, me)
      BY <1>2 DEF EndIteration
    <2>2. QED  BY <2>1, ContinueGoes
  <1>3. QED  BY <1>1, <1>2

\* The answers to a test run or to a review of warnings.
LEMMA TestsGoes ==
  ASSUME Inv, NEW r \in Runs, Tests(r)
  PROVE  run[r].pc \in InLoop /\ \E x : Goes(r, x)
  <1> DEFINE me == run[r]
  <1>1. me.pc \in {"tests", "review", "retest"} /\ me.pc \in InLoop
    BY DEF Tests, TestsPass, TestsWarn, TestsFail, TestsRaise, Reviewed, RetestPasses,
           RetestFails, RetestRaises, InLoop
  <1>2. me \in Locals /\ Sound(r, me) /\ me.report = "none"
    BY <1>1, LoopFacts
  <1>3. me.passed \in BOOLEAN /\ me.unfixed <= me.transients
    BY <1>1, <1>2 DEF Sound, UnfixedCounted, Locals
  <1>4. me.pc = "retest" => me.unfixed = 0
    BY <1>2 DEF Sound, UnfixedCounted
  <1>5. CASE TestsPass(r)
    BY <1>1, <1>5, ConcludeGoes DEF TestsPass
  <1>6. CASE TestsWarn(r)
    <2> DEFINE next == [me EXCEPT !.pc = "review", !.passed = TRUE, !.failing = FALSE,
                                  !.last = "pass"]
    <2>1. Becomes(r, next) /\ UNCHANGED tracked
      BY <1>6 DEF TestsWarn
    <2>2. next \in Locals
      BY <1>2, Zenon DEF Locals, Waiting
    <2>3. Stays(r, next) /\ UnfixedCounted(next) /\ next.pc \in InLoop \ {"checkpoint"}
      BY <1>2, <1>3, <2>2 DEF Stays, UnfixedCounted, InLoop, Locals
    <2>4. QED  BY <1>1, <2>1, <2>3, StaysGoes
  <1>7. CASE TestsFail(r)
    <2> DEFINE next == [me EXCEPT !.pc = "analyze", !.failing = TRUE, !.last = "fail"]
    <2>1. Becomes(r, next) /\ UNCHANGED tracked
      BY <1>7 DEF TestsFail
    <2>2. next \in Locals
      BY <1>2, Zenon DEF Locals, Waiting
    <2>3. Stays(r, next) /\ UnfixedCounted(next) /\ next.pc \in InLoop \ {"checkpoint"}
      BY <1>2, <1>3, <2>2 DEF Stays, UnfixedCounted, InLoop, Locals
    <2>4. QED  BY <1>1, <2>1, <2>3, StaysGoes
  <1>8. CASE TestsRaise(r)
    BY <1>1, <1>3, <1>8, ConcludeGoes DEF TestsRaise
  <1>9. CASE Reviewed(r)
    <2> DEFINE next == [me EXCEPT !.pc = "retest", !.unfixed = 0]
    <2>1. Becomes(r, next) /\ UNCHANGED tracked
      BY <1>9 DEF Reviewed
    <2>2. next \in Locals
      BY <1>2, Zenon, Bounds DEF Locals, Waiting
    <2>3. Stays(r, next) /\ UnfixedCounted(next) /\ next.pc \in InLoop \ {"checkpoint"}
      BY <1>2, <1>3, <2>2 DEF Stays, UnfixedCounted, InLoop, Locals
    <2>4. QED  BY <1>1, <2>1, <2>3, StaysGoes
  <1>10. CASE RetestPasses(r)
    BY <1>1, <1>3, <1>10, ConcludeGoes DEF RetestPasses
  <1>11. CASE RetestFails(r)
    <2> DEFINE next == [me EXCEPT !.pc = "analyze", !.passed = FALSE, !.last = "fail"]
    <2>1. Becomes(r, next) /\ UNCHANGED tracked /\ me.unfixed = 0
      BY <1>4, <1>11 DEF RetestFails
    <2>2. next \in Locals
      BY <1>2, Zenon DEF Locals, Waiting
    <2>3. Stays(r, next) /\ UnfixedCounted(next) /\ next.pc \in InLoop \ {"checkpoint"}
      BY <1>2, <1>3, <2>1, <2>2 DEF Stays, UnfixedCounted, InLoop, Locals
    <2>4. QED  BY <1>1, <2>1, <2>3, StaysGoes
  <1>12. CASE RetestRaises(r)
    BY <1>1, <1>3, <1>12, ConcludeGoes DEF RetestRaises
  <1>13. QED  BY <1>1, <1>5, <1>6, <1>7, <1>8, <1>9, <1>10, <1>11, <1>12 DEF Tests

-----------------------------------------------------------------------------
(* Classification, fixes and rebuilds                                       *)

\* An iteration that no fix followed is a transient failure more in the row.
LEMMA AnalysisGoes ==
  ASSUME Inv, NEW r \in Runs,
         ToFix(r) \/ ToDependencyFix(r) \/ Transient(r) \/ Escalate(r) \/ ToRebuild(r)
  PROVE  run[r].pc \in InLoop /\ \E x : Goes(r, x)
  <1> DEFINE me == run[r]
  <1>1. me.pc = "analyze" /\ me.pc \in InLoop
    BY DEF ToFix, ToDependencyFix, Transient, Escalate, ToRebuild, InLoop
  <1>2. me \in Locals /\ Sound(r, me)
    BY <1>1, LoopFacts
  <1>3. /\ me.unfixed \in Nat /\ me.transients \in 0 .. MaxTransient /\ me.unfixed <= me.transients
        /\ me.failing \in BOOLEAN
        /\ ~me.failing => me.unfixed = 0
    BY <1>1, <1>2 DEF Sound, UnfixedCounted, Locals
  <1>4. 0 \in 0 .. MaxTransient /\ MaxTransient \in Nat /\ 1 \in 0 .. MaxRebuilds
    BY Bounds
  <1>5. CASE ToFix(r)
    <2>1. PICK t \in {0, me.transients} :
             LET next == [me EXCEPT !.transients = t] IN
             IF me.failing
             THEN Becomes(r, [next EXCEPT !.pc = "fix"]) /\ UNCHANGED tracked
             ELSE EndIteration(r, next)
      BY <1>5 DEF ToFix
    <2> DEFINE next == [me EXCEPT !.transients = t]
               fix  == [next EXCEPT !.pc = "fix"]
    <2>2. t \in 0 .. MaxTransient
      BY <1>3, <1>4, <2>1
    <2>3. next \in Locals
      BY <1>2, <2>2, Zenon DEF Locals
    <2>4. fix \in Locals
      BY <2>3, Zenon DEF Locals, Waiting
    <2>5. /\ next.unfixed = me.unfixed /\ next.transients = t /\ Stays(r, next)
      BY <1>2, <2>3 DEF Stays, Locals
    <2>6. Stays(r, fix) /\ fix.pc = "fix" /\ fix.unfixed = me.unfixed
      BY <1>2, <2>4 DEF Stays, Locals
    <2> HIDE DEF fix, next
    <2>7. CASE me.failing
      <3>1. Becomes(r, fix) /\ UNCHANGED tracked
        BY <2>1, <2>7 DEF fix, next
      <3>2. UnfixedCounted(fix) /\ fix.pc \in InLoop \ {"checkpoint"}
        BY <1>3, <1>4, <2>6 DEF UnfixedCounted, InLoop
      <3>3. QED  BY <1>1, <2>6, <3>1, <3>2, StaysGoes
    <2>8. CASE ~me.failing
      <3>1. EndIteration(r, next)
        BY <2>1, <2>8 DEF next
      <3>2. next.unfixed <= next.transients
        BY <1>3, <1>4, <2>2, <2>5, <2>8
      <3>3. QED  BY <1>1, <2>5, <3>1, <3>2, EndIterationGoes
    <2>9. QED  BY <1>1, <2>7, <2>8
  <1>6. CASE ToDependencyFix(r)
    <2> DEFINE fix == [me EXCEPT !.pc = "fix", !.transients = 0]
    <2>1. Becomes(r, fix) /\ UNCHANGED tracked
      BY <1>6 DEF ToDependencyFix
    <2>2. fix \in Locals
      BY <1>2, <1>4, Zenon DEF Locals, Waiting
    <2>3. Stays(r, fix) /\ fix.pc = "fix" /\ fix.unfixed = me.unfixed
      BY <1>2, <2>2 DEF Stays, Locals
    <2> HIDE DEF fix
    <2>4. UnfixedCounted(fix) /\ fix.pc \in InLoop \ {"checkpoint"}
      BY <1>3, <1>4, <2>3 DEF UnfixedCounted, InLoop
    <2>5. QED  BY <1>1, <2>1, <2>3, <2>4, StaysGoes
  <1>7. CASE Transient(r)
    <2> DEFINE next == [me EXCEPT !.transients = @ + 1, !.unfixed = Untried(r)]
    <2>1. EndIteration(r, next) /\ me.transients + 1 \in 0 .. MaxTransient
      BY <1>3, <1>4, <1>7 DEF Transient
    <2>2. Untried(r) \in Nat /\ Untried(r) <= me.transients + 1
      BY <1>3, <1>4 DEF Untried
    <2>3. next \in Locals
      BY <1>2, <2>1, <2>2, Zenon DEF Locals
    <2>4. Stays(r, next) /\ next.unfixed <= next.transients
      BY <1>2, <2>2, <2>3 DEF Stays, Locals
    <2>5. QED  BY <1>1, <2>1, <2>4, EndIterationGoes
  <1>8. CASE Escalate(r)
    <2> DEFINE next == [me EXCEPT !.transients = 0]
               fix  == [me EXCEPT !.pc = "fix", !.transients = 0]
    <2>1. next \in Locals
      BY <1>2, <1>4, Zenon DEF Locals
    <2>2. fix \in Locals
      BY <1>2, <1>4, Zenon DEF Locals, Waiting
    <2>3. CASE me.failing
      <3>1. Becomes(r, fix) /\ UNCHANGED tracked
        BY <1>8, <2>3 DEF Escalate
      <3>2. Stays(r, fix) /\ fix.pc = "fix" /\ fix.unfixed = me.unfixed
        BY <1>2, <2>2 DEF Stays, Locals
      <3> HIDE DEF fix
      <3>3. UnfixedCounted(fix) /\ fix.pc \in InLoop \ {"checkpoint"}
        BY <1>3, <1>4, <3>2 DEF UnfixedCounted, InLoop
      <3>4. QED  BY <1>1, <3>1, <3>2, <3>3, StaysGoes
    <2>4. CASE ~me.failing
      <3>1. EndIteration(r, next)
        BY <1>8, <2>4 DEF Escalate
      <3>2. Stays(r, next) /\ next.unfixed <= next.transients
        BY <1>2, <1>3, <2>1, <2>4 DEF Stays, Locals
      <3>3. QED  BY <1>1, <3>1, <3>2, EndIterationGoes
    <2>5. QED  BY <1>1, <2>3, <2>4
  <1>9. CASE ToRebuild(r)
    <2> DEFINE next == [me EXCEPT !.pc = "rebuild", !.transients = 0, !.rebuilds = 1,
                                  !.unfixed = 0]
    <2>1. Becomes(r, next) /\ UNCHANGED tracked
      BY <1>9 DEF ToRebuild
    <2>2. 0 \in Nat
      OBVIOUS
    <2>3. next \in Locals
      BY <1>2, <1>4, <2>2, Zenon DEF Locals, Waiting
    <2>4. Stays(r, next) /\ UnfixedCounted(next) /\ next.pc \in InLoop \ {"checkpoint"}
      BY <1>2, <2>3 DEF Stays, UnfixedCounted, InLoop, Locals
    <2>5. QED  BY <1>1, <2>1, <2>4, StaysGoes
  <1>10. QED  BY <1>1, <1>5, <1>6, <1>7, <1>8, <1>9

\* A fix ends the row of transient failures; a rebuild is tried again, ends the
\* iteration or ends the type.
LEMMA RepairGoes ==
  ASSUME Inv, NEW r \in Runs,
         \/ Fixed(r) \/ Rebuilt(r) \/ RebuildFails(r)
         \/ RebuildUnreadable(r) \/ Verified(r)
  PROVE  run[r].pc \in InLoop /\ \E x : Goes(r, x)
  <1> DEFINE me == run[r]
  <1>1. me.pc \in {"fix", "rebuild", "verify"} /\ me.pc \in InLoop
    BY DEF Fixed, Rebuilt, RebuildFails, RebuildUnreadable, Verified, InLoop
  <1>2. me \in Locals /\ Sound(r, me)
    BY <1>1, LoopFacts
  <1>3. /\ me.unfixed \in Nat /\ me.transients \in 0 .. MaxTransient
        /\ me.pc # "fix" => me.unfixed <= me.transients
        /\ me.rebuilds \in 0 .. MaxRebuilds
        /\ me.passed \in BOOLEAN /\ me.failing \in BOOLEAN
        /\ me.last \in {"none", "pass", "fail", "raised"}
    BY <1>2 DEF Sound, UnfixedCounted, Locals
  <1>4. 0 \in 0 .. MaxRebuilds /\ MaxTransient \in Nat /\ MaxRebuilds \in Nat /\ 0 \in Nat
    BY Bounds
  <1>5. CASE Fixed(r)
    <2> DEFINE next == [me EXCEPT !.unfixed = 0]
    <2>1. EndIteration(r, next)
      BY <1>5 DEF Fixed
    <2>2. next \in Locals
      BY <1>2, <1>4, Zenon DEF Locals
    <2>3. Stays(r, next) /\ next.unfixed <= next.transients
      BY <1>2, <1>3, <2>2 DEF Stays, Locals
    <2>4. QED  BY <1>1, <2>1, <2>3, EndIterationGoes
  <1>6. CASE Rebuilt(r)
    <2> DEFINE next == [me EXCEPT !.pc = "verify"]
    <2>1. Becomes(r, next) /\ UNCHANGED tracked /\ me.pc # "fix"
      BY <1>6 DEF Rebuilt
    <2>2. next \in Locals
      BY <1>2, Zenon DEF Locals, Waiting
    <2>3. Stays(r, next) /\ UnfixedCounted(next) /\ next.pc \in InLoop \ {"checkpoint"}
      BY <1>2, <1>3, <2>1, <2>2 DEF Stays, UnfixedCounted, InLoop, Locals
    <2>4. QED  BY <1>1, <2>1, <2>3, StaysGoes
  <1>7. CASE RebuildFails(r)
    <2>1. CASE me.rebuilds < MaxRebuilds
      <3> DEFINE next == [me EXCEPT !.pc = "rebuild", !.rebuilds = @ + 1]
      <3>1. Becomes(r, next) /\ UNCHANGED tracked /\ me.pc # "fix"
        BY <1>7, <2>1 DEF RebuildFails
      <3>2. me.rebuilds + 1 \in 0 .. MaxRebuilds
        BY <1>3, <1>4, <2>1
      <3>3. next \in Locals
        BY <1>2, <3>2, Zenon DEF Locals, Waiting
      <3>4. Stays(r, next) /\ UnfixedCounted(next) /\ next.pc \in InLoop \ {"checkpoint"}
        BY <1>2, <1>3, <3>1, <3>3 DEF Stays, UnfixedCounted, InLoop, Locals
      <3>5. QED  BY <1>1, <3>1, <3>4, StaysGoes
    <2>2. CASE ~(me.rebuilds < MaxRebuilds)
      <3>1. Conclude(r, me.passed, TRUE, me.last)
        BY <1>7, <2>2 DEF RebuildFails
      <3>2. QED  BY <1>1, <1>3, <3>1, ConcludeGoes
    <2>3. QED  BY <2>1, <2>2
  <1>8. CASE RebuildUnreadable(r)
    <2>1. me.pc # "fix"
      BY <1>8 DEF RebuildUnreadable
    <2>2. CASE me.failing
      <3> DEFINE fix == [me EXCEPT !.pc = "fix", !.rebuilds = 0]
      <3>1. Becomes(r, fix) /\ UNCHANGED tracked
        BY <1>8, <2>2 DEF RebuildUnreadable
      <3>2. fix \in Locals
        BY <1>2, <1>4, Zenon DEF Locals, Waiting
      <3>3. Stays(r, fix) /\ fix.pc = "fix" /\ fix.unfixed = me.unfixed
        BY <1>2, <3>2 DEF Stays, Locals
      <3> HIDE DEF fix
      <3>4. UnfixedCounted(fix) /\ fix.pc \in InLoop \ {"checkpoint"}
        BY <1>3, <1>4, <2>1, <3>3 DEF UnfixedCounted, InLoop
      <3>5. QED  BY <1>1, <3>1, <3>3, <3>4, StaysGoes
    <2>3. CASE ~me.failing
      <3> DEFINE next == [me EXCEPT !.rebuilds = 0]
      <3>1. EndIteration(r, next)
        BY <1>8, <2>3 DEF RebuildUnreadable
      <3>2. next \in Locals
        BY <1>2, <1>4, Zenon DEF Locals
      <3>3. Stays(r, next) /\ next.unfixed <= next.transients
        BY <1>2, <1>3, <2>1, <3>2 DEF Stays, Locals
      <3>4. QED  BY <1>1, <3>1, <3>3, EndIterationGoes
    <2>4. QED  BY <2>2, <2>3
  <1>9. CASE Verified(r)
    <2> DEFINE next == [me EXCEPT !.rebuilds = 0]
    <2>1. EndIteration(r, next) /\ me.pc # "fix"
      BY <1>9 DEF Verified
    <2>2. next \in Locals
      BY <1>2, <1>4, Zenon DEF Locals
    <2>3. Stays(r, next) /\ next.unfixed <= next.transients
      BY <1>2, <1>3, <2>1, <2>2 DEF Stays, Locals
    <2>4. QED  BY <1>1, <2>1, <2>3, EndIterationGoes
  <1>10. QED  BY <1>1, <1>5, <1>6, <1>7, <1>8, <1>9

LEMMA DispatchGoes ==
  ASSUME Inv, NEW r \in Runs, Dispatch(r)
  PROVE  run[r].pc \in InLoop /\ \E x : Goes(r, x)
  BY AnalysisGoes, RepairGoes DEF Dispatch

\* The CI checks answer, or raise.
LEMMA CIGoes ==
  ASSUME Inv, NEW r \in Runs, CIAnswers(r), UNCHANGED tracked
  PROVE  InFlight(r) /\ \E x : Goes(r, x)
  <1> DEFINE me == run[r]
  <1>1. me.pc = "ci" /\ InFlight(r)
    BY DEF CIAnswers, InFlight, Waiting
  <1>2. me \in Locals /\ Sound(r, me)
    BY DEF Inv, TypeInv, AllSound
  <1>3. me.report = "none" /\ r \in WithCI
    BY <1>1, <1>2 DEF Sound, ReportsLast
  <1>4. CASE Becomes(r, Raise(r))
    BY <1>1, <1>4, RaiseGoes
  <1>5. ASSUME NEW answer \in {"pass", "fail"},
               Becomes(r, [me EXCEPT !.pc = "locate", !.ci = answer])
        PROVE  \E x : Goes(r, x)
    <2> DEFINE next == [me EXCEPT !.pc = "locate", !.ci = answer]
    <2>1. answer \in {"none", "pass", "fail"} /\ answer # "none"
      BY <1>5
    <2>2. next \in Locals
      BY <1>2, <2>1, Zenon DEF Locals, Waiting
    <2>3. /\ next.pc = "locate" /\ next.ci = answer
          /\ next.item = me.item /\ next.attempt = me.attempt /\ next.report = "none"
          /\ next.overlapped = me.overlapped /\ next.disturbed = me.disturbed
          /\ next.type = me.type /\ next.results = me.results
          /\ next.iteration = me.iteration
          /\ next.unfixed = me.unfixed /\ next.transients = me.transients
      BY <1>2, <1>3 DEF Locals
    <2>4. Becomes(r, next)
      BY <1>5
    <2> HIDE DEF next
    <2>5. Bounded(r, next) /\ ResultsSoFar(r, next)
      BY <1>1, <1>2, <2>3 DEF Sound, Bounded, ResultsSoFar, InLoop
    <2>6. ReportsLast(r, next) /\ UnfixedCounted(next)
      BY <1>1, <1>2, <2>1, <2>3 DEF Sound, ReportsLast, UnfixedCounted
    <2>7. Goes(r, next)
      BY <2>2, <2>3, <2>4, <2>5, <2>6 DEF Goes, Sound
    <2>8. QED  BY <2>7
  <1>6. QED  BY <1>1, <1>4, <1>5 DEF CIAnswers

\* The report: a success only if all the types and the CI checks passed.
LEMMA PublishGoes ==
  ASSUME Inv, NEW r \in Runs, Publish(r), UNCHANGED tracked
  PROVE  InFlight(r) /\ \E x : Goes(r, x)
  <1> DEFINE me == run[r]
  <1>1. me.pc = "locate" /\ InFlight(r)
    BY DEF Publish, InFlight, Waiting
  <1>2. me \in Locals /\ Sound(r, me) /\ position[me.item] \in Columns
    BY DEF Inv, TypeInv, AllSound, Locals
  <1>3. PICK pc \in {"move", "gone"} :
           Becomes(r, [me EXCEPT !.pc = pc, !.seen = position[me.item],
                                 !.report = IF Overall(r) THEN "success" ELSE "failure"])
    BY DEF Publish
  <1> DEFINE report == IF Overall(r) THEN "success" ELSE "failure"
             next == [me EXCEPT !.pc = pc, !.seen = position[me.item], !.report = report]
  <1>4. report \in {"none", "success", "failure"} /\ pc \in Waiting \cup {"idle", "gone"}
    BY DEF Waiting
  <1>5. report = "success" => Overall(r)
    OBVIOUS
  <1>6. Becomes(r, next)
    BY <1>3
  <1> HIDE DEF report
  <1>7. next \in Locals
    BY <1>2, <1>4, Zenon DEF Locals
  <1>8. /\ next.pc = pc /\ next.seen = position[me.item] /\ next.report = report
        /\ next.item = me.item /\ next.attempt = me.attempt /\ next.ci = me.ci
        /\ next.overlapped = me.overlapped /\ next.disturbed = me.disturbed
        /\ next.type = me.type /\ next.results = me.results
        /\ next.iteration = me.iteration
        /\ next.unfixed = me.unfixed /\ next.transients = me.transients
    BY <1>2 DEF Locals
  <1> HIDE DEF next
  <1>9. Overall(r) => /\ AllPassed(me.results) /\ Len(me.results) = Types[r]
                      /\ r \in WithCI => me.ci = "pass"
    <2>1. me.results \in Seq(Result) /\ me.ci \in {"none", "pass", "fail"}
      BY <1>2 DEF Locals
    <2>2. DOMAIN me.results = 1 .. Len(me.results)
      BY <2>1
    <2>3. Overall(r) => AllPassed(me.results)
      BY <2>2 DEF Overall, AllPassed
    <2>4. Overall(r) => me.ci # "fail"
      BY DEF Overall
    <2>5. QED  BY <1>1, <1>2, <2>1, <2>3, <2>4 DEF Sound, ResultsSoFar, ReportsLast
  <1>10. Bounded(r, next) /\ ResultsSoFar(r, next)
    BY <1>1, <1>2, <1>8 DEF Sound, Bounded, ResultsSoFar, InLoop
  <1>11. ReportsLast(r, next) /\ UnfixedCounted(next)
    BY <1>1, <1>2, <1>5, <1>8, <1>9 DEF Sound, ReportsLast, UnfixedCounted
  <1>12. Goes(r, next)
    BY <1>6, <1>7, <1>8, <1>10, <1>11 DEF Goes, Sound
  <1>13. QED  BY <1>1, <1>12

-----------------------------------------------------------------------------
(* From one handler to all of them                                          *)

\* The locals `me` with other values of the two ghosts.
Ghosts(me, overlapped, disturbed) ==
    [me EXCEPT !.overlapped = overlapped, !.disturbed = disturbed]

\* The ghosts of a handler say nothing about its loops.
LEMMA GhostsSound ==
  ASSUME NEW r \in Runs, NEW me, Sound(r, me), NEW o \in BOOLEAN, NEW d \in BOOLEAN
  PROVE  /\ Sound(r, Ghosts(me, o, d))
         /\ Ghosts(me, o, d).overlapped = o /\ Ghosts(me, o, d).disturbed = d
         /\ Ghosts(me, o, d).pc = me.pc /\ Ghosts(me, o, d).item = me.item
         /\ Ghosts(me, o, d).attempt = me.attempt /\ Ghosts(me, o, d).results = me.results
         /\ Ghosts(me, o, d).report = me.report /\ Ghosts(me, o, d).seen = me.seen
         /\ Ghosts(me, o, d).saving = me.saving
  <1> DEFINE to == Ghosts(me, o, d)
  <1>1. me \in Locals
    BY DEF Sound
  <1>2. to \in Locals
    BY <1>1, Zenon DEF Locals, Ghosts
  <1>3. /\ to.overlapped = o /\ to.disturbed = d
        /\ to.pc = me.pc /\ to.item = me.item /\ to.attempt = me.attempt
        /\ to.results = me.results /\ to.report = me.report /\ to.seen = me.seen
        /\ to.type = me.type /\ to.iteration = me.iteration /\ to.ci = me.ci
        /\ to.unfixed = me.unfixed /\ to.transients = me.transients
        /\ to.failing = me.failing /\ to.saving = me.saving
    BY <1>1 DEF Locals, Ghosts
  <1> HIDE DEF to
  <1>4. Bounded(r, to) /\ ResultsSoFar(r, to)
    BY <1>3 DEF Sound, Bounded, ResultsSoFar
  <1>5. ReportsLast(r, to) /\ UnfixedCounted(to)
    BY <1>3 DEF Sound, ReportsLast, UnfixedCounted
  <1>6. Sound(r, to)
    BY <1>2, <1>4, <1>5 DEF Sound
  <1>7. QED  BY <1>3, <1>6 DEF to

\* A prefix of the results stays one when a result follows.
LEMMA PrefixStays ==
  ASSUME NEW s \in Seq(Result), NEW saved \in Seq(Result), NEW x \in Result,
         Len(saved) <= Len(s), saved = SubSeq(s, 1, Len(saved))
  PROVE  /\ Len(saved) <= Len(Append(s, x))
         /\ saved = SubSeq(Append(s, x), 1, Len(saved))
  <1> DEFINE t == Append(s, x)
             m == Len(saved)
  <1>1. t \in Seq(Result) /\ Len(t) = Len(s) + 1 /\ \A k \in 1 .. Len(s) : t[k] = s[k]
    BY OneMoreResult
  <1>2. m \in Nat /\ Len(s) \in Nat /\ m <= Len(s)
    BY LenProperties
  <1> HIDE DEF t
  <1>3. SubSeq(t, 1, m) = [k \in 1 .. m |-> t[k]] /\ SubSeq(s, 1, m) = [k \in 1 .. m |-> s[k]]
    BY <1>1, <1>2
  <1>4. \A k \in 1 .. m : t[k] = s[k]
    BY <1>1, <1>2
  <1>5. SubSeq(t, 1, m) = SubSeq(s, 1, m)
    BY <1>3, <1>4
  <1>6. QED  BY <1>1, <1>2, <1>5 DEF t

\* All the results are a prefix of themselves, with a result more or without.
LEMMA AllIsPrefix ==
  ASSUME NEW s \in Seq(Result)
  PROVE  s = SubSeq(s, 1, Len(s))
  BY SubSeqProperties, LenProperties

\* A step of one handler keeps the invariant: it leaves the other handlers'
\* locals alone, and the others in flight know that they are not alone.
LEMMA GoesKeeps ==
  ASSUME Inv, NEW r \in Runs, InFlight(r), NEW me, Goes(r, me),
         \/ UNCHANGED stored
         \/ /\ run[r].pc = "checkpoint"
            /\ stored' = [stored EXCEPT ![r] =
                            [attempt |-> run[r].attempt, results |-> run[r].saving]],
         UNCHANGED <<position, moves>>
  PROVE  Inv'
  <1>1. /\ run \in [Runs -> Locals] /\ tracked \in Seq(Result)
        /\ stored \in [Runs -> Checkpoints]
        /\ position \in [Items -> Columns] /\ moves \in 0 .. MaxMoves
    BY DEF Inv, TypeInv
  <1>2. me \in Locals /\ Sound(r, me)
    BY DEF Goes, Sound
  <1>3. run' = [run EXCEPT ![r] = me]
    BY DEF Goes, Becomes
  <1>4. run'[r] = me /\ \A q \in Runs \ {r} : run'[q] = run[q]
    BY <1>1, <1>3
  <1>5. run' \in [Runs -> Locals]
    BY <1>1, <1>2, <1>3
  <1>6. tracked' \in Seq(Result)
    <2>1. CASE tracked' = tracked
      BY <1>1, <2>1
    <2>2. CASE tracked' # tracked
      <3>1. PICK x \in Result : tracked' = Append(tracked, x)
        BY <2>2 DEF Goes
      <3>2. QED  BY <1>1, <3>1, OneMoreResult
    <2>3. QED  BY <2>1, <2>2
  <1>7. run[r].attempt \in 1 .. MaxAttempts /\ me.attempt \in 1 .. MaxAttempts
        /\ MaxAttempts \in Nat
    BY <1>1, <1>2, Bounds DEF Locals
  <1>8. [attempt |-> run[r].attempt, results |-> run[r].saving] \in Checkpoints
    BY <1>1, <1>7 DEF Checkpoints, Locals
  <1>9. stored' \in [Runs -> Checkpoints] /\ \A q \in Runs \ {r} : stored'[q] = stored[q]
    BY <1>1, <1>8
  <1>10. \/ stored'[r] = stored[r]
         \/ /\ run[r].pc = "checkpoint"
            /\ stored'[r].attempt = run[r].attempt /\ stored'[r].results = run[r].saving
    BY <1>1
  <1>11. TypeInv'
    BY <1>1, <1>5, <1>6, <1>9 DEF TypeInv
  <1>12. AllSound'
    <2>1. \A q \in Runs : Sound(q, run'[q])
      BY <1>2, <1>4 DEF Inv, AllSound
    <2>2. QED  BY <2>1 DEF AllSound, Sound, Bounded, ResultsSoFar, ReportsLast, UnfixedCounted,
                           AllPassed
  <1>13. \A q \in Runs : run'[q].pc \in Waiting => InFlight(q)
    BY <1>4 DEF InFlight
  <1>14. \A q \in Runs : /\ run'[q].overlapped = run[q].overlapped
                         /\ run'[q].disturbed = run[q].disturbed
                         /\ run'[q].item = run[q].item
    BY <1>4 DEF Goes
  <1>15. Alone'
    <2>1. \A p, q \in Runs : /\ run'[p].pc \in Waiting /\ run'[q].pc \in Waiting /\ p # q
                             => run'[p].overlapped
      BY <1>13, <1>14 DEF Inv, Alone
    <2>2. QED  BY <2>1 DEF Alone, InFlight
  <1>16. TrackedIsOwn'
    <2>1. ASSUME NEW q \in Runs, run'[q].pc \in Waiting, ~run'[q].overlapped
          PROVE  tracked' = run'[q].results
      <3>1. InFlight(q) /\ ~run[q].overlapped
        BY <1>13, <1>14, <2>1
      <3>2. q = r /\ tracked = run[q].results
        BY <3>1 DEF Inv, Alone, TrackedIsOwn
      <3>3. QED  BY <1>4, <3>2 DEF Goes
    <2>2. QED  BY <2>1 DEF TrackedIsOwn, InFlight
  <1>23. SavingIsOwn'
    <2>1. ASSUME NEW q \in Runs, run'[q].pc = "checkpoint", ~run'[q].overlapped
          PROVE  run'[q].saving = run'[q].results
      <3>1. CASE q = r
        <4>1. me.saving = tracked /\ me.results = run[r].results
          BY <1>4, <2>1, <3>1 DEF Goes
        <4>2. tracked = run[r].results
          BY <1>14, <2>1, <3>1 DEF Inv, TrackedIsOwn
        <4>3. QED  BY <1>4, <3>1, <4>1, <4>2
      <3>2. CASE q # r
        BY <1>4, <2>1, <3>2 DEF Inv, SavingIsOwn
      <3>3. QED  BY <3>1, <3>2
    <2>2. QED  BY <2>1 DEF SavingIsOwn
  <1>17. /\ stored[r].attempt \in Nat /\ stored'[r].attempt \in Nat
         /\ stored[r].attempt <= run[r].attempt /\ stored'[r].attempt <= run[r].attempt
    BY <1>1, <1>7, <1>9, <1>10, Bounds DEF Inv, CheckpointAges, Checkpoints
  <1>18. /\ me.pc # "idle" /\ me.attempt >= run[r].attempt
         /\ me.pc = "backoff" => me.attempt = run[r].attempt + 1
         /\ me.pc # "backoff" => me.attempt = run[r].attempt
    BY <1>7 DEF Goes
  <1>19. CheckpointAges'
    <2>1. ASSUME NEW q \in Runs
          PROVE  /\ stored'[q].attempt <= run'[q].attempt
                 /\ run'[q].pc \in {"idle", "backoff"} => stored'[q].attempt < run'[q].attempt
      <3>1. CASE q = r
        BY <1>4, <1>7, <1>17, <1>18, <3>1
      <3>2. CASE q # r
        BY <1>4, <1>9, <3>2 DEF Inv, CheckpointAges
      <3>3. QED  BY <3>1, <3>2
    <2>2. QED  BY <2>1 DEF CheckpointAges
  <1>20. CheckpointIsOwn'
    <2>1. ASSUME NEW q \in Runs, ~run'[q].overlapped, stored'[q].attempt = run'[q].attempt
          PROVE  /\ Len(stored'[q].results) <= Len(run'[q].results)
                 /\ stored'[q].results
                       = SubSeq(run'[q].results, 1, Len(stored'[q].results))
      <3>1. CASE q # r
        BY <1>4, <1>9, <2>1, <3>1 DEF Inv, CheckpointIsOwn
      <3>2. CASE q = r
        <4> DEFINE saved == stored'[r].results
                   own == run[r].results
        <4>1. ~run[r].overlapped /\ stored'[r].attempt = run[r].attempt
          BY <1>4, <1>7, <1>14, <1>17, <1>18, <2>1, <3>2
        <4>2. run[r].pc = "checkpoint" => run[r].saving = own
          BY <4>1 DEF Inv, SavingIsOwn
        <4>3. saved \in Seq(Result) /\ own \in Seq(Result)
          BY <1>1, <1>9 DEF Checkpoints, Locals
        <4>4. Len(saved) <= Len(own) /\ saved = SubSeq(own, 1, Len(saved))
          <5>1. CASE stored'[r] = stored[r]
            BY <4>1, <5>1 DEF Inv, CheckpointIsOwn
          <5>2. CASE run[r].pc = "checkpoint" /\ stored'[r].results = run[r].saving
            <6>1. saved = own
              BY <4>2, <5>2
            <6>2. QED  BY <4>3, <6>1, AllIsPrefix, LenProperties
          <5>3. QED  BY <1>10, <5>1, <5>2
        <4> HIDE DEF saved, own
        <4>5. CASE me.results = own
          BY <1>4, <3>2, <4>4, <4>5 DEF saved
        <4>6. CASE me.results # own
          <5>1. PICK x \in Result : me.results = Append(own, x)
            BY <4>6 DEF Goes, own
          <5>2. Len(saved) <= Len(Append(own, x)) /\ saved = SubSeq(Append(own, x), 1, Len(saved))
            BY <4>3, <4>4, PrefixStays
          <5>3. QED  BY <1>4, <3>2, <5>1, <5>2 DEF saved
        <4>7. QED  BY <4>5, <4>6
      <3>3. QED  BY <3>1, <3>2
    <2>2. QED  BY <2>1 DEF CheckpointIsOwn
  <1>21. CardWaitsForReport'
    <2>1. ASSUME NEW q \in Runs, ~run'[q].disturbed
          PROVE  /\ run'[q].pc \in Waiting => position'[run'[q].item] = RepairColumn
                 /\ run'[q].report # "none" => run'[q].seen = RepairColumn
      <3>1. ~run[q].disturbed /\ run'[q].item = run[q].item /\ position' = position
        BY <1>14, <2>1
      <3>2. CASE q = r
        <4>1. position[run[r].item] = RepairColumn
          BY <3>1, <3>2 DEF Inv, CardWaitsForReport
        <4>2. QED  BY <1>4, <3>1, <3>2, <4>1 DEF Goes
      <3>3. CASE q # r
        BY <1>4, <3>1, <3>3 DEF Inv, CardWaitsForReport, InFlight
      <3>4. QED  BY <3>2, <3>3
    <2>2. QED  BY <2>1 DEF CardWaitsForReport, InFlight
  <1>22. QED
    BY <1>11, <1>12, <1>15, <1>16, <1>19, <1>20, <1>21, <1>23 DEF Inv

-----------------------------------------------------------------------------
(* A cycle begins, a card moves                                             *)

\* Whatever a handler was left with, it starts sound.
LEMMA FirstTestsSound ==
  ASSUME NEW r \in Runs, NEW me, Sound(r, me), me.report = "none"
  PROVE  /\ Sound(r, FirstTests(me))
         /\ FirstTests(me).pc = "tests" /\ FirstTests(me).results = <<>>
         /\ FirstTests(me).report = "none"
         /\ FirstTests(me).item = me.item /\ FirstTests(me).attempt = me.attempt
         /\ FirstTests(me).overlapped = me.overlapped
         /\ FirstTests(me).disturbed = me.disturbed
  <1> DEFINE fresh == Fresh(me)
             first == FirstTests(me)
  <1>1. me \in Locals
    BY DEF Sound
  <1>2. /\ fresh \in Locals
        /\ fresh.pc = me.pc /\ fresh.item = me.item /\ fresh.attempt = me.attempt
        /\ fresh.report = me.report /\ fresh.overlapped = me.overlapped
        /\ fresh.disturbed = me.disturbed
        /\ fresh.iteration = 1 /\ fresh.transients = 0 /\ fresh.unfixed = 0
    BY <1>1, FreshLocals
  <1>3. first = [fresh EXCEPT !.pc = "tests", !.type = 1, !.results = <<>>, !.ci = "none"]
    BY DEF FirstTests
  <1> HIDE DEF fresh, first
  <1>4. <<>> \in Seq(Result) /\ Len(<<>>) = 0 /\ 1 \in Nat
    OBVIOUS
  <1>5. first \in Locals
    BY <1>2, <1>3, <1>4, Zenon DEF Locals, Waiting
  <1>6. /\ first.pc = "tests" /\ first.type = 1 /\ first.results = <<>> /\ first.ci = "none"
        /\ first.item = me.item /\ first.attempt = me.attempt /\ first.report = "none"
        /\ first.overlapped = me.overlapped /\ first.disturbed = me.disturbed
        /\ first.iteration = 1 /\ first.transients = 0 /\ first.unfixed = 0
    BY <1>2, <1>3 DEF Locals
  <1>7. Bounded(r, first) /\ ReportsLast(r, first) /\ UnfixedCounted(first)
    BY <1>6, Bounds DEF Bounded, ReportsLast, UnfixedCounted
  <1>8. ResultsSoFar(r, first)
    BY <1>4, <1>6, Bounds DEF ResultsSoFar, AllPassed
  <1>9. Sound(r, first)
    BY <1>5, <1>7, <1>8 DEF Sound
  <1>10. QED  BY <1>6, <1>9 DEF first

\* A handler that is called again forgets the attempt before, and so does the
\* adapter.
LEMMA RedispatchKeeps ==
  ASSUME Inv, NEW r \in Runs, Redispatch(r)
  PROVE  Inv'
  <1> DEFINE me == FirstTests(run[r])
  <1>1. /\ run \in [Runs -> Locals] /\ stored \in [Runs -> Checkpoints]
        /\ position \in [Items -> Columns] /\ moves \in 0 .. MaxMoves
    BY DEF Inv, TypeInv
  <1>2. /\ run[r].pc = "backoff" /\ tracked' = <<>>
        /\ UNCHANGED <<stored, position, moves>>
        /\ run' = [run EXCEPT ![r] = me]
    BY DEF Redispatch, ResetTracking, Becomes
  <1>3. Sound(r, run[r]) /\ run[r].report = "none" /\ InFlight(r)
    BY <1>2 DEF Inv, AllSound, Sound, ReportsLast, InFlight, Waiting
  <1>4. /\ Sound(r, me) /\ me.pc = "tests" /\ me.results = <<>> /\ me.report = "none"
        /\ me.item = run[r].item /\ me.attempt = run[r].attempt
        /\ me.overlapped = run[r].overlapped /\ me.disturbed = run[r].disturbed
    BY <1>3, FirstTestsSound
  <1> HIDE DEF me
  <1>5. me \in Locals
    BY <1>4 DEF Sound
  <1>6. run'[r] = me /\ \A q \in Runs \ {r} : run'[q] = run[q]
    BY <1>1, <1>2
  <1>7. <<>> \in Seq(Result)
    OBVIOUS
  <1>8. run' \in [Runs -> Locals]
    BY <1>1, <1>2, <1>5
  <1>9. TypeInv'
    BY <1>1, <1>2, <1>7, <1>8 DEF TypeInv
  <1>10. AllSound'
    <2>1. \A q \in Runs : Sound(q, run'[q])
      BY <1>4, <1>6 DEF Inv, AllSound
    <2>2. QED  BY <2>1 DEF AllSound, Sound, Bounded, ResultsSoFar, ReportsLast, UnfixedCounted,
                           AllPassed
  <1>11. \A q \in Runs : run'[q].pc \in Waiting => InFlight(q)
    BY <1>3, <1>6 DEF InFlight
  <1>12. \A q \in Runs : /\ run'[q].overlapped = run[q].overlapped
                         /\ run'[q].disturbed = run[q].disturbed
                         /\ run'[q].item = run[q].item
                         /\ run'[q].attempt = run[q].attempt
                         /\ run'[q].report = run[q].report
                         /\ run'[q].report # "none" => run'[q].seen = run[q].seen
    BY <1>3, <1>4, <1>6
  <1>13. Alone'
    <2>1. \A p, q \in Runs : /\ run'[p].pc \in Waiting /\ run'[q].pc \in Waiting /\ p # q
                             => run'[p].overlapped
      BY <1>11, <1>12 DEF Inv, Alone
    <2>2. QED  BY <2>1 DEF Alone, InFlight
  <1>14. TrackedIsOwn'
    <2>1. ASSUME NEW q \in Runs, run'[q].pc \in Waiting, ~run'[q].overlapped
          PROVE  tracked' = run'[q].results
      <3>1. q = r
        BY <1>3, <1>11, <1>12, <2>1 DEF Inv, Alone
      <3>2. QED  BY <1>2, <1>4, <1>6, <3>1
    <2>2. QED  BY <2>1 DEF TrackedIsOwn, InFlight
  <1>15. /\ stored[r].attempt \in Nat /\ run[r].attempt \in Nat
         /\ stored[r].attempt < run[r].attempt
    BY <1>1, <1>2, Bounds DEF Inv, CheckpointAges, Checkpoints, Locals
  <1>16. CheckpointAges'
    <2>1. ASSUME NEW q \in Runs
          PROVE  /\ stored[q].attempt <= run'[q].attempt
                 /\ run'[q].pc \in {"idle", "backoff"} => stored[q].attempt < run'[q].attempt
      BY <1>4, <1>6, <1>15 DEF Inv, CheckpointAges
    <2>2. QED  BY <1>2, <2>1 DEF CheckpointAges
  <1>17. CheckpointIsOwn'
    <2>1. ASSUME NEW q \in Runs, ~run'[q].overlapped, stored[q].attempt = run'[q].attempt
          PROVE  /\ Len(stored[q].results) <= Len(run'[q].results)
                 /\ stored[q].results = SubSeq(run'[q].results, 1, Len(stored[q].results))
      <3>1. q # r
        BY <1>12, <1>15, <2>1
      <3>2. QED  BY <1>6, <2>1, <3>1 DEF Inv, CheckpointIsOwn
    <2>2. QED  BY <1>2, <2>1 DEF CheckpointIsOwn
  <1>18. CardWaitsForReport'
    <2>1. ASSUME NEW q \in Runs, ~run'[q].disturbed
          PROVE  /\ run'[q].pc \in Waiting => position[run'[q].item] = RepairColumn
                 /\ run'[q].report # "none" => run'[q].seen = RepairColumn
      BY <1>11, <1>12, <2>1 DEF Inv, CardWaitsForReport
    <2>2. QED  BY <1>2, <2>1 DEF CardWaitsForReport, InFlight
  <1>19. SavingIsOwn'
    <2>1. \A q \in Runs : run'[q].pc = "checkpoint" => run'[q] = run[q]
      BY <1>4, <1>6
    <2>2. \A q \in Runs : run'[q].pc = "checkpoint" /\ ~run'[q].overlapped
                             => run'[q].saving = run'[q].results
      BY <2>1 DEF Inv, SavingIsOwn
    <2>3. QED  BY <2>2 DEF SavingIsOwn
  <1>20. QED
    BY <1>9, <1>10, <1>13, <1>14, <1>16, <1>17, <1>18, <1>19 DEF Inv

\* A cycle begins.  The handlers in flight overlap with it, and those that
\* repair the same card are disturbed.
LEMMA EnterKeeps ==
  ASSUME Inv, NEW r \in Runs, NEW i \in Items, Enter(r, i)
  PROVE  Inv'
  <1> DEFINE others == {q \in Runs : InFlight(q)}
             same == {q \in others : run[q].item = i}
             first == FirstTests(run[r])
             me == [first EXCEPT !.item = i, !.overlapped = others # {}, !.disturbed = same # {}]
             Noted(q) == [run[q] EXCEPT !.overlapped = @ \/ q \in others,
                                        !.disturbed = @ \/ q \in same]
  <1>1. /\ run \in [Runs -> Locals] /\ stored \in [Runs -> Checkpoints]
        /\ position \in [Items -> Columns] /\ moves \in 0 .. MaxMoves
    BY DEF Inv, TypeInv
  <1>2. /\ run[r].pc = "idle" /\ tracked' = <<>>
        /\ position' = [position EXCEPT ![i] = RepairColumn]
        /\ UNCHANGED <<stored, moves>>
    BY DEF Enter, ResetTracking
  <1>3. run' = [q \in Runs |-> IF q = r THEN me ELSE Noted(q)]
    BY DEF Enter
  <1>4. Sound(r, run[r]) /\ run[r].report = "none" /\ ~InFlight(r)
    BY <1>2 DEF Inv, AllSound, Sound, ReportsLast, InFlight, Waiting
  <1>5. /\ Sound(r, first) /\ first.pc = "tests" /\ first.results = <<>>
        /\ first.report = "none" /\ first.attempt = run[r].attempt
    BY <1>4, FirstTestsSound
  <1>6. (others # {}) \in BOOLEAN /\ (same # {}) \in BOOLEAN
    OBVIOUS
  <1> HIDE DEF first
  <1>7. /\ Sound(r, me) /\ me.pc = "tests" /\ me.results = <<>> /\ me.report = "none"
        /\ me.item = i /\ me.attempt = run[r].attempt
        /\ me.overlapped = (others # {}) /\ me.disturbed = (same # {})
    <2> DEFINE o == others # {}
               d == same # {}
               carded == [first EXCEPT !.item = i]
    <2>1. first \in Locals
      BY <1>5 DEF Sound
    <2>2. carded \in Locals
      BY <2>1 DEF Locals
    <2>3. /\ carded.pc = first.pc /\ carded.results = first.results
          /\ carded.report = first.report /\ carded.attempt = first.attempt /\ carded.item = i
          /\ carded.type = first.type /\ carded.iteration = first.iteration
          /\ carded.ci = first.ci /\ carded.unfixed = first.unfixed
          /\ carded.transients = first.transients /\ carded.failing = first.failing
      BY <2>1 DEF Locals
    <2> HIDE DEF carded
    <2>4. Bounded(r, carded) /\ ResultsSoFar(r, carded)
      BY <1>5, <2>3 DEF Sound, Bounded, ResultsSoFar
    <2>5. ReportsLast(r, carded) /\ UnfixedCounted(carded)
      BY <1>5, <2>3 DEF Sound, ReportsLast, UnfixedCounted
    <2>6. Sound(r, carded)
      BY <2>2, <2>4, <2>5 DEF Sound
    <2>7. me = Ghosts(carded, o, d)
      BY DEF carded, Ghosts
    <2>8. o \in BOOLEAN /\ d \in BOOLEAN
      OBVIOUS
    <2> HIDE DEF o, d, me
    <2>9. /\ Sound(r, me) /\ me.overlapped = o /\ me.disturbed = d
          /\ me.pc = carded.pc /\ me.item = carded.item /\ me.attempt = carded.attempt
          /\ me.results = carded.results /\ me.report = carded.report
      BY <2>6, <2>7, <2>8, GhostsSound
    <2>10. QED  BY <1>5, <2>3, <2>9 DEF o, d
  <1> HIDE DEF me
  <1>8. \A q \in Runs : /\ Sound(q, Noted(q))
                        /\ Noted(q).overlapped = (run[q].overlapped \/ q \in others)
                        /\ Noted(q).disturbed = (run[q].disturbed \/ q \in same)
                        /\ Noted(q).pc = run[q].pc /\ Noted(q).item = run[q].item
                        /\ Noted(q).attempt = run[q].attempt
                        /\ Noted(q).results = run[q].results
                        /\ Noted(q).report = run[q].report /\ Noted(q).seen = run[q].seen
                        /\ Noted(q).saving = run[q].saving
    <2> TAKE q \in Runs
    <2> DEFINE o == run[q].overlapped \/ q \in others
               d == run[q].disturbed \/ q \in same
               to == Noted(q)
    <2>1. o \in BOOLEAN /\ d \in BOOLEAN
      OBVIOUS
    <2>2. Sound(q, run[q])
      BY DEF Inv, AllSound
    <2>3. to = Ghosts(run[q], o, d)
      BY DEF Ghosts
    <2> HIDE DEF o, d, to
    <2>4. /\ Sound(q, to) /\ to.overlapped = o /\ to.disturbed = d
          /\ to.pc = run[q].pc /\ to.item = run[q].item /\ to.attempt = run[q].attempt
          /\ to.results = run[q].results /\ to.report = run[q].report /\ to.seen = run[q].seen
          /\ to.saving = run[q].saving
      BY <2>1, <2>2, <2>3, GhostsSound
    <2>5. QED  BY <2>4 DEF o, d, to
  <1> HIDE DEF Noted
  <1>9. run'[r] = me /\ \A q \in Runs \ {r} : run'[q] = Noted(q)
    BY <1>3
  <1>10. run' \in [Runs -> Locals]
    BY <1>3, <1>7, <1>8 DEF Sound
  <1>11. TypeInv'
    <2>1. <<>> \in Seq(Result) /\ position' \in [Items -> Columns]
      BY <1>1, <1>2 DEF Columns, RepairColumn
    <2>2. QED  BY <1>1, <1>2, <1>10, <2>1 DEF TypeInv
  <1>12. AllSound'
    <2>1. \A q \in Runs : Sound(q, run'[q])
      BY <1>7, <1>8, <1>9
    <2>2. QED  BY <2>1 DEF AllSound, Sound, Bounded, ResultsSoFar, ReportsLast, UnfixedCounted,
                           AllPassed
  <1>13. \A q \in Runs \ {r} : /\ run'[q].pc \in Waiting => q \in others /\ run'[q].overlapped
                               /\ q \in same => run'[q].disturbed
    BY <1>8, <1>9 DEF InFlight
  <1>14. Alone'
    <2>1. \A p, q \in Runs : /\ run'[p].pc \in Waiting /\ run'[q].pc \in Waiting /\ p # q
                             => run'[p].overlapped
      <3> SUFFICES ASSUME NEW p \in Runs, NEW q \in Runs, run'[p].pc \in Waiting,
                          run'[q].pc \in Waiting, p # q
                   PROVE  run'[p].overlapped
        OBVIOUS
      <3>1. CASE p # r
        BY <1>13, <3>1
      <3>2. CASE p = r
        BY <1>7, <1>9, <1>13, <3>2
      <3>3. QED  BY <3>1, <3>2
    <2>2. QED  BY <2>1 DEF Alone, InFlight
  <1>15. TrackedIsOwn'
    <2>1. ASSUME NEW q \in Runs, run'[q].pc \in Waiting, ~run'[q].overlapped
          PROVE  tracked' = run'[q].results
      BY <1>2, <1>7, <1>9, <1>13, <2>1
    <2>2. QED  BY <2>1 DEF TrackedIsOwn, InFlight
  <1>16. stored[r].attempt \in Nat /\ run[r].attempt \in Nat /\ stored[r].attempt < run[r].attempt
    BY <1>1, <1>2, Bounds DEF Inv, CheckpointAges, Checkpoints, Locals
  <1>17. CheckpointAges'
    <2>1. ASSUME NEW q \in Runs
          PROVE  /\ stored[q].attempt <= run'[q].attempt
                 /\ run'[q].pc \in {"idle", "backoff"} => stored[q].attempt < run'[q].attempt
      <3>1. CASE q = r
        BY <1>7, <1>9, <1>16, <3>1
      <3>2. CASE q # r
        BY <1>8, <1>9, <3>2 DEF Inv, CheckpointAges
      <3>3. QED  BY <3>1, <3>2
    <2>2. QED  BY <1>2, <2>1 DEF CheckpointAges
  <1>18. CheckpointIsOwn'
    <2>1. ASSUME NEW q \in Runs, ~run'[q].overlapped, stored[q].attempt = run'[q].attempt
          PROVE  /\ Len(stored[q].results) <= Len(run'[q].results)
                 /\ stored[q].results = SubSeq(run'[q].results, 1, Len(stored[q].results))
      <3>1. q # r
        BY <1>7, <1>9, <1>16, <2>1
      <3>2. ~run[q].overlapped /\ stored[q].attempt = run[q].attempt
            /\ run'[q].results = run[q].results
        BY <1>8, <1>9, <2>1, <3>1
      <3>3. QED  BY <3>2 DEF Inv, CheckpointIsOwn
    <2>2. QED  BY <1>2, <2>1 DEF CheckpointIsOwn
  <1>19. CardWaitsForReport'
    <2>1. ASSUME NEW q \in Runs, ~run'[q].disturbed
          PROVE  /\ run'[q].pc \in Waiting => position'[run'[q].item] = RepairColumn
                 /\ run'[q].report # "none" => run'[q].seen = RepairColumn
      <3>1. CASE q = r
        BY <1>1, <1>2, <1>7, <1>9, <3>1
      <3>2. CASE q # r
        <4>1. /\ ~run[q].disturbed /\ run'[q].item = run[q].item /\ run'[q].pc = run[q].pc
              /\ run'[q].report = run[q].report /\ run'[q].seen = run[q].seen
          BY <1>8, <1>9, <2>1, <3>2
        <4>2. run[q].item \in Items
          BY <1>1 DEF Locals
        <4>3. QED
          BY <1>1, <1>2, <4>1, <4>2 DEF Inv, CardWaitsForReport, InFlight
      <3>3. QED  BY <3>1, <3>2
    <2>2. QED  BY <2>1 DEF CardWaitsForReport, InFlight
  <1>20. SavingIsOwn'
    <2>1. ASSUME NEW q \in Runs, run'[q].pc = "checkpoint", ~run'[q].overlapped
          PROVE  run'[q].saving = run'[q].results
      <3>1. q # r
        BY <1>7, <1>9, <2>1
      <3>2. /\ run[q].pc = "checkpoint" /\ ~run[q].overlapped
            /\ run'[q].saving = run[q].saving /\ run'[q].results = run[q].results
        BY <1>8, <1>9, <2>1, <3>1
      <3>3. QED  BY <3>2 DEF Inv, SavingIsOwn
    <2>2. QED  BY <2>1 DEF SavingIsOwn
  <1>21. QED
    BY <1>11, <1>12, <1>14, <1>15, <1>17, <1>18, <1>19, <1>20 DEF Inv

\* The handlers of the card `i` that are in flight, `r` excepted, are disturbed.
Disturbs(i, r) ==
    \A q \in Runs \ {r} :
        run'[q] = [run[q] EXCEPT !.disturbed = @ \/ (InFlight(q) /\ run[q].item = i)]

LEMMA DisturbedSound ==
  ASSUME Inv, NEW i, NEW r, Disturbs(i, r), NEW q \in Runs \ {r}
  PROVE  /\ Sound(q, run'[q])
         /\ run'[q].overlapped = run[q].overlapped
         /\ run'[q].disturbed = (run[q].disturbed \/ (InFlight(q) /\ run[q].item = i))
         /\ run'[q].pc = run[q].pc /\ run'[q].item = run[q].item
         /\ run'[q].attempt = run[q].attempt /\ run'[q].results = run[q].results
         /\ run'[q].report = run[q].report /\ run'[q].seen = run[q].seen
         /\ run'[q].saving = run[q].saving
  <1> DEFINE d == run[q].disturbed \/ (InFlight(q) /\ run[q].item = i)
             o == run[q].overlapped
             me == run[q]
  <1>1. me \in Locals /\ Sound(q, me)
    BY DEF Inv, TypeInv, AllSound
  <1>2. o \in BOOLEAN /\ d \in BOOLEAN
    BY <1>1 DEF Locals
  <1>3. [me EXCEPT !.disturbed = d] = Ghosts(me, o, d)
    BY <1>1 DEF Ghosts, Locals
  <1>4. run'[q] = [me EXCEPT !.disturbed = d]
    BY DEF Disturbs
  <1>5. run'[q] = Ghosts(me, o, d)
    BY <1>3, <1>4
  <1> HIDE DEF d
  <1>6. /\ Sound(q, Ghosts(me, o, d))
        /\ Ghosts(me, o, d).overlapped = o /\ Ghosts(me, o, d).disturbed = d
        /\ Ghosts(me, o, d).pc = me.pc /\ Ghosts(me, o, d).item = me.item
        /\ Ghosts(me, o, d).attempt = me.attempt /\ Ghosts(me, o, d).results = me.results
        /\ Ghosts(me, o, d).report = me.report /\ Ghosts(me, o, d).seen = me.seen
        /\ Ghosts(me, o, d).saving = me.saving
    BY <1>1, <1>2, GhostsSound
  <1>7. QED  BY <1>5, <1>6 DEF d

\* A card leaves its column: the handlers of that card in flight know it, but
\* for the one that moves it, which is done.
LEMMA MoveKeeps ==
  ASSUME Inv, NEW i \in Items, NEW r, Disturbs(i, r),
         r \in Runs => /\ Sound(r, run'[r]) /\ run'[r].pc = "gone"
                       /\ run'[r].overlapped = run[r].overlapped
                       /\ run'[r].disturbed = run[r].disturbed
                       /\ run'[r].item = run[r].item
                       /\ run'[r].attempt = run[r].attempt
                       /\ run'[r].results = run[r].results
                       /\ run'[r].report = run[r].report /\ run'[r].seen = run[r].seen,
         run' = [q \in Runs |-> run'[q]],
         NEW c \in Columns, position' \in {position, [position EXCEPT ![i] = c]},
         moves' \in 0 .. MaxMoves, UNCHANGED <<tracked, stored>>
  PROVE  Inv'
  <1>1. /\ run \in [Runs -> Locals] /\ stored \in [Runs -> Checkpoints]
        /\ position \in [Items -> Columns] /\ tracked \in Seq(Result)
    BY DEF Inv, TypeInv
  <1>2. \A q \in Runs : /\ Sound(q, run'[q])
                        /\ run'[q].pc = IF q = r THEN "gone" ELSE run[q].pc
                        /\ run'[q].overlapped = run[q].overlapped
                        /\ run[q].disturbed => run'[q].disturbed
                        /\ InFlight(q) /\ run[q].item = i /\ q # r => run'[q].disturbed
                        /\ run'[q].item = run[q].item
                        /\ run'[q].attempt = run[q].attempt
                        /\ run'[q].results = run[q].results
                        /\ run'[q].report = run[q].report /\ run'[q].seen = run[q].seen
                        /\ q # r => run'[q].saving = run[q].saving
    <2> TAKE q \in Runs
    <2>1. CASE q = r
      BY <2>1
    <2>2. CASE q # r
      <3>1. q \in Runs \ {r}
        BY <2>2
      <3>2. /\ Sound(q, run'[q])
            /\ run'[q].overlapped = run[q].overlapped
            /\ run'[q].disturbed = (run[q].disturbed \/ (InFlight(q) /\ run[q].item = i))
            /\ run'[q].pc = run[q].pc /\ run'[q].item = run[q].item
            /\ run'[q].attempt = run[q].attempt /\ run'[q].results = run[q].results
            /\ run'[q].report = run[q].report /\ run'[q].seen = run[q].seen
            /\ run'[q].saving = run[q].saving
        BY <3>1, DisturbedSound
      <3>3. QED  BY <2>2, <3>2
    <2>3. QED  BY <2>1, <2>2
  <1>3. TypeInv'
    <2>1. \A q \in Runs : run'[q] \in Locals
      BY <1>2 DEF Sound
    <2>2. run' \in [Runs -> Locals] /\ position' \in [Items -> Columns]
      BY <1>1, <2>1
    <2>3. QED  BY <1>1, <2>2 DEF TypeInv
  <1>4. AllSound'
    <2>1. \A q \in Runs : Sound(q, run'[q])
      BY <1>2
    <2>2. QED  BY <2>1 DEF AllSound, Sound, Bounded, ResultsSoFar, ReportsLast, UnfixedCounted,
                           AllPassed
  <1>5. \A q \in Runs : run'[q].pc \in Waiting => InFlight(q) /\ q # r
    BY <1>2 DEF InFlight, Waiting
  <1>6. Alone'
    <2>1. \A p, q \in Runs : /\ run'[p].pc \in Waiting /\ run'[q].pc \in Waiting /\ p # q
                             => run'[p].overlapped
      BY <1>2, <1>5 DEF Inv, Alone
    <2>2. QED  BY <2>1 DEF Alone, InFlight
  <1>7. TrackedIsOwn'
    <2>1. ASSUME NEW q \in Runs, run'[q].pc \in Waiting, ~run'[q].overlapped
          PROVE  tracked = run'[q].results
      BY <1>2, <1>5, <2>1 DEF Inv, TrackedIsOwn
    <2>2. QED  BY <2>1 DEF TrackedIsOwn, InFlight
  <1>8. CheckpointAges'
    <2>1. ASSUME NEW q \in Runs
          PROVE  /\ stored[q].attempt <= run'[q].attempt
                 /\ run'[q].pc \in {"idle", "backoff"} => stored[q].attempt < run'[q].attempt
      BY <1>2 DEF Inv, CheckpointAges
    <2>2. QED  BY <2>1 DEF CheckpointAges
  <1>9. CheckpointIsOwn'
    <2>1. ASSUME NEW q \in Runs, ~run'[q].overlapped, stored[q].attempt = run'[q].attempt
          PROVE  /\ Len(stored[q].results) <= Len(run'[q].results)
                 /\ stored[q].results = SubSeq(run'[q].results, 1, Len(stored[q].results))
      BY <1>2, <2>1 DEF Inv, CheckpointIsOwn
    <2>2. QED  BY <2>1 DEF CheckpointIsOwn
  <1>10. CardWaitsForReport'
    <2>1. ASSUME NEW q \in Runs, ~run'[q].disturbed
          PROVE  /\ run'[q].pc \in Waiting => position'[run'[q].item] = RepairColumn
                 /\ run'[q].report # "none" => run'[q].seen = RepairColumn
      <3>1. ~run[q].disturbed /\ run[q].item \in Items
        BY <1>1, <1>2, <2>1 DEF Locals
      <3>2. run'[q].report # "none" => run'[q].seen = RepairColumn
        BY <1>2, <3>1 DEF Inv, CardWaitsForReport
      <3>3. ASSUME run'[q].pc \in Waiting
            PROVE  position'[run'[q].item] = RepairColumn
        <4>1. InFlight(q) /\ q # r
          BY <1>5, <3>3
        <4>2. position[run[q].item] = RepairColumn /\ run[q].item # i
          BY <1>2, <2>1, <3>1, <4>1 DEF Inv, CardWaitsForReport
        <4>3. QED  BY <1>1, <1>2, <3>1, <4>2
      <3>4. QED  BY <3>2, <3>3
    <2>2. QED  BY <2>1 DEF CardWaitsForReport, InFlight
  <1>11. SavingIsOwn'
    <2>1. ASSUME NEW q \in Runs, run'[q].pc = "checkpoint", ~run'[q].overlapped
          PROVE  run'[q].saving = run'[q].results
      <3>1. /\ run[q].pc = "checkpoint" /\ ~run[q].overlapped
            /\ run'[q].saving = run[q].saving /\ run'[q].results = run[q].results
        BY <1>2, <2>1
      <3>2. QED  BY <3>1 DEF Inv, SavingIsOwn
    <2>2. QED  BY <2>1 DEF SavingIsOwn
  <1>12. QED
    BY <1>3, <1>4, <1>6, <1>7, <1>8, <1>9, <1>10, <1>11 DEF Inv

\* The orchestrator moves the card it was told of.
LEMMA MoveOnKeeps ==
  ASSUME Inv, NEW r \in Runs, MoveOn(r), UNCHANGED <<tracked, stored, moves>>
  PROVE  Inv'
  <1> DEFINE me == run[r]
             i == me.item
             gone == [me EXCEPT !.pc = "gone"]
  <1>1. /\ me \in Locals /\ Sound(r, me) /\ i \in Items
        /\ position \in [Items -> Columns] /\ moves' \in 0 .. MaxMoves
    BY DEF Inv, TypeInv, AllSound, Locals
  <1>2. me.pc = "move" /\ position' \in {position, [position EXCEPT ![i] = Destination(r)]}
    BY DEF MoveOn
  <1>3. run' = [q \in Runs |-> IF q = r THEN gone
                               ELSE [run[q] EXCEPT !.disturbed =
                                        @ \/ (InFlight(q) /\ run[q].item = i)]]
    BY DEF MoveOn
  <1>4. Destination(r) \in Columns
    <2>1. /\ position[i] \in Columns
          /\ OnFailure[me.seen] # NoColumn => OnFailure[me.seen] \in Columns
      BY <1>1, RepairBounds DEF Locals
    <2>2. CASE me.report = "success" /\ me.seen + 1 \in Columns
      BY <2>2 DEF Destination
    <2>3. CASE me.report = "failure" /\ OnFailure[me.seen] # NoColumn
      BY <2>1, <2>3 DEF Destination
    <2>4. CASE /\ ~(me.report = "success" /\ me.seen + 1 \in Columns)
               /\ ~(me.report = "failure" /\ OnFailure[me.seen] # NoColumn)
      BY <2>1, <2>4 DEF Destination
    <2>5. QED  BY <2>2, <2>3, <2>4
  <1>5. gone \in Locals
    BY <1>1, Zenon DEF Locals
  <1>6. /\ gone.pc = "gone"
        /\ gone.item = me.item /\ gone.attempt = me.attempt /\ gone.report = me.report
        /\ gone.seen = me.seen /\ gone.ci = me.ci
        /\ gone.overlapped = me.overlapped /\ gone.disturbed = me.disturbed
        /\ gone.type = me.type /\ gone.results = me.results
        /\ gone.iteration = me.iteration
        /\ gone.unfixed = me.unfixed /\ gone.transients = me.transients
    BY <1>1 DEF Locals
  <1>7. run'[r] = gone /\ Disturbs(i, r) /\ run' = [q \in Runs |-> run'[q]]
    BY <1>3 DEF Disturbs
  <1> HIDE DEF gone
  <1>8. Bounded(r, gone) /\ ResultsSoFar(r, gone)
    BY <1>1, <1>6 DEF Sound, Bounded, ResultsSoFar, InLoop
  <1>9. ReportsLast(r, gone) /\ UnfixedCounted(gone)
    BY <1>1, <1>2, <1>6 DEF Sound, ReportsLast, UnfixedCounted
  <1>10. Sound(r, gone)
    BY <1>5, <1>8, <1>9 DEF Sound
  <1>11. QED
    BY <1>1, <1>2, <1>4, <1>6, <1>7, <1>10, MoveKeeps

\* A person moves a card.
LEMMA PersonMovesKeeps ==
  ASSUME Inv, NEW i \in Items, NEW c \in Columns, PersonMoves(i, c)
  PROVE  Inv'
  <1> DEFINE nobody == CHOOSE x : x \notin Runs
  <1>1. nobody \notin Runs
    BY NoSetContainsEverything
  <1> HIDE DEF nobody
  <1>2. moves \in 0 .. MaxMoves
    BY DEF Inv, TypeInv
  <1>3. /\ moves' \in 0 .. MaxMoves /\ UNCHANGED <<tracked, stored>>
        /\ position' \in {position, [position EXCEPT ![i] = c]}
    BY <1>2, Bounds DEF PersonMoves
  <1>4. run' = [q \in Runs |->
                   [run[q] EXCEPT !.disturbed = @ \/ (InFlight(q) /\ run[q].item = i)]]
    BY DEF PersonMoves
  <1>5. Disturbs(i, nobody) /\ run' = [q \in Runs |-> run'[q]]
    BY <1>4 DEF Disturbs
  <1>6. QED  BY <1>1, <1>3, <1>5, MoveKeeps

-----------------------------------------------------------------------------
(* The theorems                                                             *)

LEMMA InitInv == Init => Inv
  <1> SUFFICES ASSUME Init PROVE Inv
    OBVIOUS
  <1> DEFINE someone == CHOOSE i \in Items : TRUE
  <1>1. someone \in Items
    BY RepairBounds
  <1> HIDE DEF someone
  <1>2. Idle = [pc |-> "idle", item |-> someone, attempt |-> 1,
                report |-> "none", seen |-> RepairColumn,
                overlapped |-> FALSE, disturbed |-> FALSE,
                type |-> 1, results |-> <<>>, ci |-> "none",
                iteration |-> 1, failing |-> FALSE, passed |-> FALSE, transients |-> 0,
                rebuilds |-> 0, last |-> "none", unfixed |-> 0, saving |-> <<>>]
    BY DEF Idle, someone
  <1>3. /\ 1 \in 1 .. MaxAttempts /\ 0 \in 0 .. MaxTransient /\ 0 \in 0 .. MaxRebuilds
        /\ 0 \in 0 .. MaxAttempts /\ 0 \in 0 .. MaxMoves /\ 0 \in Nat /\ 1 \in Nat
        /\ RepairColumn \in Columns /\ 1 \in Columns
        /\ <<>> \in Seq(Result) /\ Len(<<>>) = 0
    BY Bounds DEF RepairColumn, Columns
  <1>4. Idle \in Locals
    BY <1>1, <1>2, <1>3, Zenon DEF Locals
  <1>5. /\ Idle.pc = "idle" /\ Idle.attempt = 1 /\ Idle.report = "none" /\ Idle.type = 1
        /\ Idle.results = <<>> /\ Idle.iteration = 1 /\ Idle.unfixed = 0 /\ Idle.transients = 0
    BY <1>2
  <1>6. NoCheckpoint \in Checkpoints /\ NoCheckpoint.attempt = 0
    BY <1>3 DEF NoCheckpoint, Checkpoints
  <1>7. TypeInv
    BY <1>3, <1>4, <1>6 DEF Init, TypeInv
  <1>8. \A r \in Runs : run[r] = Idle /\ stored[r] = NoCheckpoint /\ ~InFlight(r)
    BY <1>5 DEF Init, InFlight, Waiting
  <1>9. \A r \in Runs : Sound(r, Idle)
    <2> TAKE r \in Runs
    <2>1. Bounded(r, Idle) /\ ReportsLast(r, Idle) /\ UnfixedCounted(Idle)
      BY <1>5, Bounds DEF Bounded, ReportsLast, UnfixedCounted
    <2>2. ResultsSoFar(r, Idle)
      BY <1>3, <1>5, Bounds DEF ResultsSoFar, AllPassed
    <2>3. QED  BY <1>4, <2>1, <2>2 DEF Sound
  <1>10. AllSound /\ Alone /\ TrackedIsOwn /\ SavingIsOwn
    BY <1>5, <1>8, <1>9 DEF AllSound, Alone, TrackedIsOwn, SavingIsOwn
  <1>11. CheckpointAges /\ CheckpointIsOwn
    BY <1>5, <1>6, <1>8 DEF CheckpointAges, CheckpointIsOwn
  <1>12. CardWaitsForReport
    BY <1>5, <1>8 DEF CardWaitsForReport
  <1>13. QED  BY <1>7, <1>10, <1>11, <1>12 DEF Inv

LEMMA NextInv == Inv /\ [Next]_vars => Inv'
  <1> SUFFICES ASSUME Inv, [Next]_vars PROVE Inv'
    OBVIOUS
  <1>1. ASSUME NEW r \in Runs, Step(r)
        PROVE  Inv'
    <2>1. CASE Redispatch(r)
      BY <2>1, RedispatchKeeps
    <2>2. CASE (Tests(r) \/ Dispatch(r)) /\ UNCHANGED <<stored, position, moves>>
      <3>1. run[r].pc \in InLoop /\ \E x : Goes(r, x)
        BY <2>2, TestsGoes, DispatchGoes
      <3>2. InFlight(r)
        BY <3>1 DEF InFlight, InLoop, Waiting
      <3>3. QED  BY <2>2, <3>1, <3>2, GoesKeeps
    <2>3. CASE SaveCheckpoint(r) /\ UNCHANGED <<position, moves>>
      <3>1. /\ run[r].pc = "checkpoint" /\ Continue(r, run[r])
            /\ stored' \in {stored, [stored EXCEPT ![r] =
                               [attempt |-> run[r].attempt, results |-> run[r].saving]]}
        BY <2>3 DEF SaveCheckpoint
      <3>2. run[r].pc \in InLoop /\ InFlight(r)
        BY <3>1 DEF InFlight, InLoop, Waiting
      <3>3. run[r] \in Locals /\ run[r].unfixed <= run[r].transients
        BY <3>1, <3>2, LoopFacts DEF Sound, UnfixedCounted
      <3>4. Stays(r, run[r])
        BY <3>3 DEF Stays
      <3>5. \E x : Goes(r, x)
        BY <3>1, <3>2, <3>3, <3>4, ContinueGoes
      <3>6. QED  BY <2>3, <3>1, <3>2, <3>5, GoesKeeps
    <2>4. CASE CIAnswers(r) /\ UNCHANGED <<tracked, stored, position, moves>>
      BY <2>4, CIGoes, GoesKeeps
    <2>5. CASE Publish(r) /\ UNCHANGED <<tracked, stored, moves>>
      <3>1. position' = position
        BY <2>5 DEF Publish
      <3>2. QED  BY <2>5, <3>1, PublishGoes, GoesKeeps
    <2>6. CASE MoveOn(r) /\ UNCHANGED <<tracked, stored, moves>>
      BY <2>6, MoveOnKeeps
    <2>7. QED  BY <1>1, <2>1, <2>2, <2>3, <2>4, <2>5, <2>6 DEF Step
  <1>2. ASSUME NEW r \in Runs, NEW i \in Items, Enter(r, i)
        PROVE  Inv'
    BY <1>2, EnterKeeps
  <1>3. ASSUME NEW i \in Items, NEW c \in Columns, PersonMoves(i, c)
        PROVE  Inv'
    BY <1>3, PersonMovesKeeps
  <1>4. CASE UNCHANGED vars
    <2>1. /\ run' = run /\ tracked' = tracked /\ stored' = stored
          /\ position' = position /\ moves' = moves
      BY <1>4 DEF vars
    <2>2. TypeInv' /\ AllSound'
      BY <2>1 DEF Inv, TypeInv, AllSound, Sound, Bounded, ResultsSoFar, ReportsLast,
                  UnfixedCounted, AllPassed
    <2>3. /\ Alone' /\ TrackedIsOwn' /\ SavingIsOwn' /\ CheckpointAges' /\ CheckpointIsOwn'
          /\ CardWaitsForReport'
      BY <2>1 DEF Inv, Alone, TrackedIsOwn, SavingIsOwn, CheckpointAges, CheckpointIsOwn,
                  CardWaitsForReport, InFlight
    <2>4. QED  BY <2>2, <2>3 DEF Inv
  <1>5. QED  BY <1>1, <1>2, <1>3, <1>4 DEF Next

LEMMA Invariance == Spec => []Inv
  BY InitInv, NextInv, PTL DEF Spec

\* What a sound handler says of its locals, as the properties state it.
LEMMA Readings ==
  ASSUME Inv, NEW r \in Runs
  PROVE  /\ run[r] \in Locals /\ Sound(r, run[r])
         /\ DOMAIN run[r].results = 1 .. Len(run[r].results)
         /\ Len(run[r].results) \in Nat
  <1>1. run[r] \in Locals /\ Sound(r, run[r])
    BY DEF Inv, TypeInv, AllSound
  <1>2. run[r].results \in Seq(Result)
    BY <1>1 DEF Locals
  <1>3. QED  BY <1>1, <1>2

\* The locals of every handler, the checkpoints and the board keep their types
\* and the bounds of the loops.
THEOREM TypeCorrect == Spec => []TypeOK
  <1>1. Inv => TypeOK
    <2> SUFFICES ASSUME Inv PROVE TypeOK
      OBVIOUS
    <2>1. /\ stored \in [Runs -> Checkpoints] /\ tracked \in Seq(Result)
          /\ position \in [Items -> Columns] /\ moves \in 0 .. MaxMoves
      BY DEF Inv, TypeInv
    <2>2. \A r \in Runs : stored[r].results \in Seq(Result)
      BY <2>1 DEF Checkpoints
    <2>3. ASSUME NEW r \in Runs
          PROVE  /\ run[r].pc \in Waiting \cup {"idle", "gone"}
                 /\ run[r].item \in Items
                 /\ run[r].attempt \in 1 .. MaxAttempts
                 /\ run[r].type \in 1 .. Types[r]
                 /\ run[r].iteration \in 1 .. MaxIterations[r]
                 /\ run[r].transients \in 0 .. MaxTransient
                 /\ run[r].rebuilds \in 0 .. MaxRebuilds
                 /\ {run[r].failing, run[r].passed} \subseteq BOOLEAN
                 /\ run[r].results \in Seq(Result) /\ Len(run[r].results) <= Types[r]
                 /\ run[r].seen \in Columns
                 /\ run[r].report \in {"none", "success", "failure"}
      <3>1. run[r] \in Locals /\ Bounded(r, run[r]) /\ ResultsSoFar(r, run[r])
        BY Readings DEF Sound
      <3>2. /\ run[r].pc \in Waiting \cup {"idle", "gone"}
            /\ run[r].item \in Items
            /\ run[r].attempt \in 1 .. MaxAttempts
            /\ run[r].transients \in 0 .. MaxTransient
            /\ run[r].rebuilds \in 0 .. MaxRebuilds
            /\ run[r].failing \in BOOLEAN /\ run[r].passed \in BOOLEAN
            /\ run[r].results \in Seq(Result)
            /\ run[r].seen \in Columns
            /\ run[r].report \in {"none", "success", "failure"}
        BY <3>1 DEF Locals
      <3>3. QED  BY <3>1, <3>2 DEF Bounded, ResultsSoFar
    <2>4. QED  BY <2>1, <2>2, <2>3 DEF TypeOK
  <1>2. QED  BY <1>1, Invariance, PTL

\* A type recorded as passed passed in the last run of its tests.
THEOREM LastRunDecides == Spec => []PassIsLastWord
  <1>1. Inv => PassIsLastWord
    BY Readings DEF PassIsLastWord, Sound, ResultsSoFar
  <1>2. QED  BY <1>1, Invariance, PTL

\* A success is reported of all the types, in order, and of the CI checks.
THEOREM SuccessIsComplete == Spec => []SuccessCoversEveryType
  <1>1. Inv => SuccessCoversEveryType
    BY Readings DEF SuccessCoversEveryType, Sound, ResultsSoFar, ReportsLast, AllPassed
  <1>2. QED  BY <1>1, Invariance, PTL

\* Failures are left alone by at most MaxTransient iterations in a row.
THEOREM FailuresAreFixed == Spec => []FailuresGetAFix
  <1>1. Inv => FailuresGetAFix
    <2> SUFFICES ASSUME Inv, NEW r \in Runs PROVE run[r].unfixed <= MaxTransient
      BY DEF FailuresGetAFix
    <2>1. run[r].unfixed \in Nat /\ run[r].transients \in 0 .. MaxTransient
      BY Readings DEF Locals
    <2>2. QED  BY <2>1, Readings, Bounds DEF Sound, UnfixedCounted
  <1>2. QED  BY <1>1, Invariance, PTL

\* The checkpoint of a repair that ran alone holds its own attempt's results.
THEOREM CheckpointsNotMixed == Spec => []CheckpointIsOwn
  <1>1. Inv => CheckpointIsOwn
    BY DEF Inv
  <1>2. QED  BY <1>1, Invariance, PTL

\* An undisturbed card is in the repair column until the report of its cycle.
THEOREM CardWaits == Spec => []CardWaitsForReport
  <1>1. Inv => CardWaitsForReport
    BY DEF Inv
  <1>2. QED  BY <1>1, Invariance, PTL
=============================================================================
