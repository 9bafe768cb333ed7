----------------------------- MODULE ResilientCall -----------------------------
(***************************************************************************)
(* Calls to an external service through the resilience decorators           *)
(* (infrastructure/resilience/decorators.py): a rate limiter, a circuit     *)
(* breaker, and inside it retries of an operation with a timeout.  Limiter  *)
(* and breaker are shared by all calls.  Their locks are never held across  *)
(* an await, so a step ends only where a coroutine sleeps or waits for the  *)
(* service.  Time passes in ticks; ages are kept up to the largest that     *)
(* matters.  The service and the weather it has are external.               *)
(***************************************************************************)
EXTENDS Integers

CONSTANTS Callers,
          FailureThreshold, OpenTime, SuccessThreshold, \* CircuitBreaker
          MaxRequests, Window, MaxWait,                 \* TokenBucketRateLimiter
          MaxRetries,                                   \* ExponentialBackoffRetry
          MarksBusinessErrors  \* the queue decorator answers with a rejection
                               \* where the others raise it through the breaker

ASSUME ResilientCallAssumption ==
    /\ {FailureThreshold, OpenTime, SuccessThreshold, MaxRequests, Window} \subseteq Nat \ {0}
    /\ MaxWait \in Nat /\ MaxRetries \in Nat
    /\ MarksBusinessErrors \in BOOLEAN

VARIABLES breaker, \* state, failure count, success count, age of the last failure
          recent,  \* recent[a]: requests the limiter recorded a ticks ago
          call,    \* call[c]: the call caller c makes or made last
          trouble, \* whether the service may fail
          streak,  \* history: calls that failed since one succeeded
          granted  \* history: granted[a]: calls the limiter let through a ticks ago

vars == <<breaker, recent, call, trouble, streak, granted>>

\* tries: attempts so far; effects: how often the service did what was asked;
\* fresh: no call has failed since this one was admitted.
NoCall == [pc |-> "idle", waited |-> 0, tries |-> 0, effects |-> 0,
           fresh |-> FALSE, answer |-> "none"]

Least(m, n) == IF m < n THEN m ELSE n

\* Sums(counts)[a]: the entries that are at most a ticks old.
Sums(counts) ==
    LET sum[a \in 0 .. Window] == counts[a] + (IF a = 0 THEN 0 ELSE sum[a - 1])
    IN  sum
Total(counts) == Sums(counts)[Window]

Init == /\ breaker = [state |-> "closed", failures |-> 0, successes |-> 0, age |-> OpenTime]
        /\ recent = [a \in 0 .. Window |-> 0]
        /\ call = [c \in Callers |-> NoCall]
        /\ trouble = FALSE
        /\ streak = 0
        /\ granted = [a \in 0 .. Window |-> 0]
-----------------------------------------------------------------------------
(* CircuitBreaker *)

\* _should_attempt_reset; before any failure the age is as good as elapsed.
Ready == breaker.age = OpenTime

\* Mutant: a success does not reset the failure count.
OnSuccessKeeps ==
    breaker' = IF breaker.state = "half_open"
               THEN IF breaker.successes + 1 >= SuccessThreshold
                    THEN [breaker EXCEPT !.state = "closed", !.failures = 0, !.successes = @ + 1]
                    ELSE [breaker EXCEPT !.successes = @ + 1]
               ELSE breaker

\* Mutant: successes while half open are not counted.
OnSuccessUncounted ==
    breaker' = IF breaker.state = "closed" THEN [breaker EXCEPT !.failures = 0] ELSE breaker

\* _on_success
OnSuccess ==
    breaker' =
        CASE breaker.state = "half_open" ->
                IF breaker.successes + 1 >= SuccessThreshold
                THEN [breaker EXCEPT !.state = "closed", !.failures = 0,
                                     !.successes = @ + 1]
                ELSE [breaker EXCEPT !.successes = @ + 1]
          [] breaker.state = "closed" -> [breaker EXCEPT !.failures = 0]
          [] OTHER -> breaker

\* _on_failure; the count beyond the threshold does not matter.
OnFailure ==
    LET failures == Least(breaker.failures + 1, FailureThreshold)
    IN  breaker' = [breaker EXCEPT
            !.age = 0, !.failures = failures,
            !.state = IF @ = "half_open" \/ failures = FailureThreshold THEN "open" ELSE @]
-----------------------------------------------------------------------------
(* The ends of a call *)

Call(c, new) == call' = [call EXCEPT ![c] = new]
Answered(c, answer, effects) == [call[c] EXCEPT !.pc = "idle", !.waited = 0, !.answer = answer,
                                                !.effects = effects, !.fresh = FALSE]

\* The breaker is told of a success, or of a failure.
Good(c, answer, effects) == /\ Call(c, Answered(c, answer, effects))
                            /\ OnSuccess
                            /\ streak' = 0
Bad(c, answer, effects) ==
    /\ call' = [d \in Callers |-> IF d = c THEN Answered(c, answer, effects)
                                  ELSE [call[d] EXCEPT !.fresh = FALSE]]
    /\ OnFailure
    /\ streak' = Least(streak + 1, FailureThreshold)
-----------------------------------------------------------------------------
Begin(c) == /\ call[c].pc = "idle"
            /\ Call(c, [NoCall EXCEPT !.pc = "waiting"])
            /\ UNCHANGED <<breaker, recent, trouble, streak, granted>>

\* A limit of 0, or None, is no limit: the call waits for ever.
TooLong(c) == MaxWait # 0 /\ call[c].waited > MaxWait

\* The limiter lets the call through and records it; the breaker, reached in
\* the same step, refuses it or begins the first attempt.
HasRoom == Total(recent) < MaxRequests
Granted == /\ recent' = [recent EXCEPT ![0] = @ + 1]
           /\ granted' = [granted EXCEPT ![0] = @ + 1]

Admitted(c) == Call(c, [call[c] EXCEPT !.pc = "trying", !.waited = 0, !.tries = 1, !.fresh = TRUE])

\* Mutant: a breaker that lets a call through without leaving "open".
AcquireStaysOpen(c) ==
    /\ call[c].pc = "waiting" /\ ~TooLong(c)
    /\ HasRoom
    /\ Granted
    /\ IF breaker.state = "open" /\ ~Ready THEN Call(c, Answered(c, "open", 0)) ELSE Admitted(c)
    /\ UNCHANGED <<breaker, trouble, streak>>

Acquire(c) ==
    /\ call[c].pc = "waiting" /\ ~TooLong(c)
    /\ HasRoom
    /\ Granted
    /\ \/ /\ breaker.state = "open" /\ ~Ready
          /\ Call(c, Answered(c, "open", 0))
          /\ UNCHANGED breaker
       \/ /\ breaker.state = "open" /\ Ready
          /\ Admitted(c)
          /\ breaker' = [breaker EXCEPT !.state = "half_open", !.successes = 0]
       \/ /\ breaker.state # "open"
          /\ Admitted(c)
          /\ UNCHANGED breaker
    /\ UNCHANGED <<trouble, streak>>

\* The time is looked at before the room.
WaitsTooLong(c) == /\ call[c].pc = "waiting" /\ TooLong(c)
                   /\ Call(c, Answered(c, "limited", 0))
                   /\ UNCHANGED <<breaker, recent, trouble, streak, granted>>

Succeeds(c) == /\ call[c].pc = "trying"
               /\ Good(c, "ok", call[c].effects + 1)
               /\ UNCHANGED <<recent, trouble, granted>>

\* What the service did when no reply came.
Effects(c) == {call[c].effects, call[c].effects + 1}

\* A deterministic error is not retried: bad input, or a retry that meets the
\* effect of the attempt before it (DuplicateQueueEntryError).
Rejects(c) == /\ call[c].pc = "trying"
              /\ trouble \/ call[c].effects > 0
              /\ IF MarksBusinessErrors
                 THEN Good(c, "rejected", call[c].effects)
                 ELSE Bad(c, "rejected", call[c].effects)
              /\ UNCHANGED <<recent, trouble, granted>>

\* Mutant: one retry too many.
FailsOnceMore(c) ==
    /\ call[c].pc = "trying" /\ trouble
    /\ \E effects \in Effects(c) :
         \/ /\ call[c].tries <= MaxRetries + 1
            /\ Call(c, [call[c] EXCEPT !.pc = "backoff", !.effects = effects])
            /\ UNCHANGED <<breaker, streak>>
         \/ call[c].tries > MaxRetries + 1 /\ Bad(c, "exhausted", effects)
    /\ UNCHANGED <<recent, trouble, granted>>

\* Mutant: every failed attempt is a failure of the breaker's.
FailsAtOnce(c) ==
    /\ call[c].pc = "trying" /\ trouble
    /\ \E effects \in Effects(c) : Bad(c, "exhausted", effects)
    /\ UNCHANGED <<recent, trouble, granted>>

\* Mutant: the last failure is not reported to the breaker.
FailsUnnoticed(c) ==
    /\ call[c].pc = "trying" /\ trouble
    /\ \E effects \in Effects(c) :
         IF call[c].tries <= MaxRetries
         THEN Call(c, [call[c] EXCEPT !.pc = "backoff", !.effects = effects]) /\ UNCHANGED streak
         ELSE Call(c, Answered(c, "exhausted", effects)) /\ streak' = Least(streak + 1, FailureThreshold)
    /\ UNCHANGED <<breaker, recent, trouble, granted>>

\* A transient error, after which the effect may be there: retried with a
\* delay, and reported to the breaker once, when no retries are left.
Fails(c) ==
    /\ call[c].pc = "trying" /\ trouble
    /\ \E effects \in Effects(c) :
         \/ /\ call[c].tries <= MaxRetries
            /\ Call(c, [call[c] EXCEPT !.pc = "backoff", !.effects = effects])
            /\ UNCHANGED <<breaker, streak>>
         \/ call[c].tries > MaxRetries /\ Bad(c, "exhausted", effects)
    /\ UNCHANGED <<recent, trouble, granted>>

\* The operation is cancelled; a timeout is not retried.
TimesOut(c) == /\ call[c].pc = "trying" /\ trouble
               /\ \E effects \in Effects(c) : Bad(c, "timeout", effects)
               /\ UNCHANGED <<recent, trouble, granted>>

Wakes(c) == /\ call[c].pc = "backoff"
            /\ Call(c, [call[c] EXCEPT !.pc = "trying", !.tries = @ + 1])
            /\ UNCHANGED <<breaker, recent, trouble, streak, granted>>

\* The caller's task is cancelled: CancelledError passes all handlers, and the
\* breaker hears nothing.
Cancel(c) == /\ call[c].pc # "idle" /\ trouble
             /\ \E effects \in IF call[c].pc = "trying" THEN Effects(c) ELSE {call[c].effects} :
                  Call(c, Answered(c, "cancelled", effects))
             /\ UNCHANGED <<breaker, recent, trouble, streak, granted>>
-----------------------------------------------------------------------------
Older(counts) == [a \in 0 .. Window |-> IF a = 0 THEN 0 ELSE counts[a - 1]]

\* A tick is longer than the second after which a sleeping call looks again.
NobodySleepsOn ==
    HasRoom => \A c \in Callers : call[c].pc = "waiting" => TooLong(c)

\* Mutant: entries are dropped one tick too early.
TickForgets ==
    /\ NobodySleepsOn
    /\ recent' = [a \in 0 .. Window |-> IF a \in {0, Window} THEN 0 ELSE recent[a - 1]]
    /\ granted' = Older(granted)
    /\ breaker' = [breaker EXCEPT !.age = Least(@ + 1, OpenTime)]
    /\ call' = [c \in Callers |-> IF call[c].pc = "waiting"
                                  THEN [call[c] EXCEPT !.waited = Least(@ + 1, MaxWait + 1)]
                                  ELSE call[c]]
    /\ UNCHANGED <<trouble, streak>>

\* A tick passes.  _cleanup_old_entries, which precedes every look at the
\* timestamps, keeps those that are at most a window old.
Tick == /\ NobodySleepsOn
        /\ recent' = Older(recent) /\ granted' = Older(granted)
        /\ breaker' = [breaker EXCEPT !.age = Least(@ + 1, OpenTime)]
        /\ call' = [c \in Callers |-> IF call[c].pc = "waiting"
                                      THEN [call[c] EXCEPT !.waited = Least(@ + 1, MaxWait + 1)]
                                      ELSE call[c]]
        /\ UNCHANGED <<trouble, streak>>

Weather == /\ trouble' = ~trouble
           /\ UNCHANGED <<breaker, recent, call, streak, granted>>
-----------------------------------------------------------------------------
Attempt(c) == Succeeds(c) \/ Rejects(c) \/ Fails(c) \/ TimesOut(c)
Step(c) == Acquire(c) \/ WaitsTooLong(c) \/ Attempt(c) \/ Wakes(c)

Next == \/ \E c \in Callers : Begin(c) \/ Step(c) \/ Cancel(c)
        \/ Tick \/ Weather

Spec == Init /\ [][Next]_vars

\* Timers fire, replies or timeouts come; and callers go on calling, as the
\* polling loops do.
FairSpec == /\ Spec
            /\ WF_vars(Tick)
            /\ \A c \in Callers : WF_vars(Step(c)) /\ WF_vars(Begin(c))
-----------------------------------------------------------------------------
(* Properties *)

States == {"closed", "open", "half_open"}
Answers == {"none", "ok", "open", "limited", "rejected", "exhausted", "timeout", "cancelled"}

\* The state is well formed.
TypeOK ==
    /\ breaker \in [state : States, failures : 0 .. FailureThreshold,
                    successes : 0 .. SuccessThreshold, age : 0 .. OpenTime]
    /\ recent \in [0 .. Window -> Nat] /\ granted \in [0 .. Window -> Nat]
    /\ call \in [Callers -> [pc : {"idle", "waiting", "trying", "backoff"},
                             waited : 0 .. MaxWait + 1, tries : 0 .. MaxRetries + 1,
                             effects : 0 .. MaxRetries + 1, fresh : BOOLEAN, answer : Answers]]
    /\ trouble \in BOOLEAN
    /\ streak \in 0 .. FailureThreshold

\* "CLOSED -> OPEN: After failure_threshold consecutive failures": whatever
\* calls of earlier states still end, a closed breaker has never let that many
\* calls fail in a row.
TripsOnConsecutiveFailures == breaker.state = "closed" => streak < FailureThreshold

\* And it opens for no less: only at that many failures in a row, or on a
\* failure while it tests recovery.
OpensForCause ==
    [][breaker.state # "open" /\ breaker'.state = "open"
         => breaker.state = "half_open" \/ streak' = FailureThreshold]_vars

\* While the circuit is open, no call is under way that was admitted after the
\* last failure: who comes later is refused, or makes the circuit half open.
OpenStopsNewCalls == breaker.state = "open" => \A c \in Callers : ~call[c].fresh

\* The limiter lets at most max_requests calls through in any window.
GrantsInWindow == Total(granted) <= MaxRequests

\* What an answer tells about the service: a refused call did nothing, a
\* successful one did at least once what was asked; a rejection of the first
\* attempt did nothing; and never was there more effect than attempts.
AnswerTellsEffect ==
    \A c \in Callers :
        /\ call[c].effects <= call[c].tries
        /\ call[c].pc = "idle" =>
             CASE call[c].answer \in {"open", "limited"} -> call[c].tries = 0
               [] call[c].answer = "ok" -> call[c].effects >= 1
               [] call[c].answer = "rejected" -> call[c].tries = 1 => call[c].effects = 0
               [] call[c].answer = "exhausted" -> call[c].tries = MaxRetries + 1
               [] OTHER -> TRUE

\* Once the service stays healthy and calls keep coming, the breaker closes.
RecoversWhenHealthy == <>[]~trouble => []<>(breaker.state = "closed")
=============================================================================
