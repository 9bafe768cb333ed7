-------------------------- MODULE ResilientCall_proofs --------------------------
(***************************************************************************)
(* Theorems about ResilientCall, for any number of callers and any          *)
(* thresholds.  The inductive invariant adds to the properties what the     *)
(* breaker's counters mean in each state, and how attempts and effects of   *)
(* a call are related at each place where it can wait.                      *)
(***************************************************************************)
EXTENDS ResilientCall, WellFoundedInduction, TLAPS

BreakerType == [state : States, failures : 0 .. FailureThreshold,
                successes : 0 .. SuccessThreshold, age : 0 .. OpenTime]
Places == {"idle", "waiting", "trying", "backoff"}
Waits  == 0 .. MaxWait + 1
Counts == 0 .. MaxRetries + 1
CallType == [pc : Places, waited : Waits, tries : Counts, effects : Counts,
             fresh : BOOLEAN, answer : Answers]

\* While the circuit is closed the failure count is the length of the streak;
\* while it is half open, recovery is not complete.
CountersAgree ==
    /\ breaker.state = "closed" => breaker.failures = streak /\ streak < FailureThreshold
    /\ breaker.state = "half_open" => breaker.successes < SuccessThreshold

\* Before its first attempt a call had no effect; the attempt under way has had
\* none yet; a call that backs off has a retry left.
Attempts(r) ==
    /\ r.effects <= r.tries
    /\ r.pc = "waiting" => r.tries = 0
    /\ r.pc = "trying" => r.effects < r.tries
    /\ r.pc = "backoff" => r.tries \in 1 .. MaxRetries

Tells(r) ==
    r.pc = "idle" =>
        /\ r.answer \in {"open", "limited"} => r.tries = 0
        /\ r.answer = "ok" => r.effects >= 1
        /\ r.answer = "rejected" => (r.tries = 1 => r.effects = 0)
        /\ r.answer = "exhausted" => r.tries = MaxRetries + 1

CallsAgree == \A c \in Callers : Attempts(call[c]) /\ Tells(call[c])

IInv == TypeOK /\ CountersAgree /\ CallsAgree /\ OpenStopsNewCalls

\* The thresholds, one by one.
LEMMA Thresholds ==
    /\ FailureThreshold \in Nat /\ FailureThreshold >= 1
    /\ SuccessThreshold \in Nat /\ SuccessThreshold >= 1
    /\ OpenTime \in Nat /\ OpenTime >= 1
    /\ Window \in Nat /\ Window >= 1
    /\ MaxWait \in Nat /\ MaxRetries \in Nat
BY ResilientCallAssumption

-----------------------------------------------------------------------------
(* The limiter *)

\* The log of the limiter is the history of what it let through, and within
\* its limit.
LogKept == granted = recent /\ Total(recent) <= MaxRequests

\* A set of numbers has a first.
LEMMA FirstOf ==
    ASSUME NEW S \in SUBSET Nat, S # {}
    PROVE  \E n \in S : \A m \in S : n <= m
<1>1. PICK n \in S : \A m \in S : <<m, n>> \notin OpToRel(<, Nat)
  BY WFMin, NatLessThanWellFounded, Zenon
<1>2. \A m \in S : ~ (m < n)
  BY <1>1, Zenon DEF OpToRel
<1>3. \A m, k \in Nat : ~ (m < k) => k <= m
  OBVIOUS
<1> QED BY <1>2, <1>3

\* What holds of 0 and, with any number below n, of the next, holds up to n:
\* there is no first number where it fails.
LEMMA UpTo ==
    ASSUME NEW n \in Nat, NEW S, 0 \in S,
           \A a \in 0 .. n : a \in S /\ a # n => a + 1 \in S
    PROVE  0 .. n \subseteq S
<1> DEFINE T == {a \in 0 .. n : a \notin S}
<1> SUFFICES ASSUME T # {} PROVE FALSE
  OBVIOUS
<1>1. T \in SUBSET Nat
  OBVIOUS
<1>2. PICK k \in T : \A m \in T : k <= m
  BY <1>1, FirstOf
<1>3. k \in 0 .. n /\ k # 0
  BY <1>2
<1>4. k - 1 \in 0 .. n /\ k - 1 # n /\ k - 1 + 1 = k
  BY <1>3
<1>5. k - 1 \in S
  BY <1>2, <1>3, <1>4
<1> QED BY <1>2, <1>4, <1>5

\* The sums are what their definition says: values up to one age extend to the
\* next, so there are values for all the ages of a window.
LEMMA SumsAre ==
    ASSUME NEW counts \in [0 .. Window -> Nat]
    PROVE  /\ Sums(counts) \in [0 .. Window -> Nat]
           /\ Sums(counts)[0] = counts[0]
           /\ \A a \in 0 .. Window :
                 a # 0 => Sums(counts)[a] = counts[a] + Sums(counts)[a - 1]
<1> USE Thresholds
<1> DEFINE Value(g, a) == counts[a] + (IF a = 0 THEN 0 ELSE g[a - 1])
           Summed(n) == \E g \in [0 .. Window -> Nat] : \A a \in 0 .. n : g[a] = Value(g, a)
           S == {n \in 0 .. Window : Summed(n)}
<1>1. 0 \in S
  <2>1. \A a \in 0 .. 0 : counts[a] = Value(counts, a)
    OBVIOUS
  <2>2. Summed(0)
    BY <2>1
  <2> QED BY <2>2
<1>2. ASSUME NEW n \in 0 .. Window, n \in S, n # Window PROVE n + 1 \in S
  <2>1. PICK g \in [0 .. Window -> Nat] : \A a \in 0 .. n : g[a] = Value(g, a)
    BY <1>2
  <2> DEFINE h == [g EXCEPT ![n + 1] = counts[n + 1] + g[n]]
  <2>2. n + 1 \in 0 .. Window /\ n \in Nat /\ counts[n + 1] + g[n] \in Nat
    BY <1>2
  <2>3. h \in [0 .. Window -> Nat]
    BY <2>2
  <2>4. h[n + 1] = counts[n + 1] + g[n] /\ \A a \in 0 .. n : h[a] = g[a]
    BY <2>2
  <2> HIDE DEF h
  <2>5. \A a \in 0 .. n + 1 : h[a] = Value(h, a)
    <3> TAKE a \in 0 .. n + 1
    <3>1. CASE a = n + 1
      <4>1. h[n] = g[n] /\ n + 1 # 0 /\ (n + 1) - 1 = n
        BY <2>2, <2>4
      <4> QED BY <2>4, <3>1, <4>1
    <3>2. CASE a # n + 1
      <4>1. a \in 0 .. n
        BY <2>2, <3>2
      <4>2. CASE a = 0
        BY <2>1, <2>4, <4>1, <4>2
      <4>3. CASE a # 0
        <5>1. a - 1 \in 0 .. n
          BY <2>2, <4>1, <4>3
        <5> QED BY <2>1, <2>4, <4>1, <4>3, <5>1
      <4> QED BY <4>2, <4>3
    <3> QED BY <3>1, <3>2
  <2>6. Summed(n + 1)
    BY <2>3, <2>5
  <2> QED BY <2>2, <2>6
<1>3. Window \in S
  <2> HIDE DEF S
  <2>1. 0 .. Window \subseteq S
    BY <1>1, <1>2, UpTo
  <2> QED BY <2>1
<1>4. PICK g \in [0 .. Window -> Nat] : \A a \in 0 .. Window : g[a] = Value(g, a)
  BY <1>3
<1>5. g = [a \in 0 .. Window |-> Value(g, a)]
  BY <1>4
<1>6. \E f : f = [a \in 0 .. Window |-> counts[a] + (IF a = 0 THEN 0 ELSE f[a - 1])]
  BY <1>5
<1> DEFINE sum == Sums(counts)
<1>7. sum = [a \in 0 .. Window |-> counts[a] + (IF a = 0 THEN 0 ELSE sum[a - 1])]
  <2>1. sum = CHOOSE f : f = [a \in 0 .. Window |-> counts[a] + (IF a = 0 THEN 0 ELSE f[a - 1])]
    BY DEF Sums
  <2> HIDE DEF sum
  <2> QED BY <1>6, <2>1, Zenon
<1> HIDE DEF sum
<1>8. /\ sum[0] = counts[0]
      /\ \A a \in 0 .. Window : a # 0 => sum[a] = counts[a] + sum[a - 1]
  BY <1>7
<1>9. 0 .. Window \subseteq {a \in 0 .. Window : sum[a] \in Nat}
  <2> DEFINE N == {a \in 0 .. Window : sum[a] \in Nat}
  <2>1. 0 \in N
    BY <1>8
  <2>2. ASSUME NEW a \in 0 .. Window, a \in N, a # Window PROVE a + 1 \in N
    <3>1. a + 1 \in 0 .. Window /\ a + 1 # 0 /\ (a + 1) - 1 = a
      BY <2>2
    <3>2. sum[a + 1] = counts[a + 1] + sum[a]
      BY <1>8, <3>1
    <3> QED BY <2>2, <3>1, <3>2
  <2> HIDE DEF N
  <2>3. 0 .. Window \subseteq N
    BY <2>1, <2>2, UpTo
  <2> QED BY <2>3 DEF N
<1>10. sum \in [0 .. Window -> Nat]
  BY <1>7, <1>9
<1> QED BY <1>8, <1>10 DEF sum

\* A call more in the log is one more in the total.
LEMMA OneMore ==
    ASSUME NEW counts \in [0 .. Window -> Nat]
    PROVE  Total([counts EXCEPT ![0] = @ + 1]) = Total(counts) + 1
<1> USE Thresholds
<1> DEFINE more == [counts EXCEPT ![0] = @ + 1]
           old  == Sums(counts)
           new  == Sums(more)
           S == {a \in 0 .. Window : new[a] = old[a] + 1}
<1>1. more \in [0 .. Window -> Nat] /\ more[0] = counts[0] + 1
      /\ \A a \in 0 .. Window : a # 0 => more[a] = counts[a]
  OBVIOUS
<1> HIDE DEF more
<1>2. /\ old \in [0 .. Window -> Nat] /\ old[0] = counts[0]
      /\ \A a \in 0 .. Window : a # 0 => old[a] = counts[a] + old[a - 1]
  BY SumsAre
<1>3. /\ new \in [0 .. Window -> Nat] /\ new[0] = more[0]
      /\ \A a \in 0 .. Window : a # 0 => new[a] = more[a] + new[a - 1]
  BY <1>1, SumsAre
<1> HIDE DEF old, new
<1>4. 0 \in S
  BY <1>1, <1>2, <1>3
<1>5. ASSUME NEW a \in 0 .. Window, a \in S, a # Window PROVE a + 1 \in S
  <2>1. a + 1 \in 0 .. Window /\ a + 1 # 0 /\ (a + 1) - 1 = a
    BY <1>5
  <2>2. old[a + 1] = counts[a + 1] + old[a] /\ new[a + 1] = counts[a + 1] + new[a]
    BY <1>1, <1>2, <1>3, <2>1
  <2>3. counts[a + 1] \in Nat /\ old[a] \in Nat /\ new[a] = old[a] + 1
    BY <1>2, <1>5, <2>1
  <2> QED BY <2>1, <2>2, <2>3
<1> HIDE DEF S
<1>6. 0 .. Window \subseteq S
  BY <1>4, <1>5, UpTo
<1>7. new[Window] = old[Window] + 1
  BY <1>6 DEF S
<1> QED BY <1>7 DEF Total, old, new, more

\* A tick later there are as many or fewer: the oldest are forgotten.
LEMMA NoMoreLater ==
    ASSUME NEW counts \in [0 .. Window -> Nat]
    PROVE  Total(Older(counts)) <= Total(counts)
<1> USE Thresholds
<1> DEFINE later == Older(counts)
           old == Sums(counts)
           new == Sums(later)
           S == {a \in 0 .. Window : a # 0 => new[a] = old[a - 1]}
<1>1. /\ later \in [0 .. Window -> Nat] /\ later[0] = 0
      /\ \A a \in 0 .. Window : a # 0 => later[a] = counts[a - 1]
  <2>1. \A a \in 0 .. Window : a # 0 => counts[a - 1] \in Nat
    OBVIOUS
  <2> QED BY <2>1 DEF Older
<1> HIDE DEF later
<1>2. /\ old \in [0 .. Window -> Nat] /\ old[0] = counts[0]
      /\ \A a \in 0 .. Window : a # 0 => old[a] = counts[a] + old[a - 1]
  BY SumsAre
<1>3. /\ new \in [0 .. Window -> Nat] /\ new[0] = later[0]
      /\ \A a \in 0 .. Window : a # 0 => new[a] = later[a] + new[a - 1]
  BY <1>1, SumsAre
<1> HIDE DEF old, new
<1>4. 0 \in S
  OBVIOUS
<1>5. ASSUME NEW a \in 0 .. Window, a \in S, a # Window PROVE a + 1 \in S
  <2>1. a + 1 \in 0 .. Window /\ a + 1 # 0 /\ (a + 1) - 1 = a
    BY <1>5
  <2>2. new[a + 1] = counts[a] + new[a]
    BY <1>1, <1>3, <2>1
  <2>3. counts[a] \in Nat /\ new[a] \in Nat
    BY <1>3
  <2>4. CASE a = 0
    BY <1>1, <1>2, <1>3, <2>1, <2>2, <2>3, <2>4
  <2>5. CASE a # 0
    <3>1. new[a] = old[a - 1] /\ old[a] = counts[a] + old[a - 1]
      BY <1>2, <1>5, <2>5
    <3> QED BY <2>1, <2>2, <3>1
  <2> QED BY <2>4, <2>5
<1> HIDE DEF S
<1>6. 0 .. Window \subseteq S
  BY <1>4, <1>5, UpTo
<1>7. new[Window] = old[Window - 1]
  BY <1>6 DEF S
<1>8. old[Window] = counts[Window] + old[Window - 1] /\ counts[Window] \in Nat
      /\ old[Window - 1] \in Nat
  BY <1>2
<1>9. new[Window] <= old[Window]
  BY <1>7, <1>8
<1> QED BY <1>9 DEF Total, old, new, later

\* Nothing was let through yet.
LEMMA NoneYet == Total([a \in 0 .. Window |-> 0]) = 0
<1> USE Thresholds
<1> DEFINE none == [a \in 0 .. Window |-> 0]
           sum == Sums(none)
           S == {a \in 0 .. Window : sum[a] = 0}
<1>1. none \in [0 .. Window -> Nat] /\ \A a \in 0 .. Window : none[a] = 0
  OBVIOUS
<1> HIDE DEF none
<1>2. /\ sum[0] = 0
      /\ \A a \in 0 .. Window : a # 0 => sum[a] = none[a] + sum[a - 1]
  BY <1>1, SumsAre
<1> HIDE DEF sum
<1>3. 0 \in S
  BY <1>2
<1>4. ASSUME NEW a \in 0 .. Window, a \in S, a # Window PROVE a + 1 \in S
  <2>1. a + 1 \in 0 .. Window /\ a + 1 # 0 /\ (a + 1) - 1 = a
    BY <1>4
  <2> QED BY <1>1, <1>2, <1>4, <2>1
<1> HIDE DEF S
<1>5. 0 .. Window \subseteq S
  BY <1>3, <1>4, UpTo
<1>6. sum[Window] = 0
  BY <1>5 DEF S
<1> QED BY <1>6 DEF Total, sum, none

-----------------------------------------------------------------------------
(* The breaker *)

\* A success keeps the breaker's counters meaningful and never opens it.
LEMMA OnSuccessKeepsCounters ==
    ASSUME IInv, OnSuccess, streak' = 0
    PROVE  /\ breaker' \in BreakerType
           /\ CountersAgree'
           /\ breaker'.state = "open" => breaker.state = "open"
<1> USE Thresholds
<1>1. breaker \in BreakerType
  BY DEF IInv, TypeOK, BreakerType
<1>2. CASE breaker.state = "half_open"
  <2>1. breaker.successes < SuccessThreshold
    BY <1>2 DEF IInv, CountersAgree
  <2>2. CASE breaker.successes + 1 >= SuccessThreshold
    <3>1. breaker' = [breaker EXCEPT !.state = "closed", !.failures = 0, !.successes = @ + 1]
      BY <1>2, <2>2 DEF OnSuccess
    <3>2. breaker' = [state |-> "closed", failures |-> 0,
                      successes |-> breaker.successes + 1, age |-> breaker.age]
      BY <1>1, <3>1 DEF BreakerType
    <3>3. breaker.successes + 1 \in 0 .. SuccessThreshold
      BY <1>1, <2>1 DEF BreakerType
    <3> QED BY <1>1, <3>2, <3>3 DEF BreakerType, CountersAgree, States
  <2>3. CASE ~(breaker.successes + 1 >= SuccessThreshold)
    <3>1. breaker' = [breaker EXCEPT !.successes = @ + 1]
      BY <1>2, <2>3 DEF OnSuccess
    <3> QED BY <1>1, <1>2, <2>1, <2>3, <3>1 DEF BreakerType, CountersAgree, States
  <2> QED BY <2>2, <2>3
<1>3. CASE breaker.state = "closed"
  <2>1. breaker' = [breaker EXCEPT !.failures = 0]
    BY <1>3 DEF OnSuccess
  <2> QED BY <1>1, <1>3, <2>1 DEF BreakerType, CountersAgree, States
<1>4. CASE breaker.state = "open"
  <2>1. breaker' = breaker
    BY <1>4 DEF OnSuccess
  <2> QED BY <1>1, <1>4, <2>1 DEF BreakerType, CountersAgree
<1> QED BY <1>1, <1>2, <1>3, <1>4 DEF BreakerType, States

\* A failure keeps them meaningful too, and closes nothing; it opens a closed
\* circuit only when the streak is complete.
LEMMA OnFailureKeepsCounters ==
    ASSUME IInv, OnFailure, streak' = Least(streak + 1, FailureThreshold)
    PROVE  /\ breaker' \in BreakerType
           /\ streak' \in 0 .. FailureThreshold
           /\ CountersAgree'
           /\ breaker.state = "closed" /\ breaker'.state = "open" => streak' = FailureThreshold
<1> USE Thresholds
<1> DEFINE failures == Least(breaker.failures + 1, FailureThreshold)
<1>1. breaker \in BreakerType /\ streak \in 0 .. FailureThreshold
  BY DEF IInv, TypeOK, BreakerType
<1>2. failures \in 0 .. FailureThreshold /\ streak' \in 0 .. FailureThreshold
  BY <1>1 DEF Least, BreakerType
<1>3. breaker' = [breaker EXCEPT
            !.age = 0, !.failures = failures,
            !.state = IF @ = "half_open" \/ failures = FailureThreshold THEN "open" ELSE @]
  BY DEF OnFailure
<1>4. breaker' \in BreakerType
  <2> DEFINE state == IF breaker.state = "half_open" \/ failures = FailureThreshold
                      THEN "open" ELSE breaker.state
  <2>1. state \in States
    BY <1>1 DEF BreakerType, States
  <2>2. breaker' = [state |-> state, failures |-> failures,
                    successes |-> breaker.successes, age |-> 0]
    BY <1>1, <1>3 DEF BreakerType
  <2> HIDE DEF failures, state
  <2> QED BY <1>1, <1>2, <2>1, <2>2 DEF BreakerType
<1>5. /\ breaker'.failures = failures
      /\ breaker'.state = IF breaker.state = "half_open" \/ failures = FailureThreshold
                          THEN "open" ELSE breaker.state
  BY <1>1, <1>3 DEF BreakerType
<1>6. breaker.state = "closed" => failures = streak'
  BY <1>1 DEF IInv, CountersAgree, Least
<1>7. CountersAgree'
  BY <1>2, <1>5, <1>6 DEF CountersAgree
<1> QED BY <1>2, <1>4, <1>5, <1>6, <1>7

-----------------------------------------------------------------------------
(* The call of one caller *)

\* What a call looks like once it is answered.
LEMMA AnsweredRecord ==
    ASSUME IInv, NEW c \in Callers, NEW answer \in Answers, NEW effects \in Nat,
           effects <= call[c].tries
    PROVE  /\ Answered(c, answer, effects) =
                  [pc |-> "idle", waited |-> 0, tries |-> call[c].tries, effects |-> effects,
                   fresh |-> FALSE, answer |-> answer]
           /\ Answered(c, answer, effects) \in CallType
           /\ Attempts(Answered(c, answer, effects))
<1> USE Thresholds
<1>1. call[c] \in CallType
  BY DEF IInv, TypeOK, CallType, Places, Waits, Counts
<1>2. Answered(c, answer, effects) =
          [pc |-> "idle", waited |-> 0, tries |-> call[c].tries, effects |-> effects,
           fresh |-> FALSE, answer |-> answer]
  <2> DEFINE r == call[c]
  <2>1. r = [pc |-> r.pc, waited |-> r.waited, tries |-> r.tries,
             effects |-> r.effects, fresh |-> r.fresh, answer |-> r.answer]
    BY <1>1 DEF CallType, Places, Waits, Counts
  <2>2. Answered(c, answer, effects) =
            [r EXCEPT !.pc = "idle", !.waited = 0, !.answer = answer,
                      !.effects = effects, !.fresh = FALSE]
    BY DEF Answered
  <2> HIDE DEF r
  <2>3. Answered(c, answer, effects) =
            [pc |-> "idle", waited |-> 0, tries |-> r.tries, effects |-> effects,
             fresh |-> FALSE, answer |-> answer]
    BY <2>1, <2>2
  <2> QED BY <2>3 DEF r
<1>3. effects \in 0 .. MaxRetries + 1
  BY <1>1 DEF CallType, Places, Waits, Counts
<1> QED BY <1>1, <1>2, <1>3 DEF CallType, Places, Waits, Counts, Attempts

\* A step that replaces one call and leaves the breaker, or half opens it.
LEMMA OneCall ==
    ASSUME IInv, NEW c \in Callers, NEW new \in CallType, Attempts(new), Tells(new),
           Call(c, new),
           new.fresh => breaker'.state # "open" \/ call[c].fresh,
           breaker'.state = "open" => breaker.state = "open"
    PROVE  /\ call' \in [Callers -> CallType]
           /\ CallsAgree'
           /\ OpenStopsNewCalls'
<1>1. call \in [Callers -> CallType]
  BY DEF IInv, TypeOK, CallType, Places, Waits, Counts
<1>2. call' = [call EXCEPT ![c] = new]
  BY DEF Call
<1>3. \A d \in Callers : call'[d] = IF d = c THEN new ELSE call[d]
  BY <1>1, <1>2
<1>4. CallsAgree'
  <2> SUFFICES ASSUME NEW d \in Callers
               PROVE  Attempts(call'[d]) /\ Tells(call'[d])
    BY DEF CallsAgree
  <2>1. Attempts(call[d]) /\ Tells(call[d])
    BY DEF IInv, CallsAgree
  <2> QED BY <1>3, <2>1
<1>5. OpenStopsNewCalls'
  BY <1>3 DEF IInv, OpenStopsNewCalls
<1> QED BY <1>1, <1>2, <1>4, <1>5

\* The parts of the invariant make up the invariant.
LEMMA Assembled ==
    ASSUME breaker' \in BreakerType, recent' \in [0 .. Window -> Nat],
           granted' \in [0 .. Window -> Nat], call' \in [Callers -> CallType],
           trouble' \in BOOLEAN, streak' \in 0 .. FailureThreshold,
           CountersAgree', CallsAgree', OpenStopsNewCalls'
    PROVE  IInv'
BY DEF IInv, TypeOK, BreakerType, CallType, Places, Waits, Counts

\* A step of one caller that tells the breaker nothing.
LEMMA Quiet ==
    ASSUME IInv, NEW c \in Callers, NEW new \in CallType, Attempts(new), Tells(new),
           Call(c, new), new.fresh => call[c].fresh,
           UNCHANGED <<breaker, trouble, streak>>,
           recent' \in [0 .. Window -> Nat], granted' \in [0 .. Window -> Nat]
    PROVE  IInv'
<1>1. /\ call' \in [Callers -> CallType]
      /\ CallsAgree'
      /\ OpenStopsNewCalls'
  BY OneCall
<1>2. CountersAgree'
  BY DEF IInv, CountersAgree
<1>3. /\ breaker' \in BreakerType
      /\ trouble' \in BOOLEAN
      /\ streak' \in 0 .. FailureThreshold
  BY DEF IInv, TypeOK, BreakerType
<1> QED BY <1>1, <1>2, <1>3, Assembled

\* A call that ends well for the breaker.
LEMMA GoodEnd ==
    ASSUME IInv, NEW c \in Callers, NEW answer \in Answers, NEW effects \in Nat,
           effects <= call[c].tries, Tells(Answered(c, answer, effects)),
           Good(c, answer, effects), UNCHANGED <<recent, trouble, granted>>
    PROVE  IInv'
<1> DEFINE new == Answered(c, answer, effects)
<1>1. new \in CallType /\ Attempts(new) /\ ~new.fresh
  BY AnsweredRecord
<1>2. OnSuccess /\ streak' = 0 /\ Call(c, new)
  BY DEF Good
<1>3. /\ breaker' \in BreakerType
      /\ CountersAgree'
      /\ breaker'.state = "open" => breaker.state = "open"
  BY <1>2, OnSuccessKeepsCounters
<1> HIDE DEF new
<1>4. /\ call' \in [Callers -> CallType]
      /\ CallsAgree'
      /\ OpenStopsNewCalls'
  BY <1>1, <1>2, <1>3, OneCall DEF new
<1>5. /\ streak' \in 0 .. FailureThreshold
      /\ trouble' \in BOOLEAN
      /\ recent' \in [0 .. Window -> Nat]
      /\ granted' \in [0 .. Window -> Nat]
  BY <1>2, Thresholds DEF IInv, TypeOK
<1> QED BY <1>3, <1>4, <1>5, Assembled

\* A call that ends badly for the breaker: nobody is fresh after it.
LEMMA BadEnd ==
    ASSUME IInv, NEW c \in Callers, NEW answer \in Answers, NEW effects \in Nat,
           effects <= call[c].tries, Tells(Answered(c, answer, effects)),
           Bad(c, answer, effects), UNCHANGED <<recent, trouble, granted>>
    PROVE  IInv'
<1> DEFINE new == Answered(c, answer, effects)
<1>1. new \in CallType /\ Attempts(new) /\ ~new.fresh
  BY AnsweredRecord
<1>2. /\ OnFailure /\ streak' = Least(streak + 1, FailureThreshold)
      /\ call' = [d \in Callers |-> IF d = c THEN new ELSE [call[d] EXCEPT !.fresh = FALSE]]
  BY DEF Bad
<1>3. /\ breaker' \in BreakerType
      /\ streak' \in 0 .. FailureThreshold
      /\ CountersAgree'
  BY <1>2, OnFailureKeepsCounters
<1> HIDE DEF new
<1>4. ASSUME NEW d \in Callers
      PROVE  /\ call'[d] \in CallType
             /\ Attempts(call'[d]) /\ Tells(call'[d])
             /\ ~call'[d].fresh
  <2>1. CASE d = c
    BY <1>1, <1>2, <2>1 DEF new
  <2>2. CASE d # c
    <3>1. call[d] \in CallType
      BY DEF IInv, TypeOK, CallType, Places, Waits, Counts
    <3>2. Attempts(call[d]) /\ Tells(call[d])
      BY DEF IInv, CallsAgree
    <3>3. call'[d] = [pc |-> call[d].pc, waited |-> call[d].waited, tries |-> call[d].tries,
                      effects |-> call[d].effects, fresh |-> FALSE, answer |-> call[d].answer]
      BY <1>2, <2>2, <3>1 DEF CallType, Places, Waits, Counts
    <3> QED BY <3>1, <3>2, <3>3 DEF CallType, Places, Waits, Counts, Attempts, Tells
  <2> QED BY <2>1, <2>2
<1>5. call' \in [Callers -> CallType]
  BY <1>2, <1>4
<1>6. CallsAgree' /\ OpenStopsNewCalls'
  BY <1>4 DEF CallsAgree, OpenStopsNewCalls
<1>7. /\ trouble' \in BOOLEAN
      /\ recent' \in [0 .. Window -> Nat]
      /\ granted' \in [0 .. Window -> Nat]
  BY DEF IInv, TypeOK
<1> QED BY <1>3, <1>5, <1>6, <1>7, Assembled

-----------------------------------------------------------------------------
(* One lemma per action *)

\* The pieces of the invariant that the actions of a caller use.
LEMMA CallFacts ==
    ASSUME IInv, NEW c \in Callers
    PROVE  /\ call[c] \in CallType
           /\ Attempts(call[c])
           /\ Tells(call[c])
           /\ recent \in [0 .. Window -> Nat]
           /\ granted \in [0 .. Window -> Nat]
BY DEF IInv, TypeOK, CallType, Places, Waits, Counts, CallsAgree

\* A call is the record of its fields.
LEMMA CallRecord ==
    ASSUME NEW r \in CallType
    PROVE  r = [pc |-> r.pc, waited |-> r.waited, tries |-> r.tries,
                effects |-> r.effects, fresh |-> r.fresh, answer |-> r.answer]
BY DEF CallType, Places, Waits, Counts

LEMMA BeginStep == ASSUME IInv, NEW c \in Callers, Begin(c) PROVE IInv'
<1> DEFINE new == [NoCall EXCEPT !.pc = "waiting"]
<1>1. /\ NoCall \in CallType
      /\ NoCall.tries = 0 /\ NoCall.effects = 0 /\ ~NoCall.fresh
  BY Thresholds DEF CallType, Places, Waits, Counts, NoCall, Answers
<1>2. new \in CallType /\ Attempts(new) /\ Tells(new) /\ ~new.fresh
  <2> DEFINE r == NoCall
  <2>1. r = [pc |-> r.pc, waited |-> r.waited, tries |-> r.tries,
             effects |-> r.effects, fresh |-> r.fresh, answer |-> r.answer]
    BY <1>1, CallRecord
  <2> HIDE DEF r
  <2>2. [r EXCEPT !.pc = "waiting"] =
            [pc |-> "waiting", waited |-> r.waited, tries |-> r.tries,
             effects |-> r.effects, fresh |-> r.fresh, answer |-> r.answer]
    BY <2>1
  <2> QED BY <1>1, <2>2, Thresholds DEF r, CallType, Places, Waits, Counts, Attempts, Tells
<1>3. Call(c, new) /\ UNCHANGED <<breaker, recent, trouble, streak, granted>>
  BY DEF Begin
<1> HIDE DEF new
<1> QED BY <1>2, <1>3, CallFacts, Quiet

\* An answer that comes without the breaker hearing of it.
LEMMA SilentEnd ==
    ASSUME IInv, NEW c \in Callers, NEW answer \in Answers, NEW effects \in Nat,
           effects <= call[c].tries, Tells(Answered(c, answer, effects)),
           Call(c, Answered(c, answer, effects)),
           UNCHANGED <<breaker, trouble, streak>>,
           recent' \in [0 .. Window -> Nat], granted' \in [0 .. Window -> Nat]
    PROVE  IInv'
<1> DEFINE new == Answered(c, answer, effects)
<1>1. new \in CallType /\ Attempts(new) /\ ~new.fresh
  BY AnsweredRecord
<1> HIDE DEF new
<1> QED BY <1>1, Quiet DEF new

LEMMA WaitsTooLongStep == ASSUME IInv, NEW c \in Callers, WaitsTooLong(c) PROVE IInv'
<1>1. call[c] \in CallType /\ call[c].tries = 0
  BY CallFacts DEF WaitsTooLong, Attempts
<1>2. "limited" \in Answers
  BY DEF Answers
<1>3. Tells(Answered(c, "limited", 0))
  BY <1>1, <1>2, AnsweredRecord DEF Tells
<1>4. /\ Call(c, Answered(c, "limited", 0))
      /\ UNCHANGED <<breaker, recent, trouble, streak, granted>>
  BY DEF WaitsTooLong
<1> QED BY <1>1, <1>2, <1>3, <1>4, CallFacts, SilentEnd

LEMMA AcquireStep == ASSUME IInv, NEW c \in Callers, Acquire(c) PROVE IInv'
<1> USE Thresholds
<1>1. /\ call[c] \in CallType /\ call[c].tries = 0 /\ call[c].effects = 0
  BY CallFacts DEF Acquire, Attempts, CallType, Places, Waits, Counts
<1>2. recent' \in [0 .. Window -> Nat] /\ granted' \in [0 .. Window -> Nat]
  BY CallFacts DEF Acquire, Granted
<1>3. UNCHANGED <<trouble, streak>>
  BY DEF Acquire
<1> DEFINE new == [call[c] EXCEPT !.pc = "trying", !.waited = 0, !.tries = 1, !.fresh = TRUE]
<1>4. new \in CallType /\ Attempts(new) /\ Tells(new)
  <2>1. 0 \in Waits /\ 1 \in Counts /\ "trying" \in Places
    BY DEF Waits, Counts, Places
  <2>2. new \in CallType
    BY <1>1, <2>1 DEF CallType
  <2>3. new.pc = "trying" /\ new.tries = 1 /\ new.effects = 0
    BY <1>1 DEF CallType
  <2> HIDE DEF new
  <2> QED BY <2>2, <2>3 DEF Attempts, Tells
<1>5. CASE breaker.state = "open" /\ ~Ready
  <2>1. Call(c, Answered(c, "open", 0)) /\ UNCHANGED breaker
    BY <1>5 DEF Acquire
  <2>2. "open" \in Answers
    BY DEF Answers
  <2>3. Tells(Answered(c, "open", 0))
    BY <1>1, <2>2, AnsweredRecord DEF Tells
  <2> QED BY <1>1, <1>2, <1>3, <2>1, <2>2, <2>3, SilentEnd
<1>6. CASE breaker.state = "open" /\ Ready
  <2>1. /\ Call(c, new)
        /\ breaker' = [breaker EXCEPT !.state = "half_open", !.successes = 0]
    BY <1>6 DEF Acquire, Admitted
  <2>2. breaker \in BreakerType
    BY DEF IInv, TypeOK, BreakerType
  <2>3. breaker' \in BreakerType /\ breaker'.state = "half_open" /\ breaker'.successes = 0
    <3>1. breaker' = [state |-> "half_open", failures |-> breaker.failures,
                      successes |-> 0, age |-> breaker.age]
      BY <2>1, <2>2 DEF BreakerType
    <3> QED BY <2>2, <3>1 DEF BreakerType, States
  <2>4. CountersAgree'
    BY <2>3 DEF CountersAgree
  <2> HIDE DEF new
  <2>5. /\ call' \in [Callers -> CallType]
        /\ CallsAgree'
        /\ OpenStopsNewCalls'
    BY <1>4, <1>6, <2>1, <2>3, OneCall
  <2>6. trouble' \in BOOLEAN /\ streak' \in 0 .. FailureThreshold
    BY <1>3 DEF IInv, TypeOK
  <2> QED BY <1>2, <2>3, <2>4, <2>5, <2>6, Assembled
<1>7. CASE breaker.state # "open"
  <2>1. Call(c, new) /\ UNCHANGED breaker
    BY <1>7 DEF Acquire, Admitted
  <2>2. CountersAgree'
    BY <1>3, <2>1 DEF IInv, CountersAgree
  <2> HIDE DEF new
  <2>3. /\ call' \in [Callers -> CallType]
        /\ CallsAgree'
        /\ OpenStopsNewCalls'
    BY <1>4, <1>7, <2>1, OneCall
  <2>4. /\ breaker' \in BreakerType
        /\ trouble' \in BOOLEAN /\ streak' \in 0 .. FailureThreshold
    BY <1>3, <2>1 DEF IInv, TypeOK, BreakerType
  <2> QED BY <1>2, <2>2, <2>3, <2>4, Assembled
<1> QED BY <1>5, <1>6, <1>7

LEMMA SucceedsStep == ASSUME IInv, NEW c \in Callers, Succeeds(c) PROVE IInv'
<1> DEFINE effects == call[c].effects + 1
<1>1. call[c] \in CallType /\ call[c].effects < call[c].tries
  BY CallFacts DEF Succeeds, Attempts
<1>2. effects \in Nat /\ effects <= call[c].tries /\ effects >= 1
  BY <1>1, Thresholds DEF CallType, Places, Waits, Counts
<1>3. "ok" \in Answers
  BY DEF Answers
<1>4. Good(c, "ok", effects) /\ UNCHANGED <<recent, trouble, granted>>
  BY DEF Succeeds
<1> HIDE DEF effects
<1>5. Tells(Answered(c, "ok", effects))
  BY <1>2, <1>3, AnsweredRecord DEF Tells
<1> QED BY <1>2, <1>3, <1>4, <1>5, GoodEnd

LEMMA RejectsStep == ASSUME IInv, NEW c \in Callers, Rejects(c) PROVE IInv'
<1> DEFINE effects == call[c].effects
<1>1. call[c] \in CallType /\ call[c].effects < call[c].tries
  BY CallFacts DEF Rejects, Attempts
<1>2. effects \in Nat /\ effects <= call[c].tries /\ (call[c].tries = 1 => effects = 0)
  BY <1>1, Thresholds DEF CallType, Places, Waits, Counts
<1>3. "rejected" \in Answers
  BY DEF Answers
<1>4. /\ Good(c, "rejected", effects) \/ Bad(c, "rejected", effects)
      /\ UNCHANGED <<recent, trouble, granted>>
  BY DEF Rejects
<1> HIDE DEF effects
<1>5. Tells(Answered(c, "rejected", effects))
  BY <1>2, <1>3, AnsweredRecord DEF Tells
<1> QED BY <1>2, <1>3, <1>4, <1>5, GoodEnd, BadEnd

\* The effects a failed attempt may have left are no more than the attempts.
LEMMA EffectsBounded ==
    ASSUME IInv, NEW c \in Callers, call[c].pc = "trying"
    PROVE  \A effects \in Effects(c) : effects \in Nat /\ effects <= call[c].tries
<1>1. call[c] \in CallType /\ call[c].effects < call[c].tries
  BY CallFacts DEF Attempts
<1> QED BY <1>1, Thresholds DEF CallType, Places, Waits, Counts, Effects

LEMMA FailsStep == ASSUME IInv, NEW c \in Callers, Fails(c) PROVE IInv'
<1> USE Thresholds
<1>1. call[c] \in CallType /\ call[c].pc = "trying" /\ call[c].effects < call[c].tries
  BY CallFacts DEF Fails, Attempts
<1>2. UNCHANGED <<recent, trouble, granted>>
  BY DEF Fails
<1>3. PICK effects \in Effects(c) :
         \/ /\ call[c].tries <= MaxRetries
            /\ Call(c, [call[c] EXCEPT !.pc = "backoff", !.effects = effects])
            /\ UNCHANGED <<breaker, streak>>
         \/ call[c].tries > MaxRetries /\ Bad(c, "exhausted", effects)
  BY DEF Fails
<1>4. effects \in Nat /\ effects <= call[c].tries
  BY <1>1, EffectsBounded
<1>5. CASE /\ call[c].tries <= MaxRetries
           /\ Call(c, [call[c] EXCEPT !.pc = "backoff", !.effects = effects])
           /\ UNCHANGED <<breaker, streak>>
  <2> DEFINE new == [call[c] EXCEPT !.pc = "backoff", !.effects = effects]
  <2>1. effects \in Counts /\ "backoff" \in Places
    BY <1>1, <1>4 DEF CallType, Counts, Places
  <2>2. /\ new \in CallType
        /\ new.pc = "backoff" /\ new.effects = effects /\ new.tries = call[c].tries
        /\ new.fresh = call[c].fresh
    BY <1>1, <2>1 DEF CallType
  <2>3. call[c].tries \in 1 .. MaxRetries
    BY <1>1, <1>5 DEF CallType, Places, Waits, Counts
  <2> HIDE DEF new
  <2>4. Attempts(new) /\ Tells(new)
    BY <1>4, <2>2, <2>3 DEF Attempts, Tells
  <2>5. Call(c, new)
    BY <1>5 DEF new
  <2> QED BY <1>2, <1>5, <2>2, <2>4, <2>5, CallFacts, Quiet
<1>6. CASE call[c].tries > MaxRetries /\ Bad(c, "exhausted", effects)
  <2>1. "exhausted" \in Answers
    BY DEF Answers
  <2>2. call[c].tries = MaxRetries + 1
    BY <1>1, <1>6 DEF CallType, Places, Waits, Counts
  <2>3. Tells(Answered(c, "exhausted", effects))
    BY <1>4, <2>1, <2>2, AnsweredRecord DEF Tells
  <2> QED BY <1>2, <1>4, <1>6, <2>1, <2>3, BadEnd
<1> QED BY <1>3, <1>5, <1>6

LEMMA TimesOutStep == ASSUME IInv, NEW c \in Callers, TimesOut(c) PROVE IInv'
<1>1. call[c].pc = "trying" /\ UNCHANGED <<recent, trouble, granted>>
  BY DEF TimesOut
<1>2. PICK effects \in Effects(c) : Bad(c, "timeout", effects)
  BY DEF TimesOut
<1>3. effects \in Nat /\ effects <= call[c].tries
  BY <1>1, EffectsBounded
<1>4. "timeout" \in Answers
  BY DEF Answers
<1>5. Tells(Answered(c, "timeout", effects))
  BY <1>3, <1>4, AnsweredRecord DEF Tells
<1> QED BY <1>1, <1>2, <1>3, <1>4, <1>5, BadEnd

LEMMA WakesStep == ASSUME IInv, NEW c \in Callers, Wakes(c) PROVE IInv'
<1> USE Thresholds
<1> DEFINE new == [call[c] EXCEPT !.pc = "trying", !.tries = @ + 1]
<1>1. /\ call[c] \in CallType /\ call[c].tries \in 1 .. MaxRetries
      /\ call[c].effects <= call[c].tries
  BY CallFacts DEF Wakes, Attempts
<1>2. call[c].tries + 1 \in Counts /\ "trying" \in Places
  BY <1>1 DEF CallType, Counts, Places
<1>3. /\ new \in CallType
      /\ new.pc = "trying" /\ new.tries = call[c].tries + 1
      /\ new.effects = call[c].effects /\ new.fresh = call[c].fresh
  BY <1>1, <1>2 DEF CallType
<1>4. Call(c, new) /\ UNCHANGED <<breaker, recent, trouble, streak, granted>>
  BY DEF Wakes
<1> HIDE DEF new
<1>5. Attempts(new) /\ Tells(new)
  BY <1>1, <1>3 DEF Attempts, Tells, CallType, Places, Waits, Counts
<1> QED BY <1>3, <1>4, <1>5, CallFacts, Quiet

LEMMA CancelStep == ASSUME IInv, NEW c \in Callers, Cancel(c) PROVE IInv'
<1>1. UNCHANGED <<breaker, recent, trouble, streak, granted>>
  BY DEF Cancel
<1>2. PICK effects \in IF call[c].pc = "trying" THEN Effects(c) ELSE {call[c].effects} :
           Call(c, Answered(c, "cancelled", effects))
  BY DEF Cancel
<1>3. effects \in Nat /\ effects <= call[c].tries
  <2>1. CASE call[c].pc = "trying"
    BY <1>2, <2>1, EffectsBounded
  <2>2. CASE call[c].pc # "trying"
    BY <1>2, <2>2, CallFacts, Thresholds DEF CallType, Places, Waits, Counts, Attempts
  <2> QED BY <2>1, <2>2
<1>4. "cancelled" \in Answers
  BY DEF Answers
<1>5. Tells(Answered(c, "cancelled", effects))
  BY <1>3, <1>4, AnsweredRecord DEF Tells
<1> QED BY <1>1, <1>2, <1>3, <1>4, <1>5, CallFacts, SilentEnd

LEMMA TickStep == ASSUME IInv, Tick PROVE IInv'
<1> USE Thresholds
<1>1. recent' \in [0 .. Window -> Nat] /\ granted' \in [0 .. Window -> Nat]
  <2>1. ASSUME NEW counts \in [0 .. Window -> Nat]
        PROVE  Older(counts) \in [0 .. Window -> Nat]
    <3>1. \A a \in 0 .. Window : a # 0 => counts[a - 1] \in Nat
      OBVIOUS
    <3> QED BY <3>1 DEF Older
  <2> QED BY <2>1 DEF IInv, TypeOK, Tick
<1>2. breaker \in BreakerType
  BY DEF IInv, TypeOK, BreakerType
<1>3. breaker' = [breaker EXCEPT !.age = Least(@ + 1, OpenTime)]
  BY DEF Tick
<1>4. Least(breaker.age + 1, OpenTime) \in 0 .. OpenTime
  BY <1>2 DEF Least, BreakerType
<1>5. breaker' \in BreakerType
  BY <1>2, <1>3, <1>4 DEF BreakerType
<1>6. /\ breaker'.state = breaker.state
      /\ breaker'.failures = breaker.failures
      /\ breaker'.successes = breaker.successes
  BY <1>2, <1>3 DEF BreakerType
<1>7. trouble' = trouble /\ streak' = streak
  BY DEF Tick
<1>8. CountersAgree'
  BY <1>6, <1>7 DEF IInv, CountersAgree
<1>9. ASSUME NEW c \in Callers
      PROVE  /\ call'[c] \in CallType
             /\ Attempts(call'[c]) /\ Tells(call'[c])
             /\ call'[c].fresh = call[c].fresh
  <2>1. call[c] \in CallType /\ Attempts(call[c]) /\ Tells(call[c])
    BY CallFacts
  <2>2. CASE call[c].pc # "waiting"
    BY <2>1, <2>2 DEF Tick
  <2>3. CASE call[c].pc = "waiting"
    <3> DEFINE waited == Least(call[c].waited + 1, MaxWait + 1)
    <3>1. waited \in 0 .. MaxWait + 1
      BY <2>1 DEF Least, CallType, Places, Waits, Counts
    <3>2. call'[c] = [call[c] EXCEPT !.waited = waited]
      BY <2>3 DEF Tick
    <3> HIDE DEF waited
    <3>3. call'[c] = [pc |-> call[c].pc, waited |-> waited, tries |-> call[c].tries,
                      effects |-> call[c].effects, fresh |-> call[c].fresh,
                      answer |-> call[c].answer]
      BY <2>1, <3>2 DEF CallType, Places, Waits, Counts
    <3> QED BY <2>1, <3>1, <3>3 DEF CallType, Places, Waits, Counts, Attempts, Tells
  <2> QED BY <2>2, <2>3
<1>10. call' \in [Callers -> CallType]
  BY <1>9 DEF Tick
<1>11. CallsAgree' /\ OpenStopsNewCalls'
  BY <1>6, <1>9 DEF IInv, CallsAgree, OpenStopsNewCalls
<1>12. trouble' \in BOOLEAN /\ streak' \in 0 .. FailureThreshold
  BY <1>7 DEF IInv, TypeOK
<1> QED BY <1>1, <1>5, <1>8, <1>10, <1>11, <1>12, Assembled

LEMMA WeatherStep == ASSUME IInv, Weather PROVE IInv'
BY DEF IInv, Weather, TypeOK, CountersAgree, CallsAgree, OpenStopsNewCalls

-----------------------------------------------------------------------------
(* The theorems *)

LEMMA InitHolds == Init => IInv
<1> SUFFICES ASSUME Init PROVE IInv
  OBVIOUS
<1> USE Thresholds
<1>1. /\ breaker = [state |-> "closed", failures |-> 0, successes |-> 0, age |-> OpenTime]
      /\ streak = 0 /\ trouble = FALSE
      /\ recent \in [0 .. Window -> Nat] /\ granted \in [0 .. Window -> Nat]
  BY DEF Init
<1>2. breaker \in BreakerType /\ CountersAgree
  BY <1>1 DEF BreakerType, States, CountersAgree
<1>3. /\ NoCall \in CallType /\ Attempts(NoCall) /\ Tells(NoCall)
      /\ ~NoCall.fresh
  BY DEF NoCall, CallType, Places, Waits, Counts, Answers, Attempts, Tells
<1>4. \A c \in Callers : call[c] = NoCall
  BY DEF Init
<1>5. call \in [Callers -> CallType]
  BY <1>3 DEF Init
<1>6. CallsAgree /\ OpenStopsNewCalls
  BY <1>3, <1>4 DEF CallsAgree, OpenStopsNewCalls
<1> QED BY <1>1, <1>2, <1>5, <1>6
        DEF IInv, TypeOK, BreakerType, CallType, Places, Waits, Counts

LEMMA NextHolds == IInv /\ [Next]_vars => IInv'
<1> SUFFICES ASSUME IInv, [Next]_vars PROVE IInv'
  OBVIOUS
<1>1. CASE UNCHANGED vars
  BY <1>1 DEF vars, IInv, TypeOK, CountersAgree, CallsAgree, OpenStopsNewCalls
<1>2. ASSUME NEW c \in Callers, Begin(c) \/ Step(c) \/ Cancel(c) PROVE IInv'
  <2>1. CASE Begin(c)        BY <2>1, BeginStep
  <2>2. CASE Acquire(c)      BY <2>2, AcquireStep
  <2>3. CASE WaitsTooLong(c) BY <2>3, WaitsTooLongStep
  <2>4. CASE Succeeds(c)     BY <2>4, SucceedsStep
  <2>5. CASE Rejects(c)      BY <2>5, RejectsStep
  <2>6. CASE Fails(c)        BY <2>6, FailsStep
  <2>7. CASE TimesOut(c)     BY <2>7, TimesOutStep
  <2>8. CASE Wakes(c)        BY <2>8, WakesStep
  <2>9. CASE Cancel(c)       BY <2>9, CancelStep
  <2> QED BY <1>2, <2>1, <2>2, <2>3, <2>4, <2>5, <2>6, <2>7, <2>8, <2>9 DEF Step, Attempt
<1>3. CASE Tick
  BY <1>3, TickStep
<1>4. CASE Weather
  BY <1>4, WeatherStep
<1> QED BY <1>1, <1>2, <1>3, <1>4 DEF Next

LEMMA Invariance == Spec => []IInv
BY InitHolds, NextHolds, PTL DEF Spec

\* Type correctness; with it, the counters of breaker and calls keep to their
\* bounds.
THEOREM TypeCorrect == Spec => []TypeOK
<1>1. IInv => TypeOK
  BY DEF IInv
<1> QED BY <1>1, Invariance, PTL

\* A circuit that is closed has not seen failure_threshold failures in a row,
\* however many calls are under way and whenever they began.
THEOREM TripsInTime == Spec => []TripsOnConsecutiveFailures
<1>1. IInv => TripsOnConsecutiveFailures
  BY DEF IInv, CountersAgree, TripsOnConsecutiveFailures
<1> QED BY <1>1, Invariance, PTL

\* While the circuit is open, no call is under way that was admitted after the
\* last failure.
THEOREM OpenAdmitsNobody == Spec => []OpenStopsNewCalls
<1>1. IInv => OpenStopsNewCalls
  BY DEF IInv
<1> QED BY <1>1, Invariance, PTL

\* Every answer tells of the service what AnswerTellsEffect says.
THEOREM AnswersTell == Spec => []AnswerTellsEffect
<1>1. IInv => AnswerTellsEffect
  <2> SUFFICES ASSUME IInv, NEW c \in Callers
               PROVE  /\ call[c].effects <= call[c].tries
                      /\ call[c].pc = "idle" =>
                           CASE call[c].answer \in {"open", "limited"} -> call[c].tries = 0
                             [] call[c].answer = "ok" -> call[c].effects >= 1
                             [] call[c].answer = "rejected" -> call[c].tries = 1 => call[c].effects = 0
                             [] call[c].answer = "exhausted" -> call[c].tries = MaxRetries + 1
                             [] OTHER -> TRUE
    BY DEF AnswerTellsEffect
  <2>1. Attempts(call[c]) /\ Tells(call[c])
    BY CallFacts
  <2> QED BY <2>1 DEF Attempts, Tells
<1> QED BY <1>1, Invariance, PTL

\* The circuit opens for no less than its threshold, or in a failed test of
\* recovery.
THEOREM OpensOnlyForCause == Spec => OpensForCause
<1>1. IInv /\ [Next]_vars =>
        [breaker.state # "open" /\ breaker'.state = "open"
           => breaker.state = "half_open" \/ streak' = FailureThreshold]_vars
  <2> SUFFICES ASSUME IInv, Next, breaker.state # "open", breaker'.state = "open"
               PROVE  breaker.state = "half_open" \/ streak' = FailureThreshold
    OBVIOUS
  <2>1. breaker \in BreakerType
    BY DEF IInv, TypeOK, BreakerType
  <2>2. CASE OnSuccess /\ streak' = 0
    BY <2>2, OnSuccessKeepsCounters
  <2>3. CASE OnFailure /\ streak' = Least(streak + 1, FailureThreshold)
    BY <2>1, <2>3, OnFailureKeepsCounters DEF BreakerType, States
  <2>4. CASE breaker' = breaker
    BY <2>4
  <2>5. CASE \E c \in Callers : Begin(c) \/ Step(c) \/ Cancel(c)
    <3>1. PICK c \in Callers : Begin(c) \/ Step(c) \/ Cancel(c)
      BY <2>5
    <3>2. CASE Begin(c) \/ WaitsTooLong(c) \/ Wakes(c) \/ Cancel(c)
      BY <2>4, <3>2 DEF Begin, WaitsTooLong, Wakes, Cancel
    <3>3. CASE Acquire(c)
      BY <2>1, <3>3 DEF Acquire, BreakerType
    <3>4. CASE Succeeds(c)
      BY <2>2, <3>4 DEF Succeeds, Good
    <3>5. CASE Rejects(c)
      BY <2>2, <2>3, <3>5 DEF Rejects, Good, Bad
    <3>6. CASE Fails(c)
      BY <2>3, <2>4, <3>6 DEF Fails, Bad
    <3>7. CASE TimesOut(c)
      BY <2>3, <3>7 DEF TimesOut, Bad
    <3> QED BY <3>1, <3>2, <3>3, <3>4, <3>5, <3>6, <3>7 DEF Step, Attempt
  <2>6. CASE Tick
    BY <2>1, <2>6 DEF Tick, BreakerType
  <2>7. CASE Weather
    BY <2>4, <2>7 DEF Weather
  <2> QED BY <2>5, <2>6, <2>7 DEF Next
<1> QED BY <1>1, Invariance, PTL DEF Spec, OpensForCause

\* In any window the limiter lets at most max_requests calls through, however
\* they come: its log forgets nothing that is still in the window.
THEOREM LimitHolds == Spec => []GrantsInWindow
<1>1. Init => LogKept
  <2> SUFFICES ASSUME Init PROVE LogKept
    OBVIOUS
  <2>1. granted = recent /\ Total(recent) = 0 /\ MaxRequests \in Nat
    BY NoneYet, ResilientCallAssumption DEF Init
  <2> QED BY <2>1 DEF LogKept
<1>2. IInv /\ LogKept /\ [Next]_vars => LogKept'
  <2> SUFFICES ASSUME IInv, LogKept, [Next]_vars PROVE LogKept'
    OBVIOUS
  <2>1. recent \in [0 .. Window -> Nat] /\ granted = recent /\ MaxRequests \in Nat
    BY ResilientCallAssumption DEF IInv, TypeOK, LogKept
  <2>2. Total(recent) \in Nat /\ Total(recent) <= MaxRequests
    BY <2>1, SumsAre, Thresholds DEF Total, LogKept
  <2>3. CASE UNCHANGED <<recent, granted>>
    BY <2>1, <2>2, <2>3 DEF LogKept
  <2>4. CASE HasRoom /\ Granted
    <3> DEFINE more == [recent EXCEPT ![0] = @ + 1]
    <3>1. recent' = more /\ granted' = more /\ Total(recent) < MaxRequests
      BY <2>1, <2>4 DEF Granted, HasRoom
    <3>2. Total(more) = Total(recent) + 1
      BY <2>1, OneMore
    <3> HIDE DEF more
    <3>3. Total(more) <= MaxRequests
      BY <2>1, <2>2, <3>1, <3>2
    <3> QED BY <3>1, <3>3 DEF LogKept
  <2>5. CASE Tick
    <3> DEFINE later == Older(recent)
    <3>1. recent' = later /\ granted' = later
      BY <2>1, <2>5 DEF Tick
    <3>2. Total(later) <= Total(recent)
      BY <2>1, NoMoreLater
    <3>3. Total(later) \in Nat
      <4>1. \A a \in 0 .. Window : a # 0 => recent[a - 1] \in Nat
        BY <2>1, Thresholds
      <4>2. later \in [0 .. Window -> Nat]
        BY <4>1 DEF Older
      <4> QED BY <4>2, SumsAre, Thresholds DEF Total
    <3> HIDE DEF later
    <3>4. Total(later) <= MaxRequests
      BY <2>1, <2>2, <3>2, <3>3
    <3> QED BY <3>1, <3>4 DEF LogKept
  <2>6. CASE \E c \in Callers : Begin(c) \/ Step(c) \/ Cancel(c)
    <3>1. PICK c \in Callers : Begin(c) \/ Step(c) \/ Cancel(c)
      BY <2>6
    <3>2. CASE Acquire(c)
      BY <2>4, <3>2 DEF Acquire
    <3>3. CASE Begin(c) \/ WaitsTooLong(c) \/ Attempt(c) \/ Wakes(c) \/ Cancel(c)
      BY <2>3, <3>3 DEF Begin, WaitsTooLong, Attempt, Succeeds, Rejects, Fails, TimesOut,
                        Wakes, Cancel
    <3> QED BY <3>1, <3>2, <3>3 DEF Step
  <2>7. CASE Weather
    BY <2>3, <2>7 DEF Weather
  <2>8. CASE UNCHANGED vars
    BY <2>3, <2>8 DEF vars
  <2> QED BY <2>5, <2>6, <2>7, <2>8 DEF Next
<1>3. LogKept => GrantsInWindow
  BY DEF LogKept, GrantsInWindow
<1> QED BY <1>1, <1>2, <1>3, Invariance, PTL DEF Spec
=============================================================================
