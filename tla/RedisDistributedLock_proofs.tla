-------------------- MODULE RedisDistributedLock_proofs --------------------
(***************************************************************************)
(* Proofs about RedisDistributedLock, for any number of keys, holders and  *)
(* coroutines: type correctness, the uniqueness of the call that finalizes *)
(* or announces a lease, and the refinement of LockContract.               *)
(***************************************************************************)
EXTENDS RedisDistributedLock, TLAPS

\* Lease numbers in use are at most the number of leases granted.
NumbersGranted ==
    /\ \A k \in Keys : current[k] <= leases
    /\ \A n \in released : n <= leases
    /\ \A t \in Tasks : task[t].pc # "idle" => task[t].lease <= leases

\* The lease of a held key has not been ended by a release, and is not the
\* lease of another held key.
LiveLeases ==
    /\ \A k \in Keys : lock[k] # Nobody => current[k] \notin released
    /\ \A j, k \in Keys : j # k /\ lock[j] # Nobody /\ lock[k] # Nobody
                            => current[j] # current[k]

\* A release that succeeded and has not published yet holds an ended lease
\* that nobody announced.
EndedNotAnnounced ==
    /\ announced \subseteq released
    /\ \A t \in Tasks : Ending(t) => task[t].lease \in released \ announced

\* The inductive invariant: OneCallPerLease needs the numbering to tell a new
\* lease from every lease a call still has in hand.
IInv == /\ TypeOK
        /\ NumbersGranted
        /\ LiveLeases
        /\ EndedNotAnnounced
        /\ OneCallPerLease

-----------------------------------------------------------------------------
(* Type correctness *)

\* What an action may assume of a coroutine that is inside a call.
LEMMA InCall ==
  ASSUME TypeOK, NEW t \in Tasks, task[t].pc # "idle"
  PROVE  task[t] \in CallRec
  BY DEF TypeOK, Idle

\* Moving a coroutine to another command keeps its record well formed.
LEMMA GotoType ==
  ASSUME TypeOK, NEW t \in Tasks, task[t].pc # "idle", NEW pc \in Pcs,
         Goto(t, pc)
  PROVE  task' \in [Tasks -> CallRec \cup {Idle}]
<1>1. task[t] \in CallRec
  BY InCall
<1>2. [task[t] EXCEPT !.pc = pc] \in CallRec
  BY <1>1 DEF CallRec
<1> QED
  BY <1>2 DEF TypeOK, Goto

\* A coroutine that returns from its call is idle, which is well formed.
LEMMA ReturnType ==
  ASSUME TypeOK, NEW t \in Tasks, Return(t)
  PROVE  task' \in [Tasks -> CallRec \cup {Idle}]
  BY DEF TypeOK, Return

\* The initial state is well typed.
LEMMA InitType == Init => TypeOK
  BY LockAssumption DEF Init, TypeOK

\* A granted SET NX keeps every variable in its type.
LEMMA SetNxOkType ==
  ASSUME TypeOK, NEW t \in Tasks, task[t].pc # "idle", SetNxOk(t)
  PROVE  TypeOK'
<1>1. task[t] \in CallRec
  BY InCall
<1>2. leases + 1 \in 0 .. MaxLeases
  BY LockAssumption DEF TypeOK, SetNxOk
<1>3. [task[t] EXCEPT !.pc = "hset", !.lease = leases + 1] \in CallRec
  BY <1>1, <1>2 DEF CallRec, Pcs, FinalizePcs
<1>4. task' \in [Tasks -> CallRec \cup {Idle}]
  BY <1>3 DEF TypeOK, SetNxOk
<1>5. /\ task[t].key \in Keys
      /\ task[t].holder \in Holders
  BY <1>1 DEF CallRec
<1> QED
  BY <1>2, <1>4, <1>5
  DEF TypeOK, SetNxOk, metaVars, eventVars, ghostVars

\* Every command but the SETs moves the coroutine along or returns from the
\* call, and touches variables whose types it keeps.
LEMMA StepType ==
  ASSUME TypeOK, NEW t \in Tasks, Step(t)
  PROVE  TypeOK'
<1> USE DEF metaVars, keyVars, eventVars, ghostVars
<1>1. CASE SetNx(t)
  <2>1. task[t].pc # "idle"
    BY <1>1 DEF SetNx, At
  <2>2. CASE SetNxOk(t)
    BY <2>1, <2>2, SetNxOkType
  <2>3. CASE SetNxFail(t, "get")
    <3>1. task' \in [Tasks -> CallRec \cup {Idle}]
      BY <2>1, <2>3, GotoType DEF SetNxFail, Pcs, AcquirePcs
    <3> QED BY <3>1, <2>3 DEF TypeOK, SetNxFail
  <2> QED BY <1>1, <2>2, <2>3 DEF SetNx
<1>2. CASE SetNxRetry(t)
  <2>1. task[t].pc # "idle"
    BY <1>2 DEF SetNxRetry, At
  <2>2. CASE SetNxOk(t)
    BY <2>1, <2>2, SetNxOkType
  <2>3. CASE SetNxFail(t, "getRetry")
    <3>1. task' \in [Tasks -> CallRec \cup {Idle}]
      BY <2>1, <2>3, GotoType DEF SetNxFail, Pcs, AcquirePcs
    <3> QED BY <3>1, <2>3 DEF TypeOK, SetNxFail
  <2> QED BY <1>2, <2>2, <2>3 DEF SetNxRetry
<1>3. CASE GetHolder(t)
  <2>1. task[t].pc # "idle"
    BY <1>3 DEF GetHolder, At
  <2>2. task' \in [Tasks -> CallRec \cup {Idle}]
    BY <1>3, <2>1, GotoType, ReturnType DEF GetHolder, Pcs, AcquirePcs
  <2> QED BY <2>2, <1>3 DEF TypeOK, GetHolder
<1>4. CASE GetHolderAgain(t)
  <2>1. task' \in [Tasks -> CallRec \cup {Idle}]
    BY <1>4, ReturnType DEF GetHolderAgain
  <2> QED BY <2>1, <1>4 DEF TypeOK, GetHolderAgain
<1>5. CASE HsetMeta(t)
  <2>1. task[t] \in CallRec
    BY <1>5, InCall DEF HsetMeta, At
  <2>2. task' \in [Tasks -> CallRec \cup {Idle}]
    BY <1>5, GotoType DEF HsetMeta, At, Pcs, FinalizePcs
  <2>3. task[t].lease \in 0 .. MaxLeases
    BY <2>1 DEF CallRec
  <2> QED BY <2>2, <2>3, <1>5 DEF TypeOK, HsetMeta
<1>6. CASE ExpireMetaCmd(t)
  <2>1. task[t] \in CallRec
    BY <1>6, InCall DEF ExpireMetaCmd, At
  <2>2. task' \in [Tasks -> CallRec \cup {Idle}]
    BY <1>6, GotoType DEF ExpireMetaCmd, At, Pcs, FinalizePcs
  <2>3. task[t].lease \in 0 .. MaxLeases /\ 0 \in 0 .. MaxLeases
    BY <2>1, LockAssumption DEF CallRec
  <2> QED BY <2>2, <2>3, <1>6 DEF TypeOK, ExpireMetaCmd
<1>7. CASE PublishAcquired(t)
  <2>1. task[t] \in CallRec
    BY <1>7, InCall DEF PublishAcquired, At
  <2>2. task' \in [Tasks -> CallRec \cup {Idle}]
    BY <1>7, ReturnType DEF PublishAcquired
  <2>3. task[t].lease \in 0 .. MaxLeases
    BY <2>1 DEF CallRec
  <2> QED BY <2>2, <2>3, <1>7 DEF TypeOK, PublishAcquired
<1>8. CASE ReadMeta(t)
  <2>1. task[t] \in CallRec
    BY <1>8, InCall DEF ReadMeta, At
  <2>2. [task[t] EXCEPT !.pc = "eval", !.named = (meta[task[t].key] # 0)]
          \in CallRec
    BY <2>1 DEF CallRec, Pcs, ReleasePcs
  <2>3. task' \in [Tasks -> CallRec \cup {Idle}]
    BY <1>8, <2>2 DEF TypeOK, ReadMeta
  <2> QED BY <2>3, <1>8 DEF TypeOK, ReadMeta
<1>9. CASE LuaRelease(t)
  <2>1. task[t] \in CallRec
    BY <1>9, InCall DEF LuaRelease, At
  <2>2. /\ task[t].key \in Keys
        /\ current[task[t].key] \in 0 .. MaxLeases
    BY <2>1 DEF CallRec, TypeOK
  <2>3. CASE lock[task[t].key] = task[t].holder
    <3>1. [task[t] EXCEPT !.pc = "deleteMeta", !.lease = current[task[t].key]]
            \in CallRec
      BY <2>1, <2>2 DEF CallRec, Pcs, ReleasePcs
    <3>2. task' \in [Tasks -> CallRec \cup {Idle}]
      BY <1>9, <2>3, <3>1 DEF TypeOK, LuaRelease
    <3> QED BY <2>2, <2>3, <3>2, <1>9 DEF TypeOK, LuaRelease
  <2>4. CASE lock[task[t].key] # task[t].holder
    <3>1. task' \in [Tasks -> CallRec \cup {Idle}]
      BY <1>9, <2>4, GotoType DEF LuaRelease, At, Pcs, ReleasePcs
    <3> QED BY <2>4, <3>1, <1>9 DEF TypeOK, LuaRelease
  <2> QED BY <2>3, <2>4
<1>10. CASE GetReason(t)
  <2>1. task' \in [Tasks -> CallRec \cup {Idle}]
    BY <1>10, ReturnType DEF GetReason
  <2> QED BY <2>1, <1>10 DEF TypeOK, GetReason
<1>11. CASE DeleteMeta(t)
  <2>1. task' \in [Tasks -> CallRec \cup {Idle}]
    BY <1>11, GotoType DEF DeleteMeta, At, Pcs, ReleasePcs
  <2>2. 0 \in 0 .. MaxLeases
    BY LockAssumption
  <2> QED BY <2>1, <2>2, <1>11 DEF TypeOK, DeleteMeta
<1>12. CASE PublishReleased(t)
  <2>1. task[t] \in CallRec
    BY <1>12, InCall DEF PublishReleased, At
  <2>2. task' \in [Tasks -> CallRec \cup {Idle}]
    BY <1>12, ReturnType DEF PublishReleased
  <2>3. task[t].lease \in 0 .. MaxLeases
    BY <2>1 DEF CallRec
  <2> QED BY <2>2, <2>3, <1>12 DEF TypeOK, PublishReleased
<1> QED
  BY <1>1, <1>2, <1>3, <1>4, <1>5, <1>6, <1>7, <1>8, <1>9, <1>10, <1>11,
     <1>12 DEF Step

\* Every step keeps the types.
LEMMA NextType == TypeOK /\ [Next]_vars => TypeOK'
<1> SUFFICES ASSUME TypeOK, [Next]_vars
             PROVE  TypeOK'
  OBVIOUS
<1> USE DEF metaVars, keyVars, eventVars, ghostVars
<1>1. ASSUME NEW t \in Tasks, NEW k \in Keys, NEW h \in Holders,
             NEW pc \in {"set", "hgetall"}, Begin(t, pc, k, h)
      PROVE  TypeOK'
  <2>1. [pc |-> pc, key |-> k, holder |-> h, lease |-> 0, named |-> FALSE]
          \in CallRec
    BY LockAssumption DEF CallRec, Pcs, AcquirePcs, ReleasePcs
  <2> QED BY <2>1, <1>1 DEF TypeOK, Begin
<1>2. ASSUME NEW t \in Tasks, Step(t)
      PROVE  TypeOK'
  BY <1>2, StepType
<1>3. ASSUME NEW t \in Tasks, Abort(t)
      PROVE  TypeOK'
  <2>1. task' \in [Tasks -> CallRec \cup {Idle}]
    BY <1>3, ReturnType DEF Abort
  <2>2. task[t].lease \in 0 .. MaxLeases
    BY <1>3, InCall DEF CallRec, Abort, At
  <2> QED BY <2>1, <2>2, <1>3 DEF TypeOK, Abort
<1>4. ASSUME NEW k \in Keys, ExpireLock(k)
      PROVE  TypeOK'
  BY <1>4 DEF TypeOK, ExpireLock
<1>5. ASSUME NEW k \in Keys, ExpireMeta(k)
      PROVE  TypeOK'
  BY <1>5, LockAssumption DEF TypeOK, ExpireMeta
<1>6. ASSUME NEW k \in Keys, NEW h \in Holders, Renew(k, h)
      PROVE  TypeOK'
  BY <1>6, LockAssumption DEF TypeOK, Renew
<1>7. CASE UNCHANGED vars
  BY <1>7 DEF TypeOK, vars
<1> QED
  BY <1>1, <1>2, <1>3, <1>4, <1>5, <1>6, <1>7
  DEF Next, TryAcquire, Release

\* Every variable keeps its type: in particular leases are never numbered
\* past the bound and a coroutine is either idle or in a well-formed call.
THEOREM TypeCorrect == Spec => []TypeOK
  BY InitType, NextType, PTL DEF Spec
-----------------------------------------------------------------------------
(* One call per lease *)

\* Nothing is leased at the start, so the invariant holds.
LEMMA InitInv == Init => IInv
<1> SUFFICES ASSUME Init
             PROVE  IInv
  OBVIOUS
<1>1. TypeOK
  BY InitType
<1>2. \A t \in Tasks : task[t].pc = "idle"
  BY DEF Init, Idle
<1> QED
  BY <1>1, <1>2
  DEF Init, IInv, NumbersGranted, LiveLeases, EndedNotAnnounced,
      OneCallPerLease, Ending, Finalizing, FinalizePcs

\* A step that gives no coroutine a lease in hand, ends no lease, announces
\* none and grants none preserves the invariant.
LEMMA QuietStep ==
  ASSUME IInv, TypeOK',
         UNCHANGED <<leases, released, announced>>,
         UNCHANGED current,
         \A k \in Keys : lock'[k] \in {lock[k], Nobody},
         \A t \in Tasks : \/ task'[t] = task[t]
                          \/ task'[t].pc = "idle"
                          \/ /\ task'[t].lease = task[t].lease
                             /\ task[t].pc # "idle"
                             /\ Ending(t)' => Ending(t)
                             /\ Finalizing(t)' => Finalizing(t)
                          \/ /\ task'[t].lease = 0
                             /\ ~Ending(t)' /\ ~Finalizing(t)'
  PROVE  IInv'
<1>1. NumbersGranted'
  <2>1. leases \in 0 .. MaxLeases
    BY DEF IInv, TypeOK
  <2> QED BY <2>1, LockAssumption DEF IInv, NumbersGranted
<1>2. LiveLeases'
  BY DEF IInv, LiveLeases
<1>3. \A t \in Tasks : /\ Ending(t)' => Ending(t) /\ task'[t].lease = task[t].lease
                      /\ Finalizing(t)' => /\ Finalizing(t)
                                           /\ task'[t].lease = task[t].lease
  BY DEF Ending, Finalizing, FinalizePcs
<1>4. EndedNotAnnounced'
  BY <1>3 DEF IInv, EndedNotAnnounced, Ending
<1>5. OneCallPerLease'
  BY <1>3 DEF IInv, OneCallPerLease, Ending, Finalizing
<1> QED
  BY <1>1, <1>2, <1>4, <1>5 DEF IInv

\* A new lease has a number above all those in use.
LEMMA GrantInv ==
  ASSUME IInv, TypeOK', NEW t \in Tasks, task[t].pc \in {"set", "setRetry"},
         SetNxOk(t)
  PROVE  IInv'
<1> DEFINE k == task[t].key
<1>1. /\ TypeOK /\ NumbersGranted /\ LiveLeases
      /\ EndedNotAnnounced /\ OneCallPerLease
  BY DEF IInv
<1>2. /\ task[t] \in CallRec
      /\ k \in Keys
      /\ leases \in Nat
      /\ released \subseteq Nat
      /\ \A j \in Keys : current[j] \in Nat
      /\ \A u \in Tasks : task[u].pc # "idle" => task[u].lease \in Nat
  <2>1. task[t] \in CallRec
    BY <1>1, InCall
  <2>2. \A u \in Tasks : task[u].pc # "idle" => task[u] \in CallRec
    BY <1>1, InCall
  <2> QED BY <2>1, <2>2, <1>1, LockAssumption DEF TypeOK, CallRec
<1>3. /\ leases' = leases + 1
      /\ current' = [current EXCEPT ![k] = leases + 1]
      /\ lock' = [lock EXCEPT ![k] = task[t].holder]
      /\ released' = released /\ announced' = announced
      /\ task' = [task EXCEPT ![t].pc = "hset", ![t].lease = leases + 1]
  BY DEF SetNxOk, eventVars
<1>4. /\ task'[t].pc = "hset" /\ task'[t].lease = leases + 1
      /\ \A u \in Tasks \ {t} : task'[u] = task[u]
  BY <1>1, <1>2, <1>3 DEF TypeOK, CallRec
<1>5. /\ current'[k] = leases + 1
      /\ \A j \in Keys \ {k} : current'[j] = current[j] /\ lock'[j] = lock[j]
  BY <1>1, <1>2, <1>3 DEF TypeOK
<1>6. NumbersGranted'
  <2>1. \A j \in Keys : current'[j] <= leases'
    BY <1>1, <1>2, <1>3, <1>5 DEF NumbersGranted
  <2>2. \A n \in released' : n <= leases'
    BY <1>1, <1>2, <1>3 DEF NumbersGranted
  <2>3. \A u \in Tasks : task'[u].pc # "idle" => task'[u].lease <= leases'
    <3>1. \A u \in Tasks \ {t} : task'[u].pc # "idle" => task'[u].lease <= leases
      BY <1>1, <1>4 DEF NumbersGranted
    <3>2. \A u \in Tasks \ {t} : task'[u].pc # "idle" => task'[u].lease \in Nat
      BY <1>2, <1>4
    <3>3. task'[t].lease <= leases'
      BY <1>2, <1>3, <1>4
    <3>4. \A u \in Tasks \ {t} : task'[u].pc # "idle"
                                => task'[u].lease <= leases'
      <4> SUFFICES ASSUME NEW u \in Tasks \ {t}, task'[u].pc # "idle"
                   PROVE  task'[u].lease <= leases'
        OBVIOUS
      <4>1. task'[u].lease <= leases /\ task'[u].lease \in Nat
        BY <3>1, <3>2
      <4> QED BY <1>2, <1>3, <4>1
    <3> QED BY <3>3, <3>4
  <2> QED BY <2>1, <2>2, <2>3 DEF NumbersGranted
<1>7. LiveLeases'
  BY <1>1, <1>2, <1>3, <1>5 DEF LiveLeases, NumbersGranted
<1>8. EndedNotAnnounced'
  BY <1>1, <1>3, <1>4 DEF EndedNotAnnounced, Ending
<1>9. OneCallPerLease'
  <2>1. \A u \in Tasks \ {t} : Finalizing(u)' => task'[u].lease # leases + 1
    BY <1>1, <1>2, <1>4 DEF NumbersGranted, Finalizing, FinalizePcs
  <2>2. ~Ending(t)'
    BY <1>4 DEF Ending
  <2> QED
    BY <1>1, <1>4, <2>1, <2>2
    DEF OneCallPerLease, Finalizing, FinalizePcs, Ending
<1> QED
  BY <1>6, <1>7, <1>8, <1>9 DEF IInv

\* The script ends a live lease, which no release had ended before.
LEMMA LuaInv ==
  ASSUME IInv, TypeOK', NEW t \in Tasks, LuaRelease(t),
         lock[task[t].key] = task[t].holder
  PROVE  IInv'
<1> DEFINE k == task[t].key
<1>1. /\ TypeOK /\ NumbersGranted /\ LiveLeases
      /\ EndedNotAnnounced /\ OneCallPerLease
  BY DEF IInv
<1>2. /\ task[t] \in CallRec
      /\ k \in Keys
      /\ lock[k] # Nobody
  <2>1. task[t] \in CallRec
    BY <1>1, InCall DEF LuaRelease, At
  <2> QED BY <2>1, LockAssumption DEF CallRec
<1>3. /\ lock' = [lock EXCEPT ![k] = Nobody]
      /\ released' = released \cup {current[k]}
      /\ task' = [task EXCEPT ![t].pc = "deleteMeta", ![t].lease = current[k]]
      /\ current' = current /\ leases' = leases /\ announced' = announced
  BY DEF LuaRelease
<1>4. /\ task'[t].pc = "deleteMeta" /\ task'[t].lease = current[k]
      /\ \A u \in Tasks \ {t} : task'[u] = task[u]
  BY <1>1, <1>2, <1>3 DEF TypeOK, CallRec
<1>5. NumbersGranted'
  BY <1>1, <1>2, <1>3, <1>4 DEF NumbersGranted
<1>6. LiveLeases'
  <2>1. /\ lock'[k] = Nobody
        /\ \A j \in Keys \ {k} : lock'[j] = lock[j]
    BY <1>1, <1>2, <1>3 DEF TypeOK
  <2> QED BY <1>1, <1>2, <1>3, <2>1 DEF LiveLeases
<1>7. current[k] \notin released
  BY <1>1, <1>2 DEF LiveLeases
<1>8. EndedNotAnnounced'
  <2>1. current[k] \in released' \ announced'
    BY <1>1, <1>3, <1>7 DEF EndedNotAnnounced
  <2>2. announced' \subseteq released'
    BY <1>1, <1>3 DEF EndedNotAnnounced
  <2>3. \A u \in Tasks \ {t} : Ending(u)'
                              => task'[u].lease \in released' \ announced'
    <3> SUFFICES ASSUME NEW u \in Tasks \ {t}, Ending(u)'
                 PROVE  task'[u].lease \in released' \ announced'
      OBVIOUS
    <3>1. Ending(u) /\ task'[u] = task[u]
      BY <1>4 DEF Ending
    <3>2. task[u].lease \in released \ announced
      BY <1>1, <3>1 DEF EndedNotAnnounced
    <3> QED BY <1>3, <3>1, <3>2
  <2> QED BY <1>4, <2>1, <2>2, <2>3 DEF EndedNotAnnounced, Ending
<1>9. OneCallPerLease'
  <2>1. \A u \in Tasks \ {t} : Ending(u)' => task'[u].lease # current[k]
    BY <1>1, <1>4, <1>7 DEF EndedNotAnnounced, Ending
  <2>2. ~Finalizing(t)'
    BY <1>4 DEF Finalizing, FinalizePcs
  <2> QED
    BY <1>1, <1>4, <2>1, <2>2
    DEF OneCallPerLease, Finalizing, FinalizePcs, Ending
<1> QED
  BY <1>5, <1>6, <1>8, <1>9 DEF IInv

\* Publishing marks the lease in hand, which is nobody else's.
LEMMA PublishInv ==
  ASSUME IInv, TypeOK', NEW t \in Tasks, PublishReleased(t)
  PROVE  IInv'
<1>1. /\ TypeOK /\ NumbersGranted /\ LiveLeases
      /\ EndedNotAnnounced /\ OneCallPerLease
  BY DEF IInv
<1>2. /\ announced' = announced \cup {task[t].lease}
      /\ released' = released /\ lock' = lock /\ current' = current
      /\ leases' = leases
      /\ task'[t].pc = "idle"
      /\ \A u \in Tasks \ {t} : task'[u] = task[u]
  BY <1>1 DEF PublishReleased, Return, keyVars, TypeOK, Idle
<1>3. Ending(t)
  BY DEF PublishReleased, At, Ending
<1>4. NumbersGranted' /\ LiveLeases'
  BY <1>1, <1>2 DEF NumbersGranted, LiveLeases
<1>5. EndedNotAnnounced'
  <2>1. \A u \in Tasks \ {t} : Ending(u) => task[u].lease # task[t].lease
    BY <1>1, <1>3 DEF OneCallPerLease
  <2>2. task[t].lease \in released
    BY <1>1, <1>3 DEF EndedNotAnnounced
  <2> QED BY <1>1, <1>2, <2>1, <2>2 DEF EndedNotAnnounced, Ending
<1>6. OneCallPerLease'
  BY <1>1, <1>2 DEF OneCallPerLease, Finalizing, FinalizePcs, Ending
<1> QED
  BY <1>4, <1>5, <1>6 DEF IInv

\* A coroutine that only moves to the next command of its call.
LEMMA GotoInv ==
  ASSUME IInv, TypeOK', NEW t \in Tasks, task[t].pc # "idle", NEW pc \in Pcs,
         Goto(t, pc),
         pc \in {"deleteMeta", "publishReleased"} => Ending(t),
         pc \in FinalizePcs => Finalizing(t),
         UNCHANGED <<lock, current, leases, released, announced>>
  PROVE  IInv'
<1>1. task[t] \in CallRec
  BY InCall DEF IInv
<1>2. /\ task'[t].pc = pc /\ task'[t].lease = task[t].lease
      /\ \A u \in Tasks \ {t} : task'[u] = task[u]
  BY <1>1 DEF IInv, TypeOK, Goto, CallRec
<1>3. /\ Ending(t)' => Ending(t)
      /\ Finalizing(t)' => Finalizing(t)
  BY <1>2 DEF Ending, Finalizing
<1> QED
  BY <1>2, <1>3, QuietStep

\* A coroutine that returns from its call without a grant, an end or an
\* announcement.
LEMMA ReturnInv ==
  ASSUME IInv, TypeOK', NEW t \in Tasks, Return(t),
         UNCHANGED <<lock, current, leases, released, announced>>
  PROVE  IInv'
<1>1. /\ task'[t].pc = "idle"
      /\ \A u \in Tasks \ {t} : task'[u] = task[u]
  BY DEF IInv, TypeOK, Return, Idle
<1> QED
  BY <1>1, QuietStep

\* A step of the environment on the keys, outside every call.
LEMMA KeyInv ==
  ASSUME IInv, TypeOK', \A k \in Keys : lock'[k] \in {lock[k], Nobody},
         UNCHANGED <<current, leases, released, announced, task>>
  PROVE  IInv'
  BY QuietStep

\* Every command of a call keeps the invariant.
LEMMA StepInv ==
  ASSUME IInv, TypeOK', NEW t \in Tasks, Step(t)
  PROVE  IInv'
<1> USE DEF metaVars, keyVars, eventVars, ghostVars, At, Pcs
<1>1. CASE SetNx(t)
  <2>1. CASE SetNxOk(t)
    BY <1>1, <2>1, GrantInv DEF SetNx
  <2>2. CASE SetNxFail(t, "get")
    BY <1>1, <2>2, GotoInv DEF SetNx, SetNxFail, AcquirePcs, FinalizePcs
  <2> QED BY <1>1, <2>1, <2>2 DEF SetNx
<1>2. CASE SetNxRetry(t)
  <2>1. CASE SetNxOk(t)
    BY <1>2, <2>1, GrantInv DEF SetNxRetry
  <2>2. CASE SetNxFail(t, "getRetry")
    BY <1>2, <2>2, GotoInv DEF SetNxRetry, SetNxFail, AcquirePcs, FinalizePcs
  <2> QED BY <1>2, <2>1, <2>2 DEF SetNxRetry
<1>3. CASE GetHolder(t)
  BY <1>3, GotoInv, ReturnInv DEF GetHolder, AcquirePcs, FinalizePcs
<1>4. CASE GetHolderAgain(t)
  BY <1>4, ReturnInv DEF GetHolderAgain
<1>5. CASE HsetMeta(t)
  BY <1>5, GotoInv DEF HsetMeta, FinalizePcs, Finalizing
<1>6. CASE ExpireMetaCmd(t)
  BY <1>6, GotoInv DEF ExpireMetaCmd, FinalizePcs, Finalizing
<1>7. CASE PublishAcquired(t)
  BY <1>7, ReturnInv DEF PublishAcquired
<1>8. CASE ReadMeta(t)
  <2>1. task[t] \in CallRec
    BY <1>8, InCall DEF IInv, ReadMeta
  <2>2. /\ task'[t].pc = "eval" /\ task'[t].lease = task[t].lease
        /\ \A u \in Tasks \ {t} : task'[u] = task[u]
    BY <1>8, <2>1 DEF IInv, TypeOK, ReadMeta, CallRec
  <2>3. ~Ending(t)' /\ ~Finalizing(t)' /\ task[t].pc # "idle"
    BY <1>8, <2>2 DEF Ending, Finalizing, FinalizePcs, ReadMeta
  <2> QED BY <1>8, <2>2, <2>3, QuietStep DEF ReadMeta
<1>9. CASE LuaRelease(t)
  <2>1. CASE lock[task[t].key] = task[t].holder
    BY <1>9, <2>1, LuaInv
  <2>2. CASE lock[task[t].key] # task[t].holder
    BY <1>9, <2>2, GotoInv DEF LuaRelease, ReleasePcs, FinalizePcs
  <2> QED BY <2>1, <2>2
<1>10. CASE GetReason(t)
  BY <1>10, ReturnInv DEF GetReason
<1>11. CASE DeleteMeta(t)
  BY <1>11, GotoInv DEF DeleteMeta, ReleasePcs, FinalizePcs, Ending
<1>12. CASE PublishReleased(t)
  BY <1>12, PublishInv
<1> QED
  BY <1>1, <1>2, <1>3, <1>4, <1>5, <1>6, <1>7, <1>8, <1>9, <1>10, <1>11,
     <1>12 DEF Step

\* So does every step: calls that begin or stop half way, renewals, TTLs.
LEMMA NextInv == IInv /\ [Next]_vars => IInv'
<1> SUFFICES ASSUME IInv, [Next]_vars
             PROVE  IInv'
  OBVIOUS
<1>0. TypeOK'
  BY NextType DEF IInv
<1> USE <1>0 DEF metaVars, keyVars, eventVars, ghostVars
<1>1. ASSUME NEW t \in Tasks, NEW k \in Keys, NEW h \in Holders,
             NEW pc \in {"set", "hgetall"}, Begin(t, pc, k, h)
      PROVE  IInv'
  <2>1. /\ task'[t].pc = pc /\ task'[t].lease = 0
        /\ \A u \in Tasks \ {t} : task'[u] = task[u]
    BY <1>1 DEF IInv, TypeOK, Begin
  <2>2. ~Ending(t)' /\ ~Finalizing(t)'
    BY <2>1 DEF Ending, Finalizing, FinalizePcs
  <2> QED BY <1>1, <2>1, <2>2, QuietStep DEF Begin
<1>2. ASSUME NEW t \in Tasks, Step(t)
      PROVE  IInv'
  BY <1>2, StepInv
<1>3. ASSUME NEW t \in Tasks, Abort(t)
      PROVE  IInv'
  BY <1>3, ReturnInv DEF Abort
<1>4. ASSUME NEW k \in Keys, ExpireLock(k)
      PROVE  IInv'
  <2>1. \A j \in Keys : lock'[j] \in {lock[j], Nobody}
    BY <1>4 DEF IInv, TypeOK, ExpireLock
  <2> QED BY <1>4, <2>1, KeyInv DEF ExpireLock
<1>5. ASSUME NEW k \in Keys, ExpireMeta(k)
      PROVE  IInv'
  BY <1>5, KeyInv DEF ExpireMeta
<1>6. ASSUME NEW k \in Keys, NEW h \in Holders, Renew(k, h)
      PROVE  IInv'
  BY <1>6, KeyInv DEF Renew
<1>7. CASE UNCHANGED vars
  BY <1>7, KeyInv DEF vars
<1> QED
  BY <1>1, <1>2, <1>3, <1>4, <1>5, <1>6, <1>7
  DEF Next, TryAcquire, Release

\* The strengthened invariant holds in every reachable state: leases are numbered
\* in the order of their SETs, and a call's lease belongs to that call alone.
THEOREM Invariance == Spec => []IInv
  BY InitInv, NextInv, PTL DEF Spec

\* At most one coroutine finalizes a lease, and at most one announces its
\* end: SET NX grants a lease to one call and the compare-and-delete script
\* ends it for one call.
THEOREM LeaseHasOneCall == Spec => []OneCallPerLease
<1>1. IInv => OneCallPerLease
  BY DEF IInv
<1> QED
  BY <1>1, Invariance, PTL
-----------------------------------------------------------------------------
(* The metadata hash always gets its TTL *)

\* A lease is numbered from 1, and 0 stands for "none".
LeasesNumbered ==
    /\ \A k \in Keys : lock[k] # Nobody => current[k] # 0
    /\ \A t \in Tasks : Finalizing(t) => task[t].lease # 0

\* A hash without a TTL belongs to the lease whose call is about to send
\* EXPIRE, or was cut short: no other lease's call can be the one to cure it.
TtlPending ==
    \A k \in Keys : meta[k] # 0 /\ metaTtl[k] = 0 =>
        \/ meta[k] \in aborted
        \/ \E t \in Tasks : /\ At(t, "expire")
                           /\ task[t].key = k
                           /\ task[t].lease = meta[k]

MetaInv == TypeOK /\ LeasesNumbered /\ TtlPending

\* There is no metadata at the start.
LEMMA InitMeta == Init => MetaInv
  BY InitType
  DEF Init, MetaInv, LeasesNumbered, TtlPending, Finalizing, FinalizePcs, Idle

\* A step of one coroutine that leaves the hashes alone and does not take
\* the coroutine away from its EXPIRE.
LEMMA MetaKept ==
  ASSUME MetaInv, NEW t \in Tasks, ~At(t, "expire"),
         UNCHANGED <<meta, metaTtl>>, aborted \subseteq aborted',
         \A u \in Tasks \ {t} : task'[u] = task[u]
  PROVE  TtlPending'
<1> SUFFICES ASSUME NEW k \in Keys, meta[k] # 0, metaTtl[k] = 0,
                    meta[k] \notin aborted'
             PROVE  \E u \in Tasks : /\ task'[u].pc = "expire"
                                    /\ task'[u].key = k
                                    /\ task'[u].lease = meta[k]
  BY DEF TtlPending, At
<1>1. PICK u \in Tasks : At(u, "expire") /\ task[u].key = k
                         /\ task[u].lease = meta[k]
  BY DEF MetaInv, TtlPending
<1>2. u # t
  BY <1>1
<1> QED
  BY <1>1, <1>2 DEF At

\* A step of a coroutine changes its own record only, and puts it in
\* finalization only with a lease in hand.
LEMMA StepLocal ==
  ASSUME MetaInv, NEW t \in Tasks, Step(t)
  PROVE  /\ \A u \in Tasks \ {t} : task'[u] = task[u]
         /\ LeasesNumbered'
         /\ aborted' = aborted
<1> USE DEF metaVars, keyVars, eventVars, ghostVars, At, Finalizing,
            FinalizePcs
<1>1. task[t] \in CallRec
  BY InCall
  DEF MetaInv, Step, SetNx, SetNxRetry, GetHolder, GetHolderAgain, HsetMeta,
      ExpireMetaCmd, PublishAcquired, ReadMeta, LuaRelease, GetReason,
      DeleteMeta, PublishReleased
<1>2. TypeOK /\ LeasesNumbered
  BY DEF MetaInv
<1>3. leases \in Nat /\ \A k \in Keys : current[k] \in Nat
  BY <1>2, LockAssumption DEF TypeOK
<1>4. CASE SetNxOk(t)
  <2>1. /\ task'[t].lease = leases + 1
        /\ \A u \in Tasks \ {t} : task'[u] = task[u]
    BY <1>1, <1>2, <1>4 DEF TypeOK, SetNxOk, CallRec
  <2>2. /\ current'[task[t].key] = leases + 1
        /\ \A k \in Keys \ {task[t].key} : /\ current'[k] = current[k]
                                           /\ lock'[k] = lock[k]
    BY <1>1, <1>2, <1>4 DEF TypeOK, SetNxOk, CallRec
  <2>3. \A k \in Keys : lock'[k] # Nobody => current'[k] # 0
    BY <1>2, <1>3, <2>2 DEF LeasesNumbered
  <2>4. \A u \in Tasks : Finalizing(u)' => task'[u].lease # 0
    BY <1>2, <1>3, <2>1 DEF LeasesNumbered
  <2> QED BY <1>4, <2>1, <2>3, <2>4 DEF LeasesNumbered, SetNxOk
<1>5. CASE \E pc \in Pcs : Goto(t, pc) /\ (pc \in FinalizePcs => Finalizing(t))
           /\ UNCHANGED <<keyVars, aborted>>
  <2>1. PICK pc \in Pcs : Goto(t, pc) /\ (pc \in FinalizePcs => Finalizing(t))
    BY <1>5
  <2>2. /\ task'[t].pc = pc /\ task'[t].lease = task[t].lease
        /\ \A u \in Tasks \ {t} : task'[u] = task[u]
    BY <1>1, <1>2, <2>1 DEF TypeOK, Goto, CallRec
  <2> QED BY <1>2, <1>5, <2>1, <2>2 DEF LeasesNumbered
<1>6. CASE Return(t) /\ UNCHANGED <<keyVars, aborted>>
  <2>1. task'[t].pc = "idle" /\ \A u \in Tasks \ {t} : task'[u] = task[u]
    BY <1>2, <1>6 DEF TypeOK, Return, Idle
  <2> QED BY <1>2, <1>6, <2>1 DEF LeasesNumbered
<1>7. CASE ReadMeta(t)
  <2>1. task'[t].pc = "eval" /\ \A u \in Tasks \ {t} : task'[u] = task[u]
    BY <1>1, <1>2, <1>7 DEF TypeOK, ReadMeta, CallRec
  <2> QED BY <1>2, <1>7, <2>1 DEF LeasesNumbered, ReadMeta
<1>8. CASE LuaRelease(t)
  <2>1. /\ task'[t].pc \in {"deleteMeta", "getReason"}
        /\ \A u \in Tasks \ {t} : task'[u] = task[u]
    BY <1>1, <1>2, <1>8 DEF TypeOK, LuaRelease, CallRec, Goto
  <2>2. \A k \in Keys : lock'[k] \in {lock[k], Nobody}
    BY <1>2, <1>8 DEF TypeOK, LuaRelease
  <2> QED BY <1>2, <1>8, <2>1, <2>2 DEF LeasesNumbered, LuaRelease
<1>9. CASE HsetMeta(t) \/ ExpireMetaCmd(t) \/ DeleteMeta(t)
  <2>1. \E pc \in Pcs : Goto(t, pc) /\ (pc \in FinalizePcs => Finalizing(t))
    BY <1>9 DEF HsetMeta, ExpireMetaCmd, DeleteMeta, Pcs, ReleasePcs
  <2>2. UNCHANGED <<keyVars, aborted>>
    BY <1>9 DEF HsetMeta, ExpireMetaCmd, DeleteMeta
  <2> QED BY <1>5, <2>1, <2>2
<1>10. CASE SetNxFail(t, "get") \/ SetNxFail(t, "getRetry") \/ GetHolder(t)
  <2>1. \/ \E pc \in Pcs : Goto(t, pc) /\ pc \notin FinalizePcs
        \/ Return(t)
    BY <1>10 DEF SetNxFail, GetHolder, Pcs, AcquirePcs
  <2>2. UNCHANGED <<keyVars, aborted>>
    BY <1>10 DEF SetNxFail, GetHolder
  <2> QED BY <1>5, <1>6, <2>1, <2>2
<1>11. CASE \/ GetHolderAgain(t) \/ PublishAcquired(t)
            \/ GetReason(t) \/ PublishReleased(t)
  BY <1>6, <1>11
  DEF GetHolderAgain, PublishAcquired, GetReason, PublishReleased
<1> QED
  BY <1>4, <1>7, <1>8, <1>9, <1>10, <1>11 DEF Step, SetNx, SetNxRetry

\* Every command of a call keeps what is known of the metadata and its TTL.
LEMMA StepMeta ==
  ASSUME MetaInv, NEW t \in Tasks, Step(t)
  PROVE  TtlPending'
<1> USE DEF metaVars, keyVars, eventVars, ghostVars, At
<1>1. /\ \A u \in Tasks \ {t} : task'[u] = task[u]
      /\ aborted' = aborted
  BY StepLocal
<1>2. TypeOK /\ LeasesNumbered /\ TtlPending
  BY DEF MetaInv
<1>3. CASE HsetMeta(t)
  <2> DEFINE k == task[t].key
  <2>1. /\ task'[t].pc = "expire"
        /\ task'[t].key = k /\ task'[t].lease = task[t].lease
    BY <1>2, <1>3, InCall DEF TypeOK, HsetMeta, Goto, CallRec
  <2>2. /\ metaTtl' = metaTtl
        /\ meta'[k] = task[t].lease
        /\ \A j \in Keys \ {k} : meta'[j] = meta[j]
    BY <1>2, <1>3, InCall DEF TypeOK, HsetMeta, CallRec
  <2>3. task[t].pc = "hset"
    BY <1>3 DEF HsetMeta
  <2> SUFFICES ASSUME NEW j \in Keys, meta'[j] # 0, metaTtl'[j] = 0,
                      meta'[j] \notin aborted'
               PROVE  \E u \in Tasks : /\ task'[u].pc = "expire"
                                      /\ task'[u].key = j
                                      /\ task'[u].lease = meta'[j]
    BY DEF TtlPending
  <2>4. CASE j = k
    BY <2>1, <2>2, <2>4
  <2>5. CASE j # k
    <3>1. PICK u \in Tasks : /\ task[u].pc = "expire" /\ task[u].key = j
                             /\ task[u].lease = meta[j]
      BY <1>1, <1>2, <2>2, <2>5 DEF TtlPending
    <3>2. u # t
      BY <2>3, <3>1
    <3> QED BY <1>1, <2>2, <2>5, <3>1, <3>2
  <2> QED BY <2>4, <2>5
<1>4. CASE ExpireMetaCmd(t)
  <2> DEFINE k == task[t].key
  <2>1. /\ meta' = meta
        /\ meta[k] # 0 => metaTtl'[k] = task[t].lease
        /\ \A j \in Keys \ {k} : metaTtl'[j] = metaTtl[j]
    BY <1>2, <1>4, InCall DEF TypeOK, ExpireMetaCmd, CallRec
  <2>2. task[t].lease # 0
    BY <1>2, <1>4 DEF LeasesNumbered, Finalizing, FinalizePcs, ExpireMetaCmd
  <2> SUFFICES ASSUME NEW j \in Keys, meta'[j] # 0, metaTtl'[j] = 0,
                      meta'[j] \notin aborted'
               PROVE  \E u \in Tasks : /\ task'[u].pc = "expire"
                                      /\ task'[u].key = j
                                      /\ task'[u].lease = meta'[j]
    BY DEF TtlPending
  <2>3. j # k
    BY <2>1, <2>2
  <2>4. PICK u \in Tasks : /\ task[u].pc = "expire" /\ task[u].key = j
                           /\ task[u].lease = meta[j]
    BY <1>1, <1>2, <2>1, <2>3 DEF TtlPending
  <2>5. u # t
    BY <2>3, <2>4
  <2> QED BY <1>1, <2>1, <2>4, <2>5
<1>5. CASE DeleteMeta(t)
  <2> DEFINE k == task[t].key
  <2>1. /\ meta'[k] = 0
        /\ \A j \in Keys \ {k} : meta'[j] = meta[j] /\ metaTtl'[j] = metaTtl[j]
    BY <1>2, <1>5, InCall DEF TypeOK, DeleteMeta, CallRec
  <2>2. task[t].pc # "expire"
    BY <1>5 DEF DeleteMeta
  <2> SUFFICES ASSUME NEW j \in Keys, meta'[j] # 0, metaTtl'[j] = 0,
                      meta'[j] \notin aborted'
               PROVE  \E u \in Tasks : /\ task'[u].pc = "expire"
                                      /\ task'[u].key = j
                                      /\ task'[u].lease = meta'[j]
    BY DEF TtlPending
  <2>3. j # k
    BY <2>1
  <2>4. PICK u \in Tasks : /\ task[u].pc = "expire" /\ task[u].key = j
                           /\ task[u].lease = meta[j]
    BY <1>1, <1>2, <2>1, <2>3 DEF TtlPending
  <2>5. u # t
    BY <2>2, <2>4
  <2> QED BY <1>1, <2>1, <2>3, <2>4, <2>5
<1>6. CASE \/ SetNx(t) \/ SetNxRetry(t) \/ GetHolder(t) \/ GetHolderAgain(t)
           \/ PublishAcquired(t) \/ ReadMeta(t) \/ LuaRelease(t)
           \/ GetReason(t) \/ PublishReleased(t)
  <2>1. /\ UNCHANGED <<meta, metaTtl>>
        /\ task[t].pc # "expire"
    BY <1>6
    DEF SetNx, SetNxRetry, SetNxOk, SetNxFail, GetHolder, GetHolderAgain,
        PublishAcquired, ReadMeta, LuaRelease, GetReason, PublishReleased
  <2> QED BY <1>1, <2>1, MetaKept
<1> QED
  BY <1>3, <1>4, <1>5, <1>6 DEF Step

\* So does every step.
LEMMA NextMeta == MetaInv /\ [Next]_vars => MetaInv'
<1> SUFFICES ASSUME MetaInv, [Next]_vars
             PROVE  MetaInv'
  OBVIOUS
<1> USE DEF metaVars, keyVars, eventVars, ghostVars, At
<1>1. TypeOK /\ LeasesNumbered /\ TtlPending
  BY DEF MetaInv
<1>2. TypeOK'
  BY <1>1, NextType
<1>3. ASSUME NEW t \in Tasks, NEW k \in Keys, NEW h \in Holders,
             NEW pc \in {"set", "hgetall"}, Begin(t, pc, k, h)
      PROVE  LeasesNumbered' /\ TtlPending'
  <2>1. task'[t].pc = pc /\ \A u \in Tasks \ {t} : task'[u] = task[u]
    BY <1>1, <1>3 DEF TypeOK, Begin
  <2>2. LeasesNumbered'
    BY <1>1, <1>3, <2>1 DEF LeasesNumbered, Finalizing, FinalizePcs, Begin
  <2>3. TtlPending'
    BY <1>3, <2>1, MetaKept DEF Begin
  <2> QED BY <2>2, <2>3
<1>4. ASSUME NEW t \in Tasks, Step(t)
      PROVE  LeasesNumbered' /\ TtlPending'
  BY <1>4, StepLocal, StepMeta
<1>5. ASSUME NEW t \in Tasks, Abort(t)
      PROVE  LeasesNumbered' /\ TtlPending'
  <2>1. task'[t].pc = "idle" /\ \A u \in Tasks \ {t} : task'[u] = task[u]
    BY <1>1, <1>5 DEF TypeOK, Abort, Return, Idle
  <2>2. LeasesNumbered'
    BY <1>1, <1>5, <2>1 DEF LeasesNumbered, Finalizing, FinalizePcs, Abort
  <2>3. CASE task[t].pc # "expire"
    BY <1>5, <2>1, <2>2, <2>3, MetaKept DEF Abort
  <2>4. CASE task[t].pc = "expire"
    <3>1. /\ aborted' = aborted \cup {task[t].lease}
          /\ meta' = meta /\ metaTtl' = metaTtl
      BY <1>1, <1>5, <2>4
      DEF LeasesNumbered, Finalizing, FinalizePcs, Abort
    <3> SUFFICES ASSUME NEW j \in Keys, meta[j] # 0, metaTtl[j] = 0,
                        meta[j] \notin aborted'
                 PROVE  \E u \in Tasks : /\ task'[u].pc = "expire"
                                        /\ task'[u].key = j
                                        /\ task'[u].lease = meta[j]
      BY <2>2, <3>1 DEF TtlPending
    <3>2. PICK u \in Tasks : /\ task[u].pc = "expire" /\ task[u].key = j
                             /\ task[u].lease = meta[j]
      BY <1>1, <3>1 DEF TtlPending
    <3>3. u # t
      BY <3>1, <3>2
    <3> QED BY <2>1, <3>2, <3>3
  <2> QED BY <2>3, <2>4
<1>6. ASSUME NEW k \in Keys, ExpireLock(k)
      PROVE  LeasesNumbered' /\ TtlPending'
  <2>1. \A j \in Keys : lock'[j] \in {lock[j], Nobody}
    BY <1>1, <1>6 DEF TypeOK, ExpireLock
  <2> QED
    BY <1>1, <1>6, <2>1
    DEF LeasesNumbered, TtlPending, ExpireLock, Finalizing
<1>7. ASSUME NEW k \in Keys, ExpireMeta(k)
      PROVE  LeasesNumbered' /\ TtlPending'
  BY <1>1, <1>7
  DEF TypeOK, LeasesNumbered, TtlPending, ExpireMeta, Finalizing
<1>8. ASSUME NEW k \in Keys, NEW h \in Holders, Renew(k, h)
      PROVE  LeasesNumbered' /\ TtlPending'
  <2>1. current[k] # 0
    BY <1>1, <1>8, LockAssumption DEF LeasesNumbered, Renew
  <2>2. LeasesNumbered'
    BY <1>1, <1>8 DEF LeasesNumbered, Renew, Finalizing
  <2>3. /\ meta[k] # 0 => metaTtl'[k] # 0
        /\ \A j \in Keys \ {k} : metaTtl'[j] = metaTtl[j]
    BY <1>1, <1>8, <2>1 DEF TypeOK, Renew
  <2>4. TtlPending'
    BY <1>1, <1>8, <2>3 DEF TtlPending, Renew
  <2> QED BY <2>2, <2>4
<1>9. ASSUME UNCHANGED vars
      PROVE  LeasesNumbered' /\ TtlPending'
  BY <1>1, <1>9 DEF LeasesNumbered, TtlPending, vars, Finalizing
<1>10. LeasesNumbered' /\ TtlPending'
  BY <1>3, <1>4, <1>5, <1>6, <1>7, <1>8, <1>9
  DEF Next, TryAcquire, Release
<1> QED
  BY <1>2, <1>10 DEF MetaInv

\* A metadata hash without a TTL is one whose acquirer still has the EXPIRE to
\* send, or was cut short between HSET and EXPIRE: interleavings alone never
\* leave a hash behind for good.
THEOREM MetadataExpires == Spec => []NoImmortalMetadata
<1>1. MetaInv => NoImmortalMetadata
  BY DEF MetaInv, TtlPending, NoImmortalMetadata
<1> QED
  BY <1>1, InitMeta, NextMeta, PTL DEF Spec

-----------------------------------------------------------------------------
(* Refinement of LockContract: a call of the adapter takes effect at one    *)
(* Redis command, the SET NX that succeeds, the GET that sees another       *)
(* holder, or the compare-and-delete script; every other command is a       *)
(* stutter of the contract.                                                 *)

\* The contract's variable call, as the refinement mapping computes it.
CallMap == [t \in Tasks |-> PendingCall(task[t])]

\* Before its effect a call of either kind is pending in the contract.
LEMMA AcquirePending ==
  ASSUME NEW r \in CallRec, r.pc \in {"set", "get", "setRetry"}
  PROVE  /\ PendingCall(r) \in Contract!Calls
         /\ PendingCall(r).op = "acquire"
         /\ PendingCall(r).key = r.key
         /\ PendingCall(r).holder = r.holder
<1>1. PendingCall(r) = [op |-> "acquire", key |-> r.key, holder |-> r.holder]
  BY DEF PendingCall
<1>2. r.key \in Keys /\ r.holder \in Holders
  BY DEF CallRec
<1> QED
  BY <1>1, <1>2 DEF Contract!Calls

\* Likewise a release, until its script has run.
LEMMA ReleasePending ==
  ASSUME NEW r \in CallRec, r.pc \in {"hgetall", "eval"}
  PROVE  /\ PendingCall(r) \in Contract!Calls
         /\ PendingCall(r).op = "release"
         /\ PendingCall(r).key = r.key
         /\ PendingCall(r).holder = r.holder
<1>1. PendingCall(r) = [op |-> "release", key |-> r.key, holder |-> r.holder]
  BY DEF PendingCall
<1>2. r.key \in Keys /\ r.holder \in Holders
  BY DEF CallRec
<1> QED
  BY <1>1, <1>2 DEF Contract!Calls

\* After its effect, and between calls, nothing is pending.
LEMMA NothingPending ==
  ASSUME NEW r, r.pc \notin {"set", "get", "setRetry", "hgetall", "eval"}
  PROVE  PendingCall(r) = Contract!NoCall
  BY DEF PendingCall, Contract!NoCall

\* A coroutine outside any call has nothing pending.
LEMMA IdlePending == PendingCall(Idle) = Contract!NoCall
  BY DEF PendingCall, Contract!NoCall, Idle

\* A step of one coroutine changes the contract's view of its own call only.
LEMMA OneCallChanges ==
  ASSUME NEW t \in Tasks, \A u \in Tasks \ {t} : task'[u] = task[u]
  PROVE  CallMap' = [CallMap EXCEPT ![t] = PendingCall(task'[t])]
  BY DEF CallMap

\* A step that leaves that view alone is a stutter of the variable call.
LEMMA CallStutters ==
  ASSUME NEW t \in Tasks, \A u \in Tasks \ {t} : task'[u] = task[u],
         PendingCall(task'[t]) = PendingCall(task[t])
  PROVE  CallMap' = CallMap
  BY DEF CallMap

\* The two ways a coroutine's record changes.
LEMMA GotoEffect ==
  ASSUME TypeOK, NEW t \in Tasks, task[t].pc # "idle", NEW pc \in Pcs,
         Goto(t, pc)
  PROVE  /\ task[t] \in CallRec
         /\ task'[t] \in CallRec
         /\ task'[t].pc = pc
         /\ task'[t].key = task[t].key
         /\ task'[t].holder = task[t].holder
         /\ \A u \in Tasks \ {t} : task'[u] = task[u]
<1>1. task[t] \in CallRec
  BY InCall
<1>2. [task[t] EXCEPT !.pc = pc] \in CallRec
  BY <1>1 DEF CallRec
<1>3. task'[t] = [task[t] EXCEPT !.pc = pc]
  BY DEF TypeOK, Goto
<1> QED
  BY <1>1, <1>2, <1>3 DEF TypeOK, Goto, CallRec

\* A return ends the coroutine's pending call, if there is one.
LEMMA ReturnEffect ==
  ASSUME TypeOK, NEW t \in Tasks, Return(t)
  PROVE  /\ task'[t] = Idle
         /\ \A u \in Tasks \ {t} : task'[u] = task[u]
  BY DEF TypeOK, Return

-----------------------------------------------------------------------------
\* The adapter starts in a state the contract may start in.
LEMMA InitRefines == Init => Contract!Init
<1> SUFFICES ASSUME Init
             PROVE  Contract!Init
  OBVIOUS
<1>1. [t \in Tasks |-> PendingCall(task[t])] = [t \in Tasks |-> Contract!NoCall]
  BY IdlePending DEF Init
<1> QED
  BY <1>1 DEF Init, Contract!Init

\* A command after which the call is pending as before, or settled as before.
LEMMA GotoStutters ==
  ASSUME TypeOK, NEW t \in Tasks, task[t].pc # "idle", NEW pc \in Pcs,
         Goto(t, pc),
         \/ {task[t].pc, pc} \subseteq {"set", "get", "setRetry"}
         \/ {task[t].pc, pc} \subseteq {"hgetall", "eval"}
         \/ {task[t].pc, pc} \cap {"set", "get", "setRetry", "hgetall", "eval"}
              = {}
  PROVE  CallMap' = CallMap
<1>1. /\ task'[t].pc = pc
      /\ task'[t].key = task[t].key
      /\ task'[t].holder = task[t].holder
      /\ \A u \in Tasks \ {t} : task'[u] = task[u]
  BY GotoEffect
<1>2. PendingCall(task'[t]) = PendingCall(task[t])
  BY <1>1 DEF PendingCall
<1> QED
  BY <1>1, <1>2, CallStutters

\* A SET NX that succeeds is the Grant of the contract.
LEMMA GrantRefines ==
  ASSUME TypeOK, NEW t \in Tasks, task[t].pc \in {"set", "setRetry"},
         SetNxOk(t)
  PROVE  Contract!Grant(t)
<1>1. task[t] \in CallRec
  BY InCall
<1>2. /\ CallMap[t] = PendingCall(task[t])
      /\ PendingCall(task[t]) \in Contract!Calls
      /\ PendingCall(task[t]).op = "acquire"
      /\ PendingCall(task[t]).key = task[t].key
      /\ PendingCall(task[t]).holder = task[t].holder
  BY <1>1, AcquirePending DEF CallMap
<1>3. /\ task'[t].pc = "hset"
      /\ \A u \in Tasks \ {t} : task'[u] = task[u]
  BY <1>1 DEF TypeOK, SetNxOk, CallRec
<1>4. CallMap' = [CallMap EXCEPT ![t] = Contract!NoCall]
  BY <1>3, OneCallChanges, NothingPending
<1> QED
  BY <1>2, <1>4
  DEF SetNxOk, CallMap, Contract!Grant, Contract!Pending, Contract!Done,
      eventVars

\* A pending call that is settled without any effect on the key.
LEMMA RefuseRefines ==
  ASSUME TypeOK, NEW t \in Tasks,
         \/ /\ task[t].pc \in {"set", "get", "setRetry"}
            /\ lock[task[t].key] # Nobody
         \/ /\ task[t].pc \in {"hgetall", "eval"}
            /\ lock[task[t].key] # task[t].holder,
         \A u \in Tasks \ {t} : task'[u] = task[u],
         PendingCall(task'[t]) = Contract!NoCall,
         UNCHANGED <<lock, current, leases, released, announced>>
  PROVE  Contract!Refuse(t)
<1>1. task[t] \in CallRec
  BY InCall
<1>2. CallMap' = [CallMap EXCEPT ![t] = Contract!NoCall]
  BY OneCallChanges
<1>3. CallMap[t] = PendingCall(task[t])
  BY DEF CallMap
<1>4. CASE task[t].pc \in {"set", "get", "setRetry"}
  BY <1>1, <1>2, <1>3, <1>4, AcquirePending
  DEF CallMap, Contract!Refuse, Contract!Pending, Contract!Done
<1>5. CASE task[t].pc \in {"hgetall", "eval"}
  BY <1>1, <1>2, <1>3, <1>5, ReleasePending
  DEF CallMap, Contract!Refuse, Contract!Pending, Contract!Done
<1> QED
  BY <1>4, <1>5

\* A script that deletes the key is the Release of the contract.
LEMMA LuaRefines ==
  ASSUME TypeOK, NEW t \in Tasks, LuaRelease(t),
         lock[task[t].key] = task[t].holder
  PROVE  Contract!Release(t)
<1>1. task[t] \in CallRec /\ task[t].pc = "eval"
  BY InCall DEF LuaRelease, At
<1>2. /\ CallMap[t] = PendingCall(task[t])
      /\ PendingCall(task[t]) \in Contract!Calls
      /\ PendingCall(task[t]).op = "release"
      /\ PendingCall(task[t]).key = task[t].key
      /\ PendingCall(task[t]).holder = task[t].holder
  BY <1>1, ReleasePending DEF CallMap
<1>3. /\ task'[t].pc = "deleteMeta"
      /\ \A u \in Tasks \ {t} : task'[u] = task[u]
  BY <1>1 DEF TypeOK, LuaRelease, CallRec
<1>4. CallMap' = [CallMap EXCEPT ![t] = Contract!NoCall]
  BY <1>3, OneCallChanges, NothingPending
<1> QED
  BY <1>2, <1>4
  DEF LuaRelease, CallMap, Contract!Release, Contract!Pending, Contract!Done

\* Publishing the released event is the Announce of the contract.
LEMMA PublishRefines ==
  ASSUME IInv, NEW t \in Tasks, PublishReleased(t)
  PROVE  Contract!Announce(task[t].lease) /\ task[t].lease \in released
<1>1. task[t].lease \in released \ announced
  BY DEF IInv, EndedNotAnnounced, Ending, PublishReleased, At
<1>2. task'[t] = Idle /\ \A u \in Tasks \ {t} : task'[u] = task[u]
  BY ReturnEffect DEF IInv, PublishReleased
<1>3. PendingCall(task[t]) = Contract!NoCall
  BY NothingPending DEF PublishReleased, At
<1>4. CallMap' = CallMap
  BY <1>2, <1>3, IdlePending, CallStutters
<1> QED
  BY <1>1, <1>4 DEF PublishReleased, CallMap, Contract!Announce, keyVars

\* What an aborted call had pending fails; a settled call only stutters.
LEMMA AbortRefines ==
  ASSUME TypeOK, NEW t \in Tasks, Abort(t)
  PROVE  Contract!Fail(t) \/ UNCHANGED Contract!vars
<1>1. /\ task[t] \in CallRec
      /\ task'[t] = Idle /\ \A u \in Tasks \ {t} : task'[u] = task[u]
  BY InCall, ReturnEffect DEF Abort, At
<1>2. UNCHANGED <<lock, current, leases, released, announced>>
  BY DEF Abort, keyVars, eventVars
<1>3. CASE task[t].pc \in {"set", "get", "setRetry", "hgetall", "eval"}
  <2>1. PendingCall(task[t]) \in Contract!Calls
    BY <1>1, <1>3, AcquirePending, ReleasePending
  <2>2. CallMap' = [CallMap EXCEPT ![t] = Contract!NoCall]
    BY <1>1, OneCallChanges, IdlePending
  <2> QED
    BY <1>2, <2>1, <2>2 DEF CallMap, Contract!Fail, Contract!Done
<1>4. CASE task[t].pc \notin {"set", "get", "setRetry", "hgetall", "eval"}
  <2>1. CallMap' = CallMap
    BY <1>1, <1>4, NothingPending, IdlePending, CallStutters
  <2> QED
    BY <1>2, <2>1 DEF CallMap, Contract!vars
<1> QED
  BY <1>3, <1>4

\* A call begins pending.
LEMMA BeginRefines ==
  ASSUME TypeOK, NEW t \in Tasks, NEW k \in Keys, NEW h \in Holders,
         NEW pc \in {"set", "hgetall"}, Begin(t, pc, k, h)
  PROVE  \E r \in Contract!Calls : Contract!Invoke(t, r)
<1> DEFINE r == [pc |-> pc, key |-> k, holder |-> h, lease |-> 0,
                 named |-> FALSE]
<1>1. r \in CallRec
  BY LockAssumption DEF CallRec, Pcs, AcquirePcs, ReleasePcs
<1>2. /\ task'[t] = r
      /\ \A u \in Tasks \ {t} : task'[u] = task[u]
  BY DEF TypeOK, Begin
<1>3. PendingCall(r) \in Contract!Calls
  BY <1>1, AcquirePending, ReleasePending
<1>4. PendingCall(task[t]) = Contract!NoCall
  BY NothingPending DEF Begin, At
<1>5. CallMap' = [CallMap EXCEPT ![t] = PendingCall(r)]
  BY <1>2, OneCallChanges
<1>6. Contract!Invoke(t, PendingCall(r))
  BY <1>4, <1>5 DEF Begin, CallMap, Contract!Invoke, keyVars, eventVars
<1> QED
  BY <1>3, <1>6

\* Every command of a call is a step of the contract or a stutter.
LEMMA StepRefines ==
  ASSUME IInv, NEW t \in Tasks, Step(t)
  PROVE  [Contract!Next]_(Contract!vars)
<1> USE DEF metaVars, keyVars, eventVars, ghostVars, At, Pcs
<1>0. TypeOK
  BY DEF IInv
<1>1. ASSUME CallMap' = CallMap,
             UNCHANGED <<lock, current, leases, released, announced>>
      PROVE  UNCHANGED Contract!vars
  BY <1>1 DEF CallMap, Contract!vars
<1>2. ASSUME Contract!Grant(t) \/ Contract!Release(t) \/ Contract!Refuse(t)
      PROVE  Contract!Next
  BY <1>2 DEF Contract!Next
<1>3. CASE SetNx(t)
  <2>1. CASE SetNxOk(t)
    BY <1>0, <1>2, <1>3, <2>1, GrantRefines DEF SetNx
  <2>2. CASE SetNxFail(t, "get")
    BY <1>0, <1>1, <1>3, <2>2, GotoStutters DEF SetNx, SetNxFail, AcquirePcs
  <2> QED BY <1>3, <2>1, <2>2 DEF SetNx
<1>4. CASE SetNxRetry(t)
  <2>1. CASE SetNxOk(t)
    BY <1>0, <1>2, <1>4, <2>1, GrantRefines DEF SetNxRetry
  <2>2. CASE SetNxFail(t, "getRetry")
    <3>1. /\ task'[t].pc = "getRetry"
          /\ \A u \in Tasks \ {t} : task'[u] = task[u]
      BY <1>0, <1>4, <2>2, GotoEffect DEF SetNxRetry, SetNxFail, AcquirePcs
    <3>2. Contract!Refuse(t)
      BY <1>0, <1>4, <2>2, <3>1, NothingPending, RefuseRefines
      DEF SetNxRetry, SetNxFail
    <3> QED BY <1>2, <3>2
  <2> QED BY <1>4, <2>1, <2>2 DEF SetNxRetry
<1>5. CASE GetHolder(t)
  <2>1. CASE lock[task[t].key] = Nobody
    BY <1>0, <1>1, <1>5, <2>1, GotoStutters DEF GetHolder, AcquirePcs
  <2>2. CASE lock[task[t].key] # Nobody
    BY <1>0, <1>2, <1>5, <2>2, ReturnEffect, IdlePending, RefuseRefines
    DEF GetHolder
  <2> QED BY <2>1, <2>2
<1>6. CASE GetHolderAgain(t)
  BY <1>0, <1>1, <1>6, ReturnEffect, NothingPending, CallStutters, IdlePending
  DEF GetHolderAgain
<1>7. CASE HsetMeta(t)
  BY <1>0, <1>1, <1>7, GotoStutters DEF HsetMeta, FinalizePcs
<1>8. CASE ExpireMetaCmd(t)
  BY <1>0, <1>1, <1>8, GotoStutters DEF ExpireMetaCmd, FinalizePcs
<1>9. CASE PublishAcquired(t)
  BY <1>0, <1>1, <1>9, ReturnEffect, NothingPending, CallStutters, IdlePending
  DEF PublishAcquired
<1>10. CASE ReadMeta(t)
  <2>1. task[t] \in CallRec
    BY <1>0, <1>10, InCall DEF ReadMeta
  <2>2. /\ task'[t].pc = "eval"
        /\ task'[t].key = task[t].key
        /\ task'[t].holder = task[t].holder
        /\ \A u \in Tasks \ {t} : task'[u] = task[u]
    BY <1>0, <1>10, <2>1 DEF TypeOK, ReadMeta, CallRec
  <2>3. PendingCall(task'[t]) = PendingCall(task[t])
    BY <1>10, <2>2 DEF PendingCall, ReadMeta
  <2> QED BY <1>1, <1>10, <2>2, <2>3, CallStutters DEF ReadMeta
<1>11. CASE LuaRelease(t)
  <2>1. CASE lock[task[t].key] = task[t].holder
    BY <1>0, <1>2, <1>11, <2>1, LuaRefines
  <2>2. CASE lock[task[t].key] # task[t].holder
    <3>1. /\ task'[t].pc = "getReason"
          /\ \A u \in Tasks \ {t} : task'[u] = task[u]
      BY <1>0, <1>11, <2>2, GotoEffect DEF LuaRelease, ReleasePcs
    <3>2. Contract!Refuse(t)
      BY <1>0, <1>11, <2>2, <3>1, NothingPending, RefuseRefines
      DEF LuaRelease
    <3> QED BY <1>2, <3>2
  <2> QED BY <2>1, <2>2
<1>12. CASE GetReason(t)
  BY <1>0, <1>1, <1>12, ReturnEffect, NothingPending, CallStutters, IdlePending
  DEF GetReason
<1>13. CASE DeleteMeta(t)
  BY <1>0, <1>1, <1>13, GotoStutters DEF DeleteMeta, ReleasePcs
<1>14. CASE PublishReleased(t)
  BY <1>14, PublishRefines DEF Contract!Next
<1> QED
  BY <1>3, <1>4, <1>5, <1>6, <1>7, <1>8, <1>9, <1>10, <1>11, <1>12, <1>13,
     <1>14 DEF Step

\* Every step of the adapter is a step of the contract or a stutter.
LEMMA NextRefines == IInv /\ [Next]_vars => [Contract!Next]_(Contract!vars)
<1> SUFFICES ASSUME IInv, [Next]_vars
             PROVE  [Contract!Next]_(Contract!vars)
  OBVIOUS
<1> USE DEF metaVars, keyVars, eventVars, ghostVars
<1>0. TypeOK
  BY DEF IInv
<1>1. ASSUME NEW t \in Tasks, NEW k \in Keys, NEW h \in Holders,
             NEW pc \in {"set", "hgetall"}, Begin(t, pc, k, h)
      PROVE  Contract!Next
  BY <1>0, <1>1, BeginRefines DEF Contract!Next
<1>2. ASSUME NEW t \in Tasks, Step(t)
      PROVE  [Contract!Next]_(Contract!vars)
  BY <1>2, StepRefines
<1>3. ASSUME NEW t \in Tasks, Abort(t)
      PROVE  [Contract!Next]_(Contract!vars)
  BY <1>0, <1>3, AbortRefines DEF Contract!Next
<1>4. ASSUME UNCHANGED <<lock, current, leases, task, released, announced>>
      PROVE  UNCHANGED Contract!vars
  BY <1>4 DEF Contract!vars
<1>5. ASSUME NEW k \in Keys, ExpireLock(k)
      PROVE  Contract!Next
  <2>1. CallMap' = CallMap
    BY <1>5 DEF ExpireLock, CallMap
  <2>2. Contract!Expire(k)
    BY <1>5, <2>1 DEF ExpireLock, CallMap, Contract!Expire
  <2> QED BY <2>2 DEF Contract!Next
<1>6. ASSUME NEW k \in Keys, ExpireMeta(k)
      PROVE  UNCHANGED Contract!vars
  BY <1>4, <1>6 DEF ExpireMeta
<1>7. ASSUME NEW k \in Keys, NEW h \in Holders, Renew(k, h)
      PROVE  UNCHANGED Contract!vars
  BY <1>4, <1>7 DEF Renew
<1>8. CASE UNCHANGED vars
  BY <1>4, <1>8 DEF vars
<1> QED
  BY <1>1, <1>2, <1>3, <1>5, <1>6, <1>7, <1>8
  DEF Next, TryAcquire, Release

\* The adapter implements the contract of IDistributedLock: seen from its
\* callers, every call is granted, refused, ended or failed at one instant.
THEOREM Refinement == Spec => ImplementsContract
<1>1. IInv /\ [Next]_vars => [Contract!Next]_(Contract!vars)
  BY NextRefines
<1> QED
  BY <1>1, InitRefines, Invariance, PTL
  DEF Spec, ImplementsContract, Contract!Spec
=============================================================================
