------------------------ MODULE RedisDistributedLock ------------------------
(***************************************************************************)
(* RedisDistributedLock (adapters/secondary/redis_distributed_lock.py).    *)
(* A lock is a Redis string key written by SET NX EX; a sibling hash holds *)
(* the metadata of the acquisition.  Every await of the adapter is a point *)
(* where other coroutines run, so each Redis command is an action of its   *)
(* own and a call is a task that walks through them.                       *)
(*                                                                         *)
(* Leases are numbered by the SET that started them.  The number stands    *)
(* for what tells two acquisitions apart (acquired_at); the program itself *)
(* compares holder ids only.                                               *)
(***************************************************************************)
EXTENDS Integers, FiniteSets

CONSTANTS Keys,       \* lock keys "project:board"
          Holders,    \* holder ids (work item ids)
          Nobody,     \* an absent lock key
          Tasks,      \* coroutines that may be inside a call at one time
          MaxLeases,  \* bound: acquisitions in a behaviour
          MaxAborts,  \* bound: leases whose call stops half way
          TtlsElapse  \* whether the two-hour TTLs run out in the behaviour

ASSUME LockAssumption == /\ Nobody \notin Holders
                         /\ MaxLeases \in Nat
                         /\ MaxAborts \in Nat
                         /\ TtlsElapse \in BOOLEAN

VARIABLES lock,      \* lock[k]: value of the lock key, Nobody when absent
          current,   \* current[k]: number of the latest lease of k
          leases,    \* leases granted so far
          meta,      \* meta[k]: lease whose HSET wrote the hash, 0 when absent
          metaTtl,   \* metaTtl[k]: lease whose EXPIRE gave its TTL, 0 if none
          task,      \* task[t]: the call coroutine t is in
          released,  \* leases ended by a release
          announced, \* leases whose PipelineLockReleasedEvent was published
          finalized, \* leases whose try_acquire ran to its end
          aborted    \* leases whose acquire or release was cut short

keyVars == <<lock, current, leases>>
metaVars == <<meta, metaTtl>>
eventVars == <<released, announced>>
ghostVars == <<finalized, aborted>>
vars == <<lock, current, leases, meta, metaTtl, task, released, announced,
          finalized, aborted>>

Leases == 1 .. MaxLeases
AcquirePcs == {"set", "get", "setRetry", "getRetry"}
FinalizePcs == {"hset", "expire", "publishAcquired"}
ReleasePcs == {"hgetall", "eval", "getReason", "deleteMeta", "publishReleased"}
Pcs == AcquirePcs \cup FinalizePcs \cup ReleasePcs

\* lease: the lease the call obtained (acquire) or ended (release).
\* named: release() found project and board in the metadata it read.
Idle == [pc |-> "idle"]
CallRec == [pc : Pcs, key : Keys, holder : Holders, lease : 0 .. MaxLeases,
            named : BOOLEAN]

At(t, pc) == task[t].pc = pc
Goto(t, pc) == task' = [task EXCEPT ![t].pc = pc]
Return(t) == task' = [task EXCEPT ![t] = Idle]

Init == /\ lock = [k \in Keys |-> Nobody]
        /\ current = [k \in Keys |-> 0]
        /\ leases = 0
        /\ meta = [k \in Keys |-> 0]
        /\ metaTtl = [k \in Keys |-> 0]
        /\ task = [t \in Tasks |-> Idle]
        /\ released = {} /\ announced = {}
        /\ finalized = {} /\ aborted = {}

Begin(t, pc, k, h) ==
    /\ At(t, "idle")
    /\ task' = [task EXCEPT ![t] = [pc |-> pc, key |-> k, holder |-> h,
                                    lease |-> 0, named |-> FALSE]]
    /\ UNCHANGED <<keyVars, metaVars, eventVars, ghostVars>>

TryAcquire(t, k, h) == Begin(t, "set", k, h)
Release(t, k, h) == Begin(t, "hgetall", k, h)
-----------------------------------------------------------------------------
(* try_acquire *)

\* Mutant: SET without NX, unless the key is the caller's own.
SetOverwrites(t) == LET k == task[t].key IN
    /\ lock[k] # task[t].holder
    /\ leases < MaxLeases
    /\ lock' = [lock EXCEPT ![k] = task[t].holder]
    /\ leases' = leases + 1
    /\ current' = [current EXCEPT ![k] = leases + 1]
    /\ task' = [task EXCEPT ![t].pc = "hset", ![t].lease = leases + 1]
    /\ UNCHANGED <<metaVars, eventVars, ghostVars>>

\* SET NX EX succeeds: the lease starts and finalization follows.
SetNxOk(t) == LET k == task[t].key IN
    /\ lock[k] = Nobody
    /\ leases < MaxLeases
    /\ lock' = [lock EXCEPT ![k] = task[t].holder]
    /\ leases' = leases + 1
    /\ current' = [current EXCEPT ![k] = leases + 1]
    /\ task' = [task EXCEPT ![t].pc = "hset", ![t].lease = leases + 1]
    /\ UNCHANGED <<metaVars, eventVars, ghostVars>>

SetNxFail(t, next) ==
    /\ lock[task[t].key] # Nobody
    /\ Goto(t, next)
    /\ UNCHANGED <<keyVars, metaVars, eventVars, ghostVars>>

SetNx(t) == At(t, "set") /\ (SetNxOk(t) \/ SetNxFail(t, "get"))
SetNxRetry(t) == At(t, "setRetry") /\ (SetNxOk(t) \/ SetNxFail(t, "getRetry"))

\* GET after a failed SET: a vanished key is retried once, a present one
\* decides ALREADY_HELD_BY_SELF or ALREADY_HELD_BY_OTHER.
GetHolder(t) ==
    /\ At(t, "get")
    /\ IF lock[task[t].key] = Nobody THEN Goto(t, "setRetry") ELSE Return(t)
    /\ UNCHANGED <<keyVars, metaVars, eventVars, ghostVars>>

\* The second GET returns in every case ("unknown" when the key is gone).
GetHolderAgain(t) ==
    /\ At(t, "getRetry")
    /\ Return(t)
    /\ UNCHANGED <<keyVars, metaVars, eventVars, ghostVars>>

\* Mutant: the EXPIRE of the hash is left out.
HsetMetaForever(t) == LET k == task[t].key IN
    /\ At(t, "hset")
    /\ meta' = [meta EXCEPT ![k] = task[t].lease]
    /\ Goto(t, "publishAcquired")
    /\ UNCHANGED <<keyVars, metaTtl, eventVars, ghostVars>>

\* _finalize_acquisition: HSET, EXPIRE, publish.  HSET keeps the TTL a hash
\* already has; EXPIRE on a hash that is gone does nothing.
HsetMeta(t) == LET k == task[t].key IN
    /\ At(t, "hset")
    /\ meta' = [meta EXCEPT ![k] = task[t].lease]
    /\ Goto(t, "expire")
    /\ UNCHANGED <<keyVars, metaTtl, eventVars, ghostVars>>

ExpireMetaCmd(t) == LET k == task[t].key IN
    /\ At(t, "expire")
    /\ metaTtl' = [metaTtl EXCEPT ![k] = IF meta[k] = 0 THEN 0
                                         ELSE task[t].lease]
    /\ Goto(t, "publishAcquired")
    /\ UNCHANGED <<keyVars, meta, eventVars, ghostVars>>

\* Mutant: the event carries the holder where the acquisition belongs.
PublishHolder(t) ==
    /\ At(t, "publishAcquired")
    /\ finalized' = finalized \cup {task[t].holder}
    /\ Return(t)
    /\ UNCHANGED <<keyVars, metaVars, eventVars, aborted>>

PublishAcquired(t) ==
    /\ At(t, "publishAcquired")
    /\ finalized' = finalized \cup {task[t].lease}
    /\ Return(t)
    /\ UNCHANGED <<keyVars, metaVars, eventVars, aborted>>
-----------------------------------------------------------------------------
(* release *)

ReadMeta(t) ==
    /\ At(t, "hgetall")
    /\ task' = [task EXCEPT ![t].pc = "eval",
                            ![t].named = (meta[task[t].key] # 0)]
    /\ UNCHANGED <<keyVars, metaVars, eventVars, ghostVars>>

\* Mutant: DEL in place of the script, no comparison with the holder id.
DelKey(t) == LET k == task[t].key IN
    /\ At(t, "eval")
    /\ lock' = [lock EXCEPT ![k] = Nobody]
    /\ released' = released \cup {current[k]}
    /\ task' = [task EXCEPT ![t].pc = "deleteMeta", ![t].lease = current[k]]
    /\ UNCHANGED <<current, leases, metaVars, announced, ghostVars>>

\* The Lua script deletes the key when its value is the caller's holder id.
LuaRelease(t) == LET k == task[t].key IN
    /\ At(t, "eval")
    /\ \/ /\ lock[k] = task[t].holder
          /\ lock' = [lock EXCEPT ![k] = Nobody]
          /\ released' = released \cup {current[k]}
          /\ task' = [task EXCEPT ![t].pc = "deleteMeta",
                                  ![t].lease = current[k]]
       \/ /\ lock[k] # task[t].holder
          /\ Goto(t, "getReason")
          /\ UNCHANGED <<lock, released>>
    /\ UNCHANGED <<current, leases, metaVars, announced, ghostVars>>

GetReason(t) ==
    /\ At(t, "getReason")
    /\ Return(t)
    /\ UNCHANGED <<keyVars, metaVars, eventVars, ghostVars>>

\* DEL of the hash: a command of its own after the script, with no check of
\* whose metadata it removes.
DeleteMeta(t) == LET k == task[t].key IN
    /\ At(t, "deleteMeta")
    /\ meta' = [meta EXCEPT ![k] = 0]
    /\ metaTtl' = [metaTtl EXCEPT ![k] = 0]
    /\ Goto(t, "publishReleased")
    /\ UNCHANGED <<keyVars, eventVars, ghostVars>>

\* The event takes project_id and board_id from the hash read at the start.
PublishReleased(t) ==
    /\ At(t, "publishReleased")
    /\ announced' = announced \cup {task[t].lease}
    /\ Return(t)
    /\ UNCHANGED <<keyVars, metaVars, released, ghostVars>>
-----------------------------------------------------------------------------
(* renew, the TTLs, and calls that stop half way *)

\* renew: one Lua script that refreshes both TTLs for the present holder.
Renew(k, h) ==
    /\ lock[k] = h
    /\ metaTtl' = [metaTtl EXCEPT ![k] = IF meta[k] = 0 THEN 0 ELSE current[k]]
    /\ UNCHANGED <<keyVars, meta, task, eventVars, ghostVars>>

ExpireLock(k) ==
    /\ TtlsElapse
    /\ lock[k] # Nobody
    /\ lock' = [lock EXCEPT ![k] = Nobody]
    /\ UNCHANGED <<current, leases, metaVars, task, eventVars, ghostVars>>

\* The hash's TTL was set after the key's, so while the lease that set it is
\* alive the hash cannot expire.
ExpireMeta(k) ==
    /\ TtlsElapse
    /\ metaTtl[k] # 0
    /\ lock[k] = Nobody \/ metaTtl[k] # current[k]
    /\ meta' = [meta EXCEPT ![k] = 0]
    /\ metaTtl' = [metaTtl EXCEPT ![k] = 0]
    /\ UNCHANGED <<keyVars, task, eventVars, ghostVars>>

\* The awaited command raises, the task is cancelled, or the process dies:
\* what the call had left to do is not done.
Abort(t) ==
    /\ ~At(t, "idle")
    /\ \/ /\ task[t].lease = 0
          /\ UNCHANGED aborted
       \/ /\ task[t].lease # 0
          /\ Cardinality(aborted) < MaxAborts
          /\ aborted' = aborted \cup {task[t].lease}
    /\ Return(t)
    /\ UNCHANGED <<keyVars, metaVars, eventVars, finalized>>

Step(t) == \/ SetNx(t) \/ GetHolder(t) \/ SetNxRetry(t) \/ GetHolderAgain(t)
           \/ HsetMeta(t) \/ ExpireMetaCmd(t) \/ PublishAcquired(t)
           \/ ReadMeta(t) \/ LuaRelease(t) \/ GetReason(t)
           \/ DeleteMeta(t) \/ PublishReleased(t)

Next == \/ \E t \in Tasks : \/ \E k \in Keys, h \in Holders :
                                  TryAcquire(t, k, h) \/ Release(t, k, h)
                            \/ Step(t)
                            \/ Abort(t)
        \/ \E k \in Keys : \/ ExpireLock(k)
                           \/ ExpireMeta(k)
                           \/ \E h \in Holders : Renew(k, h)

Spec == Init /\ [][Next]_vars
-----------------------------------------------------------------------------
(* Properties *)

\* The state is well formed: leases are numbers granted so far, and a call
\* record is one the adapter builds (a lease id never stands for a holder).
TypeOK ==
    /\ lock \in [Keys -> Holders \cup {Nobody}]
    /\ current \in [Keys -> 0 .. MaxLeases]
    /\ leases \in 0 .. MaxLeases
    /\ meta \in [Keys -> 0 .. MaxLeases]
    /\ metaTtl \in [Keys -> 0 .. MaxLeases]
    /\ task \in [Tasks -> CallRec \cup {Idle}]
    /\ released \in SUBSET (0 .. MaxLeases)
    /\ announced \in SUBSET (0 .. MaxLeases)
    /\ finalized \in SUBSET (0 .. MaxLeases)
    /\ aborted \in SUBSET (0 .. MaxLeases)

\* The hash never outlives its lock for good: without a TTL it is either
\* about to get one from the acquirer that is between HSET and EXPIRE, or
\* that acquirer was cut short there (_finalize_acquisition, two commands).
NoImmortalMetadata ==
    \A k \in Keys : meta[k] # 0 /\ metaTtl[k] = 0 =>
        \/ meta[k] \in aborted
        \/ \E t \in Tasks : At(t, "expire") /\ task[t].key = k

\* A task that has a lease in hand obtained or ended it itself: no two tasks
\* finalize the same lease, and no two announce the end of the same lease
\* (race contracts 1 and 2: exactly one caller is granted, exactly one
\* release succeeds).
Ending(t) == task[t].pc \in {"deleteMeta", "publishReleased"}
Finalizing(t) == task[t].pc \in FinalizePcs
OneCallPerLease ==
    \A t, u \in Tasks : t # u =>
        /\ Finalizing(t) /\ Finalizing(u) => task[t].lease # task[u].lease
        /\ Ending(t) /\ Ending(u) => task[t].lease # task[u].lease

\* The contract's view of a call record: pending until it has taken effect.
PendingCall(r) ==
    CASE r.pc \in {"set", "get", "setRetry"} ->
            [op |-> "acquire", key |-> r.key, holder |-> r.holder]
      [] r.pc \in {"hgetall", "eval"} ->
            [op |-> "release", key |-> r.key, holder |-> r.holder]
      [] OTHER -> [op |-> "none"]

Contract == INSTANCE LockContract
              WITH owner <- lock, Callers <- Tasks,
                   call <- [t \in Tasks |-> PendingCall(task[t])]

\* The adapter implements the contract of IDistributedLock.
ImplementsContract == Contract!Spec
=============================================================================
