---------------------------- MODULE LockContract ----------------------------
(***************************************************************************)
(* What IDistributedLock promises its callers, whatever the adapter.  A    *)
(* call takes effect at one instant between its start and its return:      *)
(* try_acquire is granted only on a free key and refused only on a held    *)
(* one, release ends only a lease of the caller's own holder and is refused*)
(* only when that holder does not own the key.  Leases also end by TTL.    *)
(* The end of a lease by release is announced at most once.                *)
(* (ports/output/distributed_lock.py, and race contracts 1 and 2 of        *)
(* documentation/architecture/ports/output/board-management.md.)           *)
(***************************************************************************)
EXTENDS Integers

CONSTANTS Keys,      \* lock keys, one per board ("project:board")
          Holders,   \* holder ids, the work items
          Nobody,    \* the owner of a free key
          Callers    \* coroutines that may be inside a call at one time

VARIABLES owner,     \* owner[k]: the holder of k, or Nobody
          current,   \* current[k]: the number of k's latest lease, 0 if none
          leases,    \* number of leases granted so far on all keys
          call,      \* call[c]: the call of c that has not taken effect yet
          released,  \* the leases that a release ended
          announced  \* the leases whose PipelineLockReleasedEvent is out

vars == <<owner, current, leases, call, released, announced>>

NoCall == [op |-> "none"]
Calls == [op : {"acquire", "release"}, key : Keys, holder : Holders]

Init == /\ owner = [k \in Keys |-> Nobody]
        /\ current = [k \in Keys |-> 0]
        /\ leases = 0
        /\ call = [c \in Callers |-> NoCall]
        /\ released = {}
        /\ announced = {}

Invoke(c, r) == /\ call[c] = NoCall
                /\ call' = [call EXCEPT ![c] = r]
                /\ UNCHANGED <<owner, current, leases, released, announced>>

Pending(c, op) == call[c] \in Calls /\ call[c].op = op
Done(c) == call' = [call EXCEPT ![c] = NoCall]

Grant(c) == /\ Pending(c, "acquire")
            /\ owner[call[c].key] = Nobody
            /\ owner' = [owner EXCEPT ![call[c].key] = call[c].holder]
            /\ leases' = leases + 1
            /\ current' = [current EXCEPT ![call[c].key] = leases + 1]
            /\ Done(c)
            /\ UNCHANGED <<released, announced>>

Release(c) == /\ Pending(c, "release")
              /\ owner[call[c].key] = call[c].holder
              /\ owner' = [owner EXCEPT ![call[c].key] = Nobody]
              /\ released' = released \cup {current[call[c].key]}
              /\ Done(c)
              /\ UNCHANGED <<current, leases, announced>>

Refuse(c) == /\ \/ Pending(c, "acquire") /\ owner[call[c].key] # Nobody
                \/ Pending(c, "release") /\ owner[call[c].key] # call[c].holder
             /\ Done(c)
             /\ UNCHANGED <<owner, current, leases, released, announced>>

\* The call raises or is cancelled before it takes effect.
Fail(c) == /\ call[c] \in Calls
           /\ Done(c)
           /\ UNCHANGED <<owner, current, leases, released, announced>>

Expire(k) == /\ owner[k] # Nobody
             /\ owner' = [owner EXCEPT ![k] = Nobody]
             /\ UNCHANGED <<current, leases, call, released, announced>>

Announce(n) == /\ n \in released \ announced
               /\ announced' = announced \cup {n}
               /\ UNCHANGED <<owner, current, leases, call, released>>

Next == \/ \E c \in Callers : \/ \E r \in Calls : Invoke(c, r)
                              \/ Grant(c) \/ Release(c) \/ Refuse(c) \/ Fail(c)
        \/ \E k \in Keys : Expire(k)
        \/ \E n \in released : Announce(n)

Spec == Init /\ [][Next]_vars
=============================================================================
