------------------------------ MODULE EventStore ------------------------------
(***************************************************************************)
(* Persistence and redistribution of events:                               *)
(* adapters/secondary/elasticsearch_event_store.py with its background      *)
(* worker, the dead letter queue it spools to                               *)
(* (infrastructure/dead_letter_queue.py, dlq_retry.py and the wiring in     *)
(* bootstrap/production_bootstrap.py), saves of aggregates                  *)
(* (application/work_item_service.py) and infrastructure/                   *)
(* event_store_poller.py, which publishes what it finds in the store.       *)
(* Elasticsearch itself is external: a bulk write is found by searches      *)
(* after the next refresh.  A step ends where a coroutine waits.            *)
(***************************************************************************)
EXTENDS Integers, Sequences, FiniteSets, Functions

CONSTANTS Saved,     \* streams of aggregates, saved with an expected version
          Logged,    \* streams that are appended to without one
          Telemetry, \* streams of coding agents, fed by a subscriber of the bus
          Writers,   \* coroutines that append
          Retrier,   \* the retry loop of the dead letter queue
          MaxEvents, \* bound: events created; their numbers are their timestamps
          MaxQueue,  \* async_queue_max_size
          BatchCap,  \* appends the worker takes at a time
          MaxTries,  \* max_retries of the dead letter queue
          MaxFaults  \* bound: requests to Elasticsearch or the bus that fail

\* The ids of the streams of aggregates begin with a prefix of their own.
ASSUME EventStoreAssumption ==
    /\ {MaxEvents, MaxQueue, BatchCap, MaxTries} \subseteq Nat \ {0}
    /\ MaxFaults \in Nat
    /\ Retrier \notin Writers
    /\ Saved \cap (Logged \cup Telemetry) = {}

Streams == Saved \cup Logged \cup Telemetry
Events == 1 .. MaxEvents

VARIABLES created,   \* number of events created: the time
          streamOf,  \* streamOf[e]: the stream event e belongs to
          index,     \* index[e]: stream_version of the stored document, or 0
          seen,      \* seen[e]: the same, as searches find it
          queue,     \* _async_queue
          worker,    \* _run_persistence_worker
          writer,    \* writer[w]: a synchronous append in progress
          dlq,       \* dlq[e]: retry_count of the failed event, or NoEntry
          poller,    \* the poller: its timestamp and what it is publishing
          phase,     \* close()
          \* history
          early,     \* what was queued when close() was called, less what was spooled
          lost,      \* lost[e]: why nothing holds event e any more, or "no"
          delivered, \* events the poller has published
          overlapped,\* saves during which another save to the stream ran
          faults

store == <<index, seen>>
history == <<early, delivered, overlapped>>
vars == <<created, streamOf, index, seen, queue, worker, writer, dlq, poller, phase,
          early, lost, delivered, overlapped, faults>>

NoEntry == -1
NoStream == "none"
NoEvent == 0
Idle == [pc |-> "idle", event |-> NoEvent, expected |-> 0, version |-> 0]
Resting == [pc |-> "idle", groups |-> <<>>, taken |-> 0, version |-> 0]

Fault == faults < MaxFaults /\ faults' = faults + 1
Open == phase \notin {"closed", "lossy"}
InStream(s) == {e \in 1 .. created : streamOf[e] = s}
Stored(e) == index[e] # 0

\* What a search finds: the highest version of a stream (get_stream_version).
Version(s) == LET versions == {seen[e] : e \in InStream(s)} \cup {0}
              IN  CHOOSE v \in versions : \A u \in versions : u <= v

Init == /\ created = 0
        /\ streamOf = [e \in Events |-> NoStream]
        /\ index = [e \in Events |-> 0]
        /\ seen = [e \in Events |-> 0]
        /\ queue = <<>>
        /\ worker = Resting
        /\ writer = [w \in Writers \cup {Retrier} |-> Idle]
        /\ dlq = [e \in Events |-> NoEntry]
        /\ poller = [since |-> 0, batch |-> {}]
        /\ phase = "open"
        /\ early = {} /\ lost = [e \in Events |-> "no"] /\ delivered = {} /\ overlapped = {}
        /\ faults = 0
-----------------------------------------------------------------------------
(* Elasticsearch *)

Refresh == /\ Open
           /\ seen # index
           /\ seen' = index
           /\ UNCHANGED <<created, streamOf, index, queue, worker, writer, dlq, poller,
                          phase, history, lost, faults>>

\* The events of an append are a function: events[e] is the place of event e.
Alone(e) == [x \in {e} |-> 1]

\* A bulk write gives consecutive versions after the one that was read; a
\* document that is already there is overwritten.
Write(events, some, version) ==
    index' = [e \in Events |-> IF e \in some THEN version + events[e] ELSE index[e]]
-----------------------------------------------------------------------------
(* append(): the queue, or a synchronous bulk write                         *)

HasRoom == Len(queue) < MaxQueue
Enqueued(s, events, attempt) ==
    queue' = Append(queue, [stream |-> s, events |-> events, attempt |-> attempt])

Create(s) == /\ created < MaxEvents
             /\ created' = created + 1
             /\ streamOf' = [streamOf EXCEPT ![created'] = s]

\* Fire and forget; when the queue is full the caller writes by itself.
AppendEvent(w, s) ==
    /\ Open /\ writer[w] = Idle
    /\ s \in Logged \cup Telemetry
    /\ Create(s)
    /\ IF HasRoom THEN Enqueued(s, Alone(created'), 0) /\ UNCHANGED writer
       ELSE /\ writer' = [writer EXCEPT ![w] = [Idle EXCEPT !.pc = "read", !.event = created']]
            /\ UNCHANGED queue
    /\ UNCHANGED <<store, worker, dlq, poller, phase, history, lost, faults>>

\* _save_work_item: the aggregate was loaded from its stream, the expected
\* version is the number of events found there.
Save(w, s) ==
    /\ Open /\ writer[w] = Idle
    /\ s \in Saved
    /\ Create(s)
    /\ LET loaded == {e \in InStream(s) : seen[e] # 0}
           others == {v \in Writers : writer[v] # Idle /\ streamOf[writer[v].event] = s}
       IN  /\ writer' = [writer EXCEPT ![w] = [pc |-> "check", event |-> created',
                                               expected |-> Cardinality(loaded), version |-> 0]]
           /\ overlapped' = overlapped \cup
                IF others = {} THEN {} ELSE {created'} \cup {writer[v].event : v \in others}
    /\ UNCHANGED <<store, queue, worker, dlq, poller, phase, early, lost, delivered, faults>>

StreamOfWriter(w) == streamOf[writer[w].event]

\* The call raises: the events of a save or of a full queue are the caller's
\* problem; the subscriber that republishes telemetry only logs the error.
Raises(w) == /\ writer' = [writer EXCEPT ![w] = Idle]
             /\ dlq' = IF w = Retrier THEN [dlq EXCEPT ![writer[w].event] = NoEntry] ELSE dlq
             /\ lost' = [lost EXCEPT ![writer[w].event] = "raised"]

\* The comparison with expected_version: ConcurrencyConflictError otherwise.
Check(w) ==
    /\ Open /\ writer[w].pc = "check"
    /\ \/ /\ Version(StreamOfWriter(w)) = writer[w].expected
          /\ writer' = [writer EXCEPT ![w].pc = "read"]
          /\ UNCHANGED <<dlq, lost>>
       \/ Version(StreamOfWriter(w)) # writer[w].expected /\ Raises(w)
    /\ UNCHANGED <<created, streamOf, store, queue, worker, poller, phase, history, faults>>

\* The version is searched for a second time.
ReadVersion(w) ==
    /\ Open /\ writer[w].pc = "read"
    /\ writer' = [writer EXCEPT ![w].pc = "bulk", ![w].version = Version(StreamOfWriter(w))]
    /\ UNCHANGED <<created, streamOf, store, queue, worker, dlq, poller, phase, history, lost, faults>>

Finished(w) == /\ writer' = [writer EXCEPT ![w] = Idle]
               /\ dlq' = IF w = Retrier THEN [dlq EXCEPT ![writer[w].event] = NoEntry] ELSE dlq

\* Mutant: a save does not wait for the refresh.
BulkNoWait(w) ==
    /\ Open /\ writer[w].pc = "bulk"
    /\ Write(Alone(writer[w].event), {writer[w].event}, writer[w].version)
    /\ Finished(w)
    /\ UNCHANGED <<created, streamOf, seen, queue, worker, poller, phase, history, lost, faults>>

\* A save waits for the refresh, an append past a full queue does not.
Bulk(w) ==
    /\ Open /\ writer[w].pc = "bulk"
    /\ Write(Alone(writer[w].event), {writer[w].event}, writer[w].version)
    /\ IF StreamOfWriter(w) \in Saved
       THEN writer' = [writer EXCEPT ![w].pc = "wait"] /\ UNCHANGED dlq
       ELSE Finished(w)
    /\ UNCHANGED <<created, streamOf, seen, queue, worker, poller, phase, history, lost, faults>>

Refreshed(w) ==
    /\ Open /\ writer[w].pc = "wait"
    /\ seen[writer[w].event] = index[writer[w].event]
    /\ Finished(w)
    /\ UNCHANGED <<created, streamOf, store, queue, worker, poller, phase, history, lost, faults>>

\* A request fails; the bulk may have been executed.
WriterFails(w) ==
    /\ Open /\ writer[w].pc \in {"check", "read", "bulk"}
    /\ Fault
    /\ \/ UNCHANGED index
       \/ writer[w].pc = "bulk"
          /\ Write(Alone(writer[w].event), {writer[w].event}, writer[w].version)
    /\ Raises(w)
    /\ UNCHANGED <<created, streamOf, seen, queue, worker, poller, phase, history>>
-----------------------------------------------------------------------------
(* The background worker *)

\* The appends of a batch to a stream, written together in the order of
\* arrival; first is when the stream came up.
Group(s, batch) ==
    LET mine == {n \in DOMAIN batch : batch[n].stream = s}
        upTo(n) == UNION {DOMAIN batch[m].events : m \in {m \in mine : m < n}}
        at(e) == CHOOSE n \in mine : e \in DOMAIN batch[n].events
    IN  [events |-> [e \in UNION {DOMAIN batch[n].events : n \in mine} |->
                        Cardinality(upTo(at(e))) + batch[at(e)].events[e]],
         attempt |-> IF \E n \in mine : batch[n].attempt = 1 THEN 1 ELSE 0,
         first |-> CHOOSE n \in mine : \A m \in mine : n <= m]

Groups(batch) == [s \in {batch[n].stream : n \in DOMAIN batch} |-> Group(s, batch)]

\* Mutant: task_done() is called as soon as an append is taken.
TakeDone == /\ Open /\ worker.pc = "idle" /\ queue # <<>>
            /\ LET n == IF Len(queue) < BatchCap THEN Len(queue) ELSE BatchCap
               IN  /\ worker' = [pc |-> "read", groups |-> Groups(SubSeq(queue, 1, n)),
                                 taken |-> 0, version |-> 0]
                   /\ queue' = SubSeq(queue, n + 1, Len(queue))
            /\ UNCHANGED <<created, streamOf, store, writer, dlq, poller, phase, history, lost, faults>>

Take == /\ Open /\ worker.pc = "idle" /\ queue # <<>>
        /\ LET n == IF Len(queue) < BatchCap THEN Len(queue) ELSE BatchCap
           IN  /\ worker' = [pc |-> "read", groups |-> Groups(SubSeq(queue, 1, n)),
                             taken |-> n, version |-> 0]
               /\ queue' = SubSeq(queue, n + 1, Len(queue))
        /\ UNCHANGED <<created, streamOf, store, writer, dlq, poller, phase, history, lost, faults>>

\* The streams take turns in the order in which they came up.
Turn(s) == /\ s \in DOMAIN worker.groups
           /\ \A t \in DOMAIN worker.groups : worker.groups[s].first <= worker.groups[t].first

\* The next group of the batch, or task_done() for all that was taken.
NextGroup(s) ==
    worker' = IF DOMAIN worker.groups = {s} THEN Resting
              ELSE [worker EXCEPT !.pc = "read", !.groups = Restrict(@, DOMAIN @ \ {s})]

WorkerReads(s) ==
    /\ Open /\ worker.pc = "read" /\ Turn(s)
    /\ worker' = [worker EXCEPT !.pc = "bulk", !.version = Version(s)]
    /\ UNCHANGED <<created, streamOf, store, queue, writer, dlq, poller, phase,
                   history, lost, faults>>

WorkerBulk(s) ==
    /\ Open /\ worker.pc = "bulk" /\ Turn(s)
    /\ LET events == worker.groups[s].events
       IN  Write(events, DOMAIN events, worker.version)
    /\ NextGroup(s)
    /\ UNCHANGED <<created, streamOf, seen, queue, writer, dlq, poller, phase,
                   history, lost, faults>>

Spool(events) == /\ dlq' = [e \in Events |-> IF e \in DOMAIN events THEN 0 ELSE dlq[e]]
                 /\ early' = early \ DOMAIN events

\* Mutant: a retry that finds the queue full is dropped.
WorkerFailsDropping(s) ==
    /\ Open /\ worker.pc \in {"read", "bulk"} /\ Turn(s)
    /\ Fault
    /\ LET group == worker.groups[s]
       IN  /\ \E some \in SUBSET DOMAIN group.events :
                /\ worker.pc = "read" => some = {}
                /\ Write(group.events, some, worker.version)
           /\ IF group.attempt = 0
              THEN /\ IF HasRoom THEN Enqueued(s, group.events, 1) ELSE UNCHANGED queue
                   /\ UNCHANGED <<dlq, early>>
              ELSE Spool(group.events) /\ UNCHANGED queue
    /\ NextGroup(s)
    /\ UNCHANGED <<created, streamOf, seen, writer, poller, phase, delivered, overlapped, lost>>

\* Mutant: nothing catches the error, and the worker ends.
WorkerDies(s) ==
    /\ Open /\ worker.pc \in {"read", "bulk"} /\ Turn(s)
    /\ Fault
    /\ worker' = [worker EXCEPT !.pc = "dead"]
    /\ UNCHANGED <<created, streamOf, store, queue, writer, dlq, poller, phase, history, lost>>

\* A group fails, some of its events may be stored: back into the queue once,
\* then to the dead letter queue.
WorkerFails(s) ==
    /\ Open /\ worker.pc \in {"read", "bulk"} /\ Turn(s)
    /\ Fault
    /\ LET group == worker.groups[s]
       IN  /\ \E some \in SUBSET DOMAIN group.events :
                /\ worker.pc = "read" => some = {}
                /\ Write(group.events, some, worker.version)
           /\ IF group.attempt = 0 /\ HasRoom
              THEN Enqueued(s, group.events, 1) /\ UNCHANGED <<dlq, early>>
              ELSE Spool(group.events) /\ UNCHANGED queue
    /\ NextGroup(s)
    /\ UNCHANGED <<created, streamOf, seen, writer, poller, phase, delivered, overlapped, lost>>
-----------------------------------------------------------------------------
(* The retry loop of the dead letter queue: retrying is publishing again    *)

\* The subscriber appends telemetry again.  Nobody appends the others: the
\* entry is deleted and the event is in no store.
Retry(e) ==
    /\ Open /\ writer[Retrier] = Idle
    /\ dlq[e] \in 0 .. MaxTries - 1
    /\ IF streamOf[e] \notin Telemetry
       THEN /\ dlq' = [dlq EXCEPT ![e] = NoEntry]
            /\ lost' = [lost EXCEPT ![e] = "republished"]
            /\ UNCHANGED <<queue, writer>>
       ELSE /\ UNCHANGED lost
            /\ IF HasRoom
               THEN /\ Enqueued(streamOf[e], Alone(e), 0)
                    /\ dlq' = [dlq EXCEPT ![e] = NoEntry]
                    /\ UNCHANGED writer
               ELSE /\ writer' = [writer EXCEPT ![Retrier] =
                                    [Idle EXCEPT !.pc = "read", !.event = e]]
                    /\ UNCHANGED <<queue, dlq>>
    /\ UNCHANGED <<created, streamOf, store, worker, poller, phase, history, faults>>

\* Reconstructing the event or publishing it raises; after the last attempt
\* the entry stays for an operator.
RetryFails(e) ==
    /\ Open /\ writer[Retrier] = Idle
    /\ dlq[e] \in 0 .. MaxTries - 1
    /\ dlq' = [dlq EXCEPT ![e] = @ + 1]
    /\ UNCHANGED <<created, streamOf, store, queue, worker, writer, poller, phase, history,
                   lost, faults>>
-----------------------------------------------------------------------------
(* The poller *)

PollFetch == /\ Open /\ poller.batch = {}
             /\ LET found == {e \in 1 .. created : seen[e] # 0 /\ e > poller.since}
                IN  /\ found # {}
                    /\ poller' = [poller EXCEPT !.batch = found]
             /\ UNCHANGED <<created, streamOf, store, queue, worker, writer, dlq, phase,
                            history, lost, faults>>

\* Every event is published, whether or not others failed; then the timestamp
\* is the present time.
PollPublish ==
    /\ Open /\ poller.batch # {}
    /\ \E failed \in SUBSET poller.batch :
         /\ IF failed = {} THEN UNCHANGED faults ELSE Fault
         /\ delivered' = delivered \cup (poller.batch \ failed)
    /\ poller' = [since |-> created, batch |-> {}]
    /\ UNCHANGED <<created, streamOf, store, queue, worker, writer, dlq, phase, early,
                   lost, overlapped>>
-----------------------------------------------------------------------------
(* close() *)

Unfinished == Len(queue) + worker.taken
InHand == UNION {DOMAIN worker.groups[s].events : s \in DOMAIN worker.groups}
Queued == UNION {DOMAIN queue[n].events : n \in DOMAIN queue}
Writing == {e \in Events : \E w \in DOMAIN writer : writer[w].event = e}
Spooled == {e \in Events : dlq[e] # NoEntry}

Close == /\ phase = "open"
         /\ phase' = "draining"
         /\ early' = Queued \cup InHand
         /\ UNCHANGED <<created, streamOf, store, queue, worker, writer, dlq, poller,
                        delivered, overlapped, lost, faults>>

\* join() is released, but goes on in a later turn of the event loop.
Drained == /\ phase = "draining"
           /\ Unfinished = 0
           /\ phase' = "drained"
           /\ UNCHANGED <<created, streamOf, store, queue, worker, writer, dlq, poller,
                          history, lost, faults>>

\* The worker is cancelled and the process ends, after the drain or after its
\* timeout, which is logged as a loss.
Stop == /\ \/ phase = "drained" /\ phase' = "closed"
           \/ phase = "draining" /\ Unfinished > 0 /\ phase' = "lossy"
        /\ lost' = [e \in Events |-> IF e \in Spooled THEN "spooled"
                                     ELSE IF e \in Queued \cup InHand \cup Writing THEN "stopped"
                                     ELSE lost[e]]
        /\ queue' = <<>>
        /\ worker' = Resting
        /\ writer' = [w \in DOMAIN writer |-> Idle]
        /\ dlq' = [e \in Events |-> NoEntry]
        /\ UNCHANGED <<created, streamOf, store, poller, history, faults>>
-----------------------------------------------------------------------------
WriterStep(w) == Check(w) \/ ReadVersion(w) \/ Bulk(w) \/ Refreshed(w) \/ WriterFails(w)
WorkerStep == Take \/ \E s \in Streams : WorkerReads(s) \/ WorkerBulk(s) \/ WorkerFails(s)
PollerStep == PollFetch \/ PollPublish

Next == \/ Refresh
        \/ \E w \in Writers, s \in Streams : AppendEvent(w, s) \/ Save(w, s)
        \/ \E w \in Writers \cup {Retrier} : WriterStep(w)
        \/ WorkerStep
        \/ \E e \in Events : Retry(e) \/ RetryFails(e)
        \/ PollerStep
        \/ Close \/ Drained \/ Stop

Spec == Init /\ [][Next]_vars

\* The event loop runs the worker, the poller, every append and the retry
\* loop; Elasticsearch refreshes its indices.
Fairness == /\ WF_vars(Refresh) /\ WF_vars(WorkerStep) /\ WF_vars(PollerStep)
            /\ \A w \in Writers \cup {Retrier} : WF_vars(WriterStep(w))
            /\ \A e \in Events : WF_vars(Retry(e) \/ RetryFails(e))

FairSpec == Spec /\ Fairness
-----------------------------------------------------------------------------
(* Properties *)

\* The state is well formed.
TypeOK ==
    /\ created \in 0 .. MaxEvents
    /\ streamOf \in [Events -> Streams \cup {NoStream}]
    /\ index \in [Events -> Nat] /\ seen \in [Events -> Nat]
    /\ Len(queue) <= MaxQueue
    /\ worker.pc \in {"idle", "read", "bulk"} /\ worker.taken \in 0 .. BatchCap
    /\ \A w \in Writers \cup {Retrier} : writer[w].pc \in {"idle", "check", "read", "bulk", "wait"}
    /\ dlq \in [Events -> NoEntry .. MaxTries]
    /\ poller.since \in 0 .. MaxEvents /\ poller.batch \subseteq Events
    /\ phase \in {"open", "draining", "drained", "closed", "lossy"}
    /\ lost \in [Events -> {"no", "raised", "republished", "spooled", "stopped"}]
    /\ early \cup delivered \cup overlapped \subseteq Events
    /\ faults \in 0 .. MaxFaults

\* "Never swallow silently": whatever fails, an event that was handed to the
\* store is stored, queued, being written or in the dead letter queue, or it
\* was lost in a way the code knows of: its append raised, the process ended,
\* or the retry loop republished it to nobody, which spares telemetry, the
\* events whose loss the dead letter queue was wired for.
NothingVanishes ==
    \A e \in 1 .. created :
        \/ Stored(e) \/ e \in Queued \cup InHand \cup Writing \cup Spooled
        \/ lost[e] \in {"raised", "spooled", "stopped"}
        \/ lost[e] = "republished" /\ streamOf[e] \notin Telemetry

\* A drain that ends without a loss being logged has stored what was queued
\* when close() was called, apart from what went to the dead letter queue.
DrainKeepsQueued == phase = "closed" => \A e \in early : Stored(e)

\* Optimistic concurrency: as long as saves of an aggregate do not overlap and
\* do not fail, each gets the next version, although its event is written
\* blindly after the check; so the next save is not refused.
StreamSavable ==
    \A s \in Saved :
        LET mine == {e \in InStream(s) : Stored(e)}
        IN  InStream(s) \cap overlapped = {} /\ (\A e \in InStream(s) : lost[e] = "no")
              => {index[e] : e \in mine} = 1 .. Cardinality(mine)

\* The poller "ensures at-least-once delivery: if publishing fails or polling
\* is interrupted, the same events will be re-fetched on the next cycle".
AtLeastOnce ==
    \A e \in 1 .. created :
        seen[e] # 0 => e \in delivered \/ e \in poller.batch \/ e > poller.since

\* Whatever the worker meets, it comes to the end of the queue: every queued
\* append is stored, spooled, or ends with the process.
QueueSettles == []<>(Queued \cup InHand = {})
=============================================================================
