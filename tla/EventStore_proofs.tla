-------------------------- MODULE EventStore_proofs --------------------------
(***************************************************************************)
(* Proofs about EventStore, for any number of streams, writers, events and *)
(* failures, and any limits.                                               *)
(***************************************************************************)
EXTENDS EventStore, FiniteSetTheorems, SequenceTheorems, WellFoundedInduction, TLAPS

Appenders == Writers \cup {Retrier}

\* The events of an append with their places, an append in the queue, the
\* group of a stream, and the two kinds of coroutines that write.
Places == UNION {[S -> Nat \ {0}] : S \in SUBSET Events}
Item == [stream : Streams, events : Places, attempt : {0, 1}]
GroupRec == [events : Places, attempt : {0, 1}, first : Nat]
Batches == UNION {[S -> GroupRec] : S \in SUBSET Streams}
WorkerRec == [pc : {"idle", "read", "bulk"}, groups : Batches,
              taken : 0 .. BatchCap, version : Nat]
WriterRec == [pc : {"idle", "check", "read", "bulk", "wait"},
              event : Events \cup {NoEvent}, expected : Nat, version : Nat]

TypeInv ==
    /\ created \in 0 .. MaxEvents
    /\ streamOf \in [Events -> Streams \cup {NoStream}]
    /\ index \in [Events -> Nat] /\ seen \in [Events -> Nat]
    /\ queue \in Seq(Item) /\ Len(queue) <= MaxQueue
    /\ worker \in WorkerRec
    /\ writer \in [Appenders -> WriterRec]
    /\ dlq \in [Events -> NoEntry .. MaxTries]
    /\ poller \in [since : 0 .. MaxEvents, batch : SUBSET Events]
    /\ phase \in {"open", "draining", "drained", "closed", "lossy"}
    /\ early \in SUBSET Events /\ delivered \in SUBSET Events /\ overlapped \in SUBSET Events
    /\ lost \in [Events -> {"no", "raised", "republished", "spooled", "stopped"}]
    /\ faults \in 0 .. MaxFaults

\* A resting worker owes no task_done(), a busy one has a group to write; a
\* writer that is not idle has an event, and one that waits has stored it.
WorkerShape ==
    /\ worker.pc = "idle" => worker = Resting
    /\ worker.pc # "idle" => worker.taken # 0 /\ worker.groups # <<>>

WriterShape ==
    \A w \in Appenders :
        /\ writer[w].pc = "idle" => writer[w] = Idle
        /\ writer[w].pc # "idle" => writer[w].event \in 1 .. created
        /\ writer[w].pc = "wait" => Stored(writer[w].event)

Shape == WorkerShape /\ WriterShape

\* Events of aggregates are written by their savers only.
Appended == {e \in 1 .. created : streamOf[e] \notin Saved}

Origins ==
    /\ Queued \cup InHand \cup Spooled \subseteq Appended
    /\ writer[Retrier].event \in Appended \cup {NoEvent}

\* Only what was created is stored, and only what is stored is found.
Found ==
    /\ \A e \in Events : e > created => index[e] = 0
    /\ \A e \in Events : seen[e] # 0 => Stored(e)

\* A drain keeps what was queued at its beginning until it is stored.
Draining ==
    /\ phase = "draining" => \A e \in early : Stored(e) \/ e \in Queued \cup InHand
    /\ phase \in {"drained", "closed"} => \A e \in early : Stored(e)

\* A stream whose saves did not overlap and did not fail.
Clean(s) == /\ InStream(s) \cap overlapped = {}
            /\ \A e \in InStream(s) : lost[e] = "no"
StoredIn(s) == {e \in InStream(s) : Stored(e)}
Saving(s) == {w \in Writers : writer[w].pc # "idle" /\ StreamOfWriter(w) = s}

\* Its versions are consecutive; it has one saver at most, which expects the
\* version that is there, and searches find all of the stream but what waits
\* for the refresh.
InOrder(s) ==
    /\ {index[e] : e \in StoredIn(s)} = 1 .. Cardinality(StoredIn(s))
    /\ \A v, w \in Saving(s) : v = w
    /\ \A e \in StoredIn(s) : \/ seen[e] = index[e]
                              \/ \E w \in Saving(s) : writer[w].pc = "wait" /\ writer[w].event = e
    /\ \A w \in Saving(s) :
        /\ writer[w].pc # "wait" => ~ Stored(writer[w].event)
        /\ writer[w].pc = "check" => writer[w].expected = Cardinality(StoredIn(s))
        /\ writer[w].pc = "bulk" => writer[w].version = Cardinality(StoredIn(s))

Savable == \A s \in Saved : Clean(s) => InOrder(s)

IInv == TypeInv /\ Shape /\ Origins /\ Found /\ NothingVanishes /\ Draining /\ Savable
-----------------------------------------------------------------------------
(* Batches and queues *)

Contents(q) == UNION {DOMAIN q[n].events : n \in DOMAIN q}

LEMMA PlacesFacts ==
    ASSUME NEW f \in Places
    PROVE  /\ DOMAIN f \subseteq Events
           /\ f \in [DOMAIN f -> Nat \ {0}]
           /\ \A e \in DOMAIN f : f[e] \in Nat /\ f[e] # 0
BY DEF Places

LEMMA EventsFinite == IsFiniteSet(Events) /\ Events \subseteq Nat \ {0}
<1>1. MaxEvents \in Nat
  BY EventStoreAssumption
<1>2. IsFiniteSet(1 .. MaxEvents)
  BY <1>1, FS_Interval
<1> QED BY <1>1, <1>2 DEF Events

LEMMA CardNat ==
    ASSUME NEW S \in SUBSET Events
    PROVE  IsFiniteSet(S) /\ Cardinality(S) \in Nat
BY EventsFinite, FS_Subset, FS_CardinalityType

\* The new event by itself, and any event by itself, is an append.
LEMMA AlonePlaces ==
    ASSUME NEW e \in Events
    PROVE  Alone(e) \in Places /\ DOMAIN Alone(e) = {e} /\ Alone(e)[e] = 1
<1>1. Alone(e) \in [{e} -> Nat \ {0}] /\ {e} \in SUBSET Events
  BY DEF Alone
<1>2. Alone(e) \in Places
  BY <1>1 DEF Places
<1> QED BY <1>2 DEF Alone

\* The first of a non-empty set of positions.
LEMMA FirstOf ==
    ASSUME NEW S \in SUBSET Nat, S # {}
    PROVE  \E n \in S : \A m \in S : n <= m
<1>1. PICK n \in S : \A m \in S : <<m, n>> \notin OpToRel(<, Nat)
  BY WFMin, NatLessThanWellFounded, Zenon
<1>2. \A m \in S : ~ (m < n)
  BY <1>1, Zenon DEF OpToRel
<1>3. \A m, k \in Nat : ~ (m < k) => k <= m
  OBVIOUS
<1> QED BY <1>2, <1>3

\* A set of events has one whose value is highest.  A smallest set without
\* one would still lack it after the loss of an event.
LEMMA HighestOf ==
    ASSUME NEW f \in [Events -> Nat], NEW S \in SUBSET Events, S # {}
    PROVE  \E e \in S : \A x \in S : f[x] <= f[e]
<1> DEFINE Lacks(T) == T # {} /\ ~ \E e \in T : \A x \in T : f[x] <= f[e]
           Sizes == {Cardinality(T) : T \in {T \in SUBSET Events : Lacks(T)}}
<1> SUFFICES ASSUME Lacks(S) PROVE FALSE
  OBVIOUS
<1>1. Sizes \in SUBSET Nat /\ Sizes # {}
  BY CardNat
<1>2. PICK k \in Sizes : \A m \in Sizes : k <= m
  BY <1>1, FirstOf
<1>3. PICK T \in SUBSET Events : Lacks(T) /\ Cardinality(T) = k
  BY <1>2
<1>4. PICK t \in T : TRUE
  BY <1>3
<1> DEFINE R == T \ {t}
<1>5. IsFiniteSet(T) /\ Cardinality(T) \in Nat /\ R \in SUBSET Events
  BY CardNat
<1>6. Cardinality(R) = Cardinality(T) - 1
  BY <1>5, FS_RemoveElement
<1>7. ~ Lacks(R)
  <2>1. Lacks(R) => Cardinality(R) \in Sizes
    BY <1>5
  <2>2. Cardinality(R) \in Sizes => k <= Cardinality(R)
    BY <1>2
  <2>3. ~ (k <= Cardinality(R))
    BY <1>3, <1>5, <1>6
  <2> QED BY <2>1, <2>2, <2>3
<1>8. f[t] \in Nat /\ \A x \in T : f[x] \in Nat
  OBVIOUS
<1>9. CASE R = {}
  BY <1>3, <1>8, <1>9
<1>10. CASE R # {}
  <2>1. PICK r \in R : \A x \in R : f[x] <= f[r]
    BY <1>7, <1>10
  <2>2. CASE f[t] <= f[r]
    BY <2>1, <2>2, <1>3
  <2>3. CASE ~ (f[t] <= f[r])
    <3>1. \A x \in R : f[x] <= f[t]
      BY <2>1, <2>3, <1>8
    <3> QED BY <3>1, <1>3, <1>8
  <2> QED BY <2>2, <2>3
<1> QED BY <1>9, <1>10

LEMMA InStreamEvents ==
    ASSUME TypeInv, NEW s
    PROVE  InStream(s) \in SUBSET Events
<1>1. created \in 0 .. MaxEvents /\ MaxEvents \in Nat
  BY EventStoreAssumption DEF TypeInv
<1>2. 1 .. created \subseteq 1 .. MaxEvents
  BY <1>1
<1> QED BY <1>2 DEF InStream, Events

\* A search for the version finds the highest one.
LEMMA VersionIsHighest ==
    ASSUME TypeInv, NEW s
    PROVE  /\ Version(s) \in Nat
           /\ Version(s) \in {seen[e] : e \in InStream(s)} \cup {0}
           /\ \A e \in InStream(s) : seen[e] <= Version(s)
<1> DEFINE versions == {seen[e] : e \in InStream(s)} \cup {0}
<1>1. InStream(s) \in SUBSET Events /\ seen \in [Events -> Nat]
  BY InStreamEvents DEF TypeInv
<1>5. versions \in SUBSET Nat
  BY <1>1
<1>2. \E v \in versions : \A u \in versions : u <= v
  <2>1. CASE InStream(s) = {}
    BY <2>1
  <2>2. CASE InStream(s) # {}
    <3>1. PICK e \in InStream(s) : \A x \in InStream(s) : seen[x] <= seen[e]
      BY <1>1, <2>2, HighestOf
    <3>2. seen[e] \in versions /\ \A u \in versions : u <= seen[e]
      BY <1>1, <3>1
    <3> QED BY <3>2
  <2> QED BY <2>1, <2>2
<1>3. Version(s) = CHOOSE v \in versions : \A u \in versions : u <= v
  BY DEF Version
<1>4. Version(s) \in versions /\ \A u \in versions : u <= Version(s)
  BY <1>2, <1>3, Zenon
<1> QED BY <1>1, <1>4, <1>5

LEMMA ItemFacts ==
    ASSUME NEW q \in Seq(Item), NEW n \in DOMAIN q
    PROVE  /\ n \in Nat /\ q[n] \in Item
           /\ q[n].stream \in Streams /\ q[n].events \in Places
           /\ DOMAIN q[n].events \subseteq Events
           /\ \A e \in DOMAIN q[n].events : q[n].events[e] \in Nat \ {0}
<1>1. n \in Nat /\ q[n] \in Item
  BY LenProperties, ElementOfSeq
<1>2. q[n].stream \in Streams /\ q[n].events \in Places
  BY <1>1 DEF Item
<1> QED BY <1>1, <1>2, PlacesFacts

\* The group of a stream holds all events of the batch for it.
LEMMA GroupFacts ==
    ASSUME NEW batch \in Seq(Item), NEW s \in Streams,
           \E n \in DOMAIN batch : batch[n].stream = s
    PROVE  /\ Group(s, batch) \in GroupRec
           /\ DOMAIN Group(s, batch).events =
                UNION {DOMAIN batch[n].events : n \in {n \in DOMAIN batch : batch[n].stream = s}}
<1> DEFINE mine == {n \in DOMAIN batch : batch[n].stream = s}
           upTo(n) == UNION {DOMAIN batch[m].events : m \in {m \in mine : m < n}}
           at(e) == CHOOSE n \in mine : e \in DOMAIN batch[n].events
           all == UNION {DOMAIN batch[n].events : n \in mine}
           place == [e \in all |-> Cardinality(upTo(at(e))) + batch[at(e)].events[e]]
           attempt == IF \E n \in mine : batch[n].attempt = 1 THEN 1 ELSE 0
           first == CHOOSE n \in mine : \A m \in mine : n <= m
<1>1. Group(s, batch) = [events |-> place, attempt |-> attempt, first |-> first]
  BY DEF Group
<1>2. mine \in SUBSET Nat /\ mine # {}
  BY ItemFacts
<1>3. first \in Nat
  <2>1. \E n \in mine : \A m \in mine : n <= m
    BY <1>2, FirstOf
  <2>2. first \in mine
    BY <2>1, Zenon
  <2> QED BY <1>2, <2>2
<1>4. all \in SUBSET Events
  BY ItemFacts
<1>5. ASSUME NEW e \in all
      PROVE  Cardinality(upTo(at(e))) + batch[at(e)].events[e] \in Nat \ {0}
  <2>1. \E n \in mine : e \in DOMAIN batch[n].events
    BY <1>5
  <2>2. at(e) \in mine /\ e \in DOMAIN batch[at(e)].events
    BY <2>1, Zenon
  <2> DEFINE n == at(e)
  <2>3. n \in DOMAIN batch /\ e \in DOMAIN batch[n].events
    BY <2>2
  <2> HIDE DEF n
  <2>4. batch[n].events[e] \in Nat \ {0}
    BY <2>3, ItemFacts
  <2>5. upTo(n) \in SUBSET Events
    BY ItemFacts
  <2>6. Cardinality(upTo(n)) \in Nat
    BY <2>5, CardNat
  <2> QED BY <2>4, <2>6 DEF n
<1> HIDE DEF mine, upTo, at, all, first
<1>6. place \in [all -> Nat \ {0}]
  BY <1>5
<1>7. place \in Places
  BY <1>4, <1>6 DEF Places
<1>8. attempt \in {0, 1}
  OBVIOUS
<1>9. DOMAIN place = all
  OBVIOUS
<1> HIDE DEF place, attempt
<1>10. Group(s, batch) \in GroupRec /\ DOMAIN Group(s, batch).events = all
  BY <1>1, <1>3, <1>7, <1>8, <1>9 DEF GroupRec
<1> QED BY <1>10 DEF all, mine

\* The groups of a batch hold its events.
LEMMA GroupsFacts ==
    ASSUME NEW batch \in Seq(Item), batch # <<>>
    PROVE  /\ Groups(batch) \in Batches
           /\ Groups(batch) # <<>>
           /\ UNION {DOMAIN Groups(batch)[s].events : s \in DOMAIN Groups(batch)}
                = Contents(batch)
<1> DEFINE streams == {batch[n].stream : n \in DOMAIN batch}
           G == Groups(batch)
<1>1. G = [s \in streams |-> Group(s, batch)]
  BY DEF Groups
<1>2. streams \in SUBSET Streams
  BY ItemFacts
<1>3. \A s \in streams :
        /\ Group(s, batch) \in GroupRec
        /\ DOMAIN Group(s, batch).events =
             UNION {DOMAIN batch[n].events : n \in {n \in DOMAIN batch : batch[n].stream = s}}
  BY <1>2, GroupFacts
<1>4. G \in [streams -> GroupRec] /\ DOMAIN G = streams
  BY <1>1, <1>3
<1>5. G \in Batches
  BY <1>2, <1>4 DEF Batches
<1>6. streams # {}
  <2>1. 1 \in DOMAIN batch
    BY EmptySeq, LenProperties
  <2> QED BY <2>1
<1>7. G # <<>>
  <2>1. DOMAIN <<>> = {}
    OBVIOUS
  <2> QED BY <2>1, <1>4, <1>6
<1>8. UNION {DOMAIN G[s].events : s \in DOMAIN G} = Contents(batch)
  <2>1. ASSUME NEW e, NEW s \in DOMAIN G, e \in DOMAIN G[s].events
        PROVE  e \in Contents(batch)
    BY <2>1, <1>1, <1>3, <1>4 DEF Contents
  <2>2. ASSUME NEW e, NEW n \in DOMAIN batch, e \in DOMAIN batch[n].events
        PROVE  \E s \in DOMAIN G : e \in DOMAIN G[s].events
    <3>1. batch[n].stream \in streams
      OBVIOUS
    <3>2. e \in DOMAIN Group(batch[n].stream, batch).events
      BY <2>2, <3>1, <1>3
    <3> QED BY <3>1, <3>2, <1>1, <1>4
  <2> QED BY <2>1, <2>2 DEF Contents
<1> QED BY <1>5, <1>7, <1>8

\* An append at the end of the queue, and a batch from its front.
LEMMA AppendContents ==
    ASSUME NEW q \in Seq(Item), NEW item \in Item
    PROVE  /\ Append(q, item) \in Seq(Item)
           /\ Len(Append(q, item)) = Len(q) + 1
           /\ Contents(Append(q, item)) = Contents(q) \cup DOMAIN item.events
<1> DEFINE a == Append(q, item)
<1>1. /\ a \in Seq(Item) /\ Len(a) = Len(q) + 1 /\ Len(q) \in Nat
      /\ DOMAIN q = 1 .. Len(q) /\ DOMAIN a = 1 .. Len(q) + 1
      /\ \A n \in 1 .. Len(q) : a[n] = q[n]
      /\ a[Len(q) + 1] = item
  BY AppendProperties, LenProperties
<1>2. DOMAIN a = DOMAIN q \cup {Len(q) + 1}
  BY <1>1
<1> HIDE DEF a
<1>3. Contents(a) = Contents(q) \cup DOMAIN item.events
  BY <1>1, <1>2 DEF Contents
<1> QED BY <1>1, <1>3 DEF a

LEMMA SplitContents ==
    ASSUME NEW q \in Seq(Item), NEW n \in 1 .. Len(q)
    PROVE  /\ SubSeq(q, 1, n) \in Seq(Item) /\ SubSeq(q, 1, n) # <<>>
           /\ SubSeq(q, n + 1, Len(q)) \in Seq(Item)
           /\ Len(SubSeq(q, n + 1, Len(q))) <= Len(q)
           /\ Contents(q) = Contents(SubSeq(q, 1, n)) \cup Contents(SubSeq(q, n + 1, Len(q)))
<1> DEFINE a == SubSeq(q, 1, n)
           b == SubSeq(q, n + 1, Len(q))
           l == Len(q)
<1>1. l \in Nat /\ n \in Nat /\ 1 <= n /\ n <= l /\ DOMAIN q = 1 .. l
  BY LenProperties
<1>2. a \in Seq(Item) /\ Len(a) = n /\ \A k \in 1 .. n : a[k] = q[k]
  <2>1. /\ a \in Seq(Item)
        /\ Len(a) = IF 1 <= n THEN n - 1 + 1 ELSE 0
        /\ \A k \in 1 .. n - 1 + 1 : a[k] = q[1 + k - 1]
    <3>1. \A k \in 1 .. n : q[k] \in Item
      BY <1>1, ItemFacts
    <3> QED BY <1>1, <3>1, SubSeqProperties
  <2>2. \A k \in 1 .. n : a[k] = q[k]
    <3> SUFFICES ASSUME NEW k \in 1 .. n PROVE a[k] = q[k]
      OBVIOUS
    <3>1. k \in 1 .. n - 1 + 1 /\ 1 + k - 1 = k
      BY <1>1
    <3> QED BY <2>1, <3>1
  <2> QED BY <2>1, <2>2, <1>1
<1>3. b \in Seq(Item) /\ Len(b) = l - n /\ \A k \in 1 .. l - n : b[k] = q[n + k]
  <2>1. /\ b \in Seq(Item)
        /\ Len(b) = IF n + 1 <= l THEN l - (n + 1) + 1 ELSE 0
        /\ \A k \in 1 .. l - (n + 1) + 1 : b[k] = q[n + 1 + k - 1]
    <3>1. \A k \in n + 1 .. l : q[k] \in Item
      BY <1>1, ItemFacts
    <3> QED BY <1>1, <3>1, SubSeqProperties
  <2>2. \A k \in 1 .. l - n : b[k] = q[n + k]
    <3> SUFFICES ASSUME NEW k \in 1 .. l - n PROVE b[k] = q[n + k]
      OBVIOUS
    <3>1. k \in 1 .. l - (n + 1) + 1 /\ n + 1 + k - 1 = n + k
      BY <1>1
    <3> QED BY <2>1, <3>1
  <2>3. Len(b) = l - n
    <3> HIDE DEF b, l
    <3>1. CASE n + 1 <= l
      BY <2>1, <3>1, <1>1
    <3>2. CASE ~ (n + 1 <= l)
      BY <2>1, <3>2, <1>1
    <3> QED BY <3>1, <3>2
  <2> QED BY <2>1, <2>2, <2>3
<1>4. a # <<>>
  BY <1>1, <1>2, EmptySeq
<1>5. DOMAIN a = 1 .. n /\ DOMAIN b = 1 .. l - n
  BY <1>2, <1>3, LenProperties
<1> HIDE DEF a, b, l
<1>6. ASSUME NEW e, NEW k \in DOMAIN q, e \in DOMAIN q[k].events
      PROVE  e \in Contents(a) \cup Contents(b)
  <2>1. CASE k <= n
    <3>1. k \in DOMAIN a
      BY <2>1, <1>1, <1>5
    <3> QED BY <3>1, <1>2, <1>5, <1>6 DEF Contents
  <2>2. CASE ~ (k <= n)
    <3>1. k - n \in DOMAIN b /\ n + (k - n) = k
      BY <2>2, <1>1, <1>5
    <3>2. b[k - n] = q[k]
      BY <3>1, <1>3, <1>5
    <3> QED BY <3>1, <3>2, <1>6 DEF Contents
  <2> QED BY <2>1, <2>2
<1>7. Contents(a) \subseteq Contents(q)
  <2>1. \A k \in DOMAIN a : k \in DOMAIN q /\ a[k] = q[k]
    BY <1>1, <1>2, <1>5
  <2> QED BY <2>1 DEF Contents
<1>8. Contents(b) \subseteq Contents(q)
  <2>1. \A k \in DOMAIN b : n + k \in DOMAIN q /\ b[k] = q[n + k]
    BY <1>1, <1>3, <1>5
  <2> QED BY <2>1 DEF Contents
<1>9. Contents(q) = Contents(a) \cup Contents(b)
  BY <1>6, <1>7, <1>8 DEF Contents
<1>10. Len(b) <= l
  BY <1>1, <1>3
<1> QED BY <1>2, <1>3, <1>4, <1>9, <1>10 DEF a, b, l
-----------------------------------------------------------------------------
(* The steps, one by one: everything but the order of the saved streams *)

Rest == TypeInv /\ Shape /\ Origins /\ Found /\ NothingVanishes /\ Draining

LEMMA QueuedIsContents == Queued = Contents(queue)
BY DEF Queued, Contents

\* What the created events and the holders of events are.
LEMMA Sorts ==
    ASSUME TypeInv
    PROVE  /\ created \in Nat /\ created <= MaxEvents /\ 1 .. created \subseteq Events
           /\ MaxEvents \in Nat /\ MaxQueue \in Nat /\ BatchCap \in Nat \ {0} /\ MaxTries \in Nat
           /\ Queued \subseteq Events /\ InHand \subseteq Events /\ Writing \subseteq Events
           /\ Spooled \subseteq Events
<1>1. MaxEvents \in Nat /\ MaxQueue \in Nat /\ BatchCap \in Nat \ {0} /\ MaxTries \in Nat
  BY EventStoreAssumption
<1>2. created \in Nat /\ created <= MaxEvents
  BY <1>1 DEF TypeInv
<1>3. 1 .. created \subseteq Events
  BY <1>1, <1>2 DEF Events
<1>4. Queued \subseteq Events
  BY ItemFacts DEF TypeInv, Queued
<1>5. InHand \subseteq Events
  <2>1. worker.groups \in Batches
    BY DEF TypeInv, WorkerRec
  <2>2. \A s \in DOMAIN worker.groups : worker.groups[s].events \in Places
    BY <2>1 DEF Batches, GroupRec
  <2> QED BY <2>2, PlacesFacts DEF InHand
<1> QED BY <1>1, <1>2, <1>3, <1>4, <1>5 DEF Writing, Spooled

LEMMA WriteFacts ==
    ASSUME TypeInv, NEW f \in Places, NEW some \in SUBSET DOMAIN f, NEW version \in Nat,
           Write(f, some, version)
    PROVE  /\ index' \in [Events -> Nat]
           /\ \A e \in some : e \in Events /\ index'[e] = version + f[e] /\ index'[e] # 0
           /\ \A e \in Events \ some : index'[e] = index[e]
           /\ \A e \in Events : Stored(e) => index'[e] # 0
<1>1. \A e \in DOMAIN f : e \in Events /\ f[e] \in Nat /\ f[e] # 0
  BY PlacesFacts
<1>2. \A m, n \in Nat : n # 0 => m + n \in Nat /\ m + n # 0
  OBVIOUS
<1>3. \A e \in Events : index'[e] = IF e \in some THEN version + f[e] ELSE index[e]
  BY DEF Write
<1>4. \A e \in some : version + f[e] \in Nat /\ version + f[e] # 0
  BY <1>1, <1>2
<1>5. index \in [Events -> Nat]
  BY DEF TypeInv
<1>6. index' \in [Events -> Nat]
  BY <1>4, <1>5 DEF Write
<1> QED BY <1>1, <1>3, <1>4, <1>6 DEF Stored

\* Writing the event of a writer by itself.
LEMMA WriteAlone ==
    ASSUME TypeInv, NEW x \in Events, NEW version \in Nat, Write(Alone(x), {x}, version)
    PROVE  /\ index' \in [Events -> Nat]
           /\ index'[x] = version + 1 /\ index'[x] # 0
           /\ \A e \in Events \ {x} : index'[e] = index[e]
           /\ \A e \in Events : Stored(e) => index'[e] # 0
<1>1. Alone(x) \in Places /\ DOMAIN Alone(x) = {x} /\ Alone(x)[x] = 1
  BY AlonePlaces
<1> DEFINE f == Alone(x)
           some == {x}
<1>2. f \in Places /\ some \in SUBSET DOMAIN f /\ f[x] = 1 /\ x \in some /\ Write(f, some, version)
  BY <1>1
<1> HIDE DEF f, some
<1>3. /\ index' \in [Events -> Nat]
      /\ \A e \in some : e \in Events /\ index'[e] = version + f[e] /\ index'[e] # 0
      /\ \A e \in Events \ some : index'[e] = index[e]
      /\ \A e \in Events : Stored(e) => index'[e] # 0
  BY <1>2, WriteFacts
<1> QED BY <1>2, <1>3 DEF some

LEMMA InitWorker ==
    Resting \in WorkerRec /\ Resting.pc = "idle" /\ DOMAIN Resting.groups = {}
<1>1. <<>> \in Batches
  <2>1. <<>> \in Seq(GroupRec) /\ Len(<<>>) = 0
    BY EmptySeq
  <2>2. <<>> \in [1 .. 0 -> GroupRec]
    BY <2>1, LenProperties
  <2>3. 1 .. 0 = {} /\ {} \in SUBSET Streams
    OBVIOUS
  <2>4. <<>> \in [{} -> GroupRec]
    BY <2>2, <2>3
  <2> QED BY <2>3, <2>4 DEF Batches
<1>2. DOMAIN <<>> = {} /\ BatchCap \in Nat
  BY EventStoreAssumption
<1> QED BY <1>1, <1>2 DEF Resting, WorkerRec

LEMMA InitRest == Init => Rest
<1> SUFFICES ASSUME Init PROVE Rest
  OBVIOUS
<1> USE DEF Init
<1>1. MaxEvents \in Nat /\ MaxTries \in Nat /\ MaxFaults \in Nat /\ MaxQueue \in Nat /\ BatchCap \in Nat
  BY EventStoreAssumption
<1>2. <<>> \in Seq(Item) /\ Len(<<>>) = 0 /\ DOMAIN <<>> = {}
  BY EmptySeq
<1>4. Resting \in WorkerRec /\ Resting.pc = "idle" /\ DOMAIN Resting.groups = {}
  BY InitWorker
<1>5. Idle \in WriterRec /\ Idle.pc = "idle" /\ Idle.event = NoEvent
  BY DEF Idle, WriterRec
<1>6. TypeInv
  BY <1>1, <1>2, <1>4, <1>5 DEF TypeInv, Appenders, NoEntry
<1>7. Shape
  BY <1>4, <1>5 DEF Shape, WorkerShape, WriterShape, Appenders
<1>8. Origins
  BY <1>2, <1>4, <1>5 DEF Origins, Queued, InHand, Spooled
<1>9. Found /\ NothingVanishes /\ Draining
  BY DEF Found, NothingVanishes, Draining
<1> QED BY <1>6, <1>7, <1>8, <1>9 DEF Rest

LEMMA Holders ==
    /\ UNCHANGED queue => Queued' = Queued
    /\ UNCHANGED worker => InHand' = InHand
    /\ UNCHANGED writer => Writing' = Writing
    /\ UNCHANGED dlq => Spooled' = Spooled
BY DEF Queued, InHand, Writing, Spooled

LEMMA RefreshRest == ASSUME Rest, Refresh PROVE Rest'
<1> USE DEF Refresh, history
<1>1. Queued' = Queued /\ InHand' = InHand /\ Writing' = Writing /\ Spooled' = Spooled
  BY Holders
<1>2. TypeInv'
  BY DEF TypeInv, Rest
<1>3. Shape' /\ Origins'
  BY <1>1 DEF Rest, Shape, WorkerShape, WriterShape, Origins, Appended, Stored
<1>4. Found'
  BY DEF Rest, Found, Stored
<1>5. NothingVanishes' /\ Draining'
  BY <1>1 DEF Rest, NothingVanishes, Draining, Stored
<1> QED BY <1>2, <1>3, <1>4, <1>5 DEF Rest

LEMMA PollRest == ASSUME Rest, PollerStep PROVE Rest'
<1> USE DEF PollerStep, PollFetch, PollPublish, history, store
<1>1. /\ UNCHANGED <<created, streamOf, index, seen, queue, worker, writer, dlq, phase,
                     early, lost, overlapped>>
      /\ Queued' = Queued /\ InHand' = InHand /\ Writing' = Writing /\ Spooled' = Spooled
  BY Holders
<1>2. poller' \in [since : 0 .. MaxEvents, batch : SUBSET Events]
  <2>1. poller \in [since : 0 .. MaxEvents, batch : SUBSET Events] /\ created \in 0 .. MaxEvents
    BY DEF Rest, TypeInv
  <2>2. {e \in 1 .. created : seen[e] # 0 /\ e > poller.since} \in SUBSET Events
    BY Sorts DEF Rest
  <2> QED BY <2>1, <2>2
<1>3. delivered' \in SUBSET Events /\ faults' \in 0 .. MaxFaults
  <2>1. delivered \in SUBSET Events /\ faults \in 0 .. MaxFaults /\ MaxFaults \in Nat
        /\ poller.batch \in SUBSET Events
    BY EventStoreAssumption DEF Rest, TypeInv
  <2> QED BY <2>1 DEF Fault
<1>4. TypeInv'
  BY <1>1, <1>2, <1>3 DEF TypeInv, Rest
<1>5. Shape' /\ Origins' /\ Found' /\ NothingVanishes' /\ Draining'
  BY <1>1 DEF Rest, Shape, WorkerShape, WriterShape, Origins, Found, Appended, Stored, NothingVanishes, Draining
<1> QED BY <1>4, <1>5 DEF Rest

LEMMA RetryFailsRest == ASSUME Rest, NEW x \in Events, RetryFails(x) PROVE Rest'
<1> USE DEF RetryFails, history, store
<1>1. /\ UNCHANGED <<created, streamOf, index, seen, queue, worker, writer, poller, phase,
                     early, delivered, lost, overlapped, faults>>
      /\ Queued' = Queued /\ InHand' = InHand /\ Writing' = Writing
  BY Holders
<1>2. dlq \in [Events -> NoEntry .. MaxTries] /\ MaxTries \in Nat
  BY Sorts DEF Rest, TypeInv
<1>3. dlq[x] + 1 \in NoEntry .. MaxTries /\ dlq[x] # NoEntry /\ dlq[x] + 1 # NoEntry
  BY <1>2 DEF NoEntry
<1>4. dlq' \in [Events -> NoEntry .. MaxTries] /\ Spooled' = Spooled
  <2>1. dlq' = [dlq EXCEPT ![x] = dlq[x] + 1]
    OBVIOUS
  <2> QED BY <2>1, <1>2, <1>3 DEF Spooled
<1>5. TypeInv'
  BY <1>1, <1>4 DEF TypeInv, Rest
<1>6. Shape' /\ Origins' /\ Found' /\ NothingVanishes' /\ Draining'
  BY <1>1, <1>4 DEF Rest, Shape, WorkerShape, WriterShape, Origins, Found, Appended, Stored, NothingVanishes, Draining
<1> QED BY <1>5, <1>6 DEF Rest

\* close() remembers what the queue and the worker hold.
LEMMA CloseRest == ASSUME Rest, Close PROVE Rest'
<1> USE DEF Close, store
<1>1. Queued' = Queued /\ InHand' = InHand /\ Writing' = Writing /\ Spooled' = Spooled
  BY Holders
<1>2. TypeInv'
  <2>1. early' \in SUBSET Events
    BY Sorts DEF Rest
  <2> QED BY <2>1 DEF TypeInv, Rest
<1>3. Shape' /\ Origins' /\ Found' /\ NothingVanishes'
  BY <1>1 DEF Rest, Shape, WorkerShape, WriterShape, Origins, Found, Appended, Stored, NothingVanishes
<1>4. Draining'
  BY <1>1 DEF Draining
<1> QED BY <1>2, <1>3, <1>4 DEF Rest

\* When join() is released nothing is queued and the worker rests.
LEMMA DrainedRest == ASSUME Rest, Drained PROVE Rest'
<1> USE DEF Drained, store, history
<1>1. Queued' = Queued /\ InHand' = InHand /\ Writing' = Writing /\ Spooled' = Spooled
  BY Holders
<1>2. TypeInv'
  BY DEF TypeInv, Rest
<1>3. Shape' /\ Origins' /\ Found' /\ NothingVanishes'
  BY <1>1 DEF Rest, Shape, WorkerShape, WriterShape, Origins, Found, Appended, Stored, NothingVanishes
<1>4. Len(queue) = 0 /\ worker.taken = 0
  <2>1. Len(queue) \in Nat /\ worker.taken \in 0 .. BatchCap /\ BatchCap \in Nat
    BY LenProperties, Sorts DEF Rest, TypeInv, WorkerRec
  <2>2. \A m, n \in Nat : m + n = 0 => m = 0 /\ n = 0
    OBVIOUS
  <2> QED BY <2>1, <2>2 DEF Unfinished
<1>5. Queued = {}
  <2>1. DOMAIN queue = 1 .. 0
    BY <1>4, LenProperties DEF Rest, TypeInv
  <2> QED BY <2>1 DEF Queued
<1>6. InHand = {}
  <2>1. worker = Resting
    BY <1>4 DEF Rest, Shape, WorkerShape, WriterShape
  <2>2. DOMAIN worker.groups = {}
    BY <2>1 DEF Resting
  <2> QED BY <2>2 DEF InHand
<1>7. Draining'
  BY <1>5, <1>6 DEF Rest, Draining, Stored
<1> QED BY <1>2, <1>3, <1>7 DEF Rest

LEMMA WriterFacts ==
    ASSUME Rest, NEW w \in Appenders
    PROVE  /\ writer[w] \in WriterRec /\ writer \in [Appenders -> WriterRec]
           /\ writer[w].pc # "idle" => writer[w].event \in 1 .. created /\ writer[w].event \in Events
           /\ writer[w].pc = "wait" => Stored(writer[w].event)
           /\ writer[w].pc = "idle" => writer[w] = Idle
           /\ Retrier \in Appenders
BY Sorts DEF Rest, Shape, WriterShape, TypeInv, Appenders

\* What one writer does leaves the others alone.
LEMMA WriterMoves ==
    ASSUME Rest, NEW w \in Appenders, NEW r \in WriterRec, writer' = [writer EXCEPT ![w] = r],
           created' \in Nat, created <= created', \A e \in Events : Stored(e) => index'[e] # 0,
           r.pc = "idle" => r = Idle,
           r.pc # "idle" => r.event \in 1 .. created',
           r.pc = "wait" => index'[r.event] # 0
    PROVE  /\ writer' \in [Appenders -> WriterRec]
           /\ WriterShape'
           /\ writer'[w] = r
           /\ \A v \in Appenders : v # w => writer'[v] = writer[v]
           /\ \A e \in Writing : e \in Writing' \/ e = writer[w].event
           /\ r.event \in Events => r.event \in Writing'
           /\ Writing' \subseteq Writing \cup {r.event}
<1>1. writer \in [Appenders -> WriterRec]
  BY DEF Rest, TypeInv
<1>2. writer' \in [Appenders -> WriterRec] /\ writer'[w] = r
      /\ \A v \in Appenders : v # w => writer'[v] = writer[v]
  BY <1>1
<1>3. DOMAIN writer = Appenders /\ DOMAIN writer' = Appenders
  BY <1>1, <1>2
<1>4. WriterShape'
  <2> SUFFICES ASSUME NEW v \in Appenders
               PROVE  /\ writer'[v].pc = "idle" => writer'[v] = Idle
                      /\ writer'[v].pc # "idle" => writer'[v].event \in 1 .. created'
                      /\ writer'[v].pc = "wait" => index'[writer'[v].event] # 0
    BY DEF WriterShape, Stored
  <2>1. CASE v = w
    BY <2>1, <1>2
  <2>2. CASE v # w
    <3>1. writer'[v] = writer[v]
      BY <2>2, <1>2
    <3>2. created \in Nat /\ 1 .. created \subseteq 1 .. created'
      BY Sorts DEF Rest
    <3> QED BY <3>1, <3>2, WriterFacts DEF Stored
  <2> QED BY <2>1, <2>2
<1> QED BY <1>2, <1>3, <1>4 DEF Writing

\* A call of append() returns or raises.
LEMMA WriterEnds ==
    ASSUME Rest, NEW w \in Appenders, writer' = [writer EXCEPT ![w] = Idle],
           UNCHANGED <<created, streamOf, queue, worker>>,
           \A e \in Events : Stored(e) => index'[e] # 0,
           dlq' = IF w = Retrier THEN [dlq EXCEPT ![writer[w].event] = NoEntry] ELSE dlq
    PROVE  /\ writer' \in [Appenders -> WriterRec]
           /\ WriterShape'
           /\ \A v \in Appenders : v # w => writer'[v] = writer[v]
           /\ dlq' \in [Events -> NoEntry .. MaxTries]
           /\ \A e \in Writing \cup Spooled :
                e \in Writing' \cup Spooled' \/ e = writer[w].event
           /\ Origins'
<1>1. Idle \in WriterRec /\ Idle.pc = "idle" /\ Idle.event = NoEvent
  BY DEF Idle, WriterRec
<1>2. created' \in Nat /\ created <= created'
  BY Sorts DEF Rest
<1>8. /\ Idle.pc = "idle" => Idle = Idle
      /\ ~ (Idle.pc # "idle") /\ ~ (Idle.pc = "wait")
  BY <1>1
<1>3. /\ writer' \in [Appenders -> WriterRec] /\ WriterShape'
      /\ writer'[w] = Idle
      /\ \A v \in Appenders : v # w => writer'[v] = writer[v]
      /\ \A e \in Writing : e \in Writing' \/ e = writer[w].event
  BY <1>1, <1>2, <1>8, WriterMoves
<1>4. dlq \in [Events -> NoEntry .. MaxTries] /\ MaxTries \in Nat
  BY Sorts DEF Rest, TypeInv
<1>5. dlq' \in [Events -> NoEntry .. MaxTries]
      /\ \A e \in Events : dlq'[e] = dlq[e] \/ (e = writer[w].event /\ dlq'[e] = NoEntry)
  <2>1. NoEntry \in NoEntry .. MaxTries
    BY <1>4 DEF NoEntry
  <2>2. CASE w # Retrier
    BY <2>2, <1>4
  <2>3. CASE w = Retrier
    BY <2>1, <2>3, <1>4
  <2> QED BY <2>2, <2>3
<1>6. Spooled' \subseteq Spooled /\ \A e \in Spooled : e \in Spooled' \/ e = writer[w].event
  BY <1>5 DEF Spooled
<1>7. Origins'
  <2>1. Queued' = Queued /\ InHand' = InHand /\ Appended' = Appended
    BY Holders DEF Appended
  <2>2. writer'[Retrier].event \in Appended \cup {NoEvent}
    <3>1. Retrier \in Appenders /\ writer[Retrier].event \in Appended \cup {NoEvent}
      BY DEF Appenders, Rest, Origins
    <3> QED BY <3>1, <1>1, <1>3
  <2> QED BY <2>1, <2>2, <1>6 DEF Rest, Origins
<1> QED BY <1>3, <1>5, <1>6, <1>7

\* What an end of append() leaves alone, and what a write may do to the index.
Beside == UNCHANGED <<created, streamOf, seen, queue, worker, poller, phase, early,
                      delivered, overlapped>>
Writes == /\ index' \in [Events -> Nat]
          /\ \A e \in Events : Stored(e) => index'[e] # 0
          /\ \A e \in Events : e > created => index'[e] = 0

LEMMA RaisesRest ==
    ASSUME Rest, NEW w \in Appenders, writer[w].pc # "idle", Raises(w), Beside, Writes,
           faults' \in 0 .. MaxFaults
    PROVE  Rest'
<1> DEFINE x == writer[w].event
<1>1. x \in Events
  BY WriterFacts
<1>2. /\ writer' \in [Appenders -> WriterRec] /\ WriterShape'
      /\ dlq' \in [Events -> NoEntry .. MaxTries]
      /\ \A e \in Writing \cup Spooled : e \in Writing' \cup Spooled' \/ e = x
      /\ Origins'
  BY WriterEnds DEF Raises, Beside, Writes
<1>3. /\ lost' \in [Events -> {"no", "raised", "republished", "spooled", "stopped"}]
      /\ lost'[x] = "raised" /\ \A e \in Events \ {x} : lost'[e] = lost[e]
  <2>1. lost \in [Events -> {"no", "raised", "republished", "spooled", "stopped"}]
    BY DEF Rest, TypeInv
  <2> QED BY <2>1, <1>1 DEF Raises
<1> HIDE DEF x
<1>4. TypeInv'
  BY <1>2, <1>3 DEF Rest, TypeInv, Beside, Writes
<1>5. Shape'
  BY <1>2 DEF Rest, Shape, WorkerShape, Beside
<1>6. Found'
  BY DEF Rest, Found, Stored, Beside, Writes
<1>7. Queued' = Queued /\ InHand' = InHand
  BY Holders DEF Beside
<1>8. NothingVanishes'
  <2> SUFFICES ASSUME NEW e \in 1 .. created
               PROVE  \/ index'[e] # 0 \/ e \in Queued \cup InHand \cup Writing' \cup Spooled'
                      \/ lost'[e] \in {"raised", "spooled", "stopped"}
                      \/ lost'[e] = "republished" /\ streamOf[e] \notin Telemetry
    BY <1>7 DEF NothingVanishes, Stored, Beside
  <2>1. e \in Events
    BY Sorts DEF Rest
  <2>2. CASE e = x
    BY <2>2, <1>3
  <2>3. CASE e # x
    <3>1. lost'[e] = lost[e]
      BY <2>1, <2>3, <1>3
    <3> QED BY <2>1, <2>3, <3>1, <1>2 DEF Rest, NothingVanishes, Writes
  <2> QED BY <2>2, <2>3
<1>9. Draining'
  BY <1>7 DEF Rest, TypeInv, Draining, Stored, Beside, Writes
<1> QED BY <1>2, <1>4, <1>5, <1>6, <1>8, <1>9 DEF Rest

LEMMA FinishedRest ==
    ASSUME Rest, NEW w \in Appenders, writer[w].pc # "idle", Finished(w), Beside, Writes,
           UNCHANGED <<lost, faults>>, index'[writer[w].event] # 0
    PROVE  Rest'
<1> DEFINE x == writer[w].event
<1>1. x \in Events
  BY WriterFacts
<1>2. /\ writer' \in [Appenders -> WriterRec] /\ WriterShape'
      /\ dlq' \in [Events -> NoEntry .. MaxTries]
      /\ \A e \in Writing \cup Spooled : e \in Writing' \cup Spooled' \/ e = x
      /\ Origins'
  BY WriterEnds DEF Finished, Beside, Writes
<1>3. index'[x] # 0
  OBVIOUS
<1> HIDE DEF x
<1>4. TypeInv'
  BY <1>2 DEF Rest, TypeInv, Beside, Writes
<1>5. Shape'
  BY <1>2 DEF Rest, Shape, WorkerShape, Beside
<1>6. Found'
  BY DEF Rest, Found, Stored, Beside, Writes
<1>7. Queued' = Queued /\ InHand' = InHand
  BY Holders DEF Beside
<1>8. NothingVanishes'
  <2> SUFFICES ASSUME NEW e \in 1 .. created
               PROVE  \/ index'[e] # 0 \/ e \in Queued \cup InHand \cup Writing' \cup Spooled'
                      \/ lost[e] \in {"raised", "spooled", "stopped"}
                      \/ lost[e] = "republished" /\ streamOf[e] \notin Telemetry
    BY <1>7 DEF NothingVanishes, Stored, Beside
  <2>1. e \in Events
    BY Sorts DEF Rest
  <2> QED BY <2>1, <1>2, <1>3 DEF Rest, NothingVanishes, Writes
<1>9. Draining'
  BY <1>7 DEF Rest, TypeInv, Draining, Stored, Beside, Writes
<1> QED BY <1>2, <1>4, <1>5, <1>6, <1>8, <1>9 DEF Rest

\* A step of append() that goes on with the same event.
LEMMA GoesOnRest ==
    ASSUME Rest, NEW w \in Appenders, writer[w].pc # "idle", NEW r \in WriterRec,
           writer' = [writer EXCEPT ![w] = r], r.pc # "idle", r.event = writer[w].event,
           r.pc = "wait" => index'[r.event] # 0,
           Beside, Writes, UNCHANGED <<dlq, lost, faults>>
    PROVE  Rest'
<1>1. /\ created' \in Nat /\ created <= created' /\ created' = created
      /\ writer[w].event \in Events /\ writer[w].event \in 1 .. created
      /\ Retrier \in Appenders
  BY Sorts, WriterFacts DEF Rest, Beside
<1>2. /\ writer' \in [Appenders -> WriterRec] /\ WriterShape'
      /\ writer'[w] = r
      /\ \A v \in Appenders : v # w => writer'[v] = writer[v]
      /\ \A e \in Writing : e \in Writing' \/ e = writer[w].event
      /\ r.event \in Events => r.event \in Writing'
  BY <1>1, WriterMoves DEF Writes
<1>3. Writing \subseteq Writing'
  BY <1>1, <1>2
<1>4. TypeInv'
  BY <1>2 DEF Rest, TypeInv, Beside, Writes
<1>5. Shape'
  BY <1>2 DEF Rest, Shape, WorkerShape, Beside
<1>6. Found'
  BY DEF Rest, Found, Stored, Beside, Writes
<1>7. Queued' = Queued /\ InHand' = InHand /\ Spooled' = Spooled /\ Appended' = Appended
  BY Holders DEF Beside, Appended
<1>8. Origins'
  <2>1. writer'[Retrier].event = writer[Retrier].event
    BY <1>1, <1>2
  <2> QED BY <2>1, <1>7 DEF Rest, Origins
<1>9. NothingVanishes'
  <2> SUFFICES ASSUME NEW e \in 1 .. created
               PROVE  \/ index'[e] # 0 \/ e \in Queued \cup InHand \cup Writing' \cup Spooled
                      \/ lost[e] \in {"raised", "spooled", "stopped"}
                      \/ lost[e] = "republished" /\ streamOf[e] \notin Telemetry
    BY <1>7 DEF NothingVanishes, Stored, Beside
  <2>1. e \in Events
    BY Sorts DEF Rest
  <2> QED BY <2>1, <1>3 DEF Rest, NothingVanishes, Writes
<1>10. Draining'
  BY <1>7 DEF Rest, TypeInv, Draining, Stored, Beside, Writes
<1> QED BY <1>4, <1>5, <1>6, <1>8, <1>9, <1>10 DEF Rest

LEMMA SameIndex == ASSUME Rest, UNCHANGED index PROVE Writes
BY DEF Rest, TypeInv, Found, Writes, Stored

\* What the bulk write of a writer does to the index.
LEMMA BulkWrites ==
    ASSUME Rest, NEW w \in Appenders, writer[w].pc = "bulk",
           Write(Alone(writer[w].event), {writer[w].event}, writer[w].version)
    PROVE  /\ Writes
           /\ index'[writer[w].event] = writer[w].version + 1
           /\ index'[writer[w].event] # 0
           /\ \A e \in Events \ {writer[w].event} : index'[e] = index[e]
<1> DEFINE x == writer[w].event
           version == writer[w].version
<1>1. x \in Events /\ x \in 1 .. created /\ version \in Nat /\ created \in Nat
  BY WriterFacts, Sorts DEF Rest, WriterRec
<1>2. TypeInv /\ Write(Alone(x), {x}, version)
  BY DEF Rest
<1> HIDE DEF x, version
<1>3. /\ index' \in [Events -> Nat]
      /\ index'[x] = version + 1 /\ index'[x] # 0
      /\ \A e \in Events \ {x} : index'[e] = index[e]
      /\ \A e \in Events : Stored(e) => index'[e] # 0
  BY <1>1, <1>2, WriteAlone
<1>4. \A e \in Events : e > created => index'[e] = 0
  <2>1. ~ (x > created)
    BY <1>1
  <2> QED BY <2>1, <1>3 DEF Rest, Found
<1> QED BY <1>3, <1>4 DEF Writes, x, version

LEMMA WriterRest == ASSUME Rest, NEW w \in Appenders, WriterStep(w) PROVE Rest'
<1> USE DEF store, history
<1>1. CASE Check(w)
  <2>1. writer[w].pc # "idle" /\ Beside /\ Writes /\ UNCHANGED faults
    BY <1>1, SameIndex DEF Check, Beside
  <2>2. CASE Raises(w)
    <3>1. faults' \in 0 .. MaxFaults
      BY <2>1 DEF Rest, TypeInv
    <3> QED BY <2>1, <2>2, <3>1, RaisesRest
  <2>3. CASE writer' = [writer EXCEPT ![w].pc = "read"] /\ UNCHANGED <<dlq, lost>>
    <3> DEFINE r == [writer[w] EXCEPT !.pc = "read"]
    <3>1. writer' = [writer EXCEPT ![w] = r]
      BY <2>3
    <3>2. r \in WriterRec /\ r.pc = "read" /\ r.event = writer[w].event
      BY WriterFacts DEF WriterRec
    <3> HIDE DEF r
    <3> QED BY <2>1, <2>3, <3>1, <3>2, GoesOnRest
  <2> QED BY <1>1, <2>2, <2>3 DEF Check
<1>2. CASE ReadVersion(w)
  <2> DEFINE r == [writer[w] EXCEPT !.pc = "bulk", !.version = Version(StreamOfWriter(w))]
  <2>1. writer[w].pc # "idle" /\ Beside /\ Writes /\ UNCHANGED <<dlq, lost, faults>>
    BY <1>2, SameIndex DEF ReadVersion, Beside
  <2>2. writer' = [writer EXCEPT ![w] = r]
    BY <1>2 DEF ReadVersion
  <2>3. Version(StreamOfWriter(w)) \in Nat
    BY VersionIsHighest DEF Rest
  <2>4. r \in WriterRec /\ r.pc = "bulk" /\ r.event = writer[w].event
    BY <2>3, WriterFacts DEF WriterRec
  <2>5. PICK q : q = r
    OBVIOUS
  <2>6. writer' = [writer EXCEPT ![w] = q] /\ q \in WriterRec /\ q.pc = "bulk"
        /\ q.event = writer[w].event
    BY <2>2, <2>4, <2>5
  <2> QED BY <2>1, <2>6, GoesOnRest
<1>3. CASE Bulk(w)
  <2>1. /\ writer[w].pc = "bulk" /\ Beside /\ UNCHANGED <<lost, faults>>
        /\ Write(Alone(writer[w].event), {writer[w].event}, writer[w].version)
    BY <1>3 DEF Bulk, Beside
  <2>2. Writes /\ index'[writer[w].event] # 0
    BY <2>1, BulkWrites
  <2>3. CASE Finished(w)
    BY <2>1, <2>2, <2>3, FinishedRest
  <2>4. CASE writer' = [writer EXCEPT ![w].pc = "wait"] /\ UNCHANGED dlq
    <3> DEFINE r == [writer[w] EXCEPT !.pc = "wait"]
    <3>1. writer' = [writer EXCEPT ![w] = r]
      BY <2>4
    <3>2. r \in WriterRec /\ r.pc = "wait" /\ r.event = writer[w].event
      BY WriterFacts DEF WriterRec
    <3>3. PICK q : q = r
      OBVIOUS
    <3>4. writer' = [writer EXCEPT ![w] = q] /\ q \in WriterRec /\ q.pc = "wait"
          /\ q.event = writer[w].event /\ index'[q.event] # 0
      BY <2>2, <3>1, <3>2, <3>3
    <3> HIDE DEF r
    <3> QED BY <2>1, <2>2, <2>4, <3>4, GoesOnRest
  <2> QED BY <1>3, <2>3, <2>4 DEF Bulk
<1>4. CASE Refreshed(w)
  <2>1. /\ writer[w].pc = "wait" /\ Beside /\ Writes /\ UNCHANGED <<index, lost, faults>>
        /\ Finished(w)
    BY <1>4, SameIndex DEF Refreshed, Beside
  <2>2. index'[writer[w].event] # 0
    BY <2>1, WriterFacts DEF Stored
  <2> QED BY <2>1, <2>2, FinishedRest
<1>5. CASE WriterFails(w)
  <2>1. writer[w].pc # "idle" /\ Beside /\ Raises(w)
    BY <1>5 DEF WriterFails, Beside
  <2>2. faults' \in 0 .. MaxFaults
    BY <1>5, EventStoreAssumption DEF WriterFails, Fault, Rest, TypeInv
  <2>3. Writes
    BY <1>5, SameIndex, BulkWrites DEF WriterFails
  <2> QED BY <2>1, <2>2, <2>3, RaisesRest
<1> QED BY <1>1, <1>2, <1>3, <1>4, <1>5 DEF WriterStep

LEMMA EnqueueFacts ==
    ASSUME Rest, NEW s \in Streams, NEW f \in Places, NEW a \in {0, 1}, HasRoom,
           Enqueued(s, f, a)
    PROVE  /\ queue' \in Seq(Item) /\ Len(queue') <= MaxQueue
           /\ Queued' = Queued \cup DOMAIN f
<1> DEFINE item == [stream |-> s, events |-> f, attempt |-> a]
<1>1. item \in Item /\ item.events = f
  BY DEF Item
<1>2. queue' = Append(queue, item) /\ queue \in Seq(Item)
  BY DEF Enqueued, Rest, TypeInv
<1>3. Len(queue) \in Nat /\ Len(queue) < MaxQueue /\ MaxQueue \in Nat
  BY <1>2, LenProperties, Sorts DEF HasRoom, Rest
<1> HIDE DEF item
<1>4. /\ queue' \in Seq(Item) /\ Len(queue') = Len(queue) + 1
      /\ Contents(queue') = Contents(queue) \cup DOMAIN f
  BY <1>1, <1>2, AppendContents
<1>5. Queued' = Contents(queue') /\ Queued = Contents(queue)
  BY DEF Queued, Contents
<1> QED BY <1>3, <1>4, <1>5

\* Creation of an event.
LEMMA CreateFacts ==
    ASSUME Rest, NEW s \in Streams, Create(s)
    PROVE  /\ created' \in 0 .. MaxEvents /\ created' = created + 1 /\ created' \in Events
           /\ created' \in Nat /\ created <= created' /\ created' > created
           /\ 1 .. created' = (1 .. created) \cup {created'}
           /\ created' \notin 1 .. created
           /\ streamOf' \in [Events -> Streams \cup {NoStream}]
           /\ streamOf'[created'] = s
           /\ \A e \in 1 .. created : streamOf'[e] = streamOf[e]
           /\ Appended \subseteq Appended'
           /\ s \notin Saved => created' \in Appended'
<1>1. created \in Nat /\ MaxEvents \in Nat /\ created < MaxEvents /\ created' = created + 1
      /\ streamOf \in [Events -> Streams \cup {NoStream}] /\ 1 .. created \subseteq Events
  BY Sorts DEF Rest, TypeInv, Create
<1>2. created' \in Events
  BY <1>1 DEF Events
<1>3. 1 .. created' = (1 .. created) \cup {created'} /\ created' \notin 1 .. created
  BY <1>1
<1>4. /\ streamOf' \in [Events -> Streams \cup {NoStream}]
      /\ streamOf'[created'] = s
      /\ \A e \in 1 .. created : streamOf'[e] = streamOf[e]
  BY <1>1, <1>2, <1>3 DEF Create
<1>5. Appended \subseteq Appended' /\ (s \notin Saved => created' \in Appended')
  BY <1>3, <1>4 DEF Appended
<1> QED BY <1>1, <1>2, <1>3, <1>4, <1>5

\* A new event is held by the queue or by its writer, the old ones as before.
LEMMA NewEventRest ==
    ASSUME Rest, NEW s \in Streams, Create(s),
           TypeInv', WriterShape', Origins',
           UNCHANGED <<index, seen, worker, dlq, phase, early, lost>>,
           Queued \subseteq Queued', Writing \subseteq Writing',
           created' \in Queued' \cup Writing'
    PROVE  Rest'
<1>1. /\ created' \in Nat /\ created \in Nat /\ created' = created + 1
      /\ 1 .. created' = (1 .. created) \cup {created'}
      /\ \A e \in 1 .. created : streamOf'[e] = streamOf[e]
  BY CreateFacts, Sorts DEF Rest
<1>2. InHand' = InHand /\ Spooled' = Spooled
  BY Holders
<1>3. Shape'
  BY DEF Rest, Shape, WorkerShape
<1>4. Found'
  <2>1. \A e \in Events : e > created' => e > created
    BY <1>1, EventsFinite
  <2> QED BY <2>1 DEF Rest, Found, Stored
<1>5. NothingVanishes'
  <2> SUFFICES ASSUME NEW e \in 1 .. created'
               PROVE  \/ index[e] # 0 \/ e \in Queued' \cup InHand \cup Writing' \cup Spooled
                      \/ lost[e] \in {"raised", "spooled", "stopped"}
                      \/ lost[e] = "republished" /\ streamOf'[e] \notin Telemetry
    BY <1>2 DEF NothingVanishes, Stored
  <2>1. CASE e = created'
    BY <2>1
  <2>2. CASE e \in 1 .. created
    BY <2>2, <1>1 DEF Rest, NothingVanishes, Stored
  <2> QED BY <2>1, <2>2, <1>1
<1>6. Draining'
  BY <1>2 DEF Rest, Draining, Stored
<1> QED BY <1>3, <1>4, <1>5, <1>6 DEF Rest

LEMMA AppendEventRest ==
    ASSUME Rest, NEW w \in Writers, NEW s \in Streams, AppendEvent(w, s)
    PROVE  Rest'
<1>1. /\ writer[w] = Idle /\ s \notin Saved /\ Create(s)
      /\ UNCHANGED <<index, seen, worker, dlq, poller, phase, early, delivered, overlapped, lost, faults>>
  BY EventStoreAssumption DEF AppendEvent, store, history
<1>2. /\ created' \in 0 .. MaxEvents /\ created' \in Events /\ created' \in Nat
      /\ created <= created' /\ created' \in Appended' /\ Appended \subseteq Appended'
      /\ created' \in 1 .. created'
      /\ streamOf' \in [Events -> Streams \cup {NoStream}]
  BY <1>1, CreateFacts
<1>3. InHand' = InHand /\ Spooled' = Spooled
  BY <1>1, Holders
<1>4. PICK x : x = created'
  OBVIOUS
<1>5. w \in Appenders /\ Retrier \in Appenders /\ w # Retrier
  BY EventStoreAssumption DEF Appenders
<1>6. CASE HasRoom
  <2>1. Enqueued(s, Alone(x), 0) /\ UNCHANGED writer
    BY <1>4, <1>6 DEF AppendEvent
  <2>2. Alone(x) \in Places /\ DOMAIN Alone(x) = {x}
    BY <1>2, <1>4, AlonePlaces
  <2>3. queue' \in Seq(Item) /\ Len(queue') <= MaxQueue /\ Queued' = Queued \cup {x}
    BY <1>6, <2>1, <2>2, EnqueueFacts
  <2>4. Writing' = Writing
    BY <2>1, Holders
  <2>5. TypeInv'
    BY <1>1, <1>2, <2>1, <2>3 DEF Rest, TypeInv
  <2>6. WriterShape'
    <3>1. 1 .. created \subseteq 1 .. created'
      BY <1>1, CreateFacts
    <3> QED BY <3>1, <1>1, <2>1 DEF Rest, Shape, WriterShape, Stored
  <2>7. Origins'
    BY <1>2, <1>3, <1>4, <2>1, <2>3 DEF Rest, Origins
  <2> QED BY <1>1, <1>4, <2>3, <2>4, <2>5, <2>6, <2>7, NewEventRest
<1>7. CASE ~ HasRoom
  <2>9. PICK r : r = [Idle EXCEPT !.pc = "read", !.event = x]
    OBVIOUS
  <2>1. writer' = [writer EXCEPT ![w] = r] /\ UNCHANGED queue
    BY <1>4, <1>7, <2>9 DEF AppendEvent
  <2>2. r \in WriterRec /\ r.pc = "read" /\ r.event = x
    BY <1>2, <1>4, <2>9 DEF Idle, WriterRec
  <2>3. \A e \in Events : Stored(e) => index'[e] # 0
    BY <1>1 DEF Stored
  <2>4. /\ writer' \in [Appenders -> WriterRec] /\ WriterShape'
        /\ \A v \in Appenders : v # w => writer'[v] = writer[v]
        /\ \A e \in Writing : e \in Writing' \/ e = writer[w].event
        /\ x \in Writing'
    <3>1. r.pc # "idle" /\ r.pc # "wait" /\ r.event \in 1 .. created' /\ r.event \in Events
          /\ x = r.event
      BY <1>2, <1>4, <2>2
    <3>2. created' \in Nat /\ created <= created' /\ w \in Appenders /\ r \in WriterRec
          /\ writer' = [writer EXCEPT ![w] = r]
      BY <1>2, <1>5, <2>1, <2>2
    <3>3. /\ writer' \in [Appenders -> WriterRec]
          /\ WriterShape'
          /\ \A v \in Appenders : v # w => writer'[v] = writer[v]
          /\ \A e \in Writing : e \in Writing' \/ e = writer[w].event
          /\ r.event \in Events => r.event \in Writing'
      BY <2>3, <3>1, <3>2, WriterMoves
    <3> QED BY <3>1, <3>3
  <2>5. Writing \subseteq Writing'
    <3>1. writer[w].event \notin Events
      BY <1>1, EventsFinite DEF Idle, NoEvent
    <3> QED BY <3>1, <2>4 DEF Writing
  <2>6. Queued' = Queued
    BY <2>1, Holders
  <2>7. TypeInv'
    BY <1>1, <1>2, <2>1, <2>4 DEF Rest, TypeInv
  <2>8. Origins'
    BY <1>2, <1>3, <1>5, <2>4, <2>6 DEF Rest, Origins
  <2> QED BY <1>1, <1>4, <2>4, <2>5, <2>6, <2>7, <2>8, NewEventRest
<1> QED BY <1>6, <1>7

LEMMA SaveRest ==
    ASSUME Rest, NEW w \in Writers, NEW s \in Streams, Save(w, s)
    PROVE  Rest'
<1> DEFINE loaded == {e \in InStream(s) : seen[e] # 0}
           others == {v \in Writers : writer[v] # Idle /\ streamOf[writer[v].event] = s}
<1>1. /\ writer[w] = Idle /\ Create(s)
      /\ UNCHANGED <<index, seen, queue, worker, dlq, poller, phase, early, delivered, lost, faults>>
      /\ writer' = [writer EXCEPT ![w] = [pc |-> "check", event |-> created',
                                          expected |-> Cardinality(loaded), version |-> 0]]
      /\ overlapped' = overlapped \cup
            IF others = {} THEN {} ELSE {created'} \cup {writer[v].event : v \in others}
  BY DEF Save, store
<1>2. /\ created' \in 0 .. MaxEvents /\ created' \in Events /\ created' \in Nat
      /\ created <= created' /\ Appended \subseteq Appended' /\ created' \in 1 .. created'
      /\ streamOf' \in [Events -> Streams \cup {NoStream}]
  BY <1>1, CreateFacts
<1>3. InHand' = InHand /\ Spooled' = Spooled /\ Queued' = Queued
  BY <1>1, Holders
<1>4. w \in Appenders /\ Retrier \in Appenders /\ w # Retrier
  BY EventStoreAssumption DEF Appenders
<1>5. Cardinality(loaded) \in Nat
  <2>1. loaded \in SUBSET Events
    BY InStreamEvents DEF Rest
  <2> QED BY <2>1, CardNat
<1>6. overlapped' \in SUBSET Events
  <2>1. \A v \in others : writer[v].event \in Events
    BY WriterFacts DEF Appenders
  <2>2. overlapped \in SUBSET Events
    BY DEF Rest, TypeInv
  <2> QED BY <1>1, <1>2, <2>1, <2>2
<1> HIDE DEF loaded, others
<1>7. PICK r : r = [pc |-> "check", event |-> created', expected |-> Cardinality(loaded), version |-> 0]
  OBVIOUS
<1>8. r \in WriterRec /\ r.pc = "check" /\ r.event = created' /\ writer' = [writer EXCEPT ![w] = r]
  BY <1>1, <1>2, <1>5, <1>7 DEF WriterRec
<1>9. \A e \in Events : Stored(e) => index'[e] # 0
  BY <1>1 DEF Stored
<1>10. /\ writer' \in [Appenders -> WriterRec] /\ WriterShape'
       /\ \A v \in Appenders : v # w => writer'[v] = writer[v]
       /\ \A e \in Writing : e \in Writing' \/ e = writer[w].event
       /\ created' \in Writing'
  BY <1>2, <1>4, <1>8, <1>9, WriterMoves
<1>11. Writing \subseteq Writing'
  <2>1. writer[w].event \notin Events
    BY <1>1, EventsFinite DEF Idle, NoEvent
  <2> QED BY <2>1, <1>10 DEF Writing
<1>12. TypeInv'
  BY <1>1, <1>2, <1>6, <1>10 DEF Rest, TypeInv
<1>13. Origins'
  BY <1>2, <1>3, <1>4, <1>10 DEF Rest, Origins
<1> QED BY <1>1, <1>3, <1>10, <1>11, <1>12, <1>13, NewEventRest

\* The retry loop republishes an event: telemetry is appended again.
LEMMA RetryRest == ASSUME Rest, NEW x \in Events, Retry(x) PROVE Rest'
<1>1. /\ writer[Retrier] = Idle /\ dlq[x] \in 0 .. MaxTries - 1
      /\ UNCHANGED <<created, streamOf, index, seen, worker, poller, phase, early,
                     delivered, overlapped, faults>>
  BY DEF Retry, store, history
<1>2. Retrier \in Appenders /\ MaxTries \in Nat /\ InHand' = InHand /\ Appended' = Appended
      /\ created \in Nat
  BY <1>1, Sorts, Holders DEF Appenders, Appended, Rest
<1>3. x \in Spooled /\ x \in Appended /\ x \in 1 .. created
  <2>1. dlq[x] # NoEntry
    BY <1>1, <1>2 DEF NoEntry
  <2> QED BY <2>1 DEF Spooled, Rest, Origins, Appended
<1>4. ASSUME dlq' = [dlq EXCEPT ![x] = NoEntry]
      PROVE  dlq' \in [Events -> NoEntry .. MaxTries] /\ Spooled' = Spooled \ {x}
  <2>1. NoEntry \in NoEntry .. MaxTries /\ dlq \in [Events -> NoEntry .. MaxTries]
    BY <1>2 DEF NoEntry, Rest, TypeInv
  <2> QED BY <1>4, <2>1 DEF Spooled
<1>5. Found' /\ WorkerShape'
  BY <1>1 DEF Rest, Found, Stored, Shape, WorkerShape
<1>6. ASSUME UNCHANGED writer PROVE WriterShape' /\ Writing' = Writing
  BY <1>1, <1>6, Holders DEF Rest, Shape, WriterShape, Stored
<1>7. CASE streamOf[x] \notin Telemetry
  <2>1. /\ dlq' = [dlq EXCEPT ![x] = NoEntry] /\ lost' = [lost EXCEPT ![x] = "republished"]
        /\ UNCHANGED <<queue, writer>>
    BY <1>7 DEF Retry
  <2>2. /\ lost' \in [Events -> {"no", "raised", "republished", "spooled", "stopped"}]
        /\ lost'[x] = "republished" /\ \A e \in Events \ {x} : lost'[e] = lost[e]
    BY <2>1 DEF Rest, TypeInv
  <2>3. dlq' \in [Events -> NoEntry .. MaxTries] /\ Spooled' = Spooled \ {x} /\ Queued' = Queued
    BY <2>1, <1>4, Holders
  <2>4. TypeInv'
    BY <1>1, <2>1, <2>2, <2>3 DEF Rest, TypeInv
  <2>5. Origins'
    BY <1>2, <2>1, <2>3 DEF Rest, Origins
  <2>6. Draining'
    BY <1>1, <1>2, <2>3 DEF Rest, Draining, Stored
  <2>7. NothingVanishes'
    <3> SUFFICES ASSUME NEW e \in 1 .. created
                 PROVE  \/ index[e] # 0 \/ e \in Queued \cup InHand \cup Writing \cup (Spooled \ {x})
                        \/ lost'[e] \in {"raised", "spooled", "stopped"}
                        \/ lost'[e] = "republished" /\ streamOf[e] \notin Telemetry
      BY <1>1, <1>2, <1>6, <2>1, <2>3 DEF NothingVanishes, Stored
    <3>1. CASE e = x
      BY <3>1, <1>7, <2>2
    <3>2. CASE e # x
      <4>1. lost'[e] = lost[e]
        BY <3>2, <2>2, Sorts DEF Rest
      <4> QED BY <3>2, <4>1 DEF Rest, NothingVanishes, Stored
    <3> QED BY <3>1, <3>2
  <2> QED BY <1>5, <1>6, <2>1, <2>4, <2>5, <2>6, <2>7 DEF Rest, Shape
<1>8. CASE streamOf[x] \in Telemetry /\ HasRoom
  <2>1. /\ Enqueued(streamOf[x], Alone(x), 0) /\ dlq' = [dlq EXCEPT ![x] = NoEntry]
        /\ UNCHANGED <<writer, lost>>
    BY <1>8 DEF Retry
  <2>2. streamOf[x] \in Streams /\ Alone(x) \in Places /\ DOMAIN Alone(x) = {x}
    BY <1>8, AlonePlaces DEF Streams
  <2>3. PICK s \in Streams : s = streamOf[x]
    BY <2>2
  <2>4. PICK f \in Places : f = Alone(x) /\ DOMAIN f = {x}
    BY <2>2
  <2>5. queue' \in Seq(Item) /\ Len(queue') <= MaxQueue /\ Queued' = Queued \cup {x}
    <3>1. HasRoom /\ Enqueued(s, f, 0)
      BY <1>8, <2>1, <2>3, <2>4
    <3> QED BY <3>1, <2>4, EnqueueFacts
  <2>6. dlq' \in [Events -> NoEntry .. MaxTries] /\ Spooled' = Spooled \ {x}
    BY <2>1, <1>4
  <2>7. TypeInv'
    BY <1>1, <2>1, <2>5, <2>6 DEF Rest, TypeInv
  <2>8. Origins'
    BY <1>2, <1>3, <2>1, <2>5, <2>6 DEF Rest, Origins
  <2>9. Draining'
    BY <1>1, <1>2, <2>5 DEF Rest, Draining, Stored
  <2>10. NothingVanishes'
    BY <1>1, <1>2, <1>6, <2>1, <2>5, <2>6 DEF Rest, NothingVanishes, Stored
  <2> QED BY <1>5, <1>6, <2>1, <2>7, <2>8, <2>9, <2>10 DEF Rest, Shape
<1>9. CASE streamOf[x] \in Telemetry /\ ~ HasRoom
  <2>1. PICK r : r = [Idle EXCEPT !.pc = "read", !.event = x]
    OBVIOUS
  <2>2. writer' = [writer EXCEPT ![Retrier] = r] /\ UNCHANGED <<queue, dlq, lost>>
    BY <1>9, <2>1 DEF Retry
  <2>3. /\ r \in WriterRec /\ r.pc # "idle" /\ r.pc # "wait" /\ r.event = x
        /\ r.event \in 1 .. created' /\ created' \in Nat /\ created <= created'
        /\ \A e \in Events : Stored(e) => index'[e] # 0
    <3>1. r \in WriterRec /\ r.pc = "read" /\ r.event = x
      BY <2>1 DEF Idle, WriterRec
    <3>2. created' = created /\ index' = index
      BY <1>1
    <3>3. created' \in Nat /\ created <= created' /\ x \in 1 .. created'
      BY <1>2, <1>3, <3>2
    <3> QED BY <3>1, <3>2, <3>3 DEF Stored
  <2>4. /\ writer' \in [Appenders -> WriterRec] /\ WriterShape' /\ writer'[Retrier] = r
        /\ \A e \in Writing : e \in Writing' \/ e = writer[Retrier].event
    BY <1>2, <2>2, <2>3, WriterMoves
  <2>5. Writing \subseteq Writing'
    <3>1. writer[Retrier].event \notin Events
      BY <1>1, EventsFinite DEF Idle, NoEvent
    <3> QED BY <3>1, <2>4 DEF Writing
  <2>6. Queued' = Queued /\ Spooled' = Spooled
    BY <2>2, Holders
  <2>7. TypeInv'
    BY <1>1, <2>2, <2>4 DEF Rest, TypeInv
  <2>8. Origins'
    BY <1>2, <1>3, <2>3, <2>4, <2>6 DEF Rest, Origins
  <2>9. Draining'
    BY <1>1, <1>2, <2>6 DEF Rest, Draining, Stored
  <2>10. NothingVanishes'
    BY <1>1, <1>2, <2>2, <2>5, <2>6 DEF Rest, NothingVanishes, Stored
  <2> QED BY <1>5, <2>4, <2>7, <2>8, <2>9, <2>10 DEF Rest, Shape
<1> QED BY <1>7, <1>8, <1>9

\* The worker takes a batch: its events change hands.
LEMMA TakeRest == ASSUME Rest, Take PROVE Rest'
<1> DEFINE n == IF Len(queue) < BatchCap THEN Len(queue) ELSE BatchCap
           batch == SubSeq(queue, 1, n)
           left == SubSeq(queue, n + 1, Len(queue))
<1>1. /\ worker.pc = "idle" /\ queue # <<>>
      /\ worker' = [pc |-> "read", groups |-> Groups(batch), taken |-> n, version |-> 0]
      /\ queue' = left
      /\ UNCHANGED <<created, streamOf, index, seen, writer, dlq, poller, phase, early,
                     delivered, overlapped, lost, faults>>
  BY DEF Take, store, history
<1>2. queue \in Seq(Item) /\ Len(queue) \in Nat \ {0} /\ BatchCap \in Nat \ {0} /\ Len(queue) <= MaxQueue
      /\ MaxQueue \in Nat
  BY <1>1, EmptySeq, Sorts DEF Rest, TypeInv
<1>3. n \in 1 .. Len(queue) /\ n \in 0 .. BatchCap /\ n # 0
  <2>1. CASE Len(queue) < BatchCap
    BY <2>1, <1>2
  <2>2. CASE ~ (Len(queue) < BatchCap)
    BY <2>2, <1>2
  <2> QED BY <2>1, <2>2
<1> HIDE DEF n
<1>4. /\ batch \in Seq(Item) /\ batch # <<>> /\ left \in Seq(Item) /\ Len(left) <= Len(queue)
      /\ Contents(queue) = Contents(batch) \cup Contents(left)
  BY <1>2, <1>3, SplitContents
<1> HIDE DEF batch, left
<1>5. Len(left) \in Nat
  BY <1>4, LenProperties
<1>6. /\ Groups(batch) \in Batches /\ Groups(batch) # <<>>
      /\ UNION {DOMAIN Groups(batch)[s].events : s \in DOMAIN Groups(batch)} = Contents(batch)
  BY <1>4, GroupsFacts
<1>7. InHand' = Contents(batch) /\ Queued' = Contents(left) /\ Queued = Contents(queue)
  BY <1>1, <1>6 DEF InHand, Queued, Contents
<1>8. InHand = {}
  <2>1. DOMAIN worker.groups = {}
    BY <1>1 DEF Rest, Shape, WorkerShape, Resting
  <2> QED BY <2>1 DEF InHand
<1>9. Queued' \cup InHand' = Queued \cup InHand /\ Writing' = Writing /\ Spooled' = Spooled
      /\ Appended' = Appended
  BY <1>1, <1>4, <1>7, <1>8, Holders DEF Appended
<1>10. worker' \in WorkerRec /\ WorkerShape'
  BY <1>1, <1>3, <1>6 DEF WorkerRec, WorkerShape
<1>11. TypeInv'
  <2>1. queue' \in Seq(Item) /\ Len(queue') <= MaxQueue
    BY <1>1, <1>2, <1>4, <1>5
  <2> QED BY <1>1, <2>1, <1>10 DEF Rest, TypeInv
<1>12. WriterShape' /\ Origins' /\ Found' /\ NothingVanishes' /\ Draining'
  BY <1>1, <1>9 DEF Rest, Shape, WriterShape, Origins, Found, NothingVanishes, Draining, Stored
<1> QED BY <1>10, <1>11, <1>12 DEF Rest, Shape

\* What the worker does with a group, and what remains in its hands.
LEMMA TurnFacts ==
    ASSUME Rest, NEW s, Turn(s)
    PROVE  /\ s \in Streams /\ worker.groups[s] \in GroupRec
           /\ worker.groups[s].events \in Places
           /\ DOMAIN worker.groups[s].events \subseteq InHand
           /\ worker.version \in Nat
<1>1. worker \in WorkerRec /\ worker.groups \in Batches /\ s \in DOMAIN worker.groups
  BY DEF Rest, TypeInv, WorkerRec, Turn
<1>2. s \in Streams /\ worker.groups[s] \in GroupRec
  BY <1>1 DEF Batches
<1> QED BY <1>1, <1>2 DEF WorkerRec, GroupRec, InHand

LEMMA NextGroupFacts ==
    ASSUME Rest, NEW s, Turn(s), worker.pc # "idle", NextGroup(s)
    PROVE  /\ worker' \in WorkerRec /\ WorkerShape'
           /\ InHand' \subseteq InHand
           /\ InHand \subseteq InHand' \cup DOMAIN worker.groups[s].events
<1> DEFINE g == worker.groups
<1>1. worker \in WorkerRec /\ g \in Batches /\ s \in DOMAIN g /\ BatchCap \in Nat
      /\ worker.taken # 0
  BY Sorts DEF Rest, TypeInv, WorkerRec, Turn, Shape, WorkerShape
<1>2. CASE DOMAIN g = {s}
  <2>1. worker' = Resting
    BY <1>2 DEF NextGroup
  <2>2. DOMAIN Resting.groups = {} /\ Resting.pc = "idle"
    BY DEF Resting
  <2>3. Resting \in WorkerRec
    BY InitWorker
  <2>4. InHand' = {}
    BY <2>1, <2>2 DEF InHand
  <2>5. InHand = DOMAIN g[s].events
    BY <1>2 DEF InHand
  <2> QED BY <2>1, <2>2, <2>3, <2>4, <2>5 DEF WorkerShape
<1>3. CASE DOMAIN g # {s}
  <2> DEFINE D == DOMAIN g \ {s}
  <2>1. worker' = [worker EXCEPT !.pc = "read", !.groups = Restrict(g, D)]
    BY <1>3 DEF NextGroup
  <2>2. Restrict(g, D) = [t \in D |-> g[t]]
    BY DEF Restrict
  <2>3. D # {} /\ DOMAIN Restrict(g, D) = D /\ \A t \in D : Restrict(g, D)[t] = g[t]
    BY <1>1, <1>3, <2>2
  <2>4. Restrict(g, D) # <<>>
    <3>1. DOMAIN <<>> = {}
      OBVIOUS
    <3> QED BY <2>3, <3>1
  <2>5. Restrict(g, D) \in Batches
    BY <1>1, <2>2 DEF Batches
  <2>6. /\ worker'.pc = "read" /\ worker'.groups = Restrict(g, D)
        /\ worker'.taken = worker.taken /\ worker' \in WorkerRec
    BY <1>1, <2>1, <2>5 DEF WorkerRec
  <2>7. WorkerShape'
    BY <1>1, <2>4, <2>6 DEF WorkerShape
  <2>8. InHand' = UNION {DOMAIN g[t].events : t \in D}
    BY <2>3, <2>6 DEF InHand
  <2>9. InHand' \subseteq InHand /\ InHand \subseteq InHand' \cup DOMAIN g[s].events
    BY <2>8 DEF InHand
  <2> QED BY <2>6, <2>7, <2>9
<1> QED BY <1>2, <1>3

LEMMA WorkerReadsRest == ASSUME Rest, NEW s \in Streams, WorkerReads(s) PROVE Rest'
<1>1. /\ worker.pc = "read" /\ Turn(s)
      /\ worker' = [worker EXCEPT !.pc = "bulk", !.version = Version(s)]
      /\ UNCHANGED <<created, streamOf, index, seen, queue, writer, dlq, poller, phase, early,
                     delivered, overlapped, lost, faults>>
  BY DEF WorkerReads, store, history
<1>2. Version(s) \in Nat
  BY VersionIsHighest DEF Rest
<1>3. /\ worker' \in WorkerRec /\ worker'.pc = "bulk" /\ worker'.groups = worker.groups
      /\ worker'.taken = worker.taken
  BY <1>1, <1>2 DEF Rest, TypeInv, WorkerRec
<1>4. WorkerShape'
  BY <1>1, <1>3 DEF Rest, Shape, WorkerShape
<1>5. InHand' = InHand
  BY <1>3 DEF InHand
<1>6. Queued' = Queued /\ Writing' = Writing /\ Spooled' = Spooled /\ Appended' = Appended
  BY <1>1, Holders DEF Appended
<1>7. TypeInv'
  BY <1>1, <1>3 DEF Rest, TypeInv
<1>8. WriterShape' /\ Origins' /\ Found' /\ NothingVanishes' /\ Draining'
  BY <1>1, <1>5, <1>6 DEF Rest, Shape, WriterShape, Origins, Found, NothingVanishes, Draining, Stored
<1> QED BY <1>4, <1>7, <1>8 DEF Rest, Shape

\* Some of the events of a group are written.
LEMMA GroupWrites ==
    ASSUME Rest, NEW s, Turn(s), NEW some \in SUBSET DOMAIN worker.groups[s].events,
           Write(worker.groups[s].events, some, worker.version)
    PROVE  /\ Writes
           /\ \A e \in some : index'[e] # 0
           /\ \A e \in Events \ InHand : index'[e] = index[e]
<1>1. /\ worker.groups[s].events \in Places
      /\ DOMAIN worker.groups[s].events \subseteq InHand
      /\ worker.version \in Nat /\ TypeInv
  BY TurnFacts DEF Rest
<1>2. PICK f \in Places : f = worker.groups[s].events
  BY <1>1
<1>3. PICK v \in Nat : v = worker.version
  BY <1>1
<1>4. /\ index' \in [Events -> Nat]
      /\ \A e \in some : e \in Events /\ index'[e] = v + f[e] /\ index'[e] # 0
      /\ \A e \in Events \ some : index'[e] = index[e]
      /\ \A e \in Events : Stored(e) => index'[e] # 0
  <2>1. some \in SUBSET DOMAIN f /\ Write(f, some, v)
    BY <1>2, <1>3
  <2> QED BY <1>1, <2>1, WriteFacts
<1>5. \A e \in some : e \in InHand
  BY <1>1
<1>6. \A e \in Events : e > created => index'[e] = 0
  <2>1. \A e \in InHand : e \in 1 .. created
    BY DEF Rest, Origins, Appended
  <2>2. \A e \in InHand : ~ (e > created)
    BY <2>1, Sorts DEF Rest
  <2> QED BY <2>2, <1>4, <1>5 DEF Rest, Found
<1> QED BY <1>4, <1>5, <1>6 DEF Writes

LEMMA WorkerBulkRest == ASSUME Rest, NEW s \in Streams, WorkerBulk(s) PROVE Rest'
<1> DEFINE E == DOMAIN worker.groups[s].events
<1>1. /\ worker.pc # "idle" /\ Turn(s) /\ NextGroup(s)
      /\ Write(worker.groups[s].events, E, worker.version)
      /\ UNCHANGED <<created, streamOf, seen, queue, writer, dlq, poller, phase, early,
                     delivered, overlapped, lost, faults>>
  BY DEF WorkerBulk, store, history
<1>2. /\ worker' \in WorkerRec /\ WorkerShape'
      /\ InHand' \subseteq InHand /\ InHand \subseteq InHand' \cup E
  BY <1>1, NextGroupFacts
<1>3. Writes /\ \A e \in E : index'[e] # 0
  BY <1>1, GroupWrites
<1>4. Queued' = Queued /\ Writing' = Writing /\ Spooled' = Spooled /\ Appended' = Appended
  BY <1>1, Holders DEF Appended
<1> HIDE DEF E
<1>5. TypeInv'
  BY <1>1, <1>2, <1>3 DEF Rest, TypeInv, Writes
<1>6. WriterShape'
  BY <1>1, <1>3, WriterFacts DEF Rest, Shape, WriterShape, Stored, Writes
<1>7. Origins' /\ Found'
  BY <1>1, <1>2, <1>3, <1>4 DEF Rest, Origins, Found, Stored, Writes
<1>8. NothingVanishes'
  <2> SUFFICES ASSUME NEW e \in 1 .. created
               PROVE  \/ index'[e] # 0 \/ e \in Queued \cup InHand' \cup Writing \cup Spooled
                      \/ lost[e] \in {"raised", "spooled", "stopped"}
                      \/ lost[e] = "republished" /\ streamOf[e] \notin Telemetry
    BY <1>1, <1>4 DEF NothingVanishes, Stored
  <2>1. e \in Events
    BY Sorts DEF Rest
  <2> QED BY <2>1, <1>2, <1>3 DEF Rest, NothingVanishes, Writes
<1>9. Draining'
  <2>1. \A e \in early : e \in Events
    BY DEF Rest, TypeInv
  <2> QED BY <2>1, <1>1, <1>2, <1>3, <1>4 DEF Rest, Draining, Stored, Writes
<1> QED BY <1>2, <1>5, <1>6, <1>7, <1>8, <1>9 DEF Rest, Shape

\* The events of a group that fails are queued again, or they are dead
\* letters, which no drain promises to keep.
LEMMA WorkerFailsRest == ASSUME Rest, NEW s \in Streams, WorkerFails(s) PROVE Rest'
<1> DEFINE f == worker.groups[s].events
           E == DOMAIN f
<1>1. /\ worker.pc # "idle" /\ Turn(s) /\ NextGroup(s) /\ Fault
      /\ \E some \in SUBSET E : Write(f, some, worker.version)
      /\ UNCHANGED <<created, streamOf, seen, writer, poller, phase, delivered, overlapped, lost>>
  BY DEF WorkerFails
<1>2. /\ worker' \in WorkerRec /\ WorkerShape'
      /\ InHand' \subseteq InHand /\ InHand \subseteq InHand' \cup E
  BY <1>1, NextGroupFacts
<1>3. Writes
  BY <1>1, GroupWrites
<1>4. f \in Places /\ E \subseteq InHand /\ E \subseteq Appended /\ E \subseteq Events
  BY <1>1, TurnFacts, PlacesFacts DEF Rest, Origins
<1>5. Writing' = Writing /\ Appended' = Appended
  BY <1>1, Holders DEF Appended
<1>6. /\ queue' \in Seq(Item) /\ Len(queue') <= MaxQueue
      /\ dlq' \in [Events -> NoEntry .. MaxTries] /\ early' \in SUBSET Events
      /\ \/ Queued' = Queued \cup E /\ Spooled' = Spooled /\ early' = early
         \/ Queued' = Queued /\ Spooled' = Spooled \cup E /\ early' = early \ E
  <2>1. /\ queue \in Seq(Item) /\ Len(queue) <= MaxQueue /\ early \in SUBSET Events
        /\ dlq \in [Events -> NoEntry .. MaxTries] /\ MaxTries \in Nat
    BY Sorts DEF Rest, TypeInv
  <2>2. CASE HasRoom /\ Enqueued(s, f, 1) /\ UNCHANGED <<dlq, early>>
    <3>1. PICK p \in Places : p = f
      BY <1>4
    <3>2. queue' \in Seq(Item) /\ Len(queue') <= MaxQueue /\ Queued' = Queued \cup DOMAIN p
      BY <2>2, <3>1, EnqueueFacts
    <3>3. Spooled' = Spooled
      BY <2>2, Holders
    <3> QED BY <2>1, <2>2, <3>1, <3>2, <3>3
  <2>3. CASE Spool(f) /\ UNCHANGED queue
    <3>1. /\ dlq' = [e \in Events |-> IF e \in E THEN 0 ELSE dlq[e]]
          /\ early' = early \ E
      BY <2>3 DEF Spool
    <3> HIDE DEF E
    <3>2. 0 \in NoEntry .. MaxTries /\ 0 # NoEntry
      BY <2>1 DEF NoEntry
    <3>3. dlq' \in [Events -> NoEntry .. MaxTries]
      BY <2>1, <3>1, <3>2
    <3>4. Spooled' = Spooled \cup E
      BY <3>1, <3>2, <1>4 DEF Spooled
    <3>5. Queued' = Queued
      BY <2>3, Holders
    <3> QED BY <2>1, <2>3, <3>1, <3>3, <3>4, <3>5
  <2> QED BY <2>2, <2>3 DEF WorkerFails
<1> HIDE DEF f, E
<1>7. faults' \in 0 .. MaxFaults
  BY <1>1, EventStoreAssumption DEF Fault, Rest, TypeInv
<1>8. TypeInv'
  BY <1>1, <1>2, <1>3, <1>6, <1>7 DEF Rest, TypeInv, Writes
<1>9. WriterShape'
  BY <1>1, <1>3, WriterFacts DEF Rest, Shape, WriterShape, Stored, Writes
<1>10. Origins'
  BY <1>1, <1>2, <1>4, <1>5, <1>6 DEF Rest, Origins
<1>11. Found'
  BY <1>1, <1>3 DEF Rest, Found, Stored, Writes
<1>12. NothingVanishes'
  <2> SUFFICES ASSUME NEW e \in 1 .. created
               PROVE  \/ index'[e] # 0 \/ e \in Queued' \cup InHand' \cup Writing \cup Spooled'
                      \/ lost[e] \in {"raised", "spooled", "stopped"}
                      \/ lost[e] = "republished" /\ streamOf[e] \notin Telemetry
    BY <1>1, <1>5 DEF NothingVanishes, Stored
  <2>1. e \in Events
    BY Sorts DEF Rest
  <2> QED BY <2>1, <1>2, <1>3, <1>6 DEF Rest, NothingVanishes, Writes
<1>13. Draining'
  <2>1. \A e \in early : e \in Events
    BY DEF Rest, TypeInv
  <2> QED BY <2>1, <1>1, <1>2, <1>3, <1>6 DEF Rest, Draining, Stored, Writes
<1> QED BY <1>2, <1>8, <1>9, <1>10, <1>11, <1>12, <1>13 DEF Rest, Shape

\* The end of the process says what it takes with it.
LEMMA StopRest == ASSUME Rest, Stop PROVE Rest'
<1>1. /\ lost' = [e \in Events |-> IF e \in Spooled THEN "spooled"
                                    ELSE IF e \in Queued \cup InHand \cup Writing THEN "stopped"
                                    ELSE lost[e]]
      /\ queue' = <<>> /\ worker' = Resting
      /\ writer' = [w \in DOMAIN writer |-> Idle]
      /\ dlq' = [e \in Events |-> NoEntry]
      /\ UNCHANGED <<created, streamOf, index, seen, poller, early, delivered, overlapped, faults>>
      /\ \/ phase = "drained" /\ phase' = "closed"
         \/ phase' = "lossy"
  BY DEF Stop, store, history
<1>2. DOMAIN writer = Appenders /\ MaxQueue \in Nat /\ MaxTries \in Nat /\ Retrier \in Appenders
  BY Sorts DEF Rest, TypeInv, Appenders
<1>3. /\ <<>> \in Seq(Item) /\ Len(<<>>) = 0 /\ DOMAIN <<>> = {}
      /\ Resting \in WorkerRec /\ Resting.pc = "idle" /\ DOMAIN Resting.groups = {}
      /\ Idle \in WriterRec /\ Idle.pc = "idle" /\ Idle.event = NoEvent
  BY EmptySeq, InitWorker DEF Idle, WriterRec
<1>4. writer' \in [Appenders -> WriterRec] /\ \A w \in Appenders : writer'[w] = Idle
  BY <1>1, <1>2, <1>3
<1>5. dlq' \in [Events -> NoEntry .. MaxTries] /\ Spooled' = {}
  <2>1. NoEntry \in NoEntry .. MaxTries
    BY <1>2 DEF NoEntry
  <2> QED BY <2>1, <1>1 DEF Spooled
<1>6. lost' \in [Events -> {"no", "raised", "republished", "spooled", "stopped"}]
  <2>1. lost \in [Events -> {"no", "raised", "republished", "spooled", "stopped"}]
    BY DEF Rest, TypeInv
  <2> QED BY <2>1, <1>1
<1>7. TypeInv'
  BY <1>1, <1>2, <1>3, <1>4, <1>5, <1>6 DEF Rest, TypeInv
<1>8. Shape'
  BY <1>1, <1>3, <1>4 DEF Shape, WorkerShape, WriterShape
<1>9. Queued' = {} /\ InHand' = {}
  BY <1>1, <1>3 DEF Queued, InHand
<1>10. Origins'
  BY <1>2, <1>3, <1>4, <1>5, <1>9 DEF Origins
<1>11. Found' /\ Draining'
  BY <1>1 DEF Rest, Found, Draining, Stored
<1>12. NothingVanishes'
  <2> SUFFICES ASSUME NEW e \in 1 .. created
               PROVE  \/ index[e] # 0
                      \/ lost'[e] \in {"raised", "spooled", "stopped"}
                      \/ lost'[e] = "republished" /\ streamOf[e] \notin Telemetry
    BY <1>1 DEF NothingVanishes, Stored
  <2>1. e \in Events
    BY Sorts DEF Rest
  <2>2. lost'[e] = IF e \in Spooled THEN "spooled"
                   ELSE IF e \in Queued \cup InHand \cup Writing THEN "stopped" ELSE lost[e]
    BY <2>1, <1>1
  <2> QED BY <2>2 DEF Rest, NothingVanishes, Stored
<1> QED BY <1>7, <1>8, <1>10, <1>11, <1>12 DEF Rest

LEMMA NextRest == ASSUME Rest, [Next]_vars PROVE Rest'
<1>1. CASE Refresh
  BY <1>1, RefreshRest
<1>2. CASE \E w \in Writers, s \in Streams : AppendEvent(w, s) \/ Save(w, s)
  BY <1>2, AppendEventRest, SaveRest
<1>3. CASE \E w \in Writers \cup {Retrier} : WriterStep(w)
  BY <1>3, WriterRest DEF Appenders
<1>4. CASE WorkerStep
  BY <1>4, TakeRest, WorkerReadsRest, WorkerBulkRest, WorkerFailsRest DEF WorkerStep
<1>5. CASE \E e \in Events : Retry(e) \/ RetryFails(e)
  BY <1>5, RetryRest, RetryFailsRest
<1>6. CASE PollerStep
  BY <1>6, PollRest
<1>7. CASE Close \/ Drained \/ Stop
  BY <1>7, CloseRest, DrainedRest, StopRest
<1>8. CASE UNCHANGED vars
  <2>1. Queued' = Queued /\ InHand' = InHand /\ Writing' = Writing /\ Spooled' = Spooled
    BY <1>8, Holders DEF vars
  <2>2. TypeInv'
    BY <1>8 DEF vars, Rest, TypeInv
  <2> QED BY <1>8, <2>1, <2>2 DEF vars, Rest, Shape, WorkerShape, WriterShape, Origins, Found,
             Appended, NothingVanishes, Draining, Stored
<1> QED BY <1>1, <1>2, <1>3, <1>4, <1>5, <1>6, <1>7, <1>8 DEF Next
-----------------------------------------------------------------------------
(* The order of the saved streams *)

LEMMA SavingFacts ==
    ASSUME Rest, NEW s, NEW w \in Saving(s)
    PROVE  /\ w \in Writers /\ w \in Appenders /\ writer[w].pc # "idle"
           /\ writer[w].event \in InStream(s) /\ writer[w].event \in Events
           /\ streamOf[writer[w].event] = s
<1>1. w \in Writers /\ w \in Appenders /\ writer[w].pc # "idle" /\ streamOf[writer[w].event] = s
  BY DEF Saving, StreamOfWriter, Appenders
<1> QED BY <1>1, WriterFacts DEF InStream

\* A step that does not touch a stream keeps its order.
LEMMA Untouched ==
    ASSUME Rest, NEW s \in Saved, Clean(s) => InOrder(s), Clean(s)',
           InStream(s)' = InStream(s), overlapped \subseteq overlapped',
           \A e \in InStream(s) : /\ index'[e] = index[e]
                                  /\ seen'[e] = seen[e] \/ seen'[e] = index[e]
                                  /\ lost'[e] = "no" => lost[e] = "no",
           \A w \in Writers : \/ writer'[w] = writer[w]
                              \/ w \notin Saving(s) /\ w \notin Saving(s)',
           \A e \in 1 .. created : streamOf'[e] = streamOf[e]
    PROVE  InOrder(s)'
<1>1. Clean(s) /\ InOrder(s)
  BY DEF Clean
<1>2. StoredIn(s)' = StoredIn(s)
  BY DEF StoredIn, Stored
<1>3. ASSUME NEW w \in Writers
      PROVE  /\ w \in Saving(s)' <=> w \in Saving(s)
             /\ w \in Saving(s) => writer'[w] = writer[w]
  <2>1. CASE w \notin Saving(s) /\ w \notin Saving(s)'
    BY <2>1
  <2>2. CASE writer'[w] = writer[w]
    <3>1. writer[w].pc # "idle" => streamOf'[writer[w].event] = streamOf[writer[w].event]
      BY WriterFacts DEF Appenders
    <3>2. w \in Saving(s)' <=> writer'[w].pc # "idle" /\ streamOf'[writer'[w].event] = s
      BY DEF Saving, StreamOfWriter
    <3>3. w \in Saving(s) <=> writer[w].pc # "idle" /\ streamOf[writer[w].event] = s
      BY DEF Saving, StreamOfWriter
    <3> QED BY <2>2, <3>1, <3>2, <3>3
  <2> QED BY <2>1, <2>2
<1>4. Saving(s)' = Saving(s) /\ \A w \in Saving(s) : writer'[w] = writer[w]
  <2>1. Saving(s)' \subseteq Writers /\ Saving(s) \subseteq Writers
    BY DEF Saving
  <2> QED BY <2>1, <1>3
<1>5. \A e \in StoredIn(s) : e \in InStream(s)
  BY DEF StoredIn
<1>6. {index'[e] : e \in StoredIn(s)} = {index[e] : e \in StoredIn(s)}
  BY <1>5
<1>7. \A w \in Saving(s) : writer[w].event \in InStream(s)
  BY SavingFacts
<1> QED BY <1>1, <1>2, <1>4, <1>5, <1>6, <1>7 DEF InOrder, Stored

\* While nobody waits for the refresh searches find the whole stream, and its
\* version is the number of its events.
LEMMA VersionIsCount ==
    ASSUME Rest, NEW s \in Saved, InOrder(s), \A w \in Saving(s) : writer[w].pc # "wait"
    PROVE  /\ Version(s) = Cardinality(StoredIn(s))
           /\ {e \in InStream(s) : seen[e] # 0} = StoredIn(s)
           /\ \A e \in StoredIn(s) : seen[e] = index[e]
<1> DEFINE N == Cardinality(StoredIn(s))
<1>1. InStream(s) \in SUBSET Events /\ StoredIn(s) \in SUBSET Events
  BY InStreamEvents DEF Rest, StoredIn
<1>2. N \in Nat
  BY <1>1, CardNat
<1>3. \A e \in StoredIn(s) : seen[e] = index[e] /\ e \in InStream(s)
  BY DEF InOrder, StoredIn
<1>4. \A e \in InStream(s) : e \notin StoredIn(s) => seen[e] = 0
  BY <1>1 DEF StoredIn, Rest, Found
<1>5. {index[e] : e \in StoredIn(s)} = 1 .. N
  BY DEF InOrder
<1> HIDE DEF N
<1>6. \A e \in StoredIn(s) : index[e] \in 1 .. N
  BY <1>5
<1>7. \A e \in InStream(s) : seen[e] \in Nat /\ seen[e] <= N
  <2> SUFFICES ASSUME NEW e \in InStream(s) PROVE seen[e] \in Nat /\ seen[e] <= N
    OBVIOUS
  <2>1. CASE e \in StoredIn(s)
    <3>1. seen[e] \in 1 .. N
      BY <2>1, <1>3, <1>6
    <3> QED BY <3>1, <1>2
  <2>2. CASE e \notin StoredIn(s)
    BY <2>2, <1>2, <1>4
  <2> QED BY <2>1, <2>2
<1>8. /\ Version(s) \in Nat
      /\ Version(s) \in {seen[e] : e \in InStream(s)} \cup {0}
      /\ \A e \in InStream(s) : seen[e] <= Version(s)
  BY VersionIsHighest DEF Rest
<1>9. Version(s) <= N
  BY <1>2, <1>7, <1>8
<1>10. N <= Version(s)
  <2>1. CASE N = 0
    BY <2>1, <1>8
  <2>2. CASE N # 0
    <3>1. N \in 1 .. N
      BY <2>2, <1>2
    <3>2. PICK e \in StoredIn(s) : index[e] = N
      BY <3>1, <1>5
    <3> QED BY <3>2, <1>3, <1>8
  <2> QED BY <2>1, <2>2
<1>11. Version(s) = N
  BY <1>2, <1>8, <1>9, <1>10
<1>12. {e \in InStream(s) : seen[e] # 0} = StoredIn(s)
  <2>1. \A e \in StoredIn(s) : seen[e] # 0
    BY <1>3 DEF StoredIn, Stored
  <2> QED BY <2>1, <1>3, <1>4
<1> QED BY <1>3, <1>11, <1>12 DEF N

\* A save that begins while no other runs on the stream.
LEMMA SaveOrder ==
    ASSUME Rest, NEW s \in Saved, Clean(s) => InOrder(s), Clean(s)',
           NEW w \in Writers, Save(w, s)
    PROVE  InOrder(s)'
<1> DEFINE loaded == {e \in InStream(s) : seen[e] # 0}
           others == {v \in Writers : writer[v] # Idle /\ streamOf[writer[v].event] = s}
           N == Cardinality(StoredIn(s))
<1>1. /\ writer[w] = Idle /\ Create(s)
      /\ UNCHANGED <<index, seen, lost>>
      /\ writer' = [writer EXCEPT ![w] = [pc |-> "check", event |-> created',
                                          expected |-> Cardinality(loaded), version |-> 0]]
      /\ overlapped' = overlapped \cup
            IF others = {} THEN {} ELSE {created'} \cup {writer[v].event : v \in others}
  BY DEF Save, store
<1>2. /\ created' \in Events /\ created' > created /\ created \in Nat /\ created' \in Nat
      /\ 1 .. created' = (1 .. created) \cup {created'} /\ created' \notin 1 .. created
      /\ streamOf'[created'] = s
      /\ \A e \in 1 .. created : streamOf'[e] = streamOf[e]
  BY <1>1, CreateFacts, Sorts DEF Streams, Rest
<1>3. InStream(s)' = InStream(s) \cup {created'}
  BY <1>2 DEF InStream
<1>4. others = {}
  <2>1. created' \notin overlapped'
    BY <1>3 DEF Clean
  <2> QED BY <2>1, <1>1
<1>5. Clean(s) /\ InOrder(s)
  <2>1. overlapped \subseteq overlapped' /\ lost' = lost
    BY <1>1
  <2>2. Clean(s)
    BY <2>1, <1>3 DEF Clean
  <2> QED BY <2>2
<1>6. Saving(s) = {}
  <2>1. Idle.pc = "idle"
    BY DEF Idle
  <2>2. Saving(s) \subseteq others
    BY <2>1 DEF Saving, StreamOfWriter
  <2> QED BY <2>2, <1>4
<1>7. index[created'] = 0
  BY <1>2 DEF Rest, Found
<1>8. StoredIn(s)' = StoredIn(s)
  BY <1>1, <1>3, <1>7 DEF StoredIn, Stored
<1>9. loaded = StoredIn(s) /\ \A e \in StoredIn(s) : seen[e] = index[e]
  BY <1>5, <1>6, VersionIsCount
<1>10. writer \in [Appenders -> WriterRec] /\ w \in Appenders
  BY DEF Rest, TypeInv, Appenders
<1> HIDE DEF loaded, others
<1>11. /\ writer'[w].pc = "check" /\ writer'[w].event = created' /\ writer'[w].expected = N
       /\ \A v \in Writers : v # w => writer'[v] = writer[v]
  BY <1>1, <1>9, <1>10 DEF Appenders
<1>12. Saving(s)' = {w}
  <2> SUFFICES ASSUME NEW v \in Writers
               PROVE  writer'[v].pc # "idle" /\ streamOf'[writer'[v].event] = s <=> v = w
    BY DEF Saving, StreamOfWriter
  <2>1. CASE v = w
    BY <2>1, <1>2, <1>11
  <2>2. CASE v # w
    <3>1. writer'[v] = writer[v]
      BY <2>2, <1>11
    <3>2. writer[v].pc # "idle" => streamOf'[writer[v].event] = streamOf[writer[v].event]
      BY <1>2, WriterFacts DEF Appenders
    <3>3. ~ (writer[v].pc # "idle" /\ streamOf[writer[v].event] = s)
      BY <1>6 DEF Saving, StreamOfWriter
    <3> QED BY <2>2, <3>1, <3>2, <3>3
  <2> QED BY <2>1, <2>2
<1>13. {index[e] : e \in StoredIn(s)} = 1 .. N
  BY <1>5 DEF InOrder
<1> HIDE DEF N
<1>14. /\ {index[e] : e \in StoredIn(s)}' = 1 .. N
       /\ N = Cardinality(StoredIn(s))'
       /\ \A e \in StoredIn(s)' : seen'[e] = index'[e]
  BY <1>1, <1>8, <1>9, <1>13 DEF N
<1>15. /\ writer'[w].pc # "wait" /\ writer'[w].pc # "bulk" /\ index'[writer'[w].event] = 0
       /\ writer'[w].expected = N
  BY <1>1, <1>7, <1>11
<1> QED BY <1>12, <1>14, <1>15 DEF InOrder, Stored

\* The saver of a stream reads the version, writes the event after it, and
\* returns when searches find the event.
LEMMA SaverOrder ==
    ASSUME Rest, NEW s \in Saved, Clean(s) => InOrder(s), Clean(s)',
           NEW w \in Saving(s), WriterStep(w)
    PROVE  InOrder(s)'
<1> DEFINE x == writer[w].event
           N == Cardinality(StoredIn(s))
<1>1. /\ w \in Writers /\ w \in Appenders /\ writer[w].pc # "idle"
      /\ x \in InStream(s) /\ x \in Events /\ streamOf[x] = s /\ w # Retrier
  BY SavingFacts, EventStoreAssumption
<1>2. /\ UNCHANGED <<created, streamOf, seen, overlapped>>
      /\ InStream(s)' = InStream(s)
  BY DEF WriterStep, Check, ReadVersion, Bulk, Refreshed, WriterFails, Raises, store, history, InStream
<1>3. lost \in [Events -> {"no", "raised", "republished", "spooled", "stopped"}]
      /\ writer \in [Appenders -> WriterRec]
  BY DEF Rest, TypeInv
<1>4. ASSUME Raises(w) PROVE FALSE
  <2>1. lost'[x] = "raised"
    BY <1>1, <1>3, <1>4 DEF Raises
  <2> QED BY <2>1, <1>1, <1>2 DEF Clean
<1>5. ~ Check(w) => UNCHANGED lost \/ WriterFails(w)
  BY DEF WriterStep, ReadVersion, Bulk, Refreshed
<1>6. UNCHANGED lost /\ ~ WriterFails(w)
  BY <1>4, <1>5 DEF Check, WriterFails
<1>7. Clean(s) /\ InOrder(s)
  BY <1>2, <1>6 DEF Clean
<1>8. \A v \in Saving(s) : v = w
  BY <1>7 DEF InOrder
<1>9. Saving(s) = {w}
  BY <1>8
<1>10. InStream(s) \in SUBSET Events /\ StoredIn(s) \in SUBSET InStream(s) /\ N \in Nat
      /\ IsFiniteSet(StoredIn(s))
  <2>1. InStream(s) \in SUBSET Events /\ StoredIn(s) \in SUBSET InStream(s)
    BY InStreamEvents DEF Rest, StoredIn
  <2>2. StoredIn(s) \in SUBSET Events
    BY <2>1
  <2> QED BY <2>1, <2>2, CardNat
<1>11. \A v \in Writers : v # w => writer'[v] = writer[v]
  BY <1>1, <1>3, <1>4 DEF WriterStep, Check, ReadVersion, Bulk, Refreshed, WriterFails, Finished, Appenders
<1>12. ASSUME writer'[w].pc # "idle", writer'[w].event = x PROVE Saving(s)' = {w}
  BY <1>1, <1>2, <1>9, <1>11, <1>12 DEF Saving, StreamOfWriter
<1>13. {index[e] : e \in StoredIn(s)} = 1 .. N
  BY <1>7 DEF InOrder
<1>14. ASSUME UNCHANGED index
       PROVE  /\ StoredIn(s)' = StoredIn(s)
              /\ {index[e] : e \in StoredIn(s)}' = 1 .. N
              /\ N = Cardinality(StoredIn(s))'
  <2>1. StoredIn(s)' = StoredIn(s)
    BY <1>2, <1>14 DEF StoredIn, Stored
  <2> QED BY <2>1, <1>13, <1>14
<1>15. ASSUME writer[w].pc # "wait"
       PROVE  /\ Version(s) = N /\ \A e \in StoredIn(s) : seen[e] = index[e]
              /\ index[x] = 0
  <2>1. index[x] = 0
    BY <1>7, <1>9, <1>15 DEF InOrder, Stored
  <2> QED BY <2>1, <1>7, <1>9, <1>15, VersionIsCount
<1> HIDE DEF N
<1>16. CASE Check(w)
  <2>1. /\ writer[w].pc = "check" /\ UNCHANGED index
        /\ writer' = [writer EXCEPT ![w].pc = "read"]
    BY <1>4, <1>16 DEF Check, store
  <2>2. writer'[w].pc = "read" /\ writer'[w].event = x
    BY <1>1, <1>3, <2>1 DEF WriterRec
  <2>3. Saving(s)' = {w}
    BY <2>2, <1>12
  <2>4. \A e \in StoredIn(s)' : seen'[e] = index'[e]
    BY <2>1, <1>2, <1>14, <1>15
  <2>5. index'[writer'[w].event] = 0
    BY <2>1, <2>2, <1>15
  <2> QED BY <2>1, <2>2, <2>3, <2>4, <2>5, <1>14 DEF InOrder, Stored
<1>17. CASE ReadVersion(w)
  <2>1. /\ writer[w].pc = "read" /\ UNCHANGED index
        /\ writer' = [writer EXCEPT ![w].pc = "bulk", ![w].version = Version(s)]
    BY <1>1, <1>17 DEF ReadVersion, StreamOfWriter, store
  <2>2. writer'[w].pc = "bulk" /\ writer'[w].event = x /\ writer'[w].version = N
    BY <1>1, <1>3, <1>15, <2>1 DEF WriterRec
  <2>3. Saving(s)' = {w}
    BY <2>2, <1>12
  <2>4. \A e \in StoredIn(s)' : seen'[e] = index'[e]
    BY <2>1, <1>2, <1>14, <1>15
  <2>5. index'[writer'[w].event] = 0
    BY <2>1, <2>2, <1>15
  <2> QED BY <2>1, <2>2, <2>3, <2>4, <2>5, <1>14 DEF InOrder, Stored
<1>18. CASE Bulk(w)
  <2>1. /\ writer[w].pc = "bulk"
        /\ Write(Alone(writer[w].event), {writer[w].event}, writer[w].version)
        /\ writer' = [writer EXCEPT ![w].pc = "wait"]
    BY <1>1, <1>18 DEF Bulk, StreamOfWriter
  <2>2. writer[w].version = N
    BY <2>1, <1>7, <1>9 DEF InOrder, N
  <2>3. index'[x] = N + 1 /\ index'[x] # 0 /\ \A e \in Events \ {x} : index'[e] = index[e]
    BY <2>1, <2>2, <1>1, BulkWrites
  <2>4. writer'[w].pc = "wait" /\ writer'[w].event = x
    BY <1>1, <1>3, <2>1 DEF WriterRec
  <2>5. Saving(s)' = {w}
    BY <2>4, <1>12
  <2>6. x \notin StoredIn(s) /\ \A e \in StoredIn(s) : seen[e] = index[e]
    BY <2>1, <1>15 DEF StoredIn, Stored
  <2>7. StoredIn(s)' = StoredIn(s) \cup {x}
    BY <2>3, <1>1, <1>2, <1>10 DEF StoredIn, Stored
  <2>8. Cardinality(StoredIn(s) \cup {x}) = N + 1
    BY <2>6, <1>10, FS_AddElement DEF N
  <2>9. \A e \in StoredIn(s) : index'[e] = index[e]
    BY <2>3, <2>6, <1>10
  <2>10. {index'[e] : e \in StoredIn(s) \cup {x}} = {index[e] : e \in StoredIn(s)} \cup {N + 1}
    BY <2>3, <2>9
  <2>11. (1 .. N) \cup {N + 1} = 1 .. N + 1
    BY <1>10
  <2>12. {index[e] : e \in StoredIn(s)}' = 1 .. Cardinality(StoredIn(s))'
    BY <2>7, <2>8, <2>10, <2>11, <1>13
  <2>13. \A e \in StoredIn(s)' : seen'[e] = index'[e] \/ e = x
    BY <2>6, <2>7, <2>9, <1>2
  <2> QED BY <2>4, <2>5, <2>12, <2>13 DEF InOrder, Stored
<1>19. CASE Refreshed(w)
  <2>1. /\ writer[w].pc = "wait" /\ UNCHANGED index /\ seen[x] = index[x]
        /\ writer' = [writer EXCEPT ![w] = Idle]
    BY <1>19 DEF Refreshed, Finished, store
  <2>2. writer'[w].pc = "idle"
    BY <1>1, <1>3, <2>1 DEF Idle
  <2>3. Saving(s)' = {}
    BY <2>2, <1>2, <1>9, <1>11 DEF Saving, StreamOfWriter
  <2>4. \A e \in StoredIn(s) : seen[e] = index[e] \/ e = x
    BY <1>7, <1>9 DEF InOrder
  <2>5. \A e \in StoredIn(s)' : seen'[e] = index'[e]
    BY <2>1, <2>4, <1>2, <1>14
  <2> QED BY <2>1, <2>3, <2>5, <1>14 DEF InOrder
<1> QED BY <1>6, <1>16, <1>17, <1>18, <1>19 DEF WriterStep

\* Events that are appended without an expected version are in other streams.
LEMMA ApartFromSaved ==
    ASSUME Rest, NEW s \in Saved
    PROVE  /\ InStream(s) \cap Appended = {}
           /\ InStream(s) \cap InHand = {}
           /\ writer[Retrier].event \notin InStream(s)
           /\ \A e \in InStream(s) : dlq[e] = NoEntry
           /\ InStream(s) \in SUBSET Events
<1>1. InStream(s) \cap Appended = {} /\ InStream(s) \in SUBSET Events
  BY InStreamEvents DEF InStream, Appended, Rest
<1>2. NoEvent \notin InStream(s)
  BY <1>1, EventsFinite DEF NoEvent
<1> QED BY <1>1, <1>2 DEF Rest, Origins, Spooled

\* A writer that is not saving to the stream.
LEMMA OtherWriterOrder ==
    ASSUME Rest, NEW s \in Saved, Clean(s) => InOrder(s), Clean(s)',
           NEW w \in Appenders, w \notin Saving(s), WriterStep(w)
    PROVE  InOrder(s)'
<1> DEFINE x == writer[w].event
<1>1. /\ UNCHANGED <<created, streamOf, seen, overlapped>>
      /\ InStream(s)' = InStream(s)
  BY DEF WriterStep, Check, ReadVersion, Bulk, Refreshed, WriterFails, Raises, store, history, InStream
<1>2. writer[w].pc # "idle"
  BY DEF WriterStep, Check, ReadVersion, Bulk, Refreshed, WriterFails
<1>3. x \in Events /\ writer \in [Appenders -> WriterRec]
  BY <1>2, WriterFacts
<1>4. x \notin InStream(s)
  <2>1. CASE w = Retrier
    BY <2>1, ApartFromSaved
  <2>2. CASE w # Retrier
    <3>1. w \in Writers
      BY <2>2 DEF Appenders
    <3>2. streamOf[x] # s
      BY <3>1, <1>2 DEF Saving, StreamOfWriter
    <3> QED BY <3>2 DEF InStream
  <2> QED BY <2>1, <2>2
<1>5. InStream(s) \in SUBSET Events
  BY ApartFromSaved
<1>6. \A e \in InStream(s) : index'[e] = index[e]
  <2>1. ASSUME writer[w].pc = "bulk",
               Write(Alone(writer[w].event), {writer[w].event}, writer[w].version)
        PROVE  \A e \in InStream(s) : index'[e] = index[e]
    BY <2>1, <1>4, <1>5, BulkWrites
  <2> QED BY <2>1 DEF WriterStep, Check, ReadVersion, Bulk, Refreshed, WriterFails, store
<1>7. lost' = lost \/ lost' = [lost EXCEPT ![x] = "raised"]
  BY DEF WriterStep, Check, ReadVersion, Bulk, Refreshed, WriterFails, Raises
<1>8. \A e \in InStream(s) : lost'[e] = lost[e]
  BY <1>4, <1>5, <1>7 DEF Rest, TypeInv
<1>9. /\ \A v \in Appenders : v # w => writer'[v] = writer[v]
      /\ writer'[w].pc = "idle" \/ writer'[w].event = x
  BY <1>3 DEF WriterStep, Check, ReadVersion, Bulk, Refreshed, WriterFails, Raises, Finished,
     Idle, WriterRec
<1>10. w \notin Saving(s)'
  <2>1. CASE writer'[w].pc = "idle"
    BY <2>1 DEF Saving
  <2>2. CASE writer'[w].event = x
    BY <2>2, <1>1, <1>2 DEF Saving, StreamOfWriter
  <2> QED BY <2>1, <2>2, <1>9
<1>11. \A v \in Writers : \/ writer'[v] = writer[v]
                          \/ (v \notin Saving(s) /\ v \notin Saving(s)')
  BY <1>9, <1>10 DEF Appenders
<1> HIDE DEF x
<1>12. /\ overlapped \subseteq overlapped' /\ \A e \in 1 .. created : streamOf'[e] = streamOf[e]
       /\ \A e \in InStream(s) : /\ index'[e] = index[e] /\ seen'[e] = seen[e]
                                 /\ lost'[e] = "no" => lost[e] = "no"
  BY <1>1, <1>6, <1>8
<1> QED BY <1>1, <1>11, <1>12, Untouched

LEMMA NewEventOrder ==
    ASSUME Rest, NEW s \in Saved, Clean(s) => InOrder(s), Clean(s)',
           NEW w \in Writers, NEW t \in Streams, AppendEvent(w, t) \/ (Save(w, t) /\ t # s)
    PROVE  InOrder(s)'
<1>1. /\ t # s /\ Create(t) /\ writer[w] = Idle
      /\ UNCHANGED <<index, seen, lost>> /\ overlapped \subseteq overlapped'
      /\ \/ UNCHANGED writer
         \/ \E r : writer' = [writer EXCEPT ![w] = r] /\ r.event = created'
  <2>1. CASE Save(w, t) /\ t # s
    <3>1. [pc |-> "check", event |-> created',
           expected |-> Cardinality({e \in InStream(t) : seen[e] # 0}), version |-> 0].event = created'
      OBVIOUS
    <3> QED BY <2>1, <3>1 DEF Save, store
  <2>2. CASE AppendEvent(w, t)
    <3>1. [Idle EXCEPT !.pc = "read", !.event = created'].event = created'
      BY DEF Idle
    <3> QED BY <2>2, <3>1, EventStoreAssumption DEF AppendEvent, store, history
  <2> QED BY <2>1, <2>2
<1>2. /\ 1 .. created' = (1 .. created) \cup {created'}
      /\ streamOf'[created'] = t
      /\ \A e \in 1 .. created : streamOf'[e] = streamOf[e]
  BY <1>1, CreateFacts
<1>3. InStream(s)' = InStream(s)
  BY <1>1, <1>2 DEF InStream
<1>4. writer \in [Appenders -> WriterRec] /\ w \in Appenders
  BY DEF Rest, TypeInv, Appenders
<1>5. w \notin Saving(s)
  BY <1>1 DEF Saving, Idle
<1>6. \A v \in Writers : v # w => writer'[v] = writer[v]
  BY <1>1, <1>4 DEF Appenders
<1>7. w \notin Saving(s)' \/ writer'[w] = writer[w]
  <2>1. CASE UNCHANGED writer
    BY <2>1
  <2>2. CASE \E r : writer' = [writer EXCEPT ![w] = r] /\ r.event = created'
    <3>1. writer'[w].event = created'
      BY <2>2, <1>4
    <3>2. streamOf'[writer'[w].event] # s
      BY <3>1, <1>1, <1>2
    <3> QED BY <3>2 DEF Saving, StreamOfWriter
  <2> QED BY <1>1, <2>1, <2>2
<1>8. \A v \in Writers : \/ writer'[v] = writer[v]
                         \/ (v \notin Saving(s) /\ v \notin Saving(s)')
  BY <1>5, <1>6, <1>7
<1>9. \A e \in InStream(s) : /\ index'[e] = index[e] /\ seen'[e] = seen[e]
                             /\ lost'[e] = "no" => lost[e] = "no"
  BY <1>1
<1> QED BY <1>1, <1>2, <1>3, <1>8, <1>9, Untouched

\* The worker writes events of other streams.
LEMMA WorkerOrder ==
    ASSUME Rest, NEW s \in Saved, Clean(s) => InOrder(s), Clean(s)', WorkerStep
    PROVE  InOrder(s)'
<1>1. UNCHANGED <<created, streamOf, seen, writer, overlapped, lost>>
  BY DEF WorkerStep, Take, WorkerReads, WorkerBulk, WorkerFails, store, history
<1>2. \A e \in Events \ InHand : index'[e] = index[e]
  <2>1. CASE UNCHANGED index
    BY <2>1
  <2>2. CASE \E t \in Streams : WorkerBulk(t) \/ WorkerFails(t)
    <3>1. PICK t \in Streams : /\ Turn(t)
                               /\ \E some \in SUBSET DOMAIN worker.groups[t].events :
                                    Write(worker.groups[t].events, some, worker.version)
      <4>1. PICK t \in Streams : WorkerBulk(t) \/ WorkerFails(t)
        BY <2>2
      <4>2. DOMAIN worker.groups[t].events \in SUBSET DOMAIN worker.groups[t].events
        OBVIOUS
      <4> QED BY <4>1, <4>2 DEF WorkerBulk, WorkerFails
    <3> QED BY <3>1, GroupWrites
  <2> QED BY <2>1, <2>2 DEF WorkerStep, Take, WorkerReads, store
<1>3. InStream(s)' = InStream(s)
  BY <1>1 DEF InStream
<1>4. \A e \in InStream(s) : /\ index'[e] = index[e] /\ seen'[e] = seen[e]
                             /\ lost'[e] = "no" => lost[e] = "no"
  BY <1>1, <1>2, ApartFromSaved
<1> QED BY <1>1, <1>3, <1>4, Untouched

\* The other steps do not write, and where they lose an event it is not of a
\* clean stream.
LEMMA OtherOrder ==
    ASSUME Rest, NEW s \in Saved, Clean(s) => InOrder(s), Clean(s)',
           \/ Refresh \/ PollerStep \/ Close \/ Drained \/ UNCHANGED vars
           \/ \E e \in Events : Retry(e) \/ RetryFails(e)
    PROVE  InOrder(s)'
<1>1. /\ UNCHANGED <<created, streamOf, index, overlapped>> /\ (seen' = seen \/ seen' = index)
      /\ InStream(s)' = InStream(s)
  BY DEF Refresh, PollerStep, PollFetch, PollPublish, Close, Drained, vars, Retry, RetryFails,
     store, history, InStream
<1>2. \A e \in InStream(s) : lost'[e] = "no" => lost[e] = "no"
  <2>1. CASE UNCHANGED lost
    BY <2>1
  <2>2. CASE \E x \in Events : lost' = [lost EXCEPT ![x] = "republished"]
    BY <2>2, ApartFromSaved DEF Rest, TypeInv
  <2> QED BY <2>1, <2>2 DEF Refresh, PollerStep, PollFetch, PollPublish, Close, Drained, vars,
             Retry, RetryFails, store, history
<1>3. \A v \in Writers : writer'[v] = writer[v]
  <2>1. CASE UNCHANGED writer
    BY <2>1
  <2>2. CASE \E r : writer' = [writer EXCEPT ![Retrier] = r]
    BY <2>2, EventStoreAssumption DEF Rest, TypeInv, Appenders
  <2> QED BY <2>1, <2>2 DEF Refresh, PollerStep, PollFetch, PollPublish, Close, Drained, vars,
             Retry, RetryFails, store, history
<1>4. \A e \in InStream(s) : /\ index'[e] = index[e]
                             /\ seen'[e] = seen[e] \/ seen'[e] = index[e]
                             /\ lost'[e] = "no" => lost[e] = "no"
  BY <1>1, <1>2
<1> QED BY <1>1, <1>3, <1>4, Untouched

LEMMA StopOrder ==
    ASSUME Rest, NEW s \in Saved, Clean(s) => InOrder(s), Clean(s)', Stop
    PROVE  InOrder(s)'
<1>1. /\ UNCHANGED <<created, streamOf, index, seen, overlapped>>
      /\ InStream(s)' = InStream(s)
      /\ lost' = [e \in Events |-> IF e \in Spooled THEN "spooled"
                                    ELSE IF e \in Queued \cup InHand \cup Writing THEN "stopped"
                                    ELSE lost[e]]
      /\ writer' = [w \in DOMAIN writer |-> Idle]
  BY DEF Stop, store, history, InStream
<1>2. DOMAIN writer = Appenders /\ InStream(s) \in SUBSET Events
  BY ApartFromSaved DEF Rest, TypeInv
<1>3. Saving(s) = {}
  <2> SUFFICES ASSUME NEW w \in Saving(s) PROVE FALSE
    OBVIOUS
  <2> DEFINE x == writer[w].event
  <2>1. w \in Appenders /\ x \in InStream(s)
    BY SavingFacts
  <2>2. x \in Writing
    BY <2>1, <1>2 DEF Writing
  <2>3. lost'[x] # "no"
    BY <2>1, <2>2, <1>1, <1>2
  <2> QED BY <2>1, <2>3, <1>1 DEF Clean
<1>4. Saving(s)' = {}
  <2>1. \A w \in Writers : writer'[w].pc = "idle"
    BY <1>1, <1>2 DEF Idle, Appenders
  <2> QED BY <2>1 DEF Saving
<1>5. \A w \in Writers : \/ writer'[w] = writer[w]
                         \/ (w \notin Saving(s) /\ w \notin Saving(s)')
  BY <1>3, <1>4
<1>6. \A e \in InStream(s) : /\ index'[e] = index[e] /\ seen'[e] = seen[e]
                             /\ lost'[e] = "no" => lost[e] = "no"
  BY <1>1, <1>2
<1> QED BY <1>1, <1>5, <1>6, Untouched

LEMMA NextOrder == ASSUME Rest, Savable, [Next]_vars PROVE Savable'
<1> SUFFICES ASSUME NEW s \in Saved, Clean(s)' PROVE InOrder(s)'
  BY DEF Savable
<1>1. Clean(s) => InOrder(s)
  BY DEF Savable
<1>2. CASE \E w \in Writers, t \in Streams : AppendEvent(w, t) \/ Save(w, t)
  BY <1>1, <1>2, NewEventOrder, SaveOrder
<1>3. CASE \E w \in Writers \cup {Retrier} : WriterStep(w)
  BY <1>1, <1>3, SaverOrder, OtherWriterOrder DEF Appenders
<1>4. CASE WorkerStep
  BY <1>1, <1>4, WorkerOrder
<1>5. CASE Stop
  BY <1>1, <1>5, StopOrder
<1>6. CASE \/ Refresh \/ PollerStep \/ Close \/ Drained \/ UNCHANGED vars
           \/ \E e \in Events : Retry(e) \/ RetryFails(e)
  BY <1>1, <1>6, OtherOrder
<1> QED BY <1>2, <1>3, <1>4, <1>5, <1>6 DEF Next
-----------------------------------------------------------------------------
(* Theorems *)

LEMMA InitInv == Init => IInv
<1> SUFFICES ASSUME Init PROVE IInv
  OBVIOUS
<1>1. Rest
  BY InitRest
<1>2. Savable
  <2> SUFFICES ASSUME NEW s \in Saved PROVE InOrder(s)
    BY DEF Savable
  <2>1. InStream(s) = {}
    <3>1. created = 0
      BY DEF Init
    <3> QED BY <3>1 DEF InStream
  <2>2. StoredIn(s) = {}
    BY <2>1 DEF StoredIn
  <2>3. Saving(s) = {}
    BY DEF Init, Saving, Idle
  <2>4. Cardinality(StoredIn(s)) = 0 /\ 1 .. 0 = {}
    BY <2>2, FS_EmptySet
  <2> QED BY <2>2, <2>3, <2>4 DEF InOrder
<1> QED BY <1>1, <1>2 DEF IInv, Rest

\* The invariant holds initially and is kept by every step.
THEOREM Invariance == Spec => []IInv
<1>1. IInv /\ [Next]_vars => IInv'
  BY NextRest, NextOrder DEF IInv, Rest
<1> QED BY <1>1, InitInv, PTL DEF Spec

\* The state stays well formed, whatever fails.
THEOREM TypeCorrect == Spec => []TypeOK
<1>1. IInv => TypeOK
  <2> SUFFICES ASSUME IInv PROVE TypeOK
    OBVIOUS
  <2>1. worker.pc \in {"idle", "read", "bulk"} /\ worker.taken \in 0 .. BatchCap
    BY DEF IInv, TypeInv, WorkerRec
  <2>2. \A w \in Writers \cup {Retrier} : writer[w].pc \in {"idle", "check", "read", "bulk", "wait"}
    BY DEF IInv, TypeInv, WriterRec, Appenders
  <2>3. poller.since \in 0 .. MaxEvents /\ poller.batch \subseteq Events
    BY DEF IInv, TypeInv
  <2> QED BY <2>1, <2>2, <2>3 DEF IInv, TypeInv, TypeOK
<1> QED BY <1>1, Invariance, PTL

\* No event that was handed to the store is lost in a way the code does not
\* know of.
THEOREM EventsAccounted == Spec => []NothingVanishes
<1>1. IInv => NothingVanishes
  BY DEF IInv
<1> QED BY <1>1, Invariance, PTL

\* A drain that ends without a loss being logged has stored what was queued.
THEOREM DrainStores == Spec => []DrainKeepsQueued
<1>1. IInv => DrainKeepsQueued
  BY DEF IInv, Draining, DrainKeepsQueued
<1> QED BY <1>1, Invariance, PTL

\* Saves of an aggregate that do not overlap and do not fail get consecutive
\* versions.
THEOREM VersionsConsecutive == Spec => []StreamSavable
<1>1. IInv => StreamSavable
  <2> SUFFICES ASSUME IInv, NEW s \in Saved, Clean(s)
               PROVE  {index[e] : e \in StoredIn(s)} = 1 .. Cardinality(StoredIn(s))
    BY DEF StreamSavable, Clean, StoredIn
  <2> QED BY DEF IInv, Savable, InOrder
<1> QED BY <1>1, Invariance, PTL

\* The check of such a save, once it has begun, finds the version it expects.
THEOREM SavesAdmitted ==
    Spec => [](\A s \in Saved : \A w \in Saving(s) :
                  Clean(s) /\ writer[w].pc = "check" => Version(s) = writer[w].expected)
<1>1. IInv => \A s \in Saved : \A w \in Saving(s) :
                  Clean(s) /\ writer[w].pc = "check" => Version(s) = writer[w].expected
  <2> SUFFICES ASSUME IInv, NEW s \in Saved, NEW w \in Saving(s), Clean(s),
                      writer[w].pc = "check"
               PROVE  Version(s) = writer[w].expected
    OBVIOUS
  <2>1. Rest /\ InOrder(s)
    BY DEF IInv, Rest, Savable
  <2>2. \A v \in Saving(s) : writer[v].pc # "wait"
    BY <2>1 DEF InOrder
  <2> QED BY <2>1, <2>2, VersionIsCount DEF InOrder
<1> QED BY <1>1, Invariance, PTL
=============================================================================
