----------------------- MODULE GitHubBoardAdapter_proofs -----------------------
(***************************************************************************)
(* Theorems about GitHubBoardAdapter, for any boards, cards, callers and    *)
(* bounds.  A card is settled while none of its moves is under way, dragged *)
(* unheard, raced or crossed: then the baseline and every reading of its    *)
(* board have it where it is.                                               *)
(***************************************************************************)
EXTENDS GitHubBoardAdapter, TLAPS

LoopType == [pc : {"none", "asleep", "parsing", "dead"}, reading : Positions]
CallType == [pc : {"idle", "parsing", "reading", "moving", "moved"},
             item : Items, to : Columns \cup {Absent},
             board : Boards \cup {NoBoard}, from : Columns \cup {Absent}]

\* _board_lock is held from the look at the context to the end of the call, and
\* whoever moves a card has left a context.
LockHeld ==
    \A m \in Callers :
        /\ call[m].pc \in {"reading", "moving", "moved"} =>
               lock = m /\ call[m].board \in Boards
        /\ call[m].pc # "idle" => call[m].to \in Columns /\ context \in Boards

\* A reading has the cards of its board, and so has the baseline.
ReadingsComplete ==
    /\ \A b \in Boards : poll[b].pc = "parsing" =>
         \A i \in Items : poll[b].reading[i] # Absent <=> Home[i] = b
    /\ \A i \in Items : Home[i] \in based => baseline[Home[i]][i] # Absent

\* What was told of a card without a baseline was told past it.
NothingToldYet ==
    \A i \in Items \ crossed : Home[i] \notin based =>
        told[i] = Absent /\ baseline[Home[i]][i] = Absent

Settled(i) == i \notin dragged \cup raced \cup crossed \cup Unanswered

SettledCardsKnown ==
    \A i \in Items : Settled(i) =>
        /\ Home[i] \in based => baseline[Home[i]][i] = column[i]
        /\ poll[Home[i]].pc = "parsing" => poll[Home[i]].reading[i] = column[i]

\* A move that GitHub has made is where it went, or somebody moved the card on.
MovesLand ==
    \A m \in Callers : call[m].pc = "moved" =>
        \/ column[call[m].item] = call[m].to
        \/ call[m].item \in dragged \cup raced

IInv == /\ TypeOK
        /\ LockHeld
        /\ ReadingsComplete
        /\ NothingToldYet
        /\ BaselineIsTold
        /\ SettledCardsKnown
        /\ MovesLand

-----------------------------------------------------------------------------
LEMMA Facts ==
    /\ Home \in [Items -> Boards] /\ Items # {}
    /\ Absent \notin Columns /\ Nobody \notin Callers /\ NoBoard \notin Boards
    /\ MaxMoves \in Nat /\ MaxFaults \in Nat
BY BoardAdapterAssumption DEF Absent, Nobody

LEMMA NoCallType == NoCall \in CallType
<1>1. (CHOOSE i \in Items : TRUE) \in Items
  BY Facts
<1> QED BY <1>1 DEF NoCall, CallType

LEMMA LoopHasType == \A pc \in {"none", "asleep", "dead"} :
                        Loop(pc) \in LoopType /\ Loop(pc).pc = pc
BY DEF Loop, LoopType, Positions

\* A query is answered with the cards of its board.
LEMMA ReadingHasType ==
    ASSUME TypeOK, NEW b \in Boards
    PROVE  /\ Reading(b) \in Positions
           /\ \A i \in Items : /\ Reading(b)[i] # Absent <=> Home[i] = b
                               /\ Home[i] = b => Reading(b)[i] = column[i]
BY Facts DEF TypeOK, Reading, Positions

\* Starting a loop touches none that works on a reading.
LEMMA PollingEnsured ==
    ASSUME TypeOK, NEW b \in Boards, EnsurePolling(b)
    PROVE  /\ poll' \in [Boards -> LoopType]
           /\ \A d \in Boards : (poll[d].pc = "parsing" \/ poll'[d].pc = "parsing")
                                => poll'[d] = poll[d]
<1>1. poll \in [Boards -> LoopType]
  BY DEF TypeOK, LoopType
<1>2. Loop("asleep") \in LoopType /\ Loop("asleep").pc = "asleep"
  BY LoopHasType
<1>3. CASE poll[b].pc \in {"none", "dead"}
  <2>1. poll' = [poll EXCEPT ![b] = Loop("asleep")]
    BY <1>3 DEF EnsurePolling
  <2> QED BY <1>1, <1>2, <1>3, <2>1
<1>4. CASE poll[b].pc \notin {"none", "dead"}
  BY <1>1, <1>4 DEF EnsurePolling
<1> QED BY <1>3, <1>4

LEMMA InitHolds == Init => IInv
<1> SUFFICES ASSUME Init PROVE IInv
  OBVIOUS
<1> USE Facts
<1>1. TypeOK
  <2>1. poll \in [Boards -> LoopType]
    BY LoopHasType DEF Init
  <2>2. call \in [Callers -> CallType]
    BY NoCallType DEF Init
  <2> QED BY <2>1, <2>2 DEF Init, TypeOK, LoopType, CallType, Positions
<1>2. LockHeld /\ MovesLand
  BY DEF Init, LockHeld, MovesLand, NoCall
<1>3. \A b \in Boards : poll[b].pc = "none"
  BY LoopHasType DEF Init
<1>4. ReadingsComplete /\ NothingToldYet /\ BaselineIsTold /\ SettledCardsKnown
  BY <1>3 DEF Init, ReadingsComplete, NothingToldYet, BaselineIsTold, SettledCardsKnown
<1> QED BY <1>1, <1>2, <1>4 DEF IInv

\* Boards, cards and history stay as they are, and so does what is read.
LEMMA BoardsKept ==
    ASSUME IInv,
           UNCHANGED <<column, baseline, based, told, dragged, raced, crossed>>,
           \A d \in Boards : poll'[d].pc = "parsing" => poll'[d] = poll[d],
           Unanswered' = Unanswered
    PROVE  (ReadingsComplete /\ NothingToldYet /\ BaselineIsTold /\ SettledCardsKnown)'
<1>1. ReadingsComplete'
  BY DEF IInv, ReadingsComplete
<1>2. NothingToldYet' /\ BaselineIsTold'
  BY DEF IInv, NothingToldYet, BaselineIsTold
<1>3. SettledCardsKnown'
  BY Facts DEF IInv, SettledCardsKnown, Settled
<1> QED BY <1>1, <1>2, <1>3

\* One call goes on, and GitHub neither makes nor answers a move for it.
LEMMA CallGoesOn ==
    ASSUME IInv, NEW m \in Callers, NEW r \in CallType,
           call' = [call EXCEPT ![m] = r], call[m].pc # "moved", r.pc # "moved"
    PROVE  /\ call' \in [Callers -> CallType]
           /\ call'[m] = r /\ \A n \in Callers : n # m => call'[n] = call[n]
           /\ Unanswered' = Unanswered
<1>1. call \in [Callers -> CallType]
  BY DEF IInv, TypeOK, CallType
<1>2. /\ call' \in [Callers -> CallType]
      /\ call'[m] = r /\ \A n \in Callers : n # m => call'[n] = call[n]
  BY <1>1
<1>3. Unanswered' = Unanswered
  BY <1>2 DEF Unanswered
<1> QED BY <1>2, <1>3

\* The calls that do not move stay where their move has taken the card.
LEMMA MovesKept ==
    ASSUME IInv, UNCHANGED <<column, dragged, raced>>,
           \A n \in Callers : call'[n].pc = "moved" => call'[n] = call[n]
    PROVE  MovesLand'
BY DEF IInv, MovesLand

LEMMA PollReadsKeeps == ASSUME IInv, NEW b \in Boards, PollReads(b) PROVE IInv'
<1> USE Facts
<1> DEFINE reads == [pc |-> "parsing", reading |-> Reading(b)]
<1>1. poll \in [Boards -> LoopType] /\ reads \in LoopType
  BY ReadingHasType DEF IInv, TypeOK, LoopType
<1>2. poll' = [poll EXCEPT ![b] = reads]
  BY DEF PollReads
<1>3. /\ poll' \in [Boards -> LoopType]
      /\ poll'[b] = reads /\ \A d \in Boards : d # b => poll'[d] = poll[d]
  <2> HIDE DEF reads
  <2> QED BY <1>1, <1>2
<1>4. Unanswered' = Unanswered
  BY DEF PollReads, Unanswered
<1>5. TypeOK'
  BY <1>3 DEF IInv, TypeOK, LoopType, PollReads, bounds
<1>6. LockHeld' /\ MovesLand'
  BY DEF IInv, LockHeld, MovesLand, PollReads
<1>7. ReadingsComplete'
  BY <1>3, ReadingHasType DEF IInv, ReadingsComplete, PollReads
<1>8. NothingToldYet' /\ BaselineIsTold'
  BY DEF IInv, NothingToldYet, BaselineIsTold, PollReads
<1>9. SettledCardsKnown'
  BY <1>3, <1>4, ReadingHasType DEF IInv, SettledCardsKnown, Settled, PollReads
<1> QED BY <1>5, <1>6, <1>7, <1>8, <1>9 DEF IInv

LEMMA PollFailsKeeps == ASSUME IInv, NEW b \in Boards, PollFails(b) PROVE IInv'
<1> USE Facts
<1>1. poll \in [Boards -> LoopType] /\ Loop("dead") \in LoopType /\ Loop("dead").pc = "dead"
  BY LoopHasType DEF IInv, TypeOK, LoopType
<1>2. poll' = [poll EXCEPT ![b] = Loop("dead")]
  BY DEF PollFails
<1>3. /\ poll' \in [Boards -> LoopType]
      /\ \A d \in Boards : poll'[d].pc = "parsing" => poll'[d] = poll[d]
  BY <1>1, <1>2
<1>4. Unanswered' = Unanswered
  BY DEF PollFails, Unanswered
<1>5. TypeOK'
  BY <1>3 DEF IInv, TypeOK, LoopType, PollFails, Fault
<1>6. LockHeld' /\ MovesLand'
  BY DEF IInv, LockHeld, MovesLand, PollFails
<1>7. (ReadingsComplete /\ NothingToldYet /\ BaselineIsTold /\ SettledCardsKnown)'
  BY <1>3, <1>4, BoardsKept DEF PollFails
<1> QED BY <1>5, <1>6, <1>7 DEF IInv

LEMMA OnlyReadsKeeps == ASSUME IInv, NEW b \in Boards, OnlyReads(b) PROVE IInv'
<1> USE Facts
<1>1. /\ poll' \in [Boards -> LoopType]
      /\ \A d \in Boards : poll'[d].pc = "parsing" => poll'[d] = poll[d]
  BY PollingEnsured DEF IInv, OnlyReads
<1>2. Unanswered' = Unanswered
  BY DEF OnlyReads, Unanswered
<1>3. TypeOK'
  BY <1>1 DEF IInv, TypeOK, LoopType, OnlyReads, bounds
<1>4. LockHeld' /\ MovesLand'
  BY DEF IInv, LockHeld, MovesLand, OnlyReads
<1>5. (ReadingsComplete /\ NothingToldYet /\ BaselineIsTold /\ SettledCardsKnown)'
  BY <1>1, <1>2, BoardsKept DEF OnlyReads
<1> QED BY <1>3, <1>4, <1>5 DEF IInv

LEMMA PersonMovesKeeps ==
    ASSUME IInv, NEW i \in Items, NEW c \in Columns, PersonMoves(i, c) PROVE IInv'
<1> USE Facts
<1>1. column \in [Items -> Columns] /\ column' = [column EXCEPT ![i] = c]
  BY DEF IInv, TypeOK, PersonMoves
<1>2. Unanswered' = Unanswered
  BY DEF PersonMoves, Unanswered
<1>3. TypeOK'
  BY <1>1 DEF IInv, TypeOK, PersonMoves
<1>4. LockHeld' /\ ReadingsComplete' /\ NothingToldYet' /\ BaselineIsTold'
  BY DEF IInv, LockHeld, ReadingsComplete, NothingToldYet, BaselineIsTold, PersonMoves
<1>5. SettledCardsKnown'
  BY <1>1, <1>2 DEF IInv, SettledCardsKnown, Settled, PersonMoves
<1>6. MovesLand'
  BY <1>1 DEF IInv, TypeOK, MovesLand, PersonMoves
<1> QED BY <1>3, <1>4, <1>5, <1>6 DEF IInv

LEMMA PollReportsKeeps == ASSUME IInv, NEW b \in Boards, PollReports(b) PROVE IInv'
<1> USE Facts
<1> DEFINE reading == poll[b].reading
           new == {i \in Items : poll[b].reading[i] # Absent /\ told[i] = Absent}
<1>1. poll \in [Boards -> LoopType] /\ Loop("asleep") \in LoopType /\ Loop("asleep").pc = "asleep"
  BY LoopHasType DEF IInv, TypeOK, LoopType
<1>2. poll' = [poll EXCEPT ![b] = Loop("asleep")]
  BY DEF PollReports
<1>3. /\ poll' \in [Boards -> LoopType] /\ poll'[b].pc = "asleep"
      /\ \A d \in Boards : poll'[d].pc = "parsing" => d # b /\ poll'[d] = poll[d]
  BY <1>1, <1>2
<1>4. reading \in Positions /\ \A i \in Items : reading[i] # Absent <=> Home[i] = b
  BY <1>1 DEF IInv, ReadingsComplete, PollReports, LoopType
<1>5. /\ baseline \in [Boards -> Positions] /\ baseline' \in [Boards -> Positions]
      /\ baseline'[b] = reading /\ \A d \in Boards : d # b => baseline'[d] = baseline[d]
  BY <1>4 DEF IInv, TypeOK, PollReports
<1>6. Unanswered' = Unanswered
  BY DEF PollReports, Unanswered
<1>7. \A i \in Items : told'[i] = IF i \in Changes(b) \cup new THEN reading[i] ELSE told[i]
  BY DEF PollReports
<1>8. TypeOK'
  <2>1. told' \in Positions
    BY <1>4 DEF PollReports, IInv, TypeOK, Positions
  <2>2. dragged' \cup raced' \subseteq Items
    <3>1. Unanswered \subseteq Items
      BY DEF Unanswered, IInv, TypeOK
    <3> QED BY <3>1 DEF PollReports, IInv, TypeOK
  <2> QED BY <1>3, <1>5, <2>1, <2>2 DEF IInv, TypeOK, LoopType, PollReports, bounds
<1>9. LockHeld'
  BY DEF IInv, LockHeld, PollReports
<1>10. ReadingsComplete'
  BY <1>3, <1>4, <1>5 DEF IInv, ReadingsComplete, PollReports
<1>11. \A i \in Items \ crossed : Home[i] = b => told'[i] = reading[i]
  <2> SUFFICES ASSUME NEW i \in Items \ crossed, Home[i] = b, i \notin Changes(b) \cup new
               PROVE  told[i] = reading[i]
    BY <1>7
  <2>1. told[i] # Absent /\ reading[i] # Absent
    BY <1>4
  <2>2. b \in based
    BY <2>1 DEF IInv, NothingToldYet
  <2>3. baseline[b][i] # Absent /\ baseline[b][i] = told[i]
    BY <2>2 DEF IInv, ReadingsComplete, BaselineIsTold
  <2> QED BY <2>1, <2>2, <2>3 DEF Changes
<1>12. \A i \in Items : Home[i] # b => told'[i] = told[i]
  BY <1>4, <1>7 DEF Changes
<1>13. NothingToldYet' /\ BaselineIsTold'
  BY <1>5, <1>11, <1>12 DEF IInv, NothingToldYet, BaselineIsTold, PollReports
<1>14. SettledCardsKnown'
  <2> SUFFICES ASSUME NEW i \in Items, Settled(i)'
               PROVE  /\ (Home[i] \in based => baseline[Home[i]][i] = column[i])'
                      /\ (poll[Home[i]].pc = "parsing" => poll[Home[i]].reading[i] = column[i])'
    BY DEF SettledCardsKnown
  <2>1. CASE Home[i] = b
    <3>1. reading[i] = column[i]
      BY <1>6, <2>1 DEF Settled, IInv, SettledCardsKnown, PollReports
    <3> QED BY <1>3, <1>5, <2>1, <3>1 DEF PollReports
  <2>2. CASE Home[i] # b
    <3>1. Settled(i)
      BY <1>6, <2>2 DEF Settled, PollReports
    <3> QED BY <1>3, <1>5, <2>2, <3>1 DEF IInv, SettledCardsKnown, PollReports
  <2> QED BY <2>1, <2>2
<1>15. MovesLand'
  <2> SUFFICES ASSUME NEW m \in Callers, call[m].pc = "moved"
               PROVE  column[call[m].item] = call[m].to \/ call[m].item \in dragged' \cup raced'
    BY DEF MovesLand, PollReports
  <2>1. call[m].item \in Unanswered /\ call[m].item \in Items
    BY DEF Unanswered, IInv, TypeOK
  <2> QED BY <2>1 DEF IInv, MovesLand, PollReports
<1> QED BY <1>8, <1>9, <1>10, <1>13, <1>14, <1>15 DEF IInv

-----------------------------------------------------------------------------
(* A move through the adapter *)

LEMMA GetBoardKeeps ==
    ASSUME IInv, NEW m \in Callers, NEW i \in Items, NEW c \in Columns, GetBoard(m, i, c)
    PROVE  IInv'
<1> USE Facts
<1> DEFINE r == [NoCall EXCEPT !.pc = "parsing", !.item = i, !.to = c]
<1>1. r \in CallType /\ r.pc = "parsing" /\ r.to = c
  BY NoCallType DEF CallType
<1>2. call' = [call EXCEPT ![m] = r] /\ call[m].pc # "moved"
  BY DEF GetBoard
<1> HIDE DEF r
<1>3. /\ call' \in [Callers -> CallType]
      /\ call'[m] = r /\ \A n \in Callers : n # m => call'[n] = call[n]
      /\ Unanswered' = Unanswered
  BY <1>1, <1>2, CallGoesOn
<1>4. /\ poll' \in [Boards -> LoopType]
      /\ \A d \in Boards : poll'[d].pc = "parsing" => poll'[d] = poll[d]
  BY PollingEnsured DEF IInv, GetBoard
<1>5. TypeOK'
  BY <1>3, <1>4 DEF IInv, TypeOK, LoopType, CallType, GetBoard, bounds
<1>6. LockHeld'
  BY <1>1, <1>3 DEF IInv, LockHeld, GetBoard
<1>7. MovesLand'
  BY <1>1, <1>3, MovesKept DEF GetBoard
<1>8. (ReadingsComplete /\ NothingToldYet /\ BaselineIsTold /\ SettledCardsKnown)'
  BY <1>3, <1>4, BoardsKept DEF GetBoard
<1> QED BY <1>5, <1>6, <1>7, <1>8 DEF IInv

LEMMA TakeLockKeeps == ASSUME IInv, NEW m \in Callers, TakeLock(m) PROVE IInv'
<1> USE Facts
<1> DEFINE r == [call[m] EXCEPT !.pc = "reading", !.board = context]
<1>1. call \in [Callers -> CallType] /\ context \in Boards
  BY DEF IInv, TypeOK, CallType, LockHeld, TakeLock
<1>2. r \in CallType /\ r.pc = "reading" /\ r.board = context /\ r.to = call[m].to
  BY <1>1 DEF CallType
<1>3. call' = [call EXCEPT ![m] = r] /\ call[m].pc = "parsing"
  BY <1>1 DEF TakeLock, CallType
<1> HIDE DEF r
<1>4. /\ call' \in [Callers -> CallType]
      /\ call'[m] = r /\ \A n \in Callers : n # m => call'[n] = call[n]
      /\ Unanswered' = Unanswered
  BY <1>2, <1>3, CallGoesOn
<1>5. TypeOK'
  BY <1>4 DEF IInv, TypeOK, LoopType, CallType, TakeLock, bounds
<1>6. LockHeld'
  BY <1>1, <1>2, <1>3, <1>4 DEF IInv, LockHeld, TakeLock
<1>7. MovesLand'
  BY <1>2, <1>4, MovesKept DEF TakeLock
<1>8. (ReadingsComplete /\ NothingToldYet /\ BaselineIsTold /\ SettledCardsKnown)'
  BY <1>4, BoardsKept DEF TakeLock
<1> QED BY <1>5, <1>6, <1>7, <1>8 DEF IInv

LEMMA ReadBoardKeeps == ASSUME IInv, NEW m \in Callers, ReadBoard(m) PROVE IInv'
<1> USE Facts
<1> DEFINE b == call[m].board
           r == [call[m] EXCEPT !.pc = "moving", !.from = Reading(b)[call[m].item]]
<1>1. call \in [Callers -> CallType] /\ b \in Boards
  BY DEF IInv, TypeOK, CallType, LockHeld, ReadBoard
<1>2. Reading(b)[call[m].item] \in Columns \cup {Absent}
  BY <1>1, ReadingHasType DEF IInv, Positions, CallType
<1>3. r \in CallType /\ r.pc = "moving" /\ r.board = b /\ r.to = call[m].to
  BY <1>1, <1>2 DEF CallType
<1>4. call' = [call EXCEPT ![m] = r] /\ call[m].pc = "reading"
  BY <1>1 DEF ReadBoard, CallType
<1>5. EnsurePolling(b) /\ context' = b
  BY DEF ReadBoard
<1> HIDE DEF r
<1>6. /\ call' \in [Callers -> CallType]
      /\ call'[m] = r /\ \A n \in Callers : n # m => call'[n] = call[n]
      /\ Unanswered' = Unanswered
  BY <1>3, <1>4, CallGoesOn
<1>7. /\ poll' \in [Boards -> LoopType]
      /\ \A d \in Boards : poll'[d].pc = "parsing" => poll'[d] = poll[d]
  BY <1>1, <1>5, PollingEnsured DEF IInv
<1>8. TypeOK'
  BY <1>1, <1>5, <1>6, <1>7 DEF IInv, TypeOK, LoopType, CallType, ReadBoard, bounds
<1>9. LockHeld'
  BY <1>1, <1>3, <1>4, <1>5, <1>6 DEF IInv, LockHeld, ReadBoard
<1>10. MovesLand'
  BY <1>3, <1>6, MovesKept DEF ReadBoard
<1>11. (ReadingsComplete /\ NothingToldYet /\ BaselineIsTold /\ SettledCardsKnown)'
  BY <1>6, <1>7, BoardsKept DEF ReadBoard
<1> QED BY <1>8, <1>9, <1>10, <1>11 DEF IInv

\* The holder of the lock is the only call whose move GitHub may have made.
LEMMA OneMover ==
    ASSUME IInv, NEW m \in Callers, call[m].pc \in {"reading", "moving", "moved"}
    PROVE  \A n \in Callers : n # m => call[n].pc \notin {"reading", "moving", "moved"}
BY DEF IInv, LockHeld

LEMMA MutateKeeps == ASSUME IInv, NEW m \in Callers, Mutate(m) PROVE IInv'
<1> USE Facts
<1> DEFINE i == call[m].item
           moved == call[m].from # Absent /\ context = Home[i]
<1>1. /\ call \in [Callers -> CallType] /\ call[m].pc = "moving"
      /\ i \in Items /\ call[m].to \in Columns
  BY DEF IInv, TypeOK, CallType, LockHeld, Mutate
<1>2. CASE moved
  <2> DEFINE r == [call[m] EXCEPT !.pc = "moved"]
  <2>1. /\ r \in CallType /\ r.pc = "moved" /\ r.item = i /\ r.to = call[m].to
        /\ r.board = call[m].board
    BY <1>1 DEF CallType
  <2>2. call' = [call EXCEPT ![m] = r]
    BY <1>1, <1>2 DEF Mutate, CallType
  <2> HIDE DEF r
  <2>3. /\ call' \in [Callers -> CallType]
        /\ call'[m] = r /\ \A n \in Callers : n # m => call'[n] = call[n]
    BY <1>1, <2>1, <2>2
  <2>4. /\ column' \in [Items -> Columns] /\ column'[i] = call[m].to
        /\ \A j \in Items : j # i => column'[j] = column[j]
    BY <1>1, <1>2 DEF IInv, TypeOK, Mutate
  <2>5. Unanswered' = Unanswered \cup {i}
    BY <1>1, <2>1, <2>3 DEF Unanswered
  <2>6. raced \subseteq raced' /\ raced' \subseteq Items
    BY <1>1, <1>2 DEF Mutate, IInv, TypeOK
  <2>7. TypeOK'
    BY <1>2, <2>3, <2>4, <2>6 DEF IInv, TypeOK, LoopType, CallType, Mutate, bounds
  <2>8. LockHeld'
    BY <1>1, <1>2, <2>1, <2>3 DEF IInv, LockHeld, Mutate
  <2>9. ReadingsComplete' /\ NothingToldYet' /\ BaselineIsTold'
    BY DEF IInv, ReadingsComplete, NothingToldYet, BaselineIsTold, Mutate
  <2>10. SettledCardsKnown'
    BY <2>4, <2>5, <2>6 DEF IInv, SettledCardsKnown, Settled, Mutate
  <2>11. MovesLand'
    <3>1. \A n \in Callers : n # m => call'[n].pc # "moved"
      BY <1>1, <2>3, OneMover
    <3> QED BY <2>1, <2>3, <2>4, <3>1 DEF MovesLand
  <2> QED BY <2>7, <2>8, <2>9, <2>10, <2>11 DEF IInv
<1>3. CASE ~moved
  <2>1. call' = [call EXCEPT ![m] = NoCall] /\ lock' = Nobody
    BY <1>3 DEF Mutate, Raises
  <2>2. NoCall.pc = "idle"
    BY DEF NoCall
  <2>3. /\ call' \in [Callers -> CallType]
        /\ call'[m] = NoCall /\ \A n \in Callers : n # m => call'[n] = call[n]
        /\ Unanswered' = Unanswered
    BY <1>1, <2>1, <2>2, NoCallType, CallGoesOn
  <2>4. TypeOK'
    BY <1>3, <2>1, <2>3 DEF IInv, TypeOK, LoopType, CallType, Mutate, bounds
  <2>5. LockHeld'
    BY <1>1, <2>2, <2>3, OneMover DEF IInv, LockHeld, Mutate
  <2>6. MovesLand'
    BY <1>3, <2>2, <2>3, MovesKept DEF Mutate
  <2>7. (ReadingsComplete /\ NothingToldYet /\ BaselineIsTold /\ SettledCardsKnown)'
    BY <1>3, <2>3, BoardsKept DEF Mutate
  <2> QED BY <2>4, <2>5, <2>6, <2>7 DEF IInv
<1> QED BY <1>2, <1>3

\* A call whose move was made is over: its card is no longer unanswered.
LEMMA MoveOver ==
    ASSUME IInv, NEW m \in Callers, call[m].pc = "moved",
           call' = [call EXCEPT ![m] = NoCall]
    PROVE  /\ call' \in [Callers -> CallType]
           /\ call'[m].pc = "idle" /\ \A n \in Callers : n # m => call'[n] = call[n]
           /\ Unanswered = {call[m].item} /\ Unanswered' = {}
           /\ call[m].item \in Items /\ call[m].to \in Columns
<1>1. call \in [Callers -> CallType]
  BY DEF IInv, TypeOK, CallType
<1>2. NoCall.pc = "idle"
  BY DEF NoCall
<1>3. /\ call' \in [Callers -> CallType] /\ call'[m].pc = "idle"
      /\ \A n \in Callers : n # m => call'[n] = call[n]
  BY <1>1, <1>2, NoCallType
<1>4. \A n \in Callers : n # m => call[n].pc # "moved"
  BY OneMover
<1>5. Unanswered = {call[m].item} /\ Unanswered' = {}
  BY <1>3, <1>4 DEF Unanswered
<1> QED BY <1>1, <1>3, <1>5 DEF IInv, LockHeld, CallType

LEMMA FinishKeeps == ASSUME IInv, NEW m \in Callers, Finish(m) PROVE IInv'
<1> USE Facts
<1> DEFINE i == call[m].item
           c == call[m].to
<1>1. call[m].pc = "moved" /\ call' = [call EXCEPT ![m] = NoCall] /\ lock' = Nobody
  BY DEF Finish, Raises
<1>2. /\ call' \in [Callers -> CallType]
      /\ call'[m].pc = "idle" /\ \A n \in Callers : n # m => call'[n] = call[n]
      /\ Unanswered = {i} /\ Unanswered' = {}
      /\ i \in Items /\ c \in Columns
  BY <1>1, MoveOver
<1>3. /\ told' \in Positions /\ told'[i] = c
      /\ \A j \in Items : j # i => told'[j] = told[j]
  BY <1>2 DEF Finish, IInv, TypeOK, Positions
<1>4. /\ baseline \in [Boards -> Positions] /\ baseline' \in [Boards -> Positions]
      /\ \A b \in Boards, j \in Items :
            baseline'[b][j] = IF b = context /\ b \in based /\ j = i THEN c ELSE baseline[b][j]
  <2>1. baseline \in [Boards -> Positions] /\ based \subseteq Boards
    BY DEF IInv, TypeOK
  <2>2. CASE context \in based
    <3> DEFINE p == [baseline[context] EXCEPT ![i] = c]
    <3>1. /\ p \in Positions
          /\ \A j \in Items : p[j] = IF j = i THEN c ELSE baseline[context][j]
      BY <1>2, <2>1, <2>2 DEF Positions
    <3>2. baseline' = [baseline EXCEPT ![context] = p]
      BY <2>2 DEF Finish
    <3> HIDE DEF p
    <3> QED BY <2>1, <2>2, <3>1, <3>2
  <2>3. CASE context \notin based
    BY <2>1, <2>3 DEF Finish
  <2> QED BY <2>2, <2>3
<1>5. /\ crossed' = IF context \in based /\ context = Home[i] THEN crossed ELSE crossed \cup {i}
      /\ dragged' = IF column[i] = c THEN dragged \ {i} ELSE dragged
      /\ raced' = IF poll[Home[i]].pc = "parsing" THEN raced \cup {i} ELSE raced
      /\ UNCHANGED <<column, context, poll, based>>
  BY DEF Finish
<1>6. TypeOK'
  BY <1>1, <1>2, <1>3, <1>4, <1>5 DEF IInv, TypeOK, LoopType, CallType, Finish, bounds
<1>7. LockHeld'
  BY <1>1, <1>2, <1>5, OneMover DEF IInv, LockHeld
<1>8. ReadingsComplete'
  BY <1>2, <1>4, <1>5 DEF IInv, ReadingsComplete
<1>9. NothingToldYet' /\ BaselineIsTold'
  <2> SUFFICES ASSUME NEW j \in Items \ crossed'
               PROVE  /\ Home[j] \notin based' => told'[j] = Absent /\ baseline'[Home[j]][j] = Absent
                      /\ baseline'[Home[j]][j] # Absent => baseline'[Home[j]][j] = told'[j]
    BY DEF NothingToldYet, BaselineIsTold
  <2>1. CASE j = i
    BY <1>3, <1>4, <1>5, <2>1
  <2>2. CASE j # i
    BY <1>3, <1>4, <1>5, <2>2 DEF IInv, NothingToldYet, BaselineIsTold
  <2> QED BY <2>1, <2>2
<1>10. SettledCardsKnown'
  <2> SUFFICES ASSUME NEW j \in Items, Settled(j)'
               PROVE  /\ Home[j] \in based => baseline'[Home[j]][j] = column[j]
                      /\ poll[Home[j]].pc = "parsing" => poll[Home[j]].reading[j] = column[j]
    BY <1>5 DEF SettledCardsKnown
  <2>1. CASE j = i
    <3>1. poll[Home[i]].pc # "parsing" /\ context = Home[i] /\ context \in based
      BY <1>5, <2>1 DEF Settled
    <3>2. column[i] = c
      BY <1>1, <1>5, <2>1 DEF Settled, IInv, MovesLand
    <3> QED BY <1>4, <2>1, <3>1, <3>2
  <2>2. CASE j # i
    <3>1. Settled(j)
      BY <1>2, <1>5, <2>2 DEF Settled
    <3> QED BY <1>4, <2>2, <3>1 DEF IInv, SettledCardsKnown
  <2> QED BY <2>1, <2>2
<1>11. MovesLand'
  BY <1>1, <1>2, OneMover DEF MovesLand
<1> QED BY <1>6, <1>7, <1>8, <1>9, <1>10, <1>11 DEF IInv

LEMMA CallFailsKeeps == ASSUME IInv, NEW m \in Callers, CallFails(m) PROVE IInv'
<1> USE Facts
<1>1. call' = [call EXCEPT ![m] = NoCall] /\ NoCall.pc = "idle"
  BY DEF CallFails, NoCall
<1>2. /\ call' \in [Callers -> CallType]
      /\ call'[m].pc = "idle" /\ \A n \in Callers : n # m => call'[n] = call[n]
      /\ Unanswered \subseteq Unanswered' \cup raced'
      /\ Unanswered' \subseteq Unanswered
  <2>1. CASE call[m].pc = "moved"
    BY <1>1, <2>1, MoveOver DEF CallFails
  <2>2. CASE call[m].pc # "moved"
    BY <1>1, <2>2, NoCallType, CallGoesOn
  <2> QED BY <2>1, <2>2
<1>3. /\ poll' \in [Boards -> LoopType]
      /\ \A d \in Boards : poll'[d].pc = "parsing" => poll'[d] = poll[d]
      /\ context' \in Boards \cup {NoBoard} /\ context' \in {context} \cup Boards
  <2>1. CASE UNCHANGED <<context, poll>>
    BY <2>1 DEF IInv, TypeOK, LoopType
  <2>2. CASE call[m].pc = "reading" /\ context' = call[m].board /\ EnsurePolling(call[m].board)
    <3>1. call[m].board \in Boards
      BY <2>2 DEF IInv, LockHeld
    <3> QED BY <2>2, <3>1, PollingEnsured DEF IInv
  <2> QED BY <2>1, <2>2 DEF CallFails
<1>4. raced \subseteq raced' /\ raced' \subseteq Items
  BY DEF CallFails, IInv, TypeOK
<1>5. TypeOK'
  BY <1>2, <1>3, <1>4 DEF IInv, TypeOK, LoopType, CallType, CallFails, Fault
<1>6. LockHeld'
  BY <1>2, <1>3 DEF IInv, LockHeld, CallFails
<1>7. ReadingsComplete'
  BY <1>3 DEF IInv, ReadingsComplete, CallFails
<1>8. NothingToldYet' /\ BaselineIsTold'
  BY DEF IInv, NothingToldYet, BaselineIsTold, CallFails
<1>9. SettledCardsKnown'
  <2>1. \A i \in Items : Settled(i)' => Settled(i)
    BY <1>2, <1>4 DEF Settled, CallFails
  <2> QED BY <1>3, <2>1 DEF IInv, SettledCardsKnown, CallFails
<1>10. MovesLand'
  BY <1>2, <1>4 DEF IInv, MovesLand, CallFails
<1> QED BY <1>5, <1>6, <1>7, <1>8, <1>9, <1>10 DEF IInv

-----------------------------------------------------------------------------
LEMMA StepKeeps == ASSUME IInv, [Next]_vars PROVE IInv'
<1>1. CASE Next
  <2>1. CASE \E b \in Boards : PollStep(b) \/ OnlyReads(b)
    BY <2>1, PollReadsKeeps, PollReportsKeeps, PollFailsKeeps, OnlyReadsKeeps DEF PollStep
  <2>2. CASE \E m \in Callers : CallStep(m) \/ \E i \in Items, c \in Columns : GetBoard(m, i, c)
    BY <2>2, TakeLockKeeps, ReadBoardKeeps, MutateKeeps, FinishKeeps, CallFailsKeeps,
       GetBoardKeeps DEF CallStep
  <2>3. CASE \E i \in Items, c \in Columns : PersonMoves(i, c)
    BY <2>3, PersonMovesKeeps
  <2> QED BY <1>1, <2>1, <2>2, <2>3 DEF Next
<1>2. CASE UNCHANGED vars
  BY <1>2 DEF vars, bounds, IInv, TypeOK, LockHeld, ReadingsComplete, NothingToldYet,
     BaselineIsTold, SettledCardsKnown, Settled, Unanswered, MovesLand
<1> QED BY <1>1, <1>2

\* The invariant the theorems below follow from.
THEOREM Invariance == Spec => []IInv
<1>1. Init => IInv
  BY InitHolds
<1>2. IInv /\ [Next]_vars => IInv'
  BY StepKeeps
<1> QED BY <1>1, <1>2, PTL DEF Spec

\* Adapter, calls and history are well formed in every reachable state.
THEOREM TypeCorrect == Spec => []TypeOK
<1>1. IInv => TypeOK
  BY DEF IInv
<1> QED BY <1>1, Invariance, PTL

\* The baseline of a board is what the application was told, but for moves that
\* were entered elsewhere.
THEOREM BaselineAgrees == Spec => []BaselineIsTold
<1>1. IInv => BaselineIsTold
  BY DEF IInv
<1> QED BY <1>1, Invariance, PTL

\* A poll loop reports what people moved; the adapter's own moves only in the
\* races that the property names.
THEOREM NoEchoes == Spec => []ReportsPeoplesMoves
<1>1. IInv => ReportsPeoplesMoves
  <2> SUFFICES ASSUME IInv, NEW b \in Boards, poll[b].pc = "parsing", NEW i \in Changes(b)
               PROVE  i \in dragged \cup raced \cup crossed \cup Unanswered
    BY DEF ReportsPeoplesMoves
  <2>1. /\ i \in Items /\ b \in based /\ poll[b].reading[i] # Absent
        /\ baseline[b][i] # poll[b].reading[i]
    BY DEF Changes
  <2>2. Home[i] = b
    BY <2>1 DEF IInv, ReadingsComplete
  <2> QED BY <2>1, <2>2 DEF IInv, SettledCardsKnown, Settled
<1> QED BY <1>1, Invariance, PTL
=============================================================================
