---------------------------- MODULE OutboxProofs ----------------------------
(***************************************************************************)
(* For any transactions, in any number, and any number of faults: what the *)
(* outbox, Kafka and ClickHouse hold is true, nothing leaves the outbox    *)
(* unsent and unmarked, and double counting needs a race.                  *)
(***************************************************************************)
EXTENDS Outbox, TLAPS

(* The statuses a transaction can have, by its origin.                     *)
FitsOrigin(t, s) ==
    IF origin[t] = "simulated" THEN s \in {None, "sent_to_kafka", "processing", "cleared"}
    ELSE s \in {None, FirstStatus(origin[t])}

(* The statuses that events and ClickHouse may tell of it.                 *)
Truth(t) == IF origin[t] = "simulated" THEN {"cleared", "processing"}
            ELSE {FirstStatus(origin[t])}

Circulating(e) == Pending(e) \/ e \in limbo \/ e \in kafka

StatusInv ==
    \A t \in Tx : /\ FitsOrigin(t, status[t])
                  /\ FitsOrigin(t, pgSaw[t])
                  /\ pgSaw[t] # None => status[t] # None

FoundInv == \A t \in found : origin[t] = "simulated" /\ status[t] # None

WorkerInv ==
    /\ wpc = "idle" => current = None /\ heard = None
    /\ wpc # "idle" => current \in Event /\ Pending(current)
    /\ wpc = "look" => current \in TxEvent
    /\ wpc \in {"look", "mark"} => current \in sent
    /\ heard \in Open => /\ wpc = "mark" /\ current \in TxEvent
                         /\ origin[current.tx] = "simulated"
                         /\ status[current.tx] # None

EventInv ==
    \A e \in TxEvent : Circulating(e) \/ e \in toSync =>
        /\ e.says \in Truth(e.tx)
        /\ status[e.tx] # None
        /\ e.stamp = "emitted" => origin[e.tx] # "simulated" /\ e \notin toSync

TableInv ==
    \A t \in Tx : \A s \in Stamp : table[t][s] # None =>
        /\ table[t][s] \in Truth(t)
        /\ status[t] # None
        /\ s = "emitted" => origin[t] # "simulated"

InFeed(t, s) ==
    \/ table[t][s] # None
    \/ \E e \in TxEvent : e.tx = t /\ e.stamp = s /\ (Circulating(e) \/ e \in toSync)

RaceInv == \A t \in Tx : InFeed(t, "emitted") /\ InFeed(t, "created_at") => t \in raced

IInv ==
    /\ TypeOK
    /\ StatusInv
    /\ FoundInv
    /\ WorkerInv
    /\ EventInv
    /\ TableInv
    /\ RaceInv
    /\ NoEventVanishes

-----------------------------------------------------------------------------
(* The next and the previous number within a bound.                        *)
LEMMA Within ==
    ASSUME NEW n \in Nat, NEW k \in 0 .. n
    PROVE  /\ k < n => k + 1 \in 0 .. n /\ k + 1 > 0
           /\ k > 0 => k - 1 \in 0 .. n
  OBVIOUS

(* The parts of an event.                                                  *)
LEMMA EventParts ==
    /\ TxEvent \subseteq Event
    /\ \A e \in TxEvent : e.tx \in Tx /\ e.says \in Open \cup Final /\ e.stamp \in Stamp
    /\ \A e \in Event \ TxEvent : e.topic = "activity"
    /\ \A t \in Tx : NewActivity(t) \in Event \ TxEvent
  BY DEF TxEvent, Event, ActivityEvent, NewActivity

(* A new event has the parts it is given.                                  *)
LEMMA NewEventParts ==
    ASSUME NEW t \in Tx, NEW s \in Open \cup Final, NEW stamp \in Stamp
    PROVE  /\ NewEvent(t, s, stamp) \in TxEvent
           /\ NewEvent(t, s, stamp).tx = t
           /\ NewEvent(t, s, stamp).says = s
           /\ NewEvent(t, s, stamp).stamp = stamp
  BY DEF TxEvent, NewEvent

(* The first status is one of three.                                       *)
LEMMA FirstStatusIs ==
    ASSUME NEW o \in Origins
    PROVE  /\ FirstStatus(o) \in {"cleared", "failed", "sent_to_kafka"}
           /\ FirstStatus(o) \in Status /\ FirstStatus(o) \in Open \cup Final
           /\ FirstStatus(o) # None
           /\ o = "simulated" <=> FirstStatus(o) = "sent_to_kafka"
           /\ o # "simulated" => FirstStatus(o) \in Final
  BY OutboxAssumption DEF OutboxAssumption, FirstStatus, Status, Open, Final

(* The events of a new transaction.                                        *)
LEMMA EventsOfParts ==
    ASSUME TypeOK, NEW t \in Tx
    PROVE  /\ EventsOf(t) \subseteq Event
           /\ \A e \in EventsOf(t) \cap TxEvent :
                 /\ e.tx = t /\ e.says = FirstStatus(origin[t]) /\ e.stamp = "emitted"
                 /\ origin[t] # "simulated"
<1>1. origin[t] \in Origins
  BY DEF TypeOK
<1>2. /\ NewEvent(t, FirstStatus(origin[t]), "emitted") \in TxEvent
      /\ NewEvent(t, FirstStatus(origin[t]), "emitted").tx = t
      /\ NewEvent(t, FirstStatus(origin[t]), "emitted").says = FirstStatus(origin[t])
      /\ NewEvent(t, FirstStatus(origin[t]), "emitted").stamp = "emitted"
  BY <1>1, FirstStatusIs, NewEventParts DEF Stamp
<1>3. CASE origin[t] \in {"payment", "refused"}
  BY <1>2, <1>3, EventParts DEF EventsOf
<1>4. CASE origin[t] \notin {"payment", "refused"}
  BY <1>4, EventParts DEF EventsOf
<1>5. QED
  BY <1>3, <1>4

(* Enqueue adds a row for each of its events and touches no other.         *)
LEMMA EnqueueAdds ==
    ASSUME outbox \in [Event -> 0 .. MaxCopies], NEW events, Enqueue(events)
    PROVE  /\ outbox' \in [Event -> 0 .. MaxCopies]
           /\ \A e \in Event : Pending(e)' <=> Pending(e) \/ e \in events
<1>1. MaxCopies \in Nat
  BY OutboxAssumption DEF OutboxAssumption
<1>2. ASSUME NEW e \in Event
      PROVE  /\ (IF e \in events THEN outbox[e] + 1 ELSE outbox[e]) \in 0 .. MaxCopies
             /\ (IF e \in events THEN outbox[e] + 1 ELSE outbox[e]) > 0
                    <=> outbox[e] > 0 \/ e \in events
  <2>1. outbox[e] \in 0 .. MaxCopies /\ (e \in events => outbox[e] < MaxCopies)
    BY DEF Enqueue
  <2>2. QED
    BY <1>1, <2>1, Within
<1>3. QED
  BY <1>2 DEF Enqueue, Pending

(* Taking a pending event out leaves the others.                           *)
LEMMA TakeOut ==
    ASSUME outbox \in [Event -> 0 .. MaxCopies], NEW e \in Event, Pending(e),
           outbox' = [outbox EXCEPT ![e] = @ - 1]
    PROVE  /\ outbox' \in [Event -> 0 .. MaxCopies]
           /\ \A f \in Event : Pending(f)' => Pending(f)
           /\ \A f \in Event : Pending(f) /\ f # e => Pending(f)'
<1>1. outbox[e] \in 0 .. MaxCopies /\ outbox[e] > 0 /\ MaxCopies \in Nat
  BY OutboxAssumption DEF OutboxAssumption, Pending
<1>2. outbox[e] - 1 \in 0 .. MaxCopies
  BY <1>1, Within
<1>3. QED
  BY <1>2 DEF Pending

(* The budget of faults is kept.                                           *)
LEMMA FaultType == ASSUME faults \in 0 .. MaxFaults, Fault PROVE faults' \in 0 .. MaxFaults
  BY OutboxAssumption, Within DEF OutboxAssumption, Fault

(* What ClickHouse is brought to agree with.                               *)
LEMMA EffectiveIs ==
    ASSUME NEW s \in Status, s # None
    PROVE  Effective(s) \in {"cleared", "processing", "failed"}
           /\ Effective(s) \in Open \cup Final
           /\ s \in {"cleared", "failed"} => Effective(s) = s
  BY DEF Effective, Status, Open, Final

-----------------------------------------------------------------------------
(* Types.                                                                  *)

(* Every step keeps the types: the only arithmetic is the count of pending *)
(* rows, which the worker lowers only for an event that it found pending.  *)
LEMMA TypeStep == ASSUME TypeOK, WorkerInv, [Next]_vars PROVE TypeOK'
<1> USE DEF TypeOK
<1>1. ASSUME NEW t \in Tx, Record(t) PROVE TypeOK'
  <2>1. outbox' \in [Event -> 0 .. MaxCopies]
    BY <1>1, EnqueueAdds DEF Record
  <2>2. FirstStatus(origin[t]) \in Status
    BY FirstStatusIs
  <2>3. status' \in [Tx -> Status]
    BY <1>1, <2>2 DEF Record
  <2>4. QED
    BY <1>1, <2>1, <2>3 DEF Record, worker, pipeline, checker, history
<1>2. ASSUME NEW t \in Tx, Age(t) PROVE TypeOK'
  BY <1>2 DEF Age, worker, pipeline, checker, history
<1>3. ASSUME NEW e \in Event, SendAcknowledged(e) PROVE TypeOK'
  BY <1>3 DEF SendAcknowledged, Deliver, postgres, checker
<1>4. ASSUME NEW e \in Event, SendFails(e) PROVE TypeOK'
  <2>1. faults' \in 0 .. MaxFaults
    BY <1>4, FaultType DEF SendFails
  <2>2. QED
    BY <1>4, <2>1 DEF SendFails, postgres, checker, history
<1>5. CASE LookAtTransaction
  <2>1. current.tx \in Tx
    BY <1>5, EventParts DEF LookAtTransaction, WorkerInv
  <2>2. heard' \in Status
    BY <1>5, <2>1 DEF LookAtTransaction
  <2>3. QED
    BY <1>5, <2>2 DEF LookAtTransaction, postgres, pipeline, checker, history
<1>6. CASE MarkProcessed
  <2>1. outbox' \in [Event -> 0 .. MaxCopies]
    BY <1>6, TakeOut DEF MarkProcessed, WorkerInv
  <2>2. status' \in [Tx -> Status]
    BY <1>6 DEF MarkProcessed, Status, Open
  <2>3. QED
    BY <1>6, <2>1, <2>2 DEF MarkProcessed, Proceed, pipeline, checker, history, Status
<1>7. CASE MarkFailed
  <2>1. outbox' \in [Event -> 0 .. MaxCopies] /\ current \in Event
    BY <1>7, TakeOut DEF MarkFailed, WorkerInv
  <2>2. QED
    BY <1>7, <2>1 DEF MarkFailed, Proceed, pipeline, checker, Status
<1>8. CASE WorkerFails
  <2>1. faults' \in 0 .. MaxFaults
    BY <1>8, FaultType DEF WorkerFails
  <2>2. QED
    BY <1>8, <2>1 DEF WorkerFails, Deliver, Proceed, postgres, checker, Status
<1>9. ASSUME NEW e \in Event, LateDelivery(e) PROVE TypeOK'
  BY <1>9 DEF LateDelivery, Deliver, postgres, worker, checker
<1>10. ASSUME NEW e \in Event, Store(e) PROVE TypeOK'
  <2>1. e \in TxEvent
    BY <1>10 DEF Store
  <2>2. e.tx \in Tx /\ e.stamp \in Stamp /\ e.says \in Status
    BY <2>1, EventParts DEF Status
  <2>3. table' \in [Tx -> [Stamp -> Status]]
    BY <1>10, <2>2 DEF Store
  <2>4. faults' \in 0 .. MaxFaults
    BY <1>10, FaultType DEF Store
  <2>5. kafka' \subseteq TxEvent
    BY <1>10 DEF Store
  <2>6. QED
    BY <1>10, <2>3, <2>4, <2>5 DEF Store, postgres, worker, checker, history
<1>11. ASSUME NEW d \in BOOLEAN, ReadOpen(d) PROVE TypeOK'
  BY <1>11 DEF ReadOpen, postgres, worker, pipeline, history
<1>12. CASE Settle
  <2>1. outbox' \in [Event -> 0 .. MaxCopies]
    BY <1>12, EnqueueAdds DEF Settle
  <2>2. status' \in [Tx -> Status]
    BY <1>12 DEF Settle, Status, Final
  <2>3. QED
    BY <1>12, <2>1, <2>2 DEF Settle, worker, pipeline, history
<1>13. CASE QueryPostgres
  BY <1>13 DEF QueryPostgres, postgres, worker, pipeline, history
<1>14. CASE QueryClickHouse
  <2>1. ASSUME NEW t \in Tx, pgSaw[t] # None
        PROVE NewEvent(t, Effective(pgSaw[t]), "created_at") \in TxEvent
    <3>1. pgSaw[t] \in Status
      OBVIOUS
    <3>2. Effective(pgSaw[t]) \in Open \cup Final
      BY <2>1, <3>1 DEF Effective, Status, Open, Final
    <3>3. QED
      BY <3>2, NewEventParts DEF Stamp
  <2>2. toSync' \subseteq TxEvent
    BY <1>14, <2>1 DEF QueryClickHouse, OutOfSync
  <2>3. raced' \subseteq Tx /\ pgSaw' \in [Tx -> Status] /\ spc' = "emit"
    BY <1>14 DEF QueryClickHouse, Status
  <2>4. QED
    BY <1>14, <2>2, <2>3 DEF QueryClickHouse, postgres, worker, pipeline
<1>15. CASE QueueSyncEvents
  <2>1. outbox' \in [Event -> 0 .. MaxCopies]
    BY <1>15, EnqueueAdds DEF QueueSyncEvents
  <2>2. QED
    BY <1>15, <2>1 DEF QueueSyncEvents, worker, pipeline, history
<1>16. CASE CheckerFails
  <2>1. faults' \in 0 .. MaxFaults
    BY <1>16, FaultType DEF CheckerFails
  <2>2. QED
    BY <1>16, <2>1 DEF CheckerFails, postgres, worker, pipeline, history, Status
<1>17. CASE UNCHANGED vars
  BY <1>17 DEF vars
<1> HIDE DEF TypeOK
<1>18. QED
  BY <1>1, <1>2, <1>3, <1>4, <1>5, <1>6, <1>7, <1>8, <1>9, <1>10, <1>11, <1>12,
     <1>13, <1>14, <1>15, <1>16, <1>17, EventParts DEF Next, Work, Check

(* The initial states satisfy the invariant.                               *)
LEMMA InitInv == ASSUME Init PROVE IInv
<1>1. MaxCopies \in Nat /\ MaxFaults \in Nat
  BY OutboxAssumption DEF OutboxAssumption
<1>2. TypeOK
  <2>1. daily \in BOOLEAN
    BY DEF Init
  <2>2. /\ status \in [Tx -> Status] /\ pgSaw \in [Tx -> Status]
        /\ table \in [Tx -> [Stamp -> Status]] /\ heard \in Status
    BY DEF Init, Status
  <2>3. outbox \in [Event -> 0 .. MaxCopies] /\ faults \in 0 .. MaxFaults
    BY <1>1 DEF Init
  <2>4. QED
    BY <2>1, <2>2, <2>3 DEF Init, TypeOK
<1>3. \A e \in Event : ~ Pending(e) /\ ~ (e \in limbo) /\ ~ (e \in kafka) /\ ~ (e \in toSync)
  BY DEF Init, Pending
<1>4. StatusInv
  BY DEF Init, StatusInv, FitsOrigin
<1>5. FoundInv /\ TableInv /\ NoEventVanishes
  BY DEF Init, FoundInv, TableInv, NoEventVanishes
<1>6. WorkerInv
  <2>1. None \notin Open
    BY OutboxAssumption DEF OutboxAssumption, Open
  <2>2. QED
    BY <2>1 DEF Init, WorkerInv
<1>7. EventInv /\ RaceInv
  <2>1. TxEvent \subseteq Event
    BY EventParts
  <2>2. \A e \in TxEvent : ~ Circulating(e) /\ ~ (e \in toSync)
    BY <1>3, <2>1 DEF Circulating
  <2>3. \A t \in Tx : \A s \in Stamp : table[t][s] = None
    BY DEF Init
  <2>4. \A t \in Tx : \A s \in Stamp : ~ InFeed(t, s)
    BY <2>2, <2>3 DEF InFeed
  <2>5. QED
    BY <2>2, <2>4 DEF EventInv, RaceInv, Stamp
<1>8. QED
  BY <1>2, <1>4, <1>5, <1>6, <1>7 DEF IInv

-----------------------------------------------------------------------------
(* The status of a transaction.                                            *)

(* A row that exists goes on existing, and the status of a transaction     *)
(* that was final from the start does not change.                          *)
LEMMA StatusSteps ==
    ASSUME TypeOK, FoundInv, WorkerInv, [Next]_vars
    PROVE  /\ origin' = origin
           /\ \A t \in Tx : status[t] # None => status'[t] # None
           /\ \A t \in Tx : \/ status'[t] = status[t]
                            \/ status[t] = None /\ status'[t] = FirstStatus(origin[t])
                            \/ /\ origin[t] = "simulated" /\ status[t] # None
                               /\ status'[t] \in {"processing", "cleared"}
<1> DEFINE Goal == /\ origin' = origin
                   /\ \A t \in Tx : status[t] # None => status'[t] # None
                   /\ \A t \in Tx :
                        \/ status'[t] = status[t]
                        \/ status[t] = None /\ status'[t] = FirstStatus(origin[t])
                        \/ /\ origin[t] = "simulated" /\ status[t] # None
                           /\ status'[t] \in {"processing", "cleared"}
<1>1. status \in [Tx -> Status] /\ origin \in [Tx -> Origins]
  BY DEF TypeOK
<1>2. None \notin {"processing", "cleared"}
  BY OutboxAssumption DEF OutboxAssumption
<1>3. ASSUME NEW t \in Tx, Record(t) PROVE Goal
  <2>1. origin' = origin /\ status[t] = None
        /\ status' = [status EXCEPT ![t] = FirstStatus(origin[t])]
    BY <1>3 DEF Record
  <2>2. FirstStatus(origin[t]) # None
    BY <1>1, FirstStatusIs
  <2>3. QED
    BY <1>1, <2>1, <2>2
<1>4. CASE MarkProcessed
  <2>1. origin' = origin
    BY <1>4 DEF MarkProcessed
  <2>2. CASE heard \in Open
    <3>1. status' = [status EXCEPT ![current.tx] = "processing"]
      BY <1>4, <2>2 DEF MarkProcessed
    <3>2. origin[current.tx] = "simulated" /\ status[current.tx] # None
      BY <2>2 DEF WorkerInv
    <3>3. QED
      BY <1>1, <1>2, <2>1, <3>1, <3>2
  <2>3. CASE heard \notin Open
    BY <1>4, <2>1, <2>3 DEF MarkProcessed
  <2>4. QED
    BY <2>2, <2>3
<1>5. CASE Settle
  <2>1. origin' = origin
        /\ status' = [t \in Tx |-> IF t \in found THEN "cleared" ELSE status[t]]
    BY <1>5 DEF Settle
  <2>2. QED
    BY <1>1, <1>2, <2>1 DEF FoundInv
<1>6. ASSUME origin' = origin, status' = status PROVE Goal
  BY <1>6
<1>7. QED
  <2>1. Goal
    BY <1>3, <1>4, <1>5, <1>6 DEF Next, Work, Check, Age, SendAcknowledged, SendFails,
       LookAtTransaction, MarkFailed, WorkerFails, LateDelivery, Store, ReadOpen,
       QueryPostgres, QueryClickHouse, QueueSyncEvents, CheckerFails, postgres, vars
  <2>2. QED
    BY <2>1

(* What the checker and the worker remember of a status fits its origin.   *)
LEMMA StatusStep ==
    ASSUME TypeOK, StatusInv, FoundInv, WorkerInv, [Next]_vars PROVE StatusInv'
<1>1. origin' = origin /\ origin \in [Tx -> Origins]
  BY StatusSteps DEF TypeOK
<1>2. \A t \in Tx : status[t] # None => status'[t] # None
  BY StatusSteps
<1>3. ASSUME NEW t \in Tx PROVE FitsOrigin(t, status[t])'
  <2>1. FitsOrigin(t, status[t])
    BY DEF StatusInv
  <2>2. \/ status'[t] = status[t]
        \/ status[t] = None /\ status'[t] = FirstStatus(origin[t])
        \/ origin[t] = "simulated" /\ status'[t] \in {"processing", "cleared"}
    BY StatusSteps
  <2>3. origin[t] = "simulated" => FirstStatus(origin[t]) = "sent_to_kafka"
    BY <1>1, FirstStatusIs
  <2>4. QED
    BY <1>1, <2>1, <2>2, <2>3 DEF FitsOrigin
<1>4. \/ pgSaw' = pgSaw
      \/ pgSaw' = status /\ status' = status
      \/ pgSaw' = [t \in Tx |-> None]
  BY DEF Next, Work, Check, Record, Age, SendAcknowledged, SendFails, MarkProcessed,
     LookAtTransaction, MarkFailed, WorkerFails, LateDelivery, Store, ReadOpen, Settle,
     QueryPostgres, QueryClickHouse, QueueSyncEvents, CheckerFails, postgres, checker, vars
<1>5. ASSUME NEW t \in Tx
      PROVE  FitsOrigin(t, pgSaw[t])' /\ (pgSaw'[t] # None => status'[t] # None)
  <2>1. CASE pgSaw' = pgSaw
    BY <1>1, <1>2, <2>1 DEF StatusInv, FitsOrigin
  <2>2. CASE pgSaw' = status /\ status' = status
    BY <1>1, <2>2 DEF StatusInv, FitsOrigin
  <2>3. CASE pgSaw' = [u \in Tx |-> None]
    BY <2>3 DEF FitsOrigin
  <2>4. QED
    BY <1>4, <2>1, <2>2, <2>3
<1>6. QED
  BY <1>3, <1>5 DEF StatusInv

(* The open rows that the checker found are simulated traffic.             *)
LEMMA FoundStep ==
    ASSUME TypeOK, StatusInv, FoundInv, WorkerInv, [Next]_vars PROVE FoundInv'
<1>1. origin' = origin /\ origin \in [Tx -> Origins]
  BY StatusSteps DEF TypeOK
<1>2. found' = found \/ found' = {} \/ found' = {t \in Tx : Unsettled(t)}
  BY DEF Next, Work, Check, Record, Age, SendAcknowledged, SendFails, MarkProcessed,
     LookAtTransaction, MarkFailed, WorkerFails, LateDelivery, Store, ReadOpen, Settle,
     QueryPostgres, QueryClickHouse, QueueSyncEvents, CheckerFails, postgres, checker, vars
<1>3. \A t \in Tx : status[t] # None => status'[t] # None
  BY StatusSteps
<1>4. found \subseteq Tx
  BY DEF TypeOK
<1>5. ASSUME NEW t \in Tx, Unsettled(t) PROVE origin[t] = "simulated" /\ status[t] # None
  <2>1. status[t] \in Open /\ FitsOrigin(t, status[t])
    BY <1>5 DEF Unsettled, StatusInv
  <2>2. None \notin Open
    BY OutboxAssumption DEF OutboxAssumption, Open
  <2>3. origin[t] # "simulated" => FirstStatus(origin[t]) \in Final
    BY <1>1, FirstStatusIs
  <2>4. QED
    BY <2>1, <2>2, <2>3 DEF FitsOrigin, Open, Final
<1>6. QED
  BY <1>1, <1>2, <1>3, <1>4, <1>5 DEF FoundInv

-----------------------------------------------------------------------------
(* Events.                                                                 *)

(* A pending event stays pending until it is known to be sent or is marked *)
(* failed; what is sent, failed or raced remains so.                       *)
LEMMA PendingSteps ==
    ASSUME TypeOK, WorkerInv, [Next]_vars
    PROVE  /\ sent \subseteq sent' /\ failed \subseteq failed' /\ raced \subseteq raced'
           /\ \A e \in Event : Pending(e) => Pending(e)' \/ e \in sent' \cup failed'
           /\ wpc \in {"mark", "fail"} \/ \A e \in Event : Pending(e) => Pending(e)'
<1>1. sent \subseteq sent' /\ failed \subseteq failed' /\ raced \subseteq raced'
  BY DEF Next, Work, Check, Record, Age, SendAcknowledged, SendFails, MarkProcessed,
     LookAtTransaction, MarkFailed, WorkerFails, LateDelivery, Store, ReadOpen, Settle,
     QueryPostgres, QueryClickHouse, QueueSyncEvents, CheckerFails, Deliver, history, vars
<1>2. outbox \in [Event -> 0 .. MaxCopies]
  BY DEF TypeOK
<1> DEFINE Goal == /\ \A e \in Event : Pending(e) => Pending(e)' \/ e \in sent' \cup failed'
                   /\ wpc \in {"mark", "fail"} \/ \A e \in Event : Pending(e) => Pending(e)'
<1>3. ASSUME NEW events, Enqueue(events) PROVE Goal
  BY <1>2, <1>3, EnqueueAdds
<1>4. CASE MarkProcessed \/ MarkFailed
  <2>1. /\ outbox' = [outbox EXCEPT ![current] = @ - 1]
        /\ wpc \in {"mark", "fail"}
        /\ wpc = "mark" \/ current \in failed'
    BY <1>4 DEF MarkProcessed, MarkFailed
  <2>2. current \in Event /\ Pending(current) /\ (wpc = "mark" => current \in sent)
    BY <2>1 DEF WorkerInv
  <2>3. \A e \in Event : Pending(e) /\ e # current => Pending(e)'
    BY <1>2, <2>1, <2>2, TakeOut
  <2>4. QED
    BY <1>1, <2>1, <2>2, <2>3
<1>5. ASSUME outbox' = outbox PROVE Goal
  BY <1>5 DEF Pending
<1>6. QED
  <2>1. Goal
    BY <1>3, <1>4, <1>5 DEF Next, Work, Check, Record, Age, SendAcknowledged, SendFails,
       LookAtTransaction, WorkerFails, LateDelivery, Store, ReadOpen, Settle,
       QueryPostgres, QueryClickHouse, QueueSyncEvents, CheckerFails, postgres, vars
  <2>2. QED
    BY <1>1, <2>1

(* An event for the row that is created with it.                           *)
Born(e) == /\ status[e.tx] = None /\ origin[e.tx] # "simulated"
           /\ e.says = FirstStatus(origin[e.tx]) /\ e.stamp = "emitted"
(* An event for an open row that is settled.                               *)
Settled(e) == e.tx \in found /\ e.says = "cleared" /\ e.stamp = "created_at"

(* Where the events that go round come from.                               *)
LEMMA FeedSteps ==
    ASSUME TypeOK, WorkerInv, [Next]_vars,
           NEW e \in TxEvent, (Circulating(e) \/ e \in toSync)'
    PROVE  \/ (Circulating(e) \/ e \in toSync) /\ (e \in toSync' => e \in toSync)
           \/ Born(e) /\ e \notin toSync' /\ status'[e.tx] # None
           \/ Settled(e) /\ e \notin toSync'
           \/ QueryClickHouse /\ e \in toSync'
<1> DEFINE Goal == \/ (Circulating(e) \/ e \in toSync) /\ (e \in toSync' => e \in toSync)
                   \/ Born(e) /\ e \notin toSync' /\ status'[e.tx] # None
                   \/ Settled(e) /\ e \notin toSync'
                   \/ QueryClickHouse /\ e \in toSync'
<1>1. e \in Event /\ outbox \in [Event -> 0 .. MaxCopies] /\ toSync \subseteq TxEvent
  BY EventParts DEF TypeOK
<1>2. Pending(e)' \/ e \in limbo' \/ e \in kafka' \/ e \in toSync'
  BY DEF Circulating
<1>3. ASSUME NEW t \in Tx, Record(t) PROVE Goal
  <2>1. CASE e \in EventsOf(t)
    <3>1. e.tx = t /\ e.says = FirstStatus(origin[t]) /\ e.stamp = "emitted"
          /\ origin[t] # "simulated"
      BY <2>1, EventsOfParts
    <3>2. Born(e) /\ toSync' = toSync
      BY <1>3, <3>1 DEF Record, Born, checker
    <3>3. status' = [status EXCEPT ![t] = FirstStatus(origin[t])]
      BY <1>3 DEF Record
    <3>4. status'[t] # None
      BY <3>3, FirstStatusIs DEF TypeOK
    <3>5. QED
      BY <3>1, <3>2, <3>4 DEF Circulating
  <2>2. CASE e \notin EventsOf(t)
    <3>1. Pending(e)' => Pending(e)
      BY <1>1, <1>3, <2>2, EnqueueAdds DEF Record
    <3>2. limbo' = limbo /\ kafka' = kafka /\ toSync' = toSync
      BY <1>3 DEF Record, pipeline, checker
    <3>3. QED
      BY <1>2, <3>1, <3>2 DEF Circulating
  <2>3. QED
    BY <2>1, <2>2
<1>4. CASE Settle
  <2>1. limbo' = limbo /\ kafka' = kafka /\ toSync' = toSync
    BY <1>4 DEF Settle, pipeline
  <2>2. CASE e \in {NewEvent(t, "cleared", "created_at") : t \in found}
    <3>1. PICK t \in found : e = NewEvent(t, "cleared", "created_at")
      BY <2>2
    <3>2. Settled(e)
      BY <3>1 DEF NewEvent, Settled
    <3>3. QED
      BY <2>1, <3>2 DEF Circulating
  <2>3. CASE e \notin {NewEvent(t, "cleared", "created_at") : t \in found}
    <3>1. Pending(e)' => Pending(e)
      BY <1>1, <1>4, <2>3, EnqueueAdds DEF Settle
    <3>2. QED
      BY <1>2, <2>1, <3>1 DEF Circulating
  <2>4. QED
    BY <2>2, <2>3
<1>5. CASE QueueSyncEvents
  <2>1. limbo' = limbo /\ kafka' = kafka /\ toSync' = {}
    BY <1>5 DEF QueueSyncEvents, pipeline
  <2>2. Pending(e)' => Pending(e) \/ e \in toSync
    BY <1>1, <1>5, EnqueueAdds DEF QueueSyncEvents
  <2>3. QED
    BY <1>2, <2>1, <2>2 DEF Circulating
<1>6. CASE MarkProcessed \/ MarkFailed
  <2>1. /\ outbox' = [outbox EXCEPT ![current] = @ - 1]
        /\ current \in Event /\ Pending(current)
        /\ limbo' = limbo /\ kafka' = kafka /\ toSync' = toSync
    BY <1>6 DEF MarkProcessed, MarkFailed, WorkerInv, pipeline, checker
  <2>2. Pending(e)' => Pending(e)
    BY <1>1, <2>1, TakeOut
  <2>3. QED
    BY <1>2, <2>1, <2>2 DEF Circulating
<1>7. CASE QueryClickHouse
  <2>1. outbox' = outbox /\ limbo' = limbo /\ kafka' = kafka
    BY <1>7 DEF QueryClickHouse, postgres, pipeline
  <2>2. QED
    BY <1>2, <1>7, <2>1 DEF Circulating, Pending
<1>8. ASSUME NEW f \in Event, SendAcknowledged(f) \/ SendFails(f) \/ LateDelivery(f) \/ Store(f)
      PROVE  Goal
  <2>1. /\ outbox' = outbox /\ toSync' = toSync
        /\ limbo' \subseteq limbo \cup {f} /\ kafka' \subseteq kafka \cup {f}
        /\ Pending(f) \/ f \in limbo \/ f \in kafka
    BY <1>8 DEF SendAcknowledged, SendFails, LateDelivery, Store, Deliver, postgres, checker
  <2>2. QED
    BY <1>2, <2>1 DEF Circulating, Pending
<1>9. CASE WorkerFails
  <2>1. /\ outbox' = outbox /\ toSync' = toSync /\ limbo' = limbo
        /\ kafka' \subseteq kafka \cup {f \in Event : Pending(f)}
    BY <1>9 DEF WorkerFails, Deliver, postgres, checker
  <2>2. QED
    BY <1>2, <2>1 DEF Circulating, Pending
<1>10. ASSUME outbox' = outbox, limbo' = limbo, kafka' = kafka, toSync' \subseteq toSync
       PROVE  Goal
  BY <1>2, <1>10 DEF Circulating, Pending
<1>11. QED
  <2>1. \A f \in TxEvent : f \in Event
    BY EventParts
  <2>2. Goal
    BY <1>3, <1>4, <1>5, <1>6, <1>7, <1>8, <1>9, <1>10, <2>1 DEF Next, Work, Check, Age,
       LookAtTransaction, ReadOpen, QueryPostgres, CheckerFails, postgres, pipeline,
       checker, vars
  <2>3. QED
    BY <2>2

(* What an event says was the status of its transaction, or will be what   *)
(* ClickHouse may be told of it, and only the events written with the row  *)
(* have the first timestamp.                                               *)
LEMMA EventStep == ASSUME IInv, [Next]_vars PROVE EventInv'
<1>1. TypeOK /\ StatusInv /\ FoundInv /\ WorkerInv /\ EventInv
  BY DEF IInv
<1>2. origin' = origin /\ origin \in [Tx -> Origins]
      /\ \A t \in Tx : status[t] # None => status'[t] # None
  BY <1>1, StatusSteps DEF TypeOK
<1>3. SUFFICES ASSUME NEW e \in TxEvent, (Circulating(e) \/ e \in toSync)'
               PROVE  /\ e.says \in Truth(e.tx)' /\ status'[e.tx] # None
                      /\ e.stamp = "emitted" => origin[e.tx] # "simulated" /\ e \notin toSync'
  BY <1>2 DEF EventInv
<1>4. e.tx \in Tx
  BY EventParts
<1>5. Truth(e.tx)' = Truth(e.tx)
  BY <1>2 DEF Truth
<1>6. CASE (Circulating(e) \/ e \in toSync) /\ (e \in toSync' => e \in toSync)
  BY <1>1, <1>2, <1>4, <1>5, <1>6 DEF EventInv
<1>7. CASE Born(e) /\ e \notin toSync' /\ status'[e.tx] # None
  BY <1>5, <1>7 DEF Born, Truth
<1>8. CASE Settled(e) /\ e \notin toSync'
  <2>1. e.tx \in found /\ e.says = "cleared" /\ e.stamp = "created_at"
    BY <1>8 DEF Settled
  <2>2. origin[e.tx] = "simulated" /\ status[e.tx] # None
    BY <1>1, <2>1 DEF FoundInv
  <2>3. QED
    BY <1>2, <1>4, <1>5, <2>1, <2>2 DEF Truth
<1>9. CASE QueryClickHouse /\ e \in toSync'
  <2>1. PICK t \in Tx : e = NewEvent(t, Effective(pgSaw[t]), "created_at") /\ pgSaw[t] # None
    BY <1>9 DEF QueryClickHouse, OutOfSync
  <2>2. e.tx = t /\ e.says = Effective(pgSaw[t]) /\ e.stamp = "created_at"
    BY <2>1 DEF NewEvent
  <2>3. FitsOrigin(t, pgSaw[t]) /\ status[t] # None
    BY <1>1, <2>1 DEF StatusInv
  <2>4. origin[t] # "simulated" => FirstStatus(origin[t]) \in {"cleared", "failed"}
    BY <1>2, FirstStatusIs DEF Final
  <2>5. Effective(pgSaw[t]) \in Truth(t)
    BY <2>1, <2>3, <2>4 DEF FitsOrigin, Truth, Effective
  <2>6. QED
    BY <1>2, <1>5, <2>2, <2>3, <2>5
<1>10. QED
  BY <1>1, <1>3, <1>6, <1>7, <1>8, <1>9, FeedSteps

(* ClickHouse changes only by storing a message.                           *)
LEMMA TableSteps ==
    ASSUME TypeOK, [Next]_vars, NEW t \in Tx, NEW s \in Stamp
    PROVE  \/ table'[t][s] = table[t][s]
           \/ \E e \in kafka : e.tx = t /\ e.stamp = s /\ table'[t][s] = e.says
<1>1. ASSUME NEW e \in Event, Store(e)
      PROVE  \/ table'[t][s] = table[t][s]
             \/ \E f \in kafka : f.tx = t /\ f.stamp = s /\ table'[t][s] = f.says
  <2>1. e \in kafka /\ table' = [table EXCEPT ![e.tx][e.stamp] = e.says]
    BY <1>1 DEF Store
  <2>2. table \in [Tx -> [Stamp -> Status]]
    BY DEF TypeOK
  <2>3. CASE e.tx = t /\ e.stamp = s
    BY <2>1, <2>2, <2>3
  <2>4. CASE ~ (e.tx = t /\ e.stamp = s)
    BY <2>1, <2>2, <2>4
  <2>5. QED
    BY <2>3, <2>4
<1>2. ASSUME table' = table PROVE table'[t][s] = table[t][s]
  BY <1>2
<1>3. QED
  BY <1>1, <1>2 DEF Next, Work, Check, Record, Age, SendAcknowledged, SendFails,
     LookAtTransaction, MarkProcessed, MarkFailed, WorkerFails, LateDelivery, ReadOpen,
     Settle, QueryPostgres, QueryClickHouse, QueueSyncEvents, CheckerFails, pipeline, vars

(* ClickHouse says nothing else.                                           *)
LEMMA TableStep == ASSUME IInv, [Next]_vars PROVE TableInv'
<1>1. TypeOK /\ FoundInv /\ WorkerInv /\ EventInv /\ TableInv
  BY DEF IInv
<1>2. origin' = origin /\ \A t \in Tx : status[t] # None => status'[t] # None
  BY <1>1, StatusSteps
<1>3. SUFFICES ASSUME NEW t \in Tx, NEW s \in Stamp, table'[t][s] # None
               PROVE  /\ table'[t][s] \in Truth(t)' /\ status'[t] # None
                      /\ s = "emitted" => origin[t] # "simulated"
  BY <1>2 DEF TableInv
<1>4. Truth(t)' = Truth(t)
  BY <1>2 DEF Truth
<1>5. CASE table'[t][s] = table[t][s]
  BY <1>1, <1>2, <1>3, <1>4, <1>5 DEF TableInv
<1>6. ASSUME NEW e \in kafka, e.tx = t, e.stamp = s, table'[t][s] = e.says
      PROVE  /\ table'[t][s] \in Truth(t)' /\ status'[t] # None
             /\ s = "emitted" => origin[t] # "simulated"
  <2>1. e \in TxEvent /\ Circulating(e)
    BY <1>1 DEF TypeOK, Circulating
  <2>2. QED
    BY <1>1, <1>2, <1>4, <1>6, <2>1 DEF EventInv
<1>7. QED
  BY <1>1, <1>5, <1>6, TableSteps

(* What is known of a transaction with anything on its way or stored.      *)
LEMMA FeedFacts ==
    ASSUME EventInv, TableInv, NEW t \in Tx, NEW s \in Stamp, InFeed(t, s)
    PROVE  status[t] # None /\ (s = "emitted" => origin[t] # "simulated")
  BY DEF EventInv, TableInv, InFeed

(* A timestamp that is new to a transaction comes with a new event.        *)
LEMMA NewInFeed ==
    ASSUME TypeOK, [Next]_vars, NEW t \in Tx, NEW s \in Stamp, InFeed(t, s)', ~ InFeed(t, s)
    PROVE  \E e \in TxEvent : /\ e.tx = t /\ e.stamp = s
                              /\ (Circulating(e) \/ e \in toSync)'
                              /\ ~ (Circulating(e) \/ e \in toSync)
<1>1. table'[t][s] = None
  <2>1. table[t][s] = None
    BY DEF InFeed
  <2>2. kafka \subseteq TxEvent
    BY DEF TypeOK
  <2>3. ~ \E e \in kafka : e.tx = t /\ e.stamp = s
    BY <2>2 DEF InFeed, Circulating
  <2>4. QED
    BY <2>1, <2>3, TableSteps
<1>2. \E e \in TxEvent : e.tx = t /\ e.stamp = s /\ (Circulating(e) \/ e \in toSync)'
  BY <1>1 DEF InFeed
<1>3. QED
  BY <1>2 DEF InFeed

(* The daily check repeats a transaction that has an event of its own only *)
(* if ClickHouse does not report it yet: then that event is on its way.    *)
LEMMA MissedIsRaced ==
    ASSUME TypeOK, StatusInv, EventInv, TableInv, QueryClickHouse,
           NEW e \in TxEvent, e \in toSync', InFeed(e.tx, "emitted"),
           origin[e.tx] # "simulated"
    PROVE  e.tx \in raced'
<1>1. PICK chSaw \in [Tx -> Status] :
          /\ \A t \in Tx : IF Reported(t) = {} THEN chSaw[t] = None
                           ELSE chSaw[t] \in Reported(t)
          /\ toSync' = {NewEvent(t, Effective(pgSaw[t]), "created_at") :
                          t \in {u \in Tx : OutOfSync(pgSaw[u], chSaw[u])}}
  BY DEF QueryClickHouse
<1>2. PICK t \in Tx : /\ e = NewEvent(t, Effective(pgSaw[t]), "created_at")
                     /\ OutOfSync(pgSaw[t], chSaw[t])
  BY <1>1
<1>3. e.tx = t
  BY <1>2 DEF NewEvent
<1>4. pgSaw[t] # None /\ chSaw[t] # Effective(pgSaw[t])
  BY <1>2 DEF OutOfSync
<1>5. CASE Reported(t) = {}
  <2>1. table[t]["emitted"] = None
    BY <1>5 DEF Reported, Stamp
  <2>2. PICK f \in TxEvent : /\ f.tx = t /\ f.stamp = "emitted"
                             /\ (Circulating(f) \/ f \in toSync)
    BY <1>3, <2>1 DEF InFeed
  <2>3. Circulating(f)
    BY <2>2 DEF EventInv
  <2>4. OnItsWay(t)
    BY <2>2, <2>3 DEF OnItsWay, Circulating
  <2>5. QED
    BY <1>3, <1>4, <1>5, <2>4 DEF QueryClickHouse
<1>6. CASE Reported(t) # {}
  <2>1. chSaw[t] \in Reported(t)
    BY <1>1, <1>6
  <2>2. chSaw[t] = FirstStatus(origin[t])
    BY <1>3, <2>1 DEF Reported, TableInv, Truth
  <2>3. pgSaw[t] = FirstStatus(origin[t])
    BY <1>3, <1>4 DEF StatusInv, FitsOrigin
  <2>4. FirstStatus(origin[t]) \in {"cleared", "failed"}
    BY <1>3, FirstStatusIs DEF TypeOK, Final
  <2>5. QED
    BY <1>4, <2>2, <2>3, <2>4 DEF Effective
<1>7. QED
  BY <1>5, <1>6

(* A transaction that is about to have both timestamps in ClickHouse was   *)
(* found missing while its own event was on its way: the settlement writes *)
(* events only for rows that have none of their own, and the daily check   *)
(* does not repeat what ClickHouse reports correctly.                      *)
LEMMA RaceStep == ASSUME IInv, [Next]_vars PROVE RaceInv'
<1>1. TypeOK /\ StatusInv /\ FoundInv /\ WorkerInv /\ EventInv /\ TableInv /\ RaceInv
  BY DEF IInv
<1>2. raced \subseteq raced' /\ origin \in [Tx -> Origins]
  BY <1>1, PendingSteps DEF TypeOK
<1>3. "emitted" \in Stamp /\ "created_at" \in Stamp
  BY DEF Stamp
<1>4. SUFFICES ASSUME NEW t \in Tx, InFeed(t, "emitted")', InFeed(t, "created_at")'
               PROVE  t \in raced'
  BY DEF RaceInv
<1>5. CASE InFeed(t, "emitted") /\ InFeed(t, "created_at")
  BY <1>1, <1>2, <1>5 DEF RaceInv
<1>6. CASE ~ InFeed(t, "emitted")
  <2>1. PICK e \in TxEvent : /\ e.tx = t /\ e.stamp = "emitted"
                             /\ (Circulating(e) \/ e \in toSync)'
                             /\ ~ (Circulating(e) \/ e \in toSync)
    BY <1>1, <1>3, <1>4, <1>6, NewInFeed
  <2>2. Born(e)
    <3>1. ~ Settled(e)
      BY <2>1 DEF Settled
    <3>2. ASSUME QueryClickHouse, e \in toSync' PROVE FALSE
      BY <2>1, <3>2 DEF QueryClickHouse, NewEvent
    <3>3. QED
      BY <1>1, <2>1, <3>1, <3>2, FeedSteps
  <2>3. status[t] = None
    BY <2>1, <2>2 DEF Born
  <2>4. ~ InFeed(t, "created_at")
    BY <1>1, <1>3, <2>3, FeedFacts
  <2>5. PICK f \in TxEvent : /\ f.tx = t /\ f.stamp = "created_at"
                             /\ (Circulating(f) \/ f \in toSync)'
                             /\ ~ (Circulating(f) \/ f \in toSync)
    BY <1>1, <1>3, <1>4, <2>4, NewInFeed
  <2>6. ~ Born(f)
    BY <2>5 DEF Born
  <2>7. ~ Settled(f)
    BY <1>1, <2>3, <2>5 DEF Settled, FoundInv
  <2>8. ASSUME QueryClickHouse, f \in toSync' PROVE FALSE
    <3>1. PICK u \in Tx : f = NewEvent(u, Effective(pgSaw[u]), "created_at") /\ pgSaw[u] # None
      BY <2>8 DEF QueryClickHouse, OutOfSync
    <3>2. u = t
      BY <2>5, <3>1 DEF NewEvent
    <3>3. QED
      BY <1>1, <2>3, <3>1, <3>2 DEF StatusInv
  <2>9. QED
    BY <1>1, <2>5, <2>6, <2>7, <2>8, FeedSteps
<1>7. CASE InFeed(t, "emitted") /\ ~ InFeed(t, "created_at")
  <2>1. PICK e \in TxEvent : /\ e.tx = t /\ e.stamp = "created_at"
                             /\ (Circulating(e) \/ e \in toSync)'
                             /\ ~ (Circulating(e) \/ e \in toSync)
    BY <1>1, <1>3, <1>4, <1>7, NewInFeed
  <2>2. origin[t] # "simulated"
    BY <1>1, <1>3, <1>7, FeedFacts
  <2>3. ~ Born(e) /\ ~ Settled(e)
    BY <1>1, <2>1, <2>2 DEF Born, Settled, FoundInv
  <2>4. QueryClickHouse /\ e \in toSync'
    BY <1>1, <2>1, <2>3, FeedSteps
  <2>5. QED
    BY <1>1, <1>7, <2>1, <2>2, <2>4, MissedIsRaced
<1>8. QED
  BY <1>5, <1>6, <1>7

-----------------------------------------------------------------------------
(* The worker and the outbox.                                              *)

(* The event the worker is at stays pending, because only the worker takes *)
(* events out; it goes on to the commit only with an event it has sent;    *)
(* and a status it found open belongs to simulated traffic.                *)
LEMMA WorkerStep == ASSUME IInv, [Next]_vars PROVE WorkerInv'
<1>1. TypeOK /\ StatusInv /\ FoundInv /\ WorkerInv
  BY DEF IInv
<1>2. /\ origin' = origin /\ origin \in [Tx -> Origins]
      /\ \A t \in Tx : status[t] # None => status'[t] # None
  BY <1>1, StatusSteps DEF TypeOK
<1>3. None \notin Open
  BY OutboxAssumption DEF OutboxAssumption, Open
<1>4. ASSUME NEW e \in Event, SendAcknowledged(e) \/ SendFails(e) PROVE WorkerInv'
  <2>1. /\ current' = e /\ Pending(e)' /\ heard' = heard /\ wpc = "idle"
        /\ \/ wpc' = "fail"
           \/ e \in sent' /\ wpc' = (IF e \in TxEvent THEN "look" ELSE "mark")
    BY <1>4 DEF SendAcknowledged, SendFails, Deliver, postgres, Pending
  <2>2. heard' \notin Open
    BY <1>1, <1>3, <2>1 DEF WorkerInv
  <2>3. QED
    BY <2>1, <2>2 DEF WorkerInv, Pending
<1>5. CASE LookAtTransaction
  <2>1. /\ current' = current /\ wpc = "look" /\ wpc' = "mark" /\ sent' = sent
        /\ outbox' = outbox /\ status' = status /\ heard' = status[current.tx]
    BY <1>5 DEF LookAtTransaction, postgres, history
  <2>2. current \in TxEvent /\ current \in Event /\ Pending(current) /\ current \in sent
    BY <1>1, <2>1 DEF WorkerInv
  <2>3. ASSUME heard' \in Open
        PROVE  origin[current.tx] = "simulated" /\ status[current.tx] # None
    <3>1. current.tx \in Tx
      BY <2>2, EventParts
    <3>2. FitsOrigin(current.tx, status[current.tx])
      BY <1>1, <3>1 DEF StatusInv
    <3>3. origin[current.tx] # "simulated" => FirstStatus(origin[current.tx]) \in Final
      BY <1>2, <3>1, FirstStatusIs
    <3>4. QED
      BY <1>3, <2>1, <2>3, <3>2, <3>3 DEF FitsOrigin, Open, Final
  <2>4. QED
    BY <1>2, <2>1, <2>2, <2>3 DEF WorkerInv, Pending
<1>6. CASE MarkProcessed \/ MarkFailed \/ WorkerFails
  <2>1. wpc' = "idle" /\ current' = None /\ heard' = None
    BY <1>6 DEF MarkProcessed, MarkFailed, WorkerFails, Proceed
  <2>2. QED
    BY <1>3, <2>1 DEF WorkerInv
<1>7. ASSUME UNCHANGED worker, outbox' = outbox \/ \E events : Enqueue(events)
      PROVE  WorkerInv'
  <2>1. \A e \in Event : Pending(e) => Pending(e)'
    BY <1>1, <1>7, EnqueueAdds DEF TypeOK, Pending
  <2>2. wpc' = wpc /\ current' = current /\ heard' = heard
    BY <1>7 DEF worker
  <2>3. sent \subseteq sent'
    BY <1>1, PendingSteps
  <2>4. \A e \in TxEvent : e.tx \in Tx
    BY EventParts
  <2>5. QED
    BY <1>1, <1>2, <2>1, <2>2, <2>3, <2>4 DEF WorkerInv
<1>8. QED
  BY <1>4, <1>5, <1>6, <1>7 DEF Next, Work, Check, Record, Age, LateDelivery, Store, ReadOpen,
     Settle, QueryPostgres, QueryClickHouse, QueueSyncEvents, CheckerFails, postgres, worker, vars

(* A row comes into being with its events.                                 *)
LEMMA RecordedOnly ==
    ASSUME TypeOK, FoundInv, WorkerInv, [Next]_vars,
           NEW t \in Tx, status[t] = None, status'[t] # None
    PROVE  Record(t)
<1>1. status \in [Tx -> Status]
  BY DEF TypeOK
<1>2. ASSUME NEW u \in Tx, Record(u) PROVE u = t
  <2>1. status' = [status EXCEPT ![u] = FirstStatus(origin[u])]
    BY <1>2 DEF Record
  <2>2. QED
    BY <1>1, <2>1
<1>3. ASSUME MarkProcessed PROVE FALSE
  <2>1. heard \in Open
    BY <1>3 DEF MarkProcessed
  <2>2. status' = [status EXCEPT ![current.tx] = "processing"] /\ status[current.tx] # None
    BY <1>3, <2>1 DEF MarkProcessed, WorkerInv
  <2>3. QED
    BY <1>1, <2>2
<1>4. ASSUME Settle PROVE FALSE
  BY <1>1, <1>4 DEF Settle, FoundInv
<1>5. status' # status
  OBVIOUS
<1>6. QED
  BY <1>2, <1>3, <1>4, <1>5 DEF Next, Work, Check, Age, SendAcknowledged, SendFails,
     LookAtTransaction, MarkFailed, WorkerFails, LateDelivery, Store, ReadOpen,
     QueryPostgres, QueryClickHouse, QueueSyncEvents, CheckerFails, postgres, vars

(* An event leaves the outbox only when it is known to be sent or marked   *)
(* failed.                                                                 *)
LEMMA VanishStep == ASSUME IInv, [Next]_vars PROVE NoEventVanishes'
<1>1. TypeOK /\ FoundInv /\ WorkerInv /\ NoEventVanishes
  BY DEF IInv
<1>2. origin' = origin
  BY <1>1, StatusSteps
<1>3. \A t \in Tx : EventsOf(t)' = EventsOf(t) /\ EventsOf(t) \subseteq Event
  BY <1>1, <1>2, EventsOfParts DEF EventsOf
<1>4. SUFFICES ASSUME NEW t \in Tx, status'[t] # None, NEW e \in EventsOf(t)
               PROVE  Pending(e)' \/ e \in sent' \cup failed'
  BY <1>3 DEF NoEventVanishes
<1>5. e \in Event
  BY <1>3
<1>6. CASE status[t] # None
  <2>1. Pending(e) \/ e \in sent \cup failed
    BY <1>1, <1>6 DEF NoEventVanishes
  <2>2. QED
    BY <1>1, <1>5, <2>1, PendingSteps
<1>7. CASE status[t] = None
  <2>1. Record(t)
    BY <1>1, <1>4, <1>7, RecordedOnly
  <2>2. QED
    BY <1>1, <1>5, <2>1, EnqueueAdds DEF Record, TypeOK
<1>8. QED
  BY <1>6, <1>7

-----------------------------------------------------------------------------
(* The invariant is inductive.                                             *)
LEMMA InvStep == ASSUME IInv, [Next]_vars PROVE IInv'
<1>1. TypeOK /\ StatusInv /\ FoundInv /\ WorkerInv
  BY DEF IInv
<1>2. TypeOK' /\ StatusInv' /\ FoundInv'
  BY <1>1, TypeStep, StatusStep, FoundStep
<1>3. WorkerInv' /\ EventInv' /\ TableInv' /\ RaceInv' /\ NoEventVanishes'
  BY WorkerStep, EventStep, TableStep, RaceStep, VanishStep
<1>4. QED
  BY <1>2, <1>3 DEF IInv

LEMMA Invariant == Spec => []IInv
  BY InitInv, InvStep, PTL DEF Spec

(* Every reachable state of the outbox and of its readers is of its type.  *)
THEOREM TypeCorrect == Spec => []TypeOK
<1>1. IInv => TypeOK
  BY DEF IInv
<1>2. QED
  BY <1>1, Invariant, PTL

(* ClickHouse never reports a status that is not the transaction's         *)
(* (outbox_service.py:86-104, sync_checker.py:28-77).                      *)
THEOREM ReportsAreTrue == Spec => []ReportIsTrue
<1>1. IInv => ReportIsTrue
  BY DEF IInv, TableInv, Truth, Reported, ReportIsTrue
<1>2. QED
  BY <1>1, Invariant, PTL

(* No event leaves the outbox without being sent or marked failed          *)
(* (outbox_service.py:76-126).                                             *)
THEOREM NothingVanishes == Spec => []NoEventVanishes
<1>1. IInv => NoEventVanishes
  BY DEF IInv
<1>2. QED
  BY <1>1, Invariant, PTL

(* A transaction is counted twice only if the daily check found it missing *)
(* while its event was on its way (sync_checker.py:71-91).                 *)
THEOREM CountedTwiceNeedsRace == Spec => []CountedTwiceOnlyIfRaced
<1>1. IInv => CountedTwiceOnlyIfRaced
  BY DEF IInv, RaceInv, InFeed, CountedTwiceOnlyIfRaced
<1>2. QED
  BY <1>1, Invariant, PTL

(* A transaction that was final from the start keeps its status            *)
(* (outbox_service.py:98-101, sync_checker.py:19-30).                      *)
THEOREM FinalFromTheStart == Spec => BornFinalStays
<1>1. ASSUME IInv, [Next]_vars
      PROVE  \A t \in Tx : origin[t] # "simulated" /\ status[t] # None => status'[t] = status[t]
  <2>1. TypeOK /\ FoundInv /\ WorkerInv
    BY <1>1 DEF IInv
  <2>2. QED
    BY <1>1, <2>1, StatusSteps
<1>2. QED
  BY <1>1, Invariant, PTL DEF Spec, BornFinalStays
=============================================================================
