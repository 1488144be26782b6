------------------------------- MODULE Outbox -------------------------------
(***************************************************************************)
(* How a transaction row reaches ClickHouse, and what happens to its       *)
(* status meanwhile: the transactional outbox (services/event_emitter.py,  *)
(* outbox_worker.py, outbox_service.py), the settlement and reconciliation *)
(* process (sync_checker.py), and the Kafka consumer reduced to what       *)
(* module Consumer shows of it: a message arrives, in any order, possibly  *)
(* again after a crash.                                                    *)
(*                                                                         *)
(* The worker and the checker are two processes on one database at READ    *)
(* COMMITTED.  Both read a status, wait, and write a status; neither locks *)
(* the row.  The worker reads after the message is sent and writes with    *)
(* the commit that marks the event; the checker reads all open rows at     *)
(* once and writes them with one commit.                                   *)
(*                                                                         *)
(* Events that are processed or failed are never looked at again, so only  *)
(* the pending rows of the outbox are kept, as a number of copies of each  *)
(* event.  Only the worker changes rows of the outbox, one after the       *)
(* other: which of them it fetched together does not matter.               *)
(***************************************************************************)
EXTENDS Integers, FiniteSets

CONSTANTS Tx,         \* transactions
          Origins,    \* the ways a transaction can come into being
          MaxCopies,  \* bound: identical outbox rows pending at the same time
          MaxFaults,  \* bound: failed sends, failed commits, crashes
          None

ASSUME OutboxAssumption ==
    /\ Origins \subseteq {"payment", "refused", "internal", "simulated"}
    /\ MaxCopies \in Nat \ {0}
    /\ MaxFaults \in Nat
    /\ None \notin {"sent_to_kafka", "processing", "cleared", "failed"}

(* How a transaction comes into being: by emit_transactional_event with    *)
(* the status cleared or failed, by an internal transfer (no event for the *)
(* transaction itself), by the traffic simulation of the admin page (no    *)
(* event at all, and the only status that is not final).                   *)
FirstStatus(o) == CASE o = "refused" -> "failed"
                    [] o = "simulated" -> "sent_to_kafka"
                    [] OTHER -> "cleared"

Open == {"sent_to_kafka", "processing"}
Final == {"cleared", "failed"}

(* An event carries the status of the row when it was written and one of   *)
(* two timestamps: the one taken when the event was emitted, or the row's  *)
(* created_at.  ClickHouse replaces rows that agree in the timestamp.      *)
Stamp == {"emitted", "created_at"}
TxEvent == [topic : {"transactions"}, tx : Tx, says : Open \cup Final, stamp : Stamp]
ActivityEvent == [topic : {"activity"}, tx : Tx]
Event == TxEvent \cup ActivityEvent

NewEvent(t, s, stamp) == [topic |-> "transactions", tx |-> t, says |-> s, stamp |-> stamp]
NewActivity(t) == [topic |-> "activity", tx |-> t]

VARIABLES
    \* Postgres
    origin,     \* how each transaction comes into being
    status,     \* transactions.status, None before the row exists
    old,        \* rows older than 45 seconds
    outbox,     \* the number of pending rows with an event
    \* outbox worker
    wpc,        \* "idle", "look", "mark" or "fail"
    current,    \* the event being processed
    heard,      \* the status read after the message was sent
    \* Kafka and ClickHouse
    limbo,      \* messages given up after a timeout, that may still arrive
    kafka,      \* messages about transactions that are not yet stored
    table,      \* per transaction and timestamp, the status in ClickHouse
    \* sync checker
    spc,        \* "sleep", "settle", "query", "compare" or "emit"
    daily,      \* the settlement is the first part of run_sync_check
    found,      \* open rows read
    pgSaw,      \* status of each row read
    toSync,     \* events to be queued
    \* history
    sent,       \* messages ever sent
    failed,     \* events marked failed
    raced,      \* transactions found missing while an event was on its way
    faults

postgres == <<origin, status, old, outbox>>
worker == <<wpc, current, heard>>
pipeline == <<limbo, kafka, table>>
checker == <<spc, daily, found, pgSaw, toSync>>
history == <<sent, failed, raced>>
vars == <<origin, status, old, outbox, wpc, current, heard, limbo, kafka, table,
          spc, daily, found, pgSaw, toSync, sent, failed, raced, faults>>

Status == {None} \cup Open \cup Final

TypeOK ==
    /\ origin \in [Tx -> Origins]
    /\ status \in [Tx -> Status]
    /\ old \subseteq Tx
    /\ outbox \in [Event -> 0 .. MaxCopies]
    /\ wpc \in {"idle", "look", "mark", "fail"}
    /\ current \in Event \cup {None}
    /\ heard \in Status
    /\ limbo \subseteq Event
    /\ kafka \subseteq TxEvent
    /\ table \in [Tx -> [Stamp -> Status]]
    /\ spc \in {"sleep", "settle", "query", "compare", "emit"}
    /\ daily \in BOOLEAN
    /\ found \subseteq Tx
    /\ pgSaw \in [Tx -> Status]
    /\ toSync \subseteq TxEvent
    /\ sent \subseteq Event
    /\ failed \subseteq Event
    /\ raced \subseteq Tx
    /\ faults \in 0 .. MaxFaults

Fault == faults < MaxFaults /\ faults' = faults + 1

Pending(e) == outbox[e] > 0

(* What a query for the status of t can answer.                            *)
Reported(t) == {table[t][s] : s \in Stamp} \ {None}

Init ==
    /\ origin \in [Tx -> Origins]
    /\ status = [t \in Tx |-> None]
    /\ old = {}
    /\ outbox = [e \in Event |-> 0]
    /\ wpc = "idle"
    /\ current = None
    /\ heard = None
    /\ limbo = {}
    /\ kafka = {}
    /\ table = [t \in Tx |-> [s \in Stamp |-> None]]
    /\ spc = "sleep"
    /\ daily = FALSE
    /\ found = {}
    /\ pgSaw = [t \in Tx |-> None]
    /\ toSync = {}
    /\ sent = {}
    /\ failed = {}
    /\ raced = {}
    /\ faults = 0

-----------------------------------------------------------------------------
(* The request handlers.                                                   *)

(* INSERT INTO outbox, one row for each event.                             *)
Enqueue(events) ==
    /\ \A e \in events : outbox[e] < MaxCopies
    /\ outbox' = [e \in Event |-> IF e \in events THEN outbox[e] + 1 ELSE outbox[e]]

EventsOf(t) ==
    CASE origin[t] \in {"payment", "refused"} ->
             {NewEvent(t, FirstStatus(origin[t]), "emitted"), NewActivity(t)}
      [] origin[t] = "internal" -> {NewActivity(t)}
      [] OTHER -> {}

(* The row and its events are committed together.                          *)
Record(t) ==
    /\ status[t] = None
    /\ status' = [status EXCEPT ![t] = FirstStatus(origin[t])]
    /\ Enqueue(EventsOf(t))
    /\ UNCHANGED <<origin, old, worker, pipeline, checker, history, faults>>

(* 45 seconds pass.                                                        *)
Age(t) ==
    /\ status[t] # None
    /\ t \notin old
    /\ old' = old \cup {t}
    /\ UNCHANGED <<origin, status, outbox, worker, pipeline, checker, history, faults>>

-----------------------------------------------------------------------------
(* The outbox worker.                                                      *)

Deliver(events) ==
    /\ sent' = sent \cup events
    /\ kafka' = kafka \cup (events \cap TxEvent)

(* Mutant: send() instead of send_and_wait().                              *)
SendAcknowledged_NotAwaited(e) ==
    /\ wpc = "idle"
    /\ Pending(e)
    /\ current' = e
    /\ limbo' = limbo \cup {e}
    /\ wpc' = IF e \in TxEvent THEN "look" ELSE "mark"
    /\ UNCHANGED <<postgres, heard, kafka, table, checker, history, faults>>

(* send_and_wait for a pending event: the broker acknowledged.  Only       *)
(* events about a transaction go on to look at its row.                    *)
SendAcknowledged(e) ==
    /\ wpc = "idle"
    /\ Pending(e)
    /\ current' = e
    /\ Deliver({e})
    /\ wpc' = IF e \in TxEvent THEN "look" ELSE "mark"
    /\ UNCHANGED <<postgres, heard, limbo, table, checker, failed, raced, faults>>

(* No acknowledgement in time, or an error.                                *)
SendFails(e) ==
    /\ wpc = "idle"
    /\ Pending(e)
    /\ current' = e
    /\ limbo' = limbo \cup {e}
    /\ wpc' = "fail"
    /\ Fault
    /\ UNCHANGED <<postgres, heard, kafka, table, checker, history>>

(* SELECT the transaction of the event.                                    *)
LookAtTransaction ==
    /\ wpc = "look"
    /\ heard' = status[current.tx]
    /\ wpc' = "mark"
    /\ UNCHANGED <<postgres, current, pipeline, checker, history, faults>>

(* The worker turns to the next event.                                     *)
Proceed ==
    /\ wpc' = "idle"
    /\ current' = None
    /\ heard' = None

(* Mutant: the status of the row is not looked at.                         *)
MarkProcessed_Always ==
    /\ wpc = "mark"
    /\ outbox' = [outbox EXCEPT ![current] = @ - 1]
    /\ status' = IF current \in TxEvent THEN [status EXCEPT ![current.tx] = "processing"]
                 ELSE status
    /\ Proceed
    /\ UNCHANGED <<origin, old, pipeline, checker, history, faults>>

(* Commit: the event is processed, and a transaction that was open when it *)
(* was looked at is processing.                                            *)
MarkProcessed ==
    /\ wpc = "mark"
    /\ outbox' = [outbox EXCEPT ![current] = @ - 1]
    /\ status' = IF heard \in Open THEN [status EXCEPT ![current.tx] = "processing"]
                 ELSE status
    /\ Proceed
    /\ UNCHANGED <<origin, old, pipeline, checker, history, faults>>

(* _fail_event: the event is never pending again.  The message for the     *)
(* dead letter topic, which nobody reads, is not modelled.                 *)
MarkFailed ==
    /\ wpc = "fail"
    /\ outbox' = [outbox EXCEPT ![current] = @ - 1]
    /\ failed' = failed \cup {current}
    /\ Proceed
    /\ UNCHANGED <<origin, status, old, pipeline, checker, sent, raced, faults>>

(* The commit fails, or the worker is restarted.  A session whose commit   *)
(* failed refuses every later statement of its batch: the messages of the  *)
(* batch may still be sent, but none of its events is marked.              *)
WorkerFails ==
    /\ wpc # "idle"
    /\ Fault
    /\ \E events \in SUBSET {e \in Event : Pending(e)} : Deliver(events)
    /\ Proceed
    /\ UNCHANGED <<postgres, limbo, table, checker, failed, raced>>

-----------------------------------------------------------------------------
(* Consumer and ClickHouse.                                                *)

(* The producer gets a message through after the worker gave it up.        *)
LateDelivery(e) ==
    /\ e \in limbo
    /\ limbo' = limbo \ {e}
    /\ Deliver({e})
    /\ UNCHANGED <<postgres, worker, table, checker, failed, raced, faults>>

(* A message is stored.  If the consumer crashes before it commits its     *)
(* offsets, the message is read again.                                     *)
Store(e) ==
    /\ e \in kafka
    /\ table' = [table EXCEPT ![e.tx][e.stamp] = e.says]
    /\ \/ kafka' = kafka \ {e} /\ UNCHANGED faults
       \/ UNCHANGED kafka /\ Fault
    /\ UNCHANGED <<postgres, worker, limbo, checker, history>>

-----------------------------------------------------------------------------
(* The sync checker.                                                       *)

(* Mutants: rows the worker has set to processing are not settled; every   *)
(* row that is old enough is.                                              *)
Unsettled_NotProcessing(t) == t \in old /\ status[t] = "sent_to_kafka"
Unsettled_Any(t) == t \in old
Unsettled(t) == t \in old /\ status[t] \in Open

(* auto_settle_transactions reads the open rows that are old enough: every *)
(* 15 seconds, and at the start of the daily run_sync_check.               *)
ReadOpen(d) ==
    /\ spc = "sleep"
    /\ found' = {t \in Tx : Unsettled(t)}
    /\ d \/ found' # {}
    /\ spc' = "settle"
    /\ daily' = d
    /\ UNCHANGED <<postgres, worker, pipeline, pgSaw, toSync, history, faults>>

(* ... and commits them as cleared, each with an event.                    *)
Settle ==
    /\ spc = "settle"
    /\ status' = [t \in Tx |-> IF t \in found THEN "cleared" ELSE status[t]]
    /\ Enqueue({NewEvent(t, "cleared", "created_at") : t \in found})
    /\ found' = {}
    /\ spc' = IF daily THEN "query" ELSE "sleep"
    /\ UNCHANGED <<origin, old, worker, pipeline, daily, pgSaw, toSync, history, faults>>

(* run_sync_check reads the transactions of the last seven days.           *)
QueryPostgres ==
    /\ spc = "query"
    /\ pgSaw' = status
    /\ spc' = "compare"
    /\ UNCHANGED <<postgres, worker, pipeline, daily, found, toSync, history, faults>>

(* Mutant: whatever is not in flight counts as cleared.                    *)
Effective_FailedToo(s) == IF s = "processing" THEN s ELSE "cleared"
Effective(s) == IF s \in {"cleared", "sent_to_kafka"} THEN "cleared" ELSE s

(* Mutants: every row is queued; only the ones ClickHouse does not know;   *)
(* only the ones it knows; or also what Postgres does not have.            *)
OutOfSync_NoRow(pg, ch) == ch = None \/ ch # Effective(pg)
OutOfSync_Always(pg, ch) == pg # None
OutOfSync_OnlyMissing(pg, ch) == pg # None /\ ch = None
OutOfSync_OnlyKnown(pg, ch) == pg # None /\ ch # None /\ ch # Effective(pg)
(* A transaction that is missing in ClickHouse or has another status there *)
(* is queued again.                                                        *)
OutOfSync(pg, ch) == pg # None /\ ch # Effective(pg)

(* An event about t that is not yet in ClickHouse.                         *)
OnItsWay(t) == \E e \in TxEvent : e.tx = t /\ (e \in kafka \cup limbo \/ Pending(e))

(* ... and what ClickHouse knows of them.                                  *)
QueryClickHouse ==
    /\ spc = "compare"
    /\ \E chSaw \in [Tx -> Status] :
          /\ \A t \in Tx : IF Reported(t) = {} THEN chSaw[t] = None
                           ELSE chSaw[t] \in Reported(t)
          /\ toSync' = {NewEvent(t, Effective(pgSaw[t]), "created_at") :
                          t \in {u \in Tx : OutOfSync(pgSaw[u], chSaw[u])}}
    /\ raced' = raced \cup {t \in Tx : pgSaw[t] # None /\ Reported(t) = {} /\ OnItsWay(t)}
    /\ pgSaw' = [t \in Tx |-> None]
    /\ spc' = "emit"
    /\ UNCHANGED <<postgres, worker, pipeline, daily, found, sent, failed, faults>>

QueueSyncEvents ==
    /\ spc = "emit"
    /\ Enqueue(toSync)
    /\ toSync' = {}
    /\ spc' = "sleep"
    /\ daily' = FALSE
    /\ UNCHANGED <<origin, status, old, worker, pipeline, found, pgSaw, history, faults>>

(* A crash or an exception: nothing is committed, the next round begins.   *)
CheckerFails ==
    /\ spc # "sleep"
    /\ Fault
    /\ spc' = "sleep"
    /\ found' = {}
    /\ toSync' = {}
    /\ pgSaw' = [t \in Tx |-> None]
    /\ daily' = FALSE
    /\ UNCHANGED <<postgres, worker, pipeline, history>>

-----------------------------------------------------------------------------
Work ==
    \/ \E e \in Event : SendAcknowledged(e)
    \/ LookAtTransaction
    \/ MarkProcessed
    \/ MarkFailed

Check ==
    \/ ReadOpen(FALSE)
    \/ Settle
    \/ QueryPostgres
    \/ QueryClickHouse
    \/ QueueSyncEvents

Next ==
    \/ \E t \in Tx : Record(t) \/ Age(t)
    \/ Work
    \/ WorkerFails
    \/ \E e \in Event : SendFails(e) \/ LateDelivery(e) \/ Store(e)
    \/ Check
    \/ ReadOpen(TRUE)
    \/ CheckerFails

Spec == Init /\ [][Next]_vars

(* The loops of the worker, the checker and the consumer run on; the check *)
(* comes round every 24 hours, whatever the settlement does in between;    *)
(* time passes.  A message in limbo need not arrive, and which of the      *)
(* pending events is sent next, or which message stored, is left open.     *)
Fairness ==
    /\ WF_vars(Work)
    /\ WF_vars(Check)
    /\ SF_vars(ReadOpen(TRUE))
    /\ WF_vars(\E e \in TxEvent : Store(e))
    /\ WF_vars(\E t \in Tx : Age(t))

FairSpec == Spec /\ Fairness

-----------------------------------------------------------------------------
(* A transaction that was final from the start keeps its status: neither   *)
(* the worker (outbox_service.py:100) nor the settlement touches it.       *)
BornFinalStays ==
    [][\A t \in Tx : origin[t] # "simulated" /\ status[t] # None
                         => status'[t] = status[t]]_vars

(* Events reach ClickHouse in any order, some of them late, some written   *)
(* from a status that was read a while ago, but a refused payment is never *)
(* reported as anything but failed, and a cleared one never as failed.     *)
ReportIsTrue ==
    \A t \in Tx :
        Reported(t) \subseteq
            IF origin[t] = "simulated" THEN {"cleared", "processing"}
            ELSE {FirstStatus(origin[t])}

(* An event that is no longer pending was sent, or was marked failed       *)
(* because a send failed: a crash between send and commit loses nothing.   *)
NoEventVanishes ==
    \A t \in Tx : status[t] # None =>
        \A e \in EventsOf(t) : Pending(e) \/ e \in sent \cup failed

(* ClickHouse holds two rows for one transaction, so that sums count it    *)
(* twice, only if a daily check found it missing while an event about it   *)
(* was still on its way.                                                   *)
CountedTwiceOnlyIfRaced ==
    \A t \in Tx : table[t]["emitted"] # None /\ table[t]["created_at"] # None
                      => t \in raced

(* Every transaction reaches ClickHouse, with or without events of its     *)
(* own, in spite of failed sends, failed commits and crashes.              *)
EveryTransactionReported ==
    \A t \in Tx : status[t] # None ~> Reported(t) # {}

(* An open transaction is cleared in the end, and cleared again whenever   *)
(* the worker sets it back to processing.                                  *)
OpenIsCleared == \A t \in Tx : status[t] \in Open ~> status[t] = "cleared"

(* Once a status stays, ClickHouse ends up with it and nothing else,       *)
(* whatever was lost or overtaken before.                                  *)
ReportConverges ==
    \A t \in Tx : \A s \in Final :
        <>[](status[t] = s) => <>[](Reported(t) = {s})

(* "Guarantees event delivery to Kafka" (README.md:23).                    *)
EveryEventIsSent ==
    \A e \in Event : Pending(e) ~> e \in sent

(* "already cleared or settled transactions are never overwritten or       *)
(* downgraded to internal Kafka states" (design document of the settlement *)
(* engine, line 155).                                                      *)
ClearedStays ==
    [][\A t \in Tx : status[t] = "cleared" => status'[t] = "cleared"]_vars
=============================================================================
