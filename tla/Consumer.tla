------------------------------ MODULE Consumer ------------------------------
(***************************************************************************)
(* backend/consumer.py: one process that reads the transaction and the     *)
(* activity topic, keeps what it read in two buffers, writes both buffers  *)
(* to ClickHouse when they are full or five seconds have passed, and       *)
(* commits its offsets when both writes succeeded.                         *)
(*                                                                         *)
(* The commit covers the position the consumer has reached in every        *)
(* partition, whatever is in the buffers.  It is asynchronous, so it can   *)
(* be lost.  The memory of the process (position and buffers) does not     *)
(* survive a crash: the next process starts from the committed offsets.    *)
(* A message is a partition and an offset; its contents do not matter      *)
(* except that it may lack required fields (Malformed).                    *)
(***************************************************************************)
EXTENDS Integers, FiniteSets

CONSTANTS TxPartition,        \* partitions of the transaction topic
          ActivityPartition,  \* partitions of the activity topic
          MaxLength,          \* bound: messages published per partition
          Malformed,          \* the messages _validate_message rejects
          BatchSize,          \* OPTIMAL_BATCH_SIZE
          MaxFaults           \* bound: crashes, failed inserts, lost commits

Partition == TxPartition \cup ActivityPartition
TxMessage == TxPartition \X (0 .. MaxLength - 1)
ActivityMessage == ActivityPartition \X (0 .. MaxLength - 1)
Message == TxMessage \cup ActivityMessage

ASSUME ConsumerAssumption ==
    /\ MaxLength \in Nat
    /\ MaxFaults \in Nat
    /\ BatchSize \in Nat \ {0}
    /\ TxPartition \cap ActivityPartition = {}
    /\ Malformed \subseteq Message

VARIABLES
    logEnd,           \* per partition, the number of messages in Kafka
    committed,        \* per partition, the offset committed for the group
    rows,             \* per message, how often it was inserted
    position,         \* per partition, the next offset poll() returns
    txBuffer,
    activityBuffer,
    txSuccess,        \* outcome of the insert into transactions
    activitySuccess,  \* outcome of the insert into activity_events
    pc,               \* "poll", or how far flush_all is
    stopping,         \* flush_all was called on the way out
    faults

memory == <<position, txBuffer, activityBuffer>>
flush == <<txSuccess, activitySuccess>>
vars == <<logEnd, committed, rows, position, txBuffer, activityBuffer,
          txSuccess, activitySuccess, pc, stopping, faults>>

TypeOK ==
    /\ logEnd \in [Partition -> 0 .. MaxLength]
    /\ committed \in [Partition -> 0 .. MaxLength]
    /\ rows \in [Message -> Nat]
    /\ position \in [Partition -> 0 .. MaxLength]
    /\ txBuffer \subseteq TxMessage
    /\ activityBuffer \subseteq ActivityMessage
    /\ txSuccess \in BOOLEAN
    /\ activitySuccess \in BOOLEAN
    /\ pc \in {"poll", "flush transactions", "flush activity", "finish"}
    /\ stopping \in BOOLEAN
    /\ faults \in 0 .. MaxFaults

Buffered == txBuffer \cup activityBuffer

Init ==
    /\ logEnd = [p \in Partition |-> 0]
    /\ committed = [p \in Partition |-> 0]
    /\ rows = [m \in Message |-> 0]
    /\ position = [p \in Partition |-> 0]
    /\ txBuffer = {}
    /\ activityBuffer = {}
    /\ txSuccess = TRUE
    /\ activitySuccess = TRUE
    /\ pc = "poll"
    /\ stopping = FALSE
    /\ faults = 0

Fault == faults < MaxFaults /\ faults' = faults + 1

(* consumer.commit(): the offsets reached, in all partitions, or nothing   *)
(* when the asynchronous request is lost.                                  *)
CommitReaches(offsets) ==
    \/ committed' = offsets /\ UNCHANGED faults
    \/ UNCHANGED committed /\ Fault

(* The insert of a batch: rows written, or an error.  An error can also    *)
(* be the answer to an insert that ClickHouse executed.                    *)
Insert(batch) == rows' = [m \in Message |-> IF m \in batch THEN rows[m] + 1 ELSE rows[m]]

(* Mutant: flush_batch_to_clickhouse answers True after an exception.      *)
FlushBatch_AlwaysTrue(batch, success) ==
    /\ success = TRUE
    /\ \/ Insert(batch) /\ UNCHANGED faults
       \/ batch # {} /\ UNCHANGED rows /\ Fault

FlushBatch(batch, success) ==
    \/ success = TRUE /\ Insert(batch) /\ UNCHANGED faults
    \/ /\ batch # {}
       /\ success = FALSE
       /\ Insert(batch) \/ UNCHANGED rows
       /\ Fault

-----------------------------------------------------------------------------
(* The outbox worker appends a message to a partition.                     *)
Publish(p) ==
    /\ logEnd[p] < MaxLength
    /\ logEnd' = [logEnd EXCEPT ![p] = @ + 1]
    /\ UNCHANGED <<committed, rows, memory, flush, pc, stopping, faults>>

(* Mutant: the topics are mixed up.                                        *)
Keep_Swapped(p, m) ==
    IF p \in ActivityPartition THEN txBuffer' = txBuffer \cup {m} /\ UNCHANGED activityBuffer
    ELSE activityBuffer' = activityBuffer \cup {m} /\ UNCHANGED txBuffer

(* A message goes to the buffer of its topic.                              *)
Keep(p, m) ==
    IF p \in TxPartition THEN txBuffer' = txBuffer \cup {m} /\ UNCHANGED activityBuffer
    ELSE activityBuffer' = activityBuffer \cup {m} /\ UNCHANGED txBuffer

(* poll() returns a message that has the required fields.                  *)
Poll(p) ==
    LET m == <<p, position[p]>>
    IN  /\ pc = "poll"
        /\ position[p] < logEnd[p]
        /\ m \notin Malformed
        /\ position' = [position EXCEPT ![p] = @ + 1]
        /\ Keep(p, m)
        /\ pc' = IF Cardinality(txBuffer') + Cardinality(activityBuffer') >= BatchSize
                 THEN "flush transactions" ELSE "poll"
        /\ UNCHANGED <<logEnd, committed, rows, flush, stopping, faults>>

(* Mutant: the position does not move past a malformed message.            *)
PollMalformed_Again(p) ==
    /\ pc = "poll"
    /\ position[p] < logEnd[p]
    /\ <<p, position[p]>> \in Malformed
    /\ CommitReaches(position)
    /\ UNCHANGED <<logEnd, rows, memory, flush, pc, stopping>>

(* poll() returns one that lacks some: it goes to the log of malformed     *)
(* messages and the offsets are committed at once.                         *)
PollMalformed(p) ==
    /\ pc = "poll"
    /\ position[p] < logEnd[p]
    /\ <<p, position[p]>> \in Malformed
    /\ position' = [position EXCEPT ![p] = @ + 1]
    /\ CommitReaches(position')
    /\ UNCHANGED <<logEnd, rows, txBuffer, activityBuffer, flush, pc, stopping>>

(* poll() returns nothing and the flush interval is over.                  *)
FlushInterval ==
    /\ pc = "poll"
    /\ Buffered # {}
    /\ pc' = "flush transactions"
    /\ UNCHANGED <<logEnd, committed, rows, memory, flush, stopping, faults>>

FlushTransactions ==
    /\ pc = "flush transactions"
    /\ FlushBatch(txBuffer, txSuccess')
    /\ pc' = "flush activity"
    /\ UNCHANGED <<logEnd, committed, memory, activitySuccess, stopping>>

(* Mutant: both steps insert the buffer of transactions.                   *)
FlushActivity_WrongBuffer ==
    /\ pc = "flush activity"
    /\ FlushBatch(txBuffer, activitySuccess')
    /\ pc' = "finish"
    /\ UNCHANGED <<logEnd, committed, memory, txSuccess, stopping>>

FlushActivity ==
    /\ pc = "flush activity"
    /\ FlushBatch(activityBuffer, activitySuccess')
    /\ pc' = "finish"
    /\ UNCHANGED <<logEnd, committed, memory, txSuccess, stopping>>

(* A new process begins where the group's offsets are.                     *)
StartFrom(offsets) ==
    /\ position' = offsets
    /\ txBuffer' = {}
    /\ activityBuffer' = {}

(* Mutant: the outcome of the activity insert is not asked for.            *)
Finish_TxOnly ==
    /\ pc = "finish"
    /\ IF txSuccess THEN CommitReaches(position) ELSE UNCHANGED <<committed, faults>>
    /\ IF stopping THEN StartFrom(committed')
       ELSE IF txSuccess THEN StartFrom(position) ELSE UNCHANGED memory
    /\ pc' = "poll"
    /\ stopping' = FALSE
    /\ UNCHANGED <<logEnd, rows, flush>>

(* Mutant: the buffers are not emptied after the commit.                   *)
Finish_KeepsBuffers ==
    /\ pc = "finish"
    /\ IF txSuccess /\ activitySuccess THEN CommitReaches(position)
       ELSE UNCHANGED <<committed, faults>>
    /\ IF stopping THEN StartFrom(committed') ELSE UNCHANGED memory
    /\ pc' = "poll"
    /\ stopping' = FALSE
    /\ UNCHANGED <<logEnd, rows, flush>>

(* The end of flush_all; the last one of a process is followed by the      *)
(* start of the next process.                                              *)
Finish ==
    /\ pc = "finish"
    /\ IF txSuccess /\ activitySuccess THEN CommitReaches(position)
       ELSE UNCHANGED <<committed, faults>>
    /\ IF stopping THEN StartFrom(committed')
       ELSE IF txSuccess /\ activitySuccess THEN StartFrom(position)
       ELSE UNCHANGED memory
    /\ pc' = "poll"
    /\ stopping' = FALSE
    /\ UNCHANGED <<logEnd, rows, flush>>

(* Ctrl-C: the finally block flushes what is buffered.                     *)
Stop ==
    /\ pc = "poll"
    /\ IF Buffered = {}
       THEN StartFrom(committed) /\ UNCHANGED <<pc, stopping>>
       ELSE /\ pc' = "flush transactions"
            /\ stopping' = TRUE
            /\ UNCHANGED memory
    /\ UNCHANGED <<logEnd, committed, rows, flush, faults>>

Crash ==
    /\ Fault
    /\ StartFrom(committed)
    /\ pc' = "poll"
    /\ stopping' = FALSE
    /\ UNCHANGED <<logEnd, committed, rows, flush>>

Next ==
    \/ \E p \in Partition : Publish(p) \/ Poll(p) \/ PollMalformed(p)
    \/ FlushInterval
    \/ FlushTransactions
    \/ FlushActivity
    \/ Finish
    \/ Stop
    \/ Crash

Spec == Init /\ [][Next]_vars

(* The loop runs on as long as the process lives, and the container is     *)
(* restarted when it does not.                                             *)
Run ==
    \/ \E p \in Partition : Poll(p) \/ PollMalformed(p)
    \/ FlushInterval
    \/ FlushTransactions
    \/ FlushActivity
    \/ Finish

FairSpec == Spec /\ WF_vars(Run)

-----------------------------------------------------------------------------
Read(m) == m[2] < position[m[1]]
Acknowledged(m) == m[2] < committed[m[1]]
Stored(m) == rows[m] > 0

(* A malformed message was acknowledged, together with everything read by  *)
(* then (consumer.py:137).                                                 *)
MalformedAcknowledged == \E x \in Malformed : Acknowledged(x)

(* The offsets that are committed never run ahead of ClickHouse, except    *)
(* over malformed messages and where acknowledging one took along what was *)
(* still in the buffers.                                                   *)
CommittedIsStored ==
    \A m \in Message :
        Acknowledged(m) => Stored(m) \/ m \in Malformed \/ MalformedAcknowledged

(* As long as nothing fails, what was read is in a buffer or in            *)
(* ClickHouse, malformed messages in between or not: flush_all clears a    *)
(* buffer only after both inserts (consumer.py:80-83).                     *)
KeptUntilStored ==
    faults = 0 =>
        \A m \in Message : Read(m) => Stored(m) \/ m \in Malformed \/ m \in Buffered

(* A message is inserted once, and at most once more per crash, failed     *)
(* insert or lost commit: neither the retry of both inserts after one of   *)
(* them failed, nor a restart, multiplies rows beyond that.                *)
DuplicatesNeedFaults == \A m \in Message : rows[m] <= 1 + faults

published == {m \in Message : m[2] < logEnd[m[1]]}
arrived == {m \in Message : Stored(m)}

AtLeastOnce == INSTANCE Channel

(* The consumer stores only what was published and takes nothing back ...  *)
StoresPublished == AtLeastOnce!ChannelSpec

(* ... and, if no message is malformed, stores every message in spite of   *)
(* crashes, failed inserts and lost commits: it implements the channel.    *)
ImplementsChannel == AtLeastOnce!ChannelSpec /\ AtLeastOnce!NothingIsLost

(* Every message is read in the end, malformed ones and the ones behind    *)
(* them included: nothing blocks a partition for good.                     *)
NothingBlocks == \A m \in Message : m \in published ~> Read(m)
=============================================================================
