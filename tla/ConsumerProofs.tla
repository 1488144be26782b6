--------------------------- MODULE ConsumerProofs ---------------------------
(***************************************************************************)
(* For any partitions, any number of messages and any batch size: the      *)
(* committed offsets do not run ahead of ClickHouse.                       *)
(***************************************************************************)
EXTENDS Consumer, FiniteSetTheorems, TLAPS

(* What was read is in ClickHouse or still in a buffer, unless a malformed *)
(* message was acknowledged over it.                                       *)
Accounted(m) ==
    Stored(m) \/ m \in Malformed \/ m \in Buffered \/ MalformedAcknowledged

Order == \A p \in Partition : committed[p] <= position[p] /\ position[p] <= logEnd[p]

(* A batch whose insert is reported as done is in ClickHouse.              *)
FlushIsHonest ==
    /\ pc \in {"flush activity", "finish"} /\ txSuccess =>
           \A m \in txBuffer : Stored(m)
    /\ pc = "finish" /\ activitySuccess => \A m \in activityBuffer : Stored(m)

IInv ==
    /\ TypeOK
    /\ Order
    /\ FlushIsHonest
    /\ \A m \in Message : Read(m) => Accounted(m)
    /\ CommittedIsStored

(* The next number below a bound.                                          *)
LEMMA NextBelow ==
    ASSUME NEW n \in Nat, NEW k \in 0 .. n, k < n
    PROVE  k + 1 \in 0 .. n /\ k \in 0 .. n - 1
  OBVIOUS

(* A message is a partition and one of its offsets.                        *)
LEMMA MessageParts ==
    ASSUME NEW m \in Message
    PROVE  /\ m[1] \in Partition /\ m[2] \in 0 .. MaxLength - 1
           /\ m = <<m[1], m[2]>>
  BY DEF Message, TxMessage, ActivityMessage, Partition

(* The state begins with empty buffers, offsets and tables.                *)
LEMMA InitType == Init => TypeOK
<1>1. 0 \in 0 .. MaxLength /\ 0 \in 0 .. MaxFaults
  BY ConsumerAssumption DEF ConsumerAssumption
<1>2. Init => txSuccess \in BOOLEAN /\ activitySuccess \in BOOLEAN /\ stopping \in BOOLEAN
  BY Zenon DEF Init
<1>3. Init => /\ logEnd \in [Partition -> 0 .. MaxLength]
              /\ committed \in [Partition -> 0 .. MaxLength]
              /\ rows \in [Message -> Nat]
              /\ position \in [Partition -> 0 .. MaxLength]
  BY <1>1 DEF Init
<1>4. QED
  BY <1>1, <1>2, <1>3 DEF Init, TypeOK

(* An insert only adds rows.                                               *)
LEMMA InsertAdds ==
    ASSUME NEW batch, rows \in [Message -> Nat], Insert(batch)
    PROVE  /\ rows' \in [Message -> Nat]
           /\ \A m \in Message : Stored(m) => Stored(m)'
           /\ \A m \in Message : m \in batch => Stored(m)'
  BY DEF Insert, Stored

(* The budget of faults is kept.                                           *)
LEMMA FaultType ==
    ASSUME faults \in 0 .. MaxFaults, Fault
    PROVE  faults' \in 0 .. MaxFaults
  BY ConsumerAssumption, NextBelow DEF ConsumerAssumption, Fault

(* A flush adds rows, and reports success only for stored batches.         *)
LEMMA FlushAdds ==
    ASSUME NEW batch, NEW success \in BOOLEAN, rows \in [Message -> Nat],
           faults \in 0 .. MaxFaults, FlushBatch(batch, success)
    PROVE  /\ rows' \in [Message -> Nat]
           /\ faults' \in 0 .. MaxFaults
           /\ \A m \in Message : Stored(m) => Stored(m)'
           /\ success => \A m \in Message : m \in batch => Stored(m)'
<1>1. CASE success = TRUE /\ Insert(batch) /\ UNCHANGED faults
  BY <1>1, InsertAdds
<1>2. CASE success = FALSE /\ (Insert(batch) \/ UNCHANGED rows) /\ Fault
  <2>1. faults' \in 0 .. MaxFaults
    BY <1>2, ConsumerAssumption DEF ConsumerAssumption, Fault
  <2>2. CASE Insert(batch)
    BY <2>1, <2>2, <1>2, InsertAdds
  <2>3. CASE UNCHANGED rows
    BY <2>1, <2>3, <1>2 DEF Stored
  <2>4. QED
    BY <1>2, <2>2, <2>3
<1>3. QED
  BY <1>1, <1>2 DEF FlushBatch

(* Reaching a new offset, or not, keeps the types.                         *)
LEMMA CommitType ==
    ASSUME NEW offsets \in [Partition -> 0 .. MaxLength],
           committed \in [Partition -> 0 .. MaxLength],
           faults \in 0 .. MaxFaults, CommitReaches(offsets)
    PROVE  /\ committed' \in {committed, offsets}
           /\ committed' \in [Partition -> 0 .. MaxLength]
           /\ faults' \in 0 .. MaxFaults
  BY ConsumerAssumption DEF ConsumerAssumption, CommitReaches, Fault

(* The next offset of a partition that has one is in range.                *)
LEMMA NextOffset ==
    ASSUME TypeOK, NEW p \in Partition, position[p] < logEnd[p]
    PROVE  /\ p \in TxPartition => <<p, position[p]>> \in TxMessage
           /\ p \notin TxPartition => <<p, position[p]>> \in ActivityMessage
           /\ position[p] \in 0 .. MaxLength - 1
           /\ [position EXCEPT ![p] = @ + 1] \in [Partition -> 0 .. MaxLength]
<1>1. position[p] \in 0 .. MaxLength /\ logEnd[p] \in 0 .. MaxLength /\ MaxLength \in Nat
  BY ConsumerAssumption DEF ConsumerAssumption, TypeOK
<1>2. position[p] \in 0 .. MaxLength - 1 /\ position[p] + 1 \in 0 .. MaxLength
  BY <1>1
<1>3. QED
  BY <1>2 DEF TypeOK, TxMessage, ActivityMessage, Partition

(* Every step keeps the types.                                             *)
LEMMA TypeStep == TypeOK /\ [Next]_vars => TypeOK'
<1> SUFFICES ASSUME TypeOK, [Next]_vars PROVE TypeOK'
  OBVIOUS
<1> USE DEF TypeOK
<1>1. ASSUME NEW p \in Partition, Publish(p) PROVE TypeOK'
  <2>1. logEnd[p] \in 0 .. MaxLength /\ logEnd[p] < MaxLength /\ MaxLength \in Nat
    BY <1>1, ConsumerAssumption DEF ConsumerAssumption, Publish
  <2>2. logEnd[p] + 1 \in 0 .. MaxLength
    BY <2>1, NextBelow
  <2>3. logEnd' \in [Partition -> 0 .. MaxLength]
    BY <1>1, <2>2 DEF Publish
  <2>4. QED
    BY <1>1, <2>3 DEF Publish, memory, flush
<1>2. ASSUME NEW p \in Partition, Poll(p) PROVE TypeOK'
  <2>1. /\ p \in TxPartition => <<p, position[p]>> \in TxMessage
        /\ p \notin TxPartition => <<p, position[p]>> \in ActivityMessage
        /\ [position EXCEPT ![p] = @ + 1] \in [Partition -> 0 .. MaxLength]
    BY <1>2, NextOffset DEF Poll, Keep
  <2>2. position' \in [Partition -> 0 .. MaxLength]
    BY <1>2, <2>1 DEF Poll, Keep
  <2>3. /\ txBuffer' \subseteq TxMessage
        /\ activityBuffer' \subseteq ActivityMessage
    <3>1. CASE p \in TxPartition
      BY <1>2, <2>1, <3>1 DEF Poll, Keep
    <3>2. CASE p \notin TxPartition
      BY <1>2, <2>1, <3>2 DEF Poll, Keep
    <3>3. QED
      BY <3>1, <3>2
  <2>4. pc' \in {"flush transactions", "poll"}
    BY <1>2 DEF Poll, Keep
  <2>5. QED
    BY <1>2, <2>2, <2>3, <2>4 DEF Poll, Keep, flush
<1>3. ASSUME NEW p \in Partition, PollMalformed(p) PROVE TypeOK'
  <2>1. position' \in [Partition -> 0 .. MaxLength]
    BY <1>3, NextOffset DEF PollMalformed
  <2>2. QED
    BY <1>3, <2>1, CommitType DEF PollMalformed, flush
<1>4. CASE FlushInterval
  BY <1>4 DEF FlushInterval, memory, flush
<1>5. CASE FlushTransactions
  <2>1. txSuccess' \in BOOLEAN
    BY <1>5 DEF FlushTransactions, FlushBatch
  <2>2. QED
    BY <1>5, <2>1, FlushAdds DEF FlushTransactions, memory
<1>6. CASE FlushActivity
  <2>1. activitySuccess' \in BOOLEAN
    BY <1>6 DEF FlushActivity, FlushBatch
  <2>2. QED
    BY <1>6, <2>1, FlushAdds DEF FlushActivity, memory
<1>7. CASE Finish
  <2>1. /\ committed' \in [Partition -> 0 .. MaxLength]
        /\ faults' \in 0 .. MaxFaults
    BY <1>7, CommitType DEF Finish
  <2>2. QED
    BY <1>7, <2>1 DEF Finish, StartFrom, memory, flush
<1>8. CASE Stop
  BY <1>8 DEF Stop, StartFrom, memory, flush
<1>9. CASE Crash
  <2>1. faults' \in 0 .. MaxFaults
    BY <1>9, FaultType DEF Crash
  <2>2. stopping' \in BOOLEAN
    BY <1>9, Zenon DEF Crash
  <2>3. QED
    BY <1>9, <2>1, <2>2 DEF Crash, StartFrom, flush
<1>10. CASE UNCHANGED vars
  <2>1. /\ UNCHANGED <<logEnd, committed, rows, memory, pc, faults>>
        /\ UNCHANGED <<txSuccess, activitySuccess, stopping>>
    BY <1>10, Zenon DEF vars, memory
  <2>2. txSuccess' \in BOOLEAN /\ activitySuccess' \in BOOLEAN /\ stopping' \in BOOLEAN
    BY <2>1, Zenon
  <2>3. QED
    BY <2>1, <2>2 DEF memory
<1> HIDE DEF TypeOK
<1>11. QED
  BY <1>1, <1>2, <1>3, <1>4, <1>5, <1>6, <1>7, <1>8, <1>9, <1>10 DEF Next

(* Type correctness.                                                       *)
THEOREM TypeCorrect == Spec => []TypeOK
  BY InitType, TypeStep, PTL DEF Spec

-----------------------------------------------------------------------------
(* The initial state satisfies the invariant: nothing has been read.       *)
LEMMA InitIInv == Init => IInv
<1> SUFFICES ASSUME Init PROVE IInv
  OBVIOUS
<1>1. TypeOK
  BY InitType
<1>2. \A m \in Message : ~Read(m) /\ ~Acknowledged(m)
  BY MessageParts DEF Init, Read, Acknowledged
<1>3. Order
  BY DEF Init, Order
<1>4. FlushIsHonest
  BY DEF Init, FlushIsHonest
<1>5. QED
  BY <1>1, <1>2, <1>3, <1>4 DEF IInv, CommittedIsStored

(* If the offsets reach the position at a moment when everything read is   *)
(* stored, they do not run ahead of ClickHouse.                            *)
LEMMA CommitWhenStored ==
    ASSUME IInv, NEW offsets \in [Partition -> 0 .. MaxLength],
           committed' \in {committed, offsets},
           \A m \in Message : Stored(m) => Stored(m)',
           \A p \in Partition : committed[p] <= offsets[p],
           \A m \in Message :
               m[2] < offsets[m[1]] =>
                   \/ Stored(m)' \/ m \in Malformed
                   \/ \E x \in Malformed : x[2] < committed'[x[1]]
    PROVE  CommittedIsStored'
<1> SUFFICES ASSUME NEW m \in Message, Acknowledged(m)'
             PROVE  Stored(m)' \/ m \in Malformed \/ MalformedAcknowledged'
  BY DEF CommittedIsStored
<1>1. CASE committed' = committed
  <2>1. Acknowledged(m)
    BY <1>1 DEF Acknowledged
  <2>2. Stored(m) \/ m \in Malformed \/ MalformedAcknowledged
    BY <2>1 DEF IInv, CommittedIsStored
  <2>3. MalformedAcknowledged => MalformedAcknowledged'
    BY <1>1 DEF MalformedAcknowledged, Acknowledged
  <2>4. QED
    BY <2>2, <2>3
<1>2. CASE committed' = offsets
  <2>1. m[2] < offsets[m[1]]
    BY <1>2 DEF Acknowledged
  <2>2. QED
    BY <2>1 DEF MalformedAcknowledged, Acknowledged
<1>3. QED
  BY <1>1, <1>2

(* What is acknowledged stays acknowledged, what is stored stays stored.   *)
Forward ==
    /\ \A p \in Partition : committed[p] <= committed'[p]
    /\ \A m \in Message : Stored(m) => Stored(m)'

(* Without a commit, the offsets cannot overtake ClickHouse.               *)
LEMMA NoCommit ==
    ASSUME CommittedIsStored, committed' = committed, Forward
    PROVE  CommittedIsStored'
  BY DEF CommittedIsStored, Forward, Acknowledged, MalformedAcknowledged

(* Acknowledged malformed messages stay so.                                *)
LEMMA AcknowledgedStays ==
    ASSUME TypeOK, committed' \in [Partition -> 0 .. MaxLength], Forward,
           NEW m \in Message, Acknowledged(m)
    PROVE  Acknowledged(m)'
<1>1. m[1] \in Partition /\ m[2] \in Int
  BY MessageParts
<1>2. committed[m[1]] \in 0 .. MaxLength /\ committed'[m[1]] \in 0 .. MaxLength
  <2>1. committed \in [Partition -> 0 .. MaxLength]
    BY DEF TypeOK
  <2>2. QED
    BY <1>1, <2>1
<1>3. m[2] < committed[m[1]] /\ committed[m[1]] <= committed'[m[1]]
  BY <1>1 DEF Acknowledged, Forward
<1>4. m[2] < committed'[m[1]]
  BY <1>1, <1>2, <1>3
<1>5. QED
  BY <1>4 DEF Acknowledged

(* A message stays accounted for unless it leaves the buffers unstored.    *)
LEMMA AccountedStays ==
    ASSUME TypeOK, committed' \in [Partition -> 0 .. MaxLength], Forward,
           NEW m \in Message, Accounted(m),
           m \in Buffered => m \in Buffered' \/ Stored(m)'
    PROVE  Accounted(m)'
<1>1. MalformedAcknowledged => MalformedAcknowledged'
  BY AcknowledgedStays, ConsumerAssumption DEF ConsumerAssumption, MalformedAcknowledged
<1>2. QED
  BY <1>1 DEF Accounted, Forward

(* A process that starts at the committed offsets has read nothing else.   *)
LEMMA Restarted ==
    ASSUME IInv, CommittedIsStored', committed' \in {committed, position},
           position' = committed', logEnd' = logEnd,
           txBuffer' = {}, activityBuffer' = {}
    PROVE  /\ Order'
           /\ FlushIsHonest'
           /\ \A m \in Message : Read(m)' => Accounted(m)'
<1>1. /\ committed \in [Partition -> 0 .. MaxLength]
      /\ position \in [Partition -> 0 .. MaxLength]
      /\ logEnd \in [Partition -> 0 .. MaxLength]
      /\ Order
  BY DEF IInv, TypeOK
<1>2. Order'
  BY <1>1 DEF Order
<1>3. FlushIsHonest'
  BY DEF FlushIsHonest
<1>4. \A m \in Message : Read(m)' => Accounted(m)'
  BY DEF Read, Acknowledged, CommittedIsStored, Accounted
<1>5. QED
  BY <1>2, <1>3, <1>4

(* Every step preserves the invariant.                                     *)
LEMMA NextIInv == IInv /\ TypeOK' /\ [Next]_vars => IInv'
<1> SUFFICES ASSUME IInv, TypeOK', [Next]_vars
             PROVE  Order' /\ FlushIsHonest' /\ CommittedIsStored'
                    /\ \A m \in Message : Read(m)' => Accounted(m)'
  BY DEF IInv
<1>1. /\ TypeOK /\ Order /\ FlushIsHonest /\ CommittedIsStored
      /\ \A m \in Message : Read(m) => Accounted(m)
      /\ \A m \in Message : Acknowledged(m) => Read(m)
  <2>1. \A m \in Message : Acknowledged(m) => Read(m)
    <3> SUFFICES ASSUME NEW m \in Message, Acknowledged(m) PROVE Read(m)
      OBVIOUS
    <3>1. /\ m[1] \in Partition /\ m[2] \in Int
          /\ committed[m[1]] \in 0 .. MaxLength /\ position[m[1]] \in 0 .. MaxLength
      <4>1. /\ committed \in [Partition -> 0 .. MaxLength]
            /\ position \in [Partition -> 0 .. MaxLength]
        BY DEF IInv, TypeOK
      <4>2. QED
        BY MessageParts, <4>1
    <3>2. m[2] < committed[m[1]] /\ committed[m[1]] <= position[m[1]]
      BY <3>1 DEF Acknowledged, IInv, Order
    <3>3. QED
      BY <3>1, <3>2 DEF Read
  <2>2. QED
    BY <2>1 DEF IInv
<1>2. committed' \in [Partition -> 0 .. MaxLength]
  BY DEF TypeOK
<1>3. ASSUME NEW p \in Partition, Publish(p)
      PROVE  Order' /\ FlushIsHonest' /\ CommittedIsStored'
             /\ \A m \in Message : Read(m)' => Accounted(m)'
  <2>1. Order'
    <3>1. /\ logEnd \in [Partition -> 0 .. MaxLength]
          /\ position \in [Partition -> 0 .. MaxLength]
      BY <1>1 DEF TypeOK
    <3>2. \A q \in Partition : logEnd[q] <= logEnd'[q]
      BY <1>3, <3>1 DEF Publish
    <3>3. logEnd' \in [Partition -> 0 .. MaxLength]
      BY DEF TypeOK
    <3>4. QED
      BY <1>1, <1>3, <3>1, <3>2, <3>3 DEF Publish, memory, Order
  <2>2. QED
    BY <1>1, <1>3, <2>1
    DEF Publish, memory, flush, FlushIsHonest, CommittedIsStored, Read, Accounted, Stored,
        Acknowledged, MalformedAcknowledged, Buffered
<1>4. ASSUME NEW p \in Partition, Poll(p)
      PROVE  Order' /\ FlushIsHonest' /\ CommittedIsStored'
             /\ \A m \in Message : Read(m)' => Accounted(m)'
  <2> DEFINE new == <<p, position[p]>>
  <2>1. /\ position \in [Partition -> 0 .. MaxLength]
        /\ logEnd \in [Partition -> 0 .. MaxLength]
        /\ committed \in [Partition -> 0 .. MaxLength]
    BY <1>1 DEF TypeOK
  <2>2. /\ position' = [position EXCEPT ![p] = @ + 1]
        /\ UNCHANGED <<logEnd, committed, rows>>
        /\ Buffered' = Buffered \cup {new}
    BY <1>4 DEF Poll, Keep, Buffered
  <2>3. Order'
    <3>1. position[p] < logEnd[p]
      BY <1>4 DEF Poll, Keep
    <3>2. QED
      BY <1>1, <2>1, <2>2, <3>1 DEF Order
  <2>4. FlushIsHonest'
    BY <1>4 DEF Poll, Keep, FlushIsHonest
  <2>5. Forward
    BY <2>1, <2>2 DEF Forward, Stored
  <2>6. CommittedIsStored'
    BY <1>1, <2>2, <2>5, NoCommit
  <2>7. ASSUME NEW m \in Message, Read(m)' PROVE Accounted(m)'
    <3>1. m[1] \in Partition /\ m[2] \in Int /\ m = <<m[1], m[2]>>
      BY MessageParts
    <3>2. CASE Read(m)
      BY <1>1, <1>2, <2>2, <2>5, <3>2, AccountedStays
    <3>3. CASE ~Read(m)
      <4>1. m[2] < position'[m[1]] /\ ~(m[2] < position[m[1]])
        BY <2>7, <3>3 DEF Read
      <4>2. m[1] = p /\ m[2] = position[p]
        BY <2>1, <2>2, <3>1, <4>1
      <4>3. m = new
        BY <3>1, <4>2
      <4>4. QED
        BY <2>2, <4>3 DEF Accounted
    <3>4. QED
      BY <3>2, <3>3
  <2>8. QED
    BY <2>3, <2>4, <2>6, <2>7
<1>5. ASSUME NEW p \in Partition, PollMalformed(p)
      PROVE  Order' /\ FlushIsHonest' /\ CommittedIsStored'
             /\ \A m \in Message : Read(m)' => Accounted(m)'
  <2> DEFINE new == <<p, position[p]>>
  <2>1. /\ position \in [Partition -> 0 .. MaxLength]
        /\ logEnd \in [Partition -> 0 .. MaxLength]
        /\ committed \in [Partition -> 0 .. MaxLength]
    BY <1>1 DEF TypeOK
  <2>2. /\ position' = [position EXCEPT ![p] = @ + 1]
        /\ committed' \in {committed, position'}
        /\ UNCHANGED <<logEnd, rows, txBuffer, activityBuffer, flush, pc>>
        /\ new \in Malformed /\ position[p] < logEnd[p]
    BY <1>5 DEF PollMalformed, CommitReaches
  <2>3. \A q \in Partition : committed[q] <= position'[q]
    BY <1>1, <2>1, <2>2 DEF Order
  <2>4. Order'
    BY <1>1, <2>1, <2>2, <2>3 DEF Order
  <2>5. FlushIsHonest'
    BY <1>1, <2>2 DEF FlushIsHonest, Stored, flush
  <2>6. Forward
    BY <2>1, <2>2, <2>3 DEF Forward, Stored
  <2>7. committed' = position' => MalformedAcknowledged'
    <3>1. committed' = position' => new[2] < committed'[new[1]]
      BY <2>1, <2>2
    <3>2. QED
      BY <2>2, <3>1 DEF MalformedAcknowledged, Acknowledged
  <2>8. CommittedIsStored'
    <3>1. CASE committed' = committed
      BY <1>1, <2>6, <3>1, NoCommit
    <3>2. CASE committed' = position'
      BY <2>7, <3>2 DEF CommittedIsStored
    <3>3. QED
      BY <2>2, <3>1, <3>2
  <2>9. ASSUME NEW m \in Message, Read(m)' PROVE Accounted(m)'
    <3>1. m[1] \in Partition /\ m[2] \in Int /\ m = <<m[1], m[2]>>
      BY MessageParts
    <3>2. CASE Read(m)
      <4>1. Buffered' = Buffered
        BY <2>2 DEF Buffered
      <4>2. QED
        BY <1>1, <1>2, <2>6, <3>2, <4>1, AccountedStays
    <3>3. CASE ~Read(m)
      <4>1. m[2] < position'[m[1]] /\ ~(m[2] < position[m[1]])
        BY <2>9, <3>3 DEF Read
      <4>2. m[1] = p /\ m[2] = position[p]
        BY <2>1, <2>2, <3>1, <4>1
      <4>3. m = new
        BY <3>1, <4>2
      <4>4. QED
        BY <2>2, <4>3 DEF Accounted
    <3>4. QED
      BY <3>2, <3>3
  <2>10. QED
    BY <2>4, <2>5, <2>8, <2>9
<1>6. ASSUME FlushInterval
      PROVE  Order' /\ FlushIsHonest' /\ CommittedIsStored'
             /\ \A m \in Message : Read(m)' => Accounted(m)'
  BY <1>1, <1>6
  DEF FlushInterval, memory, flush, Order, FlushIsHonest, CommittedIsStored, Read,
      Accounted, Stored, Acknowledged, MalformedAcknowledged, Buffered
<1>7. ASSUME FlushTransactions
      PROVE  Order' /\ FlushIsHonest' /\ CommittedIsStored'
             /\ \A m \in Message : Read(m)' => Accounted(m)'
  <2>1. /\ txSuccess' \in BOOLEAN /\ rows \in [Message -> Nat]
        /\ faults \in 0 .. MaxFaults /\ txBuffer \subseteq Message
        /\ committed \in [Partition -> 0 .. MaxLength]
    BY <1>1 DEF TypeOK, Message
  <2>2. /\ UNCHANGED <<logEnd, committed, position, txBuffer, activityBuffer>>
        /\ FlushBatch(txBuffer, txSuccess')
        /\ pc' = "flush activity"
    BY <1>7 DEF FlushTransactions, memory
  <2>3. /\ \A m \in Message : Stored(m) => Stored(m)'
        /\ txSuccess' => \A m \in Message : m \in txBuffer => Stored(m)'
    BY <2>1, <2>2, FlushAdds
  <2>4. Forward
    <3>1. committed \in [Partition -> 0 .. MaxLength] /\ committed' = committed
      BY <2>1, <2>2, Zenon
    <3>2. \A p \in Partition : committed[p] <= committed'[p]
      BY <3>1
    <3>3. QED
      BY <2>3, <3>2 DEF Forward
  <2>5. Order' /\ FlushIsHonest'
    BY <1>1, <2>1, <2>2, <2>3 DEF Order, FlushIsHonest
  <2>6. CommittedIsStored'
    BY <1>1, <2>2, <2>4, NoCommit
  <2>7. \A m \in Message : Read(m)' => Accounted(m)'
    BY <1>1, <1>2, <2>2, <2>4, AccountedStays DEF Read, Buffered
  <2>8. QED
    BY <2>5, <2>6, <2>7
<1>8. ASSUME FlushActivity
      PROVE  Order' /\ FlushIsHonest' /\ CommittedIsStored'
             /\ \A m \in Message : Read(m)' => Accounted(m)'
  <2>1. /\ activitySuccess' \in BOOLEAN /\ rows \in [Message -> Nat]
        /\ faults \in 0 .. MaxFaults
        /\ txBuffer \subseteq Message /\ activityBuffer \subseteq Message
        /\ committed \in [Partition -> 0 .. MaxLength]
    BY <1>1 DEF TypeOK, Message
  <2>2. /\ UNCHANGED <<logEnd, committed, position, txBuffer, activityBuffer, txSuccess>>
        /\ FlushBatch(activityBuffer, activitySuccess')
        /\ pc = "flush activity" /\ pc' = "finish"
    BY <1>8 DEF FlushActivity, memory
  <2>3. /\ \A m \in Message : Stored(m) => Stored(m)'
        /\ activitySuccess' => \A m \in Message : m \in activityBuffer => Stored(m)'
    BY <2>1, <2>2, FlushAdds
  <2>4. Forward
    <3>1. committed \in [Partition -> 0 .. MaxLength] /\ committed' = committed
      BY <2>1, <2>2, Zenon
    <3>2. \A p \in Partition : committed[p] <= committed'[p]
      BY <3>1
    <3>3. QED
      BY <2>3, <3>2 DEF Forward
  <2>5. Order' /\ FlushIsHonest'
    BY <1>1, <2>1, <2>2, <2>3 DEF Order, FlushIsHonest
  <2>6. CommittedIsStored'
    BY <1>1, <2>2, <2>4, NoCommit
  <2>7. \A m \in Message : Read(m)' => Accounted(m)'
    BY <1>1, <1>2, <2>2, <2>4, AccountedStays DEF Read, Buffered
  <2>8. QED
    BY <2>5, <2>6, <2>7
<1>9. ASSUME Finish
      PROVE  Order' /\ FlushIsHonest' /\ CommittedIsStored'
             /\ \A m \in Message : Read(m)' => Accounted(m)'
  <2>1. /\ committed \in [Partition -> 0 .. MaxLength]
        /\ position \in [Partition -> 0 .. MaxLength]
        /\ logEnd \in [Partition -> 0 .. MaxLength]
    BY <1>1 DEF TypeOK
  <2>2. /\ UNCHANGED <<logEnd, rows>> /\ pc = "finish" /\ pc' = "poll"
        /\ committed' \in {committed, position}
        /\ ~(txSuccess /\ activitySuccess) => committed' = committed
    BY <1>9 DEF Finish, CommitReaches
  <2>3. Forward
    BY <1>1, <2>1, <2>2 DEF Forward, Stored, Order
  <2>4. ASSUME txSuccess, activitySuccess, NEW m \in Message, Read(m)
        PROVE  Stored(m)' \/ m \in Malformed \/ MalformedAcknowledged'
    <3>1. Accounted(m)
      BY <1>1, <2>4
    <3>2. m \in Buffered => Stored(m)
      BY <1>1, <2>2, <2>4 DEF Buffered, FlushIsHonest
    <3>3. MalformedAcknowledged => MalformedAcknowledged'
      BY <1>1, <1>2, <2>3, AcknowledgedStays, ConsumerAssumption
      DEF ConsumerAssumption, MalformedAcknowledged
    <3>4. QED
      BY <2>3, <3>1, <3>2, <3>3 DEF Accounted, Forward
  <2>5. CommittedIsStored'
    <3>1. CASE committed' = committed
      BY <1>1, <2>3, <3>1, NoCommit
    <3>2. CASE committed' = position /\ txSuccess /\ activitySuccess
      BY <2>4, <3>2 DEF CommittedIsStored, Acknowledged, Read
    <3>3. QED
      BY <2>2, <3>1, <3>2
  <2>6. CASE stopping
    BY <1>9, <2>2, <2>5, <2>6, Restarted DEF Finish, StartFrom
  <2>7. CASE ~stopping /\ txSuccess /\ activitySuccess
    <3>1. position' = position /\ txBuffer' = {} /\ activityBuffer' = {}
      BY <1>9, <2>7 DEF Finish, StartFrom
    <3>2. Order' /\ FlushIsHonest'
      BY <1>1, <2>1, <2>2, <3>1 DEF Order, FlushIsHonest
    <3>3. \A m \in Message : Read(m)' => Accounted(m)'
      BY <2>4, <2>7, <3>1 DEF Read, Accounted
    <3>4. QED
      BY <2>5, <3>2, <3>3
  <2>8. CASE ~stopping /\ ~(txSuccess /\ activitySuccess)
    <3>1. UNCHANGED <<position, txBuffer, activityBuffer, committed>>
      BY <1>9, <2>2, <2>8 DEF Finish, memory
    <3>2. Order' /\ FlushIsHonest'
      BY <1>1, <2>1, <2>2, <3>1 DEF Order, FlushIsHonest
    <3>3. \A m \in Message : Read(m)' => Accounted(m)'
      BY <1>1, <1>2, <2>3, <3>1, AccountedStays DEF Read, Buffered
    <3>4. QED
      BY <2>5, <3>2, <3>3
  <2>9. QED
    BY <2>6, <2>7, <2>8
<1>10. ASSUME Stop
       PROVE  Order' /\ FlushIsHonest' /\ CommittedIsStored'
              /\ \A m \in Message : Read(m)' => Accounted(m)'
  <2>1. UNCHANGED <<logEnd, committed, rows, txSuccess, activitySuccess>>
    BY <1>10 DEF Stop, flush
  <2>2. Forward
    <3>1. committed \in [Partition -> 0 .. MaxLength]
      BY <1>1 DEF TypeOK
    <3>2. QED
      BY <2>1, <3>1 DEF Forward, Stored
  <2>3. CommittedIsStored'
    BY <1>1, <2>1, <2>2, NoCommit
  <2>4. CASE Buffered = {}
    BY <1>10, <2>1, <2>3, <2>4, Restarted DEF Stop, StartFrom
  <2>5. CASE Buffered # {}
    <3>1. UNCHANGED <<position, txBuffer, activityBuffer>> /\ pc' = "flush transactions"
      BY <1>10, <2>5 DEF Stop, memory
    <3>2. Order' /\ FlushIsHonest'
      BY <1>1, <2>1, <3>1 DEF Order, FlushIsHonest
    <3>3. \A m \in Message : Read(m)' => Accounted(m)'
      BY <1>1, <1>2, <2>2, <3>1, AccountedStays DEF Read, Buffered
    <3>4. QED
      BY <2>3, <3>2, <3>3
  <2>6. QED
    BY <2>4, <2>5
<1>11. ASSUME Crash
       PROVE  Order' /\ FlushIsHonest' /\ CommittedIsStored'
              /\ \A m \in Message : Read(m)' => Accounted(m)'
  <2>1. UNCHANGED <<logEnd, committed, rows>> /\ StartFrom(committed)
    BY <1>11 DEF Crash
  <2>2. Forward
    <3>1. committed \in [Partition -> 0 .. MaxLength]
      BY <1>1 DEF TypeOK
    <3>2. QED
      BY <2>1, <3>1 DEF Forward, Stored
  <2>3. CommittedIsStored'
    BY <1>1, <2>1, <2>2, NoCommit
  <2>4. QED
    BY <2>1, <2>3, Restarted DEF StartFrom
<1>12. ASSUME UNCHANGED vars
       PROVE  Order' /\ FlushIsHonest' /\ CommittedIsStored'
              /\ \A m \in Message : Read(m)' => Accounted(m)'
  BY <1>1, <1>12
  DEF vars, Order, FlushIsHonest, CommittedIsStored, Read, Accounted, Stored,
      Acknowledged, MalformedAcknowledged, Buffered
<1>13. QED
  BY <1>3, <1>4, <1>5, <1>6, <1>7, <1>8, <1>9, <1>10, <1>11, <1>12 DEF Next

(* The committed offsets never run ahead of ClickHouse (consumer.py:80).   *)
THEOREM OffsetsFollowClickHouse == Spec => []CommittedIsStored
<1>1. IInv => CommittedIsStored
  BY DEF IInv
<1>2. QED
  BY <1>1, InitIInv, NextIInv, TypeCorrect, PTL DEF Spec

-----------------------------------------------------------------------------
(* As long as nothing fails, both inserts of a flush succeed.              *)
KeptInv ==
    faults = 0 =>
        /\ \A m \in Message : Read(m) => Stored(m) \/ m \in Malformed \/ m \in Buffered
        /\ pc \in {"flush activity", "finish"} => txSuccess
        /\ pc = "finish" => activitySuccess

(* At first nothing has been read.                                         *)
LEMMA InitKeptInv == Init => KeptInv
  BY MessageParts DEF Init, KeptInv, Read

(* A first fault is counted.                                               *)
LEMMA FaultCounts ==
    ASSUME faults \in 0 .. MaxFaults, Fault
    PROVE  faults' = faults + 1 /\ faults \in Nat /\ faults' # 0
  BY ConsumerAssumption DEF ConsumerAssumption, Fault

(* What is read in the next state was read before or has been stored.      *)
LEMMA KeptStays ==
    ASSUME TypeOK, KeptInv, faults = 0,
           \A m \in Message : Stored(m) => Stored(m)',
           \A m \in Message : Read(m)' => Read(m),
           \A m \in Buffered : m \in Buffered' \/ Stored(m)',
           NEW m \in Message, Read(m)'
    PROVE  Stored(m)' \/ m \in Malformed \/ m \in Buffered'
  BY DEF KeptInv

(* Reading on in a partition reads one message more.                       *)
LEMMA ReadOn ==
    ASSUME TypeOK, NEW p \in Partition, position' = [position EXCEPT ![p] = @ + 1]
    PROVE  \A m \in Message : Read(m)' => Read(m) \/ m = <<p, position[p]>>
<1> SUFFICES ASSUME NEW m \in Message, Read(m)'
             PROVE  Read(m) \/ m = <<p, position[p]>>
  OBVIOUS
<1>1. m[1] \in Partition /\ m[2] \in Int /\ m = <<m[1], m[2]>>
  BY MessageParts
<1>2. position \in [Partition -> Int] /\ m[2] < position'[m[1]]
  <2>1. 0 .. MaxLength \subseteq Int
    BY ConsumerAssumption DEF ConsumerAssumption
  <2>2. m[2] < position'[m[1]]
    BY DEF Read
  <2>3. position \in [Partition -> 0 .. MaxLength]
    BY DEF TypeOK
  <2>4. QED
    BY <2>1, <2>2, <2>3
<1>3. CASE m[1] = p
  <2>1. position'[p] = position[p] + 1 /\ position[p] \in Int
    BY <1>2
  <2>2. m[2] < position[p] \/ m[2] = position[p]
    BY <1>1, <1>2, <1>3, <2>1
  <2>3. QED
    BY <1>1, <1>3, <2>2 DEF Read
<1>4. CASE m[1] # p
  BY <1>1, <1>2, <1>4 DEF Read
<1>5. QED
  BY <1>3, <1>4

LEMMA NextKeptInv == IInv /\ KeptInv /\ [Next]_vars => KeptInv'
<1> SUFFICES ASSUME IInv, KeptInv, [Next]_vars, faults' = 0
             PROVE  /\ \A m \in Message : Read(m)' =>
                            Stored(m)' \/ m \in Malformed \/ m \in Buffered'
                    /\ pc' \in {"flush activity", "finish"} => txSuccess'
                    /\ pc' = "finish" => activitySuccess'
  BY DEF KeptInv
<1> DEFINE Goal == /\ \A m \in Message : Read(m)' =>
                            Stored(m)' \/ m \in Malformed \/ m \in Buffered'
                   /\ pc' \in {"flush activity", "finish"} => txSuccess'
                   /\ pc' = "finish" => activitySuccess'
<1>1. TypeOK /\ Order /\ FlushIsHonest
  BY DEF IInv
<1>2. /\ position \in [Partition -> 0 .. MaxLength]
      /\ committed \in [Partition -> 0 .. MaxLength]
      /\ rows \in [Message -> Nat] /\ faults \in 0 .. MaxFaults
      /\ MaxLength \in Nat
  BY <1>1, ConsumerAssumption DEF ConsumerAssumption, TypeOK
<1>3. \A m \in Message : Acknowledged(m) => Read(m)
  BY <1>1, <1>2, MessageParts DEF Order, Acknowledged, Read
<1>4. ASSUME NEW p \in Partition, Publish(p) PROVE Goal
  BY <1>4 DEF Publish, memory, flush, KeptInv, Read, Stored, Buffered
<1>5. ASSUME NEW p \in Partition, Poll(p) PROVE Goal
  <2>1. /\ UNCHANGED <<rows, faults>>
        /\ position' = [position EXCEPT ![p] = @ + 1]
        /\ Buffered' = Buffered \cup {<<p, position[p]>>}
        /\ pc' \in {"poll", "flush transactions"}
    BY <1>5 DEF Poll, Keep, Buffered
  <2>2. \A m \in Message : Read(m)' => Read(m) \/ m = <<p, position[p]>>
    BY <1>1, <2>1, ReadOn
  <2>3. QED
    BY <2>1, <2>2 DEF KeptInv, Stored
<1>6. ASSUME NEW p \in Partition, PollMalformed(p) PROVE Goal
  <2>1. /\ UNCHANGED <<rows, txBuffer, activityBuffer, pc, txSuccess, activitySuccess>>
        /\ position' = [position EXCEPT ![p] = @ + 1]
        /\ <<p, position[p]>> \in Malformed
        /\ CommitReaches(position')
    BY <1>6 DEF PollMalformed, flush
  <2>2. \A m \in Message : Read(m)' => Read(m) \/ m = <<p, position[p]>>
    BY <1>1, <2>1, ReadOn
  <2>3. faults = 0
    BY <1>2, <2>1, FaultCounts DEF CommitReaches
  <2>4. QED
    BY <2>1, <2>2, <2>3 DEF KeptInv, Stored, Buffered
<1>7. CASE FlushInterval
  BY <1>7 DEF FlushInterval, memory, flush, KeptInv, Read, Stored, Buffered
<1>8. CASE FlushTransactions
  <2>1. /\ FlushBatch(txBuffer, txSuccess') /\ pc' = "flush activity"
        /\ UNCHANGED <<position, txBuffer, activityBuffer>>
        /\ txSuccess' \in BOOLEAN
    BY <1>8 DEF FlushTransactions, FlushBatch, memory
  <2>2. txSuccess' = TRUE /\ faults = 0
    BY <1>2, <2>1, FaultCounts DEF FlushBatch
  <2>3. \A m \in Message : Stored(m) => Stored(m)'
    BY <1>2, <2>1, FlushAdds
  <2>4. QED
    BY <2>1, <2>2, <2>3 DEF KeptInv, Read, Buffered
<1>9. CASE FlushActivity
  <2>1. /\ FlushBatch(activityBuffer, activitySuccess') /\ pc' = "finish"
        /\ pc = "flush activity"
        /\ UNCHANGED <<position, txBuffer, activityBuffer, txSuccess>>
        /\ activitySuccess' \in BOOLEAN
    BY <1>9 DEF FlushActivity, FlushBatch, memory
  <2>2. activitySuccess' = TRUE /\ faults = 0
    BY <1>2, <2>1, FaultCounts DEF FlushBatch
  <2>3. \A m \in Message : Stored(m) => Stored(m)'
    BY <1>2, <2>1, FlushAdds
  <2>4. QED
    BY <2>1, <2>2, <2>3 DEF KeptInv, Read, Buffered
<1>10. CASE Finish
  <2>1. /\ pc = "finish" /\ pc' = "poll" /\ UNCHANGED rows
        /\ txSuccess /\ activitySuccess => CommitReaches(position)
        /\ ~(txSuccess /\ activitySuccess) => UNCHANGED faults
        /\ stopping => StartFrom(committed')
        /\ ~stopping /\ txSuccess /\ activitySuccess => StartFrom(position)
    BY <1>10 DEF Finish
  <2>2. faults = 0
    BY <1>2, <2>1, FaultCounts DEF CommitReaches
  <2>3. txSuccess /\ activitySuccess
    BY <2>1, <2>2 DEF KeptInv
  <2>4. committed' = position
    BY <1>2, <2>1, <2>2, <2>3, FaultCounts DEF CommitReaches
  <2>5. position' = position /\ \A m \in Buffered : m \in Message => Stored(m)
    BY <1>1, <2>1, <2>3, <2>4 DEF StartFrom, FlushIsHonest, Buffered
  <2>6. QED
    BY <2>1, <2>2, <2>5 DEF KeptInv, Read, Stored
<1>11. CASE Stop
  <2>1. UNCHANGED <<rows, faults>> /\ pc' \in {"poll", "flush transactions"}
    BY <1>11 DEF Stop
  <2>2. CASE Buffered = {}
    <3>1. position' = committed
      BY <1>11, <2>2 DEF Stop, StartFrom
    <3>2. \A m \in Message : Read(m)' => Read(m)
      BY <1>3, <3>1 DEF Read, Acknowledged
    <3>3. QED
      BY <2>1, <2>2, <3>2 DEF KeptInv, Stored
  <2>3. CASE Buffered # {}
    BY <1>11, <2>1, <2>3 DEF Stop, memory, KeptInv, Read, Stored, Buffered
  <2>4. QED
    BY <2>2, <2>3
<1>12. CASE Crash
  BY <1>2, <1>12, FaultCounts DEF Crash
<1>13. CASE UNCHANGED vars
  BY <1>13 DEF vars, KeptInv, Read, Stored, Buffered
<1>14. QED
  BY <1>4, <1>5, <1>6, <1>7, <1>8, <1>9, <1>10, <1>11, <1>12, <1>13 DEF Next

(* As long as nothing fails, what was read is in a buffer or in ClickHouse *)
(* (consumer.py:80-83).                                                    *)
THEOREM ReadIsKept == Spec => []KeptUntilStored
<1>1. KeptInv => KeptUntilStored
  BY DEF KeptInv, KeptUntilStored
<1>2. QED
  BY <1>1, InitKeptInv, InitIInv, NextIInv, NextKeptInv, TypeCorrect, PTL DEF Spec

-----------------------------------------------------------------------------
(* The batch that the current flush has inserted so far.                   *)
Inserted(m) ==
    \/ pc = "flush activity" /\ txSuccess /\ m \in txBuffer
    \/ pc = "finish" /\ txSuccess /\ activitySuccess /\ m \in Buffered

Settled(m) == Acknowledged(m) /\ m \notin Buffered

(* What will be inserted once more, or again, has no more rows than there  *)
(* were faults; and while a failed first insert waits for the second, what *)
(* the second inserts has one row less.                                    *)
RowsInv == \A m \in Message :
    /\ rows[m] <= 1 + faults
    /\ ~Settled(m) /\ ~Inserted(m) => rows[m] <= faults
    /\ pc = "flush activity" /\ ~txSuccess /\ m \in activityBuffer => rows[m] <= faults - 1

BufferedIsRead == \A m \in Message : m \in Buffered => Read(m)

RowsTypes == rows \in [Message -> Nat] /\ faults \in Nat

LEMMA RowsTyped == TypeOK => RowsTypes
<1>1. 0 .. MaxFaults \subseteq Nat
  BY ConsumerAssumption DEF ConsumerAssumption
<1>2. TypeOK => rows \in [Message -> Nat] /\ faults \in 0 .. MaxFaults
  BY DEF TypeOK
<1>3. QED
  BY <1>1, <1>2 DEF RowsTypes

LEMMA PlusOne ==
    ASSUME NEW r \in Nat, NEW f \in Nat, r <= 1 + f
    PROVE  r <= f + 1 /\ r <= 1 + (f + 1)
  OBVIOUS

(* A fault that inserts nothing pays for the rows there are.               *)
LEMMA FaultPays ==
    ASSUME RowsInv, RowsTypes, rows' = rows, faults' = faults + 1, pc' # "flush activity"
    PROVE  RowsInv'
<1>1. ASSUME NEW m \in Message
      PROVE  rows'[m] <= faults' /\ rows'[m] <= 1 + faults'
  <2>1. rows[m] \in Nat /\ faults \in Nat /\ rows[m] <= 1 + faults
    BY DEF RowsInv, RowsTypes
  <2>2. rows[m] <= faults + 1 /\ rows[m] <= 1 + (faults + 1)
    BY <2>1, PlusOne
  <2>3. QED
    BY <2>2
<1>2. QED
  BY <1>1 DEF RowsInv

(* Outside the flush, what is settled stays settled.                       *)
LEMMA NoRows ==
    ASSUME RowsInv, RowsTypes, UNCHANGED <<rows, faults>>, pc' # "flush activity",
           \A m \in Message : Settled(m) \/ Inserted(m) => Settled(m)'
    PROVE  RowsInv'
  BY DEF RowsInv, RowsTypes

(* A batch that had as many rows as faults has at most one more.           *)
LEMMA FlushRows ==
    ASSUME RowsTypes, NEW batch, NEW success \in BOOLEAN, FlushBatch(batch, success)
    PROVE  /\ success => faults' = faults
           /\ ~success => faults' = faults + 1
           /\ \A m \in Message : rows'[m] \in Nat
                                 /\ (rows'[m] = rows[m] \/ (m \in batch /\ rows'[m] = rows[m] + 1))
<1> DEFINE More == \A m \in Message :
               /\ rows'[m] \in Nat
               /\ rows'[m] = rows[m] \/ (m \in batch /\ rows'[m] = rows[m] + 1)
<1>1. Insert(batch) \/ UNCHANGED rows => More
  <2>1. CASE Insert(batch)
    BY <2>1 DEF RowsTypes, Insert
  <2>2. CASE UNCHANGED rows
    <3>1. ASSUME NEW m \in Message PROVE rows'[m] = rows[m] /\ rows[m] \in Nat
      BY <2>2 DEF RowsTypes
    <3>2. QED
      BY <3>1
  <2>3. QED
    BY <2>1, <2>2
<1>2. CASE success = TRUE /\ Insert(batch) /\ UNCHANGED faults
  BY <1>1, <1>2
<1>3. CASE success = FALSE /\ (Insert(batch) \/ UNCHANGED rows) /\ Fault
  BY <1>1, <1>3 DEF Fault
<1>4. QED
  BY <1>2, <1>3 DEF FlushBatch

LEMMA TopicsApart ==
    ASSUME TypeOK, NEW m, m \in txBuffer
    PROVE  m \notin activityBuffer
  BY ConsumerAssumption DEF ConsumerAssumption, TypeOK, TxMessage, ActivityMessage

(* Reading on in a partition unreads nothing.                              *)
LEMMA ReadStays ==
    ASSUME TypeOK, NEW p \in Partition, position' = [position EXCEPT ![p] = @ + 1]
    PROVE  \A m \in Message : Read(m) => Read(m)'
<1> SUFFICES ASSUME NEW m \in Message, Read(m) PROVE Read(m)'
  OBVIOUS
<1>1. m[1] \in Partition /\ m[2] \in Int
  BY MessageParts
<1>2. position[m[1]] \in Int
  <2>1. 0 .. MaxLength \subseteq Int
    BY ConsumerAssumption DEF ConsumerAssumption
  <2>2. position \in [Partition -> 0 .. MaxLength]
    BY DEF TypeOK
  <2>3. QED
    BY <1>1, <2>1, <2>2
<1>3. m[2] < position[m[1]]
  BY DEF Read
<1>4. position'[m[1]] = position[m[1]] \/ position'[m[1]] = position[m[1]] + 1
  <2>1. position \in [Partition -> 0 .. MaxLength]
    BY DEF TypeOK
  <2>2. QED
    BY <1>1, <2>1
<1>5. m[2] < position'[m[1]]
  BY <1>1, <1>2, <1>3, <1>4
<1>6. QED
  BY <1>5 DEF Read

(* What is in a buffer was read, and a restart that unreads it drops it.   *)
LEMMA NextBufferedIsRead == IInv /\ BufferedIsRead /\ [Next]_vars => BufferedIsRead'
<1> SUFFICES ASSUME IInv, BufferedIsRead, [Next]_vars PROVE BufferedIsRead'
  OBVIOUS
<1>1. TypeOK
  BY DEF IInv
<1>2. ASSUME Buffered' \in {{}, Buffered}, Buffered' # {} => UNCHANGED position
      PROVE  BufferedIsRead'
  BY <1>2 DEF BufferedIsRead, Read
<1>3. ASSUME NEW p \in Partition, Poll(p) PROVE BufferedIsRead'
  <2>1. /\ position' = [position EXCEPT ![p] = @ + 1]
        /\ Buffered' = Buffered \cup {<<p, position[p]>>}
    BY <1>3 DEF Poll, Keep, Buffered
  <2>2. \A m \in Message : Read(m) => Read(m)'
    BY <1>1, <2>1, ReadStays
  <2>3. position[p] < position'[p]
    <3>1. position \in [Partition -> 0 .. MaxLength]
      BY <1>1 DEF TypeOK
    <3>2. 0 .. MaxLength \subseteq Int
      BY ConsumerAssumption DEF ConsumerAssumption
    <3>3. position[p] \in Int /\ position'[p] = position[p] + 1
      BY <2>1, <3>1, <3>2
    <3>4. QED
      BY <3>3
  <2>4. ASSUME NEW m \in Message, m \in Buffered' PROVE m[2] < position'[m[1]]
    <3>1. CASE m \in Buffered
      BY <2>2, <3>1 DEF BufferedIsRead, Read
    <3>2. CASE m = <<p, position[p]>>
      BY <2>3, <3>2
    <3>3. QED
      BY <2>1, <2>4, <3>1, <3>2
  <2>5. QED
    BY <2>4 DEF BufferedIsRead, Read
<1>4. ASSUME NEW p \in Partition, PollMalformed(p) PROVE BufferedIsRead'
  <2>1. /\ position' = [position EXCEPT ![p] = @ + 1]
        /\ Buffered' = Buffered
    BY <1>4 DEF PollMalformed, Buffered
  <2>2. \A m \in Message : Read(m) => Read(m)'
    BY <1>1, <2>1, ReadStays
  <2>3. QED
    BY <2>1, <2>2 DEF BufferedIsRead, Read
<1>5. ASSUME NEW p \in Partition, Publish(p) PROVE BufferedIsRead'
  BY <1>2, <1>5 DEF Publish, memory, Buffered
<1>6. CASE FlushInterval
  BY <1>2, <1>6 DEF FlushInterval, memory, Buffered
<1>7. CASE FlushTransactions
  BY <1>2, <1>7 DEF FlushTransactions, memory, Buffered
<1>8. CASE FlushActivity
  BY <1>2, <1>8 DEF FlushActivity, memory, Buffered
<1>9. CASE Finish
  BY <1>2, <1>9 DEF Finish, StartFrom, memory, Buffered
<1>10. CASE Stop
  BY <1>2, <1>10 DEF Stop, StartFrom, memory, Buffered
<1>11. CASE Crash
  BY <1>2, <1>11 DEF Crash, StartFrom, Buffered
<1>12. CASE UNCHANGED vars
  BY <1>2, <1>12 DEF vars, Buffered
<1>13. QED
  BY <1>3, <1>4, <1>5, <1>6, <1>7, <1>8, <1>9, <1>10, <1>11, <1>12 DEF Next

LEMMA NextRowsInv == IInv /\ RowsInv /\ BufferedIsRead /\ [Next]_vars => RowsInv'
<1> SUFFICES ASSUME IInv, RowsInv, BufferedIsRead, [Next]_vars PROVE RowsInv'
  OBVIOUS
<1>1. TypeOK /\ Order /\ RowsTypes
  BY RowsTyped DEF IInv
<1>2. /\ position \in [Partition -> Int] /\ committed \in [Partition -> Int]
      /\ \A m \in Message : m[1] \in Partition /\ m[2] \in Int
  <2>1. 0 .. MaxLength \subseteq Int
    BY ConsumerAssumption DEF ConsumerAssumption
  <2>2. /\ position \in [Partition -> 0 .. MaxLength]
        /\ committed \in [Partition -> 0 .. MaxLength]
    BY <1>1 DEF TypeOK
  <2>3. QED
    BY <2>1, <2>2, MessageParts
<1>3. \A m \in Message : Acknowledged(m) => Read(m)
  BY <1>1, <1>2 DEF Order, Acknowledged, Read
<1>4. ASSUME UNCHANGED <<committed, rows, position, txBuffer, activityBuffer,
                         txSuccess, activitySuccess, pc, faults>>
      PROVE  RowsInv'
  BY <1>4 DEF RowsInv, Settled, Inserted, Acknowledged, Read, Buffered
<1>5. ASSUME NEW p \in Partition, Publish(p) PROVE RowsInv'
  BY <1>4, <1>5 DEF Publish, memory, flush
<1>6. ASSUME NEW p \in Partition, Poll(p) PROVE RowsInv'
  <2> DEFINE new == <<p, position[p]>>
  <2>1. /\ UNCHANGED <<rows, faults, committed>>
        /\ position' = [position EXCEPT ![p] = @ + 1]
        /\ Buffered' = Buffered \cup {new}
        /\ pc = "poll" /\ pc' # "flush activity"
    BY <1>6 DEF Poll, Keep, Buffered
  <2>2. ~Read(new)
    <3>1. position[p] \in Int
      BY <1>2
    <3>2. ~(position[p] < position[p])
      BY <3>1
    <3>3. QED
      BY <3>2 DEF Read
  <2>4. \A m \in Message : Settled(m) => Settled(m)'
    BY <1>3, <2>1, <2>2 DEF Settled, Acknowledged
  <2>5. QED
    BY <1>1, <2>1, <2>4, NoRows DEF Inserted
<1>7. ASSUME NEW p \in Partition, PollMalformed(p) PROVE RowsInv'
  <2>1. /\ UNCHANGED <<rows, txBuffer, activityBuffer, pc>>
        /\ position' = [position EXCEPT ![p] = @ + 1]
        /\ pc = "poll" /\ CommitReaches(position')
    BY <1>7 DEF PollMalformed
  <2>3. CASE committed' = position' /\ UNCHANGED faults
    <3>1. \A m \in Message : Settled(m) => Settled(m)'
      BY <1>1, <1>3, <2>1, <2>3, ReadStays DEF Settled, Acknowledged, Read, Buffered
    <3>2. QED
      BY <1>1, <2>1, <2>3, <3>1, NoRows DEF Inserted
  <2>4. CASE UNCHANGED committed /\ Fault
    BY <1>1, <2>1, <2>4, FaultPays DEF Fault
  <2>5. QED
    BY <2>1, <2>3, <2>4 DEF CommitReaches
<1>8. CASE FlushInterval
  <2>1. /\ UNCHANGED <<rows, faults, committed, position, txBuffer, activityBuffer>>
        /\ pc = "poll" /\ pc' = "flush transactions"
    BY <1>8 DEF FlushInterval, memory
  <2>2. QED
    BY <1>1, <2>1, NoRows DEF RowsInv, Inserted, Settled, Acknowledged, Read, Buffered
<1>9. CASE FlushTransactions
  <2>1. /\ FlushBatch(txBuffer, txSuccess') /\ txSuccess' \in BOOLEAN
        /\ pc = "flush transactions" /\ pc' = "flush activity"
        /\ UNCHANGED <<committed, position, txBuffer, activityBuffer>>
    BY <1>9 DEF FlushTransactions, FlushBatch, memory
  <2>2. SUFFICES ASSUME NEW m \in Message
                 PROVE  /\ rows'[m] <= 1 + faults'
                        /\ ~Settled(m) /\ ~Inserted(m)' => rows'[m] <= faults'
                        /\ ~txSuccess' /\ m \in activityBuffer => rows'[m] <= faults' - 1
    BY <2>1 DEF RowsInv, Settled, Acknowledged, Read, Buffered
  <2>3. /\ rows[m] \in Nat /\ faults \in Nat /\ rows[m] <= 1 + faults
        /\ ~Settled(m) => rows[m] <= faults
        /\ m \in txBuffer \cup activityBuffer => ~Settled(m)
    BY <1>1, <2>1 DEF RowsInv, RowsTypes, Inserted, Settled, Buffered
  <2>4. m \in txBuffer => m \notin activityBuffer
    BY <1>1, TopicsApart
  <2>5. Inserted(m)' <=> txSuccess' /\ m \in txBuffer
    BY <2>1 DEF Inserted
  <2>6. /\ txSuccess' => faults' = faults
        /\ ~txSuccess' => faults' = faults + 1
        /\ rows'[m] = rows[m] \/ (m \in txBuffer /\ rows'[m] = rows[m] + 1)
    BY <1>1, <2>1, FlushRows
  <2>7. QED
    BY <2>3, <2>4, <2>5, <2>6
<1>10. CASE FlushActivity
  <2>1. /\ FlushBatch(activityBuffer, activitySuccess') /\ activitySuccess' \in BOOLEAN
        /\ pc = "flush activity" /\ pc' = "finish"
        /\ UNCHANGED <<committed, position, txBuffer, activityBuffer, txSuccess>>
    BY <1>10 DEF FlushActivity, FlushBatch, memory
  <2>2. SUFFICES ASSUME NEW m \in Message
                 PROVE  /\ rows'[m] <= 1 + faults'
                        /\ ~Settled(m) /\ ~Inserted(m)' => rows'[m] <= faults'
    BY <2>1 DEF RowsInv, Settled, Acknowledged, Read, Buffered
  <2>3. /\ rows[m] \in Nat /\ faults \in Nat /\ rows[m] <= 1 + faults
        /\ ~Settled(m) /\ ~(txSuccess /\ m \in txBuffer) => rows[m] <= faults
        /\ ~txSuccess /\ m \in activityBuffer => rows[m] <= faults - 1
        /\ m \in txBuffer \cup activityBuffer => ~Settled(m)
    BY <1>1, <2>1 DEF RowsInv, RowsTypes, Inserted, Settled, Buffered
  <2>4. m \in txBuffer => m \notin activityBuffer
    BY <1>1, TopicsApart
  <2>5. Inserted(m)' <=> txSuccess /\ activitySuccess' /\ m \in txBuffer \cup activityBuffer
    BY <2>1 DEF Inserted, Buffered
  <2>6. /\ activitySuccess' => faults' = faults
        /\ ~activitySuccess' => faults' = faults + 1
        /\ rows'[m] = rows[m] \/ (m \in activityBuffer /\ rows'[m] = rows[m] + 1)
    BY <1>1, <2>1, FlushRows
  <2>7. QED
    BY <2>3, <2>4, <2>5, <2>6
<1>11. CASE Finish
  <2>1. /\ pc = "finish" /\ pc' = "poll" /\ UNCHANGED rows
        /\ txSuccess /\ activitySuccess => CommitReaches(position)
        /\ ~(txSuccess /\ activitySuccess) => UNCHANGED <<committed, faults>>
        /\ stopping => StartFrom(committed')
        /\ ~stopping /\ txSuccess /\ activitySuccess => StartFrom(position)
        /\ ~stopping /\ ~(txSuccess /\ activitySuccess) => UNCHANGED memory
    BY <1>11 DEF Finish
  <2>2. \/ Buffered' = {}
        \/ UNCHANGED <<txBuffer, activityBuffer, position>> /\ ~(txSuccess /\ activitySuccess)
    BY <2>1 DEF StartFrom, memory, Buffered
  <2>4. CASE txSuccess /\ activitySuccess /\ committed' = position /\ UNCHANGED faults
    <3>1. \A m \in Message : Settled(m) \/ Inserted(m) => Settled(m)'
      BY <1>3, <2>1, <2>2, <2>4 DEF BufferedIsRead, Settled, Inserted, Acknowledged, Read
    <3>2. QED
      BY <1>1, <2>1, <2>4, <3>1, NoRows
  <2>5. CASE UNCHANGED committed /\ Fault
    BY <1>1, <2>1, <2>5, FaultPays DEF Fault
  <2>6. CASE ~(txSuccess /\ activitySuccess)
    <3>1. \A m \in Message : Settled(m) \/ Inserted(m) => Settled(m)'
      BY <2>1, <2>2, <2>6 DEF Settled, Inserted, Acknowledged, Buffered
    <3>2. QED
      BY <1>1, <2>1, <2>6, <3>1, NoRows
  <2>7. QED
    BY <2>1, <2>4, <2>5, <2>6 DEF CommitReaches
<1>12. CASE Stop
  <2>1. /\ UNCHANGED <<rows, faults, committed>> /\ pc = "poll" /\ pc' # "flush activity"
    BY <1>12 DEF Stop
  <2>2. \/ Buffered' = {}
        \/ UNCHANGED <<txBuffer, activityBuffer, position>>
    BY <1>12 DEF Stop, StartFrom, memory, Buffered
  <2>4. \A m \in Message : Settled(m) \/ Inserted(m) => Settled(m)'
    BY <2>1, <2>2 DEF Settled, Inserted, Acknowledged, Buffered
  <2>5. QED
    BY <1>1, <2>1, <2>4, NoRows
<1>13. CASE Crash
  <2>1. UNCHANGED rows /\ faults' = faults + 1 /\ pc' = "poll" /\ Buffered' = {}
    BY <1>13 DEF Crash, Fault, StartFrom, Buffered
  <2>2. QED
    BY <1>1, <2>1, FaultPays
<1>14. CASE UNCHANGED vars
  BY <1>4, <1>14 DEF vars
<1>15. QED
  BY <1>5, <1>6, <1>7, <1>8, <1>9, <1>10, <1>11, <1>12, <1>13, <1>14 DEF Next

(* A row more than once needs a fault for each time more: neither the      *)
(* retry of both inserts nor a restart multiplies rows (consumer.py:80).   *)
THEOREM RowsNeedFaults == Spec => []DuplicatesNeedFaults
<1>1. Init => RowsInv /\ BufferedIsRead
  BY DEF Init, RowsInv, BufferedIsRead, Buffered
<1>2. RowsInv => DuplicatesNeedFaults
  BY DEF RowsInv, DuplicatesNeedFaults
<1>3. QED
  BY <1>1, <1>2, InitIInv, NextIInv, NextRowsInv,
     NextBufferedIsRead, TypeCorrect, PTL DEF Spec

-----------------------------------------------------------------------------
(* Only what was published is buffered or stored.                          *)
OnlyPublished ==
    /\ \A m \in Message : Stored(m) => m \in published
    /\ Buffered \subseteq published

(* An insert of published messages leaves only published ones behind.      *)
LEMMA FlushOnlyPublished ==
    ASSUME TypeOK, OnlyPublished, NEW batch, batch \subseteq published, NEW success,
           FlushBatch(batch, success)
    PROVE  \A m \in Message : Stored(m)' => m \in published
<1>1. rows' \in {rows, [m \in Message |-> IF m \in batch THEN rows[m] + 1 ELSE rows[m]]}
  BY DEF FlushBatch, Insert
<1>2. QED
  BY <1>1 DEF OnlyPublished, Stored

(* A flush is a step of the channel in which a part of a batch arrives.    *)
LEMMA FlushArrives ==
    ASSUME TypeOK, OnlyPublished, NEW batch, batch \subseteq published,
           NEW success \in BOOLEAN, FlushBatch(batch, success), logEnd' = logEnd
    PROVE  AtLeastOnce!ArriveSome
<1>1. published' = published
  BY DEF published
<1>2. \A m \in Message : Stored(m) => Stored(m)'
  BY FlushAdds DEF TypeOK
<1>3. arrived' = arrived \cup arrived'
  BY <1>2 DEF arrived
<1>4. arrived' \in SUBSET published
  BY FlushOnlyPublished DEF arrived
<1>5. QED
  BY <1>1, <1>3, <1>4 DEF AtLeastOnce!ArriveSome, AtLeastOnce!Arrive

(* A step of the consumer is a step of the channel, or none of its steps.  *)
LEMMA ChannelStep ==
    ASSUME TypeOK, TypeOK', OnlyPublished, [Next]_vars
    PROVE  /\ [AtLeastOnce!Publish \/ AtLeastOnce!ArriveSome]_<<published, arrived>>
           /\ OnlyPublished'
<1>1. ASSUME NEW p \in Partition, Publish(p)
      PROVE  AtLeastOnce!Publish /\ OnlyPublished'
  <2> DEFINE new == <<p, logEnd[p]>>
  <2>1. /\ logEnd \in [Partition -> 0 .. MaxLength]
        /\ logEnd[p] < MaxLength
        /\ logEnd' = [logEnd EXCEPT ![p] = @ + 1]
        /\ UNCHANGED <<rows, txBuffer, activityBuffer>>
    BY <1>1 DEF TypeOK, Publish, memory
  <2>2. new \in Message
    <3>1. logEnd[p] \in 0 .. MaxLength - 1
      BY <2>1, NextBelow, ConsumerAssumption DEF ConsumerAssumption
    <3>2. QED
      BY <3>1 DEF Message, TxMessage, ActivityMessage, Partition
  <2>3. new \notin published
    BY <2>1 DEF published
  <2>4. published' = published \cup {new}
    <3>1. ASSUME NEW m \in Message
          PROVE  m \in published' <=> m \in published \/ m = new
      <4>1. m[1] \in Partition /\ m[2] \in Int /\ m = <<m[1], m[2]>>
        BY MessageParts
      <4>2. CASE m[1] = p
        <5>1. m[2] < logEnd'[p] <=> m[2] < logEnd[p] \/ m[2] = logEnd[p]
          BY <2>1, <4>1
        <5>2. QED
          BY <4>1, <4>2, <5>1 DEF published
      <4>3. CASE m[1] # p
        BY <2>1, <4>1, <4>3 DEF published
      <4>4. QED
        BY <4>2, <4>3
    <3>2. QED
      BY <2>2, <3>1 DEF published
  <2>5. arrived' = arrived /\ \A m \in Message : Stored(m)' = Stored(m)
    BY <2>1 DEF arrived, Stored
  <2>6. OnlyPublished'
    BY <2>1, <2>4, <2>5 DEF OnlyPublished, Buffered, arrived
  <2>7. QED
    BY <2>2, <2>3, <2>4, <2>5, <2>6 DEF AtLeastOnce!Publish
<1>2. ASSUME NEW p \in Partition, Poll(p)
      PROVE  UNCHANGED <<published, arrived>> /\ OnlyPublished'
  <2>1. /\ UNCHANGED <<logEnd, rows>>
        /\ Buffered' = Buffered \cup {<<p, position[p]>>}
        /\ position[p] < logEnd[p]
    BY <1>2 DEF Poll, Keep, Buffered
  <2>2. <<p, position[p]>> \in published
    BY <2>1, NextOffset DEF published, Message
  <2>3. UNCHANGED <<published, arrived>>
    BY <2>1 DEF published, arrived, Stored
  <2>4. QED
    BY <2>1, <2>2, <2>3 DEF OnlyPublished, Stored
<1>3. ASSUME UNCHANGED <<logEnd, rows>>, Buffered' \subseteq Buffered
      PROVE  UNCHANGED <<published, arrived>> /\ OnlyPublished'
  BY <1>3 DEF published, arrived, Stored, OnlyPublished
<1>4. ASSUME NEW p \in Partition, PollMalformed(p)
      PROVE  UNCHANGED <<published, arrived>> /\ OnlyPublished'
  BY <1>3, <1>4 DEF PollMalformed, Buffered
<1>5. CASE FlushInterval
  BY <1>3, <1>5 DEF FlushInterval, memory, Buffered
<1>6. CASE FlushTransactions
  <2>1. /\ UNCHANGED <<logEnd, txBuffer, activityBuffer>>
        /\ FlushBatch(txBuffer, txSuccess') /\ txSuccess' \in BOOLEAN
        /\ txBuffer \subseteq published
    BY <1>6 DEF FlushTransactions, memory, TypeOK, OnlyPublished, Buffered
  <2>2. AtLeastOnce!ArriveSome
    BY <2>1, FlushArrives
  <2>3. OnlyPublished'
    BY <2>1, FlushOnlyPublished DEF OnlyPublished, Buffered, published
  <2>4. QED
    BY <2>2, <2>3
<1>7. CASE FlushActivity
  <2>1. /\ UNCHANGED <<logEnd, txBuffer, activityBuffer>>
        /\ FlushBatch(activityBuffer, activitySuccess') /\ activitySuccess' \in BOOLEAN
        /\ activityBuffer \subseteq published
    BY <1>7 DEF FlushActivity, memory, TypeOK, OnlyPublished, Buffered
  <2>2. AtLeastOnce!ArriveSome
    BY <2>1, FlushArrives
  <2>3. OnlyPublished'
    BY <2>1, FlushOnlyPublished DEF OnlyPublished, Buffered, published
  <2>4. QED
    BY <2>2, <2>3
<1>8. CASE Finish
  BY <1>3, <1>8 DEF Finish, StartFrom, memory, Buffered
<1>9. CASE Stop
  BY <1>3, <1>9 DEF Stop, StartFrom, memory, Buffered
<1>10. CASE Crash
  BY <1>3, <1>10 DEF Crash, StartFrom, Buffered
<1>11. CASE UNCHANGED vars
  BY <1>3, <1>11 DEF vars, Buffered
<1>12. QED
  BY <1>1, <1>2, <1>4, <1>5, <1>6, <1>7, <1>8, <1>9, <1>10, <1>11 DEF Next

(* The consumer implements the safety part of the channel: what is stored  *)
(* was published, and what is stored stays stored.                         *)
THEOREM ConsumerImplementsChannel == Spec => StoresPublished
<1>1. Init => OnlyPublished
  BY DEF Init, OnlyPublished, Stored, Buffered
<1>2. Init => AtLeastOnce!ChannelInit
  BY MessageParts DEF Init, AtLeastOnce!ChannelInit, published, arrived, Stored
<1>3. QED
  BY <1>1, <1>2, ChannelStep, TypeCorrect, PTL
  DEF Spec, StoresPublished, AtLeastOnce!ChannelSpec
=============================================================================
