------------------------------ MODULE StoreProofs ------------------------------
(***************************************************************************)
(* What TLAPS proves of the three stores the process keeps: the durable    *)
(* event stream loses nothing and repeats nothing without end, memory      *)
(* keeps its evidence, and cached sources are fresh.                       *)
(***************************************************************************)
EXTENDS EventStream, MemoryChains, SourceCache, ExtremaLemmas, FiniteSetTheorems, SequenceTheorems

\* EventStream.

Handled(e) == offered[e] \subseteq seen[e] \/ e \in givenUp

\* The entry in acknowledgement has left the batch and was handled; what is
\* settled was.
AckingIsHandled ==
  /\ acking \notin batch
  /\ acking # 0 => deliveries[acking] > 0 /\ Handled(acking)

\* Deliveries that crashes and failed XACKs have made the process forget.
Forgotten == MaxDeliveryAttempts * (streamFaults + streamCrashes)

\* An entry that will be delivered again has had as many deliveries as are
\* forgotten or counted; any other at most one round of attempts more.
DeliveriesAreCounted ==
  \A e \in Ids :
    deliveries[e] <= IF e \in Settled \cup {acking}
                     THEN Forgotten + MaxDeliveryAttempts
                     ELSE Forgotten + attempts[e]

StreamInv == StreamTypeOK /\ AckingIsHandled /\ AckedIsHandled /\ DeliveriesAreCounted
-----------------------------------------------------------------------------
\* The counted deliveries never reach the bound above which they are not told
\* apart.
LEMMA CapIsUnreached ==
  ASSUME NEW n \in 0..DeliveryBound, StreamAssumption
  PROVE  Min({n + 1, DeliveryBound}) \in 0..DeliveryBound
         /\ Min({n + 1, DeliveryBound}) <= n + 1
         /\ Min({n + 1, DeliveryBound}) > 0
<1>1. DeliveryBound \in Nat \ {0}
  BY DEF DeliveryBound, StreamAssumption
<1>2. {n + 1, DeliveryBound} \in SUBSET Nat
  BY <1>1
<1>3. Min({n + 1, DeliveryBound}) \in {n + 1, DeliveryBound}
      /\ Min({n + 1, DeliveryBound}) <= n + 1
      /\ Min({n + 1, DeliveryBound}) <= DeliveryBound
  BY <1>2, MinOfNats
<1>4. QED
  BY <1>1, <1>3

\* A crash or a failed XACK forgets at most one round of attempts.
LEMMA ForgottenGrows ==
  ASSUME StreamAssumption, StreamTypeOK,
         \/ UNCHANGED <<streamFaults, streamCrashes>>
         \/ streamFaults' = streamFaults + 1 /\ UNCHANGED streamCrashes
         \/ streamCrashes' = streamCrashes + 1 /\ UNCHANGED streamFaults
  PROVE  /\ Forgotten \in Int /\ Forgotten' \in Int
         /\ Forgotten' = IF UNCHANGED <<streamFaults, streamCrashes>>
                         THEN Forgotten ELSE Forgotten + MaxDeliveryAttempts
<1> DEFINE n == streamFaults + streamCrashes
<1>1. n \in Nat /\ MaxDeliveryAttempts \in Nat /\ streamFaults \in Nat /\ streamCrashes \in Nat
  BY DEF StreamTypeOK, StreamAssumption
<1>2. /\ MaxDeliveryAttempts * n \in Int
      /\ MaxDeliveryAttempts * (n + 1) = MaxDeliveryAttempts * n + MaxDeliveryAttempts
  BY <1>1
<1>3. Forgotten = MaxDeliveryAttempts * n
  BY DEF Forgotten
<1>4. CASE UNCHANGED <<streamFaults, streamCrashes>>
  BY <1>2, <1>3, <1>4 DEF Forgotten
<1>5. CASE \/ streamFaults' = streamFaults + 1 /\ UNCHANGED streamCrashes
           \/ streamCrashes' = streamCrashes + 1 /\ UNCHANGED streamFaults
  <2>1. streamFaults' + streamCrashes' = n + 1
    BY <1>1, <1>5
  <2>2. streamFaults' # streamFaults \/ streamCrashes' # streamCrashes
    BY <1>1, <1>5
  <2>3. Forgotten' = MaxDeliveryAttempts * (n + 1)
    BY <2>1 DEF Forgotten
  <2> HIDE DEF n
  <2>4. QED
    BY <1>2, <1>3, <2>2, <2>3
<1>6. QED
  BY <1>4, <1>5

\* Where the ids of the tables lie.
LEMMA IdsInRange ==
  ASSUME StreamTypeOK
  PROVE  /\ Len(entries) \in Nat /\ Len(entries) <= MaxEvents
         /\ deliveredCount \in Nat /\ deliveredCount <= Len(entries)
         /\ batch \subseteq unacked /\ unacked \subseteq Ids /\ Settled \subseteq Ids
         /\ Available \subseteq 1..Len(entries) /\ ReadGroup \subseteq Available
         /\ 0 \notin Ids
<1>1. entries \in Seq(EventTypes)
  BY DEF StreamTypeOK
<1>2. Len(entries) \in Nat
  BY <1>1
<1>3. /\ Len(entries) <= MaxEvents /\ deliveredCount \in 0..Len(entries)
      /\ unacked \subseteq 1..deliveredCount /\ batch \subseteq unacked
  BY DEF StreamTypeOK
<1>4. MaxEvents \in Nat
  BY StreamAssumption DEF StreamAssumption
<1>5. 1..deliveredCount \subseteq Ids /\ 0 \notin Ids
  BY <1>2, <1>3, <1>4 DEF Ids
<1>6. Available \subseteq 1..Len(entries)
  <2>1. \A d \in unacked : d \in Nat /\ 1 <= d /\ d <= deliveredCount
    BY <1>2, <1>3
  <2>2. \A d \in (deliveredCount + 1)..Len(entries) : d \in 1..Len(entries)
    BY <1>2, <1>3
  <2>3. \A d \in unacked : d \in 1..Len(entries)
    BY <1>2, <1>3, <2>1
  <2>4. QED
    BY <2>2, <2>3 DEF Available
<1>7. Settled \subseteq Ids /\ unacked \subseteq Ids
  BY <1>3, <1>5 DEF Settled
<1>8. QED
  BY <1>2, <1>3, <1>5, <1>6, <1>7 DEF ReadGroup

\* readGroup skips nobody: an available entry older than one it returns is
\* returned too.
LEMMA OldestFirst ==
  ASSUME StreamTypeOK, NEW e \in ReadGroup, NEW d \in Available, d <= e
  PROVE  d \in ReadGroup
<1>1. Available \subseteq 1..Len(entries) /\ Len(entries) \in Nat /\ e \in Available
  BY IdsInRange
<1>2. IsFiniteSet(OlderThan(e))
  <2>1. IsFiniteSet(1..Len(entries))
    BY <1>1, FS_Interval
  <2>2. QED
    BY <1>1, <2>1, FS_Subset DEF OlderThan
<1>3. OlderThan(d) \subseteq OlderThan(e)
  <2>1. ASSUME NEW f \in Available, f < d PROVE f < e
    <3>1. f \in Nat /\ d \in Nat /\ e \in Nat
      BY <1>1
    <3>2. QED
      BY <2>1, <3>1
  <2>2. QED
    BY <2>1 DEF OlderThan
<1>4. Cardinality(OlderThan(d)) <= Cardinality(OlderThan(e))
      /\ Cardinality(OlderThan(d)) \in Nat /\ Cardinality(OlderThan(e)) \in Nat
  BY <1>2, <1>3, FS_Subset, FS_CardinalityType
<1>5. Cardinality(OlderThan(e)) < BatchSize
  BY DEF ReadGroup
<1>6. QED
  BY <1>4, <1>5, StreamAssumption DEF ReadGroup, StreamAssumption

LEMMA StreamInvInit == StreamInit => StreamInv
<1> SUFFICES ASSUME StreamInit PROVE StreamInv
  OBVIOUS
<1>1. Len(entries) = 0 /\ entries \in Seq(EventTypes)
  BY DEF StreamInit
<1>2. Settled = {}
  BY DEF StreamInit, Settled
<1>3. Forgotten = 0 /\ DeliveryBound \in Nat
  BY StreamAssumption DEF StreamInit, Forgotten, StreamAssumption, DeliveryBound
<1>4. StreamTypeOK
  BY <1>1, <1>3, StreamAssumption DEF StreamInit, StreamTypeOK, StreamAssumption
<1>5. QED
  BY <1>2, <1>3, <1>4, StreamAssumption DEF StreamInit, StreamInv, AckingIsHandled, AckedIsHandled,
     DeliveriesAreCounted, Ids, StreamAssumption

\* What a step must keep of each entry's deliveries, when only the fault count
\* and the broker's table move.
LEMMA DeliveriesStayCounted ==
  ASSUME StreamInv, StreamAssumption, UNCHANGED <<deliveries, attempts>>,
         \/ UNCHANGED <<streamFaults, streamCrashes>>
         \/ streamFaults' = streamFaults + 1 /\ UNCHANGED streamCrashes,
         \A e \in Ids : (e \notin Settled' \cup {acking'} /\ e \in Settled \cup {acking})
                         => streamFaults' = streamFaults + 1
  PROVE  DeliveriesAreCounted'
<1>1. /\ Forgotten \in Int /\ Forgotten' \in Int
      /\ Forgotten' = IF UNCHANGED <<streamFaults, streamCrashes>>
                      THEN Forgotten ELSE Forgotten + MaxDeliveryAttempts
  BY ForgottenGrows DEF StreamInv
<1>2. MaxDeliveryAttempts \in Nat
      /\ \A e \in Ids : /\ deliveries[e] \in Int
                       /\ attempts[e] \in 0..(MaxDeliveryAttempts - 1)
  BY DEF StreamInv, StreamTypeOK, StreamAssumption, DeliveryBound
<1>3. \A e \in Ids : streamFaults' = streamFaults + 1 => ~ UNCHANGED <<streamFaults, streamCrashes>>
  BY DEF StreamInv, StreamTypeOK
<1>4. QED
  BY <1>1, <1>2, <1>3 DEF StreamInv, DeliveriesAreCounted

\* A publish appends to the stream, and leaves the group alone.
LEMMA PublishStep ==
  ASSUME StreamInv, NEW type \in EventTypes, Publish(type)
  PROVE  StreamInv'
<1> USE DEF StreamInv
<1>1. /\ entries' \in Seq(EventTypes) /\ Len(entries') <= MaxEvents /\ Len(entries') >= Len(entries)
      /\ Len(entries') \in Nat /\ Len(entries) \in Nat
      /\ streamFaults' \in 0..MaxStreamFaults
  <2>1. entries \in Seq(EventTypes) /\ Len(entries) \in Nat /\ MaxStreamFaults \in Nat
        /\ streamFaults \in 0..MaxStreamFaults /\ Len(entries) < MaxEvents /\ MaxEvents \in Nat
    BY StreamAssumption, IdsInRange DEF Publish, StreamTypeOK, StreamAssumption
  <2>2. CASE entries' = Append(entries, type) /\ UNCHANGED streamFaults
    BY <2>1, <2>2
  <2>3. CASE StreamFault /\ UNCHANGED entries
    BY <2>1, <2>3 DEF StreamFault
  <2>4. QED
    BY <2>2, <2>3 DEF Publish
<1>2. UNCHANGED <<deliveredCount, unacked, consumer, streamHistory, streamCrashes>>
  BY DEF Publish
<1>3. StreamTypeOK'
  BY <1>1, <1>2 DEF StreamTypeOK, consumer, streamHistory
<1>4. DeliveriesAreCounted'
  BY <1>2, StreamAssumption, DeliveriesStayCounted
     DEF Publish, StreamFault, Settled, consumer, streamHistory
<1>5. AckedIsHandled' /\ AckingIsHandled'
  BY <1>2 DEF AckedIsHandled, AckingIsHandled, Settled, Handled, consumer, streamHistory
<1>6. QED
  BY <1>3, <1>4, <1>5

\* A flush takes the oldest, so that what it hands out is settled no sooner.
LEMMA FlushStep ==
  ASSUME StreamInv, Flush
  PROVE  StreamInv'
<1> USE DEF StreamInv
<1>1. /\ batch' = ReadGroup /\ unacked' = unacked \cup ReadGroup /\ acking = 0
      /\ deliveredCount' = Max({deliveredCount} \cup ReadGroup)
      /\ UNCHANGED <<entries, subscribed, acking, attempts, streamHistory, streamFaults, streamCrashes>>
  BY DEF Flush, Idle
<1>2. Len(entries) \in Nat /\ deliveredCount \in 0..Len(entries)
      /\ unacked \subseteq 1..deliveredCount
  BY IdsInRange DEF StreamTypeOK
<1>3. ReadGroup \subseteq 1..Len(entries) /\ {deliveredCount} \cup ReadGroup \subseteq 0..Len(entries)
  BY <1>2, IdsInRange
<1>4. /\ deliveredCount' \in {deliveredCount} \cup ReadGroup
      /\ \A d \in {deliveredCount} \cup ReadGroup : d <= deliveredCount'
  <2> DEFINE S == {deliveredCount} \cup ReadGroup
  <2>1. S \in SUBSET (0..Len(entries)) /\ S # {} /\ deliveredCount' = Max(S)
    BY <1>1, <1>3
  <2> HIDE DEF S
  <2>2. S \in SUBSET Nat /\ \A m \in S : m <= Len(entries)
    BY <2>1
  <2>3. Max(S) \in S /\ \A m \in S : m <= Max(S)
    BY <1>2, <2>1, <2>2, MaxOfNats
  <2>4. QED
    BY <2>1, <2>3 DEF S
<1>5. deliveredCount' \in 0..Len(entries) /\ deliveredCount <= deliveredCount'
      /\ unacked' \subseteq 1..deliveredCount'
  <2>1. deliveredCount' \in 0..Len(entries) /\ deliveredCount <= deliveredCount'
    BY <1>2, <1>3, <1>4
  <2>2. \A d \in ReadGroup : d \in 1..deliveredCount'
    BY <1>2, <1>3, <1>4, <2>1
  <2>3. \A d \in unacked : d \in 1..deliveredCount'
    BY <1>2, <2>1
  <2>4. QED
    BY <1>1, <2>1, <2>2, <2>3
<1>6. (deliveredCount + 1)..deliveredCount' \subseteq ReadGroup
  <2> SUFFICES ASSUME NEW d \in (deliveredCount + 1)..deliveredCount' PROVE d \in ReadGroup
    OBVIOUS
  <2>1. deliveredCount' \in ReadGroup /\ d <= deliveredCount' /\ d \in Available
    BY <1>2, <1>4, <1>5 DEF Available
  <2>2. QED
    BY <2>1, OldestFirst
<1>7. \A e \in ReadGroup : e \in unacked \/ e > deliveredCount
  BY IdsInRange DEF Available
<1>8. ASSUME NEW e \in Int PROVE e \in Settled' <=> e \in Settled
  <2>1. CASE e <= deliveredCount
    BY <1>1, <1>2, <1>5, <1>7, <2>1 DEF Settled
  <2>2. CASE e > deliveredCount
    <3>1. e \notin Settled
      BY <1>2, <2>2 DEF Settled
    <3>2. e \in 1..deliveredCount' => e \in (deliveredCount + 1)..deliveredCount'
      BY <1>2, <1>5, <2>2
    <3>3. e \in 1..deliveredCount' => e \in unacked'
      BY <1>1, <1>6, <3>2
    <3>4. QED
      BY <3>1, <3>3 DEF Settled
  <2>3. QED
    BY <1>2, <2>1, <2>2
<1>10. Settled' = Settled
  <2>1. Settled \subseteq Int /\ Settled' \subseteq Int
    BY DEF Settled
  <2>2. QED
    BY <1>8, <2>1
<1>11. StreamTypeOK'
  <2>1. batch' \subseteq unacked' /\ acking' = 0 /\ givenUp \subseteq 1..deliveredCount'
    BY <1>1, <1>2, <1>5 DEF StreamTypeOK
  <2>2. QED
    BY <1>1, <1>5, <2>1 DEF StreamTypeOK, streamHistory
<1>12. DeliveriesAreCounted'
  BY <1>1, <1>10, StreamAssumption, DeliveriesStayCounted DEF streamHistory
<1>13. AckedIsHandled' /\ AckingIsHandled'
  BY <1>1, <1>3, <1>10 DEF AckedIsHandled, AckingIsHandled, Handled, streamHistory
<1>14. QED
  BY <1>11, <1>12, <1>13

\* A delivery counts as one more attempt, or goes on to the acknowledgement.
LEMMA DeliverStep ==
  ASSUME StreamInv, Deliver
  PROVE  StreamInv'
<1> USE DEF StreamInv
<1>1. batch \subseteq Nat /\ batch # {} /\ batch \subseteq unacked /\ acking = 0
      /\ unacked \subseteq 1..deliveredCount /\ deliveredCount \in Nat
  BY IdsInRange DEF Deliver, StreamTypeOK
<1>2. PICK e \in batch : e = Min(batch)
  BY <1>1, MinOfNats
<1> DEFINE called == {h \in subscribed : Wants[h] = entries[e]}
<1>3. e \in unacked /\ e \in Ids /\ e # 0 /\ e \in 1..deliveredCount
  BY <1>1, <1>2, IdsInRange
<1>4. PICK throwing \in SUBSET called :
        LET failed == Failed(called, throwing)
            spent == failed /\ AttemptsSpent(RecordFailure(e))
        IN /\ seen' = [seen EXCEPT ![e] = @ \cup (called \ throwing)]
           /\ offered' = [offered EXCEPT ![e] = called]
           /\ deliveries' = [deliveries EXCEPT ![e] = Min({@ + 1, DeliveryBound})]
           /\ batch' = batch \ {e}
           /\ givenUp' = IF spent THEN givenUp \cup {e} ELSE givenUp
           /\ IF failed /\ ~ spent
              THEN acking' = 0 /\ attempts' = [attempts EXCEPT ![e] = RecordFailure(e)]
              ELSE acking' = e /\ attempts' = [attempts EXCEPT ![e] = 0]
  BY <1>2 DEF Deliver
<1>5. called \subseteq Handlers /\ throwing \subseteq Handlers
  BY DEF StreamTypeOK
<1>6. UNCHANGED <<broker, subscribed, streamFaults, streamCrashes>>
  BY DEF Deliver
<1> HIDE DEF called
<1> DEFINE kept == Failed(called, throwing) /\ ~ AttemptsSpent(RecordFailure(e))
<1>7. /\ deliveries[e] \in 0..DeliveryBound /\ deliveries'[e] \in 0..DeliveryBound
      /\ deliveries'[e] <= deliveries[e] + 1 /\ deliveries'[e] > 0
      /\ deliveries' \in [Ids -> 0..DeliveryBound]
      /\ \A d \in Ids \ {e} : deliveries'[d] = deliveries[d]
  BY <1>3, <1>4, StreamAssumption, CapIsUnreached DEF StreamTypeOK
<1>8. /\ attempts[e] \in 0..(MaxDeliveryAttempts - 1) /\ MaxDeliveryAttempts \in Nat
      /\ attempts' \in [Ids -> 0..(MaxDeliveryAttempts - 1)]
      /\ \A d \in Ids \ {e} : attempts'[d] = attempts[d]
      /\ kept => attempts'[e] = attempts[e] + 1
  BY <1>3, <1>4, StreamAssumption DEF StreamTypeOK, RecordFailure, AttemptsSpent, StreamAssumption
<1>9. /\ acking' = IF kept THEN 0 ELSE e
      /\ batch' = batch \ {e}
      /\ givenUp' \in {givenUp, givenUp \cup {e}}
  BY <1>4
<1>10. StreamTypeOK'
  <2>1. seen' \in [Ids -> SUBSET Handlers] /\ offered' \in [Ids -> SUBSET Handlers]
    BY <1>3, <1>4, <1>5 DEF StreamTypeOK
  <2>2. QED
    BY <1>1, <1>3, <1>6, <1>7, <1>8, <1>9, <2>1 DEF StreamTypeOK, broker
<1>11. Settled' = Settled /\ e \notin Settled
  BY <1>3, <1>6 DEF Settled, broker
<1>12. \A d \in Settled : Handled(d)' = Handled(d)
  BY <1>3, <1>4, <1>9, <1>11 DEF Handled, Settled
<1>13. ~ kept => Handled(e)'
  <2>1. CASE ~ Failed(called, throwing)
    <3>1. throwing = {}
      BY <2>1 DEF Failed
    <3>2. offered'[e] = called /\ called \subseteq seen'[e]
      BY <1>3, <1>4, <3>1 DEF StreamTypeOK
    <3>3. QED
      BY <3>2 DEF Handled
  <2>2. CASE Failed(called, throwing) /\ AttemptsSpent(RecordFailure(e))
    <3>1. e \in givenUp'
      BY <1>4, <2>2
    <3>2. QED
      BY <3>1 DEF Handled
  <2>3. QED
    BY <2>1, <2>2
<1>14. AckedIsHandled' /\ AckingIsHandled'
  <2>1. \A d \in Settled : d \in Ids
    BY IdsInRange
  <2>2. \A d \in Settled : deliveries'[d] > 0 /\ Handled(d)'
    BY <1>7, <1>11, <1>12, <2>1 DEF AckedIsHandled, Handled
  <2>3. AckingIsHandled'
    <3>1. CASE kept
      BY <1>1, <1>9, <3>1, IdsInRange DEF AckingIsHandled
    <3>2. CASE ~ kept
      <4>1. acking' = e /\ acking' \notin batch'
        BY <1>9, <3>2
      <4>2. deliveries'[e] > 0 /\ Handled(e)'
        BY <1>7, <1>13, <3>2
      <4>3. QED
        BY <4>1, <4>2 DEF AckingIsHandled, Handled
    <3>3. QED
      BY <3>1, <3>2
  <2>4. QED
    BY <1>11, <2>2, <2>3 DEF AckedIsHandled, Handled
<1>15. DeliveriesAreCounted'
  <2>1. Forgotten \in Int /\ Forgotten' = Forgotten
    BY <1>6, StreamAssumption, ForgottenGrows
  <2>2. deliveries[e] <= Forgotten + attempts[e]
    BY <1>1, <1>3, <1>11 DEF DeliveriesAreCounted
  <2>3. deliveries'[e] <= IF kept THEN Forgotten + attempts'[e] ELSE Forgotten + MaxDeliveryAttempts
    BY <1>7, <1>8, <2>1, <2>2
  <2>4. ASSUME NEW d \in Ids, d # e
        PROVE  deliveries'[d] <= IF d \in Settled' \cup {acking'}
                                THEN Forgotten' + MaxDeliveryAttempts ELSE Forgotten' + attempts'[d]
    <3>1. d # 0
      BY DEF Ids
    <3>2. QED
      BY <1>1, <1>7, <1>8, <1>9, <1>11, <2>1, <2>4, <3>1 DEF DeliveriesAreCounted
  <2>5. QED
    BY <1>3, <1>9, <1>11, <2>1, <2>3, <2>4 DEF DeliveriesAreCounted
<1>16. QED
  BY <1>10, <1>14, <1>15

\* What leaves the broker's table is what was being acknowledged.
LEMMA AckStep ==
  ASSUME StreamInv, Ack
  PROVE  StreamInv'
<1> USE DEF StreamInv
<1>1. /\ acking # 0 /\ acking' = 0 /\ acking \in unacked /\ acking \notin batch
      /\ UNCHANGED <<entries, deliveredCount, subscribed, batch, attempts, streamHistory, streamCrashes>>
      /\ \/ unacked' = unacked \ {acking} /\ UNCHANGED streamFaults
         \/ streamFaults' = streamFaults + 1 /\ streamFaults < MaxStreamFaults /\ UNCHANGED unacked
  BY DEF Ack, StreamTypeOK, AckingIsHandled, StreamFault
<1>2. /\ unacked' \subseteq unacked /\ batch' \subseteq unacked'
      /\ streamFaults' \in 0..MaxStreamFaults
  BY <1>1, StreamAssumption DEF StreamTypeOK, StreamAssumption
<1>3. StreamTypeOK'
  BY <1>1, <1>2 DEF StreamTypeOK, streamHistory
<1>4. acking \in 1..deliveredCount /\ 0 \notin 1..deliveredCount
  BY <1>1 DEF StreamTypeOK
<1>5. Settled' = IF streamFaults' = streamFaults THEN Settled \cup {acking} ELSE Settled
  BY <1>1, <1>4 DEF Settled, StreamTypeOK
<1>6. DeliveriesAreCounted'
  BY <1>1, <1>5, StreamAssumption, DeliveriesStayCounted DEF streamHistory
<1>7. AckedIsHandled' /\ AckingIsHandled'
  <2>1. 0 \notin batch
    BY DEF StreamTypeOK
  <2>2. QED
    BY <1>1, <1>5, <2>1 DEF AckedIsHandled, AckingIsHandled, Handled, streamHistory
<1>8. QED
  BY <1>3, <1>6, <1>7

\* A crash forgets the counts, which is one round of attempts for each entry.
LEMMA StreamCrashStep ==
  ASSUME StreamInv, StreamCrash
  PROVE  StreamInv'
<1> USE DEF StreamInv
<1>1. /\ streamCrashes < MaxStreamCrashes /\ streamCrashes' = streamCrashes + 1
      /\ subscribed' = {} /\ batch' = {} /\ acking' = 0
      /\ attempts' = [e \in Ids |-> 0]
      /\ unacked' \in {unacked, unacked \ {acking}}
      /\ UNCHANGED <<entries, deliveredCount, streamHistory, streamFaults>>
  BY DEF StreamCrash
<1>2. streamCrashes' \in 0..MaxStreamCrashes /\ attempts' \in [Ids -> 0..(MaxDeliveryAttempts - 1)]
      /\ unacked' \subseteq unacked
  BY <1>1, StreamAssumption DEF StreamTypeOK, StreamAssumption
<1>3. StreamTypeOK'
  BY <1>1, <1>2 DEF StreamTypeOK, streamHistory
<1>4. Settled \subseteq Settled' /\ Settled' \subseteq Settled \cup ({acking} \ {0})
  BY <1>1 DEF Settled, StreamTypeOK
<1>5. DeliveriesAreCounted'
  <2>1. /\ Forgotten \in Int /\ Forgotten' = Forgotten + MaxDeliveryAttempts
    <3>1. streamCrashes' # streamCrashes
      BY <1>1 DEF StreamTypeOK
    <3>2. QED
      BY <1>1, <3>1, StreamAssumption, ForgottenGrows
  <2>2. MaxDeliveryAttempts \in Nat
        /\ \A e \in Ids : /\ deliveries[e] \in Int
                         /\ attempts[e] \in 0..(MaxDeliveryAttempts - 1) /\ attempts'[e] = 0
    BY <1>1, StreamAssumption DEF StreamTypeOK, StreamAssumption, DeliveryBound
  <2>3. \A e \in Ids : deliveries[e] <= Forgotten + MaxDeliveryAttempts
    BY <2>1, <2>2 DEF DeliveriesAreCounted
  <2>4. deliveries' = deliveries
    BY <1>1 DEF streamHistory
  <2>5. QED
    BY <2>1, <2>2, <2>3, <2>4 DEF DeliveriesAreCounted
<1>6. AckedIsHandled' /\ AckingIsHandled'
  BY <1>1, <1>4 DEF AckedIsHandled, AckingIsHandled, Handled, streamHistory
<1>7. QED
  BY <1>3, <1>5, <1>6

LEMMA StreamInvStep == StreamInv /\ [StreamNext]_streamVars => StreamInv'
<1> SUFFICES ASSUME StreamInv, [StreamNext]_streamVars PROVE StreamInv'
  OBVIOUS
<1>1. ASSUME NEW h \in Handlers, Subscribe(h) PROVE StreamInv'
  <2>1. subscribed' \subseteq Handlers
    BY <1>1 DEF Subscribe, StreamInv, StreamTypeOK
  <2>2. UNCHANGED <<broker, batch, acking, attempts, streamHistory, streamFaults, streamCrashes>>
    BY <1>1 DEF Subscribe
  <2>3. QED
    BY <2>1, <2>2 DEF StreamInv, StreamTypeOK, AckingIsHandled, AckedIsHandled, Handled,
       DeliveriesAreCounted, Settled, Forgotten, broker, streamHistory
<1>2. CASE UNCHANGED streamVars
  BY <1>2 DEF streamVars, StreamInv, StreamTypeOK, AckingIsHandled, AckedIsHandled, Handled,
     DeliveriesAreCounted, Settled, Forgotten, broker, consumer, streamHistory
<1>3. QED
  BY <1>1, <1>2, PublishStep, FlushStep, DeliverStep, AckStep, StreamCrashStep
     DEF StreamNext, StreamWork

LEMMA StreamCorrect == StreamSpec => []StreamInv
BY StreamInvInit, StreamInvStep, PTL DEF StreamSpec

\* For any number of events, handlers, faults and crashes, RedisEventsBus lets
\* go of an entry only after it was delivered and every handler subscribed then
\* has accepted it, or after its attempts were spent.
THEOREM NothingIsLost == StreamSpec => []AckedIsHandled
<1>1. StreamInv => AckedIsHandled
  BY DEF StreamInv
<1>2. QED
  BY <1>1, StreamCorrect, PTL

\* However deliveries fail, no entry is delivered more than maxDeliveryAttempts
\* times for each end of the process and each failed XACK, and once over.
THEOREM RepeatsBounded == StreamSpec => []RepeatsAreBounded
<1>1. StreamInv => RepeatsAreBounded
  <2> SUFFICES ASSUME StreamInv, NEW e \in Ids
               PROVE  deliveries[e] <= MaxDeliveryAttempts * (1 + streamFaults + streamCrashes)
    BY DEF RepeatsAreBounded
  <2> DEFINE n == streamFaults + streamCrashes
  <2>1. n \in Nat /\ MaxDeliveryAttempts \in Nat /\ 1 + streamFaults + streamCrashes = n + 1
    BY StreamAssumption DEF StreamInv, StreamTypeOK, StreamAssumption
  <2> HIDE DEF n
  <2>2. /\ MaxDeliveryAttempts * (n + 1) = MaxDeliveryAttempts * n + MaxDeliveryAttempts
        /\ MaxDeliveryAttempts * n \in Int
    BY <2>1
  <2>3. attempts[e] \in 0..(MaxDeliveryAttempts - 1) /\ deliveries[e] \in Int
    BY DEF StreamInv, StreamTypeOK, DeliveryBound
  <2>4. Forgotten = MaxDeliveryAttempts * n
    BY DEF Forgotten, n
  <2>5. deliveries[e] <= MaxDeliveryAttempts * (n + 1)
    BY <2>1, <2>2, <2>3, <2>4 DEF StreamInv, DeliveriesAreCounted
  <2>6. QED
    BY <2>1, <2>5
<1>2. QED
  BY <1>1, StreamCorrect, PTL

----------------------------------------------------------------------------
\* MemoryChains.

Confidence == 0..MAX_CONFIDENCE

Version == [supersedes : Nat, confidence : Confidence, status : {"ACTIVE", "ARCHIVED"},
            evidence : SUBSET Ingests]

IngestRow == [step : {"idle", "read", "done"}, head : Nat, siblings : Nat]

\* Versions only grow in number, so what a handler has read stays behind them.
MemoryTyped ==
  /\ versions \in Seq(Version)
  /\ \A v \in DOMAIN versions : versions[v].supersedes < v /\ versions[v].evidence # {}
  /\ ingest \in [Ingests -> IngestRow]
  /\ \A i \in Ingests : ingest[i].head <= Len(versions)
  /\ tick \in {"idle", "fold", "decay", "archive"}
  /\ DOMAIN rows \subseteq DOMAIN versions /\ \A v \in DOMAIN rows : rows[v] \in Confidence
  /\ faded \subseteq DOMAIN versions

\* A planned fold goes into a live version that is not itself folded, and only
\* a tick that folds has plans.
FoldsAreLive ==
  /\ DOMAIN into \subseteq DOMAIN versions
  /\ \A v \in DOMAIN into :
       /\ tick = "fold" /\ v \in DOMAIN rows
       /\ into[v] \in Active \cap DOMAIN rows /\ into[v] \notin DOMAIN into

MemoryInv == MemoryTyped /\ FoldsAreLive /\ EvidenceIsKept
-----------------------------------------------------------------------------
\* A function on 1..n is a sequence of length n.
LEMMA FunctionIsSeq ==
  ASSUME NEW S, NEW n \in Nat, NEW f \in [1..n -> S]
  PROVE  f \in Seq(S) /\ Len(f) = n /\ DOMAIN f = 1..n
<1>1. f \in Seq(S)
  BY SeqDef
<1>2. Len(f) \in Nat /\ DOMAIN f = 1..Len(f) /\ DOMAIN f = 1..n
  BY <1>1, LenProperties
<1>3. QED
  BY <1>1, <1>2

\* The least and the greatest of two confidences.
LEMMA ConfidenceStays ==
  ASSUME NEW S \in SUBSET Confidence, S # {}
  PROVE  Max(S) \in Confidence /\ Min(S) \in Confidence
<1>1. S \in SUBSET Nat /\ \A m \in S : m <= MAX_CONFIDENCE
  BY DEF Confidence
<1>2. MAX_CONFIDENCE \in Nat
  BY DEF MAX_CONFIDENCE
<1>3. Max(S) \in S /\ Min(S) \in S
  BY <1>1, <1>2, MaxOfNats, MinOfNats
<1>4. QED
  BY <1>3

LEMMA RecurredIsConfidence ==
  ASSUME NEW siblings \in Nat
  PROVE  Recurred(siblings) \in Confidence
<1> DEFINE grown == BaseConfidence + siblings * CONFIDENCE_RECURRENCE_INCREMENT
<1>1. grown \in Nat
  BY MemoryAssumption DEF MemoryAssumption, CONFIDENCE_RECURRENCE_INCREMENT
<1> HIDE DEF grown
<1>2. {grown, MAX_CONFIDENCE} \in SUBSET Nat
  BY <1>1 DEF MAX_CONFIDENCE
<1>3. /\ Min({grown, MAX_CONFIDENCE}) \in {grown, MAX_CONFIDENCE}
      /\ Min({grown, MAX_CONFIDENCE}) <= MAX_CONFIDENCE
  BY <1>2, MinOfNats
<1>4. Min({grown, MAX_CONFIDENCE}) \in Confidence
  BY <1>1, <1>3 DEF Confidence, MAX_CONFIDENCE
<1>5. QED
  BY <1>4 DEF Recurred, grown

LEMMA TaperedIsConfidence ==
  ASSUME NEW confidence \in Confidence
  PROVE  Tapered(confidence) \in Confidence
<1>1. (confidence * 7) \div 10 \in Confidence /\ Floor \in Confidence
  BY MemoryAssumption DEF MemoryAssumption, Confidence, MAX_CONFIDENCE
<1>2. Max({(confidence * 7) \div 10, Floor}) \in Confidence
  BY <1>1, ConfidenceStays
<1>3. QED
  BY <1>2, ConfidenceStays DEF Tapered

\* The newest live version, and how many there are.
LEMMA HeadIsVersion ==
  ASSUME MemoryTyped
  PROVE  /\ Max({0} \cup Active) \in 0..Len(versions) /\ Cardinality(Active) \in Nat
         /\ Len(versions) \in Nat /\ DOMAIN versions = 1..Len(versions)
         /\ Active \subseteq DOMAIN versions
         /\ \A v \in Active : versions[v].confidence \in Confidence
<1>1. Len(versions) \in Nat /\ DOMAIN versions = 1..Len(versions)
  BY LenProperties DEF MemoryTyped
<1>2. Active \subseteq 1..Len(versions)
  BY <1>1 DEF Active
<1>3. {0} \cup Active \in SUBSET Nat /\ \A m \in {0} \cup Active : m <= Len(versions)
  BY <1>1, <1>2
<1>4. Max({0} \cup Active) \in {0} \cup Active
  BY <1>1, <1>3, MaxOfNats
<1>5. IsFiniteSet(1..Len(versions))
  BY <1>1, FS_Interval
<1>6. Cardinality(Active) \in Nat
  BY <1>2, <1>5, FS_Subset, FS_CardinalityType
<1>7. \A v \in Active : versions[v] \in Version
  BY <1>1, <1>2, ElementOfSeq DEF MemoryTyped
<1>8. Max({0} \cup Active) \in 0..Len(versions)
  <2>1. \A m \in {0} \cup Active : m \in 0..Len(versions)
    BY <1>1, <1>2
  <2>2. QED
    BY <1>4, <2>1
<1>9. QED
  BY <1>1, <1>2, <1>6, <1>7, <1>8 DEF Version

\* An update that leaves each version's ancestry and does not lose evidence
\* keeps the types.
LEMMA VersionsRewritten ==
  ASSUME MemoryTyped, DOMAIN versions' = DOMAIN versions,
         versions' = [v \in DOMAIN versions |-> versions'[v]],
         \A v \in DOMAIN versions :
           /\ versions'[v] \in Version
           /\ versions'[v].supersedes = versions[v].supersedes
           /\ versions[v].evidence \subseteq versions'[v].evidence,
         ingest' \in [Ingests -> IngestRow],
         \A i \in Ingests : ingest'[i].head = ingest[i].head,
         tick' \in {"idle", "fold", "decay", "archive"},
         DOMAIN rows' \subseteq DOMAIN versions, \A v \in DOMAIN rows' : rows'[v] \in Confidence,
         faded' \subseteq DOMAIN versions
  PROVE  MemoryTyped' /\ Len(versions') = Len(versions)
<1>1. Len(versions) \in Nat /\ DOMAIN versions = 1..Len(versions)
  BY LenProperties DEF MemoryTyped
<1>2. versions' \in [1..Len(versions) -> Version]
  BY <1>1
<1>3. versions' \in Seq(Version) /\ Len(versions') = Len(versions)
  BY <1>1, <1>2, FunctionIsSeq
<1>4. QED
  BY <1>1, <1>3 DEF MemoryTyped

LEMMA MemoryInvInit == MemoryInit => MemoryInv
<1> SUFFICES ASSUME MemoryInit PROVE MemoryInv
  OBVIOUS
<1>1. versions \in Seq(Version) /\ Len(versions) = 0 /\ DOMAIN versions = {}
  BY DEF MemoryInit
<1>2. QED
  BY <1>1 DEF MemoryInit, MemoryInv, MemoryTyped, FoldsAreLive, EvidenceIsKept, NoRows, IngestRow

\* When no version changes, nor what has faded, the evidence stays where it is.
LEMMA EvidenceUntouched ==
  ASSUME MemoryInv, UNCHANGED <<versions, faded>>
  PROVE  EvidenceIsKept' /\ Active' = Active
BY DEF MemoryInv, EvidenceIsKept, Active

\* Reading and appending: the new version cites its own evidence.
LEMMA IngestStep ==
  ASSUME MemoryInv, NEW i \in Ingests, ReadHead(i) \/ CreateVersion(i)
  PROVE  MemoryInv'
<1> USE DEF MemoryInv
<1>1. /\ Max({0} \cup Active) \in 0..Len(versions) /\ Cardinality(Active) \in Nat
      /\ Len(versions) \in Nat /\ DOMAIN versions = 1..Len(versions)
  BY HeadIsVersion
<1>2. CASE ReadHead(i)
  <2> DEFINE row == [step |-> "read", head |-> Max({0} \cup Active), siblings |-> Cardinality(Active)]
  <2>1. row \in IngestRow /\ row.head <= Len(versions)
    BY <1>1 DEF IngestRow
  <2>2. ingest' = [ingest EXCEPT ![i] = row] /\ UNCHANGED <<versions, tick, rows, into, faded>>
    BY <1>2 DEF ReadHead
  <2> HIDE DEF row
  <2>3. MemoryTyped'
    BY <2>1, <2>2 DEF MemoryTyped
  <2>4. QED
    BY <2>2, <2>3, EvidenceUntouched DEF FoldsAreLive
<1>3. CASE CreateVersion(i)
  <2> DEFINE new == [supersedes |-> ingest[i].head, confidence |-> Recurred(ingest[i].siblings),
                     status |-> "ACTIVE", evidence |-> Cited(i)]
             n == Len(versions) + 1
  <2>1. ingest[i] \in IngestRow /\ ingest[i].head <= Len(versions)
    BY DEF MemoryTyped
  <2>2. new \in Version /\ new.supersedes < n /\ new.evidence # {} /\ new.status = "ACTIVE"
    BY <1>1, <2>1, RecurredIsConfidence DEF Version, IngestRow, Cited
  <2>3. /\ versions' = Append(versions, new)
        /\ ingest' = [ingest EXCEPT ![i].step = "done"] /\ UNCHANGED <<tick, rows, into, faded>>
    BY <1>3 DEF CreateVersion
  <2> HIDE DEF new
  <2>4. /\ versions' \in Seq(Version) /\ Len(versions') = n /\ DOMAIN versions' = 1..n
        /\ \A v \in DOMAIN versions : versions'[v] = versions[v]
        /\ versions'[n] = new
    BY <1>1, <2>2, <2>3 DEF MemoryTyped
  <2>5. DOMAIN versions' = DOMAIN versions \cup {n}
    BY <1>1, <2>4
  <2>6. MemoryTyped'
    <3>1. \A v \in DOMAIN versions' : versions'[v].supersedes < v /\ versions'[v].evidence # {}
      BY <2>2, <2>4, <2>5 DEF MemoryTyped
    <3>2. ingest' \in [Ingests -> IngestRow] /\ \A j \in Ingests : ingest'[j].head = ingest[j].head
      <4>1. [ingest[i] EXCEPT !.step = "done"] \in IngestRow
        BY <2>1 DEF IngestRow
      <4>2. QED
        BY <2>3, <4>1 DEF MemoryTyped
    <3>3. \A j \in Ingests : ingest[j].head \in Nat
      BY DEF MemoryTyped, IngestRow
    <3>4. \A j \in Ingests : ingest'[j].head <= Len(versions')
      BY <1>1, <2>4, <3>2, <3>3 DEF MemoryTyped
    <3>5. DOMAIN rows' \subseteq DOMAIN versions' /\ faded' \subseteq DOMAIN versions'
      BY <2>3, <2>5 DEF MemoryTyped
    <3>6. QED
      BY <2>3, <2>4, <3>1, <3>2, <3>4, <3>5 DEF MemoryTyped
  <2>7. Active \subseteq Active' /\ n \in Active'
    BY <2>2, <2>4, <2>5 DEF Active
  <2>8. FoldsAreLive'
    BY <2>3, <2>5, <2>7 DEF FoldsAreLive
  <2>9. EvidenceIsKept'
    <3> SUFFICES ASSUME NEW v \in DOMAIN versions', NEW j \in versions'[v].evidence
                 PROVE  \E w \in Active' \cup faded' : j \in versions'[w].evidence
      BY DEF EvidenceIsKept
    <3>1. CASE v = n
      BY <2>7, <3>1
    <3>2. CASE v \in DOMAIN versions
      <4>1. PICK w \in Active \cup faded : j \in versions[w].evidence
        BY <2>4, <3>2 DEF EvidenceIsKept
      <4>2. w \in DOMAIN versions
        BY DEF Active, MemoryTyped
      <4>3. QED
        BY <2>3, <2>4, <2>7, <4>1, <4>2
    <3>3. QED
      BY <2>5, <3>1, <3>2
  <2>10. QED
    BY <2>6, <2>8, <2>9
<1>4. QED
  BY <1>2, <1>3

\* A stage reads the rows it is going to treat.
LEMMA StageStep ==
  ASSUME MemoryInv, StartTick \/ StartDecay \/ StartArchive
  PROVE  MemoryInv'
<1> USE DEF MemoryInv
<1>1. /\ UNCHANGED <<versions, ingest, faded>> /\ tick' \in {"fold", "decay", "archive"}
      /\ DOMAIN rows' \subseteq Active
      /\ \A v \in DOMAIN rows' : rows'[v] = versions[v].confidence
  BY DEF StartTick, StartDecay, StartArchive, ActiveRows
<1>2. Active \subseteq DOMAIN versions /\ \A v \in Active : versions[v].confidence \in Confidence
  BY HeadIsVersion
<1>3. MemoryTyped'
  BY <1>1, <1>2 DEF MemoryTyped
<1>4. EvidenceIsKept' /\ Active' = Active
  BY <1>1, EvidenceUntouched
<1>5. FoldsAreLive'
  <2>1. CASE StartTick
    <3>1. /\ into' \in [SupersededIn(Active) -> Active \ SupersededIn(Active)]
          /\ DOMAIN rows' = Active /\ tick' = "fold" /\ UNCHANGED versions
      BY <2>1 DEF StartTick, HeadsOf, ActiveRows
    <3>2. SupersededIn(Active) \subseteq Active
      BY DEF SupersededIn
    <3>3. DOMAIN into' = SupersededIn(Active)
          /\ \A v \in DOMAIN into' : into'[v] \in Active \ SupersededIn(Active)
      BY <3>1
    <3>4. QED
      BY <1>2, <1>4, <3>1, <3>2, <3>3 DEF FoldsAreLive
  <2>2. CASE StartDecay
    BY <2>2 DEF StartDecay, NoRows, FoldsAreLive
  <2>3. CASE StartArchive
    BY <2>3 DEF StartArchive, FoldsAreLive
  <2>4. QED
    BY <2>1, <2>2, <2>3
<1>6. QED
  BY <1>3, <1>4, <1>5

\* A fold copies the links of a version to its head: no version loses any.
LEMMA FoldStep ==
  ASSUME MemoryInv, NEW v \in DOMAIN versions, Fold(v)
  PROVE  MemoryInv'
<1> USE DEF MemoryInv
<1>1. /\ tick = "fold" /\ v \in DOMAIN into
      /\ versions' = [versions EXCEPT ![into[v]].evidence = @ \cup versions[v].evidence]
      /\ UNCHANGED <<ingest, tick, rows, into, faded>>
  BY DEF Fold
<1>2. PICK h \in DOMAIN versions : h = into[v] /\ h \in Active
  BY <1>1, HeadIsVersion DEF FoldsAreLive
<1>3. versions[h] \in Version /\ versions[v] \in Version
  BY <1>2, HeadIsVersion, ElementOfSeq DEF MemoryTyped
<1>4. /\ DOMAIN versions' = DOMAIN versions
      /\ versions' = [w \in DOMAIN versions |-> versions'[w]]
      /\ versions'[h] = [versions[h] EXCEPT !.evidence = @ \cup versions[v].evidence]
      /\ \A w \in DOMAIN versions \ {h} : versions'[w] = versions[w]
  BY <1>1, <1>2
<1>5. /\ versions'[h] \in Version /\ versions'[h].supersedes = versions[h].supersedes
      /\ versions'[h].status = versions[h].status
      /\ versions'[h].evidence = versions[h].evidence \cup versions[v].evidence
  BY <1>3, <1>4 DEF Version
<1>6. \A w \in DOMAIN versions : versions[w] \in Version
  BY HeadIsVersion, ElementOfSeq DEF MemoryTyped
<1>7. MemoryTyped'
  <2>1. \A w \in DOMAIN versions :
          /\ versions'[w] \in Version
          /\ versions'[w].supersedes = versions[w].supersedes
          /\ versions[w].evidence \subseteq versions'[w].evidence
    BY <1>4, <1>5, <1>6
  <2>2. QED
    BY <1>1, <1>4, <2>1, VersionsRewritten DEF MemoryTyped
<1>8. Active' = Active
  BY <1>4, <1>5 DEF Active
<1>9. FoldsAreLive'
  BY <1>1, <1>4, <1>8 DEF FoldsAreLive
<1>10. EvidenceIsKept'
  <2> SUFFICES ASSUME NEW w \in DOMAIN versions, NEW j \in versions'[w].evidence
               PROVE  \E u \in Active \cup faded : j \in versions'[u].evidence
    BY <1>1, <1>4, <1>8 DEF EvidenceIsKept
  <2>1. CASE w = h
    BY <1>2, <2>1
  <2>2. CASE w # h
    <3>1. PICK u \in Active \cup faded : j \in versions[u].evidence
      BY <1>4, <2>2 DEF EvidenceIsKept
    <3>2. u \in DOMAIN versions
      BY DEF Active, MemoryTyped
    <3>3. QED
      BY <1>4, <1>5, <3>1, <3>2
  <2>3. QED
    BY <2>1, <2>2
<1>11. QED
  BY <1>7, <1>9, <1>10

\* A statement that sets a confidence leaves status and evidence alone.
LEMMA ConfidenceStep ==
  ASSUME MemoryInv, NEW v \in DOMAIN versions, NEW confidence \in Confidence,
         versions' = [versions EXCEPT ![v].confidence = confidence],
         UNCHANGED <<ingest, tick, into, faded>>, DOMAIN rows' \subseteq DOMAIN rows,
         \A w \in DOMAIN rows' : rows'[w] \in Confidence,
         tick = "fold" => DOMAIN rows' = DOMAIN rows
  PROVE  MemoryInv'
<1> USE DEF MemoryInv
<1>1. \A w \in DOMAIN versions : versions[w] \in Version
  BY HeadIsVersion, ElementOfSeq DEF MemoryTyped
<1>2. /\ DOMAIN versions' = DOMAIN versions
      /\ versions' = [w \in DOMAIN versions |-> versions'[w]]
      /\ \A w \in DOMAIN versions :
           versions'[w] = IF w = v THEN [versions[v] EXCEPT !.confidence = confidence] ELSE versions[w]
  OBVIOUS
<1>3. /\ versions'[v] \in Version /\ versions'[v].supersedes = versions[v].supersedes
      /\ versions'[v].status = versions[v].status /\ versions'[v].evidence = versions[v].evidence
  BY <1>1, <1>2 DEF Version
<1>4. \A w \in DOMAIN versions :
        /\ versions'[w] \in Version /\ versions'[w].supersedes = versions[w].supersedes
        /\ versions'[w].status = versions[w].status /\ versions'[w].evidence = versions[w].evidence
  BY <1>1, <1>2, <1>3
<1>5. MemoryTyped'
  <2>1. DOMAIN rows' \subseteq DOMAIN versions /\ ingest' \in [Ingests -> IngestRow]
    BY DEF MemoryTyped
  <2>2. QED
    BY <1>2, <1>4, <2>1, VersionsRewritten DEF MemoryTyped
<1>6. Active' = Active
  BY <1>2, <1>4 DEF Active
<1>7. FoldsAreLive'
  BY <1>2, <1>6 DEF FoldsAreLive
<1>8. EvidenceIsKept'
  <2>1. Active \cup faded \subseteq DOMAIN versions
    BY DEF Active, MemoryTyped
  <2>2. QED
    BY <1>2, <1>4, <1>6, <2>1 DEF EvidenceIsKept
<1>9. QED
  BY <1>5, <1>7, <1>8

\* Archiving a set of versions loses no evidence, if each of them is kept by
\* one that stays live or has faded.
LEMMA ArchiveStep ==
  ASSUME MemoryInv, NEW gone,
         versions' = [v \in DOMAIN versions |->
                        IF v \in gone THEN [versions[v] EXCEPT !.status = "ARCHIVED"]
                        ELSE versions[v]],
         UNCHANGED ingest, faded \subseteq faded', faded' \subseteq DOMAIN versions,
         tick' \in {"idle", "fold", "decay", "archive"},
         DOMAIN rows' \subseteq DOMAIN versions, \A v \in DOMAIN rows' : rows'[v] \in Confidence,
         \A v \in gone \cap DOMAIN versions :
           \/ v \in faded'
           \/ \E w \in Active \ gone : versions[v].evidence \subseteq versions[w].evidence
  PROVE  MemoryTyped' /\ EvidenceIsKept' /\ Active' = Active \ gone
<1> USE DEF MemoryInv
<1>1. \A w \in DOMAIN versions : versions[w] \in Version
  BY HeadIsVersion, ElementOfSeq DEF MemoryTyped
<1>2. /\ DOMAIN versions' = DOMAIN versions
      /\ versions' = [w \in DOMAIN versions |-> versions'[w]]
  OBVIOUS
<1>3. \A w \in DOMAIN versions :
        /\ versions'[w] \in Version /\ versions'[w].supersedes = versions[w].supersedes
        /\ versions'[w].evidence = versions[w].evidence
        /\ versions'[w].status = IF w \in gone THEN "ARCHIVED" ELSE versions[w].status
  BY <1>1 DEF Version
<1>4. MemoryTyped'
  BY <1>2, <1>3, VersionsRewritten DEF MemoryTyped
<1>5. Active' = Active \ gone
  BY <1>2, <1>3 DEF Active
<1>6. EvidenceIsKept'
  <2> SUFFICES ASSUME NEW v \in DOMAIN versions, NEW j \in versions'[v].evidence
               PROVE  \E w \in Active' \cup faded' : j \in versions'[w].evidence
    BY <1>2 DEF EvidenceIsKept
  <2>1. PICK w \in Active \cup faded : j \in versions[w].evidence
    BY <1>3 DEF EvidenceIsKept
  <2>2. w \in DOMAIN versions
    BY DEF Active, MemoryTyped
  <2>3. CASE w \in faded \/ w \notin gone
    BY <1>3, <1>5, <2>1, <2>2, <2>3
  <2>4. CASE w \in gone
    <3>1. \/ w \in faded'
          \/ \E u \in Active \ gone : versions[w].evidence \subseteq versions[u].evidence
      BY <2>2, <2>4
    <3>2. \A u \in Active \ gone : u \in DOMAIN versions
      BY DEF Active
    <3>3. QED
      BY <1>3, <1>5, <2>1, <2>2, <3>1, <3>2
  <2>5. QED
    BY <2>3, <2>4
<1>7. QED
  BY <1>4, <1>5, <1>6

LEMMA MemoryInvStep == MemoryInv /\ [MemoryNext]_memoryVars => MemoryInv'
<1> SUFFICES ASSUME MemoryInv, [MemoryNext]_memoryVars PROVE MemoryInv'
  OBVIOUS
<1> USE DEF MemoryInv
<1>1. ASSUME NEW head \in DOMAIN versions, RaiseHead(head) PROVE MemoryInv'
  <2>1. /\ tick = "fold" /\ FoldOf(head) # {}
        /\ versions' = [versions EXCEPT ![head].confidence = ChainMax(head)]
        /\ rows' = [rows EXCEPT ![head] = ChainMax(head)]
        /\ UNCHANGED <<ingest, tick, into, faded>>
    BY <1>1 DEF RaiseHead
  <2>2. head \in DOMAIN rows /\ FoldOf(head) \subseteq DOMAIN rows
    BY <2>1 DEF FoldOf, FoldsAreLive
  <2>3. {rows[head]} \cup {rows[v] : v \in FoldOf(head)} \in SUBSET Confidence
    BY <2>2 DEF MemoryTyped
  <2>4. ChainMax(head) \in Confidence
    BY <2>3, ConfidenceStays DEF ChainMax
  <2>5. DOMAIN rows' = DOMAIN rows /\ \A w \in DOMAIN rows' : rows'[w] \in Confidence
    BY <2>1, <2>4 DEF MemoryTyped
  <2>6. QED
    BY <2>1, <2>4, <2>5, ConfidenceStep
<1>2. ASSUME NEW v \in DOMAIN versions, DecayRow(v) PROVE MemoryInv'
  <2>1. /\ tick = "decay" /\ v \in DOMAIN rows
        /\ rows' = [w \in DOMAIN rows \ {v} |-> rows[w]]
        /\ \/ versions' = [versions EXCEPT ![v].confidence = Tapered(rows[v])]
           \/ UNCHANGED versions
        /\ UNCHANGED <<ingest, tick, into, faded>>
    BY <1>2 DEF DecayRow
  <2>2. Tapered(rows[v]) \in Confidence
    BY <2>1, TaperedIsConfidence DEF MemoryTyped
  <2>3. DOMAIN rows' \subseteq DOMAIN rows /\ \A w \in DOMAIN rows' : rows'[w] \in Confidence
    BY <2>1 DEF MemoryTyped
  <2>4. CASE UNCHANGED versions
    <3>1. MemoryTyped'
      BY <2>1, <2>3, <2>4 DEF MemoryTyped
    <3>2. FoldsAreLive'
      BY <2>1 DEF FoldsAreLive
    <3>3. QED
      BY <2>1, <2>4, <3>1, <3>2, EvidenceUntouched
  <2>5. CASE versions' = [versions EXCEPT ![v].confidence = Tapered(rows[v])]
    BY <2>1, <2>2, <2>3, <2>5, ConfidenceStep
  <2>6. QED
    BY <2>1, <2>4, <2>5
<1>3. ASSUME NEW head \in DOMAIN versions, ArchiveVersions(head) PROVE MemoryInv'
  <2>1. /\ tick = "fold" /\ FoldOf(head) # {} /\ Folded(head)
        /\ versions' = [v \in DOMAIN versions |->
                          IF v \in FoldOf(head) THEN [versions[v] EXCEPT !.status = "ARCHIVED"]
                          ELSE versions[v]]
        /\ into' = [v \in DOMAIN into \ FoldOf(head) |-> into[v]]
        /\ UNCHANGED <<ingest, tick, rows, faded>>
    BY <1>3 DEF ArchiveVersions, VersionsToArchive
  <2>2. head \in Active /\ head \notin DOMAIN into
    BY <2>1 DEF FoldOf, FoldsAreLive
  <2>3. head \in Active \ FoldOf(head)
        /\ \A v \in FoldOf(head) : versions[v].evidence \subseteq versions[head].evidence
    BY <2>1, <2>2 DEF FoldOf, Folded
  <2> DEFINE gone == FoldOf(head)
  <2>4. MemoryTyped' /\ EvidenceIsKept' /\ Active' = Active \ gone
    <3>1. \A v \in gone \cap DOMAIN versions :
            \E w \in Active \ gone : versions[v].evidence \subseteq versions[w].evidence
      BY <2>3
    <3> HIDE DEF gone
    <3>2. versions' = [v \in DOMAIN versions |->
                          IF v \in gone THEN [versions[v] EXCEPT !.status = "ARCHIVED"]
                          ELSE versions[v]]
      BY <2>1 DEF gone
    <3>3. QED
      BY <2>1, <3>1, <3>2, ArchiveStep DEF MemoryTyped
  <2>5. FoldsAreLive'
    <3>1. DOMAIN into' = DOMAIN into \ gone /\ DOMAIN versions' = DOMAIN versions
      BY <2>1
    <3>2. \A v \in DOMAIN into' : into'[v] = into[v] /\ into[v] \notin gone
      BY <2>1, <3>1 DEF FoldOf, FoldsAreLive
    <3>3. QED
      BY <2>1, <2>4, <3>1, <3>2 DEF FoldsAreLive
  <2>6. QED
    BY <2>4, <2>5
<1>4. ASSUME EndTick PROVE MemoryInv'
  <2>1. /\ tick = "archive" /\ tick' = "idle" /\ rows' = NoRows
        /\ versions' = [v \in DOMAIN versions |->
                          IF v \in DOMAIN rows THEN [versions[v] EXCEPT !.status = "ARCHIVED"]
                          ELSE versions[v]]
        /\ faded' = faded \cup DOMAIN rows /\ UNCHANGED <<ingest, into>>
    BY <1>4 DEF EndTick
  <2>2. faded' \subseteq DOMAIN versions /\ DOMAIN rows' = {}
    BY <2>1 DEF MemoryTyped, NoRows
  <2>3. MemoryTyped' /\ EvidenceIsKept'
    BY <2>1, <2>2, ArchiveStep
  <2>4. FoldsAreLive'
    BY <2>1 DEF FoldsAreLive
  <2>5. QED
    BY <2>3, <2>4
<1>5. ASSUME MemoryCrash PROVE MemoryInv'
  <2>1. /\ tick' = "idle" /\ rows' = NoRows /\ into' = NoRows /\ UNCHANGED <<versions, faded>>
        /\ ingest' = [i \in Ingests |->
                        IF ingest[i].step = "read" THEN [ingest[i] EXCEPT !.step = "done"]
                        ELSE ingest[i]]
    BY <1>5 DEF MemoryCrash
  <2>2. \A i \in Ingests : ingest'[i] \in IngestRow /\ ingest'[i].head = ingest[i].head
    <3>1. \A i \in Ingests : ingest[i] \in IngestRow
      BY DEF MemoryTyped
    <3>2. QED
      BY <2>1, <3>1 DEF IngestRow
  <2>3. MemoryTyped' /\ FoldsAreLive'
    BY <2>1, <2>2 DEF MemoryTyped, FoldsAreLive, NoRows
  <2>4. QED
    BY <2>1, <2>3, EvidenceUntouched
<1>6. ASSUME TickFault PROVE MemoryInv'
  <2>1. tick' = "idle" /\ rows' = NoRows /\ into' = NoRows /\ UNCHANGED <<versions, ingest, faded>>
    BY <1>6 DEF TickFault
  <2>2. MemoryTyped' /\ FoldsAreLive'
    BY <2>1 DEF MemoryTyped, FoldsAreLive, NoRows
  <2>3. QED
    BY <2>1, <2>2, EvidenceUntouched
<1>7. CASE UNCHANGED memoryVars
  BY <1>7, EvidenceUntouched DEF memoryVars, MemoryTyped, FoldsAreLive
<1>8. QED
  BY <1>1, <1>2, <1>3, <1>4, <1>5, <1>6, <1>7, IngestStep, StageStep, FoldStep
     DEF MemoryNext, TickProgress

LEMMA MemoryCorrect == MemorySpec => []MemoryInv
BY MemoryInvInit, MemoryInvStep, PTL DEF MemorySpec

\* For any number of handlers and whatever a tick had read before they appended,
\* a fold archives a version only when what it cites is cited by a live one.
THEOREM EvidenceKept == MemorySpec => []EvidenceIsKept
<1>1. MemoryInv => EvidenceIsKept
  BY DEF MemoryInv
<1>2. QED
  BY <1>1, MemoryCorrect, PTL

----------------------------------------------------------------------------
\* SourceCache.

CollectSteps == {"idle", "asking", "missed", "joined", "reading", "storing", "done", "failed"}

Collect == [step : CollectSteps, stat : Nat, content : Nat]

\* The parts of CacheTypeOK the argument needs, without the bounds.
CacheTyped ==
  /\ disk \in [content : Nat, stat : Nat, since : Nat]
  /\ cached \in [content : Nat, stat : Nat]
  /\ collect \in [Collects -> Collect]
  /\ began \in [Collects -> Nat] /\ floor \in [Collects -> Nat]
  /\ dropped \in Nat

\* Nothing statted, read, stored or promised is newer than the file, which always
\* has a stat.
NothingIsAhead ==
  /\ 1 <= disk.stat /\ disk.stat <= disk.content /\ 1 <= disk.since /\ disk.since <= disk.content
  /\ dropped <= disk.content
  /\ cached.stat <= disk.stat /\ cached.content <= disk.content
  /\ \A c \in Collects : collect[c].stat <= disk.stat /\ began[c] <= disk.content

\* A collect that has the present stat began under it; what it has read it will
\* store no older than it began, nor than an invalidation lets it.
LoadsAreYoung ==
  \A c \in Running :
    /\ collect[c].stat = disk.stat => disk.since <= began[c]
    /\ CollectAt(c, "storing") =>
         /\ began[c] <= collect[c].content /\ collect[c].content <= disk.content
         /\ dropped <= collect[c].content

\* Whoever serves a running collect gives it what its caller may rely on: the row
\* it would hit, and any load it might join.
FloorsAreKept ==
  \A c \in Running :
    /\ cached # NoRow /\ cached.stat = collect[c].stat => floor[c] <= cached.content
    /\ \A d \in Running : floor[c] <= began[d]

CacheInv ==
  CacheTyped /\ NothingIsAhead /\ LoadsAreYoung /\ FloorsAreKept /\ RowIsFresh /\ ResultIsRecent
----------------------------------------------------------------------------
\* What a caller may rely on is no newer than the file, than a row it may hit, or
\* than the moment any collect still running began.
LEMMA ReliableIsLow ==
  ASSUME CacheTyped, NothingIsAhead
  PROVE  /\ Reliable \in Nat /\ Reliable <= disk.content
         /\ Reliable <= disk.since \/ Reliable <= dropped
         /\ \A d \in Running : Reliable <= began[d]
<1> DEFINE Marks == {disk.since, dropped}
           top == Max(Marks)
           Lows == {top} \cup {began[d] : d \in Running}
<1>1. Marks \in SUBSET Nat /\ Marks # {} /\ disk.content \in Nat /\ \A m \in Marks : m <= disk.content
  BY DEF CacheTyped, NothingIsAhead
<1>2. top \in Marks
  <2> HIDE DEF Marks
  <2>1. QED
    BY <1>1, MaxOfNats
<1> HIDE DEF top
<1>3. Lows \in SUBSET Nat /\ Lows # {}
  BY <1>1, <1>2 DEF CacheTyped, Running
<1>4. Min(Lows) \in Lows /\ \A n \in Lows : Min(Lows) <= n
  <2> HIDE DEF Lows
  <2>1. QED
    BY <1>3, MinOfNats
<1>5. Reliable = Min(Lows)
  BY DEF Reliable, top
<1>6. Reliable \in Lows /\ \A n \in Lows : Reliable <= n
  BY <1>4, <1>5
<1>7. top \in Lows
  OBVIOUS
<1>8. Reliable \in Nat /\ Reliable <= top
  BY <1>3, <1>6, <1>7
<1>9. \A d \in Running : Reliable <= began[d]
  BY <1>6
<1>10. QED
  BY <1>1, <1>2, <1>8, <1>9

\* An invalidation leaves no load that would store an older row than it promises.
LEMMA DroppedIsLow ==
  ASSUME CacheTyped,
         dropped' = Min({disk.content} \cup {collect[c].content : c \in Storing})
  PROVE  /\ dropped' \in Nat /\ dropped' <= disk.content
         /\ \A c \in Storing : dropped' <= collect[c].content
<1> DEFINE Contents == {disk.content} \cup {collect[c].content : c \in Storing}
<1>1. Contents \in SUBSET Nat /\ Contents # {}
  BY DEF CacheTyped, Collect, Storing
<1>2. dropped' \in Contents /\ \A n \in Contents : dropped' <= n
  <2> HIDE DEF Contents
  <2>1. Min(Contents) \in Contents /\ \A n \in Contents : Min(Contents) <= n
    BY <1>1, MinOfNats
  <2>2. dropped' = Min(Contents)
    BY DEF Contents
  <2>3. QED
    BY <2>1, <2>2
<1>3. QED
  BY <1>1, <1>2

LEMMA CacheInvInit == CacheInit => CacheInv
BY DEF CacheInit, CacheInv, CacheTyped, NothingIsAhead, LoadsAreYoung, FloorsAreKept, RowIsFresh,
       ResultIsRecent, Running, CollectAt, NoRow, Collect, CollectSteps

\* What the end of a load does to each collect.
LEMMA EndLoadShape ==
  ASSUME CacheTyped, NEW c \in Collects, NEW failed \in BOOLEAN, NEW content \in Nat,
         EndLoad(c, failed, content)
  PROVE  /\ collect' \in [Collects -> Collect]
         /\ \A d \in Collects :
              \/ collect'[d] = collect[d] /\ d # c /\ ~ CollectAt(d, "joined")
              \/ /\ d = c \/ CollectAt(d, "joined")
                 /\ collect'[d].step = IF failed THEN "failed" ELSE "done"
                 /\ collect'[d].content = content
                 /\ collect'[d].stat = collect[d].stat
<1> DEFINE step == IF failed THEN "failed" ELSE "done"
           New(d) == IF d = c \/ CollectAt(d, "joined")
                     THEN [collect[d] EXCEPT !.step = step, !.content = content]
                     ELSE collect[d]
<1>1. collect' = [d \in Collects |-> New(d)]
  BY DEF EndLoad
<1>2. ASSUME NEW d \in Collects
      PROVE  /\ New(d) \in Collect
             /\ \/ New(d) = collect[d] /\ d # c /\ ~ CollectAt(d, "joined")
                \/ /\ d = c \/ CollectAt(d, "joined")
                   /\ New(d).step = step /\ New(d).content = content
                   /\ New(d).stat = collect[d].stat
  <2>1. collect[d] \in Collect /\ step \in CollectSteps
    BY DEF CacheTyped, CollectSteps
  <2>2. QED
    BY <2>1 DEF Collect
<1> HIDE DEF New
<1>3. QED
  BY <1>1, <1>2

\* A load that fails takes those who joined it along, and returns nothing.
LEMMA FailedLoad ==
  ASSUME CacheInv, NEW c \in Collects, EndLoad(c, TRUE, 0),
         UNCHANGED <<disk, cached, cacheHistory>>
  PROVE  CacheInv'
<1>1. /\ collect' \in [Collects -> Collect]
      /\ \A d \in Collects :
           \/ collect'[d] = collect[d]
           \/ collect'[d].step = "failed" /\ collect'[d].stat = collect[d].stat
  BY EndLoadShape DEF CacheInv
<1>2. UNCHANGED <<disk, cached, began, floor, dropped>>
  BY DEF cacheHistory
<1>3. CacheTyped' /\ NothingIsAhead' /\ RowIsFresh'
  BY <1>1, <1>2 DEF CacheInv, CacheTyped, NothingIsAhead, RowIsFresh
<1>4. \A d \in Running' : d \in Running /\ collect'[d] = collect[d]
  BY <1>1 DEF Running
<1>5. LoadsAreYoung' /\ FloorsAreKept'
  BY <1>2, <1>4 DEF CacheInv, LoadsAreYoung, FloorsAreKept, CollectAt
<1>6. ResultIsRecent'
  BY <1>1, <1>2 DEF CacheInv, ResultIsRecent, CollectAt
<1>7. QED
  BY <1>3, <1>5, <1>6 DEF CacheInv

\* A load that succeeds serves its owner and those who joined it, and the row.
LEMMA StoredLoad ==
  ASSUME CacheInv, NEW c \in Collects, CollectAt(c, "storing"),
         EndLoad(c, FALSE, collect[c].content), UNCHANGED <<disk, cacheHistory>>,
         cached' = [content |-> collect[c].content, stat |-> StatOf(c)]
  PROVE  CacheInv'
<1>0. CacheTyped /\ NothingIsAhead /\ LoadsAreYoung /\ FloorsAreKept /\ ResultIsRecent
      /\ c \in Running
  BY DEF CacheInv, Running, CollectAt
<1>1. collect[c].content \in Nat /\ collect[c].stat \in Nat
  BY <1>0 DEF CacheTyped, Collect
<1>2. /\ collect' \in [Collects -> Collect]
      /\ \A d \in Collects :
           \/ collect'[d] = collect[d] /\ d # c /\ ~ CollectAt(d, "joined")
           \/ /\ d = c \/ CollectAt(d, "joined")
              /\ collect'[d].step = "done"
              /\ collect'[d].content = collect[c].content
              /\ collect'[d].stat = collect[d].stat
  BY <1>0, <1>1, EndLoadShape
<1>3. UNCHANGED <<disk, began, floor, dropped>>
  BY DEF cacheHistory
<1>4. /\ cached' \in [content : Nat, stat : Nat]
      /\ cached'.stat = collect[c].stat /\ cached'.content = collect[c].content
  BY <1>1 DEF StatOf
<1>5. /\ began[c] <= collect[c].content /\ collect[c].content <= disk.content
      /\ dropped <= collect[c].content
      /\ collect[c].stat = disk.stat => disk.since <= began[c]
  BY <1>0 DEF LoadsAreYoung
<1>6. \A d \in Running : floor[d] <= collect[c].content
  <2> TAKE d \in Running
  <2>1. floor[d] <= began[c] /\ floor[d] \in Nat /\ began[c] \in Nat
    BY <1>0 DEF FloorsAreKept, CacheTyped, Running
  <2>2. QED
    BY <1>1, <1>5, <2>1
<1>7. CacheTyped' /\ NothingIsAhead'
  BY <1>0, <1>2, <1>3, <1>4, <1>5 DEF CacheTyped, NothingIsAhead
<1>8. RowIsFresh'
  <2>1. disk.since \in Nat /\ began[c] \in Nat
    BY <1>0 DEF CacheTyped
  <2>2. QED
    BY <1>1, <1>3, <1>4, <1>5, <2>1 DEF RowIsFresh
<1>9. \A d \in Running' : d \in Running /\ collect'[d] = collect[d]
  BY <1>2 DEF Running
<1>10. LoadsAreYoung' /\ FloorsAreKept'
  BY <1>0, <1>3, <1>4, <1>6, <1>9 DEF LoadsAreYoung, FloorsAreKept, CollectAt
<1>11. ResultIsRecent'
  <2>1. \A d \in Collects : d = c \/ CollectAt(d, "joined") => d \in Running
    BY <1>0 DEF Running, CollectAt
  <2>2. QED
    BY <1>0, <1>2, <1>3, <1>6, <2>1 DEF ResultIsRecent, CollectAt
<1>12. QED
  BY <1>7, <1>8, <1>10, <1>11 DEF CacheInv

LEMMA CacheInvStep == CacheInv /\ [CacheNext]_cacheVars => CacheInv'
<1> SUFFICES ASSUME CacheInv, [CacheNext]_cacheVars PROVE CacheInv'
  OBVIOUS
<1>0. CacheTyped /\ NothingIsAhead /\ LoadsAreYoung /\ FloorsAreKept /\ RowIsFresh /\ ResultIsRecent
  BY DEF CacheInv
<1>1. ASSUME NEW c \in Collects, StatFile(c) PROVE CacheInv'
  <2>1. /\ Reliable \in Nat /\ Reliable <= disk.content
        /\ Reliable <= disk.since \/ Reliable <= dropped
        /\ \A d \in Running : Reliable <= began[d]
    BY <1>0, ReliableIsLow
  <2>2. /\ collect' = [collect EXCEPT ![c].step = "asking", ![c].stat = disk.stat]
        /\ began' = [began EXCEPT ![c] = disk.content]
        /\ floor' = [floor EXCEPT ![c] = Reliable] /\ UNCHANGED <<disk, cached, dropped>>
    BY <1>1 DEF StatFile
  <2>3. CacheTyped'
    <3>1. [collect[c] EXCEPT !.step = "asking", !.stat = disk.stat] \in Collect
      BY <1>0 DEF CacheTyped, Collect, CollectSteps
    <3>2. collect' \in [Collects -> Collect]
      BY <1>0, <2>2, <3>1 DEF CacheTyped
    <3>3. QED
      BY <1>0, <2>1, <2>2, <3>2 DEF CacheTyped
  <2>4. \A d \in Collects \ {c} :
          collect'[d] = collect[d] /\ floor'[d] = floor[d] /\ began'[d] = began[d]
    BY <1>0, <2>2 DEF CacheTyped
  <2>5. /\ collect'[c].step = "asking" /\ collect'[c].stat = disk.stat
        /\ floor'[c] = Reliable /\ began'[c] = disk.content
    BY <1>0, <2>2 DEF CacheTyped, Collect
  <2>6. /\ disk.content \in Nat /\ disk.since \in Nat /\ disk.stat \in Nat /\ dropped \in Nat
        /\ cached.content \in Nat /\ cached.stat \in Nat
    BY <1>0 DEF CacheTyped
  <2>7. NothingIsAhead' /\ RowIsFresh'
    <3>1. \A d \in Collects : collect'[d].stat <= disk.stat /\ began'[d] <= disk.content
      <4> TAKE d \in Collects
      <4>1. CASE d = c
        BY <2>5, <2>6, <4>1
      <4>2. CASE d # c
        BY <1>0, <2>4, <4>2 DEF NothingIsAhead
      <4>3. QED
        BY <4>1, <4>2
    <3>2. QED
      BY <1>0, <2>2, <3>1 DEF NothingIsAhead, RowIsFresh
  <2>8. \A d \in Running' : d = c \/ d \in Running \ {c}
    BY <2>4 DEF Running
  <2>9. LoadsAreYoung'
    BY <1>0, <2>2, <2>4, <2>5, <2>6, <2>8 DEF LoadsAreYoung, NothingIsAhead, CollectAt, Running
  <2>10. \A d \in Running : floor[d] <= disk.content
    <3> TAKE d \in Running
    <3>1. floor[d] <= began[d] /\ began[d] <= disk.content /\ floor[d] \in Nat /\ began[d] \in Nat
      BY <1>0 DEF FloorsAreKept, NothingIsAhead, CacheTyped, Running
    <3>2. QED
      BY <2>6, <3>1
  <2>11. cached # NoRow /\ cached.stat = disk.stat => Reliable <= cached.content
    BY <1>0, <2>1, <2>6 DEF RowIsFresh
  <2>12. FloorsAreKept'
    <3>1. ASSUME NEW d \in Running'
          PROVE  cached' # NoRow /\ cached'.stat = collect'[d].stat => floor'[d] <= cached'.content
      <4>1. CASE d = c
        BY <2>2, <2>5, <2>11, <4>1
      <4>2. CASE d \in Running \ {c}
        BY <1>0, <2>2, <2>4, <4>2 DEF FloorsAreKept, Running
      <4>3. QED
        BY <2>8, <3>1, <4>1, <4>2
    <3>2. ASSUME NEW d \in Running', NEW e \in Running' PROVE floor'[d] <= began'[e]
      <4>1. CASE d = c /\ e = c
        BY <2>1, <2>5, <4>1
      <4>2. CASE d = c /\ e \in Running \ {c}
        BY <2>1, <2>4, <2>5, <4>2 DEF Running
      <4>3. CASE d \in Running \ {c} /\ e = c
        BY <2>4, <2>5, <2>10, <4>3 DEF Running
      <4>4. CASE d \in Running \ {c} /\ e \in Running \ {c}
        BY <1>0, <2>4, <4>4 DEF FloorsAreKept, Running
      <4>5. QED
        BY <2>8, <3>2, <4>1, <4>2, <4>3, <4>4
    <3>3. QED
      BY <3>1, <3>2 DEF FloorsAreKept
  <2>13. ResultIsRecent'
    BY <1>0, <2>4, <2>5 DEF ResultIsRecent, CollectAt
  <2>14. QED
    BY <2>3, <2>7, <2>9, <2>12, <2>13 DEF CacheInv
<1>2. ASSUME NEW c \in Collects, GetByStat(c) PROVE CacheInv'
  <2>1. collect[c] \in Collect /\ cached.content \in Nat /\ c \in Running
    BY <1>0, <1>2 DEF CacheTyped, GetByStat, Running, CollectAt
  <2>2. PICK step \in {"done", "missed", "failed"}, content \in {collect[c].content, cached.content} :
          /\ collect' = [collect EXCEPT ![c] = [collect[c] EXCEPT !.step = step, !.content = content]]
          /\ step = "done" => Hits(c) /\ content = cached.content
    BY <2>1, <1>0, <1>2 DEF GetByStat, CacheTyped, Collect
  <2>3. UNCHANGED <<disk, cached, began, floor, dropped>>
    BY <1>2 DEF GetByStat, cacheHistory
  <2>4. /\ collect'[c].step = step /\ collect'[c].content = content
        /\ collect'[c].stat = collect[c].stat
        /\ \A d \in Collects \ {c} : collect'[d] = collect[d]
        /\ collect' \in [Collects -> Collect]
    BY <1>0, <2>1, <2>2 DEF CacheTyped, Collect, CollectSteps
  <2>5. CacheTyped' /\ NothingIsAhead' /\ RowIsFresh'
    BY <1>0, <2>3, <2>4 DEF CacheTyped, NothingIsAhead, RowIsFresh
  <2>6. \A d \in Running' : d \in Running
    BY <2>1, <2>4 DEF Running
  <2>7. LoadsAreYoung' /\ FloorsAreKept'
    BY <1>0, <2>3, <2>4, <2>6 DEF LoadsAreYoung, FloorsAreKept, CollectAt, Running
  <2>8. step = "done" => floor[c] <= content
    BY <1>0, <2>1, <2>2 DEF Hits, FloorsAreKept
  <2>9. ResultIsRecent'
    BY <1>0, <2>3, <2>4, <2>8 DEF ResultIsRecent, CollectAt
  <2>10. QED
    BY <2>5, <2>7, <2>9 DEF CacheInv
<1>3. ASSUME NEW c \in Collects, JoinOrLoad(c) PROVE CacheInv'
  <2>1. PICK step \in {"reading", "joined"} : collect' = [collect EXCEPT ![c].step = step]
    BY <1>3 DEF JoinOrLoad
  <2>2. UNCHANGED <<disk, cached, began, floor, dropped>> /\ collect[c].step = "missed"
    BY <1>3 DEF JoinOrLoad, cacheHistory, CollectAt
  <2>3. /\ collect'[c].step = step /\ collect'[c].stat = collect[c].stat
        /\ \A d \in Collects \ {c} : collect'[d] = collect[d]
        /\ collect' \in [Collects -> Collect]
    BY <1>0, <2>1 DEF CacheTyped, Collect, CollectSteps
  <2>4. CacheTyped' /\ NothingIsAhead' /\ RowIsFresh' /\ ResultIsRecent'
    BY <1>0, <2>2, <2>3 DEF CacheTyped, NothingIsAhead, RowIsFresh, ResultIsRecent, CollectAt
  <2>5. \A d \in Running' : d \in Running
    BY <2>2, <2>3 DEF Running
  <2>6. LoadsAreYoung' /\ FloorsAreKept'
    BY <1>0, <2>2, <2>3, <2>5 DEF LoadsAreYoung, FloorsAreKept, CollectAt, Running
  <2>7. QED
    BY <2>4, <2>6 DEF CacheInv
<1>4. ASSUME NEW c \in Collects, ReadSource(c) PROVE CacheInv'
  <2>1. CASE collect' = [collect EXCEPT ![c].step = "storing", ![c].content = disk.content]
    <3>1. UNCHANGED <<disk, cached, began, floor, dropped>> /\ collect[c].step = "reading"
          /\ c \in Running
      BY <1>4 DEF ReadSource, cacheHistory, CollectAt, Running
    <3>2. collect[c] \in Collect /\ disk.content \in Nat
      BY <1>0 DEF CacheTyped
    <3>3. /\ collect'[c].step = "storing" /\ collect'[c].stat = collect[c].stat
          /\ collect'[c].content = disk.content
          /\ \A d \in Collects \ {c} : collect'[d] = collect[d]
          /\ collect' \in [Collects -> Collect]
      <4>1. [collect[c] EXCEPT !.step = "storing", !.content = disk.content] \in Collect
        BY <3>2 DEF Collect, CollectSteps
      <4>2. QED
        BY <1>0, <2>1, <3>2, <4>1 DEF CacheTyped, Collect
    <3>4. CacheTyped' /\ NothingIsAhead' /\ RowIsFresh' /\ ResultIsRecent'
      BY <1>0, <3>1, <3>3 DEF CacheTyped, NothingIsAhead, RowIsFresh, ResultIsRecent, CollectAt
    <3>5. \A d \in Running' : d \in Running
      BY <3>1, <3>3 DEF Running
    <3>6. LoadsAreYoung'
      BY <1>0, <3>1, <3>2, <3>3, <3>5 DEF LoadsAreYoung, NothingIsAhead, CollectAt, Running
    <3>7. FloorsAreKept'
      BY <1>0, <3>1, <3>3, <3>5 DEF FloorsAreKept, Running
    <3>8. QED
      BY <3>4, <3>6, <3>7 DEF CacheInv
  <2>2. CASE EndLoad(c, TRUE, 0)
    BY <1>4, <2>2, FailedLoad DEF ReadSource
  <2>3. QED
    BY <1>4, <2>1, <2>2 DEF ReadSource
<1>5. ASSUME NEW c \in Collects, StoreRow(c) PROVE CacheInv'
  <2>1. CASE EndLoad(c, TRUE, 0) /\ UNCHANGED cached
    BY <1>5, <2>1, FailedLoad DEF StoreRow
  <2>2. CASE EndLoad(c, FALSE, collect[c].content)
             /\ cached' = [content |-> collect[c].content, stat |-> StatOf(c)]
    BY <1>5, <2>2, StoredLoad DEF StoreRow
  <2>3. QED
    BY <1>5, <2>1, <2>2 DEF StoreRow
<1>6. ASSUME Write PROVE CacheInv'
  <2>1. UNCHANGED <<cached, collect, began, floor, dropped>>
    BY <1>6 DEF Write, cacheHistory
  <2>2. /\ disk.content \in Nat /\ disk.stat \in Nat /\ disk.since \in Nat
        /\ disk' \in [content : Nat, stat : Nat, since : Nat]
        /\ disk'.content = disk.content + 1
        /\ \/ disk'.stat = disk.stat + 1 /\ disk'.since = disk.content + 1
           \/ disk'.stat = disk.stat /\ disk'.since = disk.since
    BY <1>0, <1>6 DEF Write, CacheTyped
  <2>3. /\ cached.content \in Nat /\ cached.stat \in Nat /\ dropped \in Nat
        /\ \A c \in Collects : began[c] \in Nat /\ collect[c].stat \in Nat /\ collect[c].content \in Nat
    BY <1>0 DEF CacheTyped, Collect
  <2>4. CacheTyped' /\ ResultIsRecent' /\ Running' = Running
    BY <1>0, <2>1, <2>2 DEF CacheTyped, ResultIsRecent, CollectAt, Running
  <2>5. NothingIsAhead' /\ RowIsFresh'
    BY <1>0, <2>1, <2>2, <2>3 DEF NothingIsAhead, RowIsFresh
  <2>6. LoadsAreYoung'
    BY <1>0, <2>1, <2>2, <2>3, <2>4 DEF LoadsAreYoung, NothingIsAhead, CollectAt, Running
  <2>7. FloorsAreKept'
    BY <1>0, <2>1, <2>4 DEF FloorsAreKept
  <2>8. QED
    BY <2>4, <2>5, <2>6, <2>7 DEF CacheInv
<1>7. ASSUME Invalidate PROVE CacheInv'
  <2>1. /\ cached' = NoRow /\ UNCHANGED <<disk, collect, began, floor>>
        /\ dropped' = Min({disk.content} \cup {collect[c].content : c \in Storing})
    BY <1>7 DEF Invalidate
  <2>2. /\ dropped' \in Nat /\ dropped' <= disk.content
        /\ \A c \in Storing : dropped' <= collect[c].content
    BY <1>0, <2>1, DroppedIsLow
  <2>3. CacheTyped' /\ ResultIsRecent' /\ Running' = Running
    BY <1>0, <2>1, <2>2 DEF CacheTyped, ResultIsRecent, CollectAt, Running, NoRow
  <2>4. disk.content \in Nat /\ disk.stat \in Nat /\ NoRow.stat = 0 /\ NoRow.content = 0
    BY <1>0 DEF CacheTyped, NoRow
  <2>5. NothingIsAhead' /\ RowIsFresh'
    BY <1>0, <2>1, <2>2, <2>4 DEF NothingIsAhead, RowIsFresh
  <2>6. LoadsAreYoung'
    BY <1>0, <2>1, <2>2, <2>3 DEF LoadsAreYoung, CollectAt, Storing, Running
  <2>7. FloorsAreKept'
    BY <1>0, <2>1, <2>3 DEF FloorsAreKept
  <2>8. QED
    BY <2>3, <2>5, <2>6, <2>7 DEF CacheInv
<1>8. CASE UNCHANGED cacheVars
  <2>1. UNCHANGED <<disk, cached, collect, began, floor, dropped>>
    BY <1>8 DEF cacheVars, cacheHistory
  <2>2. QED
    BY <1>0, <2>1 DEF CacheInv, CacheTyped, NothingIsAhead, LoadsAreYoung, FloorsAreKept, RowIsFresh,
                      ResultIsRecent, CollectAt, Running
<1>9. QED
  BY <1>1, <1>2, <1>3, <1>4, <1>5, <1>6, <1>7, <1>8 DEF CacheNext, CollectStep

LEMMA CacheCorrect == CacheSpec => []CacheInv
BY CacheInvInit, CacheInvStep, PTL DEF CacheSpec

\* However collects, rewrites of the file that move its stat or keep it,
\* invalidations and faults interleave, a row that the present stat would hit is
\* no older than that stat, and no row is older than its last invalidation, a load
\* that had read before it excepted.
THEOREM RowFresh == CacheSpec => []RowIsFresh
<1>1. CacheInv => RowIsFresh
  BY DEF CacheInv
<1>2. QED
  BY <1>1, CacheCorrect, PTL

\* For any number of collects, joined loads included, none returns content older
\* than the file's last change of stat or invalidation before it began, or than
\* the beginning of a load that was then running.
THEOREM ResultRecent == CacheSpec => []ResultIsRecent
<1>1. CacheInv => ResultIsRecent
  BY DEF CacheInv
<1>2. QED
  BY <1>1, CacheCorrect, PTL

\* Types and bounds of the cache: nothing read is newer than the file, and the
\* load in flight is the one collect that reads or stores.
Loading == {c \in Collects : CollectAt(c, "reading") \/ CollectAt(c, "storing")}

CacheBounds ==
  /\ disk.content \in 1..MaxVersions
  /\ \A c \in Collects : collect[c].content <= disk.content
  /\ inFlight = Loading
  /\ \A c, d \in Loading : c = d

LEMMA CacheBoundsInit == CacheInit => CacheBounds
BY CacheAssumption DEF CacheInit, CacheBounds, CacheAssumption, Loading, CollectAt

\* The end of a load leaves nobody loading.
LEMMA LoadEnds ==
  ASSUME CacheInv, CacheBounds, NEW c \in Loading, NEW failed \in BOOLEAN,
         NEW content \in Nat, content <= disk.content,
         EndLoad(c, failed, content), UNCHANGED disk
  PROVE  CacheBounds'
<1>1. \A d \in Collects :
        \/ collect'[d] = collect[d] /\ d # c /\ ~ CollectAt(d, "joined")
        \/ /\ d = c \/ CollectAt(d, "joined")
           /\ collect'[d].step = IF failed THEN "failed" ELSE "done"
           /\ collect'[d].content = content
           /\ collect'[d].stat = collect[d].stat
  BY EndLoadShape DEF CacheInv, Loading
<1>2. inFlight' = {}
  BY DEF EndLoad, AfterLoad
<1>3. Loading' = {}
  BY <1>1 DEF Loading, CollectAt, CacheBounds
<1>4. \A d \in Collects : collect'[d].content <= disk'.content
  BY <1>1 DEF CacheBounds
<1>5. QED
  BY <1>2, <1>3, <1>4 DEF CacheBounds

LEMMA CacheBoundsStep == CacheInv /\ CacheBounds /\ [CacheNext]_cacheVars => CacheBounds'
<1> SUFFICES ASSUME CacheInv, CacheBounds, [CacheNext]_cacheVars PROVE CacheBounds'
  OBVIOUS
<1>1. \A c \in Collects : collect[c] \in Collect /\ disk.content \in Nat
  BY DEF CacheInv, CacheTyped
<1>2. ASSUME NEW c \in Collects, StatFile(c) \/ GetByStat(c) PROVE CacheBounds'
  <2>1. PICK step \in CollectSteps \ {"reading", "storing", "joined"} :
          /\ collect'[c].step = step /\ collect'[c].content <= disk.content
          /\ \A d \in Collects \ {c} : collect'[d] = collect[d]
          /\ c \notin Loading
    <3>1. c \notin Loading
      BY <1>2 DEF StatFile, GetByStat, Loading, CollectAt
    <3>2. CASE StatFile(c)
      <4>1. collect' = [collect EXCEPT ![c] = [collect[c] EXCEPT !.step = "asking", !.stat = disk.stat]]
        BY <3>2 DEF StatFile
      <4>2. /\ collect'[c].step = "asking" /\ collect'[c].content = collect[c].content
            /\ \A d \in Collects \ {c} : collect'[d] = collect[d]
        BY <1>1, <4>1 DEF CacheInv, CacheTyped, Collect
      <4>3. QED
        BY <3>1, <4>2 DEF CollectSteps, CacheBounds
    <3>3. CASE GetByStat(c)
      <4>1. PICK step \in {"done", "missed", "failed"}, content \in {collect[c].content, cached.content} :
              collect' = [collect EXCEPT ![c] = [collect[c] EXCEPT !.step = step, !.content = content]]
        BY <1>1, <3>3 DEF GetByStat, CacheInv, CacheTyped, Collect
      <4>2. /\ collect'[c].step = step /\ collect'[c].content = content
            /\ \A d \in Collects \ {c} : collect'[d] = collect[d]
        BY <1>1, <4>1 DEF CacheInv, CacheTyped, Collect
      <4>3. content <= disk.content
        BY DEF CacheInv, NothingIsAhead, CacheBounds
      <4>4. QED
        BY <3>1, <4>2, <4>3 DEF CollectSteps
    <3>4. QED
      BY <1>2, <3>2, <3>3
  <2>2. UNCHANGED <<disk, inFlight>>
    BY <1>2 DEF StatFile, GetByStat
  <2>3. Loading' = Loading
    BY <2>1 DEF Loading, CollectAt
  <2>4. QED
    BY <2>1, <2>2, <2>3 DEF CacheBounds
<1>3. ASSUME NEW c \in Collects, JoinOrLoad(c) PROVE CacheBounds'
  <2>1. UNCHANGED disk /\ CollectAt(c, "missed")
    BY <1>3 DEF JoinOrLoad
  <2>2. c \notin Loading
    BY <2>1 DEF Loading, CollectAt
  <2>3. CASE inFlight = {}
    <3>1. inFlight' = {c} /\ collect' = [collect EXCEPT ![c].step = "reading"]
      BY <1>3, <2>3 DEF JoinOrLoad
    <3>2. Loading' = {c}
      BY <1>1, <2>3, <3>1 DEF CacheBounds, Loading, CollectAt, CacheInv, CacheTyped
    <3>3. QED
      BY <1>1, <2>1, <3>1, <3>2 DEF CacheBounds, CacheInv, CacheTyped
  <2>4. CASE inFlight # {}
    <3>1. inFlight' = inFlight /\ collect' = [collect EXCEPT ![c].step = "joined"]
      BY <1>3, <2>4 DEF JoinOrLoad
    <3>2. Loading' = Loading
      BY <2>2, <3>1 DEF Loading, CollectAt, CacheInv, CacheTyped
    <3>3. QED
      BY <2>1, <3>1, <3>2 DEF CacheBounds, CacheInv, CacheTyped
  <2>5. QED
    BY <2>3, <2>4
<1>4. ASSUME NEW c \in Collects, ReadSource(c) PROVE CacheBounds'
  <2>1. c \in Loading /\ UNCHANGED disk
    BY <1>4 DEF ReadSource, Loading
  <2>2. CASE collect' = [collect EXCEPT ![c].step = "storing", ![c].content = disk.content]
             /\ UNCHANGED inFlight
    <3>1. Loading' = Loading
      BY <2>1, <2>2 DEF Loading, CollectAt, CacheInv, CacheTyped
    <3>2. QED
      BY <1>1, <2>1, <2>2, <3>1 DEF CacheBounds, CacheInv, CacheTyped
  <2>3. CASE EndLoad(c, TRUE, 0)
    <3>1. TRUE \in BOOLEAN /\ 0 \in Nat /\ 0 <= disk.content
      BY <1>1
    <3>2. QED
      BY <2>1, <2>3, <3>1, LoadEnds
  <2>4. QED
    BY <1>4, <2>2, <2>3 DEF ReadSource
<1>5. ASSUME NEW c \in Collects, StoreRow(c) PROVE CacheBounds'
  <2>1. c \in Loading /\ UNCHANGED disk
    BY <1>5 DEF StoreRow, Loading
  <2>2. collect[c].content \in Nat /\ collect[c].content <= disk.content /\ 0 <= disk.content
    BY <1>1 DEF Collect, CacheBounds
  <2>3. EndLoad(c, TRUE, 0) \/ EndLoad(c, FALSE, collect[c].content)
    BY <1>5 DEF StoreRow
  <2>4. QED
    BY <2>1, <2>2, <2>3, LoadEnds
<1>6. ASSUME Write PROVE CacheBounds'
  <2>1. /\ disk.content \in Nat /\ disk.content < MaxVersions /\ MaxVersions \in Nat
        /\ disk'.content = disk.content + 1 /\ UNCHANGED <<collect, inFlight>>
    BY <1>6, CacheAssumption DEF Write, CacheInv, CacheTyped
  <2>2. \A c \in Collects : collect'[c].content <= disk'.content
    BY <1>1, <2>1 DEF CacheBounds, Collect
  <2>3. QED
    BY <2>1, <2>2 DEF CacheBounds, Loading, CollectAt
<1>7. CASE Invalidate \/ UNCHANGED cacheVars
  BY <1>7 DEF Invalidate, cacheVars, cacheHistory, CacheBounds, Loading, CollectAt
<1>8. QED
  BY <1>2, <1>3, <1>4, <1>5, <1>6, <1>7 DEF CacheNext, CollectStep

\* The type invariants of the three follow from what was shown of them.
LEMMA StoresTyped ==
  /\ StreamInv => StreamTypeOK
  /\ MemoryInv => MemoryTypeOK
  /\ CacheInv /\ CacheBounds => CacheTypeOK
<1>1. StreamInv => StreamTypeOK
  BY DEF StreamInv
<1>2. ASSUME MemoryInv PROVE MemoryTypeOK
  <2>1. DOMAIN versions = 1..Len(versions) /\ Len(versions) \in Nat
    BY <1>2, HeadIsVersion DEF MemoryInv
  <2>2. \A v \in DOMAIN versions : versions[v] \in Version
    BY <1>2, <2>1, ElementOfSeq DEF MemoryInv, MemoryTyped
  <2>3. \A v \in DOMAIN versions : versions[v].supersedes \in 0..(v - 1)
    BY <1>2, <2>1, <2>2 DEF MemoryInv, MemoryTyped, Version
  <2>4. QED
    <3>1. \A v \in DOMAIN versions :
            /\ versions[v].confidence \in 0..MAX_CONFIDENCE
            /\ versions[v].status \in {"ACTIVE", "ARCHIVED"}
            /\ versions[v].evidence \in (SUBSET Ingests) \ {{}}
      <4> TAKE v \in DOMAIN versions
      <4>1. versions[v] \in Version
        BY <2>2
      <4>2. versions[v].evidence # {}
        BY <1>2 DEF MemoryInv, MemoryTyped
      <4>3. QED
        BY <4>1, <4>2 DEF Version, Confidence
    <3>2. \A i \in Ingests : ingest[i].step \in {"idle", "read", "done"}
      BY <1>2 DEF MemoryInv, MemoryTyped, IngestRow
    <3>3. QED
      BY <1>2, <2>3, <3>1, <3>2 DEF MemoryInv, MemoryTyped, FoldsAreLive, MemoryTypeOK
<1>3. ASSUME CacheInv, CacheBounds PROVE CacheTypeOK
  <2>1. MaxVersions \in Nat
    BY CacheAssumption DEF CacheAssumption
  <2>2. disk \in [content : 1..MaxVersions, stat : 1..MaxVersions, since : 1..MaxVersions]
    BY <1>3, <2>1 DEF CacheInv, CacheBounds, CacheTyped, NothingIsAhead
  <2>3. cached \in [content : 0..MaxVersions, stat : 0..MaxVersions]
    BY <1>3, <2>1 DEF CacheInv, CacheBounds, CacheTyped, NothingIsAhead
  <2>4. \A c \in Collects : collect[c] \in Collect /\ collect[c].content \in 0..MaxVersions
    BY <1>3, <2>1 DEF CacheInv, CacheBounds, CacheTyped, Collect
  <2>5. QED
    BY <1>3, <2>2, <2>3, <2>4 DEF CacheTypeOK, CacheBounds, Loading, Collect, CollectSteps
<1>4. QED
  BY <1>1, <1>2, <1>3
==============================================================================
