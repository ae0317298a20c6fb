----------------------------- MODULE EventStream -----------------------------
(***************************************************************************)
(* RedisEventsBus over a StreamTransport: publish appends to a durable     *)
(* stream, one poll loop reads batches for the consumer group, runs the    *)
(* subscribed handlers of each entry and acknowledges it.  An entry whose  *)
(* handler throws stays pending and comes back, until it has failed        *)
(* maxDeliveryAttempts times and is dead-lettered.  The broker outlives    *)
(* the consumer process; its attempt counts and subscriptions do not.      *)
(***************************************************************************)
EXTENDS Integers, Sequences, FiniteSetsExt

CONSTANTS
  Handlers,            \* subscribed handlers
  EventTypes,
  Wants,               \* handler -> the type it subscribes to
  BatchSize,
  MaxDeliveryAttempts,
  MaxEvents,           \* bound on published events
  MaxStreamFaults,     \* bound on failing transport calls
  MaxStreamCrashes     \* bound on ends of the consumer process

ASSUME StreamAssumption ==
  /\ Wants \in [Handlers -> EventTypes]
  /\ BatchSize \in Nat \ {0} /\ MaxDeliveryAttempts \in Nat \ {0}
  /\ MaxEvents \in Nat /\ MaxStreamFaults \in Nat /\ MaxStreamCrashes \in Nat

VARIABLES
  entries,        \* the stream: entry id -> type of its event
  deliveredCount, \* entries ever handed to the group
  unacked,        \* entries handed out and not acknowledged
  subscribed,     \* handlers subscribed in this process
  batch,          \* entries the current flush has still to deliver, oldest first
  acking,         \* entry whose XACK is awaited, or 0
  attempts,       \* entry -> failed deliveries this process remembers
  givenUp,        \* entries dead-lettered
  seen,           \* entry -> handlers that accepted it at least once
  offered,        \* entry -> handlers subscribed at its last delivery
  deliveries,     \* entry -> number of deliveries, up to DeliveryBound
  streamFaults, streamCrashes

broker == <<entries, deliveredCount, unacked>>
consumer == <<subscribed, batch, acking, attempts>>
streamHistory == <<givenUp, seen, offered, deliveries>>
streamVars == <<broker, consumer, streamHistory, streamFaults, streamCrashes>>

Ids == 1..MaxEvents

\* One more than any entry can be delivered; larger counts are not told apart.
DeliveryBound == MaxDeliveryAttempts * (1 + MaxStreamFaults + MaxStreamCrashes) + 1

StreamInit ==
  /\ entries = << >> /\ deliveredCount = 0 /\ unacked = {}
  /\ subscribed = {} /\ batch = {} /\ acking = 0
  /\ attempts = [e \in Ids |-> 0]
  /\ givenUp = {}
  /\ seen = [e \in Ids |-> {}] /\ offered = [e \in Ids |-> {}]
  /\ deliveries = [e \in Ids |-> 0]
  /\ streamFaults = 0 /\ streamCrashes = 0

StreamFault == streamFaults < MaxStreamFaults /\ streamFaults' = streamFaults + 1

\* publish hands the envelope to XADD and does not wait; when the call fails,
\* the event is gone.
Publish(type) ==
  /\ Len(entries) < MaxEvents
  /\ \/ entries' = Append(entries, type) /\ UNCHANGED streamFaults
     \/ StreamFault /\ UNCHANGED entries
  /\ UNCHANGED <<deliveredCount, unacked, consumer, streamHistory, streamCrashes>>

\* The first subscription of a process starts its poll loop.
Subscribe(h) ==
  /\ h \notin subscribed
  /\ subscribed' = subscribed \cup {h}
  /\ UNCHANGED <<broker, batch, acking, attempts, streamHistory, streamFaults, streamCrashes>>

\* readGroup: the pending entries first, then new ones.  Ids grow and nothing
\* reorders the pending ones, so that is the oldest of both.
Available == unacked \cup ((deliveredCount + 1)..Len(entries))

OlderThan(e) == {d \in Available : d < e}

ReadGroup == {e \in Available : Cardinality(OlderThan(e)) < BatchSize}

Idle == subscribed # {} /\ batch = {} /\ acking = 0

\* A tick of the loop; a failing read is reported and tried again later.
Flush ==
  /\ Idle
  /\ ReadGroup # {}
  /\ batch' = ReadGroup
  /\ unacked' = unacked \cup batch'
  /\ deliveredCount' = Max({deliveredCount} \cup batch')
  /\ UNCHANGED <<entries, subscribed, acking, attempts, streamHistory, streamFaults, streamCrashes>>

\* Mutant: the cap is compared with ">", so one more delivery is made.
AttemptsExceeded(n) == n > MaxDeliveryAttempts

AttemptsSpent(n) == n >= MaxDeliveryAttempts

\* Mutant: only the last handler's outcome is kept.
LastFailed(called, throwing) ==
  throwing # {} /\ (CHOOSE h \in called : TRUE) \in throwing

\* A delivery fails when any of its handlers throws; the others still run.
Failed(called, throwing) == throwing # {}

\* Mutant: a failed delivery is not counted.
FailureForgotten(e) == attempts[e]

RecordFailure(e) == attempts[e] + 1

\* deliver: the handlers of the entry's type run at once and in order, any of
\* them may throw.  Success and a dead letter go on to the acknowledgement and
\* forget the count, a failure below the cap leaves the entry pending.
Deliver ==
  /\ batch # {} /\ acking = 0
  /\ LET e == Min(batch)
         called == {h \in subscribed : Wants[h] = entries[e]}
     IN \E throwing \in SUBSET called :
          LET failed == Failed(called, throwing)
              spent == failed /\ AttemptsSpent(RecordFailure(e))
          IN /\ seen' = [seen EXCEPT ![e] = @ \cup (called \ throwing)]
             /\ offered' = [offered EXCEPT ![e] = called]
             /\ deliveries' = [deliveries EXCEPT ![e] = Min({@ + 1, DeliveryBound})]
             /\ batch' = batch \ {e}
             /\ givenUp' = IF spent THEN givenUp \cup {e} ELSE givenUp
             /\ IF failed /\ ~ spent
                THEN acking' = 0 /\ attempts' = [attempts EXCEPT ![e] = RecordFailure(e)]
                ELSE acking' = e /\ attempts' = [attempts EXCEPT ![e] = 0]
  /\ UNCHANGED <<broker, subscribed, streamFaults, streamCrashes>>

\* The XACK is answered, or fails and is only reported.
Ack ==
  /\ acking # 0
  /\ \/ unacked' = unacked \ {acking} /\ UNCHANGED streamFaults
     \/ StreamFault /\ UNCHANGED unacked
  /\ acking' = 0
  /\ UNCHANGED <<entries, deliveredCount, subscribed, batch, attempts, streamHistory, streamCrashes>>

\* The consumer process ends, before or after an XACK in flight took effect.
StreamCrash ==
  /\ streamCrashes < MaxStreamCrashes
  /\ streamCrashes' = streamCrashes + 1
  /\ subscribed' = {} /\ batch' = {} /\ acking' = 0
  /\ attempts' = [e \in Ids |-> 0]
  /\ unacked' \in {unacked, unacked \ {acking}}
  /\ UNCHANGED <<entries, deliveredCount, streamHistory, streamFaults>>

StreamWork == (\E h \in Handlers : Subscribe(h)) \/ Flush \/ Deliver \/ Ack

StreamNext == (\E type \in EventTypes : Publish(type)) \/ StreamWork \/ StreamCrash

StreamSpec == StreamInit /\ [][StreamNext]_streamVars

-----------------------------------------------------------------------------
StreamTypeOK ==
  /\ entries \in Seq(EventTypes) /\ Len(entries) <= MaxEvents
  /\ deliveredCount \in 0..Len(entries)
  /\ unacked \subseteq 1..deliveredCount
  /\ subscribed \subseteq Handlers
  /\ batch \subseteq unacked
  /\ acking \in {0} \cup unacked
  /\ attempts \in [Ids -> 0..(MaxDeliveryAttempts - 1)]
  /\ givenUp \subseteq 1..deliveredCount
  /\ seen \in [Ids -> SUBSET Handlers] /\ offered \in [Ids -> SUBSET Handlers]
  /\ deliveries \in [Ids -> 0..DeliveryBound]
  /\ streamFaults \in 0..MaxStreamFaults /\ streamCrashes \in 0..MaxStreamCrashes

Settled == (1..deliveredCount) \ unacked

\* An entry leaves the stream for good only after a delivery, when every handler
\* that was subscribed at its last one has accepted it once, or it was given up:
\* a failing sibling, a lost XACK or a crash loses nothing.
AckedIsHandled ==
  \A e \in Settled :
    deliveries[e] > 0 /\ (offered[e] \subseteq seen[e] \/ e \in givenUp)

\* How often an entry may be repeated: every crash and every failed XACK
\* forgets the count, and then at most maxDeliveryAttempts deliveries follow.
RepeatsAreBounded ==
  \A e \in Ids : deliveries[e] <= MaxDeliveryAttempts * (1 + streamFaults + streamCrashes)

\* No entry is stuck: a handler that always throws cannot hold back the
\* entries behind it, even when it fills the whole batch.
EntriesSettle == \A e \in Ids : e <= Len(entries) ~> e \in Settled
=============================================================================
