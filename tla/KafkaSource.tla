---------------------------- MODULE KafkaSource ----------------------------
(***************************************************************************)
(* The Kafka event source (packages/source-kafka): one consumer over its      *)
(* partitions, offsets committed by the ack, redelivery left to kafkajs, and  *)
(* the retry budget kept in attemptCounts, under the base class'              *)
(* handleMessage with ackStrategy "after-publish".                            *)
(*                                                                         *)
(* kafkajs runs eachMessage for one message at a time, moves on when it       *)
(* resolves and fetches the message again when it rejects.                    *)
(***************************************************************************)
EXTENDS Naturals

CONSTANTS
  Partitions,
  Length,          \* messages in each partition
  Budgets,         \* values delivery.maxRetries may have
  MaxFaults,       \* bound: commits and dead-letter sends that fail
  MaxUpsets,       \* bound: crashes, rebalances and seeks
  NoMessage

KafkaParameters ==
  /\ {Length, MaxFaults, MaxUpsets} \cup Budgets \subseteq Nat
  /\ NoMessage \notin Partitions \X Nat

VARIABLES
  maxRetries,    \* delivery.maxRetries
  kind,          \* partition -> offset -> what normalize makes of the message
  committed,     \* partition -> the group's committed offset
  position,      \* partition -> next offset kafkajs fetches
  current,       \* the message eachMessage handles
  step,          \* where its handler awaits
  attemptCounts, \* partition -> offset -> local counter
  producer,      \* the DLQ producer is connected
  published,     \* partition -> offset -> times published (history)
  deadLettered,  \* <<partition, offset>>s in the DLQ topic (history)
  nacked,        \* those a nack gave back to kafkajs (history)
  unlettered,    \* those whose dead letter was not written (history)
  jumped,        \* those a seek forward passed (history)
  faults, upsets
config == <<maxRetries, kind>>
drops  == <<nacked, unlettered, jumped>>
vars == <<config, committed, position, current, step, attemptCounts, producer,
          published, deadLettered, drops, faults, upsets>>

Offsets == 0 .. Length - 1
\* A normalizer returns an event, returns null (the filter drops the message) or
\* throws.
Kinds == {"good", "filtered", "poison"}
NoAttempts == [p \in Partitions |-> [o \in Offsets |-> 0]]

Init ==
  /\ maxRetries \in Budgets
  /\ kind \in [Partitions -> [Offsets -> Kinds]]
  /\ committed = [p \in Partitions |-> 0]
  /\ position = committed
  /\ current = NoMessage /\ step = "idle"
  /\ attemptCounts = NoAttempts
  /\ producer = FALSE
  /\ published = NoAttempts /\ deadLettered = {}
  /\ nacked = {} /\ unlettered = {} /\ jumped = {}
  /\ faults = 0 /\ upsets = 0

-----------------------------------------------------------------------------
P == current[1]
O == current[2]

\* doStart goes on after consumer.run.
ConnectProducer ==
  /\ ~producer /\ producer' = TRUE
  /\ UNCHANGED <<config, committed, position, current, step, attemptCounts,
                 published, deadLettered, drops, faults, upsets>>

Fetch(p) ==
  /\ current = NoMessage /\ position[p] < Length
  /\ current' = <<p, position[p]>> /\ step' = "normalize"
  /\ UNCHANGED <<config, committed, position, attemptCounts, producer, published,
                 deadLettered, drops, faults, upsets>>

\* eachMessage resolves: kafkajs goes on with the next offset.
Resolve ==
  /\ current' = NoMessage /\ step' = "idle"
  /\ position' = [position EXCEPT ![P] = O + 1]

\* eachMessage rejects: kafkajs fetches the message again.
Reject ==
  /\ current' = NoMessage /\ step' = "idle"
  /\ UNCHANGED position

Normalize ==
  /\ step = "normalize"
  /\ \/ kind[P][O] = "good" /\ step' = "publish"
     \/ kind[P][O] = "filtered" /\ step' = "ack"
     \/ kind[P][O] = "poison" /\ step' = "failed"
  /\ UNCHANGED <<config, committed, position, current, attemptCounts, producer,
                 published, deadLettered, drops, faults, upsets>>

Publish ==
  /\ step = "publish" /\ step' = "ack"
  /\ published' = [published EXCEPT ![P][O] = @ + 1]
  /\ UNCHANGED <<config, committed, position, current, attemptCounts, producer,
                 deadLettered, drops, faults, upsets>>

\* ack(): commit the next offset, forget the attempts.
Commit ==
  /\ committed' = [committed EXCEPT ![P] = O + 1]
  /\ attemptCounts' = [attemptCounts EXCEPT ![P][O] = 0]
  /\ UNCHANGED faults

CommitFails ==
  /\ faults < MaxFaults /\ faults' = faults + 1
  /\ UNCHANGED <<committed, attemptCounts>>

Ack ==
  /\ step = "ack"
  /\ \/ Commit /\ Resolve
     \/ CommitFails /\ step' = "failed" /\ UNCHANGED <<current, position>>
  /\ UNCHANGED <<config, producer, published, deadLettered, drops, upsets>>

\* Faulty: a message out of its budget is acked without its dead letter.
FailureFaulty ==
  /\ step = "failed"
  /\ \/ /\ attemptCounts[P][O] < maxRetries
        /\ attemptCounts' = [attemptCounts EXCEPT ![P][O] = @ + 1]
        /\ nacked' = nacked \cup {current}
        /\ Resolve
     \/ /\ attemptCounts[P][O] >= maxRetries
        /\ step' = "failack" /\ UNCHANGED <<attemptCounts, current, position, nacked>>
  /\ UNCHANGED <<config, committed, producer, published, deadLettered, unlettered,
                 jumped, faults, upsets>>

\* handleFailure.  nack() counts and throws; handleFailure catches it, so the
\* message handler resolves.
Failure ==
  /\ step = "failed"
  /\ \/ /\ attemptCounts[P][O] < maxRetries
        /\ attemptCounts' = [attemptCounts EXCEPT ![P][O] = @ + 1]
        /\ nacked' = nacked \cup {current}
        /\ Resolve
     \/ /\ attemptCounts[P][O] >= maxRetries
        /\ step' = "dlq" /\ UNCHANGED <<attemptCounts, current, position, nacked>>
  /\ UNCHANGED <<config, committed, producer, published, deadLettered, unlettered,
                 jumped, faults, upsets>>

\* sendToDLQ, and the rest of handleFailure.  Without a producer it logs and
\* returns; a send that rejects is caught and logged; the ack comes in any case.
SendToDLQ ==
  /\ step = "dlq" /\ step' = "failack"
  /\ \/ /\ producer /\ deadLettered' = deadLettered \cup {current}
        /\ UNCHANGED <<unlettered, faults>>
     \/ /\ \/ ~producer /\ UNCHANGED faults
           \/ producer /\ faults < MaxFaults /\ faults' = faults + 1
        /\ unlettered' = unlettered \cup {current}
        /\ UNCHANGED deadLettered
  /\ UNCHANGED <<config, committed, position, current, attemptCounts, producer,
                 published, nacked, jumped, upsets>>

\* Faulty: a commit that fails after the DLQ write is swallowed.
FailAckFaulty ==
  /\ step = "failack"
  /\ (Commit \/ CommitFails) /\ Resolve
  /\ UNCHANGED <<config, producer, published, deadLettered, drops, upsets>>

\* The last ack of handleFailure; its error reaches kafkajs.
FailAck ==
  /\ step = "failack"
  /\ \/ Commit /\ Resolve
     \/ CommitFails /\ Reject
  /\ UNCHANGED <<config, producer, published, deadLettered, drops, upsets>>

-----------------------------------------------------------------------------
Upset == upsets < MaxUpsets /\ upsets' = upsets + 1

\* GROUP_JOIN between two messages: counters cleared, offsets read again.
Rebalance ==
  /\ Upset /\ current = NoMessage
  /\ position' = committed /\ attemptCounts' = NoAttempts
  /\ UNCHANGED <<config, committed, current, step, producer, published,
                 deadLettered, drops, faults>>

\* seek(), back or forward, between two messages: to an offset, the beginning,
\* the end or the offset of a timestamp.
Seek(p) ==
  /\ Upset /\ current = NoMessage
  /\ \E o \in 0 .. Length :
       /\ o # position[p] /\ position' = [position EXCEPT ![p] = o]
       /\ jumped' = jumped \cup ({p} \X (position[p] .. (o - 1)))
  /\ UNCHANGED <<config, committed, current, step, attemptCounts, producer,
                 published, deadLettered, nacked, unlettered, faults>>

\* The process dies and starts again.
Crash ==
  /\ Upset
  /\ position' = committed /\ attemptCounts' = NoAttempts
  /\ current' = NoMessage /\ step' = "idle" /\ producer' = FALSE
  /\ UNCHANGED <<config, committed, published, deadLettered, drops, faults>>

Handle ==
  Normalize \/ Publish \/ Ack \/ Failure \/ SendToDLQ \/ FailAck

Next ==
  \/ ConnectProducer \/ Handle \/ Rebalance \/ Crash
  \/ \E p \in Partitions : Fetch(p) \/ Seek(p)

Spec == Init /\ [][Next]_vars

\* The handler, kafkajs and doStart make progress.
Fairness ==
  /\ WF_vars(ConnectProducer) /\ WF_vars(Handle)
  /\ \A p \in Partitions : WF_vars(Fetch(p))

FairSpec == Spec /\ Fairness

-----------------------------------------------------------------------------
(* Properties *)

TypeOK ==
  /\ committed \in [Partitions -> 0 .. Length]
  /\ position \in [Partitions -> 0 .. Length]
  /\ attemptCounts \in [Partitions -> [Offsets -> 0 .. maxRetries]]
  /\ current \in (Partitions \X Offsets) \cup {NoMessage}
  /\ step = "idle" <=> current = NoMessage
  /\ current # NoMessage => position[P] = O

\* The messages something else than its handler let go: a nack gave it back to
\* kafkajs, its dead letter was not written (no producer yet, or a send that
\* failed), a seek passed it, or the filter dropped it.
LetGo(p, o) ==
  <<p, o>> \in nacked \cup unlettered \cup jumped \/ kind[p][o] = "filtered"

\* A message below the committed offset, which no restart reads again, was
\* published or is in the DLQ, unless it was let go: nothing else drops one
\* (buildAckContext, handleFailure, sendToDLQ), whatever crashes, rebalances,
\* seeks and failing commits come in between.
SkipsHaveCause ==
  \A p \in Partitions, o \in Offsets :
    o < committed[p] =>
      published[p][o] > 0 \/ <<p, o>> \in deadLettered \/ LetGo(p, o)

\* A message is published again only for a crash, a rebalance, a seek or a
\* commit that failed.
RedeliveryHasCause ==
  \A p \in Partitions, o \in Offsets : published[p][o] <= 1 + upsets + faults

\* Nothing a Kafka source skips or handles twice is without a cause that the
\* code knows (onKafkaMessage, sendToDLQ, the hooks of the consumer).
OffsetsHaveCause == SkipsHaveCause /\ RedeliveryHasCause

\* The group's offsets reach the end of the log, or only messages are left that a
\* nack gave back or a seek passed (ack, and the last ack of handleFailure).
EndCommitted ==
  <>[](\A p \in Partitions, o \in Offsets :
         o >= committed[p] => <<p, o>> \in nacked \cup jumped)

\* What a comment says and the code does not do: "throw so kafkajs redelivers",
\* so no failed message is dropped below the committed offset, except for those
\* another cause than the nack let go.
NothingSkipped ==
  \A p \in Partitions, o \in Offsets :
    o < committed[p] /\ <<p, o>> \notin unlettered \cup jumped /\ kind[p][o] # "filtered" =>
      published[p][o] > 0 \/ <<p, o>> \in deadLettered
=============================================================================
