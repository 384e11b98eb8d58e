---------------------------- MODULE SourcePartsMC ----------------------------
(* One instance for three parts of the source layer that share no state: the *)
(* circuit breaker, asynchronous pausing and the Kafka source.  A behaviour  *)
(* is one of the chosen part; the other two stay where they start.           *)
EXTENDS CircuitBreaker, Sequences

CONSTANTS c1, c2, c3,
  Transports, Reasons, MaxCalls, MaxConsumers, NoTag,
  Partitions, Length, Budgets, MaxFaults, MaxUpsets, NoMessage,
  MaxMishaps   \* bound: faults and upsets of one Kafka behaviour together

VARIABLES
  part,   \* the chosen one
  transport, reasons, tag, consumers, calls, created, lost, failed, overlapped,
  sought,
  maxRetries, kind, committed, position, current, step, attemptCounts, producer,
  published, deadLettered, nacked, unlettered, jumped, faults, upsets

Pause == INSTANCE SourcePause
Kafka == INSTANCE KafkaSource

ASSUME PartsAssumption == Pause!PauseParameters /\ Kafka!KafkaParameters

pauseVars == <<transport, reasons, tag, consumers, calls, created, lost, failed,
               overlapped, sought>>
kafkaVars == <<maxRetries, kind, committed, position, current, step,
               attemptCounts, producer, published, deadLettered, nacked,
               unlettered, jumped, faults, upsets>>

\* The bound on kinds of messages: only partition 0 mixes them, and the filter
\* drops one of its messages at most.
FewKinds ==
  /\ \A o, n \in Kafka!Offsets : kind[0][o] = "filtered" /\ kind[0][n] = "filtered" => o = n
  /\ \A p \in Partitions \ {0} :
       \E k \in {"good", "poison"} : kind[p] = [o \in Kafka!Offsets |-> k]

PartsInit ==
  /\ part \in {"breaker", "pause", "kafka"}
  /\ Init /\ Pause!Init /\ Kafka!Init
  /\ part # "breaker" => healthy
  /\ part # "pause" => transport = "amqp"
  /\ FewKinds
  /\ part # "kafka" =>
       /\ maxRetries = 0
       /\ kind = [p \in Partitions |-> [o \in Kafka!Offsets |-> "good"]]

PartsNext ==
  \/ part = "breaker" /\ Next /\ UNCHANGED <<part, pauseVars, kafkaVars>>
  \/ part = "pause" /\ Pause!Next /\ UNCHANGED <<part, vars, kafkaVars>>
  \/ /\ part = "kafka" /\ Kafka!Next /\ UNCHANGED <<part, vars, pauseVars>>
     /\ faults' + upsets' <= MaxMishaps

PartsSpec ==
  /\ PartsInit /\ [][PartsNext]_<<part, vars, pauseVars, kafkaVars>>
  /\ part = "breaker" => Fairness
  /\ part = "kafka" => Kafka!Fairness

-----------------------------------------------------------------------------
(* The parts' properties *)

PartsTypeOK == TypeOK /\ Pause!TypeOK /\ Kafka!TypeOK

FlowFollowsReasons == Pause!FlowFollowsReasons
OffsetsHaveCause   == Kafka!OffsetsHaveCause

\* Liveness, of the behaviours whose part it is about.
BreakerRecovers == part = "breaker" => Recovers
EndCommitted    == part = "kafka" => Kafka!EndCommitted
=============================================================================
