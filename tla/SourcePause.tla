---------------------------- MODULE SourcePause ----------------------------
(***************************************************************************)
(* Pausing and resuming an event source whose transport does it              *)
(* asynchronously: BaseSourceInstance.pauseFor and resumeFrom over the        *)
(* doPause and doResume of the AMQP and NATS sources.  A transport call is    *)
(* sent, and the code after its await runs when the reply arrives; commands   *)
(* may come at any time, also before that.                                   *)
(*                                                                         *)
(* A consumer may end behind the source's back, the AMQP channel may close    *)
(* (nothing opens another), and a consume may be refused.  pauseFor and        *)
(* resumeFrom then reject, which their listeners only log.                    *)
(***************************************************************************)
EXTENDS Naturals, Sequences, SequencesExt

CONSTANTS
  Transports,    \* "amqp": replies come in call order (one channel), no seek;
                 \* "nats": replies in any order, and seek()
  Reasons,       \* pause reasons in use
  MaxCalls,      \* bound: transport calls outstanding when a command starts
  MaxConsumers,  \* bound: transport consumers ever created
  NoTag          \* consumerTag or consumer is null

PauseParameters ==
  /\ Transports \subseteq {"amqp", "nats"}
  /\ {MaxCalls, MaxConsumers} \subseteq Nat \ {0}
  /\ NoTag \notin Nat

VARIABLES
  transport,   \* the source's transport
  reasons,     \* pauseReasons
  tag,         \* consumerTag (AMQP) or consumer (NATS)
  consumers,   \* consumers that exist at the broker
  calls,       \* transport calls whose reply is outstanding
  created,     \* consumers ever asked for
  overlapped,  \* doPause or doResume ran before a reply was in (history)
  lost,        \* the AMQP channel has closed
  failed,      \* since the last consumer opened the transport took one away or
               \* refused one (history)
  sought       \* seek() was called while paused (history)

past == <<overlapped, sought>>
vars == <<transport, reasons, tag, consumers, calls, created, lost, failed, past>>

Call(op, id) == [op |-> op, id |-> id]

\* doStart has opened the first consumer.
Init ==
  /\ transport \in Transports
  /\ reasons = {}
  /\ tag = 1 /\ consumers = {1} /\ created = 1
  /\ calls = <<>>
  /\ lost = FALSE /\ failed = FALSE
  /\ overlapped = FALSE /\ sought = FALSE

-----------------------------------------------------------------------------
\* doPause, up to its await.
DoPause ==
  /\ calls' = IF tag = NoTag THEN calls ELSE Append(calls, Call("cancel", tag))
  /\ UNCHANGED created

\* doResume, up to its await; t is the consumer it sees.
DoResume(pending, t) ==
  IF t # NoTag THEN calls' = pending /\ UNCHANGED created
  ELSE /\ created < MaxConsumers /\ created' = created + 1
       /\ calls' = Append(pending, Call("consume", created + 1))

\* A command that reaches the transport, and one that does not.
Reaches  == overlapped' = (overlapped \/ calls # <<>>)
NoEffect == UNCHANGED <<calls, created, overlapped>>

PauseFor(r) ==
  /\ Len(calls) < MaxCalls
  /\ reasons' = reasons \cup {r}
  /\ IF reasons = {} THEN DoPause /\ Reaches ELSE NoEffect
  /\ UNCHANGED <<transport, tag, consumers, lost, failed, sought>>

\* Faulty variants, named ...Faulty, stand before the definition they vary.
\* They are not part of the specification: each is a bug its property catches.
\* The first reason to go resumes the transport.
ResumeFromFaulty(r) ==
  /\ Len(calls) < MaxCalls /\ r \in reasons
  /\ reasons' = reasons \ {r}
  /\ DoResume(calls, tag) /\ Reaches
  /\ UNCHANGED <<transport, tag, consumers, lost, failed, sought>>

ResumeFrom(r) ==
  /\ Len(calls) < MaxCalls /\ r \in reasons
  /\ reasons' = reasons \ {r}
  /\ IF reasons' = {} THEN DoResume(calls, tag) /\ Reaches ELSE NoEffect
  /\ UNCHANGED <<transport, tag, consumers, lost, failed, sought>>

\* seek() stops the consumer, if there is one, and calls doResume.
Seek ==
  /\ transport = "nats" /\ Len(calls) < MaxCalls
  /\ IF tag # NoTag
     THEN calls' = Append(calls, Call("stop", tag)) /\ UNCHANGED created
     ELSE DoResume(calls, tag)
  /\ Reaches
  /\ sought' = (sought \/ reasons # {})
  /\ UNCHANGED <<transport, reasons, tag, consumers, lost, failed>>

\* A reply, and the code after the await.  A cancel that rejects is caught: its
\* channel is gone, and its consumer with it.
Reply(i) ==
  LET call == calls[i]
      rest == RemoveAt(calls, i) IN
  /\ transport = "amqp" => i = 1
  /\ \/ /\ call.op = "cancel"
        /\ consumers' = consumers \ {call.id} /\ tag' = NoTag
        /\ calls' = rest /\ UNCHANGED <<created, failed>>
     \/ /\ call.op = "stop"
        /\ consumers' = consumers \ {call.id} /\ tag' = NoTag
        /\ DoResume(rest, NoTag) /\ UNCHANGED failed
     \/ /\ call.op = "consume" /\ ~lost
        /\ consumers' = consumers \cup {call.id} /\ tag' = call.id
        /\ failed' = FALSE
        /\ calls' = rest /\ UNCHANGED created
  /\ UNCHANGED <<transport, reasons, lost, past>>

\* The AMQP channel closes, and its consumers with it; calls that wait reject.
ChannelGone == lost' = TRUE /\ consumers' = {} /\ failed' = TRUE

\* A consume is refused: pauseReasons and consumerTag stay as they are.  AMQP
\* closes the channel of a refused call.
Refused(i) ==
  /\ calls[i].op = "consume"
  /\ transport = "amqp" => i = 1
  /\ calls' = RemoveAt(calls, i)
  /\ IF transport = "amqp" THEN ChannelGone
     ELSE failed' = TRUE /\ UNCHANGED <<lost, consumers>>
  /\ UNCHANGED <<transport, reasons, tag, created, past>>

ChannelCloses ==
  /\ transport = "amqp" /\ ~lost /\ ChannelGone
  /\ UNCHANGED <<transport, reasons, tag, calls, created, past>>

\* The broker cancels a consumer (AMQP), or its consume loop ends with an error
\* (NATS): at most a log line, and the handle stays.
ConsumerEnds(c) ==
  /\ consumers' = consumers \ {c}
  /\ failed' = (failed \/ c = tag)
  /\ UNCHANGED <<transport, reasons, tag, calls, created, lost, past>>

Next ==
  \/ \E r \in Reasons : PauseFor(r) \/ ResumeFrom(r)
  \/ Seek
  \/ \E i \in DOMAIN calls : Reply(i) \/ Refused(i)
  \/ ChannelCloses
  \/ \E c \in consumers : ConsumerEnds(c)

Spec == Init /\ [][Next]_vars

-----------------------------------------------------------------------------
(* Properties *)

\* The transport has answered everything, and no doPause or doResume began
\* while it had an answer to give.  (Those that do act on a stale consumerTag.)
InTurn == calls = <<>> /\ ~overlapped

TypeOK ==
  /\ transport \in Transports
  /\ reasons \subseteq Reasons
  /\ tag \in 1 .. created \cup {NoTag}
  /\ consumers \subseteq 1 .. created /\ created \in 1 .. MaxConsumers
  /\ \A i \in DOMAIN calls :
       calls[i] \in [op : {"cancel", "stop", "consume"}, id : 1 .. created]
  /\ {lost, failed, overlapped, sought} \subseteq BOOLEAN

\* Once the transport has answered, a source has a consumer exactly while it has
\* no pause reason, in whatever order reasons come and go: "if no reasons remain,
\* resume the transport", "otherwise the transport is already paused".  A source
\* without a pause reason is deaf only if the transport refused the consumer or
\* took it away, and no other was opened since; a seek() restarts a paused one.
\* Two consumers there are never, so a later pause and stop() reach every
\* delivery.  Also where commands overlap, a source that holds a handle has its
\* consumer, unless the transport took it: one that overlapping commands left
\* deaf knows that it is, and opens one when next resumed (pauseFor, resumeFrom,
\* doPause, doResume, seek).
FlowFollowsReasons ==
  /\ InTurn => /\ reasons = {} => consumers # {} \/ failed
               /\ reasons # {} /\ ~sought => consumers = {}
  /\ ~overlapped => \A c, d \in consumers : c = d
  /\ tag # NoTag => tag \in consumers \/ failed
=============================================================================
