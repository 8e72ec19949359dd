----------------------------- MODULE OutboxRelay -----------------------------
(***************************************************************************)
(* The transactional outbox: services enqueue events in their own          *)
(* transactions (core/outbox/service.py), relays claim, send and mark them *)
(* (core/outbox/relay.py, workers/outbox_relay.py), and consumers take     *)
(* effect once per event (workers/consumer.py, workers/main.py).           *)
(*                                                                         *)
(* Every transaction is one step; a relay reads an event, sends it and     *)
(* marks it in three.  Time is abstract: a backoff delay ends, and a claim *)
(* grows older than the recovery threshold, at any moment.  The attempts   *)
(* column only lengthens the delay, so it is left out.                     *)
(***************************************************************************)
EXTENDS Integers, Sequences, FiniteSets, Functions

CONSTANTS
  Events,     \* ids of outbox_events rows
  Handled,    \* the events of a type some handler is registered for
  Relays,     \* relay processes (workers/outbox_relay.py, run)
  Consumers,  \* worker processes (workers/main.py, run)
  None,       \* no event
  BatchSize,  \* outbox_batch_size
  MaxCopies   \* bound: further copies of an event merge into the queued ones

ASSUME OutboxAssumption ==
  /\ IsFiniteSet(Events)
  /\ Handled \subseteq Events
  /\ None \notin Events
  /\ BatchSize \in Nat \ {0}
  /\ MaxCopies \in Nat \ {0}

VARIABLES
  status,    \* outbox_events.status, "absent" before the commit
  line,      \* pending events with available_at <= now, by available_at
  old,       \* publishing events with locked_at before the threshold
  relay,     \* local state of each relay
  sent,      \* events sent at least once (history)
  queue,     \* messages in the SQS queue, by event
  tried,     \* events with a delivery that was not acknowledged
  dlq,       \* events with a message in the dead letter queue
  markers,   \* events with a consumer_events row
  effects,   \* how often the handler took effect on each event (history)
  consumer   \* local state of each consumer

relayVars == <<status, line, old, relay, sent>>
consumerVars == <<markers, effects, consumer>>
vars == <<relayVars, consumerVars, queue, tried, dlq>>

-----------------------------------------------------------------------------
RelayState ==
  [pc : {"start", "poll", "read", "send", "mark", "fail"}, batch : Seq(Events)]

ConsumerState == [pc : {"idle", "process", "ack"}, e : Events \cup {None}]

TypeOK ==
  /\ status \in [Events -> {"absent", "pending", "publishing", "published"}]
  /\ line \in Seq(Events)
  /\ old \subseteq Events
  /\ relay \in [Relays -> RelayState]
  /\ \A r \in Relays :
       relay[r].pc \in {"read", "send", "mark", "fail"} => relay[r].batch # <<>>
  /\ sent \subseteq Events
  /\ queue \in [Events -> 0..MaxCopies]
  /\ tried \subseteq Events
  /\ dlq \subseteq Events
  /\ markers \subseteq Events
  /\ effects \in [Events -> Nat]
  /\ consumer \in [Consumers -> ConsumerState]
  /\ \A k \in Consumers : consumer[k].pc # "idle" => consumer[k].e \in Events

Started == [pc |-> "start", batch |-> <<>>]
Waiting == [pc |-> "idle", e |-> None]

Init ==
  /\ status = [e \in Events |-> "absent"]
  /\ line = <<>>
  /\ old = {}
  /\ relay = [r \in Relays |-> Started]
  /\ sent = {}
  /\ queue = [e \in Events |-> 0]
  /\ tried = {}
  /\ dlq = {}
  /\ markers = {}
  /\ effects = [e \in Events |-> 0]
  /\ consumer = [k \in Consumers |-> Waiting]

-----------------------------------------------------------------------------
(* The table, as services and the clock change it.                         *)

InLine(e) == \E i \in DOMAIN line : line[i] = e

\* enqueue_event, committed with the domain change.  available_at is taken
\* before the commit, so events committed earlier may stand behind this one.
Enqueue(e) ==
  /\ status[e] = "absent"
  /\ status' = [status EXCEPT ![e] = "pending"]
  /\ \E i \in 0..Len(line) :
       line' = SubSeq(line, 1, i) \o <<e>> \o SubSeq(line, i + 1, Len(line))
  /\ UNCHANGED <<old, relay, sent, consumerVars, queue, tried, dlq>>

\* The delay of _mark_failed ends: available_at <= now.
BackoffEnds(e) ==
  /\ status[e] = "pending" /\ ~InLine(e)
  /\ line' = Append(line, e)
  /\ UNCHANGED <<status, old, relay, sent, consumerVars, queue, tried, dlq>>

\* locked_at of a claim falls behind the recovery threshold.
ClaimAges(e) ==
  /\ status[e] = "publishing" /\ e \notin old
  /\ old' = old \cup {e}
  /\ UNCHANGED <<status, line, relay, sent, consumerVars, queue, tried, dlq>>

-----------------------------------------------------------------------------
(* The relay.                                                              *)

Current(r) == Head(relay[r].batch)

Goto(r, pc) == relay' = [relay EXCEPT ![r].pc = pc]

\* Variant of NextInBatch: the end of the batch is not noticed.
NextKeepsReading(r) ==
  relay' = [relay EXCEPT ![r] = [pc |-> "read", batch |-> Tail(@.batch)]]

\* run_once goes on to the next event of the batch, or run to the next poll.
NextInBatch(r) ==
  LET rest == Tail(relay[r].batch) IN
  relay' = [relay EXCEPT ![r] =
              [pc |-> IF rest = <<>> THEN "poll" ELSE "read", batch |-> rest]]

\* run, once at the start of the process: recover_stale_claims.  The rows
\* get one available_at, so their order among themselves is arbitrary.
Recover(r) ==
  LET stale == {e \in old : status[e] = "publishing"} IN
  /\ relay[r].pc = "start"
  /\ status' = [e \in Events |-> IF e \in stale THEN "pending" ELSE status[e]]
  /\ \E order \in Bijection(1..Cardinality(stale), stale) : line' = line \o order
  /\ old' = old \ stale
  /\ Goto(r, "poll")
  /\ UNCHANGED <<sent, consumerVars, queue, tried, dlq>>

\* Variant of ClaimBatch: the new status is not written.
ClaimBatchNoStatus(r) ==
  LET n == IF Len(line) < BatchSize THEN Len(line) ELSE BatchSize IN
  /\ relay[r].pc = "poll" /\ line # <<>>
  /\ line' = SubSeq(line, n + 1, Len(line))
  /\ relay' = [relay EXCEPT ![r] = [pc |-> "read", batch |-> SubSeq(line, 1, n)]]
  /\ UNCHANGED <<status, old, sent, consumerVars, queue, tried, dlq>>

\* _claim_batch.  SKIP LOCKED and the row locks give concurrent claims
\* disjoint batches, so one after the other takes from the front.
ClaimBatch(r) ==
  LET n == IF Len(line) < BatchSize THEN Len(line) ELSE BatchSize
      batch == SubSeq(line, 1, n)
      claimed == {batch[i] : i \in 1..n}
  IN
  /\ relay[r].pc = "poll" /\ line # <<>>
  /\ status' = [e \in Events |-> IF e \in claimed THEN "publishing" ELSE status[e]]
  /\ line' = SubSeq(line, n + 1, Len(line))
  /\ old' = old \ claimed
  /\ relay' = [relay EXCEPT ![r] = [pc |-> "read", batch |-> batch]]
  /\ UNCHANGED <<sent, consumerVars, queue, tried, dlq>>

\* _publish_one reads the event and skips one that is not publishing.
ReadEvent(r) ==
  /\ relay[r].pc = "read"
  /\ IF status[Current(r)] = "publishing" THEN Goto(r, "send") ELSE NextInBatch(r)
  /\ UNCHANGED <<status, line, old, sent, consumerVars, queue, tried, dlq>>

\* The message reaches the queue.
Deliver(e) ==
  /\ sent' = sent \cup {e}
  /\ queue' = [queue EXCEPT ![e] = IF @ < MaxCopies THEN @ + 1 ELSE @]

SendOk(r) ==
  /\ relay[r].pc = "send"
  /\ Deliver(Current(r))
  /\ Goto(r, "mark")
  /\ UNCHANGED <<status, line, old, consumerVars, tried, dlq>>

\* publish raises; the message may have reached the queue all the same.
SendFails(r) ==
  /\ relay[r].pc = "send"
  /\ \/ Deliver(Current(r))
     \/ UNCHANGED <<sent, queue>>
  /\ Goto(r, "fail")
  /\ UNCHANGED <<status, line, old, consumerVars, tried, dlq>>

\* _mark_published.  It looks at the status, not at who claimed the event.
MarkPublished(r) ==
  LET e == Current(r) IN
  /\ relay[r].pc = "mark"
  /\ IF status[e] = "publishing"
       THEN /\ status' = [status EXCEPT ![e] = "published"]
            /\ old' = old \ {e}
       ELSE UNCHANGED <<status, old>>
  /\ NextInBatch(r)
  /\ UNCHANGED <<line, sent, consumerVars, queue, tried, dlq>>

\* Variant of MarkFailed: the status is not checked.
MarkFailedUnchecked(r) ==
  LET e == Current(r) IN
  /\ relay[r].pc = "fail"
  /\ status' = [status EXCEPT ![e] = "pending"]
  /\ old' = old \ {e}
  /\ NextInBatch(r)
  /\ UNCHANGED <<line, sent, consumerVars, queue, tried, dlq>>

\* Variant of MarkFailed: the event keeps its claim.
MarkFailedKeepsClaim(r) ==
  /\ relay[r].pc = "fail"
  /\ NextInBatch(r)
  /\ UNCHANGED <<status, line, old, sent, consumerVars, queue, tried, dlq>>

\* _mark_failed: back to pending, available after a delay.
MarkFailed(r) ==
  LET e == Current(r) IN
  /\ relay[r].pc = "fail"
  /\ IF status[e] = "publishing"
       THEN /\ status' = [status EXCEPT ![e] = "pending"]
            /\ old' = old \ {e}
       ELSE UNCHANGED <<status, old>>
  /\ NextInBatch(r)
  /\ UNCHANGED <<line, sent, consumerVars, queue, tried, dlq>>

\* The process dies, or a database error leaves run_once; it is restarted.
RelayCrash(r) ==
  /\ relay[r].pc # "start"
  /\ relay' = [relay EXCEPT ![r] = Started]
  /\ UNCHANGED <<status, line, old, sent, consumerVars, queue, tried, dlq>>

RelayStep(r) ==
  \/ Recover(r) \/ ClaimBatch(r) \/ ReadEvent(r)
  \/ SendOk(r) \/ SendFails(r) \/ MarkPublished(r) \/ MarkFailed(r)

-----------------------------------------------------------------------------
(* Queue and consumers.                                                    *)

\* SqsConsumer.receive.
Receive(k, e) ==
  /\ consumer[k].pc = "idle" /\ queue[e] > 0
  /\ consumer' = [consumer EXCEPT ![k] = [pc |-> "process", e |-> e]]
  /\ UNCHANGED <<relayVars, markers, effects, queue, tried, dlq>>

\* _process_message: no handler supports the event; it is not acknowledged.
Unsupported(k) ==
  /\ consumer[k].pc = "process" /\ consumer[k].e \notin Handled
  /\ tried' = tried \cup {consumer[k].e}
  /\ consumer' = [consumer EXCEPT ![k] = Waiting]
  /\ UNCHANGED <<relayVars, markers, effects, queue, dlq>>

\* SqlEventProcessor.process: the marker and the handler's effect commit
\* together, unless the marker is there.
Process(k) ==
  LET e == consumer[k].e IN
  /\ consumer[k].pc = "process" /\ e \in Handled
  /\ IF e \in markers
       THEN UNCHANGED <<markers, effects>>
       ELSE /\ markers' = markers \cup {e}
            /\ effects' = [effects EXCEPT ![e] = @ + 1]
  /\ consumer' = [consumer EXCEPT ![k].pc = "ack"]
  /\ UNCHANGED <<relayVars, queue, tried, dlq>>

\* acknowledge: the message leaves the queue unless it is gone already.
Acknowledge(k) ==
  LET e == consumer[k].e IN
  /\ consumer[k].pc = "ack"
  /\ \/ queue[e] > 0 /\ queue' = [queue EXCEPT ![e] = @ - 1]
     \/ UNCHANGED queue
  /\ consumer' = [consumer EXCEPT ![k] = Waiting]
  /\ UNCHANGED <<relayVars, markers, effects, tried, dlq>>

\* Variant of ConsumerCrash: the message was acknowledged on receipt.
ConsumerCrashAcked(k) ==
  LET e == consumer[k].e IN
  /\ consumer[k].pc # "idle"
  /\ queue' = [queue EXCEPT ![e] = IF @ > 0 THEN @ - 1 ELSE 0]
  /\ consumer' = [consumer EXCEPT ![k] = Waiting]
  /\ UNCHANGED <<relayVars, markers, effects, tried, dlq>>

\* The handler raises, its transaction is rolled back and the process ends;
\* or the process dies.  The message was not acknowledged.
ConsumerCrash(k) ==
  /\ consumer[k].pc # "idle"
  /\ tried' = tried \cup {consumer[k].e}
  /\ consumer' = [consumer EXCEPT ![k] = Waiting]
  /\ UNCHANGED <<relayVars, markers, effects, queue, dlq>>

\* The redrive policy sets a message aside that was received and not
\* acknowledged.  Receives are not counted here: it may happen after the first.
Redrive(e) ==
  /\ e \in tried /\ queue[e] > 0
  /\ queue' = [queue EXCEPT ![e] = @ - 1]
  /\ dlq' = dlq \cup {e}
  /\ UNCHANGED <<relayVars, consumerVars, tried>>

ConsumerStep(k) == Unsupported(k) \/ Process(k) \/ Acknowledge(k)

Next ==
  \/ \E e \in Events :
       \/ Enqueue(e) \/ BackoffEnds(e) \/ ClaimAges(e) \/ Redrive(e)
       \/ \E k \in Consumers : Receive(k, e)
  \/ \E r \in Relays : RelayStep(r) \/ RelayCrash(r)
  \/ \E k \in Consumers : ConsumerStep(k) \/ ConsumerCrash(k)

Spec == Init /\ [][Next]_vars

\* Relays run and are restarted, the queue is reachable again and again,
\* delays end, claims age, messages are redelivered.  Crashes need not stop, so claiming
\* and sending need strong fairness.
Fairness ==
  /\ \A r \in Relays : WF_vars(RelayStep(r)) /\ SF_vars(ClaimBatch(r))
  /\ \A e \in Events :
       /\ SF_vars(\E r \in Relays : SendOk(r) /\ Current(r) = e)
       /\ WF_vars(BackoffEnds(e)) /\ WF_vars(ClaimAges(e)) /\ WF_vars(Redrive(e))
       /\ SF_vars(\E k \in Consumers : Receive(k, e))
  /\ \A k \in Consumers : WF_vars(ConsumerStep(k))

FairSpec == Spec /\ Fairness

-----------------------------------------------------------------------------
(* Properties.                                                             *)

\* The stage of EventDelivery a status stands for.
StageOf(s) ==
  CASE s = "absent" -> "none"
    [] s = "published" -> "published"
    [] OTHER -> "committed"

Delivery == INSTANCE EventDelivery
              WITH stage <- [e \in Events |-> StageOf(status[e])],
                   handled <- effects

\* Relays that overtake each other, late failures and recovered claims never
\* mark an event published that was not sent nor unpublish one, nothing
\* uncommitted is sent, and duplicates take effect once: the outbox implements
\* EventDelivery.
DeliverySpec == Delivery!Spec

\* However often an event is sent and delivered, its handler takes effect at
\* most once (uq_consumer_event).
HandledOnce == \A e \in Events : effects[e] <= 1

\* A sent event that no handler has taken effect on is still in the queue or
\* in the dead letter queue, whatever consumers crash.
SentNotLost ==
  \A e \in sent : effects[e] > 0 \/ queue[e] > 0 \/ e \in dlq

\* A claim is abandoned when no running relay has the event in its batch.
Abandoned(e) ==
  /\ status[e] = "publishing"
  /\ \A r \in Relays : \A i \in DOMAIN relay[r].batch : relay[r].batch[i] # e

\* A claim is abandoned by a crash only: whatever fails or overtakes, a relay
\* lets go of a publishing event by publishing it or by making it pending.
OnlyCrashesAbandon ==
  [][\A e \in Events : ~Abandoned(e) /\ Abandoned(e)' =>
       \E r \in Relays : RelayCrash(r)]_vars

\* Every committed event is published, unless the relay that claimed it ends.
PublishedOrAbandoned ==
  \A e \in Events :
    status[e] = "pending" ~> (status[e] = "published" \/ Abandoned(e))

\* Every sent event is handled or set aside in the dead letter queue.
HandledOrSetAside ==
  \A e \in Events : e \in sent ~> (effects[e] > 0 \/ e \in dlq)

\* Every committed event is published.
Published == \A e \in Events : status[e] = "pending" ~> status[e] = "published"

=============================================================================
