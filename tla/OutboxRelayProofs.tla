-------------------------- MODULE OutboxRelayProofs --------------------------
(***************************************************************************)
(* What OutboxRelay guarantees for every number of events, relays and      *)
(* consumers.  The inductive invariant adds to the checked properties      *)
(* where events stand: the line holds pending events, each once; a relay   *)
(* only holds committed events, and marks only what it sent; a consumer    *)
(* only holds sent events, and acknowledges only what was handled.         *)
(***************************************************************************)
EXTENDS OutboxRelay, FiniteSetTheorems, SequenceTheorems, TLAPS

\* What inserting one element between two sequences gives.
LEMMA Inserted ==
  ASSUME NEW S, NEW a \in Seq(S), NEW b \in Seq(S), NEW x \in S
  PROVE  /\ a \o <<x>> \o b \in Seq(S)
         /\ Len(a \o <<x>> \o b) = Len(a) + 1 + Len(b)
         /\ \A j \in 1..(Len(a) + 1 + Len(b)) :
              (a \o <<x>> \o b)[j] =
                IF j <= Len(a) THEN a[j]
                ELSE IF j = Len(a) + 1 THEN x ELSE b[j - (Len(a) + 1)]
<1> DEFINE ax == a \o <<x>>
           n == Len(a)
<1>1. <<x>> \in Seq(S) /\ Len(<<x>>) = 1 /\ <<x>>[1] = x /\ n \in Nat /\ Len(b) \in Nat
  OBVIOUS
<1>2. /\ ax \in Seq(S) /\ Len(ax) = n + 1
      /\ \A j \in 1..(n + 1) : ax[j] = IF j <= n THEN a[j] ELSE <<x>>[j - n]
  BY <1>1, ConcatProperties
<1>3. \A j \in 1..(n + 1) : ax[j] = IF j <= n THEN a[j] ELSE x
  BY <1>1, <1>2
<1>a. ax \in Seq(S) /\ Len(ax) = n + 1
  BY <1>2
<1> HIDE DEF ax
<1>c. /\ ax \o b \in Seq(S) /\ Len(ax \o b) = Len(ax) + Len(b)
      /\ \A j \in 1..(Len(ax) + Len(b)) :
           (ax \o b)[j] = IF j <= Len(ax) THEN ax[j] ELSE b[j - Len(ax)]
  BY <1>a, ConcatProperties
<1>4. /\ ax \o b \in Seq(S) /\ Len(ax \o b) = n + 1 + Len(b)
      /\ \A j \in 1..(n + 1 + Len(b)) :
           (ax \o b)[j] = IF j <= n + 1 THEN ax[j] ELSE b[j - (n + 1)]
  BY <1>a, <1>c
<1> DEFINE t == ax \o b
<1> HIDE DEF t, n
<1>5. ASSUME NEW j \in 1..(n + 1 + Len(b))
      PROVE t[j] = IF j <= n THEN a[j] ELSE IF j = n + 1 THEN x ELSE b[j - (n + 1)]
  <2>1. t[j] = IF j <= n + 1 THEN ax[j] ELSE b[j - (n + 1)]
    BY <1>4 DEF t
  <2>2. j \in Nat /\ n \in Nat /\ 1 <= j
    BY <1>1
  <2>3. CASE j <= n + 1
    BY <2>1, <2>2, <2>3, <1>3
  <2>4. CASE ~(j <= n + 1)
    BY <2>1, <2>2, <2>4
  <2>5. QED
    BY <2>3, <2>4
<1>6. QED
  BY <1>4, <1>5 DEF t, ax, n

LEMMA SubSeqTyped ==
  ASSUME NEW S, NEW s \in Seq(S), NEW i \in 0..Len(s)
  PROVE  /\ SubSeq(s, 1, i) \in Seq(S) /\ Len(SubSeq(s, 1, i)) = i
         /\ \A j \in 1..i : SubSeq(s, 1, i)[j] = s[j]
         /\ SubSeq(s, i + 1, Len(s)) \in Seq(S)
         /\ Len(SubSeq(s, i + 1, Len(s))) = Len(s) - i
         /\ \A j \in 1..(Len(s) - i) : SubSeq(s, i + 1, Len(s))[j] = s[j + i]
  OBVIOUS

\* An enumeration of n elements is a sequence.
LEMMA Enumerated ==
  ASSUME NEW S, NEW n \in Nat, NEW s \in [1..n -> S]
  PROVE  s \in Seq(S) /\ Len(s) = n
<1>1. s \in Seq(S)
  BY SeqDef, Zenon
<1>2. QED
  BY <1>1

\* The rest of a batch holds nothing new.
LEMMA Rest ==
  ASSUME NEW S, NEW s \in Seq(S), s # <<>>
  PROVE  /\ Head(s) \in S /\ Head(s) = s[1] /\ 1 \in DOMAIN s
         /\ Tail(s) \in Seq(S)
         /\ \A i \in DOMAIN Tail(s) : i + 1 \in DOMAIN s /\ Tail(s)[i] = s[i + 1]
<1>1. Len(s) \in Nat \ {0} /\ DOMAIN s = 1..Len(s)
  OBVIOUS
<1>2. Head(s) \in S /\ Head(s) = s[1] /\ 1 \in DOMAIN s
  BY <1>1
<1>3. Tail(s) \in Seq(S) /\ DOMAIN Tail(s) = 1..(Len(s) - 1)
  BY <1>1
<1>4. ASSUME NEW i \in 1..(Len(s) - 1) PROVE i + 1 \in DOMAIN s /\ Tail(s)[i] = s[i + 1]
  BY <1>1, <1>4
<1>5. QED
  BY <1>2, <1>3, <1>4

-----------------------------------------------------------------------------
(* Types.                                                                  *)

LEMMA InitTypeOK == Init => TypeOK
  BY OutboxAssumption DEF Init, TypeOK, RelayState, ConsumerState, Started, Waiting

\* The steps of a relay that only move it keep its record typed.
LEMMA NextInBatchTyped ==
  ASSUME TypeOK, NEW r \in Relays, relay[r].batch # <<>>, NextInBatch(r)
  PROVE  /\ relay' \in [Relays -> RelayState]
         /\ \A q \in Relays : relay'[q].pc \in {"read", "send", "mark", "fail"} =>
              relay'[q].batch # <<>>
<1>1. relay[r].batch \in Seq(Events)
  BY DEF TypeOK, RelayState
<1>2. Tail(relay[r].batch) \in Seq(Events)
  BY <1>1, Rest
<1>3. QED
  BY <1>2 DEF TypeOK, RelayState, NextInBatch

LEMMA RelayTypeOK ==
  ASSUME TypeOK, NEW r \in Relays, RelayStep(r) \/ RelayCrash(r)
  PROVE  TypeOK'
<1> USE OutboxAssumption DEF TypeOK
<1>r. relay[r] \in RelayState /\ relay[r].batch \in Seq(Events)
  BY DEF RelayState
<1>h. ASSUME relay[r].batch # <<>> PROVE Current(r) \in Events
  BY <1>h, <1>r, Rest DEF Current
<1>g. ASSUME NEW pc \in {"send", "mark", "fail"}, relay[r].batch # <<>>, Goto(r, pc)
      PROVE  /\ relay' \in [Relays -> RelayState]
             /\ \A q \in Relays : relay'[q].pc \in {"read", "send", "mark", "fail"} =>
                  relay'[q].batch # <<>>
  BY <1>g, <1>r DEF Goto, RelayState
<1>d. ASSUME NEW e \in Events, Deliver(e)
      PROVE  sent' \subseteq Events /\ queue' \in [Events -> 0..MaxCopies]
  BY <1>d DEF Deliver
<1>1. CASE Recover(r)
  <2> DEFINE stale == {e \in old : status[e] = "publishing"}
  <2>1. PICK order \in Bijection(1..Cardinality(stale), stale) : line' = line \o order
    BY <1>1 DEF Recover
  <2>2. order \in [1..Cardinality(stale) -> Events]
    BY DEF Bijection, Injection
  <2>3. Cardinality(stale) \in Nat
    <3>1. IsFiniteSet(stale)
      BY FS_Subset
    <3>2. QED
      BY <3>1, FS_CardinalityType
  <2> DEFINE n == Cardinality(stale)
  <2> HIDE DEF n
  <2>4. order \in Seq(Events)
    <3>1. n \in Nat /\ order \in [1..n -> Events]
      BY <2>2, <2>3 DEF n
    <3>2. QED
      BY <3>1, Enumerated
  <2>5. line' \in Seq(Events)
    BY <2>1, <2>4
  <2>6. status' \in [Events -> {"absent", "pending", "publishing", "published"}]
    BY <1>1 DEF Recover
  <2>7. relay' \in [Relays -> RelayState]
        /\ \A q \in Relays : relay'[q].pc \in {"read", "send", "mark", "fail"} =>
             relay'[q].batch # <<>>
    BY <1>1, <1>r DEF Recover, Goto, RelayState
  <2>8. old' \subseteq Events
    BY <1>1 DEF Recover
  <2>9. QED
    BY <1>1, <2>5, <2>6, <2>7, <2>8 DEF Recover, consumerVars
<1>2. CASE ClaimBatch(r)
  <2> DEFINE n == IF Len(line) < BatchSize THEN Len(line) ELSE BatchSize
             batch == SubSeq(line, 1, n)
  <2>1. n \in 1..Len(line)
    BY <1>2 DEF ClaimBatch
  <2>2. batch \in Seq(Events) /\ Len(batch) = n /\ SubSeq(line, n + 1, Len(line)) \in Seq(Events)
    BY <2>1
  <2>3. relay' = [relay EXCEPT ![r] = [pc |-> "read", batch |-> batch]]
        /\ line' = SubSeq(line, n + 1, Len(line))
    BY <1>2 DEF ClaimBatch
  <2>4. batch # <<>>
    BY <2>1, <2>2
  <2>5. status' \in [Events -> {"absent", "pending", "publishing", "published"}]
        /\ old' \subseteq Events
    BY <1>2 DEF ClaimBatch
  <2> HIDE DEF n, batch
  <2>6. relay' \in [Relays -> RelayState]
        /\ \A q \in Relays : relay'[q].pc \in {"read", "send", "mark", "fail"} =>
             relay'[q].batch # <<>>
    BY <2>2, <2>3, <2>4 DEF RelayState
  <2>7. QED
    BY <1>2, <2>2, <2>3, <2>5, <2>6 DEF ClaimBatch, consumerVars
<1>3. CASE ReadEvent(r)
  <2>1. relay[r].batch # <<>>
    BY <1>3 DEF ReadEvent
  <2>2. QED
    BY <1>3, <2>1, <1>g, NextInBatchTyped DEF ReadEvent, consumerVars
<1>4. CASE SendOk(r)
  <2>1. relay[r].batch # <<>>
    BY <1>4 DEF SendOk
  <2>2. QED
    BY <1>4, <2>1, <1>g, <1>h, <1>d DEF SendOk, consumerVars
<1>5. CASE SendFails(r)
  <2>1. relay[r].batch # <<>>
    BY <1>5 DEF SendFails
  <2>2. QED
    BY <1>5, <2>1, <1>g, <1>h, <1>d DEF SendFails, consumerVars
<1>6. CASE MarkPublished(r)
  <2>1. relay[r].batch # <<>>
    BY <1>6 DEF MarkPublished
  <2>2. QED
    BY <1>6, <2>1, <1>h, NextInBatchTyped DEF MarkPublished, consumerVars
<1>7. CASE MarkFailed(r)
  <2>1. relay[r].batch # <<>>
    BY <1>7 DEF MarkFailed
  <2>2. QED
    BY <1>7, <2>1, <1>h, NextInBatchTyped DEF MarkFailed, consumerVars
<1>8. CASE RelayCrash(r)
  BY <1>8 DEF RelayCrash, Started, RelayState, consumerVars
<1>9. QED
  BY <1>1, <1>2, <1>3, <1>4, <1>5, <1>6, <1>7, <1>8 DEF RelayStep

LEMMA ConsumerTypeOK ==
  ASSUME TypeOK, NEW k \in Consumers,
         ConsumerStep(k) \/ ConsumerCrash(k) \/ \E e \in Events : Receive(k, e)
  PROVE  TypeOK'
<1> USE OutboxAssumption DEF TypeOK, ConsumerState, relayVars, Waiting
<1>1. CASE Unsupported(k)
  BY <1>1 DEF Unsupported
<1>2. CASE Process(k)
  <2> DEFINE e == consumer[k].e
  <2>1. e \in Events /\ effects[e] + 1 \in Nat
    BY <1>2 DEF Process
  <2>2. /\ markers' = markers \/ markers' = markers \cup {e}
        /\ effects' = effects \/ effects' = [effects EXCEPT ![e] = effects[e] + 1]
        /\ consumer' = [consumer EXCEPT ![k].pc = "ack"]
    BY <1>2 DEF Process
  <2> HIDE DEF e
  <2>3. markers' \subseteq Events /\ effects' \in [Events -> Nat]
    BY <2>1, <2>2
  <2>4. consumer' \in [Consumers -> ConsumerState]
    BY <1>2 DEF Process
  <2>5. \A j \in Consumers : consumer'[j].pc # "idle" => consumer'[j].e \in Events
    BY <2>2, <1>2 DEF Process
  <2>6. QED
    BY <1>2, <2>3, <2>4, <2>5 DEF Process
<1>3. CASE Acknowledge(k)
  <2> DEFINE e == consumer[k].e
  <2>1. e \in Events /\ queue[e] \in 0..MaxCopies
    BY <1>3 DEF Acknowledge
  <2>2. queue' = queue \/ (queue[e] > 0 /\ queue' = [queue EXCEPT ![e] = queue[e] - 1])
    BY <1>3 DEF Acknowledge
  <2> HIDE DEF e
  <2>3. queue' \in [Events -> 0..MaxCopies]
    <3>1. CASE queue[e] > 0
      <4>1. queue[e] - 1 \in 0..MaxCopies
        BY <2>1, <3>1
      <4>2. QED
        BY ZenonT(30), <4>1, <2>1, <2>2
    <3>2. QED
      BY <3>1, <2>2
  <2>4. /\ consumer' \in [Consumers -> ConsumerState]
        /\ \A j \in Consumers : consumer'[j].pc # "idle" => consumer'[j].e \in Events
    BY <1>3 DEF Acknowledge
  <2>5. QED
    BY <1>3, <2>3, <2>4 DEF Acknowledge
<1>4. CASE ConsumerCrash(k)
  BY <1>4 DEF ConsumerCrash
<1>5. ASSUME NEW e \in Events, Receive(k, e) PROVE TypeOK'
  BY <1>5 DEF Receive
<1>6. QED
  BY <1>1, <1>2, <1>3, <1>4, <1>5 DEF ConsumerStep

LEMMA NextTypeOK == TypeOK /\ [Next]_vars => TypeOK'
<1> SUFFICES ASSUME TypeOK, [Next]_vars PROVE TypeOK'
  OBVIOUS
<1>1. ASSUME NEW e \in Events, Enqueue(e) PROVE TypeOK'
  <2>1. PICK i \in 0..Len(line) :
          line' = SubSeq(line, 1, i) \o <<e>> \o SubSeq(line, i + 1, Len(line))
    BY <1>1 DEF Enqueue
  <2>2. line' \in Seq(Events)
    BY <2>1, Inserted, SubSeqTyped DEF TypeOK
  <2>3. QED
    BY <1>1, <2>2 DEF Enqueue, TypeOK, consumerVars
<1>2. ASSUME NEW e \in Events, BackoffEnds(e) \/ ClaimAges(e) PROVE TypeOK'
  <2>1. Append(line, e) \in Seq(Events)
    BY DEF TypeOK
  <2>2. line' \in Seq(Events) /\ old' \subseteq Events
    BY <1>2, <2>1 DEF BackoffEnds, ClaimAges, TypeOK
  <2>3. QED
    BY <1>2, <2>2 DEF BackoffEnds, ClaimAges, TypeOK, consumerVars
<1>3. ASSUME NEW e \in Events, Redrive(e) PROVE TypeOK'
  BY <1>3, OutboxAssumption DEF Redrive, TypeOK, relayVars, consumerVars
<1>4. CASE UNCHANGED vars
  BY <1>4 DEF vars, relayVars, consumerVars, TypeOK
<1>5. QED
  BY <1>1, <1>2, <1>3, <1>4, RelayTypeOK, ConsumerTypeOK DEF Next

\* Every variable keeps its type: OutboxRelay is well typed for every number
\* of events, relays and consumers.
THEOREM TypeCorrect == Spec => []TypeOK
  BY InitTypeOK, NextTypeOK, PTL DEF Spec

-----------------------------------------------------------------------------
(* The inductive invariant.                                                *)

LineHoldsPending ==
  /\ \A i \in DOMAIN line : status[line[i]] = "pending"
  /\ \A i, j \in DOMAIN line : line[i] = line[j] => i = j

RelaysHoldCommitted ==
  \A r \in Relays :
    /\ \A i \in DOMAIN relay[r].batch : status[relay[r].batch[i]] # "absent"
    /\ relay[r].pc = "mark" => Current(r) \in sent

PublishedWasSent ==
  \A e \in Events :
    /\ status[e] = "published" => e \in sent
    /\ e \in sent => status[e] # "absent"

RelayInv == LineHoldsPending /\ RelaysHoldCommitted /\ PublishedWasSent

\* A consumer and the queue hold sent events only.
OnlySentDelivered ==
  /\ \A e \in Events : queue[e] > 0 => e \in sent
  /\ \A k \in Consumers : consumer[k].pc # "idle" => consumer[k].e \in sent

\* The marker stands for the one effect, and precedes the acknowledgement.
MarkedOnce ==
  /\ \A e \in Events : effects[e] = IF e \in markers THEN 1 ELSE 0
  /\ \A k \in Consumers : consumer[k].pc = "ack" => consumer[k].e \in markers

ConsumerInv == OnlySentDelivered /\ MarkedOnce /\ SentNotLost

DeliveryInv == TypeOK /\ RelayInv /\ ConsumerInv

LEMMA InitDeliveryInv == Init => DeliveryInv
<1> SUFFICES ASSUME Init PROVE RelayInv /\ ConsumerInv
  BY InitTypeOK DEF DeliveryInv
<1>1. RelayInv
  BY DEF Init, RelayInv, LineHoldsPending, RelaysHoldCommitted, PublishedWasSent, Started
<1>2. ConsumerInv
  BY DEF Init, ConsumerInv, OnlySentDelivered, MarkedOnce, SentNotLost, Waiting
<1>3. QED
  BY <1>1, <1>2

\* Consumers and the redrive policy do not touch what RelayInv is about.
LEMMA RelayInvUntouched ==
  ASSUME RelayInv, UNCHANGED relayVars
  PROVE  RelayInv'
  BY DEF RelayInv, LineHoldsPending, RelaysHoldCommitted, PublishedWasSent,
     relayVars, Current

\* What the steps of relays do to the queue keeps ConsumerInv.
LEMMA ConsumerInvUntouched ==
  ASSUME TypeOK, ConsumerInv, UNCHANGED <<consumerVars, dlq>>,
         \/ UNCHANGED <<sent, queue>>
         \/ \E e \in Events : Deliver(e)
  PROVE  ConsumerInv'
<1>1. CASE UNCHANGED <<sent, queue>>
  BY <1>1 DEF ConsumerInv, OnlySentDelivered, MarkedOnce, SentNotLost, consumerVars
<1>2. ASSUME NEW e \in Events, Deliver(e) PROVE ConsumerInv'
  <2>1. \A d \in Events : queue[d] \in Nat /\ queue'[d] \in Nat /\ queue'[d] >= queue[d]
    BY <1>2, OutboxAssumption DEF TypeOK, Deliver
  <2>2. sent' = sent \cup {e} /\ queue'[e] > 0
    BY <1>2, OutboxAssumption DEF TypeOK, Deliver
  <2>3. \A d \in Events : d # e => queue'[d] = queue[d]
    BY <1>2 DEF TypeOK, Deliver
  <2>4. OnlySentDelivered'
    BY <2>2, <2>3 DEF ConsumerInv, OnlySentDelivered, consumerVars
  <2>5. MarkedOnce'
    BY DEF ConsumerInv, MarkedOnce, consumerVars
  <2>6. SentNotLost'
    BY <2>2, <2>3 DEF ConsumerInv, SentNotLost, consumerVars, TypeOK
  <2>7. QED
    BY <2>4, <2>5, <2>6 DEF ConsumerInv
<1>3. QED
  BY <1>1, <1>2

LEMMA ConsumerStepInv ==
  ASSUME TypeOK, ConsumerInv,
         \/ \E k \in Consumers : ConsumerStep(k) \/ ConsumerCrash(k)
         \/ \E e \in Events : Redrive(e) \/ \E k \in Consumers : Receive(k, e)
  PROVE  ConsumerInv'
<1> USE DEF ConsumerInv, OnlySentDelivered, MarkedOnce, SentNotLost, relayVars, Waiting
<1>t. /\ consumer \in [Consumers -> ConsumerState] /\ queue \in [Events -> 0..MaxCopies]
      /\ effects \in [Events -> Nat] /\ MaxCopies \in Nat /\ sent \subseteq Events
      /\ \A k \in Consumers : consumer[k].pc # "idle" => consumer[k].e \in Events
  BY OutboxAssumption DEF TypeOK
<1>1. ASSUME NEW k \in Consumers, Unsupported(k) \/ ConsumerCrash(k) PROVE ConsumerInv'
  BY <1>1, <1>t DEF Unsupported, ConsumerCrash, ConsumerState
<1>2. ASSUME NEW k \in Consumers, Process(k) PROVE ConsumerInv'
  <2> DEFINE e == consumer[k].e
  <2>1. e \in Events /\ e \in sent
    BY <1>2, <1>t DEF Process
  <2>2. UNCHANGED <<queue, dlq, sent>>
    BY <1>2 DEF Process
  <2>3. /\ markers' = markers \cup {e}
        /\ \A d \in Events : effects'[d] = IF d \in markers' THEN 1 ELSE 0
    BY <1>2, <1>t, <2>1 DEF Process
  <2>4. \A j \in Consumers : /\ consumer'[j].e = consumer[j].e
                             /\ j # k => consumer'[j].pc = consumer[j].pc
    BY <1>2, <1>t DEF Process, ConsumerState
  <2>5. \A j \in Consumers : consumer'[j].pc = "ack" => consumer'[j].e \in markers'
    BY <2>3, <2>4
  <2>6. \A j \in Consumers : consumer'[j].pc # "idle" => consumer'[j].e \in sent'
    BY <2>1, <2>2, <2>4
  <2>7. SentNotLost'
    BY <2>2, <2>3, <1>t
  <2>8. QED
    BY <2>2, <2>3, <2>5, <2>6, <2>7
<1>3. ASSUME NEW k \in Consumers, Acknowledge(k) PROVE ConsumerInv'
  <2> DEFINE e == consumer[k].e
  <2>1. e \in Events /\ e \in markers /\ effects[e] > 0
    BY <1>3, <1>t DEF Acknowledge
  <2>2. UNCHANGED <<markers, effects, dlq, sent>>
    BY <1>3 DEF Acknowledge
  <2>3. \A d \in Events : d # e => queue'[d] = queue[d]
    BY <1>3, <1>t DEF Acknowledge
  <2>4. queue[e] \in Nat /\ (queue'[e] = queue[e] \/ queue[e] > 0)
    BY <1>3, <1>t, <2>1 DEF Acknowledge
  <2>5. \A j \in Consumers : j # k => consumer'[j] = consumer[j]
    BY <1>3, <1>t DEF Acknowledge
  <2>6. consumer'[k].pc = "idle"
    BY <1>3, <1>t DEF Acknowledge
  <2>7. OnlySentDelivered'
    BY <2>2, <2>3, <2>4, <2>5, <2>6
  <2>8. MarkedOnce'
    BY <2>2, <2>5, <2>6
  <2>9. SentNotLost'
    BY <2>1, <2>2, <2>3, <1>t
  <2>10. QED
    BY <2>7, <2>8, <2>9
<1>4. ASSUME NEW e \in Events, Redrive(e) PROVE ConsumerInv'
  <2>1. /\ UNCHANGED <<sent, markers, effects, consumer>> /\ dlq' = dlq \cup {e}
        /\ queue[e] > 0
    BY <1>4 DEF Redrive, consumerVars
  <2>2. \A d \in Events : d # e => queue'[d] = queue[d]
    BY <1>4, <1>t DEF Redrive
  <2>3. QED
    BY <2>1, <2>2, <1>t
<1>5. ASSUME NEW e \in Events, NEW k \in Consumers, Receive(k, e) PROVE ConsumerInv'
  BY <1>5, <1>t DEF Receive, ConsumerState
<1>6. QED
  BY <1>1, <1>2, <1>3, <1>4, <1>5 DEF ConsumerStep

-----------------------------------------------------------------------------
(* The steps of the table and of the relays.                               *)

\* What is known of a relay's current event.
LEMMA CurrentKnown ==
  ASSUME TypeOK, RelayInv, NEW r \in Relays, relay[r].batch # <<>>
  PROVE  /\ Current(r) \in Events /\ status[Current(r)] # "absent"
         /\ relay[r].batch \in Seq(Events)
<1>1. relay[r].batch \in Seq(Events)
  BY DEF TypeOK, RelayState
<1>2. Head(relay[r].batch) = relay[r].batch[1] /\ 1 \in DOMAIN relay[r].batch
      /\ Head(relay[r].batch) \in Events
  BY <1>1, Rest
<1>3. QED
  BY <1>1, <1>2 DEF Current, RelayInv, RelaysHoldCommitted

\* A relay that moves on keeps what is known of it, when no event becomes
\* uncommitted or unsent.
LEMMA MovesOn ==
  ASSUME TypeOK, RelaysHoldCommitted, NEW r \in Relays, relay[r].batch # <<>>,
         \A e \in Events : status[e] # "absent" => status'[e] # "absent",
         sent \subseteq sent',
         \/ NextInBatch(r)
         \/ Goto(r, "send") \/ Goto(r, "fail")
         \/ Goto(r, "mark") /\ Current(r) \in sent'
  PROVE  RelaysHoldCommitted'
<1> SUFFICES ASSUME NEW q \in Relays
             PROVE  /\ \A i \in DOMAIN relay'[q].batch : status'[relay'[q].batch[i]] # "absent"
                    /\ relay'[q].pc = "mark" => Current(q)' \in sent'
  BY DEF RelaysHoldCommitted
<1>t. relay[q] \in RelayState /\ relay[q].batch \in Seq(Events)
  BY DEF TypeOK, RelayState
<1>1. CASE q # r
  <2>1. relay'[q] = relay[q]
    BY <1>1 DEF TypeOK, NextInBatch, Goto
  <2>2. \A i \in DOMAIN relay[q].batch :
          relay[q].batch[i] \in Events /\ status[relay[q].batch[i]] # "absent"
    BY <1>t DEF RelaysHoldCommitted
  <2>3. QED
    BY <2>1, <2>2 DEF RelaysHoldCommitted, Current
<1>2. CASE q = r /\ NextInBatch(r)
  <2> DEFINE b == relay[r].batch
  <2>1. /\ relay'[r].batch = Tail(b) /\ relay'[r].pc # "mark"
    BY <1>2 DEF TypeOK, NextInBatch
  <2>2. /\ \A i \in DOMAIN Tail(b) : i + 1 \in DOMAIN b /\ Tail(b)[i] = b[i + 1]
    BY <1>2, <1>t, Rest
  <2>3. \A i \in DOMAIN b : b[i] \in Events /\ status[b[i]] # "absent"
    BY <1>2, <1>t DEF RelaysHoldCommitted
  <2> HIDE DEF b
  <2>4. \A i \in DOMAIN Tail(b) : status'[Tail(b)[i]] # "absent"
    BY <2>2, <2>3
  <2>5. QED
    BY <1>2, <2>1, <2>4
<1>3. CASE q = r /\ ~NextInBatch(r)
  <2>1. /\ relay'[r].batch = relay[r].batch
        /\ relay'[r].pc = "mark" => Current(r) \in sent'
    BY <1>3, <1>t DEF TypeOK, Goto, RelayState
  <2>2. \A i \in DOMAIN relay[r].batch :
          relay[r].batch[i] \in Events /\ status[relay[r].batch[i]] # "absent"
    BY <1>3, <1>t DEF RelaysHoldCommitted
  <2>3. QED
    BY <1>3, <2>1, <2>2 DEF Current
<1>4. QED
  BY <1>1, <1>2, <1>3

LEMMA EnqueueInv ==
  ASSUME TypeOK, RelayInv, NEW e \in Events, Enqueue(e)
  PROVE  RelayInv'
<1>1. PICK i \in 0..Len(line) :
        line' = SubSeq(line, 1, i) \o <<e>> \o SubSeq(line, i + 1, Len(line))
  BY DEF Enqueue
<1>l. line \in Seq(Events) /\ Len(line) \in Nat /\ DOMAIN line = 1..Len(line)
  BY DEF TypeOK
<1>s. /\ status' = [status EXCEPT ![e] = "pending"] /\ status[e] = "absent"
      /\ UNCHANGED <<relay, sent>>
  BY DEF Enqueue
<1> DEFINE a == SubSeq(line, 1, i)
           b == SubSeq(line, i + 1, Len(line))
<1>2. /\ a \in Seq(Events) /\ Len(a) = i /\ \A j \in 1..i : a[j] = line[j]
      /\ b \in Seq(Events) /\ Len(b) = Len(line) - i
      /\ \A j \in 1..(Len(line) - i) : b[j] = line[j + i]
  BY ZenonT(30), <1>l, SubSeqTyped
<1>i. line' = a \o <<e>> \o b
  BY <1>1
<1>j. a \in Seq(Events) /\ b \in Seq(Events)
  BY <1>2
<1> HIDE DEF a, b
<1>3. /\ line' \in Seq(Events) /\ Len(line') = Len(a) + 1 + Len(b)
      /\ \A j \in 1..(Len(a) + 1 + Len(b)) :
           line'[j] = IF j <= Len(a) THEN a[j]
                      ELSE IF j = Len(a) + 1 THEN e ELSE b[j - (Len(a) + 1)]
  BY <1>i, <1>j, Inserted
<1>4. Len(line') = Len(line) + 1
  BY <1>l, <1>2, <1>3
<1>5. ASSUME NEW j \in 1..Len(line')
      PROVE line'[j] = IF j <= i THEN line[j] ELSE IF j = i + 1 THEN e ELSE line[j - 1]
  <2>1. j \in Nat /\ 1 <= j /\ j <= Len(line) + 1 /\ i \in Nat
    BY <1>4, <1>l
  <2>2. line'[j] = IF j <= i THEN a[j] ELSE IF j = i + 1 THEN e ELSE b[j - (i + 1)]
    BY <1>2, <1>3
  <2>3. CASE j > i + 1
    <3>1. j - (i + 1) \in 1..(Len(line) - i) /\ (j - (i + 1)) + i = j - 1
      BY <2>1, <2>3, <1>l
    <3>2. b[j - (i + 1)] = line[j - 1]
      BY <3>1, <1>2
    <3>3. QED
      BY <2>1, <2>2, <2>3, <3>2
  <2>4. CASE j <= i
    BY <2>1, <2>2, <2>4, <1>2
  <2>5. QED
    BY <2>1, <2>2, <2>3, <2>4
<1>6. \A j \in DOMAIN line : line[j] \in Events /\ status[line[j]] = "pending" /\ line[j] # e
  BY <1>l, <1>s DEF RelayInv, LineHoldsPending
<1>d. DOMAIN line' = 1..(Len(line) + 1)
  BY <1>3, <1>4
<1>7. LineHoldsPending'
  <2>1. ASSUME NEW j \in DOMAIN line' PROVE status'[line'[j]] = "pending"
    <3>1. line'[j] = e \/ (line'[j] \in Events /\ status[line'[j]] = "pending")
      BY <1>5, <1>6, <1>d, <1>l, <2>1
    <3>2. QED
      BY <3>1, <1>s DEF TypeOK
  <2>2. ASSUME NEW j \in DOMAIN line', NEW k \in DOMAIN line', line'[j] = line'[k]
        PROVE j = k
    <3>1. /\ j \in 1..(Len(line) + 1) /\ k \in 1..(Len(line) + 1)
          /\ line'[j] = IF j <= i THEN line[j] ELSE IF j = i + 1 THEN e ELSE line[j - 1]
          /\ line'[k] = IF k <= i THEN line[k] ELSE IF k = i + 1 THEN e ELSE line[k - 1]
      BY <1>5, <1>d, <1>4
    <3>2. \A x, y \in 1..Len(line) : line[x] = line[y] => x = y
      BY <1>l DEF RelayInv, LineHoldsPending
    <3>3. \A x \in 1..Len(line) : line[x] # e
      BY <1>6, <1>l
    <3>4. QED
      BY <3>1, <3>2, <3>3, <2>2, <1>l
  <2>3. QED
    BY <2>1, <2>2 DEF LineHoldsPending
<1>8. RelaysHoldCommitted'
  BY <1>s DEF TypeOK, RelayInv, RelaysHoldCommitted, Current
<1>9. PublishedWasSent'
  BY <1>s DEF TypeOK, RelayInv, PublishedWasSent
<1>10. QED
  BY <1>7, <1>8, <1>9 DEF RelayInv

LEMMA ClockInv ==
  ASSUME TypeOK, RelayInv, NEW e \in Events, BackoffEnds(e) \/ ClaimAges(e)
  PROVE  RelayInv'
<1>1. CASE ClaimAges(e)
  BY <1>1 DEF ClaimAges, RelayInv, LineHoldsPending, RelaysHoldCommitted,
     PublishedWasSent, Current
<1>2. CASE BackoffEnds(e)
  <2>1. /\ line \in Seq(Events) /\ Len(line) \in Nat /\ DOMAIN line = 1..Len(line)
        /\ line' = Append(line, e) /\ UNCHANGED <<status, relay, sent>>
        /\ status[e] = "pending" /\ \A i \in 1..Len(line) : line[i] # e
    BY <1>2 DEF BackoffEnds, TypeOK, InLine
  <2>2. DOMAIN line' = 1..(Len(line) + 1)
    BY <2>1
  <2>3. \A i \in 1..Len(line) : line'[i] = line[i]
    BY <2>1
  <2>4. line'[Len(line) + 1] = e
    BY <2>1
  <2>5. \A i \in 1..(Len(line) + 1) : i \in 1..Len(line) \/ i = Len(line) + 1
    BY <2>1
  <2>6. \A i \in DOMAIN line' : status'[line'[i]] = "pending"
    BY <2>1, <2>2, <2>3, <2>4, <2>5 DEF RelayInv, LineHoldsPending
  <2>7. \A i, j \in DOMAIN line' : line'[i] = line'[j] => i = j
    BY <2>1, <2>2, <2>3, <2>4, <2>5 DEF RelayInv, LineHoldsPending
  <2>8. QED
    BY <2>1, <2>6, <2>7 DEF RelayInv, LineHoldsPending, RelaysHoldCommitted,
       PublishedWasSent, Current
<1>3. QED
  BY <1>1, <1>2

LEMMA RecoverInv ==
  ASSUME TypeOK, RelayInv, NEW r \in Relays, Recover(r)
  PROVE  RelayInv'
<1> DEFINE stale == {e \in old : status[e] = "publishing"}
           n == Cardinality(stale)
<1>1. PICK order \in Bijection(1..n, stale) : line' = line \o order
  BY DEF Recover
<1>2. n \in Nat
  <2>1. IsFiniteSet(stale)
    BY FS_Subset, OutboxAssumption DEF TypeOK
  <2>2. QED
    BY <2>1, FS_CardinalityType
<1>3. /\ order \in [1..n -> Events]
      /\ \A i \in 1..n : order[i] \in stale
      /\ \A i, j \in 1..n : order[i] = order[j] => i = j
  BY DEF Bijection, Injection, IsInjective, TypeOK
<1>s. /\ \A e \in Events : status'[e] = IF e \in stale THEN "pending" ELSE status[e]
      /\ \A e \in stale : e \in Events /\ status[e] = "publishing"
      /\ relay' = [relay EXCEPT ![r].pc = "poll"] /\ sent' = sent
  BY DEF Recover, Goto, TypeOK
<1> HIDE DEF n, stale
<1>4. order \in Seq(Events) /\ Len(order) = n
  BY <1>2, <1>3, Enumerated
<1>5. /\ line \in Seq(Events) /\ Len(line) \in Nat /\ DOMAIN line = 1..Len(line)
      /\ \A i \in 1..Len(line) : line[i] \in Events /\ status[line[i]] = "pending"
      /\ \A i, j \in 1..Len(line) : line[i] = line[j] => i = j
  BY DEF TypeOK, RelayInv, LineHoldsPending
<1>l. line \in Seq(Events)
  BY DEF TypeOK
<1>o. order \in Seq(Events)
  BY <1>4
<1>j. /\ line \o order \in Seq(Events) /\ Len(line \o order) = Len(line) + Len(order)
      /\ \A i \in 1..(Len(line) + Len(order)) :
           (line \o order)[i] = IF i <= Len(line) THEN line[i] ELSE order[i - Len(line)]
  BY <1>l, <1>o, ConcatProperties
<1>6. /\ line' \in Seq(Events) /\ Len(line') = Len(line) + Len(order)
      /\ \A i \in 1..(Len(line) + Len(order)) :
           line'[i] = IF i <= Len(line) THEN line[i] ELSE order[i - Len(line)]
  BY <1>1, <1>j
<1>7. /\ DOMAIN line' = 1..(Len(line) + n)
      /\ \A i \in DOMAIN line' :
           \/ i \in 1..Len(line) /\ line'[i] = line[i]
           \/ i - Len(line) \in 1..n /\ line'[i] = order[i - Len(line)]
  BY <1>2, <1>4, <1>5, <1>6
<1>8. \A i \in 1..Len(line) : \A j \in 1..n : line[i] # order[j]
  BY <1>3, <1>5, <1>s
<1>9. \A i \in DOMAIN line' : status'[line'[i]] = "pending"
  BY <1>3, <1>5, <1>7, <1>s
<1>10. ASSUME NEW i \in DOMAIN line', NEW j \in DOMAIN line', line'[i] = line'[j]
       PROVE i = j
  BY <1>2, <1>3, <1>5, <1>7, <1>8, <1>10
<1>11. LineHoldsPending'
  BY <1>9, <1>10 DEF LineHoldsPending
<1>12. RelaysHoldCommitted'
  <2>1. \A q \in Relays : /\ relay'[q].batch = relay[q].batch
                          /\ relay'[q].pc = "mark" => relay[q].pc = "mark"
                          /\ relay[q].batch \in Seq(Events)
    BY <1>s DEF TypeOK, RelayState
  <2>2. \A e \in Events : status[e] # "absent" => status'[e] # "absent"
    BY <1>s
  <2>3. \A q \in Relays : \A i \in DOMAIN relay[q].batch : relay[q].batch[i] \in Events
    BY <2>1
  <2>4. QED
    BY <1>s, <2>1, <2>2, <2>3 DEF RelayInv, RelaysHoldCommitted, Current
<1>13. PublishedWasSent'
  BY <1>s DEF RelayInv, PublishedWasSent
<1>14. QED
  BY <1>11, <1>12, <1>13 DEF RelayInv

LEMMA ClaimBatchInv ==
  ASSUME TypeOK, RelayInv, NEW r \in Relays, ClaimBatch(r)
  PROVE  RelayInv'
<1> DEFINE n == IF Len(line) < BatchSize THEN Len(line) ELSE BatchSize
           batch == SubSeq(line, 1, n)
           claimed == {batch[i] : i \in 1..n}
<1>1. /\ line \in Seq(Events) /\ Len(line) \in Nat /\ DOMAIN line = 1..Len(line)
      /\ \A i \in 1..Len(line) : line[i] \in Events /\ status[line[i]] = "pending"
      /\ \A i, j \in 1..Len(line) : line[i] = line[j] => i = j
  BY DEF TypeOK, RelayInv, LineHoldsPending
<1>2. n \in 0..Len(line)
  BY <1>1, OutboxAssumption
<1>3. /\ line' = SubSeq(line, n + 1, Len(line))
      /\ \A e \in Events : status'[e] = IF e \in claimed THEN "publishing" ELSE status[e]
      /\ relay' = [relay EXCEPT ![r] = [pc |-> "read", batch |-> batch]]
      /\ sent' = sent
  BY DEF ClaimBatch, TypeOK
<1> HIDE DEF n
<1>l. line \in Seq(Events) /\ n \in 0..Len(line)
  BY <1>2 DEF TypeOK
<1>b. /\ SubSeq(line, 1, n) \in Seq(Events) /\ Len(SubSeq(line, 1, n)) = n
      /\ \A j \in 1..n : SubSeq(line, 1, n)[j] = line[j]
      /\ SubSeq(line, n + 1, Len(line)) \in Seq(Events)
      /\ Len(SubSeq(line, n + 1, Len(line))) = Len(line) - n
      /\ \A j \in 1..(Len(line) - n) : SubSeq(line, n + 1, Len(line))[j] = line[j + n]
  BY <1>l, SubSeqTyped
<1>r. /\ line' \in Seq(Events) /\ Len(line') = Len(line) - n
      /\ \A i \in 1..(Len(line) - n) : line'[i] = line[i + n]
  <2>1. line' = SubSeq(line, n + 1, Len(line))
    BY <1>3
  <2>2. QED
    BY <2>1, <1>b, Zenon
<1>4. /\ batch \in Seq(Events) /\ Len(batch) = n /\ \A i \in 1..n : batch[i] = line[i]
      /\ line' \in Seq(Events) /\ Len(line') = Len(line) - n
      /\ \A i \in 1..(Len(line) - n) : line'[i] = line[i + n]
  BY <1>b, <1>r
<1> HIDE DEF batch
<1>5. claimed = {line[i] : i \in 1..n}
  BY ZenonT(30), <1>4
<1> HIDE DEF claimed
<1>6. \A i \in 1..(Len(line) - n) :
        /\ i + n \in 1..Len(line) /\ i + n \notin 1..n
        /\ line'[i] = line[i + n]
  BY <1>1, <1>2, <1>4
<1>7. DOMAIN line' = 1..(Len(line) - n) /\ \A i \in 1..n : i \in 1..Len(line)
  BY <1>1, <1>2, <1>4
<1>8. ASSUME NEW i \in 1..(Len(line) - n) PROVE line'[i] \notin claimed
  BY <1>1, <1>5, <1>6, <1>7
<1>9. \A i \in DOMAIN line' : status'[line'[i]] = "pending"
  <2>1. ASSUME NEW i \in 1..(Len(line) - n) PROVE status'[line'[i]] = "pending"
    <3>1. line'[i] \in Events /\ status[line'[i]] = "pending"
      BY <1>1, <1>6
    <3>2. QED
      BY <3>1, <1>3, <1>8
  <2>2. QED
    BY <2>1, <1>7
<1>10. ASSUME NEW i \in DOMAIN line', NEW j \in DOMAIN line', line'[i] = line'[j]
       PROVE i = j
  <2>1. i + n = j + n
    BY <1>1, <1>6, <1>7, <1>10
  <2>2. QED
    BY <2>1, <1>1, <1>2, <1>7
<1>11. LineHoldsPending'
  BY <1>9, <1>10 DEF LineHoldsPending
<1>12. \A e \in Events : status[e] # "absent" => status'[e] # "absent"
  BY <1>3
<1>13. RelaysHoldCommitted'
  <2>1. \A q \in Relays : q # r => relay'[q] = relay[q]
    BY <1>3 DEF TypeOK
  <2>2. relay'[r].batch = batch /\ relay'[r].pc = "read"
    BY <1>3 DEF TypeOK
  <2>3. \A i \in DOMAIN batch : status'[batch[i]] # "absent"
    <3> SUFFICES ASSUME NEW i \in DOMAIN batch
                 PROVE  status'[batch[i]] # "absent"
      OBVIOUS
    <3>1. i \in 1..n /\ batch[i] = line[i]
      BY <1>2, <1>4
    <3>2. line[i] \in Events /\ status[line[i]] = "pending"
      BY <1>1, <1>7, <3>1
    <3>3. QED
      BY <1>12, <3>1, <3>2
  <2>4. \A q \in Relays : \A i \in DOMAIN relay[q].batch : relay[q].batch[i] \in Events
    <3>1. \A q \in Relays : relay[q].batch \in Seq(Events)
      BY DEF TypeOK, RelayState
    <3>2. QED
      BY <3>1
  <2>5. QED
    BY <1>3, <1>12, <2>1, <2>2, <2>3, <2>4 DEF RelayInv, RelaysHoldCommitted, Current
<1>14. \A e \in claimed : e \in Events /\ status[e] = "pending"
  BY <1>1, <1>5, <1>7
<1>15. PublishedWasSent'
  BY <1>3, <1>14 DEF RelayInv, PublishedWasSent
<1>16. QED
  BY <1>11, <1>13, <1>15 DEF RelayInv

LEMMA RelayStepInv ==
  ASSUME TypeOK, RelayInv, NEW r \in Relays, RelayStep(r) \/ RelayCrash(r)
  PROVE  RelayInv'
<1>1. CASE Recover(r)
  BY <1>1, RecoverInv
<1>2. CASE ClaimBatch(r)
  BY <1>2, ClaimBatchInv
<1>3. CASE ReadEvent(r) \/ SendOk(r) \/ SendFails(r)
  <2>1. relay[r].batch # <<>>
    BY <1>3 DEF ReadEvent, SendOk, SendFails, TypeOK
  <2>2. /\ UNCHANGED <<status, line>> /\ sent \subseteq sent'
        /\ sent' \subseteq sent \cup {Current(r)}
        /\ \/ NextInBatch(r) \/ Goto(r, "send") \/ Goto(r, "fail")
           \/ Goto(r, "mark") /\ Current(r) \in sent'
    BY <1>3 DEF ReadEvent, SendOk, SendFails, Deliver
  <2>3. RelaysHoldCommitted'
    BY <2>1, <2>2, MovesOn DEF RelayInv
  <2>4. LineHoldsPending'
    BY <2>2 DEF RelayInv, LineHoldsPending
  <2>5. PublishedWasSent'
    BY <2>1, <2>2, CurrentKnown DEF RelayInv, PublishedWasSent
  <2>6. QED
    BY <2>3, <2>4, <2>5 DEF RelayInv
<1>4. CASE MarkPublished(r) \/ MarkFailed(r)
  <2> DEFINE e == Current(r)
  <2>1. relay[r].batch # <<>>
    BY <1>4 DEF MarkPublished, MarkFailed, TypeOK
  <2>2. /\ UNCHANGED <<line, sent>> /\ NextInBatch(r)
        /\ \/ status' = status
           \/ status[e] = "publishing" /\ status' = [status EXCEPT ![e] = "pending"]
           \/ /\ status[e] = "publishing" /\ relay[r].pc = "mark"
              /\ status' = [status EXCEPT ![e] = "published"]
    BY <1>4 DEF MarkPublished, MarkFailed
  <2>3. e \in Events /\ (relay[r].pc = "mark" => e \in sent)
    BY <2>1, CurrentKnown DEF RelayInv, RelaysHoldCommitted
  <2> HIDE DEF e
  <2>4. \A d \in Events : /\ status[d] # "absent" => status'[d] # "absent"
                          /\ status[d] = "pending" => status'[d] = "pending"
                          /\ status'[d] = "published" => status[d] = "published" \/ d \in sent
                          /\ status[d] = "absent" => status'[d] = "absent"
    BY <2>2, <2>3 DEF TypeOK
  <2>5. RelaysHoldCommitted'
    BY <2>1, <2>2, <2>4, MovesOn DEF RelayInv
  <2>6. LineHoldsPending'
    <3>1. \A i \in DOMAIN line : line[i] \in Events
      BY DEF TypeOK
    <3>2. QED
      BY <2>2, <2>4, <3>1 DEF RelayInv, LineHoldsPending
  <2>7. PublishedWasSent'
    BY <2>2, <2>4 DEF RelayInv, PublishedWasSent
  <2>8. QED
    BY <2>5, <2>6, <2>7 DEF RelayInv
<1>5. CASE RelayCrash(r)
  <2>1. /\ UNCHANGED <<status, line, sent>>
        /\ \A q \in Relays : relay'[q] = IF q = r THEN Started ELSE relay[q]
    BY <1>5 DEF RelayCrash, TypeOK
  <2>2. QED
    BY <2>1 DEF RelayInv, LineHoldsPending, RelaysHoldCommitted, PublishedWasSent,
       Current, Started
<1>6. QED
  BY <1>1, <1>2, <1>3, <1>4, <1>5 DEF RelayStep

LEMMA NextDeliveryInv == DeliveryInv /\ [Next]_vars => DeliveryInv'
<1> SUFFICES ASSUME DeliveryInv, [Next]_vars PROVE RelayInv' /\ ConsumerInv'
  BY NextTypeOK DEF DeliveryInv
<1>t. TypeOK /\ RelayInv /\ ConsumerInv
  BY DEF DeliveryInv
<1>1. ASSUME NEW e \in Events, Enqueue(e) \/ BackoffEnds(e) \/ ClaimAges(e)
      PROVE RelayInv' /\ ConsumerInv'
  <2>1. UNCHANGED <<consumerVars, dlq, sent, queue>>
    BY <1>1 DEF Enqueue, BackoffEnds, ClaimAges
  <2>2. QED
    BY <1>1, <1>t, <2>1, EnqueueInv, ClockInv, ConsumerInvUntouched
<1>2. ASSUME NEW r \in Relays, RelayStep(r) \/ RelayCrash(r)
      PROVE RelayInv' /\ ConsumerInv'
  <2>1. UNCHANGED <<consumerVars, dlq>>
    BY <1>2 DEF RelayStep, Recover, ClaimBatch, ReadEvent, SendOk, SendFails,
       MarkPublished, MarkFailed, RelayCrash
  <2>2. UNCHANGED <<sent, queue>> \/ \E e \in Events : Deliver(e)
    <3>1. CASE SendOk(r) \/ SendFails(r)
      <4>1. Current(r) \in Events
        BY <3>1, <1>t, CurrentKnown DEF SendOk, SendFails, TypeOK
      <4>2. QED
        BY <3>1, <4>1 DEF SendOk, SendFails
    <3>2. CASE ~(SendOk(r) \/ SendFails(r))
      BY <1>2, <3>2 DEF RelayStep, Recover, ClaimBatch, ReadEvent, MarkPublished,
         MarkFailed, RelayCrash
    <3>3. QED
      BY <3>1, <3>2
  <2>3. QED
    BY <1>2, <1>t, <2>1, <2>2, RelayStepInv, ConsumerInvUntouched
<1>3. CASE \/ \E k \in Consumers : ConsumerStep(k) \/ ConsumerCrash(k)
           \/ \E e \in Events : Redrive(e) \/ \E k \in Consumers : Receive(k, e)
  <2>1. UNCHANGED relayVars
    BY <1>3 DEF ConsumerStep, Unsupported, Process, Acknowledge, ConsumerCrash,
       Redrive, Receive
  <2>2. QED
    BY <1>3, <1>t, <2>1, RelayInvUntouched, ConsumerStepInv
<1>4. CASE UNCHANGED vars
  BY <1>4, <1>t, RelayInvUntouched, ConsumerInvUntouched DEF vars, relayVars
<1>5. QED
  BY <1>1, <1>2, <1>3, <1>4 DEF Next

LEMMA DeliveryInvariant == Spec => []DeliveryInv
  BY InitDeliveryInv, NextDeliveryInv, PTL DEF Spec

\* No handler takes effect twice on one event, however many relays send it
\* and however many consumers receive it.
THEOREM HandledAtMostOnce == Spec => []HandledOnce
<1>1. DeliveryInv => HandledOnce
  BY DEF DeliveryInv, ConsumerInv, MarkedOnce, HandledOnce
<1>2. QED
  BY <1>1, DeliveryInvariant, PTL

\* A sent event is handled, queued or in the dead letter queue.
THEOREM NoSentEventLost == Spec => []SentNotLost
<1>1. DeliveryInv => SentNotLost
  BY DEF DeliveryInv, ConsumerInv
<1>2. QED
  BY <1>1, DeliveryInvariant, PTL

-----------------------------------------------------------------------------
(* Refinement.                                                             *)

stage == [e \in Events |-> StageOf(status[e])]

LEMMA DeliveryStutters ==
  ASSUME UNCHANGED <<stage, sent, effects>>
  PROVE  UNCHANGED Delivery!vars
  BY DEF Delivery!vars, stage

\* A step of a relay commits nothing and confirms only what was sent.
LEMMA RelayStepDelivers ==
  ASSUME DeliveryInv, NEW r \in Relays, RelayStep(r) \/ RelayCrash(r)
  PROVE  [Delivery!Next]_(Delivery!vars)
<1>t. TypeOK /\ RelayInv /\ ConsumerInv
  BY DEF DeliveryInv
<1>h. effects' = effects
  BY DEF RelayStep, Recover, ClaimBatch, ReadEvent, SendOk, SendFails, MarkPublished,
     MarkFailed, RelayCrash, consumerVars
<1>1. CASE Recover(r)
  <2>1. \A e \in Events : StageOf(status'[e]) = StageOf(status[e])
    BY <1>1, <1>t DEF Recover, TypeOK, StageOf
  <2>2. stage' = stage /\ sent' = sent
    BY <1>1, <2>1 DEF stage, Recover
  <2>3. QED
    BY <1>h, <2>2, DeliveryStutters
<1>2. CASE ClaimBatch(r)
  <2> DEFINE n == IF Len(line) < BatchSize THEN Len(line) ELSE BatchSize
             batch == SubSeq(line, 1, n)
             claimed == {batch[i] : i \in 1..n}
  <2>1. line \in Seq(Events) /\ n \in 0..Len(line)
    BY <1>t, OutboxAssumption DEF TypeOK
  <2>2. \A e \in Events : status'[e] = IF e \in claimed THEN "publishing" ELSE status[e]
    BY <1>2 DEF ClaimBatch
  <2> HIDE DEF n
  <2>3. \A i \in 1..n : batch[i] = line[i] /\ i \in DOMAIN line
    BY <2>1, SubSeqTyped
  <2> HIDE DEF batch
  <2>4. \A e \in claimed : status[e] = "pending"
    BY <2>3, <1>t DEF RelayInv, LineHoldsPending
  <2> HIDE DEF claimed
  <2>5. \A e \in Events : StageOf(status'[e]) = StageOf(status[e])
    BY <2>2, <2>4 DEF StageOf
  <2>6. stage' = stage /\ sent' = sent
    BY <1>2, <2>5 DEF stage, ClaimBatch
  <2>7. QED
    BY <1>h, <2>6, DeliveryStutters
<1>3. CASE ReadEvent(r) \/ RelayCrash(r)
  BY <1>3, <1>h, DeliveryStutters DEF ReadEvent, RelayCrash, stage
<1>4. CASE SendOk(r) \/ SendFails(r)
  <2> DEFINE e == Current(r)
  <2>1. e \in Events /\ status[e] # "absent"
    BY <1>4, <1>t, CurrentKnown DEF SendOk, SendFails, TypeOK
  <2>2. /\ stage' = stage
        /\ sent' = sent \/ sent' = sent \cup {e}
    BY <1>4 DEF SendOk, SendFails, Deliver, stage
  <2>3. stage[e] # "none"
    BY <2>1 DEF stage, StageOf
  <2>4. CASE sent' = sent
    BY <2>2, <2>4, <1>h, DeliveryStutters
  <2>5. CASE sent' = sent \cup {e}
    <3>1. Delivery!Send(e)
      BY <2>2, <2>3, <2>5, <1>h DEF Delivery!Send, stage
    <3>2. QED
      BY <3>1, <2>1 DEF Delivery!Next
  <2>6. QED
    BY <2>2, <2>4, <2>5
<1>5. CASE MarkPublished(r) \/ MarkFailed(r)
  <2> DEFINE e == Current(r)
  <2>1. e \in Events /\ (relay[r].pc = "mark" => e \in sent)
    BY <1>5, <1>t, CurrentKnown
    DEF MarkPublished, MarkFailed, TypeOK, RelayInv, RelaysHoldCommitted
  <2>2. /\ sent' = sent
        /\ \/ status' = status
           \/ status[e] = "publishing" /\ status' = [status EXCEPT ![e] = "pending"]
           \/ /\ status[e] = "publishing" /\ relay[r].pc = "mark"
              /\ status' = [status EXCEPT ![e] = "published"]
    BY <1>5 DEF MarkPublished, MarkFailed
  <2> HIDE DEF e
  <2>3. CASE status' = status
    BY <2>2, <2>3, <1>h, DeliveryStutters DEF stage
  <2>4. CASE status[e] = "publishing" /\ status' = [status EXCEPT ![e] = "pending"]
    <3>1. \A d \in Events : StageOf(status'[d]) = StageOf(status[d])
      BY <2>1, <2>4, <1>t DEF TypeOK, StageOf
    <3>2. stage' = stage
      BY <3>1 DEF stage
    <3>3. QED
      BY <2>2, <3>2, <1>h, DeliveryStutters
  <2>5. CASE /\ status[e] = "publishing" /\ relay[r].pc = "mark"
             /\ status' = [status EXCEPT ![e] = "published"]
    <3>1. \A d \in Events :
            StageOf(status'[d]) = IF d = e THEN "published" ELSE StageOf(status[d])
      BY <2>1, <2>5, <1>t DEF TypeOK, StageOf
    <3>2. stage' = [stage EXCEPT ![e] = "published"]
      BY <3>1 DEF stage
    <3>3. stage[e] = "committed"
      BY <2>1, <2>5 DEF stage, StageOf
    <3>4. Delivery!Confirm(e)
      BY <2>1, <2>2, <2>5, <3>2, <3>3, <1>h DEF Delivery!Confirm, stage
    <3>5. QED
      BY <3>4, <2>1 DEF Delivery!Next
  <2>6. QED
    BY <2>2, <2>3, <2>4, <2>5
<1>6. QED
  BY <1>1, <1>2, <1>3, <1>4, <1>5 DEF RelayStep

LEMMA StepDelivers ==
  DeliveryInv /\ [Next]_vars => [Delivery!Next]_(Delivery!vars)
<1> SUFFICES ASSUME DeliveryInv, [Next]_vars PROVE [Delivery!Next]_(Delivery!vars)
  OBVIOUS
<1>t. TypeOK /\ ConsumerInv
  BY DEF DeliveryInv
<1>1. ASSUME NEW e \in Events, Enqueue(e) PROVE Delivery!Next
  <2>1. /\ UNCHANGED <<sent, effects>>
        /\ status[e] = "absent" /\ status' = [status EXCEPT ![e] = "pending"]
    BY <1>1 DEF Enqueue, consumerVars
  <2>2. \A d \in Events :
          StageOf(status'[d]) = IF d = e THEN "committed" ELSE StageOf(status[d])
    BY <2>1, <1>t DEF TypeOK, StageOf
  <2>3. stage' = [stage EXCEPT ![e] = "committed"] /\ stage[e] = "none"
    BY <2>1, <2>2 DEF stage, StageOf
  <2>4. Delivery!Commit(e)
    BY <2>1, <2>3 DEF Delivery!Commit, stage
  <2>5. QED
    BY <2>4 DEF Delivery!Next
<1>2. ASSUME NEW e \in Events, BackoffEnds(e) \/ ClaimAges(e) \/ Redrive(e)
      PROVE UNCHANGED Delivery!vars
  BY <1>2, DeliveryStutters
  DEF BackoffEnds, ClaimAges, Redrive, relayVars, consumerVars, stage
<1>3. ASSUME NEW k \in Consumers, Process(k) PROVE [Delivery!Next]_(Delivery!vars)
  <2>0. PICK d \in Events : d = consumer[k].e
    BY <1>3, <1>t DEF Process, TypeOK
  <2>1. d \in sent /\ UNCHANGED <<stage, sent>>
    BY <1>3, <1>t, <2>0 DEF Process, ConsumerInv, OnlySentDelivered, relayVars, stage
  <2>2. CASE d \in markers
    BY <1>3, <2>0, <2>1, <2>2, DeliveryStutters DEF Process
  <2>3. CASE d \notin markers
    <3>1. effects[d] = 0 /\ effects' = [effects EXCEPT ![d] = effects[d] + 1]
      BY <1>3, <1>t, <2>0, <2>3 DEF Process, ConsumerInv, MarkedOnce
    <3>2. effects' = [effects EXCEPT ![d] = 1]
      BY <3>1
    <3>3. Delivery!Handle(d)
      BY <2>1, <3>1, <3>2 DEF Delivery!Handle, stage
    <3>4. QED
      BY <3>3 DEF Delivery!Next
  <2>4. QED
    BY <2>2, <2>3
<1>4. ASSUME NEW k \in Consumers,
             \/ Unsupported(k) \/ Acknowledge(k) \/ ConsumerCrash(k)
             \/ \E e \in Events : Receive(k, e)
      PROVE UNCHANGED Delivery!vars
  BY <1>4, DeliveryStutters
  DEF Unsupported, Acknowledge, ConsumerCrash, Receive, relayVars, stage
<1>5. CASE UNCHANGED vars
  BY <1>5, DeliveryStutters DEF vars, relayVars, consumerVars, stage
<1>6. QED
  BY <1>1, <1>2, <1>3, <1>4, <1>5, RelayStepDelivers DEF Next, ConsumerStep

\* The outbox implements EventDelivery: only committed events are sent, only
\* sent events are ever marked published, the mark is final and an effect
\* happens once.
THEOREM ImplementsDelivery == Spec => DeliverySpec
<1>1. Init => Delivery!Init
  BY DEF Init, Delivery!Init, StageOf
<1>2. QED
  BY <1>1, DeliveryInvariant, StepDelivers, PTL DEF Spec, DeliverySpec, Delivery!Spec

-----------------------------------------------------------------------------
(* Abandoned claims.                                                       *)

\* A relay that is between two batches has none in its hands.
BatchesEnd ==
  \A r \in Relays : relay[r].pc \in {"start", "poll"} => relay[r].batch = <<>>

Holds(r, e) == \E i \in DOMAIN relay[r].batch : relay[r].batch[i] = e

\* What a step that is no crash does to one event: a claim still stands for a
\* relay that has the event in its batch.
ClaimKept(e) ==
  status'[e] = "publishing" =>
    \/ \E r \in Relays : Holds(r, e)'
    \/ status[e] = "publishing" /\ \A r \in Relays : ~Holds(r, e)

\* A relay that takes the next event of its batch lets go of the current one.
LEMMA LetsGo ==
  ASSUME TypeOK, NEW r \in Relays, relay[r].batch # <<>>, NextInBatch(r),
         status'[Current(r)] # "publishing",
         \A e \in Events : status'[e] = "publishing" => status[e] = "publishing"
  PROVE  /\ \A e \in Events : ClaimKept(e)
         /\ BatchesEnd => BatchesEnd'
<1> DEFINE b == relay[r].batch
<1>1. b \in Seq(Events)
  BY DEF TypeOK, RelayState
<1>2. /\ relay'[r].batch = Tail(b)
      /\ relay'[r].pc = (IF Tail(b) = <<>> THEN "poll" ELSE "read")
      /\ \A q \in Relays \ {r} : relay'[q] = relay[q]
  BY DEF TypeOK, NextInBatch
<1>3. b = relay[r].batch /\ Current(r) = Head(b)
  BY DEF Current
<1> HIDE DEF b
<1>4. ASSUME NEW e \in Events, status'[e] = "publishing", NEW q \in Relays, Holds(q, e)
      PROVE  Holds(q, e)'
  <2>1. CASE q # r
    BY <1>2, <1>4, <2>1 DEF Holds
  <2>2. CASE q = r
    <3>1. PICK i \in DOMAIN b : b[i] = e
      BY <1>3, <1>4, <2>2 DEF Holds
    <3>2. Len(b) \in Nat /\ i \in 1..Len(b) /\ Head(b) = b[1]
      BY <1>1, <1>3, <3>1
    <3>3. i # 1
      BY <1>3, <1>4, <3>1, <3>2
    <3>4. i - 1 \in 1..(Len(b) - 1)
      BY <3>2, <3>3
    <3>5. i - 1 \in DOMAIN Tail(b) /\ Tail(b)[i - 1] = b[i]
      BY <1>1, <1>3, <3>2, <3>4
    <3>6. QED
      BY <1>2, <2>2, <3>1, <3>5 DEF Holds
  <2>3. QED
    BY <2>1, <2>2
<1>5. \A e \in Events : ClaimKept(e)
  BY <1>4 DEF ClaimKept
<1>6. BatchesEnd => BatchesEnd'
  BY <1>2 DEF BatchesEnd
<1>7. QED
  BY <1>5, <1>6

\* What a relay claims is in the batch it took.
LEMMA TakesClaimed ==
  ASSUME TypeOK, BatchesEnd, NEW r \in Relays, ClaimBatch(r)
  PROVE  (\A e \in Events : ClaimKept(e)) /\ BatchesEnd'
<1> DEFINE n == IF Len(line) < BatchSize THEN Len(line) ELSE BatchSize
           batch == SubSeq(line, 1, n)
           claimed == {batch[i] : i \in 1..n}
<1>1. line \in Seq(Events) /\ Len(line) \in Nat
  BY DEF TypeOK
<1>2. n \in 0..Len(line)
  BY <1>1, OutboxAssumption
<1>3. /\ \A e \in Events : status'[e] = IF e \in claimed THEN "publishing" ELSE status[e]
      /\ relay'[r].batch = batch /\ relay'[r].pc = "read"
      /\ \A q \in Relays \ {r} : relay'[q] = relay[q]
      /\ relay[r].batch = <<>>
  BY DEF ClaimBatch, TypeOK, BatchesEnd
<1> HIDE DEF n
<1>4. Len(batch) = n /\ batch \in Seq(Events)
  BY <1>1, <1>2, SubSeqTyped
<1>5. DOMAIN batch = 1..n
  BY <1>4
<1> HIDE DEF batch
<1>6. ASSUME NEW e \in Events, status'[e] = "publishing" PROVE ClaimKept(e)
  <2>1. CASE e \in claimed
    BY <1>3, <1>5, <2>1 DEF ClaimKept, Holds
  <2>2. CASE e \notin claimed
    <3>1. status[e] = "publishing" /\ ~Holds(r, e)
      BY <1>3, <1>6, <2>2 DEF Holds
    <3>2. \A q \in Relays \ {r} : Holds(q, e) => Holds(q, e)'
      BY <1>3 DEF Holds
    <3>3. QED
      BY <3>1, <3>2 DEF ClaimKept
  <2>3. QED
    BY <2>1, <2>2
<1>7. BatchesEnd'
  BY <1>3 DEF BatchesEnd
<1>8. QED
  BY <1>6, <1>7 DEF ClaimKept

\* A step that touches no batch and makes no claim.
LEMMA BatchesUntouched ==
  ASSUME \A r \in Relays : relay'[r].batch = relay[r].batch,
         \A r \in Relays :
           relay'[r].pc \in {"start", "poll"} => relay[r].pc \in {"start", "poll"},
         \A e \in Events : status'[e] = "publishing" => status[e] = "publishing"
  PROVE  (\A e \in Events : ClaimKept(e)) /\ (BatchesEnd => BatchesEnd')
  BY DEF ClaimKept, Holds, BatchesEnd

LEMMA RelayStepKeepsClaims ==
  ASSUME TypeOK, BatchesEnd, NEW r \in Relays, RelayStep(r)
  PROVE  (\A e \in Events : ClaimKept(e)) /\ BatchesEnd'
<1>g. ASSUME NEW pc, Goto(r, pc), relay[r].pc \in {"start", "poll"} \/ pc \notin {"start", "poll"}
      PROVE  /\ \A q \in Relays : relay'[q].batch = relay[q].batch
             /\ \A q \in Relays : relay'[q].pc \in {"start", "poll"} =>
                                     relay[q].pc \in {"start", "poll"}
  BY <1>g DEF Goto, TypeOK, RelayState
<1>1. CASE Recover(r)
  <2>1. \A e \in Events : status'[e] = "publishing" => status[e] = "publishing"
    BY <1>1 DEF Recover
  <2>2. QED
    BY <1>1, <1>g, <2>1, BatchesUntouched DEF Recover
<1>2. CASE ClaimBatch(r)
  BY <1>2, TakesClaimed
<1>3. CASE ReadEvent(r)
  <2>1. relay[r].batch # <<>>
    BY <1>3 DEF ReadEvent, TypeOK
  <2>2. CASE status[Current(r)] = "publishing"
    BY <1>3, <2>2, <1>g, BatchesUntouched DEF ReadEvent
  <2>3. CASE status[Current(r)] # "publishing"
    BY <1>3, <2>1, <2>3, LetsGo DEF ReadEvent
  <2>4. QED
    BY <2>2, <2>3
<1>4. CASE SendOk(r) \/ SendFails(r)
  BY <1>4, <1>g, BatchesUntouched DEF SendOk, SendFails
<1>5. CASE MarkPublished(r) \/ MarkFailed(r)
  <2> DEFINE e == Current(r)
  <2>1. relay[r].batch # <<>> /\ NextInBatch(r)
    BY <1>5 DEF MarkPublished, MarkFailed, TypeOK
  <2>2. relay[r].batch \in Seq(Events)
    BY DEF TypeOK, RelayState
  <2>3. e \in Events
    BY <2>1, <2>2, Rest DEF Current
  <2>4. \/ status[e] # "publishing" /\ status' = status
        \/ \E s \in {"pending", "published"} : status' = [status EXCEPT ![e] = s]
    BY <1>5 DEF MarkPublished, MarkFailed
  <2> HIDE DEF e
  <2>5. status'[e] # "publishing"
    BY <2>3, <2>4 DEF TypeOK
  <2>6. \A d \in Events : status'[d] = "publishing" => status[d] = "publishing"
    BY <2>3, <2>4 DEF TypeOK
  <2>7. QED
    BY <2>1, <2>5, <2>6, LetsGo DEF e
<1>6. QED
  BY <1>1, <1>2, <1>3, <1>4, <1>5 DEF RelayStep

\* A crash empties the batch of the relay it ends.
LEMMA CrashEndsBatch ==
  ASSUME TypeOK, BatchesEnd, NEW r \in Relays, RelayCrash(r)
  PROVE  BatchesEnd'
  BY DEF RelayCrash, BatchesEnd, TypeOK, Started

LEMMA ClaimsKept ==
  ASSUME TypeOK, BatchesEnd, [Next]_vars
  PROVE  /\ BatchesEnd'
         /\ (\A e \in Events : ClaimKept(e)) \/ \E r \in Relays : RelayCrash(r)
<1>1. ASSUME NEW e \in Events, Enqueue(e) \/ BackoffEnds(e) \/ ClaimAges(e)
      PROVE  (\A d \in Events : ClaimKept(d)) /\ BatchesEnd'
  <2>1. /\ relay' = relay
        /\ \A d \in Events : status'[d] = "publishing" => status[d] = "publishing"
    BY <1>1 DEF Enqueue, BackoffEnds, ClaimAges, TypeOK
  <2>2. QED
    BY <2>1, BatchesUntouched
<1>2. CASE \/ \E k \in Consumers : ConsumerStep(k) \/ ConsumerCrash(k)
           \/ \E e \in Events : Redrive(e) \/ \E k \in Consumers : Receive(k, e)
           \/ UNCHANGED vars
  <2>1. relay' = relay /\ status' = status
    BY <1>2 DEF ConsumerStep, Unsupported, Process, Acknowledge, ConsumerCrash,
       Redrive, Receive, relayVars, vars
  <2>2. QED
    BY <2>1, BatchesUntouched
<1>3. QED
  BY <1>1, <1>2, RelayStepKeepsClaims, CrashEndsBatch DEF Next

\* However relays overtake each other, fail or recover claims, only a crash
\* leaves a publishing event in no relay's batch (OutboxRelay._publish_one,
\* _mark_failed): such an event waits for the recovery at the next start.
THEOREM OnlyCrashesAbandonClaims == Spec => OnlyCrashesAbandon
<1> DEFINE Kept == \A e \in Events : ~Abandoned(e) /\ Abandoned(e)' =>
                     \E r \in Relays : RelayCrash(r)
<1>1. Init => BatchesEnd
  BY DEF Init, BatchesEnd, Started
<1>2. TypeOK /\ BatchesEnd /\ [Next]_vars => BatchesEnd'
  BY ClaimsKept
<1>3. TypeOK /\ BatchesEnd /\ [Next]_vars => [Kept]_vars
  <2> SUFFICES ASSUME TypeOK, BatchesEnd, [Next]_vars, NEW e \in Events,
                      ~Abandoned(e), Abandoned(e)', ~\E r \in Relays : RelayCrash(r)
               PROVE  FALSE
    OBVIOUS
  <2>1. ClaimKept(e)
    BY ClaimsKept
  <2>2. status'[e] = "publishing" /\ ~\E r \in Relays : Holds(r, e)'
    BY DEF Abandoned, Holds
  <2>3. QED
    BY <2>1, <2>2 DEF ClaimKept, Abandoned, Holds
<1>4. Spec => [][Kept]_vars
  BY <1>1, <1>2, <1>3, TypeCorrect, PTL DEF Spec
<1>5. QED
  BY <1>4 DEF OnlyCrashesAbandon

=============================================================================
