---------------------------- MODULE EventBus_proofs ----------------------------
(* Machine-checked proofs about EventBus, for every value of its constants. *)
EXTENDS EventBus, TLAPS

\* The rows events_since returns are the seqs that follow last_seq, in order.
LEMMA EventsSinceType ==
  ASSUME TypeOK, NEW k \in Nat
  PROVE  EventsSince(k) \in Seq(Nat \ {0})
<1>1. Len(log) \in Nat
  BY DEF TypeOK
<1>2. CASE Len(log) - k < 1
  BY <1>1, <1>2 DEF EventsSince
<1>3. CASE Len(log) - k >= 1
  <2>1. Len(log) - k \in Nat
    BY <1>1, <1>3
  <2>2. \A i \in 1 .. (Len(log) - k) : k + i \in Nat \ {0}
    OBVIOUS
  <2>3. QED
    BY <2>1, <2>2 DEF EventsSince
<1>4. QED
  BY <1>1, <1>2, <1>3

\* Every variable keeps its type.
THEOREM TypeCorrect == Spec => []TypeOK
<1>1. Init => TypeOK
  BY DEF Init, TypeOK, TaskState
<1>2. TypeOK /\ [Next]_vars => TypeOK'
  <2> SUFFICES ASSUME TypeOK, [Next]_vars PROVE TypeOK'
    OBVIOUS
  <2> USE DEF TypeOK, agentVars, taskVars
  <2>1. ASSUME NEW f \in Forwarder, Emit(f) PROVE TypeOK'
    BY <2>1 DEF Emit
  <2>2. ASSUME NEW f \in Forwarder, AppendEvent(f) PROVE TypeOK'
    <3>1. Head(queue[f]) \in Nat \ {0} /\ Tail(queue[f]) \in Seq(Nat \ {0})
      BY <2>2 DEF AppendEvent
    <3>2. log' \in Seq(Event)
      BY <2>2, <3>1 DEF AppendEvent, Event
    <3>3. QED
      BY <2>2, <3>1, <3>2 DEF AppendEvent
  <2>3. ASSUME NEW f \in Forwarder, AppendFails(f) PROVE TypeOK'
    BY <2>3 DEF AppendFails
  <2>4. ASSUME NEW f \in Forwarder, Broadcast(f) PROVE TypeOK'
    BY <2>4 DEF Broadcast
  <2>5. ASSUME NEW s \in Subscriber, Subscribe(s) PROVE TypeOK'
    BY <2>5 DEF Subscribe, TaskState
  <2>6. ASSUME NEW s \in Subscriber, ReadReplay(s) PROVE TypeOK'
    BY <2>6, EventsSinceType DEF ReadReplay, TaskState
  <2>7. ASSUME NEW s \in Subscriber, ReadReplayFails(s) PROVE TypeOK'
    BY <2>7 DEF ReadReplayFails, TaskState
  <2>8. ASSUME NEW s \in Subscriber, SendBacklog(s) PROVE TypeOK'
    <3>1. Head(backlog[s]) \in Nat \ {0} /\ Tail(backlog[s]) \in Seq(Nat \ {0})
      BY <2>8 DEF SendBacklog
    <3>2. QED
      BY <2>8, <3>1 DEF SendBacklog, Send
  <2>9. ASSUME NEW s \in Subscriber, BacklogDone(s) PROVE TypeOK'
    BY <2>9 DEF BacklogDone, TaskState
  <2>10. ASSUME NEW s \in Subscriber, SkipSent(s) PROVE TypeOK'
    BY <2>10 DEF SkipSent
  <2>11. ASSUME NEW s \in Subscriber, RecvEvent(s) PROVE TypeOK'
    <3>1. bus[cursor[s]] \in Nat \ {0}
      BY <2>11 DEF RecvEvent
    <3>2. wire' \in [Subscriber -> Seq(Nat \ {0})] /\ last_sent' \in [Subscriber -> Nat]
      BY <2>11, <3>1 DEF RecvEvent, Send
    <3>3. cursor' \in [Subscriber -> Nat \ {0}]
      BY <2>11 DEF RecvEvent
    <3>4. QED
      BY <2>11, <3>2, <3>3 DEF RecvEvent
  <2>12. ASSUME NEW s \in Subscriber, RecvLagged(s) PROVE TypeOK'
    <3>1. Oldest \in Nat \ {0}
      BY <2>12, BufferSizeAssumption DEF RecvLagged, Lagged, Oldest
    <3>2. QED
      BY <2>12, <3>1 DEF RecvLagged, TaskState
  <2>13. ASSUME NEW s \in Subscriber, ReadMissed(s) PROVE TypeOK'
    BY <2>13, EventsSinceType DEF ReadMissed, TaskState
  <2>14. ASSUME NEW s \in Subscriber, ReadMissedFails(s) PROVE TypeOK'
    BY <2>14 DEF ReadMissedFails, TaskState
  <2>15. ASSUME NEW s \in Subscriber, SendFails(s) PROVE TypeOK'
    BY <2>15 DEF SendFails, TaskState
  <2>16. ASSUME NEW s \in Subscriber, Disconnect(s) PROVE TypeOK'
    BY <2>16 DEF Disconnect
  <2>17. CASE UNCHANGED vars
    BY <2>17 DEF vars
  <2>18. QED
    BY <2>1, <2>2, <2>3, <2>4, <2>5, <2>6, <2>7, <2>8, <2>9, <2>10, <2>11,
       <2>12, <2>13, <2>14, <2>15, <2>16, <2>17
       DEF Next, ForwarderStep, AttachStep
<1>3. QED
  BY <1>1, <1>2, PTL DEF Spec

--------------------------------------------------------------------------------
(* The clients never see an event twice or out of order.  The strengthening:   *)
(* last_sent bounds what is on the wire, and a backlog, while there is one,    *)
(* continues last_sent without a gap.                                          *)

SentBound ==
  \A s \in Subscriber : \A i \in DOMAIN wire[s] : wire[s][i] <= last_sent[s]

BacklogFollows ==
  \A s \in Subscriber : \A i \in DOMAIN backlog[s] : backlog[s][i] = last_sent[s] + i

BacklogOnlyInReplay ==
  \A s \in Subscriber :
    /\ task[s] \in {"none", "subscribed", "live", "lagged"} => backlog[s] = <<>>
    /\ task[s] \in {"none", "subscribed"} => last_sent[s] = 0

OrderInv ==
  /\ DeliveredInOrder
  /\ SentBound
  /\ BacklogFollows
  /\ BacklogOnlyInReplay

\* An element of Append(q, e) is an element of q or, at the end, e.
LEMMA AppendElement ==
  ASSUME NEW S, NEW q \in Seq(S), NEW e \in S, NEW i \in DOMAIN Append(q, e)
  PROVE  \/ i \in DOMAIN q /\ Append(q, e)[i] = q[i]
         \/ i = Len(q) + 1 /\ Append(q, e)[i] = e
  OBVIOUS

\* Writing a greater seq keeps the wire ascending and bounded.
LEMMA SendInOrder ==
  ASSUME TypeOK, DeliveredInOrder, SentBound,
         NEW s \in Subscriber, NEW seq \in Nat \ {0},
         seq > last_sent[s], Send(s, seq)
  PROVE  DeliveredInOrder' /\ SentBound'
<1> DEFINE w == wire[s]
<1>1. w \in Seq(Nat \ {0}) /\ last_sent[s] \in Nat
  BY DEF TypeOK
<1>2. /\ wire'[s] = Append(w, seq) /\ last_sent'[s] = seq
      /\ \A t \in Subscriber : t # s => wire'[t] = wire[t] /\ last_sent'[t] = last_sent[t]
  BY DEF Send, TypeOK
<1>3. \A i \in DOMAIN w : w[i] \in Nat /\ w[i] <= last_sent[s]
  BY <1>1 DEF SentBound
<1>4. ASSUME NEW t \in Subscriber, NEW i \in DOMAIN wire'[t]
      PROVE  wire'[t][i] <= last_sent'[t]
  <2>1. CASE t # s
    BY <1>2, <1>4, <2>1 DEF SentBound
  <2>2. CASE t = s
    <3>1. i \in DOMAIN Append(w, seq)
      BY <1>2, <1>4, <2>2
    <3>2. \/ i \in DOMAIN w /\ wire'[s][i] = w[i]
          \/ wire'[s][i] = seq
      BY <1>1, <1>2, <3>1, AppendElement
    <3>3. QED
      BY <1>1, <1>2, <1>3, <2>2, <3>2, SMTT(30)
  <2>3. QED
    BY <2>1, <2>2
<1>5. ASSUME NEW t \in Subscriber, NEW i \in DOMAIN wire'[t], NEW j \in DOMAIN wire'[t],
             i < j
      PROVE  wire'[t][i] < wire'[t][j]
  <2>1. CASE t # s
    BY <1>2, <1>5, <2>1 DEF DeliveredInOrder
  <2>2. CASE t = s
    <3>1. i \in DOMAIN Append(w, seq) /\ j \in DOMAIN Append(w, seq)
      BY <1>2, <1>5, <2>2
    <3>2. i \in DOMAIN w /\ wire'[s][i] = w[i]
      <4>1. i # Len(w) + 1
        BY <1>1, <1>5, <3>1
      <4>2. QED
        BY <1>1, <1>2, <3>1, <4>1, AppendElement
    <3>3. \/ j \in DOMAIN w /\ wire'[s][j] = w[j]
          \/ wire'[s][j] = seq
      BY <1>1, <1>2, <3>1, AppendElement
    <3>4. CASE j \in DOMAIN w /\ wire'[s][j] = w[j]
      BY <1>5, <2>2, <3>2, <3>4 DEF DeliveredInOrder
    <3>5. CASE wire'[s][j] = seq
      BY <1>1, <1>3, <2>2, <3>2, <3>5
    <3>6. QED
      BY <3>3, <3>4, <3>5
  <2>3. QED
    BY <2>1, <2>2
<1>6. QED
  BY <1>4, <1>5 DEF DeliveredInOrder, SentBound

\* OrderInv is an invariant.
LEMMA OrderInvariant == Spec => []OrderInv
<1>1. Init => OrderInv
  BY DEF Init, OrderInv, DeliveredInOrder, SentBound, BacklogFollows, BacklogOnlyInReplay
<1>2. TypeOK /\ OrderInv /\ [Next]_vars => OrderInv'
  <2> SUFFICES ASSUME TypeOK, OrderInv, [Next]_vars PROVE OrderInv'
    OBVIOUS
  <2> USE DEF TypeOK, agentVars, taskVars, OrderInv
  <2>1. ASSUME UNCHANGED <<task, backlog, last_sent, wire>> PROVE OrderInv'
    BY <2>1 DEF DeliveredInOrder, SentBound, BacklogFollows, BacklogOnlyInReplay
  <2>2. ASSUME NEW s \in Subscriber, UNCHANGED <<backlog, last_sent, wire>>,
               \E q \in TaskState : task' = [task EXCEPT ![s] = q],
               task'[s] \in {"subscribed", "live", "lagged", "none"} => backlog[s] = <<>>,
               task'[s] \in {"subscribed", "none"} => last_sent[s] = 0
        PROVE  OrderInv'
    <3>1. DeliveredInOrder' /\ SentBound' /\ BacklogFollows'
      BY <2>2 DEF DeliveredInOrder, SentBound, BacklogFollows
    <3>2. BacklogOnlyInReplay'
      BY <2>2 DEF BacklogOnlyInReplay
    <3>3. QED
      BY <3>1, <3>2
  <2>3. ASSUME NEW s \in Subscriber, NEW q \in TaskState, q \in {"replay", "refill"},
               task' = [task EXCEPT ![s] = q],
               backlog' = [backlog EXCEPT ![s] = EventsSince(last_sent[s])],
               UNCHANGED <<last_sent, wire>>
        PROVE  OrderInv'
    <3>1. DeliveredInOrder' /\ SentBound'
      BY <2>3 DEF DeliveredInOrder, SentBound
    <3>2. \A i \in DOMAIN EventsSince(last_sent[s]) :
            EventsSince(last_sent[s])[i] = last_sent[s] + i
      BY DEF EventsSince
    <3>3. BacklogFollows'
      BY <2>3, <3>2 DEF BacklogFollows
    <3>4. BacklogOnlyInReplay'
      BY <2>3 DEF BacklogOnlyInReplay
    <3>5. QED
      BY <3>1, <3>3, <3>4
  <2>4. ASSUME NEW s \in Subscriber, SendBacklog(s) PROVE OrderInv'
    <3> DEFINE b == backlog[s]
    <3>1. /\ b \in Seq(Nat \ {0}) /\ b # <<>> /\ Len(b) >= 1
          /\ Head(b) = b[1] /\ Head(b) = last_sent[s] + 1
      BY <2>4 DEF SendBacklog, BacklogFollows
    <3>2. DeliveredInOrder' /\ SentBound'
      BY <2>4, <3>1, SendInOrder, SMTT(30) DEF SendBacklog
    <3>3. \A i \in DOMAIN Tail(b) : Tail(b)[i] = last_sent[s] + 1 + i
      <4>1. ASSUME NEW i \in DOMAIN Tail(b) PROVE Tail(b)[i] = last_sent[s] + 1 + i
        <5>1. i + 1 \in DOMAIN b /\ Tail(b)[i] = b[i + 1] /\ i \in Nat
          BY <3>1, <4>1
        <5>2. b[i + 1] = last_sent[s] + (i + 1)
          BY <5>1 DEF BacklogFollows
        <5>3. QED
          BY <5>1, <5>2
      <4>2. QED
        BY <4>1
    <3>4. BacklogFollows'
      <4>1. /\ \A t \in Subscriber : t # s => backlog'[t] = backlog[t] /\ last_sent'[t] = last_sent[t]
            /\ backlog'[s] = Tail(b) /\ last_sent'[s] = last_sent[s] + 1
        BY <2>4, <3>1 DEF SendBacklog, Send
      <4>2. ASSUME NEW t \in Subscriber, NEW i \in DOMAIN backlog'[t]
            PROVE  backlog'[t][i] = last_sent'[t] + i
        <5>1. CASE t = s
          BY <3>3, <4>1, <4>2, <5>1
        <5>2. CASE t # s
          BY <4>1, <4>2, <5>2 DEF BacklogFollows
        <5>3. QED
          BY <5>1, <5>2
      <4>3. QED
        BY <4>2 DEF BacklogFollows
    <3>5. BacklogOnlyInReplay'
      BY <2>4 DEF SendBacklog, Send, BacklogOnlyInReplay
    <3>6. QED
      BY <3>2, <3>4, <3>5
  <2>5. ASSUME NEW s \in Subscriber, RecvEvent(s) PROVE OrderInv'
    <3>1. bus[cursor[s]] \in Nat \ {0} /\ bus[cursor[s]] > last_sent[s]
      BY <2>5 DEF RecvEvent
    <3>2. DeliveredInOrder' /\ SentBound'
      BY <2>5, <3>1, SendInOrder DEF RecvEvent
    <3>3. backlog[s] = <<>>
      BY <2>5 DEF RecvEvent, BacklogOnlyInReplay
    <3>4. BacklogFollows' /\ BacklogOnlyInReplay'
      BY <2>5, <3>3, SMTT(30) DEF RecvEvent, Send, BacklogFollows, BacklogOnlyInReplay
    <3>5. QED
      BY <3>2, <3>4
  <2>6. ASSUME NEW f \in Forwarder, Emit(f) \/ ForwarderStep(f) PROVE OrderInv'
    BY <2>1, <2>6 DEF Emit, ForwarderStep, AppendEvent, AppendFails, Broadcast
  <2>7. ASSUME NEW s \in Subscriber, SkipSent(s) \/ Disconnect(s) PROVE OrderInv'
    BY <2>1, <2>7 DEF SkipSent, Disconnect
  <2>8. ASSUME NEW s \in Subscriber, Subscribe(s) \/ ReadReplayFails(s) PROVE OrderInv'
    BY <2>2, <2>8 DEF Subscribe, ReadReplayFails, BacklogOnlyInReplay, TaskState
  <2>9. ASSUME NEW s \in Subscriber,
               BacklogDone(s) \/ RecvLagged(s) \/ ReadMissedFails(s) \/ SendFails(s)
        PROVE  OrderInv'
    BY <2>2, <2>9 DEF BacklogDone, RecvLagged, ReadMissedFails, SendFails,
                      BacklogOnlyInReplay, TaskState
  <2>10. ASSUME NEW s \in Subscriber, ReadReplay(s) PROVE OrderInv'
    BY <2>3, <2>10 DEF ReadReplay, BacklogOnlyInReplay, TaskState
  <2>11. ASSUME NEW s \in Subscriber, ReadMissed(s) PROVE OrderInv'
    BY <2>3, <2>11 DEF ReadMissed, TaskState
  <2>12. CASE UNCHANGED vars
    BY <2>1, <2>12 DEF vars
  <2>13. QED
    BY <2>4, <2>5, <2>6, <2>7, <2>8, <2>9, <2>10, <2>11, <2>12 DEF Next, AttachStep
<1>3. QED
  BY <1>1, <1>2, TypeCorrect, PTL DEF Spec

\* No client receives an event twice, or an older event after a newer one, for
\* any number of forwarders and clients and any buffer size.
THEOREM DeliveryOrdered == Spec => []DeliveredInOrder
<1>1. OrderInv => DeliveredInOrder
  BY DEF OrderInv
<1>2. QED
  BY <1>1, OrderInvariant, PTL

--------------------------------------------------------------------------------
(* With one forwarder nothing is lost.  The strengthening: the broadcast       *)
(* channel carries 1, 2, 3, ... and is at most one event behind the table, and *)
(* nothing before a live receiver's cursor is still unsent.                    *)

SingleForwarder == \A f, g \in Forwarder : f = g

BusInStep ==
  /\ \A i \in DOMAIN bus : bus[i] = i
  /\ Len(bus) <= Len(log)
  /\ \A f \in Forwarder :
       /\ publishing[f] = 0 => Len(bus) = Len(log)
       /\ publishing[f] # 0 => publishing[f] = Len(log) /\ Len(log) = Len(bus) + 1

CursorBoundAt(s) ==
  /\ cursor[s] <= Len(bus) + 1
  /\ last_sent[s] <= Len(log)
  /\ task[s] \in {"replay", "refill"} =>
       /\ last_sent[s] + Len(backlog[s]) <= Len(log)
       /\ cursor[s] <= last_sent[s] + Len(backlog[s]) + 1
  /\ task[s] = "live" => cursor[s] <= last_sent[s] + 1

CursorBound == \A s \in Subscriber : CursorBoundAt(s)

NoLossInv ==
  /\ NoEventLost
  /\ BusInStep
  /\ CursorBound

\* Writing exactly the next seq keeps the wire equal to 1 .. last_sent, and is
\* the abstract delivery.
LEMMA SendNext ==
  ASSUME TypeOK, NoEventLost, NEW s \in Subscriber,
         Send(s, last_sent[s] + 1), last_sent[s] + 1 <= Len(log), log' = log
  PROVE  NoEventLost' /\ Feed!Deliver(s)
<1> DEFINE w == wire[s]
<1>1. w \in Seq(Nat \ {0}) /\ last_sent[s] \in Nat /\ Len(log) \in Nat
  BY DEF TypeOK
<1>2. w = [i \in 1 .. last_sent[s] |-> i]
  BY DEF NoEventLost
<1>3. Len(w) = last_sent[s]
  BY <1>1, <1>2
<1>4. /\ wire'[s] = Append(w, last_sent[s] + 1) /\ last_sent'[s] = last_sent[s] + 1
      /\ \A t \in Subscriber : t # s => wire'[t] = wire[t] /\ last_sent'[t] = last_sent[t]
  BY DEF Send, TypeOK
<1>5. Append(w, last_sent[s] + 1) = [i \in 1 .. (last_sent[s] + 1) |-> i]
  BY <1>1, <1>2, <1>3
<1>6. NoEventLost'
  BY <1>4, <1>5 DEF NoEventLost
<1>7. Feed!Deliver(s)
  BY <1>1, <1>3 DEF Feed!Deliver, Send
<1>8. QED
  BY <1>6, <1>7

\* Under NoLossInv the events that attach steps write are the next ones.
LEMMA BacklogIsNext ==
  ASSUME TypeOK, OrderInv, NoLossInv, NEW s \in Subscriber, SendBacklog(s)
  PROVE  /\ Head(backlog[s]) = last_sent[s] + 1
         /\ last_sent[s] + 1 <= Len(log)
         /\ Len(Tail(backlog[s])) = Len(backlog[s]) - 1
<1>1. backlog[s] \in Seq(Nat \ {0}) /\ backlog[s] # <<>>
  BY DEF TypeOK, SendBacklog
<1>2. 1 \in DOMAIN backlog[s] /\ Head(backlog[s]) = backlog[s][1]
  BY <1>1
<1>3. backlog[s][1] = last_sent[s] + 1
  BY <1>2 DEF OrderInv, BacklogFollows
<1>4. last_sent[s] + Len(backlog[s]) <= Len(log)
  BY DEF NoLossInv, CursorBound, CursorBoundAt, SendBacklog
<1>5. QED
  BY <1>1, <1>2, <1>3, <1>4 DEF TypeOK

LEMMA LiveIsNext ==
  ASSUME TypeOK, NoLossInv, NEW s \in Subscriber, RecvEvent(s)
  PROVE  /\ bus[cursor[s]] = last_sent[s] + 1
         /\ cursor[s] = last_sent[s] + 1
         /\ last_sent[s] + 1 <= Len(log)
<1>1. /\ cursor[s] \in DOMAIN bus /\ cursor[s] \in Nat /\ last_sent[s] \in Nat
      /\ Len(bus) \in Nat /\ Len(log) \in Nat
  BY DEF TypeOK, RecvEvent
<1>2. bus[cursor[s]] = cursor[s] /\ cursor[s] <= last_sent[s] + 1 /\ Len(bus) <= Len(log)
  BY <1>1 DEF NoLossInv, BusInStep, CursorBound, CursorBoundAt, RecvEvent
<1>3. bus[cursor[s]] > last_sent[s] /\ cursor[s] <= Len(bus)
  BY DEF RecvEvent
<1>4. QED
  BY <1>1, <1>2, <1>3

\* A step of attachment s leaves the bound of the others alone.
LEMMA CursorBoundLocal ==
  ASSUME CursorBound, NEW s \in Subscriber, CursorBoundAt(s)',
         log' = log, bus' = bus,
         \A t \in Subscriber : t # s =>
           /\ task'[t] = task[t] /\ cursor'[t] = cursor[t]
           /\ backlog'[t] = backlog[t] /\ last_sent'[t] = last_sent[t]
  PROVE  CursorBound'
BY DEF CursorBound, CursorBoundAt

\* NoLossInv is inductive, and every step is a step of EventFeed or a stutter.
LEMMA NoLossStep ==
  ASSUME SingleForwarder, TypeOK, OrderInv, NoLossInv, [Next]_vars
  PROVE  NoLossInv' /\ [Feed!Next]_(Feed!vars)
<1> USE DEF TypeOK, agentVars, taskVars, NoLossInv
<1>t. /\ \A s \in Subscriber :
            /\ last_sent[s] \in Nat /\ cursor[s] \in Nat \ {0}
            /\ backlog[s] \in Seq(Nat \ {0}) /\ Len(backlog[s]) \in Nat
      /\ Len(log) \in Nat /\ Len(bus) \in Nat
  OBVIOUS
<1>0. ASSUME UNCHANGED <<log, wire>> PROVE [Feed!Next]_(Feed!vars)
  BY <1>0 DEF Feed!vars
<1>1. ASSUME NEW f \in Forwarder, Emit(f) \/ AppendFails(f)
      PROVE  NoLossInv' /\ UNCHANGED <<log, wire>>
  BY <1>1 DEF Emit, AppendFails, NoEventLost, BusInStep, CursorBound, CursorBoundAt
<1>2. ASSUME NEW f \in Forwarder, AppendEvent(f)
      PROVE  NoLossInv' /\ [Feed!Next]_(Feed!vars)
  <2>1. Len(log') = Len(log) + 1 /\ publishing'[f] = Len(log) + 1 /\ publishing[f] = 0
    BY <1>2 DEF AppendEvent
  <2>2. NoEventLost'
    BY <1>2 DEF AppendEvent, NoEventLost
  <2>3. BusInStep'
    BY <1>2, <1>t, <2>1 DEF AppendEvent, BusInStep, SingleForwarder
  <2>4. CursorBound'
    BY <1>2, <1>t, <2>1, SMTT(30) DEF AppendEvent, CursorBound, CursorBoundAt
  <2>5. Feed!Record
    BY <1>2, <2>1 DEF AppendEvent, Feed!Record
  <2>6. QED
    BY <2>2, <2>3, <2>4, <2>5 DEF Feed!Next
<1>3. ASSUME NEW f \in Forwarder, Broadcast(f)
      PROVE  NoLossInv' /\ UNCHANGED <<log, wire>>
  <2> DEFINE k == publishing[f]
  <2>1. k = Len(log) /\ k = Len(bus) + 1 /\ k \in Nat \ {0}
    BY <1>3, <1>t DEF Broadcast, BusInStep
  <2>2. bus' = Append(bus, k) /\ Len(bus') = Len(bus) + 1 /\ publishing'[f] = 0 /\ log' = log
    BY <1>3, <2>1 DEF Broadcast
  <2>3. \A i \in DOMAIN bus' : bus'[i] = i
    <3>1. ASSUME NEW i \in DOMAIN Append(bus, k) PROVE Append(bus, k)[i] = i
      <4>1. \/ i \in DOMAIN bus /\ Append(bus, k)[i] = bus[i]
            \/ i = Len(bus) + 1 /\ Append(bus, k)[i] = k
        BY <2>1, <3>1, AppendElement
      <4>2. QED
        BY <2>1, <4>1 DEF BusInStep
    <3>2. QED
      BY <2>2, <3>1
  <2>4. BusInStep'
    <3>1. \A g \in Forwarder : publishing'[g] = 0
      BY <1>3, <2>2 DEF SingleForwarder
    <3>2. Len(bus') = Len(log') /\ Len(bus') \in Nat
      BY <1>t, <2>1, <2>2
    <3>3. QED
      BY <2>3, <3>1, <3>2 DEF BusInStep
  <2>5. CursorBound'
    BY <1>3, <1>t, <2>2 DEF Broadcast, CursorBound, CursorBoundAt
  <2>6. QED
    BY <1>3, <2>4, <2>5 DEF Broadcast, NoEventLost
<1>4. ASSUME NEW s \in Subscriber,
             \/ Subscribe(s) \/ ReadReplayFails(s) \/ BacklogDone(s) \/ SkipSent(s)
             \/ RecvLagged(s) \/ ReadMissedFails(s) \/ SendFails(s) \/ Disconnect(s)
      PROVE  NoLossInv' /\ UNCHANGED <<log, wire>>
  <2>1. BusInStep' /\ NoEventLost' /\ UNCHANGED <<log, wire, bus, last_sent, backlog>>
    BY <1>4 DEF Subscribe, ReadReplayFails, BacklogDone, SkipSent, RecvLagged,
                ReadMissedFails, SendFails, Disconnect, BusInStep, NoEventLost
  <2>2. CASE Subscribe(s)
    BY <2>1, <2>2, <1>t DEF Subscribe, CursorBound, CursorBoundAt
  <2>3. CASE BacklogDone(s)
    BY <2>1, <2>3, <1>t DEF BacklogDone, CursorBound, CursorBoundAt
  <2>4. CASE SkipSent(s)
    <3>1. bus[cursor[s]] = cursor[s] /\ cursor[s] <= last_sent[s] /\ cursor[s] <= Len(bus)
      BY <2>4, <1>t DEF SkipSent, BusInStep
    <3>2. CursorBoundAt(s)'
      BY <2>1, <2>4, <1>t, <3>1 DEF SkipSent, CursorBound, CursorBoundAt
    <3>3. CursorBound'
      BY <2>1, <2>4, <3>2, CursorBoundLocal DEF SkipSent
    <3>4. QED
      BY <2>1, <3>3
  <2>5. CASE RecvLagged(s)
    <3>1. Oldest <= Len(bus) + 1
      BY <1>t, BufferSizeAssumption DEF Oldest
    <3>2. QED
      BY <2>1, <2>5, <1>t, <3>1 DEF RecvLagged, CursorBound, CursorBoundAt
  <2>6. CASE ReadReplayFails(s) \/ ReadMissedFails(s) \/ SendFails(s) \/ Disconnect(s)
    BY <2>1, <2>6, <1>t DEF ReadReplayFails, ReadMissedFails, SendFails, Disconnect, CursorBound, CursorBoundAt
  <2>7. QED
    BY <1>4, <2>1, <2>2, <2>3, <2>4, <2>5, <2>6
<1>5. ASSUME NEW s \in Subscriber, ReadReplay(s) \/ ReadMissed(s)
      PROVE  NoLossInv' /\ UNCHANGED <<log, wire>>
  <2>1. /\ backlog' = [backlog EXCEPT ![s] = EventsSince(last_sent[s])]
        /\ UNCHANGED <<log, wire, bus, publishing, cursor, last_sent>>
    BY <1>5 DEF ReadReplay, ReadMissed, OrderInv, BacklogOnlyInReplay
  <2>2. last_sent[s] <= Len(log) /\ Len(bus) <= Len(log) /\ cursor[s] <= Len(bus) + 1
    BY DEF CursorBound, CursorBoundAt, BusInStep
  <2>3. Len(log) - last_sent[s] \in Nat
    BY <1>t, <2>2
  <2>4. Len(EventsSince(last_sent[s])) = Len(log) - last_sent[s]
    BY <2>3 DEF EventsSince
  <2>5. BusInStep' /\ NoEventLost'
    BY <2>1 DEF BusInStep, NoEventLost
  <2>6. CursorBound'
    <3>1. task'[s] \in {"replay", "refill"} /\ backlog'[s] = EventsSince(last_sent[s])
      BY <1>5, <2>1 DEF ReadReplay, ReadMissed
    <3>2. CursorBoundAt(s)'
      BY <1>t, <2>1, <2>2, <2>4, <3>1, SMTT(30) DEF CursorBoundAt
    <3>3. QED
      BY <1>5, <2>1, <3>2, CursorBoundLocal DEF ReadReplay, ReadMissed
  <2>7. QED
    BY <2>1, <2>5, <2>6
<1>6. ASSUME NEW s \in Subscriber, SendBacklog(s)
      PROVE  NoLossInv' /\ [Feed!Next]_(Feed!vars)
  <2>1. Send(s, last_sent[s] + 1) /\ last_sent[s] + 1 <= Len(log) /\ log' = log
    BY <1>6, BacklogIsNext DEF SendBacklog
  <2>2. NoEventLost' /\ Feed!Deliver(s)
    BY <2>1, SendNext
  <2>3. BusInStep'
    BY <1>6 DEF SendBacklog, BusInStep
  <2>4. CursorBound'
    <3>1. /\ last_sent'[s] = last_sent[s] + 1 /\ backlog'[s] = Tail(backlog[s])
          /\ UNCHANGED <<task, cursor, log, bus>>
      BY <1>6, <2>1 DEF SendBacklog, Send
    <3>2. Len(backlog'[s]) = Len(backlog[s]) - 1
      BY <1>6, <3>1, BacklogIsNext
    <3>3. CursorBoundAt(s) /\ task[s] \in {"replay", "refill"}
      BY <1>6 DEF CursorBound, SendBacklog
    <3>4. CursorBoundAt(s)'
      BY <1>t, <2>1, <3>1, <3>2, <3>3 DEF CursorBoundAt
    <3>5. QED
      BY <1>6, <3>4, CursorBoundLocal DEF SendBacklog, Send
  <2>5. QED
    BY <2>2, <2>3, <2>4 DEF Feed!Next
<1>7. ASSUME NEW s \in Subscriber, RecvEvent(s)
      PROVE  NoLossInv' /\ [Feed!Next]_(Feed!vars)
  <2>1. /\ Send(s, last_sent[s] + 1) /\ last_sent[s] + 1 <= Len(log) /\ log' = log
        /\ cursor[s] = last_sent[s] + 1 /\ cursor[s] <= Len(bus)
    BY <1>7, LiveIsNext DEF RecvEvent
  <2>2. NoEventLost' /\ Feed!Deliver(s)
    BY <2>1, SendNext
  <2>3. BusInStep'
    BY <1>7 DEF RecvEvent, BusInStep
  <2>4. CursorBound'
    <3>1. CursorBoundAt(s)'
      BY <1>7, <1>t, <2>1 DEF RecvEvent, Send, CursorBound, CursorBoundAt
    <3>2. QED
      BY <1>7, <3>1, CursorBoundLocal DEF RecvEvent, Send
  <2>5. QED
    BY <2>2, <2>3, <2>4 DEF Feed!Next
<1>8. CASE UNCHANGED vars
  BY <1>0, <1>8 DEF vars, NoEventLost, BusInStep, CursorBound, CursorBoundAt
<1>9. QED
  BY <1>0, <1>1, <1>2, <1>3, <1>4, <1>5, <1>6, <1>7, <1>8
     DEF Next, ForwarderStep, AttachStep
\* With one forwarder, every client has been sent every event up to the last one
\* it saw: attach, replay, lag and live stream lose nothing.
THEOREM NothingLost ==
  ASSUME SingleForwarder
  PROVE  Spec => []NoEventLost
<1>1. Init => NoLossInv
  BY DEF Init, NoLossInv, NoEventLost, BusInStep, CursorBound, CursorBoundAt
<1>2. TypeOK /\ OrderInv /\ NoLossInv /\ [Next]_vars => NoLossInv'
  BY NoLossStep
<1>3. NoLossInv => NoEventLost
  BY DEF NoLossInv
<1>4. QED
  BY <1>1, <1>2, <1>3, TypeCorrect, OrderInvariant, PTL DEF Spec

\* With one forwarder the event path implements EventFeed: every client is fed
\* 1, 2, 3, ... as the events are recorded.
THEOREM FeedImplemented ==
  ASSUME SingleForwarder
  PROVE  Spec => ImplementsFeed
<1>1. Init => NoLossInv
  BY DEF Init, NoLossInv, NoEventLost, BusInStep, CursorBound, CursorBoundAt
<1>2. Init => Feed!Init
  BY DEF Init, Feed!Init
<1>3. TypeOK /\ OrderInv /\ NoLossInv /\ [Next]_vars => NoLossInv' /\ [Feed!Next]_(Feed!vars)
  BY NoLossStep
<1>4. QED
  BY <1>1, <1>2, <1>3, TypeCorrect, OrderInvariant, PTL DEF Spec, Feed!Spec, ImplementsFeed

--------------------------------------------------------------------------------
(* With any number of forwarders an event is missed only when a later one      *)
(* overtakes it.  The strengthening: what is recorded is on the channel or in   *)
(* the hands of a forwarder, what is before a receiver's cursor is behind       *)
(* last_sent and the backlog, and a missed event that a forwarder still holds   *)
(* has been passed already.                                                     *)

Publishing(k) == \E f \in Forwarder : publishing[f] = k
OnBus(k) == \E i \in DOMAIN bus : bus[i] = k
OnWire(s, k) == \E i \in DOMAIN wire[s] : wire[s][i] = k
Passed(k) == \E i \in DOMAIN bus : bus[i] > k
Overtaken(k) == \E i, j \in DOMAIN bus : i < j /\ bus[j] = k /\ bus[i] > k

RecordedIsUnderWay ==
  /\ \A k \in 1 .. Len(log) : Publishing(k) \/ OnBus(k)
  /\ \A i \in DOMAIN bus : bus[i] <= Len(log)
  /\ \A f \in Forwarder : publishing[f] <= Len(log)

SentIsRecorded(s) ==
  /\ cursor[s] <= Len(bus) + 1
  /\ last_sent[s] <= Len(log)
  /\ task[s] \in {"replay", "refill"} => last_sent[s] + Len(backlog[s]) <= Len(log)

BehindCursor(s) ==
  task[s] \in {"live", "replay", "refill"} =>
    \A i \in DOMAIN bus : i < cursor[s] => bus[i] <= last_sent[s] + Len(backlog[s])

MissedIsPassed(s) ==
  \A k \in 1 .. last_sent[s] :
    OnWire(s, k) \/ (Publishing(k) /\ Passed(k)) \/ Overtaken(k)

OvertakeInv ==
  /\ RecordedIsUnderWay
  /\ \A s \in Subscriber : SentIsRecorded(s) /\ BehindCursor(s) /\ MissedIsPassed(s)

\* A step that touches one attachment and none of the events under way.
LEMMA OvertakeLocal ==
  ASSUME OvertakeInv, NEW s \in Subscriber, UNCHANGED agentVars,
         SentIsRecorded(s)', BehindCursor(s)', MissedIsPassed(s)',
         \A t \in Subscriber : t # s =>
           /\ task'[t] = task[t] /\ cursor'[t] = cursor[t] /\ wire'[t] = wire[t]
           /\ backlog'[t] = backlog[t] /\ last_sent'[t] = last_sent[t]
  PROVE  OvertakeInv'
<1>1. RecordedIsUnderWay'
  BY DEF OvertakeInv, agentVars, RecordedIsUnderWay, Publishing, OnBus
<1>2. ASSUME NEW t \in Subscriber, t # s
      PROVE  SentIsRecorded(t)' /\ BehindCursor(t)' /\ MissedIsPassed(t)'
  <2>1. SentIsRecorded(t)' /\ BehindCursor(t)'
    BY <1>2 DEF OvertakeInv, agentVars, SentIsRecorded, BehindCursor
  <2>2. MissedIsPassed(t)'
    BY <1>2 DEF OvertakeInv, agentVars, MissedIsPassed, OnWire, Publishing, Passed, Overtaken
  <2>3. QED
    BY <2>1, <2>2
<1>3. QED
  BY <1>1, <1>2 DEF OvertakeInv

\* Writing an event: what was on the wire stays there, and the event is.
LEMMA SendOnWire ==
  ASSUME TypeOK, NEW s \in Subscriber, NEW seq \in Nat \ {0}, Send(s, seq)
  PROVE  OnWire(s, seq)' /\ \A k \in Nat : OnWire(s, k) => OnWire(s, k)'
<1> DEFINE w == wire[s]
<1>1. w \in Seq(Nat \ {0}) /\ wire'[s] = Append(w, seq)
  BY DEF TypeOK, Send
<1>2. /\ Len(w) + 1 \in DOMAIN Append(w, seq) /\ Append(w, seq)[Len(w) + 1] = seq
      /\ \A i \in DOMAIN w : i \in DOMAIN Append(w, seq) /\ Append(w, seq)[i] = w[i]
  BY <1>1
<1>3. QED
  BY <1>1, <1>2 DEF OnWire

\* A value that is appended to the channel is behind all that was there.
LEMMA BroadcastKeeps ==
  ASSUME TypeOK, NEW f \in Forwarder, Broadcast(f), NEW v, v = publishing[f]
  PROVE  /\ v \in Nat \ {0} /\ OnBus(v)' /\ (Passed(v) => Overtaken(v)')
         /\ \A k \in Nat :
              /\ (OnBus(k) => OnBus(k)') /\ (Passed(k) => Passed(k)')
              /\ Overtaken(k) => Overtaken(k)'
              /\ k # 0 /\ Publishing(k) => k = v \/ Publishing(k)'
<1>1. bus \in Seq(Nat \ {0}) /\ v \in Nat \ {0} /\ bus' = Append(bus, v) /\ Len(bus) \in Nat
  BY DEF TypeOK, Broadcast
<1>2. /\ Len(bus) + 1 \in DOMAIN bus' /\ bus'[Len(bus) + 1] = v
      /\ \A i \in DOMAIN bus : i \in DOMAIN bus' /\ bus'[i] = bus[i] /\ i < Len(bus) + 1
  BY <1>1
<1>3. OnBus(v)'
  BY <1>2 DEF OnBus
<1>4. Passed(v) => Overtaken(v)'
  BY <1>2 DEF Passed, Overtaken
<1>5. \A k \in Nat :
        (OnBus(k) => OnBus(k)') /\ (Passed(k) => Passed(k)') /\ (Overtaken(k) => Overtaken(k)')
  BY <1>2 DEF OnBus, Passed, Overtaken
<1>6. \A k \in Nat : k # 0 /\ Publishing(k) => k = v \/ Publishing(k)'
  BY DEF Publishing, Broadcast, TypeOK
<1>7. QED
  BY <1>1, <1>3, <1>4, <1>5, <1>6

\* The steps of a forwarder.
LEMMA OvertakeForwarder ==
  ASSUME TypeOK, OvertakeInv, NEW f \in Forwarder, Emit(f) \/ ForwarderStep(f)
  PROVE  OvertakeInv'
<1> USE DEF TypeOK, agentVars, taskVars
<1>t. /\ Len(log) \in Nat /\ Len(bus) \in Nat
      /\ \A s \in Subscriber : last_sent[s] \in Nat /\ Len(backlog[s]) \in Nat /\ cursor[s] \in Nat
  OBVIOUS
<1>1. CASE Emit(f) \/ AppendFails(f)
  <2>1. UNCHANGED <<publishing, log, bus, task, cursor, backlog, last_sent, wire>>
    BY <1>1 DEF Emit, AppendFails
  <2>2. RecordedIsUnderWay'
    BY <2>1 DEF OvertakeInv, RecordedIsUnderWay, OnBus, Publishing
  <2>3. ASSUME NEW s \in Subscriber
        PROVE  SentIsRecorded(s)' /\ BehindCursor(s)' /\ MissedIsPassed(s)'
    <3>1. SentIsRecorded(s)' /\ BehindCursor(s)'
      BY <2>1 DEF OvertakeInv, SentIsRecorded, BehindCursor
    <3>2. MissedIsPassed(s)'
      BY <2>1 DEF OvertakeInv, MissedIsPassed, OnWire, Publishing, Passed, Overtaken
    <3>3. QED
      BY <3>1, <3>2
  <2>4. QED
    BY <2>2, <2>3 DEF OvertakeInv
<1>2. CASE AppendEvent(f)
  <2>1. /\ Len(log') = Len(log) + 1 /\ publishing[f] = 0 /\ publishing'[f] = Len(log) + 1
        /\ \A g \in Forwarder : g # f => publishing'[g] = publishing[g]
        /\ UNCHANGED <<bus, task, cursor, backlog, last_sent, wire>>
    BY <1>2 DEF AppendEvent
  <2>2. \A k \in Nat \ {0} : Publishing(k) => Publishing(k)'
    BY <2>1 DEF Publishing
  <2>3. RecordedIsUnderWay'
    <3>1. ASSUME NEW k \in 1 .. Len(log') PROVE Publishing(k)' \/ OnBus(k)'
      <4>1. CASE k = Len(log) + 1
        BY <2>1, <4>1 DEF Publishing
      <4>2. CASE k # Len(log) + 1
        <5>1. k \in 1 .. Len(log)
          BY <1>t, <2>1, <4>2
        <5>2. QED
          BY <2>1, <2>2, <5>1 DEF OvertakeInv, RecordedIsUnderWay, OnBus
      <4>3. QED
        BY <4>1, <4>2
    <3>2. \A i \in DOMAIN bus' : bus'[i] <= Len(log')
      BY <1>t, <2>1 DEF OvertakeInv, RecordedIsUnderWay
    <3>3. ASSUME NEW g \in Forwarder PROVE publishing'[g] <= Len(log')
      <4>1. publishing[g] \in Nat /\ publishing[g] <= Len(log)
        BY DEF OvertakeInv, RecordedIsUnderWay
      <4>2. publishing'[g] = publishing[g] \/ publishing'[g] = Len(log) + 1
        BY <2>1
      <4>3. QED
        BY <1>t, <2>1, <4>1, <4>2
    <3>4. QED
      BY <3>1, <3>2, <3>3 DEF RecordedIsUnderWay
  <2>4. ASSUME NEW s \in Subscriber
        PROVE  SentIsRecorded(s)' /\ BehindCursor(s)' /\ MissedIsPassed(s)'
    <3>1. SentIsRecorded(s)'
      BY <1>t, <2>1 DEF OvertakeInv, SentIsRecorded
    <3>2. BehindCursor(s)'
      BY <2>1 DEF OvertakeInv, BehindCursor
    <3>3. ASSUME NEW k \in 1 .. last_sent[s]
          PROVE  OnWire(s, k)' \/ (Publishing(k)' /\ Passed(k)') \/ Overtaken(k)'
      <4>1. OnWire(s, k) \/ (Publishing(k) /\ Passed(k)) \/ Overtaken(k)
        BY DEF OvertakeInv, MissedIsPassed
      <4>2. (OnWire(s, k) => OnWire(s, k)') /\ (Passed(k) => Passed(k)')
              /\ (Overtaken(k) => Overtaken(k)')
        BY <2>1 DEF OnWire, Passed, Overtaken
      <4>3. k \in Nat \ {0}
        BY <1>t
      <4>4. QED
        BY <2>2, <4>1, <4>2, <4>3
    <3>4. MissedIsPassed(s)'
      BY <2>1, <3>3 DEF MissedIsPassed
    <3>5. QED
      BY <3>1, <3>2, <3>4
  <2>5. QED
    BY <2>3, <2>4 DEF OvertakeInv
<1>3. CASE Broadcast(f)
  <2>1. PICK v : v = publishing[f]
    OBVIOUS
  <2>2. /\ v \in Nat \ {0} /\ OnBus(v)' /\ (Passed(v) => Overtaken(v)')
        /\ \A k \in Nat :
             /\ (OnBus(k) => OnBus(k)') /\ (Passed(k) => Passed(k)')
             /\ Overtaken(k) => Overtaken(k)'
             /\ k # 0 /\ Publishing(k) => k = v \/ Publishing(k)'
    BY <1>3, <2>1, BroadcastKeeps
  <2>3. /\ bus' = Append(bus, v) /\ Len(bus') = Len(bus) + 1
        /\ \A i \in DOMAIN bus' : \/ i \in DOMAIN bus /\ bus'[i] = bus[i]
                                  \/ i = Len(bus) + 1 /\ bus'[i] = v
        /\ \A g \in Forwarder : publishing'[g] = publishing[g] \/ publishing'[g] = 0
        /\ UNCHANGED <<log, task, cursor, backlog, last_sent, wire>>
    <3>1. bus' = Append(bus, v) /\ bus \in Seq(Nat \ {0})
      BY <1>3, <2>1 DEF Broadcast
    <3>2. ASSUME NEW i \in DOMAIN Append(bus, v)
          PROVE  \/ i \in DOMAIN bus /\ bus'[i] = bus[i]
                 \/ i = Len(bus) + 1 /\ bus'[i] = v
      <4>1. \/ i \in DOMAIN bus /\ Append(bus, v)[i] = bus[i]
            \/ i = Len(bus) + 1 /\ Append(bus, v)[i] = v
        BY <2>2, <3>1, <3>2, AppendElement
      <4>2. QED
        BY <3>1, <4>1
    <3>3. Len(bus') = Len(bus) + 1
      BY <2>2, <3>1
    <3>4. /\ \A g \in Forwarder : publishing'[g] = publishing[g] \/ publishing'[g] = 0
          /\ UNCHANGED <<log, task, cursor, backlog, last_sent, wire>>
      BY <1>3 DEF Broadcast
    <3>5. QED
      BY <3>1, <3>2, <3>3, <3>4
  <2>4. RecordedIsUnderWay'
    <3>1. \A k \in 1 .. Len(log') : Publishing(k)' \/ OnBus(k)'
      BY <1>t, <2>2, <2>3 DEF OvertakeInv, RecordedIsUnderWay
    <3>2. \A i \in DOMAIN bus' : bus'[i] <= Len(log')
      BY <2>1, <2>3 DEF OvertakeInv, RecordedIsUnderWay
    <3>3. ASSUME NEW g \in Forwarder PROVE publishing'[g] <= Len(log')
      <4>1. publishing[g] <= Len(log)
        BY DEF OvertakeInv, RecordedIsUnderWay
      <4>2. publishing'[g] = publishing[g] \/ publishing'[g] = 0
        BY <2>3
      <4>3. QED
        BY <1>t, <2>3, <4>1, <4>2
    <3>4. QED
      BY <3>1, <3>2, <3>3 DEF RecordedIsUnderWay
  <2>5. ASSUME NEW s \in Subscriber
        PROVE  SentIsRecorded(s)' /\ BehindCursor(s)' /\ MissedIsPassed(s)'
    <3>1. SentIsRecorded(s)'
      BY <1>t, <2>3 DEF OvertakeInv, SentIsRecorded
    <3>2. BehindCursor(s)'
      BY <1>t, <2>3 DEF OvertakeInv, BehindCursor, SentIsRecorded
    <3>3. ASSUME NEW k \in 1 .. last_sent[s]
          PROVE  OnWire(s, k)' \/ (Publishing(k)' /\ Passed(k)') \/ Overtaken(k)'
      <4>1. OnWire(s, k) \/ (Publishing(k) /\ Passed(k)) \/ Overtaken(k)
        BY DEF OvertakeInv, MissedIsPassed
      <4>2. k \in Nat /\ k # 0
        BY <1>t
      <4>3. OnWire(s, k) => OnWire(s, k)'
        BY <2>3 DEF OnWire
      <4>4. Publishing(k) /\ Passed(k) => (Publishing(k)' /\ Passed(k)') \/ Overtaken(k)'
        BY <2>2, <4>2
      <4>5. QED
        BY <2>2, <4>1, <4>2, <4>3, <4>4
    <3>4. MissedIsPassed(s)'
      BY <2>3, <3>3 DEF MissedIsPassed
    <3>5. QED
      BY <3>1, <3>2, <3>4
  <2>6. QED
    BY <2>4, <2>5 DEF OvertakeInv
<1>4. QED
  BY <1>1, <1>2, <1>3 DEF ForwarderStep

\* The steps of an attachment that write nothing.
LEMMA OvertakeSilent ==
  ASSUME TypeOK, OrderInv, OvertakeInv, NEW s \in Subscriber,
         \/ Subscribe(s) \/ ReadReplay(s) \/ ReadReplayFails(s) \/ BacklogDone(s) \/ SkipSent(s)
         \/ RecvLagged(s) \/ ReadMissed(s) \/ ReadMissedFails(s) \/ SendFails(s) \/ Disconnect(s)
  PROVE  OvertakeInv'
<1> USE DEF TypeOK, agentVars, taskVars
<1>t. /\ Len(log) \in Nat /\ Len(bus) \in Nat /\ last_sent[s] \in Nat
      /\ Len(backlog[s]) \in Nat /\ cursor[s] \in Nat
      /\ \A i \in DOMAIN bus : i \in Nat /\ bus[i] \in Nat
  OBVIOUS
<1>1. UNCHANGED <<agentVars, last_sent, wire>>
  BY DEF Subscribe, ReadReplay, ReadReplayFails, BacklogDone, SkipSent, RecvLagged, ReadMissed,
         ReadMissedFails, SendFails, Disconnect
<1>2. \A t \in Subscriber : t # s =>
        /\ task'[t] = task[t] /\ cursor'[t] = cursor[t] /\ wire'[t] = wire[t]
        /\ backlog'[t] = backlog[t] /\ last_sent'[t] = last_sent[t]
  BY DEF Subscribe, ReadReplay, ReadReplayFails, BacklogDone, SkipSent, RecvLagged, ReadMissed,
         ReadMissedFails, SendFails, Disconnect
<1>3. MissedIsPassed(s)'
  BY <1>1 DEF OvertakeInv, MissedIsPassed, OnWire, Publishing, Passed, Overtaken
<1>4. SentIsRecorded(s) /\ BehindCursor(s) /\ RecordedIsUnderWay
  BY DEF OvertakeInv
<1>5. SentIsRecorded(s)' /\ BehindCursor(s)'
  <2>1. CASE Subscribe(s)
    BY <1>t, <1>4, <2>1 DEF Subscribe, SentIsRecorded, BehindCursor
  <2>2. CASE ReadReplay(s) \/ ReadMissed(s)
    <3>1. /\ backlog'[s] = EventsSince(last_sent[s]) /\ task'[s] \in {"replay", "refill"}
          /\ UNCHANGED <<log, bus, cursor, last_sent>>
      BY <2>2 DEF ReadReplay, ReadMissed, OrderInv, BacklogOnlyInReplay
    <3>2. Len(log) - last_sent[s] \in Nat
      BY <1>t, <1>4 DEF SentIsRecorded
    <3>3. Len(backlog'[s]) = Len(log) - last_sent[s]
      BY <3>1, <3>2 DEF EventsSince
    <3>4. SentIsRecorded(s)'
      BY <1>t, <1>4, <3>1, <3>3 DEF SentIsRecorded
    <3>5. BehindCursor(s)'
      BY <1>t, <1>4, <3>1, <3>3 DEF BehindCursor, RecordedIsUnderWay
    <3>6. QED
      BY <3>4, <3>5
  <2>3. CASE ReadReplayFails(s) \/ ReadMissedFails(s) \/ SendFails(s)
    BY <1>t, <1>4, <2>3 DEF ReadReplayFails, ReadMissedFails, SendFails, SentIsRecorded, BehindCursor
  <2>4. CASE Disconnect(s)
    BY <1>t, <1>4, <2>4 DEF Disconnect, SentIsRecorded, BehindCursor
  <2>5. CASE BacklogDone(s)
    BY <1>t, <1>4, <2>5 DEF BacklogDone, SentIsRecorded, BehindCursor
  <2>6. CASE SkipSent(s)
    <3>1. /\ cursor'[s] = cursor[s] + 1 /\ cursor[s] <= Len(bus) /\ bus[cursor[s]] <= last_sent[s]
          /\ task[s] = "live" /\ UNCHANGED <<log, bus, task, backlog, last_sent>>
      BY <2>6 DEF SkipSent
    <3>2. SentIsRecorded(s)'
      BY <1>t, <1>4, <3>1 DEF SentIsRecorded
    <3>3. \A i \in DOMAIN bus : i < cursor[s] + 1 => bus[i] <= last_sent[s] + Len(backlog[s])
      BY <1>t, <1>4, <3>1 DEF BehindCursor
    <3>4. QED
      BY <3>1, <3>2, <3>3 DEF BehindCursor
  <2>7. CASE RecvLagged(s)
    <3>1. Oldest <= Len(bus) + 1
      BY <1>t, BufferSizeAssumption DEF Oldest
    <3>2. QED
      BY <1>t, <1>4, <2>7, <3>1 DEF RecvLagged, SentIsRecorded, BehindCursor
  <2>8. QED
    BY <2>1, <2>2, <2>3, <2>4, <2>5, <2>6, <2>7
<1>6. QED
  BY <1>1, <1>2, <1>3, <1>5, OvertakeLocal

\* The two steps that write.  The next row of a backlog is the next event; a live
\* event passes over those that are recorded and not behind the cursor, each of
\* which a forwarder holds or comes later on the channel.
LEMMA OvertakeSend ==
  ASSUME TypeOK, OrderInv, OvertakeInv, NEW s \in Subscriber, SendBacklog(s) \/ RecvEvent(s)
  PROVE  OvertakeInv'
<1> USE DEF TypeOK, agentVars, taskVars
<1>t. /\ Len(log) \in Nat /\ Len(bus) \in Nat /\ last_sent[s] \in Nat
      /\ backlog[s] \in Seq(Nat \ {0}) /\ Len(backlog[s]) \in Nat /\ cursor[s] \in Nat \ {0}
      /\ \A i \in DOMAIN bus : i \in Nat /\ bus[i] \in Nat \ {0}
  OBVIOUS
<1>i. SentIsRecorded(s) /\ BehindCursor(s) /\ MissedIsPassed(s) /\ RecordedIsUnderWay
  BY DEF OvertakeInv
<1>o. \A t \in Subscriber : t # s =>
        /\ task'[t] = task[t] /\ cursor'[t] = cursor[t] /\ wire'[t] = wire[t]
        /\ backlog'[t] = backlog[t] /\ last_sent'[t] = last_sent[t]
  BY DEF SendBacklog, RecvEvent, Send
<1>b. UNCHANGED agentVars
  BY DEF SendBacklog, RecvEvent
<1>k. \A k \in Nat : /\ Publishing(k) => Publishing(k)'
                     /\ Passed(k) => Passed(k)'
                     /\ Overtaken(k) => Overtaken(k)'
  BY <1>b DEF Publishing, Passed, Overtaken
<1>1. CASE SendBacklog(s)
  <2>1. PICK v \in Nat \ {0} : v = last_sent[s] + 1
    BY <1>t
  <2>2. backlog[s] # <<>> /\ Head(backlog[s]) = v /\ Len(Tail(backlog[s])) = Len(backlog[s]) - 1
    <3>1. 1 \in DOMAIN backlog[s] /\ Head(backlog[s]) = backlog[s][1] /\ backlog[s] # <<>>
      BY <1>t, <1>1 DEF SendBacklog
    <3>2. backlog[s][1] = v
      BY <2>1, <3>1 DEF OrderInv, BacklogFollows
    <3>3. QED
      BY <1>t, <3>1, <3>2
  <2>3. /\ Send(s, v) /\ last_sent'[s] = v /\ Len(backlog'[s]) = Len(backlog[s]) - 1
        /\ task[s] \in {"replay", "refill"} /\ UNCHANGED <<log, bus, task, cursor>>
    BY <1>1, <2>2 DEF SendBacklog, Send
  <2>4. SentIsRecorded(s)'
    <3>1. Len(backlog[s]) >= 1
      BY <1>t, <2>2
    <3>2. last_sent[s] + Len(backlog[s]) <= Len(log) /\ cursor[s] <= Len(bus) + 1
      BY <1>i, <2>3 DEF SentIsRecorded
    <3>3. v + (Len(backlog[s]) - 1) <= Len(log) /\ v <= Len(log)
      BY <1>t, <2>1, <3>1, <3>2
    <3>4. QED
      BY <2>3, <3>2, <3>3 DEF SentIsRecorded
  <2>5. BehindCursor(s)'
    BY <1>t, <1>i, <2>1, <2>3 DEF BehindCursor
  <2>6. OnWire(s, v)' /\ \A k \in Nat : OnWire(s, k) => OnWire(s, k)'
    BY <2>3, SendOnWire
  <2>7. MissedIsPassed(s)'
    <3>1. ASSUME NEW k \in 1 .. v
          PROVE  OnWire(s, k)' \/ (Publishing(k)' /\ Passed(k)') \/ Overtaken(k)'
      <4>1. CASE k = v
        BY <2>6, <4>1
      <4>2. CASE k # v
        <5>1. k \in 1 .. last_sent[s]
          BY <1>t, <2>1, <4>2
        <5>2. QED
          BY <1>i, <1>k, <2>6, <5>1 DEF MissedIsPassed
      <4>3. QED
        BY <4>1, <4>2
    <3>2. QED
      BY <2>3, <3>1 DEF MissedIsPassed
  <2>8. QED
    BY <1>b, <1>o, <2>4, <2>5, <2>7, OvertakeLocal
<1>2. CASE RecvEvent(s)
  <2>1. cursor[s] \in DOMAIN bus /\ bus[cursor[s]] > last_sent[s] /\ task[s] = "live"
    BY <1>t, <1>2 DEF RecvEvent
  <2>2. PICK v \in Nat \ {0} : v = bus[cursor[s]]
    BY <1>t, <2>1
  <2>3. /\ Send(s, v) /\ last_sent'[s] = v /\ cursor'[s] = cursor[s] + 1
        /\ UNCHANGED <<log, bus, task, backlog>>
    BY <1>2, <2>2 DEF RecvEvent, Send
  <2>4. Len(backlog[s]) = 0
    BY <2>1 DEF OrderInv, BacklogOnlyInReplay
  <2>5. SentIsRecorded(s)'
    <3>1. v <= Len(log) /\ cursor[s] <= Len(bus)
      BY <1>t, <1>i, <2>1, <2>2 DEF RecordedIsUnderWay
    <3>2. QED
      BY <1>t, <2>1, <2>3, <3>1 DEF SentIsRecorded
  <2>6. BehindCursor(s)'
    <3>1. ASSUME NEW i \in DOMAIN bus, i < cursor[s] + 1 PROVE bus[i] <= v
      <4>1. CASE i = cursor[s]
        BY <2>2, <4>1
      <4>2. CASE i # cursor[s]
        <5>1. i < cursor[s]
          BY <1>t, <3>1, <4>2
        <5>2. bus[i] <= last_sent[s] + Len(backlog[s])
          BY <1>i, <2>1, <5>1 DEF BehindCursor
        <5>3. bus[i] \in Nat /\ last_sent[s] < v
          BY <1>t, <2>1, <2>2
        <5>4. QED
          BY <1>t, <2>4, <5>2, <5>3
      <4>3. QED
        BY <4>1, <4>2
    <3>2. QED
      BY <1>t, <2>3, <2>4, <3>1 DEF BehindCursor
  <2>7. OnWire(s, v)' /\ \A k \in Nat : OnWire(s, k) => OnWire(s, k)'
    BY <2>3, SendOnWire
  <2>8. MissedIsPassed(s)'
    <3>1. ASSUME NEW k \in 1 .. v
          PROVE  OnWire(s, k)' \/ (Publishing(k)' /\ Passed(k)') \/ Overtaken(k)'
      <4>1. CASE k = v
        BY <2>7, <4>1
      <4>2. CASE k <= last_sent[s]
        <5>1. k \in 1 .. last_sent[s]
          BY <1>t, <4>2
        <5>2. QED
          BY <1>i, <1>k, <2>7, <5>1 DEF MissedIsPassed
      <4>3. CASE k > last_sent[s] /\ k # v
        <5>1. k \in 1 .. Len(log) /\ k < v
          BY <1>t, <1>i, <2>1, <2>2, <4>3 DEF RecordedIsUnderWay
        <5>2. Passed(k)
          BY <2>1, <2>2, <5>1 DEF Passed
        <5>3. CASE Publishing(k)
          BY <1>k, <5>1, <5>2, <5>3
        <5>4. CASE OnBus(k)
          <6>1. PICK j \in DOMAIN bus : bus[j] = k
            BY <5>4 DEF OnBus
          <6>2. ~(j < cursor[s])
            BY <1>t, <1>i, <2>1, <2>4, <4>3, <6>1 DEF BehindCursor
          <6>3. cursor[s] < j
            BY <1>t, <2>2, <5>1, <6>1, <6>2
          <6>4. Overtaken(k)
            BY <2>1, <2>2, <5>1, <6>1, <6>3 DEF Overtaken
          <6>5. QED
            BY <1>k, <5>1, <6>4
        <5>5. QED
          BY <1>i, <5>1, <5>3, <5>4 DEF RecordedIsUnderWay
      <4>4. QED
        BY <1>t, <4>1, <4>2, <4>3
    <3>2. QED
      BY <2>3, <3>1 DEF MissedIsPassed
  <2>9. QED
    BY <1>b, <1>o, <2>5, <2>6, <2>8, OvertakeLocal
<1>3. QED
  BY <1>1, <1>2

\* For any number of forwarders, clients and any buffer size, a client misses an
\* event only if, when it was passed over, it was recorded and not yet broadcast or
\* broadcast behind a later one; no hand-over from replay to live, and no lag,
\* loses one.
THEOREM MissedIsOvertaken == Spec => []MissedOnlyIfOvertaken
<1>1. Init => OvertakeInv
  BY DEF Init, OvertakeInv, RecordedIsUnderWay, SentIsRecorded, BehindCursor, MissedIsPassed
<1>2. TypeOK /\ OrderInv /\ OvertakeInv /\ [Next]_vars => OvertakeInv'
  <2> SUFFICES ASSUME TypeOK, OrderInv, OvertakeInv, [Next]_vars PROVE OvertakeInv'
    OBVIOUS
  <2>1. CASE UNCHANGED vars
    BY <2>1 DEF vars, OvertakeInv, RecordedIsUnderWay, SentIsRecorded, BehindCursor,
                MissedIsPassed, OnWire, OnBus, Publishing, Passed, Overtaken
  <2>2. CASE Next
    BY <2>2, OvertakeForwarder, OvertakeSilent, OvertakeSend DEF Next, AttachStep
  <2>3. QED
    BY <2>1, <2>2
<1>3. OvertakeInv => MissedOnlyIfOvertaken
  BY DEF OvertakeInv, MissedIsPassed, MissedOnlyIfOvertaken, OnWire, Publishing, Overtaken
<1>4. QED
  BY <1>1, <1>2, <1>3, TypeCorrect, OrderInvariant, PTL DEF Spec
================================================================================
