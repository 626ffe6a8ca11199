------------------------------- MODULE EventBus -------------------------------
(***************************************************************************)
(* The event path of one session, from the agents to the attached clients: *)
(*   - every agent task sends EventKinds into an mpsc channel of its own;  *)
(*   - a forwarder task per channel (broadcast.rs, spawn_forwarder) takes  *)
(*     them one by one and publishes them: append to the SQLite events     *)
(*     table, which assigns the seq, THEN send to the session's broadcast  *)
(*     channel (EventBus::publish) - two steps, nothing held in between;   *)
(*   - SessionAttach (server.rs) subscribes to the broadcast channel, reads*)
(*     the events table, and spawns a task that writes to the client the   *)
(*     replay, then the live events with a greater seq than the last one   *)
(*     sent, and after a Lagged error reads what it missed from the table. *)
(*                                                                         *)
(* An event is the n-th EventKind its forwarder was sent; the seq of an    *)
(* event is its position in the log (append_event assigns max + 1).        *)
(***************************************************************************)
EXTENDS Naturals, Sequences

CONSTANTS
  Forwarder,      \* the forwarder tasks of the session, one per agent channel
  Subscriber,     \* the attachments (one per SessionAttach request)
  BufferSize,     \* capacity of the broadcast channel (256 in the code)
  MaxEvents,      \* bound: how many EventKinds one agent sends
  StorageFails    \* whether an SQLite call may return an error

ASSUME BufferSizeAssumption == BufferSize \in Nat \ {0}
ASSUME MaxEventsAssumption == MaxEvents \in Nat
ASSUME StorageFailsAssumption == StorageFails \in BOOLEAN

VARIABLES
  emitted,     \* emitted[f]: how many EventKinds the agent of f has sent
  queue,       \* queue[f]: the mpsc channel of f
  publishing,  \* publishing[f]: seq f has appended and not yet broadcast, or 0
  log,         \* the events table: log[seq] is the event
  bus,         \* every seq ever sent to the broadcast channel, in order
  task,        \* task[s]: where the attachment s stands
  cursor,      \* cursor[s]: index in bus of the receiver's next value
  backlog,     \* backlog[s]: rows read from the table and not yet written
  last_sent,   \* last_sent[s]: greatest seq written to the client
  wire,        \* wire[s]: the seqs written to the client's socket
  connected    \* connected[s]: the client still holds its end of the socket

agentVars == <<emitted, queue, publishing, log, bus>>
taskVars  == <<task, cursor, backlog, last_sent, wire, connected>>
vars == <<emitted, queue, publishing, log, bus,
          task, cursor, backlog, last_sent, wire, connected>>

Event == [src : Forwarder, n : Nat \ {0}]

TaskState == {"none",        \* not attached (or the attach was refused)
              "subscribed",  \* receiver created, table not read yet
              "replay",      \* writing the replay
              "live",        \* waiting in rx.recv()
              "lagged",      \* got Lagged, table not read yet
              "refill",      \* writing what was missed
              "ended"}       \* the task returned

Init ==
  /\ emitted = [f \in Forwarder |-> 0]
  /\ queue = [f \in Forwarder |-> <<>>]
  /\ publishing = [f \in Forwarder |-> 0]
  /\ log = <<>>
  /\ bus = <<>>
  /\ task = [s \in Subscriber |-> "none"]
  /\ cursor = [s \in Subscriber |-> 1]
  /\ backlog = [s \in Subscriber |-> <<>>]
  /\ last_sent = [s \in Subscriber |-> 0]
  /\ wire = [s \in Subscriber |-> <<>>]
  /\ connected = [s \in Subscriber |-> TRUE]

-------------------------------------------------------------------------------
(* The agents and their forwarders. *)

\* An agent sends its next EventKind (event_tx.send, unbounded).
Emit(f) ==
  /\ emitted[f] < MaxEvents
  /\ emitted' = [emitted EXCEPT ![f] = @ + 1]
  /\ queue' = [queue EXCEPT ![f] = Append(@, emitted[f] + 1)]
  /\ UNCHANGED <<publishing, log, bus, taskVars>>

\* The forwarder takes its next EventKind and appends it to the events table
\* (first half of publish; append_event assigns seq = max + 1 atomically).
AppendEvent(f) ==
  /\ publishing[f] = 0
  /\ queue[f] # <<>>
  /\ log' = Append(log, [src |-> f, n |-> Head(queue[f])])
  /\ publishing' = [publishing EXCEPT ![f] = Len(log) + 1]
  /\ queue' = [queue EXCEPT ![f] = Tail(@)]
  /\ UNCHANGED <<emitted, bus, taskVars>>

\* append_event returns an error: publish returns early, the forwarder logs a
\* warning and the event is gone.
AppendFails(f) ==
  /\ StorageFails
  /\ publishing[f] = 0
  /\ queue[f] # <<>>
  /\ queue' = [queue EXCEPT ![f] = Tail(@)]
  /\ UNCHANGED <<emitted, publishing, log, bus, taskVars>>

\* Second half of publish: the appended event goes to the broadcast channel.
Broadcast(f) ==
  /\ publishing[f] # 0
  /\ bus' = Append(bus, publishing[f])
  /\ publishing' = [publishing EXCEPT ![f] = 0]
  /\ UNCHANGED <<emitted, queue, log, taskVars>>

-------------------------------------------------------------------------------
(* The attachments. *)

\* The rows events_since(last_seq) returns: every greater seq, ascending.
EventsSince(last_seq) == [i \in 1 .. (Len(log) - last_seq) |-> last_seq + i]

\* The receiver's next value has left the ring buffer.
Lagged(s) == cursor[s] + BufferSize <= Len(bus)

\* First half of EventBus::subscribe: the receiver starts at the tail.
Subscribe(s) ==
  /\ task[s] = "none"
  /\ connected[s]
  /\ task' = [task EXCEPT ![s] = "subscribed"]
  /\ cursor' = [cursor EXCEPT ![s] = Len(bus) + 1]
  /\ UNCHANGED <<agentVars, backlog, last_sent, wire, connected>>

\* Second half of subscribe, and the spawn of the attachment's task.
\* SessionAttach ignores the client's last_seq: the replay starts from 0.
ReadReplay(s) ==
  /\ task[s] = "subscribed"
  /\ task' = [task EXCEPT ![s] = "replay"]
  /\ backlog' = [backlog EXCEPT ![s] = EventsSince(0)]
  /\ UNCHANGED <<agentVars, cursor, last_sent, wire, connected>>

\* The table cannot be read: the request is answered with an error, no task.
ReadReplayFails(s) ==
  /\ StorageFails
  /\ task[s] = "subscribed"
  /\ task' = [task EXCEPT ![s] = "none"]
  /\ UNCHANGED <<agentVars, cursor, backlog, last_sent, wire, connected>>

\* Writing one event: the client's socket receives seq, last_sent follows.
Send(s, seq) ==
  /\ connected[s]
  /\ wire' = [wire EXCEPT ![s] = Append(@, seq)]
  /\ last_sent' = [last_sent EXCEPT ![s] = seq]

\* The task writes the next row of a replay or of a refill.
SendBacklog(s) ==
  /\ task[s] \in {"replay", "refill"}
  /\ backlog[s] # <<>>
  /\ Send(s, Head(backlog[s]))
  /\ backlog' = [backlog EXCEPT ![s] = Tail(@)]
  /\ UNCHANGED <<agentVars, task, cursor, connected>>

\* The receiver created only when the replay is written: what was broadcast in
\* the meantime is never received (the window H1 names).
BacklogDoneThenSubscribe(s) ==
  /\ task[s] \in {"replay", "refill"}
  /\ backlog[s] = <<>>
  /\ task' = [task EXCEPT ![s] = "live"]
  /\ cursor' = [cursor EXCEPT ![s] = Len(bus) + 1]
  /\ UNCHANGED <<agentVars, backlog, last_sent, wire, connected>>

\* All rows are written: the task goes (back) to rx.recv().
BacklogDone(s) ==
  /\ task[s] \in {"replay", "refill"}
  /\ backlog[s] = <<>>
  /\ task' = [task EXCEPT ![s] = "live"]
  /\ UNCHANGED <<agentVars, cursor, backlog, last_sent, wire, connected>>

\* rx.recv() returned an event already written: dropped by its seq.
SkipSent(s) ==
  /\ task[s] = "live"
  /\ cursor[s] <= Len(bus)
  /\ ~Lagged(s)
  /\ bus[cursor[s]] <= last_sent[s]
  /\ cursor' = [cursor EXCEPT ![s] = @ + 1]
  /\ UNCHANGED <<agentVars, task, backlog, last_sent, wire, connected>>

\* RecvEvent without the comparison with last_sent.
RecvAnyEvent(s) ==
  /\ task[s] = "live"
  /\ cursor[s] <= Len(bus)
  /\ ~Lagged(s)
  /\ Send(s, bus[cursor[s]])
  /\ cursor' = [cursor EXCEPT ![s] = @ + 1]
  /\ UNCHANGED <<agentVars, task, backlog, connected>>

\* rx.recv() returned a newer event: written to the client.
RecvEvent(s) ==
  /\ task[s] = "live"
  /\ cursor[s] <= Len(bus)
  /\ ~Lagged(s)
  /\ bus[cursor[s]] > last_sent[s]
  /\ Send(s, bus[cursor[s]])
  /\ cursor' = [cursor EXCEPT ![s] = @ + 1]
  /\ UNCHANGED <<agentVars, task, backlog, connected>>

\* The receiver position after a Lagged error: the oldest value retained.
Oldest == Len(bus) - BufferSize + 1

\* Lagged answered by simply going on with the oldest retained value.
RecvLaggedIgnored(s) ==
  /\ task[s] = "live"
  /\ Lagged(s)
  /\ cursor' = [cursor EXCEPT ![s] = Oldest]
  /\ UNCHANGED <<agentVars, task, backlog, last_sent, wire, connected>>

\* Lagged answered by ending the task (what H2 forbids).
RecvLaggedEnds(s) ==
  /\ task[s] = "live"
  /\ Lagged(s)
  /\ task' = [task EXCEPT ![s] = "ended"]
  /\ UNCHANGED <<agentVars, cursor, backlog, last_sent, wire, connected>>

\* rx.recv() returned Lagged: the channel moves the receiver to the oldest
\* value it still holds, the task turns to the table.
RecvLagged(s) ==
  /\ task[s] = "live"
  /\ Lagged(s)
  /\ cursor' = [cursor EXCEPT ![s] = Oldest]
  /\ task' = [task EXCEPT ![s] = "lagged"]
  /\ UNCHANGED <<agentVars, backlog, last_sent, wire, connected>>

\* The missed rows are read from the table.
ReadMissed(s) ==
  /\ task[s] = "lagged"
  /\ task' = [task EXCEPT ![s] = "refill"]
  /\ backlog' = [backlog EXCEPT ![s] = EventsSince(last_sent[s])]
  /\ UNCHANGED <<agentVars, cursor, last_sent, wire, connected>>

\* The table cannot be read: the task returns, the client is not told.
ReadMissedFails(s) ==
  /\ StorageFails
  /\ task[s] = "lagged"
  /\ task' = [task EXCEPT ![s] = "ended"]
  /\ UNCHANGED <<agentVars, cursor, backlog, last_sent, wire, connected>>

\* A write to a client that is gone fails: send_ev is false, the task returns.
SendFails(s) ==
  /\ ~connected[s]
  /\ \/ task[s] \in {"replay", "refill"} /\ backlog[s] # <<>>
     \/ /\ task[s] = "live" /\ cursor[s] <= Len(bus) /\ ~Lagged(s)
        /\ bus[cursor[s]] > last_sent[s]
  /\ task' = [task EXCEPT ![s] = "ended"]
  /\ UNCHANGED <<agentVars, cursor, backlog, last_sent, wire, connected>>

\* The client detaches, crashes or loses its SSH connection at any moment.
Disconnect(s) ==
  /\ connected[s]
  /\ task[s] # "none"
  /\ connected' = [connected EXCEPT ![s] = FALSE]
  /\ UNCHANGED <<agentVars, task, cursor, backlog, last_sent, wire>>

-------------------------------------------------------------------------------
ForwarderStep(f) == AppendEvent(f) \/ AppendFails(f) \/ Broadcast(f)

AttachStep(s) ==
  \/ ReadReplay(s)  \/ ReadReplayFails(s)
  \/ SendBacklog(s) \/ BacklogDone(s)
  \/ SkipSent(s)    \/ RecvEvent(s)
  \/ RecvLagged(s)  \/ ReadMissed(s) \/ ReadMissedFails(s)
  \/ SendFails(s)

Next ==
  \/ \E f \in Forwarder : Emit(f) \/ ForwarderStep(f)
  \/ \E s \in Subscriber : Subscribe(s) \/ AttachStep(s) \/ Disconnect(s)

Spec == Init /\ [][Next]_vars

\* The daemon's tasks keep running; agents emit, and clients come and go, as
\* they please.
BusIsFair ==
  /\ \A f \in Forwarder : WF_vars(ForwarderStep(f))
  /\ \A s \in Subscriber : WF_vars(AttachStep(s))

FairSpec == Spec /\ BusIsFair

-------------------------------------------------------------------------------
(* Properties. *)

TypeOK ==
  /\ emitted \in [Forwarder -> Nat]
  /\ queue \in [Forwarder -> Seq(Nat \ {0})]
  /\ publishing \in [Forwarder -> Nat]
  /\ log \in Seq(Event)
  /\ bus \in Seq(Nat \ {0})
  /\ task \in [Subscriber -> TaskState]
  /\ cursor \in [Subscriber -> Nat \ {0}]
  /\ backlog \in [Subscriber -> Seq(Nat \ {0})]
  /\ last_sent \in [Subscriber -> Nat]
  /\ wire \in [Subscriber -> Seq(Nat \ {0})]
  /\ connected \in [Subscriber -> BOOLEAN]

\* No client ever receives an event twice or an older event after a newer one,
\* whatever the overlap between the replay, the refill after a lag and the live
\* stream (the seq comparison of the attach task, server.rs 261 and 276).
DeliveredInOrder ==
  \A s \in Subscriber :
    \A i, j \in DOMAIN wire[s] : i < j => wire[s][i] < wire[s][j]

\* Client s has been sent events 1 .. last_sent[s], each of them: the "полный
\* стрим без потери событий" of the specification.  It holds when one forwarder
\* serves the session; two forwarders break it.
NoEventLost ==
  \A s \in Subscriber :
    wire[s] = [i \in 1 .. last_sent[s] |-> i]

\* With any number of forwarders, the only events a client misses are those
\* overtaken between their append and their broadcast: when k was passed over,
\* k was still unbroadcast, or was broadcast behind a greater seq.  No event is
\* lost to the replay/live hand-over (H1) or to a lag (H2).
MissedOnlyIfOvertaken ==
  \A s \in Subscriber : \A k \in 1 .. last_sent[s] :
    \/ \E i \in DOMAIN wire[s] : wire[s][i] = k
    \/ \E f \in Forwarder : publishing[f] = k
    \/ \E i, j \in DOMAIN bus : i < j /\ bus[j] = k /\ bus[i] > k

\* Everything in the table reaches every client that stays connected, whether
\* it was there before the attach, came during the replay or overran the buffer:
\* the attach task never stops short of the end of the log.
EventuallyCaughtUp ==
  \A s \in Subscriber :
    task[s] \notin {"none", "subscribed"}
      ~> (~connected[s] \/ last_sent[s] = Len(log))

\* The bus as an implementation of the promise to clients.
Feed == INSTANCE EventFeed WITH logged <- Len(log), stream <- wire

ImplementsFeed == Feed!Spec
===============================================================================
