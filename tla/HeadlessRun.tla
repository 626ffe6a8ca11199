------------------------------- MODULE HeadlessRun -------------------------------
(***************************************************************************)
(* vpsagent run (run_headless in vpsagent/src/main.rs) over one connection *)
(* (daemon/src/client.rs and handle_connection in daemon/src/server.rs):   *)
(* the client asks for a session, sends the task without waiting for the   *)
(* answer, attaches, and reads events.  The server answers requests in     *)
(* their order, while its attach task writes events to the same socket.    *)
(*                                                                         *)
(* The session's events are what EventFeed promises: each attached client  *)
(* is given all of them, in order.  An agent is what AgentLoop makes of it *)
(* in its log: texts, an error perhaps, and AgentFinished.                 *)
(***************************************************************************)
EXTENDS Naturals, Sequences, FiniteSets

CONSTANT MaxTexts       \* bound: texts of the agent

ASSUME TextsAssumption == MaxTexts \in Nat

VARIABLES
  client,     \* where run_headless stands
  requests,   \* sent and not yet handled
  lines,      \* written by the server and not yet read
  open,       \* the server's side of the connection
  spawnable,  \* whether the daemon can spawn the agent
  attach,     \* the attach request: not handled, its task spawned, answered
  given,      \* how many events the attach task has written
  log,        \* the events of the session
  agent,
  shown,      \* the events the callback of drain_events got, as places in the log
  exit        \* the exit code: finished, failed, and the code itself

connection == <<requests, lines, open>>
session == <<spawnable, attach, given, log, agent>>
runVars == <<client, connection, session, shown, exit>>

NoExit == [finished |-> FALSE, failed |-> FALSE, code |-> "none"]

RunInit ==
  /\ client = "off"
  /\ requests = <<>> /\ lines = <<>> /\ open = FALSE
  /\ spawnable = FALSE /\ attach = "none" /\ given = 0 /\ log = <<>> /\ agent = "none"
  /\ shown = {} /\ exit = NoExit

\* A line is an answer to a request, or the event at a place of the log.
Answer(r, ok) == [answer |-> r, ok |-> ok, event |-> 0]
Notification(i) == [answer |-> "none", ok |-> TRUE, event |-> i]
Write(line) == lines' = Append(lines, line)

\* ensure_daemon, connect and SessionCreate, in a session of its own.
Connect(canSpawn) ==
  /\ client = "off"
  /\ client' = "creating"
  /\ requests' = <<"create">> /\ lines' = <<>> /\ open' = TRUE
  /\ spawnable' = canSpawn /\ attach' = "none" /\ given' = 0 /\ log' = <<>>
  /\ agent' = "none"
  /\ shown' = {} /\ exit' = NoExit

-------------------------------------------------------------------------------
(* The server. *)

Handles(r) == open /\ attach # "spawned" /\ requests # <<>> /\ Head(requests) = r

\* SessionCreate: the row is written, or not.
HandleCreate ==
  /\ Handles("create")
  /\ requests' = Tail(requests)
  /\ \E ok \in BOOLEAN : Write(Answer("create", ok))
  /\ UNCHANGED <<client, open, session, shown, exit>>

\* MessageSend: the agent is spawned, or an error answered.
HandleSend ==
  /\ Handles("send")
  /\ requests' = Tail(requests)
  /\ Write(Answer("send", spawnable))
  /\ agent' = IF spawnable THEN "working" ELSE agent
  /\ UNCHANGED <<client, open, spawnable, attach, given, log, shown, exit>>

\* The subscription to the session's events fails: an error, and no task.
AttachFails ==
  /\ Handles("attach")
  /\ requests' = Tail(requests)
  /\ Write(Answer("attach", FALSE))
  /\ UNCHANGED <<client, open, session, shown, exit>>

\* SessionAttach: the task that writes the events is spawned first ...
HandleAttach ==
  /\ Handles("attach")
  /\ requests' = Tail(requests)
  /\ attach' = "spawned"
  /\ UNCHANGED <<client, lines, open, spawnable, given, log, agent, shown, exit>>

\* ... and the answer written afterwards.
AnswerAttach ==
  /\ open /\ attach = "spawned"
  /\ attach' = "answered"
  /\ Write(Answer("attach", TRUE))
  /\ UNCHANGED <<client, requests, open, spawnable, given, log, agent, shown, exit>>

\* The attach task writes the next event.
Give ==
  /\ open /\ attach # "none" /\ given < Len(log)
  /\ given' = given + 1
  /\ Write(Notification(given'))
  /\ UNCHANGED <<client, requests, open, spawnable, attach, log, agent, shown, exit>>

\* The agent: texts, and at its end an error or none and AgentFinished.
Publish ==
  /\ open /\ agent = "working"
  /\ \/ Len(log) < MaxTexts /\ log' = Append(log, "text") /\ UNCHANGED agent
     \/ log' = Append(log, "finished") /\ agent' = "over"
     \/ log' = log \o <<"error", "finished">> /\ agent' = "over"
  /\ UNCHANGED <<client, connection, spawnable, attach, given, shown, exit>>

\* The daemon stops, or is killed, at any moment.
DaemonGone ==
  /\ open
  /\ open' = FALSE
  /\ requests' = <<>>
  /\ UNCHANGED <<client, lines, session, shown, exit>>

-------------------------------------------------------------------------------
(* The client. *)

Waiting == [creating |-> "create", attaching |-> "attach"]
InRequest == client \in DOMAIN Waiting

\* request: notifications go to a callback that does nothing, and answers to
\* other requests are skipped.
Skip ==
  /\ InRequest /\ lines # <<>> /\ Head(lines).answer # Waiting[client]
  /\ lines' = Tail(lines)
  /\ UNCHANGED <<client, requests, open, session, shown, exit>>

\* The session is there: the task is sent, without waiting, and the attach.
Created ==
  /\ client = "creating" /\ lines # <<>> /\ Head(lines) = Answer("create", TRUE)
  /\ lines' = Tail(lines)
  /\ requests' = IF open THEN <<"send", "attach">> ELSE requests
  /\ client' = "attaching"
  /\ UNCHANGED <<open, session, shown, exit>>

Attached ==
  /\ client = "attaching" /\ lines # <<>> /\ Head(lines) = Answer("attach", TRUE)
  /\ lines' = Tail(lines)
  /\ client' = "draining"
  /\ UNCHANGED <<requests, open, session, shown, exit>>

\* The process ends with the code.
Ends(code) ==
  /\ client' = "off"
  /\ exit' = [exit EXCEPT !.code = code]
  /\ open' = FALSE /\ requests' = <<>>

\* bail: an error for an answer.
Refused ==
  /\ InRequest /\ lines # <<>> /\ Head(lines) = Answer(Waiting[client], FALSE)
  /\ lines' = Tail(lines)
  /\ Ends("1")
  /\ UNCHANGED <<session, shown>>

\* The callback, with the error taken for an end like any other.
DrainBlind ==
  /\ client = "draining" /\ lines # <<>>
  /\ LET line == Head(lines)
         kind == IF line.event > 0 THEN log[line.event] ELSE "answer"
     IN /\ shown' = IF line.event > 0 THEN shown \cup {line.event} ELSE shown
        /\ exit' = [exit EXCEPT !.finished = @ \/ kind \in {"finished", "error"}]
  /\ lines' = Tail(lines)
  /\ UNCHANGED <<client, requests, open, session>>

\* drain_events: the callback gets the event, or an error answer as one; nothing
\* it sees ends the loop.
Drain ==
  /\ client = "draining" /\ lines # <<>>
  /\ LET line == Head(lines)
         kind == IF line.event > 0 THEN log[line.event]
                 ELSE IF line.ok THEN "answer" ELSE "error"
     IN /\ shown' = IF line.event > 0 THEN shown \cup {line.event} ELSE shown
        /\ exit' = [exit EXCEPT !.finished = @ \/ kind \in {"finished", "error"},
                                !.failed = @ \/ kind = "error"]
  /\ lines' = Tail(lines)
  /\ UNCHANGED <<client, requests, open, session>>

\* The end of the connection noticed in requests only.
EndOfLinesLost ==
  /\ InRequest
  /\ ~open /\ lines = <<>>
  /\ Ends("1")
  /\ UNCHANGED <<lines, session, shown>>

\* The end of the connection: an error in a request; while draining, the code is
\* 0 if something finished and nothing failed.
EndOfLines ==
  /\ InRequest \/ client = "draining"
  /\ ~open /\ lines = <<>>
  /\ Ends(IF client = "draining" /\ exit.finished /\ ~exit.failed THEN "0" ELSE "1")
  /\ UNCHANGED <<lines, session, shown>>

\* Ctrl-C.
Interrupted ==
  /\ client # "off"
  /\ Ends("killed")
  /\ lines' = <<>>
  /\ UNCHANGED <<session, shown>>

ServerStep ==
  HandleCreate \/ HandleSend \/ HandleAttach \/ AttachFails \/ AnswerAttach \/ Give \/ Publish
ClientStep == Skip \/ Created \/ Attached \/ Refused \/ Drain \/ EndOfLines

-------------------------------------------------------------------------------
(* Properties. *)

\* "exit code 0/1": 0 says that an agent finished and that no error that came
\* after the attach was left out.
ZeroIsSuccess ==
  exit.code = "0" =>
    /\ \E i \in shown : log[i] = "finished"
    /\ \A i \in DOMAIN log : log[i] = "error" => \A j \in shown : i < j

\* Once the daemon is gone the client ends, whatever it was waiting for.
EndsWithDaemon == (client # "off" /\ ~open) ~> (client = "off")

\* "дождаться AgentFinished, вывести результат, exit code 0/1": a run whose agent
\* has finished ends.
FinishedRunEnds == (client # "off" /\ agent = "over") ~> (client = "off")
===============================================================================
