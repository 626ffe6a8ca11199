------------------------------- MODULE AgentLoop -------------------------------
(***************************************************************************)
(* The dialogue of one agent task (run_agent, runtime/src/agent_loop.rs):  *)
(* it reads user messages from its inbox, sends the history to the model,  *)
(* collects the text and the tool calls of the stream, decides and runs    *)
(* the calls one by one, puts the calls and their results into the history,*)
(* and repeats until a turn has no calls.  The history is compacted        *)
(* (compact.rs) when it is estimated too long.  Everything is also written *)
(* to SQLite, errors ignored, and told to the clients as events.           *)
(*                                                                         *)
(* A message is its role and the ids of the calls it carries; what a text  *)
(* or a result says, token counts and the deltas of a text are left out.   *)
(* SessionManager models how such tasks are spawned, found and restarted.  *)
(***************************************************************************)
EXTENDS Naturals, Sequences, FiniteSets, SequencesExt

CONSTANTS
  MaxSent,        \* bound: how many messages users send
  MaxTurns,       \* MAX_TURNS (30 in the code)
  MaxCalls,       \* bound: how many tool calls one stream asks for
  Threshold,      \* the messages of usual length that make the history too long
  MaxFails,       \* bound: how many writes SQLite fails
  Long            \* whether a user's message may be too long by itself

ASSUME BoundAssumption ==
  {MaxSent, MaxTurns, MaxCalls, Threshold, MaxFails} \subseteq Nat
ASSUME LongAssumption == Long \in BOOLEAN

VARIABLES
  place,      \* where the task stands
  inbox,      \* messages sent and not read
  sent,       \* how many messages were sent
  cancelled,  \* the CancellationToken
  turns,      \* turns begun
  history,    \* the dialogue
  stored,     \* the messages table, as far as this agent wrote it
  text,       \* the stream has brought text (assistant_text)
  started,    \* how many calls the model has asked for
  calls,      \* tool_calls not yet dealt with
  uses,       \* tool_use_blocks, and with them tool_results, of this turn
  failed,     \* loop_result is an error
  status,     \* the status the task has chosen at its end
  row,        \* the status column of the agent's row
  events,     \* what the clients are told, deltas and texts left out
  executed,   \* ghost: the calls whose tool ran
  lost        \* ghost: how many writes failed

turnVars == <<text, started, calls, uses>>
endVars == <<failed, status, row>>
vars == <<place, inbox, sent, cancelled, turns, history, stored, text,
          started, calls, uses, failed, status, row, events, executed, lost>>

Place == {"recv", "top", "stream", "tools", "asking", "running", "results",
          "drain", "finishing", "ending", "dead"}
Role == {"user", "marker", "assistant", "tool"}

Call == Nat \ {0}     \* named in the order they are asked for
Message == [role : Role, calls : Seq(Call), long : BOOLEAN]
\* A message of a user: whether it is long and, as a ghost, the turn at whose end it is
\* due: the one under way, or the next one if none is.
Waiting == [long : BOOLEAN, turn : Nat]
Event == [kind : {"start", "end"}, call : Call]
           \cup [kind : {"error", "finished"}]

User(long) == [role |-> "user", calls |-> <<>>, long |-> long]
Marker     == [role |-> "marker", calls |-> <<>>, long |-> FALSE]
Text       == [role |-> "assistant", calls |-> <<>>, long |-> FALSE]
Uses(ids)  == [role |-> "assistant", calls |-> ids, long |-> FALSE]
Results(ids) == [role |-> "tool", calls |-> ids, long |-> FALSE]

Tell(kind, id) == Append(events, [kind |-> kind, call |-> id])
Told(kind) == {e.call : e \in {d \in ToSet(events) : d.kind = kind}}

Init ==
  /\ place = "recv"
  /\ inbox = <<>>
  /\ sent = 0
  /\ cancelled = FALSE
  /\ turns = 0
  /\ history = <<>>
  /\ stored = <<>>
  /\ text = FALSE
  /\ started = 0
  /\ calls = <<>>
  /\ uses = <<>>
  /\ failed = FALSE
  /\ status = "working"
  /\ row = "working"
  /\ events = <<>>
  /\ executed = {}
  /\ lost = 0

-------------------------------------------------------------------------------
(* The environment. *)

\* A message is put into the inbox, whose receiver lives until the end.
Send ==
  /\ sent < MaxSent
  /\ place # "dead"
  /\ sent' = sent + 1
  /\ \E long \in {FALSE, Long} :
       inbox' = Append(inbox, [long |-> long,
                               turn |-> IF place \in {"recv", "top"} THEN turns + 1 ELSE turns])
  /\ UNCHANGED <<place, cancelled, turns, history, stored, lost, turnVars, endVars,
                 events, executed>>

\* AgentInterrupt, shutdown.
Cancel ==
  /\ ~cancelled
  /\ cancelled' = TRUE
  /\ UNCHANGED <<place, inbox, sent, turns, history, stored, lost, turnVars, endVars,
                 events, executed>>

-------------------------------------------------------------------------------
(* Messages. *)

\* SQLite fails; the caller goes on.
WriteFails ==
  /\ lost < MaxFails
  /\ lost' = lost + 1

\* insert_message, whose error is ignored, and the push into the history.
Push(m) ==
  /\ history' = Append(history, m)
  /\ \/ stored' = Append(stored, m) /\ UNCHANGED lost
     \/ WriteFails /\ UNCHANGED stored

\* upsert_agent, whose error is ignored.
Upsert(s) ==
  \/ row' = s /\ UNCHANGED lost
  \/ WriteFails /\ UNCHANGED row

\* The oldest message of the inbox joins the dialogue.
TakeUser ==
  /\ inbox # <<>>
  /\ Push(User(Head(inbox).long))
  /\ inbox' = Tail(inbox)

\* The estimate is above the limit.
TooLong(h) ==
  \/ Cardinality({i \in DOMAIN h : h[i].role # "marker"}) > Threshold
  \/ \E i \in DOMAIN h : h[i].long

\* compact: the first fifth and the last two fifths, a marker (a user message)
\* in place of what was between them.
Compact(h) ==
  LET n == Len(h)
      head == n \div 5
      tail == (n * 2) \div 5
  IN SubSeq(h, 1, head) \o <<Marker>> \o SubSeq(h, n - tail + 1, n)

-------------------------------------------------------------------------------
(* The loop. *)

\* inbox.recv().await: the token is not looked at.
RecvFirst ==
  /\ place = "recv"
  /\ place' = "top"
  /\ TakeUser
  /\ UNCHANGED <<sent, cancelled, turns, turnVars, endVars, events, executed>>

\* The receiver finds its senders gone: the entry that held the first of them was
\* dropped by a shutdown, which cancels the token.
RecvClosed ==
  /\ place = "recv"
  /\ cancelled
  /\ inbox = <<>>
  /\ place' = "top"
  /\ UNCHANGED <<inbox, sent, cancelled, turns, history, stored, lost, turnVars,
                 endVars, events, executed>>

\* The top of the loop finds the token cancelled.
StopCancelled ==
  /\ place = "top"
  /\ cancelled
  /\ place' = "finishing"
  /\ UNCHANGED <<inbox, sent, cancelled, turns, history, stored, lost, turnVars, endVars,
                 events, executed>>

\* One turn too many.
StopAtLimit ==
  /\ place = "top"
  /\ ~cancelled
  /\ turns >= MaxTurns
  /\ turns' = turns + 1
  /\ place' = "finishing"
  /\ events' = Append(events, [kind |-> "error"])
  /\ UNCHANGED <<inbox, sent, cancelled, history, stored, lost, turnVars, endVars,
                 executed>>

\* A turn begins: the history, compacted if need be, is sent to the model.
Ask ==
  /\ place = "top"
  /\ ~cancelled
  /\ turns < MaxTurns
  /\ turns' = turns + 1
  /\ history' = IF TooLong(history) THEN Compact(history) ELSE history
  /\ text' = FALSE
  /\ calls' = <<>>
  /\ uses' = <<>>
  /\ place' = "stream"
  /\ UNCHANGED <<inbox, sent, cancelled, stored, lost, started, endVars, events, executed>>

\* A chunk of the stream while the token is not cancelled: text ...
ChunkText ==
  /\ place = "stream"
  /\ ~cancelled
  /\ text' = TRUE
  /\ UNCHANGED <<place, inbox, sent, cancelled, turns, history, stored, lost, started,
                 calls, uses, endVars, events, executed>>

\* ... or a complete tool call, at once told to the clients.
ChunkCall ==
  /\ place = "stream"
  /\ ~cancelled
  /\ Len(calls) < MaxCalls
  /\ started' = started + 1
  /\ calls' = Append(calls, started + 1)
  /\ events' = Tell("start", started + 1)
  /\ UNCHANGED <<place, inbox, sent, cancelled, turns, history, stored, lost, text, uses,
                 endVars, executed>>

\* ChunkError that returns from run_agent at once.
ChunkErrorReturns ==
  /\ place = "stream"
  /\ ~cancelled
  /\ failed' = TRUE
  /\ place' = "dead"
  /\ UNCHANGED <<inbox, sent, cancelled, turns, history, stored, lost, turnVars, status,
                 row, events, executed>>

\* A chunk that is an error (chunk?): the loop is left with it.
ChunkError ==
  /\ place = "stream"
  /\ ~cancelled
  /\ failed' = TRUE
  /\ place' = "finishing"
  /\ UNCHANGED <<inbox, sent, cancelled, turns, history, stored, lost, turnVars, status,
                 row, events, executed>>

\* Any chunk when the token is cancelled: the loop is left, the turn dropped.
ChunkCancelled ==
  /\ place = "stream"
  /\ cancelled
  /\ place' = "finishing"
  /\ UNCHANGED <<inbox, sent, cancelled, turns, history, stored, lost, turnVars, endVars,
                 events, executed>>

\* Done, or (whether or not the token is cancelled) the end of the stream: the
\* text becomes a message.
StreamEnds ==
  /\ place = "stream"
  /\ place' = "tools"
  /\ IF text THEN Push(Text) ELSE UNCHANGED <<history, stored, lost>>
  /\ UNCHANGED <<inbox, sent, cancelled, turns, turnVars, endVars, events, executed>>

-------------------------------------------------------------------------------
(* The tool calls, one after the other; the token is not looked at. *)

\* The rest of a call: its blocks, ToolCallEnd, the agent's row.
EndCall(id) ==
  /\ calls' = Tail(calls)
  /\ uses' = Append(uses, id)
  /\ events' = Tell("end", id)
  /\ place' = "tools"
  /\ Upsert("working")
  /\ UNCHANGED <<inbox, sent, cancelled, turns, history, stored, text, started,
                 failed, status>>

\* tools.run returns: an output (an error of the tool is an output too) ...
RunTool ==
  /\ place = "running"
  /\ EndCall(Head(calls))
  /\ executed' = executed \cup {Head(calls)}

\* ... or no such tool: the error leaves the loop, and with it the turn.
NoSuchTool ==
  /\ place = "running"
  /\ failed' = TRUE
  /\ place' = "finishing"
  /\ UNCHANGED <<inbox, sent, cancelled, turns, history, stored, lost, turnVars, status,
                 row, events, executed>>

\* Decision::Deny.
DenyCall ==
  /\ place = "tools"
  /\ calls # <<>>
  /\ EndCall(Head(calls))
  /\ UNCHANGED executed

\* Decision::Allow.
AllowCall ==
  /\ place = "tools"
  /\ calls # <<>>
  /\ place' = "running"
  /\ UNCHANGED <<inbox, sent, cancelled, turns, history, stored, lost, turnVars,
                 endVars, events, executed>>

\* Decision::Ask: the user is asked, the agent waits (see PendingAnswers).
AskUser ==
  /\ place = "tools"
  /\ calls # <<>>
  /\ place' = "asking"
  /\ UNCHANGED <<inbox, sent, cancelled, turns, history, stored, lost, turnVars, endVars,
                 events, executed>>

\* Allowed by the user.
Allowed ==
  /\ place = "asking"
  /\ place' = "running"
  /\ UNCHANGED <<inbox, sent, cancelled, turns, history, stored, lost, turnVars,
                 endVars, events, executed>>

\* Refused by the user, or 60 s are over.
Refused ==
  /\ place = "asking"
  /\ EndCall(Head(calls))
  /\ UNCHANGED executed

\* PushUses that gives the turn up when the token is cancelled.
PushUsesUnlessCancelled ==
  /\ place = "tools"
  /\ calls = <<>>
  /\ \/ /\ uses = <<>> \/ cancelled
        /\ place' = "finishing"
        /\ UNCHANGED <<history, stored, lost>>
     \/ /\ uses # <<>> /\ ~cancelled
        /\ place' = "results"
        /\ Push(Uses(uses))
  /\ UNCHANGED <<inbox, sent, cancelled, turns, turnVars, endVars, events, executed>>

\* The assistant's message with the calls of the turn; without calls the turn
\* was the last one.
PushUses ==
  /\ place = "tools"
  /\ calls = <<>>
  /\ \/ /\ uses = <<>>
        /\ place' = "finishing"
        /\ UNCHANGED <<history, stored, lost>>
     \/ /\ uses # <<>>
        /\ place' = "results"
        /\ Push(Uses(uses))
  /\ UNCHANGED <<inbox, sent, cancelled, turns, turnVars, endVars, events, executed>>

\* PushResults that drains the inbox first: users' messages come in between.
PushResultsLate ==
  /\ place = "results"
  /\ \/ /\ inbox = <<>>
        /\ Push(Results(uses))
        /\ place' = "drain"
        /\ UNCHANGED inbox
     \/ /\ TakeUser
        /\ UNCHANGED place
  /\ UNCHANGED <<sent, cancelled, turns, turnVars, endVars, events, executed>>

\* The message with their results.
PushResults ==
  /\ place = "results"
  /\ place' = "drain"
  /\ Push(Results(uses))
  /\ UNCHANGED <<inbox, sent, cancelled, turns, turnVars, endVars, events, executed>>

\* Steering: the messages that came meanwhile.
Drain ==
  /\ place = "drain"
  /\ TakeUser
  /\ UNCHANGED <<place, sent, cancelled, turns, turnVars, endVars, events, executed>>

\* DrainDone after whatever number of messages (if let for while let).
DrainDoneEarly ==
  /\ place = "drain"
  /\ place' = "top"
  /\ UNCHANGED <<inbox, sent, cancelled, turns, history, stored, lost, turnVars, endVars,
                 events, executed>>

\* No message is left: the next turn.
DrainDone ==
  /\ place = "drain"
  /\ inbox = <<>>
  /\ place' = "top"
  /\ UNCHANGED <<inbox, sent, cancelled, turns, history, stored, lost, turnVars, endVars,
                 events, executed>>

-------------------------------------------------------------------------------
(* The end. *)

\* How the loop ended.
Outcome == IF cancelled THEN "interrupted" ELSE IF failed THEN "failed" ELSE "done"

\* The status is chosen, an error told.
Finish ==
  /\ place = "finishing"
  /\ place' = "ending"
  /\ status' = Outcome
  /\ events' = IF failed THEN Append(events, [kind |-> "error"]) ELSE events
  /\ UNCHANGED <<inbox, sent, cancelled, turns, history, stored, lost, turnVars, failed,
                 row, executed>>

\* It is written to the row, then AgentFinished is told.
Exit ==
  /\ place = "ending"
  /\ place' = "dead"
  /\ Upsert(status)
  /\ events' = Append(events, [kind |-> "finished"])
  /\ UNCHANGED <<inbox, sent, cancelled, turns, history, stored, turnVars, failed,
                 status, executed>>

-------------------------------------------------------------------------------
Step ==
  \/ RecvFirst \/ RecvClosed \/ StopCancelled \/ StopAtLimit \/ Ask
  \/ ChunkText \/ ChunkCall \/ ChunkError \/ ChunkCancelled \/ StreamEnds
  \/ DenyCall \/ AllowCall \/ AskUser \/ Allowed \/ Refused \/ RunTool \/ NoSuchTool
  \/ PushUses \/ PushResults \/ Drain \/ DrainDone \/ Finish \/ Exit

Next == Send \/ Cancel \/ Step

Spec == Init /\ [][Next]_vars

\* The task is scheduled; its provider answers or fails (300 s at most), and the
\* wait for a user ends (60 s).  A tool that runs may run for ever: shell reads
\* timeout_secs and does nothing with it.
FairSpec ==
  /\ Spec
  /\ WF_vars(Step /\ place # "running")

-------------------------------------------------------------------------------
(* Properties. *)

TypeOK ==
  /\ place \in Place
  /\ inbox \in Seq(Waiting)
  /\ sent \in 0 .. MaxSent
  /\ cancelled \in BOOLEAN
  /\ turns \in 0 .. (MaxTurns + 1)
  /\ history \in Seq(Message)
  /\ stored \in Seq(Message)
  /\ text \in BOOLEAN
  /\ started \in Nat
  /\ calls \in Seq(Call)
  /\ uses \in Seq(Call)
  /\ failed \in BOOLEAN
  /\ status \in {"working", "done", "failed", "interrupted"}
  /\ row \in {"working", "done", "failed", "interrupted"}
  /\ events \in Seq(Event)
  /\ executed \subseteq Call
  /\ lost \in 0 .. MaxFails

\* The history is the request the model is answering.
Asking == place = "stream"

HasUses(m) == m.role = "assistant" /\ m.calls # <<>>
HasResults(m) == m.role = "tool"

\* The results at place i follow their calls; the calls at i precede their
\* results.
Follows(h, i) == i > 1 /\ HasUses(h[i - 1]) /\ h[i - 1].calls = h[i].calls
Precedes(h, i) == i < Len(h) /\ HasResults(h[i + 1]) /\ h[i + 1].calls = h[i].calls

\* Providers refuse a request in which tool results do not follow their calls,
\* or calls are not followed by their results.
PairsBreakOnlyAtMarker ==
  \A i \in DOMAIN history :
    /\ HasResults(history[i]) =>
         \/ Follows(history, i)
         \/ i > 1 /\ history[i - 1].role = "marker"
    /\ HasUses(history[i]) =>
         \/ Precedes(history, i)
         \/ i < Len(history) /\ history[i + 1].role = "marker"

\* The model is asked to go on after a user or after results, never after itself
\* ("Маркер сжатия как user-сообщение (не ломает чередование ролей)").
TurnsAlternate ==
  /\ history # <<>>
  /\ history[1].role \in {"user", "marker"}
  /\ history[Len(history)].role \in {"user", "marker", "tool"}

\* Whatever comes into the inbox and however the calls are decided, every request
\* is one a provider takes, but for what the compaction has cut at its marker
\* (PairsAreKept): nothing else parts the calls of a turn from their results.
RequestIsAnswerable == Asking => TurnsAlternate /\ PairsBreakOnlyAtMarker

\* "Сохраняет парность tool_use/tool_result: режет по границам сообщений" (compact.rs
\* 31).  It does not: a message with calls and the one with their results are two, and
\* the count of messages to keep may fall between them.
PairsAreKept ==
  Asking => \A i \in DOMAIN history :
    /\ HasResults(history[i]) => Follows(history, i)
    /\ HasUses(history[i]) => Precedes(history, i)

\* A tool that has run is in the dialogue with its result when the task has
\* ended, cancelled or not, unless an error (no such tool) has left the loop:
\* its effects would be unknown to whoever resumes the session.
ExecutedIsRecorded ==
  (place = "dead" /\ ~failed /\ lost = 0) =>
    \A id \in executed : \E i \in DOMAIN stored :
      HasResults(stored[i]) /\ id \in ToSet(stored[i].calls)

\* FR-074 ("несколько сообщений, отправленных во время работы, обрабатываются
\* последовательно", docs/specs/2026-08-03-vpsagent.md 234): a task that ends of itself
\* has answered every message it was sent.  What comes during its last turn, it has not.
MessagesAreProcessed == place = "dead" /\ status = "done" => inbox = <<>>

\* What of FR-074 the code does: a message that was accepted is read before another turn
\* than the one under way begins (than the next one, if none is), however many came
\* before it and whatever is decided about the calls; and one that has left the inbox is
\* in the stored dialogue.  So MessagesAreProcessed is broken by nothing but a message
\* that comes once the last turn has begun.
MessagesAreTaken ==
  /\ \A i \in DOMAIN inbox : turns <= inbox[i].turn
  /\ lost = 0 =>
       Cardinality({i \in DOMAIN stored : stored[i].role = "user"}) + Len(inbox) = sent

\* C11, "финализация статуса выполняется на ЛЮБОМ выходе": a task that has its
\* first message ends with AgentFinished, and by then the row says how.  The one
\* thing that may keep it is a tool that does not return, cancelled or not.  A
\* client that shows running calls has then been told of the end of each, if the
\* agent is done.
Ended ==
  /\ events # <<>> /\ events[Len(events)].kind = "finished"
  /\ lost > 0 \/ row \in {"done", "failed", "interrupted"}
  /\ status = "done" => Told("start") = Told("end")
EndIsTold == place = "top" ~> (Ended \/ [](place = "running"))
===============================================================================
