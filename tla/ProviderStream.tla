---------------------------- MODULE ProviderStream ----------------------------
(***************************************************************************)
(* Provider::stream of the three providers (crates/providers/src: openai,  *)
(* anthropic and openai_responses): a request is sent, with retries, and   *)
(* the server-sent events of the response are turned into chunks for the   *)
(* agent loop.  The server is the environment: it streams a text and tool  *)
(* calls in the grammar of its API, an event may arrive broken, and the    *)
(* connection may fail or close at any moment.                             *)
(*                                                                         *)
(* The arguments of a call come in two parts; whatever is buffered parses  *)
(* only if it is exactly the two parts of one call, and is Null otherwise. *)
(* Texts and thoughts are one kind of chunk.  Token counts are the number  *)
(* of times the server has counted.                                        *)
(***************************************************************************)
EXTENDS Naturals, Sequences, FiniteSets

CONSTANTS
  MaxAttempts,  \* MAX_ATTEMPTS (4 in the code)
  MaxCalls,     \* bound: tool calls of a response
  MaxSays,      \* bound: deltas of text or thought of a response
  MaxCounts,    \* bound: counts of tokens in a response
  MaxBroken     \* bound: events that arrive broken

ASSUME BoundAssumption ==
  {MaxAttempts, MaxCalls, MaxSays, MaxCounts, MaxBroken} \subseteq Nat

VARIABLES
  kind,      \* which of the three providers
  fits,      \* whether the server's events have the form that the client reads: each
             \* part of a call has an index (openai); a block starts in the field
             \* "block" and an error is a string (anthropic; in Anthropic's own API
             \* the field is content_block and the error an object)
  place,     \* where the stream stands
  attempt,   \* attempt
  server,    \* what the server has sent in the current response, and (ghost)
             \* whether chunks of an earlier response were given out: 2
  broken,    \* how many events arrived broken
  yielded,   \* yielded_any
  acc,       \* tool_acc, args_by_item: what is buffered for each call
  current,   \* current_tool_id and current_tool_input (anthropic)
  usage,     \* usage (anthropic)
  out,       \* the chunks given to the agent loop
  result     \* how the stream has ended

readVars == <<yielded, acc, current, usage>>
vars == <<kind, fits, place, attempt, server, broken, readVars, out, result>>

Call == 1 .. MaxCalls
NoCall == 0
Part == Call \X (1 .. 2)
Whole(c) == << <<c, 1>>, <<c, 2>> >>

\* serde_json::from_str(&args).unwrap_or(Value::Null): whose arguments these are.
Parsed(args) ==
  IF \E c \in Call : args = Whole(c) THEN CHOOSE c \in Call : args = Whole(c)
                                     ELSE NoCall

Empty == [open |-> FALSE, id |-> NoCall, args |-> <<>>]
Silent == [response |-> 0, says |-> 0, counts |-> 0, ended |-> FALSE,
           finished |-> FALSE, step |-> [c \in Call |-> 0]]

Chunk(type) == [type |-> type, response |-> server.response,
                id |-> NoCall, input |-> NoCall, count |-> 0]
Say == Chunk("say")
ToolCall(id, args) == [Chunk("call") EXCEPT !.id = id, !.input = Parsed(args)]
Count(n) == [Chunk("usage") EXCEPT !.count = n]

Init ==
  /\ kind \in {"openai", "anthropic", "responses"}
  /\ fits \in BOOLEAN /\ (kind = "responses" => fits)
  /\ place = "send"
  /\ attempt = 0
  /\ server = Silent
  /\ broken = 0
  /\ yielded = FALSE
  /\ acc = [c \in Call |-> Empty]
  /\ current = Empty
  /\ usage = 0
  /\ out = <<>>
  /\ result = "open"

-------------------------------------------------------------------------------
(* The request. *)

\* send succeeds: a response begins, with empty buffers.
SendOk ==
  /\ place = "send"
  /\ place' = "read"
  /\ server' = [Silent EXCEPT !.response = IF out = <<>> THEN 1 ELSE 2]
  /\ yielded' = FALSE
  /\ acc' = [c \in Call |-> Empty]
  /\ current' = Empty
  /\ usage' = 0
  /\ UNCHANGED <<kind, fits, attempt, broken, out, result>>

End(how) == place' = "end" /\ result' = how

\* An error while attempts are left is counted and waited out.
CountAttempt(next) ==
  /\ attempt + 1 < MaxAttempts
  /\ attempt' = attempt + 1
  /\ place' = next
  /\ UNCHANGED result

GiveUp ==
  /\ attempt + 1 >= MaxAttempts
  /\ End("error")
  /\ UNCHANGED attempt

\* The request fails or is answered with an HTTP error: retried, or given up.
SendFails ==
  /\ place = "send"
  /\ CountAttempt("send") \/ GiveUp
  /\ UNCHANGED <<kind, fits, server, broken, readVars, out>>

-------------------------------------------------------------------------------
(* The server.  step[c] is how far call c is: 1 begun, 2 and 3 with its first *)
(* and second part sent, 4 complete.  Every response is eventually over: the  *)
(* client of the provider has a timeout (300 s) for the whole of it.          *)

Type == {"say", "begin", "count", "start", "part", "stop", "finish", "end", "fail"}
Event == [type : Type, call : Call \cup {NoCall}, full : BOOLEAN]

Step(e) == IF e.call = NoCall THEN 4 ELSE server.step[e.call]
Due(e) == \A c \in Call : c < e.call => server.step[c] > 0
AllAt(steps) == \A c \in Call : server.step[c] \in steps
PartOf(e) == <<e.call, IF Step(e) < 2 THEN 1 ELSE 2>>
MaySay == server.says < MaxSays
MayCount == server.counts < MaxCounts

\* Deltas with text, with the ids of calls and with their parts, in any order;
\* finish_reason; a usage; [DONE].
OpenaiSends(e) ==
  /\ ~e.full
  /\ IF server.finished
     THEN \/ e.type = "count" /\ MayCount
          \/ e.type = "end"
     ELSE \/ e.type = "say" /\ MaySay
          \/ e.type = "start" /\ Due(e) /\ Step(e) = 0
          \/ e.type = "part" /\ Due(e) /\ Step(e) \in {0, 1, 2}
          \/ e.type = "finish" /\ AllAt({0, 3})

\* Counts at the start; blocks one after the other, each with start, parts and
\* stop; cumulative counts; message_stop, or an error.
AnthropicSends(e) ==
  /\ ~e.full
  /\ \/ e.type = "begin" /\ server.counts = 0 /\ server.says = 0 /\ AllAt({0}) /\ MayCount
     \/ e.type = "say" /\ MaySay
     \/ e.type = "start" /\ Due(e) /\ Step(e) = 0 /\ AllAt({0, 4})
     \/ e.type = "part" /\ Step(e) \in {1, 2}
     \/ e.type = "stop" /\ Step(e) = 3
     \/ e.type = "count" /\ MayCount
     \/ e.type = "end" /\ AllAt({0, 4})
     \/ e.type = "fail"

\* Deltas of text and of arguments; a finished call with its whole arguments or
\* with none; the completed response with its usage or without, or an error.
ResponsesSends(e) ==
  \/ e.type = "say" /\ MaySay /\ ~e.full
  \/ e.type = "part" /\ Due(e) /\ Step(e) \in {0, 2} /\ ~e.full
  \/ e.type = "stop" /\ Step(e) = 3
  \/ e.type = "end" /\ AllAt({0, 4}) /\ (e.full => MayCount)
  \/ e.type = "fail" /\ ~e.full

\* The server sends e as its next event.
Sent(e) ==
  /\ place = "read" /\ ~server.ended
  /\ (e.type \in {"start", "part", "stop"}) <=> (e.call \in Call)
  /\ kind = "openai" => OpenaiSends(e)
  /\ kind = "anthropic" => AnthropicSends(e)
  /\ kind = "responses" => ResponsesSends(e)
  /\ server' = [server EXCEPT
       !.says = IF e.type = "say" THEN @ + 1 ELSE @,
       !.counts = IF e.type \in {"begin", "count"} \/ (e.type = "end" /\ e.full)
                  THEN @ + 1 ELSE @,
       !.finished = @ \/ e.type = "finish",
       !.ended = e.type \in {"end", "fail"},
       !.step = [c \in Call |->
          IF c # e.call THEN @[c]
          ELSE IF e.type = "start" THEN 1
          ELSE IF e.type = "part" THEN PartOf(e)[2] + 1 ELSE 4]]
  /\ UNCHANGED <<kind, fits, attempt>>

\* An event arrives broken and is skipped.
SkipBroken ==
  /\ broken < MaxBroken
  /\ broken' = broken + 1
  /\ \E e \in Event : Sent(e)
  /\ UNCHANGED <<place, readVars, out, result>>

Arrives(e) == Sent(e) /\ UNCHANGED broken
Goes == UNCHANGED <<place, result>>
Yield(chunks) == out' = out \o chunks /\ yielded' = TRUE

\* A delta of text or of thought, of any provider.
Delta(e) ==
  /\ e.type = "say" /\ Arrives(e)
  /\ Yield(<<Say>>)
  /\ Goes /\ UNCHANGED <<acc, current, usage>>

-------------------------------------------------------------------------------
(* openai.rs. *)

\* tc.index.unwrap_or(0): all calls without an index have the first place.
Slot(c) == IF fits THEN c ELSE 1

\* Delta of a call: the first one brings the id and the name.
OpenaiPart(e) ==
  /\ e.type \in {"start", "part"} /\ Arrives(e)
  /\ acc' = [acc EXCEPT ![Slot(e.call)] =
       [open |-> TRUE,
        id   |-> IF Step(e) = 0 THEN e.call ELSE @.id,
        args |-> IF e.type = "part" THEN Append(@.args, PartOf(e)) ELSE @.args]]
  /\ Goes /\ UNCHANGED <<yielded, current, usage, out>>

\* The calls in the buffer, in the order of their places in it.
Drained ==
  LET drained[n \in 0 .. MaxCalls] ==
        IF n = 0 THEN <<>>
        ELSE IF acc[n].open THEN Append(drained[n - 1], ToolCall(acc[n].id, acc[n].args))
        ELSE drained[n - 1]
  IN drained[MaxCalls]
Drain == acc' = [c \in Call |-> Empty]

\* OpenaiFinish that leaves the calls in the buffer.
OpenaiFinishKeeping(e) ==
  /\ e.type = "finish" /\ Arrives(e)
  /\ out' = out \o Drained
  /\ Goes /\ UNCHANGED <<acc, yielded, current, usage>>

\* finish_reason: the buffered calls are given out, yielded_any is not raised.
OpenaiFinish(e) ==
  /\ e.type = "finish" /\ Arrives(e)
  /\ out' = out \o Drained
  /\ Drain
  /\ Goes /\ UNCHANGED <<yielded, current, usage>>

OpenaiUsage(e) ==
  /\ e.type = "count" /\ Arrives(e)
  /\ Yield(<<Count(server'.counts)>>)
  /\ Goes /\ UNCHANGED <<acc, current, usage>>

\* [DONE].
OpenaiDone(e) ==
  /\ e.type = "end" /\ Arrives(e)
  /\ out' = out \o Drained \o <<Chunk("done")>>
  /\ Drain
  /\ End("done")
  /\ UNCHANGED <<yielded, current, usage>>

\* The response has ended without [DONE], or has failed before the first chunk.
OpenaiAfterLoop ==
  /\ kind = "openai" /\ place = "after"
  /\ out' = out \o Drained \o <<Chunk("done")>>
  /\ Drain
  /\ End("done")
  /\ UNCHANGED <<kind, fits, attempt, server, broken, yielded, current, usage>>

OpenaiRead(e) ==
  /\ kind = "openai"
  /\ Delta(e) \/ OpenaiPart(e) \/ OpenaiFinish(e) \/ OpenaiUsage(e) \/ OpenaiDone(e)

-------------------------------------------------------------------------------
(* anthropic.rs. *)

\* message_start: the counts are taken, nothing is given out.
AnthropicStart(e) ==
  /\ e.type = "begin" /\ Arrives(e)
  /\ usage' = server'.counts
  /\ Goes /\ UNCHANGED <<yielded, acc, current, out>>

AnthropicBlockStart(e) ==
  /\ fits
  /\ e.type = "start" /\ Arrives(e)
  /\ current' = [open |-> TRUE, id |-> e.call, args |-> <<>>]
  /\ Goes /\ UNCHANGED <<yielded, acc, usage, out>>

\* An event of another form than AnthropicEvent's is logged and passed over.
AnthropicUnread(e) ==
  /\ ~fits
  /\ e.type \in {"start", "fail"} /\ Arrives(e)
  /\ Goes /\ UNCHANGED <<readVars, out>>

AnthropicPart(e) ==
  /\ e.type = "part" /\ Arrives(e)
  /\ current' = [current EXCEPT !.args = Append(@, PartOf(e))]
  /\ Goes /\ UNCHANGED <<yielded, acc, usage, out>>

\* The call is given out, unless its start never came.
AnthropicBlockStop(e) ==
  /\ e.type = "stop" /\ Arrives(e)
  /\ IF current.open
     THEN /\ Yield(<<ToolCall(current.id, current.args)>>)
          /\ current' = Empty
     ELSE UNCHANGED <<yielded, current, out>>
  /\ Goes /\ UNCHANGED <<acc, usage>>

\* C9: the counts are cumulative and replace the former ones.
AnthropicUsage(e) ==
  /\ e.type = "count" /\ Arrives(e)
  /\ usage' = server'.counts
  /\ Yield(<<Count(usage')>>)
  /\ Goes /\ UNCHANGED <<acc, current>>

AnthropicDone(e) ==
  /\ e.type = "end" /\ Arrives(e)
  /\ out' = Append(out, Chunk("done"))
  /\ End("done")
  /\ UNCHANGED readVars

AnthropicRead(e) ==
  /\ kind = "anthropic"
  /\ \/ Delta(e) \/ AnthropicStart(e) \/ AnthropicBlockStart(e) \/ AnthropicPart(e)
     \/ AnthropicBlockStop(e) \/ AnthropicUsage(e) \/ AnthropicDone(e)
     \/ AnthropicUnread(e)

-------------------------------------------------------------------------------
(* openai_responses.rs. *)

ResponsesPart(e) ==
  /\ e.type = "part" /\ Arrives(e)
  /\ acc' = [acc EXCEPT ![e.call].args = Append(@, PartOf(e))]
  /\ Goes /\ UNCHANGED <<yielded, current, usage, out>>

\* ResponsesItem that adds the whole arguments to those in the buffer.
ResponsesItemAppended(e) ==
  /\ e.type = "stop" /\ Arrives(e)
  /\ Yield(<<ToolCall(e.call, acc[e.call].args
               \o IF e.full THEN Whole(e.call) ELSE <<>>)>>)
  /\ acc' = [acc EXCEPT ![e.call] = Empty]
  /\ Goes /\ UNCHANGED <<current, usage>>

\* C8: a finished call has its whole arguments, or else those in the buffer.
ResponsesItem(e) ==
  /\ e.type = "stop" /\ Arrives(e)
  /\ Yield(<<ToolCall(e.call, IF e.full THEN Whole(e.call) ELSE acc[e.call].args)>>)
  /\ acc' = [acc EXCEPT ![e.call] = Empty]
  /\ Goes /\ UNCHANGED <<current, usage>>

ResponsesCompleted(e) ==
  /\ e.type = "end" /\ Arrives(e)
  /\ out' = out \o (IF e.full THEN <<Count(server'.counts)>> ELSE <<>>) \o <<Chunk("done")>>
  /\ End("done")
  /\ UNCHANGED readVars

ResponsesRead(e) ==
  /\ kind = "responses"
  /\ Delta(e) \/ ResponsesPart(e) \/ ResponsesItem(e) \/ ResponsesCompleted(e)

-------------------------------------------------------------------------------
(* Failures. *)

\* The server's error event ends the stream with an error.
ServerError(e) ==
  /\ fits
  /\ e.type = "fail" /\ Arrives(e)
  /\ End("error")
  /\ UNCHANGED <<readVars, out>>

\* The response ends without its marker.
Closed ==
  /\ place = "read"
  /\ place' = "after"
  /\ UNCHANGED <<kind, fits, attempt, server, broken, readVars, out, result>>

\* The connection fails after the first chunk: the stream ends as if complete.
ErrorLate ==
  /\ place = "read" /\ yielded
  /\ out' = Append(out, Chunk("done"))
  /\ End("done")
  /\ UNCHANGED <<kind, fits, attempt, server, broken, readVars>>

\* ErrorEarly that sends the request again.
ErrorEarlyRetried ==
  /\ place = "read" /\ ~yielded
  /\ CountAttempt("send") \/ GiveUp
  /\ UNCHANGED <<kind, fits, server, broken, readVars, out>>

\* The connection fails before the first chunk: counted as an attempt, but the
\* break only leaves the loop over the events.
ErrorEarly ==
  /\ place = "read" /\ ~yielded
  /\ CountAttempt("after") \/ GiveUp
  /\ UNCHANGED <<kind, fits, server, broken, readVars, out>>

\* AfterLoop that goes round the outer loop.
AfterLoopAgain ==
  /\ kind # "openai" /\ place = "after"
  /\ place' = "send"
  /\ UNCHANGED <<kind, fits, attempt, server, broken, readVars, out, result>>

\* The other two providers give nothing more when the loop is left.
AfterLoop ==
  /\ kind # "openai" /\ place = "after"
  /\ End("cut")
  /\ UNCHANGED <<kind, fits, attempt, server, broken, readVars, out>>

-------------------------------------------------------------------------------
Read == \E e \in Event :
  OpenaiRead(e) \/ AnthropicRead(e) \/ ResponsesRead(e) \/ ServerError(e)

Next ==
  \/ SendOk \/ SendFails
  \/ Read \/ SkipBroken
  \/ Closed \/ ErrorLate \/ ErrorEarly
  \/ OpenaiAfterLoop \/ AfterLoop

Spec == Init /\ [][Next]_vars
FairSpec == Spec /\ WF_vars(Next)

-------------------------------------------------------------------------------
(* Properties. *)

Buffer == [open : BOOLEAN, id : Call \cup {NoCall}, args : Seq(Part)]
Response ==
  [response : 0 .. 2, says : Nat, counts : Nat, ended : BOOLEAN, finished : BOOLEAN,
   step : [Call -> 0 .. 4]]
OutChunk ==
  [type : {"say", "call", "usage", "done"}, response : 1 .. 2,
   id : Call \cup {NoCall}, input : Call \cup {NoCall}, count : Nat]

TypeOK ==
  /\ kind \in {"openai", "anthropic", "responses"}
  /\ fits \in BOOLEAN
  /\ place \in {"send", "read", "after", "end"}
  /\ attempt \in Nat
  /\ server \in Response
  /\ broken \in 0 .. MaxBroken
  /\ yielded \in BOOLEAN
  /\ acc \in [Call -> Buffer]
  /\ current \in Buffer
  /\ usage \in Nat
  /\ out \in Seq(OutChunk)
  /\ result \in {"open", "done", "error", "cut"}

CallsOut == {i \in DOMAIN out : out[i].type = "call"}
SaysOut == {i \in DOMAIN out : out[i].type = "say"}
UsagesOut == {i \in DOMAIN out : out[i].type = "usage"}

\* C7: a request may be sent again, but what the agent loop gets is of one
\* response, and no call is in it twice: a tool would run twice.
OneResponse ==
  /\ \A i, j \in DOMAIN out : out[i].response = out[j].response
  /\ \A i, j \in CallsOut : i # j /\ out[i].id # NoCall => out[i].id # out[j].id

\* Several calls in the one place of those without an index.
Merged == kind = "openai" /\ ~fits /\ \E c \in Call : c # 1 /\ server.step[c] > 0

\* The calls begun reach the agent loop.
AllCallsOut == {out[i].id : i \in CallsOut} = {c \in Call : server.step[c] > 0}

\* C5, C8: a call carries its own arguments, whole, or Null; and Null only if an
\* event was broken or an OpenAI response ended in the middle of the call.  Broken
\* events leave an OpenAI call without its id; and Anthropic's client may give a call
\* the arguments of another one, if all that the server sends of the former after its
\* start and the start of the latter is broken.  Of calls that have no index nothing is
\* promised: they are merged.
ArgumentsAreOwn ==
  ~Merged => \A i \in CallsOut :
    \/ out[i].input = out[i].id /\ out[i].id # NoCall
    \/ /\ out[i].input = NoCall
       /\ broken > 0 \/ (kind = "openai" /\ ~server.finished)
    \/ kind = "openai" /\ out[i].id = NoCall /\ broken > 0
    \/ kind = "anthropic" /\ broken >= 4

\* Once the server has finished its calls, all of them reach the agent loop, in order
\* (as they were finished, with Responses), unless they are merged or, with Anthropic,
\* their starts cannot be read; and all of the text, whatever becomes of the connection
\* after.  C9: of a complete answer the last usage is what the server counted, unless it
\* counted at the start only.
NothingMissing ==
  (broken = 0 /\ result = "done" /\ (server.finished \/ server.ended)) =>
    /\ ~Merged /\ (kind = "anthropic" => fits) =>
         /\ AllCallsOut
         /\ kind # "responses" => \A i, j \in CallsOut : i < j => out[i].id < out[j].id
    /\ Cardinality(SaysOut) = server.says
    /\ server.ended =>
         \/ UsagesOut = {} /\ server.counts <= 1
         \/ \E i \in UsagesOut : /\ \A j \in UsagesOut : j <= i
                                /\ out[i].count = server.counts

\* The agent loop is never left waiting: whatever the server and the network do,
\* the stream ends.
StreamEnds == <>(place = "end")
===============================================================================
