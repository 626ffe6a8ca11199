---------------------------- MODULE AgentRequests -----------------------------
(***************************************************************************)
(* The agent loop and the request it makes of its dialogue with each of    *)
(* the providers (RequestBody): what the APIs are asked to accept.         *)
(***************************************************************************)
EXTENDS AgentLoop, RequestBody

\* new_message of the loop: a text, the calls of a turn or their results.
Blocks(m) ==
  IF m.calls = <<>> THEN <<TextBlock>>
  ELSE [i \in DOMAIN m.calls |->
          [type |-> IF m.role = "tool" THEN "result" ELSE "use", id |-> m.calls[i]]]
Dialogue == [i \in DOMAIN history |->
  [role |-> IF history[i].role = "marker" THEN "user" ELSE history[i].role,
   blocks |-> Blocks(history[i])]]

\* Results may come under any role, calls from the assistant alone.
RoleFits(message) ==
  \/ message.role = "assistant" /\ ~Carries(message, "result")
  \/ message.role = "user" /\ ~Carries(message, "use")
  \/ Carries(message, "result")

\* With every provider the request has each block of the dialogue once, in order,
\* and none of them under another's role.
EveryBlockOnce ==
  LET all == FlattenSeq([i \in DOMAIN Dialogue |-> Dialogue[i].blocks])
      bodies == {Tail(OpenaiBody(Dialogue)), AnthropicBody(Dialogue),
                 ResponsesBody(Dialogue)}
  IN \A body \in bodies :
       Carried(body) = all /\ \A i \in DOMAIN body : RoleFits(body[i])

\* "ToolResult-блоки одного tool-шага объединяем в один user (требование
\* Anthropic)": the calls of a turn are followed by one message with all of their
\* results and nothing else, unless the compaction has cut between them.
AnthropicResultsTogether ==
  LET body == AnthropicBody(Dialogue) IN
  \A i \in DOMAIN body : Carries(body[i], "use") =>
    /\ i < Len(body)
    /\ \/ /\ Len(body[i + 1].blocks) = Len(body[i].blocks)
          /\ \A j \in DOMAIN body[i].blocks :
               body[i + 1].blocks[j] = [type |-> "result", id |-> body[i].blocks[j].id]
       \/ history[i + 1].role = "marker"

\* C6: whatever has happened to the dialogue, each provider is told all of it, in
\* the form it asks for.
RequestCarriesDialogue == Asking => EveryBlockOnce /\ AnthropicResultsTogether
===============================================================================
