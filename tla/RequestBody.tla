------------------------------ MODULE RequestBody ------------------------------
(***************************************************************************)
(* body of the three providers: the dialogue as the messages of a request  *)
(* (openai.rs, anthropic.rs, openai_responses.rs).  A message of the       *)
(* dialogue is its role and its blocks; a block is its type and, for a     *)
(* tool call and for a result, the id of the call.  A message of a request *)
(* is its role and what it carries.  The model, the tools, the limits and  *)
(* what the blocks say are left out.                                       *)
(***************************************************************************)
EXTENDS Naturals, Sequences, SequencesExt

\* The types are "text", "image", "use" and "result"; a text or an image has no id.
TextBlock == [type |-> "text", id |-> 0]
Request(role, blocks) == [role |-> role, blocks |-> blocks]
OneEach(role, blocks) == [i \in DOMAIN blocks |-> Request(role, <<blocks[i]>>)]

\* The blocks of a message that are of some types, in order.
BlocksOf(m, types) ==
  LET taken[i \in 0 .. Len(m.blocks)] ==
        IF i = 0 THEN <<>>
        ELSE IF m.blocks[i].type \in types THEN Append(taken[i - 1], m.blocks[i])
        ELSE taken[i - 1]
  IN  taken[Len(m.blocks)]

\* The texts and images of a user's message; an empty text if there are none.
UserContent(m) ==
  LET content == BlocksOf(m, {"text", "image"}) IN
  IF content = <<>> THEN <<TextBlock>> ELSE content

\* OpenaiMessages with one message for all the results of a step.
OpenaiMessagesFirst(m) ==
  IF m.role = "user" THEN <<Request("user", UserContent(m))>>
  ELSE IF m.role = "assistant" THEN <<Request("assistant", BlocksOf(m, {"text", "use"}))>>
  ELSE <<Request("tool", <<BlocksOf(m, {"result"})[1]>>)>>

\* The messages one message of the dialogue becomes: a user's message with its
\* content, an assistant's with its text first and then its calls, and one
\* message for each result.
OpenaiMessages(m) ==
  IF m.role = "user" THEN <<Request("user", UserContent(m))>>
  ELSE IF m.role = "assistant" THEN
    LET texts  == BlocksOf(m, {"text"})
        spoken == IF texts = <<>> THEN <<>> ELSE <<TextBlock>>
    IN  <<Request("assistant", spoken \o BlocksOf(m, {"use"}))>>
  ELSE OneEach("tool", BlocksOf(m, {"result"}))

OpenaiBody(h) ==
  <<Request("system", <<TextBlock>>)>>
    \o FlattenSeq([i \in DOMAIN h |-> OpenaiMessages(h[i])])

\* AnthropicMessages with a message for each result.
AnthropicMessagesSplit(m) ==
  IF m.role = "user" THEN <<Request("user", UserContent(m))>>
  ELSE IF m.role = "assistant" THEN <<Request("assistant", BlocksOf(m, {"text", "use"}))>>
  ELSE OneEach("user", BlocksOf(m, {"result"}))

\* The results of a step are one message of the user.
AnthropicMessages(m) ==
  IF m.role = "user" THEN <<Request("user", UserContent(m))>>
  ELSE IF m.role = "assistant" THEN <<Request("assistant", BlocksOf(m, {"text", "use"}))>>
  ELSE LET results == BlocksOf(m, {"result"})
       IN  IF results = <<>> THEN <<>> ELSE <<Request("user", results)>>

AnthropicBody(h) == FlattenSeq([i \in DOMAIN h |-> AnthropicMessages(h[i])])

\* Every block is an item of its own; a result has no role.
ResponsesItems(m) ==
  IF m.role = "user" THEN OneEach("user", BlocksOf(m, {"text", "image"}))
  ELSE IF m.role = "assistant" THEN OneEach("assistant", BlocksOf(m, {"text", "use"}))
  ELSE OneEach("none", BlocksOf(m, {"result"}))

ResponsesBody(h) == FlattenSeq([i \in DOMAIN h |-> ResponsesItems(h[i])])

-------------------------------------------------------------------------------
Carried(body) == FlattenSeq([i \in DOMAIN body |-> body[i].blocks])
Carries(message, type) == message.blocks # <<>> /\ \A i \in DOMAIN message.blocks :
  message.blocks[i].type = type
===============================================================================
