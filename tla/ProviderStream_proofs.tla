-------------------------- MODULE ProviderStream_proofs -------------------------
(***************************************************************************)
(* Proofs about ProviderStream, for any number of calls, texts, counts,    *)
(* attempts and broken events.                                             *)
(***************************************************************************)
EXTENDS ProviderStream, FiniteSetTheorems, SequenceTheorems, Induction, TLAPS

\* What can have been kept of the two parts of a call, and what the parts are at a step.
Pieces(c) == {<<>>, << <<c, 1>> >>, << <<c, 2>> >>, Whole(c)}
Exact(c, n) == IF n = 2 THEN << <<c, 1>> >> ELSE IF n \in {3, 4} THEN Whole(c) ELSE <<>>

\* One response is ever begun, and nothing is given out before.
ResponseInv ==
  /\ place = "send" => out = <<>> /\ broken = 0 /\ result = "open" /\ server = Silent
  /\ place \in {"read", "after"} => server.response = 1 /\ result = "open"
  /\ \A i \in DOMAIN out : out[i].response = 1

\* The grammars: a call begins after those before it, and with Anthropic after they are
\* complete.
GrammarInv ==
  /\ \A c, d \in Call : c < d /\ server.step[d] > 0 =>
       server.step[c] > 0 /\ (kind = "anthropic" => server.step[c] = 4)
  /\ kind = "openai" =>
       /\ \A c \in Call : server.step[c] \in 0 .. 3
       /\ server.finished => AllAt({0, 3})
       /\ server.ended => server.finished
  /\ kind = "responses" => \A c \in Call : server.step[c] \in {0, 2, 3, 4}
  /\ kind # "openai" => ~server.finished
  /\ broken = 0 /\ server.ended /\ (kind = "anthropic" => fits) =>
       /\ place = "end"
       /\ result = "done" => kind = "openai" \/ AllAt({0, 4})

\* openai.rs: what is in the buffer is of its own call.
OpenaiBuffer(c) ==
  /\ acc[c].args \in Pieces(c) /\ acc[c].id \in {c, NoCall}
  /\ ~acc[c].open => acc[c].args = <<>> /\ acc[c].id = NoCall
  /\ acc[c].open /\ broken = 0 => acc[c].id = c
  /\ server.step[c] = 0 => ~acc[c].open
  /\ server.step[c] = 1 => acc[c].args = <<>>
  /\ server.step[c] = 2 => acc[c].args \in {<<>>, << <<c, 1>> >>}
  /\ broken = 0 /\ ~server.finished /\ place # "end" =>
       acc[c].args = Exact(c, server.step[c]) /\ (server.step[c] > 0 => acc[c].open)
  /\ broken = 0 /\ server.finished => ~acc[c].open

\* It is emptied once the calls are given out, after which no part comes; and all calls
\* without an index are in its first place, where what is said of each holds only while
\* there is one of them.
OpenaiInv ==
  kind = "openai" =>
    /\ CallsOut # {} => /\ server.finished \/ place = "end"
                        /\ \A c \in Call : ~acc[c].open
    /\ ~fits => \A c \in Call : c # 1 => ~acc[c].open
    /\ ~Merged => \A c \in Call : OpenaiBuffer(c)

\* anthropic.rs: the buffer is of a call that has begun and is not given out; while it is
\* empty, what should be in it was broken; and what is at its front is of its own call,
\* unless four events were broken.
AnthropicOpen ==
  /\ current.open <=> current.id # NoCall
  /\ current.open => fits /\ server.step[current.id] > 0
AnthropicOut ==
  \A i \in CallsOut :
    out[i].id \in Call /\ server.step[out[i].id] > 0 /\ out[i].id # current.id
AnthropicBroken ==
  /\ current.open /\ current.args = <<>> =>
       /\ broken + 1 >= server.step[current.id]
       /\ (\E c \in Call : c > current.id /\ server.step[c] > 0) => broken >= 4
  /\ current.open /\ current.args # <<>> => current.args[1][1] = current.id \/ broken >= 4
AnthropicWhole ==
  broken = 0 /\ fits =>
    /\ \A c \in Call : server.step[c] \in 1 .. 3 =>
         current.id = c /\ current.args = Exact(c, server.step[c])
    /\ current.open => server.step[current.id] \in 1 .. 3
AnthropicInv ==
  kind = "anthropic" => AnthropicOpen /\ AnthropicOut /\ AnthropicBroken /\ AnthropicWhole

\* openai_responses.rs: what is in the buffer is of its own call; a call is given out when it
\* is complete.
ResponsesBuffer(c) ==
  /\ acc[c].args \in Pieces(c)
  /\ server.step[c] = 0 => acc[c].args = <<>>
  /\ server.step[c] = 2 => acc[c].args \in {<<>>, << <<c, 1>> >>}
  /\ broken = 0 /\ server.step[c] < 4 => acc[c].args = Exact(c, server.step[c])
ResponsesInv ==
  kind = "responses" =>
    /\ \A c \in Call : ResponsesBuffer(c)
    /\ \A i \in CallsOut : out[i].id \in Call /\ server.step[out[i].id] = 4

\* The calls given out are those that were finished, in their order.
CallsInv ==
  broken = 0 /\ (kind = "openai" => server.finished /\ ~Merged) /\ (kind = "anthropic" => fits) =>
    /\ {out[i].id : i \in CallsOut} = {c \in Call : server.step[c] = IF kind = "openai" THEN 3 ELSE 4}
    /\ kind # "responses" => \A i, j \in CallsOut : i < j => out[i].id < out[j].id

\* No call is given out twice.
IdsInv == \A i, j \in CallsOut : i # j /\ out[i].id # NoCall => out[i].id # out[j].id

\* The texts and the last usage.
CountsInv ==
  broken = 0 =>
    /\ Cardinality(SaysOut) = server.says
    /\ server.counts = 0 => UsagesOut = {}
    /\ \/ UsagesOut = {} /\ server.counts <= 1
       \/ \E i \in UsagesOut : /\ \A j \in UsagesOut : j <= i
                               /\ out[i].count = server.counts

-------------------------------------------------------------------------------
(* What the helpers give. *)

\* A chunk is one of the agent loop's, once a response has begun.
LEMMA ChunkType ==
  ASSUME TypeOK, server.response \in 1 .. 2
  PROVE  /\ Say \in OutChunk /\ Chunk("done") \in OutChunk
         /\ \A id \in Call \cup {NoCall} : \A args : ToolCall(id, args) \in OutChunk
         /\ \A n \in Nat : Count(n) \in OutChunk
<1>1. \A type \in {"say", "call", "usage", "done"} : Chunk(type) \in OutChunk
  BY DEF Chunk, OutChunk, NoCall
<1>2. \A args : Parsed(args) \in Call \cup {NoCall}
  BY Zenon DEF Parsed
<1> QED
  BY <1>1, <1>2 DEF Say, ToolCall, Count, OutChunk, Chunk

\* What the server's next event makes of the response.
LEMMA SentType ==
  ASSUME TypeOK, NEW e \in Event, Sent(e)
  PROVE  /\ place = "read" /\ ~server.ended /\ kind' = kind /\ fits' = fits /\ attempt' = attempt
         /\ e.call \in Call \cup {NoCall} /\ e.type \in Type /\ e.full \in BOOLEAN
         /\ e.type \in {"start", "part", "stop"} <=> e.call \in Call
         /\ server' \in Response
         /\ server'.response = server.response
         /\ server'.says = IF e.type = "say" THEN server.says + 1 ELSE server.says
         /\ server'.counts = IF e.type \in {"begin", "count"} \/ (e.type = "end" /\ e.full)
                             THEN server.counts + 1 ELSE server.counts
         /\ server'.finished <=> server.finished \/ e.type = "finish"
         /\ server'.ended <=> e.type \in {"end", "fail"}
         /\ \A c \in Call : c # e.call => server'.step[c] = server.step[c]
         /\ e.type = "start" => server'.step[e.call] = 1
         /\ e.type = "part" => server'.step[e.call] = PartOf(e)[2] + 1
         /\ e.type = "stop" => server'.step[e.call] = 4
         /\ PartOf(e)[1] = e.call
         /\ PartOf(e)[2] = IF Step(e) < 2 THEN 1 ELSE 2
         /\ e.call \in Call => Step(e) = server.step[e.call]
<1>1. e.call \in Call \cup {NoCall} /\ e.type \in Type /\ e.full \in BOOLEAN
  BY DEF Event
<1>2. PartOf(e)[1] = e.call /\ PartOf(e)[2] = IF Step(e) < 2 THEN 1 ELSE 2
  BY DEF PartOf
<1>3. /\ place = "read" /\ ~server.ended /\ kind' = kind /\ fits' = fits /\ attempt' = attempt
      /\ e.type \in {"start", "part", "stop"} <=> e.call \in Call
  BY DEF Sent
<1> DEFINE steps == [c \in Call |->
                      IF c # e.call THEN server.step[c]
                      ELSE IF e.type = "start" THEN 1
                      ELSE IF e.type = "part" THEN PartOf(e)[2] + 1 ELSE 4]
           says == IF e.type = "say" THEN server.says + 1 ELSE server.says
           counts == IF e.type \in {"begin", "count"} \/ (e.type = "end" /\ e.full)
                     THEN server.counts + 1 ELSE server.counts
           finished == server.finished \/ e.type = "finish"
           ended == e.type \in {"end", "fail"}
<1>4. server' = [server EXCEPT !.says = says, !.counts = counts, !.finished = finished,
                               !.ended = ended, !.step = steps]
  BY DEF Sent
<1>5. server \in Response
  BY DEF TypeOK, Response
<1>6. says \in Nat /\ counts \in Nat /\ finished \in BOOLEAN /\ ended \in BOOLEAN
  BY <1>5 DEF Response
<1>7. /\ steps \in [Call -> 0 .. 4]
      /\ \A c \in Call : c # e.call => steps[c] = server.step[c]
      /\ e.call \in Call /\ e.type = "start" => steps[e.call] = 1
      /\ e.call \in Call /\ e.type = "part" => steps[e.call] = PartOf(e)[2] + 1
      /\ e.call \in Call /\ e.type = "stop" => steps[e.call] = 4
  <2>1. server.step \in [Call -> 0 .. 4] /\ PartOf(e)[2] + 1 \in 0 .. 4
    BY <1>2, <1>5 DEF Response
  <2>2. \A c \in Call :
          /\ c # e.call => steps[c] = server.step[c]
          /\ c = e.call /\ e.type = "start" => steps[c] = 1
          /\ c = e.call /\ e.type = "part" => steps[c] = PartOf(e)[2] + 1
          /\ c = e.call /\ e.type \notin {"start", "part"} => steps[c] = 4
    OBVIOUS
  <2> QED
    BY <2>1, <2>2
<1>8. e.call \in Call => Step(e) = server.step[e.call]
  BY BoundAssumption DEF Step, Call, NoCall
<1> HIDE DEF steps, says, counts, finished, ended
<1>9. /\ server' \in Response /\ server'.response = server.response
      /\ server'.says = says /\ server'.counts = counts /\ server'.finished = finished
      /\ server'.ended = ended /\ server'.step = steps
  BY <1>4, <1>5, <1>6, <1>7 DEF Response
<1>10. (server'.finished <=> server.finished \/ e.type = "finish")
  BY <1>9 DEF finished
<1>11. (server'.ended <=> e.type \in {"end", "fail"})
  BY <1>9 DEF ended
<1> QED
  BY <1>1, <1>2, <1>3, <1>7, <1>8, <1>9, <1>10, <1>11 DEF says, counts

\* Drained is the last of its recursion, which keeps to sequences of chunks.
LEMMA DrainedRecursion ==
  ASSUME TypeOK, server.response \in 1 .. 2
  PROVE  \E d \in [0 .. MaxCalls -> Seq(OutChunk)] :
           /\ \A n \in 0 .. MaxCalls : d[n] =
                IF n = 0 THEN <<>>
                ELSE IF acc[n].open THEN Append(d[n - 1], ToolCall(acc[n].id, acc[n].args))
                ELSE d[n - 1]
           /\ Drained = d[MaxCalls]
<1> DEFINE Next1(d, n) == IF n = 0 THEN <<>>
                          ELSE IF acc[n].open
                            THEN Append(d[n - 1], ToolCall(acc[n].id, acc[n].args))
                          ELSE d[n - 1]
           R(d) == d = [n \in 0 .. MaxCalls |-> Next1(d, n)]
           dd == CHOOSE d : R(d)
           S == Seq(OutChunk)
           step == [n \in 1 .. MaxCalls |-> [s \in S |->
                      IF acc[n].open THEN Append(s, ToolCall(acc[n].id, acc[n].args)) ELSE s]]
<1>1. MaxCalls \in Nat /\ Call = 1 .. MaxCalls
  BY BoundAssumption DEF Call
<1>2. \A c \in Call : ToolCall(acc[c].id, acc[c].args) \in OutChunk
  BY ChunkType DEF TypeOK, Buffer
<1>3. step \in [1 .. MaxCalls -> [S -> S]]
  BY <1>1, <1>2
<1>4. PICK f \in [0 .. MaxCalls -> S] : Recurs(f, MaxCalls, <<>>, step)
  <2>1. <<>> \in S
    OBVIOUS
  <2> HIDE DEF step, S
  <2> QED
    BY <1>1, <1>3, <2>1, RecursionExists, Zenon
<1>5. R(f)
  <2> SUFFICES ASSUME NEW n \in 0 .. MaxCalls PROVE f[n] = Next1(f, n)
    BY <1>4
  <2>1. n # 0 => n \in 1 .. MaxCalls /\ f[n - 1] \in S
    BY <1>1
  <2> QED
    BY <2>1, <1>4 DEF Recurs
<1>6. R(dd)
  <2> HIDE DEF R
  <2> QED
    BY <1>5, Zenon
<1> HIDE DEF dd
<1>7. \A n \in 0 .. MaxCalls : dd[n] = Next1(dd, n)
  BY <1>6
<1>8. dd \in [0 .. MaxCalls -> S]
  <2>1. dd = [n \in 0 .. MaxCalls |-> dd[n]]
    BY <1>6
  <2>2. dd[0] \in S
    <3>1. 0 \in 0 .. MaxCalls
      BY <1>1
    <3>2. dd[0] = <<>>
      BY <1>7, <3>1, Zenon
    <3> QED
      BY <3>2
  <2>3. ASSUME NEW n \in 1 .. MaxCalls, dd[n - 1] \in S PROVE dd[n] \in S
    <3>1. /\ n \in 0 .. MaxCalls /\ n # 0 /\ n \in Call
      BY <1>1
    <3>2. dd[n] = IF acc[n].open THEN Append(dd[n - 1], ToolCall(acc[n].id, acc[n].args))
                  ELSE dd[n - 1]
      BY <1>7, <3>1, Zenon
    <3> QED
      BY <1>2, <2>3, <3>1, <3>2
  <2> HIDE DEF S
  <2> QED
    BY <1>1, <2>1, <2>2, <2>3, RecursionType
<1>9. Drained = dd[MaxCalls]
  BY Zenon DEF Drained, dd
<1> QED
  BY <1>7, <1>8, <1>9

\* The calls given out are those in the buffer, in the order of their places.
LEMMA DrainedCalls ==
  ASSUME TypeOK, server.response \in 1 .. 2
  PROVE  /\ Drained \in Seq(OutChunk)
         /\ \E at \in Seq(Call) :
              /\ Len(at) = Len(Drained)
              /\ \A i \in 1 .. Len(at) :
                   acc[at[i]].open /\ Drained[i] = ToolCall(acc[at[i]].id, acc[at[i]].args)
              /\ \A i, j \in 1 .. Len(at) : i < j => at[i] < at[j]
              /\ \A c \in Call : acc[c].open => \E i \in 1 .. Len(at) : at[i] = c
<1>1. PICK d \in [0 .. MaxCalls -> Seq(OutChunk)] :
        /\ \A n \in 0 .. MaxCalls : d[n] =
             IF n = 0 THEN <<>>
             ELSE IF acc[n].open THEN Append(d[n - 1], ToolCall(acc[n].id, acc[n].args))
             ELSE d[n - 1]
        /\ Drained = d[MaxCalls]
  BY DrainedRecursion, Zenon
<1>2. MaxCalls \in Nat /\ Call = 1 .. MaxCalls
  BY BoundAssumption DEF Call
<1> DEFINE Places(n, at) ==
             /\ Len(at) = Len(d[n])
             /\ \A i \in 1 .. Len(at) : /\ at[i] <= n /\ acc[at[i]].open
                                        /\ d[n][i] = ToolCall(acc[at[i]].id, acc[at[i]].args)
             /\ \A i, j \in 1 .. Len(at) : i < j => at[i] < at[j]
             /\ \A c \in Call : c <= n /\ acc[c].open => \E i \in 1 .. Len(at) : at[i] = c
           Good == {n \in 0 .. MaxCalls : \E at \in Seq(Call) : Places(n, at)}
<1>3. 0 \in Good
  <2>1. <<>> \in Seq(Call) /\ 0 \in 0 .. MaxCalls /\ d[0] = <<>>
    BY <1>1, <1>2
  <2>2. Places(0, <<>>)
    BY <2>1, <1>2
  <2> HIDE DEF Places
  <2> QED
    BY <2>1, <2>2
<1>4. ASSUME NEW n \in 0 .. MaxCalls, n \in Good, n < MaxCalls
      PROVE  n + 1 \in Good
  <2>1. PICK at \in Seq(Call) : Places(n, at)
    BY <1>4
  <2> DEFINE len == Len(at)
             tool(c) == ToolCall(acc[c].id, acc[c].args)
  <2>a. len = Len(d[n]) /\ len \in Nat /\ at \in [1 .. len -> Call]
    BY <2>1
  <2>b. \A i \in 1 .. len : at[i] <= n
    BY <2>1
  <2>c. \A i \in 1 .. len : acc[at[i]].open /\ d[n][i] = tool(at[i])
    BY <2>1
  <2>d. \A i, j \in 1 .. len : i < j => at[i] < at[j]
    BY <2>1
  <2>e. \A c \in Call : c <= n /\ acc[c].open => \E i \in 1 .. len : at[i] = c
    BY <2>1
  <2> HIDE DEF len, tool
  <2>2. n + 1 \in Call /\ n + 1 \in 0 .. MaxCalls /\ n + 1 # 0 /\ (n + 1) - 1 = n /\ n \in Nat
    BY <1>2, <1>4
  <2>3. d[n + 1] = IF acc[n + 1].open THEN Append(d[n], tool(n + 1)) ELSE d[n]
    BY <1>1, <2>2 DEF tool
  <2>4. \A c \in Call : c \in Nat
    BY <1>2
  <2>5. ASSUME NEW more \in Seq(Call), Len(more) = Len(d[n + 1]),
               \A i \in 1 .. Len(more) : more[i] <= n + 1 /\ acc[more[i]].open,
               \A i \in 1 .. Len(more) : d[n + 1][i] = tool(more[i]),
               \A i, j \in 1 .. Len(more) : i < j => more[i] < more[j],
               \A c \in Call : c <= n + 1 /\ acc[c].open =>
                 \E i \in 1 .. Len(more) : more[i] = c
        PROVE  n + 1 \in Good
    <3>1. Places(n + 1, more)
      BY <2>5 DEF tool
    <3> HIDE DEF Places
    <3> QED
      BY <3>1, <2>2
  <2> HIDE DEF Good, Places
  <2>6. CASE acc[n + 1].open
    <3> DEFINE more == Append(at, n + 1)
    <3>1. /\ more \in Seq(Call) /\ Len(more) = len + 1 /\ more[len + 1] = n + 1
          /\ \A i \in 1 .. len : more[i] = at[i]
      BY <2>2 DEF len
    <3>2. /\ Len(d[n + 1]) = len + 1 /\ d[n + 1][len + 1] = tool(n + 1)
          /\ \A i \in 1 .. len : d[n + 1][i] = d[n][i]
      <4>1. d[n] \in Seq(OutChunk) /\ d[n + 1] = Append(d[n], tool(n + 1))
        BY <2>3, <2>6
      <4> QED
        BY <2>a, <4>1
    <3> HIDE DEF more
    <3>3. \A i \in 1 .. Len(more) : i \in 1 .. len \/ i = len + 1
      BY <3>1, <2>a
    <3>4. ASSUME NEW i \in 1 .. Len(more)
          PROVE  more[i] <= n + 1 /\ acc[more[i]].open /\ d[n + 1][i] = tool(more[i])
      <4>1. CASE i \in 1 .. len
        <5>1. at[i] \in Nat /\ at[i] <= n /\ acc[at[i]].open /\ d[n][i] = tool(at[i])
          BY <2>a, <2>b, <2>c, <2>4, <4>1
        <5>2. more[i] = at[i] /\ d[n + 1][i] = d[n][i]
          BY <3>1, <3>2, <4>1
        <5> QED
          BY <2>2, <5>1, <5>2
      <4>2. CASE i = len + 1
        <5>1. more[i] = n + 1 /\ d[n + 1][i] = tool(n + 1)
          BY <3>1, <3>2, <4>2
        <5> QED
          BY <2>2, <2>6, <5>1
      <4> QED
        BY <3>3, <4>1, <4>2
    <3>5. ASSUME NEW i \in 1 .. Len(more), NEW j \in 1 .. Len(more), i < j
          PROVE  more[i] < more[j]
      <4>1. i \in 1 .. len
        BY <3>1, <3>5, <2>a
      <4>2. at[i] \in Nat /\ more[i] = at[i]
        BY <4>1, <3>1, <2>a, <2>4
      <4>3. CASE j \in 1 .. len
        BY <2>d, <3>1, <3>5, <4>1, <4>2, <4>3
      <4>4. CASE j = len + 1
        BY <2>b, <2>2, <3>1, <4>1, <4>2, <4>4
      <4> QED
        BY <3>3, <4>3, <4>4
    <3>6. ASSUME NEW c \in Call, c <= n + 1, acc[c].open
          PROVE  \E i \in 1 .. Len(more) : more[i] = c
      <4>1. CASE c = n + 1
        <5>1. len + 1 \in 1 .. Len(more) /\ more[len + 1] = c
          BY <4>1, <3>1, <2>a
        <5> QED
          BY <5>1
      <4>2. CASE c # n + 1
        <5>1. c <= n
          BY <2>2, <2>4, <3>6, <4>2
        <5>2. PICK i \in 1 .. len : at[i] = c
          BY <2>e, <3>6, <5>1
        <5>3. i \in 1 .. Len(more) /\ more[i] = c
          BY <3>1, <5>2, <2>a
        <5> QED
          BY <5>3
      <4> QED
        BY <4>1, <4>2
    <3>7. Len(more) = Len(d[n + 1])
      BY <3>1, <3>2
    <3> QED
      BY <2>5, <3>1, <3>4, <3>5, <3>6, <3>7
  <2>7. CASE ~acc[n + 1].open
    <3>1. d[n + 1] = d[n]
      BY <2>3, <2>7
    <3>2. \A i \in 1 .. len : at[i] <= n + 1
      BY <2>a, <2>b, <2>2, <2>4
    <3>3. \A c \in Call : c <= n + 1 /\ acc[c].open => c <= n
      BY <2>2, <2>4, <2>7
    <3> QED
      BY <2>5, <2>a, <2>c, <2>d, <2>e, <3>1, <3>2, <3>3 DEF len
  <2> QED
    BY <2>6, <2>7
<1>5. MaxCalls \in Good
  <2> HIDE DEF Good
  <2>1. \A n \in 0 .. MaxCalls : n \in Good /\ n < MaxCalls => n + 1 \in Good
    BY <1>4
  <2>2. \A n \in 0 .. MaxCalls : n \in Good
    BY <1>2, <1>3, <2>1, InductionUpTo, Zenon
  <2> QED
    BY <2>2, <1>2
<1>6. PICK at \in Seq(Call) : Places(MaxCalls, at)
  BY <1>5
<1>7. /\ Len(at) = Len(Drained) /\ Drained \in Seq(OutChunk)
      /\ \A i \in 1 .. Len(at) :
           acc[at[i]].open /\ Drained[i] = ToolCall(acc[at[i]].id, acc[at[i]].args)
      /\ \A i, j \in 1 .. Len(at) : i < j => at[i] < at[j]
  BY <1>1, <1>2, <1>6
<1>8. \A c \in Call : acc[c].open => \E i \in 1 .. Len(at) : at[i] = c
  <2>1. \A c \in Call : c <= MaxCalls
    BY <1>2
  <2> QED
    BY <1>6, <2>1
<1> QED
  BY <1>7, <1>8, Zenon

LEMMA Appended ==
  ASSUME NEW S, NEW s \in Seq(S), NEW x \in S
  PROVE  /\ s \o <<x>> \in Seq(S) /\ Len(s \o <<x>>) = Len(s) + 1
         /\ \A i \in 1 .. Len(s) : (s \o <<x>>)[i] = s[i]
         /\ (s \o <<x>>)[Len(s) + 1] = x
OBVIOUS

\* One more chunk.
LEMMA OneMore ==
  ASSUME out \in Seq(OutChunk), NEW x \in OutChunk,
         out' = Append(out, x) \/ out' = out \o <<x>>
  PROVE  /\ out' \in Seq(OutChunk) /\ Len(out') = Len(out) + 1
         /\ \A i \in 1 .. Len(out') : i \in 1 .. Len(out) \/ i = Len(out) + 1
         /\ \A i \in 1 .. Len(out) : out'[i] = out[i]
         /\ out'[Len(out) + 1] = x
<1>1. out' = Append(out, x)
  OBVIOUS
<1> QED
  BY <1>1

\* Two more chunks.
LEMMA TwoMore ==
  ASSUME out \in Seq(OutChunk), NEW x \in OutChunk, NEW y \in OutChunk,
         out' = out \o <<x>> \o <<y>>
  PROVE  /\ out' \in Seq(OutChunk) /\ Len(out') = Len(out) + 2
         /\ \A i \in 1 .. Len(out) : out'[i] = out[i]
         /\ out'[Len(out) + 1] = x /\ out'[Len(out) + 2] = y
<1> DEFINE m == out \o <<x>>
<1>1. /\ m \in Seq(OutChunk) /\ Len(m) = Len(out) + 1
      /\ \A i \in 1 .. Len(out) : m[i] = out[i]
      /\ m[Len(out) + 1] = x /\ Len(out) \in Nat
  OBVIOUS
<1>2. out' = m \o <<y>>
  OBVIOUS
<1> HIDE DEF m
<1>3. /\ out' \in Seq(OutChunk) /\ Len(out') = Len(m) + 1
      /\ \A i \in 1 .. Len(m) : out'[i] = m[i]
      /\ out'[Len(m) + 1] = y
  BY <1>1, <1>2
<1> QED
  BY <1>1, <1>3

\* The calls of the buffer, and then the mark of the end or nothing.
LEMMA ManyMore ==
  ASSUME TypeOK, server.response \in 1 .. 2,
         out' = out \o Drained \/ out' = out \o Drained \o <<Chunk("done")>>
  PROVE  /\ out' \in Seq(OutChunk)
         /\ Len(out) + Len(Drained) <= Len(out')
         /\ \A i \in 1 .. Len(out') : \/ i \in 1 .. Len(out)
                                      \/ i - Len(out) \in 1 .. Len(Drained)
                                      \/ i > Len(out) + Len(Drained) /\ out'[i] = Chunk("done")
         /\ \A i \in 1 .. Len(out) : out'[i] = out[i]
         /\ \A i \in 1 .. Len(Drained) : out'[Len(out) + i] = Drained[i]
<1>1. out \in Seq(OutChunk) /\ Drained \in Seq(OutChunk) /\ Chunk("done") \in OutChunk
  BY ChunkType, DrainedCalls DEF TypeOK
<1> DEFINE upto == out \o Drained
<1>2. /\ upto \in Seq(OutChunk) /\ Len(upto) = Len(out) + Len(Drained)
      /\ \A i \in 1 .. Len(out) : upto[i] = out[i]
      /\ \A i \in 1 .. Len(Drained) : upto[Len(out) + i] = Drained[i]
  BY <1>1
<1>3. \A i \in 1 .. Len(upto) : i \in 1 .. Len(out) \/ i - Len(out) \in 1 .. Len(Drained)
  BY <1>1, <1>2
<1>4. Len(out) \in Nat /\ Len(Drained) \in Nat
  BY <1>1
<1>5. CASE out' = upto
  BY <1>2, <1>3, <1>4, <1>5
<1>6. CASE out' = upto \o <<Chunk("done")>>
  <2> HIDE DEF upto
  <2>1. /\ out' \in Seq(OutChunk) /\ Len(out') = Len(upto) + 1
        /\ \A i \in 1 .. Len(upto) : out'[i] = upto[i]
        /\ out'[Len(upto) + 1] = Chunk("done")
    <3>1. upto \in Seq(OutChunk) /\ Chunk("done") \in OutChunk
      BY <1>1, <1>2
    <3> DEFINE more == upto \o <<Chunk("done")>>
    <3>2. /\ more \in Seq(OutChunk) /\ Len(more) = Len(upto) + 1
          /\ \A i \in 1 .. Len(upto) : more[i] = upto[i]
          /\ more[Len(upto) + 1] = Chunk("done")
      BY <3>1, Appended, Zenon
    <3> HIDE DEF more
    <3> QED
      BY <3>2, <1>6 DEF more
  <2>2. \A i \in 1 .. Len(out') : i \in 1 .. Len(upto) \/ i = Len(upto) + 1
    BY <2>1, <1>2, <1>4
  <2>3. \A i \in 1 .. Len(out') :
          \/ i \in 1 .. Len(out)
          \/ i - Len(out) \in 1 .. Len(Drained)
          \/ i > Len(out) + Len(Drained) /\ out'[i] = Chunk("done")
    BY <2>1, <2>2, <1>2, <1>3, <1>4
  <2>4. \A i \in 1 .. Len(out) : i \in 1 .. Len(upto)
    BY <1>2, <1>4
  <2>5. \A i \in 1 .. Len(Drained) : Len(out) + i \in 1 .. Len(upto)
    BY <1>2, <1>4
  <2>6. \A i \in 1 .. Len(out) : out'[i] = out[i]
    BY <2>1, <2>4, <1>2
  <2>7. \A i \in 1 .. Len(Drained) : out'[Len(out) + i] = Drained[i]
    BY <2>1, <2>5, <1>2
  <2>8. Len(out) + Len(Drained) <= Len(out')
    BY <2>1, <1>2, <1>4
  <2> QED
    BY <2>1, <2>3, <2>6, <2>7, <2>8
<1> QED
  BY <1>5, <1>6

-------------------------------------------------------------------------------
(* Types and responses. *)

TypeInv == TypeOK /\ ResponseInv

\* An event that arrives is of the response that is read.
LEMMA ArrivesType ==
  ASSUME TypeInv, NEW e \in Event, Sent(e)
  PROVE  /\ place = "read" /\ result = "open" /\ kind' = kind /\ fits' = fits /\ attempt' = attempt
         /\ server.response = 1 /\ server'.response = 1
         /\ server' \in Response /\ server'.counts \in Nat
         /\ e.call \in Call \cup {NoCall}
         /\ PartOf(e) = <<e.call, 1>> \/ PartOf(e) = <<e.call, 2>>
         /\ e.type \in {"start", "part", "stop"} => e.call \in Call
BY SentType DEF TypeInv, ResponseInv, PartOf, Response

\* What is kept of the types when chunks of the response are given out.
LEMMA OutType ==
  ASSUME TypeInv, server.response = 1
  PROVE  /\ \A x \in OutChunk :
              x.response = 1 /\ (out' = Append(out, x) \/ out' = out \o <<x>>) =>
                out' \in Seq(OutChunk) /\ \A i \in DOMAIN out' : out'[i].response = 1
         /\ (out' = out \o Drained \/ out' = out \o Drained \o <<Chunk("done")>>) =>
                out' \in Seq(OutChunk) /\ \A i \in DOMAIN out' : out'[i].response = 1
         /\ Say \in OutChunk /\ Say.response = 1
         /\ Chunk("done") \in OutChunk /\ Chunk("done").response = 1
         /\ \A n \in Nat : Count(n) \in OutChunk /\ Count(n).response = 1
         /\ \A id \in Call \cup {NoCall} : \A args :
              ToolCall(id, args) \in OutChunk /\ ToolCall(id, args).response = 1
<1>0. TypeOK /\ server.response \in 1 .. 2 /\ out \in Seq(OutChunk)
      /\ \A i \in 1 .. Len(out) : out[i].response = 1
  BY DEF TypeInv, TypeOK, ResponseInv
<1>1. ASSUME NEW x \in OutChunk, x.response = 1,
             out' = Append(out, x) \/ out' = out \o <<x>>
      PROVE  out' \in Seq(OutChunk) /\ \A i \in DOMAIN out' : out'[i].response = 1
  <2>1. /\ out' \in Seq(OutChunk) /\ Len(out') = Len(out) + 1
        /\ \A i \in 1 .. Len(out') : i \in 1 .. Len(out) \/ i = Len(out) + 1
        /\ \A i \in 1 .. Len(out) : out'[i] = out[i]
        /\ out'[Len(out) + 1] = x
    BY <1>0, <1>1, OneMore
  <2> QED
    BY <1>0, <1>1, <2>1
<1>2. /\ Say \in OutChunk /\ Say.response = 1
      /\ Chunk("done") \in OutChunk /\ Chunk("done").response = 1
      /\ \A n \in Nat : Count(n) \in OutChunk /\ Count(n).response = 1
      /\ \A id \in Call \cup {NoCall} : \A args :
           ToolCall(id, args) \in OutChunk /\ ToolCall(id, args).response = 1
  <2>1. Say.response = 1 /\ Chunk("done").response = 1
    BY DEF Say, Chunk
  <2>2. \A n \in Nat : Count(n).response = 1
    BY DEF Count, Chunk
  <2>3. \A id \in Call \cup {NoCall} : \A args : ToolCall(id, args).response = 1
    BY DEF ToolCall, Chunk
  <2> QED
    BY <1>0, <2>1, <2>2, <2>3, ChunkType
<1>3. ASSUME out' = out \o Drained \/ out' = out \o Drained \o <<Chunk("done")>>
      PROVE  out' \in Seq(OutChunk) /\ \A i \in DOMAIN out' : out'[i].response = 1
  <2>1. /\ out' \in Seq(OutChunk)
        /\ \A i \in 1 .. Len(out') : \/ i \in 1 .. Len(out)
                                     \/ i - Len(out) \in 1 .. Len(Drained)
                                     \/ out'[i] = Chunk("done")
        /\ \A i \in 1 .. Len(out) : out'[i] = out[i]
        /\ \A i \in 1 .. Len(Drained) : out'[Len(out) + i] = Drained[i]
    BY <1>0, <1>3, ManyMore
  <2>2. Drained \in Seq(OutChunk) /\ \A i \in 1 .. Len(Drained) : Drained[i].response = 1
    <3>1. PICK at \in Seq(Call) :
            /\ Len(at) = Len(Drained)
            /\ \A i \in 1 .. Len(at) : Drained[i] = ToolCall(acc[at[i]].id, acc[at[i]].args)
      BY <1>0, DrainedCalls
    <3>2. \A c \in Call : acc[c].id \in Call \cup {NoCall}
      BY <1>0 DEF TypeOK, Buffer
    <3>3. Drained \in Seq(OutChunk)
      BY <1>0, DrainedCalls
    <3>4. ASSUME NEW i \in 1 .. Len(Drained) PROVE Drained[i].response = 1
      <4>1. i \in 1 .. Len(at) /\ at[i] \in Call
        BY <3>1
      <4>2. Drained[i] = ToolCall(acc[at[i]].id, acc[at[i]].args)
        BY <3>1, <4>1
      <4>3. acc[at[i]].id \in Call \cup {NoCall}
        BY <3>2, <4>1
      <4> QED
        BY <1>2, <4>2, <4>3, Zenon
    <3> QED
      BY <3>3, <3>4
  <2>3. ASSUME NEW i \in 1 .. Len(out') PROVE out'[i].response = 1
    <3>1. CASE i \in 1 .. Len(out)
      BY <3>1, <2>1, <1>0
    <3>2. CASE i - Len(out) \in 1 .. Len(Drained)
      <4>1. Len(out) \in Nat /\ Len(out) + (i - Len(out)) = i
        BY <1>0
      <4> QED
        BY <3>2, <4>1, <2>1, <2>2
    <3>3. CASE out'[i] = Chunk("done")
      BY <3>3, <1>2
    <3> QED
      BY <3>1, <3>2, <3>3, <2>1
  <2> QED
    BY <2>1, <2>3
<1> QED
  BY <1>1, <1>2, <1>3

LEMMA BufferType ==
  /\ Empty \in Buffer
  /\ \A c \in Call : [open |-> TRUE, id |-> c, args |-> <<>>] \in Buffer
  /\ \A b \in Buffer, c \in Call : \A p \in {<<c, 1>>, <<c, 2>>} :
       /\ [b EXCEPT !.args = Append(b.args, p)] \in Buffer
       /\ \A id \in {c, b.id} : /\ [open |-> TRUE, id |-> id, args |-> Append(b.args, p)] \in Buffer
                                /\ [open |-> TRUE, id |-> id, args |-> b.args] \in Buffer
<1>1. <<>> \in Seq(Part) /\ Empty.open = FALSE
  BY DEF Empty
<1>2. Empty \in Buffer /\ \A c \in Call : [open |-> TRUE, id |-> c, args |-> <<>>] \in Buffer
  BY <1>1 DEF Empty, Buffer
<1>3. ASSUME NEW b \in Buffer, NEW c \in Call, NEW p \in {<<c, 1>>, <<c, 2>>}
      PROVE  /\ [b EXCEPT !.args = Append(b.args, p)] \in Buffer
             /\ \A id \in {c, b.id} :
                  /\ [open |-> TRUE, id |-> id, args |-> Append(b.args, p)] \in Buffer
                  /\ [open |-> TRUE, id |-> id, args |-> b.args] \in Buffer
  <2>1. p \in Part /\ b.args \in Seq(Part)
    BY DEF Part, Buffer
  <2>2. Append(b.args, p) \in Seq(Part)
    BY <2>1
  <2> QED
    BY <2>2 DEF Buffer
<1> QED
  BY <1>2, <1>3, Zenon

\* The place of a call in the buffer.
LEMMA SlotType ==
  ASSUME NEW c \in Call
  PROVE  Slot(c) \in Call
BY BoundAssumption DEF Slot, Call

LEMMA SilentType ==
  /\ Silent \in Response
  /\ \A r \in 1 .. 2 : /\ [Silent EXCEPT !.response = r] \in Response
                       /\ [Silent EXCEPT !.response = r].response = r
<1> DEFINE none == [c \in Call |-> 0]
<1>1. none \in [Call -> 0 .. 4]
  OBVIOUS
<1>2. Silent = [response |-> 0, says |-> 0, counts |-> 0, ended |-> FALSE,
                finished |-> FALSE, step |-> none]
  BY DEF Silent
<1> HIDE DEF none
<1>3. Silent \in Response
  BY <1>1, <1>2 DEF Response
<1> QED
  BY <1>3 DEF Response

LEMMA TypeInvInit == Init => TypeInv
<1> SUFFICES ASSUME Init PROVE TypeInv
  OBVIOUS
<1>1. TypeOK
  <2>1. server \in Response /\ acc \in [Call -> Buffer] /\ current \in Buffer
    BY SilentType, BufferType DEF Init
  <2>2. kind \in {"openai", "anthropic", "responses"} /\ fits \in BOOLEAN /\ yielded = FALSE
    BY Zenon DEF Init
  <2>3. attempt \in Nat /\ broken \in 0 .. MaxBroken /\ usage \in Nat
    BY BoundAssumption DEF Init
  <2>4. place = "send" /\ out \in Seq(OutChunk) /\ result = "open"
    BY DEF Init
  <2> QED
    BY <2>1, <2>2, <2>3, <2>4 DEF TypeOK
<1>2. ResponseInv
  BY DEF Init, ResponseInv
<1> QED
  BY <1>1, <1>2 DEF TypeInv

LEMMA TypeInvNext == TypeInv /\ [Next]_vars => TypeInv'
<1> SUFFICES ASSUME TypeInv, [Next]_vars PROVE TypeInv'
  OBVIOUS
<1> USE DEF readVars
<1>1. CASE SendOk
  <2>1. server' \in Response /\ server'.response = 1
    <3>1. server' = [Silent EXCEPT !.response = 1]
      BY <1>1 DEF SendOk, TypeInv, ResponseInv
    <3> QED
      BY <3>1, SilentType
  <2> QED
    BY <1>1, <2>1, BufferType DEF SendOk, TypeInv, TypeOK, ResponseInv
<1>2. CASE SendFails
  BY <1>2 DEF SendFails, CountAttempt, GiveUp, End, TypeInv, TypeOK, ResponseInv
<1>3. ASSUME NEW e \in Event, Delta(e)
      PROVE  TypeInv'
  BY <1>3, ArrivesType, OutType DEF Delta, Arrives, Yield, Goes, TypeInv, TypeOK, ResponseInv
<1>4. ASSUME NEW e \in Event, OpenaiPart(e)
      PROVE  TypeInv'
  <2>1. e.call \in Call /\ acc' \in [Call -> Buffer]
    <3>1. /\ e.call \in Call /\ Slot(e.call) \in Call
          /\ PartOf(e) = <<e.call, 1>> \/ PartOf(e) = <<e.call, 2>>
      BY <1>4, ArrivesType, SlotType DEF OpenaiPart, Arrives
    <3> QED
      BY <1>4, <3>1, BufferType DEF OpenaiPart, TypeInv, TypeOK
  <2> QED
    BY <1>4, <2>1, ArrivesType DEF OpenaiPart, Arrives, Goes, TypeInv, TypeOK, ResponseInv
<1>5. ASSUME NEW e \in Event, OpenaiFinish(e)
      PROVE  TypeInv'
  BY <1>5, ArrivesType, OutType, BufferType
    DEF OpenaiFinish, Arrives, Drain, Goes, TypeInv, TypeOK, ResponseInv
<1>6. ASSUME NEW e \in Event, OpenaiUsage(e)
      PROVE  TypeInv'
  BY <1>6, ArrivesType, OutType
    DEF OpenaiUsage, Arrives, Yield, Goes, TypeInv, TypeOK, ResponseInv
<1>7. ASSUME NEW e \in Event, OpenaiDone(e)
      PROVE  TypeInv'
  BY <1>7, ArrivesType, OutType, BufferType
    DEF OpenaiDone, Arrives, Drain, End, TypeInv, TypeOK, ResponseInv
<1>8. CASE OpenaiAfterLoop
  BY <1>8, OutType, BufferType DEF OpenaiAfterLoop, Drain, End, TypeInv, TypeOK, ResponseInv
<1>9. ASSUME NEW e \in Event, AnthropicStart(e)
      PROVE  TypeInv'
  BY <1>9, ArrivesType DEF AnthropicStart, Arrives, Goes, TypeInv, TypeOK, ResponseInv
<1>10. ASSUME NEW e \in Event, AnthropicBlockStart(e)
       PROVE  TypeInv'
  BY <1>10, ArrivesType, BufferType
    DEF AnthropicBlockStart, Arrives, Goes, TypeInv, TypeOK, ResponseInv
<1>11. ASSUME NEW e \in Event, AnthropicPart(e)
       PROVE  TypeInv'
  BY <1>11, ArrivesType, BufferType
    DEF AnthropicPart, Arrives, Goes, TypeInv, TypeOK, ResponseInv
<1>12. ASSUME NEW e \in Event, AnthropicBlockStop(e)
       PROVE  TypeInv'
  <2>1. current.id \in Call \cup {NoCall} /\ UNCHANGED acc
    BY <1>12 DEF TypeInv, TypeOK, Buffer, AnthropicBlockStop
  <2>2. /\ Sent(e) /\ server.response = 1 /\ UNCHANGED <<broken, place, result, acc, usage>>
        /\ \/ UNCHANGED <<yielded, current, out>>
           \/ /\ out' = out \o <<ToolCall(current.id, current.args)>>
              /\ yielded' = TRUE /\ current' = Empty
    BY <1>12, ArrivesType DEF AnthropicBlockStop, Arrives, Yield, Goes
  <2>3. /\ current' \in Buffer /\ yielded' \in BOOLEAN
        /\ out' \in Seq(OutChunk) /\ \A i \in DOMAIN out' : out'[i].response = 1
    BY <2>1, <2>2, BufferType, OutType DEF TypeInv, TypeOK, ResponseInv
  <2> QED
    BY <2>1, <2>2, <2>3, ArrivesType DEF TypeInv, TypeOK, ResponseInv
<1>13. ASSUME NEW e \in Event, AnthropicUsage(e)
       PROVE  TypeInv'
  BY <1>13, ArrivesType, OutType
    DEF AnthropicUsage, Arrives, Yield, Goes, TypeInv, TypeOK, ResponseInv
<1>14. ASSUME NEW e \in Event, AnthropicDone(e)
       PROVE  TypeInv'
  BY <1>14, ArrivesType, OutType
    DEF AnthropicDone, Arrives, End, TypeInv, TypeOK, ResponseInv
<1>25. ASSUME NEW e \in Event, AnthropicUnread(e)
       PROVE  TypeInv'
  BY <1>25, ArrivesType DEF AnthropicUnread, Arrives, Goes, TypeInv, TypeOK, ResponseInv
<1>15. ASSUME NEW e \in Event, ResponsesPart(e)
       PROVE  TypeInv'
  <2>1. e.call \in Call /\ acc' \in [Call -> Buffer]
    <3>1. e.call \in Call /\ (PartOf(e) = <<e.call, 1>> \/ PartOf(e) = <<e.call, 2>>)
      BY <1>15, ArrivesType DEF ResponsesPart, Arrives
    <3> QED
      BY <1>15, <3>1, BufferType DEF ResponsesPart, TypeInv, TypeOK
  <2> QED
    BY <1>15, <2>1, ArrivesType DEF ResponsesPart, Arrives, Goes, TypeInv, TypeOK, ResponseInv
<1>16. ASSUME NEW e \in Event, ResponsesItem(e)
       PROVE  TypeInv'
  <2>1. /\ e.call \in Call /\ server.response = 1
        /\ \E args : out' = out \o <<ToolCall(e.call, args)>>
        /\ acc' = [acc EXCEPT ![e.call] = Empty] /\ yielded' = TRUE
        /\ UNCHANGED <<broken, place, result, current, usage>>
    BY <1>16, ArrivesType DEF ResponsesItem, Arrives, Yield, Goes
  <2>2. acc' \in [Call -> Buffer]
    BY <2>1, BufferType DEF TypeInv, TypeOK
  <2>3. out' \in Seq(OutChunk) /\ \A i \in DOMAIN out' : out'[i].response = 1
    BY <2>1, OutType
  <2>4. Sent(e)
    BY <1>16 DEF ResponsesItem, Arrives
  <2> QED
    BY <2>1, <2>2, <2>3, <2>4, ArrivesType DEF TypeInv, TypeOK, ResponseInv
<1>17. ASSUME NEW e \in Event, ResponsesCompleted(e)
       PROVE  TypeInv'
  <2> DEFINE mid == IF e.full THEN out \o <<Count(server'.counts)>> ELSE out
  <2>1. /\ Chunk("done") \in OutChunk /\ Chunk("done").response = 1
        /\ server'.counts \in Nat /\ Count(server'.counts) \in OutChunk
        /\ Count(server'.counts).response = 1 /\ out \in Seq(OutChunk)
        /\ \A i \in 1 .. Len(out) : out[i].response = 1
    <3>1. server.response = 1 /\ server'.counts \in Nat
      BY <1>17, ArrivesType DEF ResponsesCompleted, Arrives
    <3>2. /\ Chunk("done") \in OutChunk /\ Chunk("done").response = 1
          /\ Count(server'.counts) \in OutChunk /\ Count(server'.counts).response = 1
      BY <3>1, OutType
    <3> QED
      BY <3>1, <3>2 DEF TypeInv, TypeOK, ResponseInv
  <2>2. mid \in Seq(OutChunk) /\ \A i \in 1 .. Len(mid) : mid[i].response = 1
    BY <2>1
  <2>3. out' = mid \o <<Chunk("done")>>
    BY <1>17, <2>1 DEF ResponsesCompleted
  <2> HIDE DEF mid
  <2>4. out' \in Seq(OutChunk) /\ \A i \in DOMAIN out' : out'[i].response = 1
    BY <2>1, <2>2, <2>3
  <2> QED
    BY <1>17, <2>4, ArrivesType DEF ResponsesCompleted, Arrives, End, TypeInv, TypeOK, ResponseInv
<1>18. ASSUME NEW e \in Event, ServerError(e)
       PROVE  TypeInv'
  BY <1>18, ArrivesType DEF ServerError, Arrives, End, TypeInv, TypeOK, ResponseInv
<1>19. CASE SkipBroken
  BY <1>19, ArrivesType, BoundAssumption DEF SkipBroken, TypeInv, TypeOK, ResponseInv
<1>20. CASE Closed
  BY <1>20 DEF Closed, TypeInv, TypeOK, ResponseInv
<1>21. CASE ErrorLate
  BY <1>21, OutType DEF ErrorLate, End, TypeInv, TypeOK, ResponseInv
<1>22. CASE ErrorEarly
  BY <1>22 DEF ErrorEarly, CountAttempt, GiveUp, End, TypeInv, TypeOK, ResponseInv
<1>23. CASE AfterLoop
  BY <1>23 DEF AfterLoop, End, TypeInv, TypeOK, ResponseInv
<1>24. CASE UNCHANGED vars
  BY <1>24 DEF vars, TypeInv, TypeOK, ResponseInv
<1> QED
  BY <1>1, <1>2, <1>3, <1>4, <1>5, <1>6, <1>7, <1>8, <1>9, <1>10, <1>11, <1>12, <1>13, <1>14,
     <1>15, <1>16, <1>17, <1>18, <1>19, <1>20, <1>21, <1>22, <1>23, <1>24, <1>25
    DEF Next, Read, OpenaiRead, AnthropicRead, ResponsesRead

\* Every variable keeps to its type, and the stream to one response.
THEOREM TypeCorrect == Spec => [](TypeOK /\ ResponseInv)
BY TypeInvInit, TypeInvNext, PTL DEF Spec, TypeInv

-------------------------------------------------------------------------------
(* The grammars of the three servers. *)

\* What the server may send, and how far it brings the call.
LEMMA SentSteps ==
  ASSUME TypeInv, NEW e \in Event, Sent(e)
  PROVE  /\ server.step \in [Call -> 0 .. 4] /\ server'.step \in [Call -> 0 .. 4]
         /\ \A c \in Call : c # e.call => server'.step[c] = server.step[c]
         /\ e.call \in Call <=> e.type \in {"start", "part", "stop"}
         /\ e.type = "start" =>
              /\ kind = "anthropic" => AllAt({0, 4})
              /\ kind = "openai" => ~server.finished
              /\ kind # "responses"
              /\ server.step[e.call] = 0 /\ server'.step[e.call] = 1
              /\ \A c \in Call : c < e.call => server.step[c] > 0
         /\ e.type = "part" =>
              /\ server.step[e.call] < 2 =>
                   server'.step[e.call] = 2 /\ PartOf(e) = <<e.call, 1>>
              /\ server.step[e.call] >= 2 =>
                   server'.step[e.call] = 3 /\ PartOf(e) = <<e.call, 2>>
              /\ kind = "anthropic" => server.step[e.call] \in {1, 2}
              /\ kind = "openai" => server.step[e.call] \in {0, 1, 2} /\ ~server.finished
              /\ kind = "responses" => server.step[e.call] \in {0, 2}
              /\ kind # "anthropic" => \A c \in Call : c < e.call => server.step[c] > 0
         /\ e.type = "stop" =>
              kind # "openai" /\ server.step[e.call] = 3 /\ server'.step[e.call] = 4
         /\ e.type = "finish" => kind = "openai" /\ ~server.finished /\ AllAt({0, 3})
         /\ e.type = "end" => IF kind = "openai" THEN server.finished ELSE AllAt({0, 4})
         /\ e.type = "fail" => kind # "openai"
         /\ e.type = "begin" => kind = "anthropic" /\ server.counts = 0 /\ AllAt({0})
<1>1. kind \in {"openai", "anthropic", "responses"}
  BY DEF TypeInv, TypeOK
<1>2. /\ server.step \in [Call -> 0 .. 4] /\ server'.step \in [Call -> 0 .. 4]
      /\ e.call \in Call <=> e.type \in {"start", "part", "stop"}
      /\ \A c \in Call : c # e.call => server'.step[c] = server.step[c]
      /\ e.type = "start" => server'.step[e.call] = 1
      /\ e.type = "part" => server'.step[e.call] = PartOf(e)[2] + 1
      /\ e.type = "stop" => server'.step[e.call] = 4
      /\ e.call \in Call => Step(e) = server.step[e.call]
  BY SentType DEF TypeInv, TypeOK, Response
<1>3. PartOf(e) = <<e.call, IF Step(e) < 2 THEN 1 ELSE 2>>
  BY DEF PartOf
<1>4. CASE kind = "openai"
  <2>1. OpenaiSends(e)
    BY <1>4 DEF Sent
  <2> QED
    BY <1>2, <1>3, <1>4, <2>1 DEF OpenaiSends, Due
<1>5. CASE kind = "anthropic"
  <2>1. AnthropicSends(e)
    BY <1>5 DEF Sent
  <2> QED
    BY <1>2, <1>3, <1>5, <2>1 DEF AnthropicSends, Due
<1>6. CASE kind = "responses"
  <2>1. ResponsesSends(e)
    BY <1>6 DEF Sent
  <2> QED
    BY <1>2, <1>3, <1>6, <2>1 DEF ResponsesSends, Due
<1> QED
  BY <1>1, <1>4, <1>5, <1>6

\* A step begins a response, or reads an event of it, or leaves the server alone.
LEMMA StepKinds ==
  ASSUME TypeInv, [Next]_vars
  PROVE  /\ kind' = kind /\ fits' = fits
         /\ \/ /\ place = "send" /\ place' = "read" /\ server' = [Silent EXCEPT !.response = 1]
               /\ broken' = broken /\ out' = out /\ out = <<>> /\ result' = result /\ broken = 0
               /\ acc' = [c \in Call |-> Empty] /\ current' = Empty /\ usage' = 0
            \/ \E e \in Event :
                 /\ Sent(e)
                 /\ \/ broken' = broken + 1 /\ UNCHANGED <<place, result, acc, current, usage, out>>
                    \/ /\ broken' = broken
                       /\ e.type \notin {"end", "fail"} => place' = place /\ result' = result
                       /\ e.type = "end" => place' = "end" /\ result' = "done"
                       /\ e.type = "fail" /\ (kind = "anthropic" => fits) =>
                            place' = "end" /\ result' = "error"
            \/ /\ UNCHANGED <<server, broken>>
               /\ \/ UNCHANGED vars
                  \/ /\ place # "end"
                     /\ place' = "end" => \/ result' = "done" /\ (kind = "openai" \/ place = "read")
                                          \/ result' \in {"error", "cut"}
<1> USE DEF readVars
<1> DEFINE Passes(e) == e.type \notin {"end", "fail"} /\ place' = place /\ result' = result
           Finishes(e) == e.type = "end" /\ place' = "end" /\ result' = "done"
           Unread(e) == /\ kind = "anthropic" /\ ~fits /\ e.type \in {"start", "fail"}
                        /\ place' = place /\ result' = result
<1>1. CASE SendOk
  BY <1>1 DEF SendOk, TypeInv, ResponseInv
<1>2. CASE SendFails \/ Closed \/ ErrorLate \/ ErrorEarly \/ OpenaiAfterLoop \/ AfterLoop
  BY <1>2 DEF SendFails, Closed, ErrorLate, ErrorEarly, OpenaiAfterLoop, AfterLoop,
              CountAttempt, GiveUp, End
<1>3. ASSUME NEW e \in Event, OpenaiRead(e)
      PROVE  /\ kind' = kind /\ fits' = fits /\ Sent(e) /\ broken' = broken
             /\ Passes(e) \/ Finishes(e) \/ Unread(e)
  <2>1. /\ Delta(e) => Arrives(e) /\ e.type = "say" /\ Goes
        /\ OpenaiPart(e) => Arrives(e) /\ e.type \in {"start", "part"} /\ Goes
        /\ OpenaiFinish(e) => Arrives(e) /\ e.type = "finish" /\ Goes
        /\ OpenaiUsage(e) => Arrives(e) /\ e.type = "count" /\ Goes
    BY Zenon DEF Delta, OpenaiPart, OpenaiFinish, OpenaiUsage
  <2>2. OpenaiDone(e) => Arrives(e) /\ e.type = "end" /\ End("done")
    BY Zenon DEF OpenaiDone
  <2>3. kind' = kind /\ fits' = fits
    <3>1. Sent(e)
      BY <2>1, <2>2, <1>3, Zenon DEF OpenaiRead, Arrives
    <3> QED
      BY <3>1, SentType DEF TypeInv
  <2> QED
    BY <2>1, <2>2, <2>3, <1>3 DEF OpenaiRead, Arrives, Goes, End
<1>4. ASSUME NEW e \in Event, AnthropicRead(e)
      PROVE  /\ kind' = kind /\ fits' = fits /\ Sent(e) /\ broken' = broken
             /\ Passes(e) \/ Finishes(e) \/ Unread(e)
  <2>1. /\ Delta(e) => Arrives(e) /\ e.type = "say" /\ Goes
        /\ AnthropicStart(e) => Arrives(e) /\ e.type = "begin" /\ Goes
        /\ AnthropicBlockStart(e) => Arrives(e) /\ e.type = "start" /\ Goes
        /\ AnthropicPart(e) => Arrives(e) /\ e.type = "part" /\ Goes
        /\ AnthropicBlockStop(e) => Arrives(e) /\ e.type = "stop" /\ Goes
        /\ AnthropicUsage(e) => Arrives(e) /\ e.type = "count" /\ Goes
        /\ AnthropicUnread(e) => Arrives(e) /\ e.type \in {"start", "fail"} /\ Goes /\ ~fits
    BY Zenon DEF Delta, AnthropicStart, AnthropicBlockStart, AnthropicPart, AnthropicBlockStop, AnthropicUsage,
                 AnthropicUnread
  <2>2. AnthropicDone(e) => Arrives(e) /\ e.type = "end" /\ End("done")
    BY Zenon DEF AnthropicDone
  <2>3. kind' = kind /\ fits' = fits
    <3>1. Sent(e)
      BY <2>1, <2>2, <1>4, Zenon DEF AnthropicRead, Arrives
    <3> QED
      BY <3>1, SentType DEF TypeInv
  <2> QED
    BY <2>1, <2>2, <2>3, <1>4 DEF AnthropicRead, Arrives, Goes, End
<1>5. ASSUME NEW e \in Event, ResponsesRead(e)
      PROVE  /\ kind' = kind /\ fits' = fits /\ Sent(e) /\ broken' = broken
             /\ Passes(e) \/ Finishes(e) \/ Unread(e)
  <2>1. /\ Delta(e) => Arrives(e) /\ e.type = "say" /\ Goes
        /\ ResponsesPart(e) => Arrives(e) /\ e.type = "part" /\ Goes
        /\ ResponsesItem(e) => Arrives(e) /\ e.type = "stop" /\ Goes
    BY Zenon DEF Delta, ResponsesPart, ResponsesItem
  <2>2. ResponsesCompleted(e) => Arrives(e) /\ e.type = "end" /\ End("done")
    BY Zenon DEF ResponsesCompleted
  <2>3. kind' = kind /\ fits' = fits
    <3>1. Sent(e)
      BY <2>1, <2>2, <1>5, Zenon DEF ResponsesRead, Arrives
    <3> QED
      BY <3>1, SentType DEF TypeInv
  <2> QED
    BY <2>1, <2>2, <2>3, <1>5 DEF ResponsesRead, Arrives, Goes, End
<1>6. ASSUME NEW e \in Event, ServerError(e)
      PROVE  kind' = kind /\ fits' = fits /\ Sent(e) /\ broken' = broken
             /\ e.type = "fail" /\ place' = "end" /\ result' = "error"
  BY <1>6 DEF ServerError, Arrives, End, Sent
<1>7. ASSUME NEW e \in Event, Sent(e), SkipBroken
      PROVE  kind' = kind /\ fits' = fits /\ broken' = broken + 1
             /\ UNCHANGED <<place, result, acc, current, usage, out>>
  BY <1>7 DEF SkipBroken, Sent
<1>8. CASE UNCHANGED vars
  BY <1>8 DEF vars
<1> QED
  BY <1>1, <1>2, <1>3, <1>4, <1>5, <1>6, <1>7, <1>8 DEF Next, Read, SkipBroken

LEMMA GrammarInvInit == Init => GrammarInv
<1> SUFFICES ASSUME Init PROVE GrammarInv
  OBVIOUS
<1>1. (\A c \in Call : server.step[c] = 0) /\ ~server.finished /\ ~server.ended
  BY DEF Init, Silent
<1> QED
  BY <1>1 DEF GrammarInv

LEMMA GrammarInvNext == TypeInv /\ GrammarInv /\ [Next]_vars => GrammarInv'
<1> SUFFICES ASSUME TypeInv, GrammarInv, [Next]_vars PROVE GrammarInv'
  OBVIOUS
<1>0. kind' = kind /\ fits' = fits
  BY StepKinds
<1>1. CASE /\ place = "send" /\ place' = "read" /\ server' = [Silent EXCEPT !.response = 1]
           /\ broken' = broken /\ result' = result
  <2>1. (\A c \in Call : server'.step[c] = 0) /\ ~server'.finished /\ ~server'.ended
    BY <1>1 DEF Silent
  <2> QED
    BY <1>0, <2>1 DEF GrammarInv
<1>2. CASE /\ UNCHANGED <<server, broken>>
           /\ place # "end"
  <2>1. ~(broken' = 0 /\ server'.ended /\ (kind = "anthropic" => fits))
    BY <1>2 DEF GrammarInv
  <2> QED
    BY <1>0, <1>2, <2>1 DEF GrammarInv, AllAt
<1>3. ASSUME NEW e \in Event, Sent(e),
             \/ broken' = broken + 1 /\ UNCHANGED <<place, result>>
             \/ /\ broken' = broken
                /\ e.type \notin {"end", "fail"} => place' = place /\ result' = result
                /\ e.type = "end" => place' = "end" /\ result' = "done"
                /\ e.type = "fail" /\ (kind = "anthropic" => fits) =>
                     place' = "end" /\ result' = "error"
      PROVE  GrammarInv'
  <2> DEFINE s == server.step
             t == server'.step
  <2>1. /\ broken \in Nat /\ place = "read" /\ result = "open" /\ ~server.ended
        /\ server.finished \in BOOLEAN /\ server'.finished \in BOOLEAN
        /\ server'.ended \in BOOLEAN /\ e.type \in Type
        /\ server'.finished <=> server.finished \/ e.type = "finish"
        /\ server'.ended <=> e.type \in {"end", "fail"}
    BY <1>3, SentType, BoundAssumption DEF TypeInv, TypeOK, ResponseInv, Response
  <2>2. \A c \in Call : s[c] \in 0 .. 4 /\ t[c] \in 0 .. 4 /\ (c # e.call => t[c] = s[c])
    BY <1>3, SentSteps
  <2>3. e.call \notin Call => \A c \in Call : t[c] = s[c]
    BY <2>2
  <2>4. e.type = "start" => /\ e.call \in Call /\ kind # "responses"
                            /\ kind = "anthropic" => AllAt({0, 4})
                            /\ kind = "openai" => ~server.finished
                            /\ s[e.call] = 0 /\ t[e.call] = 1
                            /\ \A c \in Call : c < e.call => s[c] > 0
    BY <1>3, SentSteps
  <2>5. e.type = "part" => /\ e.call \in Call
                           /\ s[e.call] < 2 => t[e.call] = 2
                           /\ s[e.call] >= 2 => t[e.call] = 3
                           /\ kind = "anthropic" => s[e.call] \in {1, 2}
                           /\ kind = "openai" => s[e.call] \in {0, 1, 2} /\ ~server.finished
                           /\ kind = "responses" => s[e.call] \in {0, 2}
                           /\ kind # "anthropic" => \A c \in Call : c < e.call => s[c] > 0
    BY <1>3, SentSteps
  <2>6. e.type = "stop" => e.call \in Call /\ kind # "openai" /\ s[e.call] = 3 /\ t[e.call] = 4
    BY <1>3, SentSteps
  <2>7. /\ e.call \in Call <=> e.type \in {"start", "part", "stop"}
        /\ e.type = "finish" => kind = "openai" /\ AllAt({0, 3})
        /\ e.type = "end" => IF kind = "openai" THEN server.finished ELSE AllAt({0, 4})
        /\ e.type = "fail" => kind # "openai"
    BY <1>3, SentSteps
  <2>8. \A c \in Call : t[c] >= s[c] /\ (s[c] = 4 => t[c] = 4)
    <3>1. e.call \in Call => t[e.call] >= s[e.call] /\ s[e.call] # 4
      <4> HIDE DEF s, t
      <4>1. CASE e.type = "start"
        BY <2>2, <2>4, <4>1
      <4>2. CASE e.type = "part"
        <5>1. kind \in {"openai", "anthropic", "responses"}
          BY DEF TypeInv, TypeOK
        <5> QED
          BY <2>2, <2>5, <4>2, <5>1
      <4>3. CASE e.type = "stop"
        BY <2>2, <2>6, <4>3
      <4> QED
        BY <2>7, <4>1, <4>2, <4>3
    <3> QED
      BY <2>2, <3>1
  <2>9. ASSUME NEW c \in Call, NEW d \in Call, c < d, t[d] > 0
        PROVE  t[c] > 0 /\ (kind = "anthropic" => t[c] = 4)
    <3>0. s[d] > 0 => s[c] > 0 /\ (kind = "anthropic" => s[c] = 4)
      BY <2>9 DEF GrammarInv
    <3> HIDE DEF s, t
    <3>1. CASE s[d] > 0
      BY <3>0, <3>1, <2>8, <2>2
    <3>2. CASE s[d] = 0
      <4>1. d = e.call
        BY <2>9, <3>2, <2>2
      <4>2. s[c] > 0 /\ (kind = "anthropic" => s[c] = 4)
        <5>1. CASE e.type = "start"
          <6>1. s[c] > 0 /\ (kind = "anthropic" => AllAt({0, 4}))
            BY <2>4, <2>9, <4>1, <5>1
          <6> QED
            BY <6>1 DEF AllAt, s
        <5>2. CASE e.type = "part"
          BY <2>5, <2>9, <3>2, <4>1, <5>2
        <5>3. CASE e.type = "stop"
          BY <2>6, <3>2, <4>1, <5>3
        <5> QED
          BY <2>7, <4>1, <5>1, <5>2, <5>3
      <4> QED
        BY <4>2, <2>8, <2>2
    <3> QED
      BY <3>1, <3>2, <2>2
  <2>10. kind = "openai" =>
           /\ \A c \in Call : t[c] \in 0 .. 3
           /\ server'.finished => \A c \in Call : t[c] \in {0, 3}
           /\ server'.ended => server'.finished
    BY <2>1, <2>2, <2>3, <2>4, <2>5, <2>6, <2>7 DEF GrammarInv, AllAt
  <2>11. kind = "responses" => \A c \in Call : t[c] \in {0, 2, 3, 4}
    BY <2>1, <2>2, <2>3, <2>4, <2>5, <2>6, <2>7 DEF GrammarInv
  <2>12. kind # "openai" => ~server'.finished
    BY <2>1, <2>7 DEF GrammarInv
  <2>13. broken' = 0 /\ server'.ended /\ (kind = "anthropic" => fits) =>
           /\ place' = "end"
           /\ result' = "done" => kind = "openai" \/ \A c \in Call : t[c] \in {0, 4}
    BY <1>3, <2>1, <2>3, <2>7 DEF AllAt
  <2> QED
    BY <1>0, <2>9, <2>10, <2>11, <2>12, <2>13 DEF GrammarInv, AllAt
<1>4. CASE UNCHANGED vars
  BY <1>4 DEF vars, GrammarInv, AllAt
<1> QED
  BY <1>1, <1>2, <1>3, <1>4, StepKinds

-------------------------------------------------------------------------------
(* What the chunks given out are. *)

LEMMA ChunkKinds ==
  /\ Say.type = "say" /\ Chunk("done").type = "done"
  /\ \A n : Count(n).type = "usage" /\ Count(n).count = n
  /\ \A id, args : LET x == ToolCall(id, args) IN
       x.type = "call" /\ x.id = id /\ x.input = Parsed(args)
BY DEF Say, Chunk, Count, ToolCall

\* One more chunk, by its kind.
LEMMA OneMoreOf ==
  ASSUME out \in Seq(OutChunk), NEW x \in OutChunk,
         out' = Append(out, x) \/ out' = out \o <<x>>
  PROVE  /\ Len(out) \in Nat /\ out' \in Seq(OutChunk)
         /\ out'[Len(out) + 1] = x
         /\ \A i \in DOMAIN out : out'[i] = out[i] /\ i \in 1 .. Len(out)
         /\ DOMAIN out' = DOMAIN out \cup {Len(out) + 1}
         /\ CallsOut' = IF x.type = "call" THEN CallsOut \cup {Len(out) + 1} ELSE CallsOut
         /\ SaysOut' = IF x.type = "say" THEN SaysOut \cup {Len(out) + 1} ELSE SaysOut
         /\ UsagesOut' = IF x.type = "usage" THEN UsagesOut \cup {Len(out) + 1} ELSE UsagesOut
<1>1. /\ out' \in Seq(OutChunk) /\ Len(out') = Len(out) + 1
      /\ \A i \in 1 .. Len(out') : i \in 1 .. Len(out) \/ i = Len(out) + 1
      /\ \A i \in 1 .. Len(out) : out'[i] = out[i]
      /\ out'[Len(out) + 1] = x
  BY OneMore
<1>2. /\ Len(out) \in Nat /\ DOMAIN out = 1 .. Len(out)
      /\ DOMAIN out' = DOMAIN out \cup {Len(out) + 1} /\ Len(out) + 1 \notin DOMAIN out
      /\ DOMAIN out' = DOMAIN (out')
  BY <1>1
<1>3. /\ CallsOut' = {i \in DOMAIN out \cup {Len(out) + 1} : out'[i].type = "call"}
      /\ SaysOut' = {i \in DOMAIN out \cup {Len(out) + 1} : out'[i].type = "say"}
      /\ UsagesOut' = {i \in DOMAIN out \cup {Len(out) + 1} : out'[i].type = "usage"}
  BY <1>2 DEF CallsOut, SaysOut, UsagesOut
<1>4. \A i \in DOMAIN out : out'[i] = out[i]
  BY <1>1, <1>2
<1>5. CallsOut' = IF x.type = "call" THEN CallsOut \cup {Len(out) + 1} ELSE CallsOut
  BY <1>1, <1>2, <1>3, <1>4 DEF CallsOut
<1>6. SaysOut' = IF x.type = "say" THEN SaysOut \cup {Len(out) + 1} ELSE SaysOut
  BY <1>1, <1>2, <1>3, <1>4 DEF SaysOut
<1>7. UsagesOut' = IF x.type = "usage" THEN UsagesOut \cup {Len(out) + 1} ELSE UsagesOut
  BY <1>1, <1>2, <1>3, <1>4 DEF UsagesOut
<1> QED
  BY <1>1, <1>2, <1>4, <1>5, <1>6, <1>7

\* A chunk that is no call.
LEMMA NoMoreCalls ==
  ASSUME TypeInv, server.response = 1,
         \/ out' = out
         \/ out' = out \o <<Say>>
         \/ \E n \in Nat : out' = out \o <<Count(n)>>
         \/ out' = Append(out, Chunk("done"))
  PROVE  CallsOut' = CallsOut /\ \A i \in CallsOut : out'[i] = out[i]
<1>1. out \in Seq(OutChunk) /\ Say \in OutChunk /\ Chunk("done") \in OutChunk
      /\ \A n \in Nat : Count(n) \in OutChunk
  BY OutType DEF TypeInv, TypeOK
<1>2. CallsOut \subseteq DOMAIN out
  BY DEF CallsOut
<1>3. CASE out' = out
  BY <1>3 DEF CallsOut
<1>4. ASSUME NEW x \in OutChunk, x.type # "call",
             out' = Append(out, x) \/ out' = out \o <<x>>
      PROVE  CallsOut' = CallsOut /\ \A i \in CallsOut : out'[i] = out[i]
  BY <1>1, <1>2, <1>4, OneMoreOf
<1> QED
  BY <1>1, <1>3, <1>4, ChunkKinds

-------------------------------------------------------------------------------
(* openai.rs. *)

\* What the steps of the client do to its buffer and to the calls given out.
LEMMA OpenaiSteps ==
  ASSUME TypeInv, kind = "openai", [Next]_vars
  PROVE  \/ /\ acc' = [c \in Call |-> Empty]
            /\ \/ server'.step = server.step /\ (server'.finished \/ place' = "end")
               \/ CallsOut' = {} /\ \A c \in Call : server'.step[c] = 0
         \/ \E e \in Event :
              /\ Sent(e) /\ UNCHANGED <<acc, out>> /\ place' = place
              /\ broken' = broken + 1
         \/ \E e \in Event :
              /\ OpenaiPart(e) /\ place = "read"
              /\ broken' = broken /\ out' = out
         \/ /\ UNCHANGED <<acc, broken>>
            /\ server'.step = server.step /\ server'.finished = server.finished
            /\ CallsOut' = CallsOut
            /\ place = "end" => place' = "end"
<1> USE DEF readVars
<1>1. CASE SendOk
  <2>1. CallsOut' = {}
    BY <1>1 DEF SendOk, TypeInv, ResponseInv, CallsOut
  <2>2. \A c \in Call : server'.step[c] = 0
    BY <1>1 DEF SendOk, Silent
  <2> QED
    BY <1>1, <2>1, <2>2 DEF SendOk
<1>2. CASE SendFails \/ Closed \/ ErrorEarly \/ AfterLoop
  BY <1>2 DEF SendFails, Closed, ErrorEarly, AfterLoop, CountAttempt, GiveUp, End, CallsOut
<1>3. CASE ErrorLate
  <2>1. /\ UNCHANGED <<acc, server, broken>> /\ out' = Append(out, Chunk("done"))
        /\ place' = "end" /\ server.response = 1
    BY <1>3 DEF ErrorLate, End, TypeInv, ResponseInv
  <2>2. CallsOut' = CallsOut
    BY <2>1, NoMoreCalls
  <2> QED
    BY <2>1, <2>2
<1>4. CASE OpenaiAfterLoop
  BY <1>4 DEF OpenaiAfterLoop, Drain, End
<1>5. CASE SkipBroken
  BY <1>5 DEF SkipBroken
<1>6. ASSUME NEW e \in Event, OpenaiRead(e)
      PROVE  \/ OpenaiPart(e) /\ place = "read" /\ broken' = broken /\ out' = out
             \/ /\ acc' = [c \in Call |-> Empty] /\ server'.step = server.step
                /\ server'.finished \/ place' = "end"
             \/ /\ UNCHANGED <<acc, broken>> /\ CallsOut' = CallsOut /\ place' = place
                /\ server'.step = server.step /\ server'.finished = server.finished
  <2>1. Sent(e)
    BY <1>6 DEF OpenaiRead, Delta, OpenaiPart, OpenaiFinish, OpenaiUsage, OpenaiDone, Arrives
  <2>2. /\ place = "read" /\ server.response = 1 /\ server'.counts \in Nat
        /\ server' \in Response /\ server \in Response
    BY <2>1, ArrivesType DEF TypeInv, TypeOK
  <2>3. /\ server.finished \in BOOLEAN /\ server'.finished \in BOOLEAN
        /\ server'.finished <=> server.finished \/ e.type = "finish"
    BY <2>1, <2>2, SentType DEF TypeInv, Response
  <2>4. e.type \notin {"start", "part"} => server'.step = server.step
    <3>1. ASSUME e.type \notin {"start", "part"}
          PROVE  \A c \in Call : server'.step[c] = server.step[c]
      BY <2>1, <3>1, SentSteps
    <3> QED
      BY <2>1, <3>1, SentSteps
  <2>5. CASE Delta(e)
    <3>1. /\ e.type = "say" /\ out' = out \o <<Say>> /\ UNCHANGED <<acc, broken, place>>
      BY <2>5 DEF Delta, Yield, Goes, Arrives
    <3>2. CallsOut' = CallsOut
      BY <2>2, <3>1, NoMoreCalls
    <3> QED
      BY <2>3, <2>4, <3>1, <3>2
  <2>6. CASE OpenaiPart(e)
    BY <2>2, <2>6 DEF OpenaiPart, Arrives
  <2>7. CASE OpenaiFinish(e)
    BY <2>3, <2>4, <2>7 DEF OpenaiFinish, Drain
  <2>8. CASE OpenaiUsage(e)
    <3>1. /\ e.type = "count" /\ out' = out \o <<Count(server'.counts)>>
          /\ UNCHANGED <<acc, broken, place>>
      BY <2>8 DEF OpenaiUsage, Yield, Goes, Arrives
    <3>2. CallsOut' = CallsOut
      BY <2>2, <3>1, NoMoreCalls
    <3> QED
      BY <2>3, <2>4, <3>1, <3>2
  <2>9. CASE OpenaiDone(e)
    BY <2>4, <2>9 DEF OpenaiDone, Drain, End
  <2> QED
    BY <1>6, <2>5, <2>6, <2>7, <2>8, <2>9 DEF OpenaiRead
<1>7. ASSUME NEW e \in Event PROVE ~AnthropicRead(e) /\ ~ResponsesRead(e) /\ ~ServerError(e)
  <2>1. ServerError(e) => Sent(e) /\ e.type = "fail"
    BY DEF ServerError, Arrives
  <2> QED
    BY <2>1, SentSteps DEF AnthropicRead, ResponsesRead
<1>8. CASE UNCHANGED vars
  BY <1>8 DEF vars, CallsOut
<1> QED
  BY <1>1, <1>2, <1>3, <1>4, <1>5, <1>6, <1>7, <1>8 DEF Next, Read

LEMMA Pair ==
  ASSUME NEW p, NEW q
  PROVE  Append(<<p>>, q) = <<p, q>>
<1> DEFINE s == Append(<<p>>, q)
           t == <<p, q>>
<1>1. s \in Seq({p, q}) /\ Len(s) = 2 /\ s[1] = p /\ s[2] = q
  OBVIOUS
<1>2. t \in Seq({p, q}) /\ Len(t) = 2 /\ t[1] = p /\ t[2] = q
  OBVIOUS
<1> HIDE DEF s, t
<1>3. s = t
  BY <1>1, <1>2, SeqEqual
<1> QED
  BY <1>3 DEF s, t

\* What is kept of a call is told by the parts in it.
LEMMA PiecesApart ==
  ASSUME NEW c
  PROVE  /\ << <<c, 1>> >> # <<>> /\ << <<c, 2>> >> # <<>> /\ Whole(c) # <<>>
         /\ << <<c, 1>> >> # << <<c, 2>> >> /\ << <<c, 1>> >> # Whole(c) /\ << <<c, 2>> >> # Whole(c)
         /\ Append(<<>>, <<c, 1>>) = << <<c, 1>> >> /\ Append(<<>>, <<c, 2>>) = << <<c, 2>> >>
         /\ Append(<< <<c, 1>> >>, <<c, 2>>) = Whole(c)
<1>1. Len(<<>>) = 0 /\ Len(<< <<c, 1>> >>) = 1 /\ Len(<< <<c, 2>> >>) = 1 /\ Len(Whole(c)) = 2
  BY DEF Whole
<1>2. << <<c, 1>> >>[1][2] = 1 /\ << <<c, 2>> >>[1][2] = 2
  OBVIOUS
<1>3. << <<c, 1>> >> # << <<c, 2>> >>
  BY <1>2
<1>4. /\ << <<c, 1>> >> # <<>> /\ << <<c, 2>> >> # <<>> /\ Whole(c) # <<>>
      /\ << <<c, 1>> >> # Whole(c) /\ << <<c, 2>> >> # Whole(c)
  BY <1>1
<1>5. Append(<<>>, <<c, 1>>) = << <<c, 1>> >> /\ Append(<<>>, <<c, 2>>) = << <<c, 2>> >>
  OBVIOUS
<1>6. Append(<< <<c, 1>> >>, <<c, 2>>) = Whole(c)
  BY Pair, Zenon DEF Whole
<1> QED
  BY <1>3, <1>4, <1>5, <1>6

\* A call is alone in its place until a second one is merged with it.
LEMMA StillApart ==
  ASSUME TypeInv, kind = "openai", NEW e \in Event, Sent(e), ~Merged'
  PROVE  ~Merged /\ (e.call \in Call => Slot(e.call) = e.call)
<1>1. kind' = kind /\ fits' = fits
  BY SentType DEF TypeInv
<1>2. \A c \in Call : server.step[c] > 0 => server'.step[c] > 0
  BY <1>1, SentSteps
<1>3. e.call \in Call => server'.step[e.call] > 0
  BY SentSteps
<1> QED
  BY <1>1, <1>2, <1>3 DEF Merged, Slot

LEMMA OpenaiInvNext == TypeInv /\ GrammarInv /\ OpenaiInv /\ [Next]_vars => OpenaiInv'
<1> SUFFICES ASSUME TypeInv, GrammarInv, OpenaiInv, [Next]_vars, kind = "openai"
             PROVE  /\ CallsOut' # {} => /\ server'.finished \/ place' = "end"
                                         /\ \A c \in Call : ~acc'[c].open
                    /\ ~fits' => \A c \in Call : c # 1 => ~acc'[c].open
                    /\ ~Merged' => \A c \in Call : OpenaiBuffer(c)'
  BY StepKinds DEF OpenaiInv
<1>0. kind' = kind /\ fits' = fits
  BY StepKinds
<1>1. /\ acc \in [Call -> Buffer] /\ broken \in Nat
      /\ \A c \in Call : server.step[c] \in 0 .. 3
      /\ server.finished \in BOOLEAN
  BY BoundAssumption DEF TypeInv, TypeOK, Response, GrammarInv
<1>2. /\ CallsOut # {} => /\ server.finished \/ place = "end"
                          /\ \A c \in Call : ~acc[c].open
      /\ ~fits => \A c \in Call : c # 1 => ~acc[c].open
      /\ ~Merged => \A c \in Call : OpenaiBuffer(c)
  BY DEF OpenaiInv
<1>3. CASE /\ acc' = [d \in Call |-> Empty]
           /\ \/ server'.step = server.step /\ (server'.finished \/ place' = "end")
              \/ CallsOut' = {} /\ \A d \in Call : server'.step[d] = 0
  <2>1. \A c \in Call : acc'[c].args = <<>> /\ ~acc'[c].open /\ acc'[c].id = NoCall
    BY <1>3 DEF Empty
  <2>2. \A c \in Call :
          ~server'.finished /\ place' # "end" => server'.step[c] = 0 /\ CallsOut' = {}
    BY <1>3
  <2>3. CallsOut' # {} => server'.finished \/ place' = "end"
    BY <1>3
  <2>4. ASSUME NEW c \in Call PROVE OpenaiBuffer(c)'
    BY <2>1, <2>2, PiecesApart DEF OpenaiBuffer, Pieces, Exact
  <2> QED
    BY <2>1, <2>3, <2>4
<1>4. ASSUME NEW e \in Event, Sent(e), UNCHANGED <<acc, out>>, place' = place,
             broken' = broken + 1
      PROVE  /\ CallsOut' # {} => /\ server'.finished \/ place' = "end"
                                  /\ \A c \in Call : ~acc'[c].open
             /\ ~fits' => \A c \in Call : c # 1 => ~acc'[c].open
             /\ ~Merged' => \A c \in Call : OpenaiBuffer(c)'
  <2>1. ASSUME NEW c \in Call
        PROVE  /\ server'.step[c] = 0 => server.step[c] = 0
               /\ server'.step[c] = 1 => server.step[c] \in {0, 1}
               /\ server'.step[c] = 2 => server.step[c] \in {0, 1, 2}
    BY <1>1, <1>4, SentSteps
  <2>2. server.finished => server'.finished
    BY <1>4, SentType DEF TypeInv
  <2>3. broken' # 0 /\ CallsOut' = CallsOut
    BY <1>1, <1>4 DEF CallsOut
  <2>4. ASSUME ~Merged', NEW c \in Call PROVE OpenaiBuffer(c)'
    <3>1. OpenaiBuffer(c)
      BY <1>2, <1>4, <2>4, StillApart
    <3>2. server.step[c] = 0 => acc[c].args = <<>>
      BY <3>1 DEF OpenaiBuffer
    <3> QED
      BY <1>4, <2>1, <2>3, <3>1, <3>2 DEF OpenaiBuffer
  <2> QED
    BY <1>0, <1>2, <1>4, <2>2, <2>3, <2>4
<1>5. ASSUME NEW e \in Event, OpenaiPart(e), place = "read", broken' = broken, out' = out
      PROVE  /\ CallsOut' # {} => /\ server'.finished \/ place' = "end"
                                  /\ \A c \in Call : ~acc'[c].open
             /\ ~fits' => \A c \in Call : c # 1 => ~acc'[c].open
             /\ ~Merged' => \A c \in Call : OpenaiBuffer(c)'
  <2> DEFINE d == e.call
             s == server.step[d]
             t == server'.step[d]
  <2>1. /\ Sent(e) /\ e.type \in {"start", "part"} /\ place' = place /\ CallsOut' = CallsOut
        /\ acc' = [acc EXCEPT ![Slot(d)] =
             [open |-> TRUE,
              id   |-> IF Step(e) = 0 THEN d ELSE acc[Slot(d)].id,
              args |-> IF e.type = "part" THEN Append(acc[Slot(d)].args, PartOf(e))
                                          ELSE acc[Slot(d)].args]]
    BY <1>5 DEF OpenaiPart, Arrives, Goes, CallsOut
  <2>2. /\ d \in Call /\ Slot(d) \in Call /\ Step(e) = s
        /\ ~server.finished /\ ~server'.finished
        /\ \A c \in Call : c # d => server'.step[c] = server.step[c]
        /\ \/ e.type = "start" /\ s = 0 /\ t = 1
           \/ e.type = "part" /\ s \in {0, 1} /\ t = 2 /\ PartOf(e) = <<d, 1>>
           \/ e.type = "part" /\ s = 2 /\ t = 3 /\ PartOf(e) = <<d, 2>>
    <3>1. /\ d \in Call /\ ~server.finished /\ Step(e) = s
          /\ server' \in Response /\ (server'.finished <=> server.finished)
      BY <2>1, SentType, SentSteps DEF TypeInv
    <3> QED
      BY <1>1, <2>1, <3>1, SentSteps, SlotType
  <2>3. CallsOut' = {}
    BY <1>2, <1>5, <2>1, <2>2
  <2>4. ~fits' => \A c \in Call : c # 1 => ~acc'[c].open
    BY <1>0, <1>1, <1>2, <2>1, <2>2 DEF Slot
  <2>5. ASSUME ~Merged', NEW c \in Call PROVE OpenaiBuffer(c)'
    <3>1. Slot(d) = d /\ OpenaiBuffer(c)
      BY <1>2, <2>1, <2>2, <2>5, StillApart
    <3>2. CASE c # d
      <4>1. acc'[c] = acc[c]
        BY <1>1, <2>1, <2>2, <3>1, <3>2
      <4> QED
        BY <1>5, <2>1, <2>2, <3>1, <3>2, <4>1 DEF OpenaiBuffer
    <3>3. CASE c = d
      <4> DEFINE more == IF e.type = "part" THEN Append(acc[d].args, PartOf(e)) ELSE acc[d].args
                 name == IF s = 0 THEN d ELSE acc[d].id
      <4>1. acc'[d].open = TRUE /\ acc'[d].id = name /\ acc'[d].args = more
        <5>1. acc'[d] = [open |-> TRUE, id |-> name, args |-> more]
          BY <1>1, <2>1, <2>2, <3>1
        <5> HIDE DEF more, name
        <5> QED
          BY <5>1
      <4>2. name \in {d, NoCall} /\ (broken = 0 => name = d)
        BY <1>5, <2>2, <3>1, <3>3 DEF OpenaiBuffer
      <4>3. /\ more \in Pieces(d)
            /\ t = 1 => more = <<>>
            /\ t = 2 => more \in {<<>>, << <<d, 1>> >>}
            /\ broken = 0 => more = Exact(d, t)
        <5>1. CASE e.type = "start" /\ s = 0 /\ t = 1
          <6>1. more = <<>>
            BY <3>1, <3>3, <5>1 DEF OpenaiBuffer
          <6> QED
            BY <5>1, <6>1 DEF Pieces, Exact
        <5>2. CASE e.type = "part" /\ s \in {0, 1} /\ t = 2 /\ PartOf(e) = <<d, 1>>
          <6>1. acc[d].args = <<>>
            BY <3>1, <3>3, <5>2 DEF OpenaiBuffer
          <6>2. more = << <<d, 1>> >>
            BY <5>2, <6>1, PiecesApart
          <6> QED
            BY <5>2, <6>2 DEF Pieces, Exact
        <5>3. CASE e.type = "part" /\ s = 2 /\ t = 3 /\ PartOf(e) = <<d, 2>>
          <6>1. acc[d].args \in {<<>>, << <<d, 1>> >>}
            BY <3>1, <3>3, <5>3 DEF OpenaiBuffer
          <6>2. broken = 0 => acc[d].args = << <<d, 1>> >>
            BY <1>5, <2>2, <3>1, <3>3, <5>3 DEF OpenaiBuffer, Exact
          <6>3. /\ acc[d].args = <<>> => more = << <<d, 2>> >>
                /\ acc[d].args = << <<d, 1>> >> => more = Whole(d)
            BY <5>3, PiecesApart
          <6> HIDE DEF more
          <6> QED
            BY <5>3, <6>1, <6>2, <6>3 DEF Pieces, Exact
        <5> QED
          BY <2>2, <5>1, <5>2, <5>3
      <4> HIDE DEF more, name
      <4>4. t # 0
        BY <2>2
      <4> QED
        BY <1>5, <2>2, <3>3, <4>1, <4>2, <4>3, <4>4 DEF OpenaiBuffer
    <3> QED
      BY <3>2, <3>3
  <2> QED
    BY <2>3, <2>4, <2>5
<1>6. CASE /\ UNCHANGED <<acc, broken>>
           /\ server'.step = server.step /\ server'.finished = server.finished
           /\ CallsOut' = CallsOut
           /\ place = "end" => place' = "end"
  <2>1. Merged' <=> Merged
    BY <1>0, <1>6 DEF Merged
  <2>2. ASSUME NEW c \in Call, OpenaiBuffer(c) PROVE OpenaiBuffer(c)'
    BY <1>6, <2>2 DEF OpenaiBuffer
  <2> QED
    BY <1>0, <1>2, <1>6, <2>1, <2>2
<1> QED
  BY <1>3, <1>4, <1>5, <1>6, OpenaiSteps

-------------------------------------------------------------------------------
(* openai_responses.rs. *)

\* A usage, or none, and the mark of the end.
LEMMA CompletedOut ==
  ASSUME TypeInv, server.response = 1, NEW n \in Nat, NEW full \in BOOLEAN,
         out' = out \o (IF full THEN <<Count(n)>> ELSE <<>>) \o <<Chunk("done")>>
  PROVE  /\ Len(out) \in Nat
         /\ CallsOut' = CallsOut /\ SaysOut' = SaysOut
         /\ UsagesOut' = IF full THEN UsagesOut \cup {Len(out) + 1} ELSE UsagesOut
         /\ \A i \in DOMAIN out : out'[i] = out[i] /\ i \in 1 .. Len(out)
         /\ full => out'[Len(out) + 1] = Count(n)
<1>1. /\ out \in Seq(OutChunk) /\ Chunk("done") \in OutChunk /\ Count(n) \in OutChunk
      /\ Chunk("done").type = "done" /\ Count(n).type = "usage"
  BY OutType, ChunkKinds DEF TypeInv, TypeOK
<1>2. CASE ~full
  <2>1. out' = out \o <<Chunk("done")>>
    BY <1>1, <1>2
  <2> QED
    BY <1>1, <1>2, <2>1, OneMoreOf
<1>3. CASE full
  <2>1. out' = out \o <<Count(n)>> \o <<Chunk("done")>>
    BY <1>3
  <2>2. /\ Len(out') = Len(out) + 2 /\ Len(out) \in Nat
        /\ \A i \in 1 .. Len(out) : out'[i] = out[i]
        /\ out'[Len(out) + 1] = Count(n) /\ out'[Len(out) + 2] = Chunk("done")
        /\ out' \in Seq(OutChunk)
    <3>1. Len(out) \in Nat
      BY <1>1
    <3> QED
      BY <1>1, <2>1, <3>1, TwoMore
  <2>3. /\ DOMAIN out = 1 .. Len(out) /\ DOMAIN out' = 1 .. Len(out) + 2
        /\ DOMAIN (out') = 1 .. Len(out) + 2
    BY <1>1, <2>2
  <2>4. /\ \A i \in DOMAIN out' : i \in DOMAIN out \/ i = Len(out) + 1 \/ i = Len(out) + 2
        /\ Len(out) + 1 \notin DOMAIN out /\ Len(out) + 2 \notin DOMAIN out
        /\ Len(out) + 1 \in DOMAIN out' /\ Len(out) + 2 \in DOMAIN out'
        /\ DOMAIN out \subseteq DOMAIN out' /\ Len(out) + 1 # Len(out) + 2
    BY <2>2, <2>3
  <2>5. /\ CallsOut' = {i \in DOMAIN out' : out'[i].type = "call"}
        /\ SaysOut' = {i \in DOMAIN out' : out'[i].type = "say"}
        /\ UsagesOut' = {i \in DOMAIN out' : out'[i].type = "usage"}
    BY DEF CallsOut, SaysOut, UsagesOut
  <2>6. \A i \in DOMAIN out : out'[i] = out[i]
    BY <2>2, <2>3
  <2>7. CallsOut' = CallsOut
    BY <1>1, <2>2, <2>4, <2>5, <2>6 DEF CallsOut
  <2>8. SaysOut' = SaysOut
    BY <1>1, <2>2, <2>4, <2>5, <2>6 DEF SaysOut
  <2>9. UsagesOut' = UsagesOut \cup {Len(out) + 1}
    BY <1>1, <2>2, <2>4, <2>5, <2>6 DEF UsagesOut
  <2> QED
    BY <1>3, <2>2, <2>3, <2>6, <2>7, <2>8, <2>9
<1> QED
  BY <1>2, <1>3

\* What the steps of the client do to its buffer and to the calls given out.
LEMMA ResponsesSteps ==
  ASSUME TypeInv, kind = "responses", [Next]_vars
  PROVE  \/ /\ acc' = [c \in Call |-> Empty] /\ CallsOut' = {}
            /\ \A c \in Call : server'.step[c] = 0
         \/ \E e \in Event :
              /\ Sent(e) /\ UNCHANGED <<acc, out>> /\ broken' = broken + 1
         \/ \E e \in Event : ResponsesPart(e) /\ broken' = broken /\ out' = out
         \/ \E e \in Event : ResponsesItem(e) /\ broken' = broken
         \/ /\ UNCHANGED <<acc, broken>> /\ server'.step = server.step
            /\ CallsOut' = CallsOut /\ \A i \in CallsOut : out'[i] = out[i]
<1> USE DEF readVars
<1>1. CASE SendOk
  <2>1. CallsOut' = {}
    BY <1>1 DEF SendOk, TypeInv, ResponseInv, CallsOut
  <2>2. \A c \in Call : server'.step[c] = 0
    BY <1>1 DEF SendOk, Silent
  <2> QED
    BY <1>1, <2>1, <2>2 DEF SendOk
<1>2. CASE SendFails \/ Closed \/ ErrorEarly \/ AfterLoop
  BY <1>2 DEF SendFails, Closed, ErrorEarly, AfterLoop, CountAttempt, GiveUp, End, CallsOut
<1>3. CASE ErrorLate
  <2>1. /\ UNCHANGED <<acc, server, broken>> /\ out' = Append(out, Chunk("done"))
        /\ server.response = 1
    BY <1>3 DEF ErrorLate, End, TypeInv, ResponseInv
  <2>2. CallsOut' = CallsOut /\ \A i \in CallsOut : out'[i] = out[i]
    BY <2>1, NoMoreCalls
  <2> QED
    BY <2>1, <2>2
<1>4. CASE SkipBroken
  BY <1>4 DEF SkipBroken
<1>5. ASSUME NEW e \in Event, ResponsesRead(e) \/ ServerError(e)
      PROVE  \/ ResponsesPart(e) /\ broken' = broken /\ out' = out
             \/ ResponsesItem(e) /\ broken' = broken
             \/ /\ UNCHANGED <<acc, broken>> /\ server'.step = server.step
                /\ CallsOut' = CallsOut /\ \A i \in CallsOut : out'[i] = out[i]
  <2>1. Sent(e)
    BY <1>5 DEF ResponsesRead, Delta, ResponsesPart, ResponsesItem, ResponsesCompleted,
                ServerError, Arrives
  <2>2. /\ server.response = 1 /\ server'.counts \in Nat /\ server' \in Response
        /\ server \in Response /\ e.full \in BOOLEAN
    BY <2>1, ArrivesType DEF TypeInv, TypeOK, Event
  <2>3. e.type \notin {"start", "part", "stop"} => server'.step = server.step
    <3>1. ASSUME e.type \notin {"start", "part", "stop"}
          PROVE  \A c \in Call : server'.step[c] = server.step[c]
      BY <2>1, <3>1, SentSteps
    <3> QED
      BY <2>1, <3>1, SentSteps
  <2>4. CASE Delta(e)
    <3>1. e.type = "say" /\ out' = out \o <<Say>> /\ UNCHANGED <<acc, broken>>
      BY <2>4 DEF Delta, Yield, Arrives
    <3>2. CallsOut' = CallsOut /\ \A i \in CallsOut : out'[i] = out[i]
      BY <2>2, <3>1, NoMoreCalls
    <3> QED
      BY <2>3, <3>1, <3>2
  <2>5. CASE ResponsesPart(e)
    BY <2>5 DEF ResponsesPart, Arrives
  <2>6. CASE ResponsesItem(e)
    BY <2>6 DEF ResponsesItem, Arrives
  <2>7. CASE ResponsesCompleted(e)
    <3>1. /\ e.type = "end" /\ UNCHANGED <<acc, broken>>
          /\ out' = out \o (IF e.full THEN <<Count(server'.counts)>> ELSE <<>>)
                        \o <<Chunk("done")>>
      BY <2>7 DEF ResponsesCompleted, Arrives
    <3>2. CallsOut' = CallsOut /\ \A i \in DOMAIN out : out'[i] = out[i]
      BY <2>2, <3>1, CompletedOut
    <3> QED
      BY <2>3, <3>1, <3>2 DEF CallsOut
  <2>8. CASE ServerError(e)
    <3>1. e.type = "fail" /\ UNCHANGED <<acc, out, broken>>
      BY <2>8 DEF ServerError, Arrives
    <3> QED
      BY <2>3, <3>1 DEF CallsOut
  <2> QED
    BY <1>5, <2>4, <2>5, <2>6, <2>7, <2>8 DEF ResponsesRead
<1>6. ~OpenaiAfterLoop /\ \A e \in Event : ~OpenaiRead(e) /\ ~AnthropicRead(e)
  BY DEF OpenaiAfterLoop, OpenaiRead, AnthropicRead
<1>7. CASE UNCHANGED vars
  BY <1>7 DEF vars, CallsOut
<1> QED
  BY <1>1, <1>2, <1>3, <1>4, <1>5, <1>6, <1>7 DEF Next, Read

LEMMA ResponsesInvNext == TypeInv /\ GrammarInv /\ ResponsesInv /\ [Next]_vars => ResponsesInv'
<1> SUFFICES ASSUME TypeInv, GrammarInv, ResponsesInv, [Next]_vars, kind = "responses"
             PROVE  /\ \A c \in Call : ResponsesBuffer(c)'
                    /\ \A i \in CallsOut' : out'[i].id \in Call /\ server'.step[out'[i].id] = 4
  BY StepKinds DEF ResponsesInv
<1>1. /\ \A c \in Call : ResponsesBuffer(c)
      /\ \A i \in CallsOut : out[i].id \in Call /\ server.step[out[i].id] = 4
  BY DEF ResponsesInv
<1>2. /\ acc \in [Call -> Buffer] /\ broken \in Nat
      /\ \A c \in Call : server.step[c] \in {0, 2, 3, 4}
  BY BoundAssumption DEF TypeInv, TypeOK, GrammarInv
<1>3. CASE /\ acc' = [c \in Call |-> Empty] /\ CallsOut' = {}
           /\ \A c \in Call : server'.step[c] = 0
  <2>1. \A c \in Call : acc'[c].args = <<>>
    BY <1>3 DEF Empty
  <2> QED
    BY <1>3, <2>1 DEF ResponsesBuffer, Pieces, Exact
<1>4. ASSUME NEW e \in Event, Sent(e), UNCHANGED <<acc, out>>, broken' = broken + 1
      PROVE  /\ \A c \in Call : ResponsesBuffer(c)'
             /\ \A i \in CallsOut' : out'[i].id \in Call /\ server'.step[out'[i].id] = 4
  <2>1. \A c \in Call : /\ server'.step[c] = 0 => server.step[c] = 0
                        /\ server'.step[c] = 2 => server.step[c] \in {0, 2}
                        /\ server.step[c] = 4 => server'.step[c] = 4
    BY <1>2, <1>4, SentSteps
  <2>2. broken' # 0 /\ CallsOut' = CallsOut
    BY <1>2, <1>4 DEF CallsOut
  <2>3. ASSUME NEW c \in Call PROVE ResponsesBuffer(c)'
    <3>1. ResponsesBuffer(c)
      BY <1>1
    <3> QED
      BY <1>4, <2>1, <2>2, <3>1 DEF ResponsesBuffer
  <2> QED
    BY <1>1, <1>4, <2>1, <2>2, <2>3
<1>5. ASSUME NEW e \in Event, ResponsesPart(e), broken' = broken, out' = out
      PROVE  /\ \A c \in Call : ResponsesBuffer(c)'
             /\ \A i \in CallsOut' : out'[i].id \in Call /\ server'.step[out'[i].id] = 4
  <2>1. Sent(e) /\ e.type = "part" /\ CallsOut' = CallsOut
    BY <1>5 DEF ResponsesPart, Arrives, CallsOut
  <2>2. /\ e.call \in Call
        /\ \A c \in Call : c # e.call => server'.step[c] = server.step[c]
        /\ \/ /\ server.step[e.call] = 0 /\ server'.step[e.call] = 2
              /\ PartOf(e) = <<e.call, 1>>
           \/ /\ server.step[e.call] = 2 /\ server'.step[e.call] = 3
              /\ PartOf(e) = <<e.call, 2>>
    BY <1>2, <2>1, SentSteps
  <2>3. ASSUME NEW c \in Call PROVE ResponsesBuffer(c)'
    <3>0. ResponsesBuffer(c)
      BY <1>1
    <3>1. CASE c # e.call
      <4>1. acc'[c] = acc[c]
        BY <1>2, <1>5, <2>2, <3>1 DEF ResponsesPart
      <4> QED
        BY <1>5, <2>2, <3>0, <3>1, <4>1 DEF ResponsesBuffer
    <3>2. CASE c = e.call
      <4>1. acc'[c].args = Append(acc[c].args, PartOf(e))
        <5>1. acc[c] \in Buffer
          BY <1>2
        <5> QED
          BY <1>2, <1>5, <3>2, <5>1 DEF ResponsesPart, Buffer
      <4>2. CASE server.step[c] = 0 /\ server'.step[c] = 2 /\ PartOf(e) = <<c, 1>>
        <5>1. acc'[c].args = << <<c, 1>> >>
          BY <3>0, <4>1, <4>2, PiecesApart DEF ResponsesBuffer
        <5> QED
          BY <4>2, <5>1 DEF ResponsesBuffer, Pieces, Exact
      <4>3. CASE server.step[c] = 2 /\ server'.step[c] = 3 /\ PartOf(e) = <<c, 2>>
        <5>1. /\ acc[c].args \in {<<>>, << <<c, 1>> >>}
              /\ broken = 0 => acc[c].args = << <<c, 1>> >>
          BY <3>0, <4>3 DEF ResponsesBuffer, Exact
        <5>2. /\ acc'[c].args \in {<< <<c, 2>> >>, Whole(c)}
              /\ broken = 0 => acc'[c].args = Whole(c)
          BY <4>1, <4>3, <5>1, PiecesApart
        <5> QED
          BY <1>5, <4>3, <5>2 DEF ResponsesBuffer, Pieces, Exact
      <4> QED
        BY <2>2, <3>2, <4>2, <4>3
    <3> QED
      BY <3>1, <3>2
  <2>4. \A c \in Call : server.step[c] = 4 => server'.step[c] = 4
    BY <2>2
  <2> QED
    BY <1>1, <1>5, <2>1, <2>3, <2>4
<1>6. ASSUME NEW e \in Event, ResponsesItem(e), broken' = broken
      PROVE  /\ \A c \in Call : ResponsesBuffer(c)'
             /\ \A i \in CallsOut' : out'[i].id \in Call /\ server'.step[out'[i].id] = 4
  <2> DEFINE args == IF e.full THEN Whole(e.call) ELSE acc[e.call].args
             x == ToolCall(e.call, args)
  <2>1. /\ Sent(e) /\ e.type = "stop" /\ out' = out \o <<x>>
        /\ acc' = [acc EXCEPT ![e.call] = Empty]
    BY <1>6 DEF ResponsesItem, Arrives, Yield
  <2>2. /\ e.call \in Call /\ server'.step[e.call] = 4
        /\ \A c \in Call : c # e.call => server'.step[c] = server.step[c]
    BY <2>1, SentSteps
  <2> HIDE DEF args
  <2>3. x \in OutChunk /\ x.type = "call" /\ x.id = e.call /\ out \in Seq(OutChunk)
    BY <2>1, <2>2, ArrivesType, OutType, ChunkKinds DEF TypeInv, TypeOK
  <2> HIDE DEF x
  <2>4. /\ CallsOut' = CallsOut \cup {Len(out) + 1} /\ out'[Len(out) + 1] = x
        /\ \A i \in DOMAIN out : out'[i] = out[i]
    BY <2>1, <2>3, OneMoreOf
  <2>5. ASSUME NEW c \in Call PROVE ResponsesBuffer(c)'
    <3>0. ResponsesBuffer(c)
      BY <1>1
    <3>1. CASE c # e.call
      <4>1. acc'[c] = acc[c]
        BY <1>2, <2>1, <2>2, <3>1
      <4> QED
        BY <1>6, <2>2, <3>0, <3>1, <4>1 DEF ResponsesBuffer
    <3>2. CASE c = e.call
      <4>1. acc'[c].args = <<>> /\ server'.step[c] = 4
        BY <1>2, <2>1, <2>2, <3>2 DEF Empty
      <4> QED
        BY <4>1 DEF ResponsesBuffer, Pieces
    <3> QED
      BY <3>1, <3>2
  <2>6. \A i \in CallsOut : out'[i] = out[i]
    BY <2>4 DEF CallsOut
  <2> QED
    BY <1>1, <2>2, <2>3, <2>4, <2>5, <2>6
<1>7. CASE /\ UNCHANGED <<acc, broken>> /\ server'.step = server.step
           /\ CallsOut' = CallsOut /\ \A i \in CallsOut : out'[i] = out[i]
  BY <1>1, <1>7 DEF ResponsesBuffer
<1> QED
  BY <1>3, <1>4, <1>5, <1>6, <1>7, ResponsesSteps

-------------------------------------------------------------------------------
(* anthropic.rs. *)

\* What the steps of the client do to its buffer and to the calls given out.
LEMMA AnthropicSteps ==
  ASSUME TypeInv, kind = "anthropic", [Next]_vars
  PROVE  \/ /\ current' = Empty /\ CallsOut' = {}
            /\ \A c \in Call : server'.step[c] = 0
         \/ \E e \in Event :
              /\ Sent(e) /\ UNCHANGED <<current, out>> /\ broken' = broken + 1
         \/ \E e \in Event : AnthropicBlockStart(e) /\ broken' = broken /\ out' = out
         \/ \E e \in Event : AnthropicPart(e) /\ broken' = broken /\ out' = out
         \/ \E e \in Event : AnthropicUnread(e) /\ UNCHANGED <<current, broken, out>>
         \/ \E e \in Event : AnthropicBlockStop(e) /\ broken' = broken
         \/ /\ UNCHANGED <<current, broken>> /\ server'.step = server.step
            /\ CallsOut' = CallsOut /\ \A i \in CallsOut : out'[i] = out[i]
<1> USE DEF readVars
<1>1. CASE SendOk
  <2>1. CallsOut' = {}
    BY <1>1 DEF SendOk, TypeInv, ResponseInv, CallsOut
  <2>2. \A c \in Call : server'.step[c] = 0
    BY <1>1 DEF SendOk, Silent
  <2> QED
    BY <1>1, <2>1, <2>2 DEF SendOk
<1>2. CASE SendFails \/ Closed \/ ErrorEarly \/ AfterLoop
  BY <1>2 DEF SendFails, Closed, ErrorEarly, AfterLoop, CountAttempt, GiveUp, End, CallsOut
<1>3. CASE ErrorLate
  <2>1. /\ UNCHANGED <<current, server, broken>> /\ out' = Append(out, Chunk("done"))
        /\ server.response = 1
    BY <1>3 DEF ErrorLate, End, TypeInv, ResponseInv
  <2>2. CallsOut' = CallsOut /\ \A i \in CallsOut : out'[i] = out[i]
    BY <2>1, NoMoreCalls
  <2> QED
    BY <2>1, <2>2
<1>4. CASE SkipBroken
  BY <1>4 DEF SkipBroken
<1>5. ASSUME NEW e \in Event, AnthropicRead(e) \/ ServerError(e)
      PROVE  \/ AnthropicBlockStart(e) /\ broken' = broken /\ out' = out
             \/ AnthropicPart(e) /\ broken' = broken /\ out' = out
             \/ AnthropicUnread(e) /\ UNCHANGED <<current, broken, out>>
             \/ AnthropicBlockStop(e) /\ broken' = broken
             \/ /\ UNCHANGED <<current, broken>> /\ server'.step = server.step
                /\ CallsOut' = CallsOut /\ \A i \in CallsOut : out'[i] = out[i]
  <2>1. Sent(e)
    BY <1>5 DEF AnthropicRead, Delta, AnthropicStart, AnthropicBlockStart, AnthropicPart,
                AnthropicBlockStop, AnthropicUsage, AnthropicDone, AnthropicUnread,
                ServerError, Arrives
  <2>2. /\ server.response = 1 /\ server'.counts \in Nat /\ server' \in Response
        /\ server \in Response
    BY <2>1, ArrivesType DEF TypeInv, TypeOK
  <2>3. e.type \notin {"start", "part", "stop"} => server'.step = server.step
    <3>1. ASSUME e.type \notin {"start", "part", "stop"}
          PROVE  \A c \in Call : server'.step[c] = server.step[c]
      BY <2>1, <3>1, SentSteps
    <3> QED
      BY <2>1, <3>1, SentSteps
  <2>4. CASE \/ Delta(e) \/ AnthropicUsage(e) \/ AnthropicDone(e)
             \/ AnthropicStart(e) \/ ServerError(e)
    <3>1. /\ e.type \notin {"start", "part", "stop"} /\ UNCHANGED <<current, broken>>
          /\ \/ out' = out
             \/ out' = out \o <<Say>>
             \/ \E n \in Nat : out' = out \o <<Count(n)>>
             \/ out' = Append(out, Chunk("done"))
      BY <2>2, <2>4 DEF Delta, AnthropicUsage, AnthropicDone, AnthropicStart, ServerError,
                        Yield, Arrives
    <3>2. CallsOut' = CallsOut /\ \A i \in CallsOut : out'[i] = out[i]
      BY <2>2, <3>1, NoMoreCalls
    <3> QED
      BY <2>3, <3>1, <3>2
  <2>5. CASE \/ AnthropicBlockStart(e) \/ AnthropicPart(e) \/ AnthropicBlockStop(e)
             \/ AnthropicUnread(e)
    BY <2>5 DEF AnthropicBlockStart, AnthropicPart, AnthropicBlockStop, AnthropicUnread, Arrives
  <2> QED
    BY <1>5, <2>4, <2>5 DEF AnthropicRead
<1>6. ~OpenaiAfterLoop /\ \A e \in Event : ~OpenaiRead(e) /\ ~ResponsesRead(e)
  BY DEF OpenaiAfterLoop, OpenaiRead, ResponsesRead
<1>7. CASE UNCHANGED vars
  BY <1>7 DEF vars, CallsOut
<1> QED
  BY <1>1, <1>2, <1>3, <1>4, <1>5, <1>6, <1>7 DEF Next, Read

LEMMA AnthropicInvNext == TypeInv /\ GrammarInv /\ AnthropicInv /\ [Next]_vars => AnthropicInv'
<1> SUFFICES ASSUME TypeInv, GrammarInv, [Next]_vars, kind = "anthropic",
                    AnthropicOpen, AnthropicOut, AnthropicBroken, AnthropicWhole
             PROVE  AnthropicOpen' /\ AnthropicOut' /\ AnthropicBroken' /\ AnthropicWhole'
  BY StepKinds DEF AnthropicInv
<1>1. /\ current \in Buffer /\ broken \in Nat /\ NoCall \notin Call
      /\ \A c \in Call : c \in Nat /\ server.step[c] \in 0 .. 4
      /\ current.id \in Call \cup {NoCall} /\ current.args \in Seq(Part)
      /\ current.open \in BOOLEAN
  <2>1. current \in Buffer /\ server \in Response /\ broken \in Nat
    BY BoundAssumption DEF TypeInv, TypeOK
  <2>2. NoCall \notin Call /\ \A c \in Call : c \in Nat
    BY BoundAssumption DEF Call, NoCall
  <2> QED
    BY <2>1, <2>2 DEF Buffer, Response
<1>11. fits' = fits
  BY StepKinds
<1>2. current.open => current.id \in Call
  BY <1>1 DEF AnthropicOpen
<1>3. \A c, d \in Call : c < d /\ server.step[d] > 0 => server.step[c] = 4
  BY DEF GrammarInv
<1>4. CASE current' = Empty /\ CallsOut' = {} /\ \A c \in Call : server'.step[c] = 0
  <2>1. ~current'.open /\ current'.id = NoCall /\ current'.args = <<>>
    BY <1>4 DEF Empty
  <2> QED
    BY <1>11, <1>4, <2>1 DEF AnthropicOpen, AnthropicOut, AnthropicBroken, AnthropicWhole
<1>5. ASSUME NEW e \in Event, Sent(e), UNCHANGED <<current, out>>, broken' = broken + 1
      PROVE  AnthropicOpen' /\ AnthropicOut' /\ AnthropicBroken' /\ AnthropicWhole'
  <2>0. \A c \in Call : /\ server'.step[c] \in 0 .. 4
                        /\ server'.step[c] <= server.step[c] + 1
    BY <1>1, <1>5, SentSteps
  <2>1. \A c \in Call : server.step[c] > 0 => server'.step[c] > 0
    BY <1>1, <1>5, SentSteps
  <2>9. \A c \in Call : server'.step[c] > 0 => server.step[c] > 0 \/ AllAt({0, 4})
    BY <1>1, <1>5, SentSteps
  <2>2. AnthropicOpen'
    BY <1>11, <1>2, <1>5, <2>1 DEF AnthropicOpen
  <2>3. AnthropicOut'
    <3>1. CallsOut' = CallsOut
      BY <1>5 DEF CallsOut
    <3> QED
      BY <1>5, <2>1, <3>1 DEF AnthropicOut
  <2>4. ASSUME current.open, current.args = <<>>
        PROVE  /\ broken' + 1 >= server'.step[current.id]
               /\ (\E c \in Call : c > current.id /\ server'.step[c] > 0) => broken' >= 4
    <3>1. /\ current.id \in Call /\ broken + 1 >= server.step[current.id]
          /\ (\E c \in Call : c > current.id /\ server.step[c] > 0) => broken >= 4
          /\ server.step[current.id] > 0
      BY <2>4, <1>2 DEF AnthropicBroken, AnthropicOpen
    <3>2. broken' + 1 >= server'.step[current.id]
      <4>1. /\ server'.step[current.id] <= server.step[current.id] + 1
            /\ server.step[current.id] \in Nat /\ server'.step[current.id] \in Nat
        BY <1>1, <2>0, <3>1
      <4> QED
        BY <1>1, <1>5, <3>1, <4>1
    <3>3. ASSUME NEW c \in Call, c > current.id, server'.step[c] > 0
          PROVE  broken' >= 4
      <4>1. CASE server.step[c] > 0
        BY <1>1, <1>5, <3>1, <3>3, <4>1
      <4>2. CASE AllAt({0, 4})
        <5>1. server.step[current.id] = 4
          BY <3>1, <4>2 DEF AllAt
        <5> QED
          BY <1>1, <1>5, <3>1, <5>1
      <4> QED
        BY <2>9, <3>3, <4>1, <4>2
    <3> QED
      BY <3>2, <3>3
  <2>5. AnthropicBroken'
    BY <1>1, <1>5, <2>4 DEF AnthropicBroken
  <2>6. AnthropicWhole'
    BY <1>11, <1>1, <1>5 DEF AnthropicWhole
  <2> QED
    BY <2>2, <2>3, <2>5, <2>6
<1>6. ASSUME NEW e \in Event, AnthropicBlockStart(e), broken' = broken, out' = out
      PROVE  AnthropicOpen' /\ AnthropicOut' /\ AnthropicBroken' /\ AnthropicWhole'
  <2>1. /\ Sent(e) /\ e.type = "start" /\ CallsOut' = CallsOut
        /\ current'.open /\ current'.id = e.call /\ current'.args = <<>>
    BY <1>6 DEF AnthropicBlockStart, Arrives, CallsOut
  <2>2. /\ e.call \in Call /\ AllAt({0, 4})
        /\ server.step[e.call] = 0 /\ server'.step[e.call] = 1
        /\ \A c \in Call : c # e.call => server'.step[c] = server.step[c]
    BY <2>1, SentSteps
  <2>3. ASSUME NEW c \in Call, c > e.call PROVE server'.step[c] = 0
    <3>1. c # e.call /\ e.call < c
      BY <1>1, <2>2, <2>3
    <3>2. server.step[c] \in 0 .. 4 /\ ~(server.step[c] > 0)
      BY <1>1, <1>3, <2>2, <3>1
    <3> QED
      BY <2>2, <3>1, <3>2
  <2>4. AnthropicOpen'
    BY <1>1, <1>6, <1>11, <2>1, <2>2 DEF AnthropicOpen, AnthropicBlockStart
  <2>5. AnthropicOut'
    <3> SUFFICES ASSUME NEW i \in CallsOut
                 PROVE  /\ out[i].id \in Call /\ server'.step[out[i].id] > 0
                        /\ out[i].id # current'.id
      BY <1>6, <2>1 DEF AnthropicOut
    <3>1. out[i].id \in Call /\ server.step[out[i].id] > 0
      BY DEF AnthropicOut
    <3>2. out[i].id # e.call
      BY <2>2, <3>1
    <3> QED
      BY <2>1, <2>2, <3>1, <3>2
  <2>6. AnthropicBroken'
    BY <1>1, <1>6, <2>1, <2>2, <2>3 DEF AnthropicBroken
  <2>7. AnthropicWhole'
    BY <1>11, <1>6, <2>1, <2>2 DEF AnthropicWhole, AllAt, Exact
  <2> QED
    BY <2>4, <2>5, <2>6, <2>7
<1>7. ASSUME NEW e \in Event, AnthropicPart(e), broken' = broken, out' = out
      PROVE  AnthropicOpen' /\ AnthropicOut' /\ AnthropicBroken' /\ AnthropicWhole'
  <2>1. /\ Sent(e) /\ e.type = "part" /\ CallsOut' = CallsOut
        /\ current' = [current EXCEPT !.args = Append(current.args, PartOf(e))]
    BY <1>7 DEF AnthropicPart, Arrives, CallsOut
  <2>2. /\ current'.open = current.open /\ current'.id = current.id
        /\ current'.args = Append(current.args, PartOf(e))
    BY <1>1, <2>1 DEF Buffer
  <2>3. /\ e.call \in Call /\ PartOf(e)[1] = e.call
        /\ \/ /\ server.step[e.call] = 1 /\ server'.step[e.call] = 2
              /\ PartOf(e) = <<e.call, 1>>
           \/ /\ server.step[e.call] = 2 /\ server'.step[e.call] = 3
              /\ PartOf(e) = <<e.call, 2>>
        /\ \A c \in Call : c # e.call => server'.step[c] = server.step[c]
    BY <2>1, SentSteps
  <2>4. \A c \in Call : server.step[c] > 0 => server'.step[c] > 0
    BY <1>1, <2>3
  <2>5. PartOf(e) \in Part
    BY <2>3 DEF Part
  <2>6. /\ current'.args # <<>>
        /\ current.args = <<>> => current'.args[1] = PartOf(e)
        /\ current.args # <<>> => current'.args[1] = current.args[1]
    BY <1>1, <2>2, <2>5
  <2>7. AnthropicOpen'
    BY <1>11, <1>2, <2>2, <2>4 DEF AnthropicOpen
  <2>8. AnthropicOut'
    BY <1>7, <2>1, <2>2, <2>4 DEF AnthropicOut
  <2>9. AnthropicBroken'
    <3>1. SUFFICES ASSUME current.open
                   PROVE  current'.args[1][1] = current.id \/ broken >= 4
      BY <1>7, <2>2, <2>6 DEF AnthropicBroken
    <3>2. CASE current.args # <<>>
      BY <2>6, <3>1, <3>2 DEF AnthropicBroken
    <3>3. CASE current.args = <<>>
      <4>1. CASE e.call = current.id
        BY <2>3, <2>6, <3>3, <4>1
      <4>2. CASE e.call > current.id
        BY <2>3, <3>1, <3>3, <4>2 DEF AnthropicBroken
      <4>3. CASE e.call < current.id
        BY <1>2, <1>3, <2>3, <3>1, <4>3 DEF AnthropicOpen
      <4>4. e.call \in Nat /\ current.id \in Nat
        BY <1>1, <1>2, <2>3, <3>1
      <4> QED
        BY <4>1, <4>2, <4>3, <4>4
    <3> QED
      BY <3>2, <3>3
  <2>10. AnthropicWhole'
    <3>1. SUFFICES ASSUME broken = 0, fits
                   PROVE  /\ \A c \in Call : server'.step[c] \in 1 .. 3 =>
                               /\ current.id = c
                               /\ Append(current.args, PartOf(e)) = Exact(c, server'.step[c])
                          /\ current.open => server'.step[current.id] \in 1 .. 3
      BY <1>11, <1>7, <2>2 DEF AnthropicWhole
    <3>2. current.id = e.call /\ current.args = Exact(e.call, server.step[e.call])
      BY <1>11, <2>3, <3>1 DEF AnthropicWhole
    <3>3. Append(current.args, PartOf(e)) = Exact(e.call, server'.step[e.call])
      <4>1. CASE /\ server.step[e.call] = 1 /\ server'.step[e.call] = 2
                 /\ PartOf(e) = <<e.call, 1>>
        <5>1. current.args = <<>>
          BY <3>2, <4>1 DEF Exact
        <5> QED
          BY <4>1, <5>1, PiecesApart DEF Exact
      <4>2. CASE /\ server.step[e.call] = 2 /\ server'.step[e.call] = 3
                 /\ PartOf(e) = <<e.call, 2>>
        <5>1. current.args = << <<e.call, 1>> >>
          BY <3>2, <4>2 DEF Exact
        <5> QED
          BY <4>2, <5>1, PiecesApart DEF Exact
      <4> QED
        BY <2>3, <4>1, <4>2
    <3>4. \A c \in Call : server'.step[c] \in 1 .. 3 => c = e.call
      BY <1>11, <2>3, <3>1, <3>2 DEF AnthropicWhole
    <3> QED
      BY <2>3, <3>2, <3>3, <3>4
  <2> QED
    BY <2>7, <2>8, <2>9, <2>10
<1>8. ASSUME NEW e \in Event, AnthropicBlockStop(e), broken' = broken
      PROVE  AnthropicOpen' /\ AnthropicOut' /\ AnthropicBroken' /\ AnthropicWhole'
  <2>1. /\ Sent(e) /\ e.type = "stop"
    BY <1>8 DEF AnthropicBlockStop, Arrives
  <2>2. /\ e.call \in Call /\ server.step[e.call] = 3 /\ server'.step[e.call] = 4
        /\ \A c \in Call : c # e.call => server'.step[c] = server.step[c]
    BY <2>1, SentSteps
  <2>3. \A c \in Call : server.step[c] > 0 => server'.step[c] > 0
    BY <1>1, <2>2
  <2>4. broken = 0 /\ fits =>
          current.id = e.call /\ \A c \in Call : server'.step[c] \notin 1 .. 3
    <3> SUFFICES ASSUME broken = 0, fits
                 PROVE  current.id = e.call /\ \A c \in Call : server'.step[c] \notin 1 .. 3
      OBVIOUS
    <3>1. \A c \in Call : server.step[c] \in 1 .. 3 => current.id = c
      BY DEF AnthropicWhole
    <3>2. current.id = e.call
      BY <2>2, <3>1
    <3>3. ASSUME NEW c \in Call PROVE server'.step[c] \notin 1 .. 3
      BY <2>2, <3>1, <3>2
    <3> QED
      BY <3>2, <3>3
  <2>5. CASE current.open
    <3> DEFINE x == ToolCall(current.id, current.args)
    <3>1. out' = out \o <<x>> /\ current' = Empty
      BY <1>8, <2>5 DEF AnthropicBlockStop, Yield
    <3>2. x \in OutChunk /\ x.type = "call" /\ x.id = current.id /\ out \in Seq(OutChunk)
      <4>1. server.response = 1 /\ out \in Seq(OutChunk)
        BY <2>1, ArrivesType DEF TypeInv, TypeOK
      <4>2. x \in OutChunk
        BY <1>1, <4>1, OutType
      <4> QED
        BY <4>1, <4>2, ChunkKinds
    <3> HIDE DEF x
    <3>3. /\ CallsOut' = CallsOut \cup {Len(out) + 1} /\ out'[Len(out) + 1] = x
          /\ \A i \in DOMAIN out : out'[i] = out[i]
      BY <3>1, <3>2, OneMoreOf
    <3>4. \A i \in CallsOut : out'[i] = out[i]
      BY <3>3 DEF CallsOut
    <3>5. ~current'.open /\ current'.id = NoCall /\ current'.args = <<>>
      BY <3>1 DEF Empty
    <3>6. current.id \in Call /\ server'.step[current.id] > 0
      BY <1>2, <2>3, <2>5 DEF AnthropicOpen
    <3>7. AnthropicOut'
      BY <1>1, <2>3, <3>2, <3>3, <3>4, <3>5, <3>6 DEF AnthropicOut
    <3> QED
      BY <1>11, <1>8, <2>4, <3>5, <3>7 DEF AnthropicOpen, AnthropicBroken, AnthropicWhole
  <2>6. CASE ~current.open
    <3>1. UNCHANGED <<current, out>> /\ CallsOut' = CallsOut
      BY <1>8, <2>6 DEF AnthropicBlockStop, CallsOut
    <3>2. broken # 0 \/ ~fits
      BY <1>1, <2>2, <2>4, <2>6 DEF AnthropicOpen
    <3>3. AnthropicOut'
      BY <2>3, <3>1 DEF AnthropicOut
    <3> QED
      BY <1>11, <1>8, <2>6, <3>1, <3>2, <3>3 DEF AnthropicOpen, AnthropicBroken, AnthropicWhole
  <2> QED
    BY <1>1, <2>5, <2>6
<1>10. ASSUME NEW e \in Event, AnthropicUnread(e), UNCHANGED <<current, broken, out>>
      PROVE  AnthropicOpen' /\ AnthropicOut' /\ AnthropicBroken' /\ AnthropicWhole'
  <2>1. Sent(e) /\ ~fits /\ CallsOut' = CallsOut
    BY <1>10 DEF AnthropicUnread, Arrives, CallsOut
  <2>2. ~current'.open /\ current'.id = NoCall
    BY <1>10, <2>1 DEF AnthropicOpen
  <2>3. \A c \in Call : server.step[c] > 0 => server'.step[c] > 0
    BY <1>1, <2>1, SentSteps
  <2>4. AnthropicOut'
    BY <1>10, <2>1, <2>3 DEF AnthropicOut
  <2> QED
    BY <1>11, <2>1, <2>2, <2>4 DEF AnthropicOpen, AnthropicBroken, AnthropicWhole
<1>9. CASE /\ UNCHANGED <<current, broken>> /\ server'.step = server.step
           /\ CallsOut' = CallsOut /\ \A i \in CallsOut : out'[i] = out[i]
  BY <1>11, <1>9 DEF AnthropicOpen, AnthropicOut, AnthropicBroken, AnthropicWhole
<1> QED
  BY <1>4, <1>5, <1>6, <1>7, <1>8, <1>9, <1>10, AnthropicSteps

-------------------------------------------------------------------------------
(* The calls given out. *)

\* Once the server has finished its calls, the client of openai.rs gives out what is left in
\* its buffer, and nothing else.
LEMMA OpenaiOut ==
  ASSUME TypeInv, kind = "openai", [Next]_vars, server'.finished, broken' = 0
  PROVE  \/ \E e \in Event : OpenaiFinish(e)
         \/ /\ server.finished /\ server'.step = server.step /\ broken = 0
            /\ \/ CallsOut' = CallsOut /\ \A i \in CallsOut : out'[i] = out[i]
               \/ out' = out \o Drained
               \/ out' = out \o Drained \o <<Chunk("done")>>
<1> USE DEF readVars
<1>1. CASE SendOk
  BY <1>1 DEF SendOk, Silent
<1>2. CASE SendFails \/ Closed \/ ErrorEarly \/ AfterLoop
  BY <1>2 DEF SendFails, Closed, ErrorEarly, AfterLoop, CountAttempt, GiveUp, End, CallsOut
<1>3. CASE ErrorLate
  <2>1. /\ UNCHANGED <<server, broken>> /\ out' = Append(out, Chunk("done"))
        /\ server.response = 1
    BY <1>3 DEF ErrorLate, TypeInv, ResponseInv
  <2>2. CallsOut' = CallsOut /\ \A i \in CallsOut : out'[i] = out[i]
    BY <2>1, NoMoreCalls
  <2> QED
    BY <2>1, <2>2
<1>4. CASE OpenaiAfterLoop
  BY <1>4 DEF OpenaiAfterLoop
<1>5. CASE SkipBroken
  <2>1. broken \in Nat
    BY BoundAssumption DEF TypeInv, TypeOK
  <2> QED
    BY <1>5, <2>1 DEF SkipBroken
<1>6. ASSUME NEW e \in Event, OpenaiRead(e)
      PROVE  \/ OpenaiFinish(e)
             \/ /\ server.finished /\ server'.step = server.step /\ broken = 0
                /\ \/ CallsOut' = CallsOut /\ \A i \in CallsOut : out'[i] = out[i]
                   \/ out' = out \o Drained
                   \/ out' = out \o Drained \o <<Chunk("done")>>
  <2>1. Sent(e) /\ broken' = broken
    BY <1>6 DEF OpenaiRead, Delta, OpenaiPart, OpenaiFinish, OpenaiUsage, OpenaiDone, Arrives
  <2>2. server.response = 1 /\ server'.counts \in Nat
    BY <2>1, ArrivesType
  <2>3. e.type # "finish" => server.finished
    BY <2>1, SentType DEF TypeInv
  <2>4. e.type \notin {"start", "part"} => server'.step = server.step
    <3>1. ASSUME e.type \notin {"start", "part"}
          PROVE  \A c \in Call : server'.step[c] = server.step[c]
      BY <2>1, <3>1, SentSteps
    <3> QED
      BY <2>1, <3>1, SentSteps
  <2>5. e.type \notin {"start", "part"}
    BY <2>1, <2>3, SentSteps
  <2>6. CASE Delta(e) \/ OpenaiUsage(e)
    <3>1. e.type # "finish" /\ (out' = out \o <<Say>> \/ \E n \in Nat : out' = out \o <<Count(n)>>)
      BY <2>2, <2>6 DEF Delta, OpenaiUsage, Yield
    <3>2. CallsOut' = CallsOut /\ \A i \in CallsOut : out'[i] = out[i]
      BY <2>2, <3>1, NoMoreCalls
    <3> QED
      BY <2>1, <2>3, <2>4, <2>5, <3>1, <3>2
  <2>7. CASE OpenaiDone(e)
    <3>1. e.type = "end" /\ out' = out \o Drained \o <<Chunk("done")>>
      BY <2>7 DEF OpenaiDone
    <3> QED
      BY <2>1, <2>3, <2>4, <3>1
  <2>8. CASE OpenaiPart(e)
    BY <2>5, <2>8 DEF OpenaiPart
  <2> QED
    BY <1>6, <2>6, <2>7, <2>8 DEF OpenaiRead
<1>7. ASSUME NEW e \in Event PROVE ~AnthropicRead(e) /\ ~ResponsesRead(e) /\ ~ServerError(e)
  <2>1. ServerError(e) => Sent(e) /\ e.type = "fail"
    BY DEF ServerError, Arrives
  <2> QED
    BY <2>1, SentSteps DEF AnthropicRead, ResponsesRead
<1>8. CASE UNCHANGED vars
  BY <1>8 DEF vars, CallsOut
<1> QED
  BY <1>1, <1>2, <1>3, <1>4, <1>5, <1>6, <1>7, <1>8 DEF Next, Read

\* The l chunks given out are those that were, n, the m of d, and marks of the end.
Follow(n, m, l, d) ==
  /\ n \in Nat /\ m \in Nat /\ l \in Nat /\ n + m <= l
  /\ DOMAIN out = 1 .. n /\ DOMAIN (out') = 1 .. l
  /\ \A i \in 1 .. l : \/ i \in 1 .. n
                       \/ i - n \in 1 .. m
                       \/ i > n + m /\ out'[i] = Chunk("done")
  /\ \A i \in 1 .. n : out'[i] = out[i]
  /\ \A j \in 1 .. m : out'[n + j] = d[j] /\ d[j].type = "call"

\* If those of d are calls, they are added to the calls given out.
LEMMA CallsMore ==
  ASSUME NEW n, NEW m, NEW l, NEW d, Follow(n, m, l, d)
  PROVE  /\ CallsOut' = CallsOut \cup {n + j : j \in 1 .. m}
         /\ \A i \in CallsOut : out'[i] = out[i]
<1> USE DEF Follow
<1>0. CallsOut' = {i \in 1 .. l : out'[i].type = "call"}
  BY DEF CallsOut
<1>1. CallsOut = {i \in 1 .. n : out[i].type = "call"}
  BY DEF CallsOut
<1>2. CallsOut \subseteq CallsOut'
  BY <1>0, <1>1
<1>3. ASSUME NEW j \in 1 .. m PROVE n + j \in CallsOut'
  <2>1. n + j \in 1 .. l
    OBVIOUS
  <2> QED
    BY <1>0, <2>1
<1>4. ASSUME NEW i \in CallsOut' PROVE i \in CallsOut \/ \E j \in 1 .. m : i = n + j
  <2>1. i \in 1 .. l /\ out'[i].type = "call"
    BY <1>0
  <2>2. Chunk("done").type # "call"
    BY ChunkKinds
  <2>3. CASE i \in 1 .. n
    BY <1>1, <2>1, <2>3
  <2>4. CASE i - n \in 1 .. m
    <3>1. i = n + (i - n)
      BY <2>1
    <3> QED
      BY <2>4, <3>1
  <2>5. CASE i > n + m /\ out'[i] = Chunk("done")
    BY <2>1, <2>2, <2>5
  <2> QED
    BY <2>1, <2>3, <2>4, <2>5
<1>5. \A i \in CallsOut : out'[i] = out[i]
  BY <1>1
<1> QED
  BY <1>2, <1>3, <1>4, <1>5

\* The calls that are given out of the buffer, after those that were given out before.
LEMMA DrainedOut ==
  ASSUME TypeInv, server.response = 1,
         out' = out \o Drained \/ out' = out \o Drained \o <<Chunk("done")>>
  PROVE  \E at \in Seq(Call) :
           /\ Len(out) \in Nat /\ DOMAIN out = 1 .. Len(out)
           /\ CallsOut' = CallsOut \cup {Len(out) + j : j \in 1 .. Len(at)}
           /\ \A i \in CallsOut : out'[i] = out[i]
           /\ \A j \in 1 .. Len(at) :
                acc[at[j]].open /\ out'[Len(out) + j] = ToolCall(acc[at[j]].id, acc[at[j]].args)
           /\ \A i, j \in 1 .. Len(at) : i < j => at[i] < at[j]
           /\ \A c \in Call : acc[c].open => \E j \in 1 .. Len(at) : at[j] = c
<1>1. TypeOK /\ server.response \in 1 .. 2 /\ out \in Seq(OutChunk) /\ Drained \in Seq(OutChunk)
  <2>1. TypeOK /\ server.response \in 1 .. 2 /\ out \in Seq(OutChunk)
    BY DEF TypeInv, TypeOK
  <2> QED
    BY <2>1, DrainedCalls
<1>2. PICK at \in Seq(Call) :
        /\ Len(at) = Len(Drained)
        /\ \A i \in 1 .. Len(at) :
             acc[at[i]].open /\ Drained[i] = ToolCall(acc[at[i]].id, acc[at[i]].args)
        /\ \A i, j \in 1 .. Len(at) : i < j => at[i] < at[j]
        /\ \A c \in Call : acc[c].open => \E i \in 1 .. Len(at) : at[i] = c
  BY <1>1, DrainedCalls
<1>3. /\ out' \in Seq(OutChunk)
      /\ Len(out) + Len(Drained) <= Len(out')
      /\ \A i \in 1 .. Len(out') : \/ i \in 1 .. Len(out)
                                   \/ i - Len(out) \in 1 .. Len(Drained)
                                   \/ i > Len(out) + Len(Drained) /\ out'[i] = Chunk("done")
      /\ \A i \in 1 .. Len(out) : out'[i] = out[i]
      /\ \A i \in 1 .. Len(Drained) : out'[Len(out) + i] = Drained[i]
  BY <1>1, ManyMore
<1>4. /\ Len(out) \in Nat /\ DOMAIN out = 1 .. Len(out)
      /\ Len(Drained) \in Nat
      /\ Len(out') \in Nat /\ DOMAIN (out') = 1 .. Len(out')
  BY <1>1, <1>3, LenProperties, Zenon
<1>5. \A j \in 1 .. Len(Drained) : Drained[j].type = "call"
  <2>1. \A id, args : ToolCall(id, args).type = "call"
    BY DEF ToolCall, Chunk
  <2>2. ASSUME NEW j \in 1 .. Len(at) PROVE Drained[j].type = "call"
    <3>1. Drained[j] = ToolCall(acc[at[j]].id, acc[at[j]].args)
      BY <1>2, Zenon
    <3> QED
      BY <2>1, <3>1, Zenon
  <2> QED
    BY <1>2, <2>2, Zenon
<1>6. \A j \in 1 .. Len(Drained) : out'[Len(out) + j] = Drained[j] /\ Drained[j].type = "call"
  BY <1>3, <1>5, Zenon
<1>7. /\ CallsOut' = CallsOut \cup {Len(out) + j : j \in 1 .. Len(Drained)}
      /\ \A i \in CallsOut : out'[i] = out[i]
  <2>1. Follow(Len(out), Len(Drained), Len(out'), Drained)
    BY <1>3, <1>4, <1>6, Zenon DEF Follow
  <2> QED
    BY <2>1, CallsMore, Zenon
<1>8. \A j \in 1 .. Len(at) :
        acc[at[j]].open /\ out'[Len(out) + j] = ToolCall(acc[at[j]].id, acc[at[j]].args)
  BY <1>2, <1>3, Zenon
<1> QED
  BY <1>2, <1>4, <1>7, <1>8, Zenon

\* A step of the client keeps the calls given out, or gives out those of the buffer.
LEMMA OpenaiDrains ==
  ASSUME TypeInv, kind = "openai", [Next]_vars
  PROVE  \/ CallsOut' = CallsOut /\ \A i \in CallsOut : out'[i] = out[i]
         \/ /\ server.response = 1
            /\ out' = out \o Drained \/ out' = out \o Drained \o <<Chunk("done")>>
<1>1. CASE UNCHANGED out
  BY <1>1 DEF CallsOut
<1>2. SendOk \/ SendFails \/ Closed \/ ErrorEarly \/ AfterLoop \/ SkipBroken \/ UNCHANGED vars
        => UNCHANGED out
  BY DEF SendOk, SendFails, Closed, ErrorEarly, AfterLoop, SkipBroken, vars
<1>3. CASE ErrorLate
  <2>1. out' = Append(out, Chunk("done")) /\ server.response = 1
    BY <1>3 DEF ErrorLate, TypeInv, ResponseInv
  <2> QED
    BY <2>1, NoMoreCalls
<1>4. CASE OpenaiAfterLoop
  BY <1>4 DEF OpenaiAfterLoop, TypeInv, ResponseInv
<1>5. ASSUME NEW e \in Event, OpenaiRead(e)
      PROVE  \/ CallsOut' = CallsOut /\ \A i \in CallsOut : out'[i] = out[i]
             \/ /\ server.response = 1
                /\ out' = out \o Drained \/ out' = out \o Drained \o <<Chunk("done")>>
  <2>1. Sent(e)
    BY <1>5 DEF OpenaiRead, Delta, OpenaiPart, OpenaiFinish, OpenaiUsage, OpenaiDone, Arrives
  <2>2. server.response = 1 /\ server'.counts \in Nat
    BY <2>1, ArrivesType
  <2>3. CASE Delta(e) \/ OpenaiUsage(e)
    <3>1. out' = out \o <<Say>> \/ \E n \in Nat : out' = out \o <<Count(n)>>
      BY <2>2, <2>3 DEF Delta, OpenaiUsage, Yield
    <3> QED
      BY <2>2, <3>1, NoMoreCalls
  <2>4. CASE OpenaiFinish(e) \/ OpenaiDone(e)
    BY <2>2, <2>4 DEF OpenaiFinish, OpenaiDone
  <2>5. CASE OpenaiPart(e)
    BY <1>1, <2>5 DEF OpenaiPart
  <2> QED
    BY <1>5, <2>3, <2>4, <2>5 DEF OpenaiRead
<1>6. ASSUME NEW e \in Event PROVE ~AnthropicRead(e) /\ ~ResponsesRead(e) /\ ~ServerError(e)
  <2>1. ServerError(e) => Sent(e) /\ e.type = "fail"
    BY DEF ServerError, Arrives
  <2> QED
    BY <2>1, SentSteps DEF AnthropicRead, ResponsesRead
<1> QED
  BY <1>1, <1>2, <1>3, <1>4, <1>5, <1>6 DEF Next, Read

\* The arguments of a call are its own or Null.
LEMMA ParsedPieces ==
  ASSUME NEW c \in Call
  PROVE  /\ Parsed(Whole(c)) = c /\ Parsed(<<>>) = NoCall
         /\ \A args \in Pieces(c) : args # Whole(c) => Parsed(args) = NoCall
         /\ \A args : args[1][1] = c => Parsed(args) \in {c, NoCall}
<1>1. \A d : Whole(d)[1][1] = d /\ Whole(d)[1][2] = 1 /\ Len(Whole(d)) = 2
  BY DEF Whole
<1>2. \A args, d : args = Whole(d) => args[1][1] = d
  BY <1>1
<1>3. \A args : Parsed(args) = NoCall \/ (Parsed(args) \in Call /\ args = Whole(Parsed(args)))
  BY Zenon DEF Parsed
<1>4. Parsed(Whole(c)) = c
  <2>1. Parsed(Whole(c)) \in Call /\ Whole(c) = Whole(Parsed(Whole(c)))
    BY Zenon DEF Parsed
  <2> QED
    BY <1>1, <2>1
<1>5. Parsed(<<>>) = NoCall
  <2>1. Len(<<>>) = 0
    OBVIOUS
  <2> QED
    BY <1>1, <1>3, <2>1
<1>6. ASSUME NEW args, args[1][1] = c PROVE Parsed(args) \in {c, NoCall}
  BY <1>2, <1>3, <1>6
<1>7. ASSUME NEW args \in Pieces(c), args # Whole(c) PROVE Parsed(args) = NoCall
  <2>1. Len(args) # 2
    <3>1. Len(<<>>) = 0 /\ Len(<< <<c, 1>> >>) = 1 /\ Len(<< <<c, 2>> >>) = 1
      OBVIOUS
    <3> QED
      BY <1>7, <3>1 DEF Pieces
  <2> QED
    BY <1>1, <1>3, <2>1
<1> QED
  BY <1>4, <1>5, <1>6, <1>7

\* Calls once merged stay so.
LEMMA StillMerged ==
  ASSUME TypeInv, [Next]_vars, ~Merged'
  PROVE  ~Merged
<1>1. CASE kind # "openai"
  BY <1>1 DEF Merged
<1>2. CASE kind = "openai"
  <2>1. place = "send" => \A c \in Call : server.step[c] = 0
    BY DEF TypeInv, ResponseInv, Silent
  <2>2. ASSUME NEW e \in Event, Sent(e) PROVE ~Merged
    BY <1>2, <2>2, StillApart
  <2>3. kind' = kind /\ fits' = fits
    BY StepKinds
  <2> QED
    BY <2>1, <2>2, <2>3, StepKinds DEF Merged, vars
<1> QED
  BY <1>1, <1>2

\* What the calls given out of the buffer carry, at the places n + 1, ... of out.
OpenaiGiven(n, at) ==
  /\ n \in Nat /\ at \in Seq(Call)
  /\ CallsOut' = {n + j : j \in 1 .. Len(at)}
  /\ \A i, j \in 1 .. Len(at) : i < j => at[i] < at[j]
  /\ ~fits => \A j \in 1 .. Len(at) : at[j] = 1
  /\ ~Merged' => \A j \in 1 .. Len(at) :
       LET x == out'[n + j] IN
         /\ x.id \in {at[j], NoCall}
         /\ \/ x.input = x.id /\ x.id # NoCall
            \/ x.input = NoCall /\ (broken' > 0 \/ ~server'.finished)
            \/ x.id = NoCall /\ broken' > 0
  /\ server'.finished /\ broken' = 0 /\ ~Merged' =>
       /\ \A j \in 1 .. Len(at) : out'[n + j].id = at[j] /\ server'.step[at[j]] = 3
       /\ \A c \in Call : server'.step[c] = 3 => \E j \in 1 .. Len(at) : at[j] = c

LEMMA OpenaiGives ==
  ASSUME TypeInv, GrammarInv, OpenaiInv, kind = "openai", [Next]_vars
  PROVE  \/ /\ CallsOut' = CallsOut /\ \A i \in CallsOut : out'[i] = out[i]
            /\ server'.finished /\ broken' = 0 =>
                 server.finished /\ server'.step = server.step /\ broken = 0
         \/ CallsOut = {} /\ \E n \in Nat, at \in Seq(Call) : OpenaiGiven(n, at)
<1> DEFINE Kept == CallsOut' = CallsOut /\ \A i \in CallsOut : out'[i] = out[i]
           Over == server'.finished /\ broken' = 0
           Before == server.finished /\ server'.step = server.step /\ broken = 0
           Drains == out' = out \o Drained \/ out' = out \o Drained \o <<Chunk("done")>>
<1>1. /\ CallsOut # {} => /\ server.finished \/ place = "end"
                          /\ \A c \in Call : ~acc[c].open
      /\ ~fits => \A c \in Call : c # 1 => ~acc[c].open
      /\ ~Merged => \A c \in Call : OpenaiBuffer(c)
  BY DEF OpenaiInv
<1>2. broken \in Nat /\ broken' \in Nat /\ NoCall \notin Call /\ acc \in [Call -> Buffer]
  BY TypeInvNext, BoundAssumption DEF TypeInv, TypeOK, NoCall, Call
<1>3. ASSUME NEW e \in Event, OpenaiFinish(e)
      PROVE  /\ Drains /\ server.response = 1 /\ broken' = broken /\ server'.step = server.step
             /\ ~server.finished /\ place = "read" /\ \A c \in Call : server.step[c] \in {0, 3}
  <2>1. Sent(e) /\ e.type = "finish"
    BY <1>3 DEF OpenaiFinish, Arrives
  <2>2. server'.step = server.step
    <3>1. \A c \in Call : server'.step[c] = server.step[c]
      BY <2>1, SentSteps
    <3> QED
      BY <2>1, <3>1, SentSteps
  <2>3. /\ ~server.finished /\ server.response = 1 /\ place = "read"
        /\ \A c \in Call : server.step[c] \in {0, 3}
    BY <2>1, SentSteps, ArrivesType DEF AllAt
  <2> QED
    BY <1>3, <2>2, <2>3 DEF OpenaiFinish, Arrives
<1>4. Over => (\E e \in Event : OpenaiFinish(e)) \/ Before
  BY OpenaiOut
<1>5. CASE Kept /\ ~\E e \in Event : OpenaiFinish(e)
  BY <1>4, <1>5
<1>6. CASE server.response = 1 /\ Drains
  <2> DEFINE n == Len(out)
  <2>1. PICK at \in Seq(Call) :
           /\ n \in Nat
           /\ CallsOut' = CallsOut \cup {n + j : j \in 1 .. Len(at)}
           /\ \A i \in CallsOut : out'[i] = out[i]
           /\ \A j \in 1 .. Len(at) :
                acc[at[j]].open /\ out'[n + j] = ToolCall(acc[at[j]].id, acc[at[j]].args)
           /\ \A i, j \in 1 .. Len(at) : i < j => at[i] < at[j]
           /\ \A c \in Call : acc[c].open => \E j \in 1 .. Len(at) : at[j] = c
    BY <1>6, DrainedOut
  <2> HIDE DEF n, Drains
  <2>2. \A j \in 1 .. Len(at) : at[j] \in Call
    OBVIOUS
  <2>3. (\A c \in Call : ~acc[c].open) => Kept
    <3>1. ASSUME \A c \in Call : ~acc[c].open PROVE 1 .. Len(at) = {}
      BY <2>1, <2>2, <3>1
    <3> QED
      BY <2>1, <3>1
  <2>4. CASE CallsOut # {}
    <3>1. Kept /\ (server.finished \/ place = "end")
      BY <1>1, <2>3, <2>4
    <3>2. Over => Before
      BY <1>3, <1>4, <3>1
    <3> QED
      BY <3>1, <3>2
  <2>5. CASE CallsOut = {} /\ Before /\ ~Merged
    <3>1. \A c \in Call : ~acc[c].open
      BY <1>1, <2>5 DEF OpenaiBuffer
    <3> QED
      BY <2>3, <2>5, <3>1
  <2>6. CASE CallsOut = {} /\ (Over /\ ~Merged => \E e \in Event : OpenaiFinish(e))
    <3>1. CallsOut' = {n + j : j \in 1 .. Len(at)}
      BY <2>1, <2>6
    <3>2. ASSUME NEW j \in 1 .. Len(at)
          PROVE  LET x == out'[n + j] IN
                   /\ x.id = acc[at[j]].id /\ x.input = Parsed(acc[at[j]].args)
                   /\ at[j] \in Call /\ acc[at[j]].open
      BY <2>1, <2>2 DEF ToolCall, Chunk
    <3>3. ASSUME Over, ~Merged, NEW c \in Call
          PROVE  /\ acc[c].args = IF server'.step[c] = 3 THEN Whole(c) ELSE <<>>
                 /\ acc[c].open <=> server'.step[c] = 3
      <4>1. broken = 0 /\ ~server.finished /\ place # "end"
        BY <1>3, <2>6, <3>3
      <4> QED
        <5>1. /\ acc[c].args = Exact(c, server.step[c])
              /\ server.step[c] > 0 => acc[c].open
              /\ server.step[c] = 0 => ~acc[c].open
          BY <1>1, <4>1, <3>3 DEF OpenaiBuffer
        <5>2. server'.step = server.step /\ server.step[c] \in {0, 3}
          BY <1>3, <2>6, <3>3
        <5> QED
          BY <5>1, <5>2 DEF Exact
    <3>4. ASSUME ~Merged', NEW j \in 1 .. Len(at)
          PROVE  LET x == out'[n + j] IN
                   /\ x.id \in {at[j], NoCall}
                   /\ \/ x.input = x.id /\ x.id # NoCall
                      \/ x.input = NoCall /\ (broken' > 0 \/ ~server'.finished)
                      \/ x.id = NoCall /\ broken' > 0
      <4>0. ~Merged
        BY <3>4, StillMerged
      <4>1. /\ acc[at[j]].args \in Pieces(at[j])
            /\ acc[at[j]].id \in {at[j], NoCall}
            /\ broken = 0 => acc[at[j]].id = at[j]
        BY <1>1, <3>2, <4>0 DEF OpenaiBuffer
      <4>2. broken # 0 => broken' > 0
        BY <1>2, StepKinds DEF vars
      <4>3. CASE acc[at[j]].args = Whole(at[j])
        <5>1. out'[n + j].input = at[j] /\ at[j] # NoCall
          BY <1>2, <3>2, <4>3, ParsedPieces
        <5> QED
          BY <3>2, <4>1, <4>2, <5>1
      <4>4. CASE acc[at[j]].args # Whole(at[j])
        <5>1. ~Over
          BY <3>2, <3>3, <4>0, <4>4
        <5> QED
          BY <1>2, <3>2, <4>1, <4>4, <5>1, ParsedPieces
      <4> QED
        BY <4>3, <4>4
    <3>5. ASSUME Over, ~Merged'
          PROVE  /\ \A j \in 1 .. Len(at) : out'[n + j].id = at[j] /\ server'.step[at[j]] = 3
                 /\ \A c \in Call : server'.step[c] = 3 => \E j \in 1 .. Len(at) : at[j] = c
      <4>0. ~Merged /\ broken = 0
        BY <1>3, <2>6, <3>5, StillMerged
      <4>1. ASSUME NEW j \in 1 .. Len(at)
            PROVE  out'[n + j].id = at[j] /\ server'.step[at[j]] = 3
        BY <1>1, <3>2, <3>3, <3>5, <4>0 DEF OpenaiBuffer
      <4>2. ASSUME NEW c \in Call, server'.step[c] = 3
            PROVE  \E j \in 1 .. Len(at) : at[j] = c
        BY <2>1, <3>3, <3>5, <4>0, <4>2
      <4> QED
        BY <4>1, <4>2
    <3>6. ~fits => \A j \in 1 .. Len(at) : at[j] = 1
      BY <1>1, <3>2
    <3>7. OpenaiGiven(n, at)
      BY <2>1, <3>1, <3>4, <3>5, <3>6 DEF OpenaiGiven
    <3> QED
      BY <2>1, <2>6, <3>7
  <2> QED
    BY <1>4, <2>4, <2>5, <2>6
<1> QED
  BY <1>3, <1>5, <1>6, OpenaiDrains

-------------------------------------------------------------------------------
(* The calls given out. *)

\* A step that gives out no call, and completes none or has lost an event.
NoneGiven ==
  /\ CallsOut' = CallsOut /\ \A i \in CallsOut : out'[i] = out[i]
  /\ broken' = 0 /\ (kind = "anthropic" => fits) =>
       broken = 0 /\ \A c \in Call : server'.step[c] = 4 <=> server.step[c] = 4

\* A step that gives out the call x after the n chunks that were given out.
OneGiven(n, x) ==
  /\ n \in Nat /\ CallsOut \subseteq 1 .. n
  /\ CallsOut' = CallsOut \cup {n + 1}
  /\ \A i \in CallsOut : out'[i] = out[i] /\ out[i].id # x.id
  /\ out'[n + 1] = x
  /\ x.id \in Call
  /\ \/ x.input = x.id
     \/ x.input = NoCall /\ broken' > 0
     \/ kind = "anthropic" /\ broken' >= 4
  /\ broken' = 0 =>
       /\ broken = 0 /\ server.step[x.id] = 3 /\ server'.step[x.id] = 4
       /\ \A c \in Call : c # x.id => server'.step[c] = server.step[c]

LEMMA AnthropicGives ==
  ASSUME TypeInv, GrammarInv, AnthropicInv, kind = "anthropic", [Next]_vars
  PROVE  \/ NoneGiven
         \/ CallsOut' = {} /\ \A c \in Call : server'.step[c] = 0
         \/ \E n, x : OneGiven(n, x)
<1>0. AnthropicOpen /\ AnthropicOut /\ AnthropicBroken /\ AnthropicWhole
  BY DEF AnthropicInv
<1>1. /\ broken \in Nat /\ current \in Buffer /\ NoCall \notin Call
      /\ \A c \in Call : server.step[c] \in 0 .. 4
      /\ current.id \in Call \cup {NoCall} /\ current.args \in Seq(Part) /\ current.open \in BOOLEAN
  <2>1. broken \in Nat /\ current \in Buffer /\ NoCall \notin Call /\ server \in Response
    BY BoundAssumption DEF TypeInv, TypeOK, NoCall, Call
  <2> QED
    BY <2>1 DEF Buffer, Response
<1>2. ASSUME NEW e \in Event, Sent(e), UNCHANGED <<current, out>>, broken' = broken + 1
      PROVE  NoneGiven
  BY <1>1, <1>2 DEF NoneGiven, CallsOut
<1>3. ASSUME NEW e \in Event, AnthropicBlockStart(e) \/ AnthropicPart(e),
             broken' = broken, out' = out
      PROVE  NoneGiven
  <2>1. Sent(e) /\ e.type \in {"start", "part"}
    BY <1>3 DEF AnthropicBlockStart, AnthropicPart, Arrives
  <2>2. \A c \in Call : server'.step[c] = 4 <=> server.step[c] = 4
    BY <1>1, <2>1, SentSteps
  <2> QED
    BY <1>3, <2>2 DEF NoneGiven, CallsOut
<1>4. ASSUME NEW e \in Event, AnthropicBlockStop(e), broken' = broken
      PROVE  NoneGiven \/ \E n, x : OneGiven(n, x)
  <2>1. Sent(e) /\ e.type = "stop"
    BY <1>4 DEF AnthropicBlockStop, Arrives
  <2>2. /\ e.call \in Call /\ server.step[e.call] = 3 /\ server'.step[e.call] = 4
        /\ \A c \in Call : c # e.call => server'.step[c] = server.step[c]
        /\ out \in Seq(OutChunk) /\ server.response = 1
    BY <2>1, SentSteps, ArrivesType DEF TypeInv, TypeOK
  <2>3. broken = 0 /\ fits => current.id = e.call /\ current.args = Whole(e.call)
    <3>1. Exact(e.call, 3) = Whole(e.call)
      BY DEF Exact
    <3> QED
      BY <1>0, <2>2, <3>1 DEF AnthropicWhole
  <2>4. CASE ~current.open
    <3>1. current.id = NoCall
      BY <1>0, <2>4 DEF AnthropicOpen
    <3>2. broken # 0 \/ ~fits
      BY <1>1, <2>2, <2>3, <3>1
    <3>3. out' = out
      BY <1>4, <2>4 DEF AnthropicBlockStop
    <3> QED
      BY <1>4, <3>2, <3>3 DEF NoneGiven, CallsOut
  <2>5. CASE current.open
    <3> DEFINE x == ToolCall(current.id, current.args)
               n == Len(out)
    <3>1. out' = out \o <<x>> /\ current.id \in Call /\ fits
      BY <1>0, <1>1, <1>4, <2>5 DEF AnthropicBlockStop, Yield, AnthropicOpen
    <3>2. /\ x \in OutChunk /\ x.type = "call" /\ x.id = current.id
          /\ x.input = Parsed(current.args)
      BY <2>2, <3>1, OutType, ChunkKinds
    <3> HIDE DEF x
    <3>3. /\ CallsOut' = CallsOut \cup {n + 1} /\ out'[n + 1] = x /\ n \in Nat
          /\ \A i \in DOMAIN out : out'[i] = out[i] /\ i \in 1 .. n
      BY <2>2, <3>1, <3>2, OneMoreOf
    <3>4. /\ CallsOut \subseteq 1 .. n
          /\ \A i \in CallsOut : out'[i] = out[i] /\ out[i].id # x.id
      BY <1>0, <3>2, <3>3 DEF CallsOut, AnthropicOut
    <3>5. \/ x.input = x.id
          \/ x.input = NoCall /\ broken' > 0
          \/ broken' >= 4
      <4>1. CASE broken = 0
        BY <2>2, <2>3, <3>1, <3>2, <4>1, ParsedPieces
      <4>2. CASE broken # 0 /\ current.args = <<>>
        BY <1>1, <1>4, <2>2, <3>2, <4>2, ParsedPieces
      <4>3. CASE broken # 0 /\ current.args # <<>>
        <5>1. current.args[1][1] = current.id \/ broken >= 4
          BY <1>0, <2>5, <4>3 DEF AnthropicBroken
        <5> QED
          BY <1>1, <1>4, <3>1, <3>2, <4>3, <5>1, ParsedPieces
      <4> QED
        BY <4>1, <4>2, <4>3
    <3> HIDE DEF n
    <3>6. OneGiven(n, x)
      BY <1>4, <2>2, <2>3, <3>1, <3>2, <3>3, <3>4, <3>5 DEF OneGiven
    <3> QED
      BY <3>6
  <2> QED
    BY <2>4, <2>5
<1>6. ASSUME NEW e \in Event, AnthropicUnread(e), UNCHANGED <<current, broken, out>>
      PROVE  NoneGiven
  BY <1>6 DEF AnthropicUnread, NoneGiven, CallsOut
<1>5. CASE /\ UNCHANGED <<current, broken>> /\ server'.step = server.step
           /\ CallsOut' = CallsOut /\ \A i \in CallsOut : out'[i] = out[i]
  BY <1>5 DEF NoneGiven
<1> QED
  BY <1>2, <1>3, <1>4, <1>5, <1>6, AnthropicSteps

LEMMA ResponsesGives ==
  ASSUME TypeInv, GrammarInv, ResponsesInv, kind = "responses", [Next]_vars
  PROVE  \/ NoneGiven
         \/ CallsOut' = {} /\ \A c \in Call : server'.step[c] = 0
         \/ \E n, x : OneGiven(n, x)
<1>1. /\ broken \in Nat
      /\ \A c \in Call : ResponsesBuffer(c) /\ server.step[c] \in {0, 2, 3, 4}
      /\ \A i \in CallsOut : out[i].id \in Call /\ server.step[out[i].id] = 4
  BY BoundAssumption DEF TypeInv, TypeOK, GrammarInv, ResponsesInv
<1>2. ASSUME NEW e \in Event, Sent(e), UNCHANGED <<acc, out>>, broken' = broken + 1
      PROVE  NoneGiven
  BY <1>1, <1>2 DEF NoneGiven, CallsOut
<1>3. ASSUME NEW e \in Event, ResponsesPart(e), broken' = broken, out' = out
      PROVE  NoneGiven
  <2>1. Sent(e) /\ e.type = "part"
    BY <1>3 DEF ResponsesPart, Arrives
  <2>2. \A c \in Call : server'.step[c] = 4 <=> server.step[c] = 4
    BY <1>1, <2>1, SentSteps
  <2> QED
    BY <1>3, <2>2 DEF NoneGiven, CallsOut
<1>4. ASSUME NEW e \in Event, ResponsesItem(e), broken' = broken
      PROVE  \E n, x : OneGiven(n, x)
  <2> DEFINE args == IF e.full THEN Whole(e.call) ELSE acc[e.call].args
             x == ToolCall(e.call, args)
             n == Len(out)
  <2>1. Sent(e) /\ e.type = "stop" /\ out' = out \o <<x>>
    BY <1>4 DEF ResponsesItem, Arrives, Yield
  <2>2. /\ e.call \in Call /\ server.step[e.call] = 3 /\ server'.step[e.call] = 4
        /\ \A c \in Call : c # e.call => server'.step[c] = server.step[c]
        /\ out \in Seq(OutChunk) /\ server.response = 1
    BY <2>1, SentSteps, ArrivesType DEF TypeInv, TypeOK
  <2>3. args \in Pieces(e.call) /\ (broken = 0 => args = Whole(e.call))
    <3>1. /\ acc[e.call].args \in Pieces(e.call)
          /\ broken = 0 => acc[e.call].args = Exact(e.call, 3)
      BY <1>1, <2>2 DEF ResponsesBuffer
    <3>2. Exact(e.call, 3) = Whole(e.call) /\ Whole(e.call) \in Pieces(e.call)
      BY DEF Exact, Pieces
    <3> QED
      BY <3>1, <3>2
  <2> HIDE DEF args
  <2>4. x \in OutChunk /\ x.type = "call" /\ x.id = e.call /\ x.input = Parsed(args)
    BY <2>2, OutType, ChunkKinds
  <2> HIDE DEF x
  <2>5. /\ CallsOut' = CallsOut \cup {n + 1} /\ out'[n + 1] = x /\ n \in Nat
        /\ \A i \in DOMAIN out : out'[i] = out[i] /\ i \in 1 .. n
    BY <2>1, <2>2, <2>4, OneMoreOf
  <2>6. /\ CallsOut \subseteq 1 .. n
        /\ \A i \in CallsOut : out'[i] = out[i] /\ out[i].id # x.id
    BY <1>1, <2>2, <2>4, <2>5 DEF CallsOut
  <2>7. x.input = x.id \/ (x.input = NoCall /\ broken' > 0)
    <3>1. CASE args = Whole(e.call)
      BY <2>2, <2>4, <3>1, ParsedPieces
    <3>2. CASE args # Whole(e.call)
      BY <1>1, <1>4, <2>2, <2>3, <2>4, <3>2, ParsedPieces
    <3> QED
      BY <3>1, <3>2
  <2> HIDE DEF n
  <2>8. OneGiven(n, x)
    BY <1>4, <2>2, <2>4, <2>5, <2>6, <2>7 DEF OneGiven
  <2> QED
    BY <2>8
<1>5. CASE /\ UNCHANGED <<acc, broken>> /\ server'.step = server.step
           /\ CallsOut' = CallsOut /\ \A i \in CallsOut : out'[i] = out[i]
  BY <1>5 DEF NoneGiven
<1> QED
  BY <1>2, <1>3, <1>4, <1>5, ResponsesSteps

\* What a step does to the calls given out, whichever the provider.
CallsStep ==
  \/ /\ kind # "openai"
     /\ \/ NoneGiven
        \/ CallsOut' = {} /\ \A c \in Call : server'.step[c] = 0
        \/ \E n, x : OneGiven(n, x)
  \/ /\ kind = "openai"
     /\ \/ /\ CallsOut' = CallsOut /\ \A i \in CallsOut : out'[i] = out[i]
           /\ server'.finished /\ broken' = 0 =>
                server.finished /\ server'.step = server.step /\ broken = 0
        \/ CallsOut = {} /\ \E n \in Nat, at \in Seq(Call) : OpenaiGiven(n, at)

StreamInv == /\ TypeInv /\ GrammarInv
             /\ OpenaiInv /\ AnthropicInv /\ ResponsesInv

LEMMA CallsSteps ==
  ASSUME StreamInv, [Next]_vars
  PROVE  /\ CallsStep /\ kind' = kind /\ fits' = fits
         /\ broken \in Nat /\ broken' \in Nat /\ broken <= broken'
<1>1. kind \in {"openai", "anthropic", "responses"} /\ broken \in Nat
  BY BoundAssumption DEF StreamInv, TypeInv, TypeOK
<1>2. CallsStep
  BY <1>1, OpenaiGives, AnthropicGives, ResponsesGives DEF StreamInv, CallsStep
<1>3. kind' = kind /\ fits' = fits /\ (broken' = broken \/ broken' = broken + 1)
  BY StepKinds DEF StreamInv, vars
<1> QED
  BY <1>1, <1>2, <1>3

LEMMA IdsInvNext == StreamInv /\ IdsInv /\ [Next]_vars => IdsInv'
<1> SUFFICES ASSUME StreamInv, IdsInv, [Next]_vars PROVE IdsInv'
  OBVIOUS
<1>1. CASE CallsOut' = CallsOut /\ \A i \in CallsOut : out'[i] = out[i]
  BY <1>1 DEF IdsInv
<1>2. CASE CallsOut' = {}
  BY <1>2 DEF IdsInv
<1>3. ASSUME NEW n, NEW x, OneGiven(n, x)
      PROVE  IdsInv'
  <2>1. /\ CallsOut' = CallsOut \cup {n + 1} /\ out'[n + 1] = x
        /\ \A i \in CallsOut : out'[i] = out[i] /\ out[i].id # x.id
    BY <1>3 DEF OneGiven
  <2> QED
    BY <2>1 DEF IdsInv
<1>4. ASSUME NEW n \in Nat, NEW at \in Seq(Call), OpenaiGiven(n, at)
      PROVE  IdsInv'
  <2>1. CallsOut' = {n + j : j \in 1 .. Len(at)}
    BY <1>4 DEF OpenaiGiven
  <2>2. ASSUME NEW i \in 1 .. Len(at), NEW j \in 1 .. Len(at), i # j
        PROVE  at[i] # at[j]
    <3>1. at[i] \in Nat /\ at[j] \in Nat
      <4>1. at[i] \in Call /\ at[j] \in Call
        OBVIOUS
      <4>2. \A c \in Call : c \in Nat
        BY BoundAssumption DEF Call
      <4> QED
        BY <4>1, <4>2, Zenon
    <3>2. (i < j => at[i] < at[j]) /\ (j < i => at[j] < at[i])
      BY <1>4 DEF OpenaiGiven
    <3> QED
      BY <2>2, <3>1, <3>2
  <2>3. \/ \A j \in 1 .. Len(at) : out'[n + j].id \in {at[j], NoCall}
        \/ \A j \in 1 .. Len(at) : at[j] = 1
    <3>1. Merged' => ~fits
      BY CallsSteps DEF Merged
    <3> QED
      BY <1>4, <3>1 DEF OpenaiGiven
  <2>4. ASSUME NEW i \in CallsOut', NEW j \in CallsOut', i # j, out'[i].id # NoCall
        PROVE  out'[i].id # out'[j].id
    <3>1. PICK k \in 1 .. Len(at), l \in 1 .. Len(at) : i = n + k /\ j = n + l
      BY <2>1
    <3> QED
      BY <2>2, <2>3, <2>4, <3>1
  <2> QED
    BY <2>4 DEF IdsInv
<1> QED
  BY <1>1, <1>2, <1>3, <1>4, CallsSteps DEF CallsStep, NoneGiven

LEMMA ArgumentsNext == StreamInv /\ ArgumentsAreOwn /\ [Next]_vars => ArgumentsAreOwn'
<1> SUFFICES ASSUME StreamInv, ArgumentsAreOwn, [Next]_vars PROVE ArgumentsAreOwn'
  OBVIOUS
<1>0. /\ kind' = kind /\ broken \in Nat /\ broken' \in Nat /\ broken <= broken'
      /\ NoCall \notin Call /\ (~Merged' => ~Merged)
  BY CallsSteps, StillMerged DEF StreamInv, NoCall, Call
<1>1. ASSUME CallsOut' = CallsOut, \A i \in CallsOut : out'[i] = out[i],
             kind = "openai" /\ CallsOut # {} => server'.finished = server.finished
      PROVE  ArgumentsAreOwn'
  BY <1>0, <1>1 DEF ArgumentsAreOwn
<1>2. CASE CallsOut' = {}
  BY <1>2 DEF ArgumentsAreOwn
<1>3. ASSUME NEW n, NEW x, OneGiven(n, x), kind # "openai"
      PROVE  ArgumentsAreOwn'
  <2>1. /\ CallsOut' = CallsOut \cup {n + 1} /\ out'[n + 1] = x
        /\ \A i \in CallsOut : out'[i] = out[i]
    BY <1>3 DEF OneGiven
  <2>2. \/ x.input = x.id /\ x.id # NoCall
        \/ x.input = NoCall /\ broken' > 0
        \/ kind = "anthropic" /\ broken' >= 4
    BY <1>0, <1>3 DEF OneGiven
  <2> QED
    BY <1>0, <1>3, <2>1, <2>2 DEF ArgumentsAreOwn
<1>4. ASSUME NEW n \in Nat, NEW at \in Seq(Call), OpenaiGiven(n, at), kind = "openai"
      PROVE  ArgumentsAreOwn'
  BY <1>0, <1>4 DEF OpenaiGiven, ArgumentsAreOwn
<1>5. CASE kind = "openai" /\ CallsOut # {}
  <2>1. server.finished \in BOOLEAN /\ server'.finished \in BOOLEAN
    BY TypeInvNext DEF StreamInv, TypeInv, TypeOK, Response
  <2>2. server.finished \/ place = "end"
    BY <1>5 DEF StreamInv, OpenaiInv
  <2>3. place = "end" => server' = server
    BY StepKinds DEF StreamInv, Sent, vars
  <2>4. server.finished => server'.finished
    <3>1. place = "send" => ~server.finished
      BY DEF StreamInv, TypeInv, ResponseInv, Silent
    <3>2. \A e \in Event : Sent(e) /\ server.finished => server'.finished
      BY SentType DEF StreamInv, TypeInv
    <3> QED
      BY <3>1, <3>2, StepKinds DEF StreamInv, vars
  <2> QED
    BY <1>1, <1>5, <2>1, <2>2, <2>3, <2>4, CallsSteps DEF CallsStep
<1> QED
  BY <1>1, <1>2, <1>3, <1>4, <1>5, CallsSteps DEF CallsStep, NoneGiven

LEMMA CallsInvNext == StreamInv /\ CallsInv /\ [Next]_vars => CallsInv'
<1> SUFFICES ASSUME StreamInv, CallsInv, [Next]_vars, broken' = 0,
                    kind = "openai" => server'.finished /\ ~Merged',
                    kind = "anthropic" => fits
             PROVE  /\ \A i \in CallsOut' : out'[i].id \in Call
                    /\ \A c \in Call : server'.step[c] = (IF kind = "openai" THEN 3 ELSE 4)
                                         <=> \E i \in CallsOut' : out'[i].id = c
                    /\ kind # "responses" =>
                         \A i, j \in CallsOut' : i < j => out'[i].id < out'[j].id
  BY CallsSteps DEF CallsInv
<1>0. broken = 0 /\ ~Merged
  BY CallsSteps, StillMerged DEF StreamInv, Merged
<1>1. ASSUME kind = "openai" => server.finished
      PROVE  /\ \A i \in CallsOut : out[i].id \in Call
             /\ \A c \in Call : server.step[c] = (IF kind = "openai" THEN 3 ELSE 4)
                                  <=> \E i \in CallsOut : out[i].id = c
             /\ kind # "responses" =>
                  \A i, j \in CallsOut : i < j => out[i].id < out[j].id
  BY <1>0, <1>1 DEF CallsInv
<1>2. CASE kind # "openai" /\ NoneGiven
  BY <1>1, <1>2 DEF NoneGiven
<1>3. CASE kind # "openai" /\ CallsOut' = {} /\ \A c \in Call : server'.step[c] = 0
  BY <1>3
<1>4. CASE /\ kind = "openai" /\ CallsOut' = CallsOut /\ \A i \in CallsOut : out'[i] = out[i]
           /\ server.finished /\ server'.step = server.step
  BY <1>1, <1>4
<1>5. ASSUME NEW n \in Nat, NEW at \in Seq(Call), OpenaiGiven(n, at), kind = "openai"
      PROVE  /\ \A i \in CallsOut' : out'[i].id \in Call
             /\ \A c \in Call : server'.step[c] = 3 <=> \E i \in CallsOut' : out'[i].id = c
             /\ \A i, j \in CallsOut' : i < j => out'[i].id < out'[j].id
  <2>1. /\ CallsOut' = {n + j : j \in 1 .. Len(at)}
        /\ \A i, j \in 1 .. Len(at) : i < j => at[i] < at[j]
        /\ \A j \in 1 .. Len(at) :
             out'[n + j].id = at[j] /\ server'.step[at[j]] = 3 /\ at[j] \in Call
        /\ \A c \in Call : server'.step[c] = 3 => \E j \in 1 .. Len(at) : at[j] = c
    BY <1>5 DEF OpenaiGiven
  <2>2. \A i, j \in CallsOut' : i < j => out'[i].id < out'[j].id
    BY <2>1
  <2>3. \A i \in CallsOut' : out'[i].id \in Call
    BY <2>1
  <2>4. \A c \in Call : (\E i \in CallsOut' : out'[i].id = c) => server'.step[c] = 3
    BY <2>1
  <2>5. ASSUME NEW c \in Call, server'.step[c] = 3
        PROVE  \E i \in CallsOut' : out'[i].id = c
    <3>1. PICK j \in 1 .. Len(at) : at[j] = c
      BY <2>1, <2>5
    <3>2. n + j \in CallsOut' /\ out'[n + j].id = c
      BY <2>1, <3>1
    <3> QED
      BY <3>2
  <2> QED
    BY <2>2, <2>3, <2>4, <2>5
<1>6. ASSUME NEW n, NEW x, OneGiven(n, x), kind # "openai"
      PROVE  /\ \A i \in CallsOut' : out'[i].id \in Call
             /\ \A c \in Call : server'.step[c] = 4 <=> \E i \in CallsOut' : out'[i].id = c
             /\ kind # "responses" =>
                  \A i, j \in CallsOut' : i < j => out'[i].id < out'[j].id
  <2>1. /\ n \in Nat /\ CallsOut \subseteq 1 .. n
        /\ CallsOut' = CallsOut \cup {n + 1}
        /\ \A i \in CallsOut : out'[i] = out[i]
        /\ out'[n + 1] = x /\ x.id \in Call
        /\ server.step[x.id] = 3 /\ server'.step[x.id] = 4
        /\ \A c \in Call : c # x.id => server'.step[c] = server.step[c]
    BY <1>6 DEF OneGiven
  <2>2. \A c \in Call : server'.step[c] = 4 <=> \E i \in CallsOut' : out'[i].id = c
    BY <1>1, <1>6, <2>1
  <2>3. ASSUME kind # "responses", NEW i \in CallsOut PROVE out[i].id < x.id
    <3>1. out[i].id \in Call /\ server.step[out[i].id] = 4 /\ kind = "anthropic"
      BY <1>1, <1>6, <2>3 DEF StreamInv, TypeInv, TypeOK
    <3>2. ~ x.id < out[i].id
      BY <2>1, <3>1 DEF StreamInv, GrammarInv
    <3>3. out[i].id \in Nat /\ x.id \in Nat /\ out[i].id # x.id
      BY <2>1, <3>1, BoundAssumption DEF Call
    <3> QED
      BY <3>2, <3>3
  <2>4. ASSUME kind # "responses", NEW i \in CallsOut', NEW j \in CallsOut', i < j
        PROVE  out'[i].id < out'[j].id
    <3>1. i \in CallsOut
      BY <2>1, <2>4
    <3>2. CASE j \in CallsOut
      BY <1>1, <1>6, <2>1, <2>4, <3>1, <3>2
    <3>3. CASE j = n + 1
      BY <2>1, <2>3, <2>4, <3>1, <3>3
    <3> QED
      BY <2>1, <3>2, <3>3
  <2> QED
    BY <1>1, <1>6, <2>1, <2>2, <2>4
<1> QED
  BY <1>0, <1>2, <1>3, <1>4, <1>5, <1>6, CallsSteps DEF CallsStep

-------------------------------------------------------------------------------
(* Texts and usages. *)

\* The calls of the buffer and the mark of the end are neither texts nor usages.
LEMMA DrainedOther ==
  ASSUME TypeInv, server.response = 1,
         out' = out \o Drained \/ out' = out \o Drained \o <<Chunk("done")>>
  PROVE  /\ SaysOut' = SaysOut /\ UsagesOut' = UsagesOut
         /\ \A i \in UsagesOut : out'[i] = out[i]
<1>1. TypeOK /\ server.response \in 1 .. 2 /\ out \in Seq(OutChunk)
  BY DEF TypeInv, TypeOK
<1>2. /\ Drained \in Seq(OutChunk)
      /\ \E at \in Seq(Call) :
           /\ Len(at) = Len(Drained)
           /\ \A i \in 1 .. Len(at) :
                acc[at[i]].open /\ Drained[i] = ToolCall(acc[at[i]].id, acc[at[i]].args)
  BY <1>1, DrainedCalls
<1>3. \A i \in 1 .. Len(Drained) : Drained[i].type = "call"
  <2>1. \A id, args : ToolCall(id, args).type = "call"
    BY DEF ToolCall, Chunk
  <2> QED
    BY <1>2, <2>1
<1>4. /\ out' \in Seq(OutChunk)
      /\ Len(out) + Len(Drained) <= Len(out')
      /\ \A i \in 1 .. Len(out') : \/ i \in 1 .. Len(out)
                                   \/ i - Len(out) \in 1 .. Len(Drained)
                                   \/ i > Len(out) + Len(Drained) /\ out'[i] = Chunk("done")
      /\ \A i \in 1 .. Len(out) : out'[i] = out[i]
      /\ \A i \in 1 .. Len(Drained) : out'[Len(out) + i] = Drained[i]
  BY <1>1, ManyMore
<1>5. /\ Len(out) \in Nat /\ DOMAIN out = 1 .. Len(out)
      /\ Len(Drained) \in Nat
      /\ Len(out') \in Nat /\ DOMAIN (out') = 1 .. Len(out')
  BY <1>1, <1>2, <1>4, LenProperties, Zenon
<1>6. Follow(Len(out), Len(Drained), Len(out'), Drained)
  BY <1>3, <1>4, <1>5, Zenon DEF Follow
<1>7. ASSUME NEW n, NEW m, NEW l, NEW d, Follow(n, m, l, d)
      PROVE  /\ SaysOut' = SaysOut /\ UsagesOut' = UsagesOut
             /\ \A i \in UsagesOut : out'[i] = out[i]
  <2>1. /\ n \in Nat /\ m \in Nat /\ l \in Nat /\ n + m <= l
        /\ \A i \in 1 .. n : out'[i] = out[i]
    BY <1>7 DEF Follow
  <2>2. ASSUME NEW i \in 1 .. l, ~ i \in 1 .. n
        PROVE  out'[i].type \in {"call", "done"}
    <3>1. CASE i - n \in 1 .. m
      <4>1. i = n + (i - n)
        BY <2>1
      <4>2. \A j \in 1 .. m : out'[n + j].type = "call"
        BY <1>7 DEF Follow
      <4> QED
        BY <3>1, <4>1, <4>2
    <3>2. CASE out'[i] = Chunk("done")
      BY <3>2, ChunkKinds
    <3> QED
      BY <1>7, <2>2, <3>1, <3>2 DEF Follow
  <2>3. /\ SaysOut = {i \in 1 .. n : out[i].type = "say"}
        /\ UsagesOut = {i \in 1 .. n : out[i].type = "usage"}
        /\ SaysOut' = {i \in 1 .. l : out'[i].type = "say"}
        /\ UsagesOut' = {i \in 1 .. l : out'[i].type = "usage"}
    BY <1>7 DEF Follow, SaysOut, UsagesOut
  <2>4. \A i \in 1 .. n : i \in 1 .. l
    BY <2>1
  <2> QED
    BY <2>1, <2>2, <2>3, <2>4
<1> QED
  BY <1>6, <1>7, Zenon

\* What a step does to the texts and usages given out and to what the server has sent.
AddsNone == /\ SaysOut' = SaysOut /\ UsagesOut' = UsagesOut /\ \A i \in UsagesOut : out'[i] = out[i]
            /\ server'.says = server.says
            /\ \/ server'.counts = server.counts
               \/ server.counts = 0 /\ server'.counts = 1
AddsSay == /\ SaysOut' = SaysOut \cup {Len(out) + 1} /\ UsagesOut' = UsagesOut
           /\ \A i \in UsagesOut : out'[i] = out[i]
           /\ server'.says = server.says + 1 /\ server'.counts = server.counts
AddsUsage == /\ SaysOut' = SaysOut /\ UsagesOut' = UsagesOut \cup {Len(out) + 1}
             /\ out'[Len(out) + 1].count = server'.counts
             /\ server'.says = server.says /\ server'.counts = server.counts + 1
Begins == UsagesOut' = {} /\ SaysOut' = {} /\ server'.says = 0 /\ server'.counts = 0

\* The same for the steps at which an event arrives.
LEMMA ArrivesCounts ==
  ASSUME TypeInv, NEW e \in Event, Sent(e),
         OpenaiRead(e) \/ AnthropicRead(e) \/ ResponsesRead(e) \/ ServerError(e)
  PROVE  AddsNone \/ AddsSay \/ AddsUsage
<1>1. /\ server.says \in Nat /\ server.counts \in Nat /\ server'.counts \in Nat
      /\ server.response = 1
      /\ server'.says = IF e.type = "say" THEN server.says + 1 ELSE server.says
      /\ server'.counts = IF e.type \in {"begin", "count"} \/ (e.type = "end" /\ e.full)
                          THEN server.counts + 1 ELSE server.counts
      /\ out \in Seq(OutChunk) /\ e.full \in BOOLEAN
  BY SentType, ArrivesType DEF TypeInv, TypeOK, Response, Event
<1>0. kind \in {"openai", "anthropic"} => ~e.full
  BY DEF Sent, OpenaiSends, AnthropicSends
<1>2. CASE out' = out /\ e.type \in {"start", "part", "stop", "fail"}
  BY <1>1, <1>2 DEF AddsNone, SaysOut, UsagesOut
<1>3. CASE Delta(e)
  <2>1. e.type = "say" /\ out' = out \o <<Say>>
    BY <1>3 DEF Delta, Yield
  <2>2. Say \in OutChunk /\ Say.type = "say"
    BY <1>1, OutType, ChunkKinds
  <2> QED
    BY <1>1, <2>1, <2>2, OneMoreOf DEF AddsSay, UsagesOut
<1>4. CASE OpenaiUsage(e) \/ AnthropicUsage(e)
  <2>1. e.type = "count" /\ out' = out \o <<Count(server'.counts)>>
    BY <1>4 DEF OpenaiUsage, AnthropicUsage, Yield
  <2>2. /\ Count(server'.counts) \in OutChunk /\ Count(server'.counts).type = "usage"
        /\ Count(server'.counts).count = server'.counts
    BY <1>1, OutType, ChunkKinds
  <2> QED
    BY <1>1, <2>1, <2>2, OneMoreOf DEF AddsUsage
<1>5. CASE AnthropicStart(e)
  <2>1. e.type = "begin" /\ out' = out /\ server.counts = 0
    BY <1>5, SentSteps DEF AnthropicStart
  <2> QED
    BY <1>1, <2>1 DEF AddsNone, SaysOut, UsagesOut
<1>6. CASE ResponsesItem(e) \/ (AnthropicBlockStop(e) /\ current.open)
  <2>1. /\ e.type = "stop" /\ e.call \in Call
        /\ \E id \in Call \cup {NoCall} : \E args : out' = out \o <<ToolCall(id, args)>>
    <3>1. CASE ResponsesItem(e)
      BY <3>1, ArrivesType DEF ResponsesItem, Yield
    <3>2. CASE AnthropicBlockStop(e) /\ current.open
      BY <3>2, ArrivesType DEF AnthropicBlockStop, Yield, TypeInv, TypeOK, Buffer
    <3> QED
      BY <1>6, <3>1, <3>2
  <2>0. PICK id \in Call \cup {NoCall} : \E args : out' = out \o <<ToolCall(id, args)>>
    BY <2>1
  <2>2. PICK args : out' = out \o <<ToolCall(id, args)>>
    BY <2>0
  <2>3. ToolCall(id, args) \in OutChunk /\ ToolCall(id, args).type = "call"
    <3>1. ToolCall(id, args).type = "call"
      BY DEF ToolCall, Chunk
    <3> QED
      BY <1>1, <3>1, OutType
  <2> QED
    BY <1>1, <2>1, <2>2, <2>3, OneMoreOf DEF AddsNone, UsagesOut
<1>7. CASE AnthropicDone(e) /\ kind = "anthropic"
  <2>1. e.type = "end" /\ out' = Append(out, Chunk("done"))
    BY <1>7 DEF AnthropicDone
  <2>2. Chunk("done") \in OutChunk /\ Chunk("done").type = "done"
    BY <1>1, OutType, ChunkKinds
  <2> QED
    BY <1>0, <1>1, <1>7, <2>1, <2>2, OneMoreOf DEF AddsNone, UsagesOut
<1>8. CASE OpenaiFinish(e) \/ (OpenaiDone(e) /\ kind = "openai")
  <2>1. /\ e.type = "finish" \/ (e.type = "end" /\ kind = "openai")
        /\ out' = out \o Drained \/ out' = out \o Drained \o <<Chunk("done")>>
    BY <1>8 DEF OpenaiFinish, OpenaiDone
  <2> QED
    BY <1>0, <1>1, <2>1, DrainedOther DEF AddsNone
<1>9. CASE ResponsesCompleted(e)
  <2>1. /\ e.type = "end"
        /\ out' = out \o (IF e.full THEN <<Count(server'.counts)>> ELSE <<>>) \o <<Chunk("done")>>
    BY <1>9 DEF ResponsesCompleted
  <2>2. /\ SaysOut' = SaysOut
        /\ UsagesOut' = IF e.full THEN UsagesOut \cup {Len(out) + 1} ELSE UsagesOut
        /\ \A i \in DOMAIN out : out'[i] = out[i]
        /\ e.full => out'[Len(out) + 1] = Count(server'.counts)
    BY <1>1, <2>1, CompletedOut
  <2>3. Count(server'.counts).count = server'.counts
    BY ChunkKinds
  <2>4. CASE e.full
    BY <1>1, <2>1, <2>2, <2>3, <2>4 DEF AddsUsage
  <2>5. CASE ~e.full
    BY <1>1, <2>1, <2>2, <2>5 DEF AddsNone, UsagesOut
  <2> QED
    BY <1>1, <2>4, <2>5
<1>10. ASSUME \/ OpenaiPart(e) \/ AnthropicBlockStart(e) \/ AnthropicPart(e)
              \/ ResponsesPart(e) \/ ServerError(e) \/ AnthropicUnread(e)
              \/ AnthropicBlockStop(e) /\ ~current.open
       PROVE  out' = out /\ e.type \in {"start", "part", "stop", "fail"}
  BY <1>10 DEF OpenaiPart, AnthropicBlockStart, AnthropicPart, ResponsesPart, ServerError,
         AnthropicBlockStop, AnthropicUnread
<1>11. CASE OpenaiRead(e)
  BY <1>2, <1>3, <1>4, <1>8, <1>10, <1>11 DEF OpenaiRead
<1>12. CASE AnthropicRead(e)
  BY <1>2, <1>3, <1>4, <1>5, <1>6, <1>7, <1>10, <1>12 DEF AnthropicRead
<1>13. CASE ResponsesRead(e)
  BY <1>2, <1>3, <1>6, <1>9, <1>10, <1>13 DEF ResponsesRead
<1> QED
  BY <1>2, <1>10, <1>11, <1>12, <1>13

LEMMA CountsStep ==
  ASSUME TypeInv, [Next]_vars, broken' = 0
  PROVE  broken = 0 /\ (AddsNone \/ AddsSay \/ AddsUsage \/ Begins)
<1>0. broken \in Nat
  BY BoundAssumption DEF TypeInv, TypeOK
<1>1. CASE SendOk
  BY <1>1 DEF SendOk, Silent, TypeInv, ResponseInv, Begins, SaysOut, UsagesOut
<1>2. CASE SendFails \/ Closed \/ ErrorEarly \/ AfterLoop \/ UNCHANGED vars
  BY <1>2 DEF SendFails, Closed, ErrorEarly, AfterLoop, vars, AddsNone, SaysOut, UsagesOut
<1>3. CASE ErrorLate
  <2>1. /\ out' = Append(out, Chunk("done")) /\ server.response = 1
        /\ server' = server /\ broken' = broken /\ out \in Seq(OutChunk)
    BY <1>3 DEF ErrorLate, TypeInv, TypeOK, ResponseInv
  <2>2. Chunk("done") \in OutChunk /\ Chunk("done").type = "done"
    BY <2>1, OutType, ChunkKinds
  <2> QED
    BY <2>1, <2>2, OneMoreOf DEF AddsNone, UsagesOut
<1>4. CASE OpenaiAfterLoop
  <2>1. /\ out' = out \o Drained \o <<Chunk("done")>> /\ server.response = 1
        /\ server' = server /\ broken' = broken
    BY <1>4 DEF OpenaiAfterLoop, TypeInv, ResponseInv
  <2> QED
    BY <2>1, DrainedOther DEF AddsNone
<1>5. CASE SkipBroken
  BY <1>0, <1>5 DEF SkipBroken
<1>6. ASSUME NEW e \in Event, OpenaiRead(e) \/ AnthropicRead(e) \/ ResponsesRead(e) \/ ServerError(e)
      PROVE  broken = 0 /\ (AddsNone \/ AddsSay \/ AddsUsage)
  <2>1. Sent(e) /\ broken' = broken
    BY <1>6 DEF OpenaiRead, Delta, OpenaiPart, OpenaiFinish, OpenaiUsage, OpenaiDone,
                AnthropicRead, AnthropicStart, AnthropicBlockStart, AnthropicPart,
                AnthropicBlockStop, AnthropicUsage, AnthropicDone, AnthropicUnread, ResponsesRead,
                ResponsesPart, ResponsesItem, ResponsesCompleted, ServerError, Arrives
  <2> QED
    BY <1>6, <2>1, ArrivesCounts
<1> QED
  BY <1>1, <1>2, <1>3, <1>4, <1>5, <1>6 DEF Next, Read

LEMMA CountsInvNext == TypeInv /\ CountsInv /\ [Next]_vars => CountsInv'
<1> SUFFICES ASSUME TypeInv, CountsInv, [Next]_vars, broken' = 0
             PROVE  /\ Cardinality(SaysOut') = server'.says
                    /\ server'.counts = 0 => UsagesOut' = {}
                    /\ \/ UsagesOut' = {} /\ server'.counts <= 1
                       \/ \E i \in UsagesOut' : /\ \A j \in UsagesOut' : j <= i
                                                /\ out'[i].count = server'.counts
  BY DEF CountsInv
<1>0. broken = 0 /\ (AddsNone \/ AddsSay \/ AddsUsage \/ Begins)
  BY CountsStep
<1>1. /\ Cardinality(SaysOut) = server.says
      /\ server.counts = 0 => UsagesOut = {}
      /\ \/ UsagesOut = {} /\ server.counts <= 1
         \/ \E i \in UsagesOut : /\ \A j \in UsagesOut : j <= i
                                 /\ out[i].count = server.counts
  BY <1>0 DEF CountsInv
<1>2. /\ server.says \in Nat /\ server.counts \in Nat /\ Len(out) \in Nat
      /\ SaysOut \subseteq 1 .. Len(out) /\ UsagesOut \subseteq 1 .. Len(out)
  <2>1. server \in Response /\ out \in Seq(OutChunk)
    BY DEF TypeInv, TypeOK
  <2> QED
    BY <2>1 DEF Response, SaysOut, UsagesOut
<1>3. CASE AddsNone
  BY <1>1, <1>2, <1>3 DEF AddsNone
<1>4. CASE AddsSay
  <2>1. IsFiniteSet(SaysOut)
    <3>1. IsFiniteSet(1 .. Len(out))
      BY <1>2, FS_Interval
    <3> QED
      BY <1>2, <3>1, FS_Subset
  <2>2. Len(out) + 1 \notin SaysOut
    BY <1>2
  <2>3. Cardinality(SaysOut') = server'.says
    <3>1. Cardinality(SaysOut \cup {Len(out) + 1}) = Cardinality(SaysOut) + 1
      BY <2>1, <2>2, FS_AddElement
    <3> QED
      BY <1>1, <1>4, <3>1 DEF AddsSay
  <2> QED
    BY <1>1, <1>4, <2>3 DEF AddsSay
<1>5. CASE AddsUsage
  <2>1. \A j \in UsagesOut' : j <= Len(out) + 1
    BY <1>2, <1>5 DEF AddsUsage
  <2>2. Len(out) + 1 \in UsagesOut' /\ out'[Len(out) + 1].count = server'.counts
    BY <1>5 DEF AddsUsage
  <2>3. server'.counts # 0 /\ Cardinality(SaysOut') = server'.says
    BY <1>1, <1>2, <1>5 DEF AddsUsage
  <2> QED
    BY <2>1, <2>2, <2>3
<1>6. CASE Begins
  BY <1>6, FS_EmptySet DEF Begins
<1> QED
  BY <1>0, <1>3, <1>4, <1>5, <1>6

-------------------------------------------------------------------------------
(* The theorems. *)

LEMMA StreamInvInit == Init => StreamInv /\ IdsInv /\ CallsInv /\ CountsInv /\ ArgumentsAreOwn
<1> SUFFICES ASSUME Init
             PROVE  StreamInv /\ IdsInv /\ CallsInv /\ CountsInv /\ ArgumentsAreOwn
  OBVIOUS
<1>1. /\ out = <<>> /\ broken = 0 /\ server = Silent /\ current = Empty
      /\ acc = [c \in Call |-> Empty] /\ place = "send"
  BY DEF Init
<1>2. /\ CallsOut = {} /\ SaysOut = {} /\ UsagesOut = {}
      /\ server.says = 0 /\ server.counts = 0 /\ ~server.finished
      /\ \A c \in Call : server.step[c] = 0
      /\ \A c \in Call : acc[c].args = <<>> /\ ~acc[c].open /\ acc[c].id = NoCall
      /\ ~current.open /\ current.id = NoCall /\ current.args = <<>>
  BY <1>1 DEF CallsOut, SaysOut, UsagesOut, Silent, Empty
<1>3. TypeInv /\ GrammarInv
  BY TypeInvInit, GrammarInvInit
<1>4. ASSUME NEW c \in Call PROVE OpenaiBuffer(c) /\ ResponsesBuffer(c)
  BY <1>1, <1>2, <1>4, PiecesApart DEF OpenaiBuffer, ResponsesBuffer, Pieces, Exact
<1>5. AnthropicInv
  BY <1>1, <1>2 DEF AnthropicInv, AnthropicOpen, AnthropicOut, AnthropicBroken, AnthropicWhole
<1>6. OpenaiInv /\ ResponsesInv
  BY <1>2, <1>4 DEF OpenaiInv, ResponsesInv
<1>7. IdsInv /\ CallsInv /\ ArgumentsAreOwn
  BY <1>2 DEF IdsInv, CallsInv, ArgumentsAreOwn
<1>8. CountsInv
  BY <1>2, FS_EmptySet DEF CountsInv
<1> QED
  BY <1>3, <1>5, <1>6, <1>7, <1>8 DEF StreamInv

LEMMA StreamInvNext == StreamInv /\ [Next]_vars => StreamInv'
BY TypeInvNext, GrammarInvNext, OpenaiInvNext, AnthropicInvNext, ResponsesInvNext
   DEF StreamInv

\* C7: what the agent loop gets is of one response, and no call is in it twice.
THEOREM StreamOneResponse == Spec => []OneResponse
<1>1. StreamInv /\ IdsInv => OneResponse
  BY DEF StreamInv, TypeInv, ResponseInv, IdsInv, OneResponse
<1> QED
  BY <1>1, StreamInvInit, StreamInvNext, IdsInvNext, PTL DEF Spec

\* C5, C8: a call carries its own arguments, whole, or Null.
THEOREM StreamArguments == Spec => []ArgumentsAreOwn
BY StreamInvInit, StreamInvNext, ArgumentsNext, PTL DEF Spec

\* Once the server has finished its calls, all of them reach the agent loop, and all of the
\* text; of a complete answer the last usage is what the server counted.
THEOREM StreamWhole == Spec => []NothingMissing
<1>1. StreamInv /\ CallsInv /\ CountsInv => NothingMissing
  <2> SUFFICES ASSUME StreamInv, CallsInv, CountsInv, broken = 0, result = "done",
                      server.finished \/ server.ended
               PROVE  /\ ~Merged /\ (kind = "anthropic" => fits) =>
                           /\ AllCallsOut
                           /\ kind # "responses" =>
                                \A i, j \in CallsOut : i < j => out[i].id < out[j].id
                      /\ Cardinality(SaysOut) = server.says
                      /\ \/ UsagesOut = {} /\ server.counts <= 1
                         \/ \E i \in UsagesOut : /\ \A j \in UsagesOut : j <= i
                                                 /\ out[i].count = server.counts
    BY DEF NothingMissing
  <2>1. kind = "openai" => server.finished
    BY DEF StreamInv, GrammarInv
  <2>2. ASSUME ~Merged, kind = "anthropic" => fits
        PROVE  /\ AllCallsOut
               /\ kind # "responses" =>
                    \A i, j \in CallsOut : i < j => out[i].id < out[j].id
    <3>1. /\ {out[i].id : i \in CallsOut}
               = {c \in Call : server.step[c] = IF kind = "openai" THEN 3 ELSE 4}
          /\ kind # "responses" => \A i, j \in CallsOut : i < j => out[i].id < out[j].id
      BY <2>1, <2>2 DEF CallsInv
    <3>2. \A c \in Call : server.step[c] > 0
                            <=> server.step[c] = IF kind = "openai" THEN 3 ELSE 4
      <4>1. CASE kind = "openai"
        BY <2>1, <4>1 DEF StreamInv, GrammarInv, AllAt
      <4>2. CASE kind # "openai"
        BY <2>2, <4>2 DEF StreamInv, GrammarInv, AllAt
      <4> QED
        BY <4>1, <4>2
    <3> QED
      BY <3>1, <3>2 DEF AllCallsOut
  <2> QED
    BY <2>2 DEF CountsInv
<1> QED
  BY <1>1, StreamInvInit, StreamInvNext, CallsInvNext, CountsInvNext, PTL DEF Spec, StreamInv
===============================================================================
