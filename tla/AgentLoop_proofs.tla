---------------------------- MODULE AgentLoop_proofs ----------------------------
(***************************************************************************)
(* Proofs about AgentLoop, for any number of messages, turns and calls and *)
(* any threshold of the compaction: every request is one a provider takes, *)
(* and what a tool has done is in the dialogue.                            *)
(***************************************************************************)
EXTENDS AgentRequests, SequenceTheorems, Induction, TLAPS

\* Types; the call that is decided is there, and a turn too many ends the loop.
TypeInv ==
  /\ TypeOK
  /\ place \in {"asking", "running"} => calls # <<>>
  /\ turns > MaxTurns => place \in {"finishing", "ending", "dead"}

LEMMA Concatenation ==
  ASSUME NEW S, NEW s \in Seq(S), NEW t \in Seq(S)
  PROVE  /\ s \o t \in Seq(S) /\ Len(s \o t) = Len(s) + Len(t)
         /\ \A i \in 1 .. Len(s) : (s \o t)[i] = s[i]
         /\ \A i \in 1 .. Len(t) : (s \o t)[Len(s) + i] = t[i]
OBVIOUS

LEMMA Appending ==
  ASSUME NEW S, NEW s \in Seq(S), NEW e \in S
  PROVE  /\ Append(s, e) \in Seq(S) /\ Len(Append(s, e)) = Len(s) + 1
         /\ \A i \in 1 .. Len(s) : Append(s, e)[i] = s[i]
         /\ Append(s, e)[Len(s) + 1] = e
OBVIOUS

\* A prefix, a marker and a suffix of the dialogue.
LEMMA CompactShape ==
  ASSUME NEW h \in Seq(Message)
  PROVE  \E head, tail \in 0 .. Len(h) :
           /\ Compact(h) \in Seq(Message)
           /\ Len(Compact(h)) = head + 1 + tail
           /\ \A i \in 1 .. head : Compact(h)[i] = h[i]
           /\ Compact(h)[head + 1] = Marker
           /\ \A i \in 1 .. tail : Compact(h)[head + 1 + i] = h[Len(h) - tail + i]
<1> DEFINE n == Len(h)
           head == n \div 5
           tail == (n * 2) \div 5
<1>1. n \in Nat /\ head \in 0 .. n /\ tail \in 0 .. n
  OBVIOUS
<1> HIDE DEF head, tail
<1>2. Marker \in Message
  BY DEF Marker, Message, Role
<1> DEFINE front == SubSeq(h, 1, head)
           back == SubSeq(h, n - tail + 1, n)
<1>3. /\ front \in Seq(Message) /\ Len(front) = head
      /\ \A i \in 1 .. head : front[i] = h[i]
  BY <1>1
<1>4. /\ back \in Seq(Message) /\ Len(back) = tail
      /\ \A i \in 1 .. tail : back[i] = h[n - tail + i]
  BY <1>1
<1>5. Compact(h) = front \o <<Marker>> \o back
  BY DEF Compact, head, tail
<1> HIDE DEF front, back
<1> DEFINE upto == front \o <<Marker>>
<1>8. /\ upto \in Seq(Message) /\ Len(upto) = head + 1
      /\ \A i \in 1 .. head : upto[i] = front[i]
      /\ upto[head + 1] = Marker
  <2>1. <<Marker>> \in Seq(Message) /\ Len(<<Marker>>) = 1 /\ <<Marker>>[1] = Marker
    BY <1>2
  <2>2. /\ upto \in Seq(Message) /\ Len(upto) = Len(front) + Len(<<Marker>>)
        /\ \A i \in 1 .. Len(front) : upto[i] = front[i]
        /\ \A i \in 1 .. Len(<<Marker>>) : upto[Len(front) + i] = <<Marker>>[i]
    BY <1>3, <2>1, Concatenation
  <2> HIDE DEF upto
  <2> QED
    BY <1>1, <1>3, <2>1, <2>2
<1> HIDE DEF upto
<1>9. /\ upto \o back \in Seq(Message) /\ Len(upto \o back) = head + 1 + tail
      /\ \A i \in 1 .. head + 1 : (upto \o back)[i] = upto[i]
      /\ \A i \in 1 .. tail : (upto \o back)[head + 1 + i] = back[i]
  <2>1. /\ upto \o back \in Seq(Message) /\ Len(upto \o back) = Len(upto) + Len(back)
        /\ \A i \in 1 .. Len(upto) : (upto \o back)[i] = upto[i]
        /\ \A i \in 1 .. Len(back) : (upto \o back)[Len(upto) + i] = back[i]
    <3>1. upto \in Seq(Message) /\ back \in Seq(Message)
      BY <1>4, <1>8
    <3> QED
      BY <3>1, Concatenation
  <2> QED
    BY <1>1, <1>4, <1>8, <2>1
<1>6. /\ Compact(h) \in Seq(Message)
      /\ Len(Compact(h)) = head + 1 + tail
      /\ \A i \in 1 .. head : Compact(h)[i] = front[i]
      /\ Compact(h)[head + 1] = Marker
      /\ \A i \in 1 .. tail : Compact(h)[head + 1 + i] = back[i]
  <2>1. Compact(h) = upto \o back
    BY <1>5 DEF upto
  <2> QED
    BY <2>1, <1>1, <1>8, <1>9
<1>7. /\ \A i \in 1 .. head : Compact(h)[i] = h[i]
      /\ \A i \in 1 .. tail : Compact(h)[head + 1 + i] = h[Len(h) - tail + i]
  BY <1>3, <1>4, <1>6
<1> HIDE DEF n
<1> QED
  BY <1>1, <1>6, <1>7 DEF n

LEMMA EventTypes ==
  /\ [kind |-> "error"] \in Event /\ [kind |-> "finished"] \in Event
  /\ \A id \in Call : /\ [kind |-> "start", call |-> id] \in Event
                      /\ [kind |-> "end", call |-> id] \in Event
BY DEF Event

LEMMA SentIsWaiting ==
  ASSUME TypeInv, Send
  PROVE  \E m \in Waiting :
           /\ inbox' = Append(inbox, m)
           /\ m.turn = IF place \in {"recv", "top"} THEN turns + 1 ELSE turns
<1>1. MaxTurns \in Nat /\ turns \in Nat
  BY BoundAssumption DEF TypeInv, TypeOK
<1>2. PICK long \in BOOLEAN :
        inbox' = Append(inbox, [long |-> long,
                                turn |-> IF place \in {"recv", "top"} THEN turns + 1 ELSE turns])
  BY LongAssumption DEF Send
<1> QED
  BY <1>1, <1>2 DEF Waiting

LEMMA UserIsMessage ==
  ASSUME NEW q \in Seq(Waiting), q # <<>>
  PROVE  /\ User(Head(q).long) \in Message /\ User(Head(q).long).role = "user"
         /\ User(Head(q).long).calls = <<>>
<1>1. Head(q) \in Waiting
  OBVIOUS
<1>2. Head(q).long \in BOOLEAN
  BY <1>1 DEF Waiting
<1> QED
  BY <1>2 DEF User, Message, Role

LEMMA TypeInductive ==
  ASSUME TypeInv, [Next]_vars
  PROVE  TypeInv'
<1>0. MaxSent \in Nat /\ MaxTurns \in Nat /\ MaxFails \in Nat
  BY BoundAssumption
<1> USE <1>0 DEF TypeInv, TypeOK, turnVars, endVars, Place
<1>1. CASE Send
  <2>1. PICK m \in Waiting : inbox' = Append(inbox, m)
    BY <1>1, SentIsWaiting
  <2>2. inbox' \in Seq(Waiting)
    BY <2>1, Appending
  <2> QED
    BY <1>1, <2>2 DEF Send
<1>2. CASE Cancel
  BY <1>2 DEF Cancel
<1>3. ASSUME NEW m \in Message, Push(m)
      PROVE  history' \in Seq(Message) /\ stored' \in Seq(Message) /\ lost' \in 0 .. MaxFails
  <2>1. Append(history, m) \in Seq(Message) /\ Append(stored, m) \in Seq(Message)
    BY <1>3, Appending
  <2>2. history' \in Seq(Message) /\ stored' \in Seq(Message)
    BY <1>3, <2>1 DEF Push, WriteFails
  <2>3. lost' \in 0 .. MaxFails
    BY <1>3 DEF Push, WriteFails
  <2> QED
    BY <2>2, <2>3
<1>4. ASSUME NEW s \in {"working", "done", "failed", "interrupted"}, Upsert(s)
      PROVE  row' \in {"working", "done", "failed", "interrupted"} /\ lost' \in 0 .. MaxFails
  BY <1>4 DEF Upsert, WriteFails
<1>5. ASSUME TakeUser
      PROVE  /\ history' \in Seq(Message) /\ stored' \in Seq(Message)
             /\ lost' \in 0 .. MaxFails /\ inbox' \in Seq(Waiting)
  <2>1. Head(inbox) \in Waiting /\ inbox' \in Seq(Waiting)
    BY <1>5 DEF TakeUser
  <2>2. User(Head(inbox).long) \in Message
    BY <1>5, UserIsMessage DEF TakeUser
  <2> QED
    BY <1>3, <1>5, <2>1, <2>2 DEF TakeUser
<1>6. CASE RecvFirst \/ RecvClosed \/ StopCancelled
  BY <1>5, <1>6 DEF RecvFirst, RecvClosed, StopCancelled
<1>7. CASE StopAtLimit
  <2>1. Append(events, [kind |-> "error"]) \in Seq(Event)
    BY EventTypes, Appending
  <2>2. turns' \in 0 .. (MaxTurns + 1)
    BY <1>7 DEF StopAtLimit
  <2> QED
    BY <1>7, <2>1, <2>2 DEF StopAtLimit
<1>8. CASE Ask
  <2>1. history' \in Seq(Message)
    BY <1>8, CompactShape DEF Ask
  <2>2. /\ turns' \in 0 .. (MaxTurns + 1) /\ ~(turns' > MaxTurns)
        /\ calls' \in Seq(Call) /\ uses' \in Seq(Call)
    BY <1>8 DEF Ask
  <2> QED
    BY <1>8, <2>1, <2>2 DEF Ask
<1>9. CASE ChunkText \/ ChunkError \/ ChunkCancelled
  BY <1>9 DEF ChunkText, ChunkError, ChunkCancelled
<1>10. CASE ChunkCall
  <2>1. started + 1 \in Call
    BY DEF Call
  <2>2. Append(calls, started + 1) \in Seq(Call) /\ Tell("start", started + 1) \in Seq(Event)
    BY <2>1, EventTypes, Appending DEF Tell
  <2> QED
    BY <1>10, <2>2 DEF ChunkCall
<1>11. CASE StreamEnds
  <2>1. Text \in Message
    BY DEF Text, Message, Role
  <2> QED
    BY <1>3, <1>11, <2>1 DEF StreamEnds
<1>12. ASSUME calls # <<>>, place \in {"tools", "asking", "running"}, EndCall(Head(calls))
       PROVE  TypeInv' \/ ~(executed' \subseteq Call)
  <2>1. /\ Head(calls) \in Call /\ calls' \in Seq(Call) /\ uses' \in Seq(Call)
        /\ events' \in Seq(Event)
    <3>1. Head(calls) \in Call /\ Tail(calls) \in Seq(Call)
      BY <1>12
    <3>2. /\ Append(uses, Head(calls)) \in Seq(Call)
          /\ Tell("end", Head(calls)) \in Seq(Event)
      BY <3>1, EventTypes, Appending DEF Tell
    <3> QED
      BY <1>12, <3>1, <3>2 DEF EndCall
  <2>2. row' \in {"working", "done", "failed", "interrupted"} /\ lost' \in 0 .. MaxFails
    BY <1>4, <1>12 DEF EndCall
  <2> QED
    BY <1>12, <2>1, <2>2 DEF EndCall
<1>13. CASE DenyCall \/ Refused
  BY <1>12, <1>13 DEF DenyCall, Refused
<1>14. CASE RunTool
  <2>1. calls # <<>> /\ Head(calls) \in Call
    BY <1>14 DEF RunTool
  <2> QED
    BY <1>12, <1>14, <2>1 DEF RunTool
<1>15. CASE AllowCall \/ AskUser \/ Allowed \/ NoSuchTool
  BY <1>15 DEF AllowCall, AskUser, Allowed, NoSuchTool
<1>16. CASE PushUses \/ PushResults
  <2>1. Uses(uses) \in Message /\ Results(uses) \in Message
    BY DEF Uses, Results, Message, Role
  <2> QED
    BY <1>3, <1>16, <2>1 DEF PushUses, PushResults
<1>17. CASE Drain \/ DrainDone
  BY <1>5, <1>17 DEF Drain, DrainDone
<1>18. CASE Finish
  <2>1. Append(events, [kind |-> "error"]) \in Seq(Event)
    BY EventTypes, Appending
  <2> QED
    BY <1>18, <2>1 DEF Finish, Outcome
<1>19. CASE Exit
  <2>1. Append(events, [kind |-> "finished"]) \in Seq(Event)
    BY EventTypes, Appending
  <2> QED
    BY <1>4, <1>19, <2>1 DEF Exit
<1>20. CASE UNCHANGED vars
  BY <1>20 DEF vars
<1> QED
  BY <1>1, <1>2, <1>6, <1>7, <1>8, <1>9, <1>10, <1>11, <1>13, <1>14, <1>15, <1>16,
     <1>17, <1>18, <1>19, <1>20 DEF Next, Step

THEOREM TypeCorrect == Spec => []TypeInv
<1>1. Init => TypeInv
  <2>1. MaxSent \in Nat /\ MaxTurns \in Nat /\ MaxFails \in Nat
    BY BoundAssumption
  <2>2. /\ 0 \in 0 .. MaxSent /\ 0 \in 0 .. (MaxTurns + 1) /\ 0 \in 0 .. MaxFails
        /\ ~(0 > MaxTurns)
    BY <2>1
  <2> SUFFICES ASSUME Init PROVE TypeInv
    OBVIOUS
  <2>3. /\ place \in Place /\ sent \in 0 .. MaxSent /\ turns \in 0 .. (MaxTurns + 1)
        /\ lost \in 0 .. MaxFails /\ started \in Nat /\ ~(turns > MaxTurns)
    BY <2>2 DEF Init, Place
  <2>4. /\ inbox \in Seq(Waiting) /\ calls \in Seq(Call) /\ uses \in Seq(Call)
        /\ events \in Seq(Event)
    BY DEF Init
  <2>5. history \in Seq(Message) /\ stored \in Seq(Message)
    BY DEF Init
  <2> QED
    BY <2>3, <2>4, <2>5 DEF Init, TypeInv, TypeOK
<1>2. TypeInv /\ [Next]_vars => TypeInv'
  BY TypeInductive
<1> QED
  BY <1>1, <1>2, PTL DEF Spec

-------------------------------------------------------------------------------
(* What a provider takes. *)

\* The two halves of PairsBreakOnlyAtMarker for any dialogue, the second one for
\* its first n messages.
ResultsFollow(h) ==
  \A i \in DOMAIN h : HasResults(h[i]) =>
    Follows(h, i) \/ (i > 1 /\ h[i - 1].role = "marker")
UsesPrecede(h, n) ==
  \A i \in 1 .. n : HasUses(h[i]) =>
    Precedes(h, i) \/ (i < Len(h) /\ h[i + 1].role = "marker")
OpensWithUser(h) == h # <<>> => h[1].role \in {"user", "marker"}
EndsWithQuestion(h) == h # <<>> /\ h[Len(h)].role \in {"user", "marker", "tool"}

\* Where the loop has a dialogue.
InTurn == place \in {"stream", "tools", "asking", "running", "results", "drain"}

\* The dialogue is paired but for the calls that wait for their results, and every
\* turn begins after a user or after results.
DialogueInv ==
  /\ ResultsFollow(history)
  /\ UsesPrecede(history, IF place = "results" THEN Len(history) - 1 ELSE Len(history))
  /\ OpensWithUser(history)
  /\ InTurn => history # <<>>
  /\ place \in {"stream", "drain"} \/ (place = "top" /\ ~cancelled) =>
       EndsWithQuestion(history)
  /\ place = "results" => history[Len(history)] = Uses(uses) /\ uses # <<>>

\* A message that is neither calls nor results can be put after any paired dialogue.
LEMMA PlainKeeps ==
  ASSUME NEW h \in Seq(Message), NEW m \in Message,
         ~HasResults(m), ~HasUses(m),
         ResultsFollow(h), UsesPrecede(h, Len(h))
  PROVE  ResultsFollow(Append(h, m)) /\ UsesPrecede(Append(h, m), Len(h) + 1)
<1> DEFINE g == Append(h, m)
<1>1. /\ g \in Seq(Message) /\ Len(g) = Len(h) + 1 /\ Len(h) \in Nat
      /\ \A i \in 1 .. Len(h) : g[i] = h[i]
      /\ g[Len(h) + 1] = m
  BY Appending
<1> HIDE DEF g
<1>2. ResultsFollow(g)
  <2>1. ASSUME NEW i \in DOMAIN g, HasResults(g[i])
        PROVE  Follows(g, i) \/ (i > 1 /\ g[i - 1].role = "marker")
    <3>1. i \in 1 .. Len(h) /\ g[i] = h[i]
      BY <1>1, <2>1
    <3>2. Follows(h, i) \/ (i > 1 /\ h[i - 1].role = "marker")
      BY <2>1, <3>1 DEF ResultsFollow
    <3>3. i > 1 => g[i - 1] = h[i - 1]
      BY <1>1, <3>1
    <3> QED
      BY <3>1, <3>2, <3>3 DEF Follows
  <2> QED
    BY <2>1 DEF ResultsFollow
<1>3. UsesPrecede(g, Len(h) + 1)
  <2>1. ASSUME NEW i \in 1 .. Len(h) + 1, HasUses(g[i])
        PROVE  Precedes(g, i) \/ (i < Len(g) /\ g[i + 1].role = "marker")
    <3>1. i \in 1 .. Len(h) /\ g[i] = h[i]
      BY <1>1, <2>1
    <3>2. Precedes(h, i) \/ (i < Len(h) /\ h[i + 1].role = "marker")
      BY <2>1, <3>1 DEF UsesPrecede
    <3>3. i < Len(h) => g[i + 1] = h[i + 1] /\ i < Len(g)
      BY <1>1, <3>1
    <3> QED
      BY <3>1, <3>2, <3>3 DEF Precedes
  <2> QED
    BY <2>1 DEF UsesPrecede
<1> QED
  BY <1>2, <1>3 DEF g

\* The calls of a turn and then their results.
LEMMA UsesKeep ==
  ASSUME NEW h \in Seq(Message), NEW ids \in Seq(Call), 
         ResultsFollow(h), UsesPrecede(h, Len(h))
  PROVE  ResultsFollow(Append(h, Uses(ids))) /\ UsesPrecede(Append(h, Uses(ids)), Len(h))
<1> DEFINE m == Uses(ids)
           g == Append(h, m)
<1>0. m \in Message /\ ~HasResults(m)
  BY DEF Uses, Message, Role, HasResults
<1> HIDE DEF m
<1>1. /\ g \in Seq(Message) /\ Len(g) = Len(h) + 1 /\ Len(h) \in Nat
      /\ \A i \in 1 .. Len(h) : g[i] = h[i]
      /\ g[Len(h) + 1] = m
  BY <1>0, Appending
<1> HIDE DEF g
<1>2. ResultsFollow(g)
  <2>1. ASSUME NEW i \in DOMAIN g, HasResults(g[i])
        PROVE  Follows(g, i) \/ (i > 1 /\ g[i - 1].role = "marker")
    <3>1. i \in 1 .. Len(h) /\ g[i] = h[i]
      BY <1>0, <1>1, <2>1
    <3>2. Follows(h, i) \/ (i > 1 /\ h[i - 1].role = "marker")
      BY <2>1, <3>1 DEF ResultsFollow
    <3>3. i > 1 => g[i - 1] = h[i - 1]
      BY <1>1, <3>1
    <3> QED
      BY <3>1, <3>2, <3>3 DEF Follows
  <2> QED
    BY <2>1 DEF ResultsFollow
<1>3. UsesPrecede(g, Len(h))
  <2>1. ASSUME NEW i \in 1 .. Len(h), HasUses(g[i])
        PROVE  Precedes(g, i) \/ (i < Len(g) /\ g[i + 1].role = "marker")
    <3>1. g[i] = h[i]
      BY <1>1
    <3>2. Precedes(h, i) \/ (i < Len(h) /\ h[i + 1].role = "marker")
      BY <2>1, <3>1 DEF UsesPrecede
    <3>3. i < Len(h) => g[i + 1] = h[i + 1] /\ i < Len(g)
      BY <1>1
    <3> QED
      BY <3>1, <3>2, <3>3 DEF Precedes
  <2> QED
    BY <2>1 DEF UsesPrecede
<1> QED
  BY <1>2, <1>3 DEF g, m

LEMMA ResultsKeep ==
  ASSUME NEW h \in Seq(Message), NEW ids \in Seq(Call), ids # <<>>,
         h # <<>>, h[Len(h)] = Uses(ids),
         ResultsFollow(h), UsesPrecede(h, Len(h) - 1)
  PROVE  /\ ResultsFollow(Append(h, Results(ids)))
         /\ UsesPrecede(Append(h, Results(ids)), Len(h) + 1)
<1> DEFINE m == Results(ids)
           g == Append(h, m)
<1>0. /\ m \in Message /\ ~HasUses(m) /\ HasResults(m)
      /\ m.calls = ids /\ h[Len(h)].calls = ids /\ HasUses(h[Len(h)])
  BY DEF Uses, Results, Message, Role, HasResults, HasUses
<1> HIDE DEF m
<1>1. /\ g \in Seq(Message) /\ Len(g) = Len(h) + 1 /\ Len(h) \in Nat \ {0}
      /\ \A i \in 1 .. Len(h) : g[i] = h[i]
      /\ g[Len(h) + 1] = m
  BY <1>0, Appending
<1> HIDE DEF g
<1>2. ResultsFollow(g)
  <2>1. ASSUME NEW i \in DOMAIN g, HasResults(g[i])
        PROVE  Follows(g, i) \/ (i > 1 /\ g[i - 1].role = "marker")
    <3>1. CASE i = Len(h) + 1
      <4>1. g[i - 1] = h[Len(h)] /\ g[i] = m /\ i > 1
        BY <1>1, <3>1
      <4> QED
        BY <1>0, <4>1 DEF Follows
    <3>2. CASE i # Len(h) + 1
      <4>1. i \in 1 .. Len(h) /\ g[i] = h[i]
        BY <1>1, <3>2
      <4>2. Follows(h, i) \/ (i > 1 /\ h[i - 1].role = "marker")
        BY <2>1, <4>1 DEF ResultsFollow
      <4>3. i > 1 => g[i - 1] = h[i - 1]
        BY <1>1, <4>1
      <4> QED
        BY <4>1, <4>2, <4>3 DEF Follows
    <3> QED
      BY <3>1, <3>2
  <2> QED
    BY <2>1 DEF ResultsFollow
<1>3. UsesPrecede(g, Len(h) + 1)
  <2>1. ASSUME NEW i \in 1 .. Len(h) + 1, HasUses(g[i])
        PROVE  Precedes(g, i) \/ (i < Len(g) /\ g[i + 1].role = "marker")
    <3>1. i \in 1 .. Len(h) /\ g[i] = h[i]
      BY <1>0, <1>1, <2>1
    <3>2. CASE i = Len(h)
      BY <1>0, <1>1, <3>1, <3>2 DEF Precedes
    <3>3. CASE i # Len(h)
      <4>1. Precedes(h, i) \/ (i < Len(h) /\ h[i + 1].role = "marker")
        BY <2>1, <3>1, <3>3 DEF UsesPrecede
      <4>2. g[i + 1] = h[i + 1] /\ i < Len(g)
        BY <1>1, <3>1, <3>3
      <4> QED
        BY <3>1, <4>1, <4>2 DEF Precedes
    <3> QED
      BY <3>2, <3>3
  <2> QED
    BY <2>1 DEF UsesPrecede
<1> QED
  BY <1>2, <1>3 DEF g, m

\* The compaction cuts only next to its marker.
LEMMA CompactKeeps ==
  ASSUME NEW h \in Seq(Message), ResultsFollow(h), UsesPrecede(h, Len(h)),
         OpensWithUser(h), EndsWithQuestion(h)
  PROVE  LET g == Compact(h) IN
         /\ ResultsFollow(g) /\ UsesPrecede(g, Len(g))
         /\ OpensWithUser(g) /\ EndsWithQuestion(g)
<1> DEFINE g == Compact(h)
<1>1. PICK head, tail \in 0 .. Len(h) :
        /\ g \in Seq(Message)
        /\ Len(g) = head + 1 + tail
        /\ \A i \in 1 .. head : g[i] = h[i]
        /\ g[head + 1] = Marker
        /\ \A i \in 1 .. tail : g[head + 1 + i] = h[Len(h) - tail + i]
  BY CompactShape
<1> HIDE DEF g
<1>2. Marker.role = "marker" /\ ~HasResults(Marker) /\ ~HasUses(Marker)
  BY DEF Marker, HasResults, HasUses
<1>3. /\ Len(h) \in Nat \ {0} /\ head \in Nat /\ tail \in Nat /\ tail <= Len(h)
      /\ DOMAIN g = 1 .. head + 1 + tail
  BY <1>1 DEF EndsWithQuestion
\* A place of the new dialogue is in the front, the marker, or in the back.
<1>4. ASSUME NEW i \in DOMAIN g
      PROVE  \/ i \in 1 .. head /\ g[i] = h[i]
             \/ i = head + 1 /\ g[i] = Marker
             \/ \E k \in 1 .. tail : i = head + 1 + k /\ g[i] = h[Len(h) - tail + k]
  <2>0. i \in Nat /\ i >= 1 /\ i <= head + 1 + tail
    BY <1>3
  <2>1. CASE i > head + 1
    <3> DEFINE k == i - head - 1
    <3>1. k \in 1 .. tail /\ head + 1 + k = i
      BY <1>3, <2>0, <2>1
    <3> HIDE DEF k
    <3> QED
      BY <1>1, <3>1
  <2>2. CASE i <= head + 1
    BY <1>1, <1>3, <2>0, <2>2
  <2> QED
    BY <1>3, <2>0, <2>1, <2>2
<1>5. ResultsFollow(g)
  <2>1. ASSUME NEW i \in DOMAIN g, HasResults(g[i])
        PROVE  Follows(g, i) \/ (i > 1 /\ g[i - 1].role = "marker")
    <3>1. CASE i \in 1 .. head /\ g[i] = h[i]
      <4>1. Follows(h, i) \/ (i > 1 /\ h[i - 1].role = "marker")
        BY <2>1, <3>1 DEF ResultsFollow
      <4>2. i > 1 => g[i - 1] = h[i - 1]
        BY <1>1, <3>1
      <4> QED
        BY <3>1, <4>1, <4>2 DEF Follows
    <3>2. CASE i = head + 2
      BY <1>1, <1>2, <1>3, <3>2
    <3>3. ASSUME NEW k \in 2 .. tail, i = head + 1 + k, g[i] = h[Len(h) - tail + k]
          PROVE  Follows(g, i) \/ (i > 1 /\ g[i - 1].role = "marker")
      <4> DEFINE j == Len(h) - tail + k
      <4>1. j \in DOMAIN h /\ i > 1 /\ j > 1
        BY <1>3, <3>3
      <4>2. g[i - 1] = h[j - 1]
        <5>1. k - 1 \in 1 .. tail /\ head + 1 + (k - 1) = i - 1
              /\ Len(h) - tail + (k - 1) = j - 1
          BY <1>3, <3>3
        <5> QED
          BY <1>1, <5>1
      <4> HIDE DEF j
      <4>3. g[i] = h[j]
        BY <3>3 DEF j
      <4>4. Follows(h, j) \/ h[j - 1].role = "marker"
        BY <2>1, <4>1, <4>3 DEF ResultsFollow
      <4> QED
        BY <4>1, <4>2, <4>3, <4>4 DEF Follows
    <3> QED
      <4>1. CASE i \in 1 .. head /\ g[i] = h[i]
        BY <3>1, <4>1
      <4>2. ASSUME NEW k \in 1 .. tail, i = head + 1 + k, g[i] = h[Len(h) - tail + k]
            PROVE  Follows(g, i) \/ (i > 1 /\ g[i - 1].role = "marker")
        <5>1. k = 1 \/ k \in 2 .. tail
          OBVIOUS
        <5> QED
          BY <1>3, <3>2, <3>3, <4>2, <5>1
      <4> QED
        BY <1>2, <1>4, <2>1, <4>1, <4>2
  <2> QED
    BY <2>1 DEF ResultsFollow
<1>6. UsesPrecede(g, Len(g))
  <2>1. ASSUME NEW i \in 1 .. Len(g), HasUses(g[i])
        PROVE  Precedes(g, i) \/ (i < Len(g) /\ g[i + 1].role = "marker")
    <3>0. i \in DOMAIN g
      BY <1>1
    <3>1. CASE i = head
      BY <1>1, <1>2, <1>3, <3>1
    <3>2. CASE i \in 1 .. head - 1 /\ g[i] = h[i]
      <4>1. Precedes(h, i) \/ (i < Len(h) /\ h[i + 1].role = "marker")
        BY <1>3, <2>1, <3>2 DEF UsesPrecede
      <4>2. g[i + 1] = h[i + 1] /\ i < Len(g)
        BY <1>1, <3>2
      <4> QED
        BY <3>2, <4>1, <4>2 DEF Precedes
    <3>3. ASSUME NEW k \in 1 .. tail, i = head + 1 + k, g[i] = h[Len(h) - tail + k]
          PROVE  Precedes(g, i) \/ (i < Len(g) /\ g[i + 1].role = "marker")
      <4> DEFINE j == Len(h) - tail + k
      <4>1. j \in 1 .. Len(h) /\ (j < Len(h) => i < Len(g))
        BY <1>1, <1>3, <3>3
      <4>2. ASSUME j < Len(h) PROVE g[i + 1] = h[j + 1]
        <5>1. k + 1 \in 1 .. tail /\ head + 1 + (k + 1) = i + 1
              /\ Len(h) - tail + (k + 1) = j + 1
          BY <1>3, <3>3, <4>2
        <5>2. g[head + 1 + (k + 1)] = h[Len(h) - tail + (k + 1)]
          BY <1>1, <5>1
        <5> QED
          BY <5>1, <5>2
      <4> HIDE DEF j
      <4>3. g[i] = h[j]
        BY <3>3 DEF j
      <4>4. Precedes(h, j) \/ (j < Len(h) /\ h[j + 1].role = "marker")
        BY <2>1, <4>1, <4>3 DEF UsesPrecede
      <4> QED
        BY <4>1, <4>2, <4>3, <4>4 DEF Precedes
    <3> QED
      <4>1. CASE i \in 1 .. head /\ g[i] = h[i]
        BY <1>3, <3>1, <3>2, <4>1
      <4> QED
        BY <1>2, <1>4, <2>1, <3>0, <3>3, <4>1
  <2> QED
    BY <2>1 DEF UsesPrecede
<1>7. OpensWithUser(g)
  <2>1. CASE head = 0
    BY <1>1, <1>2, <2>1 DEF OpensWithUser
  <2>2. CASE head > 0
    <3>1. g[1] = h[1] /\ h # <<>>
      BY <1>1, <1>3, <2>2
    <3> QED
      BY <3>1 DEF OpensWithUser
  <2> QED
    BY <1>1, <2>1, <2>2
<1>8. EndsWithQuestion(g)
  <2>1. g # <<>>
    BY <1>1
  <2>2. CASE tail = 0
    BY <1>1, <1>2, <2>1, <2>2 DEF EndsWithQuestion
  <2>3. CASE tail > 0
    <3>1. tail \in 1 .. tail /\ Len(h) - tail + tail = Len(h)
      BY <1>3, <2>3
    <3>2. g[Len(g)] = h[Len(h)]
      BY <1>1, <3>1
    <3> QED
      BY <2>1, <3>2 DEF EndsWithQuestion
  <2> QED
    BY <1>1, <2>2, <2>3
<1> QED
  BY <1>5, <1>6, <1>7, <1>8 DEF g

LEMMA DialogueInductive ==
  ASSUME TypeInv, DialogueInv, [Next]_vars
  PROVE  DialogueInv'
<1> USE DEF DialogueInv, InTurn, turnVars, endVars
<1>0. history \in Seq(Message) /\ uses \in Seq(Call) /\ inbox \in Seq(Waiting)
  BY DEF TypeInv, TypeOK
<1>1. ASSUME TakeUser, place # "results", place' # "results"
      PROVE  /\ history' # <<>> /\ EndsWithQuestion(history') /\ OpensWithUser(history')
             /\ ResultsFollow(history') /\ UsesPrecede(history', Len(history'))
  <2> DEFINE m == User(Head(inbox).long)
  <2>1. history' = Append(history, m) /\ m \in Message /\ m.role = "user"
    BY <1>0, <1>1, UserIsMessage DEF TakeUser, Push
  <2>2. ~HasResults(m) /\ ~HasUses(m)
    BY <2>1 DEF HasResults, HasUses
  <2> HIDE DEF m
  <2>3. /\ Len(history') = Len(history) + 1 /\ Len(history) \in Nat
        /\ \A i \in 1 .. Len(history) : history'[i] = history[i]
        /\ history'[Len(history) + 1] = m
        /\ history' \in Seq(Message)
    BY <1>0, <2>1, Appending
  <2>4. ResultsFollow(history') /\ UsesPrecede(history', Len(history'))
    BY <1>0, <1>1, <2>1, <2>2, <2>3, PlainKeeps
  <2>5. history' # <<>>
    BY <2>3
  <2>6. history'[1].role \in {"user", "marker"}
    <3>1. CASE history = <<>>
      BY <2>1, <2>3, <3>1
    <3>2. CASE history # <<>>
      BY <1>0, <2>3, <3>2 DEF OpensWithUser
    <3> QED
      BY <3>1, <3>2
  <2> QED
    BY <2>1, <2>3, <2>4, <2>5, <2>6 DEF OpensWithUser, EndsWithQuestion
\* A step that leaves the dialogue alone.
<1>2. ASSUME UNCHANGED history, place # "results", place' # "results",
             InTurn' => InTurn,
             place' \in {"stream", "drain"} \/ (place' = "top" /\ ~cancelled') =>
               place \in {"stream", "drain"} \/ (place = "top" /\ ~cancelled)
      PROVE  DialogueInv'
  BY <1>2
<1>3. CASE Send \/ Cancel
  BY <1>3 DEF Send, Cancel, EndsWithQuestion
<1>4. CASE RecvFirst
  BY <1>1, <1>4 DEF RecvFirst
<1>5. CASE RecvClosed \/ StopCancelled \/ StopAtLimit
  BY <1>2, <1>5 DEF RecvClosed, StopCancelled, StopAtLimit
<1>6. CASE Ask
  <2>1. CASE TooLong(history)
    <3>1. history' = Compact(history) /\ place' = "stream" /\ place = "top" /\ ~cancelled
      BY <1>6, <2>1 DEF Ask
    <3>2. LET g == Compact(history) IN
            /\ ResultsFollow(g) /\ UsesPrecede(g, Len(g))
            /\ OpensWithUser(g) /\ EndsWithQuestion(g)
      BY <1>0, <3>1, CompactKeeps
    <3> QED
      BY <3>1, <3>2 DEF EndsWithQuestion
  <2>2. CASE ~TooLong(history)
    BY <1>6, <2>2 DEF Ask, EndsWithQuestion
  <2> QED
    BY <2>1, <2>2
<1>7. CASE ChunkText \/ ChunkCall \/ ChunkError \/ ChunkCancelled
  BY <1>2, <1>7 DEF ChunkText, ChunkCall, ChunkError, ChunkCancelled
<1>8. CASE StreamEnds
  <2>1. CASE text
    <3>1. /\ history' = Append(history, Text) /\ place = "stream" /\ place' = "tools"
          /\ history # <<>>
      BY <1>8, <2>1 DEF StreamEnds, Push
    <3>2. Text \in Message /\ ~HasResults(Text) /\ ~HasUses(Text)
      BY DEF Text, Message, Role, HasResults, HasUses
    <3>3. /\ Len(history') = Len(history) + 1 /\ Len(history) \in Nat \ {0}
          /\ history'[1] = history[1] /\ history' \in Seq(Message)
      BY <1>0, <3>1, <3>2, Appending
    <3>4. ResultsFollow(history') /\ UsesPrecede(history', Len(history'))
      BY <1>0, <3>1, <3>2, <3>3, PlainKeeps
    <3> QED
      BY <3>1, <3>3, <3>4 DEF OpensWithUser
  <2>2. CASE ~text
    BY <1>2, <1>8, <2>2 DEF StreamEnds
  <2> QED
    BY <2>1, <2>2
<1>9. CASE DenyCall \/ AllowCall \/ AskUser \/ Allowed \/ Refused \/ RunTool \/ NoSuchTool
  BY <1>2, <1>9
     DEF DenyCall, AllowCall, AskUser, Allowed, Refused, RunTool, NoSuchTool, EndCall
<1>10. CASE PushUses
  <2>1. CASE uses = <<>>
    BY <1>2, <1>10, <2>1 DEF PushUses
  <2>2. CASE uses # <<>>
    <3>1. /\ history' = Append(history, Uses(uses)) /\ place = "tools"
          /\ place' = "results" /\ uses' = uses /\ history # <<>>
      BY <1>10, <2>2 DEF PushUses, Push
    <3>2. Uses(uses) \in Message
      BY <1>0 DEF Uses, Message, Role
    <3>3. /\ Len(history') = Len(history) + 1 /\ Len(history) \in Nat \ {0}
          /\ history'[1] = history[1] /\ history'[Len(history')] = Uses(uses)
          /\ history' \in Seq(Message)
      BY <1>0, <3>1, <3>2, Appending
    <3>4. ResultsFollow(history') /\ UsesPrecede(history', Len(history') - 1)
      <4>1. Len(history') - 1 = Len(history)
        BY <3>3
      <4> QED
        BY <1>0, <3>1, <4>1, UsesKeep
    <3> QED
      BY <2>2, <3>1, <3>3, <3>4 DEF OpensWithUser
  <2> QED
    BY <2>1, <2>2
<1>11. CASE PushResults
  <2>1. /\ history' = Append(history, Results(uses)) /\ place = "results"
        /\ place' = "drain" /\ history # <<>>
    BY <1>11 DEF PushResults, Push
  <2>2. Results(uses) \in Message /\ Results(uses).role = "tool"
    BY <1>0 DEF Results, Message, Role
  <2>3. /\ Len(history') = Len(history) + 1 /\ Len(history) \in Nat \ {0}
        /\ history'[1] = history[1] /\ history'[Len(history')] = Results(uses)
        /\ history' \in Seq(Message)
    BY <1>0, <2>1, <2>2, Appending
  <2>4. ResultsFollow(history') /\ UsesPrecede(history', Len(history'))
    BY <1>0, <2>1, <2>3, ResultsKeep
  <2> QED
    BY <2>1, <2>2, <2>3, <2>4 DEF OpensWithUser, EndsWithQuestion
<1>12. CASE Drain
  BY <1>1, <1>12 DEF Drain
<1>13. CASE DrainDone \/ Finish \/ Exit
  BY <1>2, <1>13 DEF DrainDone, Finish, Exit
<1>14. CASE UNCHANGED vars
  BY <1>14 DEF vars
<1> QED
  BY <1>3, <1>4, <1>5, <1>6, <1>7, <1>8, <1>9, <1>10, <1>11, <1>12, <1>13, <1>14
     DEF Next, Step

\* RequestIsAnswerable for any bounds and any threshold: whatever comes into the
\* inbox and however the calls are decided, a request opens with a user, ends with a
\* question, and breaks calls from their results only at the marker.
THEOREM RequestsAreAnswerable == Spec => []RequestIsAnswerable
<1>1. Init => DialogueInv
  BY DEF Init, DialogueInv, InTurn, ResultsFollow, UsesPrecede, OpensWithUser
<1>2. TypeInv /\ DialogueInv /\ [Next]_vars => DialogueInv'
  BY DialogueInductive
<1>3. DialogueInv => RequestIsAnswerable
  <2> SUFFICES ASSUME DialogueInv, place = "stream"
               PROVE  TurnsAlternate /\ PairsBreakOnlyAtMarker
    BY DEF RequestIsAnswerable, Asking
  <2>1. TurnsAlternate
    BY DEF DialogueInv, TurnsAlternate, EndsWithQuestion, OpensWithUser
  <2>2. PairsBreakOnlyAtMarker
    BY DEF DialogueInv, PairsBreakOnlyAtMarker, ResultsFollow, UsesPrecede, EndsWithQuestion
  <2> QED
    BY <2>1, <2>2
<1> QED
  BY <1>1, <1>2, <1>3, TypeCorrect, PTL DEF Spec

-------------------------------------------------------------------------------
(* What a tool has done. *)

InStored(id) ==
  \E i \in DOMAIN stored : HasResults(stored[i]) /\ id \in ToSet(stored[i].calls)

\* A call that ran is among the blocks of its turn until the results are written.
RecordInv ==
  (~failed /\ lost = 0) =>
    \A id \in executed :
      \/ InStored(id)
      \/ place \in {"tools", "asking", "running", "results"} /\ id \in ToSet(uses)

LEMMA RecordInductive ==
  ASSUME TypeInv, DialogueInv, RecordInv, [Next]_vars
  PROVE  RecordInv'
<1> USE DEF RecordInv, turnVars, endVars
<1>0. stored \in Seq(Message) /\ uses \in Seq(Call) /\ lost \in Nat /\ lost' \in Nat
  BY TypeInductive, BoundAssumption DEF TypeInv, TypeOK
\* What is stored stays.
<1>1. ASSUME NEW m \in Message, Push(m), lost' = 0
      PROVE  /\ lost = 0 /\ stored' = Append(stored, m)
             /\ \A id : InStored(id) => InStored(id)'
  <2>1. lost = 0 /\ stored' = Append(stored, m)
    BY <1>0, <1>1 DEF Push, WriteFails
  <2>2. /\ Len(stored') = Len(stored) + 1
        /\ \A i \in 1 .. Len(stored) : stored'[i] = stored[i]
        /\ stored' \in Seq(Message)
    BY <1>0, <2>1, Appending
  <2> QED
    BY <1>0, <2>1, <2>2 DEF InStored
<1>2. ASSUME UNCHANGED <<stored, executed>>, lost' = 0 => lost = 0, ~failed' => ~failed,
             \A id \in ToSet(uses) :
               place \in {"tools", "asking", "running", "results"} /\ ~failed' =>
                 place' \in {"tools", "asking", "running", "results"} /\ id \in ToSet(uses')
      PROVE  RecordInv'
  BY <1>2 DEF InStored
<1>3. CASE Send \/ Cancel \/ RecvClosed \/ StopCancelled \/ StopAtLimit \/ Ask
           \/ ChunkText \/ ChunkCall \/ ChunkError \/ ChunkCancelled
  BY <1>2, <1>3 DEF Send, Cancel, RecvClosed, StopCancelled, StopAtLimit, Ask,
     ChunkText, ChunkCall, ChunkError, ChunkCancelled
<1>4. CASE RecvFirst \/ Drain
  <2>1. User(Head(inbox).long) \in Message
    BY <1>4, UserIsMessage DEF RecvFirst, Drain, TakeUser, TypeInv, TypeOK
  <2> QED
    BY <1>1, <1>4, <2>1 DEF RecvFirst, Drain, TakeUser
<1>5. CASE StreamEnds
  <2>1. Text \in Message
    BY DEF Text, Message, Role
  <2>2. CASE text
    BY <1>1, <1>5, <2>1, <2>2 DEF StreamEnds
  <2>3. CASE ~text
    BY <1>2, <1>5, <2>3 DEF StreamEnds
  <2> QED
    BY <2>2, <2>3
<1>6. ASSUME NEW id, EndCall(id)
      PROVE  /\ lost' = 0 => lost = 0
             /\ place' = "tools" /\ UNCHANGED <<stored, failed>>
             /\ id \in ToSet(uses') /\ \A d \in ToSet(uses) : d \in ToSet(uses')
  <2>1. uses' = Append(uses, id)
    BY <1>6 DEF EndCall
  <2>2. /\ DOMAIN uses' = 1 .. Len(uses) + 1 /\ Len(uses) \in Nat
        /\ DOMAIN uses = 1 .. Len(uses)
        /\ \A i \in 1 .. Len(uses) : uses'[i] = uses[i]
        /\ uses'[Len(uses) + 1] = id
    BY <1>0, <2>1
  <2>3. id \in ToSet(uses') /\ \A d \in ToSet(uses) : d \in ToSet(uses')
    BY <2>2 DEF ToSet
  <2> QED
    BY <1>0, <1>6, <2>3 DEF EndCall, Upsert, WriteFails
<1>7. CASE DenyCall \/ Refused \/ RunTool
  BY <1>6, <1>7 DEF DenyCall, Refused, RunTool, InStored
<1>8. CASE AllowCall \/ AskUser \/ Allowed \/ NoSuchTool
  BY <1>2, <1>8 DEF AllowCall, AskUser, Allowed, NoSuchTool
<1>9. CASE PushUses
  <2>1. CASE uses = <<>>
    BY <1>2, <1>9, <2>1 DEF PushUses, ToSet
  <2>2. CASE uses # <<>>
    <3>1. Uses(uses) \in Message
      BY <1>0 DEF Uses, Message, Role
    <3> QED
      BY <1>1, <1>9, <2>2, <3>1 DEF PushUses
  <2> QED
    BY <2>1, <2>2
<1>10. CASE PushResults
  <2> SUFFICES ASSUME ~failed', lost' = 0, NEW id \in executed'
               PROVE  InStored(id)'
    OBVIOUS
  <2>1. Results(uses) \in Message /\ HasResults(Results(uses)) /\ Results(uses).calls = uses
    BY <1>0 DEF Results, Message, Role, HasResults
  <2>2. /\ lost = 0 /\ stored' = Append(stored, Results(uses))
        /\ InStored(id) => InStored(id)'
    BY <1>1, <1>10, <2>1 DEF PushResults
  <2>3. Len(stored) + 1 \in DOMAIN stored' /\ stored'[Len(stored) + 1] = Results(uses)
    BY <1>0, <2>1, <2>2, Appending
  <2>4. id \in ToSet(uses) => InStored(id)'
    BY <2>1, <2>3 DEF InStored
  <2> QED
    BY <1>10, <2>2, <2>4 DEF PushResults
<1>11. CASE DrainDone \/ Finish
  BY <1>2, <1>11 DEF DrainDone, Finish
<1>12. CASE Exit
  BY <1>0, <1>2, <1>12 DEF Exit, Upsert, WriteFails
<1>13. CASE UNCHANGED vars
  BY <1>2, <1>13 DEF vars
<1> QED
  BY <1>3, <1>4, <1>5, <1>7, <1>8, <1>9, <1>10, <1>11, <1>12, <1>13 DEF Next, Step

\* ExecutedIsRecorded for any bounds: a cancellation, a refusal, a message that comes
\* in or a turn too many never separates what a tool did from the dialogue.
THEOREM ExecutedStaysRecorded == Spec => []ExecutedIsRecorded
<1>1. Init => DialogueInv /\ RecordInv
  BY DEF Init, DialogueInv, InTurn, ResultsFollow, UsesPrecede, OpensWithUser, RecordInv
<1>2. TypeInv /\ DialogueInv /\ RecordInv /\ [Next]_vars => DialogueInv' /\ RecordInv'
  BY DialogueInductive, RecordInductive
<1>3. RecordInv => ExecutedIsRecorded
  BY DEF RecordInv, ExecutedIsRecorded, InStored
<1> QED
  BY <1>1, <1>2, <1>3, TypeCorrect, PTL DEF Spec

-------------------------------------------------------------------------------
(* The request a provider is sent. *)

\* f[i] is what the first i sequences come to.
Joins(f, ss) == f[0] = <<>> /\ \A i \in 1 .. Len(ss) : f[i] = f[i - 1] \o ss[i]

LEMMA Flattening ==
  ASSUME NEW T, NEW ss \in Seq(Seq(T))
  PROVE  \E f \in [0 .. Len(ss) -> Seq(T)] : Joins(f, ss) /\ FlattenSeq(ss) = f[Len(ss)]
<1> DEFINE n == Len(ss)
           S == Seq(T)
           step == [i \in 1 .. n |-> [t \in S |-> t \o ss[i]]]
           R(g) == g = [i \in 1 .. Len(ss) |-> IF i = 1 THEN ss[i] ELSE g[i - 1] \o ss[i]]
           flat == CHOOSE g : R(g)
<1>1. n \in Nat /\ \A i \in 1 .. n : ss[i] \in S
  OBVIOUS
<1>2. step \in [1 .. n -> [S -> S]]
  BY <1>1
<1>3. <<>> \in S /\ \A t \in S : <<>> \o t = t
  OBVIOUS
<1>4. PICK f \in [0 .. n -> S] : Recurs(f, n, <<>>, step)
  <2> HIDE DEF step, S, n
  <2> QED
    BY <1>1, <1>2, <1>3, RecursionExists, Zenon
<1>5. f[0] = <<>> /\ \A i \in 1 .. n : f[i] = f[i - 1] \o ss[i]
  <2> SUFFICES ASSUME NEW i \in 1 .. n PROVE f[i] = f[i - 1] \o ss[i]
    BY <1>4 DEF Recurs
  <2>1. i - 1 \in 0 .. n
    BY <1>1
  <2>2. f[i - 1] \in S
    BY <1>4, <2>1
  <2>3. f[i] = step[i][f[i - 1]]
    BY <1>4 DEF Recurs
  <2> QED
    BY <2>2, <2>3
<1>6. Joins(f, ss)
  BY <1>5 DEF Joins
<1>7. CASE n = 0
  BY <1>5, <1>6, <1>7 DEF FlattenSeq
<1>8. CASE n # 0
  <2> DEFINE r == [i \in 1 .. n |-> f[i]]
  <2>1. R(r)
    <3> SUFFICES ASSUME NEW i \in 1 .. n
                 PROVE  f[i] = IF i = 1 THEN ss[i] ELSE r[i - 1] \o ss[i]
      OBVIOUS
    <3>1. CASE i = 1
      <4>1. f[i] = f[i - 1] \o ss[i] /\ f[0] = <<>> /\ ss[i] \in S
        BY <1>1, <1>5, Zenon
      <4>0. i - 1 = 0
        BY <3>1
      <4> HIDE DEF S
      <4>2. <<>> \o ss[i] = ss[i]
        BY <1>3, <4>1, Zenon
      <4>3. f[i] = ss[i]
        BY <4>0, <4>1, <4>2, Zenon
      <4> QED
        BY <3>1, <4>3, Zenon
    <3>2. CASE i # 1
      <4>1. i - 1 \in 1 .. n
        BY <1>1, <3>2
      <4>2. r[i - 1] = f[i - 1]
        BY <4>1
      <4>3. f[i] = f[i - 1] \o ss[i]
        BY <1>5
      <4> QED
        BY <3>2, <4>2, <4>3, Zenon
    <3> QED
      BY <3>1, <3>2
  <2>2. R(flat)
    <3> HIDE DEF R
    <3> QED
      BY <2>1, Zenon
  <2>3. FlattenSeq(ss) = flat[n]
    <3>1. Len(ss) # 0
      BY <1>8
    <3> QED
      BY <3>1, Zenon DEF FlattenSeq, flat
  <2> HIDE DEF flat
  <2> DEFINE Good == {i \in 0 .. n : i = 0 \/ flat[i] = f[i]}
  <2>4. 0 \in Good
    BY <1>1
  <2>5. ASSUME NEW i \in 0 .. n, i \in Good, i < n PROVE i + 1 \in Good
    <3>1. i + 1 \in 1 .. n /\ i + 1 \in 0 .. n /\ (i + 1) - 1 = i
      BY <1>1, <2>5
    <3>2. flat[i + 1] = IF i + 1 = 1 THEN ss[i + 1] ELSE flat[i] \o ss[i + 1]
      BY <2>2, <3>1
    <3>3. f[i + 1] = f[i] \o ss[i + 1]
      BY <1>5, <3>1
    <3>4. CASE i = 0
      <4>1. ss[i + 1] \in S /\ flat[i + 1] = ss[i + 1]
        BY <1>1, <3>1, <3>2, <3>4
      <4> QED
        BY <1>3, <1>5, <3>1, <3>3, <3>4, <4>1
    <3>5. CASE i # 0
      <4>1. flat[i] = f[i] /\ i + 1 # 1
        BY <1>1, <2>5, <3>5
      <4>2. flat[i + 1] = f[i + 1]
        BY <3>2, <3>3, <4>1, Zenon
      <4> QED
        BY <3>1, <4>2
    <3> QED
      BY <3>4, <3>5
  <2> HIDE DEF Good
  <2>6. \A i \in 0 .. n : i \in Good
    BY <1>1, <2>4, <2>5, InductionUpTo, Zenon
  <2>7. flat[n] = f[n]
    BY <1>1, <1>8, <2>6 DEF Good
  <2> QED
    BY <1>6, <2>3, <2>7
<1> QED
  BY <1>7, <1>8

\* There is one such function.
LEMMA FlatteningIs ==
  ASSUME NEW T, NEW ss \in Seq(Seq(T)), NEW f, Joins(f, ss)
  PROVE  FlattenSeq(ss) = f[Len(ss)] /\ FlattenSeq(ss) \in Seq(T)
<1> DEFINE n == Len(ss)
<1>1. PICK g \in [0 .. n -> Seq(T)] : Joins(g, ss) /\ FlattenSeq(ss) = g[n]
  BY Flattening
<1>2. n \in Nat
  OBVIOUS
<1> DEFINE Good == {i \in 0 .. n : f[i] = g[i]}
<1>3. 0 \in Good
  BY <1>1, <1>2 DEF Joins
<1>4. ASSUME NEW i \in 0 .. n, i \in Good, i < n PROVE i + 1 \in Good
  <2>1. i + 1 \in 1 .. n /\ i + 1 \in 0 .. n /\ (i + 1) - 1 = i
    BY <1>2, <1>4
  <2>2. f[i + 1] = f[i] \o ss[i + 1] /\ g[i + 1] = g[i] \o ss[i + 1]
    BY <1>1, <2>1 DEF Joins
  <2> QED
    BY <1>4, <2>1, <2>2
<1> HIDE DEF Good
<1>5. \A i \in 0 .. n : i \in Good
  BY <1>2, <1>3, <1>4, InductionUpTo, Zenon
<1>6. f[n] = g[n] /\ g[n] \in Seq(T)
  BY <1>1, <1>2, <1>5 DEF Good
<1> QED
  BY <1>1, <1>6

\* s \o t with a name, so that a fact about all s and t can be applied to it.
Both(s, t) == s \o t

LEMMA JoiningThree ==
  ASSUME NEW T, NEW x \in Seq(T), NEW y \in Seq(T), NEW z \in Seq(T)
  PROVE  Both(Both(x, y), z) = Both(x, Both(y, z))
BY ConcatAssociative DEF Both

LEMMA FlattenParts ==
  ASSUME NEW T, NEW s \in Seq(Seq(T)), NEW t \in Seq(Seq(T))
  PROVE  FlattenSeq(s \o t) = FlattenSeq(s) \o FlattenSeq(t)
<1> DEFINE m == Len(s)
           n == Len(t)
           st == s \o t
<1>1. PICK f \in [0 .. m -> Seq(T)] : Joins(f, s) /\ FlattenSeq(s) = f[m]
  BY Flattening
<1>2. PICK g \in [0 .. n -> Seq(T)] : Joins(g, t) /\ FlattenSeq(t) = g[n]
  BY Flattening
<1>3. /\ m \in Nat /\ n \in Nat /\ st \in Seq(Seq(T)) /\ Len(st) = m + n
      /\ \A i \in 1 .. m : st[i] = s[i]
      /\ \A i \in 1 .. n : st[m + i] = t[i]
  BY Concatenation
<1>4. \A i \in 1 .. n : t[i] \in Seq(T)
  OBVIOUS
<1> HIDE DEF st, m, n
<1> DEFINE w == [i \in 0 .. n |-> f[m] \o g[i]]
           h == [i \in 0 .. m + n |-> IF i <= m THEN f[i] ELSE w[i - m]]
<1>w. ASSUME NEW i \in 0 .. n PROVE w[i] = f[m] \o g[i]
  OBVIOUS
<1> HIDE DEF w
<1>5. Joins(h, st)
  <2>1. h[0] = <<>>
    BY <1>1, <1>3 DEF Joins
  <2>2. ASSUME NEW i \in 1 .. m + n PROVE h[i] = h[i - 1] \o st[i]
    <3>1. CASE i <= m
      <4>1. i \in 1 .. m /\ i - 1 \in 0 .. m + n /\ i - 1 <= m /\ i \in 0 .. m + n
        BY <1>3, <3>1
      <4>2. h[i] = f[i] /\ h[i - 1] = f[i - 1]
        BY <3>1, <4>1
      <4>3. f[i] = f[i - 1] \o s[i] /\ st[i] = s[i]
        BY <1>1, <1>3, <4>1 DEF Joins, m
      <4> QED
        BY <4>2, <4>3, Zenon
    <3>2. CASE i > m
      <4> DEFINE k == i - m
      <4>1. k \in 1 .. n /\ k - 1 \in 0 .. n /\ m + k = i /\ m \in 0 .. m
            /\ i - 1 \in 0 .. m + n /\ i \in 0 .. m + n /\ (i - 1) - m = k - 1
        BY <1>3, <3>2
      <4>2. f[m] \in Seq(T) /\ g[k - 1] \in Seq(T) /\ t[k] \in Seq(T)
        BY <1>1, <1>2, <1>4, <4>1
      <4>3. g[k] = g[k - 1] \o t[k] /\ st[i] = t[k]
        BY <1>2, <1>3, <4>1 DEF Joins, n
      <4>4. h[i] = f[m] \o g[k]
        <5>1. h[i] = w[k] /\ k \in 0 .. n
          BY <1>3, <3>2, <4>1
        <5> QED
          BY <1>w, <5>1, Zenon
      <4>5. h[i - 1] = f[m] \o g[k - 1]
        <5>1. CASE i - 1 > m
          <6>1. h[i - 1] = w[k - 1]
            BY <1>3, <4>1, <5>1
          <6> QED
            BY <1>w, <4>1, <6>1, Zenon
        <5>2. CASE i - 1 = m
          <6>1. k - 1 = 0 /\ h[i - 1] = f[m]
            BY <1>3, <4>1, <5>2
          <6>2. g[0] = <<>> /\ f[m] \o <<>> = f[m]
            BY <1>2, <4>2 DEF Joins
          <6>3. g[k - 1] = <<>>
            BY <6>1, <6>2
          <6> QED
            BY <6>1, <6>2, <6>3, Zenon
        <5>3. i - 1 > m \/ i - 1 = m
          BY <1>3, <3>2
        <5> QED
          BY <5>1, <5>2, <5>3, Zenon
      <4> HIDE DEF k, h
      <4>6. (f[m] \o g[k - 1]) \o t[k] = f[m] \o (g[k - 1] \o t[k])
        <5>1. Both(Both(f[m], g[k - 1]), t[k]) = Both(f[m], Both(g[k - 1], t[k]))
          BY <4>2, JoiningThree
        <5> QED
          BY <5>1, Zenon DEF Both
      <4> QED
        BY <4>3, <4>4, <4>5, <4>6, Zenon
    <3>3. i <= m \/ i > m
      BY <1>3
    <3> QED
      BY <3>1, <3>2, <3>3, Zenon
  <2> HIDE DEF h
  <2> QED
    BY <1>3, <2>1, <2>2 DEF Joins
<1>6. FlattenSeq(st) = h[m + n]
  <2> HIDE DEF h
  <2> QED
    BY <1>3, <1>5, FlatteningIs
<1>7. h[m + n] = f[m] \o g[n]
  <2>1. CASE n = 0
    <3>1. f[m] \in Seq(T) /\ g[n] = <<>> /\ f[m] \o <<>> = f[m]
      BY <1>1, <1>2, <1>3, <2>1 DEF Joins
    <3>2. m + n = m /\ h[m] = f[m]
      BY <1>3, <2>1
    <3> QED
      BY <3>1, <3>2, Zenon
  <2>2. CASE n # 0
    <3>1. h[m + n] = w[n] /\ n \in 0 .. n
      <4>1. m + n \in 0 .. m + n /\ ~(m + n <= m) /\ (m + n) - m = n /\ n \in 0 .. n
        BY <1>3, <2>2
      <4> QED
        BY <4>1
    <3> QED
      BY <1>w, <3>1, Zenon
  <2> QED
    BY <2>1, <2>2
<1> QED
  BY <1>1, <1>2, <1>6, <1>7 DEF st, m, n

\* Sequences of one element each.
LEMMA FlattenSingles ==
  ASSUME NEW T, NEW s \in Seq(T)
  PROVE  FlattenSeq([i \in DOMAIN s |-> <<s[i]>>]) = s
<1> DEFINE n == Len(s)
           ss == [i \in DOMAIN s |-> <<s[i]>>]
           f == [i \in 0 .. n |-> SubSeq(s, 1, i)]
<1>1. n \in Nat /\ DOMAIN s = 1 .. n /\ \A i \in 1 .. n : s[i] \in T
  OBVIOUS
<1>2. ss \in Seq(Seq(T)) /\ Len(ss) = n /\ \A i \in 1 .. n : ss[i] = <<s[i]>>
  BY <1>1
<1>3. \A i \in 0 .. n : SubSeq(s, 1, i) \in Seq(T) /\ Len(SubSeq(s, 1, i)) = i
  BY <1>1
<1>4. ASSUME NEW i \in 1 .. n PROVE SubSeq(s, 1, i) = SubSeq(s, 1, i - 1) \o <<s[i]>>
  BY <1>1
<1>5. SubSeq(s, 1, 0) = <<>> /\ SubSeq(s, 1, n) = s
  BY <1>1
<1> HIDE DEF ss
<1>6. Joins(f, ss)
  <2>1. \A i \in 1 .. n : i - 1 \in 0 .. n /\ i \in 0 .. n
    BY <1>1
  <2>2. f[0] = <<>>
    BY <1>1, <1>5
  <2>3. ASSUME NEW i \in 1 .. n PROVE f[i] = f[i - 1] \o ss[i]
    <3>1. f[i] = SubSeq(s, 1, i) /\ f[i - 1] = SubSeq(s, 1, i - 1) /\ ss[i] = <<s[i]>>
      BY <1>2, <2>1
    <3> QED
      BY <1>4, <3>1, Zenon
  <2> HIDE DEF f, n
  <2> QED
    BY <1>2, <2>2, <2>3 DEF Joins
<1>7. f[n] = s
  BY <1>1, <1>5
<1> HIDE DEF f
<1> QED
  BY <1>2, <1>6, <1>7, FlatteningIs DEF ss

LEMMA FlattenOne ==
  ASSUME NEW T, NEW s \in Seq(T)
  PROVE  FlattenSeq(<<s>>) = s
<1> DEFINE f == [i \in 0 .. 1 |-> IF i = 0 THEN <<>> ELSE s]
<1>1. <<s>> \in Seq(Seq(T)) /\ Len(<<s>>) = 1 /\ <<s>>[1] = s
  OBVIOUS
<1>2. <<>> \o s = s
  OBVIOUS
<1>3. f[0] = <<>> /\ f[1] = s
  OBVIOUS
<1> HIDE DEF f
<1>4. Joins(f, <<s>>)
  <2>1. f[1] = f[0] \o <<s>>[1]
    BY <1>1, <1>2, <1>3, Zenon
  <2>2. \A i \in 1 .. Len(<<s>>) : i = 1 /\ i - 1 = 0
    BY <1>1
  <2> QED
    BY <1>3, <2>1, <2>2, Zenon DEF Joins
<1> QED
  BY <1>1, <1>3, <1>4, FlatteningIs

\* Messages of R, with blocks of B.
Carriers(R, B) == \A r \in R : r.blocks \in Seq(B)

\* What the messages of a request carry.
LEMMA CarriedParts ==
  ASSUME NEW B, NEW R, Carriers(R, B)
  PROVE  \A s, t \in Seq(R) : Carried(Both(s, t)) = Both(Carried(s), Carried(t))
<1> SUFFICES ASSUME NEW s \in Seq(R), NEW t \in Seq(R)
             PROVE  Carried(s \o t) = Carried(s) \o Carried(t)
  BY Zenon DEF Both
<1> DEFINE Blocked(u) == [i \in DOMAIN u |-> u[i].blocks]
<1>1. \A u \in Seq(R) : /\ Blocked(u) \in Seq(Seq(B)) /\ Len(Blocked(u)) = Len(u)
                        /\ \A i \in 1 .. Len(u) : Blocked(u)[i] = u[i].blocks
  <2> SUFFICES ASSUME NEW u \in Seq(R)
               PROVE  /\ Blocked(u) \in Seq(Seq(B)) /\ Len(Blocked(u)) = Len(u)
                      /\ \A i \in 1 .. Len(u) : Blocked(u)[i] = u[i].blocks
    OBVIOUS
  <2>1. DOMAIN u = 1 .. Len(u) /\ Len(u) \in Nat /\ \A i \in 1 .. Len(u) : u[i] \in R
    OBVIOUS
  <2>2. \A i \in 1 .. Len(u) : u[i].blocks \in Seq(B)
    BY <2>1 DEF Carriers
  <2> QED
    BY <2>1, <2>2
<1>2. /\ s \o t \in Seq(R) /\ Len(s \o t) = Len(s) + Len(t)
      /\ \A i \in 1 .. Len(s) : (s \o t)[i] = s[i]
      /\ \A i \in 1 .. Len(t) : (s \o t)[Len(s) + i] = t[i]
  BY Concatenation
<1> DEFINE st == s \o t
           a == Blocked(s)
           b == Blocked(t)
           ab == Blocked(st)
<1>3. /\ st \in Seq(R) /\ Len(st) = Len(s) + Len(t) /\ Len(s) \in Nat /\ Len(t) \in Nat
      /\ \A i \in 1 .. Len(s) : st[i] = s[i]
      /\ \A i \in 1 .. Len(t) : st[Len(s) + i] = t[i]
  BY <1>2
<1>4. /\ a \in Seq(Seq(B)) /\ Len(a) = Len(s) /\ \A i \in 1 .. Len(s) : a[i] = s[i].blocks
      /\ b \in Seq(Seq(B)) /\ Len(b) = Len(t) /\ \A i \in 1 .. Len(t) : b[i] = t[i].blocks
  BY <1>1
<1> HIDE DEF st
<1>5. ab \in Seq(Seq(B)) /\ Len(ab) = Len(st) /\ \A i \in 1 .. Len(st) : ab[i] = st[i].blocks
  BY <1>1, <1>3
<1> HIDE DEF a, b, ab
<1>6. /\ a \o b \in Seq(Seq(B)) /\ Len(a \o b) = Len(s) + Len(t)
      /\ \A i \in 1 .. Len(s) : (a \o b)[i] = a[i]
      /\ \A i \in 1 .. Len(t) : (a \o b)[Len(s) + i] = b[i]
  <2>1. /\ a \o b \in Seq(Seq(B)) /\ Len(a \o b) = Len(a) + Len(b)
        /\ \A i \in 1 .. Len(a) : (a \o b)[i] = a[i]
        /\ \A i \in 1 .. Len(b) : (a \o b)[Len(a) + i] = b[i]
    <3>1. ASSUME NEW x \in Seq(Seq(B)), NEW y \in Seq(Seq(B))
          PROVE  /\ x \o y \in Seq(Seq(B)) /\ Len(x \o y) = Len(x) + Len(y)
                 /\ \A i \in 1 .. Len(x) : (x \o y)[i] = x[i]
                 /\ \A i \in 1 .. Len(y) : (x \o y)[Len(x) + i] = y[i]
      BY Concatenation
    <3> QED
      BY <1>4, <3>1, Zenon
  <2> QED
    BY <1>4, <2>1, Zenon
<1>7. ab = a \o b
  <2> DEFINE c == a \o b
  <2>1. c \in Seq(Seq(B)) /\ Len(c) = Len(s) + Len(t)
    BY <1>6
  <2>2. ASSUME NEW i \in 1 .. Len(s) + Len(t) PROVE ab[i] = c[i]
    <3>1. CASE i <= Len(s)
      <4>1. i \in 1 .. Len(s)
        BY <1>3, <3>1
      <4> QED
        BY <1>3, <1>4, <1>5, <1>6, <4>1
    <3>2. CASE i > Len(s)
      <4> DEFINE k == i - Len(s)
      <4>1. k \in 1 .. Len(t) /\ Len(s) + k = i
        BY <1>3, <3>2
      <4> HIDE DEF k, c
      <4>2. ab[i] = t[k].blocks
        BY <1>3, <1>5, <4>1
      <4>3. c[i] = b[k]
        BY <1>6, <4>1 DEF c
      <4> QED
        BY <1>4, <4>1, <4>2, <4>3
    <3>3. i <= Len(s) \/ i > Len(s)
      BY <1>3
    <3> QED
      BY <3>1, <3>2, <3>3, Zenon
  <2> HIDE DEF c
  <2> QED
    <3>1. ab = c
      BY <1>3, <1>5, <2>1, <2>2, SeqEqual
    <3> QED
      BY <3>1, Zenon DEF c
<1>8. FlattenSeq(a \o b) = FlattenSeq(a) \o FlattenSeq(b)
  BY <1>4, FlattenParts, Zenon
<1> QED
  BY <1>7, <1>8, Zenon DEF Carried, a, b, ab, st

LEMMA CarriedFlat ==
  ASSUME NEW B, NEW R, Carriers(R, B), NEW parts \in Seq(Seq(R))
  PROVE  Carried(FlattenSeq(parts)) = FlattenSeq([i \in DOMAIN parts |-> Carried(parts[i])])
<1> DEFINE n == Len(parts)
           carried == [i \in DOMAIN parts |-> Carried(parts[i])]
<1>1. PICK f \in [0 .. n -> Seq(R)] : Joins(f, parts) /\ FlattenSeq(parts) = f[n]
  BY Flattening
<1>2. n \in Nat /\ DOMAIN parts = 1 .. n /\ \A i \in 1 .. n : parts[i] \in Seq(R)
  OBVIOUS
<1>3. ASSUME NEW u \in Seq(R) PROVE Carried(u) \in Seq(B)
  <2> DEFINE us == [i \in DOMAIN u |-> u[i].blocks]
  <2>1. us \in Seq(Seq(B))
    <3>1. DOMAIN u = 1 .. Len(u) /\ Len(u) \in Nat /\ \A i \in 1 .. Len(u) : u[i] \in R
      OBVIOUS
    <3>2. \A i \in 1 .. Len(u) : u[i].blocks \in Seq(B)
      BY <3>1 DEF Carriers
    <3> QED
      BY <3>1, <3>2
  <2> HIDE DEF us
  <2>2. PICK g \in [0 .. Len(us) -> Seq(B)] : FlattenSeq(us) = g[Len(us)]
    BY <2>1, Flattening
  <2>3. Len(us) \in Nat
    BY <2>1
  <2>4. g[Len(us)] \in Seq(B)
    BY <2>2, <2>3
  <2> QED
    BY <2>2, <2>4, Zenon DEF Carried, us
<1>4. carried \in Seq(Seq(B)) /\ Len(carried) = n /\ \A i \in 1 .. n : carried[i] = Carried(parts[i])
  BY <1>2, <1>3
<1> DEFINE g == [i \in 0 .. n |-> Carried(f[i])]
<1> HIDE DEF carried
<1>5. Joins(g, carried)
  <2>1. ASSUME NEW i \in 1 .. n PROVE g[i] = g[i - 1] \o carried[i]
    <3>1. i - 1 \in 0 .. n /\ i \in 0 .. n
      BY <1>2
    <3>2. f[i] = f[i - 1] \o parts[i] /\ f[i - 1] \in Seq(R) /\ parts[i] \in Seq(R)
      BY <1>1, <1>2, <3>1 DEF Joins
    <3>3. Carried(Both(f[i - 1], parts[i])) = Both(Carried(f[i - 1]), Carried(parts[i]))
      BY <3>2, CarriedParts
    <3>4. g[i] = Carried(f[i]) /\ g[i - 1] = Carried(f[i - 1])
      BY <3>1
    <3> QED
      BY <1>4, <3>2, <3>3, <3>4, Zenon DEF Both
  <2>2. g[0] = <<>>
    <3>1. f[0] = <<>> /\ 0 \in 0 .. n
      BY <1>1, <1>2 DEF Joins
    <3>2. g[0] = Carried(<<>>)
      BY <3>1
    <3>3. Carried(<<>>) = <<>>
      <4>1. [i \in DOMAIN <<>> |-> <<>>[i].blocks] = <<>>
        OBVIOUS
      <4>2. FlattenSeq(<<>>) = <<>>
        BY DEF FlattenSeq
      <4> QED
        BY <4>1, <4>2, Zenon DEF Carried
    <3> QED
      BY <3>2, <3>3, Zenon
  <2> HIDE DEF g, n
  <2> QED
    BY <1>4, <2>1, <2>2 DEF Joins
<1>6. FlattenSeq(carried) = g[n]
  <2> HIDE DEF g, n
  <2> QED
    BY <1>4, <1>5, FlatteningIs
<1>7. g[n] = Carried(f[n])
  BY <1>2
<1> QED
  BY <1>1, <1>6, <1>7, Zenon DEF carried

\* What BlocksOf has taken after each block.
Takes(f, b, types) ==
  f = [i \in 0 .. Len(b) |->
        IF i = 0 THEN <<>>
        ELSE IF b[i].type \in types THEN Append(f[i - 1], b[i]) ELSE f[i - 1]]

LEMMA BlocksTaken ==
  ASSUME NEW m, NEW types, NEW B, m.blocks \in Seq(B), NEW f, Takes(f, m.blocks, types)
  PROVE  BlocksOf(m, types) = f[Len(m.blocks)]
<1> DEFINE b == m.blocks
           n == Len(b)
           More(t, i) == IF b[i].type \in types THEN Append(t, b[i]) ELSE t
           Next1(g, i) == IF i = 0 THEN <<>>
                          ELSE IF b[i].type \in types THEN Append(g[i - 1], b[i]) ELSE g[i - 1]
           R(g) == g = [i \in 0 .. Len(m.blocks) |-> Next1(g, i)]
           taken == CHOOSE g : R(g)
<1>1. R(f)
  BY DEF Takes
<1>2. R(taken)
  <2> HIDE DEF R
  <2> QED
    BY <1>1, Zenon
<1>3. BlocksOf(m, types) = taken[n]
  BY Zenon DEF BlocksOf, taken
<1> HIDE DEF taken
<1>4. n \in Nat
  OBVIOUS
<1>5. ASSUME NEW g, R(g), NEW i \in 1 .. n
      PROVE  g[i] = More(g[i - 1], i)
  <2>1. i \in 0 .. n /\ i # 0
    BY <1>4
  <2>2. g[i] = Next1(g, i)
    <3> HIDE DEF Next1
    <3> QED
      BY <1>5, <2>1
  <2> QED
    BY <2>1, <2>2, Zenon
<1>6. ASSUME NEW g, R(g) PROVE g[0] = <<>>
  BY <1>4, <1>6
<1> DEFINE Good == {i \in 0 .. n : taken[i] = f[i]}
<1>7. 0 \in Good
  BY <1>1, <1>2, <1>4, <1>6
<1> HIDE DEF R
<1>8. ASSUME NEW i \in 0 .. n, i \in Good, i < n PROVE i + 1 \in Good
  <2>1. i + 1 \in 1 .. n /\ i + 1 \in 0 .. n /\ (i + 1) - 1 = i /\ taken[i] = f[i]
    BY <1>4, <1>8
  <2> HIDE DEF More
  <2>2. taken[i + 1] = More(taken[i], i + 1)
    BY <1>2, <1>5, <2>1
  <2>3. f[i + 1] = More(f[i], i + 1)
    BY <1>1, <1>5, <2>1
  <2>4. taken[i + 1] = f[i + 1]
    BY <2>1, <2>2, <2>3, Zenon
  <2> QED
    BY <2>1, <2>4
<1> HIDE DEF Good
<1>9. \A i \in 0 .. n : i \in Good
  BY <1>4, <1>7, <1>8, InductionUpTo, Zenon
<1> QED
  BY <1>3, <1>4, <1>9 DEF Good

AllOf(b, types) == \A i \in 1 .. Len(b) : b[i].type \in types
NoneOf(b, types) == \A i \in 1 .. Len(b) : b[i].type \notin types

LEMMA BlocksAll ==
  ASSUME NEW m, NEW types, NEW B, m.blocks \in Seq(B), AllOf(m.blocks, types)
  PROVE  BlocksOf(m, types) = m.blocks
<1> DEFINE b == m.blocks
           f == [i \in 0 .. Len(b) |-> SubSeq(b, 1, i)]
<1>1. Len(b) \in Nat /\ SubSeq(b, 1, 0) = <<>> /\ SubSeq(b, 1, Len(b)) = b
  OBVIOUS
<1>2. \A i \in 1 .. Len(b) : SubSeq(b, 1, i) = Append(SubSeq(b, 1, i - 1), b[i])
  OBVIOUS
<1>3. Takes(f, b, types)
  <2> SUFFICES ASSUME NEW i \in 0 .. Len(b)
               PROVE  f[i] = IF i = 0 THEN <<>>
                             ELSE IF b[i].type \in types THEN Append(f[i - 1], b[i])
                             ELSE f[i - 1]
    BY DEF Takes
  <2>1. CASE i = 0
    BY <1>1, <2>1
  <2>2. CASE i # 0
    <3>1. i \in 1 .. Len(b) /\ i - 1 \in 0 .. Len(b)
      BY <1>1, <2>2
    <3>2. f[i] = SubSeq(b, 1, i) /\ f[i - 1] = SubSeq(b, 1, i - 1) /\ b[i].type \in types
      BY <3>1 DEF AllOf
    <3> QED
      BY <1>2, <2>2, <3>1, <3>2, Zenon
  <2> QED
    BY <2>1, <2>2, Zenon
<1>4. f[Len(b)] = b
  <2>1. Len(b) \in 0 .. Len(b)
    BY <1>1
  <2>2. f[Len(b)] = SubSeq(b, 1, Len(b))
    BY <2>1, Zenon
  <2> QED
    BY <1>1, <2>2, Zenon
<1> HIDE DEF f
<1> QED
  BY <1>3, <1>4, BlocksTaken, Zenon

LEMMA BlocksNone ==
  ASSUME NEW m, NEW types, NEW B, m.blocks \in Seq(B), NoneOf(m.blocks, types)
  PROVE  BlocksOf(m, types) = <<>>
<1> DEFINE b == m.blocks
           f == [i \in 0 .. Len(b) |-> <<>>]
<1>1. Len(b) \in Nat
  OBVIOUS
<1>2. Takes(f, b, types)
  <2> SUFFICES ASSUME NEW i \in 0 .. Len(b)
               PROVE  f[i] = IF i = 0 THEN <<>>
                             ELSE IF b[i].type \in types THEN Append(f[i - 1], b[i])
                             ELSE f[i - 1]
    BY DEF Takes
  <2>1. i # 0 => i \in 1 .. Len(b) /\ i - 1 \in 0 .. Len(b)
    BY <1>1
  <2> QED
    BY <2>1 DEF NoneOf
<1>3. f[Len(b)] = <<>>
  BY <1>1
<1> HIDE DEF f
<1> QED
  BY <1>2, <1>3, BlocksTaken, Zenon

\* The messages of the dialogue: a text, the calls of a turn, their results.
Block == [type : {"text", "image", "use", "result"}, id : Nat]
OfText(d) == d.role \in {"user", "assistant"} /\ d.blocks = <<TextBlock>>
OfUses(d) == d.role = "assistant" /\ d.blocks # <<>> /\ AllOf(d.blocks, {"use"})
OfResults(d) == d.role = "tool" /\ d.blocks # <<>> /\ AllOf(d.blocks, {"result"})
Shaped(d) == d.blocks \in Seq(Block) /\ (OfText(d) \/ OfUses(d) \/ OfResults(d))

\* The messages of a request that carry nothing under another's role, and what
\* such messages say of one message of the dialogue.
Fit == {r \in [role : {"user", "assistant", "tool", "none"}, blocks : Seq(Block)] :
          RoleFits(r)}
Tells(part, d) == part \in Seq(Fit) /\ Carried(part) = d.blocks

LEMMA RequestFits ==
  ASSUME NEW b \in Seq(Block), b # <<>>
  PROVE  /\ AllOf(b, {"text", "use"}) => Request("assistant", b) \in Fit
         /\ AllOf(b, {"text", "image"}) => Request("user", b) \in Fit
         /\ \A role \in {"user", "tool", "none"} :
              AllOf(b, {"result"}) => Request(role, b) \in Fit
<1>1. 1 \in 1 .. Len(b) /\ DOMAIN b = 1 .. Len(b)
  OBVIOUS
<1>2. \A role \in {"user", "assistant", "tool", "none"} :
        /\ Request(role, b) \in [role : {"user", "assistant", "tool", "none"}, blocks : Seq(Block)]
        /\ Request(role, b).role = role /\ Request(role, b).blocks = b
  BY DEF Request
<1>3. ASSUME AllOf(b, {"text", "use"}) PROVE Request("assistant", b) \in Fit
  <2>1. b[1].type # "result"
    BY <1>1, <1>3 DEF AllOf
  <2> QED
    BY <1>1, <1>2, <2>1 DEF Fit, RoleFits, Carries
<1>4. ASSUME AllOf(b, {"text", "image"}) PROVE Request("user", b) \in Fit
  <2>1. b[1].type # "use"
    BY <1>1, <1>4 DEF AllOf
  <2> QED
    BY <1>1, <1>2, <2>1 DEF Fit, RoleFits, Carries
<1>5. ASSUME AllOf(b, {"result"}), NEW role \in {"user", "tool", "none"}
      PROVE  Request(role, b) \in Fit
  <2>1. Carries(Request(role, b), "result")
    BY <1>1, <1>2, <1>5 DEF AllOf, Carries
  <2> QED
    BY <1>2, <2>1 DEF Fit, RoleFits
<1> QED
  BY <1>3, <1>4, <1>5

LEMMA OneTells ==
  ASSUME NEW d, NEW r \in Fit, r.blocks = d.blocks
  PROVE  Tells(<<r>>, d)
<1>1. r.blocks \in Seq(Block)
  BY DEF Fit
<1>2. [i \in DOMAIN <<r>> |-> <<r>>[i].blocks] = <<r.blocks>>
  OBVIOUS
<1>3. FlattenSeq(<<r.blocks>>) = r.blocks
  BY <1>1, FlattenOne
<1>4. Carried(<<r>>) = d.blocks
  BY <1>2, <1>3, Zenon DEF Carried
<1>5. <<r>> \in Seq(Fit)
  OBVIOUS
<1> QED
  BY <1>4, <1>5 DEF Tells

LEMMA EachTells ==
  ASSUME NEW d, d.blocks \in Seq(Block), NEW role,
         \A i \in DOMAIN d.blocks : Request(role, <<d.blocks[i]>>) \in Fit
  PROVE  Tells(OneEach(role, d.blocks), d)
<1> DEFINE b == d.blocks
           each == OneEach(role, b)
<1>1. DOMAIN b = 1 .. Len(b) /\ Len(b) \in Nat
  OBVIOUS
<1>2. each = [i \in 1 .. Len(b) |-> Request(role, <<b[i]>>)]
  BY <1>1 DEF OneEach
<1> HIDE DEF each
<1>3. each \in Seq(Fit) /\ DOMAIN each = DOMAIN b
  <2>1. \A i \in 1 .. Len(b) : Request(role, <<b[i]>>) \in Fit
    BY <1>1
  <2>2. each \in [1 .. Len(b) -> Fit]
    BY <1>2, <2>1
  <2> QED
    BY <1>1, <2>2
<1>4. \A i \in DOMAIN b : each[i].blocks = <<b[i]>>
  BY <1>1, <1>2 DEF Request
<1>5. [i \in DOMAIN each |-> each[i].blocks] = [i \in DOMAIN b |-> <<b[i]>>]
  BY <1>3, <1>4
<1>6. Carried(each) = FlattenSeq([i \in DOMAIN b |-> <<b[i]>>])
  BY <1>5, Zenon DEF Carried
<1>7. FlattenSeq([i \in DOMAIN b |-> <<b[i]>>]) = b
  BY FlattenSingles
<1> QED
  BY <1>3, <1>6, <1>7, Zenon DEF Tells, each

\* Each block by itself.
LEMMA SinglesFit ==
  ASSUME NEW b \in Seq(Block), NEW types, AllOf(b, types), NEW i \in DOMAIN b
  PROVE  <<b[i]>> \in Seq(Block) /\ <<b[i]>> # <<>> /\ AllOf(<<b[i]>>, types)
<1>1. i \in 1 .. Len(b) /\ b[i] \in Block
  OBVIOUS
<1> QED
  BY <1>1 DEF AllOf

\* With each provider a message of the dialogue comes to messages that tell it.
LEMMA OpenaiTells ==
  ASSUME NEW d, Shaped(d)
  PROVE  Tells(OpenaiMessages(d), d)
<1> DEFINE b == d.blocks
<1>1. b \in Seq(Block)
  BY DEF Shaped
<1>2. CASE OfText(d)
  <2>1. b = <<TextBlock>> /\ b # <<>> /\ AllOf(b, {"text"})
    BY <1>2 DEF OfText, AllOf, TextBlock
  <2>2. AllOf(b, {"text", "image"}) /\ AllOf(b, {"text", "use"}) /\ NoneOf(b, {"use"})
    BY <2>1 DEF AllOf, NoneOf
  <2>3. /\ BlocksOf(d, {"text"}) = b /\ BlocksOf(d, {"text", "image"}) = b
        /\ BlocksOf(d, {"use"}) = <<>>
    BY <1>1, <2>1, <2>2, BlocksAll, BlocksNone
  <2>4. <<TextBlock>> \o <<>> = <<TextBlock>>
    OBVIOUS
  <2>5. CASE d.role = "user"
    <3>1. OpenaiMessages(d) = <<Request("user", b)>>
      BY <2>1, <2>3, <2>5, Zenon DEF OpenaiMessages, UserContent
    <3>2. Request("user", b) \in Fit /\ Request("user", b).blocks = b
      BY <1>1, <2>1, <2>2, RequestFits DEF Request
    <3> QED
      BY <3>1, <3>2, OneTells
  <2>6. CASE d.role = "assistant"
    <3>1. d.role # "user"
      BY <2>6
    <3>2. OpenaiMessages(d) = <<Request("assistant", <<TextBlock>> \o <<>>)>>
      BY <2>1, <2>3, <2>6, <3>1, Zenon DEF OpenaiMessages
    <3>3. OpenaiMessages(d) = <<Request("assistant", b)>>
      BY <2>1, <2>4, <3>2, Zenon
    <3>4. Request("assistant", b) \in Fit /\ Request("assistant", b).blocks = b
      BY <1>1, <2>1, <2>2, RequestFits DEF Request
    <3> QED
      BY <3>3, <3>4, OneTells
  <2> QED
    BY <1>2, <2>5, <2>6 DEF OfText
<1>3. CASE OfUses(d)
  <2>1. /\ b # <<>> /\ AllOf(b, {"use"}) /\ d.role = "assistant"
        /\ d.role # "user"
    BY <1>3 DEF OfUses
  <2>2. AllOf(b, {"text", "use"}) /\ NoneOf(b, {"text"})
    BY <2>1 DEF AllOf, NoneOf
  <2>3. BlocksOf(d, {"text"}) = <<>> /\ BlocksOf(d, {"use"}) = b
    BY <1>1, <2>1, <2>2, BlocksAll, BlocksNone
  <2>4. <<>> \o b = b
    BY <1>1
  <2>5. OpenaiMessages(d) = <<Request("assistant", <<>> \o b)>>
    BY <2>1, <2>3, Zenon DEF OpenaiMessages
  <2>6. OpenaiMessages(d) = <<Request("assistant", b)>>
    BY <2>4, <2>5, Zenon
  <2>7. Request("assistant", b) \in Fit /\ Request("assistant", b).blocks = b
    BY <1>1, <2>1, <2>2, RequestFits DEF Request
  <2> QED
    BY <2>6, <2>7, OneTells
<1>4. CASE OfResults(d)
  <2>1. AllOf(b, {"result"}) /\ d.role # "user" /\ d.role # "assistant"
    BY <1>4 DEF OfResults
  <2>2. BlocksOf(d, {"result"}) = b
    BY <1>1, <2>1, BlocksAll
  <2>3. OpenaiMessages(d) = OneEach("tool", b)
    BY <2>1, <2>2, Zenon DEF OpenaiMessages
  <2>4. \A i \in DOMAIN b : Request("tool", <<b[i]>>) \in Fit
    BY <1>1, <2>1, SinglesFit, RequestFits
  <2> QED
    BY <1>1, <2>3, <2>4, EachTells
<1> QED
  BY <1>2, <1>3, <1>4 DEF Shaped

\* Anthropic: one message, of the user unless it is the assistant's.
AnthropicMessage(d) == Request(IF d.role = "assistant" THEN "assistant" ELSE "user", d.blocks)

LEMMA AnthropicTells ==
  ASSUME NEW d, Shaped(d)
  PROVE  /\ AnthropicMessages(d) = <<AnthropicMessage(d)>>
         /\ AnthropicMessage(d) \in Fit
         /\ Tells(AnthropicMessages(d), d)
<1> DEFINE b == d.blocks
<1>1. b \in Seq(Block)
  BY DEF Shaped
<1>2. CASE OfText(d)
  <2>1. b = <<TextBlock>> /\ b # <<>> /\ AllOf(b, {"text", "image"}) /\ AllOf(b, {"text", "use"})
    BY <1>2 DEF OfText, AllOf, TextBlock
  <2>2. BlocksOf(d, {"text", "use"}) = b /\ BlocksOf(d, {"text", "image"}) = b
    BY <1>1, <2>1, BlocksAll
  <2>3. Request("user", b) \in Fit /\ Request("assistant", b) \in Fit
    BY <1>1, <2>1, RequestFits
  <2>4. CASE d.role = "user"
    <3>1. AnthropicMessages(d) = <<Request("user", b)>>
      BY <2>1, <2>2, <2>4, Zenon DEF AnthropicMessages, UserContent
    <3>2. AnthropicMessage(d) = Request("user", b) /\ Request("user", b).blocks = b
      BY <2>4 DEF AnthropicMessage, Request
    <3> QED
      BY <2>3, <3>1, <3>2, OneTells
  <2>5. CASE d.role = "assistant"
    <3>1. AnthropicMessages(d) = <<Request("assistant", b)>>
      <4>1. d.role # "user"
        BY <2>5
      <4> QED
        BY <2>2, <2>5, <4>1, Zenon DEF AnthropicMessages
    <3>2. AnthropicMessage(d) = Request("assistant", b) /\ Request("assistant", b).blocks = b
      BY <2>5 DEF AnthropicMessage, Request
    <3> QED
      BY <2>3, <3>1, <3>2, OneTells
  <2> QED
    BY <1>2, <2>4, <2>5 DEF OfText
<1>3. CASE OfUses(d)
  <2>1. b # <<>> /\ AllOf(b, {"text", "use"}) /\ d.role = "assistant" /\ d.role # "user"
    BY <1>3 DEF OfUses, AllOf
  <2>2. BlocksOf(d, {"text", "use"}) = b
    BY <1>1, <2>1, BlocksAll
  <2>3. AnthropicMessages(d) = <<Request("assistant", b)>>
    BY <2>1, <2>2, Zenon DEF AnthropicMessages
  <2>4. AnthropicMessage(d) = Request("assistant", b) /\ Request("assistant", b).blocks = b
    BY <2>1 DEF AnthropicMessage, Request
  <2>5. Request("assistant", b) \in Fit
    BY <1>1, <2>1, RequestFits
  <2> QED
    BY <2>3, <2>4, <2>5, OneTells
<1>4. CASE OfResults(d)
  <2>1. b # <<>> /\ AllOf(b, {"result"}) /\ d.role # "user" /\ d.role # "assistant"
    BY <1>4 DEF OfResults
  <2>2. BlocksOf(d, {"result"}) = b
    BY <1>1, <2>1, BlocksAll
  <2>3. AnthropicMessages(d) = <<Request("user", b)>>
    BY <2>1, <2>2, Zenon DEF AnthropicMessages
  <2>4. AnthropicMessage(d) = Request("user", b) /\ Request("user", b).blocks = b
    BY <2>1 DEF AnthropicMessage, Request
  <2>5. Request("user", b) \in Fit
    BY <1>1, <2>1, RequestFits
  <2> QED
    BY <2>3, <2>4, <2>5, OneTells
<1> QED
  BY <1>2, <1>3, <1>4 DEF Shaped

LEMMA ResponsesTell ==
  ASSUME NEW d, Shaped(d)
  PROVE  Tells(ResponsesItems(d), d)
<1> DEFINE b == d.blocks
<1>1. b \in Seq(Block)
  BY DEF Shaped
<1>2. ASSUME AllOf(b, {"text", "image"}), d.role = "user"
      PROVE  Tells(ResponsesItems(d), d)
  <2>1. ResponsesItems(d) = OneEach("user", b)
    BY <1>1, <1>2, BlocksAll DEF ResponsesItems
  <2>2. \A i \in DOMAIN b : Request("user", <<b[i]>>) \in Fit
    BY <1>1, <1>2, SinglesFit, RequestFits
  <2> QED
    BY <1>1, <2>1, <2>2, EachTells
<1>3. ASSUME AllOf(b, {"text", "use"}), d.role = "assistant"
      PROVE  Tells(ResponsesItems(d), d)
  <2>1. ResponsesItems(d) = OneEach("assistant", b)
    BY <1>1, <1>3, BlocksAll DEF ResponsesItems
  <2>2. \A i \in DOMAIN b : Request("assistant", <<b[i]>>) \in Fit
    BY <1>1, <1>3, SinglesFit, RequestFits
  <2> QED
    BY <1>1, <2>1, <2>2, EachTells
<1>4. ASSUME AllOf(b, {"result"}), d.role = "tool"
      PROVE  Tells(ResponsesItems(d), d)
  <2>1. ResponsesItems(d) = OneEach("none", b)
    BY <1>1, <1>4, BlocksAll DEF ResponsesItems
  <2>2. \A i \in DOMAIN b : Request("none", <<b[i]>>) \in Fit
    BY <1>1, <1>4, SinglesFit, RequestFits
  <2> QED
    BY <1>1, <2>1, <2>2, EachTells
<1>5. OfText(d) => AllOf(b, {"text", "image"}) /\ AllOf(b, {"text", "use"})
  BY DEF OfText, AllOf, TextBlock
<1>6. OfUses(d) => AllOf(b, {"text", "use"})
  BY DEF OfUses, AllOf
<1> QED
  BY <1>2, <1>3, <1>4, <1>5, <1>6 DEF Shaped, OfText, OfUses, OfResults

\* A user says a text, a message with results has some.
Written(m) ==
  /\ m.role \in {"user", "marker"} => m.calls = <<>>
  /\ m.role = "tool" => m.calls # <<>>
WrittenInv == \A i \in DOMAIN history : Written(history[i])

LEMMA WrittenAppend ==
  ASSUME TypeInv, WrittenInv, NEW m \in Message, Written(m), history' = Append(history, m)
  PROVE  WrittenInv'
<1>1. history \in Seq(Message)
  BY DEF TypeInv, TypeOK
<1>2. /\ history' \in Seq(Message) /\ Len(history') = Len(history) + 1
      /\ \A i \in 1 .. Len(history) : history'[i] = history[i]
      /\ history'[Len(history) + 1] = m
  BY <1>1, Appending
<1>3. DOMAIN history = 1 .. Len(history) /\ DOMAIN history' = 1 .. Len(history')
      /\ Len(history) \in Nat
  BY <1>1, <1>2
<1>4. SUFFICES ASSUME NEW i \in 1 .. Len(history') PROVE Written(history'[i])
  BY <1>3 DEF WrittenInv
<1>5. i \in 1 .. Len(history) \/ i = Len(history) + 1
  BY <1>2, <1>3
<1> QED
  BY <1>2, <1>3, <1>5 DEF WrittenInv

LEMMA WrittenInductive ==
  ASSUME TypeInv, DialogueInv, WrittenInv, [Next]_vars
  PROVE  WrittenInv'
<1>1. history \in Seq(Message) /\ uses \in Seq(Call) /\ inbox \in Seq(Waiting)
  BY DEF TypeInv, TypeOK
<1>2. ASSUME UNCHANGED history PROVE WrittenInv'
  BY <1>2 DEF WrittenInv
<1>3. ASSUME TakeUser PROVE WrittenInv'
  <2>1. User(Head(inbox).long) \in Message /\ Written(User(Head(inbox).long))
    BY <1>1, <1>3, UserIsMessage DEF TakeUser, Written
  <2> QED
    BY <1>3, <2>1, WrittenAppend DEF TakeUser, Push
<1>4. CASE RecvFirst \/ Drain
  BY <1>3, <1>4 DEF RecvFirst, Drain
<1>5. CASE Ask
  <2>1. CASE TooLong(history)
    <3>1. history' = Compact(history)
      BY <1>5, <2>1 DEF Ask
    <3>2. PICK head, tail \in 0 .. Len(history) :
            /\ Compact(history) \in Seq(Message)
            /\ Len(Compact(history)) = head + 1 + tail
            /\ \A i \in 1 .. head : Compact(history)[i] = history[i]
            /\ Compact(history)[head + 1] = Marker
            /\ \A i \in 1 .. tail :
                 Compact(history)[head + 1 + i] = history[Len(history) - tail + i]
      BY <1>1, CompactShape
    <3>3. SUFFICES ASSUME NEW i \in 1 .. Len(history') PROVE Written(history'[i])
      <4>1. DOMAIN history' = 1 .. Len(history')
        BY <3>1, <3>2
      <4> QED
        BY <4>1 DEF WrittenInv
    <3>4. Len(history) \in Nat /\ DOMAIN history = 1 .. Len(history)
      BY <1>1
    <3>5. CASE i \in 1 .. head
      BY <3>1, <3>2, <3>4, <3>5 DEF WrittenInv
    <3>6. CASE i = head + 1
      BY <3>1, <3>2, <3>6 DEF Marker, Written
    <3>7. CASE i > head + 1
      <4> DEFINE k == i - (head + 1)
      <4>1. k \in 1 .. tail /\ i = head + 1 + k /\ Len(history) - tail + k \in 1 .. Len(history)
        BY <3>1, <3>2, <3>4, <3>7
      <4> HIDE DEF k
      <4> QED
        BY <3>1, <3>2, <3>4, <4>1 DEF WrittenInv
    <3> QED
      BY <3>1, <3>2, <3>5, <3>6, <3>7
  <2>2. CASE ~TooLong(history)
    BY <1>2, <1>5, <2>2 DEF Ask
  <2> QED
    BY <2>1, <2>2
<1>6. CASE StreamEnds
  <2>1. Text \in Message /\ Written(Text)
    BY DEF Text, Message, Role, Written
  <2> QED
    BY <1>2, <1>6, <2>1, WrittenAppend DEF StreamEnds, Push
<1>7. CASE PushUses
  <2>1. Uses(uses) \in Message /\ Written(Uses(uses))
    BY <1>1 DEF Uses, Message, Role, Written
  <2> QED
    BY <1>2, <1>7, <2>1, WrittenAppend DEF PushUses, Push
<1>8. CASE PushResults
  <2>1. uses # <<>>
    BY <1>8 DEF PushResults, DialogueInv
  <2>2. Results(uses) \in Message /\ Written(Results(uses))
    BY <1>1, <2>1 DEF Results, Message, Role, Written
  <2> QED
    BY <1>8, <2>2, WrittenAppend DEF PushResults, Push
<1>9. CASE Send \/ Cancel \/ RecvClosed \/ StopCancelled \/ StopAtLimit \/ ChunkText
             \/ ChunkCall \/ ChunkError \/ ChunkCancelled
  BY <1>2, <1>9 DEF Send, Cancel, RecvClosed, StopCancelled, StopAtLimit, ChunkText,
     ChunkCall, ChunkError, ChunkCancelled
<1>10. CASE DenyCall \/ AllowCall \/ AskUser \/ Allowed \/ Refused \/ RunTool \/ NoSuchTool
  BY <1>2, <1>10
     DEF DenyCall, AllowCall, AskUser, Allowed, Refused, RunTool, NoSuchTool, EndCall
<1>11. CASE DrainDone \/ Finish \/ Exit
  BY <1>2, <1>11 DEF DrainDone, Finish, Exit
<1>12. CASE UNCHANGED vars
  BY <1>2, <1>12 DEF vars
<1> QED
  BY <1>4, <1>5, <1>6, <1>7, <1>8, <1>9, <1>10, <1>11, <1>12 DEF Next, Step

\* A message of the history as the providers are given it.
Shown(m) == [role |-> IF m.role = "marker" THEN "user" ELSE m.role, blocks |-> Blocks(m)]

LEMMA ShownIsShaped ==
  ASSUME NEW m \in Message, Written(m)
  PROVE  /\ Shaped(Shown(m))
         /\ OfUses(Shown(m)) <=> HasUses(m)
         /\ m.calls # <<>> =>
              /\ Len(Blocks(m)) = Len(m.calls)
              /\ \A j \in 1 .. Len(m.calls) :
                   Blocks(m)[j] = [type |-> IF m.role = "tool" THEN "result" ELSE "use",
                                   id |-> m.calls[j]]
<1>1. /\ m.role \in {"user", "marker", "assistant", "tool"} /\ m.calls \in Seq(Call)
      /\ Shown(m).role = IF m.role = "marker" THEN "user" ELSE m.role
      /\ Shown(m).blocks = Blocks(m)
  BY DEF Message, Role, Shown
<1>2. CASE m.calls = <<>>
  <2>1. Blocks(m) = <<TextBlock>> /\ m.role # "tool"
    BY <1>2 DEF Blocks, Written
  <2>2. <<TextBlock>> \in Seq(Block) /\ <<TextBlock>>[1].type = "text" /\ Len(<<TextBlock>>) = 1
    BY DEF TextBlock, Block
  <2>3. OfText(Shown(m))
    BY <1>1, <2>1 DEF OfText
  <2>4. ~OfUses(Shown(m))
    BY <1>1, <2>1, <2>2 DEF OfUses, AllOf
  <2> QED
    BY <1>1, <1>2, <2>1, <2>2, <2>3, <2>4 DEF Shaped, HasUses
<1>3. CASE m.calls # <<>>
  <2> DEFINE kind == IF m.role = "tool" THEN "result" ELSE "use"
             n == Len(m.calls)
  <2>1. n \in Nat \ {0} /\ DOMAIN m.calls = 1 .. n /\ \A j \in 1 .. n : m.calls[j] \in Nat
    BY <1>1, <1>3 DEF Call
  <2>2. Blocks(m) = [j \in 1 .. n |-> [type |-> kind, id |-> m.calls[j]]]
    BY <1>3, <2>1 DEF Blocks
  <2>3. \A j \in 1 .. n : [type |-> kind, id |-> m.calls[j]] \in Block
    BY <2>1 DEF Block
  <2> HIDE DEF kind
  <2>4. /\ Blocks(m) \in Seq(Block) /\ Len(Blocks(m)) = n
        /\ \A j \in 1 .. n : Blocks(m)[j] = [type |-> kind, id |-> m.calls[j]]
    BY <2>1, <2>2, <2>3
  <2>5. Blocks(m) # <<>> /\ AllOf(Blocks(m), {kind}) /\ m.role \in {"assistant", "tool"}
    <3>1. Blocks(m) # <<>>
      BY <2>1, <2>4
    <3>2. AllOf(Blocks(m), {kind})
      <4> HIDE DEF n
      <4>1. ASSUME NEW j \in 1 .. n PROVE Blocks(m)[j].type = kind
        <5>1. Blocks(m)[j] = [type |-> kind, id |-> m.calls[j]]
          BY <2>4, Zenon
        <5> QED
          BY <5>1
      <4> QED
        BY <2>4, <4>1 DEF AllOf
    <3>3. m.role \in {"assistant", "tool"}
      BY <1>1, <1>3 DEF Written
    <3> QED
      BY <3>1, <3>2, <3>3
  <2>6. CASE m.role = "assistant"
    <3>1. OfUses(Shown(m)) /\ HasUses(m)
      BY <1>1, <1>3, <2>5, <2>6 DEF OfUses, HasUses, kind
    <3> QED
      BY <1>1, <2>4, <3>1 DEF Shaped, kind
  <2>7. CASE m.role = "tool"
    <3>1. OfResults(Shown(m)) /\ ~OfUses(Shown(m)) /\ ~HasUses(m)
      BY <1>1, <2>5, <2>7 DEF OfResults, OfUses, HasUses, kind
    <3> QED
      BY <1>1, <2>4, <3>1 DEF Shaped, kind
  <2> QED
    BY <2>5, <2>6, <2>7
<1> QED
  BY <1>2, <1>3

\* A body made of what tells each message of a dialogue has each of its blocks.
LEMMA BodyTells ==
  ASSUME NEW n \in Nat, NEW d, DOMAIN d = 1 .. n,
         NEW parts, DOMAIN parts = 1 .. n, parts = [i \in 1 .. n |-> parts[i]],
         \A i \in 1 .. n : Tells(parts[i], d[i])
  PROVE  /\ FlattenSeq(parts) \in Seq(Fit)
         /\ Carried(FlattenSeq(parts)) = FlattenSeq([i \in DOMAIN d |-> d[i].blocks])
<1>1. Carriers(Fit, Block)
  BY DEF Carriers, Fit
<1>2. parts \in [1 .. n -> Seq(Fit)]
  BY DEF Tells
<1>3. parts \in Seq(Seq(Fit)) /\ Len(parts) = n
  BY <1>2
<1>4. FlattenSeq(parts) \in Seq(Fit)
  <2>1. PICK f \in [0 .. Len(parts) -> Seq(Fit)] : FlattenSeq(parts) = f[Len(parts)]
    BY <1>3, Flattening
  <2> QED
    BY <1>3, <2>1
<1>5. [i \in DOMAIN parts |-> Carried(parts[i])] = [i \in DOMAIN d |-> d[i].blocks]
  BY DEF Tells
<1>6. Carried(FlattenSeq(parts)) = FlattenSeq([i \in DOMAIN parts |-> Carried(parts[i])])
  BY <1>1, <1>3, CarriedFlat
<1> QED
  BY <1>4, <1>5, <1>6, Zenon

LEMMA DialogueIsShaped ==
  ASSUME TypeInv, WrittenInv
  PROVE  /\ Len(history) \in Nat /\ DOMAIN history = 1 .. Len(history)
         /\ Dialogue = [i \in 1 .. Len(history) |-> Shown(history[i])]
         /\ \A i \in 1 .. Len(history) :
              /\ history[i] \in Message /\ Written(history[i])
              /\ Dialogue[i] = Shown(history[i]) /\ Shaped(Dialogue[i])
<1>1. history \in Seq(Message)
  BY DEF TypeInv, TypeOK
<1>2. Len(history) \in Nat /\ DOMAIN history = 1 .. Len(history)
  BY <1>1
<1>3. Dialogue = [i \in 1 .. Len(history) |-> Shown(history[i])]
  BY <1>2 DEF Dialogue, Shown
<1>4. ASSUME NEW i \in 1 .. Len(history)
      PROVE  /\ history[i] \in Message /\ Written(history[i])
             /\ Dialogue[i] = Shown(history[i]) /\ Shaped(Dialogue[i])
  <2>1. history[i] \in Message /\ Written(history[i])
    BY <1>1, <1>2 DEF WrittenInv
  <2>2. Dialogue[i] = Shown(history[i])
    BY <1>3
  <2> QED
    BY <2>1, <2>2, ShownIsShaped
<1> QED
  BY <1>2, <1>3, <1>4

LEMMA TailOfOne ==
  ASSUME NEW T, NEW x \in T, NEW s \in Seq(T)
  PROVE  Tail(<<x>> \o s) = s
<1> DEFINE xs == <<x>> \o s
           t == Tail(xs)
<1>1. /\ xs \in Seq(T) /\ Len(xs) = Len(s) + 1 /\ Len(s) \in Nat
      /\ \A i \in 1 .. Len(s) : xs[i + 1] = s[i]
  OBVIOUS
<1> HIDE DEF xs
<1>2. t \in Seq(T) /\ Len(t) = Len(s) /\ \A i \in 1 .. Len(s) : t[i] = xs[i + 1]
  BY <1>1
<1> HIDE DEF t
<1>3. t = s
  BY <1>1, <1>2, SeqEqual
<1> QED
  BY <1>3, Zenon DEF t, xs

LEMMA BlocksOnce ==
  ASSUME TypeInv, WrittenInv
  PROVE  EveryBlockOnce
<1> DEFINE d == Dialogue
           n == Len(history)
           all == FlattenSeq([i \in DOMAIN d |-> d[i].blocks])
           Whole(body) == body \in Seq(Fit) /\ Carried(body) = all
<1>1. n \in Nat /\ DOMAIN d = 1 .. n /\ \A i \in 1 .. n : Shaped(d[i])
  BY DialogueIsShaped
<1> HIDE DEF d
<1>2. Whole(FlattenSeq([i \in DOMAIN d |-> OpenaiMessages(d[i])]))
  <2> DEFINE parts == [i \in DOMAIN d |-> OpenaiMessages(d[i])]
  <2>1. \A i \in 1 .. n : parts[i] = OpenaiMessages(d[i])
    BY <1>1
  <2>2. \A i \in 1 .. n : Tells(parts[i], d[i])
    BY <1>1, <2>1, OpenaiTells
  <2>3. DOMAIN parts = 1 .. n /\ parts = [i \in 1 .. n |-> parts[i]]
    BY <1>1
  <2> HIDE DEF parts, n
  <2>4. Whole(FlattenSeq(parts))
    BY <1>1, <2>2, <2>3, BodyTells
  <2> QED
    BY <2>4, Zenon DEF parts
<1>3. Whole(FlattenSeq([i \in DOMAIN d |-> AnthropicMessages(d[i])]))
  <2> DEFINE parts == [i \in DOMAIN d |-> AnthropicMessages(d[i])]
  <2>1. \A i \in 1 .. n : parts[i] = AnthropicMessages(d[i])
    BY <1>1
  <2>2. \A i \in 1 .. n : Tells(parts[i], d[i])
    BY <1>1, <2>1, AnthropicTells
  <2>3. DOMAIN parts = 1 .. n /\ parts = [i \in 1 .. n |-> parts[i]]
    BY <1>1
  <2> HIDE DEF parts, n
  <2>4. Whole(FlattenSeq(parts))
    BY <1>1, <2>2, <2>3, BodyTells
  <2> QED
    BY <2>4, Zenon DEF parts
<1>4. Whole(FlattenSeq([i \in DOMAIN d |-> ResponsesItems(d[i])]))
  <2> DEFINE parts == [i \in DOMAIN d |-> ResponsesItems(d[i])]
  <2>1. \A i \in 1 .. n : parts[i] = ResponsesItems(d[i])
    BY <1>1
  <2>2. \A i \in 1 .. n : Tells(parts[i], d[i])
    BY <1>1, <2>1, ResponsesTell
  <2>3. DOMAIN parts = 1 .. n /\ parts = [i \in 1 .. n |-> parts[i]]
    BY <1>1
  <2> HIDE DEF parts, n
  <2>4. Whole(FlattenSeq(parts))
    BY <1>1, <2>2, <2>3, BodyTells
  <2> QED
    BY <2>4, Zenon DEF parts
<1>5. Tail(OpenaiBody(d)) = FlattenSeq([i \in DOMAIN d |-> OpenaiMessages(d[i])])
  <2> DEFINE s == FlattenSeq([i \in DOMAIN d |-> OpenaiMessages(d[i])])
             x == Request("system", <<TextBlock>>)
  <2>1. s \in Seq(Fit)
    BY <1>2, Zenon
  <2> HIDE DEF s, x
  <2>2. s \in Seq(Fit \cup {x}) /\ x \in Fit \cup {x}
    BY <2>1
  <2>3. Tail(<<x>> \o s) = s
    BY <2>2, TailOfOne
  <2> QED
    BY <2>3, Zenon DEF OpenaiBody, s, x
<1>6. ASSUME NEW body, Whole(body)
      PROVE  Carried(body) = all /\ \A i \in DOMAIN body : RoleFits(body[i])
  <2>1. body \in Seq(Fit)
    BY <1>6, Zenon
  <2>2. \A i \in DOMAIN body : body[i] \in Fit
    BY <2>1
  <2> QED
    BY <1>6, <2>2, Zenon DEF Fit
<1>7. /\ Whole(Tail(OpenaiBody(d))) /\ Whole(AnthropicBody(d)) /\ Whole(ResponsesBody(d))
  <2> HIDE DEF Whole
  <2> QED
    BY <1>2, <1>3, <1>4, <1>5, Zenon DEF AnthropicBody, ResponsesBody
<1> HIDE DEF Whole, all
<1>8. \A body \in {Tail(OpenaiBody(d)), AnthropicBody(d), ResponsesBody(d)} : Whole(body)
  BY <1>7, Zenon
<1>9. \A body \in {Tail(OpenaiBody(d)), AnthropicBody(d), ResponsesBody(d)} :
        Carried(body) = all /\ \A i \in DOMAIN body : RoleFits(body[i])
  BY <1>6, <1>8, Zenon
<1> QED
  BY <1>9, Zenon DEF EveryBlockOnce, all, d

\* With Anthropic a message of the dialogue is a message of the request.
LEMMA ResultsTogether ==
  ASSUME TypeInv, WrittenInv, ResultsFollow(history), UsesPrecede(history, Len(history))
  PROVE  AnthropicResultsTogether
<1> DEFINE n == Len(history)
           body == AnthropicBody(Dialogue)
           s == [i \in 1 .. n |-> AnthropicMessage(Dialogue[i])]
<1>1. /\ n \in Nat /\ DOMAIN history = 1 .. n /\ DOMAIN Dialogue = 1 .. n
      /\ \A i \in 1 .. n : /\ history[i] \in Message /\ Written(history[i])
                           /\ Dialogue[i] = Shown(history[i]) /\ Shaped(Dialogue[i])
  BY DialogueIsShaped
<1>2. s \in Seq(Fit) /\ DOMAIN s = 1 .. n /\ Len(s) = n
  <2>1. \A i \in 1 .. n : AnthropicMessage(Dialogue[i]) \in Fit
    BY <1>1, AnthropicTells
  <2> QED
    BY <1>1, <2>1
<1>3. body = s
  <2>1. \A i \in 1 .. n : AnthropicMessages(Dialogue[i]) = <<s[i]>>
    BY <1>1, AnthropicTells
  <2>2. [i \in DOMAIN Dialogue |-> AnthropicMessages(Dialogue[i])]
          = [i \in DOMAIN s |-> <<s[i]>>]
    BY <1>1, <1>2, <2>1
  <2> HIDE DEF s
  <2>3. FlattenSeq([i \in DOMAIN s |-> <<s[i]>>]) = s
    BY <1>2, FlattenSingles
  <2> QED
    BY <2>2, <2>3, Zenon DEF AnthropicBody
<1>4. \A i \in 1 .. n : s[i].blocks = Blocks(history[i])
  BY <1>1 DEF AnthropicMessage, Request, Shown
<1> HIDE DEF s
<1>5. ASSUME NEW i \in 1 .. n, Carries(s[i], "use")
      PROVE  /\ i < n
             /\ \/ /\ Len(s[i + 1].blocks) = Len(s[i].blocks)
                   /\ \A j \in DOMAIN s[i].blocks :
                        s[i + 1].blocks[j] = [type |-> "result", id |-> s[i].blocks[j].id]
                \/ history[i + 1].role = "marker"
  <2> DEFINE m == history[i]
  <2>1. m \in Message /\ Written(m) /\ s[i].blocks = Blocks(m)
    BY <1>1, <1>4
  <2>2. HasUses(m)
    <3>1. Blocks(m) # <<>> /\ \A j \in DOMAIN Blocks(m) : Blocks(m)[j].type = "use"
      BY <1>5, <2>1 DEF Carries
    <3>2. CASE m.calls = <<>>
      <4>1. Blocks(m) = <<TextBlock>> /\ 1 \in DOMAIN <<TextBlock>>
        BY <3>2 DEF Blocks
      <4> QED
        BY <3>1, <4>1 DEF TextBlock
    <3>3. CASE m.calls # <<>>
      <4>1. m.calls \in Seq(Call) /\ Len(Blocks(m)) = Len(m.calls)
            /\ \A j \in 1 .. Len(m.calls) :
                 Blocks(m)[j] = [type |-> IF m.role = "tool" THEN "result" ELSE "use",
                                 id |-> m.calls[j]]
        BY <2>1, <3>3, ShownIsShaped DEF Message
      <4>2. 1 \in 1 .. Len(m.calls)
        BY <3>3, <4>1
      <4>3. 1 \in DOMAIN Blocks(m)
        BY <3>3, <4>2 DEF Blocks
      <4>4. m.role # "tool"
        <5>1. Blocks(m)[1].type = "use"
          BY <3>1, <4>3, Zenon
        <5>2. Blocks(m)[1] = [type |-> IF m.role = "tool" THEN "result" ELSE "use",
                              id |-> m.calls[1]]
          BY <4>1, <4>2, Zenon
        <5>3. Blocks(m)[1].type = IF m.role = "tool" THEN "result" ELSE "use"
          BY <5>2
        <5> QED
          BY <5>1, <5>3
      <4> QED
        BY <2>1, <3>3, <4>4 DEF HasUses, Message, Role, Written
    <3> QED
      BY <3>2, <3>3
  <2>3. Precedes(history, i) \/ (i < n /\ history[i + 1].role = "marker")
    BY <2>2 DEF UsesPrecede
  <2>4. CASE Precedes(history, i)
    <3> DEFINE r == history[i + 1]
    <3>1. i < n /\ i + 1 \in 1 .. n /\ r.role = "tool" /\ r.calls = m.calls
      BY <1>1, <2>4 DEF Precedes, HasResults
    <3>2. r \in Message /\ Written(r) /\ s[i + 1].blocks = Blocks(r)
      BY <1>1, <1>4, <3>1
    <3>3. m.role = "assistant" /\ m.calls # <<>>
      BY <2>2 DEF HasUses
    <3>4. /\ m.calls \in Seq(Call) /\ Len(Blocks(m)) = Len(m.calls)
          /\ \A j \in 1 .. Len(m.calls) : Blocks(m)[j] = [type |-> "use", id |-> m.calls[j]]
      BY <2>1, <3>3, ShownIsShaped DEF Message
    <3>5. /\ Len(Blocks(r)) = Len(m.calls)
          /\ \A j \in 1 .. Len(m.calls) : Blocks(r)[j] = [type |-> "result", id |-> m.calls[j]]
      BY <3>1, <3>2, <3>3, ShownIsShaped
    <3>6. DOMAIN Blocks(m) = 1 .. Len(m.calls)
      BY <3>3, <3>4 DEF Blocks
    <3> HIDE DEF m, r
    <3>7. ASSUME NEW j \in DOMAIN Blocks(m)
          PROVE  Blocks(r)[j] = [type |-> "result", id |-> Blocks(m)[j].id]
      <4>1. /\ Blocks(m)[j] = [type |-> "use", id |-> m.calls[j]]
            /\ Blocks(r)[j] = [type |-> "result", id |-> m.calls[j]]
        BY <3>4, <3>5, <3>6, Zenon
      <4>2. Blocks(m)[j].id = m.calls[j]
        BY <4>1
      <4> QED
        BY <4>1, <4>2, Zenon
    <3> QED
      BY <2>1, <3>1, <3>2, <3>4, <3>5, <3>7
  <2>5. CASE i < n /\ history[i + 1].role = "marker"
    BY <2>5
  <2> QED
    BY <2>3, <2>4, <2>5
<1>6. Len(body) = n /\ DOMAIN body = 1 .. n
  BY <1>2, <1>3
<1> HIDE DEF body
<1> QED
  BY <1>3, <1>5, <1>6 DEF AnthropicResultsTogether, body

\* RequestCarriesDialogue for any bounds and any threshold: whatever has happened to
\* the dialogue, steered, compacted or interrupted, each of the three providers is
\* told every block of it once and in order, none under another's role, and
\* Anthropic is told all the results of a turn in the message after its calls.
THEOREM RequestsCarryDialogue == Spec => []RequestCarriesDialogue
<1>1. Init => DialogueInv /\ WrittenInv
  BY DEF Init, DialogueInv, InTurn, ResultsFollow, UsesPrecede, OpensWithUser, WrittenInv
<1>2. TypeInv /\ DialogueInv /\ [Next]_vars => DialogueInv'
  BY DialogueInductive
<1>3. TypeInv /\ DialogueInv /\ WrittenInv /\ [Next]_vars => WrittenInv'
  BY WrittenInductive
<1>4. TypeInv /\ DialogueInv /\ WrittenInv => RequestCarriesDialogue
  <2> SUFFICES ASSUME TypeInv, DialogueInv, WrittenInv, place = "stream"
               PROVE  EveryBlockOnce /\ AnthropicResultsTogether
    BY DEF RequestCarriesDialogue, Asking
  <2>1. ResultsFollow(history) /\ UsesPrecede(history, Len(history))
    BY DEF DialogueInv
  <2> QED
    BY <2>1, BlocksOnce, ResultsTogether
<1> QED
  BY <1>1, <1>2, <1>3, <1>4, TypeCorrect, PTL DEF Spec
-------------------------------------------------------------------------------
(* The messages of users. *)

\* Between two turns every message in the inbox has come since the last drain.
WaitInv ==
  \A i \in DOMAIN inbox :
    /\ turns <= inbox[i].turn
    /\ place \in {"recv", "top"} => turns < inbox[i].turn

Users(q) == {i \in DOMAIN q : q[i].role = "user"}
CountInv == lost = 0 => Cardinality(Users(stored)) + Len(inbox) = sent

LEMMA UsersAppend ==
  ASSUME NEW q \in Seq(Message), NEW m \in Message
  PROVE  /\ Cardinality(Users(q)) \in Nat
         /\ Cardinality(Users(Append(q, m))) =
              Cardinality(Users(q)) + IF m.role = "user" THEN 1 ELSE 0
<1> DEFINE n == Len(q)
<1>1. n \in Nat /\ DOMAIN q = 1 .. n /\ DOMAIN Append(q, m) = 1 .. (n + 1)
      /\ \A i \in 1 .. n : Append(q, m)[i] = q[i]
      /\ Append(q, m)[n + 1] = m
  BY Appending
<1>2. IsFiniteSet(Users(q))
  <2>1. IsFiniteSet(1 .. n) /\ Users(q) \subseteq 1 .. n
    BY <1>1, FS_Interval DEF Users
  <2> QED
    BY <2>1, FS_Subset
<1>3. Cardinality(Users(q)) \in Nat
  BY <1>2, FS_CardinalityType
<1>4. n + 1 \notin Users(q)
  BY <1>1 DEF Users
<1>5. Users(Append(q, m)) = IF m.role = "user" THEN Users(q) \cup {n + 1} ELSE Users(q)
  <2> HIDE DEF n
  <2> QED
    BY <1>1 DEF Users
<1>6. Cardinality(Users(q) \cup {n + 1}) = Cardinality(Users(q)) + 1
  BY <1>2, <1>4, FS_AddElement
<1> HIDE DEF n
<1> QED
  BY <1>3, <1>5, <1>6

\* What a step that takes no message does to the count.
LEMMA CountKeeps ==
  ASSUME TypeInv, CountInv, UNCHANGED <<inbox, sent>>,
         \/ UNCHANGED stored /\ (UNCHANGED lost \/ WriteFails)
         \/ \E m \in Message : m.role # "user" /\ Push(m)
  PROVE  CountInv'
<1>1. stored \in Seq(Message) /\ lost \in Nat
  BY BoundAssumption DEF TypeInv, TypeOK
<1>2. CASE UNCHANGED stored /\ (UNCHANGED lost \/ WriteFails)
  BY <1>1, <1>2 DEF CountInv, WriteFails
<1>3. ASSUME NEW m \in Message, m.role # "user", Push(m)
      PROVE  CountInv'
  <2>1. CASE stored' = Append(stored, m) /\ UNCHANGED lost
    <3>1. Cardinality(Users(stored')) = Cardinality(Users(stored))
      BY <1>1, <1>3, <2>1, UsersAppend
    <3> QED
      BY <2>1, <3>1 DEF CountInv
  <2>2. CASE WriteFails
    BY <1>1, <2>2 DEF CountInv, WriteFails
  <2> QED
    BY <1>3, <2>1, <2>2 DEF Push
<1> QED
  BY <1>2, <1>3

LEMMA TakeUserKeeps ==
  ASSUME TypeInv, CountInv, WaitInv, TakeUser, UNCHANGED <<sent, turns>>,
         place' \in {"recv", "top"} => place \in {"recv", "top"}
  PROVE  CountInv' /\ WaitInv'
<1>1. /\ inbox \in Seq(Waiting) /\ inbox # <<>> /\ inbox' = Tail(inbox)
      /\ stored \in Seq(Message) /\ lost \in Nat /\ sent \in Nat
  BY BoundAssumption DEF TypeInv, TypeOK, TakeUser
<1>2. /\ Len(inbox) \in Nat /\ Len(inbox') = Len(inbox) - 1
      /\ \A i \in DOMAIN inbox' : i + 1 \in DOMAIN inbox /\ inbox'[i] = inbox[i + 1]
  BY <1>1
<1>3. WaitInv'
  BY <1>2 DEF WaitInv
<1> DEFINE m == User(Head(inbox).long)
<1>4. m \in Message /\ m.role = "user" /\ Push(m)
  BY <1>1, UserIsMessage DEF TakeUser
<1> HIDE DEF m
<1>5. CASE stored' = Append(stored, m) /\ UNCHANGED lost
  <2>1. /\ Cardinality(Users(stored')) = Cardinality(Users(stored)) + 1
        /\ Cardinality(Users(stored)) \in Nat
    BY <1>1, <1>4, <1>5, UsersAppend
  <2> QED
    BY <1>1, <1>2, <1>3, <1>5, <2>1 DEF CountInv
<1>6. CASE WriteFails
  BY <1>1, <1>3, <1>6 DEF CountInv, WriteFails
<1> QED
  BY <1>4, <1>5, <1>6 DEF Push

LEMMA WaitInductive ==
  ASSUME TypeInv, CountInv, WaitInv, [Next]_vars
  PROVE  CountInv' /\ WaitInv'
<1> USE DEF turnVars, endVars
<1>0. inbox \in Seq(Waiting) /\ turns \in Nat /\ sent \in Nat /\ stored \in Seq(Message)
      /\ uses \in Seq(Call) /\ MaxTurns \in Nat
  BY BoundAssumption DEF TypeInv, TypeOK
<1>1. CASE Send
  <2>1. PICK m \in Waiting :
          /\ inbox' = Append(inbox, m)
          /\ m.turn = IF place \in {"recv", "top"} THEN turns + 1 ELSE turns
    BY <1>1, SentIsWaiting
  <2>2. /\ Len(inbox') = Len(inbox) + 1 /\ Len(inbox) \in Nat
        /\ DOMAIN inbox' = 1 .. Len(inbox') /\ DOMAIN inbox = 1 .. Len(inbox)
        /\ \A i \in 1 .. Len(inbox) : inbox'[i] = inbox[i]
        /\ inbox'[Len(inbox) + 1] = m
    BY <1>0, <2>1, Appending
  <2>3. sent' = sent + 1 /\ UNCHANGED <<place, turns, stored, lost>>
    BY <1>1 DEF Send
  <2>4. Cardinality(Users(stored)) \in Nat
    <3>1. User(FALSE) \in Message
      BY DEF User, Message, Role
    <3> QED
      BY <1>0, <3>1, UsersAppend
  <2>5. CountInv'
    BY <1>0, <2>2, <2>3, <2>4 DEF CountInv
  <2>6. ASSUME NEW i \in DOMAIN inbox'
        PROVE  /\ turns' <= inbox'[i].turn
               /\ place' \in {"recv", "top"} => turns' < inbox'[i].turn
    <3>1. i \in 1 .. Len(inbox) \/ i = Len(inbox) + 1
      BY <2>2
    <3> QED
      BY <1>0, <2>1, <2>2, <2>3, <3>1 DEF WaitInv
  <2> QED
    BY <2>5, <2>6 DEF WaitInv
<1>2. CASE RecvFirst \/ Drain
  BY <1>2, TakeUserKeeps DEF RecvFirst, Drain
\* A step after which no turn has begun and none of those is over.
<1>3. ASSUME UNCHANGED <<inbox, turns>>, place' = "top" => place \in {"recv", "top"} \/ inbox = <<>>,
             place' # "recv" \/ place = "recv"
      PROVE  WaitInv'
  BY <1>3 DEF WaitInv
<1>4. CASE Cancel \/ RecvClosed \/ StopCancelled \/ ChunkText \/ ChunkCall \/ ChunkError
           \/ ChunkCancelled \/ AllowCall \/ AskUser \/ Allowed \/ NoSuchTool \/ DrainDone
           \/ Finish \/ UNCHANGED vars
  <2>1. UNCHANGED <<inbox, sent, turns, stored, lost>>
    BY <1>4 DEF Cancel, RecvClosed, StopCancelled, ChunkText, ChunkCall, ChunkError,
       ChunkCancelled, AllowCall, AskUser, Allowed, NoSuchTool, DrainDone, Finish, vars
  <2>2. WaitInv'
    BY <1>3, <1>4, <2>1 DEF Cancel, RecvClosed, StopCancelled, ChunkText, ChunkCall, ChunkError,
       ChunkCancelled, AllowCall, AskUser, Allowed, NoSuchTool, DrainDone, Finish, vars
  <2> QED
    BY <2>1, <2>2, CountKeeps
\* A turn begins, or one too many is refused.
<1>5. CASE Ask \/ StopAtLimit
  <2>1. /\ UNCHANGED <<inbox, sent, stored, lost>> /\ turns' = turns + 1
        /\ place = "top" /\ place' \notin {"recv", "top"}
    BY <1>5 DEF Ask, StopAtLimit
  <2>2. ASSUME NEW i \in DOMAIN inbox PROVE turns + 1 <= inbox[i].turn
    <3>1. inbox[i] \in Waiting /\ turns < inbox[i].turn
      BY <1>0, <2>1 DEF WaitInv
    <3>2. inbox[i].turn \in Nat
      BY <3>1 DEF Waiting
    <3> QED
      BY <1>0, <3>1, <3>2
  <2> QED
    BY <2>1, <2>2, CountKeeps DEF WaitInv
\* An answer, the calls or their results are written.
<1>6. CASE StreamEnds \/ PushUses \/ PushResults
  <2>1. \A m \in {Text, Uses(uses), Results(uses)} : m \in Message /\ m.role # "user"
    <3>1. <<>> \in Seq(Call)
      OBVIOUS
    <3>2. Text \in Message /\ Text.role # "user"
      BY <3>1 DEF Text, Message, Role
    <3>3. Uses(uses) \in Message /\ Uses(uses).role # "user"
      BY <1>0 DEF Uses, Message, Role
    <3>4. Results(uses) \in Message /\ Results(uses).role # "user"
      BY <1>0 DEF Results, Message, Role
    <3> QED
      BY <3>2, <3>3, <3>4
  <2>2. /\ UNCHANGED <<inbox, sent, turns>> /\ place' \notin {"recv", "top"}
        /\ \/ UNCHANGED <<stored, lost>>
           \/ \E m \in {Text, Uses(uses), Results(uses)} : Push(m)
    BY <1>6 DEF StreamEnds, PushUses, PushResults
  <2> QED
    BY <1>3, <2>1, <2>2, CountKeeps
\* A row is written.
<1>7. CASE DenyCall \/ Refused \/ RunTool \/ Exit
  <2>1. /\ UNCHANGED <<inbox, sent, turns, stored>> /\ (UNCHANGED lost \/ WriteFails)
        /\ place' \notin {"recv", "top"}
    BY <1>7 DEF DenyCall, Refused, RunTool, EndCall, Exit, Upsert
  <2> QED
    BY <1>3, <2>1, CountKeeps
<1> QED
  BY <1>1, <1>2, <1>4, <1>5, <1>6, <1>7 DEF Next, Step

\* MessagesAreTaken for any number of messages, turns and calls: who steers an agent is
\* read at the end of the turn under way, and written down.
THEOREM MessagesStayTaken == Spec => []MessagesAreTaken
<1>1. Init => CountInv /\ WaitInv
  <2>1. Users(<<>>) = {}
    BY DEF Users
  <2>2. Cardinality({}) = 0
    BY FS_EmptySet
  <2> SUFFICES ASSUME Init PROVE CountInv /\ WaitInv
    OBVIOUS
  <2>3. stored = <<>> /\ inbox = <<>> /\ sent = 0 /\ Len(inbox) = 0 /\ DOMAIN inbox = {}
    BY DEF Init
  <2>4. Cardinality(Users(stored)) = 0
    BY <2>1, <2>2, <2>3
  <2> QED
    BY <2>3, <2>4 DEF CountInv, WaitInv
<1>2. TypeInv /\ CountInv /\ WaitInv /\ [Next]_vars => CountInv' /\ WaitInv'
  BY WaitInductive
<1>3. CountInv /\ WaitInv => MessagesAreTaken
  BY DEF CountInv, WaitInv, Users, MessagesAreTaken
<1> QED
  BY <1>1, <1>2, <1>3, TypeCorrect, PTL DEF Spec
===============================================================================
