---------------------------- MODULE PendingAnswers ----------------------------
(***************************************************************************)
(* Agents that wait for a user (runtime/src/pending.rs): a tool call whose *)
(* Decision is Ask waits up to 60 s for a PermissionAnswer (agent_loop.rs),*)
(* the ask_user tool up to 120 s for a UserInputAnswer (tools/ask_user.rs).*)
(* Both put the sender of a oneshot channel into a registry shared by all  *)
(* agents, under an id; permission requests are told to the clients BEFORE *)
(* the id is registered, questions after.  A client (tui/src/app.rs, lib.  *)
(* rs) reads the event stream, holds ONE pending permission request, and   *)
(* answers it fire-and-forget; the daemon resolves the answer by id.       *)
(*                                                                         *)
(* A call is one waiting: a permission request or a question.  The calls   *)
(* run in agents of their own, concurrently; an agent that waits does not  *)
(* look at its cancellation token.                                         *)
(***************************************************************************)
EXTENDS Naturals, Sequences, FiniteSets

CONSTANTS
  Permission,   \* the tool calls that need permission
  Question,     \* the calls of ask_user
  Id,           \* Id[c]: call_id the provider chose, or the Uuid of ask_user
  Client,       \* the attached clients
  MaxAsked,     \* bound: so many of the calls are made
  None

Call == Permission \cup Question
Ids == {Id[c] : c \in Call}

ASSUME CallAssumption == Permission \cap Question = {} /\ None \notin Call
ASSUME MaxAskedAssumption == MaxAsked \in Nat
ASSUME IdAssumption ==
  /\ DOMAIN Id = Call
  /\ \A q \in Question : \A c \in Call : Id[q] = Id[c] => q = c

VARIABLES
  place,      \* place[c]: where the waiting of c stands
  registry,   \* registry[i]: the call whose sender is under id i, or None
  value,      \* value[c]: what the oneshot channel of c holds
  stream,     \* the requests in the session's event stream
  seen,       \* seen[k]: how many of them client k has read
  slot,       \* slot[k]: pending_permission of client k
  replies,       \* replies[k]: answers of k on their way to the daemon
  said,       \* ghost: every answer any client gave
  accepted    \* ghost: the answers the daemon replied Ok to

callVars == <<place, registry, value, stream>>
clientVars == <<seen, slot, replies, said>>
answersVars == <<place, registry, value, stream, seen, slot, replies, said, accepted>>

Place == {"idle",
          "announced",   \* told to the clients, not registered (permission)
          "registered",  \* registered, not told to the clients (question)
          "waiting",     \* in timeout(.., rx).await
          "elapsed",     \* the timer has fired, rx is not dropped yet
          "refusing",    \* denied, about to remove its id from the registry
          "expiring",    \* timed out, about to remove its id
          "ran",         \* permission: the tool runs; question: answered
          "refused",     \* denied, or the sender was dropped
          "expired"}     \* timed out

AnswersInit ==
  /\ place = [c \in Call |-> "idle"]
  /\ registry = [i \in Ids |-> None]
  /\ value = [c \in Call |-> "empty"]
  /\ stream = <<>>
  /\ seen = [k \in Client |-> 0]
  /\ slot = [k \in Client |-> None]
  /\ replies = [k \in Client |-> <<>>]
  /\ said = {}
  /\ accepted = {}

\* One more call may be made.
MayCall == Cardinality({c \in Call : place[c] # "idle"}) < MaxAsked

Ended(c) == place[c] \in {"ran", "refused", "expired"}

Goto(c, p) == place' = [place EXCEPT ![c] = p]

-------------------------------------------------------------------------------
(* The registry. *)

\* A sender that is dropped closes its channel, unless a value was sent.
Closed(c) == IF value[c] = "empty" THEN [value EXCEPT ![c] = "closed"] ELSE value

\* register: an entry of the same id is replaced, its sender dropped.
Insert(c) ==
  /\ registry' = [registry EXCEPT ![Id[c]] = c]
  /\ value' = IF registry[Id[c]] = None THEN value ELSE Closed(registry[Id[c]])

\* cancel: the entry of the id, whosever it is, goes.
Remove(i) ==
  /\ registry' = [registry EXCEPT ![i] = None]
  /\ value' = IF registry[i] = None THEN value ELSE Closed(registry[i])

\* The receiver of c's channel exists.
Listening(c) == place[c] \in {"registered", "waiting", "elapsed"}

-------------------------------------------------------------------------------
(* The waiting agents. *)

\* A permission request goes into the event stream, unregistered.
Announce(c) ==
  /\ c \in Permission
  /\ place[c] = "idle"
  /\ MayCall
  /\ Goto(c, "announced")
  /\ stream' = Append(stream, c)
  /\ UNCHANGED <<registry, value, clientVars, accepted>>

\* Its call_id is registered, the wait begins.
Register(c) ==
  /\ place[c] = "announced"
  /\ Goto(c, "waiting")
  /\ Insert(c)
  /\ UNCHANGED <<stream, clientVars, accepted>>

\* ask_user registers first ("нет гонки с ответом") ...
RegisterQuestion(c) ==
  /\ c \in Question
  /\ place[c] = "idle"
  /\ MayCall
  /\ Goto(c, "registered")
  /\ Insert(c)
  /\ UNCHANGED <<stream, clientVars, accepted>>

\* ... and then tells the clients.
AskQuestion(c) ==
  /\ place[c] = "registered"
  /\ Goto(c, "waiting")
  /\ stream' = Append(stream, c)
  /\ UNCHANGED <<registry, value, clientVars, accepted>>

\* The channel holds a value or is closed: the tool runs, or (permission) the
\* id is about to be removed.
ReadAnswer(c) ==
  /\ place[c] = "waiting"
  /\ value[c] # "empty"
  /\ Goto(c, IF value[c] = "allow" THEN "ran"
             ELSE IF c \in Permission THEN "refusing" ELSE "refused")
  /\ UNCHANGED <<registry, value, stream, clientVars, accepted>>

\* Elapse that lets the tool run when nobody answers.
ElapseRuns(c) ==
  /\ place[c] = "waiting"
  /\ value[c] = "empty"
  /\ Goto(c, "ran")
  /\ UNCHANGED <<registry, value, stream, clientVars, accepted>>

\* Only ask_user has a timer.
ElapseQuestion(c) ==
  /\ c \in Question
  /\ place[c] = "waiting"
  /\ value[c] = "empty"
  /\ Goto(c, "elapsed")
  /\ UNCHANGED <<registry, value, stream, clientVars, accepted>>

\* The timer fires before the channel has anything.
Elapse(c) ==
  /\ place[c] = "waiting"
  /\ value[c] = "empty"
  /\ Goto(c, "elapsed")
  /\ UNCHANGED <<registry, value, stream, clientVars, accepted>>

\* The receiver is dropped with the timeout.
DropReceiver(c) ==
  /\ place[c] = "elapsed"
  /\ Goto(c, "expiring")
  /\ UNCHANGED <<registry, value, stream, clientVars, accepted>>

\* pending.cancel(&id), and the call ends.
CleanUp(c) ==
  /\ \/ place[c] = "refusing" /\ Goto(c, "refused")
     \/ place[c] = "expiring" /\ Goto(c, "expired")
  /\ Remove(Id[c])
  /\ UNCHANGED <<stream, clientVars, accepted>>

-------------------------------------------------------------------------------
(* Clients and daemon. *)

\* See that keeps the request it shows when another one comes.
SeeKeepsFirst(k) ==
  /\ seen[k] < Len(stream)
  /\ seen' = [seen EXCEPT ![k] = @ + 1]
  /\ LET c == stream[seen[k] + 1] IN
       slot' = IF c \in Permission /\ slot[k] = None
                 THEN [slot EXCEPT ![k] = c] ELSE slot
  /\ UNCHANGED <<callVars, replies, said, accepted>>

\* Client k reads the next request of the stream: a permission request takes
\* its one slot; the TUI ignores questions.
See(k) ==
  /\ seen[k] < Len(stream)
  /\ seen' = [seen EXCEPT ![k] = @ + 1]
  /\ LET c == stream[seen[k] + 1] IN
       slot' = IF c \in Permission THEN [slot EXCEPT ![k] = c] ELSE slot
  /\ UNCHANGED <<callVars, replies, said, accepted>>

\* The user presses y or n: the slot is emptied, the answer sent.
Answer(k, v) ==
  /\ slot[k] # None
  /\ LET a == [call |-> slot[k], value |-> v, by |-> k] IN
       /\ replies' = [replies EXCEPT ![k] = Append(@, a)]
       /\ said' = said \cup {a}
  /\ slot' = [slot EXCEPT ![k] = None]
  /\ UNCHANGED <<callVars, seen, accepted>>

\* A client answers a question it has been told of (bound: one answer to each).
AnswerQuestion(k, q) ==
  /\ \E i \in 1 .. seen[k] : stream[i] = q
  /\ q \in Question
  /\ LET a == [call |-> q, value |-> "allow", by |-> k] IN
       /\ \A b \in said : b.call # q
       /\ replies' = [replies EXCEPT ![k] = Append(@, a)]
       /\ said' = said \cup {a}
  /\ UNCHANGED <<callVars, seen, slot, accepted>>

\* Resolve that looks the sender up and leaves it in the registry.
ResolveKeeping(k) ==
  /\ replies[k] # <<>>
  /\ LET a == Head(replies[k])
         c == registry[Id[a.call]]
     IN /\ a.call \in Permission
        /\ \/ /\ c # None
              /\ value' = [value EXCEPT ![c] = a.value]
              /\ accepted' = accepted \cup {a}
           \/ /\ c = None
              /\ UNCHANGED <<value, accepted>>
  /\ replies' = [replies EXCEPT ![k] = Tail(@)]
  /\ UNCHANGED <<place, registry, stream, seen, slot, said>>

\* PermissionAnswer: the entry of the id is taken out; Ok if its receiver
\* exists, an error when there is no entry or no receiver.
Resolve(k) ==
  /\ replies[k] # <<>>
  /\ LET a == Head(replies[k])
         c == registry[Id[a.call]]
         taken == c # None /\ Listening(c)
     IN /\ a.call \in Permission
        /\ registry' = [registry EXCEPT ![Id[a.call]] = None]
        /\ \/ /\ taken
              /\ value' = [value EXCEPT ![c] = a.value]
              /\ accepted' = accepted \cup {a}
           \/ /\ ~taken
              /\ UNCHANGED <<value, accepted>>
  /\ replies' = [replies EXCEPT ![k] = Tail(@)]
  /\ UNCHANGED <<place, stream, seen, slot, said>>

\* UserInputAnswer: a stub, replies Ok and does nothing.
IgnoreUserInput(k) ==
  /\ replies[k] # <<>>
  /\ Head(replies[k]).call \in Question
  /\ accepted' = accepted \cup {Head(replies[k])}
  /\ replies' = [replies EXCEPT ![k] = Tail(@)]
  /\ UNCHANGED <<callVars, seen, slot, said>>

-------------------------------------------------------------------------------
WaitStep(c) ==
  \/ Register(c) \/ AskQuestion(c) \/ ReadAnswer(c) \/ Elapse(c)
  \/ DropReceiver(c) \/ CleanUp(c)

ClientStep(k) ==
  \/ See(k)
  \/ \E v \in {"allow", "deny"} : Answer(k, v)
  \/ \E q \in Question : AnswerQuestion(k, q)

DaemonStep(k) == Resolve(k) \/ IgnoreUserInput(k)

AnswersNext ==
  \/ \E c \in Call : Announce(c) \/ RegisterQuestion(c) \/ WaitStep(c)
  \/ \E k \in Client : ClientStep(k) \/ DaemonStep(k)

AnswersSpec == AnswersInit /\ [][AnswersNext]_answersVars

\* The agents' tasks run and their timers fire; users and clients owe nothing.
AnswersAreFair == \A c \in Call : WF_answersVars(WaitStep(c))

FairAnswersSpec == AnswersSpec /\ AnswersAreFair

-------------------------------------------------------------------------------
(* Properties. *)

AnswerRecord == [call : Call, value : {"allow", "deny"}, by : Client]

\* Some user gave call c the answer v.
Said(c, v) == \E k \in Client : [call |-> c, value |-> v, by |-> k] \in said

AnswersTypeOK ==
  /\ place \in [Call -> Place]
  /\ registry \in [Ids -> Call \cup {None}]
  /\ value \in [Call -> {"empty", "allow", "deny", "closed"}]
  /\ stream \in Seq(Call)
  /\ seen \in [Client -> Nat]
  /\ \A k \in Client : seen[k] <= Len(stream)
  /\ slot \in [Client -> Permission \cup {None}]
  /\ replies \in [Client -> Seq(AnswerRecord)]
  /\ said \subseteq AnswerRecord
  /\ accepted \subseteq said

\* A call that ended as allowed was allowed, one that ended as refused was
\* refused, by a user who was answering THIS call (agent_loop.rs 285-296, C1):
\* timeouts, late answers and other agents' answers decide nothing.  And an
\* answer that was accepted is the outcome of its call or came when the timer had
\* fired; it never turns into the opposite ("Доставить решение пользователя",
\* pending.rs 31).  It needs ids that are unique across agents and turns.
DecisionIsTheUsers ==
  /\ \A c \in Permission :
       /\ place[c] = "ran" => Said(c, "allow")
       /\ place[c] = "refused" => Said(c, "deny")
  /\ \A a \in accepted : (a.call \in Permission /\ Ended(a.call)) =>
       place[a.call] \in {"expired", IF a.value = "allow" THEN "ran" ELSE "refused"}

\* Of several clients' answers to one request one is accepted (resolve takes
\* the sender out): no client is told Ok for an answer another one overrode.
FirstAnswerWins ==
  \A a, b \in accepted :
    (a.call = b.call /\ a.call \in Permission) => a = b

\* Every wait ends, though no client ever answers or reads.
WaitEnds == \A c \in Call : place[c] # "idle" ~> Ended(c)

\* FR-012, "default (спрашивать)": a client that has read a request and not
\* answered it shows it, unless a later request has taken its place - and then
\* it shows that one, or its user has answered that one.
UnansweredIsShown ==
  \A k \in Client : \A i \in 1 .. seen[k] :
    stream[i] \in Permission =>
      \E j \in i .. seen[k] :
        \/ slot[k] = stream[j]
        \/ \E a \in said : a.by = k /\ a.call = stream[j]
===============================================================================
