------------------------------ MODULE EventFeed ------------------------------
(***************************************************************************)
(* What the daemon promises to a client attached to a session, with none   *)
(* of the machinery: the session's events are numbered 1, 2, 3, ... as     *)
(* they are recorded, and every attached client receives exactly that      *)
(* numbering, from 1, without a gap and without a repetition, each at its  *)
(* own pace.  "При attach клиент получает полную историю и текущий стрим   *)
(* в реальном времени" (docs/specs/2026-08-03-vpsagent.md, scenario 1) and *)
(* "полный стрим выбранного агента без потери событий" (scenario 2).       *)
(*                                                                         *)
(* EventBus implements this specification when the session has a single    *)
(* forwarder, and fails to when it has two (see EventBus).                 *)
(***************************************************************************)
EXTENDS Naturals, Sequences

CONSTANT Subscriber     \* the attachments of clients to the session

VARIABLES logged,       \* how many events the session has recorded
          stream        \* stream[s]: the seq numbers client s has received

vars == <<logged, stream>>

Init ==
  /\ logged = 0
  /\ stream = [s \in Subscriber |-> <<>>]

\* The next event of the session is recorded.
Record ==
  /\ logged' = logged + 1
  /\ UNCHANGED stream

\* Client s receives the event that follows the last one it has received.
Deliver(s) ==
  /\ Len(stream[s]) < logged
  /\ stream' = [stream EXCEPT ![s] = Append(@, Len(@) + 1)]
  /\ UNCHANGED logged

Next ==
  \/ Record
  \/ \E s \in Subscriber : Deliver(s)

Spec == Init /\ [][Next]_vars
==============================================================================
