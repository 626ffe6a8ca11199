--------------------------- MODULE CommandLine_proofs ---------------------------
(***************************************************************************)
(* Proofs about CommandLine, for any releases, any registry of providers,  *)
(* any number of upgrades, kills and failures, and whatever other commands *)
(* are given: upgrade never leaves the user without a program, the exit    *)
(* code of a headless run is true, the configuration stays sound, and a    *)
(* run that follows the wizard can start.                                  *)
(*                                                                         *)
(* And about DaemonLock, the daemon that those commands start and stop:    *)
(* what a start removes from under a daemon is the only thing that ever    *)
(* gives the lock file to another, whatever starts, stops and crashes.     *)
(***************************************************************************)
EXTENDS CommandLine, DaemonLock, FiniteSetTheorems, SequenceTheorems, Induction, TLAPS

Released == Versions \cup {Bad}

\* What the files hold at each place of the three renames.
UpgradeInv ==
  /\ stage \in {"off", "found", "fetched", "cleaned", "prepared", "freed", "placed"}
  /\ stage # "off" => offer \in [version : Versions, force : BOOLEAN, checked : BOOLEAN]
  /\ stage = "off" => ~offer.checked
  /\ stage \in {"found", "fetched", "cleaned", "prepared"} => exe \in Versions
  /\ stage \in {"fetched", "cleaned"} =>
       extracted \in Released /\ (offer.checked => extracted # Bad)
  /\ stage \in {"prepared", "freed"} =>
       exeNew \in Released /\ (offer.checked => exeNew # Bad)
  /\ stage = "freed" => exeBak \in Versions
  /\ stage = "placed" => exe \in Released
  /\ stage = "off" =>
       /\ exe \in Released \/ exeBak \in Versions
       /\ mishaps = 0 => exe \in Released
  /\ mishaps \in Nat

LEMMA UpgradeInvSuffices == UpgradeInv => ProgramRemains
<1> SUFFICES ASSUME UpgradeInv PROVE ProgramRemains
  OBVIOUS
<1> USE FilesAssumption DEF UpgradeInv, Released
<1>1. BinaryRemains
  BY DEF BinaryRemains
<1>2. NameIsTaken
  BY DEF NameIsTaken
<1>3. CheckedIsWhole
  BY DEF CheckedIsWhole
<1> QED
  BY <1>1, <1>2, <1>3 DEF ProgramRemains

\* No command but upgrade touches the binary and the files next to it.
LEMMA OthersLeaveUpgrade ==
  ASSUME [Next]_vars
  PROVE  \/ \E version \in Versions, force \in BOOLEAN : Compare(version, force)
         \/ UpgradeStep \/ Mishap
         \/ UNCHANGED upgradeVars
<1>1. CASE InvokeInit \/ InvokeAdd \/ InvokeRun \/ InvokeUpgrade
  BY <1>1 DEF InvokeInit, InvokeAdd, InvokeRun, InvokeUpgrade
<1>2. ASSUME NEW model, UseModel(model) PROVE UNCHANGED upgradeVars
  BY <1>2 DEF UseModel
<1>3. ASSUME NEW name, RemoveProvider(name) PROVE UNCHANGED upgradeVars
  BY <1>3 DEF RemoveProvider
<1>4. CASE ChangeFails
  BY <1>4 DEF ChangeFails
<1>5. CASE Wizard \/ WizardSaves \/ WizardEnds
  BY <1>5 DEF Wizard, WizardSaves, WizardEnds, AllUnchanged
<1>6. CASE Run \/ RunStep \/ RunEnds \/ DaemonStops
  BY <1>6 DEF Run, RunStep, RunEnds, DaemonStops
<1>7. CASE Upgrading
  BY <1>7 DEF Upgrading
<1>8. CASE UNCHANGED vars
  BY <1>8 DEF vars
<1> QED
  BY <1>1, <1>2, <1>3, <1>4, <1>5, <1>6, <1>7, <1>8 DEF Next

LEMMA UpgradeInductive ==
  ASSUME UpgradeInv, [Next]_vars
  PROVE  UpgradeInv'
<1> USE FilesAssumption DEF UpgradeInv, files, counts
<1>1. ASSUME NEW version \in Versions, NEW force \in BOOLEAN, Compare(version, force)
      PROVE  UpgradeInv'
  BY <1>1 DEF Compare
<1>2. CASE Fetch
  <2>1. PICK got \in {offer.version, Bad}, checked \in BOOLEAN :
          /\ checked => got # Bad
          /\ stage' = "fetched" /\ extracted' = got
          /\ offer' = [offer EXCEPT !.checked = checked]
    BY <1>2 DEF Fetch
  <2> QED
    BY <1>2, <2>1 DEF Fetch, Released
<1>3. CASE Clean
  BY <1>3 DEF Clean
<1>4. CASE Prepare
  BY <1>4 DEF Prepare
<1>5. CASE Free
  BY <1>5 DEF Free
<1>6. CASE Place
  BY <1>6 DEF Place
<1>7. CASE Settle
  BY <1>7 DEF Settle, End, NoOffer
<1>8. CASE Fail
  BY <1>8 DEF Fail, End, NoOffer, Released
<1>9. CASE Mishap
  BY <1>9 DEF Mishap, End, NoOffer, Released
<1>10. CASE UNCHANGED upgradeVars
  BY <1>10 DEF upgradeVars
<1> QED
  BY <1>1, <1>2, <1>3, <1>4, <1>5, <1>6, <1>7, <1>8, <1>9, <1>10,
     OthersLeaveUpgrade DEF UpgradeStep

\* ProgramRemains for every behaviour of the command: at every moment there is a
\* binary to run or to put back, an upgrade that was neither killed nor left half
\* undone leaves one under its name, and what had its checksum compared is what is
\* put in place.
THEOREM ProgramAlwaysRemains == Spec => []ProgramRemains
<1>1. Init => UpgradeInv
  BY VersionsAssumption DEF Init, UpgradeInit, UpgradeInv, NoOffer, Released
<1>2. UpgradeInv /\ [Next]_vars => UpgradeInv'
  BY UpgradeInductive
<1>3. UpgradeInv => ProgramRemains
  BY UpgradeInvSuffices
<1> QED
  BY <1>1, <1>2, <1>3, PTL DEF Spec

-------------------------------------------------------------------------------
(* The headless run. *)

\* The log ends with AgentFinished, and an error can only stand before that.
LogInv ==
  /\ log \in Seq({"text", "error", "finished"})
  /\ agent \in {"none", "working", "over"}
  /\ agent # "over" => \A i \in DOMAIN log : log[i] = "text"
  /\ \A i \in DOMAIN log : log[i] = "finished" => i = Len(log)
  /\ \A i \in DOMAIN log : log[i] = "error" => i + 1 = Len(log)

\* The task is sent once, before there is an agent.
RequestsInv ==
  /\ requests \in {<<>>, <<"create">>, <<"send", "attach">>, <<"attach">>}
  /\ client = "creating" \/ requests = <<"send", "attach">> => agent = "none"
  /\ requests = <<"create">> => client = "creating"
  /\ ~open => requests = <<>>
  /\ client = "creating" => requests \in {<<>>, <<"create">>}

\* A line is an answer, or the event at a place of the log.
Answered == {"create", "send", "attach", "none"}
Line == [answer : Answered, ok : BOOLEAN, event : Nat]

\* Some line is the event at place k.
InLines(k) == \E i \in DOMAIN lines : lines[i].event = k

\* The lines carry the events up to the last one given, in order and without a gap ...
LinesInv ==
  /\ lines \in Seq(Line)
  /\ given \in 0 .. Len(log)
  /\ \A i \in DOMAIN lines : lines[i].event <= given
  /\ \A i, j \in DOMAIN lines :
       i < j /\ lines[i].event > 0 /\ lines[j].event > 0 => lines[i].event < lines[j].event
  /\ \A i \in DOMAIN lines : lines[i].event > 0 =>
       \A k \in lines[i].event .. given : InLines(k)

\* ... and what the callback got is followed by what it got later or will get.
ShownInv ==
  /\ shown \subseteq 1 .. given
  /\ InRequest => shown = {}
  /\ \A i \in shown : \A k \in i .. given : k \in shown \/ InLines(k)

\* The two flags of the callback.
FlagsInv ==
  /\ exit \in [finished : BOOLEAN, failed : BOOLEAN, code : {"none"}]
  /\ ~exit.failed => \A i \in shown : log[i] # "error"
  /\ exit.finished /\ ~exit.failed => \E i \in shown : log[i] = "finished"

RunInv ==
  /\ client \in {"off", "creating", "attaching", "draining"}
  /\ client = "off" => ~open /\ ZeroIsSuccess
  /\ client # "off" =>
       spawnable \in BOOLEAN /\ LogInv /\ RequestsInv /\ LinesInv /\ ShownInv /\ FlagsInv

\* A line at the end, which is an answer or the next event.
LEMMA LineWritten ==
  ASSUME LinesInv, NEW line \in Line, lines' = Append(lines, line),
         given' \in 0 .. Len(log'),
         \/ line.event = 0 /\ given' = given
         \/ line.event = given + 1 /\ given' = given + 1
  PROVE  /\ LinesInv'
         /\ \A k : InLines(k) => InLines(k)'
         /\ given' = given + 1 => \A k : k = given + 1 => InLines(k)'
<1> USE DEF LinesInv, InLines
<1>1. /\ lines' \in Seq(Line) /\ Len(lines') = Len(lines) + 1
      /\ DOMAIN lines' = 1 .. Len(lines) + 1 /\ DOMAIN lines = 1 .. Len(lines)
      /\ \A i \in DOMAIN lines : lines'[i] = lines[i]
      /\ lines'[Len(lines) + 1] = line
      /\ Len(lines) \in Nat /\ given \in Nat
  OBVIOUS
<1>0. /\ \A i \in DOMAIN lines : lines[i].event \in 0 .. given
      /\ line.event \in Nat /\ given' \in Nat
      /\ \A i \in DOMAIN lines' : i \in DOMAIN lines \/ i = Len(lines) + 1
  <2>1. \A i \in DOMAIN lines : lines[i] \in Line
    BY <1>1
  <2>2. \A i \in DOMAIN lines : lines[i].event \in Nat
    BY <2>1 DEF Line
  <2>3. line.event \in Nat /\ given' \in Nat
    BY DEF Line
  <2> QED
    BY <1>1, <2>2, <2>3
<1>2. \A k : InLines(k) => InLines(k)'
  BY <1>1
<1>3. given' = given + 1 => \A k : k = given + 1 => InLines(k)'
  <2> SUFFICES ASSUME given' = given + 1 PROVE lines'[Len(lines) + 1].event = given + 1
    BY <1>1
  <2> QED
    BY <1>0, <1>1
<1>4. \A i \in DOMAIN lines' : lines'[i].event <= given'
  BY <1>0, <1>1
<1>5. \A i, j \in DOMAIN lines' :
        i < j /\ lines'[i].event > 0 /\ lines'[j].event > 0
          => lines'[i].event < lines'[j].event
  <2> SUFFICES ASSUME NEW i \in DOMAIN lines', NEW j \in DOMAIN lines', i < j,
                      lines'[i].event > 0, lines'[j].event > 0
               PROVE  lines'[i].event < lines'[j].event
    OBVIOUS
  <2>1. i \in DOMAIN lines
    BY <1>1
  <2>2. CASE j \in DOMAIN lines
    BY <1>1, <2>1, <2>2
  <2>3. CASE j = Len(lines) + 1
    BY <1>0, <1>1, <2>1, <2>3
  <2> QED
    BY <1>0, <2>2, <2>3
<1>6. ASSUME NEW i \in DOMAIN lines', lines'[i].event > 0,
             NEW k \in lines'[i].event .. given'
      PROVE  InLines(k)'
  <2>1. CASE i \in DOMAIN lines /\ k <= given
    <3>1. lines[i].event > 0 /\ k \in lines[i].event .. given
      BY <1>0, <1>1, <1>6, <2>1
    <3> QED
      BY <1>2, <2>1, <3>1
  <2>2. CASE k = given + 1
    BY <1>0, <1>3, <1>6, <2>2
  <2>3. CASE i = Len(lines) + 1
    <3>1. k = line.event
      BY <1>0, <1>1, <1>6, <2>3
    <3> QED
      BY <1>1, <2>3, <3>1
  <2> QED
    BY <1>0, <1>6, <2>1, <2>2, <2>3
<1> HIDE DEF InLines
<1> QED
  BY <1>1, <1>2, <1>3, <1>4, <1>5, <1>6

\* The first line read: only its event is gone, and the others come after it.
LEMMA LineRead ==
  ASSUME LinesInv, lines # <<>>, lines' = Tail(lines), UNCHANGED <<given, log>>
  PROVE  /\ LinesInv'
         /\ \A k : InLines(k) => k = Head(lines).event \/ InLines(k)'
         /\ Head(lines) \in Line /\ Head(lines).event \in 0 .. given
         /\ Head(lines).event > 0 =>
              \A k \in Head(lines).event .. given : k = Head(lines).event \/ InLines(k)'
<1> USE DEF LinesInv, InLines
<1>1. /\ lines' \in Seq(Line) /\ Len(lines) \in Nat \ {0} /\ Head(lines) = lines[1]
      /\ DOMAIN lines' = 1 .. Len(lines) - 1 /\ DOMAIN lines = 1 .. Len(lines)
      /\ \A i \in DOMAIN lines' : lines'[i] = lines[i + 1] /\ i + 1 \in DOMAIN lines
      /\ given \in Nat
  OBVIOUS
<1>0. \A i \in DOMAIN lines : lines[i] \in Line /\ lines[i].event \in 0 .. given
  <2>1. \A i \in DOMAIN lines : lines[i] \in Line
    BY <1>1
  <2>2. \A i \in DOMAIN lines : lines[i].event \in Nat
    BY <2>1 DEF Line
  <2> QED
    BY <1>1, <2>1, <2>2
<1>2. ASSUME NEW k, InLines(k), k # Head(lines).event PROVE InLines(k)'
  <2>1. PICK i \in DOMAIN lines : lines[i].event = k
    BY <1>2
  <2>2. i - 1 \in DOMAIN lines' /\ lines'[i - 1] = lines[i]
    BY <1>1, <1>2, <2>1
  <2> QED
    BY <2>1, <2>2
<1>3. 1 \in DOMAIN lines /\ Head(lines) \in Line /\ Head(lines).event \in 0 .. given
  BY <1>0, <1>1
<1>4. \A i \in DOMAIN lines' : lines'[i].event <= given'
  BY <1>1
<1>5. \A i, j \in DOMAIN lines' :
        i < j /\ lines'[i].event > 0 /\ lines'[j].event > 0
          => lines'[i].event < lines'[j].event
  <2> SUFFICES ASSUME NEW i \in DOMAIN lines', NEW j \in DOMAIN lines', i < j,
                      lines'[i].event > 0, lines'[j].event > 0
               PROVE  lines'[i].event < lines'[j].event
    OBVIOUS
  <2>1. i + 1 < j + 1
    BY <1>1
  <2> QED
    BY <1>1, <2>1
<1>6. ASSUME NEW i \in DOMAIN lines', lines'[i].event > 0,
             NEW k \in lines'[i].event .. given'
      PROVE  InLines(k)'
  <2>1. i + 1 \in DOMAIN lines /\ lines'[i] = lines[i + 1] /\ 1 < i + 1
    BY <1>1
  <2>2. InLines(k)
    BY <1>6, <2>1
  <2>3. k # Head(lines).event
    <3>1. lines[i + 1].event > 0 /\ lines[i + 1].event <= k
      BY <1>0, <1>6, <2>1
    <3>2. Head(lines).event > 0 => Head(lines).event < lines[i + 1].event
      BY <1>1, <1>3, <2>1, <3>1
    <3> QED
      BY <1>0, <1>3, <1>6, <2>1, <3>1, <3>2
  <2> QED
    BY <1>2, <2>2, <2>3
<1>7. Head(lines).event > 0 =>
        \A k \in Head(lines).event .. given : k = Head(lines).event \/ InLines(k)'
  <2> SUFFICES ASSUME Head(lines).event > 0, NEW k \in Head(lines).event .. given
               PROVE  InLines(k)
    BY <1>2
  <2> QED
    BY <1>1, <1>3
<1> HIDE DEF InLines
<1> QED
  BY <1>1, <1>2, <1>3, <1>4, <1>5, <1>6, <1>7

\* The requests that are handled are where they were sent to be.
LEMMA RequestHandled ==
  ASSUME RequestsInv, NEW r \in {"create", "send", "attach"}, Handles(r),
         requests' = Tail(requests), UNCHANGED <<client, open>>,
         agent' = agent \/ r = "send"
  PROVE  /\ RequestsInv'
         /\ r = "send" => agent = "none"
<1> USE DEF RequestsInv, Handles
<1>1. /\ Head(<<"create">>) = "create" /\ Tail(<<"create">>) = <<>>
      /\ Head(<<"send", "attach">>) = "send" /\ Tail(<<"send", "attach">>) = <<"attach">>
      /\ Head(<<"attach">>) = "attach" /\ Tail(<<"attach">>) = <<>>
  OBVIOUS
<1>2. /\ <<"create">> # <<>> /\ <<"attach">> # <<>> /\ <<"create">> # <<"attach">>
      /\ <<"attach">> # <<"send", "attach">>
  OBVIOUS
<1>3. requests \in {<<"create">>, <<"send", "attach">>, <<"attach">>}
  OBVIOUS
<1>4. CASE requests = <<"create">>
  BY <1>1, <1>2, <1>4
<1>5. CASE requests = <<"send", "attach">>
  BY <1>1, <1>2, <1>5
<1>6. CASE requests = <<"attach">>
  BY <1>1, <1>2, <1>6
<1> QED
  BY <1>3, <1>4, <1>5, <1>6

\* A log that grows keeps what was given of it, and what the flags say of that.
LEMMA LogGrows ==
  ASSUME LogInv, LinesInv, ShownInv, FlagsInv, agent = "working",
         NEW more \in {<<"text">>, <<"finished">>, <<"error", "finished">>},
         log' = log \o more, agent' = IF more = <<"text">> THEN agent ELSE "over",
         UNCHANGED <<client, lines, given, shown, exit>>
  PROVE  LogInv' /\ LinesInv' /\ ShownInv' /\ FlagsInv'
<1>0. more \in Seq({"text", "error", "finished"}) /\ Len(more) \in {1, 2}
  <2>1. CASE more = <<"text">>
    BY <2>1
  <2>2. CASE more = <<"finished">>
    BY <2>2
  <2>3. CASE more = <<"error", "finished">>
    BY <2>3
  <2> QED
    BY <2>1, <2>2, <2>3
<1>1. /\ Len(log') = Len(log) + Len(more) /\ Len(log) \in Nat /\ Len(more) \in {1, 2}
      /\ DOMAIN log = 1 .. Len(log) /\ DOMAIN log' = 1 .. Len(log')
      /\ log' \in Seq({"text", "error", "finished"})
      /\ \A i \in DOMAIN log : log'[i] = log[i]
      /\ \A i \in DOMAIN log' : i \notin DOMAIN log => log'[i] = more[i - Len(log)]
  <2> HIDE DEF LogInv
  <2>1. log \in Seq({"text", "error", "finished"})
    BY DEF LogInv
  <2> DEFINE whole == log \o more
  <2>2. /\ whole \in Seq({"text", "error", "finished"})
        /\ Len(whole) = Len(log) + Len(more) /\ Len(log) \in Nat
        /\ DOMAIN log = 1 .. Len(log) /\ DOMAIN whole = 1 .. Len(whole)
        /\ \A i \in DOMAIN log : whole[i] = log[i]
        /\ \A i \in DOMAIN whole : i \notin DOMAIN log => whole[i] = more[i - Len(log)]
    BY <1>0, <2>1
  <2> QED
    BY <1>0, <2>2
<1>2. LogInv'
  <2>1. \A i \in DOMAIN log : log'[i] = "text"
    BY <1>1 DEF LogInv
  <2>2. CASE more = <<"text">>
    <3>1. Len(more) = 1 /\ more[1] = "text"
      BY <2>2
    <3>2. \A i \in DOMAIN log' : log'[i] = "text"
      BY <1>1, <2>1, <3>1
    <3> QED
      BY <1>1, <2>2, <3>2 DEF LogInv
  <2>3. CASE more = <<"finished">>
    <3>1. Len(more) = 1 /\ more[1] = "finished" /\ more # <<"text">>
      BY <2>3
    <3>2. \A i \in DOMAIN log' :
            log'[i] = IF i = Len(log') THEN "finished" ELSE "text"
      BY <1>1, <2>1, <3>1
    <3> QED
      BY <1>1, <3>1, <3>2 DEF LogInv
  <2>4. CASE more = <<"error", "finished">>
    <3>1. Len(more) = 2 /\ more[1] = "error" /\ more[2] = "finished" /\ more # <<"text">>
      BY <2>4
    <3>2. \A i \in DOMAIN log' :
            log'[i] = IF i = Len(log') THEN "finished"
                      ELSE IF i + 1 = Len(log') THEN "error" ELSE "text"
      BY <1>1, <2>1, <3>1
    <3> QED
      BY <1>1, <3>1, <3>2 DEF LogInv
  <2> QED
    BY <2>2, <2>3, <2>4
<1>3. LinesInv'
  BY <1>1 DEF LinesInv, InLines
<1>4. ShownInv'
  BY DEF ShownInv, InLines, InRequest, Waiting
<1>5. \A i \in shown : i \in DOMAIN log
  <2>1. DOMAIN log = 1 .. Len(log) /\ Len(log) \in Nat
    BY <1>1
  <2> QED
    BY <2>1 DEF ShownInv, LinesInv
<1>6. FlagsInv'
  BY <1>1, <1>5 DEF FlagsInv
<1> QED
  BY <1>2, <1>3, <1>4, <1>6

LEMMA ServerKeeps ==
  ASSUME RunInv, ServerStep
  PROVE  RunInv'
<1>1. /\ client # "off" /\ LogInv /\ RequestsInv /\ LinesInv /\ ShownInv /\ FlagsInv
      /\ UNCHANGED <<client, shown, exit, spawnable>> /\ spawnable \in BOOLEAN
      /\ client \in {"off", "creating", "attaching", "draining"}
  BY DEF RunInv, ServerStep, HandleCreate, HandleSend, HandleAttach, AttachFails, AnswerAttach,
         Give, Publish, Handles, session
<1>2. SUFFICES LogInv' /\ RequestsInv' /\ LinesInv' /\ ShownInv' /\ FlagsInv'
  BY <1>1 DEF RunInv
<1>3. ASSUME NEW r \in Answered, NEW ok \in BOOLEAN, lines' = Append(lines, Answer(r, ok)),
             UNCHANGED <<given, log>>
      PROVE  LinesInv' /\ ShownInv' /\ FlagsInv'
  <2>1. Answer(r, ok) \in Line /\ Answer(r, ok).event = 0
    BY DEF Answer, Line
  <2>2. given' \in 0 .. Len(log')
    BY <1>1, <1>3 DEF LinesInv
  <2>3. LinesInv' /\ \A k : InLines(k) => InLines(k)'
    BY <1>1, <1>3, <2>1, <2>2, LineWritten
  <2>4. ShownInv'
    BY <1>1, <1>3, <2>3 DEF ShownInv, InRequest, Waiting
  <2>5. FlagsInv'
    BY <1>1, <1>3 DEF FlagsInv
  <2> QED
    BY <2>3, <2>4, <2>5
<1>4. CASE HandleCreate
  <2>1. UNCHANGED <<open, agent, given, log>>
    BY <1>4 DEF HandleCreate, session
  <2>2. RequestsInv'
    BY <1>1, <1>4, <2>1, RequestHandled DEF HandleCreate
  <2>3. LogInv'
    BY <1>1, <2>1 DEF LogInv
  <2>4. PICK ok \in BOOLEAN : lines' = Append(lines, Answer("create", ok))
    BY <1>4 DEF HandleCreate, Write
  <2> QED
    BY <1>3, <2>1, <2>2, <2>3, <2>4 DEF Answered
<1>5. CASE HandleSend
  <2>1. UNCHANGED <<open, given, log>> /\ agent' \in {agent, "working"}
    BY <1>5 DEF HandleSend
  <2>2. RequestsInv' /\ agent = "none"
    BY <1>1, <1>5, <2>1, RequestHandled DEF HandleSend
  <2>3. LogInv'
    BY <1>1, <2>1, <2>2 DEF LogInv
  <2> QED
    BY <1>1, <1>3, <1>5, <2>1, <2>2, <2>3 DEF HandleSend, Write, Answered
<1>6. CASE HandleAttach
  BY <1>1, <1>6, RequestHandled
     DEF HandleAttach, LogInv, LinesInv, InLines, ShownInv, InRequest, Waiting, FlagsInv
<1>7. CASE AnswerAttach
  <2>1. LogInv' /\ RequestsInv'
    BY <1>1, <1>7 DEF AnswerAttach, LogInv, RequestsInv
  <2>2. lines' = Append(lines, Answer("attach", TRUE)) /\ UNCHANGED <<given, log>>
    BY <1>7 DEF AnswerAttach, Write
  <2> QED
    BY <1>3, <2>1, <2>2 DEF Answered
<1>8. CASE Give
  <2>1. /\ given' = given + 1 /\ given' \in 0 .. Len(log')
        /\ lines' = Append(lines, Notification(given + 1))
        /\ UNCHANGED <<requests, open, log, agent>>
    <3>1. Len(log) \in Nat
      BY <1>1 DEF LogInv
    <3> QED
      BY <1>1, <1>8, <3>1 DEF Give, LinesInv, Write
  <2>2. Notification(given + 1) \in Line /\ Notification(given + 1).event = given + 1
    <3>1. given + 1 \in Nat
      BY <2>1
    <3> QED
      BY <3>1 DEF Notification, Line, Answered
  <2>3. /\ LinesInv'
        /\ \A k : InLines(k) => InLines(k)'
        /\ \A k : k = given + 1 => InLines(k)'
    BY <1>1, <2>1, <2>2, LineWritten
  <2>4. ShownInv'
    <3>1. ASSUME NEW i \in shown, NEW k \in i .. given' PROVE k \in shown \/ InLines(k)'
      <4>1. k \in i .. given \/ k = given + 1
        BY <1>1, <2>1 DEF ShownInv, LinesInv
      <4> QED
        BY <1>1, <2>3, <4>1 DEF ShownInv
    <3>2. shown \subseteq 1 .. given'
      BY <1>1, <2>1 DEF ShownInv, LinesInv
    <3> QED
      BY <1>1, <3>1, <3>2 DEF ShownInv, InRequest, Waiting
  <2>5. LogInv' /\ RequestsInv' /\ FlagsInv'
    BY <1>1, <2>1 DEF LogInv, RequestsInv, FlagsInv
  <2> QED
    BY <2>3, <2>4, <2>5
<1>9. CASE Publish
  <2>1. agent = "working" /\ UNCHANGED <<requests, lines, open, given>>
    BY <1>9 DEF Publish, connection
  <2>2. PICK more \in {<<"text">>, <<"finished">>, <<"error", "finished">>} :
          log' = log \o more /\ agent' = IF more = <<"text">> THEN agent ELSE "over"
    <3>1. Append(log, "text") = log \o <<"text">> /\ Append(log, "finished") = log \o <<"finished">>
      BY <1>1 DEF LogInv
    <3>2. <<"finished">> # <<"text">> /\ <<"error", "finished">> # <<"text">>
      OBVIOUS
    <3> QED
      BY <1>9, <3>1, <3>2 DEF Publish
  <2>3. LogInv' /\ LinesInv' /\ ShownInv' /\ FlagsInv'
    BY <1>1, <2>1, <2>2, LogGrows
  <2>4. RequestsInv'
    BY <1>1, <2>1, <1>9 DEF Publish, RequestsInv
  <2> QED
    BY <2>3, <2>4
<1>10. CASE AttachFails
  <2>1. UNCHANGED <<open, agent, given, log>>
    BY <1>10 DEF AttachFails, session
  <2>2. RequestsInv'
    BY <1>1, <1>10, <2>1, RequestHandled DEF AttachFails
  <2>3. LogInv'
    BY <1>1, <2>1 DEF LogInv
  <2>4. lines' = Append(lines, Answer("attach", FALSE))
    BY <1>10 DEF AttachFails, Write
  <2> QED
    BY <1>3, <2>1, <2>2, <2>3, <2>4 DEF Answered
<1> QED
  BY <1>4, <1>5, <1>6, <1>7, <1>8, <1>9, <1>10 DEF ServerStep

\* With no line left, what the callback got goes on to the end of what was given: an
\* error before something it got would be among it.
LEMMA AllRead ==
  ASSUME LogInv, LinesInv, ShownInv, FlagsInv, lines = <<>>, exit.finished, ~exit.failed
  PROVE  /\ \E i \in shown : log[i] = "finished"
         /\ \A i \in DOMAIN log : log[i] = "error" => \A j \in shown : i < j
<1>1. PICK f \in shown : log[f] = "finished"
  BY DEF FlagsInv
<1>2. DOMAIN log = 1 .. Len(log) /\ Len(log) \in Nat /\ given \in 0 .. Len(log)
  BY DEF LogInv, LinesInv
<1>3. f \in DOMAIN log /\ f = Len(log) /\ f <= given
  <2>1. f \in 1 .. given
    BY <1>1 DEF ShownInv
  <2>2. f \in DOMAIN log /\ f <= given
    BY <1>2, <2>1
  <2> QED
    BY <1>1, <2>2 DEF LogInv
<1>4. \A i \in shown : \A k \in i .. given : k \in shown
  BY DEF ShownInv, InLines
<1>5. ASSUME NEW i \in DOMAIN log, log[i] = "error", NEW j \in shown PROVE i < j
  <2>1. i + 1 = Len(log) /\ i \in Nat /\ j \in Nat
    BY <1>2, <1>5 DEF LogInv, ShownInv
  <2>2. i \notin shown
    BY <1>5 DEF FlagsInv
  <2>3. ~(i \in j .. given)
    BY <1>4, <2>2
  <2> QED
    BY <1>2, <1>3, <2>1, <2>3
<1> QED
  BY <1>1, <1>5

LEMMA ClientKeeps ==
  ASSUME RunInv, ClientStep \/ Interrupted
  PROVE  RunInv'
<1>1. /\ client \in {"creating", "attaching", "draining"} /\ spawnable \in BOOLEAN
      /\ LogInv /\ RequestsInv /\ LinesInv /\ ShownInv /\ FlagsInv
  BY DEF RunInv, ClientStep, Skip, Created, Attached, Refused, Drain, EndOfLines,
         Interrupted, InRequest, Waiting
<1>2. ASSUME NEW code, Ends(code), UNCHANGED <<session, shown>>,
             code # "0" \/ /\ lines = <<>> /\ exit.finished /\ ~exit.failed
      PROVE  RunInv'
  <2>1. client' = "off" /\ open' = FALSE /\ exit'.code = code
    BY <1>1, <1>2 DEF Ends, FlagsInv
  <2>2. CASE code # "0"
    BY <2>1, <2>2 DEF RunInv, ZeroIsSuccess
  <2>3. CASE code = "0"
    <3>1. UNCHANGED <<log, shown>>
      BY <1>2 DEF session
    <3> QED
      BY <1>1, <1>2, <2>1, <2>3, <3>1, AllRead DEF RunInv, ZeroIsSuccess
  <2> QED
    BY <2>2, <2>3
<1>3. ASSUME InRequest, lines # <<>>, lines' = Tail(lines), UNCHANGED <<session, shown, exit>>
      PROVE  LogInv' /\ LinesInv' /\ ShownInv' /\ FlagsInv' /\ spawnable' \in BOOLEAN
  <2>1. UNCHANGED <<given, log, agent, spawnable>> /\ shown' = {}
    BY <1>1, <1>3 DEF session, ShownInv
  <2>2. LinesInv'
    BY <1>1, <1>3, <2>1, LineRead
  <2> QED
    BY <1>1, <1>3, <2>1, <2>2 DEF LogInv, ShownInv, FlagsInv
<1>4. CASE Skip
  <2>1. RequestsInv'
    BY <1>1, <1>4 DEF Skip, RequestsInv, session
  <2> QED
    BY <1>1, <1>3, <1>4, <2>1 DEF Skip, RunInv
<1>5. CASE Created
  <2>1. /\ client = "creating" /\ client' = "attaching" /\ UNCHANGED <<agent, open>>
        /\ requests' = IF open THEN <<"send", "attach">> ELSE requests
    BY <1>5 DEF Created, session
  <2>2. agent' = "none" /\ requests' \in {<<"send", "attach">>, <<>>}
    BY <1>1, <2>1 DEF RequestsInv
  <2>3. <<"send", "attach">> # <<"create">> /\ <<>> # <<"create">>
    OBVIOUS
  <2>4. RequestsInv'
    BY <1>1, <2>1, <2>2, <2>3 DEF RequestsInv
  <2>5. InRequest
    BY <2>1 DEF InRequest, Waiting
  <2> QED
    BY <1>3, <1>5, <2>1, <2>4, <2>5 DEF Created, RunInv
<1>6. CASE Attached
  <2>1. client = "attaching" /\ client' = "draining" /\ UNCHANGED <<agent, open, requests>>
    BY <1>6 DEF Attached, session
  <2>2. RequestsInv'
    BY <1>1, <2>1 DEF RequestsInv
  <2>3. InRequest
    BY <2>1 DEF InRequest, Waiting
  <2> QED
    BY <1>3, <1>6, <2>1, <2>2, <2>3 DEF Attached, RunInv
<1>7. CASE Refused
  BY <1>2, <1>7 DEF Refused
<1>8. CASE Drain
  <2> DEFINE line == Head(lines)
             kind == IF line.event > 0 THEN log[line.event]
                     ELSE IF line.ok THEN "answer" ELSE "error"
  <2>1. /\ client = "draining" /\ lines # <<>> /\ lines' = Tail(lines)
        /\ shown' = IF line.event > 0 THEN shown \cup {line.event} ELSE shown
        /\ exit' = [exit EXCEPT !.finished = @ \/ kind \in {"finished", "error"},
                                !.failed = @ \/ kind = "error"]
        /\ UNCHANGED <<client, requests, open, given, log, agent, spawnable>>
    BY <1>8 DEF Drain, session
  <2>2. /\ LinesInv'
        /\ \A k : InLines(k) => k = line.event \/ InLines(k)'
        /\ line \in Line /\ line.event \in 0 .. given
        /\ line.event > 0 =>
             \A k \in line.event .. given : k = line.event \/ InLines(k)'
    BY <1>1, <2>1, LineRead
  <2>3. given \in Nat /\ line.event \in Nat
    BY <1>1, <2>2 DEF LinesInv, LogInv
  <2> HIDE DEF line
  <2>4. ShownInv'
    <3>1. shown' \subseteq 1 .. given
      BY <1>1, <2>1, <2>2, <2>3 DEF ShownInv
    <3>2. ASSUME NEW i \in shown', NEW k \in i .. given PROVE k \in shown' \/ InLines(k)'
      <4>1. CASE i \in shown
        <5>1. k \in shown \/ InLines(k)
          BY <1>1, <3>2, <4>1 DEF ShownInv
        <5>2. k > 0
          BY <1>1, <2>3, <3>2, <4>1 DEF ShownInv
        <5> QED
          BY <2>1, <2>2, <5>1, <5>2
      <4>2. CASE i = line.event /\ line.event > 0
        BY <2>1, <2>2, <3>2, <4>2
      <4> QED
        BY <2>1, <3>2, <4>1, <4>2
    <3> QED
      BY <2>1, <3>1, <3>2 DEF ShownInv, InRequest, Waiting
  <2>5. FlagsInv'
    <3>1. /\ exit' \in [finished : BOOLEAN, failed : BOOLEAN, code : {"none"}]
          /\ exit'.code = exit.code
          /\ exit'.finished = (exit.finished \/ kind \in {"finished", "error"})
          /\ exit'.failed = (exit.failed \/ kind = "error")
      BY <1>1, <2>1 DEF FlagsInv
    <3>2. ASSUME ~exit'.failed PROVE \A i \in shown' : log[i] # "error"
      BY <1>1, <2>1, <3>1, <3>2 DEF FlagsInv
    <3>3. ASSUME exit'.finished, ~exit'.failed PROVE \E i \in shown' : log[i] = "finished"
      BY <1>1, <2>1, <3>1, <3>3 DEF FlagsInv
    <3> QED
      BY <1>1, <2>1, <3>1, <3>2, <3>3 DEF FlagsInv
  <2>6. LogInv' /\ RequestsInv'
    BY <1>1, <2>1 DEF LogInv, RequestsInv
  <2> QED
    BY <1>1, <2>1, <2>2, <2>4, <2>5, <2>6 DEF RunInv
<1>9. CASE EndOfLines
  <2> DEFINE code == IF client = "draining" /\ exit.finished /\ ~exit.failed THEN "0" ELSE "1"
  <2>1. Ends(code) /\ lines = <<>> /\ UNCHANGED <<session, shown>>
    BY <1>9 DEF EndOfLines
  <2> QED
    BY <1>2, <2>1
<1>10. CASE Interrupted
  BY <1>2, <1>10 DEF Interrupted
<1> QED
  BY <1>4, <1>5, <1>6, <1>7, <1>8, <1>9, <1>10 DEF ClientStep

\* What the steps of the command do to a run.
LEMMA RunMoves ==
  ASSUME [Next]_vars
  PROVE  \/ \E ok \in BOOLEAN : Connect(ok)
         \/ ServerStep \/ ClientStep \/ Interrupted \/ DaemonGone
         \/ client' = "off" /\ open' = FALSE /\ exit' = NoExit
         \/ UNCHANGED runVars
<1>1. CASE InvokeInit \/ InvokeAdd \/ InvokeRun \/ InvokeUpgrade
  BY <1>1 DEF InvokeInit, InvokeAdd, InvokeRun, InvokeUpgrade, Begin
<1>2. ASSUME NEW model, UseModel(model) PROVE UNCHANGED runVars
  BY <1>2 DEF UseModel
<1>3. ASSUME NEW name, RemoveProvider(name) PROVE UNCHANGED runVars
  BY <1>3 DEF RemoveProvider
<1>4. CASE ChangeFails
  BY <1>4 DEF ChangeFails
<1>5. CASE Wizard \/ WizardSaves \/ WizardEnds
  BY <1>5 DEF Wizard, WizardSaves, WizardEnds, AllUnchanged
<1>6. CASE Run
  <2>1. Spawnable(daemon', secrets) \in BOOLEAN
    BY DEF Spawnable
  <2> QED
    BY <1>6, <2>1 DEF Run
<1>7. CASE RunStep \/ RunEnds
  BY <1>7 DEF RunStep, RunEnds
<1>8. CASE DaemonStops \/ Upgrading
  BY <1>8 DEF DaemonStops, Upgrading
<1>9. CASE UNCHANGED vars
  BY <1>9 DEF vars
<1> QED
  BY <1>1, <1>2, <1>3, <1>4, <1>5, <1>6, <1>7, <1>8, <1>9 DEF Next

LEMMA RunInductive ==
  ASSUME RunInv, [Next]_vars
  PROVE  RunInv'
<1>1. ASSUME NEW ok \in BOOLEAN, Connect(ok) PROVE RunInv'
  <2>1. /\ client' = "creating" /\ requests' = <<"create">> /\ lines' = <<>> /\ open' = TRUE
        /\ spawnable' = ok /\ given' = 0 /\ log' = <<>> /\ agent' = "none"
        /\ shown' = {} /\ exit' = NoExit
    BY <1>1 DEF Connect
  <2>2. LogInv' /\ LinesInv' /\ ShownInv'
    BY <2>1 DEF LogInv, LinesInv, ShownInv
  <2>3. RequestsInv'
    BY <2>1 DEF RequestsInv
  <2>4. FlagsInv'
    <3>1. /\ NoExit \in [finished : BOOLEAN, failed : BOOLEAN, code : {"none"}]
          /\ ~NoExit.finished
      BY DEF NoExit
    <3> QED
      BY <2>1, <3>1 DEF FlagsInv
  <2> QED
    BY <2>1, <2>2, <2>3, <2>4 DEF RunInv
<1>2. CASE DaemonGone
  <2>1. /\ open /\ open' = FALSE /\ requests' = <<>>
        /\ UNCHANGED <<client, lines, spawnable, given, log, agent, shown, exit>>
    BY <1>2 DEF DaemonGone, session
  <2>2. RequestsInv => RequestsInv'
    BY <2>1 DEF RequestsInv
  <2> QED
    BY <2>1, <2>2 DEF RunInv, LogInv, LinesInv, InLines, ShownInv, InRequest, Waiting, FlagsInv
<1>3. CASE client' = "off" /\ open' = FALSE /\ exit' = NoExit
  BY <1>3 DEF RunInv, NoExit, ZeroIsSuccess
<1>4. CASE UNCHANGED runVars
  BY <1>4 DEF runVars, connection, session, RunInv, ZeroIsSuccess, LogInv, RequestsInv,
              LinesInv, InLines, ShownInv, InRequest, Waiting, FlagsInv
<1> QED
  BY <1>1, <1>2, <1>3, <1>4, RunMoves, ServerKeeps, ClientKeeps

\* ZeroIsSuccess for any number of texts and every interleaving of answers, events,
\* the end of the daemon and Ctrl-C: the exit code is 0 only if the agent has finished
\* and no error came after the attach.
THEOREM ZeroMeansSuccess == Spec => []ZeroIsSuccess
<1>1. Init => RunInv
  BY DEF Init, RunInit, RunInv, NoExit, ZeroIsSuccess
<1>2. RunInv /\ [Next]_vars => RunInv'
  BY RunInductive
<1>3. RunInv => ZeroIsSuccess
  BY DEF RunInv, FlagsInv, ZeroIsSuccess
<1> QED
  BY <1>1, <1>2, <1>3, PTL DEF Spec

-------------------------------------------------------------------------------
(* The configuration. *)

\* No two endpoints share a name.
Distinct(c) ==
  \A i, j \in DOMAIN c.endpoints : c.endpoints[i].name = c.endpoints[j].name => i = j

\* The texts that are written in the program, and those of the registry and the user.
LEMMA TextsOfTheProgram ==
  /\ OwnTexts \subseteq Texts
  /\ TypedNames \subseteq Texts /\ TypedKeys \subseteq Texts /\ TypedModels \subseteq Texts
  /\ NoText \in Texts /\ NoKey \in Texts
<1>1. OwnTexts \subseteq Texts
  BY Zenon DEF Texts
<1>2. TypedNames \subseteq Texts
  BY Zenon DEF Texts
<1>3. TypedKeys \subseteq Texts
  BY Zenon DEF Texts
<1>4. TypedModels \subseteq Texts
  BY Zenon DEF Texts
<1>5. NoText \in Texts
  BY Zenon DEF Texts
<1>6. NoKey \in Texts
  BY Zenon DEF Texts
<1> QED
  BY <1>1, <1>2, <1>3, <1>4, <1>5, <1>6, Zenon

LEMMA TextsOfTheRegistry ==
  ASSUME NEW p \in Registry
  PROVE  p.id \in Texts /\ p.models \subseteq Texts
BY Zenon DEF Texts

LEMMA DefaultIsSound ==
  /\ DefaultConfig \in Config /\ Distinct(DefaultConfig)
  /\ Serving(DefaultConfig, DefaultConfig.default) # {}
<1> DEFINE e == [name |-> "openai", models |-> {"gpt-4o", "gpt-4o-mini"}]
<1>1. e \in Endpoint
  BY TextsOfTheProgram DEF Endpoint, OwnTexts
<1>2. "gpt-4o-mini" \in Texts
  BY TextsOfTheProgram DEF OwnTexts
<1>3. "gpt-4o-mini" \in e.models
  OBVIOUS
<1>4. DefaultConfig = [endpoints |-> <<e>>, default |-> "gpt-4o-mini"]
  BY DEF DefaultConfig
<1> HIDE DEF e
<1>5. <<e>> \in Seq(Endpoint) /\ DOMAIN <<e>> = {1} /\ <<e>>[1] = e
  BY <1>1
<1>6. DefaultConfig \in Config
  BY <1>2, <1>4, <1>5 DEF Config
<1>7. DefaultConfig.endpoints = <<e>> /\ DefaultConfig.default = "gpt-4o-mini"
  BY <1>4
<1> QED
  BY <1>3, <1>5, <1>6, <1>7 DEF Distinct, Serving

LEMMA LeastOf ==
  ASSUME NEW S, S \subseteq Nat, S # {}
  PROVE  Min(S) \in S /\ \A y \in S : Min(S) <= y
<1>1. \E x \in S : \A y \in S : x <= y
  BY LeastNatural
<1> QED
  BY <1>1, Zenon DEF Min

\* The endpoints of c with another name are in d, as they are and where they are.
OthersIn(c, d, name) ==
  \A i \in DOMAIN c.endpoints :
    c.endpoints[i].name # name => i \in DOMAIN d.endpoints /\ d.endpoints[i] = c.endpoints[i]

\* An endpoint put into a configuration is there, and so are the others.
LEMMA PutKeeps ==
  ASSUME NEW c \in Config, NEW e \in Endpoint, Distinct(c)
  PROVE  /\ Put(c, e) \in Config /\ Distinct(Put(c, e))
         /\ \E i \in DOMAIN Put(c, e).endpoints : Put(c, e).endpoints[i] = e
         /\ OthersIn(c, Put(c, e), e.name)
<1> DEFINE s == c.endpoints
           same == {i \in DOMAIN s : s[i].name = e.name}
<1>1. /\ s \in Seq(Endpoint) /\ Len(s) \in Nat /\ DOMAIN s = 1 .. Len(s)
      /\ \A i \in DOMAIN s : s[i] \in Endpoint
  BY DEF Config
<1>2. ASSUME NEW t \in Seq(Endpoint), Put(c, e) = [c EXCEPT !.endpoints = t]
      PROVE  Put(c, e) \in Config /\ Put(c, e).endpoints = t
  BY <1>2 DEF Config
<1>3. CASE same = {}
  <2> DEFINE t == Append(s, e)
  <2>1. /\ t \in Seq(Endpoint) /\ DOMAIN t = 1 .. Len(s) + 1
        /\ t[Len(s) + 1] = e /\ \A i \in DOMAIN s : t[i] = s[i]
    BY <1>1
  <2>2. Put(c, e) = [c EXCEPT !.endpoints = t]
    BY <1>3 DEF Put
  <2> HIDE DEF t
  <2>3. Put(c, e) \in Config /\ Put(c, e).endpoints = t
    BY <1>2, <2>1, <2>2
  <2>4. ASSUME NEW i \in DOMAIN t, NEW j \in DOMAIN t, t[i].name = t[j].name
        PROVE  i = j
    <3>1. CASE i \in DOMAIN s /\ j \in DOMAIN s
      BY <2>1, <2>4, <3>1 DEF Distinct
    <3>2. CASE i \in DOMAIN s /\ j = Len(s) + 1
      BY <1>3, <2>1, <2>4, <3>2
    <3>3. CASE i = Len(s) + 1 /\ j \in DOMAIN s
      BY <1>3, <2>1, <2>4, <3>3
    <3> QED
      BY <1>1, <2>1, <3>1, <3>2, <3>3
  <2>5. Distinct(Put(c, e))
    BY <2>3, <2>4 DEF Distinct
  <2>6. OthersIn(c, Put(c, e), e.name)
    <3>1. \A i \in DOMAIN s : i \in DOMAIN t /\ t[i] = s[i]
      BY <1>1, <2>1
    <3> QED
      BY <2>3, <3>1 DEF OthersIn
  <2>7. Len(s) + 1 \in DOMAIN t
    BY <1>1, <2>1
  <2> QED
    BY <2>1, <2>3, <2>5, <2>6, <2>7
<1>4. CASE same # {}
  <2> DEFINE m == Min(same)
             t == [s EXCEPT ![m] = e]
  <2>1. m \in same
    <3>1. same \subseteq Nat
      BY <1>1
    <3> HIDE DEF same
    <3> QED
      BY <1>4, <3>1, LeastOf
  <2>2. m \in DOMAIN s /\ s[m].name = e.name
    BY <2>1
  <2>3. Put(c, e) = [c EXCEPT !.endpoints[m] = e]
    BY <1>4 DEF Put
  <2> HIDE DEF m
  <2>4. Put(c, e) = [c EXCEPT !.endpoints = t]
    BY <2>3 DEF Config
  <2>5. t \in Seq(Endpoint) /\ DOMAIN t = DOMAIN s /\ t[m] = e
        /\ \A i \in DOMAIN s : i # m => t[i] = s[i]
    BY <1>1, <2>2
  <2> HIDE DEF t
  <2>6. Put(c, e) \in Config /\ Put(c, e).endpoints = t
    BY <1>2, <2>4, <2>5
  <2>7. \A i \in DOMAIN s : t[i].name = s[i].name
    BY <2>2, <2>5
  <2>8. Distinct(Put(c, e))
    BY <2>5, <2>6, <2>7 DEF Distinct
  <2>9. OthersIn(c, Put(c, e), e.name)
    BY <2>2, <2>5, <2>6 DEF OthersIn
  <2> QED
    BY <2>2, <2>5, <2>6, <2>8, <2>9
<1> QED
  BY <1>3, <1>4

\* As many names as endpoints.
LEMMA DistinctCounts ==
  ASSUME NEW c \in Config, Distinct(c)
  PROVE  Cardinality(Names(c)) = Len(c.endpoints)
<1> DEFINE n == Len(c.endpoints)
           f == [i \in 1 .. n |-> c.endpoints[i].name]
<1>1. n \in Nat /\ DOMAIN c.endpoints = 1 .. n
  BY DEF Config
<1>2. Names(c) = {f[i] : i \in 1 .. n}
  BY <1>1 DEF Names
<1>3. f \in Bijection(1 .. n, Names(c))
  <2>1. f \in [1 .. n -> Names(c)]
    BY <1>1 DEF Names
  <2>2. \A i, j \in 1 .. n : f[i] = f[j] => i = j
    BY <1>1 DEF Distinct
  <2>3. \A x \in Names(c) : \E i \in 1 .. n : f[i] = x
    BY <1>2
  <2> HIDE DEF f, n
  <2>4. f \in Injection(1 .. n, Names(c))
    BY <2>1, <2>2 DEF Injection, IsInjective
  <2>5. f \in Surjection(1 .. n, Names(c))
    BY <2>1, <2>3 DEF Surjection
  <2> QED
    BY <2>4, <2>5 DEF Bijection
<1>4. IsFiniteSet(1 .. n) /\ Cardinality(1 .. n) = n
  BY <1>1, FS_Interval
<1> HIDE DEF f, n
<1>5. Cardinality(Names(c)) = n
  BY <1>3, <1>4, FS_Bijection, Zenon DEF ExistsBijection
<1> QED
  BY <1>5 DEF n

\* What remains when the endpoints of a name are taken out is a part of the whole.
PartOfThe(s, k, t) ==
  /\ t \in Seq(Endpoint)
  /\ \A i \in DOMAIN t : \E j \in 1 .. k : t[i] = s[j]
  /\ \A i, j \in DOMAIN t : t[i].name = t[j].name => i = j

LEMMA PartGrows ==
  ASSUME NEW s \in Seq(Endpoint), NEW k \in 1 .. Len(s), NEW t, PartOfThe(s, k - 1, t),
         \A i, j \in DOMAIN s : s[i].name = s[j].name => i = j
  PROVE  PartOfThe(s, k, t) /\ PartOfThe(s, k, Append(t, s[k]))
<1>1. /\ t \in Seq(Endpoint) /\ Len(t) \in Nat /\ DOMAIN t = 1 .. Len(t)
      /\ Len(s) \in Nat /\ DOMAIN s = 1 .. Len(s) /\ k \in Nat
      /\ s[k] \in Endpoint
  BY DEF PartOfThe
<1>2. \A i \in DOMAIN t : \E j \in 1 .. k - 1 : t[i] = s[j]
  BY DEF PartOfThe
<1>3. PartOfThe(s, k, t)
  <2>1. 1 .. k - 1 \subseteq 1 .. k
    BY <1>1
  <2> QED
    BY <1>2, <2>1 DEF PartOfThe
<1> DEFINE u == Append(t, s[k])
<1>4. /\ u \in Seq(Endpoint) /\ DOMAIN u = 1 .. Len(t) + 1
      /\ u[Len(t) + 1] = s[k] /\ \A i \in DOMAIN t : u[i] = t[i]
  BY <1>1
<1> HIDE DEF u
<1>5. ASSUME NEW i \in DOMAIN u PROVE \E j \in 1 .. k : u[i] = s[j]
  <2>1. CASE i \in DOMAIN t
    <3>1. PICK j \in 1 .. k - 1 : t[i] = s[j]
      BY <1>2, <2>1
    <3> QED
      BY <1>1, <1>4, <2>1, <3>1
  <2>2. CASE i = Len(t) + 1
    BY <1>1, <1>4, <2>2
  <2> QED
    BY <1>1, <1>4, <2>1, <2>2
<1>6. ASSUME NEW i \in DOMAIN t PROVE u[i].name # s[k].name
  <2>1. PICK j \in 1 .. k - 1 : t[i] = s[j]
    BY <1>2
  <2>2. j \in DOMAIN s /\ k \in DOMAIN s /\ j # k
    BY <1>1, <2>1
  <2> QED
    BY <1>4, <2>1, <2>2
<1>7. ASSUME NEW i \in DOMAIN u, NEW j \in DOMAIN u, u[i].name = u[j].name PROVE i = j
  <2>1. CASE i \in DOMAIN t /\ j \in DOMAIN t
    BY <1>4, <1>7, <2>1 DEF PartOfThe
  <2>2. CASE i \in DOMAIN t /\ j = Len(t) + 1
    BY <1>4, <1>6, <1>7, <2>2
  <2>3. CASE i = Len(t) + 1 /\ j \in DOMAIN t
    BY <1>4, <1>6, <1>7, <2>3
  <2> QED
    BY <1>1, <1>4, <2>1, <2>2, <2>3
<1>8. PartOfThe(s, k, u)
  BY <1>4, <1>5, <1>7 DEF PartOfThe
<1> QED
  BY <1>3, <1>8 DEF u

LEMMA WithoutKeeps ==
  ASSUME NEW c \in Config, Distinct(c), NEW name
  PROVE  Without(c, name) \in Config /\ Distinct(Without(c, name))
<1> DEFINE s == c.endpoints
           n == Len(s)
           S == Seq(Endpoint)
           More(t, i) == IF s[i].name = name THEN t ELSE Append(t, s[i])
           Next1(t, i) == IF i = 0 THEN <<>>
                          ELSE IF s[i].name = name THEN t[i - 1] ELSE Append(t[i - 1], s[i])
           R(t) == t = [i \in 0 .. Len(s) |-> Next1(t, i)]
           kept == CHOOSE t : R(t)
           step == [i \in 1 .. n |-> [t \in S |-> More(t, i)]]
<1>1. /\ s \in S /\ n \in Nat /\ DOMAIN s = 1 .. n /\ \A i \in 1 .. n : s[i] \in Endpoint
  BY DEF Config
<1>2. step \in [1 .. n -> [S -> S]]
  BY <1>1
<1>3. PICK f \in [0 .. n -> S] : Recurs(f, n, <<>>, step)
  <2>1. <<>> \in S
    OBVIOUS
  <2> HIDE DEF step, S, n
  <2> QED
    BY <1>1, <1>2, <2>1, RecursionExists, Zenon
<1>4. R(f)
  <2> SUFFICES ASSUME NEW i \in 0 .. n PROVE f[i] = Next1(f, i)
    BY <1>3
  <2>1. i # 0 => i \in 1 .. n /\ i - 1 \in 0 .. n
    BY <1>1
  <2>2. i # 0 => f[i - 1] \in S
    BY <1>3, <2>1
  <2> QED
    BY <2>1, <2>2, <1>3 DEF Recurs
<1>5. R(kept)
  <2> HIDE DEF R
  <2> QED
    BY <1>4, Zenon
<1>6. Without(c, name) = [c EXCEPT !.endpoints = kept[n]]
  BY Zenon DEF Without, kept
<1> HIDE DEF kept
<1>7. \A i \in 0 .. n : kept[i] = Next1(kept, i)
  BY <1>5
<1> DEFINE Good == {i \in 0 .. n : PartOfThe(s, i, kept[i])}
<1>8. 0 \in Good
  <2>1. 0 \in 0 .. n
    BY <1>1
  <2>2. kept[0] = <<>>
    BY <1>7, <2>1, Zenon
  <2> QED
    BY <2>1, <2>2 DEF PartOfThe
<1>9. ASSUME NEW i \in 0 .. n, i \in Good, i < n PROVE i + 1 \in Good
  <2>1. i + 1 \in 0 .. n /\ i + 1 # 0 /\ (i + 1) - 1 = i /\ i + 1 \in 1 .. n
    <3>1. n \in Nat /\ i \in 0 .. n /\ i < n
      BY <1>1, <1>9, Zenon
    <3> HIDE DEF n, s, S, Good
    <3> QED
      BY <3>1
  <2>2. kept[i + 1] \in {kept[i], Append(kept[i], s[i + 1])}
    <3>1. kept[i + 1] = IF s[i + 1].name = name THEN kept[(i + 1) - 1]
                        ELSE Append(kept[(i + 1) - 1], s[i + 1])
      BY <1>7, <2>1, Zenon
    <3> QED
      BY <2>1, <3>1
  <2>3. PartOfThe(s, (i + 1) - 1, kept[i])
    BY <1>9, <2>1
  <2> HIDE DEF s
  <2>4. PartOfThe(s, i + 1, kept[i]) /\ PartOfThe(s, i + 1, Append(kept[i], s[i + 1]))
    BY <1>1, <2>1, <2>3, PartGrows DEF Distinct, s
  <2> QED
    BY <2>1, <2>2, <2>4
<1> HIDE DEF Good
<1>10. \A i \in 0 .. n : i \in Good
  BY <1>1, <1>8, <1>9, InductionUpTo, Zenon
<1>11. PartOfThe(s, n, kept[n])
  BY <1>1, <1>10 DEF Good
<1>12. Without(c, name) \in Config /\ Without(c, name).endpoints = kept[n]
  BY <1>6, <1>11 DEF Config, PartOfThe
<1> QED
  BY <1>11, <1>12 DEF Distinct, PartOfThe

\* What the wizard holds, and that what it saves lists its own default model.
Fields == {"step", "pick", "field", "input", "name", "key", "models", "default"}

Holding(w) ==
  /\ w = [x \in Fields |-> w[x]]
  /\ w.input \in Texts /\ w.name \in Texts /\ w.key \in Texts
  /\ w.default \in Texts /\ w.models \in SUBSET Texts
  /\ w.step \in {"save", "secrets"} => w.default \in w.models

WizardInv == Holding(wizard)

LEMMA OffHolds == Holding(Off) /\ Off.step = "off"
<1>1. NoText \in Texts /\ NoKey \in Texts
  BY TextsOfTheProgram
<1>2. /\ Off.step = "off" /\ Off.input = NoText /\ Off.name = NoText /\ Off.key = NoKey
      /\ Off.default = NoText /\ Off.models = {}
  BY DEF Off
<1>3. Off = [x \in Fields |-> Off[x]]
  BY DEF Off, Fields
<1> QED
  BY <1>1, <1>2, <1>3 DEF Holding

\* A step of the wizard before the save leaves the files alone; a failed save may tear them.
LEMMA WizardMoves ==
  ASSUME WizardInv, StartWizard \/ Press
  PROVE  /\ WizardInv'
         /\ \/ SaveConfig
            \/ /\ wizard'.step # "secrets" /\ config' \in {config, Torn}
               /\ \/ UNCHANGED secrets
                  \/ At("secrets") /\ secrets' = Torn
<1>1. /\ OwnTexts \subseteq Texts /\ TypedNames \subseteq Texts /\ TypedKeys \subseteq Texts
      /\ TypedModels \subseteq Texts /\ NoText \in Texts /\ NoKey \in Texts
  BY TextsOfTheProgram
<1> USE DEF WizardInv, Holding, At, Entered, Fields
<1>2. CASE StartWizard
  BY <1>1, <1>2 DEF StartWizard, Off, diskVars
<1>3. CASE Choose
  <2>1. ASSUME NEW pick, wizard' = [Off EXCEPT !.step = "fields", !.pick = pick]
        PROVE  WizardInv' /\ wizard'.step # "secrets"
    BY <1>1, <2>1 DEF Off
  <2>2. ASSUME NEW p \in Registry,
               wizard' = [Off EXCEPT !.step = "fields", !.pick = "provider",
                                     !.name = p.id, !.models = p.models]
        PROVE  WizardInv' /\ wizard'.step # "secrets"
    BY <1>1, <2>2, TextsOfTheRegistry DEF Off
  <2> QED
    BY <1>3, <2>1, <2>2 DEF Choose, diskVars
<1>4. CASE Erase \/ EnterName
  BY <1>1, <1>4 DEF Erase, EnterName, diskVars
<1>5. CASE EnterCustomKey
  BY <1>1, <1>5 DEF EnterCustomKey, EnteredKey, diskVars
<1>6. CASE EnterProtocol
  <2>1. PICK listed \in {{}, TypedModels} :
          wizard' = [wizard EXCEPT !.input = NoText, !.step = "model",
                                   !.models = IF listed = {} THEN @ ELSE listed]
    BY <1>6 DEF EnterProtocol
  <2>2. wizard'.step = "model"
    BY <2>1
  <2>3. wizard'.models \in {wizard.models, TypedModels}
    BY <2>1
  <2>4. /\ wizard'.input = NoText /\ wizard'.name = wizard.name
        /\ wizard'.key = wizard.key /\ wizard'.default = wizard.default
    BY <2>1
  <2>5. wizard' = [x \in Fields |-> wizard'[x]]
    BY <2>1
  <2> QED
    BY <1>1, <1>6, <2>2, <2>3, <2>4, <2>5 DEF EnterProtocol, diskVars
<1>7. CASE EnterToken
  <2>1. {"gpt-5", "gpt-4.1", "chatgpt-oauth"} \subseteq Texts
    BY <1>1 DEF OwnTexts
  <2> QED
    BY <1>1, <1>7, <2>1 DEF EnterToken, EnteredKey, diskVars
<1>8. CASE EnterKey
  BY <1>1, <1>8 DEF EnterKey, EnteredKey, diskVars
<1>9. CASE EnterModel
  BY <1>1, <1>9 DEF EnterModel, diskVars
<1>10. CASE SaveConfig
  BY <1>10 DEF SaveConfig
<1>11. CASE SaveFails
  BY <1>11 DEF SaveFails, WriteFails
<1>12. ASSUME NEW text \in TypedNames \cup TypedKeys \cup TypedModels, Type(text)
       PROVE  WizardInv' /\ wizard'.step # "secrets" /\ UNCHANGED diskVars
  BY <1>1, <1>12 DEF Type
<1> QED
  BY <1>2, <1>3, <1>4, <1>5, <1>6, <1>7, <1>8, <1>9, <1>10, <1>11, <1>12
     DEF Press, diskVars

\* What the two files hold.
FilesInv ==
  /\ config \in Config \cup {NoFile, Torn} /\ (config \in Config => Distinct(config))
  /\ secrets \in {NoFile, Torn} \/ \E refs \in SUBSET Texts : secrets \in [refs -> Texts]

\* The endpoint of the wizard is saved, and the default model is one of its models.
HalfSaved(c) ==
  /\ c \in Config /\ c.default = wizard.default
  /\ \E i \in Serving(c, c.default) : c.endpoints[i].name = wizard.name

\* Some endpoint that lists the default model has a key.
WithKey(c, file) ==
  \E i \in Serving(c, c.default) : HasSecret(file, c.endpoints[i].name)

\* The wizard and the run are there while a command is at them, and no run starts over a
\* file that does not parse.
CommandInv ==
  /\ ~At("off") => Doing("wizard")
  /\ client # "off" => Doing("run")
  /\ Doing("run") => config # Torn

\* The default model, and the key after the wizard.
SoundInv ==
  /\ At("secrets") => HalfSaved(config) /\ last = "half"
  /\ config \in Config /\ last # "remove" => Serving(config, config.default) # {}
  /\ last = "wizard" => config # NoFile
  /\ last = "wizard" /\ config \in Config => WithKey(config, secrets)

\* The daemon has a configuration, and a run knows what it can spawn.
DaemonInv ==
  /\ daemon \in Config \cup {NoDaemon}
  /\ client # "off" /\ daemon # NoDaemon => spawnable = Spawnable(daemon, secrets)

ConfigInv == WizardInv /\ FilesInv /\ CommandInv /\ SoundInv /\ DaemonInv

\* A file that is missing reads as the default.
LEMMA LoadIsSound ==
  ASSUME FilesInv, config # Torn
  PROVE  /\ Load(config) \in Config /\ Distinct(Load(config))
         /\ LoadOrDefault(config) = Load(config)
BY DefaultIsSound DEF FilesInv, Load, LoadOrDefault

LEMMA LoadOrDefaultIsSound ==
  ASSUME FilesInv
  PROVE  LoadOrDefault(config) \in Config /\ Distinct(LoadOrDefault(config))
BY DefaultIsSound, LoadIsSound DEF LoadOrDefault

\* What the wizard saves lists its default model under its name, and keeps the others.
LEMMA NewConfigIsSound ==
  ASSUME WizardInv, FilesInv, At("save")
  PROVE  /\ HalfSaved(NewConfig) /\ Distinct(NewConfig)
         /\ OthersIn(LoadOrDefault(config), NewConfig, wizard.name)
<1> DEFINE c == LoadOrDefault(config)
           e == [name |-> wizard.name, models |-> wizard.models]
           p == Put(c, e)
           n == [p EXCEPT !.default = wizard.default]
<1>1. c \in Config /\ Distinct(c)
  BY LoadOrDefaultIsSound
<1>2. e \in Endpoint /\ e.name = wizard.name /\ e.models = wizard.models
  BY DEF WizardInv, Holding, Endpoint
<1>3. NewConfig = n
  BY DEF NewConfig
<1> HIDE DEF c, e
<1>4. /\ p \in Config /\ Distinct(p) /\ OthersIn(c, p, wizard.name)
      /\ \E i \in DOMAIN p.endpoints : p.endpoints[i] = e
  BY <1>1, <1>2, PutKeeps
<1> HIDE DEF p
<1>5. n \in Config /\ n.endpoints = p.endpoints /\ n.default = wizard.default
  BY <1>4 DEF Config, WizardInv, Holding
<1> HIDE DEF n
<1>6. wizard.default \in wizard.models
  BY DEF WizardInv, Holding, At
<1>7. HalfSaved(n)
  BY <1>2, <1>4, <1>5, <1>6 DEF HalfSaved, Serving
<1>8. Distinct(n) /\ OthersIn(c, n, wizard.name)
  BY <1>4, <1>5 DEF Distinct, OthersIn
<1> QED
  BY <1>3, <1>7, <1>8 DEF c

\* The keys with the one of the wizard.
LEMMA NewSecretsAreSound ==
  ASSUME WizardInv, FilesInv
  PROVE  /\ \E refs \in SUBSET Texts : NewSecrets \in [refs -> Texts]
         /\ DOMAIN NewSecrets = {wizard.name} \cup DOMAIN Secrets(secrets)
         /\ \A ref \in DOMAIN Secrets(secrets) :
              ref # wizard.name => NewSecrets[ref] = Secrets(secrets)[ref]
<1> DEFINE old == Secrets(secrets)
<1>1. PICK refs \in SUBSET Texts : old \in [refs -> Texts]
  <2>1. CASE secrets \in {NoFile, Torn}
    <3>1. old \in [{} -> Texts]
      BY <2>1 DEF Secrets, NoSecrets
    <3> QED
      BY <3>1
  <2>2. CASE secrets \notin {NoFile, Torn}
    BY <2>2 DEF Secrets, FilesInv
  <2> QED
    BY <2>1, <2>2
<1>2. NewSecrets = [ref \in DOMAIN old \cup {wizard.name} |->
                      IF ref = wizard.name THEN wizard.key ELSE old[ref]]
  BY DEF NewSecrets, Keyed
<1> HIDE DEF old
<1>3. wizard.name \in Texts /\ wizard.key \in Texts
  BY DEF WizardInv, Holding
<1>4. DOMAIN old = refs /\ \A ref \in refs : old[ref] \in Texts
  BY <1>1
<1>5. NewSecrets \in [{wizard.name} \cup refs -> Texts]
  BY <1>2, <1>3, <1>4
<1>6. {wizard.name} \cup refs \in SUBSET Texts
  BY <1>1, <1>3
<1> QED
  BY <1>2, <1>4, <1>5, <1>6 DEF old

\* A model that another default lists, or endpoints without one of them.
LEMMA UseKeeps ==
  ASSUME NEW c \in Config, Distinct(c), NEW model, Serving(c, model) # {}
  PROVE  /\ [c EXCEPT !.default = model] \in Config
         /\ Distinct([c EXCEPT !.default = model])
         /\ Serving([c EXCEPT !.default = model], model) # {}
         /\ [c EXCEPT !.default = model].default = model
<1>1. PICK i \in DOMAIN c.endpoints : model \in c.endpoints[i].models
  BY DEF Serving
<1>2. c.endpoints[i] \in Endpoint
  BY DEF Config
<1>3. model \in Texts
  BY <1>1, <1>2 DEF Endpoint
<1> QED
  BY <1>3 DEF Config, Distinct, Serving

\* The files, the wizard and the run stay as they are.
Still == UNCHANGED <<config, secrets, wizard, client, daemon, spawnable, last>>

LEMMA StillKeeps ==
  ASSUME ConfigInv, Still,
         \/ UNCHANGED todo
         \/ At("off") /\ client = "off" /\ config # Torn
  PROVE  ConfigInv'
<1> USE DEF Still, ConfigInv
<1>1. WizardInv' /\ FilesInv' /\ DaemonInv'
  BY DEF WizardInv, FilesInv, DaemonInv
<1>2. CommandInv'
  BY DEF CommandInv, At, Doing
<1>3. SoundInv'
  BY DEF SoundInv, HalfSaved, At
<1> QED
  BY <1>1, <1>2, <1>3

\* A command that is begun: the shell was free.
LEMMA InvokeKeeps ==
  ASSUME ConfigInv, InvokeInit \/ InvokeAdd \/ InvokeRun \/ InvokeUpgrade
  PROVE  ConfigInv'
<1>1. todo = <<>> /\ config # Torn
  BY DEF InvokeInit, InvokeAdd, InvokeRun, InvokeUpgrade, Invoked
<1>2. Still
  BY DEF InvokeInit, InvokeAdd, InvokeRun, InvokeUpgrade, Begin, wizardVars, diskVars,
         runVars, session, Still
<1>3. At("off") /\ client = "off"
  BY <1>1 DEF ConfigInv, CommandInv, Doing
<1> QED
  BY <1>1, <1>2, <1>3, StillKeeps

\* A change of the configuration by a command of its own.
LEMMA ChangeKeeps ==
  ASSUME ConfigInv, todo = <<>>, UNCHANGED <<secrets, wizard, client, spawnable, todo, daemon>>,
         \/ config' \in Config /\ Distinct(config') /\ last' \in {"use", "remove"}
            /\ (last' = "use" => Serving(config', config'.default) # {})
         \/ config' \in {config, Torn} /\ last' = last
  PROVE  ConfigInv'
<1> USE DEF ConfigInv
<1>1. At("off") /\ client = "off"
  BY DEF CommandInv, Doing
<1>2. NoFile \notin Config /\ Torn \notin Config /\ NoFile # Torn
  BY ParsedAssumption, FileAssumption
<1>3. WizardInv'
  BY DEF WizardInv, Holding
<1>4. FilesInv'
  BY <1>2 DEF FilesInv
<1>5. CommandInv'
  BY <1>1 DEF CommandInv, At, Doing
<1>6. SoundInv'
  BY <1>1, <1>2 DEF SoundInv, At
<1>7. DaemonInv'
  BY <1>1 DEF DaemonInv
<1> QED
  BY <1>3, <1>4, <1>5, <1>6, <1>7

\* The wizard: a press, the save of the endpoint, a save that fails.
LEMMA WizardKeeps ==
  ASSUME ConfigInv, Wizard
  PROVE  ConfigInv'
<1> USE DEF ConfigInv
<1>1. /\ Doing("wizard") /\ ~Doing("run") /\ client = "off"
      /\ UNCHANGED <<todo, daemon, client, spawnable>>
      /\ last' = IF SaveConfig THEN "half" ELSE last
  BY DEF Wizard, Doing, AllUnchanged, runVars, session, CommandInv
<1>2. NoFile \notin Config /\ Torn \notin Config /\ NoFile # Torn
  BY ParsedAssumption, FileAssumption
<1>3. CommandInv' /\ DaemonInv'
  BY <1>1 DEF CommandInv, Doing, DaemonInv
<1>4. WizardInv'
  BY WizardMoves DEF Wizard
<1>5. CASE SaveConfig
  <2>1. /\ At("save") /\ config' = NewConfig /\ UNCHANGED secrets /\ last' = "half"
        /\ wizard' = [wizard EXCEPT !.step = "secrets"]
    BY <1>1, <1>5 DEF SaveConfig
  <2>2. HalfSaved(NewConfig) /\ Distinct(NewConfig)
    BY <2>1, NewConfigIsSound
  <2>3. wizard'.name = wizard.name /\ wizard'.default = wizard.default
    BY <2>1 DEF WizardInv, Holding, Fields
  <2>4. FilesInv'
    BY <1>2, <2>1, <2>2 DEF FilesInv, HalfSaved
  <2>5. HalfSaved(config)'
    BY <2>1, <2>2, <2>3 DEF HalfSaved
  <2>6. SoundInv'
    BY <1>2, <2>1, <2>2, <2>5 DEF SoundInv, HalfSaved
  <2> QED
    BY <1>3, <1>4, <2>4, <2>6
<1>6. CASE ~SaveConfig
  <2>1. /\ last' = last /\ ~At("secrets")' /\ config' \in {config, Torn}
        /\ secrets' = secrets \/ (At("secrets") /\ secrets' = Torn)
    BY <1>1, <1>6, WizardMoves DEF Wizard, At
  <2>2. FilesInv'
    BY <1>2, <2>1 DEF FilesInv
  <2>3. SoundInv'
    <3>1. config' \in Config => config' = config
      BY <1>2, <2>1
    <3>2. last' = "wizard" => secrets' = secrets
      BY <2>1 DEF SoundInv
    <3> QED
      BY <1>2, <2>1, <3>1, <3>2 DEF SoundInv
  <2> QED
    BY <1>3, <1>4, <2>2, <2>3
<1> QED
  BY <1>5, <1>6

\* The key is saved: the endpoint that the wizard has put there has it.
LEMMA WizardSavesKeeps ==
  ASSUME ConfigInv, WizardSaves
  PROVE  ConfigInv'
<1> USE DEF ConfigInv
<1>1. /\ At("secrets") /\ secrets' = NewSecrets /\ wizard' = Off
      /\ UNCHANGED <<config, daemon, client, spawnable>> /\ last' = "wizard"
      /\ client = "off"
  BY DEF WizardSaves, SaveSecrets, AllUnchanged, runVars, session, CommandInv, Doing
<1>2. NoFile \notin Config /\ Torn \notin Config /\ NoFile # Torn
  BY ParsedAssumption, FileAssumption
<1>3. WizardInv' /\ ~At("secrets")' /\ At("off")'
  BY <1>1, OffHolds DEF WizardInv, At
<1>4. HalfSaved(config)
  BY <1>1 DEF SoundInv
<1>5. \E refs \in SUBSET Texts : secrets' \in [refs -> Texts]
  BY <1>1, NewSecretsAreSound
<1>6. FilesInv'
  BY <1>1, <1>5 DEF FilesInv
<1>7. CommandInv'
  BY <1>1, <1>2, <1>3, <1>4 DEF CommandInv, HalfSaved
<1>8. WithKey(config, secrets')
  <2>1. PICK i \in Serving(config, config.default) : config.endpoints[i].name = wizard.name
    BY <1>4 DEF HalfSaved
  <2>2. secrets' \notin {NoFile, Torn}
    BY <1>5, ParsedAssumption
  <2>3. wizard.name \in DOMAIN secrets'
    BY <1>1, NewSecretsAreSound
  <2>4. HasSecret(secrets', wizard.name)
    BY <2>2, <2>3 DEF HasSecret, Secrets
  <2> QED
    BY <2>1, <2>4 DEF WithKey
<1>9. SoundInv'
  BY <1>1, <1>2, <1>3, <1>4, <1>8 DEF SoundInv, HalfSaved
<1>10. DaemonInv'
  BY <1>1 DEF DaemonInv
<1> QED
  BY <1>3, <1>6, <1>7, <1>9, <1>10

\* The wizard is left: the command ends with it.
LEMMA WizardEndsKeeps ==
  ASSUME ConfigInv, WizardEnds
  PROVE  ConfigInv'
<1> USE DEF ConfigInv
<1>1. /\ wizard' = Off /\ todo' = <<>> /\ client = "off"
      /\ UNCHANGED <<config, secrets, daemon, client, spawnable, last>>
  BY DEF WizardEnds, diskVars, AllUnchanged, runVars, session, CommandInv, Doing
<1>2. WizardInv' /\ ~At("secrets")' /\ At("off")'
  BY <1>1, OffHolds DEF WizardInv, At
<1>3. FilesInv' /\ SoundInv'
  BY <1>1, <1>2 DEF FilesInv, SoundInv
<1>4. CommandInv' /\ DaemonInv'
  BY <1>1, <1>2 DEF CommandInv, DaemonInv, Doing
<1> QED
  BY <1>2, <1>3, <1>4

\* A run that starts: the daemon is the one that is up, or has the file as it is.
LEMMA RunKeeps ==
  ASSUME ConfigInv, Run
  PROVE  ConfigInv'
<1> USE DEF ConfigInv
<1>1. /\ Doing("run") /\ spawnable' = Spawnable(daemon', secrets)
      /\ UNCHANGED <<config, secrets, wizard, todo, last>>
      /\ daemon' = IF daemon = NoDaemon THEN Load(config) ELSE daemon
  BY DEF Run, Connect, wizardVars, diskVars
<1>2. Load(config) \in Config
  BY <1>1, LoadIsSound DEF CommandInv
<1>3. WizardInv' /\ FilesInv' /\ SoundInv'
  BY <1>1 DEF WizardInv, FilesInv, SoundInv, At, HalfSaved
<1>4. CommandInv'
  BY <1>1 DEF CommandInv, At, Doing
<1>5. DaemonInv'
  BY <1>1, <1>2, DaemonAssumption DEF DaemonInv
<1> QED
  BY <1>3, <1>4, <1>5

\* The run goes on, ends or loses its daemon.
LEMMA RunGoesOn ==
  ASSUME ConfigInv, RunStep \/ RunEnds \/ DaemonStops
  PROVE  ConfigInv'
<1> USE DEF ConfigInv
<1>1. CASE RunStep
  <2>1. Doing("run") /\ UNCHANGED <<config, secrets, wizard, todo, daemon, last>>
    BY <1>1 DEF RunStep, wizardVars, diskVars, shellVars
  <2>2. UNCHANGED spawnable /\ (client' # "off" => client # "off")
    <3>1. CASE ServerStep
      BY <3>1 DEF ServerStep, HandleCreate, HandleSend, HandleAttach, AttachFails,
         AnswerAttach, Give, Publish, session
    <3>2. CASE ClientStep \/ Interrupted
      BY <3>2 DEF ClientStep, Skip, Created, Attached, Refused, Drain, EndOfLines,
         Interrupted, InRequest, Waiting, session
    <3> QED
      BY <1>1, <3>1, <3>2 DEF RunStep
  <2> QED
    BY <2>1, <2>2 DEF WizardInv, FilesInv, SoundInv, CommandInv, DaemonInv, At, Doing, HalfSaved
<1>2. CASE RunEnds
  <2>1. /\ Doing("run") /\ client' = "off" /\ todo' = <<>>
        /\ UNCHANGED <<config, secrets, wizard, daemon, last>>
    BY <1>2 DEF RunEnds, wizardVars, diskVars
  <2>2. At("off") /\ ~Doing("run")'
    BY <2>1 DEF CommandInv, Doing
  <2> QED
    BY <2>1, <2>2 DEF WizardInv, FilesInv, SoundInv, CommandInv, DaemonInv, At, HalfSaved
<1>3. CASE DaemonStops
  <2>1. /\ daemon' = NoDaemon
        /\ UNCHANGED <<config, secrets, wizard, client, todo, last>>
    BY <1>3 DEF DaemonStops, DaemonGone, wizardVars, diskVars, runVars
  <2> QED
    BY <2>1 DEF WizardInv, FilesInv, SoundInv, CommandInv, DaemonInv, At, Doing, HalfSaved
<1> QED
  BY <1>1, <1>2, <1>3

LEMMA UpgradingKeeps ==
  ASSUME ConfigInv, Upgrading
  PROVE  ConfigInv'
<1>1. Doing("upgrade") /\ Still /\ todo' \in {<<>>, todo}
  BY DEF Upgrading, wizardVars, diskVars, runVars, session, Still
<1>2. CASE UNCHANGED todo
  BY <1>1, <1>2, StillKeeps
<1>3. CASE todo' = <<>>
  <2>1. At("off") /\ client = "off"
    BY <1>1 DEF ConfigInv, CommandInv, Doing
  <2> QED
    BY <1>1, <1>3, <2>1
       DEF Still, ConfigInv, WizardInv, FilesInv, SoundInv, CommandInv, DaemonInv, At,
           HalfSaved, Doing
<1> QED
  BY <1>1, <1>2, <1>3

LEMMA ConfigInductive == ConfigInv /\ [Next]_vars => ConfigInv'
<1> SUFFICES ASSUME ConfigInv, [Next]_vars PROVE ConfigInv'
  OBVIOUS
<1>1. CASE InvokeInit \/ InvokeAdd \/ InvokeRun \/ InvokeUpgrade
  BY <1>1, InvokeKeeps
<1>2. ASSUME NEW model, UseModel(model) PROVE ConfigInv'
  <2>1. /\ todo = <<>> /\ config # Torn /\ Serving(Load(config), model) # {}
        /\ config' = [Load(config) EXCEPT !.default = model] /\ last' = "use"
        /\ UNCHANGED <<secrets, wizard, client, spawnable, todo, daemon>>
    BY <1>2 DEF UseModel, Invoked, runVars, session
  <2>2. Load(config) \in Config /\ Distinct(Load(config))
    BY <2>1, LoadIsSound DEF ConfigInv
  <2>3. config' \in Config /\ Distinct(config') /\ Serving(config', config'.default) # {}
    BY <2>1, <2>2, UseKeeps
  <2> QED
    BY <2>1, <2>3, ChangeKeeps
<1>3. ASSUME NEW name, RemoveProvider(name) PROVE ConfigInv'
  <2>1. /\ todo = <<>> /\ config # Torn
        /\ config' = Without(Load(config), name) /\ last' = "remove"
        /\ UNCHANGED <<secrets, wizard, client, spawnable, todo, daemon>>
    BY <1>3 DEF RemoveProvider, Invoked, runVars, session
  <2>2. Load(config) \in Config /\ Distinct(Load(config))
    BY <2>1, LoadIsSound DEF ConfigInv
  <2>3. config' \in Config /\ Distinct(config')
    BY <2>1, <2>2, WithoutKeeps
  <2> QED
    BY <2>1, <2>3, ChangeKeeps
<1>4. CASE ChangeFails
  <2>1. /\ todo = <<>> /\ config' \in {config, Torn} /\ last' = last
        /\ UNCHANGED <<secrets, wizard, client, spawnable, todo, daemon>>
    BY <1>4 DEF ChangeFails, Invoked, WriteFails, runVars, session
  <2> QED
    BY <2>1, ChangeKeeps
<1>5. CASE Wizard
  BY <1>5, WizardKeeps
<1>6. CASE WizardSaves
  BY <1>6, WizardSavesKeeps
<1>7. CASE WizardEnds
  BY <1>7, WizardEndsKeeps
<1>8. CASE Run
  BY <1>8, RunKeeps
<1>9. CASE RunStep \/ RunEnds \/ DaemonStops
  BY <1>9, RunGoesOn
<1>10. CASE Upgrading
  BY <1>10, UpgradingKeeps
<1>11. CASE UNCHANGED vars
  BY <1>11, StillKeeps DEF vars, wizardVars, diskVars, runVars, session, shellVars, Still
<1> QED
  BY <1>1, <1>2, <1>3, <1>4, <1>5, <1>6, <1>7, <1>8, <1>9, <1>10, <1>11 DEF Next

LEMMA ConfigInitially == Init => ConfigInv
<1> SUFFICES ASSUME Init PROVE ConfigInv
  OBVIOUS
<1>1. /\ config = NoFile /\ secrets = NoFile /\ wizard = Off /\ client = "off"
      /\ todo = <<>> /\ daemon = NoDaemon /\ last = "none"
  BY DEF Init, DiskInit, WizardInit, RunInit
<1>2. WizardInv /\ At("off")
  BY <1>1, OffHolds DEF WizardInv, At
<1> QED
  BY <1>1, <1>2, ParsedAssumption, FileAssumption
     DEF ConfigInv, FilesInv, CommandInv, SoundInv, DaemonInv, At, Doing

\* ConfigIsSound for any registry and any texts that a user types, and after any sequence of
\* commands, failed writes and kills among them: the names of the endpoints are as many as
\* the endpoints, and the default model is listed unless a provider was just removed.
THEOREM ConfigStaysSound == Spec => []ConfigIsSound
<1>1. ConfigInv => ConfigIsSound
  BY DistinctCounts DEF ConfigInv, FilesInv, SoundInv, ConfigIsSound
<1> QED
  BY <1>1, ConfigInitially, ConfigInductive, PTL DEF Spec

LEMMA RunAfterWizard == ConfigInv => RunAfterWizardWorks
<1> SUFFICES ASSUME ConfigInv, client # "off", last = "wizard", daemon = config,
                    ~(Cardinality(Serving(config, config.default)) > 1)
             PROVE  spawnable
  BY DEF RunAfterWizardWorks
<1> DEFINE S == Serving(config, config.default)
<1>1. config \in Config /\ daemon # NoDaemon
  BY DaemonAssumption DEF ConfigInv, CommandInv, SoundInv, FilesInv
<1>2. PICK i \in S : HasSecret(secrets, config.endpoints[i].name)
  BY <1>1 DEF ConfigInv, SoundInv, WithKey
<1>3. S \subseteq 1 .. Len(config.endpoints) /\ Len(config.endpoints) \in Nat
  BY <1>1 DEF Serving, Config
<1> HIDE DEF S
<1>4. IsFiniteSet(S) /\ Cardinality(S) \in Nat
  <2> DEFINE n == Len(config.endpoints)
  <2>1. IsFiniteSet(1 .. n)
    BY <1>3, FS_Interval
  <2> HIDE DEF n
  <2>2. IsFiniteSet(S)
    BY <1>3, <2>1, FS_Subset DEF n
  <2> QED
    BY <2>2, FS_CardinalityType
<1>5. Cardinality(S) = 1
  <2>1. Cardinality(S) # 0
    BY <1>2, <1>4, FS_EmptySet
  <2>2. ~(Cardinality(S) > 1)
    BY DEF S
  <2> QED
    BY <1>4, <2>1, <2>2
<1>6. S = {i}
  BY <1>2, <1>4, <1>5, FS_Singleton
<1>7. S \subseteq Nat /\ S # {}
  BY <1>2, <1>3
<1>8. Min(S) = i
  BY <1>6, <1>7, LeastOf
<1>9. Spawnable(config, secrets)
  BY <1>2, <1>7, <1>8 DEF Spawnable, EndpointForModel, S
<1> QED
  BY <1>1, <1>9 DEF ConfigInv, DaemonInv

\* RunAfterWizardWorks likewise: with the configuration that the wizard saved, and one
\* endpoint for the default model, the agent of a run can be spawned.
THEOREM RunAfterWizardStarts == Spec => []RunAfterWizardWorks
BY RunAfterWizard, ConfigInitially, ConfigInductive, PTL DEF Spec

\* What a step of OthersAreKept says.
Kept ==
  /\ (secrets # Torn /\ secrets' # Torn) =>
       \A ref \in DOMAIN Secrets(secrets) :
         ref # wizard.name => ref \in DOMAIN secrets' /\ secrets'[ref] = secrets[ref]
  /\ (At("save") /\ config # Torn /\ config' # Torn) =>
       OthersIn(Load(config), Load(config'), wizard.name)

LEMMA KeptBySame ==
  ASSUME FilesInv, UNCHANGED secrets \/ secrets' = Torn,
         config' \in {config, Torn} \/ ~At("save")
  PROVE  Kept
<1>1. secrets # Torn => Secrets(secrets) = secrets \/ DOMAIN Secrets(secrets) = {}
  BY DEF Secrets, NoSecrets
<1>2. \A c : OthersIn(c, c, wizard.name)
  BY DEF OthersIn
<1> QED
  BY <1>1, <1>2 DEF Kept

LEMMA KeptByNext == ConfigInv /\ [Next]_vars => [Kept]_wizardVars
<1> SUFFICES ASSUME ConfigInv, [Next]_vars PROVE Kept \/ UNCHANGED wizardVars
  OBVIOUS
<1> USE DEF ConfigInv
<1>1. CASE InvokeInit \/ InvokeAdd \/ InvokeRun \/ InvokeUpgrade
  BY <1>1 DEF InvokeInit, InvokeAdd, InvokeRun, InvokeUpgrade, Begin
<1>2. CASE (\E model : UseModel(model)) \/ (\E name : RemoveProvider(name)) \/ ChangeFails
  <2>1. todo = <<>> /\ UNCHANGED secrets
    BY <1>2 DEF UseModel, RemoveProvider, ChangeFails, Invoked
  <2>2. ~At("save")
    BY <2>1 DEF CommandInv, At, Doing
  <2> QED
    BY <2>1, <2>2, KeptBySame
<1>3. CASE Wizard
  <2>1. CASE SaveConfig
    <3>1. UNCHANGED secrets /\ config' = NewConfig /\ At("save")
      BY <2>1 DEF SaveConfig
    <3>2. NewConfig \in Config /\ OthersIn(LoadOrDefault(config), NewConfig, wizard.name)
      BY <3>1, NewConfigIsSound DEF HalfSaved
    <3>3. Load(config') = NewConfig
      BY <3>1, <3>2, ParsedAssumption DEF Load
    <3>4. config # Torn => LoadOrDefault(config) = Load(config)
      BY DEF LoadOrDefault
    <3>5. secrets # Torn => Secrets(secrets) = secrets \/ DOMAIN Secrets(secrets) = {}
      BY DEF Secrets, NoSecrets
    <3> QED
      BY <3>1, <3>2, <3>3, <3>4, <3>5 DEF Kept
  <2>2. CASE ~SaveConfig
    BY <1>3, <2>2, WizardMoves, KeptBySame DEF Wizard
  <2> QED
    BY <2>1, <2>2
<1>4. CASE WizardSaves
  <2>1. secrets' = NewSecrets /\ ~At("save")
    BY <1>4 DEF WizardSaves, SaveSecrets, At
  <2>2. secrets # Torn => Secrets(secrets) = secrets \/ DOMAIN Secrets(secrets) = {}
    BY DEF Secrets, NoSecrets
  <2> QED
    BY <2>1, <2>2, NewSecretsAreSound DEF Kept
<1>5. CASE WizardEnds
  BY <1>5, KeptBySame DEF WizardEnds, diskVars
<1>6. CASE Run \/ RunStep \/ RunEnds \/ DaemonStops \/ Upgrading
  BY <1>6 DEF Run, RunStep, RunEnds, DaemonStops, Upgrading
<1>7. CASE UNCHANGED vars
  BY <1>7 DEF vars
<1> QED
  BY <1>1, <1>2, <1>3, <1>4, <1>5, <1>6, <1>7 DEF Next

\* OthersAreKept for every behaviour of the command: whatever a run of the wizard is called
\* and retries, the other endpoints stay as they are and where they are, and the other
\* keys as they are, if no write is cut short.
THEOREM WizardKeepsOthers == Spec => OthersAreKept
<1>1. OthersAreKept <=> [][Kept]_wizardVars
  BY DEF OthersAreKept, Kept, OthersIn
<1> QED
  BY <1>1, ConfigInitially, ConfigInductive, KeptByNext, PTL DEF Spec

-------------------------------------------------------------------------------
(* The daemon that the commands start. *)

\* Type correctness: in particular the lock file is never seen empty or half
\* written, whatever starts, stops and crashes (the atomic publication, C12).
THEOREM LockTypeCorrect == LockSpec => []TypeOK
<1>1. LockInit => TypeOK
  BY DEF LockInit, TypeOK, ProcPlace
<1>2. TypeOK /\ [LockNext]_lockVars => TypeOK'
  <2> SUFFICES ASSUME TypeOK, [LockNext]_lockVars PROVE TypeOK'
    OBVIOUS
  <2> USE DEF TypeOK, ProcPlace, Goto, paths
  <2>1. ASSUME NEW p \in Proc, Launch(p) \/ Stop(p) \/ Crash(p) \/ PidReused(p) PROVE TypeOK'
    BY <2>1 DEF Launch, Stop, Crash, PidReused
  <2>2. ASSUME NEW p \in Proc, CheckExists(p) \/ ProbePid(p) PROVE TypeOK'
    BY <2>2 DEF CheckExists, ProbePid
  <2>11. ASSUME NEW p \in Proc, ReadPid(p) PROVE TypeOK'
    BY <2>11 DEF ReadPid
  <2>3. ASSUME NEW p \in Proc, RemoveGhost(p) \/ PidFails(p) \/ LinkLock(p) PROVE TypeOK'
    BY <2>3 DEF RemoveGhost, PidFails, LinkLock
  <2>4. ASSUME NEW p \in Proc,
               OpenStorage(p) \/ RemoveOldSocket(p) \/ Bind(p) \/ Listen(p)
        PROVE TypeOK'
    BY <2>4 DEF OpenStorage, RemoveOldSocket, Bind, Listen
  <2>5. ASSUME NEW p \in Proc, CloseSocket(p) \/ Unlock(p) PROVE TypeOK'
    BY <2>5 DEF CloseSocket, Unlock
  <2>6. ASSUME NEW k \in Command, Ensure(k) PROVE TypeOK'
    BY <2>6 DEF Ensure
  <2>7. ASSUME NEW k \in Command, Restart(k) PROVE TypeOK'
    BY <2>7, NoneAssumption DEF Restart, Answers
  <2>8. ASSUME NEW k \in Command, CleanSocket(k) \/ StopAwaited(k) PROVE TypeOK'
    BY <2>8 DEF CleanSocket, StopAwaited
  <2>9. ASSUME NEW k \in Command, NEW p \in Proc, SpawnDaemon(k, p) PROVE TypeOK'
    BY <2>9 DEF SpawnDaemon
  <2>10. CASE UNCHANGED lockVars
    BY <2>10 DEF lockVars
  <2> QED
    BY <2>1, <2>2, <2>11, <2>3, <2>4, <2>5, <2>6, <2>7, <2>8, <2>9, <2>10
    DEF LockNext, DaemonStep, CommandStep
<1> QED
  BY <1>1, <1>2, PTL DEF LockSpec

-------------------------------------------------------------------------------
(* The lock file names the daemon. *)

\* A lock file is written by a process that has started, and so is what was read
\* of one.
StartedInv ==
  /\ lockfile # None => pc[lockfile] # "idle"
  /\ \A p \in Proc : found[p] # None => pc[found[p]] # "idle"

\* What a start takes for a ghost is gone, or dead, and does not come back.
GhostInv ==
  \A p \in Proc : pc[p] = "ghost" => found[p] = None \/ ~Running(found[p])

LockInv == DaemonHoldsLock /\ StartedInv /\ GhostInv

\* Who is started, and who is dead, stays so.
LEMMA StartedInductive ==
  TypeOK /\ StartedInv /\ GhostInv /\ [LockNext]_lockVars => StartedInv' /\ GhostInv'
<1> SUFFICES ASSUME TypeOK, StartedInv, GhostInv, [LockNext]_lockVars
             PROVE  StartedInv' /\ GhostInv'
  OBVIOUS
<1> USE NoneAssumption, ActorsAssumption DEF StartedInv, GhostInv, Running, TypeOK, Goto, paths
<1>1. ASSUME NEW p \in Proc, Launch(p) \/ CheckExists(p) PROVE StartedInv' /\ GhostInv'
  BY <1>1 DEF Launch, CheckExists
<1>2. ASSUME NEW p \in Proc, ReadPid(p) PROVE StartedInv' /\ GhostInv'
  BY <1>2 DEF ReadPid
<1>3. ASSUME NEW p \in Proc, ProbePid(p) PROVE StartedInv' /\ GhostInv'
  BY <1>3 DEF ProbePid, Alive
<1>4. ASSUME NEW p \in Proc, RemoveGhost(p) PROVE StartedInv' /\ GhostInv'
  BY <1>4 DEF RemoveGhost
<1>5. ASSUME NEW p \in Proc, PidFails(p) \/ LinkLock(p) PROVE StartedInv' /\ GhostInv'
  BY <1>5 DEF PidFails, LinkLock
<1>6. ASSUME NEW p \in Proc, OpenStorage(p) \/ RemoveOldSocket(p) \/ Bind(p) \/ Listen(p)
      PROVE StartedInv' /\ GhostInv'
  BY <1>6 DEF OpenStorage, RemoveOldSocket, Bind, Listen
<1>7. ASSUME NEW p \in Proc, CloseSocket(p) \/ Stop(p) \/ Crash(p) \/ PidReused(p)
      PROVE StartedInv' /\ GhostInv'
  BY <1>7 DEF CloseSocket, Stop, Crash, PidReused
<1>8. ASSUME NEW p \in Proc, Unlock(p) PROVE StartedInv' /\ GhostInv'
  BY <1>8 DEF Unlock
<1>9. ASSUME NEW k \in Command, Ensure(k) \/ CleanSocket(k) \/ StopAwaited(k)
      PROVE StartedInv' /\ GhostInv'
  BY <1>9 DEF Ensure, CleanSocket, StopAwaited
<1>10. ASSUME NEW k \in Command, Restart(k) PROVE StartedInv' /\ GhostInv'
  BY <1>10 DEF Restart, Answers
<1>11. ASSUME NEW k \in Command, NEW p \in Proc, SpawnDaemon(k, p)
       PROVE StartedInv' /\ GhostInv'
  BY <1>11 DEF SpawnDaemon
<1>12. CASE UNCHANGED lockVars
  BY <1>12 DEF lockVars
<1> QED
  BY <1>1, <1>2, <1>3, <1>4, <1>5, <1>6, <1>7, <1>8, <1>9, <1>10, <1>11, <1>12
  DEF LockNext, DaemonStep, CommandStep

LEMMA HoldsInductive ==
  TypeOK /\ LockInv /\ [LockNext]_lockVars => DaemonHoldsLock'
<1> SUFFICES ASSUME TypeOK, LockInv, [LockNext]_lockVars PROVE DaemonHoldsLock'
  OBVIOUS
<1> USE DEF LockInv, DaemonHoldsLock, Daemon, TypeOK, Goto, paths
<1>1. ASSUME NEW p \in Proc, Launch(p) \/ CheckExists(p) \/ ReadPid(p) \/ ProbePid(p)
      PROVE DaemonHoldsLock'
  BY <1>1 DEF Launch, CheckExists, ReadPid, ProbePid
<1>2. ASSUME NEW p \in Proc, RemoveGhost(p) PROVE DaemonHoldsLock'
  <2> SUFFICES ASSUME "lock" \notin stolen', NEW q \in Proc, Daemon(q) PROVE FALSE
    BY <1>2 DEF RemoveGhost
  <2>1. "lock" \notin stolen /\ lockfile \in {None, found[p]} /\ pc[p] = "ghost"
    BY <1>2 DEF RemoveGhost
  <2>2. lockfile = q /\ Running(q)
    BY <2>1 DEF Running
  <2> QED
    BY <2>1, <2>2, NoneAssumption DEF GhostInv
<1>3. ASSUME NEW p \in Proc, PidFails(p) \/ LinkLock(p) PROVE DaemonHoldsLock'
  BY <1>3, NoneAssumption DEF PidFails, LinkLock
<1>4. ASSUME NEW p \in Proc, OpenStorage(p) \/ RemoveOldSocket(p) \/ Bind(p) \/ Listen(p)
      PROVE DaemonHoldsLock'
  BY <1>4 DEF OpenStorage, RemoveOldSocket, Bind, Listen
<1>5. ASSUME NEW p \in Proc, CloseSocket(p) \/ Stop(p) \/ Crash(p) \/ PidReused(p)
      PROVE DaemonHoldsLock'
  BY <1>5 DEF CloseSocket, Stop, Crash, PidReused
<1>6. ASSUME NEW p \in Proc, Unlock(p) PROVE DaemonHoldsLock'
  BY <1>6 DEF Unlock
<1>7. ASSUME NEW k \in Command, Ensure(k) \/ CleanSocket(k) \/ StopAwaited(k)
      PROVE DaemonHoldsLock'
  BY <1>7 DEF Ensure, CleanSocket, StopAwaited
<1>8. ASSUME NEW k \in Command, Restart(k) PROVE DaemonHoldsLock'
  BY <1>8, NoneAssumption DEF Restart, Answers
<1>9. ASSUME NEW k \in Command, NEW p \in Proc, SpawnDaemon(k, p)
      PROVE DaemonHoldsLock'
  BY <1>9 DEF SpawnDaemon
<1>10. CASE UNCHANGED lockVars
  BY <1>10 DEF lockVars
<1> QED
  BY <1>1, <1>2, <1>3, <1>4, <1>5, <1>6, <1>7, <1>8, <1>9, <1>10
  DEF LockNext, DaemonStep, CommandStep

LEMMA LockInvInductive == LockSpec => []LockInv
<1>1. LockInit => LockInv
  BY DEF LockInit, LockInv, DaemonHoldsLock, Daemon, StartedInv, GhostInv
<1>2. TypeOK /\ LockInv /\ [LockNext]_lockVars => LockInv'
  BY StartedInductive, HoldsInductive DEF LockInv
<1> QED
  BY <1>1, <1>2, LockTypeCorrect, PTL DEF LockSpec

\* Whatever starts, stops, restarts and crashes at once, of any number of processes
\* and commands: the daemon's lock is taken from it by nothing but a start that had
\* read something else there.
THEOREM LockIsTheDaemons == LockSpec => []DaemonHoldsLock
<1>1. LockInv => DaemonHoldsLock
  BY DEF LockInv
<1> QED
  BY <1>1, LockInvInductive, PTL

-------------------------------------------------------------------------------
(* The socket names the daemon. *)

\* Who has bound the socket finds its path unchanged while it listens and serves, and
\* a client that is about to remove the path has found nobody serving.
SocketInv ==
  /\ stolen = {} => \A p \in Proc : Listens(p) => socket = p
  /\ \A k \in Command : found[k] = None

\* What a serving daemon has bound stays under the socket's path, unless a client or a
\* start took something from somebody after a look that was out of date by then: no
\* stop of an earlier daemon, no restart, no start that fails and no crash does it.
THEOREM ServingStaysReachable == LockSpec => []SocketIsKept
<1>1. LockInit => SocketInv
  BY DEF LockInit, SocketInv, Listens
<1>2. TypeOK /\ LockInv /\ SocketInv /\ [LockNext]_lockVars => SocketInv'
  <2> SUFFICES ASSUME TypeOK, LockInv, SocketInv, [LockNext]_lockVars PROVE SocketInv'
    OBVIOUS
  <2> USE NoneAssumption, ActorsAssumption DEF SocketInv, Listens, TypeOK, Goto, paths
  <2>1. ASSUME NEW p \in Proc, Launch(p) \/ CheckExists(p) \/ ReadPid(p) \/ ProbePid(p)
        PROVE  SocketInv'
    BY <2>1 DEF Launch, CheckExists, ReadPid, ProbePid
  <2>2. ASSUME NEW p \in Proc, RemoveGhost(p) PROVE SocketInv'
    BY <2>2 DEF RemoveGhost
  <2>3. ASSUME NEW p \in Proc, PidFails(p) \/ LinkLock(p) \/ OpenStorage(p) PROVE SocketInv'
    BY <2>3 DEF PidFails, LinkLock, OpenStorage
  <2>4. ASSUME NEW p \in Proc, RemoveOldSocket(p) \/ Bind(p) \/ CloseSocket(p)
        PROVE  SocketInv'
    <3>1. Daemon(p) /\ ~Listens(p) /\ UNCHANGED stolen
      BY <2>4 DEF RemoveOldSocket, Bind, CloseSocket, Daemon
    <3>2. stolen = {} => \A q \in Proc : ~Listens(q)
      BY <3>1 DEF LockInv, DaemonHoldsLock, Daemon
    <3>3. QED
      BY <2>4, <3>2 DEF RemoveOldSocket, Bind, CloseSocket
  <2>5. ASSUME NEW p \in Proc, Listen(p) \/ Stop(p) \/ Unlock(p) \/ Crash(p) \/ PidReused(p)
        PROVE  SocketInv'
    BY <2>5 DEF Listen, Stop, Unlock, Crash, PidReused
  <2>6. ASSUME NEW k \in Command, Ensure(k) PROVE SocketInv'
    BY <2>6 DEF Ensure
  <2>7. ASSUME NEW k \in Command, CleanSocket(k) PROVE SocketInv'
    <3>1. stolen' = {} => stolen = {} /\ \A p \in Proc : ~Listens(p)
      BY <2>7 DEF CleanSocket
    <3>2. QED
      BY <2>7, <3>1 DEF CleanSocket
  <2>8. ASSUME NEW k \in Command, Restart(k) \/ StopAwaited(k) PROVE SocketInv'
    BY <2>8 DEF Restart, StopAwaited, Answers
  <2>9. ASSUME NEW k \in Command, NEW p \in Proc, SpawnDaemon(k, p) PROVE SocketInv'
    BY <2>9 DEF SpawnDaemon
  <2>10. CASE UNCHANGED lockVars
    BY <2>10 DEF lockVars
  <2> QED
    BY <2>1, <2>2, <2>3, <2>4, <2>5, <2>6, <2>7, <2>8, <2>9, <2>10
    DEF LockNext, DaemonStep, CommandStep
<1>3. SocketInv => SocketIsKept
  BY DEF SocketInv, SocketIsKept, ServingIsReachable, Listens
<1> QED
  BY <1>1, <1>2, <1>3, LockTypeCorrect, LockInvInductive, PTL DEF LockSpec
===============================================================================
