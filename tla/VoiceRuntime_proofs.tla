------------------------ MODULE VoiceRuntime_proofs ------------------------
(***************************************************************************)
(* Proofs about VoiceRuntime, for any tasks, ids and limits: its table is  *)
(* a bounded pool of sessions, no session is left at the provider, what    *)
(* left the table is closed, what is over stays over, every speech ends    *)
(* and is cut at most once, and audio is counted exactly.                  *)
(***************************************************************************)
EXTENDS VoiceRuntime, FiniteSetTheorems, TLAPS

Event == {"StartListening", "StartSpeaking", "FinishSpeaking", "Interrupt", "Close", "Fail"}
States == VoiceState \cup {"Unborn"}

(* No step but the insertion touches who is born, and what is over stays   *)
(* over.                                                                   *)
StatesKept ==
  \A x \in Ids :
    /\ state'[x] = "Unborn" <=> state[x] = "Unborn"
    /\ state[x] = "Closed" => state'[x] = "Closed"
    /\ state[x] = "Failed" => state'[x] \in {"Failed", "Closed"}

LEMMA Events ==
  ASSUME NEW e \in Event
  PROVE  /\ To[e] \in VoiceState
         /\ From[e] \subseteq Live
         /\ "Failed" \in From[e] => To[e] \in {"Failed", "Closed"}
<1>1. /\ From["StartListening"] = {"Created", "Interrupted"}
      /\ From["StartSpeaking"] = {"Created", "Listening", "Interrupted"}
      /\ From["FinishSpeaking"] = {"Speaking"}
      /\ From["Interrupt"] = {"Speaking"}
      /\ From["Close"] = Live /\ From["Fail"] = Live
  BY DEF From
<1>2. /\ To["StartListening"] = "Listening" /\ To["StartSpeaking"] = "Speaking"
      /\ To["FinishSpeaking"] = "Listening" /\ To["Interrupt"] = "Interrupted"
      /\ To["Close"] = "Closed" /\ To["Fail"] = "Failed"
  BY DEF To
<1> QED
  BY <1>1, <1>2 DEF Event, VoiceState, Live

LEMMA Meanings ==
  /\ ProviderEvent = {"Ready", "SpeechStarted", "SpeechEnded", "SpeechInterrupted",
                      "Error", "Completed"}
  /\ \A e \in ProviderEvent : Meaning[e] \in Event
<1>1. ProviderEvent = {"Ready", "SpeechStarted", "SpeechEnded", "SpeechInterrupted",
                       "Error", "Completed"}
  BY DEF ProviderEvent, Meaning
<1>2. /\ Meaning["Ready"] = "StartListening" /\ Meaning["SpeechStarted"] = "StartSpeaking"
      /\ Meaning["SpeechEnded"] = "FinishSpeaking" /\ Meaning["SpeechInterrupted"] = "Interrupt"
      /\ Meaning["Error"] = "Fail" /\ Meaning["Completed"] = "Close"
  BY DEF Meaning
<1> QED
  BY <1>1, <1>2 DEF Event

LEMMA AppliedKeeps ==
  ASSUME NEW s \in Ids, NEW e \in Event, state \in [Ids -> States],
         state' = Applied(s, e)
  PROVE  /\ StatesKept /\ state' \in [Ids -> States]
         /\ e = "Close" /\ state[s] # "Unborn" => state'[s] = "Closed"
<1> DEFINE to == To[e]
           from == From[e]
<1>1. /\ to \in VoiceState /\ from \subseteq Live
      /\ "Failed" \in from => to \in {"Failed", "Closed"}
      /\ e = "Close" => to = "Closed" /\ from = Live
  <2>1. From["Close"] = Live /\ To["Close"] = "Closed"
    BY DEF From, To
  <2> QED
    BY <2>1, Events
<1>2. state' = IF state[s] \in from THEN [state EXCEPT ![s] = to] ELSE state
  BY DEF Applied, Legal
<1> HIDE DEF to, from
<1>3. \A x \in Ids : state'[x] = IF x = s /\ state[s] \in from THEN to ELSE state[x]
  BY <1>2
<1>4. state' \in [Ids -> States]
  BY <1>1, <1>2 DEF States
<1>5. StatesKept
  BY <1>1, <1>3 DEF StatesKept, VoiceState, Live
<1>6. e = "Close" /\ state[s] # "Unborn" => state'[s] = "Closed"
  BY <1>1, <1>3 DEF States, VoiceState
<1> QED
  BY <1>4, <1>5, <1>6

-----------------------------------------------------------------------------
(* The invariant: what a task knows of its session where it stands.        *)
Task == [pc : Pcs, s : Ids \cup {0}, n : Nat, ev : ProviderEvent, todo : SUBSET Ids]
Beginning == {"opening", "inserting"}
Acting == {"greeting", "over", "sending", "speaking", "cancelling", "ending", "failing",
           "closing", "removing", "polling", "handling"}

Knows(t, q, st, op) ==
  /\ q.pc \in Beginning => st[q.s] = "Unborn"
  /\ q.pc \in Beginning \cup {"undoing"} => t \in Callers
  /\ q.pc \in Acting => st[q.s] # "Unborn"
  /\ q.pc \notin {"none", "sweeping"} => q.s \in Ids
  /\ q.pc \in {"closing", "removing"} => q.s \notin op
  /\ q.pc = "removing" => st[q.s] = "Closed"
  /\ \A x \in q.todo : st[x] # "Unborn"

Typed ==
  /\ held \subseteq Ids /\ open \subseteq Ids
  /\ state \in [Ids -> States]
  /\ task \in [Tasks -> Task]
  /\ queue \in [Ids -> Seq(ProviderEvent)]
HeldAreBorn == \A x \in held : state[x] # "Unborn"
TasksKnow == \A t \in Tasks : Knows(t, task[t], state, open)
StartsApart ==
  \A t, u \in Tasks :
    t # u /\ task[t].pc \in Beginning /\ task[u].pc \in Beginning => task[t].s # task[u].s
IInv == Typed /\ HeldAreBorn /\ TasksKnow /\ StartsApart /\ NoProviderLeak /\ GoneIsClosed

-----------------------------------------------------------------------------
Moves(t, q) == task' = [task EXCEPT ![t] = q]
(* What a step of one task has to show of it and of the others.            *)
LEMMA TaskMoves ==
  ASSUME NEW t \in Tasks, NEW q \in Task, IInv, Moves(t, q),
         Knows(t, q, state', open'),
         \A u \in Tasks \ {t} : Knows(u, task[u], state', open'),
         q.pc \in Beginning =>
           \A u \in Tasks \ {t} : task[u].pc \in Beginning => task[u].s # q.s
  PROVE  task' \in [Tasks -> Task] /\ TasksKnow' /\ StartsApart'
<1>1. task \in [Tasks -> Task]
  BY DEF IInv, Typed
<1>2. task' \in [Tasks -> Task]
  BY <1>1 DEF Moves
<1>3. \A u \in Tasks : task'[u] = IF u = t THEN q ELSE task[u]
  BY <1>1 DEF Moves
<1>4. \A u \in Tasks : Knows(u, task'[u], state', open')
  BY <1>3
<1>5. StartsApart'
  BY <1>3 DEF IInv, StartsApart
<1> QED
  BY <1>2, <1>4, <1>5 DEF TasksKnow

(* A step of one task that starts, inserts and removes no session.         *)
Mildly(t, q) ==
  /\ q \in Task /\ Moves(t, q) /\ StatesKept
  /\ held' = held /\ open' \subseteq open /\ state' \in [Ids -> States]
  /\ queue' \in [Ids -> Seq(ProviderEvent)]
  /\ Knows(t, q, state', open')
  /\ q.pc \in Beginning =>
       \A u \in Tasks \ {t} : task[u].pc \in Beginning => task[u].s # q.s
  /\ task[t].pc \in {"inserting", "undoing"} =>
       \/ q.pc \in {"inserting", "undoing"} /\ q.s = task[t].s
       \/ task[t].s \notin open'

LEMMA MildStep ==
  ASSUME NEW t \in Tasks, NEW q, IInv, Mildly(t, q)
  PROVE  IInv'
<1>0. /\ held \subseteq Ids /\ open \subseteq Ids /\ task \in [Tasks -> Task]
      /\ Callers \subseteq Tasks
  BY DEF IInv, Typed, Tasks
<1>1. \A u \in Tasks : Knows(u, task[u], state', open')
  <2> SUFFICES ASSUME NEW u \in Tasks  PROVE  Knows(u, task[u], state', open')
    OBVIOUS
  <2>1. Knows(u, task[u], state, open) /\ task[u].todo \subseteq Ids
    BY <1>0 DEF IInv, TasksKnow, Task
  <2> QED
    BY <2>1 DEF Knows, StatesKept, Beginning, Acting, Mildly
<1>2. task' \in [Tasks -> Task] /\ TasksKnow' /\ StartsApart'
  BY <1>1, TaskMoves DEF Mildly
<1>3. Typed'
  BY <1>0, <1>2 DEF Typed, Mildly
<1>4. HeldAreBorn'
  BY <1>0 DEF IInv, HeldAreBorn, StatesKept, Mildly
<1>5. NoProviderLeak'
  <2>1. \A u \in Callers : task'[u] = IF u = t THEN q ELSE task[u]
    BY <1>0 DEF Moves, Mildly
  <2> SUFFICES ASSUME NEW x \in open', x \notin held
               PROVE  \E u \in Callers : /\ task'[u].pc \in {"inserting", "undoing"}
                                         /\ x = task'[u].s
    BY DEF NoProviderLeak, Mildly
  <2>2. PICK u \in Callers : task[u].pc \in {"inserting", "undoing"} /\ x = task[u].s
    BY DEF IInv, NoProviderLeak, Mildly
  <2> QED
    BY <2>1, <2>2 DEF Mildly
<1>6. GoneIsClosed'
  BY <1>0 DEF IInv, GoneIsClosed, StatesKept, Mildly
<1> QED
  BY <1>2, <1>3, <1>4, <1>5, <1>6 DEF IInv

-----------------------------------------------------------------------------
(* What the provider queues are events of its own.                         *)
LEMMA Emitted ==
  ASSUME NEW s, NEW events \in Seq(ProviderEvent), Typed, Emit(s, events)
  PROVE  queue' \in [Ids -> Seq(ProviderEvent)]
<1>1. CASE s \in held
  <2>1. s \in Ids /\ queue[s] \in Seq(ProviderEvent)
    BY <1>1 DEF Typed
  <2>2. queue[s] \o events \in Seq(ProviderEvent)
    BY <2>1
  <2> QED
    BY <1>1, <2>1, <2>2 DEF Emit, Typed
<1>2. CASE s \notin held
  BY <1>2 DEF Emit, Typed
<1> QED
  BY <1>1, <1>2

LEMMA EventLists ==
  /\ \A e \in ProviderEvent : <<e>> \in Seq(ProviderEvent)
  /\ <<"SpeechEnded">> \in Seq(ProviderEvent)
  /\ <<"SpeechInterrupted">> \in Seq(ProviderEvent)
  /\ <<"Completed">> \in Seq(ProviderEvent)
  /\ <<"SpeechStarted", "SpeechEnded">> \in Seq(ProviderEvent)
<1>1. {"SpeechStarted", "SpeechEnded", "SpeechInterrupted", "Completed"} \subseteq ProviderEvent
  BY Meanings
<1> QED
  BY <1>1

(* What all mild steps of t have in common; its session is s'.             *)
Around(t) ==
  /\ StatesKept /\ state' \in [Ids -> States]
  /\ held' = held /\ open' \subseteq open
  /\ queue' \in [Ids -> Seq(ProviderEvent)]

LEMMA Unmoved ==
  ASSUME Typed, UNCHANGED <<registry, provider>>
  PROVE  \A t : Around(t)
  BY DEF Typed, registry, provider, Around, StatesKept

LEMMA Returns ==
  ASSUME NEW t \in Tasks, IInv, Return(t), Around(t),
         task[t].pc \in {"inserting", "undoing"} => task[t].s \notin open'
  PROVE  \E q : Mildly(t, q)
<1>1. NoTask \in Task /\ Knows(t, NoTask, state', open')
  BY Meanings DEF NoTask, Task, Pcs, Knows, Beginning, Acting
<1>2. NoTask.pc \notin Beginning
  BY DEF NoTask, Beginning
<1>3. Mildly(t, NoTask)
  BY <1>1, <1>2 DEF Mildly, Moves, Return, Around
<1> QED
  BY <1>3

(* A task that goes on with its session.                                   *)
LEMMA GoesOn ==
  ASSUME NEW t \in Tasks, NEW q \in Task, IInv, Moves(t, q), Around(t),
         q.s = task[t].s, q.todo = task[t].todo,
         q.pc \in Acting \cup {"undoing"},
         q.pc \in Acting => task[t].pc \in Acting,
         q.pc = "undoing" => task[t].pc = "inserting",
         q.pc \in {"closing", "removing"} => task[t].s \notin open',
         q.pc = "removing" => state'[task[t].s] = "Closed"
  PROVE  \E r : Mildly(t, r)
<1>1. Knows(t, task[t], state, open) /\ task[t] \in Task
  BY DEF IInv, TasksKnow, Typed
<1>2. task[t].s \in Ids /\ task[t].todo \subseteq Ids
  BY <1>1 DEF Knows, Acting, Task
<1>3. Knows(t, q, state', open')
  BY <1>1, <1>2 DEF Knows, Around, StatesKept, Acting, Beginning
<1>4. Mildly(t, q)
  BY <1>1, <1>3 DEF Mildly, Around, Acting, Beginning
<1> QED
  BY <1>4

(* A task that takes up a session it knows. *)
LEMMA TakesUp ==
  ASSUME NEW t \in Tasks, NEW q \in Task, IInv, Moves(t, q), Around(t),
         q.pc # "sweeping" => q.s \in Ids /\ state[q.s] # "Unborn",
         \A x \in q.todo : state[x] # "Unborn",
         task[t].pc \in {"none", "sweeping"},
         q.pc \in (Acting \ {"closing", "removing"}) \cup {"sweeping"}
  PROVE  \E r : Mildly(t, r)
<1>1. q.todo \subseteq Ids
  BY DEF Task
<1>2. Knows(t, q, state', open')
  BY <1>1 DEF Knows, Around, StatesKept, Acting, Beginning
<1>3. Mildly(t, q)
  BY <1>2 DEF Mildly, Around, Acting, Beginning
<1> QED
  BY <1>3

-----------------------------------------------------------------------------
(* The mild steps, by what they are part of.                               *)
LEMMA StartsMildly ==
  ASSUME NEW t \in Callers, IInv,
         StartCheck(t) \/ StartFails(t) \/ StartRefused(t) \/ StartUndone(t) \/ StartGreets(t)
  PROVE  \E q : Mildly(t, q)
<1>0. /\ t \in Tasks /\ Typed /\ task \in [Tasks -> Task] /\ task[t] \in Task
      /\ Knows(t, task[t], state, open)
  BY DEF IInv, Typed, TasksKnow, Tasks
<1>1. CASE StartCheck(t)
  <2>1. PICK s \in Ids : Unused(s) /\ Enter(t, "opening", s)
    BY <1>1 DEF StartCheck
  <2> DEFINE q == [task[t] EXCEPT !.pc = "opening", !.s = s]
  <2>2. task' = [task EXCEPT ![t] = q]
    BY <1>0, <2>1 DEF Enter
  <2>3. q \in Task /\ q.pc = "opening" /\ q.s = s /\ q.todo = task[t].todo
    BY <1>0 DEF Task, Pcs
  <2> HIDE DEF q
  <2>4. Around(t)
    BY <1>0, <1>1, Unmoved DEF StartCheck
  <2>5. state[s] = "Unborn" /\ state'[s] = "Unborn"
    BY <2>1, <2>4 DEF Unused, Around, StatesKept
  <2>6. \A x \in q.todo : state'[x] # "Unborn"
    BY <1>0, <2>3, <2>4 DEF Knows, Task, Around, StatesKept
  <2>7. Knows(t, q, state', open')
    BY <2>3, <2>5, <2>6 DEF Knows, Beginning, Acting
  <2>8. \A u \in Tasks : task[u].pc \in Beginning => task[u].s # s
    BY <2>1 DEF Unused, Beginning
  <2>9. Mildly(t, q)
    BY <1>1, <2>2, <2>3, <2>4, <2>7, <2>8 DEF Mildly, Moves, Around, StartCheck, At
  <2> QED
    BY <2>9
<1>2. CASE StartFails(t)
  BY <1>0, <1>2, Returns, Unmoved DEF StartFails, At
<1>3. CASE StartRefused(t)
  <2> DEFINE q == [task[t] EXCEPT !.pc = "undoing"]
  <2>1. task' = [task EXCEPT ![t] = q]
    BY <1>0, <1>3 DEF StartRefused, Goto
  <2>2. q \in Task /\ q.pc = "undoing" /\ q.s = task[t].s /\ q.todo = task[t].todo
    BY <1>0 DEF Task, Pcs
  <2> HIDE DEF q
  <2>3. Around(t) /\ task[t].pc = "inserting"
    BY <1>0, <1>3, Unmoved DEF StartRefused, At
  <2> QED
    BY <1>0, <2>1, <2>2, <2>3, GoesOn DEF Moves, Acting
<1>4. CASE StartUndone(t)
  <2>1. open' = open \ {task[t].s} /\ UNCHANGED registry /\ Return(t)
    BY <1>4 DEF StartUndone, Stops, StopsNot
  <2>2. queue' \in [Ids -> Seq(ProviderEvent)]
    BY <1>0, <1>4, Emitted, EventLists DEF StartUndone, Stops, StopsNot, Typed
  <2>3. Around(t)
    BY <1>0, <2>1, <2>2 DEF Around, registry, StatesKept, Typed
  <2> QED
    BY <1>0, <2>1, <2>3, Returns
<1>5. CASE StartGreets(t)
  <2>1. task[t].pc = "greeting" /\ task[t].s \in Ids
    BY <1>0, <1>5 DEF StartGreets, At, Knows
  <2>2. StatesKept /\ state' \in [Ids -> States]
    BY <1>0, <1>5, <2>1, AppliedKeeps DEF StartGreets, Apply, Typed, Event
  <2>3. Around(t)
    BY <1>0, <1>5, <2>2 DEF StartGreets, Around, provider, Typed
  <2> QED
    BY <1>0, <1>5, <2>1, <2>3, Returns DEF StartGreets
<1> QED
  BY <1>1, <1>2, <1>3, <1>4, <1>5

(* Requests that go on, or begin, in one place, with the session as it is. *)
LEMMA GotoMildly ==
  ASSUME NEW t \in Tasks, NEW pc \in Acting, IInv, Goto(t, pc), Around(t),
         task[t].pc \in Acting,
         pc \in {"closing", "removing"} => task[t].s \notin open',
         pc = "removing" => state'[task[t].s] = "Closed"
  PROVE  \E q : Mildly(t, q)
<1> DEFINE q == [task[t] EXCEPT !.pc = pc]
<1>0. task \in [Tasks -> Task] /\ task[t] \in Task
  BY DEF IInv, Typed
<1>1. task' = [task EXCEPT ![t] = q]
  BY <1>0 DEF Goto
<1>2. q \in Task /\ q.pc = pc /\ q.s = task[t].s /\ q.todo = task[t].todo
  BY <1>0 DEF Task, Pcs, Acting
<1> HIDE DEF q
<1> QED
  BY <1>1, <1>2, GoesOn DEF Moves, Acting

LEMMA EnterMildly ==
  ASSUME NEW t \in Tasks, NEW pc \in Acting \ {"closing", "removing"}, NEW s \in held,
         IInv, Enter(t, pc, s), Around(t), task[t].pc = "none"
  PROVE  \E q : Mildly(t, q)
<1> DEFINE q == [task[t] EXCEPT !.pc = pc, !.s = s]
<1>0. /\ task \in [Tasks -> Task] /\ task[t] \in Task /\ s \in Ids /\ state[s] # "Unborn"
      /\ Knows(t, task[t], state, open)
  BY DEF IInv, Typed, HeldAreBorn, TasksKnow
<1>1. task' = [task EXCEPT ![t] = q]
  BY <1>0 DEF Enter
<1>2. q \in Task /\ q.pc = pc /\ q.s = s /\ q.todo = task[t].todo
  BY <1>0 DEF Task, Pcs, Acting
<1>3. \A x \in q.todo : state[x] # "Unborn"
  BY <1>0, <1>2 DEF Knows
<1> HIDE DEF q
<1> QED
  BY <1>0, <1>1, <1>2, <1>3, TakesUp DEF Moves

LEMMA AnswersMildly ==
  ASSUME NEW t \in Tasks, IInv, Answered(t)
  PROVE  \E q : Mildly(t, q)
<1>0. /\ Typed /\ task \in [Tasks -> Task] /\ task[t] \in Task
      /\ Knows(t, task[t], state, open)
  BY DEF IInv, Typed, TasksKnow
<1>1. CASE AudioRefused(t)
  <2>1. Around(t)
    BY <1>0, <1>1 DEF AudioRefused, Around, provider, Typed, StatesKept
  <2> QED
    BY <1>1, <2>1, Returns DEF AudioRefused, At
<1>2. CASE AudioSent(t)
  <2>1. queue' \in [Ids -> Seq(ProviderEvent)]
    BY <1>0, <1>2, Emitted, EventLists DEF AudioSent
  <2>2. Around(t)
    BY <1>0, <1>2, <2>1 DEF AudioSent, Around, Typed, StatesKept
  <2> QED
    BY <1>2, <2>2, Returns DEF AudioSent, At
<1>3. CASE AudioFails(t)
  <2> DEFINE q == [task[t] EXCEPT !.pc = "failing", !.n = 0]
  <2>1. task' = [task EXCEPT ![t] = q]
    BY <1>0, <1>3 DEF AudioFails
  <2>2. q \in Task /\ q.pc = "failing" /\ q.s = task[t].s /\ q.todo = task[t].todo
    BY <1>0 DEF Task, Pcs
  <2> HIDE DEF q
  <2>3. Around(t) /\ task[t].pc = "sending"
    BY <1>0, <1>3 DEF AudioFails, At, Around, provider, Typed, StatesKept
  <2> QED
    BY <2>1, <2>2, <2>3, GoesOn DEF Moves, Acting
<1>4. CASE Spoken(t)
  <2>1. queue' \in [Ids -> Seq(ProviderEvent)]
    BY <1>0, <1>4, Emitted, EventLists DEF Spoken
  <2>2. Around(t)
    BY <1>0, <1>4, <2>1 DEF Spoken, Around, Typed, StatesKept
  <2> QED
    BY <1>4, <2>2, Returns DEF Spoken, At
<1>5. CASE Interrupted(t)
  <2>1. queue' \in [Ids -> Seq(ProviderEvent)]
    BY <1>0, <1>5, Emitted, EventLists DEF Interrupted
  <2>2. Around(t)
    BY <1>0, <1>5, <2>1 DEF Interrupted, Around, Typed, StatesKept
  <2> QED
    BY <1>5, <2>2, Returns DEF Interrupted, At
<1>6. CASE CallFails(t)
  BY <1>0, <1>6, Unmoved, GotoMildly DEF CallFails, Acting
<1>7. CASE Fail(t)
  <2>1. task[t].pc = "failing" /\ task[t].s \in Ids
    BY <1>0, <1>7 DEF Fail, At, Knows
  <2>2. StatesKept /\ state' \in [Ids -> States]
    BY <1>0, <1>7, <2>1, AppliedKeeps DEF Fail, Apply, Typed, Event
  <2>3. Around(t)
    BY <1>0, <1>7, <2>2 DEF Fail, Around, provider, Typed
  <2> QED
    BY <1>7, <2>1, <2>3, Returns DEF Fail
<1> QED
  BY <1>1, <1>2, <1>3, <1>4, <1>5, <1>6, <1>7 DEF Answered

LEMMA AsksMildly ==
  ASSUME NEW t \in Tasks, NEW s \in Ids, IInv,
         \/ Speak(t, s) \/ Interrupt(t, s) \/ EndSession(t, s) \/ PollBegin(t, s)
         \/ \E n \in Chunks : SendAudio(t, s, n)
  PROVE  \E q : Mildly(t, q)
<1>0. /\ Typed /\ task \in [Tasks -> Task] /\ task[t] \in Task
      /\ Knows(t, task[t], state, open)
  BY DEF IInv, Typed, TasksKnow
<1>1. Known(t, s)
  BY DEF Speak, Interrupt, EndSession, PollBegin, SendAudio
<1>2. s \in held /\ task[t].pc = "none" /\ state[s] # "Unborn"
  BY <1>1 DEF Known, At, IInv, HeldAreBorn
<1>3. CASE Speak(t, s) \/ Interrupt(t, s)
  <2>1. StatesKept /\ state' \in [Ids -> States]
    BY <1>0, <1>3, AppliedKeeps DEF Speak, Interrupt, Apply, Typed, Event
  <2>2. Around(t)
    BY <1>0, <1>3, <2>1 DEF Speak, Interrupt, Around, provider, Typed
  <2> QED
    BY <1>2, <1>3, <2>2, EnterMildly DEF Speak, Interrupt, Acting
<1>4. CASE EndSession(t, s) \/ PollBegin(t, s)
  BY <1>0, <1>2, <1>4, Unmoved, EnterMildly DEF EndSession, PollBegin, Acting
<1>5. ASSUME NEW n \in Chunks, SendAudio(t, s, n)
      PROVE  \E q : Mildly(t, q)
  <2>1. PICK pc \in {"over", "sending"} :
          task' = [task EXCEPT ![t].pc = pc, ![t].s = s, ![t].n = n]
    BY <1>5 DEF SendAudio
  <2> DEFINE q == [task[t] EXCEPT !.pc = pc, !.s = s, !.n = n]
  <2>2. task' = [task EXCEPT ![t] = q]
    BY <1>0, <2>1
  <2>3. n \in Nat
    BY VoiceRuntimeAssumption
  <2>4. q \in Task /\ q.pc = pc /\ q.s = s /\ q.todo = task[t].todo
    BY <1>0, <2>3 DEF Task, Pcs
  <2>5. \A x \in q.todo : state[x] # "Unborn"
    BY <1>0, <2>4 DEF Knows
  <2> HIDE DEF q
  <2>6. Around(t)
    BY <1>0, <1>5 DEF SendAudio, Around, provider, Typed, StatesKept
  <2> QED
    BY <1>2, <2>2, <2>4, <2>5, <2>6, TakesUp DEF Moves, Acting
<1> QED
  BY <1>3, <1>4, <1>5

LEMMA EndsMildly ==
  ASSUME NEW t \in Tasks, IInv, EndAsked(t) \/ Close(t)
  PROVE  \E q : Mildly(t, q)
<1>0. /\ Typed /\ task \in [Tasks -> Task] /\ task[t] \in Task
      /\ Knows(t, task[t], state, open)
  BY DEF IInv, Typed, TasksKnow
<1>1. CASE EndAsked(t)
  <2>1. task[t].pc = "ending" /\ task[t].s \in Ids
    BY <1>0, <1>1 DEF EndAsked, At, Knows
  <2>2. open' = open \ {task[t].s} /\ held' = held /\ Goto(t, "closing")
    BY <1>1 DEF EndAsked, Stops, StopsNot
  <2>3. queue' \in [Ids -> Seq(ProviderEvent)]
    BY <1>0, <1>1, Emitted, EventLists DEF EndAsked, Stops, StopsNot, Typed
  <2>4. StatesKept /\ state' \in [Ids -> States]
    <3>1. CASE state' = state
      BY <1>0, <3>1 DEF StatesKept, Typed
    <3>2. CASE state' = Applied(task[t].s, "Fail")
      BY <1>0, <2>1, <3>2, AppliedKeeps DEF Typed, Event
    <3> QED
      BY <1>1, <3>1, <3>2 DEF EndAsked, Apply
  <2>5. Around(t)
    BY <2>2, <2>3, <2>4 DEF Around
  <2> QED
    BY <2>1, <2>2, <2>5, GotoMildly DEF Acting
<1>2. CASE Close(t)
  <2>1. /\ task[t].pc = "closing" /\ task[t].s \in Ids /\ task[t].s \notin open
        /\ state[task[t].s] # "Unborn"
    BY <1>0, <1>2 DEF Close, At, Knows, Acting
  <2>2. /\ StatesKept /\ state' \in [Ids -> States]
        /\ state'[task[t].s] = "Closed"
    BY <1>0, <1>2, <2>1, AppliedKeeps DEF Close, Apply, Typed, Event
  <2>3. Around(t) /\ open' = open
    BY <1>0, <1>2, <2>2 DEF Close, Around, provider, Typed
  <2> QED
    BY <1>2, <2>1, <2>2, <2>3, GotoMildly DEF Close, Acting
<1> QED
  BY <1>1, <1>2

LEMMA SweepsMildly ==
  ASSUME NEW t \in Tasks, IInv, SweepBegin(t) \/ SweepNext(t) \/ SweepEnd(t)
  PROVE  \E q : Mildly(t, q)
<1>0. /\ Typed /\ task \in [Tasks -> Task] /\ task[t] \in Task
      /\ Knows(t, task[t], state, open) /\ HeldAreBorn
  BY DEF IInv, Typed, TasksKnow
<1>1. Around(t)
  BY <1>0, Unmoved DEF SweepBegin, SweepNext, SweepEnd
<1>2. CASE SweepBegin(t)
  <2> DEFINE q == [task[t] EXCEPT !.pc = "sweeping", !.todo = held]
  <2>1. task' = [task EXCEPT ![t] = q]
    BY <1>0, <1>2 DEF SweepBegin
  <2>2. q \in Task /\ q.pc = "sweeping" /\ q.todo = held
    BY <1>0 DEF Task, Pcs, Typed
  <2> HIDE DEF q
  <2>3. \A x \in q.todo : state[x] # "Unborn"
    BY <1>0, <2>2 DEF HeldAreBorn
  <2> QED
    BY <1>1, <1>2, <2>1, <2>2, <2>3, TakesUp DEF Moves, SweepBegin, At
<1>3. CASE SweepNext(t)
  <2>1. PICK s \in task[t].todo, pc \in {"ending", "sweeping"} :
          task' = [task EXCEPT ![t].pc = pc, ![t].s = s, ![t].todo = @ \ {s}]
    BY <1>3 DEF SweepNext
  <2> DEFINE q == [task[t] EXCEPT !.pc = pc, !.s = s, !.todo = @ \ {s}]
  <2>2. task' = [task EXCEPT ![t] = q]
    BY <1>0, <2>1
  <2>3. q \in Task /\ q.pc = pc /\ q.s = s /\ q.todo = task[t].todo \ {s} /\ s \in Ids
    BY <1>0 DEF Task, Pcs
  <2>4. state[s] # "Unborn" /\ \A x \in q.todo : state[x] # "Unborn"
    BY <1>0, <2>3 DEF Knows
  <2> HIDE DEF q
  <2> QED
    BY <1>1, <1>3, <2>2, <2>3, <2>4, TakesUp DEF Moves, SweepNext, At, Acting
<1>4. CASE SweepEnd(t)
  BY <1>1, <1>4, Returns DEF SweepEnd, At
<1> QED
  BY <1>2, <1>3, <1>4

LEMMA PollsMildly ==
  ASSUME NEW t \in Tasks, IInv, PollEvent(t) \/ Handle(t) \/ PollEnd(t)
  PROVE  \E q : Mildly(t, q)
<1>0. /\ Typed /\ task \in [Tasks -> Task] /\ task[t] \in Task
      /\ Knows(t, task[t], state, open)
  BY DEF IInv, Typed, TasksKnow
<1>1. CASE PollEvent(t)
  <2> DEFINE e == Head(queue[task[t].s])
             n == task[t].n + 1
             q == [task[t] EXCEPT !.pc = "handling", !.n = n, !.ev = e]
  <2>1. task[t].pc = "polling" /\ task[t].s \in Ids /\ queue[task[t].s] # <<>>
    BY <1>0, <1>1 DEF PollEvent, At, Knows
  <2>2. queue[task[t].s] \in Seq(ProviderEvent)
    BY <1>0, <2>1 DEF Typed
  <2>3. e \in ProviderEvent /\ Tail(queue[task[t].s]) \in Seq(ProviderEvent)
    BY <2>1, <2>2
  <2>4. task' = [task EXCEPT ![t] = q]
    BY <1>0, <1>1 DEF PollEvent
  <2>5. queue' \in [Ids -> Seq(ProviderEvent)]
    BY <1>0, <1>1, <2>3 DEF PollEvent, Typed
  <2> HIDE DEF e
  <2>6. n \in Nat
    BY <1>0 DEF Task
  <2> HIDE DEF n
  <2>7. q \in Task /\ q.pc = "handling" /\ q.s = task[t].s /\ q.todo = task[t].todo
    BY <1>0, <2>3, <2>6 DEF Task, Pcs
  <2> HIDE DEF q
  <2>8. Around(t)
    BY <1>0, <1>1, <2>5 DEF PollEvent, Around, registry, Typed, StatesKept
  <2> QED
    BY <2>1, <2>4, <2>7, <2>8, GoesOn DEF Moves, Acting
<1>2. CASE Handle(t)
  <2>1. task[t].pc = "handling" /\ task[t].s \in Ids /\ Meaning[task[t].ev] \in Event
    BY <1>0, <1>2, Meanings DEF Handle, At, Knows, Task
  <2>2. StatesKept /\ state' \in [Ids -> States]
    BY <1>0, <1>2, <2>1, AppliedKeeps DEF Handle, Apply, Typed
  <2>3. Around(t)
    BY <1>0, <1>2, <2>2 DEF Handle, Around, provider, Typed
  <2> QED
    BY <1>2, <2>1, <2>3, GotoMildly DEF Handle, Acting
<1>3. CASE PollEnd(t)
  <2>1. Around(t)
    BY <1>0, <1>3 DEF PollEnd, Around, provider, Typed, StatesKept
  <2> QED
    BY <1>3, <2>1, Returns DEF PollEnd, At
<1> QED
  BY <1>1, <1>2, <1>3

MildAction(t) ==
  \/ /\ t \in Callers
     /\ \/ StartCheck(t) \/ StartFails(t) \/ StartRefused(t) \/ StartUndone(t) \/ StartGreets(t)
        \/ Answered(t) \/ EndAsked(t) \/ Close(t)
        \/ \E s \in Ids : Speak(t, s) \/ Interrupt(t, s) \/ EndSession(t, s)
        \/ \E s \in Ids, n \in Chunks : SendAudio(t, s, n)
  \/ t \in Pollers /\ Polling(t)
  \/ /\ t \in Sweepers
     /\ SweepBegin(t) \/ SweepNext(t) \/ SweepEnd(t) \/ EndAsked(t) \/ Close(t)

LEMMA MildActions ==
  ASSUME NEW t, IInv, MildAction(t)
  PROVE  t \in Tasks /\ \E q : Mildly(t, q)
<1>1. t \in Tasks
  BY DEF MildAction, Tasks
<1>2. CASE /\ t \in Callers
           /\ \/ StartCheck(t) \/ StartFails(t) \/ StartRefused(t) \/ StartUndone(t)
              \/ StartGreets(t)
  BY <1>1, <1>2, StartsMildly
<1>3. CASE Answered(t)
  BY <1>1, <1>3, AnswersMildly
<1>4. CASE EndAsked(t) \/ Close(t)
  BY <1>1, <1>4, EndsMildly
<1>5. CASE \/ \E s \in Ids : Speak(t, s) \/ Interrupt(t, s) \/ EndSession(t, s) \/ PollBegin(t, s)
           \/ \E s \in Ids, n \in Chunks : SendAudio(t, s, n)
  BY <1>1, <1>5, AsksMildly
<1>6. CASE SweepBegin(t) \/ SweepNext(t) \/ SweepEnd(t)
  BY <1>1, <1>6, SweepsMildly
<1>7. CASE PollEvent(t) \/ Handle(t) \/ PollEnd(t)
  BY <1>1, <1>7, PollsMildly
<1> QED
  BY <1>1, <1>2, <1>3, <1>4, <1>5, <1>6, <1>7 DEF MildAction, Polling

-----------------------------------------------------------------------------
(* The steps that start, insert and remove a session.                      *)
LEMMA OpenedKeeps ==
  ASSUME NEW t \in Callers, IInv, StartOpened(t)  PROVE  IInv'
<1> DEFINE q == [task[t] EXCEPT !.pc = "inserting"]
<1>0. /\ t \in Tasks /\ Typed /\ task \in [Tasks -> Task] /\ task[t] \in Task
      /\ \A u \in Tasks : Knows(u, task[u], state, open)
  BY DEF IInv, Typed, TasksKnow, Tasks
<1>1. /\ task[t].pc = "opening" /\ task[t].s \in Ids /\ state[task[t].s] = "Unborn"
      /\ open' = open \cup {task[t].s}
      /\ UNCHANGED <<held, state, queue>>
  BY <1>0 DEF StartOpened, At, Knows, Beginning, registry
<1>2. task' = [task EXCEPT ![t] = q]
  BY <1>0 DEF StartOpened, Goto
<1>3. q \in Task /\ q.pc = "inserting" /\ q.s = task[t].s /\ q.todo = task[t].todo
  BY <1>0 DEF Task, Pcs
<1> HIDE DEF q
<1>4. \A u \in Tasks : Knows(u, task[u], state', open')
  BY <1>0, <1>1 DEF Knows, Acting
<1>5. Knows(t, q, state', open')
  BY <1>0, <1>1, <1>3, <1>4 DEF Knows, Acting, Beginning
<1>6. \A u \in Tasks \ {t} : task[u].pc \in Beginning => task[u].s # q.s
  BY <1>0, <1>1, <1>3 DEF IInv, StartsApart, Beginning
<1>7. task' \in [Tasks -> Task] /\ TasksKnow' /\ StartsApart'
  BY <1>0, <1>2, <1>3, <1>4, <1>5, <1>6, TaskMoves DEF Moves
<1>8. Typed' /\ HeldAreBorn' /\ GoneIsClosed'
  BY <1>0, <1>1, <1>7 DEF IInv, Typed, HeldAreBorn, GoneIsClosed
<1>9. NoProviderLeak'
  <2>1. task'[t] = q /\ \A u \in Callers \ {t} : task'[u] = task[u]
    BY <1>0, <1>2 DEF Tasks
  <2> SUFFICES ASSUME NEW x \in open', x \notin held
               PROVE  \E u \in Callers : /\ task'[u].pc \in {"inserting", "undoing"}
                                         /\ x = task'[u].s
    BY <1>1 DEF NoProviderLeak
  <2>2. CASE x = task[t].s
    BY <1>3, <2>1, <2>2
  <2>3. CASE x # task[t].s
    <3>1. PICK u \in Callers : task[u].pc \in {"inserting", "undoing"} /\ x = task[u].s
      BY <1>1, <2>3 DEF IInv, NoProviderLeak
    <3> QED
      BY <1>1, <2>1, <3>1
  <2> QED
    BY <2>2, <2>3
<1> QED
  BY <1>7, <1>8, <1>9 DEF IInv

LEMMA InsertedKeeps ==
  ASSUME NEW t \in Callers, IInv, StartInsert(t)
  PROVE  /\ IInv' /\ task[t].s \in Ids /\ state[task[t].s] = "Unborn"
         /\ state'[task[t].s] = "Created"
         /\ \A x \in Ids \ {task[t].s} : state'[x] = state[x]
<1> DEFINE s == task[t].s
           q == [task[t] EXCEPT !.pc = "greeting"]
<1>0. /\ t \in Tasks /\ Typed /\ task \in [Tasks -> Task] /\ task[t] \in Task
      /\ \A u \in Tasks : Knows(u, task[u], state, open)
  BY DEF IInv, Typed, TasksKnow, Tasks
<1>1. /\ task[t].pc = "inserting" /\ s \in Ids /\ state[s] = "Unborn"
      /\ held' = held \cup {s} /\ state' = [state EXCEPT ![s] = "Created"]
      /\ queue' = [queue EXCEPT ![s] = <<"Ready">>] /\ open' = open
  BY <1>0 DEF StartInsert, At, Knows, Beginning
<1>2. task' = [task EXCEPT ![t] = q]
  BY <1>0 DEF StartInsert, Goto
<1>3. q \in Task /\ q.pc = "greeting" /\ q.s = s /\ q.todo = task[t].todo
  BY <1>0 DEF Task, Pcs
<1> HIDE DEF q
<1>4. state'[s] = "Created" /\ \A x \in Ids \ {s} : state'[x] = state[x]
  BY <1>0, <1>1 DEF Typed
<1>5. \A u \in Tasks \ {t} : task[u].pc \in Beginning => task[u].s # s
  BY <1>0, <1>1 DEF IInv, StartsApart, Beginning
<1>6. \A u \in Tasks : task[u].todo \subseteq Ids
  BY <1>0 DEF Task
<1>7. \A u \in Tasks \ {t} : Knows(u, task[u], state', open')
  <2> SUFFICES ASSUME NEW u \in Tasks \ {t}  PROVE  Knows(u, task[u], state', open')
    OBVIOUS
  <2>1. Knows(u, task[u], state, open) /\ (task[u].pc \in Beginning => task[u].s # s)
    BY <1>0, <1>5
  <2> HIDE DEF s
  <2> QED
    BY <1>1, <1>4, <1>6, <2>1 DEF Knows, Acting, Beginning
<1>8. Knows(t, q, state', open')
  <2>1. \A x \in task[t].todo : state'[x] # "Unborn"
    BY <1>0, <1>4, <1>6 DEF Knows
  <2> QED
    BY <1>1, <1>3, <1>4, <2>1 DEF Knows, Acting, Beginning
<1>9. task' \in [Tasks -> Task] /\ TasksKnow' /\ StartsApart'
  BY <1>0, <1>2, <1>3, <1>7, <1>8, TaskMoves DEF Moves, Beginning
<1>10. Typed'
  <2>1. state' \in [Ids -> States]
    BY <1>0, <1>1 DEF Typed, States, VoiceState, Live
  <2>2. queue' \in [Ids -> Seq(ProviderEvent)]
    <3>1. <<"Ready">> \in Seq(ProviderEvent)
      BY Meanings, EventLists
    <3> QED
      BY <1>0, <1>1, <3>1 DEF Typed
  <2> QED
    BY <1>0, <1>1, <1>9, <2>1, <2>2 DEF Typed
<1>11. HeldAreBorn' /\ GoneIsClosed'
  BY <1>0, <1>1, <1>4 DEF IInv, Typed, HeldAreBorn, GoneIsClosed
<1>12. NoProviderLeak'
  <2>1. \A u \in Callers \ {t} : task'[u] = task[u]
    BY <1>0, <1>2 DEF Tasks
  <2> SUFFICES ASSUME NEW x \in open, x \notin held'
               PROVE  \E u \in Callers : /\ task'[u].pc \in {"inserting", "undoing"}
                                         /\ x = task'[u].s
    BY <1>1 DEF NoProviderLeak
  <2>2. PICK u \in Callers : task[u].pc \in {"inserting", "undoing"} /\ x = task[u].s
    BY <1>1 DEF IInv, NoProviderLeak
  <2> QED
    BY <1>1, <2>1, <2>2
<1> QED
  BY <1>1, <1>4, <1>9, <1>10, <1>11, <1>12 DEF IInv

LEMMA RemovedKeeps ==
  ASSUME NEW t \in Tasks, IInv, Removal(t)
  PROVE  /\ IInv' /\ task[t].s \in Ids /\ state[task[t].s] = "Closed" /\ state' = state
<1> DEFINE s == task[t].s
<1>0. /\ Typed /\ task \in [Tasks -> Task] /\ task[t] \in Task
      /\ \A u \in Tasks : Knows(u, task[u], state, open)
  BY DEF IInv, Typed, TasksKnow
<1>1. /\ task[t].pc = "removing" /\ s \in Ids /\ state[s] = "Closed" /\ s \notin open
      /\ held' = held \ {s} /\ queue' = [queue EXCEPT ![s] = <<>>]
      /\ UNCHANGED <<state, open>>
  BY <1>0 DEF Removal, At, Knows
<1>2. PICK q \in Task : /\ Moves(t, q) /\ q.pc \in {"none", "sweeping"}
                        /\ q.todo \subseteq task[t].todo
  <2>1. CASE Return(t)
    <3>1. NoTask \in Task /\ NoTask.pc = "none" /\ NoTask.todo = {}
      BY Meanings DEF NoTask, Task, Pcs
    <3> QED
      BY <2>1, <3>1 DEF Return, Moves
  <2>2. CASE Goto(t, "sweeping")
    <3> DEFINE p == [task[t] EXCEPT !.pc = "sweeping"]
    <3>1. task' = [task EXCEPT ![t] = p]
      BY <1>0, <2>2 DEF Goto
    <3>2. p \in Task /\ p.pc = "sweeping" /\ p.todo = task[t].todo
      BY <1>0 DEF Task, Pcs
    <3> HIDE DEF p
    <3> QED
      BY <3>1, <3>2 DEF Moves
  <2> QED
    BY <2>1, <2>2 DEF Removal
<1>3. Knows(t, q, state', open')
  BY <1>0, <1>1, <1>2 DEF Knows, Beginning, Acting
<1>4. task' \in [Tasks -> Task] /\ TasksKnow' /\ StartsApart'
  BY <1>0, <1>1, <1>2, <1>3, TaskMoves DEF Beginning
<1>5. Typed'
  <2>1. <<>> \in Seq(ProviderEvent)
    OBVIOUS
  <2> QED
    BY <1>0, <1>1, <1>4, <2>1 DEF Typed
<1>6. HeldAreBorn' /\ GoneIsClosed'
  BY <1>0, <1>1 DEF IInv, HeldAreBorn, GoneIsClosed
<1>7. NoProviderLeak'
  <2>1. \A u \in Callers \ {t} : task'[u] = task[u]
    BY <1>0, <1>2 DEF Tasks, Moves
  <2> SUFFICES ASSUME NEW x \in open, x \notin held'
               PROVE  \E u \in Callers : /\ task'[u].pc \in {"inserting", "undoing"}
                                         /\ x = task'[u].s
    BY <1>1 DEF NoProviderLeak
  <2>2. PICK u \in Callers : task[u].pc \in {"inserting", "undoing"} /\ x = task[u].s
    BY <1>1 DEF IInv, NoProviderLeak
  <2> QED
    BY <1>1, <2>1, <2>2
<1> QED
  BY <1>1, <1>4, <1>5, <1>6, <1>7 DEF IInv

LEMMA ReportedKeeps ==
  ASSUME NEW s \in Ids, IInv, ProviderReports(s)
  PROVE  IInv' /\ UNCHANGED <<held, state>>
<1>1. PICK e \in {"Error", "Completed"} : Emit(s, <<e>>)
  BY DEF ProviderReports
<1>2. <<e>> \in Seq(ProviderEvent)
  BY Meanings, EventLists
<1>3. queue' \in [Ids -> Seq(ProviderEvent)]
  BY <1>1, <1>2, Emitted DEF IInv
<1>4. UNCHANGED <<held, state, task, open>>
  BY DEF ProviderReports, registry
<1> QED
  BY <1>3, <1>4 DEF IInv, Typed, HeldAreBorn, TasksKnow, StartsApart, NoProviderLeak,
     GoneIsClosed, Knows

-----------------------------------------------------------------------------
LEMMA MildSummary ==
  ASSUME NEW t, IInv, MildAction(t)
  PROVE  IInv' /\ StatesKept /\ held' = held
<1>1. PICK q : t \in Tasks /\ Mildly(t, q)
  BY MildActions
<1> QED
  BY <1>1, MildStep DEF Mildly

(* Every step is one of these. *)
LEMMA Steps ==
  ASSUME [Next]_vars
  PROVE  \/ \E t : MildAction(t)
         \/ \E t \in Callers : StartOpened(t) \/ StartInsert(t)
         \/ \E t \in Tasks : Removal(t)
         \/ \E s \in Ids : ProviderReports(s)
         \/ UNCHANGED vars
<1>1. ASSUME NEW t \in Callers,
             \/ Starting(t) \/ Ending(t) \/ Answered(t)
             \/ \E s \in Ids : Speak(t, s) \/ Interrupt(t, s) \/ EndSession(t, s)
             \/ \E s \in Ids, n \in Chunks : SendAudio(t, s, n)
      PROVE  MildAction(t) \/ StartOpened(t) \/ StartInsert(t) \/ Removal(t)
  BY <1>1 DEF Starting, Ending, MildAction
<1>2. ASSUME NEW t \in Pollers, Polling(t)  PROVE  MildAction(t)
  BY <1>2 DEF MildAction
<1>3. ASSUME NEW t \in Sweepers, Sweeping(t)  PROVE  MildAction(t) \/ Removal(t)
  BY <1>3 DEF Sweeping, Ending, MildAction
<1> QED
  BY <1>1, <1>2, <1>3 DEF Next, Tasks

LEMMA Stuttering ==
  ASSUME IInv, UNCHANGED vars  PROVE  IInv' /\ StatesKept /\ UNCHANGED <<held, state>>
  BY DEF vars, registry, provider, IInv, Typed, HeldAreBorn, TasksKnow, StartsApart,
     NoProviderLeak, GoneIsClosed, Knows, StatesKept

LEMMA OpenedLeaves ==
  ASSUME NEW t, StartOpened(t)  PROVE  UNCHANGED <<held, state>>
  BY DEF StartOpened, registry

LEMMA Invariance == Spec => []IInv
<1>1. Init => IInv
  <2> SUFFICES ASSUME Init  PROVE  IInv
    OBVIOUS
  <2>1. NoTask \in Task /\ NoTask.pc = "none" /\ NoTask.todo = {}
    BY Meanings DEF NoTask, Task, Pcs
  <2>2. \A t \in Tasks : task[t] = NoTask
    BY DEF Init
  <2>3. <<>> \in Seq(ProviderEvent)
    OBVIOUS
  <2>4. Typed
    BY <2>1, <2>3 DEF Init, Typed, States
  <2>5. TasksKnow
    BY <2>1, <2>2 DEF TasksKnow, Knows, Beginning, Acting
  <2>6. StartsApart
    BY <2>1, <2>2 DEF StartsApart, Beginning
  <2>7. HeldAreBorn /\ NoProviderLeak /\ GoneIsClosed
    BY DEF Init, HeldAreBorn, NoProviderLeak, GoneIsClosed
  <2> QED
    BY <2>4, <2>5, <2>6, <2>7 DEF IInv
<1>2. IInv /\ [Next]_vars => IInv'
  BY Steps, MildSummary, OpenedKeeps, InsertedKeeps, RemovedKeeps, ReportedKeeps, Stuttering
<1> QED
  BY <1>1, <1>2, PTL DEF Spec

-----------------------------------------------------------------------------
(* Whatever start_session, end_session, sweep and failures overlap, no     *)
(* session that the provider was never asked to end is forgotten by the    *)
(* runtime, and one is closed before it leaves the table.                  *)
(* VoiceRuntime: NothingLeftBehind.                                        *)
THEOREM NothingLeaks == Spec => []NothingLeftBehind
<1>1. IInv => NothingLeftBehind
  BY DEF IInv, NothingLeftBehind
<1> QED
  BY <1>1, Invariance, PTL

(* No late answer, poll or event brings a closed session back, and a       *)
(* failed one can only be closed.  VoiceRuntime: OverIsOver.               *)
THEOREM OverStaysOver == Spec => OverIsOver
<1> DEFINE Over == \A s \in Ids : /\ state[s] = "Closed" => state'[s] = "Closed"
                                  /\ state[s] = "Failed" => state'[s] \in {"Failed", "Closed"}
<1>1. IInv /\ [Next]_vars => [Over]_vars
  <2> SUFFICES ASSUME IInv, [Next]_vars  PROVE  Over
    OBVIOUS
  <2>1. CASE StatesKept \/ state' = state
    BY <2>1 DEF StatesKept
  <2>2. ASSUME NEW t \in Callers, StartInsert(t)  PROVE  Over
    BY <2>2, InsertedKeeps
  <2> QED
    BY <2>1, <2>2, Steps, MildSummary, OpenedLeaves, RemovedKeeps, ReportedKeeps, Stuttering
<1> QED
  BY <1>1, Invariance, PTL DEF Spec, OverIsOver

(* The table is a bounded pool of sessions: the capacity is one decision,  *)
(* and no session is admitted twice.  VoiceRuntime: ImplementsPool.        *)
Gone == {s \in Ids : state[s] # "Unborn"} \ held

(* The Cardinality of the instance is the same operator. *)
LEMMA SameCardinality == \A S : Pool!Cardinality(S) = Cardinality(S)
  BY DEF Pool!Cardinality, Cardinality

LEMMA MildStutters ==
  ASSUME StatesKept \/ state' = state, held' = held
  PROVE  UNCHANGED <<held, Gone>>
  BY DEF StatesKept, Gone

(* However starts, ends and sweeps overlap, no more sessions are held than  *)
(* the capacity, and none comes back: the runtime is a pool of sessions.   *)
(* VoiceRuntime: ImplementsPool.                                           *)
THEOREM RuntimeImplementsPool == Spec => ImplementsPool
<1>1. Init => Pool!Init
  BY DEF Init, Pool!Init
<1>2. IInv /\ [Next]_vars => [Pool!Next]_<<held, Gone>>
  <2> SUFFICES ASSUME IInv, [Next]_vars  PROVE  Pool!Next \/ UNCHANGED <<held, Gone>>
    OBVIOUS
  <2>1. ASSUME NEW t \in Callers, StartInsert(t)  PROVE  Pool!Next
    <3>1. PICK s \in Ids :
            /\ s = task[t].s /\ state[s] = "Unborn" /\ state'[s] = "Created"
            /\ \A x \in Ids \ {s} : state'[x] = state[x]
      BY <2>1, InsertedKeeps
    <3>2. held' = held \cup {s} /\ Pool!Cardinality(held) < MaxSessions /\ s \notin held
      BY <2>1, <3>1, SameCardinality DEF StartInsert, Room, IInv, HeldAreBorn
    <3>3. s \notin Gone /\ Gone' = Gone
      BY <3>1, <3>2 DEF Gone
    <3>4. Pool!Admit(s)
      BY <3>2, <3>3 DEF Pool!Admit, Gone
    <3> QED
      BY <3>1, <3>4 DEF Pool!Next
  <2>2. ASSUME NEW t \in Tasks, Removal(t)  PROVE  Pool!Next \/ UNCHANGED <<held, Gone>>
    <3>1. PICK s \in Ids :
            s = task[t].s /\ state[s] = "Closed" /\ state' = state /\ held' = held \ {s}
      BY <2>2, RemovedKeeps DEF Removal
    <3>2. CASE s \in held
      <4>1. Gone' = Gone \cup {s}
        BY <3>1, <3>2 DEF Gone
      <4>2. Pool!LetGo(s)
        BY <3>1, <3>2, <4>1 DEF Pool!LetGo, Gone
      <4> QED
        BY <3>1, <4>2 DEF Pool!Next
    <3>3. CASE s \notin held
      BY <3>1, <3>3, MildStutters
    <3> QED
      BY <3>2, <3>3
  <2> QED
    BY <2>1, <2>2, Steps, MildSummary, OpenedLeaves, ReportedKeeps, Stuttering, MildStutters
<1> QED
  BY <1>1, <1>2, Invariance, PTL DEF Spec, ImplementsPool, Pool!Spec, Gone

-----------------------------------------------------------------------------
(* Speech.  The end of a speech comes if it is queued, or if a task brings *)
(* it; what begins a speech is queued before what ends it, and one task    *)
(* polls a session.                                                        *)
Ends(events) == \E i \in 1..Len(events) : events[i] = "SpeechEnded"
Paired(events) ==
  \A i \in 1..Len(events) : events[i] = "SpeechStarted" =>
    \E j \in 1..Len(events) : i < j /\ events[j] = "SpeechEnded"
Brings(q, s) ==
  /\ q.s = s
  /\ \/ q.pc \in {"speaking", "failing"}
     \/ q.pc = "handling" /\ q.ev = "SpeechEnded"
Begins(q, s) == q.s = s /\ q.pc = "handling" /\ q.ev = "SpeechStarted"
PollsOf(q, s) == q.s = s /\ q.pc \in {"polling", "handling"}

Speech(s) ==
  /\ Paired(queue[s])
  /\ \A t \in Tasks : Begins(task[t], s) => Ends(queue[s])
  /\ state[s] = "Speaking" =>
       Ends(queue[s]) \/ \E t \in Tasks : Brings(task[t], s)
OnePoller ==
  \A s \in Ids, t, u \in Tasks :
    PollsOf(task[t], s) /\ PollsOf(task[u], s) => t = u
PollersPoll == \A t \in Tasks : task[t].pc \in {"polling", "handling"} => t \in Pollers
SpeechInv ==
  /\ \A s \in held : Speech(s)
  /\ OnePoller /\ PollersPoll

LEMMA SpeechInvIs == SpeechInv => SpeechOver
<1>1. ASSUME SpeechInv, NEW s \in held, state[s] = "Speaking"
      PROVE  \/ \E i \in 1..Len(queue[s]) : queue[s][i] = "SpeechEnded"
             \/ \E t \in Tasks : /\ task[t].s = s
                                 /\ \/ task[t].pc \in {"speaking", "failing"}
                                    \/ At(t, "handling") /\ task[t].ev = "SpeechEnded"
  BY <1>1 DEF SpeechInv, Speech, Ends, Brings, At
<1> QED
  BY <1>1 DEF SpeechOver

(* A queue grows by events that begin no speech, or end it too.            *)
Grows(old, new) ==
  /\ Ends(old) => Ends(new)
  /\ Paired(old) => Paired(new)

LEMMA Grown ==
  ASSUME NEW old \in Seq(ProviderEvent), NEW more \in Seq(ProviderEvent), Paired(more)
  PROVE  Grows(old, old \o more) /\ (Ends(more) => Ends(old \o more))
<1> DEFINE new == old \o more
<1>1. /\ Len(new) = Len(old) + Len(more) /\ Len(old) \in Nat /\ Len(more) \in Nat
      /\ \A i \in 1..Len(old) : new[i] = old[i]
      /\ \A i \in 1..Len(more) : new[Len(old) + i] = more[i]
  OBVIOUS
<1>2. \A i \in 1..Len(new) : i \in 1..Len(old) \/ \E k \in 1..Len(more) : i = Len(old) + k
  <2> SUFFICES ASSUME NEW i \in 1..Len(new), i \notin 1..Len(old)
               PROVE  \E k \in 1..Len(more) : i = Len(old) + k
    OBVIOUS
  <2>1. i - Len(old) \in 1..Len(more) /\ i = Len(old) + (i - Len(old))
    BY <1>1
  <2> QED
    BY <2>1
<1> HIDE DEF new
<1>3. Ends(old) => Ends(new)
  BY <1>1 DEF Ends
<1>4. Ends(more) => Ends(new)
  BY <1>1 DEF Ends
<1>5. ASSUME Paired(old)  PROVE  Paired(new)
  <2> SUFFICES ASSUME NEW i \in 1..Len(new), new[i] = "SpeechStarted"
               PROVE  \E j \in 1..Len(new) : i < j /\ new[j] = "SpeechEnded"
    BY DEF Paired
  <2>1. CASE i \in 1..Len(old)
    BY <1>1, <1>5, <2>1 DEF Paired
  <2>2. CASE i \notin 1..Len(old)
    <3>1. PICK k \in 1..Len(more) : i = Len(old) + k
      BY <1>2, <2>2
    <3>2. PICK j \in 1..Len(more) : k < j /\ more[j] = "SpeechEnded"
      BY <1>1, <3>1 DEF Paired
    <3>3. /\ Len(old) + j \in 1..Len(new) /\ i < Len(old) + j
          /\ new[Len(old) + j] = "SpeechEnded"
      BY <1>1, <3>1, <3>2
    <3> QED
      BY <3>3
  <2> QED
    BY <2>1, <2>2
<1> QED
  BY <1>3, <1>4, <1>5 DEF Grows, new

(* What the tasks emit.                                                    *)
LEMMA Emissions ==
  /\ \A e \in ProviderEvent : e # "SpeechStarted" => Paired(<<e>>)
  /\ Paired(<<"SpeechStarted", "SpeechEnded">>)
  /\ Ends(<<"SpeechStarted", "SpeechEnded">>)
  /\ <<"SpeechStarted", "SpeechEnded">> \in Seq(ProviderEvent)
<1>1. ASSUME NEW e \in ProviderEvent, e # "SpeechStarted"  PROVE  Paired(<<e>>)
  BY <1>1 DEF Paired
<1> DEFINE both == <<"SpeechStarted", "SpeechEnded">>
<1>2. Len(both) = 2 /\ both[1] = "SpeechStarted" /\ both[2] = "SpeechEnded"
      /\ both \in Seq(ProviderEvent)
  BY Meanings
<1> HIDE DEF both
<1>3. Ends(both)
  <2>1. 2 \in 1..Len(both)
    BY <1>2
  <2> QED
    BY <1>2, <2>1 DEF Ends
<1>4. Paired(both)
  <2> SUFFICES ASSUME NEW i \in 1..Len(both), both[i] = "SpeechStarted"
               PROVE  \E j \in 1..Len(both) : i < j /\ both[j] = "SpeechEnded"
    BY DEF Paired
  <2>1. i = 1 /\ 2 \in 1..Len(both) /\ 1 < 2
    BY <1>2
  <2> QED
    BY <1>2, <2>1
<1> QED
  BY <1>1, <1>2, <1>3, <1>4 DEF both

LEMMA EmittedGrows ==
  ASSUME NEW s \in Ids, NEW events \in Seq(ProviderEvent), Typed, Paired(events),
         Emit(s, events)
  PROVE  /\ \A x \in held : Grows(queue[x], queue'[x])
         /\ s \in held /\ Ends(events) => Ends(queue'[s])
<1>1. \A x \in held : Grows(queue[x], queue[x])
  BY DEF Grows
<1>2. CASE s \in held
  <2>1. queue' = [queue EXCEPT ![s] = queue[s] \o events] /\ queue[s] \in Seq(ProviderEvent)
    BY <1>2 DEF Emit, Typed
  <2>2. \A x \in Ids : queue'[x] = IF x = s THEN queue[s] \o events ELSE queue[x]
    BY <2>1 DEF Typed
  <2>3. Grows(queue[s], queue[s] \o events) /\ (Ends(events) => Ends(queue[s] \o events))
    BY <2>1, Grown
  <2> QED
    BY <1>1, <2>2, <2>3 DEF Typed
<1>3. CASE s \notin held
  BY <1>1, <1>3 DEF Emit
<1> QED
  BY <1>2, <1>3

(* What an event does to the speech of its session, and to no other.       *)
Silencing == {"FinishSpeaking", "Interrupt", "Close", "Fail"}
LEMMA AppliedSpeech ==
  ASSUME NEW s \in Ids, NEW e \in Event, Typed, Apply(s, e)
  PROVE  /\ \A x \in Ids \ {s} : state'[x] = state[x]
         /\ e # "StartSpeaking" /\ state'[s] = "Speaking" => state[s] = "Speaking"
         /\ e \in Silencing => state'[s] # "Speaking"
<1> DEFINE to == To[e]
           from == From[e]
<1>1. /\ From["StartListening"] = {"Created", "Interrupted"}
      /\ From["FinishSpeaking"] = {"Speaking"} /\ From["Interrupt"] = {"Speaking"}
      /\ From["Close"] = Live /\ From["Fail"] = Live
  BY DEF From
<1>2. /\ To["StartListening"] = "Listening" /\ To["StartSpeaking"] = "Speaking"
      /\ To["FinishSpeaking"] = "Listening" /\ To["Interrupt"] = "Interrupted"
      /\ To["Close"] = "Closed" /\ To["Fail"] = "Failed"
  BY DEF To
<1>3. /\ e = "StartSpeaking" <=> to = "Speaking"
      /\ e \in Silencing => "Speaking" \in from
  BY <1>1, <1>2 DEF Event, Silencing, Live
<1>4. state' = IF state[s] \in from THEN [state EXCEPT ![s] = to] ELSE state
  BY DEF Apply, Applied, Legal
<1> HIDE DEF to, from
<1>5. \A x \in Ids : state'[x] = IF x = s /\ state[s] \in from THEN to ELSE state[x]
  BY <1>4 DEF Typed
<1> QED
  BY <1>3, <1>5 DEF Silencing

(* A step of one task that hands a speech on, if it brought its end.       *)
HandsOn(t, x) ==
  /\ Grows(queue[x], queue'[x])
  /\ state'[x] = "Speaking" =>
       /\ state[x] = "Speaking" \/ Ends(queue'[x]) \/ Brings(task'[t], x)
       /\ Brings(task[t], x) => Ends(queue'[x]) \/ Brings(task'[t], x)
  /\ Begins(task'[t], x) => Ends(queue'[x])
(* A session that is new has nothing to say yet. *)
Silent(t, x) ==
  /\ Paired(queue'[x]) /\ state'[x] # "Speaking"
  /\ \A u \in Tasks : ~Begins(task'[u], x)
Alone(t) ==
  task'[t].pc \in {"polling", "handling"} =>
    /\ t \in Pollers
    /\ \/ task[t].pc \in {"polling", "handling"} /\ task[t].s = task'[t].s
       \/ \A u \in Tasks \ {t} : ~PollsOf(task[u], task'[t].s)

LEMMA SpeechStep ==
  ASSUME NEW t \in Tasks, SpeechInv, \A u \in Tasks \ {t} : task'[u] = task[u],
         \A x \in held' : (x \in held /\ HandsOn(t, x)) \/ Silent(t, x),
         Alone(t)
  PROVE  SpeechInv'
<1>1. ASSUME NEW x \in held'  PROVE  Speech(x)'
  <2>1. CASE Silent(t, x)
    BY <2>1 DEF Silent, Speech
  <2>2. CASE x \in held /\ HandsOn(t, x)
    <3>1. Speech(x) /\ Grows(queue[x], queue'[x]) /\ Paired(queue'[x])
      BY <2>2 DEF SpeechInv, HandsOn, Speech, Grows
    <3>2. ASSUME NEW u \in Tasks, Begins(task'[u], x)  PROVE  Ends(queue'[x])
      BY <2>2, <3>1, <3>2 DEF HandsOn, Speech, Grows
    <3>3. ASSUME state'[x] = "Speaking"
          PROVE  Ends(queue'[x]) \/ \E u \in Tasks : Brings(task'[u], x)
      <4>1. CASE state[x] = "Speaking"
        <5>1. CASE Ends(queue[x])
          BY <3>1, <5>1 DEF Grows
        <5>2. ASSUME NEW u \in Tasks, Brings(task[u], x)
              PROVE  Ends(queue'[x]) \/ \E w \in Tasks : Brings(task'[w], x)
          BY <2>2, <3>3, <5>2 DEF HandsOn
        <5> QED
          BY <3>1, <4>1, <5>1, <5>2 DEF Speech
      <4>2. CASE state[x] # "Speaking"
        BY <2>2, <3>3, <4>2 DEF HandsOn
      <4> QED
        BY <4>1, <4>2
    <3> QED
      BY <3>1, <3>2, <3>3 DEF Speech
  <2> QED
    BY <2>1, <2>2
<1>2. OnePoller'
  <2> SUFFICES ASSUME NEW s \in Ids, NEW u \in Tasks, NEW w \in Tasks,
                      PollsOf(task'[u], s), PollsOf(task'[w], s)
               PROVE  u = w
    BY DEF OnePoller
  <2>1. ASSUME NEW v \in Tasks \ {t}, PollsOf(task'[v], s), PollsOf(task'[t], s)
        PROVE  FALSE
    <3>1. PollsOf(task[v], s)
      BY <2>1
    <3>2. PollsOf(task[t], s)
      BY <2>1, <3>1 DEF Alone, PollsOf
    <3> QED
      BY <3>1, <3>2 DEF SpeechInv, OnePoller
  <2> QED
    BY <2>1 DEF SpeechInv, OnePoller
<1>3. PollersPoll'
  BY DEF SpeechInv, PollersPoll, Alone
<1> QED
  BY <1>1, <1>2, <1>3 DEF SpeechInv

(* Steps that touch neither the states nor the queues.                     *)
LEMMA StillSpeech ==
  ASSUME NEW t \in Tasks, IInv, SpeechInv,
         UNCHANGED <<held, state, queue>>,
         \A u \in Tasks \ {t} : task'[u] = task[u],
         \A x \in held : Brings(task[t], x) => Brings(task'[t], x),
         task'[t].pc # "handling", Alone(t)
  PROVE  SpeechInv'
<1>1. \A x \in held' : x \in held /\ HandsOn(t, x)
  BY DEF HandsOn, Grows, Begins
<1> QED
  BY <1>1, SpeechStep

LEMMA StillActions ==
  ASSUME NEW t \in Tasks, IInv, SpeechInv,
         \/ StartCheck(t) \/ StartOpened(t) \/ StartFails(t) \/ StartRefused(t)
         \/ AudioRefused(t) \/ AudioFails(t) \/ CallFails(t)
         \/ \E s \in Ids : EndSession(t, s) \/ \E n \in Chunks : SendAudio(t, s, n)
         \/ SweepBegin(t) \/ SweepNext(t) \/ SweepEnd(t)
  PROVE  SpeechInv'
<1>0. task \in [Tasks -> Task] /\ task[t] \in Task /\ NoTask.pc = "none"
  BY DEF IInv, Typed, NoTask
<1>1. UNCHANGED <<held, state, queue>>
  BY DEF StartCheck, StartOpened, StartFails, StartRefused, AudioRefused, AudioFails,
     CallFails, EndSession, SendAudio, SweepBegin, SweepNext, SweepEnd, registry, provider
<1>2. \A u \in Tasks \ {t} : task'[u] = task[u]
  BY <1>0 DEF StartCheck, StartOpened, StartFails, StartRefused, AudioRefused, AudioFails,
     CallFails, EndSession, SendAudio, SweepBegin, SweepNext, SweepEnd, Goto, Enter, Return
<1>3. /\ task'[t].pc \notin {"polling", "handling"}
      /\ \/ task[t].pc \notin {"speaking", "failing", "handling"}
         \/ task[t].pc \in {"speaking", "cancelling"} /\ task'[t].pc = "failing"
            /\ task'[t].s = task[t].s
  <2>1. CASE \/ StartCheck(t) \/ StartOpened(t) \/ StartFails(t) \/ StartRefused(t)
             \/ AudioRefused(t) \/ AudioFails(t) \/ CallFails(t)
    BY <1>0, <2>1 DEF StartCheck, StartOpened, StartFails, StartRefused, AudioRefused,
       AudioFails, CallFails, At, Goto, Enter, Return, Task
  <2>2. CASE \/ \E s \in Ids : EndSession(t, s) \/ \E n \in Chunks : SendAudio(t, s, n)
             \/ SweepBegin(t) \/ SweepNext(t) \/ SweepEnd(t)
    <3>1. ASSUME NEW s \in Ids, EndSession(t, s)
          PROVE  task[t].pc = "none" /\ task'[t].pc = "ending"
      BY <1>0, <3>1 DEF EndSession, Known, At, Enter, Task
    <3>2. ASSUME NEW s \in Ids, NEW n \in Chunks, SendAudio(t, s, n)
          PROVE  task[t].pc = "none" /\ task'[t].pc \in {"over", "sending"}
      <4>1. PICK pc \in {"over", "sending"} :
              task' = [task EXCEPT ![t].pc = pc, ![t].s = s, ![t].n = n]
        BY <3>2 DEF SendAudio
      <4> DEFINE q == [task[t] EXCEPT !.pc = pc, !.s = s, !.n = n]
      <4>2. task' = [task EXCEPT ![t] = q]
        BY <1>0, <4>1
      <4>3. q.pc = pc
        BY <1>0 DEF Task
      <4> HIDE DEF q
      <4> QED
        BY <1>0, <3>2, <4>2, <4>3 DEF SendAudio, Known, At
    <3>3. ASSUME SweepBegin(t) \/ SweepEnd(t)
          PROVE  /\ task[t].pc \in {"none", "sweeping"}
                 /\ task'[t].pc \in {"none", "sweeping"}
      BY <1>0, <3>3 DEF SweepBegin, SweepEnd, At, Return, Task
    <3>4. ASSUME SweepNext(t)
          PROVE  task[t].pc = "sweeping" /\ task'[t].pc \in {"ending", "sweeping"}
      <4>1. PICK s \in task[t].todo, pc \in {"ending", "sweeping"} :
              task' = [task EXCEPT ![t].pc = pc, ![t].s = s, ![t].todo = @ \ {s}]
        BY <3>4 DEF SweepNext
      <4> DEFINE q == [task[t] EXCEPT !.pc = pc, !.s = s, !.todo = @ \ {s}]
      <4>2. task' = [task EXCEPT ![t] = q]
        BY <1>0, <4>1
      <4>3. q.pc = pc
        BY <1>0 DEF Task
      <4> HIDE DEF q
      <4> QED
        BY <1>0, <3>4, <4>2, <4>3 DEF SweepNext, At
    <3> QED
      BY <2>2, <3>1, <3>2, <3>3, <3>4
  <2> QED
    BY <2>1, <2>2
<1>4. \A x \in held : Brings(task[t], x) => Brings(task'[t], x)
  BY <1>3 DEF Brings
<1>5. Alone(t)
  BY <1>3 DEF Alone
<1> QED
  BY <1>1, <1>2, <1>3, <1>4, <1>5, StillSpeech

LEMMA PollSteps ==
  ASSUME NEW t \in Tasks, IInv, SpeechInv,
         \/ t \in Pollers /\ \E s \in Ids : PollBegin(t, s)
         \/ PollEnd(t)
  PROVE  SpeechInv'
<1>0. task \in [Tasks -> Task] /\ NoTask.pc = "none" /\ Pollers \subseteq Tasks
  BY DEF IInv, Typed, NoTask, Tasks
<1>1. CASE PollEnd(t)
  <2>1. /\ UNCHANGED <<held, state, queue>> /\ task[t].pc = "polling"
        /\ task' = [task EXCEPT ![t] = NoTask]
    BY <1>1 DEF PollEnd, At, Return, provider
  <2>2. \A u \in Tasks \ {t} : task'[u] = task[u]
    BY <1>0, <2>1
  <2>3. task'[t] = NoTask
    BY <1>0, <2>1
  <2>4. \A x \in held : Brings(task[t], x) => Brings(task'[t], x)
    BY <2>1 DEF Brings
  <2>5. Alone(t) /\ task'[t].pc # "handling"
    BY <1>0, <2>3 DEF Alone
  <2> QED
    BY <2>1, <2>2, <2>4, <2>5, StillSpeech
<1>2. ASSUME NEW s \in Ids, PollBegin(t, s), t \in Pollers  PROVE  SpeechInv'
  <2>1. /\ UNCHANGED <<held, state, queue>> /\ task[t].pc = "none"
        /\ task' = [task EXCEPT ![t].pc = "polling", ![t].s = s]
        /\ \A u \in Pollers : task[u].pc # "none" => task[u].s # s
    BY <1>2 DEF PollBegin, Known, At, Enter, registry, provider
  <2>2. /\ \A u \in Tasks \ {t} : task'[u] = task[u]
        /\ task'[t].pc = "polling" /\ task'[t].s = s
    BY <1>0, <2>1 DEF Task
  <2>3. \A x \in held : Brings(task[t], x) => Brings(task'[t], x)
    BY <2>1 DEF Brings
  <2>4. Alone(t)
    BY <1>2, <2>1, <2>2 DEF Alone, PollsOf, SpeechInv, PollersPoll
  <2> QED
    BY <2>1, <2>2, <2>3, <2>4, StillSpeech
<1> QED
  BY <1>1, <1>2

(* Steps that emit.                                                        *)
LEMMA EmitSpeech ==
  ASSUME NEW t \in Tasks, NEW s \in Ids, NEW events \in Seq(ProviderEvent), Paired(events),
         IInv, SpeechInv, Emit(s, events), UNCHANGED <<held, state>>,
         \A u \in Tasks \ {t} : task'[u] = task[u],
         \A x \in held : Brings(task[t], x) =>
           Brings(task'[t], x) \/ (x = s /\ Ends(events)),
         \A x \in held : Begins(task'[t], x) => Begins(task[t], x),
         Alone(t)
  PROVE  SpeechInv'
<1>1. /\ \A x \in held : Grows(queue[x], queue'[x])
      /\ s \in held /\ Ends(events) => Ends(queue'[s])
  BY EmittedGrows DEF IInv
<1>2. ASSUME NEW x \in held  PROVE  HandsOn(t, x)
  BY <1>1 DEF HandsOn, SpeechInv, Speech, Grows
<1> QED
  BY <1>2, SpeechStep

LEMMA EmitActions ==
  ASSUME NEW t \in Tasks, IInv, SpeechInv,
         AudioSent(t) \/ Spoken(t) \/ Interrupted(t) \/ StartUndone(t)
  PROVE  SpeechInv'
<1> DEFINE s == task[t].s
<1>0. task \in [Tasks -> Task] /\ NoTask.pc = "none" /\ s \in Ids
      /\ "SpeechStarted" \in ProviderEvent /\ "SpeechEnded" \in ProviderEvent
      /\ "SpeechInterrupted" \in ProviderEvent /\ "Completed" \in ProviderEvent
  BY Meanings DEF IInv, Typed, NoTask, TasksKnow, Knows, AudioSent, Spoken, Interrupted,
     StartUndone, At
<1>1. task' = [task EXCEPT ![t] = NoTask] /\ UNCHANGED <<held, state>>
      /\ task[t].pc \in {"sending", "speaking", "cancelling", "undoing"}
  BY DEF AudioSent, Spoken, Interrupted, StartUndone, Return, registry, At
<1>2. task'[t] = NoTask /\ \A u \in Tasks \ {t} : task'[u] = task[u]
  BY <1>0, <1>1
<1>3. Alone(t) /\ \A x \in held : ~Begins(task'[t], x)
  BY <1>0, <1>2 DEF Alone, Begins
<1>4. \A x \in held : Brings(task[t], x) => x = s /\ task[t].pc = "speaking"
  BY <1>1 DEF Brings
<1>5. CASE Spoken(t)
  <2>1. Emit(s, <<"SpeechStarted", "SpeechEnded">>)
    BY <1>5 DEF Spoken
  <2> QED
    BY <1>0, <1>1, <1>2, <1>3, <1>4, <2>1, Emissions, EmitSpeech
<1>6. ASSUME NEW e \in ProviderEvent \ {"SpeechStarted"}, Emit(s, <<e>>),
             task[t].pc # "speaking"
      PROVE  SpeechInv'
  <2>1. <<e>> \in Seq(ProviderEvent) /\ Paired(<<e>>)
    BY Emissions
  <2> QED
    BY <1>0, <1>1, <1>2, <1>3, <1>4, <1>6, <2>1, EmitSpeech
<1>7. CASE AudioSent(t)
  <2>1. Emit(s, <<"SpeechEnded">>) /\ task[t].pc # "speaking"
    BY <1>7 DEF AudioSent, At
  <2> QED
    BY <1>0, <1>6, <2>1
<1>8. CASE Interrupted(t)
  <2>1. Emit(s, <<"SpeechInterrupted">>) /\ task[t].pc # "speaking"
    BY <1>8 DEF Interrupted, At
  <2> QED
    BY <1>0, <1>6, <2>1
<1>9. CASE StartUndone(t)
  <2>1. (Emit(s, <<"Completed">>) \/ UNCHANGED queue) /\ task[t].pc = "undoing"
    BY <1>9 DEF StartUndone, Stops, StopsNot, At
  <2>2. CASE UNCHANGED queue
    BY <1>0, <1>1, <1>2, <1>3, <1>4, <2>1, <2>2, StillSpeech
  <2> QED
    BY <1>0, <1>6, <2>1, <2>2
<1> QED
  BY <1>5, <1>7, <1>8, <1>9

LEMMA ReportSpeech ==
  ASSUME NEW s \in Ids, IInv, SpeechInv, ProviderReports(s)
  PROVE  SpeechInv'
<1>1. PICK e \in {"Error", "Completed"} : Emit(s, <<e>>)
  BY DEF ProviderReports
<1>2. e \in ProviderEvent /\ e # "SpeechStarted" /\ <<e>> \in Seq(ProviderEvent)
      /\ Paired(<<e>>)
  <2>1. e \in ProviderEvent /\ e # "SpeechStarted"
    BY Meanings
  <2> QED
    BY <2>1, Emissions
<1>3. UNCHANGED <<held, state, task>>
  BY DEF ProviderReports, registry
<1>4. \A x \in held : Grows(queue[x], queue'[x])
  BY <1>1, <1>2, EmittedGrows DEF IInv
<1>5. \A x \in held : Speech(x)'
  <2> SUFFICES ASSUME NEW x \in held  PROVE  Speech(x)'
    OBVIOUS
  <2>1. Speech(x) /\ Grows(queue[x], queue'[x])
    BY <1>4 DEF SpeechInv
  <2> QED
    BY <1>3, <2>1 DEF Speech, Grows
<1> QED
  BY <1>3, <1>5 DEF SpeechInv, OnePoller, PollersPoll

(* Steps that apply an event.                                              *)
LEMMA ApplySpeech ==
  ASSUME NEW t \in Tasks, NEW s \in Ids, NEW e \in Event, IInv, SpeechInv,
         Apply(s, e), UNCHANGED <<held, queue>>,
         \A u \in Tasks \ {t} : task'[u] = task[u],
         \A x \in held : Brings(task[t], x) =>
           Brings(task'[t], x) \/ (x = s /\ e \in Silencing),
         e = "StartSpeaking" /\ s \in held => Ends(queue[s]) \/ Brings(task'[t], s),
         task'[t].pc # "handling", Alone(t)
  PROVE  SpeechInv'
<1>1. /\ \A x \in Ids \ {s} : state'[x] = state[x]
      /\ e # "StartSpeaking" /\ state'[s] = "Speaking" => state[s] = "Speaking"
      /\ e \in Silencing => state'[s] # "Speaking"
  BY AppliedSpeech DEF IInv
<1>2. ASSUME NEW x \in held  PROVE  HandsOn(t, x)
  BY <1>1 DEF HandsOn, Grows, Begins, IInv, Typed
<1> QED
  BY <1>1, <1>2, SpeechStep

LEMMA ApplyActions ==
  ASSUME NEW t \in Tasks, IInv, SpeechInv,
         StartGreets(t) \/ Fail(t) \/ Close(t) \/ EndAsked(t)
  PROVE  SpeechInv'
<1> DEFINE s == task[t].s
<1>0. /\ task \in [Tasks -> Task] /\ NoTask.pc = "none" /\ s \in Ids
      /\ "Completed" \in ProviderEvent
  BY Meanings DEF IInv, Typed, NoTask, TasksKnow, Knows, StartGreets, Fail, Close, EndAsked, At
<1>1. /\ \A u \in Tasks \ {t} : task'[u] = task[u]
      /\ task'[t].pc \in {"none", "closing", "removing"}
      /\ task[t].pc \in {"greeting", "failing", "closing", "ending"}
  BY <1>0 DEF StartGreets, Fail, Close, EndAsked, Goto, Return, At, Task
<1>2. Alone(t) /\ task'[t].pc # "handling" /\ \A x \in held : ~Begins(task'[t], x)
  BY <1>1 DEF Alone, Begins
<1>3. ASSUME NEW e \in {"StartListening", "Fail", "Close"}, Apply(s, e),
             UNCHANGED <<held, queue>>, task[t].pc = "failing" => e = "Fail"
      PROVE  SpeechInv'
  <2>1. e \in Event /\ e # "StartSpeaking"
    BY DEF Event
  <2>2. \A x \in held : Brings(task[t], x) => x = s /\ e \in Silencing
    BY <1>1, <1>3 DEF Brings, Silencing
  <2> QED
    BY <1>0, <1>1, <1>2, <1>3, <2>1, <2>2, ApplySpeech
<1>4. CASE StartGreets(t) \/ Fail(t) \/ Close(t)
  BY <1>3, <1>4 DEF StartGreets, Fail, Close, At, provider
<1>5. CASE EndAsked(t)
  <2>1. held' = held /\ task[t].pc = "ending"
        /\ \/ Emit(s, <<"Completed">>) /\ UNCHANGED state
           \/ UNCHANGED <<queue, state>>
           \/ UNCHANGED queue /\ Apply(s, "Fail")
    BY <1>5 DEF EndAsked, Stops, StopsNot, At
  <2>2. \A x \in held : ~Brings(task[t], x)
    BY <2>1 DEF Brings
  <2>3. <<"Completed">> \in Seq(ProviderEvent) /\ Paired(<<"Completed">>)
    BY <1>0, Emissions
  <2>4. CASE Emit(s, <<"Completed">>) /\ UNCHANGED state
    BY <1>0, <1>1, <1>2, <2>1, <2>2, <2>3, <2>4, EmitSpeech
  <2>5. CASE UNCHANGED <<queue, state>>
    BY <1>1, <1>2, <2>1, <2>2, <2>5, StillSpeech
  <2>6. CASE UNCHANGED queue /\ Apply(s, "Fail")
    BY <1>3, <2>1, <2>6
  <2> QED
    BY <2>1, <2>4, <2>5, <2>6
<1> QED
  BY <1>4, <1>5

LEMMA HandleSpeech ==
  ASSUME NEW t \in Tasks, IInv, SpeechInv, Handle(t)  PROVE  SpeechInv'
<1> DEFINE s == task[t].s
           e == Meaning[task[t].ev]
<1>0. /\ task \in [Tasks -> Task] /\ s \in Ids /\ task[t].pc = "handling"
      /\ task[t].ev \in ProviderEvent /\ e \in Event
  BY Meanings DEF IInv, Typed, TasksKnow, Knows, Handle, At, Task
<1>1. Apply(s, e) /\ UNCHANGED <<held, queue>> /\ task' = [task EXCEPT ![t].pc = "polling"]
  BY DEF Handle, Goto, provider
<1>2. /\ \A u \in Tasks \ {t} : task'[u] = task[u]
      /\ task'[t].pc = "polling" /\ task'[t].s = s
  BY <1>0, <1>1 DEF Task
<1>3. Alone(t)
  BY <1>0, <1>2 DEF Alone, SpeechInv, PollersPoll
<1>4. /\ Meaning["SpeechEnded"] = "FinishSpeaking"
      /\ e = "StartSpeaking" => task[t].ev = "SpeechStarted"
  <2>1. /\ Meaning["Ready"] = "StartListening" /\ Meaning["SpeechEnded"] = "FinishSpeaking"
        /\ Meaning["SpeechInterrupted"] = "Interrupt"
        /\ Meaning["Error"] = "Fail" /\ Meaning["Completed"] = "Close"
    BY DEF Meaning
  <2> QED
    BY <1>0, <2>1, Meanings
<1>5. \A x \in held : Brings(task[t], x) => x = s /\ e \in Silencing
  BY <1>0, <1>4 DEF Brings, Silencing
<1>6. e = "StartSpeaking" /\ s \in held => Ends(queue[s])
  BY <1>0, <1>4 DEF SpeechInv, Speech, Begins
<1> HIDE DEF e, s
<1> QED
  BY <1>0, <1>1, <1>2, <1>3, <1>5, <1>6, ApplySpeech

LEMMA AskSpeech ==
  ASSUME NEW t \in Tasks, NEW s \in Ids, IInv, SpeechInv, Speak(t, s) \/ Interrupt(t, s)
  PROVE  SpeechInv'
<1>0. /\ task \in [Tasks -> Task] /\ task[t].pc = "none" /\ UNCHANGED <<held, queue>>
  BY DEF IInv, Typed, Speak, Interrupt, Known, At, provider
<1>1. \A x \in held : ~Brings(task[t], x)
  BY <1>0 DEF Brings
<1>2. PICK e \in {"StartSpeaking", "Interrupt"}, pc \in {"speaking", "cancelling"} :
        /\ e = "StartSpeaking" => pc = "speaking"
        /\ Apply(s, e) /\ task' = [task EXCEPT ![t].pc = pc, ![t].s = s]
  BY DEF Speak, Interrupt, Enter
<1>3. /\ \A u \in Tasks \ {t} : task'[u] = task[u]
      /\ task'[t].pc = pc /\ task'[t].s = s
  BY <1>0, <1>2 DEF Task
<1>4. Alone(t) /\ e \in Event /\ (e = "StartSpeaking" => Brings(task'[t], s))
  BY <1>2, <1>3 DEF Alone, Brings, Event
<1> QED
  BY <1>0, <1>1, <1>2, <1>3, <1>4, ApplySpeech

-----------------------------------------------------------------------------
(* Steps that begin a queue, take from it or drop it.                      *)
LEMMA InsertSpeech ==
  ASSUME NEW t \in Callers, IInv, SpeechInv, StartInsert(t)  PROVE  SpeechInv'
<1> DEFINE s == task[t].s
<1>0. /\ task \in [Tasks -> Task] /\ s \in Ids /\ state[s] = "Unborn" /\ t \in Tasks
      /\ task[t].pc = "inserting" /\ \A u \in Tasks : Knows(u, task[u], state, open)
  BY InsertedKeeps DEF IInv, Typed, TasksKnow, StartInsert, At, Tasks
<1>1. /\ held' = held \cup {s} /\ state' = [state EXCEPT ![s] = "Created"]
      /\ queue' = [queue EXCEPT ![s] = <<"Ready">>]
      /\ task' = [task EXCEPT ![t].pc = "greeting"]
  BY DEF StartInsert, Goto
<1>2. /\ \A u \in Tasks \ {t} : task'[u] = task[u]
      /\ task'[t].pc = "greeting" /\ task'[t].s = s
  BY <1>0, <1>1 DEF Task
<1>3. /\ \A x \in Ids : state'[x] = IF x = s THEN "Created" ELSE state[x]
      /\ \A x \in Ids : queue'[x] = IF x = s THEN <<"Ready">> ELSE queue[x]
  BY <1>0, <1>1 DEF IInv, Typed
<1>4. Silent(t, s)
  <2>1. Paired(<<"Ready">>)
    BY Emissions, Meanings
  <2>2. \A u \in Tasks : task[u].pc = "handling" => task[u].s # s
    BY <1>0 DEF Knows, Acting
  <2> QED
    BY <1>0, <1>2, <1>3, <2>1, <2>2 DEF Silent, Begins
<1>5. ASSUME NEW x \in held, x # s  PROVE  HandsOn(t, x)
  BY <1>0, <1>2, <1>3, <1>5 DEF HandsOn, Grows, Begins, Brings, IInv, Typed
<1>6. Alone(t)
  BY <1>2 DEF Alone
<1> QED
  BY <1>0, <1>1, <1>2, <1>4, <1>5, <1>6, SpeechStep

LEMMA RemoveSpeech ==
  ASSUME NEW t \in Tasks, IInv, SpeechInv, Removal(t)  PROVE  SpeechInv'
<1> DEFINE s == task[t].s
<1>0. /\ task \in [Tasks -> Task] /\ s \in Ids /\ task[t].pc = "removing"
      /\ NoTask.pc = "none" /\ state' = state
  BY RemovedKeeps DEF IInv, Typed, Removal, At, NoTask
<1>1. /\ held' = held \ {s} /\ queue' = [queue EXCEPT ![s] = <<>>]
  BY DEF Removal
<1>2. /\ \A u \in Tasks \ {t} : task'[u] = task[u]
      /\ task'[t].pc \in {"none", "sweeping"}
  BY <1>0 DEF Removal, Goto, Return, Task
<1>3. \A x \in held' : x \in held /\ queue'[x] = queue[x]
  BY <1>0, <1>1 DEF IInv, Typed
<1>4. ASSUME NEW x \in held'  PROVE  x \in held /\ HandsOn(t, x)
  BY <1>0, <1>2, <1>3 DEF HandsOn, Grows, Begins, Brings
<1>5. Alone(t)
  BY <1>2 DEF Alone
<1> QED
  BY <1>2, <1>4, <1>5, SpeechStep

(* The event that is polled is the first of its queue.                     *)
LEMMA Polled ==
  ASSUME NEW events \in Seq(ProviderEvent), events # <<>>
  PROVE  /\ Paired(events) => Paired(Tail(events))
         /\ Paired(events) /\ Head(events) = "SpeechStarted" => Ends(Tail(events))
         /\ Ends(events) => Head(events) = "SpeechEnded" \/ Ends(Tail(events))
<1> DEFINE rest == Tail(events)
<1>1. /\ Len(rest) = Len(events) - 1 /\ Len(events) \in Nat /\ Len(rest) \in Nat
      /\ \A i \in 1..Len(rest) : rest[i] = events[i + 1]
      /\ Head(events) = events[1] /\ 1 \in 1..Len(events)
  OBVIOUS
<1> HIDE DEF rest
<1>2. \A i \in 1..Len(events) : i = 1 \/ (i - 1 \in 1..Len(rest) /\ rest[i - 1] = events[i])
  <2> SUFFICES ASSUME NEW i \in 1..Len(events), i # 1
               PROVE  i - 1 \in 1..Len(rest) /\ rest[i - 1] = events[i]
    OBVIOUS
  <2>1. i - 1 \in 1..Len(rest) /\ (i - 1) + 1 = i
    BY <1>1
  <2> QED
    BY <1>1, <2>1
<1>3. ASSUME Ends(events)  PROVE  Head(events) = "SpeechEnded" \/ Ends(rest)
  BY <1>1, <1>2, <1>3 DEF Ends
<1>4. ASSUME Paired(events), Head(events) = "SpeechStarted"  PROVE  Ends(rest)
  <2>1. PICK j \in 1..Len(events) : 1 < j /\ events[j] = "SpeechEnded"
    BY <1>1, <1>4 DEF Paired
  <2> QED
    BY <1>2, <2>1 DEF Ends
<1>5. ASSUME Paired(events)  PROVE  Paired(rest)
  <2> SUFFICES ASSUME NEW i \in 1..Len(rest), rest[i] = "SpeechStarted"
               PROVE  \E j \in 1..Len(rest) : i < j /\ rest[j] = "SpeechEnded"
    BY DEF Paired
  <2>1. i + 1 \in 1..Len(events) /\ events[i + 1] = "SpeechStarted"
    BY <1>1
  <2>2. PICK j \in 1..Len(events) : i + 1 < j /\ events[j] = "SpeechEnded"
    BY <1>5, <2>1 DEF Paired
  <2>3. j - 1 \in 1..Len(rest) /\ rest[j - 1] = "SpeechEnded" /\ i < j - 1
    BY <1>1, <1>2, <2>2
  <2> QED
    BY <2>3
<1> QED
  BY <1>3, <1>4, <1>5 DEF rest

LEMMA PollEventSpeech ==
  ASSUME NEW t \in Tasks, IInv, SpeechInv, PollEvent(t)  PROVE  SpeechInv'
<1> DEFINE s == task[t].s
           head == Head(queue[s])
<1>0. /\ task \in [Tasks -> Task] /\ task[t] \in Task /\ s \in Ids
      /\ task[t].pc = "polling" /\ queue[s] \in Seq(ProviderEvent) /\ queue[s] # <<>>
  BY DEF IInv, Typed, TasksKnow, Knows, PollEvent, At
<1>1. /\ UNCHANGED <<held, state>> /\ queue' = [queue EXCEPT ![s] = Tail(queue[s])]
      /\ task' = [task EXCEPT ![t].pc = "handling", ![t].n = @ + 1, ![t].ev = head]
  BY DEF PollEvent, registry
<1> DEFINE q == [task[t] EXCEPT !.pc = "handling", !.n = @ + 1, !.ev = head]
<1>2. task' = [task EXCEPT ![t] = q]
  BY <1>0, <1>1
<1>3. q.pc = "handling" /\ q.s = s /\ q.ev = head
  BY <1>0 DEF Task
<1> HIDE DEF q, head
<1>4. /\ \A u \in Tasks \ {t} : task'[u] = task[u]
      /\ task'[t].pc = "handling" /\ task'[t].s = s /\ task'[t].ev = head
  BY <1>0, <1>2, <1>3
<1>5. \A x \in Ids : queue'[x] = IF x = s THEN Tail(queue[s]) ELSE queue[x]
  BY <1>0, <1>1 DEF IInv, Typed
<1>6. ASSUME NEW x \in held  PROVE  Speech(x)'
  <2>0. x \in Ids /\ Speech(x)
    BY DEF IInv, Typed, SpeechInv
  <2>1. CASE x # s
    <3>1. queue'[x] = queue[x] /\ state'[x] = state[x]
      BY <1>1, <1>5, <2>0, <2>1
    <3>2. \A u \in Tasks : /\ Begins(task'[u], x) => Begins(task[u], x)
                           /\ Brings(task[u], x) => Brings(task'[u], x)
      BY <1>4, <2>1 DEF Begins, Brings
    <3> QED
      BY <2>0, <3>1, <3>2 DEF Speech
  <2>2. CASE x = s
    <3>1. queue'[s] = Tail(queue[s]) /\ state'[s] = state[s]
      BY <1>0, <1>1, <1>5
    <3>2. /\ Paired(queue'[s])
          /\ head = "SpeechStarted" => Ends(queue'[s])
          /\ Ends(queue[s]) => head = "SpeechEnded" \/ Ends(queue'[s])
      BY <1>0, <2>0, <2>2, <3>1, Polled DEF Speech, head
    <3>3. \A u \in Tasks : Begins(task'[u], s) => u = t
      BY <1>0, <1>4 DEF Begins, SpeechInv, OnePoller, PollsOf
    <3>4. \A u \in Tasks : Begins(task'[u], s) => Ends(queue'[s])
      BY <1>4, <3>2, <3>3 DEF Begins
    <3>5. head = "SpeechEnded" => Brings(task'[t], s)
      BY <1>4 DEF Brings
    <3>6. \A u \in Tasks : Brings(task[u], s) => Brings(task'[u], s)
      BY <1>0, <1>4 DEF Brings
    <3> QED
      BY <2>0, <2>2, <3>1, <3>2, <3>4, <3>5, <3>6 DEF Speech
  <2> QED
    BY <2>1, <2>2
<1>7. OnePoller'
  BY <1>0, <1>4 DEF SpeechInv, OnePoller, PollsOf
<1>8. PollersPoll'
  BY <1>0, <1>4 DEF SpeechInv, PollersPoll
<1> QED
  BY <1>1, <1>6, <1>7, <1>8 DEF SpeechInv

-----------------------------------------------------------------------------
LEMMA SpeechInvariance == Spec => [](IInv /\ SpeechInv)
<1>1. Init => SpeechInv
  <2> SUFFICES ASSUME Init  PROVE  SpeechInv
    OBVIOUS
  <2>1. held = {} /\ \A t \in Tasks : task[t].pc = "none"
    BY DEF Init, NoTask
  <2> QED
    BY <2>1 DEF SpeechInv, OnePoller, PollersPoll, PollsOf
<1>2. IInv /\ SpeechInv /\ [Next]_vars => SpeechInv'
  <2> SUFFICES ASSUME IInv, SpeechInv, [Next]_vars  PROVE  SpeechInv'
    OBVIOUS
  <2>1. ASSUME NEW t, MildAction(t)  PROVE  SpeechInv'
    <3>1. t \in Tasks
      BY <2>1 DEF MildAction, Tasks
    <3> QED
      BY <2>1, <3>1, StillActions, PollSteps, EmitActions, ApplyActions, HandleSpeech,
         AskSpeech, PollEventSpeech DEF MildAction, Answered, Polling
  <2>2. ASSUME NEW t \in Callers, StartOpened(t)  PROVE  SpeechInv'
    BY <2>2, StillActions DEF Tasks
  <2>3. CASE UNCHANGED vars
    BY <2>3 DEF vars, registry, provider, SpeechInv, Speech, OnePoller, PollersPoll
  <2> QED
    BY <2>1, <2>2, <2>3, Steps, InsertSpeech, RemoveSpeech, ReportSpeech
<1> QED
  BY <1>1, <1>2, Invariance, PTL DEF Spec

(* However speech, interrupts, failures and the late events of a provider  *)
(* overlap, no session is stuck speaking: what ends its speech is queued   *)
(* or on its way.  VoiceRuntime: SpeechOver.                               *)
THEOREM SpeechIsOver == Spec => []SpeechOver
<1> QED
  BY SpeechInvIs, SpeechInvariance, PTL

-----------------------------------------------------------------------------
(* Audio.  What one caller carries of a session's bytes, and how the count *)
(* of all of them changes when it moves.                                   *)
Uncertain == {"over", "sending"}
Own(t, q, s, pcs) == IF q.s = s /\ q.pc \in pcs THEN {t} \X (1..q.n) ELSE {}
Load(q, s, pcs) == IF q.s = s /\ q.pc \in pcs THEN q.n ELSE 0

LEMMA OwnIs ==
  ASSUME NEW t, NEW q, q.n \in Nat, NEW s, NEW pcs
  PROVE  /\ IsFiniteSet(Own(t, q, s, pcs))
         /\ Cardinality(Own(t, q, s, pcs)) = Load(q, s, pcs)
<1>1. IsFiniteSet({t}) /\ Cardinality({t}) = 1
  BY FS_Singleton
<1>2. IsFiniteSet(1..q.n) /\ Cardinality(1..q.n) = q.n
  BY FS_Interval
<1>3. IsFiniteSet({t} \X (1..q.n)) /\ Cardinality({t} \X (1..q.n)) = 1 * q.n
  <2>1. /\ IsFiniteSet({t} \X (1..q.n))
        /\ Cardinality({t} \X (1..q.n)) = Cardinality({t}) * Cardinality(1..q.n)
    BY <1>1, <1>2, FS_Product
  <2> QED
    BY <1>1, <1>2, <2>1
<1>4. 1 * q.n = q.n
  OBVIOUS
<1> QED
  BY <1>3, <1>4, FS_EmptySet DEF Own, Load

LEMMA CarriedIs ==
  ASSUME NEW s, NEW pcs, NEW b
  PROVE  b \in Carried(s, pcs) <=> \E t \in Callers : b \in Own(t, task[t], s, pcs)
  BY DEF Carried, Own

LEMMA CarriedIsPrimed ==
  ASSUME NEW s, NEW pcs, NEW b
  PROVE  b \in Carried(s, pcs)' <=> \E t \in Callers : b \in Own(t, task'[t], s, pcs)
  BY DEF Carried, Own

LEMMA OwnApart ==
  ASSUME NEW t, NEW u, t # u, NEW p, NEW q, NEW s, NEW pcs, NEW b
  PROVE  ~(b \in Own(t, p, s, pcs) /\ b \in Own(u, q, s, pcs))
  BY DEF Own

LEMMA Recount ==
  ASSUME NEW t \in Callers, \A u \in Callers \ {t} : task'[u] = task[u],
         task[t].n \in Nat, task'[t].n \in Nat, NEW s, NEW pcs,
         IsFiniteSet(Carried(s, pcs))
  PROVE  /\ IsFiniteSet(Carried(s, pcs)')
         /\ Cardinality(Carried(s, pcs)) \in Nat /\ Cardinality(Carried(s, pcs)') \in Nat
         /\ Cardinality(Carried(s, pcs)') + Load(task[t], s, pcs)
              = Cardinality(Carried(s, pcs)) + Load(task'[t], s, pcs)
<1> DEFINE old == Own(t, task[t], s, pcs)
           new == Own(t, task'[t], s, pcs)
           rest == Carried(s, pcs) \ old
<1>1. /\ IsFiniteSet(old) /\ Cardinality(old) = Load(task[t], s, pcs)
      /\ IsFiniteSet(new) /\ Cardinality(new) = Load(task'[t], s, pcs)
  BY OwnIs
<1>2. \A b : b \in Carried(s, pcs) <=> \E u \in Callers : b \in Own(u, task[u], s, pcs)
  BY CarriedIs
<1>3. \A b : b \in Carried(s, pcs)' <=> \E u \in Callers : b \in Own(u, task'[u], s, pcs)
  BY CarriedIsPrimed
<1>4. \A u \in Callers \ {t} : \A b :
        ~(b \in Own(u, task[u], s, pcs) /\ (b \in old \/ b \in new))
  BY OwnApart
<1>5. Carried(s, pcs) = rest \cup old /\ rest \cap old = {}
  BY <1>2
<1>6. Carried(s, pcs)' = rest \cup new /\ rest \cap new = {}
  BY <1>2, <1>3, <1>4
<1>7. IsFiniteSet(rest)
  BY FS_Difference
<1> HIDE DEF old, new, rest
<1>8. Cardinality(Carried(s, pcs)) = Cardinality(rest) + Cardinality(old)
      /\ Cardinality(Carried(s, pcs)') = Cardinality(rest) + Cardinality(new)
      /\ IsFiniteSet(Carried(s, pcs)')
  <2>1. Cardinality(rest \cap old) = 0 /\ Cardinality(rest \cap new) = 0
    BY <1>5, <1>6, FS_EmptySet
  <2>2. /\ Cardinality(rest) \in Nat /\ Cardinality(old) \in Nat /\ Cardinality(new) \in Nat
    BY <1>1, <1>7, FS_CardinalityType
  <2>3. /\ Cardinality(rest \cup old)
             = Cardinality(rest) + Cardinality(old) - Cardinality(rest \cap old)
        /\ IsFiniteSet(rest \cup new)
        /\ Cardinality(rest \cup new)
             = Cardinality(rest) + Cardinality(new) - Cardinality(rest \cap new)
    BY <1>1, <1>7, FS_Union
  <2> QED
    BY <1>5, <1>6, <2>1, <2>2, <2>3
<1>9. Cardinality(rest) \in Nat /\ Cardinality(old) \in Nat /\ Cardinality(new) \in Nat
  BY <1>1, <1>7, FS_CardinalityType
<1> QED
  BY <1>1, <1>8, <1>9

-----------------------------------------------------------------------------
(* The invariant: the bytes counted are those accepted and those carried,  *)
(* and those that are being sent have their place within the limit.        *)
AudioOf(s) ==
  /\ audio[s] \in Nat /\ accepted[s] \in Nat
  /\ IsFiniteSet(Carried(s, Uncertain)) /\ IsFiniteSet(Carried(s, {"sending"}))
  /\ audio[s] = accepted[s] + Cardinality(Carried(s, Uncertain))
  /\ accepted[s] + Cardinality(Carried(s, {"sending"})) <= MaxAudio
AudioInv ==
  /\ audio \in [Ids -> Nat] /\ accepted \in [Ids -> Nat]
  /\ \A s \in Ids : AudioOf(s)

LEMMA AudioInvIs == AudioInv => AudioAccounted
<1> SUFFICES ASSUME AudioInv, NEW s \in Ids
             PROVE  audio[s] = accepted[s] + InFlight(s) /\ accepted[s] <= MaxAudio
  BY DEF AudioAccounted
<1>1. AudioOf(s) /\ Cardinality(Carried(s, {"sending"})) \in Nat /\ MaxAudio \in Nat
  BY FS_CardinalityType, VoiceRuntimeAssumption DEF AudioInv, AudioOf
<1> QED
  BY <1>1 DEF AudioOf, InFlight, Uncertain

(* What a step has to show of the one caller that moves.                   *)
LEMMA AudioStep ==
  ASSUME NEW t \in Callers, AudioInv, \A u \in Callers \ {t} : task'[u] = task[u],
         task[t].n \in Nat, task'[t].n \in Nat,
         audio' \in [Ids -> Int], accepted' \in [Ids -> Nat],
         \A s \in Ids :
           /\ audio'[s] + Load(task[t], s, Uncertain) + accepted[s]
                = audio[s] + Load(task'[t], s, Uncertain) + accepted'[s]
           /\ \/ accepted'[s] + Load(task'[t], s, {"sending"})
                   <= accepted[s] + Load(task[t], s, {"sending"})
              \/ audio'[s] <= MaxAudio
  PROVE  AudioInv'
<1>1. \A q, s, pcs : q.n \in Nat => Load(q, s, pcs) \in Nat
  BY DEF Load
<1>2. ASSUME NEW s \in Ids  PROVE  AudioOf(s)'
  <2> DEFINE card == Cardinality(Carried(s, Uncertain))
             cardNow == Cardinality(Carried(s, Uncertain)')
             sent == Cardinality(Carried(s, {"sending"}))
             sentNow == Cardinality(Carried(s, {"sending"})')
  <2>1. AudioOf(s)
    BY DEF AudioInv
  <2>2. /\ IsFiniteSet(Carried(s, Uncertain)') /\ card \in Nat /\ cardNow \in Nat
        /\ cardNow + Load(task[t], s, Uncertain) = card + Load(task'[t], s, Uncertain)
    BY <2>1, Recount DEF AudioOf
  <2>3. /\ IsFiniteSet(Carried(s, {"sending"})') /\ sent \in Nat /\ sentNow \in Nat
        /\ sentNow + Load(task[t], s, {"sending"}) = sent + Load(task'[t], s, {"sending"})
    BY <2>1, Recount DEF AudioOf
  <2>4. sentNow <= cardNow
    <3>1. Carried(s, {"sending"})' \subseteq Carried(s, Uncertain)'
      BY DEF Carried, Uncertain
    <3> QED
      BY <2>2, <3>1, FS_Subset
  <2>5. /\ Load(task[t], s, Uncertain) \in Nat /\ Load(task'[t], s, Uncertain) \in Nat
        /\ Load(task[t], s, {"sending"}) \in Nat /\ Load(task'[t], s, {"sending"}) \in Nat
        /\ audio'[s] \in Int /\ accepted'[s] \in Nat /\ MaxAudio \in Nat
        /\ audio[s] \in Nat /\ accepted[s] \in Nat
        /\ audio[s] = accepted[s] + card /\ accepted[s] + sent <= MaxAudio
    BY <1>1, <2>1, VoiceRuntimeAssumption DEF AudioOf
  <2> HIDE DEF card, cardNow, sent, sentNow
  <2>6. audio'[s] = accepted'[s] + cardNow
    <3>1. audio'[s] + Load(task[t], s, Uncertain) + accepted[s]
            = audio[s] + Load(task'[t], s, Uncertain) + accepted'[s]
      OBVIOUS
    <3> DEFINE new == audio'[s]
               before == Load(task[t], s, Uncertain)
               after == Load(task'[t], s, Uncertain)
    <3>2. /\ new + before + accepted[s] = audio[s] + after + accepted'[s]
          /\ cardNow + before = card + after /\ audio[s] = accepted[s] + card
          /\ new \in Int /\ before \in Nat /\ after \in Nat /\ card \in Nat /\ cardNow \in Nat
          /\ audio[s] \in Nat /\ accepted[s] \in Nat /\ accepted'[s] \in Nat
      BY <2>2, <2>5, <3>1
    <3> HIDE DEF new, before, after
    <3>3. new = accepted'[s] + cardNow
      BY <3>2
    <3> QED
      BY <3>3 DEF new
  <2>7. accepted'[s] + sentNow <= MaxAudio
    <3>1. CASE audio'[s] <= MaxAudio
      BY <2>2, <2>3, <2>4, <2>5, <2>6, <3>1
    <3>2. CASE accepted'[s] + Load(task'[t], s, {"sending"})
                 <= accepted[s] + Load(task[t], s, {"sending"})
      BY <2>3, <2>5, <3>2
    <3> QED
      BY <3>1, <3>2
  <2>8. audio'[s] \in Nat
    BY <2>2, <2>5, <2>6
  <2> QED
    BY <2>2, <2>3, <2>5, <2>6, <2>7, <2>8 DEF AudioOf, cardNow, sentNow
<1> QED
  BY <1>2 DEF AudioInv, AudioOf

(* Steps of tasks that have no bytes in hand.                              *)
Empty(t) ==
  /\ UNCHANGED <<audio, accepted>>
  /\ \A u \in Tasks \ {t} : task'[u] = task[u]
  /\ task[t].pc \notin Uncertain /\ task'[t].pc \notin Uncertain

LEMMA EmptyStep ==
  ASSUME NEW t, AudioInv, Empty(t)  PROVE  AudioInv'
<1>1. ASSUME NEW s, NEW pcs \in SUBSET Uncertain
      PROVE  Carried(s, pcs)' = Carried(s, pcs)
  <2>1. \A u \in Callers : Own(u, task'[u], s, pcs) = Own(u, task[u], s, pcs)
    BY DEF Empty, Own, Tasks
  <2>2. \A b : b \in Carried(s, pcs)' <=> b \in Carried(s, pcs)
    BY <2>1, CarriedIs, CarriedIsPrimed
  <2> QED
    BY <2>2
<1>2. \A s \in Ids : /\ Carried(s, Uncertain)' = Carried(s, Uncertain)
                     /\ Carried(s, {"sending"})' = Carried(s, {"sending"})
  BY <1>1 DEF Uncertain
<1> QED
  BY <1>2 DEF AudioInv, AudioOf, Empty

LEMMA EmptyStarts ==
  ASSUME NEW t \in Tasks, IInv,
         \/ StartCheck(t) \/ StartOpened(t) \/ StartFails(t) \/ StartInsert(t)
         \/ StartRefused(t) \/ StartUndone(t) \/ StartGreets(t)
  PROVE  Empty(t)
<1>0. task \in [Tasks -> Task] /\ task[t] \in Task /\ NoTask.pc = "none"
  BY DEF IInv, Typed, NoTask
<1>1. UNCHANGED <<audio, accepted>>
  BY DEF StartCheck, StartOpened, StartFails, StartInsert, StartRefused, StartUndone,
     StartGreets, registry
<1>2. \A u \in Tasks \ {t} : task'[u] = task[u]
  BY <1>0 DEF StartCheck, StartOpened, StartFails, StartInsert, StartRefused, StartUndone,
     StartGreets, Goto, Enter, Return
<1>3. /\ task[t].pc \in {"none", "opening", "inserting", "undoing", "greeting"}
      /\ task'[t].pc \in {"none", "opening", "inserting", "undoing", "greeting"}
  BY <1>0 DEF StartCheck, StartOpened, StartFails, StartInsert, StartRefused, StartUndone,
     StartGreets, Goto, Enter, Return, At, Task
<1> QED
  BY <1>1, <1>2, <1>3 DEF Empty, Uncertain

LEMMA EmptyEnds ==
  ASSUME NEW t \in Tasks, IInv,
         \/ Spoken(t) \/ Interrupted(t) \/ CallFails(t) \/ Fail(t)
         \/ EndAsked(t) \/ Close(t) \/ Removal(t)
  PROVE  Empty(t)
<1>0. task \in [Tasks -> Task] /\ task[t] \in Task /\ NoTask.pc = "none"
  BY DEF IInv, Typed, NoTask
<1>1. UNCHANGED <<audio, accepted>>
  BY DEF Spoken, Interrupted, CallFails, Fail, EndAsked, Close, Removal, registry
<1>2. \A u \in Tasks \ {t} : task'[u] = task[u]
  BY <1>0 DEF Spoken, Interrupted, CallFails, Fail, EndAsked, Close, Removal, Goto, Return
<1>3. /\ task[t].pc \in {"speaking", "cancelling", "failing", "ending", "closing", "removing"}
      /\ task'[t].pc \in {"none", "failing", "closing", "removing", "sweeping"}
  <2>1. CASE Spoken(t) \/ Interrupted(t) \/ CallFails(t) \/ Fail(t)
    BY <1>0, <2>1 DEF Spoken, Interrupted, CallFails, Fail, Goto, Return, At, Task
  <2>2. CASE EndAsked(t) \/ Close(t) \/ Removal(t)
    BY <1>0, <2>2 DEF EndAsked, Close, Removal, Goto, Return, At, Task
  <2> QED
    BY <2>1, <2>2
<1> QED
  BY <1>1, <1>2, <1>3 DEF Empty, Uncertain

LEMMA EmptyAsks ==
  ASSUME NEW t \in Tasks, NEW s \in Ids, IInv,
         Speak(t, s) \/ Interrupt(t, s) \/ EndSession(t, s) \/ PollBegin(t, s)
  PROVE  Empty(t)
<1>0. task \in [Tasks -> Task] /\ task[t] \in Task
  BY DEF IInv, Typed
<1>1. UNCHANGED <<audio, accepted>> /\ task[t].pc = "none"
  BY DEF Speak, Interrupt, EndSession, PollBegin, registry, Known, At
<1>2. PICK pc \in {"speaking", "cancelling", "ending", "polling"} :
        task' = [task EXCEPT ![t].pc = pc, ![t].s = s]
  BY DEF Speak, Interrupt, EndSession, PollBegin, Enter
<1>3. task'[t].pc = pc /\ \A u \in Tasks \ {t} : task'[u] = task[u]
  BY <1>0, <1>2 DEF Task
<1> QED
  BY <1>1, <1>2, <1>3 DEF Empty, Uncertain

LEMMA EmptyPolls ==
  ASSUME NEW t \in Tasks, IInv,
         \/ PollEvent(t) \/ Handle(t) \/ PollEnd(t)
         \/ SweepBegin(t) \/ SweepNext(t) \/ SweepEnd(t)
  PROVE  Empty(t)
<1>0. task \in [Tasks -> Task] /\ task[t] \in Task /\ NoTask.pc = "none"
  BY DEF IInv, Typed, NoTask
<1>1. UNCHANGED <<audio, accepted>>
  BY DEF PollEvent, Handle, PollEnd, SweepBegin, SweepNext, SweepEnd, registry
<1>2. CASE Handle(t) \/ PollEnd(t) \/ SweepBegin(t) \/ SweepEnd(t)
  <2>1. \A u \in Tasks \ {t} : task'[u] = task[u]
    BY <1>0, <1>2 DEF Handle, PollEnd, SweepBegin, SweepEnd, Goto, Return
  <2>2. /\ task[t].pc \in {"none", "handling", "polling", "sweeping"}
        /\ task'[t].pc \in {"none", "polling", "sweeping"}
    BY <1>0, <1>2 DEF Handle, PollEnd, SweepBegin, SweepEnd, Goto, Return, At, Task
  <2> QED
    BY <1>1, <2>1, <2>2 DEF Empty, Uncertain
<1>3. CASE PollEvent(t)
  <2>1. task' = [task EXCEPT ![t].pc = "handling", ![t].n = @ + 1,
                             ![t].ev = Head(queue[task[t].s])]
    BY <1>3 DEF PollEvent
  <2> DEFINE q == [task[t] EXCEPT !.pc = "handling", !.n = @ + 1,
                                  !.ev = Head(queue[task[t].s])]
  <2>2. task' = [task EXCEPT ![t] = q]
    BY <1>0, <2>1
  <2>3. q.pc = "handling"
    BY <1>0 DEF Task
  <2> HIDE DEF q
  <2> QED
    BY <1>0, <1>1, <1>3, <2>2, <2>3 DEF Empty, Uncertain, PollEvent, At
<1>4. CASE SweepNext(t)
  <2>1. PICK s \in task[t].todo, pc \in {"ending", "sweeping"} :
          task' = [task EXCEPT ![t].pc = pc, ![t].s = s, ![t].todo = @ \ {s}]
    BY <1>4 DEF SweepNext
  <2> DEFINE q == [task[t] EXCEPT !.pc = pc, !.s = s, !.todo = @ \ {s}]
  <2>2. task' = [task EXCEPT ![t] = q]
    BY <1>0, <2>1
  <2>3. q.pc = pc
    BY <1>0 DEF Task
  <2> HIDE DEF q
  <2> QED
    BY <1>0, <1>1, <1>4, <2>2, <2>3 DEF Empty, Uncertain, SweepNext, At
<1> QED
  BY <1>2, <1>3, <1>4

-----------------------------------------------------------------------------
(* Steps of a caller that has bytes in hand.                               *)
LEMMA SendAudioKeeps ==
  ASSUME NEW t \in Callers, NEW s \in Ids, NEW n \in Chunks, IInv, AudioInv,
         SendAudio(t, s, n)
  PROVE  AudioInv'
<1>0. /\ task \in [Tasks -> Task] /\ task[t] \in Task /\ Callers \subseteq Tasks
      /\ n \in Nat /\ MaxAudio \in Nat
      /\ audio \in [Ids -> Nat] /\ accepted \in [Ids -> Nat]
  BY VoiceRuntimeAssumption DEF IInv, Typed, Tasks, AudioInv
<1> DEFINE pc == IF audio[s] + n > MaxAudio THEN "over" ELSE "sending"
           q == [task[t] EXCEPT !.pc = pc, !.s = s, !.n = n]
<1>1. /\ task[t].pc = "none" /\ audio' = [audio EXCEPT ![s] = audio[s] + n]
      /\ task' = [task EXCEPT ![t].pc = pc, ![t].s = s, ![t].n = n]
      /\ accepted' = accepted
  BY DEF SendAudio, Known, At
<1>2. task' = [task EXCEPT ![t] = q]
  BY <1>0, <1>1
<1>3. q.pc = pc /\ q.s = s /\ q.n = n
  BY <1>0 DEF Task
<1> HIDE DEF q
<1>4. /\ \A u \in Callers \ {t} : task'[u] = task[u]
      /\ task'[t] = q /\ task[t].n \in Nat
  BY <1>0, <1>2 DEF Task
<1>5. \A x \in Ids :
        /\ audio'[x] = IF x = s THEN audio[s] + n ELSE audio[x]
        /\ Load(task[t], x, Uncertain) = 0 /\ Load(task[t], x, {"sending"}) = 0
        /\ Load(q, x, Uncertain) = IF x = s THEN n ELSE 0
        /\ x # s => Load(q, x, {"sending"}) = 0
        /\ audio[s] + n > MaxAudio => Load(q, x, {"sending"}) = 0
  BY <1>0, <1>1, <1>3 DEF Load, Uncertain
<1>6. audio' \in [Ids -> Int]
  BY <1>0, <1>1
<1>7. \A x \in Ids :
        /\ audio'[x] + Load(task[t], x, Uncertain) + accepted[x]
             = audio[x] + Load(task'[t], x, Uncertain) + accepted'[x]
        /\ \/ accepted'[x] + Load(task'[t], x, {"sending"})
                <= accepted[x] + Load(task[t], x, {"sending"})
           \/ audio'[x] <= MaxAudio
  BY <1>0, <1>1, <1>4, <1>5
<1> QED
  BY <1>0, <1>1, <1>3, <1>4, <1>6, <1>7, AudioStep

LEMMA AudioAnswered ==
  ASSUME NEW t \in Callers, IInv, AudioInv,
         AudioRefused(t) \/ AudioSent(t) \/ AudioFails(t)
  PROVE  AudioInv'
<1> DEFINE s == task[t].s
           n == task[t].n
<1>0. /\ task \in [Tasks -> Task] /\ task[t] \in Task /\ Callers \subseteq Tasks
      /\ n \in Nat /\ s \in Ids /\ task[t].pc \in Uncertain
      /\ audio \in [Ids -> Nat] /\ accepted \in [Ids -> Nat]
      /\ NoTask.n = 0 /\ NoTask.pc = "none"
  BY DEF IInv, Typed, Tasks, AudioInv, TasksKnow, Knows, AudioRefused, AudioSent,
     AudioFails, At, Uncertain, Task, NoTask
<1>1. /\ \A u \in Callers \ {t} : task'[u] = task[u]
      /\ task'[t].n = 0 /\ task'[t].pc \notin Uncertain
  BY <1>0 DEF AudioRefused, AudioSent, AudioFails, Return, Task, Uncertain
<1>2. \A x \in Ids, pcs \in {Uncertain, {"sending"}} :
        Load(task'[t], x, pcs) = 0 /\ Load(task[t], x, pcs) \in Nat
  BY <1>0, <1>1 DEF Load
<1>3. CASE AudioRefused(t) \/ AudioFails(t)
  <2>1. audio' = [audio EXCEPT ![s] = audio[s] - n] /\ accepted' = accepted
    BY <1>3 DEF AudioRefused, AudioFails, Uncount
  <2>2. \A x \in Ids :
          /\ audio'[x] = IF x = s THEN audio[s] - n ELSE audio[x]
          /\ Load(task[t], x, Uncertain) = IF x = s THEN n ELSE 0
    BY <1>0, <2>1 DEF Load
  <2>3. audio' \in [Ids -> Int]
    BY <1>0, <2>1
  <2>4. \A x \in Ids :
          /\ audio'[x] + Load(task[t], x, Uncertain) + accepted[x]
               = audio[x] + Load(task'[t], x, Uncertain) + accepted'[x]
          /\ accepted'[x] + Load(task'[t], x, {"sending"})
               <= accepted[x] + Load(task[t], x, {"sending"})
    BY <1>0, <1>2, <2>1, <2>2
  <2> QED
    BY <1>0, <1>1, <2>1, <2>3, <2>4, AudioStep
<1>4. CASE AudioSent(t)
  <2>1. /\ accepted' = [accepted EXCEPT ![s] = accepted[s] + n] /\ audio' = audio
        /\ task[t].pc = "sending"
    BY <1>4 DEF AudioSent, At
  <2>2. \A x \in Ids :
          /\ accepted'[x] = IF x = s THEN accepted[s] + n ELSE accepted[x]
          /\ Load(task[t], x, Uncertain) = IF x = s THEN n ELSE 0
          /\ Load(task[t], x, {"sending"}) = IF x = s THEN n ELSE 0
    BY <1>0, <2>1 DEF Load
  <2>3. audio' \in [Ids -> Int] /\ accepted' \in [Ids -> Nat]
    BY <1>0, <2>1
  <2>4. \A x \in Ids :
          /\ audio'[x] + Load(task[t], x, Uncertain) + accepted[x]
               = audio[x] + Load(task'[t], x, Uncertain) + accepted'[x]
          /\ accepted'[x] + Load(task'[t], x, {"sending"})
               <= accepted[x] + Load(task[t], x, {"sending"})
    BY <1>0, <1>2, <2>1, <2>2
  <2> QED
    BY <1>0, <1>1, <2>3, <2>4, AudioStep
<1> QED
  BY <1>3, <1>4

LEMMA AudioInvariance == Spec => [](IInv /\ AudioInv)
<1>1. Init => AudioInv
  <2> SUFFICES ASSUME Init  PROVE  AudioInv
    OBVIOUS
  <2>1. \A t \in Callers : task[t].pc = "none"
    BY DEF Init, Tasks, NoTask
  <2>2. \A s \in Ids : Carried(s, Uncertain) = {} /\ Carried(s, {"sending"}) = {}
    BY <2>1 DEF Carried, Uncertain
  <2>3. IsFiniteSet({}) /\ Cardinality({}) = 0 /\ MaxAudio \in Nat
    BY FS_EmptySet, VoiceRuntimeAssumption
  <2>4. /\ audio \in [Ids -> Nat] /\ accepted \in [Ids -> Nat]
        /\ \A s \in Ids : audio[s] = 0 /\ accepted[s] = 0
    BY DEF Init
  <2>5. ASSUME NEW s \in Ids  PROVE  AudioOf(s)
    <3>1. audio[s] = 0 /\ accepted[s] = 0
      BY <2>4
    <3>2. /\ Cardinality(Carried(s, Uncertain)) = 0
          /\ Cardinality(Carried(s, {"sending"})) = 0
          /\ IsFiniteSet(Carried(s, Uncertain)) /\ IsFiniteSet(Carried(s, {"sending"}))
      BY <2>2, <2>3
    <3> QED
      BY <2>3, <3>1, <3>2 DEF AudioOf
  <2> QED
    BY <2>4, <2>5 DEF AudioInv
<1>2. IInv /\ AudioInv /\ [Next]_vars => AudioInv'
  <2> SUFFICES ASSUME IInv, AudioInv, [Next]_vars  PROVE  AudioInv'
    OBVIOUS
  <2>1. ASSUME NEW t, MildAction(t)  PROVE  AudioInv'
    <3>1. t \in Tasks
      BY <2>1 DEF MildAction, Tasks
    <3>2. CASE \/ /\ t \in Callers
                  /\ \/ AudioRefused(t) \/ AudioSent(t) \/ AudioFails(t)
                     \/ \E s \in Ids, n \in Chunks : SendAudio(t, s, n)
      BY <3>2, AudioAnswered, SendAudioKeeps
    <3>3. CASE Empty(t)
      BY <3>3, EmptyStep
    <3> QED
      BY <2>1, <3>1, <3>2, <3>3, EmptyStarts, EmptyEnds, EmptyAsks, EmptyPolls
         DEF MildAction, Answered, Polling
  <2>2. ASSUME NEW t \in Tasks, StartOpened(t) \/ StartInsert(t) \/ Removal(t)
        PROVE  AudioInv'
    BY <2>2, EmptyStarts, EmptyEnds, EmptyStep
  <2>3. ASSUME UNCHANGED <<audio, accepted, task>>  PROVE  AudioInv'
    <3>1. \A s \in Ids : /\ Carried(s, Uncertain)' = Carried(s, Uncertain)
                         /\ Carried(s, {"sending"})' = Carried(s, {"sending"})
      BY <2>3 DEF Carried
    <3> QED
      BY <2>3, <3>1 DEF AudioInv, AudioOf
  <2>4. (\E s \in Ids : ProviderReports(s)) \/ UNCHANGED vars
          => UNCHANGED <<audio, accepted, task>>
    BY DEF ProviderReports, vars, registry
  <2> QED
    BY <2>1, <2>2, <2>3, <2>4, Steps DEF Tasks
<1> QED
  BY <1>1, <1>2, Invariance, PTL DEF Spec

(* Whatever calls overlap, are refused or fail, the bytes counted are the  *)
(* bytes accepted and those on their way, and what the provider accepts is *)
(* within the limit.  VoiceRuntime: AudioAccounted.                        *)
THEOREM AudioIsCounted == Spec => []AudioAccounted
<1> QED
  BY AudioInvIs, AudioInvariance, PTL
=============================================================================
