---------------------------- MODULE VoiceRuntime ----------------------------
(***************************************************************************)
(* The session runtime of voice-runtime/src/runtime.rs with the provider   *)
(* it drives, as mock.rs implements it.  Its methods take &self and await  *)
(* the provider, so that calls on one session run concurrently: every      *)
(* method is split at its awaits and locks, and a task says where a caller *)
(* stands in its method.                                                   *)
(*                                                                         *)
(* A sweep may find any session idle: time is left out, and so are texts,  *)
(* the checks of one argument, the numbers of events and turns (atomic     *)
(* counters that no step reads), and the provider events that change no    *)
(* state (transcripts, audio, tool requests).                              *)
(***************************************************************************)
EXTENDS Naturals, Sequences, FiniteSets, VoiceLimits

CONSTANTS
  Callers,      \* tasks that start, use and end sessions
  Pollers,      \* tasks that poll provider events
  MaxAudio, MaxEvents,
  Chunks,       \* sizes of the audio messages
  MaxQueue      \* bound on the events the provider has waiting

Tasks == Callers \cup Pollers \cup Sweepers

ASSUME VoiceRuntimeAssumption ==
  /\ MaxSessions \in Nat /\ MaxAudio \in Nat /\ MaxQueue \in Nat
  /\ MaxEvents \in Nat \ {0} /\ Chunks \subseteq Nat \ {0}
  /\ IsFiniteSet(Ids)

VARIABLES
  held,     \* the ids in the map sessions
  state,    \* per id: its VoiceState, "Unborn" before it is inserted
  audio,    \* per id: audio_bytes
  task,     \* per task: [pc, s, n, ev, todo]
  open,     \* provider: the sessions it started and was not asked to end
  queue,    \* provider: the events it has waiting, per session
  accepted  \* history: bytes of AudioAccepted, per id

registry == <<held, state, audio>>
provider == <<open, queue>>
vars == <<registry, task, provider, accepted>>

-----------------------------------------------------------------------------
Live == {"Created", "Listening", "Speaking", "Interrupted", "Failed"}
VoiceState == Live \cup {"Closed"}

(* Fault: a failed session may speak.                                      *)
FromRevived ==
  [StartListening |-> {"Created", "Interrupted"},
   StartSpeaking  |-> Live \ {"Speaking"},
   FinishSpeaking |-> {"Speaking"}, Interrupt |-> {"Speaking"},
   Resume |-> {"Failed", "Interrupted"}, Close |-> Live, Fail |-> Live]

(* The states an event is legal in, and the state it leads to (transition, *)
(* state.rs).                                                              *)
From ==
  [StartListening |-> {"Created", "Interrupted"},
   StartSpeaking  |-> {"Created", "Listening", "Interrupted"},
   FinishSpeaking |-> {"Speaking"},
   Interrupt      |-> {"Speaking"},
   Resume         |-> {"Failed", "Interrupted"},
   Close          |-> Live,
   Fail           |-> Live]
To ==
  [StartListening |-> "Listening", StartSpeaking |-> "Speaking",
   FinishSpeaking |-> "Listening", Interrupt |-> "Interrupted",
   Resume |-> "Listening", Close |-> "Closed", Fail |-> "Failed"]

Legal(s, event) == state[s] \in From[event]
(* Session::apply: an illegal event leaves the state alone.                *)
Applied(s, event) ==
  IF Legal(s, event) THEN [state EXCEPT ![s] = To[event]] ELSE state
Apply(s, event) == state' = Applied(s, event)

(* The session transition a provider event stands for.                     *)
Meaning ==
  [Ready |-> "StartListening", SpeechStarted |-> "StartSpeaking",
   SpeechEnded |-> "FinishSpeaking", SpeechInterrupted |-> "Interrupt",
   Error |-> "Fail", Completed |-> "Close"]
ProviderEvent == DOMAIN Meaning

Pcs == {"none", "opening", "inserting", "undoing", "greeting", "over", "sending",
        "speaking", "cancelling", "ending", "failing", "closing", "removing",
        "polling", "handling", "sweeping"}
NoTask == [pc |-> "none", s |-> 0, n |-> 0, ev |-> "Ready", todo |-> {}]

Init ==
  /\ held = {} /\ open = {}
  /\ state = [s \in Ids |-> "Unborn"]
  /\ audio = [s \in Ids |-> 0]
  /\ task = [t \in Tasks |-> NoTask]
  /\ queue = [s \in Ids |-> <<>>]
  /\ accepted = [s \in Ids |-> 0]

At(t, pc) == task[t].pc = pc
Goto(t, pc) == task' = [task EXCEPT ![t].pc = pc]
Enter(t, pc, s) == task' = [task EXCEPT ![t].pc = pc, ![t].s = s]
Return(t) == task' = [task EXCEPT ![t] = NoTask]
(* The provider queues events.  Those of a session that is not in the      *)
(* table are dropped: a poll in flight may still read them, and changes    *)
(* nothing, since the session is Closed.                                   *)
Emit(s, events) ==
  IF s \in held
  THEN /\ Len(queue[s]) + Len(events) <= MaxQueue
       /\ queue' = [queue EXCEPT ![s] = @ \o events]
  ELSE UNCHANGED queue

-----------------------------------------------------------------------------
(* start_session: there was room when it looked.                           *)
Unused(s) ==
  /\ state[s] = "Unborn" /\ s \notin open
  /\ \A t \in Tasks : task[t].pc # "none" => task[t].s # s
StartCheck(t) ==
  /\ At(t, "none")
  /\ Cardinality(held) < MaxSessions
  /\ \E s \in Ids : Unused(s) /\ Enter(t, "opening", s)
  /\ UNCHANGED <<registry, provider, accepted>>

StartOpened(t) ==
  /\ At(t, "opening")
  /\ open' = open \cup {task[t].s}
  /\ Goto(t, "inserting")
  /\ UNCHANGED <<registry, queue, accepted>>

StartFails(t) ==
  /\ At(t, "opening")
  /\ Return(t)
  /\ UNCHANGED <<registry, provider, accepted>>

(* Fault: the size of the table is not looked at again under the lock. *)
RoomAssumed == TRUE

Room == Cardinality(held) < MaxSessions

StartInsert(t) ==
  /\ At(t, "inserting") /\ Room
  /\ held' = held \cup {task[t].s}
  /\ state' = [state EXCEPT ![task[t].s] = "Created"]
  /\ queue' = [queue EXCEPT ![task[t].s] = <<"Ready">>]
  /\ Goto(t, "greeting")
  /\ UNCHANGED <<audio, open, accepted>>

(* Fault: the provider keeps the session that found no room. *)
StartForgotten(t) ==
  /\ At(t, "inserting") /\ ~Room
  /\ Return(t)
  /\ UNCHANGED <<registry, provider, accepted>>

StartRefused(t) ==
  /\ At(t, "inserting") /\ ~Room
  /\ Goto(t, "undoing")
  /\ UNCHANGED <<registry, provider, accepted>>

(* The provider is asked to end a session, and does, or fails to.          *)
Stops(s) == open' = open \ {s} /\ Emit(s, <<"Completed">>)
StopsNot(s) == open' = open \ {s} /\ UNCHANGED queue

StartUndone(t) ==
  /\ At(t, "undoing")
  /\ Stops(task[t].s) \/ StopsNot(task[t].s)
  /\ Return(t)
  /\ UNCHANGED <<registry, accepted>>

(* SessionStarted is published, unless a sweep closed the session already. *)
StartGreets(t) ==
  /\ At(t, "greeting")
  /\ Apply(task[t].s, "StartListening")
  /\ Return(t)
  /\ UNCHANGED <<held, audio, provider, accepted>>

-----------------------------------------------------------------------------
(* A caller knows the sessions in the table that were started.             *)
Known(t, s) == At(t, "none") /\ s \in held /\ state[s] # "Created"

(* send_audio: the bytes are counted before they are compared.             *)
SendAudio(t, s, n) ==
  /\ Known(t, s) /\ state[s] \notin {"Closed", "Failed"}
  /\ audio' = [audio EXCEPT ![s] = @ + n]
  /\ task' = [task EXCEPT ![t].pc = IF audio[s] + n > MaxAudio THEN "over" ELSE "sending",
                          ![t].s = s, ![t].n = n]
  /\ UNCHANGED <<held, state, provider, accepted>>

Uncount(t) == audio' = [audio EXCEPT ![task[t].s] = @ - task[t].n]

AudioRefused(t) ==
  /\ At(t, "over")
  /\ Uncount(t)
  /\ Return(t)
  /\ UNCHANGED <<held, state, provider, accepted>>

(* AudioAccepted. *)
AudioSent(t) ==
  LET s == task[t].s IN
  /\ At(t, "sending")
  /\ Emit(s, <<"SpeechEnded">>)
  /\ accepted' = [accepted EXCEPT ![s] = @ + task[t].n]
  /\ Return(t)
  /\ UNCHANGED <<held, state, audio, open>>

(* Fault: bytes that the provider did not take stay counted. *)
AudioForgotten(t) ==
  /\ At(t, "sending")
  /\ task' = [task EXCEPT ![t].pc = "failing", ![t].n = 0]
  /\ UNCHANGED <<registry, provider, accepted>>

AudioFails(t) ==
  /\ At(t, "sending")
  /\ Uncount(t)
  /\ task' = [task EXCEPT ![t].pc = "failing", ![t].n = 0]
  /\ UNCHANGED <<held, state, provider, accepted>>

(* speak: refused by the state machine while the session speaks.           *)
Speak(t, s) ==
  /\ Known(t, s) /\ Legal(s, "StartSpeaking")
  /\ Apply(s, "StartSpeaking")
  /\ Enter(t, "speaking", s)
  /\ UNCHANGED <<held, audio, provider, accepted>>

Spoken(t) ==
  /\ At(t, "speaking")
  /\ Emit(task[t].s, <<"SpeechStarted", "SpeechEnded">>)
  /\ Return(t)
  /\ UNCHANGED <<held, state, audio, open, accepted>>

(* interrupt: answers false, and does nothing, unless the session speaks.  *)
Interrupt(t, s) ==
  /\ Known(t, s) /\ Legal(s, "Interrupt")
  /\ Apply(s, "Interrupt")
  /\ Enter(t, "cancelling", s)
  /\ UNCHANGED <<held, audio, provider, accepted>>

Interrupted(t) ==
  /\ At(t, "cancelling")
  /\ Emit(task[t].s, <<"SpeechInterrupted">>)
  /\ Return(t)
  /\ UNCHANGED <<held, state, audio, open, accepted>>

(* Fault: a call the provider failed is answered, and the session goes on. *)
CallForgotten(t) ==
  /\ task[t].pc \in {"speaking", "cancelling"}
  /\ Return(t)
  /\ UNCHANGED <<registry, provider, accepted>>

(* The provider fails a call: ProviderError is published, then Fail.       *)
CallFails(t) ==
  /\ task[t].pc \in {"speaking", "cancelling"}
  /\ Goto(t, "failing")
  /\ UNCHANGED <<registry, provider, accepted>>

Fail(t) ==
  /\ At(t, "failing")
  /\ Apply(task[t].s, "Fail")
  /\ Return(t)
  /\ UNCHANGED <<held, audio, provider, accepted>>

-----------------------------------------------------------------------------
(* end_session.  A failing provider marks the session Failed on the way.   *)
EndSession(t, s) ==
  /\ Known(t, s)
  /\ Enter(t, "ending", s)
  /\ UNCHANGED <<registry, provider, accepted>>

(* Fault: what the provider fails to end is removed without being closed. *)
EndUnclosed(t) ==
  LET s == task[t].s IN
  /\ At(t, "ending")
  /\ \/ Stops(s) /\ Goto(t, "closing")
     \/ StopsNot(s) /\ Goto(t, "removing")
  /\ UNCHANGED <<held, state, audio, accepted>>

EndAsked(t) ==
  LET s == task[t].s IN
  /\ At(t, "ending")
  /\ \/ Stops(s) /\ UNCHANGED state
     \/ /\ StopsNot(s)
        /\ IF t \in Sweepers THEN UNCHANGED state ELSE Apply(s, "Fail")
  /\ Goto(t, "closing")
  /\ UNCHANGED <<held, audio, accepted>>

Close(t) ==
  /\ At(t, "closing")
  /\ Apply(task[t].s, "Close")
  /\ Goto(t, "removing")
  /\ UNCHANGED <<held, audio, provider, accepted>>

(* SessionCompleted, or SessionTimedOut, whoever else says so as well.     *)
Removal(t) ==
  LET s == task[t].s IN
  /\ At(t, "removing")
  /\ held' = held \ {s}
  /\ queue' = [queue EXCEPT ![s] = <<>>]
  /\ IF t \in Sweepers THEN Goto(t, "sweeping") ELSE Return(t)
  /\ UNCHANGED <<state, audio, open, accepted>>

(* sweep_idle: over the sessions that were in the table when it began.     *)
SweepBegin(t) ==
  /\ At(t, "none") /\ held # {}
  /\ task' = [task EXCEPT ![t].pc = "sweeping", ![t].todo = held]
  /\ UNCHANGED <<registry, provider, accepted>>

SweepNext(t) ==
  /\ At(t, "sweeping")
  /\ \E s \in task[t].todo :
       \E pc \in {"ending", "sweeping"} :
         task' = [task EXCEPT ![t].pc = pc, ![t].s = s, ![t].todo = @ \ {s}]
  /\ UNCHANGED <<registry, provider, accepted>>

SweepEnd(t) ==
  /\ At(t, "sweeping") /\ task[t].todo = {}
  /\ Return(t)
  /\ UNCHANGED <<registry, provider, accepted>>

-----------------------------------------------------------------------------
(* poll_events: up to MaxEvents events, each applied and published.  Its   *)
(* callers (tests, so far) poll a session by one task at a time: of two,   *)
(* one could apply the end of a speech before the other its beginning.     *)
PollBegin(t, s) ==
  /\ Known(t, s)
  /\ \A u \in Pollers : task[u].pc # "none" => task[u].s # s
  /\ Enter(t, "polling", s)
  /\ UNCHANGED <<registry, provider, accepted>>

PollEvent(t) ==
  LET s == task[t].s IN
  /\ At(t, "polling") /\ task[t].n < MaxEvents /\ queue[s] # <<>>
  /\ task' = [task EXCEPT ![t].pc = "handling", ![t].n = @ + 1, ![t].ev = Head(queue[s])]
  /\ queue' = [queue EXCEPT ![s] = Tail(@)]
  /\ UNCHANGED <<registry, open, accepted>>

(* handle_provider_event: published even when the transition is illegal.   *)
Handle(t) ==
  LET s == task[t].s IN
  /\ At(t, "handling")
  /\ Apply(s, Meaning[task[t].ev])
  /\ Goto(t, "polling")
  /\ UNCHANGED <<held, audio, provider, accepted>>

(* No more events, enough events, or a failing poll.                       *)
PollEnd(t) ==
  /\ At(t, "polling")
  /\ Return(t)
  /\ UNCHANGED <<held, state, audio, provider, accepted>>

(* What a provider reports of its own accord.                              *)
ProviderReports(s) ==
  /\ s \in open \cap held
  /\ \E ev \in {"Error", "Completed"} : Emit(s, <<ev>>)
  /\ UNCHANGED <<registry, task, open, accepted>>

-----------------------------------------------------------------------------
Starting(t) == StartCheck(t) \/ StartOpened(t) \/ StartFails(t) \/ StartInsert(t)
               \/ StartRefused(t) \/ StartUndone(t) \/ StartGreets(t)
Ending(t) == EndAsked(t) \/ Close(t) \/ Removal(t)
Answered(t) == AudioRefused(t) \/ AudioSent(t) \/ AudioFails(t) \/ Spoken(t)
               \/ Interrupted(t) \/ CallFails(t) \/ Fail(t)
Sweeping(t) == SweepBegin(t) \/ SweepNext(t) \/ SweepEnd(t) \/ Ending(t)
Polling(t) == (\E s \in Ids : PollBegin(t, s)) \/ PollEvent(t) \/ Handle(t) \/ PollEnd(t)

Next ==
  \/ \E t \in Callers :
       \/ Starting(t) \/ Ending(t) \/ Answered(t)
       \/ \E s \in Ids : Speak(t, s) \/ Interrupt(t, s) \/ EndSession(t, s)
       \/ \E s \in Ids, n \in Chunks : SendAudio(t, s, n)
  \/ \E t \in Pollers : Polling(t)
  \/ \E t \in Sweepers : Sweeping(t)
  \/ \E s \in Ids : ProviderReports(s)

Spec == Init /\ [][Next]_vars

-----------------------------------------------------------------------------
TypeOK ==
  /\ held \subseteq Ids
  /\ state \in [Ids -> VoiceState \cup {"Unborn"}]
  /\ audio \in [Ids -> Nat]
  /\ \A t \in Tasks :
       /\ task[t].pc \in Pcs /\ task[t].todo \subseteq Ids
       /\ task[t].n \in Nat /\ task[t].ev \in ProviderEvent
       /\ task[t].pc \notin {"none", "sweeping"} => task[t].s \in Ids
  /\ open \subseteq Ids
  /\ queue \in [Ids -> Seq(ProviderEvent)]
  /\ accepted \in [Ids -> 0..MaxAudio]

(* The capacity of the runtime is one decision, though start_session looks *)
(* at the table, awaits the provider and only then inserts: the sessions   *)
(* in the table are never more than max_sessions, and one that was removed *)
(* is not inserted again.                                                  *)
Pool == INSTANCE SessionPool
          WITH gone <- {s \in Ids : state[s] # "Unborn"} \ held
ImplementsPool == Pool!Spec

(* audio_bytes is what the provider accepted and what is on its way to it, *)
(* whichever calls overlap, are refused or fail; and what it accepted is   *)
(* within max_audio_bytes (send_audio counts before it compares).          *)
Carried(s, pcs) ==
  UNION {{t} \X (1..task[t].n) :
           t \in {u \in Callers : task[u].s = s /\ task[u].pc \in pcs}}
InFlight(s) == Cardinality(Carried(s, {"over", "sending"}))
AudioAccounted ==
  \A s \in Ids : /\ audio[s] = accepted[s] + InFlight(s)
                 /\ accepted[s] <= MaxAudio

(* No session is left running at the provider: one it was never asked to   *)
(* end is in the table, or a start_session still has it in hand.           *)
NoProviderLeak ==
  open \subseteq held \cup {task[t].s : t \in {u \in Callers :
                                    task[u].pc \in {"inserting", "undoing"}}}

(* A session that left the table was closed first, so that no late call or *)
(* event finds it usable.                                                  *)
GoneIsClosed == \A s \in Ids \ held : state[s] \in {"Unborn", "Closed"}

(* No session is left behind: every one is in the table, or in the hands   *)
(* of a start_session, and what left the table is closed.                  *)
NothingLeftBehind == NoProviderLeak /\ GoneIsClosed

(* No session is stuck speaking, which would refuse every later speak:     *)
(* whatever was cut, ended late or failed, the event that ends the speech  *)
(* is queued, or the call that will queue it, or fail, is on its way.      *)
SpeechOver ==
  \A s \in held : state[s] = "Speaking" =>
    \/ \E i \in 1..Len(queue[s]) : queue[s][i] = "SpeechEnded"
    \/ \E t \in Tasks : /\ task[t].s = s
                        /\ \/ task[t].pc \in {"speaking", "failing"}
                           \/ At(t, "handling") /\ task[t].ev = "SpeechEnded"

(* What is over stays over: no late answer, poll or event brings a closed  *)
(* session back, and a failed one can only be closed (resume is an event   *)
(* the runtime never applies).                                             *)
OverIsOver ==
  [][\A s \in Ids : /\ state[s] = "Closed" => state'[s] = "Closed"
                    /\ state[s] = "Failed" => state'[s] \in {"Failed", "Closed"}]_vars
=============================================================================
