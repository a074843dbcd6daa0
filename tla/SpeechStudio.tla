---------------------------- MODULE SpeechStudio ----------------------------
(***************************************************************************)
(* The studio of voice-runtime/src/studio.rs, which the routes of          *)
(* gateway/src/native_voice.rs call one request at a time, any number of   *)
(* them on one session: a table of sessions under a lock, and per session  *)
(* flags that are read and written one atomic at a time.  A client is a    *)
(* request in progress, a sweeper a task that calls sweep_idle.            *)
(*                                                                         *)
(* Left out: what audio holds, the checks of one argument, transcription   *)
(* and the reading of a recording (they change no state here), and time: a *)
(* sweep may find any session idle.                                        *)
(***************************************************************************)
EXTENDS Naturals, FiniteSets, StudioState

flags == <<closed, cancelled, speaking>>
vars == <<sessions, flags, recording, call>>

-----------------------------------------------------------------------------
Pcs == {"none", "opening", "readying", "raising", "synthesizing", "checking",
        "generated", "withdrawn", "storing", "recording", "cancelling",
        "lowering", "removing", "sweeping"}
Speech == {"readying", "raising", "synthesizing", "checking"}
NoCall == [pc |-> "none", s |-> 0, n |-> 0, cut |-> FALSE, alone |-> TRUE, todo |-> {}]

Init ==
  /\ sessions = {} /\ closed = {} /\ cancelled = {} /\ speaking = {}
  /\ recording = [s \in Ids |-> 0]
  /\ call = [c \in Actors |-> NoCall]

At(c, pc) == call[c].pc = pc
Goto(c, pc) == call' = [call EXCEPT ![c].pc = pc]
Enter(c, pc, s) == call' = [call EXCEPT ![c].pc = pc, ![c].s = s]
Return(c) == call' = [call EXCEPT ![c] = NoCall]
(* Actors find a session in the table that is not closed. *)
Usable(c, s) == At(c, "none") /\ s \in sessions \ closed

(* start_session. *)
Unused(s) == s \notin sessions \cup closed /\ \A c \in Actors : call[c].s # s
StartCheck(c) ==
  /\ At(c, "none")
  /\ Cardinality(sessions) < MaxSessions
  /\ \E s \in Ids : Unused(s) /\ Enter(c, "opening", s)
  /\ UNCHANGED <<sessions, flags, recording>>

(* Fault: the size of the table is not looked at again under the lock. *)
RoomAssumed == TRUE

Room == Cardinality(sessions) < MaxSessions

StartInsert(c) ==
  /\ At(c, "opening") /\ Room
  /\ sessions' = sessions \cup {call[c].s}
  /\ Return(c)
  /\ UNCHANGED <<flags, recording>>

StartRefused(c) ==
  /\ At(c, "opening") /\ ~Room
  /\ Return(c)
  /\ UNCHANGED <<sessions, flags, recording>>

-----------------------------------------------------------------------------
(* speak, and speak_stream.  A speech is alone as long as no other speech  *)
(* of its session is in progress.                                          *)
Others(c, s) == {d \in Clients \ {c} : call[d].s = s /\ call[d].pc \in Speech}
Speak(c, s) ==
  /\ Usable(c, s)
  /\ call' = [d \in Actors |->
       IF d = c THEN [NoCall EXCEPT !.pc = "readying", !.s = s,
                                    !.alone = Others(c, s) = {}]
       ELSE IF d \in Others(c, s) THEN [call[d] EXCEPT !.alone = FALSE]
       ELSE call[d]]
  /\ UNCHANGED <<sessions, flags, recording>>

(* Fault: the cancellation of an earlier speech is left standing. *)
ReadyUncleared(c) ==
  /\ At(c, "readying")
  /\ Goto(c, "raising")
  /\ UNCHANGED <<sessions, flags, recording>>

Ready(c) ==
  /\ At(c, "readying")
  /\ cancelled' = cancelled \ {call[c].s}
  /\ Goto(c, "raising")
  /\ UNCHANGED <<sessions, closed, speaking, recording>>

(* Fault: the speech is not announced before the engine is awaited. *)
RaiseNot(c) ==
  /\ At(c, "raising")
  /\ Goto(c, "synthesizing")
  /\ UNCHANGED <<sessions, flags, recording>>

Raise(c) ==
  /\ At(c, "raising")
  /\ speaking' = speaking \cup {call[c].s}
  /\ Goto(c, "synthesizing")
  /\ UNCHANGED <<sessions, closed, cancelled, recording>>

(* The engine answers, or fails. *)
Synthesized(c) ==
  /\ At(c, "synthesizing")
  /\ speaking' = speaking \ {call[c].s}
  /\ Goto(c, "checking") \/ Return(c)
  /\ UNCHANGED <<sessions, closed, cancelled, recording>>

(* The client hangs up: the handler is dropped where it awaits the engine. *)
Abandoned(c) ==
  /\ At(c, "synthesizing")
  /\ Return(c)
  /\ UNCHANGED <<sessions, flags, recording>>

(* Fault: what was cancelled in the meantime is not looked at. *)
CheckBlindly(c) ==
  /\ At(c, "checking")
  /\ Goto(c, "generated")
  /\ UNCHANGED <<sessions, flags, recording>>

Check(c) ==
  /\ At(c, "checking")
  /\ Goto(c, IF call[c].s \in cancelled THEN "withdrawn" ELSE "generated")
  /\ UNCHANGED <<sessions, flags, recording>>

(* The audio, or the error Cancelled, is answered. *)
Answer(c) ==
  /\ call[c].pc \in {"generated", "withdrawn"}
  /\ Return(c)
  /\ UNCHANGED <<sessions, flags, recording>>

-----------------------------------------------------------------------------
(* Raise cancelled, which cuts the speeches that have cleared it.          *)
Cut(c, pc) ==
  /\ cancelled' = cancelled \cup {call[c].s}
  /\ call' = [d \in Actors |->
       IF d = c THEN IF pc = "none" THEN NoCall ELSE [call[c] EXCEPT !.pc = pc]
       ELSE IF call[d].s = call[c].s /\ call[d].pc \in Speech \ {"readying"}
            THEN [call[d] EXCEPT !.cut = TRUE]
            ELSE call[d]]

(* interrupt: answers false unless the session speaks.  It looks a session *)
(* up, and does not ask whether it is closed.                              *)
Interrupt(c, s) ==
  /\ At(c, "none") /\ s \in sessions \cap speaking
  /\ speaking' = speaking \ {s}
  /\ Enter(c, "storing", s)
  /\ UNCHANGED <<sessions, closed, cancelled, recording>>

Store(c) ==
  /\ At(c, "storing")
  /\ Cut(c, "none")
  /\ UNCHANGED <<sessions, closed, speaking, recording>>

(* end_session. *)
EndSession(c, s) ==
  /\ At(c, "none") /\ s \in sessions
  /\ closed' = closed \cup {s}
  /\ Enter(c, "cancelling", s)
  /\ UNCHANGED <<sessions, cancelled, speaking, recording>>

EndCancels(c) ==
  /\ At(c, "cancelling")
  /\ Cut(c, "lowering")
  /\ UNCHANGED <<sessions, closed, speaking, recording>>

EndLowers(c) ==
  /\ At(c, "lowering")
  /\ speaking' = speaking \ {call[c].s}
  /\ Goto(c, "removing")
  /\ UNCHANGED <<sessions, closed, cancelled, recording>>

EndRemoves(c) ==
  /\ At(c, "removing")
  /\ sessions' = sessions \ {call[c].s}
  /\ IF c \in Sweepers THEN Goto(c, "sweeping") ELSE Return(c)
  /\ UNCHANGED <<flags, recording>>

(* sweep_idle: over the sessions that were in the table when it began,     *)
(* whether or not they have ended since.                                   *)
SweepBegin(c) ==
  /\ At(c, "none") /\ sessions # {}
  /\ call' = [call EXCEPT ![c].pc = "sweeping", ![c].todo = sessions]
  /\ UNCHANGED <<sessions, flags, recording>>

SweepSkips(c) ==
  /\ At(c, "sweeping")
  /\ \E s \in call[c].todo : call' = [call EXCEPT ![c].todo = @ \ {s}]
  /\ UNCHANGED <<sessions, flags, recording>>

SweepEnds(c) ==
  /\ At(c, "sweeping")
  /\ \E s \in call[c].todo :
       /\ closed' = closed \cup {s}
       /\ call' = [call EXCEPT ![c].pc = "cancelling", ![c].s = s, ![c].todo = @ \ {s}]
  /\ UNCHANGED <<sessions, cancelled, speaking, recording>>

SweepDone(c) ==
  /\ At(c, "sweeping") /\ call[c].todo = {}
  /\ Return(c)
  /\ UNCHANGED <<sessions, flags, recording>>

-----------------------------------------------------------------------------
(* record_audio looks for room and extends under the recording's lock.     *)
Record(c, s, n) ==
  /\ Usable(c, s)
  /\ call' = [call EXCEPT ![c].pc = "recording", ![c].s = s, ![c].n = n]
  /\ UNCHANGED <<sessions, flags, recording>>

(* Fault: the limit is not looked at under the lock. *)
FitsAlways(c) == TRUE

Fits(c) == recording[call[c].s] + call[c].n <= MaxRecording

Recorded(c) ==
  /\ At(c, "recording")
  /\ recording' = IF Fits(c) THEN [recording EXCEPT ![call[c].s] = @ + call[c].n]
                  ELSE recording
  /\ Return(c)
  /\ UNCHANGED <<sessions, flags>>

ClearRecording(s) ==
  /\ s \in sessions /\ recording[s] # 0
  /\ recording' = [recording EXCEPT ![s] = 0]
  /\ UNCHANGED <<sessions, flags, call>>

-----------------------------------------------------------------------------
Ending(c) == EndCancels(c) \/ EndLowers(c) \/ EndRemoves(c)
Starting(c) == StartCheck(c) \/ StartInsert(c) \/ StartRefused(c)
Speaking(c) == Ready(c) \/ Raise(c) \/ Synthesized(c) \/ Abandoned(c) \/ Check(c) \/ Answer(c)

Next ==
  \/ \E c \in Clients :
       \/ Starting(c) \/ Speaking(c) \/ Store(c) \/ Ending(c) \/ Recorded(c)
       \/ \E s \in Ids : Speak(c, s) \/ Interrupt(c, s) \/ EndSession(c, s)
       \/ \E s \in Ids, n \in Pieces : Record(c, s, n)
  \/ \E c \in Sweepers : SweepBegin(c) \/ SweepSkips(c) \/ SweepEnds(c)
                         \/ SweepDone(c) \/ Ending(c)
  \/ \E s \in Ids : ClearRecording(s)

Spec == Init /\ [][Next]_vars

-----------------------------------------------------------------------------
TypeOK ==
  /\ sessions \subseteq Ids /\ closed \subseteq Ids
  /\ cancelled \subseteq Ids /\ speaking \subseteq Ids
  /\ recording \in [Ids -> Nat]
  /\ \A c \in Actors :
       /\ call[c].pc \in Pcs /\ call[c].n \in {0} \cup Pieces
       /\ call[c].cut \in BOOLEAN /\ call[c].alone \in BOOLEAN
       /\ call[c].todo \subseteq Ids
       /\ call[c].pc \notin {"none", "sweeping"} => call[c].s \in Ids
=============================================================================
