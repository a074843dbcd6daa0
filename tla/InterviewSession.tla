-------------------------- MODULE InterviewSession --------------------------
(***************************************************************************)
(* The browser interview: handle_socket of gateway/src/ws_handler.rs with  *)
(* its session state machine (state_machine.rs) and a turn detector         *)
(* (vad.rs).  One handler per socket speaks a text while it listens for a  *)
(* barge-in, listens for the candidate's turn, has it transcribed, asks    *)
(* the agent for a decision, and speaks again; when the AI service fails   *)
(* it speaks a fallback phrase and recovers.                               *)
(*                                                                         *)
(* Messages that arrive while the handler awaits the AI service stay in    *)
(* the socket: reading them later is like reading any other.  The turn     *)
(* number is only shown to the client.                                     *)
(***************************************************************************)
EXTENDS TurnDetector

CONSTANT MaxUtterance \* longest utterance, in frames

ASSUME SessionAssumption == MaxUtterance \in Nat

VARIABLES
  pc,        \* where handle_socket stands
  saying,    \* what speak is speaking
  resume,    \* what follows a recovery: listening, or the head of the loop
  state,     \* session.state
  vad,       \* session.vad
  buf,       \* session.utterance_buf
  utterance, \* the utterance that is transcribed
  goodbye,   \* history: how the client learned of the end
  illegal    \* history: apply met an illegal transition

vars == <<pc, saying, resume, state, vad, buf, utterance, goodbye, illegal>>

-----------------------------------------------------------------------------
(* state_machine.rs.                                                       *)
Active == {"Initializing", "AiSpeaking", "Listening", "CandidateSpeaking",
           "Processing", "FollowUpDecision", "AiResponding"}
SessionState == Active \cup {"Interrupted", "Paused", "Completed", "ErrorRecovery"}

Illegal == "illegal"

Transition(s, event) ==
  CASE event = "Fault" /\ s \in Active \cup {"ErrorRecovery"} -> "ErrorRecovery"
    [] event = "StartSpeaking" /\ s \in {"Initializing", "ErrorRecovery"} -> "AiSpeaking"
    [] event = "StartSpeaking" /\ s = "FollowUpDecision" -> "AiResponding"
    [] event = "FinishedSpeaking" /\ s \in {"AiSpeaking", "AiResponding"} -> "Listening"
    [] event = "BargeIn" /\ s \in {"AiSpeaking", "AiResponding"} -> "Interrupted"
    [] event = "CandidateVoiceDetected" /\ s \in {"Listening", "Interrupted"} ->
         "CandidateSpeaking"
    [] event = "CandidateTurnEnded" /\ s = "CandidateSpeaking" -> "Processing"
    [] event = "TurnDecided" /\ s = "Processing" -> "FollowUpDecision"
    [] event = "InterviewComplete"
         /\ s \in {"Processing", "FollowUpDecision", "AiResponding"} -> "Completed"
    [] OTHER -> Illegal

(* apply: an illegal event is logged and otherwise ignored; and the events *)
(* of one step, one after the other.                                       *)
Applied(s, event) == IF Transition(s, event) = Illegal THEN s ELSE Transition(s, event)

Apply(events) ==
  LET after[i \in 0..Len(events)] ==
        IF i = 0 THEN state ELSE Applied(after[i - 1], events[i])
  IN /\ state' = after[Len(events)]
     /\ illegal' = (illegal \/ \E i \in 1..Len(events) :
                                 Transition(after[i - 1], events[i]) = Illegal)

-----------------------------------------------------------------------------
TooLong(heard) == Len(heard.buf) > MaxUtterance

Goodbyes == {"none", "closed", "error", "completed"}

TypeOK ==
  /\ pc \in {"starting", "speaking", "playing", "listening", "transcribing",
             "deciding", "ended"}
  /\ saying \in {"turn", "recovery", "closing"}
  /\ resume \in {"listen", "loop"}
  /\ state \in SessionState
  /\ DetectorOK(vad)
  /\ buf \in Seq(BOOLEAN)
  /\ Len(buf) <= MaxUtterance + MaxMessage + Preroll
  /\ utterance \in Seq(BOOLEAN)
  /\ Len(utterance) <= MaxUtterance
  /\ goodbye \in Goodbyes
  /\ illegal \in BOOLEAN

Init ==
  /\ pc = "starting"
  /\ saying = "turn" /\ resume = "listen"
  /\ state = "Initializing"
  /\ vad = Quiet
  /\ buf = <<>> /\ utterance = <<>>
  /\ goodbye = "none"
  /\ illegal = FALSE

Audio == <<vad, buf, utterance>>
Stay == UNCHANGED <<state, illegal>>

(* handle_socket returns, and with it the socket is closed.                *)
End(how) == pc' = "ended" /\ goodbye' = how /\ UNCHANGED <<saying, resume>>

Goto(label) == pc' = label /\ UNCHANGED <<saying, resume, goodbye>>

Speak(what, then) ==
  pc' = "speaking" /\ saying' = what /\ resume' = then /\ UNCHANGED goodbye

(* A fault of the AI service, and the fallback phrase.                     *)
Recover(then) ==
  Apply(<<"Fault", "StartSpeaking">>) /\ Speak("recovery", then)

(* Whatever became of the closing remark, the interview is complete.       *)
Complete == Apply(<<"InterviewComplete">>) /\ End("completed")

-----------------------------------------------------------------------------
Start(ok) ==
  /\ pc = "starting"
  /\ IF ok THEN Apply(<<"StartSpeaking">>) /\ Speak("turn", "listen")
           ELSE Stay /\ End("error")
  /\ UNCHANGED Audio

(* speak: a message of the candidate.                                      *)
Talking == pc \in {"speaking", "playing"}

HearWhileSpeaking(message) ==
  LET heard == Heard(vad, buf, message) IN
  /\ Talking
  /\ vad' = heard.vad /\ buf' = heard.buf /\ UNCHANGED utterance
  /\ CASE ~TooLong(heard) /\ "SpeechStarted" \notin heard.events ->
            Stay /\ UNCHANGED <<pc, saying, resume, goodbye>>
       [] saying = "closing" /\ (TooLong(heard) \/ "SpeechStarted" \in heard.events) ->
            Complete
       [] saying # "closing" /\ TooLong(heard) -> Stay /\ End("error")
       [] OTHER ->
            /\ Apply(<<"BargeIn", "CandidateVoiceDetected">>)
            /\ IF saying = "recovery" /\ resume = "loop"
               THEN End("none") ELSE Goto("listening")

(* The candidate leaves, or cannot be written to.                          *)
Leave ==
  /\ pc = "listening" \/ Talking
  /\ IF Talking /\ saying = "closing" THEN Complete ELSE Stay /\ End("closed")
  /\ UNCHANGED Audio

(* Fault: when even the fallback phrase fails, the turn is tried again.     *)
SynthesisFailsRetried ==
  /\ pc = "speaking"
  /\ CASE saying = "turn" -> Recover("listen")
       [] saying = "recovery" -> Stay /\ Speak("turn", "listen")
       [] saying = "closing" -> Complete
  /\ UNCHANGED Audio

SynthesisFails ==
  /\ pc = "speaking"
  /\ CASE saying = "turn" -> Recover("listen")
       [] saying = "recovery" -> Stay /\ End("error")
       [] saying = "closing" -> Complete
  /\ UNCHANGED Audio

AllAudioSent ==
  /\ pc = "speaking"
  /\ Goto("playing")
  /\ Stay /\ UNCHANGED Audio

(* The audio sent has been heard.  After a recovery `continue' finds no    *)
(* next text: the loop ends.                                               *)
FinishSpeaking ==
  /\ pc = "playing"
  /\ CASE saying = "closing" -> Complete
       [] saying = "recovery" /\ resume = "loop" ->
            Apply(<<"FinishedSpeaking">>) /\ End("none")
       [] OTHER -> Apply(<<"FinishedSpeaking">>) /\ Goto("listening")
  /\ UNCHANGED Audio

-----------------------------------------------------------------------------
(* listen_for_turn, and what follows when the turn has ended.              *)
Listen(message) ==
  LET heard == Heard(vad, buf, message)
      started == "SpeechStarted" \in heard.events /\ state = "Listening"
      ended == "TurnEnded" \in heard.events
  IN
  /\ pc = "listening"
  /\ IF TooLong(heard) THEN
       /\ Stay /\ End("error")
       /\ vad' = heard.vad /\ buf' = heard.buf /\ UNCHANGED utterance
     ELSE
       /\ Apply((IF started THEN <<"CandidateVoiceDetected">> ELSE <<>>) \o
                (IF ended THEN <<"CandidateTurnEnded">> ELSE <<>>))
       /\ Goto(IF ended THEN "transcribing" ELSE "listening")
       /\ vad' = IF ended THEN ResetTurn(heard.vad) ELSE heard.vad
       /\ buf' = IF ended THEN <<>> ELSE heard.buf
       /\ utterance' = IF ended THEN heard.buf ELSE utterance

Transcribe(ok) ==
  /\ pc = "transcribing"
  /\ IF ok THEN Stay /\ Goto("deciding") ELSE Recover("loop")
  /\ utterance' = <<>>
  /\ UNCHANGED <<vad, buf>>

Decide(answer) ==
  /\ pc = "deciding"
  /\ CASE answer = "failed" -> Recover("loop")
       [] answer = "complete" ->
            Apply(<<"TurnDecided", "StartSpeaking">>) /\ Speak("closing", "listen")
       [] answer = "continue" ->
            Apply(<<"TurnDecided", "StartSpeaking">>) /\ Speak("turn", "listen")
  /\ UNCHANGED Audio

-----------------------------------------------------------------------------
Hear == \E message \in Messages(MaxMessage) : HearWhileSpeaking(message) \/ Listen(message)

Serve ==
  \/ \E ok \in BOOLEAN : Start(ok) \/ Transcribe(ok)
  \/ SynthesisFails \/ AllAudioSent \/ FinishSpeaking
  \/ \E answer \in {"failed", "complete", "continue"} : Decide(answer)

Next == Hear \/ Leave \/ Serve

Spec == Init /\ [][Next]_vars

(* The AI service answers or its client times out, synthesis ends, and so  *)
(* does the wait for the playback: audio arrives no faster than real time, *)
(* so reading it first does not starve the rest of speak.                  *)
FairSpec == Spec /\ WF_vars(Serve)

-----------------------------------------------------------------------------
(* "the (unreachable in practice) illegal-transition case": the handler    *)
(* and the state machine agree, whatever the candidate says and whichever  *)
(* call fails.                                                             *)
NoIllegalEvent == ~illegal

(* Audio is captured only once speech is confirmed, and nothing of one     *)
(* turn is left for the next: outside the candidate's turn there is none.  *)
CaptureBelongsToTurn ==
  /\ buf # <<>> => vad.capturing
  /\ state \in SessionState \ {"CandidateSpeaking", "Completed"}
       => pc = "ended" \/ (buf = <<>> /\ ~vad.capturing /\ ~vad.inSpeech)

(* What is sent for transcription holds the whole run of voice by which    *)
(* speech was confirmed: "the first ~300ms of an utterance isn't clipped". *)
SpeechIsWhole ==
  pc = "transcribing" => HoldsSpeech(utterance)

(* The candidate's turn always comes, or the interview ends: neither a     *)
(* failing service nor a recovery keeps the session busy for ever.         *)
TurnComes == pc # "listening" ~> pc \in {"listening", "ended"}

(* "Ok(true) means recovery succeeded and the caller should keep going":   *)
(* the handler ends only when the candidate left, or after it told the     *)
(* candidate of an error or of the interview's completion.                 *)
RecoveryKeepsGoing == pc = "ended" => goodbye # "none"

=============================================================================
