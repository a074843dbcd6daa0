---------------------------- MODULE MediaSocket ----------------------------
(***************************************************************************)
(* The interview over a telephone's media stream: media_socket of          *)
(* gateway/src/twilio.rs.  One handler per socket begins or resumes the    *)
(* candidate's session, plays a text while it listens for a barge-in,      *)
(* captures the candidate's turn, has it transcribed, posts it as a        *)
(* channel message, and plays the answer.                                  *)
(*                                                                         *)
(* Messages that arrive while the handler awaits the AI service stay in    *)
(* the socket.  What is said, the coding of the audio (MediaCodec) and     *)
(* messages that cannot be read, which change nothing, are left out.       *)
(* Twilio sends "start" once, before any media.                            *)
(***************************************************************************)
EXTENDS TurnDetector

CONSTANT MaxCapture \* bound on the audio of a turn: the code has none

VARIABLES
  pc,        \* where media_socket stands
  last,      \* the answer that is played completes the interview
  vad,       \* the turn detector
  capture,   \* utterance
  audio      \* the utterance that is transcribed

vars == <<pc, last, vad, capture, audio>>

Awaiting == {"starting", "synthesizing", "transcribing", "asking"}

TypeOK ==
  /\ pc \in {"connected", "playing", "waiting", "ended"} \cup Awaiting
  /\ last \in BOOLEAN
  /\ DetectorOK(vad)
  /\ capture \in Seq(BOOLEAN) /\ Len(capture) <= MaxCapture
  /\ audio \in Seq(BOOLEAN)
  /\ last => pc \in {"synthesizing", "playing", "ended"}

Init ==
  /\ pc = "connected" /\ last = FALSE
  /\ vad = Quiet /\ capture = <<>> /\ audio = <<>>

Goto(label) == pc' = label /\ UNCHANGED last
End == Goto("ended")
Hearing(heard) ==
  /\ Len(heard.buf) <= MaxCapture
  /\ vad' = heard.vad /\ capture' = heard.buf

-----------------------------------------------------------------------------
(* The event "start": start_channel_session. *)
Start ==
  /\ pc = "connected"
  /\ Goto("starting")
  /\ UNCHANGED <<vad, capture, audio>>

Started(ok) ==
  /\ pc = "starting"
  /\ Goto(IF ok THEN "synthesizing" ELSE "ended")
  /\ UNCHANGED <<vad, capture, audio>>

(* speak_text: all audio is collected before any is played. *)
Synthesized(ok) ==
  /\ pc = "synthesizing"
  /\ Goto(IF ok THEN "playing" ELSE "ended")
  /\ UNCHANGED <<vad, capture, audio>>

-----------------------------------------------------------------------------
(* decode_media: one event of a message, the end of a turn before all.     *)
DecodeMedia(heard) ==
  IF "TurnEnded" \in heard.events THEN "TurnEnded"
  ELSE IF "SpeechStarted" \in heard.events THEN "SpeechStarted" ELSE "none"

(* The text has been played, or interrupted: after the last one the socket *)
(* is closed either way.                                                   *)
AfterPlaying == IF last THEN "ended" ELSE "waiting"

(* Fault: what the candidate says does not stop the playback. *)
HearWhilePlayingOn(message) ==
  /\ pc = "playing"
  /\ Hearing(Heard(vad, capture, message))
  /\ UNCHANGED <<pc, last, audio>>

(* send_pcm_as_ulaw: between two frames a message is read; speech that     *)
(* starts clears the playback, anything else is ignored.                   *)
HearWhilePlaying(message) ==
  LET heard == Heard(vad, capture, message) IN
  /\ pc = "playing"
  /\ Hearing(heard)
  /\ Goto(IF DecodeMedia(heard) = "SpeechStarted" THEN AfterPlaying ELSE "playing")
  /\ UNCHANGED audio

Played ==
  /\ pc = "playing"
  /\ Goto(AfterPlaying)
  /\ UNCHANGED <<vad, capture, audio>>

(* media_socket: the turn's audio is taken, and the detector reset.        *)
Listen(message) ==
  LET heard == Heard(vad, capture, message) IN
  /\ pc = "waiting"
  /\ IF DecodeMedia(heard) = "TurnEnded"
     THEN /\ audio' = heard.buf /\ capture' = <<>>
          /\ vad' = ResetTurn(heard.vad)
          /\ Goto("transcribing")
     ELSE Hearing(heard) /\ UNCHANGED <<pc, last, audio>>

(* A failed transcription is logged, and the socket listens again.         *)
Transcribed(ok) ==
  /\ pc = "transcribing"
  /\ Goto(IF ok THEN "asking" ELSE "waiting")
  /\ audio' = <<>>
  /\ UNCHANGED <<vad, capture>>

(* channel_message.  An answer may complete the interview. *)
Answered(complete) ==
  /\ pc = "asking"
  /\ pc' = "synthesizing" /\ last' = complete
  /\ UNCHANGED <<vad, capture, audio>>

(* Fault: a turn that cannot be posted is transcribed and posted again.    *)
AskRetried ==
  /\ pc = "asking"
  /\ Goto("transcribing")
  /\ UNCHANGED <<vad, capture, audio>>

AskFails ==
  /\ pc = "asking"
  /\ End
  /\ UNCHANGED <<vad, capture, audio>>

(* The caller hangs up ("stop"), or the socket breaks. *)
Stop ==
  /\ pc \in {"connected", "playing", "waiting"}
  /\ End
  /\ UNCHANGED <<vad, capture, audio>>

-----------------------------------------------------------------------------
Hear == \E message \in Messages(MaxMessage) : HearWhilePlaying(message) \/ Listen(message)
Serve ==
  \/ \E ok \in BOOLEAN : Started(ok) \/ Synthesized(ok) \/ Transcribed(ok)
  \/ Played \/ AskFails
  \/ \E complete \in BOOLEAN : Answered(complete)

Next == Start \/ Stop \/ Hear \/ Serve

Spec == Init /\ [][Next]_vars

(* The AI service answers or its client times out, and a text is played to *)
(* its end, since a frame is sent for every message that is read.          *)
FairSpec == Spec /\ WF_vars(Serve)

-----------------------------------------------------------------------------
(* No end of a turn is taken for something else: speech that was confirmed *)
(* is captured until the handler acts on its end, and playback stops when  *)
(* the candidate speaks.  It needs messages no longer than the silence     *)
(* that ends a turn.                                                       *)
NoTurnEndLost ==
  /\ pc # "ended" => vad.inSpeech = vad.capturing
  /\ pc = "playing" => ~vad.inSpeech

(* What is said during one turn is not left for the next: while the AI     *)
(* service is asked nothing is captured, and the detector is at rest.      *)
CaptureBelongsToTurn ==
  /\ capture # <<>> => vad.capturing
  /\ pc \in Awaiting => vad = Quiet /\ capture = <<>>

(* What is sent for transcription holds the whole run of voice by which    *)
(* speech was confirmed, also when it interrupted the playback.            *)
SpeechIsWhole == pc = "transcribing" => HoldsSpeech(audio)

(* The candidate's turn comes, or the call ends.                           *)
TurnComes == pc \notin {"waiting", "connected"} ~> pc \in {"waiting", "ended"}
=============================================================================
