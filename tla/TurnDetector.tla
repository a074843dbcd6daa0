---------------------------- MODULE TurnDetector ----------------------------
(***************************************************************************)
(* The turn detector of gateway/src/vad.rs: it listens to the candidate's  *)
(* audio, says when speech starts and when a turn has ended, and captures  *)
(* the audio of the turn.  The browser interview and the telephone's media *)
(* stream each own one.                                                    *)
(*                                                                         *)
(* Audio is abstracted to 16 ms frames, each of them voice or not, and a   *)
(* socket message to a sequence of frames.                                 *)
(***************************************************************************)
EXTENDS Naturals, Sequences, SequencesExt

CONSTANTS
  MinSpeech,    \* frames of voice that count as speech
  SilenceToEnd, \* frames of silence that end a turn
  Preroll,      \* frames kept before speech is confirmed
  MaxMessage    \* longest socket message, in frames

ASSUME DetectorAssumption ==
  {MinSpeech, SilenceToEnd, Preroll, MaxMessage} \subseteq Nat \ {0}

-----------------------------------------------------------------------------
Quiet == [speech |-> 0, silence |-> 0, inSpeech |-> FALSE, capturing |-> FALSE,
          preroll |-> <<>>]

(* Faults: a turn is reset without its capture flag; not at all.           *)
ResetKeepsCapturing(v) == [Quiet EXCEPT !.capturing = v.capturing]
ResetNothing(v) == v

ResetTurn(v) == Quiet

(* observe_frame; `seen' carries the detector and the events so far.  The  *)
(* run of speech is read only until speech is confirmed.                   *)
Observe(seen, voice) ==
  LET d == seen.vad
      run == IF d.speech < MinSpeech THEN d.speech + 1 ELSE MinSpeech
  IN IF voice THEN
       [vad |-> [d EXCEPT !.silence = 0, !.speech = run,
                          !.inSpeech = @ \/ run = MinSpeech],
        events |-> seen.events \cup
                   (IF ~d.inSpeech /\ run = MinSpeech THEN {"SpeechStarted"} ELSE {})]
     ELSE IF ~d.inSpeech THEN [seen EXCEPT !.vad.speech = 0]
     ELSE IF d.silence + 1 < SilenceToEnd THEN [seen EXCEPT !.vad.silence = @ + 1]
     ELSE [vad |-> [d EXCEPT !.inSpeech = FALSE, !.speech = 0, !.silence = 0],
           events |-> seen.events \cup {"TurnEnded"}]

(* Fault: the ring forgets the first frame of the run that confirms speech.*)
RingShort(s) == SubSeq(s, Len(s) - (IF Len(s) < MinSpeech THEN Len(s) ELSE MinSpeech) + 2, Len(s))

Ring(s) == SubSeq(s, Len(s) - (IF Len(s) < Preroll THEN Len(s) ELSE Preroll) + 1, Len(s))

(* push_pcm16: the frames of a message, one after the other.               *)
Observed(d, message) ==
  LET seen[i \in 0..Len(message)] ==
        IF i = 0 THEN [vad |-> d, events |-> {}] ELSE Observe(seen[i - 1], message[i])
  IN seen[Len(message)]

(* push_pcm16_capturing. *)
Heard(d, buf, message) ==
  LET ring == IF d.capturing THEN d.preroll ELSE Ring(d.preroll \o message)
      kept == IF d.capturing THEN buf \o message ELSE buf
      seen == Observed([d EXCEPT !.preroll = ring], message)
  IN IF ~d.capturing /\ "SpeechStarted" \in seen.events
     THEN [vad |-> [seen.vad EXCEPT !.capturing = TRUE, !.preroll = <<>>],
           buf |-> kept \o ring, events |-> seen.events]
     ELSE [vad |-> seen.vad, buf |-> kept, events |-> seen.events]

Messages(longest) == SeqOf(BOOLEAN, longest) \ {<<>>}

-----------------------------------------------------------------------------
DetectorOK(d) ==
  /\ d \in [speech : 0..MinSpeech, silence : 0..(SilenceToEnd - 1),
            inSpeech : BOOLEAN, capturing : BOOLEAN, preroll : Seq(BOOLEAN)]
  /\ Len(d.preroll) <= Preroll

(* The audio holds a run of voice as long as the one that confirms speech. *)
HoldsSpeech(audio) ==
  \E i \in 1..Len(audio) :
    /\ i + MinSpeech - 1 <= Len(audio)
    /\ \A j \in i..(i + MinSpeech - 1) : audio[j]
=============================================================================
