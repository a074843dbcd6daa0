---------------------------- MODULE StudioState -----------------------------
(***************************************************************************)
(* The state of the speech studio (voice-runtime/src/studio.rs), and what  *)
(* the studio promises about it; SpeechStudio says what it does.           *)
(***************************************************************************)
EXTENDS Naturals, VoiceLimits

CONSTANTS
  Clients,      \* requests
  MaxRecording, \* max_audio_bytes
  Pieces        \* sizes of the audio that is recorded

ASSUME StudioAssumption == MaxRecording \in Nat /\ Pieces \subseteq Nat

VARIABLES
  sessions,  \* the ids in the table
  closed,    \* flags: the ids for which each is raised
  cancelled,
  speaking,
  recording, \* per id: bytes recorded
  call       \* per caller: [pc, s, n, cut, alone, todo]

Actors == Clients \cup Sweepers

(* The table never holds more than max_sessions, though start_session lets *)
(* go of the lock between its two looks at the size, and a session that    *)
(* was removed is not found again.                                         *)
StudioPool == INSTANCE SessionPool
                WITH held <- sessions, gone <- closed \ sessions
StudioImplementsPool == StudioPool!Spec

(* Audio is not handed out after its speech was interrupted or its session *)
(* ended: speak checks cancelled after the engine has answered.  Only a    *)
(* second speech of the session, which clears the flag, can undo this.     *)
CutIsHeeded ==
  \A c \in Clients : call[c].pc = "generated" /\ call[c].cut => ~call[c].alone

(* A speech is withdrawn only if an interrupt or an end fell in it: what   *)
(* cancelled an earlier speech does not cancel the next.                   *)
NoSpuriousCancel == \A c \in Clients : call[c].pc = "withdrawn" => call[c].cut

(* While the engine works on the only speech of a session an interrupt is  *)
(* granted, unless one was or the session is being closed.                 *)
Interruptible ==
  \A c \in Clients :
    call[c].pc = "synthesizing" /\ call[c].alone /\ ~call[c].cut =>
      \/ call[c].s \in speaking \cup closed
      \/ \E d \in Actors : call[d].pc = "storing" /\ call[d].s = call[c].s

(* A recording never outgrows its limit, whatever is recorded, cleared or  *)
(* started to be recorded at the same time.                                *)
RecordingFits == \A s \in Ids : recording[s] <= MaxRecording

(* An interrupt is granted while there is a speech, takes effect on it and *)
(* on no other, and what is recorded is within its limit.                  *)
StudioIsExact ==
  CutIsHeeded /\ NoSpuriousCancel /\ Interruptible /\ RecordingFits
=============================================================================
