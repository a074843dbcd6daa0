----------------------------- MODULE Interviews -----------------------------
(***************************************************************************)
(* The two interviews that share the turn detector, side by side: the      *)
(* browser's (InterviewSession) and the telephone's (MediaSocket).  The    *)
(* scene, which never changes, says which of them runs.                    *)
(*                                                                         *)
(* MinSpeech and Preroll are constants of vad.rs.  The silence that ends a *)
(* turn is configured for the browser, the default for the telephone; and  *)
(* each has messages of its own.                                           *)
(***************************************************************************)
EXTENDS InterviewSession

CONSTANTS
  MediaSilence, \* SilenceToEnd of the telephone
  MediaMessage  \* MaxMessage of the telephone

ASSUME MediaAssumption == {MediaSilence, MediaMessage} \subseteq Nat \ {0}

(* The pre-roll holds the run of voice that confirms speech, and one frame *)
(* less than the message that completes it: 18 frames are kept, 13 confirm *)
(* speech, and the clients' messages are of one frame or two.              *)
ASSUME PrerollSuffices ==
  \A longest \in {MaxMessage, MediaMessage} : MinSpeech + longest <= Preroll + 1

(* Twilio's messages are of 20 ms, the silence that ends a turn of 700.    *)
ASSUME MediaMessagesAreShort == MediaMessage <= MediaSilence

VARIABLES scene, socket, last, detector, capture, audio

Media == INSTANCE MediaSocket
           WITH MaxCapture <- MaxUtterance, pc <- socket, vad <- detector,
                SilenceToEnd <- MediaSilence, MaxMessage <- MediaMessage

media == <<socket, last, detector, capture, audio>>
sceneVars == <<vars, media, scene>>

-----------------------------------------------------------------------------
ScenesInit == Init /\ Media!Init /\ scene \in {"browser", "media"}

InBrowser(action) == scene = "browser" /\ action /\ UNCHANGED <<media, scene>>
InMedia(action) == scene = "media" /\ action /\ UNCHANGED <<vars, scene>>

ScenesNext == InBrowser(Next) \/ InMedia(Media!Next)

ScenesSpec == ScenesInit /\ [][ScenesNext]_sceneVars

FairScenesSpec ==
  /\ ScenesSpec
  /\ WF_sceneVars(InBrowser(Serve)) /\ WF_sceneVars(InMedia(Media!Serve))

-----------------------------------------------------------------------------
(* The properties that InterviewSession and MediaSocket state alike.  What *)
(* is transcribed is one turn, whole: the run of voice that confirmed it   *)
(* is in it, and nothing that was said during another turn,                *)
UtterancesAreTurns ==
  /\ SpeechIsWhole /\ Media!SpeechIsWhole
  /\ CaptureBelongsToTurn /\ Media!CaptureBelongsToTurn

(* and after each text the candidate's turn comes, or the interview ends.  *)
TurnsCome ==
  /\ scene = "browser" /\ pc # "listening" ~> pc \in {"listening", "ended"}
  /\ Media!TurnComes

(* A property of MediaSocket alone: no end of a turn is overheard.         *)
NoTurnEndLost == Media!NoTurnEndLost
=============================================================================
