------------------------------ MODULE MCVoice ------------------------------
(***************************************************************************)
(* Instances of VoiceRuntime, SpeechStudio and ManagedCalls, the three     *)
(* kinds of session of the crate voice-runtime, in four scenes; which one  *)
(* it is never changes.  Of the runtime: in "polled" a poller and a        *)
(* sweeper are at work on one session, in "room" there are neither, and    *)
(* two ids compete for the room of one session.  In "studio" three clients *)
(* and a sweeper do.  In "managed" two start_call and two webhooks may     *)
(* overlap each other and an end_call, for two of the provider's calls and *)
(* one session id.                                                         *)
(***************************************************************************)
EXTENDS VoiceRuntime, ManagedCalls, StudioState, TLC

CONSTANTS v1, v2, d1, d2, d3

VARIABLE scene

studioVars == <<sessions, closed, cancelled, speaking, recording, call>>
Studio == INSTANCE SpeechStudio

-----------------------------------------------------------------------------
(* Bounds of the runtime's scenes.                                         *)
OneSession == Unused(v2)
OnlyCallers == \A t \in Pollers \cup Sweepers : At(t, "none")

(* Bound: while the sweeper and a third client are at work, v1 is the only *)
(* session, and one of the two waits for the other's call to be over.      *)
FewClients ==
  \/ \A c \in Sweepers \cup {d3} : Studio!At(c, "none")
  \/ /\ sessions \cup closed \subseteq {v1} /\ \A c \in Clients : call[c].s # v2
     /\ \E c \in Sweepers \cup {d3} : Studio!At(c, "none")

(* Bound: webhooks come for the first call only, before there is a second. *)
OnePhone == taken = <<>> \/ Cardinality({p \in Phones : phone[p] # "idle"}) <= 1

MCInit == /\ Init /\ Studio!Init /\ ManagedInit
          /\ scene \in {"polled", "room", "studio", "managed"}
MCNext ==
  /\ \/ /\ Next
        /\ \/ scene = "polled" /\ OneSession'
           \/ scene = "room" /\ OnlyCallers'
        /\ UNCHANGED <<studioVars, managedVars>>
     \/ scene = "studio" /\ Studio!Next /\ FewClients' /\ UNCHANGED <<vars, managedVars>>
     \/ scene = "managed" /\ ManagedNext /\ OnePhone' /\ UNCHANGED <<vars, studioVars>>
  /\ UNCHANGED scene

MCSpec == MCInit /\ [][MCNext]_<<vars, studioVars, managedVars, scene>>

Symmetric == Permutations(Callers) \cup Permutations({d1, d2})
             \cup Permutations(Starts) \cup Permutations(Webhooks)
=============================================================================
