---------------------------- MODULE MCInterrupt ----------------------------
(* An instance of VoiceRuntime that remembers which speech is cut.          *)
EXTENDS VoiceRuntime

VARIABLE cuts  \* history: per id, the interrupts granted since the last speak

CutInit == Init /\ cuts = [s \in Ids |-> 0]
CutNext ==
  /\ Next
  /\ cuts' = [s \in Ids |->
       IF \E t \in Callers : Speak(t, s) THEN 0
       ELSE IF \E t \in Callers : Interrupt(t, s) THEN cuts[s] + 1
       ELSE cuts[s]]
CutSpec == CutInit /\ [][CutNext]_<<vars, cuts>>

(* "interruption idempotency" (docs/ARCHITECTURE.md:420), and the test      *)
(* speak_and_interrupt_are_sequenced, which expects the second interrupt of *)
(* a speech to answer false: of all the interrupts of one speech, from the  *)
(* speak that began it to the next speak of its session, one is granted.    *)
OneCutPerSpeech == \A s \in Ids : cuts[s] <= 1
=============================================================================
