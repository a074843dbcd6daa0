---------------------------- MODULE SessionPool ----------------------------
(***************************************************************************)
(* What a bounded table of sessions promises its callers: a session is     *)
(* admitted at most once, only while there is room, and once it is gone it *)
(* does not come back.  VoiceRuntime and SpeechStudio implement it, though *)
(* each reads the size of its table, lets go of the lock and only then     *)
(* inserts.                                                                *)
(***************************************************************************)
EXTENDS Naturals, FiniteSets

CONSTANTS Ids, MaxSessions

VARIABLES held, gone

Admit(s) ==
  /\ s \notin held \cup gone
  /\ Cardinality(held) < MaxSessions
  /\ held' = held \cup {s}
  /\ UNCHANGED gone

LetGo(s) ==
  /\ s \in held
  /\ held' = held \ {s}
  /\ gone' = gone \cup {s}

Init == held = {} /\ gone = {}
Next == \E s \in Ids : Admit(s) \/ LetGo(s)
Spec == Init /\ [][Next]_<<held, gone>>
=============================================================================
