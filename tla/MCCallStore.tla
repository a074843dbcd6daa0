---------------------------- MODULE MCCallStore ----------------------------
(***************************************************************************)
(* Instances of CallStore for TLC, and of the search for the plans it      *)
(* applies.  The scene, which never changes, says which of the two runs.   *)
(***************************************************************************)
EXTENDS CallStore, TLC

CONSTANTS c1, c2, p1, p2

VARIABLES scene, from, to, queue, seen, index, status, answer
search == <<from, to, queue, seen, index, status, answer>>
Search == INSTANCE PathSearch

(* Twilio's in-progress, as twilio_target and twilio_sequence map it, and  *)
(* the event of POST /calls/{id}/end, which read the call while Ringing:   *)
(* stored, applied or ignored, each overtaken by the other.                *)
InProgress == [id |-> "in-progress", target |-> "Active",    seq |-> 40]
LocalEnd   == [id |-> "local:end",   target |-> "Cancelled", seq |-> 31]

LateNotices == {InProgress, LocalEnd}
NoticeIds   == {n.id : n \in LateNotices}

MCInit ==
  /\ Init /\ Search!Init
  /\ \/ scene = "search"
     \/ scene = "store" /\ from = "Requested" /\ to = "Requested"

MCNext ==
  \/ scene = "search" /\ Search!Next /\ UNCHANGED <<vars, scene>>
  \/ scene = "store" /\ Next /\ UNCHANGED <<search, scene>>

MCSpec == MCInit /\ [][MCNext]_<<vars, search, scene>>

(* The properties of PathSearch, as they are stated there: the search is   *)
(* never stuck before it answers with the plan the rest of the models use, *)
(* a shortest legal one, or with none if there is none; and no plan skips  *)
(* a required state.                                                       *)
PlansAreRight == Search!FindsPathTo /\ Search!KeepsRequiredStates

Symmetric == Permutations({c1, c2}) \cup Permutations({p1, p2})
=============================================================================
