---------------------------- MODULE CallRegister ----------------------------
(***************************************************************************)
(* What the call store promises, without tables, plans or sequence         *)
(* numbers: a register of calls.  A call is created once, moves only along *)
(* the lifecycle and only because of events not handled before, belongs to *)
(* one provider call at most and for good, and is forgotten only after it  *)
(* has ended.  CallStore implements this specification.                    *)
(***************************************************************************)
EXTENDS CallLifecycle

CONSTANTS CallIds, ProviderIds, EventIds, None

VARIABLES
  status,   \* "Absent" before, a CallState during, "Gone" after its life
  handled,  \* the events that have had their say
  owner     \* the provider call it belongs to, or None

vars == <<status, handled, owner>>

Init ==
  /\ status = [c \in CallIds |-> "Absent"]
  /\ handled = [c \in CallIds |-> {}]
  /\ owner = [c \in CallIds |-> None]

(* The states a call can still come to. *)
Ahead == [s \in CallState |-> {s} \cup {t \in CallState : Routes(s, t) # {}}]

Living == {c \in CallIds : status[c] \in CallState}

MayOwn(c, pid) ==
  /\ owner[c] \in {None, pid}
  /\ \A d \in Living \ {c} : owner[d] # pid

(* An outbound call is born unowned, an inbound one in conversation.       *)
Create(c) ==
  /\ status[c] = "Absent"
  /\ \/ /\ status' = [status EXCEPT ![c] = "Initiating"]
        /\ UNCHANGED owner
     \/ /\ status' = [status EXCEPT ![c] = "Active"]
        /\ \E pid \in ProviderIds :
             MayOwn(c, pid) /\ owner' = [owner EXCEPT ![c] = pid]
  /\ UNCHANGED handled

(* The store learns of new events, and perhaps of the provider call.       *)
Learn(c, new) ==
  /\ c \in Living
  /\ new \cap handled[c] = {}
  /\ handled' = [handled EXCEPT ![c] = @ \cup new]
  /\ \E s \in Ahead[status[c]] : /\ new = {} => s = status[c]
                                 /\ status' = [status EXCEPT ![c] = s]
  /\ \/ UNCHANGED owner
     \/ \E pid \in ProviderIds :
          MayOwn(c, pid) /\ owner' = [owner EXCEPT ![c] = pid]

Forget(S) ==
  /\ S \subseteq {c \in Living : status[c] \in Terminal}
  /\ status' = [c \in CallIds |-> IF c \in S THEN "Gone" ELSE status[c]]
  /\ handled' = [c \in CallIds |-> IF c \in S THEN {} ELSE handled[c]]
  /\ owner' = [c \in CallIds |-> IF c \in S THEN None ELSE owner[c]]

Next ==
  \/ \E c \in CallIds : Create(c)
  \/ \E c \in CallIds, new \in SUBSET EventIds : Learn(c, new)
  \/ \E S \in SUBSET CallIds : Forget(S)

Spec == Init /\ [][Next]_vars
=============================================================================
