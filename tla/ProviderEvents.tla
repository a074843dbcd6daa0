--------------------------- MODULE ProviderEvents ---------------------------
(***************************************************************************)
(* How the gateway reads a provider's report about a call: the status      *)
(* mappings of gateway/src/calls.rs as the set of events they produce,     *)
(* each with its id, the state it reports and its sequence number.  A      *)
(* status outside the mapping produces no event at all.                    *)
(***************************************************************************)
EXTENDS CallLifecycle

Event(id, target, seq) == [id |-> id, target |-> target, seq |-> seq]

(* twilio_target and twilio_sequence ("canceled" has a second spelling).   *)
TwilioEvents ==
  {Event("queued", "Initiating", 10),  Event("initiated", "Initiating", 20),
   Event("ringing", "Ringing", 30),    Event("in-progress", "Active", 40),
   Event("completed", "Completed", 50), Event("busy", "Busy", 50),
   Event("no-answer", "NoAnswer", 50),  Event("failed", "Failed", 50),
   Event("canceled", "Cancelled", 50)}

(* vapi_ended_target: the first class of which the reason has a keyword.   *)
EndedClasses == <<"NoAnswer", "Busy", "Declined", "Cancelled", "TimedOut",
                  "Failed">>

VapiEndedTarget(classes) ==
  IF \A i \in 1..6 : EndedClasses[i] \notin classes THEN "Completed"
  ELSE EndedClasses[CHOOSE i \in 1..6 :
         /\ EndedClasses[i] \in classes
         /\ \A j \in 1..i - 1 : EndedClasses[j] \notin classes]

(* vapi_target and vapi_sequence; record_vapi_event treats the report at   *)
(* the end of a call as one more "ended".                                  *)
VapiEvents ==
  {Event("scheduled", "Initiating", 5), Event("queued", "Initiating", 10),
   Event("ringing", "Ringing", 30),     Event("in-progress", "Active", 40),
   Event("forwarding", "Active", 40)}
  \cup {Event(id, VapiEndedTarget(classes), 50) :
          id \in {"ended", "end-of-call-report"},
          classes \in SUBSET {EndedClasses[i] : i \in 1..6}}
=============================================================================
