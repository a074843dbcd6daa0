--------------------------- MODULE MCCallGateway ---------------------------
(* Instances of CallGateway for TLC. *)
EXTENDS CallGateway, TLC

CONSTANTS c1, c2, p1, p2, s1, s2, i1, i2

Symmetric == Permutations({c1, c2}) \cup Permutations({p1, p2})
             \cup Permutations({s1, s2}) \cup Permutations({i1, i2})

Pick(ids) == {n \in TwilioEvents : n.id \in ids}
AnsweredToDone == Pick({"in-progress", "completed"})
RingingToDone == Pick({"ringing", "in-progress", "completed"})
(* Vapi, with one class of reasons for the end of the call.                *)
VapiReports == {n \in VapiEvents :
  /\ n.id \in {"in-progress", "ended"}
  /\ n.id = "ended" => n.target = "Completed"}
=============================================================================
