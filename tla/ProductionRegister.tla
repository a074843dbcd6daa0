------------------------- MODULE ProductionRegister -------------------------
(***************************************************************************)
(* What the workflow lifecycle promises about one workflow, without tests, *)
(* deployments, keys or bindings: production serves nothing, a version     *)
(* somebody approved, or one that it served before; a verdict is never     *)
(* taken back.  WorkflowLifecycle implements this specification.           *)
(***************************************************************************)
CONSTANTS Versions, None

VARIABLES
  serving,   \* the version that new sessions get, or None
  approved,  \* the versions approved so far
  promoted   \* the versions that production served so far

vars == <<serving, approved, promoted>>

Init == serving = None /\ approved = {} /\ promoted = {}

Approve(v) ==
  /\ approved' = approved \cup {v}
  /\ UNCHANGED <<serving, promoted>>

Promote(v) ==
  /\ v \in approved
  /\ serving' = v
  /\ promoted' = promoted \cup {v}
  /\ UNCHANGED approved

Return(v) ==
  /\ v \in promoted
  /\ serving' = v
  /\ UNCHANGED <<approved, promoted>>

Stop == serving' = None /\ UNCHANGED <<approved, promoted>>

Next == Stop \/ \E v \in Versions : Approve(v) \/ Promote(v) \/ Return(v)

Spec == Init /\ [][Next]_vars
=============================================================================
