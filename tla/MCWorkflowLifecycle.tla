------------------------ MODULE MCWorkflowLifecycle -------------------------
(***************************************************************************)
(* Instances of WorkflowLifecycle, in two scenes; which one it is never    *)
(* changes.  In "keys" two versions are deployed by requests that may      *)
(* repeat a key, in "rollback" the binding, the draft and a fourth         *)
(* deployment make promotions fail and be rolled back.                     *)
(***************************************************************************)
EXTENDS WorkflowLifecycle, TLC

CONSTANTS ann, bob, good, b1

VARIABLE scene

(* Bounds of the two scenes.                                               *)
OneContent == /\ draft = good /\ binding # b1 /\ Len(deployments) < MaxDeployments
              /\ \A s \in Starters : starter[s] = Idle
NoKeys == /\ Len(versions) < MaxVersions
          /\ \A i \in DOMAIN versions : versions[i].key = None
          /\ \A i \in DOMAIN deployments : deployments[i].key.key = None
          /\ \A i \in DOMAIN tests : tests[i].key = None
          /\ \A i \in DOMAIN approvals : approvals[i].key = None
Bounded == IF scene = "keys" THEN OneContent ELSE NoKeys

MCInit == Init /\ scene \in {"keys", "rollback"} /\ Bounded
MCNext == Next /\ UNCHANGED scene /\ Bounded'

MCSpec == MCInit /\ [][MCNext]_<<vars, scene>>

Symmetric == Permutations({ann, bob})
=============================================================================
