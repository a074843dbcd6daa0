------------------------- MODULE WorkflowLifecycle --------------------------
(***************************************************************************)
(* One interview workflow of the AI service: its published versions, their *)
(* deployments to the sandbox and to production, test runs and approvals,  *)
(* and the candidate sessions routed to it.  A mutating operation is one   *)
(* BEGIN IMMEDIATE transaction, so it is one action; an operation that     *)
(* refuses, or answers with what it finds, stutters.  Routing a session    *)
(* reads one table after another, each in a connection of its own.         *)
(*                                                                         *)
(* Rows are identified by their place in their table, which is also their  *)
(* order by created_at; 0 is NULL.                                         *)
(***************************************************************************)
EXTENDS Integers, Sequences, FiniteSetsExt

CONSTANTS
  Contents,  \* what a draft may say
  Sound,     \* the contents the mandatory suites accept
  Subjects,  \* who may request and decide approvals
  Keys,      \* Idempotency-Key headers
  Bindings,  \* fingerprints of production bindings
  Starters,  \* requests in flight that start a routed session
  None,      \* no key, no production binding
  MaxVersions, MaxDeployments, MaxTests, MaxApprovals  \* bounds

ASSUME WorkflowAssumption ==
  /\ Sound \subseteq Contents
  /\ None \notin Keys \cup Bindings
  /\ {MaxVersions, MaxDeployments, MaxTests, MaxApprovals} \subseteq Nat

VARIABLES
  enabled, draft,  \* table workflows: status and draft_json
  versions,        \* table workflow_versions
  deployments,     \* table workflow_deployments
  tests,           \* table workflow_test_runs
  approvals,       \* table workflow_approvals
  binding,         \* the production binding of this process's environment
  starter,         \* per request: [pc, deployment]
  sessions         \* the pins of the sessions routed here

vars == <<enabled, draft, versions, deployments, tests, approvals, binding,
          starter, sessions>>

-----------------------------------------------------------------------------
Environments == {"sandbox", "production"}
DeploymentStatus == {"active", "superseded", "disabled", "failed"}

(* The hash covers the version number and all that the draft said.         *)
Hash(v) == [version |-> v, content |-> versions[v].content]
Hashes == [version : 1..MaxVersions, content : Contents]

(* Idempotency keys are unique per operation.                              *)
MaybeKey == Keys \cup {None}
Operations == {"sandbox_deploy", "production_deploy", "production_rollback"}
OperationKey(operation, key) == [operation |-> operation, key |-> key]

TypeOK ==
  /\ enabled \in BOOLEAN /\ draft \in Contents
  /\ versions \in Seq([content : Contents, key : MaybeKey])
  /\ deployments \in Seq([version : 1..MaxVersions, hash : Hashes,
                          env : Environments, status : DeploymentStatus,
                          binding : Bindings \cup {None}, previous : Nat,
                          test : Nat, approval : Nat,
                          key : [operation : Operations, key : MaybeKey]])
  /\ tests \in Seq([version : 1..MaxVersions, hash : Hashes, deployment : Nat,
                    passed : BOOLEAN, key : MaybeKey])
  /\ approvals \in Seq([version : 1..MaxVersions, hash : Hashes, test : Nat,
                        status : {"pending", "approved", "rejected"},
                        requester : Subjects, approver : Subjects,
                        key : MaybeKey])
  /\ Len(versions) <= MaxVersions
  /\ binding \in Bindings \cup {None}
  /\ starter \in [Starters -> [pc : {"idle", "checked", "found"},
                               deployment : Nat]]
  /\ sessions \subseteq [deployment : Nat, version : 1..MaxVersions,
                         content : Contents]

Idle == [pc |-> "idle", deployment |-> 0]

(* create_workflow, and a process with some environment. *)
Init ==
  /\ enabled = TRUE /\ draft \in Contents
  /\ versions = <<>> /\ deployments = <<>> /\ tests = <<>> /\ approvals = <<>>
  /\ binding \in Bindings \cup {None}
  /\ starter = [s \in Starters |-> Idle]
  /\ sessions = {}

(* Fault: a key that is known is not looked up. *)
AnyKey(table, key) == TRUE

(* The key of this request is not in the table yet.                        *)
NewKey(table, key) == \A i \in DOMAIN table : table[i].key # key

Unkeyed(operation, key) ==
  \/ key = None
  \/ NewKey(deployments, OperationKey(operation, key))

ActiveIn(env) ==
  {d \in DOMAIN deployments : /\ deployments[d].env = env
                              /\ deployments[d].status = "active"}

(* ORDER BY created_at DESC LIMIT 1 *)
Latest(rows) == IF rows = {} THEN 0 ELSE Max(rows)

-----------------------------------------------------------------------------
UpdateDraft(content) ==
  /\ draft' = content
  /\ UNCHANGED <<enabled, versions, deployments, tests, approvals, binding,
                 starter, sessions>>

(* publish_version: the next number, and the draft as it is now.           *)
PublishVersion(key) ==
  /\ Len(versions) < MaxVersions
  /\ key = None \/ NewKey(versions, key)
  /\ versions' = Append(versions, [content |-> draft, key |-> key])
  /\ UNCHANGED <<enabled, draft, deployments, tests, approvals, binding,
                 starter, sessions>>

(* Faults: a predecessor stays active; it is not recorded. *)
ActivatedBeside(row) ==
  Append(deployments, [row EXCEPT !.previous = Latest(ActiveIn(row.env))])
ActivatedForgetful(row) ==
  Append([d \in DOMAIN deployments |->
            IF d = Latest(ActiveIn(row.env))
            THEN [deployments[d] EXCEPT !.status = "superseded"]
            ELSE deployments[d]],
         row)

(* The active deployment of the environment is superseded by a new one.    *)
Activated(row) ==
  LET current == Latest(ActiveIn(row.env)) IN
  Append([d \in DOMAIN deployments |->
            IF d = current THEN [deployments[d] EXCEPT !.status = "superseded"]
            ELSE deployments[d]],
         [row EXCEPT !.previous = current])

Deployment(v, env, key) ==
  [version |-> v, hash |-> Hash(v), env |-> env, status |-> "active",
   binding |-> IF env = "production" THEN binding ELSE None, previous |-> 0,
   test |-> 0, approval |-> 0, key |-> key]

(* deploy_sandbox.  The sandbox binding is fixed: all mock.                *)
DeploySandbox(v, key) ==
  /\ Len(deployments) < MaxDeployments
  /\ Unkeyed("sandbox_deploy", key)
  /\ enabled
  /\ v \in DOMAIN versions
  /\ deployments' =
       Activated(Deployment(v, "sandbox", OperationKey("sandbox_deploy", key)))
  /\ UNCHANGED <<enabled, draft, versions, tests, approvals, binding, starter,
                 sessions>>

(* run_tests, which holds the write lock while the suites run.  A sound    *)
(* artifact fails when its pinned template is no longer the current one.   *)
RunTests(v, d, passed, key) ==
  /\ Len(tests) < MaxTests
  /\ key = None \/ NewKey(tests, key)
  /\ v \in DOMAIN versions /\ d \in ActiveIn("sandbox")
  /\ deployments[d].hash = Hash(v)
  /\ passed => versions[v].content \in Sound
  /\ tests' = Append(tests, [version |-> v, hash |-> Hash(v), deployment |-> d,
                             passed |-> passed, key |-> key])
  /\ UNCHANGED <<enabled, draft, versions, deployments, approvals, binding,
                 starter, sessions>>

RequestApproval(v, t, requester, approver, key) ==
  /\ Len(approvals) < MaxApprovals
  /\ approver # requester
  /\ key = None \/ NewKey(approvals, key)
  /\ enabled
  /\ v \in DOMAIN versions /\ t \in DOMAIN tests
  /\ tests[t].passed /\ tests[t].hash = Hash(v) /\ tests[t].version = v
  /\ approvals' = Append(approvals,
       [version |-> v, hash |-> Hash(v), test |-> t, status |-> "pending",
        requester |-> requester, approver |-> approver, key |-> key])
  /\ UNCHANGED <<enabled, draft, versions, deployments, tests, binding,
                 starter, sessions>>

(* Fault: a decision may be revised. *)
RedecideApproval(a, actor, approve) ==
  /\ a \in DOMAIN approvals
  /\ approvals[a].approver = actor
  /\ enabled
  /\ approvals' = [approvals EXCEPT ![a].status =
                     IF approve THEN "approved" ELSE "rejected"]
  /\ UNCHANGED <<enabled, draft, versions, deployments, tests, binding,
                 starter, sessions>>

DecideApproval(a, actor, approve) ==
  /\ a \in DOMAIN approvals
  /\ approvals[a].approver = actor
  /\ enabled
  /\ approvals[a].status = "pending"
  /\ LET t == approvals[a].test IN
     approve => t \in DOMAIN tests /\ tests[t].passed
                /\ tests[t].hash = approvals[a].hash
  /\ approvals' = [approvals EXCEPT ![a].status =
                     IF approve THEN "approved" ELSE "rejected"]
  /\ UNCHANGED <<enabled, draft, versions, deployments, tests, binding,
                 starter, sessions>>

-----------------------------------------------------------------------------
TestChecks(v, t) ==
  t \in DOMAIN tests /\ tests[t].passed /\ tests[t].hash = Hash(v)

(* Fault: an approval counts before it is decided. *)
ApprovalRequested(v, t, a) ==
  /\ a \in DOMAIN approvals
  /\ approvals[a].status # "rejected"
  /\ approvals[a].hash = Hash(v) /\ approvals[a].test = t

ApprovalChecks(v, t, a) ==
  /\ a \in DOMAIN approvals
  /\ approvals[a].status = "approved"
  /\ approvals[a].hash = Hash(v) /\ approvals[a].test = t

SandboxChecks(v, t) ==
  LET d == Latest({e \in DOMAIN deployments : /\ deployments[e].env = "sandbox"
                                              /\ deployments[e].version = v})
  IN d # 0 /\ deployments[d].hash = Hash(v) /\ d = tests[t].deployment

ProductionChecks(v, t, a) ==
  /\ enabled
  /\ TestChecks(v, t) /\ ApprovalChecks(v, t, a) /\ SandboxChecks(v, t)
  /\ binding # None

(* What production runs already: nothing is deployed, and the key not kept. *)
AlreadyRuns(d, row) ==
  /\ d # 0
  /\ deployments[d].hash = row.hash
  /\ deployments[d].binding = row.binding

(* Fault: the predecessor is superseded before the checks. *)
FailedTooLate(row) ==
  LET done == Activated(row) IN
  [done EXCEPT ![Len(done)].status = "failed"]

Failed(row) ==
  Append(deployments, [row EXCEPT !.status = "failed",
                                  !.previous = Latest(ActiveIn("production"))])

DeployProduction(v, t, a, key) ==
  /\ Len(deployments) < MaxDeployments
  /\ Unkeyed("production_deploy", key)
  /\ v \in DOMAIN versions
  /\ LET row == [Deployment(v, "production", OperationKey("production_deploy", key))
                   EXCEPT !.test = t, !.approval = a]
     IN deployments' = IF ~ProductionChecks(v, t, a) THEN Failed(row)
                       ELSE IF AlreadyRuns(Latest(ActiveIn("production")), row)
                       THEN deployments
                       ELSE Activated(row)
  /\ UNCHANGED <<enabled, draft, versions, tests, approvals, binding, starter,
                 sessions>>

(* Fault: any production deployment of this binding will do. *)
ReturnsToAny(row) == row.env = "production" /\ row.binding = binding

(* What rollback_production may return to: it was active once, in this     *)
(* binding.                                                                *)
ReturnsTo(row) ==
  /\ row.env = "production"
  /\ row.status # "failed"
  /\ row.binding = binding

RollbackProduction(d, key) ==
  /\ Len(deployments) < MaxDeployments
  /\ Unkeyed("production_rollback", key)
  /\ enabled
  /\ binding # None
  /\ d \in DOMAIN deployments \ ActiveIn("production")
  /\ ReturnsTo(deployments[d])
  /\ deployments' =
       Activated([deployments[d] EXCEPT
                    !.status = "active",
                    !.key = OperationKey("production_rollback", key)])
  /\ UNCHANGED <<enabled, draft, versions, tests, approvals, binding, starter,
                 sessions>>

-----------------------------------------------------------------------------
(* Fault: only the sandbox is stopped. *)
StoppedSandbox(row) ==
  IF row.status = "active" /\ row.env = "sandbox"
  THEN [row EXCEPT !.status = "disabled"] ELSE row

Stopped(row) ==
  IF row.status = "active" THEN [row EXCEPT !.status = "disabled"] ELSE row

Disable ==
  /\ enabled' = FALSE
  /\ deployments' = [d \in DOMAIN deployments |-> Stopped(deployments[d])]
  /\ UNCHANGED <<draft, versions, tests, approvals, binding, starter, sessions>>

Enable ==
  /\ enabled' = TRUE
  /\ UNCHANGED <<draft, versions, deployments, tests, approvals, binding,
                 starter, sessions>>

(* The service is started again, perhaps in another environment.           *)
Restart(b) ==
  /\ binding' = b
  /\ starter' = [s \in Starters |-> Idle]
  /\ UNCHANGED <<enabled, draft, versions, deployments, tests, approvals,
                 sessions>>

-----------------------------------------------------------------------------
(* start_session: the workflow is read ...                                 *)
RouteCheck(s) ==
  /\ starter[s].pc = "idle"
  /\ enabled
  /\ starter' = [starter EXCEPT ![s].pc = "checked"]
  /\ UNCHANGED <<enabled, draft, versions, deployments, tests, approvals,
                 binding, sessions>>

(* ... then its active deployment ...                                      *)
RouteFind(s) ==
  /\ starter[s].pc = "checked"
  /\ LET d == Latest(ActiveIn("production")) IN
     starter' = [starter EXCEPT ![s] =
       IF d # 0 /\ binding # None /\ deployments[d].binding = binding
       THEN [pc |-> "found", deployment |-> d] ELSE Idle]
  /\ UNCHANGED <<enabled, draft, versions, deployments, tests, approvals,
                 binding, sessions>>

(* ... then its version, which never changes, and the session is stored.   *)
RoutePin(s) ==
  /\ starter[s].pc = "found"
  /\ LET d == starter[s].deployment
         v == deployments[d].version
     IN sessions' = IF deployments[d].hash = Hash(v)
                    THEN sessions \cup {[deployment |-> d, version |-> v,
                                         content |-> versions[v].content]}
                    ELSE sessions
  /\ starter' = [starter EXCEPT ![s] = Idle]
  /\ UNCHANGED <<enabled, draft, versions, deployments, tests, approvals,
                 binding>>

-----------------------------------------------------------------------------
Author ==
  \/ \E content \in Contents : UpdateDraft(content)
  \/ \E key \in MaybeKey :
       \/ PublishVersion(key)
       \/ \E v \in 1..MaxVersions :
            \/ DeploySandbox(v, key)
            \/ \E d \in 1..MaxDeployments, passed \in BOOLEAN :
                 RunTests(v, d, passed, key)
            \/ \E t \in 1..MaxTests, requester, approver \in Subjects :
                 RequestApproval(v, t, requester, approver, key)

Approver == \E a \in 1..MaxApprovals, actor \in Subjects, approve \in BOOLEAN :
              DecideApproval(a, actor, approve)

Deployer ==
  \E key \in MaybeKey :
    \/ \E v \in 1..MaxVersions, t \in 1..MaxTests, a \in 1..MaxApprovals :
         DeployProduction(v, t, a, key)
    \/ \E d \in 1..MaxDeployments : RollbackProduction(d, key)

Next ==
  \/ Author \/ Approver \/ Deployer
  \/ Disable \/ Enable
  \/ \E b \in Bindings \cup {None} : Restart(b)
  \/ \E s \in Starters : RouteCheck(s) \/ RouteFind(s) \/ RoutePin(s)

Spec == Init /\ [][Next]_vars

-----------------------------------------------------------------------------
(* uq_workflow_deployments_active_env never has to refuse: the operations  *)
(* themselves leave at most one deployment active in an environment.       *)
OneActive == \A env \in Environments : \A d, e \in ActiveIn(env) : d = e

(* "approved hash == tested hash == promoted hash", the suites passed and  *)
(* somebody other than the requester approved: of every deployment that    *)
(* production ever ran, rollbacks and repeated promotions included.        *)
Proven(row) ==
  \E a \in DOMAIN approvals, t \in DOMAIN tests :
    /\ row.approval = a /\ row.test = t /\ approvals[a].test = t
    /\ approvals[a].status = "approved"
    /\ approvals[a].requester # approvals[a].approver
    /\ tests[t].passed
    /\ approvals[a].hash = row.hash /\ tests[t].hash = row.hash
    /\ row.hash.content \in Sound

Ran(row) == row.env = "production" /\ row.status # "failed"

RanOnlyProven ==
  \A d \in DOMAIN deployments : Ran(deployments[d]) => Proven(deployments[d])

(* A candidate is interviewed with content that passed and was approved,   *)
(* whatever was promoted, rolled back or disabled while the route was      *)
(* resolved.                                                               *)
PinnedIsProven ==
  \A p \in sessions :
    /\ p.deployment \in DOMAIN deployments
    /\ Proven(deployments[p.deployment])
    /\ deployments[p.deployment].hash = [version |-> p.version, content |-> p.content]

(* "their active deployments are marked `disabled`", and none is activated *)
(* until the workflow is enabled.                                          *)
DisabledIsStopped ==
  ~enabled => \A env \in Environments : ActiveIn(env) = {}

(* "Each mutating operation claims a SQLite write lock so ... idempotency  *)
(* keys cannot race": one row per key and operation.                       *)
Keyed(table, blank) ==
  \A i, j \in DOMAIN table :
    table[i].key = table[j].key /\ table[i].key \notin blank => i = j

KeysNameOneRow ==
  /\ Keyed(versions, {None}) /\ Keyed(tests, {None}) /\ Keyed(approvals, {None})
  /\ Keyed(deployments, [operation : Operations, key : {None}])

(* What is to be unique is: an environment's active deployment, and the    *)
(* row of a key; so the tables' unique indexes never refuse a statement.   *)
UniqueRows == OneActive /\ KeysNameOneRow

(* The history a reader of `previous_deployment_id' sees: whatever was     *)
(* superseded was so by one later deployment of its environment, which     *)
(* names it.                                                               *)
SupersededBySuccessor ==
  \A d \in DOMAIN deployments : deployments[d].status = "superseded" =>
    \E e \in (d + 1)..Len(deployments) :
      /\ deployments[e].previous = d
      /\ deployments[e].env = deployments[d].env
      /\ deployments[e].status # "failed"

(* A route finds a deployment only while its workflow is enabled, although *)
(* it read that before.                                                    *)
FoundWhileEnabled ==
  [][\A s \in Starters :
       starter[s].pc = "checked" /\ starter'[s].pc = "found" => enabled]_vars

(* "The previous active production deployment remains active when          *)
(* promotion fails": production stops serving only by being disabled, and  *)
(* passes from a deployment to the one that names it as its predecessor.   *)
ProductionGoesOn ==
  [][/\ SupersededBySuccessor'
     /\ enabled' /\ ActiveIn("production") # {} => ActiveIn("production")' # {}]_vars

(* The abstract promise, with the deployments forgotten. *)
Register == INSTANCE ProductionRegister WITH
  Versions <- 1..MaxVersions,
  None <- 0,
  serving <- LET d == Latest(ActiveIn("production")) IN
             IF d = 0 THEN 0 ELSE deployments[d].version,
  approved <- {approvals[a].version :
                 a \in {b \in DOMAIN approvals : approvals[b].status = "approved"}},
  promoted <- {deployments[d].version :
                 d \in {e \in DOMAIN deployments : Ran(deployments[e])}}

ImplementsRegister == Register!Spec

=============================================================================
