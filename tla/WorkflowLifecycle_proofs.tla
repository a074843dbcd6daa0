---------------------- MODULE WorkflowLifecycle_proofs ----------------------
(***************************************************************************)
(* Theorems about the workflow lifecycle, for any contents, subjects, keys *)
(* and bindings, any number of requests, and any bounds.                   *)
(***************************************************************************)
EXTENDS WorkflowLifecycle, SequenceTheorems, TLAPS

DeploymentRow == [version : 1..MaxVersions, hash : Hashes,
                  env : Environments, status : DeploymentStatus,
                  binding : Bindings \cup {None}, previous : Nat,
                  test : Nat, approval : Nat,
                  key : [operation : Operations, key : MaybeKey]]
TestRow == [version : 1..MaxVersions, hash : Hashes, deployment : Nat,
            passed : BOOLEAN, key : MaybeKey]
ApprovalRow == [version : 1..MaxVersions, hash : Hashes, test : Nat,
                status : {"pending", "approved", "rejected"},
                requester : Subjects, approver : Subjects, key : MaybeKey]

(* A deployment is of a published version, and of what that version says.  *)
OfVersion(row) == row.version \in DOMAIN versions /\ row.hash = Hash(row.version)

(* A test passes only on sound content; nobody approves their own request, *)
(* and what they approve is what it names.                                 *)
TestsAreSound ==
  \A t \in DOMAIN tests : tests[t].passed => tests[t].hash.content \in Sound
FourEyes ==
  \A a \in DOMAIN approvals :
    /\ approvals[a].requester # approvals[a].approver
    /\ approvals[a].version = approvals[a].hash.version

(* What a request found may be disabled by now, but it did run.            *)
FoundRan ==
  \A s \in Starters : starter[s].pc = "found" =>
    /\ starter[s].deployment \in DOMAIN deployments
    /\ Ran(deployments[starter[s].deployment])

IInv ==
  /\ TypeOK
  /\ \A d \in DOMAIN deployments : OfVersion(deployments[d])
  /\ OneActive
  /\ DisabledIsStopped
  /\ TestsAreSound
  /\ FourEyes
  /\ RanOnlyProven
  /\ FoundRan
  /\ PinnedIsProven

-----------------------------------------------------------------------------
LEMMA Rows ==
  ASSUME NEW S, NEW s \in Seq(S)
  PROVE  DOMAIN s = 1..Len(s) /\ Len(s) \in Nat /\ \A i \in DOMAIN s : s[i] \in S
OBVIOUS

LEMMA Tables ==
  ASSUME TypeOK
  PROVE  /\ deployments \in Seq(DeploymentRow) /\ tests \in Seq(TestRow)
         /\ approvals \in Seq(ApprovalRow)
         /\ DOMAIN deployments = 1..Len(deployments) /\ Len(deployments) \in Nat
         /\ DOMAIN tests = 1..Len(tests) /\ DOMAIN approvals = 1..Len(approvals)
         /\ DOMAIN versions = 1..Len(versions) /\ Len(versions) \in Nat
         /\ DOMAIN versions \subseteq 1..MaxVersions /\ MaxVersions \in Nat
         /\ \A v \in DOMAIN versions : /\ versions[v].content \in Contents
                                       /\ Hash(v) \in Hashes
         /\ \A d \in DOMAIN deployments : deployments[d] \in DeploymentRow
<1>1. /\ deployments \in Seq(DeploymentRow) /\ tests \in Seq(TestRow)
      /\ approvals \in Seq(ApprovalRow)
  BY DEF TypeOK, DeploymentRow, TestRow, ApprovalRow
<1>2. versions \in Seq([content : Contents, key : MaybeKey])
      /\ Len(versions) <= MaxVersions /\ MaxVersions \in Nat
  BY WorkflowAssumption DEF TypeOK
<1>3. /\ DOMAIN deployments = 1..Len(deployments) /\ Len(deployments) \in Nat
      /\ DOMAIN tests = 1..Len(tests) /\ DOMAIN approvals = 1..Len(approvals)
      /\ \A d \in DOMAIN deployments : deployments[d] \in DeploymentRow
  BY <1>1
<1>4. /\ DOMAIN versions = 1..Len(versions) /\ Len(versions) \in Nat
      /\ DOMAIN versions \subseteq 1..MaxVersions
      /\ \A v \in DOMAIN versions : versions[v].content \in Contents
  <2>1. DOMAIN versions = 1..Len(versions) /\ Len(versions) \in Nat
    BY <1>2
  <2>2. \A v \in DOMAIN versions : versions[v] \in [content : Contents, key : MaybeKey]
    BY <1>2, Rows
  <2>3. \A m, n \in Nat : m <= n => 1..m \subseteq 1..n
    OBVIOUS
  <2>. QED  BY <1>2, <2>1, <2>2, <2>3
<1>5. \A v \in DOMAIN versions : Hash(v) \in Hashes
  BY <1>4 DEF Hash, Hashes
<1>. QED  BY <1>1, <1>2, <1>3, <1>4, <1>5

(* ORDER BY ... LIMIT 1 finds the one active deployment, if there is one.  *)
LEMMA TheActive ==
  ASSUME TypeOK, OneActive, NEW env \in Environments
  PROVE  LET d == Latest(ActiveIn(env)) IN
         /\ d \in Nat
         /\ ActiveIn(env) = IF d = 0 THEN {} ELSE {d}
<1>1. CASE ActiveIn(env) = {}
  BY <1>1 DEF Latest
<1>2. CASE ActiveIn(env) # {}
  <2>1. PICK c \in ActiveIn(env) : TRUE
    BY <1>2
  <2>2. c \in DOMAIN deployments /\ c \in Nat /\ c # 0
    BY <2>1, Tables DEF ActiveIn
  <2>3. ActiveIn(env) = {c}
    BY <2>1 DEF OneActive
  <2>4. Max({c}) = c
    BY <2>2 DEF Max
  <2>5. Latest(ActiveIn(env)) = c
    BY <2>3, <2>4 DEF Latest
  <2>. QED  BY <2>2, <2>3, <2>5
<1>. QED  BY <1>1, <1>2

(* A row appended to a table leaves the others where they are.             *)
LEMMA Appended ==
  ASSUME NEW S, NEW s \in Seq(S), NEW e \in S
  PROVE  /\ Append(s, e) \in Seq(S)
         /\ Len(Append(s, e)) = Len(s) + 1
         /\ DOMAIN Append(s, e) = DOMAIN s \cup {Len(s) + 1}
         /\ Append(s, e)[Len(s) + 1] = e
         /\ \A i \in DOMAIN s : Append(s, e)[i] = s[i]
         /\ Len(s) + 1 \notin DOMAIN s
OBVIOUS

(* Activating a row changes one more, which it supersedes.                 *)
Superseded(row, d) ==
  IF d \in ActiveIn(row.env)
  THEN [deployments[d] EXCEPT !.status = "superseded"] ELSE deployments[d]

LEMMA Activating ==
  ASSUME TypeOK, OneActive, NEW row \in DeploymentRow,
         deployments' = Activated(row)
  PROVE  LET n == Len(deployments) + 1 IN
         /\ deployments' \in Seq(DeploymentRow)
         /\ DOMAIN deployments' = DOMAIN deployments \cup {n}
         /\ n \notin DOMAIN deployments
         /\ \A d \in DOMAIN deployments : deployments'[d] = Superseded(row, d)
         /\ deployments'[n] = [row EXCEPT !.previous = Latest(ActiveIn(row.env))]
<1>. DEFINE c == Latest(ActiveIn(row.env))
            old == [d \in DOMAIN deployments |-> Superseded(row, d)]
            new == [row EXCEPT !.previous = c]
<1>1. row.env \in Environments
  BY DEF DeploymentRow
<1>2. c \in Nat /\ ActiveIn(row.env) = IF c = 0 THEN {} ELSE {c}
  BY <1>1, TheActive
<1>3. new \in DeploymentRow
  BY <1>2 DEF DeploymentRow
<1>4. ASSUME NEW d \in DOMAIN deployments
      PROVE  Superseded(row, d) \in DeploymentRow
  <2>1. deployments[d] \in DeploymentRow
    BY Tables
  <2>2. [deployments[d] EXCEPT !.status = "superseded"] \in DeploymentRow
    BY <2>1 DEF DeploymentRow, DeploymentStatus
  <2>. QED  BY <2>1, <2>2 DEF Superseded
<1>5. old \in Seq(DeploymentRow) /\ Len(old) = Len(deployments)
      /\ DOMAIN old = DOMAIN deployments
  <2>1. DOMAIN deployments = 1..Len(deployments) /\ Len(deployments) \in Nat
    BY Tables
  <2>2. old \in [1..Len(deployments) -> DeploymentRow]
    BY <1>4, <2>1
  <2>. QED  BY <2>1, <2>2
<1>6. \A d \in DOMAIN deployments : d = c <=> d \in ActiveIn(row.env)
  BY <1>2, Tables
<1>7. Activated(row) = Append(old, new)
  BY <1>6 DEF Activated, Superseded
<1>8. \A d \in DOMAIN deployments : old[d] = Superseded(row, d)
  OBVIOUS
<1>. HIDE DEF old, new, c
<1>. QED  BY <1>3, <1>5, <1>7, <1>8, Appended DEF c, new

-----------------------------------------------------------------------------
(* No operation takes a row away.  Versions and tests never change, a      *)
(* verdict is given once, and of a deployment only the status changes, and *)
(* only while it is active.                                                *)
Kept(row) ==
  {row} \cup {[row EXCEPT !.status = st] :
                st \in IF row.status = "active" THEN {"superseded", "disabled"}
                       ELSE {}}

HistoryKept ==
  /\ \A v \in DOMAIN versions : v \in DOMAIN versions' /\ versions'[v] = versions[v]
  /\ \A t \in DOMAIN tests : t \in DOMAIN tests' /\ tests'[t] = tests[t]
  /\ \A a \in DOMAIN approvals :
       /\ a \in DOMAIN approvals'
       /\ approvals[a].status # "pending" => approvals'[a] = approvals[a]
  /\ \A d \in DOMAIN deployments :
       d \in DOMAIN deployments' /\ deployments'[d] \in Kept(deployments[d])

LEMMA KeptRow ==
  ASSUME NEW row \in DeploymentRow, NEW r \in Kept(row)
  PROVE  /\ r.version = row.version /\ r.hash = row.hash /\ r.env = row.env
         /\ r.test = row.test /\ r.approval = row.approval
         /\ r.status \in {"active", "failed"} => r = row
         /\ r.status = "failed" <=> row.status = "failed"
BY DEF Kept, DeploymentRow

(* What an operation adds, and that it keeps the rest, is all there is to  *)
(* show of it.                                                             *)
LEMMA Keeps ==
  ASSUME IInv, TypeOK', HistoryKept, OneActive', DisabledIsStopped',
         TestsAreSound', FourEyes',
         \A d \in DOMAIN deployments' \ DOMAIN deployments :
           /\ OfVersion(deployments[d])'
           /\ Ran(deployments'[d]) => Proven(deployments[d])',
         \A s \in Starters : starter'[s].pc = "found" =>
           \/ starter'[s] = starter[s]
           \/ /\ starter'[s].deployment \in DOMAIN deployments
              /\ Ran(deployments[starter'[s].deployment]),
         \A p \in sessions' :
           \/ p \in sessions
           \/ /\ p.deployment \in DOMAIN deployments
              /\ Ran(deployments[p.deployment])
              /\ deployments[p.deployment].hash
                   = [version |-> p.version, content |-> p.content]
  PROVE  IInv'
<1>1. ASSUME NEW d \in DOMAIN deployments
      PROVE  /\ d \in DOMAIN deployments'
             /\ deployments[d] \in DeploymentRow
             /\ deployments'[d] \in Kept(deployments[d])
             /\ Ran(deployments'[d]) <=> Ran(deployments[d])
             /\ deployments'[d].version = deployments[d].version
             /\ deployments'[d].hash = deployments[d].hash
             /\ deployments'[d].test = deployments[d].test
             /\ deployments'[d].approval = deployments[d].approval
  <2>1. d \in DOMAIN deployments' /\ deployments'[d] \in Kept(deployments[d])
    BY DEF HistoryKept
  <2>2. deployments[d] \in DeploymentRow
    BY Tables DEF IInv
  <2>. QED  BY <2>1, <2>2, KeptRow DEF Ran
<1>2. ASSUME NEW d \in DOMAIN deployments, Proven(deployments[d])
      PROVE  Proven(deployments[d])'
  <2>1. PICK a \in DOMAIN approvals, t \in DOMAIN tests :
      /\ deployments[d].approval = a /\ deployments[d].test = t
      /\ approvals[a].test = t
      /\ approvals[a].status = "approved"
      /\ approvals[a].requester # approvals[a].approver
      /\ tests[t].passed
      /\ approvals[a].hash = deployments[d].hash
      /\ tests[t].hash = deployments[d].hash
      /\ deployments[d].hash.content \in Sound
    BY <1>2 DEF Proven
  <2>2. a \in DOMAIN approvals' /\ approvals'[a] = approvals[a]
        /\ t \in DOMAIN tests' /\ tests'[t] = tests[t]
    BY <2>1 DEF HistoryKept
  <2>. QED  BY <1>1, <2>1, <2>2 DEF Proven
<1>3. (\A d \in DOMAIN deployments : OfVersion(deployments[d]))'
  <2>. SUFFICES ASSUME NEW d \in DOMAIN deployments'
                PROVE  OfVersion(deployments[d])'
    OBVIOUS
  <2>1. CASE d \in DOMAIN deployments
    <3>1. OfVersion(deployments[d])
      BY <2>1 DEF IInv
    <3>2. \A v \in DOMAIN versions : v \in DOMAIN versions' /\ Hash(v)' = Hash(v)
      BY DEF HistoryKept, Hash
    <3>. QED  BY <1>1, <2>1, <3>1, <3>2 DEF OfVersion, Hash
  <2>. QED  BY <2>1
<1>4. RanOnlyProven'
  BY <1>1, <1>2 DEF RanOnlyProven, IInv
<1>5. FoundRan'
  <2>. SUFFICES ASSUME NEW s \in Starters, starter'[s].pc = "found"
                PROVE  /\ starter'[s].deployment \in DOMAIN deployments'
                       /\ Ran(deployments'[starter'[s].deployment])
    BY DEF FoundRan
  <2>1. /\ starter'[s].deployment \in DOMAIN deployments
        /\ Ran(deployments[starter'[s].deployment])
    BY DEF IInv, FoundRan
  <2>. QED  BY <1>1, <2>1
<1>6. PinnedIsProven'
  <2>. SUFFICES ASSUME NEW p \in sessions'
                PROVE  /\ p.deployment \in DOMAIN deployments'
                       /\ Proven(deployments[p.deployment])'
                       /\ deployments'[p.deployment].hash
                            = [version |-> p.version, content |-> p.content]
    BY DEF PinnedIsProven
  <2>1. /\ p.deployment \in DOMAIN deployments
        /\ Proven(deployments[p.deployment])
        /\ deployments[p.deployment].hash
             = [version |-> p.version, content |-> p.content]
    BY DEF IInv, PinnedIsProven, RanOnlyProven
  <2>. QED  BY <1>1, <1>2, <2>1
<1>. QED  BY <1>3, <1>4, <1>5, <1>6 DEF IInv

-----------------------------------------------------------------------------
LEMMA Initially == Init => IInv
<1>. SUFFICES ASSUME Init PROVE IInv
  OBVIOUS
<1>1. TypeOK
  <2>1. Idle \in [pc : {"idle", "checked", "found"}, deployment : Nat]
    BY DEF Idle
  <2>. QED  BY <2>1, WorkflowAssumption DEF Init, TypeOK
<1>2. DOMAIN deployments = {} /\ DOMAIN tests = {} /\ DOMAIN approvals = {}
  BY DEF Init
<1>3. OneActive /\ DisabledIsStopped
  BY <1>2 DEF OneActive, DisabledIsStopped, ActiveIn
<1>4. FoundRan
  BY DEF Init, FoundRan, Idle
<1>. QED
  BY <1>1, <1>2, <1>3, <1>4
  DEF IInv, Init, TestsAreSound, FourEyes, RanOnlyProven, PinnedIsProven

(* Operations that deploy nothing.                                         *)
LEMMA Undeployed ==
  ASSUME IInv, TypeOK', HistoryKept, UNCHANGED <<enabled, deployments>>,
         TestsAreSound', FourEyes', UNCHANGED <<starter, sessions>>
  PROVE  IInv'
<1>1. OneActive' /\ DisabledIsStopped'
  BY DEF IInv, OneActive, DisabledIsStopped, ActiveIn
<1>. QED  BY <1>1, Keeps

LEMMA PublishKeeps ==
  ASSUME IInv, NEW key \in MaybeKey, PublishVersion(key)
  PROVE  HistoryKept /\ IInv'
<1>. DEFINE row == [content |-> draft, key |-> key]
            VersionRow == [content : Contents, key : MaybeKey]
<1>1. versions \in Seq(VersionRow) /\ row \in VersionRow
      /\ versions' = Append(versions, row)
  BY DEF IInv, TypeOK, PublishVersion
<1>2. /\ versions' \in Seq(VersionRow) /\ Len(versions') = Len(versions) + 1
      /\ DOMAIN versions' = DOMAIN versions \cup {Len(versions) + 1}
      /\ \A v \in DOMAIN versions : versions'[v] = versions[v]
  <2>. HIDE DEF row, VersionRow
  <2>. QED  BY <1>1, Appended
<1>3. Len(versions') <= MaxVersions
  BY <1>2, Tables DEF IInv, PublishVersion
<1>4. TypeOK'
  BY <1>2, <1>3 DEF IInv, TypeOK, PublishVersion
<1>5. HistoryKept
  BY <1>2 DEF HistoryKept, PublishVersion, Kept
<1>6. TestsAreSound' /\ FourEyes'
  BY DEF IInv, TestsAreSound, FourEyes, PublishVersion
<1>. QED  BY <1>4, <1>5, <1>6, Undeployed DEF PublishVersion

LEMMA TestKeeps ==
  ASSUME IInv, NEW v \in 1..MaxVersions, NEW d \in 1..MaxDeployments,
         NEW passed \in BOOLEAN, NEW key \in MaybeKey,
         RunTests(v, d, passed, key)
  PROVE  HistoryKept /\ IInv'
<1>. DEFINE row == [version |-> v, hash |-> Hash(v), deployment |-> d,
                    passed |-> passed, key |-> key]
            n == Len(tests) + 1
<1>1. v \in DOMAIN versions /\ Hash(v) \in Hashes /\ d \in Nat
  BY Tables DEF IInv, RunTests
<1>2. row \in TestRow /\ tests \in Seq(TestRow) /\ tests' = Append(tests, row)
  BY <1>1, Tables DEF IInv, TestRow, RunTests
<1>3. row.passed => row.hash.content \in Sound
  BY DEF RunTests, Hash
<1>4. /\ tests' \in Seq(TestRow) /\ DOMAIN tests' = DOMAIN tests \cup {n}
      /\ \A t \in DOMAIN tests : tests'[t] = tests[t]
      /\ tests'[n] = row
  <2>. HIDE DEF row
  <2>. QED  BY <1>2, Appended
<1>5. TypeOK'
  BY <1>4 DEF IInv, TypeOK, TestRow, RunTests
<1>. HIDE DEF row
<1>6. HistoryKept
  BY <1>4 DEF HistoryKept, RunTests, Kept
<1>7. TestsAreSound'
  BY <1>3, <1>4 DEF IInv, TestsAreSound
<1>8. FourEyes'
  BY DEF IInv, FourEyes, RunTests
<1>. QED  BY <1>5, <1>6, <1>7, <1>8, Undeployed DEF RunTests

LEMMA RequestKeeps ==
  ASSUME IInv, NEW v \in 1..MaxVersions, NEW t \in 1..MaxTests,
         NEW requester \in Subjects, NEW approver \in Subjects,
         NEW key \in MaybeKey,
         RequestApproval(v, t, requester, approver, key)
  PROVE  HistoryKept /\ IInv'
<1>. DEFINE row == [version |-> v, hash |-> Hash(v), test |-> t,
                    status |-> "pending", requester |-> requester,
                    approver |-> approver, key |-> key]
            n == Len(approvals) + 1
<1>1. v \in DOMAIN versions /\ Hash(v) \in Hashes /\ t \in Nat
  BY Tables DEF IInv, RequestApproval
<1>2. row \in ApprovalRow /\ approvals \in Seq(ApprovalRow)
      /\ approvals' = Append(approvals, row)
  BY <1>1, Tables DEF IInv, ApprovalRow, RequestApproval
<1>3. row.requester # row.approver /\ row.version = row.hash.version
  BY DEF RequestApproval, Hash
<1>4. /\ approvals' \in Seq(ApprovalRow)
      /\ DOMAIN approvals' = DOMAIN approvals \cup {n}
      /\ \A a \in DOMAIN approvals : approvals'[a] = approvals[a]
      /\ approvals'[n] = row
  <2>. HIDE DEF row
  <2>. QED  BY <1>2, Appended
<1>5. TypeOK'
  BY <1>4 DEF IInv, TypeOK, ApprovalRow, RequestApproval
<1>. HIDE DEF row
<1>6. HistoryKept
  BY <1>4 DEF HistoryKept, RequestApproval, Kept
<1>7. FourEyes'
  BY <1>3, <1>4 DEF IInv, FourEyes
<1>8. TestsAreSound'
  BY DEF IInv, TestsAreSound, RequestApproval
<1>. QED  BY <1>5, <1>6, <1>7, <1>8, Undeployed DEF RequestApproval

LEMMA DecisionKeeps ==
  ASSUME IInv, NEW a, NEW actor, NEW approve \in BOOLEAN,
         DecideApproval(a, actor, approve)
  PROVE  HistoryKept /\ IInv'
<1>. DEFINE verdict == IF approve THEN "approved" ELSE "rejected"
            row == [approvals[a] EXCEPT !.status = verdict]
<1>1. a \in DOMAIN approvals /\ approvals[a].status = "pending"
      /\ approvals' = [approvals EXCEPT ![a] = row]
  BY DEF DecideApproval
<1>2. approvals \in Seq(ApprovalRow) /\ approvals[a] \in ApprovalRow
  BY <1>1, Tables, Rows DEF IInv
<1>3. row \in ApprovalRow /\ row.requester = approvals[a].requester
      /\ row.approver = approvals[a].approver
      /\ row.version = approvals[a].version /\ row.hash = approvals[a].hash
  BY <1>2 DEF ApprovalRow
<1>. HIDE DEF row
<1>4. approvals' \in Seq(ApprovalRow) /\ DOMAIN approvals' = DOMAIN approvals
      /\ approvals'[a] = row
      /\ \A b \in DOMAIN approvals \ {a} : approvals'[b] = approvals[b]
  BY <1>1, <1>2, <1>3
<1>5. TypeOK'
  BY <1>4 DEF IInv, TypeOK, ApprovalRow, DecideApproval
<1>6. HistoryKept
  BY <1>1, <1>4 DEF HistoryKept, DecideApproval, Kept
<1>7. FourEyes'
  BY <1>1, <1>3, <1>4 DEF IInv, FourEyes
<1>8. TestsAreSound'
  BY DEF IInv, TestsAreSound, DecideApproval
<1>. QED  BY <1>5, <1>6, <1>7, <1>8, Undeployed DEF DecideApproval

-----------------------------------------------------------------------------
Others == <<enabled, versions, draft, tests, approvals, binding, starter, sessions>>

(* Operations that deploy: the row they activate, or record as failed.     *)
LEMMA ActivationKeeps ==
  ASSUME IInv, NEW row \in DeploymentRow, enabled, OfVersion(row),
         row.env = "production" => Proven(row),
         deployments' = Activated(row), UNCHANGED Others
  PROVE  HistoryKept /\ IInv'
<1>. DEFINE n == Len(deployments) + 1
            new == [row EXCEPT !.previous = Latest(ActiveIn(row.env))]
<1>1. /\ deployments' \in Seq(DeploymentRow)
      /\ DOMAIN deployments' = DOMAIN deployments \cup {n}
      /\ n \notin DOMAIN deployments
      /\ \A d \in DOMAIN deployments : deployments'[d] = Superseded(row, d)
      /\ deployments'[n] = new
  BY Activating DEF IInv
<1>2. /\ new.version = row.version /\ new.hash = row.hash /\ new.env = row.env
      /\ new.test = row.test /\ new.approval = row.approval
  BY DEF DeploymentRow
<1>3. \A d \in DOMAIN deployments : deployments[d] \in DeploymentRow
  BY Tables DEF IInv
<1>. HIDE DEF n, new
<1>4. TypeOK'
  BY <1>1 DEF IInv, TypeOK, DeploymentRow, Others
<1>5. HistoryKept
  <2>1. ASSUME NEW d \in DOMAIN deployments
        PROVE  Superseded(row, d) \in Kept(deployments[d])
    BY DEF Superseded, Kept, ActiveIn
  <2>. QED  BY <1>1, <2>1 DEF HistoryKept, Others
<1>6. ASSUME NEW d \in DOMAIN deployments
      PROVE  /\ deployments'[d].env = deployments[d].env
             /\ deployments'[d].status = "active" =>
                  deployments[d].status = "active" /\ deployments[d].env # row.env
  BY <1>1, <1>3 DEF Superseded, ActiveIn, DeploymentRow
<1>7. OneActive'
  <2>. SUFFICES ASSUME NEW env \in Environments,
                       NEW d \in ActiveIn(env)', NEW e \in ActiveIn(env)'
                PROVE  d = e
    BY DEF OneActive
  <2>1. /\ d \in DOMAIN deployments \cup {n} /\ e \in DOMAIN deployments \cup {n}
        /\ deployments'[d].env = env /\ deployments'[e].env = env
        /\ deployments'[d].status = "active" /\ deployments'[e].status = "active"
    BY <1>1 DEF ActiveIn
  <2>2. CASE env = row.env
    BY <1>6, <2>1, <2>2
  <2>3. CASE env # row.env
    <3>1. d # n /\ e # n
      BY <1>1, <1>2, <2>1, <2>3
    <3>2. d \in ActiveIn(env) /\ e \in ActiveIn(env)
      BY <1>6, <2>1, <3>1 DEF ActiveIn
    <3>. QED  BY <3>2 DEF IInv, OneActive
  <2>. QED  BY <2>2, <2>3
<1>8. DisabledIsStopped' /\ TestsAreSound' /\ FourEyes'
  BY DEF DisabledIsStopped, IInv, TestsAreSound, FourEyes, Others
<1>9. ASSUME NEW d \in DOMAIN deployments' \ DOMAIN deployments
      PROVE  OfVersion(deployments[d])' /\ (Ran(deployments'[d]) => Proven(deployments[d])')
  <2>1. deployments'[d] = new
    BY <1>1
  <2>2. OfVersion(deployments[d])'
    BY <1>2, <2>1 DEF OfVersion, Hash, Others
  <2>3. Proven(row) => Proven(deployments[d])'
    BY <1>2, <2>1 DEF Proven, Others
  <2>4. row.env # "production" => ~Ran(deployments'[d])
    BY <1>2, <2>1 DEF Ran
  <2>. QED  BY <2>2, <2>3, <2>4
<1>. QED  BY <1>1, <1>4, <1>5, <1>7, <1>8, <1>9, Keeps DEF Others

LEMMA FailureKeeps ==
  ASSUME IInv, NEW row \in DeploymentRow, OfVersion(row),
         deployments' = Failed(row), UNCHANGED Others
  PROVE  HistoryKept /\ IInv'
<1>. DEFINE n == Len(deployments) + 1
            c == Latest(ActiveIn("production"))
            new == [row EXCEPT !.status = "failed", !.previous = c]
<1>1. c \in Nat
  BY TheActive DEF IInv, Environments
<1>2. new \in DeploymentRow /\ new.status = "failed"
      /\ new.version = row.version /\ new.hash = row.hash
  BY <1>1 DEF DeploymentRow, DeploymentStatus
<1>3. deployments \in Seq(DeploymentRow) /\ deployments' = Append(deployments, new)
  BY Tables DEF IInv, Failed
<1>. HIDE DEF new
<1>4. /\ deployments' \in Seq(DeploymentRow)
      /\ DOMAIN deployments' = DOMAIN deployments \cup {n}
      /\ n \notin DOMAIN deployments
      /\ \A d \in DOMAIN deployments : deployments'[d] = deployments[d]
      /\ deployments'[n] = new
  BY <1>2, <1>3, Appended
<1>. HIDE DEF n
<1>5. TypeOK'
  BY <1>4 DEF IInv, TypeOK, DeploymentRow, Others
<1>6. HistoryKept
  BY <1>4 DEF HistoryKept, Kept, Others
<1>7. \A env \in Environments : ActiveIn(env)' = ActiveIn(env)
  BY <1>2, <1>4 DEF ActiveIn
<1>8. OneActive' /\ DisabledIsStopped' /\ TestsAreSound' /\ FourEyes'
  BY <1>7 DEF OneActive, DisabledIsStopped, IInv, TestsAreSound, FourEyes, Others
<1>9. ASSUME NEW d \in DOMAIN deployments' \ DOMAIN deployments
      PROVE  OfVersion(deployments[d])' /\ ~Ran(deployments'[d])
  <2>1. deployments'[d] = new
    BY <1>4
  <2>. QED  BY <1>2, <2>1 DEF OfVersion, Ran, Hash, Others
<1>. QED  BY <1>4, <1>5, <1>6, <1>8, <1>9, Keeps DEF Others

LEMMA SandboxKeeps ==
  ASSUME IInv, NEW v \in 1..MaxVersions, NEW key \in MaybeKey,
         DeploySandbox(v, key)
  PROVE  HistoryKept /\ IInv'
<1>. DEFINE row == Deployment(v, "sandbox", OperationKey("sandbox_deploy", key))
<1>1. v \in DOMAIN versions /\ Hash(v) \in Hashes
  BY Tables DEF IInv, DeploySandbox
<1>2. row \in DeploymentRow /\ OfVersion(row) /\ row.env = "sandbox"
  BY <1>1 DEF Deployment, DeploymentRow, OfVersion, OperationKey, Operations,
              Environments, DeploymentStatus
<1>. QED  BY <1>2, ActivationKeeps DEF DeploySandbox, Others

LEMMA PromotionKeeps ==
  ASSUME IInv, NEW v \in 1..MaxVersions, NEW t \in 1..MaxTests,
         NEW a \in 1..MaxApprovals, NEW key \in MaybeKey,
         DeployProduction(v, t, a, key)
  PROVE  HistoryKept /\ IInv'
<1>. DEFINE bare == Deployment(v, "production",
                               OperationKey("production_deploy", key))
            row == [bare EXCEPT !.test = t, !.approval = a]
<1>1. v \in DOMAIN versions /\ Hash(v) \in Hashes
  BY Tables DEF IInv, DeployProduction
<1>2. bare \in DeploymentRow /\ bare.version = v /\ bare.hash = Hash(v)
      /\ bare.env = "production"
  BY <1>1 DEF Deployment, DeploymentRow, OperationKey, Operations,
              Environments, DeploymentStatus, IInv, TypeOK
<1>. HIDE DEF bare
<1>3. row \in DeploymentRow /\ OfVersion(row)
      /\ row.hash = Hash(v) /\ row.test = t /\ row.approval = a
  <2>1. t \in Nat /\ a \in Nat
    OBVIOUS
  <2>2. row \in DeploymentRow /\ row.version = v
        /\ row.hash = Hash(v) /\ row.test = t /\ row.approval = a
    BY <1>2, <2>1 DEF DeploymentRow
  <2>. QED  BY <1>1, <2>2 DEF OfVersion
<1>4. UNCHANGED Others
  BY DEF DeployProduction, Others
<1>5. \/ deployments' = Failed(row)
      \/ deployments' = deployments
      \/ ProductionChecks(v, t, a) /\ deployments' = Activated(row)
  BY DEF DeployProduction, bare
<1>6. CASE deployments' = Failed(row)
  BY <1>3, <1>4, <1>6, FailureKeeps
<1>7. CASE deployments' = deployments
  <2>1. TypeOK'
    BY <1>4, <1>7 DEF IInv, TypeOK, Others
  <2>2. HistoryKept
    BY <1>4, <1>7 DEF HistoryKept, Kept, Others
  <2>3. TestsAreSound' /\ FourEyes'
    BY <1>4 DEF IInv, TestsAreSound, FourEyes, Others
  <2>. QED  BY <1>4, <1>7, <2>1, <2>2, <2>3, Undeployed DEF Others
<1>8. CASE ProductionChecks(v, t, a) /\ deployments' = Activated(row)
  <2>. HIDE DEF row
  <2>1. /\ t \in DOMAIN tests /\ tests[t].passed /\ tests[t].hash = Hash(v)
        /\ a \in DOMAIN approvals /\ approvals[a].status = "approved"
        /\ approvals[a].hash = Hash(v) /\ approvals[a].test = t
    BY <1>8 DEF ProductionChecks, TestChecks, ApprovalChecks
  <2>2. Proven(row)
    BY <1>3, <2>1 DEF Proven, IInv, FourEyes, TestsAreSound
  <2>. QED  BY <1>3, <1>4, <1>8, <2>2, ActivationKeeps DEF ProductionChecks
<1>. QED  BY <1>5, <1>6, <1>7, <1>8

LEMMA RollbackKeeps ==
  ASSUME IInv, NEW d \in 1..MaxDeployments, NEW key \in MaybeKey,
         RollbackProduction(d, key)
  PROVE  HistoryKept /\ IInv'
<1>. DEFINE back == deployments[d]
            row == [back EXCEPT !.status = "active",
                      !.key = OperationKey("production_rollback", key)]
<1>1. d \in DOMAIN deployments /\ Ran(back)
  BY DEF RollbackProduction, ReturnsTo, Ran
<1>2. back \in DeploymentRow /\ OfVersion(back) /\ Proven(back)
  BY <1>1, Tables DEF IInv, RanOnlyProven
<1>3. row \in DeploymentRow
      /\ row.version = back.version /\ row.hash = back.hash
      /\ row.test = back.test /\ row.approval = back.approval
  BY <1>2 DEF DeploymentRow, OperationKey, Operations, DeploymentStatus
<1>4. deployments' = Activated(row) /\ enabled /\ UNCHANGED Others
  BY DEF RollbackProduction, Others
<1>. HIDE DEF row, back
<1>5. OfVersion(row)
  BY <1>2, <1>3 DEF OfVersion
<1>6. Proven(row)
  BY <1>2, <1>3 DEF Proven
<1>. QED  BY <1>3, <1>4, <1>5, <1>6, ActivationKeeps

-----------------------------------------------------------------------------
LEMMA DisableKeeps ==
  ASSUME IInv, Disable
  PROVE  HistoryKept /\ IInv'
<1>1. \A d \in DOMAIN deployments : deployments[d] \in DeploymentRow
  BY Tables DEF IInv
<1>2. DOMAIN deployments' = DOMAIN deployments
      /\ \A d \in DOMAIN deployments : deployments'[d] = Stopped(deployments[d])
  BY DEF Disable
<1>3. ASSUME NEW d \in DOMAIN deployments
      PROVE  /\ Stopped(deployments[d]) \in DeploymentRow
             /\ Stopped(deployments[d]) \in Kept(deployments[d])
             /\ Stopped(deployments[d]).status # "active"
  BY <1>1 DEF Stopped, DeploymentRow, DeploymentStatus, Kept
<1>4. deployments' \in Seq(DeploymentRow)
  <2>1. DOMAIN deployments = 1..Len(deployments) /\ Len(deployments) \in Nat
    BY Tables DEF IInv
  <2>2. deployments' \in [1..Len(deployments) -> DeploymentRow]
    BY <1>3, <2>1 DEF Disable
  <2>. QED  BY <2>1, <2>2
<1>5. TypeOK'
  BY <1>4 DEF IInv, TypeOK, DeploymentRow, Disable
<1>6. HistoryKept
  BY <1>2, <1>3 DEF HistoryKept, Disable
<1>7. \A env \in Environments : ActiveIn(env)' = {}
  BY <1>2, <1>3 DEF ActiveIn
<1>8. OneActive' /\ DisabledIsStopped' /\ TestsAreSound' /\ FourEyes'
  BY <1>7 DEF OneActive, DisabledIsStopped, IInv, TestsAreSound, FourEyes, Disable
<1>. QED  BY <1>2, <1>5, <1>6, <1>8, Keeps DEF Disable

(* Operations that only move the requests which are being routed.          *)
LEMMA RoutingKeeps ==
  ASSUME IInv, TypeOK', UNCHANGED <<enabled, versions, deployments, tests, approvals>>,
         \A s \in Starters : starter'[s].pc = "found" =>
           \/ starter'[s] = starter[s]
           \/ starter'[s].deployment \in ActiveIn("production"),
         \A p \in sessions' :
           \/ p \in sessions
           \/ /\ p.deployment \in DOMAIN deployments
              /\ Ran(deployments[p.deployment])
              /\ deployments[p.deployment].hash
                   = [version |-> p.version, content |-> p.content]
  PROVE  HistoryKept /\ IInv'
<1>1. HistoryKept
  BY DEF HistoryKept, Kept
<1>2. OneActive' /\ DisabledIsStopped' /\ TestsAreSound' /\ FourEyes'
  BY DEF OneActive, DisabledIsStopped, ActiveIn, IInv, TestsAreSound, FourEyes
<1>3. \A d \in ActiveIn("production") : d \in DOMAIN deployments /\ Ran(deployments[d])
  BY DEF ActiveIn, Ran
<1>. QED  BY <1>1, <1>2, <1>3, Keeps

LEMMA CheckKeeps ==
  ASSUME IInv, NEW s \in Starters, RouteCheck(s)
  PROVE  HistoryKept /\ IInv'
<1>1. TypeOK'
  BY DEF IInv, TypeOK, RouteCheck
<1>2. \A q \in Starters : starter'[q].pc = "found" => starter'[q] = starter[q]
  BY DEF IInv, TypeOK, RouteCheck
<1>. QED  BY <1>1, <1>2, RoutingKeeps DEF RouteCheck

LEMMA FindKeeps ==
  ASSUME IInv, NEW s \in Starters, RouteFind(s)
  PROVE  HistoryKept /\ IInv'
<1>. DEFINE d == Latest(ActiveIn("production"))
<1>1. d \in Nat /\ (d # 0 => d \in ActiveIn("production"))
  BY TheActive DEF IInv, Environments
<1>2. starter \in [Starters -> [pc : {"idle", "checked", "found"}, deployment : Nat]]
  BY DEF IInv, TypeOK
<1>3. PICK r \in [pc : {"idle", "checked", "found"}, deployment : Nat] :
        /\ starter' = [starter EXCEPT ![s] = r]
        /\ r.pc = "found" => r.deployment \in ActiveIn("production")
  <2>1. \/ /\ starter' = [starter EXCEPT ![s] = [pc |-> "found", deployment |-> d]]
           /\ d # 0
        \/ starter' = [starter EXCEPT ![s] = Idle]
    BY DEF RouteFind
  <2>. HIDE DEF d
  <2>2. [pc |-> "found", deployment |-> d]
          \in [pc : {"idle", "checked", "found"}, deployment : Nat]
    BY <1>1
  <2>3. Idle \in [pc : {"idle", "checked", "found"}, deployment : Nat]
        /\ Idle.pc # "found"
    BY DEF Idle
  <2>. QED  BY <1>1, <2>1, <2>2, <2>3
<1>4. TypeOK'
  BY <1>2, <1>3 DEF IInv, TypeOK, RouteFind
<1>5. \A q \in Starters : starter'[q].pc = "found" =>
        starter'[q] = starter[q] \/ starter'[q].deployment \in ActiveIn("production")
  BY <1>2, <1>3
<1>. QED  BY <1>4, <1>5, RoutingKeeps DEF RouteFind

LEMMA PinKeeps ==
  ASSUME IInv, NEW s \in Starters, RoutePin(s)
  PROVE  HistoryKept /\ IInv'
<1>. DEFINE d == starter[s].deployment
            v == deployments[d].version
            pin == [deployment |-> d, version |-> v, content |-> versions[v].content]
<1>1. starter \in [Starters -> [pc : {"idle", "checked", "found"}, deployment : Nat]]
      /\ Idle \in [pc : {"idle", "checked", "found"}, deployment : Nat]
  BY DEF IInv, TypeOK, Idle
<1>2. d \in Nat /\ d \in DOMAIN deployments /\ Ran(deployments[d])
  BY <1>1 DEF IInv, FoundRan, RoutePin
<1>3. v \in 1..MaxVersions /\ versions[v].content \in Contents
      /\ deployments[d].hash = Hash(v)
  BY <1>2, Tables DEF IInv, OfVersion
<1>4. starter' = [starter EXCEPT ![s] = Idle]
      /\ sessions' = sessions \cup {pin}
  BY <1>3 DEF RoutePin
<1>5. TypeOK'
  <2>1. pin \in [deployment : Nat, version : 1..MaxVersions, content : Contents]
    BY <1>2, <1>3
  <2>2. starter' \in [Starters -> [pc : {"idle", "checked", "found"}, deployment : Nat]]
    BY <1>1, <1>4
  <2>. HIDE DEF pin
  <2>. QED  BY <1>4, <2>1, <2>2 DEF IInv, TypeOK, RoutePin
<1>6. \A q \in Starters : starter'[q].pc = "found" => starter'[q] = starter[q]
  BY <1>1, <1>4 DEF Idle
<1>7. deployments[pin.deployment].hash = [version |-> pin.version, content |-> pin.content]
      /\ pin.deployment = d
  BY <1>3 DEF Hash
<1>. HIDE DEF pin
<1>8. \A p \in sessions' :
        p \in sessions \/ (/\ p.deployment \in DOMAIN deployments
                           /\ Ran(deployments[p.deployment])
                           /\ deployments[p.deployment].hash
                                = [version |-> p.version, content |-> p.content])
  BY <1>2, <1>4, <1>7
<1>. QED  BY <1>5, <1>6, <1>8, RoutingKeeps DEF RoutePin

LEMMA StepKeeps ==
  ASSUME IInv, [Next]_vars
  PROVE  HistoryKept /\ IInv'
<1>1. ASSUME NEW content \in Contents, UpdateDraft(content)
      PROVE  HistoryKept /\ IInv'
  <2>1. TypeOK' /\ HistoryKept /\ TestsAreSound' /\ FourEyes'
    BY <1>1 DEF IInv, TypeOK, HistoryKept, Kept, TestsAreSound, FourEyes, UpdateDraft
  <2>. QED  BY <1>1, <2>1, Undeployed DEF UpdateDraft
<1>2. CASE Enable
  <2>1. TypeOK' /\ HistoryKept /\ TestsAreSound' /\ FourEyes'
    BY <1>2 DEF IInv, TypeOK, HistoryKept, Kept, TestsAreSound, FourEyes, Enable
  <2>2. OneActive' /\ DisabledIsStopped'
    BY <1>2 DEF IInv, OneActive, DisabledIsStopped, ActiveIn, Enable
  <2>. QED  BY <1>2, <2>1, <2>2, Keeps DEF Enable
<1>3. ASSUME NEW b \in Bindings \cup {None}, Restart(b)
      PROVE  HistoryKept /\ IInv'
  <2>1. TypeOK'
    BY <1>3 DEF IInv, TypeOK, Restart, Idle
  <2>2. \A s \in Starters : starter'[s].pc # "found"
    BY <1>3 DEF Restart, Idle
  <2>. QED  BY <1>3, <2>1, <2>2, RoutingKeeps DEF Restart
<1>4. CASE UNCHANGED vars
  <2>1. TypeOK'
    BY <1>4 DEF IInv, TypeOK, vars
  <2>. QED  BY <1>4, <2>1, RoutingKeeps DEF vars
<1>5. CASE Author
  BY <1>1, <1>5, PublishKeeps, SandboxKeeps, TestKeeps, RequestKeeps DEF Author
<1>6. CASE Approver
  BY <1>6, DecisionKeeps DEF Approver
<1>7. CASE Deployer
  BY <1>7, PromotionKeeps, RollbackKeeps DEF Deployer
<1>8. ASSUME NEW s \in Starters, RouteCheck(s) \/ RouteFind(s) \/ RoutePin(s)
      PROVE  HistoryKept /\ IInv'
  BY <1>8, CheckKeeps, FindKeeps, PinKeeps
<1>. QED
  BY <1>2, <1>3, <1>4, <1>5, <1>6, <1>7, <1>8, DisableKeeps DEF Next

LEMMA Invariance == Spec => []IInv
<1>1. Init => IInv
  BY Initially
<1>2. IInv /\ [Next]_vars => IInv'
  BY StepKeeps
<1>. QED  BY <1>1, <1>2, PTL DEF Spec

-----------------------------------------------------------------------------
(* Every table keeps its types, whatever requests are made.                *)
THEOREM TypeCorrect == Spec => []TypeOK
<1>1. IInv => TypeOK
  BY DEF IInv
<1>. QED  BY <1>1, Invariance, PTL

(* The unique index over active deployments never has to refuse.           *)
THEOREM OneActiveDeployment == Spec => []OneActive
<1>1. IInv => OneActive
  BY DEF IInv
<1>. QED  BY <1>1, Invariance, PTL

(* A disabled workflow has no active deployment.                           *)
THEOREM DisabledStaysStopped == Spec => []DisabledIsStopped
<1>1. IInv => DisabledIsStopped
  BY DEF IInv
<1>. QED  BY <1>1, Invariance, PTL

(* Production never runs an artifact that was not tested and approved.     *)
THEOREM ProductionIsProven == Spec => []RanOnlyProven
<1>1. IInv => RanOnlyProven
  BY DEF IInv
<1>. QED  BY <1>1, Invariance, PTL

(* Nor is a candidate interviewed with one, however routing interleaves.   *)
THEOREM SessionsAreProven == Spec => []PinnedIsProven
<1>1. IInv => PinnedIsProven
  BY DEF IInv
<1>. QED  BY <1>1, Invariance, PTL

(* The record of versions, tests, verdicts and deployments is append-only. *)
THEOREM HistoryIsKept == Spec => [][HistoryKept]_vars
<1>1. IInv /\ [Next]_vars => [HistoryKept]_vars
  BY StepKeeps
<1>. QED  BY <1>1, Invariance, PTL DEF Spec

-----------------------------------------------------------------------------
(* What the register shows of the workflow.                                *)
Serving == LET d == Latest(ActiveIn("production")) IN
           IF d = 0 THEN 0 ELSE deployments[d].version
Approved == {approvals[a].version :
               a \in {b \in DOMAIN approvals : approvals[b].status = "approved"}}
Promoted == {deployments[d].version :
               d \in {e \in DOMAIN deployments : Ran(deployments[e])}}

LEMMA ServingIs ==
  IInv => /\ ActiveIn("production") = {} => Serving = 0
          /\ \A d \in ActiveIn("production") : Serving = deployments[d].version
<1>. SUFFICES ASSUME IInv
              PROVE  /\ ActiveIn("production") = {} => Serving = 0
                     /\ \A d \in ActiveIn("production") : Serving = deployments[d].version
  OBVIOUS
<1>. DEFINE c == Latest(ActiveIn("production"))
<1>1. c \in Nat /\ ActiveIn("production") = IF c = 0 THEN {} ELSE {c}
  BY TheActive DEF IInv, Environments
<1>2. 0 \notin DOMAIN deployments
  BY Tables DEF IInv
<1>3. Serving = IF c = 0 THEN 0 ELSE deployments[c].version
  BY DEF Serving
<1>. HIDE DEF c
<1>. QED  BY <1>1, <1>3

(* Rows that stay active, and rows that ran, keep their versions.          *)
LEMMA RunsKept ==
  ASSUME IInv, HistoryKept, NEW d \in DOMAIN deployments
  PROVE  /\ d \in DOMAIN deployments'
         /\ Ran(deployments'[d]) <=> Ran(deployments[d])
         /\ deployments'[d].version = deployments[d].version
         /\ deployments'[d].env = deployments[d].env
<1>1. deployments[d] \in DeploymentRow
  BY Tables DEF IInv
<1>2. d \in DOMAIN deployments' /\ deployments'[d] \in Kept(deployments[d])
  BY DEF HistoryKept
<1>. QED  BY <1>1, <1>2, KeptRow DEF Ran

(* As long as no new row ran, the promoted versions are the same.          *)
LEMMA NoneAdded ==
  ASSUME IInv, HistoryKept,
         \A d \in DOMAIN deployments' \ DOMAIN deployments : ~Ran(deployments'[d])
  PROVE  Promoted' = Promoted
<1>1. \A d \in DOMAIN deployments' : Ran(deployments'[d]) => d \in DOMAIN deployments
  OBVIOUS
<1>2. \A v : v \in Promoted' <=> v \in Promoted
  BY <1>1, RunsKept DEF Promoted
<1>. QED  BY <1>2

LEMMA ActivationServes ==
  ASSUME IInv, IInv', HistoryKept, NEW row \in DeploymentRow,
         row.status = "active", deployments' = Activated(row)
  PROVE  IF row.env = "production"
         THEN Serving' = row.version /\ Promoted' = Promoted \cup {row.version}
         ELSE Serving' = Serving /\ Promoted' = Promoted
<1>. DEFINE n == Len(deployments) + 1
            new == [row EXCEPT !.previous = Latest(ActiveIn(row.env))]
<1>1. /\ DOMAIN deployments' = DOMAIN deployments \cup {n}
      /\ n \notin DOMAIN deployments
      /\ \A d \in DOMAIN deployments : deployments'[d] = Superseded(row, d)
      /\ deployments'[n] = new
  BY Activating DEF IInv
<1>2. new.version = row.version /\ new.env = row.env /\ new.status = "active"
  BY DEF DeploymentRow
<1>3. PICK m : m = n
  OBVIOUS
<1>. HIDE DEF n, new
<1>4. (/\ ActiveIn("production") = {} => Serving = 0
       /\ \A d \in ActiveIn("production") : Serving = deployments[d].version)'
  <2>1. (IInv => /\ ActiveIn("production") = {} => Serving = 0
                 /\ \A d \in ActiveIn("production") : Serving = deployments[d].version)'
    BY ServingIs, PTL
  <2>. QED  BY <2>1
<1>5. CASE row.env = "production"
  <2>1. m \in ActiveIn("production")' /\ Ran(deployments'[m])
    BY <1>1, <1>2, <1>3, <1>5 DEF ActiveIn, Ran
  <2>2. Serving' = row.version
    BY <1>1, <1>2, <1>3, <1>4, <2>1
  <2>3. \A v : v \in Promoted' <=> v \in Promoted \/ v = row.version
    BY <1>1, <1>2, <1>3, <2>1, RunsKept DEF Promoted
  <2>. QED  BY <1>5, <2>2, <2>3
<1>6. CASE row.env # "production"
  <2>1. \A d \in DOMAIN deployments : deployments[d].env = "production" =>
          deployments'[d] = deployments[d]
    BY <1>1, <1>6 DEF Superseded, ActiveIn
  <2>2. \A d \in DOMAIN deployments' \ DOMAIN deployments : ~Ran(deployments'[d])
                                                 /\ deployments'[d].env # "production"
    BY <1>1, <1>2, <1>6 DEF Ran
  <2>3. Promoted' = Promoted
    BY <2>2, NoneAdded
  <2>4. ActiveIn("production")' = ActiveIn("production")
    BY <1>1, <2>1, <2>2, RunsKept DEF ActiveIn
  <2>5. Serving' = Serving
    BY <1>4, <2>1, <2>4, ServingIs DEF ActiveIn
  <2>. QED  BY <1>6, <2>3, <2>5
<1>. QED  BY <1>5, <1>6

LEMMA RegisterIs ==
  /\ Register!Init <=> Serving = 0 /\ Approved = {} /\ Promoted = {}
  /\ Register!Stop <=> Serving' = 0 /\ UNCHANGED <<Approved, Promoted>>
  /\ \A v : Register!Approve(v) <=> /\ Approved' = Approved \cup {v}
                                    /\ UNCHANGED <<Serving, Promoted>>
  /\ \A v : Register!Promote(v) <=> /\ v \in Approved
                                    /\ Serving' = v
                                    /\ Promoted' = Promoted \cup {v}
                                    /\ UNCHANGED Approved
  /\ \A v : Register!Return(v) <=> /\ v \in Promoted
                                   /\ Serving' = v
                                   /\ UNCHANGED <<Approved, Promoted>>
BY DEF Register!Init, Register!Stop, Register!Approve,
       Register!Promote, Register!Return, Serving, Approved, Promoted

LEMMA Stutters ==
  ASSUME Serving' = Serving, Approved' = Approved, Promoted' = Promoted
  PROVE  UNCHANGED Register!vars
BY DEF Register!vars, Serving, Approved, Promoted

LEMMA QuietStutters ==
  ASSUME UNCHANGED <<deployments, approvals>>
  PROVE  UNCHANGED Register!vars
<1>1. Serving' = Serving /\ Approved' = Approved /\ Promoted' = Promoted
  BY DEF Serving, Approved, Promoted, ActiveIn, Ran
<1>. QED  BY <1>1, Stutters

LEMMA AuthorImplements ==
  ASSUME IInv, IInv', HistoryKept, Author
  PROVE  UNCHANGED Register!vars
<1>1. ASSUME NEW v \in 1..MaxVersions, NEW key \in MaybeKey, DeploySandbox(v, key)
      PROVE  UNCHANGED Register!vars
  <2>. DEFINE row == Deployment(v, "sandbox", OperationKey("sandbox_deploy", key))
  <2>1. v \in DOMAIN versions /\ Hash(v) \in Hashes
    BY <1>1, Tables DEF IInv, DeploySandbox
  <2>2. row \in DeploymentRow /\ row.env = "sandbox" /\ row.status = "active"
    BY <2>1 DEF Deployment, DeploymentRow, OperationKey, Operations,
                Environments, DeploymentStatus
  <2>3. deployments' = Activated(row) /\ UNCHANGED approvals
    BY <1>1 DEF DeploySandbox
  <2>. HIDE DEF row
  <2>4. Serving' = Serving /\ Promoted' = Promoted
    BY <2>2, <2>3, ActivationServes
  <2>5. Approved' = Approved
    BY <2>3 DEF Approved
  <2>. QED  BY <2>4, <2>5, Stutters
<1>2. ASSUME NEW v \in 1..MaxVersions, NEW t \in 1..MaxTests,
             NEW requester \in Subjects, NEW approver \in Subjects,
             NEW key \in MaybeKey,
             RequestApproval(v, t, requester, approver, key)
      PROVE  UNCHANGED Register!vars
  <2>. DEFINE row == [version |-> v, hash |-> Hash(v), test |-> t,
                      status |-> "pending", requester |-> requester,
                      approver |-> approver, key |-> key]
              n == Len(approvals) + 1
  <2>1. v \in DOMAIN versions /\ Hash(v) \in Hashes /\ t \in Nat
    BY <1>2, Tables DEF IInv, RequestApproval
  <2>2. row \in ApprovalRow /\ approvals \in Seq(ApprovalRow)
        /\ approvals' = Append(approvals, row) /\ row.status = "pending"
    BY <1>2, <2>1, Tables DEF IInv, ApprovalRow, RequestApproval
  <2>. HIDE DEF row
  <2>3. /\ DOMAIN approvals' = DOMAIN approvals \cup {n}
        /\ \A a \in DOMAIN approvals : approvals'[a] = approvals[a]
        /\ approvals'[n] = row
    BY <2>2, Appended
  <2>4. \A w : w \in Approved' <=> w \in Approved
    BY <2>2, <2>3 DEF Approved
  <2>5. Serving' = Serving /\ Promoted' = Promoted
    BY <1>2 DEF RequestApproval, Serving, Promoted, ActiveIn, Ran
  <2>6. Approved' = Approved
    BY <2>4
  <2>. QED  BY <2>5, <2>6, Stutters
<1>3. ASSUME NEW content, UpdateDraft(content)
      PROVE  UNCHANGED Register!vars
  BY <1>3, QuietStutters DEF UpdateDraft
<1>4. ASSUME NEW key, PublishVersion(key)
      PROVE  UNCHANGED Register!vars
  BY <1>4, QuietStutters DEF PublishVersion
<1>5. ASSUME NEW v, NEW d, NEW passed, NEW key, RunTests(v, d, passed, key)
      PROVE  UNCHANGED Register!vars
  BY <1>5, QuietStutters DEF RunTests
<1>. QED  BY <1>1, <1>2, <1>3, <1>4, <1>5 DEF Author

LEMMA ApproverImplements ==
  ASSUME IInv, NEW a, NEW actor, NEW approve \in BOOLEAN,
         DecideApproval(a, actor, approve)
  PROVE  [Register!Next]_Register!vars
<1>. DEFINE verdict == IF approve THEN "approved" ELSE "rejected"
            row == [approvals[a] EXCEPT !.status = verdict]
            v == approvals[a].version
<1>1. a \in DOMAIN approvals /\ approvals[a].status = "pending"
      /\ approvals' = [approvals EXCEPT ![a] = row]
  BY DEF DecideApproval
<1>2. approvals \in Seq(ApprovalRow) /\ approvals[a] \in ApprovalRow
  BY <1>1, Tables, Rows DEF IInv
<1>3. row.status = verdict /\ row.version = v /\ v \in 1..MaxVersions
  BY <1>2 DEF ApprovalRow
<1>. HIDE DEF row
<1>4. DOMAIN approvals' = DOMAIN approvals /\ approvals'[a] = row
      /\ \A b \in DOMAIN approvals \ {a} : approvals'[b] = approvals[b]
  BY <1>1, <1>2
<1>5. Serving' = Serving /\ Promoted' = Promoted
  BY DEF DecideApproval, Serving, Promoted, ActiveIn, Ran
<1>6. CASE approve
  <2>1. \A w : w \in Approved' <=> w \in Approved \/ w = v
    BY <1>1, <1>3, <1>4, <1>6 DEF Approved
  <2>2. PICK w \in 1..MaxVersions : Approved' = Approved \cup {w}
    BY <1>3, <2>1
  <2>3. Register!Approve(w)
    BY <1>5, <2>2, RegisterIs
  <2>. QED  BY <1>3, <2>3 DEF Register!Next
<1>7. CASE ~approve
  <2>1. \A w : w \in Approved' <=> w \in Approved
    BY <1>1, <1>3, <1>4, <1>7 DEF Approved
  <2>2. Approved' = Approved
    BY <2>1
  <2>. QED  BY <1>5, <2>2, Stutters
<1>. QED  BY <1>6, <1>7

LEMMA FailureImplements ==
  ASSUME IInv, IInv', HistoryKept, NEW row \in DeploymentRow,
         deployments' = Failed(row)
  PROVE  Serving' = Serving /\ Promoted' = Promoted
<1>. DEFINE n == Len(deployments) + 1
            c == Latest(ActiveIn("production"))
            new == [row EXCEPT !.status = "failed", !.previous = c]
<1>1. c \in Nat
  BY TheActive DEF IInv, Environments
<1>2. new \in DeploymentRow /\ new.status = "failed"
  BY <1>1 DEF DeploymentRow, DeploymentStatus
<1>3. deployments \in Seq(DeploymentRow) /\ deployments' = Append(deployments, new)
  BY Tables DEF IInv, Failed
<1>. HIDE DEF new
<1>4. /\ DOMAIN deployments' = DOMAIN deployments \cup {n}
      /\ n \notin DOMAIN deployments
      /\ \A d \in DOMAIN deployments : deployments'[d] = deployments[d]
      /\ deployments'[n] = new
  BY <1>2, <1>3, Appended
<1>. HIDE DEF n, c
<1>5. Promoted' = Promoted
  BY <1>2, <1>4, NoneAdded DEF Ran
<1>6. ActiveIn("production")' = ActiveIn("production")
  BY <1>2, <1>4 DEF ActiveIn
<1>7. Latest(ActiveIn("production"))' = Latest(ActiveIn("production"))
  BY <1>6 DEF Latest
<1>8. Latest(ActiveIn("production")) # 0 =>
        Latest(ActiveIn("production")) \in DOMAIN deployments
  BY TheActive DEF IInv, Environments, ActiveIn
<1>. QED  BY <1>4, <1>5, <1>7, <1>8 DEF Serving

LEMMA PromotionImplements ==
  ASSUME IInv, IInv', HistoryKept, NEW v \in 1..MaxVersions,
         NEW t \in 1..MaxTests, NEW a \in 1..MaxApprovals,
         NEW key \in MaybeKey, DeployProduction(v, t, a, key)
  PROVE  [Register!Next]_Register!vars
<1>. DEFINE bare == Deployment(v, "production",
                               OperationKey("production_deploy", key))
            row == [bare EXCEPT !.test = t, !.approval = a]
<1>1. v \in DOMAIN versions /\ Hash(v) \in Hashes
  BY Tables DEF IInv, DeployProduction
<1>2. bare \in DeploymentRow /\ bare.version = v
      /\ bare.env = "production" /\ bare.status = "active"
  BY <1>1 DEF Deployment, DeploymentRow, OperationKey, Operations,
              Environments, DeploymentStatus, IInv, TypeOK
<1>3. \/ deployments' = Failed(row)
      \/ deployments' = deployments
      \/ ProductionChecks(v, t, a) /\ deployments' = Activated(row)
  BY DEF DeployProduction
<1>. HIDE DEF bare
<1>4. row \in DeploymentRow /\ row.version = v
      /\ row.env = "production" /\ row.status = "active"
  <2>1. t \in Nat /\ a \in Nat
    OBVIOUS
  <2>. QED  BY <1>2, <2>1 DEF DeploymentRow
<1>. HIDE DEF row
<1>5. UNCHANGED approvals /\ Approved' = Approved
  BY DEF DeployProduction, Approved
<1>6. CASE deployments' = Failed(row)
  BY <1>4, <1>5, <1>6, FailureImplements, Stutters
<1>7. CASE deployments' = deployments
  BY <1>5, <1>7, QuietStutters
<1>8. CASE ProductionChecks(v, t, a) /\ deployments' = Activated(row)
  <2>1. a \in DOMAIN approvals /\ approvals[a].status = "approved"
        /\ approvals[a].hash = Hash(v)
    BY <1>8 DEF ProductionChecks, ApprovalChecks
  <2>2. approvals[a].version = v
    BY <2>1 DEF IInv, FourEyes, Hash
  <2>3. v \in Approved
    BY <2>1, <2>2 DEF Approved
  <2>4. Serving' = v /\ Promoted' = Promoted \cup {v}
    BY <1>4, <1>8, ActivationServes
  <2>5. Register!Promote(v)
    BY <1>5, <2>3, <2>4, RegisterIs
  <2>. QED  BY <2>5 DEF Register!Next
<1>. QED  BY <1>3, <1>6, <1>7, <1>8

LEMMA RollbackImplements ==
  ASSUME IInv, IInv', HistoryKept, NEW d \in 1..MaxDeployments,
         NEW key \in MaybeKey, RollbackProduction(d, key)
  PROVE  [Register!Next]_Register!vars
<1>. DEFINE back == deployments[d]
            row == [back EXCEPT !.status = "active",
                      !.key = OperationKey("production_rollback", key)]
            v == back.version
<1>1. d \in DOMAIN deployments /\ Ran(back) /\ back.env = "production"
  BY DEF RollbackProduction, ReturnsTo, Ran
<1>2. back \in DeploymentRow
  BY <1>1, Tables DEF IInv
<1>3. row \in DeploymentRow /\ row.version = v /\ v \in 1..MaxVersions
      /\ row.env = "production" /\ row.status = "active"
  BY <1>1, <1>2 DEF DeploymentRow, OperationKey, Operations, DeploymentStatus
<1>4. deployments' = Activated(row) /\ UNCHANGED approvals
  BY DEF RollbackProduction
<1>5. v \in Promoted
  BY <1>1 DEF Promoted
<1>. HIDE DEF row, back
<1>6. Serving' = v /\ Promoted' = Promoted \cup {v}
  BY <1>3, <1>4, ActivationServes
<1>7. Register!Return(v)
  BY <1>4, <1>5, <1>6, RegisterIs DEF Approved
<1>. QED  BY <1>3, <1>7 DEF Register!Next

LEMMA DisableImplements ==
  ASSUME IInv, IInv', HistoryKept, Disable
  PROVE  Register!Stop
<1>1. ActiveIn("production")' = {}
  BY DEF IInv, DisabledIsStopped, Disable, Environments
<1>2. Serving' = 0
  BY <1>1 DEF Serving, Latest
<1>3. Promoted' = Promoted
  BY NoneAdded DEF Disable
<1>. QED  BY <1>2, <1>3, RegisterIs DEF Approved, Disable

(* Whatever is published, tested, approved, promoted, rolled back, disabled *)
(* or routed, production is the abstract register.                          *)
THEOREM WorkflowImplementsRegister == Spec => ImplementsRegister
<1>1. Init => Register!Init
  <2>. SUFFICES ASSUME Init PROVE Register!Init
    OBVIOUS
  <2>1. ActiveIn("production") = {} /\ Approved = {} /\ Promoted = {}
    BY DEF Init, ActiveIn, Approved, Promoted
  <2>. QED  BY <2>1, RegisterIs DEF Serving, Latest
<1>2. IInv /\ IInv' /\ [Next]_vars => [Register!Next]_Register!vars
  <2>. SUFFICES ASSUME IInv, IInv', [Next]_vars
                PROVE  [Register!Next]_Register!vars
    OBVIOUS
  <2>1. HistoryKept
    BY StepKeeps
  <2>2. CASE Author
    BY <2>1, <2>2, AuthorImplements
  <2>3. CASE Approver
    BY <2>3, ApproverImplements DEF Approver
  <2>4. CASE Deployer
    BY <2>1, <2>4, PromotionImplements, RollbackImplements DEF Deployer
  <2>5. CASE Disable
    BY <2>1, <2>5, DisableImplements DEF Register!Next
  <2>6. CASE Enable
    BY <2>6, QuietStutters DEF Enable
  <2>7. ASSUME NEW b, Restart(b) PROVE UNCHANGED Register!vars
    BY <2>7, QuietStutters DEF Restart
  <2>8. ASSUME NEW s, RouteCheck(s) \/ RouteFind(s) \/ RoutePin(s)
        PROVE  UNCHANGED Register!vars
    BY <2>8, QuietStutters DEF RouteCheck, RouteFind, RoutePin
  <2>9. CASE UNCHANGED vars
    BY <2>9, QuietStutters DEF vars
  <2>. QED
    BY <2>2, <2>3, <2>4, <2>5, <2>6, <2>7, <2>8, <2>9 DEF Next
<1>. QED
  BY <1>1, <1>2, Invariance, PTL DEF Spec, ImplementsRegister, Register!Spec

-----------------------------------------------------------------------------
(* What a step does to the deployments: it appends a row whose key is new, *)
(* activated or failed, or stops them all, or leaves them alone.           *)
Blank == [operation : Operations, key : {None}]
FreshKey(key) == key \in Blank \/ NewKey(deployments, key)
Activates(row) ==
  row.status = "active" /\ FreshKey(row.key) /\ deployments' = Activated(row)
Fails(row) == FreshKey(row.key) /\ deployments' = Failed(row)

LEMMA Fresh ==
  ASSUME NEW operation \in Operations, NEW key, Unkeyed(operation, key)
  PROVE  FreshKey(OperationKey(operation, key))
BY DEF Unkeyed, FreshKey, OperationKey, Blank

LEMMA SandboxDeploys ==
  ASSUME IInv, NEW v \in 1..MaxVersions, NEW key \in MaybeKey,
         DeploySandbox(v, key)
  PROVE  \E row \in DeploymentRow : Activates(row)
<1>. DEFINE k == OperationKey("sandbox_deploy", key)
            row == Deployment(v, "sandbox", k)
<1>1. Hash(v) \in Hashes /\ v \in 1..MaxVersions
  BY Tables DEF IInv, DeploySandbox
<1>2. row \in DeploymentRow /\ row.status = "active" /\ row.key = k
  BY <1>1 DEF Deployment, DeploymentRow, OperationKey, Operations,
              Environments, DeploymentStatus
<1>3. FreshKey(k)
  BY Fresh DEF DeploySandbox, Operations
<1>4. deployments' = Activated(row)
  BY DEF DeploySandbox
<1>. HIDE DEF row
<1>. QED  BY <1>2, <1>3, <1>4 DEF Activates

LEMMA PromotionDeploys ==
  ASSUME IInv, NEW v \in 1..MaxVersions, NEW t \in 1..MaxTests,
         NEW a \in 1..MaxApprovals, NEW key \in MaybeKey,
         DeployProduction(v, t, a, key)
  PROVE  \/ deployments' = deployments
         \/ \E row \in DeploymentRow : Activates(row) \/ Fails(row)
<1>. DEFINE k == OperationKey("production_deploy", key)
            bare == Deployment(v, "production", k)
            row == [bare EXCEPT !.test = t, !.approval = a]
<1>1. v \in DOMAIN versions /\ Hash(v) \in Hashes
  BY Tables DEF IInv, DeployProduction
<1>2. bare \in DeploymentRow /\ bare.status = "active" /\ bare.key = k
  BY <1>1 DEF Deployment, DeploymentRow, OperationKey, Operations,
              Environments, DeploymentStatus, IInv, TypeOK
<1>3. \/ deployments' = Failed(row)
      \/ deployments' = deployments
      \/ deployments' = Activated(row)
  BY DEF DeployProduction
<1>4. FreshKey(k)
  BY Fresh DEF DeployProduction, Operations
<1>. HIDE DEF bare, k
<1>5. row \in DeploymentRow /\ row.status = "active" /\ row.key = k
  <2>1. t \in Nat /\ a \in Nat
    OBVIOUS
  <2>. QED  BY <1>2, <2>1 DEF DeploymentRow
<1>. HIDE DEF row
<1>. QED  BY <1>3, <1>4, <1>5 DEF Activates, Fails

LEMMA RollbackDeploys ==
  ASSUME IInv, NEW d \in 1..MaxDeployments, NEW key \in MaybeKey,
         RollbackProduction(d, key)
  PROVE  \E row \in DeploymentRow : Activates(row)
<1>. DEFINE back == deployments[d]
            k == OperationKey("production_rollback", key)
            row == [back EXCEPT !.status = "active", !.key = k]
<1>1. back \in DeploymentRow
  BY Tables DEF IInv, RollbackProduction
<1>2. row \in DeploymentRow /\ row.status = "active" /\ row.key = k
  BY <1>1 DEF DeploymentRow, OperationKey, Operations, DeploymentStatus
<1>3. FreshKey(k)
  BY Fresh DEF RollbackProduction, Operations
<1>4. deployments' = Activated(row)
  BY DEF RollbackProduction
<1>. HIDE DEF row, k
<1>. QED  BY <1>2, <1>3, <1>4 DEF Activates

LEMMA StepDeploys ==
  ASSUME IInv, [Next]_vars
  PROVE  \/ deployments' = deployments
         \/ Disable
         \/ \E row \in DeploymentRow : Activates(row) \/ Fails(row)
<1>1. CASE Author
  <2>1. ASSUME NEW v \in 1..MaxVersions, NEW key \in MaybeKey, DeploySandbox(v, key)
        PROVE  \E row \in DeploymentRow : Activates(row)
    BY <2>1, SandboxDeploys
  <2>2. ASSUME NEW content, UpdateDraft(content) PROVE deployments' = deployments
    BY <2>2 DEF UpdateDraft
  <2>3. ASSUME NEW key, PublishVersion(key) PROVE deployments' = deployments
    BY <2>3 DEF PublishVersion
  <2>4. ASSUME NEW v, NEW d, NEW passed, NEW key, RunTests(v, d, passed, key)
        PROVE  deployments' = deployments
    BY <2>4 DEF RunTests
  <2>5. ASSUME NEW v, NEW t, NEW requester, NEW approver, NEW key,
               RequestApproval(v, t, requester, approver, key)
        PROVE  deployments' = deployments
    BY <2>5 DEF RequestApproval
  <2>. QED  BY <1>1, <2>1, <2>2, <2>3, <2>4, <2>5 DEF Author
<1>2. CASE Deployer
  BY <1>2, PromotionDeploys, RollbackDeploys DEF Deployer
<1>3. CASE Approver
  BY <1>3 DEF Approver, DecideApproval
<1>4. CASE Enable \/ UNCHANGED vars
  BY <1>4 DEF Enable, vars
<1>5. ASSUME NEW b, Restart(b) PROVE deployments' = deployments
  BY <1>5 DEF Restart
<1>6. ASSUME NEW s, RouteCheck(s) \/ RouteFind(s) \/ RoutePin(s)
      PROVE  deployments' = deployments
  BY <1>6 DEF RouteCheck, RouteFind, RoutePin
<1>. QED  BY <1>1, <1>2, <1>3, <1>4, <1>5, <1>6 DEF Next

(* A failed row is appended, and changes no other.                         *)
LEMMA Failing ==
  ASSUME TypeOK, OneActive, NEW row \in DeploymentRow, deployments' = Failed(row)
  PROVE  LET n == Len(deployments) + 1 IN
         /\ Len(deployments') = n
         /\ DOMAIN deployments' = DOMAIN deployments \cup {n}
         /\ n \notin DOMAIN deployments
         /\ \A d \in DOMAIN deployments : deployments'[d] = deployments[d]
         /\ deployments'[n].status = "failed"
         /\ deployments'[n].key = row.key
<1>. DEFINE c == Latest(ActiveIn("production"))
            new == [row EXCEPT !.status = "failed", !.previous = c]
<1>1. c \in Nat
  BY TheActive DEF Environments
<1>2. new \in DeploymentRow /\ new.status = "failed" /\ new.key = row.key
  BY <1>1 DEF DeploymentRow, DeploymentStatus
<1>3. deployments \in Seq(DeploymentRow) /\ deployments' = Append(deployments, new)
  BY Tables DEF Failed
<1>. HIDE DEF new
<1>. QED  BY <1>2, <1>3, Appended

-----------------------------------------------------------------------------
(* Idempotency keys: a row is appended only under a key of its own, and no *)
(* row changes its key.                                                    *)
LEMMA KeyedMore ==
  ASSUME NEW old, NEW new, NEW blank, NEW n,
         DOMAIN new = DOMAIN old \cup {n}, n \notin DOMAIN old,
         \A i \in DOMAIN old : new[i].key = old[i].key,
         new[n].key \in blank \/ NewKey(old, new[n].key),
         Keyed(old, blank)
  PROVE  Keyed(new, blank)
BY DEF Keyed, NewKey

LEMMA KeyedSame ==
  ASSUME NEW old, NEW new, NEW blank, DOMAIN new = DOMAIN old,
         \A i \in DOMAIN old : new[i].key = old[i].key, Keyed(old, blank)
  PROVE  Keyed(new, blank)
BY DEF Keyed

LEMMA KeyedAppend ==
  ASSUME NEW S, NEW table \in Seq(S), NEW row \in S,
         row.key = None \/ NewKey(table, row.key), Keyed(table, {None})
  PROVE  Keyed(Append(table, row), {None})
<1>. DEFINE new == Append(table, row)
            n == Len(table) + 1
<1>1. /\ DOMAIN new = DOMAIN table \cup {n} /\ n \notin DOMAIN table
      /\ \A i \in DOMAIN table : new[i] = table[i]
      /\ new[n] = row
  BY Appended
<1>. HIDE DEF new, n
<1>2. Keyed(new, {None})
  BY <1>1, KeyedMore
<1>. QED  BY <1>2 DEF new

LEMMA DeploymentKeys ==
  ASSUME IInv, [Next]_vars, Keyed(deployments, Blank)
  PROVE  Keyed(deployments', Blank)
<1>. DEFINE n == Len(deployments) + 1
<1>1. \A d \in DOMAIN deployments : deployments[d] \in DeploymentRow
  BY Tables DEF IInv
<1>2. ASSUME NEW row \in DeploymentRow, Activates(row)
      PROVE  Keyed(deployments', Blank)
  <2>1. /\ DOMAIN deployments' = DOMAIN deployments \cup {n}
        /\ n \notin DOMAIN deployments
        /\ \A d \in DOMAIN deployments : deployments'[d] = Superseded(row, d)
        /\ deployments'[n] = [row EXCEPT !.previous = Latest(ActiveIn(row.env))]
    BY <1>2, Activating DEF IInv, Activates
  <2>2. deployments'[n].key = row.key
    BY <2>1 DEF DeploymentRow
  <2>3. \A d \in DOMAIN deployments : deployments'[d].key = deployments[d].key
    BY <1>1, <2>1 DEF Superseded, DeploymentRow
  <2>. HIDE DEF n
  <2>. QED  BY <1>2, <2>1, <2>2, <2>3, KeyedMore DEF Activates, FreshKey
<1>3. ASSUME NEW row \in DeploymentRow, Fails(row)
      PROVE  Keyed(deployments', Blank)
  <2>1. /\ DOMAIN deployments' = DOMAIN deployments \cup {n}
        /\ n \notin DOMAIN deployments
        /\ \A d \in DOMAIN deployments : deployments'[d] = deployments[d]
        /\ deployments'[n].key = row.key
    BY <1>3, Failing DEF IInv, Fails
  <2>. HIDE DEF n
  <2>. QED  BY <1>3, <2>1, KeyedMore DEF Fails, FreshKey
<1>4. CASE Disable
  <2>1. DOMAIN deployments' = DOMAIN deployments
        /\ \A d \in DOMAIN deployments : deployments'[d] = Stopped(deployments[d])
    BY <1>4 DEF Disable
  <2>2. \A d \in DOMAIN deployments : deployments'[d].key = deployments[d].key
    BY <1>1, <2>1 DEF Stopped, DeploymentRow
  <2>. QED  BY <2>1, <2>2, KeyedSame
<1>. QED  BY <1>2, <1>3, <1>4, StepDeploys

LEMMA VersionKeys ==
  ASSUME IInv, NEW key \in MaybeKey, PublishVersion(key), Keyed(versions, {None})
  PROVE  Keyed(versions', {None})
<1>. DEFINE row == [content |-> draft, key |-> key]
            S == [content : Contents, key : MaybeKey]
<1>1. versions \in Seq(S) /\ row \in S /\ versions' = Append(versions, row)
      /\ (row.key = None \/ NewKey(versions, row.key))
  BY DEF IInv, TypeOK, PublishVersion
<1>. HIDE DEF row, S
<1>. QED  BY <1>1, KeyedAppend

LEMMA TestKeys ==
  ASSUME IInv, NEW v \in 1..MaxVersions, NEW d \in 1..MaxDeployments,
         NEW passed \in BOOLEAN, NEW key \in MaybeKey,
         RunTests(v, d, passed, key), Keyed(tests, {None})
  PROVE  Keyed(tests', {None})
<1>. DEFINE row == [version |-> v, hash |-> Hash(v), deployment |-> d,
                    passed |-> passed, key |-> key]
<1>1. v \in DOMAIN versions /\ Hash(v) \in Hashes /\ d \in Nat
  BY Tables DEF IInv, RunTests
<1>2. row \in TestRow /\ tests \in Seq(TestRow) /\ tests' = Append(tests, row)
      /\ (row.key = None \/ NewKey(tests, row.key))
  BY <1>1, Tables DEF IInv, TestRow, RunTests
<1>. HIDE DEF row
<1>. QED  BY <1>2, KeyedAppend

LEMMA RequestKeys ==
  ASSUME IInv, NEW v \in 1..MaxVersions, NEW t \in 1..MaxTests,
         NEW requester \in Subjects, NEW approver \in Subjects,
         NEW key \in MaybeKey, RequestApproval(v, t, requester, approver, key),
         Keyed(approvals, {None})
  PROVE  Keyed(approvals', {None})
<1>. DEFINE row == [version |-> v, hash |-> Hash(v), test |-> t,
                    status |-> "pending", requester |-> requester,
                    approver |-> approver, key |-> key]
<1>1. v \in DOMAIN versions /\ Hash(v) \in Hashes /\ t \in Nat
  BY Tables DEF IInv, RequestApproval
<1>2. row \in ApprovalRow /\ approvals \in Seq(ApprovalRow)
      /\ approvals' = Append(approvals, row)
      /\ (row.key = None \/ NewKey(approvals, row.key))
  BY <1>1, Tables DEF IInv, ApprovalRow, RequestApproval
<1>. HIDE DEF row
<1>. QED  BY <1>2, KeyedAppend

LEMMA VerdictKeys ==
  ASSUME IInv, NEW a, NEW actor, NEW approve \in BOOLEAN,
         DecideApproval(a, actor, approve), Keyed(approvals, {None})
  PROVE  Keyed(approvals', {None})
<1>1. approvals \in Seq(ApprovalRow)
  BY Tables DEF IInv
<1>2. \A b \in DOMAIN approvals : approvals[b] \in ApprovalRow
  BY <1>1
<1>3. DOMAIN approvals' = DOMAIN approvals
      /\ \A b \in DOMAIN approvals : approvals'[b].key = approvals[b].key
  BY <1>1, <1>2 DEF DecideApproval, ApprovalRow
<1>. QED  BY <1>3, KeyedSame

(* A request repeated under its Idempotency-Key never makes a second row,  *)
(* in any of the four tables.                                              *)
THEOREM KeysStayUnique == Spec => []KeysNameOneRow
<1>1. Init => KeysNameOneRow
  BY DEF Init, KeysNameOneRow, Keyed
<1>2. IInv /\ [Next]_vars /\ KeysNameOneRow => KeysNameOneRow'
  <2>. SUFFICES ASSUME IInv, [Next]_vars, KeysNameOneRow PROVE KeysNameOneRow'
    OBVIOUS
  <2>. DEFINE Rest == /\ Keyed(versions', {None}) /\ Keyed(tests', {None})
                      /\ Keyed(approvals', {None})
  <2>0. /\ Keyed(versions, {None}) /\ Keyed(tests, {None})
        /\ Keyed(approvals, {None})
    BY DEF KeysNameOneRow
  <2>1. ASSUME Author PROVE Rest
    <3>1. ASSUME NEW key \in MaybeKey, PublishVersion(key) PROVE Rest
      BY <2>0, <3>1, VersionKeys DEF PublishVersion
    <3>2. ASSUME NEW v \in 1..MaxVersions, NEW d \in 1..MaxDeployments,
                 NEW passed \in BOOLEAN, NEW key \in MaybeKey,
                 RunTests(v, d, passed, key)
          PROVE  Rest
      BY <2>0, <3>2, TestKeys DEF RunTests
    <3>3. ASSUME NEW v \in 1..MaxVersions, NEW t \in 1..MaxTests,
                 NEW requester \in Subjects, NEW approver \in Subjects,
                 NEW key \in MaybeKey,
                 RequestApproval(v, t, requester, approver, key)
          PROVE  Rest
      BY <2>0, <3>3, RequestKeys DEF RequestApproval
    <3>4. ASSUME NEW v, NEW key, DeploySandbox(v, key) PROVE Rest
      BY <2>0, <3>4 DEF DeploySandbox
    <3>5. ASSUME NEW content, UpdateDraft(content) PROVE Rest
      BY <2>0, <3>5 DEF UpdateDraft
    <3>. QED  BY <2>1, <3>1, <3>2, <3>3, <3>4, <3>5 DEF Author
  <2>2. ASSUME Approver PROVE Rest
    <3>1. PICK a \in 1..MaxApprovals, actor \in Subjects, approve \in BOOLEAN :
            DecideApproval(a, actor, approve)
      BY <2>2 DEF Approver
    <3>. QED  BY <2>0, <3>1, VerdictKeys DEF DecideApproval
  <2>3. ASSUME Deployer PROVE Rest
    BY <2>0, <2>3 DEF Deployer, DeployProduction, RollbackProduction
  <2>4. ASSUME Disable \/ Enable \/ UNCHANGED vars PROVE Rest
    BY <2>0, <2>4 DEF Disable, Enable, vars
  <2>5. ASSUME NEW b, Restart(b) PROVE Rest
    BY <2>0, <2>5 DEF Restart
  <2>6. ASSUME NEW s, RouteCheck(s) \/ RouteFind(s) \/ RoutePin(s) PROVE Rest
    BY <2>0, <2>6 DEF RouteCheck, RouteFind, RoutePin
  <2>7. Rest
    BY <2>1, <2>2, <2>3, <2>4, <2>5, <2>6 DEF Next
  <2>8. Keyed(deployments', Blank)
    BY DeploymentKeys DEF KeysNameOneRow, Blank
  <2>. QED  BY <2>7, <2>8 DEF KeysNameOneRow, Blank
<1>. QED  BY <1>1, <1>2, Invariance, PTL DEF Spec

(* What is to be unique is: an environment's active deployment, and the    *)
(* row of a key, whatever requests are made and repeated.                  *)
THEOREM RowsStayUnique == Spec => []UniqueRows
<1>1. OneActive /\ KeysNameOneRow => UniqueRows
  BY DEF UniqueRows
<1>. QED  BY <1>1, OneActiveDeployment, KeysStayUnique, PTL

-----------------------------------------------------------------------------
(* A route finds a deployment only if one is active, which none is once    *)
(* the workflow is disabled.                                               *)
THEOREM RoutesFindEnabled == Spec => FoundWhileEnabled
<1>. DEFINE Finds == \A s \in Starters :
              starter[s].pc = "checked" /\ starter'[s].pc = "found" => enabled
<1>1. IInv /\ [Next]_vars => Finds
  <2>. SUFFICES ASSUME IInv, [Next]_vars, NEW s \in Starters,
                       starter[s].pc = "checked", starter'[s].pc = "found"
                PROVE  enabled
    OBVIOUS
  <2>1. starter \in [Starters -> [pc : {"idle", "checked", "found"}, deployment : Nat]]
    BY DEF IInv, TypeOK
  <2>2. starter' # starter
    OBVIOUS
  <2>3. PICK q \in Starters : RouteFind(q)
    <3>1. ~Author
      <4>1. \A content, key, v : /\ ~UpdateDraft(content) /\ ~PublishVersion(key)
                                 /\ ~DeploySandbox(v, key)
        BY <2>2 DEF UpdateDraft, PublishVersion, DeploySandbox
      <4>2. \A v, d, passed, key : ~RunTests(v, d, passed, key)
        BY <2>2 DEF RunTests
      <4>3. \A v, t, requester, approver, key :
              ~RequestApproval(v, t, requester, approver, key)
        BY <2>2 DEF RequestApproval
      <4>. QED  BY <4>1, <4>2, <4>3 DEF Author
    <3>2. ~Approver /\ ~Disable /\ ~Enable
      BY <2>2 DEF Approver, DecideApproval, Disable, Enable
    <3>3. ~Deployer
      BY <2>2 DEF Deployer, DeployProduction, RollbackProduction
    <3>4. \A b : ~Restart(b)
      BY DEF Restart, Idle
    <3>5. \A q \in Starters : ~RouteCheck(q) /\ ~RoutePin(q)
      BY <2>1 DEF RouteCheck, RoutePin, Idle
    <3>. QED  BY <2>2, <3>1, <3>2, <3>3, <3>4, <3>5 DEF Next, vars
  <2>4. q = s
    BY <2>1, <2>3 DEF RouteFind
  <2>5. Latest(ActiveIn("production")) # 0
    BY <2>1, <2>3, <2>4 DEF RouteFind, Idle
  <2>6. ActiveIn("production") # {}
    BY <2>5 DEF Latest
  <2>. QED  BY <2>6 DEF IInv, DisabledIsStopped, Environments
<1>2. IInv /\ [Next]_vars => [Finds]_vars
  BY <1>1
<1>. HIDE DEF Finds
<1>3. Spec => [][Finds]_vars
  BY <1>2, Invariance, PTL DEF Spec
<1>. QED  BY <1>3 DEF Finds, FoundWhileEnabled

-----------------------------------------------------------------------------
(* The chain of predecessors: a row keeps the one it names and its         *)
(* environment, and it failed from the start or never.                     *)
Succeeds(e, d) ==
  /\ deployments[e].previous = d
  /\ deployments[e].env = deployments[d].env
  /\ deployments[e].status # "failed"

LEMMA ChainKept ==
  ASSUME IInv, HistoryKept, NEW d \in DOMAIN deployments,
         NEW e \in DOMAIN deployments, Succeeds(e, d)
  PROVE  Succeeds(e, d)'
<1>1. deployments[d] \in DeploymentRow /\ deployments[e] \in DeploymentRow
  BY Tables DEF IInv
<1>2. /\ deployments'[d] \in Kept(deployments[d])
      /\ deployments'[e] \in Kept(deployments[e])
  BY DEF HistoryKept
<1>. QED  BY <1>1, <1>2 DEF Succeeds, Kept, DeploymentRow

(* Whatever is superseded is so by the step that activates its successor.  *)
LEMMA SuccessionStep ==
  ASSUME IInv, [Next]_vars, SupersededBySuccessor
  PROVE  SupersededBySuccessor'
<1>. DEFINE n == Len(deployments) + 1
<1>1. /\ HistoryKept
      /\ \A d \in DOMAIN deployments : deployments[d] \in DeploymentRow
      /\ DOMAIN deployments = 1..Len(deployments) /\ Len(deployments) \in Nat
  BY StepKeeps, Tables DEF IInv
<1>2. DOMAIN deployments' = 1..Len(deployments') /\ Len(deployments') \in Nat
  <2>1. IInv'
    BY StepKeeps
  <2>2. \A S : deployments' \in Seq(S) =>
          DOMAIN deployments' = 1..Len(deployments') /\ Len(deployments') \in Nat
    OBVIOUS
  <2>. QED  BY <2>1, <2>2 DEF IInv, TypeOK
<1>3. SUFFICES ASSUME NEW d \in DOMAIN deployments',
                      deployments'[d].status = "superseded"
               PROVE  \E e \in DOMAIN deployments' : e > d /\ Succeeds(e, d)'
  BY <1>2 DEF SupersededBySuccessor, Succeeds
<1>4. ASSUME d \in DOMAIN deployments, deployments[d].status = "superseded"
      PROVE  \E e \in DOMAIN deployments' : e > d /\ Succeeds(e, d)'
  <2>1. PICK e \in DOMAIN deployments : e > d /\ Succeeds(e, d)
    BY <1>1, <1>4 DEF SupersededBySuccessor, Succeeds
  <2>2. e \in DOMAIN deployments' /\ Succeeds(e, d)'
    BY <1>1, <1>4, <2>1, ChainKept DEF HistoryKept
  <2>. QED  BY <2>1, <2>2
<1>5. ASSUME NEW row \in DeploymentRow, Activates(row)
      PROVE  \E e \in DOMAIN deployments' : e > d /\ Succeeds(e, d)'
  <2>1. /\ DOMAIN deployments' = DOMAIN deployments \cup {n}
        /\ n \notin DOMAIN deployments
        /\ \A c \in DOMAIN deployments : deployments'[c] = Superseded(row, c)
        /\ deployments'[n] = [row EXCEPT !.previous = Latest(ActiveIn(row.env))]
    BY <1>5, Activating DEF IInv, Activates
  <2>2. /\ deployments'[n].status = "active" /\ deployments'[n].env = row.env
        /\ deployments'[n].previous = Latest(ActiveIn(row.env))
    BY <1>5, <2>1 DEF DeploymentRow, Activates
  <2>3. d \in DOMAIN deployments /\ deployments'[d] = Superseded(row, d)
    BY <1>3, <2>1, <2>2
  <2>4. CASE d \in ActiveIn(row.env)
    <3>1. row.env \in Environments
      BY DEF DeploymentRow
    <3>2. d = Latest(ActiveIn(row.env))
      BY <2>4, <3>1, TheActive DEF IInv
    <3>3. deployments'[d].env = row.env
      BY <1>1, <2>3, <2>4 DEF Superseded, ActiveIn, DeploymentRow
    <3>4. n > d /\ n \in DOMAIN deployments'
      BY <1>1, <2>1, <2>3
    <3>. HIDE DEF n
    <3>. QED  BY <2>2, <3>2, <3>3, <3>4 DEF Succeeds
  <2>5. CASE d \notin ActiveIn(row.env)
    BY <1>3, <1>4, <2>3, <2>5 DEF Superseded
  <2>. QED  BY <2>4, <2>5
<1>6. ASSUME NEW row \in DeploymentRow, Fails(row)
      PROVE  \E e \in DOMAIN deployments' : e > d /\ Succeeds(e, d)'
  BY <1>3, <1>4, <1>6, Failing DEF IInv, Fails
<1>7. CASE Disable
  BY <1>1, <1>3, <1>4, <1>7 DEF Disable, Stopped, DeploymentRow
<1>8. CASE deployments' = deployments
  BY <1>3, <1>4, <1>8
<1>. QED  BY <1>5, <1>6, <1>7, <1>8, StepDeploys

(* No step but Disable leaves production without a deployment it had.      *)
LEMMA ServiceStep ==
  ASSUME IInv, [Next]_vars, enabled', ActiveIn("production") # {}
  PROVE  ActiveIn("production")' # {}
<1>. DEFINE n == Len(deployments) + 1
<1>1. PICK d \in DOMAIN deployments :
        deployments[d].env = "production" /\ deployments[d].status = "active"
  BY DEF ActiveIn
<1>2. ASSUME NEW row \in DeploymentRow, Activates(row)
      PROVE  ActiveIn("production")' # {}
  <2>1. /\ DOMAIN deployments' = DOMAIN deployments \cup {n}
        /\ \A c \in DOMAIN deployments : deployments'[c] = Superseded(row, c)
        /\ deployments'[n] = [row EXCEPT !.previous = Latest(ActiveIn(row.env))]
    BY <1>2, Activating DEF IInv, Activates
  <2>2. deployments'[n].status = "active" /\ deployments'[n].env = row.env
    BY <1>2, <2>1 DEF DeploymentRow, Activates
  <2>3. CASE row.env = "production"
    BY <2>1, <2>2, <2>3 DEF ActiveIn
  <2>4. CASE row.env # "production"
    <3>1. deployments'[d] = deployments[d] /\ d \in DOMAIN deployments'
      BY <1>1, <2>1, <2>4 DEF Superseded, ActiveIn
    <3>. QED  BY <1>1, <3>1 DEF ActiveIn
  <2>. QED  BY <2>3, <2>4
<1>3. ASSUME NEW row \in DeploymentRow, Fails(row)
      PROVE  ActiveIn("production")' # {}
  <2>1. deployments'[d] = deployments[d] /\ d \in DOMAIN deployments'
    BY <1>1, <1>3, Failing DEF IInv, Fails
  <2>. QED  BY <1>1, <2>1 DEF ActiveIn
<1>4. CASE deployments' = deployments
  BY <1>1, <1>4 DEF ActiveIn
<1>5. ~Disable
  BY DEF Disable
<1>. QED  BY <1>2, <1>3, <1>4, <1>5, StepDeploys

(* Production stops serving only by being disabled, and the history shows  *)
(* what each superseded deployment gave way to.                            *)
THEOREM ProductionKeepsServing == Spec => ProductionGoesOn
<1>. DEFINE GoesOn == /\ SupersededBySuccessor'
                      /\ enabled' /\ ActiveIn("production") # {} =>
                           ActiveIn("production")' # {}
<1>1. Init => SupersededBySuccessor
  BY DEF Init, SupersededBySuccessor
<1>2. IInv /\ SupersededBySuccessor /\ [Next]_vars =>
        SupersededBySuccessor' /\ [GoesOn]_vars
  BY SuccessionStep, ServiceStep
<1>. HIDE DEF GoesOn
<1>3. Spec => [][GoesOn]_vars
  BY <1>1, <1>2, Invariance, PTL DEF Spec
<1>. QED  BY <1>3 DEF GoesOn, ProductionGoesOn
=============================================================================
