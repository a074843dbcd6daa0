-------------------------- MODULE Scheduler_proofs --------------------------
(***************************************************************************)
(* Theorems about the scheduler, for any actions and gateways and any      *)
(* batch size, dispatch time and staleness with Batch * DispatchTime <     *)
(* StaleAfter; and about the reminders, for any interviews, offsets,       *)
(* channels and requests.                                                  *)
(***************************************************************************)
EXTENDS Reminders, FiniteSetTheorems, TLAPS

Acting == {"succeeded", "erred", "counting"}
Busy == {"dispatching"} \cup Acting

(* What a worker holds: a batch, exactly while it is busy.                 *)
Carries(g) ==
  /\ worker[g].pc \in Busy <=> worker[g].batch # <<>>
  /\ IsInjective(worker[g].batch)
  /\ Len(worker[g].batch) <= Batch
  /\ worker[g].pc = "counting" => worker[g].tried = rows[Current(g)].attempts + 1

(* Its claims are young enough to outlive the rest of the batch.           *)
InTime(g) ==
  \A id \in InHand(g) :
    rows[id].age + Len(worker[g].batch) * DispatchTime - worker[g].spent
      <= Batch * DispatchTime

(* An action that may still be dispatched has an attempt left.             *)
Counted == \A id \in Ids : rows[id].status \in {"none", "pending", "dispatching"}
                             => rows[id].attempts < MaxAttempts

IInv ==
  /\ TypeOK
  /\ ClaimsExclusive
  /\ Counted
  /\ \A g \in Gateways : Carries(g) /\ InTime(g)

-----------------------------------------------------------------------------
LEMMA TailOfBatch ==
  ASSUME NEW s \in Seq(Ids), s # <<>>, IsInjective(s)
  PROVE  /\ Head(s) \in Range(s) /\ Range(s) \subseteq Ids
         /\ Tail(s) \in Seq(Ids) /\ Len(Tail(s)) = Len(s) - 1
         /\ Range(Tail(s)) = Range(s) \ {Head(s)}
         /\ IsInjective(Tail(s))
<1>1. Len(s) \in Nat \ {0} /\ DOMAIN s = 1..Len(s) /\ Head(s) = s[1]
  OBVIOUS
<1>2. Tail(s) \in Seq(Ids) /\ Len(Tail(s)) = Len(s) - 1
      /\ DOMAIN Tail(s) = 1..Len(s) - 1
      /\ \A i \in 1..Len(s) - 1 : Tail(s)[i] = s[i + 1]
  BY <1>1
<1>3. Head(s) \in Range(s) /\ Range(s) \subseteq Ids
  BY <1>1 DEF Range
<1>4. Range(Tail(s)) \subseteq Range(s) \ {Head(s)}
  <2>. SUFFICES ASSUME NEW i \in 1..Len(s) - 1
                PROVE  Tail(s)[i] \in Range(s) /\ Tail(s)[i] # Head(s)
    BY <1>2 DEF Range
  <2>1. i + 1 \in 1..Len(s) /\ i + 1 # 1 /\ 1 \in 1..Len(s)
    BY <1>1
  <2>. QED  BY <1>1, <1>2, <2>1 DEF Range, IsInjective
<1>5. Range(s) \ {Head(s)} \subseteq Range(Tail(s))
  <2>. SUFFICES ASSUME NEW i \in 1..Len(s), s[i] # Head(s)
                PROVE  s[i] \in Range(Tail(s))
    BY <1>1 DEF Range
  <2>1. i - 1 \in 1..Len(s) - 1 /\ (i - 1) + 1 = i
    BY <1>1
  <2>2. Tail(s)[i - 1] = s[i]
    BY <1>2, <2>1
  <2>. QED  BY <1>2, <2>1, <2>2 DEF Range
<1>6. IsInjective(Tail(s))
  <2>. SUFFICES ASSUME NEW i \in 1..Len(s) - 1, NEW j \in 1..Len(s) - 1,
                       Tail(s)[i] = Tail(s)[j]
                PROVE  i = j
    BY <1>2 DEF IsInjective
  <2>1. i + 1 \in 1..Len(s) /\ j + 1 \in 1..Len(s)
    BY <1>1
  <2>2. i + 1 = j + 1
    BY <1>1, <1>2, <2>1 DEF IsInjective
  <2>. QED  BY <1>1, <2>2
<1>. QED  BY <1>2, <1>3, <1>4, <1>5, <1>6

LEMMA Times ==
  ASSUME NEW n \in Nat, NEW d \in Nat
  PROVE  /\ n * d \in Nat
         /\ (n + 1) * d = n * d + d
OBVIOUS

LEMMA TimesLess ==
  ASSUME NEW n \in Nat, NEW m \in Nat, NEW d \in Nat, n <= m
  PROVE  n * d <= m * d
OBVIOUS

(* A claim in somebody's hands does not go stale. *)
LEMMA NotStale ==
  ASSUME IInv, NEW g \in Gateways, NEW id \in InHand(g)
  PROVE  /\ id \in Ids /\ rows[id].status = "dispatching" /\ ~Stale(rows[id])
         /\ worker[g].pc \in Busy
<1>1. worker[g].batch \in Seq(Ids) /\ worker[g].spent \in 0..DispatchTime
  BY DEF IInv, TypeOK
<1>2. worker[g].batch # <<>> /\ id \in Ids
  BY <1>1 DEF InHand, Range
<1>3. rows[id].status = "dispatching" /\ worker[g].pc \in Busy
  BY <1>2 DEF IInv, ClaimsExclusive, Carries
<1>4. rows[id].age \in Nat
  BY <1>2, SchedulerAssumption DEF IInv, TypeOK
<1>. DEFINE n == Len(worker[g].batch)
<1>5. n \in Nat /\ n >= 1
  BY <1>1, <1>2
<1>6. rows[id].age + n * DispatchTime - worker[g].spent <= Batch * DispatchTime
  BY DEF IInv, InTime
<1>7. n * DispatchTime >= DispatchTime /\ n * DispatchTime \in Nat
      /\ Batch * DispatchTime \in Nat
  <2>1. DispatchTime \in Nat /\ Batch \in Nat
    BY SchedulerAssumption
  <2>2. 1 * DispatchTime = DispatchTime
    BY <2>1
  <2>. QED  BY <1>5, <2>1, <2>2, Times, TimesLess
<1>. HIDE DEF n
<1>8. rows[id].age <= Batch * DispatchTime
  BY <1>1, <1>4, <1>6, <1>7, SchedulerAssumption
<1>9. rows[id].age < StaleAfter
  BY <1>4, <1>7, <1>8, SchedulerAssumption
<1>. QED  BY <1>2, <1>3, <1>4, <1>9, SchedulerAssumption DEF Stale

-----------------------------------------------------------------------------
(* Type correctness needs the whole invariant: an attempt is counted only  *)
(* for an action in hand, which is dispatching and has one left.           *)
LEMMA HeadInHand ==
  ASSUME IInv, NEW g \in Gateways, worker[g].pc \in Busy
  PROVE  /\ worker[g].batch \in Seq(Ids) /\ worker[g].batch # <<>>
         /\ Current(g) \in Ids /\ Current(g) \in InHand(g)
         /\ rows[Current(g)].status = "dispatching"
         /\ rows[Current(g)].attempts \in 0..MaxAttempts - 1
<1>1. worker[g].batch \in Seq(Ids) /\ worker[g].batch # <<>>
      /\ IsInjective(worker[g].batch)
  BY DEF IInv, TypeOK, Carries
<1>2. Current(g) \in InHand(g) /\ Current(g) \in Ids
  BY <1>1, TailOfBatch DEF Current, InHand
<1>3. rows[Current(g)].status = "dispatching"
  BY <1>2, NotStale
<1>4. rows[Current(g)].attempts \in 0..MaxAttempts - 1
  BY <1>2, <1>3, SchedulerAssumption DEF IInv, TypeOK, Counted
<1>. QED  BY <1>1, <1>2, <1>3, <1>4

LEMMA BackoffType ==
  ASSUME NEW a \in 1..MaxAttempts
  PROVE  Backoff(a) \in Int
<1>. DEFINE i == IF a < 6 THEN a ELSE 6
<1>1. i \in 1..6
  BY SchedulerAssumption
<1>2. <<2, 4, 8, 16, 32, 64>>[i] \in Nat
  BY <1>1
<1>. HIDE DEF i
<1>3. RetryBase * <<2, 4, 8, 16, 32, 64>>[i] \in Int
  BY <1>2, SchedulerAssumption
<1>. QED  BY <1>3 DEF Backoff, i

WorkerRow == [pc : WorkerPcs, batch : Seq(Ids), tried : 0..MaxAttempts,
              spent : 0..DispatchTime]

LEMMA Params ==
  /\ MaxAttempts \in Nat \ {0} /\ RetryBase \in Nat \ {0}
  /\ StaleAfter \in Nat \ {0} /\ Batch \in Nat \ {0}
  /\ DispatchTime \in Nat \ {0} /\ MaxFaults \in Nat /\ MaxLate \in Nat
  /\ Delays \subseteq Nat
BY SchedulerAssumption

LEMMA Zeros == 0 \in 0..MaxAttempts /\ 0 \in 0..DispatchTime /\ 0 \in 0..StaleAfter
BY Params

LEMMA EmptyBatch == <<>> \in Seq(Ids) /\ \A s \in Seq(Ids) : Len(s) = 0 <=> s = <<>>
OBVIOUS

LEMMA IdleType ==
  /\ Asleep \in WorkerRow /\ Down \in WorkerRow
  /\ \A b \in Seq(Ids) : [Asleep EXCEPT !.pc = "dispatching", !.batch = b] \in WorkerRow
<1>1. Asleep \in WorkerRow
  BY Zeros, EmptyBatch DEF Asleep, WorkerRow, WorkerPcs
<1>2. Down \in WorkerRow
  BY Zeros, EmptyBatch DEF Down, Asleep, WorkerRow, WorkerPcs
<1>3. ASSUME NEW b \in Seq(Ids)
      PROVE  [Asleep EXCEPT !.pc = "dispatching", !.batch = b] \in WorkerRow
  BY <1>3, Zeros DEF Asleep, WorkerRow, WorkerPcs
<1>. QED  BY <1>1, <1>2, <1>3

LEMMA ProceedType ==
  ASSUME IInv, NEW g \in Gateways, worker[g].pc \in Busy, Proceed(g)
  PROVE  /\ worker' \in [Gateways -> WorkerRow]
         /\ worker'[g].batch = Tail(worker[g].batch)
         /\ worker'[g].spent = 0
         /\ worker'[g].pc = IF worker'[g].batch = <<>> THEN "asleep" ELSE "dispatching"
         /\ \A h \in Gateways \ {g} : worker'[h] = worker[h]
<1>. DEFINE b == worker[g].batch
<1>1. b \in Seq(Ids) /\ b # <<>> /\ Tail(b) \in Seq(Ids)
      /\ Len(Tail(b)) = Len(b) - 1
  BY HeadInHand, TailOfBatch DEF IInv, Carries
<1>2. worker \in [Gateways -> WorkerRow]
  BY DEF IInv, TypeOK, WorkerRow
<1>3. [Asleep EXCEPT !.pc = "dispatching", !.batch = Tail(b)] \in WorkerRow
  BY <1>1, IdleType
<1>4. worker' \in [Gateways -> WorkerRow]
  BY <1>2, <1>3, IdleType DEF Proceed
<1>5. CASE Len(b) = 1
  <2>0. Len(Tail(b)) = 0
    BY <1>1, <1>5
  <2>1. Tail(b) = <<>>
    BY <1>1, <2>0, EmptyBatch
  <2>2. worker'[g] = Asleep
    BY <1>2, <1>5 DEF Proceed
  <2>. QED  BY <1>2, <1>4, <2>1, <2>2 DEF Asleep, Proceed
<1>6. CASE Len(b) # 1
  <2>0. Len(Tail(b)) # 0
    BY <1>1, <1>6
  <2>1. Tail(b) # <<>>
    BY <1>1, <2>0, EmptyBatch
  <2>2. worker'[g] = [Asleep EXCEPT !.pc = "dispatching", !.batch = Tail(b)]
    BY <1>2, <1>6 DEF Proceed
  <2>. QED  BY <1>2, <1>4, <2>1, <2>2 DEF Asleep, Proceed
<1>. QED  BY <1>5, <1>6

ScheduleRow == [status : Status, attempts : 0..MaxAttempts, overdue : Int,
                age : 0..StaleAfter, key : Keys \cup {None}]

LEMMA TypeStep == IInv /\ [Next]_vars => TypeOK'
<1>. SUFFICES ASSUME IInv, [Next]_vars PROVE TypeOK'
  OBVIOUS
<1>a. /\ rows \in [Ids -> ScheduleRow]
      /\ worker \in [Gateways -> WorkerRow]
      /\ faults \in 0..MaxFaults
      /\ performed \in [Ids -> Nat]
      /\ lost \in [Ids -> Nat]
  BY DEF IInv, TypeOK, ScheduleRow, WorkerRow
<1>b. ASSUME /\ rows' \in [Ids -> ScheduleRow]
             /\ worker' \in [Gateways -> WorkerRow]
             /\ faults' \in 0..MaxFaults
             /\ performed' \in [Ids -> Nat]
             /\ lost' \in [Ids -> Nat]
      PROVE  TypeOK'
  BY <1>b DEF TypeOK, ScheduleRow, WorkerRow
<1>c. ASSUME Fault PROVE faults' \in 0..MaxFaults
  BY <1>a, <1>c, Params DEF Fault
<1>d. ASSUME NEW ids, Losing(ids) PROVE lost' \in [Ids -> Nat]
  BY <1>a, <1>d DEF Losing
<1>e. ASSUME NEW b PROVE Claimed(b) \in [Ids -> ScheduleRow]
  <2>. SUFFICES ASSUME NEW id \in Ids PROVE Claimed(b)[id] \in ScheduleRow
    BY DEF Claimed
  <2>1. rows[id] \in ScheduleRow
    BY <1>a
  <2>2. [rows[id] EXCEPT !.status = "dispatching", !.age = 0] \in ScheduleRow
    BY <2>1, Zeros DEF ScheduleRow, Status
  <2>. QED  BY <2>1, <2>2 DEF Claimed
<1>f. ASSUME NEW b \in Batches PROVE b \in Seq(Ids)
  <2>1. PICK m \in 0..Batch : b \in [1..m -> Due]
    BY DEF Batches, SeqOf
  <2>2. b \in [1..m -> Ids] /\ m \in Nat
    BY <2>1 DEF Due
  <2>. QED  BY <2>2
<1>1. ASSUME NEW id \in Ids, NEW key \in Keys \cup {None}, NEW delay \in Delays,
             Insert(id, key, delay)
      PROVE  TypeOK'
  <2>1. [NoRow EXCEPT !.status = "pending", !.overdue = -delay, !.key = key]
          \in ScheduleRow
    <3>1. -delay \in Int
      BY Params
    <3>. QED  BY <3>1, Zeros DEF NoRow, ScheduleRow, Status
  <2>2. rows' \in [Ids -> ScheduleRow]
    BY <1>1, <1>a, <2>1 DEF Insert
  <2>. QED  BY <1>1, <1>a, <1>b, <2>2 DEF Insert
<1>2. ASSUME NEW id \in Ids, Cancel(id) PROVE TypeOK'
  BY <1>2, <1>a, <1>b DEF Cancel, ScheduleRow, Status, Settled
<1>3. ASSUME NEW g \in Gateways, Requeue(g) PROVE TypeOK'
  <2>1. rows' \in [Ids -> ScheduleRow]
    <3>. SUFFICES ASSUME NEW id \in Ids PROVE rows'[id] \in ScheduleRow
      BY <1>3 DEF Requeue
    <3>1. rows[id] \in ScheduleRow
      BY <1>a
    <3>2. [rows[id] EXCEPT !.status = "pending", !.age = 0] \in ScheduleRow
      BY <3>1, Zeros DEF ScheduleRow, Status
    <3>. QED  BY <1>3, <3>1, <3>2 DEF Requeue
  <2>2. worker' \in [Gateways -> WorkerRow]
    <3>1. PICK pc \in WorkerPcs : worker' = [worker EXCEPT ![g].pc = pc]
      BY <1>3 DEF Requeue, WorkerPcs
    <3>2. [worker[g] EXCEPT !.pc = pc] \in WorkerRow
      BY <1>a DEF WorkerRow
    <3>. QED  BY <1>a, <3>1, <3>2
  <2>. QED  BY <1>3, <1>a, <1>b, <2>1, <2>2 DEF Requeue
<1>4. ASSUME NEW g \in Gateways, Claim(g) PROVE TypeOK'
  <2>1. PICK b \in Batches :
          /\ rows' = Claimed(b)
          /\ worker' = [worker EXCEPT ![g] =
               IF b = <<>> THEN Asleep
               ELSE [Asleep EXCEPT !.pc = "dispatching", !.batch = b]]
    BY <1>4 DEF Claim
  <2>2. [Asleep EXCEPT !.pc = "dispatching", !.batch = b] \in WorkerRow
    BY <1>f, IdleType
  <2>3. worker' \in [Gateways -> WorkerRow]
    BY <1>a, <2>1, <2>2, IdleType
  <2>. QED  BY <1>4, <1>a, <1>b, <1>e, <2>1, <2>3 DEF Claim
<1>5. ASSUME NEW g \in Gateways, ClaimFails(g) PROVE TypeOK'
  <2>1. rows' \in [Ids -> ScheduleRow] /\ lost' \in [Ids -> Nat]
    BY <1>5, <1>a, <1>d, <1>e DEF ClaimFails
  <2>2. worker' \in [Gateways -> WorkerRow]
    BY <1>5, <1>a, IdleType DEF ClaimFails
  <2>. QED  BY <1>5, <1>a, <1>b, <1>c, <2>1, <2>2 DEF ClaimFails
<1>6. ASSUME NEW g \in Gateways, NEW ok \in BOOLEAN, Dispatch(g, ok) PROVE TypeOK'
  <2>1. worker' \in [Gateways -> WorkerRow]
    <3>1. PICK pc \in WorkerPcs : worker' = [worker EXCEPT ![g].pc = pc]
      BY <1>6 DEF Dispatch, WorkerPcs
    <3>2. [worker[g] EXCEPT !.pc = pc] \in WorkerRow
      BY <1>a DEF WorkerRow
    <3>. QED  BY <1>a, <3>1, <3>2
  <2>2. Current(g) \in Ids
    BY <1>6, HeadInHand DEF Dispatch, Busy
  <2>3. performed' \in [Ids -> Nat]
    BY <1>6, <1>a, <2>2 DEF Dispatch
  <2>. QED  BY <1>6, <1>a, <1>b, <2>1, <2>3 DEF Dispatch
<1>7. ASSUME NEW g \in Gateways, FinishSent(g) PROVE TypeOK'
  <2>1. worker' \in [Gateways -> WorkerRow]
    BY <1>7, ProceedType DEF FinishSent, Busy, Acting
  <2>2. rows' \in [Ids -> ScheduleRow]
    <3>. SUFFICES ASSUME NEW id \in Ids PROVE rows'[id] \in ScheduleRow
      BY <1>7, <1>a DEF FinishSent
    <3>1. rows[id] \in ScheduleRow
      BY <1>a
    <3>2. [rows[id] EXCEPT !.status = "sent", !.age = 0] \in ScheduleRow
      BY <3>1, Zeros DEF ScheduleRow, Status, Settled
    <3>. QED  BY <1>7, <1>a, <3>1, <3>2 DEF FinishSent
  <2>. QED  BY <1>7, <1>a, <1>b, <2>1, <2>2 DEF FinishSent
<1>8. ASSUME NEW g \in Gateways, FinishRead(g) PROVE TypeOK'
  <2>1. rows[Current(g)].attempts + 1 \in 0..MaxAttempts
    BY <1>8, HeadInHand, Params DEF FinishRead, Busy, Acting
  <2>2. worker' \in [Gateways -> WorkerRow]
    BY <1>8, <1>a, <2>1 DEF FinishRead, WorkerRow, WorkerPcs
  <2>. QED  BY <1>8, <1>a, <1>b, <2>2 DEF FinishRead
<1>9. ASSUME NEW g \in Gateways, FinishError(g) PROVE TypeOK'
  <2>1. worker' \in [Gateways -> WorkerRow]
    BY <1>9, ProceedType DEF FinishError, Busy, Acting
  <2>2. worker[g].tried \in 1..MaxAttempts
    <3>1. worker[g].pc = "counting" /\ worker[g].tried = rows[Current(g)].attempts + 1
      BY <1>9 DEF FinishError, IInv, Carries
    <3>2. rows[Current(g)].attempts \in 0..MaxAttempts - 1
      BY <3>1, HeadInHand DEF Busy, Acting
    <3>. QED  BY <3>1, <3>2, Params
  <2>3. -Backoff(worker[g].tried) \in Int
    BY <2>2, BackoffType
  <2>4. worker[g].tried \in 0..MaxAttempts
    BY <2>2
  <2>. HIDE DEF Backoff
  <2>5. rows' \in [Ids -> ScheduleRow]
    <3>. DEFINE row == rows[Current(g)]
                tried == worker[g].tried
    <3>1. row \in ScheduleRow
      BY <1>9, <1>a, HeadInHand DEF FinishError, Busy, Acting
    <3>2. [row EXCEPT !.status = "failed", !.attempts = tried, !.age = 0] \in ScheduleRow
      BY <2>4, <3>1, Zeros DEF ScheduleRow, Status, Settled
    <3>3. [row EXCEPT !.status = "pending", !.attempts = tried, !.age = 0,
                      !.overdue = -Backoff(tried)] \in ScheduleRow
      BY <2>3, <2>4, <3>1, Zeros DEF ScheduleRow, Status
    <3>. HIDE DEF ScheduleRow
    <3>. QED  BY <1>9, <1>a, <3>2, <3>3 DEF FinishError
  <2>. QED  BY <1>9, <1>a, <1>b, <2>1, <2>5 DEF FinishError
<1>10. ASSUME NEW g \in Gateways, FinishFails(g) PROVE TypeOK'
  <2>1. worker' \in [Gateways -> WorkerRow]
    BY <1>10, ProceedType DEF FinishFails, Busy, Acting
  <2>. QED  BY <1>10, <1>a, <1>b, <1>c, <1>d, <2>1 DEF FinishFails
<1>11. ASSUME NEW g \in Gateways, Crash(g) \/ Restart(g) PROVE TypeOK'
  <2>1. worker' \in [Gateways -> WorkerRow]
    BY <1>11, <1>a, IdleType DEF Crash, Restart
  <2>. QED  BY <1>11, <1>a, <1>b, <1>c, <1>d, <2>1 DEF Crash, Restart
<1>12. CASE Tick
  <2>1. rows' \in [Ids -> ScheduleRow]
    <3>. SUFFICES ASSUME NEW id \in Ids PROVE rows'[id] \in ScheduleRow
      BY <1>12 DEF Tick
    <3>1. rows[id] \in ScheduleRow
      BY <1>a
    <3>2. rows[id].overdue + 1 \in Int
      BY <3>1 DEF ScheduleRow
    <3>3. rows[id].age < StaleAfter => rows[id].age + 1 \in 0..StaleAfter
      BY <3>1, Params DEF ScheduleRow
    <3>. QED  BY <1>12, <3>1, <3>2, <3>3 DEF Tick, ScheduleRow
  <2>2. worker' \in [Gateways -> WorkerRow]
    <3>. SUFFICES ASSUME NEW g \in Gateways PROVE worker'[g] \in WorkerRow
      BY <1>12 DEF Tick
    <3>1. worker[g] \in WorkerRow
      BY <1>a
    <3>2. worker[g].spent < DispatchTime => worker[g].spent + 1 \in 0..DispatchTime
      BY <3>1, Params DEF WorkerRow
    <3>3. CASE worker[g].pc = "dispatching"
      BY <1>12, <3>1, <3>2, <3>3 DEF Tick, WorkerRow
    <3>4. CASE worker[g].pc = "asleep"
      <4>1. worker'[g] = [worker[g] EXCEPT !.pc = "awake"]
        BY <1>12, <3>4 DEF Tick
      <4>. QED  BY <4>1, <3>1 DEF WorkerRow, WorkerPcs
    <3>5. CASE worker[g].pc \notin {"dispatching", "asleep"}
      BY <1>12, <3>1, <3>5 DEF Tick
    <3>. QED  BY <3>3, <3>4, <3>5
  <2>. QED  BY <1>12, <1>a, <1>b, <2>1, <2>2 DEF Tick
<1>13. CASE UNCHANGED vars
  BY <1>13, <1>a, <1>b DEF vars
<1>. QED
  BY <1>1, <1>2, <1>3, <1>4, <1>5, <1>6, <1>7, <1>8, <1>9, <1>10, <1>11, <1>12,
     <1>13 DEF Next, Works

-----------------------------------------------------------------------------
(* The rest of the invariant.  Most steps are of one worker, g, and leave  *)
(* in its hands no more than it had.                                       *)
HandsOK == ClaimsExclusive /\ \A g \in Gateways : Carries(g) /\ InTime(g)

LEMMA HandsIdsOnly ==
  ASSUME IInv, NEW g \in Gateways
  PROVE  InHand(g) \subseteq Ids
BY NotStale

LEMMA OneWorker ==
  ASSUME IInv, NEW g \in Gateways,
         \A h \in Gateways \ {g} : worker'[h] = worker[h],
         InHand(g)' \subseteq InHand(g),
         \A id \in InHand(g)' : rows'[id].status = "dispatching",
         \A h \in Gateways \ {g} : \A id \in InHand(h) : rows'[id] = rows[id],
         Carries(g)', InTime(g)'
  PROVE  HandsOK'
<1>1. \A h \in Gateways \ {g} : InHand(h)' = InHand(h)
  BY DEF InHand
<1>2. \A h \in Gateways \ {g} : \A id \in InHand(h) :
        rows'[id] = rows[id] /\ rows[id].status = "dispatching"
  BY NotStale
<1>3. ClaimsExclusive'
  <2>1. ASSUME NEW h \in Gateways, NEW i \in Gateways, h # i
        PROVE  InHand(h)' \cap InHand(i)' = {}
    <3>1. InHand(h) \cap InHand(i) = {}
      BY <2>1 DEF IInv, ClaimsExclusive
    <3>2. InHand(h)' \subseteq InHand(h) /\ InHand(i)' \subseteq InHand(i)
      BY <1>1
    <3>. QED  BY <3>1, <3>2
  <2>2. ASSUME NEW h \in Gateways, NEW id \in InHand(h)'
        PROVE  rows'[id].status = "dispatching"
    BY <1>1, <1>2
  <2>. QED  BY <2>1, <2>2 DEF ClaimsExclusive
<1>4. ASSUME NEW h \in Gateways \ {g} PROVE Carries(h)'
  <2>1. Carries(h) /\ worker'[h] = worker[h]
    BY DEF IInv
  <2>2. worker[h].pc = "counting" => rows'[Current(h)] = rows[Current(h)]
    BY <1>2, HeadInHand DEF Busy, Acting
  <2>. QED  BY <2>1, <2>2 DEF Carries, Current
<1>5. ASSUME NEW h \in Gateways \ {g} PROVE InTime(h)'
  <2>1. InTime(h) /\ worker'[h] = worker[h] /\ InHand(h)' = InHand(h)
    BY <1>1 DEF IInv
  <2>. QED  BY <1>2, <2>1 DEF InTime
<1>. QED  BY <1>3, <1>4, <1>5 DEF HandsOK

(* The head of a batch is in nobody else's hands. *)
LEMMA HeadIsMine ==
  ASSUME IInv, NEW g \in Gateways, worker[g].pc \in Busy,
         NEW h \in Gateways \ {g}
  PROVE  Current(g) \notin InHand(h)
BY HeadInHand DEF IInv, ClaimsExclusive

LEMMA ProceedKeeps ==
  ASSUME IInv, TypeOK', NEW g \in Gateways, worker[g].pc \in Busy, Proceed(g),
         \A id \in Ids \ {Current(g)} : rows'[id] = rows[id]
  PROVE  HandsOK'
<1>. DEFINE b == worker[g].batch
<1>1. /\ b \in Seq(Ids) /\ b # <<>> /\ IsInjective(b) /\ Len(b) <= Batch
  BY HeadInHand DEF IInv, Carries
<1>2. /\ Tail(b) \in Seq(Ids) /\ Len(Tail(b)) = Len(b) - 1
      /\ Range(Tail(b)) = Range(b) \ {Head(b)}
      /\ IsInjective(Tail(b))
  BY <1>1, TailOfBatch
<1>3. /\ worker'[g].batch = Tail(b) /\ worker'[g].spent = 0
      /\ worker'[g].pc = IF worker'[g].batch = <<>> THEN "asleep" ELSE "dispatching"
      /\ \A h \in Gateways \ {g} : worker'[h] = worker[h]
  BY ProceedType
<1>4. InHand(g)' = InHand(g) \ {Current(g)}
  BY <1>2, <1>3 DEF InHand, Current
<1>5. \A id \in InHand(g)' : rows'[id] = rows[id] /\ rows[id].status = "dispatching"
  BY <1>4, NotStale
<1>6. \A h \in Gateways \ {g} : \A id \in InHand(h) : rows'[id] = rows[id]
  BY HeadIsMine, HandsIdsOnly
<1>7. Carries(g)'
  <2>1. Len(Tail(b)) <= Batch
    BY <1>1, <1>2, Params
  <2>. QED  BY <1>2, <1>3, <2>1 DEF Carries, Busy, Acting
<1>8. InTime(g)'
  <2>. SUFFICES ASSUME NEW id \in InHand(g)'
                PROVE  rows'[id].age + Len(Tail(b)) * DispatchTime - 0
                         <= Batch * DispatchTime
    BY <1>3 DEF InTime
  <2>1. rows'[id] = rows[id] /\ id \in InHand(g) /\ id \in Ids
    BY <1>4, <1>5, HandsIdsOnly
  <2>2. rows[id].age + Len(b) * DispatchTime - worker[g].spent <= Batch * DispatchTime
    BY <2>1 DEF IInv, InTime
  <2>3. rows[id].age \in Nat /\ worker[g].spent \in 0..DispatchTime
    <3>1. rows[id].age \in Nat
      BY <2>1, Params DEF IInv, TypeOK
    <3>2. worker[g].spent \in 0..DispatchTime
      BY DEF IInv, TypeOK
    <3>. QED  BY <3>1, <3>2
  <2>. DEFINE n == Len(Tail(b))
  <2>4. n \in Nat /\ Len(b) = n + 1
    BY <1>1, <1>2
  <2>. HIDE DEF n
  <2>5. n * DispatchTime \in Nat /\ (n + 1) * DispatchTime = n * DispatchTime + DispatchTime
        /\ Batch * DispatchTime \in Nat
    BY <2>4, Params, Times
  <2>6. rows[id].age + n * DispatchTime - 0 <= Batch * DispatchTime
    BY <2>2, <2>3, <2>4, <2>5, Params
  <2>. QED  BY <2>1, <2>6 DEF n
<1>. QED  BY <1>3, <1>4, <1>5, <1>6, <1>7, <1>8, OneWorker

LEMMA BatchFacts ==
  ASSUME NEW b \in Batches
  PROVE  /\ b \in Seq(Ids) /\ Len(b) \in 0..Batch
         /\ Range(b) \subseteq Due /\ IsInjective(b)
<1>1. PICK m \in 0..Batch : b \in [1..m -> Due]
  BY DEF Batches, SeqOf
<1>2. m \in Nat /\ b \in [1..m -> Ids]
  BY <1>1, Params DEF Due
<1>3. b \in Seq(Ids) /\ Len(b) = m
  BY <1>2
<1>4. Range(b) \subseteq Due
  BY <1>1 DEF Range
<1>. QED  BY <1>1, <1>3, <1>4 DEF Batches

LEMMA ClaimTakesNoneHeld ==
  ASSUME IInv, NEW b \in Batches, NEW h \in Gateways, NEW id \in InHand(h)
  PROVE  id \notin Range(b) /\ Claimed(b)[id] = rows[id]
<1>1. id \in Ids /\ rows[id].status = "dispatching"
  BY NotStale
<1>2. id \notin Range(b)
  BY <1>1, BatchFacts DEF Due
<1>. QED  BY <1>1, <1>2 DEF Claimed

LEMMA IdleHand ==
  ASSUME NEW g \in Gateways, worker'[g].batch = <<>>, worker'[g].pc \notin Busy
  PROVE  Carries(g)' /\ InTime(g)' /\ InHand(g)' = {}
<1>1. InHand(g)' = {}
  BY DEF InHand, Range
<1>2. IsInjective(<<>>) /\ Len(<<>>) = 0
  BY DEF IsInjective
<1>. QED  BY <1>1, <1>2, Params DEF Carries, InTime, Busy, Acting

LEMMA RowsOnly ==
  ASSUME IInv, NEW g \in Gateways, worker' = worker,
         \A h \in Gateways : \A id \in InHand(h) : rows'[id] = rows[id]
  PROVE  HandsOK'
<1>1. InHand(g)' = InHand(g)
  BY DEF InHand
<1>2. \A id \in InHand(g)' : rows'[id] = rows[id] /\ rows'[id].status = "dispatching"
  BY <1>1, NotStale
<1>3. worker[g].pc = "counting" => rows'[Current(g)] = rows[Current(g)]
  BY <1>1, <1>2, HeadInHand DEF Busy, Acting
<1>4. Carries(g)'
  BY <1>3 DEF IInv, Carries, Current
<1>5. InTime(g)'
  BY <1>1, <1>2 DEF IInv, InTime
<1>. QED  BY <1>2, <1>4, <1>5, <1>1, OneWorker

LEMMA HandsStep == IInv /\ TypeOK' /\ [Next]_vars => HandsOK'
<1>. SUFFICES ASSUME IInv, TypeOK', [Next]_vars PROVE HandsOK'
  OBVIOUS
<1>0. IInv => HandsOK
  BY DEF IInv, HandsOK
<1>a. \A g \in Gateways : worker[g].pc \notin Busy => worker[g].batch = <<>>
  BY DEF IInv, Carries
<1>b. worker \in [Gateways -> WorkerRow]
  BY DEF IInv, TypeOK, WorkerRow
<1>c. \A h \in Gateways : \A id \in InHand(h) :
        id \in Ids /\ rows[id].status = "dispatching" /\ ~Stale(rows[id])
  BY NotStale
<1>1. ASSUME NEW id \in Ids, NEW key \in Keys \cup {None}, NEW delay \in Delays,
             Insert(id, key, delay)
      PROVE  HandsOK'
  <2>1. PICK g \in Gateways : TRUE
    BY <1>1 DEF Insert
  <2>2. \A h \in Gateways : \A e \in InHand(h) : rows'[e] = rows[e]
    BY <1>1, <1>c DEF Insert
  <2>. QED  BY <1>1, <2>1, <2>2, RowsOnly DEF Insert
<1>2. ASSUME NEW id \in Ids, Cancel(id) PROVE HandsOK'
  <2>1. PICK g \in Gateways : TRUE
    BY <1>2 DEF Cancel
  <2>2. \A h \in Gateways : \A e \in InHand(h) : rows'[e] = rows[e]
    BY <1>2, <1>c DEF Cancel
  <2>. QED  BY <1>2, <2>1, <2>2, RowsOnly DEF Cancel
<1>3. ASSUME NEW g \in Gateways, Requeue(g) PROVE HandsOK'
  <2>1. worker'[g].batch = <<>> /\ worker'[g].pc \notin Busy
    BY <1>3, <1>a, <1>b DEF Requeue, WorkerRow, Busy, Acting
  <2>2. Carries(g)' /\ InTime(g)' /\ InHand(g)' = {}
    BY <2>1, IdleHand
  <2>3. \A h \in Gateways : \A id \in InHand(h) : rows'[id] = rows[id]
    BY <1>3, <1>c DEF Requeue
  <2>4. \A h \in Gateways \ {g} : worker'[h] = worker[h]
    BY <1>3, <1>b DEF Requeue
  <2>. QED  BY <2>2, <2>3, <2>4, OneWorker
<1>4. ASSUME NEW g \in Gateways, Claim(g) PROVE HandsOK'
  <2>1. PICK b \in Batches :
          /\ rows' = Claimed(b)
          /\ worker' = [worker EXCEPT ![g] =
               IF b = <<>> THEN Asleep
               ELSE [Asleep EXCEPT !.pc = "dispatching", !.batch = b]]
    BY <1>4 DEF Claim
  <2>2. /\ b \in Seq(Ids) /\ Len(b) \in 0..Batch
        /\ Range(b) \subseteq Due /\ IsInjective(b)
    BY BatchFacts
  <2>a. \A h \in Gateways \ {g} : worker'[h] = worker[h]
    BY <1>b, <2>1
  <2>b. worker'[g] = IF b = <<>> THEN Asleep
                     ELSE [Asleep EXCEPT !.pc = "dispatching", !.batch = b]
    BY <1>b, <2>1
  <2>3. /\ worker'[g].batch = b /\ worker'[g].spent = 0
        /\ b = <<>> => worker'[g].pc = "asleep"
        /\ b # <<>> => worker'[g].pc = "dispatching"
    BY <2>b DEF Asleep
  <2>4. InHand(g)' = Range(b) /\ \A h \in Gateways \ {g} : InHand(h)' = InHand(h)
    BY <2>3, <2>a DEF InHand
  <2>5. \A id \in Range(b) : rows'[id].status = "dispatching" /\ rows'[id].age = 0
    <3>. SUFFICES ASSUME NEW id \in Range(b)
                  PROVE  rows'[id].status = "dispatching" /\ rows'[id].age = 0
      OBVIOUS
    <3>1. id \in Ids
      BY <2>2 DEF Due
    <3>2. rows[id] \in ScheduleRow
      BY <3>1 DEF IInv, TypeOK, ScheduleRow
    <3>3. rows'[id] = [rows[id] EXCEPT !.status = "dispatching", !.age = 0]
      BY <2>1, <3>1 DEF Claimed
    <3>. QED  BY <3>2, <3>3 DEF ScheduleRow
  <2>6. \A h \in Gateways : \A id \in InHand(h) :
          id \notin Range(b) /\ rows'[id] = rows[id] /\ rows[id].status = "dispatching"
    BY <1>c, <2>1, ClaimTakesNoneHeld
  <2>7. ClaimsExclusive'
    <3>1. ASSUME NEW h \in Gateways, NEW i \in Gateways, h # i
          PROVE  InHand(h)' \cap InHand(i)' = {}
      BY <2>4, <2>6, <3>1 DEF IInv, ClaimsExclusive
    <3>2. ASSUME NEW h \in Gateways, NEW id \in InHand(h)'
          PROVE  rows'[id].status = "dispatching"
      BY <2>4, <2>5, <2>6
    <3>. QED  BY <3>1, <3>2 DEF ClaimsExclusive
  <2>8. Carries(g)'
    <3>1. Len(b) <= Batch
      BY <2>2, Params
    <3>2. IsInjective(b)
      BY <2>2
    <3>3. worker'[g].pc \in Busy <=> b # <<>>
      BY <2>3 DEF Busy, Acting
    <3>4. worker'[g].pc # "counting"
      BY <2>3
    <3>. QED  BY <2>3, <3>1, <3>2, <3>3, <3>4 DEF Carries
  <2>9. InTime(g)'
    <3>1. Len(b) * DispatchTime <= Batch * DispatchTime /\ Len(b) * DispatchTime \in Nat
          /\ Batch * DispatchTime \in Nat
      <4>1. Len(b) \in Nat /\ Len(b) <= Batch
        BY <2>2, Params
      <4>. QED  BY <4>1, Params, Times, TimesLess
    <3>. DEFINE spanned == Len(b) * DispatchTime
                whole == Batch * DispatchTime
    <3>2. 0 + spanned - 0 <= whole
      <4>. HIDE DEF spanned, whole
      <4>1. spanned \in Nat /\ whole \in Nat /\ spanned <= whole
        BY <3>1 DEF spanned, whole
      <4>. QED  BY <4>1
    <3>. QED  BY <2>3, <2>4, <2>5, <3>2 DEF InTime
  <2>10. ASSUME NEW h \in Gateways \ {g} PROVE Carries(h)' /\ InTime(h)'
    <3>1. Carries(h) /\ InTime(h) /\ worker'[h] = worker[h]
      BY <2>a DEF IInv
    <3>2. worker[h].pc = "counting" => rows'[Current(h)] = rows[Current(h)]
      BY <2>6, HeadInHand DEF Busy, Acting
    <3>3. Carries(h)'
      BY <3>1, <3>2 DEF Carries, Current
    <3>4. InTime(h)'
      BY <2>4, <2>6, <3>1 DEF InTime
    <3>. QED  BY <3>3, <3>4
  <2>. QED  BY <2>7, <2>8, <2>9, <2>10 DEF HandsOK
<1>5. ASSUME NEW g \in Gateways, ClaimFails(g) PROVE HandsOK'
  <2>1. worker'[g] = Asleep /\ \A h \in Gateways \ {g} : worker'[h] = worker[h]
    BY <1>5, <1>b DEF ClaimFails
  <2>2. Carries(g)' /\ InTime(g)' /\ InHand(g)' = {}
    BY <2>1, IdleHand DEF Asleep, Busy, Acting
  <2>3. \A h \in Gateways : \A id \in InHand(h) : rows'[id] = rows[id]
    BY <1>5, ClaimTakesNoneHeld DEF ClaimFails
  <2>. QED  BY <2>1, <2>2, <2>3, OneWorker
<1>6. ASSUME NEW g \in Gateways, NEW ok \in BOOLEAN, Dispatch(g, ok) PROVE HandsOK'
  <2>1. /\ worker'[g].batch = worker[g].batch /\ worker'[g].spent = worker[g].spent
        /\ worker[g].pc \in Busy /\ worker'[g].pc \in {"succeeded", "erred"}
        /\ \A h \in Gateways \ {g} : worker'[h] = worker[h]
        /\ rows' = rows
    BY <1>6, <1>b DEF Dispatch, WorkerRow, Busy, Acting
  <2>2. InHand(g)' = InHand(g)
    BY <2>1 DEF InHand
  <2>3. Carries(g)' /\ InTime(g)'
    BY <2>1, <2>2 DEF IInv, Carries, InTime, Busy, Acting
  <2>. QED  BY <1>c, <2>1, <2>2, <2>3, OneWorker
<1>7. ASSUME NEW g \in Gateways, FinishSent(g) PROVE HandsOK'
  BY <1>7, ProceedKeeps DEF FinishSent, Busy, Acting, IInv, TypeOK
<1>8. ASSUME NEW g \in Gateways, FinishRead(g) PROVE HandsOK'
  <2>1. /\ worker'[g].batch = worker[g].batch /\ worker'[g].spent = worker[g].spent
        /\ worker[g].pc \in Busy /\ worker'[g].pc = "counting"
        /\ worker'[g].tried = rows[Current(g)].attempts + 1
        /\ \A h \in Gateways \ {g} : worker'[h] = worker[h]
        /\ rows' = rows
    BY <1>8, <1>b DEF FinishRead, WorkerRow, Busy, Acting
  <2>2. InHand(g)' = InHand(g) /\ Current(g)' = Current(g)
    BY <2>1 DEF InHand, Current
  <2>3. Carries(g)' /\ InTime(g)'
    BY <2>1, <2>2 DEF IInv, Carries, InTime, Busy, Acting
  <2>. QED  BY <1>c, <2>1, <2>2, <2>3, OneWorker
<1>9. ASSUME NEW g \in Gateways, FinishError(g) PROVE HandsOK'
  BY <1>9, ProceedKeeps DEF FinishError, Busy, Acting, IInv, TypeOK
<1>10. ASSUME NEW g \in Gateways, FinishFails(g) PROVE HandsOK'
  BY <1>10, ProceedKeeps DEF FinishFails, Busy, Acting
<1>11. ASSUME NEW g \in Gateways, Crash(g) \/ Restart(g) PROVE HandsOK'
  <2>1. worker'[g] \in {Asleep, Down} /\ rows' = rows
        /\ \A h \in Gateways \ {g} : worker'[h] = worker[h]
    BY <1>11, <1>b DEF Crash, Restart
  <2>2. worker'[g].batch = <<>> /\ worker'[g].pc \notin Busy
    BY <2>1 DEF Asleep, Down, Busy, Acting
  <2>3. Carries(g)' /\ InTime(g)' /\ InHand(g)' = {}
    BY <2>2, IdleHand
  <2>. QED  BY <2>1, <2>3, OneWorker
<1>12. CASE Tick
  <2>1. \A g \in Gateways :
          /\ worker'[g].batch = worker[g].batch
          /\ \/ worker'[g].pc = worker[g].pc
             \/ worker[g].pc = "asleep" /\ worker'[g].pc = "awake"
          /\ worker'[g].tried = worker[g].tried
          /\ worker'[g].spent = IF worker[g].pc = "dispatching"
                                THEN worker[g].spent + 1 ELSE worker[g].spent
    BY <1>12, <1>b DEF Tick, WorkerRow
  <2>2. \A id \in Ids : /\ rows'[id].status = rows[id].status
                        /\ rows'[id].attempts = rows[id].attempts
                        /\ rows'[id].age \in {rows[id].age, rows[id].age + 1}
    BY <1>12 DEF Tick, IInv, TypeOK
  <2>3. \A g \in Gateways : InHand(g)' = InHand(g) /\ Current(g)' = Current(g)
    BY <2>1 DEF InHand, Current
  <2>4. ClaimsExclusive'
    BY <1>c, <2>2, <2>3 DEF IInv, ClaimsExclusive
  <2>5. ASSUME NEW g \in Gateways PROVE Carries(g)'
    <3>1. worker[g].pc = "counting" => Current(g) \in Ids
      BY HeadInHand DEF Busy, Acting
    <3>2. worker'[g].pc \in Busy <=> worker[g].pc \in Busy
      BY <2>1 DEF Busy, Acting
    <3>3. worker'[g].pc = "counting" => worker[g].pc = "counting"
      BY <2>1
    <3>. QED  BY <2>1, <2>2, <2>3, <3>1, <3>2, <3>3 DEF IInv, Carries
  <2>6. ASSUME NEW g \in Gateways, NEW id \in InHand(g)'
        PROVE  rows'[id].age + Len(worker'[g].batch) * DispatchTime - worker'[g].spent
                 <= Batch * DispatchTime
    <3>1. id \in InHand(g) /\ id \in Ids
      BY <1>c, <2>3
    <3>2. worker[g].pc = "dispatching"
      BY <1>12, <3>1, NotStale DEF Tick, Busy, Acting
    <3>3. rows[id].age + Len(worker[g].batch) * DispatchTime - worker[g].spent
            <= Batch * DispatchTime
      BY <3>1 DEF IInv, InTime
    <3>4. rows[id].age \in Nat /\ worker[g].spent \in Nat /\ Len(worker[g].batch) \in Nat
      <4>1. worker[g].batch \in Seq(Ids) /\ worker[g].spent \in 0..DispatchTime
            /\ rows[id].age \in 0..StaleAfter
        BY <3>1 DEF IInv, TypeOK
      <4>. QED  BY <4>1, Params
    <3>. DEFINE n == Len(worker[g].batch) * DispatchTime
                m == Batch * DispatchTime
    <3>5. n \in Nat /\ m \in Nat
      BY <3>4, Params, Times
    <3>. HIDE DEF n, m
    <3>6. rows[id].age + n - worker[g].spent <= m
      BY <3>3 DEF n, m
    <3>7. rows'[id].age + n - (worker[g].spent + 1) <= m
      <4>1. rows'[id].age \in {rows[id].age, rows[id].age + 1}
        BY <2>2, <3>1
      <4>2. \A x, s, k, w \in Nat : \A y \in {x, x + 1} :
              x + k - s <= w => y + k - (s + 1) <= w
        OBVIOUS
      <4>. QED  BY <3>4, <3>5, <3>6, <4>1, <4>2
    <3>. QED  BY <2>1, <3>2, <3>7 DEF n, m
  <2>. QED  BY <2>4, <2>5, <2>6 DEF HandsOK, InTime
<1>13. CASE UNCHANGED vars
  BY <1>0, <1>13 DEF vars, HandsOK, ClaimsExclusive, Carries, InTime, InHand, Current
<1>. QED
  BY <1>1, <1>2, <1>3, <1>4, <1>5, <1>6, <1>7, <1>8, <1>9, <1>10, <1>11, <1>12,
     <1>13 DEF Next, Works

LEMMA CountedStep == IInv /\ TypeOK' /\ [Next]_vars => Counted'
<1>. SUFFICES ASSUME IInv, [Next]_vars, NEW e \in Ids,
                     rows'[e].status \in {"none", "pending", "dispatching"}
              PROVE  rows'[e].attempts < MaxAttempts
  BY DEF Counted
<1>. DEFINE Left == rows'[e].attempts < MaxAttempts
<1>a. rows \in [Ids -> ScheduleRow] /\ rows[e] \in ScheduleRow
  BY DEF IInv, TypeOK, ScheduleRow
<1>b. ASSUME rows'[e].attempts = rows[e].attempts,
             rows[e].status \in {"none", "pending", "dispatching"}
      PROVE  Left
  BY <1>b DEF IInv, Counted
<1>c. ASSUME rows'[e] = rows[e] PROVE Left
  BY <1>b, <1>c
<1>d. ASSUME NEW b \in Batches, rows' = Claimed(b) PROVE Left
  BY <1>a, <1>b, <1>d, BatchFacts DEF Claimed, Due, ScheduleRow
<1>1. ASSUME NEW id \in Ids, NEW key \in Keys \cup {None}, NEW delay \in Delays,
             Insert(id, key, delay)
      PROVE  Left
  <2>1. rows'[e] = rows[e] \/ rows'[e].attempts = 0
    BY <1>1, <1>a DEF Insert, NoRow
  <2>. QED  BY <1>c, <2>1, Params
<1>2. ASSUME NEW id \in Ids, Cancel(id) PROVE Left
  BY <1>2, <1>a, <1>c DEF Cancel, ScheduleRow
<1>3. ASSUME NEW g \in Gateways, Requeue(g) PROVE Left
  BY <1>3, <1>a, <1>b, <1>c DEF Requeue, Stale, ScheduleRow
<1>4. ASSUME NEW g \in Gateways, Claim(g) \/ ClaimFails(g) PROVE Left
  BY <1>4, <1>c, <1>d DEF Claim, ClaimFails
<1>5. ASSUME NEW g \in Gateways, FinishSent(g) PROVE Left
  BY <1>5, <1>a, <1>c DEF FinishSent, ScheduleRow
<1>6. ASSUME NEW g \in Gateways, FinishError(g) PROVE Left
  <2>1. CASE e # Current(g)
    BY <1>6, <1>a, <1>c, <2>1 DEF FinishError
  <2>2. CASE e = Current(g) /\ worker[g].tried >= MaxAttempts
    BY <1>6, <1>a, <2>2 DEF FinishError, ScheduleRow
  <2>3. CASE e = Current(g) /\ ~(worker[g].tried >= MaxAttempts)
    <3>1. rows'[e].attempts = worker[g].tried
      BY <1>6, <1>a, <2>3 DEF FinishError, ScheduleRow
    <3>2. worker[g].tried \in 0..MaxAttempts
      BY DEF IInv, TypeOK
    <3>. QED  BY <2>3, <3>1, <3>2, Params
  <2>. QED  BY <2>1, <2>2, <2>3
<1>7. CASE Tick
  BY <1>7, <1>a, <1>b DEF Tick, ScheduleRow
<1>8. CASE rows' = rows
  BY <1>8, <1>c
<1>. QED
  BY <1>1, <1>2, <1>3, <1>4, <1>5, <1>6, <1>7, <1>8 DEF Next, Works, Dispatch,
     FinishRead, FinishFails, Crash, Restart, vars

LEMMA InitHolds == Init => IInv
<1>. SUFFICES ASSUME Init PROVE IInv
  OBVIOUS
<1>1. rows \in [Ids -> ScheduleRow] /\ worker \in [Gateways -> WorkerRow]
  <2>1. NoRow \in ScheduleRow
    BY Zeros DEF NoRow, ScheduleRow, Status
  <2>. QED  BY <2>1, IdleType DEF Init
<1>2. TypeOK
  BY <1>1, Params DEF Init, TypeOK, ScheduleRow, WorkerRow
<1>3. \A g \in Gateways : worker[g] = Asleep /\ InHand(g) = {}
  BY DEF Init, InHand, Range, Asleep
<1>4. IsInjective(<<>>) /\ Len(<<>>) = 0
  BY DEF IsInjective
<1>5. \A g \in Gateways : Carries(g) /\ InTime(g)
  BY <1>3, <1>4, Params DEF Carries, InTime, Asleep, Busy, Acting
<1>6. Counted
  BY Params DEF Init, Counted, NoRow
<1>. QED  BY <1>2, <1>3, <1>5, <1>6 DEF IInv, ClaimsExclusive

LEMMA StepHolds == IInv /\ [Next]_vars => IInv'
BY TypeStep, HandsStep, CountedStep DEF IInv, HandsOK

LEMMA Invariant == Spec => []IInv
BY InitHolds, StepHolds, PTL DEF Spec

(* No action is ever in the hands of two workers, and none in a worker's   *)
(* hands is pending, for any number of gateways sharing the table, as long *)
(* as a batch is dispatched before its claims go stale.                    *)
THEOREM ClaimsStayExclusive == Spec => [](TypeOK /\ ClaimsExclusive)
<1>1. IInv => TypeOK /\ ClaimsExclusive
  BY DEF IInv
<1>. QED  BY <1>1, Invariant, PTL

-----------------------------------------------------------------------------
(* Outcomes and performances.                                              *)

OutcomeKept ==
  \A id \in Ids : rows[id].status \in Settled =>
    /\ rows'[id].status = rows[id].status
    /\ performed'[id] = performed[id]

LEMMA OutcomeStep == IInv /\ [Next]_vars => OutcomeKept
<1>. SUFFICES ASSUME IInv, [Next]_vars, NEW e \in Ids, rows[e].status \in Settled
              PROVE  rows'[e].status = rows[e].status /\ performed'[e] = performed[e]
  BY DEF OutcomeKept
<1>a. rows[e].status \notin {"none", "pending", "dispatching"}
      /\ rows \in [Ids -> ScheduleRow] /\ performed \in [Ids -> Nat]
  BY DEF Settled, IInv, TypeOK, ScheduleRow
<1>b. \A g \in Gateways : worker[g].pc \in Busy => Current(g) # e /\ Current(g) \in Ids
  BY <1>a, HeadInHand
<1>c. \A b \in Batches : Claimed(b)[e] = rows[e]
  BY <1>a, BatchFacts DEF Claimed, Due
<1>1. ASSUME NEW g \in Gateways, Works(g) \/ FinishFails(g) \/ ClaimFails(g)
      PROVE  rows'[e].status = rows[e].status /\ performed'[e] = performed[e]
  <2>1. CASE Requeue(g)
    BY <1>a, <2>1 DEF Requeue, Stale
  <2>2. CASE Claim(g) \/ ClaimFails(g)
    BY <1>c, <2>2 DEF Claim, ClaimFails
  <2>3. ASSUME NEW ok \in BOOLEAN, Dispatch(g, ok)
        PROVE  rows'[e].status = rows[e].status /\ performed'[e] = performed[e]
    BY <1>a, <1>b, <2>3 DEF Dispatch, Busy, Acting
  <2>4. CASE FinishSent(g) \/ FinishError(g)
    BY <1>a, <1>b, <2>4 DEF FinishSent, FinishError, Busy, Acting
  <2>5. CASE FinishRead(g) \/ FinishFails(g)
    BY <2>5 DEF FinishRead, FinishFails
  <2>. QED  BY <1>1, <2>1, <2>2, <2>3, <2>4, <2>5 DEF Works
<1>2. CASE Tick
  BY <1>a, <1>2 DEF Tick, ScheduleRow
<1>. QED
  BY <1>1, <1>2, <1>a DEF Next, Insert, Cancel, Crash, Restart, vars

(* A recorded outcome is never overwritten and a settled action never      *)
(* performed again.                                                        *)
THEOREM OutcomesAreFinal == Spec => OutcomeFinal
<1>1. Spec => [][OutcomeKept]_vars
  BY OutcomeStep, Invariant, PTL DEF Spec
<1>. QED  BY <1>1 DEF OutcomeFinal, OutcomeKept

Accounted(id) == performed[id] <= rows[id].attempts + lost[id]
                                   + (IF Dispatched(id) THEN 1 ELSE 0)

(* An id that was never drawn has no attempts, so drawing it forgets none. *)
Blank == \A id \in Ids : rows[id].status = "none" => rows[id].attempts = 0

LEMMA BlankStep == IInv /\ Blank /\ [Next]_vars => Blank'
<1>. SUFFICES ASSUME IInv, Blank, [Next]_vars, NEW e \in Ids,
                     rows'[e].status = "none"
              PROVE  rows'[e].attempts = 0
  BY DEF Blank
<1>a. rows \in [Ids -> ScheduleRow] /\ rows[e] \in ScheduleRow
  BY DEF IInv, TypeOK, ScheduleRow
<1>b. ASSUME rows'[e] = rows[e] PROVE rows'[e].attempts = 0
  BY <1>b DEF Blank
<1>1. ASSUME NEW id \in Ids, NEW key \in Keys \cup {None}, NEW delay \in Delays,
             Insert(id, key, delay)
      PROVE  rows'[e] = rows[e]
  BY <1>1, <1>a DEF Insert, NoRow
<1>2. ASSUME NEW id \in Ids, Cancel(id) PROVE rows'[e] = rows[e]
  BY <1>2, <1>a DEF Cancel, ScheduleRow
<1>3. ASSUME NEW g \in Gateways, Requeue(g) PROVE rows'[e] = rows[e]
  BY <1>3, <1>a DEF Requeue, ScheduleRow
<1>4. ASSUME NEW b \in Batches, rows' = Claimed(b) PROVE rows'[e] = rows[e]
  BY <1>4, <1>a DEF Claimed, ScheduleRow
<1>5. ASSUME NEW g \in Gateways, FinishSent(g) \/ FinishError(g)
      PROVE  rows'[e] = rows[e]
  <2>1. Current(g) \in Ids /\ rows[Current(g)] \in ScheduleRow
    BY <1>5, <1>a, HeadInHand DEF FinishSent, FinishError, Busy, Acting
  <2>2. CASE e = Current(g)
    <3>1. CASE FinishSent(g)
      BY <1>a, <2>1, <2>2, <3>1 DEF FinishSent, ScheduleRow
    <3>2. CASE FinishError(g) /\ worker[g].tried >= MaxAttempts
      BY <1>a, <2>1, <2>2, <3>2 DEF FinishError, ScheduleRow
    <3>3. CASE FinishError(g) /\ ~(worker[g].tried >= MaxAttempts)
      BY <1>a, <2>1, <2>2, <3>3 DEF FinishError, ScheduleRow
    <3>. QED  BY <1>5, <3>1, <3>2, <3>3
  <2>3. CASE e # Current(g)
    BY <1>5, <1>a, <2>3 DEF FinishSent, FinishError
  <2>. QED  BY <2>2, <2>3
<1>6. CASE Tick
  BY <1>6, <1>a DEF Tick, ScheduleRow, Blank
<1>7. CASE rows' = rows
  BY <1>7, <1>b
<1>. QED
  BY <1>b, <1>1, <1>2, <1>3, <1>4, <1>5, <1>6, <1>7 DEF Next, Works, Claim,
     ClaimFails, Dispatch, FinishRead, FinishFails, Crash, Restart, vars

(* A step that performs nothing and counts no attempt keeps the account if *)
(* it forgets a performance only by losing the claim's outcome.            *)
LEMMA AccountKept ==
  ASSUME IInv, NEW e \in Ids, Accounted(e), lost'[e] \in Nat,
         performed'[e] = performed[e], rows'[e].attempts = rows[e].attempts,
         lost'[e] >= lost[e],
         Dispatched(e) => Dispatched(e)' \/ lost'[e] >= lost[e] + 1
  PROVE  Accounted(e)'
<1>1. performed[e] \in Nat /\ lost[e] \in Nat /\ rows[e].attempts \in 0..MaxAttempts
  BY DEF IInv, TypeOK
<1>2. rows[e].attempts \in Nat
  BY <1>1, Params
<1>3. CASE Dispatched(e) /\ ~Dispatched(e)'
  <2>1. performed[e] <= rows[e].attempts + lost[e] + 1
    BY <1>3 DEF Accounted
  <2>2. performed'[e] <= rows'[e].attempts + lost'[e] + 0
    BY <1>1, <1>2, <1>3, <2>1
  <2>. QED  BY <1>3, <2>2 DEF Accounted
<1>4. CASE Dispatched(e) /\ Dispatched(e)'
  <2>1. performed[e] <= rows[e].attempts + lost[e] + 1
    BY <1>4 DEF Accounted
  <2>2. performed'[e] <= rows'[e].attempts + lost'[e] + 1
    BY <1>1, <1>2, <2>1
  <2>. QED  BY <1>4, <2>2 DEF Accounted
<1>5. CASE ~Dispatched(e)
  <2>1. performed[e] <= rows[e].attempts + lost[e] + 0
    BY <1>5 DEF Accounted
  <2>2. performed'[e] <= rows'[e].attempts + lost'[e] + 0
        /\ performed'[e] <= rows'[e].attempts + lost'[e] + 1
    BY <1>1, <1>2, <2>1
  <2>. QED  BY <2>2 DEF Accounted
<1>. QED  BY <1>3, <1>4, <1>5

(* The worker whose turn it is may stop acting on e only by way of g. *)
LEMMA OthersAct ==
  ASSUME IInv, NEW g \in Gateways, NEW e \in Ids, Dispatched(e),
         \A h \in Gateways \ {g} : worker'[h] = worker[h],
         rows[e].status = "sent" => rows'[e].status = "sent",
         ~(worker[g].pc \in Acting /\ Current(g) = e)
  PROVE  Dispatched(e)'
<1>1. CASE rows[e].status = "sent"
  BY <1>1 DEF Dispatched
<1>2. CASE rows[e].status # "sent"
  <2>1. PICK h \in Gateways : worker[h].pc \in Acting /\ Current(h) = e
    BY <1>2 DEF Dispatched, Acting
  <2>2. worker'[h] = worker[h]
    BY <2>1
  <2>. QED  BY <2>1, <2>2 DEF Dispatched, Current, Acting
<1>. QED  BY <1>1, <1>2

LEMMA AccountStep ==
  IInv /\ TypeOK' /\ Blank /\ (\A id \in Ids : Accounted(id)) /\ [Next]_vars
    => (\A id \in Ids : Accounted(id))'
<1>. SUFFICES ASSUME IInv, TypeOK', Blank, [Next]_vars, NEW e \in Ids, Accounted(e)
              PROVE  Accounted(e)'
  OBVIOUS
<1>a. /\ rows \in [Ids -> ScheduleRow] /\ rows[e] \in ScheduleRow
      /\ worker \in [Gateways -> WorkerRow]
      /\ performed \in [Ids -> Nat] /\ lost \in [Ids -> Nat]
  BY DEF IInv, TypeOK, ScheduleRow, WorkerRow
<1>b. lost'[e] \in Nat /\ lost[e] \in Nat /\ lost[e] >= lost[e]
  BY <1>a DEF TypeOK
<1>c. ASSUME NEW ids, Losing(ids)
      PROVE  lost'[e] >= lost[e] /\ (e \in ids => lost'[e] >= lost[e] + 1)
  BY <1>a, <1>b, <1>c DEF Losing
<1>d. ASSUME NEW b \in Batches
      PROVE  /\ Claimed(b)[e].attempts = rows[e].attempts
             /\ rows[e].status = "sent" => Claimed(b)[e].status = "sent"
  BY <1>a, BatchFacts DEF Claimed, Due, ScheduleRow
<1>1. ASSUME NEW id \in Ids, NEW key \in Keys \cup {None}, NEW delay \in Delays,
             Insert(id, key, delay)
      PROVE  Accounted(e)'
  <2>1. performed' = performed /\ lost' = lost /\ worker' = worker
    BY <1>1 DEF Insert
  <2>2. rows'[e].attempts = rows[e].attempts
    BY <1>1, <1>a DEF Insert, NoRow, Blank
  <2>3. rows[e].status = "sent" => rows'[e].status = "sent"
    BY <1>1, <1>a DEF Insert
  <2>4. Dispatched(e) => Dispatched(e)'
    BY <2>1, <2>3 DEF Dispatched, Current
  <2>. QED  BY <1>b, <2>1, <2>2, <2>4, AccountKept
<1>2. ASSUME NEW id \in Ids, Cancel(id) PROVE Accounted(e)'
  <2>1. performed' = performed /\ lost' = lost /\ worker' = worker
    BY <1>2 DEF Cancel
  <2>2. rows'[e].attempts = rows[e].attempts
        /\ (rows[e].status = "sent" => rows'[e].status = "sent")
    BY <1>2, <1>a DEF Cancel, ScheduleRow
  <2>4. Dispatched(e) => Dispatched(e)'
    BY <2>1, <2>2 DEF Dispatched, Current
  <2>. QED  BY <1>b, <2>1, <2>2, <2>4, AccountKept
<1>3. ASSUME NEW g \in Gateways, Requeue(g) PROVE Accounted(e)'
  <2>1. performed' = performed /\ lost' = lost
        /\ \A h \in Gateways \ {g} : worker'[h] = worker[h]
    BY <1>3, <1>a DEF Requeue
  <2>2. rows'[e].attempts = rows[e].attempts
        /\ (rows[e].status = "sent" => rows'[e].status = "sent")
    BY <1>3, <1>a DEF Requeue, Stale, ScheduleRow
  <2>3. worker[g].pc \notin Acting
    BY <1>3 DEF Requeue, Acting
  <2>4. Dispatched(e) => Dispatched(e)'
    BY <2>1, <2>2, <2>3, OthersAct
  <2>. QED  BY <1>b, <2>1, <2>2, <2>4, AccountKept
<1>4. ASSUME NEW g \in Gateways, Claim(g) \/ ClaimFails(g) PROVE Accounted(e)'
  <2>1. performed' = performed /\ lost'[e] >= lost[e]
    BY <1>4, <1>b, <1>c DEF Claim, ClaimFails
  <2>2. \A h \in Gateways \ {g} : worker'[h] = worker[h]
    BY <1>4, <1>a DEF Claim, ClaimFails
  <2>3. rows'[e].attempts = rows[e].attempts
        /\ (rows[e].status = "sent" => rows'[e].status = "sent")
    BY <1>4, <1>d DEF Claim, ClaimFails
  <2>4. worker[g].pc \notin Acting
    BY <1>4 DEF Claim, ClaimFails, Acting
  <2>5. Dispatched(e) => Dispatched(e)'
    BY <2>2, <2>3, <2>4, OthersAct
  <2>. QED  BY <1>b, <2>1, <2>3, <2>5, AccountKept
<1>5. ASSUME NEW g \in Gateways, NEW ok \in BOOLEAN, Dispatch(g, ok)
      PROVE  Accounted(e)'
  <2>1. /\ worker[g].pc = "dispatching" /\ rows' = rows /\ lost' = lost
        /\ worker'[g].pc \in Acting /\ worker'[g].batch = worker[g].batch
        /\ \A h \in Gateways \ {g} : worker'[h] = worker[h]
    BY <1>5, <1>a DEF Dispatch, Acting, WorkerRow
  <2>2. CASE e # Current(g)
    <3>1. performed'[e] = performed[e]
      BY <1>5, <1>a, <2>2 DEF Dispatch
    <3>2. Dispatched(e) => Dispatched(e)'
      BY <2>1, <2>2, OthersAct
    <3>. QED  BY <1>b, <2>1, <3>1, <3>2, AccountKept
  <2>3. CASE e = Current(g)
    <3>1. rows[e].status = "dispatching"
      BY <2>1, <2>3, HeadInHand DEF Busy
    <3>2. \A h \in Gateways : ~(worker[h].pc \in Acting /\ Current(h) = e)
      BY <2>1, <2>3, HeadInHand, HeadIsMine DEF Busy, Acting
    <3>3. ~Dispatched(e)
      BY <3>1, <3>2 DEF Dispatched, Acting
    <3>4. Dispatched(e)'
      BY <2>1, <2>3 DEF Dispatched, Current, Acting
    <3>5. performed[e] <= rows[e].attempts + lost[e] + 0
      BY <3>3 DEF Accounted
    <3>6. performed'[e] = performed[e] + 1 \/ performed'[e] = performed[e]
      BY <1>5, <1>a, <2>3 DEF Dispatch
    <3>7. performed[e] \in Nat /\ rows[e].attempts \in Nat
      BY <1>a, Params DEF ScheduleRow
    <3>8. performed'[e] <= rows'[e].attempts + lost'[e] + 1
      BY <1>b, <2>1, <3>5, <3>6, <3>7
    <3>. QED  BY <3>4, <3>8 DEF Accounted
  <2>. QED  BY <2>2, <2>3
<1>6. ASSUME NEW g \in Gateways, FinishSent(g) PROVE Accounted(e)'
  <2>1. performed' = performed /\ lost' = lost
        /\ \A h \in Gateways \ {g} : worker'[h] = worker[h]
    BY <1>6, ProceedType DEF FinishSent, Busy, Acting
  <2>2. rows'[e].attempts = rows[e].attempts
        /\ (rows[e].status = "sent" => rows'[e].status = "sent")
        /\ (e = Current(g) => rows'[e].status = "sent")
    BY <1>6, <1>a DEF FinishSent, ScheduleRow
  <2>3. Dispatched(e) => Dispatched(e)'
    <3>1. CASE e = Current(g)
      BY <2>2, <3>1 DEF Dispatched
    <3>2. CASE e # Current(g)
      BY <2>1, <2>2, <3>2, OthersAct
    <3>. QED  BY <3>1, <3>2
  <2>. QED  BY <1>b, <2>1, <2>2, <2>3, AccountKept
<1>7. ASSUME NEW g \in Gateways, FinishRead(g) PROVE Accounted(e)'
  <2>1. /\ performed' = performed /\ lost' = lost /\ rows' = rows
        /\ worker'[g].pc \in Acting /\ worker'[g].batch = worker[g].batch
        /\ \A h \in Gateways \ {g} : worker'[h] = worker[h]
    BY <1>7, <1>a DEF FinishRead, Acting, WorkerRow
  <2>2. Dispatched(e) => Dispatched(e)'
    <3>1. CASE e = Current(g)
      BY <2>1, <3>1 DEF Dispatched, Current, Acting
    <3>2. CASE e # Current(g)
      BY <2>1, <3>2, OthersAct
    <3>. QED  BY <3>1, <3>2
  <2>. QED  BY <1>b, <2>1, <2>2, AccountKept
<1>8. ASSUME NEW g \in Gateways, FinishError(g) PROVE Accounted(e)'
  <2>1. performed' = performed /\ lost' = lost /\ worker[g].pc = "counting"
        /\ \A h \in Gateways \ {g} : worker'[h] = worker[h]
    BY <1>8, ProceedType DEF FinishError, Busy, Acting
  <2>2. CASE e # Current(g)
    <3>1. rows'[e] = rows[e]
      BY <1>8, <1>a, <2>2 DEF FinishError
    <3>2. Dispatched(e) => Dispatched(e)'
      BY <2>1, <2>2, <3>1, OthersAct
    <3>. QED  BY <1>b, <2>1, <3>1, <3>2, AccountKept
  <2>3. CASE e = Current(g)
    <3>1. rows'[e].attempts = worker[g].tried
      BY <1>8, <1>a, <2>3 DEF FinishError, ScheduleRow
    <3>2. worker[g].tried = rows[e].attempts + 1
      BY <2>1, <2>3 DEF IInv, Carries
    <3>3. performed[e] \in Nat /\ rows[e].attempts \in Nat
      BY <1>a, Params DEF ScheduleRow
    <3>4. performed[e] <= rows[e].attempts + lost[e] + 1
      BY <1>b, <3>3 DEF Accounted
    <3>5. performed'[e] <= rows'[e].attempts + lost'[e] + 0
          /\ performed'[e] <= rows'[e].attempts + lost'[e] + 1
      BY <1>b, <2>1, <3>1, <3>2, <3>3, <3>4
    <3>. QED  BY <3>5 DEF Accounted
  <2>. QED  BY <2>2, <2>3
<1>9. ASSUME NEW g \in Gateways, FinishFails(g) PROVE Accounted(e)'
  <2>1. performed' = performed /\ rows' = rows /\ Losing({Current(g)})
        /\ \A h \in Gateways \ {g} : worker'[h] = worker[h]
    BY <1>9, ProceedType DEF FinishFails, Busy, Acting
  <2>2. lost'[e] >= lost[e] /\ (e = Current(g) => lost'[e] >= lost[e] + 1)
    BY <2>1, <1>c
  <2>3. e # Current(g) /\ Dispatched(e) => Dispatched(e)'
    BY <2>1, OthersAct
  <2>. QED  BY <1>b, <2>1, <2>2, <2>3, AccountKept
<1>10. ASSUME NEW g \in Gateways, Crash(g) PROVE Accounted(e)'
  <2>1. performed' = performed /\ rows' = rows /\ Losing(InHand(g))
        /\ \A h \in Gateways \ {g} : worker'[h] = worker[h]
    BY <1>10, <1>a DEF Crash
  <2>2. lost'[e] >= lost[e] /\ (e \in InHand(g) => lost'[e] >= lost[e] + 1)
    BY <2>1, <1>c
  <2>3. worker[g].pc \in Acting /\ Current(g) = e => e \in InHand(g)
    BY HeadInHand DEF Busy
  <2>4. e \notin InHand(g) /\ Dispatched(e) => Dispatched(e)'
    BY <2>1, <2>3, OthersAct
  <2>. QED  BY <1>b, <2>1, <2>2, <2>4, AccountKept
<1>11. ASSUME NEW g \in Gateways, Restart(g) PROVE Accounted(e)'
  <2>1. performed' = performed /\ rows' = rows /\ lost' = lost
        /\ worker[g].pc \notin Acting
        /\ \A h \in Gateways \ {g} : worker'[h] = worker[h]
    BY <1>11, <1>a DEF Restart, Acting
  <2>2. Dispatched(e) => Dispatched(e)'
    BY <2>1, OthersAct
  <2>. QED  BY <1>b, <2>1, <2>2, AccountKept
<1>12. CASE Tick
  <2>1. performed' = performed /\ lost' = lost
        /\ rows'[e].attempts = rows[e].attempts /\ rows'[e].status = rows[e].status
    BY <1>12, <1>a DEF Tick, ScheduleRow
  <2>2. \A g \in Gateways : /\ worker'[g].batch = worker[g].batch
                            /\ worker[g].pc \in Acting => worker'[g].pc = worker[g].pc
    BY <1>12, <1>a DEF Tick, WorkerRow, Acting
  <2>3. Dispatched(e) => Dispatched(e)'
    BY <2>1, <2>2 DEF Dispatched, Current, Acting
  <2>. QED  BY <1>b, <2>1, <2>3, AccountKept
<1>13. CASE UNCHANGED vars
  BY <1>13 DEF vars, Accounted, Dispatched, Current
<1>. QED
  BY <1>1, <1>2, <1>3, <1>4, <1>5, <1>6, <1>7, <1>8, <1>9, <1>10, <1>11, <1>12,
     <1>13 DEF Next, Works

(* However often an action is retried, recovered or its gateway dies, each *)
(* performance beyond the first is paid for by a counted attempt or by a   *)
(* claim whose outcome was lost.                                           *)
THEOREM PerformancesAccounted == Spec => []PerformedAccounted
<1>. DEFINE Acc == \A id \in Ids : Accounted(id)
<1>1. Init => Blank /\ Acc
  <2>. SUFFICES ASSUME Init, NEW id \in Ids
                PROVE  Accounted(id) /\ rows[id].attempts = 0
    BY DEF Blank
  <2>1. rows[id].attempts = 0 /\ performed[id] = 0 /\ lost[id] = 0
    BY DEF Init, NoRow
  <2>. QED  BY <2>1 DEF Accounted
<1>2. IInv /\ IInv' /\ Blank /\ Acc /\ [Next]_vars => Blank' /\ Acc'
  BY BlankStep, AccountStep DEF IInv
<1>3. Acc <=> PerformedAccounted
  BY DEF Accounted, PerformedAccounted
<1>. HIDE DEF Acc
<1>. QED  BY <1>1, <1>2, <1>3, Invariant, PTL DEF Spec

-----------------------------------------------------------------------------
(* Reminders.                                                              *)
ReminderKeys == [interview : Interviews, reminder : Reminder]
KeyOf(interview, reminder) == ReminderKey(interview, reminder, 0)

(* What a request holds, whatever is in the table.                         *)
RequestRow ==
  [pc : {"none", "inserting", "answered"}, gateway : Gateways \cup {None},
   interview : Interviews \cup {None}, starts : Nat, todo : Seq(Reminder),
   planned : SUBSET Reminder, created : SUBSET Ids]

PlanOK(row) ==
  /\ row.interview \in Interviews /\ IsFiniteSet(row.planned)
  /\ Range(row.todo) \subseteq row.planned
  /\ \A x \in row.planned : row.starts - x.offset \in Delays
  /\ row.pc = "answered" => row.todo = <<>>

RequestsOK ==
  /\ request \in [Requests -> RequestRow]
  /\ \A r \in Requests : request[r].pc # "none" => PlanOK(request[r])

LEMMA HeadOfTodo ==
  ASSUME NEW S, NEW s \in Seq(S), s # <<>>
  PROVE  /\ Head(s) \in S /\ Tail(s) \in Seq(S)
         /\ Range(s) = {Head(s)} \cup Range(Tail(s))
<1>1. Len(s) \in Nat \ {0} /\ DOMAIN s = 1..Len(s) /\ Head(s) = s[1] /\ s[1] \in S
  OBVIOUS
<1>2. /\ Tail(s) \in Seq(S) /\ DOMAIN Tail(s) = 1..Len(s) - 1
      /\ \A i \in 1..Len(s) - 1 : Tail(s)[i] = s[i + 1]
  OBVIOUS
<1>3. ASSUME NEW x \in Range(s) PROVE x \in {Head(s)} \cup Range(Tail(s))
  <2>1. PICK i \in 1..Len(s) : x = s[i]
    BY <1>1, <1>3 DEF Range
  <2>2. i = 1 \/ (i - 1 \in 1..Len(s) - 1 /\ Tail(s)[i - 1] = s[i])
    BY <1>1, <1>2
  <2>. QED  BY <2>1, <2>2, <1>1, <1>2 DEF Range
<1>4. ASSUME NEW x \in Range(Tail(s)) PROVE x \in Range(s)
  <2>1. PICK i \in 1..Len(s) - 1 : x = Tail(s)[i]
    BY <1>2, <1>4 DEF Range
  <2>2. i + 1 \in 1..Len(s) /\ x = s[i + 1]
    BY <2>1, <1>1, <1>2
  <2>. QED  BY <2>2, <1>1 DEF Range
<1>5. Head(s) \in Range(s)
  BY <1>1 DEF Range
<1>. QED  BY <1>1, <1>2, <1>3, <1>4, <1>5

(* The places of an n-column table, counted row by row.                    *)
LEMMA RowAndColumn ==
  ASSUME NEW m \in Nat, NEW n \in Nat, NEW k \in 1..m * n
  PROVE  /\ ((k - 1) \div n) + 1 \in 1..m
         /\ ((k - 1) % n) + 1 \in 1..n
<1>1. m * n \in Nat
  OBVIOUS
<1>2. n > 0
  <2>1. n = 0 => m * n = 0
    OBVIOUS
  <2>. QED  BY <2>1, <1>1
<1>. DEFINE q == (k - 1) \div n
            c == (k - 1) % n
<1>3. q \in Int /\ c \in 0..n - 1 /\ k - 1 = n * q + c
  BY <1>1, <1>2
<1>4. q >= 0
  BY <1>1, <1>2
<1>5. q < m
  <2>1. SUFFICES ASSUME q >= m PROVE FALSE
    BY <1>3
  <2>2. m * n <= q * n
    BY <2>1, <1>3, <1>4, TimesLess
  <2>3. n * q = q * n /\ q * n \in Int
    BY <1>3
  <2>. HIDE DEF q, c
  <2>. QED  BY <2>2, <2>3, <1>1, <1>3
<1>. QED  BY <1>3, <1>4, <1>5

LEMMA PlanIsOK ==
  ASSUME NEW starts \in Starts, NEW offsets \in SUBSET Offsets,
         NEW channels \in SeqOf(Channels, MaxChannels),
         NEW ahead \in Ahead(offsets, starts)
  PROVE  LET plan == Planned(ahead, channels) IN
         /\ plan \in Seq(Reminder) /\ IsFiniteSet(Range(plan))
         /\ Range(plan) \subseteq Reminder
         /\ \A x \in Range(plan) : starts - x.offset \in Delays
<1>. DEFINE its == {o \in offsets : starts > o}
            plan == Planned(ahead, channels)
            n == Len(channels)
            m == Len(ahead)
<1>1. n \in Nat /\ \A j \in 1..n : channels[j] \in Channels
  <2>1. PICK l \in 0..MaxChannels : channels \in [1..l -> Channels]
    BY DEF SeqOf
  <2>. QED  BY <2>1, RemindersAssumption
<1>2. m \in Nat /\ \A i \in 1..m : ahead[i] \in its
  <2>1. PICK l \in 0..Cardinality(its) : ahead \in [1..l -> its]
    BY DEF SeqOf, Ahead
  <2>. QED  BY <2>1
<1>3. /\ m * n \in Nat /\ DOMAIN plan = 1..m * n
      /\ \A k \in 1..m * n :
           /\ plan[k] = [offset |-> ahead[((k - 1) \div n) + 1],
                         channel |-> channels[((k - 1) % n) + 1]]
           /\ ahead[((k - 1) \div n) + 1] \in its
           /\ channels[((k - 1) % n) + 1] \in Channels
  BY <1>1, <1>2, RowAndColumn DEF Planned
<1>4. \A k \in 1..m * n : /\ plan[k] \in Reminder
                          /\ starts - plan[k].offset \in Delays
  <2>. SUFFICES ASSUME NEW k \in 1..m * n
                PROVE  plan[k] \in Reminder /\ starts - plan[k].offset \in Delays
    OBVIOUS
  <2>. DEFINE o == ahead[((k - 1) \div n) + 1]
              c == channels[((k - 1) % n) + 1]
  <2>1. plan[k] = [offset |-> o, channel |-> c] /\ o \in its /\ c \in Channels
    BY <1>3
  <2>. HIDE DEF plan, o, c, m, n
  <2>2. o \in Offsets /\ starts > o
    BY <2>1
  <2>. QED  BY <2>1, <2>2, RemindersAssumption DEF Reminder
<1>5. plan \in Seq(Reminder) /\ Len(plan) = m * n
  <2>1. plan = [k \in 1..m * n |-> plan[k]]
    BY <1>3 DEF Planned
  <2>. HIDE DEF plan, m, n
  <2>. QED  BY <1>3, <1>4, <2>1
<1>6. IsFiniteSet(Range(plan))
  <2>. HIDE DEF plan, m, n
  <2>1. IsFiniteSet(1..m * n)
    BY <1>3, FS_Interval
  <2>2. plan \in [1..m * n -> Range(plan)]
    BY <1>3, <1>5 DEF Range
  <2>3. plan \in Surjection(1..m * n, Range(plan))
    BY <2>2, <1>3 DEF Surjection, Range
  <2>. QED  BY <2>1, <2>3, FS_Surjection
<1>. HIDE DEF plan, m, n, its
<1>7. \A x \in Range(plan) : \E k \in 1..m * n : x = plan[k]
  BY <1>3 DEF Range
<1>. QED  BY <1>4, <1>5, <1>6, <1>7 DEF plan

-----------------------------------------------------------------------------
(* What a step does to one request.                                        *)
Begun(r) ==
  /\ request'[r] \in RequestRow /\ PlanOK(request'[r])
  /\ request'[r].pc = "inserting" /\ request'[r].created = {}
  /\ request'[r].planned = Range(request'[r].todo)
Answered(r) ==
  /\ request[r].pc = "inserting" /\ request[r].todo = <<>>
  /\ request'[r] = [request[r] EXCEPT !.pc = "answered"]
Inserted(r) ==
  /\ request[r].pc = "inserting" /\ request[r].todo # <<>>
  /\ \E id \in Ids :
       /\ request'[r] = [request[r] EXCEPT !.todo = Tail(@), !.created = @ \cup {id}]
       /\ rows'[id].status # "none"
       /\ rows'[id].key = KeyOf(request[r].interview, Head(request[r].todo))

Moves(r) == \/ request'[r] = request[r]
            \/ request'[r] = NoRequest
            \/ Begun(r) \/ Answered(r) \/ Inserted(r)

(* What the steps of the scheduler do to the keys: an insert brings one.   *)
Brings(id, key) == \E delay \in Delays : Insert(id, key, delay)
Others ==
  \/ \E id \in Ids : Cancel(id)
  \/ \E g \in Gateways :
       Works(g) \/ ClaimFails(g) \/ FinishFails(g) \/ Crash(g) \/ Restart(g)
  \/ Tick
  \/ UNCHANGED vars

LEMMA InsertBrings ==
  ASSUME TypeOK, NEW id \in Ids, NEW key, Brings(id, key)
  PROVE  /\ rows[id].status = "none"
         /\ \A other \in Ids : key # None => rows[other].key # key
         /\ rows'[id].status = "pending" /\ rows'[id].key = key
         /\ \A other \in Ids \ {id} : rows'[other] = rows[other]
BY DEF Brings, Insert, TypeOK, NoRow

(* The head of the list is what an insert looks for in the table.          *)
LEMMA NextReminder ==
  ASSUME RequestsOK, NEW r \in Requests, request[r].pc # "none", request[r].todo # <<>>
  PROVE  /\ Head(request[r].todo) \in request[r].planned
         /\ Head(request[r].todo) \in Reminder
         /\ KeyOf(request[r].interview, Head(request[r].todo)) \in ReminderKeys
         /\ ReminderKeys \subseteq Keys
         /\ request[r].starts - Head(request[r].todo).offset \in Delays
<1>1. request[r] \in RequestRow /\ PlanOK(request[r])
  BY DEF RequestsOK
<1>2. request[r].todo \in Seq(Reminder) /\ Range(request[r].todo) \subseteq request[r].planned
  BY <1>1 DEF RequestRow, PlanOK
<1>3. Head(request[r].todo) \in Range(request[r].todo) /\ Head(request[r].todo) \in Reminder
  BY <1>2, HeadOfTodo
<1>. QED
  BY <1>1, <1>2, <1>3, RemindersAssumption DEF PlanOK, KeyOf, ReminderKey, ReminderKeys

LEMMA StepIs ==
  ASSUME TypeOK, RequestsOK, [RemindersNext]_remindersVars
  PROVE  /\ \/ Others
            \/ \E id \in Ids, key \in ReminderKeys \cup {None} : Brings(id, key)
         /\ \A r \in Requests : Moves(r)
<1>. DEFINE Insertion == \E id \in Ids, key \in ReminderKeys \cup {None} : Brings(id, key)
            Goal == (Others \/ Insertion) /\ \A r \in Requests : Moves(r)
<1>a. \A r \in Requests : request[r] \in RequestRow
  BY DEF RequestsOK
<1>b. request \in [Requests -> RequestRow]
  BY DEF RequestsOK
<1>1. CASE Schedule
  <2>1. Others \/ Insertion
    BY <1>1 DEF Schedule, Others, Brings
  <2>2. (\A r \in Requests : request'[r] = request[r] \/ request'[r] = NoRequest)
    BY <1>1, <1>b DEF Schedule
  <2>. QED  BY <2>1, <2>2 DEF Moves
<1>2. ASSUME NEW r \in Requests, InsertNext(r) PROVE Goal
  <2>. DEFINE x == Head(request[r].todo)
              k == KeyOf(request[r].interview, x)
  <2>1. request[r].pc = "inserting" /\ request[r].todo # <<>>
    BY <1>2 DEF InsertNext
  <2>2. k \in ReminderKeys /\ request[r].starts - x.offset \in Delays
    BY <2>1, NextReminder
  <2>3. PICK id \in Ids :
          /\ Created(r, id)
          /\ \/ UNCHANGED vars /\ id \in Holders(k)
             \/ Brings(id, k)
    BY <1>2, <2>2 DEF InsertNext, Brings, KeyOf, ReminderKey, Holders
  <2>4. rows'[id].status # "none" /\ rows'[id].key = k
    <3>1. CASE UNCHANGED vars /\ id \in Holders(k)
      BY <3>1 DEF vars, Holders
    <3>2. CASE Brings(id, k)
      BY <3>2, InsertBrings
    <3>. QED  BY <2>3, <3>1, <3>2
  <2>5. /\ request'[r] = [request[r] EXCEPT !.todo = Tail(@), !.created = @ \cup {id}]
        /\ \A q \in Requests \ {r} : request'[q] = request[q]
    BY <2>3, <1>b DEF Created, RequestRow
  <2>6. Inserted(r)
    BY <2>1, <2>4, <2>5 DEF Inserted
  <2>. QED  BY <2>2, <2>3, <2>5, <2>6 DEF Moves, Others
<1>3. ASSUME NEW r \in Requests, InsertFails(r) \/ Done(r) PROVE Goal
  <2>1. UNCHANGED vars /\ \A q \in Requests : request'[q] = request[q] \/ request'[q] = NoRequest
    BY <1>3, <1>b DEF InsertFails, Done
  <2>. QED  BY <2>1 DEF Moves, Others
<1>4. ASSUME NEW r \in Requests, Answer(r) PROVE Goal
  <2>1. UNCHANGED vars /\ Answered(r) /\ \A q \in Requests \ {r} : request'[q] = request[q]
    BY <1>4, <1>b DEF Answer, Answered
  <2>. QED  BY <2>1 DEF Moves, Others
<1>5. ASSUME NEW r \in Requests, NEW g \in Gateways, NEW interview \in Interviews,
             NEW starts \in Starts, Request(r, g, interview, starts)
      PROVE  Goal
  <2>1. PICK offsets \in SUBSET Offsets, channels \in SeqOf(Channels, MaxChannels) :
          \E ahead \in Ahead(offsets, starts) :
            LET plan == Planned(ahead, channels) IN
            request' = [request EXCEPT ![r] =
              [pc |-> "inserting", gateway |-> g, interview |-> interview,
               starts |-> starts, todo |-> plan, planned |-> Range(plan), created |-> {}]]
    BY <1>5 DEF Request
  <2>2. PICK ahead \in Ahead(offsets, starts) :
            request' = [request EXCEPT ![r] =
              [pc |-> "inserting", gateway |-> g, interview |-> interview,
               starts |-> starts, todo |-> Planned(ahead, channels),
               planned |-> Range(Planned(ahead, channels)), created |-> {}]]
    BY <2>1
  <2>. DEFINE plan == Planned(ahead, channels)
  <2>3. /\ plan \in Seq(Reminder) /\ IsFiniteSet(Range(plan))
        /\ Range(plan) \subseteq Reminder
        /\ \A x \in Range(plan) : starts - x.offset \in Delays
    BY PlanIsOK
  <2>4. /\ request'[r] = [pc |-> "inserting", gateway |-> g, interview |-> interview,
                          starts |-> starts, todo |-> plan, planned |-> Range(plan),
                          created |-> {}]
        /\ \A q \in Requests \ {r} : request'[q] = request[q]
    BY <2>2, <1>b
  <2>. HIDE DEF plan
  <2>5. Begun(r)
    BY <2>3, <2>4, RemindersAssumption DEF Begun, RequestRow, PlanOK
  <2>. QED  BY <1>5, <2>4, <2>5 DEF Moves, Others, Request
<1>6. CASE UNCHANGED remindersVars
  BY <1>6 DEF remindersVars, Others, Moves
<1>. QED  BY <1>1, <1>2, <1>3, <1>4, <1>5, <1>6 DEF RemindersNext

LEMMA NoneOK == NoRequest \in RequestRow
<1>1. <<>> \in Seq(Reminder)
  OBVIOUS
<1>. QED  BY <1>1 DEF NoRequest, RequestRow

LEMMA MoveOK ==
  ASSUME RequestsOK, NEW r \in Requests, Moves(r)
  PROVE  /\ request'[r] \in RequestRow
         /\ request'[r].pc # "none" => PlanOK(request'[r])
<1>. DEFINE old == request[r]
<1>1. old \in RequestRow /\ (old.pc # "none" => PlanOK(old))
  BY DEF RequestsOK
<1>2. CASE request'[r] = NoRequest
  BY <1>2, NoneOK DEF NoRequest
<1>3. CASE Answered(r)
  BY <1>1, <1>3 DEF Answered, RequestRow, PlanOK
<1>4. CASE Inserted(r)
  <2>. DEFINE t == old.todo
  <2>1. t \in Seq(Reminder) /\ t # <<>> /\ old.pc = "inserting"
    BY <1>1, <1>4 DEF Inserted, RequestRow
  <2>2. Tail(t) \in Seq(Reminder) /\ Range(Tail(t)) \subseteq Range(t)
    BY <2>1, HeadOfTodo
  <2>3. PICK id \in Ids : request'[r] = [old EXCEPT !.todo = Tail(@), !.created = @ \cup {id}]
    BY <1>4 DEF Inserted
  <2>. DEFINE new == [old EXCEPT !.todo = Tail(@), !.created = @ \cup {id}]
  <2>5. /\ new \in RequestRow /\ new.pc = old.pc /\ new.todo = Tail(t)
        /\ new.interview = old.interview /\ new.starts = old.starts
        /\ new.planned = old.planned
    <3>1. old.created \cup {id} \in SUBSET Ids
      BY <1>1 DEF RequestRow
    <3>. HIDE DEF old
    <3>. QED  BY <1>1, <2>2, <3>1 DEF RequestRow
  <2>. HIDE DEF new
  <2>4. /\ request'[r] \in RequestRow
        /\ request'[r].pc = "inserting" /\ request'[r].todo = Tail(t)
        /\ request'[r].interview = old.interview /\ request'[r].starts = old.starts
        /\ request'[r].planned = old.planned
    BY <2>1, <2>3, <2>5 DEF new
  <2>. QED  BY <1>1, <2>1, <2>2, <2>4 DEF PlanOK
<1>. QED  BY <1>1, <1>2, <1>3, <1>4 DEF Moves, Begun

LEMMA RequestsStayOK ==
  ASSUME TypeOK, RequestsOK, [RemindersNext]_remindersVars
  PROVE  RequestsOK'
<1>1. \A r \in Requests : /\ request'[r] \in RequestRow
                          /\ request'[r].pc # "none" => PlanOK(request'[r])
  BY StepIs, MoveOK
<1>2. \E f : request' = [r \in Requests |-> f[r]]
  <2>. DEFINE Maps == \E f : request' = [r \in Requests |-> f[r]]
  <2>a. request = [r \in Requests |-> request[r]]
    BY DEF RequestsOK
  <2>1. CASE UNCHANGED request
    BY <2>1, <2>a
  <2>2. ASSUME NEW r, NEW row, request' = [request EXCEPT ![r] = row] PROVE Maps
    BY <2>2, <2>a
  <2>3. CASE Schedule
    <3>1. CASE UNCHANGED request
      BY <3>1, <2>1
    <3>2. ASSUME NEW g \in Gateways, Crash(g),
                 request' = [r \in Requests |-> IF request[r].gateway = g THEN NoRequest
                                               ELSE request[r]]
          PROVE  Maps
      BY <3>2
    <3>. QED  BY <2>3, <3>1, <3>2 DEF Schedule
  <2>4. ASSUME NEW r \in Requests,
               InsertNext(r) \/ InsertFails(r) \/ Answer(r) \/ Done(r)
               \/ \E g \in Gateways, interview \in Interviews, starts \in Starts :
                    Request(r, g, interview, starts)
        PROVE  Maps
    <3>1. \E row : request' = [request EXCEPT ![r] = row]
      BY <2>4 DEF InsertNext, InsertFails, Answer, Done, Request, Created
    <3>. QED  BY <3>1, <2>2
  <2>. QED  BY <2>1, <2>3, <2>4 DEF RemindersNext, remindersVars
<1>3. PICK f : request' = [r \in Requests |-> f[r]]
  BY <1>2
<1>4. request' \in [Requests -> RequestRow]
  BY <1>1, <1>3
<1>. QED  BY <1>1, <1>4 DEF RequestsOK, PlanOK, RequestRow

(* Reminders are actions like others: the module implements Scheduler.     *)
LEMMA StepSchedules ==
  TypeOK /\ RequestsOK /\ [RemindersNext]_remindersVars => [Next]_vars
<1>. SUFFICES ASSUME TypeOK, RequestsOK, [RemindersNext]_remindersVars
              PROVE  [Next]_vars
  OBVIOUS
<1>1. \/ Others
      \/ \E id \in Ids, key \in ReminderKeys \cup {None} : Brings(id, key)
  BY StepIs
<1>2. ReminderKeys \subseteq Keys
  BY RemindersAssumption DEF ReminderKeys
<1>. QED  BY <1>1, <1>2 DEF Others, Brings, Next

(* An idempotency key is in one row, and only in one that is stored.       *)
KeysOK ==
  \A id \in Ids :
    /\ rows[id].status = "none" => rows[id].key = None
    /\ rows[id].key \in ReminderKeys \cup {None}
    /\ \A other \in Ids :
         rows[other].key = rows[id].key => rows[id].key = None \/ other = id

KeysStay ==
  \A id \in Ids : /\ rows'[id].key = rows[id].key
                  /\ rows'[id].status = "none" <=> rows[id].status = "none"

LEMMA OthersKeepKeys ==
  ASSUME IInv, Others
  PROVE  KeysStay
<1>. SUFFICES ASSUME NEW e \in Ids
              PROVE  /\ rows'[e].key = rows[e].key
                     /\ rows'[e].status = "none" <=> rows[e].status = "none"
  BY DEF KeysStay
<1>. DEFINE Same == /\ rows'[e].key = rows[e].key
                    /\ rows'[e].status = "none" <=> rows[e].status = "none"
<1>a. rows \in [Ids -> ScheduleRow] /\ rows[e] \in ScheduleRow
  BY DEF IInv, TypeOK, ScheduleRow
<1>1. ASSUME NEW id \in Ids, Cancel(id) PROVE Same
  BY <1>1, <1>a DEF Cancel, ScheduleRow
<1>2. ASSUME NEW g \in Gateways, Requeue(g) PROVE Same
  BY <1>2, <1>a DEF Requeue, Stale, ScheduleRow
<1>3. ASSUME NEW b \in Batches, rows' = Claimed(b) PROVE Same
  <2>1. e \in Range(b) => rows[e].status = "pending"
    BY BatchFacts DEF Due
  <2>. QED  BY <1>3, <1>a, <2>1 DEF Claimed, ScheduleRow
<1>4. ASSUME NEW g \in Gateways, Claim(g) \/ ClaimFails(g) PROVE Same
  BY <1>3, <1>4 DEF Claim, ClaimFails
<1>5. ASSUME NEW g \in Gateways, FinishSent(g) \/ FinishError(g) PROVE Same
  <2>1. Current(g) \in Ids /\ rows[Current(g)].status = "dispatching"
    BY <1>5, HeadInHand DEF FinishSent, FinishError, Busy, Acting
  <2>2. CASE FinishSent(g)
    BY <2>1, <2>2, <1>a DEF FinishSent, ScheduleRow
  <2>3. CASE FinishError(g)
    BY <2>1, <2>3, <1>a DEF FinishError, ScheduleRow
  <2>. QED  BY <1>5, <2>2, <2>3
<1>6. ASSUME NEW g \in Gateways,
             Dispatch(g, TRUE) \/ Dispatch(g, FALSE) \/ FinishRead(g) \/ FinishFails(g)
             \/ Crash(g) \/ Restart(g)
      PROVE  Same
  BY <1>6 DEF Dispatch, FinishRead, FinishFails, Crash, Restart
<1>7. CASE Tick
  BY <1>7, <1>a DEF Tick, ScheduleRow
<1>8. CASE UNCHANGED vars
  BY <1>8 DEF vars
<1>. QED  BY <1>1, <1>2, <1>4, <1>5, <1>6, <1>7, <1>8 DEF Others, Works

(* A stored row stays, with its key. *)
LEMMA StoredStays ==
  ASSUME IInv, RequestsOK, [RemindersNext]_remindersVars,
         NEW e \in Ids, rows[e].status # "none"
  PROVE  rows'[e].status # "none" /\ rows'[e].key = rows[e].key
<1>1. CASE Others
  BY <1>1, OthersKeepKeys DEF KeysStay
<1>2. ASSUME NEW id \in Ids, NEW key, Brings(id, key)
      PROVE  rows'[e] = rows[e]
  BY <1>2, InsertBrings DEF IInv
<1>. QED  BY <1>1, <1>2, StepIs DEF IInv

LEMMA KeysStayOK ==
  ASSUME IInv, RequestsOK, KeysOK, [RemindersNext]_remindersVars
  PROVE  KeysOK'
<1>1. CASE Others
  BY <1>1, OthersKeepKeys DEF KeysStay, KeysOK
<1>2. ASSUME NEW id \in Ids, NEW key \in ReminderKeys \cup {None}, Brings(id, key)
      PROVE  KeysOK'
  <2>1. /\ \A other \in Ids : key # None => rows[other].key # key
        /\ rows'[id].status = "pending" /\ rows'[id].key = key
        /\ \A other \in Ids \ {id} : rows'[other] = rows[other]
    BY <1>2, InsertBrings DEF IInv
  <2>. SUFFICES ASSUME NEW e \in Ids
                PROVE  /\ rows'[e].status = "none" => rows'[e].key = None
                       /\ rows'[e].key \in ReminderKeys \cup {None}
                       /\ \A other \in Ids : rows'[other].key = rows'[e].key
                                              => rows'[e].key = None \/ other = e
    BY DEF KeysOK, ReminderKeys, Reminder
  <2>. QED  BY <2>1 DEF KeysOK
<1>. QED  BY <1>1, <1>2, StepIs DEF IInv

(* What a request is told of: the stored actions of its reminders, of all  *)
(* of them once its list is empty.                                         *)
Told(r) ==
  LET interview == request[r].interview IN
  request[r].pc # "none" =>
    /\ \A id \in request[r].created :
         /\ rows[id].status # "none"
         /\ \E x \in request[r].planned : rows[id].key = KeyOf(interview, x)
    /\ \A x \in request[r].planned \ Range(request[r].todo) :
         \E id \in request[r].created : rows[id].key = KeyOf(interview, x)

LEMMA ToldStays ==
  ASSUME IInv, RequestsOK, [RemindersNext]_remindersVars, NEW r \in Requests, Told(r)
  PROVE  Told(r)'
<1>. DEFINE old == request[r]
<1>1. Moves(r)
  BY StepIs DEF IInv
<1>2. old \in RequestRow
  BY DEF RequestsOK
<1>3. \A id \in old.created : id \in Ids
  BY <1>2 DEF RequestRow
<1>4. \A id \in Ids : rows[id].status # "none"
        => rows'[id].status # "none" /\ rows'[id].key = rows[id].key
  BY StoredStays
<1>5. CASE request'[r] = NoRequest
  BY <1>5 DEF Told, NoRequest
<1>6. CASE Begun(r)
  BY <1>6 DEF Begun, Told
<1>7. CASE request'[r] = old \/ Answered(r)
  <2>1. /\ request'[r].interview = old.interview /\ request'[r].planned = old.planned
        /\ request'[r].created = old.created /\ request'[r].todo = old.todo
        /\ request'[r].pc # "none" => old.pc # "none"
    BY <1>2, <1>7 DEF Answered, RequestRow
  <2>. HIDE DEF old
  <2>. QED  BY <1>3, <1>4, <2>1 DEF Told, KeyOf, ReminderKey, old
<1>8. CASE Inserted(r)
  <2>. DEFINE h == Head(old.todo)
  <2>1. PICK id \in Ids :
          /\ request'[r] = [old EXCEPT !.todo = Tail(@), !.created = @ \cup {id}]
          /\ rows'[id].status # "none" /\ rows'[id].key = KeyOf(old.interview, h)
    BY <1>8 DEF Inserted
  <2>2. old.pc = "inserting" /\ old.todo # <<>> /\ old.todo \in Seq(Reminder)
    BY <1>2, <1>8 DEF Inserted, RequestRow
  <2>3. Range(old.todo) = {h} \cup Range(Tail(old.todo))
    BY <2>2, HeadOfTodo
  <2>4. h \in old.planned
    BY <2>2, NextReminder
  <2>5. /\ request'[r].interview = old.interview /\ request'[r].planned = old.planned
        /\ request'[r].created = old.created \cup {id}
        /\ request'[r].todo = Tail(old.todo)
    BY <1>2, <2>1 DEF RequestRow
  <2>6. ASSUME NEW e \in old.created \cup {id}
        PROVE  /\ rows'[e].status # "none"
               /\ \E x \in old.planned : rows'[e].key = KeyOf(old.interview, x)
    <3>1. CASE e = id
      BY <3>1, <2>1, <2>4
    <3>2. CASE e \in old.created
      BY <3>2, <2>2, <1>3, <1>4 DEF Told
    <3>. QED  BY <2>6, <3>1, <3>2
  <2>7. ASSUME NEW x \in old.planned \ Range(Tail(old.todo))
        PROVE  \E e \in old.created \cup {id} : rows'[e].key = KeyOf(old.interview, x)
    <3>1. CASE x = h
      BY <3>1, <2>1
    <3>2. CASE x # h
      <4>1. PICK e \in old.created : rows[e].key = KeyOf(old.interview, x)
        BY <3>2, <2>2, <2>3, <2>7 DEF Told
      <4>2. rows[e].status # "none"
        BY <4>1, <2>2 DEF Told
      <4>. QED  BY <4>1, <4>2, <1>3, <1>4
    <3>. QED  BY <3>1, <3>2
  <2>. HIDE DEF old, h
  <2>. QED  BY <2>5, <2>6, <2>7 DEF Told, KeyOf, ReminderKey
<1>. QED  BY <1>1, <1>5, <1>6, <1>7, <1>8 DEF Moves

RInv == RequestsOK /\ KeysOK /\ \A r \in Requests : Told(r)

LEMMA RInvHolds ==
  RemindersSpec => Spec /\ [](RInv /\ IInv)
<1>1. RemindersInit => Init /\ RInv
  <2>. SUFFICES ASSUME RemindersInit PROVE Init /\ RInv
    OBVIOUS
  <2>1. Init /\ request = [r \in Requests |-> NoRequest]
    BY DEF RemindersInit
  <2>2. RequestsOK
    BY <2>1, NoneOK DEF RequestsOK, NoRequest
  <2>3. KeysOK
    BY <2>1 DEF Init, NoRow, KeysOK
  <2>4. \A r \in Requests : Told(r)
    BY <2>1 DEF Told, NoRequest
  <2>. QED  BY <2>1, <2>2, <2>3, <2>4 DEF RInv
<1>2. RInv /\ IInv /\ [RemindersNext]_remindersVars => [Next]_vars /\ RInv'
  BY StepSchedules, RequestsStayOK, KeysStayOK, ToldStays DEF RInv, IInv
<1>4. Init => IInv
  BY InitHolds
<1>5. IInv /\ [Next]_vars => IInv'
  BY StepHolds
<1>. QED  BY <1>1, <1>2, <1>4, <1>5, PTL DEF RemindersSpec, Spec

(* However requests for reminders come, the scheduler's promises hold:     *)
(* what happens to its table and its workers is a behaviour of Scheduler.  *)
THEOREM RemindersAreActions == RemindersSpec => Spec
BY RInvHolds, PTL

LEMMA OneHolder ==
  ASSUME RInv, NEW interview \in Interviews, NEW x \in Reminder
  PROVE  /\ \A id \in Of(interview, x) : /\ id \in Ids
                                         /\ rows[id].key = KeyOf(interview, x)
         /\ Cardinality(Of(interview, x)) <= 1
<1>. DEFINE its == Of(interview, x)
<1>1. ASSUME NEW id \in its PROVE id \in Ids /\ rows[id].key = KeyOf(interview, x)
  <2>1. /\ id \in Ids /\ rows[id].key \in ReminderKeys
        /\ rows[id].key.interview = interview /\ rows[id].key.reminder = x
    BY <1>1 DEF Of, RInv, KeysOK
  <2>. QED  BY <2>1 DEF ReminderKeys, KeyOf, ReminderKey
<1>2. \A id, other \in its : id = other
  <2>1. ASSUME NEW id \in its, NEW other \in its PROVE id = other
    <3>1. rows[id].key # None /\ rows[id].key = rows[other].key
      BY <1>1 DEF Of
    <3>. QED  BY <3>1, <1>1 DEF RInv, KeysOK
  <2>. QED  BY <2>1
<1>3. Cardinality(its) <= 1
  <2>1. CASE its = {}
    BY <2>1, FS_EmptySet
  <2>2. ASSUME NEW id \in its PROVE Cardinality(its) <= 1
    <3>1. its = {id}
      BY <1>2, <2>2
    <3>2. Cardinality({id}) = 1
      BY FS_Singleton
    <3>. QED  BY <3>1, <3>2
  <2>. QED  BY <2>1, <2>2
<1>. QED  BY <1>1, <1>3

LEMMA OnceEach ==
  RInv /\ IInv /\ PerformedAccounted => RemindedOnce
<1>. SUFFICES ASSUME RInv, IInv, PerformedAccounted,
                     NEW interview \in Interviews, NEW x \in Reminder
              PROVE  /\ Cardinality(Of(interview, x)) <= 1
                     /\ \A id \in Of(interview, x) :
                          performed[id] <= 1 + rows[id].attempts + lost[id]
  BY DEF RemindedOnce
<1>1. ASSUME NEW id \in Of(interview, x)
      PROVE  performed[id] <= 1 + rows[id].attempts + lost[id]
  <2>1. id \in Ids
    BY OneHolder
  <2>2. /\ performed[id] \in Nat /\ lost[id] \in Nat /\ rows[id].attempts \in 0..MaxAttempts
    BY <2>1 DEF IInv, TypeOK
  <2>3. performed[id] <= rows[id].attempts + lost[id] + (IF Dispatched(id) THEN 1 ELSE 0)
    BY <2>1 DEF PerformedAccounted
  <2>. QED  BY <2>2, <2>3, Params
<1>. QED  BY <1>1, OneHolder

LEMMA AnswersAreComplete == RInv => AnsweredIsPlanned
<1>. SUFFICES ASSUME RInv, NEW r \in Requests, request[r].pc = "answered"
              PROVE  /\ \A x \in request[r].planned :
                          Of(request[r].interview, x) \cap request[r].created # {}
                     /\ Cardinality(request[r].created) = Cardinality(request[r].planned)
  BY DEF AnsweredIsPlanned
<1>. DEFINE created == request[r].created
            planned == request[r].planned
            interview == request[r].interview
<1>1. /\ request[r] \in RequestRow /\ PlanOK(request[r])
      /\ created \subseteq Ids /\ planned \subseteq Reminder
      /\ IsFiniteSet(planned) /\ request[r].todo = <<>>
  BY DEF RInv, RequestsOK, RequestRow, PlanOK
<1>2. Range(request[r].todo) = {}
  BY <1>1 DEF Range
<1>3. /\ \A id \in created :
           /\ rows[id].status # "none"
           /\ \E x \in planned : rows[id].key = KeyOf(interview, x)
      /\ \A x \in planned : \E id \in created : rows[id].key = KeyOf(interview, x)
  BY <1>2 DEF RInv, Told
<1>4. \A id \in created, other \in created : rows[id].key = rows[other].key => id = other
  <2>1. \A id \in created : rows[id].key # None
    <3>1. \A x \in planned : KeyOf(interview, x) \in Keys
      BY <1>1, RemindersAssumption DEF PlanOK, KeyOf, ReminderKey
    <3>2. None \notin Keys
      BY SchedulerAssumption
    <3>. QED  BY <1>3, <3>1, <3>2
  <2>. QED  BY <1>1, <2>1 DEF RInv, KeysOK
<1>5. \A x \in planned : Of(interview, x) \cap created # {}
  <2>. SUFFICES ASSUME NEW x \in planned PROVE Of(interview, x) \cap created # {}
    OBVIOUS
  <2>1. PICK id \in created : rows[id].key = KeyOf(interview, x)
    BY <1>3
  <2>2. rows[id].key # None
    BY <2>1, <1>1, RemindersAssumption, SchedulerAssumption DEF PlanOK, KeyOf, ReminderKey
  <2>3. id \in Of(interview, x)
    BY <2>1, <2>2, <1>1, <1>3 DEF Of, KeyOf, ReminderKey
  <2>. QED  BY <2>3
<1>6. Cardinality(created) = Cardinality(planned)
  <2>. DEFINE f == [x \in planned |-> CHOOSE id \in created : rows[id].key = KeyOf(interview, x)]
  <2>1. \A x \in planned : f[x] \in created /\ rows[f[x]].key = KeyOf(interview, x)
    BY <1>3
  <2>2. f \in [planned -> created] /\ DOMAIN f = planned
    BY <2>1
  <2>. HIDE DEF f
  <2>3. \A x, y \in planned : f[x] = f[y] => x = y
    <3>. SUFFICES ASSUME NEW x \in planned, NEW y \in planned, f[x] = f[y] PROVE x = y
      OBVIOUS
    <3>1. KeyOf(interview, x) = KeyOf(interview, y)
      BY <2>1
    <3>2. KeyOf(interview, x).reminder = x /\ KeyOf(interview, y).reminder = y
      BY DEF KeyOf, ReminderKey
    <3>. QED  BY <3>1, <3>2
  <2>4. \A id \in created : \E x \in planned : f[x] = id
    <3>. SUFFICES ASSUME NEW id \in created PROVE \E x \in planned : f[x] = id
      OBVIOUS
    <3>1. PICK x \in planned : rows[id].key = KeyOf(interview, x)
      BY <1>3
    <3>. QED  BY <2>1, <3>1, <1>4
  <2>. HIDE DEF created, planned
  <2>5. f \in Surjection(planned, created) /\ f \in Injection(planned, created)
    BY <2>2, <2>3, <2>4 DEF Surjection, Injection, IsInjective
  <2>. QED  BY <1>1, <2>5, FS_Surjection
<1>. QED  BY <1>5, <1>6

(* A reminder is one action however requests for it overlap, break off,    *)
(* are repeated or move the interview, performed no more often than the    *)
(* failures of that action explain; and who is answered with success is    *)
(* told of an action for each reminder asked for and of no other.          *)
THEOREM RemindersAreKept == RemindersSpec => []RemindersKept
<1>1. RInv /\ IInv /\ PerformedAccounted => RemindersKept
  BY OnceEach, AnswersAreComplete DEF RemindersKept
<1>. QED  BY <1>1, RInvHolds, PerformancesAccounted, PTL
=============================================================================
