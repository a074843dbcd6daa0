----------------------------- MODULE Scheduler -----------------------------
(***************************************************************************)
(* The action scheduler of gateway/src/scheduler.rs: a SQLite table of     *)
(* actions (calls, messages, calendar events), the admin API that creates  *)
(* and cancels them, and in each gateway process a worker that claims due  *)
(* actions in batches, dispatches them one after the other and records     *)
(* each outcome.  Several gateways may share the table, as they do while   *)
(* one is being replaced.  Each statement, and the transaction of          *)
(* claim_due, is one action; they take no time, a dispatch takes some.     *)
(*                                                                         *)
(* Time is relative: a row keeps how long ago its send_at was (negative    *)
(* when it is still to come) and how long ago it was claimed, so that the  *)
(* clock need not be bounded.  What is dispatched is abstracted to whether *)
(* the provider performed it.                                              *)
(***************************************************************************)
EXTENDS Integers, Sequences, FiniteSets, SequencesExt

CONSTANTS
  Ids,          \* the ids that may be drawn for actions
  Keys, None,   \* idempotency keys, and SQL NULL
  Gateways,     \* the gateway processes
  Delays,       \* how far ahead actions are scheduled
  MaxAttempts,
  RetryBase,    \* unit of the back-off
  StaleAfter,   \* age at which a claim counts as abandoned
  Batch,        \* actions claimed at once
  DispatchTime, \* the longest dispatch: the HTTP clients time out
  MaxLate,      \* bound: rows overdue by more are not told apart
  MaxFaults     \* bound on crashes and failing statements

ASSUME SchedulerAssumption ==
  /\ Delays \subseteq Nat /\ None \notin Keys
  /\ {MaxAttempts, RetryBase, StaleAfter, Batch, DispatchTime} \subseteq Nat \ {0}
  /\ MaxLate \in Nat /\ MaxFaults \in Nat
  /\ Batch * DispatchTime < StaleAfter

VARIABLES
  rows,      \* table schedules
  worker,    \* per gateway: [pc, batch, tried, spent]
  faults,
  performed, \* external: how often each action was performed
  lost       \* history: how often the outcome of a claim was never recorded

vars == <<rows, worker, faults, performed, lost>>

-----------------------------------------------------------------------------
Settled == {"sent", "failed", "cancelled"}
Status == {"none", "pending", "dispatching"} \cup Settled

(* RETRY_BASE_SECONDS * 2^min(attempts, 6), after the first attempt.       *)
Backoff(attempts) ==
  RetryBase * <<2, 4, 8, 16, 32, 64>>[IF attempts < 6 THEN attempts ELSE 6]

NoRow == [status |-> "none", attempts |-> 0, overdue |-> 0, age |-> 0,
          key |-> None]

WorkerPcs == {"down", "asleep", "awake", "claiming", "dispatching", "succeeded",
              "erred", "counting"}

TypeOK ==
  /\ rows \in [Ids -> [status : Status, attempts : 0..MaxAttempts,
                       overdue : Int, age : 0..StaleAfter,
                       key : Keys \cup {None}]]
  /\ worker \in [Gateways -> [pc : WorkerPcs, batch : Seq(Ids),
                              tried : 0..MaxAttempts, spent : 0..DispatchTime]]
  /\ faults \in 0..MaxFaults
  /\ performed \in [Ids -> Nat]
  /\ lost \in [Ids -> Nat]

Asleep == [pc |-> "asleep", batch |-> <<>>, tried |-> 0, spent |-> 0]
Down == [Asleep EXCEPT !.pc = "down"]

Init ==
  /\ rows = [id \in Ids |-> NoRow]
  /\ worker = [g \in Gateways |-> Asleep]
  /\ faults = 0
  /\ performed = [id \in Ids |-> 0]
  /\ lost = [id \in Ids |-> 0]

InHand(g) == Range(worker[g].batch)
Current(g) == Head(worker[g].batch)

-----------------------------------------------------------------------------
(* The admin API.  insert: a key that is known is ignored, and its action  *)
(* is the answer.                                                          *)
Insert(id, key, delay) ==
  /\ \E g \in Gateways : worker[g].pc # "down"
  /\ rows[id].status = "none"
  /\ \A other \in Ids : key # None => rows[other].key # key
  /\ rows' = [rows EXCEPT ![id] = [NoRow EXCEPT !.status = "pending",
                                   !.overdue = -delay, !.key = key]]
  /\ UNCHANGED <<worker, faults, performed, lost>>

(* Fault: whatever has not been sent can be cancelled. *)
CancelAnything(id) ==
  /\ \E g \in Gateways : worker[g].pc # "down"
  /\ rows[id].status \in {"pending", "dispatching"}
  /\ rows' = [rows EXCEPT ![id].status = "cancelled"]
  /\ UNCHANGED <<worker, faults, performed, lost>>

(* cancel, when it answers true. *)
Cancel(id) ==
  /\ \E g \in Gateways : worker[g].pc # "down"
  /\ rows[id].status = "pending"
  /\ rows' = [rows EXCEPT ![id].status = "cancelled"]
  /\ UNCHANGED <<worker, faults, performed, lost>>

-----------------------------------------------------------------------------
(* claim_due, first statement: abandoned claims are pending again.         *)

(* Faults: a claim is given up too early, or never. *)
StaleAtOnce(row) == row.status = "dispatching" /\ row.age >= 1
NeverStale(row) == FALSE

Stale(row) == row.status = "dispatching" /\ row.age >= StaleAfter

Requeue(g) ==
  /\ worker[g].pc = "awake"
  /\ rows' = [id \in Ids |-> IF Stale(rows[id])
                             THEN [rows[id] EXCEPT !.status = "pending", !.age = 0]
                             ELSE rows[id]]
  /\ worker' = [worker EXCEPT ![g].pc = "claiming"]
  /\ UNCHANGED <<faults, performed, lost>>

(* Then a transaction: up to Batch due rows, the longest overdue first.    *)
Due == {id \in Ids : rows[id].status = "pending" /\ rows[id].overdue >= 0}

Batches ==
  {b \in SeqOf(Due, Batch) :
     /\ IsInjective(b)
     /\ Len(b) = Batch \/ Range(b) = Due
     /\ \A i \in 1..Len(b) : \A id \in Due \ {b[j] : j \in 1..i} :
          rows[b[i]].overdue >= rows[id].overdue}

Claimed(b) ==
  [id \in Ids |-> IF id \in Range(b)
                  THEN [rows[id] EXCEPT !.status = "dispatching", !.age = 0]
                  ELSE rows[id]]

Claim(g) ==
  /\ worker[g].pc = "claiming"
  /\ \E b \in Batches :
       /\ rows' = Claimed(b)
       /\ worker' = [worker EXCEPT ![g] =
            IF b = <<>> THEN Asleep
            ELSE [Asleep EXCEPT !.pc = "dispatching", !.batch = b]]
  /\ UNCHANGED <<faults, performed, lost>>

Fault == faults < MaxFaults /\ faults' = faults + 1

(* The outcome of these claims will never be recorded. *)
Losing(ids) == lost' = [id \in Ids |-> IF id \in ids THEN lost[id] + 1 ELSE lost[id]]

(* claim_due fails: in its transaction, or reading the rows afterwards.    *)
ClaimFails(g) ==
  /\ Fault
  /\ worker[g].pc = "claiming"
  /\ worker' = [worker EXCEPT ![g] = Asleep]
  /\ \/ UNCHANGED <<rows, lost>>
     \/ \E b \in Batches : rows' = Claimed(b) /\ Losing(Range(b))
  /\ UNCHANGED performed

-----------------------------------------------------------------------------
(* dispatch.  An error may hide that the provider did perform the action.  *)
Dispatch(g, ok) ==
  /\ worker[g].pc = "dispatching"
  /\ worker' = [worker EXCEPT ![g].pc = IF ok THEN "succeeded" ELSE "erred"]
  /\ \/ performed' = [performed EXCEPT ![Current(g)] = @ + 1]
     \/ ~ok /\ UNCHANGED performed
  /\ UNCHANGED <<rows, faults, lost>>

(* The worker goes on with its batch, or to sleep.                         *)
Proceed(g) ==
  worker' = [worker EXCEPT ![g] =
    IF Len(worker[g].batch) = 1 THEN Asleep
    ELSE [Asleep EXCEPT !.pc = "dispatching", !.batch = Tail(worker[g].batch)]]

(* finish, without an error. *)
FinishSent(g) ==
  /\ worker[g].pc = "succeeded"
  /\ rows' = [rows EXCEPT ![Current(g)].status = "sent", ![Current(g)].age = 0]
  /\ Proceed(g)
  /\ UNCHANGED <<faults, performed, lost>>

(* finish, with an error: reads the row, then updates it.                  *)
FinishRead(g) ==
  /\ worker[g].pc = "erred"
  /\ worker' = [worker EXCEPT ![g].pc = "counting",
                              ![g].tried = rows[Current(g)].attempts + 1]
  /\ UNCHANGED <<rows, faults, performed, lost>>

(* Fault: attempts are not counted.                                        *)
FinishUncounted(g) ==
  /\ worker[g].pc = "counting"
  /\ rows' = [rows EXCEPT ![Current(g)] =
       [@ EXCEPT !.status = "pending", !.age = 0,
                 !.overdue = -Backoff(worker[g].tried)]]
  /\ Proceed(g)
  /\ UNCHANGED <<faults, performed, lost>>
FinishError(g) ==
  /\ worker[g].pc = "counting"
  /\ LET tried == worker[g].tried IN
     rows' = [rows EXCEPT ![Current(g)] =
       IF tried >= MaxAttempts
       THEN [@ EXCEPT !.status = "failed", !.attempts = tried, !.age = 0]
       ELSE [@ EXCEPT !.status = "pending", !.attempts = tried, !.age = 0,
                      !.overdue = -Backoff(tried)]]
  /\ Proceed(g)
  /\ UNCHANGED <<faults, performed, lost>>

(* finish fails; the worker ignores that.                                  *)
FinishFails(g) ==
  /\ Fault
  /\ worker[g].pc \in {"succeeded", "erred", "counting"}
  /\ Losing({Current(g)})
  /\ Proceed(g)
  /\ UNCHANGED <<rows, performed>>

-----------------------------------------------------------------------------
Crash(g) ==
  /\ Fault
  /\ worker[g].pc # "down"
  /\ worker' = [worker EXCEPT ![g] = Down]
  /\ Losing(InHand(g))
  /\ UNCHANGED <<rows, performed>>

Restart(g) ==
  /\ worker[g].pc = "down"
  /\ worker' = [worker EXCEPT ![g] = Asleep]
  /\ UNCHANGED <<rows, faults, performed, lost>>

(* Time passes while workers sleep, between two batches, or await a        *)
(* provider, which they do no longer than DispatchTime.                    *)
Tick ==
  /\ \A g \in Gateways :
       \/ worker[g].pc \in {"down", "asleep", "awake"}
       \/ worker[g].pc = "dispatching" /\ worker[g].spent < DispatchTime
  /\ rows' = [id \in Ids |->
       LET row == rows[id] IN
       [row EXCEPT
          !.overdue = IF row.status \notin Settled \cup {"none"} /\ @ < MaxLate
                      THEN @ + 1 ELSE @,
          !.age = IF row.status = "dispatching" /\ @ < StaleAfter
                  THEN @ + 1 ELSE @]]
  /\ worker' = [g \in Gateways |->
       CASE worker[g].pc = "dispatching" -> [worker[g] EXCEPT !.spent = @ + 1]
         [] worker[g].pc = "asleep" -> [worker[g] EXCEPT !.pc = "awake"]
         [] OTHER -> worker[g]]
  /\ UNCHANGED <<faults, performed, lost>>

-----------------------------------------------------------------------------
Works(g) ==
  \/ Requeue(g) \/ Claim(g)
  \/ Dispatch(g, TRUE) \/ Dispatch(g, FALSE)
  \/ FinishSent(g) \/ FinishRead(g) \/ FinishError(g)

Next ==
  \/ \E id \in Ids, key \in Keys \cup {None}, delay \in Delays :
       Insert(id, key, delay)
  \/ \E id \in Ids : Cancel(id)
  \/ \E g \in Gateways :
       Works(g) \/ ClaimFails(g) \/ FinishFails(g) \/ Crash(g) \/ Restart(g)
  \/ Tick

Spec == Init /\ [][Next]_vars

(* The runtime polls the worker, a gateway that died is started again, and *)
(* time passes.                                                            *)
Fairness ==
  /\ \A g \in Gateways : WF_vars(Works(g)) /\ WF_vars(Restart(g))
  /\ WF_vars(Tick)

FairSpec == Spec /\ Fairness

-----------------------------------------------------------------------------
(* An action is in one worker's hands at a time, and claimed while it is:  *)
(* a claim is recovered as abandoned only when its worker is gone, because *)
(* a whole batch is dispatched before the first claim goes stale.          *)
ClaimsExclusive ==
  /\ \A g, h \in Gateways : g # h => InHand(g) \cap InHand(h) = {}
  /\ \A g \in Gateways : \A id \in InHand(g) : rows[id].status = "dispatching"

(* "Failed actions ... become terminal after three attempts", a cancelled  *)
(* action stays cancelled, a sent one is not sent again: an outcome, once  *)
(* recorded, is neither overwritten by a late worker nor followed by       *)
(* another performance.                                                    *)
OutcomeFinal ==
  [][\A id \in Ids : rows[id].status \in Settled =>
       /\ rows'[id].status = rows[id].status
       /\ performed'[id] = performed[id]]_vars

(* An action is performed once, and once more for each attempt that failed *)
(* and for each claim whose outcome was lost to a crash or a failing       *)
(* statement; never more, however often it is retried or recovered.        *)
Dispatched(id) ==
  \/ rows[id].status = "sent"
  \/ \E g \in Gateways : /\ worker[g].pc \in {"succeeded", "erred", "counting"}
                         /\ Current(g) = id

PerformedAccounted ==
  \A id \in Ids : performed[id] <= rows[id].attempts + lost[id]
                                   + (IF Dispatched(id) THEN 1 ELSE 0)

(* Every action is settled: sent, failed for good or cancelled, also when  *)
(* its worker dies with it in hand ("Stale dispatching claims are          *)
(* recovered after five minutes").                                         *)
EverySettles ==
  \A id \in Ids : rows[id].status = "pending" ~> rows[id].status \in Settled

=============================================================================
