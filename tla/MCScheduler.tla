---------------------------- MODULE MCScheduler ----------------------------
(***************************************************************************)
(* An instance of Reminders, in three scenes; which one it is never        *)
(* changes.  In "actions" two gateways share the table, without reminders; *)
(* in the others one gateway has requests for reminders and nothing else   *)
(* to do: one at a time and without failures, or two that ask for the same *)
(* reminder.                                                               *)
(***************************************************************************)
EXTENDS Reminders

CONSTANTS g2, r2

VARIABLE scene

ReminderKeys == [interview : Interviews, reminder : Reminder]

(* Bounds of the scenes.                                                   *)
OnlyReminders == /\ worker[g2].pc \in {"asleep", "awake"}
                 /\ \A r \in Requests : request[r].gateway # g2
                 /\ \A id \in Ids : rows[id].status # "none" => rows[id].key # None
NoFailures == faults = 0 /\ \A id \in Ids : rows[id].attempts = 0
Bounded ==
  /\ scene # "actions" => OnlyReminders
  /\ scene = "reminders" => request[r2].pc = "none" /\ NoFailures
  /\ scene = "overlap" => \A r \in Requests : \A it \in request[r].planned : it.offset = 1

MCInit == RemindersInit /\ scene \in {"actions", "reminders", "overlap"}
MCNext == /\ IF scene = "actions" THEN Schedule ELSE RemindersNext
          /\ UNCHANGED scene /\ Bounded'
mcVars == <<remindersVars, scene>>

(* The fairness of Scheduler, in its scene.                                *)
InActions(action) == scene = "actions" /\ action /\ UNCHANGED <<request, scene>>
MCSpec ==
  /\ MCInit /\ [][MCNext]_mcVars
  /\ \A g \in Gateways : WF_mcVars(InActions(Works(g))) /\ WF_mcVars(InActions(Restart(g)))
  /\ WF_mcVars(InActions(Tick))

(* EverySettles of Scheduler, in its scene.                                *)
EveryActionSettles ==
  \A id \in Ids : scene = "actions" /\ rows[id].status = "pending"
                    ~> rows[id].status \in Settled
=============================================================================
