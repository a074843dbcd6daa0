----------------------------- MODULE Reminders -----------------------------
(***************************************************************************)
(* Interview reminders, gateway/src/reminders.rs: a request plans, for     *)
(* each offset before an interview and each channel, an action for the     *)
(* scheduler, and inserts them one by one under keys of their own.         *)
(* Requests are repeated, change the interview's time, or break off.       *)
(*                                                                         *)
(* Time is the scheduler's: a request says in how many ticks the interview *)
(* starts.  What a reminder says is left out.                              *)
(***************************************************************************)
EXTENDS Scheduler

CONSTANTS
  Interviews,
  Offsets,     \* ticks before the interview
  Channels,
  MaxChannels, \* bound on the list of channels
  Starts,      \* in how many ticks interviews start
  Requests     \* requests in progress

Reminder == [offset : Offsets, channel : Channels]

(* The scheduler's keys and delays are those of the reminders, or more;    *)
(* an offset below 0 is skipped.                                           *)
ASSUME RemindersAssumption ==
  /\ [interview : Interviews, reminder : Reminder] \subseteq Keys
  /\ Offsets \subseteq Nat /\ Starts \subseteq Nat /\ MaxChannels \in Nat
  /\ \A starts \in Starts, o \in Offsets : starts > o => starts - o \in Delays

VARIABLE request \* per request: [pc, gateway, interview, starts, todo, planned, created]

remindersVars == <<vars, request>>

-----------------------------------------------------------------------------
NoRequest == [pc |-> "none", gateway |-> None, interview |-> None, starts |-> 0,
              todo |-> <<>>, planned |-> {}, created |-> {}]

(* Fault: a key for each time at which a reminder may be sent. *)
KeyWithTime(interview, reminder, delay) ==
  [interview |-> interview, reminder |-> reminder, delay |-> delay]

ReminderKey(interview, reminder, delay) ==
  [interview |-> interview, reminder |-> reminder]

(* plan_reminders: offsets in order and once each, those whose time has    *)
(* passed skipped, and for each of them the channels as they are listed.   *)
Ahead(offsets, starts) ==
  LET its == {o \in offsets : starts > o} IN
  {s \in SeqOf(its, Cardinality(its)) :
     /\ Range(s) = its
     /\ \A i, j \in 1..Len(s) : i < j => s[i] < s[j]}

Planned(ahead, channels) ==
  LET n == Len(channels) IN
  [k \in 1..Len(ahead) * n |-> [offset  |-> ahead[((k - 1) \div n) + 1],
                                channel |-> channels[((k - 1) % n) + 1]]]

RemindersInit == Init /\ request = [r \in Requests |-> NoRequest]

(* create_reminders.  All of it runs while time stands still.              *)
Request(r, g, interview, starts) ==
  /\ request[r].pc = "none" /\ worker[g].pc # "down"
  /\ \E offsets \in SUBSET Offsets, channels \in SeqOf(Channels, MaxChannels) :
       \E ahead \in Ahead(offsets, starts) :
         LET plan == Planned(ahead, channels) IN
         request' = [request EXCEPT ![r] =
           [pc |-> "inserting", gateway |-> g, interview |-> interview,
            starts |-> starts, todo |-> plan, planned |-> Range(plan), created |-> {}]]
  /\ UNCHANGED vars

Holders(key) == {id \in Ids : rows[id].status # "none" /\ rows[id].key = key}
Created(r, id) == request' = [request EXCEPT ![r].todo = Tail(@),
                                             ![r].created = @ \cup {id}]

(* One reminder is inserted, or found in the table: by its key either way. *)
InsertNext(r) ==
  LET reminder == Head(request[r].todo)
      delay == request[r].starts - reminder.offset
      key == ReminderKey(request[r].interview, reminder, delay)
  IN
  /\ request[r].pc = "inserting" /\ request[r].todo # <<>>
  /\ \/ \E id \in Holders(key) : Created(r, id) /\ UNCHANGED vars
     \/ \E id \in Ids : Insert(id, key, delay) /\ Created(r, id)

(* Fault: a reminder that cannot be stored is passed over. *)
InsertPassesOver(r) ==
  /\ request[r].pc = "inserting" /\ request[r].todo # <<>>
  /\ request' = [request EXCEPT ![r].todo = Tail(@)]
  /\ UNCHANGED vars

(* It cannot be stored or, once it is, not be read back: the request is    *)
(* refused, and what it has inserted stays.                                *)
InsertFails(r) ==
  /\ request[r].pc = "inserting"
  /\ request' = [request EXCEPT ![r] = NoRequest]
  /\ UNCHANGED vars

Answer(r) ==
  /\ request[r].pc = "inserting" /\ request[r].todo = <<>>
  /\ request' = [request EXCEPT ![r].pc = "answered"]
  /\ UNCHANGED vars

Done(r) ==
  /\ request[r].pc = "answered"
  /\ request' = [request EXCEPT ![r] = NoRequest]
  /\ UNCHANGED vars

(* The scheduler goes on, also with actions of other kinds, whose keys are *)
(* never a reminder's; a gateway that dies takes its requests with it.     *)
Schedule ==
  \/ /\ \/ \E id \in Ids, delay \in Delays : Insert(id, None, delay)
        \/ \E id \in Ids : Cancel(id)
        \/ \E g \in Gateways :
             Works(g) \/ ClaimFails(g) \/ FinishFails(g) \/ Restart(g)
     /\ UNCHANGED request
  \/ /\ Tick /\ UNCHANGED request
     /\ \A r \in Requests : request[r].pc # "inserting"
  \/ \E g \in Gateways :
       /\ Crash(g)
       /\ request' = [r \in Requests |-> IF request[r].gateway = g THEN NoRequest
                                         ELSE request[r]]

RemindersNext ==
  \/ Schedule
  \/ \E r \in Requests :
       \/ InsertNext(r) \/ InsertFails(r) \/ Answer(r) \/ Done(r)
       \/ \E g \in Gateways, interview \in Interviews, starts \in Starts :
            Request(r, g, interview, starts)

RemindersSpec == RemindersInit /\ [][RemindersNext]_remindersVars

-----------------------------------------------------------------------------
(* "Re-posting the same reminder request returns the existing schedule IDs *)
(* instead of duplicating sends": however requests for one interview       *)
(* overlap, break off, are repeated or change its time, a reminder is one  *)
(* action, and is not performed more often than the failures of that one   *)
(* action explain.                                                         *)
Of(interview, reminder) ==
  {id \in Ids : /\ rows[id].status # "none" /\ rows[id].key # None
                /\ rows[id].key.interview = interview
                /\ rows[id].key.reminder = reminder}
RemindedOnce ==
  \A interview \in Interviews, reminder \in Reminder :
    LET its == Of(interview, reminder) IN
    /\ Cardinality(its) <= 1
    /\ \A id \in its : performed[id] <= 1 + rows[id].attempts + lost[id]

(* A request that is answered with success has an action for every one of  *)
(* its reminders, whatever other requests inserted meanwhile, and is told  *)
(* of no other action.                                                     *)
AnsweredIsPlanned ==
  \A r \in Requests : request[r].pc = "answered" =>
    /\ \A reminder \in request[r].planned :
         Of(request[r].interview, reminder) \cap request[r].created # {}
    /\ Cardinality(request[r].created) = Cardinality(request[r].planned)

(* A reminder that is promised is planned, as one action, and performed no *)
(* more often than the failures of that action explain.                    *)
RemindersKept == RemindedOnce /\ AnsweredIsPlanned
=============================================================================
