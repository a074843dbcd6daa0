---------------------------- MODULE ManagedCalls ----------------------------
(***************************************************************************)
(* The managed-call workflow of voice-runtime/src/managed_call.rs: calls   *)
(* that a provider places, the webhooks that report on them, and the       *)
(* events kept per session until they are drained; with the webhook route  *)
(* of gateway/src/native_voice.rs, which hands what is new to the call     *)
(* store.  Two locks guard the state, the network is awaited outside them. *)
(*                                                                         *)
(* An event stands for its deduplication key: its id, or the hash of its   *)
(* payload.  Signatures, limits on sizes and what the events say are left  *)
(* out.  The routes never call end_call: here it may be called.            *)
(***************************************************************************)
EXTENDS Naturals, Sequences, SequencesExt, FiniteSets

CONSTANTS
  Sids,        \* session ids, chosen by the caller of start_call
  Phones,      \* ids of the provider's calls
  Starts,      \* start_call in progress
  Ends,        \* end_call in progress
  Webhooks,    \* webhook requests in progress
  MaxRetries,  \* max_retries
  Capacity,    \* of the window of seen keys
  MaxTaken,    \* bound on the events that are taken for new
  None

VARIABLES
  table,   \* sessions: per session id None, or [call, queue]
  window,  \* seen: the keys in the window, as [set, order]
  phone,   \* provider: per call "idle", "up" or "over"
  start,   \* per start_call: [pc, sid, tries, call]
  end,     \* per end_call: [pc, call, tries]
  hook,    \* per webhook: [pc, ev]
  stored,  \* the call store: the events applied
  taken,   \* history: the events taken for new, in order
  failed,  \* history: the events the store failed to take
  excused  \* history: calls whose answer, or whose end, was lost

tasks == <<start, end, hook>>
managedVars == <<table, window, phone, tasks, stored, taken, failed, excused>>

-----------------------------------------------------------------------------
(* normalize_managed_event, to_provider_events and record_vapi_event: what *)
(* becomes of a kind of message.  The other kinds go nowhere.              *)
Kinds == {"speech", "status", "completed"}
ToProvider(kind) == kind \in {"speech", "completed"}
ToStore(kind) == kind \in {"status", "completed"}
Events == [call : Phones, kind : Kinds]
Slots == [call : Phones, queue : Seq(Kinds)]

(* None is no call, no event and no session; BoundedSeen::new makes a      *)
(* capacity of 0 a 1.                                                      *)
NoneIsOther == None \notin Phones \cup Events \cup Slots
ASSUME ManagedAssumption == MaxRetries \in Nat /\ Capacity \in Nat \ {0} /\ NoneIsOther

NoStart == [pc |-> "none", sid |-> None, tries |-> 0, call |-> None]
NoEnd == [pc |-> "none", call |-> None, tries |-> 0]
NoHook == [pc |-> "none", ev |-> None]

ManagedInit ==
  /\ table = [s \in Sids |-> None]
  /\ window = [set |-> {}, order |-> <<>>]
  /\ phone = [p \in Phones |-> "idle"]
  /\ start = [t \in Starts |-> NoStart]
  /\ end = [t \in Ends |-> NoEnd]
  /\ hook = [t \in Webhooks |-> NoHook]
  /\ stored = {} /\ taken = <<>> /\ failed = {} /\ excused = {}

-----------------------------------------------------------------------------
(* start_call: POST /call, repeated as send allows; then the session.      *)
StartCall(t, s) ==
  /\ start[t].pc = "none"
  /\ start' = [start EXCEPT ![t].pc = "posting", ![t].sid = s]
  /\ UNCHANGED <<table, window, phone, end, hook, stored, taken, failed, excused>>

(* One attempt (send_once) reaches the provider, which places a call.      *)
Placed(t) ==
  /\ start[t].pc = "posting"
  /\ \E p \in Phones :
       /\ phone[p] = "idle"
       /\ phone' = [phone EXCEPT ![p] = "up"]
       /\ start' = [start EXCEPT ![t].pc = "answered", ![t].call = p]
  /\ UNCHANGED <<table, window, end, hook, stored, taken, failed, excused>>

Retry(t) == start[t].tries < MaxRetries
Again(t) == IF Retry(t)
            THEN [start[t] EXCEPT !.pc = "posting", !.tries = @ + 1, !.call = None]
            ELSE NoStart

(* It does not: an error that is retried, or one that is not.              *)
PostFails(t) ==
  /\ start[t].pc = "posting"
  /\ \E then \in {Again(t), NoStart} : start' = [start EXCEPT ![t] = then]
  /\ UNCHANGED <<table, window, phone, end, hook, stored, taken, failed, excused>>

(* A call was placed, but the answer is lost, or cannot be read.           *)
AnswerLost(t) ==
  /\ start[t].pc = "answered"
  /\ excused' = excused \cup {start[t].call}
  /\ \E then \in {Again(t), NoStart} : start' = [start EXCEPT ![t] = then]
  /\ UNCHANGED <<table, window, phone, end, hook, stored, taken, failed>>

(* The session id may be in use: its old call is then forgotten.           *)
Forgotten(s) == IF table[s] = None THEN {} ELSE {table[s].call}
Insert(t) ==
  LET s == start[t].sid IN
  /\ start[t].pc = "answered"
  /\ table' = [table EXCEPT ![s] = [call |-> start[t].call, queue |-> <<>>]]
  /\ excused' = excused \cup Forgotten(s)
  /\ start' = [start EXCEPT ![t] = NoStart]
  /\ UNCHANGED <<window, phone, end, hook, stored, taken, failed>>

-----------------------------------------------------------------------------
(* end_call: the session is removed before DELETE /call is sent.           *)
EndCall(t, s) ==
  /\ end[t].pc = "none" /\ table[s] # None
  /\ table' = [table EXCEPT ![s] = None]
  /\ end' = [end EXCEPT ![t].pc = "deleting", ![t].call = table[s].call]
  /\ UNCHANGED <<window, phone, start, hook, stored, taken, failed, excused>>

(* Fault: the provider is not told. *)
DeletedNot(t) ==
  /\ end[t].pc = "deleting"
  /\ end' = [end EXCEPT ![t] = NoEnd]
  /\ UNCHANGED <<table, window, phone, start, hook, stored, taken, failed, excused>>

Deleted(t) ==
  /\ end[t].pc = "deleting"
  /\ phone' = [phone EXCEPT ![end[t].call] = "over"]
  /\ end' = [end EXCEPT ![t] = NoEnd]
  /\ UNCHANGED <<table, window, start, hook, stored, taken, failed, excused>>

DeleteFails(t) ==
  /\ end[t].pc = "deleting"
  /\ \/ /\ end[t].tries < MaxRetries
        /\ end' = [end EXCEPT ![t].tries = @ + 1]
        /\ UNCHANGED excused
     \/ /\ end' = [end EXCEPT ![t] = NoEnd]
        /\ excused' = excused \cup {end[t].call}
  /\ UNCHANGED <<table, window, phone, start, hook, stored, taken, failed>>

(* External: a call ends by itself. *)
HangUp(p) ==
  /\ phone[p] = "up"
  /\ phone' = [phone EXCEPT ![p] = "over"]
  /\ UNCHANGED <<table, window, tasks, stored, taken, failed, excused>>

-----------------------------------------------------------------------------
(* Fault: the window holds one key less. *)
SlidShort(order) == SubSeq(order, IF Len(order) >= Capacity THEN 2 ELSE 1, Len(order))

(* BoundedSeen::insert: what the window is after a new key.                *)
Slid(order) == SubSeq(order, IF Len(order) > Capacity THEN 2 ELSE 1, Len(order))
(* Fault: a key that leaves the order stays in the set. *)
WithKeyKept(key) ==
  [set |-> window.set \cup {key}, order |-> Slid(Append(window.order, key))]

WithKey(key) ==
  LET order == Slid(Append(window.order, key)) IN
  [set |-> (window.set \cup {key}) \ (ToSet(window.order) \ ToSet(order)), order |-> order]

(* ingest_webhook: a key in the window is answered with no events.         *)
Ingest(t, ev) ==
  /\ hook[t].pc = "none"
  /\ phone[ev.call] # "idle"
  /\ ev \notin window.set /\ Len(taken) < MaxTaken
  /\ window' = WithKey(ev)
  /\ taken' = Append(taken, ev)
  /\ hook' = [hook EXCEPT ![t] = [pc |-> "queueing", ev |-> ev]]
  /\ UNCHANGED <<table, phone, start, end, stored, failed, excused>>

(* An event of a session's call joins the session's queue, wherever there  *)
(* is such a session by now.                                               *)
Queue(t) ==
  LET ev == hook[t].ev
      its == {s \in Sids : table[s] # None /\ table[s].call = ev.call}
  IN
  /\ hook[t].pc = "queueing"
  /\ IF ToProvider(ev.kind) /\ its # {}
     THEN \E s \in its : table' = [table EXCEPT ![s].queue = Append(@, ev.kind)]
     ELSE UNCHANGED table
  /\ hook' = [hook EXCEPT ![t].pc = "storing"]
  /\ UNCHANGED <<window, phone, start, end, stored, taken, failed, excused>>

(* Fault: the answer is sent, and the event not stored. *)
RecordSkipped(t) ==
  /\ hook[t].pc = "storing"
  /\ hook' = [hook EXCEPT ![t] = NoHook]
  /\ UNCHANGED <<table, window, phone, start, end, stored, taken, failed, excused>>

(* record_vapi_event: a failure is logged, and the webhook answered 200.   *)
RecordEvent(t) ==
  LET ev == hook[t].ev IN
  /\ hook[t].pc = "storing"
  /\ IF ToStore(ev.kind)
     THEN \/ stored' = stored \cup {ev} /\ UNCHANGED failed
          \/ failed' = failed \cup {ev} /\ UNCHANGED stored
     ELSE UNCHANGED <<stored, failed>>
  /\ hook' = [hook EXCEPT ![t] = NoHook]
  /\ UNCHANGED <<table, window, phone, start, end, taken, excused>>

Drain(s) ==
  /\ table[s] # None /\ table[s].queue # <<>>
  /\ table' = [table EXCEPT ![s].queue = <<>>]
  /\ UNCHANGED <<window, phone, tasks, stored, taken, failed, excused>>

-----------------------------------------------------------------------------
(* The routes: create_call answers when the session is in the table, and   *)
(* managed_webhook when every event went where it belongs.                 *)
CreateCall(t) == \/ \E s \in Sids : StartCall(t, s)
               \/ Placed(t) \/ PostFails(t) \/ AnswerLost(t) \/ Insert(t)
Webhook(t) == (\E ev \in Events : Ingest(t, ev)) \/ Queue(t) \/ RecordEvent(t)
DeleteCall(t) == (\E s \in Sids : EndCall(t, s)) \/ Deleted(t) \/ DeleteFails(t)

ManagedNext ==
  \/ \E t \in Starts : CreateCall(t)
  \/ \E t \in Ends : DeleteCall(t)
  \/ \E t \in Webhooks : Webhook(t)
  \/ \E s \in Sids : Drain(s)
  \/ \E p \in Phones : HangUp(p)

ManagedSpec == ManagedInit /\ [][ManagedNext]_managedVars

-----------------------------------------------------------------------------
(* Types; no request is sent more often than max_retries allows.           *)
ManagedTypeOK ==
  /\ table \in [Sids -> Slots \cup {None}]
  /\ window.set \subseteq Events /\ window.order \in Seq(Events)
  /\ phone \in [Phones -> {"idle", "up", "over"}]
  /\ start \in [Starts -> [pc : {"none", "posting", "answered"}, sid : Sids \cup {None},
                           tries : 0..MaxRetries, call : Phones \cup {None}]]
  /\ end \in [Ends -> [pc : {"none", "deleting"}, call : Phones \cup {None},
                       tries : 0..MaxRetries]]
  /\ hook \in [Webhooks -> [pc : {"none", "queueing", "storing"}, ev : Events \cup {None}]]
  /\ stored \subseteq Events /\ failed \subseteq Events /\ excused \subseteq Phones

(* "Bounded/idempotent event ingestion": an event is taken again only when *)
(* Capacity others have been taken since, however its deliveries overlap,  *)
OncePerWindow ==
  \A i, j \in 1..Len(taken) : i < j /\ taken[i] = taken[j] => j - i > Capacity

(* and what the window refuses is one of the last Capacity events: its two *)
(* parts agree, and no event is ever taken for a duplicate of itself.      *)
WindowIsLast ==
  LET last == IF Len(taken) > Capacity THEN Len(taken) - Capacity + 1 ELSE 1 IN
  /\ window.order = SubSeq(taken, last, Len(taken))
  /\ window.set = ToSet(window.order)

(* A call that is up is some session's, or in the hands of a request; all  *)
(* others are calls whose answer was lost, whose end failed, or whose      *)
(* session id was used for another call.                                   *)
NoForgottenPhone ==
  \A p \in Phones \ excused : phone[p] = "up" =>
    \/ \E s \in Sids : table[s] # None /\ table[s].call = p
    \/ \E t \in Starts : start[t].call = p
    \/ \E t \in Ends : end[t].call = p

(* What the call store should know of an event that was taken it knows, or *)
(* will when the request is done, unless it refused it: then it is lost,   *)
(* since the provider was answered.                                        *)
TakenIsStored ==
  \A i \in 1..Len(taken) : ToStore(taken[i].kind) =>
    \/ taken[i] \in stored \cup failed
    \/ \E t \in Webhooks : hook[t].ev = taken[i]

(* An event is taken once while the window holds it, again once it does    *)
(* not, and reaches the call store; and no call is forgotten.              *)
ManagedKeepsTrack ==
  OncePerWindow /\ WindowIsLast /\ TakenIsStored /\ NoForgottenPhone
=============================================================================
