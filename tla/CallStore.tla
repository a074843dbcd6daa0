----------------------------- MODULE CallStore -----------------------------
(***************************************************************************)
(* The canonical call store of gateway/src/calls.rs: CallWorkflow over the *)
(* SQLite tables calls, call_transitions, call_events and                  *)
(* unmatched_call_events.  Every method holds the connection mutex for one *)
(* transaction, so a method is one action; only link_provider_call, whose  *)
(* transaction replays a list of stored events, is a begin, one step per   *)
(* event and a commit, with the mutex (txn) held in between.               *)
(*                                                                         *)
(* Left out: read-only queries, the outcome label of an event (never read  *)
(* back), clocks (arrival order and "old enough" are kept, times are not)  *)
(* and requests for a provider that is not configured.  Outcomes that      *)
(* change nothing (errors, an existing call, an event already waiting) are *)
(* stuttering steps; modules that need to know of them test the guards.    *)
(***************************************************************************)
EXTENDS CallLifecycle, FiniteSets

CONSTANTS
  CallIds,      \* the UUIDs the gateway may draw for calls
  ProviderIds,  \* ids the providers give their calls
  Providers,
  Interviews,
  Keys,         \* idempotency keys
  EventIds,     \* provider event ids
  Notices,      \* the events that may be reported: [id, target, seq]
  MaxArrivals,  \* bound on the arrival number of a stored event
  None          \* SQL NULL

Notice == [id : EventIds, target : CallState, seq : Nat]

ASSUME StoreAssumption ==
  /\ None \notin CallIds /\ None \notin ProviderIds /\ None \notin Keys
  /\ Notices \subseteq Notice
  /\ MaxArrivals \in Nat

VARIABLES
  issued,     \* history: the UUIDs drawn so far, which never come back
  calls,      \* table calls; NoCall where there is no row
  log,        \* table call_transitions, per call, in insertion order
  events,     \* table call_events: the event ids recorded, per call
  unmatched,  \* table unmatched_call_events, with arrival numbers
  txn         \* the transaction of link_provider_call, NoTxn when unlocked

vars == <<issued, calls, log, events, unmatched, txn>>

-----------------------------------------------------------------------------
NoCall == [state |-> "Absent", version |-> 0, last |-> 0, ended |-> FALSE,
           provider |-> None, interview |-> None, pid |-> None, key |-> None]

NoTxn == [call |-> None, pid |-> None, row |-> NoCall, log |-> <<>>,
          events |-> {}, left |-> {}]

Row == [state : CallState \cup {"Absent"}, version : Nat, last : Nat,
        ended : BOOLEAN, provider : Providers \cup {None},
        interview : Interviews \cup {None},
        pid : ProviderIds \cup {None}, key : Keys \cup {None}]

LogRow == [from : CallState, event : CallTransition, to : CallState, seq : Nat]

Unmatched == [provider : Providers, pid : ProviderIds, notice : Notice,
              at : Nat]

TypeOK ==
  /\ issued \subseteq CallIds
  /\ calls \in [CallIds -> Row]
  /\ log \in [CallIds -> Seq(LogRow)]
  /\ events \in [CallIds -> SUBSET EventIds]
  /\ unmatched \subseteq Unmatched
  /\ txn \in [call : CallIds \cup {None}, pid : ProviderIds \cup {None},
              row : Row, log : Seq(LogRow), events : SUBSET EventIds,
              left : SUBSET Unmatched]

-----------------------------------------------------------------------------
(* Fault: a method does not wait for the connection mutex. *)
NeverLocked == TRUE

Unlocked == txn.call = None
Replaying == txn.call # None

Stored == {c \in CallIds : calls[c].state # "Absent"}

(* Fault: no call is looked up by its idempotency key. *)
NoKeyHolders(key) == {}

KeyHolders(key) == {c \in Stored : key # None /\ calls[c].key = key}

Holders(pid) == {c \in Stored : pid # None /\ calls[c].pid = pid}

(* Fault: the call id is ignored. *)
LookupByProviderCall(c, pid) == Holders(pid)

(* load_call: by call id, and failing that by provider call id. *)
Lookup(c, pid) == IF c \in Stored THEN {c} ELSE Holders(pid)

Linked(row, pid) == IF pid = None THEN row ELSE [row EXCEPT !.pid = pid]

(* Faults: no unique index; a link may be replaced; a link is never        *)
(* repeated.                                                               *)
MayShare(c, pid) == pid # None => calls[c].pid \in {None, pid}
MayRelink(c, pid) == Holders(pid) \subseteq {c}
MayLinkOnce(c, pid) == pid # None => calls[c].pid = None /\ Holders(pid) = {}

(* CallSession::link_provider_call and the unique index on the column. *)
MayLink(c, pid) ==
  pid # None => /\ calls[c].pid \in {None, pid}
                /\ Holders(pid) \subseteq {c}

OutboundLog ==
  <<[from |-> "Requested",  event |-> "Validated", to |-> "Validating", seq |-> 1],
    [from |-> "Validating", event |-> "Initiate",  to |-> "Initiating", seq |-> 2]>>

InboundLog ==
  <<[from |-> "Requested",  event |-> "Validated", to |-> "Validating", seq |-> 1],
    [from |-> "Validating", event |-> "Initiate",  to |-> "Initiating", seq |-> 2],
    [from |-> "Initiating", event |-> "Connect",   to |-> "Connected",  seq |-> 3],
    [from |-> "Connected",  event |-> "Activate",  to |-> "Active",     seq |-> 4]>>

(* insert_call, with the transitions a new call has gone through. *)
Insert(c, state, rows, provider, interview, pid, key) ==
  /\ c \notin issued
  /\ issued' = issued \cup {c}
  /\ calls' = [calls EXCEPT ![c] =
       [state |-> state, version |-> Len(rows), last |-> Len(rows),
        ended |-> FALSE, provider |-> provider, interview |-> interview,
        pid |-> pid, key |-> key]]
  /\ log' = [log EXCEPT ![c] = rows]
  /\ UNCHANGED <<events, unmatched, txn>>

-----------------------------------------------------------------------------
Init ==
  /\ issued = {}
  /\ calls = [c \in CallIds |-> NoCall]
  /\ log = [c \in CallIds |-> <<>>]
  /\ events = [c \in CallIds |-> {}]
  /\ unmatched = {}
  /\ txn = NoTxn

(* begin_call_outcome, when it answers Created: no call holds the key.     *)
BeginCall(c, provider, interview, key) ==
  /\ Unlocked
  /\ KeyHolders(key) = {}
  /\ Insert(c, "Initiating", OutboundLog, provider, interview, None, key)

(* register_inbound, for a provider call that no row is linked to yet.     *)
RegisterInbound(c, provider, pid) ==
  /\ Unlocked
  /\ Holders(pid) = {}
  /\ Insert(c, "Active", InboundLog, provider, None, pid, None)

(* apply_state on a call that cannot be found: the event is kept, once.    *)
StoreUnmatched(provider, c, pid, n) ==
  /\ Unlocked
  /\ pid # None
  /\ Lookup(c, pid) = {}
  /\ \A u \in unmatched :
       ~(u.provider = provider /\ u.pid = pid /\ u.notice.id = n.id)
  /\ \E at \in 1..MaxArrivals :
       /\ \A u \in unmatched : u.at < at
       /\ at = 1 \/ \E u \in unmatched : u.at = at - 1
       /\ unmatched' = unmatched \cup
            {[provider |-> provider, pid |-> pid, notice |-> n, at |-> at]}
  /\ UNCHANGED <<issued, calls, log, events, txn>>

(* apply_state accepts the event for call d: right provider, and a         *)
(* provider call id, if it names one, that is or can become d's.           *)
Accepts(d, provider, c, pid) ==
  /\ Unlocked
  /\ d \in Lookup(c, pid)
  /\ calls[d].provider = provider
  /\ MayLink(d, pid)

(* apply_state on an event recorded before: at most the link is new.       *)
ApplyDuplicate(d, provider, c, pid, n) ==
  /\ Accepts(d, provider, c, pid)
  /\ n.id \in events[d]
  /\ calls' = [calls EXCEPT ![d] = Linked(@, pid)]
  /\ UNCHANGED <<issued, log, events, unmatched, txn>>

(* apply_state on a new event: k steps of the plan succeed and are logged; *)
(* the row is updated only if that is the whole plan.                      *)
ApplyState(d, provider, c, pid, n) ==
  /\ Accepts(d, provider, c, pid)
  /\ n.id \notin events[d]
  /\ events' = [events EXCEPT ![d] = @ \cup {n.id}]
  /\ LET row  == Linked(calls[d], pid)
         plan == PathTo(row.state, n.target)
     IN \E k \in 0..LongestPlan :
          /\ k <= Len(plan)
          /\ TakesExactly(row, plan, n.seq, k)
          /\ calls' = [calls EXCEPT ![d] =
               IF k = Len(plan) THEN Advance(row, plan, n.seq, k) ELSE row]
          /\ log' = [log EXCEPT ![d] = @ \o LogRows(plan, n.seq, k)]
  /\ UNCHANGED <<issued, unmatched, txn>>

-----------------------------------------------------------------------------
(* link_provider_call and replay_unmatched.                                *)

(* Faults: the stored events of any provider call, or none, are replayed.  *)
WaitingForAny(provider, pid) == {u \in unmatched : u.provider = provider}
WaitingForNone(provider, pid) == {}

Waiting(provider, pid) ==
  {u \in unmatched : u.provider = provider /\ u.pid = pid}

LinkBegin(c, pid) ==
  /\ Unlocked
  /\ c \in Stored
  /\ MayLink(c, pid)
  /\ txn' = [call |-> c, pid |-> pid, row |-> Linked(calls[c], pid),
             log |-> log[c], events |-> events[c],
             left |-> Waiting(calls[c].provider, pid)]
  /\ UNCHANGED <<issued, calls, log, events, unmatched>>

(* One stored event, in order of arrival.  Unlike apply_state, a plan that *)
(* fails half way keeps the steps that succeeded.                          *)
ReplayEvent ==
  /\ Replaying
  /\ \E u \in txn.left :
       /\ \A v \in txn.left : u.at <= v.at
       /\ IF u.notice.id \in txn.events
          THEN txn' = [txn EXCEPT !.left = @ \ {u}]
          ELSE LET plan == PathTo(txn.row.state, u.notice.target) IN
               \E k \in 0..LongestPlan :
                 /\ k <= Len(plan)
                 /\ TakesExactly(txn.row, plan, u.notice.seq, k)
                 /\ txn' = [txn EXCEPT
                      !.row = Advance(@, plan, u.notice.seq, k),
                      !.log = @ \o LogRows(plan, u.notice.seq, k),
                      !.events = @ \cup {u.notice.id},
                      !.left = @ \ {u}]
  /\ UNCHANGED <<issued, calls, log, events, unmatched>>

LinkCommit ==
  /\ Replaying
  /\ txn.left = {}
  /\ calls' = [calls EXCEPT ![txn.call] = txn.row]
  /\ log' = [log EXCEPT ![txn.call] = txn.log]
  /\ events' = [events EXCEPT ![txn.call] = txn.events]
  /\ unmatched' = unmatched \ Waiting(txn.row.provider, txn.pid)
  /\ txn' = NoTxn
  /\ UNCHANGED issued

(* The process dies, or a statement fails, before the commit.              *)
LinkRollback ==
  /\ Replaying
  /\ txn' = NoTxn
  /\ UNCHANGED <<issued, calls, log, events, unmatched>>

-----------------------------------------------------------------------------
(* purge_terminal_before: some of the calls that have ended are older than *)
(* the cutoff; their transitions and events go with them.                  *)
PurgeTerminal(S) ==
  /\ Unlocked
  /\ S # {} /\ S \subseteq {c \in Stored : calls[c].ended}
  /\ calls' = [c \in CallIds |-> IF c \in S THEN NoCall ELSE calls[c]]
  /\ log' = [c \in CallIds |-> IF c \in S THEN <<>> ELSE log[c]]
  /\ events' = [c \in CallIds |-> IF c \in S THEN {} ELSE events[c]]
  /\ UNCHANGED <<issued, unmatched, txn>>

(* purge_unmatched_before: the events that arrived before the cutoff go.   *)
PurgeUnmatched(cutoff) ==
  /\ Unlocked
  /\ \E u \in unmatched : u.at < cutoff
  /\ unmatched' = {u \in unmatched : u.at >= cutoff}
  /\ UNCHANGED <<issued, calls, log, events, txn>>

-----------------------------------------------------------------------------
(* An event names a call, a provider call, or both.                        *)
Report(provider, c, pid, n) ==
  \/ StoreUnmatched(provider, c, pid, n)
  \/ \E d \in CallIds : \/ ApplyDuplicate(d, provider, c, pid, n)
                        \/ ApplyState(d, provider, c, pid, n)

Next ==
  \/ \E c \in CallIds, provider \in Providers :
       \/ \E interview \in Interviews, key \in Keys \cup {None} :
            BeginCall(c, provider, interview, key)
       \/ \E pid \in ProviderIds : RegisterInbound(c, provider, pid)
  \/ \E provider \in Providers, c \in CallIds \cup {None},
        pid \in ProviderIds \cup {None}, n \in Notices :
       Report(provider, c, pid, n)
  \/ \E c \in CallIds, pid \in ProviderIds : LinkBegin(c, pid)
  \/ ReplayEvent
  \/ LinkCommit
  \/ LinkRollback
  \/ \E S \in SUBSET CallIds : PurgeTerminal(S)
  \/ \E cutoff \in 1..MaxArrivals + 1 : PurgeUnmatched(cutoff)

Spec == Init /\ [][Next]_vars

-----------------------------------------------------------------------------
(* The rows of a transition log follow one another: from Requested, by     *)
(* legal transitions, with growing sequence numbers.                       *)
IsHistory(l) ==
  /\ l[1].from = "Requested"
  /\ \A i \in 1..Len(l) :
       [from |-> l[i].from, event |-> l[i].event, to |-> l[i].to] \in Hops
  /\ \A i \in 1..Len(l) - 1 : /\ l[i].to = l[i + 1].from
                              /\ l[i].seq < l[i + 1].seq

(* The row is what its log says: as many versions as transitions, the      *)
(* state and the sequence of the last one.                                 *)
Agrees(row, l) ==
  /\ l # <<>>
  /\ row.version = Len(l)
  /\ row.state = l[Len(l)].to
  /\ row.last = l[Len(l)].seq
  /\ row.ended <=> row.state \in Terminal

(* The audit trail never lies: the row and the log of every call agree,    *)
(* although apply_state logs each step before it knows whether the plan    *)
(* will succeed and updates the row only if it does (calls.rs:485-523).    *)
AuditMatchesRow ==
  \A c \in Stored : IsHistory(log[c]) /\ Agrees(calls[c], log[c])

(* A provider call belongs to at most one call, and a call to at most one  *)
(* idempotency key's request ("Provider call IDs are unique and cannot be  *)
(* linked to two calls", docs/CALL_STATE.md), whichever of inbound         *)
(* registration, explicit link and a callback's implicit link comes first. *)
UniqueLinks ==
  \A c, d \in Stored : c # d =>
    /\ calls[c].pid # None => calls[c].pid # calls[d].pid
    /\ calls[c].key # None => calls[c].key # calls[d].key

(* A call that has ended stays as it ended: until it is purged no event,   *)
(* replay or end request changes its state, version, sequence or log.      *)
Outcome(c) == <<calls[c].state, calls[c].version, calls[c].last, log[c]>>

EndedIsFinal ==
  [][\A c \in CallIds : calls[c].state \in Terminal =>
       Outcome(c)' = Outcome(c) \/ calls'[c] = NoCall]_vars

(* Each event counts once: a call's history grows only in a step that also *)
(* records events not recorded before, and the last of them is the reason  *)
(* for the state reached, whether they were applied on arrival or replayed *)
(* ("Duplicate events do not increment the version or append transitions").*)
Explains(n, c) ==
  n.id \in events'[c] \ events[c] /\ n.target = calls'[c].state

EachEventOnce ==
  [][\A c \in Stored : c \in Stored' =>
       /\ events[c] \subseteq events'[c]
       /\ log'[c] # log[c] =>
            \/ \E n \in Notices : Explains(n, c)
            \/ \E u \in unmatched : Explains(u.notice, c)]_vars

(* The store is a call register: the abstract view of a row is its state,  *)
(* the events recorded for it and its provider link, and a UUID drawn for  *)
(* a row that is no longer there stands for a call that is gone.           *)
Register == INSTANCE CallRegister WITH
  status  <- [c \in CallIds |-> IF c \in issued /\ c \notin Stored
                                THEN "Gone" ELSE calls[c].state],
  handled <- events,
  owner   <- [c \in CallIds |-> calls[c].pid]

ImplementsRegister == Register!Spec

=============================================================================
