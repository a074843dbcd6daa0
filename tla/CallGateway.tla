---------------------------- MODULE CallGateway ----------------------------
(***************************************************************************)
(* The call store at work: the handlers of POST /calls and                 *)
(* POST /calls/{id}/end (gateway/src/calls.rs), split where they await the *)
(* provider, the callbacks of the provider (record_twilio_status,          *)
(* record_vapi_event), the webhook of an inbound call, and a crash of the  *)
(* gateway with the purges at its restart (gateway/src/main.rs).           *)
(*                                                                         *)
(* The provider is external: it places a phone call when asked, the phone  *)
(* rings, is answered and is hung up, and each of these may be reported by *)
(* callbacks that arrive late, repeatedly, in any order or not at all.     *)
(***************************************************************************)
EXTENDS ProviderEvents, FiniteSets

CONSTANTS
  CallIds, ProviderIds, Keys, MaxArrivals, None,
  Provider,    \* the one configured provider
  Interviews,
  Starts,      \* requests to POST /calls
  Ends,        \* requests to POST /calls/{id}/end
  Reported,    \* the events the provider was asked to report
  WithCallId,  \* does a callback carry our call id: a subset of BOOLEAN
  MaxRetries,  \* how often the provider client repeats a failed request
  MaxCrashes   \* bound on the crashes of the gateway

VARIABLES
  issued, calls, log, events, unmatched, txn,   \* CallStore
  up,        \* is the gateway running?
  crashes,
  start,     \* the handlers of Starts: [pc, key, call, pid, retries]
  end,       \* the handlers of Ends: [pc, call, pid, seq]
  phone,     \* external: [stage, for] of each provider call
  sent,      \* external: the callbacks <<pid, event>> in flight
  delivered  \* history: the callbacks that have arrived

store == <<issued, calls, log, events, unmatched, txn>>
handlers == <<start, end>>
world == <<phone, sent>>
vars == <<store, up, crashes, handlers, world, delivered>>

(* The events the gateway reports to itself (fail_call, end_call): their   *)
(* sequence is the one after the call's last when the handler read it.     *)
InitiationFailed(seq) == Event("local:initiation-failed", "Failed", seq)
LocalEnd(seq) == Event("local:end", "Cancelled", seq)

LocalIds == {"local:initiation-failed", "local:end"}
LocalEvents == {InitiationFailed(3)} \cup {LocalEnd(seq) : seq \in Nat}

(* The provider's event ids are derived from its statuses, never local.    *)
ASSUME GatewayAssumption ==
  /\ None \notin CallIds /\ None \notin ProviderIds /\ None \notin Keys
  /\ \A n \in Reported : /\ n = Event(n.id, n.target, n.seq)
                          /\ n.id \notin LocalIds
                          /\ n.target \in CallState /\ n.seq \in Nat
  /\ WithCallId \subseteq BOOLEAN
  /\ MaxArrivals \in Nat /\ MaxRetries \in Nat /\ MaxCrashes \in Nat

Store == INSTANCE CallStore WITH
  Providers <- {Provider},
  EventIds <- {n.id : n \in Reported} \cup LocalIds,
  Notices <- Reported \cup LocalEvents

-----------------------------------------------------------------------------
Stages == {"none", "dialing", "ringing", "talking", "over"}
StartPcs == {"idle", "dialing", "failing", "linking", "replaying",
             "existing", "conflict", "failed", "linked", "linkError", "lost"}
EndPcs == {"idle", "asking", "recording", "ended", "already", "unlinked",
           "error", "lost"}

TypeOK ==
  /\ Store!TypeOK
  /\ up \in BOOLEAN
  /\ crashes \in 0..MaxCrashes
  /\ start \in [Starts -> [pc : StartPcs, key : Keys \cup {None},
                           call : CallIds \cup {None},
                           pid : ProviderIds \cup {None},
                           retries : 0..MaxRetries]]
  /\ end \in [Ends -> [pc : EndPcs, call : CallIds \cup {None},
                       pid : ProviderIds \cup {None}, seq : Nat]]
  /\ phone \in [ProviderIds -> [stage : Stages, for : CallIds \cup {None}]]
  /\ sent \subseteq ProviderIds \X Reported
  /\ delivered \subseteq sent

Init ==
  /\ Store!Init
  /\ up = TRUE
  /\ crashes = 0
  /\ start = [s \in Starts |-> [pc |-> "idle", key |-> None, call |-> None,
                                pid |-> None, retries |-> 0]]
  /\ end = [e \in Ends |-> [pc |-> "idle", call |-> None, pid |-> None,
                            seq |-> 0]]
  /\ phone = [p \in ProviderIds |-> [stage |-> "none", for |-> None]]
  /\ sent = {}
  /\ delivered = {}

(* Callbacks about phone p for the events with these ids. *)
Callbacks(p, ids) == {<<p, n>> : n \in {m \in Reported : m.id \in ids}}

(* Phone p is over, and the provider will say so, giving no reason that    *)
(* contradicts that somebody answered.                                     *)
PhoneEnds(p, ids) ==
  /\ phone' = [phone EXCEPT ![p].stage = "over"]
  /\ \E n \in Reported :
       /\ n.id \in ids
       /\ phone[p].stage = "talking" => n.target \notin {"NoAnswer", "Busy", "Declined"}
       /\ sent' = sent \cup {<<p, n>>}

StartGoes(s, from, to) ==
  /\ up
  /\ start[s].pc = from
  /\ start' = [start EXCEPT ![s].pc = to]

EndGoes(e, from, to) ==
  /\ up
  /\ end[e].pc = from
  /\ end' = [end EXCEPT ![e].pc = to]

-----------------------------------------------------------------------------
(* start_call.  Either the key is new and a call is begun ...              *)
StartNew(s, c, interview, key) ==
  /\ up /\ start[s].pc = "idle"
  /\ Store!BeginCall(c, Provider, interview, key)
  /\ start' = [start EXCEPT ![s].pc = "dialing", ![s].key = key, ![s].call = c]
  /\ UNCHANGED <<up, crashes, end, world, delivered>>

(* ... or a call has it: its owner gets that call, anybody else a conflict.*)
StartExisting(s, interview, key) ==
  /\ up /\ start[s].pc = "idle"
  /\ Store!Unlocked
  /\ \E c \in Store!KeyHolders(key) :
       start' = [start EXCEPT ![s].key = key, ![s].call = c,
         ![s].pc = IF calls[c].interview = interview
                   THEN "existing" ELSE "conflict"]
  /\ UNCHANGED <<store, up, crashes, end, world, delivered>>

(* The provider places the call; its reply may get lost on the way, and    *)
(* then the client may repeat the request.                                 *)
Dial(s, p) ==
  /\ up /\ start[s].pc = "dialing"
  /\ phone[p].stage = "none"
  /\ phone' = [phone EXCEPT ![p] = [stage |-> "dialing", for |-> start[s].call]]
  /\ sent' = sent \cup Callbacks(p, {"queued", "initiated"})
  /\ \/ start' = [start EXCEPT ![s].pc = "linking", ![s].pid = p]
     \/ /\ start[s].retries < MaxRetries
        /\ start' = [start EXCEPT ![s].retries = @ + 1]
     \/ start' = [start EXCEPT ![s].pc = "failing"]
  /\ UNCHANGED <<store, up, crashes, end, delivered>>

(* Nothing was dialled: not configured, refused or unreachable.            *)
DialRefused(s) ==
  /\ StartGoes(s, "dialing", "failing")
  /\ UNCHANGED <<store, up, crashes, end, world, delivered>>

(* fail_call; the handler last saw the call at sequence 2.                 *)
FailCall(s) ==
  /\ StartGoes(s, "failing", "failed")
  /\ Store!Report(Provider, start[s].call, None, InitiationFailed(3))
  /\ UNCHANGED <<up, crashes, end, world, delivered>>

(* link_provider_call, refused or begun, and the steps of its transaction. *)
LinkRefused(s) ==
  /\ StartGoes(s, "linking", "linkError")
  /\ Store!Unlocked
  /\ ~Store!MayLink(start[s].call, start[s].pid)
  /\ UNCHANGED <<store, up, crashes, end, world, delivered>>

LinkBegin(s) ==
  /\ StartGoes(s, "linking", "replaying")
  /\ Store!LinkBegin(start[s].call, start[s].pid)
  /\ UNCHANGED <<up, crashes, end, world, delivered>>

ReplayEvent ==
  /\ up
  /\ Store!ReplayEvent
  /\ UNCHANGED <<up, crashes, handlers, world, delivered>>

LinkCommit(s) ==
  /\ StartGoes(s, "replaying", "linked")
  /\ Store!LinkCommit
  /\ UNCHANGED <<up, crashes, end, world, delivered>>

-----------------------------------------------------------------------------
(* end_call: read the call, ask the provider, record the end.              *)
EndRead(e, c) ==
  /\ up /\ end[e].pc = "idle"
  /\ Store!Unlocked
  /\ c \in Store!Stored
  /\ end' = [end EXCEPT ![e] =
       [pc   |-> IF calls[c].state \in Terminal THEN "already"
                 ELSE IF calls[c].pid = None THEN "unlinked"
                 ELSE "asking",
        call |-> c, pid |-> calls[c].pid, seq |-> calls[c].last + 1]]
  /\ UNCHANGED <<store, up, crashes, start, world, delivered>>

(* The provider hangs up, or the phone was over already.                   *)
HungUp(p) ==
  IF phone[p].stage = "over" THEN UNCHANGED world
  ELSE PhoneEnds(p, {"completed", "canceled", "ended", "end-of-call-report"})

EndAsk(e) ==
  /\ EndGoes(e, "asking", "recording") \/ EndGoes(e, "asking", "error")
  /\ \/ HungUp(end[e].pid)
     \/ end'[e].pc = "error" /\ UNCHANGED world
  /\ UNCHANGED <<store, up, crashes, start, delivered>>

EndRecord(e) ==
  /\ EndGoes(e, "recording", "ended")
  /\ Store!Report(Provider, end[e].call, end[e].pid, LocalEnd(end[e].seq))
  /\ UNCHANGED <<up, crashes, start, world, delivered>>

-----------------------------------------------------------------------------
(* A callback arrives.  The handler answers 2xx whatever apply_state says; *)
(* here are the arrivals that apply_state does not reject.                 *)
Callback(p, n) ==
  /\ up
  /\ <<p, n>> \in sent
  /\ \E withId \in WithCallId :
       Store!Report(Provider, IF withId THEN phone[p].for ELSE None, p, n)
  /\ delivered' = delivered \cup {<<p, n>>}
  /\ UNCHANGED <<up, crashes, handlers, world>>

(* The webhook of an inbound call, possibly repeated.                      *)
CandidatePlaced(p) == phone[p].stage # "none" /\ phone[p].for = None

Inbound(p, c) ==
  /\ up
  /\ CandidatePlaced(p) /\ phone[p].stage = "talking"
  /\ Store!RegisterInbound(c, Provider, p)
  /\ UNCHANGED <<up, crashes, handlers, world, delivered>>

(* External: the candidate calls, or the candidate's phone rings, is       *)
(* picked up, or the call ends by itself.                                  *)
CandidateCalls(p) ==
  /\ phone[p].stage = "none"
  /\ phone' = [phone EXCEPT ![p].stage = "talking"]
  /\ UNCHANGED <<store, up, crashes, handlers, sent, delivered>>

Rings(p) ==
  /\ phone[p].stage = "dialing"
  /\ phone' = [phone EXCEPT ![p].stage = "ringing"]
  /\ sent' = sent \cup Callbacks(p, {"ringing"})
  /\ UNCHANGED <<store, up, crashes, handlers, delivered>>

Answers(p) ==
  /\ phone[p].stage \in {"dialing", "ringing"}
  /\ phone' = [phone EXCEPT ![p].stage = "talking"]
  /\ sent' = sent \cup Callbacks(p, {"in-progress"})
  /\ UNCHANGED <<store, up, crashes, handlers, delivered>>

Finishes(p) ==
  /\ \/ phone[p].stage = "talking" /\ PhoneEnds(p, {"completed", "ended", "end-of-call-report"})
     \/ /\ phone[p].stage \in {"dialing", "ringing"}
        /\ PhoneEnds(p, {"busy", "no-answer", "failed", "ended", "end-of-call-report"})
  /\ UNCHANGED <<store, up, crashes, handlers, delivered>>

-----------------------------------------------------------------------------
(* The gateway dies: every handler with it, and an open transaction.       *)
Crash ==
  /\ up /\ crashes < MaxCrashes
  /\ up' = FALSE
  /\ crashes' = crashes + 1
  /\ start' = [s \in Starts |->
       IF start[s].pc \in {"dialing", "failing", "linking", "replaying"}
       THEN [start[s] EXCEPT !.pc = "lost"] ELSE start[s]]
  /\ end' = [e \in Ends |->
       IF end[e].pc \in {"asking", "recording"}
       THEN [end[e] EXCEPT !.pc = "lost"] ELSE end[e]]
  /\ IF Store!Replaying THEN Store!LinkRollback ELSE UNCHANGED store
  /\ UNCHANGED <<world, delivered>>

(* main: the purges run before the router serves.                          *)
Purge ==
  /\ ~up
  /\ \/ \E S \in SUBSET CallIds : Store!PurgeTerminal(S)
     \/ \E cutoff \in 1..MaxArrivals + 1 : Store!PurgeUnmatched(cutoff)
  /\ UNCHANGED <<up, crashes, handlers, world, delivered>>

Restart ==
  /\ ~up
  /\ up' = TRUE
  /\ UNCHANGED <<store, crashes, handlers, world, delivered>>

-----------------------------------------------------------------------------
StartStep(s) ==
  \/ \E interview \in Interviews, key \in Keys \cup {None} :
       StartExisting(s, interview, key)
       \/ \E c \in CallIds : StartNew(s, c, interview, key)
  \/ DialRefused(s) \/ \E p \in ProviderIds : Dial(s, p)
  \/ FailCall(s) \/ LinkRefused(s) \/ LinkBegin(s) \/ LinkCommit(s)

EndStep(e) == EndAsk(e) \/ EndRecord(e)

Next ==
  \/ \E s \in Starts : StartStep(s)
  \/ ReplayEvent
  \/ \E e \in Ends : EndStep(e) \/ \E c \in CallIds : EndRead(e, c)
  \/ \E p \in ProviderIds, n \in Reported : Callback(p, n)
  \/ \E p \in ProviderIds, c \in CallIds : Inbound(p, c)
  \/ \E p \in ProviderIds :
       CandidateCalls(p) \/ Rings(p) \/ Answers(p) \/ Finishes(p)
  \/ Crash \/ Purge \/ Restart

Spec == Init /\ [][Next]_vars

(* The runtime keeps polling a handler it has accepted, the supervisor     *)
(* restarts the gateway, and the provider delivers each callback once.     *)
Fairness ==
  /\ \A s \in Starts : WF_vars(start[s].pc # "idle" /\ StartStep(s))
  /\ WF_vars(ReplayEvent)
  /\ \A e \in Ends : WF_vars(EndStep(e))
  /\ \A p \in ProviderIds, n \in Reported :
       SF_vars(<<p, n>> \notin delivered /\ Callback(p, n))
  /\ WF_vars(Restart)

FairSpec == Spec /\ Fairness

-----------------------------------------------------------------------------
(* The handlers that were told to dial, and the phones placed for a key.   *)
Created(s) == start[s].pc \notin {"idle", "existing", "conflict"}

PhonesFor(key) ==
  {p \in ProviderIds : \E s \in Starts :
     /\ Created(s) /\ start[s].key = key
     /\ start[s].call \in Store!Stored /\ phone[p].for = start[s].call}

(* One idempotency key, one phone call: as long as its call is stored, no  *)
(* retry of POST /calls, concurrent or after a crash anywhere between the  *)
(* row, the dialling and the link, makes the provider dial again; only the *)
(* provider client's own repetitions of a request may.                     *)
KeyDialsOnce == \A key \in Keys : Cardinality(PhonesFor(key)) <= 1 + MaxRetries

(* No call hears of somebody else's phone: every provider event recorded   *)
(* for a call, by whichever of callback, implicit link and replay, was     *)
(* reported about the phone placed for it, or that it was registered for.  *)
About(c, p) == phone[p].for = c \/ (CandidatePlaced(p) /\ calls[c].pid = p)

NoCrossTalk ==
  \A c \in Store!Stored :
    /\ \A p \in ProviderIds : calls[c].pid = p => About(c, p)
    /\ \A n \in Reported : n.id \in events[c] =>
         \E p \in ProviderIds, m \in Reported :
           m.id = n.id /\ About(c, p) /\ <<p, m>> \in delivered

(* When POST /calls has answered with the link made, nothing the provider  *)
(* said about the call is missing from it, before, during or after the     *)
(* link ("Events that arrive before the call is linked are stored ... On   *)
(* link_provider_call, the workflow replays", docs/CALL_STATE.md).         *)
NoticeNotLost ==
  \A s \in Starts : start[s].pc = "linked" /\ start[s].call \in Store!Stored =>
    \A n \in Reported :
      <<start[s].pid, n>> \in delivered => n.id \in events[start[s].call]

(* A final status that has been recorded for a call has ended it: whatever *)
(* came earlier, the sequence numbers of path_to's steps let it through.   *)
RecordedEndEnds ==
  \A c \in Store!Stored : \A n \in Reported :
    n.target \in Terminal /\ n.id \in events[c] => calls[c].state \in Terminal

(* "Ask the provider to end the call and mark it cancelled" (the purpose   *)
(* of POST /calls/{id}/end, docs/CALL_STATE.md): when the handler answers  *)
(* success, the call has ended.                                            *)
EndMarksCancelled ==
  \A e \in Ends : end[e].pc = "ended" /\ end[e].call \in Store!Stored =>
    calls[end[e].call].state \in Terminal

(* The link of a started call is refused only when the provider client     *)
(* repeated its request and the provider placed a second phone call, the   *)
(* first of which a callback linked in the meantime; a callback that links *)
(* the call before its handler does is no conflict.                        *)
RefusedOnlyForSecondPhone ==
  \A s \in Starts : start[s].pc = "linkError" /\ start[s].call \in Store!Stored =>
    \E p \in ProviderIds \ {start[s].pid} :
      phone[p].for = start[s].call /\ calls[start[s].call].pid = p

(* When every phone placed for an outbound call is over, the call ends     *)
(* too (or the client's repeated request places another phone), even if    *)
(* the gateway died before it could link or fail it, provided callbacks    *)
(* carry our call id.                                                      *)
Over(c) ==
  LET phones == {p \in ProviderIds : phone[p].for = c} IN
  phones # {} /\ \A p \in phones : phone[p].stage = "over"

PhoneOverSettles ==
  \A c \in CallIds :
    Over(c) ~> \/ calls[c].state \in Terminal \/ c \notin Store!Stored
               \/ ~Over(c)
=============================================================================
