------------------------- MODULE CallGateway_proofs -------------------------
(***************************************************************************)
(* Theorems about the gateway's handlers at work on the call store, for    *)
(* any number of requests, provider calls, callbacks, repetitions and      *)
(* crashes.  The gateway changes the store only by the store's own         *)
(* operations, so that all that CallStore_proofs proves holds here (SP is  *)
(* that module at the gateway's instance of the store); on top come the    *)
(* invariants that relate rows, handlers, phones and callbacks.            *)
(***************************************************************************)
EXTENDS CallGateway, FiniteSetTheorems, TLAPS


SP == INSTANCE CallStore_proofs WITH
  Providers <- {Provider},
  EventIds <- {n.id : n \in Reported} \cup LocalIds,
  Notices <- Reported \cup LocalEvents

LEMMA SameLifecycle ==
  /\ SP!Terminal = Store!Terminal /\ SP!CallState = Store!CallState
  /\ SP!Hops = Store!Hops
BY DEF SP!Hops, Store!Hops, SP!CallState, Store!CallState, SP!Terminal, Store!Terminal,
   SP!CallTransition, Store!CallTransition, SP!TRANSITIONS, Store!TRANSITIONS,
   SP!Transition, Store!Transition

LEMMA SamePlans == \A s, t : SP!PathTo(s, t) = Store!PathTo(s, t)
<1>1. \A ws : SP!Longer(ws) = Store!Longer(ws)
  BY SameLifecycle DEF SP!Longer, Store!Longer, SP!LastHop, Store!LastHop
<1>2. SP!Single = Store!Single
  BY SameLifecycle DEF SP!Single, Store!Single
<1>3. SP!AllWalks = Store!AllWalks
  BY <1>1, <1>2 DEF SP!AllWalks, Store!AllWalks
<1>4. \A s, t : SP!Routes(s, t) = Store!Routes(s, t)
  BY <1>3 DEF SP!Routes, Store!Routes, SP!LastHop, Store!LastHop
<1>5. \A rs : SP!Shortest(rs) = Store!Shortest(rs)
  BY DEF SP!Shortest, Store!Shortest
<1> QED
  BY <1>4, <1>5, SameLifecycle DEF SP!PathTo, Store!PathTo, SP!Plans, Store!Plans

LEMMA SameSteps ==
  ASSUME NEW row, NEW plan, NEW base, NEW k
  PROVE  /\ SP!TakesExactly(row, plan, base, k) <=> Store!TakesExactly(row, plan, base, k)
         /\ SP!Advance(row, plan, base, k) = Store!Advance(row, plan, base, k)
         /\ SP!LogRows(plan, base, k) = Store!LogRows(plan, base, k)
BY SameLifecycle DEF SP!TakesExactly, Store!TakesExactly, SP!Takes, Store!Takes,
   SP!StepSequence, Store!StepSequence, SP!Advance, Store!Advance, SP!LogRows, Store!LogRows

LEMMA SameLookups ==
  /\ SP!NoCall = Store!NoCall /\ SP!NoTxn = Store!NoTxn
  /\ SP!Stored = Store!Stored /\ SP!LongestPlan = Store!LongestPlan
  /\ (SP!Unlocked <=> Store!Unlocked) /\ (SP!Replaying <=> Store!Replaying)
  /\ \A key : SP!KeyHolders(key) = Store!KeyHolders(key)
  /\ \A pid : SP!Holders(pid) = Store!Holders(pid)
  /\ \A c, pid : SP!Lookup(c, pid) = Store!Lookup(c, pid)
  /\ \A c, pid : SP!MayLink(c, pid) <=> Store!MayLink(c, pid)
  /\ \A row, pid : SP!Linked(row, pid) = Store!Linked(row, pid)
  /\ \A provider, pid : SP!Waiting(provider, pid) = Store!Waiting(provider, pid)
  /\ SP!OutboundLog = Store!OutboundLog /\ SP!InboundLog = Store!InboundLog
BY DEF SP!NoCall, Store!NoCall, SP!NoTxn, Store!NoTxn, SP!Stored, Store!Stored,
   SP!LongestPlan, Store!LongestPlan, SP!Unlocked, Store!Unlocked, SP!Replaying,
   Store!Replaying, SP!KeyHolders, Store!KeyHolders, SP!Holders, Store!Holders,
   SP!Lookup, Store!Lookup, SP!MayLink, Store!MayLink, SP!Linked, Store!Linked,
   SP!Waiting, Store!Waiting, SP!OutboundLog, Store!OutboundLog, SP!InboundLog, Store!InboundLog

LEMMA SameInserts ==
  ASSUME NEW c, NEW provider, NEW interview, NEW pid, NEW key
  PROVE  /\ Store!BeginCall(c, provider, interview, key)
              <=> SP!BeginCall(c, provider, interview, key)
         /\ Store!RegisterInbound(c, provider, pid) <=> SP!RegisterInbound(c, provider, pid)
BY SameLookups DEF SP!BeginCall, Store!BeginCall, SP!RegisterInbound,
   Store!RegisterInbound, SP!Insert, Store!Insert

LEMMA SameReports ==
  ASSUME NEW provider, NEW c, NEW pid, NEW n
  PROVE  Store!Report(provider, c, pid, n) => SP!Report(provider, c, pid, n)
<1>1. Store!StoreUnmatched(provider, c, pid, n) <=> SP!StoreUnmatched(provider, c, pid, n)
  BY SameLookups DEF SP!StoreUnmatched, Store!StoreUnmatched
<1>2. ASSUME NEW d
      PROVE  Store!Accepts(d, provider, c, pid) <=> SP!Accepts(d, provider, c, pid)
  BY SameLookups DEF SP!Accepts, Store!Accepts
<1>3. ASSUME NEW d
      PROVE  Store!ApplyDuplicate(d, provider, c, pid, n)
               <=> SP!ApplyDuplicate(d, provider, c, pid, n)
  BY <1>2, SameLookups DEF SP!ApplyDuplicate, Store!ApplyDuplicate
<1>4. ASSUME NEW d, Store!ApplyState(d, provider, c, pid, n)
      PROVE  SP!ApplyState(d, provider, c, pid, n)
  <2> DEFINE row == Store!Linked(calls[d], pid)
             plan == Store!PathTo(row.state, n.target)
  <2>1. /\ Store!Accepts(d, provider, c, pid) /\ n.id \notin events[d]
        /\ events' = [events EXCEPT ![d] = @ \cup {n.id}]
        /\ UNCHANGED <<issued, unmatched, txn>>
    BY <1>4 DEF Store!ApplyState
  <2>2. PICK k \in 0..Store!LongestPlan :
          /\ k <= Len(plan)
          /\ Store!TakesExactly(row, plan, n.seq, k)
          /\ calls' = [calls EXCEPT ![d] =
               IF k = Len(plan) THEN Store!Advance(row, plan, n.seq, k) ELSE row]
          /\ log' = [log EXCEPT ![d] = @ \o Store!LogRows(plan, n.seq, k)]
    BY <1>4 DEF Store!ApplyState
  <2>3. SP!Linked(calls[d], pid) = row /\ SP!PathTo(row.state, n.target) = plan
    BY SameLookups, SamePlans
  <2> HIDE DEF row, plan
  <2>4. /\ k \in 0..SP!LongestPlan
        /\ SP!TakesExactly(row, plan, n.seq, k)
        /\ calls' = [calls EXCEPT ![d] =
             IF k = Len(plan) THEN SP!Advance(row, plan, n.seq, k) ELSE row]
        /\ log' = [log EXCEPT ![d] = @ \o SP!LogRows(plan, n.seq, k)]
    BY <2>2, SameSteps, SameLookups
  <2> QED
    BY <1>2, <2>1, <2>2, <2>3, <2>4 DEF SP!ApplyState
<1> QED
  BY <1>1, <1>3, <1>4 DEF SP!Report, Store!Report

LEMMA SameLinks ==
  /\ \A c, pid : Store!LinkBegin(c, pid) <=> SP!LinkBegin(c, pid)
  /\ Store!ReplayEvent => SP!ReplayEvent
  /\ Store!LinkCommit <=> SP!LinkCommit
  /\ Store!LinkRollback <=> SP!LinkRollback
<1>1. \A c, pid : Store!LinkBegin(c, pid) <=> SP!LinkBegin(c, pid)
  BY SameLookups DEF SP!LinkBegin, Store!LinkBegin
<1>2. ASSUME Store!ReplayEvent  PROVE  SP!ReplayEvent
  <2>1. Store!Replaying /\ UNCHANGED <<issued, calls, log, events, unmatched>>
    BY <1>2 DEF Store!ReplayEvent
  <2>2. PICK u \in txn.left :
          /\ \A v \in txn.left : u.at <= v.at
          /\ IF u.notice.id \in txn.events
             THEN txn' = [txn EXCEPT !.left = @ \ {u}]
             ELSE LET plan == Store!PathTo(txn.row.state, u.notice.target) IN
                  \E k \in 0..Store!LongestPlan :
                    /\ k <= Len(plan)
                    /\ Store!TakesExactly(txn.row, plan, u.notice.seq, k)
                    /\ txn' = [txn EXCEPT
                         !.row = Store!Advance(@, plan, u.notice.seq, k),
                         !.log = @ \o Store!LogRows(plan, u.notice.seq, k),
                         !.events = @ \cup {u.notice.id},
                         !.left = @ \ {u}]
    BY <1>2 DEF Store!ReplayEvent
  <2>3. CASE u.notice.id \in txn.events
    BY <2>1, <2>2, <2>3, SameLookups DEF SP!ReplayEvent
  <2>4. CASE u.notice.id \notin txn.events
    <3> DEFINE plan == Store!PathTo(txn.row.state, u.notice.target)
    <3>1. PICK k \in 0..Store!LongestPlan :
            /\ k <= Len(plan)
            /\ Store!TakesExactly(txn.row, plan, u.notice.seq, k)
            /\ txn' = [txn EXCEPT
                 !.row = Store!Advance(@, plan, u.notice.seq, k),
                 !.log = @ \o Store!LogRows(plan, u.notice.seq, k),
                 !.events = @ \cup {u.notice.id},
                 !.left = @ \ {u}]
      BY <2>2, <2>4
    <3>2. SP!PathTo(txn.row.state, u.notice.target) = plan
      BY SamePlans
    <3> HIDE DEF plan
    <3>3. /\ k \in 0..SP!LongestPlan
          /\ SP!TakesExactly(txn.row, plan, u.notice.seq, k)
          /\ txn' = [txn EXCEPT
               !.row = SP!Advance(@, plan, u.notice.seq, k),
               !.log = @ \o SP!LogRows(plan, u.notice.seq, k),
               !.events = @ \cup {u.notice.id},
               !.left = @ \ {u}]
      <4>1. /\ SP!Advance(txn.row, plan, u.notice.seq, k)
                  = Store!Advance(txn.row, plan, u.notice.seq, k)
            /\ SP!LogRows(plan, u.notice.seq, k) = Store!LogRows(plan, u.notice.seq, k)
            /\ SP!TakesExactly(txn.row, plan, u.notice.seq, k)
            /\ k \in 0..SP!LongestPlan
        BY <3>1, SameSteps, SameLookups
      <4> QED
        BY <3>1, <4>1
    <3> QED
      BY <2>1, <2>2, <2>4, <3>1, <3>2, <3>3, SameLookups DEF SP!ReplayEvent
  <2> QED
    BY <2>3, <2>4
<1>3. /\ Store!LinkCommit <=> SP!LinkCommit
      /\ Store!LinkRollback <=> SP!LinkRollback
  BY SameLookups DEF SP!LinkCommit, Store!LinkCommit, SP!LinkRollback, Store!LinkRollback
<1> QED
  BY <1>1, <1>2, <1>3

LEMMA SamePurges ==
  /\ \A S : Store!PurgeTerminal(S) <=> SP!PurgeTerminal(S)
  /\ \A cutoff : Store!PurgeUnmatched(cutoff) <=> SP!PurgeUnmatched(cutoff)
BY SameLookups DEF SP!PurgeTerminal, Store!PurgeTerminal, SP!PurgeUnmatched, Store!PurgeUnmatched

LEMMA SameTypes == Store!TypeOK <=> SP!TypeOK
<1>1. SP!Row = Store!Row
  BY SameLifecycle DEF SP!Row, Store!Row
<1>2. SP!LogRow = Store!LogRow
  <2>1. SP!CallTransition = Store!CallTransition
    BY DEF SP!CallTransition, Store!CallTransition, SP!TRANSITIONS, Store!TRANSITIONS,
       SP!Transition, Store!Transition
  <2> QED
    BY <2>1, SameLifecycle DEF SP!LogRow, Store!LogRow
<1>3. SP!Unmatched = Store!Unmatched
  <2>1. SP!Notice = Store!Notice
    BY SameLifecycle DEF SP!Notice, Store!Notice
  <2> QED
    BY <2>1 DEF SP!Unmatched, Store!Unmatched
<1> QED
  BY <1>1, <1>2, <1>3 DEF SP!TypeOK, Store!TypeOK

LEMMA StoreAssumed == SP!StoreAssumption
<1>1. CallState = SP!CallState
  BY DEF CallState, SP!CallState, Terminal, SP!Terminal
<1>2. "Failed" \in CallState /\ "Cancelled" \in CallState
  BY DEF CallState, Terminal
<1>3. \A n \in Reported : n \in SP!Notice
  BY <1>1, GatewayAssumption DEF SP!Notice, Event
<1>4. \A n \in LocalEvents : n \in SP!Notice
  BY <1>1, <1>2 DEF SP!Notice, LocalEvents, LocalIds, InitiationFailed, LocalEnd, Event
<1> QED
  BY <1>3, <1>4, GatewayAssumption DEF SP!StoreAssumption

LEMMA SameNext == Store!Next => SP!Next
<1>1. ASSUME NEW c, NEW provider,
             \/ \E interview \in Interviews, key \in Keys \cup {None} :
                  Store!BeginCall(c, provider, interview, key)
             \/ \E pid \in ProviderIds : Store!RegisterInbound(c, provider, pid)
      PROVE  \/ \E interview \in Interviews, key \in Keys \cup {None} :
                  SP!BeginCall(c, provider, interview, key)
             \/ \E pid \in ProviderIds : SP!RegisterInbound(c, provider, pid)
  BY <1>1, SameInserts
<1>2. ASSUME NEW provider \in {Provider}, NEW c \in CallIds \cup {None},
             NEW pid \in ProviderIds \cup {None}, NEW n \in Reported \cup LocalEvents,
             Store!Report(provider, c, pid, n)
      PROVE  SP!Report(provider, c, pid, n)
  BY <1>2, SameReports
<1>3. ASSUME \/ \E c \in CallIds, pid \in ProviderIds : Store!LinkBegin(c, pid)
             \/ Store!ReplayEvent \/ Store!LinkCommit \/ Store!LinkRollback
             \/ \E S \in SUBSET CallIds : Store!PurgeTerminal(S)
             \/ \E cutoff \in 1..MaxArrivals + 1 : Store!PurgeUnmatched(cutoff)
      PROVE  SP!Next
  BY <1>3, SameLinks, SamePurges DEF SP!Next
<1>4. ASSUME NEW c \in CallIds, NEW provider \in {Provider},
             \/ \E interview \in Interviews, key \in Keys \cup {None} :
                  Store!BeginCall(c, provider, interview, key)
             \/ \E pid \in ProviderIds : Store!RegisterInbound(c, provider, pid)
      PROVE  SP!Next
  BY <1>1, <1>4 DEF SP!Next
<1>5. ASSUME NEW provider \in {Provider}, NEW c \in CallIds \cup {None},
             NEW pid \in ProviderIds \cup {None}, NEW n \in Reported \cup LocalEvents,
             Store!Report(provider, c, pid, n)
      PROVE  SP!Next
  BY <1>2, <1>5 DEF SP!Next
<1> QED
  BY <1>3, <1>4, <1>5 DEF Store!Next

(* The store of the gateway is the store the theorems are about. *)
LEMMA SameStore == Store!Spec => SP!Spec
<1>1. Store!Init => SP!Init
  BY SameLookups DEF Store!Init, SP!Init
<1>2. [Store!Next]_Store!vars => [SP!Next]_SP!vars
  BY SameNext DEF Store!vars, SP!vars
<1> QED
  BY <1>1, <1>2, PTL DEF Store!Spec, SP!Spec

-----------------------------------------------------------------------------
(* Types.                                                                  *)

Placed == {"linking", "replaying", "linked", "linkError"}
Asking == {"asking", "recording"}

(* TypeOK without the store ... *)
HandlersType ==
  /\ up \in BOOLEAN
  /\ crashes \in 0..MaxCrashes
  /\ start \in [Starts -> [pc : StartPcs, key : Keys \cup {None},
                           call : CallIds \cup {None},
                           pid : ProviderIds \cup {None},
                           retries : 0..MaxRetries]]
  /\ end \in [Ends -> [pc : EndPcs, call : CallIds \cup {None},
                       pid : ProviderIds \cup {None}, seq : Nat]]
  /\ phone \in [ProviderIds -> [stage : Stages, for : CallIds \cup {None}]]
  /\ sent \subseteq ProviderIds \X Reported
  /\ delivered \subseteq sent

(* ... and, inductive with it, which handlers know of a call and a phone.  *)
HandlersTyped ==
  /\ \A s \in Starts : Created(s) => start[s].call \in CallIds
  /\ \A s \in Starts : start[s].pc \in Placed => start[s].pid \in ProviderIds
  /\ \A e \in Ends : end[e].pc \in Asking =>
       end[e].call \in CallIds /\ end[e].pid \in ProviderIds
  /\ \A p \in ProviderIds : phone[p].stage = "none" => phone[p].for = None

HandlersInv == HandlersType /\ HandlersTyped

LEMMA TypeIs == TypeOK <=> Store!TypeOK /\ HandlersType
BY DEF TypeOK, HandlersType

(* Every step of the gateway is an operation of the store, or none.        *)
LEMMA StoreStep ==
  HandlersInv /\ Store!TypeOK /\ [Next]_vars => [Store!Next]_(Store!vars)
<1> SUFFICES ASSUME HandlersInv, Store!TypeOK, Next  PROVE  Store!Next \/ UNCHANGED store
  BY DEF vars, store, Store!vars
<1>1. ASSUME NEW s \in Starts, StartStep(s)  PROVE  Store!Next \/ UNCHANGED store
  <2>1. ASSUME NEW c \in CallIds, NEW interview \in Interviews,
               NEW key \in Keys \cup {None}, StartNew(s, c, interview, key)
        PROVE  Store!Next
    BY <2>1 DEF StartNew, Store!Next
  <2>2. CASE FailCall(s)
    <3>1. Store!Report(Provider, start[s].call, None, InitiationFailed(3))
      BY <2>2 DEF FailCall
    <3>2. start[s].call \in CallIds /\ InitiationFailed(3) \in LocalEvents
      BY <2>2 DEF FailCall, StartGoes, HandlersInv, HandlersTyped, Created, LocalEvents
    <3> QED
      BY <3>1, <3>2 DEF Store!Next
  <2>3. CASE LinkBegin(s)
    <3>1. Store!LinkBegin(start[s].call, start[s].pid)
      BY <2>3 DEF LinkBegin
    <3>2. start[s].call \in CallIds /\ start[s].pid \in ProviderIds
      BY <2>3 DEF LinkBegin, StartGoes, HandlersInv, HandlersTyped, Created, Placed
    <3> QED
      BY <3>1, <3>2 DEF Store!Next
  <2>4. CASE LinkCommit(s)
    BY <2>4 DEF LinkCommit, Store!Next
  <2>5. ASSUME \/ \E interview \in Interviews, key \in Keys \cup {None} :
                    StartExisting(s, interview, key)
               \/ DialRefused(s) \/ LinkRefused(s)
               \/ \E p \in ProviderIds : Dial(s, p)
        PROVE  UNCHANGED store
    BY <2>5 DEF StartExisting, DialRefused, LinkRefused, Dial
  <2> QED
    BY <1>1, <2>1, <2>2, <2>3, <2>4, <2>5 DEF StartStep
<1>2. CASE ReplayEvent
  BY <1>2 DEF ReplayEvent, Store!Next
<1>3. ASSUME NEW e \in Ends, EndStep(e) \/ \E c \in CallIds : EndRead(e, c)
      PROVE  Store!Next \/ UNCHANGED store
  <2>1. CASE EndRecord(e)
    <3>1. Store!Report(Provider, end[e].call, end[e].pid, LocalEnd(end[e].seq))
      BY <2>1 DEF EndRecord
    <3>2. /\ end[e].call \in CallIds /\ end[e].pid \in ProviderIds
          /\ end[e].seq \in Nat
      BY <2>1 DEF EndRecord, EndGoes, HandlersInv, HandlersTyped, HandlersType, Asking
    <3>3. LocalEnd(end[e].seq) \in LocalEvents
      BY <3>2 DEF LocalEvents
    <3> QED
      BY <3>1, <3>2, <3>3 DEF Store!Next
  <2> QED
    BY <1>3, <2>1 DEF EndStep, EndAsk, EndRead
<1>4. ASSUME NEW p \in ProviderIds, NEW n \in Reported, Callback(p, n)
      PROVE  Store!Next
  <2>1. PICK withId \in WithCallId :
          Store!Report(Provider, IF withId THEN phone[p].for ELSE None, p, n)
    BY <1>4 DEF Callback
  <2>2. (IF withId THEN phone[p].for ELSE None) \in CallIds \cup {None}
    BY DEF HandlersInv, HandlersType
  <2> QED
    BY <2>1, <2>2 DEF Store!Next
<1>5. ASSUME NEW p \in ProviderIds, NEW c \in CallIds, Inbound(p, c)
      PROVE  Store!Next
  BY <1>5 DEF Inbound, Store!Next
<1>6. ASSUME NEW p \in ProviderIds,
             CandidateCalls(p) \/ Rings(p) \/ Answers(p) \/ Finishes(p)
      PROVE  UNCHANGED store
  BY <1>6 DEF CandidateCalls, Rings, Answers, Finishes
<1>7. CASE Crash
  BY <1>7 DEF Crash, Store!Next
<1>8. CASE Purge \/ Restart
  BY <1>8 DEF Purge, Restart, Store!Next
<1> QED
  BY <1>1, <1>2, <1>3, <1>4, <1>5, <1>6, <1>7, <1>8 DEF Next

(* What an action on a handler of Starts may do to it.                     *)
LEMMA StartTyped ==
  ASSUME HandlersInv, NEW s \in Starts, NEW h,
         h \in [pc : StartPcs, key : Keys \cup {None}, call : CallIds \cup {None},
               pid : ProviderIds \cup {None}, retries : 0..MaxRetries],
         h.pc \notin {"idle", "existing", "conflict"} => h.call \in CallIds,
         h.pc \in Placed => h.pid \in ProviderIds,
         start' = [start EXCEPT ![s] = h],
         UNCHANGED <<up, crashes, end, phone, sent, delivered>>
  PROVE  HandlersInv'
BY DEF HandlersInv, HandlersType, HandlersTyped, Created

LEMMA EndTyped ==
  ASSUME HandlersInv, NEW e \in Ends, NEW h,
         h \in [pc : EndPcs, call : CallIds \cup {None},
               pid : ProviderIds \cup {None}, seq : Nat],
         h.pc \in Asking => h.call \in CallIds /\ h.pid \in ProviderIds,
         end' = [end EXCEPT ![e] = h],
         UNCHANGED <<up, crashes, start, delivered>>,
         phone' \in [ProviderIds -> [stage : Stages, for : CallIds \cup {None}]],
         \A p \in ProviderIds : phone'[p].stage = "none" => phone'[p].for = None,
         sent \subseteq sent', sent' \subseteq ProviderIds \X Reported
  PROVE  HandlersInv'
BY DEF HandlersInv, HandlersType, HandlersTyped, Created

LEMMA PhonesTyped ==
  ASSUME HandlersInv, UNCHANGED <<up, crashes, start, end, delivered>>,
         phone' \in [ProviderIds -> [stage : Stages, for : CallIds \cup {None}]],
         \A p \in ProviderIds : phone'[p].stage = "none" => phone'[p].for = None,
         sent \subseteq sent', sent' \subseteq ProviderIds \X Reported
  PROVE  HandlersInv'
BY DEF HandlersInv, HandlersType, HandlersTyped, Created

(* What the provider may do to one phone. *)
LEMMA PhoneTyped ==
  ASSUME HandlersInv, NEW p \in ProviderIds, NEW stage \in Stages \ {"none"},
         phone' = [phone EXCEPT ![p].stage = stage]
  PROVE  /\ phone' \in [ProviderIds -> [stage : Stages, for : CallIds \cup {None}]]
         /\ \A q \in ProviderIds : phone'[q].stage = "none" => phone'[q].for = None
         /\ \A q \in ProviderIds : /\ phone'[q].for = phone[q].for
                                   /\ phone'[q].stage \in {phone[q].stage, stage}
BY DEF HandlersInv, HandlersType, HandlersTyped

LEMMA EndsTyped ==
  ASSUME HandlersInv, NEW p \in ProviderIds, NEW ids, PhoneEnds(p, ids)
  PROVE  /\ phone' = [phone EXCEPT ![p].stage = "over"]
         /\ sent \subseteq sent' /\ sent' \subseteq ProviderIds \X Reported
         /\ \A q \in ProviderIds, n \in Reported : <<q, n>> \in sent' \ sent => q = p
BY DEF HandlersInv, HandlersType, PhoneEnds

LEMMA CallbacksTyped ==
  ASSUME HandlersInv, NEW p \in ProviderIds, NEW ids, sent' = sent \cup Callbacks(p, ids)
  PROVE  /\ sent \subseteq sent' /\ sent' \subseteq ProviderIds \X Reported
         /\ \A q \in ProviderIds, n \in Reported : <<q, n>> \in sent' \ sent => q = p
BY DEF HandlersInv, HandlersType, Callbacks

LEMMA StartKeepsTypes ==
  ASSUME HandlersInv, Store!TypeOK, NEW s \in Starts, StartStep(s)  PROVE  HandlersInv'
<1> DEFINE Handler == [pc : StartPcs, key : Keys \cup {None}, call : CallIds \cup {None},
                       pid : ProviderIds \cup {None}, retries : 0..MaxRetries]
<1>0. /\ start[s] \in Handler
      /\ Created(s) => start[s].call \in CallIds
      /\ start[s].pc \in Placed => start[s].pid \in ProviderIds
      /\ start = [start EXCEPT ![s] = start[s]]
  BY DEF HandlersInv, HandlersType, HandlersTyped
<1>1. ASSUME NEW c \in CallIds, NEW interview \in Interviews, NEW key \in Keys \cup {None},
             StartNew(s, c, interview, key)
      PROVE  HandlersInv'
  <2> DEFINE h == [start[s] EXCEPT !.pc = "dialing", !.key = key, !.call = c]
  <2>1. start' = [start EXCEPT ![s] = h] /\ UNCHANGED <<up, crashes, end, phone, sent, delivered>>
    BY <1>1 DEF StartNew, world
  <2>2. h \in Handler /\ h.pc = "dialing" /\ h.call = c
    BY <1>0 DEF StartPcs
  <2> HIDE DEF h
  <2> QED
    BY <2>1, <2>2, StartTyped DEF Placed
<1>2. ASSUME NEW interview, NEW key \in Keys \cup {None}, StartExisting(s, interview, key)
      PROVE  HandlersInv'
  <2>1. PICK c \in Store!KeyHolders(key) :
          start' = [start EXCEPT ![s].key = key, ![s].call = c,
            ![s].pc = IF calls[c].interview = interview THEN "existing" ELSE "conflict"]
    BY <1>2 DEF StartExisting
  <2>2. c \in CallIds
    BY DEF Store!KeyHolders, Store!Stored
  <2>3. PICK pc \in {"existing", "conflict"} :
          start' = [start EXCEPT ![s] = [start[s] EXCEPT !.key = key, !.call = c, !.pc = pc]]
    BY <2>1
  <2> DEFINE h == [start[s] EXCEPT !.key = key, !.call = c, !.pc = pc]
  <2>4. h \in Handler /\ h.pc = pc
    BY <1>0, <2>2 DEF StartPcs
  <2>5. start' = [start EXCEPT ![s] = h] /\ UNCHANGED <<up, crashes, end, phone, sent, delivered>>
    BY <1>2, <2>3 DEF StartExisting, world
  <2> HIDE DEF h
  <2> QED
    BY <2>4, <2>5, StartTyped DEF Placed
<1>3. ASSUME NEW from \in {"dialing", "failing", "linking", "replaying"},
             NEW to \in {"failing", "failed", "linkError", "replaying", "linked"},
             StartGoes(s, from, to), to \in Placed => from \in Placed,
             UNCHANGED <<up, crashes, end, phone, sent, delivered>>
      PROVE  HandlersInv'
  <2> DEFINE h == [start[s] EXCEPT !.pc = to]
  <2>1. start' = [start EXCEPT ![s] = h] /\ start[s].pc = from
    BY <1>3 DEF StartGoes
  <2>2. /\ h \in Handler /\ h.pc = to /\ h.call = start[s].call /\ h.pid = start[s].pid
        /\ start[s].call \in CallIds
        /\ h.pc \in Placed => h.pid \in ProviderIds
    BY <1>0, <1>3, <2>1 DEF StartPcs, Created
  <2> HIDE DEF h
  <2> QED
    BY <1>3, <2>1, <2>2, StartTyped
<1>4. CASE DialRefused(s) \/ FailCall(s) \/ LinkRefused(s) \/ LinkBegin(s) \/ LinkCommit(s)
  BY <1>3, <1>4 DEF DialRefused, FailCall, LinkRefused, LinkBegin, LinkCommit, Placed, world
<1>5. ASSUME NEW p \in ProviderIds, Dial(s, p)  PROVE  HandlersInv'
  <2>1. /\ start[s].pc = "dialing" /\ start[s].call \in CallIds
        /\ phone' = [phone EXCEPT ![p] = [stage |-> "dialing", for |-> start[s].call]]
        /\ sent' = sent \cup Callbacks(p, {"queued", "initiated"})
        /\ UNCHANGED <<up, crashes, end, delivered>>
    BY <1>0, <1>5 DEF Dial, Created
  <2>2. PICK h \in Handler :
          /\ start' = [start EXCEPT ![s] = h]
          /\ h.call = start[s].call
          /\ h.pc \in Placed => h.pid \in ProviderIds
    <3>1. CASE start' = [start EXCEPT ![s].pc = "linking", ![s].pid = p]
      <4>1. /\ start' = [start EXCEPT ![s] = [start[s] EXCEPT !.pc = "linking", !.pid = p]]
            /\ [start[s] EXCEPT !.pc = "linking", !.pid = p] \in Handler
        BY <1>0, <3>1 DEF StartPcs
      <4> QED
        BY <1>0, <4>1
    <3>2. CASE start[s].retries < MaxRetries /\ start' = [start EXCEPT ![s].retries = @ + 1]
      <4>1. start' = [start EXCEPT ![s] = [start[s] EXCEPT !.retries = @ + 1]]
        BY <3>2
      <4>2. start[s].retries + 1 \in 0..MaxRetries
        BY <1>0, <3>2, GatewayAssumption
      <4>3. [start[s] EXCEPT !.retries = @ + 1] \in Handler
        BY <1>0, <4>2
      <4> QED
        BY <1>0, <2>1, <4>1, <4>3 DEF Placed
    <3>3. CASE start' = [start EXCEPT ![s].pc = "failing"]
      <4>1. /\ start' = [start EXCEPT ![s] = [start[s] EXCEPT !.pc = "failing"]]
            /\ [start[s] EXCEPT !.pc = "failing"] \in Handler
        BY <1>0, <3>3 DEF StartPcs
      <4> QED
        BY <1>0, <4>1 DEF Placed
    <3> QED
      BY <1>5, <3>1, <3>2, <3>3 DEF Dial
  <2>3. sent \subseteq sent' /\ sent' \subseteq ProviderIds \X Reported
    BY <2>1, CallbacksTyped
  <2> QED
    BY <2>1, <2>2, <2>3 DEF HandlersInv, HandlersType, HandlersTyped, Created, Stages
<1> QED
  BY <1>1, <1>2, <1>4, <1>5 DEF StartStep

LEMMA EndKeepsTypes ==
  ASSUME HandlersInv, Store!TypeOK, NEW e \in Ends,
         EndStep(e) \/ \E c \in CallIds : EndRead(e, c)
  PROVE  HandlersInv'
<1> DEFINE Handler == [pc : EndPcs, call : CallIds \cup {None},
                       pid : ProviderIds \cup {None}, seq : Nat]
           Phones == [ProviderIds -> [stage : Stages, for : CallIds \cup {None}]]
<1>0. /\ end[e] \in Handler /\ phone \in Phones
      /\ end[e].pc \in Asking => end[e].call \in CallIds /\ end[e].pid \in ProviderIds
      /\ \A p \in ProviderIds : phone[p].stage = "none" => phone[p].for = None
      /\ sent \subseteq ProviderIds \X Reported
  BY DEF HandlersInv, HandlersType, HandlersTyped
<1>1. ASSUME NEW c \in CallIds, EndRead(e, c)  PROVE  HandlersInv'
  <2>1. calls[c].pid \in ProviderIds \cup {None} /\ calls[c].last \in Nat
    BY DEF Store!TypeOK, Store!Row
  <2>2. PICK pc \in EndPcs :
          /\ pc \in Asking => calls[c].pid # None
          /\ end' = [end EXCEPT ![e] = [pc |-> pc, call |-> c, pid |-> calls[c].pid,
                                       seq |-> calls[c].last + 1]]
    BY <1>1 DEF EndRead, EndPcs, Asking
  <2> DEFINE h == [pc |-> pc, call |-> c, pid |-> calls[c].pid, seq |-> calls[c].last + 1]
  <2>3. h \in Handler /\ h.pc = pc /\ h.call = c /\ h.pid = calls[c].pid
    BY <2>1
  <2>4. end' = [end EXCEPT ![e] = h] /\ UNCHANGED <<up, crashes, start, phone, sent, delivered>>
    BY <1>1, <2>2 DEF EndRead, world
  <2>5. h.pc \in Asking => h.call \in CallIds /\ h.pid \in ProviderIds
    BY <2>1, <2>2, <2>3
  <2> HIDE DEF h
  <2>6. phone' = phone /\ sent' = sent /\ UNCHANGED <<up, crashes, start, delivered>>
    BY <2>4
  <2> QED
    BY <1>0, <2>3, <2>4, <2>5, <2>6, EndTyped
<1>2. ASSUME NEW from \in Asking, NEW to \in {"recording", "error", "ended"},
             EndGoes(e, from, to), UNCHANGED <<crashes, start, delivered>>,
             phone' \in Phones,
             \A p \in ProviderIds : phone'[p].stage = "none" => phone'[p].for = None,
             sent \subseteq sent', sent' \subseteq ProviderIds \X Reported, up' = up
      PROVE  HandlersInv'
  <2> DEFINE h == [end[e] EXCEPT !.pc = to]
  <2>1. end' = [end EXCEPT ![e] = h] /\ end[e].pc = from
    BY <1>2 DEF EndGoes
  <2>2. /\ h \in Handler /\ h.call = end[e].call /\ h.pid = end[e].pid
        /\ end[e].call \in CallIds /\ end[e].pid \in ProviderIds
    BY <1>0, <1>2, <2>1 DEF EndPcs
  <2> HIDE DEF h
  <2> QED
    BY <1>2, <2>1, <2>2, EndTyped
<1>3. CASE EndRecord(e)
  BY <1>0, <1>2, <1>3 DEF EndRecord, Asking, world
<1>4. CASE EndAsk(e)
  <2>1. PICK to \in {"recording", "error"} : EndGoes(e, "asking", to)
    BY <1>4 DEF EndAsk
  <2>2. end[e].pid \in ProviderIds
    BY <1>0, <2>1 DEF EndGoes, Asking
  <2>3. UNCHANGED world
        \/ PhoneEnds(end[e].pid, {"completed", "canceled", "ended", "end-of-call-report"})
    BY <1>4 DEF EndAsk, HungUp
  <2>4. /\ phone' \in Phones
        /\ \A p \in ProviderIds : phone'[p].stage = "none" => phone'[p].for = None
        /\ sent \subseteq sent' /\ sent' \subseteq ProviderIds \X Reported
    BY <1>0, <2>2, <2>3, EndsTyped, PhoneTyped DEF world, Stages
  <2> QED
    BY <1>2, <1>4, <2>1, <2>4 DEF EndAsk, Asking
<1> QED
  BY <1>1, <1>3, <1>4 DEF EndStep

LEMMA WorldKeepsTypes ==
  ASSUME HandlersInv, NEW p \in ProviderIds,
         CandidateCalls(p) \/ Rings(p) \/ Answers(p) \/ Finishes(p)
  PROVE  HandlersInv'
<1>1. CASE CandidateCalls(p)
  BY <1>1, PhoneTyped, PhonesTyped DEF CandidateCalls, Stages, handlers, HandlersInv, HandlersType
<1>2. CASE Rings(p)
  BY <1>2, PhoneTyped, PhonesTyped, CallbacksTyped DEF Rings, Stages, handlers
<1>3. CASE Answers(p)
  BY <1>3, PhoneTyped, PhonesTyped, CallbacksTyped DEF Answers, Stages, handlers
<1>4. CASE Finishes(p)
  <2>1. PICK ids : PhoneEnds(p, ids)
    BY <1>4 DEF Finishes
  <2> QED
    BY <1>4, <2>1, PhoneTyped, PhonesTyped, EndsTyped DEF Finishes, Stages, handlers
<1> QED
  BY <1>1, <1>2, <1>3, <1>4

LEMMA CrashKeepsTypes ==
  ASSUME HandlersInv, Crash  PROVE  HandlersInv'
<1>1. /\ up' = FALSE /\ crashes < MaxCrashes /\ crashes' = crashes + 1
      /\ start' = [s \in Starts |->
           IF start[s].pc \in {"dialing", "failing", "linking", "replaying"}
           THEN [start[s] EXCEPT !.pc = "lost"] ELSE start[s]]
      /\ end' = [e \in Ends |->
           IF end[e].pc \in {"asking", "recording"}
           THEN [end[e] EXCEPT !.pc = "lost"] ELSE end[e]]
      /\ UNCHANGED <<phone, sent, delivered>>
  BY DEF Crash, world
<1>2. crashes + 1 \in 0..MaxCrashes
  BY <1>1, GatewayAssumption DEF HandlersInv, HandlersType
<1>3. /\ start \in [Starts -> [pc : StartPcs, key : Keys \cup {None},
                             call : CallIds \cup {None}, pid : ProviderIds \cup {None},
                             retries : 0..MaxRetries]]
      /\ end \in [Ends -> [pc : EndPcs, call : CallIds \cup {None},
                           pid : ProviderIds \cup {None}, seq : Nat]]
  BY DEF HandlersInv, HandlersType
<1>4. ASSUME NEW s \in Starts
      PROVE  /\ start'[s] \in [pc : StartPcs, key : Keys \cup {None},
                               call : CallIds \cup {None}, pid : ProviderIds \cup {None},
                               retries : 0..MaxRetries]
             /\ start'[s].call = start[s].call /\ start'[s].pid = start[s].pid
             /\ start'[s].pc = start[s].pc \/ (start'[s].pc = "lost" /\ Created(s))
  <2>1. CASE start[s].pc \in {"dialing", "failing", "linking", "replaying"}
    BY <1>1, <1>3, <2>1 DEF StartPcs, Created
  <2>2. CASE start[s].pc \notin {"dialing", "failing", "linking", "replaying"}
    BY <1>1, <1>3, <2>2
  <2> QED
    BY <2>1, <2>2
<1>5. \A e \in Ends : /\ end'[e] \in [pc : EndPcs, call : CallIds \cup {None},
                           pid : ProviderIds \cup {None}, seq : Nat]
                      /\ end'[e].call = end[e].call /\ end'[e].pid = end[e].pid
                      /\ end'[e].pc \in {end[e].pc, "lost"}
  BY <1>1, <1>3 DEF EndPcs
<1>6. HandlersType'
  BY <1>1, <1>2, <1>4, <1>5 DEF HandlersInv, HandlersType
<1>7. HandlersTyped'
  BY <1>1, <1>4, <1>5 DEF HandlersInv, HandlersTyped, Created, Placed, Asking
<1> QED
  BY <1>6, <1>7 DEF HandlersInv

LEMMA HandlersStep ==
  HandlersInv /\ Store!TypeOK /\ [Next]_vars => HandlersInv'
<1> SUFFICES ASSUME HandlersInv, Store!TypeOK, [Next]_vars  PROVE  HandlersInv'
  OBVIOUS
<1>1. CASE UNCHANGED <<crashes, start, end, phone, sent>> /\ up' \in BOOLEAN
           /\ delivered' \subseteq sent
  BY <1>1 DEF HandlersInv, HandlersType, HandlersTyped, Created
<1>2. CASE UNCHANGED vars
  BY <1>1, <1>2 DEF vars, handlers, world, HandlersInv, HandlersType
<1>3. ASSUME NEW p \in ProviderIds, NEW n \in Reported, Callback(p, n)
      PROVE  HandlersInv'
  BY <1>1, <1>3 DEF Callback, handlers, world, HandlersInv, HandlersType
<1>4. CASE ReplayEvent \/ Purge \/ Restart
           \/ \E p \in ProviderIds, c \in CallIds : Inbound(p, c)
  BY <1>1, <1>4 DEF ReplayEvent, Purge, Restart, Inbound, handlers, world, HandlersInv, HandlersType
<1> QED
  BY <1>2, <1>3, <1>4, StartKeepsTypes, EndKeepsTypes, WorldKeepsTypes, CrashKeepsTypes DEF Next

LEMMA TypesHold == Spec => [](HandlersInv /\ SP!TypeOK)
<1>1. Init => HandlersInv /\ SP!TypeOK
  <2>1. Init => SP!Init
    BY SameLookups DEF Init, Store!Init, SP!Init
  <2>2. SP!Init => SP!TypeOK
    BY StoreAssumed, SP!RowTypes DEF SP!Init, SP!TypeOK
  <2>3. Init => HandlersInv
    BY GatewayAssumption DEF Init, HandlersInv, HandlersType, HandlersTyped, StartPcs, EndPcs,
       Stages, Created, Placed, Asking
  <2> QED
    BY <2>1, <2>2, <2>3
<1>2. HandlersInv /\ SP!TypeOK /\ [Next]_vars => (HandlersInv /\ SP!TypeOK)'
  <2> SUFFICES ASSUME HandlersInv, SP!TypeOK, [Next]_vars  PROVE  HandlersInv' /\ SP!TypeOK'
    OBVIOUS
  <2>1. Store!TypeOK
    BY SameTypes
  <2>2. [SP!Next]_(SP!vars)
    BY <2>1, StoreStep, SameNext DEF Store!vars, SP!vars
  <2> QED
    BY <2>1, <2>2, HandlersStep, StoreAssumed, SP!TypeStep
<1> QED
  BY <1>1, <1>2, PTL DEF Spec

(* The variables of the gateway have their types. CallGateway: TypeOK.     *)
THEOREM GatewayTypeCorrect == Spec => []TypeOK
<1>1. HandlersInv /\ SP!TypeOK => TypeOK
  BY TypeIs, SameTypes DEF HandlersInv
<1> QED
  BY <1>1, TypesHold, PTL

(* The handlers use the store by its operations, one at a time and with    *)
(* arguments it is defined for: whatever they, the provider and crashes    *)
(* do, the store behaves as its own specification says.                    *)
THEOREM GatewayUsesStore == Spec => Store!Spec
<1>1. Init => Store!Init
  BY DEF Init
<1>2. HandlersInv /\ SP!TypeOK /\ [Next]_vars => [Store!Next]_(Store!vars)
  BY StoreStep, SameTypes
<1> QED
  BY <1>1, <1>2, TypesHold, PTL DEF Spec, Store!Spec

(* So what the store promises holds in the gateway: of the properties of   *)
(* CallStore, AuditMatchesRow and UniqueLinks.                             *)
THEOREM StorePromisesHold == Spec => [](Store!AuditMatchesRow /\ Store!UniqueLinks)
<1>1. Store!AuditMatchesRow <=> SP!AuditMatchesRow
  BY SameLookups, SameLifecycle DEF Store!AuditMatchesRow, SP!AuditMatchesRow,
     Store!IsHistory, SP!IsHistory, Store!Agrees, SP!Agrees
<1>2. Store!UniqueLinks <=> SP!UniqueLinks
  BY SameLookups DEF Store!UniqueLinks, SP!UniqueLinks
<1>3. SP!Spec => []SP!AuditMatchesRow
  BY StoreAssumed, SP!AuditTrail
<1>4. SP!Spec => []SP!UniqueLinks
  BY StoreAssumed, SP!LinksAreUnique
<1> QED
  BY <1>1, <1>2, <1>3, <1>4, GatewayUsesStore, SameStore, PTL

LEMMA StoreHolds == Spec => []SP!RefInv
<1>1. SP!Spec => []SP!RefInv
  BY StoreAssumed, SP!RefHolds
<1> QED
  BY <1>1, GatewayUsesStore, SameStore, PTL

-----------------------------------------------------------------------------
(* How a step moves the handlers and the phones.                           *)

Live == {"dialing", "failing", "linking", "replaying"}

LEMMA RowsStay == HandlersInv /\ SP!RefInv /\ [Next]_vars => SP!RowsKept
<1> SUFFICES ASSUME HandlersInv, SP!RefInv, [Next]_vars  PROVE  SP!RowsKept
  OBVIOUS
<1>1. Store!TypeOK
  BY SameTypes DEF SP!RefInv
<1>2. [SP!Next]_(SP!vars)
  BY <1>1, StoreStep, SameNext DEF Store!vars, SP!vars
<1> QED
  BY <1>2, StoreAssumed, SP!RowsKeep

(* A handler is told to dial in the step that draws the UUID of its call.  *)
Drawn(s) ==
  /\ start[s].pc = "idle" /\ start'[s].pc = "dialing" /\ up /\ up'
  /\ start'[s].call \in issued' \ issued
  /\ calls'[start'[s].call].key = start'[s].key
  /\ calls'[start'[s].call].state = "Initiating"
  /\ start'[s].retries = start[s].retries
  /\ \A t \in Starts \ {s} : start'[t] = start[t]

(* From then on it keeps its call and its key, and the phone it was given. *)
Moved(s) ==
  /\ Created(s) /\ start'[s].pc \notin {"idle", "existing", "conflict"}
  /\ start'[s].call = start[s].call /\ start'[s].key = start[s].key
  /\ start'[s].pc \in Live => start[s].pc \in Live /\ (up => up')
  /\ start'[s].pc = "dialing" => start[s].pc = "dialing"
  /\ start'[s].retries = start[s].retries \/ \E p \in ProviderIds : Dial(s, p)
  /\ start[s].pc \in Placed => start'[s].pid = start[s].pid
  /\ start'[s].pc \in Placed =>
       \/ start'[s].pc = start[s].pc
       \/ start'[s].pc = "linking" /\ Dial(s, start'[s].pid) /\ start'[s].pid \in ProviderIds
       \/ start'[s].pc = "replaying" /\ LinkBegin(s)
       \/ start'[s].pc = "linked" /\ LinkCommit(s)
       \/ start'[s].pc = "linkError" /\ LinkRefused(s)
  /\ start[s].pc = "replaying" => start'[s].pc = "replaying" \/ LinkCommit(s) \/ Crash

Outside(s) == ~Created(s) /\ start'[s].pc \in {"idle", "existing", "conflict"}

StartsMove == \A s \in Starts : Drawn(s) \/ Moved(s) \/ Outside(s)

LEMMA OneMoves ==
  ASSUME HandlersInv, NEW s \in Starts, up' = up, Drawn(s) \/ Moved(s) \/ Outside(s),
         \A t \in Starts \ {s} : start'[t] = start[t]
  PROVE  StartsMove
BY DEF StartsMove, Drawn, Moved, Outside, Created

LEMMA StartMoves ==
  ASSUME HandlersInv, SP!TypeOK, NEW s \in Starts, StartStep(s)  PROVE  StartsMove
<1>0. /\ start \in [Starts -> [pc : StartPcs, key : Keys \cup {None},
                             call : CallIds \cup {None}, pid : ProviderIds \cup {None},
                             retries : 0..MaxRetries]]
      /\ calls \in [CallIds -> SP!Row]
  BY DEF HandlersInv, HandlersType, SP!TypeOK
<1>1. ASSUME NEW c \in CallIds, NEW interview \in Interviews, NEW key \in Keys \cup {None},
             StartNew(s, c, interview, key)
      PROVE  StartsMove
  <2>1. /\ c \in issued' \ issued
        /\ calls'[c].key = key /\ calls'[c].state = "Initiating"
    BY <1>0, <1>1 DEF StartNew, Store!BeginCall, Store!Insert
  <2>2. /\ start[s].pc = "idle" /\ up /\ up' = up
        /\ start' = [start EXCEPT ![s].pc = "dialing", ![s].key = key, ![s].call = c]
    BY <1>1 DEF StartNew
  <2>3. Drawn(s)
    BY <1>0, <2>1, <2>2 DEF Drawn
  <2> QED
    BY <2>2, <2>3, OneMoves, <1>0
<1>2. ASSUME NEW interview, NEW key, StartExisting(s, interview, key)
      PROVE  StartsMove
  <2>1. /\ start[s].pc = "idle" /\ up' = up
        /\ start'[s].pc \in {"existing", "conflict"}
        /\ \A t \in Starts \ {s} : start'[t] = start[t]
    BY <1>0, <1>2 DEF StartExisting
  <2> QED
    BY <2>1, OneMoves DEF Outside, Created
<1>3. ASSUME NEW from \in Live, NEW to \in {"failing", "failed", "linkError", "replaying", "linked"},
             StartGoes(s, from, to), up' = up,
             \/ to \notin Placed /\ from # "replaying"
             \/ to = "replaying" /\ from = "linking" /\ LinkBegin(s)
             \/ to = "linked" /\ LinkCommit(s)
             \/ to = "linkError" /\ from = "linking" /\ LinkRefused(s)
      PROVE  StartsMove
  <2>1. /\ start[s].pc = from /\ start'[s].pc = to /\ start'[s].call = start[s].call
        /\ start'[s].key = start[s].key /\ start'[s].pid = start[s].pid
        /\ start'[s].retries = start[s].retries
        /\ \A t \in Starts \ {s} : start'[t] = start[t]
    BY <1>0, <1>3 DEF StartGoes
  <2>2. Moved(s)
    BY <1>3, <2>1 DEF Moved, Created, Live
  <2> QED
    BY <1>3, <2>1, <2>2, OneMoves
<1>4. CASE DialRefused(s) \/ FailCall(s) \/ LinkRefused(s) \/ LinkBegin(s) \/ LinkCommit(s)
  BY <1>3, <1>4 DEF DialRefused, FailCall, LinkRefused, LinkBegin, LinkCommit, Placed, Live
<1>5. ASSUME NEW p \in ProviderIds, Dial(s, p)  PROVE  StartsMove
  <2>1. /\ start[s].pc = "dialing" /\ up' = up
        /\ start'[s].pc \in {"linking", "failing", "dialing"}
        /\ start'[s].pc = "linking" => start'[s].pid = p
        /\ start'[s].call = start[s].call /\ start'[s].key = start[s].key
        /\ \A t \in Starts \ {s} : start'[t] = start[t]
    BY <1>0, <1>5 DEF Dial
  <2>2. Moved(s)
    BY <1>5, <2>1 DEF Moved, Created, Live, Placed
  <2> QED
    BY <2>1, <2>2, OneMoves
<1> QED
  BY <1>1, <1>2, <1>4, <1>5 DEF StartStep

LEMMA HandlersMove == HandlersInv /\ SP!TypeOK /\ [Next]_vars => StartsMove
<1> SUFFICES ASSUME HandlersInv, SP!TypeOK, [Next]_vars  PROVE  StartsMove
  OBVIOUS
<1>1. CASE start' = start /\ (up => up')
  BY <1>1 DEF StartsMove, Moved, Outside, Created
<1>2. CASE Crash
  <2>1. \A s \in Starts : /\ start'[s].pc \notin Live
                          /\ \/ start'[s].pc = start[s].pc
                             \/ start[s].pc \in Live /\ start'[s].pc = "lost"
                          /\ start'[s].call = start[s].call /\ start'[s].key = start[s].key
                          /\ start'[s].pid = start[s].pid
                          /\ start'[s].retries = start[s].retries
    BY <1>2 DEF Crash, Live, HandlersInv, HandlersType
  <2> QED
    BY <1>2, <2>1 DEF StartsMove, Moved, Outside, Created, Live, Placed
<1>3. CASE ReplayEvent \/ Purge \/ Restart \/ UNCHANGED vars
  BY <1>1, <1>3 DEF ReplayEvent, Purge, Restart, vars, handlers
<1>4. ASSUME NEW e \in Ends, EndStep(e) \/ \E c \in CallIds : EndRead(e, c)
      PROVE  StartsMove
  BY <1>1, <1>4 DEF EndStep, EndAsk, EndRecord, EndRead
<1>5. ASSUME NEW p \in ProviderIds,
             \/ \E n \in Reported : Callback(p, n)
             \/ \E c \in CallIds : Inbound(p, c)
             \/ CandidateCalls(p) \/ Rings(p) \/ Answers(p) \/ Finishes(p)
      PROVE  StartsMove
  BY <1>1, <1>5 DEF Callback, Inbound, CandidateCalls, Rings, Answers, Finishes, handlers
<1> QED
  BY <1>2, <1>3, <1>4, <1>5, StartMoves DEF Next

(* A phone is placed for a call once, by a handler that dials, and stays;  *)
(* the provider speaks only of phones that are or were in use.             *)
PhonesMove ==
  \A p \in ProviderIds :
    /\ \/ phone'[p].for = phone[p].for
       \/ /\ phone[p].stage = "none"
          /\ \E s \in Starts : start[s].pc = "dialing" /\ phone'[p].for = start[s].call /\ Dial(s, p)
    /\ phone[p].stage # "none" => phone'[p].stage # "none"
    /\ \A n \in Reported : <<p, n>> \in sent' \ sent => phone'[p].stage # "none"

LEMMA WorldMoves == HandlersInv /\ [Next]_vars => PhonesMove
<1> SUFFICES ASSUME HandlersInv, [Next]_vars  PROVE  PhonesMove
  OBVIOUS
<1>0. phone \in [ProviderIds -> [stage : Stages, for : CallIds \cup {None}]]
  BY DEF HandlersInv, HandlersType
<1>1. CASE UNCHANGED world
  BY <1>1 DEF world, PhonesMove
<1>2. ASSUME NEW p \in ProviderIds, NEW stage \in Stages \ {"none"},
             phone' = [phone EXCEPT ![p].stage = stage],
             \A q \in ProviderIds, n \in Reported : <<q, n>> \in sent' \ sent => q = p
      PROVE  PhonesMove
  BY <1>0, <1>2 DEF PhonesMove
<1>3. ASSUME NEW s \in Starts, NEW p \in ProviderIds, Dial(s, p)  PROVE  PhonesMove
  <2>1. /\ start[s].pc = "dialing" /\ phone[p].stage = "none"
        /\ phone' = [phone EXCEPT ![p] = [stage |-> "dialing", for |-> start[s].call]]
        /\ sent' = sent \cup Callbacks(p, {"queued", "initiated"})
    BY <1>3 DEF Dial
  <2> QED
    BY <1>0, <1>3, <2>1, CallbacksTyped DEF PhonesMove
<1>4. ASSUME NEW s \in Starts, StartStep(s)  PROVE  PhonesMove
  BY <1>1, <1>3, <1>4 DEF StartStep, StartNew, StartExisting, DialRefused, FailCall, LinkRefused,
     LinkBegin, LinkCommit
<1>5. ASSUME NEW e \in Ends, EndAsk(e)  PROVE  PhonesMove
  <2>1. end[e].pid \in ProviderIds
    BY <1>5 DEF EndAsk, EndGoes, HandlersInv, HandlersTyped, Asking
  <2>2. UNCHANGED world
        \/ PhoneEnds(end[e].pid, {"completed", "canceled", "ended", "end-of-call-report"})
    BY <1>5 DEF EndAsk, HungUp
  <2> QED
    BY <1>1, <1>2, <2>1, <2>2, EndsTyped DEF Stages
<1>6. ASSUME NEW e \in Ends, EndRecord(e) \/ \E c \in CallIds : EndRead(e, c)
      PROVE  PhonesMove
  BY <1>1, <1>6 DEF EndRecord, EndRead
<1>7. ASSUME NEW p \in ProviderIds,
             (\E n \in Reported : Callback(p, n)) \/ (\E c \in CallIds : Inbound(p, c))
      PROVE  PhonesMove
  BY <1>1, <1>7 DEF Callback, Inbound
<1>8. ASSUME NEW p \in ProviderIds, CandidateCalls(p) \/ Rings(p) \/ Answers(p)
      PROVE  PhonesMove
  BY <1>2, <1>8, CallbacksTyped DEF CandidateCalls, Rings, Answers, Stages
<1>9. ASSUME NEW p \in ProviderIds, Finishes(p)  PROVE  PhonesMove
  <2>1. PICK ids : PhoneEnds(p, ids)
    BY <1>9 DEF Finishes
  <2> QED
    BY <1>2, <2>1, EndsTyped DEF Stages
<1>10. CASE ReplayEvent \/ Crash \/ Purge \/ Restart \/ UNCHANGED vars
  BY <1>1, <1>10 DEF ReplayEvent, Crash, Purge, Restart, vars
<1> QED
  BY <1>4, <1>5, <1>6, <1>7, <1>8, <1>9, <1>10 DEF Next, EndStep

-----------------------------------------------------------------------------
(* Calls, keys and phones.                                                 *)

(* Inductive: each handler that was told to dial has a call of its own,    *)
(* which its key names as long as it is stored, and it is stored while the *)
(* handler runs; phones are placed only for such calls.                    *)
OwnCalls ==
  /\ \A s \in Starts : Created(s) => start[s].call \in issued
  /\ \A s, t \in Starts :
       Created(s) /\ Created(t) /\ start[s].call = start[t].call => s = t
  /\ \A p \in ProviderIds : phone[p].for # None =>
       \E s \in Starts : Created(s) /\ phone[p].for = start[s].call
  /\ \A s \in Starts : Created(s) /\ start[s].call \in SP!Stored =>
       calls[start[s].call].key = start[s].key
  /\ \A s \in Starts : start[s].pc \in Live => up /\ start[s].call \in SP!Stored

(* Rows are removed only while the gateway is down. *)
LEMMA UpKeepsRows ==
  ASSUME HandlersInv, SP!RefInv, [Next]_vars, up
  PROVE  SP!Stored \subseteq SP!Stored'
<1>0. SP!TypeOK /\ SP!LinkInv /\ SP!TxnRemembers /\ calls \in [CallIds -> SP!Row]
  BY DEF SP!RefInv, SP!TypeOK
<1>1. CASE calls' = calls
  BY <1>1 DEF SP!Stored
<1>2. ASSUME NEW c, NEW state, NEW rows, NEW interview, NEW pid, NEW key, state # "Absent",
             Store!Insert(c, state, rows, Provider, interview, pid, key)
      PROVE  SP!Stored \subseteq SP!Stored'
  BY <1>0, <1>2 DEF Store!Insert, SP!Stored
<1>3. ASSUME NEW d \in CallIds, NEW new, NEW pid, SP!Learns(d, new, pid)
      PROVE  SP!Stored \subseteq SP!Stored'
  BY <1>0, <1>3, StoreAssumed, SP!LearnsStored
<1>4. ASSUME NEW c \in CallIds \cup {None}, NEW pid \in ProviderIds \cup {None},
             NEW n \in Reported \cup LocalEvents, Store!Report(Provider, c, pid, n)
      PROVE  SP!Stored \subseteq SP!Stored'
  BY <1>0, <1>1, <1>3, <1>4, SameReports, StoreAssumed, SP!ReportLearns
<1>5. ASSUME NEW s \in Starts, StartStep(s)  PROVE  SP!Stored \subseteq SP!Stored'
  <2>1. CASE FailCall(s)
    <3>1. start[s].call \in CallIds /\ InitiationFailed(3) \in LocalEvents
      BY <2>1 DEF FailCall, StartGoes, HandlersInv, HandlersTyped, Created, LocalEvents
    <3> QED
      BY <1>4, <2>1, <3>1 DEF FailCall
  <2>2. CASE LinkCommit(s)
    BY <1>0, <1>3, <2>2, SameLinks, StoreAssumed, SP!CommitLearns DEF LinkCommit
  <2>3. ASSUME NEW c, NEW interview, NEW key, StartNew(s, c, interview, key)
        PROVE  SP!Stored \subseteq SP!Stored'
    BY <1>2, <2>3 DEF StartNew, Store!BeginCall
  <2> QED
    BY <1>1, <1>5, <2>1, <2>2, <2>3 DEF StartStep, StartExisting, DialRefused, Dial, LinkRefused,
       LinkBegin, Store!LinkBegin, store
<1>6. ASSUME NEW e \in Ends, EndStep(e) \/ \E c \in CallIds : EndRead(e, c)
      PROVE  SP!Stored \subseteq SP!Stored'
  <2>1. CASE EndRecord(e)
    <3>1. /\ end[e].call \in CallIds /\ end[e].pid \in ProviderIds
          /\ LocalEnd(end[e].seq) \in LocalEvents
      BY <2>1 DEF EndRecord, EndGoes, HandlersInv, HandlersTyped, HandlersType, Asking, LocalEvents
    <3> QED
      BY <1>4, <2>1, <3>1 DEF EndRecord
  <2> QED
    BY <1>1, <1>6, <2>1 DEF EndStep, EndAsk, EndRead, store
<1>7. ASSUME NEW p \in ProviderIds, NEW n \in Reported, Callback(p, n)
      PROVE  SP!Stored \subseteq SP!Stored'
  <2>1. PICK withId \in WithCallId :
          Store!Report(Provider, IF withId THEN phone[p].for ELSE None, p, n)
    BY <1>7 DEF Callback
  <2>2. (IF withId THEN phone[p].for ELSE None) \in CallIds \cup {None}
    BY DEF HandlersInv, HandlersType
  <2> QED
    BY <1>4, <2>1, <2>2
<1>8. ASSUME NEW p \in ProviderIds, NEW c, Inbound(p, c)  PROVE  SP!Stored \subseteq SP!Stored'
  BY <1>2, <1>8 DEF Inbound, Store!RegisterInbound
<1>9. ASSUME NEW p, CandidateCalls(p) \/ Rings(p) \/ Answers(p) \/ Finishes(p)
      PROVE  SP!Stored \subseteq SP!Stored'
  BY <1>1, <1>9 DEF CandidateCalls, Rings, Answers, Finishes, store
<1>10. CASE ReplayEvent \/ Crash \/ UNCHANGED vars
  BY <1>1, <1>10 DEF ReplayEvent, Store!ReplayEvent, Crash, Store!LinkRollback, vars, store
<1> QED
  BY <1>5, <1>6, <1>7, <1>8, <1>9, <1>10 DEF Next, Purge, Restart

LEMMA OwnCallsStep ==
  HandlersInv /\ HandlersInv' /\ SP!RefInv /\ OwnCalls /\ [Next]_vars => OwnCalls'
<1> SUFFICES ASSUME HandlersInv, HandlersInv', SP!RefInv, OwnCalls, [Next]_vars
             PROVE  OwnCalls'
  OBVIOUS
<1>0. SP!TypeOK
  BY DEF SP!RefInv
<1>1. StartsMove /\ PhonesMove /\ SP!RowsKept
  BY <1>0, HandlersMove, WorldMoves, RowsStay
<1>2. \A s \in Starts : Created(s)' => Drawn(s) \/ Moved(s)
  BY <1>1 DEF StartsMove, Outside, Created
<1>3. \A s \in Starts : Drawn(s) => /\ start'[s].call \notin issued
                                   /\ start'[s].call \in issued'
                                   /\ ~Created(s)
  BY DEF Drawn, Created
<1>4. \A s \in Starts : Created(s)' => start'[s].call \in issued'
  BY <1>2, <1>3, <1>1 DEF OwnCalls, Moved, SP!RowsKept
<1>5. ASSUME NEW s \in Starts, NEW t \in Starts, Created(s)', Created(t)',
             start'[s].call = start'[t].call, s # t
      PROVE  FALSE
  <2>1. CASE Moved(s) /\ Moved(t)
    BY <1>5, <2>1 DEF OwnCalls, Moved
  <2>2. ASSUME NEW a \in Starts, NEW b \in Starts, a # b, Drawn(a), Created(b)',
               start'[a].call = start'[b].call
        PROVE  FALSE
    <3>1. start'[b] = start[b]
      BY <2>2 DEF Drawn
    <3> QED
      BY <1>3, <2>2, <3>1 DEF OwnCalls, Created
  <2> QED
    BY <1>2, <1>5, <2>1, <2>2
<1>6. ASSUME NEW p \in ProviderIds, phone'[p].for # None
      PROVE  \E s \in Starts : Created(s)' /\ phone'[p].for = start'[s].call
  <2>1. PICK s \in Starts : Created(s) /\ phone'[p].for = start[s].call
    BY <1>1, <1>6 DEF OwnCalls, PhonesMove, Created
  <2>2. Created(s)' /\ start'[s].call = start[s].call
    BY <1>1, <2>1 DEF StartsMove, Drawn, Moved, Outside, Created
  <2> QED
    BY <2>1, <2>2
<1>7. ASSUME NEW s \in Starts, Created(s)', start'[s].call \in SP!Stored'
      PROVE  calls'[start'[s].call].key = start'[s].key
  <2>1. CASE Drawn(s)
    BY <2>1 DEF Drawn
  <2>2. CASE Moved(s)
    <3>1. start[s].call \in issued /\ start'[s].call = start[s].call
      BY <2>2 DEF Moved, OwnCalls
    <3>2. start[s].call \in SP!Stored
      BY <1>1, <1>7, <3>1 DEF SP!RowsKept, SP!Stored
    <3> QED
      BY <1>1, <1>7, <2>2, <3>1, <3>2 DEF SP!RowsKept, Moved, OwnCalls
  <2> QED
    BY <1>2, <1>7, <2>1, <2>2
<1>8. ASSUME NEW s \in Starts, start'[s].pc \in Live
      PROVE  up' /\ start'[s].call \in SP!Stored'
  <2>0. Created(s)'
    BY <1>8 DEF Live, Created
  <2>1. CASE Drawn(s)
    <3>1. start'[s].call \in CallIds
      BY <2>0 DEF HandlersInv, HandlersTyped
    <3> QED
      BY <2>1, <3>1 DEF Drawn, SP!Stored
  <2>2. CASE Moved(s)
    BY <1>0, <1>8, <2>2, UpKeepsRows DEF Moved, OwnCalls
  <2> QED
    BY <1>2, <2>0, <2>1, <2>2
<1> QED
  BY <1>4, <1>5, <1>6, <1>7, <1>8 DEF OwnCalls

(* Inductive: a handler has as many phones as requests sent.               *)
PhonesOf(c) == {p \in ProviderIds : phone[p].for = c}

DialsCounted ==
  \A s \in Starts : Created(s) =>
    /\ IsFiniteSet(PhonesOf(start[s].call))
    /\ Cardinality(PhonesOf(start[s].call))
         <= start[s].retries + IF start[s].pc = "dialing" THEN 0 ELSE 1

LEMMA DialsStep ==
  HandlersInv /\ HandlersInv' /\ SP!RefInv /\ OwnCalls /\ DialsCounted /\ [Next]_vars
    => DialsCounted'
<1> SUFFICES ASSUME HandlersInv, HandlersInv', SP!RefInv, OwnCalls, DialsCounted, [Next]_vars,
                    NEW s \in Starts, Created(s)'
             PROVE  /\ IsFiniteSet(PhonesOf(start[s].call)')
                    /\ Cardinality(PhonesOf(start[s].call)')
                         <= start'[s].retries + IF start'[s].pc = "dialing" THEN 0 ELSE 1
  BY DEF DialsCounted
<1>1. StartsMove /\ PhonesMove
  BY HandlersMove, WorldMoves DEF SP!RefInv
<1>2. /\ start[s].retries \in Nat /\ start'[s].retries \in Nat
      /\ start \in [Starts -> [pc : StartPcs, key : Keys \cup {None}, call : CallIds \cup {None},
                               pid : ProviderIds \cup {None}, retries : 0..MaxRetries]]
      /\ phone \in [ProviderIds -> [stage : Stages, for : CallIds \cup {None}]]
  BY GatewayAssumption DEF HandlersInv, HandlersType
<1>3. \A p \in ProviderIds : phone[p].for # None => phone[p].for \in issued
  BY DEF OwnCalls
<1>4. CASE Drawn(s)
  <2>1. start'[s].call \notin issued /\ start'[s].call # None
    BY <1>4, GatewayAssumption DEF Drawn, HandlersInv, HandlersTyped
  <2>2. \A p \in ProviderIds : phone'[p].for # start'[s].call
    BY <1>1, <1>3, <2>1 DEF PhonesMove, OwnCalls, Created
  <2>3. PhonesOf(start[s].call)' = {}
    BY <2>2 DEF PhonesOf
  <2> QED
    BY <1>2, <2>3, FS_EmptySet
<1>5. CASE Moved(s)
  <2> DEFINE c == start[s].call
             old == PhonesOf(c)
             new == PhonesOf(start[s].call)'
  <2>0. /\ Created(s) /\ start'[s].call = c /\ IsFiniteSet(old)
        /\ Cardinality(old) <= start[s].retries + IF start[s].pc = "dialing" THEN 0 ELSE 1
    BY <1>5 DEF Moved, DialsCounted
  <2>1. Cardinality(old) \in Nat
    BY <2>0, FS_CardinalityType
  <2>2. ASSUME NEW p \in ProviderIds, Dial(s, p)
        PROVE  /\ IsFiniteSet(new)
               /\ Cardinality(new) <= start'[s].retries + IF start'[s].pc = "dialing" THEN 0 ELSE 1
    <3>1. /\ start[s].pc = "dialing"
          /\ phone' = [phone EXCEPT ![p] = [stage |-> "dialing", for |-> c]]
          /\ \/ start'[s].pc = "linking" /\ start'[s].retries = start[s].retries
             \/ start'[s].pc = "dialing" /\ start'[s].retries = start[s].retries + 1
             \/ start'[s].pc = "failing" /\ start'[s].retries = start[s].retries
      BY <1>2, <2>2 DEF Dial
    <3>2. new = old \cup {p}
      BY <1>2, <2>0, <3>1 DEF PhonesOf
    <3>3. IsFiniteSet(new) /\ Cardinality(new) <= Cardinality(old) + 1
      <4> HIDE DEF old, new
      <4>1. /\ IsFiniteSet(old \cup {p})
            /\ Cardinality(old \cup {p}) = IF p \in old THEN Cardinality(old)
                                           ELSE Cardinality(old) + 1
        BY <2>0, FS_AddElement
      <4> QED
        BY <2>1, <3>2, <4>1
    <3>4. Cardinality(new) \in Nat
      BY <3>3, FS_CardinalityType
    <3> HIDE DEF old, new
    <3> QED
      BY <1>2, <2>0, <2>1, <3>1, <3>3, <3>4
  <2>3. ASSUME ~ \E p \in ProviderIds : Dial(s, p)
        PROVE  /\ IsFiniteSet(new)
               /\ Cardinality(new) <= start'[s].retries + IF start'[s].pc = "dialing" THEN 0 ELSE 1
    <3>1. \A p \in ProviderIds : phone'[p].for = c => phone[p].for = c
      BY <1>1, <2>0, <2>3 DEF PhonesMove, OwnCalls, Created
    <3>2. new \subseteq old
      BY <2>0, <3>1 DEF PhonesOf
    <3>3. IsFiniteSet(new) /\ Cardinality(new) <= Cardinality(old)
      <4> HIDE DEF old, new
      <4> QED
        BY <2>0, <3>2, FS_Subset
    <3>4. Cardinality(new) \in Nat
      BY <3>3, FS_CardinalityType
    <3>5. /\ start'[s].retries = start[s].retries
          /\ start'[s].pc = "dialing" => start[s].pc = "dialing"
      BY <1>5, <2>3 DEF Moved
    <3> HIDE DEF old, new
    <3>6. CASE start'[s].pc = "dialing"
      <4>1. Cardinality(old) <= start[s].retries + 0
        BY <2>0, <3>5, <3>6
      <4> QED
        BY <1>2, <2>1, <3>3, <3>4, <3>5, <3>6, <4>1
    <3>7. CASE start'[s].pc # "dialing"
      <4>1. Cardinality(old) <= start[s].retries + 1
        BY <1>2, <2>0, <2>1
      <4> QED
        BY <1>2, <2>1, <3>3, <3>4, <3>5, <3>7, <4>1
    <3> QED
      BY <3>6, <3>7
  <2> QED
    BY <2>2, <2>3
<1> QED
  BY <1>1, <1>4, <1>5 DEF StartsMove, Outside, Created

LEMMA CallsHold == Spec => [](OwnCalls /\ DialsCounted)
<1>1. Init => OwnCalls /\ DialsCounted
  BY DEF Init, OwnCalls, DialsCounted, Created, Live
<1>2. HandlersInv /\ SP!TypeOK /\ (HandlersInv /\ SP!TypeOK)' /\ SP!RefInv
        /\ (OwnCalls /\ DialsCounted) /\ [Next]_vars => (OwnCalls /\ DialsCounted)'
  BY OwnCallsStep, DialsStep
<1> QED
  BY <1>1, <1>2, TypesHold, StoreHolds, PTL DEF Spec

(* One idempotency key, one phone call, and one more for each repetition   *)
(* of the provider client, however many requests carry the key and         *)
(* wherever the gateway dies.  CallGateway: KeyDialsOnce.                  *)
THEOREM KeysDialOnce == Spec => []KeyDialsOnce
<1>1. HandlersInv /\ SP!RefInv /\ OwnCalls /\ DialsCounted => KeyDialsOnce
  <2> SUFFICES ASSUME HandlersInv, SP!RefInv, OwnCalls, DialsCounted, NEW key \in Keys
               PROVE  Cardinality(PhonesFor(key)) <= 1 + MaxRetries
    BY DEF KeyDialsOnce
  <2>0. SP!UniqueLinks /\ MaxRetries \in Nat
    BY GatewayAssumption DEF SP!RefInv, SP!LinkInv
  <2>1. CASE PhonesFor(key) = {}
    BY <2>0, <2>1, FS_EmptySet
  <2>2. CASE PhonesFor(key) # {}
    <3>1. PICK s \in Starts : /\ Created(s) /\ start[s].key = key
                             /\ start[s].call \in SP!Stored
      BY <2>2, SameLookups DEF PhonesFor
    <3>2. ASSUME NEW t \in Starts, Created(t), start[t].key = key, start[t].call \in SP!Stored
          PROVE  start[t].call = start[s].call
      <4>1. calls[start[s].call].key = key /\ calls[start[t].call].key = key /\ key # None
        BY <3>1, <3>2, GatewayAssumption DEF OwnCalls
      <4> QED
        BY <2>0, <3>1, <3>2, <4>1 DEF SP!UniqueLinks
    <3>3. PhonesFor(key) \subseteq PhonesOf(start[s].call)
      BY <3>2, SameLookups DEF PhonesFor, PhonesOf
    <3>4. /\ IsFiniteSet(PhonesOf(start[s].call))
          /\ Cardinality(PhonesOf(start[s].call)) <= start[s].retries + 1
      <4>1. start[s].retries \in Nat
        BY GatewayAssumption DEF HandlersInv, HandlersType
      <4>2. IsFiniteSet(PhonesOf(start[s].call))
        BY <3>1 DEF DialsCounted
      <4>3. Cardinality(PhonesOf(start[s].call)) \in Nat
        BY <4>2, FS_CardinalityType
      <4> QED
        BY <3>1, <4>1, <4>2, <4>3 DEF DialsCounted
    <3>5. /\ Cardinality(PhonesFor(key)) <= Cardinality(PhonesOf(start[s].call))
          /\ IsFiniteSet(PhonesFor(key))
      BY <3>3, <3>4, FS_Subset
    <3>6. /\ Cardinality(PhonesFor(key)) \in Nat
          /\ Cardinality(PhonesOf(start[s].call)) \in Nat
      BY <3>4, <3>5, FS_CardinalityType
    <3>7. start[s].retries \in 0..MaxRetries
      BY DEF HandlersInv, HandlersType
    <3> QED
      BY <2>0, <3>4, <3>5, <3>6, <3>7
  <2> QED
    BY <2>1, <2>2
<1> QED
  BY <1>1, CallsHold, TypesHold, StoreHolds, PTL

(* A handler of POST /calls/{id}/end asks about the phone it read.         *)
EndsMove ==
  \A e \in Ends : end'[e].pc \in Asking =>
    \/ end[e].pc \in Asking /\ end'[e].call = end[e].call /\ end'[e].pid = end[e].pid
    \/ /\ end'[e].call \in SP!Stored /\ end'[e].pid = calls[end'[e].call].pid
       /\ UNCHANGED <<issued, calls>>

LEMMA EndHandlersMove == HandlersInv /\ [Next]_vars => EndsMove
<1> SUFFICES ASSUME HandlersInv, [Next]_vars  PROVE  EndsMove
  OBVIOUS
<1>0. end \in [Ends -> [pc : EndPcs, call : CallIds \cup {None},
                      pid : ProviderIds \cup {None}, seq : Nat]]
  BY DEF HandlersInv, HandlersType
<1>1. CASE end' = end
  BY <1>1 DEF EndsMove
<1>2. ASSUME NEW e \in Ends, NEW c \in CallIds, EndRead(e, c)  PROVE  EndsMove
  <2>1. /\ c \in SP!Stored /\ UNCHANGED <<issued, calls>>
        /\ end'[e].call = c /\ end'[e].pid = calls[c].pid
        /\ \A d \in Ends \ {e} : end'[d] = end[d]
    BY <1>0, <1>2, SameLookups DEF EndRead, store
  <2> QED
    BY <2>1 DEF EndsMove
<1>3. ASSUME NEW e \in Ends, NEW from \in Asking, NEW to, EndGoes(e, from, to)
      PROVE  EndsMove
  <2>1. /\ end[e].pc \in Asking /\ end'[e].call = end[e].call /\ end'[e].pid = end[e].pid
        /\ \A d \in Ends \ {e} : end'[d] = end[d]
    BY <1>0, <1>3 DEF EndGoes
  <2> QED
    BY <2>1 DEF EndsMove
<1>4. ASSUME NEW e \in Ends, EndStep(e)  PROVE  EndsMove
  BY <1>3, <1>4 DEF EndStep, EndAsk, EndRecord, Asking
<1>5. CASE Crash
  BY <1>0, <1>5 DEF Crash, EndsMove, Asking
<1>6. ASSUME NEW s, StartStep(s)  PROVE  EndsMove
  BY <1>1, <1>6 DEF StartStep, StartNew, StartExisting, DialRefused, Dial, FailCall, LinkRefused,
     LinkBegin, LinkCommit
<1>7. ASSUME NEW p,
             \/ \E n \in Reported : Callback(p, n)
             \/ \E c \in CallIds : Inbound(p, c)
             \/ CandidateCalls(p) \/ Rings(p) \/ Answers(p) \/ Finishes(p)
      PROVE  EndsMove
  BY <1>1, <1>7 DEF Callback, Inbound, CandidateCalls, Rings, Answers, Finishes, handlers
<1>8. CASE ReplayEvent \/ Purge \/ Restart \/ UNCHANGED vars
  BY <1>1, <1>8 DEF ReplayEvent, Purge, Restart, vars, handlers
<1> QED
  BY <1>2, <1>4, <1>5, <1>6, <1>7, <1>8 DEF Next

-----------------------------------------------------------------------------
(* Who writes a link, an event or an unmatched event, and who removes one. *)

(* Inductive: rows are linked to the phones placed for them, or that they  *)
(* were registered for.                                                    *)
Links ==
  /\ \A c \in SP!Stored, p \in ProviderIds : calls[c].pid = p =>
       \/ phone[p].for = c
       \/ CandidatePlaced(p) /\ \A s \in Starts : Created(s) => start[s].call # c
  /\ \A s \in Starts : start[s].pc \in Placed => phone[start[s].pid].for = start[s].call
  /\ \A s \in Starts : start[s].pc = "linked" /\ start[s].call \in SP!Stored =>
       calls[start[s].call].pid = start[s].pid
  /\ \A e \in Ends : end[e].pc \in Asking =>
       /\ end[e].call \in issued
       /\ end[e].call \in SP!Stored => calls[end[e].call].pid = end[e].pid
  /\ \A p \in ProviderIds, n \in Reported : <<p, n>> \in sent => phone[p].stage # "none"

(* Inductive: the open transaction is that of a handler.                   *)
TxnOwned ==
  /\ \A s \in Starts : start[s].pc = "replaying" =>
       txn.call = start[s].call /\ txn.pid = start[s].pid
  /\ SP!Replaying => \E s \in Starts : start[s].pc = "replaying"
  /\ \A c \in SP!Stored : calls[c].provider = Provider

(* What a report about provider call pid, for call c or none, writes.      *)
Writes(c, pid, n) ==
  \/ /\ UNCHANGED <<issued, calls, events, txn>>
     /\ SP!Lookup(c, pid) = {} /\ pid # None
     /\ \E u : /\ u.pid = pid /\ u.notice = n /\ unmatched' = unmatched \cup {u}
  \/ \E d \in SP!Lookup(c, pid) :
       /\ d \in SP!Stored /\ UNCHANGED <<issued, unmatched, txn>>
       /\ \A e \in CallIds \ {d} : calls'[e] = calls[e] /\ events'[e] = events[e]
       /\ events'[d] = events[d] \cup {n.id}
       /\ calls'[d].pid = IF pid = None THEN calls[d].pid ELSE pid

LEMMA ReportWrites ==
  ASSUME SP!TypeOK, NEW c \in CallIds \cup {None}, NEW pid \in ProviderIds \cup {None},
         NEW n \in Reported \cup LocalEvents, Store!Report(Provider, c, pid, n)
  PROVE  Writes(c, pid, n) /\ ~SP!Replaying
<1>1. SP!Report(Provider, c, pid, n)
  BY SameReports
<1>2. ~SP!Replaying
  BY <1>1 DEF SP!Report, SP!StoreUnmatched, SP!ApplyDuplicate, SP!ApplyState, SP!Accepts,
     SP!Unlocked, SP!Replaying
<1>3. CASE SP!StoreUnmatched(Provider, c, pid, n)
  <2>1. PICK at \in 1..MaxArrivals : unmatched' = unmatched \cup
            {[provider |-> Provider, pid |-> pid, notice |-> n, at |-> at]}
    BY <1>3 DEF SP!StoreUnmatched
  <2> DEFINE u == [provider |-> Provider, pid |-> pid, notice |-> n, at |-> at]
  <2>2. u.pid = pid /\ u.notice = n /\ unmatched' = unmatched \cup {u}
    BY <2>1
  <2>3. /\ UNCHANGED <<issued, calls, events, txn>>
        /\ SP!Lookup(c, pid) = {} /\ pid # None
    BY <1>3 DEF SP!StoreUnmatched
  <2> HIDE DEF u
  <2> QED
    BY <1>2, <2>2, <2>3 DEF Writes
<1>4. ASSUME NEW d \in CallIds, NEW new, SP!Learns(d, new, pid), d \in SP!Lookup(c, pid),
             SP!Notes(d, n), UNCHANGED <<unmatched, txn>>
      PROVE  Writes(c, pid, n)
  BY <1>4 DEF SP!Notes, SP!Learns, Writes, SP!TypeOK
<1>5. \/ SP!StoreUnmatched(Provider, c, pid, n)
      \/ \E d \in CallIds : \E new :
           /\ SP!Learns(d, new, pid)
           /\ d \in SP!Lookup(c, pid) /\ SP!Notes(d, n)
           /\ UNCHANGED <<unmatched, txn>>
  BY <1>1, StoreAssumed, SP!ReportLearns
<1> QED
  BY <1>2, <1>3, <1>4, <1>5

(* What the commit of a link writes. *)
LEMMA CommitWrites ==
  ASSUME SP!RefInv, NEW s \in Starts, LinkCommit(s)
  PROVE  /\ SP!Replaying /\ txn.left = {} /\ txn.call \in SP!Stored
         /\ txn' = SP!NoTxn /\ txn'.call = None
         /\ \A e \in CallIds \ {txn.call} : calls'[e] = calls[e] /\ events'[e] = events[e]
         /\ calls'[txn.call].pid = txn.pid /\ events'[txn.call] = txn.events
         /\ unmatched' = {u \in unmatched : ~(u.provider = txn.row.provider /\ u.pid = txn.pid)}
         /\ issued' = issued /\ UNCHANGED <<end, world, delivered>>
         /\ start[s].pc = "replaying"
<1>1. SP!LinkCommit
  BY SameLinks DEF LinkCommit
<1>2. SP!Replaying => txn.call \in SP!Stored /\ txn.row.pid = txn.pid
  BY DEF SP!RefInv, SP!LinkInv, SP!TxnInv
<1>3. calls \in [CallIds -> SP!Row] /\ DOMAIN events = CallIds
  BY DEF SP!RefInv, SP!TypeOK
<1> QED
  BY <1>1, <1>2, <1>3 DEF SP!LinkCommit, SP!Waiting, SP!NoTxn, LinkCommit, StartGoes, SP!Stored

LEMMA BeginWrites ==
  ASSUME NEW s \in Starts, LinkBegin(s)
  PROVE  /\ ~SP!Replaying /\ start[s].call \in SP!Stored
         /\ SP!MayLink(start[s].call, start[s].pid)
         /\ txn'.call = start[s].call /\ txn'.pid = start[s].pid
         /\ txn'.events = events[start[s].call]
         /\ txn'.left = {u \in unmatched : /\ u.provider = calls[start[s].call].provider
                                          /\ u.pid = start[s].pid}
         /\ UNCHANGED <<issued, calls, events, unmatched, end, world, delivered>>
         /\ start[s].pc = "linking"
<1>1. SP!LinkBegin(start[s].call, start[s].pid)
  BY SameLinks DEF LinkBegin
<1> QED
  BY <1>1 DEF SP!LinkBegin, SP!Waiting, SP!Unlocked, SP!Replaying, LinkBegin, StartGoes

(* What the replay of an event does to the transaction. *)
LEMMA ReplayWrites ==
  ASSUME SP!TypeOK, ReplayEvent
  PROVE  /\ UNCHANGED <<issued, calls, events, unmatched, up, handlers, world, delivered>>
         /\ SP!Replaying /\ txn'.call = txn.call /\ txn'.pid = txn.pid
         /\ \E u \in txn.left : /\ txn'.events = txn.events \cup {u.notice.id}
                                /\ txn'.left = txn.left \ {u}
<1>1. SP!ReplayEvent
  BY SameLinks DEF ReplayEvent
<1>2. /\ SP!Replaying /\ UNCHANGED <<issued, calls, log, events, unmatched>>
      /\ UNCHANGED <<up, handlers, world, delivered>>
  BY <1>1 DEF SP!ReplayEvent, ReplayEvent
<1>3. PICK u \in txn.left :
        \/ u.notice.id \in txn.events /\ txn' = [txn EXCEPT !.left = @ \ {u}]
        \/ \E row, rows : txn' = [txn EXCEPT !.row = row, !.log = rows,
                                  !.events = @ \cup {u.notice.id}, !.left = @ \ {u}]
  BY <1>1 DEF SP!ReplayEvent
<1>4. txn'.call = txn.call /\ txn'.pid = txn.pid /\ txn'.left = txn.left \ {u}
      /\ txn'.events = txn.events \cup {u.notice.id}
  <2>1. txn \in [call : CallIds \cup {None}, pid : ProviderIds \cup {None},
                row : SP!Row, log : Seq(SP!LogRow),
                events : SUBSET ({n.id : n \in Reported} \cup LocalIds),
                left : SUBSET SP!Unmatched]
    BY DEF SP!TypeOK
  <2> QED
    BY <1>3, <2>1
<1> QED
  BY <1>2, <1>4

(* The ways a step writes to the store. *)
Quiet == UNCHANGED <<issued, calls, events, unmatched, txn, delivered>>

Added ==
  \E c \in CallIds :
    /\ c \notin issued
    /\ calls'[c].pid # None => CandidatePlaced(calls'[c].pid) /\ start' = start
    /\ \A e \in CallIds \ {c} : calls'[e] = calls[e]
    /\ UNCHANGED <<events, unmatched, txn, delivered>>

(* A report of the gateway itself: the call cannot be started or is ended. *)
OwnReport ==
  \E c \in CallIds, pid \in ProviderIds \cup {None}, n \in LocalEvents :
    /\ Writes(c, pid, n) /\ ~SP!Replaying /\ UNCHANGED <<phone, delivered>>
    /\ pid # None => \E e \in Ends : end[e].pc \in Asking /\ end[e].call = c /\ end[e].pid = pid

Reports ==
  \E p \in ProviderIds, n \in Reported :
    /\ \E c \in {phone[p].for, None} : Writes(c, p, n)
    /\ ~SP!Replaying /\ <<p, n>> \in sent
    /\ delivered' = delivered \cup {<<p, n>>} /\ UNCHANGED <<start, phone>>

Dies ==
  /\ up /\ ~up' /\ Crash
  /\ UNCHANGED <<issued, calls, events, unmatched, delivered>>
  /\ txn'.call = None

Purges ==
  /\ ~up
  /\ \A c \in SP!Stored' : c \in SP!Stored /\ calls'[c] = calls[c] /\ events'[c] = events[c]
  /\ unmatched' \subseteq unmatched
  /\ UNCHANGED <<issued, txn, start, phone, delivered>>

StoreMoves ==
  \/ Quiet \/ Added \/ OwnReport \/ Reports \/ Dies \/ Purges \/ ReplayEvent
  \/ \E s \in Starts : LinkBegin(s) \/ LinkCommit(s)

LEMMA StoreMovesHold == HandlersInv /\ SP!TypeOK /\ [Next]_vars => StoreMoves
<1> SUFFICES ASSUME HandlersInv, SP!TypeOK, [Next]_vars  PROVE  StoreMoves
  OBVIOUS
<1>0. calls \in [CallIds -> SP!Row] /\ start \in [Starts -> [pc : StartPcs,
        key : Keys \cup {None}, call : CallIds \cup {None}, pid : ProviderIds \cup {None},
        retries : 0..MaxRetries]]
  BY DEF SP!TypeOK, HandlersInv, HandlersType
<1>1. CASE UNCHANGED store /\ delivered' = delivered
  BY <1>1 DEF store, StoreMoves, Quiet
<1>2. ASSUME NEW c \in CallIds, NEW state, NEW rows, NEW interview, NEW pid, NEW key,
             Store!Insert(c, state, rows, Provider, interview, pid, key),
             pid # None => CandidatePlaced(pid) /\ start' = start,
             delivered' = delivered
      PROVE  StoreMoves
  <2>1. /\ c \notin issued /\ calls'[c].pid = pid
        /\ \A e \in CallIds \ {c} : calls'[e] = calls[e]
        /\ UNCHANGED <<events, unmatched, txn, delivered>>
    BY <1>0, <1>2 DEF Store!Insert
  <2>2. Added
    BY <1>2, <2>1 DEF Added
  <2> QED
    BY <2>2 DEF StoreMoves
<1>3. ASSUME NEW s \in Starts, StartStep(s)  PROVE  StoreMoves
  <2>1. CASE FailCall(s)
    <3>1. start[s].call \in CallIds /\ InitiationFailed(3) \in LocalEvents
      BY <2>1 DEF FailCall, StartGoes, HandlersInv, HandlersTyped, Created, LocalEvents
    <3>2. Writes(start[s].call, None, InitiationFailed(3)) /\ ~SP!Replaying
      BY <2>1, <3>1, ReportWrites DEF FailCall
    <3>3. UNCHANGED <<phone, delivered>>
      BY <2>1 DEF FailCall, world
    <3> QED
      BY <3>1, <3>2, <3>3 DEF StoreMoves, OwnReport
  <2>2. ASSUME NEW c \in CallIds, NEW interview, NEW key, StartNew(s, c, interview, key)
        PROVE  StoreMoves
    BY <1>2, <2>2 DEF StartNew, Store!BeginCall
  <2> QED
    BY <1>1, <1>3, <2>1, <2>2 DEF StartStep, StartExisting, DialRefused, Dial, LinkRefused, StoreMoves
<1>4. ASSUME NEW e \in Ends, EndStep(e) \/ \E c \in CallIds : EndRead(e, c)
      PROVE  StoreMoves
  <2>1. CASE EndRecord(e)
    <3>1. /\ end[e].call \in CallIds /\ end[e].pid \in ProviderIds /\ end[e].pc \in Asking
          /\ LocalEnd(end[e].seq) \in LocalEvents
      BY <2>1 DEF EndRecord, EndGoes, HandlersInv, HandlersTyped, HandlersType, Asking, LocalEvents
    <3>2. Writes(end[e].call, end[e].pid, LocalEnd(end[e].seq)) /\ ~SP!Replaying
      BY <2>1, <3>1, ReportWrites DEF EndRecord
    <3>3. UNCHANGED <<phone, delivered>>
      BY <2>1 DEF EndRecord, world
    <3> QED
      BY <3>1, <3>2, <3>3 DEF StoreMoves, OwnReport
  <2> QED
    BY <1>1, <1>4, <2>1 DEF EndStep, EndAsk, EndRead
<1>5. ASSUME NEW p \in ProviderIds, NEW n \in Reported, Callback(p, n)  PROVE  StoreMoves
  <2>1. PICK withId \in WithCallId :
          Store!Report(Provider, IF withId THEN phone[p].for ELSE None, p, n)
    BY <1>5 DEF Callback
  <2>2. PICK c \in {phone[p].for, None} : Store!Report(Provider, c, p, n)
    BY <2>1
  <2>3. c \in CallIds \cup {None}
    BY DEF HandlersInv, HandlersType
  <2>4. Writes(c, p, n) /\ ~SP!Replaying
    BY <2>2, <2>3, ReportWrites
  <2>5. Reports
    BY <1>5, <2>4 DEF Callback, Reports, world, handlers
  <2> QED
    BY <2>5 DEF StoreMoves
<1>6. ASSUME NEW p \in ProviderIds, NEW c \in CallIds, Inbound(p, c)  PROVE  StoreMoves
  BY <1>2, <1>6 DEF Inbound, Store!RegisterInbound, handlers
<1>7. ASSUME NEW p, CandidateCalls(p) \/ Rings(p) \/ Answers(p) \/ Finishes(p)
      PROVE  StoreMoves
  BY <1>1, <1>7 DEF CandidateCalls, Rings, Answers, Finishes
<1>8. CASE Crash
  <2>1. UNCHANGED <<issued, calls, events, unmatched, delivered>> /\ up /\ ~up'
    BY <1>8 DEF Crash, Store!LinkRollback, store
  <2>2. txn'.call = None
    BY <1>8 DEF Crash, Store!LinkRollback, Store!Replaying, Store!NoTxn, store
  <2> QED
    BY <1>8, <2>1, <2>2 DEF StoreMoves, Dies
<1>9. CASE Purge
  <2>1. ~up /\ UNCHANGED <<issued, txn, start, phone, delivered>>
    BY <1>9 DEF Purge, Store!PurgeTerminal, Store!PurgeUnmatched, handlers, world
  <2>2. ASSUME NEW S \in SUBSET CallIds, SP!PurgeTerminal(S)
        PROVE  /\ \A c \in SP!Stored' : /\ c \in SP!Stored
                                       /\ calls'[c] = calls[c] /\ events'[c] = events[c]
               /\ unmatched' = unmatched
    BY <2>2 DEF SP!PurgeTerminal, SP!Stored, SP!NoCall
  <2>3. ASSUME NEW cutoff, SP!PurgeUnmatched(cutoff)
        PROVE  unmatched' \subseteq unmatched /\ UNCHANGED <<calls, events>>
    BY <2>3 DEF SP!PurgeUnmatched
  <2>4. /\ \A c \in SP!Stored' : /\ c \in SP!Stored
                                /\ calls'[c] = calls[c] /\ events'[c] = events[c]
        /\ unmatched' \subseteq unmatched
    BY <1>9, <2>2, <2>3, SamePurges DEF Purge, SP!Stored
  <2> QED
    BY <2>1, <2>4 DEF StoreMoves, Purges
<1>10. CASE Restart \/ UNCHANGED vars
  BY <1>1, <1>10 DEF Restart, vars
<1> QED
  BY <1>3, <1>4, <1>5, <1>6, <1>7, <1>8, <1>9, <1>10 DEF Next, StoreMoves

-----------------------------------------------------------------------------
(* Links.                                                                  *)

(* A link is old, or to the phone placed for the call, or the row is new.  *)
LinkOrigin(c, p) ==
  \/ c \in SP!Stored /\ calls[c].pid = p
  \/ phone[p].for = c
  \/ c \notin issued /\ CandidatePlaced(p) /\ start' = start

LEMMA LinksComeFrom ==
  ASSUME HandlersInv, SP!RefInv, OwnCalls, Links, TxnOwned, StoreMoves,
         NEW c \in SP!Stored', NEW p \in ProviderIds, calls'[c].pid = p
  PROVE  LinkOrigin(c, p)
<1>0. c \in CallIds /\ p # None
  BY GatewayAssumption DEF SP!Stored
<1>1. CASE calls'[c] = calls[c]
  BY <1>0, <1>1 DEF SP!Stored, LinkOrigin
<1>2. CASE Added
  BY <1>0, <1>1, <1>2 DEF Added, LinkOrigin
<1>3. ASSUME NEW d, NEW pid \in ProviderIds \cup {None}, NEW n, Writes(d, pid, n),
             \A e \in SP!Lookup(d, pid) : pid # None =>
               phone[pid].for = e \/ calls[e].pid = pid
      PROVE  LinkOrigin(c, p)
  <2>1. CASE calls' = calls
    BY <1>1, <2>1
  <2>2. ASSUME NEW e \in SP!Lookup(d, pid), e \in SP!Stored,
               \A f \in CallIds \ {e} : calls'[f] = calls[f],
               calls'[e].pid = IF pid = None THEN calls[e].pid ELSE pid
        PROVE  LinkOrigin(c, p)
    <3>1. CASE c # e
      BY <1>0, <1>1, <2>2, <3>1
    <3>2. CASE c = e /\ pid = None
      BY <1>3, <2>2, <3>2 DEF LinkOrigin
    <3>3. CASE c = e /\ pid # None
      BY <1>3, <2>2, <3>3 DEF LinkOrigin
    <3> QED
      BY <3>1, <3>2, <3>3
  <2> QED
    BY <1>3, <2>1, <2>2 DEF Writes
<1>4. CASE OwnReport
  <2>1. PICK d \in CallIds, pid \in ProviderIds \cup {None}, n \in LocalEvents :
          /\ Writes(d, pid, n)
          /\ pid # None => \E e \in Ends : end[e].pc \in Asking /\ end[e].call = d /\ end[e].pid = pid
    BY <1>4 DEF OwnReport
  <2>2. ASSUME NEW e \in SP!Lookup(d, pid), pid # None
        PROVE  calls[e].pid = pid
    BY <2>1, <2>2 DEF Links, SP!Lookup, SP!Holders
  <2> QED
    BY <1>3, <2>1, <2>2
<1>5. CASE Reports
  <2>0. PICK q \in ProviderIds, n \in Reported : \E d \in {phone[q].for, None} : Writes(d, q, n)
    BY <1>5 DEF Reports
  <2>1. PICK d \in {phone[q].for, None} : Writes(d, q, n)
    BY <2>0
  <2>2. ASSUME NEW e \in SP!Lookup(d, q)
        PROVE  phone[q].for = e \/ calls[e].pid = q
    BY GatewayAssumption DEF SP!Lookup, SP!Holders, SP!Stored
  <2> QED
    BY <1>3, <2>1, <2>2
<1>6. CASE Purges
  BY <1>1, <1>6 DEF Purges
<1>7. CASE Quiet \/ Dies \/ \E s \in Starts : LinkBegin(s)
  BY <1>1, <1>7, BeginWrites DEF Quiet, Dies
<1>8. CASE ReplayEvent
  BY <1>1, <1>8, ReplayWrites DEF SP!RefInv
<1>9. ASSUME NEW s \in Starts, LinkCommit(s)  PROVE  LinkOrigin(c, p)
  <2>1. CASE c # txn.call
    BY <1>0, <1>1, <1>9, <2>1, CommitWrites
  <2>2. CASE c = txn.call
    <3>1. start[s].pc = "replaying" /\ calls'[c].pid = txn.pid
      BY <1>9, <2>2, CommitWrites
    <3>2. txn.call = start[s].call /\ txn.pid = start[s].pid /\ start[s].pc \in Placed
      BY <3>1 DEF TxnOwned, Placed
    <3>3. phone[p].for = c
      BY <2>2, <3>1, <3>2 DEF Links
    <3> QED
      BY <3>3 DEF LinkOrigin
  <2> QED
    BY <2>1, <2>2
<1> QED
  BY <1>2, <1>4, <1>5, <1>6, <1>7, <1>8, <1>9 DEF StoreMoves

Moves == StartsMove /\ PhonesMove /\ EndsMove /\ StoreMoves /\ SP!RowsKept

LEMMA MovesHold == HandlersInv /\ SP!RefInv /\ [Next]_vars => Moves
BY HandlersMove, WorldMoves, EndHandlersMove, StoreMovesHold, RowsStay DEF Moves, SP!RefInv

(* What stays: the phone of a handler or a call, and the call of a phone.  *)
LEMMA PhonesStay ==
  ASSUME HandlersInv, PhonesMove, NEW p \in ProviderIds
  PROVE  /\ phone[p].for # None => phone'[p].for = phone[p].for
         /\ CandidatePlaced(p) => CandidatePlaced(p)'
BY DEF HandlersInv, HandlersTyped, PhonesMove, CandidatePlaced

LEMMA LinksStep ==
  HandlersInv /\ HandlersInv' /\ SP!RefInv /\ OwnCalls /\ Links /\ TxnOwned /\ [Next]_vars
    => Links'
<1> SUFFICES ASSUME HandlersInv, HandlersInv', SP!RefInv, OwnCalls, Links, TxnOwned, [Next]_vars
             PROVE  Links'
  OBVIOUS
<1>0. Moves /\ SP!Issued /\ None \notin CallIds /\ None \notin ProviderIds
  BY MovesHold, GatewayAssumption DEF SP!RefInv
<1>1. ASSUME NEW c \in SP!Stored', NEW p \in ProviderIds, calls'[c].pid = p
      PROVE  \/ phone'[p].for = c
             \/ CandidatePlaced(p)' /\ \A s \in Starts : Created(s)' => start'[s].call # c
  <2>0. c \in CallIds /\ c # None
    BY <1>0 DEF SP!Stored
  <2>1. LinkOrigin(c, p)
    BY <1>0, <1>1, LinksComeFrom DEF Moves
  <2>2. CASE phone[p].for = c
    BY <1>0, <2>0, <2>2, PhonesStay DEF Moves
  <2>3. CASE /\ c \in SP!Stored /\ CandidatePlaced(p)
             /\ \A s \in Starts : Created(s) => start[s].call # c
    <3>1. c \in issued
      BY <1>0, <2>3 DEF SP!Issued
    <3>2. \A s \in Starts : Created(s)' => start'[s].call # c
      BY <1>0, <2>3, <3>1 DEF Moves, StartsMove, Drawn, Moved, Outside, Created
    <3> QED
      BY <1>0, <2>3, <3>2, PhonesStay DEF Moves
  <2>4. CASE c \notin issued /\ CandidatePlaced(p) /\ start' = start
    <3>1. \A s \in Starts : Created(s)' => start'[s].call # c
      BY <2>4 DEF OwnCalls, Created
    <3> QED
      BY <1>0, <2>4, <3>1, PhonesStay DEF Moves
  <2> QED
    BY <2>1, <2>2, <2>3, <2>4 DEF LinkOrigin, Links
<1>2. ASSUME NEW s \in Starts, start'[s].pc \in Placed
      PROVE  phone'[start'[s].pid].for = start'[s].call
  <2>1. Moved(s)
    BY <1>0, <1>2 DEF Moves, StartsMove, Drawn, Outside, Placed
  <2>2. CASE start[s].pc \in Placed
    <3>1. /\ start'[s].pid = start[s].pid /\ start'[s].call = start[s].call
          /\ phone[start[s].pid].for = start[s].call /\ start[s].pid \in ProviderIds
          /\ start[s].call \in CallIds
      BY <2>1, <2>2 DEF Moved, Links, HandlersInv, HandlersTyped
    <3> QED
      BY <1>0, <3>1, PhonesStay DEF Moves
  <2>3. CASE start[s].pc \notin Placed
    <3>1. Dial(s, start'[s].pid) /\ start'[s].pid \in ProviderIds
      BY <1>2, <2>1, <2>3 DEF Moved, LinkBegin, LinkCommit, LinkRefused, StartGoes, Placed
    <3>2. phone'[start'[s].pid].for = start[s].call
      BY <3>1 DEF Dial, HandlersInv, HandlersType
    <3> QED
      BY <2>1, <3>2 DEF Moved
  <2> QED
    BY <2>2, <2>3
<1>3. ASSUME NEW s \in Starts, start'[s].pc = "linked", start'[s].call \in SP!Stored'
      PROVE  calls'[start'[s].call].pid = start'[s].pid
  <2>1. Moved(s) /\ start'[s].pc \in Placed
    BY <1>0, <1>3 DEF Moves, StartsMove, Drawn, Outside, Placed
  <2>2. CASE start[s].pc = "linked"
    <3>1. /\ start'[s].pid = start[s].pid /\ start'[s].call = start[s].call
          /\ start[s].call \in issued /\ start[s].pid \in ProviderIds
      BY <2>1, <2>2 DEF Moved, OwnCalls, HandlersInv, HandlersTyped, Placed
    <3>2. start[s].call \in SP!Stored
      BY <1>0, <1>3, <3>1 DEF Moves, SP!RowsKept, SP!Stored
    <3>3. calls[start[s].call].pid = start[s].pid
      BY <2>2, <3>2 DEF Links
    <3> QED
      BY <1>0, <1>3, <3>1, <3>2, <3>3 DEF Moves, SP!RowsKept
  <2>3. CASE start[s].pc # "linked"
    <3>1. LinkCommit(s)
      BY <1>3, <2>1, <2>3 DEF Moved, Placed
    <3>2. calls'[txn.call].pid = txn.pid /\ start[s].pc = "replaying"
      BY <3>1, CommitWrites
    <3> QED
      BY <2>1, <3>2 DEF TxnOwned, Moved, Placed
  <2> QED
    BY <2>2, <2>3
<1>4. ASSUME NEW e \in Ends, end'[e].pc \in Asking
      PROVE  /\ end'[e].call \in issued'
             /\ end'[e].call \in SP!Stored' => calls'[end'[e].call].pid = end'[e].pid
  <2>1. CASE end[e].pc \in Asking /\ end'[e].call = end[e].call /\ end'[e].pid = end[e].pid
    <3>1. /\ end[e].call \in issued /\ end[e].pid \in ProviderIds
          /\ end[e].call \in SP!Stored => calls[end[e].call].pid = end[e].pid
      BY <2>1 DEF Links, HandlersInv, HandlersTyped
    <3>2. end[e].call \in SP!Stored' => end[e].call \in SP!Stored
      BY <1>0, <3>1 DEF Moves, SP!RowsKept, SP!Stored
    <3> QED
      BY <1>0, <2>1, <3>1, <3>2 DEF Moves, SP!RowsKept
  <2>2. CASE /\ end'[e].call \in SP!Stored /\ end'[e].pid = calls[end'[e].call].pid
             /\ UNCHANGED <<issued, calls>>
    BY <1>0, <2>2 DEF SP!Issued
  <2> QED
    BY <1>0, <1>4, <2>1, <2>2 DEF Moves, EndsMove
<1>5. ASSUME NEW p \in ProviderIds, NEW n \in Reported, <<p, n>> \in sent'
      PROVE  phone'[p].stage # "none"
  BY <1>0, <1>5 DEF Moves, PhonesMove, Links
<1> QED
  BY <1>1, <1>2, <1>3, <1>4, <1>5 DEF Links

LEMMA CrashEndsTxn == Crash => txn'.call = None
BY DEF Crash, Store!LinkRollback, Store!Replaying, Store!NoTxn, store

(* An open transaction stays, moves on, or is committed or lost. *)
LEMMA TxnMoves ==
  ASSUME SP!RefInv, StoreMoves, SP!Replaying
  PROVE  \/ /\ txn'.call = txn.call /\ txn'.pid = txn.pid
            /\ ~ \E s \in Starts : LinkBegin(s) \/ LinkCommit(s)
         \/ \E s \in Starts : LinkCommit(s)
         \/ Dies
<1>1. ASSUME NEW s \in Starts, LinkBegin(s)  PROVE  FALSE
  BY <1>1, BeginWrites
<1>2. ASSUME NEW c, NEW pid, NEW n, Writes(c, pid, n)  PROVE  txn' = txn
  BY <1>2 DEF Writes
<1>3. CASE Quiet \/ Added \/ OwnReport \/ Reports \/ Purges
  BY <1>1, <1>2, <1>3 DEF Quiet, Added, OwnReport, Reports, Purges
<1>4. CASE ReplayEvent
  BY <1>1, <1>4, ReplayWrites DEF SP!RefInv
<1> QED
  BY <1>1, <1>3, <1>4 DEF StoreMoves

LEMMA TxnOwnedStep ==
  HandlersInv /\ HandlersInv' /\ SP!RefInv /\ OwnCalls /\ TxnOwned /\ [Next]_vars => TxnOwned'
<1> SUFFICES ASSUME HandlersInv, HandlersInv', SP!RefInv, OwnCalls, TxnOwned, [Next]_vars
             PROVE  TxnOwned'
  OBVIOUS
<1>0. Moves /\ None \notin CallIds
  BY MovesHold, GatewayAssumption
<1>1. ASSUME NEW s \in Starts, LinkBegin(s)
      PROVE  /\ start'[s].pc = "replaying" /\ start'[s].call = start[s].call
             /\ start'[s].pid = start[s].pid
             /\ txn'.call = start[s].call /\ txn'.pid = start[s].pid
  BY <1>1, BeginWrites DEF LinkBegin, StartGoes, HandlersInv, HandlersType
<1>2. ASSUME NEW s \in Starts, LinkCommit(s)
      PROVE  /\ start[s].pc = "replaying" /\ start'[s].pc = "linked" /\ txn'.call = None
             /\ \A t \in Starts : start[t].pc = "replaying" => t = s
  <2>1. start[s].pc = "replaying" /\ txn'.call = None
    BY <1>2, CommitWrites
  <2>2. start'[s].pc = "linked"
    BY <1>2 DEF LinkCommit, StartGoes, HandlersInv, HandlersType
  <2>3. \A t \in Starts : start[t].pc = "replaying" => start[t].call = start[s].call
    BY <2>1 DEF TxnOwned
  <2>4. \A t \in Starts : start[t].pc = "replaying" => t = s
    BY <2>1, <2>3 DEF OwnCalls, Created
  <2> QED
    BY <2>1, <2>2, <2>4
<1>3. ASSUME NEW s \in Starts, start'[s].pc = "replaying"
      PROVE  txn'.call = start'[s].call /\ txn'.pid = start'[s].pid
  <2>1. Moved(s) /\ up'
    BY <1>0, <1>3 DEF Moves, StartsMove, Drawn, Outside, Moved, OwnCalls, Live
  <2>2. CASE LinkBegin(s)
    BY <1>1, <2>2
  <2>3. CASE start[s].pc = "replaying"
    <3>1. /\ start'[s].call = start[s].call /\ start'[s].pid = start[s].pid
          /\ txn.call = start[s].call /\ txn.pid = start[s].pid
          /\ start[s].call \in CallIds
      BY <2>1, <2>3 DEF Moved, TxnOwned, HandlersInv, HandlersTyped, Placed
    <3>2. SP!Replaying
      BY <1>0, <3>1 DEF SP!Replaying
    <3>3. ~ \E t \in Starts : LinkCommit(t)
      BY <1>2, <1>3, <2>3
    <3>4. ~Dies
      BY <2>1 DEF Dies
    <3> QED
      BY <1>0, <3>1, <3>2, <3>3, <3>4, TxnMoves DEF Moves
  <2> QED
    BY <1>3, <2>1, <2>2, <2>3 DEF Moved, Placed
<1>4. ASSUME SP!Replaying'  PROVE  \E s \in Starts : start'[s].pc = "replaying"
  <2>0. ~Crash /\ ~ \E s \in Starts : LinkCommit(s)
    BY <1>2, <1>4, CrashEndsTxn DEF SP!Replaying
  <2>1. CASE SP!Replaying
    <3>1. PICK s \in Starts : start[s].pc = "replaying"
      BY <2>1 DEF TxnOwned
    <3>2. Moved(s)
      BY <1>0, <3>1 DEF Moves, StartsMove, Drawn, Outside, Created
    <3> QED
      BY <2>0, <3>1, <3>2 DEF Moved
  <2>2. CASE ~SP!Replaying
    <3>1. txn' = txn => FALSE
      BY <1>4, <2>2 DEF SP!Replaying
    <3>2. ASSUME NEW c, NEW pid, NEW n, Writes(c, pid, n)  PROVE  FALSE
      BY <3>1, <3>2 DEF Writes
    <3>3. ~ReplayEvent
      BY <2>2, ReplayWrites DEF SP!RefInv
    <3>4. ~(Quiet \/ Added \/ OwnReport \/ Reports \/ Purges)
      BY <3>1, <3>2 DEF Quiet, Added, OwnReport, Reports, Purges
    <3>5. PICK s \in Starts : LinkBegin(s)
      BY <1>0, <2>0, <3>3, <3>4 DEF Moves, StoreMoves, Dies
    <3> QED
      BY <1>1, <3>5
  <2> QED
    BY <2>1, <2>2
<1>5. \A c \in SP!Stored' : calls'[c].provider = Provider
  BY <1>0 DEF Moves, SP!RowsKept, TxnOwned, SP!Stored
<1> QED
  BY <1>3, <1>4, <1>5 DEF TxnOwned

LEMMA LinksHold == Spec => [](Links /\ TxnOwned)
<1>1. Init => Links /\ TxnOwned
  BY SameLookups DEF Init, Store!Init, Links, TxnOwned, SP!Stored, Store!NoCall, Store!NoTxn,
     SP!Replaying, Created, Placed, Asking
<1>2. HandlersInv /\ SP!TypeOK /\ (HandlersInv /\ SP!TypeOK)' /\ SP!RefInv
        /\ OwnCalls /\ DialsCounted
        /\ (Links /\ TxnOwned) /\ [Next]_vars => (Links /\ TxnOwned)'
  BY LinksStep, TxnOwnedStep
<1> QED
  BY <1>1, <1>2, TypesHold, StoreHolds, CallsHold, PTL DEF Spec

(* The handler's link can be refused only for a second phone: when a       *)
(* callback linked the call to another phone than the handler's.           *)
THEOREM LinkRefusals == Spec => []RefusedOnlyForSecondPhone
<1>1. Init => RefusedOnlyForSecondPhone
  BY DEF Init, RefusedOnlyForSecondPhone
<1>2. HandlersInv /\ HandlersInv' /\ SP!RefInv /\ OwnCalls /\ Links /\ Links'
        /\ RefusedOnlyForSecondPhone /\ [Next]_vars => RefusedOnlyForSecondPhone'
  <2> SUFFICES ASSUME HandlersInv, HandlersInv', SP!RefInv, OwnCalls, Links, Links',
                      RefusedOnlyForSecondPhone, [Next]_vars,
                      NEW s \in Starts, start'[s].pc = "linkError", start'[s].call \in SP!Stored'
               PROVE  \E p \in ProviderIds \ {start'[s].pid} :
                        phone'[p].for = start'[s].call /\ calls'[start'[s].call].pid = p
    BY DEF RefusedOnlyForSecondPhone, SP!Stored, Store!Stored
  <2>0. Moves /\ SP!UniqueLinks /\ None \notin CallIds /\ None \notin ProviderIds
        /\ calls \in [CallIds -> SP!Row]
    BY MovesHold, GatewayAssumption DEF SP!RefInv, SP!LinkInv, SP!TypeOK
  <2>1. Moved(s)
    BY <2>0 DEF Moves, StartsMove, Drawn, Outside
  <2> DEFINE c == start[s].call
             own == start[s].pid
  <2>2. /\ start'[s].call = c /\ c \in CallIds /\ c \in issued
        /\ start[s].pc \in Placed /\ start'[s].pid = own /\ own \in ProviderIds
        /\ phone[own].for = c
    <3>1. start[s].pc \in Placed
      BY <2>1 DEF Moved, Placed, LinkRefused, StartGoes
    <3> QED
      BY <2>1, <3>1 DEF Moved, OwnCalls, HandlersInv, HandlersTyped, Links
  <2>3. c \in SP!Stored
    BY <2>0, <2>2 DEF Moves, SP!RowsKept, SP!Stored
  <2>4. PICK p \in ProviderIds \ {own} : phone[p].for = c /\ calls[c].pid = p
    <3>1. CASE start[s].pc = "linkError"
      BY <2>2, <2>3, <3>1, SameLookups DEF RefusedOnlyForSecondPhone
    <3>2. CASE LinkRefused(s)
      <4>1. ~SP!MayLink(c, own)
        BY <3>2, SameLookups DEF LinkRefused
      <4>2. CASE calls[c].pid \notin {None, own}
        <5>1. calls[c].pid \in ProviderIds \ {own}
          BY <2>0, <2>2, <4>2 DEF SP!Row
        <5>2. phone[calls[c].pid].for = c
          BY <2>1, <2>3, <5>1 DEF Links, Moved
        <5> QED
          BY <5>1, <5>2
      <4>3. CASE ~(SP!Holders(own) \subseteq {c})
        <5>1. PICK d \in SP!Stored : d # c /\ calls[d].pid = own
          BY <4>3 DEF SP!Holders
        <5>2. phone[own].for = d \/ phone[own].for = None
          BY <2>2, <5>1 DEF Links, CandidatePlaced
        <5> QED
          BY <2>0, <2>2, <5>1, <5>2
      <4> QED
        BY <4>1, <4>2, <4>3 DEF SP!MayLink
    <3> QED
      BY <2>1, <3>1, <3>2 DEF Moved, Placed
  <2>5. phone'[p].for = c
    BY <2>0, <2>2, <2>4, PhonesStay DEF Moves
  <2>6. calls'[c].pid = p
    BY <2>0, <2>2, <2>3, <2>4 DEF Moves, SP!RowsKept
  <2> QED
    BY <2>2, <2>4, <2>5, <2>6
<1> QED
  BY <1>1, <1>2, TypesHold, StoreHolds, CallsHold, LinksHold, PTL DEF Spec

-----------------------------------------------------------------------------
(* Events come from the call's own phone.                                  *)

Heard(p, id) == \E m \in Reported : m.id = id /\ <<p, m>> \in delivered

(* Inductive: the recorded events of a call, those an open transaction has *)
(* replayed into it, and those that wait under a provider call, arrived    *)
(* about a phone of the call, or about that provider call.                 *)
HeardRight ==
  /\ \A c \in SP!Stored, n \in Reported : n.id \in events[c] =>
       \E p \in ProviderIds : About(c, p) /\ Heard(p, n.id)
  /\ \A u \in unmatched, n \in Reported : u.notice.id = n.id => Heard(u.pid, n.id)
  /\ SP!Replaying => \A n \in Reported : n.id \in txn.events =>
       \E p \in ProviderIds : phone[p].for = txn.call /\ Heard(p, n.id)

LEMMA LocalIsLocal ==
  ASSUME NEW n \in LocalEvents, NEW m \in Reported  PROVE  n.id # m.id
BY GatewayAssumption DEF LocalEvents, LocalIds, InitiationFailed, LocalEnd, Event

LEMMA HeardStays ==
  ASSUME SP!RefInv, StoreMoves
  PROVE  /\ delivered \subseteq delivered'
         /\ \A p, id : Heard(p, id) => Heard(p, id)'
<1>1. delivered \subseteq delivered'
  BY BeginWrites, CommitWrites, ReplayWrites DEF StoreMoves, Quiet, Added, OwnReport, Reports,
     Dies, Purges, SP!RefInv
<1> QED
  BY <1>1 DEF Heard

LEMMA AboutStays ==
  ASSUME HandlersInv, PhonesMove, SP!RowsKept, NEW c \in SP!Stored, c \in SP!Stored',
         NEW p \in ProviderIds, About(c, p)
  PROVE  About(c, p)'
<1>1. CASE phone[p].for = c
  BY <1>1, PhonesStay, GatewayAssumption DEF About, SP!Stored
<1>2. CASE CandidatePlaced(p) /\ calls[c].pid = p
  <2>1. calls'[c].pid = p
    BY <1>2, GatewayAssumption DEF SP!RowsKept
  <2> QED
    BY <1>2, <2>1, PhonesStay DEF About
<1> QED
  BY <1>1, <1>2 DEF About

(* Where a recorded event, and where a waiting one, comes from. *)
EventOrigin(c, n) ==
  \/ c \in SP!Stored /\ n.id \in events[c]
  \/ \E p \in ProviderIds : Heard(p, n.id)' /\ calls'[c].pid = p
  \/ SP!Replaying /\ c = txn.call /\ n.id \in txn.events

WaitOrigin(u, n) == u \in unmatched \/ (u.notice.id = n.id => Heard(u.pid, n.id)')

LEMMA EventsComeFrom ==
  ASSUME HandlersInv, SP!RefInv, SP!RowsKept, StoreMoves, NEW n \in Reported
  PROVE  /\ \A c \in SP!Stored' : n.id \in events'[c] => EventOrigin(c, n)
         /\ \A u \in unmatched' : WaitOrigin(u, n)
<1>1. ASSUME NEW c \in SP!Stored', n.id \in events'[c], events'[c] = events[c]
      PROVE  EventOrigin(c, n)
  BY <1>1 DEF EventOrigin, SP!RowsKept, SP!Stored
<1>2. CASE UNCHANGED <<events, unmatched>>
  BY <1>1, <1>2 DEF WaitOrigin
<1>3. ASSUME NEW d, NEW pid \in ProviderIds \cup {None}, NEW m, Writes(d, pid, m),
             m.id = n.id => pid # None /\ Heard(pid, n.id)'
      PROVE  /\ \A c \in SP!Stored' : n.id \in events'[c] => EventOrigin(c, n)
             /\ \A u \in unmatched' : WaitOrigin(u, n)
  <2>1. CASE events' = events
    BY <1>1, <1>3, <2>1 DEF Writes, WaitOrigin
  <2>2. ASSUME NEW e \in SP!Lookup(d, pid), e \in SP!Stored, unmatched' = unmatched,
               \A f \in CallIds \ {e} : events'[f] = events[f],
               events'[e] = events[e] \cup {m.id},
               calls'[e].pid = IF pid = None THEN calls[e].pid ELSE pid
        PROVE  /\ \A c \in SP!Stored' : n.id \in events'[c] => EventOrigin(c, n)
               /\ \A u \in unmatched' : WaitOrigin(u, n)
    <3>1. ASSUME NEW c \in SP!Stored', n.id \in events'[c]  PROVE  EventOrigin(c, n)
      <4>1. CASE c # e
        BY <1>1, <2>2, <3>1, <4>1 DEF SP!Stored
      <4>2. CASE c = e /\ n.id \in events[e]
        BY <2>2, <4>2 DEF EventOrigin
      <4>3. CASE c = e /\ n.id = m.id
        BY <1>3, <2>2, <4>3 DEF EventOrigin
      <4> QED
        BY <2>2, <3>1, <4>1, <4>2, <4>3
    <3> QED
      BY <2>2, <3>1 DEF WaitOrigin
  <2> QED
    BY <1>3, <2>1, <2>2 DEF Writes
<1>4. CASE OwnReport
  BY <1>3, <1>4, LocalIsLocal DEF OwnReport
<1>5. CASE Reports
  <2>1. PICK q \in ProviderIds, m \in Reported :
          /\ \E d \in {phone[q].for, None} : Writes(d, q, m)
          /\ delivered' = delivered \cup {<<q, m>>}
    BY <1>5 DEF Reports
  <2>2. q # None /\ Heard(q, m.id)'
    BY <2>1, GatewayAssumption DEF Heard
  <2> QED
    BY <1>3, <2>1, <2>2
<1>6. CASE Purges
  BY <1>1, <1>6 DEF Purges, WaitOrigin
<1>7. ASSUME NEW s \in Starts, LinkCommit(s)
      PROVE  /\ \A c \in SP!Stored' : n.id \in events'[c] => EventOrigin(c, n)
             /\ \A u \in unmatched' : WaitOrigin(u, n)
  <2>1. /\ SP!Replaying /\ events'[txn.call] = txn.events
        /\ \A e \in CallIds \ {txn.call} : events'[e] = events[e]
        /\ unmatched' \subseteq unmatched
    BY <1>7, CommitWrites
  <2>2. ASSUME NEW c \in SP!Stored', n.id \in events'[c]  PROVE  EventOrigin(c, n)
    BY <1>1, <2>1, <2>2 DEF EventOrigin, SP!Stored
  <2> QED
    BY <2>1, <2>2 DEF WaitOrigin
<1> QED
  BY <1>2, <1>4, <1>5, <1>6, <1>7, BeginWrites, ReplayWrites DEF StoreMoves, Quiet, Added, Dies,
     SP!RefInv

LEMMA HeardStep ==
  /\ HandlersInv /\ HandlersInv' /\ SP!RefInv /\ OwnCalls /\ Links /\ Links' /\ TxnOwned
  /\ HeardRight /\ [Next]_vars
  => HeardRight'
<1> SUFFICES ASSUME HandlersInv, HandlersInv', SP!RefInv, OwnCalls, Links, Links', TxnOwned,
                    HeardRight, [Next]_vars
             PROVE  HeardRight'
  OBVIOUS
<1>0. Moves /\ None \notin CallIds /\ None \notin ProviderIds
  BY MovesHold, GatewayAssumption
<1>1. ASSUME NEW c \in SP!Stored', NEW n \in Reported, n.id \in events'[c]
      PROVE  \E p \in ProviderIds : About(c, p)' /\ Heard(p, n.id)'
  <2>1. EventOrigin(c, n)
    BY <1>0, <1>1, EventsComeFrom DEF Moves
  <2>2. CASE c \in SP!Stored /\ n.id \in events[c]
    BY <1>0, <1>1, <2>2, AboutStays, HeardStays DEF Moves, HeardRight
  <2>3. ASSUME NEW p \in ProviderIds, Heard(p, n.id)', calls'[c].pid = p
        PROVE  About(c, p)'
    BY <2>3 DEF Links, About
  <2>4. CASE SP!Replaying /\ c = txn.call /\ n.id \in txn.events
    <3>1. PICK p \in ProviderIds : phone[p].for = c /\ Heard(p, n.id)
      BY <2>4 DEF HeardRight
    <3>2. phone'[p].for = c /\ Heard(p, n.id)'
      BY <1>0, <3>1, HeardStays, PhonesStay DEF Moves, SP!Stored
    <3> QED
      BY <3>2 DEF About
  <2> QED
    BY <2>1, <2>2, <2>3, <2>4 DEF EventOrigin
<1>2. ASSUME NEW u \in unmatched', NEW n \in Reported, u.notice.id = n.id
      PROVE  Heard(u.pid, n.id)'
  BY <1>0, <1>2, EventsComeFrom, HeardStays DEF Moves, WaitOrigin, HeardRight
<1>3. ASSUME SP!Replaying', NEW n \in Reported, n.id \in txn'.events
      PROVE  \E p \in ProviderIds : phone'[p].for = txn'.call /\ Heard(p, n.id)'
  <2>1. ASSUME NEW p \in ProviderIds, phone[p].for = txn'.call, Heard(p, n.id)
        PROVE  phone'[p].for = txn'.call /\ Heard(p, n.id)'
    BY <1>0, <1>3, <2>1, HeardStays, PhonesStay DEF Moves, SP!Replaying
  <2>2. CASE txn' = txn
    BY <1>3, <2>1, <2>2 DEF HeardRight, SP!Replaying
  <2>3. CASE ReplayEvent
    <3>1. PICK u \in txn.left : txn'.events = txn.events \cup {u.notice.id}
      BY <2>3, ReplayWrites DEF SP!RefInv
    <3>2. SP!Replaying /\ txn'.call = txn.call
      BY <2>3, ReplayWrites DEF SP!RefInv
    <3>3. u \in unmatched /\ u.pid = txn.pid
      BY <3>2 DEF SP!RefInv, SP!TxnRemembers
    <3>4. phone[txn.pid].for = txn.call /\ txn.pid \in ProviderIds
      BY <3>2 DEF TxnOwned, Links, Placed, HandlersInv, HandlersTyped
    <3>5. n.id = u.notice.id => Heard(txn.pid, n.id)
      BY <3>3 DEF HeardRight
    <3> QED
      BY <1>3, <2>1, <3>1, <3>2, <3>4, <3>5 DEF HeardRight
  <2>4. ASSUME NEW s \in Starts, LinkBegin(s)
        PROVE  \E p \in ProviderIds : phone'[p].for = txn'.call /\ Heard(p, n.id)'
    <3>1. /\ start[s].call \in SP!Stored /\ txn'.call = start[s].call
          /\ txn'.events = events[start[s].call] /\ Created(s)
      BY <2>4, BeginWrites DEF Created
    <3>2. PICK p \in ProviderIds : About(start[s].call, p) /\ Heard(p, n.id)
      BY <1>3, <3>1 DEF HeardRight
    <3>3. phone[p].for = start[s].call
      BY <3>1, <3>2 DEF About, Links
    <3> QED
      BY <2>1, <3>1, <3>2, <3>3
  <2>5. ASSUME NEW d, NEW pid, NEW m, Writes(d, pid, m)  PROVE  txn' = txn
    BY <2>5 DEF Writes
  <2>6. ~Dies /\ \A s \in Starts : ~LinkCommit(s)
    BY <1>3, CommitWrites DEF Dies, SP!Replaying
  <2>7. CASE Quiet \/ Added \/ OwnReport \/ Reports \/ Purges
    BY <2>2, <2>5, <2>7 DEF Quiet, Added, OwnReport, Reports, Purges
  <2> QED
    BY <1>0, <2>3, <2>4, <2>6, <2>7 DEF Moves, StoreMoves
<1> QED
  BY <1>1, <1>2, <1>3 DEF HeardRight

LEMMA HeardHolds == Spec => []HeardRight
<1>1. Init => HeardRight
  BY SameLookups DEF Init, Store!Init, HeardRight, SP!Stored, Store!NoCall, Store!NoTxn, SP!Replaying
<1>2. HandlersInv /\ HandlersInv' /\ SP!RefInv /\ OwnCalls /\ Links /\ Links' /\ TxnOwned
        /\ HeardRight /\ [Next]_vars => HeardRight'
  BY HeardStep
<1> QED
  BY <1>1, <1>2, TypesHold, StoreHolds, CallsHold, LinksHold, PTL DEF Spec

(* No call hears of somebody else's phone, whether an event was recorded   *)
(* on arrival, waited for the link, or linked the call itself.             *)
(* CallGateway: NoCrossTalk.                                               *)
THEOREM CallsHearTheirPhones == Spec => []NoCrossTalk
<1>1. Links /\ HeardRight => NoCrossTalk
  <2> SUFFICES ASSUME Links, HeardRight, NEW c \in SP!Stored
               PROVE  /\ \A p \in ProviderIds : calls[c].pid = p => About(c, p)
                      /\ \A n \in Reported : n.id \in events[c] =>
                           \E p \in ProviderIds, m \in Reported :
                             m.id = n.id /\ About(c, p) /\ <<p, m>> \in delivered
    BY SameLookups DEF NoCrossTalk
  <2>1. \A p \in ProviderIds : calls[c].pid = p => About(c, p)
    BY DEF Links, About
  <2>2. \A n \in Reported : n.id \in events[c] =>
          \E p \in ProviderIds, m \in Reported :
            m.id = n.id /\ About(c, p) /\ <<p, m>> \in delivered
    BY DEF HeardRight, Heard
  <2> QED
    BY <2>1, <2>2
<1> QED
  BY <1>1, LinksHold, HeardHolds, PTL

-----------------------------------------------------------------------------
(* Nothing the provider said about a linked call is lost.                  *)

Waits(id, pid, W) == \E u \in W : u.pid = pid /\ u.notice.id = id

(* Inductive: from the reply that names the phone to the answer "linked",  *)
(* what has arrived about the phone is recorded, waits, or is replayed.    *)
Kept(s, n) ==
  <<start[s].pid, n>> \in delivered =>
    /\ start[s].pc = "linking" =>
         n.id \in events[start[s].call] \/ Waits(n.id, start[s].pid, unmatched)
    /\ start[s].pc = "replaying" =>
         n.id \in txn.events \/ Waits(n.id, start[s].pid, txn.left)
    /\ start[s].pc = "linked" /\ start[s].call \in SP!Stored =>
         n.id \in events[start[s].call]

AllKept == \A s \in Starts, n \in Reported : Kept(s, n)

(* An event about the phone of call c is recorded for c, or waits.         *)
LEMMA ReportsKept ==
  ASSUME HandlersInv, SP!RefInv, Links, NEW q \in ProviderIds, NEW m \in Reported,
         NEW d \in {phone[q].for, None}, Writes(d, q, m),
         NEW c \in SP!Stored, phone[q].for = c
  PROVE  \/ m.id \in events'[c]
         \/ Waits(m.id, q, unmatched') /\ calls[c].pid # q
<1>0. None \notin CallIds /\ q # None /\ c \in CallIds
  BY GatewayAssumption DEF SP!Stored
<1>1. \A e \in SP!Holders(q) : e = c
  BY <1>0 DEF SP!Holders, Links, CandidatePlaced
<1>2. calls[c].pid = q => c \in SP!Holders(q)
  BY <1>0 DEF SP!Holders
<1>3. \A e \in SP!Lookup(d, q) : e = c
  BY <1>0, <1>1 DEF SP!Lookup, SP!Stored
<1>4. SP!Lookup(d, q) = {} => calls[c].pid # q
  BY <1>0, <1>2 DEF SP!Lookup, SP!Stored
<1> QED
  BY <1>0, <1>3, <1>4 DEF Writes, Waits

(* What may happen to what is recorded and what waits for a running link.  *)
LEMMA WaitsStay ==
  ASSUME HandlersInv, SP!RefInv, OwnCalls, Links, TxnOwned, StoreMoves,
         NEW s \in Starts, start[s].pc = "linking", ~LinkBegin(s), up, ~Dies
  PROVE  \A u \in unmatched : u.pid = start[s].pid => u \in unmatched'
<1>1. ASSUME NEW c, NEW pid, NEW n, Writes(c, pid, n)  PROVE  unmatched \subseteq unmatched'
  BY <1>1 DEF Writes
<1>2. ASSUME NEW t \in Starts, LinkCommit(t)
      PROVE  \A u \in unmatched : u.pid = start[s].pid => u \in unmatched'
  <2>1. start[t].pc = "replaying" /\ txn.pid = start[t].pid
        /\ \A u \in unmatched : u.pid # txn.pid => u \in unmatched'
    BY <1>2, CommitWrites DEF TxnOwned
  <2>2. start[s].call # start[t].call
    BY <2>1 DEF OwnCalls, Created
  <2>3. phone[start[s].pid].for = start[s].call /\ phone[start[t].pid].for = start[t].call
    BY <2>1 DEF Links, Placed
  <2>4. start[s].pid # start[t].pid
    BY <2>2, <2>3
  <2> QED
    BY <2>1, <2>4
<1>3. CASE \E t \in Starts : LinkCommit(t)
  BY <1>2, <1>3
<1>4. CASE OwnReport \/ Reports
  BY <1>1, <1>4 DEF OwnReport, Reports
<1> QED
  BY <1>3, <1>4, BeginWrites, ReplayWrites DEF StoreMoves, Quiet, Added, Purges, SP!RefInv

LEMMA KeptStep ==
  /\ HandlersInv /\ HandlersInv' /\ SP!RefInv /\ OwnCalls /\ Links /\ TxnOwned
  /\ AllKept /\ [Next]_vars
  => AllKept'
<1> SUFFICES ASSUME HandlersInv, HandlersInv', SP!RefInv, OwnCalls, Links, TxnOwned, AllKept,
                    [Next]_vars, NEW s \in Starts, NEW n \in Reported
             PROVE  Kept(s, n)'
  BY DEF AllKept
<1> DEFINE c == start[s].call
           pid == start[s].pid
<1>0. /\ Moves /\ None \notin CallIds /\ None \notin ProviderIds
      /\ delivered \subseteq sent /\ calls \in [CallIds -> SP!Row]
  BY MovesHold, GatewayAssumption DEF HandlersInv, HandlersType, SP!RefInv, SP!TypeOK
<1>1. CASE start'[s].pc \notin {"linking", "replaying", "linked"}
  BY <1>1 DEF Kept
<1>2. ASSUME <<start'[s].pid, n>> \in delivered', start'[s].pc \in {"linking", "replaying", "linked"},
             start[s].pc \notin {"linking", "replaying", "linked"}
      PROVE  FALSE
  <2>1. Dial(s, start'[s].pid) /\ start'[s].pid \in ProviderIds
    BY <1>0, <1>2 DEF Moves, StartsMove, Drawn, Outside, Moved, Placed, LinkBegin, LinkCommit,
       StartGoes
  <2>2. <<start'[s].pid, n>> \in sent /\ phone[start'[s].pid].stage = "none"
    BY <1>0, <1>2, <2>1 DEF Dial
  <2> QED
    BY <2>1, <2>2 DEF Links
<1>3. ASSUME start[s].pc \in {"linking", "replaying", "linked"},
             start'[s].pc \in {"linking", "replaying", "linked"},
             <<start'[s].pid, n>> \in delivered'
      PROVE  /\ start'[s].pc = "linking" =>
                  n.id \in events'[start'[s].call] \/ Waits(n.id, start'[s].pid, unmatched')
             /\ start'[s].pc = "replaying" =>
                  n.id \in txn'.events \/ Waits(n.id, start'[s].pid, txn'.left)
             /\ start'[s].pc = "linked" /\ start'[s].call \in SP!Stored' =>
                  n.id \in events'[start'[s].call]
  <2>1. /\ Moved(s) /\ start'[s].call = c /\ start'[s].pid = pid /\ c \in CallIds
        /\ pid \in ProviderIds /\ phone[pid].for = c /\ c \in issued
    BY <1>0, <1>3 DEF Moves, StartsMove, Drawn, Outside, Moved, HandlersInv, HandlersTyped,
       Placed, Links, OwnCalls, Created
  <2>2. c \in SP!Stored' => c \in SP!Stored /\ events[c] \subseteq events'[c]
    BY <1>0, <2>1 DEF Moves, SP!RowsKept, SP!Stored
  <2>3. ASSUME <<pid, n>> \notin delivered
        PROVE  /\ ~SP!Replaying /\ start' = start
               /\ c \in SP!Stored => \/ n.id \in events'[c]
                                     \/ Waits(n.id, pid, unmatched') /\ calls[c].pid # pid
    <3>1. Reports
      BY <1>0, <1>3, <2>1, <2>3, BeginWrites, CommitWrites, ReplayWrites DEF Moves, StoreMoves,
         Quiet, Added, OwnReport, Dies, Purges, SP!RefInv
    <3>2. PICK q \in ProviderIds, m \in Reported :
            /\ \E d \in {phone[q].for, None} : Writes(d, q, m)
            /\ ~SP!Replaying /\ start' = start
            /\ delivered' = delivered \cup {<<q, m>>}
      BY <3>1 DEF Reports
    <3>3. q = pid /\ m = n
      BY <1>3, <2>1, <2>3, <3>2
    <3> QED
      BY <2>1, <3>2, <3>3, ReportsKept
  <2>4. CASE start'[s].pc = "linking"
    <3>1. start[s].pc = "linking" /\ up /\ up' /\ c \in SP!Stored
      <4>1. start[s].pc = "linking"
        BY <1>3, <2>1, <2>4 DEF Moved, Placed, Dial
      <4> QED
        BY <2>1, <2>4, <4>1 DEF Moved, Live, OwnCalls
    <3>2. ~LinkBegin(s) /\ ~Dies /\ SP!Stored \subseteq SP!Stored'
      BY <2>4, <3>1, UpKeepsRows DEF LinkBegin, StartGoes, HandlersInv, HandlersType, Dies
    <3>3. CASE <<pid, n>> \in delivered
      <4>1. n.id \in events[c] \/ Waits(n.id, pid, unmatched)
        BY <3>1, <3>3 DEF AllKept, Kept
      <4>2. \A u \in unmatched : u.pid = pid => u \in unmatched'
        BY <1>0, <3>1, <3>2, WaitsStay DEF Moves
      <4> QED
        BY <2>1, <2>2, <2>4, <3>1, <3>2, <4>1, <4>2 DEF Waits
    <3> QED
      BY <2>1, <2>3, <2>4, <3>1, <3>3
  <2>5. CASE start'[s].pc = "replaying"
    <3>1. CASE start[s].pc = "replaying"
      <4>1. /\ SP!Replaying /\ txn.call = c /\ txn.pid = pid
            /\ <<pid, n>> \in delivered
        BY <1>0, <2>1, <2>3, <3>1 DEF TxnOwned, SP!Replaying
      <4>2. n.id \in txn.events \/ Waits(n.id, pid, txn.left)
        BY <3>1, <4>1 DEF AllKept, Kept
      <4>3. CASE txn' = txn
        BY <2>1, <2>5, <4>2, <4>3
      <4>4. CASE ReplayEvent
        <5>1. PICK u \in txn.left : /\ txn'.events = txn.events \cup {u.notice.id}
                                   /\ txn'.left = txn.left \ {u}
          BY <4>4, ReplayWrites DEF SP!RefInv
        <5>2. n.id \in txn'.events \/ Waits(n.id, pid, txn'.left)
          BY <4>2, <5>1 DEF Waits
        <5> QED
          BY <2>1, <2>5, <5>2
      <4>5. ~Dies
        BY <2>1, <2>5, <3>1 DEF Moved, Live, Dies
      <4>6. ASSUME NEW t \in Starts, LinkBegin(t) \/ LinkCommit(t)  PROVE  FALSE
        <5>1. LinkCommit(t) /\ start[t].pc = "replaying"
          BY <4>1, <4>6, BeginWrites, CommitWrites
        <5>2. t = s
          BY <3>1, <4>1, <5>1 DEF TxnOwned, OwnCalls, Created
        <5> QED
          BY <2>5, <5>1, <5>2 DEF LinkCommit, StartGoes, HandlersInv, HandlersType
      <4>7. ASSUME NEW d, NEW q, NEW m, Writes(d, q, m)  PROVE  txn' = txn
        BY <4>7 DEF Writes
      <4>8. CASE Quiet \/ Added \/ OwnReport \/ Reports \/ Purges
        BY <4>3, <4>7, <4>8 DEF Quiet, Added, OwnReport, Reports, Purges
      <4> QED
        BY <1>0, <4>4, <4>5, <4>6, <4>8 DEF Moves, StoreMoves
    <3>2. CASE start[s].pc # "replaying"
      <4>1. LinkBegin(s)
        BY <2>1, <2>5, <3>2 DEF Moved, Placed
      <4>2. /\ start[s].pc = "linking" /\ <<pid, n>> \in delivered
            /\ txn'.events = events[c]
            /\ txn'.left = {u \in unmatched : u.provider = calls[c].provider /\ u.pid = pid}
            /\ c \in SP!Stored
        BY <1>3, <2>1, <4>1, BeginWrites
      <4>3. n.id \in events[c] \/ Waits(n.id, pid, unmatched)
        BY <4>2 DEF AllKept, Kept
      <4>4. \A u \in unmatched : u.provider = calls[c].provider
        BY <4>2 DEF TxnOwned, SP!RefInv, SP!TypeOK, SP!Unmatched
      <4>5. n.id \in txn'.events \/ Waits(n.id, pid, txn'.left)
        BY <4>2, <4>3, <4>4 DEF Waits
      <4> QED
        BY <2>1, <2>5, <4>5
    <3> QED
      BY <3>1, <3>2
  <2>6. CASE start'[s].pc = "linked" /\ c \in SP!Stored'
    <3>1. c \in SP!Stored /\ events[c] \subseteq events'[c]
      BY <2>2, <2>6
    <3>2. CASE start[s].pc = "linked"
      <4>1. calls[c].pid = pid
        BY <3>1, <3>2 DEF Links
      <4>2. <<pid, n>> \in delivered => n.id \in events[c]
        BY <3>1, <3>2 DEF AllKept, Kept
      <4> QED
        BY <2>1, <2>3, <2>6, <3>1, <4>1, <4>2
    <3>3. CASE start[s].pc # "linked"
      <4>1. LinkCommit(s)
        BY <2>1, <2>6, <3>3 DEF Moved, Placed
      <4>2. /\ start[s].pc = "replaying" /\ txn.left = {} /\ events'[txn.call] = txn.events
            /\ <<pid, n>> \in delivered
        BY <1>3, <2>1, <4>1, CommitWrites
      <4>3. txn.call = c /\ n.id \in txn.events
        BY <4>2 DEF TxnOwned, AllKept, Kept, Waits
      <4> QED
        BY <2>1, <2>6, <4>2, <4>3
    <3> QED
      BY <3>2, <3>3
  <2> QED
    BY <1>3, <2>1, <2>4, <2>5, <2>6
<1> QED
  BY <1>1, <1>2, <1>3 DEF Kept

LEMMA KeptHolds == Spec => []AllKept
<1>1. Init => AllKept
  BY DEF Init, AllKept, Kept
<1>2. HandlersInv /\ HandlersInv' /\ SP!RefInv /\ OwnCalls /\ Links /\ TxnOwned
        /\ AllKept /\ [Next]_vars => AllKept'
  BY KeptStep
<1> QED
  BY <1>1, <1>2, TypesHold, StoreHolds, CallsHold, LinksHold, PTL DEF Spec

(* When POST /calls has answered with the link made, the call has all that *)
(* arrived about its phone, before, during and after the link.             *)
(* CallGateway: NoticeNotLost.                                             *)
THEOREM NoticesAreKept == Spec => []NoticeNotLost
<1>1. AllKept => NoticeNotLost
  BY SameLookups DEF AllKept, Kept, NoticeNotLost
<1> QED
  BY <1>1, KeptHolds, PTL

-----------------------------------------------------------------------------
(* What is recorded as over is over.                                       *)

Refusals == {"NoAnswer", "Busy", "Declined"}
Standing == {"Initiating", "Ringing", "Active"}

(* The events that the gateway reads from its two providers.               *)
Understood == Reported \subseteq TwilioEvents \cup VapiEvents

(* What their ids and sequence numbers tell.                               *)
OverIds == {"completed", "busy", "no-answer", "failed", "canceled", "ended",
            "end-of-call-report"}

LEMMA Readings ==
  ASSUME Understood, NEW n \in Reported
  PROVE  /\ n.id \in OverIds => n.target \in Terminal /\ n.seq = 50
         /\ n.id \notin OverIds => n.target \in Standing /\ n.seq <= 40
         /\ n.id \in {"queued", "initiated"} => n.target = "Initiating"
         /\ n.id = "ringing" => n.target = "Ringing"
         /\ n.id = "in-progress" => n.target = "Active"
         /\ n.seq \in Nat
<1>1. CASE n \in TwilioEvents
  BY <1>1 DEF TwilioEvents, Event, OverIds, Standing, Terminal
<1>2. ASSUME NEW classes  PROVE VapiEndedTarget(classes) \in Terminal
  <2>1. CASE \A i \in 1..6 : EndedClasses[i] \notin classes
    BY <2>1 DEF VapiEndedTarget, Terminal
  <2>2. CASE ~\A i \in 1..6 : EndedClasses[i] \notin classes
    <3> DEFINE First(i) == /\ EndedClasses[i] \in classes
                           /\ \A j \in 1..i - 1 : EndedClasses[j] \notin classes
    <3>1. \E i \in 1..6 : First(i)
      BY <2>2 DEF EndedClasses
    <3>2. (CHOOSE i \in 1..6 : First(i)) \in 1..6
      BY <3>1
    <3>3. \A i \in 1..6 : EndedClasses[i] \in Terminal
      BY DEF EndedClasses, Terminal
    <3>4. VapiEndedTarget(classes) = EndedClasses[CHOOSE i \in 1..6 : First(i)]
      BY <2>2 DEF VapiEndedTarget
    <3> QED
      BY <3>2, <3>3, <3>4
  <2> QED
    BY <2>1, <2>2
<1>3. CASE n \in VapiEvents
  BY <1>2, <1>3 DEF VapiEvents, Event, OverIds, Standing, Terminal
<1> QED
  BY <1>1, <1>3 DEF Understood

(* The phones that somebody has answered: nothing says that nobody did.    *)
PickedUp ==
  {p \in ProviderIds :
     /\ phone[p].stage \in {"talking", "over"}
     /\ \A n \in Reported : <<p, n>> \in sent => n.target \notin Refusals}

(* Inductive: what the provider says of a phone fits what became of it.    *)
PhonesTell ==
  \A p \in ProviderIds :
    /\ phone[p].stage = "talking" => p \in PickedUp
    /\ \A n \in Reported : <<p, n>> \in sent =>
         /\ phone[p].stage # "none"
         /\ n.target \in Terminal => phone[p].stage = "over"
         /\ n.target = "Active" => p \in PickedUp

(* One phone goes on to another stage, of which the provider may speak.    *)
Turns(p, from, to, targets) ==
  /\ phone[p].stage \in from /\ phone'[p].stage = to /\ sent \subseteq sent'
  /\ \A q \in ProviderIds \ {p} :
       /\ phone'[q] = phone[q]
       /\ \A n \in Reported : <<q, n>> \in sent' => <<q, n>> \in sent
  /\ \A n \in Reported : <<p, n>> \in sent' => <<p, n>> \in sent \/ n.target \in targets

WorldTurns ==
  \/ UNCHANGED world
  \/ \E p \in ProviderIds :
       \/ Turns(p, {"none"}, "dialing", {"Initiating"})
       \/ Turns(p, {"none"}, "talking", {})
       \/ Turns(p, {"dialing"}, "ringing", {"Ringing"})
       \/ Turns(p, {"dialing", "ringing"}, "talking", {"Active"})
       \/ Turns(p, {"talking"}, "over", Terminal \ Refusals)
       \/ Turns(p, {"none", "dialing", "ringing"}, "over", Terminal)

LEMMA EndingTurns ==
  ASSUME Understood, HandlersInv, NEW p \in ProviderIds, NEW ids \in SUBSET OverIds,
         phone[p].stage # "over", PhoneEnds(p, ids)
  PROVE  WorldTurns
<1>1. PICK n \in Reported :
        /\ n.id \in ids /\ sent' = sent \cup {<<p, n>>}
        /\ phone[p].stage = "talking" => n.target \notin Refusals
  BY DEF PhoneEnds, Refusals
<1>2. n.target \in Terminal
  BY <1>1, Readings
<1>3. phone \in [ProviderIds -> [stage : Stages, for : CallIds \cup {None}]]
  BY DEF HandlersInv, HandlersType
<1>4. /\ phone'[p].stage = "over" /\ phone[p].stage \in {"none", "dialing", "ringing", "talking"}
      /\ \A q \in ProviderIds \ {p} : phone'[q] = phone[q]
  BY <1>3 DEF PhoneEnds, Stages
<1> QED
  BY <1>1, <1>2, <1>4 DEF Turns, WorldTurns

LEMMA WorldTurnsHold == Understood /\ HandlersInv /\ [Next]_vars => WorldTurns
<1> SUFFICES ASSUME Understood, HandlersInv, [Next]_vars  PROVE  WorldTurns
  OBVIOUS
<1>0. phone \in [ProviderIds -> [stage : Stages, for : CallIds \cup {None}]]
  BY DEF HandlersInv, HandlersType
<1>1. ASSUME NEW s \in Starts, NEW p \in ProviderIds, Dial(s, p)  PROVE  WorldTurns
  <2>1. Turns(p, {"none"}, "dialing", {"Initiating"})
    BY <1>0, <1>1, Readings DEF Dial, Turns, Callbacks
  <2> QED
    BY <2>1 DEF WorldTurns
<1>2. ASSUME NEW s \in Starts, StartStep(s)  PROVE  WorldTurns
  BY <1>1, <1>2 DEF StartStep, StartNew, StartExisting, DialRefused, FailCall, LinkRefused,
     LinkBegin, LinkCommit, WorldTurns
<1>3. ASSUME NEW e \in Ends, EndAsk(e)  PROVE  WorldTurns
  <2>1. end[e].pid \in ProviderIds
    BY <1>3 DEF EndAsk, EndGoes, HandlersInv, HandlersTyped, Asking
  <2>2. \/ UNCHANGED world
        \/ /\ phone[end[e].pid].stage # "over"
           /\ PhoneEnds(end[e].pid, {"completed", "canceled", "ended", "end-of-call-report"})
    BY <1>3 DEF EndAsk, HungUp
  <2>3. {"completed", "canceled", "ended", "end-of-call-report"} \in SUBSET OverIds
    BY DEF OverIds
  <2> QED
    BY <2>1, <2>2, <2>3, EndingTurns DEF WorldTurns
<1>4. ASSUME NEW e \in Ends, EndRecord(e) \/ \E c \in CallIds : EndRead(e, c)
      PROVE  WorldTurns
  BY <1>4 DEF EndRecord, EndRead, WorldTurns
<1>5. ASSUME NEW p \in ProviderIds,
             (\E n \in Reported : Callback(p, n)) \/ (\E c \in CallIds : Inbound(p, c))
      PROVE  WorldTurns
  BY <1>5 DEF Callback, Inbound, WorldTurns
<1>6. ASSUME NEW p \in ProviderIds, CandidateCalls(p)  PROVE  WorldTurns
  <2>1. Turns(p, {"none"}, "talking", {})
    BY <1>0, <1>6 DEF CandidateCalls, Turns
  <2> QED
    BY <2>1 DEF WorldTurns
<1>7. ASSUME NEW p \in ProviderIds, Rings(p)  PROVE  WorldTurns
  <2>1. Turns(p, {"dialing"}, "ringing", {"Ringing"})
    BY <1>0, <1>7, Readings DEF Rings, Turns, Callbacks
  <2> QED
    BY <2>1 DEF WorldTurns
<1>8. ASSUME NEW p \in ProviderIds, Answers(p)  PROVE  WorldTurns
  <2>1. Turns(p, {"dialing", "ringing"}, "talking", {"Active"})
    BY <1>0, <1>8, Readings DEF Answers, Turns, Callbacks
  <2> QED
    BY <2>1 DEF WorldTurns
<1>9. ASSUME NEW p \in ProviderIds, Finishes(p)  PROVE  WorldTurns
  <2>1. phone[p].stage # "over" /\ \E ids \in SUBSET OverIds : PhoneEnds(p, ids)
    BY <1>9 DEF Finishes, OverIds
  <2> QED
    BY <2>1, EndingTurns
<1>10. CASE ReplayEvent \/ Crash \/ Purge \/ Restart \/ UNCHANGED vars
  BY <1>10 DEF ReplayEvent, Crash, Purge, Restart, vars, WorldTurns
<1> QED
  BY <1>2, <1>3, <1>4, <1>5, <1>6, <1>7, <1>8, <1>9, <1>10 DEF Next, EndStep

LEMMA PhonesTellStep ==
  ASSUME Understood, PhonesTell, WorldTurns
  PROVE  PhonesTell' /\ PickedUp \subseteq PickedUp'
<1>1. CASE UNCHANGED world
  BY <1>1 DEF world, PhonesTell, PickedUp
<1>2. ASSUME NEW p \in ProviderIds, NEW from, NEW to, NEW targets, Turns(p, from, to, targets),
             to # "none",
             \/ from = {"none"} /\ to \in {"dialing", "talking"} /\ targets \subseteq {"Initiating"}
             \/ from = {"dialing"} /\ to = "ringing" /\ targets = {"Ringing"}
             \/ from = {"dialing", "ringing"} /\ to = "talking" /\ targets = {"Active"}
             \/ from = {"talking"} /\ to = "over" /\ targets = Terminal \ Refusals
             \/ from = {"none", "dialing", "ringing"} /\ to = "over" /\ targets = Terminal
      PROVE  PhonesTell' /\ PickedUp \subseteq PickedUp'
  <2>1. \A q \in ProviderIds \ {p} :
          phone'[q] = phone[q] /\ (q \in PickedUp => q \in PickedUp')
    BY <1>2 DEF Turns, PickedUp
  <2>2. \A q \in ProviderIds \ {p}, n \in Reported : <<q, n>> \in sent' => <<q, n>> \in sent
    BY <1>2 DEF Turns
  <2>3. /\ phone[p].stage \in from /\ phone'[p].stage = to
        /\ \A n \in Reported : <<p, n>> \in sent' => <<p, n>> \in sent \/ n.target \in targets
    BY <1>2 DEF Turns
  <2>4. /\ p \in PickedUp => p \in PickedUp'
        /\ to = "talking" => p \in PickedUp'
    BY <1>2, <2>3 DEF PhonesTell, PickedUp, Terminal, Refusals
  <2>5. \A n \in Reported : <<p, n>> \in sent' =>
          /\ n.target \in Terminal => to = "over"
          /\ n.target = "Active" => p \in PickedUp'
    BY <1>2, <2>3, <2>4 DEF PhonesTell, PickedUp, Terminal
  <2>6. ASSUME NEW q \in ProviderIds
        PROVE  /\ phone'[q].stage = "talking" => q \in PickedUp'
               /\ \A n \in Reported : <<q, n>> \in sent' =>
                    /\ phone'[q].stage # "none"
                    /\ n.target \in Terminal => phone'[q].stage = "over"
                    /\ n.target = "Active" => q \in PickedUp'
    <3>1. CASE q = p
      BY <1>2, <2>3, <2>4, <2>5, <3>1
    <3>2. CASE q # p
      BY <2>1, <2>2, <3>2 DEF PhonesTell
    <3> QED
      BY <3>1, <3>2
  <2> QED
    <3>1. PhonesTell'
      BY <2>6, Zenon DEF PhonesTell
    <3>2. PickedUp \subseteq PickedUp'
      BY <2>1, <2>4 DEF PickedUp
    <3> QED
      BY <3>1, <3>2
<1> QED
  BY <1>1, <1>2 DEF WorldTurns

(* Provider call p, if there is one, is known to have come to event n.     *)
Told(p, n, said) == n \in LocalEvents \/ (n \in Reported /\ <<p, n>> \in said)

(* A row stands where its provider's events put it, low enough in their    *)
(* numbering for the one that ends the call.                               *)
Fits(row, ids, answered) ==
  /\ row.state \in Standing \cup Terminal
  /\ row.state \in Standing => row.last <= 44
  /\ row.state = "Active" => row.pid \in answered
  /\ \A n \in Reported : n.target \in Terminal /\ n.id \in ids => row.state \in Terminal

(* Inductive: so does every row, that of an open transaction too, and what *)
(* waits under a provider call is what the provider said of it.            *)
EndsInv ==
  /\ \A c \in SP!Stored : Fits(calls[c], events[c], PickedUp)
  /\ SP!Replaying => Fits(txn.row, txn.events, PickedUp)
  /\ \A u \in unmatched : Told(u.pid, u.notice, sent)
  /\ PhonesTell

LEMMA Destinations ==
  /\ SP!Terminal = Terminal
  /\ \A s \in {"Initiating", "Ringing"} : Terminal \subseteq SP!Reach(s) \ {s}
  /\ Terminal \ Refusals \subseteq SP!Reach("Active") \ {"Active"}
  /\ "Active" \notin Terminal /\ Standing \cap Terminal = {} /\ "Cancelled" \notin Refusals
BY DEF SP!Reach, SP!EndsTalk, SP!CallState, SP!Terminal, Terminal, Refusals, Standing

(* An event that the phone has come to, applied whole or not at all.       *)
LEMMA FitsOutcome ==
  ASSUME Understood, PhonesTell, NEW row \in SP!Row, NEW ids, Fits(row, ids, PickedUp),
         NEW n, Told(row.pid, n, sent), row.pid \in ProviderIds \/ n \in LocalEvents,
         NEW new \in SP!Outcomes(row, n.target, n.seq)
  PROVE  Fits(new, ids \cup {n.id}, PickedUp)
<1>1. CASE n \in LocalEvents
  <2>1. n.target \in Terminal
    BY <1>1 DEF LocalEvents, InitiationFailed, LocalEnd, Event, Terminal
  <2>2. new = row \/ new.state \in Terminal
    BY <2>1 DEF SP!Outcomes
  <2>3. \A m \in Reported : m.id # n.id
    BY <1>1, LocalIsLocal
  <2> QED
    BY <2>2, <2>3, Destinations DEF Fits
<1>2. CASE n \in Reported /\ row.pid \in ProviderIds
  <2>0. <<row.pid, n>> \in sent
    BY <1>2, LocalIsLocal DEF Told
  <2>1. CASE n.id \in OverIds
    <3>1. n.target \in Terminal /\ n.seq = 50
      BY <1>2, <2>1, Readings
    <3>2. new.state \in Terminal
      <4>1. CASE row.state \in Terminal
        BY <3>1, <4>1 DEF SP!Outcomes
      <4>2. CASE row.state \in {"Initiating", "Ringing"}
        BY <3>1, <4>2, Destinations DEF SP!Outcomes, Fits, Standing, SP!Row
      <4>3. CASE row.state = "Active"
        <5>1. n.target \in Terminal \ Refusals
          BY <1>2, <2>0, <3>1, <4>3 DEF Fits, PickedUp
        <5> QED
          BY <3>1, <4>3, <5>1, Destinations DEF SP!Outcomes, Fits, Standing, SP!Row
      <4> QED
        BY <4>1, <4>2, <4>3 DEF Fits, Standing
    <3> QED
      BY <3>2, Destinations DEF Fits
  <2>2. CASE n.id \notin OverIds
    <3>1. /\ n.target \in Standing /\ n.seq \in Nat /\ n.seq <= 40
          /\ \A m \in Reported : m.id = n.id => m.target \notin Terminal
      BY <1>2, <2>2, Readings, Destinations
    <3>2. n.target = "Active" => row.pid \in PickedUp
      BY <1>2, <2>0 DEF PhonesTell
    <3>3. new \in SP!Row /\ new.pid = row.pid
      BY DEF SP!Outcomes
    <3>4. CASE new = row
      BY <3>1, <3>4 DEF Fits
    <3>5. CASE new # row
      <4>1. new.state = n.target /\ new.last < n.seq + 5
        BY <3>5 DEF SP!Outcomes, SP!LongestPlan
      <4>2. new.last <= 44
        BY <3>1, <3>3, <4>1 DEF SP!Row
      <4>3. row.state \notin Terminal
        BY <3>5, Destinations DEF SP!Outcomes
      <4> QED
        BY <3>1, <3>2, <3>3, <4>1, <4>2, <4>3 DEF Fits
    <3> QED
      BY <3>4, <3>5
  <2> QED
    BY <2>1, <2>2
<1> QED
  BY <1>1, <1>2 DEF Told

(* What a step that is no report, and what a report, leaves of EndsInv.    *)
LEMMA FitsStays ==
  ASSUME NEW row, NEW ids, NEW answered, NEW more, Fits(row, ids, answered),
         answered \subseteq more
  PROVE  Fits(row, ids, more)
BY DEF Fits

LEMMA ToldStays ==
  ASSUME NEW p, NEW n, NEW said, NEW more, Told(p, n, said), said \subseteq more
  PROVE  Told(p, n, more)
BY DEF Told

(* A row that links to the phone that a report or a handler names.         *)
LEMMA FitsLinked ==
  ASSUME SP!TypeOK, NEW c \in SP!Stored, NEW pid \in ProviderIds \cup {None}, SP!MayLink(c, pid),
         NEW ids, Fits(calls[c], ids, PickedUp)
  PROVE  /\ SP!Linked(calls[c], pid) \in SP!Row
         /\ SP!Linked(calls[c], pid).pid = IF pid = None THEN calls[c].pid ELSE pid
         /\ Fits(SP!Linked(calls[c], pid), ids, PickedUp)
<1>1. calls[c] \in SP!Row
  BY DEF SP!TypeOK, SP!Stored
<1>2. CASE pid = None
  BY <1>1, <1>2 DEF SP!Linked
<1>3. CASE pid # None
  <2>1. /\ SP!Linked(calls[c], pid) = [calls[c] EXCEPT !.pid = pid]
        /\ calls[c].pid \in {None, pid}
    BY <1>3 DEF SP!Linked, SP!MayLink
  <2>2. calls[c].state = "Active" => pid \in PickedUp
    BY <2>1, GatewayAssumption DEF Fits, PickedUp
  <2> QED
    BY <1>1, <1>3, <2>1, <2>2 DEF Fits, SP!Row
<1> QED
  BY <1>2, <1>3

LEMMA ReportFits ==
  ASSUME Understood, SP!RefInv, EndsInv, UNCHANGED world,
         NEW c \in CallIds \cup {None}, NEW pid \in ProviderIds \cup {None},
         NEW n \in Reported \cup LocalEvents, n \in LocalEvents \/ <<pid, n>> \in sent,
         pid \in ProviderIds \/ n \in LocalEvents,
         Store!Report(Provider, c, pid, n)
  PROVE  EndsInv'
<1>1. SP!Report(Provider, c, pid, n) /\ ~SP!Replaying
  BY SameReports, ReportWrites DEF SP!RefInv
<1>2. /\ txn' = txn
      /\ \/ /\ UNCHANGED <<calls, events>> /\ pid # None
            /\ \E u : u.pid = pid /\ u.notice = n /\ unmatched' = unmatched \cup {u}
         \/ /\ unmatched' = unmatched
            /\ \E d \in SP!Stored :
                 /\ SP!MayLink(d, pid)
                 /\ \A e \in CallIds \ {d} : calls'[e] = calls[e] /\ events'[e] = events[e]
                 /\ events'[d] = events[d] \cup {n.id}
                 /\ \/ n.id \in events[d] /\ calls'[d] = SP!Linked(calls[d], pid)
                    \/ calls'[d] \in SP!Outcomes(SP!Linked(calls[d], pid), n.target, n.seq)
  BY <1>1, StoreAssumed, SP!ReportOutcome DEF SP!RefInv
<1>3. Told(pid, n, sent) /\ PhonesTell' /\ PickedUp' = PickedUp /\ sent' = sent /\ ~SP!Replaying'
  BY <1>1, <1>2 DEF Told, EndsInv, PhonesTell, PickedUp, world, SP!Replaying
<1>4. CASE UNCHANGED <<calls, events>> /\ \E u : u.pid = pid /\ u.notice = n /\ unmatched' = unmatched \cup {u}
  BY <1>3, <1>4 DEF EndsInv, SP!Stored
<1>5. ASSUME unmatched' = unmatched, NEW d \in SP!Stored, SP!MayLink(d, pid),
             \A e \in CallIds \ {d} : calls'[e] = calls[e] /\ events'[e] = events[e],
             events'[d] = events[d] \cup {n.id},
             \/ n.id \in events[d] /\ calls'[d] = SP!Linked(calls[d], pid)
             \/ calls'[d] \in SP!Outcomes(SP!Linked(calls[d], pid), n.target, n.seq)
      PROVE  EndsInv'
  <2> DEFINE row == SP!Linked(calls[d], pid)
  <2>1. /\ row \in SP!Row /\ row.pid = IF pid = None THEN calls[d].pid ELSE pid
        /\ Fits(row, events[d], PickedUp)
    BY <1>5, FitsLinked DEF EndsInv, SP!RefInv
  <2>2. Told(row.pid, n, sent) /\ (row.pid \in ProviderIds \/ n \in LocalEvents)
    BY <1>3, <2>1, GatewayAssumption DEF Told
  <2>3. Fits(calls'[d], events'[d], PickedUp)
    <3>1. CASE n.id \in events[d] /\ calls'[d] = row
      <4>1. events'[d] = events[d]
        BY <1>5, <3>1
      <4> QED
        BY <2>1, <3>1, <4>1
    <3>2. CASE calls'[d] \in SP!Outcomes(row, n.target, n.seq)
      <4> HIDE DEF row
      <4> QED
        BY <1>5, <2>1, <2>2, <3>2, FitsOutcome DEF EndsInv
    <3> QED
      BY <1>5, <3>1, <3>2
  <2>4. \A e \in SP!Stored' : e # d => e \in SP!Stored
    BY <1>5 DEF SP!Stored
  <2> QED
    BY <1>3, <1>5, <2>3, <2>4 DEF EndsInv, SP!Stored
<1> QED
  BY <1>2, <1>4, <1>5

(* A step that takes rows and waiting events away, or writes none at all.  *)
LEMMA NoWriteFits ==
  ASSUME Understood, EndsInv, WorldTurns,
         \A c \in SP!Stored' : c \in SP!Stored /\ calls'[c] = calls[c] /\ events'[c] = events[c],
         unmatched' \subseteq unmatched, txn' = txn \/ txn'.call = None
  PROVE  EndsInv'
<1>1. PhonesTell' /\ PickedUp \subseteq PickedUp' /\ sent \subseteq sent'
  BY PhonesTellStep DEF EndsInv, WorldTurns, world, Turns
<1>2. ASSUME NEW c \in SP!Stored'  PROVE  Fits(calls'[c], events'[c], PickedUp')
  BY <1>1, <1>2, FitsStays DEF EndsInv
<1>3. SP!Replaying' => Fits(txn'.row, txn'.events, PickedUp')
  BY <1>1, FitsStays DEF EndsInv, SP!Replaying
<1>4. ASSUME NEW u \in unmatched'  PROVE  Told(u.pid, u.notice, sent')
  BY <1>1, <1>4, ToldStays DEF EndsInv
<1> QED
  BY <1>1, <1>2, <1>3, <1>4 DEF EndsInv

(* A new call is being dialled, or comes from a candidate who is talking.  *)
LEMMA InsertFits ==
  ASSUME EndsInv, SP!RefInv, UNCHANGED world, NEW c \in CallIds,
         NEW state, NEW rows, NEW provider, NEW interview, NEW pid, NEW key,
         SP!Insert(c, state, rows, provider, interview, pid, key),
         Len(rows) \in Nat, Len(rows) <= 4,
         \/ state = "Initiating"
         \/ state = "Active" /\ pid \in ProviderIds /\ phone[pid].stage = "talking"
  PROVE  EndsInv'
<1>1. /\ calls \in [CallIds -> SP!Row] /\ c \notin SP!Stored /\ events[c] = {}
  BY DEF SP!RefInv, SP!TypeOK, SP!Issued, SP!AbsentUnlinked, SP!Insert
<1>2. /\ calls'[c].state = state /\ calls'[c].last = Len(rows) /\ calls'[c].pid = pid
      /\ \A e \in CallIds \ {c} : calls'[e] = calls[e]
      /\ UNCHANGED <<events, unmatched, txn>>
  BY <1>1 DEF SP!Insert
<1>3. PhonesTell' /\ PickedUp' = PickedUp /\ sent' = sent
  BY DEF EndsInv, PhonesTell, PickedUp, world
<1>4. Fits(calls'[c], events'[c], PickedUp')
  BY <1>1, <1>2, <1>3 DEF Fits, Standing, EndsInv, PhonesTell
<1>5. \A e \in SP!Stored' \ {c} : e \in SP!Stored /\ calls'[e] = calls[e] /\ events'[e] = events[e]
  BY <1>2 DEF SP!Stored
<1>6. ASSUME NEW e \in SP!Stored'  PROVE  Fits(calls'[e], events'[e], PickedUp')
  BY <1>3, <1>4, <1>5 DEF EndsInv
<1> QED
  BY <1>2, <1>3, <1>6 DEF EndsInv, SP!Replaying

(* The transaction of a link: it begins at the row, replays and commits.   *)
LEMMA LinkFits ==
  ASSUME Understood, EndsInv, SP!RefInv, UNCHANGED world,
         \/ \E c \in CallIds, pid \in ProviderIds : SP!LinkBegin(c, pid)
         \/ SP!ReplayEvent
         \/ SP!LinkCommit
  PROVE  EndsInv'
<1>0. PhonesTell' /\ PickedUp' = PickedUp /\ sent' = sent
  BY DEF EndsInv, PhonesTell, PickedUp, world
<1>1. ASSUME NEW c \in CallIds, NEW pid \in ProviderIds, SP!LinkBegin(c, pid)  PROVE  EndsInv'
  <2>1. /\ c \in SP!Stored /\ SP!MayLink(c, pid)
        /\ txn'.row = SP!Linked(calls[c], pid) /\ txn'.events = events[c]
        /\ UNCHANGED <<calls, events, unmatched>>
    BY <1>1 DEF SP!LinkBegin
  <2>2. Fits(txn'.row, txn'.events, PickedUp)
    BY <2>1, FitsLinked DEF EndsInv, SP!RefInv
  <2> QED
    BY <1>0, <2>1, <2>2 DEF EndsInv, SP!Stored
<1>2. CASE SP!ReplayEvent
  <2>1. /\ SP!Replaying /\ UNCHANGED <<calls, events, unmatched>>
        /\ txn.row \in SP!Row /\ txn.row.pid = txn.pid /\ txn.pid \in ProviderIds
        /\ txn.left \subseteq unmatched /\ \A u \in txn.left : u.pid = txn.pid
    BY <1>2 DEF SP!ReplayEvent, SP!RefInv, SP!TypeOK, SP!LinkInv, SP!TxnInv, SP!TxnRemembers
  <2>2. PICK u \in txn.left :
          /\ txn'.events = txn.events \cup {u.notice.id}
          /\ \/ u.notice.id \in txn.events /\ txn'.row = txn.row
             \/ txn'.row \in SP!Outcomes(txn.row, u.notice.target, u.notice.seq)
    BY <1>2, StoreAssumed, SP!ReplayOutcome DEF SP!RefInv
  <2>3. Told(txn.row.pid, u.notice, sent) /\ Fits(txn.row, txn.events, PickedUp)
    BY <2>1, <2>2 DEF EndsInv
  <2>4. Fits(txn'.row, txn'.events, PickedUp)
    <3>1. CASE u.notice.id \in txn.events /\ txn'.row = txn.row
      <4>1. txn'.events = txn.events
        BY <2>2, <3>1
      <4> QED
        BY <2>3, <3>1, <4>1
    <3>2. CASE txn'.row \in SP!Outcomes(txn.row, u.notice.target, u.notice.seq)
      BY <2>1, <2>2, <2>3, <3>2, FitsOutcome DEF EndsInv
    <3> QED
      BY <2>2, <3>1, <3>2
  <2> QED
    BY <1>0, <2>1, <2>4 DEF EndsInv, SP!Stored
<1>3. CASE SP!LinkCommit
  <2>1. /\ SP!Replaying /\ unmatched' \subseteq unmatched /\ ~SP!Replaying'
        /\ calls' = [calls EXCEPT ![txn.call] = txn.row]
        /\ events' = [events EXCEPT ![txn.call] = txn.events]
    BY <1>3 DEF SP!LinkCommit, SP!NoTxn, SP!Replaying
  <2>2. calls \in [CallIds -> SP!Row] /\ DOMAIN events = CallIds /\ txn.call \in CallIds
    BY <2>1 DEF SP!RefInv, SP!TypeOK, SP!LinkInv, SP!TxnInv, SP!Stored
  <2>3. ASSUME NEW c \in SP!Stored'  PROVE  Fits(calls'[c], events'[c], PickedUp)
    <3>1. CASE c = txn.call
      BY <2>1, <2>2, <3>1 DEF EndsInv
    <3>2. CASE c # txn.call
      BY <2>1, <2>2, <3>2 DEF EndsInv, SP!Stored
    <3> QED
      BY <3>1, <3>2
  <2> QED
    BY <1>0, <2>1, <2>3 DEF EndsInv
<1> QED
  BY <1>1, <1>2, <1>3

LEMMA EndsInvStep ==
  Understood /\ HandlersInv /\ SP!RefInv /\ EndsInv /\ [Next]_vars => EndsInv'
<1> SUFFICES ASSUME Understood, HandlersInv, SP!RefInv, EndsInv, [Next]_vars  PROVE  EndsInv'
  OBVIOUS
<1>0. WorldTurns
  BY WorldTurnsHold
<1>1. CASE UNCHANGED store
  BY <1>0, <1>1, NoWriteFits DEF store, SP!Stored
<1>2. ASSUME NEW s \in Starts, StartStep(s)  PROVE  EndsInv'
  <2>1. ASSUME NEW c \in CallIds, NEW interview, NEW key, StartNew(s, c, interview, key)
        PROVE  EndsInv'
    <3>1. SP!BeginCall(c, Provider, interview, key) /\ UNCHANGED world
      BY <2>1, SameInserts DEF StartNew
    <3>2. Len(SP!OutboundLog) \in Nat /\ Len(SP!OutboundLog) <= 4
      BY DEF SP!OutboundLog
    <3>3. SP!Insert(c, "Initiating", SP!OutboundLog, Provider, interview, None, key)
      BY <3>1 DEF SP!BeginCall
    <3> QED
      BY <3>1, <3>2, <3>3, InsertFits
  <2>2. CASE FailCall(s)
    <3>1. /\ start[s].call \in CallIds /\ InitiationFailed(3) \in LocalEvents
          /\ Store!Report(Provider, start[s].call, None, InitiationFailed(3)) /\ UNCHANGED world
      BY <2>2 DEF FailCall, StartGoes, HandlersInv, HandlersTyped, Created, LocalEvents
    <3> QED
      BY <3>1, ReportFits
  <2>3. CASE LinkBegin(s)
    <3>1. /\ SP!LinkBegin(start[s].call, start[s].pid) /\ UNCHANGED world
          /\ start[s].call \in CallIds /\ start[s].pid \in ProviderIds
      BY <2>3, SameLinks DEF LinkBegin, StartGoes, HandlersInv, HandlersTyped, Created, Placed
    <3> QED
      BY <3>1, LinkFits
  <2>4. CASE LinkCommit(s)
    BY <2>4, SameLinks, LinkFits DEF LinkCommit
  <2> QED
    BY <1>1, <1>2, <2>1, <2>2, <2>3, <2>4
       DEF StartStep, StartExisting, DialRefused, Dial, LinkRefused
<1>3. ASSUME NEW e \in Ends, EndStep(e) \/ \E c \in CallIds : EndRead(e, c)  PROVE  EndsInv'
  <2>1. CASE EndRecord(e)
    <3>1. /\ end[e].call \in CallIds /\ end[e].pid \in ProviderIds
          /\ LocalEnd(end[e].seq) \in LocalEvents /\ UNCHANGED world
          /\ Store!Report(Provider, end[e].call, end[e].pid, LocalEnd(end[e].seq))
      BY <2>1 DEF EndRecord, EndGoes, HandlersInv, HandlersTyped, HandlersType, Asking, LocalEvents
    <3> QED
      BY <3>1, ReportFits
  <2> QED
    BY <1>1, <1>3, <2>1 DEF EndStep, EndAsk, EndRead
<1>4. ASSUME NEW p \in ProviderIds, NEW n \in Reported, Callback(p, n)  PROVE  EndsInv'
  <2>1. PICK c \in {phone[p].for, None} : Store!Report(Provider, c, p, n)
    BY <1>4 DEF Callback
  <2>2. c \in CallIds \cup {None} /\ <<p, n>> \in sent /\ UNCHANGED world
    BY <1>4 DEF HandlersInv, HandlersType, Callback
  <2> QED
    BY <2>1, <2>2, ReportFits
<1>5. ASSUME NEW p \in ProviderIds, NEW c \in CallIds, Inbound(p, c)  PROVE  EndsInv'
  <2>1. SP!RegisterInbound(c, Provider, p) /\ UNCHANGED world /\ phone[p].stage = "talking"
    BY <1>5, SameInserts DEF Inbound
  <2>2. Len(SP!InboundLog) \in Nat /\ Len(SP!InboundLog) <= 4
    BY DEF SP!InboundLog
  <2>3. SP!Insert(c, "Active", SP!InboundLog, Provider, None, p, None)
    BY <2>1 DEF SP!RegisterInbound
  <2> QED
    BY <2>1, <2>2, <2>3, InsertFits
<1>6. CASE ReplayEvent
  BY <1>6, SameLinks, LinkFits DEF ReplayEvent
<1>7. CASE Crash
  <2>1. UNCHANGED <<calls, events, unmatched>> /\ txn'.call = None
    BY <1>7, CrashEndsTxn DEF Crash, Store!LinkRollback, store
  <2> QED
    BY <1>0, <2>1, NoWriteFits DEF SP!Stored
<1>8. CASE Purge
  <2>1. /\ \A c \in SP!Stored' : c \in SP!Stored /\ calls'[c] = calls[c] /\ events'[c] = events[c]
        /\ unmatched' \subseteq unmatched /\ txn' = txn
    <3>1. ASSUME NEW S \in SUBSET CallIds, SP!PurgeTerminal(S)
          PROVE  /\ \A c \in SP!Stored' : /\ c \in SP!Stored
                                         /\ calls'[c] = calls[c] /\ events'[c] = events[c]
                 /\ unmatched' = unmatched /\ txn' = txn
      BY <3>1 DEF SP!PurgeTerminal, SP!Stored, SP!NoCall
    <3>2. ASSUME NEW cutoff, SP!PurgeUnmatched(cutoff)
          PROVE  unmatched' \subseteq unmatched /\ UNCHANGED <<calls, events, txn>>
      BY <3>2 DEF SP!PurgeUnmatched
    <3> QED
      BY <1>8, <3>1, <3>2, SamePurges DEF Purge, SP!Stored
  <2> QED
    BY <1>0, <2>1, NoWriteFits
<1>9. ASSUME NEW p \in ProviderIds, CandidateCalls(p) \/ Rings(p) \/ Answers(p) \/ Finishes(p)
      PROVE  EndsInv'
  BY <1>1, <1>9 DEF CandidateCalls, Rings, Answers, Finishes
<1> QED
  BY <1>1, <1>2, <1>3, <1>4, <1>5, <1>6, <1>7, <1>8, <1>9 DEF Next, Restart, vars

LEMMA EndsInvHolds == Understood => (Spec => []EndsInv)
<1> SUFFICES ASSUME Understood  PROVE  Spec => []EndsInv
  OBVIOUS
<1>1. Init => EndsInv
  BY SameLookups DEF Init, Store!Init, EndsInv, PhonesTell, SP!Stored, SP!Replaying, Store!NoCall,
     Store!NoTxn
<1>2. HandlersInv /\ SP!RefInv /\ EndsInv /\ [Next]_vars => EndsInv'
  BY EndsInvStep
<1> QED
  BY <1>1, <1>2, TypesHold, StoreHolds, PTL DEF Spec

(* CallGateway: RecordedEndEnds.  Whatever subset of their statuses the    *)
(* two providers report, in whatever order they arrive, repeatedly, late   *)
(* or replayed at the link: a final status that has been recorded for a    *)
(* call has ended it.  The highest number that path_to's steps can reach   *)
(* below a final status is 44, and nobody who has answered is reported not *)
(* to have.                                                                *)
THEOREM RecordedEndsHaveEnded ==
  Reported \subseteq TwilioEvents \cup VapiEvents => (Spec => []RecordedEndEnds)
<1> SUFFICES ASSUME Understood  PROVE  Spec => []RecordedEndEnds
  BY DEF Understood
<1>1. EndsInv => RecordedEndEnds
  BY SameLookups DEF EndsInv, Fits, RecordedEndEnds
<1> QED
  BY <1>1, EndsInvHolds, PTL
=============================================================================
