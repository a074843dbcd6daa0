--------------------------- MODULE CallLifecycle ---------------------------
(***************************************************************************)
(* The canonical call lifecycle of interview-domain/src/call.rs: the call  *)
(* states, the transition table, what CallSession::apply does to a call,   *)
(* and the plan path_to (gateway/src/calls.rs) makes of it: the shortest   *)
(* legal sequence of transitions to the state a provider reports.          *)
(*                                                                         *)
(* Only constant-level definitions: every module about calls extends this  *)
(* one.  A plan is a sequence of hops [from, event, to].                   *)
(***************************************************************************)
EXTENDS Integers, Sequences

Terminal == {"Completed", "Cancelled", "Declined", "Busy", "NoAnswer",
             "Failed", "Disconnected", "TimedOut"}

CallState == {"Requested", "Validating", "Initiating", "Ringing",
              "Connecting", "Connected", "Active", "Completing"} \cup Terminal

(* The order in which path_to tries the transitions. *)
TRANSITIONS == <<"Validated", "Initiate", "Ringing", "Connect", "Activate",
                 "BeginCompletion", "Complete", "Cancel", "Decline", "Busy",
                 "NoAnswer", "Fail", "Disconnect", "Timeout">>

CallTransition == {TRANSITIONS[i] : i \in 1..14}

(* Fault: a call may become active without having been connected. *)
ShortcutTransition(s) ==
  CASE s = "Initiating" -> [Connect |-> "Connected", Activate |-> "Active"]
    [] s = "Connected"  -> [Activate |-> "Active"]
    [] OTHER            -> <<>>

(* Transition(s)[e] is the state that e leads to from s; an event outside  *)
(* the domain is the error IllegalTransition.                              *)
Transition(s) ==
  CASE s = "Requested"  -> [Validated |-> "Validating", Cancel |-> "Cancelled",
                            Fail |-> "Failed"]
    [] s = "Validating" -> [Initiate |-> "Initiating", Cancel |-> "Cancelled",
                            Fail |-> "Failed"]
    [] s = "Initiating" -> [Ringing |-> "Ringing", Connect |-> "Connected",
                            Cancel |-> "Cancelled", Decline |-> "Declined",
                            Busy |-> "Busy", NoAnswer |-> "NoAnswer",
                            Timeout |-> "TimedOut", Fail |-> "Failed"]
    [] s = "Ringing"    -> [Connect |-> "Connected", Cancel |-> "Cancelled",
                            Decline |-> "Declined", Busy |-> "Busy",
                            NoAnswer |-> "NoAnswer", Timeout |-> "TimedOut",
                            Fail |-> "Failed"]
    [] s = "Connecting" -> [Connect |-> "Connected", Cancel |-> "Cancelled",
                            Timeout |-> "TimedOut", Fail |-> "Failed"]
    [] s = "Connected"  -> [Activate |-> "Active", Cancel |-> "Cancelled",
                            BeginCompletion |-> "Completing",
                            Disconnect |-> "Disconnected",
                            Timeout |-> "TimedOut", Fail |-> "Failed"]
    [] s = "Active"     -> [BeginCompletion |-> "Completing",
                            Cancel |-> "Cancelled",
                            Disconnect |-> "Disconnected",
                            Timeout |-> "TimedOut", Fail |-> "Failed"]
    [] s = "Completing" -> [Complete |-> "Completed",
                            Disconnect |-> "Disconnected",
                            Timeout |-> "TimedOut", Fail |-> "Failed"]
    [] OTHER            -> <<>>

(* The transition table as the set of its rows. *)
Hops == {h \in [from : CallState, event : CallTransition, to : CallState] :
           /\ h.event \in DOMAIN Transition(h.from)
           /\ h.to = Transition(h.from)[h.event]}

-----------------------------------------------------------------------------
(* path_to.  No two states are more than five transitions apart.           *)
LongestPlan == 5

LastHop(r) == r[Len(r)]

Single == {<<h>> : h \in Hops}

(* The chains one hop longer than those in ws. *)
Longer(ws) ==
  UNION {{Append(w, h) : h \in {x \in Hops : x.from = LastHop(w).to}} : w \in ws}

AllWalks ==
  LET two == Longer(Single)  three == Longer(two)
      four == Longer(three)  five == Longer(four)
  IN Single \cup two \cup three \cup four \cup five

(* The chains from one state to another; none when the states are equal.   *)
Routes(from, to) ==
  IF from = to THEN {}
  ELSE {r \in AllWalks : r[1].from = from /\ LastHop(r).to = to}

(* What path_to returns: a shortest route.  The empty plan stands both for *)
(* "already there" (Some(vec![])) and for "no way" (None): the callers     *)
(* treat the two alike.                                                    *)
Shortest(rs) ==
  IF rs = {} THEN <<>>
  ELSE CHOOSE r \in rs : \A q \in rs : Len(r) <= Len(q)

Plans == [from \in CallState |-> [to \in CallState |-> Shortest(Routes(from, to))]]

PathTo(from, to) == Plans[from][to]

-----------------------------------------------------------------------------
(* CallSession::apply, along a plan whose steps carry the sequence numbers *)
(* base, base + 1, ...  A call is any record with fields state, version,   *)
(* last (the last applied sequence) and ended.                             *)

(* Fault: every step of a plan carries the sequence of the event. *)
SameSequence(base, i) == base

StepSequence(base, i) == base + i - 1

(* Does the i-th step of the plan succeed, the earlier ones having done so? *)
Takes(call, plan, base, i) ==
  LET state == IF i = 1 THEN call.state ELSE plan[i - 1].to
      last  == IF i = 1 THEN call.last ELSE StepSequence(base, i - 1)
  IN /\ state \notin Terminal
     /\ StepSequence(base, i) > last
     /\ plan[i] \in Hops
     /\ plan[i].from = state

(* Exactly the first k steps of the plan succeed. *)
TakesExactly(call, plan, base, k) ==
  /\ \A i \in 1..k : Takes(call, plan, base, i)
  /\ k < Len(plan) => ~Takes(call, plan, base, k + 1)

(* The call after the first k steps, and the k rows of its transition log. *)
Advance(call, plan, base, k) ==
  IF k = 0 THEN call
  ELSE [call EXCEPT !.state   = plan[k].to,
                    !.version = @ + k,
                    !.last    = StepSequence(base, k),
                    !.ended   = plan[k].to \in Terminal]

LogRows(plan, base, k) ==
  [i \in 1..k |-> [from |-> plan[i].from, event |-> plan[i].event,
                   to |-> plan[i].to, seq |-> StepSequence(base, i)]]

=============================================================================
