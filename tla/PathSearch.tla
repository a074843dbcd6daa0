----------------------------- MODULE PathSearch -----------------------------
(***************************************************************************)
(* path_to of gateway/src/calls.rs as the program runs it: a breadth-first *)
(* search with a queue of (state, path) pairs and a list of seen states,   *)
(* one step per transition tried.  The properties compare its answer with  *)
(* the declarative PathTo of CallLifecycle, which the other modules use.   *)
(***************************************************************************)
EXTENDS CallLifecycle, FiniteSets

VARIABLES
  from, to,   \* the arguments
  queue,      \* entries [state, path] still to be expanded
  seen,       \* states discovered so far
  index,      \* the next transition to try on the head of the queue
  status,     \* "searching", then "some" or "none"
  answer      \* the path returned

vars == <<from, to, queue, seen, index, status, answer>>

Init ==
  /\ from \in CallState
  /\ to \in CallState
  /\ queue = <<[state |-> from, path |-> <<>>]>>
  /\ seen = {from}
  /\ index = 1
  /\ status = IF from = to THEN "some"
              ELSE IF from \in Terminal THEN "none"
              ELSE "searching"
  /\ answer = <<>>

Head1 == queue[1]
Event == TRANSITIONS[index]
Legal == Event \in DOMAIN Transition(Head1.state)
Successor == Transition(Head1.state)[Event]

(* Fault: the path so far is not carried along. *)
ExtendedAfresh == <<[from |-> Head1.state, event |-> Event, to |-> Successor]>>

Extended == Append(Head1.path, [from |-> Head1.state, event |-> Event,
                                to |-> Successor])

Searching == status = "searching" /\ index <= Len(TRANSITIONS)

(* The transition is illegal here, or leads to a state already seen. *)
Skip ==
  /\ Searching
  /\ Legal => Successor \in seen
  /\ index' = index + 1
  /\ UNCHANGED <<from, to, queue, seen, status, answer>>

(* A new state, which is the one looked for. *)
Found ==
  /\ Searching
  /\ Legal /\ Successor \notin seen /\ Successor = to
  /\ seen' = seen \cup {Successor}
  /\ status' = "some"
  /\ answer' = Extended
  /\ UNCHANGED <<from, to, queue, index>>

(* Another new state: queued, unless nothing can follow it. *)
Discover ==
  /\ Searching
  /\ Legal /\ Successor \notin seen /\ Successor # to
  /\ seen' = seen \cup {Successor}
  /\ queue' = IF Successor \in Terminal THEN queue
              ELSE Append(queue, [state |-> Successor, path |-> Extended])
  /\ index' = index + 1
  /\ UNCHANGED <<from, to, status, answer>>

(* All transitions of the head tried: on to the next entry, if any. *)
NextEntry ==
  /\ status = "searching" /\ index > Len(TRANSITIONS)
  /\ queue' = Tail(queue)
  /\ index' = 1
  /\ status' = IF Tail(queue) = <<>> THEN "none" ELSE status
  /\ UNCHANGED <<from, to, seen, answer>>

Next == Skip \/ Found \/ Discover \/ NextEntry

Spec == Init /\ [][Next]_vars

-----------------------------------------------------------------------------
TypeOK ==
  /\ from \in CallState /\ to \in CallState
  /\ \A i \in 1..Len(queue) : queue[i].state \in CallState
  /\ seen \subseteq CallState
  /\ index \in 1..Len(TRANSITIONS) + 1
  /\ status \in {"searching", "some", "none"}

(* The search goes on until it answers, and answers with the plan the rest *)
(* of the models use: a shortest legal chain from one state to the other,  *)
(* and "none" exactly when there is no chain at all (path_to, calls.rs).   *)
(* The order of the transitions cannot matter, since no two shortest       *)
(* chains join the same two states.                                        *)
FindsPathTo ==
  LET rs == Routes(from, to) IN
  IF status = "searching" THEN ENABLED Next
  ELSE /\ answer = PathTo(from, to)
       /\ status = "none" <=> from # to /\ rs = {}
       /\ rs # {} => Cardinality({r \in rs : Len(r) = Len(answer)}) = 1

(* No plan skips a required state: a call cannot become Active without     *)
(* having been Connected, nor Completed without Completing (the test       *)
(* shortest_transition_paths_never_skip_required_states).                  *)
Before(r, s) == \E i \in 1..Len(r) : r[i].from = s
KeepsRequiredStates ==
  answer # <<>> =>
    /\ to = "Active" => Before(answer, "Connected")
    /\ to = "Completed" => Before(answer, "Completing")

=============================================================================
