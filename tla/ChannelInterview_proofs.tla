----------------------- MODULE ChannelInterview_proofs -----------------------
(***************************************************************************)
(* Proofs about ChannelInterview, for every number of requests, events and *)
(* sessions: the types, one answer per event, one interview that has its   *)
(* question, replies that stand, one turn per event, turns in their order. *)
(***************************************************************************)
EXTENDS ChannelInterview, FiniteSetTheorems, TLAPS

Request == [pc : Pcs, ev : Events \cup {None}, s : Ids \cup {None},
            turn : Nat, reply : Reply \cup {NoReply}]

(* What a request holds at its place in the code. *)
Holding == {"opening", "binding", "deleting"}
Free == {"none", "finding", "looking", "checking"}
Replying == {"counting", "completing", "recording"}

HasEvent(q) == q.pc \in Turning \cup {"looking", "checking"} => q.ev \in Events
HasReply(q) == q.pc \in Replying => q.reply \in Reply
HasSession(q) ==
  /\ q.pc \in Free => q.s = None
  /\ q.pc \in Turning \cup Holding => q.s \in Ids
RequestsHold ==
  \A r \in Requests : HasEvent(req[r]) /\ HasReply(req[r]) /\ HasSession(req[r])

(* An answer is what is stored for its event. *)
AnswersStored ==
  \A e \in Events :
    /\ answers[e] \subseteq {recorded[e]}
    /\ recorded[e] = None => answers[e] = {}

(* Whose session it is: a turn is of the candidate's, a start has its own. *)
TurnsOfBound == \A r \in Requests : req[r].pc \in Turning => req[r].s = bound
StartsApart ==
  \A r \in Requests : req[r].pc \in Holding =>
    /\ req[r].s \in rows /\ req[r].s # bound
    /\ \A q \in Requests \ {r} : req[q].pc \in Holding => req[q].s # req[r].s
StartsSpoken ==
  \A r \in Requests :
    /\ req[r].pc = "opening" => transcript[req[r].s] = <<>>
    /\ req[r].pc = "binding" => /\ transcript[req[r].s] # <<>>
                                /\ transcript[req[r].s][1].speaker = "ai"

SessionInv ==
  /\ TurnsOfBound /\ StartsApart /\ StartsSpoken
  /\ BoundHasQuestion /\ NoStrayInterview

RequestInv == TypeOK /\ RequestsHold
-----------------------------------------------------------------------------
(* Types and requests. *)

(* A step of one request leaves the others as they were. *)
Moves(r, q) == req' = [req EXCEPT ![r] = q]
Sound(q) == q \in Request /\ HasEvent(q) /\ HasReply(q) /\ HasSession(q)

LEMMA RequestMoves ==
  ASSUME NEW r \in Requests, NEW q, RequestInv, Moves(r, q), Sound(q)
  PROVE  req' \in [Requests -> Request] /\ RequestsHold'
<1>1. req \in [Requests -> Request]
  BY DEF RequestInv, TypeOK, Request
<1>2. req' \in [Requests -> Request]
  BY <1>1 DEF Moves, Sound
<1>3. \A p \in Requests : req'[p] = IF p = r THEN q ELSE req[p]
  BY <1>1 DEF Moves
<1>4. \A p \in Requests : HasEvent(req'[p]) /\ HasReply(req'[p]) /\ HasSession(req'[p])
  BY <1>3 DEF RequestInv, RequestsHold, Sound
<1> QED
  BY <1>2, <1>4 DEF RequestsHold, HasEvent, HasReply, HasSession

LEMMA IdleSound == Sound(Idle)
  BY ChannelAssumption DEF Sound, Idle, Request, HasEvent, HasReply, HasSession,
     Pcs, Starting, Turning, Holding, Free, Replying

(* Every segment that is said is one, and there is room for it. *)
LEMMA SaidIsTyped ==
  ASSUME NEW s \in Ids, NEW speaker \in {"ai", "candidate"}, NEW turn \in Nat,
         NEW ev \in Events \cup {None}, TypeOK, Say(s, speaker, turn, ev)
  PROVE  /\ transcript' \in [Ids -> Seq(Segment)]
         /\ Len(transcript[s]) + 1 \in 1..MaxSegments
<1> DEFINE segment == [speaker |-> speaker, turn |-> turn, ev |-> ev]
<1>1. segment \in Segment
  BY DEF Segment
<1>2. transcript \in [Ids -> Seq(Segment)] /\ transcript[s] \in Seq(Segment)
  BY DEF TypeOK
<1>3. Append(transcript[s], segment) \in Seq(Segment)
  BY <1>1, <1>2
<1>4. transcript' = [transcript EXCEPT ![s] = Append(@, segment)]
  BY DEF Say
<1> HIDE DEF segment
<1>5. Len(transcript[s]) \in Nat /\ Len(transcript[s]) < MaxSegments
  BY <1>2 DEF Say
<1> QED
  BY <1>2, <1>3, <1>4, <1>5, ChannelAssumption

(* What each step of a request makes of the request. *)
LEMMA StepSound ==
  ASSUME NEW r \in Requests, RequestInv,
         \/ Inbound(r) \/ StartCall(r) \/ Begin(r) \/ Submit(r)
         \/ \E e \in Events : Turn(r, e) \/ Message(r, e)
  PROVE  \E q : Moves(r, q) /\ Sound(q)
<1> USE DEF Moves
<1>0. req \in [Requests -> Request] /\ Sound(req[r]) /\ req[r] \in Request
  BY DEF RequestInv, TypeOK, Request, RequestsHold, Sound
<1>1. ASSUME NEW e \in Events \cup {None}, AskToStart(r, e)
      PROVE  \E q : Moves(r, q) /\ Sound(q)
  <2> DEFINE q == [req[r] EXCEPT !.pc = "finding", !.ev = e]
  <2>1. req' = [req EXCEPT ![r] = q]
    BY <1>0, <1>1 DEF AskToStart
  <2>2. Sound(q)
    BY <1>0, <1>1 DEF Sound, Request, HasEvent, HasReply, HasSession, AskToStart, At,
       Pcs, Starting, Turning, Holding, Free, Replying
  <2> QED
    BY <2>1, <2>2
<1>2. ASSUME NEW e \in Events, AskToTake(r, e)
      PROVE  \E q : Moves(r, q) /\ Sound(q)
  <2> DEFINE q == [req[r] EXCEPT !.pc = "looking", !.ev = e]
  <2>1. req' = [req EXCEPT ![r] = q]
    BY <1>0, <1>2 DEF AskToTake
  <2>2. Sound(q)
    BY <1>0, <1>2 DEF Sound, Request, HasEvent, HasReply, HasSession, AskToTake, At,
       Pcs, Starting, Turning, Holding, Free, Replying
  <2> QED
    BY <2>1, <2>2
<1>3. ASSUME Return(r)  PROVE  \E q : Moves(r, q) /\ Sound(q)
  BY <1>3, IdleSound DEF Return
(* A step that only goes on to another place. *)
<1>4. ASSUME NEW pc \in Pcs, Goto(r, pc),
             pc \in Turning \cup {"looking", "checking"} => req[r].ev \in Events,
             pc \in Replying => req[r].reply \in Reply,
             pc \in Free => req[r].s = None,
             pc \in Turning \cup Holding => req[r].s \in Ids
      PROVE  \E q : Moves(r, q) /\ Sound(q)
  <2> DEFINE q == [req[r] EXCEPT !.pc = pc]
  <2>1. req' = [req EXCEPT ![r] = q]
    BY <1>0, <1>4 DEF Goto
  <2>2. q \in Request /\ q.pc = pc /\ q.ev = req[r].ev /\ q.s = req[r].s
        /\ q.reply = req[r].reply
    BY <1>0 DEF Request
  <2> HIDE DEF q
  <2>3. Sound(q)
    BY <1>4, <2>2 DEF Sound, HasEvent, HasReply, HasSession
  <2> QED
    BY <2>1, <2>3
<1>5. CASE Inbound(r) \/ StartCall(r) \/ \E e \in Events : Turn(r, e) \/ Message(r, e)
  BY <1>1, <1>2, <1>5 DEF Inbound, StartCall, Turn, Message
<1>6. CASE Resume(r)
  <2>1. req[r].ev # None => req[r].ev \in Events
    BY <1>0 DEF Request
  <2>2. req[r].s = None
    BY <1>0, <1>6 DEF Sound, HasSession, Resume, At,
       Pcs, Starting, Turning, Holding, Free, Replying
  <2> QED
    BY <1>3, <1>4, <1>6, <2>1, <2>2 DEF Resume,
       Pcs, Starting, Turning, Holding, Free, Replying
<1>7. CASE Create(r)
  <2>1. PICK s \in Ids : req' = [req EXCEPT ![r].pc = "opening", ![r].s = s]
    BY <1>7 DEF Create
  <2> DEFINE q == [req[r] EXCEPT !.pc = "opening", !.s = s]
  <2>2. req' = [req EXCEPT ![r] = q]
    BY <1>0, <2>1
  <2>3. Sound(q)
    BY <1>0 DEF Sound, Request, HasEvent, HasReply, HasSession,
       Pcs, Starting, Turning, Holding, Free, Replying
  <2> QED
    BY <2>2, <2>3
<1>8. CASE Opened(r)
  BY <1>0, <1>4, <1>8 DEF Opened, At, Sound, HasSession,
     Pcs, Starting, Turning, Holding, Free, Replying
<1>9. CASE BindLost(r)
  BY <1>0, <1>4, <1>9 DEF BindLost, At, Sound, HasSession,
     Pcs, Starting, Turning, Holding, Free, Replying
<1>10. CASE OpeningFails(r) \/ Bind(r) \/ Delete(r) \/ Duplicate(r) \/ DecideFails(r) \/ Record(r)
  BY <1>3, <1>10 DEF OpeningFails, Bind, Delete, Duplicate, DecideFails, Record
<1>11. CASE Look(r)
  BY <1>0, <1>4, <1>11 DEF Look, At, Sound, HasEvent, HasSession,
     Pcs, Starting, Turning, Holding, Free, Replying
<1>12. CASE Check(r)
  <2>1. CASE ~Open
    BY <1>3, <1>12, <2>1 DEF Check
  <2>2. CASE Open
    <3>1. bound \in Ids
      BY <2>2 DEF Open, RequestInv, TypeOK
    <3> DEFINE q == [req[r] EXCEPT !.pc = "reading", !.s = bound]
    <3>2. req' = [req EXCEPT ![r] = q]
      BY <1>0, <1>12, <2>2 DEF Check
    <3>3. Sound(q)
      BY <1>0, <1>12, <3>1 DEF Check, At, Sound, Request, HasEvent, HasReply, HasSession,
         Pcs, Starting, Turning, Holding, Free, Replying
    <3> QED
      BY <3>2, <3>3
  <2> QED
    BY <2>1, <2>2
<1>13. CASE Read(r)
  <2>1. req[r].s \in Ids /\ req[r].ev \in Events
    BY <1>0, <1>13 DEF Read, At, Sound, HasEvent, HasSession,
       Pcs, Starting, Turning, Holding, Free, Replying
  <2>2. turns[req[r].s] + 1 \in Nat
    BY <2>1 DEF RequestInv, TypeOK
  <2> DEFINE q == [req[r] EXCEPT !.pc = "deciding", !.turn = turns[req[r].s] + 1]
  <2>3. req' = [req EXCEPT ![r] = q]
    BY <1>0, <1>13 DEF Read
  <2>4. Sound(q)
    BY <1>0, <2>1, <2>2 DEF Sound, Request, HasEvent, HasReply, HasSession,
       Pcs, Starting, Turning, Holding, Free, Replying
  <2> QED
    BY <2>3, <2>4
<1>14. CASE Decide(r)
  <2>1. req[r].s \in Ids /\ req[r].ev \in Events
    BY <1>0, <1>14 DEF Decide, At, Sound, HasEvent, HasSession,
       Pcs, Starting, Turning, Holding, Free, Replying
  <2>2. Len(transcript[req[r].s]) + 1 \in 1..MaxSegments
    <3>1. TypeOK /\ req[r].turn \in Nat /\ Say(req[r].s, "ai", req[r].turn, None)
      BY <1>0, <1>14 DEF RequestInv, Request, Decide
    <3> QED
      BY <2>1, <3>1, SaidIsTyped
  <2>3. PICK done \in BOOLEAN :
          req' = [req EXCEPT ![r].pc = "counting",
                             ![r].reply = [at |-> Len(transcript[req[r].s]) + 1,
                                           complete |-> done]]
    BY <1>14 DEF Decide
  <2> DEFINE reply == [at |-> Len(transcript[req[r].s]) + 1, complete |-> done]
             q == [req[r] EXCEPT !.pc = "counting", !.reply = reply]
  <2>4. reply \in Reply
    BY <2>2 DEF Reply
  <2>5. req' = [req EXCEPT ![r] = q]
    BY <1>0, <2>3
  <2> HIDE DEF reply
  <2>6. Sound(q)
    BY <1>0, <2>1, <2>4 DEF Sound, Request, HasEvent, HasReply, HasSession,
       Pcs, Starting, Turning, Holding, Free, Replying
  <2> QED
    BY <2>5, <2>6
<1>15. CASE Count(r) \/ Complete(r)
  <2>1. PICK pc \in {"completing", "recording"} : Goto(r, pc)
    BY <1>15 DEF Count, Complete
  <2>2. req[r].ev \in Events /\ req[r].reply \in Reply /\ req[r].s \in Ids
    BY <1>0, <1>15 DEF Count, Complete, At, Sound, HasEvent, HasReply, HasSession,
       Pcs, Starting, Turning, Holding, Free, Replying
  <2> QED
    BY <1>4, <2>1, <2>2 DEF Pcs, Starting, Turning, Holding, Free, Replying
<1> QED
  BY <1>5, <1>6, <1>7, <1>8, <1>9, <1>10, <1>11, <1>12, <1>13, <1>14, <1>15
     DEF Begin, Submit

-----------------------------------------------------------------------------
(* Everything else a state holds, by name. *)
DataOK ==
  /\ bound \in Ids \cup {None} /\ rows \subseteq Ids /\ complete \subseteq Ids
  /\ turns \in [Ids -> Nat]
  /\ transcript \in [Ids -> Seq(Segment)]
  /\ recorded \in [Events -> Reply \cup {None}]
  /\ crashes \in 0..MaxCrashes
  /\ answers \in [Events -> SUBSET Reply]
  /\ excused \subseteq Events \cup {None} /\ messy \in BOOLEAN /\ strays \subseteq Ids

LEMMA DataAndRequests == TypeOK <=> DataOK /\ req \in [Requests -> Request]
  BY DEF TypeOK, DataOK, Request

StepOf(r) == \/ Inbound(r) \/ StartCall(r) \/ Begin(r) \/ Submit(r)
             \/ \E e \in Events : Turn(r, e) \/ Message(r, e)

LEMMA StepKeepsData ==
  ASSUME NEW r \in Requests, RequestInv, StepOf(r)
  PROVE  DataOK'
<1>0. DataOK /\ TypeOK /\ req[r] \in Request /\ Sound(req[r])
  BY DataAndRequests DEF RequestInv, RequestsHold, Sound
<1>1. CASE Inbound(r) \/ StartCall(r) \/ \E e \in Events : Turn(r, e) \/ Message(r, e)
  BY <1>0, <1>1 DEF Inbound, StartCall, Turn, Message, AskToStart, AskToTake,
     DataOK, database, history
<1>2. CASE Resume(r) \/ BindLost(r)
  BY <1>0, <1>2 DEF Resume, BindLost, DataOK, database, history
<1>3. CASE Create(r)
  BY <1>0, <1>3 DEF Create, DataOK, history
<1>4. CASE Opened(r)
  <2>1. req[r].s \in Ids
    BY <1>0, <1>4 DEF Opened, At, Sound, HasSession, Holding
  <2>2. transcript' \in [Ids -> Seq(Segment)]
    BY <1>0, <1>4, <2>1, SaidIsTyped DEF Opened
  <2> QED
    BY <1>0, <1>4, <2>2 DEF Opened, DataOK, history
<1>5. CASE OpeningFails(r)
  BY <1>0, <1>5 DEF OpeningFails, At, Sound, HasSession, Holding, DataOK, database
<1>6. CASE Bind(r)
  BY <1>0, <1>6 DEF Bind, At, Sound, HasSession, Holding, DataOK, history
<1>7. CASE Delete(r)
  <2>1. <<>> \in Seq(Segment)
    OBVIOUS
  <2>2. transcript' \in [Ids -> Seq(Segment)]
    BY <1>0, <1>7, <2>1 DEF Delete, DataOK
  <2> QED
    BY <1>0, <1>7, <2>2 DEF Delete, DataOK, history
<1>8. CASE Duplicate(r)
  <2>1. req[r].ev \in Events
    BY <1>0, <1>8 DEF Duplicate, At, Sound, HasEvent
  <2>2. recorded[req[r].ev] \in Reply
    BY <1>0, <1>8, <2>1 DEF Duplicate, DataOK
  <2>3. answers' \in [Events -> SUBSET Reply]
    BY <1>0, <1>8, <2>1, <2>2 DEF Duplicate, Replied, DataOK
  <2> QED
    BY <1>0, <1>8, <2>3 DEF Duplicate, DataOK, database
<1>9. CASE Look(r)
  <2>1. excused' \subseteq Events \cup {None}
    BY <1>0, <1>9 DEF Look, DataOK, Request
  <2> QED
    BY <1>0, <1>9, <2>1 DEF Look, DataOK, database
<1>10. CASE Check(r)
  <2>1. messy' \in BOOLEAN
    BY <1>0, <1>10 DEF Check, DataOK
  <2> QED
    BY <1>0, <1>10, <2>1 DEF Check, DataOK, database
<1>11. CASE Read(r)
  <2>1. req[r].s \in Ids /\ req[r].ev \in Events \cup {None}
    BY <1>0, <1>11 DEF Read, At, Sound, HasSession, Turning, Request
  <2>2. turns[req[r].s] + 1 \in Nat
    BY <1>0, <2>1 DEF DataOK
  <2>3. transcript' \in [Ids -> Seq(Segment)]
    BY <1>0, <1>11, <2>1, <2>2, SaidIsTyped DEF Read
  <2> QED
    BY <1>0, <1>11, <2>3 DEF Read, DataOK, history
<1>12. CASE Decide(r)
  <2>1. req[r].s \in Ids /\ req[r].turn \in Nat
    BY <1>0, <1>12 DEF Decide, At, Sound, HasSession, Turning, Request
  <2>2. transcript' \in [Ids -> Seq(Segment)]
    BY <1>0, <1>12, <2>1, SaidIsTyped DEF Decide
  <2> QED
    BY <1>0, <1>12, <2>2 DEF Decide, DataOK, history
<1>13. CASE DecideFails(r)
  BY <1>0, <1>13 DEF DecideFails, DataOK, database, Request
<1>14. CASE Count(r)
  BY <1>0, <1>14 DEF Count, DataOK, history, Request
<1>15. CASE Complete(r)
  BY <1>0, <1>15 DEF Complete, At, Sound, HasSession, Turning, DataOK, history
<1>16. CASE Record(r)
  <2>1. req[r].ev \in Events /\ req[r].reply \in Reply
    BY <1>0, <1>16 DEF Record, At, Sound, HasEvent, HasReply, Turning, Replying
  <2>2. recorded' \in [Events -> Reply \cup {None}]
    BY <1>0, <1>16, <2>1 DEF Record, DataOK
  <2>3. Final(req[r].ev, req[r].reply) \in Reply
    BY <1>0, <2>1 DEF Final, DataOK
  <2>4. answers' \in [Events -> SUBSET Reply]
    BY <1>0, <1>16, <2>1, <2>3 DEF Record, Replied, DataOK
  <2> QED
    BY <1>0, <1>16, <2>2, <2>4 DEF Record, DataOK
<1> QED
  BY <1>1, <1>2, <1>3, <1>4, <1>5, <1>6, <1>7, <1>8, <1>9, <1>10, <1>11, <1>12, <1>13,
     <1>14, <1>15, <1>16 DEF StepOf, Begin, Submit

LEMMA InitRequest == Init => RequestInv
<1> SUFFICES ASSUME Init  PROVE  RequestInv
  OBVIOUS
<1>1. \A r \in Requests : req[r] = Idle
  BY DEF Init
<1>2. req \in [Requests -> Request] /\ RequestsHold
  BY <1>1, IdleSound DEF Init, RequestsHold, Sound
<1>3. <<>> \in Seq(Segment)
  OBVIOUS
<1>4. transcript \in [Ids -> Seq(Segment)]
  BY <1>3 DEF Init
<1>5. turns \in [Ids -> Nat] /\ crashes \in 0..MaxCrashes
  BY ChannelAssumption DEF Init
<1>6. recorded \in [Events -> Reply \cup {None}] /\ answers \in [Events -> SUBSET Reply]
  BY DEF Init
<1>7. DataOK
  BY <1>4, <1>5, <1>6 DEF Init, DataOK
<1> QED
  BY <1>2, <1>7, DataAndRequests DEF RequestInv

(* The death of the service leaves the types. *)
LEMMA CrashKeepsRequests ==
  ASSUME RequestInv, Crash  PROVE  RequestInv'
<1>0. DataOK /\ req \in [Requests -> Request] /\ RequestsHold
  BY DataAndRequests DEF RequestInv
<1>1. \A r \in Requests : req'[r] = Idle
  BY DEF Crash
<1>2. req' \in [Requests -> Request]
  BY IdleSound DEF Crash, Sound
<1>3. RequestsHold'
  BY <1>1, IdleSound DEF RequestsHold, Sound, HasEvent, HasReply, HasSession
<1>4. crashes' \in 0..MaxCrashes
  BY <1>0, ChannelAssumption DEF Crash, DataOK
<1>5. excused' \subseteq Events \cup {None}
  BY <1>0 DEF Crash, DataOK, Request
<1>6. messy' \in BOOLEAN
  BY <1>0 DEF Crash, DataOK
<1>7. strays' \subseteq Ids
  BY <1>0 DEF Crash, DataOK, RequestsHold, HasSession, Holding
<1>8. DataOK'
  BY <1>0, <1>4, <1>5, <1>6, <1>7 DEF Crash, DataOK, database
<1>9. TypeOK'
  BY <1>2, <1>8 DEF TypeOK, DataOK, Request
<1> QED
  BY <1>3, <1>9 DEF RequestInv

LEMMA RequestStep == RequestInv /\ [Next]_vars => RequestInv'
<1> SUFFICES ASSUME RequestInv, [Next]_vars  PROVE  RequestInv'
  OBVIOUS
<1>1. CASE UNCHANGED vars
  BY <1>1 DEF RequestInv, TypeOK, RequestsHold, HasEvent, HasReply, HasSession,
     vars, database, history
<1>2. CASE Crash
  BY <1>2, CrashKeepsRequests
<1>3. ASSUME NEW r \in Requests, StepOf(r)  PROVE  RequestInv'
  <2>1. PICK q : Moves(r, q) /\ Sound(q)
    BY <1>3, StepSound DEF StepOf
  <2>2. req' \in [Requests -> Request] /\ RequestsHold'
    BY <2>1, RequestMoves
  <2>3. DataOK'
    BY <1>3, StepKeepsData
  <2>4. TypeOK'
    BY <2>2, <2>3 DEF TypeOK, DataOK, Request
  <2> QED
    BY <2>2, <2>4 DEF RequestInv
<1> QED
  BY <1>1, <1>2, <1>3 DEF Next, StepOf

LEMMA RequestAlways == Spec => []RequestInv
  BY InitRequest, RequestStep, PTL DEF Spec

(* The channel keeps its types.  ChannelInterview: TypeOK.                 *)
THEOREM TypeCorrect == Spec => []TypeOK
<1>1. RequestInv => TypeOK
  BY DEF RequestInv
<1> QED
  BY <1>1, RequestAlways, PTL

-----------------------------------------------------------------------------
(* One answer per event.  Only Duplicate and Record answer, and both       *)
(* answer what is, from then on, stored: a stored reply stays.             *)
NewAnswer(e, reply) ==
  /\ answers' = [answers EXCEPT ![e] = @ \cup {reply}]
  /\ recorded' \in [Events -> Reply \cup {None}]
  /\ recorded'[e] = reply /\ reply # None
  /\ recorded[e] \in {None, reply}
  /\ \A f \in Events \ {e} : recorded'[f] = recorded[f]

LEMMA NewAnswerStored ==
  ASSUME NEW e \in Events, NEW reply, TypeOK, AnswersStored, NewAnswer(e, reply)
  PROVE  AnswersStored'
<1>1. answers \in [Events -> SUBSET Reply]
  BY DEF TypeOK
<1>2. answers'[e] = answers[e] \cup {reply}
  BY <1>1 DEF NewAnswer
<1>3. answers[e] \subseteq {reply}
  BY DEF AnswersStored, NewAnswer
<1>4. \A f \in Events \ {e} : answers'[f] = answers[f] /\ recorded'[f] = recorded[f]
  BY <1>1 DEF NewAnswer
<1>5. recorded'[e] = reply /\ reply # None
  BY DEF NewAnswer
<1> QED
  BY <1>2, <1>3, <1>4, <1>5 DEF AnswersStored

LEMMA AnswersStep ==
  ASSUME RequestInv, AnswersStored, [Next]_vars  PROVE  AnswersStored'
<1>0. TypeOK /\ DataOK
  BY DataAndRequests DEF RequestInv
<1>1. CASE UNCHANGED <<answers, recorded>>
  BY <1>1 DEF AnswersStored
<1>2. ASSUME NEW r \in Requests, Duplicate(r)  PROVE  AnswersStored'
  <2>1. req[r].ev \in Events
    BY <1>2 DEF RequestInv, RequestsHold, HasEvent, Duplicate, At
  <2>2. recorded \in [Events -> Reply \cup {None}] /\ recorded' = recorded
    BY <1>0, <1>2 DEF DataOK, Duplicate, database
  <2>3. NewAnswer(req[r].ev, recorded[req[r].ev])
    BY <1>2, <2>1, <2>2 DEF NewAnswer, Duplicate, Replied
  <2> QED
    BY <1>0, <2>1, <2>3, NewAnswerStored
<1>3. ASSUME NEW r \in Requests, Record(r)  PROVE  AnswersStored'
  <2> DEFINE e == req[r].ev
             reply == req[r].reply
  <2>1. e \in Events /\ reply \in Reply
    BY <1>3 DEF RequestInv, RequestsHold, HasEvent, HasReply, Record, At, Turning, Replying
  <2>2. reply # None
    BY <2>1, ChannelAssumption DEF Reply
  <2>3. /\ recorded' = IF recorded[e] = None THEN [recorded EXCEPT ![e] = reply] ELSE recorded
        /\ answers' = [answers EXCEPT ![e] = @ \cup {Final(e, reply)}]
    BY <1>3 DEF Record, Replied
  <2>4. recorded \in [Events -> Reply \cup {None}]
    BY <1>0 DEF DataOK
  <2> HIDE DEF e, reply
  <2>5. NewAnswer(e, Final(e, reply))
    <3>1. CASE recorded[e] = None
      BY <2>1, <2>2, <2>3, <2>4, <3>1 DEF NewAnswer, Final
    <3>2. CASE recorded[e] # None
      BY <2>1, <2>2, <2>3, <2>4, <3>2 DEF NewAnswer, Final
    <3> QED
      BY <3>1, <3>2
  <2> QED
    BY <1>0, <2>1, <2>5, NewAnswerStored
<1>4. ASSUME NEW r \in Requests, StepOf(r)  PROVE  AnswersStored'
  <2>1. CASE Duplicate(r) \/ Record(r)
    BY <1>2, <1>3, <2>1
  <2>2. CASE Inbound(r) \/ StartCall(r) \/ \E e \in Events : Turn(r, e) \/ Message(r, e)
    BY <1>1, <2>2 DEF Inbound, StartCall, Turn, Message, AskToStart, AskToTake,
       database, history
  <2>3. CASE Begin(r)
    BY <1>1, <2>3 DEF Begin, Resume, Create, Opened, OpeningFails, Bind, BindLost, Delete,
       database, history
  <2>4. CASE Look(r) \/ Check(r) \/ Read(r) \/ Decide(r) \/ DecideFails(r) \/ Count(r)
             \/ Complete(r)
    BY <1>1, <2>4 DEF Look, Check, Read, Decide, DecideFails, Count, Complete,
       database, history
  <2> QED
    BY <1>4, <2>1, <2>2, <2>3, <2>4 DEF StepOf, Submit
<1>5. CASE Crash \/ UNCHANGED vars
  BY <1>1, <1>5 DEF Crash, vars, database, history
<1> QED
  BY <1>4, <1>5 DEF Next, StepOf

LEMMA AnswersAlways == Spec => []AnswersStored
<1>1. Init => AnswersStored
  BY DEF Init, AnswersStored
<1>2. RequestInv /\ AnswersStored /\ [Next]_vars => AnswersStored'
  BY AnswersStep
<1> QED
  BY <1>1, <1>2, RequestAlways, PTL DEF Spec

LEMMA StoredIsSame == AnswersStored => SameAnswer
<1> SUFFICES ASSUME AnswersStored, NEW e \in Events
             PROVE  Cardinality(answers[e]) <= 1
  BY DEF SameAnswer
<1>1. answers[e] \subseteq {recorded[e]}
  BY DEF AnswersStored
<1>2. IsFiniteSet({recorded[e]}) /\ Cardinality({recorded[e]}) = 1
  BY FS_Singleton
<1>3. Cardinality(answers[e]) <= Cardinality({recorded[e]})
  BY <1>1, <1>2, FS_Subset
<1> QED
  BY <1>2, <1>3

(* However many deliveries of an event race, fail or come after a crash,   *)
(* those that are answered are answered alike.                             *)
(* ChannelInterview: SameAnswer.                                           *)
THEOREM AnsweredAlike == Spec => []SameAnswer
  BY AnswersAlways, StoredIsSame, PTL

-----------------------------------------------------------------------------
(* One interview, with its question.  What a step makes of the place and   *)
(* the session of its request; the other requests stay.                    *)
Becomes(r, pc, s) ==
  /\ req'[r].pc = pc /\ req'[r].s = s
  /\ \A p \in Requests \ {r} : req'[p] = req[p]

LEMMA GotoBecomes ==
  ASSUME NEW r \in Requests, NEW pc, RequestInv, Goto(r, pc)
  PROVE  Becomes(r, pc, req[r].s)
<1>1. req \in [Requests -> Request]
  BY DataAndRequests DEF RequestInv
<1> QED
  BY <1>1 DEF Becomes, Goto, Request

LEMMA ReturnBecomes ==
  ASSUME NEW r \in Requests, RequestInv, Return(r)
  PROVE  Becomes(r, "none", None)
<1>1. req \in [Requests -> Request]
  BY DataAndRequests DEF RequestInv
<1> QED
  BY <1>1 DEF Becomes, Return, Idle

(* A step of a request that starts no session: the sessions stay, and it   *)
(* has the candidate's or none.                                            *)
LEMMA OutsideStart ==
  ASSUME NEW r \in Requests, NEW pc \in Pcs \ Holding, NEW s \in {None, bound},
         RequestInv, SessionInv, Becomes(r, pc, s),
         req[r].pc \notin Holding,
         pc \in Turning => s = bound,
         UNCHANGED <<bound, rows, strays>>,
         \A x \in Ids \ {bound} : transcript'[x] = transcript[x],
         bound # None => /\ transcript'[bound] # <<>>
                         /\ transcript'[bound][1].speaker = "ai"
  PROVE  SessionInv'
<1>0. /\ rows \subseteq Ids /\ None \notin Ids
      /\ \A p \in Requests : req[p].pc \in Holding => req[p].s \in Ids
      /\ req[r].pc \in Pcs
  BY ChannelAssumption DEF RequestInv, TypeOK, RequestsHold, HasSession
<1>1. TurnsOfBound'
  BY DEF SessionInv, TurnsOfBound, Becomes
<1>2. StartsApart'
  BY DEF SessionInv, StartsApart, Becomes
<1>3. \A p \in Requests : req'[p].pc \in Holding =>
        p # r /\ req'[p] = req[p] /\ req[p].s \in Ids \ {bound}
  BY <1>0 DEF SessionInv, StartsApart, Becomes
<1>4. StartsSpoken'
  <2> SUFFICES ASSUME NEW p \in Requests, req'[p].pc \in {"opening", "binding"}
               PROVE  /\ req'[p].pc = "opening" => transcript'[req'[p].s] = <<>>
                      /\ req'[p].pc = "binding" => /\ transcript'[req'[p].s] # <<>>
                                                   /\ transcript'[req'[p].s][1].speaker = "ai"
    BY DEF StartsSpoken
  <2>1. req'[p] = req[p] /\ transcript'[req[p].s] = transcript[req[p].s]
    BY <1>3 DEF Holding
  <2> QED
    BY <2>1 DEF SessionInv, StartsSpoken
<1>5. BoundHasQuestion'
  BY DEF SessionInv, BoundHasQuestion
<1>6. req[r].s \in {None, bound}
  <2>1. req[r].pc \in Free \cup Turning
    BY <1>0 DEF Pcs, Starting, Turning, Holding, Free
  <2> QED
    BY <2>1 DEF SessionInv, TurnsOfBound, RequestInv, RequestsHold, HasSession
<1>7. NoStrayInterview'
  BY <1>0, <1>6 DEF SessionInv, NoStrayInterview, Becomes
<1> QED
  BY <1>1, <1>2, <1>4, <1>5, <1>7 DEF SessionInv

OutsideStep(r) ==
  \/ Inbound(r) \/ StartCall(r) \/ (\E e \in Events : Turn(r, e) \/ Message(r, e))
  \/ Resume(r) \/ Submit(r)

LEMMA OutsideStepKeeps ==
  ASSUME NEW r \in Requests, RequestInv, SessionInv, OutsideStep(r)
  PROVE  SessionInv'
<1>0. /\ req \in [Requests -> Request] /\ transcript \in [Ids -> Seq(Segment)]
      /\ bound \in Ids \cup {None} /\ None \notin Ids
  BY DataAndRequests, ChannelAssumption DEF RequestInv, DataOK
<1>1. /\ req[r].pc \in Free => req[r].s = None
      /\ req[r].pc \in Turning => req[r].s = bound /\ bound \in Ids
  BY DEF RequestInv, RequestsHold, HasSession, SessionInv, TurnsOfBound
<1>2. bound # None => /\ transcript[bound] # <<>>
                      /\ transcript[bound][1].speaker = "ai"
  BY DEF SessionInv, BoundHasQuestion
<1>3. ASSUME NEW pc \in Pcs \ Holding, NEW s \in {None, bound}, Becomes(r, pc, s),
             req[r].pc \notin Holding, pc \in Turning => s = bound,
             UNCHANGED <<bound, rows, strays, transcript>>
      PROVE  SessionInv'
  BY <1>2, <1>3, OutsideStart
(* What is said in a turn is appended to the candidate's session. *)
<1>4. ASSUME NEW speaker, NEW turn, NEW ev, NEW pc \in Turning,
             req[r].pc \in Turning, Say(req[r].s, speaker, turn, ev),
             Becomes(r, pc, req[r].s), UNCHANGED <<bound, rows, strays>>
      PROVE  SessionInv'
  <2> DEFINE segment == [speaker |-> speaker, turn |-> turn, ev |-> ev]
  <2>1. req[r].s = bound /\ bound \in Ids /\ bound # None
    BY <1>0, <1>1, <1>4
  <2>2. transcript' = [transcript EXCEPT ![bound] = Append(transcript[bound], segment)]
    BY <1>0, <1>4, <2>1 DEF Say
  <2> HIDE DEF segment
  <2>3. transcript[bound] \in Seq(Segment) /\ transcript[bound] # <<>>
    BY <1>0, <1>2, <2>1
  <2>4. /\ transcript'[bound] = Append(transcript[bound], segment)
        /\ \A x \in Ids \ {bound} : transcript'[x] = transcript[x]
    BY <1>0, <2>1, <2>2
  <2>5. /\ Append(transcript[bound], segment) # <<>>
        /\ Append(transcript[bound], segment)[1] = transcript[bound][1]
    <3>1. Len(transcript[bound]) \in Nat \ {0}
      BY <2>3
    <3> QED
      BY <2>3, <3>1
  <2>6. transcript'[bound] # <<>> /\ transcript'[bound][1].speaker = "ai"
    BY <1>2, <2>1, <2>4, <2>5
  <2>7. pc \in Pcs \ Holding /\ req[r].pc \notin Holding
    BY <1>4 DEF Pcs, Starting, Turning, Holding, Free, Replying
  <2> QED
    BY <1>4, <2>1, <2>4, <2>6, <2>7, OutsideStart
<1>5. ASSUME NEW e, AskToStart(r, e) \/ AskToTake(r, e)  PROVE  SessionInv'
  <2>1. PICK pc \in {"finding", "looking"} : Becomes(r, pc, None)
    BY <1>0, <1>1, <1>5 DEF AskToStart, AskToTake, At, Becomes, Request, Free
  <2> QED
    BY <1>3, <1>5, <2>1 DEF AskToStart, AskToTake, At, database, history,
       Pcs, Starting, Turning, Holding, Free, Replying
<1>6. ASSUME Return(r), req[r].pc \notin Holding,
             UNCHANGED <<bound, rows, strays, transcript>>
      PROVE  SessionInv'
  <2>1. Becomes(r, "none", None)
    BY <1>6, ReturnBecomes
  <2> QED
    BY <1>3, <1>6, <2>1 DEF Pcs, Starting, Turning, Holding, Free, Replying
<1>7. ASSUME NEW pc \in Pcs \ Holding, Goto(r, pc), req[r].pc \in Free \cup Turning,
             pc \in Turning => req[r].pc \in Turning,
             UNCHANGED <<bound, rows, strays, transcript>>
      PROVE  SessionInv'
  <2>1. Becomes(r, pc, req[r].s)
    BY <1>7, GotoBecomes
  <2> QED
    BY <1>1, <1>3, <1>7, <2>1 DEF Pcs, Starting, Turning, Holding, Free, Replying
<1>8. CASE Inbound(r) \/ StartCall(r) \/ \E e \in Events : Turn(r, e) \/ Message(r, e)
  BY <1>5, <1>8 DEF Inbound, StartCall, Turn, Message
<1>9. CASE Resume(r)
  BY <1>6, <1>7, <1>9 DEF Resume, At, database, history,
     Pcs, Starting, Turning, Holding, Free, Replying
<1>10. CASE Duplicate(r)
  BY <1>6, <1>10 DEF Duplicate, At, database,
     Pcs, Starting, Turning, Holding, Free, Replying
<1>11. CASE Look(r)
  BY <1>7, <1>11 DEF Look, At, database, Pcs, Starting, Turning, Holding, Free, Replying
<1>12. CASE Check(r)
  <2>1. CASE ~Open
    BY <1>6, <1>12, <2>1 DEF Check, At, database,
       Pcs, Starting, Turning, Holding, Free, Replying
  <2>2. CASE Open
    <3>1. Becomes(r, "reading", bound)
      BY <1>0, <1>12, <2>2 DEF Check, Becomes, Request
    <3> QED
      BY <1>3, <1>12, <3>1 DEF Check, At, database,
         Pcs, Starting, Turning, Holding, Free, Replying
  <2> QED
    BY <2>1, <2>2
<1>13. CASE Read(r)
  <2>1. Becomes(r, "deciding", req[r].s)
    BY <1>0, <1>13 DEF Read, Becomes, Request
  <2> QED
    BY <1>4, <1>13, <2>1 DEF Read, At, history,
       Pcs, Starting, Turning, Holding, Free, Replying
<1>14. CASE Decide(r)
  <2>1. Becomes(r, "counting", req[r].s)
    BY <1>0, <1>14 DEF Decide, Becomes, Request
  <2> QED
    BY <1>4, <1>14, <2>1 DEF Decide, At, history,
       Pcs, Starting, Turning, Holding, Free, Replying
<1>15. CASE DecideFails(r) \/ Record(r)
  BY <1>6, <1>15 DEF DecideFails, Record, At, database,
     Pcs, Starting, Turning, Holding, Free, Replying
<1>16. CASE Count(r) \/ Complete(r)
  <2>1. PICK pc \in {"completing", "recording"} : Goto(r, pc)
    BY <1>16 DEF Count, Complete
  <2> QED
    BY <1>7, <1>16, <2>1 DEF Count, Complete, At, history,
       Pcs, Starting, Turning, Holding, Free, Replying
<1> QED
  BY <1>8, <1>9, <1>10, <1>11, <1>12, <1>13, <1>14, <1>15, <1>16 DEF OutsideStep, Submit

(* A start: its session is its own until it is bound, lost or left behind. *)
LEMMA StartKeeps ==
  ASSUME NEW r \in Requests, RequestInv, SessionInv,
         Create(r) \/ Opened(r) \/ OpeningFails(r) \/ Bind(r) \/ BindLost(r) \/ Delete(r)
  PROVE  SessionInv'
<1>0. /\ req \in [Requests -> Request] /\ transcript \in [Ids -> Seq(Segment)]
      /\ bound \in Ids \cup {None} /\ rows \subseteq Ids /\ None \notin Ids
  BY DataAndRequests, ChannelAssumption DEF RequestInv, DataOK
<1>1. \A p \in Requests :
        /\ req[p].pc \in Free => req[p].s = None
        /\ req[p].pc \in Turning => req[p].s = bound /\ bound \in Ids
        /\ req[p].pc \in Holding => /\ req[p].s \in rows \ {bound}
                                    /\ req[p].s \in Ids
  BY DEF RequestInv, RequestsHold, HasSession, SessionInv, TurnsOfBound, StartsApart
<1>2. /\ bound # None => /\ bound \in rows /\ transcript[bound] # <<>>
                         /\ transcript[bound][1].speaker = "ai"
      /\ rows \subseteq {bound} \cup strays \cup {req[p].s : p \in Requests}
  BY DEF SessionInv, BoundHasQuestion, NoStrayInterview
<1>3. \A p \in Requests :
        /\ req[p].pc = "opening" => transcript[req[p].s] = <<>>
        /\ req[p].pc = "binding" => /\ transcript[req[p].s] # <<>>
                                    /\ transcript[req[p].s][1].speaker = "ai"
  BY DEF SessionInv, StartsSpoken
<1>4. \A p, q \in Requests :
        p # q /\ req[p].pc \in Holding /\ req[q].pc \in Holding => req[q].s # req[p].s
  BY DEF SessionInv, StartsApart
<1> USE DEF Holding, Free, Turning
<1>5. CASE Create(r)
  <2>1. PICK s \in Ids \ rows :
          /\ transcript[s] = <<>> /\ \A q \in Requests : req[q].s # s
          /\ rows' = rows \cup {s}
          /\ req' = [req EXCEPT ![r].pc = "opening", ![r].s = s]
    BY <1>5 DEF Create
  <2>2. Becomes(r, "opening", s)
    BY <1>0, <2>1 DEF Becomes, Request
  <2>3. /\ req[r].s = None /\ bound = None /\ bound' = None
        /\ transcript' = transcript /\ strays' = strays
    BY <1>1, <1>5 DEF Create, At, history
  <2>4. TurnsOfBound'
    BY <1>1, <2>2, <2>3 DEF TurnsOfBound, Becomes
  <2>5. StartsApart'
    BY <1>0, <1>1, <1>4, <2>1, <2>2, <2>3 DEF StartsApart, Becomes
  <2>6. StartsSpoken'
    <3>1. transcript'[req'[r].s] = <<>> /\ req'[r].pc # "binding"
      BY <2>1, <2>2, <2>3 DEF Becomes
    <3>2. \A p \in Requests \ {r} : req'[p] = req[p] /\ transcript' = transcript
      BY <2>2, <2>3 DEF Becomes
    <3> QED
      BY <1>3, <3>1, <3>2 DEF StartsSpoken
  <2>7. BoundHasQuestion'
    BY <2>3 DEF BoundHasQuestion
  <2>8. NoStrayInterview'
    BY <1>0, <1>2, <2>1, <2>2, <2>3 DEF NoStrayInterview, Becomes
  <2> QED
    BY <2>4, <2>5, <2>6, <2>7, <2>8 DEF SessionInv
<1>6. CASE Opened(r)
  <2> DEFINE s == req[r].s
             segment == [speaker |-> "ai", turn |-> 0, ev |-> None]
  <2>1. /\ s \in Ids /\ s # bound /\ transcript[s] = <<>>
        /\ transcript' = [transcript EXCEPT ![s] = Append(transcript[s], segment)]
        /\ UNCHANGED <<bound, rows, strays>>
    BY <1>0, <1>1, <1>3, <1>6 DEF Opened, At, Say, history
  <2>2. Becomes(r, "binding", s)
    BY <1>6, GotoBecomes DEF Opened
  <2>3. segment.speaker = "ai"
    OBVIOUS
  <2>4. req[r].pc = "opening"
    BY <1>6 DEF Opened, At
  <2> HIDE DEF segment
  <2>5. /\ transcript'[s] # <<>> /\ transcript'[s][1].speaker = "ai"
        /\ \A x \in Ids \ {s} : transcript'[x] = transcript[x]
    BY <1>0, <2>1, <2>3
  <2>6. TurnsOfBound' /\ StartsApart'
    BY <1>1, <1>4, <2>1, <2>2, <2>4 DEF TurnsOfBound, StartsApart, Becomes
  <2>7. StartsSpoken'
    <3>1. \A p \in Requests \ {r} : req[p].pc \in Holding =>
            req'[p] = req[p] /\ transcript'[req[p].s] = transcript[req[p].s]
      BY <1>1, <1>4, <2>2, <2>4, <2>5 DEF Becomes
    <3>2. \A p \in Requests \ {r} : req'[p] = req[p]
      BY <2>2 DEF Becomes
    <3> QED
      BY <1>3, <2>2, <2>5, <3>1, <3>2 DEF StartsSpoken, Becomes
  <2>8. BoundHasQuestion'
    BY <1>0, <1>2, <2>1, <2>5 DEF BoundHasQuestion
  <2>9. NoStrayInterview'
    BY <1>2, <2>1, <2>2 DEF NoStrayInterview, Becomes
  <2> QED
    BY <2>6, <2>7, <2>8, <2>9 DEF SessionInv
<1>7. CASE OpeningFails(r)
  <2>1. Becomes(r, "none", None)
    BY <1>7, ReturnBecomes DEF OpeningFails
  <2>2. UNCHANGED <<bound, rows, transcript>> /\ strays' = strays \cup {req[r].s}
    BY <1>7 DEF OpeningFails, database
  <2>3. TurnsOfBound' /\ StartsApart' /\ StartsSpoken'
    BY <1>1, <1>3, <1>4, <2>1, <2>2 DEF TurnsOfBound, StartsApart, StartsSpoken, Becomes
  <2>4. BoundHasQuestion' /\ NoStrayInterview'
    BY <1>2, <2>1, <2>2 DEF BoundHasQuestion, NoStrayInterview, Becomes
  <2> QED
    BY <2>3, <2>4 DEF SessionInv
<1>8. CASE Bind(r)
  <2>1. Becomes(r, "none", None)
    BY <1>8, ReturnBecomes DEF Bind
  <2>2. /\ req[r].pc = "binding" /\ bound = None /\ bound' = req[r].s
        /\ UNCHANGED <<rows, transcript, strays>>
    BY <1>8 DEF Bind, At, history
  <2>3. \A p \in Requests : req[p].pc \notin Turning
    BY <1>0, <1>1, <2>2
  <2>4. TurnsOfBound' /\ StartsApart' /\ StartsSpoken'
    BY <1>1, <1>3, <1>4, <2>1, <2>2, <2>3
       DEF TurnsOfBound, StartsApart, StartsSpoken, Becomes
  <2>5. BoundHasQuestion'
    BY <1>1, <1>3, <2>2 DEF BoundHasQuestion
  <2>6. NoStrayInterview'
    <3>1. \A x \in rows : x \in strays \cup {req[p].s : p \in Requests}
      BY <1>0, <1>2, <2>2
    <3>2. \A p \in Requests : req[p].s \in {bound'} \cup {req'[q].s : q \in Requests}
      BY <2>1, <2>2 DEF Becomes
    <3> QED
      BY <2>2, <3>1, <3>2 DEF NoStrayInterview
  <2> QED
    BY <2>4, <2>5, <2>6 DEF SessionInv
<1>9. CASE BindLost(r)
  <2>1. Becomes(r, "deleting", req[r].s)
    BY <1>9, GotoBecomes DEF BindLost
  <2>2. req[r].pc = "binding" /\ UNCHANGED <<bound, rows, transcript, strays>>
    BY <1>9 DEF BindLost, At, database, history
  <2>3. TurnsOfBound' /\ StartsApart' /\ StartsSpoken'
    BY <1>1, <1>3, <1>4, <2>1, <2>2 DEF TurnsOfBound, StartsApart, StartsSpoken, Becomes
  <2>4. BoundHasQuestion' /\ NoStrayInterview'
    BY <1>2, <2>1, <2>2 DEF BoundHasQuestion, NoStrayInterview, Becomes
  <2> QED
    BY <2>3, <2>4 DEF SessionInv
<1>10. CASE Delete(r)
  <2> DEFINE s == req[r].s
  <2>1. Becomes(r, "none", None)
    BY <1>10, ReturnBecomes DEF Delete
  <2>2. /\ req[r].pc = "deleting" /\ rows' = rows \ {s}
        /\ transcript' = [transcript EXCEPT ![s] = <<>>]
        /\ UNCHANGED <<bound, strays>>
    BY <1>10 DEF Delete, At, history
  <2>3. s \in Ids /\ s # bound /\ \A x \in Ids \ {s} : transcript'[x] = transcript[x]
    BY <1>0, <1>1, <2>2
  <2>4. \A p \in Requests \ {r} : req'[p] = req[p] /\ req[p].pc \in Holding => req[p].s # s
    BY <1>4, <2>1, <2>2 DEF Becomes
  <2>5. TurnsOfBound'
    BY <1>1, <2>1, <2>2 DEF TurnsOfBound, Becomes
  <2>6. StartsApart'
    BY <1>1, <1>4, <2>1, <2>2, <2>4 DEF StartsApart, Becomes
  <2>7. StartsSpoken'
    <3>1. \A p \in Requests \ {r} : req[p].pc \in Holding =>
            transcript'[req[p].s] = transcript[req[p].s]
      BY <1>1, <2>1, <2>3, <2>4 DEF Becomes
    <3> QED
      BY <1>3, <2>1, <3>1 DEF StartsSpoken, Becomes
  <2>8. BoundHasQuestion'
    BY <1>0, <1>2, <2>2, <2>3 DEF BoundHasQuestion
  <2>9. NoStrayInterview'
    BY <1>2, <2>1, <2>2 DEF NoStrayInterview, Becomes
  <2> QED
    BY <2>5, <2>6, <2>7, <2>8, <2>9 DEF SessionInv
<1> QED
  BY <1>5, <1>6, <1>7, <1>8, <1>9, <1>10

(* Death: the starts under way become strays. *)
LEMMA CrashKeepsSessions ==
  ASSUME RequestInv, SessionInv, Crash  PROVE  SessionInv'
<1>1. \A p \in Requests : req'[p].pc = "none" /\ req'[p].s = None
  BY DEF Crash, Idle
<1>2. TurnsOfBound' /\ StartsApart' /\ StartsSpoken'
  BY <1>1 DEF TurnsOfBound, StartsApart, StartsSpoken, Turning, Holding
<1>3. BoundHasQuestion'
  BY DEF Crash, database, SessionInv, BoundHasQuestion
<1>4. NoStrayInterview'
  <2> SUFFICES ASSUME NEW x \in rows  PROVE  x \in {bound} \cup strays'
    BY DEF Crash, database, NoStrayInterview
  <2>1. x # None
    BY ChannelAssumption DEF RequestInv, TypeOK
  <2>2. CASE x \in {bound} \cup strays
    BY <2>2 DEF Crash
  <2>3. ASSUME NEW p \in Requests, x = req[p].s  PROVE  x \in {bound} \cup strays'
    <3>1. req[p].pc \in Free \cup Turning \cup Holding
      BY DataAndRequests DEF RequestInv, Request, Pcs, Starting, Turning, Free, Holding
    <3>2. req[p].pc \notin Free
      BY <2>1, <2>3 DEF RequestInv, RequestsHold, HasSession
    <3>3. req[p].pc \in Turning => x = bound
      BY <2>3 DEF SessionInv, TurnsOfBound
    <3>4. req[p].pc \in Holding => x \in strays'
      BY <2>3 DEF Crash, Holding
    <3> QED
      BY <3>1, <3>2, <3>3, <3>4
  <2> QED
    BY <2>2, <2>3 DEF SessionInv, NoStrayInterview
<1> QED
  BY <1>2, <1>3, <1>4 DEF SessionInv

LEMMA SessionStep ==
  ASSUME RequestInv, SessionInv, [Next]_vars  PROVE  SessionInv'
<1>1. CASE UNCHANGED vars
  BY <1>1 DEF SessionInv, TurnsOfBound, StartsApart, StartsSpoken, BoundHasQuestion,
     NoStrayInterview, vars, database, history
<1>2. CASE Crash
  BY <1>2, CrashKeepsSessions
<1>3. ASSUME NEW r \in Requests, StepOf(r)  PROVE  SessionInv'
  BY <1>3, OutsideStepKeeps, StartKeeps DEF StepOf, OutsideStep, Begin
<1> QED
  BY <1>1, <1>2, <1>3 DEF Next, StepOf

LEMMA InitSession == Init => SessionInv
  BY DEF Init, Idle, SessionInv, TurnsOfBound, StartsApart, StartsSpoken,
     BoundHasQuestion, NoStrayInterview, Turning, Holding

(* From the first contact on the candidate has one interview, whose        *)
(* question is there to be asked; of racing first contacts no other is     *)
(* left, save where a start broke off.  ChannelInterview: OneInterview.    *)
THEOREM OneInterviewAlways == Spec => []OneInterview
<1>1. RequestInv /\ SessionInv /\ [Next]_vars => SessionInv'
  BY SessionStep
<1>2. SessionInv => OneInterview
  BY DEF SessionInv, OneInterview
<1> QED
  BY <1>1, <1>2, InitSession, RequestAlways, PTL DEF Spec

-----------------------------------------------------------------------------
(* What was answered stands.  The candidate's transcript only grows, and a *)
(* request holds on to what it said, and then to the reply to it.          *)
Extends(old, new) ==
  Len(old) <= Len(new) /\ \A i \in 1..Len(old) : new[i] = old[i]
Onward ==
  bound # None => /\ bound' = bound /\ complete \subseteq complete'
                  /\ Extends(transcript[bound], transcript'[bound])

Spoken(t, turn, e) == \E i \in 1..Len(t) : t[i] = Words(turn, e)
Held(q) ==
  /\ q.pc = "deciding" => Spoken(transcript[bound], q.turn, q.ev)
  /\ q.pc \in Replying => Told(transcript[bound], q.ev, q.reply)
  /\ q.pc = "recording" /\ q.reply.complete => bound \in complete
RepliesInv ==
  /\ \A r \in Requests : Held(req[r])
  /\ \A e \in Events : recorded[e] # None => Stands(e, recorded[e])

LEMMA Lengths == \A t \in Seq(Segment) : Len(t) \in Nat
  OBVIOUS

LEMMA SayExtends ==
  ASSUME NEW old \in Seq(Segment), NEW x
  PROVE  /\ Extends(old, Append(old, x))
         /\ Len(Append(old, x)) = Len(old) + 1
         /\ Append(old, x)[Len(old) + 1] = x
  BY DEF Extends

LEMMA ExtendedKeeps ==
  ASSUME NEW old \in Seq(Segment), NEW new \in Seq(Segment), Extends(old, new)
  PROVE  /\ \A turn, e : Spoken(old, turn, e) => Spoken(new, turn, e)
         /\ \A e : \A reply \in Reply : Told(old, e, reply) => Told(new, e, reply)
<1>0. Len(old) \in Nat /\ Len(new) \in Nat /\ Len(old) <= Len(new)
      /\ \A i \in 1..Len(old) : i \in 1..Len(new) /\ new[i] = old[i]
  BY Lengths DEF Extends
<1>1. ASSUME NEW turn, NEW e, Spoken(old, turn, e)  PROVE  Spoken(new, turn, e)
  BY <1>0, <1>1 DEF Spoken
<1>2. ASSUME NEW e, NEW reply \in Reply, Told(old, e, reply)  PROVE  Told(new, e, reply)
  <2>1. reply.at \in 1..Len(old) /\ old[reply.at].speaker = "ai"
    BY <1>2 DEF Told
  <2>2. PICK i \in 1..(reply.at - 1) : old[i] = Words(old[reply.at].turn, e)
    BY <1>2 DEF Told
  <2>3. i \in 1..Len(old)
    BY <1>0, <2>1, <2>2
  <2>4. new[i] = Words(new[reply.at].turn, e)
    BY <1>0, <2>1, <2>2, <2>3
  <2> QED
    BY <1>0, <2>1, <2>4 DEF Told
<1> QED
  BY <1>1, <1>2

LEMMA OnwardStep ==
  ASSUME RequestInv, SessionInv, [Next]_vars  PROVE  Onward
<1> SUFFICES ASSUME bound # None
             PROVE  /\ bound' = bound /\ complete \subseteq complete'
                    /\ Extends(transcript[bound], transcript'[bound])
  BY DEF Onward
<1>0. /\ transcript \in [Ids -> Seq(Segment)] /\ bound \in Ids
      /\ transcript[bound] \in Seq(Segment) /\ Len(transcript[bound]) \in Nat
  BY DataAndRequests, Lengths DEF RequestInv, DataOK
<1>1. Extends(transcript[bound], transcript[bound])
  BY <1>0 DEF Extends
<1>2. \A r \in Requests : req[r].pc \in Holding => req[r].s # bound
  BY DEF SessionInv, StartsApart
<1>3. ASSUME NEW s \in Ids, NEW new, transcript' = [transcript EXCEPT ![s] = new], s # bound
      PROVE  transcript'[bound] = transcript[bound]
  BY <1>0, <1>3
<1>4. ASSUME NEW r \in Requests, NEW speaker, NEW turn, NEW ev,
             Say(req[r].s, speaker, turn, ev)
      PROVE  Extends(transcript[bound], transcript'[bound])
  <2> DEFINE s == req[r].s
             segment == [speaker |-> speaker, turn |-> turn, ev |-> ev]
  <2>1. transcript' = [transcript EXCEPT ![s] = Append(transcript[s], segment)]
    BY <1>4 DEF Say
  <2> HIDE DEF segment
  <2>2. transcript'[bound] \in {transcript[bound], Append(transcript[bound], segment)}
    BY <1>0, <2>1
  <2> QED
    BY <1>0, <1>1, <2>2, SayExtends
<1>5. ASSUME NEW r \in Requests, StepOf(r)
      PROVE  /\ bound' = bound /\ complete \subseteq complete'
             /\ Extends(transcript[bound], transcript'[bound])
  <2>1. CASE \/ Inbound(r) \/ StartCall(r) \/ (\E e \in Events : Turn(r, e) \/ Message(r, e))
             \/ Resume(r) \/ Create(r) \/ OpeningFails(r) \/ Bind(r) \/ BindLost(r)
             \/ Duplicate(r) \/ Look(r) \/ Check(r) \/ DecideFails(r) \/ Count(r)
             \/ Complete(r) \/ Record(r)
    <3>1. /\ bound' = bound /\ complete \subseteq complete' /\ transcript' = transcript
      BY <2>1 DEF Inbound, StartCall, Turn, Message, AskToStart, AskToTake, Resume, Create,
         OpeningFails, Bind, BindLost, Duplicate, Look, Check, DecideFails, Count, Complete,
         Record, database
    <3> QED
      BY <1>1, <3>1
  <2>2. CASE Opened(r) \/ Read(r) \/ Decide(r)
    BY <1>4, <2>2 DEF Opened, Read, Decide
  <2>3. CASE Delete(r)
    <3>1. /\ req[r].s \in Ids \ {bound} /\ bound' = bound /\ complete' = complete
          /\ transcript' = [transcript EXCEPT ![req[r].s] = <<>>]
      BY <1>2, <2>3 DEF Delete, At, Holding, RequestInv, RequestsHold, HasSession
    <3> QED
      BY <1>1, <1>3, <3>1
  <2> QED
    BY <1>5, <2>1, <2>2, <2>3 DEF StepOf, Begin, Submit
<1>6. CASE Crash \/ UNCHANGED vars
  BY <1>1, <1>6 DEF Crash, vars, database
<1> QED
  BY <1>5, <1>6 DEF Next, StepOf

(* What is held or stored goes on to hold when the transcript grows.       *)
LEMMA HeldStays ==
  ASSUME RequestInv, RequestInv', SessionInv, Onward,
         NEW r \in Requests, Held(req[r]), req'[r] = req[r]
  PROVE  Held(req[r])'
<1>1. CASE req[r].pc \in Turning
  <2>1. bound \in Ids /\ bound # None
    BY <1>1, ChannelAssumption DEF SessionInv, TurnsOfBound, RequestInv, RequestsHold, HasSession
  <2>2. bound' = bound /\ complete \subseteq complete'
        /\ Extends(transcript[bound], transcript'[bound])
    BY <2>1 DEF Onward
  <2>3. transcript[bound] \in Seq(Segment) /\ transcript'[bound] \in Seq(Segment)
    BY <2>1, <2>2 DEF RequestInv, TypeOK
  <2>4. req[r].pc \in Replying => req[r].reply \in Reply
    BY DEF RequestInv, RequestsHold, HasReply
  <2>5. /\ Spoken(transcript[bound], req[r].turn, req[r].ev)
             => Spoken(transcript'[bound], req[r].turn, req[r].ev)
        /\ req[r].pc \in Replying /\ Told(transcript[bound], req[r].ev, req[r].reply)
             => Told(transcript'[bound], req[r].ev, req[r].reply)
    BY <2>2, <2>3, <2>4, ExtendedKeeps
  <2> QED
    BY <2>2, <2>5 DEF Held, Spoken, Told
<1>2. CASE req[r].pc \notin Turning
  BY <1>2 DEF Held, Turning, Replying
<1> QED
  BY <1>1, <1>2

LEMMA StandsStays ==
  ASSUME RequestInv, RequestInv', Onward,
         NEW e, NEW reply \in Reply, Stands(e, reply)
  PROVE  Stands(e, reply)'
<1>1. bound \in Ids /\ bound # None /\ bound' = bound /\ complete \subseteq complete'
      /\ Extends(transcript[bound], transcript'[bound])
  BY DEF Stands, Onward, RequestInv, TypeOK
<1>2. transcript[bound] \in Seq(Segment) /\ transcript'[bound] \in Seq(Segment)
  BY <1>1 DEF RequestInv, TypeOK
<1>3. Told(transcript'[bound], e, reply)
  BY <1>1, <1>2, ExtendedKeeps DEF Stands
<1> QED
  BY <1>1, <1>3 DEF Stands, Told

(* What the step of a turn leaves its request holding. *)
LEMMA TurnHeld ==
  ASSUME RequestInv, RequestInv', SessionInv, Onward, NEW r \in Requests, Held(req[r]),
         Read(r) \/ Decide(r) \/ Count(r) \/ Complete(r)
  PROVE  Held(req[r])'
<1>0. req \in [Requests -> Request] /\ req[r] \in Request
  BY DataAndRequests DEF RequestInv
<1>1. req[r].s = bound /\ bound \in Ids /\ bound # None
  BY ChannelAssumption DEF Read, Decide, Count, Complete, At, Turning, SessionInv, TurnsOfBound,
     RequestInv, RequestsHold, HasSession
<1> DEFINE t == transcript[bound]
           ev == req[r].ev
<1>2. bound' = bound /\ complete \subseteq complete' /\ Extends(t, transcript'[bound])
  BY <1>1 DEF Onward
<1>3. t \in Seq(Segment) /\ transcript'[bound] \in Seq(Segment) /\ Len(t) \in Nat
  BY <1>1, <1>2, Lengths DEF RequestInv, TypeOK
(* What is said is the last of the transcript. *)
<1>4. ASSUME NEW speaker, NEW turn, NEW e, Say(bound, speaker, turn, e)
      PROVE  /\ Len(transcript'[bound]) = Len(t) + 1
             /\ transcript'[bound][Len(t) + 1]
                  = [speaker |-> speaker, turn |-> turn, ev |-> e]
  <2> DEFINE segment == [speaker |-> speaker, turn |-> turn, ev |-> e]
  <2>1. transcript' = [transcript EXCEPT ![bound] = Append(t, segment)]
    BY <1>4 DEF Say
  <2> HIDE DEF segment, t
  <2>2. transcript'[bound] = Append(t, segment)
    BY <1>1, <2>1 DEF RequestInv, TypeOK
  <2>3. Len(transcript'[bound]) = Len(t) + 1 /\ transcript'[bound][Len(t) + 1] = segment
    BY <1>3, <2>2, SayExtends
  <2> QED
    BY <2>3 DEF segment
<1> HIDE DEF t
<1>5. CASE Read(r)
  <2> DEFINE n == turns[bound] + 1
  <2>1. Say(bound, "candidate", n, ev)
    BY <1>1, <1>5 DEF Read
  <2>2. req'[r].pc = "deciding" /\ req'[r].turn = n /\ req'[r].ev = ev
    BY <1>0, <1>1, <1>5 DEF Read, Request
  <2> HIDE DEF n, ev
  <2>3. transcript'[bound][Len(t) + 1] = Words(n, ev)
        /\ Len(transcript'[bound]) = Len(t) + 1
    BY <1>4, <2>1 DEF Words
  <2>4. Len(t) + 1 \in 1..Len(transcript'[bound])
    BY <1>3, <2>3
  <2>5. Spoken(transcript'[bound], n, ev)
    BY <2>3, <2>4 DEF Spoken
  <2> QED
    BY <1>2, <2>2, <2>5 DEF Held, Spoken, Words, Replying
<1>6. CASE Decide(r)
  <2> DEFINE n == req[r].turn
             at == Len(t) + 1
  <2>1. Say(bound, "ai", n, None) /\ Spoken(t, n, ev)
    BY <1>1, <1>6 DEF Decide, At, Held, t
  <2>2. PICK done \in BOOLEAN :
          req' = [req EXCEPT ![r].pc = "counting", ![r].reply = [at |-> at, complete |-> done]]
    BY <1>1, <1>6 DEF Decide, t
  <2> DEFINE reply == [at |-> at, complete |-> done]
  <2> HIDE DEF reply
  <2>3. req'[r].pc = "counting" /\ req'[r].reply = reply /\ req'[r].ev = ev
    BY <1>0, <2>2 DEF Request, reply
  <2> HIDE DEF ev, n, at
  <2> DEFINE x == transcript'[bound][at]
  <2>4. Len(transcript'[bound]) = at /\ x = [speaker |-> "ai", turn |-> n, ev |-> None]
    BY <1>4, <2>1 DEF at
  <2> HIDE DEF x
  <2>5. x.speaker = "ai" /\ x.turn = n
    BY <2>4
  <2>6. PICK i \in 1..Len(t) : t[i] = Words(n, ev)
    BY <2>1 DEF Spoken
  <2>7. at \in 1..at /\ i \in 1..(at - 1) /\ transcript'[bound][i] = Words(n, ev)
    BY <1>2, <1>3, <2>6 DEF Extends, at
  <2>8. reply.at = at
    BY DEF reply
  <2>9. Told(transcript'[bound], ev, reply)
    BY <2>4, <2>5, <2>7, <2>8 DEF Told, x
  <2> QED
    BY <1>2, <2>3, <2>9 DEF Held, Told, Words
<1>7. CASE Count(r) \/ Complete(r)
  <2>1. /\ req'[r].ev = ev /\ req'[r].reply = req[r].reply
        /\ req'[r].pc \in {"completing", "recording"}
        /\ req'[r].pc = "recording" /\ req[r].reply.complete => bound \in complete'
    BY <1>0, <1>1, <1>7 DEF Count, Complete, Goto, Request
  <2>2. req[r].reply \in Reply /\ Told(t, ev, req[r].reply)
    BY <1>7 DEF Count, Complete, At, Held, Replying, t, RequestInv, RequestsHold, HasReply
  <2>3. Told(transcript'[bound], ev, req[r].reply)
    BY <1>2, <1>3, <2>2, ExtendedKeeps
  <2> QED
    BY <1>2, <2>1, <2>3 DEF Held, Told, Words
<1> QED
  BY <1>5, <1>6, <1>7

LEMMA RepliesStep ==
  ASSUME RequestInv, RequestInv', SessionInv, RepliesInv, [Next]_vars
  PROVE  RepliesInv'
<1>0. Onward /\ req \in [Requests -> Request] /\ recorded \in [Events -> Reply \cup {None}]
  BY OnwardStep, DataAndRequests DEF RequestInv, DataOK
(* A reply that stands, here or in the next state, may be what is stored.  *)
<1>1. ASSUME NEW e \in Events, NEW reply \in Reply, Stands(e, reply), recorded'[e] = reply
      PROVE  Stands(e, recorded[e])'
  <2>1. Stands(e, reply)'
    BY <1>0, <1>1, StandsStays
  <2> QED
    BY <1>1, <2>1 DEF Stands, Told
<1>2. ASSUME NEW e \in Events, recorded'[e] = recorded[e], recorded'[e] # None
      PROVE  Stands(e, recorded[e])'
  <2>1. PICK reply \in Reply : reply = recorded[e]
    BY <1>0, <1>2
  <2>2. Stands(e, reply)
    BY <1>2, <2>1, ChannelAssumption DEF RepliesInv, Reply
  <2> QED
    BY <1>1, <1>2, <2>1, <2>2
<1>3. ASSUME NEW r \in Requests, StepOf(r)
      PROVE  /\ \A q \in Requests \ {r} : req'[q] = req[q]
             /\ Held(req[r])'
  <2>1. \A q \in Requests \ {r} : req'[q] = req[q]
    <3>1. PICK x : req' = [req EXCEPT ![r] = x]
      BY <1>3, StepSound DEF StepOf, Moves
    <3> QED
      BY <1>0, <3>1
  <2>2. ASSUME req'[r].pc \notin {"deciding"} \cup Replying  PROVE  Held(req[r])'
    BY <2>2 DEF Held, Replying
  <2>3. CASE Read(r) \/ Decide(r) \/ Count(r) \/ Complete(r)
    BY <1>0, <2>1, <2>3, TurnHeld DEF RepliesInv
  <2>4. CASE \/ Inbound(r) \/ StartCall(r) \/ (\E e \in Events : Turn(r, e) \/ Message(r, e))
             \/ Resume(r) \/ Create(r) \/ Opened(r) \/ OpeningFails(r) \/ Bind(r)
             \/ BindLost(r) \/ Delete(r) \/ Duplicate(r) \/ Look(r) \/ Check(r)
             \/ DecideFails(r) \/ Record(r)
    <3>1. req'[r].pc \in {"none", "finding", "looking", "opening", "binding", "deleting",
                          "checking", "reading"}
      BY <1>0, <2>4 DEF Inbound, StartCall, Turn, Message, AskToStart, AskToTake, Resume,
         Create, Opened, OpeningFails, Bind, BindLost, Delete, Duplicate, Look, Check,
         DecideFails, Record, Return, Goto, Idle, Request
    <3> QED
      BY <2>1, <2>2, <3>1 DEF Replying
  <2> QED
    BY <1>3, <2>1, <2>3, <2>4 DEF StepOf, Begin, Submit
<1>4. ASSUME NEW r \in Requests, StepOf(r)
      PROVE  \A q \in Requests : Held(req[q])'
  <2>1. ASSUME NEW q \in Requests \ {r}  PROVE  Held(req[q])'
    BY <1>0, <1>3, <1>4, <2>1, HeldStays DEF RepliesInv
  <2> QED
    BY <1>3, <1>4, <2>1
<1>5. ASSUME NEW r \in Requests, Record(r), NEW e \in Events, recorded'[e] # None
      PROVE  Stands(e, recorded[e])'
  <2>1. CASE recorded'[e] = recorded[e]
    BY <1>2, <1>5, <2>1
  <2>2. CASE recorded'[e] # recorded[e]
    <3>1. /\ e = req[r].ev /\ recorded'[e] = req[r].reply /\ req[r].pc = "recording"
          /\ req[r].reply \in Reply
      BY <1>0, <1>5, <2>2 DEF Record, At, RequestInv, RequestsHold, HasReply, Replying
    <3>2. bound # None
      BY <3>1, ChannelAssumption DEF SessionInv, TurnsOfBound, RequestInv, RequestsHold,
         HasSession, Turning
    <3>3. PICK reply \in Reply : reply = req[r].reply
      BY <3>1
    <3>4. Stands(e, reply)
      BY <3>1, <3>2, <3>3 DEF RepliesInv, Held, Replying, Stands
    <3> QED
      BY <1>1, <3>1, <3>3, <3>4
  <2> QED
    BY <2>1, <2>2
<1>6. ASSUME NEW r \in Requests, StepOf(r), ~Record(r)  PROVE  recorded' = recorded
  BY <1>6 DEF StepOf, Begin, Submit, Inbound, StartCall, Turn, Message, AskToStart, AskToTake,
     Resume, Create, Opened, OpeningFails, Bind, BindLost, Delete, Duplicate, Look, Check,
     Read, Decide, DecideFails, Count, Complete, database
<1>7. ASSUME NEW r \in Requests, StepOf(r)  PROVE  RepliesInv'
  <2>1. ASSUME NEW e \in Events, recorded'[e] # None  PROVE  Stands(e, recorded[e])'
    BY <1>2, <1>5, <1>6, <1>7, <2>1
  <2> QED
    BY <1>4, <1>7, <2>1 DEF RepliesInv
<1>8. CASE Crash
  <2>1. \A r \in Requests : Held(req[r])'
    BY <1>8 DEF Crash, Idle, Held, Replying
  <2>2. recorded' = recorded
    BY <1>8 DEF Crash, database
  <2> QED
    BY <1>2, <2>1, <2>2 DEF RepliesInv
<1>9. CASE UNCHANGED vars
  <2>1. \A r \in Requests : Held(req[r])'
    BY <1>9 DEF RepliesInv, vars, database, Held, Spoken, Told
  <2> QED
    BY <1>2, <1>9, <2>1 DEF RepliesInv, vars, database
<1> QED
  BY <1>7, <1>8, <1>9 DEF Next, StepOf

LEMMA RepliesAlways == Spec => []RepliesInv
<1>1. Init => RepliesInv
  BY DEF Init, RepliesInv, Held, Idle, Replying
<1>2. RequestInv /\ RequestInv' /\ SessionInv /\ RepliesInv /\ [Next]_vars => RepliesInv'
  BY RepliesStep
<1>3. RequestInv /\ SessionInv /\ [Next]_vars => SessionInv'
  BY SessionStep
<1> QED
  BY <1>1, <1>2, <1>3, InitSession, RequestAlways, PTL DEF Spec

(* What the candidate was told stands, whatever overlaps, fails or dies:   *)
(* the reply to an event is the agent's, to that event's own words and     *)
(* under their number, and if it says that the interview is over, the      *)
(* database does.  ChannelInterview: RepliesStand.                         *)
THEOREM WhatWasToldStands == Spec => []RepliesStand
<1>1. RepliesInv /\ AnswersStored /\ RequestInv => RepliesStand
  <2> SUFFICES ASSUME RepliesInv, AnswersStored, RequestInv,
                      NEW e \in Events, NEW reply \in answers[e]
               PROVE  Stands(e, reply)
    BY DEF RepliesStand
  <2>1. reply = recorded[e] /\ recorded[e] # None
    BY DEF AnswersStored
  <2> QED
    BY <2>1 DEF RepliesInv
<1> QED
  BY <1>1, RepliesAlways, AnswersAlways, RequestAlways, PTL

-----------------------------------------------------------------------------
(* One turn per event.  Of an event whose deliveries neither overlapped    *)
(* nor broke off one is in the agent's hands at most, and none once it is  *)
(* recorded; what it says is in the transcript once, and from then on it   *)
(* is either on its way to be recorded, or is.                             *)
Answering == {"deciding", "counting", "completing", "recording"}
Said(e, s, i) == i \in DOMAIN transcript[s] /\ transcript[s][i].ev = e
SaidBy(e) == {r \in Requests : req[r].ev = e /\ req[r].pc \in Answering}

TakenOnce(e) ==
  /\ \A p, q \in InHand(e) : p = q
  /\ recorded[e] # None => InHand(e) = {}
  /\ \A s \in Ids : \A i : Said(e, s, i) => recorded[e] # None \/ SaidBy(e) # {}
  /\ \A s, x \in Ids : \A i, j : Said(e, s, i) /\ Said(e, x, j) => s = x /\ i = j
EventsOnce == \A e \in Events \ excused : TakenOnce(e)

(* What a step makes of the place and the event of its request.            *)
Follows(r, pc, ev) ==
  /\ req'[r].pc = pc /\ req'[r].ev = ev
  /\ \A p \in Requests \ {r} : req'[p] = req[p]

LEMMA GotoFollows ==
  ASSUME NEW r \in Requests, NEW pc, RequestInv, Goto(r, pc)
  PROVE  Follows(r, pc, req[r].ev)
<1>1. req \in [Requests -> Request]
  BY DataAndRequests DEF RequestInv
<1> QED
  BY <1>1 DEF Follows, Goto, Request

LEMMA ReturnFollows ==
  ASSUME NEW r \in Requests, RequestInv, Return(r)
  PROVE  Follows(r, "none", None)
<1>1. req \in [Requests -> Request]
  BY DataAndRequests DEF RequestInv
<1> QED
  BY <1>1 DEF Follows, Return, Idle

(* A step after which the event is in no other hands, and is not said more *)
(* often.                                                                  *)
Handles(q, e) == q.ev = e /\ q.pc \in Turning \cup {"checking"}
Answers(q, e) == q.ev = e /\ q.pc \in Answering

LEMMA QuietStep ==
  ASSUME NEW r \in Requests, NEW pc, NEW ev, NEW e \in Events, TakenOnce(e),
         Follows(r, pc, ev),
         ev = e /\ pc \in Turning \cup {"checking"} => Handles(req[r], e),
         Answers(req[r], e) => ev = e /\ pc \in Answering,
         recorded'[e] = recorded[e],
         \A s \in Ids : \A i : Said(e, s, i)' => Said(e, s, i)
  PROVE  TakenOnce(e)'
<1>1. InHand(e)' \subseteq InHand(e)
  BY DEF InHand, Follows, Handles
<1>2. SaidBy(e) \subseteq SaidBy(e)'
  BY DEF SaidBy, Follows, Answers
<1> QED
  BY <1>1, <1>2 DEF TakenOnce

LEMMA SaidMore ==
  ASSUME NEW s \in Ids, NEW speaker, NEW turn, NEW ev, TypeOK,
         Say(s, speaker, turn, ev), NEW e, NEW x \in Ids, NEW i, Said(e, x, i)'
  PROVE  Said(e, x, i) \/ (e = ev /\ x = s /\ i = Len(transcript[s]) + 1)
<1> DEFINE segment == [speaker |-> speaker, turn |-> turn, ev |-> ev]
<1>1. transcript \in [Ids -> Seq(Segment)] /\ transcript[s] \in Seq(Segment)
  BY DEF TypeOK
<1>2. transcript' = [transcript EXCEPT ![s] = Append(transcript[s], segment)]
  BY DEF Say
<1>3. segment.ev = ev
  OBVIOUS
<1> HIDE DEF segment
<1>4. CASE x = s
  <2>1. transcript'[s] = Append(transcript[s], segment)
    BY <1>1, <1>2
  <2>2. DOMAIN Append(transcript[s], segment) = 1..(Len(transcript[s]) + 1)
        /\ DOMAIN transcript[s] = 1..Len(transcript[s]) /\ Len(transcript[s]) \in Nat
        /\ \A k \in 1..Len(transcript[s]) :
             Append(transcript[s], segment)[k] = transcript[s][k]
        /\ Append(transcript[s], segment)[Len(transcript[s]) + 1] = segment
    BY <1>1
  <2> QED
    BY <1>3, <1>4, <2>1, <2>2 DEF Said
<1>5. CASE x # s
  BY <1>1, <1>2, <1>5 DEF Said
<1> QED
  BY <1>4, <1>5

(* Starting, and finding what is stored, say nothing of any event.         *)
LEMMA StartTakesNone ==
  ASSUME NEW r \in Requests, RequestInv, NEW e \in Events, TakenOnce(e),
         \/ Inbound(r) \/ StartCall(r) \/ Begin(r) \/ Duplicate(r)
         \/ \E f \in Events : Turn(r, f) \/ Message(r, f)
  PROVE  TakenOnce(e)'
<1>0. req \in [Requests -> Request] /\ TypeOK /\ None # e
      /\ transcript \in [Ids -> Seq(Segment)]
  BY DataAndRequests, ChannelAssumption DEF RequestInv, DataOK
<1> USE DEF Turning, Answering, Handles, Answers
<1>1. ASSUME NEW pc, NEW ev, pc \notin Turning \cup {"checking"}, Follows(r, pc, ev),
             req[r].pc \notin Answering, UNCHANGED <<recorded, transcript>>
      PROVE  TakenOnce(e)'
  <2>1. \A s \in Ids : \A i : Said(e, s, i)' => Said(e, s, i)
    BY <1>1 DEF Said
  <2> QED
    BY <1>1, <2>1, QuietStep
<1>2. ASSUME Return(r), req[r].pc \notin Answering, UNCHANGED <<recorded, transcript>>
      PROVE  TakenOnce(e)'
  BY <1>1, <1>2, ReturnFollows
<1>3. ASSUME NEW pc, pc \notin Turning \cup {"checking"}, Goto(r, pc),
             req[r].pc \notin Answering, UNCHANGED <<recorded, transcript>>
      PROVE  TakenOnce(e)'
  BY <1>1, <1>3, GotoFollows
<1>4. ASSUME NEW f, AskToStart(r, f) \/ AskToTake(r, f)  PROVE  TakenOnce(e)'
  <2>1. PICK pc \in {"finding", "looking"} : Follows(r, pc, f)
    BY <1>0, <1>4 DEF AskToStart, AskToTake, Follows, Request
  <2> QED
    BY <1>1, <1>4, <2>1 DEF AskToStart, AskToTake, At, database
<1>5. CASE Inbound(r) \/ StartCall(r) \/ \E f \in Events : Turn(r, f) \/ Message(r, f)
  BY <1>4, <1>5 DEF Inbound, StartCall, Turn, Message
<1>6. CASE Resume(r)
  BY <1>2, <1>3, <1>6 DEF Resume, At, database
<1>7. CASE Create(r)
  <2>1. Follows(r, "opening", req[r].ev)
    BY <1>0, <1>7 DEF Create, Follows, Request
  <2> QED
    BY <1>1, <1>7, <2>1 DEF Create, At
<1>8. CASE Opened(r)
  <2>1. req[r].s \in Ids
    BY <1>8 DEF Opened, At, RequestInv, RequestsHold, HasSession, Holding
  <2>2. Say(req[r].s, "ai", 0, None) /\ recorded' = recorded
    BY <1>8 DEF Opened
  <2>3. \A s \in Ids : \A i : Said(e, s, i)' => Said(e, s, i)
    BY <1>0, <2>1, <2>2, SaidMore
  <2>4. Follows(r, "binding", req[r].ev) /\ req[r].pc = "opening"
    BY <1>8, GotoFollows DEF Opened, At
  <2> QED
    BY <2>2, <2>3, <2>4, QuietStep
<1>9. CASE OpeningFails(r) \/ Bind(r) \/ Duplicate(r)
  BY <1>2, <1>9 DEF OpeningFails, Bind, Duplicate, At, database
<1>10. CASE BindLost(r)
  BY <1>3, <1>10 DEF BindLost, At, database
<1>11. CASE Delete(r)
  <2>1. transcript' = [transcript EXCEPT ![req[r].s] = <<>>] /\ recorded' = recorded
    BY <1>11 DEF Delete
  <2>2. \A s \in Ids : \A i : Said(e, s, i)' => Said(e, s, i)
    BY <1>0, <2>1 DEF Said
  <2>3. Follows(r, "none", None) /\ req[r].pc = "deleting"
    BY <1>11, ReturnFollows DEF Delete, At
  <2> QED
    BY <2>1, <2>2, <2>3, QuietStep
<1> QED
  BY <1>5, <1>6, <1>7, <1>8, <1>9, <1>10, <1>11 DEF Begin

(* An event comes into the agent's hands when it is in no other's.         *)
LEMMA LookTakesOne ==
  ASSUME NEW r \in Requests, RequestInv, NEW e \in Events \ excused', TakenOnce(e),
         Look(r)
  PROVE  TakenOnce(e)'
<1>1. Follows(r, "checking", req[r].ev) /\ req[r].pc = "looking"
  BY GotoFollows DEF Look, At
<1>2. recorded' = recorded /\ transcript' = transcript
  BY DEF Look, database
<1>3. \A s \in Ids : \A i : Said(e, s, i)' => Said(e, s, i)
  BY <1>2 DEF Said
<1>4. CASE req[r].ev # e
  BY <1>1, <1>2, <1>3, <1>4, QuietStep DEF Answers, Answering
<1>5. CASE req[r].ev = e
  <2>1. InHand(e) = {} /\ recorded[e] = None
    BY <1>5 DEF Look
  <2>2. InHand(e)' \subseteq {r}
    BY <1>1, <2>1 DEF Follows, InHand
  <2>3. SaidBy(e) = {}
    BY <2>1 DEF InHand, SaidBy, Answering, Turning
  <2> QED
    BY <1>2, <1>3, <2>1, <2>2, <2>3 DEF TakenOnce
<1> QED
  BY <1>4, <1>5

(* It is said by the one who has it, who has not said it before.           *)
LEMMA ReadSaysOnce ==
  ASSUME NEW r \in Requests, RequestInv, NEW e \in Events, TakenOnce(e), Read(r)
  PROVE  TakenOnce(e)'
<1> DEFINE s == req[r].s
           n == Len(transcript[s]) + 1
<1>0. req \in [Requests -> Request] /\ TypeOK
  BY DataAndRequests DEF RequestInv
<1>1. s \in Ids /\ req[r].pc = "reading"
  BY DEF RequestInv, RequestsHold, HasSession, Read, At, Turning
<1>2. Say(s, "candidate", turns[s] + 1, req[r].ev) /\ recorded' = recorded
  BY DEF Read
<1>3. \A x \in Ids : \A i : Said(e, x, i)' =>
        Said(e, x, i) \/ (e = req[r].ev /\ x = s /\ i = n)
  BY <1>0, <1>1, <1>2, SaidMore
<1>4. Follows(r, "deciding", req[r].ev)
  BY <1>0 DEF Read, Follows, Request
<1> HIDE DEF s, n
<1>5. CASE req[r].ev # e
  BY <1>2, <1>3, <1>4, <1>5, QuietStep DEF Answers
<1>6. CASE req[r].ev = e
  <2>1. r \in InHand(e)
    BY <1>1, <1>6 DEF InHand, Turning
  <2>2. recorded[e] = None /\ \A p \in InHand(e) : p = r
    BY <2>1 DEF TakenOnce
  <2>3. SaidBy(e) = {}
    BY <1>1, <2>2 DEF SaidBy, InHand, Answering, Turning
  <2>4. \A x \in Ids : \A i : ~Said(e, x, i)
    BY <2>2, <2>3 DEF TakenOnce
  <2>5. \A x \in Ids : \A i : Said(e, x, i)' => x = s /\ i = n
    BY <1>3, <2>4
  <2>6. r \in SaidBy(e)'
    BY <1>4, <1>6 DEF SaidBy, Follows, Answering
  <2>7. InHand(e)' \subseteq InHand(e)
    BY <1>4, <2>1 DEF InHand, Follows
  <2> QED
    BY <1>2, <2>2, <2>5, <2>6, <2>7 DEF TakenOnce
<1> QED
  BY <1>5, <1>6

(* Recorded by the one who has it, it is in no hands any more.             *)
LEMMA RecordEnds ==
  ASSUME NEW r \in Requests, RequestInv, NEW e \in Events, TakenOnce(e), Record(r)
  PROVE  TakenOnce(e)'
<1>0. TypeOK /\ req[r].ev \in Events /\ req[r].reply \in Reply
      /\ req[r].pc = "recording"
  BY DEF RequestInv, RequestsHold, HasEvent, HasReply, Record, At, Turning, Replying
<1>1. Follows(r, "none", None) /\ None # e
  BY ReturnFollows, ChannelAssumption DEF Record
<1>2. \A s \in Ids : \A i : Said(e, s, i)' => Said(e, s, i)
  BY DEF Record, Said
<1>3. recorded \in [Events -> Reply \cup {None}] /\ None \notin Reply
  BY <1>0, ChannelAssumption DEF TypeOK, Reply
<1>4. recorded' = IF recorded[req[r].ev] = None
                  THEN [recorded EXCEPT ![req[r].ev] = req[r].reply] ELSE recorded
  BY DEF Record
<1>5. CASE req[r].ev # e
  <2>1. recorded'[e] = recorded[e]
    BY <1>0, <1>3, <1>4, <1>5
  <2> QED
    BY <1>1, <1>2, <1>5, <2>1, QuietStep DEF Answers
<1>6. CASE req[r].ev = e
  <2>1. r \in InHand(e)
    BY <1>0, <1>6 DEF InHand, Turning
  <2>2. \A p \in InHand(e) : p = r
    BY <2>1 DEF TakenOnce
  <2>3. InHand(e)' = {}
    BY <1>1, <2>2 DEF InHand, Follows
  <2>4. recorded'[e] # None
    BY <1>0, <1>3, <1>4, <1>6
  <2> QED
    BY <1>2, <2>3, <2>4 DEF TakenOnce
<1> QED
  BY <1>5, <1>6

(* The rest of a turn: whoever has the event keeps it, or it is excused.   *)
LEMMA TurnGoesOn ==
  ASSUME NEW r \in Requests, RequestInv, NEW e \in Events \ excused', TakenOnce(e),
         Check(r) \/ Decide(r) \/ DecideFails(r) \/ Count(r) \/ Complete(r)
  PROVE  TakenOnce(e)'
<1>0. req \in [Requests -> Request] /\ TypeOK /\ None # e
  BY DataAndRequests, ChannelAssumption DEF RequestInv
<1> USE DEF Turning, Answering, Handles, Answers
<1>1. CASE Check(r)
  <2>1. recorded' = recorded /\ \A s \in Ids : \A i : Said(e, s, i)' => Said(e, s, i)
    BY <1>1 DEF Check, database, Said
  <2>2. req[r].pc = "checking"
    BY <1>1 DEF Check, At
  <2>3. Follows(r, "reading", req[r].ev) \/ Follows(r, "none", None)
    <3>1. CASE Open
      BY <1>0, <1>1, <3>1 DEF Check, Follows, Request
    <3>2. CASE ~Open
      BY <1>1, <3>2, ReturnFollows DEF Check
    <3> QED
      BY <3>1, <3>2
  <2> QED
    BY <1>0, <2>1, <2>2, <2>3, QuietStep
<1>2. CASE Decide(r)
  <2>1. req[r].s \in Ids /\ req[r].pc = "deciding"
    BY <1>2 DEF Decide, At, RequestInv, RequestsHold, HasSession
  <2>2. Say(req[r].s, "ai", req[r].turn, None) /\ recorded' = recorded
    BY <1>2 DEF Decide
  <2>3. \A s \in Ids : \A i : Said(e, s, i)' => Said(e, s, i)
    BY <1>0, <2>1, <2>2, SaidMore
  <2>4. PICK done \in BOOLEAN :
          req' = [req EXCEPT ![r].pc = "counting",
                             ![r].reply = [at |-> Len(transcript[req[r].s]) + 1,
                                           complete |-> done]]
    BY <1>2 DEF Decide
  <2>5. Follows(r, "counting", req[r].ev)
    BY <1>0, <2>4 DEF Follows, Request
  <2> QED
    BY <2>1, <2>2, <2>3, <2>5, QuietStep
<1>3. CASE DecideFails(r)
  <2>1. recorded' = recorded /\ \A s \in Ids : \A i : Said(e, s, i)' => Said(e, s, i)
    BY <1>3 DEF DecideFails, database, Said
  <2>2. Follows(r, "none", None) /\ req[r].ev # e
    BY <1>3, ReturnFollows DEF DecideFails
  <2> QED
    BY <1>0, <2>1, <2>2, QuietStep
<1>4. CASE Count(r) \/ Complete(r)
  <2>1. recorded' = recorded /\ \A s \in Ids : \A i : Said(e, s, i)' => Said(e, s, i)
    BY <1>4 DEF Count, Complete, Said
  <2>2. PICK pc \in {"completing", "recording"} : Goto(r, pc)
    BY <1>4 DEF Count, Complete
  <2>3. Follows(r, pc, req[r].ev) /\ req[r].pc \in {"counting", "completing"}
    BY <1>4, <2>2, GotoFollows DEF Count, Complete, At
  <2> QED
    BY <2>1, <2>3, QuietStep
<1> QED
  BY <1>1, <1>2, <1>3, <1>4

LEMMA CrashTakesNone ==
  ASSUME RequestInv, NEW e \in Events \ excused', TakenOnce(e), Crash
  PROVE  TakenOnce(e)'
<1>1. SaidBy(e) = {}
  BY DEF Crash, SaidBy, Answering, Turning
<1>2. InHand(e)' = {}
  BY DEF Crash, InHand, Idle, Turning
<1>3. recorded' = recorded /\ \A s \in Ids : \A i : Said(e, s, i)' => Said(e, s, i)
  BY DEF Crash, database, Said
<1> QED
  BY <1>1, <1>2, <1>3 DEF TakenOnce

LEMMA EventsStep ==
  ASSUME RequestInv, EventsOnce, [Next]_vars  PROVE  EventsOnce'
<1>1. SUFFICES ASSUME NEW e \in Events \ excused'  PROVE  TakenOnce(e)'
  BY DEF EventsOnce
<1>2. excused \subseteq excused'
  <2>1. ASSUME NEW r \in Requests, StepOf(r)  PROVE  excused \subseteq excused'
    <3>1. CASE Begin(r)
      BY <3>1 DEF Begin, Resume, Create, Opened, OpeningFails, Bind, BindLost, Delete,
         history
    <3>2. CASE Submit(r)
      BY <3>2 DEF Submit, Duplicate, Look, Check, Read, Decide, DecideFails, Count,
         Complete, Record, history
    <3>3. CASE Inbound(r) \/ StartCall(r) \/ \E f \in Events : Turn(r, f) \/ Message(r, f)
      BY <3>3 DEF Inbound, StartCall, Turn, Message, AskToStart, AskToTake, history
    <3> QED
      BY <2>1, <3>1, <3>2, <3>3 DEF StepOf
  <2>2. CASE Crash \/ UNCHANGED vars
    BY <2>2 DEF Crash, vars, history
  <2> QED
    BY <2>1, <2>2 DEF Next, StepOf
<1>3. TakenOnce(e)
  BY <1>2 DEF EventsOnce
<1>4. CASE UNCHANGED vars
  BY <1>3, <1>4 DEF vars, database, TakenOnce, InHand, SaidBy, Said
<1>5. CASE Crash
  BY <1>1, <1>3, <1>5, CrashTakesNone
<1>6. ASSUME NEW r \in Requests, StepOf(r)  PROVE  TakenOnce(e)'
  BY <1>1, <1>3, <1>6, StartTakesNone, LookTakesOne, ReadSaysOnce, RecordEnds, TurnGoesOn
     DEF StepOf, Submit
<1> QED
  BY <1>4, <1>5, <1>6 DEF Next, StepOf

(* An event is taken as one turn, however often it is delivered, unless    *)
(* its deliveries overlapped or one broke off.                             *)
(* ChannelInterview: OneTurnPerEvent.                                      *)
THEOREM TakenAsOneTurn == Spec => []OneTurnPerEvent
<1>1. Init => EventsOnce
  BY DEF Init, EventsOnce, TakenOnce, InHand, SaidBy, Said, Idle, Turning
<1>2. RequestInv /\ EventsOnce /\ [Next]_vars => EventsOnce'
  BY EventsStep
<1>3. RequestInv /\ EventsOnce => OneTurnPerEvent
  <2> SUFFICES ASSUME RequestInv, EventsOnce, NEW e \in Events \ excused
               PROVE  Cardinality(UNION {Taken(e, s) : s \in Ids}) <= 1
    BY DEF OneTurnPerEvent
  <2> DEFINE places == UNION {Taken(e, s) : s \in Ids}
  <2>1. ASSUME NEW i \in places, NEW j \in places  PROVE  i = j
    <3>1. PICK s \in Ids, x \in Ids : i \in Taken(e, s) /\ j \in Taken(e, x)
      BY <2>1
    <3>2. transcript[s] \in Seq(Segment) /\ transcript[x] \in Seq(Segment)
      BY DataAndRequests DEF RequestInv, DataOK
    <3>3. Said(e, s, i) /\ Said(e, x, j)
      BY <3>1, <3>2 DEF Taken, Said
    <3> QED
      BY <3>3 DEF EventsOnce, TakenOnce
  <2> HIDE DEF places
  <2>2. ASSUME places = {}  PROVE  Cardinality(places) <= 1
    BY <2>2, FS_EmptySet
  <2>3. ASSUME NEW i \in places  PROVE  Cardinality(places) <= 1
    <3>1. places = {i}
      BY <2>1
    <3>2. Cardinality({i}) = 1
      BY FS_Singleton
    <3> QED
      BY <3>1, <3>2
  <2> QED
    BY <2>2, <2>3 DEF places
<1> QED
  BY <1>1, <1>2, <1>3, RequestAlways, PTL DEF Spec

-----------------------------------------------------------------------------
(* The turns in order.  Only the candidate's session has turns; a session  *)
(* that is about to be bound has its opening question, and nothing else.   *)
Untouched == \A s \in Ids \ {bound} : turns[s] = 0 /\ s \notin complete
StartsFresh ==
  \A r \in Requests : req[r].pc = "binding" =>
    /\ Len(transcript[req[r].s]) = 1 /\ Orderly(transcript[req[r].s])

(* How far the one turn under way has come: what it has said, what it has  *)
(* counted, and that it will conclude at the last turn.                    *)
Halfway(r) ==
  LET n == turns[bound]
      len == Len(transcript[bound])
  IN
  /\ req[r].pc = "reading" => len = 2 * n + 1 /\ n < MaxTurns
  /\ req[r].pc = "deciding" =>
       len = 2 * n + 2 /\ n < MaxTurns /\ req[r].turn = n + 1
  /\ req[r].pc = "counting" =>
       /\ len = 2 * n + 3 /\ n < MaxTurns /\ req[r].turn = n + 1
       /\ Concludes(n + 1) => req[r].reply.complete
  /\ req[r].pc = "completing" => len = 2 * n + 1 /\ n <= MaxTurns

Between ==
  /\ Len(transcript[bound]) = 2 * turns[bound] + 1
  /\ turns[bound] <= MaxTurns
  /\ bound \notin complete => turns[bound] < MaxTurns

InOrder ==
  /\ Orderly(transcript[bound])
  /\ \A p, q \in Requests : TakesTurn(p) /\ TakesTurn(q) => p = q
  /\ (\A r \in Requests : ~TakesTurn(r)) => Between
  /\ \A r \in Requests : TakesTurn(r) => bound \notin complete /\ Halfway(r)

TurnInv ==
  /\ Untouched /\ StartsFresh
  /\ ~messy /\ bound # None => InOrder

(* One more segment, with the number and the speaker of its place.         *)
LEMMA OrderlyMore ==
  ASSUME NEW t \in Seq(Segment), NEW segment \in Segment, Orderly(t),
         segment.turn = (Len(t) + 1) \div 2,
         segment.speaker = IF (Len(t) + 1) % 2 = 1 THEN "ai" ELSE "candidate"
  PROVE  /\ Orderly(Append(t, segment))
         /\ Len(Append(t, segment)) = Len(t) + 1
<1>1. /\ Len(Append(t, segment)) = Len(t) + 1 /\ Len(t) \in Nat
      /\ \A i \in 1..Len(t) : Append(t, segment)[i] = t[i]
      /\ Append(t, segment)[Len(t) + 1] = segment
  OBVIOUS
<1>2. 1..(Len(t) + 1) = 1..Len(t) \cup {Len(t) + 1}
  BY <1>1
<1> QED
  BY <1>1, <1>2 DEF Orderly

LEMMA OddAndEven ==
  ASSUME NEW n \in Nat
  PROVE  /\ (2 * n + 1) \div 2 = n /\ (2 * n + 1) % 2 = 1
         /\ (2 * n + 2) \div 2 = n + 1 /\ (2 * n + 2) % 2 = 0
         /\ 2 * n + 3 = 2 * (n + 1) + 1 /\ (2 * n + 2) + 1 = 2 * (n + 1) + 1
         /\ (2 * n + 1) + 1 = 2 * n + 2
         /\ n + 1 \in Nat /\ \A k \in Nat : n < k => n + 1 <= k
OBVIOUS

(* What a step leaves of the requests, by the places that matter here.     *)
TurnPcs == {"reading", "deciding", "counting", "completing"}

LEMMA TakesTurnIs == \A r \in Requests : TakesTurn(r) <=> req[r].pc \in TurnPcs
BY DEF TakesTurn, Turning, TurnPcs

(* A step that binds nothing leaves the other sessions as they were.       *)
LEMMA OthersFresh ==
  ASSUME NEW r \in Requests, NEW pc, NEW s, RequestInv, SessionInv, TurnInv,
         Becomes(r, pc, s), pc # "binding", bound' = bound,
         \A x \in Ids \ {bound} : /\ turns'[x] = turns[x]
                                  /\ x \in complete' => x \in complete,
         \A x \in Ids \ {bound} :
           transcript'[x] = transcript[x] \/ (req[r].s = x /\ req[r].pc \in Holding)
  PROVE  Untouched' /\ StartsFresh'
<1>1. Untouched'
  BY DEF TurnInv, Untouched
<1>2. StartsFresh'
  <2> SUFFICES ASSUME NEW p \in Requests, req'[p].pc = "binding"
               PROVE  /\ Len(transcript'[req'[p].s]) = 1
                      /\ Orderly(transcript'[req'[p].s])
    BY DEF StartsFresh
  <2>1. p # r /\ req'[p] = req[p]
    BY DEF Becomes
  <2>2. /\ req[p].s \in Ids \ {bound}
        /\ req[r].pc \in Holding => req[r].s # req[p].s
    BY <2>1 DEF RequestInv, RequestsHold, HasSession, SessionInv, StartsApart, Holding
  <2>3. transcript'[req[p].s] = transcript[req[p].s]
    BY <2>2
  <2> QED
    BY <2>1, <2>3 DEF TurnInv, StartsFresh, Orderly
<1> QED
  BY <1>1, <1>2

(* A step of a request that is taking no turn before it nor after, and     *)
(* says and counts nothing in the candidate's session.                     *)
LEMMA AsideStep ==
  ASSUME NEW r \in Requests, NEW pc, NEW s, RequestInv, SessionInv, TurnInv,
         Becomes(r, pc, s), pc \notin TurnPcs, pc # "binding",
         req[r].pc \notin TurnPcs,
         UNCHANGED <<bound, turns, complete>>,
         messy => messy',
         \A x \in Ids : transcript'[x] = transcript[x] \/ (x # bound /\ req[r].s = x
                                                          /\ req[r].pc \in Holding)
  PROVE  TurnInv'
<1>1. Untouched' /\ StartsFresh'
  BY OthersFresh
<1>2. ASSUME ~messy', bound' # None  PROVE  InOrder'
  <2>1. InOrder /\ bound \in Ids /\ transcript'[bound] = transcript[bound]
        /\ bound' = bound
    BY <1>2 DEF TurnInv, RequestInv, TypeOK
  <2>2. \A p \in Requests :
          req'[p].pc \in TurnPcs => req[p].pc \in TurnPcs /\ req'[p] = req[p]
    BY DEF Becomes
  <2>3. \A p \in Requests : req[p].pc \in TurnPcs => req'[p] = req[p]
    BY DEF Becomes
  <2>4. Orderly(transcript[bound])'
    BY <2>1 DEF InOrder, Orderly
  <2>5. Between => Between'
    BY <2>1 DEF Between
  <2>6. ASSUME NEW p \in Requests, req'[p].pc \in TurnPcs, Halfway(p)
        PROVE  Halfway(p)'
    BY <2>1, <2>2, <2>6 DEF Halfway, Concludes
  <2>7. \A p \in Requests : TakesTurn(p)' <=> req'[p].pc \in TurnPcs
    BY DEF TakesTurn, Turning, TurnPcs
  <2> QED
    BY <2>1, <2>2, <2>3, <2>4, <2>5, <2>6, <2>7, TakesTurnIs DEF InOrder
<1> QED
  BY <1>1, <1>2 DEF TurnInv

(* A step of the one request that is taking a turn, or begins to.          *)
LEMMA TurnStep ==
  ASSUME NEW r \in Requests, NEW pc, bound' = bound,
         Becomes(r, pc, bound), \A p \in Requests : TakesTurn(p) => p = r,
         Orderly(transcript'[bound]),
         pc \in TurnPcs => bound \notin complete' /\ Halfway(r)',
         pc \notin TurnPcs => Between'
  PROVE  InOrder'
<1>1. \A p \in Requests : TakesTurn(p)' <=> req'[p].pc \in TurnPcs
  BY DEF TakesTurn, Turning, TurnPcs
<1>2. \A p \in Requests : TakesTurn(p)' => p = r /\ pc \in TurnPcs
  BY <1>1, TakesTurnIs DEF Becomes
<1>3. Orderly(transcript[bound])'
  BY DEF Orderly
<1>4. (\A p \in Requests : ~TakesTurn(p))' => pc \notin TurnPcs
  BY <1>1 DEF Becomes
<1> QED
  BY <1>2, <1>3, <1>4 DEF InOrder

LEMMA StartsInOrder ==
  ASSUME NEW r \in Requests, RequestInv, SessionInv, TurnInv,
         \/ Inbound(r) \/ StartCall(r) \/ Begin(r) \/ Duplicate(r) \/ Look(r)
         \/ Record(r) \/ (Check(r) /\ ~Open)
         \/ \E e \in Events : Turn(r, e) \/ Message(r, e)
  PROVE  TurnInv'
<1>0. req \in [Requests -> Request] /\ TypeOK
      /\ transcript \in [Ids -> Seq(Segment)] /\ None \notin Ids
  BY DataAndRequests, ChannelAssumption DEF RequestInv, DataOK
<1> USE DEF TurnPcs
<1>1. ASSUME NEW pc, NEW s, pc \notin TurnPcs, pc # "binding", Becomes(r, pc, s),
             req[r].pc \notin TurnPcs,
             UNCHANGED <<bound, turns, complete, transcript>>, messy => messy'
      PROVE  TurnInv'
  BY <1>1, AsideStep
<1>2. ASSUME Return(r), req[r].pc \notin TurnPcs,
             UNCHANGED <<bound, turns, complete, transcript>>, messy => messy'
      PROVE  TurnInv'
  BY <1>1, <1>2, ReturnBecomes
<1>3. ASSUME NEW pc, Goto(r, pc), pc \notin TurnPcs, pc # "binding",
             req[r].pc \notin TurnPcs,
             UNCHANGED <<bound, turns, complete, transcript>>, messy => messy'
      PROVE  TurnInv'
  BY <1>1, <1>3, GotoBecomes
<1>4. ASSUME NEW e, AskToStart(r, e) \/ AskToTake(r, e)  PROVE  TurnInv'
  <2>1. PICK pc \in {"finding", "looking"} : Becomes(r, pc, req[r].s)
    BY <1>0, <1>4 DEF AskToStart, AskToTake, Becomes, Request
  <2> QED
    BY <1>1, <1>4, <2>1 DEF AskToStart, AskToTake, At, database, history
<1>5. CASE Inbound(r) \/ StartCall(r) \/ \E e \in Events : Turn(r, e) \/ Message(r, e)
  BY <1>4, <1>5 DEF Inbound, StartCall, Turn, Message
<1>6. CASE Resume(r)
  BY <1>2, <1>3, <1>6 DEF Resume, At, database, history
<1>7. CASE Create(r)
  <2>1. PICK s \in Ids \ rows : Becomes(r, "opening", s)
    BY <1>0, <1>7 DEF Create, Becomes, Request
  <2> QED
    BY <1>1, <1>7, <2>1 DEF Create, At, history
<1>8. CASE OpeningFails(r) \/ Duplicate(r) \/ Record(r) \/ (Check(r) /\ ~Open)
  BY <1>2, <1>8 DEF OpeningFails, Duplicate, Record, Check, At, database
<1>9. CASE BindLost(r) \/ Look(r)
  BY <1>3, <1>9 DEF BindLost, Look, At, database, history
<1>10. CASE Delete(r)
  <2>1. Becomes(r, "none", None) /\ req[r].pc = "deleting" /\ req[r].s # bound
    BY <1>10, ReturnBecomes DEF Delete, At, SessionInv, StartsApart, Holding
  <2>2. UNCHANGED <<bound, turns, complete, messy>>
        /\ transcript' = [transcript EXCEPT ![req[r].s] = <<>>]
    BY <1>10 DEF Delete, history
  <2>3. \A x \in Ids : transcript'[x] = transcript[x] \/ x = req[r].s
    BY <1>0, <2>2
  <2> QED
    BY <2>1, <2>2, <2>3, AsideStep DEF Holding
<1>11. CASE Opened(r)
  <2> DEFINE s == req[r].s
             segment == [speaker |-> "ai", turn |-> 0, ev |-> None]
  <2>1. /\ s \in Ids /\ s # bound /\ transcript[s] = <<>> /\ req[r].pc = "opening"
        /\ \A p \in Requests \ {r} : req[p].pc = "binding" => req[p].s # s
    BY <1>11 DEF Opened, At, RequestInv, RequestsHold, HasSession, SessionInv,
       StartsApart, StartsSpoken, Holding
  <2>2. /\ transcript' = [transcript EXCEPT ![s] = Append(transcript[s], segment)]
        /\ UNCHANGED <<bound, turns, complete, messy>>
    BY <1>11 DEF Opened, Say, history
  <2>3. Becomes(r, "binding", s)
    BY <1>11, GotoBecomes DEF Opened
  <2>4. segment \in Segment /\ segment.turn = 0 /\ segment.speaker = "ai"
    BY DEF Segment
  <2> HIDE DEF segment, s
  <2>5. transcript'[s] = Append(<<>>, segment)
        /\ \A x \in Ids \ {s} : transcript'[x] = transcript[x]
    BY <1>0, <2>1, <2>2
  <2> DEFINE t == transcript[s]
  <2>6. t \in Seq(Segment) /\ t = <<>>
    BY <1>0, <2>1
  <2> HIDE DEF t
  <2>7. /\ Len(t) = 0 /\ Orderly(t)
        /\ (Len(t) + 1) \div 2 = 0 /\ (Len(t) + 1) % 2 = 1
    <3>1. Len(t) = 0
      BY <2>6
    <3> QED
      BY <3>1 DEF Orderly
  <2>8. Orderly(Append(<<>>, segment)) /\ Len(Append(<<>>, segment)) = 1
    <3>1. Orderly(Append(t, segment)) /\ Len(Append(t, segment)) = Len(t) + 1
      BY <2>4, <2>6, <2>7, OrderlyMore
    <3> QED
      BY <2>6, <2>7, <3>1
  <2>9. StartsFresh'
    <3> SUFFICES ASSUME NEW p \in Requests, req'[p].pc = "binding"
                 PROVE  /\ Len(transcript'[req'[p].s]) = 1
                        /\ Orderly(transcript'[req'[p].s])
      BY DEF StartsFresh
    <3>1. CASE p = r
      BY <2>3, <2>5, <2>8, <3>1 DEF Becomes
    <3>2. CASE p # r
      <4>1. req'[p] = req[p] /\ req[p].s # s /\ req[p].s \in Ids
        BY <2>1, <2>3, <3>2 DEF Becomes, RequestInv, RequestsHold, HasSession, Holding
      <4> QED
        BY <2>5, <4>1 DEF TurnInv, StartsFresh
    <3> QED
      BY <3>1, <3>2
  <2>10. Untouched'
    BY <2>2 DEF TurnInv, Untouched
  <2>11. ASSUME ~messy', bound' # None  PROVE  InOrder'
    <3>1. InOrder /\ bound \in Ids /\ transcript'[bound] = transcript[bound]
          /\ bound' = bound
      BY <1>0, <2>1, <2>2, <2>5, <2>11 DEF TurnInv, TypeOK
    <3>2. \A p \in Requests :
            /\ req'[p].pc \in TurnPcs <=> req[p].pc \in TurnPcs
            /\ req[p].pc \in TurnPcs => req'[p] = req[p]
      BY <2>1, <2>3 DEF Becomes
    <3>3. \A p \in Requests : TakesTurn(p)' <=> req'[p].pc \in TurnPcs
      BY DEF TakesTurn, Turning
    <3>4. Orderly(transcript[bound])'
      BY <3>1 DEF InOrder, Orderly
    <3>5. Between => Between'
      BY <2>2, <3>1 DEF Between
    <3>6. ASSUME NEW p \in Requests, req'[p].pc \in TurnPcs, Halfway(p)
          PROVE  Halfway(p)'
      BY <2>2, <3>1, <3>2, <3>6 DEF Halfway, Concludes
    <3> QED
      BY <2>2, <3>1, <3>2, <3>3, <3>4, <3>5, <3>6, TakesTurnIs DEF InOrder
  <2> QED
    BY <2>9, <2>10, <2>11 DEF TurnInv
<1>12. CASE Bind(r)
  <2> DEFINE s == req[r].s
  <2>1. s \in Ids /\ req[r].pc = "binding" /\ bound = None /\ bound' = s
        /\ UNCHANGED <<turns, complete, transcript, messy>>
    BY <1>12 DEF Bind, At, RequestInv, RequestsHold, HasSession, Holding, history
  <2>2. Becomes(r, "none", None)
    BY <1>12, ReturnBecomes DEF Bind
  <2>3. turns[s] = 0 /\ s \notin complete /\ Untouched'
    BY <1>0, <2>1 DEF TurnInv, Untouched
  <2>4. Len(transcript[s]) = 1 /\ Orderly(transcript[s])
    BY <2>1 DEF TurnInv, StartsFresh
  <2>5. StartsFresh'
    BY <2>1, <2>2 DEF TurnInv, StartsFresh, Becomes
  <2>6. \A p \in Requests : ~TakesTurn(p)'
    BY <1>0, <2>1, <2>2 DEF TakesTurn, RequestInv, RequestsHold, HasSession,
       SessionInv, TurnsOfBound, Becomes, Turning
  <2>7. Between'
    BY <2>1, <2>3, <2>4, ChannelAssumption DEF Between
  <2>8. Orderly(transcript[bound])'
    BY <2>1, <2>4 DEF Orderly
  <2> QED
    BY <2>3, <2>5, <2>6, <2>7, <2>8 DEF TurnInv, InOrder
<1> QED
  BY <1>5, <1>6, <1>7, <1>8, <1>9, <1>10, <1>11, <1>12 DEF Begin

(* The turn itself.                                                        *)
LEMMA TurnsGoOn ==
  ASSUME NEW r \in Requests, RequestInv, SessionInv, TurnInv,
         \/ Check(r) /\ Open
         \/ Read(r) \/ Decide(r) \/ DecideFails(r) \/ Count(r) \/ Complete(r)
  PROVE  TurnInv'
<1>0. /\ req \in [Requests -> Request] /\ TypeOK /\ bound' = bound
      /\ transcript \in [Ids -> Seq(Segment)] /\ turns \in [Ids -> Nat]
      /\ req[r] \in Request /\ None \notin Ids /\ complete \subseteq Ids
  BY DataAndRequests, ChannelAssumption
     DEF RequestInv, DataOK, Check, Read, Decide, DecideFails, Count, Complete, database
<1>1. bound \in Ids /\ transcript[bound] \in Seq(Segment) /\ turns[bound] \in Nat
      /\ (req[r].pc \in Turning => req[r].s = bound)
      /\ MaxTurns \in Nat
  <2>1. CASE Check(r) /\ Open
    BY <1>0, <2>1, ChannelAssumption DEF Check, At, Turning, Open, TypeOK
  <2>2. CASE ~(Check(r) /\ Open)
    <3>1. req[r].pc \in Turning
      BY <2>2 DEF Read, Decide, DecideFails, Count, Complete, At, Turning
    <3>2. req[r].s = bound /\ bound \in Ids
      BY <3>1 DEF SessionInv, TurnsOfBound, RequestInv, RequestsHold, HasSession
    <3> QED
      BY <1>0, <3>2, ChannelAssumption
  <2> QED
    BY <2>1, <2>2
<1> DEFINE n == turns[bound]
           t == transcript[bound]
<1>2. ASSUME ~messy
      PROVE  /\ Orderly(t)
             /\ TakesTurn(r) => /\ \A p \in Requests : TakesTurn(p) => p = r
                                /\ bound \notin complete /\ Halfway(r)
             /\ (\A p \in Requests : ~TakesTurn(p)) => Between
  BY <1>0, <1>1, <1>2 DEF TurnInv, InOrder
<1>3. Len(t) \in Nat
  BY <1>1
(* What is said next, if it has the number and the speaker of its place.   *)
<1>4. ASSUME NEW speaker \in {"ai", "candidate"}, NEW turn \in Nat,
             NEW ev \in Events \cup {None}, Say(bound, speaker, turn, ev)
      PROVE  /\ \A x \in Ids \ {bound} : transcript'[x] = transcript[x]
             /\ (/\ Orderly(t) /\ turn = (Len(t) + 1) \div 2
                 /\ speaker = IF (Len(t) + 1) % 2 = 1 THEN "ai" ELSE "candidate")
                => /\ Orderly(transcript'[bound])
                   /\ Len(transcript'[bound]) = Len(t) + 1
  <2> DEFINE segment == [speaker |-> speaker, turn |-> turn, ev |-> ev]
  <2>1. segment \in Segment /\ segment.turn = turn /\ segment.speaker = speaker
    BY DEF Segment
  <2>2. transcript' = [transcript EXCEPT ![bound] = Append(t, segment)]
    BY <1>4 DEF Say
  <2> HIDE DEF segment, t
  <2>3. transcript'[bound] = Append(t, segment)
        /\ \A x \in Ids \ {bound} : transcript'[x] = transcript[x]
    BY <1>0, <1>1, <2>2
  <2>4. t \in Seq(Segment)
    BY <1>1 DEF t
  <2> QED
    BY <2>1, <2>3, <2>4, OrderlyMore
<1> HIDE DEF t
<1>5. CASE Check(r) /\ Open
  <2>1. UNCHANGED <<turns, complete, transcript>> /\ bound \notin complete
        /\ (messy' <=> messy \/ \E q \in Requests : TakesTurn(q))
    BY <1>0, <1>5 DEF Check, Open, database, TypeOK
  <2>2. Becomes(r, "reading", bound) /\ req[r].pc = "checking"
    BY <1>0, <1>5 DEF Check, Becomes, Request, At
  <2>3. Untouched' /\ StartsFresh'
    BY <1>0, <2>1, <2>2, OthersFresh
  <2>4. ASSUME ~messy'  PROVE  InOrder'
    <3>1. ~messy /\ \A q \in Requests : ~TakesTurn(q)
      BY <2>1, <2>4
    <3>2. Orderly(t) /\ Between
      BY <1>2, <3>1
    <3>3. Halfway(r)'
      BY <1>0, <2>1, <2>2, <3>2 DEF Halfway, Between, Becomes
    <3> QED
      BY <1>0, <2>1, <2>2, <3>1, <3>2, <3>3, TurnStep DEF TurnPcs, t
  <2> QED
    BY <2>3, <2>4 DEF TurnInv
<1>6. CASE Read(r)
  <2>1. /\ UNCHANGED <<turns, complete, messy>>
        /\ Say(bound, "candidate", n + 1, req[r].ev)
    BY <1>1, <1>6 DEF Read, At, Turning, history
  <2>2. Becomes(r, "deciding", bound) /\ req'[r].turn = n + 1 /\ req[r].pc = "reading"
    BY <1>0, <1>1, <1>6 DEF Read, Becomes, Request, At, Turning
  <2>3. req[r].ev \in Events \cup {None} /\ n + 1 \in Nat
    BY <1>0, <1>1 DEF Request
  <2>4. /\ \A x \in Ids \ {bound} : transcript'[x] = transcript[x]
        /\ (/\ Orderly(t) /\ n + 1 = (Len(t) + 1) \div 2
            /\ "candidate" = IF (Len(t) + 1) % 2 = 1 THEN "ai" ELSE "candidate")
           => /\ Orderly(transcript'[bound])
              /\ Len(transcript'[bound]) = Len(t) + 1
    BY <1>4, <2>1, <2>3
  <2>5. Untouched' /\ StartsFresh'
    BY <1>0, <2>1, <2>2, <2>4, OthersFresh
  <2>6. ASSUME ~messy'  PROVE  InOrder'
    <3>1. /\ Orderly(t) /\ \A p \in Requests : TakesTurn(p) => p = r
          /\ bound \notin complete /\ Len(t) = 2 * n + 1 /\ n < MaxTurns
      BY <1>2, <2>1, <2>2, <2>6, TakesTurnIs DEF Halfway, TurnPcs, t
    <3>2. n + 1 = (Len(t) + 1) \div 2 /\ (Len(t) + 1) % 2 = 0
      <4>1. Len(t) + 1 = 2 * n + 2 /\ n \in Nat
        BY <1>1, <3>1
      <4>2. (2 * n + 2) \div 2 = n + 1 /\ (2 * n + 2) % 2 = 0
        BY <4>1, OddAndEven
      <4> HIDE DEF n, t
      <4> QED
        BY <4>1, <4>2
    <3>3. Orderly(transcript'[bound]) /\ Len(transcript'[bound]) = 2 * n + 2
      BY <1>1, <2>4, <3>1, <3>2
    <3>4. Halfway(r)'
      BY <1>0, <2>1, <2>2, <3>1, <3>3 DEF Halfway, Becomes
    <3> QED
      BY <1>0, <2>1, <2>2, <3>1, <3>3, <3>4, TurnStep DEF TurnPcs
  <2> QED
    BY <2>5, <2>6 DEF TurnInv
<1>7. CASE Decide(r)
  <2> DEFINE m == req[r].turn
  <2>1. /\ UNCHANGED <<turns, complete, messy>>
        /\ Say(bound, "ai", m, None)
    BY <1>1, <1>7 DEF Decide, At, Turning, history
  <2>2. /\ Becomes(r, "counting", bound) /\ req'[r].turn = m
        /\ req[r].pc = "deciding"
        /\ Concludes(m) => req'[r].reply.complete
    <3>1. req[r].pc = "deciding" /\ req[r].s = bound
      BY <1>1, <1>7 DEF Decide, At, Turning
    <3> DEFINE at == Len(transcript[req[r].s]) + 1
    <3>2. PICK done \in BOOLEAN :
            /\ Concludes(m) => done
            /\ req' = [req EXCEPT ![r].pc = "counting",
                                  ![r].reply = [at |-> at, complete |-> done]]
      BY <1>7 DEF Decide
    <3> HIDE DEF m, at
    <3>3. req'[r] = [req[r] EXCEPT !.pc = "counting",
                                   !.reply = [at |-> at, complete |-> done]]
          /\ \A p \in Requests \ {r} : req'[p] = req[p]
      BY <1>0, <3>2
    <3>4. /\ req'[r].pc = "counting" /\ req'[r].s = req[r].s
          /\ req'[r].turn = req[r].turn /\ req'[r].reply.complete = done
      BY <1>0, <3>3 DEF Request
    <3> QED
      BY <3>1, <3>2, <3>3, <3>4 DEF Becomes, m
  <2>3. m \in Nat
    BY <1>0 DEF Request
  <2> HIDE DEF m
  <2>4. /\ \A x \in Ids \ {bound} : transcript'[x] = transcript[x]
        /\ (/\ Orderly(t) /\ m = (Len(t) + 1) \div 2
            /\ "ai" = IF (Len(t) + 1) % 2 = 1 THEN "ai" ELSE "candidate")
           => /\ Orderly(transcript'[bound])
              /\ Len(transcript'[bound]) = Len(t) + 1
    BY <1>4, <2>1, <2>3
  <2>5. Untouched' /\ StartsFresh'
    BY <1>0, <2>1, <2>2, <2>4, OthersFresh
  <2>6. ASSUME ~messy'  PROVE  InOrder'
    <3>1. /\ Orderly(t) /\ \A p \in Requests : TakesTurn(p) => p = r
          /\ bound \notin complete /\ Len(t) = 2 * n + 2 /\ n < MaxTurns
          /\ m = n + 1
      BY <1>2, <2>1, <2>2, <2>6, TakesTurnIs DEF Halfway, TurnPcs, t, m
    <3>2. Len(t) + 1 = 2 * (n + 1) + 1 /\ n + 1 \in Nat
      BY <1>1, <3>1, OddAndEven
    <3>3. m = (Len(t) + 1) \div 2 /\ (Len(t) + 1) % 2 = 1
      BY <3>1, <3>2, OddAndEven
    <3>4. Orderly(transcript'[bound]) /\ Len(transcript'[bound]) = 2 * n + 3
      BY <1>1, <2>4, <3>1, <3>3
    <3>5. Halfway(r)'
      BY <1>0, <2>1, <2>2, <3>1, <3>4 DEF Halfway, Becomes, Concludes
    <3> QED
      BY <1>0, <2>1, <2>2, <3>1, <3>4, <3>5, TurnStep DEF TurnPcs
  <2> QED
    BY <2>5, <2>6 DEF TurnInv
<1>8. CASE DecideFails(r)
  <2>1. UNCHANGED <<turns, complete, transcript>> /\ messy'
    BY <1>8 DEF DecideFails, database
  <2>2. Becomes(r, "none", None)
    BY <1>8, ReturnBecomes DEF DecideFails
  <2> QED
    BY <1>0, <2>1, <2>2, OthersFresh DEF TurnInv
<1>9. CASE Count(r)
  <2>1. /\ turns' = [turns EXCEPT ![bound] = req[r].turn]
        /\ UNCHANGED <<complete, transcript, messy>> /\ req[r].pc = "counting"
    BY <1>1, <1>9 DEF Count, history, At, Turning
  <2>2. PICK pc \in {"completing", "recording"} :
          /\ Becomes(r, pc, bound)
          /\ pc = "completing" <=> req[r].reply.complete
    BY <1>1, <1>9, GotoBecomes DEF Count, At, Turning
  <2>3. turns'[bound] = req[r].turn /\ \A x \in Ids \ {bound} : turns'[x] = turns[x]
    BY <1>0, <1>1, <2>1
  <2>4. Untouched' /\ StartsFresh'
    BY <1>0, <2>1, <2>2, <2>3, OthersFresh
  <2>5. ASSUME ~messy'  PROVE  InOrder'
    <3>1. /\ Orderly(t) /\ \A p \in Requests : TakesTurn(p) => p = r
          /\ bound \notin complete /\ Len(t) = 2 * n + 3 /\ n < MaxTurns
          /\ req[r].turn = n + 1
          /\ n + 1 >= MaxTurns => req[r].reply.complete
      BY <1>2, <2>1, <2>5, TakesTurnIs DEF Halfway, TurnPcs, Concludes, t
    <3>2. Len(t) = 2 * (n + 1) + 1 /\ n + 1 <= MaxTurns
      BY <1>1, <3>1, OddAndEven
    <3>3. pc = "recording" => n + 1 < MaxTurns
      BY <1>1, <2>2, <3>1
    <3>4. CASE pc = "recording"
      <4>1. Between'
        BY <1>0, <2>1, <2>3, <3>1, <3>2, <3>3, <3>4 DEF Between, t
      <4> QED
        BY <1>0, <2>1, <2>2, <3>1, <3>4, <4>1, TurnStep DEF TurnPcs, t
    <3>5. CASE pc = "completing"
      <4>1. Halfway(r)'
        BY <1>0, <2>1, <2>2, <2>3, <3>1, <3>2, <3>5 DEF Halfway, Becomes, t
      <4> QED
        BY <1>0, <2>1, <2>2, <3>1, <3>5, <4>1, TurnStep DEF TurnPcs, t
    <3> QED
      BY <3>4, <3>5
  <2> QED
    BY <2>4, <2>5 DEF TurnInv
<1>10. CASE Complete(r)
  <2>1. /\ complete' = complete \cup {bound} /\ req[r].pc = "completing"
        /\ UNCHANGED <<turns, transcript, messy>>
    BY <1>1, <1>10 DEF Complete, history, At, Turning
  <2>2. Becomes(r, "recording", bound)
    BY <1>1, <1>10, GotoBecomes DEF Complete, At, Turning
  <2>3. Untouched' /\ StartsFresh'
    BY <1>0, <2>1, <2>2, OthersFresh
  <2>4. ASSUME ~messy'  PROVE  InOrder'
    <3>1. /\ Orderly(t) /\ \A p \in Requests : TakesTurn(p) => p = r
          /\ Len(t) = 2 * n + 1 /\ n <= MaxTurns
      BY <1>2, <2>1, <2>4, TakesTurnIs DEF Halfway, TurnPcs, t
    <3>2. Between'
      BY <1>0, <2>1, <3>1 DEF Between, t
    <3> QED
      BY <1>0, <2>1, <2>2, <3>1, <3>2, TurnStep DEF TurnPcs, t
  <2> QED
    BY <2>3, <2>4 DEF TurnInv
<1> QED
  BY <1>5, <1>6, <1>7, <1>8, <1>9, <1>10

(* Death: a turn under way makes the record messy.                         *)
LEMMA CrashInOrder ==
  ASSUME RequestInv, TurnInv, Crash  PROVE  TurnInv'
<1>1. UNCHANGED <<bound, turns, complete, transcript>>
      /\ (messy' <=> messy \/ \E r \in Requests : TakesTurn(r))
  BY DEF Crash, database, RequestInv, TypeOK
<1>2. \A p \in Requests : req'[p].pc = "none"
  BY DEF Crash, Idle
<1>3. Untouched' /\ StartsFresh'
  BY <1>1, <1>2 DEF TurnInv, Untouched, StartsFresh
<1>4. ASSUME ~messy', bound' # None  PROVE  InOrder'
  <2>1. InOrder /\ Between
    BY <1>1, <1>4 DEF TurnInv, InOrder
  <2>2. \A p \in Requests : ~TakesTurn(p)'
    BY <1>2 DEF TakesTurn, Turning
  <2>3. Between' /\ Orderly(transcript[bound])'
    BY <1>1, <2>1 DEF Between, InOrder, Orderly
  <2> QED
    BY <2>2, <2>3 DEF InOrder
<1> QED
  BY <1>3, <1>4 DEF TurnInv

LEMMA TurnsStep ==
  ASSUME RequestInv, SessionInv, TurnInv, [Next]_vars  PROVE  TurnInv'
<1>1. CASE UNCHANGED vars
  BY <1>1 DEF vars, database, history, TurnInv, Untouched, StartsFresh, InOrder, Between,
     Halfway, TakesTurn, Orderly
<1>2. ASSUME NEW r \in Requests, StepOf(r)  PROVE  TurnInv'
  <2>1. CASE Check(r)
    BY <2>1, StartsInOrder, TurnsGoOn
  <2> QED
    BY <1>2, <2>1, StartsInOrder, TurnsGoOn DEF StepOf, Submit
<1> QED
  BY <1>1, <1>2, CrashInOrder DEF Next, StepOf

(* While messages come one at a time and none breaks off, the transcript   *)
(* is the opening question and then, turn by turn, one answer and one      *)
(* question; no turn follows the last.  ChannelInterview: TurnsInOrder.    *)
THEOREM TurnsKeepOrder == Spec => []TurnsInOrder
<1>1. Init => TurnInv
  BY DEF Init, TurnInv, Untouched, StartsFresh, Idle
<1>2. RequestInv /\ SessionInv /\ TurnInv /\ [Next]_vars => TurnInv'
  BY TurnsStep
<1>3. RequestInv /\ SessionInv /\ [Next]_vars => SessionInv'
  BY SessionStep
<1>4. RequestInv /\ TurnInv => TurnsInOrder
  <2> SUFFICES ASSUME RequestInv, TurnInv, ~messy, bound # None
               PROVE  /\ Orderly(transcript[bound])
                      /\ turns[bound] <= MaxTurns
                      /\ bound \in complete =>
                           /\ Len(transcript[bound]) = 2 * turns[bound] + 1
                           /\ \A r \in Requests : ~TakesTurn(r)
    BY DEF TurnsInOrder
  <2>1. InOrder /\ turns[bound] \in Nat /\ MaxTurns \in Nat
    BY ChannelAssumption DEF TurnInv, RequestInv, TypeOK
  <2>2. CASE \A r \in Requests : ~TakesTurn(r)
    BY <2>1, <2>2 DEF InOrder, Between
  <2>3. ASSUME NEW r \in Requests, TakesTurn(r)
        PROVE  turns[bound] <= MaxTurns /\ bound \notin complete
    BY <2>1, <2>3, TakesTurnIs DEF InOrder, Halfway, TurnPcs
  <2> QED
    BY <2>1, <2>2, <2>3 DEF InOrder
<1> QED
  BY <1>1, <1>2, <1>3, <1>4, InitSession, RequestAlways, PTL DEF Spec

(* A turn is kept: in its order while nothing overlaps or breaks off, and  *)
(* for good, whatever does, once it is answered.                           *)
(* ChannelInterview: TurnsKept.                                            *)
THEOREM TurnsAreKept == Spec => []TurnsKept
<1>1. TurnsInOrder /\ RepliesStand => TurnsKept
  BY DEF TurnsKept
<1> QED
  BY <1>1, TurnsKeepOrder, WhatWasToldStands, PTL
=============================================================================
