-------------------------- MODULE ChannelInterview --------------------------
(***************************************************************************)
(* One candidate's interview over a telephone or messaging channel: the    *)
(* webhooks of gateway/src/twilio.rs call the ai-service, whose            *)
(* channels.py maps the candidate to an interview session and stores the   *)
(* reply to every event, and whose agent.py takes the turns.  Every await  *)
(* of the database or of the planner is a place where other requests run,  *)
(* and where the service can die.                                          *)
(*                                                                         *)
(* A message is known by its event id (CallSid and a hash of what was      *)
(* said, or MessageSid): a retry and a repetition look the same.  What is  *)
(* said is left out, and so are signatures, tenants, workflows, evidence   *)
(* and the policy on questions.  The gateway keeps no state of its own: if *)
(* it gives up after its timeout the ai-service finishes the request, and  *)
(* a retry is another request.                                             *)
(***************************************************************************)
EXTENDS Naturals, Sequences, FiniteSets

CONSTANTS
  Requests,   \* webhook requests in progress at a time
  Events,     \* event ids
  Ids,        \* ids that may be drawn for interview sessions
  MaxTurns,   \* turns after which the agent concludes
  MaxSegments,\* bound on the transcript
  MaxCrashes, \* bound on the deaths of the ai-service
  None

ASSUME ChannelAssumption ==
  /\ MaxTurns \in Nat \ {0} /\ MaxSegments \in Nat /\ MaxCrashes \in Nat
  /\ None \notin Events /\ None \notin Ids
  /\ None \notin [at : 1..MaxSegments, complete : BOOLEAN]

VARIABLES
  bound,      \* channel_sessions: the candidate's session, or None
  rows,       \* sessions: the ids of the rows
  turns,      \* sessions: turn_count
  complete,   \* sessions: the ids with is_complete
  transcript, \* transcript_segments, in order: [speaker, turn, ev]
  recorded,   \* channel_events: per event its reply, or None
  req,        \* per request: [pc, ev, s, turn, reply]
  crashes,
  answers,    \* history: per event, the replies that were answered
  excused,    \* history: events whose deliveries overlapped or broke off
  messy,      \* history: turns overlapped, or one broke off
  strays      \* history: sessions whose start broke off

database == <<bound, rows, turns, complete, transcript, recorded>>
history == <<answers, excused, messy, strays>>
vars == <<database, req, crashes, history>>

-----------------------------------------------------------------------------
NoReply == [at |-> 0, complete |-> FALSE]
Idle == [pc |-> "none", ev |-> None, s |-> None, turn |-> 0, reply |-> NoReply]
Starting == {"finding", "opening", "binding", "deleting"}
Turning == {"reading", "deciding", "counting", "completing", "recording"}
Pcs == {"none", "looking", "checking"} \cup Starting \cup Turning

Init ==
  /\ bound = None /\ rows = {} /\ complete = {}
  /\ turns = [s \in Ids |-> 0]
  /\ transcript = [s \in Ids |-> <<>>]
  /\ recorded = [e \in Events |-> None]
  /\ req = [r \in Requests |-> Idle]
  /\ crashes = 0
  /\ answers = [e \in Events |-> {}]
  /\ excused = {} /\ messy = FALSE /\ strays = {}

At(r, pc) == req[r].pc = pc
Goto(r, pc) == req' = [req EXCEPT ![r].pc = pc]
Return(r) == req' = [req EXCEPT ![r] = Idle]

Say(s, speaker, turn, ev) ==
  /\ Len(transcript[s]) < MaxSegments
  /\ transcript' = [transcript EXCEPT ![s] =
       Append(@, [speaker |-> speaker, turn |-> turn, ev |-> ev])]

-----------------------------------------------------------------------------
(* The two calls of ai_client.rs: begin or resume the interview, perhaps   *)
(* with a message to be taken next; take a message.                        *)
AskToStart(r, e) ==
  /\ At(r, "none")
  /\ req' = [req EXCEPT ![r].pc = "finding", ![r].ev = e]
  /\ UNCHANGED <<database, crashes, history>>
AskToTake(r, e) ==
  /\ At(r, "none")
  /\ req' = [req EXCEPT ![r].pc = "looking", ![r].ev = e]
  /\ UNCHANGED <<database, crashes, history>>

(* The candidate calls, or answers a call: the question is asked.          *)
Inbound(r) == AskToStart(r, None)
StartCall(r) == AskToStart(r, None)

(* turn: what was said on the telephone.  whatsapp_inbound: a message.     *)
Turn(r, e) == AskToTake(r, e)
Message(r, e) == AskToStart(r, e)

-----------------------------------------------------------------------------
(* start_or_resume.  A session that was there already lets a message be    *)
(* taken, unless its voice note cannot be had; a new one only asks its     *)
(* question, whatever the message was.                                     *)
Resume(r) ==
  /\ At(r, "finding") /\ bound # None
  /\ \/ Return(r)
     \/ req[r].ev # None /\ Goto(r, "looking")
  /\ UNCHANGED <<database, crashes, history>>

(* agent.start_session: the row, then the planner's opening question.      *)
Create(r) ==
  /\ At(r, "finding") /\ bound = None
  /\ \E s \in Ids \ rows :
       /\ transcript[s] = <<>> /\ \A q \in Requests : req[q].s # s
       /\ rows' = rows \cup {s}
       /\ req' = [req EXCEPT ![r].pc = "opening", ![r].s = s]
  /\ UNCHANGED <<bound, turns, complete, transcript, recorded, crashes, history>>

(* Fault: the session is bound before its opening question is written. *)
OpenedLate(r) ==
  /\ At(r, "opening")
  /\ bound = None /\ bound' = req[r].s
  /\ Return(r)
  /\ UNCHANGED <<rows, turns, complete, transcript, recorded, crashes, history>>

Opened(r) ==
  /\ At(r, "opening")
  /\ Say(req[r].s, "ai", 0, None)
  /\ Goto(r, "binding")
  /\ UNCHANGED <<bound, rows, turns, complete, recorded, crashes, history>>

OpeningFails(r) ==
  /\ At(r, "opening")
  /\ strays' = strays \cup {req[r].s}
  /\ Return(r)
  /\ UNCHANGED <<database, crashes, answers, excused, messy>>

(* bind_channel_session: INSERT OR IGNORE. *)
Bind(r) ==
  /\ At(r, "binding") /\ bound = None
  /\ bound' = req[r].s
  /\ Return(r)
  /\ UNCHANGED <<rows, turns, complete, transcript, recorded, crashes, history>>

(* Fault: the session that lost the race is kept. *)
BindLostKept(r) ==
  /\ At(r, "binding") /\ bound # None
  /\ Return(r)
  /\ UNCHANGED <<database, crashes, history>>

BindLost(r) ==
  /\ At(r, "binding") /\ bound # None
  /\ Goto(r, "deleting")
  /\ UNCHANGED <<database, crashes, history>>

Delete(r) ==
  LET s == req[r].s IN
  /\ At(r, "deleting")
  /\ rows' = rows \ {s}
  /\ transcript' = [transcript EXCEPT ![s] = <<>>]
  /\ Return(r)
  /\ UNCHANGED <<bound, turns, complete, recorded, crashes, history>>

-----------------------------------------------------------------------------
(* submit_message: the stored reply of a known event is the answer.        *)
Replied(e, reply) == answers' = [answers EXCEPT ![e] = @ \cup {reply}]

(* Fault: events are not looked up before their turn is taken. *)
LookPast(r) ==
  /\ At(r, "looking")
  /\ Goto(r, "checking")
  /\ UNCHANGED <<database, crashes, history>>

Duplicate(r) ==
  LET e == req[r].ev IN
  /\ At(r, "looking") /\ recorded[e] # None
  /\ Replied(e, recorded[e])
  /\ Return(r)
  /\ UNCHANGED <<database, crashes, excused, messy, strays>>

InHand(e) == {r \in Requests : req[r].ev = e /\ req[r].pc \in Turning \cup {"checking"}}
Look(r) ==
  LET e == req[r].ev IN
  /\ At(r, "looking") /\ recorded[e] = None
  /\ Goto(r, "checking")
  /\ excused' = IF InHand(e) # {} THEN excused \cup {e} ELSE excused
  /\ UNCHANGED <<database, crashes, answers, messy, strays>>

(* Fault: a message is taken although the interview is complete. *)
OpenAlways == bound # None

Open == bound # None /\ bound \notin complete

TakesTurn(r) == req[r].pc \in Turning \ {"recording"}
Check(r) ==
  /\ At(r, "checking")
  /\ IF Open THEN /\ req' = [req EXCEPT ![r].pc = "reading", ![r].s = bound]
                  /\ messy' = (messy \/ \E q \in Requests : TakesTurn(q))
             ELSE Return(r) /\ UNCHANGED messy
  /\ UNCHANGED <<database, crashes, answers, excused, strays>>

(* agent.take_turn: the candidate's words under the number of the turn.    *)
Read(r) ==
  LET s == req[r].s IN
  /\ At(r, "reading")
  /\ Say(s, "candidate", turns[s] + 1, req[r].ev)
  /\ req' = [req EXCEPT ![r].pc = "deciding", ![r].turn = turns[s] + 1]
  /\ UNCHANGED <<bound, rows, turns, complete, recorded, crashes, history>>

(* The planner's question, or closing remark; at the last turn it          *)
(* concludes whatever it thinks.                                           *)
Concludes(turn) == turn >= MaxTurns

(* Fault: the number of the turn is read again after the planner answered. *)
DecideFresh(r) ==
  LET s == req[r].s IN
  /\ At(r, "deciding")
  /\ Say(s, "ai", turns[s] + 1, None)
  /\ \E done \in BOOLEAN :
       /\ Concludes(req[r].turn) => done
       /\ req' = [req EXCEPT ![r].pc = "counting",
                             ![r].reply = [at |-> Len(transcript[s]) + 1,
                                           complete |-> done]]
  /\ UNCHANGED <<bound, rows, turns, complete, recorded, crashes, history>>

Decide(r) ==
  LET s == req[r].s IN
  /\ At(r, "deciding")
  /\ Say(s, "ai", req[r].turn, None)
  /\ \E done \in BOOLEAN :
       /\ Concludes(req[r].turn) => done
       /\ req' = [req EXCEPT ![r].pc = "counting",
                             ![r].reply = [at |-> Len(transcript[s]) + 1,
                                           complete |-> done]]
  /\ UNCHANGED <<bound, rows, turns, complete, recorded, crashes, history>>

(* The planner fails, and what was said stays in the transcript.           *)
DecideFails(r) ==
  /\ At(r, "deciding")
  /\ excused' = excused \cup {req[r].ev}
  /\ messy' = TRUE
  /\ Return(r)
  /\ UNCHANGED <<database, crashes, answers, strays>>

(* Faults: the last reply is recorded and the interview not marked         *)
(* complete; the turn is not counted.                                      *)
CountRecords(r) ==
  /\ At(r, "counting")
  /\ turns' = [turns EXCEPT ![req[r].s] = req[r].turn]
  /\ Goto(r, "recording")
  /\ UNCHANGED <<bound, rows, complete, transcript, recorded, crashes, history>>
CountNot(r) ==
  /\ At(r, "counting")
  /\ Goto(r, IF req[r].reply.complete THEN "completing" ELSE "recording")
  /\ UNCHANGED <<database, crashes, history>>

Count(r) ==
  /\ At(r, "counting")
  /\ turns' = [turns EXCEPT ![req[r].s] = req[r].turn]
  /\ Goto(r, IF req[r].reply.complete THEN "completing" ELSE "recording")
  /\ UNCHANGED <<bound, rows, complete, transcript, recorded, crashes, history>>

Complete(r) ==
  /\ At(r, "completing")
  /\ complete' = complete \cup {req[r].s}
  /\ Goto(r, "recording")
  /\ UNCHANGED <<bound, rows, turns, transcript, recorded, crashes, history>>

(* Faults: each delivery answers the reply it made; a late reply is stored *)
(* over an earlier one.                                                    *)
FinalOwn(e, reply) == reply
RecordOver(r) ==
  LET e == req[r].ev
      reply == req[r].reply
  IN
  /\ At(r, "recording")
  /\ recorded' = [recorded EXCEPT ![e] = reply]
  /\ Replied(e, reply)
  /\ Return(r)
  /\ UNCHANGED <<bound, rows, turns, complete, transcript, crashes, excused, messy, strays>>

(* record_channel_event: INSERT OR IGNORE; if another delivery recorded    *)
(* the event first, its reply is the answer.                               *)
Final(e, reply) == IF recorded[e] = None THEN reply ELSE recorded[e]

Record(r) ==
  LET e == req[r].ev
      reply == req[r].reply
  IN
  /\ At(r, "recording")
  /\ recorded' = IF recorded[e] = None THEN [recorded EXCEPT ![e] = reply] ELSE recorded
  /\ Replied(e, Final(e, reply))
  /\ Return(r)
  /\ UNCHANGED <<bound, rows, turns, complete, transcript, crashes, excused, messy, strays>>

-----------------------------------------------------------------------------
(* The ai-service dies and starts again: the database is all it keeps.     *)
Crash ==
  /\ crashes < MaxCrashes
  /\ crashes' = crashes + 1
  /\ req' = [r \in Requests |-> Idle]
  /\ excused' = excused \cup {req[r].ev : r \in {q \in Requests : req[q].pc \in Turning}}
  /\ messy' = (messy \/ \E r \in Requests : TakesTurn(r))
  /\ strays' = strays \cup {req[r].s : r \in {q \in Requests :
                                req[q].pc \in {"opening", "binding", "deleting"}}}
  /\ UNCHANGED <<database, answers>>

-----------------------------------------------------------------------------
Begin(r) == Resume(r) \/ Create(r) \/ Opened(r) \/ OpeningFails(r)
            \/ Bind(r) \/ BindLost(r) \/ Delete(r)
Submit(r) == Duplicate(r) \/ Look(r) \/ Check(r) \/ Read(r) \/ Decide(r)
             \/ DecideFails(r) \/ Count(r) \/ Complete(r) \/ Record(r)

Next ==
  \/ \E r \in Requests :
       \/ Inbound(r) \/ StartCall(r) \/ Begin(r) \/ Submit(r)
       \/ \E e \in Events : Turn(r, e) \/ Message(r, e)
  \/ Crash

Spec == Init /\ [][Next]_vars

-----------------------------------------------------------------------------
Reply == [at : 1..MaxSegments, complete : BOOLEAN]
Segment == [speaker : {"ai", "candidate"}, turn : Nat, ev : Events \cup {None}]

TypeOK ==
  /\ bound \in Ids \cup {None} /\ rows \subseteq Ids /\ complete \subseteq Ids
  /\ turns \in [Ids -> Nat]
  /\ transcript \in [Ids -> Seq(Segment)]
  /\ recorded \in [Events -> Reply \cup {None}]
  /\ req \in [Requests -> [pc : Pcs, ev : Events \cup {None}, s : Ids \cup {None},
                           turn : Nat, reply : Reply \cup {NoReply}]]
  /\ crashes \in 0..MaxCrashes
  /\ answers \in [Events -> SUBSET Reply]
  /\ excused \subseteq Events \cup {None} /\ messy \in BOOLEAN /\ strays \subseteq Ids

(* "duplicate event IDs return the same result": all deliveries of one     *)
(* event that are answered with a reply are answered with the same one,    *)
(* though they look the event up, take a turn and only then record it.     *)
SameAnswer == \A e \in Events : Cardinality(answers[e]) <= 1

(* An event is taken as one turn, however often it is delivered, unless    *)
(* its deliveries were in the agent's hands at the same time, or one of    *)
(* them broke off there.                                                   *)
Taken(e, s) == {i \in 1..Len(transcript[s]) : transcript[s][i].ev = e}
OneTurnPerEvent ==
  \A e \in Events \ excused :
    Cardinality(UNION {Taken(e, s) : s \in Ids}) <= 1

(* The candidate keeps one session, whose opening question is there to be  *)
(* asked from the moment it can be found.                                  *)
BoundHasQuestion ==
  bound # None =>
    /\ bound \in rows
    /\ transcript[bound] # <<>> /\ transcript[bound][1].speaker = "ai"

(* Of several first contacts at once all but one take their session back:  *)
(* no other session is left, save where a start broke off.                 *)
NoStrayInterview ==
  rows \subseteq {bound} \cup strays \cup {req[r].s : r \in Requests}

(* Both at once: the candidate has one interview, that can be gone on      *)
(* with, from the first contact on.                                        *)
OneInterview == BoundHasQuestion /\ NoStrayInterview

(* While messages come one at a time and none breaks off, the transcript   *)
(* is the opening question and then, turn by turn, one answer and one      *)
(* question; the interview ends with its last turn, if not before, and     *)
(* takes no turn once it is complete.                                      *)
Orderly(t) ==
  \A i \in 1..Len(t) :
    /\ t[i].turn = i \div 2
    /\ t[i].speaker = IF i % 2 = 1 THEN "ai" ELSE "candidate"
TurnsInOrder ==
  ~messy /\ bound # None =>
    /\ Orderly(transcript[bound])
    /\ turns[bound] <= MaxTurns
    /\ bound \in complete =>
         /\ Len(transcript[bound]) = 2 * turns[bound] + 1
         /\ \A r \in Requests : ~TakesTurn(r)

(* What the candidate was told stands, though turns overlap, the planner   *)
(* fails and the service dies between the statements of a turn: the reply  *)
(* to an event is the agent's, in the candidate's transcript, to the words *)
(* of that very event and under their number; and if it says that the      *)
(* interview is over, the database does.                                   *)
Words(turn, e) == [speaker |-> "candidate", turn |-> turn, ev |-> e]
Told(t, e, reply) ==
  /\ reply.at \in 1..Len(t) /\ t[reply.at].speaker = "ai"
  /\ \E i \in 1..(reply.at - 1) : t[i] = Words(t[reply.at].turn, e)
Stands(e, reply) ==
  /\ bound # None /\ Told(transcript[bound], e, reply)
  /\ reply.complete => bound \in complete
RepliesStand == \A e \in Events : \A reply \in answers[e] : Stands(e, reply)

(* A turn is kept: in its order while nothing overlaps or breaks off, and  *)
(* for good, whatever does, once it is answered.                           *)
TurnsKept == TurnsInOrder /\ RepliesStand
=============================================================================
