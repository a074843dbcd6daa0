------------------------ MODULE NativeVoice_proofs -------------------------
(***************************************************************************)
(* Proofs about the two kinds of voice session that native_voice.rs serves *)
(* side by side.                                                           *)
(*                                                                         *)
(* SpeechStudio, for any requests, sweepers, ids and limits: its table is  *)
(* a bounded pool of sessions, an interrupt is granted while there is a    *)
(* speech, is heeded by it, and by no other, and a recording keeps within  *)
(* its limit.                                                              *)
(*                                                                         *)
(* ManagedCalls, for any session ids, provider calls, requests in progress *)
(* and retries, and every capacity of the window of seen keys but 0        *)
(* (BoundedSeen::new makes a 0 a 1).                                       *)
(***************************************************************************)
EXTENDS SpeechStudio, ManagedCalls, SequenceTheorems, TLAPS

-----------------------------------------------------------------------------
(* SpeechStudio.                                                           *)

Call == [pc : Pcs, s : Ids \cup {0}, n : {0} \cup Pieces, cut : BOOLEAN,
         alone : BOOLEAN, todo : SUBSET Ids]
Typed ==
  /\ sessions \subseteq Ids /\ closed \subseteq Ids
  /\ call \in [Actors -> Call]

(* The table: who starts a session has it alone, who ends one closed it.   *)
EndingPcs == {"cancelling", "lowering", "removing"}
HasSession(q, in, shut) ==
  /\ q.pc = "opening" => q.s \notin in \cup shut
  /\ q.pc \in EndingPcs => q.s \in shut
  /\ q.pc \notin {"none", "sweeping"} => q.s \in Ids
  /\ q.todo \subseteq in \cup shut
CallsHave == \A c \in Actors : HasSession(call[c], sessions, closed)
StartsApart ==
  \A c, d \in Actors :
    c # d /\ call[c].pc = "opening" /\ call[d].pc = "opening" => call[c].s # call[d].s
Table == CallsHave /\ StartsApart

(* The flags: a speech that has cleared the cancellation is cut exactly if *)
(* it stands, unless another speech of its session cleared it again.       *)
Heard == {"raising", "synthesizing", "checking"}
Hears(q, cut) ==
  /\ q.pc = "readying" => ~q.cut
  /\ q.pc \in Heard /\ q.s \in cut => q.cut
  /\ q.pc \in Heard /\ q.cut /\ q.alone => q.s \in cut
SpeechesHear == \A c \in Clients : Hears(call[c], cancelled)
AloneIsAlone ==
  \A c, d \in Clients :
    c # d /\ call[c].pc \in Speech /\ call[d].pc \in Speech /\ call[c].s = call[d].s
      => ~call[c].alone
Flags == /\ SpeechesHear /\ AloneIsAlone
         /\ CutIsHeeded /\ NoSpuriousCancel /\ Interruptible

IInv == Typed /\ Table /\ Flags

-----------------------------------------------------------------------------
(* What a step does to the calls in progress. *)
Moves(c, q) == call' = [call EXCEPT ![c] = q]

LEMMA Moved ==
  ASSUME NEW c \in Actors, NEW q, Typed, Moves(c, q)
  PROVE  \A d \in Actors : call'[d] = IF d = c THEN q ELSE call[d]
  BY DEF Typed, Moves

(* The table is kept by a step of c that is right about its own session,   *)
(* and adds to what is or was in the table only what c was starting.       *)
Place(q) == <<q.pc, q.s, q.todo>>
LEMMA TableStep ==
  ASSUME NEW c \in Actors, Typed, Table,
         call' \in [Actors -> Call], sessions' \subseteq Ids, closed' \subseteq Ids,
         \A d \in Actors \ {c} : Place(call'[d]) = Place(call[d]),
         HasSession(call'[c], sessions', closed'),
         call'[c].pc = "opening" =>
           \A d \in Actors \ {c} : call[d].pc = "opening" => call[d].s # call'[c].s,
         closed \subseteq closed',
         sessions \cup closed \subseteq sessions' \cup closed',
         \A x \in (sessions' \cup closed') \ (sessions \cup closed) :
           call[c].pc = "opening" /\ call[c].s = x
  PROVE  Typed' /\ Table'
<1>1. \A d \in Actors \ {c} :
        call'[d].pc = call[d].pc /\ call'[d].s = call[d].s /\ call'[d].todo = call[d].todo
  BY DEF Place
<1>2. CallsHave'
  <2> SUFFICES ASSUME NEW d \in Actors \ {c}  PROVE  HasSession(call'[d], sessions', closed')
    BY DEF CallsHave
  <2>1. HasSession(call[d], sessions, closed)
    BY DEF Table, CallsHave
  <2>2. call[d].pc = "opening" /\ call[c].pc = "opening" => call[d].s # call[c].s
    BY DEF Table, StartsApart
  <2> QED
    BY <1>1, <2>1, <2>2 DEF HasSession, EndingPcs
<1>3. StartsApart'
  BY <1>1 DEF Table, StartsApart
<1> QED
  BY <1>2, <1>3 DEF Typed, Table

(* A step of c alone that leaves the table. *)
LEMMA TableLeft ==
  ASSUME NEW c \in Actors, NEW q \in Call, Typed, Table, Moves(c, q),
         HasSession(q, sessions, closed), q.pc # "opening", UNCHANGED <<sessions, closed>>
  PROVE  Typed' /\ Table'
<1>1. \A d \in Actors : call'[d] = IF d = c THEN q ELSE call[d]
  BY Moved
<1>2. call' \in [Actors -> Call]
  BY DEF Typed, Moves
<1>3. \A d \in Actors \ {c} : Place(call'[d]) = Place(call[d])
  BY <1>1
<1>4. call'[c] = q /\ HasSession(call'[c], sessions', closed')
  BY <1>1
<1> QED
  BY <1>2, <1>3, <1>4, TableStep DEF Typed

(* The flags are kept by a step that takes no part in a speech.            *)
LEMMA FlagsLeft ==
  ASSUME NEW c \in Actors, NEW q, Typed, Flags, Moves(c, q),
         q.pc \notin Speech \cup {"generated", "withdrawn"}, call[c].pc # "storing",
         UNCHANGED <<cancelled, speaking>>, closed \subseteq closed'
  PROVE  Flags'
<1>1. \A d \in Actors : call'[d] = IF d = c THEN q ELSE call[d]
  BY Moved
<1>2. Clients \subseteq Actors
  BY DEF Actors
<1>3. SpeechesHear'
  BY <1>1, <1>2 DEF Flags, SpeechesHear, Hears, Heard, Speech
<1>4. AloneIsAlone'
  BY <1>1, <1>2 DEF Flags, AloneIsAlone
<1>5. CutIsHeeded' /\ NoSpuriousCancel'
  BY <1>1, <1>2 DEF Flags, CutIsHeeded, NoSpuriousCancel, At
<1>6. Interruptible'
  BY <1>1, <1>2 DEF Flags, Interruptible, At, Speech
<1> QED
  BY <1>3, <1>4, <1>5, <1>6 DEF Flags

-----------------------------------------------------------------------------
LEMMA NoCallIs ==
  /\ NoCall \in Call /\ NoCall.pc = "none" /\ NoCall.todo = {}
  /\ \A in, shut : HasSession(NoCall, in, shut)
  /\ NoCall.pc \notin Speech \cup {"generated", "withdrawn", "opening"}
  BY DEF NoCall, Call, Pcs, HasSession, EndingPcs, Speech

LEMMA Facts ==
  ASSUME NEW c \in Actors, IInv
  PROVE  /\ Typed /\ Table /\ Flags /\ call \in [Actors -> Call] /\ call[c] \in Call
         /\ HasSession(call[c], sessions, closed)
         /\ sessions \subseteq Ids /\ closed \subseteq Ids
  BY DEF IInv, Typed, Table, CallsHave

(* Calls that answer, outside a speech. *)
LEMMA ReturnKeeps ==
  ASSUME NEW c \in Actors, IInv, Return(c), call[c].pc # "storing",
         UNCHANGED <<sessions, flags>>
  PROVE  IInv'
<1>1. Moves(c, NoCall)
  BY DEF Return, Moves
<1>2. Typed' /\ Table'
  BY <1>1, Facts, NoCallIs, TableLeft DEF flags
<1>3. Flags'
  BY <1>1, Facts, NoCallIs, FlagsLeft DEF flags
<1> QED
  BY <1>2, <1>3 DEF IInv

(* Calls that begin or go on outside a speech, with the tables as they are.*)
LEMMA QuietKeeps ==
  ASSUME NEW c \in Actors, NEW q \in Call, IInv, Moves(c, q),
         q.pc \in {"recording", "sweeping"}, call[c].pc # "storing",
         q.pc = "recording" => q.s \in Ids, q.todo \subseteq sessions \cup closed,
         UNCHANGED <<sessions, flags>>
  PROVE  IInv'
<1>1. HasSession(q, sessions, closed)
  BY DEF HasSession, EndingPcs
<1>2. Typed' /\ Table'
  BY <1>1, Facts, TableLeft DEF flags
<1>3. Flags'
  BY Facts, FlagsLeft DEF flags, Speech
<1> QED
  BY <1>2, <1>3 DEF IInv

LEMMA StartCheckKeeps ==
  ASSUME NEW c \in Actors, IInv, StartCheck(c)  PROVE  IInv'
<1>1. PICK s \in Ids : Unused(s) /\ Enter(c, "opening", s)
  BY DEF StartCheck
<1> DEFINE q == [call[c] EXCEPT !.pc = "opening", !.s = s]
<1>2. /\ Moves(c, q) /\ q \in Call /\ q.pc = "opening" /\ q.s = s /\ q.todo = call[c].todo
  BY <1>1, Facts DEF Moves, Enter, Call, Pcs
<1> HIDE DEF q
<1>3. UNCHANGED <<sessions, closed, cancelled, speaking>> /\ call[c].pc = "none"
  BY DEF StartCheck, flags, At
<1>4. \A d \in Actors : call'[d] = IF d = c THEN q ELSE call[d]
  BY <1>2, Facts, Moved
<1>5. Typed' /\ Table'
  <2>1. HasSession(call'[c], sessions', closed')
    BY <1>1, <1>2, <1>3, <1>4, Facts DEF HasSession, EndingPcs, Unused
  <2>2. \A d \in Actors : call[d].s # call'[c].s
    BY <1>1, <1>2, <1>4 DEF Unused
  <2>3. call' \in [Actors -> Call]
    BY <1>2, Facts DEF Moves
  <2>4. \A d \in Actors \ {c} : Place(call'[d]) = Place(call[d])
    BY <1>4
  <2> QED
    BY <1>3, <2>1, <2>2, <2>3, <2>4, Facts, TableStep
<1>6. Flags'
  BY <1>2, <1>3, Facts, FlagsLeft DEF Speech
<1> QED
  BY <1>5, <1>6 DEF IInv

LEMMA StartInsertKeeps ==
  ASSUME NEW c \in Actors, IInv, StartInsert(c)
  PROVE  IInv' /\ call[c].s \in Ids /\ call[c].s \notin sessions \cup closed
<1>1. /\ Moves(c, NoCall) /\ sessions' = sessions \cup {call[c].s}
      /\ UNCHANGED <<closed, cancelled, speaking>> /\ call[c].pc = "opening"
  BY DEF StartInsert, Return, Moves, flags, At
<1>2. call[c].s \in Ids /\ call[c].s \notin sessions \cup closed
  BY <1>1, Facts DEF HasSession
<1>3. \A d \in Actors : call'[d] = IF d = c THEN NoCall ELSE call[d]
  BY <1>1, Facts, Moved
<1>4. Typed' /\ Table'
  <2>1. HasSession(call'[c], sessions', closed') /\ call'[c].pc # "opening"
    BY <1>3, NoCallIs
  <2>2. call' \in [Actors -> Call]
    BY <1>1, Facts, NoCallIs DEF Moves
  <2>3. \A d \in Actors \ {c} : Place(call'[d]) = Place(call[d])
    BY <1>3
  <2> QED
    BY <1>1, <1>2, <2>1, <2>2, <2>3, Facts, TableStep
<1>5. Flags'
  BY <1>1, Facts, NoCallIs, FlagsLeft
<1> QED
  BY <1>2, <1>4, <1>5 DEF IInv

(* A session that is or was in the table is closed, by a request or sweep. *)
LEMMA ClosingKeeps ==
  ASSUME NEW c \in Actors, NEW q \in Call, IInv, Moves(c, q),
         q.pc = "cancelling", q.s \in sessions \cup closed,
         q.todo \subseteq sessions \cup closed,
         call[c].pc # "storing", closed' = closed \cup {q.s},
         UNCHANGED <<sessions, cancelled, speaking>>
  PROVE  IInv'
<1>1. \A d \in Actors : call'[d] = IF d = c THEN q ELSE call[d]
  BY Facts, Moved
<1>2. Typed' /\ Table'
  <2>1. HasSession(call'[c], sessions', closed') /\ call'[c].pc # "opening"
    BY <1>1, Facts DEF HasSession, EndingPcs
  <2>2. call' \in [Actors -> Call]
    BY Facts DEF Moves
  <2>3. \A d \in Actors \ {c} : Place(call'[d]) = Place(call[d])
    BY <1>1
  <2>4. closed' \subseteq Ids /\ sessions' \subseteq Ids
    BY Facts
  <2>5. sessions' \cup closed' = sessions \cup closed /\ closed \subseteq closed'
    OBVIOUS
  <2> QED
    BY <2>1, <2>2, <2>3, <2>4, <2>5, Facts, TableStep
<1>3. Flags'
  BY Facts, FlagsLeft DEF Speech
<1> QED
  BY <1>2, <1>3 DEF IInv

LEMMA RemoveKeeps ==
  ASSUME NEW c \in Actors, IInv, EndRemoves(c)
  PROVE  IInv' /\ call[c].s \in closed /\ call[c].s \in Ids
<1>1. /\ sessions' = sessions \ {call[c].s} /\ call[c].pc = "removing"
      /\ UNCHANGED <<closed, cancelled, speaking>>
  BY DEF EndRemoves, At, flags
<1>2. call[c].s \in closed /\ call[c].s \in Ids /\ call[c].todo \subseteq sessions \cup closed
  BY <1>1, Facts DEF HasSession, EndingPcs
<1>3. PICK q \in Call : /\ Moves(c, q) /\ q.pc \in {"none", "sweeping"}
                        /\ q.todo \subseteq sessions \cup closed
  <2>1. CASE Return(c)
    BY <2>1, NoCallIs DEF Return, Moves
  <2>2. CASE Goto(c, "sweeping")
    <3> DEFINE p == [call[c] EXCEPT !.pc = "sweeping"]
    <3>1. Moves(c, p) /\ p \in Call /\ p.pc = "sweeping" /\ p.todo = call[c].todo
      BY <2>2, Facts DEF Goto, Moves, Call, Pcs
    <3> HIDE DEF p
    <3> QED
      BY <1>2, <3>1
  <2> QED
    BY <2>1, <2>2 DEF EndRemoves
<1>4. \A d \in Actors : call'[d] = IF d = c THEN q ELSE call[d]
  BY <1>3, Facts, Moved
<1>5. Typed' /\ Table'
  <2>1. sessions' \cup closed' = sessions \cup closed
    BY <1>1, <1>2
  <2>2. HasSession(call'[c], sessions', closed') /\ call'[c].pc # "opening"
    BY <1>3, <1>4, <2>1 DEF HasSession, EndingPcs
  <2>3. call' \in [Actors -> Call]
    BY <1>3, Facts DEF Moves
  <2>4. \A d \in Actors \ {c} : Place(call'[d]) = Place(call[d])
    BY <1>4
  <2> QED
    BY <1>1, <2>1, <2>2, <2>3, <2>4, Facts, TableStep
<1>6. Flags'
  BY <1>1, <1>3, Facts, FlagsLeft DEF Speech
<1> QED
  BY <1>2, <1>5, <1>6 DEF IInv

LEMMA OutsideKeeps ==
  ASSUME NEW c \in Actors, IInv,
         \/ StartRefused(c) \/ Recorded(c) \/ Answer(c)
         \/ SweepBegin(c) \/ SweepSkips(c) \/ SweepEnds(c) \/ SweepDone(c)
         \/ \E s \in Ids : EndSession(c, s)
         \/ \E s \in Ids, n \in Pieces : Record(c, s, n)
  PROVE  IInv'
<1>0. call \in [Actors -> Call] /\ call[c] \in Call /\ sessions \subseteq Ids
      /\ call[c].todo \subseteq sessions \cup closed
  BY Facts DEF HasSession
<1>1. CASE StartRefused(c) \/ Recorded(c) \/ Answer(c) \/ SweepDone(c)
  BY <1>1, ReturnKeeps DEF StartRefused, Recorded, Answer, SweepDone, At
<1>2. CASE SweepBegin(c)
  <2> DEFINE q == [call[c] EXCEPT !.pc = "sweeping", !.todo = sessions]
  <2>1. Moves(c, q)
    BY <1>0, <1>2 DEF SweepBegin, Moves
  <2>2. q \in Call /\ q.pc = "sweeping" /\ q.todo = sessions
    BY <1>0 DEF Call, Pcs
  <2> HIDE DEF q
  <2> QED
    BY <1>2, <2>1, <2>2, QuietKeeps DEF SweepBegin, At
<1>3. CASE SweepSkips(c)
  <2>1. PICK s \in call[c].todo : call' = [call EXCEPT ![c].todo = @ \ {s}]
    BY <1>3 DEF SweepSkips
  <2> DEFINE q == [call[c] EXCEPT !.todo = @ \ {s}]
  <2>2. Moves(c, q)
    BY <1>0, <2>1 DEF Moves
  <2>3. q \in Call /\ q.pc = call[c].pc /\ q.todo = call[c].todo \ {s}
    BY <1>0 DEF Call
  <2> HIDE DEF q
  <2> QED
    BY <1>0, <1>3, <2>2, <2>3, QuietKeeps DEF SweepSkips, At
<1>4. CASE SweepEnds(c)
  <2>1. PICK s \in call[c].todo :
          /\ closed' = closed \cup {s}
          /\ call' = [call EXCEPT ![c].pc = "cancelling", ![c].s = s, ![c].todo = @ \ {s}]
    BY <1>4 DEF SweepEnds
  <2> DEFINE q == [call[c] EXCEPT !.pc = "cancelling", !.s = s, !.todo = @ \ {s}]
  <2>2. Moves(c, q)
    BY <1>0, <2>1 DEF Moves
  <2>3. q \in Call /\ q.pc = "cancelling" /\ q.s = s /\ q.todo = call[c].todo \ {s}
    BY <1>0 DEF Call, Pcs
  <2> HIDE DEF q
  <2> QED
    BY <1>0, <1>4, <2>1, <2>2, <2>3, ClosingKeeps DEF SweepEnds, At
<1>5. ASSUME NEW s \in Ids, EndSession(c, s)  PROVE  IInv'
  <2> DEFINE q == [call[c] EXCEPT !.pc = "cancelling", !.s = s]
  <2>1. Moves(c, q)
    BY <1>0, <1>5 DEF EndSession, Enter, Moves
  <2>2. q \in Call /\ q.pc = "cancelling" /\ q.s = s /\ q.todo = call[c].todo
    BY <1>0 DEF Call, Pcs
  <2> HIDE DEF q
  <2> QED
    BY <1>0, <1>5, <2>1, <2>2, ClosingKeeps DEF EndSession, At
<1>6. ASSUME NEW s \in Ids, NEW n \in Pieces, Record(c, s, n)  PROVE  IInv'
  <2> DEFINE q == [call[c] EXCEPT !.pc = "recording", !.s = s, !.n = n]
  <2>1. Moves(c, q)
    BY <1>0, <1>6 DEF Record, Moves
  <2>2. q \in Call /\ q.pc = "recording" /\ q.s = s /\ q.todo = call[c].todo
    BY <1>0 DEF Call, Pcs
  <2> HIDE DEF q
  <2> QED
    BY <1>0, <1>6, <2>1, <2>2, QuietKeeps DEF Record, Usable, At
<1> QED
  BY <1>1, <1>2, <1>3, <1>4, <1>5, <1>6

-----------------------------------------------------------------------------
(* The steps of a speech, and what cuts it.                                *)
LEMMA SpeakKeeps ==
  ASSUME NEW c \in Clients, NEW s \in Ids, IInv, Speak(c, s)  PROVE  IInv'
<1> DEFINE others == Others(c, s)
           q == [NoCall EXCEPT !.pc = "readying", !.s = s, !.alone = others = {}]
<1>0. c \in Actors /\ Clients \subseteq Actors /\ others \subseteq Clients \ {c}
  BY DEF Actors, Others
<1>1. UNCHANGED <<sessions, closed, cancelled, speaking>>
  BY DEF Speak, flags
<1>2. /\ q \in Call /\ q.pc = "readying" /\ q.s = s /\ q.todo = {} /\ q.cut = FALSE
      /\ q.alone <=> others = {}
  BY DEF NoCall, Call, Pcs
<1>3. \A d \in Actors :
        call'[d] = IF d = c THEN q
                   ELSE IF d \in others THEN [call[d] EXCEPT !.alone = FALSE] ELSE call[d]
  BY DEF Speak
<1>4. call' = [d \in Actors |-> call'[d]]
  BY DEF Speak
<1> HIDE DEF q
<1>5. \A d \in Actors \ {c} :
        /\ call'[d] \in Call /\ Place(call'[d]) = Place(call[d])
        /\ call'[d].pc = call[d].pc /\ call'[d].s = call[d].s /\ call'[d].cut = call[d].cut
        /\ call'[d].alone = IF d \in others THEN FALSE ELSE call[d].alone
  <2> HIDE DEF others
  <2> TAKE d \in Actors \ {c}
  <2>1. call[d] \in Call
    BY Facts
  <2>2. CASE d \in others
    <3>1. call'[d] = [call[d] EXCEPT !.alone = FALSE]
      BY <1>3, <2>2
    <3> QED
      BY <2>1, <2>2, <3>1 DEF Call, Place
  <2>3. CASE d \notin others
    BY <1>3, <2>1, <2>3
  <2> QED
    BY <2>2, <2>3
<1>6. call'[c] = q
  BY <1>0, <1>3
<1>7. Typed' /\ Table'
  <2>1. HasSession(call'[c], sessions', closed') /\ call'[c].pc # "opening"
    BY <1>2, <1>6 DEF HasSession, EndingPcs
  <2>2. call' \in [Actors -> Call]
    BY <1>2, <1>4, <1>5, <1>6
  <2> QED
    BY <1>0, <1>1, <1>5, <2>1, <2>2, Facts, TableStep
<1>8. SpeechesHear'
  <2>1. Hears(call'[c], cancelled')
    BY <1>2, <1>6 DEF Hears, Heard
  <2>2. ASSUME NEW d \in Clients \ {c}  PROVE  Hears(call'[d], cancelled')
    <3>1. Hears(call[d], cancelled)
      BY <1>0, Facts DEF Flags, SpeechesHear
    <3> QED
      BY <1>0, <1>1, <1>5, <3>1 DEF Hears
  <2> QED
    BY <2>1, <2>2 DEF SpeechesHear
<1>9. AloneIsAlone'
  <2>1. \A d \in Clients \ {c} :
          call[d].pc \in Speech /\ call[d].s = s <=> d \in others
    BY DEF Others
  <2> HIDE DEF others
  <2> SUFFICES ASSUME NEW d \in Clients, NEW e \in Clients, d # e,
                      call'[d].pc \in Speech, call'[e].pc \in Speech, call'[d].s = call'[e].s
               PROVE  ~call'[d].alone
    BY DEF AloneIsAlone
  <2>2. CASE d = c
    <3>1. e \in others
      <4>1. call[e].pc \in Speech /\ call[e].s = s
        BY <1>0, <1>2, <1>5, <1>6, <2>2
      <4> QED
        BY <2>1, <2>2, <4>1
    <3> QED
      BY <1>2, <1>6, <2>2, <3>1
  <2>3. CASE e = c
    <3>1. d \in others
      <4>1. call[d].pc \in Speech /\ call[d].s = s
        BY <1>0, <1>2, <1>5, <1>6, <2>3
      <4> QED
        BY <2>1, <2>3, <4>1
    <3> QED
      BY <1>0, <1>5, <2>3, <3>1
  <2>4. CASE d # c /\ e # c
    <3>1. ~call[d].alone
      BY <1>0, <1>5, <2>4, Facts DEF Flags, AloneIsAlone
    <3> QED
      BY <1>0, <1>5, <2>4, <3>1
  <2> QED
    BY <2>2, <2>3, <2>4
<1>10. CutIsHeeded' /\ NoSpuriousCancel'
  BY <1>0, <1>2, <1>5, <1>6, Facts DEF Flags, CutIsHeeded, NoSpuriousCancel, At
<1>11. Interruptible'
  <2> SUFFICES ASSUME NEW d \in Clients, call'[d].pc = "synthesizing",
                      call'[d].alone, ~call'[d].cut
               PROVE  \/ call'[d].s \in speaking \cup closed
                      \/ \E e \in Actors : call'[e].pc = "storing" /\ call'[e].s = call'[d].s
    BY <1>1 DEF Interruptible, At
  <2>1. d # c /\ call[d].pc = "synthesizing" /\ call[d].alone /\ ~call[d].cut
    BY <1>0, <1>2, <1>5, <1>6
  <2>2. \/ call[d].s \in speaking \cup closed
        \/ \E e \in Actors : call[e].pc = "storing" /\ call[e].s = call[d].s
    BY <2>1, Facts, <1>0 DEF Flags, Interruptible, At
  <2>3. call[c].pc = "none"
    BY DEF Speak, Usable, At
  <2> QED
    BY <1>0, <1>5, <2>1, <2>2, <2>3
<1> QED
  BY <1>7, <1>8, <1>9, <1>10, <1>11 DEF IInv, Flags

LEMMA GotoIs ==
  ASSUME NEW c \in Actors, NEW pc \in Pcs, IInv, Goto(c, pc)
  PROVE  \E q \in Call :
           /\ Moves(c, q) /\ q.pc = pc /\ q.s = call[c].s /\ q.todo = call[c].todo
           /\ q.cut = call[c].cut /\ q.alone = call[c].alone
<1> DEFINE q == [call[c] EXCEPT !.pc = pc]
<1>1. Moves(c, q)
  BY Facts DEF Goto, Moves
<1>2. /\ q \in Call /\ q.pc = pc /\ q.s = call[c].s /\ q.todo = call[c].todo
      /\ q.cut = call[c].cut /\ q.alone = call[c].alone
  BY Facts DEF Call
<1> HIDE DEF q
<1> QED
  BY <1>1, <1>2

(* A speech that goes on leaves the table. *)
LEMMA SpeechTable ==
  ASSUME NEW c \in Actors, NEW q \in Call, IInv, Moves(c, q), q.s = call[c].s,
         q.todo = call[c].todo, q.pc \in Speech \cup {"generated", "withdrawn"},
         call[c].pc \in Speech, UNCHANGED <<sessions, closed>>
  PROVE  Typed' /\ Table'
<1>1. HasSession(q, sessions, closed) /\ q.pc # "opening"
  BY Facts DEF HasSession, EndingPcs, Speech
<1> QED
  BY <1>1, Facts, TableLeft

(* What the flags say of the speeches before a step, and of the others     *)
(* after it.                                                               *)
LEMMA FlagFacts ==
  ASSUME NEW c \in Clients, IInv
  PROVE  /\ c \in Actors
         /\ Hears(call[c], cancelled)
         /\ call[c].pc = "generated" /\ call[c].cut => ~call[c].alone
         /\ call[c].pc = "withdrawn" => call[c].cut
         /\ call[c].pc = "synthesizing" /\ call[c].alone /\ ~call[c].cut =>
              \/ call[c].s \in speaking \cup closed
              \/ \E d \in Actors : call[d].pc = "storing" /\ call[d].s = call[c].s
         /\ \A d \in Clients : d # c /\ call[c].pc \in Speech /\ call[d].pc \in Speech
                                 /\ call[c].s = call[d].s => ~call[c].alone
  BY DEF IInv, Flags, SpeechesHear, AloneIsAlone, CutIsHeeded, NoSpuriousCancel,
     Interruptible, At, Actors

LEMMA FlagsFollow ==
  ASSUME IInv,
         \A d \in Clients :
           /\ Hears(call'[d], cancelled')
           /\ call'[d].pc = "generated" /\ call'[d].cut => ~call'[d].alone
           /\ call'[d].pc = "withdrawn" => call'[d].cut
           /\ call'[d].pc = "synthesizing" /\ call'[d].alone /\ ~call'[d].cut =>
                \/ call'[d].s \in speaking' \cup closed'
                \/ \E e \in Actors : call'[e].pc = "storing" /\ call'[e].s = call'[d].s
           /\ call'[d].pc \in Speech =>
                call[d].pc \in Speech /\ call'[d].s = call[d].s /\ call'[d].alone = call[d].alone
  PROVE  Flags'
<1>1. AloneIsAlone'
  BY DEF IInv, Flags, AloneIsAlone
<1> QED
  BY <1>1 DEF Flags, SpeechesHear, CutIsHeeded, NoSpuriousCancel, Interruptible, At

LEMMA SpeechKeeps ==
  ASSUME NEW c \in Clients, IInv, Ready(c) \/ Raise(c) \/ Check(c)
  PROVE  IInv'
<1>0. c \in Actors /\ Clients \subseteq Actors /\ Typed
  BY Facts DEF Actors
<1>1. PICK q \in Call :
        /\ Moves(c, q) /\ q.pc \in {"raising", "synthesizing", "withdrawn", "generated"}
        /\ q.s = call[c].s /\ q.todo = call[c].todo
        /\ q.cut = call[c].cut /\ q.alone = call[c].alone
        /\ Goto(c, q.pc)
  <2>1. PICK p \in {"raising", "synthesizing", "withdrawn", "generated"} : Goto(c, p)
    BY DEF Ready, Raise, Check
  <2> QED
    BY <1>0, <2>1, GotoIs DEF Pcs
<1>2. \A d \in Actors : call'[d] = IF d = c THEN q ELSE call[d]
  BY <1>0, <1>1, Moved
<1>3. UNCHANGED <<sessions, closed>> /\ call[c].pc \in {"readying", "raising", "checking"}
  BY DEF Ready, Raise, Check, flags, At
<1>4. Typed' /\ Table'
  BY <1>0, <1>1, <1>3, SpeechTable DEF Speech
<1>5. CASE Ready(c)
  <2>1. /\ call[c].pc = "readying" /\ q.pc = "raising" /\ speaking' = speaking
        /\ cancelled' = cancelled \ {call[c].s}
    BY <1>0, <1>1, <1>2, <1>5, Facts DEF Ready, At, Goto, Call
  <2>2. \A d \in Clients :
          /\ Hears(call'[d], cancelled')
          /\ call'[d].pc = "generated" /\ call'[d].cut => ~call'[d].alone
          /\ call'[d].pc = "withdrawn" => call'[d].cut
    BY <1>0, <1>1, <1>2, <2>1, FlagFacts DEF Hears, Heard, Speech
  <2>3. ASSUME NEW d \in Clients, call'[d].pc = "synthesizing", call'[d].alone, ~call'[d].cut
        PROVE  \/ call'[d].s \in speaking' \cup closed'
               \/ \E e \in Actors : call'[e].pc = "storing" /\ call'[e].s = call'[d].s
    BY <1>0, <1>2, <1>3, <2>1, <2>3, FlagFacts
  <2>4. Flags'
    BY <1>0, <1>1, <1>2, <2>1, <2>2, <2>3, FlagsFollow DEF Speech
  <2> QED
    BY <1>4, <2>4 DEF IInv
<1>6. CASE Raise(c)
  <2>1. /\ call[c].pc = "raising" /\ q.pc = "synthesizing" /\ cancelled' = cancelled
        /\ speaking' = speaking \cup {call[c].s}
    BY <1>0, <1>1, <1>2, <1>6, Facts DEF Raise, At, Goto, Call
  <2>2. \A d \in Clients :
          /\ Hears(call'[d], cancelled')
          /\ call'[d].pc = "generated" /\ call'[d].cut => ~call'[d].alone
          /\ call'[d].pc = "withdrawn" => call'[d].cut
    BY <1>0, <1>1, <1>2, <2>1, FlagFacts DEF Hears, Heard
  <2>3. ASSUME NEW d \in Clients, call'[d].pc = "synthesizing", call'[d].alone, ~call'[d].cut
        PROVE  \/ call'[d].s \in speaking' \cup closed'
               \/ \E e \in Actors : call'[e].pc = "storing" /\ call'[e].s = call'[d].s
    BY <1>0, <1>1, <1>2, <1>3, <2>1, <2>3, FlagFacts
  <2>4. Flags'
    BY <1>0, <1>1, <1>2, <2>1, <2>2, <2>3, FlagsFollow DEF Speech
  <2> QED
    BY <1>4, <2>4 DEF IInv
<1>7. CASE Check(c)
  <2>1. /\ call[c].pc = "checking" /\ cancelled' = cancelled /\ speaking' = speaking
        /\ q.pc = IF call[c].s \in cancelled THEN "withdrawn" ELSE "generated"
    BY <1>0, <1>1, <1>2, <1>7, Facts DEF Check, At, Goto, Call, flags
  <2>2. \A d \in Clients :
          /\ Hears(call'[d], cancelled')
          /\ call'[d].pc = "generated" /\ call'[d].cut => ~call'[d].alone
          /\ call'[d].pc = "withdrawn" => call'[d].cut
    BY <1>0, <1>1, <1>2, <2>1, FlagFacts DEF Hears, Heard
  <2>3. ASSUME NEW d \in Clients, call'[d].pc = "synthesizing", call'[d].alone, ~call'[d].cut
        PROVE  \/ call'[d].s \in speaking' \cup closed'
               \/ \E e \in Actors : call'[e].pc = "storing" /\ call'[e].s = call'[d].s
    BY <1>0, <1>2, <1>3, <2>1, <2>3, FlagFacts
  <2>4. Flags'
    BY <1>0, <1>1, <1>2, <2>1, <2>2, <2>3, FlagsFollow DEF Speech
  <2> QED
    BY <1>4, <2>4 DEF IInv
<1> QED
  BY <1>5, <1>6, <1>7

LEMMA SynthesizedKeeps ==
  ASSUME NEW c \in Clients, IInv, Synthesized(c)
  PROVE  IInv'
<1>0. c \in Actors /\ Clients \subseteq Actors /\ Typed /\ Table
  BY Facts DEF Actors
<1>1. /\ call[c].pc = "synthesizing" /\ speaking' = speaking \ {call[c].s}
      /\ UNCHANGED <<sessions, closed, cancelled>>
  BY DEF Synthesized, At
<1>2. PICK q \in Call :
        /\ Moves(c, q) /\ Typed' /\ Table'
        /\ \/ q.pc = "none"
           \/ /\ q.pc = "checking" /\ q.s = call[c].s
              /\ q.cut = call[c].cut /\ q.alone = call[c].alone
  <2>1. CASE Return(c)
    <3>1. Moves(c, NoCall) /\ NoCall \in Call /\ NoCall.pc = "none"
      BY <2>1, NoCallIs DEF Return, Moves
    <3>2. Typed' /\ Table'
      BY <1>0, <1>1, <3>1, NoCallIs, TableLeft
    <3> QED
      BY <3>1, <3>2
  <2>2. CASE Goto(c, "checking")
    <3>1. PICK p \in Call :
            /\ Moves(c, p) /\ p.pc = "checking" /\ p.s = call[c].s /\ p.todo = call[c].todo
            /\ p.cut = call[c].cut /\ p.alone = call[c].alone
      BY <1>0, <2>2, GotoIs DEF Pcs
    <3>2. Typed' /\ Table'
      BY <1>0, <1>1, <3>1, SpeechTable DEF Speech
    <3> QED
      BY <3>1, <3>2
  <2> QED
    BY <2>1, <2>2 DEF Synthesized
<1>3. \A d \in Actors : call'[d] = IF d = c THEN q ELSE call[d]
  BY <1>0, <1>2, Moved
<1>4. \A d \in Clients :
        /\ Hears(call'[d], cancelled')
        /\ call'[d].pc = "generated" /\ call'[d].cut => ~call'[d].alone
        /\ call'[d].pc = "withdrawn" => call'[d].cut
  BY <1>0, <1>1, <1>2, <1>3, FlagFacts DEF Hears, Heard
<1>5. ASSUME NEW d \in Clients, call'[d].pc = "synthesizing", call'[d].alone, ~call'[d].cut
      PROVE  \/ call'[d].s \in speaking' \cup closed'
             \/ \E e \in Actors : call'[e].pc = "storing" /\ call'[e].s = call'[d].s
  <2>1. d # c /\ call'[d] = call[d]
    BY <1>0, <1>2, <1>3, <1>5
  <2>2. call[d].s # call[c].s
    BY <1>0, <1>1, <1>5, <2>1, FlagFacts DEF Speech
  <2> QED
    BY <1>0, <1>1, <1>3, <1>5, <2>1, <2>2, FlagFacts
<1>6. Flags'
  BY <1>0, <1>1, <1>2, <1>3, <1>4, <1>5, FlagsFollow DEF Speech
<1> QED
  BY <1>2, <1>6 DEF IInv

LEMMA InterruptKeeps ==
  ASSUME NEW c \in Actors, NEW s \in Ids, IInv, Interrupt(c, s)
  PROVE  IInv'
<1>0. Clients \subseteq Actors /\ Typed /\ Table /\ HasSession(call[c], sessions, closed)
  BY Facts DEF Actors
<1>1. /\ call[c].pc = "none" /\ speaking' = speaking \ {s}
      /\ UNCHANGED <<sessions, closed, cancelled>>
  BY DEF Interrupt, At
<1> DEFINE q == [call[c] EXCEPT !.pc = "storing", !.s = s]
<1>2. Moves(c, q)
  BY Facts DEF Interrupt, Enter, Moves
<1>3. q \in Call /\ q.pc = "storing" /\ q.s = s /\ q.todo = call[c].todo
  BY Facts DEF Call, Pcs
<1> HIDE DEF q
<1>4. \A d \in Actors : call'[d] = IF d = c THEN q ELSE call[d]
  BY <1>0, <1>2, Moved
<1>5. Typed' /\ Table'
  <2>1. HasSession(q, sessions, closed) /\ q.pc # "opening"
    BY <1>0, <1>3 DEF HasSession, EndingPcs
  <2> QED
    BY <1>0, <1>1, <1>2, <1>3, <2>1, TableLeft
<1>6. \A d \in Clients :
        /\ Hears(call'[d], cancelled')
        /\ call'[d].pc = "generated" /\ call'[d].cut => ~call'[d].alone
        /\ call'[d].pc = "withdrawn" => call'[d].cut
  BY <1>0, <1>1, <1>3, <1>4, FlagFacts DEF Hears, Heard
<1>7. ASSUME NEW d \in Clients, call'[d].pc = "synthesizing", call'[d].alone, ~call'[d].cut
      PROVE  \/ call'[d].s \in speaking' \cup closed'
             \/ \E e \in Actors : call'[e].pc = "storing" /\ call'[e].s = call'[d].s
  <2>1. d # c /\ call'[d] = call[d]
    BY <1>0, <1>3, <1>4, <1>7
  <2>2. CASE call[d].s = s
    BY <1>3, <1>4, <2>1, <2>2
  <2>3. CASE call[d].s # s
    BY <1>0, <1>1, <1>4, <1>7, <2>1, <2>3, FlagFacts
  <2> QED
    BY <2>2, <2>3
<1>8. Flags'
  BY <1>0, <1>3, <1>4, <1>6, <1>7, FlagsFollow DEF Speech
<1> QED
  BY <1>5, <1>8 DEF IInv

LEMMA LowersKeeps ==
  ASSUME NEW c \in Actors, IInv, EndLowers(c)
  PROVE  IInv'
<1>0. Clients \subseteq Actors /\ Typed /\ Table /\ HasSession(call[c], sessions, closed)
  BY Facts DEF Actors
<1>1. /\ call[c].pc = "lowering" /\ speaking' = speaking \ {call[c].s}
      /\ UNCHANGED <<sessions, closed, cancelled>> /\ call[c].s \in closed
  BY <1>0 DEF EndLowers, At, HasSession, EndingPcs
<1>2. PICK q \in Call : /\ Moves(c, q) /\ q.pc = "removing" /\ q.s = call[c].s
                        /\ q.todo = call[c].todo
  BY GotoIs DEF EndLowers, Pcs
<1>3. \A d \in Actors : call'[d] = IF d = c THEN q ELSE call[d]
  BY <1>0, <1>2, Moved
<1>4. Typed' /\ Table'
  <2>1. HasSession(q, sessions, closed) /\ q.pc # "opening"
    BY <1>0, <1>1, <1>2 DEF HasSession, EndingPcs
  <2> QED
    BY <1>0, <1>1, <1>2, <2>1, TableLeft
<1>5. \A d \in Clients :
        /\ Hears(call'[d], cancelled')
        /\ call'[d].pc = "generated" /\ call'[d].cut => ~call'[d].alone
        /\ call'[d].pc = "withdrawn" => call'[d].cut
  BY <1>0, <1>1, <1>2, <1>3, FlagFacts DEF Hears, Heard
<1>6. ASSUME NEW d \in Clients, call'[d].pc = "synthesizing", call'[d].alone, ~call'[d].cut
      PROVE  \/ call'[d].s \in speaking' \cup closed'
             \/ \E e \in Actors : call'[e].pc = "storing" /\ call'[e].s = call'[d].s
  BY <1>0, <1>1, <1>2, <1>3, <1>6, FlagFacts
<1>7. Flags'
  BY <1>0, <1>2, <1>3, <1>5, <1>6, FlagsFollow DEF Speech
<1> QED
  BY <1>4, <1>7 DEF IInv

LEMMA CutCall ==
  \A q \in Call : LET r == [q EXCEPT !.cut = TRUE] IN
    /\ r \in Call /\ r.pc = q.pc /\ r.s = q.s /\ r.todo = q.todo /\ r.alone = q.alone
    /\ r.cut = TRUE
  BY DEF Call

LEMMA CutKeeps ==
  ASSUME NEW c \in Actors, IInv, Store(c) \/ EndCancels(c)
  PROVE  IInv'
<1> DEFINE s == call[c].s
<1>0. Clients \subseteq Actors /\ Typed /\ Table /\ HasSession(call[c], sessions, closed)
  BY Facts DEF Actors
<1>1. PICK pc \in {"none", "lowering"} :
        /\ Cut(c, pc)
        /\ pc = "lowering" <=> call[c].pc = "cancelling"
        /\ call[c].pc \in {"storing", "cancelling"}
        /\ UNCHANGED <<sessions, closed, speaking>>
  BY DEF Store, EndCancels, At
<1>2. cancelled' = cancelled \cup {s}
  BY <1>1 DEF Cut
<1>3. \A d \in Actors :
        call'[d] = IF d = c THEN IF pc = "none" THEN NoCall ELSE [call[c] EXCEPT !.pc = pc]
                   ELSE IF call[d].s = s /\ call[d].pc \in Speech \ {"readying"}
                        THEN [call[d] EXCEPT !.cut = TRUE] ELSE call[d]
  BY <1>1 DEF Cut
<1>4. call' = [d \in Actors |-> call'[d]]
  BY <1>1 DEF Cut
<1>5. /\ call'[c] \in Call /\ call'[c].pc = pc
      /\ HasSession(call'[c], sessions, closed)
  <2>1. CASE pc = "none"
    BY <1>3, <2>1, NoCallIs
  <2>2. CASE pc = "lowering"
    <3> DEFINE q == [call[c] EXCEPT !.pc = pc]
    <3>1. /\ q \in Call /\ q.pc = "lowering" /\ q.s = call[c].s /\ q.todo = call[c].todo
      BY <2>2, Facts DEF Call, Pcs
    <3>2. call'[c] = q
      BY <1>3, <2>2
    <3> HIDE DEF q
    <3>3. HasSession(q, sessions, closed)
      BY <1>0, <1>1, <2>2, <3>1 DEF HasSession, EndingPcs
    <3> QED
      BY <2>2, <3>1, <3>2, <3>3
  <2> QED
    BY <1>1, <2>1, <2>2
<1>6. \A d \in Actors \ {c} :
        /\ call'[d] \in Call /\ Place(call'[d]) = Place(call[d])
        /\ call'[d].pc = call[d].pc /\ call'[d].s = call[d].s
        /\ call'[d].alone = call[d].alone
        /\ call'[d].cut = IF call[d].s = s /\ call[d].pc \in Speech \ {"readying"}
                          THEN TRUE ELSE call[d].cut
  <2> SUFFICES ASSUME NEW d \in Actors \ {c}
               PROVE  /\ call'[d] \in Call /\ Place(call'[d]) = Place(call[d])
                      /\ call'[d].pc = call[d].pc /\ call'[d].s = call[d].s
                      /\ call'[d].alone = call[d].alone
                      /\ call'[d].cut = IF call[d].s = s /\ call[d].pc \in Speech \ {"readying"}
                                        THEN TRUE ELSE call[d].cut
    OBVIOUS
  <2>1. call[d] \in Call
    BY Facts
  <2>2. CASE call[d].s = s /\ call[d].pc \in Speech \ {"readying"}
    <3>1. call'[d] = [call[d] EXCEPT !.cut = TRUE]
      BY <1>3, <2>2
    <3> QED
      BY <2>1, <2>2, <3>1, CutCall DEF Place
  <2>3. CASE ~(call[d].s = s /\ call[d].pc \in Speech \ {"readying"})
    <3>1. call'[d] = call[d]
      BY <1>3, <2>3
    <3> QED
      BY <2>1, <2>3, <3>1
  <2> QED
    BY <2>2, <2>3
<1>7. Typed' /\ Table'
  <2>1. \A d \in Actors : call'[d] \in Call
    BY <1>5, <1>6
  <2>2. [d \in Actors |-> call'[d]] \in [Actors -> Call]
    BY <2>1
  <2>3. call' \in [Actors -> Call]
    BY <1>4, <2>2
  <2>4. sessions' \subseteq Ids /\ closed' \subseteq Ids
    BY <1>0, <1>1 DEF Typed
  <2> QED
    BY <1>0, <1>1, <1>5, <1>6, <2>3, <2>4, TableStep
<1> HIDE DEF s
<1>8. ASSUME NEW d \in Clients
      PROVE  /\ Hears(call'[d], cancelled')
             /\ call'[d].pc = "generated" /\ call'[d].cut => ~call'[d].alone
             /\ call'[d].pc = "withdrawn" => call'[d].cut
  <2>1. CASE d = c
    BY <1>5, <2>1 DEF Hears, Heard
  <2>2. CASE d # c
    <3>1. /\ Hears(call[d], cancelled)
          /\ call[d].pc = "generated" /\ call[d].cut => ~call[d].alone
          /\ call[d].pc = "withdrawn" => call[d].cut
      BY FlagFacts
    <3>2. d \in Actors \ {c}
      BY <1>0, <2>2
    <3>3. Hears(call'[d], cancelled')
      BY <1>2, <1>6, <3>1, <3>2 DEF Hears, Heard, Speech
    <3>4. call[d].pc \in {"generated", "withdrawn"} => call'[d].cut = call[d].cut
      BY <1>6, <3>2 DEF Speech
    <3> QED
      BY <1>6, <3>1, <3>2, <3>3, <3>4
  <2> QED
    BY <2>1, <2>2
<1>9. ASSUME NEW d \in Clients, call'[d].pc = "synthesizing", call'[d].alone, ~call'[d].cut
      PROVE  \/ call'[d].s \in speaking' \cup closed'
             \/ \E e \in Actors : call'[e].pc = "storing" /\ call'[e].s = call'[d].s
  <2>1. d # c /\ call[d].pc = "synthesizing" /\ call[d].alone
    BY <1>0, <1>1, <1>5, <1>6, <1>9
  <2>2. call[d].s # s /\ ~call[d].cut /\ call'[d].s = call[d].s
    BY <1>0, <1>6, <1>9, <2>1 DEF Speech
  <2>3. \/ call[d].s \in speaking \cup closed
        \/ \E e \in Actors : call[e].pc = "storing" /\ call[e].s = call[d].s
    BY <2>1, <2>2, FlagFacts
  <2>4. call[c].s = s
    BY DEF s
  <2> QED
    BY <1>1, <1>6, <2>2, <2>3, <2>4
<1>10. Flags'
  BY <1>0, <1>1, <1>5, <1>6, <1>8, <1>9, FlagsFollow DEF Speech
<1> QED
  BY <1>7, <1>10 DEF IInv

-----------------------------------------------------------------------------
LEMMA StudioSteps ==
  ASSUME IInv, [Next]_vars
  PROVE  IInv'
<1>1. CASE UNCHANGED vars
  BY <1>1 DEF vars, flags, IInv, Typed, Table, CallsHave, HasSession, StartsApart, Flags,
     SpeechesHear, Hears, AloneIsAlone, CutIsHeeded, NoSpuriousCancel, Interruptible, At
<1>2. ASSUME NEW c \in Actors, Ending(c)  PROVE  IInv'
  BY <1>2, CutKeeps, LowersKeeps, RemoveKeeps DEF Ending
<1>3. ASSUME NEW c \in Clients, Starting(c) \/ Store(c) \/ Recorded(c)  PROVE  IInv'
  BY <1>3, StartCheckKeeps, StartInsertKeeps, OutsideKeeps, CutKeeps DEF Starting, Actors
<1>4. ASSUME NEW c \in Clients, Speaking(c)  PROVE  IInv'
  <2>1. CASE Abandoned(c)
    BY <2>1, ReturnKeeps DEF Abandoned, At, Actors
  <2> QED
    BY <1>4, <2>1, SpeechKeeps, SynthesizedKeeps, OutsideKeeps DEF Speaking, Actors
<1>5. ASSUME NEW c \in Clients, NEW s \in Ids,
             \/ Speak(c, s) \/ Interrupt(c, s) \/ EndSession(c, s)
             \/ \E n \in Pieces : Record(c, s, n)
      PROVE  IInv'
  BY <1>5, SpeakKeeps, InterruptKeeps, OutsideKeeps DEF Actors
<1>6. ASSUME NEW c \in Sweepers,
             SweepBegin(c) \/ SweepSkips(c) \/ SweepEnds(c) \/ SweepDone(c)
      PROVE  IInv'
  BY <1>6, OutsideKeeps DEF Actors
<1>7. ASSUME NEW s \in Ids, ClearRecording(s)  PROVE  IInv'
  BY <1>7 DEF ClearRecording, flags, IInv, Typed, Table, CallsHave, HasSession, StartsApart,
     Flags, SpeechesHear, Hears, AloneIsAlone, CutIsHeeded, NoSpuriousCancel, Interruptible, At
<1> QED
  BY <1>1, <1>2, <1>3, <1>4, <1>5, <1>6, <1>7 DEF Next, Actors

LEMMA Invariance == Spec => []IInv
<1>1. Init => IInv
  <2> SUFFICES ASSUME Init  PROVE  IInv
    OBVIOUS
  <2>1. \A c \in Actors : call[c] = NoCall
    BY DEF Init
  <2>2. Typed
    BY NoCallIs DEF Init, Typed
  <2>3. Table
    BY <2>1, NoCallIs DEF Table, CallsHave, StartsApart
  <2>4. Flags
    BY <2>1, NoCallIs DEF Flags, SpeechesHear, Hears, Heard, Speech, AloneIsAlone,
       CutIsHeeded, NoSpuriousCancel, Interruptible, At, Actors
  <2> QED
    BY <2>2, <2>3, <2>4 DEF IInv
<1> QED
  BY <1>1, StudioSteps, PTL DEF Spec

-----------------------------------------------------------------------------
(* A recording grows only by what fits when the lock is held.             *)
Recordings == recording \in [Ids -> Nat] /\ RecordingFits

LEMMA RecordingStep ==
  ASSUME MaxRecording \in Nat, Pieces \subseteq Nat, IInv, Recordings, [Next]_vars
  PROVE  Recordings'
<1>1. ASSUME NEW c \in Clients, Recorded(c)  PROVE  Recordings'
  <2> DEFINE s == call[c].s
             n == call[c].n
  <2>1. s \in Ids /\ n \in Nat
    <3>1. c \in Actors /\ call[c].pc = "recording"
      BY <1>1 DEF Recorded, At, Actors
    <3>2. call[c] \in Call /\ HasSession(call[c], sessions, closed)
      BY <3>1, Facts
    <3>3. call[c].n \in {0} \cup Pieces
      BY <3>2 DEF Call
    <3>4. call[c].s \in Ids
      BY <3>1, <3>2 DEF HasSession
    <3>5. {0} \cup Pieces \subseteq Nat
      OBVIOUS
    <3>6. n \in Nat
      BY <3>3, <3>5
    <3> QED
      BY <3>4, <3>6
  <2>2. recording' = recording
        \/ /\ recording' = [recording EXCEPT ![s] = recording[s] + n]
           /\ recording[s] + n <= MaxRecording
    BY <1>1 DEF Recorded, Fits
  <2> HIDE DEF s, n
  <2> QED
    BY <2>1, <2>2 DEF Recordings, RecordingFits
<1>2. ASSUME NEW s \in Ids, ClearRecording(s)  PROVE  Recordings'
  BY <1>2 DEF ClearRecording, Recordings, RecordingFits
<1>3. \/ UNCHANGED recording
      \/ \E c \in Clients : Recorded(c)
      \/ \E s \in Ids : ClearRecording(s)
  <2>1. ASSUME NEW c \in Actors, Ending(c)  PROVE  UNCHANGED recording
    BY <2>1 DEF Ending, EndCancels, EndLowers, EndRemoves
  <2>2. ASSUME NEW c \in Clients, Starting(c) \/ Speaking(c) \/ Store(c)
        PROVE  UNCHANGED recording
    BY <2>2 DEF Starting, StartCheck, StartInsert, StartRefused, Speaking, Ready, Raise,
       Synthesized, Abandoned, Check, Answer, Store
  <2>3. ASSUME NEW c \in Clients, NEW s \in Ids,
               \/ Speak(c, s) \/ Interrupt(c, s) \/ EndSession(c, s)
               \/ \E n \in Pieces : Record(c, s, n)
        PROVE  UNCHANGED recording
    BY <2>3 DEF Speak, Interrupt, EndSession, Record
  <2>4. ASSUME NEW c \in Sweepers,
               SweepBegin(c) \/ SweepSkips(c) \/ SweepEnds(c) \/ SweepDone(c)
        PROVE  UNCHANGED recording
    BY <2>4 DEF SweepBegin, SweepSkips, SweepEnds, SweepDone
  <2> QED
    BY <2>1, <2>2, <2>3, <2>4 DEF Next, Actors, vars
<1>4. ASSUME UNCHANGED recording  PROVE  Recordings'
  BY <1>4 DEF Recordings, RecordingFits
<1> QED
  BY <1>1, <1>2, <1>3, <1>4

(* An interrupt, or the end of the session, takes effect on the speech it  *)
(* falls into, and on no other; it is granted while there is a speech; and *)
(* what is recorded is within its limit.  StudioState: StudioIsExact.      *)
THEOREM StudioExact == Spec => []StudioIsExact
<1>1. Init => Recordings
  BY StudioAssumption DEF Init, Recordings, RecordingFits
<1>2. IInv /\ Recordings /\ [Next]_vars => Recordings'
  BY StudioAssumption, RecordingStep
<1>3. IInv /\ Recordings => StudioIsExact
  BY DEF IInv, Flags, Recordings, StudioIsExact
<1> QED
  BY <1>1, <1>2, <1>3, Invariance, PTL DEF Spec

(* The table is a bounded pool of sessions: the capacity is one decision,  *)
(* and no session is admitted twice.  StudioState: StudioImplementsPool.   *)
Gone == closed \ sessions

(* The Cardinality of the instance is the same operator. *)
LEMMA SameCardinality == \A S : StudioPool!Cardinality(S) = Cardinality(S)
  BY DEF StudioPool!Cardinality, Cardinality

(* Only StartInsert, EndRemoves and what closes a session touch the table. *)
LEMMA TableTouched ==
  ASSUME IInv, [Next]_vars
  PROVE  \/ \E c \in Clients : StartInsert(c)
         \/ \E c \in Actors : EndRemoves(c)
         \/ sessions' = sessions /\ closed' \ sessions = closed \ sessions
<1> DEFINE Same == sessions' = sessions /\ closed' \ sessions = closed \ sessions
<1>1. CASE UNCHANGED vars
  BY <1>1 DEF vars, flags
<1>2. ASSUME NEW c \in Actors, EndCancels(c) \/ EndLowers(c) \/ Store(c)  PROVE  Same
  BY <1>2 DEF EndCancels, EndLowers, Store
<1>3. ASSUME NEW c \in Clients,
             StartCheck(c) \/ StartRefused(c) \/ Speaking(c) \/ Recorded(c)
      PROVE  Same
  BY <1>3 DEF StartCheck, StartRefused, Speaking, Ready, Raise, Synthesized, Abandoned,
     Check, Answer, Recorded, flags
<1>4. ASSUME NEW c \in Clients, NEW s \in Ids,
             \/ Speak(c, s) \/ Interrupt(c, s) \/ EndSession(c, s)
             \/ \E n \in Pieces : Record(c, s, n)
      PROVE  Same
  BY <1>4 DEF Speak, Interrupt, EndSession, Record, flags
<1>5. ASSUME NEW c \in Sweepers, SweepBegin(c) \/ SweepSkips(c) \/ SweepDone(c)
      PROVE  Same
  BY <1>5 DEF SweepBegin, SweepSkips, SweepDone, flags
<1>6. ASSUME NEW c \in Sweepers, SweepEnds(c)  PROVE  Same
  <2>1. PICK s \in call[c].todo : closed' = closed \cup {s} /\ sessions' = sessions
    BY <1>6 DEF SweepEnds
  <2>2. s \in sessions \cup closed
    BY <2>1, Facts DEF Actors, HasSession
  <2> QED
    BY <2>1, <2>2
<1>7. ASSUME NEW s \in Ids, ClearRecording(s)  PROVE  Same
  BY <1>7 DEF ClearRecording, flags
<1> QED
  BY <1>1, <1>2, <1>3, <1>4, <1>5, <1>6, <1>7 DEF Next, Starting, Ending, Actors

(* Whatever overlaps, a session is taken in once and let go once: the      *)
(* studio is a pool of sessions.  StudioState: StudioImplementsPool.       *)
THEOREM StudioIsPool == Spec => StudioImplementsPool
<1>1. Init => StudioPool!Init
  BY DEF Init, StudioPool!Init
<1>2. IInv /\ [Next]_vars => [StudioPool!Next]_<<sessions, Gone>>
  <2> SUFFICES ASSUME IInv, [Next]_vars  PROVE  StudioPool!Next \/ UNCHANGED <<sessions, Gone>>
    OBVIOUS
  <2>1. ASSUME NEW c \in Clients, StartInsert(c)  PROVE  StudioPool!Next
    <3>1. PICK s \in Ids : s = call[c].s /\ s \notin sessions \cup closed
      BY <2>1, StartInsertKeeps DEF Actors
    <3>2. /\ sessions' = sessions \cup {s} /\ closed' = closed
          /\ StudioPool!Cardinality(sessions) < MaxSessions
      BY <2>1, <3>1, SameCardinality DEF StartInsert, Room, flags
    <3>3. StudioPool!Admit(s)
      BY <3>1, <3>2 DEF StudioPool!Admit
    <3> QED
      BY <3>3 DEF StudioPool!Next
  <2>2. ASSUME NEW c \in Actors, EndRemoves(c)  PROVE  StudioPool!Next \/ UNCHANGED <<sessions, Gone>>
    <3>1. PICK s \in Ids : s = call[c].s /\ s \in closed
      BY <2>2, RemoveKeeps
    <3>2. sessions' = sessions \ {s} /\ closed' = closed
      BY <2>2, <3>1 DEF EndRemoves, flags
    <3>3. CASE s \in sessions
      <4>1. StudioPool!LetGo(s)
        BY <3>1, <3>2, <3>3 DEF StudioPool!LetGo
      <4> QED
        BY <4>1 DEF StudioPool!Next
    <3>4. CASE s \notin sessions
      BY <3>2, <3>4 DEF Gone
    <3> QED
      BY <3>3, <3>4
  <2> QED
    BY <2>1, <2>2, TableTouched DEF Gone
<1> QED
  BY <1>1, <1>2, Invariance, PTL DEF Spec, StudioImplementsPool, StudioPool!Spec, Gone

-----------------------------------------------------------------------------
(* ManagedCalls.                                                           *)

(* What a request in progress is, and knows, step by step.                 *)
StartState == [pc : {"none", "posting", "answered"}, sid : Sids \cup {None},
               tries : 0..MaxRetries, call : Phones \cup {None}]
EndState == [pc : {"none", "deleting"}, call : Phones \cup {None}, tries : 0..MaxRetries]
HookState == [pc : {"none", "queueing", "storing"}, ev : Events \cup {None}]

StartKnows(r) == /\ r.pc # "none" => r.sid \in Sids
                 /\ r.pc = "answered" <=> r.call # None
EndKnows(r) == r.pc = "deleting" <=> r.call # None
HookKnows(r) == r.pc # "none" <=> r.ev # None

StartInv == start \in [Starts -> StartState] /\ \A t \in Starts : StartKnows(start[t])
EndInv == end \in [Ends -> EndState] /\ \A t \in Ends : EndKnows(end[t])
HookInv == hook \in [Webhooks -> HookState] /\ \A t \in Webhooks : HookKnows(hook[t])
DataInv ==
  /\ table \in [Sids -> Slots \cup {None}]
  /\ window.set \subseteq Events /\ window.order \in Seq(Events)
  /\ phone \in [Phones -> {"idle", "up", "over"}]
  /\ stored \subseteq Events /\ failed \subseteq Events /\ excused \subseteq Phones
  /\ taken \in Seq(Events)
ManagedInv == StartInv /\ EndInv /\ HookInv /\ DataInv
-----------------------------------------------------------------------------
(* Requests.                                                               *)

LEMMA StartMoves ==
  ASSUME StartInv, NEW t \in Starts, NEW q \in StartState, StartKnows(q),
         start' = [start EXCEPT ![t] = q]
  PROVE  StartInv'
BY DEF StartInv

LEMMA EndMoves ==
  ASSUME EndInv, NEW t \in Ends, NEW q \in EndState, EndKnows(q),
         end' = [end EXCEPT ![t] = q]
  PROVE  EndInv'
BY DEF EndInv

LEMMA HookMoves ==
  ASSUME HookInv, NEW t \in Webhooks, NEW q \in HookState, HookKnows(q),
         hook' = [hook EXCEPT ![t] = q]
  PROVE  HookInv'
BY DEF HookInv

LEMMA NoneStates ==
  ASSUME MaxRetries \in Nat
  PROVE  /\ NoStart \in StartState /\ StartKnows(NoStart)
         /\ NoEnd \in EndState /\ EndKnows(NoEnd)
         /\ NoHook \in HookState /\ HookKnows(NoHook)
<1>1. NoStart \in StartState /\ StartKnows(NoStart)
  BY DEF NoStart, StartState, StartKnows
<1>2. NoEnd \in EndState /\ EndKnows(NoEnd)
  BY DEF NoEnd, EndState, EndKnows
<1>3. NoHook \in HookState /\ HookKnows(NoHook)
  BY DEF NoHook, HookState, HookKnows
<1>. QED  BY <1>1, <1>2, <1>3

LEMMA AgainState ==
  ASSUME MaxRetries \in Nat, StartInv, NEW t \in Starts, start[t].pc # "none"
  PROVE  Again(t) \in StartState /\ StartKnows(Again(t))
<1>1. start[t] \in StartState /\ StartKnows(start[t])
  BY DEF StartInv
<1>2. CASE Retry(t)
  <2>1. start[t].tries + 1 \in 0..MaxRetries
    BY <1>1, <1>2 DEF Retry, StartState
  <2>. DEFINE q == [start[t] EXCEPT !.pc = "posting", !.tries = @ + 1, !.call = None]
  <2>2. q \in StartState
    BY <1>1, <2>1 DEF StartState
  <2>3. q.pc = "posting" /\ q.sid = start[t].sid /\ q.call = None
    BY <1>1 DEF StartState
  <2>4. Again(t) = q
    BY <1>2 DEF Again
  <2>. HIDE DEF q
  <2>. QED  BY <1>1, <2>2, <2>3, <2>4 DEF StartKnows
<1>3. CASE ~Retry(t)
  BY <1>3, NoneStates DEF Again
<1>. QED  BY <1>2, <1>3

LEMMA StartsMove ==
  ASSUME MaxRetries \in Nat, NoneIsOther, ManagedInv, NEW t \in Starts, CreateCall(t)
  PROVE  StartInv'
<1>1. StartInv /\ start[t] \in StartState /\ StartKnows(start[t])
  BY DEF ManagedInv, StartInv
<1>2. ASSUME NEW s \in Sids, StartCall(t, s) PROVE StartInv'
  <2>. DEFINE q == [start[t] EXCEPT !.pc = "posting", !.sid = s]
  <2>1. start' = [start EXCEPT ![t] = q]
    BY <1>1, <1>2 DEF StartCall, StartInv
  <2>2. q \in StartState
    BY <1>1 DEF StartState
  <2>3. q.pc = "posting" /\ q.sid = s /\ q.call = start[t].call
    BY <1>1 DEF StartState
  <2>4. start[t].pc = "none"
    BY <1>2 DEF StartCall
  <2>. HIDE DEF q
  <2>5. StartKnows(q)
    BY <1>1, <2>3, <2>4 DEF StartKnows
  <2>. QED  BY <1>1, <2>1, <2>2, <2>5, StartMoves
<1>3. ASSUME Placed(t) PROVE StartInv'
  <2>1. PICK p \in Phones : start' = [start EXCEPT ![t].pc = "answered", ![t].call = p]
    BY <1>3 DEF Placed
  <2>. DEFINE q == [start[t] EXCEPT !.pc = "answered", !.call = p]
  <2>2. start' = [start EXCEPT ![t] = q]
    BY <1>1, <2>1 DEF StartInv
  <2>3. q \in StartState
    BY <1>1 DEF StartState
  <2>4. q.pc = "answered" /\ q.sid = start[t].sid /\ q.call = p
    BY <1>1 DEF StartState
  <2>5. start[t].pc = "posting" /\ p # None
    BY <1>3 DEF Placed, NoneIsOther
  <2>. HIDE DEF q
  <2>6. StartKnows(q)
    BY <1>1, <2>4, <2>5 DEF StartKnows
  <2>. QED  BY <1>1, <2>2, <2>3, <2>6, StartMoves
<1>4. ASSUME PostFails(t) \/ AnswerLost(t) PROVE StartInv'
  <2>1. PICK then \in {Again(t), NoStart} : start' = [start EXCEPT ![t] = then]
    BY <1>4 DEF PostFails, AnswerLost
  <2>2. start[t].pc # "none"
    BY <1>4 DEF PostFails, AnswerLost
  <2>3. then \in StartState /\ StartKnows(then)
    BY <1>1, <2>2, AgainState, NoneStates
  <2>. QED  BY <1>1, <2>1, <2>3, StartMoves
<1>5. ASSUME Insert(t) PROVE StartInv'
  BY <1>1, <1>5, NoneStates, StartMoves DEF Insert
<1>. QED  BY <1>2, <1>3, <1>4, <1>5 DEF CreateCall

LEMMA EndsMove ==
  ASSUME MaxRetries \in Nat, NoneIsOther, ManagedInv, NEW t \in Ends, DeleteCall(t)
  PROVE  EndInv'
<1>1. EndInv /\ end[t] \in EndState /\ EndKnows(end[t])
  BY DEF ManagedInv, EndInv
<1>2. ASSUME NEW s \in Sids, EndCall(t, s) PROVE EndInv'
  <2>1. table[s].call \in Phones /\ table[s].call # None
    BY <1>2 DEF EndCall, ManagedInv, DataInv, Slots, NoneIsOther
  <2>. DEFINE p == table[s].call
              q == [end[t] EXCEPT !.pc = "deleting", !.call = p]
  <2>2. end' = [end EXCEPT ![t] = q]
    BY <1>1, <1>2 DEF EndCall, EndInv
  <2>. HIDE DEF p
  <2>3. q \in EndState
    BY <1>1, <2>1 DEF EndState, p
  <2>4. q.pc = "deleting" /\ q.call = p
    BY <1>1 DEF EndState
  <2>. HIDE DEF q
  <2>5. EndKnows(q)
    BY <2>1, <2>4 DEF EndKnows, p
  <2>. QED  BY <1>1, <2>2, <2>3, <2>5, EndMoves
<1>3. ASSUME end' = [end EXCEPT ![t] = NoEnd] PROVE EndInv'
  BY <1>1, <1>3, NoneStates, EndMoves
<1>4. ASSUME end[t].tries < MaxRetries, end' = [end EXCEPT ![t].tries = @ + 1]
      PROVE  EndInv'
  <2>. DEFINE q == [end[t] EXCEPT !.tries = @ + 1]
  <2>1. end' = [end EXCEPT ![t] = q]
    BY <1>1, <1>4 DEF EndInv
  <2>2. end[t].tries + 1 \in 0..MaxRetries
    BY <1>1, <1>4 DEF EndState
  <2>3. q \in EndState
    BY <1>1, <2>2 DEF EndState
  <2>4. q.pc = end[t].pc /\ q.call = end[t].call
    BY <1>1 DEF EndState
  <2>. HIDE DEF q
  <2>5. EndKnows(q)
    BY <1>1, <2>4 DEF EndKnows
  <2>. QED  BY <1>1, <2>1, <2>3, <2>5, EndMoves
<1>. QED  BY <1>2, <1>3, <1>4 DEF DeleteCall, Deleted, DeleteFails

LEMMA HooksMove ==
  ASSUME MaxRetries \in Nat, NoneIsOther, ManagedInv, NEW t \in Webhooks, Webhook(t)
  PROVE  HookInv'
<1>1. HookInv /\ hook[t] \in HookState /\ HookKnows(hook[t])
  BY DEF ManagedInv, HookInv
<1>2. ASSUME NEW ev \in Events, Ingest(t, ev) PROVE HookInv'
  <2>. DEFINE q == [pc |-> "queueing", ev |-> ev]
  <2>1. q \in HookState
    BY DEF HookState
  <2>2. q.pc = "queueing" /\ q.ev = ev /\ ev # None
    BY DEF NoneIsOther
  <2>3. hook' = [hook EXCEPT ![t] = q]
    BY <1>2 DEF Ingest
  <2>. HIDE DEF q
  <2>4. HookKnows(q)
    BY <2>2 DEF HookKnows
  <2>. QED  BY <1>1, <2>1, <2>3, <2>4, HookMoves
<1>3. ASSUME Queue(t) PROVE HookInv'
  <2>. DEFINE q == [hook[t] EXCEPT !.pc = "storing"]
  <2>1. hook' = [hook EXCEPT ![t] = q] /\ hook[t].pc = "queueing"
    BY <1>1, <1>3 DEF Queue, HookInv
  <2>2. q \in HookState
    BY <1>1 DEF HookState
  <2>3. q.pc = "storing" /\ q.ev = hook[t].ev
    BY <1>1 DEF HookState
  <2>. HIDE DEF q
  <2>4. HookKnows(q)
    BY <1>1, <2>1, <2>3 DEF HookKnows
  <2>. QED  BY <1>1, <2>1, <2>2, <2>4, HookMoves
<1>4. ASSUME RecordEvent(t) PROVE HookInv'
  BY <1>1, <1>4, NoneStates, HookMoves DEF RecordEvent
<1>. QED  BY <1>2, <1>3, <1>4 DEF Webhook
-----------------------------------------------------------------------------
(* Data.                                                                   *)
LEMMA QueueStays ==
  ASSUME NEW r \in Slots, NEW q \in Seq(Kinds)
  PROVE  [r EXCEPT !.queue = q] \in Slots /\ [r EXCEPT !.queue = q].call = r.call
BY DEF Slots

(* What a webhook's event does to the table.                               *)
LEMMA QueueTable ==
  ASSUME ManagedInv, NEW t \in Webhooks, Queue(t), NoneIsOther
  PROVE  /\ table' \in [Sids -> Slots \cup {None}]
         /\ \A s \in Sids : table[s] # None =>
              table'[s] # None /\ table'[s].call = table[s].call
<1>1. table \in [Sids -> Slots \cup {None}]
  BY DEF ManagedInv, DataInv
<1>2. CASE UNCHANGED table
  BY <1>1, <1>2
<1>. DEFINE ev == hook[t].ev
<1>3. ASSUME NEW s \in Sids, table[s] # None, ev.kind \in Kinds,
             table' = [table EXCEPT ![s].queue = Append(@, ev.kind)]
      PROVE  /\ table' \in [Sids -> Slots \cup {None}]
             /\ \A r \in Sids : table[r] # None =>
                  table'[r] # None /\ table'[r].call = table[r].call
  <2>. DEFINE k == ev.kind
              w == Append(table[s].queue, k)
              q == [table[s] EXCEPT !.queue = w]
  <2>. HIDE DEF ev
  <2>1. table[s] \in Slots
    BY <1>1, <1>3
  <2>2. w \in Seq(Kinds)
    BY <1>3, <2>1 DEF Slots
  <2>3. table' = [table EXCEPT ![s] = q]
    BY <1>1, <1>3
  <2>. HIDE DEF w
  <2>4. q \in Slots /\ q.call = table[s].call
    BY <2>1, <2>2, QueueStays
  <2>. HIDE DEF q
  <2>. QED  BY <1>1, <2>3, <2>4 DEF NoneIsOther
<1>4. ASSUME ToProvider(ev.kind) PROVE ev.kind \in Kinds
  BY <1>4 DEF ToProvider, Kinds
<1>. QED  BY <1>2, <1>3, <1>4 DEF Queue

(* The window after a key is a sequence of events, and a set of them.      *)
LEMMA WindowTypes ==
  ASSUME ManagedInv, NEW ev \in Events
  PROVE  /\ WithKey(ev).set \subseteq Events
         /\ WithKey(ev).order \in Seq(Events)
<1>. DEFINE long == Append(window.order, ev)
            m == IF Len(long) > Capacity THEN 2 ELSE 1
<1>1. window.set \subseteq Events /\ window.order \in Seq(Events)
  BY DEF ManagedInv, DataInv
<1>2. long \in Seq(Events)
  BY <1>1
<1>. HIDE DEF long
<1>3. m \in {1, 2} /\ Len(long) \in Nat
  BY <1>2
<1>4. \A i \in m..Len(long) : long[i] \in Events
  BY <1>2, <1>3
<1>. HIDE DEF m
<1>5. SubSeq(long, m, Len(long)) \in Seq(Events)
  <2>1. m \in Int /\ Len(long) \in Int
    BY <1>3
  <2>. QED  BY <1>4, <2>1, SubSeqProperties
<1>6. Slid(long) \in Seq(Events)
  BY <1>5 DEF Slid, m
<1>. QED  BY <1>1, <1>6 DEF WithKey, long

LEMMA DataStays ==
  ASSUME MaxRetries \in Nat, NoneIsOther, ManagedInv, ManagedNext
  PROVE  DataInv'
<1>0. DataInv /\ StartInv /\ EndInv /\ HookInv
  BY DEF ManagedInv
<1>1. ASSUME NEW t \in Starts, CreateCall(t) PROVE DataInv'
  <2>1. start[t] \in StartState /\ StartKnows(start[t])
    BY <1>0 DEF StartInv
  <2>2. CASE start[t].pc = "answered"
    <3>1. start[t].call \in Phones /\ start[t].sid \in Sids
      BY <2>1, <2>2 DEF StartState, StartKnows
    <3>2. CASE Insert(t)
      <4>. DEFINE s == start[t].sid
                  r == [call |-> start[t].call, queue |-> <<>>]
      <4>1. r \in Slots
        BY <3>1 DEF Slots
      <4>2. Forgotten(s) \subseteq Phones
        BY <1>0, <3>1 DEF Forgotten, DataInv, Slots
      <4>3. table' = [table EXCEPT ![s] = r] /\ excused' = excused \cup Forgotten(s)
        BY <3>2 DEF Insert
      <4>. HIDE DEF r
      <4>4. table' \in [Sids -> Slots \cup {None}]
        BY <1>0, <3>1, <4>1, <4>3 DEF DataInv
      <4>. QED  BY <1>0, <3>2, <4>2, <4>3, <4>4 DEF Insert, DataInv
    <3>3. CASE AnswerLost(t)
      BY <1>0, <3>1, <3>3 DEF AnswerLost, DataInv
    <3>. QED  BY <1>1, <2>2, <3>2, <3>3 DEF CreateCall, StartCall, Placed, PostFails
  <2>3. CASE start[t].pc # "answered"
    <3>1. CASE \E s \in Sids : StartCall(t, s)
      BY <1>0, <3>1 DEF StartCall, DataInv
    <3>2. CASE Placed(t)
      BY <1>0, <3>2 DEF Placed, DataInv
    <3>3. CASE PostFails(t)
      BY <1>0, <3>3 DEF PostFails, DataInv
    <3>. QED  BY <1>1, <2>3, <3>1, <3>2, <3>3 DEF CreateCall, AnswerLost, Insert
  <2>. QED  BY <2>2, <2>3
<1>2. ASSUME NEW t \in Ends, DeleteCall(t) PROVE DataInv'
  <2>1. end[t] \in EndState /\ EndKnows(end[t])
    BY <1>0 DEF EndInv
  <2>2. CASE \E s \in Sids : EndCall(t, s)
    BY <1>0, <2>2 DEF EndCall, DataInv
  <2>3. CASE Deleted(t)
    BY <1>0, <2>3 DEF Deleted, DataInv
  <2>4. CASE DeleteFails(t)
    <3>1. end[t].call \in Phones
      BY <2>1, <2>4 DEF DeleteFails, EndKnows, EndState
    <3>. QED  BY <1>0, <2>4, <3>1 DEF DeleteFails, DataInv
  <2>. QED  BY <1>2, <2>2, <2>3, <2>4 DEF DeleteCall
<1>3. ASSUME NEW t \in Webhooks, Webhook(t) PROVE DataInv'
  <2>1. ASSUME NEW ev \in Events, Ingest(t, ev) PROVE DataInv'
    <3>1. window' = WithKey(ev) /\ taken' = Append(taken, ev)
      BY <2>1 DEF Ingest
    <3>2. window'.set \subseteq Events /\ window'.order \in Seq(Events)
      BY <3>1, WindowTypes
    <3>3. taken' \in Seq(Events)
      BY <1>0, <3>1 DEF DataInv
    <3>. QED  BY <1>0, <2>1, <3>2, <3>3 DEF Ingest, DataInv
  <2>2. CASE Queue(t)
    BY <1>0, <2>2, QueueTable DEF Queue, DataInv
  <2>3. CASE RecordEvent(t)
    <3>1. hook[t].ev \in Events
      BY <1>0, <2>3 DEF RecordEvent, HookInv, HookKnows, HookState
    <3>. QED  BY <1>0, <2>3, <3>1 DEF RecordEvent, DataInv
  <2>. QED  BY <1>3, <2>1, <2>2, <2>3 DEF Webhook
<1>4. ASSUME NEW s \in Sids, Drain(s) PROVE DataInv'
  <2>. DEFINE q == [table[s] EXCEPT !.queue = <<>>]
  <2>1. table[s] \in Slots /\ table' = [table EXCEPT ![s] = q]
    BY <1>0, <1>4 DEF Drain, DataInv
  <2>0. <<>> \in Seq(Kinds)
    OBVIOUS
  <2>2. q \in Slots
    BY <2>0, <2>1, QueueStays
  <2>. HIDE DEF q
  <2>3. table' \in [Sids -> Slots \cup {None}]
    BY <1>0, <2>1, <2>2 DEF DataInv
  <2>. QED  BY <1>0, <1>4, <2>3 DEF Drain, DataInv
<1>5. ASSUME NEW p \in Phones, HangUp(p) PROVE DataInv'
  BY <1>0, <1>5 DEF HangUp, DataInv
<1>. QED  BY <1>1, <1>2, <1>3, <1>4, <1>5 DEF ManagedNext

LEMMA InvHolds ==
  ASSUME MaxRetries \in Nat, NoneIsOther
  PROVE  ManagedSpec => []ManagedInv
<1>1. ASSUME ManagedInit PROVE ManagedInv
  <2>1. StartInv /\ EndInv /\ HookInv
    BY <1>1, NoneStates DEF ManagedInit, StartInv, EndInv, HookInv
  <2>2. DataInv
    BY <1>1 DEF ManagedInit, DataInv
  <2>. QED  BY <2>1, <2>2 DEF ManagedInv
<1>2. ASSUME ManagedInv, [ManagedNext]_managedVars PROVE ManagedInv'
  <2>0. StartInv /\ EndInv /\ HookInv /\ DataInv
    BY <1>2 DEF ManagedInv
  <2>1. CASE UNCHANGED managedVars
    BY <2>0, <2>1 DEF ManagedInv, StartInv, EndInv, HookInv, DataInv, managedVars, tasks
  <2>2. CASE ManagedNext
    <3>1. DataInv'
      BY <1>2, <2>2, DataStays
    <3>2. ASSUME UNCHANGED start PROVE StartInv'
      BY <2>0, <3>2 DEF StartInv
    <3>3. ASSUME UNCHANGED end PROVE EndInv'
      BY <2>0, <3>3 DEF EndInv
    <3>4. ASSUME UNCHANGED hook PROVE HookInv'
      BY <2>0, <3>4 DEF HookInv
    <3>5. ASSUME NEW t \in Starts, CreateCall(t) PROVE ManagedInv'
      <4>1. UNCHANGED <<end, hook>>
        BY <3>5 DEF CreateCall, StartCall, Placed, PostFails, AnswerLost, Insert
      <4>. QED  BY <1>2, <3>1, <3>3, <3>4, <3>5, <4>1, StartsMove DEF ManagedInv
    <3>6. ASSUME NEW t \in Ends, DeleteCall(t) PROVE ManagedInv'
      <4>1. UNCHANGED <<start, hook>>
        BY <3>6 DEF DeleteCall, EndCall, Deleted, DeleteFails
      <4>. QED  BY <1>2, <3>1, <3>2, <3>4, <3>6, <4>1, EndsMove DEF ManagedInv
    <3>7. ASSUME NEW t \in Webhooks, Webhook(t) PROVE ManagedInv'
      <4>1. UNCHANGED <<start, end>>
        BY <3>7 DEF Webhook, Ingest, Queue, RecordEvent
      <4>. QED  BY <1>2, <3>1, <3>2, <3>3, <3>7, <4>1, HooksMove DEF ManagedInv
    <3>8. ASSUME UNCHANGED tasks PROVE ManagedInv'
      BY <3>1, <3>2, <3>3, <3>4, <3>8 DEF ManagedInv, tasks
    <3>. QED  BY <2>2, <3>5, <3>6, <3>7, <3>8 DEF ManagedNext, Drain, HangUp
  <2>. QED  BY <1>2, <2>1, <2>2
<1>. QED  BY <1>1, <1>2, PTL DEF ManagedSpec

(* Type correctness: no request is sent more often than max_retries        *)
(* allows, and the table, the window and the queues hold what they should. *)
THEOREM TypeCorrect == ManagedSpec => []ManagedTypeOK
<1>1. ManagedInv => ManagedTypeOK
  BY DEF ManagedInv, StartInv, EndInv, HookInv, DataInv, ManagedTypeOK,
         StartState, EndState, HookState, Slots
<1>. QED  BY <1>1, ManagedAssumption, InvHolds, PTL

-----------------------------------------------------------------------------
(* Events reach the store, and phones are in somebody's hands.             *)
LEMMA InvParts ==
  ASSUME ManagedInv
  PROVE  /\ \A t \in Starts : start[t] \in StartState /\ StartKnows(start[t])
         /\ \A t \in Ends : end[t] \in EndState /\ EndKnows(end[t])
         /\ \A t \in Webhooks : hook[t] \in HookState /\ HookKnows(hook[t])
         /\ DataInv
BY DEF ManagedInv, StartInv, EndInv, HookInv

Accounted(ev) == \/ ev \in stored \cup failed
                 \/ \E t \in Webhooks : hook[t].ev = ev

LEMMA EventsStayAccounted ==
  ASSUME NoneIsOther, ManagedInv, ManagedNext, NEW ev \in Events, ToStore(ev.kind), Accounted(ev)
  PROVE  Accounted(ev)'
<1>0. \A t \in Webhooks : hook[t] \in HookState /\ HookKnows(hook[t])
  BY InvParts
<1>1. stored \subseteq stored' /\ failed \subseteq failed'
  BY DEF ManagedNext, CreateCall, StartCall, Placed, PostFails, AnswerLost, Insert, DeleteCall,
         EndCall, Deleted, DeleteFails, Webhook, Ingest, Queue, RecordEvent, Drain, HangUp
<1>2. CASE ev \in stored \cup failed
  BY <1>1, <1>2 DEF Accounted
<1>3. ASSUME NEW t \in Webhooks, hook[t].ev = ev PROVE Accounted(ev)'
  <2>1. hook[t].pc # "none"
    BY <1>0, <1>3 DEF HookKnows, NoneIsOther
  <2>2. ASSUME UNCHANGED hook PROVE Accounted(ev)'
    BY <1>3, <2>2 DEF Accounted
  <2>3. ASSUME NEW u \in Webhooks, Webhook(u) PROVE Accounted(ev)'
    <3>1. CASE u # t
      <4>1. \E q : hook' = [hook EXCEPT ![u] = q]
        <5>1. ASSUME Queue(u) PROVE \E q : hook' = [hook EXCEPT ![u] = q]
          <6>1. hook' = [hook EXCEPT ![u] = [hook[u] EXCEPT !.pc = "storing"]]
            BY <5>1 DEF Queue
          <6>. QED  BY <6>1
        <5>. QED  BY <2>3, <5>1 DEF Webhook, Ingest, RecordEvent
      <4>2. hook'[t] = hook[t]
        BY <3>1, <4>1, InvParts DEF ManagedInv, HookInv
      <4>. QED  BY <1>3, <4>2 DEF Accounted
    <3>2. CASE u = t
      <4>1. CASE Queue(t)
        <5>1. hook'[t].ev = ev
          BY <1>3, <4>1, InvParts DEF Queue, ManagedInv, HookInv, HookState
        <5>. QED  BY <5>1 DEF Accounted
      <4>2. CASE RecordEvent(t)
        BY <1>3, <4>2 DEF RecordEvent, Accounted
      <4>. QED  BY <2>1, <2>3, <3>2, <4>1, <4>2 DEF Webhook, Ingest
    <3>. QED  BY <3>1, <3>2
  <2>4. CASE UNCHANGED tasks
    BY <2>2, <2>4 DEF tasks
  <2>. QED
    BY <2>2, <2>3, <2>4 DEF ManagedNext, CreateCall, StartCall, Placed, PostFails, AnswerLost,
       Insert, DeleteCall, EndCall, Deleted, DeleteFails, Drain, HangUp
<1>. QED  BY <1>2, <1>3 DEF Accounted

LEMMA StoredNext ==
  ASSUME NoneIsOther, ManagedInv, ManagedInv', TakenIsStored, [ManagedNext]_managedVars
  PROVE  TakenIsStored'
<1>0. taken \in Seq(Events) /\ taken' \in Seq(Events)
  BY DEF ManagedInv, DataInv
<1>1. CASE UNCHANGED managedVars
  BY <1>1 DEF managedVars, tasks, TakenIsStored
<1>2. CASE ManagedNext
  <2>1. SUFFICES ASSUME NEW i \in 1..Len(taken'), ToStore(taken'[i].kind), 
                        NEW ev \in Events, ev = taken'[i]
                 PROVE  Accounted(ev)'
    BY <1>0 DEF TakenIsStored, Accounted
  <2>2. CASE i \in 1..Len(taken) /\ taken[i] = ev
    <3>1. Accounted(ev)
      BY <2>1, <2>2 DEF TakenIsStored, Accounted
    <3>. QED  BY <1>2, <2>1, <3>1, EventsStayAccounted
  <2>3. ASSUME NEW t \in Webhooks, NEW e \in Events, Ingest(t, e) PROVE Accounted(ev)'
    <3>1. taken' = Append(taken, e) /\ hook'[t].ev = e
      BY <2>3 DEF Ingest, ManagedInv, HookInv
    <3>2. CASE i \in 1..Len(taken)
      BY <1>0, <2>1, <2>2, <3>1, <3>2
    <3>3. CASE i \notin 1..Len(taken)
      <4>1. ev = e
        BY <1>0, <2>1, <3>1, <3>3
      <4>. QED  BY <3>1, <4>1 DEF Accounted
    <3>. QED  BY <3>2, <3>3
  <2>4. CASE UNCHANGED taken
    BY <2>1, <2>2, <2>4
  <2>. QED
    BY <1>2, <2>3, <2>4 DEF ManagedNext, CreateCall, StartCall, Placed, PostFails, AnswerLost,
       Insert, DeleteCall, EndCall, Deleted, DeleteFails, Webhook, Queue, RecordEvent, Drain,
       HangUp, tasks
<1>. QED  BY <1>1, <1>2

-----------------------------------------------------------------------------
(* The window.                                                             *)
FirstOf(s) == IF Len(s) > Capacity THEN Len(s) - Capacity + 1 ELSE 1
LastOf(s) == SubSeq(s, FirstOf(s), Len(s))
WindowInv == OncePerWindow /\ WindowIsLast

LEMMA Members ==
  ASSUME NEW s \in Seq(Events), NEW e
  PROVE  e \in ToSet(s) <=> \E i \in 1..Len(s) : s[i] = e
BY DEF ToSet

(* The last events of a history, one by one.                               *)
LEMMA LastFacts ==
  ASSUME Capacity \in Nat \ {0}, NEW s \in Seq(Events)
  PROVE  /\ FirstOf(s) \in 1..(Len(s) + 1)
         /\ LastOf(s) \in Seq(Events) /\ Len(LastOf(s)) = Len(s) - FirstOf(s) + 1
         /\ \A i \in 1..Len(LastOf(s)) : LastOf(s)[i] = s[FirstOf(s) + i - 1]
         /\ \A i \in FirstOf(s)..Len(s) : s[i] \in ToSet(LastOf(s))
<1>. DEFINE n == Len(s)
            f == FirstOf(s)
<1>1. n \in Nat
  OBVIOUS
<1>2. f \in 1..(n + 1)
  BY <1>1 DEF FirstOf
<1>3. \A i \in f..n : s[i] \in Events
  BY <1>1, <1>2
<1>. HIDE DEF n, f
<1>4. f \in Int /\ n \in Int
  BY <1>1, <1>2
<1>5. /\ SubSeq(s, f, n) \in Seq(Events)
      /\ Len(SubSeq(s, f, n)) = IF f <= n THEN n - f + 1 ELSE 0
      /\ \A i \in 1..(n - f + 1) : SubSeq(s, f, n)[i] = s[f + i - 1]
  BY <1>3, <1>4, SubSeqProperties
<1>6. Len(SubSeq(s, f, n)) = n - f + 1
  BY <1>1, <1>2, <1>5
<1>7. LastOf(s) = SubSeq(s, f, n)
  BY DEF LastOf, f, n
<1>8. ASSUME NEW i \in f..n PROVE s[i] \in ToSet(LastOf(s))
  <2>1. i - f + 1 \in 1..(n - f + 1) /\ f + (i - f + 1) - 1 = i
    BY <1>1, <1>2
  <2>2. SubSeq(s, f, n)[i - f + 1] = s[i]
    BY <1>5, <2>1
  <2>. QED  BY <1>5, <1>6, <1>7, <2>1, <2>2, Members
<1>. QED  BY <1>2, <1>5, <1>6, <1>7, <1>8 DEF n, f

(* When one more event is taken, the oldest of a full window leaves it.    *)
LEMMA LastSlides ==
  ASSUME Capacity \in Nat \ {0}, NEW s \in Seq(Events), NEW e \in Events
  PROVE  Slid(Append(LastOf(s), e)) = LastOf(Append(s, e))
<1>. DEFINE n == Len(s)
            m == Len(LastOf(s))
            f == FirstOf(s)
            next == Append(s, e)
            g == FirstOf(next)
            long == Append(LastOf(s), e)
            k == IF Len(long) > Capacity THEN 2 ELSE 1
            old == LastOf(s)
            new == LastOf(next)
            order == Slid(long)
<1>1. /\ n \in Nat /\ m \in Nat /\ f \in 1..(n + 1) /\ m = n - f + 1
      /\ old \in Seq(Events) /\ \A i \in 1..m : old[i] = s[f + i - 1]
  BY LastFacts
<1>2. next \in Seq(Events) /\ Len(next) = n + 1 /\ next[n + 1] = e
      /\ \A i \in 1..n : next[i] = s[i]
  OBVIOUS
<1>3. long \in Seq(Events) /\ Len(long) = m + 1 /\ long[m + 1] = e
      /\ \A i \in 1..m : long[i] = old[i]
  BY <1>1
<1>4. /\ new \in Seq(Events) /\ Len(new) = n + 2 - g /\ g \in 1..(n + 2)
      /\ \A i \in 1..Len(new) : new[i] = next[g + i - 1]
  <2>. HIDE DEF next
  <2>1. /\ g \in 1..(Len(next) + 1) /\ new \in Seq(Events)
        /\ Len(new) = Len(next) - g + 1
        /\ \A i \in 1..Len(new) : new[i] = next[g + i - 1]
    BY <1>2, LastFacts
  <2>2. Len(next) = n + 1 /\ n \in Nat
    BY <1>1, <1>2
  <2>. HIDE DEF new, g, n
  <2>3. Len(new) = n + 2 - g /\ g \in 1..(n + 2)
    BY <2>1, <2>2
  <2>. QED  BY <2>1, <2>3
<1>5. f = (IF n > Capacity THEN n - Capacity + 1 ELSE 1)
      /\ g = (IF n + 1 > Capacity THEN n + 1 - Capacity + 1 ELSE 1)
  BY <1>2 DEF FirstOf
<1>6. k = IF m + 1 > Capacity THEN 2 ELSE 1
  BY <1>3
<1>7. order = SubSeq(long, k, Len(long))
  BY DEF Slid
<1>. HIDE DEF n, m, f, g, k, next, long, old, new, order
<1>8. g = f + k - 1 /\ k \in {1, 2} /\ k <= m + 1
  BY <1>1, <1>5, <1>6
<1>9. /\ order \in Seq(Events) /\ Len(order) = m + 2 - k
      /\ \A i \in 1..(m + 2 - k) : order[i] = long[k + i - 1]
  <2>1. k \in Int /\ Len(long) \in Int /\ k <= Len(long)
    BY <1>1, <1>3, <1>8
  <2>2. \A i \in k..Len(long) : long[i] \in Events
    BY <1>3, <1>8
  <2>3. /\ order \in Seq(Events)
        /\ Len(order) = IF k <= Len(long) THEN Len(long) - k + 1 ELSE 0
        /\ \A i \in 1..(Len(long) - k + 1) : order[i] = long[k + i - 1]
    BY <1>7, <2>1, <2>2, SubSeqProperties
  <2>4. Len(long) - k + 1 = m + 2 - k
    BY <1>1, <1>3, <1>8
  <2>. QED  BY <2>1, <2>3, <2>4
<1>10. \A i \in 1..(m + 1) : long[i] = next[f + i - 1]
  <2>1. ASSUME NEW i \in 1..m PROVE long[i] = next[f + i - 1]
    <3>1. f + i - 1 \in 1..n
      BY <1>1
    <3>. QED  BY <1>1, <1>2, <1>3, <3>1
  <2>2. long[m + 1] = next[f + (m + 1) - 1]
    <3>1. f + (m + 1) - 1 = n + 1
      BY <1>1
    <3>. QED  BY <1>2, <1>3, <3>1
  <2>3. ASSUME NEW i \in 1..(m + 1) PROVE i \in 1..m \/ i = m + 1
    BY <1>1
  <2>. QED  BY <2>1, <2>2, <2>3
<1>11. Len(order) = Len(new)
  BY <1>1, <1>4, <1>8, <1>9
<1>12. ASSUME NEW i \in 1..Len(order) PROVE order[i] = new[i]
  <2>1. k + i - 1 \in 1..(m + 1) /\ f + (k + i - 1) - 1 = g + i - 1
    BY <1>1, <1>8, <1>9
  <2>2. order[i] = long[k + i - 1]
    BY <1>9
  <2>3. new[i] = next[g + i - 1]
    BY <1>4, <1>11
  <2>. QED  BY <1>10, <2>1, <2>2, <2>3
<1>13. order = new
  BY <1>4, <1>9, <1>11, <1>12, SeqEqual
<1>. QED  BY <1>13 DEF order, new, long, next

LEMMA LastSets ==
  ASSUME Capacity \in Nat \ {0}, NEW s \in Seq(Events), NEW e \in Events
  PROVE  LET later == ToSet(LastOf(Append(s, e)))
         IN  e \in later /\ later \subseteq ToSet(LastOf(s)) \cup {e}
<1>. DEFINE n == Len(s)
            next == Append(s, e)
            f == FirstOf(s)
            g == FirstOf(next)
            new == LastOf(next)
<1>1. /\ n \in Nat /\ next \in Seq(Events) /\ Len(next) = n + 1 /\ next[n + 1] = e
      /\ \A i \in 1..n : next[i] = s[i]
  OBVIOUS
<1>2. f \in 1..(n + 1) /\ \A i \in f..n : s[i] \in ToSet(LastOf(s))
  BY LastFacts
<1>3. g \in 1..(n + 1) /\ f <= g
  BY <1>1 DEF FirstOf
<1>. HIDE DEF next
<1>4. /\ new \in Seq(Events) /\ Len(new) = Len(next) - g + 1
      /\ \A i \in 1..Len(new) : new[i] = next[g + i - 1]
      /\ \A i \in g..Len(next) : next[i] \in ToSet(new)
  BY <1>1, LastFacts
<1>. HIDE DEF n, f, g, new
<1>5. n + 1 \in g..Len(next)
  BY <1>1, <1>3
<1>6. e \in ToSet(new)
  BY <1>1, <1>4, <1>5
<1>7. ASSUME NEW x \in ToSet(new), x # e PROVE x \in ToSet(LastOf(s))
  <2>1. PICK i \in 1..Len(new) : new[i] = x
    BY <1>4, <1>7, Members
  <2>. DEFINE j == g + i - 1
  <2>2. x = next[j]
    BY <1>4, <2>1
  <2>3. j \in g..(n + 1)
    BY <1>1, <1>3, <1>4
  <2>. HIDE DEF j
  <2>4. j # n + 1
    BY <1>1, <1>7, <2>2
  <2>5. j \in f..n /\ j \in 1..n
    BY <1>1, <1>2, <1>3, <2>3, <2>4
  <2>. QED  BY <1>1, <1>2, <2>2, <2>5
<1>. QED  BY <1>6, <1>7 DEF new, next

(* The window slides over the history: what a new key makes of it.         *)
LEMMA WindowSlides ==
  ASSUME Capacity \in Nat \ {0}, ManagedInv, WindowIsLast, NEW e \in Events,
         window' = WithKey(e), taken' = Append(taken, e)
  PROVE  WindowIsLast'
<1>. DEFINE old == ToSet(LastOf(taken))
            next == LastOf(Append(taken, e))
<1>1. taken \in Seq(Events)
  BY DEF ManagedInv, DataInv
<1>2. window.order = LastOf(taken) /\ window.set = old
  BY DEF WindowIsLast, LastOf, FirstOf
<1>3. Slid(Append(window.order, e)) = next
  BY <1>1, <1>2, LastSlides
<1>4. e \in ToSet(next) /\ ToSet(next) \subseteq old \cup {e}
  BY <1>1, LastSets
<1>5. window'.order = next /\ window'.set = (old \cup {e}) \ (old \ ToSet(next))
  BY <1>2, <1>3 DEF WithKey
<1>6. next = LastOf(taken')
  OBVIOUS
<1>. HIDE DEF old, next
<1>7. window'.set = ToSet(next)
  BY <1>4, <1>5
<1>. QED  BY <1>5, <1>6, <1>7 DEF WindowIsLast, LastOf, FirstOf

LEMMA WindowNext ==
  ASSUME Capacity \in Nat \ {0}, ManagedInv, WindowInv, [ManagedNext]_managedVars
  PROVE  WindowInv'
<1>1. CASE UNCHANGED <<window, taken>>
  BY <1>1 DEF WindowInv, OncePerWindow, WindowIsLast
<1>2. ASSUME NEW t \in Webhooks, NEW e \in Events, Ingest(t, e) PROVE WindowInv'
  <2>. DEFINE n == Len(taken)
  <2>1. taken \in Seq(Events) /\ n \in Nat
    BY DEF ManagedInv, DataInv
  <2>2. taken' = Append(taken, e) /\ window' = WithKey(e) /\ e \notin window.set
    BY <1>2 DEF Ingest
  <2>3. Len(taken') = n + 1 /\ taken'[n + 1] = e /\ \A i \in 1..n : taken'[i] = taken[i]
    BY <2>1, <2>2
  <2>4. \A i \in FirstOf(taken)..n : taken[i] # e
    <3>1. window.set = ToSet(LastOf(taken))
      BY DEF WindowInv, WindowIsLast, LastOf, FirstOf
    <3>. QED  BY <2>1, <2>2, <3>1, LastFacts
  <2>5. ASSUME NEW i \in 1..n + 1, NEW j \in 1..n + 1, i < j, taken'[i] = taken'[j]
        PROVE  j - i > Capacity
    <3>1. CASE j \in 1..n
      <4>1. i \in 1..n
        BY <2>1, <2>5, <3>1
      <4>. QED  BY <2>3, <2>5, <3>1, <4>1 DEF WindowInv, OncePerWindow
    <3>2. CASE j = n + 1
      <4>1. i \in 1..n /\ taken[i] = e
        BY <2>1, <2>3, <2>5, <3>2
      <4>2. i < FirstOf(taken)
        BY <2>1, <2>4, <4>1 DEF FirstOf
      <4>. QED  BY <2>1, <3>2, <4>1, <4>2 DEF FirstOf
    <3>. QED  BY <2>1, <3>1, <3>2
  <2>6. OncePerWindow'
    BY <2>3, <2>5 DEF OncePerWindow
  <2>7. WindowIsLast'
    BY <2>2, WindowSlides DEF WindowInv
  <2>. QED  BY <2>6, <2>7 DEF WindowInv
<1>. QED
  BY <1>1, <1>2 DEF ManagedNext, CreateCall, StartCall, Placed, PostFails, AnswerLost,
     Insert, DeleteCall, EndCall, Deleted, DeleteFails, Webhook, Queue, RecordEvent, Drain,
     HangUp, tasks, managedVars

-----------------------------------------------------------------------------
(* Phones.                                                                 *)
InTable(p) == \E s \in Sids : table[s] # None /\ table[s].call = p
InStart(p) == \E t \in Starts : start[t].call = p
InEnd(p) == \E t \in Ends : end[t].call = p
Held(p) == InTable(p) \/ InStart(p) \/ InEnd(p)

LEMMA HeldIs ==
  NoForgottenPhone <=> \A p \in Phones \ excused : phone[p] = "up" => Held(p)
BY DEF NoForgottenPhone, Held, InTable, InStart, InEnd

LEMMA OthersStart ==
  ASSUME NEW t \in Starts, NEW q, ManagedInv, start' = [start EXCEPT ![t] = q],
         NEW p, InStart(p), start[t].call # p
  PROVE  InStart(p)'
BY DEF InStart, ManagedInv, StartInv

LEMMA OthersEnd ==
  ASSUME NEW t \in Ends, NEW q, ManagedInv, end' = [end EXCEPT ![t] = q],
         NEW p, InEnd(p), end[t].call # p
  PROVE  InEnd(p)'
BY DEF InEnd, ManagedInv, EndInv

LEMMA OthersTable ==
  ASSUME NEW s \in Sids, NEW q, ManagedInv, table' = [table EXCEPT ![s] = q],
         NEW p, InTable(p), table[s] = None \/ table[s].call # p
  PROVE  InTable(p)'
BY DEF InTable, ManagedInv, DataInv

(* A start_call keeps the call it is answered with until it is in the      *)
(* table, or the answer is lost.                                           *)
LEMMA StartsHold ==
  ASSUME NoneIsOther, ManagedInv, NoForgottenPhone, NEW t \in Starts, CreateCall(t),
         NEW p \in Phones \ excused', phone'[p] = "up"
  PROVE  Held(p)'
<1>0. /\ start[t] \in StartState /\ StartKnows(start[t]) /\ p # None
      /\ start \in [Starts -> StartState] /\ DataInv
  BY InvParts DEF ManagedInv, StartInv, NoneIsOther
<1>1. excused \subseteq excused'
  BY DEF CreateCall, StartCall, Placed, PostFails, AnswerLost, Insert
<1>2. UNCHANGED end
  BY DEF CreateCall, StartCall, Placed, PostFails, AnswerLost, Insert
<1>3. ASSUME InEnd(p) PROVE Held(p)'
  BY <1>2, <1>3 DEF Held, InEnd
<1>4. ASSUME phone[p] = "up" PROVE Held(p)
  BY <1>1, <1>4, HeldIs
<1>5. ASSUME NEW q, start' = [start EXCEPT ![t] = q], UNCHANGED table,
             Held(p), start[t].call # p
      PROVE  Held(p)'
  <2>1. CASE InTable(p)
    BY <1>5, <2>1 DEF InTable, Held
  <2>2. CASE InStart(p)
    BY <1>5, <2>2, OthersStart DEF Held
  <2>. QED  BY <1>3, <1>5, <2>1, <2>2 DEF Held
<1>6. ASSUME NEW s \in Sids, StartCall(t, s) PROVE Held(p)'
  <2>1. start' = [start EXCEPT ![t] = [start[t] EXCEPT !.pc = "posting", !.sid = s]]
    BY <1>0, <1>6 DEF StartCall
  <2>2. start[t].call = None
    BY <1>0, <1>6 DEF StartCall, StartKnows
  <2>3. UNCHANGED table /\ Held(p)
    BY <1>4, <1>6 DEF StartCall
  <2>. QED  BY <1>0, <1>5, <2>1, <2>2, <2>3
<1>7. ASSUME Placed(t) PROVE Held(p)'
  <2>1. PICK c \in Phones : /\ phone' = [phone EXCEPT ![c] = "up"]
                            /\ start' = [start EXCEPT ![t].pc = "answered", ![t].call = c]
    BY <1>7 DEF Placed
  <2>2. start' = [start EXCEPT ![t] = [start[t] EXCEPT !.pc = "answered", !.call = c]]
    BY <1>0, <2>1
  <2>3. CASE p = c
    <3>1. start'[t].call = p
      BY <1>0, <2>2, <2>3 DEF StartState
    <3>. QED  BY <3>1 DEF Held, InStart
  <2>4. CASE p # c
    <3>1. phone[p] = "up"
      BY <1>0, <2>1, <2>4 DEF DataInv
    <3>2. start[t].call = None /\ UNCHANGED table
      BY <1>0, <1>7 DEF Placed, StartKnows
    <3>. QED  BY <1>0, <1>4, <1>5, <2>2, <3>1, <3>2
  <2>. QED  BY <2>3, <2>4
<1>8. ASSUME PostFails(t) PROVE Held(p)'
  <2>1. PICK then \in {Again(t), NoStart} : start' = [start EXCEPT ![t] = then]
    BY <1>8 DEF PostFails
  <2>2. start[t].call = None /\ UNCHANGED <<table, phone>>
    BY <1>0, <1>8 DEF PostFails, StartKnows
  <2>. QED  BY <1>0, <1>4, <1>5, <2>1, <2>2
<1>9. ASSUME AnswerLost(t) PROVE Held(p)'
  <2>1. PICK then \in {Again(t), NoStart} : start' = [start EXCEPT ![t] = then]
    BY <1>9 DEF AnswerLost
  <2>2. start[t].call # p /\ UNCHANGED <<table, phone>>
    BY <1>9 DEF AnswerLost
  <2>. QED  BY <1>4, <1>5, <2>1, <2>2
<1>10. ASSUME Insert(t) PROVE Held(p)'
  <2>. DEFINE s == start[t].sid
              r == [call |-> start[t].call, queue |-> <<>>]
  <2>1. s \in Sids /\ start[t].call \in Phones
    BY <1>0, <1>10 DEF Insert, StartKnows, StartState
  <2>2. /\ table' = [table EXCEPT ![s] = r]
        /\ start' = [start EXCEPT ![t] = NoStart]
        /\ excused' = excused \cup Forgotten(s) /\ phone' = phone
    BY <1>10 DEF Insert
  <2>3. r \in Slots /\ r # None
    <3>1. <<>> \in Seq(Kinds)
      OBVIOUS
    <3>2. r \in Slots
      BY <2>1, <3>1 DEF Slots
    <3>. QED  BY <3>2 DEF NoneIsOther
  <2>4. CASE start[t].call = p
    <3>1. r.call = p
      BY <2>4
    <3>. HIDE DEF r, s
    <3>2. table'[s] = r
      BY <1>0, <2>1, <2>2 DEF DataInv
    <3>. QED  BY <2>1, <2>3, <3>1, <3>2 DEF Held, InTable
  <2>5. CASE start[t].call # p
    <3>1. table[s] = None \/ table[s].call # p
      BY <2>2 DEF Forgotten
    <3>2. Held(p)
      BY <1>4, <2>2
    <3>. HIDE DEF r, s
    <3>3. CASE InTable(p)
      BY <2>1, <2>2, <3>1, <3>3, OthersTable DEF Held
    <3>4. CASE InStart(p)
      BY <2>2, <2>5, <3>4, OthersStart DEF Held
    <3>. QED  BY <1>3, <3>2, <3>3, <3>4 DEF Held
  <2>. QED  BY <2>4, <2>5
<1>. QED  BY <1>6, <1>7, <1>8, <1>9, <1>10 DEF CreateCall

(* An end_call keeps the call it took out of the table until the provider  *)
(* has ended it, or the attempts are used up.                              *)
LEMMA EndsHold ==
  ASSUME NoneIsOther, ManagedInv, NoForgottenPhone, NEW t \in Ends, DeleteCall(t),
         NEW p \in Phones \ excused', phone'[p] = "up"
  PROVE  Held(p)'
<1>0. /\ end[t] \in EndState /\ EndKnows(end[t]) /\ p # None
      /\ end \in [Ends -> EndState] /\ DataInv
  BY InvParts DEF ManagedInv, EndInv, NoneIsOther
<1>1. excused \subseteq excused' /\ UNCHANGED start
  BY DEF DeleteCall, EndCall, Deleted, DeleteFails
<1>2. phone[p] = "up"
  BY <1>0 DEF DeleteCall, EndCall, Deleted, DeleteFails, DataInv
<1>3. Held(p)
  BY <1>1, <1>2, HeldIs
<1>4. ASSUME InStart(p) PROVE Held(p)'
  BY <1>1, <1>4 DEF Held, InStart
<1>5. ASSUME NEW q, end' = [end EXCEPT ![t] = q], UNCHANGED table, end[t].call # p
      PROVE  Held(p)'
  <2>1. CASE InTable(p)
    BY <1>5, <2>1 DEF InTable, Held
  <2>2. CASE InEnd(p)
    BY <1>5, <2>2, OthersEnd DEF Held
  <2>. QED  BY <1>3, <1>4, <2>1, <2>2 DEF Held
<1>6. ASSUME NEW s \in Sids, EndCall(t, s) PROVE Held(p)'
  <2>. DEFINE q == [end[t] EXCEPT !.pc = "deleting", !.call = table[s].call]
  <2>1. end' = [end EXCEPT ![t] = q] /\ table' = [table EXCEPT ![s] = None]
    BY <1>0, <1>6 DEF EndCall
  <2>2. end[t].call = None
    BY <1>0, <1>6 DEF EndCall, EndKnows
  <2>3. q.call = table[s].call /\ end'[t] = q
    BY <1>0, <2>1 DEF EndState
  <2>. HIDE DEF q
  <2>4. CASE table[s].call = p
    BY <2>3, <2>4 DEF Held, InEnd
  <2>5. CASE table[s].call # p
    <3>1. CASE InTable(p)
      BY <2>1, <2>5, <3>1, OthersTable DEF Held
    <3>2. CASE InEnd(p)
      BY <1>0, <2>1, <2>2, <3>2, OthersEnd DEF Held
    <3>. QED  BY <1>3, <1>4, <3>1, <3>2 DEF Held
  <2>. QED  BY <2>4, <2>5
<1>7. ASSUME Deleted(t) PROVE Held(p)'
  <2>1. end[t].call \in Phones
    BY <1>0, <1>7 DEF Deleted, EndKnows, EndState
  <2>2. end[t].call # p
    BY <1>0, <1>7, <2>1 DEF Deleted, DataInv
  <2>. QED  BY <1>5, <1>7, <2>2 DEF Deleted
<1>8. ASSUME DeleteFails(t) PROVE Held(p)'
  <2>1. CASE end' = [end EXCEPT ![t].tries = @ + 1]
    <3>. DEFINE q == [end[t] EXCEPT !.tries = @ + 1]
    <3>1. end' = [end EXCEPT ![t] = q] /\ q.call = end[t].call /\ end'[t] = q
      BY <1>0, <2>1 DEF EndState
    <3>2. UNCHANGED table
      BY <1>8 DEF DeleteFails
    <3>. HIDE DEF q
    <3>3. CASE end[t].call = p
      BY <3>1, <3>3 DEF Held, InEnd
    <3>. QED  BY <1>5, <3>1, <3>2, <3>3
  <2>2. CASE end' = [end EXCEPT ![t] = NoEnd] /\ excused' = excused \cup {end[t].call}
    BY <1>5, <1>8, <2>2 DEF DeleteFails
  <2>. QED  BY <1>8, <2>1, <2>2 DEF DeleteFails
<1>. QED  BY <1>6, <1>7, <1>8 DEF DeleteCall

LEMMA PhonesNext ==
  ASSUME NoneIsOther, ManagedInv, NoForgottenPhone, [ManagedNext]_managedVars
  PROVE  NoForgottenPhone'
<1>1. SUFFICES ASSUME NEW p \in Phones \ excused', phone'[p] = "up"
               PROVE  Held(p)'
  BY DEF NoForgottenPhone, Held, InTable, InStart, InEnd
<1>2. DataInv
  BY InvParts
<1>3. ASSUME phone[p] = "up", excused' = excused, UNCHANGED <<start, end>>,
             InTable(p) => InTable(p)'
      PROVE  Held(p)'
  <2>1. Held(p)
    BY <1>1, <1>3, HeldIs
  <2>. QED  BY <1>3, <2>1 DEF Held, InStart, InEnd
<1>4. ASSUME UNCHANGED table PROVE InTable(p) => InTable(p)'
  BY <1>4 DEF InTable
<1>5. CASE UNCHANGED managedVars
  BY <1>1, <1>3, <1>4, <1>5 DEF managedVars, tasks
<1>6. ASSUME NEW t \in Webhooks, Webhook(t) PROVE Held(p)'
  <2>1. InTable(p) => InTable(p)'
    <3>1. CASE Queue(t)
      BY <3>1, QueueTable DEF InTable
    <3>. QED  BY <1>4, <1>6, <3>1 DEF Webhook, Ingest, RecordEvent
  <2>2. UNCHANGED <<start, end, phone, excused>>
    BY <1>6 DEF Webhook, Ingest, Queue, RecordEvent
  <2>. QED  BY <1>1, <1>3, <2>1, <2>2
<1>7. ASSUME NEW s \in Sids, Drain(s) PROVE Held(p)'
  <2>. DEFINE q == [table[s] EXCEPT !.queue = <<>>]
  <2>1. table' = [table EXCEPT ![s] = q] /\ table[s] \in Slots
    BY <1>2, <1>7 DEF Drain, DataInv
  <2>2. <<>> \in Seq(Kinds)
    OBVIOUS
  <2>3. q \in Slots /\ q.call = table[s].call
    BY <2>1, <2>2, QueueStays
  <2>. HIDE DEF q
  <2>4. InTable(p) => InTable(p)'
    <3>1. q # None
      BY <2>3 DEF NoneIsOther
    <3>. QED  BY <1>2, <2>1, <2>3, <3>1 DEF InTable, DataInv
  <2>. QED  BY <1>1, <1>3, <1>7, <2>4 DEF Drain, tasks
<1>8. ASSUME NEW c \in Phones, HangUp(c) PROVE Held(p)'
  <2>1. phone[p] = "up"
    BY <1>1, <1>2, <1>8 DEF HangUp, DataInv
  <2>. QED  BY <1>3, <1>4, <1>8, <2>1 DEF HangUp, tasks
<1>. QED  BY <1>1, <1>5, <1>6, <1>7, <1>8, StartsHold, EndsHold DEF ManagedNext

(* ManagedKeepsTrack, in any interleaving: an event is taken once while the *)
(* window holds it, and again only when Capacity others were taken since;  *)
(* what was taken reaches the call store, unless the store refused it; and *)
(* a phone that is up is some session's, or in the hands of a request,     *)
(* save those whose answer or end was lost and those of session ids used   *)
(* twice; however starts, ends, webhooks, drains and hang-ups interleave.  *)
THEOREM TrackIsKept == ManagedSpec => []ManagedKeepsTrack
<1>0. MaxRetries \in Nat /\ Capacity \in Nat \ {0} /\ NoneIsOther
  BY ManagedAssumption
<1>1. ASSUME ManagedInit PROVE ManagedKeepsTrack
  <2>1. Len(taken) = 0 /\ taken = <<>>
    BY <1>1 DEF ManagedInit
  <2>2. 1..Len(taken) = {}
    BY <2>1
  <2>3. SubSeq(taken, 1, Len(taken)) = <<>> /\ ToSet(<<>>) = {}
    <3>1. SubSeq(<<>>, 1, 0) = <<>>
      BY SubSeqEmpty
    <3>. QED  BY <2>1, <3>1 DEF ToSet
  <2>4. WindowIsLast
    BY <1>0, <1>1, <2>1, <2>3 DEF ManagedInit, WindowIsLast
  <2>5. OncePerWindow /\ TakenIsStored
    BY <2>2 DEF OncePerWindow, TakenIsStored
  <2>6. NoForgottenPhone
    BY <1>1 DEF ManagedInit, NoForgottenPhone
  <2>. QED  BY <2>4, <2>5, <2>6 DEF ManagedKeepsTrack
<1>2. ASSUME ManagedInv, ManagedInv', ManagedKeepsTrack, [ManagedNext]_managedVars PROVE ManagedKeepsTrack'
  <2>1. OncePerWindow /\ WindowIsLast /\ TakenIsStored /\ NoForgottenPhone
    BY <1>2 DEF ManagedKeepsTrack
  <2>2. WindowInv'
    BY <1>0, <1>2, <2>1, WindowNext DEF WindowInv
  <2>3. TakenIsStored' /\ NoForgottenPhone'
    BY <1>0, <1>2, <2>1, StoredNext, PhonesNext
  <2>. QED  BY <2>2, <2>3 DEF ManagedKeepsTrack, WindowInv
<1>. QED  BY <1>0, <1>1, <1>2, InvHolds, PTL DEF ManagedSpec
=============================================================================
