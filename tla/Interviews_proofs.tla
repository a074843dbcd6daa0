------------------------- MODULE Interviews_proofs --------------------------
(***************************************************************************)
(* Proofs about the browser's and the telephone's interview, for messages  *)
(* of every length and content and every length of speech, silence and     *)
(* pre-roll that meets the assumptions of Interviews.                      *)
(*                                                                         *)
(* What the detector hears in a message is a recursion over its frames,    *)
(* and is proved about by induction: of the frames for which a statement   *)
(* fails, there would be a first (LeastNumber).                            *)
(***************************************************************************)
EXTENDS Interviews, SequenceTheorems, WellFoundedInduction, TLAPS

-----------------------------------------------------------------------------
(* The turn detector with the silence that ends a turn as a parameter: the *)
(* browser's and the telephone's are equal to it for theirs.               *)
ObserveFor(sil, seen, voice) ==
  LET d == seen.vad
      run == IF d.speech < MinSpeech THEN d.speech + 1 ELSE MinSpeech
  IN IF voice THEN
       [vad |-> [d EXCEPT !.silence = 0, !.speech = run,
                          !.inSpeech = @ \/ run = MinSpeech],
        events |-> seen.events \cup
                   (IF ~d.inSpeech /\ run = MinSpeech THEN {"SpeechStarted"} ELSE {})]
     ELSE IF ~d.inSpeech THEN [seen EXCEPT !.vad.speech = 0]
     ELSE IF d.silence + 1 < sil THEN [seen EXCEPT !.vad.silence = @ + 1]
     ELSE [vad |-> [d EXCEPT !.inSpeech = FALSE, !.speech = 0, !.silence = 0],
           events |-> seen.events \cup {"TurnEnded"}]

ObservedFor(sil, d, message) ==
  LET seen[i \in 0..Len(message)] ==
        IF i = 0 THEN [vad |-> d, events |-> {}]
                 ELSE ObserveFor(sil, seen[i - 1], message[i])
  IN seen[Len(message)]

HeardFor(sil, d, held, message) ==
  LET ring == IF d.capturing THEN d.preroll ELSE Ring(d.preroll \o message)
      kept == IF d.capturing THEN held \o message ELSE held
      seen == ObservedFor(sil, [d EXCEPT !.preroll = ring], message)
  IN IF ~d.capturing /\ "SpeechStarted" \in seen.events
     THEN [vad |-> [seen.vad EXCEPT !.capturing = TRUE, !.preroll = <<>>],
           buf |-> kept \o ring, events |-> seen.events]
     ELSE [vad |-> seen.vad, buf |-> kept, events |-> seen.events]

LEMMA BrowserHears ==
  ASSUME NEW d, NEW b, NEW message
  PROVE  Heard(d, b, message) = HeardFor(SilenceToEnd, d, b, message)
BY DEF Heard, Observed, Observe, HeardFor, ObservedFor, ObserveFor

LEMMA MediaHears ==
  ASSUME NEW d, NEW b, NEW message
  PROVE  Media!Heard(d, b, message) = HeardFor(MediaSilence, d, b, message)
BY DEF Media!Heard, Media!Observed, Media!Observe, Media!Ring, Ring,
       HeardFor, ObservedFor, ObserveFor

-----------------------------------------------------------------------------
(* Induction. *)
LEMMA LeastNumber ==
  ASSUME NEW T \in SUBSET Nat, T # {}
  PROVE  \E n \in T : \A m \in T : n <= m
<1> DEFINE Less == {p \in Nat \X Nat : p[1] < p[2]}
<1>1. OpToRel(<, Nat) = Less
  BY DEF OpToRel
<1>2. IsWellFoundedOn(Less, Nat)
  BY <1>1, NatLessThanWellFounded
<1> HIDE DEF Less
<1>3. PICK n \in T : \A m \in T : ~ (<<m, n>> \in Less)
  BY <1>2, WFMin
<1>4. \A m \in T : ~ (m < n)
  BY <1>3 DEF Less
<1> QED
  BY <1>4

(* The recursion over the frames of a message has a value for each frame.  *)
Follows(sil, d, message, seen) ==
  seen = [i \in 0..Len(message) |->
            IF i = 0 THEN [vad |-> d, events |-> {}]
                     ELSE ObserveFor(sil, seen[i - 1], message[i])]

LEMMA RecursionExists ==
  ASSUME NEW sil, NEW d, NEW message \in Seq(BOOLEAN)
  PROVE  \E seen : Follows(sil, d, message, seen)
<1> DEFINE Upto(n, seen) ==
      seen = [i \in 0..n |-> IF i = 0 THEN [vad |-> d, events |-> {}]
                                      ELSE ObserveFor(sil, seen[i - 1], message[i])]
           T == {n \in Nat : ~ \E seen : Upto(n, seen)}
<1>1. ASSUME T # {}  PROVE  FALSE
  <2> HIDE DEF Upto
  <2>1. PICK n \in T : \A m \in T : n <= m
    BY <1>1, LeastNumber
  <2>2. n # 0
    <3> DEFINE first == [i \in 0..0 |-> [vad |-> d, events |-> {}]]
    <3>1. Upto(0, first)
      BY DEF Upto
    <3> QED
      BY <2>1, <3>1
  <2>3. PICK seen : Upto(n - 1, seen)
    BY <2>1, <2>2
  <2> DEFINE more == [i \in 0..n |-> IF i = n THEN ObserveFor(sil, seen[n - 1], message[n])
                                              ELSE seen[i]]
  <2>4. Upto(n, more)
    <3>1. \A i \in 0..(n - 1) : more[i] = seen[i]
      BY <2>1
    <3>2. \A i \in 0..(n - 1) :
            seen[i] = IF i = 0 THEN [vad |-> d, events |-> {}]
                               ELSE ObserveFor(sil, seen[i - 1], message[i])
      BY <2>3, <2>1, <2>2 DEF Upto
    <3>3. \A i \in 0..n :
            more[i] = IF i = 0 THEN [vad |-> d, events |-> {}]
                               ELSE ObserveFor(sil, more[i - 1], message[i])
      <4> SUFFICES ASSUME NEW i \in 0..n
                   PROVE  more[i] = IF i = 0 THEN [vad |-> d, events |-> {}]
                                    ELSE ObserveFor(sil, more[i - 1], message[i])
        OBVIOUS
      <4>1. CASE i = n
        <5>1. n - 1 \in 0..(n - 1)
          BY <2>1, <2>2
        <5> QED
          BY <4>1, <5>1, <3>1, <2>2
      <4>2. CASE i # n
        <5>1. i \in 0..(n - 1) /\ (i # 0 => i - 1 \in 0..(n - 1))
          BY <4>2, <2>1
        <5> HIDE DEF more
        <5> QED
          BY <5>1, <3>1, <3>2
      <4> QED
        BY <4>1, <4>2
    <3> QED
      BY <3>3 DEF Upto
  <2> QED
    BY <2>1, <2>4
<1>2. \E seen : Upto(Len(message), seen)
  <2> HIDE DEF Upto
  <2>1. Len(message) \in Nat
    OBVIOUS
  <2>2. Len(message) \notin T
    BY <1>1
  <2> QED
    BY <2>1, <2>2
<1> QED
  BY <1>2 DEF Follows

-----------------------------------------------------------------------------
(* What one frame after the other makes of the detector.                   *)
DetectorFor(sil) ==
  [speech : 0..MinSpeech, silence : 0..(sil - 1),
   inSpeech : BOOLEAN, capturing : BOOLEAN, preroll : Seq(BOOLEAN)]

VadEvents == {"SpeechStarted", "TurnEnded"}

(* The frames of audio before and with the n-th end in k frames of voice.  *)
VoiceAt(frames, n, k) == k <= n /\ \A j \in (n - k + 1)..n : frames[j]

(* What is true after i frames of a message: how events and flags belong   *)
(* together,                                                               *)
Flags(d, s) ==
  /\ s.vad.capturing = d.capturing /\ s.vad.preroll = d.preroll
  /\ "TurnEnded" \in s.events => d.inSpeech \/ "SpeechStarted" \in s.events
  /\ s.vad.inSpeech => d.inSpeech \/ "SpeechStarted" \in s.events
  /\ d.inSpeech => s.vad.inSpeech \/ "TurnEnded" \in s.events

(* that speech which started in a short message has not ended in it,       *)
StillSpeaking(sil, d, i, s) ==
  ~d.inSpeech /\ "SpeechStarted" \in s.events /\ i <= sil
    => s.vad.inSpeech /\ s.vad.silence < i /\ "TurnEnded" \notin s.events

(* and that speech is confirmed by voice; `frames' is what was heard       *)
(* before, up to frame n, and the message after it.                        *)
Confirmed(d, frames, n, i, s) ==
  ~d.inSpeech =>
    IF "SpeechStarted" \in s.events
    THEN \E k \in 1..i : VoiceAt(frames, n + k, MinSpeech)
    ELSE VoiceAt(frames, n + i, s.vad.speech)

SeenType(sil) == [vad : DetectorFor(sil), events : SUBSET VadEvents]

LEMMA Constants ==
  /\ MinSpeech \in Nat \ {0} /\ SilenceToEnd \in Nat \ {0} /\ Preroll \in Nat \ {0}
  /\ MaxMessage \in Nat \ {0} /\ MediaSilence \in Nat \ {0} /\ MediaMessage \in Nat \ {0}
  /\ MaxUtterance \in Nat
BY DetectorAssumption, SessionAssumption, MediaAssumption

(* The four things a frame may be: voice, a click that ends, silence that  *)
(* grows, silence that ends the turn.                                      *)
Run(d) == IF d.speech < MinSpeech THEN d.speech + 1 ELSE MinSpeech

Voiced(d, s, r) ==
  /\ r.vad.speech = Run(d) /\ r.vad.silence = 0
  /\ r.vad.inSpeech <=> d.inSpeech \/ Run(d) = MinSpeech
  /\ r.events = IF ~d.inSpeech /\ Run(d) = MinSpeech
                THEN s.events \cup {"SpeechStarted"} ELSE s.events
Idle(d, s, r) ==
  /\ ~d.inSpeech /\ ~r.vad.inSpeech
  /\ r.vad.speech = 0 /\ r.vad.silence = d.silence /\ r.events = s.events
Pausing(sil, d, s, r) ==
  /\ d.inSpeech /\ r.vad.inSpeech /\ d.silence + 1 < sil
  /\ r.vad.speech = d.speech /\ r.vad.silence = d.silence + 1 /\ r.events = s.events
Ending(sil, d, s, r) ==
  /\ d.inSpeech /\ ~r.vad.inSpeech /\ ~(d.silence + 1 < sil)
  /\ r.vad.speech = 0 /\ r.vad.silence = 0 /\ r.events = s.events \cup {"TurnEnded"}

Frame(sil, s, voice, r) ==
  /\ r \in SeenType(sil)
  /\ r.vad.capturing = s.vad.capturing /\ r.vad.preroll = s.vad.preroll
  /\ voice => Voiced(s.vad, s, r)
  /\ ~voice => Idle(s.vad, s, r) \/ Pausing(sil, s.vad, s, r) \/ Ending(sil, s.vad, s, r)

(* A detector by its fields.                                               *)
Vad(d, speech, silence, inSpeech) ==
  [speech |-> speech, silence |-> silence, inSpeech |-> inSpeech,
   capturing |-> d.capturing, preroll |-> d.preroll]

LEMMA VadTyped ==
  ASSUME NEW sil \in Nat \ {0}, NEW d \in DetectorFor(sil), NEW speech \in 0..MinSpeech,
         NEW silence \in 0..(sil - 1), NEW inSpeech \in BOOLEAN
  PROVE  Vad(d, speech, silence, inSpeech) \in DetectorFor(sil)
BY DEF Vad, DetectorFor

VadWith(d, speech, silence, inSpeech) ==
  [speech : {speech}, silence : {silence}, inSpeech : {inSpeech},
   capturing : {d.capturing}, preroll : {d.preroll}]

LEMMA VadIs ==
  ASSUME NEW d, NEW speech, NEW silence, NEW inSpeech,
         NEW v \in VadWith(d, speech, silence, inSpeech)
  PROVE  v = Vad(d, speech, silence, inSpeech)
BY DEF Vad, VadWith

LEMMA FrameCases ==
  ASSUME NEW sil \in Nat \ {0}, NEW s \in SeenType(sil), NEW voice \in BOOLEAN
  PROVE  Frame(sil, s, voice, ObserveFor(sil, s, voice))
<1> DEFINE r == ObserveFor(sil, s, voice)
<1> SUFFICES Frame(sil, s, voice, r)
  OBVIOUS
<1>1. PICK d : d = s.vad
  OBVIOUS
<1>2. /\ d \in DetectorFor(sil) /\ s.events \in SUBSET VadEvents
      /\ s = [vad |-> d, events |-> s.events]
  BY <1>1 DEF SeenType
<1>3. /\ d \in VadWith(d, d.speech, d.silence, d.inSpeech)
      /\ d.speech \in 0..MinSpeech /\ d.silence \in 0..(sil - 1) /\ d.inSpeech \in BOOLEAN
  BY <1>2 DEF VadWith, DetectorFor
<1>4. CASE voice
  <2>1. PICK run : run = Run(d)
    OBVIOUS
  <2>2. run \in 0..MinSpeech
    BY <1>3, <2>1, Constants DEF Run
  <2>0. PICK in \in BOOLEAN : in = (d.inSpeech \/ run = MinSpeech)
    OBVIOUS
  <2> DEFINE e == IF ~d.inSpeech /\ run = MinSpeech
                  THEN s.events \cup {"SpeechStarted"} ELSE s.events
  <2>3. PICK v : v = [d EXCEPT !.silence = 0, !.speech = run, !.inSpeech = in]
    OBVIOUS
  <2>v. v = Vad(d, run, 0, in)
    <3>1. v \in VadWith(d, run, 0, in)
      BY <1>3, <2>3 DEF VadWith
    <3> QED
      BY <3>1, VadIs
  <2>4. s.events \cup (IF ~d.inSpeech /\ run = MinSpeech THEN {"SpeechStarted"} ELSE {}) = e
    OBVIOUS
  <2>5. r = [vad |-> Vad(d, run, 0, in), events |-> e]
    <3>1. r = [vad |-> v, events |-> e]
      BY <1>1, <1>4, <2>0, <2>1, <2>3, <2>4 DEF ObserveFor, Run
    <3> QED
      BY <3>1, <2>v
  <2>6. Vad(d, run, 0, in) \in DetectorFor(sil)
    <3>1. 0 \in 0..(sil - 1)
      OBVIOUS
    <3> QED
      BY <1>2, <2>0, <2>2, <3>1, VadTyped
  <2>7. e \in SUBSET VadEvents
    BY <1>2 DEF VadEvents
  <2>8. r \in SeenType(sil)
    BY <2>5, <2>6, <2>7 DEF SeenType
  <2> HIDE DEF r
  <2>9. r.vad.speech = run /\ r.vad.silence = 0 /\ r.vad.inSpeech = in /\ r.events = e
        /\ r.vad.capturing = d.capturing /\ r.vad.preroll = d.preroll
    BY <2>5 DEF Vad
  <2>10. Voiced(d, s, r)
    BY <2>0, <2>1, <2>9 DEF Voiced
  <2> QED
    BY <1>1, <1>4, <2>8, <2>9, <2>10 DEF Frame
<1>5. CASE ~voice
  <2>1. CASE ~d.inSpeech
    <3>1. r = [vad |-> Vad(d, 0, d.silence, d.inSpeech), events |-> s.events]
      BY <1>1, <1>2, <1>5, <2>1 DEF ObserveFor, Vad, DetectorFor
    <3>2. Vad(d, 0, d.silence, d.inSpeech) \in DetectorFor(sil)
      BY <1>2, <1>3, VadTyped, Constants
    <3>3. r \in SeenType(sil)
      BY <1>2, <3>1, <3>2 DEF SeenType
    <3> HIDE DEF r
    <3> QED
      BY <1>1, <1>5, <2>1, <3>1, <3>3 DEF Frame, Idle, Vad
  <2>2. CASE d.inSpeech /\ d.silence + 1 < sil
    <3>1. r = [vad |-> Vad(d, d.speech, d.silence + 1, d.inSpeech), events |-> s.events]
      BY <1>1, <1>2, <1>5, <2>2 DEF ObserveFor, Vad, DetectorFor
    <3>2. Vad(d, d.speech, d.silence + 1, d.inSpeech) \in DetectorFor(sil)
      <4>1. d.silence + 1 \in 0..(sil - 1)
        BY <1>3, <2>2
      <4> QED
        BY <1>2, <1>3, <4>1, VadTyped
    <3>3. r \in SeenType(sil)
      BY <1>2, <3>1, <3>2 DEF SeenType
    <3> HIDE DEF r
    <3> QED
      BY <1>1, <1>5, <2>2, <3>1, <3>3 DEF Frame, Pausing, Vad
  <2>3. CASE d.inSpeech /\ ~(d.silence + 1 < sil)
    <3>1. r = [vad |-> Vad(d, 0, 0, FALSE), events |-> s.events \cup {"TurnEnded"}]
      <4>1. PICK v : v = [d EXCEPT !.inSpeech = FALSE, !.speech = 0, !.silence = 0]
        OBVIOUS
      <4>2. v = Vad(d, 0, 0, FALSE)
        <5>1. v \in VadWith(d, 0, 0, FALSE)
          BY <1>3, <4>1 DEF VadWith
        <5> QED
          BY <5>1, VadIs, Zenon
      <4>3. r = [vad |-> v, events |-> s.events \cup {"TurnEnded"}]
        BY <1>1, <1>5, <2>3, <4>1 DEF ObserveFor
      <4> QED
        BY <4>2, <4>3
    <3>2. Vad(d, 0, 0, FALSE) \in DetectorFor(sil)
      <4>1. 0 \in 0..(sil - 1) /\ 0 \in 0..MinSpeech
        BY Constants
      <4> QED
        BY <1>2, <4>1, VadTyped
    <3>3. r \in SeenType(sil)
      <4>1. PICK e : e = s.events \cup {"TurnEnded"}
        OBVIOUS
      <4>2. PICK v : v = Vad(d, 0, 0, FALSE)
        OBVIOUS
      <4>3. e \in SUBSET VadEvents /\ v \in DetectorFor(sil) /\ r = [vad |-> v, events |-> e]
        BY <1>2, <3>1, <3>2, <4>1, <4>2 DEF VadEvents
      <4> QED
        BY <4>3 DEF SeenType
    <3> HIDE DEF r
    <3> QED
      BY <1>1, <1>5, <2>3, <3>1, <3>3 DEF Frame, Ending, Vad
  <2> QED
    BY <2>1, <2>2, <2>3
<1> QED
  BY <1>4, <1>5

LEMMA FrameFlags ==
  ASSUME NEW sil \in Nat \ {0}, NEW s \in SeenType(sil), NEW voice \in BOOLEAN,
         NEW d, Flags(d, s)
  PROVE  Flags(d, ObserveFor(sil, s, voice))
<1> DEFINE r == ObserveFor(sil, s, voice)
<1>1. Frame(sil, s, voice, r)
  BY FrameCases
<1> HIDE DEF r
<1>2. Flags(d, r)
  BY <1>1 DEF Frame, Flags, Voiced, Idle, Pausing, Ending
<1> QED
  BY <1>2 DEF r

LEMMA FrameSpeaks ==
  ASSUME NEW sil \in Nat \ {0}, NEW s \in SeenType(sil), NEW voice \in BOOLEAN,
         NEW d, Flags(d, s), NEW i \in Nat, StillSpeaking(sil, d, i, s)
  PROVE  StillSpeaking(sil, d, i + 1, ObserveFor(sil, s, voice))
<1> DEFINE r == ObserveFor(sil, s, voice)
<1>1. Frame(sil, s, voice, r)
  BY FrameCases
<1>2. s.vad.silence \in Nat /\ "TurnEnded" # "SpeechStarted"
  BY DEF SeenType, DetectorFor
<1> HIDE DEF r
<1>3. ASSUME ~d.inSpeech, "SpeechStarted" \in r.events, i + 1 <= sil
      PROVE  r.vad.inSpeech /\ r.vad.silence < i + 1 /\ "TurnEnded" \notin r.events
  <2>1. CASE "SpeechStarted" \in s.events
    <3>1. s.vad.inSpeech /\ s.vad.silence < i /\ "TurnEnded" \notin s.events
      BY <1>3, <2>1 DEF StillSpeaking
    <3>2. s.vad.silence + 1 < sil
      BY <1>2, <1>3, <3>1
    <3>3. Voiced(s.vad, s, r) \/ Pausing(sil, s.vad, s, r) \/ Ending(sil, s.vad, s, r)
      BY <1>1, <3>1 DEF Frame, Idle
    <3>4. CASE Voiced(s.vad, s, r)
      BY <1>2, <3>1, <3>4 DEF Voiced
    <3>5. CASE Pausing(sil, s.vad, s, r)
      BY <1>2, <3>1, <3>5 DEF Pausing
    <3>6. ~Ending(sil, s.vad, s, r)
      BY <3>2 DEF Ending
    <3> QED
      BY <3>3, <3>4, <3>5, <3>6
  <2>2. CASE "SpeechStarted" \notin s.events
    <3>1. ~s.vad.inSpeech /\ "TurnEnded" \notin s.events
      BY <1>3, <2>2 DEF Flags
    <3>2. Voiced(s.vad, s, r)
      BY <1>1, <1>2, <1>3, <2>2, <3>1 DEF Frame, Idle, Pausing, Ending
    <3> QED
      BY <1>2, <1>3, <2>2, <3>1, <3>2 DEF Voiced
  <2> QED
    BY <2>1, <2>2
<1>4. StillSpeaking(sil, d, i + 1, r)
  BY <1>3 DEF StillSpeaking
<1> QED
  BY <1>4 DEF r

LEMMA FrameConfirms ==
  ASSUME NEW sil \in Nat \ {0}, NEW s \in SeenType(sil), NEW d, Flags(d, s),
         NEW n \in Nat, NEW i \in Nat,
         NEW frames \in Seq(BOOLEAN), n + i + 1 <= Len(frames),
         Confirmed(d, frames, n, i, s)
  PROVE  Confirmed(d, frames, n, i + 1, ObserveFor(sil, s, frames[n + i + 1]))
<1>0. frames[n + i + 1] \in BOOLEAN /\ s.vad.speech \in 0..MinSpeech
  BY DEF SeenType, DetectorFor
<1>1. PICK voice \in BOOLEAN : voice = frames[n + i + 1]
  BY <1>0
<1> DEFINE r == ObserveFor(sil, s, voice)
<1>2. Frame(sil, s, voice, r)
  BY FrameCases
<1> HIDE DEF r
<1>3. SUFFICES ASSUME ~d.inSpeech  PROVE Confirmed(d, frames, n, i + 1, r)
  BY <1>1 DEF Confirmed, r
<1>4. CASE "SpeechStarted" \in s.events
  <2>1. PICK k \in 1..i : VoiceAt(frames, n + k, MinSpeech)
    BY <1>3, <1>4 DEF Confirmed
  <2>2. "SpeechStarted" \in r.events
    BY <1>2, <1>4 DEF Frame, Voiced, Idle, Pausing, Ending
  <2>3. k \in 1..(i + 1)
    OBVIOUS
  <2> QED
    BY <2>1, <2>2, <2>3 DEF Confirmed
<1>5. CASE "SpeechStarted" \notin s.events
  <2>1. VoiceAt(frames, n + i, s.vad.speech) /\ ~s.vad.inSpeech
    BY <1>3, <1>5 DEF Confirmed, Flags
  <2>2. CASE voice
    <3>1. Voiced(s.vad, s, r)
      BY <1>2, <2>2 DEF Frame
    <3>2. VoiceAt(frames, n + (i + 1), Run(s.vad))
      <4>1. PICK q \in 0..MinSpeech : q = s.vad.speech
        BY <1>0
      <4>2. PICK run : run = Run(s.vad)
        OBVIOUS
      <4>3. /\ run \in Nat /\ run <= q + 1 /\ q \in Nat
            /\ q <= n + i /\ \A j \in (n + i - q + 1)..(n + i) : frames[j]
        <5>1. run = IF q < MinSpeech THEN q + 1 ELSE MinSpeech
          BY <4>1, <4>2 DEF Run
        <5>2. VoiceAt(frames, n + i, q)
          BY <4>1, <2>1
        <5> QED
          BY <5>1, <5>2, Constants DEF VoiceAt
      <4>4. frames[n + i + 1]
        BY <1>1, <2>2
      <4>5. \A j \in (n + (i + 1) - run + 1)..(n + (i + 1)) : frames[j]
        <5> TAKE j \in (n + (i + 1) - run + 1)..(n + (i + 1))
        <5>1. j \in Int /\ n + (i + 1) - run + 1 <= j /\ j <= n + (i + 1)
          BY <4>3
        <5>2. j = n + i + 1 \/ j \in (n + i - q + 1)..(n + i)
          BY <4>3, <5>1
        <5> QED
          BY <4>3, <4>4, <5>2
      <4>6. run <= n + (i + 1)
        BY <4>3
      <4>7. VoiceAt(frames, n + (i + 1), run)
        BY <4>3, <4>5, <4>6 DEF VoiceAt
      <4> QED
        BY <4>2, <4>7
    <3>3. i + 1 \in 1..(i + 1)
      OBVIOUS
    <3>4. "SpeechStarted" \in r.events => Run(s.vad) = MinSpeech
      BY <3>1, <1>5 DEF Voiced
    <3> QED
      BY <3>1, <3>2, <3>3, <3>4 DEF Confirmed, Voiced
  <2>3. CASE ~voice
    <3>1. r.events = s.events /\ r.vad.speech = 0
      BY <1>2, <2>1, <2>3 DEF Frame, Idle, Pausing, Ending
    <3>2. VoiceAt(frames, n + (i + 1), 0)
      BY DEF VoiceAt
    <3> QED
      BY <1>5, <3>1, <3>2 DEF Confirmed
  <2> QED
    BY <2>2, <2>3
<1> QED
  BY <1>4, <1>5

-----------------------------------------------------------------------------
(* A message: what was true after each frame is true after the last.       *)
LEMMA ObservedFollows ==
  ASSUME NEW sil, NEW d, NEW message \in Seq(BOOLEAN)
  PROVE  \E seen : Follows(sil, d, message, seen)
                   /\ ObservedFor(sil, d, message) = seen[Len(message)]
<1> DEFINE seen == CHOOSE f : Follows(sil, d, message, f)
<1>1. Follows(sil, d, message, seen)
  BY RecursionExists
<1>2. ObservedFor(sil, d, message) = seen[Len(message)]
  BY DEF ObservedFor, Follows
<1> QED
  BY <1>1, <1>2

(* What is true before the first frame, and kept by each.                  *)
SeenOK(sil, d, message, i, s) ==
  /\ s \in SeenType(sil)
  /\ Flags(d, s)
  /\ StillSpeaking(sil, d, i, s)
  /\ \A before \in Seq(BOOLEAN) : VoiceAt(before, Len(before), d.speech)
       => Confirmed(d, before \o message, Len(before), i, s)

LEMMA SeenFirst ==
  ASSUME NEW sil \in Nat \ {0}, NEW d \in DetectorFor(sil), NEW message \in Seq(BOOLEAN)
  PROVE  SeenOK(sil, d, message, 0, [vad |-> d, events |-> {}])
<1> DEFINE s == [vad |-> d, events |-> {}]
<1>1. s \in SeenType(sil)
  BY DEF SeenType
<1>2. s.vad = d /\ s.events = {}
  OBVIOUS
<1> HIDE DEF s
<1>3. ASSUME NEW before \in Seq(BOOLEAN), VoiceAt(before, Len(before), d.speech)
      PROVE  VoiceAt(before \o message, Len(before) + 0, d.speech)
  <2>1. d.speech \in Nat /\ Len(before) \in Nat
    BY DEF DetectorFor
  <2>2. d.speech <= Len(before) + 0
    BY <1>3, <2>1 DEF VoiceAt
  <2>3. \A j \in (Len(before) + 0 - d.speech + 1)..(Len(before) + 0) : (before \o message)[j]
    <3> TAKE j \in (Len(before) + 0 - d.speech + 1)..(Len(before) + 0)
    <3>1. j \in 1..Len(before) /\ j \in (Len(before) - d.speech + 1)..Len(before)
      BY <2>1, <2>2
    <3>2. (before \o message)[j] = before[j]
      BY <3>1
    <3>3. before[j]
      BY <1>3, <3>1 DEF VoiceAt
    <3> QED
      BY <3>2, <3>3
  <2> QED
    BY <2>1, <2>2, <2>3 DEF VoiceAt
<1>4. SeenOK(sil, d, message, 0, s)
  BY <1>1, <1>2, <1>3 DEF SeenOK, Flags, StillSpeaking, Confirmed
<1> QED
  BY <1>4 DEF s

LEMMA SeenNext ==
  ASSUME NEW sil \in Nat \ {0}, NEW d \in DetectorFor(sil), NEW message \in Seq(BOOLEAN),
         NEW i \in 0..(Len(message) - 1), NEW s, SeenOK(sil, d, message, i, s)
  PROVE  SeenOK(sil, d, message, i + 1, ObserveFor(sil, s, message[i + 1]))
<1> DEFINE r == ObserveFor(sil, s, message[i + 1])
<1>1. message[i + 1] \in BOOLEAN /\ i \in Nat /\ s \in SeenType(sil) /\ Flags(d, s)
  BY DEF SeenOK
<1>2. r \in SeenType(sil)
  BY <1>1, FrameCases DEF Frame
<1>3. Flags(d, r)
  BY <1>1, FrameFlags
<1>4. StillSpeaking(sil, d, i + 1, r)
  BY <1>1, FrameSpeaks DEF SeenOK
<1>5. ASSUME NEW before \in Seq(BOOLEAN), VoiceAt(before, Len(before), d.speech)
      PROVE  Confirmed(d, before \o message, Len(before), i + 1, r)
  <2>1. PICK frames \in Seq(BOOLEAN) : frames = before \o message
    BY ConcatProperties
  <2>2. /\ Len(before) \in Nat /\ Len(before) + i + 1 <= Len(frames)
        /\ frames[Len(before) + i + 1] = message[i + 1]
    BY <2>1, <1>1
  <2>3. Confirmed(d, frames, Len(before), i, s)
    BY <1>5, <2>1 DEF SeenOK
  <2>4. Confirmed(d, frames, Len(before), i + 1,
                  ObserveFor(sil, s, frames[Len(before) + i + 1]))
    BY <1>1, <2>2, <2>3, FrameConfirms
  <2> QED
    BY <2>1, <2>2, <2>4
<1> HIDE DEF r
<1>6. SeenOK(sil, d, message, i + 1, r)
  BY <1>2, <1>3, <1>4, <1>5 DEF SeenOK
<1> QED
  BY <1>6 DEF r

LEMMA SeenLast ==
  ASSUME NEW sil \in Nat \ {0}, NEW d \in DetectorFor(sil), NEW message \in Seq(BOOLEAN)
  PROVE  SeenOK(sil, d, message, Len(message), ObservedFor(sil, d, message))
<1>1. PICK seen : Follows(sil, d, message, seen)
                  /\ ObservedFor(sil, d, message) = seen[Len(message)]
  BY ObservedFollows
<1>2. \A i \in 0..Len(message) :
        seen[i] = IF i = 0 THEN [vad |-> d, events |-> {}]
                           ELSE ObserveFor(sil, seen[i - 1], message[i])
  BY <1>1 DEF Follows
<1> DEFINE T == {i \in 0..Len(message) : ~SeenOK(sil, d, message, i, seen[i])}
<1>3. T \in SUBSET Nat
  OBVIOUS
<1>4. ASSUME T # {}  PROVE FALSE
  <2>1. PICK n \in T : \A m \in T : n <= m
    BY <1>3, <1>4, LeastNumber
  <2>2. n \in 0..Len(message) /\ ~SeenOK(sil, d, message, n, seen[n])
    OBVIOUS
  <2>3. n # 0
    BY <1>2, <2>2, SeenFirst
  <2>4. PICK i \in 0..(Len(message) - 1) : n = i + 1
    <3>1. n - 1 \in 0..(Len(message) - 1) /\ n = (n - 1) + 1
      BY <2>2, <2>3
    <3> QED
      BY <3>1
  <2>5. i \in 0..Len(message) /\ i \notin T
    <3>1. i \in 0..Len(message) /\ ~ (n <= i)
      BY <2>4
    <3> QED
      BY <2>1, <3>1
  <2>6. SeenOK(sil, d, message, i, seen[i])
    BY <2>5
  <2>7. seen[n] = ObserveFor(sil, seen[i], message[i + 1])
    <3>1. n - 1 = i
      BY <2>4
    <3> QED
      BY <1>2, <2>2, <2>3, <2>4, <3>1
  <2>8. SeenOK(sil, d, message, i + 1, ObserveFor(sil, seen[i], message[i + 1]))
    BY <2>6, SeenNext
  <2> QED
    BY <2>2, <2>4, <2>7, <2>8
<1>5. Len(message) \in 0..Len(message)
  OBVIOUS
<1>6. SeenOK(sil, d, message, Len(message), seen[Len(message)])
  BY <1>4, <1>5
<1> QED
  BY <1>1, <1>6

-----------------------------------------------------------------------------
(* The audio that is kept.                                                 *)
LEMMA RingIs ==
  ASSUME NEW frames \in Seq(BOOLEAN)
  PROVE  \E k \in 0..Preroll :
           /\ k = Preroll \/ k = Len(frames)
           /\ k <= Len(frames)
           /\ Ring(frames) \in Seq(BOOLEAN) /\ Len(Ring(frames)) = k
           /\ \A j \in 1..k : Ring(frames)[j] = frames[Len(frames) - k + j]
<1> DEFINE k == IF Len(frames) < Preroll THEN Len(frames) ELSE Preroll
<1>1. /\ Len(frames) \in Nat /\ k \in 0..Preroll /\ k <= Len(frames)
      /\ k = Preroll \/ k = Len(frames)
  BY Constants
<1>2. Ring(frames) = SubSeq(frames, Len(frames) - k + 1, Len(frames))
  BY DEF Ring
<1> HIDE DEF k
<1>3. PICK m \in Int : m = Len(frames) - k + 1
  BY <1>1
<1>4. \A j \in m..Len(frames) : frames[j] \in BOOLEAN
  BY <1>1, <1>3
<1>5. /\ Ring(frames) \in Seq(BOOLEAN)
      /\ Len(Ring(frames)) = IF m <= Len(frames) THEN Len(frames) - m + 1 ELSE 0
      /\ \A j \in 1..(Len(frames) - m + 1) : Ring(frames)[j] = frames[m + j - 1]
  BY <1>1, <1>2, <1>3, <1>4, SubSeqProperties
<1>6. Len(Ring(frames)) = k
  BY <1>1, <1>3, <1>5
<1>7. \A j \in 1..k : Ring(frames)[j] = frames[Len(frames) - k + j]
  BY <1>1, <1>3, <1>5
<1> QED
  BY <1>1, <1>5, <1>6, <1>7

LEMMA RingHolds ==
  ASSUME NEW frames \in Seq(BOOLEAN), NEW n \in 0..Len(frames), VoiceAt(frames, n, MinSpeech),
         MinSpeech + (Len(frames) - n) <= Preroll
  PROVE  HoldsSpeech(Ring(frames))
<1>1. PICK k \in 0..Preroll :
        /\ k = Preroll \/ k = Len(frames)
        /\ k <= Len(frames)
        /\ Ring(frames) \in Seq(BOOLEAN) /\ Len(Ring(frames)) = k
        /\ \A j \in 1..k : Ring(frames)[j] = frames[Len(frames) - k + j]
  BY RingIs
<1>2. PICK l \in Nat : l = Len(frames)
  OBVIOUS
<1>3. MinSpeech \in Nat \ {0} /\ k \in Nat /\ n \in Nat /\ n <= l /\ MinSpeech <= n
  BY <1>2, Constants DEF VoiceAt
<1>4. PICK i \in 1..k : i = n - MinSpeech + 1 - (l - k)
  <2>1. MinSpeech + (l - n) <= k
    BY <1>1, <1>2, <1>3
  <2>2. n - MinSpeech + 1 - (l - k) \in 1..k
    BY <1>3, <2>1
  <2> QED
    BY <2>2
<1>5. i + MinSpeech - 1 <= k
  BY <1>2, <1>3, <1>4
<1>6. ASSUME NEW j \in i..(i + MinSpeech - 1)
      PROVE  Ring(frames)[j]
  <2>1. j \in 1..k /\ l - k + j \in (n - MinSpeech + 1)..n
    BY <1>3, <1>4, <1>5
  <2>2. Ring(frames)[j] = frames[l - k + j]
    BY <1>1, <1>2, <2>1
  <2>3. frames[l - k + j]
    BY <2>1 DEF VoiceAt
  <2> QED
    BY <2>2, <2>3
<1> QED
  BY <1>1, <1>4, <1>5, <1>6 DEF HoldsSpeech

LEMMA RingEnds ==
  ASSUME NEW frames \in Seq(BOOLEAN), NEW m \in 0..MinSpeech,
         VoiceAt(frames, Len(frames), m), MinSpeech <= Preroll
  PROVE  VoiceAt(Ring(frames), Len(Ring(frames)), m)
<1>1. PICK k \in 0..Preroll :
        /\ k = Preroll \/ k = Len(frames)
        /\ k <= Len(frames)
        /\ Ring(frames) \in Seq(BOOLEAN) /\ Len(Ring(frames)) = k
        /\ \A j \in 1..k : Ring(frames)[j] = frames[Len(frames) - k + j]
  BY RingIs
<1>2. PICK l \in Nat : l = Len(frames)
  OBVIOUS
<1>3. m \in Nat /\ k \in Nat /\ m <= l /\ m <= k
  BY <1>1, <1>2, Constants DEF VoiceAt
<1>4. ASSUME NEW j \in (k - m + 1)..k
      PROVE  Ring(frames)[j]
  <2>1. j \in 1..k /\ l - k + j \in (l - m + 1)..l
    BY <1>3
  <2>2. Ring(frames)[j] = frames[l - k + j]
    BY <1>1, <1>2, <2>1
  <2>3. frames[l - k + j]
    BY <1>2, <2>1 DEF VoiceAt
  <2> QED
    BY <2>2, <2>3
<1>5. VoiceAt(Ring(frames), k, m)
  BY <1>3, <1>4 DEF VoiceAt
<1> QED
  BY <1>1, <1>5

LEMMA HoldsMore ==
  ASSUME NEW frames \in Seq(BOOLEAN), NEW other \in Seq(BOOLEAN), HoldsSpeech(frames)
  PROVE  HoldsSpeech(frames \o other) /\ HoldsSpeech(other \o frames)
<1>1. PICK i \in 1..Len(frames) : /\ i + MinSpeech - 1 <= Len(frames)
                                  /\ \A j \in i..(i + MinSpeech - 1) : frames[j]
  BY DEF HoldsSpeech
<1>2. PICK l \in Nat, m \in Nat, q \in Nat \ {0} :
        l = Len(frames) /\ m = Len(other) /\ q = MinSpeech
  BY Constants
<1>3. PICK a, b : a = frames \o other /\ b = other \o frames
  OBVIOUS
<1>4. /\ Len(a) = l + m /\ Len(b) = l + m
      /\ \A j \in 1..(l + m) : a[j] = IF j <= l THEN frames[j] ELSE other[j - l]
      /\ \A j \in 1..(m + l) : b[j] = IF j <= m THEN other[j] ELSE frames[j - m]
  BY <1>2, <1>3, ConcatProperties
<1>5. HoldsSpeech(a)
  <2>1. i \in 1..(l + m) /\ i + q - 1 <= l + m
    BY <1>1, <1>2
  <2>2. ASSUME NEW j \in i..(i + q - 1)  PROVE a[j]
    <3>1. j \in 1..(l + m) /\ j <= l
      BY <1>1, <1>2
    <3>2. a[j] = frames[j]
      BY <1>4, <3>1
    <3> QED
      BY <1>1, <1>2, <3>2
  <2> QED
    BY <1>2, <1>4, <2>1, <2>2 DEF HoldsSpeech
<1>6. HoldsSpeech(b)
  <2>1. m + i \in 1..(l + m) /\ m + i + q - 1 <= l + m
    BY <1>1, <1>2
  <2>2. ASSUME NEW j \in (m + i)..(m + i + q - 1)  PROVE b[j]
    <3>1. j \in 1..(m + l) /\ ~(j <= m) /\ j - m \in i..(i + q - 1)
      BY <1>1, <1>2
    <3>2. b[j] = frames[j - m]
      BY <1>4, <3>1
    <3> QED
      BY <1>1, <1>2, <3>1, <3>2
  <2> QED
    BY <1>2, <1>4, <2>1, <2>2 DEF HoldsSpeech
<1> QED
  BY <1>3, <1>5, <1>6

-----------------------------------------------------------------------------
(* What is heard in a message.  The detector holds speech while it         *)
(* captures, and otherwise the voice that might become speech.             *)
Whole(d, held) ==
  IF d.capturing THEN HoldsSpeech(held) ELSE VoiceAt(d.preroll, Len(d.preroll), d.speech)

Hears(sil, d, held, message, h) ==
  /\ h.vad \in DetectorFor(sil) /\ Len(h.vad.preroll) <= Preroll
  /\ h.buf \in Seq(BOOLEAN) /\ Len(h.buf) <= Len(held) + Len(message) + Preroll
  /\ h.vad.inSpeech => h.vad.capturing
  /\ h.vad.capturing <=> d.capturing \/ "SpeechStarted" \in h.events
  /\ ~h.vad.capturing => h.buf = held
  /\ "TurnEnded" \in h.events => d.inSpeech \/ "SpeechStarted" \in h.events
  /\ d.inSpeech => h.vad.inSpeech \/ "TurnEnded" \in h.events
  /\ ~d.inSpeech /\ Len(message) <= sil =>
       /\ "TurnEnded" \notin h.events
       /\ "SpeechStarted" \in h.events => h.vad.inSpeech
  /\ Whole(d, held) /\ MinSpeech + Len(message) <= Preroll + 1 /\ message # <<>>
       => Whole(h.vad, h.buf)

LEMMA HeardHears ==
  ASSUME NEW sil \in Nat \ {0}, NEW d \in DetectorFor(sil), Len(d.preroll) <= Preroll,
         d.inSpeech => d.capturing, NEW held \in Seq(BOOLEAN), NEW message \in Seq(BOOLEAN)
  PROVE  Hears(sil, d, held, message, HeardFor(sil, d, held, message))
<1> DEFINE ring == IF d.capturing THEN d.preroll ELSE Ring(d.preroll \o message)
           kept == IF d.capturing THEN held \o message ELSE held
           base == [d EXCEPT !.preroll = ring]
           s == ObservedFor(sil, base, message)
           h == HeardFor(sil, d, held, message)
           started == ~d.capturing /\ "SpeechStarted" \in s.events
<1>1. /\ d.preroll \in Seq(BOOLEAN) /\ d.speech \in 0..MinSpeech
      /\ d.capturing \in BOOLEAN /\ d.inSpeech \in BOOLEAN
      /\ Len(d.preroll) \in Nat /\ Len(held) \in Nat /\ Len(message) \in Nat
  BY DEF DetectorFor
<1>2. PICK frames \in Seq(BOOLEAN) : frames = d.preroll \o message
  BY <1>1, ConcatProperties
<1>3. ring \in Seq(BOOLEAN) /\ Len(ring) \in Nat /\ Len(ring) <= Preroll
  <2>1. CASE d.capturing
    BY <1>1, <2>1
  <2>2. CASE ~d.capturing
    <3>1. ring = Ring(frames)
      BY <1>2, <2>2
    <3>2. Ring(frames) \in Seq(BOOLEAN) /\ Len(Ring(frames)) \in 0..Preroll
      BY RingIs
    <3> HIDE DEF ring
    <3> QED
      BY <3>1, <3>2, Constants
  <2> QED
    BY <2>1, <2>2
<1>4. kept \in Seq(BOOLEAN) /\ Len(kept) <= Len(held) + Len(message)
      /\ (d.capturing => kept = held \o message) /\ (~d.capturing => kept = held)
  <2>1. CASE d.capturing
    BY <1>1, <2>1, ConcatProperties
  <2>2. CASE ~d.capturing
    BY <1>1, <2>2
  <2> QED
    BY <2>1, <2>2
<1>r. (d.capturing => ring = d.preroll) /\ (~d.capturing => ring = Ring(frames))
  BY <1>2
<1> HIDE DEF ring, kept
<1>5. /\ base \in DetectorFor(sil) /\ base.preroll = ring /\ base.speech = d.speech
      /\ base.capturing = d.capturing /\ base.inSpeech = d.inSpeech
  BY <1>3 DEF DetectorFor
<1> HIDE DEF base
<1>6. SeenOK(sil, base, message, Len(message), s)
  BY <1>5, SeenLast
<1>7. h = IF started
          THEN [vad |-> [s.vad EXCEPT !.capturing = TRUE, !.preroll = <<>>],
                buf |-> kept \o ring, events |-> s.events]
          ELSE [vad |-> s.vad, buf |-> kept, events |-> s.events]
  BY DEF HeardFor, base, ring, kept
<1> HIDE DEF s, h
<1>8. /\ s \in SeenType(sil) /\ Flags(base, s) /\ StillSpeaking(sil, base, Len(message), s)
      /\ s.vad \in DetectorFor(sil)
  BY <1>6 DEF SeenOK, SeenType
<1>9. s.vad.capturing = d.capturing /\ s.vad.preroll = ring
  BY <1>5, <1>8 DEF Flags
<1>10. h.events = s.events
  BY <1>7
<1>11. started => /\ h.buf = kept \o ring /\ h.vad \in DetectorFor(sil)
                  /\ h.vad.capturing /\ h.vad.preroll = <<>>
                  /\ h.vad.speech = s.vad.speech /\ h.vad.inSpeech = s.vad.inSpeech
  <2> SUFFICES ASSUME started
               PROVE  /\ h.buf = kept \o ring /\ h.vad \in DetectorFor(sil)
                      /\ h.vad.capturing /\ h.vad.preroll = <<>>
                      /\ h.vad.speech = s.vad.speech /\ h.vad.inSpeech = s.vad.inSpeech
    OBVIOUS
  <2>1. PICK v : v = [s.vad EXCEPT !.capturing = TRUE, !.preroll = <<>>]
    OBVIOUS
  <2>2. h.buf = kept \o ring /\ h.vad = v
    BY <1>7, <2>1
  <2>3. v \in DetectorFor(sil) /\ v.capturing /\ v.preroll = <<>>
        /\ v.speech = s.vad.speech /\ v.inSpeech = s.vad.inSpeech
    <3>1. <<>> \in Seq(BOOLEAN)
      OBVIOUS
    <3>2. v \in DetectorFor(sil)
      BY <1>8, <2>1, <3>1 DEF DetectorFor
    <3>3. v.capturing /\ v.preroll = <<>>
      BY <1>8, <2>1 DEF DetectorFor
    <3>4. v.speech = s.vad.speech /\ v.inSpeech = s.vad.inSpeech
      BY <1>8, <2>1 DEF DetectorFor
    <3> QED
      BY <3>2, <3>3, <3>4
  <2> QED
    BY <2>2, <2>3
<1>12. ~started => h.buf = kept /\ h.vad = s.vad
  BY <1>7
<1>13. /\ h.vad \in DetectorFor(sil) /\ Len(h.vad.preroll) <= Preroll
       /\ h.vad.inSpeech = s.vad.inSpeech /\ h.vad.speech = s.vad.speech
  <2>1. Len(<<>>) <= Preroll
    BY Constants
  <2> QED
    BY <1>3, <1>8, <1>9, <1>11, <1>12, <2>1
<1>14. h.vad.capturing <=> d.capturing \/ "SpeechStarted" \in h.events
  BY <1>1, <1>9, <1>10, <1>11, <1>12
<1>15. h.vad.inSpeech => h.vad.capturing
  BY <1>5, <1>8, <1>10, <1>13, <1>14 DEF Flags
<1>16. h.buf \in Seq(BOOLEAN) /\ Len(h.buf) <= Len(held) + Len(message) + Preroll
  <2>1. CASE started
    <3>1. kept = held /\ h.buf = kept \o ring
      BY <1>4, <1>11, <2>1
    <3>2. h.buf \in Seq(BOOLEAN) /\ Len(h.buf) = Len(held) + Len(ring)
      BY <1>3, <3>1, ConcatProperties
    <3> QED
      BY <1>1, <1>3, <3>2, Constants
  <2>2. CASE ~started
    BY <1>1, <1>4, <1>12, <2>2, Constants
  <2> QED
    BY <2>1, <2>2
<1>17. ~h.vad.capturing => h.buf = held
  BY <1>4, <1>12, <1>14, <1>10
<1>18. /\ "TurnEnded" \in h.events => d.inSpeech \/ "SpeechStarted" \in h.events
       /\ d.inSpeech => h.vad.inSpeech \/ "TurnEnded" \in h.events
  BY <1>5, <1>8, <1>10, <1>13 DEF Flags
<1>19. ~d.inSpeech /\ Len(message) <= sil =>
         /\ "TurnEnded" \notin h.events
         /\ "SpeechStarted" \in h.events => h.vad.inSpeech
  BY <1>5, <1>8, <1>10, <1>13 DEF Flags, StillSpeaking
<1>20. ASSUME Whole(d, held), MinSpeech + Len(message) <= Preroll + 1, message # <<>>
       PROVE  Whole(h.vad, h.buf)
  <2>1. CASE d.capturing
    <3>1. HoldsSpeech(held) /\ h.vad.capturing /\ h.buf = held \o message
      BY <1>4, <1>12, <1>14, <1>20, <2>1 DEF Whole
    <3> QED
      BY <3>1, HoldsMore DEF Whole
  <2>2. CASE ~d.capturing
    <3>1. VoiceAt(d.preroll, Len(d.preroll), base.speech) /\ ~base.inSpeech
      BY <1>5, <1>20, <2>2 DEF Whole
    <3>2. Confirmed(base, frames, Len(d.preroll), Len(message), s)
      BY <1>1, <1>2, <1>6, <3>1 DEF SeenOK
    <3>3. Len(frames) = Len(d.preroll) + Len(message)
      BY <1>1, <1>2, ConcatProperties
    <3>4. Len(message) >= 1
      BY <1>20, EmptySeq
    <3>5. ring = Ring(frames)
      BY <1>r, <2>2
    <3>6. CASE started
      <4>1. PICK k \in 1..Len(message) : VoiceAt(frames, Len(d.preroll) + k, MinSpeech)
        BY <3>1, <3>2, <3>6 DEF Confirmed
      <4>2. PICK n \in 0..Len(frames) : n = Len(d.preroll) + k
        BY <1>1, <3>3
      <4>3. MinSpeech + (Len(frames) - n) <= Preroll
        BY <1>1, <1>20, <3>3, <4>2, Constants
      <4>4. HoldsSpeech(ring)
        BY <3>5, <4>1, <4>2, <4>3, RingHolds
      <4>5. HoldsSpeech(kept \o ring)
        BY <1>3, <1>4, <4>4, HoldsMore
      <4> QED
        BY <1>11, <3>6, <4>5 DEF Whole
    <3>7. CASE ~started
      <4>1. VoiceAt(frames, Len(frames), s.vad.speech) /\ s.vad.speech \in 0..MinSpeech
        BY <1>8, <2>2, <3>1, <3>2, <3>3, <3>7 DEF Confirmed, DetectorFor
      <4>2. MinSpeech <= Preroll
        BY <1>1, <1>20, <3>4, Constants
      <4>3. VoiceAt(ring, Len(ring), s.vad.speech)
        BY <3>5, <4>1, <4>2, RingEnds
      <4> QED
        BY <1>9, <1>12, <2>2, <3>7, <4>3 DEF Whole
    <3> QED
      BY <3>6, <3>7
  <2> QED
    BY <2>1, <2>2
<1>21. Hears(sil, d, held, message, h)
  BY <1>13, <1>14, <1>15, <1>16, <1>17, <1>18, <1>19, <1>20 DEF Hears
<1> QED
  BY <1>21 DEF h

-----------------------------------------------------------------------------
(* The browser's interview: where its handler stands, the state machine    *)
(* stands too.                                                             *)
StateAt(at, s, what) ==
  /\ at = "starting" => s = "Initializing"
  /\ at \in {"speaking", "playing"} =>
       s \in {"AiSpeaking", "AiResponding"} /\ (what = "closing" => s = "AiResponding")
  /\ at = "listening" => s \in {"Listening", "CandidateSpeaking"}
  /\ at \in {"transcribing", "deciding"} => s = "Processing"

HandlerInv ==
  /\ pc \in {"starting", "speaking", "playing", "listening", "transcribing",
             "deciding", "ended"}
  /\ saying \in {"turn", "recovery", "closing"} /\ resume \in {"listen", "loop"}
  /\ state \in SessionState /\ goodbye \in Goodbyes /\ illegal = FALSE
  /\ StateAt(pc, state, saying)

AudioInv ==
  /\ vad \in DetectorFor(SilenceToEnd) /\ Len(vad.preroll) <= Preroll
  /\ buf \in Seq(BOOLEAN) /\ Len(buf) <= MaxUtterance + MaxMessage + Preroll
  /\ utterance \in Seq(BOOLEAN) /\ Len(utterance) <= MaxUtterance
  /\ pc # "ended" => Len(buf) <= MaxUtterance
  /\ vad.inSpeech => vad.capturing
  /\ buf # <<>> => vad.capturing
  /\ pc # "ended" /\ state # "CandidateSpeaking" => buf = <<>> /\ ~vad.capturing

SessionInv == HandlerInv /\ AudioInv

WholeInv ==
  /\ Whole(vad, buf)
  /\ pc = "transcribing" => HoldsSpeech(utterance)

(* The telephone's.                                                        *)
MediaInv ==
  /\ socket \in {"connected", "playing", "waiting", "ended"} \cup Media!Awaiting
  /\ last \in BOOLEAN
  /\ last => socket \in {"synthesizing", "playing", "ended"}
  /\ detector \in DetectorFor(MediaSilence) /\ Len(detector.preroll) <= Preroll
  /\ capture \in Seq(BOOLEAN) /\ Len(capture) <= MaxUtterance
  /\ audio \in Seq(BOOLEAN)
  /\ detector.inSpeech => detector.capturing
  /\ capture # <<>> => detector.capturing
  /\ socket \in Media!Awaiting \cup {"connected"} => detector = Quiet /\ capture = <<>>

MediaWholeInv ==
  /\ Whole(detector, capture)
  /\ socket = "transcribing" => HoldsSpeech(audio)

-----------------------------------------------------------------------------
(* The state machine: every event the handler applies is legal where it    *)
(* stands.                                                                 *)
LEMMA Transitions ==
  /\ Transition("Initializing", "StartSpeaking") = "AiSpeaking"
  /\ Transition("ErrorRecovery", "StartSpeaking") = "AiSpeaking"
  /\ Transition("FollowUpDecision", "StartSpeaking") = "AiResponding"
  /\ \A s \in {"AiSpeaking", "AiResponding"} :
       /\ Transition(s, "FinishedSpeaking") = "Listening"
       /\ Transition(s, "BargeIn") = "Interrupted"
  /\ Transition("Listening", "CandidateVoiceDetected") = "CandidateSpeaking"
  /\ Transition("Interrupted", "CandidateVoiceDetected") = "CandidateSpeaking"
  /\ Transition("CandidateSpeaking", "CandidateTurnEnded") = "Processing"
  /\ Transition("Processing", "TurnDecided") = "FollowUpDecision"
  /\ Transition("AiResponding", "InterviewComplete") = "Completed"
  /\ \A s \in {"AiSpeaking", "AiResponding", "Processing"} :
       Transition(s, "Fault") = "ErrorRecovery"
BY DEF Transition, Active

LEMMA ApplyNone ==
  ASSUME illegal = FALSE, Apply(<<>>)
  PROVE  state' = state /\ illegal' = FALSE
<1> DEFINE Fold(f) == f = [i \in 0..Len(<<>>) |->
                             IF i = 0 THEN state ELSE Applied(f[i - 1], <<>>[i])]
           after == CHOOSE f : Fold(f)
<1>1. Fold([i \in 0..0 |-> state])
  OBVIOUS
<1>2. Fold(after)
  <2> HIDE DEF Fold
  <2> QED
    BY <1>1
<1>3. /\ state' = after[Len(<<>>)]
      /\ illegal' = (illegal \/ \E i \in 1..Len(<<>>) :
                                  Transition(after[i - 1], <<>>[i]) = Illegal)
  BY DEF Apply
<1> HIDE DEF after
<1> QED
  BY <1>2, <1>3

LEMMA ApplyOne ==
  ASSUME NEW event, NEW to, to = Transition(state, event), to # Illegal,
         illegal = FALSE, Apply(<<event>>)
  PROVE  state' = to /\ illegal' = FALSE
<1> DEFINE Fold(f) == f = [i \in 0..Len(<<event>>) |->
                             IF i = 0 THEN state ELSE Applied(f[i - 1], <<event>>[i])]
           after == CHOOSE f : Fold(f)
           folded == [i \in 0..1 |-> IF i = 0 THEN state ELSE to]
<1>1. Fold(folded)
  BY DEF Applied
<1>2. Fold(after)
  <2> HIDE DEF Fold, folded
  <2> QED
    BY <1>1
<1>3. /\ state' = after[Len(<<event>>)]
      /\ illegal' = (illegal \/ \E i \in 1..Len(<<event>>) :
                                  Transition(after[i - 1], <<event>>[i]) = Illegal)
  BY DEF Apply
<1> HIDE DEF after
<1>4. after[0] = state /\ after[1] = to
  BY <1>2 DEF Applied
<1>5. ~ \E i \in 1..1 : Transition(after[i - 1], <<event>>[i]) = Illegal
  BY <1>4
<1> QED
  BY <1>3, <1>4, <1>5

LEMMA ApplyTwo ==
  ASSUME NEW first, NEW second, NEW via, NEW to,
         via = Transition(state, first), via # Illegal,
         to = Transition(via, second), to # Illegal,
         illegal = FALSE, Apply(<<first, second>>)
  PROVE  state' = to /\ illegal' = FALSE
<1> DEFINE events == <<first, second>>
           Fold(f) == f = [i \in 0..Len(events) |->
                             IF i = 0 THEN state ELSE Applied(f[i - 1], events[i])]
           after == CHOOSE f : Fold(f)
           folded == [i \in 0..2 |-> IF i = 0 THEN state ELSE IF i = 1 THEN via ELSE to]
<1>1. Fold(folded)
  BY DEF Applied
<1>2. Fold(after)
  <2> HIDE DEF Fold, folded
  <2> QED
    BY <1>1
<1>3. /\ state' = after[Len(events)]
      /\ illegal' = (illegal \/ \E i \in 1..Len(events) :
                                  Transition(after[i - 1], events[i]) = Illegal)
  BY DEF Apply
<1> HIDE DEF after
<1>4. after[0] = state /\ after[1] = via /\ after[2] = to
  BY <1>2 DEF Applied
<1>5. ~ \E i \in 1..2 : Transition(after[i - 1], events[i]) = Illegal
  BY <1>4
<1> QED
  BY <1>3, <1>4, <1>5

-----------------------------------------------------------------------------
(* Steps of the browser's interview.                                       *)
LEMMA MessageIs ==
  ASSUME NEW longest \in Nat, NEW message \in Messages(longest)
  PROVE  message \in Seq(BOOLEAN) /\ Len(message) <= longest /\ message # <<>>
<1>1. PICK n \in 0..longest : message \in [1..n -> BOOLEAN]
  BY DEF Messages, SeqOf
<1>2. message \in Seq(BOOLEAN)
  BY <1>1
<1>3. Len(message) = n
  BY <1>1, <1>2, LenProperties
<1> QED
  BY <1>1, <1>2, <1>3 DEF Messages

LEMMA SessionHears ==
  ASSUME SessionInv, NEW message \in Messages(MaxMessage)
  PROVE  /\ Hears(SilenceToEnd, vad, buf, message, Heard(vad, buf, message))
         /\ message \in Seq(BOOLEAN) /\ Len(message) <= MaxMessage /\ message # <<>>
BY MessageIs, HeardHears, BrowserHears, Constants DEF SessionInv, AudioInv

LEMMA AudioKept ==
  ASSUME AudioInv, UNCHANGED Audio,
         pc' = "ended" \/ (pc # "ended" /\ state # "CandidateSpeaking")
  PROVE  AudioInv'
BY DEF AudioInv, Audio

LEMMA Completes ==
  ASSUME SessionInv, Talking, saying = "closing", Complete
  PROVE  HandlerInv' /\ pc' = "ended"
<1>1. state = "AiResponding" /\ illegal = FALSE
  BY DEF SessionInv, HandlerInv, StateAt, Talking
<1>2. Transition(state, "InterviewComplete") = "Completed" /\ "Completed" # Illegal
  BY <1>1, Transitions DEF Illegal
<1>3. state' = "Completed" /\ illegal' = FALSE
  BY <1>1, <1>2, ApplyOne DEF Complete
<1> QED
  BY <1>3 DEF SessionInv, HandlerInv, StateAt, Complete, End, SessionState, Active, Goodbyes

LEMMA Recovers ==
  ASSUME SessionInv, pc \in {"speaking", "transcribing", "deciding"},
         NEW then \in {"listen", "loop"}, Recover(then)
  PROVE  HandlerInv'
<1>1. state \in {"AiSpeaking", "AiResponding", "Processing"} /\ illegal = FALSE
  BY DEF SessionInv, HandlerInv, StateAt
<1>2. /\ Transition(state, "Fault") = "ErrorRecovery" /\ "ErrorRecovery" # Illegal
      /\ Transition("ErrorRecovery", "StartSpeaking") = "AiSpeaking" /\ "AiSpeaking" # Illegal
  BY <1>1, Transitions DEF Illegal
<1>3. state' = "AiSpeaking" /\ illegal' = FALSE
  BY <1>1, <1>2, ApplyTwo DEF Recover
<1> QED
  BY <1>3 DEF SessionInv, HandlerInv, StateAt, Recover, Speak, SessionState, Active

LEMMA Ends ==
  ASSUME HandlerInv, Stay, NEW how \in Goodbyes, End(how)
  PROVE  HandlerInv' /\ pc' = "ended"
BY DEF HandlerInv, StateAt, Stay, End

LEMMA StartKeeps ==
  ASSUME SessionInv, NEW ok \in BOOLEAN, Start(ok)
  PROVE  SessionInv'
<1>1. pc = "starting" /\ state = "Initializing" /\ illegal = FALSE /\ UNCHANGED Audio
  BY DEF SessionInv, HandlerInv, StateAt, Start
<1>2. CASE ok
  <2>1. /\ Transition(state, "StartSpeaking") = "AiSpeaking" /\ "AiSpeaking" # Illegal
    BY <1>1, Transitions DEF Illegal
  <2>2. Apply(<<"StartSpeaking">>) /\ Speak("turn", "listen")
    BY <1>2 DEF Start
  <2>3. state' = "AiSpeaking" /\ illegal' = FALSE
    BY <1>1, <2>1, <2>2, ApplyOne
  <2>4. HandlerInv'
    BY <2>2, <2>3 DEF SessionInv, HandlerInv, StateAt, Speak, SessionState, Active
  <2> QED
    BY <1>1, <2>4, AudioKept DEF SessionInv
<1>3. CASE ~ok
  <2>1. Stay /\ End("error") /\ "error" \in Goodbyes
    BY <1>3 DEF Start, Goodbyes
  <2> QED
    BY <1>1, <2>1, Ends, AudioKept DEF SessionInv
<1> QED
  BY <1>2, <1>3

LEMMA LeaveKeeps ==
  ASSUME SessionInv, Leave
  PROVE  SessionInv'
<1>1. UNCHANGED Audio
  BY DEF Leave
<1>2. CASE Talking /\ saying = "closing"
  BY <1>1, <1>2, Completes, AudioKept DEF Leave, SessionInv
<1>3. CASE ~(Talking /\ saying = "closing")
  <2>1. Stay /\ End("closed") /\ "closed" \in Goodbyes
    BY <1>3 DEF Leave, Goodbyes
  <2> QED
    BY <1>1, <2>1, Ends, AudioKept DEF SessionInv
<1> QED
  BY <1>2, <1>3

LEMMA SynthesisFailsKeeps ==
  ASSUME SessionInv, SynthesisFails
  PROVE  SessionInv'
<1>1. /\ pc = "speaking" /\ UNCHANGED Audio /\ state # "CandidateSpeaking" /\ Talking
      /\ saying \in {"turn", "recovery", "closing"}
  BY DEF SynthesisFails, SessionInv, HandlerInv, StateAt, Talking
<1>2. CASE saying = "turn"
  <2>1. Recover("listen")
    BY <1>2 DEF SynthesisFails
  <2> QED
    BY <1>1, <2>1, Recovers, AudioKept DEF SessionInv
<1>3. CASE saying = "recovery"
  <2>1. Stay /\ End("error") /\ "error" \in Goodbyes
    BY <1>3 DEF SynthesisFails, Goodbyes
  <2> QED
    BY <1>1, <2>1, Ends, AudioKept DEF SessionInv
<1>4. CASE saying = "closing"
  <2>1. Complete
    BY <1>4 DEF SynthesisFails
  <2> QED
    BY <1>1, <1>4, <2>1, Completes, AudioKept DEF SessionInv
<1> QED
  BY <1>1, <1>2, <1>3, <1>4

LEMMA AllAudioSentKeeps ==
  ASSUME SessionInv, AllAudioSent
  PROVE  SessionInv'
<1>1. /\ pc = "speaking" /\ UNCHANGED Audio /\ state # "CandidateSpeaking"
  BY DEF AllAudioSent, SessionInv, HandlerInv, StateAt
<1>2. HandlerInv'
  BY DEF AllAudioSent, SessionInv, HandlerInv, StateAt, Goto, Stay
<1> QED
  BY <1>1, <1>2, AudioKept DEF SessionInv

LEMMA FinishSpeakingKeeps ==
  ASSUME SessionInv, FinishSpeaking
  PROVE  SessionInv'
<1>1. /\ pc = "playing" /\ UNCHANGED Audio /\ state # "CandidateSpeaking" /\ Talking
      /\ state \in {"AiSpeaking", "AiResponding"} /\ illegal = FALSE
  BY DEF FinishSpeaking, SessionInv, HandlerInv, StateAt, Talking
<1>2. CASE saying = "closing"
  <2>1. Complete
    BY <1>2 DEF FinishSpeaking
  <2> QED
    BY <1>1, <1>2, <2>1, Completes, AudioKept DEF SessionInv
<1>3. CASE saying # "closing"
  <2>1. Apply(<<"FinishedSpeaking">>) /\ (End("none") \/ Goto("listening"))
    BY <1>3 DEF FinishSpeaking
  <2>2. Transition(state, "FinishedSpeaking") = "Listening" /\ "Listening" # Illegal
    BY <1>1, Transitions DEF Illegal
  <2>3. state' = "Listening" /\ illegal' = FALSE
    BY <1>1, <2>1, <2>2, ApplyOne
  <2>4. HandlerInv'
    BY <2>1, <2>3 DEF SessionInv, HandlerInv, StateAt, End, Goto, SessionState, Active, Goodbyes
  <2> QED
    BY <1>1, <2>4, AudioKept DEF SessionInv
<1> QED
  BY <1>2, <1>3

LEMMA TranscribeKeeps ==
  ASSUME SessionInv, NEW ok \in BOOLEAN, Transcribe(ok)
  PROVE  SessionInv'
<1>1. /\ pc = "transcribing" /\ state = "Processing"
      /\ utterance' = <<>> /\ UNCHANGED <<vad, buf>>
  BY DEF Transcribe, SessionInv, HandlerInv, StateAt
<1>2. HandlerInv'
  <2>1. CASE ok
    BY <2>1 DEF Transcribe, SessionInv, HandlerInv, StateAt, Goto, Stay
  <2>2. CASE ~ok
    <3>1. Recover("loop")
      BY <2>2 DEF Transcribe
    <3> QED
      BY <1>1, <3>1, Recovers
  <2> QED
    BY <2>1, <2>2
<1>3. AudioInv'
  BY <1>1, Constants DEF SessionInv, AudioInv
<1> QED
  BY <1>2, <1>3 DEF SessionInv

LEMMA DecideKeeps ==
  ASSUME SessionInv, NEW answer \in {"failed", "complete", "continue"}, Decide(answer)
  PROVE  SessionInv'
<1>1. pc = "deciding" /\ state = "Processing" /\ illegal = FALSE /\ UNCHANGED Audio
  BY DEF Decide, SessionInv, HandlerInv, StateAt
<1>2. CASE answer = "failed"
  <2>1. Recover("loop")
    BY <1>2 DEF Decide
  <2> QED
    BY <1>1, <2>1, Recovers, AudioKept DEF SessionInv
<1>3. CASE answer # "failed"
  <2>1. /\ Apply(<<"TurnDecided", "StartSpeaking">>)
        /\ Speak("closing", "listen") \/ Speak("turn", "listen")
    BY <1>3 DEF Decide
  <2>2. /\ Transition(state, "TurnDecided") = "FollowUpDecision" /\ "FollowUpDecision" # Illegal
        /\ Transition("FollowUpDecision", "StartSpeaking") = "AiResponding"
        /\ "AiResponding" # Illegal
    BY <1>1, Transitions DEF Illegal
  <2>3. state' = "AiResponding" /\ illegal' = FALSE
    BY <1>1, <2>1, <2>2, ApplyTwo
  <2>4. HandlerInv'
    BY <2>1, <2>3 DEF SessionInv, HandlerInv, StateAt, Speak, SessionState, Active
  <2> QED
    BY <1>1, <2>4, AudioKept DEF SessionInv
<1> QED
  BY <1>2, <1>3

LEMMA AudioHeard ==
  ASSUME AudioInv, pc # "ended", NEW message \in Seq(BOOLEAN), Len(message) <= MaxMessage,
         NEW h, Hears(SilenceToEnd, vad, buf, message, h),
         vad' = h.vad, buf' = h.buf, utterance' = utterance,
         \/ pc' = "ended"
         \/ /\ Len(h.buf) <= MaxUtterance
            /\ state' = "CandidateSpeaking" \/ (~h.vad.capturing /\ buf = <<>>)
  PROVE  AudioInv'
<1>1. Len(buf) \in Nat /\ Len(message) \in Nat /\ Len(h.buf) \in Nat
  BY DEF AudioInv, Hears
<1>2. Len(h.buf) <= MaxUtterance + MaxMessage + Preroll
  BY <1>1, Constants DEF AudioInv, Hears
<1>3. h.buf # <<>> => h.vad.capturing
  BY DEF AudioInv, Hears
<1> QED
  BY <1>2, <1>3 DEF AudioInv, Hears

LEMMA HearWhileSpeakingKeeps ==
  ASSUME SessionInv, NEW message \in Messages(MaxMessage), HearWhileSpeaking(message)
  PROVE  SessionInv'
<1> DEFINE h == Heard(vad, buf, message)
<1>1. /\ Hears(SilenceToEnd, vad, buf, message, h)
      /\ message \in Seq(BOOLEAN) /\ Len(message) <= MaxMessage
  BY SessionHears
<1>2. /\ Talking /\ vad' = h.vad /\ buf' = h.buf /\ utterance' = utterance
      /\ CASE ~TooLong(h) /\ "SpeechStarted" \notin h.events ->
                Stay /\ UNCHANGED <<pc, saying, resume, goodbye>>
           [] saying = "closing" /\ (TooLong(h) \/ "SpeechStarted" \in h.events) ->
                Complete
           [] saying # "closing" /\ TooLong(h) -> Stay /\ End("error")
           [] OTHER ->
                /\ Apply(<<"BargeIn", "CandidateVoiceDetected">>)
                /\ IF saying = "recovery" /\ resume = "loop"
                   THEN End("none") ELSE Goto("listening")
  BY DEF HearWhileSpeaking
<1> HIDE DEF h
<1>3. /\ pc \in {"speaking", "playing"} /\ state \in {"AiSpeaking", "AiResponding"}
      /\ illegal = FALSE /\ buf = <<>> /\ ~vad.capturing
      /\ Len(h.buf) \in Nat
  BY <1>1, <1>2 DEF SessionInv, HandlerInv, AudioInv, StateAt, Talking, Hears
<1>4. CASE ~TooLong(h) /\ "SpeechStarted" \notin h.events
  <2>1. Stay /\ UNCHANGED <<pc, saying, resume, goodbye>>
    BY <1>2, <1>4
  <2>2. HandlerInv'
    BY <2>1 DEF SessionInv, HandlerInv, StateAt, Stay
  <2>3. ~h.vad.capturing /\ Len(h.buf) <= MaxUtterance
    BY <1>1, <1>3, <1>4, Constants DEF Hears, TooLong
  <2>4. AudioInv'
    BY <1>1, <1>2, <1>3, <2>3, AudioHeard DEF SessionInv
  <2> QED
    BY <2>2, <2>4 DEF SessionInv
<1>5. CASE saying = "closing" /\ (TooLong(h) \/ "SpeechStarted" \in h.events)
  <2>1. Complete
    BY <1>2, <1>5
  <2>2. HandlerInv' /\ pc' = "ended"
    BY <1>2, <1>5, <2>1, Completes
  <2>3. AudioInv'
    BY <1>1, <1>2, <1>3, <2>2, AudioHeard DEF SessionInv
  <2> QED
    BY <2>2, <2>3 DEF SessionInv
<1>6. CASE saying # "closing" /\ TooLong(h)
  <2>1. Stay /\ End("error") /\ "error" \in Goodbyes
    BY <1>2, <1>6 DEF Goodbyes
  <2>2. HandlerInv' /\ pc' = "ended"
    BY <2>1, Ends DEF SessionInv
  <2>3. AudioInv'
    BY <1>1, <1>2, <1>3, <2>2, AudioHeard DEF SessionInv
  <2> QED
    BY <2>2, <2>3 DEF SessionInv
<1>7. CASE saying # "closing" /\ ~TooLong(h) /\ "SpeechStarted" \in h.events
  <2>1. /\ Apply(<<"BargeIn", "CandidateVoiceDetected">>)
        /\ End("none") \/ Goto("listening")
    BY <1>2, <1>7
  <2>2. /\ Transition(state, "BargeIn") = "Interrupted" /\ "Interrupted" # Illegal
        /\ Transition("Interrupted", "CandidateVoiceDetected") = "CandidateSpeaking"
        /\ "CandidateSpeaking" # Illegal
    BY <1>3, Transitions DEF Illegal
  <2>3. state' = "CandidateSpeaking" /\ illegal' = FALSE
    BY <1>3, <2>1, <2>2, ApplyTwo
  <2>4. HandlerInv'
    BY <2>1, <2>3 DEF SessionInv, HandlerInv, StateAt, End, Goto, SessionState, Active, Goodbyes
  <2>5. Len(h.buf) <= MaxUtterance
    BY <1>3, <1>7, Constants DEF TooLong
  <2>6. AudioInv'
    BY <1>1, <1>2, <1>3, <2>3, <2>5, AudioHeard DEF SessionInv
  <2> QED
    BY <2>4, <2>6 DEF SessionInv
<1> QED
  BY <1>4, <1>5, <1>6, <1>7

LEMMA Joined ==
  ASSUME NEW x, NEW y
  PROVE  <<x>> \o <<y>> = <<x, y>>
<1>1. /\ <<x>> \in Seq({x, y}) /\ <<y>> \in Seq({x, y}) /\ <<x, y>> \in Seq({x, y})
  OBVIOUS
<1>2. PICK c : c = <<x>> \o <<y>>
  OBVIOUS
<1>3. PICK a, b : a = <<x>> /\ b = <<y>>
  OBVIOUS
<1>4. c \in Seq({x, y}) /\ Len(c) = Len(a) + Len(b)
      /\ \A i \in 1..Len(a) + Len(b) : c[i] = IF i <= Len(a) THEN a[i] ELSE b[i - Len(a)]
  BY <1>1, <1>2, <1>3, ConcatProperties
<1>5. Len(a) = 1 /\ Len(b) = 1 /\ a[1] = x /\ b[1] = y
  BY <1>3
<1>6. Len(c) = 2 /\ c[1] = x /\ c[2] = y
  <2>1. 1 \in 1..2 /\ 2 \in 1..2 /\ ~(2 <= 1) /\ 1 + 1 = 2
    OBVIOUS
  <2>2. c[1] = a[1] 
    BY <1>4, <1>5, <2>1
  <2>3. c[2] = b[1] 
    BY <1>4, <1>5, <2>1
  <2> QED
    BY <1>4, <1>5, <2>2, <2>3
<1>7. c = <<x, y>>
  <2>1. PICK d : d = <<x, y>>
    OBVIOUS
  <2>2. d \in Seq({x, y}) /\ Len(d) = 2 /\ d[1] = x /\ d[2] = y
    BY <2>1
  <2>3. \A i \in 1..Len(c) : c[i] = d[i]
    BY <1>6, <2>2
  <2>4. c = d
    BY <1>4, <1>6, <2>2, <2>3, SeqEqual
  <2> QED
    BY <2>1, <2>4
<1> QED
  BY <1>2, <1>7

(* What listen_for_turn applies: the start of the turn, if the state       *)
(* machine has not seen it, and its end.                                   *)
LEMMA ListenApplies ==
  ASSUME illegal = FALSE, state \in {"Listening", "CandidateSpeaking"},
         NEW started \in BOOLEAN, NEW ended \in BOOLEAN,
         started => state = "Listening",
         ended /\ ~started => state = "CandidateSpeaking",
         Apply((IF started THEN <<"CandidateVoiceDetected">> ELSE <<>>) \o
               (IF ended THEN <<"CandidateTurnEnded">> ELSE <<>>))
  PROVE  /\ illegal' = FALSE
         /\ state' = IF ended THEN "Processing"
                     ELSE IF started THEN "CandidateSpeaking" ELSE state
<1>0. /\ "CandidateSpeaking" # Illegal /\ "Processing" # Illegal
      /\ Transition("Listening", "CandidateVoiceDetected") = "CandidateSpeaking"
      /\ Transition("CandidateSpeaking", "CandidateTurnEnded") = "Processing"
  BY Transitions DEF Illegal
<1>1. CASE started /\ ended
  <2>1. <<"CandidateVoiceDetected">> \o <<"CandidateTurnEnded">>
          = <<"CandidateVoiceDetected", "CandidateTurnEnded">>
    BY Joined
  <2>2. Apply(<<"CandidateVoiceDetected", "CandidateTurnEnded">>)
    BY <1>1, <2>1
  <2> QED
    BY <1>0, <1>1, <2>2, ApplyTwo
<1>2. CASE started /\ ~ended
  <2>1. <<"CandidateVoiceDetected">> \o <<>> = <<"CandidateVoiceDetected">>
    OBVIOUS
  <2>2. Apply(<<"CandidateVoiceDetected">>)
    BY <1>2, <2>1
  <2> QED
    BY <1>0, <1>2, <2>2, ApplyOne
<1>3. CASE ~started /\ ended
  <2>1. <<>> \o <<"CandidateTurnEnded">> = <<"CandidateTurnEnded">>
    OBVIOUS
  <2>2. Apply(<<"CandidateTurnEnded">>)
    BY <1>3, <2>1
  <2>3. state = "CandidateSpeaking"
    BY <1>3
  <2> QED
    BY <1>0, <1>3, <2>2, <2>3, ApplyOne
<1>4. CASE ~started /\ ~ended
  <2>1. <<>> \o <<>> = <<>>
    OBVIOUS
  <2>2. Apply(<<>>)
    BY <1>4, <2>1
  <2> QED
    BY <1>4, <2>2, ApplyNone
<1> QED
  BY <1>1, <1>2, <1>3, <1>4

LEMMA ListenKeeps ==
  ASSUME SessionInv, NEW message \in Messages(MaxMessage), Listen(message)
  PROVE  SessionInv'
<1> DEFINE h == Heard(vad, buf, message)
           started == "SpeechStarted" \in h.events /\ state = "Listening"
           ended == "TurnEnded" \in h.events
<1>1. /\ Hears(SilenceToEnd, vad, buf, message, h)
      /\ message \in Seq(BOOLEAN) /\ Len(message) <= MaxMessage
  BY SessionHears
<1>2. /\ pc = "listening" /\ state \in {"Listening", "CandidateSpeaking"} /\ illegal = FALSE
      /\ HandlerInv /\ AudioInv
  BY DEF Listen, SessionInv, HandlerInv, StateAt
<1>3. CASE TooLong(h)
  <2>1. Stay /\ End("error") /\ "error" \in Goodbyes
        /\ vad' = h.vad /\ buf' = h.buf /\ utterance' = utterance
    BY <1>3 DEF Listen, Goodbyes
  <2> HIDE DEF h
  <2>2. HandlerInv' /\ pc' = "ended"
    BY <1>2, <2>1, Ends
  <2>3. AudioInv'
    BY <1>1, <1>2, <2>1, <2>2, AudioHeard
  <2> QED
    BY <2>2, <2>3 DEF SessionInv
<1>4. CASE ~TooLong(h)
  <2>1. /\ Apply((IF started THEN <<"CandidateVoiceDetected">> ELSE <<>>) \o
                 (IF ended THEN <<"CandidateTurnEnded">> ELSE <<>>))
        /\ Goto(IF ended THEN "transcribing" ELSE "listening")
        /\ vad' = IF ended THEN Quiet ELSE h.vad
        /\ buf' = IF ended THEN <<>> ELSE h.buf
        /\ utterance' = IF ended THEN h.buf ELSE utterance
    BY <1>4 DEF Listen, ResetTurn
  <2>2. ended /\ ~started => state = "CandidateSpeaking"
    <3> HIDE DEF h
    <3> QED
      BY <1>1, <1>2 DEF Hears, AudioInv
  <2>3. PICK s \in BOOLEAN, e \in BOOLEAN : (s <=> started) /\ (e <=> ended)
    <3>1. (\E s \in BOOLEAN : s <=> started) /\ (\E e \in BOOLEAN : e <=> ended)
      OBVIOUS
    <3> HIDE DEF started, ended
    <3> QED
      BY <3>1
  <2>4. /\ illegal' = FALSE
        /\ state' = IF ended THEN "Processing" ELSE IF started THEN "CandidateSpeaking" ELSE state
    <3>1. Apply((IF s THEN <<"CandidateVoiceDetected">> ELSE <<>>) \o
                (IF e THEN <<"CandidateTurnEnded">> ELSE <<>>))
      BY <2>1, <2>3
    <3>2. (s => state = "Listening") /\ (e /\ ~s => state = "CandidateSpeaking")
      BY <2>2, <2>3
    <3>3. /\ illegal' = FALSE
          /\ state' = IF e THEN "Processing" ELSE IF s THEN "CandidateSpeaking" ELSE state
      BY <1>2, <3>1, <3>2, ListenApplies
    <3> QED
      BY <2>3, <3>3
  <2>5. Len(h.buf) \in Nat /\ Len(h.buf) <= MaxUtterance
    <3> HIDE DEF h
    <3> QED
      BY <1>1, <1>4, Constants DEF Hears, TooLong
  <2>6. HandlerInv'
    <3>1. pc' \in {"transcribing", "listening"} /\ (pc' = "transcribing" <=> ended)
          /\ UNCHANGED <<saying, resume, goodbye>>
      BY <2>1 DEF Goto
    <3> HIDE DEF h
    <3> QED
      BY <1>2, <2>4, <3>1 DEF HandlerInv, StateAt, SessionState, Active
  <2>7. AudioInv'
    <3>1. CASE ended
      <4>1. /\ vad' = Quiet /\ buf' = <<>> /\ utterance' = h.buf
        BY <2>1, <3>1
      <4>2. Quiet \in DetectorFor(SilenceToEnd) /\ Len(Quiet.preroll) <= Preroll
            /\ ~Quiet.capturing /\ ~Quiet.inSpeech
        BY Constants DEF Quiet, DetectorFor
      <4> HIDE DEF h
      <4>3. h.buf \in Seq(BOOLEAN)
        BY <1>1 DEF Hears
      <4> QED
        BY <2>5, <4>1, <4>2, <4>3, Constants DEF AudioInv
    <3>2. CASE ~ended
      <4>1. vad' = h.vad /\ buf' = h.buf /\ utterance' = utterance
        BY <2>1, <3>2
      <4>2. state' = IF started THEN "CandidateSpeaking" ELSE state
        BY <2>4, <3>2
      <4> HIDE DEF h
      <4>3. state' = "CandidateSpeaking" \/ (~h.vad.capturing /\ buf = <<>>)
        BY <1>1, <1>2, <4>2 DEF Hears, AudioInv
      <4> QED
        BY <1>1, <1>2, <2>5, <4>1, <4>3, AudioHeard
    <3> QED
      BY <3>1, <3>2
  <2> QED
    BY <2>6, <2>7 DEF SessionInv
<1> QED
  BY <1>3, <1>4

LEMMA SessionInitially == Init => SessionInv
BY Constants DEF Init, SessionInv, HandlerInv, AudioInv, StateAt, SessionState, Active,
                 Goodbyes, Quiet, DetectorFor

LEMMA SessionSteps ==
  ASSUME SessionInv, [Next]_vars
  PROVE  SessionInv'
<1>1. ASSUME NEW message \in Messages(MaxMessage),
             HearWhileSpeaking(message) \/ Listen(message)
      PROVE  SessionInv'
  BY <1>1, HearWhileSpeakingKeeps, ListenKeeps
<1>2. CASE Leave
  BY <1>2, LeaveKeeps
<1>3. ASSUME NEW ok \in BOOLEAN, Start(ok) \/ Transcribe(ok)
      PROVE  SessionInv'
  BY <1>3, StartKeeps, TranscribeKeeps
<1>4. CASE SynthesisFails \/ AllAudioSent \/ FinishSpeaking
  BY <1>4, SynthesisFailsKeeps, AllAudioSentKeeps, FinishSpeakingKeeps
<1>5. ASSUME NEW answer \in {"failed", "complete", "continue"}, Decide(answer)
      PROVE  SessionInv'
  BY <1>5, DecideKeeps
<1>6. CASE UNCHANGED vars
  BY <1>6 DEF vars, SessionInv, HandlerInv, AudioInv
<1> QED
  BY <1>1, <1>2, <1>3, <1>4, <1>5, <1>6 DEF Next, Hear, Serve

LEMMA SessionInvariance == Spec => []SessionInv
BY SessionInitially, SessionSteps, PTL DEF Spec

(* Theorem: types are kept; no detector keeps more than the pre-roll, and  *)
(* no utterance is longer than the limit.                                  *)
THEOREM TypeCorrect == Spec => []TypeOK
<1>1. SessionInv => TypeOK
  BY DEF SessionInv, HandlerInv, AudioInv, TypeOK, DetectorOK, DetectorFor
<1> QED
  BY <1>1, SessionInvariance, PTL

(* Theorem: the handler applies no event that the state machine refuses,   *)
(* whatever the candidate says and whichever call fails.                   *)
THEOREM EventsAreLegal == Spec => []NoIllegalEvent
<1>1. SessionInv => NoIllegalEvent
  BY DEF SessionInv, HandlerInv, NoIllegalEvent
<1> QED
  BY <1>1, SessionInvariance, PTL

-----------------------------------------------------------------------------
(* What the browser's interview has transcribed.                           *)
LEMMA QuietIsWhole == Whole(Quiet, <<>>)
BY DEF Whole, Quiet, VoiceAt

LEMMA WholeInitially == Init => WholeInv
BY QuietIsWhole DEF Init, WholeInv

LEMMA WholeSteps ==
  ASSUME SessionInv, WholeInv, [Next]_vars
  PROVE  WholeInv'
<1>1. ASSUME NEW message \in Messages(MaxMessage)
      PROVE  Whole(Heard(vad, buf, message).vad, Heard(vad, buf, message).buf)
  <2>1. MinSpeech + Len(message) <= Preroll + 1 /\ message # <<>>
    <3>1. MinSpeech + MaxMessage <= Preroll + 1
      BY PrerollSuffices
    <3>2. Len(message) \in Nat /\ Len(message) <= MaxMessage /\ message # <<>>
      BY MessageIs, Constants
    <3> QED
      BY <3>1, <3>2, Constants
  <2> QED
    BY <2>1, SessionHears DEF Hears, WholeInv
<1>2. ASSUME NEW message \in Messages(MaxMessage), HearWhileSpeaking(message)
      PROVE  WholeInv'
  <2> DEFINE h == Heard(vad, buf, message)
  <2>1. vad' = h.vad /\ buf' = h.buf /\ Talking
    BY <1>2 DEF HearWhileSpeaking
  <2>2. pc' # "transcribing"
    BY <1>2 DEF HearWhileSpeaking, Talking, Complete, End, Goto
  <2>3. Whole(h.vad, h.buf)
    BY <1>1
  <2> HIDE DEF h
  <2> QED
    BY <2>1, <2>2, <2>3 DEF WholeInv, Whole
<1>3. ASSUME NEW message \in Messages(MaxMessage), Listen(message)
      PROVE  WholeInv'
  <2> DEFINE h == Heard(vad, buf, message)
             ended == ~TooLong(h) /\ "TurnEnded" \in h.events
  <2>1. Hears(SilenceToEnd, vad, buf, message, h) /\ Whole(h.vad, h.buf)
    BY <1>1, SessionHears
  <2>2. CASE ended
    <3>1. vad' = Quiet /\ buf' = <<>> /\ utterance' = h.buf
      BY <1>3, <2>2 DEF Listen, ResetTurn
    <3> HIDE DEF h
    <3>2. HoldsSpeech(h.buf)
      BY <2>1, <2>2 DEF Hears, Whole, SessionInv, AudioInv
    <3> QED
      BY <3>1, <3>2, QuietIsWhole DEF WholeInv, Whole
  <2>3. CASE ~ended
    <3>1. vad' = h.vad /\ buf' = h.buf /\ pc' # "transcribing"
      BY <1>3, <2>3 DEF Listen, End, Goto
    <3> HIDE DEF h
    <3> QED
      BY <2>1, <3>1 DEF WholeInv, Whole
  <2> QED
    BY <2>2, <2>3
<1>4. ASSUME UNCHANGED <<vad, buf>>, pc' # "transcribing"  PROVE WholeInv'
  BY <1>4 DEF WholeInv, Whole
<1>5. CASE Leave
  BY <1>4, <1>5 DEF Leave, Complete, End, Audio
<1>6. ASSUME NEW ok \in BOOLEAN, Start(ok) \/ Transcribe(ok)
      PROVE  WholeInv'
  BY <1>4, <1>6 DEF Start, Transcribe, Recover, Speak, End, Goto, Audio
<1>7. CASE SynthesisFails \/ AllAudioSent \/ FinishSpeaking
  <2>1. saying \in {"turn", "recovery", "closing"}
    BY DEF SessionInv, HandlerInv
  <2>2. CASE SynthesisFails
    BY <1>4, <2>1, <2>2 DEF SynthesisFails, Recover, Speak, Complete, End, Audio
  <2>3. CASE AllAudioSent
    BY <1>4, <2>3 DEF AllAudioSent, Goto, Audio
  <2>4. CASE FinishSpeaking
    BY <1>4, <2>4 DEF FinishSpeaking, Complete, End, Goto, Audio
  <2> QED
    BY <1>7, <2>2, <2>3, <2>4
<1>8. ASSUME NEW answer \in {"failed", "complete", "continue"}, Decide(answer)
      PROVE  WholeInv'
  BY <1>4, <1>8 DEF Decide, Recover, Speak, Audio
<1>9. CASE UNCHANGED vars
  BY <1>9 DEF vars, WholeInv, Whole
<1> QED
  BY <1>2, <1>3, <1>5, <1>6, <1>7, <1>8, <1>9 DEF Next, Hear, Serve

(* What is transcribed holds the confirmed speech, and no other turn's.    *)
LEMMA BrowserUtterances == Spec => [](SpeechIsWhole /\ CaptureBelongsToTurn)
<1>1. SessionInv /\ WholeInv => SpeechIsWhole /\ CaptureBelongsToTurn
  BY DEF SessionInv, AudioInv, HandlerInv, StateAt, WholeInv, SpeechIsWhole,
         CaptureBelongsToTurn
<1>2. Spec => [](SessionInv /\ WholeInv)
  BY SessionInitially, SessionSteps, WholeInitially, WholeSteps, PTL DEF Spec
<1> QED
  BY <1>1, <1>2, PTL

-----------------------------------------------------------------------------
(* The telephone's interview.                                              *)
LEMMA MediaHearing ==
  ASSUME MediaInv, NEW message \in Media!Messages(MediaMessage)
  PROVE  /\ Hears(MediaSilence, detector, capture, message,
                  Media!Heard(detector, capture, message))
         /\ message \in Seq(BOOLEAN) /\ Len(message) <= MediaMessage /\ message # <<>>
<1>1. message \in Messages(MediaMessage)
  BY DEF Messages, Media!Messages, SeqOf, Media!SeqOf
<1> QED
  BY <1>1, MessageIs, HeardHears, MediaHears, Constants DEF MediaInv

LEMMA QuietIsTyped ==
  /\ Media!Quiet = Quiet /\ Quiet \in DetectorFor(MediaSilence)
  /\ Len(Quiet.preroll) <= Preroll /\ ~Quiet.inSpeech /\ ~Quiet.capturing
BY Constants DEF Quiet, Media!Quiet, DetectorFor

LEMMA MediaInitially == Media!Init => MediaInv /\ MediaWholeInv
<1> SUFFICES ASSUME Media!Init  PROVE MediaInv /\ MediaWholeInv
  OBVIOUS
<1>1. /\ socket = "connected" /\ last = FALSE /\ detector = Quiet
      /\ capture = <<>> /\ audio = <<>>
  BY QuietIsTyped DEF Media!Init
<1>2. MediaInv
  <2>1. capture \in Seq(BOOLEAN) /\ Len(capture) <= MaxUtterance /\ audio \in Seq(BOOLEAN)
    BY <1>1, Constants
  <2>2. detector \in DetectorFor(MediaSilence) /\ Len(detector.preroll) <= Preroll
        /\ ~detector.inSpeech
    BY <1>1, QuietIsTyped
  <2> QED
    BY <1>1, <2>1, <2>2 DEF MediaInv
<1>3. MediaWholeInv
  BY <1>1, QuietIsWhole DEF MediaWholeInv
<1> QED
  BY <1>2, <1>3

(* What a message changes, if the turn does not end in it.                 *)
LEMMA MediaHeard ==
  ASSUME MediaInv, NEW message \in Media!Messages(MediaMessage),
         Media!Hearing(Media!Heard(detector, capture, message)), audio' = audio,
         socket \in {"playing", "waiting"}, socket' \in {"playing", "waiting", "ended"},
         last' = last, last => socket' \in {"playing", "ended"}
  PROVE  MediaInv'
<1> DEFINE h == Media!Heard(detector, capture, message)
<1>1. Hears(MediaSilence, detector, capture, message, h)
  BY MediaHearing
<1>2. detector' = h.vad /\ capture' = h.buf /\ Len(h.buf) <= MaxUtterance
  BY DEF Media!Hearing
<1> HIDE DEF h
<1> QED
  BY <1>1, <1>2 DEF Hears, MediaInv, Media!Awaiting

LEMMA MediaWhole ==
  ASSUME MediaInv, MediaWholeInv, NEW message \in Media!Messages(MediaMessage)
  PROVE  Whole(Media!Heard(detector, capture, message).vad,
               Media!Heard(detector, capture, message).buf)
<1>1. MinSpeech + Len(message) <= Preroll + 1
  <2>1. MinSpeech + MediaMessage <= Preroll + 1
    BY PrerollSuffices
  <2>2. Len(message) \in Nat /\ Len(message) <= MediaMessage
    BY MediaHearing
  <2> QED
    BY <2>1, <2>2, Constants
<1> QED
  BY <1>1, MediaHearing DEF Hears, MediaWholeInv

LEMMA HearWhilePlayingKeeps ==
  ASSUME MediaInv, NEW message \in Media!Messages(MediaMessage),
         Media!HearWhilePlaying(message)
  PROVE  MediaInv' /\ (MediaWholeInv => MediaWholeInv')
<1> DEFINE h == Media!Heard(detector, capture, message)
<1>1. Media!Hearing(h) /\ socket = "playing" /\ audio' = audio /\ last' = last
      /\ socket' = IF Media!DecodeMedia(h) = "SpeechStarted" THEN Media!AfterPlaying ELSE "playing"
  BY DEF Media!HearWhilePlaying, Media!Goto
<1>2. socket' \in {"playing", "waiting", "ended"} /\ (last => socket' \in {"playing", "ended"})
  <2> HIDE DEF h
  <2> QED
    BY <1>1 DEF Media!AfterPlaying
<1>3. MediaInv'
  BY <1>1, <1>2, MediaHeard
<1>4. ASSUME MediaWholeInv  PROVE MediaWholeInv'
  <2>1. Whole(h.vad, h.buf) /\ detector' = h.vad /\ capture' = h.buf
    BY <1>1, <1>4, MediaWhole DEF Media!Hearing
  <2> HIDE DEF h
  <2> QED
    BY <1>2, <2>1 DEF MediaWholeInv, Whole
<1> QED
  BY <1>3, <1>4

LEMMA MediaListenKeeps ==
  ASSUME MediaInv, NEW message \in Media!Messages(MediaMessage), Media!Listen(message)
  PROVE  MediaInv' /\ (MediaWholeInv => MediaWholeInv')
<1> DEFINE h == Media!Heard(detector, capture, message)
<1>1. socket = "waiting" /\ ~last /\ Hears(MediaSilence, detector, capture, message, h)
  BY MediaHearing DEF Media!Listen, MediaInv
<1>2. CASE "TurnEnded" \in h.events
  <2>1. /\ audio' = h.buf /\ capture' = <<>> /\ detector' = Quiet
        /\ socket' = "transcribing" /\ last' = last
    BY <1>2, QuietIsTyped DEF Media!Listen, Media!DecodeMedia, Media!ResetTurn, Media!Goto
  <2>2. h.buf \in Seq(BOOLEAN) /\ h.vad.capturing
    <3> HIDE DEF h
    <3> QED
      BY <1>1, <1>2 DEF Hears, MediaInv
  <2>3. MediaInv'
    <3> HIDE DEF h
    <3> QED
      BY <1>1, <2>1, <2>2, QuietIsTyped, Constants DEF MediaInv, Media!Awaiting
  <2>4. ASSUME MediaWholeInv  PROVE MediaWholeInv'
    <3>1. Whole(h.vad, h.buf)
      BY <2>4, MediaWhole
    <3> HIDE DEF h
    <3>2. HoldsSpeech(h.buf)
      BY <2>2, <3>1 DEF Whole
    <3> QED
      BY <2>1, <3>2, QuietIsWhole DEF MediaWholeInv, Whole
  <2> QED
    BY <2>3, <2>4
<1>3. CASE "TurnEnded" \notin h.events
  <2>1. Media!DecodeMedia(h) # "TurnEnded"
    <3> HIDE DEF h
    <3> QED
      BY <1>3 DEF Media!DecodeMedia
  <2>2. Media!Hearing(h) /\ UNCHANGED <<socket, last, audio>>
    BY <2>1 DEF Media!Listen
  <2>3. MediaInv'
    BY <1>1, <2>2, MediaHeard
  <2>4. ASSUME MediaWholeInv  PROVE MediaWholeInv'
    <3>1. Whole(h.vad, h.buf) /\ detector' = h.vad /\ capture' = h.buf
      BY <2>2, <2>4, MediaWhole DEF Media!Hearing
    <3> HIDE DEF h
    <3> QED
      BY <1>1, <2>2, <3>1 DEF MediaWholeInv, Whole
  <2> QED
    BY <2>3, <2>4
<1> QED
  BY <1>2, <1>3

(* Every other step leaves what was heard alone.                           *)
LEMMA MediaServesKeeps ==
  ASSUME MediaInv,
         Media!Start \/ Media!Stop \/ Media!Serve \/ UNCHANGED media
  PROVE  MediaInv' /\ (MediaWholeInv => MediaWholeInv')
<1>1. UNCHANGED <<detector, capture>>
  BY DEF Media!Start, Media!Stop, Media!Serve, Media!Started, Media!Synthesized,
         Media!Transcribed, Media!Played, Media!AskFails, Media!Answered, media
<1>2. ASSUME socket' \in {"connected", "playing", "waiting", "ended"} \cup Media!Awaiting,
             last' \in BOOLEAN, last' => socket' \in {"synthesizing", "playing", "ended"},
             audio' \in Seq(BOOLEAN), socket' = "transcribing" => UNCHANGED <<socket, audio>>,
             socket' \in Media!Awaiting \cup {"connected"}
               => socket \in Media!Awaiting \cup {"connected"}
      PROVE  MediaInv' /\ (MediaWholeInv => MediaWholeInv')
  <2>1. MediaInv'
    BY <1>1, <1>2 DEF MediaInv, Media!Awaiting
  <2>2. MediaWholeInv => MediaWholeInv'
    BY <1>1, <1>2 DEF MediaWholeInv, Whole
  <2> QED
    BY <2>1, <2>2
<1>3. CASE Media!Start
  BY <1>2, <1>3 DEF Media!Start, Media!Goto, MediaInv, Media!Awaiting
<1>4. CASE Media!Stop
  BY <1>2, <1>4 DEF Media!Stop, Media!End, Media!Goto, MediaInv, Media!Awaiting
<1>5. ASSUME NEW ok \in BOOLEAN, Media!Started(ok) \/ Media!Synthesized(ok)
      PROVE  MediaInv' /\ (MediaWholeInv => MediaWholeInv')
  BY <1>2, <1>5 DEF Media!Started, Media!Synthesized, Media!Goto, MediaInv, Media!Awaiting
<1>6. ASSUME NEW ok \in BOOLEAN, Media!Transcribed(ok)
      PROVE  MediaInv' /\ (MediaWholeInv => MediaWholeInv')
  BY <1>2, <1>6 DEF Media!Transcribed, Media!Goto, MediaInv, Media!Awaiting
<1>7. CASE Media!Played
  BY <1>2, <1>7 DEF Media!Played, Media!AfterPlaying, Media!Goto, MediaInv, Media!Awaiting
<1>8. CASE Media!AskFails
  BY <1>2, <1>8 DEF Media!AskFails, Media!End, Media!Goto, MediaInv, Media!Awaiting
<1>9. ASSUME NEW complete \in BOOLEAN, Media!Answered(complete)
      PROVE  MediaInv' /\ (MediaWholeInv => MediaWholeInv')
  BY <1>2, <1>9 DEF Media!Answered, MediaInv, Media!Awaiting
<1>10. CASE UNCHANGED media
  BY <1>2, <1>10 DEF media, MediaInv, Media!Awaiting
<1> QED
  BY <1>3, <1>4, <1>5, <1>6, <1>7, <1>8, <1>9, <1>10 DEF Media!Serve

LEMMA MediaSteps ==
  MediaInv /\ [Media!Next]_media => MediaInv' /\ (MediaWholeInv => MediaWholeInv')
BY HearWhilePlayingKeeps, MediaListenKeeps, MediaServesKeeps DEF Media!Next, Media!Hear

LEMMA MediaUtterances ==
  Media!Spec => [](Media!SpeechIsWhole /\ Media!CaptureBelongsToTurn)
<1>1. MediaInv /\ MediaWholeInv => Media!SpeechIsWhole /\ Media!CaptureBelongsToTurn
  BY QuietIsTyped DEF MediaInv, MediaWholeInv, Media!SpeechIsWhole,
     Media!CaptureBelongsToTurn, Media!HoldsSpeech, HoldsSpeech
<1>2. Media!Spec => [](MediaInv /\ MediaWholeInv)
  <2>1. [Media!Next]_(Media!vars) => [Media!Next]_media
    BY DEF Media!vars, media
  <2>2. MediaInv /\ MediaWholeInv /\ [Media!Next]_(Media!vars) => MediaInv' /\ MediaWholeInv'
    BY <2>1, MediaSteps
  <2> QED
    BY MediaInitially, <2>2, PTL DEF Media!Spec
<1> QED
  BY <1>1, <1>2, PTL

(* Outside a message, the confirmed speech is the captured speech.         *)
NoEndInv ==
  /\ socket # "ended" => detector.inSpeech = detector.capturing
  /\ socket = "playing" => ~detector.inSpeech

LEMMA EndHeard ==
  ASSUME MediaInv, NoEndInv, socket # "ended", NEW message \in Media!Messages(MediaMessage)
  PROVE  LET h == Media!Heard(detector, capture, message)
         IN  /\ "TurnEnded" \notin h.events => h.vad.inSpeech = h.vad.capturing
             /\ socket = "playing" /\ h.vad.inSpeech =>
                  "SpeechStarted" \in h.events /\ "TurnEnded" \notin h.events
<1> DEFINE h == Media!Heard(detector, capture, message)
<1>1. Hears(MediaSilence, detector, capture, message, h) /\ Len(message) <= MediaSilence
  BY MediaHearing, MediaMessagesAreShort, Constants
<1>2. detector.inSpeech \in BOOLEAN /\ detector.capturing \in BOOLEAN
      /\ h.vad.inSpeech \in BOOLEAN /\ h.vad.capturing \in BOOLEAN
  <2> HIDE DEF h
  <2> QED
    BY <1>1 DEF Hears, MediaInv, DetectorFor
<1> HIDE DEF h
<1>3. "TurnEnded" \notin h.events => (h.vad.inSpeech <=> h.vad.capturing)
  BY <1>1 DEF Hears, NoEndInv
<1>4. socket = "playing" /\ h.vad.inSpeech =>
        "SpeechStarted" \in h.events /\ "TurnEnded" \notin h.events
  BY <1>1 DEF Hears, NoEndInv
<1>5. h = Media!Heard(detector, capture, message)
  BY DEF h
<1> QED
  BY <1>2, <1>3, <1>4, <1>5

LEMMA NoEndInitially == Media!Init => NoEndInv
BY QuietIsTyped DEF Media!Init, NoEndInv, Quiet, Media!Quiet

LEMMA NoEndSteps == MediaInv /\ NoEndInv /\ [Media!Next]_media => NoEndInv'
<1> SUFFICES ASSUME MediaInv, NoEndInv, [Media!Next]_media  PROVE NoEndInv'
  OBVIOUS
<1>1. ASSUME NEW message \in Media!Messages(MediaMessage), Media!HearWhilePlaying(message)
      PROVE  NoEndInv'
  <2> DEFINE h == Media!Heard(detector, capture, message)
  <2>1. /\ socket = "playing" /\ detector' = h.vad
        /\ socket' = IF Media!DecodeMedia(h) = "SpeechStarted" THEN Media!AfterPlaying
                     ELSE "playing"
    BY <1>1 DEF Media!HearWhilePlaying, Media!Hearing, Media!Goto
  <2>2. /\ "TurnEnded" \notin h.events => h.vad.inSpeech = h.vad.capturing
        /\ h.vad.inSpeech => "SpeechStarted" \in h.events /\ "TurnEnded" \notin h.events
        /\ "TurnEnded" \notin h.events
    <3>1. Hears(MediaSilence, detector, capture, message, h) /\ Len(message) <= MediaSilence
      BY MediaHearing, MediaMessagesAreShort, Constants
    <3>2. "TurnEnded" \notin h.events
      <4> HIDE DEF h
      <4> QED
        BY <2>1, <3>1 DEF Hears, NoEndInv
    <3> QED
      BY <2>1, <3>2, EndHeard
  <2> HIDE DEF h
  <2>3. h.vad.inSpeech => Media!DecodeMedia(h) = "SpeechStarted"
    BY <2>2 DEF Media!DecodeMedia
  <2>4. Media!AfterPlaying \in {"ended", "waiting"}
    BY DEF Media!AfterPlaying
  <2> QED
    BY <2>1, <2>2, <2>3, <2>4 DEF NoEndInv
<1>2. ASSUME NEW message \in Media!Messages(MediaMessage), Media!Listen(message)
      PROVE  NoEndInv'
  <2> DEFINE h == Media!Heard(detector, capture, message)
  <2>1. CASE "TurnEnded" \in h.events
    <3>1. detector' = Quiet /\ socket' = "transcribing"
      BY <2>1, <1>2, QuietIsTyped DEF Media!Listen, Media!DecodeMedia, Media!ResetTurn,
         Media!Goto
    <3> QED
      BY <3>1 DEF NoEndInv, Quiet
  <2>2. CASE "TurnEnded" \notin h.events
    <3>1. h.vad.inSpeech = h.vad.capturing
      BY <1>2, <2>2, EndHeard DEF Media!Listen
    <3>2. Media!DecodeMedia(h) # "TurnEnded"
      <4> HIDE DEF h
      <4> QED
        BY <2>2 DEF Media!DecodeMedia
    <3>3. detector' = h.vad /\ socket' = "waiting"
      BY <1>2, <3>2 DEF Media!Listen, Media!Hearing
    <3> HIDE DEF h
    <3> QED
      BY <3>1, <3>3 DEF NoEndInv
  <2> QED
    BY <2>1, <2>2
<1>3. CASE Media!Start \/ Media!Stop \/ Media!Serve \/ UNCHANGED media
  <2>1. UNCHANGED detector
    BY <1>3 DEF Media!Start, Media!Stop, Media!Serve, Media!Started, Media!Synthesized,
       Media!Transcribed, Media!Played, Media!AskFails, Media!Answered, media
  <2>2. socket' # "ended" => socket # "ended"
    BY <1>3 DEF Media!Start, Media!Stop, Media!Serve, Media!Started, Media!Synthesized,
       Media!Transcribed, Media!Played, Media!AskFails, Media!Answered, media,
       Media!Goto, Media!End
  <2>3. socket' = "playing" => socket \in {"playing", "synthesizing"}
    BY <1>3 DEF Media!Start, Media!Stop, Media!Serve, Media!Started, Media!Synthesized,
       Media!Transcribed, Media!Played, Media!AskFails, Media!Answered, media,
       Media!Goto, Media!End, Media!AfterPlaying
  <2>4. socket = "synthesizing" => ~detector.inSpeech
    BY DEF MediaInv, Media!Awaiting, Quiet
  <2> QED
    BY <2>1, <2>2, <2>3, <2>4 DEF NoEndInv
<1> QED
  BY <1>1, <1>2, <1>3 DEF Media!Next, Media!Hear

LEMMA MediaInvariance == Media!Spec => [](MediaInv /\ NoEndInv)
<1>1. [Media!Next]_(Media!vars) => [Media!Next]_media
  BY DEF Media!vars, media
<1>2. MediaInv /\ NoEndInv /\ [Media!Next]_(Media!vars) => MediaInv' /\ NoEndInv'
  BY <1>1, MediaSteps, NoEndSteps
<1> QED
  BY MediaInitially, NoEndInitially, <1>2, PTL DEF Media!Spec

-----------------------------------------------------------------------------
(* Side by side, each interview takes its own steps and no others.         *)
LEMMA EachInterview == ScenesSpec => Spec /\ Media!Spec
<1>1. ScenesInit => Init /\ Media!Init
  BY DEF ScenesInit
<1>2. [ScenesNext]_sceneVars => [Next]_vars /\ [Media!Next]_(Media!vars)
  BY DEF ScenesNext, InBrowser, InMedia, sceneVars, vars, media, Media!vars
<1> QED
  BY <1>1, <1>2, PTL DEF ScenesSpec, Spec, Media!Spec

(* The telephone's interview (media_socket) keeps its types; in particular *)
(* the answer that completes the interview is played, and no turn follows. *)
THEOREM MediaTypeCorrect == ScenesSpec => []Media!TypeOK
<1>1. MediaInv => Media!TypeOK
  BY DEF MediaInv, Media!TypeOK, Media!DetectorOK, DetectorFor
<1> QED
  BY <1>1, EachInterview, MediaInvariance, PTL

(* What is transcribed, of the browser's candidate and of the telephone's, *)
(* is one turn, whole: it holds the run of voice by which speech was       *)
(* confirmed, and nothing of another turn, since outside the browser's     *)
(* turn, and while media_socket awaits the AI service, nothing is captured.*)
(* It needs a pre-roll that holds that run and the message that completes  *)
(* it, but for one frame (PrerollSuffices).                                *)
THEOREM UtterancesAreWhole == ScenesSpec => []UtterancesAreTurns
<1>1. (SpeechIsWhole /\ CaptureBelongsToTurn)
      /\ (Media!SpeechIsWhole /\ Media!CaptureBelongsToTurn) => UtterancesAreTurns
  BY DEF UtterancesAreTurns
<1> QED
  BY <1>1, EachInterview, BrowserUtterances, MediaUtterances, PTL

(* The telephone's handler never takes the end of a turn for anything      *)
(* else: confirmed speech is captured until its end is acted on, and       *)
(* playback stops when the candidate speaks.  It needs messages no longer  *)
(* than the silence that ends a turn (MediaMessagesAreShort).              *)
THEOREM TurnEndsAreHeard == ScenesSpec => []NoTurnEndLost
<1>1. NoEndInv => NoTurnEndLost
  BY DEF NoEndInv, NoTurnEndLost, Media!NoTurnEndLost
<1> QED
  BY <1>1, EachInterview, MediaInvariance, PTL
=============================================================================
