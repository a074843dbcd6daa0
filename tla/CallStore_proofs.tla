-------------------------- MODULE CallStore_proofs --------------------------
(***************************************************************************)
(* Theorems about the call store, for every set of calls, provider calls,  *)
(* keys and events: what path_to's plans are (chains of legal transitions  *)
(* from the call's state to the reported one, none of which starts in a    *)
(* terminal state), what the steps of a plan do to a row and to its log,   *)
(* then the inductive invariants of the store.                             *)
(***************************************************************************)
EXTENDS CallStore, TLAPS

-----------------------------------------------------------------------------
(* Plans.                                                                  *)

(* A chain of hops, each starting where the one before ended. *)
Chain(w, n) ==
  /\ Len(w) <= n
  /\ w \in Seq(Hops) /\ w # <<>>
  /\ \A i \in 2..Len(w) : w[i].from = w[i - 1].to

LEMMA HopsType ==
  /\ Hops \subseteq [from : CallState, event : CallTransition, to : CallState]
  /\ \A h \in Hops : h.from \notin Terminal
<1>1. Hops \subseteq [from : CallState, event : CallTransition, to : CallState]
  BY DEF Hops
<1>2. ASSUME NEW h \in Hops PROVE h.from \notin Terminal
  <2>1. h.event \in DOMAIN Transition(h.from)
    BY DEF Hops
  <2>2. ASSUME h.from \in Terminal PROVE Transition(h.from) = <<>>
    BY <2>2 DEF Terminal, Transition
  <2>3. DOMAIN <<>> = {}
    OBVIOUS
  <2>. QED  BY <2>1, <2>2, <2>3
<1>. QED  BY <1>1, <1>2

LEMMA LongerChains ==
  ASSUME NEW n \in Nat, NEW ws, \A w \in ws : Chain(w, n)
  PROVE  \A w \in Longer(ws) : Chain(w, n + 1)
<1>. SUFFICES ASSUME NEW x \in Longer(ws) PROVE Chain(x, n + 1)
  OBVIOUS
<1>. PICK w \in ws, h \in Hops : h.from = LastHop(w).to /\ x = Append(w, h)
  BY DEF Longer
<1>1. w \in Seq(Hops) /\ w # <<>> /\ Len(w) \in Nat \ {0} /\ Len(w) <= n
  BY DEF Chain
<1>2. /\ Append(w, h) \in Seq(Hops)
      /\ Len(Append(w, h)) = Len(w) + 1
      /\ Append(w, h) # <<>>
      /\ Append(w, h)[Len(w) + 1] = h
      /\ \A i \in 1..Len(w) : Append(w, h)[i] = w[i]
  BY <1>1
<1>3. ASSUME NEW i \in 2..Len(w) + 1
      PROVE  Append(w, h)[i].from = Append(w, h)[i - 1].to
  <2>1. CASE i = Len(w) + 1
    BY <1>1, <1>2, <2>1 DEF LastHop
  <2>2. CASE i # Len(w) + 1
    BY <1>1, <1>2, <2>2 DEF Chain
  <2>. QED  BY <2>1, <2>2
<1>. QED  BY <1>2, <1>3 DEF Chain

LEMMA AllWalksChains == \A w \in AllWalks : Chain(w, LongestPlan)
<1>. DEFINE two == Longer(Single)  three == Longer(two)
            four == Longer(three)  five == Longer(four)
<1>1. \A w \in Single : Chain(w, 1)
  <2>. SUFFICES ASSUME NEW h \in Hops PROVE Chain(<<h>>, 1)
    BY DEF Single
  <2>. <<h>> \in Seq(Hops) /\ Len(<<h>>) = 1 /\ <<h>> # <<>>
    OBVIOUS
  <2>. QED  BY DEF Chain
<1>2. \A w \in two : Chain(w, 2)
  BY <1>1, LongerChains
<1>. HIDE DEF two
<1>3. \A w \in three : Chain(w, 3)
  BY <1>2, LongerChains
<1>. HIDE DEF three
<1>4. \A w \in four : Chain(w, 4)
  BY <1>3, LongerChains
<1>. HIDE DEF four
<1>5. \A w \in five : Chain(w, 5)
  BY <1>4, LongerChains
<1>. HIDE DEF five
<1>6. AllWalks = Single \cup two \cup three \cup four \cup five
  BY DEF AllWalks, two, three, four, five
<1>7. ASSUME NEW w, NEW n \in 1..5, Chain(w, n) PROVE Chain(w, 5)
  <2>. Len(w) \in Nat
    BY <1>7 DEF Chain
  <2>. QED  BY <1>7 DEF Chain
<1>. QED  BY <1>1, <1>2, <1>3, <1>4, <1>5, <1>6, <1>7 DEF LongestPlan

LEMMA SmallSetHasMinimum ==
  ASSUME NEW L, L # {}, L \subseteq 0..5
  PROVE  \E n \in L : \A m \in L : n <= m
<1>. \A m \in L : m = 0 \/ m = 1 \/ m = 2 \/ m = 3 \/ m = 4 \/ m = 5
  OBVIOUS
<1>0. CASE 0 \in L  BY <1>0
<1>1. CASE 0 \notin L /\ 1 \in L  BY <1>1
<1>2. CASE 0 \notin L /\ 1 \notin L /\ 2 \in L  BY <1>2
<1>3. CASE 0 \notin L /\ 1 \notin L /\ 2 \notin L /\ 3 \in L  BY <1>3
<1>4. CASE 4 \in L /\ \A m \in L : m = 4 \/ m = 5  BY <1>4
<1>5. CASE \A m \in L : m = 5
  <2>. PICK n \in L : n = 5  BY <1>5
  <2>. QED  BY <1>5
<1>. QED  BY <1>0, <1>1, <1>2, <1>3, <1>4, <1>5

(* There is a shortest of some chains, none of which is long.              *)
LEMMA ShortestIsRoute ==
  ASSUME NEW rs, rs # {}, \A r \in rs : r # <<>> /\ Len(r) \in Nat /\ Len(r) <= LongestPlan
  PROVE  Shortest(rs) \in rs /\ Shortest(rs) # <<>>
<1> DEFINE L == {Len(r) : r \in rs}
<1>1. \A n \in Nat : n <= 5 => n \in 0..5
  OBVIOUS
<1>2. L # {} /\ L \subseteq 0..5
  BY <1>1 DEF LongestPlan
<1>3. \E n \in L : \A m \in L : n <= m
  <2> HIDE DEF L
  <2> QED
    BY <1>2, SmallSetHasMinimum
<1>4. \E r \in rs : \A q \in rs : Len(r) <= Len(q)
  BY <1>3
<1> QED
  BY <1>4 DEF Shortest

(* A plan is empty or a chain of hops from the first state to the second.  *)
LEMMA PlanIsChain ==
  ASSUME NEW s \in CallState, NEW t \in CallState, PathTo(s, t) # <<>>
  PROVE  /\ Chain(PathTo(s, t), LongestPlan)
         /\ PathTo(s, t)[1].from = s
         /\ LastHop(PathTo(s, t)).to = t
<1>1. PathTo(s, t) = Shortest(Routes(s, t))
  BY DEF PathTo, Plans
<1>2. Routes(s, t) # {}
  BY <1>1 DEF Shortest
<1>3. \A r \in Routes(s, t) :
        Chain(r, LongestPlan) /\ r[1].from = s /\ LastHop(r).to = t
  BY AllWalksChains DEF Routes
<1>4. \A r \in Routes(s, t) : r # <<>> /\ Len(r) \in Nat /\ Len(r) <= LongestPlan
  BY <1>3 DEF Chain
<1>. QED  BY <1>1, <1>2, <1>3, <1>4, ShortestIsRoute

(* The table, state by state: where the transitions out of a state lead.   *)
Onward(s) ==
  CASE s = "Requested"  -> {"Validating", "Cancelled", "Failed"}
    [] s = "Validating" -> {"Initiating", "Cancelled", "Failed"}
    [] s = "Initiating" -> {"Ringing", "Connected", "Cancelled", "Declined", "Busy",
                            "NoAnswer", "TimedOut", "Failed"}
    [] s = "Ringing"    -> {"Connected", "Cancelled", "Declined", "Busy", "NoAnswer",
                            "TimedOut", "Failed"}
    [] s = "Connecting" -> {"Connected", "Cancelled", "TimedOut", "Failed"}
    [] s = "Connected"  -> {"Active", "Completing", "Cancelled", "Disconnected",
                            "TimedOut", "Failed"}
    [] s = "Active"     -> {"Completing", "Cancelled", "Disconnected", "TimedOut", "Failed"}
    [] s = "Completing" -> {"Completed", "Disconnected", "TimedOut", "Failed"}
    [] OTHER            -> {}

LEMMA OnwardHops ==
  \A s \in CallState : {h.to : h \in {x \in Hops : x.from = s}} = Onward(s)
<1>1. CallTransition = {"Validated", "Initiate", "Ringing", "Connect", "Activate",
                 "BeginCompletion", "Complete", "Cancel", "Decline", "Busy",
                 "NoAnswer", "Fail", "Disconnect", "Timeout"}
  BY DEF CallTransition, TRANSITIONS
<1>2. ASSUME NEW s \in CallState
      PROVE  /\ DOMAIN Transition(s) \subseteq CallTransition
             /\ {Transition(s)[e] : e \in DOMAIN Transition(s)} = Onward(s)
  <2>1. CASE s = "Requested"
    BY <1>1, <2>1 DEF Transition, Onward
  <2>2. CASE s = "Validating"
    BY <1>1, <2>2 DEF Transition, Onward
  <2>3. CASE s = "Initiating"
    BY <1>1, <2>3 DEF Transition, Onward
  <2>4. CASE s = "Ringing"
    BY <1>1, <2>4 DEF Transition, Onward
  <2>5. CASE s = "Connecting"
    BY <1>1, <2>5 DEF Transition, Onward
  <2>6. CASE s = "Connected"
    BY <1>1, <2>6 DEF Transition, Onward
  <2>7. CASE s = "Active"
    BY <1>1, <2>7 DEF Transition, Onward
  <2>8. CASE s = "Completing"
    BY <1>1, <2>8 DEF Transition, Onward
  <2>9. CASE s \in Terminal
    <3>1. Transition(s) = <<>> /\ Onward(s) = {}
      BY <2>9 DEF Terminal, Transition, Onward
    <3>2. DOMAIN <<>> = {}
      OBVIOUS
    <3> QED
      BY <3>1, <3>2
  <2> QED
    BY <2>1, <2>2, <2>3, <2>4, <2>5, <2>6, <2>7, <2>8, <2>9 DEF CallState
<1>3. \A s \in CallState : Onward(s) \subseteq CallState
  BY DEF Onward, CallState, Terminal
<1> TAKE s \in CallState
<1>4. ASSUME NEW h \in Hops, h.from = s  PROVE  h.to \in Onward(s)
  BY <1>2, <1>4 DEF Hops
<1>5. ASSUME NEW t \in Onward(s)  PROVE  \E h \in Hops : h.from = s /\ h.to = t
  <2>1. PICK e \in DOMAIN Transition(s) : Transition(s)[e] = t
    BY <1>2
  <2>2. [from |-> s, event |-> e, to |-> t] \in Hops
    BY <1>2, <1>3, <2>1 DEF Hops
  <2> QED
    BY <2>2
<1> QED
  BY <1>4, <1>5

(* All the states after one, itself included. *)
EndsTalk == {"Completing", "Completed", "Cancelled", "Disconnected", "TimedOut", "Failed"}
Reach(s) ==
  CASE s = "Completing" -> EndsTalk \ {"Cancelled"}
    [] s = "Active"     -> {"Active"} \cup EndsTalk
    [] s = "Connected"  -> {"Connected", "Active"} \cup EndsTalk
    [] s = "Connecting" -> {"Connecting", "Connected", "Active"} \cup EndsTalk
    [] s = "Ringing"    -> CallState \ {"Requested", "Validating", "Initiating", "Connecting"}
    [] s = "Initiating" -> CallState \ {"Requested", "Validating", "Connecting"}
    [] s = "Validating" -> CallState \ {"Requested", "Connecting"}
    [] s = "Requested"  -> CallState \ {"Connecting"}
    [] OTHER            -> {s}

LEMMA ReachIs ==
  ASSUME NEW s \in CallState
  PROVE  /\ s \in Reach(s) /\ Reach(s) \subseteq CallState
         /\ \A t \in Reach(s) : Reach(t) \subseteq Reach(s)
BY DEF Reach, EndsTalk, CallState, Terminal

LEMMA HopReaches ==
  \A h \in Hops : h.from \in CallState /\ h.to \in CallState /\ h.to \in Reach(h.from)
<1>1. ASSUME NEW s \in CallState  PROVE  Onward(s) \subseteq Reach(s)
  BY DEF Onward, Reach, EndsTalk, CallState, Terminal
<1> QED
  BY <1>1, OnwardHops, HopsType

Leads(ws, s, t) == \E w \in ws : w[1].from = s /\ LastHop(w).to = t

LEMMA LeadsOn ==
  ASSUME NEW n \in Nat, NEW ws, \A w \in ws : Chain(w, n),
         NEW s, NEW t \in CallState, Leads(ws, s, t), NEW u \in Onward(t)
  PROVE  Leads(Longer(ws), s, u)
<1>1. PICK w \in ws : w[1].from = s /\ LastHop(w).to = t
  BY DEF Leads
<1>2. PICK h \in Hops : h.from = t /\ h.to = u
  BY OnwardHops
<1>3. Append(w, h) \in Longer(ws)
  BY <1>1, <1>2 DEF Longer
<1>4. w \in Seq(Hops) /\ w # <<>>
  BY DEF Chain
<1>5. Append(w, h)[1] = w[1] /\ LastHop(Append(w, h)) = h
  BY <1>4 DEF LastHop
<1> QED
  BY <1>1, <1>2, <1>3, <1>5 DEF Leads

LEMMA LeadsOff ==
  ASSUME NEW s \in CallState, NEW t \in Onward(s)  PROVE  Leads(Single, s, t)
<1>1. PICK h \in Hops : h.from = s /\ h.to = t
  BY OnwardHops
<1>2. <<h>> \in Single /\ <<h>>[1] = h /\ Len(<<h>>) = 1
  BY DEF Single
<1> QED
  BY <1>1, <1>2 DEF Leads, LastHop

(* No plan is missing: path_to finds a way to every state that is still    *)
(* ahead, since none is more than LongestPlan transitions away.            *)
LEMMA ReachHasRoute ==
  ASSUME NEW s \in CallState, NEW t \in Reach(s), t # s
  PROVE  Routes(s, t) # {}
<1> DEFINE two == Longer(Single)  three == Longer(two)
           four == Longer(three)  five == Longer(four)
<1>1. \A w \in Single : Chain(w, 1)
  <2> SUFFICES ASSUME NEW h \in Hops PROVE Chain(<<h>>, 1)
    BY DEF Single
  <2> <<h>> \in Seq(Hops) /\ Len(<<h>>) = 1 /\ <<h>> # <<>>
    OBVIOUS
  <2> QED
    BY DEF Chain
<1>2. \A w \in two : Chain(w, 2)
  BY <1>1, LongerChains
<1>3. \A w \in three : Chain(w, 3)
  <2> HIDE DEF two
  <2> QED
    BY <1>2, LongerChains
<1>4. \A w \in four : Chain(w, 4)
  <2> HIDE DEF three
  <2> QED
    BY <1>3, LongerChains
<1>5. \A x \in CallState : \A y \in Onward(x) : Leads(Single, x, y)
  BY LeadsOff
<1> HIDE DEF two, three, four, five
<1>6. \A x, y \in CallState : Leads(Single, x, y) => \A z \in Onward(y) : Leads(two, x, z)
  BY <1>1, LeadsOn DEF two
<1>7. \A x, y \in CallState : Leads(two, x, y) => \A z \in Onward(y) : Leads(three, x, z)
  BY <1>2, LeadsOn DEF three
<1>8. \A x, y \in CallState : Leads(three, x, y) => \A z \in Onward(y) : Leads(four, x, z)
  BY <1>3, LeadsOn DEF four
<1>9. \A x, y \in CallState : Leads(four, x, y) => \A z \in Onward(y) : Leads(five, x, z)
  BY <1>4, LeadsOn DEF five
<1>10. SUFFICES Leads(Single, s, t) \/ Leads(two, s, t) \/ Leads(three, s, t)
                \/ Leads(four, s, t) \/ Leads(five, s, t)
  BY DEF Routes, Leads, AllWalks, two, three, four, five
<1> HIDE DEF Leads
<1>11. CASE s \in {"Connected", "Active", "Completing", "Connecting"}
  BY <1>5, <1>6, <1>7, <1>8, <1>11 DEF Reach, EndsTalk, Onward, CallState, Terminal
<1>12. CASE s \in {"Ringing", "Initiating"}
  BY <1>5, <1>6, <1>7, <1>8, <1>12 DEF Reach, Onward, CallState, Terminal
<1>13. CASE s = "Validating"
  BY <1>5, <1>6, <1>7, <1>8, <1>13 DEF Reach, Onward, CallState, Terminal
<1>14. CASE s = "Requested"
  BY <1>5, <1>6, <1>7, <1>8, <1>9, <1>14 DEF Reach, Onward, CallState, Terminal
<1> QED
  BY <1>11, <1>12, <1>13, <1>14 DEF Reach, CallState

-----------------------------------------------------------------------------
(* What the first k steps of a plan do to a row and to its log.            *)

LEMMA StepFacts ==
  ASSUME NEW row \in Row, NEW plan, NEW base \in Nat, NEW k \in Nat \ {0},
         TakesExactly(row, plan, base, k)
  PROVE  /\ row.state \notin Terminal
         /\ base > row.last
         /\ plan[1].from = row.state
         /\ \A i \in 1..k : plan[i] \in Hops
         /\ \A i \in 2..k : plan[i].from = plan[i - 1].to
<1>1. \A i \in 1..k : Takes(row, plan, base, i)
  BY DEF TakesExactly
<1>2. Takes(row, plan, base, 1)
  BY <1>1
<1>3. row.last \in Nat
  BY DEF Row
<1>4. row.state \notin Terminal /\ base > row.last /\ plan[1].from = row.state
  BY <1>2, <1>3 DEF Takes, StepSequence
<1>5. \A i \in 1..k : plan[i] \in Hops
  BY <1>1 DEF Takes
<1>6. ASSUME NEW i \in 2..k PROVE plan[i].from = plan[i - 1].to
  BY <1>1 DEF Takes
<1>. QED  BY <1>4, <1>5, <1>6

LEMMA StepTypes ==
  ASSUME NEW row \in Row, NEW plan, NEW base \in Nat, NEW k \in Nat,
         TakesExactly(row, plan, base, k)
  PROVE  /\ Advance(row, plan, base, k) \in Row
         /\ LogRows(plan, base, k) \in Seq(LogRow)
         /\ Len(LogRows(plan, base, k)) = k
<1>1. \A i \in 1..k : plan[i] \in Hops
  <2>1. CASE k = 0  BY <2>1
  <2>2. CASE k # 0  BY <2>2, StepFacts
  <2>. QED  BY <2>1, <2>2
<1>2. \A i \in 1..k : /\ plan[i].from \in CallState
                      /\ plan[i].event \in CallTransition
                      /\ plan[i].to \in CallState
  BY <1>1, HopsType
<1>3. LogRows(plan, base, k) \in [1..k -> LogRow]
  <2>. SUFFICES ASSUME NEW i \in 1..k
                PROVE  [from |-> plan[i].from, event |-> plan[i].event,
                        to |-> plan[i].to, seq |-> StepSequence(base, i)] \in LogRow
    BY DEF LogRows
  <2>. StepSequence(base, i) \in Nat
    BY DEF StepSequence
  <2>. QED  BY <1>2 DEF LogRow
<1>4. LogRows(plan, base, k) \in Seq(LogRow) /\ Len(LogRows(plan, base, k)) = k
  BY <1>3
<1>5. Advance(row, plan, base, k) \in Row
  <2>1. CASE k = 0
    BY <2>1 DEF Advance
  <2>2. CASE k # 0
    <3>1. plan[k].to \in CallState
      BY <1>2, <2>2
    <3>2. StepSequence(base, k) \in Nat
      BY <2>2 DEF StepSequence
    <3>3. (plan[k].to \in Terminal) \in BOOLEAN
      OBVIOUS
    <3>4. row.version + k \in Nat
      BY DEF Row
    <3>. QED  BY <2>2, <3>1, <3>2, <3>3, <3>4 DEF Advance, Row
  <2>. QED  BY <2>1, <2>2
<1>. QED  BY <1>4, <1>5

(* Applying steps keeps a history a history that the row agrees with.      *)
LEMMA StepKeepsRecord ==
  ASSUME NEW row \in Row, NEW l \in Seq(LogRow), NEW plan, NEW base \in Nat,
         NEW k \in Nat, TakesExactly(row, plan, base, k),
         IsHistory(l), Agrees(row, l)
  PROVE  /\ IsHistory(l \o LogRows(plan, base, k))
         /\ Agrees(Advance(row, plan, base, k), l \o LogRows(plan, base, k))
<1>. DEFINE new == LogRows(plan, base, k)
            m == Len(l)
            whole == l \o new
<1>1. new \in Seq(LogRow) /\ Len(new) = k
  BY StepTypes
<1>2. m \in Nat \ {0}
  BY DEF Agrees
<1>3. /\ whole \in Seq(LogRow)
      /\ Len(whole) = m + k
      /\ \A i \in 1..m : whole[i] = l[i]
      /\ \A i \in m + 1..m + k : whole[i] = new[i - m]
  BY <1>1, <1>2
<1>4. \A i \in 1..k : /\ new[i].from = plan[i].from
                      /\ new[i].event = plan[i].event
                      /\ new[i].to = plan[i].to
                      /\ new[i].seq = base + i - 1
  BY DEF LogRows, StepSequence
<1>5. CASE k = 0
  <2>1. new = <<>>
    BY <1>1, <1>5
  <2>2. whole = l
    BY <2>1
  <2>. QED  BY <1>5, <2>2 DEF Advance
<1>6. CASE k # 0
  <2>. HIDE DEF new, whole
  <2>0. k \in Nat \ {0}
    BY <1>6
  <2>1. /\ base > row.last
        /\ plan[1].from = row.state
        /\ \A i \in 1..k : plan[i] \in Hops
        /\ \A i \in 2..k : plan[i].from = plan[i - 1].to
    BY <2>0, StepFacts, Zenon
  <2>2. whole[1].from = "Requested"
    BY <1>2, <1>3 DEF IsHistory
  <2>3. ASSUME NEW i \in 1..m + k
        PROVE  [from |-> whole[i].from, event |-> whole[i].event,
                to |-> whole[i].to] \in Hops
    <3>1. CASE i \in 1..m
      BY <1>3, <3>1 DEF IsHistory
    <3>2. CASE i \in m + 1..m + k
      <4>1. i - m \in 1..k
        BY <1>2, <3>2
      <4>2. plan[i - m] \in Hops
        BY <2>1, <4>1
      <4>3. plan[i - m] = [from |-> plan[i - m].from, event |-> plan[i - m].event,
                           to |-> plan[i - m].to]
        BY <4>2, HopsType
      <4>. QED  BY <1>3, <1>4, <3>2, <4>1, <4>2, <4>3
    <3>. QED  BY <1>2, <3>1, <3>2
  <2>4. ASSUME NEW i \in 1..m + k - 1
        PROVE  whole[i].to = whole[i + 1].from /\ whole[i].seq < whole[i + 1].seq
    <3>1. CASE i \in 1..m - 1
      <4>1. i \in 1..m /\ i + 1 \in 1..m
        BY <1>2, <3>1
      <4>2. whole[i] = l[i] /\ whole[i + 1] = l[i + 1]
        BY <1>3, <4>1
      <4>3. l[i].to = l[i + 1].from /\ l[i].seq < l[i + 1].seq
        BY <3>1 DEF IsHistory
      <4>. QED  BY <4>2, <4>3
    <3>2. CASE i = m
      <4>1. whole[m] = l[m] /\ whole[m + 1] = new[1]
        <5>1. m \in 1..m /\ m + 1 \in m + 1..m + k /\ (m + 1) - m = 1
          BY <1>2, <1>6
        <5>. QED  BY <1>3, <5>1
      <4>2. l[m].to = row.state /\ l[m].seq = row.last
        BY DEF Agrees
      <4>3. new[1].from = plan[1].from /\ new[1].seq = base
        BY <1>4, <1>6
      <4>. QED  BY <2>1, <3>2, <4>1, <4>2, <4>3 DEF Row
    <3>3. CASE i \in m + 1..m + k - 1
      <4>0. i - m \in 1..k /\ (i - m) + 1 \in 2..k /\ (i + 1) - m = (i - m) + 1
        BY <1>2, <3>3
      <4>. DEFINE j == i - m
      <4>1. j \in 1..k /\ j + 1 \in 2..k /\ j + 1 \in 1..k /\ (i + 1) - m = j + 1
        BY <4>0
      <4>2. whole[i] = new[j] /\ whole[i + 1] = new[j + 1]
        BY <1>2, <1>3, <3>3, <4>1
      <4>. HIDE DEF j
      <4>3. new[j].to = plan[j].to /\ new[j + 1].from = plan[j + 1].from
        BY <1>4, <4>1
      <4>4. plan[j + 1].from = plan[j].to
        BY <2>1, <4>1
      <4>5. new[j].seq = base + j - 1 /\ new[j + 1].seq = base + (j + 1) - 1
        BY <1>4, <4>1
      <4>6. new[j].seq < new[j + 1].seq
        BY <4>1, <4>5
      <4>. QED  BY <4>2, <4>3, <4>4, <4>6
    <3>. QED  BY <1>2, <3>1, <3>2, <3>3
  <2>5. IsHistory(whole)
    BY <1>3, <2>2, <2>3, <2>4 DEF IsHistory
  <2>6. Agrees(Advance(row, plan, base, k), whole)
    <3>1. whole[m + k] = new[k]
      BY <1>2, <1>3, <1>6
    <3>2. new[k].to = plan[k].to /\ new[k].seq = base + k - 1
      BY <1>4, <1>6
    <3>3. row.version = m
      BY DEF Agrees
    <3>4. Advance(row, plan, base, k) =
            [row EXCEPT !.state = plan[k].to, !.version = @ + k,
                        !.last = base + k - 1, !.ended = plan[k].to \in Terminal]
      BY <1>6 DEF Advance, StepSequence
    <3>5. whole # <<>>
      BY <1>2, <1>3
    <3>6. /\ Advance(row, plan, base, k).state = plan[k].to
          /\ Advance(row, plan, base, k).version = m + k
          /\ Advance(row, plan, base, k).last = base + k - 1
          /\ Advance(row, plan, base, k).ended = (plan[k].to \in Terminal)
      BY <3>3, <3>4 DEF Row
    <3>. QED  BY <1>3, <3>1, <3>2, <3>5, <3>6 DEF Agrees
  <2>. QED  BY <2>5, <2>6 DEF whole, new
<1>. QED  BY <1>5, <1>6

(* A plan is taken whole or not at all: its first step decides.            *)
LEMMA WholePlanOrNothing ==
  ASSUME NEW row \in Row, row.state \in CallState, NEW t \in CallState,
         NEW base \in Nat, NEW k \in Nat \ {0}, k <= Len(PathTo(row.state, t)),
         TakesExactly(row, PathTo(row.state, t), base, k)
  PROVE  k = Len(PathTo(row.state, t))
<1>. DEFINE plan == PathTo(row.state, t)
<1>1. plan # <<>>
  <2>. SUFFICES ASSUME plan = <<>> PROVE FALSE
    OBVIOUS
  <2>. Len(plan) = 0
    OBVIOUS
  <2>. QED  OBVIOUS
<1>2. Chain(plan, LongestPlan)
  BY <1>1, PlanIsChain
<1>. HIDE DEF plan
<1>3. SUFFICES ASSUME k < Len(plan) PROVE FALSE
  BY <1>2 DEF Chain, plan
<1>4. /\ plan[k + 1] \in Hops
      /\ plan[k + 1].from = plan[k].to
  <2>1. k + 1 \in 2..Len(plan) /\ plan \in Seq(Hops)
    BY <1>2, <1>3 DEF Chain
  <2>. QED  BY <1>2, <2>1 DEF Chain
<1>5. plan[k].to \notin Terminal
  BY <1>4, HopsType
<1>6. Takes(row, plan, base, k + 1)
  BY <1>4, <1>5 DEF Takes, StepSequence
<1>. QED  BY <1>3, <1>6 DEF TakesExactly, plan

-----------------------------------------------------------------------------
(* Type correctness.                                                       *)

LEMMA RowTypes ==
  /\ NoCall \in Row
  /\ \A row \in Row, pid \in ProviderIds \cup {None} : Linked(row, pid) \in Row
  /\ \A l \in {OutboundLog, InboundLog} : l \in Seq(LogRow) /\ Len(l) \in Nat
  /\ NoTxn \in [call : CallIds \cup {None}, pid : ProviderIds \cup {None},
                row : Row, log : Seq(LogRow), events : SUBSET EventIds,
                left : SUBSET Unmatched]
<1>1. NoCall \in Row
  BY DEF NoCall, Row
<1>2. ASSUME NEW row \in Row, NEW pid \in ProviderIds \cup {None}
      PROVE  Linked(row, pid) \in Row
  BY DEF Linked, Row
<1>3. /\ {"Requested", "Validating", "Initiating", "Connected", "Active"} \subseteq CallState
      /\ {"Validated", "Initiate", "Connect", "Activate"} \subseteq CallTransition
  <2>1. TRANSITIONS[1] = "Validated" /\ TRANSITIONS[2] = "Initiate"
        /\ TRANSITIONS[4] = "Connect" /\ TRANSITIONS[5] = "Activate"
    BY DEF TRANSITIONS
  <2>. QED  BY <2>1 DEF CallState, CallTransition
<1>4. OutboundLog \in Seq(LogRow) /\ Len(OutboundLog) = 2
  BY <1>3 DEF OutboundLog, LogRow
<1>5. InboundLog \in Seq(LogRow) /\ Len(InboundLog) = 4
  BY <1>3 DEF InboundLog, LogRow
<1>6. <<>> \in Seq(LogRow)
  OBVIOUS
<1>. QED  BY <1>1, <1>2, <1>4, <1>5, <1>6 DEF NoTxn

LEMMA InsertType ==
  ASSUME TypeOK, NEW c \in CallIds, NEW state \in CallState,
         NEW rows \in Seq(LogRow), NEW provider \in Providers,
         NEW interview \in Interviews \cup {None},
         NEW pid \in ProviderIds \cup {None}, NEW key \in Keys \cup {None},
         Insert(c, state, rows, provider, interview, pid, key)
  PROVE  TypeOK'
<1>. Len(rows) \in Nat
  OBVIOUS
<1>. [state |-> state, version |-> Len(rows), last |-> Len(rows),
      ended |-> FALSE, provider |-> provider, interview |-> interview,
      pid |-> pid, key |-> key] \in Row
  BY DEF Row
<1>. QED  BY DEF TypeOK, Insert

LEMMA TypeStep == TypeOK /\ [Next]_vars => TypeOK'
<1>. SUFFICES ASSUME TypeOK, [Next]_vars PROVE TypeOK'
  OBVIOUS
<1>1. ASSUME NEW c \in CallIds, NEW provider \in Providers,
             NEW interview \in Interviews, NEW key \in Keys \cup {None},
             BeginCall(c, provider, interview, key)
      PROVE  TypeOK'
  <2>. "Initiating" \in CallState
    BY DEF CallState
  <2>. QED  BY <1>1, RowTypes, InsertType DEF BeginCall
<1>2. ASSUME NEW c \in CallIds, NEW provider \in Providers,
             NEW pid \in ProviderIds, RegisterInbound(c, provider, pid)
      PROVE  TypeOK'
  <2>. "Active" \in CallState
    BY DEF CallState
  <2>. QED  BY <1>2, RowTypes, InsertType DEF RegisterInbound
<1>3. ASSUME NEW provider \in Providers, NEW c \in CallIds \cup {None},
             NEW pid \in ProviderIds \cup {None}, NEW n \in Notices,
             StoreUnmatched(provider, c, pid, n)
      PROVE  TypeOK'
  <2>1. PICK at \in 1..MaxArrivals :
          unmatched' = unmatched \cup
            {[provider |-> provider, pid |-> pid, notice |-> n, at |-> at]}
    BY <1>3 DEF StoreUnmatched
  <2>2. [provider |-> provider, pid |-> pid, notice |-> n, at |-> at] \in Unmatched
    BY <1>3, StoreAssumption DEF StoreUnmatched, Unmatched
  <2>. QED  BY <1>3, <2>1, <2>2 DEF StoreUnmatched, TypeOK
<1>4. ASSUME NEW provider \in Providers, NEW c \in CallIds \cup {None},
             NEW pid \in ProviderIds \cup {None}, NEW n \in Notices,
             NEW d \in CallIds, ApplyDuplicate(d, provider, c, pid, n)
      PROVE  TypeOK'
  BY <1>4, RowTypes DEF ApplyDuplicate, TypeOK
<1>5. ASSUME NEW provider \in Providers, NEW c \in CallIds \cup {None},
             NEW pid \in ProviderIds \cup {None}, NEW n \in Notices,
             NEW d \in CallIds, ApplyState(d, provider, c, pid, n)
      PROVE  TypeOK'
  <2>. DEFINE row == Linked(calls[d], pid)
              plan == PathTo(row.state, n.target)
  <2>1. PICK k \in 0..LongestPlan :
          /\ TakesExactly(row, plan, n.seq, k)
          /\ calls' = [calls EXCEPT ![d] =
               IF k = Len(plan) THEN Advance(row, plan, n.seq, k) ELSE row]
          /\ log' = [log EXCEPT ![d] = @ \o LogRows(plan, n.seq, k)]
    BY <1>5 DEF ApplyState
  <2>2. row \in Row
    BY RowTypes DEF TypeOK
  <2>3. n.seq \in Nat /\ n.id \in EventIds /\ k \in Nat
    BY StoreAssumption DEF Notice, LongestPlan
  <2>. HIDE DEF row, plan
  <2>4. /\ Advance(row, plan, n.seq, k) \in Row
        /\ LogRows(plan, n.seq, k) \in Seq(LogRow)
    BY <2>1, <2>2, <2>3, StepTypes
  <2>5. calls' \in [CallIds -> Row]
    BY <2>1, <2>2, <2>4 DEF TypeOK
  <2>6. log' \in [CallIds -> Seq(LogRow)]
    <3>. log[d] \o LogRows(plan, n.seq, k) \in Seq(LogRow)
      BY <2>4 DEF TypeOK
    <3>. QED  BY <2>1 DEF TypeOK
  <2>7. events' \in [CallIds -> SUBSET EventIds]
    BY <1>5, <2>3 DEF ApplyState, TypeOK
  <2>. QED  BY <1>5, <2>5, <2>6, <2>7 DEF ApplyState, TypeOK
<1>6. ASSUME NEW c \in CallIds, NEW pid \in ProviderIds, LinkBegin(c, pid)
      PROVE  TypeOK'
  <2>. calls[c] \in Row /\ Linked(calls[c], pid) \in Row
    BY RowTypes DEF TypeOK
  <2>. Waiting(calls[c].provider, pid) \subseteq Unmatched
    BY DEF Waiting, TypeOK
  <2>. QED  BY <1>6 DEF LinkBegin, TypeOK
<1>7. ASSUME ReplayEvent PROVE TypeOK'
  <2>1. PICK u \in txn.left :
          \/ txn' = [txn EXCEPT !.left = @ \ {u}]
          \/ \E k \in 0..LongestPlan :
               LET plan == PathTo(txn.row.state, u.notice.target) IN
               /\ TakesExactly(txn.row, plan, u.notice.seq, k)
               /\ txn' = [txn EXCEPT
                    !.row = Advance(@, plan, u.notice.seq, k),
                    !.log = @ \o LogRows(plan, u.notice.seq, k),
                    !.events = @ \cup {u.notice.id},
                    !.left = @ \ {u}]
    BY <1>7 DEF ReplayEvent
  <2>2. u.notice.seq \in Nat /\ u.notice.id \in EventIds
    BY DEF TypeOK, Unmatched, Notice
  <2>3. CASE txn' = [txn EXCEPT !.left = @ \ {u}]
    BY <1>7, <2>3 DEF ReplayEvent, TypeOK
  <2>4. ASSUME NEW k \in 0..LongestPlan, NEW plan,
               TakesExactly(txn.row, plan, u.notice.seq, k),
               txn' = [txn EXCEPT
                    !.row = Advance(@, plan, u.notice.seq, k),
                    !.log = @ \o LogRows(plan, u.notice.seq, k),
                    !.events = @ \cup {u.notice.id},
                    !.left = @ \ {u}]
        PROVE  TypeOK'
    <3>1. k \in Nat /\ txn.row \in Row
      BY DEF LongestPlan, TypeOK
    <3>2. /\ Advance(txn.row, plan, u.notice.seq, k) \in Row
          /\ LogRows(plan, u.notice.seq, k) \in Seq(LogRow)
      BY <2>2, <2>4, <3>1, StepTypes
    <3>3. txn.log \o LogRows(plan, u.notice.seq, k) \in Seq(LogRow)
      BY <3>2 DEF TypeOK
    <3>. QED  BY <1>7, <2>2, <2>4, <3>2, <3>3 DEF ReplayEvent, TypeOK
  <2>. QED  BY <2>1, <2>3, <2>4
<1>8. ASSUME LinkCommit PROVE TypeOK'
  BY <1>8, RowTypes DEF LinkCommit, TypeOK
<1>9. ASSUME LinkRollback PROVE TypeOK'
  BY <1>9, RowTypes DEF LinkRollback, TypeOK
<1>10. ASSUME NEW S \in SUBSET CallIds, PurgeTerminal(S) PROVE TypeOK'
  BY <1>10, RowTypes DEF PurgeTerminal, TypeOK
<1>11. ASSUME NEW cutoff, PurgeUnmatched(cutoff) PROVE TypeOK'
  BY <1>11 DEF PurgeUnmatched, TypeOK
<1>12. CASE UNCHANGED vars
  BY <1>12 DEF vars, TypeOK
<1>. QED
  BY <1>1, <1>2, <1>3, <1>4, <1>5, <1>6, <1>7, <1>8, <1>9, <1>10, <1>11,
     <1>12 DEF Next, Report

(* Every reachable state of the tables is well typed (the schema of        *)
(* migrate, calls.rs), whatever the calls, providers and events.           *)
THEOREM TypeCorrect == Spec => []TypeOK
<1>1. Init => TypeOK
  BY RowTypes DEF Init, TypeOK
<1>. QED  BY <1>1, TypeStep, PTL DEF Spec

-----------------------------------------------------------------------------
(* The audit trail.                                                        *)

Recorded(row, l) == IsHistory(l) /\ Agrees(row, l)

(* Inductive: the open transaction keeps its own row and log in step too.  *)
AuditInv ==
  /\ AuditMatchesRow
  /\ Replaying => Recorded(txn.row, txn.log)

LEMMA BirthHops ==
  /\ [from |-> "Requested", event |-> "Validated", to |-> "Validating"] \in Hops
  /\ [from |-> "Validating", event |-> "Initiate", to |-> "Initiating"] \in Hops
  /\ [from |-> "Initiating", event |-> "Connect", to |-> "Connected"] \in Hops
  /\ [from |-> "Connected", event |-> "Activate", to |-> "Active"] \in Hops
<1>1. /\ TRANSITIONS[1] = "Validated" /\ TRANSITIONS[2] = "Initiate"
      /\ TRANSITIONS[4] = "Connect" /\ TRANSITIONS[5] = "Activate"
  BY DEF TRANSITIONS
<1>2. {"Validated", "Initiate", "Connect", "Activate"} \subseteq CallTransition
  BY <1>1 DEF CallTransition
<1>3. /\ "Validated" \in DOMAIN Transition("Requested")
      /\ Transition("Requested")["Validated"] = "Validating"
  BY DEF Transition
<1>4. /\ "Initiate" \in DOMAIN Transition("Validating")
      /\ Transition("Validating")["Initiate"] = "Initiating"
  BY DEF Transition
<1>5. /\ "Connect" \in DOMAIN Transition("Initiating")
      /\ Transition("Initiating")["Connect"] = "Connected"
  BY DEF Transition
<1>6. /\ "Activate" \in DOMAIN Transition("Connected")
      /\ Transition("Connected")["Activate"] = "Active"
  BY DEF Transition
<1>. QED  BY <1>2, <1>3, <1>4, <1>5, <1>6 DEF Hops, CallState

LEMMA BirthRecorded ==
  ASSUME NEW row
  PROVE  /\ row.state = "Initiating" /\ row.version = 2 /\ row.last = 2
            /\ row.ended = FALSE => Recorded(row, OutboundLog)
         /\ row.state = "Active" /\ row.version = 4 /\ row.last = 4
            /\ row.ended = FALSE => Recorded(row, InboundLog)
<1>1. IsHistory(OutboundLog)
  BY BirthHops DEF OutboundLog, IsHistory
<1>2. IsHistory(InboundLog)
  BY BirthHops DEF InboundLog, IsHistory
<1>3. "Initiating" \notin Terminal /\ "Active" \notin Terminal
  BY DEF Terminal
<1>. QED  BY <1>1, <1>2, <1>3 DEF Recorded, Agrees, OutboundLog, InboundLog

(* Only the state, version, sequence and end of a row are on record.       *)
LEMMA LinkedRecorded ==
  ASSUME NEW row \in Row, NEW pid, NEW l, Recorded(row, l)
  PROVE  Recorded(Linked(row, pid), l)
BY DEF Recorded, Agrees, Linked, Row

LEMMA RecordedState ==
  ASSUME NEW row, NEW l \in Seq(LogRow), Recorded(row, l)
  PROVE  row.state \in CallState /\ row.state # "Absent"
<1>1. Len(l) \in Nat \ {0}
  BY DEF Recorded, Agrees
<1>2. l[Len(l)] \in LogRow
  BY <1>1
<1>3. row.state \in CallState
  BY <1>2 DEF Recorded, Agrees, LogRow
<1>4. "Absent" \notin CallState
  BY DEF CallState, Terminal
<1>. QED  BY <1>3, <1>4

LEMMA InsertRecorded ==
  ASSUME TypeOK, AuditMatchesRow, NEW c \in CallIds, NEW state, NEW rows,
         NEW provider, NEW interview, NEW pid, NEW key,
         Insert(c, state, rows, provider, interview, pid, key),
         Recorded([state |-> state, version |-> Len(rows), last |-> Len(rows),
                   ended |-> FALSE, provider |-> provider,
                   interview |-> interview, pid |-> pid, key |-> key], rows)
  PROVE  AuditMatchesRow'
<1>. SUFFICES ASSUME NEW d \in CallIds, calls'[d].state # "Absent"
              PROVE  Recorded(calls'[d], log'[d])
  BY DEF AuditMatchesRow, Stored, Recorded
<1>1. CASE d = c
  BY <1>1 DEF Insert, TypeOK
<1>2. CASE d # c
  <2>. calls'[d] = calls[d] /\ log'[d] = log[d]
    BY <1>2 DEF Insert, TypeOK
  <2>. QED  BY DEF AuditMatchesRow, Stored, Recorded
<1>. QED  BY <1>1, <1>2

LEMMA AuditStep == TypeOK /\ AuditInv /\ [Next]_vars => AuditInv'
<1>. SUFFICES ASSUME TypeOK, AuditInv, [Next]_vars PROVE AuditInv'
  OBVIOUS
<1>0. \A c \in Stored : Recorded(calls[c], log[c])
  BY DEF AuditInv, AuditMatchesRow, Recorded
<1>1. ASSUME NEW c \in CallIds, NEW provider \in Providers,
             NEW interview \in Interviews, NEW key \in Keys \cup {None},
             BeginCall(c, provider, interview, key)
      PROVE  AuditInv'
  <2>1. Len(OutboundLog) = 2
    BY DEF OutboundLog
  <2>2. AuditMatchesRow'
    BY <1>1, <2>1, BirthRecorded, InsertRecorded DEF BeginCall, AuditInv
  <2>. QED  BY <1>1, <2>2 DEF BeginCall, Insert, AuditInv, Unlocked, Replaying
<1>2. ASSUME NEW c \in CallIds, NEW provider \in Providers,
             NEW pid \in ProviderIds, RegisterInbound(c, provider, pid)
      PROVE  AuditInv'
  <2>1. Len(InboundLog) = 4
    BY DEF InboundLog
  <2>2. AuditMatchesRow'
    BY <1>2, <2>1, BirthRecorded, InsertRecorded DEF RegisterInbound, AuditInv
  <2>. QED  BY <1>2, <2>2 DEF RegisterInbound, Insert, AuditInv, Unlocked, Replaying
<1>3. ASSUME NEW provider, NEW c, NEW pid, NEW n, StoreUnmatched(provider, c, pid, n)
      PROVE  AuditInv'
  BY <1>3 DEF StoreUnmatched, AuditInv, AuditMatchesRow, Stored, Replaying
<1>4. ASSUME NEW provider, NEW c, NEW pid, NEW n, NEW d \in CallIds,
             ApplyDuplicate(d, provider, c, pid, n)
      PROVE  AuditInv'
  <2>1. txn' = txn /\ ~Replaying
    BY <1>4 DEF ApplyDuplicate, Accepts, Unlocked, Replaying
  <2>2. ASSUME NEW e \in CallIds, calls'[e].state # "Absent"
        PROVE  Recorded(calls'[e], log'[e])
    <3>1. CASE e # d
      BY <1>0, <1>4, <2>2, <3>1 DEF ApplyDuplicate, TypeOK, Stored
    <3>2. CASE e = d
      <4>1. calls'[d] = Linked(calls[d], pid) /\ log'[d] = log[d]
        BY <1>4 DEF ApplyDuplicate, TypeOK
      <4>2. d \in Stored /\ calls[d] \in Row
        BY <1>4 DEF ApplyDuplicate, Accepts, Lookup, Holders, Stored, TypeOK
      <4>. QED  BY <1>0, <3>2, <4>1, <4>2, LinkedRecorded
    <3>. QED  BY <3>1, <3>2
  <2>. QED  BY <2>1, <2>2 DEF AuditInv, AuditMatchesRow, Stored, Replaying, Recorded
<1>5. ASSUME NEW provider \in Providers, NEW c \in CallIds \cup {None},
             NEW pid \in ProviderIds \cup {None}, NEW n \in Notices,
             NEW d \in CallIds, ApplyState(d, provider, c, pid, n)
      PROVE  AuditInv'
  <2>1. txn' = txn /\ ~Replaying
    BY <1>5 DEF ApplyState, Accepts, Unlocked, Replaying
  <2>. DEFINE row == Linked(calls[d], pid)
              plan == PathTo(row.state, n.target)
  <2>2. PICK k \in 0..LongestPlan :
          /\ k <= Len(plan)
          /\ TakesExactly(row, plan, n.seq, k)
          /\ calls' = [calls EXCEPT ![d] =
               IF k = Len(plan) THEN Advance(row, plan, n.seq, k) ELSE row]
          /\ log' = [log EXCEPT ![d] = @ \o LogRows(plan, n.seq, k)]
    BY <1>5 DEF ApplyState
  <2>3. d \in Stored /\ calls[d] \in Row /\ log[d] \in Seq(LogRow)
    BY <1>5 DEF ApplyState, Accepts, Lookup, Holders, Stored, TypeOK
  <2>4. row \in Row /\ Recorded(row, log[d])
    BY <1>0, <2>3, RowTypes, LinkedRecorded
  <2>5. row.state \in CallState
    BY <2>3, <2>4, RecordedState
  <2>6. n.target \in CallState /\ n.seq \in Nat /\ k \in Nat
    BY StoreAssumption DEF Notice, LongestPlan
  <2>7. /\ calls'[d] = IF k = Len(plan) THEN Advance(row, plan, n.seq, k) ELSE row
        /\ log'[d] = log[d] \o LogRows(plan, n.seq, k)
        /\ \A e \in CallIds \ {d} : calls'[e] = calls[e] /\ log'[e] = log[e]
    BY <2>2, <2>3 DEF TypeOK
  <2>8. k = 0 \/ k = Len(plan)
    BY <2>2, <2>4, <2>5, <2>6, WholePlanOrNothing
  <2>. HIDE DEF row, plan
  <2>9. Recorded(calls'[d], log'[d])
    <3>1. Recorded(Advance(row, plan, n.seq, k), log[d] \o LogRows(plan, n.seq, k))
      BY <2>2, <2>3, <2>4, <2>6, StepKeepsRecord DEF Recorded
    <3>2. k = 0 => Advance(row, plan, n.seq, k) = row
      BY DEF Advance
    <3>. QED  BY <2>7, <2>8, <3>1, <3>2
  <2>10. \A e \in CallIds : calls'[e].state # "Absent" => Recorded(calls'[e], log'[e])
    BY <1>0, <2>7, <2>9 DEF Stored
  <2>. QED  BY <2>1, <2>10 DEF AuditInv, AuditMatchesRow, Stored, Replaying, Recorded
<1>6. ASSUME NEW c \in CallIds, NEW pid \in ProviderIds, LinkBegin(c, pid)
      PROVE  AuditInv'
  <2>1. c \in Stored /\ calls[c] \in Row
    BY <1>6 DEF LinkBegin, TypeOK
  <2>2. txn'.row = Linked(calls[c], pid) /\ txn'.log = log[c]
    BY <1>6 DEF LinkBegin
  <2>3. Recorded(txn'.row, txn'.log)
    BY <1>0, <2>1, <2>2, LinkedRecorded
  <2>. QED
    BY <1>6, <2>3 DEF LinkBegin, AuditInv, AuditMatchesRow, Stored, Recorded
<1>7. ASSUME ReplayEvent PROVE AuditInv'
  <2>0. Recorded(txn.row, txn.log) /\ txn.row \in Row /\ txn.log \in Seq(LogRow)
    BY <1>7 DEF ReplayEvent, AuditInv, TypeOK
  <2>1. AuditMatchesRow'
    BY <1>7 DEF ReplayEvent, AuditInv, AuditMatchesRow, Stored
  <2>2. PICK u \in txn.left :
          \/ txn' = [txn EXCEPT !.left = @ \ {u}]
          \/ \E k \in 0..LongestPlan :
               LET plan == PathTo(txn.row.state, u.notice.target) IN
               /\ TakesExactly(txn.row, plan, u.notice.seq, k)
               /\ txn' = [txn EXCEPT
                    !.row = Advance(@, plan, u.notice.seq, k),
                    !.log = @ \o LogRows(plan, u.notice.seq, k),
                    !.events = @ \cup {u.notice.id},
                    !.left = @ \ {u}]
    BY <1>7 DEF ReplayEvent
  <2>3. CASE txn' = [txn EXCEPT !.left = @ \ {u}]
    <3>. txn'.row = txn.row /\ txn'.log = txn.log
      BY <2>3 DEF TypeOK
    <3>. QED  BY <2>0, <2>1 DEF AuditInv
  <2>4. ASSUME NEW k \in 0..LongestPlan, NEW plan,
               TakesExactly(txn.row, plan, u.notice.seq, k),
               txn' = [txn EXCEPT
                    !.row = Advance(@, plan, u.notice.seq, k),
                    !.log = @ \o LogRows(plan, u.notice.seq, k),
                    !.events = @ \cup {u.notice.id},
                    !.left = @ \ {u}]
        PROVE  AuditInv'
    <3>1. u.notice.seq \in Nat /\ k \in Nat
      BY DEF TypeOK, Unmatched, Notice, LongestPlan
    <3>2. /\ txn'.row = Advance(txn.row, plan, u.notice.seq, k)
          /\ txn'.log = txn.log \o LogRows(plan, u.notice.seq, k)
      BY <2>4 DEF TypeOK
    <3>3. Recorded(txn'.row, txn'.log)
      BY <2>0, <2>4, <3>1, <3>2, StepKeepsRecord DEF Recorded
    <3>. QED  BY <2>1, <3>3 DEF AuditInv
  <2>. QED  BY <2>2, <2>3, <2>4
<1>8. ASSUME LinkCommit PROVE AuditInv'
  <2>1. Recorded(txn.row, txn.log)
    BY <1>8 DEF LinkCommit, AuditInv
  <2>2. \A e \in CallIds :
          \/ calls'[e] = txn.row /\ log'[e] = txn.log
          \/ calls'[e] = calls[e] /\ log'[e] = log[e]
    BY <1>8 DEF LinkCommit, TypeOK
  <2>3. \A e \in CallIds : calls'[e].state # "Absent" => Recorded(calls'[e], log'[e])
    BY <1>0, <2>1, <2>2 DEF Stored
  <2>. QED
    BY <1>8, <2>3 DEF LinkCommit, NoTxn, AuditInv, AuditMatchesRow, Stored,
       Replaying, Recorded
<1>9. ASSUME LinkRollback PROVE AuditInv'
  BY <1>9 DEF LinkRollback, NoTxn, AuditInv, AuditMatchesRow, Stored, Replaying
<1>10. ASSUME NEW S \in SUBSET CallIds, PurgeTerminal(S) PROVE AuditInv'
  <2>1. \A e \in CallIds : calls'[e].state # "Absent" =>
          e \in Stored /\ calls'[e] = calls[e] /\ log'[e] = log[e]
    BY <1>10 DEF PurgeTerminal, NoCall, Stored
  <2>. QED
    BY <1>0, <1>10, <2>1 DEF PurgeTerminal, Unlocked, Replaying, AuditInv,
       AuditMatchesRow, Stored, Recorded
<1>11. ASSUME NEW cutoff, PurgeUnmatched(cutoff) PROVE AuditInv'
  BY <1>11 DEF PurgeUnmatched, AuditInv, AuditMatchesRow, Stored, Replaying
<1>12. CASE UNCHANGED vars
  BY <1>12 DEF vars, AuditInv, AuditMatchesRow, Stored, Replaying
<1>. QED
  BY <1>1, <1>2, <1>3, <1>4, <1>5, <1>6, <1>7, <1>8, <1>9, <1>10, <1>11,
     <1>12 DEF Next, Report

(* The audit trail never lies, for any number of calls and any events in   *)
(* any order: every stored row is the end of its log, and the log is a     *)
(* legal history.                                                          *)
THEOREM AuditTrail == Spec => []AuditMatchesRow
<1>1. Init => AuditInv
  BY DEF Init, NoCall, NoTxn, AuditInv, AuditMatchesRow, Stored, Replaying
<1>2. AuditInv => AuditMatchesRow
  BY DEF AuditInv
<1>. QED  BY <1>1, <1>2, AuditStep, TypeCorrect, PTL DEF Spec

-----------------------------------------------------------------------------
(* Links, keys and ends.                                                   *)

Ending(row, l) == <<row.state, row.version, row.last, l>>

(* Inductive: what an open transaction of link_provider_call may rely on,  *)
(* since nobody else writes while it holds the connection.                 *)
TxnInv ==
  Replaying =>
    /\ txn.call \in Stored
    /\ txn.pid \in ProviderIds
    /\ MayLink(txn.call, txn.pid)
    /\ txn.row.pid = txn.pid
    /\ txn.row.key = calls[txn.call].key
    /\ txn.row.provider = calls[txn.call].provider
    /\ txn.row.state # "Absent"
    /\ calls[txn.call].state \in Terminal =>
         Ending(txn.row, txn.log) = Ending(calls[txn.call], log[txn.call])

LinkInv == UniqueLinks /\ TxnInv

(* A row that has ended takes no step of any plan. *)
LEMMA EndedTakesNothing ==
  ASSUME NEW row \in Row, row.state \in Terminal, NEW plan, NEW base \in Nat,
         NEW k \in Nat, TakesExactly(row, plan, base, k)
  PROVE  k = 0 /\ Advance(row, plan, base, k) = row /\ LogRows(plan, base, k) = <<>>
<1>1. k = 0
  BY StepFacts
<1>2. LogRows(plan, base, k) = <<>>
  BY <1>1, StepTypes
<1>. QED  BY <1>1, <1>2 DEF Advance

LEMMA AdvanceKeepsLinks ==
  ASSUME NEW row \in Row, NEW plan, NEW base \in Nat, NEW k \in Nat,
         TakesExactly(row, plan, base, k)
  PROVE  /\ Advance(row, plan, base, k).pid = row.pid
         /\ Advance(row, plan, base, k).key = row.key
         /\ Advance(row, plan, base, k).provider = row.provider
         /\ row.state # "Absent" => Advance(row, plan, base, k).state # "Absent"
<1>1. CASE k = 0
  BY <1>1 DEF Advance
<1>2. CASE k # 0
  <2>0. k \in Nat \ {0} /\ k \in 1..k
    BY <1>2
  <2>a. \A i \in 1..k : plan[i] \in Hops
    BY <2>0, StepFacts
  <2>1. plan[k] \in Hops
    BY <2>0, <2>a
  <2>2. plan[k].to \in CallState
    BY <2>1, HopsType
  <2>3. plan[k].to # "Absent"
    BY <2>2 DEF CallState, Terminal
  <2>. QED  BY <1>2, <2>3 DEF Advance, Row
<1>. QED  BY <1>1, <1>2

(* Rows that change only in pid, and only as MayLink allows, stay unique.  *)
LEMMA RelinkUnique ==
  ASSUME TypeOK, UniqueLinks, NEW d \in Stored, NEW pid \in ProviderIds \cup {None},
         MayLink(d, pid), calls' \in [CallIds -> Row],
         \A e \in CallIds \ {d} : calls'[e] = calls[e],
         calls'[d].key = calls[d].key,
         calls'[d].pid = IF pid = None THEN calls[d].pid ELSE pid
  PROVE  UniqueLinks'
<1>1. \A e \in CallIds \ {d} : e \in Stored' <=> e \in Stored
  BY DEF Stored
<1>2. d \in CallIds
  BY DEF Stored
<1>3. ASSUME NEW e \in Stored', e # d
      PROVE  /\ calls'[d].pid # None => calls'[d].pid # calls'[e].pid
             /\ calls'[d].key # None => calls'[d].key # calls'[e].key
  <2>1. e \in Stored /\ calls'[e] = calls[e]
    BY <1>1, <1>3 DEF Stored
  <2>2. calls'[d].key # None => calls'[d].key # calls'[e].key
    BY <1>3, <2>1 DEF UniqueLinks
  <2>3. CASE pid = None
    BY <1>3, <2>1, <2>2, <2>3 DEF UniqueLinks
  <2>4. CASE pid # None
    <3>. e \notin Holders(pid)
      BY <1>3, <2>4 DEF MayLink
    <3>. calls[e].pid # pid
      BY <2>1, <2>4 DEF Holders
    <3>. QED  BY <2>1, <2>2, <2>4
  <2>. QED  BY <2>3, <2>4
<1>. SUFFICES ASSUME NEW x \in Stored', NEW y \in Stored', x # y
              PROVE  /\ calls'[x].pid # None => calls'[x].pid # calls'[y].pid
                     /\ calls'[x].key # None => calls'[x].key # calls'[y].key
  BY DEF UniqueLinks
<1>4. CASE x = d
  BY <1>3, <1>4
<1>5. CASE y = d
  BY <1>3, <1>5
<1>6. CASE x # d /\ y # d
  <2>. x \in Stored /\ y \in Stored /\ calls'[x] = calls[x] /\ calls'[y] = calls[y]
    BY <1>1, <1>6 DEF Stored
  <2>. QED  BY DEF UniqueLinks
<1>. QED  BY <1>4, <1>5, <1>6

LEMMA InsertUnique ==
  ASSUME TypeOK, UniqueLinks, NEW c \in CallIds, NEW state, NEW rows,
         NEW provider, NEW interview, NEW pid, NEW key,
         Insert(c, state, rows, provider, interview, pid, key),
         KeyHolders(key) = {}, Holders(pid) = {}
  PROVE  UniqueLinks'
<1>1. calls'[c].pid = pid /\ calls'[c].key = key
  BY DEF Insert, TypeOK
<1>2. \A e \in CallIds \ {c} : calls'[e] = calls[e]
  BY DEF Insert, TypeOK
<1>3. ASSUME NEW e \in Stored', e # c
      PROVE  /\ e \in Stored
             /\ pid # None => calls[e].pid # pid
             /\ key # None => calls[e].key # key
  BY <1>2, <1>3 DEF Stored, Holders, KeyHolders
<1>. SUFFICES ASSUME NEW x \in Stored', NEW y \in Stored', x # y
              PROVE  /\ calls'[x].pid # None => calls'[x].pid # calls'[y].pid
                     /\ calls'[x].key # None => calls'[x].key # calls'[y].key
  BY DEF UniqueLinks
<1>. x \in CallIds /\ y \in CallIds
  BY DEF Stored
<1>4. CASE x = c
  BY <1>1, <1>2, <1>3, <1>4
<1>5. CASE y = c
  BY <1>1, <1>2, <1>3, <1>5
<1>6. CASE x # c /\ y # c
  BY <1>2, <1>3, <1>6 DEF UniqueLinks
<1>. QED  BY <1>4, <1>5, <1>6

(* Who opens a transaction finds nobody in it, and what it may rely on.    *)
LEMMA LinkStep ==
  TypeOK /\ TypeOK' /\ LinkInv /\ [Next]_vars => LinkInv'
<1>. SUFFICES ASSUME TypeOK, TypeOK', LinkInv, [Next]_vars PROVE LinkInv'
  OBVIOUS
<1>. USE DEF LinkInv
<1>1. ASSUME NEW c \in CallIds, NEW provider \in Providers,
             NEW interview \in Interviews, NEW key \in Keys \cup {None},
             BeginCall(c, provider, interview, key)
      PROVE  LinkInv'
  <2>1. Holders(None) = {}
    BY DEF Holders
  <2>2. UniqueLinks'
    BY <1>1, <2>1, InsertUnique DEF BeginCall
  <2>3. ~Replaying'
    BY <1>1 DEF BeginCall, Insert, Unlocked, Replaying
  <2>. QED  BY <2>2, <2>3 DEF TxnInv
<1>2. ASSUME NEW c \in CallIds, NEW provider \in Providers,
             NEW pid \in ProviderIds, RegisterInbound(c, provider, pid)
      PROVE  LinkInv'
  <2>1. KeyHolders(None) = {}
    BY DEF KeyHolders
  <2>2. UniqueLinks'
    BY <1>2, <2>1, InsertUnique DEF RegisterInbound
  <2>3. ~Replaying'
    BY <1>2 DEF RegisterInbound, Insert, Unlocked, Replaying
  <2>. QED  BY <2>2, <2>3 DEF TxnInv
<1>3. ASSUME NEW provider, NEW c, NEW pid, NEW n, StoreUnmatched(provider, c, pid, n)
      PROVE  LinkInv'
  BY <1>3 DEF StoreUnmatched, UniqueLinks, Stored, TxnInv, Replaying, Unlocked
<1>4. ASSUME NEW d \in CallIds, NEW provider \in Providers,
             NEW c \in CallIds \cup {None}, NEW pid \in ProviderIds \cup {None},
             NEW n \in Notices, ApplyDuplicate(d, provider, c, pid, n)
      PROVE  LinkInv'
  <2>1. d \in Stored /\ MayLink(d, pid)
    BY <1>4 DEF ApplyDuplicate, Accepts, Lookup, Holders
  <2>2. /\ calls' \in [CallIds -> Row]
        /\ \A e \in CallIds \ {d} : calls'[e] = calls[e]
        /\ calls'[d] = Linked(calls[d], pid)
    BY <1>4 DEF ApplyDuplicate, TypeOK
  <2>3. /\ calls'[d].key = calls[d].key
        /\ calls'[d].pid = IF pid = None THEN calls[d].pid ELSE pid
    BY <2>2 DEF Linked, TypeOK, Row
  <2>4. UniqueLinks'
    BY <2>1, <2>2, <2>3, RelinkUnique
  <2>5. ~Replaying'
    BY <1>4 DEF ApplyDuplicate, Accepts, Unlocked, Replaying
  <2>. QED  BY <2>4, <2>5 DEF TxnInv
<1>5. ASSUME NEW d \in CallIds, NEW provider \in Providers,
             NEW c \in CallIds \cup {None}, NEW pid \in ProviderIds \cup {None},
             NEW n \in Notices, ApplyState(d, provider, c, pid, n)
      PROVE  LinkInv'
  <2>. DEFINE row == Linked(calls[d], pid)
              plan == PathTo(row.state, n.target)
  <2>1. d \in Stored /\ MayLink(d, pid)
    BY <1>5 DEF ApplyState, Accepts, Lookup, Holders
  <2>2. row \in Row /\ row.key = calls[d].key
        /\ row.pid = IF pid = None THEN calls[d].pid ELSE pid
    BY DEF Linked, TypeOK, Row
  <2>3. n.seq \in Nat
    BY StoreAssumption DEF Notice
  <2>4. PICK k \in 0..LongestPlan :
          /\ TakesExactly(row, plan, n.seq, k)
          /\ calls' = [calls EXCEPT ![d] =
               IF k = Len(plan) THEN Advance(row, plan, n.seq, k) ELSE row]
    BY <1>5 DEF ApplyState
  <2>5. /\ calls' \in [CallIds -> Row]
        /\ \A e \in CallIds \ {d} : calls'[e] = calls[e]
        /\ calls'[d] = row \/ calls'[d] = Advance(row, plan, n.seq, k)
    BY <2>4 DEF TypeOK
  <2>. HIDE DEF row, plan
  <2>6. k \in Nat
    BY DEF LongestPlan
  <2>7. calls'[d].key = row.key /\ calls'[d].pid = row.pid
    BY <2>2, <2>3, <2>4, <2>5, <2>6, AdvanceKeepsLinks
  <2>8. UniqueLinks'
    BY <2>1, <2>2, <2>5, <2>7, RelinkUnique
  <2>9. ~Replaying'
    BY <1>5 DEF ApplyState, Accepts, Unlocked, Replaying
  <2>. QED  BY <2>8, <2>9 DEF TxnInv
<1>6. ASSUME NEW c \in CallIds, NEW pid \in ProviderIds, LinkBegin(c, pid)
      PROVE  LinkInv'
  <2>1. UniqueLinks'
    BY <1>6 DEF LinkBegin, UniqueLinks, Stored
  <2>2. /\ c \in Stored' /\ MayLink(c, pid)'
        /\ calls' = calls /\ log' = log
        /\ txn'.call = c /\ txn'.pid = pid /\ txn'.log = log[c]
        /\ txn'.row = Linked(calls[c], pid)
    BY <1>6 DEF LinkBegin, Stored, MayLink, Holders
  <2>3. /\ txn'.row.pid = pid /\ txn'.row.key = calls[c].key
        /\ txn'.row.provider = calls[c].provider
        /\ txn'.row.state = calls[c].state /\ txn'.row.version = calls[c].version
        /\ txn'.row.last = calls[c].last
    BY <2>2, StoreAssumption DEF Linked, TypeOK, Row
  <2>. QED  BY <2>1, <2>2, <2>3 DEF TxnInv, Ending, Stored
<1>7. ASSUME ReplayEvent PROVE LinkInv'
  <2>1. UniqueLinks'
    BY <1>7 DEF ReplayEvent, UniqueLinks, Stored
  <2>2. calls' = calls /\ log' = log /\ Replaying
    BY <1>7 DEF ReplayEvent
  <2>3. PICK u \in txn.left :
          \/ txn' = [txn EXCEPT !.left = @ \ {u}]
          \/ \E k \in 0..LongestPlan :
               LET plan == PathTo(txn.row.state, u.notice.target) IN
               /\ TakesExactly(txn.row, plan, u.notice.seq, k)
               /\ txn' = [txn EXCEPT
                    !.row = Advance(@, plan, u.notice.seq, k),
                    !.log = @ \o LogRows(plan, u.notice.seq, k),
                    !.events = @ \cup {u.notice.id},
                    !.left = @ \ {u}]
    BY <1>7 DEF ReplayEvent
  <2>4. CASE txn' = [txn EXCEPT !.left = @ \ {u}]
    <3>1. /\ txn'.row = txn.row /\ txn'.log = txn.log
          /\ txn'.call = txn.call /\ txn'.pid = txn.pid
      BY <2>4 DEF TypeOK
    <3>. QED
      BY <2>1, <2>2, <3>1 DEF TxnInv, Replaying, Stored, MayLink, Holders, Ending
  <2>5. ASSUME NEW k \in 0..LongestPlan, NEW plan,
               TakesExactly(txn.row, plan, u.notice.seq, k),
               txn' = [txn EXCEPT
                    !.row = Advance(@, plan, u.notice.seq, k),
                    !.log = @ \o LogRows(plan, u.notice.seq, k),
                    !.events = @ \cup {u.notice.id},
                    !.left = @ \ {u}]
        PROVE  LinkInv'
    <3>1. u.notice.seq \in Nat /\ k \in Nat /\ txn.row \in Row /\ txn.log \in Seq(LogRow)
      BY DEF TypeOK, Unmatched, Notice, LongestPlan
    <3>2. /\ txn'.row = Advance(txn.row, plan, u.notice.seq, k)
          /\ txn'.log = txn.log \o LogRows(plan, u.notice.seq, k)
          /\ txn'.call = txn.call /\ txn'.pid = txn.pid
      BY <2>5 DEF TypeOK
    <3>3. /\ txn'.row.pid = txn.row.pid /\ txn'.row.key = txn.row.key
          /\ txn'.row.provider = txn.row.provider
          /\ txn.row.state # "Absent" => txn'.row.state # "Absent"
      BY <2>5, <3>1, <3>2, AdvanceKeepsLinks
    <3>4. ASSUME txn.row.state \in Terminal
          PROVE  txn'.row = txn.row /\ txn'.log = txn.log
      <4>1. Advance(txn.row, plan, u.notice.seq, k) = txn.row
            /\ LogRows(plan, u.notice.seq, k) = <<>>
        BY <2>5, <3>1, <3>4, EndedTakesNothing
      <4>2. txn.log \o <<>> = txn.log
        BY <3>1
      <4>. QED  BY <3>2, <4>1, <4>2
    <3>5. txn.call \in Stored /\ MayLink(txn.call, txn.pid)
          /\ txn.pid \in ProviderIds
          /\ txn.row.pid = txn.pid /\ txn.row.key = calls[txn.call].key
          /\ txn.row.provider = calls[txn.call].provider
          /\ txn.row.state # "Absent"
      BY <2>2 DEF TxnInv
    <3>6. ASSUME calls[txn.call].state \in Terminal
          PROVE  Ending(txn'.row, txn'.log) = Ending(calls[txn.call], log[txn.call])
      <4>1. Ending(txn.row, txn.log) = Ending(calls[txn.call], log[txn.call])
        BY <2>2, <3>6 DEF TxnInv
      <4>2. txn.row.state \in Terminal
        BY <3>6, <4>1 DEF Ending
      <4>. QED  BY <3>4, <4>1, <4>2
    <3>7. (txn.call \in Stored)' /\ MayLink(txn.call, txn.pid)'
      BY <2>2, <3>2, <3>5 DEF Stored, MayLink, Holders
    <3>. QED
      BY <2>1, <2>2, <3>2, <3>3, <3>5, <3>6, <3>7 DEF TxnInv, Ending
  <2>. QED  BY <2>3, <2>4, <2>5
<1>8. ASSUME LinkCommit PROVE LinkInv'
  <2>1. txn.call \in Stored /\ MayLink(txn.call, txn.pid)
        /\ txn.pid \in ProviderIds
        /\ txn.row.pid = txn.pid /\ txn.row.key = calls[txn.call].key
    BY <1>8 DEF LinkCommit, TxnInv
  <2>2. /\ calls' \in [CallIds -> Row]
        /\ \A e \in CallIds \ {txn.call} : calls'[e] = calls[e]
        /\ calls'[txn.call] = txn.row
    BY <1>8, <2>1 DEF LinkCommit, TypeOK, Stored
  <2>3. txn.pid # None
    BY <2>1, StoreAssumption
  <2>4. UniqueLinks'
    BY <2>1, <2>2, <2>3, RelinkUnique
  <2>5. ~Replaying'
    BY <1>8 DEF LinkCommit, NoTxn, Replaying
  <2>. QED  BY <2>4, <2>5 DEF TxnInv
<1>9. ASSUME LinkRollback PROVE LinkInv'
  BY <1>9 DEF LinkRollback, NoTxn, UniqueLinks, Stored, TxnInv, Replaying
<1>10. ASSUME NEW S \in SUBSET CallIds, PurgeTerminal(S) PROVE LinkInv'
  <2>1. \A e \in Stored' : e \in Stored /\ calls'[e] = calls[e]
    BY <1>10 DEF PurgeTerminal, NoCall, Stored
  <2>2. ~Replaying'
    BY <1>10 DEF PurgeTerminal, Unlocked, Replaying
  <2>. QED  BY <2>1, <2>2 DEF UniqueLinks, TxnInv
<1>11. ASSUME NEW cutoff, PurgeUnmatched(cutoff) PROVE LinkInv'
  BY <1>11 DEF PurgeUnmatched, Unlocked, Replaying, UniqueLinks, Stored, TxnInv
<1>12. CASE UNCHANGED vars
  BY <1>12 DEF vars, UniqueLinks, Stored, TxnInv, Replaying, MayLink, Holders, Ending
<1>. QED
  BY <1>1, <1>2, <1>3, <1>4, <1>5, <1>6, <1>7, <1>8, <1>9, <1>10, <1>11,
     <1>12 DEF Next, Report

LEMMA LinksHold == Spec => []LinkInv
<1>1. Init => LinkInv
  BY DEF Init, NoCall, NoTxn, LinkInv, UniqueLinks, TxnInv, Stored, Replaying
<1>. QED  BY <1>1, LinkStep, TypeCorrect, PTL DEF Spec

(* No two calls share a provider call or an idempotency key, for any       *)
(* number of calls, in whatever order they are begun, registered, linked,  *)
(* reported on, replayed to and purged.                                    *)
THEOREM LinksAreUnique == Spec => []UniqueLinks
<1>1. LinkInv => UniqueLinks
  BY DEF LinkInv
<1>. QED  BY <1>1, LinksHold, PTL

(* A row's UUID was drawn once, so nothing is ever inserted over a row.    *)
Issued == Stored \subseteq issued

LEMMA IssuedStep ==
  TypeOK /\ LinkInv /\ Issued /\ [Next]_vars => Issued'
<1>. SUFFICES ASSUME TypeOK, LinkInv, Issued, [Next]_vars PROVE Issued'
  OBVIOUS
<1>a. ASSUME Stored' \subseteq Stored, issued' = issued PROVE Issued'
  BY <1>a DEF Issued
<1>1. ASSUME NEW c \in CallIds, NEW state, NEW rows, NEW provider,
             NEW interview, NEW pid, NEW key,
             Insert(c, state, rows, provider, interview, pid, key)
      PROVE  Issued'
  <2>1. \A e \in CallIds : e # c => calls'[e] = calls[e]
    BY <1>1 DEF Insert, TypeOK
  <2>2. issued' = issued \cup {c}
    BY <1>1 DEF Insert
  <2>. QED  BY <2>1, <2>2 DEF Issued, Stored
<1>2. ASSUME calls' = calls, issued' = issued PROVE Issued'
  BY <1>2 DEF Issued, Stored
<1>3. ASSUME NEW d \in Stored, NEW new, calls' = [calls EXCEPT ![d] = new],
             issued' = issued
      PROVE  Issued'
  <2>1. \A e \in CallIds : e # d => calls'[e] = calls[e]
    BY <1>3 DEF TypeOK
  <2>. QED  BY <1>3, <2>1 DEF Issued, Stored
<1>4. ASSUME NEW S \in SUBSET CallIds, PurgeTerminal(S) PROVE Issued'
  BY <1>4 DEF PurgeTerminal, NoCall, Issued, Stored
<1>5. CASE LinkCommit
  BY <1>3, <1>5 DEF LinkCommit, LinkInv, TxnInv
<1>6. ASSUME NEW d \in CallIds, NEW provider, NEW c, NEW pid, NEW n,
             \/ ApplyDuplicate(d, provider, c, pid, n)
             \/ ApplyState(d, provider, c, pid, n)
      PROVE  Issued'
  <2>1. d \in Stored
    BY <1>6 DEF ApplyDuplicate, ApplyState, Accepts, Lookup, Holders
  <2>2. issued' = issued
    BY <1>6 DEF ApplyDuplicate, ApplyState
  <2>3. \E new : calls' = [calls EXCEPT ![d] = new]
    BY <1>6 DEF ApplyDuplicate, ApplyState
  <2>. QED  BY <1>3, <2>1, <2>2, <2>3
<1>. QED
  BY <1>1, <1>2, <1>4, <1>5, <1>6, ZenonT(60)
  DEF Next, Report, BeginCall, RegisterInbound, StoreUnmatched, LinkBegin,
      ReplayEvent, LinkRollback, PurgeUnmatched, vars

KeptOrGone(c) == Outcome(c)' = Outcome(c) \/ calls'[c] = NoCall

EndKept == \A c \in CallIds : calls[c].state \in Terminal => KeptOrGone(c)

LEMMA EndStep ==
  TypeOK /\ LinkInv /\ Issued /\ [Next]_vars => EndKept
<1>. SUFFICES ASSUME TypeOK, LinkInv, Issued, [Next]_vars,
                     NEW e \in CallIds, calls[e].state \in Terminal
              PROVE  KeptOrGone(e)
  BY DEF EndKept
<1>0. calls[e].state # "Absent" /\ e \in Stored
  BY DEF Terminal, Stored
<1>a. calls[e] \in Row /\ log[e] \in Seq(LogRow)
  BY DEF TypeOK
<1>b. ASSUME calls'[e] = calls[e], log'[e] = log[e] PROVE KeptOrGone(e)
  BY <1>b DEF KeptOrGone, Outcome
<1>1. ASSUME NEW c \in CallIds, NEW state, NEW rows, NEW provider,
             NEW interview, NEW pid, NEW key,
             Insert(c, state, rows, provider, interview, pid, key)
      PROVE  KeptOrGone(e)
  <2>1. calls'[e] = calls[e] /\ log'[e] = log[e]
    BY <1>0, <1>1 DEF Insert, TypeOK, Issued
  <2>. QED  BY <2>1, <1>b
<1>2. CASE calls' = calls /\ log' = log
  BY <1>2, <1>b
<1>4. ASSUME NEW d \in CallIds, NEW provider \in Providers,
             NEW c \in CallIds \cup {None}, NEW pid \in ProviderIds \cup {None},
             NEW n \in Notices, ApplyDuplicate(d, provider, c, pid, n)
      PROVE  KeptOrGone(e)
  <2>1. log' = log /\ calls'[e] \in {calls[e], Linked(calls[e], pid)}
    BY <1>4 DEF ApplyDuplicate, TypeOK
  <2>. QED  BY <2>1, <1>a DEF KeptOrGone, Outcome, Linked, Row
<1>5. ASSUME NEW d \in CallIds, NEW provider \in Providers,
             NEW c \in CallIds \cup {None}, NEW pid \in ProviderIds \cup {None},
             NEW n \in Notices, ApplyState(d, provider, c, pid, n)
      PROVE  KeptOrGone(e)
  <2>. DEFINE row == Linked(calls[d], pid)
              plan == PathTo(row.state, n.target)
  <2>1. row \in Row /\ n.seq \in Nat
    BY StoreAssumption DEF Linked, TypeOK, Row, Notice
  <2>2. PICK k \in 0..LongestPlan :
          /\ TakesExactly(row, plan, n.seq, k)
          /\ calls' = [calls EXCEPT ![d] =
               IF k = Len(plan) THEN Advance(row, plan, n.seq, k) ELSE row]
          /\ log' = [log EXCEPT ![d] = @ \o LogRows(plan, n.seq, k)]
    BY <1>5 DEF ApplyState
  <2>3. CASE d # e
    <3>1. calls'[e] = calls[e] /\ log'[e] = log[e]
      BY <2>2, <2>3 DEF TypeOK
    <3>. QED  BY <3>1, <1>b
  <2>4. CASE d = e
    <3>1. /\ row.state = calls[e].state /\ row.version = calls[e].version
          /\ row.last = calls[e].last
      BY <2>4, <1>a DEF Linked, Row
    <3>2. /\ calls'[e] = row \/ calls'[e] = Advance(row, plan, n.seq, k)
          /\ log'[e] = log[e] \o LogRows(plan, n.seq, k)
      BY <2>2, <2>4 DEF TypeOK
    <3>. HIDE DEF row, plan
    <3>3. k \in Nat
      BY DEF LongestPlan
    <3>4. Advance(row, plan, n.seq, k) = row /\ LogRows(plan, n.seq, k) = <<>>
      BY <2>1, <2>2, <3>1, <3>3, EndedTakesNothing
    <3>5. calls'[e] = row /\ log'[e] = log[e]
      BY <3>2, <3>4, <1>a
    <3>. QED  BY <3>1, <3>5 DEF KeptOrGone, Outcome
  <2>. QED  BY <2>3, <2>4
<1>6. CASE LinkCommit
  <2>1. CASE txn.call # e
    <3>1. calls'[e] = calls[e] /\ log'[e] = log[e]
      BY <1>6, <2>1 DEF LinkCommit, TypeOK
    <3>. QED  BY <3>1, <1>b
  <2>2. CASE txn.call = e
    <3>1. Ending(txn.row, txn.log) = Ending(calls[e], log[e])
      BY <1>6, <2>2 DEF LinkCommit, LinkInv, TxnInv
    <3>2. calls'[e] = txn.row /\ log'[e] = txn.log
      BY <1>6, <2>2 DEF LinkCommit, TypeOK
    <3>. QED  BY <3>1, <3>2 DEF KeptOrGone, Ending, Outcome
  <2>. QED  BY <2>1, <2>2
<1>7. ASSUME NEW S \in SUBSET CallIds, PurgeTerminal(S) PROVE KeptOrGone(e)
  <2>1. calls'[e] = NoCall \/ (calls'[e] = calls[e] /\ log'[e] = log[e])
    BY <1>7 DEF PurgeTerminal
  <2>. QED  BY <2>1, <1>b DEF KeptOrGone
<1>8. ASSUME NEW c \in CallIds, NEW provider \in Providers,
             \/ \E interview \in Interviews, key \in Keys \cup {None} :
                  BeginCall(c, provider, interview, key)
             \/ \E pid \in ProviderIds : RegisterInbound(c, provider, pid)
      PROVE  KeptOrGone(e)
  BY <1>1, <1>8 DEF BeginCall, RegisterInbound
<1>9. ASSUME NEW provider \in Providers, NEW c \in CallIds \cup {None},
             NEW pid \in ProviderIds \cup {None}, NEW n \in Notices,
             Report(provider, c, pid, n)
      PROVE  KeptOrGone(e)
  <2>1. CASE StoreUnmatched(provider, c, pid, n)
    BY <1>2, <2>1 DEF StoreUnmatched
  <2>. QED  BY <1>4, <1>5, <1>9, <2>1 DEF Report
<1>10. CASE \/ \E c \in CallIds, pid \in ProviderIds : LinkBegin(c, pid)
            \/ ReplayEvent
            \/ LinkRollback
            \/ \E cutoff \in 1..MaxArrivals + 1 : PurgeUnmatched(cutoff)
            \/ UNCHANGED vars
  BY <1>2, <1>10 DEF LinkBegin, ReplayEvent, LinkRollback, PurgeUnmatched, vars
<1>. QED  BY <1>6, <1>7, <1>8, <1>9, <1>10 DEF Next

(* A call that has ended keeps its state, version, sequence and log until  *)
(* it is purged, for any events, replays and links that still arrive.      *)
THEOREM EndsAreFinal == Spec => EndedIsFinal
<1>1. Init => Issued
  BY DEF Init, NoCall, Issued, Stored
<1>2. Spec => []Issued
  BY <1>1, IssuedStep, LinksHold, TypeCorrect, PTL DEF Spec
<1>3. Spec => [][EndKept]_vars
  BY <1>2, EndStep, LinksHold, TypeCorrect, PTL DEF Spec
<1>. QED  BY <1>3 DEF EndedIsFinal, EndKept, KeptOrGone

(* The states a plan leads to, taken whole or not at all. *)
LEMMA PlanReaches ==
  ASSUME NEW row \in Row, row.state \in CallState, NEW t \in CallState,
         NEW base \in Nat, NEW k \in Nat, k <= Len(PathTo(row.state, t)),
         TakesExactly(row, PathTo(row.state, t), base, k)
  PROVE  /\ Advance(row, PathTo(row.state, t), base, k).state \in Reach(row.state)
         /\ k = 0 => /\ Advance(row, PathTo(row.state, t), base, k) = row
                     /\ LogRows(PathTo(row.state, t), base, k) = <<>>
         /\ k # 0 => /\ k = Len(PathTo(row.state, t))
                     /\ Advance(row, PathTo(row.state, t), base, k).state = t
<1> DEFINE plan == PathTo(row.state, t)
<1>1. CASE k = 0
  <2>1. LogRows(plan, base, k) = <<>>
    BY <1>1, StepTypes
  <2> QED
    BY <1>1, <2>1, ReachIs DEF Advance
<1>2. CASE k # 0
  <2>0. k \in Nat \ {0}
    BY <1>2
  <2>1. k = Len(plan)
    BY <2>0, WholePlanOrNothing
  <2>2. plan # <<>>
    BY <2>0, <2>1
  <2>3. Chain(plan, LongestPlan) /\ plan[1].from = row.state /\ LastHop(plan).to = t
    BY <2>2, PlanIsChain
  <2>4. Advance(row, plan, base, k).state = t
    BY <2>0, <2>1, <2>3 DEF Advance, LastHop, Row
  <2>5. t \in Reach(row.state)
    <3>1. plan \in Seq(Hops) /\ \A i \in 2..k : plan[i].from = plan[i - 1].to
      BY <2>1, <2>3 DEF Chain
    <3>2. k \in 1..5
      <4>1. k <= 5
        BY <2>1, <2>3 DEF Chain, LongestPlan
      <4> QED
        BY <2>0, <4>1
    <3> HIDE DEF plan
    <3>3. \A i \in 1..k : plan[i].from \in CallState /\ plan[i].to \in Reach(plan[i].from)
      <4> TAKE i \in 1..k
      <4>1. plan[i] \in Hops
        BY <3>1, <2>1
      <4> QED
        BY <4>1, HopReaches
    <3>4. \A i \in 1..k : plan[i].to \in Reach(row.state)
      <4>1. plan[1].to \in Reach(row.state)
        BY <2>3, <3>2, <3>3
      <4>2. ASSUME NEW i \in 2..k, plan[i - 1].to \in Reach(row.state)
            PROVE  plan[i].to \in Reach(row.state)
        BY <3>1, <3>3, <4>2, ReachIs
      <4>3. k >= 2 => plan[2].to \in Reach(row.state)
        BY <3>2, <4>1, <4>2
      <4>4. k >= 3 => plan[3].to \in Reach(row.state)
        BY <3>2, <4>2, <4>3
      <4>5. k >= 4 => plan[4].to \in Reach(row.state)
        BY <3>2, <4>2, <4>4
      <4>6. k >= 5 => plan[5].to \in Reach(row.state)
        BY <3>2, <4>2, <4>5
      <4>7. \A i \in 1..k : i = 1 \/ (i = 2 /\ k >= 2) \/ (i = 3 /\ k >= 3)
                         \/ (i = 4 /\ k >= 4) \/ (i = 5 /\ k >= 5)
        BY <3>2
      <4> QED
        BY <4>1, <4>3, <4>4, <4>5, <4>6, <4>7
    <3> QED
      BY <2>1, <2>3, <3>2, <3>4 DEF LastHop, plan
  <2> QED
    BY <2>0, <2>1, <2>4, <2>5
<1> QED
  BY <1>1, <1>2

(* What an event for state t makes of a row, all of its steps or none: it  *)
(* arrives at t if t is ahead and the event is not stale.                  *)
Outcomes(row, t, base) ==
  {new \in Row :
     /\ new.pid = row.pid
     /\ new = row \/ (/\ row.state \notin Terminal /\ new.state = t
                      /\ new.last < base + LongestPlan)
     /\ row.state \notin Terminal /\ t \in Reach(row.state) \ {row.state} /\ base > row.last
          => new.state = t}

LEMMA PlanOutcome ==
  ASSUME NEW row \in Row, row.state \in CallState, NEW t \in CallState,
         NEW base \in Nat, NEW k \in Nat, k <= Len(PathTo(row.state, t)),
         TakesExactly(row, PathTo(row.state, t), base, k)
  PROVE  /\ Advance(row, PathTo(row.state, t), base, k) \in Outcomes(row, t, base)
         /\ k # Len(PathTo(row.state, t)) => Advance(row, PathTo(row.state, t), base, k) = row
<1> DEFINE plan == PathTo(row.state, t)
           new == Advance(row, plan, base, k)
<1>1. new \in Row /\ new.pid = row.pid
  BY StepTypes, AdvanceKeepsLinks
<1>2. /\ k = 0 => new = row
      /\ k # 0 => k = Len(plan) /\ new.state = t
  BY PlanReaches
<1>3. k # 0 => new.last < base + LongestPlan
  <2> SUFFICES ASSUME k # 0  PROVE  new.last < base + LongestPlan
    OBVIOUS
  <2>1. plan # <<>>
    <3> SUFFICES ASSUME plan = <<>>  PROVE  FALSE
      OBVIOUS
    <3>1. Len(plan) = 0
      OBVIOUS
    <3> QED
      BY <1>2, <3>1
  <2>2. k <= LongestPlan
    BY <1>2, <2>1, PlanIsChain DEF Chain
  <2>3. new.last = base + k - 1
    BY DEF Advance, StepSequence, Row
  <2> QED
    BY <2>2, <2>3 DEF LongestPlan
<1>4. ASSUME row.state \notin Terminal, t \in Reach(row.state) \ {row.state}, base > row.last
      PROVE  new.state = t
  <2>1. plan # <<>>
    <3>1. Routes(row.state, t) # {} /\ plan = Shortest(Routes(row.state, t))
      BY <1>4, ReachHasRoute DEF PathTo, Plans
    <3>2. \A r \in Routes(row.state, t) : r # <<>> /\ Len(r) \in Nat /\ Len(r) <= LongestPlan
      BY <1>4, AllWalksChains DEF Routes, Chain
    <3> QED
      BY <3>1, <3>2, ShortestIsRoute
  <2>2. /\ plan \in Seq(Hops) /\ plan[1].from = row.state
    BY <2>1, PlanIsChain DEF Chain
  <2>3. plan[1] \in Hops /\ Len(plan) \in Nat \ {0}
    <3> HIDE DEF plan
    <3> QED
      BY <2>1, <2>2
  <2>4. Takes(row, plan, base, 1)
    BY <1>4, <2>2, <2>3 DEF Takes, StepSequence
  <2>5. k # 0
    BY <2>3, <2>4 DEF TakesExactly
  <2> QED
    BY <1>2, <2>5
<1>5. k # Len(plan) => new = row
  BY <1>2
<1>6. new = row \/ (/\ row.state \notin Terminal /\ new.state = t
                    /\ new.last < base + LongestPlan)
  <2>1. row.state \in Terminal => new = row
    BY EndedTakesNothing
  <2> QED
    BY <1>2, <1>3, <2>1
<1> HIDE DEF new
<1>7. new \in Outcomes(row, t, base)
  BY <1>1, <1>4, <1>6 DEF Outcomes
<1> QED
  BY <1>5, <1>7 DEF new

(* What a report, and the replay of an event, do to the rows.              *)
LEMMA ReportOutcome ==
  ASSUME TypeOK, NEW provider \in Providers, NEW c \in CallIds \cup {None},
         NEW pid \in ProviderIds \cup {None}, NEW n \in Notices,
         Report(provider, c, pid, n)
  PROVE  /\ txn' = txn
         /\ \/ /\ UNCHANGED <<calls, events>> /\ pid # None
               /\ \E u : u.pid = pid /\ u.notice = n /\ unmatched' = unmatched \cup {u}
            \/ /\ unmatched' = unmatched
               /\ \E d \in Stored :
                    /\ MayLink(d, pid)
                    /\ \A e \in CallIds \ {d} : calls'[e] = calls[e] /\ events'[e] = events[e]
                    /\ events'[d] = events[d] \cup {n.id}
                    /\ \/ n.id \in events[d] /\ calls'[d] = Linked(calls[d], pid)
                       \/ calls'[d] \in Outcomes(Linked(calls[d], pid), n.target, n.seq)
<1>1. CASE StoreUnmatched(provider, c, pid, n)
  <2>1. PICK at : unmatched' = unmatched \cup
            {[provider |-> provider, pid |-> pid, notice |-> n, at |-> at]}
    BY <1>1 DEF StoreUnmatched
  <2> QED
    BY <1>1, <2>1 DEF StoreUnmatched
<1>2. ASSUME NEW d \in CallIds, Accepts(d, provider, c, pid)
      PROVE  /\ d \in Stored /\ MayLink(d, pid)
             /\ Linked(calls[d], pid) \in Row /\ Linked(calls[d], pid).state \in CallState
  <2>1. d \in Stored /\ MayLink(d, pid) /\ calls[d] \in Row
    BY <1>2 DEF Accepts, Lookup, Holders, TypeOK
  <2> QED
    BY <2>1 DEF Linked, Row, Stored
<1>3. ASSUME NEW d \in CallIds, ApplyDuplicate(d, provider, c, pid, n)
      PROVE  /\ d \in Stored /\ MayLink(d, pid) /\ UNCHANGED <<events, unmatched, txn>>
             /\ n.id \in events[d] /\ calls'[d] = Linked(calls[d], pid)
             /\ \A e \in CallIds \ {d} : calls'[e] = calls[e]
  BY <1>2, <1>3 DEF ApplyDuplicate, TypeOK
<1>4. ASSUME NEW d \in CallIds, ApplyState(d, provider, c, pid, n)
      PROVE  /\ d \in Stored /\ MayLink(d, pid) /\ UNCHANGED <<unmatched, txn>>
             /\ calls'[d] \in Outcomes(Linked(calls[d], pid), n.target, n.seq)
             /\ events'[d] = events[d] \cup {n.id}
             /\ \A e \in CallIds \ {d} : calls'[e] = calls[e] /\ events'[e] = events[e]
  <2> DEFINE row == Linked(calls[d], pid)
             plan == PathTo(row.state, n.target)
  <2>1. d \in Stored /\ MayLink(d, pid) /\ row \in Row /\ row.state \in CallState
    BY <1>2, <1>4 DEF ApplyState
  <2>2. n.seq \in Nat /\ n.target \in CallState
    BY StoreAssumption DEF Notice
  <2>3. PICK k \in 0..LongestPlan :
          /\ k <= Len(plan) /\ TakesExactly(row, plan, n.seq, k)
          /\ calls' = [calls EXCEPT ![d] =
               IF k = Len(plan) THEN Advance(row, plan, n.seq, k) ELSE row]
    BY <1>4 DEF ApplyState
  <2>4. k \in Nat
    BY DEF LongestPlan
  <2>5. /\ Advance(row, plan, n.seq, k) \in Outcomes(row, n.target, n.seq)
        /\ k # Len(plan) => Advance(row, plan, n.seq, k) = row
    <3> HIDE DEF row
    <3> QED
      BY <2>1, <2>2, <2>3, <2>4, PlanOutcome
  <2>6. /\ UNCHANGED <<unmatched, txn>> /\ events' = [events EXCEPT ![d] = @ \cup {n.id}]
    BY <1>4 DEF ApplyState
  <2> HIDE DEF row, plan
  <2>7. calls'[d] \in Outcomes(row, n.target, n.seq)
    BY <2>3, <2>5 DEF TypeOK
  <2> QED
    BY <2>1, <2>3, <2>6, <2>7 DEF TypeOK, row
<1> QED
  BY <1>1, <1>3, <1>4 DEF Report

LEMMA ReplayOutcome ==
  ASSUME TypeOK, LinkInv, ReplayEvent
  PROVE  /\ Replaying /\ UNCHANGED <<calls, events, unmatched>>
         /\ \E u \in txn.left :
              /\ txn'.events = txn.events \cup {u.notice.id}
              /\ \/ u.notice.id \in txn.events /\ txn'.row = txn.row
                 \/ txn'.row \in Outcomes(txn.row, u.notice.target, u.notice.seq)
<1>1. /\ txn.row \in Row /\ txn.row.state \in CallState /\ txn.left \subseteq Unmatched
      /\ Replaying /\ UNCHANGED <<calls, events, unmatched>>
      /\ txn \in [call : CallIds \cup {None}, pid : ProviderIds \cup {None},
              row : Row, log : Seq(LogRow), events : SUBSET EventIds,
              left : SUBSET Unmatched]
  BY DEF TypeOK, LinkInv, TxnInv, ReplayEvent, Row
<1>2. PICK u \in txn.left :
        IF u.notice.id \in txn.events
        THEN txn' = [txn EXCEPT !.left = @ \ {u}]
        ELSE LET plan == PathTo(txn.row.state, u.notice.target) IN
             \E k \in 0..LongestPlan :
               /\ k <= Len(plan)
               /\ TakesExactly(txn.row, plan, u.notice.seq, k)
               /\ txn' = [txn EXCEPT
                    !.row = Advance(@, plan, u.notice.seq, k),
                    !.log = @ \o LogRows(plan, u.notice.seq, k),
                    !.events = @ \cup {u.notice.id},
                    !.left = @ \ {u}]
  BY DEF ReplayEvent
<1>3. CASE u.notice.id \in txn.events
  BY <1>1, <1>2, <1>3
<1>4. CASE u.notice.id \notin txn.events
  <2> DEFINE plan == PathTo(txn.row.state, u.notice.target)
  <2>1. PICK k \in 0..LongestPlan :
          /\ k <= Len(plan)
          /\ TakesExactly(txn.row, plan, u.notice.seq, k)
          /\ txn' = [txn EXCEPT
               !.row = Advance(@, plan, u.notice.seq, k),
               !.log = @ \o LogRows(plan, u.notice.seq, k),
               !.events = @ \cup {u.notice.id},
               !.left = @ \ {u}]
    BY <1>2, <1>4
  <2>2. k \in Nat /\ u.notice.seq \in Nat /\ u.notice.target \in CallState
    BY <1>1 DEF LongestPlan, Unmatched, Notice
  <2>3. Advance(txn.row, plan, u.notice.seq, k) \in Outcomes(txn.row, u.notice.target, u.notice.seq)
    BY <1>1, <2>1, <2>2, PlanOutcome
  <2> HIDE DEF plan
  <2>4. /\ txn'.row = Advance(txn.row, plan, u.notice.seq, k)
        /\ txn'.events = txn.events \cup {u.notice.id}
    BY <1>1, <2>1
  <2> QED
    BY <1>1, <2>3, <2>4
<1> QED
  BY <1>3, <1>4

(* Inductive: what an open transaction has replayed is in unmatched, and   *)
(* accounts for what it changed.                                           *)
Replayed(row, l, seen, c) ==
  /\ events[c] \subseteq seen
  /\ row.state \in Reach(calls[c].state)
  /\ \/ row.state = calls[c].state /\ l = log[c]
     \/ \E u \in unmatched : u.notice.id \in seen \ events[c] /\ u.notice.target = row.state

TxnRemembers ==
  Replaying => /\ txn.left \subseteq unmatched
               /\ \A u \in txn.left : u.pid = txn.pid
               /\ Replayed(txn.row, txn.log, txn.events, txn.call)

LEMMA RememberStep ==
  TypeOK /\ LinkInv /\ TxnRemembers /\ [Next]_vars => TxnRemembers'
<1> SUFFICES ASSUME TypeOK, LinkInv, TxnRemembers, [Next]_vars  PROVE  TxnRemembers'
  OBVIOUS
<1>1. CASE ~Replaying'
  BY <1>1 DEF TxnRemembers
<1>2. ASSUME NEW c \in CallIds, NEW pid \in ProviderIds, LinkBegin(c, pid)
      PROVE  TxnRemembers'
  <2>1. c \in Stored /\ calls[c] \in Row /\ calls[c].state \in CallState
    BY <1>2 DEF LinkBegin, Stored, TypeOK, Row
  <2>2. Linked(calls[c], pid).state = calls[c].state
    BY <2>1 DEF Linked, Row
  <2>3. /\ txn'.call = c /\ txn'.row = Linked(calls[c], pid) /\ txn'.log = log[c]
        /\ txn'.events = events[c] /\ txn'.left \subseteq unmatched
        /\ txn'.pid = pid /\ \A u \in txn'.left : u.pid = pid
        /\ UNCHANGED <<calls, log, events, unmatched>>
    BY <1>2 DEF LinkBegin, Waiting
  <2> QED
    BY <2>1, <2>2, <2>3, ReachIs DEF TxnRemembers, Replayed
<1>3. CASE ReplayEvent
  <2> DEFINE c == txn.call
  <2>0. /\ c \in Stored /\ c \in CallIds /\ txn.left \subseteq unmatched
        /\ \A u \in txn.left : u.pid = txn.pid
        /\ Replayed(txn.row, txn.log, txn.events, c)
        /\ txn.row.state \in CallState /\ txn.row \in Row /\ calls[c].state \in CallState
        /\ UNCHANGED <<calls, log, events, unmatched>>
    BY <1>3 DEF ReplayEvent, TxnRemembers, LinkInv, TxnInv, Stored, TypeOK, Row
  <2>1. PICK u \in txn.left :
          \/ txn' = [txn EXCEPT !.left = @ \ {u}]
          \/ /\ u.notice.id \notin txn.events
             /\ \E k \in 0..LongestPlan :
                  LET plan == PathTo(txn.row.state, u.notice.target) IN
                  /\ k <= Len(plan)
                  /\ TakesExactly(txn.row, plan, u.notice.seq, k)
                  /\ txn' = [txn EXCEPT
                       !.row = Advance(@, plan, u.notice.seq, k),
                       !.log = @ \o LogRows(plan, u.notice.seq, k),
                       !.events = @ \cup {u.notice.id},
                       !.left = @ \ {u}]
    BY <1>3 DEF ReplayEvent
  <2>2. CASE txn' = [txn EXCEPT !.left = @ \ {u}]
    <3>1. /\ txn'.call = c /\ txn'.pid = txn.pid /\ txn'.row = txn.row /\ txn'.log = txn.log
          /\ txn'.events = txn.events /\ txn'.left = txn.left \ {u}
      BY <2>2 DEF TypeOK
    <3> QED
      BY <2>0, <3>1 DEF TxnRemembers, Replayed
  <2>3. ASSUME NEW k \in 0..LongestPlan, u.notice.id \notin txn.events,
               k <= Len(PathTo(txn.row.state, u.notice.target)),
               TakesExactly(txn.row, PathTo(txn.row.state, u.notice.target), u.notice.seq, k),
               txn' = [txn EXCEPT
                  !.row = Advance(@, PathTo(txn.row.state, u.notice.target), u.notice.seq, k),
                  !.log = @ \o LogRows(PathTo(txn.row.state, u.notice.target), u.notice.seq, k),
                  !.events = @ \cup {u.notice.id},
                  !.left = @ \ {u}]
        PROVE  TxnRemembers'
    <3> DEFINE plan == PathTo(txn.row.state, u.notice.target)
               row == Advance(txn.row, plan, u.notice.seq, k)
               rows == LogRows(plan, u.notice.seq, k)
    <3>0. u.notice.seq \in Nat /\ u.notice.target \in CallState /\ k \in Nat
          /\ txn.log \in Seq(LogRow)
      BY DEF TypeOK, Unmatched, Notice, LongestPlan
    <3>1. /\ row.state \in Reach(txn.row.state)
          /\ k = 0 => row = txn.row /\ rows = <<>>
          /\ k # 0 => row.state = u.notice.target
      BY <2>0, <2>3, <3>0, PlanReaches
    <3>2. /\ txn'.call = c /\ txn'.pid = txn.pid /\ txn'.row = row /\ txn'.log = txn.log \o rows
          /\ txn'.events = txn.events \cup {u.notice.id} /\ txn'.left = txn.left \ {u}
      BY <2>3 DEF TypeOK
    <3> HIDE DEF row, rows, plan
    <3>3. row.state \in Reach(calls[c].state)
      BY <2>0, <3>1, ReachIs DEF Replayed
    <3>4. k = 0 => row.state = txn.row.state /\ txn.log \o rows = txn.log
      BY <3>0, <3>1
    <3>5. /\ events[c] \subseteq txn.events \cup {u.notice.id}
          /\ \/ row.state = calls[c].state /\ txn.log \o rows = log[c]
             \/ \E v \in unmatched : /\ v.notice.id \in (txn.events \cup {u.notice.id}) \ events[c]
                                     /\ v.notice.target = row.state
      <4>1. CASE k = 0
        BY <2>0, <3>4, <4>1 DEF Replayed
      <4>2. CASE k # 0
        <5>1. u \in unmatched /\ u.notice.id \notin events[c] /\ u.notice.target = row.state
          BY <2>0, <2>3, <3>1, <4>2 DEF Replayed
        <5> QED
          BY <2>0, <5>1 DEF Replayed
      <4> QED
        BY <4>1, <4>2
    <3> QED
      BY <2>0, <3>2, <3>3, <3>5 DEF TxnRemembers, Replayed
  <2> QED
    BY <2>1, <2>2, <2>3
<1>4. CASE UNCHANGED vars
  BY <1>4 DEF vars, TxnRemembers, Replayed, Replaying
<1>5. CASE LinkCommit \/ LinkRollback
  BY <1>1, <1>5 DEF LinkCommit, LinkRollback, NoTxn, Replaying
<1>6. CASE Unlocked /\ UNCHANGED txn
  BY <1>1, <1>6 DEF Unlocked, Replaying
<1>7. ASSUME NEW c \in CallIds, NEW provider \in Providers,
             \/ \E interview \in Interviews, key \in Keys \cup {None} :
                  BeginCall(c, provider, interview, key)
             \/ \E pid \in ProviderIds : RegisterInbound(c, provider, pid)
      PROVE  TxnRemembers'
  BY <1>6, <1>7 DEF BeginCall, RegisterInbound, Insert
<1>8. ASSUME NEW provider, NEW c, NEW pid, NEW n, Report(provider, c, pid, n)
      PROVE  TxnRemembers'
  BY <1>6, <1>8 DEF Report, StoreUnmatched, ApplyDuplicate, ApplyState, Accepts
<1>9. CASE \/ \E S \in SUBSET CallIds : PurgeTerminal(S)
           \/ \E cutoff \in 1..MaxArrivals + 1 : PurgeUnmatched(cutoff)
  BY <1>6, <1>9 DEF PurgeTerminal, PurgeUnmatched
<1> QED
  BY <1>2, <1>3, <1>4, <1>5, <1>7, <1>8, <1>9 DEF Next

LEMMA RemembersAlways == Spec => []TxnRemembers
<1>1. Init => TxnRemembers
  BY DEF Init, NoTxn, TxnRemembers, Replaying
<1> QED
  BY <1>1, RememberStep, LinksHold, TypeCorrect, PTL DEF Spec

CountsOnce(c) ==
  /\ events[c] \subseteq events'[c]
  /\ log'[c] # log[c] =>
       \/ \E n \in Notices : Explains(n, c)
       \/ \E u \in unmatched : Explains(u.notice, c)

LEMMA OnceStep ==
  TypeOK /\ LinkInv /\ Issued /\ TxnRemembers /\ [Next]_vars =>
    \A c \in Stored : c \in Stored' => CountsOnce(c)
<1> SUFFICES ASSUME TypeOK, LinkInv, Issued, TxnRemembers, [Next]_vars,
                    NEW e \in Stored, e \in Stored'
             PROVE  CountsOnce(e)
  OBVIOUS
<1>0. e \in CallIds /\ log[e] \in Seq(LogRow) /\ calls[e] \in Row /\ calls[e].state \in CallState
      /\ calls'[e].state # "Absent"
  BY DEF Stored, TypeOK, Row
<1>1. CASE events'[e] = events[e] /\ log'[e] = log[e]
  BY <1>1 DEF CountsOnce
<1>2. ASSUME NEW c \in CallIds, NEW state, NEW rows, NEW provider,
             NEW interview, NEW pid, NEW key,
             Insert(c, state, rows, provider, interview, pid, key)
      PROVE  CountsOnce(e)
  BY <1>0, <1>1, <1>2 DEF Insert, Issued, TypeOK
<1>3. ASSUME NEW d \in CallIds, NEW provider \in Providers,
             NEW c \in CallIds \cup {None}, NEW pid \in ProviderIds \cup {None},
             NEW n \in Notices, ApplyState(d, provider, c, pid, n)
      PROVE  CountsOnce(e)
  <2> DEFINE row == Linked(calls[d], pid)
             plan == PathTo(row.state, n.target)
  <2>1. row \in Row /\ n.seq \in Nat /\ n.target \in CallState
    BY StoreAssumption DEF Linked, TypeOK, Row, Notice
  <2>2. PICK k \in 0..LongestPlan :
          /\ k <= Len(plan)
          /\ TakesExactly(row, plan, n.seq, k)
          /\ calls' = [calls EXCEPT ![d] =
               IF k = Len(plan) THEN Advance(row, plan, n.seq, k) ELSE row]
          /\ log' = [log EXCEPT ![d] = @ \o LogRows(plan, n.seq, k)]
    BY <1>3 DEF ApplyState
  <2>3. CASE d # e
    BY <1>0, <1>1, <1>3, <2>2, <2>3 DEF ApplyState, TypeOK
  <2>4. CASE d = e
    <3>1. row.state = calls[e].state /\ row.state \in CallState
      BY <2>4, <1>0 DEF Linked, Row
    <3>2. /\ calls'[e] = IF k = Len(plan) THEN Advance(row, plan, n.seq, k) ELSE row
          /\ log'[e] = log[e] \o LogRows(plan, n.seq, k)
          /\ events'[e] = events[e] \cup {n.id} /\ n.id \notin events[e]
      BY <1>3, <2>2, <2>4 DEF TypeOK, ApplyState
    <3>3. k \in Nat
      BY DEF LongestPlan
    <3> HIDE DEF row
    <3>4. /\ k = 0 => LogRows(plan, n.seq, k) = <<>>
          /\ k # 0 => k = Len(plan) /\ Advance(row, plan, n.seq, k).state = n.target
      BY <2>1, <2>2, <3>1, <3>3, PlanReaches
    <3> HIDE DEF plan
    <3>5. k = 0 => log'[e] = log[e]
      <4>1. log[e] \o <<>> = log[e]
        BY <1>0
      <4> QED
        BY <3>2, <3>4, <4>1
    <3>6. k # 0 => Explains(n, e)
      BY <3>2, <3>4 DEF Explains
    <3> QED
      BY <3>2, <3>5, <3>6 DEF CountsOnce
  <2> QED
    BY <2>3, <2>4
<1>4. CASE LinkCommit
  <2>1. CASE txn.call # e
    BY <1>0, <1>1, <1>4, <2>1 DEF LinkCommit, TypeOK
  <2>2. CASE txn.call = e
    <3>1. Replayed(txn.row, txn.log, txn.events, e)
      BY <1>4, <2>2 DEF LinkCommit, TxnRemembers
    <3>2. calls'[e] = txn.row /\ log'[e] = txn.log /\ events'[e] = txn.events
      BY <1>0, <1>4, <2>2 DEF LinkCommit, TypeOK
    <3> QED
      BY <3>1, <3>2 DEF Replayed, CountsOnce, Explains
  <2> QED
    BY <2>1, <2>2
<1>5. ASSUME NEW S \in SUBSET CallIds, PurgeTerminal(S)  PROVE  CountsOnce(e)
  BY <1>0, <1>1, <1>5 DEF PurgeTerminal, NoCall
<1>6. CASE UNCHANGED <<events, log>>
  BY <1>1, <1>6
<1>7. ASSUME NEW c \in CallIds, NEW provider \in Providers,
             \/ \E interview \in Interviews, key \in Keys \cup {None} :
                  BeginCall(c, provider, interview, key)
             \/ \E pid \in ProviderIds : RegisterInbound(c, provider, pid)
      PROVE  CountsOnce(e)
  BY <1>2, <1>7 DEF BeginCall, RegisterInbound
<1>8. ASSUME NEW provider \in Providers, NEW c \in CallIds \cup {None},
             NEW pid \in ProviderIds \cup {None}, NEW n \in Notices,
             Report(provider, c, pid, n)
      PROVE  CountsOnce(e)
  BY <1>3, <1>6, <1>8 DEF Report, StoreUnmatched, ApplyDuplicate
<1>9. CASE \/ \E c \in CallIds, pid \in ProviderIds : LinkBegin(c, pid)
           \/ ReplayEvent \/ LinkRollback
           \/ \E cutoff \in 1..MaxArrivals + 1 : PurgeUnmatched(cutoff)
           \/ UNCHANGED vars
  BY <1>6, <1>9 DEF LinkBegin, ReplayEvent, LinkRollback, PurgeUnmatched, vars
<1> QED
  BY <1>4, <1>5, <1>7, <1>8, <1>9 DEF Next

LEMMA IssuedAlways == Spec => []Issued
<1>1. Init => Issued
  BY DEF Init, NoCall, Issued, Stored
<1> QED
  BY <1>1, IssuedStep, LinksHold, TypeCorrect, PTL DEF Spec

(* A call's history grows only by events not recorded before, the last of  *)
(* which is the reason for its state, whether they came on time or were    *)
(* replayed.  CallStore: EachEventOnce.                                    *)
THEOREM EventsCountOnce == Spec => EachEventOnce
<1> DEFINE Once == \A c \in Stored : c \in Stored' => CountsOnce(c)
<1>1. Spec => [][Once]_vars
  <2>1. TypeOK /\ LinkInv /\ Issued /\ TxnRemembers /\ [Next]_vars => [Once]_vars
    BY OnceStep
  <2> QED
    BY <2>1, IssuedAlways, RemembersAlways, LinksHold, TypeCorrect, PTL DEF Spec
<1> QED
  BY <1>1 DEF EachEventOnce, CountsOnce

(* What apply_state and the commit of a link have in common: a call learns *)
(* of new events and perhaps of its provider call.                         *)
Learns(d, new, pid) ==
  /\ d \in Stored /\ MayLink(d, pid) /\ pid \in ProviderIds \cup {None}
  /\ new \subseteq EventIds /\ new \cap events[d] = {}
  /\ events' = [events EXCEPT ![d] = @ \cup new]
  /\ \A e \in CallIds \ {d} : calls'[e] = calls[e]
  /\ calls'[d].state \in Reach(calls[d].state)
  /\ new = {} => calls'[d].state = calls[d].state
  /\ calls'[d].pid = IF pid = None THEN calls[d].pid ELSE pid
  /\ calls'[d].key = calls[d].key /\ calls'[d].provider = calls[d].provider
  /\ issued' = issued

Notes(d, n) == events'[d] = events[d] \cup {n.id}

LEMMA ReportLearns ==
  ASSUME TypeOK, NEW provider \in Providers, NEW c \in CallIds \cup {None},
         NEW pid \in ProviderIds \cup {None}, NEW n \in Notices,
         Report(provider, c, pid, n)
  PROVE  \/ StoreUnmatched(provider, c, pid, n) /\ UNCHANGED <<issued, calls, events>>
         \/ \E d \in CallIds, new \in SUBSET EventIds :
              /\ Learns(d, new, pid)
              /\ d \in Lookup(c, pid) /\ Notes(d, n)
              /\ UNCHANGED <<unmatched, txn>>
<1>1. ASSUME NEW d \in CallIds, Accepts(d, provider, c, pid)
      PROVE  /\ d \in Stored /\ MayLink(d, pid) /\ calls[d] \in Row /\ calls[d].state \in CallState
             /\ Linked(calls[d], pid) \in Row
             /\ Linked(calls[d], pid).state = calls[d].state
             /\ Linked(calls[d], pid).pid = IF pid = None THEN calls[d].pid ELSE pid
             /\ Linked(calls[d], pid).key = calls[d].key
             /\ Linked(calls[d], pid).provider = calls[d].provider
  <2>1. d \in Stored /\ MayLink(d, pid) /\ calls[d] \in Row
    BY <1>1 DEF Accepts, Lookup, Holders, TypeOK
  <2> QED
    BY <2>1 DEF Linked, Row, Stored
<1>2. ASSUME NEW d \in CallIds, ApplyDuplicate(d, provider, c, pid, n)
      PROVE  Learns(d, {}, pid)
  <2>1. Accepts(d, provider, c, pid)
    BY <1>2 DEF ApplyDuplicate
  <2>2. events' = [events EXCEPT ![d] = @ \cup {}] /\ issued' = issued
    BY <1>2 DEF ApplyDuplicate, TypeOK
  <2>3. calls' = [calls EXCEPT ![d] = Linked(calls[d], pid)]
    BY <1>2 DEF ApplyDuplicate
  <2> QED
    BY <1>1, <2>1, <2>2, <2>3, ReachIs DEF Learns, TypeOK
<1>3. ASSUME NEW d \in CallIds, ApplyState(d, provider, c, pid, n)
      PROVE  Learns(d, {n.id}, pid)
  <2> DEFINE row == Linked(calls[d], pid)
             plan == PathTo(row.state, n.target)
  <2>1. Accepts(d, provider, c, pid)
    BY <1>3 DEF ApplyState
  <2>2. /\ d \in Stored /\ MayLink(d, pid) /\ calls[d].state \in CallState
        /\ row \in Row /\ row.state = calls[d].state
        /\ row.pid = IF pid = None THEN calls[d].pid ELSE pid
        /\ row.key = calls[d].key /\ row.provider = calls[d].provider
    BY <1>1, <2>1
  <2>3. n.seq \in Nat /\ n.target \in CallState /\ n.id \in EventIds
    BY StoreAssumption DEF Notice
  <2>4. PICK k \in 0..LongestPlan :
          /\ k <= Len(plan)
          /\ TakesExactly(row, plan, n.seq, k)
          /\ calls' = [calls EXCEPT ![d] =
               IF k = Len(plan) THEN Advance(row, plan, n.seq, k) ELSE row]
    BY <1>3 DEF ApplyState
  <2>5. k \in Nat
    BY DEF LongestPlan
  <2> DEFINE new == IF k = Len(plan) THEN Advance(row, plan, n.seq, k) ELSE row
  <2>6. /\ Advance(row, plan, n.seq, k).state \in Reach(row.state)
        /\ Advance(row, plan, n.seq, k).pid = row.pid
        /\ Advance(row, plan, n.seq, k).key = row.key
        /\ Advance(row, plan, n.seq, k).provider = row.provider
    <3> HIDE DEF row
    <3> QED
      BY <2>2, <2>3, <2>4, <2>5, PlanReaches, AdvanceKeepsLinks
  <2>7. /\ new.state \in Reach(calls[d].state) /\ new.pid = row.pid
        /\ new.key = row.key /\ new.provider = row.provider
    BY <2>2, <2>6, ReachIs
  <2>8. calls'[d] = new /\ \A e \in CallIds \ {d} : calls'[e] = calls[e]
    BY <2>4 DEF TypeOK
  <2>9. /\ events' = [events EXCEPT ![d] = @ \cup {n.id}] /\ issued' = issued
        /\ n.id \notin events[d]
    BY <1>3 DEF ApplyState
  <2> HIDE DEF row, plan, new
  <2> QED
    BY <2>2, <2>3, <2>7, <2>8, <2>9 DEF Learns
<1>4. CASE StoreUnmatched(provider, c, pid, n)
  BY <1>4 DEF StoreUnmatched
<1>5. ASSUME NEW d \in CallIds,
             ApplyDuplicate(d, provider, c, pid, n) \/ ApplyState(d, provider, c, pid, n)
      PROVE  /\ d \in Lookup(c, pid) /\ Notes(d, n)
             /\ UNCHANGED <<unmatched, txn>>
  BY <1>5 DEF Notes, ApplyDuplicate, ApplyState, Accepts, TypeOK
<1>6. {n.id} \in SUBSET EventIds
  BY StoreAssumption DEF Notice
<1> QED
  BY <1>2, <1>3, <1>4, <1>5, <1>6 DEF Report

LEMMA CommitLearns ==
  ASSUME TypeOK, LinkInv, TxnRemembers, LinkCommit
  PROVE  \E d \in CallIds, new \in SUBSET EventIds, pid \in ProviderIds : Learns(d, new, pid)
<1> DEFINE d == txn.call
           new == txn.events \ events[d]
<1>1. /\ d \in Stored /\ d \in CallIds /\ MayLink(d, txn.pid) /\ txn.pid \in ProviderIds
      /\ txn.row.pid = txn.pid /\ txn.row.key = calls[d].key
      /\ txn.row.provider = calls[d].provider /\ Replayed(txn.row, txn.log, txn.events, d)
  BY DEF LinkCommit, LinkInv, TxnInv, TxnRemembers, Stored
<1>2. txn.pid # None
  BY <1>1, StoreAssumption
<1>3. /\ calls'[d] = txn.row /\ \A e \in CallIds \ {d} : calls'[e] = calls[e]
      /\ issued' = issued /\ events' = [events EXCEPT ![d] = txn.events]
  BY <1>1 DEF LinkCommit, TypeOK
<1>4. events' = [events EXCEPT ![d] = @ \cup new]
  <2>1. events[d] \cup new = txn.events
    BY <1>1 DEF Replayed
  <2> QED
    BY <1>3, <2>1
<1>5. new = {} => txn.row.state = calls[d].state
  BY <1>1 DEF Replayed
<1>6. new \subseteq EventIds /\ new \cap events[d] = {}
  BY DEF TypeOK
<1>7. Learns(d, new, txn.pid)
  <2> HIDE DEF new, d
  <2> QED
    BY <1>1, <1>2, <1>3, <1>4, <1>5, <1>6 DEF Learns, Replayed
<1> QED
  BY <1>1, <1>6, <1>7

-----------------------------------------------------------------------------
(* The store implements the call register.                                 *)

(* Where there is no row there is no link and no event. *)
AbsentUnlinked == \A c \in CallIds \ Stored : calls[c].pid = None /\ events[c] = {}

RefInv == TypeOK /\ LinkInv /\ Issued /\ AuditInv /\ TxnRemembers /\ AbsentUnlinked

StatusNow == [c \in CallIds |-> IF c \in issued /\ c \notin Stored
                                THEN "Gone" ELSE calls[c].state]
OwnerNow == [c \in CallIds |-> calls[c].pid]

LEMMA SameHops == Register!Hops = Hops
BY DEF Register!Hops, Hops, Register!CallState, CallState, Register!Terminal, Terminal,
   Register!CallTransition, CallTransition, Register!TRANSITIONS, TRANSITIONS,
   Register!Transition, Transition

LEMMA SameStates == /\ Register!CallState = CallState /\ Register!Terminal = Terminal
BY DEF Register!CallState, CallState, Register!Terminal, Terminal

LEMMA SameWalks == Register!AllWalks = AllWalks
<1>1. \A ws : Register!Longer(ws) = Longer(ws)
  BY SameHops DEF Register!Longer, Longer, Register!LastHop, LastHop
<1>2. Register!Single = Single
  BY SameHops DEF Register!Single, Single
<1> QED
  BY <1>1, <1>2 DEF Register!AllWalks, AllWalks

LEMMA ReachIsAhead ==
  ASSUME NEW s \in CallState  PROVE  Reach(s) \subseteq Register!Ahead[s]
<1>1. \A t \in CallState : Register!Routes(s, t) = Routes(s, t)
  BY SameWalks DEF Register!Routes, Routes, Register!LastHop, LastHop
<1>2. Register!Ahead[s] = {s} \cup {t \in CallState : Routes(s, t) # {}}
  BY <1>1, SameStates DEF Register!Ahead
<1> QED
  BY <1>2, ReachIs, ReachHasRoute

LEMMA LivingStored ==
  ASSUME TypeOK
  PROVE  /\ Register!Living = Stored
         /\ StatusNow \in [CallIds -> CallState \cup {"Absent", "Gone"}]
         /\ \A c \in Stored : StatusNow[c] = calls[c].state /\ calls[c].state \in CallState
         /\ \A c \in CallIds : \A pid :
              calls[c].pid \in {None, pid} /\ (\A d \in Stored \ {c} : calls[d].pid # pid)
                => Register!MayOwn(c, pid)
<1>1. "Gone" \notin CallState /\ "Absent" \notin CallState
  BY DEF CallState, Terminal
<1>2. \A c \in CallIds : calls[c].state \in CallState \cup {"Absent"}
  BY DEF TypeOK, Row
<1>3. \A c \in CallIds : StatusNow[c] = IF c \in issued /\ c \notin Stored THEN "Gone" ELSE calls[c].state
  BY DEF StatusNow
<1>4. \A c \in CallIds : StatusNow[c] \in CallState <=> c \in Stored
  BY <1>1, <1>2, <1>3 DEF Stored
<1>5. Register!Living = {c \in CallIds : StatusNow[c] \in CallState}
  BY SameStates DEF Register!Living, StatusNow
<1>6. Register!Living = Stored
  BY <1>4, <1>5 DEF Stored
<1>7. \A c \in CallIds : \A pid :
        calls[c].pid \in {None, pid} /\ (\A d \in Stored \ {c} : calls[d].pid # pid)
          => Register!MayOwn(c, pid)
  BY <1>6 DEF Register!MayOwn, Stored
<1> QED
  BY <1>1, <1>2, <1>3, <1>6, <1>7 DEF StatusNow, Stored

LEMMA CreatesStep ==
  ASSUME RefInv, TypeOK', NEW c \in CallIds, NEW state, NEW rows, NEW provider,
         NEW interview, NEW pid \in ProviderIds \cup {None}, NEW key,
         Insert(c, state, rows, provider, interview, pid, key),
         \/ state = "Initiating" /\ pid = None
         \/ state = "Active" /\ pid \in ProviderIds /\ Holders(pid) = {}
  PROVE  Register!Create(c)
<1>1. /\ c \notin issued /\ c \notin Stored /\ calls[c].state = "Absent" /\ calls[c].pid = None
  BY DEF Insert, RefInv, Issued, AbsentUnlinked, Stored
<1>2. /\ calls'[c].state = state /\ calls'[c].pid = pid
      /\ \A d \in CallIds \ {c} : calls'[d] = calls[d]
      /\ issued' = issued \cup {c} /\ events' = events
  BY DEF Insert, RefInv, TypeOK
<1>3. state # "Absent" /\ c \in Stored'
  BY <1>2 DEF Stored
<1>4. StatusNow' = [StatusNow EXCEPT ![c] = state]
  BY <1>1, <1>2, <1>3 DEF StatusNow, Stored
<1>5. OwnerNow' = [OwnerNow EXCEPT ![c] = pid]
  BY <1>2 DEF OwnerNow
<1>6. StatusNow[c] = "Absent" /\ OwnerNow[c] = None
  BY <1>1 DEF StatusNow, OwnerNow
<1>7. CASE state = "Initiating" /\ pid = None
  <2>1. OwnerNow' = OwnerNow
    BY <1>5, <1>6, <1>7 DEF OwnerNow
  <2> QED
    BY <1>2, <1>4, <1>6, <1>7, <2>1 DEF Register!Create, StatusNow, OwnerNow
<1>8. CASE state = "Active" /\ pid \in ProviderIds /\ Holders(pid) = {}
  <2>1. pid # None
    BY <1>8, StoreAssumption
  <2>2. Register!MayOwn(c, pid)
    BY <1>1, <1>8, <2>1, LivingStored DEF RefInv, Holders
  <2> QED
    BY <1>2, <1>4, <1>5, <1>6, <1>8, <2>2 DEF Register!Create, StatusNow, OwnerNow
<1> QED
  BY <1>7, <1>8

LEMMA LearnsStep ==
  ASSUME RefInv, TypeOK', NEW d \in CallIds, NEW new \in SUBSET EventIds,
         NEW pid \in ProviderIds \cup {None}, Learns(d, new, pid)
  PROVE  Register!Learn(d, new)
<1>1. /\ d \in Stored /\ calls[d].state \in CallState /\ StatusNow[d] = calls[d].state
      /\ Register!Living = Stored
  BY LivingStored DEF Learns, RefInv
<1>2. \A e \in CallIds : e \in Stored' <=> e \in Stored
  <2>1. calls'[d].state # "Absent"
    BY <1>1, ReachIs DEF Learns, CallState, Terminal
  <2> QED
    BY <1>1, <2>1 DEF Learns, Stored
<1>3. StatusNow' = [StatusNow EXCEPT ![d] = calls'[d].state]
  BY <1>1, <1>2 DEF StatusNow, Learns, Stored
<1>4. calls'[d].state \in Register!Ahead[StatusNow[d]]
  BY <1>1, ReachIsAhead DEF Learns
<1>5. CASE pid = None
  <2>1. OwnerNow' = OwnerNow
    BY <1>5 DEF OwnerNow, Learns
  <2> QED
    BY <1>1, <1>3, <1>4, <2>1 DEF Register!Learn, Learns, StatusNow, OwnerNow
<1>6. CASE pid # None
  <2>1. OwnerNow' = [OwnerNow EXCEPT ![d] = pid]
    BY <1>6 DEF OwnerNow, Learns
  <2>2. Register!MayOwn(d, pid)
    BY <1>6, LivingStored DEF RefInv, Learns, MayLink, Holders
  <2> QED
    BY <1>1, <1>3, <1>4, <1>6, <2>1, <2>2 DEF Register!Learn, Learns, StatusNow, OwnerNow
<1> QED
  BY <1>5, <1>6

LEMMA ForgetsStep ==
  ASSUME RefInv, TypeOK', NEW S \in SUBSET CallIds, PurgeTerminal(S)
  PROVE  Register!Forget(S)
<1>1. /\ S \subseteq Stored /\ \A c \in S : calls[c].ended
      /\ calls' = [c \in CallIds |-> IF c \in S THEN NoCall ELSE calls[c]]
      /\ events' = [c \in CallIds |-> IF c \in S THEN {} ELSE events[c]]
      /\ issued' = issued
  BY DEF PurgeTerminal
<1>2. \A c \in S : calls[c].state \in Terminal /\ c \in issued
  BY <1>1 DEF RefInv, AuditInv, AuditMatchesRow, Agrees, Issued
<1>3. Stored' = Stored \ S
  BY <1>1 DEF Stored, NoCall
<1>4. StatusNow' = [c \in CallIds |-> IF c \in S THEN "Gone" ELSE StatusNow[c]]
  BY <1>1, <1>2, <1>3 DEF StatusNow
<1>5. OwnerNow' = [c \in CallIds |-> IF c \in S THEN None ELSE OwnerNow[c]]
  BY <1>1 DEF OwnerNow, NoCall
<1>6. S \subseteq {c \in Register!Living : StatusNow[c] \in Register!Terminal}
  BY <1>1, <1>2, LivingStored, SameStates DEF RefInv
<1> QED
  BY <1>1, <1>4, <1>5, <1>6 DEF Register!Forget, StatusNow, OwnerNow

LEMMA LearnsStored ==
  ASSUME TypeOK, NEW d \in CallIds, NEW new, NEW pid, Learns(d, new, pid)
  PROVE  Stored' = Stored
<1>1. calls[d].state \in CallState
  BY DEF Learns, Stored, TypeOK, Row
<1>2. "Absent" \notin CallState
  BY DEF CallState, Terminal
<1>3. calls'[d].state # "Absent"
  BY <1>1, <1>2, ReachIs DEF Learns
<1> QED
  BY <1>3 DEF Learns, Stored

LEMMA UnlinkedStep ==
  TypeOK /\ TypeOK' /\ LinkInv /\ TxnRemembers /\ AbsentUnlinked /\ [Next]_vars => AbsentUnlinked'
<1> SUFFICES ASSUME TypeOK, TypeOK', LinkInv, TxnRemembers, AbsentUnlinked, [Next]_vars
             PROVE  AbsentUnlinked'
  OBVIOUS
<1>1. CASE calls' = calls /\ events' = events
  BY <1>1 DEF AbsentUnlinked, Stored
<1>2. ASSUME NEW c \in CallIds, NEW state \in CallState, NEW rows, NEW provider,
             NEW interview, NEW pid, NEW key,
             Insert(c, state, rows, provider, interview, pid, key)
      PROVE  AbsentUnlinked'
  <2>1. state # "Absent"
    BY DEF CallState, Terminal
  <2> QED
    BY <1>2, <2>1 DEF AbsentUnlinked, Stored, Insert, TypeOK
<1>3. ASSUME NEW d \in CallIds, NEW new, NEW pid, Learns(d, new, pid)
      PROVE  AbsentUnlinked'
  <2>1. \A c \in CallIds \ Stored : calls'[c] = calls[c] /\ events'[c] = events[c]
    BY <1>3 DEF Learns
  <2> QED
    BY <1>3, <2>1, LearnsStored DEF AbsentUnlinked
<1>4. ASSUME NEW S \in SUBSET CallIds, PurgeTerminal(S)  PROVE  AbsentUnlinked'
  BY <1>4 DEF AbsentUnlinked, PurgeTerminal, Stored, NoCall
<1>5. ASSUME NEW c \in CallIds, NEW provider \in Providers,
             \/ \E interview \in Interviews, key \in Keys \cup {None} :
                  BeginCall(c, provider, interview, key)
             \/ \E pid \in ProviderIds : RegisterInbound(c, provider, pid)
      PROVE  AbsentUnlinked'
  <2>1. "Initiating" \in CallState /\ "Active" \in CallState
    BY DEF CallState
  <2> QED
    BY <1>2, <1>5, <2>1 DEF BeginCall, RegisterInbound
<1>6. ASSUME NEW provider \in Providers, NEW c \in CallIds \cup {None},
             NEW pid \in ProviderIds \cup {None}, NEW n \in Notices,
             Report(provider, c, pid, n)
      PROVE  AbsentUnlinked'
  BY <1>1, <1>3, <1>6, ReportLearns
<1>7. CASE LinkCommit
  BY <1>3, <1>7, CommitLearns
<1>8. CASE \/ \E c \in CallIds, pid \in ProviderIds : LinkBegin(c, pid)
           \/ ReplayEvent \/ LinkRollback
           \/ \E cutoff \in 1..MaxArrivals + 1 : PurgeUnmatched(cutoff)
           \/ UNCHANGED vars
  BY <1>1, <1>8 DEF LinkBegin, ReplayEvent, LinkRollback, PurgeUnmatched, vars
<1> QED
  BY <1>4, <1>5, <1>6, <1>7, <1>8 DEF Next

(* What no step changes of a call that stays: its key, its provider, a link *)
(* that is made, the events recorded.  A call that comes is new.           *)
RowsKept ==
  /\ issued \subseteq issued'
  /\ \A c \in Stored : c \in Stored' =>
       /\ calls'[c].key = calls[c].key /\ calls'[c].provider = calls[c].provider
       /\ calls[c].pid # None => calls'[c].pid = calls[c].pid
       /\ events[c] \subseteq events'[c]
  /\ \A c \in CallIds \ Stored : c \in Stored' =>
       c \in issued' \ issued /\ events'[c] = {} /\ calls'[c].provider \in Providers

LEMMA RowsKeep ==
  RefInv /\ [Next]_vars => RowsKept
<1> SUFFICES ASSUME TypeOK, LinkInv, TxnRemembers, Issued, AbsentUnlinked, [Next]_vars
             PROVE  RowsKept
  BY DEF RefInv
<1>1. CASE UNCHANGED <<issued, calls, events>>
  BY <1>1 DEF RowsKept, Stored
<1>2. ASSUME NEW c \in CallIds, NEW state, NEW rows, NEW provider \in Providers,
             NEW interview, NEW pid, NEW key,
             Insert(c, state, rows, provider, interview, pid, key)
      PROVE  RowsKept
  BY <1>2 DEF RowsKept, AbsentUnlinked, Issued, Stored, Insert, TypeOK
<1>3. ASSUME NEW d \in CallIds, NEW new, NEW pid, Learns(d, new, pid)
      PROVE  RowsKept
  BY <1>3 DEF RowsKept, Learns, Stored, MayLink, TypeOK
<1>4. ASSUME NEW S \in SUBSET CallIds, PurgeTerminal(S)  PROVE  RowsKept
  BY <1>4 DEF RowsKept, PurgeTerminal, Stored, NoCall
<1>5. ASSUME NEW c \in CallIds, NEW provider \in Providers,
             \/ \E interview \in Interviews, key \in Keys \cup {None} :
                  BeginCall(c, provider, interview, key)
             \/ \E pid \in ProviderIds : RegisterInbound(c, provider, pid)
      PROVE  RowsKept
  BY <1>2, <1>5 DEF BeginCall, RegisterInbound
<1>6. ASSUME NEW provider \in Providers, NEW c \in CallIds \cup {None},
             NEW pid \in ProviderIds \cup {None}, NEW n \in Notices,
             Report(provider, c, pid, n)
      PROVE  RowsKept
  BY <1>1, <1>3, <1>6, ReportLearns
<1>7. CASE LinkCommit
  BY <1>3, <1>7, CommitLearns
<1>8. CASE \/ \E c \in CallIds, pid \in ProviderIds : LinkBegin(c, pid)
           \/ ReplayEvent \/ LinkRollback
           \/ \E cutoff \in 1..MaxArrivals + 1 : PurgeUnmatched(cutoff)
           \/ UNCHANGED vars
  BY <1>1, <1>8 DEF LinkBegin, ReplayEvent, LinkRollback, PurgeUnmatched, vars
<1> QED
  BY <1>4, <1>5, <1>6, <1>7, <1>8 DEF Next

RegisterVars == <<StatusNow, events, OwnerNow>>

LEMMA RegisterStep ==
  RefInv /\ TypeOK' /\ [Next]_vars => Register!Next \/ UNCHANGED RegisterVars
<1> SUFFICES ASSUME RefInv, TypeOK', [Next]_vars
             PROVE  Register!Next \/ UNCHANGED RegisterVars
  OBVIOUS
<1>1. CASE UNCHANGED <<issued, calls, events>>
  BY <1>1 DEF RegisterVars, StatusNow, OwnerNow, Stored
<1>2. ASSUME NEW c \in CallIds, NEW provider \in Providers,
             \/ \E interview \in Interviews, key \in Keys \cup {None} :
                  BeginCall(c, provider, interview, key)
             \/ \E pid \in ProviderIds : RegisterInbound(c, provider, pid)
      PROVE  Register!Next
  <2>1. Register!Create(c)
    BY <1>2, CreatesStep DEF BeginCall, RegisterInbound
  <2> QED
    BY <2>1 DEF Register!Next
<1>3. ASSUME NEW d \in CallIds, NEW new \in SUBSET EventIds,
             NEW pid \in ProviderIds \cup {None}, Learns(d, new, pid)
      PROVE  Register!Next
  BY <1>3, LearnsStep DEF Register!Next
<1>4. ASSUME NEW S \in SUBSET CallIds, PurgeTerminal(S)  PROVE  Register!Next
  BY <1>4, ForgetsStep DEF Register!Next
<1>5. ASSUME NEW provider \in Providers, NEW c \in CallIds \cup {None},
             NEW pid \in ProviderIds \cup {None}, NEW n \in Notices,
             Report(provider, c, pid, n)
      PROVE  Register!Next \/ UNCHANGED RegisterVars
  BY <1>1, <1>3, <1>5, ReportLearns DEF RefInv
<1>6. CASE LinkCommit
  BY <1>3, <1>6, CommitLearns DEF RefInv
<1>7. CASE \/ \E c \in CallIds, pid \in ProviderIds : LinkBegin(c, pid)
           \/ ReplayEvent \/ LinkRollback
           \/ \E cutoff \in 1..MaxArrivals + 1 : PurgeUnmatched(cutoff)
           \/ UNCHANGED vars
  BY <1>1, <1>7 DEF LinkBegin, ReplayEvent, LinkRollback, PurgeUnmatched, vars
<1> QED
  BY <1>2, <1>4, <1>5, <1>6, <1>7 DEF Next

LEMMA RefHolds == Spec => []RefInv
<1>1. Init => AbsentUnlinked /\ AuditInv
  BY DEF Init, NoCall, NoTxn, AbsentUnlinked, Stored, AuditInv, AuditMatchesRow, Replaying
<1>2. Spec => []AuditInv
  BY <1>1, AuditStep, TypeCorrect, PTL DEF Spec
<1>3. Spec => []AbsentUnlinked
  BY <1>1, UnlinkedStep, RemembersAlways, LinksHold, TypeCorrect, PTL DEF Spec
<1>4. TypeOK /\ LinkInv /\ Issued /\ AuditInv /\ TxnRemembers /\ AbsentUnlinked => RefInv
  BY DEF RefInv
<1> QED
  BY <1>2, <1>3, <1>4, RemembersAlways, IssuedAlways, LinksHold, TypeCorrect, PTL

(* The store keeps the promises of the call register: initial states map   *)
(* to initial states, every step to a step or a stutter, the replay of     *)
(* many stored events to one step.  CallStore: ImplementsRegister.         *)
THEOREM StoreImplementsRegister == Spec => ImplementsRegister
<1>1. Init => Register!Init
  BY DEF Init, NoCall, Register!Init, Stored
<1>2. RefInv /\ TypeOK' /\ [Next]_vars => [Register!Next]_Register!vars
  BY RegisterStep DEF Register!vars, RegisterVars, StatusNow, OwnerNow
<1> QED
  BY <1>1, <1>2, RefHolds, TypeCorrect, PTL DEF Spec, ImplementsRegister, Register!Spec
=============================================================================
