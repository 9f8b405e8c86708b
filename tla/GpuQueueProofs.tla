----------------------------- MODULE GpuQueueProofs -----------------------------
(***************************************************************************)
(* The ticket lock, for every set of threads, cap and ticket bound: its    *)
(* invariants, and that it implements the line of Admission, in which      *)
(* requests are served in the order in which they took their tickets.      *)
(***************************************************************************)
EXTENDS GpuQueue, SequenceTheorems, TLAPS

(* Where the tickets of the requests in line can be, and that no two       *)
(* requests in line hold the same one.                                     *)
TicketsInRange ==
  \A t \in Threads : InLine(t) => serving <= ticket[t] /\ ticket[t] < next

TicketsDistinct ==
  \A t, u \in Threads : InLine(t) /\ InLine(u) /\ ticket[t] = ticket[u] => t = u

RunnerIsServed == \A t \in Threads : pc[t] = "running" => ticket[t] = serving

TicketsHeld ==
  \A k \in serving .. (next - 1) : \E t \in Threads : InLine(t) /\ ticket[t] = k

(* The inductive invariant behind the theorems of this module.             *)
IInv ==
  /\ TypeOK
  /\ serving <= next
  /\ TicketsInRange
  /\ TicketsDistinct
  /\ RunnerIsServed
  /\ TicketsHeld
  /\ NoLostWakeup

--------------------------------------------------------------------------------
(* What each step does to the line, stated once for the induction.         *)

LEMMA InitIInv == Init => IInv
BY CapAssumption DEF Init, IInv, TypeOK, Stages, TicketsInRange, TicketsDistinct,
   RunnerIsServed, TicketsHeld, NoLostWakeup, InLine, WaitingOrRunning

LEMMA PassCapKeepsIInv ==
  ASSUME IInv, NEW t \in Threads, PassCap(t) PROVE IInv'
BY DEF IInv, PassCap, Goto, TypeOK, Stages, TicketsInRange, TicketsDistinct,
   RunnerIsServed, TicketsHeld, NoLostWakeup, InLine, WaitingOrRunning

LEMMA TakeTicketKeepsIInv ==
  ASSUME IInv, NEW t \in Threads, TakeTicket(t) PROVE IInv'
<1> USE DEF IInv, TypeOK, InLine, WaitingOrRunning
<1>1. TypeOK'
  BY DEF TakeTicket, Goto, Stages
<1>2. (serving <= next)'
  BY DEF TakeTicket
<1>3. TicketsInRange'
  BY DEF TakeTicket, Goto, TicketsInRange
<1>4. TicketsDistinct'
  BY DEF TakeTicket, Goto, TicketsInRange, TicketsDistinct
<1>5. RunnerIsServed'
  BY DEF TakeTicket, Goto, RunnerIsServed
<1>6. TicketsHeld'
  <2> SUFFICES ASSUME NEW k \in serving .. next
               PROVE  \E u \in Threads : InLine(u)' /\ ticket'[u] = k
    BY DEF TakeTicket, TicketsHeld
  <2>1. CASE k = next
    BY <2>1 DEF TakeTicket, Goto
  <2>2. CASE k \in serving .. (next - 1)
    <3>1. PICK u \in Threads : InLine(u) /\ ticket[u] = k
      BY <2>2 DEF TicketsHeld
    <3>2. u # t
      BY <3>1 DEF TakeTicket
    <3> QED
      BY <3>1, <3>2 DEF TakeTicket, Goto
  <2> QED
    BY <2>1, <2>2
<1>7. NoLostWakeup'
  <2> SUFFICES ASSUME NEW u \in Threads, pc'[u] = "parked", ticket'[u] = serving'
               PROVE  \E v \in Threads : pc'[v] = "notifying"
    BY DEF NoLostWakeup
  <2>1. u # t
    BY DEF TakeTicket, Goto
  <2>2. PICK v \in Threads : pc[v] = "notifying"
    BY <2>1 DEF TakeTicket, Goto, NoLostWakeup
  <2> QED
    BY <2>2 DEF TakeTicket, Goto
<1> QED
  BY <1>1, <1>2, <1>3, <1>4, <1>5, <1>6, <1>7

LEMMA RetestKeepsIInv ==
  ASSUME IInv, NEW t \in Threads, Retest(t) PROVE IInv'
<1> USE DEF IInv, TypeOK, InLine, WaitingOrRunning
<1>1. TypeOK' /\ (serving <= next)'
  BY DEF Retest, Goto, Stages
<1>2. TicketsInRange' /\ TicketsDistinct' /\ RunnerIsServed'
  BY DEF Retest, Goto, TicketsInRange, TicketsDistinct, RunnerIsServed
<1>3. TicketsHeld'
  BY DEF Retest, Goto, TicketsHeld
<1>4. NoLostWakeup'
  BY DEF Retest, Goto, NoLostWakeup
<1> QED
  BY <1>1, <1>2, <1>3, <1>4

LEMMA SpuriousWakeupKeepsIInv ==
  ASSUME IInv, NEW t \in Threads, SpuriousWakeup(t) PROVE IInv'
BY DEF IInv, SpuriousWakeup, Goto, TypeOK, Stages, TicketsInRange,
   TicketsDistinct, RunnerIsServed, TicketsHeld, NoLostWakeup, InLine,
   WaitingOrRunning

LEMMA ReleaseKeepsIInv ==
  ASSUME IInv, NEW t \in Threads, Release(t) PROVE IInv'
<1> USE DEF IInv, TypeOK, InLine, WaitingOrRunning
<1>1. ticket[t] = serving /\ serving < next
  BY DEF Release, RunnerIsServed, TicketsInRange
<1>2. TypeOK' /\ (serving <= next)'
  BY <1>1 DEF Release, Goto, Stages
<1>3. TicketsInRange'
  BY <1>1 DEF Release, Goto, TicketsInRange, TicketsDistinct
<1>4. TicketsDistinct'
  BY DEF Release, Goto, TicketsDistinct
<1>5. RunnerIsServed'
  BY <1>1 DEF Release, Goto, RunnerIsServed, TicketsDistinct
<1>6. TicketsHeld'
  <2> SUFFICES ASSUME NEW k \in (serving + 1) .. (next - 1)
               PROVE  \E u \in Threads : InLine(u)' /\ ticket'[u] = k
    BY DEF Release, TicketsHeld
  <2>1. PICK u \in Threads : InLine(u) /\ ticket[u] = k
    BY DEF TicketsHeld
  <2>2. u # t
    BY <1>1, <2>1
  <2> QED
    BY <2>1, <2>2 DEF Release, Goto
<1>7. NoLostWakeup'
  BY DEF Release, Goto, NoLostWakeup
<1> QED
  BY <1>2, <1>3, <1>4, <1>5, <1>6, <1>7

LEMMA NotifyAllKeepsIInv ==
  ASSUME IInv, NEW t \in Threads, NotifyAll(t) PROVE IInv'
<1> USE DEF IInv, TypeOK, InLine, WaitingOrRunning
<1>1. \A u \in Threads : InLine(u)' <=> InLine(u)
  BY DEF NotifyAll
<1>2. TypeOK' /\ (serving <= next)'
  BY DEF NotifyAll, Stages
<1>3. TicketsInRange' /\ TicketsDistinct' /\ RunnerIsServed'
  BY DEF NotifyAll, TicketsInRange, TicketsDistinct, RunnerIsServed
<1>4. TicketsHeld'
  BY <1>1 DEF NotifyAll, TicketsHeld
<1>5. NoLostWakeup'
  BY DEF NotifyAll, NoLostWakeup
<1> QED
  BY <1>2, <1>3, <1>4, <1>5

LEMMA NextKeepsIInv == IInv /\ [Next]_vars => IInv'
<1> SUFFICES ASSUME IInv, [Next]_vars PROVE IInv'
  OBVIOUS
<1>1. ASSUME UNCHANGED vars PROVE IInv'
  BY <1>1 DEF vars, IInv, TypeOK, TicketsInRange, TicketsDistinct,
     RunnerIsServed, TicketsHeld, NoLostWakeup, InLine
<1>2. ASSUME NEW t \in Threads, Step(t) PROVE IInv'
  <2>1. CASE PassCap(t) BY <2>1, PassCapKeepsIInv
  <2>2. CASE Refuse(t) BY <2>2, <1>1 DEF Refuse
  <2>3. CASE TakeTicket(t) BY <2>3, TakeTicketKeepsIInv
  <2>4. CASE Retest(t) BY <2>4, RetestKeepsIInv
  <2>5. CASE SpuriousWakeup(t) BY <2>5, SpuriousWakeupKeepsIInv
  <2>6. CASE Release(t) BY <2>6, ReleaseKeepsIInv
  <2>7. CASE NotifyAll(t) BY <2>7, NotifyAllKeepsIInv
  <2> QED
    BY <1>2, <2>1, <2>2, <2>3, <2>4, <2>5, <2>6, <2>7 DEF Step
<1>3. CASE Exhausted
  BY <1>1, <1>3 DEF Exhausted
<1> QED
  BY <1>1, <1>2, <1>3 DEF Next

(* The inductive invariant holds of every behaviour of the ticket lock.    *)
THEOREM Inductive == Spec => []IInv
BY InitIInv, NextKeepsIInv, PTL DEF Spec

--------------------------------------------------------------------------------

(* The counters stay naturals and the threads stay at known stages.        *)
THEOREM TypeCorrect == Spec => []TypeOK
BY Inductive, PTL DEF IInv

(* At most one connection thread holds a GpuPermit, whatever the number of *)
(* threads, the cap and the interleaving of acquire, wakeups and drops.    *)
THEOREM Exclusive == Spec => []MutualExclusion
<1>1. IInv => MutualExclusion
  BY DEF IInv, MutualExclusion, TicketsDistinct, RunnerIsServed, InLine,
     WaitingOrRunning
<1> QED
  BY <1>1, Inductive, PTL

(* Every ticket still to be served is held by exactly one request in line. *)
THEOREM NoneAbandoned == Spec => []NoTicketAbandoned
<1>1. IInv => NoTicketAbandoned
  BY DEF IInv, NoTicketAbandoned, TicketsHeld, TicketsDistinct
<1> QED
  BY <1>1, Inductive, PTL

(* The request whose turn it is is never left parked without a notifier.   *)
THEOREM NoneSleepsThrough == Spec => []NoLostWakeup
BY Inductive, PTL DEF IInv

--------------------------------------------------------------------------------
(* The line of Admission.                                                  *)

Line == LineFrom(serving, Depth)
Running == \E t \in Threads : pc[t] = "running"

(* The i-th thread of a sequence holds the i-th ticket to be served.       *)
Queues(s) ==
  /\ s \in Seq(Threads) /\ Len(s) = Depth
  /\ \A i \in 1 .. Depth : InLine(s[i]) /\ ticket[s[i]] = serving + i - 1

LEMMA LineQueues == IInv => Queues(Line)
<1> SUFFICES ASSUME IInv PROVE Queues(Line)
  OBVIOUS
<1>1. Depth \in Nat
  BY DEF IInv, TypeOK, Depth
<1>2. ASSUME NEW i \in 1 .. Depth
      PROVE  Line[i] \in Threads /\ InLine(Line[i]) /\ ticket[Line[i]] = serving + i - 1
  <2>1. serving + i - 1 \in serving .. (next - 1)
    BY <1>1 DEF IInv, TypeOK, Depth
  <2>2. \E t \in Threads : InLine(t) /\ ticket[t] = serving + i - 1
    BY <2>1 DEF IInv, TicketsHeld
  <2>3. Line[i] = CHOOSE t \in Threads : InLine(t) /\ ticket[t] = serving + i - 1
    BY DEF Line, LineFrom
  <2> QED
    BY <2>2, <2>3
<1>3. Line = [i \in 1 .. Depth |-> Line[i]]
  BY DEF Line, LineFrom
<1>4. Line \in [1 .. Depth -> Threads]
  BY <1>2, <1>3
<1>5. Line \in Seq(Threads) /\ Len(Line) = Depth
  BY <1>1, <1>4
<1> QED
  BY <1>2, <1>5 DEF Queues

LEMMA NextLineQueues == IInv' => Queues(Line)'
BY LineQueues, PTL

(* There is only one such sequence: two of them agree everywhere.          *)
LEMMA LineIs ==
  ASSUME IInv', NEW s \in Seq(Threads), Len(s) = Depth',
         \A i \in 1 .. Len(s) : pc'[s[i]] \in WaitingOrRunning /\ ticket'[s[i]] = serving' + i - 1
  PROVE  Line' = s
<1>1. Queues(Line)'
  BY NextLineQueues
<1>2. Line' \in Seq(Threads) /\ Len(Line') = Len(s)
  BY <1>1 DEF Queues
<1>3. ASSUME NEW i \in 1 .. Len(s) PROVE Line'[i] = s[i]
  <2>1. InLine(Line[i])' /\ ticket'[Line'[i]] = serving' + i - 1
    BY <1>1 DEF Queues
  <2>2. Line'[i] \in Threads /\ s[i] \in Threads
    BY <1>2, ElementOfSeq
  <2> QED
    BY <2>1, <2>2 DEF IInv, TicketsDistinct, InLine
<1> QED
  BY <1>2, <1>3, SeqEqual

--------------------------------------------------------------------------------
(* What each step does to the line.                                        *)

LEMMA NextKeepsIInvOnce == ASSUME IInv, NEW t \in Threads, Step(t) PROVE IInv'
BY NextKeepsIInv DEF Next

(* Steps after which the same threads hold the same tickets.               *)
LEMMA SameLine ==
  ASSUME IInv, IInv', UNCHANGED <<next, serving, ticket>>,
         \A t \in Threads : InLine(t) <=> InLine(t)'
  PROVE  Line' = Line
<1>1. Queues(Line)
  BY LineQueues
<1>2. Line \in Seq(Threads) /\ Len(Line) = Depth' /\ Depth' = Depth
  BY <1>1 DEF Queues, Depth
<1>3. ASSUME NEW i \in 1 .. Len(Line)
      PROVE  pc'[Line[i]] \in WaitingOrRunning /\ ticket'[Line[i]] = serving' + i - 1
  <2>1. InLine(Line[i]) /\ ticket[Line[i]] = serving + i - 1
    BY <1>1, <1>2 DEF Queues
  <2>2. Line[i] \in Threads
    BY <1>2, ElementOfSeq
  <2> QED
    BY <2>1, <2>2 DEF InLine
<1> QED
  BY <1>2, <1>3, LineIs

LEMMA OnlyRunnerRuns ==
  ASSUME IInv, NEW t \in Threads, NEW u \in Threads, pc[u] = "running",
         InLine(t), ticket[t] = serving
  PROVE  u = t
BY DEF IInv, TicketsDistinct, RunnerIsServed, InLine, WaitingOrRunning

(* A new ticket is the last one; it is served at once in an empty line.    *)
LEMMA TakeTicketJoins ==
  ASSUME IInv, NEW t \in Threads, TakeTicket(t)
  PROVE  A!JoinEmpty(t) \/ A!JoinBehind(t)
<1>1. IInv'
  BY TakeTicketKeepsIInv
<1>2. Queues(Line)
  BY LineQueues
<1>3. /\ Line \in Seq(Threads) /\ Len(Line) = Depth /\ Depth \in Nat /\ Depth' = Depth + 1
      /\ ticket' = [ticket EXCEPT ![t] = next] /\ serving' = serving /\ ~ InLine(t)
      /\ pc' = [pc EXCEPT ![t] = IF serving = next THEN "running" ELSE "parked"]
  BY <1>2 DEF IInv, TypeOK, Queues, Depth, TakeTicket, Goto, InLine, WaitingOrRunning
<1>4. \A i \in 1 .. Depth : InLine(Line[i]) /\ ticket[Line[i]] = serving + i - 1
                            /\ Line[i] \in Threads /\ Line[i] # t
  BY <1>2, <1>3, ElementOfSeq DEF Queues
<1>5. Line' = Append(Line, t)
  <2> DEFINE s == Append(Line, t)
  <2>1. /\ s \in Seq(Threads) /\ Len(s) = Depth + 1 /\ s[Depth + 1] = t
        /\ \A i \in 1 .. Depth : s[i] = Line[i]
    BY <1>3, AppendProperties
  <2>2. ASSUME NEW i \in 1 .. Len(s)
        PROVE  pc'[s[i]] \in WaitingOrRunning /\ ticket'[s[i]] = serving' + i - 1
    <3>1. CASE i = Depth + 1
      <4>1. s[i] = t
        BY <2>1, <3>1
      <4>2. pc'[t] \in WaitingOrRunning /\ ticket'[t] = next
        BY <1>3 DEF IInv, TypeOK, InLine, WaitingOrRunning
      <4>3. next = serving' + i - 1
        BY <1>3, <3>1 DEF IInv, TypeOK, Depth
      <4> QED
        BY <4>1, <4>2, <4>3
    <3>2. CASE i # Depth + 1
      <4>1. i \in 1 .. Depth
        BY <1>3, <2>1, <3>2
      <4>2. s[i] = Line[i] /\ InLine(Line[i]) /\ ticket[Line[i]] = serving + i - 1
            /\ Line[i] \in Threads /\ Line[i] # t
        BY <1>4, <2>1, <4>1
      <4>3. ticket'[Line[i]] = ticket[Line[i]] /\ pc'[Line[i]] = pc[Line[i]]
        BY <1>3, <4>2 DEF IInv, TypeOK
      <4> QED
        BY <1>3, <4>2, <4>3 DEF InLine
    <3> QED
      BY <3>1, <3>2
  <2>3. Len(s) = Depth'
    BY <1>3, <2>1
  <2> HIDE DEF s
  <2>4. Line' = s
    BY <1>1, <2>1, <2>2, <2>3, LineIs
  <2> QED
    BY <2>4 DEF s
<1>6. CASE serving = next
  <2>1. Line = <<>>
    BY <1>3, <1>6, EmptySeq DEF IInv, TypeOK, Depth
  <2>2. Running'
    BY <1>3, <1>6 DEF Running, IInv, TypeOK
  <2>3. Line' = <<t>>
    BY <1>5, <2>1
  <2> QED
    BY <2>1, <2>2, <2>3 DEF A!JoinEmpty, Line, Running
<1>7. CASE serving # next
  <2>1. Line # <<>>
    BY <1>3, <1>7 DEF IInv, TypeOK, Depth
  <2>2. \A i \in DOMAIN Line : Line[i] # t
    BY <1>3, <1>4
  <2>3. Running' = Running
    BY <1>3, <1>7 DEF Running, IInv, TypeOK, InLine, WaitingOrRunning
  <2> QED
    BY <1>5, <2>1, <2>2, <2>3 DEF A!JoinBehind, A!InLine, Line, Running
<1> QED
  BY <1>6, <1>7

(* A thread that finds its ticket served is granted; any other waits on.   *)
LEMMA RetestGrants ==
  ASSUME IInv, NEW t \in Threads, Retest(t)
  PROVE  A!Grant \/ UNCHANGED <<Line, Running>>
<1>1. IInv'
  BY RetestKeepsIInv
<1>2. /\ pc[t] = "woken" /\ UNCHANGED <<next, serving, ticket>>
      /\ pc' = [pc EXCEPT ![t] = IF serving = ticket[t] THEN "running" ELSE "parked"]
  BY DEF Retest, Goto
<1>3. Line' = Line
  <2>1. \A u \in Threads : InLine(u) <=> InLine(u)'
    BY <1>2 DEF IInv, TypeOK, InLine, WaitingOrRunning
  <2> QED
    BY <1>1, <1>2, <2>1, SameLine
<1>4. CASE serving = ticket[t]
  <2>1. InLine(t)
    BY <1>2 DEF InLine, WaitingOrRunning
  <2>2. ~ Running
    BY <1>2, <1>4, <2>1, OnlyRunnerRuns DEF Running
  <2>3. Running'
    BY <1>2, <1>4 DEF Running, IInv, TypeOK
  <2>4. Line # <<>>
    <3>1. serving < next
      BY <1>4, <2>1 DEF IInv, TicketsInRange
    <3>2. Len(Line) = Depth
      BY LineQueues DEF Queues
    <3>3. Len(Line) # 0
      BY <3>1, <3>2 DEF Depth, IInv, TypeOK
    <3> QED
      BY <3>3, EmptySeq
  <2> QED
    BY <1>3, <2>2, <2>3, <2>4 DEF A!Grant, Line, Running
<1>5. CASE serving # ticket[t]
  <2>1. Running' = Running
    BY <1>2, <1>5 DEF Running, IInv, TypeOK
  <2> QED
    BY <1>3, <2>1
<1> QED
  BY <1>4, <1>5

(* The runner is the head of the line and the only one to leave.           *)
LEMMA ReleaseLeaves ==
  ASSUME IInv, NEW t \in Threads, Release(t) PROVE A!Leave
<1>1. IInv'
  BY ReleaseKeepsIInv
<1>2. /\ pc[t] = "running" /\ InLine(t) /\ ticket[t] = serving /\ serving < next
      /\ serving' = serving + 1 /\ next' = next /\ ticket' = ticket
      /\ pc' = [pc EXCEPT ![t] = "notifying"]
  BY DEF Release, Goto, IInv, RunnerIsServed, TicketsInRange, InLine, WaitingOrRunning
<1>3. Queues(Line)
  BY LineQueues
<1>4. Line \in Seq(Threads) /\ Len(Line) = Depth /\ Depth \in Nat \ {0} /\ Depth' = Depth - 1
  BY <1>2, <1>3 DEF IInv, TypeOK, Queues, Depth
<1>5. Line # <<>>
  BY <1>4, EmptySeq
<1>6. Line' = Tail(Line)
  <2> DEFINE s == Tail(Line)
  <2>1. s \in Seq(Threads) /\ Len(s) = Depth - 1 /\ \A i \in 1 .. Len(s) : s[i] = Line[i + 1]
    BY <1>4, <1>5, HeadTailProperties
  <2>2. ASSUME NEW i \in 1 .. Len(s)
        PROVE  pc'[s[i]] \in WaitingOrRunning /\ ticket'[s[i]] = serving' + i - 1
    <3>1. i + 1 \in 1 .. Depth /\ i \in Nat
      BY <1>4, <2>1
    <3>2. InLine(Line[i + 1]) /\ ticket[Line[i + 1]] = serving + (i + 1) - 1 /\ s[i] = Line[i + 1]
      BY <1>3, <2>1, <3>1 DEF Queues
    <3>3. Line[i + 1] \in Threads
      BY <1>4, <3>1, ElementOfSeq
    <3>4. ticket[Line[i + 1]] = serving' + i - 1 /\ serving' + i - 1 # serving
      BY <1>2, <3>1, <3>2 DEF IInv, TypeOK
    <3>5. Line[i + 1] # t
      BY <1>2, <3>4
    <3> QED
      BY <1>2, <3>2, <3>3, <3>4, <3>5 DEF InLine, IInv, TypeOK
  <2>3. Len(s) = Depth'
    BY <1>4, <2>1
  <2> HIDE DEF s
  <2>4. Line' = s
    BY <1>1, <2>1, <2>2, <2>3, LineIs
  <2> QED
    BY <2>4 DEF s
<1>7. Running /\ ~ Running'
  <2>1. \A u \in Threads : pc[u] = "running" => u = t
    BY <1>2, OnlyRunnerRuns
  <2> QED
    BY <1>2, <2>1 DEF Running, IInv, TypeOK
<1> QED
  BY <1>5, <1>6, <1>7 DEF A!Leave, Line, Running
--------------------------------------------------------------------------------
(* Init and Next under the mapping.                                        *)

LEMMA InitMaps == Init => A!AInit
<1> SUFFICES ASSUME Init PROVE A!AInit
  OBVIOUS
<1>1. Queues(Line) /\ Depth = 0
  BY InitIInv, LineQueues DEF Init, Depth
<1>2. Line = <<>>
  BY <1>1, EmptySeq DEF Queues
<1>3. Running = FALSE
  BY DEF Init, Running
<1> QED
  BY <1>2, <1>3 DEF A!AInit, Line, Running

LEMMA StepMaps == IInv /\ [Next]_vars => [A!ANext]_(A!avars)
<1> SUFFICES ASSUME IInv, [Next]_vars PROVE [A!ANext]_(A!avars)
  OBVIOUS
<1>0. IInv'
  BY NextKeepsIInv
<1>1. ASSUME UNCHANGED <<next, serving, ticket>>,
             \A t \in Threads : InLine(t) <=> InLine(t)',
             \A t \in Threads : pc[t] = "running" <=> pc'[t] = "running"
      PROVE  UNCHANGED A!avars
  <2>1. Line' = Line
    BY <1>0, <1>1, SameLine
  <2>2. Running' = Running
    BY <1>1 DEF Running
  <2> QED
    BY <2>1, <2>2 DEF A!avars, Line, Running
<1>2. ASSUME NEW t \in Threads, Step(t) PROVE [A!ANext]_(A!avars)
  <2>1. CASE PassCap(t) \/ Refuse(t) \/ SpuriousWakeup(t) \/ NotifyAll(t)
    <3>1. UNCHANGED <<next, serving, ticket>>
      BY <2>1 DEF PassCap, Refuse, SpuriousWakeup, NotifyAll, vars
    <3>2. \A u \in Threads : (InLine(u) <=> InLine(u)')
                             /\ (pc[u] = "running" <=> pc'[u] = "running")
      BY <2>1 DEF PassCap, Refuse, SpuriousWakeup, NotifyAll, vars, Goto, InLine,
         WaitingOrRunning, IInv, TypeOK
    <3> QED
      BY <1>1, <3>1, <3>2
  <2>2. CASE TakeTicket(t)
    BY <2>2, TakeTicketJoins DEF A!ANext
  <2>3. CASE Retest(t)
    BY <2>3, RetestGrants DEF A!ANext, A!avars, Line, Running
  <2>4. CASE Release(t)
    BY <2>4, ReleaseLeaves DEF A!ANext
  <2> QED
    BY <1>2, <2>1, <2>2, <2>3, <2>4 DEF Step
<1>3. CASE Exhausted \/ UNCHANGED vars
  BY <1>1, <1>3 DEF Exhausted, vars, InLine
<1> QED
  BY <1>2, <1>3 DEF Next

(* First come, first served: whatever the number of threads and tickets,   *)
(* every behaviour of the ticket lock is a behaviour of the line, in which *)
(* the GPU belongs to the head and everyone else keeps his place.          *)
THEOREM ServedInOrder == Spec => A!ASpec
BY InitMaps, StepMaps, Inductive, PTL DEF Spec, A!ASpec
================================================================================
