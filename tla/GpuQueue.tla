-------------------------------- MODULE GpuQueue --------------------------------
(***************************************************************************)
(* The FIFO ticket lock that gates the GPU (src/src/api.rs, mod queue).    *)
(*                                                                         *)
(* Every access to State{next, serving} is made while its Mutex is held,   *)
(* and Condvar::wait releases that Mutex and parks in one step, so each    *)
(* critical section of the code is one action here.  What is NOT atomic in *)
(* the code is not atomic here: try_acquire reads the depth and drops the  *)
(* lock before acquire takes a ticket, and a permit's Drop releases the    *)
(* lock before it calls notify_all.                                        *)
(***************************************************************************)
EXTENDS Naturals, FiniteSets

CONSTANTS
  Threads,     \* connection threads; each may come back with a new request
  Cap,         \* CIMA_MAX_QUEUE, 0 when unbounded
  MaxTickets   \* bound of the model: tickets handed out in one run

ASSUME ThreadsAssumption == IsFiniteSet(Threads)
ASSUME CapAssumption == Cap \in Nat
ASSUME MaxTicketsAssumption == MaxTickets \in Nat

VARIABLES
  next,     \* next ticket to hand out
  serving,  \* ticket currently allowed to run
  pc,       \* where each thread stands
  ticket    \* the ticket in each thread's hands (meaningful while in line)

vars == <<next, serving, pc, ticket>>

(* The operators whose names end in OffByOne, Barging, GiveUp, Backwards   *)
(* and NotifyOne are bugs the code does not have; they only show that the  *)
(* properties below can tell.                                              *)
Stages == {"idle",      \* no request, or refused
           "admitted",  \* passed the cap check of try_acquire, no ticket yet
           "parked",    \* inside cv.wait
           "woken",     \* notified, about to retake the mutex and re-test
           "running",   \* holds the GpuPermit
           "notifying"} \* serving advanced, notify_all not called yet

WaitingOrRunning == {"parked", "woken", "running"}

Depth == next - serving

Init ==
  /\ next = 0
  /\ serving = 0
  /\ pc = [t \in Threads |-> "idle"]
  /\ ticket = [t \in Threads |-> 0]

Goto(t, stage) == pc' = [pc EXCEPT ![t] = stage]

(* try_acquire below the cap: the lock is dropped when this block ends.    *)
PassCap(t) ==
  /\ pc[t] = "idle"
  /\ next < MaxTickets
  /\ Cap > 0 => Depth < Cap
  /\ Goto(t, "admitted")
  /\ UNCHANGED <<next, serving, ticket>>

(* try_acquire at the cap: Err(depth), the handler answers 429 and nothing *)
(* of the queue changes.                                                   *)
Refuse(t) ==
  /\ pc[t] = "idle"
  /\ Cap > 0 /\ Depth >= Cap
  /\ UNCHANGED vars

TakeTicketOffByOne(t) ==
  /\ pc[t] = "admitted"
  /\ ticket' = [ticket EXCEPT ![t] = next]
  /\ next' = next + 1
  /\ Goto(t, IF next - serving <= 1 THEN "running" ELSE "parked")
  /\ UNCHANGED serving

TakeTicketBarging(t) ==
  /\ pc[t] = "admitted"
  /\ ticket' = [ticket EXCEPT ![t] = next]
  /\ next' = next + 1
  /\ Goto(t, IF \A u \in Threads : pc[u] # "running" THEN "running" ELSE "parked")
  /\ UNCHANGED serving

(* acquire: take a ticket; run at once if it is being served, else wait.   *)
TakeTicket(t) ==
  /\ pc[t] = "admitted"
  /\ ticket' = [ticket EXCEPT ![t] = next]
  /\ next' = next + 1
  /\ Goto(t, IF serving = next THEN "running" ELSE "parked")
  /\ UNCHANGED serving

RetestOrGiveUp(t) ==
  /\ pc[t] = "woken"
  /\ Goto(t, IF serving = ticket[t] THEN "running" ELSE "idle")
  /\ UNCHANGED <<next, serving, ticket>>

(* The while loop of acquire: wait returns and the predicate is tested     *)
(* again.                                                                  *)
Retest(t) ==
  /\ pc[t] = "woken"
  /\ Goto(t, IF serving = ticket[t] THEN "running" ELSE "parked")
  /\ UNCHANGED <<next, serving, ticket>>

(* std::sync::Condvar may wake a thread without a notification.            *)
SpuriousWakeup(t) ==
  /\ pc[t] = "parked"
  /\ Goto(t, "woken")
  /\ UNCHANGED <<next, serving, ticket>>

ReleaseBackwards(t) ==
  /\ pc[t] = "running"
  /\ serving' = serving - 1
  /\ Goto(t, "notifying")
  /\ UNCHANGED <<next, ticket>>

(* GpuPermit::drop, first half: serving += 1 under the lock.               *)
Release(t) ==
  /\ pc[t] = "running"
  /\ serving' = serving + 1
  /\ Goto(t, "notifying")
  /\ UNCHANGED <<next, ticket>>

NotifyOne(t) ==
  /\ pc[t] = "notifying"
  /\ \/ /\ \A u \in Threads : pc[u] # "parked"
        /\ Goto(t, "idle")
     \/ \E u \in Threads :
          /\ pc[u] = "parked"
          /\ pc' = [pc EXCEPT ![t] = "idle", ![u] = "woken"]
  /\ UNCHANGED <<next, serving, ticket>>

(* GpuPermit::drop, second half: notify_all after the lock is dropped.     *)
NotifyAll(t) ==
  /\ pc[t] = "notifying"
  /\ pc' = [u \in Threads |-> IF u = t THEN "idle"
                              ELSE IF pc[u] = "parked" THEN "woken"
                              ELSE pc[u]]
  /\ UNCHANGED <<next, serving, ticket>>

(* No request is in flight and the bound of the model is reached.          *)
Exhausted ==
  /\ next >= MaxTickets
  /\ \A t \in Threads : pc[t] = "idle"
  /\ UNCHANGED vars

Step(t) ==
  \/ PassCap(t)
  \/ Refuse(t)
  \/ TakeTicket(t)
  \/ Retest(t)
  \/ SpuriousWakeup(t)
  \/ Release(t)
  \/ NotifyAll(t)

Next == (\E t \in Threads : Step(t)) \/ Exhausted

Spec == Init /\ [][Next]_vars

(* A thread that holds the permit finishes (generation is bounded by       *)
(* max_tokens), and the operating system runs every runnable thread.  A    *)
(* spurious wakeup is never owed to anyone.                                *)
Fairness ==
  \A t \in Threads :
    /\ WF_vars(TakeTicket(t))
    /\ WF_vars(Retest(t))
    /\ WF_vars(Release(t))
    /\ WF_vars(NotifyAll(t))

FairSpec == Spec /\ Fairness

--------------------------------------------------------------------------------
(* Properties.                                                             *)

InLine(t) == pc[t] \in WaitingOrRunning

(* Types: tickets are naturals and every thread stands at a known stage.   *)
TypeOK ==
  /\ next \in Nat
  /\ serving \in Nat
  /\ pc \in [Threads -> Stages]
  /\ ticket \in [Threads -> Nat]

(* "Exactly one inference process may own the GPU at a time": two permits  *)
(* are never out together, however acquire, drop and wakeups interleave.   *)
MutualExclusion ==
  \A t, u \in Threads : pc[t] = "running" /\ pc[u] = "running" => t = u

(* Every ticket from the one being served to the last one handed out is in *)
(* the hands of exactly one request in line: the queue never serves a      *)
(* ticket nobody holds, which would block every later request for ever.    *)
NoTicketAbandoned ==
  \A k \in serving .. (next - 1) :
    \E t \in Threads :
      /\ InLine(t) /\ ticket[t] = k
      /\ \A u \in Threads : InLine(u) /\ ticket[u] = k => u = t

(* The request whose turn it is never sleeps through it: if it is parked   *)
(* in cv.wait, the permit that made way for it has yet to notify_all.      *)
NoLostWakeup ==
  \A t \in Threads :
    pc[t] = "parked" /\ ticket[t] = serving
      => \E u \in Threads : pc[u] = "notifying"

(* The cap as docs/configuration.md states it: at most Cap requests are    *)
(* queued or running.  The check and the ticket are two critical sections, *)
(* so the code does not keep it.                                           *)
DepthWithinCap == Cap > 0 => Depth <= Cap

(* Every request that has passed the cap check gets the GPU in the end.    *)
EveryRequestIsServed ==
  \A t \in Threads : pc[t] = "admitted" ~> pc[t] = "running"

(* Arrival order is service order: the ticket lock implements a line.      *)
LineFrom(first, count) ==
  [i \in 1 .. count |->
     CHOOSE t \in Threads : InLine(t) /\ ticket[t] = first + i - 1]

A == INSTANCE Admission WITH
       line <- LineFrom(serving, Depth),
       granted <- \E t \in Threads : pc[t] = "running"

(* Every step of the ticket lock joins, grants or leaves the line of       *)
(* Admission, or does not touch it; and under the scheduler's fairness the *)
(* head is always granted and the owner always leaves.                     *)
ImplementsAdmission == A!AFairSpec
================================================================================
