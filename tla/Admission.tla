------------------------------- MODULE Admission -------------------------------
(***************************************************************************)
(* What the GPU gate of cima promises: one line of requests, first come    *)
(* first served, and the GPU belongs to the head of the line.  It says     *)
(* nothing of tickets, of the mutex or of the condition variable; GpuQueue *)
(* is shown to implement it, and Server composes it with the handlers.     *)
(***************************************************************************)
EXTENDS Naturals, Sequences

CONSTANT Threads  \* the connection threads of the server

VARIABLES line,     \* the threads in line, in the order they took their place
          granted   \* TRUE when the head of the line has been given the GPU

avars == <<line, granted>>

InLine(t) == \E i \in DOMAIN line : line[i] = t

Holder(t) == granted /\ line # <<>> /\ Head(line) = t

AInit == line = <<>> /\ granted = FALSE

(* A thread that finds the line empty owns the GPU at once.                *)
JoinEmpty(t) ==
  /\ line = <<>>
  /\ line' = <<t>>
  /\ granted' = TRUE

(* Any other thread takes the last place.                                  *)
JoinBehind(t) ==
  /\ line # <<>>
  /\ ~ InLine(t)
  /\ line' = Append(line, t)
  /\ UNCHANGED granted

(* The head notices that it has reached the front.                         *)
Grant ==
  /\ line # <<>>
  /\ ~ granted
  /\ granted' = TRUE
  /\ UNCHANGED line

(* The owner leaves; the next thread is the head but does not know it yet. *)
Leave ==
  /\ granted
  /\ line # <<>>
  /\ line' = Tail(line)
  /\ granted' = FALSE

ANext ==
  \/ \E t \in Threads : JoinEmpty(t) \/ JoinBehind(t)
  \/ Grant
  \/ Leave

ASpec == AInit /\ [][ANext]_avars

(* The owner always finishes and the head is always told.                  *)
AFairSpec == ASpec /\ WF_avars(Grant) /\ WF_avars(Leave)
================================================================================
