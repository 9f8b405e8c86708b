--------------------------------- MODULE LogRing ---------------------------------
(***************************************************************************)
(* The shared-memory log ring (src/src/log.rs, mod shmlog): wait-free      *)
(* writers, a seqlock per record, a checksum per payload, a reader that    *)
(* scans the slots, the death of processes in the middle of a record, and  *)
(* the next process, which resets the ring.                                *)
(*                                                                         *)
(* A record is named by the value its writer publishes, start + 1.  A slot *)
(* is the groups of bytes that are written and read as one: the seq word;  *)
(* ts, line and level; the lengths and the checksum; the head payload; and *)
(* the chunk of a longer record, which overlays all of these.  Each group  *)
(* holds the name of the record it was written for, 0 if none.  Two        *)
(* records never have the same checksum.  Eight bytes of text in the seq   *)
(* word are a number no cursor reaches, so they stand as 0; a chunk of     *)
(* fewer than eight bytes changes only the low bytes of the seq it lands   *)
(* on, and can leave any number there.                                     *)
(* The code's fences make the memory sequentially consistent.              *)
(***************************************************************************)
EXTENDS Naturals, FiniteSets

CONSTANTS
  Slots,       \* slot_count of the ring
  Writers,     \* threads that log
  Sizes,       \* slots a record may take
  MaxSlots,    \* bound of the model: slots reserved in one run
  ShortTails,  \* whether the last chunk of a record may be under 8 bytes
  MayLap,      \* whether writers may lap one that is still writing
  MayReset     \* whether another process may create the ring anew

(* Operators named ...OffByOne, ...Alone and ...Unsummed are bugs the code *)
(* does not have; they only show that the properties can tell.             *)

ASSUME SlotsAssumption == Slots \in Nat \ {0}
ASSUME SizesAssumption == Sizes \subseteq 1 .. Slots /\ Sizes # {}
ASSUME MaxSlotsAssumption == MaxSlots \in Nat
ASSUME FlagsAssumption == {ShortTails, MayLap, MayReset} \subseteq BOOLEAN

VARIABLES
  cursor,     \* Header.cursor
  slot,       \* the slots
  size,       \* slots taken by each record reserved so far, 0 if not reserved
  w,          \* each writer: stage, record, next chunk
  r,          \* the reader: stage, slot, what it has copied, highest seq seen
  out,        \* what the current scan has accepted
  still       \* history: no writer wrote since the current scan began

vars == <<cursor, slot, size, w, r, out, still>>

Names == 1 .. MaxSlots

Phys(index) == index % Slots

NoChunk == <<0, 0>>

EmptySlot == [seq |-> 0, meta |-> 0, sum |-> 0, text |-> 0, chunk |-> NoChunk]

EmptyRing == [p \in 0 .. (Slots - 1) |-> EmptySlot]

IdleWriter == [pc |-> "idle", name |-> 0, k |-> 0]

IdleReader == [pc |-> "idle", p |-> 0, seq |-> 0, meta |-> 0, sum |-> 0, k |-> 0,
               intact |-> TRUE, since |-> 0]

Init ==
  /\ cursor = 0
  /\ slot = EmptyRing
  /\ size = [n \in Names |-> 0]
  /\ w = [t \in Writers |-> IdleWriter]
  /\ r = IdleReader
  /\ out = {}
  /\ still = TRUE

(* The record is among the last Slots slots reserved.                      *)
Live(name) == name - 1 < cursor /\ cursor - (name - 1) <= Slots

Writing(t) == w[t].pc \notin {"idle", "dead"}

(* It has reserved a record and not published it, and may have died of it. *)
Unfinished(t) == w[t].pc # "idle"

--------------------------------------------------------------------------------
(* Ring::write.                                                            *)

(* A writer may be lapped only if MayLap.                                  *)
LapsNobody(n) ==
  \A u \in Writers : Writing(u) => cursor + n - (w[u].name - 1) <= Slots

(* cursor.fetch_add(nslots).                                               *)
Reserve(t) ==
  /\ w[t].pc = "idle"
  /\ \E n \in Sizes :
       /\ cursor + n <= MaxSlots
       /\ MayLap \/ LapsNobody(n)
       /\ cursor' = cursor + n
       /\ size' = [size EXCEPT ![cursor + 1] = n]
  /\ w' = [w EXCEPT ![t] = [pc |-> "reserved", name |-> cursor + 1, k |-> 0]]
  /\ still' = FALSE
  /\ UNCHANGED <<slot, r, out>>

Head(t) == Phys(w[t].name - 1)

(* One write to memory by writer t, which then stands at stage.            *)
Store(t, stage, p, contents) ==
  /\ slot' = [slot EXCEPT ![p] = contents]
  /\ w' = [w EXCEPT ![t].pc = stage]
  /\ still' = FALSE
  /\ UNCHANGED <<cursor, size, r, out>>

(* seq := 0 and the SeqCst fence.                                          *)
Invalidate(t) ==
  /\ w[t].pc = "reserved"
  /\ Store(t, "invalid", Head(t), [slot[Head(t)] EXCEPT !.seq = 0, !.chunk = NoChunk])

(* ts_ns, line, level.                                                     *)
PutMeta(t) ==
  /\ w[t].pc = "invalid"
  /\ Store(t, "meta", Head(t), [slot[Head(t)] EXCEPT !.meta = w[t].name,
                                                     !.chunk = NoChunk])

(* nslots, len, fnv1a.                                                     *)
PutSum(t) ==
  /\ w[t].pc = "meta"
  /\ Store(t, "sum", Head(t), [slot[Head(t)] EXCEPT !.sum = w[t].name,
                                                    !.chunk = NoChunk])

(* The part of the payload that fits in the head slot.                     *)
PutHeadPayload(t) ==
  /\ w[t].pc = "sum"
  /\ Store(t, "body", Head(t), [slot[Head(t)] EXCEPT !.text = w[t].name,
                                                     !.chunk = NoChunk])

(* A continuation slot: payload bytes from the start of the slot on.  A    *)
(* short last chunk spares the old header but for its seq.                 *)
Overlaid(chunk) == [EmptySlot EXCEPT !.chunk = chunk]

Nicked(p, chunk, forged) == [slot[p] EXCEPT !.seq = forged, !.chunk = chunk]

PutContinuation(t) ==
  /\ w[t].pc = "body"
  /\ w[t].k + 1 < size[w[t].name]
  /\ LET k == w[t].k + 1
         p == Phys(w[t].name - 1 + k)
         chunk == <<w[t].name, k>>
     IN \/ slot' = [slot EXCEPT ![p] = Overlaid(chunk)]
        \/ /\ ShortTails /\ k + 1 = size[w[t].name]
           /\ \E forged \in {n \in Names : Phys(n - 1) = p} :
                slot' = [slot EXCEPT ![p] = Nicked(p, chunk, forged)]
  /\ w' = [w EXCEPT ![t].k = @ + 1]
  /\ still' = FALSE
  /\ UNCHANGED <<cursor, size, r, out>>

(* seq := start + 1, Release.                                              *)
Publish(t) ==
  /\ w[t].pc = "body"
  /\ w[t].k + 1 = size[w[t].name]
  /\ Store(t, "idle", Head(t), [slot[Head(t)] EXCEPT !.seq = w[t].name,
                                                     !.chunk = NoChunk])

(* Its process is killed: the record stays as far as it was written.       *)
Die(t) ==
  /\ Writing(t)
  /\ w' = [w EXCEPT ![t].pc = "dead"]
  /\ UNCHANGED <<cursor, slot, size, r, out, still>>

--------------------------------------------------------------------------------
(* Ring::read_since, one slot after the other.                             *)

(* cima logs reads with since = 0, and -f again with the last seq printed. *)
StartScan ==
  /\ r.pc = "idle"
  /\ r' = [r EXCEPT !.pc = "load", !.p = 0]
  /\ out' = {}
  /\ still' = \A t \in Writers : ~ Writing(t)
  /\ UNCHANGED <<cursor, slot, size, w>>

Reading == UNCHANGED <<cursor, slot, size, w, still>>

NextSlot == IF r.p + 1 = Slots THEN [r EXCEPT !.pc = "sort"]
            ELSE [r EXCEPT !.pc = "load", !.p = @ + 1]

PlausibleOffByOne(seq, p) ==
  /\ seq # 0 /\ seq > r.since
  /\ Phys(seq - 1) = p
  /\ seq < cursor /\ cursor - (seq - 1) <= Slots

Plausible(seq, p) ==
  /\ seq # 0 /\ seq > r.since
  /\ Phys(seq - 1) = p
  /\ Live(seq)

(* Load seq; skip an unwritten, an old, a misplaced or a dead record.      *)
LoadSeq ==
  /\ r.pc = "load"
  /\ LET seq == slot[r.p].seq
     IN r' = IF Plausible(seq, r.p)
             THEN [r EXCEPT !.pc = "meta", !.seq = seq]
             ELSE NextSlot
  /\ Reading /\ UNCHANGED out

LoadMeta ==
  /\ r.pc = "meta"
  /\ r' = [r EXCEPT !.pc = "sum", !.meta = slot[r.p].meta]
  /\ Reading /\ UNCHANGED out

(* Lengths and checksum; the lengths say how many chunks will be copied.   *)
LoadSum ==
  /\ r.pc = "sum"
  /\ LET sum == slot[r.p].sum
     IN r' = IF sum = 0 THEN NextSlot
             ELSE [r EXCEPT !.pc = "copy", !.sum = sum, !.k = 0, !.intact = TRUE]
  /\ Reading /\ UNCHANGED out

(* Copy a chunk; it will verify only if it is the chunk that was summed.   *)
Holds(contents, k) ==
  IF k = 0 THEN contents.text = r.sum ELSE contents.chunk = <<r.sum, k>>

CopyChunk ==
  /\ r.pc = "copy"
  /\ r.k < size[r.sum]
  /\ r' = [r EXCEPT !.k = @ + 1,
                    !.intact = @ /\ Holds(slot[Phys(r.seq - 1 + r.k)], r.k)]
  /\ Reading /\ UNCHANGED out

VerifiedBySumAlone == r.intact

VerifiedUnsummed == slot[r.p].seq = r.seq /\ Live(r.seq)

(* The seqlock re-check, the window re-check and the content check.        *)
Verified == slot[r.p].seq = r.seq /\ Live(r.seq) /\ r.intact

(* The text in the reader's buffer; torn text is nobody's.                 *)
Copied == IF r.intact THEN r.sum ELSE 0

Verify ==
  /\ r.pc = "copy"
  /\ r.k >= size[r.sum]
  /\ out' = IF Verified
            THEN out \cup {[seq |-> r.seq, meta |-> r.meta, msg |-> Copied]}
            ELSE out
  /\ r' = NextSlot
  /\ Reading

MaxSeen == LET seqs == {r.since} \cup {rec.seq : rec \in out}
           IN CHOOSE m \in seqs : \A s \in seqs : s <= m

(* The records are sorted by seq and printed; last moves up.               *)
EndScan ==
  /\ r.pc = "sort"
  /\ r' = [IdleReader EXCEPT !.since = MaxSeen]
  /\ UNCHANGED <<cursor, slot, size, w, out, still>>

--------------------------------------------------------------------------------
(* Ring::create by the next cima process that logs: truncate, zero, cursor *)
(* and all.  Bound of the model: it starts while nobody writes or scans,   *)
(* so that a name stands for one record at a time.                         *)
CreateAgain ==
  /\ MayReset
  /\ cursor > 0
  /\ r.pc = "idle" /\ \A t \in Writers : ~ Writing(t)
  /\ cursor' = 0
  /\ slot' = EmptyRing
  /\ size' = [n \in Names |-> 0]
  /\ w' = [t \in Writers |-> IdleWriter]
  /\ still' = FALSE
  /\ UNCHANGED <<r, out>>

Write(t) ==
  \/ Invalidate(t) \/ PutMeta(t) \/ PutSum(t) \/ PutHeadPayload(t)
  \/ PutContinuation(t) \/ Publish(t)

Read == LoadSeq \/ LoadMeta \/ LoadSum \/ CopyChunk \/ Verify \/ EndScan

Next ==
  \/ \E t \in Writers : Reserve(t) \/ Write(t) \/ Die(t)
  \/ StartScan
  \/ Read
  \/ CreateAgain

Spec == Init /\ [][Next]_vars

--------------------------------------------------------------------------------
(* Properties.                                                             *)

(* Types of the variables.                                                 *)
TypeOK ==
  /\ cursor \in 0 .. MaxSlots
  /\ slot \in [0 .. (Slots - 1) ->
                [seq : {0} \cup Names, meta : {0} \cup Names, sum : {0} \cup Names,
                 text : {0} \cup Names, chunk : ({0} \cup Names) \X (0 .. Slots)]]
  /\ size \in [Names -> {0} \cup Sizes]
  /\ \A t \in Writers : w[t].name \in {0} \cup Names
  /\ \A rec \in out : rec.seq \in Names

(* "Torn or lapped records are skipped, never mis-read": what a scan       *)
(* returns under a seq is the record that reserved that seq, its time,     *)
(* line, level and text.                                                   *)
NeverMisread == \A rec \in out : rec.meta = rec.seq /\ rec.msg = rec.seq

(* The guarantee that is left when writers lap each other, forge each      *)
(* other's seq or find the ring reset: a scan may date a record wrongly,   *)
(* but its text is the whole text of one record, never a blend of two.     *)
NoTornText == \A rec \in out : rec.msg # 0

(* A record whose writer died before it published it.                      *)
Abandoned(n) == \E t \in Writers : w[t].pc = "dead" /\ w[t].name = n

LiveRecords == {n \in Names : size[n] > 0 /\ Live(n) /\ ~ Abandoned(n)}

(* A scan that no writer disturbed returns every live record with a seq    *)
(* above since, whole and in its place, whatever was overwritten before    *)
(* and whoever died: what a writer had published by then is read after its *)
(* death, what it had begun is not.                                        *)
QuietScanIsComplete ==
  r.pc = "sort" /\ still
    => {rec.seq : rec \in out} = {n \in LiveRecords : n > r.since}

Published(n) == slot[Phys(n - 1)].seq = n /\ slot[Phys(n - 1)].sum = n

(* "A crash-surviving shared-memory ring [...] it outlives engine crashes" *)
(* (docs/operations.md): a published record leaves only because newer      *)
(* records take its slots.  That is true of deaths, and not of the next    *)
(* process.                                                                *)
OnlyOverwritten ==
  [][\A n \in LiveRecords : Published(n) /\ ~ Published(n)' => cursor' > cursor]_vars
================================================================================
