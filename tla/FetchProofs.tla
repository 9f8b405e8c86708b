------------------------------- MODULE FetchProofs -------------------------------
(***************************************************************************)
(* The download of one file, for any number of cells and of connections,   *)
(* any chunk size and any limit on attempts.                               *)
(*                                                                         *)
(* The work queue, for any number of pulls: a worker holds a number the    *)
(* queue has handed out, the next number is larger than all of these, and  *)
(* workers exist only while the pull fetches.                              *)
(*                                                                         *)
(* The disk, for one pull at a time that may die at any point: what each   *)
(* stage knows of the .part and its sidecar, and what is left of that for  *)
(* the next run, whichever path it takes.                                  *)
(***************************************************************************)
EXTENDS Fetch, SequenceTheorems, TLAPS

WorkerStates ==
  [pc : {"none", "take", "get", "mark", "done", "failed"}, i : Nat, try : Nat]

QueueTypes ==
  /\ pc \in [Pullers -> Stages]
  /\ next \in [Pullers -> Nat]
  /\ bits \in [Pullers -> SUBSET Int]
  /\ meta.bits \in SUBSET Int
  /\ wk \in [Pullers -> [Workers -> WorkerStates]]

(* A worker that fetches holds a number the queue has handed out.          *)
HandedOut == \A p \in Pullers, k \in Workers : Fetching(p, k) => wk[p][k].i <= next[p]

(* Workers fetch only while their pull does.                               *)
WorkersInScope ==
  \A p \in Pullers, k \in Workers : Fetching(p, k) => pc[p] = "fetching"

QueueInv == QueueTypes /\ HandedOut /\ WorkersInScope /\ OneWriterPerChunk

LEMMA InitQueueInv == Init => QueueInv
BY DEF Init, QueueInv, QueueTypes, HandedOut, WorkersInScope, OneWriterPerChunk,
   Fetching, IdleWorker, WorkerStates, Stages, NoMeta

(* A pull that returns or dies leaves no worker behind.                    *)
LEMMA ForgetKeepsQueueInv ==
  ASSUME QueueInv, NEW p \in Pullers, Forget(p), meta' = meta \/ meta'.bits \in SUBSET Int
  PROVE  QueueInv'
<1>1. QueueTypes'
  BY DEF QueueInv, QueueTypes, Forget, Goto, Stages, WorkerStates, IdleWorker
<1>2. \A q \in Pullers, k \in Workers :
        Fetching(q, k)' => q # p /\ Fetching(q, k) /\ wk'[q] = wk[q]
                           /\ next'[q] = next[q] /\ bits'[q] = bits[q] /\ pc'[q] = pc[q]
  BY DEF QueueInv, QueueTypes, Forget, Goto, Fetching, IdleWorker
<1>3. HandedOut' /\ WorkersInScope'
  BY <1>2 DEF QueueInv, HandedOut, WorkersInScope, Fetching
<1>4. OneWriterPerChunk'
  BY <1>2 DEF QueueInv, OneWriterPerChunk, Fetching
<1> QED
  BY <1>1, <1>3, <1>4 DEF QueueInv

(* Steps of a pull that is not fetching yet, or whose workers have ended.  *)
LEMMA OutsideKeepsQueueInv ==
  ASSUME QueueInv, NEW p \in Pullers, NEW stage \in Stages,
         \A k \in Workers : ~ Fetching(p, k),
         Goto(p, stage), UNCHANGED <<next, wk>>,
         bits' \in [Pullers -> SUBSET Int],
         \A q \in Pullers \ {p} : bits'[q] = bits[q],
         meta'.bits \in SUBSET Int
  PROVE  QueueInv'
<1>1. QueueTypes'
  BY DEF QueueInv, QueueTypes, Goto
<1>2. \A q \in Pullers, k \in Workers : Fetching(q, k)' => q # p /\ Fetching(q, k)
  BY DEF Fetching
<1>3. HandedOut' /\ WorkersInScope'
  BY <1>2 DEF QueueInv, QueueTypes, HandedOut, WorkersInScope, Goto
<1>4. OneWriterPerChunk'
  BY <1>2 DEF QueueInv, OneWriterPerChunk, Fetching
<1> QED
  BY <1>1, <1>3, <1>4 DEF QueueInv

LEMMA TakeKeepsQueueInv ==
  ASSUME QueueInv, NEW p \in Pullers, NEW k \in Workers, Take(p, k)
  PROVE  QueueInv'
<1> DEFINE n == next[p] + 1
<1>1. n \in Nat /\ pc[p] = "fetching"
  BY DEF QueueInv, QueueTypes, Take, Worker
<1>2. QueueTypes'
  BY <1>1 DEF QueueInv, QueueTypes, Take, TakeFrom, WorkerStates, IdleWorker
<1>3. \A q \in Pullers, j \in Workers : Fetching(q, j)' =>
        \/ q = p /\ j = k /\ wk'[p][k].i = n /\ n \notin bits[p]
        \/ (q # p \/ j # k) /\ Fetching(q, j) /\ wk'[q][j] = wk[q][j]
  BY DEF QueueInv, QueueTypes, Take, TakeFrom, Fetching, IdleWorker
<1>4. next' = [next EXCEPT ![p] = n] /\ UNCHANGED <<bits, pc>>
  BY DEF Take
<1>5. HandedOut' /\ WorkersInScope'
  BY <1>1, <1>3, <1>4 DEF QueueInv, QueueTypes, WorkerStates, HandedOut, WorkersInScope
<1>6. \A j \in Workers : Fetching(p, j) => wk[p][j].i # n
  BY <1>1 DEF QueueInv, QueueTypes, WorkerStates, HandedOut
<1>7. OneWriterPerChunk'
  <2> SUFFICES ASSUME NEW q \in Pullers, NEW j \in Workers, Fetching(q, j)'
               PROVE  /\ wk'[q][j].i \notin bits'[q]
                      /\ \A l \in Workers \ {j} : Fetching(q, l)' => wk'[q][l].i # wk'[q][j].i
    BY DEF OneWriterPerChunk
  <2>1. wk'[q][j].i \notin bits'[q]
    BY <1>3, <1>4 DEF QueueInv, OneWriterPerChunk
  <2>2. ASSUME NEW l \in Workers \ {j}, Fetching(q, l)'
        PROVE  wk'[q][l].i # wk'[q][j].i
    BY <1>3, <1>6, <2>2 DEF QueueInv, OneWriterPerChunk
  <2> QED
    BY <2>1, <2>2
<1> QED
  BY <1>2, <1>5, <1>7 DEF QueueInv

(* A worker of p moves on with the chunk it has, or gives it up.           *)
LEMMA SameChunkKeepsQueueInv ==
  ASSUME QueueInv, NEW p \in Pullers, NEW k \in Workers, NEW new \in WorkerStates,
         Fetching(p, k),
         new.pc \in {"get", "mark"} => new.i = wk[p][k].i,
         wk' = [wk EXCEPT ![p][k] = new],
         UNCHANGED <<pc, next, bits, meta>>
  PROVE  QueueInv'
<1>1. QueueTypes'
  BY DEF QueueInv, QueueTypes
<1>2. \A q \in Pullers, j \in Workers :
        Fetching(q, j)' => Fetching(q, j) /\ wk'[q][j].i = wk[q][j].i
  BY DEF QueueInv, QueueTypes, Fetching
<1>3. HandedOut' /\ WorkersInScope'
  BY <1>2 DEF QueueInv, HandedOut, WorkersInScope
<1>4. OneWriterPerChunk'
  BY <1>2 DEF QueueInv, OneWriterPerChunk
<1> QED
  BY <1>1, <1>3, <1>4 DEF QueueInv

(* What a worker may become while it keeps its chunk.                      *)
LEMMA WorkerSteps ==
  ASSUME NEW w \in WorkerStates
  PROVE  /\ [w EXCEPT !.pc = "mark"] \in WorkerStates
         /\ [w EXCEPT !.pc = "mark"].i = w.i
         /\ [w EXCEPT !.try = @ + 1] \in WorkerStates
         /\ [w EXCEPT !.try = @ + 1].i = w.i
         /\ [IdleWorker EXCEPT !.pc = "failed"] \in WorkerStates
         /\ [IdleWorker EXCEPT !.pc = "failed"].pc \notin {"get", "mark"}
BY DEF WorkerStates, IdleWorker

LEMMA SetBitKeepsQueueInv ==
  ASSUME QueueInv, NEW p \in Pullers, NEW k \in Workers, SetBit(p, k)
  PROVE  QueueInv'
<1>1. Fetching(p, k) /\ wk[p][k].i \in Nat
  BY DEF SetBit, Worker, Fetching, QueueInv, QueueTypes, WorkerStates
<1>2. QueueTypes'
  BY <1>1 DEF QueueInv, QueueTypes, SetBit, WorkerStates, IdleWorker
<1>3. \A q \in Pullers, j \in Workers :
        Fetching(q, j)' => (q # p \/ j # k) /\ Fetching(q, j) /\ wk'[q][j] = wk[q][j]
  BY DEF QueueInv, QueueTypes, SetBit, Fetching, IdleWorker
<1>4. bits' = [bits EXCEPT ![p] = @ \cup {wk[p][k].i}] /\ UNCHANGED <<pc, next>>
  BY DEF SetBit
<1>5. HandedOut' /\ WorkersInScope'
  BY <1>3, <1>4 DEF QueueInv, HandedOut, WorkersInScope
<1>6. \A q \in Pullers, j \in Workers : Fetching(q, j)' => wk'[q][j].i \notin bits'[q]
  BY <1>1, <1>3, <1>4 DEF QueueInv, QueueTypes, OneWriterPerChunk
<1>7. OneWriterPerChunk'
  BY <1>3, <1>6 DEF QueueInv, OneWriterPerChunk
<1> QED
  BY <1>2, <1>5, <1>7 DEF QueueInv

LEMMA OpenKeepsQueueInv ==
  ASSUME QueueInv, NEW p \in Pullers, Open(p), dir
  PROVE  QueueInv'
<1>1. /\ pc' = [pc EXCEPT ![p] = "fetching"]
      /\ wk' = [wk EXCEPT ![p] = [k \in Workers |-> [IdleWorker EXCEPT !.pc = "take"]]]
      /\ UNCHANGED <<next, bits, meta>>
  BY DEF Open, Goto
<1>2. QueueTypes'
  BY <1>1 DEF QueueInv, QueueTypes, Stages, WorkerStates, IdleWorker
<1>3. \A q \in Pullers, j \in Workers :
        Fetching(q, j)' => q # p /\ Fetching(q, j) /\ wk'[q] = wk[q] /\ pc'[q] = pc[q]
  BY <1>1 DEF QueueInv, QueueTypes, Fetching, IdleWorker
<1>4. HandedOut' /\ WorkersInScope'
  BY <1>1, <1>3 DEF QueueInv, HandedOut, WorkersInScope
<1>5. OneWriterPerChunk'
  BY <1>1, <1>3 DEF QueueInv, OneWriterPerChunk, Fetching
<1> QED
  BY <1>2, <1>4, <1>5 DEF QueueInv

(* Outside "fetching" no worker fetches, so such a step disturbs nothing.  *)
LEMMA NoWorkersOutside ==
  ASSUME QueueInv, NEW p \in Pullers, pc[p] # "fetching"
  PROVE  \A k \in Workers : ~ Fetching(p, k)
BY DEF QueueInv, WorkersInScope

LEMMA PullKeepsQueueInv ==
  ASSUME QueueInv, NEW p \in Pullers,
         \/ Start(p) \/ ReadMeta(p) \/ DropPart(p) \/ DropMeta(p)
         \/ (Stat(p) /\ dir) \/ Stream(p) \/ Check(p)
  PROVE  QueueInv'
<1>1. pc[p] # "fetching"
  BY DEF Start, ReadMeta, DropPart, DropMeta, Stat, Stream, Check
<1>2. \A k \in Workers : ~ Fetching(p, k)
  BY <1>1, NoWorkersOutside
<1>3. PICK stage \in Stages : Goto(p, stage)
  BY DEF Start, ReadMeta, DropPart, DropMeta, Stat, Stream, Check, Stages
<1>4. UNCHANGED <<next, wk>>
  BY DEF Start, ReadMeta, DropPart, DropMeta, Stat, Stream, Check, Local
<1>5. meta'.bits \in SUBSET Int
  BY DEF QueueInv, QueueTypes, Start, ReadMeta, DropPart, DropMeta, Stat, Stream,
     Check, NoMeta
<1>6. /\ bits' \in [Pullers -> SUBSET Int]
      /\ \A q \in Pullers \ {p} : bits'[q] = bits[q]
  BY DEF QueueInv, QueueTypes, Start, ReadMeta, DropPart, DropMeta, Stat, Stream,
     Check, Local
<1> QED
  BY <1>2, <1>3, <1>4, <1>5, <1>6, OutsideKeepsQueueInv

LEMMA EndKeepsQueueInv ==
  ASSUME QueueInv, NEW p \in Pullers,
         \/ Join(p) \/ Rename(p) \/ Clean(p) \/ StreamBreaks(p) \/ Refused(p)
         \/ Close(p) \/ Crash(p) \/ ((Open(p) \/ Stat(p)) /\ ~ dir)
  PROVE  QueueInv'
<1>1. meta' = meta \/ meta'.bits \in SUBSET Int
  BY DEF QueueInv, QueueTypes, Join, Save, Rename, Clean, StreamBreaks, Refused,
     Close, Crash, Open, Stat, NoMeta
<1>2. CASE Forget(p)
  BY <1>1, <1>2, ForgetKeepsQueueInv
<1>3. CASE Join(p) /\ ~ Forget(p)
  <2>1. \A k \in Workers : ~ Fetching(p, k)
    BY <1>3 DEF Join, Fetching
  <2>2. Goto(p, "rename") /\ UNCHANGED <<next, wk, bits>> /\ "rename" \in Stages
    BY <1>3 DEF Join, Local, Stages
  <2> QED
    BY <1>1, <2>1, <2>2, OutsideKeepsQueueInv DEF QueueInv, QueueTypes
<1>4. CASE Rename(p) /\ ~ Forget(p)
  <2>1. pc[p] # "fetching" /\ Goto(p, "clean") /\ UNCHANGED <<next, wk, bits, meta>>
        /\ "clean" \in Stages
    BY <1>4 DEF Rename, Local, Stages
  <2> QED
    BY <2>1, NoWorkersOutside, OutsideKeepsQueueInv DEF QueueInv, QueueTypes
<1>5. CASE StreamBreaks(p) /\ ~ Forget(p)
  <2>1. UNCHANGED <<pc, next, wk, bits, meta>>
    BY <1>5 DEF StreamBreaks
  <2> QED
    BY <2>1 DEF QueueInv, QueueTypes, HandedOut, WorkersInScope, OneWriterPerChunk, Fetching
<1> QED
  BY <1>2, <1>3, <1>4, <1>5 DEF Clean, Refused, Close, Crash, Open, Stat

LEMMA NextKeepsQueueInv == QueueInv /\ [Next]_vars => QueueInv'
<1> SUFFICES ASSUME QueueInv, [Next]_vars PROVE QueueInv'
  OBVIOUS
<1> USE DEF QueueInv
<1>1. ASSUME UNCHANGED <<pc, next, wk, bits>>, meta' = meta \/ meta'.bits \in SUBSET Int
      PROVE  QueueInv'
  BY <1>1 DEF QueueTypes, HandedOut, WorkersInScope, OneWriterPerChunk, Fetching
<1>2. CASE UNCHANGED vars
  BY <1>1, <1>2 DEF vars
<1>3. CASE StartRemoval \/ RemoveNext \/ RemovalEnds
  BY <1>1, <1>3 DEF QueueTypes, StartRemoval, RemoveNext, RemovalEnds, Local, NoMeta
<1>4. ASSUME NEW p \in Pullers,
             \/ Start(p) \/ ReadMeta(p) \/ DropPart(p) \/ DropMeta(p)
             \/ (Stat(p) /\ dir) \/ Stream(p) \/ Check(p)
      PROVE  QueueInv'
  BY <1>4, PullKeepsQueueInv
<1>5. ASSUME NEW p \in Pullers,
             \/ Join(p) \/ Rename(p) \/ Clean(p) \/ StreamBreaks(p) \/ Refused(p)
             \/ Close(p) \/ Crash(p) \/ ((Open(p) \/ Stat(p)) /\ ~ dir)
      PROVE  QueueInv'
  BY <1>5, EndKeepsQueueInv
<1>6. ASSUME NEW p \in Pullers, Open(p), dir PROVE QueueInv'
  BY <1>6, OpenKeepsQueueInv
<1>7. ASSUME NEW p \in Pullers, Tick(p) PROVE QueueInv'
  BY <1>1, <1>7 DEF Tick, Save, Local, QueueTypes
<1>8. ASSUME NEW p \in Pullers, NEW k \in Workers, Take(p, k) PROVE QueueInv'
  BY <1>8, TakeKeepsQueueInv
<1>9. ASSUME NEW p \in Pullers, NEW k \in Workers, GetChunk(p, k) PROVE QueueInv'
  <2>1. wk[p][k] \in WorkerStates
    BY DEF QueueTypes
  <2>2. Fetching(p, k) /\ UNCHANGED <<pc, next, bits, meta>>
    BY <1>9 DEF GetChunk, Worker, Fetching
  <2>3. wk' = [wk EXCEPT ![p][k] = [wk[p][k] EXCEPT !.pc = "mark"]]
    BY <1>9 DEF GetChunk, QueueTypes
  <2> QED
    BY <2>1, <2>2, <2>3, WorkerSteps, SameChunkKeepsQueueInv
<1>10. ASSUME NEW p \in Pullers, NEW k \in Workers, GetFails(p, k) PROVE QueueInv'
  <2>1. wk[p][k] \in WorkerStates
    BY DEF QueueTypes
  <2>2. Fetching(p, k) /\ UNCHANGED <<pc, next, bits, meta>>
    BY <1>10 DEF GetFails, Worker, Fetching
  <2>3. CASE wk' = [wk EXCEPT ![p][k] = [IdleWorker EXCEPT !.pc = "failed"]]
    BY <2>1, <2>2, <2>3, WorkerSteps, SameChunkKeepsQueueInv
  <2>4. CASE wk' = [wk EXCEPT ![p][k] = [wk[p][k] EXCEPT !.try = @ + 1]]
    BY <2>1, <2>2, <2>4, WorkerSteps, SameChunkKeepsQueueInv
  <2> QED
    BY <1>10, <2>3, <2>4 DEF GetFails
<1>11. ASSUME NEW p \in Pullers, NEW k \in Workers, SetBit(p, k) PROVE QueueInv'
  BY <1>11, SetBitKeepsQueueInv
<1> QED
  BY <1>2, <1>3, <1>4, <1>5, <1>6, <1>7, <1>8, <1>9, <1>10, <1>11 DEF Next

--------------------------------------------------------------------------------

(* For any pulls, connections and geometries: no two connections of a pull *)
(* ever write one chunk, and none writes a chunk that is complete.         *)
THEOREM ChunksHaveOneWriter == Spec => []OneWriterPerChunk
<1>1. Spec => []QueueInv
  BY InitQueueInv, NextKeepsQueueInv, PTL DEF Spec
<1> QED
  BY <1>1, PTL DEF QueueInv
--------------------------------------------------------------------------------
(***************************************************************************)
(* What is on the disk.  One pull at a time, of one chunk size, from a Hub *)
(* whose error answers do not reach the single stream and fit in a chunk,  *)
(* to a disk that does not fill while the single stream does.  Deletions   *)
(* have no pull beside them, unlink the sidecar sooner or later, and may   *)
(* stop halfway once they have.  Each of these conditions is needed.       *)
(***************************************************************************)
Unlinks(order, name) == \E n \in 1 .. Len(order) : order[n] = name

BodiesFit ==
  \A g \in Geometries, n \in BodyCells : \A i \in Chunks(g) : \A first \in Span(i, g) :
    (\A c \in Span(i, g) : first <= c) => first + n - 1 \in Span(i, g)

Orderly ==
  /\ ~ DeletesRace
  /\ \A order \in Removals : Unlinks(order, "meta")
  /\ \A rest \in Undone : ~ Unlinks(rest, "meta")

Alone ==
  /\ \A p, q \in Pullers : p = q
  /\ \A g, h \in Geometries : g = h
  /\ "single" \notin ErrorBodies /\ BodiesFit
  /\ ~ DiskMayFill
  /\ Orderly

(* The first n cells of the file; and files that were preallocated.        *)
Beginning(n) == [c \in 1 .. n |-> c]

Full == [1 .. Size -> Cells]

(* What a crash at this moment leaves for the next run.                    *)
Stored ==
  /\ file = [name \in {"part", "dest"} |-> file[name]]
  /\ Exists("part") => file["part"] \in Full \/ \E n \in 0 .. Size : file["part"] = Beginning(n)
  /\ meta # NoMeta =>
       meta.geo \in Geometries /\ (Exists("part") \/ Exists("dest") \/ rm # <<>>)
  /\ PublishedIsWhole
  /\ SidecarNeverLeads

HeldIn(cells, i, g) == \A c \in Span(i, g) : cells[c] = c

LocalTypes ==
  /\ fd \in [Pullers -> {"none", "part", "dest", "lost"}]
  /\ geo \in [Pullers -> Nat]
  /\ sent \in [Pullers -> [written : Nat, try : Nat]]

(* What a pull knows of the disk at each stage.                            *)
Unpublished(p) == pc[p] \in Stages \ {"idle", "clean", "close"} => ~ Exists("dest")

InParallel(p) ==
  pc[p] \in {"meta", "drop", "dropmeta", "open", "fetching", "rename"} => geo[p] \in Geometries

Fresh(p) == pc[p] \in {"drop", "dropmeta"} => meta = NoMeta /\ bits[p] = {}

Resumed(p) == pc[p] = "open" => bits[p] = meta.bits

HasPart(p) ==
  pc[p] \in {"fetching", "rename", "stream", "check"} => fd[p] = "part" /\ Exists("part")

InFlight(p) ==
  pc[p] = "fetching" =>
    /\ file["part"] \in Full
    /\ meta.bits \subseteq bits[p]
    /\ \A i \in bits[p] : HeldIn(file["part"], i, geo[p])
    /\ \A k \in Workers :
         /\ Fetching(p, k) => wk[p][k].i \in Chunks(geo[p])
         /\ wk[p][k].pc = "mark" => HeldIn(file["part"], wk[p][k].i, geo[p])

Arrived(p) == pc[p] \in {"rename", "check"} => file["part"] = Whole

Appending(p) == pc[p] = "stream" => sent[p].written = Len(file["part"])

AtStage(p) ==
  /\ Unpublished(p) /\ InParallel(p) /\ Fresh(p) /\ Resumed(p)
  /\ HasPart(p) /\ InFlight(p) /\ Arrived(p) /\ Appending(p)

FileInv == Stored /\ LocalTypes /\ \A p \in Pullers : AtStage(p)

(* A pull has its directory to itself; a deletion has the sidecar before   *)
(* it for as long as there is one.                                         *)
InPlace(p) == pc[p] # "idle" => dir /\ rm = <<>>

Removing == rm \in Seq(Entries) /\ (rm # <<>> /\ meta # NoMeta => Unlinks(rm, "meta"))

PlaceInv == Removing /\ \A p \in Pullers : InPlace(p)

--------------------------------------------------------------------------------
(* Files as sequences of cells.                                            *)

LEMMA Sized ==
  ASSUME NEW n \in Nat, NEW s \in [1 .. n -> Cells]
  PROVE  s \in Seq(Cells) /\ Len(s) = n /\ DOMAIN s = 1 .. n /\ s # NoFile
<1>1. s \in Seq(Cells) /\ Len(s) = n /\ DOMAIN s = 1 .. n
  OBVIOUS
<1>2. s # NoFile
  <2> SUFFICES ASSUME s = <<-2>> PROVE FALSE
    BY DEF NoFile
  <2>1. n = 1 /\ s[1] = -2
    BY <1>1
  <2>2. s[1] \in Cells
    BY <2>1
  <2> QED
    BY <2>1, <2>2, SizeAssumption DEF Cells, Hole, Junk
<1> QED
  BY <1>1, <1>2

LEMMA FullFacts ==
  ASSUME NEW s \in Full
  PROVE  Len(s) = Size /\ DOMAIN s = 1 .. Size /\ s # NoFile
BY Sized, SizeAssumption DEF Full

LEMMA BeginningFacts ==
  ASSUME NEW n \in 0 .. Size
  PROVE  /\ Beginning(n) \in [1 .. n -> Cells] /\ n \in Nat
         /\ Beginning(n) \in Seq(Cells)
         /\ Len(Beginning(n)) = n /\ DOMAIN Beginning(n) = 1 .. n
         /\ Beginning(n) # NoFile
         /\ \A c \in 1 .. n : Beginning(n)[c] = c
<1>1. Beginning(n) \in [1 .. n -> Cells] /\ n \in Nat
  BY SizeAssumption DEF Beginning, Cells
<1>2. \A c \in 1 .. n : Beginning(n)[c] = c
  BY DEF Beginning
<1> QED
  BY <1>1, <1>2, Sized

LEMMA WholeFacts == Whole = Beginning(Size) /\ Whole \in Full /\ Whole # NoFile /\ Len(Whole) = Size
<1>1. Whole = Beginning(Size) /\ Size \in 0 .. Size
  BY SizeAssumption DEF Whole, Beginning
<1> QED
  BY <1>1, BeginningFacts DEF Full

LEMMA AppendToBeginning ==
  ASSUME NEW n \in 0 .. Size, NEW m \in n .. Size
  PROVE  Beginning(n) \o [c \in 1 .. (m - n) |-> n + c] = Beginning(m)
<1> DEFINE s == Beginning(n)
           t == [c \in 1 .. (m - n) |-> n + c]
<1>1. n \in Nat /\ m \in Nat /\ m \in 0 .. Size /\ m - n \in Nat
  BY SizeAssumption
<1>2. s \in Seq(Int) /\ Len(s) = n /\ \A c \in 1 .. n : s[c] = c
  BY BeginningFacts, SizeAssumption DEF Cells, Hole, Junk
<1>3. t \in Seq(Int) /\ Len(t) = m - n /\ \A c \in 1 .. (m - n) : t[c] = n + c
  BY <1>1
<1>4. Beginning(m) \in Seq(Int) /\ Len(Beginning(m)) = m /\ \A c \in 1 .. m : Beginning(m)[c] = c
  BY <1>1, BeginningFacts, SizeAssumption DEF Cells, Hole, Junk
<1> HIDE DEF s, t
<1>5. /\ s \o t \in Seq(Int) /\ Len(s \o t) = m
      /\ \A i \in 1 .. m : (s \o t)[i] = IF i <= n THEN s[i] ELSE t[i - n]
  <2>1. s \in Seq(Int) /\ t \in Seq(Int)
    BY <1>2, <1>3
  <2>2. /\ s \o t \in Seq(Int) /\ Len(s \o t) = Len(s) + Len(t)
        /\ \A i \in 1 .. Len(s) + Len(t) :
             (s \o t)[i] = IF i <= Len(s) THEN s[i] ELSE t[i - Len(s)]
    BY <2>1, ConcatProperties
  <2>3. Len(s) + Len(t) = m
    BY <1>1, <1>2, <1>3
  <2> QED
    BY <1>2, <2>2, <2>3
<1>6. ASSUME NEW c \in 1 .. m PROVE (s \o t)[c] = c
  <2>1. CASE c <= n
    BY <1>1, <1>2, <1>5, <2>1
  <2>2. CASE c > n
    <3>1. c - n \in 1 .. (m - n)
      BY <1>1, <2>2
    <3>2. (s \o t)[c] = t[c - n]
      <4>1. ~ (c <= n)
        BY <1>1, <2>2
      <4> QED
        BY <1>5, <4>1
    <3> QED
      BY <1>1, <1>3, <3>1, <3>2
  <2>3. c <= n \/ c > n
    BY <1>1
  <2> QED
    BY <2>1, <2>2, <2>3
<1>7. s \o t = Beginning(m)
  BY <1>4, <1>5, <1>6, SeqEqual
<1> QED
  BY <1>7 DEF s, t

(* A .part that is shorter than the file is a beginning of it.             *)
LEMMA PartFacts ==
  ASSUME Stored, Exists("part")
  PROVE  /\ file["part"] \in Full \/ \E n \in 0 .. Size : file["part"] = Beginning(n)
         /\ Len(file["part"]) \in 0 .. Size
         /\ DOMAIN file["part"] = 1 .. Len(file["part"])
         /\ \A c \in DOMAIN file["part"] : file["part"][c] \in Cells
         /\ Len(file["part"]) # Size => file["part"] = Beginning(Len(file["part"]))
<1>1. CASE file["part"] \in Full
  BY <1>1, FullFacts, SizeAssumption DEF Full
<1>2. CASE \E n \in 0 .. Size : file["part"] = Beginning(n)
  <2>1. PICK n \in 0 .. Size : file["part"] = Beginning(n)
    BY <1>2
  <2> QED
    BY <2>1, BeginningFacts
<1> QED
  BY <1>1, <1>2 DEF Stored

--------------------------------------------------------------------------------
(* Chunks.                                                                 *)

LEMMA SpansDisjoint ==
  ASSUME NEW g \in Nat \ {0}, NEW i \in Int, NEW j \in Int, i # j
  PROVE  \A c \in Span(i, g) : c \notin Span(j, g)
<1>1. ASSUME NEW a \in Int, NEW b \in Int, a < b, NEW c \in Span(a, g), c \in Span(b, g)
      PROVE  FALSE
  <2>1. c \in Nat /\ c <= a * g /\ (b - 1) * g < c
    BY <1>1, SizeAssumption DEF Span
  <2>2. (b - 1) * g = a * g + (b - 1 - a) * g /\ b - 1 - a \in Nat
    BY <1>1
  <2>3. (b - 1 - a) * g >= 0
    BY <2>2
  <2>4. a * g \in Int /\ (b - 1) * g \in Int /\ (b - 1 - a) * g \in Int
    BY <1>1
  <2> QED
    BY <2>1, <2>2, <2>3, <2>4
<1> QED
  BY <1>1

(* Every cell is in a chunk.                                               *)
LEMMA ChunksCover ==
  ASSUME NEW g \in Nat \ {0}, NEW c \in 1 .. Size
  PROVE  \E i \in Chunks(g) : c \in Span(i, g)
<1> DEFINE q == (c - 1) \div g
           m == (Size + g - 1) \div g
<1>1. Size \in Nat /\ c \in Nat /\ c >= 1 /\ c <= Size /\ g >= 1 /\ g \in Nat
  BY SizeAssumption
<1>2. q \in Nat /\ c - 1 = g * q + ((c - 1) % g) /\ (c - 1) % g \in 0 .. g - 1
  BY <1>1
<1>3. m \in Nat /\ Size + g - 1 = g * m + ((Size + g - 1) % g)
      /\ (Size + g - 1) % g \in 0 .. g - 1
  BY <1>1
<1> HIDE DEF q, m
<1>4. g * q \in Nat /\ g * m \in Nat /\ g * (q + 1) = g * q + g
  BY <1>1, <1>2, <1>3
<1>5. g * q < c /\ c <= g * (q + 1) /\ Size <= g * m
  BY <1>1, <1>2, <1>3, <1>4
<1>6. q + 1 <= m
  <2> SUFFICES ASSUME m <= q PROVE FALSE
    BY <1>2, <1>3
  <2>1. g * q = g * m + g * (q - m) /\ q - m \in Nat
    BY <1>1, <1>2, <1>3
  <2>2. g * (q - m) \in Nat
    BY <1>1, <2>1
  <2> QED
    BY <1>1, <1>4, <1>5, <2>1, <2>2
<1>7. q + 1 \in Chunks(g)
  BY <1>2, <1>3, <1>6 DEF Chunks, m
<1>8. c \in Span(q + 1, g)
  <2> SUFFICES ASSUME NEW i, i = q + 1 PROVE c \in Span(i, g)
    OBVIOUS
  <2>1. (i - 1) * g = g * q /\ i * g = g * (q + 1)
    BY <1>1, <1>2
  <2>2. (i - 1) * g < c /\ c <= i * g
    BY <1>5, <2>1
  <2> QED
    BY <2>2 DEF Span
<1> QED
  BY <1>7, <1>8

LEMMA AllChunksHeld ==
  ASSUME NEW g \in Nat \ {0}, NEW s \in Full, \A i \in Chunks(g) : HeldIn(s, i, g)
  PROVE  s = Whole
<1>1. \A c \in 1 .. Size : s[c] = c
  BY ChunksCover DEF HeldIn
<1> QED
  BY <1>1 DEF Full, Whole
--------------------------------------------------------------------------------
(* Steps.  The one pull is all there is to look after.                     *)

LEMMA OnlyPull ==
  ASSUME Alone, NEW p \in Pullers, Stored', LocalTypes', AtStage(p)'
  PROVE  FileInv'
<1>1. ASSUME NEW q \in Pullers PROVE AtStage(q)'
  <2>1. q = p
    BY DEF Alone
  <2> QED
    BY <2>1
<1> QED
  BY <1>1 DEF FileInv

LEMMA Ended ==
  ASSUME Alone, QueueInv, LocalTypes, NEW p \in Pullers, Forget(p), Stored'
  PROVE  FileInv'
<1>1. pc'[p] = "idle"
  BY DEF QueueInv, QueueTypes, Forget, Goto
<1>2. AtStage(p)'
  BY <1>1
     DEF AtStage, Unpublished, InParallel, Fresh, Resumed, HasPart, InFlight, Arrived,
         Appending
<1>3. LocalTypes'
  BY DEF LocalTypes, Forget, NotSent
<1> QED
  BY <1>2, <1>3, OnlyPull

(* A pull that has begun has its directory to itself.                      *)
LEMMA Begun ==
  ASSUME PlaceInv, NEW p \in Pullers, pc[p] # "idle"
  PROVE  dir /\ rm = <<>>
BY DEF PlaceInv, InPlace

LEMMA SameDisk ==
  ASSUME Stored, UNCHANGED <<file, meta, rm>>
  PROVE  Stored'
BY DEF Stored, Exists, PublishedIsWhole, SidecarNeverLeads, Span

LEMMA OneGeometry ==
  ASSUME Alone, FileInv, NEW p \in Pullers,
         pc[p] \in {"meta", "drop", "dropmeta", "open", "fetching", "rename"}
  PROVE  /\ geo[p] \in Geometries /\ geo[p] \in Nat \ {0}
         /\ meta # NoMeta => meta.geo = geo[p]
<1>1. geo[p] \in Geometries
  BY DEF FileInv, AtStage, InParallel
<1> QED
  BY <1>1, GeometriesAssumption DEF Alone, FileInv, Stored

LEMMA StartStep ==
  ASSUME Alone, QueueInv, FileInv, PlaceInv, NEW p \in Pullers, Start(p)
  PROVE  FileInv'
<1>1. Stored /\ LocalTypes /\ UNCHANGED <<file, meta, rm, fd>> /\ pc \in [Pullers -> Stages]
  BY DEF FileInv, QueueInv, QueueTypes, Start
<1>2. Stored'
  BY <1>1, SameDisk
<1>3. ~ Exists("dest")
  BY <1>1, WholeFacts DEF Start, Stored, PublishedIsWhole
<1>4. ~ Exists("dest")'
  BY <1>1, <1>3 DEF Exists
<1>5. LocalTypes'
  BY <1>1, GeometriesAssumption DEF Start, LocalTypes
<1>6. pc'[p] \in {"meta", "stat"} /\ (pc'[p] = "meta" => geo'[p] \in Geometries)
  BY <1>1 DEF Start, Goto, LocalTypes
<1>7. AtStage(p)'
  BY <1>4, <1>6
     DEF AtStage, Unpublished, InParallel, Fresh, Resumed, HasPart, InFlight, Arrived,
         Appending
<1> QED
  BY <1>2, <1>5, <1>7, OnlyPull

LEMMA ReadMetaStep ==
  ASSUME Alone, QueueInv, FileInv, PlaceInv, NEW p \in Pullers, ReadMeta(p)
  PROVE  FileInv'
<1>1. /\ Stored /\ LocalTypes /\ pc \in [Pullers -> Stages] /\ AtStage(p)
      /\ bits \in [Pullers -> SUBSET Int]
  BY DEF FileInv, QueueInv, QueueTypes
<1>2. pc[p] = "meta" /\ UNCHANGED <<file, meta, rm, fd, geo, sent>>
  BY DEF ReadMeta, Place
<1>3. /\ geo[p] \in Geometries /\ (meta # NoMeta => meta.geo = geo[p])
      /\ ~ Exists("dest")
  BY <1>1, <1>2, OneGeometry DEF AtStage, Unpublished, Stages
<1>4. bits'[p] = meta.bits /\ pc'[p] \in {"drop", "open"}
      /\ (pc'[p] = "drop" => meta = NoMeta)
  <2>1. Prior(geo[p]) <=> meta # NoMeta
    BY <1>3 DEF Prior
  <2>2. NoMeta.bits = {}
    BY DEF NoMeta
  <2> QED
    BY <1>1, <2>1, <2>2 DEF ReadMeta, Goto
<1>5. Stored' /\ LocalTypes'
  BY <1>1, <1>2, SameDisk DEF LocalTypes
<1>6. AtStage(p)'
  <2>1. ~ Exists("dest")' /\ geo'[p] \in Geometries
    BY <1>2, <1>3 DEF Exists
  <2>2. pc'[p] = "drop" => meta' = NoMeta /\ bits'[p] = {}
    BY <1>2, <1>4 DEF NoMeta
  <2> QED
    BY <1>2, <1>4, <2>1, <2>2
       DEF AtStage, Unpublished, InParallel, Fresh, Resumed, HasPart, InFlight, Arrived,
           Appending
<1> QED
  BY <1>5, <1>6, OnlyPull

LEMMA DropStep ==
  ASSUME Alone, QueueInv, FileInv, PlaceInv, NEW p \in Pullers, DropPart(p) \/ DropMeta(p)
  PROVE  FileInv'
<1>1. /\ Stored /\ LocalTypes /\ pc \in [Pullers -> Stages] /\ AtStage(p)
  BY DEF FileInv, QueueInv, QueueTypes
<1>2. /\ pc[p] \in {"drop", "dropmeta"} /\ UNCHANGED <<geo, bits, sent, meta>>
      /\ meta = NoMeta /\ bits[p] = {} /\ ~ Exists("dest") /\ geo[p] \in Geometries
  BY <1>1 DEF DropPart, DropMeta, Local, AtStage, Fresh, Unpublished, InParallel, Stages
<1>3. /\ pc'[p] \in {"dropmeta", "open"} /\ file'["dest"] = file["dest"]
      /\ file' = file \/ file' = [file EXCEPT !["part"] = NoFile]
  BY <1>1 DEF DropPart, DropMeta, Goto, Stored
<1>4. Stored'
  <2>1. /\ file' = [name \in {"part", "dest"} |-> file'[name]]
        /\ file'["part"] = file["part"] \/ file'["part"] = NoFile
    BY <1>1, <1>3 DEF Stored
  <2> QED
    BY <1>1, <1>2, <1>3, <2>1 DEF Stored, Exists, PublishedIsWhole, SidecarNeverLeads
<1>5. LocalTypes'
  BY <1>1, <1>2 DEF LocalTypes, DropPart, DropMeta, Unlinked
<1>6. AtStage(p)'
  <2>1. ~ Exists("dest")' /\ geo'[p] \in Geometries /\ meta' = NoMeta /\ bits'[p] = {}
        /\ bits'[p] = meta'.bits
    BY <1>2, <1>3 DEF Exists, NoMeta
  <2> QED
    BY <1>3, <2>1
       DEF AtStage, Unpublished, InParallel, Fresh, Resumed, HasPart, InFlight, Arrived,
           Appending
<1> QED
  BY <1>4, <1>5, <1>6, OnlyPull

(* set_len keeps what is there, and the sidecar's chunks are.              *)
LEMMA OpenStep ==
  ASSUME Alone, QueueInv, FileInv, PlaceInv, NEW p \in Pullers, Open(p)
  PROVE  FileInv'
<1> DEFINE old == file["part"]
           new == Preallocated(old)
<1>1. /\ Stored /\ LocalTypes /\ pc \in [Pullers -> Stages] /\ AtStage(p)
      /\ wk \in [Pullers -> [Workers -> WorkerStates]]
  BY DEF FileInv, QueueInv, QueueTypes
<1>2. /\ pc[p] = "open" /\ pc' = [pc EXCEPT ![p] = "fetching"]
      /\ file' = [file EXCEPT !["part"] = new]
      /\ fd' = [fd EXCEPT ![p] = "part"] /\ UNCHANGED <<meta, geo, bits, next, sent>>
      /\ wk' = [wk EXCEPT ![p] = [k \in Workers |-> [IdleWorker EXCEPT !.pc = "take"]]]
      /\ rm = <<>>
  <2>1. pc[p] = "open"
    BY DEF Open
  <2>2. dir /\ rm = <<>>
    BY <2>1, Begun
  <2> QED
    BY <2>1, <2>2 DEF Open, Goto
<1>3. /\ geo[p] \in Geometries /\ (meta # NoMeta => meta.geo = geo[p])
      /\ ~ Exists("dest") /\ bits[p] = meta.bits
  BY <1>1, <1>2, OneGeometry DEF AtStage, Unpublished, Resumed, Stages
<1>4. new \in Full /\ \A c \in 1 .. Size : Exists("part") /\ c <= Len(old) => new[c] = old[c]
  <2>1. Exists("part") => \A c \in 1 .. Size : c <= Len(old) => old[c] \in Cells
    BY <1>1, PartFacts, SizeAssumption
  <2> QED
    BY <2>1 DEF Preallocated, Exists, Full, Cells
<1>5. meta # NoMeta =>
        \A i \in meta.bits : \A c \in Span(i, meta.geo) : new[c] = c
  <2> SUFFICES ASSUME meta # NoMeta, NEW i \in meta.bits, NEW c \in Span(i, meta.geo)
               PROVE  new[c] = c
    OBVIOUS
  <2>1. Exists("part") /\ c \in DOMAIN old /\ old[c] = c /\ c \in 1 .. Size
    BY <1>1, <1>2, <1>3 DEF Stored, SidecarNeverLeads, Span
  <2>2. c <= Len(old)
    BY <1>1, <2>1, PartFacts
  <2> QED
    BY <1>4, <2>1, <2>2
<1> HIDE DEF old, new
<1>6. file'["part"] = new /\ file'["dest"] = file["dest"]
      /\ file' = [name \in {"part", "dest"} |-> file'[name]]
  BY <1>1, <1>2 DEF Stored
<1>7. Exists("part")' /\ ~ Exists("dest")' /\ DOMAIN new = 1 .. Size
  BY <1>3, <1>4, <1>6, FullFacts DEF Exists
<1>8. Stored'
  <2>1. SidecarNeverLeads'
    BY <1>2, <1>5, <1>6, <1>7 DEF SidecarNeverLeads, Span
  <2> QED
    BY <1>1, <1>2, <1>4, <1>6, <1>7, <2>1 DEF Stored, PublishedIsWhole
<1>9. LocalTypes'
  BY <1>1, <1>2 DEF LocalTypes
<1>10. AtStage(p)'
  <2>1. pc'[p] = "fetching" /\ fd'[p] = "part" /\ geo'[p] \in Geometries
        /\ \A k \in Workers : wk'[p][k].pc = "take"
    BY <1>1, <1>2, <1>3 DEF LocalTypes, IdleWorker
  <2>2. \A i \in bits'[p] : HeldIn(file'["part"], i, geo'[p])
    <3>1. meta = NoMeta => bits[p] = {}
      BY <1>3 DEF NoMeta
    <3> QED
      BY <1>2, <1>3, <1>5, <1>6, <3>1 DEF HeldIn, Span
  <2>3. InFlight(p)'
    BY <1>2, <1>3, <1>4, <1>6, <2>1, <2>2 DEF InFlight, Fetching, HeldIn, Span
  <2> QED
    BY <1>7, <2>1, <2>3
       DEF AtStage, Unpublished, InParallel, Fresh, Resumed, HasPart, InFlight, Arrived,
           Appending
<1> QED
  BY <1>8, <1>9, <1>10, OnlyPull

(* What is written in one chunk leaves the other chunks as they were.      *)
LEMMA Elsewhere ==
  ASSUME NEW g \in Nat \ {0}, NEW i \in Int, NEW j \in Int, i # j,
         NEW s, NEW t, \A c \in 1 .. Size : c \notin Span(i, g) => t[c] = s[c],
         HeldIn(s, j, g)
  PROVE  HeldIn(t, j, g)
<1> SUFFICES ASSUME NEW c \in Span(j, g) PROVE t[c] = c
  BY DEF HeldIn
<1>1. c \notin Span(i, g) /\ c \in 1 .. Size
  BY SpansDisjoint DEF Span
<1> QED
  BY <1>1 DEF HeldIn

(* A step of a worker: the .part changes, its stages and its sidecar not.  *)
LEMMA WorkerStep ==
  ASSUME Alone, QueueInv, FileInv, PlaceInv, NEW p \in Pullers, pc[p] = "fetching",
         UNCHANGED <<meta, pc, fd, geo, sent>>,
         NEW new \in Full, file' = [file EXCEPT !["part"] = new],
         \A i \in bits[p] : HeldIn(new, i, geo[p]), InFlight(p)'
  PROVE  FileInv'
<1>1. Stored /\ LocalTypes /\ AtStage(p)
  BY DEF FileInv
<1>2. /\ geo[p] \in Geometries /\ (meta # NoMeta => meta.geo = geo[p])
      /\ ~ Exists("dest") /\ meta.bits \subseteq bits[p] /\ fd[p] = "part"
  BY <1>1, OneGeometry DEF AtStage, Unpublished, InFlight, HasPart, Stages
<1>3. file'["part"] = new /\ file'["dest"] = file["dest"]
      /\ file' = [name \in {"part", "dest"} |-> file'[name]]
  BY <1>1 DEF Stored
<1>4. Exists("part")' /\ ~ Exists("dest")' /\ DOMAIN new = 1 .. Size
  BY <1>2, <1>3, FullFacts DEF Exists
<1>5. SidecarNeverLeads'
  BY <1>2, <1>3, <1>4 DEF SidecarNeverLeads, HeldIn, Span
<1>6. Stored'
  BY <1>1, <1>3, <1>4, <1>5 DEF Stored, PublishedIsWhole
<1>7. LocalTypes'
  BY <1>1 DEF LocalTypes
<1>8. AtStage(p)'
  BY <1>2, <1>4 DEF AtStage, Unpublished, InParallel, Fresh, Resumed, HasPart, Arrived,
                    Appending
<1> QED
  BY <1>6, <1>7, <1>8, OnlyPull

(* A pull that fetches, and its .part.                                     *)
LEMMA FetchingFacts ==
  ASSUME Alone, QueueInv, FileInv, NEW p \in Pullers, pc[p] = "fetching"
  PROVE  /\ geo[p] \in Nat \ {0} /\ file["part"] \in Full /\ fd[p] = "part"
         /\ file = [file EXCEPT !["part"] = file["part"]]
         /\ meta.bits \subseteq bits[p] /\ bits[p] \subseteq Int
         /\ \A i \in bits[p] : HeldIn(file["part"], i, geo[p])
         /\ \A k \in Workers :
              /\ wk[p][k] \in WorkerStates
              /\ Fetching(p, k) => wk[p][k].i \in Chunks(geo[p]) /\ wk[p][k].i \notin bits[p]
              /\ wk[p][k].pc = "mark" => HeldIn(file["part"], wk[p][k].i, geo[p])
<1>1. AtStage(p) /\ geo[p] \in Nat \ {0}
  BY OneGeometry DEF FileInv
<1>2. file = [file EXCEPT !["part"] = file["part"]]
  BY DEF FileInv, Stored
<1>3. bits[p] \subseteq Int /\ \A k \in Workers : wk[p][k] \in WorkerStates
  BY DEF QueueInv, QueueTypes
<1>4. \A k \in Workers : Fetching(p, k) => wk[p][k].i \notin bits[p]
  BY DEF QueueInv, OneWriterPerChunk
<1> QED
  BY <1>1, <1>2, <1>3, <1>4 DEF AtStage, InFlight, HasPart

LEMMA TakeStep ==
  ASSUME Alone, QueueInv, FileInv, PlaceInv, NEW p \in Pullers, NEW k \in Workers, Take(p, k)
  PROVE  FileInv'
<1>1. /\ pc[p] = "fetching" /\ UNCHANGED <<file, meta, pc, fd, geo, bits, sent>>
      /\ TakeFrom(p, k, next[p] + 1)
      /\ wk \in [Pullers -> [Workers -> WorkerStates]]
  BY DEF Take, Worker, QueueInv, QueueTypes
<1>2. \A j \in Workers : wk'[p][j].pc \in {"get", "mark"} =>
        \/ wk'[p][j] = wk[p][j]
        \/ wk'[p][j].pc = "get" /\ wk'[p][j].i \in Chunks(geo[p])
  BY <1>1 DEF TakeFrom, IdleWorker
<1>3. InFlight(p)'
  <2> SUFFICES ASSUME NEW j \in Workers
               PROVE  /\ wk'[p][j].pc \in {"get", "mark"} => wk'[p][j].i \in Chunks(geo[p])
                      /\ wk'[p][j].pc = "mark" => HeldIn(file["part"], wk'[p][j].i, geo[p])
    BY <1>1, FetchingFacts DEF InFlight, Fetching, HeldIn, Span, Chunks
  <2> QED
    BY <1>1, <1>2, FetchingFacts DEF Fetching
<1> QED
  BY <1>1, <1>3, FetchingFacts, WorkerStep

LEMMA SetBitStep ==
  ASSUME Alone, QueueInv, FileInv, PlaceInv, NEW p \in Pullers, NEW k \in Workers, SetBit(p, k)
  PROVE  FileInv'
<1>1. /\ pc[p] = "fetching" /\ wk[p][k].pc = "mark"
      /\ UNCHANGED <<file, meta, pc, fd, geo, next, sent>>
      /\ bits'[p] = bits[p] \cup {wk[p][k].i}
      /\ \A j \in Workers : wk'[p][j].pc \in {"get", "mark"} => wk'[p][j] = wk[p][j]
  BY DEF SetBit, Worker, QueueInv, QueueTypes, IdleWorker
<1>2. InFlight(p)'
  <2>1. \A i \in bits'[p] : HeldIn(file["part"], i, geo[p])
    BY <1>1, FetchingFacts
  <2> SUFFICES ASSUME NEW j \in Workers
               PROVE  /\ wk'[p][j].pc \in {"get", "mark"} => wk'[p][j].i \in Chunks(geo[p])
                      /\ wk'[p][j].pc = "mark" => HeldIn(file["part"], wk'[p][j].i, geo[p])
    BY <1>1, <2>1, FetchingFacts DEF InFlight, Fetching, HeldIn, Span, Chunks
  <2> QED
    BY <1>1, FetchingFacts DEF Fetching
<1> QED
  BY <1>1, <1>2, FetchingFacts, WorkerStep

(* A worker writes in its own chunk; it may then hold the whole chunk.     *)
LEMMA WriteChunk ==
  ASSUME Alone, QueueInv, FileInv, PlaceInv, NEW p \in Pullers, NEW k \in Workers,
         pc[p] = "fetching", wk[p][k].pc = "get",
         UNCHANGED <<meta, pc, fd, geo, bits, next, sent>>,
         NEW new \in Full, file' = [file EXCEPT !["part"] = new],
         \A c \in 1 .. Size : c \notin Span(wk[p][k].i, geo[p]) => new[c] = file["part"][c],
         \A j \in Workers \ {k} : wk'[p][j] = wk[p][j],
         wk'[p][k].pc \in {"get", "mark"} => wk'[p][k].i = wk[p][k].i,
         wk'[p][k].pc = "mark" => HeldIn(new, wk[p][k].i, geo[p])
  PROVE  FileInv'
<1> DEFINE i == wk[p][k].i
<1>1. i \in Int /\ i \notin bits[p] /\ i \in Chunks(geo[p]) /\ geo[p] \in Nat \ {0}
      /\ bits[p] \subseteq Int
  BY FetchingFacts DEF Fetching, WorkerStates
<1>2. \A b \in bits[p] : HeldIn(new, b, geo[p])
  BY <1>1, FetchingFacts, Elsewhere
<1>3. ASSUME NEW j \in Workers, wk'[p][j].pc = "mark"
      PROVE  HeldIn(new, wk'[p][j].i, geo[p])
  <2>1. CASE j = k
    BY <1>3, <2>1
  <2>2. CASE j # k
    <3>1. wk[p][j].i # i /\ wk[p][j].i \in Int /\ wk'[p][j] = wk[p][j]
          /\ HeldIn(file["part"], wk[p][j].i, geo[p])
      BY <1>3, <2>2, FetchingFacts DEF QueueInv, OneWriterPerChunk, Fetching, WorkerStates
    <3> QED
      BY <1>1, <3>1, Elsewhere, ZenonT(40)
  <2> QED
    BY <2>1, <2>2
<1>4. \A j \in Workers : wk'[p][j].pc \in {"get", "mark"} => wk'[p][j].i \in Chunks(geo[p])
  BY <1>1, FetchingFacts DEF Fetching
<1> HIDE DEF i
<1>5. file'["part"] = new
  BY DEF FileInv, Stored
<1>6. InFlight(p)'
  BY <1>2, <1>3, <1>4, <1>5, FetchingFacts DEF InFlight, Fetching, HeldIn, Span, Chunks
<1> QED
  BY <1>2, <1>6, WorkerStep

LEMMA GetChunkStep ==
  ASSUME Alone, QueueInv, FileInv, PlaceInv, NEW p \in Pullers, NEW k \in Workers, GetChunk(p, k)
  PROVE  FileInv'
<1> DEFINE old == file["part"]
           span == Span(wk[p][k].i, geo[p])
           new == [c \in DOMAIN old |-> IF c \in span THEN c ELSE old[c]]
<1>1. /\ pc[p] = "fetching" /\ wk[p][k].pc = "get"
      /\ UNCHANGED <<meta, pc, fd, geo, bits, next, sent>>
      /\ wk' = [wk EXCEPT ![p][k].pc = "mark"]
  BY DEF GetChunk, Worker
<1>2. old \in Full /\ DOMAIN old = 1 .. Size /\ fd[p] = "part"
  BY <1>1, FetchingFacts, FullFacts
<1>3. file' = [file EXCEPT !["part"] = new]
  BY <1>2 DEF GetChunk, Opened, Written
<1>4. new \in Full /\ \A c \in 1 .. Size : new[c] = IF c \in span THEN c ELSE old[c]
  BY <1>2 DEF Full, Cells
<1>5. HeldIn(new, wk[p][k].i, geo[p])
  BY <1>4 DEF HeldIn, Span
<1>6. /\ \A j \in Workers \ {k} : wk'[p][j] = wk[p][j]
      /\ wk'[p][k].i = wk[p][k].i
  BY <1>1 DEF QueueInv, QueueTypes, WorkerStates
<1>7. \A c \in 1 .. Size : c \notin Span(wk[p][k].i, geo[p]) => new[c] = file["part"][c]
  BY <1>4
<1>8. /\ wk'[p][k].pc \in {"get", "mark"} => wk'[p][k].i = wk[p][k].i
      /\ wk'[p][k].pc = "mark" => HeldIn(new, wk[p][k].i, geo[p])
      /\ new \in Full /\ \A j \in Workers \ {k} : wk'[p][j] = wk[p][j]
  BY <1>4, <1>5, <1>6
<1> HIDE DEF new, old, span
<1> QED
  BY <1>1, <1>3, <1>7, <1>8, WriteChunk

(* The first cell of a chunk.                                              *)
LEMMA FirstOfSpan ==
  ASSUME NEW g \in Nat \ {0}, NEW i \in Chunks(g)
  PROVE  \E c \in Span(i, g) : \A d \in Span(i, g) : c <= d
<1> DEFINE m == (Size + g - 1) \div g
           a == (i - 1) * g
<1>1. Size \in Nat /\ g \in Nat /\ g >= 1
  BY SizeAssumption
<1>2. m \in Nat /\ Size + g - 1 = g * m + ((Size + g - 1) % g)
      /\ (Size + g - 1) % g \in 0 .. g - 1
  BY <1>1
<1>3. i \in Nat /\ i >= 1 /\ i <= m
  BY <1>2 DEF Chunks
<1> HIDE DEF m
<1>4. g * m = g * (i - 1) + g + g * (m - i) /\ m - i \in Nat
  BY <1>1, <1>2, <1>3
<1>5. g * (m - i) \in Nat /\ g * (i - 1) \in Nat /\ a = g * (i - 1) /\ i * g = a + g
  BY <1>1, <1>3, <1>4
<1> HIDE DEF a
<1>6. a \in Nat /\ a + 1 <= Size /\ a + 1 <= i * g
  BY <1>1, <1>2, <1>4, <1>5
<1>7. \A c : c \in Span(i, g) <=> c \in 1 .. Size /\ a < c /\ c <= i * g
  BY DEF Span, a
<1>8. a + 1 \in Span(i, g)
  BY <1>1, <1>6, <1>7
<1>9. \A d \in Span(i, g) : a + 1 <= d
  BY <1>1, <1>6, <1>7
<1> QED
  BY <1>8, <1>9

(* A body that ends in the chunk where it begins.                          *)
LEMMA BodyInChunk ==
  ASSUME NEW g \in Nat \ {0}, NEW i \in Int, NEW first \in Span(i, g), NEW n \in Nat \ {0},
         first + n - 1 \in Span(i, g), NEW s \in Full
  PROVE  /\ WithBody(s, first, n) \in Full
         /\ \A c \in 1 .. Size : c \notin Span(i, g) => WithBody(s, first, n)[c] = s[c]
<1>1. Size \in Nat /\ Len(s) = Size /\ first \in Nat /\ first + n - 1 <= Size
  BY SizeAssumption, FullFacts DEF Span
<1>2. WithBody(s, first, n) =
        [c \in 1 .. Size |-> IF first <= c /\ c < first + n THEN Junk ELSE s[c]]
  BY <1>1 DEF WithBody
<1>3. ASSUME NEW c \in 1 .. Size, first <= c, c < first + n PROVE c \in Span(i, g)
  <2>1. (i - 1) * g < first /\ first + n - 1 <= i * g /\ (i - 1) * g \in Int /\ i * g \in Int
    BY DEF Span
  <2>2. (i - 1) * g < c /\ c <= i * g
    BY <1>1, <1>3, <2>1
  <2> QED
    BY <2>2 DEF Span
<1> QED
  BY <1>2, <1>3 DEF Full, Cells

LEMMA GetFailsStep ==
  ASSUME Alone, QueueInv, FileInv, PlaceInv, NEW p \in Pullers, NEW k \in Workers, GetFails(p, k)
  PROVE  FileInv'
<1> DEFINE old == file["part"]
           span == Span(wk[p][k].i, geo[p])
           first == CHOOSE c \in span : \A d \in span : c <= d
<1>1. /\ pc[p] = "fetching" /\ wk[p][k].pc = "get"
      /\ UNCHANGED <<meta, pc, fd, geo, bits, next, sent>>
  BY DEF GetFails, Worker
<1>2. /\ old \in Full /\ DOMAIN old = 1 .. Size /\ fd[p] = "part"
      /\ wk[p][k].i \in Chunks(geo[p]) /\ geo[p] \in Nat \ {0}
  BY <1>1, FetchingFacts, FullFacts DEF Fetching
<1>3. Opened(p) = old
  BY <1>2 DEF Opened
<1>4. first \in span
  BY <1>2, FirstOfSpan
<1>5. PICK new \in Remains(p, k) : file' = Written(p, new)
  BY DEF GetFails
<1>6. file' = [file EXCEPT !["part"] = new]
  BY <1>2, <1>5 DEF Written
<1>7. new \in Full /\ \A c \in 1 .. Size : c \notin span => new[c] = old[c]
  <2>1. CASE \E end \in span :
               new = [c \in DOMAIN old |-> IF c \in span /\ c < end THEN c ELSE old[c]]
    BY <1>2, <2>1 DEF Full, Cells
  <2>2. CASE \E n \in BodyCells : new = WithBody(old, first, n)
    <3>1. PICK n \in BodyCells : new = WithBody(old, first, n)
      BY <2>2
    <3>2. \A c \in span : first <= c
      BY <1>2, FirstOfSpan
    <3> HIDE DEF first
    <3>3. first + n - 1 \in span
      <4>1. geo[p] \in Geometries
        BY <1>1, OneGeometry
      <4> QED
        BY <1>2, <1>4, <3>2, <4>1 DEF Alone, BodiesFit
    <3>4. n \in Nat \ {0} /\ wk[p][k].i \in Int
      BY <1>2, BodiesAssumption DEF Chunks
    <3> QED
      BY <1>2, <1>4, <3>1, <3>3, <3>4, BodyInChunk
  <2> QED
    BY <1>3, <1>5, <2>1, <2>2 DEF Remains
<1>8. /\ \A j \in Workers \ {k} : wk'[p][j] = wk[p][j]
      /\ wk'[p][k].pc # "mark"
      /\ wk'[p][k].pc = "get" => wk'[p][k].i = wk[p][k].i
  BY <1>1 DEF GetFails, QueueInv, QueueTypes, WorkerStates, IdleWorker
<1> HIDE DEF old, first
<1> QED
  BY <1>1, <1>6, <1>7, <1>8, WriteChunk, ZenonT(40) DEF old

(* The sidecar is written from the bitmap; a complete bitmap is the file.  *)
LEMMA SaveKeepsStored ==
  ASSUME Alone, QueueInv, FileInv, NEW p \in Pullers, pc[p] = "fetching",
         meta' = [geo |-> geo[p], bits |-> bits[p]], UNCHANGED file
  PROVE  Stored'
<1>1. Stored /\ geo[p] \in Geometries
  BY OneGeometry DEF FileInv
<1>2. \A i \in bits[p] : HeldIn(file["part"], i, geo[p])
  BY FetchingFacts
<1>3. DOMAIN file["part"] = 1 .. Size /\ Exists("part")
  BY FetchingFacts, FullFacts DEF Exists
<1>4. SidecarNeverLeads'
  BY <1>2, <1>3 DEF SidecarNeverLeads, Exists, HeldIn, Span
<1> QED
  BY <1>1, <1>3, <1>4 DEF Stored, PublishedIsWhole, Exists

LEMMA TickStep ==
  ASSUME Alone, QueueInv, FileInv, PlaceInv, NEW p \in Pullers, Tick(p)
  PROVE  FileInv'
<1>1. /\ pc[p] = "fetching" /\ UNCHANGED <<file, pc, fd, geo, bits, next, wk, sent>>
      /\ meta' = [geo |-> geo[p], bits |-> bits[p]]
  BY Begun DEF Tick, Save, Local
<1>2. Stored'
  BY <1>1, SaveKeepsStored
<1>3. LocalTypes' /\ AtStage(p)
  BY <1>1 DEF FileInv, LocalTypes
<1>4. InFlight(p)'
  BY <1>1, <1>3 DEF AtStage, InFlight, Fetching, HeldIn, Span, Chunks
<1>5. AtStage(p)'
  BY <1>1, <1>3, <1>4 DEF AtStage, Unpublished, InParallel, Fresh, Resumed, HasPart,
                          Arrived, Appending, Exists
<1> QED
  BY <1>2, <1>3, <1>5, OnlyPull

LEMMA JoinStep ==
  ASSUME Alone, QueueInv, FileInv, PlaceInv, NEW p \in Pullers, Join(p)
  PROVE  FileInv'
<1>1. /\ pc[p] = "fetching" /\ UNCHANGED file
      /\ meta' = [geo |-> geo[p], bits |-> bits[p]]
  BY Begun DEF Join, Save
<1>2. Stored' /\ LocalTypes /\ AtStage(p)
  BY <1>1, SaveKeepsStored DEF FileInv
<1>3. CASE Forget(p)
  BY <1>2, <1>3, Ended
<1>4. CASE /\ bits[p] = Chunks(geo[p])
           /\ Goto(p, "rename") /\ UNCHANGED <<fd, geo, bits, next, wk, sent>>
  <2>1. pc'[p] = "rename"
    BY <1>4 DEF Goto, QueueInv, QueueTypes
  <2>2. file["part"] = Whole
    BY <1>1, <1>4, FetchingFacts, AllChunksHeld
  <2>3. fd[p] = "part" /\ Exists("part") /\ ~ Exists("dest") /\ geo[p] \in Geometries
    BY <1>1, <1>2 DEF AtStage, HasPart, Unpublished, InParallel, Stages
  <2>4. AtStage(p)'
    BY <1>1, <1>4, <2>1, <2>2, <2>3
       DEF AtStage, Unpublished, InParallel, Fresh, Resumed, HasPart, InFlight, Arrived,
           Appending, Exists, Whole
  <2>5. LocalTypes'
    BY <1>2, <1>4 DEF LocalTypes
  <2> QED
    BY <1>2, <2>4, <2>5, OnlyPull
<1> QED
  BY <1>3, <1>4 DEF Join, Local

(* rename of a whole .part, or of none.                                    *)
LEMMA PublishKeepsStored ==
  ASSUME Stored, Exists("part") => file["part"] = Whole, Exists("part"),
         file' = [part |-> NoFile, dest |-> file["part"]], UNCHANGED meta
  PROVE  Stored' /\ ~ Exists("part")' /\ file'["dest"] = Whole
<1>1. file'["part"] = NoFile /\ file'["dest"] = Whole
  OBVIOUS
<1>2. file' = [name \in {"part", "dest"} |-> file'[name]]
  OBVIOUS
<1> QED
  BY <1>1, <1>2, WholeFacts DEF Stored, Exists, PublishedIsWhole, SidecarNeverLeads, Whole

LEMMA RenameStep ==
  ASSUME Alone, QueueInv, FileInv, PlaceInv, NEW p \in Pullers, Rename(p)
  PROVE  FileInv'
<1>1. Stored /\ LocalTypes /\ AtStage(p) /\ pc[p] = "rename" /\ UNCHANGED meta
  BY DEF FileInv, Rename
<1>2. Exists("part") /\ file["part"] = Whole
  BY <1>1 DEF AtStage, HasPart, Arrived
<1>3. /\ file' = [part |-> NoFile, dest |-> file["part"]] /\ fd' = Renamed
      /\ Goto(p, "clean") /\ UNCHANGED <<geo, bits, next, wk, sent>>
  BY <1>2 DEF Rename, Publish, Local
<1>4. Stored'
  BY <1>1, <1>2, <1>3, PublishKeepsStored
<1>5. pc'[p] = "clean"
  BY <1>3 DEF Goto, QueueInv, QueueTypes
<1>6. AtStage(p)'
  BY <1>5
     DEF AtStage, Unpublished, InParallel, Fresh, Resumed, HasPart, InFlight, Arrived,
         Appending
<1>7. LocalTypes'
  BY <1>1, <1>3 DEF LocalTypes, Renamed
<1> QED
  BY <1>4, <1>6, <1>7, OnlyPull

LEMMA CleanStep ==
  ASSUME Alone, QueueInv, FileInv, PlaceInv, NEW p \in Pullers, Clean(p)
  PROVE  FileInv'
<1>1. Stored /\ LocalTypes /\ UNCHANGED file /\ meta' = NoMeta /\ Forget(p)
  BY DEF FileInv, Clean
<1>2. Stored'
  BY <1>1 DEF Stored, Exists, PublishedIsWhole, SidecarNeverLeads, Whole
<1> QED
  BY <1>1, <1>2, Ended

--------------------------------------------------------------------------------
(* Steps of the single stream.                                             *)

LEMMA StatStep ==
  ASSUME Alone, QueueInv, FileInv, PlaceInv, NEW p \in Pullers, Stat(p)
  PROVE  FileInv'
<1>1. /\ Stored /\ LocalTypes /\ AtStage(p) /\ pc[p] = "stat" /\ dir /\ rm = <<>>
      /\ UNCHANGED <<meta, geo, bits, next, wk>>
  BY Begun DEF FileInv, Stat
<1>2. ~ Exists("dest")
  BY <1>1 DEF AtStage, Unpublished, Stages
<1>3. <<>> = Beginning(0) /\ 0 \in 0 .. Size
  <2>1. 0 \in 0 .. Size
    BY SizeAssumption
  <2>2. Beginning(0) \in Seq(Cells) /\ Len(Beginning(0)) = 0
    BY <2>1, BeginningFacts
  <2> QED
    BY <2>1, <2>2, EmptySeq
<1>4. /\ file'["part"] = (IF Exists("part") THEN file["part"] ELSE Beginning(0))
      /\ file'["dest"] = file["dest"]
      /\ file' = [name \in {"part", "dest"} |-> file'[name]]
  BY <1>1, <1>3 DEF Stat, Stored, Exists, NoFile
<1>5. Exists("part")' /\ ~ Exists("dest")'
  BY <1>2, <1>3, <1>4, BeginningFacts DEF Exists
<1>6. Stored'
  <2>1. SidecarNeverLeads'
    <3>1. meta # NoMeta => Exists("part")
      BY <1>1, <1>2 DEF Stored
    <3> QED
      BY <1>1, <1>4, <3>1 DEF Stored, SidecarNeverLeads, Span
  <2> QED
    BY <1>1, <1>3, <1>4, <1>5, <2>1 DEF Stored, PublishedIsWhole, Exists
<1>7. sent'[p].written = Len(file'["part"]) /\ sent'[p].written \in Nat
      /\ sent'[p].try = 1
  <2>1. Exists("part") => Len(file["part"]) \in Nat
    BY <1>1, PartFacts, SizeAssumption
  <2> QED
    BY <1>1, <1>3, <1>4, <2>1, BeginningFacts DEF Stat, LocalTypes
<1>8. pc'[p] = "stream" /\ fd'[p] = "part" /\ LocalTypes'
  <2>1. pc'[p] = "stream" /\ fd'[p] = "part"
    BY <1>1 DEF Stat, Goto, LocalTypes, QueueInv, QueueTypes
  <2>2. fd' \in [Pullers -> {"none", "part", "dest", "lost"}]
    BY <1>1 DEF Stat, LocalTypes
  <2>3. sent' \in [Pullers -> [written : Nat, try : Nat]]
    <3> DEFINE new == [written |-> IF Exists("part") THEN Len(file["part"]) ELSE 0, try |-> 1]
    <3>1. sent' = [sent EXCEPT ![p] = new]
      BY <1>1 DEF Stat
    <3>2. new \in [written : Nat, try : Nat]
      BY <1>1, PartFacts, SizeAssumption
    <3> HIDE DEF new
    <3> QED
      BY <1>1, <3>1, <3>2 DEF LocalTypes
  <2> QED
    BY <1>1, <2>1, <2>2, <2>3 DEF LocalTypes
<1>9. AtStage(p)'
  BY <1>5, <1>7, <1>8
     DEF AtStage, Unpublished, InParallel, Fresh, Resumed, HasPart, InFlight, Arrived,
         Appending
<1> QED
  BY <1>6, <1>8, <1>9, OnlyPull

(* What is appended continues the .part.                                   *)
LEMMA AppendKeepsStored ==
  ASSUME Alone, QueueInv, FileInv, PlaceInv, NEW p \in Pullers, pc[p] = "stream",
         NEW end \in sent[p].written .. Size, sent[p].written < Size,
         AppendTo(p, sent[p].written, end), UNCHANGED meta
  PROVE  /\ Stored' /\ file'["part"] = Beginning(end) /\ Exists("part")'
         /\ ~ Exists("dest")' /\ fd[p] = "part"
<1> DEFINE from == sent[p].written
<1>1. Stored /\ AtStage(p) /\ from \in Nat /\ Size \in Nat
  BY SizeAssumption DEF FileInv, LocalTypes
<1>2. /\ ~ Exists("dest") /\ fd[p] = "part" /\ Exists("part")
      /\ from = Len(file["part"])
  BY <1>1 DEF AtStage, Unpublished, HasPart, Appending, Stages
<1> HIDE DEF from
<1>3. from < Size /\ end \in from .. Size /\ AppendTo(p, from, end)
  BY DEF from
<1>4. file["part"] = Beginning(from) /\ from \in 0 .. Size /\ end \in 0 .. Size
  BY <1>1, <1>2, <1>3, PartFacts
<1>5. file' = [file EXCEPT !["part"] =
                 file["part"] \o [c \in 1 .. (end - from) |-> from + c]]
  BY <1>2, <1>3 DEF AppendTo, Alone, Opened, Written
<1>6. /\ file'["part"] = Beginning(end) /\ file'["dest"] = file["dest"]
      /\ file' = [name \in {"part", "dest"} |-> file'[name]]
  <2>1. file["part"] \o [c \in 1 .. (end - from) |-> from + c] = Beginning(end)
    BY <1>3, <1>4, AppendToBeginning
  <2> QED
    BY <1>1, <1>5, <2>1 DEF Stored
<1>7. Exists("part")' /\ ~ Exists("dest")'
  BY <1>2, <1>4, <1>6, BeginningFacts DEF Exists
<1>8. SidecarNeverLeads'
  <2> SUFFICES ASSUME meta # NoMeta, NEW i \in meta.bits, NEW c \in Span(i, meta.geo)
               PROVE  c \in DOMAIN Beginning(end) /\ Beginning(end)[c] = c
    BY <1>6 DEF SidecarNeverLeads, Span
  <2>1. c \in DOMAIN file["part"]
    BY <1>1, <1>2 DEF Stored, SidecarNeverLeads
  <2>2. c \in 1 .. from
    BY <1>1, <1>2, <2>1, PartFacts
  <2>3. c \in 1 .. end
    BY <1>1, <1>3, <2>2
  <2> QED
    BY <1>4, <2>3, BeginningFacts
<1> QED
  BY <1>1, <1>2, <1>4, <1>6, <1>7, <1>8 DEF Stored, PublishedIsWhole, Exists

LEMMA StreamStep ==
  ASSUME Alone, QueueInv, FileInv, PlaceInv, NEW p \in Pullers, Stream(p)
  PROVE  FileInv'
<1>1. /\ LocalTypes /\ pc[p] = "stream" /\ Goto(p, "check")
      /\ sent[p].written < Size /\ AppendTo(p, sent[p].written, Size)
      /\ sent' = [sent EXCEPT ![p].written = Size]
      /\ UNCHANGED <<meta, fd, geo, bits, next, wk>>
  BY DEF FileInv, Stream
<1>2. Size \in sent[p].written .. Size /\ Size \in Nat
  BY <1>1, SizeAssumption DEF LocalTypes
<1>3. /\ Stored' /\ file'["part"] = Whole /\ Exists("part")' /\ ~ Exists("dest")'
      /\ fd[p] = "part"
  BY <1>1, <1>2, AppendKeepsStored, WholeFacts
<1>4. LocalTypes' /\ pc'[p] = "check"
  BY <1>1, <1>2 DEF LocalTypes, Goto, QueueInv, QueueTypes
<1>5. AtStage(p)'
  BY <1>1, <1>3, <1>4
     DEF AtStage, Unpublished, InParallel, Fresh, Resumed, HasPart, InFlight, Arrived,
         Appending, Whole
<1> QED
  BY <1>3, <1>4, <1>5, OnlyPull

LEMMA StreamBreaksStep ==
  ASSUME Alone, QueueInv, FileInv, PlaceInv, NEW p \in Pullers, StreamBreaks(p)
  PROVE  FileInv'
<1>1. LocalTypes /\ pc[p] = "stream" /\ UNCHANGED meta /\ sent[p].written \in Nat
      /\ sent[p].try \in Nat /\ Size \in Nat
  BY SizeAssumption DEF FileInv, StreamBreaks, LocalTypes
<1>2. PICK end \in sent[p].written .. (Size - 1) :
        /\ AppendTo(p, sent[p].written, end)
        /\ \/ Forget(p)
           \/ /\ sent' = [sent EXCEPT ![p] = [written |-> end, try |-> @.try + 1]]
              /\ UNCHANGED <<pc, fd, geo, bits, next, wk>>
  BY DEF StreamBreaks
<1>3. end \in sent[p].written .. Size /\ sent[p].written < Size /\ end \in 0 .. Size
  BY <1>1, <1>2
<1>4. /\ Stored' /\ file'["part"] = Beginning(end) /\ Exists("part")'
      /\ ~ Exists("dest")' /\ fd[p] = "part"
  BY <1>1, <1>2, <1>3, AppendKeepsStored
<1>5. CASE Forget(p)
  BY <1>1, <1>4, <1>5, Ended
<1>6. CASE /\ sent' = [sent EXCEPT ![p] = [written |-> end, try |-> @.try + 1]]
           /\ UNCHANGED <<pc, fd, geo, bits, next, wk>>
  <2>1. LocalTypes' /\ sent'[p].written = end
    BY <1>1, <1>3, <1>6 DEF LocalTypes
  <2>2. Len(file'["part"]) = end
    BY <1>3, <1>4, BeginningFacts
  <2>3. AtStage(p)'
    BY <1>1, <1>4, <1>6, <2>1, <2>2
       DEF AtStage, Unpublished, InParallel, Fresh, Resumed, HasPart, InFlight, Arrived,
           Appending
  <2> QED
    BY <1>4, <2>1, <2>3, OnlyPull
<1> QED
  BY <1>2, <1>5, <1>6

LEMMA RefusedStep ==
  ASSUME Alone, QueueInv, FileInv, PlaceInv, NEW p \in Pullers, Refused(p)
  PROVE  FileInv'
<1>1. /\ Stored /\ LocalTypes /\ AtStage(p) /\ pc[p] = "stream" /\ UNCHANGED meta
      /\ Forget(p)
  BY DEF FileInv, Refused
<1>2. fd[p] = "part" /\ Exists("part")
  BY <1>1 DEF AtStage, HasPart
<1>3. file' = [file EXCEPT !["part"] = WithBody(file["part"], Len(file["part"]) + 1, 0)]
  BY <1>2 DEF Refused, Alone, Opened, Written
<1>4. /\ Len(file["part"]) \in Nat /\ DOMAIN file["part"] = 1 .. Len(file["part"])
      /\ file["part"] = [c \in DOMAIN file["part"] |-> file["part"][c]]
  <2>1. file["part"] \in Full \/ \E n \in 0 .. Size : file["part"] = Beginning(n)
    BY <1>1, <1>2, PartFacts
  <2>2. file["part"] = [c \in DOMAIN file["part"] |-> file["part"][c]]
    BY <2>1 DEF Full, Beginning
  <2>3. Len(file["part"]) \in Nat /\ DOMAIN file["part"] = 1 .. Len(file["part"])
    BY <1>1, <1>2, PartFacts, SizeAssumption
  <2> QED
    BY <2>2, <2>3
<1>5. WithBody(file["part"], Len(file["part"]) + 1, 0) = file["part"]
  BY <1>4 DEF WithBody
<1>6. file' = file /\ UNCHANGED rm
  BY <1>1, <1>3, <1>5 DEF Stored, Refused, Place
<1> QED
  BY <1>1, <1>6, SameDisk, Ended

LEMMA CheckStep ==
  ASSUME Alone, QueueInv, FileInv, PlaceInv, NEW p \in Pullers, Check(p)
  PROVE  FileInv'
<1>1. /\ Stored /\ LocalTypes /\ AtStage(p) /\ pc[p] = "check" /\ Goto(p, "close")
      /\ UNCHANGED <<meta, rm, geo, bits, next, wk, sent>>
  BY DEF FileInv, Check, Local, Place
<1>2. Exists("part") /\ file["part"] = Whole
  BY <1>1 DEF AtStage, HasPart, Arrived
<1>3. Publish(p) \/ UNCHANGED <<file, fd>>
  BY DEF Check
<1>4. Stored'
  BY <1>1, <1>2, <1>3, PublishKeepsStored, SameDisk DEF Publish
<1>5. LocalTypes'
  BY <1>1, <1>3 DEF LocalTypes, Publish, Renamed
<1>6. pc'[p] = "close"
  BY <1>1 DEF Goto, QueueInv, QueueTypes
<1>7. AtStage(p)'
  BY <1>6
     DEF AtStage, Unpublished, InParallel, Fresh, Resumed, HasPart, InFlight, Arrived,
         Appending
<1> QED
  BY <1>4, <1>5, <1>7, OnlyPull

(* The end of a pull, and its death.                                       *)
LEMMA EndStep ==
  ASSUME Alone, QueueInv, FileInv, PlaceInv, NEW p \in Pullers, Close(p) \/ Crash(p)
  PROVE  FileInv'
BY SameDisk, Ended DEF Close, Crash, FileInv, Place

--------------------------------------------------------------------------------

LEMMA NoPart ==
  ASSUME file = [name \in {"part", "dest"} |-> NoFile], meta = NoMeta
  PROVE  Stored
BY DEF Stored, Exists, PublishedIsWhole, SidecarNeverLeads

LEMMA IdlePull ==
  ASSUME NEW p \in Pullers, pc[p] = "idle"
  PROVE  AtStage(p)
BY DEF AtStage, Unpublished, InParallel, Fresh, Resumed, HasPart, InFlight, Arrived,
       Appending

LEMMA InitFileInv == Init => FileInv
<1> SUFFICES ASSUME Init PROVE FileInv
  OBVIOUS
<1>1. Stored
  BY NoPart DEF Init
<1>2. LocalTypes
  BY DEF Init, LocalTypes, NotSent
<1>3. \A p \in Pullers : AtStage(p)
  BY IdlePull DEF Init
<1> QED
  BY <1>1, <1>2, <1>3 DEF FileInv

--------------------------------------------------------------------------------
(* Deletions, and who has the directory.                                   *)

LEMMA TailUnlinks ==
  ASSUME NEW order \in Seq(Entries), order # <<>>, NEW name, Unlinks(order, name),
         Head(order) # name
  PROVE  Unlinks(Tail(order), name)
<1>1. PICK n \in 1 .. Len(order) : order[n] = name
  BY DEF Unlinks
<1>2. Len(order) \in Nat /\ n # 1 /\ n \in Int
  BY <1>1
<1>3. /\ Len(Tail(order)) = Len(order) - 1
      /\ \A m \in 1 .. Len(Tail(order)) : Tail(order)[m] = order[m + 1]
  BY HeadTailProperties
<1>4. n - 1 \in 1 .. Len(Tail(order)) /\ Tail(order)[n - 1] = name
  BY <1>1, <1>2, <1>3
<1> QED
  BY <1>4 DEF Unlinks

LEMMA InitPlaceInv == Init => PlaceInv
BY DEF Init, PlaceInv, Removing, InPlace

(* While a deletion runs, no pull does.                                    *)
LEMMA RemovalAlone ==
  ASSUME PlaceInv, rm # <<>>
  PROVE  \A p \in Pullers : pc[p] = "idle"
BY DEF PlaceInv, InPlace

(* A step of a pull that has begun leaves the directory as it is.          *)
LEMMA PullKeepsPlace ==
  ASSUME PlaceInv, NEW p \in Pullers, pc[p] # "idle", UNCHANGED Place,
         \A q \in Pullers \ {p} : pc'[q] = pc[q]
  PROVE  PlaceInv'
<1>1. dir /\ rm = <<>> /\ UNCHANGED <<dir, rm>>
  BY DEF PlaceInv, InPlace, Place
<1> QED
  BY <1>1 DEF PlaceInv, InPlace, Removing

LEMMA PullStepsKeepPlace ==
  ASSUME QueueInv, PlaceInv, NEW p \in Pullers,
         \/ Crash(p) \/ ReadMeta(p) \/ DropPart(p) \/ DropMeta(p) \/ Open(p)
         \/ Tick(p) \/ Join(p) \/ Rename(p) \/ Clean(p) \/ Stat(p) \/ Stream(p)
         \/ StreamBreaks(p) \/ Refused(p) \/ Check(p) \/ Close(p)
  PROVE  PlaceInv'
<1>1. pc[p] # "idle" /\ UNCHANGED Place
  BY DEF Crash, ReadMeta, DropPart, DropMeta, Open, Tick, Join, Rename, Clean, Stat, Stream,
     StreamBreaks, Refused, Check, Close
<1>2. \A q \in Pullers \ {p} : pc'[q] = pc[q]
  BY DEF Crash, ReadMeta, DropPart, DropMeta, Open, Tick, Join, Rename, Clean, Stat, Stream,
     StreamBreaks, Refused, Check, Close, Goto, Forget, QueueInv, QueueTypes
<1> QED
  BY <1>1, <1>2, PullKeepsPlace

LEMMA NextPlaceInv ==
  ASSUME Alone, QueueInv, PlaceInv, [Next]_vars
  PROVE  PlaceInv'
<1>1. CASE UNCHANGED vars
  BY <1>1 DEF vars, PlaceInv, Removing, InPlace
<1>2. CASE StartRemoval
  <2>1. rm' \in Seq(Entries) /\ Unlinks(rm', "meta") /\ \A p \in Pullers : pc'[p] = "idle"
    BY <1>2, RemovalsAssumption DEF StartRemoval, Alone, Orderly
  <2> QED
    BY <2>1 DEF PlaceInv, Removing, InPlace
<1>3. CASE RemoveNext
  <2>1. rm \in Seq(Entries) /\ rm # <<>> /\ rm' = Tail(rm) /\ UNCHANGED pc
    BY <1>3 DEF RemoveNext, PlaceInv, Removing
  <2>2. rm' \in Seq(Entries)
    BY <2>1
  <2>3. meta' # NoMeta => Unlinks(rm', "meta")
    <3> SUFFICES ASSUME meta' # NoMeta PROVE Unlinks(rm', "meta")
      OBVIOUS
    <3>1. Head(rm) # "meta" /\ meta # NoMeta
      BY <1>3 DEF RemoveNext
    <3>2. Unlinks(rm, "meta")
      BY <2>1, <3>1 DEF PlaceInv, Removing
    <3> QED
      BY <2>1, <3>1, <3>2, TailUnlinks
  <2>4. \A p \in Pullers : pc'[p] = "idle"
    BY <2>1, RemovalAlone
  <2> QED
    BY <2>2, <2>3, <2>4 DEF PlaceInv, Removing, InPlace
<1>4. CASE RemovalEnds
  <2>1. rm # <<>> /\ rm' = <<>> /\ UNCHANGED pc
    BY <1>4 DEF RemovalEnds
  <2> QED
    BY <2>1, RemovalAlone DEF PlaceInv, Removing, InPlace
<1>5. ASSUME NEW p \in Pullers, Start(p) PROVE PlaceInv'
  <2>1. rm = <<>> /\ rm' = <<>> /\ dir'
    BY <1>5 DEF Start, Alone, Orderly
  <2> QED
    BY <2>1 DEF PlaceInv, Removing, InPlace
<1>6. ASSUME NEW p \in Pullers,
             \/ Crash(p) \/ ReadMeta(p) \/ DropPart(p) \/ DropMeta(p) \/ Open(p)
             \/ Tick(p) \/ Join(p) \/ Rename(p) \/ Clean(p) \/ Stat(p) \/ Stream(p)
             \/ StreamBreaks(p) \/ Refused(p) \/ Check(p) \/ Close(p)
      PROVE  PlaceInv'
  BY <1>6, PullStepsKeepPlace
<1>7. ASSUME NEW p \in Pullers, NEW k \in Workers,
             Take(p, k) \/ GetChunk(p, k) \/ GetFails(p, k) \/ SetBit(p, k)
      PROVE  PlaceInv'
  BY <1>7, PullKeepsPlace DEF Take, GetChunk, GetFails, SetBit, Worker
<1> QED
  BY <1>1, <1>2, <1>3, <1>4, <1>5, <1>6, <1>7 DEF Next

LEMMA RemovalStep ==
  ASSUME Alone, FileInv, PlaceInv, StartRemoval \/ RemoveNext \/ RemovalEnds
  PROVE  FileInv'
<1>1. \A p \in Pullers : pc'[p] = "idle"
  BY RemovalAlone DEF StartRemoval, RemoveNext, RemovalEnds, Alone, Orderly
<1>2. \A p \in Pullers : AtStage(p)'
  BY <1>1
     DEF AtStage, Unpublished, InParallel, Fresh, Resumed, HasPart, InFlight, Arrived,
         Appending
<1>3. LocalTypes'
  BY DEF FileInv, LocalTypes, StartRemoval, RemoveNext, RemovalEnds, Local, Unlinked
<1>4. Stored'
  <2>1. CASE StartRemoval
    <3>1. UNCHANGED <<file, meta>> /\ rm = <<>>
      BY <2>1 DEF StartRemoval
    <3> QED
      BY <3>1 DEF FileInv, Stored, Exists, PublishedIsWhole, SidecarNeverLeads, Span
  <2>2. CASE RemoveNext
    <3>1. /\ rm # <<>> /\ rm \in Seq(Entries) /\ rm' = Tail(rm)
          /\ file' = [n \in {"part", "dest"} |-> IF n = Head(rm) THEN NoFile ELSE file[n]]
          /\ meta' = IF Head(rm) = "meta" THEN NoMeta ELSE meta
      BY <2>2 DEF RemoveNext, PlaceInv, Removing
    <3>2. /\ file' = [n \in {"part", "dest"} |-> file'[n]]
          /\ Exists("part")' => file'["part"] = file["part"] /\ Exists("part")
          /\ Exists("dest")' => file'["dest"] = file["dest"] /\ Exists("dest")
      BY <3>1 DEF Exists
    <3>3. meta' # NoMeta => meta' = meta /\ Head(rm) # "meta"
      BY <3>1
    <3>4. meta' # NoMeta => rm' # <<>>
      <4> SUFFICES ASSUME meta' # NoMeta PROVE Unlinks(rm', "meta")
        BY DEF Unlinks
      <4>1. Unlinks(rm, "meta")
        BY <3>1, <3>3 DEF PlaceInv, Removing
      <4> QED
        BY <3>1, <3>3, <4>1, TailUnlinks
    <3>5. PublishedIsWhole' /\ SidecarNeverLeads'
      BY <3>2, <3>3 DEF FileInv, Stored, PublishedIsWhole, SidecarNeverLeads, Span, Whole
    <3> QED
      BY <3>2, <3>3, <3>4, <3>5 DEF FileInv, Stored
  <2>3. CASE RemovalEnds
    <3>1. UNCHANGED <<file, meta>> /\ rm # <<>> /\ ~ Unlinks(rm, "meta")
      BY <2>3 DEF RemovalEnds, Alone, Orderly
    <3>2. meta = NoMeta
      BY <3>1 DEF PlaceInv, Removing
    <3> QED
      BY <3>1, <3>2 DEF FileInv, Stored, Exists, PublishedIsWhole, SidecarNeverLeads, Span
  <2> QED
    BY <2>1, <2>2, <2>3
<1> QED
  BY <1>2, <1>3, <1>4 DEF FileInv

LEMMA NextFileInv ==
  ASSUME Alone, QueueInv, FileInv, PlaceInv, [Next]_vars
  PROVE  FileInv'
<1>1. CASE UNCHANGED vars
  <2>1. Stored' /\ LocalTypes'
    BY <1>1, SameDisk DEF vars, FileInv, LocalTypes
  <2>2. ASSUME NEW p \in Pullers PROVE AtStage(p)'
    <3>1. AtStage(p)
      BY DEF FileInv
    <3> QED
      BY <1>1, <3>1 DEF vars, AtStage, Unpublished, InParallel, Fresh, Resumed, HasPart, InFlight,
         Arrived, Appending, Exists, Fetching, HeldIn, Span, Chunks, Whole
  <2> QED
    BY <2>1, <2>2 DEF FileInv
<1>2. CASE StartRemoval \/ RemoveNext \/ RemovalEnds
  BY <1>2, RemovalStep
<1>3. ASSUME NEW p \in Pullers,
             \/ Start(p) \/ ReadMeta(p) \/ DropPart(p) \/ DropMeta(p) \/ Open(p)
             \/ Tick(p) \/ Join(p) \/ Rename(p) \/ Clean(p)
      PROVE  FileInv'
  BY <1>3, StartStep, ReadMetaStep, DropStep, OpenStep, TickStep, JoinStep, RenameStep,
     CleanStep
<1>4. ASSUME NEW p \in Pullers,
             \/ Stat(p) \/ Stream(p) \/ StreamBreaks(p) \/ Refused(p) \/ Check(p)
             \/ Close(p) \/ Crash(p)
      PROVE  FileInv'
  BY <1>4, StatStep, StreamStep, StreamBreaksStep, RefusedStep, CheckStep, EndStep
<1>5. ASSUME NEW p \in Pullers, NEW k \in Workers,
             Take(p, k) \/ GetChunk(p, k) \/ GetFails(p, k) \/ SetBit(p, k)
      PROVE  FileInv'
  BY <1>5, TakeStep, GetChunkStep, GetFailsStep, SetBitStep
<1> QED
  BY <1>1, <1>2, <1>3, <1>4, <1>5 DEF Next

LEMMA FileInvariant == ASSUME Alone PROVE Spec => [](QueueInv /\ PlaceInv /\ FileInv)
<1>1. Init => QueueInv /\ PlaceInv /\ FileInv
  BY InitQueueInv, InitPlaceInv, InitFileInv
<1>2. (QueueInv /\ PlaceInv /\ FileInv) /\ [Next]_vars => (QueueInv /\ PlaceInv /\ FileInv)'
  BY NextKeepsQueueInv, NextPlaceInv, NextFileInv
<1> QED
  BY <1>1, <1>2, PTL DEF Spec

(* For one pull at a time, killed and restarted at any point, in either    *)
(* mode, and between pulls deletions that stop no earlier than with the    *)
(* sidecar gone (Alone): a file appears under its own name whole and       *)
(* right, or not at all.                                                   *)
THEOREM PublishedFilesAreWhole == ASSUME Alone PROVE Spec => []PublishedIsWhole
<1>1. FileInv => PublishedIsWhole
  BY DEF FileInv, Stored
<1> QED
  BY <1>1, FileInvariant, PTL

(* Under the same conditions the sidecar may lag the data on disk, and     *)
(* never leads it: fetch_parallel may skip the chunks that it records.     *)
THEOREM SidecarsLag == ASSUME Alone PROVE Spec => []SidecarNeverLeads
<1>1. FileInv => SidecarNeverLeads
  BY DEF FileInv, Stored
<1> QED
  BY <1>1, FileInvariant, PTL
================================================================================
