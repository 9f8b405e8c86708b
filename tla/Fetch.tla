---------------------------------- MODULE Fetch ----------------------------------
(***************************************************************************)
(* Downloading one file of a model (src/src/hub.rs): the range-parallel    *)
(* path with its work queue and its sidecar bitmap, the single-stream path *)
(* with its append-and-resume file, crashes, reruns, and the deletions of  *)
(* api.rs and main.rs, which unlink one entry after the other.             *)
(*                                                                         *)
(* A file is a sequence of cells; a cell holds the position whose bytes    *)
(* the Hub sent for it, Hole where nothing was written and Junk where the  *)
(* body of an error answer was.  An open file follows its inode: a rename  *)
(* carries it from "part" to "dest", an unlink or an overwrite to "lost".  *)
(* The Hub honours Range and answers 416 to a range past the end.  Removal *)
(* of an absent entry is no error to a deletion: it goes on with the next. *)
(***************************************************************************)
EXTENDS Integers, Sequences, FiniteSets

CONSTANTS
  Pullers,      \* processes and threads that may pull this file
  Size,         \* cells of the file, as the Hub's manifest says
  Geometries,   \* CIMA_PULL_CHUNK_MB, in cells
  Modes,        \* "parallel" and "single": CIMA_PULL_CONNS, or the size
  Workers,      \* connections of one parallel pull
  MaxAttempts,  \* attempts at one request, 5 or 6 in the code
  ErrorBodies,  \* the modes in which an error answer has a body
  BodyCells,    \* lengths of such a body, in cells
  DiskMayFill,  \* whether writes of the single stream may fail
  Removals,     \* sequences of entries in which a deletion unlinks them
  Undone,       \* what a deletion that stops halfway may have yet to unlink
  DeletesRace   \* whether deletions run beside pulls, as they may

ASSUME SizeAssumption == Size \in Nat \ {0}
ASSUME GeometriesAssumption == Geometries \subseteq Nat \ {0} /\ Geometries # {}
ASSUME ModesAssumption == Modes \subseteq {"parallel", "single"} /\ Modes # {}
ASSUME ErrorBodiesAssumption == ErrorBodies \subseteq {"parallel", "single"}
ASSUME BodiesAssumption == BodyCells \subseteq Nat \ {0}
ASSUME FlagsAssumption == DiskMayFill \in BOOLEAN /\ DeletesRace \in BOOLEAN
ASSUME AttemptsAssumption == MaxAttempts \in Nat \ {0}

(* What is in the directory of the model, and the directory itself.        *)
Entries == {"part", "meta", "dest", "dir"}

ASSUME RemovalsAssumption == Removals \subseteq Seq(Entries) /\ Undone \subseteq Seq(Entries)

(* Operators named ...Early, ...Shared, ...Endless and ...Anyway are bugs  *)
(* the code does not have; they only show that the properties can tell.    *)
VARIABLES
  file,   \* file["part"], file["dest"]: a sequence of cells, or NoFile
  meta,   \* the .part.meta sidecar, or NoMeta
  dir,    \* whether the directory exists
  rm,     \* what the deletion that runs has yet to unlink
  pc,     \* where each pull stands
  fd,     \* the file that each pull has open
  geo,    \* chunk size of each parallel pull
  bits,   \* chunks that each parallel pull holds complete
  next,   \* its work queue: chunks taken so far
  wk,     \* its workers
  sent    \* single stream: FileSink.written and the attempt

vars == <<file, meta, dir, rm, pc, fd, geo, bits, next, wk, sent>>

Hole == 0
Junk == -1
NoFile == <<-2>>
NoMeta == [geo |-> 0, bits |-> {}]

Whole == [c \in 1 .. Size |-> c]

Exists(name) == file[name] # NoFile

(* Chunks of a geometry, and the cells of a chunk: the last may be short.  *)
Chunks(g) == 1 .. ((Size + g - 1) \div g)
Span(i, g) == {c \in 1 .. Size : (i - 1) * g < c /\ c <= i * g}

IdleWorker == [pc |-> "none", i |-> 0, try |-> 0]
NotSent == [written |-> 0, try |-> 0]

Init ==
  /\ file = [name \in {"part", "dest"} |-> NoFile]
  /\ meta = NoMeta
  /\ dir = FALSE
  /\ rm = <<>>
  /\ pc = [p \in Pullers |-> "idle"]
  /\ fd = [p \in Pullers |-> "none"]
  /\ geo = [p \in Pullers |-> 0]
  /\ bits = [p \in Pullers |-> {}]
  /\ next = [p \in Pullers |-> 0]
  /\ wk = [p \in Pullers |-> [k \in Workers |-> IdleWorker]]
  /\ sent = [p \in Pullers |-> NotSent]

Goto(p, stage) == pc' = [pc EXCEPT ![p] = stage]

(* The pull returns, or its process dies: what it held in memory is gone.  *)
Forget(p) ==
  /\ Goto(p, "idle")
  /\ fd' = [fd EXCEPT ![p] = "none"]
  /\ geo' = [geo EXCEPT ![p] = 0]
  /\ bits' = [bits EXCEPT ![p] = {}]
  /\ next' = [next EXCEPT ![p] = 0]
  /\ wk' = [wk EXCEPT ![p] = [k \in Workers |-> IdleWorker]]
  /\ sent' = [sent EXCEPT ![p] = NotSent]

Local == <<geo, bits, next, wk, sent>>

Place == <<dir, rm>>

(* unlink and rename, with the files that others have open.                *)
Unlinked(name) == [q \in Pullers |-> IF fd[q] = name THEN "lost" ELSE fd[q]]

Renamed == [q \in Pullers |-> IF fd[q] = "dest" THEN "lost"
                              ELSE IF fd[q] = "part" THEN "dest"
                              ELSE fd[q]]

(* Write through an open file.                                             *)
Written(p, contents) ==
  IF fd[p] \in {"part", "dest"} THEN [file EXCEPT ![fd[p]] = contents] ELSE file

Opened(p) == IF fd[p] \in {"part", "dest"} THEN file[fd[p]] ELSE Whole

--------------------------------------------------------------------------------
(* fetch_file: skip a file of the right length, make the directory, choose *)
(* a path.                                                                 *)

Start(p) ==
  /\ pc[p] = "idle"
  /\ DeletesRace \/ rm = <<>>
  /\ Exists("dest") => Len(file["dest"]) # Size
  /\ dir' = TRUE
  /\ \/ /\ "parallel" \in Modes
        /\ Goto(p, "meta")
        /\ \E g \in Geometries : geo' = [geo EXCEPT ![p] = g]
        /\ UNCHANGED sent
     \/ /\ "single" \in Modes
        /\ Goto(p, "stat")
        /\ UNCHANGED <<geo, sent>>
  /\ UNCHANGED <<file, meta, rm, fd, bits, next, wk>>

--------------------------------------------------------------------------------
(* fetch_parallel.                                                         *)

(* meta_read: a sidecar of another geometry counts as none.                *)
Prior(g) == meta # NoMeta /\ meta.geo = g

ReadMeta(p) ==
  /\ pc[p] = "meta"
  /\ bits' = [bits EXCEPT ![p] = IF Prior(geo[p]) THEN meta.bits ELSE {}]
  /\ Goto(p, IF ~ Prior(geo[p]) /\ Exists("part") THEN "drop" ELSE "open")
  /\ UNCHANGED <<file, meta, Place, fd, geo, next, wk, sent>>

(* A .part with no matching sidecar cannot be trusted.                     *)
DropPart(p) ==
  /\ pc[p] = "drop"
  /\ file' = [file EXCEPT !["part"] = NoFile]
  /\ fd' = Unlinked("part")
  /\ Goto(p, "dropmeta")
  /\ UNCHANGED <<meta, Place, Local>>

DropMeta(p) ==
  /\ pc[p] = "dropmeta"
  /\ meta' = NoMeta
  /\ Goto(p, "open")
  /\ UNCHANGED <<file, Place, fd, Local>>

(* Open without truncating, set_len(size), spawn the workers.  It fails in *)
(* a directory that has gone.                                              *)
Preallocated(old) ==
  [c \in 1 .. Size |-> IF old # NoFile /\ c <= Len(old) THEN old[c] ELSE Hole]

Open(p) ==
  /\ pc[p] = "open"
  /\ IF dir
       THEN /\ file' = [file EXCEPT !["part"] = Preallocated(@)]
            /\ fd' = [fd EXCEPT ![p] = "part"]
            /\ wk' = [wk EXCEPT ![p] = [k \in Workers |-> [IdleWorker EXCEPT !.pc = "take"]]]
            /\ Goto(p, "fetching")
            /\ UNCHANGED <<geo, bits, next, sent>>
       ELSE Forget(p) /\ UNCHANGED file
  /\ UNCHANGED <<meta, Place>>

Worker(p, k, stage) == pc[p] = "fetching" /\ wk[p][k].pc = stage

(* next.fetch_add, the end of the queue, and chunks already complete.      *)
TakeFrom(p, k, i) ==
  wk' = [wk EXCEPT ![p][k] =
           IF i \notin Chunks(geo[p]) THEN [IdleWorker EXCEPT !.pc = "done"]
           ELSE IF i \in bits[p] THEN [IdleWorker EXCEPT !.pc = "take"]
           ELSE [pc |-> "get", i |-> i, try |-> 1]]

TakeShared(p, k) ==
  /\ Worker(p, k, "take")
  /\ \E n \in {next[p], IF next[p] = 0 THEN 0 ELSE next[p] - 1} :
       /\ TakeFrom(p, k, n + 1)
       /\ next' = [next EXCEPT ![p] = n + 1]
  /\ UNCHANGED <<file, meta, Place, pc, fd, geo, bits, sent>>

Take(p, k) ==
  /\ Worker(p, k, "take")
  /\ TakeFrom(p, k, next[p] + 1)
  /\ next' = [next EXCEPT ![p] = @ + 1]
  /\ UNCHANGED <<file, meta, Place, pc, fd, geo, bits, sent>>

(* curl_get of the chunk's range answers 2xx with all of it.               *)
GetChunk(p, k) ==
  /\ Worker(p, k, "get")
  /\ LET span == Span(wk[p][k].i, geo[p])
     IN file' = Written(p, [c \in DOMAIN Opened(p) |->
                              IF c \in span THEN c ELSE Opened(p)[c]])
  /\ wk' = [wk EXCEPT ![p][k].pc = "mark"]
  /\ UNCHANGED <<meta, Place, pc, fd, geo, bits, next, sent>>

(* The transfer breaks off, a write fails, or the Hub answers an error:    *)
(* the chunk keeps a first part of its bytes, or the error body, which may *)
(* be longer than the chunk and than what is left of the file.             *)
WithBody(cells, first, n) ==
  [c \in 1 .. (IF first + n - 1 > Len(cells) THEN first + n - 1 ELSE Len(cells)) |->
     IF first <= c /\ c < first + n THEN Junk ELSE cells[c]]

Remains(p, k) ==
  LET span == Span(wk[p][k].i, geo[p])
      first == CHOOSE c \in span : \A d \in span : c <= d
      prefixes == {[c \in DOMAIN Opened(p) |->
                      IF c \in span /\ c < end THEN c ELSE Opened(p)[c]] : end \in span}
      junked == {WithBody(Opened(p), first, n) : n \in BodyCells}
  IN prefixes \cup (IF "parallel" \in ErrorBodies THEN junked ELSE {})

GetFails(p, k) ==
  /\ Worker(p, k, "get")
  /\ \E contents \in Remains(p, k) : file' = Written(p, contents)
  /\ \E write_error \in BOOLEAN :
       wk' = [wk EXCEPT ![p][k] =
                IF write_error \/ wk[p][k].try >= MaxAttempts
                THEN [IdleWorker EXCEPT !.pc = "failed"]
                ELSE [wk[p][k] EXCEPT !.try = @ + 1]]
  /\ UNCHANGED <<meta, Place, pc, fd, geo, bits, next, sent>>

(* bits[i].store(true), once every byte has been written.                  *)
SetBit(p, k) ==
  /\ Worker(p, k, "mark")
  /\ bits' = [bits EXCEPT ![p] = @ \cup {wk[p][k].i}]
  /\ wk' = [wk EXCEPT ![p][k] = [IdleWorker EXCEPT !.pc = "take"]]
  /\ UNCHANGED <<file, meta, Place, pc, fd, geo, next, sent>>

SaveEarly(p) ==
  meta' = IF dir
          THEN [geo |-> geo[p], bits |-> bits[p] \cup
                  {wk[p][k].i : k \in {j \in Workers : wk[p][j].pc = "get"}}]
          ELSE meta

(* meta_write: temp, then rename; that it may fail is ignored.             *)
Save(p) == meta' = IF dir THEN [geo |-> geo[p], bits |-> bits[p]] ELSE meta

(* The reporter thread, every two seconds.                                 *)
Tick(p) ==
  /\ pc[p] = "fetching"
  /\ Save(p)
  /\ UNCHANGED <<file, Place, pc, fd, Local>>

JoinAnyway(p) ==
  /\ pc[p] = "fetching"
  /\ \A k \in Workers : wk[p][k].pc \in {"done", "failed"}
  /\ Save(p)
  /\ Goto(p, "rename")
  /\ UNCHANGED <<file, Place, fd, Local>>

(* Join the workers and save; any error or missing chunk ends the pull.    *)
Join(p) ==
  /\ pc[p] = "fetching"
  /\ \A k \in Workers : wk[p][k].pc \in {"done", "failed"}
  /\ Save(p)
  /\ IF bits[p] = Chunks(geo[p]) /\ \A k \in Workers : wk[p][k].pc = "done"
       THEN Goto(p, "rename") /\ UNCHANGED <<fd, Local>>
       ELSE Forget(p)
  /\ UNCHANGED <<file, Place>>

(* rename(part, dest), for both paths: it fails if there is no .part.      *)
Publish(p) ==
  /\ file' = [part |-> NoFile, dest |-> file["part"]]
  /\ fd' = Renamed

Rename(p) ==
  /\ pc[p] = "rename"
  /\ IF Exists("part")
       THEN /\ Publish(p)
            /\ Goto(p, "clean")
            /\ UNCHANGED Local
       ELSE Forget(p) /\ UNCHANGED file
  /\ UNCHANGED <<meta, Place>>

(* remove_file(meta).                                                      *)
Clean(p) ==
  /\ pc[p] = "clean"
  /\ meta' = NoMeta
  /\ Forget(p)
  /\ UNCHANGED <<file, Place>>

--------------------------------------------------------------------------------
(* The single stream.                                                      *)

(* resume_from is the length of the .part; open for append.                *)
Stat(p) ==
  /\ pc[p] = "stat"
  /\ IF dir
       THEN /\ sent' = [sent EXCEPT ![p] =
                 [written |-> IF Exists("part") THEN Len(file["part"]) ELSE 0, try |-> 1]]
            /\ file' = [file EXCEPT !["part"] = IF @ = NoFile THEN <<>> ELSE @]
            /\ fd' = [fd EXCEPT ![p] = "part"]
            /\ Goto(p, "stream")
            /\ UNCHANGED <<geo, bits, next, wk>>
       ELSE Forget(p) /\ UNCHANGED file
  /\ UNCHANGED <<meta, Place>>

(* The Hub sends cells from + 1 to end, appended wherever the file ends.   *)
(* FileSink ignores a write that fails and counts its bytes all the same.  *)
AppendTo(p, from, end) ==
  \E kept \in IF DiskMayFill THEN from .. end ELSE {end} :
    file' = Written(p, Opened(p) \o [c \in 1 .. (kept - from) |-> from + c])

(* The rest of the file arrives, 2xx.                                      *)
Stream(p) ==
  /\ pc[p] = "stream"
  /\ LET from == sent[p].written
     IN /\ from < Size
        /\ AppendTo(p, from, Size)
        /\ sent' = [sent EXCEPT ![p].written = Size]
  /\ Goto(p, "check")
  /\ UNCHANGED <<meta, Place, fd, geo, bits, next, wk>>

(* The transfer breaks off: the next attempt resumes after what arrived.   *)
StreamBreaks(p) ==
  /\ pc[p] = "stream"
  /\ LET from == sent[p].written
     IN \E end \in from .. (Size - 1) :
          /\ AppendTo(p, from, end)
          /\ IF sent[p].try >= MaxAttempts
               THEN Forget(p)
               ELSE /\ sent' = [sent EXCEPT ![p] = [written |-> end, try |-> @.try + 1]]
                    /\ UNCHANGED <<pc, fd, geo, bits, next, wk>>
  /\ UNCHANGED <<meta, Place>>

(* An error answer, 416 for one when nothing is left to ask for: its body  *)
(* goes where the data goes, and the .part is kept for resume.             *)
Refused(p) ==
  /\ pc[p] = "stream"
  /\ \E n \in IF "single" \in ErrorBodies THEN {0} \cup BodyCells ELSE {0} :
       /\ Len(Opened(p)) <= Size  \* bound of the model: one body past the end
       /\ file' = Written(p, WithBody(Opened(p), Len(Opened(p)) + 1, n))
  /\ Forget(p)
  /\ UNCHANGED <<meta, Place>>

(* The length check against the manifest, and the rename.                  *)
Check(p) ==
  /\ pc[p] = "check"
  /\ IF sent[p].written = Size /\ Exists("part")
       THEN Publish(p)
       ELSE UNCHANGED <<file, fd>>
  /\ Goto(p, "close")
  /\ UNCHANGED <<meta, Place, Local>>

(* fetch_file returns and closes the file.                                 *)
Close(p) ==
  /\ pc[p] = "close"
  /\ Forget(p)
  /\ UNCHANGED <<file, meta, Place>>

--------------------------------------------------------------------------------
(* The process is killed, at any point.                                    *)
Crash(p) ==
  /\ pc[p] # "idle"
  /\ Forget(p)
  /\ UNCHANGED <<file, meta, Place>>

(* handle_delete, cima rm: remove_dir_all reads the directory and unlinks  *)
(* what it finds, in the order it finds it, then removes the directory.    *)
(* cima rm of a tag unlinks the files of the tag and stops there, if other *)
(* models are left.  Neither takes a lock or asks for pulls.               *)
StartRemoval ==
  /\ rm = <<>> /\ dir
  /\ DeletesRace \/ \A p \in Pullers : pc[p] = "idle"
  /\ rm' \in Removals
  /\ UNCHANGED <<file, meta, dir, pc, fd, Local>>

(* One unlink, or the rmdir, which fails unless all is gone.               *)
RemoveNext ==
  /\ rm # <<>>
  /\ rm' = Tail(rm)
  /\ LET name == Head(rm)
     IN /\ file' = [n \in {"part", "dest"} |-> IF n = name THEN NoFile ELSE file[n]]
        /\ fd' = Unlinked(name)
        /\ meta' = IF name = "meta" THEN NoMeta ELSE meta
        /\ dir' = IF name = "dir" THEN Exists("part") \/ Exists("dest") \/ meta # NoMeta
                  ELSE dir
  /\ UNCHANGED <<pc, Local>>

(* The server or the command is killed at it, or an unlink fails: what was *)
(* left to do stays undone.                                                *)
RemovalEnds ==
  /\ rm # <<>> /\ rm \in Undone
  /\ rm' = <<>>
  /\ UNCHANGED <<file, meta, dir, pc, fd, Local>>

Next ==
  \/ \E p \in Pullers :
       \/ Start(p) \/ Crash(p)
       \/ ReadMeta(p) \/ DropPart(p) \/ DropMeta(p) \/ Open(p)
       \/ Tick(p) \/ Join(p) \/ Rename(p) \/ Clean(p)
       \/ Stat(p) \/ Stream(p) \/ StreamBreaks(p) \/ Refused(p) \/ Check(p)
       \/ Close(p)
       \/ \E k \in Workers : Take(p, k) \/ GetChunk(p, k) \/ GetFails(p, k) \/ SetBit(p, k)
  \/ StartRemoval \/ RemoveNext \/ RemovalEnds

Spec == Init /\ [][Next]_vars

--------------------------------------------------------------------------------
(* Properties.                                                             *)

Stages == {"idle", "meta", "drop", "dropmeta", "open", "fetching", "rename",
           "clean", "stat", "stream", "check", "close"}

Cells == {Hole, Junk} \cup 1 .. Size

AllChunks == 1 .. Size

(* Types of the variables; a work queue is never run past its end by more  *)
(* than one step of each worker, and there are files only in a directory.  *)
TypeOK ==
  /\ \A name \in {"part", "dest"} : Exists(name) => dir /\ file[name] \in Seq(Cells)
  /\ meta.bits \subseteq AllChunks /\ (meta # NoMeta => dir)
  /\ dir \in BOOLEAN /\ rm \in Seq(Entries)
  /\ pc \in [Pullers -> Stages]
  /\ fd \in [Pullers -> {"none", "part", "dest", "lost"}]
  /\ \A p \in Pullers : bits[p] \subseteq AllChunks
  /\ \A p \in Pullers : next[p] <= Size + Cardinality(Workers)
  /\ \A p \in Pullers, k \in Workers : wk[p][k].try <= MaxAttempts

(* What appears under its own name is the file, whole and right: no hole,  *)
(* no error body and no misplaced bytes, whatever crashed, broke off, was  *)
(* resumed or deleted in part before.  fetch_file takes its length as      *)
(* proof of that ever after.  Not so beside a deletion, or after one that  *)
(* stopped with the sidecar left: the run and the theorem exclude these.   *)
PublishedIsWhole == Exists("dest") => file["dest"] = Whole

(* The sidecar "can lag the file but never lead it" (meta_write): the      *)
(* bytes of every chunk that it records are in the .part, in their place,  *)
(* under the same conditions on deletions.                                 *)
SidecarNeverLeads ==
  meta # NoMeta /\ Exists("part") =>
    \A i \in meta.bits : \A c \in Span(i, meta.geo) :
      c \in DOMAIN file["part"] /\ file["part"][c] = c

(* No two connections of a pull write the same chunk, and none writes a    *)
(* chunk that is complete: a late retry cannot spoil what was counted.     *)
Fetching(p, k) == wk[p][k].pc \in {"get", "mark"}

OneWriterPerChunk ==
  \A p \in Pullers, k \in Workers :
    Fetching(p, k) =>
      /\ wk[p][k].i \notin bits[p]
      /\ \A j \in Workers \ {k} : Fetching(p, j) => wk[p][j].i # wk[p][k].i
================================================================================
