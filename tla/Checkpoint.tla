------------------------------- MODULE Checkpoint -------------------------------
(* Opening a checkpoint: formats.rs, and the preflight of hub.rs (vet)     *)
(* that reads the same headers over HTTP ranges before anything is pulled. *)
(* A file is its header, as the widths of the fields a cursor walks, the   *)
(* tensor table the header holds, and a length.  Files come from outside:  *)
(* a header may lie, and a file may be shorter on disk than it was on the  *)
(* Hub.                                                                    *)
EXTENDS Integers, Sequences, FiniteSets, SequencesExt, Names

CONSTANTS
  Repos,    \* the checkpoints there may be
  Window,   \* the first range the preflight asks for (4 MiB)
  Cap       \* the largest (256 MiB)

ASSUME WindowAssumption ==
  Window \in Nat \ {0} /\ \E k \in {1, 2, 4, 8, 16, 32, 64} : Cap = k * Window

NoFile == "none"

(* What a header can say: its numbers are unsigned, and its alignment is   *)
(* not 0, by which the parser would divide.  The sums and products that    *)
(* the code forms of them are taken to fit into its 64 bits.               *)
ASSUME RepoAssumption ==
  \A r \in Repos :
    /\ r.kind \in {"gguf", "st"}
    /\ r.parts \in Seq(DOMAIN r.files) /\ r.index \in Seq(DOMAIN r.files)
    /\ r.mmproj \in DOMAIN r.files \cup {NoFile}
    /\ \A n \in DOMAIN r.files :
         LET f == r.files[n] IN
         /\ f.magic \in BOOLEAN /\ f.fields \in Seq(Nat) /\ f.len \in Nat
         /\ f.align \in Nat \ {0} /\ IsFiniteSet(f.tensors)
         /\ \A t \in f.tensors :
              IsName(t.name) /\ t.off \in Nat /\ t.end \in Nat /\ t.shape \in Seq(Nat)

(* What the kernels execute: elements and bytes of a block.                *)
Codecs == [F16 |-> [grain |-> 1, bytes |-> 2], Q4 |-> [grain |-> 4, bytes |-> 3]]
NoCodec == "IQ2"

VARIABLES
  repo,      \* the checkpoint on the Hub
  disk,      \* the length each of its files has on disk, 0 when missing
  pc, want,  \* of the preflight: the window
  passed,    \* the tensors the preflight validated, per file
  i,         \* the next part or shard to open
  table,     \* tensors(): Hugging Face name -> where it is
  extra      \* merge_extra has run

vars == <<repo, disk, pc, want, passed, i, table, extra>>

Empty == [n \in {} |-> NoFile]
Total(s) ==
  LET sum[k \in 0 .. Len(s)] == IF k = 0 THEN 0 ELSE sum[k - 1] + s[k] IN sum[Len(s)]
(* What a table has already stays.                                         *)
Keeping(old, new) ==
  [n \in DOMAIN old \cup DOMAIN new |-> IF n \in DOMAIN old THEN old[n] ELSE new[n]]
RoundUp(n, a) == ((n + a - 1) \div a) * a
Smaller(a, b) == IF a < b THEN a ELSE b
Larger(a, b) == IF a > b THEN a ELSE b

Numel(shape) ==
  LET product[k \in 0 .. Len(shape)] == IF k = 0 THEN 1 ELSE product[k - 1] * shape[k]
  IN product[Len(shape)]
storage_bytes(dtype, numel) == (numel \div Codecs[dtype].grain) * Codecs[dtype].bytes

ggml_dtype(dtype) == dtype \in DOMAIN Codecs
--------------------------------------------------------------------------------
(* Headers.                                                                *)

(* A cursor over the first n bytes takes the fields one by one; a field    *)
(* that reaches past them is "truncated file".                             *)
take(c, w, n) ==
  IF ~c.ok \/ c.pos + w > n THEN [c EXCEPT !.ok = FALSE] ELSE [c EXCEPT !.pos = @ + w]
Cursor(fields, n) ==
  LET c[k \in 0 .. Len(fields)] ==
        IF k = 0 THEN [ok |-> TRUE, pos |-> 0] ELSE take(c[k - 1], fields[k], n)
  IN c[Len(fields)]

Values(f) == \A t \in f.tensors : ggml_dtype(t.dtype)

(* parse_header_bytes: the header alone, without bounds.                   *)
parse_header_bytes(f, n) == f.magic /\ Cursor(f.fields, n).ok /\ Values(f)

DataStart(f) == RoundUp(Total(f.fields), f.align)
At(f, t) == DataStart(f) + t.off

(* parse_part: every tensor must end inside the file.                      *)
\* A slip: a part checked without the start of its data.
parse_partWithoutBase(f, len) ==
  /\ f.magic /\ Cursor(f.fields, len).ok /\ Values(f)
  /\ \A t \in f.tensors : t.off + storage_bytes(t.dtype, Numel(t.shape)) <= len

parse_part(f, len) ==
  /\ f.magic /\ Cursor(f.fields, len).ok /\ Values(f)
  /\ \A t \in f.tensors : At(f, t) + storage_bytes(t.dtype, Numel(t.shape)) <= len

(* parse_shard: the offsets must be ordered, inside the file, as long as   *)
(* shape and dtype say, and no two may overlap once sorted.                *)
Before(a, b) == a.off < b.off \/ (a.off = b.off /\ a.end <= b.end)
Spans(f) ==
  CHOOSE s \in SetToSeqs(f.tensors) : \A j, k \in DOMAIN s : j < k => Before(s[j], s[k])

parse_shard(f, len) ==
  /\ f.magic /\ Total(f.fields) <= len
  /\ \A t \in f.tensors :
       /\ t.dtype = "F16"
       /\ t.off <= t.end /\ t.end <= len - Total(f.fields)
       /\ Larger(Numel(t.shape), 1) * Codecs[t.dtype].bytes = t.end - t.off
  /\ \A k \in 1 .. Len(Spans(f)) - 1 : Spans(f)[k + 1].off >= Spans(f)[k].end
--------------------------------------------------------------------------------
(* Which files make the checkpoint.                                        *)

IsGguf == repo.kind = "gguf"
File(n) == repo.files[n]
OnDisk == {n \in DOMAIN repo.files : disk[n] > 0}

(* split_set: the name of any part gives all of them.                      *)
SplitSet == repo.parts

(* discover_shards: the index, one lone file, or what the directory holds, *)
(* sorted; the parts of a repository are listed by name.                   *)
Found == {k \in DOMAIN repo.parts : repo.parts[k] \in OnDisk}
FoundInOrder ==
  CHOOSE s \in SetToSeqs(Found) : \A j, k \in DOMAIN s : j < k => s[j] < s[k]
Shards ==
  IF repo.index # <<>> THEN repo.index
  ELSE IF "model.safetensors" \in OnDisk THEN <<"model.safetensors">>
  ELSE [k \in 1 .. Cardinality(Found) |-> repo.parts[FoundInOrder[k]]]

ToOpen == IF IsGguf THEN SplitSet ELSE Shards
FilesThere == \A k \in DOMAIN ToOpen : ToOpen[k] \in OnDisk

Placed(n, t) ==
  [file |-> n, offset |-> IF IsGguf THEN At(File(n), t) ELSE Total(File(n).fields) + t.off,
   nbytes |-> IF IsGguf THEN storage_bytes(t.dtype, Numel(t.shape)) ELSE t.end - t.off,
   dtype |-> t.dtype, shape |-> t.shape]

(* The table of one file under translated names.                           *)
TableOf(n, translate(_)) ==
  LET ts == File(n).tensors
  IN [hf \in {translate(t.name) : t \in ts} |->
        Placed(n, CHOOSE t \in ts : translate(t.name) = hf)]

Verbatim(name) == name
translate(name) ==
  IF ~IsGguf THEN Verbatim(name)
  ELSE IF repo.arch = "gemma4" THEN translate_gemma4(name) ELSE translate_name(name)
--------------------------------------------------------------------------------
(* The preflight of vet.                                                   *)

Init ==
  /\ repo \in Repos
  /\ \E left \in [DOMAIN repo.files -> {"whole", "short", "gone"}] :
       disk = [n \in DOMAIN repo.files |->
                 CASE left[n] = "whole" -> repo.files[n].len
                   [] left[n] = "short" -> repo.files[n].len - 1
                   [] OTHER -> 0]
  /\ pc = "preflight" /\ want = Window /\ i = 1
  /\ passed = Empty /\ table = Empty /\ extra = FALSE

(* How far the range from 0 reaches; it is inclusive.                      *)
Reach(f) == Smaller(want, f.len - 1) + 1

RowsFit(f) ==
  \A t \in f.tensors :
    IF t.shape = <<>> THEN TRUE ELSE t.shape[Len(t.shape)] % Codecs[t.dtype].grain = 0

Current == ToOpen[i]
\* A slip: the window one step short.
GrowsShort(f) == want * 2 < Cap /\ Smaller(want, f.len - 1) < f.len - 1

Grows(f) == want < Cap /\ Smaller(want, f.len - 1) < f.len - 1

Preflight ==
  /\ pc = "preflight" /\ IsGguf /\ i <= Len(SplitSet)
  /\ LET f == File(Current)
         parsed == parse_header_bytes(f, Reach(f))
     IN CASE parsed /\ RowsFit(f) ->
               /\ passed' = Keeping([n \in {Current} |-> f.tensors], passed)
               /\ i' = i + 1 /\ want' = Window /\ pc' = pc
          [] ~parsed /\ Grows(f) -> want' = want * 2 /\ UNCHANGED <<passed, i, pc>>
          [] OTHER -> pc' = "refused" /\ UNCHANGED <<passed, i, want>>
  /\ UNCHANGED <<repo, disk, table, extra>>

(* preflight_safetensors: the length field, then exactly the header.       *)
PreflightShard ==
  /\ pc = "preflight" /\ ~IsGguf /\ i <= Len(repo.parts)
  /\ LET n == repo.parts[i]
         f == File(n)
         ok == Total(f.fields) <= f.len /\ f.magic
                 /\ \A t \in f.tensors : t.dtype = "F16"
     IN IF ok THEN /\ passed' = Keeping([m \in {n} |-> f.tensors], passed)
                   /\ i' = i + 1 /\ pc' = pc
        ELSE pc' = "refused" /\ UNCHANGED <<passed, i>>
  /\ UNCHANGED <<repo, disk, want, table, extra>>

PreflightDone ==
  /\ pc = "preflight" /\ i > Len(repo.parts)
  /\ pc' = "open" /\ i' = 1 /\ UNCHANGED <<repo, disk, want, passed, table, extra>>

(* Nothing makes a user vet a model before loading it.                     *)
SkipPreflight ==
  /\ pc \in {"preflight", "refused"}
  /\ pc' = "open" /\ i' = 1 /\ passed' = Empty
  /\ UNCHANGED <<repo, disk, want, table, extra>>
--------------------------------------------------------------------------------
(* GgufWeights::open and SafetensorsLoader::load.                          *)

Parses(n) == IF IsGguf THEN parse_part(File(n), disk[n]) ELSE parse_shard(File(n), disk[n])

Missing ==
  /\ pc = "open" /\ i = 1 /\ (~FilesThere \/ ToOpen = <<>>)
  /\ pc' = "failed" /\ UNCHANGED <<repo, disk, want, passed, i, table, extra>>

OpenPart ==
  /\ pc = "open" /\ FilesThere /\ i \in DOMAIN ToOpen
  /\ LET new == TableOf(Current, translate)
         twice == DOMAIN new \cap DOMAIN table # {}
                    \/ Cardinality(DOMAIN new) # Cardinality(File(Current).tensors)
     IN IF Parses(Current) /\ ~twice
        THEN table' = Keeping(table, new) /\ i' = i + 1 /\ pc' = pc
        ELSE table' = Empty /\ pc' = "failed" /\ i' = i
  /\ UNCHANGED <<repo, disk, want, passed, extra>>

Opened ==
  /\ pc = "open" /\ i \notin DOMAIN ToOpen /\ ToOpen # <<>>
  /\ pc' = IF table = Empty /\ ~IsGguf THEN "failed" ELSE "opened"
  /\ UNCHANGED <<repo, disk, want, passed, i, table, extra>>

(* merge_extra: the projector file.  What collides with the main file is   *)
(* skipped with a warning, and a second one of its own names as well.      *)
merge_extra ==
  /\ pc = "opened" /\ ~extra /\ IsGguf /\ repo.mmproj # NoFile
  /\ IF disk[repo.mmproj] > 0 /\ parse_part(File(repo.mmproj), disk[repo.mmproj])
     THEN /\ table' = Keeping(table, TableOf(repo.mmproj, translate_mmproj))
          /\ extra' = TRUE /\ pc' = pc
     ELSE pc' = "failed" /\ table' = Empty /\ extra' = extra
  /\ UNCHANGED <<repo, disk, want, passed, i>>

Next ==
  \/ Preflight \/ PreflightShard \/ PreflightDone \/ SkipPreflight
  \/ Missing \/ OpenPart \/ Opened \/ merge_extra

Spec == Init /\ [][Next]_vars
--------------------------------------------------------------------------------
TypeOK ==
  /\ repo \in Repos /\ pc \in {"preflight", "refused", "open", "opened", "failed"}
  /\ want \in Window .. Cap /\ i \in Nat \ {0}
  /\ DOMAIN passed \subseteq DOMAIN repo.files
  /\ \A n \in DOMAIN table :
       table[n].file \in DOMAIN repo.files /\ table[n].dtype \in DOMAIN Codecs

Bytes(n) == table[n].offset .. table[n].offset + table[n].nbytes - 1

(* bytes() of a tensor never leaves its file, nor reaches into the header: *)
(* whatever the header says and however much of the file is there, as long *)
(* as the sums it asks for stay below 2^64 (formats.rs:586).               *)
InItsFile ==
  \A n \in DOMAIN table :
    /\ table[n].offset >= Total(File(table[n].file).fields)
    /\ table[n].offset + table[n].nbytes <= disk[table[n].file]

(* Sorting the spans and comparing neighbours is enough: in a safetensors  *)
(* checkpoint that opened no byte belongs to two tensors.                  *)
NoAlias ==
  ~IsGguf => \A m, n \in DOMAIN table :
    m # n /\ table[m].file = table[n].file => Bytes(m) \cap Bytes(n) = {}

(* A checkpoint that opened has every tensor of every part of its set:     *)
(* none went missing with a part, and none hides another, nor does one of  *)
(* the projector file.  Without an index a lost shard goes unnoticed here, *)
(* and the builders miss its tensors.                                      *)
OpenIsWhole ==
  pc = "opened" /\ (IsGguf \/ repo.index # <<>>) =>
    \A k \in DOMAIN ToOpen : \A t \in File(ToOpen[k]).tensors :
      /\ translate(t.name) \in DOMAIN table
      /\ table[translate(t.name)].file = ToOpen[k]

(* What parse_part, parse_shard and merge_extra let through can be read    *)
(* without another check, as bytes() does, if no sum of them wraps.        *)
OpenIsSound == InItsFile /\ NoAlias /\ OpenIsWhole

(* What the growing window validated is the header of the whole file, and  *)
(* with it no tensor ends in half a block: the bytes the loader counts     *)
(* hold all its elements.  Of a tensor without dimensions the preflight    *)
(* takes the row for empty, while the loader counts one element.           *)
PreflightIsWhole ==
  /\ \A n \in DOMAIN passed : Total(File(n).fields) <= File(n).len
  /\ IsGguf => \A n \in DOMAIN passed : \A t \in passed[n] : t.shape # <<>> =>
       storage_bytes(t.dtype, Numel(t.shape)) * Codecs[t.dtype].grain
         = Numel(t.shape) * Codecs[t.dtype].bytes

(* A header that fits under the cap is found, whatever the size of the     *)
(* file: the window does not stop short of the end.                        *)
PreflightFinds ==
  pc = "refused" /\ IsGguf =>
    LET f == File(Current)
    IN f.magic /\ Values(f) /\ RowsFit(f) => Total(f.fields) > Smaller(f.len, Cap)

(* The preflight of a file in the hub and the parser on disk agree.        *)
PreflightIsExact == PreflightIsWhole /\ PreflightFinds

(* The files hold all that a converter writes for a model of this kind.    *)
TextIsWhole ==
  \A n \in IF repo.arch = "gemma4" THEN TextExport(Gemma4Stems, Gemma4Tops)
                                   ELSE TextExport(TextStems, TextTops) :
    \E k \in DOMAIN SplitSet : \E t \in File(SplitSet[k]).tensors : t.name = n
TowersAreWhole == {t.name : t \in File(repo.mmproj).tensors} = TowerExport

(* The two sides meet: of a complete export every tensor the builders ask  *)
(* for is in the table under the name they ask by, and none of the         *)
(* projector's was lost to a collision.                                    *)
BuildersFindTheirs ==
  /\ pc = "opened" /\ IsGguf /\ TextIsWhole =>
       IF repo.arch = "gemma4" THEN Gemma4Asks({}) \subseteq DOMAIN table
                               ELSE StdAsks \subseteq DOMAIN table
  /\ extra /\ TowersAreWhole =>
       /\ VisionAsks \cup AudioAsks \subseteq DOMAIN table
       /\ \A s, t \in File(repo.mmproj).tensors :
            s.name # t.name => translate_mmproj(s.name) # translate_mmproj(t.name)

(* A clip bound lands beside its weight: where a bound was exported for a  *)
(* linear that looks for one, the linear finds it; else the tower would    *)
(* run unclipped without a word.                                           *)
BoundsFollowWeights ==
  extra => \A t \in File(repo.mmproj).tensors :
    t.name[4] \in Stats =>
      LET bound == Beside(translate_mmproj(Beside(t.name, "weight")), t.name[4])
      IN bound \in BoundsAsked => translate_mmproj(t.name) = bound /\ bound \in DOMAIN table

(* The tables of the two translations and the builders' spellings, written *)
(* in three files, fit each other.                                         *)
NamesMeet == BuildersFindTheirs /\ BoundsFollowWeights
================================================================================
