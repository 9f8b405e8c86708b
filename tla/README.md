# cima in TLA+

cima is an LLM inference engine: one process, one GPU, at most one resident
model, an HTTP API in the style of Ollama. These modules model it from the two
ends. From the outside in: who owns the GPU, what happens to the resident model
between two requests, what a reader of the shared log may see, what interrupted
downloads and deletions leave behind. From the inside out: what makes a
checkpoint a checkpoint, what a build asks of the device, and what the launches
of a forward pass do to device memory, compared with the network they stand for.

Paths such as `api.rs` are relative to `src/src/`; docs are under `src/docs/`.

## The system

| part | state | operations | interacts through |
|---|---|---|---|
| GPU admission queue (`api.rs`, `mod queue`) | `State{next, serving}` under a `Mutex`, a `Condvar` | `acquire`, `try_acquire`, drop of the permit | every connection thread |
| HTTP server (`api.rs`, `mod server`) | one thread per connection, a socket each, `Startup` | `handle_generate`, `handle_embeddings`, `handle_pull`, `handle_delete`, read-only routes, the sweeper thread | queue, manager mutex, `./models` |
| Model manager (`models/mod.rs`) | `current`, `expires_at`, the CUDA context and its poisoned flag | `ensure`, `load`, `touch`, `sweep`, `evict`, `recover` | `Mutex<ModelManager>`, `cuda.rs` |
| Log ring (`log.rs`, `mod shmlog`) | a file in `/dev/shm`: `cursor`, slots of 64 bytes | `write`, `read_since`, `create`, `cima logs [-f]` | shared memory, no locks, several processes |
| Downloader (`hub.rs`) | `F`, `F.part`, `F.part.meta`; a bitmap, a work queue | `fetch_file`, `fetch_parallel`, `meta_read`, `meta_write` | file system, several threads, possibly several processes |
| Model store and pull of a repository (`hub.rs`, `main.rs`) | the directories under `./models` | `pull`, `wanted`, `is_local`, `list_local`, `cima rm`, `handle_delete` | downloader, manager |
| Startup pull and readiness (`api.rs`) | `Startup{pending, failed, done}` | `spawn_startup_pull`, `/api/ready` | store |
| Weight formats (`formats.rs`, `quant.rs`) | mapped files, a table of tensors | `GgufWeights::open`, `SafetensorsLoader::load`, `merge_extra`, name translation; `preflight_deep` in `hub.rs` | builders |
| Builders and forecast (`models/transformer.rs`, `models/gemma4/*`, `models/towers.rs`) | device buffers, the count of their bytes, the q8 scratch of the context | `VramForecast`, `build`, towers that may fail, `evict` | `cuda.rs` |
| Forward pass (the same files, `cuda.rs`, `kernels.cu`) | activations, KV caches, device counters, captured steps | `prefill`, `decode_step*`, `embed`, `encode_*` | stream of launches |
| Generation (`models/mod.rs`) | `session_ids`, and what the forward pass keeps | `prepare*`, `generate`, `embed` | resident model, sampler |
| JSON (`json.rs`) | the automata `JsonGuard`, `SchemaGuard` | one step per emitted character | sampler |
| tokenizer, media decoding, CLI client, telemetry, self test | none shared | pure computation or I/O | |

### What is hard in it

* **Concurrency.** The queue's depth is read in one critical section and the
  ticket taken in another. `notify_all` comes after the unlock. The sweeper, the
  load/unload idiom and delete contend with generation for the manager mutex and
  do not go through the queue. Writers of the log ring share slots without a lock
  and may be descheduled in mid-record. Workers of a pull share a work queue and
  a bitmap. Pulls, deletions, the startup pull and the command line work on one
  directory tree.
* **Failure.** A forward pass may fail after half of the response was sent. A CUDA
  fault is sticky: whatever sees it, the next `ensure` must rebuild the context or
  end the process. Downloads break off, are refused, or are killed at any point,
  and are resumed by a later run, perhaps in the other mode. A build fails half-way
  through; a tower of a gemma4 may fail without the model.
* **Ordering.** Arrival is to be service order although a condition variable wakes
  everyone. Log records publish in another order than they reserve. The sidecar
  of a download must not get ahead of the data. Inside a layer, keys are rotated in
  place, so what is copied from them must be copied before.
* **State kept between requests.** Turns of a chat reuse the KV rows of the
  previous one, however that one ended; the pipeline has a step in flight that the
  host has not asked for; positions in the prompt, rows of a chunk and the
  device's own counter are three ways to count the same tokens; a captured step
  has pointers and a penalty baked in.
* **Sizes computed twice.** The forecast, the scratch buffers and the work buffers
  are sized from shapes in one place and used in another; kernels get bare
  pointers.
* **Progress.** A ticket nobody holds would stop the server; a keep-alive window
  must end although the sweeper only does `try_lock`; the startup pull must settle.

### What makes each part correct

* Queue: one permit at a time; every ticket from the one being served on is in one
  pair of hands; nobody sleeps through its turn; arrival order is service order;
  the documented cap.
* Server and manager: the model a handler works with is the one it asked for until
  it answers; no forward pass on a dead context; GPU work only under the permit;
  every path answers once and gives permit and mutex back; idle models unload.
* Log ring: what is read under a seq is the record with that seq; torn text is
  never printed; an undisturbed scan is complete; following shows everything;
  records leave only by being overwritten, across the end of a process too. The
  code keeps the last only until the next process logs (see the findings).
* Downloader: what carries the final name is whole and right; the sidecar never
  leads; one writer per chunk. The first two need deletions to keep away (see the
  findings).
* Store: a pull that reports success left everything it wanted; what was pulled by
  a name is what load opens by that name; readiness does not contradict the disk.
* Weight formats: what opens lies inside its files, overlaps nothing and is whole;
  the preflight sees what the parser will see; the names that translation produces
  are those the builders ask for.
* Builds: an admitted load fits; a failed one leaves nothing; what a forward pass
  takes for granted is there.
* Forward pass: launches stay inside their buffers and read what was written; the
  caches are those of the sequence; answers are those of the network.
* Generation: each token is chosen from the newest row, and the cache behind it is
  that of the prompt and the answer so far; the penalty window on the device is the
  host's; nothing runs over the cache.

## Modules

| module | models | state and actions |
|---|---|---|
| `Admission` | what the queue promises: a FIFO line whose head is granted the GPU | `line`, `granted`; `JoinEmpty`, `JoinBehind`, `Grant`, `Leave` |
| `GpuQueue` | the ticket lock | `next`, `serving` and per thread a stage and a ticket; one action per critical section, `Release` and `NotifyAll` apart because the unlock comes between them; `SpuriousWakeup` |
| `Server` | connection threads, manager, sweeper, clock | the variables of `Admission` (by `INSTANCE`), `lock`, `current`, `expiry`, `poisoned`, `alive`, `disk`, and per thread `pc`, `req`, `wire`; handlers cut where another thread or the client can see a difference |
| `LogRing` | writers, reader, follow loop, deaths of writers, creation of the ring anew | `cursor`, `slot`, per writer its progress, the reader's registers; one action per group of bytes that is stored or loaded as one; `Die` in mid-record, `CreateAgain` |
| `Fetch` | one file of a pull, and the deletions of its directory | `file["part"]`, `file["dest"]`, `meta`, `dir`, and per pull its stage, open file, bitmap, work queue, workers; `Crash` at every stage; `rm`, what a deletion has yet to unlink: `StartRemoval`, `RemoveNext` per entry, `RemovalEnds` when it is killed or fails |
| `Store` | pulls of a repository, deletions, presence, the startup pull, readiness, what load opens | `made`, `dir` per selector, per thread the pull or deletion it is in, `boot`; one action per file fetched or removed, per gate and per step of the startup pull; a deletion is a stage of its thread (`RemoveEntry`, `RemoveDir`, and for a tag `UnlinkVictim`, `RetireDir`), an untagged `cima rm` goes on with the tagged siblings (`SweepNext`); `Crash` |
| `Names` | name translation, the names that builders ask for, the names a converter writes | operators over tables, which are sets of pairs |
| `Checkpoint` | preflight, opening of parts and shards, `merge_extra` | `repo`, `disk`, the window `want`, `passed`, `table`; one action per range, per file |
| `KvShare` | which layer's cache a shared layer of gemma4 reads | `KvSource` |
| `Builders` | each builder as the list of its steps (find, alloc, free, q8), and the forecast | operators over the facts of a checkpoint |
| `Residency` | `ensure`, the check, the builds step by step, failures, `evict`, the q8 scratch, capture, other processes on the card | `held`, `tracked`, `q8`, `resident`, `job`, `lost`, `graph` |
| `Kernels` | each kernel in use, with its launcher: what it reads, what it writes, from what | operators from memory to an effect |
| `Tapes`, `TowerTapes` | the launches of prefill, decode, sampling, embedding; of the four towers | operators that yield sequences of launches on the buffers of `Builders` |
| `Network` | what the models compute, position by position, without buffers, chunks or caches | the reference that `Forward` is held to |
| `Forward` | requests to a loaded model | `mem`, `tape`, `hist`, `job`, `graph`, `said`; `Begin` and `Step` of `generate`, `Launch` for each launch |
| `Session` | generations on the resident model, embeddings between them, reloads | `kv`, `x`, `session`, the device's `posdev`, `ring`, `counts`, and `g`, the locals of `generate`; one action per call of `generate` into the model: `Begin`, `PrefillChunk`, `Project`, then `Accept` and `Step` per token, or `EndOfTurn`, `StopString`; `Fail` anywhere |
| `GpuQueueProofs`, `ServerProofs`, `LogRingProofs`, `FetchProofs`, `StoreProofs`, `SessionProofs`, `CheckpointProofs`, `ResidencyProofs` | theorems | |
| `MC...` | instances for TLC | |

How they build on each other:

* `Server` uses `Admission` instead of the ticket lock itself: `GpuQueue` is shown
  to implement `Admission` with the refinement mapping "the line is the list of
  holders of the tickets `serving .. next - 1`; granted iff a thread is running".
  The fairness of `Admission` is part of what is shown.
* `Store` takes from `Fetch` that a file is in a directory whole or not at all.
* `Residency` runs the steps of `Builders`; `Forward` runs the launches of `Tapes`
  and `TowerTapes` on buffers of exactly the sizes that `Builders` allocates, with
  `KvShare` for the shared layers. What `Residency` and `Checkpoint` establish,
  buffers that exist and names that are found, `Forward` starts from.
* `Session` abstracts a forward pass to "row from tokens"; `Forward` has the
  launches behind it. Stops, truncation, failures and reloads are in `Session`,
  media, kernels and graphs in `Forward`.

Definitions with names such as `NotifyOne`, `SweepUnlocked` or `SaveEarly` are
plausible slips that the code does not contain. No specification uses them; each
replaces one definition in a mutant that shows that a property can fail.

### Abstractions

* A log record is named by its `start + 1`. Two records never have one checksum
  (FNV-1a is taken as perfect), so NeverMisread and NoTornText hold up to
  collisions. Eight bytes of text in the seq word stand as 0; a shorter last
  chunk changes only the low bytes of the old seq and may leave any number that
  fits the slot (`ShortTails`). The code's fences are taken as sequential
  consistency. `CreateAgain` happens only while nobody writes or scans: names
  would otherwise be ambiguous; a writer that another process has pulled the ring
  from under in mid-record is not modelled. `Die` ends a writer at any byte group; a
  process is the writers that die together. After a reset a follower asks for seqs
  above those it has printed and sees nothing until the new ring gets there.
* In `Server`, deadlines are unbounded, running or elapsed. Malformed requests are
  answered before any state changes and are left out, as are read-only routes.
  The encoders of `prepare` may fail with a sticky fault or without one. Pull and the removal of files are one step each, on a set of model names.
* In `Fetch`, a file is a sequence of cells that hold the position whose bytes were
  sent for them; bytes of an error body are `Junk`. A file follows its inode:
  renaming or unlinking carries an open one along. Machine crashes (lost page
  cache) are not modelled, process crashes are. A pull is one of "parallel" and
  "single" at each start, because `CIMA_PULL_CONNS` may change between runs. The
  body of an error answer is a number of whole cells (`BodyCells`); in parallel mode
  it is written from the start of its chunk on, past the end of the file if it is that
  long. A deletion unlinks the entries in one of the orders of `Removals`, skipping
  those that have gone; where it stops, one of `Undone` stays behind.
* In `Store`, a file name is what the code reads off it: its kind, the tags it
  contains, the tag it is labelled with, its length. The figures of the gates
  before a pull (memory, disk, architecture) may come out either way. A deletion
  removes the files of a directory in any order, beside pulls, and fails at the end
  if a pull has put a file back. Partial files and sidecars are in `Fetch`. The
  pull that `cima pull` may run
  in the background, and whether `/api/ready` finds the manager's lock free, are
  left out.
* In `Checkpoint`, a header is the widths of its fields and its table of tensors;
  strings are name tuples. Offsets, lengths, alignments, grains of blocks and the
  doubling window are numbers as in the code, except that the sums and products of
  header numbers, which a release build forms modulo 2^64, are taken to fit. The
  window is 4 MiB to 256 MiB in the code and 2 to 8 in the run. What is said of
  complete exports (`TextIsWhole`, `TowersAreWhole`) is a condition inside the
  property: a file that lacks a tensor opens, and its builder fails. A tensor
  without dimensions is one element to the loader and an empty row to the
  preflight (hub.rs:1790), so that `PreflightIsWhole` leaves it out.
* In `Builders` and `Residency`, bytes are those of the formulas in the code at
  small widths; a build is a list of steps whose failures are a missing tensor or
  an allocation that does not fit. Everything runs under the manager's lock, so
  that only other processes on the card (`Rival`) move in between.
* In `Forward`, weights and values are terms that say how they were computed; soft
  caps, epsilons, saturation and rounding are not in them. Launches run one after
  the other, as they do on the one stream. The pipeline of greedy decoding is in
  its synchronous form: `Session` has the step in flight. A failing capture is
  modelled for sampling. Prompts that exceed the cache are refused before
  (`CapacityNeverRefuses` of `Session`), media blocks longer than CHUNK are
  excluded as gemma4/mod.rs:1767 describes, a prompt has one medium, and the paths
  behind the CIMA_ debugging variables are left out. `Network` is a reference and
  has no lines of its own in the code.
* In `Session`, a row of the cache or of the activations is named by the tokens it
  was computed from; a row whose predecessors are not the rows of one prompt is
  `Broken`, and so is all that attends to it. Which token follows is open, so is
  where a stop string or a JSON guard ends the text; the weights, the sampling and
  the text are left out, and so are prompts with media, which neither reuse rows
  nor get truncated. Graph capture succeeds; without a graph the code runs the
  "argmax" and "logits" modes, which are modelled. `session_text` is not modelled.

## Runs

| run | shows | bounds |
|---|---|---|
| `GpuQueueLine` | safety, liveness and refinement of the ticket lock | 3 threads, cap 2, 5 tickets: threads come back, one waits behind two, two race past the cap |
| `ServerRequests` | all safety and liveness properties of the server | 2 threads, 2 models (one only embeds), generate, embed, load, unload, delete and pull, faults at every place they can occur |
| `LogRingSafety` | the reader's promises while nobody is lapped in mid-record; writers die, the ring is created anew | 3 slots, records of 1 and 2 slots, 2 writers, the ring goes round twice |
| `LogRingWild` | what is left with stalled writers, forged seqs and resets | 2 slots, all of them allowed |
| `FetchResume` | the downloader's promises with crashes, reruns, retries, both modes and deletions between pulls | 7 cells in chunks of 2 (the last is short), 2 workers, 3 attempts, deletions in any order that may stop once the sidecar has gone |
| `StorePulls` | pulls that succeed are whole and found again, readiness is consistent, the startup pull settles | four kinds of repository (two shards; two quantizations, one tag inside the other's, with two projectors; a lone GGUF; one whose tag matches only a projector), one user with every command beside the startup pull, a crash, two attempts |
| `CheckpointOpen` | what opens is sound, the preflight is exact, the names meet | single files with headers below and above each window and lying tables, split sets, shards with nested, touching and empty spans, complete exports with a projector; each file whole, missing or one byte short |
| `LoadResident` | admitted loads fit, failures leave nothing, scratch is wide enough, captured steps do not dangle | five models of four kinds, one without a tokenizer and one whose tower lacks a tensor; a neighbour that takes memory at any time |
| `ForwardPass` | launches in bounds and on written cells, caches and answers are the network's | four models (fused f16 with biases and a vision tower; packed blocks through slabs and an audio tower; gemma4 in 4 bits with a shared layer, per-layer embeddings and vision; packed gemma4 with a conformer), 2 requests, 2 steps, chunks of 3, tiles, warps and slabs that do not divide the widths |
| `ForwardClip` | **violation**: a clip longer than the audio tower's rows overruns a work buffer | one model, a clip of 6 frames for 4 rows |
| `SessionTurns` | the promises of a generation, over several requests that reuse each other's rows | 3 requests (one that leaves rows, one that fails over them, one that reuses), 4 KV slots, all prompts of 1 to 4 tokens over 2 ids and two of 5, chunks and penalty window of 2, so that prompts span chunks, get truncated and slide the window; a stop string only in the pipeline or on Gemma 4, embeddings only by Gemma 4, no token 0 (see below) |
| `SessionGreedy` | **violation**: the first greedy token after a reused prefix comes from a stale row | std |

The bounds are large enough for every action and every disjunct of the next-state
relations to occur in a passing run, and for each mutant to be caught. Symmetry is
used only in runs without liveness. Deadlock checking is off where the model
really stops: the writers of LogRing at `MaxSlots`, `Checkpoint` when a checkpoint
is open or refused, `Forward` after the last request. `GpuQueue`, `Server` and
`Session` have an explicit action for the state in which the bound is reached and
all is quiet.

`OpenIsSound`, `PreflightIsExact`, `NamesMeet` and `FitToRun` are conjunctions of
named parts, each stated and commented on its own. Every state machine has a
`TypeOK`; those of `GpuQueue`, `Store`, `Checkpoint` and `Residency` are proved, the
others hold under the same configurations and are not listed as properties of the
runs, since a slip that breaks one breaks a property that says more.

### Fairness

* Queue: weak fairness of each step of a thread that can run (the operating system
  schedules it; a generation is bounded by its token budget). None for spurious
  wakeups, none for the arrival of requests.
* Server: weak fairness of each thread's progress, of the sweeper (a loop with a
  sleep of ten seconds) and of time. The mutex is not fair and strong fairness is
  not assumed: the number of requests is bounded, so contenders run out.
* Store: weak fairness of the startup thread and of its own pull. Users owe
  nothing, and a fetch may always break instead.
* `LogRing`, `Fetch`, `Checkpoint`, `Residency`, `Forward` and `Session` make no
  liveness claim.

## What the runs found

1. `prefill_argmax` (models/transformer.rs:1412) adds `pos0` to the row it projects,
   but rows are counted from the start of the delta: with a reused prefix the first
   greedy token is chosen from a stale row (`SessionGreedy`).
2. `encode_audio` (models/towers.rs:598) bounds a clip by twice the rows that its
   work buffer has, and the first convolution writes a row per frame
   (`ForwardClip`).

Found with other constants or other properties of the same modules, which have no
run of their own in the list above:

* `try_acquire` (api.rs:265) checks the depth and takes the ticket in two critical
  sections; racing requests exceed `CIMA_MAX_QUEUE` (docs/configuration.md:18).
  `GpuQueue` with three threads and cap 1 violates `DepthWithinCap`.
* When `generate` fails after a piece was streamed, `respond_error` (api.rs:1354)
  writes a status line into the open chunked body. `Server` with
  `DefaultRequests` violates `OneResponse`.
* A last continuation chunk of fewer than eight bytes can turn an old head's seq
  into a live one: the old record is returned under a newer seq, with its own text.
  `LogRing` with `ShortTails` violates `NeverMisread`; a writer lapped in
  mid-record (`MayLap`) has a similar effect. The text is never a blend
  (`LogRingWild`).
* A deletion takes no lock against pulls, unlinks entry by entry (api.rs:1850,
  main.rs:1796) and may be killed or fail in between. With the `.part` gone and the
  `.part.meta` left, the next pull believes the sidecar (hub.rs:695), makes an empty
  file of full length (hub.rs:713-724), skips what the bits call complete, against
  hub.rs:583, and publishes a file with holes. One way there is short: a crash between
  the rename and the removal of the sidecar (hub.rs:928) leaves a sidecar with all bits
  set beside the published file; `cima rm REPO:TAG` removes only the file
  (main.rs:1854-1861) as long as another quantization stays, and the next pull
  publishes nothing but a hole. `Fetch` with `DeletesRace = TRUE`, `Removals <-
  AnyRemoval` and `Undone <- AnyTime` violates `SidecarNeverLeads` and
  `PublishedIsWhole`, with two cells, one worker, one attempt. `FetchResume` and the
  theorems show what holds when no pull runs beside a deletion and none stops before
  the sidecar has gone.
* `Ring::create` (log.rs:403) truncates the ring at the first log line of a process, so
  a restart of the engine, or another command that logs, discards what was to outlive
  the crash according to docs/operations.md:22-24. `LogRing` with `MayReset` and two
  slots violates `OnlyOverwritten`; without it the ring keeps its promise whoever dies
  (`RecordsStay`).
* The body of a non-2xx answer is appended to the `.part` (hub.rs:1015), and the
  next run resumes after it. `Fetch` with `ErrorBodies = {"single"}` violates
  `PublishedIsWhole`. So it does with two pulls of one model at a time, with a disk
  that fills under a single stream, or with a crash between the removals of a stale
  `.part` and its sidecar followed by a return to the old chunk size (constants
  `Pullers`, `DiskMayFill`, `Geometries`). In parallel mode an error body goes to the
  place of its chunk (hub.rs:648-665) and is overwritten by the retry, unless it is
  longer than the chunk: then it spoils the neighbour, or makes the file too long
  (`BodyCells = {2}` violates `PublishedIsWhole`).
* `generate` pushes a token to the history, then tests stop strings and JSON
  guards, then runs the token's forward; a stop leaves the token in `session_ids`
  (models/mod.rs:1395) without its KV row, in every mode but the pipeline, and the
  next prompt that extends the answer reuses whatever was in that row. `Session`
  with `StopsIn = {"logits"}` and the family std violates `ContextIsHistory`.
  `Transformer::embed` overwrites the first KV rows of a generating model while
  `session_ids` goes on vouching for them (`MayEmbed`). The zeroed ring of the
  penalty window makes `k_hist_push` undercount token 0 (`Tokens` with 0 violates
  `WindowIsHosts`).
* One shard of several makes a model present (hub.rs:344): after a crash, or while
  the pull is under way, `is_local` vouches for a checkpoint that cannot load.
  `Store` violates `ReadyIsLoadable`. `list_local` names rows by the tag in the file
  name and `is_local` looks in the directory of the selector, against hub.rs:307
  (`OneTruth`).
* The forecast of a std model leaves out that `fuse` (models/transformer.rs:875)
  keeps the sources of a fused copy alive beside it. On a card that the model just
  fits, an admitted load runs out of memory in its last layer, against
  transformer.rs:298: `Residency` with `Card <- Fat`, `Rivals <- Alone`, one model
  and 245000 bytes violates `AdmittedLoadsFit`. For a 13B model in f16 the copies
  exceed what the headroom covers by some 90 MiB.
* `project` (models/towers.rs:483) takes the inner width of a projector from the size
  of its first weight; the buffer it fills is sized from other widths (:340, :364).
  `Forward` violates `LaunchesInBounds` if `Lens` has an inner width of 10.

Noted while reading, without a property: `ensure` (models/mod.rs:1648) sets no
deadline and only a successful request calls `touch`, so a model whose first request
fails after the load stays resident, against docs/operations.md:53. The follow loop
(main.rs:1594) asks for seqs above the highest printed and so loses a record
reserved earlier and published later. An empty request locks the manager and may
load a model without a permit, which the doc of the queue module (api.rs:187)
excludes, and `handle_delete` does so too. `handle_delete` looks only in the bare
directory, so a model pulled with its tag over HTTP answers 404. A repository with
one untagged GGUF passes the gate of an HTTP pull and then fails, because `wanted`
without a tag takes safetensors only. A gemma4 prompt whose image straddles a chunk
boundary has its first token projected from another row (gemma4/mod.rs:1720, the
exception `Misrow` of `Forward`). The workspace of a std vision or audio tower, and
several small buffers of gemma4, are missing from the forecast and live off the
headroom; the q8 scratch of a failed load stays. `Transformer::embed` checks the
capacity after the loop that `meanpool` depends on, not before.

## Proofs

`GpuQueueProofs`, for any finite set of threads, any cap, any number of tickets:

* `TypeCorrect`: `Spec => []TypeOK`.
* `Exclusive`: `Spec => []MutualExclusion`.
* `NoneAbandoned`: `Spec => []NoTicketAbandoned`.
* `NoneSleepsThrough`: `Spec => []NoLostWakeup`.

Mutual exclusion alone is not inductive: a thread runs because its ticket equals
`serving`, so what must be carried along is that tickets in line are distinct, that
they lie in `serving .. next - 1`, that each number there is held, and that a
running thread holds `serving`. `NoLostWakeup` needs the last of these too: a
parked thread whose ticket is `serving` can exist only between a `Release` and its
`NotifyAll`.

* `ServedInOrder`: `Spec => A!ASpec`, the safety part of `ImplementsAdmission`. Every
  behaviour of the ticket lock is one of the FIFO line under the mapping of `GpuQueue`.
  The mapping defines the line as the sequence of the holders of `serving .. next - 1`;
  the invariant above makes that sequence unique (`LineIs`), so each step of the lock
  is shown by exhibiting the line after it: `TakeTicket` appends, `Retest` grants the
  head, `Release` removes it, and every other step stutters.

`ServerProofs`, for any finite set of connections, any models and any bound on the
requests; faults, failed loads, lost clients and sweeps included:

* `PinnedThroughout`: `Spec => []ModelPinned`.
* `SoundContextThroughout`: `Spec => []ForwardOnSoundContext`.
* `PermitThroughout`: `Spec => []GpuWorkUnderPermit`.
* `EveryoneIsAnswered`: `Spec => []NoOneLeftHanging`.

The invariant says of each thread `t` which stages imply that `t` has the manager's
mutex (`HoldsLock`), a resident and sound model (`HasModel`), the permit of the
admission line (`HasPermit`) and a written response (`HasAnswered`); `KindFits` ties
the stage to the kind of request. With the mutex in the invariant, a step of another
thread inside the critical section is impossible, which is all that `ModelPinned`
needs: loads, evictions, sweeps and deletions are such steps.

`LogRingProofs`, for any writers, slots and sizes. Three theorems hold under
`Orderly`: no writer is lapped while it writes, and no last chunk is too short to clear
the seq of the slot it lands on. `LogRingWild` is what happens without it, and the
findings quote the doc that promises more.

* `NoMisreading`: `Spec => []NeverMisread`.
* `QuietScans`: `Spec => []QuietScanIsComplete`.
* `RecordsStay`: `Spec => OnlyOverwritten`, where besides no restart truncates the ring:
  the death of a writer takes no record away, and `CreateAgain` is all that does.
* `NoTearing`: `Spec => []NoTornText`, without any condition. Its invariant (`Summed`)
  is small, because the checksum alone carries it.

`NeverMisread` is about what a reader has gathered over many steps, so the invariant
must follow it: for each stage of the scan it says what the locals of the reader may
hold of the record at its position (`Seen`), and of the ring, for each writer at each
step of its write, what the slots it reserved hold by then (`MemoryInv`). Under
`Orderly` the slots of a live record are written by its own writer and by nobody else,
which is why a write disturbs no record but its own and the dead ones. `Undisturbed`
says of a scan that no writer disturbs that it has accepted the live records of every
slot behind it.

`SessionProofs`, for any tokens, prompts, sizes and any number of requests:

* `NeverRefused`: `Spec => []CapacityNeverRefuses`, without further assumptions. The
  invariant `Fits` relates the lengths of the truncated prompt, the history and the
  budget to the capacity at each stage.
* `ReuseIsSound`: `Spec => []ContextIsHistory`, under `CacheFollowsSession`: in a std
  model a stop string ends only pipelined generations, and no embedding runs. The
  divergences above are what happens without it. The invariant `IInv` adds to `Fits`
  how far the cache is `Good` for the tokens at hand at each stage, prefill, token
  loop, end and between requests, and that the device's counter stands behind the last
  good row whenever a step takes its position from it.
* `NewestRowDecides`: `Spec => []HeadIsNewestElsewhere`, under the same condition. The
  invariant `Heads` says where the last chunk left its rows: every chunk but the last
  is full, so the row of token n stands at the remainder of n - 1 by the chunk size
  (`ChunkRow`), and `HeadRow` picks it.
* `PenaltyIsHosts`: `Spec => []WindowIsHosts`, for any window, provided that no token
  has the number 0, which marks an empty slot. `Follows` says what ring and counts are
  when n tokens are pushed; a push moves it from n to n + 1 (`PushFollows`: the token
  whose slot is taken is the one that leaves the window). `Seeded` is a recursive
  function: that it exists and satisfies its equation is shown by counting up from the
  first position seeded (`SeedExists`), and the seeding by counting up again.

`FetchProofs`, for any pulls, workers, file size, chunk sizes and retry limit:

* `ChunksHaveOneWriter`: `Spec => []OneWriterPerChunk`. The strengthening
  `QueueInv` says that a fetching worker holds a number at or below `next`, and
  that workers fetch only while their pull does; then the next number handed out
  is fresh, and a crash leaves no worker behind.

What is on the disk is proved under `Alone`: one pull at a time, one geometry, no
error body that the single stream takes for data or that is longer than its chunk, a
disk that does not fill, and deletions that are `Orderly`: no pull beside them, the
sidecar among what they unlink, no stop before it has gone. Crashes and reruns of pulls
at any point are included, and deletions that are stopped later. The code does not
see to these conditions; the findings show what happens without each.

* `PublishedFilesAreWhole`: `Spec => []PublishedIsWhole`.
* `SidecarsLag`: `Spec => []SidecarNeverLeads`.

The invariant `FileInv` has two halves: what a crash at this moment leaves (`Stored`:
a .part has its full length or is a beginning of the right file, and what the sidecar
records is in place), and for each stage of a pull what its locals know of the files
(`AtStage`). The first must hold between any two writes, which is what the order of
the code (data, then the bit; rename, then the removal of the sidecar) is for. While a
deletion runs `PlaceInv` says that no pull has anything at hand, and that the sidecar
has gone or is yet to go; what is left when it ends is then a file without a sidecar,
which the next pull starts over or resumes by its length.

`StoreProofs`, for any listing of a repository, any threads, tags and startup list,
with failed fetches and crashes; without further assumptions:

* `TypeCorrect`: `Spec => []TypeOK`.
* `PullsAreWhole`: `Spec => []PullLeavesAllWanted`.
* `ReadyIsReady`: `Spec => []ReadyFormsAgree`.
* `LoadsWhatItPulled`: `Spec => []PulledIsLoaded`.

The properties themselves speak of pulls during which nobody removed files of the
directory (`clean`, `kept`): a deletion beside a pull takes files away, in the code as
in the model. The lemma `Removal` says once what all steps of a deletion have in common:
they change no pull but to mark it as disturbed. `Pull(t)` says of a thread at each stage that it works in the directory
of its selector (`Placed`) and that the files it chose and has not yet to fetch are
there (`Laid`); `Seen` says the same of the entries that the startup pull has passed.
`LoadsWhatItPulled` then needs an argument about choices: the projector with the best
rank among the files of the directory is the best of the repository, because the pull
kept the best.

`CheckpointProofs`, for any set of repositories, headers, lengths and windows, with
files missing or short on disk; the sums of a header are taken to fit 64 bits:

* `CheckpointIsTyped`: `Spec => []TypeOK`.
* `WhatOpensIsSound`: `Spec => []OpenIsSound`.
* `ThePreflightIsExact`: `Spec => []PreflightIsExact`.
* `NamesMeetTheBuilders`: `Spec => []NamesMeet`.

`InPlace` traces each entry of the table to a tensor of a file that parsed; from there
on `OpenIsSound` is about one file. That comparing neighbours is enough to keep spans
apart (`ShardApart`) needs the spans sorted, and that they can be sorted is itself
proved, by taking the last one off (`SortExists`). `Behind` and `AtEnd` say that the
parts before `i` are entered and that nothing but the end of the list opens a
checkpoint. The preflight and the parser walk the same fields with a cursor over more
or fewer bytes: it comes through exactly when the sum of the fields fits
(`CursorFits`), which is why a window that parsed has seen the whole header, and why
one that has not doubles until the file or the cap ends. `Total`, `Numel` and `Cursor`
are recursive functions, shown to exist by counting up.

`NamesMeet` is a fact about tables of constants and about what reaches them: each
table renames a stem once (`TablesAreFunctional`), each name asked for is the image of
one that a converter writes, a left inverse (`Undo`) keeps names outside the blocks
apart and the tables of stems those inside, and a stem that goes to a clipped linear
in the table of weights goes to the same in the table of bounds, listed there or not
(`VisionBound`, `AudioBound`). `Merged` carries the entries of the projector.

`ResidencyProofs`, for any set of models, any device, any rivals, and any builds
that satisfy `PlanAssumption` (sizes are numbers, no buffer of a part is allocated or
freed twice, and what is freed was allocated before; TLC evaluates it on the builds of
the runs):

* `ResidencyIsTyped`: `Spec => []TypeOK`.
* `SpecHeldIsTheModel`: `Spec => []HeldIsTheModel`.
* `SpecTextOutlivesTowers`: `Spec => TextOutlivesTowers`, an action property.
* `SpecGraphPointsToScratch`: `Spec => []GraphPointsToScratch`.
* `CoveredLoadsFit`: `Spec => []AdmittedLoadsFit`, if `Covers(m)` for each model.
* `ServedModelsRun`: `Spec => []FitToRun`, if `Serves(m)` for each model.
* `SharedLayerReadsTheLatest`, about `KvShare`: for every list of layer types that the
  parser accepts, a shared layer reads an earlier layer that computes a cache, of its
  own type, and no layer of that type comes between. The latest exists because a set
  of numbers below a bound, turned round, has a least element.

`HeldIsTheModel` speaks of the moments between two loads, so the invariant has to
say what is held in the middle of one: the buffers of the parts that are finished
and not lost, and of the part at hand those that its steps so far have allocated
and not freed (`LoadHeld`). With `PlanAssumption` the latter set, at the end of a
part, is what the part keeps; at a failure it is dropped whole.

The other three need numbers. `Load` is the running sum of a part. `Curve` adds it by
halves, a recursion no deeper than the logarithm of the part, because TLC evaluates a
recursive function on its own stack; `CurveMoves` proves that it moves by `Change` at
each step. `Books` says that the engine's count is the sum at the start of the part
plus `Load` at the step, and that each buffer held has the size its step gave it, so
that a tower given up takes the count back to where it was. `Promised` says what an
admitted load may still count on: unless another process took memory since
the check, the bill and the headroom fit beside the scratch of the context, which is
the one found at the check or as wide as a step of this build asked for. `Covers(m)`
is the other half: bill and headroom are no less than the running sum, the scratch and
the allocation at hand, at every step of the build of `m`. It is a sum of the facts of
a card and of `VramForecast`, and it is not true of every card: the forecast leaves out
the sources of a fused copy, and `Fat`, on which `AdmittedLoadsFit` fails, is not
covered (see above). `Serves(m)` says that the text part of `m` allocates the scratch
and asks for the q8 width that any weight of the model needs, and a cache for each
source of a shared layer. TLC evaluates both for each model of `LoadResident`
(`ShopAssumption` in `MCResidency`); the theorems then say what the sums are worth when
builds fail, towers are given up, other processes take memory and scratch buffers
outlive their models, in any number of loads in any order. `WideEnough` is the part of
the invariant that does the latter: the scratch of the context never shrinks.

The assumptions are those named in the modules; TLC evaluates them in every run. The
conditions `Orderly`, `Alone`, `CacheFollowsSession` and `NoTokenIsZero` are met by the
constants of the passing runs that check the same properties, `Covers` and `Serves` by
the cards of `LoadResident`.

Induction over numbers goes through a set and its least element (`CountUp`), since the
induction theorems of the library take an operator as a parameter.

Only model-checked:

* all liveness, with the fairness of `Admission` that the refinement includes: out of
  the prover's reach.
* `Covers` and `Serves`, per card: whether the forecast of `Builders` covers a build is
  a question about each shape, with different answers.
* the properties of `Forward`: they compare two programs, the tapes of launches and the
  network, and the model of the former uses a RECURSIVE operator.

## Plan

1. Done: `Admission`, `GpuQueue` and its proofs; `Server`; `LogRing`; `Fetch` and the
   proof about its work queue; `Session`.
2. Done: `Store` with the startup pull; `Names`, `Checkpoint`; `Builders`, `KvShare`,
   `Residency` and their proofs; `Kernels`, `Tapes`, `TowerTapes`, `Network`,
   `Forward`.
3. Done: the safety part of the refinement `GpuQueue => Admission`; the safety
   properties of `Server`, `LogRing`, `Fetch`, `Store` and `Session`, each under the
   conditions that the findings show to be needed; those of `Residency`, given what
   a card promises; all of `Checkpoint` and `Names`. Open: the properties of `Forward`.
4. Left of the system: the JSON guards; the text between tokens and the socket
   (UTF-8 fusing, stop strings, chunked writing, its reader in the client); the text
   twin of a session.

## Not modelled

* Tokenizer, media decoding, the bit layouts and arithmetic of block formats, the
  tiles of a matrix product: numerics or functions of strings, where a bounded set of
  inputs says little.
* JSON reader and guards, HTTP parsing, the CLI client, queries of the Hub:
  sequential, no shared state; part 4 of the plan.
* Self test, formatting of telemetry, progress displays.
