--------------------------------- MODULE Server ---------------------------------
(***************************************************************************)
(* The HTTP server of cima (src/src/api.rs, mod server) around the one     *)
(* resident model (ModelManager, src/src/models/mod.rs): connection        *)
(* threads, the FIFO admission line, the manager mutex, the keep-alive     *)
(* sweeper, and the recovery from a poisoned CUDA context.                 *)
(*                                                                         *)
(* The ticket lock appears as the Admission line that GpuQueue implements. *)
(* Everything a handler does while it holds the manager mutex is invisible *)
(* to the other threads until it unlocks, except what it writes to its     *)
(* socket and to the disk; handlers are cut into steps at those points and *)
(* wherever an early return leaves them.  Requests that are malformed are  *)
(* answered 400 before any state changes and are left out, and so are the  *)
(* read-only routes (tags, show, ps, version).  Deadlines are abstracted   *)
(* to whether the window is unbounded, still running, or elapsed.          *)
(***************************************************************************)
EXTENDS Naturals, Sequences, FiniteSets

CONSTANTS
  Threads,      \* connection threads
  Models,       \* model names
  Generators,   \* the models with the Generate capability
  Requests,     \* the well-formed requests that clients send
  DefaultKeep,  \* CIMA_KEEP_ALIVE: "seconds", "forever" or "zero"
  Cap,          \* CIMA_MAX_QUEUE, 0 when unbounded
  MaxRequests,  \* bound of the model: requests that arrive in one run
  NoModel, NoOne

(* Operators named for a slip (...Unqueued, ...Unrecovered, ...Retrying,   *)
(* ...Verbatim, ...Muted, ...Unlocked, ...Inverted) are bugs the code does *)
(* not have; they only show that the properties can tell.                  *)
AllKinds == {"generate", "embed", "empty", "delete", "pull"}
AllKeeps == {"default", "seconds", "forever", "now"}

ASSUME GeneratorsAssumption == Generators \subseteq Models
ASSUME RequestsAssumption ==
  /\ Requests # {}
  /\ Requests \subseteq [kind : AllKinds, model : Models, keep : AllKeeps,
                         stream : BOOLEAN]
ASSUME DefaultKeepAssumption == DefaultKeep \in {"seconds", "forever", "zero"}
ASSUME BoundsAssumption == Cap \in Nat /\ MaxRequests \in Nat
ASSUME NoModelAssumption == NoModel \notin Models
ASSUME NoOneAssumption == NoOne \notin Threads

VARIABLES
  line, granted,  \* the admission line, see Admission
  lock,           \* the thread that holds Mutex<ModelManager>, or NoOne
  current,        \* ModelManager.current
  expiry,         \* ModelManager.expires_at
  poisoned,       \* CTX_POISONED
  alive,          \* FALSE after process::exit(86)
  disk,           \* models whose files are under ./models
  pc, req, wire,  \* per thread: stage, request, response on its socket
  arrivals        \* requests that have arrived so far

vars == <<line, granted, lock, current, expiry, poisoned, alive, disk, pc, req,
          wire, arrivals>>

queueVars == <<line, granted>>
managerVars == <<current, expiry, poisoned>>

Queue == INSTANCE Admission

Stages == {"idle", "arrived", "admitted", "queued", "permitted", "direct",
           "locked", "ensured", "prepared", "generating", "embedding",
           "unlocking", "removing", "pulling", "leaving"}

(* expires_at: None, an instant to come, an instant gone by.               *)
Windows == {"never", "running", "elapsed"}

(* The socket: nothing sent, a chunked response open, a whole response, a  *)
(* response with a second one inside it, or a client that went away.       *)
Wires == {"silent", "streaming", "complete", "garbled", "gone"}

(* The stages at which a handler relies on the model it asked for.         *)
UsingModel == {"ensured", "prepared", "generating", "embedding"}

Init ==
  /\ Queue!AInit
  /\ lock = NoOne
  /\ current = NoModel
  /\ expiry = "never"
  /\ poisoned = FALSE
  /\ alive = TRUE
  /\ disk \in SUBSET Models
  /\ pc = [t \in Threads |-> "idle"]
  /\ req = [t \in Threads |-> CHOOSE r \in Requests : TRUE]
  /\ wire = [t \in Threads |-> "complete"]
  /\ arrivals = 0

At(t, stage) == alive /\ pc[t] = stage

Goto(t, stage) == pc' = [pc EXCEPT ![t] = stage]

(* respond_json and respond_error write a whole response, status line and  *)
(* all, whatever the socket has carried before.                            *)
Answered(t) ==
  IF wire[t] = "silent" THEN "complete"
  ELSE IF wire[t] = "streaming" THEN "garbled"
  ELSE wire[t]

Answer(t) == wire' = [wire EXCEPT ![t] = Answered(t)]

--------------------------------------------------------------------------------
(* Arrival and admission.                                                  *)

ArriveEmbedUnqueued(t, r) ==
  /\ At(t, "idle")
  /\ arrivals < MaxRequests
  /\ arrivals' = arrivals + 1
  /\ req' = [req EXCEPT ![t] = r]
  /\ wire' = [wire EXCEPT ![t] = "silent"]
  /\ Goto(t, IF r.kind = "generate" THEN "arrived"
             ELSE IF r.kind = "pull" THEN "pulling"
             ELSE "direct")
  /\ UNCHANGED <<queueVars, managerVars, lock, alive, disk>>

(* serve: one thread per accepted connection; handle_connection parses and *)
(* routes.  Only generation and embedding go through the queue.            *)
Arrive(t, r) ==
  /\ At(t, "idle")
  /\ arrivals < MaxRequests
  /\ arrivals' = arrivals + 1
  /\ req' = [req EXCEPT ![t] = r]
  /\ wire' = [wire EXCEPT ![t] = "silent"]
  /\ Goto(t, IF r.kind \in {"generate", "embed"} THEN "arrived"
             ELSE IF r.kind = "pull" THEN "pulling"
             ELSE "direct")
  /\ UNCHANGED <<queueVars, managerVars, lock, alive, disk>>

(* try_acquire, the cap check.                                             *)
PassCap(t) ==
  /\ At(t, "arrived")
  /\ Cap > 0 => Len(line) < Cap
  /\ Goto(t, "admitted")
  /\ UNCHANGED <<queueVars, managerVars, lock, alive, disk, req, wire, arrivals>>

(* try_acquire at the cap: 429.                                            *)
Refuse(t) ==
  /\ At(t, "arrived")
  /\ Cap > 0 /\ Len(line) >= Cap
  /\ Answer(t)
  /\ Goto(t, "idle")
  /\ UNCHANGED <<queueVars, managerVars, lock, alive, disk, req, arrivals>>

(* acquire: take a place in the line.                                      *)
TakePlace(t) ==
  /\ At(t, "admitted")
  /\ Queue!JoinEmpty(t) \/ Queue!JoinBehind(t)
  /\ Goto(t, IF line = <<>> THEN "permitted" ELSE "queued")
  /\ UNCHANGED <<managerVars, lock, alive, disk, req, wire, arrivals>>

(* acquire returns the permit to the head of the line.                     *)
GetPermit(t) ==
  /\ At(t, "queued")
  /\ line # <<>> /\ Head(line) = t
  /\ Queue!Grant
  /\ Goto(t, "permitted")
  /\ UNCHANGED <<managerVars, lock, alive, disk, req, wire, arrivals>>

--------------------------------------------------------------------------------
(* Under the manager mutex.                                                *)

(* manager.lock(): after the permit, or straight away for an empty request *)
(* and for a delete.                                                       *)
TakeManager(t) ==
  /\ At(t, "permitted") \/ At(t, "direct")
  /\ lock = NoOne
  /\ lock' = t
  /\ Goto(t, "locked")
  /\ UNCHANGED <<queueVars, managerVars, alive, disk, req, wire, arrivals>>

(* The handlers that call ModelManager::ensure; the others only evict.     *)
WantsModel(t) ==
  \/ req[t].kind \in {"generate", "embed"}
  \/ req[t].kind = "empty" /\ req[t].keep # "now"

(* What recover leaves: a poisoned context costs the resident model and    *)
(* its deadline.                                                           *)
Surviving == IF poisoned THEN NoModel ELSE current
SurvivingExpiry == IF poisoned THEN "never" ELSE expiry

EnsureUnrecovered(t) ==
  /\ At(t, "locked") /\ WantsModel(t)
  /\ current = req[t].model \/ req[t].model \in disk
  /\ current' = req[t].model
  /\ Goto(t, "ensured")
  /\ UNCHANGED <<queueVars, expiry, poisoned, lock, alive, disk, req, wire, arrivals>>

(* ensure, the model is resident or it loads.  A load succeeds only on a   *)
(* sound context; neither path touches the deadline.                       *)
Ensure(t) ==
  /\ At(t, "locked") /\ WantsModel(t)
  /\ Surviving = req[t].model \/ req[t].model \in disk
  /\ current' = req[t].model
  /\ expiry' = SurvivingExpiry
  /\ poisoned' = FALSE
  /\ Goto(t, "ensured")
  /\ UNCHANGED <<queueVars, lock, alive, disk, req, wire, arrivals>>

EnsureFailsRetrying(t) ==
  /\ At(t, "locked") /\ WantsModel(t)
  /\ Surviving # req[t].model
  /\ current' = NoModel
  /\ expiry' = SurvivingExpiry
  /\ poisoned' = FALSE
  /\ UNCHANGED <<queueVars, lock, alive, disk, pc, req, wire, arrivals>>

(* ensure evicts before it loads, and the load fails: no such model, no    *)
(* room, or a device fault, perhaps one that only the eviction's sync saw. *)
EnsureFails(t) ==
  /\ At(t, "locked") /\ WantsModel(t)
  /\ Surviving # req[t].model
  /\ current' = NoModel
  /\ expiry' = SurvivingExpiry
  /\ poisoned' \in BOOLEAN
  /\ Answer(t)
  /\ Goto(t, "unlocking")
  /\ UNCHANGED <<queueVars, lock, alive, disk, req, arrivals>>

(* recover cannot reset or rebuild the context: process::exit(86).         *)
GiveUp(t) ==
  /\ At(t, "locked") /\ WantsModel(t)
  /\ poisoned
  /\ alive' = FALSE
  /\ UNCHANGED <<queueVars, managerVars, lock, disk, pc, req, wire, arrivals>>

(* The unload idiom and handle_delete: evict the named model if resident.  *)
EvictNamed(t) ==
  /\ At(t, "locked") /\ ~ WantsModel(t)
  /\ IF current = req[t].model
       THEN current' = NoModel /\ poisoned' \in {poisoned, TRUE}
       ELSE UNCHANGED <<current, poisoned>>
  /\ IF req[t].kind = "delete" THEN UNCHANGED wire ELSE Answer(t)
  /\ Goto(t, "unlocking")
  /\ UNCHANGED <<queueVars, expiry, lock, alive, disk, req, arrivals>>

(* ModelManager::touch.                                                    *)
Window(keep) ==
  LET granted_keep == IF keep = "default" THEN DefaultKeep ELSE keep
  IN CASE granted_keep = "forever" -> "never"
       [] granted_keep = "seconds" -> "running"
       [] granted_keep = "zero" -> "elapsed"

Touch(keep) ==
  IF keep = "now"
    THEN /\ current' = NoModel
         /\ poisoned' \in {poisoned, TRUE}
         /\ UNCHANGED expiry
    ELSE /\ expiry' = Window(keep)
         /\ UNCHANGED <<current, poisoned>>

(* The load idiom: ensure, touch, one done response.                       *)
FinishLoad(t) ==
  /\ At(t, "ensured") /\ req[t].kind = "empty"
  /\ Touch(req[t].keep)
  /\ Answer(t)
  /\ Goto(t, "unlocking")
  /\ UNCHANGED <<queueVars, lock, alive, disk, req, arrivals>>

(* Capability check, chat template and prepare: each may answer 400, and   *)
(* the encoder towers that prepare runs may meet a device fault.           *)
Prepare(t) ==
  /\ At(t, "ensured") /\ req[t].kind = "generate"
  /\ req[t].model \in Generators
  /\ Goto(t, "prepared")
  /\ UNCHANGED <<queueVars, managerVars, lock, alive, disk, req, wire, arrivals>>

PrepareFails(t) ==
  /\ At(t, "ensured") /\ req[t].kind = "generate"
  /\ Answer(t)
  /\ poisoned' \in {poisoned, TRUE}
  /\ Goto(t, "unlocking")
  /\ UNCHANGED <<queueVars, current, expiry, lock, alive, disk, req, arrivals>>

(* The forward pass begins, on the context as ensure left it.              *)
Forward(t) ==
  /\ \/ At(t, "prepared") /\ Goto(t, "generating")
     \/ At(t, "ensured") /\ req[t].kind = "embed" /\ Goto(t, "embedding")
  /\ UNCHANGED <<queueVars, managerVars, lock, alive, disk, req, wire, arrivals>>

(* ChunkedWriter::line from the token callback: the headers go out with    *)
(* the first piece, and a failed write marks the client gone for good.     *)
Emit(t) ==
  /\ At(t, "generating") /\ req[t].stream
  /\ \/ wire[t] = "silent" /\ wire' = [wire EXCEPT ![t] = "streaming"]
     \/ wire[t] \in {"silent", "streaming"} /\ wire' = [wire EXCEPT ![t] = "gone"]
  /\ UNCHANGED <<queueVars, managerVars, lock, alive, disk, pc, req, arrivals>>

ForwardFailsMuted(t) ==
  /\ At(t, "generating") \/ At(t, "embedding")
  /\ IF wire[t] = "streaming" THEN UNCHANGED wire ELSE Answer(t)
  /\ poisoned' \in {poisoned, TRUE}
  /\ Goto(t, "unlocking")
  /\ UNCHANGED <<queueVars, current, expiry, lock, alive, disk, req, arrivals>>

(* The forward pass fails, perhaps with a fault that is fatal to the       *)
(* context: 500, unless the stream's client is known to be gone.  No touch.*)
ForwardFails(t) ==
  /\ At(t, "generating") \/ At(t, "embedding")
  /\ Answer(t)
  /\ poisoned' \in {poisoned, TRUE}
  /\ Goto(t, "unlocking")
  /\ UNCHANGED <<queueVars, current, expiry, lock, alive, disk, req, arrivals>>

(* Success: touch, then the final frame and the terminating chunk, or one  *)
(* JSON response when nothing was streamed.                                *)
ForwardSucceeds(t) ==
  /\ At(t, "generating") \/ At(t, "embedding")
  /\ Touch(req[t].keep)
  /\ wire' = [wire EXCEPT ![t] = IF @ = "gone" THEN "gone" ELSE "complete"]
  /\ Goto(t, "unlocking")
  /\ UNCHANGED <<queueVars, lock, alive, disk, req, arrivals>>

--------------------------------------------------------------------------------
(* Leaving.                                                                *)

(* The guard is dropped before the permit, which was taken first.          *)
Unlock(t) ==
  /\ At(t, "unlocking")
  /\ lock' = NoOne
  /\ Goto(t, IF req[t].kind = "delete" THEN "removing"
             ELSE IF req[t].kind = "empty" THEN "idle"
             ELSE "leaving")
  /\ UNCHANGED <<queueVars, managerVars, alive, disk, req, wire, arrivals>>

DropPermit(t) ==
  /\ At(t, "leaving")
  /\ Queue!Leave
  /\ Goto(t, "idle")
  /\ UNCHANGED <<managerVars, lock, alive, disk, req, wire, arrivals>>

(* handle_delete after its critical section: 404, remove_dir_all, or 500.  *)
RemoveFiles(t) ==
  /\ At(t, "removing")
  /\ disk' \in {disk, disk \ {req[t].model}}
  /\ Answer(t)
  /\ Goto(t, "idle")
  /\ UNCHANGED <<queueVars, managerVars, lock, alive, req, arrivals>>

(* handle_pull: status lines in one chunked response, success or error.    *)
Pull(t) ==
  /\ At(t, "pulling")
  /\ disk' \in {disk, disk \cup {req[t].model}}
  /\ Answer(t)
  /\ Goto(t, "idle")
  /\ UNCHANGED <<queueVars, managerVars, lock, alive, req, arrivals>>

--------------------------------------------------------------------------------
(* The sweeper and the clock.                                              *)

SweepUnlocked ==
  /\ alive
  /\ current # NoModel /\ expiry = "elapsed"
  /\ current' = NoModel
  /\ poisoned' \in {poisoned, TRUE}
  /\ UNCHANGED <<queueVars, expiry, lock, alive, disk, pc, req, wire, arrivals>>

SweepInverted ==
  /\ alive
  /\ lock = NoOne
  /\ current = NoModel /\ expiry = "elapsed"
  /\ current' = NoModel
  /\ poisoned' \in {poisoned, TRUE}
  /\ UNCHANGED <<queueVars, expiry, lock, alive, disk, pc, req, wire, arrivals>>

(* Every ten seconds: try_lock, and sweep an elapsed window.  Ticks that   *)
(* find the mutex taken or nothing to release change nothing.              *)
Sweep ==
  /\ alive
  /\ lock = NoOne
  /\ current # NoModel /\ expiry = "elapsed"
  /\ current' = NoModel
  /\ poisoned' \in {poisoned, TRUE}
  /\ UNCHANGED <<queueVars, expiry, lock, alive, disk, pc, req, wire, arrivals>>

(* The instant in expires_at goes by.                                      *)
WindowElapses ==
  /\ alive
  /\ expiry = "running"
  /\ expiry' = "elapsed"
  /\ UNCHANGED <<queueVars, current, poisoned, lock, alive, disk, pc, req, wire,
                 arrivals>>

(* The bound of the model is reached and all is quiet, or the process is   *)
(* gone.                                                                   *)
Rest ==
  /\ \/ ~ alive
     \/ arrivals = MaxRequests /\ \A t \in Threads : pc[t] = "idle"
  /\ UNCHANGED vars

Progress(t) ==
  \/ PassCap(t) \/ Refuse(t) \/ TakePlace(t) \/ GetPermit(t) \/ TakeManager(t)
  \/ Ensure(t) \/ EnsureFails(t) \/ GiveUp(t) \/ EvictNamed(t) \/ FinishLoad(t)
  \/ Prepare(t) \/ PrepareFails(t) \/ Forward(t)
  \/ ForwardFails(t) \/ ForwardSucceeds(t)
  \/ Unlock(t) \/ DropPermit(t) \/ RemoveFiles(t) \/ Pull(t)

Next ==
  \/ \E t \in Threads :
       \/ \E r \in Requests : Arrive(t, r)
       \/ Progress(t)
       \/ Emit(t)
  \/ Sweep
  \/ WindowElapses
  \/ Rest

Spec == Init /\ [][Next]_vars

(* The operating system runs every runnable thread, a generation ends (its *)
(* token budget is finite) and loads, pulls and deletes return.  The mutex *)
(* is not fair, but MaxRequests bounds the contenders, so weak fairness of *)
(* each thread is enough.  The sweeper wakes every ten seconds for ever.   *)
Fairness ==
  /\ \A t \in Threads : WF_vars(Progress(t))
  /\ WF_vars(Sweep)
  /\ WF_vars(WindowElapses)

FairSpec == Spec /\ Fairness

--------------------------------------------------------------------------------
(* Properties.                                                             *)

(* Types of the variables.                                                 *)
TypeOK ==
  /\ line \in Seq(Threads) /\ granted \in BOOLEAN
  /\ lock \in Threads \cup {NoOne}
  /\ current \in Models \cup {NoModel}
  /\ expiry \in Windows
  /\ poisoned \in BOOLEAN /\ alive \in BOOLEAN
  /\ disk \subseteq Models
  /\ pc \in [Threads -> Stages]
  /\ req \in [Threads -> Requests]
  /\ wire \in [Threads -> Wires]
  /\ arrivals \in 0 .. MaxRequests

(* From ensure to the response, the resident model is the one the request  *)
(* asked for: no sweep, unload, delete or other request swaps it under a   *)
(* running generation.                                                     *)
ModelPinned ==
  \A t \in Threads :
    pc[t] \in UsingModel => lock = t /\ current = req[t].model

(* No forward pass starts or runs on a context known to be dead: a fault   *)
(* seen by any earlier request, eviction or sweep is recovered first.      *)
ForwardOnSoundContext ==
  \A t \in Threads : pc[t] \in UsingModel => ~ poisoned

(* Generation and embedding run only for the owner of the GPU: the head of *)
(* the admission line, with its permit.                                    *)
GpuWorkUnderPermit ==
  \A t \in Threads :
    pc[t] \in {"prepared", "generating", "embedding"} => Queue!Holder(t)

(* Every path out of a handler has answered: once a handler has left, its  *)
(* socket has carried a whole response, or the client was seen to be gone. *)
NoOneLeftHanging ==
  \A t \in Threads :
    pc[t] \in {"idle", "leaving"} => wire[t] \notin {"silent", "streaming"}

(* Every request comes to an end, through admission, the mutex and errors, *)
(* unless the process gives the device up.                                 *)
EveryRequestEnds ==
  \A t \in Threads : pc[t] # "idle" ~> pc[t] = "idle" \/ ~ alive

(* A finite keep-alive window ends in an unload, whether or not a sweeper  *)
(* tick found the manager busy, unless a request renews it.                *)
WindowEndsInUnload ==
  (current # NoModel /\ expiry # "never")
    ~> (current = NoModel \/ expiry = "never" \/ ~ alive)

(* The wire contract: one response on a connection.  An error after the    *)
(* first streamed piece writes a second one into the open chunked body.    *)
OneResponse == \A t \in Threads : wire[t] # "garbled"
================================================================================
