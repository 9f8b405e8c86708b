------------------------------ MODULE ServerProofs ------------------------------
(***************************************************************************)
(* Proofs about Server for every set of threads, models and requests, any  *)
(* cap and any keep-alive: who uses the resident model has it to himself,  *)
(* on a sound context and under the permit, and no handler leaves its      *)
(* client without an answer.                                               *)
(***************************************************************************)
EXTENDS Server, SequenceTheorems, TLAPS

Critical == {"locked", "unlocking"} \cup UsingModel
InLineStages == {"arrived", "admitted", "queued", "permitted", "leaving"}
GpuStages == {"prepared", "generating", "embedding"}
GpuKinds == {"generate", "embed"}

(* What is true of one thread: which requests reach its stage, that it has *)
(* the mutex, its model, the permit, and what its socket has carried.      *)
KindFits(t) ==
  /\ pc[t] \in InLineStages \cup GpuStages => req[t].kind \in GpuKinds
  /\ pc[t] = "direct" => req[t].kind \in {"empty", "delete"}
  /\ pc[t] \in Critical => req[t].kind # "pull"
HoldsLock(t) == pc[t] \in Critical => lock = t
HasModel(t) == pc[t] \in UsingModel => current = req[t].model /\ ~ poisoned
Owner(t) ==
  \/ pc[t] \in {"permitted", "leaving"}
  \/ pc[t] \in Critical /\ req[t].kind \in GpuKinds
HasPermit(t) == Owner(t) => Queue!Holder(t)
HasAnswered(t) ==
  \/ pc[t] \in {"idle", "leaving"}
  \/ pc[t] = "unlocking" /\ req[t].kind # "delete"
  => wire[t] \notin {"silent", "streaming"}

Sound(t) == KindFits(t) /\ HoldsLock(t) /\ HasModel(t) /\ HasPermit(t) /\ HasAnswered(t)

(* The inductive invariant behind the theorems of this module.             *)
IInv == TypeOK /\ \A t \in Threads : Sound(t)

--------------------------------------------------------------------------------
(* A step of one thread seen from the others.                              *)

(* Whoever has the mutex may change the model: nobody else relies on it.   *)
LEMMA OthersStaySound ==
  ASSUME IInv, NEW t \in Threads, NEW u \in Threads, u # t,
         pc'[u] = pc[u], req'[u] = req[u], wire'[u] = wire[u],
         UNCHANGED <<lock, current, poisoned>> \/ lock \in {t, NoOne},
         Queue!Holder(u) => Queue!Holder(u)'
  PROVE  Sound(u)'
<1>1. Sound(u)
  BY DEF IInv
<1>2. KindFits(u)' /\ HasAnswered(u)'
  BY <1>1 DEF Sound, KindFits, HasAnswered
<1>3. HasPermit(u)'
  BY <1>1 DEF Sound, HasPermit, Owner
<1>4. HoldsLock(u)' /\ HasModel(u)'
  <2>1. CASE UNCHANGED <<lock, current, poisoned>>
    BY <1>1, <2>1 DEF Sound, HoldsLock, HasModel
  <2>2. CASE lock \in {t, NoOne}
    <3>1. pc[u] \notin Critical
      BY <1>1, <2>2, NoOneAssumption DEF Sound, HoldsLock
    <3> QED
      BY <3>1 DEF HoldsLock, HasModel, Critical
  <2> QED
    BY <2>1, <2>2
<1> QED
  BY <1>2, <1>3, <1>4 DEF Sound

(* A thread that leaves the line, the mutex and the model as they are.     *)
LEMMA QuietStep ==
  ASSUME IInv, NEW t \in Threads, TypeOK', Sound(t)',
         \A u \in Threads \ {t} : pc'[u] = pc[u] /\ req'[u] = req[u] /\ wire'[u] = wire[u],
         UNCHANGED <<lock, current, poisoned>> \/ lock \in {t, NoOne},
         UNCHANGED queueVars
  PROVE  IInv'
<1> SUFFICES ASSUME NEW u \in Threads PROVE Sound(u)'
  BY DEF IInv
<1>1. CASE u # t
  <2>1. Queue!Holder(u) => Queue!Holder(u)'
    BY DEF queueVars, Queue!Holder
  <2> QED
    BY <1>1, <2>1, OthersStaySound
<1> QED
  BY <1>1

--------------------------------------------------------------------------------
(* Arrival, admission and departure.                                       *)

(* The line stays a line of threads; whoever joins it behind or is told    *)
(* that the permit is his takes it from nobody.                            *)
LEMMA JoiningLine ==
  ASSUME IInv, NEW t \in Threads, Queue!JoinEmpty(t) \/ Queue!JoinBehind(t) \/ Queue!Grant
  PROVE  /\ line' \in Seq(Threads) /\ granted' \in BOOLEAN
         /\ \A u \in Threads : Queue!Holder(u) => Queue!Holder(u)'
         /\ Queue!JoinEmpty(t) => Queue!Holder(t)'
<1>1. line \in Seq(Threads) /\ granted \in BOOLEAN
  BY DEF IInv, TypeOK
<1>2. CASE Queue!JoinEmpty(t)
  <2>1. line = <<>> /\ line' = <<t>> /\ granted' = TRUE
    BY <1>2 DEF Queue!JoinEmpty
  <2>2. <<t>> \in Seq(Threads) /\ Head(<<t>>) = t /\ <<t>> # <<>>
    OBVIOUS
  <2> QED
    BY <2>1, <2>2 DEF Queue!Holder
<1>3. CASE Queue!JoinBehind(t)
  <2>1. line # <<>> /\ line' = Append(line, t) /\ granted' = granted
    BY <1>3 DEF Queue!JoinBehind
  <2>2. Append(line, t) \in Seq(Threads) /\ Append(line, t) # <<>>
    BY <1>1, AppendProperties
  <2>3. Head(Append(line, t)) = Head(line)
    BY <1>1, <2>1, HeadTailAppend
  <2> QED
    BY <1>1, <2>1, <2>2, <2>3 DEF Queue!Holder, Queue!JoinEmpty
<1>4. CASE Queue!Grant
  BY <1>1, <1>4 DEF Queue!Grant, Queue!Holder, Queue!JoinEmpty
<1> QED
  BY <1>2, <1>3, <1>4

LEMMA InitIInv == Init => IInv
<1> SUFFICES ASSUME Init PROVE IInv
  OBVIOUS
<1>1. (CHOOSE r \in Requests : TRUE) \in Requests
  BY RequestsAssumption
<1>2. TypeOK
  <2>1. line \in Seq(Threads) /\ granted \in BOOLEAN
    BY EmptySeq DEF Init, Queue!AInit
  <2>2. req \in [Threads -> Requests]
    BY <1>1 DEF Init
  <2>3. arrivals \in 0 .. MaxRequests
    BY BoundsAssumption DEF Init
  <2>4. pc \in [Threads -> Stages] /\ wire \in [Threads -> Wires] /\ expiry \in Windows
    BY DEF Init, Stages, Wires, Windows
  <2>5. /\ lock \in Threads \cup {NoOne} /\ current \in Models \cup {NoModel}
        /\ poisoned \in BOOLEAN /\ alive \in BOOLEAN /\ disk \subseteq Models
    BY DEF Init
  <2> QED
    BY <2>1, <2>2, <2>3, <2>4, <2>5 DEF TypeOK
<1>3. \A t \in Threads : Sound(t)
  BY DEF Init, Sound, KindFits, HoldsLock, HasModel, HasPermit, HasAnswered, Owner, Critical,
     UsingModel, InLineStages, GpuStages
<1> QED
  BY <1>2, <1>3 DEF IInv

LEMMA ArriveKeepsIInv ==
  ASSUME IInv, NEW t \in Threads, NEW r \in Requests, Arrive(t, r) PROVE IInv'
<1>1. TypeOK'
  BY BoundsAssumption DEF IInv, TypeOK, Arrive, Goto, queueVars, managerVars, Stages, Wires
<1>2. pc'[t] \in {"arrived", "pulling", "direct"} /\ req'[t] = r
  BY DEF Arrive, Goto, IInv, TypeOK
<1>3. /\ pc'[t] = "arrived" => r.kind \in GpuKinds
      /\ pc'[t] = "direct" => r.kind \in {"empty", "delete"}
  BY RequestsAssumption DEF Arrive, Goto, IInv, TypeOK, GpuKinds, AllKinds
<1>4. Sound(t)'
  BY <1>2, <1>3 DEF Sound, KindFits, HoldsLock, HasModel, HasPermit, HasAnswered, Owner, Critical,
     UsingModel, InLineStages, GpuStages
<1>5. \A u \in Threads \ {t} : pc'[u] = pc[u] /\ req'[u] = req[u] /\ wire'[u] = wire[u]
  BY DEF Arrive, Goto, IInv, TypeOK
<1> QED
  BY <1>1, <1>4, <1>5, QuietStep DEF Arrive, managerVars

LEMMA AdmissionKeepsIInv ==
  ASSUME IInv, NEW t \in Threads, PassCap(t) \/ Refuse(t) PROVE IInv'
<1> USE DEF IInv, TypeOK, PassCap, Refuse, At, Goto, Answer, Answered
<1>1. TypeOK'
  BY DEF queueVars, managerVars, Stages, Wires
<1>2. KindFits(t)
  BY DEF Sound
<1>3. /\ req' = req /\ pc'[t] \in {"admitted", "idle"} /\ pc[t] = "arrived"
      /\ pc'[t] = "idle" => wire'[t] \notin {"silent", "streaming"}
  BY DEF Wires
<1>4. Sound(t)'
  BY <1>2, <1>3 DEF Sound, KindFits, HoldsLock, HasModel, HasPermit, HasAnswered, Owner, Critical,
     UsingModel, InLineStages, GpuStages
<1>5. \A u \in Threads \ {t} : pc'[u] = pc[u] /\ req'[u] = req[u] /\ wire'[u] = wire[u]
  OBVIOUS
<1> QED
  BY <1>1, <1>4, <1>5, QuietStep DEF managerVars

(* Only a thread that finds the line empty gets the permit at once.        *)
LEMMA TakePlaceKeepsIInv ==
  ASSUME IInv, NEW t \in Threads, TakePlace(t) PROVE IInv'
<1> USE DEF IInv, TakePlace, Goto, At
<1>0. /\ line' \in Seq(Threads) /\ granted' \in BOOLEAN
      /\ \A u \in Threads : Queue!Holder(u) => Queue!Holder(u)'
      /\ Queue!JoinEmpty(t) => Queue!Holder(t)'
  BY JoiningLine
<1>1. TypeOK'
  BY <1>0 DEF TypeOK, managerVars, Stages
<1>2. pc'[t] \in {"permitted", "queued"} /\ pc[t] = "admitted" /\ req' = req /\ wire' = wire
  BY DEF TypeOK
<1>3. pc'[t] = "permitted" => Queue!Holder(t)'
  BY <1>0 DEF TypeOK, Queue!JoinBehind
<1>4. KindFits(t)
  BY DEF Sound
<1>5. Sound(t)'
  BY <1>2, <1>3, <1>4 DEF Sound, KindFits, HoldsLock, HasModel, HasPermit, HasAnswered, Owner,
     Critical, UsingModel, InLineStages, GpuStages
<1>6. ASSUME NEW u \in Threads, u # t PROVE Sound(u)'
  <2>1. Queue!Holder(u) => Queue!Holder(u)'
    BY <1>0
  <2>2. pc'[u] = pc[u]
    BY <1>6 DEF TypeOK
  <2> QED
    BY <1>2, <1>6, <2>1, <2>2, OthersStaySound DEF managerVars
<1> QED
  BY <1>1, <1>5, <1>6

LEMMA GetPermitKeepsIInv ==
  ASSUME IInv, NEW t \in Threads, GetPermit(t) PROVE IInv'
<1> USE DEF IInv, GetPermit, Goto, At
<1>1. TypeOK'
  BY DEF TypeOK, managerVars, Stages, Queue!Grant
<1>2. pc'[t] = "permitted" /\ pc[t] = "queued" /\ req' = req /\ wire' = wire
  BY DEF TypeOK
<1>3. Queue!Holder(t)'
  BY DEF Queue!Grant, Queue!Holder
<1>4. KindFits(t)
  BY DEF Sound
<1>5. Sound(t)'
  BY <1>2, <1>3, <1>4 DEF Sound, KindFits, HoldsLock, HasModel, HasPermit, HasAnswered, Owner,
     Critical, UsingModel, InLineStages, GpuStages
<1>6. ASSUME NEW u \in Threads, u # t PROVE Sound(u)'
  <2>1. Queue!Holder(u) => Queue!Holder(u)'
    BY DEF Queue!Grant, Queue!Holder
  <2>2. pc'[u] = pc[u]
    BY <1>6 DEF TypeOK
  <2> QED
    BY <1>2, <1>6, <2>1, <2>2, OthersStaySound DEF managerVars
<1> QED
  BY <1>1, <1>5, <1>6

(* The one at the head of the line leaves; nobody else was its owner.      *)
LEMMA DropPermitKeepsIInv ==
  ASSUME IInv, NEW t \in Threads, DropPermit(t) PROVE IInv'
<1> USE DEF IInv, DropPermit, Goto, At
<1>1. TypeOK'
  <2>1. line' \in Seq(Threads) /\ granted' = FALSE
    BY HeadTailProperties DEF TypeOK, Queue!Leave
  <2> QED
    BY <2>1 DEF TypeOK, managerVars, Stages
<1>2. pc'[t] = "idle" /\ pc[t] = "leaving" /\ req' = req /\ wire' = wire
  BY DEF TypeOK
<1>3. Queue!Holder(t) /\ HasAnswered(t)
  BY <1>2 DEF Sound, HasPermit, Owner
<1>4. Sound(t)'
  BY <1>2, <1>3 DEF Sound, KindFits, HoldsLock, HasModel, HasPermit, HasAnswered, Owner,
     Critical, UsingModel, InLineStages, GpuStages
<1>5. ASSUME NEW u \in Threads, u # t PROVE Sound(u)'
  <2>1. ~ Queue!Holder(u)
    BY <1>3, <1>5 DEF Queue!Holder
  <2>2. pc'[u] = pc[u]
    BY <1>5 DEF TypeOK
  <2> QED
    BY <1>2, <1>5, <2>1, <2>2, OthersStaySound DEF managerVars
<1> QED
  BY <1>1, <1>4, <1>5

--------------------------------------------------------------------------------
(* Under the mutex.                                                        *)

LEMMA TakeManagerKeepsIInv ==
  ASSUME IInv, NEW t \in Threads, TakeManager(t) PROVE IInv'
<1> USE DEF IInv, TakeManager, Goto, At
<1>1. TypeOK'
  BY DEF TypeOK, queueVars, managerVars, Stages
<1>2. /\ pc'[t] = "locked" /\ pc[t] \in {"permitted", "direct"} /\ req' = req /\ lock' = t
      /\ KindFits(t) /\ HasPermit(t)
  BY DEF TypeOK, Sound
<1>3. Queue!Holder(t)' = Queue!Holder(t)
  BY DEF queueVars, Queue!Holder
<1>4. KindFits(t)' /\ HoldsLock(t)' /\ HasModel(t)' /\ HasAnswered(t)'
  BY <1>2 DEF KindFits, HoldsLock, HasModel, HasAnswered, Critical, UsingModel, InLineStages,
     GpuStages, GpuKinds
<1>5. HasPermit(t)'
  BY <1>2, <1>3 DEF KindFits, HasPermit, Owner, InLineStages, GpuKinds
<1>6. \A u \in Threads \ {t} : pc'[u] = pc[u] /\ req'[u] = req[u] /\ wire'[u] = wire[u]
  BY DEF TypeOK
<1> QED
  BY <1>1, <1>4, <1>5, <1>6, QuietStep DEF Sound

(* A step under the mutex from one critical stage to the next.             *)
LEMMA CriticalStep ==
  ASSUME IInv, NEW t \in Threads, TypeOK',
         pc[t] \in Critical, pc'[t] \in Critical, lock' = lock, req' = req,
         UNCHANGED queueVars,
         pc'[t] \in GpuStages => req[t].kind \in GpuKinds,
         pc'[t] = "unlocking" /\ req[t].kind # "delete"
           => wire'[t] \notin {"silent", "streaming"},
         HasModel(t)',
         \A u \in Threads \ {t} : pc'[u] = pc[u] /\ wire'[u] = wire[u]
  PROVE  IInv'
<1>1. KindFits(t) /\ HoldsLock(t) /\ HasPermit(t) /\ lock = t
  BY DEF IInv, Sound, HoldsLock
<1>2. KindFits(t)'
  BY <1>1 DEF KindFits, InLineStages, Critical, UsingModel
<1>3. HoldsLock(t)' /\ HasAnswered(t)'
  BY <1>1 DEF HoldsLock, HasAnswered, Critical, UsingModel
<1>4. HasPermit(t)'
  BY <1>1 DEF HasPermit, Owner, Critical, UsingModel, queueVars, Queue!Holder
<1> QED
  BY <1>1, <1>2, <1>3, <1>4, QuietStep DEF Sound

LEMMA RequestIsTyped ==
  ASSUME IInv, NEW t \in Threads
  PROVE  req[t] \in Requests /\ req[t].model \in Models /\ req[t].kind \in AllKinds
BY RequestsAssumption DEF IInv, TypeOK

LEMMA EnsureKeepsIInv ==
  ASSUME IInv, NEW t \in Threads, Ensure(t) PROVE IInv'
<1> USE DEF IInv, Ensure, Goto, At
<1>1. req[t].model \in Models
  BY RequestIsTyped
<1>2. TypeOK'
  BY <1>1 DEF TypeOK, queueVars, Stages, Windows, SurvivingExpiry
<1>3. pc[t] = "locked" /\ pc'[t] = "ensured" /\ req' = req /\ lock' = lock
  BY DEF TypeOK
<1>4. HasModel(t)'
  BY <1>3 DEF HasModel
<1>5. \A u \in Threads \ {t} : pc'[u] = pc[u] /\ wire'[u] = wire[u]
  BY DEF TypeOK
<1> QED
  BY <1>2, <1>3, <1>4, <1>5, CriticalStep DEF Critical, UsingModel, GpuStages

(* What an answer does to the socket of its thread.                        *)
LEMMA AnswerIsHeard ==
  ASSUME IInv, NEW t \in Threads, Answer(t)
  PROVE  /\ wire' \in [Threads -> Wires]
         /\ wire'[t] \notin {"silent", "streaming"}
         /\ \A u \in Threads \ {t} : wire'[u] = wire[u]
BY DEF IInv, TypeOK, Answer, Answered, Wires

(* Whatever fails is answered before the mutex is let go.                  *)
LEMMA FailureKeepsIInv ==
  ASSUME IInv, NEW t \in Threads, EnsureFails(t) \/ PrepareFails(t) \/ ForwardFails(t)
  PROVE  IInv'
<1>1. /\ pc[t] \in Critical /\ pc' = [pc EXCEPT ![t] = "unlocking"] /\ Answer(t)
      /\ UNCHANGED <<queueVars, lock, alive, disk, req, arrivals>>
      /\ current' \in {current, NoModel} /\ expiry' \in {expiry, "never"}
      /\ poisoned' \in BOOLEAN
  BY DEF EnsureFails, PrepareFails, ForwardFails, Goto, At, Critical, UsingModel, IInv, TypeOK,
     managerVars, SurvivingExpiry
<1>2. TypeOK'
  BY <1>1, AnswerIsHeard DEF IInv, TypeOK, queueVars, Stages, Windows
<1>3. pc'[t] = "unlocking" /\ \A u \in Threads \ {t} : pc'[u] = pc[u]
  BY <1>1 DEF IInv, TypeOK
<1>4. HasModel(t)'
  BY <1>3 DEF HasModel, UsingModel
<1> QED
  BY <1>1, <1>2, <1>3, <1>4, AnswerIsHeard, CriticalStep DEF Critical, GpuStages

LEMMA EvictNamedKeepsIInv ==
  ASSUME IInv, NEW t \in Threads, EvictNamed(t) PROVE IInv'
<1>1. /\ pc[t] = "locked" /\ pc' = [pc EXCEPT ![t] = "unlocking"]
      /\ UNCHANGED <<queueVars, expiry, lock, alive, disk, req, arrivals>>
      /\ current' \in {current, NoModel} /\ poisoned' \in BOOLEAN
      /\ (req[t].kind = "delete" /\ wire' = wire) \/ Answer(t)
  BY DEF EvictNamed, Goto, At, IInv, TypeOK
<1>2. /\ wire' \in [Threads -> Wires]
      /\ req[t].kind # "delete" => wire'[t] \notin {"silent", "streaming"}
      /\ \A u \in Threads \ {t} : wire'[u] = wire[u]
  BY <1>1, AnswerIsHeard DEF IInv, TypeOK
<1>3. TypeOK'
  BY <1>1, <1>2 DEF IInv, TypeOK, queueVars, Stages
<1>4. pc'[t] = "unlocking" /\ \A u \in Threads \ {t} : pc'[u] = pc[u]
  BY <1>1 DEF IInv, TypeOK
<1>5. HasModel(t)'
  BY <1>4 DEF HasModel, UsingModel
<1> QED
  BY <1>1, <1>2, <1>3, <1>4, <1>5, CriticalStep DEF Critical, GpuStages

(* touch may let the model go, but nobody uses it by then.                 *)
LEMMA TouchIsTyped ==
  ASSUME IInv, NEW keep \in AllKeeps, Touch(keep)
  PROVE  current' \in Models \cup {NoModel} /\ poisoned' \in BOOLEAN /\ expiry' \in Windows
<1>1. CASE keep = "now"
  BY <1>1 DEF IInv, TypeOK, Touch
<1>2. CASE keep # "now"
  <2>1. Window(keep) \in Windows
    BY <1>2, DefaultKeepAssumption DEF Window, Windows, AllKeeps
  <2> QED
    BY <1>2, <2>1 DEF IInv, TypeOK, Touch
<1> QED
  BY <1>1, <1>2

LEMMA SuccessKeepsIInv ==
  ASSUME IInv, NEW t \in Threads, FinishLoad(t) \/ ForwardSucceeds(t) PROVE IInv'
<1>1. /\ pc[t] \in Critical /\ pc' = [pc EXCEPT ![t] = "unlocking"] /\ Touch(req[t].keep)
      /\ UNCHANGED <<queueVars, lock, alive, disk, req, arrivals>>
      /\ Answer(t) \/ wire' = [wire EXCEPT ![t] = IF @ = "gone" THEN "gone" ELSE "complete"]
  BY DEF FinishLoad, ForwardSucceeds, Goto, At, Critical, UsingModel
<1>2. /\ wire' \in [Threads -> Wires]
      /\ wire'[t] \notin {"silent", "streaming"}
      /\ \A u \in Threads \ {t} : wire'[u] = wire[u]
  BY <1>1, AnswerIsHeard DEF IInv, TypeOK, Wires
<1>3. req[t].keep \in AllKeeps
  BY RequestsAssumption DEF IInv, TypeOK
<1>4. current' \in Models \cup {NoModel} /\ poisoned' \in BOOLEAN /\ expiry' \in Windows
  BY <1>1, <1>3, TouchIsTyped
<1>5. TypeOK'
  BY <1>1, <1>2, <1>4 DEF IInv, TypeOK, queueVars, Stages
<1>6. pc'[t] = "unlocking" /\ \A u \in Threads \ {t} : pc'[u] = pc[u]
  BY <1>1 DEF IInv, TypeOK
<1>7. HasModel(t)'
  BY <1>6 DEF HasModel, UsingModel
<1> QED
  BY <1>1, <1>2, <1>5, <1>6, <1>7, CriticalStep DEF Critical, GpuStages

(* From ensure to the forward pass and through it, the model stays.        *)
LEMMA WorkKeepsIInv ==
  ASSUME IInv, NEW t \in Threads, Prepare(t) \/ Forward(t) \/ Emit(t) PROVE IInv'
<1>1. /\ pc[t] \in UsingModel /\ pc'[t] \in UsingModel
      /\ UNCHANGED <<queueVars, managerVars, lock, alive, disk, req, arrivals>>
      /\ pc' \in [Threads -> Stages] /\ wire' \in [Threads -> Wires]
      /\ \A u \in Threads \ {t} : pc'[u] = pc[u] /\ wire'[u] = wire[u]
  BY DEF Prepare, Forward, Emit, Goto, At, UsingModel, IInv, TypeOK, Stages, Wires
<1>2. pc'[t] \in GpuStages => req[t].kind \in GpuKinds
  <2>1. KindFits(t)
    BY DEF IInv, Sound
  <2> QED
    BY <2>1 DEF Prepare, Forward, Emit, Goto, At, IInv, TypeOK, GpuStages, GpuKinds, KindFits
<1>3. TypeOK'
  BY <1>1 DEF IInv, TypeOK, queueVars, managerVars
<1>4. HasModel(t)'
  BY <1>1 DEF IInv, Sound, HasModel, managerVars
<1> QED
  BY <1>1, <1>2, <1>3, <1>4, CriticalStep DEF Critical, UsingModel

LEMMA UnlockKeepsIInv ==
  ASSUME IInv, NEW t \in Threads, Unlock(t) PROVE IInv'
<1> USE DEF IInv, Unlock, Goto, At
<1>1. TypeOK'
  BY DEF TypeOK, queueVars, managerVars, Stages
<1>2. /\ pc[t] = "unlocking" /\ pc'[t] \in {"removing", "idle", "leaving"} /\ req' = req
      /\ pc'[t] = "removing" \/ req[t].kind # "delete"
      /\ pc'[t] = "leaving" => req[t].kind \notin {"delete", "empty"}
      /\ wire' = wire /\ line' = line /\ granted' = granted
  BY DEF TypeOK, queueVars
<1>3. Sound(t) /\ req[t].kind \in AllKinds /\ lock = t
  BY <1>2, RequestIsTyped DEF Sound, HoldsLock, Critical
<1>4. KindFits(t)' /\ HoldsLock(t)' /\ HasModel(t)' /\ HasAnswered(t)'
  BY <1>2, <1>3 DEF Sound, KindFits, HoldsLock, HasModel, HasAnswered, Critical, UsingModel,
     InLineStages, GpuStages, GpuKinds, AllKinds
<1>5. HasPermit(t)'
  BY <1>2, <1>3 DEF Sound, KindFits, HasPermit, Owner, Critical, UsingModel, GpuKinds, AllKinds,
     Queue!Holder
<1>6. \A u \in Threads \ {t} : pc'[u] = pc[u] /\ req'[u] = req[u] /\ wire'[u] = wire[u]
  BY DEF TypeOK
<1> QED
  BY <1>1, <1>3, <1>4, <1>5, <1>6, QuietStep DEF Sound

LEMMA DiskKeepsIInv ==
  ASSUME IInv, NEW t \in Threads, RemoveFiles(t) \/ Pull(t) PROVE IInv'
<1>1. /\ pc' = [pc EXCEPT ![t] = "idle"] /\ Answer(t)
      /\ UNCHANGED <<queueVars, managerVars, lock, alive, req, arrivals>>
      /\ disk' \in {disk, disk \ {req[t].model}, disk \cup {req[t].model}}
  BY DEF RemoveFiles, Pull, Goto
<1>2. TypeOK'
  BY <1>1, AnswerIsHeard, RequestIsTyped DEF IInv, TypeOK, queueVars, managerVars, Stages
<1>3. pc'[t] = "idle" /\ \A u \in Threads \ {t} : pc'[u] = pc[u]
  BY <1>1 DEF IInv, TypeOK
<1>4. Sound(t)'
  BY <1>1, <1>3, AnswerIsHeard DEF Sound, KindFits, HoldsLock, HasModel, HasPermit, HasAnswered,
     Owner, Critical, UsingModel, InLineStages, GpuStages
<1> QED
  BY <1>1, <1>2, <1>3, <1>4, AnswerIsHeard, QuietStep DEF managerVars

--------------------------------------------------------------------------------
(* The sweeper, the clock, and the end of the process.                     *)

(* The sweeper gets the mutex only when no handler has it.                 *)
LEMMA AsideKeepsIInv ==
  ASSUME IInv, Sweep \/ WindowElapses \/ UNCHANGED vars \/ \E t \in Threads : GiveUp(t)
  PROVE  IInv'
<1>1. /\ UNCHANGED <<queueVars, lock, disk, pc, req, wire, arrivals>>
      /\ UNCHANGED <<current, poisoned>> \/ lock = NoOne
  BY DEF Sweep, WindowElapses, GiveUp, vars, queueVars, managerVars
<1>2. TypeOK'
  <2>1. current' \in Models \cup {NoModel} /\ poisoned' \in BOOLEAN /\ alive' \in BOOLEAN
    BY DEF Sweep, WindowElapses, GiveUp, vars, managerVars, IInv, TypeOK
  <2>2. expiry' \in Windows
    BY DEF Sweep, WindowElapses, GiveUp, vars, managerVars, IInv, TypeOK, Windows
  <2> QED
    BY <1>1, <2>1, <2>2 DEF IInv, TypeOK, queueVars
<1>3. ASSUME NEW t \in Threads PROVE Sound(t)'
  <2>1. Sound(t)
    BY DEF IInv
  <2>2. KindFits(t)' /\ HasAnswered(t)' /\ HasPermit(t)' /\ HoldsLock(t)'
    BY <1>1, <2>1 DEF Sound, KindFits, HasAnswered, HasPermit, Owner, HoldsLock, queueVars,
       Queue!Holder
  <2>3. HasModel(t)'
    <3>1. lock = NoOne => pc[t] \notin UsingModel
      BY <2>1, NoOneAssumption DEF Sound, HoldsLock, Critical
    <3> QED
      BY <1>1, <2>1, <3>1 DEF Sound, HasModel
  <2> QED
    BY <2>2, <2>3 DEF Sound
<1> QED
  BY <1>2, <1>3 DEF IInv

--------------------------------------------------------------------------------
(* The theorems.                                                           *)

LEMMA NextIInv == IInv /\ [Next]_vars => IInv'
<1> SUFFICES ASSUME IInv, [Next]_vars PROVE IInv'
  OBVIOUS
<1>1. ASSUME NEW t \in Threads, NEW r \in Requests, Arrive(t, r) PROVE IInv'
  BY <1>1, ArriveKeepsIInv
<1>2. ASSUME NEW t \in Threads, Progress(t) PROVE IInv'
  BY <1>2, AdmissionKeepsIInv, TakePlaceKeepsIInv, GetPermitKeepsIInv, TakeManagerKeepsIInv,
     EnsureKeepsIInv, FailureKeepsIInv, EvictNamedKeepsIInv, SuccessKeepsIInv, WorkKeepsIInv,
     UnlockKeepsIInv, DropPermitKeepsIInv, DiskKeepsIInv, AsideKeepsIInv DEF Progress
<1>3. ASSUME NEW t \in Threads, Emit(t) PROVE IInv'
  BY <1>3, WorkKeepsIInv
<1>4. CASE Sweep \/ WindowElapses \/ Rest \/ UNCHANGED vars
  BY <1>4, AsideKeepsIInv DEF Rest
<1> QED
  BY <1>1, <1>2, <1>3, <1>4 DEF Next

LEMMA AlwaysIInv == Spec => []IInv
BY InitIInv, NextIInv, PTL DEF Spec

(* For any number of connections, models and requests: from ensure to the  *)
(* response the resident model is the one that was asked for, and the      *)
(* thread that asked has the manager's mutex.                              *)
THEOREM PinnedThroughout == Spec => []ModelPinned
<1>1. IInv => ModelPinned
  BY DEF IInv, Sound, HoldsLock, HasModel, ModelPinned, Critical
<1> QED
  BY <1>1, AlwaysIInv, PTL

(* No forward pass starts or runs on a context that a fault has killed.    *)
THEOREM SoundContextThroughout == Spec => []ForwardOnSoundContext
<1>1. IInv => ForwardOnSoundContext
  BY DEF IInv, Sound, HasModel, ForwardOnSoundContext
<1> QED
  BY <1>1, AlwaysIInv, PTL

(* The GPU works only for the head of the admission line.                  *)
THEOREM PermitThroughout == Spec => []GpuWorkUnderPermit
<1>1. IInv => GpuWorkUnderPermit
  BY DEF IInv, Sound, KindFits, HasPermit, Owner, GpuWorkUnderPermit, Critical, UsingModel, GpuStages
<1> QED
  BY <1>1, AlwaysIInv, PTL

(* Every way out of a handler, errors included, has answered.              *)
THEOREM EveryoneIsAnswered == Spec => []NoOneLeftHanging
<1>1. IInv => NoOneLeftHanging
  BY DEF IInv, Sound, HasAnswered, NoOneLeftHanging
<1> QED
  BY <1>1, AlwaysIInv, PTL
================================================================================
