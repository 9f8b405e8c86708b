---------------------------- MODULE ResidencyProofs ----------------------------
(***************************************************************************)
(* Proofs about Residency for every set of models, every plan of a build   *)
(* and every device, and about the caches that gemma4 layers share.        *)
(***************************************************************************)
EXTENDS Residency, TLAPS, WellFoundedInduction

(* The buffers that are there before step k of a part.                     *)
Done(m, p, k, do) == {Plan[m][p][i].buf : i \in {j \in 1 .. k - 1 : Plan[m][p][j].do = do}}
Built(m, p, k) == {<<p, b>> : b \in Done(m, p, k, "alloc") \ Done(m, p, k, "free")}
Earlier(m, p) == UNION {Kept(m, q) : q \in (1 .. p - 1) \ lost}

(* Between loads the engine holds the resident model; during one, what the *)
(* finished parts left and what the current one has built so far.  No step *)
(* is captured while a load runs.                                          *)
IdleHeld == HeldIsTheModel
JobIsRecord ==
  job = [model |-> job.model, part |-> job.part, at |-> job.at, mark |-> job.mark]
JobInRange ==
  job # NoJob =>
    /\ job.model \in Models /\ job.part \in 1 .. 3
    /\ job.at \in 1 .. Len(Plan[job.model][job.part]) + 1
    /\ resident = Nobody /\ graph = 0
LostInRange ==
  job # NoJob =>
    /\ lost \subseteq 1 .. job.part
    /\ job.part \in lost => job.at = Len(Plan[job.model][job.part]) + 1
LoadHeld ==
  job # NoJob =>
    DOMAIN held = Earlier(job.model, job.part)
                    \cup (IF job.part \in lost THEN {}
                          ELSE Built(job.model, job.part, job.at))
IInv == IdleHeld /\ JobIsRecord /\ JobInRange /\ LostInRange /\ LoadHeld /\ GraphPointsToScratch
--------------------------------------------------------------------------------
(* What a step adds to the buffers of its part.                            *)

LEMMA DoneAdds ==
  ASSUME NEW m \in Models, NEW p \in 1 .. 3, NEW k \in 1 .. Len(Plan[m][p])
  PROVE  LET do == Plan[m][p][k].do IN
         Done(m, p, k + 1, do) = Done(m, p, k, do) \cup {Plan[m][p][k].buf}
<1>1. Len(Plan[m][p]) \in Nat
  BY PlanAssumption
<1>2. 1 .. (k + 1) - 1 = (1 .. k - 1) \cup {k}
  BY <1>1
<1> QED
  BY <1>2 DEF Done

LEMMA DoneStays ==
  ASSUME NEW m \in Models, NEW p \in 1 .. 3, NEW k \in 1 .. Len(Plan[m][p]), NEW do,
         Plan[m][p][k].do # do
  PROVE  Done(m, p, k + 1, do) = Done(m, p, k, do)
<1>1. Len(Plan[m][p]) \in Nat
  BY PlanAssumption
<1>2. 1 .. (k + 1) - 1 = (1 .. k - 1) \cup {k}
  BY <1>1
<1> QED
  BY <1>2 DEF Done

LEMMA NothingDone ==
  ASSUME NEW m, NEW p, NEW do PROVE Done(m, p, 1, do) = {}
BY DEF Done

LEMMA BuiltFirst ==
  ASSUME NEW m, NEW p PROVE Built(m, p, 1) = {}
BY NothingDone DEF Built

LEMMA BuiltAll ==
  ASSUME NEW m \in Models, NEW p \in 1 .. 3
  PROVE  Built(m, p, Len(Plan[m][p]) + 1) = Kept(m, p)
<1> DEFINE n == Len(Plan[m][p])
<1>1. n \in Nat /\ DOMAIN Plan[m][p] = 1 .. n
  BY PlanAssumption
<1>2. 1 .. (n + 1) - 1 = DOMAIN Plan[m][p]
  BY <1>1
<1> QED
  BY <1>2 DEF Built, Done, Kept

LEMMA OnceEach ==
  ASSUME NEW m \in Models, NEW p \in 1 .. 3,
         NEW i \in 1 .. Len(Plan[m][p]), NEW j \in 1 .. Len(Plan[m][p]),
         Plan[m][p][i].do = Plan[m][p][j].do, Plan[m][p][i].do \in {"alloc", "free"},
         Plan[m][p][i].buf = Plan[m][p][j].buf
  PROVE  i = j
BY PlanAssumption

LEMMA FreedWasThere ==
  ASSUME NEW m \in Models, NEW p \in 1 .. 3, NEW i \in 1 .. Len(Plan[m][p]),
         Plan[m][p][i].do = "free"
  PROVE  \E j \in 1 .. i - 1 : /\ Plan[m][p][j].do = "alloc"
                               /\ Plan[m][p][j].buf = Plan[m][p][i].buf
BY PlanAssumption

LEMMA BuiltAlloc ==
  ASSUME NEW m \in Models, NEW p \in 1 .. 3, NEW k \in 1 .. Len(Plan[m][p]),
         Plan[m][p][k].do = "alloc"
  PROVE  Built(m, p, k + 1) = Built(m, p, k) \cup {<<p, Plan[m][p][k].buf>>}
<1>1. Len(Plan[m][p]) \in Nat
  BY PlanAssumption
<1>2. Plan[m][p][k].buf \notin Done(m, p, k, "free")
  <2> SUFFICES ASSUME NEW i \in 1 .. k - 1, Plan[m][p][i].do = "free",
                      Plan[m][p][i].buf = Plan[m][p][k].buf
               PROVE  FALSE
    BY DEF Done
  <2>1. i \in 1 .. Len(Plan[m][p]) /\ i < k
    BY <1>1
  <2>2. PICK j \in 1 .. i - 1 : /\ Plan[m][p][j].do = "alloc"
                               /\ Plan[m][p][j].buf = Plan[m][p][i].buf
    BY <2>1, FreedWasThere
  <2>3. j \in 1 .. Len(Plan[m][p]) /\ j # k
    BY <1>1, <2>1
  <2>4. j = k
    BY <1>1, <2>2, <2>3, OnceEach
  <2> QED
    BY <2>3, <2>4
<1>3. Done(m, p, k + 1, "alloc") = Done(m, p, k, "alloc") \cup {Plan[m][p][k].buf}
  <2>1. LET do == Plan[m][p][k].do IN
        Done(m, p, k + 1, do) = Done(m, p, k, do) \cup {Plan[m][p][k].buf}
    BY DoneAdds, ZenonT(40)
  <2> QED
    BY <2>1
<1>4. Done(m, p, k + 1, "free") = Done(m, p, k, "free")
  BY DoneStays
<1> QED
  BY <1>2, <1>3, <1>4 DEF Built

LEMMA BuiltFree ==
  ASSUME NEW m \in Models, NEW p \in 1 .. 3, NEW k \in 1 .. Len(Plan[m][p]),
         Plan[m][p][k].do = "free"
  PROVE  Built(m, p, k + 1) = Built(m, p, k) \ {<<p, Plan[m][p][k].buf>>}
<1>1. Done(m, p, k + 1, "alloc") = Done(m, p, k, "alloc")
  BY DoneStays
<1>2. Done(m, p, k + 1, "free") = Done(m, p, k, "free") \cup {Plan[m][p][k].buf}
  <2>1. LET do == Plan[m][p][k].do IN
        Done(m, p, k + 1, do) = Done(m, p, k, do) \cup {Plan[m][p][k].buf}
    BY DoneAdds, ZenonT(40)
  <2> QED
    BY <2>1
<1> QED
  BY <1>1, <1>2 DEF Built

LEMMA BuiltElse ==
  ASSUME NEW m \in Models, NEW p \in 1 .. 3, NEW k \in 1 .. Len(Plan[m][p]),
         Plan[m][p][k].do \notin {"alloc", "free"}
  PROVE  Built(m, p, k + 1) = Built(m, p, k)
<1>1. Done(m, p, k + 1, "alloc") = Done(m, p, k, "alloc")
  BY DoneStays
<1>2. Done(m, p, k + 1, "free") = Done(m, p, k, "free")
  BY DoneStays
<1> QED
  BY <1>1, <1>2 DEF Built
--------------------------------------------------------------------------------
(* What each step keeps of the invariant.                                  *)

LEMMA InitIInv == Init => IInv
BY DEF Init, IInv, NoJob, IdleHeld, HeldIsTheModel, JobIsRecord, JobInRange, LostInRange, LoadHeld,
   GraphPointsToScratch, Empty

(* After Abandon nothing is held, loaded or captured.                      *)
LEMMA AbandonKeepsIInv ==
  ASSUME NEW why, Abandon(why) PROVE IInv'
<1>1. job' = NoJob /\ resident' = Nobody /\ graph' = 0 /\ held' = Empty
  BY DEF Abandon, Evict, DropModel
<1> QED
  BY <1>1 DEF IInv, IdleHeld, HeldIsTheModel, JobIsRecord, JobInRange, LostInRange, LoadHeld,
     GraphPointsToScratch, Empty, NoJob

(* A load begins with an empty device.                                     *)
LEMMA EnsureKeepsIInv ==
  ASSUME IInv, NEW m \in Models, Ensure(m) PROVE IInv'
<1>1. held' = Empty /\ lost' = {} /\ resident' = Nobody /\ graph' = 0
  BY DEF Ensure, Evict, DropModel
<1>2. job' \in {NoJob, [NoJob EXCEPT !.model = m]}
  BY DEF Ensure
<1>3. CASE job' = NoJob
  BY <1>1, <1>3 DEF IInv, IdleHeld, HeldIsTheModel, JobIsRecord, JobInRange, LostInRange, LoadHeld,
     GraphPointsToScratch, Empty, NoJob
<1>4. CASE job' = [NoJob EXCEPT !.model = m]
  <2>1. job'.model = m /\ job'.part = 1 /\ job'.at = 1 /\ job' # NoJob /\ JobIsRecord'
    BY <1>4, ResidencyAssumption DEF NoJob, JobIsRecord
  <2>2. Len(Plan[m][1]) \in Nat
    BY PlanAssumption
  <2>3. Built(m, 1, 1) = {}
    BY BuiltFirst
  <2>4. Earlier(m, 1)' = {}
    BY <1>1 DEF Earlier
  <2> QED
    BY <1>1, <2>1, <2>2, <2>3, <2>4 DEF IInv, IdleHeld, HeldIsTheModel, JobInRange,
       LostInRange, LoadHeld, GraphPointsToScratch, Empty
<1> QED
  BY <1>2, <1>3, <1>4

(* Where a working load stands.                                            *)
LEMMA AtWork ==
  ASSUME IInv, Working
  PROVE  /\ job # NoJob /\ job.model \in Models /\ job.part \in 1 .. 3
         /\ job.at \in 1 .. Len(Plan[job.model][job.part])
         /\ Len(Plan[job.model][job.part]) \in Nat
         /\ Now = Plan[job.model][job.part][job.at]
         /\ resident = Nobody /\ graph = 0
         /\ lost \subseteq 1 .. job.part /\ job.part \notin lost
         /\ DOMAIN held = Earlier(job.model, job.part) \cup Built(job.model, job.part, job.at)
<1>1. job # NoJob
  BY DEF Working, Loading
<1>2. job.model \in Models /\ job.part \in 1 .. 3
  BY <1>1 DEF IInv, JobInRange
<1>3. Len(Plan[job.model][job.part]) \in Nat
  BY <1>2, PlanAssumption
<1> QED
  BY <1>1, <1>2, <1>3 DEF IInv, JobInRange, LostInRange, LoadHeld, Working, Loading, Steps, Now

LEMMA NowIsBytes ==
  ASSUME IInv, Working PROVE Now.n \in Nat
<1> DEFINE m == job.model
           p == job.part
           k == job.at
<1>1. m \in Models /\ p \in 1 .. 3 /\ k \in 1 .. Len(Plan[m][p]) /\ Now = Plan[m][p][k]
  BY AtWork
<1>2. Plan[m][p][k].n \in Nat
  <2> HIDE DEF m, p, k
  <2> QED
    BY <1>1, PlanAssumption
<1> QED
  BY <1>1, <1>2

LEMMA AdvanceKeepsIInv ==
  ASSUME IInv, Working, Advance, UNCHANGED <<resident, lost, graph>>,
         DOMAIN held' = Earlier(job.model, job.part)
                          \cup Built(job.model, job.part, job.at + 1)
  PROVE  IInv'
<1>1. job' = [model |-> job.model, part |-> job.part, at |-> job.at + 1, mark |-> job.mark]
  BY DEF Advance, IInv, JobIsRecord
<1>2. job' # NoJob
  BY <1>1, AtWork, ResidencyAssumption DEF NoJob
<1>3. JobIsRecord' /\ IdleHeld'
  BY <1>1, <1>2 DEF JobIsRecord, IdleHeld, HeldIsTheModel
<1>4. JobInRange' /\ LostInRange' /\ GraphPointsToScratch'
  BY <1>1, AtWork DEF JobInRange, LostInRange, GraphPointsToScratch
<1>5. Earlier(job.model, job.part)' = Earlier(job.model, job.part)
  BY <1>1 DEF Earlier
<1>6. LoadHeld'
  BY <1>1, <1>5, AtWork DEF LoadHeld
<1> QED
  BY <1>3, <1>4, <1>6 DEF IInv

(* A tower that is given up takes back what its part has built.            *)
LEMMA SkipTowerKeepsIInv ==
  ASSUME IInv, Working, SkipTower PROVE IInv'
<1> DEFINE m == job.model
           p == job.part
           n == Len(Plan[m][p])
<1>1. job' = [model |-> m, part |-> p, at |-> n + 1, mark |-> job.mark]
  BY DEF SkipTower, IInv, JobIsRecord, Steps
<1>2. lost' = lost \cup {p} /\ resident' = resident /\ graph' = graph
  BY DEF SkipTower
<1>3. job' # NoJob
  BY <1>1, AtWork, ResidencyAssumption DEF NoJob
<1>4. JobIsRecord' /\ IdleHeld'
  BY <1>1, <1>3 DEF JobIsRecord, IdleHeld, HeldIsTheModel
<1>5. JobInRange' /\ LostInRange' /\ GraphPointsToScratch'
  BY <1>1, <1>2, AtWork DEF JobInRange, LostInRange, GraphPointsToScratch
<1>6. Earlier(m, p)' = Earlier(m, p)
  BY <1>1, <1>2 DEF Earlier
<1>7. DOMAIN held' = DOMAIN held \ OfPart(p)
  BY DEF SkipTower, Without
<1>8. DOMAIN held = Earlier(m, p) \cup Built(m, p, job.at)
  BY AtWork
<1>9. \A b \in Built(m, p, job.at) : b[1] = p
  BY DEF Built
<1>10. \A b \in Earlier(m, p) : b[1] # p
  <2> SUFFICES ASSUME NEW q \in (1 .. p - 1) \ lost, NEW b \in Kept(m, q) PROVE b[1] # p
    BY DEF Earlier
  <2>1. b[1] = q
    BY DEF Kept
  <2> QED
    BY <2>1, AtWork
<1>11. DOMAIN held' = Earlier(m, p)
  BY <1>7, <1>8, <1>9, <1>10 DEF OfPart
<1>12. LoadHeld'
  BY <1>1, <1>2, <1>6, <1>11 DEF LoadHeld
<1> QED
  BY <1>4, <1>5, <1>12 DEF IInv

LEMMA GiveUpKeepsIInv ==
  ASSUME IInv, Working, NEW why, GiveUp(why) PROVE IInv'
BY AbandonKeepsIInv, SkipTowerKeepsIInv DEF GiveUp

LEMMA FindTensorKeepsIInv ==
  ASSUME IInv, FindTensor PROVE IInv'
<1>1. Working /\ Now.do = "find"
  BY DEF FindTensor
<1>2. CASE Absent
  BY <1>1, <1>2, GiveUpKeepsIInv DEF FindTensor
<1>3. CASE ~Absent
  <2>1. Advance /\ UNCHANGED <<held, resident, lost, graph>>
    BY <1>3 DEF FindTensor
  <2>2. /\ job.model \in Models /\ job.part \in 1 .. 3
        /\ job.at \in 1 .. Len(Plan[job.model][job.part])
    BY <1>1, AtWork
  <2>3. Plan[job.model][job.part][job.at].do \notin {"alloc", "free"}
    BY <1>1, AtWork
  <2>4. Built(job.model, job.part, job.at + 1) = Built(job.model, job.part, job.at)
    BY <2>2, <2>3, BuiltElse
  <2> QED
    BY <1>1, <2>1, <2>4, AtWork, AdvanceKeepsIInv
<1> QED
  BY <1>2, <1>3

LEMMA AllocBufferKeepsIInv ==
  ASSUME IInv, AllocBuffer PROVE IInv'
<1>1. Working /\ Now.do = "alloc"
  BY DEF AllocBuffer
<1>2. CASE ~(Now.n <= Available)
  BY <1>1, <1>2, GiveUpKeepsIInv DEF AllocBuffer
<1>3. CASE Now.n <= Available
  <2>1. Hold(<<job.part, Now.buf>>, Now.n) /\ Advance /\ UNCHANGED <<resident, lost, graph>>
    BY <1>3 DEF AllocBuffer
  <2>2. Built(job.model, job.part, job.at + 1)
          = Built(job.model, job.part, job.at) \cup {<<job.part, Now.buf>>}
    <3>1. Plan[job.model][job.part][job.at].do = "alloc"
      BY <1>1, AtWork
    <3>2. /\ job.model \in Models /\ job.part \in 1 .. 3
          /\ job.at \in 1 .. Len(Plan[job.model][job.part])
      BY <1>1, AtWork
    <3>3. Built(job.model, job.part, job.at + 1)
             = Built(job.model, job.part, job.at)
                 \cup {<<job.part, Plan[job.model][job.part][job.at].buf>>}
      BY <3>1, <3>2, BuiltAlloc, ZenonT(40)
    <3> QED
      BY <1>1, <3>3, AtWork
  <2>3. DOMAIN held' = DOMAIN held \cup {<<job.part, Now.buf>>}
    BY <2>1 DEF Hold
  <2> QED
    BY <1>1, <2>1, <2>2, <2>3, AtWork, AdvanceKeepsIInv
<1> QED
  BY <1>2, <1>3

LEMMA DropTemporaryKeepsIInv ==
  ASSUME IInv, DropTemporary PROVE IInv'
<1>1. Working /\ Now.do = "free"
  BY DEF DropTemporary
<1>2. Advance /\ UNCHANGED <<resident, lost, graph>>
  BY DEF DropTemporary
<1>3. DOMAIN held' = DOMAIN held \ {<<job.part, Now.buf>>}
  BY DEF DropTemporary, Without
<1>4. Built(job.model, job.part, job.at + 1)
        = Built(job.model, job.part, job.at) \ {<<job.part, Now.buf>>}
  <2>1. Plan[job.model][job.part][job.at].do = "free"
    BY <1>1, AtWork
  <2>2. /\ job.model \in Models /\ job.part \in 1 .. 3
        /\ job.at \in 1 .. Len(Plan[job.model][job.part])
    BY <1>1, AtWork
  <2>3. Built(job.model, job.part, job.at + 1)
           = Built(job.model, job.part, job.at)
               \ {<<job.part, Plan[job.model][job.part][job.at].buf>>}
    BY <2>1, <2>2, BuiltFree
  <2> QED
    BY <1>1, <2>3, AtWork
<1>5. <<job.part, Now.buf>> \notin Earlier(job.model, job.part)
  <2> SUFFICES ASSUME NEW q \in (1 .. job.part - 1) \ lost,
                      <<job.part, Now.buf>> \in Kept(job.model, q)
               PROVE  FALSE
    BY DEF Earlier
  <2>1. job.part = q
    BY DEF Kept
  <2> QED
    BY <2>1, AtWork
<1> QED
  BY <1>1, <1>2, <1>3, <1>4, <1>5, AtWork, AdvanceKeepsIInv

LEMMA EnsureQ8KeepsIInv ==
  ASSUME IInv, EnsureQ8 PROVE IInv'
<1>1. Working /\ Now.do = "q8"
  BY DEF EnsureQ8
<1>2. Built(job.model, job.part, job.at + 1) = Built(job.model, job.part, job.at)
  <2>1. /\ job.model \in Models /\ job.part \in 1 .. 3
        /\ job.at \in 1 .. Len(Plan[job.model][job.part])
    BY <1>1, AtWork
  <2>2. Plan[job.model][job.part][job.at].do \notin {"alloc", "free"}
    BY <1>1, AtWork
  <2> QED
    BY <2>1, <2>2, BuiltElse
<1>3. CASE Advance /\ UNCHANGED <<held, resident, lost, graph>>
  BY <1>1, <1>2, <1>3, AtWork, AdvanceKeepsIInv
<1>4. CASE GiveUp("oom")
  BY <1>1, <1>4, GiveUpKeepsIInv
<1> QED
  BY <1>3, <1>4 DEF EnsureQ8

(* A part that has run through, or was given up, leaves what it keeps.     *)
LEMMA PartDone ==
  ASSUME IInv, Loading, ~Working
  PROVE  /\ job # NoJob /\ job.model \in Models /\ job.part \in 1 .. 3
         /\ resident = Nobody /\ graph = 0 /\ lost \subseteq 1 .. job.part
         /\ DOMAIN held = UNION {Kept(job.model, q) : q \in (1 .. job.part) \ lost}
<1> DEFINE m == job.model
           p == job.part
           n == Len(Plan[m][p])
<1>1. job # NoJob /\ m \in Models /\ p \in 1 .. 3 /\ job.at \in 1 .. n + 1
      /\ resident = Nobody /\ graph = 0 /\ lost \subseteq 1 .. p
  BY DEF Loading, IInv, JobInRange, LostInRange
<1>2. n \in Nat
  BY <1>1, PlanAssumption
<1>3. job.at = n + 1
  BY <1>1, <1>2 DEF Working, Steps
<1>4. DOMAIN held = Earlier(m, p) \cup (IF p \in lost THEN {} ELSE Kept(m, p))
  BY <1>1, <1>3, BuiltAll DEF IInv, LoadHeld
<1>5. CASE p \in lost
  <2>1. (1 .. p) \ lost = (1 .. p - 1) \ lost
    BY <1>1, <1>5
  <2> QED
    BY <1>1, <1>4, <1>5, <2>1 DEF Earlier
<1>6. CASE p \notin lost
  <2>1. (1 .. p) \ lost = ((1 .. p - 1) \ lost) \cup {p}
    BY <1>1, <1>6
  <2> QED
    BY <1>1, <1>4, <1>6, <2>1 DEF Earlier
<1> QED
  BY <1>5, <1>6

LEMMA NextPartKeepsIInv ==
  ASSUME IInv, NextPart PROVE IInv'
<1> DEFINE m == job.model
           p == job.part
<1>1. Loading /\ ~Working /\ p < 3 /\ UNCHANGED <<held, resident, lost, graph>>
  BY DEF NextPart
<1>2. job' = [model |-> m, part |-> p + 1, at |-> 1, mark |-> tracked]
  BY DEF NextPart, IInv, JobIsRecord
<1>3. m \in Models /\ p \in 1 .. 2 /\ resident = Nobody /\ graph = 0 /\ lost \subseteq 1 .. p
  BY <1>1, PartDone
<1>4. Len(Plan[m][p + 1]) \in Nat
  BY <1>3, PlanAssumption
<1>5. job' # NoJob
  BY <1>2, <1>3, ResidencyAssumption DEF NoJob
<1>6. JobIsRecord' /\ IdleHeld'
  BY <1>2, <1>5 DEF JobIsRecord, IdleHeld, HeldIsTheModel
<1>7. JobInRange' /\ LostInRange' /\ GraphPointsToScratch'
  BY <1>1, <1>2, <1>3, <1>4 DEF JobInRange, LostInRange, GraphPointsToScratch
<1>8. Earlier(m, p + 1) = UNION {Kept(m, q) : q \in (1 .. p) \ lost}
  BY <1>3 DEF Earlier
<1>9. DOMAIN held = Earlier(m, p + 1)
  BY <1>1, <1>8, PartDone
<1>10. Earlier(job.model, job.part)' = Earlier(m, p + 1)
  BY <1>1, <1>2 DEF Earlier
<1>11. LoadHeld'
  BY <1>1, <1>2, <1>3, <1>9, <1>10, BuiltFirst DEF LoadHeld
<1> QED
  BY <1>6, <1>7, <1>11 DEF IInv

LEMMA FinishKeepsIInv ==
  ASSUME IInv, Finish PROVE IInv'
<1>1. Loading /\ ~Working /\ job.part = 3
  BY DEF Finish
<1>2. CASE ~Card1.words
  BY <1>2, AbandonKeepsIInv DEF Finish
<1>3. CASE Card1.words
  <2>1. resident' = job.model /\ job' = NoJob /\ UNCHANGED <<held, lost, graph>>
    BY <1>3 DEF Finish
  <2>2. job.model # Nobody /\ graph = 0
    BY <1>1, PartDone, ResidencyAssumption
  <2>3. 1 .. 3 = {1, 2, 3}
    OBVIOUS
  <2>4. HeldIsTheModel'
    BY <1>1, <2>1, <2>2, <2>3, PartDone DEF HeldIsTheModel
  <2> QED
    BY <2>1, <2>2, <2>4 DEF IInv, IdleHeld, JobIsRecord, JobInRange, LostInRange, LoadHeld,
       GraphPointsToScratch, NoJob
<1> QED
  BY <1>2, <1>3

(* No step is captured while a load runs.                                  *)
LEMMA ArmKeepsIInv ==
  ASSUME IInv, Arm PROVE IInv'
<1>1. job = NoJob
  BY DEF IInv, JobInRange, Arm
<1> QED
  BY <1>1 DEF Arm, IInv, IdleHeld, HeldIsTheModel, JobIsRecord, JobInRange, LostInRange,
     LoadHeld, GraphPointsToScratch

LEMMA IdleKeepsIInv ==
  ASSUME IInv, UNCHANGED <<held, q8, resident, job, lost, graph>> PROVE IInv'
BY DEF IInv, IdleHeld, HeldIsTheModel, JobIsRecord, JobInRange, LostInRange, LoadHeld,
   Earlier, GraphPointsToScratch
--------------------------------------------------------------------------------
LEMMA NextKeepsIInv ==
  ASSUME IInv, [Next]_vars PROVE IInv'
<1>1. CASE Rival
  BY <1>1, IdleKeepsIInv DEF Rival
<1>2. CASE UNCHANGED vars
  BY <1>2, IdleKeepsIInv DEF vars
<1>3. CASE FindTensor \/ AllocBuffer \/ DropTemporary \/ EnsureQ8
  BY <1>3, FindTensorKeepsIInv, AllocBufferKeepsIInv, DropTemporaryKeepsIInv, EnsureQ8KeepsIInv
<1>4. CASE NextPart \/ Finish \/ Arm
  BY <1>4, NextPartKeepsIInv, FinishKeepsIInv, ArmKeepsIInv
<1>5. CASE \E m \in Models : Ensure(m)
  BY <1>5, EnsureKeepsIInv
<1> QED
  BY <1>1, <1>2, <1>3, <1>4, <1>5 DEF Next

LEMMA SpecIInv == Spec => []IInv
BY InitIInv, NextKeepsIInv, PTL DEF Spec

(* Between two loads the engine holds the buffers of the resident model,   *)
(* without the towers it lost, and nothing of any load that failed, was    *)
(* refused or was evicted: whichever step of whichever build failed.       *)
THEOREM SpecHeldIsTheModel == Spec => []HeldIsTheModel
<1>1. IInv => HeldIsTheModel
  BY DEF IInv, IdleHeld
<1> QED
  BY <1>1, SpecIInv, PTL

(* Text outlives towers: a load under way ends without a model only for    *)
(* its text part, for a standard model, or for want of a tokenizer.        *)
THEOREM SpecTextOutlivesTowers == Spec => TextOutlivesTowers
<1> DEFINE Ends == Loading /\ job'.model = Nobody /\ resident' = Nobody
           Why == job.part = 1 \/ Card1.arch = "std" \/ ~Card1.words
<1>1. ASSUME IInv, [Next]_vars, Ends PROVE Why
  <2>1. job # NoJob /\ job.model \in Models /\ job.model # Nobody
    BY <1>1, ResidencyAssumption DEF Loading, IInv, JobInRange
  <2>2. ASSUME NEW why, GiveUp(why) PROVE Why
    <3>1. CASE SkipTower
      <4>1. job'.model = job.model
        BY <1>1, <3>1 DEF SkipTower, IInv, JobIsRecord
      <4> QED
        BY <1>1, <2>1, <4>1
    <3>2. CASE ~(job.part > 1 /\ Card1.arch = "gemma4")
      BY <1>1, <2>1, <3>2, PlanAssumption DEF IInv, JobInRange, Card1
    <3> QED
      BY <2>2, <3>1, <3>2 DEF GiveUp
  <2>3. ASSUME job'.model = job.model PROVE FALSE
    BY <1>1, <2>1, <2>3
  <2>4. CASE Advance
    BY <1>1, <2>3, <2>4 DEF Advance, IInv, JobIsRecord
  <2>5. CASE FindTensor \/ AllocBuffer \/ DropTemporary \/ EnsureQ8
    BY <2>2, <2>4, <2>5 DEF FindTensor, AllocBuffer, DropTemporary, EnsureQ8
  <2>6. CASE NextPart
    BY <1>1, <2>3, <2>6 DEF NextPart, IInv, JobIsRecord
  <2>7. CASE Finish
    BY <1>1, <2>1, <2>7 DEF Finish
  <2>8. CASE \E m \in Models : Ensure(m)
    BY <2>1, <2>8 DEF Ensure
  <2>9. CASE Rival \/ Arm \/ UNCHANGED vars
    BY <2>3, <2>9 DEF Rival, Arm, vars
  <2> QED
    BY <1>1, <2>5, <2>6, <2>7, <2>8, <2>9 DEF Next
<1>2. IInv /\ [Next]_vars => [Ends => Why]_vars
  BY <1>1
<1> QED
  BY <1>2, SpecIInv, PTL DEF Spec, TextOutlivesTowers

(* A captured step never points into a q8 scratch that was replaced: only  *)
(* a load replaces it, and none runs beside a captured step.               *)
THEOREM SpecGraphPointsToScratch == Spec => []GraphPointsToScratch
<1>1. IInv => GraphPointsToScratch
  BY DEF IInv
<1> QED
  BY <1>1, SpecIInv, PTL
--------------------------------------------------------------------------------
(* The sources of shared layers, for every list of layer types.           *)

(* A set of layers that is not empty has a latest one.                     *)
LEMMA LatestIsLatest ==
  ASSUME NEW n \in Nat, NEW S \in SUBSET (1 .. n), S # {}
  PROVE  Latest(S) \in S /\ \A j \in S : j <= Latest(S)
<1> DEFINE R == OpToRel(<, Nat)
           T == {m \in Nat : \E i \in S : m = n - i}
<1>1. IsWellFoundedOn(R, Nat)
  BY NatLessThanWellFounded
<1>2. T \subseteq Nat
  OBVIOUS
<1>3. T # {}
  <2>1. PICK i \in S : TRUE
    OBVIOUS
  <2>2. i \in 1 .. n
    BY <2>1
  <2>3. n - i \in Nat
    BY <2>2
  <2> QED
    BY <2>1, <2>3
<1>4. PICK x \in T : \A y \in T : ~ (<<y, x>> \in R)
  <2> HIDE DEF R, T
  <2> QED
    BY <1>1, <1>2, <1>3, WFMin
<1>5. PICK i \in S : x = n - i
  OBVIOUS
<1>6. ASSUME NEW j \in S PROVE j <= i
  <2>1. i \in 1 .. n /\ j \in 1 .. n
    OBVIOUS
  <2>2. n - j \in T
    BY <2>1
  <2>3. ~ (<<n - j, x>> \in R)
    BY <1>4, <2>2
  <2>4. ~ (n - j < x)
    BY <2>1, <2>2, <2>3 DEF OpToRel
  <2> QED
    BY <1>5, <2>1, <2>4
<1> QED
  BY <1>6 DEF Latest

(* kv_share_sources: a shared layer of a configuration that parse accepts  *)
(* reads an earlier layer of its own type that computes a cache, and no    *)
(* later layer of that type computes one.                                  *)
THEOREM SharedLayerReadsTheLatest ==
  ASSUME NEW types \in Seq(Attention), NEW first \in Nat \ {0}, Shareable(types, first),
         first <= Len(types) + 1,
         NEW l \in first .. Len(types)
  PROVE  LET src == KvSource(types, first, l) IN
         /\ src \in Computing(types, first, types[l])
         /\ src < l /\ types[src] = types[l]
         /\ \A i \in src + 1 .. first - 1 : types[i] # types[l]
<1> DEFINE C == Computing(types, first, types[l])
<1>1. C \in SUBSET (1 .. first - 1) /\ C # {}
  BY DEF Computing, Shareable
<1>2. KvSource(types, first, l) = Latest(C)
  BY DEF KvSource
<1>3. Latest(C) \in C /\ \A j \in C : j <= Latest(C)
  <2> HIDE DEF C
  <2> QED
    BY <1>1, LatestIsLatest, first - 1 \in Nat
<1> DEFINE src == KvSource(types, first, l)
<1>4. src \in C /\ \A j \in C : j <= src
  BY <1>2, <1>3
<1>5. src \in 1 .. first - 1 /\ types[src] = types[l]
  BY <1>4 DEF Computing
<1>6. ASSUME NEW i \in src + 1 .. first - 1, types[i] = types[l] PROVE FALSE
  <2>1. i \in 1 .. first - 1
    BY <1>5
  <2>2. i \in C
    BY <1>6, <2>1 DEF Computing
  <2> QED
    BY <1>4, <1>5, <2>1, <2>2
<1> QED
  BY <1>4, <1>5, <1>6
--------------------------------------------------------------------------------
(* What the parts of a build add up to.                                    *)

(* Counting: a set with 0 and with every successor of its members has all. *)
LEMMA CountUp ==
  ASSUME NEW S \in SUBSET Nat, 0 \in S, \A n \in S : n + 1 \in S
  PROVE  \A n \in Nat : n \in S
<1> SUFFICES ASSUME NEW n \in Nat, n \notin S PROVE FALSE
  OBVIOUS
<1> DEFINE R == OpToRel(<, Nat)
           T == Nat \ S
<1>1. IsWellFoundedOn(R, Nat)
  BY NatLessThanWellFounded
<1>2. T \subseteq Nat /\ T # {}
  OBVIOUS
<1>3. PICK low \in T : \A y \in T : ~ (<<y, low>> \in R)
  <2> HIDE DEF R, T
  <2> QED
    BY <1>1, <1>2, WFMin
<1>4. low - 1 \in Nat /\ low - 1 < low
  OBVIOUS
<1>5. low - 1 \notin T
  BY <1>3, <1>4 DEF OpToRel
<1>6. low - 1 \in S
  BY <1>4, <1>5
<1>7. low - 1 + 1 = low
  BY <1>4
<1> QED
  BY <1>6, <1>7

(* Curve adds by halves; a running sum is easier to reason with.  This is  *)
(* the right-hand side of the equation of the running sum, up to a step,   *)
(* and that of the equation of Curve's sum.                                *)
RunTo(s, last, c) ==
  [k \in 1 .. last |-> IF k = 1 THEN 0 ELSE c[k - 1] + Change(s, k - 1)]
Halves(s, sum) ==
  [span \in (1 .. Len(s) + 1) \X (1 .. Len(s) + 1) |->
     LET a == span[1] b == span[2] mid == (a + b) \div 2 IN
     CASE b <= a -> 0
       [] b = a + 1 -> Change(s, a)
       [] OTHER -> sum[<<a, mid>>] + sum[<<mid, b>>]]
Between(s, c) ==
  [span \in (1 .. Len(s) + 1) \X (1 .. Len(s) + 1) |->
     IF span[2] <= span[1] THEN 0 ELSE c[span[2]] - c[span[1]]]

LEMMA RunExists ==
  ASSUME NEW s, Len(s) \in Nat, \A k \in 1 .. Len(s) : Change(s, k) \in Int
  PROVE  \E c : c = RunTo(s, Len(s) + 1, c) /\ \A k \in 1 .. Len(s) + 1 : c[k] \in Int
<1> DEFINE Good(c, n) == c = RunTo(s, n + 1, c) /\ \A k \in 1 .. n + 1 : c[k] \in Int
           S == {n \in Nat : n <= Len(s) => \E c : Good(c, n)}
<1>1. 0 \in S
  <2> DEFINE a == [k \in 1 .. 0 + 1 |-> 0]
  <2>1. a = RunTo(s, 0 + 1, a)
    BY DEF RunTo
  <2>2. \A k \in 1 .. 0 + 1 : a[k] \in Int
    OBVIOUS
  <2> QED
    BY <2>1, <2>2
<1>2. ASSUME NEW n \in S PROVE n + 1 \in S
  <2> SUFFICES ASSUME n + 1 <= Len(s) PROVE \E c : Good(c, n + 1)
    OBVIOUS
  <2>1. PICK a : Good(a, n)
    OBVIOUS
  <2> DEFINE b == RunTo(s, n + 1 + 1, a)
  <2>2. ASSUME NEW k \in 1 .. n + 1 + 1, k # 1 PROVE b[k - 1] = a[k - 1]
    <3>1. k - 1 \in 1 .. n + 1 /\ k - 1 \in 1 .. n + 1 + 1
      BY <2>2
    <3>2. a[k - 1] = IF k - 1 = 1 THEN 0 ELSE a[k - 1 - 1] + Change(s, k - 1 - 1)
      BY <2>1, <3>1 DEF RunTo
    <3> QED
      BY <3>1, <3>2 DEF RunTo
  <2>3. b = RunTo(s, n + 1 + 1, b)
    BY <2>2 DEF RunTo
  <2>4. ASSUME NEW k \in 1 .. n + 1 + 1 PROVE b[k] \in Int
    <3>1. k # 1 => k - 1 \in 1 .. n + 1 /\ k - 1 \in 1 .. Len(s)
      OBVIOUS
    <3>2. k # 1 => a[k - 1] \in Int /\ Change(s, k - 1) \in Int
      BY <2>1, <3>1
    <3> QED
      BY <3>2 DEF RunTo
  <2> HIDE DEF b
  <2> QED
    BY <2>3, <2>4
<1>3. S \in SUBSET Nat
  OBVIOUS
<1>4. Len(s) \in S
  <2> HIDE DEF S
  <2> QED
    BY <1>1, <1>2, <1>3, CountUp
<1> QED
  BY <1>4

LEMMA RunMoves ==
  ASSUME NEW s, Len(s) \in Nat, NEW c, c = RunTo(s, Len(s) + 1, c)
  PROVE  c[1] = 0 /\ \A k \in 1 .. Len(s) : c[k + 1] = c[k] + Change(s, k)
<1>1. c[1] = 0
  BY DEF RunTo
<1>2. ASSUME NEW k \in 1 .. Len(s) PROVE c[k + 1] = c[k] + Change(s, k)
  <2>1. k + 1 \in 1 .. Len(s) + 1 /\ k + 1 # 1 /\ k + 1 - 1 = k
    OBVIOUS
  <2> QED
    BY <2>1 DEF RunTo
<1> QED
  BY <1>1, <1>2

(* The differences of the running sum solve the equation of Curve's sum.   *)
LEMMA HalvesSolved ==
  ASSUME NEW s, Len(s) \in Nat, NEW c, c = RunTo(s, Len(s) + 1, c),
         \A k \in 1 .. Len(s) + 1 : c[k] \in Int,
         \A k \in 1 .. Len(s) : Change(s, k) \in Int
  PROVE  Between(s, c) = Halves(s, Between(s, c))
<1> DEFINE D == 1 .. Len(s) + 1
           d == Between(s, c)
<1>1. ASSUME NEW a \in D, NEW b \in D
      PROVE  d[<<a, b>>] = CASE b <= a -> 0
                         [] b = a + 1 -> Change(s, a)
                         [] OTHER -> d[<<a, (a + b) \div 2>>] + d[<<(a + b) \div 2, b>>]
  <2>1. d[<<a, b>>] = IF b <= a THEN 0 ELSE c[b] - c[a]
    BY DEF Between
  <2>2. CASE b <= a
    BY <2>1, <2>2
  <2>3. CASE b = a + 1
    <3>1. a \in 1 .. Len(s) /\ ~ (b <= a)
      BY <2>3
    <3>2. c[a + 1] = c[a] + Change(s, a)
      BY <3>1, RunMoves
    <3>3. c[a] \in Int /\ Change(s, a) \in Int
      BY <3>1
    <3> QED
      BY <2>1, <2>3, <3>1, <3>2, <3>3
  <2>4. CASE b > a + 1
    <3> DEFINE mid == (a + b) \div 2
    <3>1. mid \in D /\ a < mid /\ mid < b
      BY <2>4
    <3>2. d[<<a, mid>>] = c[mid] - c[a] /\ d[<<mid, b>>] = c[b] - c[mid]
      <4> HIDE DEF mid
      <4> QED
        BY <3>1 DEF Between
    <3>3. c[a] \in Int /\ c[b] \in Int /\ c[mid] \in Int
      BY <3>1
    <3>4. d[<<a, b>>] = d[<<a, mid>>] + d[<<mid, b>>]
      <4> HIDE DEF mid, d
      <4> QED
        BY <2>1, <2>4, <3>2, <3>3
    <3> QED
      BY <2>4, <3>4
  <2> QED
    BY <2>2, <2>3, <2>4
<1>2. d = [span \in D \X D |-> d[span]]
  BY DEF Between
<1> HIDE DEF d
<1>3. Halves(s, d) = [span \in D \X D |-> d[span]]
  BY <1>1 DEF Halves
<1> QED
  BY <1>2, <1>3 DEF d

(* Nothing else solves it.                                                 *)
LEMMA HalvesAdd ==
  ASSUME NEW s, Len(s) \in Nat, NEW c, c = RunTo(s, Len(s) + 1, c),
         \A k \in 1 .. Len(s) + 1 : c[k] \in Int,
         \A k \in 1 .. Len(s) : Change(s, k) \in Int,
         NEW sum, sum = Halves(s, sum)
  PROVE  \A a, b \in 1 .. Len(s) + 1 : a <= b => sum[<<a, b>>] = c[b] - c[a]
<1> DEFINE D == 1 .. Len(s) + 1
           S == {n \in Nat : \A a, b \in D : a <= b /\ b <= a + n => sum[<<a, b>>] = c[b] - c[a]}
<1>1. ASSUME NEW a \in D, NEW b \in D
      PROVE  sum[<<a, b>>] = CASE b <= a -> 0
                           [] b = a + 1 -> Change(s, a)
                           [] OTHER -> sum[<<a, (a + b) \div 2>>] + sum[<<(a + b) \div 2, b>>]
  BY DEF Halves
<1>2. 0 \in S
  <2> SUFFICES ASSUME NEW a \in D, NEW b \in D, a <= b /\ b <= a + 0
               PROVE  sum[<<a, b>>] = c[b] - c[a]
    OBVIOUS
  <2>1. a = b /\ c[a] \in Int
    OBVIOUS
  <2>2. sum[<<a, b>>] = 0
    BY <1>1, <2>1
  <2> QED
    BY <2>1, <2>2
<1>3. ASSUME NEW n \in S PROVE n + 1 \in S
  <2> SUFFICES ASSUME NEW a \in D, NEW b \in D, a <= b /\ b <= a + (n + 1)
               PROVE  sum[<<a, b>>] = c[b] - c[a]
    OBVIOUS
  <2>1. CASE b <= a + n
    BY <1>3, <2>1
  <2>2. CASE b = a + 1
    <3>1. a \in 1 .. Len(s) /\ ~ (b <= a)
      BY <2>2
    <3>2. c[a + 1] = c[a] + Change(s, a)
      BY <3>1, RunMoves
    <3>3. c[a] \in Int /\ Change(s, a) \in Int
      BY <3>1
    <3>4. sum[<<a, b>>] = Change(s, a)
      BY <1>1, <2>2, <3>1
    <3> QED
      BY <2>2, <3>2, <3>3, <3>4
  <2>3. CASE b > a + n /\ b > a + 1
    <3> DEFINE mid == (a + b) \div 2
    <3>1. mid \in D /\ a < mid /\ mid < b
      BY <2>3
    <3>2. mid <= a + n /\ b <= mid + n
      BY <3>1
    <3>3. sum[<<a, b>>] = sum[<<a, mid>>] + sum[<<mid, b>>]
      <4>1. ~ (b <= a) /\ b # a + 1
        BY <2>3
      <4> QED
        BY <1>1, <4>1
    <3>4. sum[<<a, mid>>] = c[mid] - c[a] /\ sum[<<mid, b>>] = c[b] - c[mid]
      <4> HIDE DEF mid
      <4> QED
        BY <1>3, <3>1, <3>2
    <3>5. c[a] \in Int /\ c[b] \in Int /\ c[mid] \in Int
      BY <3>1
    <3> HIDE DEF mid
    <3> QED
      BY <3>3, <3>4, <3>5
  <2> QED
    BY <2>1, <2>2, <2>3
<1>4. S \in SUBSET Nat
  OBVIOUS
<1>5. Len(s) \in S
  <2> HIDE DEF S
  <2> QED
    BY <1>2, <1>3, <1>4, CountUp
<1>6. ASSUME NEW a \in D, NEW b \in D, a <= b PROVE sum[<<a, b>>] = c[b] - c[a]
  <2>1. b <= a + Len(s)
    BY <1>6
  <2> QED
    BY <1>5, <1>6, <2>1
<1> QED
  BY <1>6

(* So Curve is the running sum.                                            *)
LEMMA CurveMoves ==
  ASSUME NEW s, Len(s) \in Nat, \A k \in 1 .. Len(s) : Change(s, k) \in Int
  PROVE  /\ Curve(s)[1] = 0
         /\ \A k \in 1 .. Len(s) : Curve(s)[k + 1] = Curve(s)[k] + Change(s, k)
<1>1. PICK c : c = RunTo(s, Len(s) + 1, c) /\ \A k \in 1 .. Len(s) + 1 : c[k] \in Int
  BY RunExists
<1> DEFINE sum == CHOOSE f : f = Halves(s, f)
<1>2. sum = Halves(s, sum)
  BY <1>1, HalvesSolved
<1>3. Curve(s) = [k \in 1 .. Len(s) + 1 |-> sum[<<1, k>>]]
  BY DEF Curve, Halves
<1> HIDE DEF sum
<1>4. ASSUME NEW k \in 1 .. Len(s) + 1 PROVE Curve(s)[k] = c[k]
  <2>1. 1 \in 1 .. Len(s) + 1 /\ 1 <= k
    OBVIOUS
  <2>2. sum[<<1, k>>] = c[k] - c[1]
    BY <1>1, <1>2, <2>1, HalvesAdd
  <2>3. c[1] = 0 /\ c[k] \in Int
    BY <1>1, RunMoves
  <2> QED
    BY <1>3, <2>2, <2>3
<1>5. 1 \in 1 .. Len(s) + 1 /\ \A k \in 1 .. Len(s) : k \in 1 .. Len(s) + 1 /\ k + 1 \in 1 .. Len(s) + 1
  OBVIOUS
<1>6. c[1] = 0 /\ \A k \in 1 .. Len(s) : c[k + 1] = c[k] + Change(s, k)
  BY <1>1, RunMoves
<1> QED
  BY <1>4, <1>5, <1>6

(* A buffer has the size of its one allocation.                            *)
LEMMA SizeOfAlloc ==
  ASSUME NEW m \in Models, NEW p \in 1 .. 3, NEW k \in 1 .. Len(Plan[m][p]),
         Plan[m][p][k].do = "alloc"
  PROVE  SizeOf(Plan[m][p], Plan[m][p][k].buf) = Plan[m][p][k].n
<1> DEFINE s == Plan[m][p]
           j == CHOOSE j \in 1 .. Len(s) : s[j].do = "alloc" /\ s[j].buf = s[k].buf
<1>1. j \in 1 .. Len(s) /\ s[j].do = "alloc" /\ s[j].buf = s[k].buf
  OBVIOUS
<1>2. j = k
  <2> HIDE DEF j
  <2> QED
    BY <1>1, OnceEach
<1> QED
  BY <1>2 DEF SizeOf

LEMMA ChangeOf ==
  ASSUME NEW m \in Models, NEW p \in 1 .. 3, NEW k \in 1 .. Len(Plan[m][p])
  PROVE  LET s == Plan[m][p] IN
         Change(s, k) = CASE s[k].do = "alloc" -> s[k].n
                          [] s[k].do = "free" -> 0 - SizeOf(s, s[k].buf)
                          [] OTHER -> 0
BY DEF Change

(* What a step frees is there.                                             *)
LEMMA BuiltBeforeFree ==
  ASSUME NEW m \in Models, NEW p \in 1 .. 3, NEW k \in 1 .. Len(Plan[m][p]),
         Plan[m][p][k].do = "free"
  PROVE  <<p, Plan[m][p][k].buf>> \in Built(m, p, k)
<1>1. Len(Plan[m][p]) \in Nat
  BY PlanAssumption
<1>2. Plan[m][p][k].buf \in Done(m, p, k, "alloc")
  <2>1. PICK j \in 1 .. k - 1 : /\ Plan[m][p][j].do = "alloc"
                               /\ Plan[m][p][j].buf = Plan[m][p][k].buf
    BY FreedWasThere
  <2> QED
    BY <2>1 DEF Done
<1>3. Plan[m][p][k].buf \notin Done(m, p, k, "free")
  <2> SUFFICES ASSUME NEW i \in 1 .. k - 1, Plan[m][p][i].do = "free",
                      Plan[m][p][i].buf = Plan[m][p][k].buf
               PROVE  FALSE
    BY DEF Done
  <2>1. i \in 1 .. Len(Plan[m][p]) /\ i # k
    BY <1>1
  <2>2. i = k
    BY <2>1, OnceEach
  <2> QED
    BY <2>1, <2>2
<1> QED
  BY <1>2, <1>3 DEF Built

LEMMA SizesAreBytes ==
  ASSUME NEW m \in Models, NEW p \in 1 .. 3, NEW k \in 1 .. Len(Plan[m][p]) + 1,
         NEW b \in Built(m, p, k)
  PROVE  b[1] = p /\ SizeOf(Plan[m][b[1]], b[2]) \in Nat
<1>1. Len(Plan[m][p]) \in Nat
  BY PlanAssumption
<1>2. PICK j \in 1 .. k - 1 : Plan[m][p][j].do = "alloc" /\ b = <<p, Plan[m][p][j].buf>>
  BY DEF Built, Done
<1>3. j \in 1 .. Len(Plan[m][p])
  BY <1>1
<1>4. Plan[m][p][j].n \in Nat
  BY <1>3, PlanAssumption
<1>5. SizeOf(Plan[m][p], Plan[m][p][j].buf) = Plan[m][p][j].n
  BY <1>2, <1>3, SizeOfAlloc
<1> QED
  BY <1>2, <1>4, <1>5

LEMMA FreedIsBytes ==
  ASSUME NEW m \in Models, NEW p \in 1 .. 3, NEW k \in 1 .. Len(Plan[m][p]),
         Plan[m][p][k].do = "free"
  PROVE  SizeOf(Plan[m][p], Plan[m][p][k].buf) \in Nat
<1>1. k \in 1 .. Len(Plan[m][p]) + 1
  BY PlanAssumption
<1> DEFINE b == <<p, Plan[m][p][k].buf>>
<1>2. b \in Built(m, p, k)
  BY BuiltBeforeFree
<1>3. \A x \in Built(m, p, k) : SizeOf(Plan[m][x[1]], x[2]) \in Nat
  BY <1>1, SizesAreBytes
<1>4. b[1] = p /\ b[2] = Plan[m][p][k].buf
  OBVIOUS
<1> HIDE DEF b
<1>5. SizeOf(Plan[m][b[1]], b[2]) \in Nat
  BY <1>2, <1>3
<1> QED
  BY <1>4, <1>5

LEMMA ChangeIsBytes ==
  ASSUME NEW m \in Models, NEW p \in 1 .. 3, NEW k \in 1 .. Len(Plan[m][p])
  PROVE  Change(Plan[m][p], k) \in Int
<1>1. Plan[m][p][k].n \in Nat
  BY PlanAssumption
<1>2. CASE Plan[m][p][k].do = "alloc"
  BY <1>1, <1>2 DEF Change
<1>3. CASE Plan[m][p][k].do = "free"
  <2>1. SizeOf(Plan[m][p], Plan[m][p][k].buf) \in Nat
    BY <1>3, FreedIsBytes
  <2> QED
    BY <1>3, <2>1 DEF Change
<1>4. CASE Plan[m][p][k].do \notin {"alloc", "free"}
  BY <1>4 DEF Change
<1> QED
  BY <1>2, <1>3, <1>4

(* The curve of a part starts at nothing and moves with each step.         *)
LEMMA LoadMoves ==
  ASSUME NEW m \in Models, NEW p \in 1 .. 3
  PROVE  /\ Load[m][p][1] = 0
         /\ \A k \in 1 .. Len(Plan[m][p]) :
              Load[m][p][k + 1] = Load[m][p][k] + Change(Plan[m][p], k)
         /\ \A k \in 1 .. Len(Plan[m][p]) + 1 : Load[m][p][k] \in Nat
<1> DEFINE s == Plan[m][p]
<1>1. Len(s) \in Nat
  BY PlanAssumption
<1>2. Load[m][p] = Curve(s)
  BY DEF Load
<1>3. \A k \in 1 .. Len(s) : Change(s, k) \in Int
  BY ChangeIsBytes
<1>4. /\ Curve(s)[1] = 0
      /\ \A k \in 1 .. Len(s) : Curve(s)[k + 1] = Curve(s)[k] + Change(s, k)
  <2> HIDE DEF s
  <2> QED
    BY <1>1, <1>3, CurveMoves
<1>5. ASSUME NEW k \in 1 .. Len(s) + 1 PROVE Load[m][p][k] \in Nat
  <2>1. CASE k = 1
    BY <1>2, <1>4, <2>1
  <2>2. CASE k # 1
    <3>1. k - 1 \in 1 .. Len(s) /\ k - 1 + 1 = k
      BY <1>1, <2>2
    <3>2. Load[m][p][k - 1 + 1] \in Nat
      BY <3>1, PlanAssumption
    <3> QED
      BY <3>1, <3>2
  <2> QED
    BY <2>1, <2>2
<1> QED
  BY <1>2, <1>4, <1>5

LEMMA LoadStep ==
  ASSUME NEW m \in Models, NEW p \in 1 .. 3, NEW k \in 1 .. Len(Plan[m][p])
  PROVE  /\ Load[m][p][k] \in Nat /\ Load[m][p][k + 1] \in Nat
         /\ Load[m][p][k + 1] = Load[m][p][k] + Change(Plan[m][p], k)
         /\ Change(Plan[m][p], k) \in Int
<1>1. Len(Plan[m][p]) \in Nat
  BY PlanAssumption
<1>2. k \in 1 .. Len(Plan[m][p]) + 1 /\ k + 1 \in 1 .. Len(Plan[m][p]) + 1
  BY <1>1
<1>3. Load[m][p][k] \in Nat /\ Load[m][p][k + 1] \in Nat
  BY <1>2, LoadMoves
<1>4. Load[m][p][k + 1] = Load[m][p][k] + Change(Plan[m][p], k)
  BY LoadMoves
<1> QED
  BY <1>3, <1>4, ChangeIsBytes

LEMMA LoadEnd ==
  ASSUME NEW m \in Models, NEW p \in 1 .. 3
  PROVE  Load[m][p][Len(Plan[m][p]) + 1] \in Nat
<1>1. Len(Plan[m][p]) \in Nat
  BY PlanAssumption
<1>2. Len(Plan[m][p]) + 1 \in 1 .. Len(Plan[m][p]) + 1
  BY <1>1
<1> QED
  BY <1>2, LoadMoves

LEMMA KeptIsBuilt ==
  ASSUME NEW m \in Models, NEW p \in 1 .. 3
  PROVE  /\ Len(Plan[m][p]) \in Nat
         /\ Kept(m, p) = Built(m, p, Len(Plan[m][p]) + 1)
BY BuiltAll, PlanAssumption

LEMMA BelowMoves ==
  ASSUME NEW m \in Models
  PROVE  /\ Below(m, 1) = 0
         /\ \A p \in 1 .. 2 : Below(m, p + 1) = Below(m, p) + Load[m][p][Len(Plan[m][p]) + 1]
         /\ \A p \in 1 .. 3 : Below(m, p) \in Nat
<1> DEFINE w(q) == Load[m][q][Len(Plan[m][q]) + 1]
<1>1. ASSUME NEW q \in 1 .. 3 PROVE w(q) \in Nat
  <2>1. Len(Plan[m][q]) \in Nat
    BY PlanAssumption
  <2>2. Len(Plan[m][q]) + 1 \in 1 .. Len(Plan[m][q]) + 1
    BY <2>1
  <2> QED
    BY <2>2, LoadMoves
<1>2. \A p \in 1 .. 3 : Below(m, p) = (IF 1 < p THEN w(1) ELSE 0) + (IF 2 < p THEN w(2) ELSE 0)
  BY DEF Below
<1>3. w(1) \in Nat /\ w(2) \in Nat
  BY <1>1
<1> HIDE DEF w
<1>4. Below(m, 1) = 0 /\ Below(m, 2) = w(1) /\ Below(m, 3) = w(1) + w(2)
  BY <1>2, <1>3
<1>5. \A p \in 1 .. 2 : Below(m, p + 1) = Below(m, p) + w(p)
  BY <1>3, <1>4
<1>6. \A p \in 1 .. 3 : Below(m, p) \in Nat
  BY <1>3, <1>4
<1>7. \A p \in 1 .. 2 : Below(m, p + 1) = Below(m, p) + Load[m][p][Len(Plan[m][p]) + 1]
  BY <1>5 DEF w
<1> QED
  BY <1>4, <1>6, <1>7
--------------------------------------------------------------------------------
(* The widths of the q8 scratch.                                           *)

LEMMA Q8NeedIsWide ==
  ASSUME NEW k \in Nat
  PROVE  Q8Need(k) \in Nat /\ (k \div 32) * 40 \in Nat /\ Q8Need(k) >= (k \div 32) * 40
<1>1. (k \div 32) * 40 \in Nat /\ Q8Floor \in Nat
  BY ResidencyAssumption
<1> DEFINE a == (k \div 32) * 40
           S == {a, Q8Floor}
<1> HIDE DEF a
<1>2. \E x \in S : \A y \in S : x >= y
  BY <1>1 DEF a
<1>3. Max(S) \in S /\ \A y \in S : Max(S) >= y
  <2> HIDE DEF S
  <2> QED
    BY <1>2 DEF Max
<1>4. Q8Need(k) = Max(S)
  BY DEF Q8Need, a
<1> QED
  BY <1>1, <1>3, <1>4 DEF a

LEMMA AskedIsBytes ==
  ASSUME NEW m \in Models, NEW p \in 1 .. 3, NEW k
  PROVE  0 \in Asked(m, p, k) /\ Asked(m, p, k) \subseteq Nat
<1>1. ASSUME NEW q \in 1 .. p, NEW i \in DOMAIN Plan[m][q] PROVE Q8Need(Plan[m][q][i].n) \in Nat
  <2>1. q \in 1 .. 3
    OBVIOUS
  <2>2. i \in 1 .. Len(Plan[m][q])
    BY <2>1, PlanAssumption
  <2>3. Plan[m][q][i].n \in Nat
    BY <2>1, <2>2, PlanAssumption
  <2> QED
    BY <2>3, Q8NeedIsWide
<1> QED
  BY <1>1 DEF Asked

LEMMA AskedGrows ==
  ASSUME NEW m \in Models, NEW p \in 1 .. 3, NEW k \in Nat, NEW j \in Nat, k <= j
  PROVE  Asked(m, p, k) \subseteq Asked(m, p, j)
<1>1. ASSUME NEW q \in 1 .. p, NEW i \in DOMAIN Plan[m][q], q = p => i < k
      PROVE  q = p => i < j
  <2>1. i \in 1 .. Len(Plan[m][q]) /\ Len(Plan[m][q]) \in Nat
    BY PlanAssumption
  <2> QED
    BY <1>1, <2>1
<1> QED
  BY <1>1 DEF Asked

LEMMA AskedIsHandedOn ==
  ASSUME NEW m \in Models, NEW p \in 1 .. 2, NEW k
  PROVE  Asked(m, p, k) \subseteq Asked(m, p + 1, 1)
<1>1. \A q \in 1 .. p : q \in 1 .. p + 1 /\ q # p + 1
  OBVIOUS
<1> QED
  BY <1>1 DEF Asked

LEMMA AskedByStep ==
  ASSUME NEW m \in Models, NEW p \in 1 .. 3, NEW k \in 1 .. Len(Plan[m][p]),
         Plan[m][p][k].do = "q8"
  PROVE  Q8Need(Plan[m][p][k].n) \in Asked(m, p, k + 1)
<1>1. k \in DOMAIN Plan[m][p] /\ k < k + 1 /\ p \in 1 .. p
  BY PlanAssumption
<1> QED
  BY <1>1 DEF Asked
--------------------------------------------------------------------------------
(* The books: what is held has the size that the plan gives it, and what   *)
(* is counted is what the parts so far have left (a tower that was given   *)
(* up leaves nothing) and what the current one has built.                  *)

Sized(m) == \A b \in DOMAIN held : held[b] = SizeOf(Plan[m][b[1]], b[2])
Sizes == (job # NoJob => Sized(job.model)) /\ (resident # Nobody => Sized(resident))
Typed ==
  /\ rivals \in Rivals /\ tracked \in Nat
  /\ q8 \in [bytes : Nat, gen : Nat] /\ (q8.gen = 0 => q8.bytes = 0)
  /\ resident \in Models \cup {Nobody} /\ job.mark \in Nat /\ lost \subseteq {2, 3}
  /\ outcome \in Outcomes /\ squeezed \in BOOLEAN /\ starved \in BOOLEAN
Tally ==
  job # NoJob =>
    /\ job.mark <= Below(job.model, job.part)
    /\ tracked = job.mark + (IF job.part \in lost THEN 0
                             ELSE Load[job.model][job.part][job.at])
Books == Typed /\ Sizes /\ Tally

LEMMA InitBooks == Init => Books
<1> SUFFICES ASSUME Init PROVE Books
  OBVIOUS
<1>1. Typed
  <2>1. job.mark = 0
    BY DEF Init, NoJob
  <2>2. squeezed \in BOOLEAN /\ starved \in BOOLEAN
    BY DEF Init
  <2>3. q8 \in [bytes : Nat, gen : Nat] /\ q8.bytes = 0
    BY DEF Init
  <2>4. outcome \in Outcomes /\ lost \subseteq {2, 3} /\ tracked \in Nat
    BY DEF Init, Outcomes
  <2> QED
    BY <2>1, <2>2, <2>3, <2>4 DEF Init, Typed
<1>2. Sizes /\ Tally
  BY DEF Init, Sizes, Tally
<1> QED
  BY <1>1, <1>2 DEF Books

LEMMA AbandonKeepsBooks ==
  ASSUME NEW why \in Outcomes, Abandon(why), Books, UNCHANGED <<rivals, q8>>,
         squeezed' \in BOOLEAN, starved' \in BOOLEAN
  PROVE  Books'
<1>1. job' = NoJob /\ resident' = Nobody /\ held' = Empty /\ tracked' = 0 /\ lost' = {}
      /\ outcome' = why
  BY DEF Abandon, Evict, DropModel
<1>2. Typed'
  BY <1>1 DEF Books, Typed, NoJob
<1>3. Sizes' /\ Tally'
  BY <1>1 DEF Sizes, Tally
<1> QED
  BY <1>2, <1>3 DEF Books

LEMMA SkipTowerKeepsBooks ==
  ASSUME IInv, Books, Working, job.part > 1, SkipTower, UNCHANGED <<rivals, q8>>,
         squeezed' \in BOOLEAN, starved' \in BOOLEAN
  PROVE  Books'
<1>1. job' = [model |-> job.model, part |-> job.part,
              at |-> Len(Plan[job.model][job.part]) + 1, mark |-> job.mark]
  BY DEF SkipTower, IInv, JobIsRecord, Steps
<1>2. lost' = lost \cup {job.part} /\ tracked' = job.mark /\ UNCHANGED <<resident, outcome>>
  BY DEF SkipTower
<1>3. job # NoJob /\ job.part \in {2, 3} /\ resident = Nobody
  BY AtWork
<1>4. Typed'
  BY <1>1, <1>2, <1>3 DEF Books, Typed
<1>5. Tally'
  BY <1>1, <1>2, <1>3, <1>4 DEF Books, Typed, Tally
<1>6. Sized(job.model)
  BY <1>3 DEF Books, Sizes
<1>7. \A b \in DOMAIN held' : b \in DOMAIN held /\ held'[b] = held[b]
  BY DEF SkipTower, Without
<1>8. \A b \in DOMAIN held' : held'[b] = SizeOf(Plan[job.model][b[1]], b[2])
  BY <1>6, <1>7 DEF Sized
<1>9. job'.model = job.model /\ resident' = Nobody
  BY <1>1, <1>2, <1>3
<1>10. Sizes'
  BY <1>8, <1>9 DEF Sizes, Sized
<1> QED
  BY <1>4, <1>5, <1>10 DEF Books

LEMMA GiveUpKeepsBooks ==
  ASSUME IInv, Books, Working, NEW why \in Outcomes, GiveUp(why), UNCHANGED <<rivals, q8>>,
         squeezed' \in BOOLEAN, starved' \in BOOLEAN
  PROVE  Books'
BY AbandonKeepsBooks, SkipTowerKeepsBooks DEF GiveUp

LEMMA StaysTyped ==
  ASSUME Typed, UNCHANGED <<rivals, resident, lost, outcome>>,
         tracked' \in Nat, job'.mark \in Nat,
         q8' \in [bytes : Nat, gen : Nat], q8'.gen = 0 => q8'.bytes = 0,
         squeezed' \in BOOLEAN, starved' \in BOOLEAN
  PROVE  Typed'
BY DEF Typed

(* What the step at hand does to the count.                                *)
LEMMA NowChanges ==
  ASSUME IInv, Working
  PROVE  LET s == Plan[job.model][job.part] IN
         /\ Now.do = "alloc" =>
              Change(s, job.at) = Now.n /\ SizeOf(s, Now.buf) = Now.n
         /\ Now.do = "free" => Change(s, job.at) = 0 - SizeOf(s, Now.buf)
         /\ Now.do \notin {"alloc", "free"} => Change(s, job.at) = 0
<1> DEFINE m == job.model
           p == job.part
           k == job.at
<1>1. m \in Models /\ p \in 1 .. 3 /\ k \in 1 .. Len(Plan[m][p]) /\ Now = Plan[m][p][k]
  BY AtWork
<1> HIDE DEF m, p, k
<1>2. Now.do = "alloc" => SizeOf(Plan[m][p], Now.buf) = Now.n
  BY <1>1, SizeOfAlloc
<1>3. /\ Now.do = "alloc" => Change(Plan[m][p], k) = Now.n
      /\ Now.do = "free" => Change(Plan[m][p], k) = 0 - SizeOf(Plan[m][p], Now.buf)
      /\ Now.do \notin {"alloc", "free"} => Change(Plan[m][p], k) = 0
  BY <1>1 DEF Change
<1> QED
  BY <1>2, <1>3 DEF m, p, k

(* A step that succeeds moves the count as the plan does.                  *)
LEMMA AdvanceKeepsBooks ==
  ASSUME IInv, Books, Working, Advance, UNCHANGED <<rivals, resident, lost, outcome>>,
         tracked' = tracked + Change(Plan[job.model][job.part], job.at),
         \A b \in DOMAIN held' : held'[b] = SizeOf(Plan[job.model][b[1]], b[2]),
         q8' \in [bytes : Nat, gen : Nat], q8'.gen = 0 => q8'.bytes = 0,
         squeezed' \in BOOLEAN, starved' \in BOOLEAN
  PROVE  Books'
<1> DEFINE m == job.model
           p == job.part
           k == job.at
<1>1. job' = [model |-> m, part |-> p, at |-> k + 1, mark |-> job.mark]
  BY DEF Advance, IInv, JobIsRecord
<1>2. /\ job # NoJob /\ m \in Models /\ p \in 1 .. 3 /\ k \in 1 .. Len(Plan[m][p])
      /\ Len(Plan[m][p]) \in Nat /\ p \notin lost /\ resident = Nobody
  BY AtWork
<1>3. /\ job.mark \in Nat /\ job.mark <= Below(m, p) /\ tracked = job.mark + Load[m][p][k]
  BY <1>2 DEF Books, Typed, Tally
<1>4. /\ Load[m][p][k] \in Nat /\ Load[m][p][k + 1] \in Nat
      /\ Load[m][p][k + 1] = Load[m][p][k] + Change(Plan[m][p], k)
      /\ Change(Plan[m][p], k) \in Int
  <2> HIDE DEF m, p, k
  <2> QED
    BY <1>2, LoadStep
<1>5. tracked' = tracked + Change(Plan[m][p], k)
  OBVIOUS
<1>6. tracked' = job.mark + Load[m][p][k + 1]
  <2> HIDE DEF m, p, k
  <2> QED
    BY <1>3, <1>4, <1>5
<1>7. Typed'
  <2>1. tracked' \in Nat
    <3> HIDE DEF m, p, k
    <3> QED
      BY <1>3, <1>4, <1>6
  <2>2. job'.mark \in Nat
    BY <1>1, <1>3
  <2>3. Typed
    BY Zenon DEF Books
  <2> QED
    BY <2>1, <2>2, <2>3, StaysTyped, ZenonT(40)
<1>8. Tally'
  BY <1>1, <1>2, <1>3, <1>6 DEF Tally
<1>9. job'.model = m /\ resident' = Nobody
  BY <1>1, <1>2
<1>10. Sizes'
  BY <1>9 DEF Sizes, Sized
<1> QED
  BY <1>7, <1>8, <1>10 DEF Books

LEMMA FindTensorKeepsBooks ==
  ASSUME IInv, Books, FindTensor PROVE Books'
<1>1. Working /\ Now.do = "find" /\ UNCHANGED <<rivals, q8, squeezed, starved>>
  BY DEF FindTensor
<1>2. squeezed' \in BOOLEAN /\ starved' \in BOOLEAN
  BY <1>1 DEF Books, Typed
<1>3. CASE Absent
  BY <1>1, <1>2, <1>3, GiveUpKeepsBooks DEF FindTensor, Outcomes
<1>4. CASE ~Absent
  <2>1. Advance /\ UNCHANGED <<held, tracked, resident, lost, outcome>>
    BY <1>4 DEF FindTensor
  <2>2. Change(Plan[job.model][job.part], job.at) = 0
    BY <1>1, NowChanges
  <2>3. tracked' = tracked + Change(Plan[job.model][job.part], job.at)
    BY <2>1, <2>2 DEF Books, Typed
  <2>4. \A b \in DOMAIN held' : held'[b] = SizeOf(Plan[job.model][b[1]], b[2])
    BY <1>1, <2>1, AtWork DEF Books, Sizes, Sized
  <2>5. q8' \in [bytes : Nat, gen : Nat] /\ (q8'.gen = 0 => q8'.bytes = 0)
    BY <1>1 DEF Books, Typed
  <2> QED
    BY <1>1, <1>2, <2>1, <2>3, <2>4, <2>5, AdvanceKeepsBooks
<1> QED
  BY <1>3, <1>4

LEMMA AllocBufferKeepsBooks ==
  ASSUME IInv, Books, AllocBuffer PROVE Books'
<1>1. Working /\ Now.do = "alloc" /\ UNCHANGED <<rivals, q8, squeezed>>
  BY DEF AllocBuffer
<1>2. squeezed' \in BOOLEAN /\ starved' \in BOOLEAN
  BY <1>1 DEF Books, Typed, AllocBuffer
<1>3. CASE ~(Now.n <= Available)
  BY <1>1, <1>2, <1>3, GiveUpKeepsBooks DEF AllocBuffer, Outcomes
<1>4. CASE Now.n <= Available
  <2>1. Hold(<<job.part, Now.buf>>, Now.n) /\ Advance /\ UNCHANGED <<resident, lost, outcome>>
    BY <1>4 DEF AllocBuffer
  <2>2. Change(Plan[job.model][job.part], job.at) = Now.n
    BY <1>1, NowChanges
  <2>3. tracked' = tracked + Change(Plan[job.model][job.part], job.at)
    BY <2>1, <2>2 DEF Hold
  <2>4. SizeOf(Plan[job.model][job.part], Now.buf) = Now.n
    BY <1>1, NowChanges
  <2>5. \A b \in DOMAIN held : held[b] = SizeOf(Plan[job.model][b[1]], b[2])
    BY <1>1, AtWork DEF Books, Sizes, Sized
  <2>6. \A b \in DOMAIN held' : held'[b] = SizeOf(Plan[job.model][b[1]], b[2])
    <3>1. held' = [x \in DOMAIN held \cup {<<job.part, Now.buf>>} |->
                     IF x = <<job.part, Now.buf>> THEN Now.n ELSE held[x]]
      BY <2>1 DEF Hold
    <3> QED
      BY <2>4, <2>5, <3>1
  <2>7. q8' \in [bytes : Nat, gen : Nat] /\ (q8'.gen = 0 => q8'.bytes = 0)
    BY <1>1 DEF Books, Typed
  <2> QED
    BY <1>1, <1>2, <2>1, <2>3, <2>6, <2>7, AdvanceKeepsBooks
<1> QED
  BY <1>3, <1>4

LEMMA DropTemporaryKeepsBooks ==
  ASSUME IInv, Books, DropTemporary PROVE Books'
<1>1. Working /\ Now.do = "free" /\ UNCHANGED <<rivals, q8, squeezed, starved>>
  BY DEF DropTemporary
<1>2. squeezed' \in BOOLEAN /\ starved' \in BOOLEAN
  BY <1>1 DEF Books, Typed
<1>3. Advance /\ UNCHANGED <<resident, lost, outcome>>
  BY DEF DropTemporary
<1> DEFINE b0 == <<job.part, Now.buf>>
<1>4. \A b \in DOMAIN held : held[b] = SizeOf(Plan[job.model][b[1]], b[2])
  BY <1>1, AtWork DEF Books, Sizes, Sized
<1>5. b0 \in Built(job.model, job.part, job.at)
  BY <1>1, AtWork, BuiltBeforeFree
<1>6. held[b0] = SizeOf(Plan[job.model][job.part], Now.buf)
  BY <1>1, <1>4, <1>5, AtWork
<1>7. SizeOf(Plan[job.model][job.part], Now.buf) \in Nat
  BY <1>1, AtWork, FreedIsBytes
<1>8. Change(Plan[job.model][job.part], job.at)
        = 0 - SizeOf(Plan[job.model][job.part], Now.buf)
  BY <1>1, NowChanges
<1>9. tracked' = tracked + Change(Plan[job.model][job.part], job.at)
  BY <1>6, <1>7, <1>8 DEF DropTemporary, Books, Typed
<1>10. \A b \in DOMAIN held' : held'[b] = SizeOf(Plan[job.model][b[1]], b[2])
  BY <1>4 DEF DropTemporary, Without
<1>11. q8' \in [bytes : Nat, gen : Nat] /\ (q8'.gen = 0 => q8'.bytes = 0)
  BY <1>1 DEF Books, Typed
<1> QED
  BY <1>1, <1>2, <1>3, <1>9, <1>10, <1>11, AdvanceKeepsBooks

LEMMA EnsureQ8KeepsBooks ==
  ASSUME IInv, Books, EnsureQ8 PROVE Books'
<1>1. Working /\ Now.do = "q8" /\ UNCHANGED <<rivals, squeezed>>
  BY DEF EnsureQ8
<1>2. squeezed' \in BOOLEAN /\ starved' \in BOOLEAN
  BY <1>1 DEF Books, Typed, EnsureQ8
<1>3. CASE GiveUp("oom") /\ UNCHANGED q8
  BY <1>1, <1>2, <1>3, GiveUpKeepsBooks DEF Outcomes
<1>4. CASE Advance /\ UNCHANGED <<held, tracked, resident, lost, outcome>>
           /\ (q8' = q8 \/ q8' = [bytes |-> Q8Need(Now.n), gen |-> q8.gen + 1])
  <2>1. Change(Plan[job.model][job.part], job.at) = 0
    BY <1>1, NowChanges
  <2>2. tracked' = tracked + Change(Plan[job.model][job.part], job.at)
    BY <1>4, <2>1 DEF Books, Typed
  <2>3. \A b \in DOMAIN held' : held'[b] = SizeOf(Plan[job.model][b[1]], b[2])
    BY <1>1, <1>4, AtWork DEF Books, Sizes, Sized
  <2>4. Q8Need(Now.n) \in Nat
    BY <1>1, NowIsBytes, Q8NeedIsWide
  <2>5. q8' \in [bytes : Nat, gen : Nat] /\ (q8'.gen = 0 => q8'.bytes = 0)
    BY <1>4, <2>4 DEF Books, Typed
  <2> QED
    BY <1>1, <1>2, <1>4, <2>2, <2>3, <2>5, AdvanceKeepsBooks
<1> QED
  BY <1>3, <1>4 DEF EnsureQ8
LEMMA NextPartKeepsBooks ==
  ASSUME IInv, Books, NextPart PROVE Books'
<1> DEFINE m == job.model
           p == job.part
           n == Len(Plan[m][p])
<1>1. Loading /\ ~Working /\ p < 3
      /\ UNCHANGED <<rivals, held, tracked, q8, resident, lost, outcome, squeezed, starved>>
  BY DEF NextPart
<1>2. job' = [model |-> m, part |-> p + 1, at |-> 1, mark |-> tracked]
  BY DEF NextPart, IInv, JobIsRecord
<1>3. m \in Models /\ p \in 1 .. 2 /\ resident = Nobody /\ job # NoJob /\ lost \subseteq 1 .. p
  BY <1>1, PartDone
<1>4. n \in Nat
  BY <1>3, PlanAssumption
<1>5. job.at = n + 1
  BY <1>1, <1>3, <1>4 DEF Working, Steps, IInv, JobInRange
<1>6. Typed /\ Sizes /\ Tally
  BY DEF Books
<1>7. Typed'
  BY <1>1, <1>2, <1>6 DEF Typed
<1>8. Sizes'
  <2>1. job'.model = job.model /\ UNCHANGED <<held, resident>>
    BY <1>1, <1>2
  <2>2. Sized(job.model) /\ resident = Nobody
    BY <1>3, <1>6 DEF Sizes
  <2> QED
    BY <2>1, <2>2 DEF Sizes, Sized
<1>9. tracked <= Below(m, p + 1)
  <2>1. Below(m, p + 1) = Below(m, p) + Load[m][p][n + 1] /\ Below(m, p) \in Nat
    <3>1. p \in 1 .. 3
      BY <1>3
    <3> HIDE DEF m, p
    <3> QED
      BY <1>3, <3>1, BelowMoves
  <2>2. Load[m][p][n + 1] \in Nat
    <3>1. p \in 1 .. 3
      BY <1>3
    <3> HIDE DEF m, p
    <3> QED
      BY <1>3, <3>1, LoadEnd
  <2>3. /\ job.mark \in Nat /\ job.mark <= Below(m, p)
        /\ tracked = job.mark + (IF p \in lost THEN 0 ELSE Load[m][p][n + 1])
    BY <1>3, <1>5, <1>6 DEF Typed, Tally
  <2> HIDE DEF m, p, n
  <2> QED
    BY <2>1, <2>2, <2>3
<1>10. Load[m][p + 1][1] = 0
  BY <1>3, LoadMoves
<1>11. tracked = tracked + 0
  BY <1>6 DEF Typed
<1>12. Tally'
  BY <1>1, <1>2, <1>9, <1>10, <1>11 DEF Tally
<1> QED
  BY <1>7, <1>8, <1>12 DEF Books

LEMMA FinishKeepsBooks ==
  ASSUME IInv, Books, Finish PROVE Books'
<1>1. Loading /\ ~Working /\ job.part = 3 /\ UNCHANGED <<rivals, q8, squeezed, starved>>
  BY DEF Finish
<1>2. squeezed' \in BOOLEAN /\ starved' \in BOOLEAN
  BY <1>1 DEF Books, Typed
<1>3. CASE ~Card1.words
  BY <1>1, <1>2, <1>3, AbandonKeepsBooks DEF Finish, Outcomes
<1>4. CASE Card1.words
  <2>1. resident' = job.model /\ job' = NoJob /\ outcome' = "loaded"
        /\ UNCHANGED <<held, tracked, lost>>
    BY <1>4 DEF Finish
  <2>2. job # NoJob /\ job.model \in Models
    BY <1>1, PartDone
  <2>3. Typed /\ Sizes
    BY DEF Books
  <2>4. Typed'
    <3>1. job'.mark = 0
      BY <2>1 DEF NoJob
    <3>2. outcome' \in Outcomes
      BY <2>1 DEF Outcomes
    <3> QED
      BY <1>1, <2>1, <2>2, <2>3, <3>1, <3>2 DEF Typed
  <2>5. Sizes'
    BY <2>1, <2>2, <2>3 DEF Sizes, Sized
  <2>6. Tally'
    BY <2>1 DEF Tally
  <2> QED
    BY <2>4, <2>5, <2>6 DEF Books
<1> QED
  BY <1>3, <1>4

LEMMA EnsureKeepsBooks ==
  ASSUME Books, NEW m \in Models, Ensure(m) PROVE Books'
<1>1. /\ held' = Empty /\ tracked' = 0 /\ lost' = {} /\ resident' = Nobody
      /\ squeezed' = FALSE /\ starved' = FALSE /\ UNCHANGED <<rivals, q8>>
  BY DEF Ensure, Evict, DropModel
<1>2. \/ job' = NoJob /\ outcome' = "refused"
      \/ job' = [NoJob EXCEPT !.model = m] /\ outcome' = "none"
  BY DEF Ensure
<1>3. job'.mark = 0 /\ outcome' \in Outcomes
  BY <1>2 DEF NoJob, Outcomes
<1>4. squeezed' \in BOOLEAN /\ starved' \in BOOLEAN
  BY <1>1
<1>5. Typed'
  BY <1>1, <1>3, <1>4 DEF Books, Typed
<1>6. \A n : Sized(n)'
  BY <1>1 DEF Sized, Empty
<1>7. Sizes'
  BY <1>1, <1>6 DEF Sizes, Sized
<1>8. Tally'
  <2>1. CASE job' = NoJob
    BY <2>1 DEF Tally
  <2>2. CASE job' = [NoJob EXCEPT !.model = m]
    <3>1. job'.model = m /\ job'.part = 1 /\ job'.at = 1 /\ job'.mark = 0
      BY <2>2 DEF NoJob
    <3>2. Below(m, 1) = 0 /\ Load[m][1][1] = 0
      BY BelowMoves, LoadMoves
    <3> QED
      BY <1>1, <3>1, <3>2 DEF Tally
  <2> QED
    BY <1>2, <2>1, <2>2
<1> QED
  BY <1>5, <1>7, <1>8 DEF Books

LEMMA IdleKeepsBooks ==
  ASSUME Books, UNCHANGED <<held, tracked, q8, resident, job, lost, outcome, starved>>,
         rivals' \in Rivals, squeezed' \in BOOLEAN
  PROVE  Books'
<1>1. Typed'
  BY DEF Books, Typed
<1>2. Sizes' /\ Tally'
  BY DEF Books, Sizes, Sized, Tally
<1> QED
  BY <1>1, <1>2 DEF Books

LEMMA NextKeepsBooks ==
  ASSUME IInv, Books, [Next]_vars PROVE Books'
<1>1. rivals \in Rivals /\ squeezed \in BOOLEAN
  BY DEF Books, Typed
<1>2. CASE Rival
  <2>1. rivals' \in Rivals
    BY <1>2 DEF Rival
  <2>2. squeezed' \in BOOLEAN
    BY <1>1, <1>2 DEF Rival
  <2> QED
    BY <1>2, <2>1, <2>2, IdleKeepsBooks DEF Rival
<1>3. CASE Arm \/ UNCHANGED vars
  <2>1. UNCHANGED <<rivals, held, tracked, q8, resident, job, lost, outcome, squeezed, starved>>
    BY <1>3 DEF Arm, vars
  <2> QED
    BY <1>1, <2>1, IdleKeepsBooks
<1>4. CASE FindTensor \/ AllocBuffer \/ DropTemporary \/ EnsureQ8
  BY <1>4, FindTensorKeepsBooks, AllocBufferKeepsBooks, DropTemporaryKeepsBooks,
     EnsureQ8KeepsBooks
<1>5. CASE NextPart \/ Finish
  BY <1>5, NextPartKeepsBooks, FinishKeepsBooks
<1>6. CASE \E m \in Models : Ensure(m)
  BY <1>6, EnsureKeepsBooks
<1> QED
  BY <1>2, <1>3, <1>4, <1>5, <1>6 DEF Next

LEMMA SpecBooks == Spec => []Books
BY InitBooks, SpecIInv, NextKeepsBooks, PTL DEF Spec

LEMMA HeldIsBytes ==
  ASSUME IInv, Books
  PROVE  \A b \in DOMAIN held : held[b] \in Nat /\ b[1] \in 1 .. 3
<1> SUFFICES ASSUME NEW b \in DOMAIN held PROVE held[b] \in Nat /\ b[1] \in 1 .. 3
  OBVIOUS
<1>1. ASSUME NEW m \in Models, Sized(m), NEW p \in 1 .. 3, b \in Kept(m, p)
      PROVE  held[b] \in Nat /\ b[1] \in 1 .. 3
  <2>1. Len(Plan[m][p]) + 1 \in 1 .. Len(Plan[m][p]) + 1
    BY KeptIsBuilt
  <2>2. b \in Built(m, p, Len(Plan[m][p]) + 1)
    BY <1>1, KeptIsBuilt
  <2>3. b[1] = p /\ SizeOf(Plan[m][b[1]], b[2]) \in Nat
    BY <2>1, <2>2, SizesAreBytes
  <2> QED
    BY <1>1, <2>3 DEF Sized
<1>2. CASE job = NoJob
  <2>1. resident # Nobody /\ \E p \in {1, 2, 3} : b \in Kept(resident, p)
    BY <1>2 DEF IInv, IdleHeld, HeldIsTheModel
  <2>2. resident \in Models /\ Sized(resident)
    BY <2>1 DEF Books, Typed, Sizes
  <2> QED
    BY <1>1, <2>1, <2>2
<1>3. CASE job # NoJob
  <2>1. /\ job.model \in Models /\ job.part \in 1 .. 3
        /\ job.at \in 1 .. Len(Plan[job.model][job.part]) + 1
    BY <1>3 DEF IInv, JobInRange
  <2>2. Sized(job.model)
    BY <1>3 DEF Books, Sizes
  <2>3. CASE b \in Earlier(job.model, job.part)
    <3>1. PICK p \in 1 .. job.part - 1 : b \in Kept(job.model, p)
      BY <2>3 DEF Earlier
    <3>2. p \in 1 .. 3
      BY <2>1
    <3> QED
      BY <1>1, <2>1, <2>2, <3>1, <3>2
  <2>4. CASE b \in Built(job.model, job.part, job.at)
    <3>1. b[1] = job.part /\ SizeOf(Plan[job.model][b[1]], b[2]) \in Nat
      BY <2>1, <2>4, SizesAreBytes
    <3> QED
      BY <2>1, <2>2, <3>1 DEF Sized
  <2>5. DOMAIN held \subseteq Earlier(job.model, job.part)
                               \cup Built(job.model, job.part, job.at)
    BY <1>3 DEF IInv, LoadHeld
  <2> QED
    BY <2>3, <2>4, <2>5
<1> QED
  BY <1>2, <1>3

(* Type correctness: in particular the count of the device's bytes never   *)
(* falls below zero, whatever is freed, skipped or abandoned.              *)
THEOREM ResidencyIsTyped == Spec => []TypeOK
<1>1. ASSUME IInv, Books PROVE TypeOK
  <2>1. job \in [model : Models \cup {Nobody}, part : 1 .. 3, at : Nat, mark : Nat]
    <3>1. CASE job = NoJob
      BY <3>1 DEF NoJob
    <3>2. CASE job # NoJob
      <4>1. job.model \in Models /\ job.part \in 1 .. 3
            /\ job.at \in 1 .. Len(Plan[job.model][job.part]) + 1
        BY <1>1, <3>2 DEF IInv, JobInRange
      <4>2. job.at \in Nat
        BY <4>1, PlanAssumption
      <4> QED
        BY <1>1, <4>1, <4>2 DEF IInv, JobIsRecord, Books, Typed
    <3> QED
      BY <3>1, <3>2
  <2>2. graph \in Nat
    BY <1>1 DEF IInv, GraphPointsToScratch, Books, Typed
  <2>3. \A b \in DOMAIN held : held[b] \in Nat /\ b[1] \in 1 .. 3
    BY <1>1, HeldIsBytes
  <2> QED
    BY <1>1, <2>1, <2>2, <2>3 DEF TypeOK, Books, Typed
<1> QED
  BY <1>1, SpecIInv, SpecBooks, PTL
--------------------------------------------------------------------------------
(* The promise of a load that was admitted and that nobody squeezed: when  *)
(* it began, the bill and the headroom fitted beside the scratch of the    *)
(* moment (old), and the scratch is still no wider than that or as wide as *)
(* a step of this build asked for.                                         *)
Promised ==
  job # NoJob /\ ~squeezed =>
    \E old \in Nat :
      /\ Bill[job.model] + Headroom <= Vram - rivals - old
      /\ q8.bytes <= old \/ q8.bytes \in Asked(job.model, job.part, job.at)
Covered == Promised /\ AdmittedLoadsFit

(* No step of a covered build comes up short.                              *)
LEMMA NeverShort ==
  ASSUME IInv, Books, Promised, Working, ~squeezed, Covers(job.model),
         Now.do \in {"alloc", "q8"}
  PROVE  Takes(Now) <= Available
<1> DEFINE m == job.model
           p == job.part
           k == job.at
<1>1. /\ job # NoJob /\ m \in Models /\ p \in 1 .. 3 /\ k \in 1 .. Len(Plan[m][p])
      /\ Len(Plan[m][p]) \in Nat /\ p \notin lost /\ Now = Plan[m][p][k]
  BY AtWork
<1>2. PICK old \in Nat : /\ Bill[m] + Headroom <= Vram - rivals - old
                         /\ q8.bytes <= old \/ q8.bytes \in Asked(m, p, k)
  BY <1>1 DEF Promised
<1>3. \A w \in Asked(m, p, k) : Below(m, p) + Load[m][p][k] + w + Takes(Now) <= Bill[m] + Headroom
  BY <1>1 DEF Covers
<1>4. /\ job.mark \in Nat /\ job.mark <= Below(m, p) /\ tracked = job.mark + Load[m][p][k]
      /\ q8.bytes \in Nat /\ rivals \in Rivals
  BY <1>1 DEF Books, Typed, Tally
<1>5. /\ Vram \in Nat /\ Headroom \in Nat /\ rivals \in Nat /\ Bill[m] \in Nat
  BY <1>1, <1>4, ResidencyAssumption, PlanAssumption
<1>6. Below(m, p) \in Nat
  <2> HIDE DEF m, p
  <2> QED
    BY <1>1, BelowMoves
<1>7. Load[m][p][k] \in Nat
  <2>1. k \in 1 .. Len(Plan[m][p]) + 1
    BY <1>1
  <2> QED
    BY <1>1, <2>1, LoadMoves
<1>8. Takes(Now) \in Nat
  BY NowIsBytes, Q8NeedIsWide DEF Takes
<1>9. 0 \in Asked(m, p, k)
  BY <1>1, AskedIsBytes
<1>10. Available = Vram - rivals - q8.bytes - tracked
  BY DEF Available, Free0
<1> DEFINE spent == Below(m, p) + Load[m][p][k]
<1>11. spent \in Nat /\ tracked <= spent /\ tracked \in Nat
  BY <1>4, <1>6, <1>7
<1>12. \A w \in Asked(m, p, k) : spent + w + Takes(Now) <= Bill[m] + Headroom
  BY <1>3
<1> HIDE DEF spent, m, p, k
<1>13. CASE q8.bytes <= old
  <2>1. spent + 0 + Takes(Now) <= Bill[m] + Headroom
    BY <1>9, <1>12
  <2> QED
    BY <1>2, <1>4, <1>5, <1>8, <1>10, <1>11, <1>13, <2>1
<1>14. CASE q8.bytes \in Asked(m, p, k)
  <2>1. spent + q8.bytes + Takes(Now) <= Bill[m] + Headroom
    BY <1>12, <1>14
  <2> QED
    BY <1>2, <1>4, <1>5, <1>8, <1>10, <1>11, <2>1
<1> QED
  BY <1>2, <1>13, <1>14

LEMMA AbandonKeepsPromise ==
  ASSUME NEW why, Abandon(why) PROVE Promised'
BY DEF Abandon, Promised

LEMMA SkipTowerKeepsPromise ==
  ASSUME IInv, Promised, Working, SkipTower, UNCHANGED <<rivals, q8, squeezed>>
  PROVE  Promised'
<1> DEFINE m == job.model
           p == job.part
           n == Len(Plan[m][p])
<1>1. job' = [model |-> m, part |-> p, at |-> n + 1, mark |-> job.mark]
  BY DEF SkipTower, IInv, JobIsRecord, Steps
<1>2. job # NoJob /\ m \in Models /\ p \in 1 .. 3 /\ job.at \in 1 .. n /\ n \in Nat
  BY AtWork
<1>3. Asked(m, p, job.at) \subseteq Asked(m, p, n + 1)
  <2>1. job.at \in Nat /\ n + 1 \in Nat /\ job.at <= n + 1
    BY <1>2
  <2> HIDE DEF n
  <2> QED
    BY <1>2, <2>1, AskedGrows
<1>4. job'.model = m /\ job'.part = p /\ job'.at = n + 1
  BY <1>1
<1> HIDE DEF n
<1> QED
  BY <1>2, <1>3, <1>4 DEF Promised

LEMMA GiveUpKeepsPromise ==
  ASSUME IInv, Promised, Working, NEW why, GiveUp(why), UNCHANGED <<rivals, q8, squeezed>>
  PROVE  Promised'
BY AbandonKeepsPromise, SkipTowerKeepsPromise DEF GiveUp

LEMMA AdvanceKeepsPromise ==
  ASSUME IInv, Promised, Working, Advance, UNCHANGED <<rivals, squeezed>>,
         \/ q8' = q8
         \/ Now.do = "q8" /\ q8'.bytes = Q8Need(Now.n)
  PROVE  Promised'
<1> DEFINE m == job.model
           p == job.part
           k == job.at
<1>1. job' = [model |-> m, part |-> p, at |-> k + 1, mark |-> job.mark]
  BY DEF Advance, IInv, JobIsRecord
<1>2. /\ job # NoJob /\ m \in Models /\ p \in 1 .. 3 /\ k \in 1 .. Len(Plan[m][p])
      /\ k \in Nat /\ Now = Plan[m][p][k]
  BY AtWork
<1>3. Asked(m, p, k) \subseteq Asked(m, p, k + 1)
  <2>1. k + 1 \in Nat /\ k <= k + 1
    BY <1>2
  <2> QED
    BY <1>2, <2>1, AskedGrows
<1>4. job'.model = m /\ job'.part = p /\ job'.at = k + 1
  BY <1>1
<1>5. CASE q8' = q8
  BY <1>2, <1>3, <1>4, <1>5 DEF Promised
<1>6. CASE Now.do = "q8" /\ q8'.bytes = Q8Need(Now.n)
  <2>1. q8'.bytes \in Asked(m, p, k + 1)
    BY <1>2, <1>6, AskedByStep
  <2> QED
    BY <1>2, <1>4, <2>1 DEF Promised
<1> QED
  BY <1>5, <1>6

LEMMA NextPartKeepsPromise ==
  ASSUME IInv, Promised, NextPart PROVE Promised'
<1> DEFINE m == job.model
           p == job.part
<1>1. Loading /\ ~Working /\ p < 3 /\ UNCHANGED <<rivals, q8, squeezed>>
  BY DEF NextPart
<1>2. job' = [model |-> m, part |-> p + 1, at |-> 1, mark |-> tracked]
  BY DEF NextPart, IInv, JobIsRecord
<1>3. m \in Models /\ p \in 1 .. 2 /\ job # NoJob
  BY <1>1, PartDone
<1>4. Asked(m, p, job.at) \subseteq Asked(m, p + 1, 1)
  BY <1>3, AskedIsHandedOn
<1>5. job'.model = m /\ job'.part = p + 1 /\ job'.at = 1
  BY <1>2
<1> QED
  BY <1>1, <1>3, <1>4, <1>5 DEF Promised

(* The promise is made by check.                                           *)
LEMMA EnsureKeepsCovered ==
  ASSUME Books, NEW m \in Models, Ensure(m) PROVE Covered'
<1>1. squeezed' = FALSE /\ starved' = FALSE /\ UNCHANGED <<rivals, q8>>
  BY DEF Ensure
<1>2. AdmittedLoadsFit'
  BY <1>1 DEF AdmittedLoadsFit
<1>3. CASE job' = NoJob
  BY <1>2, <1>3 DEF Covered, Promised
<1>4. CASE job' # NoJob
  <2>1. check(m) /\ job' = [NoJob EXCEPT !.model = m]
    BY <1>4 DEF Ensure
  <2>2. job'.model = m
    BY <2>1 DEF NoJob
  <2>3. Bill[m] + Headroom <= Vram - rivals - q8.bytes
    BY <2>1 DEF check, Free0
  <2>4. q8.bytes \in Nat /\ q8.bytes <= q8.bytes
    BY DEF Books, Typed
  <2> QED
    BY <1>1, <1>2, <2>2, <2>3, <2>4 DEF Covered, Promised
<1> QED
  BY <1>3, <1>4

LEMMA RivalKeepsCovered ==
  ASSUME IInv, Books, Covered, Rival PROVE Covered'
<1>1. /\ rivals' \in Rivals /\ squeezed' = (squeezed \/ (rivals' > rivals))
      /\ UNCHANGED <<q8, job, starved>>
  BY DEF Rival
<1>2. AdmittedLoadsFit'
  BY <1>1 DEF Covered, AdmittedLoadsFit
<1>3. ASSUME job' # NoJob, ~squeezed'
      PROVE  \E old \in Nat : /\ Bill[job.model] + Headroom <= Vram - rivals' - old
                              /\ \/ q8.bytes <= old
                                 \/ q8.bytes \in Asked(job.model, job.part, job.at)
  <2>1. PICK old \in Nat : /\ Bill[job.model] + Headroom <= Vram - rivals - old
                           /\ \/ q8.bytes <= old
                              \/ q8.bytes \in Asked(job.model, job.part, job.at)
    BY <1>1, <1>3 DEF Covered, Promised
  <2>2. rivals \in Nat /\ rivals' \in Nat /\ Vram \in Nat /\ ~ (rivals' > rivals)
    BY <1>1, <1>3, ResidencyAssumption DEF Books, Typed
  <2>3. Bill[job.model] \in Nat /\ Headroom \in Nat
    BY <1>1, <1>3, PlanAssumption, ResidencyAssumption DEF IInv, JobInRange
  <2>4. Bill[job.model] + Headroom <= Vram - rivals' - old
    BY <2>1, <2>2, <2>3
  <2> QED
    BY <2>1, <2>4
<1> QED
  BY <1>1, <1>2, <1>3 DEF Covered, Promised
LEMMA NextKeepsCovered ==
  ASSUME IInv, Books, Covered, [Next]_vars, \A m \in Models : Covers(m) PROVE Covered'
<1>1. Promised /\ (starved => squeezed) /\ squeezed \in BOOLEAN /\ starved \in BOOLEAN
  BY DEF Covered, AdmittedLoadsFit, Books, Typed
<1>2. ASSUME Working PROVE job.model \in Models /\ Covers(job.model)
  BY <1>2, AtWork
<1>3. CASE FindTensor
  <2>1. Working /\ UNCHANGED <<rivals, q8, squeezed, starved>>
    BY <1>3 DEF FindTensor
  <2>2. Promised'
    BY <1>1, <1>3, <2>1, GiveUpKeepsPromise, AdvanceKeepsPromise DEF FindTensor
  <2> QED
    BY <1>1, <2>1, <2>2 DEF Covered, AdmittedLoadsFit
<1>4. CASE AllocBuffer
  <2>1. Working /\ Now.do = "alloc" /\ UNCHANGED <<rivals, q8, squeezed>>
    BY <1>4 DEF AllocBuffer
  <2>2. Promised'
    BY <1>1, <1>4, <2>1, GiveUpKeepsPromise, AdvanceKeepsPromise DEF AllocBuffer
  <2>3. ~squeezed => Now.n <= Available
    BY <1>1, <1>2, <2>1, NeverShort DEF Takes
  <2>4. starved' => starved \/ ~(Now.n <= Available)
    BY <1>4 DEF AllocBuffer
  <2> QED
    BY <1>1, <2>1, <2>2, <2>3, <2>4 DEF Covered, AdmittedLoadsFit
<1>5. CASE DropTemporary
  <2>1. Working /\ Advance /\ UNCHANGED <<rivals, q8, squeezed, starved>>
    BY <1>5 DEF DropTemporary
  <2>2. Promised'
    BY <1>1, <2>1, AdvanceKeepsPromise
  <2> QED
    BY <1>1, <2>1, <2>2 DEF Covered, AdmittedLoadsFit
<1>6. CASE EnsureQ8
  <2>1. Working /\ Now.do = "q8" /\ UNCHANGED <<rivals, squeezed>>
    BY <1>6 DEF EnsureQ8
  <2>2. \/ GiveUp("oom") /\ UNCHANGED q8
        \/ Advance /\ (q8' = q8 \/ q8'.bytes = Q8Need(Now.n))
    BY <1>6 DEF EnsureQ8
  <2>3. Promised'
    BY <1>1, <2>1, <2>2, GiveUpKeepsPromise, AdvanceKeepsPromise
  <2>4. ~squeezed => Q8Need(Now.n) <= Available
    BY <1>1, <1>2, <2>1, NeverShort DEF Takes
  <2>5. starved' => starved \/ ~(Q8Need(Now.n) <= Available)
    BY <1>6 DEF EnsureQ8
  <2> QED
    BY <1>1, <2>1, <2>3, <2>4, <2>5 DEF Covered, AdmittedLoadsFit
<1>7. CASE NextPart
  <2>1. UNCHANGED <<squeezed, starved>>
    BY <1>7 DEF NextPart
  <2> QED
    BY <1>1, <1>7, <2>1, NextPartKeepsPromise DEF Covered, AdmittedLoadsFit
<1>8. CASE Finish
  <2>1. job' = NoJob /\ UNCHANGED <<squeezed, starved>>
    BY <1>8 DEF Finish, Abandon
  <2> QED
    BY <1>1, <2>1 DEF Covered, Promised, AdmittedLoadsFit
<1>9. CASE Arm \/ UNCHANGED vars
  <2>1. UNCHANGED <<rivals, q8, job, squeezed, starved>>
    BY <1>9 DEF Arm, vars
  <2> QED
    BY <1>1, <2>1 DEF Covered, Promised, AdmittedLoadsFit
<1>10. CASE Rival
  BY <1>10, RivalKeepsCovered
<1>11. CASE \E m \in Models : Ensure(m)
  BY <1>11, EnsureKeepsCovered
<1> QED
  BY <1>3, <1>4, <1>5, <1>6, <1>7, <1>8, <1>9, <1>10, <1>11 DEF Next

(* VramForecast::check: where the forecast and the headroom cover a build  *)
(* step by step, a load that passed the check never runs out of memory     *)
(* unless another process took some meanwhile, whatever was loaded, failed *)
(* or left a wide scratch before it.                                       *)
THEOREM CoveredLoadsFit ==
  ASSUME \A m \in Models : Covers(m)
  PROVE  Spec => []AdmittedLoadsFit
<1>1. Init => Covered
  BY DEF Init, Covered, Promised, AdmittedLoadsFit
<1>2. IInv /\ Books /\ Covered /\ [Next]_vars => Covered'
  BY NextKeepsCovered
<1>3. Covered => AdmittedLoadsFit
  BY DEF Covered
<1> QED
  BY <1>1, <1>2, <1>3, SpecIInv, SpecBooks, PTL DEF Spec
--------------------------------------------------------------------------------
(* The q8 scratch only grows: it is as wide as each step of the text part  *)
(* asked for, whatever came after it.                                      *)
Wide(bytes, step) == step.do = "q8" => bytes >= (step.n \div 32) * 40
WideEnough ==
  /\ job # NoJob =>
       \A i \in 1 .. Len(Plan[job.model][1]) :
         (job.part = 1 => i < job.at) => Wide(q8.bytes, Plan[job.model][1][i])
  /\ resident # Nobody =>
       \A i \in 1 .. Len(Plan[resident][1]) : Wide(q8.bytes, Plan[resident][1][i])

LEMMA StepIsBytes ==
  ASSUME NEW m \in Models, NEW p \in 1 .. 3, NEW i \in 1 .. Len(Plan[m][p])
  PROVE  Plan[m][p][i].n \in Nat
BY PlanAssumption

LEMMA Q8NeverShrinks ==
  ASSUME IInv, Books, [Next]_vars
  PROVE  q8'.bytes \in Nat /\ q8.bytes <= q8'.bytes
<1>1. q8.bytes \in Nat /\ q8.gen \in Nat /\ (q8.gen = 0 => q8.bytes = 0)
  BY DEF Books, Typed
<1>2. CASE q8' = q8
  BY <1>1, <1>2
<1>3. CASE EnsureQ8 /\ q8' # q8
  <2>1. Working
    BY <1>3 DEF EnsureQ8
  <2>2. Now.n \in Nat
    BY <2>1, NowIsBytes
  <2>3. ~(q8.gen > 0 /\ q8.bytes >= (Now.n \div 32) * 40) /\ q8'.bytes = Q8Need(Now.n)
    BY <1>3 DEF EnsureQ8
  <2>4. /\ Q8Need(Now.n) \in Nat /\ (Now.n \div 32) * 40 \in Nat
        /\ Q8Need(Now.n) >= (Now.n \div 32) * 40
    BY <2>2, Q8NeedIsWide
  <2> QED
    BY <1>1, <2>3, <2>4
<1>4. CASE ~EnsureQ8
  <2>1. q8' = q8
    BY <1>4 DEF Next, vars, Rival, FindTensor, AllocBuffer, DropTemporary, NextPart, Finish,
       Arm, Ensure
  <2> QED
    BY <1>2, <2>1
<1> QED
  BY <1>2, <1>3, <1>4

LEMMA WideStays ==
  ASSUME IInv, Books, [Next]_vars, NEW m \in Models, NEW i \in 1 .. Len(Plan[m][1]),
         Wide(q8.bytes, Plan[m][1][i])
  PROVE  Wide(q8'.bytes, Plan[m][1][i])
<1> DEFINE need == (Plan[m][1][i].n \div 32) * 40
<1>1. need \in Nat
  <2>1. Plan[m][1][i].n \in Nat
    BY StepIsBytes
  <2> QED
    BY <2>1, Q8NeedIsWide
<1>2. q8.bytes \in Nat /\ q8'.bytes \in Nat /\ q8.bytes <= q8'.bytes
  BY Q8NeverShrinks DEF Books, Typed
<1>3. Plan[m][1][i].do = "q8" => q8.bytes >= need
  BY DEF Wide
<1> HIDE DEF need
<1>4. Plan[m][1][i].do = "q8" => q8'.bytes >= need
  BY <1>1, <1>2, <1>3
<1> QED
  BY <1>4 DEF Wide, need

(* A step of a build leaves the scratch as wide as it asked.               *)
LEMMA AdvanceIsWide ==
  ASSUME IInv, Books, Working, FindTensor \/ AllocBuffer \/ DropTemporary \/ EnsureQ8,
         Advance, lost' = lost
  PROVE  Wide(q8'.bytes, Now)
<1>1. CASE Now.do = "q8"
  <2>1. EnsureQ8
    BY <1>1 DEF FindTensor, AllocBuffer, DropTemporary
  <2>2. Now.n \in Nat
    BY NowIsBytes
  <2> DEFINE need == (Now.n \div 32) * 40
  <2>3. need \in Nat /\ Q8Need(Now.n) \in Nat /\ Q8Need(Now.n) >= need
    BY <2>2, Q8NeedIsWide
  <2>4. ~GiveUp("oom")
    <3>1. ~SkipTower
      BY AtWork DEF SkipTower
    <3>2. job'.model \in Models
      BY AtWork DEF Advance, IInv, JobIsRecord
    <3>3. ~Abandon("oom")
      BY <3>2, ResidencyAssumption DEF Abandon, NoJob
    <3> QED
      BY <3>1, <3>3 DEF GiveUp
  <2>5. (q8' = q8 /\ q8.bytes >= need) \/ q8'.bytes = Q8Need(Now.n)
    BY <2>1, <2>4 DEF EnsureQ8
  <2>6. q8'.bytes >= need
    BY <2>3, <2>5
  <2> QED
    BY <2>6 DEF Wide
<1> QED
  BY <1>1 DEF Wide
(* The load goes on, and every text step behind it was behind it before or *)
(* has just been made.                                                     *)
LEMMA LoadKeepsWide ==
  ASSUME IInv, Books, WideEnough, [Next]_vars, job # NoJob,
         job'.model = job.model, resident' = Nobody,
         \A i \in 1 .. Len(Plan[job.model][1]) :
           (job'.part = 1 => i < job'.at) =>
             (job.part = 1 => i < job.at) \/ Wide(q8'.bytes, Plan[job.model][1][i])
  PROVE  WideEnough'
<1> DEFINE m == job.model
<1>1. m \in Models
  BY DEF IInv, JobInRange
<1>2. ASSUME NEW i \in 1 .. Len(Plan[m][1]), job'.part = 1 => i < job'.at
      PROVE  Wide(q8'.bytes, Plan[m][1][i])
  <2>1. CASE job.part = 1 => i < job.at
    <3>1. Wide(q8.bytes, Plan[m][1][i])
      BY <2>1 DEF WideEnough
    <3> QED
      BY <1>1, <3>1, WideStays
  <2> QED
    BY <1>2, <2>1
<1> QED
  BY <1>2 DEF WideEnough

LEMMA GiveUpKeepsWide ==
  ASSUME IInv, Books, WideEnough, [Next]_vars, Working, NEW why, GiveUp(why)
  PROVE  WideEnough'
<1>1. CASE Abandon(why)
  BY <1>1 DEF Abandon, Evict, DropModel, WideEnough
<1>2. CASE job.part > 1 /\ SkipTower
  <2>1. job' = [model |-> job.model, part |-> job.part,
                at |-> Len(Plan[job.model][job.part]) + 1, mark |-> job.mark]
    BY <1>2 DEF SkipTower, IInv, JobIsRecord, Steps
  <2>2. job # NoJob /\ resident' = Nobody /\ job.part # 1
    BY <1>2, AtWork DEF SkipTower
  <2> QED
    BY <2>1, <2>2, LoadKeepsWide
<1> QED
  BY <1>1, <1>2 DEF GiveUp

LEMMA AdvanceKeepsWide ==
  ASSUME IInv, Books, WideEnough, [Next]_vars, Working,
         FindTensor \/ AllocBuffer \/ DropTemporary \/ EnsureQ8,
         Advance, UNCHANGED <<resident, lost>>
  PROVE  WideEnough'
<1>1. job' = [model |-> job.model, part |-> job.part, at |-> job.at + 1, mark |-> job.mark]
  BY DEF Advance, IInv, JobIsRecord
<1>2. /\ job # NoJob /\ resident' = Nobody /\ job.part \in 1 .. 3
      /\ job.at \in 1 .. Len(Plan[job.model][job.part])
      /\ Now = Plan[job.model][job.part][job.at]
  BY AtWork
<1>3. Wide(q8'.bytes, Now)
  BY AdvanceIsWide
<1>4. ASSUME NEW i \in 1 .. Len(Plan[job.model][1]), job'.part = 1 => i < job'.at
      PROVE  (job.part = 1 => i < job.at) \/ Wide(q8'.bytes, Plan[job.model][1][i])
  <2>1. CASE job.part = 1 /\ i = job.at
    BY <1>2, <1>3, <2>1
  <2>2. CASE ~(job.part = 1 /\ i = job.at)
    BY <1>1, <1>2, <1>4, <2>2
  <2> QED
    BY <2>1, <2>2
<1>5. job'.model = job.model
  BY <1>1
<1> QED
  BY <1>2, <1>4, <1>5, LoadKeepsWide

LEMMA NextKeepsWide ==
  ASSUME IInv, Books, WideEnough, [Next]_vars PROVE WideEnough'
<1>1. CASE FindTensor \/ AllocBuffer \/ DropTemporary \/ EnsureQ8
  <2>1. Working
    BY <1>1 DEF FindTensor, AllocBuffer, DropTemporary, EnsureQ8
  <2>2. \/ \E why \in Outcomes : GiveUp(why)
        \/ Advance /\ UNCHANGED <<resident, lost>>
    BY <1>1 DEF FindTensor, AllocBuffer, DropTemporary, EnsureQ8, Outcomes
  <2> QED
    BY <1>1, <2>1, <2>2, GiveUpKeepsWide, AdvanceKeepsWide
<1>2. CASE NextPart
  <2>1. Loading /\ ~Working /\ UNCHANGED resident
    BY <1>2 DEF NextPart
  <2>2. job' = [model |-> job.model, part |-> job.part + 1, at |-> 1, mark |-> tracked]
    BY <1>2 DEF NextPart, IInv, JobIsRecord
  <2>3. /\ job # NoJob /\ job.model \in Models /\ job.part \in 1 .. 3 /\ resident = Nobody
        /\ job.at \in 1 .. Len(Plan[job.model][job.part]) + 1
    BY <2>1, PartDone DEF IInv, JobInRange
  <2>4. Len(Plan[job.model][job.part]) \in Nat
    BY <2>3, PlanAssumption
  <2>5. job.at = Len(Plan[job.model][job.part]) + 1
    BY <2>1, <2>3, <2>4 DEF Working, Steps
  <2>6. ASSUME NEW i \in 1 .. Len(Plan[job.model][1]) PROVE job.part = 1 => i < job.at
    BY <2>4, <2>5
  <2> QED
    BY <2>1, <2>2, <2>3, <2>6, LoadKeepsWide
<1>3. CASE Finish
  <2>1. Loading /\ ~Working /\ job.part = 3
    BY <1>3 DEF Finish
  <2>2. CASE ~Card1.words
    BY <1>3, <2>2 DEF Finish, Abandon, Evict, DropModel, WideEnough
  <2>3. CASE Card1.words
    <3>1. resident' = job.model /\ job' = NoJob /\ q8' = q8
      BY <1>3, <2>3 DEF Finish
    <3>2. job # NoJob
      BY <2>1, PartDone
    <3>3. \A i \in 1 .. Len(Plan[job.model][1]) : Wide(q8.bytes, Plan[job.model][1][i])
      BY <2>1, <3>2 DEF WideEnough
    <3> QED
      BY <3>1, <3>3 DEF WideEnough
  <2> QED
    BY <2>2, <2>3
<1>4. CASE \E m \in Models : Ensure(m)
  <2>1. resident' = Nobody /\ (job' = NoJob \/ (job'.part = 1 /\ job'.at = 1))
    BY <1>4 DEF Ensure, Evict, DropModel, NoJob
  <2>2. ASSUME NEW i \in 1 .. Len(Plan[job'.model][1]) PROVE ~(i < 1)
    OBVIOUS
  <2> QED
    BY <2>1, <2>2 DEF WideEnough
<1>5. CASE Rival \/ Arm \/ UNCHANGED vars
  <2>1. UNCHANGED <<q8, job, resident>>
    BY <1>5 DEF Rival, Arm, vars
  <2> QED
    BY <2>1 DEF WideEnough
<1> QED
  BY <1>1, <1>2, <1>3, <1>4, <1>5 DEF Next

LEMMA SpecWideEnough == Spec => []WideEnough
<1>1. Init => WideEnough
  BY DEF Init, WideEnough
<1> QED
  BY <1>1, NextKeepsWide, SpecIInv, SpecBooks, PTL DEF Spec

(* A buffer that the text part keeps is there for the resident model, in   *)
(* the size of its plan.                                                   *)
LEMMA KeepsIsHeld ==
  ASSUME IInv, Books, resident # Nobody, NEW buf, Keeps(resident, buf)
  PROVE  <<1, buf>> \in DOMAIN held /\ held[<<1, buf>>] = SizeOf(Plan[resident][1], buf)
<1>1. job = NoJob
  BY DEF IInv, JobInRange
<1>2. 1 \in {1, 2, 3} \ lost
  BY DEF Books, Typed
<1>3. <<1, buf>> \in DOMAIN held
  BY <1>1, <1>2 DEF IInv, IdleHeld, HeldIsTheModel, Keeps
<1> QED
  BY <1>3 DEF Books, Sizes, Sized

(* The width of a row of blocks grows with its elements.                   *)
LEMMA WidthsGrow ==
  ASSUME NEW k \in Nat, NEW n \in Nat, n >= k
  PROVE  (n \div 32) * 40 >= (k \div 32) * 40
BY Z3

(* What a pass of the resident model takes for granted holds, for every    *)
(* card whose text part serves it: through failing towers, other models'   *)
(* loads and evictions before it, and for every layer that shares a cache. *)
THEOREM ServedModelsRun ==
  ASSUME \A m \in Models : Serves(m)
  PROVE  Spec => []FitToRun
<1>1. ASSUME IInv, Books, WideEnough, resident # Nobody
      PROVE  FitToRun
  <2> DEFINE m == resident
             c == Card[m]
  <2>1. m \in Models /\ Serves(m)
    BY <1>1 DEF Books, Typed
  <2>2. ScratchHolds
    <3> SUFFICES ASSUME ScratchNeeded(c) > 0
                 PROVE  held[ScratchOf(m)] >= ScratchNeeded(c)
      BY DEF ScratchHolds
    <3> DEFINE buf == ScratchOf(m)[2]
    <3>1. ScratchOf(m) = <<1, buf>>
      BY DEF ScratchOf
    <3>2. Keeps(m, buf) /\ SizeOf(Plan[m][1], buf) >= ScratchNeeded(c)
      BY <2>1 DEF Serves
    <3>3. held[<<1, buf>>] = SizeOf(Plan[m][1], buf)
      BY <1>1, <3>2, KeepsIsHeld
    <3> QED
      BY <3>1, <3>2, <3>3
  <2>3. CaptureIsQuiet
    <3> SUFFICES ASSUME NEW t \in Packed(c), t.store = "block"
                 PROVE  q8.bytes >= (t.k \div 32) * 40
      BY DEF CaptureIsQuiet
    <3>1. t.k \in Nat
      BY <2>1 DEF Serves
    <3>2. PICK i \in 1 .. Len(Plan[m][1]) : /\ Plan[m][1][i].do = "q8"
                                            /\ Plan[m][1][i].n >= t.k
      BY <2>1 DEF Serves
    <3>3. Plan[m][1][i].n \in Nat
      BY <2>1, StepIsBytes
    <3>4. q8.bytes >= (Plan[m][1][i].n \div 32) * 40
      BY <1>1, <3>2 DEF WideEnough, Wide
    <3>5. /\ (t.k \div 32) * 40 \in Nat /\ (Plan[m][1][i].n \div 32) * 40 \in Nat
          /\ (Plan[m][1][i].n \div 32) * 40 >= (t.k \div 32) * 40
      BY <3>1, <3>2, <3>3, WidthsGrow, Q8NeedIsWide
    <3>6. q8.bytes \in Nat
      BY <1>1 DEF Books, Typed
    <3> QED
      BY <3>4, <3>5, <3>6
  <2>4. SharedReadsFilled
    <3> SUFFICES ASSUME c.arch = "gemma4", NEW l \in 1 .. Layers(c)
                 PROVE  LET src == KvSource(c.types, FirstShared(c), l) IN
                        /\ src <= l
                        /\ <<1, <<src, "k_cache">>>> \in DOMAIN held
                        /\ held[<<1, <<src, "k_cache">>>>] = CacheBytes(c, l)
      BY DEF SharedReadsFilled
    <3> DEFINE first == FirstShared(c)
               src == KvSource(c.types, first, l)
    <3>1. /\ c.types \in Seq(Attention) /\ first \in 1 .. Layers(c) + 1
          /\ Shareable(c.types, first)
          /\ \A i \in 1 .. first - 1 :
               /\ Keeps(m, <<i, "k_cache">>)
               /\ SizeOf(Plan[m][1], <<i, "k_cache">>) = CacheBytes(c, i)
      BY <2>1 DEF Serves
    <3>2. Layers(c) = Len(c.types) /\ Layers(c) \in Nat
      BY <3>1 DEF Layers
    <3>3. src \in 1 .. first - 1 /\ src <= l /\ c.types[src] = c.types[l]
      <4>1. CASE l < first
        BY <3>1, <3>2, <4>1 DEF KvSource
      <4>2. CASE ~(l < first)
        <5>1. first \in Nat \ {0} /\ first <= Len(c.types) + 1 /\ l \in first .. Len(c.types)
          BY <3>1, <3>2, <4>2
        <5>2. src \in Computing(c.types, first, c.types[l]) /\ src < l /\ c.types[src] = c.types[l]
          BY <3>1, <5>1, SharedLayerReadsTheLatest
        <5> QED
          BY <3>2, <5>1, <5>2 DEF Computing
      <4> QED
        BY <4>1, <4>2
    <3>4. CacheBytes(c, src) = CacheBytes(c, l)
      BY <3>3 DEF CacheBytes, Kvh, Hd
    <3>5. Keeps(m, <<src, "k_cache">>) /\ SizeOf(Plan[m][1], <<src, "k_cache">>) = CacheBytes(c, src)
      BY <3>1, <3>3
    <3>6. /\ <<1, <<src, "k_cache">>>> \in DOMAIN held
          /\ held[<<1, <<src, "k_cache">>>>] = SizeOf(Plan[m][1], <<src, "k_cache">>)
      BY <1>1, <3>5, KeepsIsHeld
    <3> QED
      BY <3>3, <3>4, <3>5, <3>6
  <2> QED
    BY <2>2, <2>3, <2>4 DEF FitToRun
<1>2. ASSUME resident = Nobody PROVE FitToRun
  BY <1>2 DEF FitToRun, ScratchHolds, CaptureIsQuiet, SharedReadsFilled
<1>3. IInv /\ Books /\ WideEnough => FitToRun
  BY <1>1, <1>2
<1> QED
  BY <1>3, SpecIInv, SpecBooks, SpecWideEnough, PTL
================================================================================
