------------------------------- MODULE Residency -------------------------------
(* One model at a time in the memory of the device: ModelManager::ensure,  *)
(* load and evict, the forecast that admits a load, the steps of the       *)
(* builders, what a failure hands back, and the q8 scratch, which belongs  *)
(* to the context and outlives the models.  Everything here runs under the *)
(* manager's lock; only other processes move in between.                   *)
EXTENDS Builders, KvShare, FiniteSets

CONSTANTS
  Models,      \* what ./models holds
  Card,        \* per model the facts of its checkpoint and configuration
  Vram,        \* bytes of the device
  Rivals,      \* bytes that other processes hold, at one time or another
  Headroom,    \* HEADROOM of VramForecast::check
  Q8Floor,     \* the least bytes of the q8 scratch
  Nobody

ASSUME ResidencyAssumption ==
  /\ Models # {} /\ Nobody \notin Models /\ Rivals # {}
  /\ Vram \in Nat /\ Headroom \in Nat /\ Q8Floor \in Nat
  /\ \A r \in Rivals : r \in Nat /\ r <= Vram

VARIABLES
  rivals,      \* bytes others hold now
  held,        \* per buffer of the engine its bytes
  tracked,     \* DEVICE_BYTES, the scratch aside
  q8,          \* the scratch: its bytes and how often it was replaced
  resident,    \* ModelManager::current
  job,         \* the load under way: the model, the part, the next step
  lost,        \* towers the resident model goes without
  graph,       \* the scratch a captured decode step points into; 0: none
  outcome,     \* how the last load ended
  squeezed,    \* others took memory since the last load was admitted
  starved      \* an allocation failed since then

vars == <<rivals, held, tracked, q8, resident, job, lost, graph, outcome, squeezed, starved>>

NoJob == [model |-> Nobody, part |-> 1, at |-> 1, mark |-> 0]
Outcomes == {"none", "loaded", "refused", "broken", "oom"}
Plan == [m \in Models |-> build(Card[m])]
Bill == [m \in Models |-> forecast(Card[m])]
Empty == [b \in {} |-> 0]

(* The bytes that the buffers of a part take before each of its steps, a   *)
(* temporary counted until it is dropped.                                  *)
SizeOf(s, buf) == s[CHOOSE j \in 1 .. Len(s) : s[j].do = "alloc" /\ s[j].buf = buf].n
Change(s, k) ==
  CASE s[k].do = "alloc" -> s[k].n
    [] s[k].do = "free" -> 0 - SizeOf(s, s[k].buf)
    [] OTHER -> 0
Curve(s) ==
  LET Step == 1 .. Len(s) + 1
      sum[span \in Step \X Step] ==   \* of the steps from a up to b, by halves
        LET a == span[1] b == span[2] mid == (a + b) \div 2 IN
        CASE b <= a -> 0
          [] b = a + 1 -> Change(s, a)
          [] OTHER -> sum[<<a, mid>>] + sum[<<mid, b>>]
  IN [k \in Step |-> sum[<<1, k>>]]
Load == [m \in Models |-> [p \in 1 .. 3 |-> Curve(Plan[m][p])]]

(* A build is a sequence of steps that allocates each buffer once, and     *)
(* frees once, and only what it allocated.                                 *)
ASSUME PlanAssumption ==
  \A m \in Models :
    /\ Card[m].arch \in {"std", "gemma4"} /\ Bill[m] \in Nat
    /\ \A p \in 1 .. 3 :
         LET s == Plan[m][p] IN
         /\ Len(s) \in Nat /\ DOMAIN s = 1 .. Len(s)
         /\ \A i \in 1 .. Len(s) : s[i].n \in Nat /\ Load[m][p][i + 1] \in Nat
         /\ \A i, j \in 1 .. Len(s) :
              s[i].do = s[j].do /\ s[i].do \in {"alloc", "free"} /\ s[i].buf = s[j].buf
                => i = j
         /\ \A i \in 1 .. Len(s) : s[i].do = "free" =>
              \E j \in 1 .. i - 1 : s[j].do = "alloc" /\ s[j].buf = s[i].buf

Free0 == Vram - rivals - q8.bytes
Available == Free0 - tracked
Without(bs) == [b \in DOMAIN held \ bs |-> held[b]]
OfPart(p) == {b \in DOMAIN held : b[1] = p}
Q8Need(k) == Max({(k \div 32) * 40, Q8Floor})

Init ==
  /\ rivals \in Rivals
  /\ held = Empty /\ tracked = 0 /\ q8 = [bytes |-> 0, gen |-> 0]
  /\ resident = Nobody /\ job = NoJob /\ lost = {} /\ graph = 0
  /\ outcome = "none" /\ squeezed = FALSE /\ starved = FALSE

(* Another process allocates or frees.                                     *)
Rival ==
  /\ rivals' \in {r \in Rivals \ {rivals} : Vram - r >= q8.bytes + tracked}
  /\ squeezed' = (squeezed \/ (rivals' > rivals))
  /\ UNCHANGED <<held, tracked, q8, resident, job, lost, graph, outcome, starved>>
--------------------------------------------------------------------------------
(* ensure: evict, then load.                                               *)

(* Dropping the model drops its buffers and its graphs.                    *)
DropModel ==
  held' = Empty /\ tracked' = 0 /\ lost' = {} /\ resident' = Nobody
EvictGraphStays == DropModel /\ UNCHANGED graph
Evict == DropModel /\ graph' = 0

(* The configuration, the container and, before gemma4's gguf is built,    *)
(* the tokenizer; then the fit on the device and in the host's memory.     *)
Opens(c) == c.opens /\ (c.arch = "gemma4" /\ c.codec = "gguf" => c.words)
checkTight(m) == Bill[m] <= Free0
check(m) == Bill[m] + Headroom <= Free0

Ensure(m) ==
  /\ job = NoJob /\ resident # m
  /\ Evict
  /\ squeezed' = FALSE /\ starved' = FALSE
  /\ \E host_guard \in BOOLEAN :
       IF Opens(Card[m]) /\ check(m) /\ host_guard
       THEN job' = [NoJob EXCEPT !.model = m] /\ outcome' = "none"
       ELSE job' = NoJob /\ outcome' = "refused"
  /\ UNCHANGED <<rivals, q8>>

Loading == job # NoJob
Card1 == Card[job.model]
Steps == Plan[job.model][job.part]
Working == Loading /\ job.at <= Len(Steps)
Now == Steps[job.at]
Advance == job' = [job EXCEPT !.at = @ + 1]

(* Dropping what was built: the whole model, or the one tower of a gemma4. *)
Abandon(why) ==
  /\ Evict /\ job' = NoJob /\ outcome' = why
SkipTower ==
  /\ held' = Without(OfPart(job.part)) /\ tracked' = job.mark
  /\ lost' = lost \cup {job.part}
  /\ job' = [job EXCEPT !.at = Len(Steps) + 1]
  /\ UNCHANGED <<resident, graph, outcome>>
GiveUpAnyPart(why) == Abandon(why)
GiveUpLeaky(why) ==
  IF job.part > 1 /\ Card1.arch = "gemma4"
  THEN /\ lost' = lost \cup {job.part} /\ job' = [job EXCEPT !.at = Len(Steps) + 1]
       /\ UNCHANGED <<held, tracked, resident, graph, outcome>>
  ELSE Abandon(why)
GiveUp(why) ==
  IF job.part > 1 /\ Card1.arch = "gemma4" THEN SkipTower ELSE Abandon(why)

Absent == <<job.part, Now.buf>> \in Card1.lacks
Hold(b, n) ==
  /\ held' = [x \in DOMAIN held \cup {b} |-> IF x = b THEN n ELSE held[x]]
  /\ tracked' = tracked + n

FindTensor ==
  /\ Working /\ Now.do = "find"
  /\ IF Absent THEN GiveUp("broken")
     ELSE Advance /\ UNCHANGED <<held, tracked, resident, lost, graph, outcome>>
  /\ UNCHANGED <<rivals, q8, squeezed, starved>>

AllocBuffer ==
  /\ Working /\ Now.do = "alloc"
  /\ IF Now.n <= Available
     THEN /\ Hold(<<job.part, Now.buf>>, Now.n) /\ Advance
          /\ UNCHANGED <<resident, lost, graph, outcome, starved>>
     ELSE GiveUp("oom") /\ starved' = TRUE
  /\ UNCHANGED <<rivals, q8, squeezed>>

DropTemporary ==
  /\ Working /\ Now.do = "free"
  /\ held' = Without({<<job.part, Now.buf>>})
  /\ tracked' = tracked - held[<<job.part, Now.buf>>] /\ Advance
  /\ UNCHANGED <<rivals, q8, resident, lost, graph, outcome, squeezed, starved>>

EnsureQ8Once ==
  /\ Working /\ Now.do = "q8"
  /\ IF q8.gen > 0
     THEN Advance /\ UNCHANGED <<q8, held, tracked, resident, lost, graph, outcome, starved>>
     ELSE IF Q8Need(Now.n) <= Available
     THEN /\ q8' = [bytes |-> Q8Need(Now.n), gen |-> q8.gen + 1] /\ Advance
          /\ UNCHANGED <<held, tracked, resident, lost, graph, outcome, starved>>
     ELSE GiveUp("oom") /\ starved' = TRUE /\ UNCHANGED q8
  /\ UNCHANGED <<rivals, squeezed>>
(* The new scratch is there before the old one goes.                       *)
EnsureQ8 ==
  /\ Working /\ Now.do = "q8"
  /\ LET need == (Now.n \div 32) * 40 IN
     IF q8.gen > 0 /\ q8.bytes >= need
     THEN Advance /\ UNCHANGED <<q8, held, tracked, resident, lost, graph, outcome, starved>>
     ELSE IF Q8Need(Now.n) <= Available
     THEN /\ q8' = [bytes |-> Q8Need(Now.n), gen |-> q8.gen + 1] /\ Advance
          /\ UNCHANGED <<held, tracked, resident, lost, graph, outcome, starved>>
     ELSE GiveUp("oom") /\ starved' = TRUE /\ UNCHANGED q8
  /\ UNCHANGED <<rivals, squeezed>>

NextPart ==
  /\ Loading /\ ~Working /\ job.part < 3
  /\ job' = [job EXCEPT !.part = @ + 1, !.at = 1, !.mark = tracked]
  /\ UNCHANGED <<rivals, held, tracked, q8, resident, lost, graph, outcome, squeezed, starved>>

(* The tokenizer of the other loads comes last.                            *)
Finish ==
  /\ Loading /\ ~Working /\ job.part = 3
  /\ IF Card1.words
     THEN /\ resident' = job.model /\ job' = NoJob /\ outcome' = "loaded"
          /\ UNCHANGED <<held, tracked, lost, graph>>
     ELSE Abandon("broken")
  /\ UNCHANGED <<rivals, q8, squeezed, starved>>
--------------------------------------------------------------------------------
(* arm_decode_graph: the step is recorded with the addresses of the moment *)

Arm ==
  /\ resident # Nobody /\ graph = 0 /\ q8.gen > 0
  /\ graph' = q8.gen
  /\ UNCHANGED <<rivals, held, tracked, q8, resident, job, lost, outcome, squeezed, starved>>

Next ==
  \/ Rival \/ FindTensor \/ AllocBuffer \/ DropTemporary \/ EnsureQ8 \/ NextPart
  \/ Finish \/ Arm
  \/ \E m \in Models : Ensure(m)

Spec == Init /\ [][Next]_vars
--------------------------------------------------------------------------------
(* Properties.                                                             *)

TypeOK ==
  /\ rivals \in Rivals
  /\ \A b \in DOMAIN held : held[b] \in Nat /\ b[1] \in 1 .. 3
  /\ tracked \in Nat
  /\ q8 \in [bytes : Nat, gen : Nat]
  /\ resident \in Models \cup {Nobody}
  /\ job \in [model : Models \cup {Nobody}, part : 1 .. 3, at : Nat, mark : Nat]
  /\ lost \subseteq {2, 3} /\ graph \in Nat /\ outcome \in Outcomes
  /\ squeezed \in BOOLEAN /\ starved \in BOOLEAN

(* The forecast covers the build: a load that passed the check runs out of *)
(* memory only when another process took some in between.  ("the model     *)
(* never partially occupies the GPU", transformer.rs:299.)                 *)
AdmittedLoadsFit == starved => squeezed

(* The buffers a part of a build leaves behind.                            *)
Kept(m, p) ==
  LET s == Plan[m][p]
      named(do) == {s[i].buf : i \in {j \in DOMAIN s : s[j].do = do}}
  IN {<<p, b>> : b \in named("alloc") \ named("free")}

(* The engine holds what the resident model is made of and nothing else:   *)
(* no staging buffer, no source of a fused copy, no half-built tower, and  *)
(* nothing at all of a load that failed.                                   *)
HeldIsTheModel ==
  job = NoJob =>
    DOMAIN held = IF resident = Nobody THEN {}
                  ELSE UNION {Kept(resident, p) : p \in {1, 2, 3} \ lost}

(* A prefill GEMM dequantizes a packed weight into the scratch of its      *)
(* model; the largest one must fit: for a standard model one row of it,    *)
(* for a gemma4 the whole, towers included (mod.rs:262).                   *)
ScratchOf(m) == IF Card[m].arch = "std" THEN <<1, <<0, "dq">>>> ELSE <<1, <<0, "wsc">>>>
ScratchHolds ==
  resident # Nobody /\ ScratchNeeded(Card[resident]) > 0 =>
    held[ScratchOf(resident)] >= ScratchNeeded(Card[resident])

(* No allocation inside a capture: the scratch is already wide enough for  *)
(* the rows of every packed weight of the resident model.                  *)
CaptureIsQuiet ==
  resident # Nobody =>
    \A t \in {u \in Packed(Card[resident]) : u.store = "block"} :
      q8.bytes >= (t.k \div 32) * 40

(* A layer without a cache reads one that its own model holds, of its own  *)
(* geometry, and that an earlier layer of the same pass has filled.        *)
SharedReadsFilled ==
  resident # Nobody /\ Card[resident].arch = "gemma4" =>
    LET c == Card[resident] IN
    \A l \in 1 .. Layers(c) :
      LET src == KvSource(c.types, FirstShared(c), l) IN
      /\ src <= l
      /\ <<1, <<src, "k_cache">>>> \in DOMAIN held
      /\ held[<<1, <<src, "k_cache">>>>] = CacheBytes(c, l)

(* What a forward pass of the resident model takes for granted: kernels    *)
(* get bare pointers and check nothing.                                    *)
FitToRun == ScratchHolds /\ CaptureIsQuiet /\ SharedReadsFilled

--------------------------------------------------------------------------------
(* What a card promises.  None of it is a property of the code for every   *)
(* card: a wide fused layer is not covered (see Fat in MCResidency).       *)

(* The bytes of the whole parts before p, and the widths of the scratch    *)
(* that the steps before step k of p asked for.                            *)
Below(m, p) ==
  LET whole(q) == IF q < p THEN Load[m][q][Len(Plan[m][q]) + 1] ELSE 0 IN whole(1) + whole(2)
Asked(m, p, k) ==
  {0} \cup UNION {{Q8Need(Plan[m][q][i].n) :
                    i \in {j \in DOMAIN Plan[m][q] : Plan[m][q][j].do = "q8" /\ (q = p => j < k)}} :
                  q \in 1 .. p}
Takes(step) == IF step.do = "q8" THEN Q8Need(step.n) ELSE step.n

(* The forecast and the headroom cover every step of the build, beside any *)
(* scratch that an earlier step left.                                      *)
Covers(m) ==
  \A p \in 1 .. 3 : \A k \in 1 .. Len(Plan[m][p]) :
    Plan[m][p][k].do \in {"alloc", "q8"} =>
      \A w \in Asked(m, p, k) :
        Below(m, p) + Load[m][p][k] + w + Takes(Plan[m][p][k]) <= Bill[m] + Headroom

(* The text part makes room for what a pass of the whole model needs.      *)
Keeps(m, buf) == <<1, buf>> \in Kept(m, 1)
Serves(m) ==
  LET c == Card[m] text == Plan[m][1] IN
  /\ ScratchNeeded(c) > 0 =>
       Keeps(m, ScratchOf(m)[2]) /\ SizeOf(text, ScratchOf(m)[2]) >= ScratchNeeded(c)
  /\ \A t \in Packed(c) : t.store = "block" =>
       /\ t.k \in Nat
       /\ \E i \in 1 .. Len(text) : text[i].do = "q8" /\ text[i].n >= t.k
  /\ c.arch = "gemma4" =>
       /\ c.types \in Seq(Attention) /\ FirstShared(c) \in 1 .. Layers(c) + 1
       /\ Shareable(c.types, FirstShared(c))
       /\ \A l \in 1 .. FirstShared(c) - 1 :
            Keeps(m, <<l, "k_cache">>) /\ SizeOf(text, <<l, "k_cache">>) = CacheBytes(c, l)
--------------------------------------------------------------------------------
(* A captured step never points into a scratch that has been replaced.     *)
GraphPointsToScratch == graph # 0 => graph = q8.gen

(* A tower of a gemma4 that fails, for a missing tensor or for memory,     *)
(* never takes the text model with it.                                     *)
TextOutlivesTowers ==
  [][(Loading /\ job'.model = Nobody /\ resident' = Nobody)
       => (job.part = 1 \/ Card1.arch = "std" \/ ~Card1.words)]_vars

================================================================================
