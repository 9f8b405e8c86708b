------------------------------ MODULE StoreProofs ------------------------------
(***************************************************************************)
(* The directories of one repository, for any listing, selectors, users,   *)
(* list of required models and any number of crashes.                      *)
(*                                                                         *)
(* IInv says of every pull what it has put down so far (Laid), and of the  *)
(* startup pull what it has seen so far (Seen).  Both hold only as long as *)
(* nobody removes files: a pull knows nothing of deletions after its       *)
(* create_dir_all, and no lock keeps them apart.                           *)
(***************************************************************************)
EXTENDS Store, TLAPS, WellFoundedInduction

File == [name : STRING, kind : Kinds, has : SUBSET Tags,
         label : Selectors, length : Nat, rank : 0 .. 3]

Listed == {hub[i] : i \in DOMAIN hub}

(* Chosen, of a listing that is a parameter.                               *)
Lines(h, inc) ==
  LET keep == Best({h[i] : i \in {j \in DOMAIN h : wanted(h[j], inc)}})
  IN {i \in DOMAIN h : h[i] \in keep}

Locals == [pc : Pcs, sel : Selectors, place : Selectors, inc : Filters, cli : BOOLEAN,
           force : BOOLEAN, todo : SUBSET DOMAIN hub, clean : BOOLEAN,
           victims : SUBSET Listed, swept : SUBSET Selectors]

(* Types.                                                                  *)
HubTyped == hub \in Hubs
DiskTyped == made \subseteq Selectors /\ dir \in [Selectors -> SUBSET Listed]
ThreadsTyped == thr \in [Threads -> Locals]
BootLocals == [i : 1 .. Len(Required) + 1, attempt : 0 .. MaxAttempts, done : BOOLEAN,
               failed : BOOLEAN, kept : BOOLEAN]
BootTyped == boot \in BootLocals
NoDirNoFiles == \A s \in Selectors \ made : dir[s] = {}
BootAtWork == thr[Boot].pc # "idle" => boot.i <= Len(Required)

Typed == HubTyped /\ DiskTyped /\ ThreadsTyped /\ BootTyped /\ NoDirNoFiles /\ BootAtWork

(* Only the command line and the removals work elsewhere than where the    *)
(* selector says.                                                          *)
Placed(t) ==
  (t = Boot \/ thr[t].pc \in {"gate", "config", "mkdir", "list", "fetch", "ok"}) /\ ~ thr[t].cli
    => thr[t].place = thr[t].sel

(* Between create_dir_all and the answer the directory is there and holds  *)
(* every chosen file that is not still to come.                            *)
Laid(t) ==
  thr[t].clean =>
    /\ thr[t].pc \in {"list", "fetch", "ok"} => thr[t].place \in made
    /\ thr[t].pc \in {"fetch", "ok"} =>
         \A i \in Lines(hub, thr[t].inc) : i \in thr[t].todo \/ hub[i] \in dir[thr[t].place]
    /\ thr[t].pc = "ok" => thr[t].todo = {}

Pull(t) == Placed(t) /\ Laid(t)

(* What the startup pull has gone past was local then and still is.        *)
Local(d, s) == dir_holds_model(d[s], s) \/ dir_holds_model(d[NoTag], s)
Seen ==
  boot.kept =>
    /\ \A i \in DOMAIN Required : i < boot.i => Local(dir, Required[i])
    /\ boot.done => boot.i = Len(Required) + 1

AllPulls == \A t \in Threads : Pull(t)

IInv == Typed /\ AllPulls /\ Seen
--------------------------------------------------------------------------------
(* Listings.                                                               *)

LEMMA LeastExists ==
  ASSUME NEW S \in SUBSET Nat, S # {}
  PROVE  \E m \in S : \A n \in S : m <= n
<1> DEFINE R == OpToRel(<, Nat)
<1>1. IsWellFoundedOn(R, Nat)
  BY NatLessThanWellFounded
<1>2. PICK m \in S : \A n \in S : ~ (<<n, m>> \in R)
  <2> HIDE DEF R
  <2> QED
    BY <1>1, WFMin
<1>3. ASSUME NEW n \in S PROVE m <= n
  <2>1. m \in Nat /\ n \in Nat /\ ~ (n < m)
    BY <1>2 DEF OpToRel
  <2> QED
    BY <2>1
<1> QED
  BY <1>3

LEMMA FirstIsMember ==
  ASSUME NEW S \in SUBSET Nat, S # {}
  PROVE  First(S) \in S
BY LeastExists DEF First

LEMMA ListingTyped ==
  ASSUME HubTyped
  PROVE  /\ hub \in Seq(File) /\ DOMAIN hub \in SUBSET Nat
         /\ \A i \in DOMAIN hub : hub[i] \in File
<1>1. hub \in Seq(File)
  BY StoreAssumption DEF HubTyped, File
<1> QED
  BY <1>1

LEMMA ChosenIsLines ==
  ASSUME NEW inc
  PROVE  Chosen(inc) = Lines(hub, inc) /\ Lines(hub, inc) \subseteq DOMAIN hub
BY DEF Chosen, Lines

LEMMA FetchesALine ==
  ASSUME HubTyped, NEW todo \in SUBSET DOMAIN hub, todo # {}
  PROVE  First(todo) \in todo /\ First(todo) \in DOMAIN hub /\ hub[First(todo)] \in Listed
<1>1. First(todo) \in todo
  BY ListingTyped, FirstIsMember
<1> QED
  BY <1>1 DEF Listed

LEMMA Selection ==
  /\ NoTag \in Selectors /\ Selectors \subseteq Filters /\ AnyGguf \in Filters
  /\ Boot \in Threads /\ Users \subseteq Threads
  /\ AnyGguf \notin Selectors
BY StoreAssumption DEF Selectors, Filters, Threads

LEMMA IdleTyped == Idle \in Locals
BY Selection DEF Idle, Locals, Pcs
--------------------------------------------------------------------------------
(* Types.                                                                  *)

LEMMA SetTyped ==
  ASSUME ThreadsTyped, NEW t \in Threads, NEW r \in Locals, Set(t, r), hub' = hub
  PROVE  ThreadsTyped'
<1>1. Locals' = Locals
  BY DEF Locals, Listed
<1>2. thr' \in [Threads -> Locals]
  BY DEF ThreadsTyped, Set
<1> QED
  BY <1>1, <1>2 DEF ThreadsTyped

LEMMA GotoTyped ==
  ASSUME ThreadsTyped, NEW t \in Threads, NEW pc \in Pcs, Goto(t, pc), hub' = hub
  PROVE  ThreadsTyped'
<1>1. [thr[t] EXCEPT !.pc = pc] \in Locals
  BY DEF ThreadsTyped, Locals
<1> QED
  BY <1>1, SetTyped DEF Goto

LEMMA FailTyped ==
  ASSUME ThreadsTyped, NEW t \in Threads, Fail(t), hub' = hub
  PROVE  ThreadsTyped'
<1>1. [thr[t] EXCEPT !.pc = "failed", !.todo = {}] \in Locals
  <2>1. thr[t] \in Locals
    BY DEF ThreadsTyped
  <2> QED
    BY <2>1, ZenonT(40) DEF Locals, Pcs
<1>2. [Idle EXCEPT !.pc = "failed"] \in Locals
  BY IdleTyped DEF Locals, Pcs
<1> QED
  BY <1>1, <1>2, SetTyped DEF Fail, Ends

LEMMA DisturbedTyped ==
  ASSUME ThreadsTyped, NEW place, hub' = hub,
         NEW f, f = Disturbed(place)
  PROVE  f \in [Threads -> Locals]
<1>1. \A u \in Threads : thr[u] \in Locals /\ [thr[u] EXCEPT !.clean = FALSE] \in Locals
  BY DEF ThreadsTyped, Locals
<1> QED
  BY <1>1 DEF Disturbed

LEMMA DiskGrowsTyped ==
  ASSUME DiskTyped, NoDirNoFiles, hub' = hub, NEW place \in Selectors, NEW more \in SUBSET Listed,
         made' = made \cup {place}, dir' = [dir EXCEPT ![place] = @ \cup more]
  PROVE  DiskTyped' /\ NoDirNoFiles'
BY DEF DiskTyped, NoDirNoFiles, Listed

LEMMA DiskSame ==
  ASSUME DiskTyped, NoDirNoFiles, UNCHANGED <<hub, made, dir>>
  PROVE  DiskTyped' /\ NoDirNoFiles'
BY DEF DiskTyped, NoDirNoFiles, Listed

LEMMA BootSame ==
  ASSUME BootTyped, UNCHANGED boot PROVE BootTyped'
BY DEF BootTyped, BootLocals

LEMMA PullTyped ==
  ASSUME Typed, NEW t \in Threads, Pulls(t) \/ Breaks(t)
  PROVE  Typed'
<1> USE DEF Typed
<1>1. thr[t] \in Locals /\ hub' = hub /\ UNCHANGED boot
  BY DEF Pulls, Breaks, GateOfServer, GateOfCommand, pull_config, MakeDir, list_repo, FetchNext,
         Pulled, Keep, ThreadsTyped
<1>2. HubTyped' /\ BootTyped'
  BY <1>1, BootSame DEF HubTyped
<1>3. BootAtWork'
  <2>1. thr[t].pc # "idle"
    BY DEF Pulls, Breaks, GateOfServer, GateOfCommand, pull_config, MakeDir, list_repo, FetchNext,
           Pulled, At
  <2>2. t # Boot => thr'[Boot] = thr[Boot]
    BY <1>1, Selection
       DEF Pulls, Breaks, GateOfServer, GateOfCommand, pull_config, MakeDir, list_repo, FetchNext,
           Pulled, Set, Goto, Fail, Ends, ThreadsTyped
  <2> QED
    BY <1>1, <2>1, <2>2 DEF BootAtWork
<1>4. CASE GateOfServer(t)
  <2>1. ThreadsTyped'
    BY <1>1, <1>4, GotoTyped, FailTyped DEF GateOfServer, Pcs
  <2> QED
    BY <1>2, <1>3, <1>4, <2>1, DiskSame DEF GateOfServer, Keep
<1>5. CASE GateOfCommand(t)
  <2>1. [thr[t] EXCEPT !.pc = "mkdir", !.force = FALSE, !.inc = IF @ = NoTag THEN AnyGguf ELSE @]
          \in Locals
    BY <1>1, Selection DEF Locals, Pcs
  <2>2. ThreadsTyped'
    BY <1>1, <1>5, <2>1, GotoTyped, FailTyped, SetTyped DEF GateOfCommand, Pcs
  <2> QED
    BY <1>2, <1>3, <1>5, <2>2, DiskSame DEF GateOfCommand, Keep
<1>6. CASE pull_config(t)
  <2>1. PICK accepted \in BOOLEAN, fetched \in BOOLEAN :
          /\ made' = made \cup {NoTag}
          /\ dir' = [dir EXCEPT ![NoTag] = Held(NoTag) \cup IF fetched THEN Metas ELSE {}]
          /\ \/ Set(t, [thr[t] EXCEPT !.pc = "mkdir", !.force = FALSE])
             \/ Fail(t)
    BY <1>6 DEF pull_config
  <2>2. (IF fetched THEN Metas ELSE {}) \in SUBSET Listed
    BY DEF Metas, Listed
  <2>3. dir' = [dir EXCEPT ![NoTag] = @ \cup (IF fetched THEN Metas ELSE {})]
    BY <2>1, Selection DEF Held, DiskTyped
  <2>4. DiskTyped' /\ NoDirNoFiles'
    BY <1>1, <2>1, <2>2, <2>3, Selection, DiskGrowsTyped
  <2>5. [thr[t] EXCEPT !.pc = "mkdir", !.force = FALSE] \in Locals
    BY <1>1 DEF Locals, Pcs
  <2>6. ThreadsTyped'
    BY <1>1, <2>1, <2>5, SetTyped, FailTyped
  <2> QED
    BY <1>2, <1>3, <2>4, <2>6
<1>7. CASE MakeDir(t)
  <2>1. [thr[t] EXCEPT !.pc = "list", !.clean = TRUE] \in Locals
    BY <1>1 DEF Locals, Pcs
  <2>2. ThreadsTyped'
    BY <1>1, <1>7, <2>1, SetTyped DEF MakeDir
  <2>3. DiskTyped' /\ NoDirNoFiles'
    BY <1>1, <1>7 DEF MakeDir, DiskTyped, NoDirNoFiles, Listed, Locals
  <2> QED
    BY <1>2, <1>3, <2>2, <2>3
<1>8. CASE list_repo(t)
  <2>1. \A c \in SUBSET DOMAIN hub : [thr[t] EXCEPT !.pc = "fetch", !.todo = c] \in Locals
    BY <1>1 DEF Locals, Pcs
  <2>2. Chosen(thr[t].inc) \in SUBSET DOMAIN hub
    BY ChosenIsLines
  <2>3. ThreadsTyped'
    BY <1>1, <1>8, <2>1, <2>2, SetTyped, FailTyped DEF list_repo
  <2> QED
    BY <1>2, <1>3, <1>8, <2>3, DiskSame DEF list_repo, Keep
<1>9. CASE FetchNext(t)
  <2>1. thr[t].todo \in SUBSET DOMAIN hub /\ thr[t].todo # {} /\ thr[t].place \in Selectors
    BY <1>1, <1>9 DEF FetchNext, Locals
  <2>2. hub[First(thr[t].todo)] \in Listed
    BY <2>1, FetchesALine
  <2>3. [thr[t] EXCEPT !.todo = @ \ {First(thr[t].todo)}] \in Locals
    BY <1>1 DEF Locals
  <2>4. ThreadsTyped'
    BY <1>1, <1>9, <2>3, SetTyped, FailTyped DEF FetchNext
  <2>5. CASE Exists(thr[t].place)
    <3>1. made' = made \cup {thr[t].place}
          /\ dir' = [dir EXCEPT ![thr[t].place] = @ \cup {hub[First(thr[t].todo)]}]
      BY <1>9, <2>5 DEF FetchNext, Exists
    <3>2. DiskTyped' /\ NoDirNoFiles'
      BY <1>1, <2>1, <2>2, <3>1, DiskGrowsTyped
    <3> QED
      BY <1>2, <1>3, <2>4, <3>2
  <2>6. CASE ~ Exists(thr[t].place)
    BY <1>1, <1>2, <1>3, <1>9, <2>4, <2>6, DiskSame DEF FetchNext
  <2> QED
    BY <2>5, <2>6
<1>10. CASE Pulled(t)
  <2>1. ThreadsTyped'
    BY <1>1, <1>10, GotoTyped DEF Pulled, Pcs
  <2> QED
    BY <1>2, <1>3, <1>10, <2>1, DiskSame DEF Pulled, Keep
<1>11. CASE Breaks(t)
  <2>1. ThreadsTyped'
    BY <1>1, <1>11, FailTyped DEF Breaks
  <2> QED
    BY <1>2, <1>3, <1>11, <2>1, DiskSame DEF Breaks, Keep
<1> QED
  BY <1>4, <1>5, <1>6, <1>7, <1>8, <1>9, <1>10, <1>11 DEF Pulls

(* What a user does beside pulling: it touches nothing but its own locals, *)
(* or takes a file or an empty directory from a place.                     *)
Resting == {"idle", "failed", "unlink", "delete", "sweep", "gone"}

Quiet(t) == \E r \in Locals : r.pc \in Resting /\ Set(t, r) /\ UNCHANGED <<made, dir, boot>>

Takes(t, place) ==
  /\ \E r \in Locals : r.pc \in Resting /\ thr' = [Disturbed(place) EXCEPT ![t] = r]
  /\ \/ /\ \E f : dir' = [dir EXCEPT ![place] = @ \ {f}]
        /\ boot' = [boot EXCEPT !.kept = FALSE] /\ made' = made
     \/ /\ dir[place] = {} /\ made' = made \ {place}
        /\ UNCHANGED <<dir, boot>>

LEMMA EndsQuietly ==
  ASSUME NEW t \in Users, NEW pc \in Resting, Ends(t, pc), UNCHANGED <<made, dir, boot>>
  PROVE  Quiet(t)
<1>1. [Idle EXCEPT !.pc = pc] \in Locals /\ [Idle EXCEPT !.pc = pc].pc = pc
  BY IdleTyped DEF Idle, Locals, Pcs, Resting
<1> QED
  BY <1>1 DEF Quiet, Ends

LEMMA FailsQuietly ==
  ASSUME NEW t \in Users, Fail(t), UNCHANGED <<made, dir, boot>>
  PROVE  Quiet(t)
<1>1. t # Boot
  BY StoreAssumption
<1> QED
  BY <1>1, EndsQuietly DEF Fail, Resting

LEMMA Removal ==
  ASSUME Typed, NEW t \in Users, Removes(t) \/ Answer(t)
  PROVE  hub' = hub /\ (Quiet(t) \/ \E place \in Selectors : Takes(t, place))
<1>1. /\ t \in Threads /\ thr[t] \in Locals /\ NoTag \in Selectors
      /\ dir \in [Selectors -> SUBSET Listed] /\ made \subseteq Selectors
      /\ thr \in [Threads -> Locals] /\ thr[t].place \in Selectors
  <2>1. thr \in [Threads -> Locals] /\ dir \in [Selectors -> SUBSET Listed] /\ made \subseteq Selectors
    BY DEF Typed, ThreadsTyped, DiskTyped
  <2>2. t \in Threads /\ NoTag \in Selectors
    BY Selection
  <2>3. thr[t] \in Locals
    BY <2>1, <2>2
  <2>4. thr[t].place \in Selectors
    BY <2>3 DEF Locals
  <2> QED
    BY <2>1, <2>2, <2>3, <2>4
<1>2. hub' = hub
  BY DEF Removes, Answer, StartDelete, StartRemoveTag, StartRemoveLegacy, UnlinkVictim, RetireDir,
         RemoveEntry, RemoveDir, RemoveDirFails, SweepNext, Keep
<1>3. ASSUME NEW r \in Locals, r.pc \in Resting, Set(t, r), UNCHANGED <<made, dir>>, Keep
      PROVE  Quiet(t)
  BY <1>3 DEF Quiet, Keep
<1>4. CASE StartDelete(t)
  <2>1. PICK pc \in {"delete", "failed"}, cli \in BOOLEAN : Set(t, [Idle EXCEPT !.pc = pc, !.cli = cli])
    BY <1>4 DEF StartDelete
  <2>2. [Idle EXCEPT !.pc = pc, !.cli = cli] \in Locals
        /\ [Idle EXCEPT !.pc = pc, !.cli = cli].pc \in Resting
    BY IdleTyped DEF Locals, Pcs, Idle, Resting
  <2> QED
    BY <1>2, <1>3, <1>4, <2>1, <2>2 DEF StartDelete
<1>5. CASE StartRemoveTag(t)
  <2>1. PICK pc \in {"failed", "unlink"}, victims \in SUBSET Listed :
          Set(t, [Idle EXCEPT !.pc = pc, !.victims = victims])
    <3>1. PICK tag \in Tags :
            LET victims == {f \in Held(NoTag) : f.kind = "gguf" /\ tag \in f.has}
            IN Set(t, [Idle EXCEPT !.pc = IF victims = {} THEN "failed" ELSE "unlink",
                                   !.victims = victims])
      BY <1>5 DEF StartRemoveTag
    <3>2. {f \in Held(NoTag) : f.kind = "gguf" /\ tag \in f.has} \in SUBSET Listed
      BY <1>1 DEF Held
    <3> QED
      BY <3>1, <3>2
  <2>2. [Idle EXCEPT !.pc = pc, !.victims = victims] \in Locals
        /\ [Idle EXCEPT !.pc = pc, !.victims = victims].pc \in Resting
    BY IdleTyped DEF Locals, Pcs, Idle, Resting
  <2> QED
    BY <1>2, <1>3, <1>5, <2>1, <2>2 DEF StartRemoveTag
<1>6. CASE StartRemoveLegacy(t)
  <2>1. PICK tag \in Tags, pc \in {"delete", "failed"} :
          Set(t, [Idle EXCEPT !.pc = pc, !.place = tag])
    BY <1>6 DEF StartRemoveLegacy
  <2>2. tag \in Selectors
    BY DEF Selectors
  <2>3. [Idle EXCEPT !.pc = pc, !.place = tag] \in Locals
        /\ [Idle EXCEPT !.pc = pc, !.place = tag].pc \in Resting
    BY <2>2, IdleTyped DEF Locals, Pcs, Idle, Resting
  <2> QED
    BY <1>2, <1>3, <1>6, <2>1, <2>3 DEF StartRemoveLegacy
<1>7. CASE UnlinkVictim(t)
  <2>1. PICK f \in thr[t].victims :
          \/ /\ dir' = [dir EXCEPT ![NoTag] = @ \ {f}]
             /\ thr' = [Disturbed(NoTag) EXCEPT ![t] = [thr[t] EXCEPT !.victims = @ \ {f}]]
             /\ boot' = [boot EXCEPT !.kept = FALSE]
          \/ Fail(t) /\ UNCHANGED <<dir, boot>>
    BY <1>7 DEF UnlinkVictim
  <2>2. [thr[t] EXCEPT !.victims = @ \ {f}] \in Locals
        /\ [thr[t] EXCEPT !.victims = @ \ {f}].pc \in Resting
    BY <1>1, <1>7 DEF UnlinkVictim, At, Locals, Resting
  <2>3. made' = made
    BY <1>7 DEF UnlinkVictim
  <2> QED
    BY <1>1, <1>2, <2>1, <2>2, <2>3, FailsQuietly DEF Takes
<1>8. CASE RetireDir(t)
  <2>1. [thr[t] EXCEPT !.pc = "delete"] \in Locals
        /\ [thr[t] EXCEPT !.pc = "delete"].pc \in Resting
    BY <1>1 DEF Locals, Pcs, Resting
  <2>2. UNCHANGED <<made, dir, boot>> /\ (Ends(t, "gone") \/ Goto(t, "delete") \/ Fail(t))
    BY <1>8 DEF RetireDir, Keep
  <2> QED
    BY <1>2, <1>3, <1>8, <2>1, <2>2, EndsQuietly, FailsQuietly DEF Goto, Resting, RetireDir
<1>9. CASE RemoveEntry(t)
  <2>1. PICK f : dir' = [dir EXCEPT ![thr[t].place] = @ \ {f}]
    BY <1>9 DEF RemoveEntry
  <2>2. Disturbed(thr[t].place)[t] = thr[t] /\ thr[t].pc \in Resting
    BY <1>1, <1>9 DEF RemoveEntry, At, Disturbed, Resting
  <2>3. Disturbed(thr[t].place) = [Disturbed(thr[t].place) EXCEPT ![t] = thr[t]]
    <3>1. DOMAIN Disturbed(thr[t].place) = Threads
      BY DEF Disturbed
    <3>2. \A g, r : g[t] = r /\ g = [u \in Threads |-> g[u]] => g = [g EXCEPT ![t] = r]
      OBVIOUS
    <3> QED
      BY <2>2, <3>2 DEF Disturbed
  <2> QED
    BY <1>1, <1>2, <1>9, <2>1, <2>2, <2>3 DEF RemoveEntry, Takes
<1>10. CASE RemoveDir(t)
  <2>1. PICK rest \in SUBSET Selectors :
          thr' = [Disturbed(thr[t].place) EXCEPT
                   ![t] = IF thr[t].cli THEN [thr[t] EXCEPT !.pc = "sweep", !.swept = rest]
                          ELSE [Idle EXCEPT !.pc = "gone"]]
    <3>1. (IF thr[t].place = NoTag THEN made \ {NoTag} ELSE thr[t].swept) \in SUBSET Selectors
      BY <1>1 DEF Locals
    <3> QED
      BY <1>10, <3>1 DEF RemoveDir
  <2>2. [thr[t] EXCEPT !.pc = "sweep", !.swept = rest] \in Locals
        /\ [thr[t] EXCEPT !.pc = "sweep", !.swept = rest].pc \in Resting
    BY <1>1 DEF Locals, Pcs, Resting
  <2>3. [Idle EXCEPT !.pc = "gone"] \in Locals /\ [Idle EXCEPT !.pc = "gone"].pc \in Resting
    BY IdleTyped DEF Locals, Pcs, Idle, Resting
  <2>4. /\ dir[thr[t].place] = {} /\ made' = made \ {thr[t].place}
        /\ UNCHANGED <<dir, boot>>
    BY <1>10 DEF RemoveDir, Held, Keep
  <2> QED
    BY <1>1, <1>2, <2>1, <2>2, <2>3, <2>4 DEF Takes
<1>11. CASE RemoveDirFails(t)
  <2>1. [thr[t] EXCEPT !.pc = "sweep"] \in Locals /\ [thr[t] EXCEPT !.pc = "sweep"].pc \in Resting
    BY <1>1 DEF Locals, Pcs, Resting
  <2>2. UNCHANGED <<made, dir, boot>> /\ (Goto(t, "sweep") \/ Fail(t))
    BY <1>11 DEF RemoveDirFails, Keep
  <2> QED
    BY <1>2, <1>3, <1>11, <2>1, <2>2, FailsQuietly DEF Goto, RemoveDirFails
<1>12. CASE SweepNext(t)
  <2>1. CASE Ends(t, "gone")
    BY <1>2, <1>12, <2>1, EndsQuietly DEF SweepNext, Keep, Resting
  <2>2. CASE \E s \in thr[t].swept :
               Set(t, [thr[t] EXCEPT !.pc = "delete", !.place = s, !.swept = @ \ {s}])
    <3>1. PICK s \in thr[t].swept :
            Set(t, [thr[t] EXCEPT !.pc = "delete", !.place = s, !.swept = @ \ {s}])
      BY <2>2
    <3>2. [thr[t] EXCEPT !.pc = "delete", !.place = s, !.swept = @ \ {s}] \in Locals
          /\ [thr[t] EXCEPT !.pc = "delete", !.place = s, !.swept = @ \ {s}].pc \in Resting
      BY <1>1 DEF Locals, Pcs, Resting
    <3> QED
      BY <1>2, <1>3, <1>12, <3>1, <3>2 DEF SweepNext
  <2> QED
    BY <1>12, <2>1, <2>2 DEF SweepNext
<1>13. CASE Answer(t)
  <2>1. Idle.pc \in Resting
    BY DEF Idle, Resting
  <2> QED
    BY <1>2, <1>3, <1>13, <2>1, IdleTyped DEF Answer
<1> QED
  BY <1>4, <1>5, <1>6, <1>7, <1>8, <1>9, <1>10, <1>11, <1>12, <1>13 DEF Removes

LEMMA UserTyped ==
  ASSUME Typed, NEW t \in Users, StartPull(t) \/ Removes(t) \/ Answer(t)
  PROVE  Typed'
<1> USE DEF Typed
<1>1. /\ t \in Threads /\ thr[t] \in Locals /\ thr \in [Threads -> Locals]
      /\ dir \in [Selectors -> SUBSET Listed] /\ NoTag \in Selectors
      /\ t # Boot /\ Boot \in Threads
  BY Selection, StoreAssumption DEF ThreadsTyped, DiskTyped
<1>2. CASE StartPull(t)
  <2>1. PICK c \in Commands, cli \in BOOLEAN, force \in BOOLEAN :
          Set(t, [Idle EXCEPT !.pc = IF force /\ ~ cli THEN "mkdir" ELSE "gate",
                              !.sel = c[1], !.inc = IF c[2] # NoTag THEN c[2] ELSE c[1],
                              !.place = IF cli THEN NoTag ELSE c[1],
                              !.cli = cli, !.force = force /\ cli])
    BY <1>2 DEF StartPull
  <2>2. c[1] \in Selectors /\ c[2] \in Selectors
    BY StoreAssumption
  <2>3. [Idle EXCEPT !.pc = IF force /\ ~ cli THEN "mkdir" ELSE "gate",
                     !.sel = c[1], !.inc = IF c[2] # NoTag THEN c[2] ELSE c[1],
                     !.place = IF cli THEN NoTag ELSE c[1],
                     !.cli = cli, !.force = force /\ cli] \in Locals
    BY <2>2, Selection DEF Idle, Locals, Pcs
  <2>4. ThreadsTyped' /\ HubTyped' /\ thr'[Boot] = thr[Boot] /\ UNCHANGED boot
    <3>1. UNCHANGED <<hub, boot>>
      BY <1>2 DEF StartPull, Keep
    <3>2. ThreadsTyped'
      BY <1>1, <2>1, <2>3, <3>1, SetTyped
    <3>3. thr'[Boot] = thr[Boot]
      BY <1>1, <2>1 DEF Set
    <3> QED
      BY <3>1, <3>2, <3>3 DEF HubTyped
  <2> QED
    BY <1>2, <2>4, DiskSame, BootSame DEF StartPull, Keep, BootAtWork
<1>3. CASE hub' = hub /\ Quiet(t)
  <2>1. ThreadsTyped' /\ HubTyped' /\ thr'[Boot] = thr[Boot]
    BY <1>1, <1>3, SetTyped DEF Quiet, HubTyped, Set
  <2> QED
    BY <1>3, <2>1, DiskSame, BootSame DEF Quiet, BootAtWork
<1>4. ASSUME hub' = hub, NEW place \in Selectors, Takes(t, place) PROVE Typed'
  <2>1. Disturbed(place) \in [Threads -> Locals] /\ Disturbed(place)[Boot].pc = thr[Boot].pc
    <3>1. Disturbed(place) \in [Threads -> Locals]
      BY <1>4, DisturbedTyped
    <3> QED
      BY <1>1, <3>1 DEF Disturbed, Locals
  <2>2. PICK r \in Locals : thr' = [Disturbed(place) EXCEPT ![t] = r]
    BY <1>4 DEF Takes
  <2>3. thr' \in [Threads -> Locals] /\ thr'[Boot].pc = thr[Boot].pc
    BY <1>1, <2>1, <2>2
  <2>4. ThreadsTyped' /\ HubTyped'
    BY <1>4, <2>3 DEF ThreadsTyped, Locals, Listed, HubTyped
  <2>5. DiskTyped' /\ NoDirNoFiles'
    <3>1. CASE /\ \E f : dir' = [dir EXCEPT ![place] = @ \ {f}]
               /\ made' = made
      BY <1>1, <1>4, <3>1 DEF DiskTyped, NoDirNoFiles, Listed
    <3>2. CASE dir[place] = {} /\ made' = made \ {place} /\ dir' = dir
      BY <1>1, <1>4, <3>2 DEF DiskTyped, NoDirNoFiles, Listed
    <3> QED
      BY <1>4, <3>1, <3>2 DEF Takes
  <2>6. BootTyped' /\ boot'.i = boot.i
    BY <1>4 DEF Takes, BootTyped, BootLocals
  <2> QED
    BY <2>3, <2>4, <2>5, <2>6 DEF BootAtWork
<1> QED
  BY <1>2, <1>3, <1>4, Removal

LEMMA RequiredTyped ==
  Len(Required) \in Nat /\ DOMAIN Required = 1 .. Len(Required) /\ MaxAttempts \in Nat \ {0}
BY StoreAssumption

LEMMA BootMoves ==
  ASSUME BootTyped
  PROVE  /\ boot.i <= Len(Required) => NextModel(boot) \in BootLocals
         /\ boot.attempt < MaxAttempts => [boot EXCEPT !.attempt = @ + 1] \in BootLocals
         /\ [boot EXCEPT !.attempt = 1] \in BootLocals
         /\ [boot EXCEPT !.failed = TRUE] \in BootLocals
<1>1. boot.i <= Len(Required) => boot.i + 1 \in 1 .. Len(Required) + 1
  BY RequiredTyped DEF BootTyped, BootLocals
<1>2. boot.attempt < MaxAttempts => boot.attempt + 1 \in 0 .. MaxAttempts
  BY RequiredTyped DEF BootTyped, BootLocals
<1>3. 0 \in 0 .. MaxAttempts /\ 1 \in 0 .. MaxAttempts
  BY RequiredTyped
<1>4. \A j \in 1 .. Len(Required) + 1, n \in 0 .. MaxAttempts :
        /\ [boot EXCEPT !.i = j, !.attempt = n] \in BootLocals
        /\ [boot EXCEPT !.attempt = n] \in BootLocals
  BY DEF BootTyped, BootLocals
<1>5. [boot EXCEPT !.failed = TRUE] \in BootLocals
  BY DEF BootTyped, BootLocals
<1>6. boot.i <= Len(Required) => NextModel(boot) \in BootLocals
  <2> DEFINE j == boot.i + 1
  <2>1. NextModel(boot) = [boot EXCEPT !.i = j, !.attempt = 0]
    BY DEF NextModel, BootTyped, BootLocals
  <2> QED
    <3> HIDE DEF j
    <3> QED
      BY <1>1, <1>3, <1>4, <2>1 DEF j
<1>7. boot.attempt < MaxAttempts => [boot EXCEPT !.attempt = @ + 1] \in BootLocals
  <2> DEFINE n == boot.attempt + 1
  <2>1. [boot EXCEPT !.attempt = @ + 1] = [boot EXCEPT !.attempt = n]
    BY DEF BootTyped, BootLocals
  <2>2. 1 \in 1 .. Len(Required) + 1
    BY RequiredTyped
  <2> QED
    <3> HIDE DEF n
    <3> QED
      BY <1>2, <1>4, <2>1, <2>2 DEF n
<1>8. [boot EXCEPT !.attempt = 1] \in BootLocals
  <2>1. 1 \in 1 .. Len(Required) + 1
    BY RequiredTyped
  <2> QED
    BY <1>3, <1>4, <2>1
<1> QED
  BY <1>5, <1>6, <1>7, <1>8

LEMMA BootTypedStep ==
  ASSUME Typed, BootSteps \/ Crash
  PROVE  Typed'
<1> USE DEF Typed
<1>1. hub' = hub /\ HubTyped' /\ DiskTyped' /\ NoDirNoFiles' /\ Boot \in Threads
  BY DiskSame, Selection
     DEF BootSteps, Crash, BootCheck, BootConfirm, BootRetry, BootDone, HubTyped
<1>2. CASE BootCheck
  <2>1. Model \in Selectors
    BY <1>2, StoreAssumption DEF BootCheck, Model, BootTyped, BootLocals
  <2>2. [Idle EXCEPT !.pc = "mkdir", !.sel = Model, !.place = Model, !.inc = Model] \in Locals
    BY <2>1, IdleTyped, Selection DEF Locals, Pcs
  <2>3. ThreadsTyped'
    <3>1. CASE UNCHANGED thr
      BY <1>1, <3>1 DEF ThreadsTyped, Locals, Listed
    <3>2. CASE ~ UNCHANGED thr
      BY <1>1, <1>2, <3>2, <2>2, SetTyped DEF BootCheck
    <3> QED
      BY <3>1, <3>2
  <2>4. BootTyped'
    BY <1>2, BootMoves DEF BootCheck, BootTyped
  <2>5. BootAtWork'
    BY <1>1, <1>2, RequiredTyped DEF BootCheck, BootAtWork, At, Set, BootTyped, BootLocals
  <2> QED
    BY <1>1, <2>3, <2>4, <2>5
<1>3. CASE BootConfirm
  <2>1. ThreadsTyped'
    BY <1>1, <1>3, IdleTyped, SetTyped DEF BootConfirm
  <2>2. boot.i <= Len(Required) /\ thr'[Boot].pc = "idle"
    BY <1>1, <1>3 DEF BootConfirm, BootAtWork, At, Set, ThreadsTyped, Idle
  <2>3. BootTyped'
    BY <1>3, <2>2, BootMoves DEF BootConfirm, BootTyped
  <2> QED
    BY <1>1, <2>1, <2>2, <2>3 DEF BootAtWork
<1>4. CASE BootRetry
  <2>1. thr[Boot].pc # "idle"
    BY <1>4 DEF BootRetry, At
  <2>2. ThreadsTyped'
    BY <1>1, <1>4, IdleTyped, SetTyped, GotoTyped DEF BootRetry, Pcs
  <2>3. BootTyped'
    BY <1>4, BootMoves DEF BootRetry, BootTyped
  <2>4. boot'.i = boot.i
    BY <1>4 DEF BootRetry, BootTyped, BootLocals
  <2> QED
    BY <1>1, <2>1, <2>2, <2>3, <2>4 DEF BootAtWork
<1>5. CASE BootDone
  <2>1. ThreadsTyped'
    BY <1>1, <1>5 DEF BootDone, ThreadsTyped, Locals, Listed
  <2>2. BootTyped' /\ boot'.i = boot.i
    BY <1>5 DEF BootDone, BootTyped, BootLocals
  <2> QED
    BY <1>1, <1>5, <2>1, <2>2 DEF BootDone, BootAtWork
<1>6. CASE Crash
  <2>1. ThreadsTyped'
    BY <1>1, <1>6, IdleTyped DEF Crash, ThreadsTyped, Locals, Listed
  <2>2. BootTyped'
    BY <1>6, RequiredTyped DEF Crash, BootInit, BootTyped, BootLocals
  <2>3. BootAtWork'
    BY <1>1, <1>6 DEF Crash, BootAtWork, Idle
  <2> QED
    BY <1>1, <2>1, <2>2, <2>3
<1> QED
  BY <1>2, <1>3, <1>4, <1>5, <1>6 DEF BootSteps

LEMMA TypedInit == Init => Typed
<1> SUFFICES ASSUME Init PROVE Typed
  OBVIOUS
<1>1. ThreadsTyped
  BY IdleTyped DEF Init, ThreadsTyped
<1>2. BootTyped
  BY RequiredTyped DEF Init, BootInit, BootTyped, BootLocals
<1> QED
  BY <1>1, <1>2, Selection DEF Typed, Init, HubTyped, DiskTyped, NoDirNoFiles, BootAtWork, Idle

LEMMA TypedStep == Typed /\ [Next]_vars => Typed'
<1> SUFFICES ASSUME Typed, [Next]_vars PROVE Typed'
  OBVIOUS
<1>1. CASE UNCHANGED vars
  BY <1>1 DEF vars, Typed, HubTyped, DiskTyped, NoDirNoFiles, ThreadsTyped, BootTyped, BootLocals,
              BootAtWork, Listed, Locals
<1> QED
  BY <1>1, PullTyped, UserTyped, BootTypedStep DEF Next

(* The types, and that a directory holds nothing that the repository does  *)
(* not list and the startup pull stays within its list.                    *)
THEOREM TypeCorrect == Spec => []TypeOK
<1>1. Typed => TypeOK
  BY DEF Typed, HubTyped, DiskTyped, NoDirNoFiles, ThreadsTyped, BootTyped, BootLocals, TypeOK,
         Listed, Locals
<1> QED
  BY <1>1, TypedInit, TypedStep, PTL DEF Spec
--------------------------------------------------------------------------------
(* What a pull has put down.                                               *)

DiskGrows == made \subseteq made' /\ \A s \in Selectors : dir[s] \subseteq dir'[s]

LEMMA PullGrows ==
  ASSUME Typed, NEW t \in Threads, Pulls(t) \/ Breaks(t)
  PROVE  DiskGrows /\ hub' = hub /\ boot' = boot
                   /\ \A u \in Threads \ {t} : thr'[u] = thr[u]
<1>1. thr \in [Threads -> Locals] /\ thr[t].place \in Selectors /\ dir \in [Selectors -> SUBSET Listed]
  BY DEF Typed, ThreadsTyped, DiskTyped, Locals
<1>2. hub' = hub /\ boot' = boot
  BY DEF Pulls, Breaks, GateOfServer, GateOfCommand, pull_config, MakeDir, list_repo, FetchNext,
         Pulled, Keep
<1>3. \A u \in Threads \ {t} : thr'[u] = thr[u]
  BY <1>1 DEF Pulls, Breaks, GateOfServer, GateOfCommand, pull_config, MakeDir, list_repo,
              FetchNext, Pulled, Set, Goto, Fail, Ends
<1>4. made \subseteq made'
  BY DEF Pulls, Breaks, GateOfServer, GateOfCommand, pull_config, MakeDir, list_repo, FetchNext,
         Pulled
<1>5. CASE pull_config(t)
  <2>1. PICK more : dir' = [dir EXCEPT ![NoTag] = Held(NoTag) \cup more]
    BY <1>5 DEF pull_config
  <2>2. \A s \in Selectors : dir[s] \subseteq dir'[s]
    BY <1>1, <2>1 DEF Held
  <2> QED
    BY <1>2, <1>3, <1>4, <2>2 DEF DiskGrows
<1>6. CASE FetchNext(t)
  <2>1. \A s \in Selectors : dir[s] \subseteq dir'[s]
    BY <1>1, <1>6 DEF FetchNext
  <2> QED
    BY <1>2, <1>3, <1>4, <2>1 DEF DiskGrows
<1>7. CASE ~ pull_config(t) /\ ~ FetchNext(t)
  <2>1. dir' = dir
    BY <1>7 DEF Pulls, Breaks, GateOfServer, GateOfCommand, MakeDir, list_repo, Pulled
  <2> QED
    BY <1>2, <1>3, <1>4, <2>1 DEF DiskGrows
<1> QED
  BY <1>5, <1>6, <1>7

(* Who is left alone keeps what he has put down; who is disturbed no       *)
(* longer promises anything.                                               *)
LEMMA Untouched ==
  ASSUME Typed, NEW u \in Threads, Pull(u), hub' = hub, thr'[u] = thr[u],
         thr[u].place \in made => thr[u].place \in made',
         dir[thr[u].place] \subseteq dir'[thr[u].place]
  PROVE  Pull(u)'
<1>1. Placed(u)'
  BY DEF Pull, Placed
<1>2. Laid(u)'
  BY DEF Pull, Laid
<1> QED
  BY <1>1, <1>2 DEF Pull

LEMMA UntouchedGrows ==
  ASSUME Typed, NEW u \in Threads, Pull(u), hub' = hub, thr'[u] = thr[u], DiskGrows
  PROVE  Pull(u)'
<1>1. thr[u].place \in Selectors
  BY DEF Typed, ThreadsTyped, Locals
<1> QED
  BY <1>1, Untouched DEF DiskGrows

LEMMA Disturbs ==
  ASSUME Typed, NEW place, NEW u \in Threads, Pull(u), hub' = hub,
         thr'[u] = Disturbed(place)[u],
         thr[u].place # place =>
           /\ thr[u].place \in made => thr[u].place \in made'
           /\ dir[thr[u].place] \subseteq dir'[thr[u].place]
  PROVE  Pull(u)'
<1>1. CASE thr[u].place = place /\ thr[u].pc \in {"list", "fetch", "ok"}
  <2>1. thr'[u] = [thr[u] EXCEPT !.clean = FALSE] /\ thr[u] \in Locals
    BY <1>1 DEF Disturbed, Typed, ThreadsTyped
  <2>2. thr'[u].pc = thr[u].pc /\ thr'[u].cli = thr[u].cli /\ thr'[u].place = thr[u].place
        /\ thr'[u].sel = thr[u].sel /\ ~ thr'[u].clean
    BY <2>1 DEF Locals
  <2> QED
    BY <2>2 DEF Pull, Placed, Laid
<1>2. CASE thr[u].place # place
  <2>1. thr'[u] = thr[u]
    BY <1>2 DEF Disturbed
  <2> QED
    BY <1>2, <2>1, Untouched
<1>3. CASE thr[u].pc \notin {"list", "fetch", "ok"}
  <2>1. thr'[u] = thr[u]
    BY <1>3 DEF Disturbed
  <2> QED
    BY <1>3, <2>1 DEF Pull, Placed, Laid
<1> QED
  BY <1>1, <1>2, <1>3

LEMMA FailKeeps ==
  ASSUME Typed, NEW t \in Threads, Pull(t), Fail(t)
  PROVE  Pull(t)'
<1>1. thr \in [Threads -> Locals] /\ thr[t] \in Locals
  BY DEF Typed, ThreadsTyped
<1>2. CASE t = Boot
  <2>1. /\ thr'[t].pc = "failed" /\ thr'[t].cli = thr[t].cli /\ thr'[t].place = thr[t].place
        /\ thr'[t].sel = thr[t].sel
    <3>1. thr'[t] = [thr[t] EXCEPT !.pc = "failed", !.todo = {}]
      BY <1>1, <1>2 DEF Fail, Set
    <3> QED
      BY <1>1, <3>1 DEF Locals
  <2> QED
    BY <1>2, <2>1 DEF Pull, Placed, Laid
<1>3. CASE t # Boot
  <2>1. thr'[t].pc = "failed"
    BY <1>1, <1>3 DEF Fail, Ends, Set, Idle
  <2> QED
    BY <1>3, <2>1 DEF Pull, Placed, Laid
<1> QED
  BY <1>2, <1>3

LEMMA OwnPull ==
  ASSUME Typed, NEW t \in Threads, Pull(t), Pulls(t) \/ Breaks(t)
  PROVE  Pull(t)'
<1>1. /\ thr \in [Threads -> Locals] /\ thr[t] \in Locals /\ hub' = hub
      /\ dir \in [Selectors -> SUBSET Listed] /\ DiskGrows
  BY PullGrows DEF Typed, ThreadsTyped, DiskTyped
<1>2. CASE Fail(t)
  BY <1>2, FailKeeps
<1>3. ASSUME At(t, "gate"), Goto(t, "config") \/ Goto(t, "mkdir")
      PROVE  Pull(t)'
  BY <1>1, <1>3 DEF Goto, Set, At, Pull, Placed, Laid, Locals
<1>4. CASE GateOfServer(t)
  BY <1>2, <1>3, <1>4 DEF GateOfServer
<1>5. CASE GateOfCommand(t)
  <2>1. CASE Set(t, [thr[t] EXCEPT !.pc = "mkdir", !.force = FALSE,
                                  !.inc = IF @ = NoTag THEN AnyGguf ELSE @])
    BY <1>1, <1>5, <2>1 DEF GateOfCommand, Set, At, Pull, Placed, Laid, Locals
  <2> QED
    BY <1>2, <1>3, <1>5, <2>1 DEF GateOfCommand
<1>6. CASE pull_config(t)
  <2>1. CASE Set(t, [thr[t] EXCEPT !.pc = "mkdir", !.force = FALSE])
    BY <1>1, <1>6, <2>1 DEF pull_config, Set, At, Pull, Placed, Laid, Locals
  <2> QED
    BY <1>2, <1>6, <2>1 DEF pull_config
<1>7. CASE MakeDir(t)
  <2>1. thr[t].place \in made' /\ thr[t].pc = "mkdir"
    BY <1>7 DEF MakeDir, At
  <2>2. thr'[t].pc = "list" /\ thr'[t].cli = thr[t].cli /\ thr'[t].place = thr[t].place
        /\ thr'[t].sel = thr[t].sel
    BY <1>1, <1>7 DEF MakeDir, Set, Locals
  <2> QED
    BY <2>1, <2>2 DEF Pull, Placed, Laid
<1>8. CASE list_repo(t)
  <2>1. CASE Set(t, [thr[t] EXCEPT !.pc = "fetch", !.todo = Chosen(thr[t].inc)])
    <3>1. thr[t].pc = "list" /\ made \subseteq made'
      BY <1>1, <1>8 DEF list_repo, At, DiskGrows
    <3>2. thr'[t].pc = "fetch" /\ thr'[t].cli = thr[t].cli /\ thr'[t].place = thr[t].place
          /\ thr'[t].sel = thr[t].sel /\ thr'[t].inc = thr[t].inc /\ thr'[t].clean = thr[t].clean
          /\ thr'[t].todo = Chosen(thr[t].inc)
      BY <1>1, <2>1 DEF Set, Locals
    <3>3. thr'[t].todo = Lines(hub', thr'[t].inc)
      BY <1>1, <3>2, ChosenIsLines
    <3> QED
      BY <3>1, <3>2, <3>3 DEF Pull, Placed, Laid
  <2> QED
    BY <1>2, <1>8, <2>1 DEF list_repo
<1>9. CASE FetchNext(t)
  <2> DEFINE i == First(thr[t].todo)
  <2>1. CASE /\ Exists(thr[t].place)
             /\ dir' = [dir EXCEPT ![thr[t].place] = @ \cup {hub[i]}]
             /\ Set(t, [thr[t] EXCEPT !.todo = @ \ {i}])
    <3>1. thr[t].pc = "fetch" /\ thr[t].place \in Selectors /\ made \subseteq made'
      BY <1>1, <1>9 DEF FetchNext, At, DiskGrows, Locals
    <3>2. thr'[t].pc = "fetch" /\ thr'[t].cli = thr[t].cli /\ thr'[t].place = thr[t].place
          /\ thr'[t].sel = thr[t].sel /\ thr'[t].inc = thr[t].inc /\ thr'[t].clean = thr[t].clean
          /\ thr'[t].todo = thr[t].todo \ {i}
      BY <1>1, <2>1, <3>1 DEF Set, Locals
    <3>3. dir'[thr[t].place] = dir[thr[t].place] \cup {hub[i]}
      BY <1>1, <2>1, <3>1
    <3> QED
      <4> HIDE DEF i
      <4> QED
        BY <1>1, <3>1, <3>2, <3>3 DEF Pull, Placed, Laid
  <2> QED
    BY <1>2, <1>9, <2>1 DEF FetchNext
<1>10. CASE Pulled(t)
  <2>1. thr[t].pc = "fetch" /\ thr[t].todo = {} /\ dir' = dir /\ made' = made
    BY <1>10 DEF Pulled, At
  <2>2. thr'[t].pc = "ok" /\ thr'[t].cli = thr[t].cli /\ thr'[t].place = thr[t].place
        /\ thr'[t].sel = thr[t].sel /\ thr'[t].inc = thr[t].inc /\ thr'[t].clean = thr[t].clean
        /\ thr'[t].todo = thr[t].todo
    BY <1>1, <1>10 DEF Pulled, Goto, Set, Locals
  <2> QED
    BY <1>1, <2>1, <2>2 DEF Pull, Placed, Laid
<1>11. CASE Breaks(t)
  BY <1>2, <1>11 DEF Breaks
<1> QED
  BY <1>4, <1>5, <1>6, <1>7, <1>8, <1>9, <1>10, <1>11 DEF Pulls

LEMMA PullStep ==
  ASSUME Typed, \A u \in Threads : Pull(u), NEW t \in Threads, Pulls(t) \/ Breaks(t)
  PROVE  \A u \in Threads : Pull(u)'
<1> TAKE u \in Threads
<1>1. CASE u = t
  BY <1>1, OwnPull
<1>2. CASE u # t
  BY <1>2, PullGrows, UntouchedGrows
<1> QED
  BY <1>1, <1>2

LEMMA UserStep ==
  ASSUME Typed, \A u \in Threads : Pull(u), NEW t \in Users,
         StartPull(t) \/ Removes(t) \/ Answer(t)
  PROVE  \A u \in Threads : Pull(u)'
<1>1. /\ t \in Threads /\ t # Boot /\ NoTag \in Selectors
      /\ thr \in [Threads -> Locals] /\ dir \in [Selectors -> SUBSET Listed]
  BY Selection, StoreAssumption DEF Typed, ThreadsTyped, DiskTyped
<1>2. ASSUME NEW r, thr'[t] = r, r.pc \in Resting
      PROVE  Pull(t)'
  BY <1>1, <1>2 DEF Pull, Placed, Laid, Resting
<1>3. ASSUME NEW r, Set(t, r), UNCHANGED <<hub, made, dir>>
      PROVE  \A u \in Threads \ {t} : Pull(u)'
  <2>1. DiskGrows
    BY <1>3 DEF DiskGrows
  <2>2. \A u \in Threads \ {t} : thr'[u] = thr[u]
    BY <1>3 DEF Set
  <2> QED
    BY <1>1, <1>3, <2>1, <2>2, UntouchedGrows
<1>4. CASE StartPull(t)
  <2>1. PICK c \in Commands, cli \in BOOLEAN, force \in BOOLEAN :
          Set(t, [Idle EXCEPT !.pc = IF force /\ ~ cli THEN "mkdir" ELSE "gate",
                              !.sel = c[1], !.inc = IF c[2] # NoTag THEN c[2] ELSE c[1],
                              !.place = IF cli THEN NoTag ELSE c[1],
                              !.cli = cli, !.force = force /\ cli])
    BY <1>4 DEF StartPull
  <2>2. /\ thr'[t].pc \in {"mkdir", "gate"}
        /\ thr'[t].cli = cli /\ thr'[t].sel = c[1]
        /\ thr'[t].place = IF cli THEN NoTag ELSE c[1]
    BY <1>1, <2>1 DEF Set, Idle
  <2>3. Pull(t)'
    BY <2>2 DEF Pull, Placed, Laid
  <2> QED
    BY <1>3, <1>4, <2>1, <2>3 DEF StartPull, Keep
<1>5. CASE hub' = hub /\ Quiet(t)
  <2>1. PICK r \in Locals : r.pc \in Resting /\ Set(t, r) /\ UNCHANGED <<made, dir>>
    BY <1>5 DEF Quiet
  <2>2. thr'[t] = r
    BY <1>1, <2>1 DEF Set
  <2> QED
    BY <1>2, <1>3, <1>5, <2>1, <2>2
<1>6. ASSUME hub' = hub, NEW place \in Selectors, Takes(t, place),
             NEW u \in Threads
      PROVE  Pull(u)'
  <2>1. PICK r \in Locals : r.pc \in Resting /\ thr' = [Disturbed(place) EXCEPT ![t] = r]
    BY <1>6 DEF Takes
  <2>2. DOMAIN Disturbed(place) = Threads
    BY DEF Disturbed
  <2>3. CASE u = t
    <3>1. thr'[t] = r
      BY <1>1, <2>1, <2>2
    <3> QED
      BY <1>2, <2>1, <2>3, <3>1
  <2>4. CASE u # t
    <3>1. thr'[u] = Disturbed(place)[u]
      BY <2>1, <2>2, <2>4
    <3>2. thr[u].place # place => (thr[u].place \in made => thr[u].place \in made')
      BY <1>6 DEF Takes
    <3>3. thr[u].place # place => dir[thr[u].place] \subseteq dir'[thr[u].place]
      <4>1. thr[u].place \in Selectors
        BY <1>1 DEF Locals
      <4>2. CASE \E f : dir' = [dir EXCEPT ![place] = @ \ {f}]
        BY <1>1, <4>1, <4>2
      <4> QED
        BY <1>6, <4>2 DEF Takes
    <3> QED
      BY <1>6, <3>1, <3>2, <3>3, Disturbs
  <2> QED
    BY <2>3, <2>4
<1> QED
  BY <1>4, <1>5, <1>6, Removal

LEMMA BootStep ==
  ASSUME Typed, \A u \in Threads : Pull(u), BootSteps \/ Crash
  PROVE  \A u \in Threads : Pull(u)'
<1>1. /\ Boot \in Threads /\ hub' = hub /\ made' = made /\ dir' = dir /\ DiskGrows
      /\ thr \in [Threads -> Locals] /\ thr[Boot] \in Locals
  BY Selection DEF BootSteps, Crash, BootCheck, BootConfirm, BootRetry, BootDone, DiskGrows, Typed,
                   ThreadsTyped
<1>2. ASSUME NEW u \in Threads, thr'[u] = Idle PROVE Pull(u)'
  BY <1>2 DEF Pull, Placed, Laid, Idle
<1>3. ASSUME NEW r, Set(Boot, r), Pull(Boot)' PROVE \A u \in Threads : Pull(u)'
  <2>1. \A u \in Threads \ {Boot} : thr'[u] = thr[u]
    BY <1>3 DEF Set
  <2> QED
    BY <1>1, <1>3, <2>1, UntouchedGrows
<1>4. CASE UNCHANGED thr
  BY <1>1, <1>4, UntouchedGrows
<1>5. CASE Set(Boot, Idle)
  <2>1. thr'[Boot] = Idle
    BY <1>1, <1>5 DEF Set
  <2> QED
    BY <1>1, <1>2, <1>3, <1>5, <2>1
<1>6. CASE BootCheck /\ ~ UNCHANGED thr
  <2>1. Set(Boot, [Idle EXCEPT !.pc = "mkdir", !.sel = Model, !.place = Model, !.inc = Model])
    BY <1>6 DEF BootCheck
  <2>2. thr'[Boot].pc = "mkdir" /\ thr'[Boot].sel = Model /\ thr'[Boot].place = Model
    BY <1>1, <2>1 DEF Set, Idle
  <2>3. Pull(Boot)'
    BY <2>2 DEF Pull, Placed, Laid
  <2> QED
    BY <1>3, <2>1, <2>3
<1>7. CASE Goto(Boot, "mkdir")
  <2>1. thr'[Boot].pc = "mkdir" /\ thr'[Boot].sel = thr[Boot].sel /\ thr'[Boot].cli = thr[Boot].cli
        /\ thr'[Boot].place = thr[Boot].place
    BY <1>1, <1>7 DEF Goto, Set, Locals
  <2>2. Pull(Boot)'
    BY <1>1, <2>1 DEF Pull, Placed, Laid
  <2> QED
    BY <1>3, <1>7, <2>2 DEF Goto
<1>8. CASE Crash
  BY <1>2, <1>8 DEF Crash
<1> QED
  BY <1>4, <1>5, <1>6, <1>7, <1>8 DEF BootSteps, BootConfirm, BootRetry, BootDone

LEMMA PullsInit == Init => AllPulls
BY DEF Init, AllPulls, Pull, Placed, Laid, Idle

LEMMA PullsStep == Typed /\ AllPulls /\ [Next]_vars => AllPulls'
<1> SUFFICES ASSUME Typed, AllPulls, [Next]_vars PROVE AllPulls'
  OBVIOUS
<1>1. CASE UNCHANGED vars
  BY <1>1 DEF vars, AllPulls, Pull, Placed, Laid
<1>2. \A u \in Threads : Pull(u)
  BY DEF AllPulls
<1>3. CASE Next
  <2>1. \A u \in Threads : Pull(u)'
    BY <1>2, <1>3, PullStep, UserStep, BootStep DEF Next
  <2> QED
    BY <2>1 DEF AllPulls
<1> QED
  BY <1>1, <1>3
--------------------------------------------------------------------------------
(* What the startup pull has seen.                                         *)

LEMMA LocalStays ==
  ASSUME NEW d, NEW e, NEW s \in Selectors, \A r \in Selectors : d[r] \subseteq e[r], Local(d, s)
  PROVE  Local(e, s)
<1>1. ASSUME NEW held, NEW more, held \subseteq more, NEW tag, dir_holds_model(held, tag)
      PROVE  dir_holds_model(more, tag)
  BY <1>1 DEF dir_holds_model
<1>2. d[s] \subseteq e[s] /\ d[NoTag] \subseteq e[NoTag]
  BY Selection
<1> QED
  BY <1>1, <1>2 DEF Local

LEMMA RequiredSelectors == \A i \in DOMAIN Required : Required[i] \in Selectors
BY StoreAssumption

(* As long as nothing is removed and the position does not move.           *)
LEMMA SeenStays ==
  ASSUME Typed, Seen, boot'.i = boot.i, boot'.done = boot.done,
         boot'.kept => boot.kept /\ \A s \in Selectors : dir[s] \subseteq dir'[s]
  PROVE  Seen'
<1> SUFFICES ASSUME boot'.kept
             PROVE  /\ \A i \in DOMAIN Required : i < boot'.i => Local(dir', Required[i])
                    /\ boot'.done => boot'.i = Len(Required) + 1
  BY DEF Seen
<1>1. \A i \in DOMAIN Required : i < boot.i => Local(dir, Required[i])
  BY DEF Seen
<1>2. ASSUME NEW i \in DOMAIN Required, i < boot.i PROVE Local(dir', Required[i])
  <2>1. Local(dir, Required[i]) /\ Required[i] \in Selectors
    BY <1>1, <1>2, RequiredSelectors
  <2> QED
    BY <2>1, LocalStays
<1> QED
  BY <1>2 DEF Seen

(* The step to the next model comes after is_local has said yes.           *)
LEMMA SeenNext ==
  ASSUME Typed, Seen, Running, boot.i <= Len(Required), is_local(Model), boot' = NextModel(boot),
         dir' = dir
  PROVE  Seen'
<1>1. boot.i \in 1 .. Len(Required) + 1 /\ boot'.i = boot.i + 1 /\ boot'.kept = boot.kept
      /\ ~ boot'.done
  BY DEF Typed, BootTyped, BootLocals, NextModel, Running
<1>2. Local(dir, Required[boot.i])
  BY DEF is_local, Local, Held, Model
<1>3. \A i \in DOMAIN Required : i < boot.i + 1 => i < boot.i \/ i = boot.i
  BY <1>1, RequiredTyped
<1> QED
  BY <1>1, <1>2, <1>3 DEF Seen

LEMMA SeenInit == Init => Seen
<1>1. \A i \in DOMAIN Required : ~ (i < 1)
  BY RequiredTyped
<1> QED
  BY <1>1 DEF Init, BootInit, Seen

LEMMA SeenStep == Typed /\ Seen /\ [Next]_vars => Seen'
<1> SUFFICES ASSUME Typed, Seen, [Next]_vars PROVE Seen'
  OBVIOUS
<1>1. boot \in BootLocals /\ boot.i \in 1 .. Len(Required) + 1
      /\ dir \in [Selectors -> SUBSET Listed]
  BY DEF Typed, BootTyped, BootLocals, DiskTyped
<1>2. ASSUME UNCHANGED boot, \A s \in Selectors : dir[s] \subseteq dir'[s] PROVE Seen'
  BY <1>2, SeenStays
<1>3. CASE UNCHANGED vars
  BY <1>2, <1>3 DEF vars
<1>4. ASSUME NEW t \in Threads, Pulls(t) \/ Breaks(t) PROVE Seen'
  BY <1>2, <1>4, PullGrows DEF DiskGrows
<1>5. ASSUME NEW t \in Users, StartPull(t) PROVE Seen'
  BY <1>2, <1>5 DEF StartPull, Keep
<1>6. ASSUME NEW t \in Users, Quiet(t) PROVE Seen'
  BY <1>2, <1>6 DEF Quiet
<1>7. ASSUME NEW t \in Users, NEW place \in Selectors, Takes(t, place) PROVE Seen'
  <2>1. CASE boot' = boot /\ dir' = dir
    BY <1>2, <2>1
  <2>2. CASE boot' = [boot EXCEPT !.kept = FALSE]
    <3>1. boot'.i = boot.i /\ boot'.done = boot.done /\ ~ boot'.kept
      BY <1>1, <2>2 DEF BootLocals
    <3> QED
      BY <3>1, SeenStays
  <2> QED
    BY <1>7, <2>1, <2>2 DEF Takes
<1>8. CASE BootCheck
  <2>1. CASE is_local(Model)
    BY <1>8, <2>1, SeenNext DEF BootCheck
  <2>2. CASE ~ is_local(Model)
    <3>1. boot' = [boot EXCEPT !.attempt = 1] /\ dir' = dir
      BY <1>8, <2>2 DEF BootCheck
    <3>2. boot'.i = boot.i /\ boot'.done = boot.done /\ boot'.kept = boot.kept
      BY <1>1, <3>1 DEF BootLocals
    <3> QED
      BY <3>1, <3>2, SeenStays
  <2> QED
    BY <2>1, <2>2
<1>9. CASE BootConfirm
  <2>1. boot.i <= Len(Required)
    BY <1>9 DEF BootConfirm, At, Typed, BootAtWork
  <2> QED
    BY <1>9, <2>1, SeenNext DEF BootConfirm
<1>10. CASE BootRetry
  <2>1. boot'.i = boot.i /\ boot'.done = boot.done /\ boot'.kept = boot.kept /\ dir' = dir
    BY <1>1, <1>10 DEF BootRetry, BootLocals
  <2> QED
    BY <2>1, SeenStays
<1>11. CASE BootDone
  <2>1. boot.i > Len(Required) /\ boot' = [boot EXCEPT !.done = TRUE] /\ dir' = dir
    BY <1>11 DEF BootDone
  <2>2. boot'.i = boot.i /\ boot'.kept = boot.kept
    BY <1>1, <2>1 DEF BootLocals
  <2>3. boot.i = Len(Required) + 1
    BY <1>1, <2>1, RequiredTyped
  <2> QED
    BY <2>1, <2>2, <2>3 DEF Seen
<1>12. CASE Crash
  <2>1. \A i \in DOMAIN Required : ~ (i < 1)
    BY RequiredTyped
  <2>2. boot' = BootInit
    BY <1>12 DEF Crash
  <2> QED
    BY <2>1, <2>2 DEF BootInit, Seen
<1> QED
  BY <1>3, <1>4, <1>5, <1>6, <1>7, <1>8, <1>9, <1>10, <1>11, <1>12, Removal DEF Next, BootSteps
--------------------------------------------------------------------------------
LEMMA Inductive == Spec => []IInv
<1>1. Init => IInv
  BY TypedInit, PullsInit, SeenInit DEF IInv
<1>2. IInv /\ [Next]_vars => IInv'
  BY TypedStep, PullsStep, SeenStep DEF IInv
<1> QED
  BY <1>1, <1>2, PTL DEF Spec

(* hub.rs, pull_inner: a pull that reports success leaves every file it    *)
(* chose, for any listing and any other pulls, deletions and crashes, as   *)
(* long as nobody removed files of that directory since it made it.        *)
THEOREM PullsAreWhole == Spec => []PullLeavesAllWanted
<1>1. IInv => PullLeavesAllWanted
  <2> SUFFICES ASSUME IInv, NEW t \in Threads, At(t, "ok"), thr[t].clean,
                      NEW i \in Chosen(thr[t].inc)
               PROVE  hub[i] \in Held(thr[t].place)
    BY DEF PullLeavesAllWanted
  <2>1. Laid(t) /\ i \in Lines(hub, thr[t].inc)
    BY ChosenIsLines DEF IInv, AllPulls, Pull
  <2> QED
    BY <2>1 DEF Laid, At, Held
<1> QED
  BY <1>1, Inductive, PTL

(* api.rs, handle_ready: a server that calls itself ready has every model  *)
(* of CIMA_PULL_AT_STARTUP, whatever the list and however often pulls fail *)
(* and the process dies, as long as nothing has been removed.              *)
THEOREM ReadyIsReady == Spec => []ReadyFormsAgree
<1>1. IInv => ReadyFormsAgree
  <2> SUFFICES ASSUME IInv, Ready, boot.kept
               PROVE  ReadyFor({Required[i] : i \in DOMAIN Required})
    BY DEF ReadyFormsAgree
  <2>1. boot.i = Len(Required) + 1 /\ ~ boot.failed
    BY DEF IInv, Seen, Ready
  <2>2. \A i \in DOMAIN Required : i < boot.i
    BY <2>1, RequiredTyped
  <2>3. \A i \in DOMAIN Required : Local(dir, Required[i])
    BY <2>2 DEF IInv, Seen
  <2> QED
    BY <2>1, <2>3 DEF ReadyFor, is_local, Local, Held
<1> QED
  BY <1>1, Inductive, PTL
--------------------------------------------------------------------------------
(* What load opens.  Both minima are taken over names: of the length among *)
(* the quantizations, of the rank among the projectors.                    *)

LEMMA ShortestExists ==
  ASSUME NEW S \in SUBSET File, S # {}
  PROVE  \E f \in S : \A g \in S : f.length <= g.length
<1> DEFINE N == {f.length : f \in S}
<1>1. N \in SUBSET Nat /\ N # {}
  BY DEF File
<1>2. PICK m \in N : \A n \in N : m <= n
  <2> HIDE DEF N
  <2> QED
    BY <1>1, LeastExists
<1> QED
  BY <1>2

LEMMA FirstRankedExists ==
  ASSUME NEW S \in SUBSET File, S # {}
  PROVE  \E f \in S : \A g \in S : f.rank <= g.rank
<1> DEFINE N == {f.rank : f \in S}
<1>1. N \in SUBSET Nat /\ N # {}
  BY DEF File
<1>2. PICK m \in N : \A n \in N : m <= n
  <2> HIDE DEF N
  <2> QED
    BY <1>1, LeastExists
<1> QED
  BY <1>2

(* A part of the listing that has all of its first projectors has the same *)
(* first projectors.                                                       *)
Firsts(files) == {f \in Best(files) : f.kind = "mmproj"}

LEMMA SameFirsts ==
  ASSUME NEW all \in SUBSET File, NEW held \in SUBSET File,
         {f \in held : f.kind = "mmproj"} \subseteq all, Firsts(all) \subseteq held
  PROVE  Firsts(held) = Firsts(all)
<1> DEFINE P == {f \in all : f.kind = "mmproj"}
<1>1. Firsts(all) = {f \in P : \A g \in P : f.rank <= g.rank}
  BY DEF Firsts, Best
<1>2. Firsts(held) = {f \in held : f.kind = "mmproj"
                                   /\ \A g \in held : g.kind = "mmproj" => f.rank <= g.rank}
  BY DEF Firsts, Best
<1>3. \A f \in File : f.rank \in Nat
  BY DEF File
<1>4. CASE P = {}
  BY <1>1, <1>2, <1>4
<1>5. CASE P # {}
  <2>1. PICK m \in P : \A g \in P : m.rank <= g.rank
    <3>1. P \in SUBSET File
      OBVIOUS
    <3> QED
      BY <1>5, <3>1, FirstRankedExists
  <2>2. m \in Firsts(all) /\ m \in held /\ m.kind = "mmproj"
    BY <1>1, <2>1
  <2>3. ASSUME NEW f \in Firsts(held) PROVE f \in Firsts(all)
    <3>1. f \in P /\ f.rank <= m.rank
      BY <1>2, <2>2
    <3>2. \A g \in P : f.rank <= g.rank
      BY <1>3, <2>1, <3>1
    <3> QED
      BY <1>1, <3>1, <3>2
  <2>4. ASSUME NEW f \in Firsts(all) PROVE f \in Firsts(held)
    BY <1>1, <1>2
  <2> QED
    BY <2>3, <2>4
<1> QED
  BY <1>4, <1>5

(* With a tag pull_inner keeps the quantizations of the tag and the first  *)
(* projectors of the whole repository.                                     *)
LEMMA TagChooses ==
  ASSUME HubTyped, NEW tag \in Selectors, tag # NoTag
  PROVE  /\ \A f \in Ggufs : f.kind = "gguf" /\ tag \in f.has =>
              \E i \in Lines(hub, tag) : hub[i] = f
         /\ \A f \in Firsts(Ggufs) : \E i \in Lines(hub, tag) : hub[i] = f
<1> DEFINE kept == {hub[i] : i \in {j \in DOMAIN hub : wanted(hub[j], tag)}}
<1>1. tag # AnyGguf
  BY Selection
<1>2. \A f : f.kind = "gguf" /\ tag \in f.has => wanted(f, tag)
  BY <1>1 DEF wanted
<1>3. \A f : f.kind = "mmproj" => wanted(f, tag)
  BY DEF wanted
<1>4. \A f \in Best(kept) : \E i \in Lines(hub, tag) : hub[i] = f
  <2>1. Lines(hub, tag) = {i \in DOMAIN hub : hub[i] \in Best(kept)}
    BY DEF Lines
  <2>2. Best(kept) \subseteq kept /\ \A f \in kept : \E i \in DOMAIN hub : hub[i] = f
    BY DEF Best
  <2> QED
    BY <2>1, <2>2
<1>5. ASSUME NEW f \in Ggufs, f.kind = "gguf", tag \in f.has PROVE f \in Best(kept)
  BY <1>2, <1>5 DEF Ggufs, Best
<1>6. ASSUME NEW f \in Firsts(Ggufs) PROVE f \in Best(kept)
  <2>1. f \in Ggufs /\ f.kind = "mmproj"
        /\ \A g \in Ggufs : g.kind = "mmproj" => f.rank <= g.rank
    BY DEF Firsts, Best
  <2>2. f \in kept
    BY <1>3, <2>1 DEF Ggufs
  <2>3. \A g \in kept : g.kind = "mmproj" => g \in Ggufs
    BY DEF Ggufs
  <2> QED
    BY <2>1, <2>2, <2>3 DEF Best
<1> QED
  BY <1>4, <1>5, <1>6

(* models/mod.rs, load and load_gguf: what a tagged pull over HTTP or at   *)
(* startup left is what load opens for the tag, and its projector is the   *)
(* one that ranks first in the whole repository, for any listing and any   *)
(* interleaving, unless files of that directory have been removed.         *)
THEOREM LoadsWhatItPulled == Spec => []PulledIsLoaded
<1>1. IInv => PulledIsLoaded
  <2> SUFFICES ASSUME IInv, NEW t \in Threads, At(t, "ok"), thr[t].clean, ~ thr[t].cli,
                      NEW tag, tag = thr[t].sel, thr[t].inc = tag, tag # NoTag,
                      NEW q \in Ggufs, q.kind = "gguf", tag \in q.has
               PROVE  /\ load(tag) # {} /\ \A f \in load(tag) : tag \in f.has
                      /\ Projector(tag) = {f \in Best(Ggufs) : f.kind = "mmproj"}
    BY DEF PulledIsLoaded
  <2>1. HubTyped /\ tag \in Selectors /\ dir[tag] \subseteq Listed
    BY DEF IInv, Typed, ThreadsTyped, DiskTyped, Locals
  <2>2. thr[t].place = tag /\ tag \in made /\ \A i \in Lines(hub, tag) : hub[i] \in dir[tag]
    BY DEF IInv, AllPulls, Pull, Placed, Laid, At
  <2>3. LoadDir(tag) = dir[tag]
    BY <2>2 DEF LoadDir, Exists, Held
  <2>4. q \in dir[tag] /\ Firsts(Ggufs) \subseteq dir[tag]
    BY <2>1, <2>2, TagChooses
  <2>5. dir[tag] \in SUBSET File /\ Ggufs \in SUBSET File
    BY <2>1, ListingTyped DEF Listed, Ggufs
  <2>6. load(tag) # {} /\ \A f \in load(tag) : tag \in f.has
    <3> DEFINE fits == {f \in dir[tag] : f.kind = "gguf" /\ tag \in f.has}
    <3>1. load(tag) = {f \in fits : \A g \in fits : f.length <= g.length}
      BY <2>3 DEF load, load_gguf
    <3>2. fits \in SUBSET File /\ fits # {}
      BY <2>4, <2>5
    <3> QED
      BY <3>1, <3>2, ShortestExists
  <2>7. Projector(tag) = {f \in Best(Ggufs) : f.kind = "mmproj"}
    <3>1. {f \in dir[tag] : f.kind = "mmproj"} \subseteq Ggufs
      BY <2>1 DEF Listed, Ggufs
    <3>2. Firsts(dir[tag]) = Firsts(Ggufs)
      BY <2>4, <2>5, <3>1, SameFirsts
    <3> QED
      BY <2>3, <3>2 DEF Projector, Firsts
  <2> QED
    BY <2>6, <2>7
<1> QED
  BY <1>1, Inductive, PTL
================================================================================
