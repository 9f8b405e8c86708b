--------------------------------- MODULE Store ---------------------------------
(* The directories under ./models of one repository: hub.rs, main.rs, and  *)
(* the handlers of api.rs that fill, empty and inspect them.  A selector   *)
(* ORG/REPO[:TAG] is its tag; NoTag is the bare repository.  The HTTP pull *)
(* stores under ORG__REPO@TAG and the command line under ORG__REPO, so a   *)
(* tag has two places to be.  A file is there whole or not at all: that is *)
(* what module Fetch shows of one file.                                    *)
EXTENDS Naturals, Sequences, FiniteSets

CONSTANTS
  Hubs,         \* listings a repository may have: sequences of files
  Tags,         \* what follows ':' in a selector, and what --include filters by
  NoTag,        \* no ':' in the selector
  AnyGguf,      \* the filter ".gguf" of a pull that names no tag
  Users,        \* connections and commands
  Boot,         \* the thread of the startup pull
  Required,     \* CIMA_PULL_AT_STARTUP: a sequence of selectors
  Commands,     \* pairs of a selector and an include that users pull with
  MaxAttempts,  \* MAX_ATTEMPTS of the startup pull
  MaxCrashes    \* bound: how often the process dies

Selectors == Tags \cup {NoTag}
Filters == Selectors \cup {AnyGguf}
Kinds == {"config", "st", "gguf", "mmproj"}
Threads == Users \cup {Boot}

(* has: the tags that are substrings of the name; label: the tag quant_tag *)
(* reads off the name; length: of the name; rank: of a projector's type.   *)
ASSUME StoreAssumption ==
  /\ Tags # {} /\ NoTag \notin Tags /\ AnyGguf \notin Tags \cup {NoTag}
  /\ Boot \notin Users
  /\ MaxAttempts \in Nat \ {0} /\ MaxCrashes \in Nat
  /\ Required \in Seq(Selectors)
  /\ Commands \subseteq Selectors \X Selectors
  /\ Hubs \subseteq Seq([name : STRING, kind : Kinds, has : SUBSET Tags,
                         label : Selectors, length : Nat, rank : 0 .. 3])

VARIABLES
  hub,      \* what the repository holds; fixed during a behaviour
  made,     \* the selectors whose directory exists
  dir,      \* per selector the files in it
  thr,      \* per thread what it is doing
  boot,     \* the locals of the startup pull, the flags of Startup, and
            \* kept: nobody has removed a file since the process started
  crashes

vars == <<hub, made, dir, thr, boot, crashes>>

Idle == [pc |-> "idle", sel |-> NoTag, place |-> NoTag, inc |-> NoTag,
         cli |-> FALSE, force |-> FALSE, todo |-> {}, clean |-> TRUE, victims |-> {}, swept |-> {}]
BootInit == [i |-> 1, attempt |-> 0, done |-> FALSE, failed |-> FALSE, kept |-> TRUE]

Init ==
  /\ hub \in Hubs
  /\ made = {} /\ dir = [s \in Selectors |-> {}]
  /\ thr = [t \in Threads |-> Idle]
  /\ boot = BootInit
  /\ crashes = 0
--------------------------------------------------------------------------------
(* Names and listings.                                                     *)

Held(s) == dir[s]
Exists(s) == s \in made

wanted(f, inc) ==
  \/ f.kind = "config"
  \/ f.kind = "mmproj" /\ inc # NoTag
  \/ f.kind = "st" /\ inc = NoTag
  \/ f.kind = "gguf" /\ inc = AnyGguf
  \/ f.kind \in {"st", "gguf"} /\ inc \notin {NoTag, AnyGguf} /\ inc \in f.has

(* pull_inner keeps one projector, the one whose name ranks first.         *)
Best(files) ==
  {f \in files : f.kind = "mmproj" =>
     \A g \in files : g.kind = "mmproj" => f.rank <= g.rank}

(* The lines of the listing to fetch, and the next of them.                *)
Chosen(inc) ==
  LET keep == Best({hub[i] : i \in {j \in DOMAIN hub : wanted(hub[j], inc)}})
  IN {i \in DOMAIN hub : hub[i] \in keep}

First(lines) == CHOOSE i \in lines : \A j \in lines : i <= j

dir_holds_model(held, tag) ==
  \/ \E f \in held : f.kind = "gguf" /\ (tag = NoTag \/ tag \in f.has)
  \/ /\ \E f \in held : f.kind = "config"
     /\ \E f \in held : f.kind = "st"

is_local(s) == dir_holds_model(Held(s), s) \/ dir_holds_model(Held(NoTag), s)

(* list_local: a row per quantization; else one for the directory.         *)
Rows ==
  UNION {LET ggufs == {f \in Held(s) : f.kind = "gguf"}
         IN IF ggufs # {} THEN {f.label : f \in ggufs}
            ELSE IF Held(s) # {} THEN {s} ELSE {} : s \in Selectors}

\* A slip: load looks only where older versions stored.
LoadDirBare(s) == Held(NoTag)

(* load: where it looks, and what it opens there; {} stands for an error.  *)
LoadDir(s) == IF Exists(s) THEN Held(s) ELSE Held(NoTag)

ByExtension(held) == {f \in held : f.kind \in {"gguf", "mmproj"}}

load_gguf(held, tag) ==
  LET fits == {f \in held : f.kind = "gguf" /\ (tag = NoTag \/ tag \in f.has)}
  IN IF tag = NoTag /\ Cardinality(fits) > 1 THEN {}
     ELSE {f \in fits : \A g \in fits : f.length <= g.length}

Metas == {hub[i] : i \in {j \in DOMAIN hub : hub[j].kind = "config"}}
AllShards == {hub[i] : i \in {j \in DOMAIN hub : hub[j].kind = "st"}}

load(s) ==
  LET held == LoadDir(s)
      config == \E f \in held : f.kind = "config"
  IN IF s # NoTag \/ (ByExtension(held) # {} /\ ~config) THEN load_gguf(held, s)
     ELSE IF config /\ AllShards \subseteq held THEN AllShards ELSE {}

(* The projector that load_gguf merges into what it opened.                *)
Projector(s) == {f \in Best(LoadDir(s)) : f.kind = "mmproj"}
--------------------------------------------------------------------------------
Set(t, r) == thr' = [thr EXCEPT ![t] = r]
Goto(t, pc) == Set(t, [thr[t] EXCEPT !.pc = pc])
Ends(t, pc) == Set(t, [Idle EXCEPT !.pc = pc])
Fail(t) == IF t = Boot THEN Set(t, [thr[t] EXCEPT !.pc = "failed", !.todo = {}])
           ELSE Ends(t, "failed")
At(t, pc) == thr[t].pc = pc
Keep == UNCHANGED <<hub, boot, crashes>>

(* A pull asks for the directory of its selector, except that the command  *)
(* line strips the tag first.  force takes the HTTP handler past its gate. *)
StartPull(t) ==
  /\ t \in Users /\ At(t, "idle")
  /\ \E c \in Commands, cli, force \in BOOLEAN :
       Set(t, [Idle EXCEPT !.pc = IF force /\ ~cli THEN "mkdir" ELSE "gate",
                           !.sel = c[1], !.inc = IF c[2] # NoTag THEN c[2] ELSE c[1],
                           !.place = IF cli THEN NoTag ELSE c[1],
                           !.cli = cli, !.force = force /\ cli])
  /\ UNCHANGED <<made, dir>> /\ Keep

(* The preflight of handle_pull and of cmd_pull.  A listing with a .gguf   *)
(* in it decides; the command line pulls a lone one with ".gguf" for its   *)
(* filter.  Without one, or when the handler gets no listing, config.json  *)
(* does, and so it does in the end for a forced command.                   *)
Ggufs == {hub[i] : i \in {j \in DOMAIN hub : hub[j].kind \in {"gguf", "mmproj"}}}

Fits(inc) == IF inc = NoTag THEN Cardinality(Ggufs) = 1 ELSE \E f \in Ggufs : inc \in f.has

GateOfServer(t) ==
  /\ At(t, "gate") /\ ~thr[t].cli
  /\ \/ Ggufs # {} /\ IF Fits(thr[t].inc) THEN Goto(t, "mkdir") ELSE Fail(t)
     \/ Goto(t, "config")                     \* no .gguf, or no listing came
  /\ UNCHANGED <<made, dir>> /\ Keep

GateOfCommand(t) ==
  LET r == thr[t] IN
  /\ At(t, "gate") /\ r.cli
  /\ \/ /\ Ggufs # {} /\ Fits(r.inc)
        /\ Set(t, [r EXCEPT !.pc = "mkdir", !.force = FALSE,
                           !.inc = IF @ = NoTag THEN AnyGguf ELSE @])
     \/ Ggufs = {} /\ Goto(t, "config")
     \/ IF r.force THEN Goto(t, "config") ELSE Fail(t)
  /\ UNCHANGED <<made, dir>> /\ Keep

(* It makes the bare directory, then fetches what is_meta names into it.   *)
pull_config(t) ==
  /\ At(t, "config")
  /\ \E accepted, fetched \in BOOLEAN :
       LET held == Held(NoTag) \cup IF fetched THEN Metas ELSE {}
       IN /\ made' = made \cup {NoTag} /\ dir' = [dir EXCEPT ![NoTag] = held]
          /\ accepted => \E f \in held : f.kind = "config"
          /\ IF accepted \/ thr[t].force
             THEN Set(t, [thr[t] EXCEPT !.pc = "mkdir", !.force = FALSE])
             ELSE Fail(t)
  /\ Keep

(* hub::pull: create_dir_all, then pull_inner.                             *)
MakeDir(t) ==
  /\ At(t, "mkdir")
  /\ made' = made \cup {thr[t].place}
  /\ Set(t, [thr[t] EXCEPT !.pc = "list", !.clean = TRUE])
  /\ UNCHANGED dir /\ Keep

list_repo(t) ==
  /\ At(t, "list")
  /\ IF \E i \in Chosen(thr[t].inc) : hub[i].kind # "config"
     THEN Set(t, [thr[t] EXCEPT !.pc = "fetch", !.todo = Chosen(thr[t].inc)])
     ELSE Fail(t)
  /\ UNCHANGED <<made, dir>> /\ Keep

(* One fetch_file: it keeps what is there, and cannot publish into a       *)
(* directory that has gone.                                                *)
FetchNext(t) ==
  LET r == thr[t]
      i == First(r.todo)
  IN
  /\ At(t, "fetch") /\ r.todo # {}
  /\ IF Exists(r.place)
     THEN /\ dir' = [dir EXCEPT ![r.place] = @ \cup {hub[i]}]
          /\ Set(t, [r EXCEPT !.todo = @ \ {i}])
     ELSE Fail(t) /\ UNCHANGED dir
  /\ UNCHANGED made /\ Keep

\* A slip: the next file after one that could not be fetched.
BreaksIgnored(t) ==
  /\ At(t, "fetch") /\ thr[t].todo # {}
  /\ Set(t, [thr[t] EXCEPT !.todo = @ \ {First(@)}])
  /\ UNCHANGED <<made, dir>> /\ Keep

Breaks(t) ==
  /\ thr[t].pc \in {"list", "fetch"} /\ Fail(t)
  /\ UNCHANGED <<made, dir>> /\ Keep

Pulled(t) ==
  /\ At(t, "fetch") /\ thr[t].todo = {} /\ Goto(t, "ok")
  /\ UNCHANGED <<made, dir>> /\ Keep

Answer(t) ==
  /\ t \in Users /\ thr[t].pc \in {"ok", "failed", "gone"} /\ Set(t, Idle)
  /\ UNCHANGED <<made, dir>> /\ Keep
--------------------------------------------------------------------------------
(* Files go one at a time; whoever is pulling into the place is disturbed. *)
Disturbed(place) ==
  [u \in Threads |-> IF thr[u].place = place /\ thr[u].pc \in {"list", "fetch", "ok"}
                     THEN [thr[u] EXCEPT !.clean = FALSE] ELSE thr[u]]

(* handle_delete looks for a model in the bare directory, an untagged      *)
(* cmd_rm for the directory.                                               *)
StartDelete(t) ==
  /\ t \in Users /\ At(t, "idle")
  /\ \E cli \in BOOLEAN :
       LET present == IF cli THEN Exists(NoTag)
                      ELSE \E f \in Held(NoTag) : f.kind \in {"config", "gguf", "mmproj"}
       IN Set(t, [Idle EXCEPT !.pc = IF present THEN "delete" ELSE "failed", !.cli = cli])
  /\ UNCHANGED <<made, dir>> /\ Keep

(* A tagged cmd_rm: the quantizations of the bare directory whose names    *)
(* have the tag, one after the other; without a bare directory the tagged  *)
(* one.                                                                    *)
StartRemoveTag(t) ==
  /\ t \in Users /\ At(t, "idle") /\ Exists(NoTag)
  /\ \E tag \in Tags :
       LET victims == {f \in Held(NoTag) : f.kind = "gguf" /\ tag \in f.has}
       IN Set(t, [Idle EXCEPT !.pc = IF victims = {} THEN "failed" ELSE "unlink",
                              !.victims = victims])
  /\ UNCHANGED <<made, dir>> /\ Keep

StartRemoveLegacy(t) ==
  /\ t \in Users /\ At(t, "idle") /\ ~Exists(NoTag)
  /\ \E tag \in Tags :
       Set(t, [Idle EXCEPT !.pc = IF Exists(tag) THEN "delete" ELSE "failed", !.place = tag])
  /\ UNCHANGED <<made, dir>> /\ Keep

(* The next of its files; one that has gone already ends the command.      *)
UnlinkVictim(t) ==
  /\ At(t, "unlink")
  /\ \E f \in thr[t].victims :
       IF f \in Held(NoTag)
       THEN /\ dir' = [dir EXCEPT ![NoTag] = @ \ {f}]
            /\ thr' = [Disturbed(NoTag) EXCEPT ![t] = [thr[t] EXCEPT !.victims = @ \ {f}]]
            /\ boot' = [boot EXCEPT !.kept = FALSE]
       ELSE Fail(t) /\ UNCHANGED <<dir, boot>>
  /\ UNCHANGED <<hub, made, crashes>>

(* The directory follows when no other quantization is left in it.         *)
RetireDir(t) ==
  /\ At(t, "unlink") /\ thr[t].victims = {}
  /\ IF Exists(NoTag)
     THEN IF \E f \in Held(NoTag) : f.kind = "gguf" THEN Ends(t, "gone") ELSE Goto(t, "delete")
     ELSE Fail(t)
  /\ UNCHANGED <<made, dir>> /\ Keep

RemoveEntry(t) ==
  /\ At(t, "delete")
  /\ \E f \in Held(thr[t].place) :
       dir' = [dir EXCEPT ![thr[t].place] = @ \ {f}]
  /\ thr' = Disturbed(thr[t].place)
  /\ boot' = [boot EXCEPT !.kept = FALSE]
  /\ UNCHANGED <<hub, made, crashes>>

(* The last rmdir.  An untagged cmd_rm goes on with the tagged directories *)
(* it sees after the bare one has gone.                                    *)
RemoveDir(t) ==
  LET place == thr[t].place
      rest == IF place = NoTag THEN made \ {NoTag} ELSE thr[t].swept
  IN
  /\ At(t, "delete") /\ Exists(place) /\ Held(place) = {}
  /\ made' = made \ {place}
  /\ thr' = [Disturbed(place) EXCEPT
               ![t] = IF thr[t].cli THEN [thr[t] EXCEPT !.pc = "sweep", !.swept = rest]
                      ELSE [Idle EXCEPT !.pc = "gone"]]
  /\ UNCHANGED dir /\ Keep

(* It fails on a file that came after the listing, and when another has    *)
(* been faster; the sweep does not mind.                                   *)
RemoveDirFails(t) ==
  LET place == thr[t].place IN
  /\ At(t, "delete")
  /\ \/ ~Exists(place)
     \/ Held(place) # {} /\ \E u \in Threads \ {t} : thr[u].pc \in {"config", "mkdir", "fetch"}
  /\ IF thr[t].cli /\ place # NoTag THEN Goto(t, "sweep") ELSE Fail(t)
  /\ UNCHANGED <<made, dir>> /\ Keep

SweepNext(t) ==
  /\ At(t, "sweep")
  /\ \/ thr[t].swept = {} /\ Ends(t, "gone")
     \/ \E s \in thr[t].swept :
          Set(t, [thr[t] EXCEPT !.pc = "delete", !.place = s, !.swept = @ \ {s}])
  /\ UNCHANGED <<made, dir>> /\ Keep
--------------------------------------------------------------------------------
(* spawn_startup_pull.                                                     *)
Model == Required[boot.i]
Running == ~boot.done /\ ~boot.failed

NextModel(b) == [b EXCEPT !.i = @ + 1, !.attempt = 0]

BootCheck ==
  /\ Running /\ At(Boot, "idle") /\ boot.i <= Len(Required)
  /\ IF is_local(Model)
     THEN boot' = NextModel(boot) /\ UNCHANGED thr
     ELSE /\ boot' = [boot EXCEPT !.attempt = 1]
          /\ Set(Boot, [Idle EXCEPT !.pc = "mkdir", !.sel = Model, !.place = Model, !.inc = Model])
  /\ UNCHANGED <<hub, made, dir, crashes>>

\* A slip: a pull that reports success is believed.
BootConfirmBlindly ==
  /\ Running /\ At(Boot, "ok")
  /\ boot' = NextModel(boot)
  /\ Set(Boot, Idle)
  /\ UNCHANGED <<hub, made, dir, crashes>>

BootConfirm ==
  /\ Running /\ At(Boot, "ok") /\ is_local(Model)
  /\ boot' = NextModel(boot)
  /\ Set(Boot, Idle)
  /\ UNCHANGED <<hub, made, dir, crashes>>

\* A slip: a retry that is not counted.
BootRetryForEver ==
  /\ Running
  /\ At(Boot, "failed") \/ (At(Boot, "ok") /\ ~is_local(Model))
  /\ Goto(Boot, "mkdir")
  /\ UNCHANGED <<hub, made, dir, boot, crashes>>

BootRetry ==
  /\ Running
  /\ At(Boot, "failed") \/ (At(Boot, "ok") /\ ~is_local(Model))
  /\ IF boot.attempt < MaxAttempts
     THEN boot' = [boot EXCEPT !.attempt = @ + 1] /\ Goto(Boot, "mkdir")
     ELSE boot' = [boot EXCEPT !.failed = TRUE] /\ Set(Boot, Idle)
  /\ UNCHANGED <<hub, made, dir, crashes>>

BootDone ==
  /\ Running /\ At(Boot, "idle") /\ boot.i > Len(Required)
  /\ boot' = [boot EXCEPT !.done = TRUE]
  /\ UNCHANGED <<hub, made, dir, thr, crashes>>

(* handle_ready: the form without models, and the form that names them.    *)
Ready == boot.done /\ ~boot.failed
ReadyFor(models) == (\A s \in models : is_local(s)) /\ ~boot.failed

(* The process dies; what is on disk stays, and the server starts anew.    *)
Crash ==
  /\ crashes < MaxCrashes /\ crashes' = crashes + 1
  /\ thr' = [t \in Threads |-> Idle]
  /\ boot' = BootInit
  /\ UNCHANGED <<hub, made, dir>>

Pulls(t) ==
  GateOfServer(t) \/ GateOfCommand(t) \/ pull_config(t) \/ MakeDir(t) \/ list_repo(t) \/ FetchNext(t) \/ Pulled(t)

Removes(t) ==
  \/ StartDelete(t) \/ StartRemoveTag(t) \/ StartRemoveLegacy(t)
  \/ UnlinkVictim(t) \/ RetireDir(t) \/ RemoveEntry(t)
  \/ RemoveDir(t) \/ RemoveDirFails(t) \/ SweepNext(t)

BootSteps == BootCheck \/ BootConfirm \/ BootRetry \/ BootDone

Next ==
  \/ \E t \in Users : StartPull(t) \/ Answer(t) \/ Removes(t)
  \/ \E t \in Threads : Pulls(t) \/ Breaks(t)
  \/ BootSteps \/ Crash

Spec == Init /\ [][Next]_vars /\ WF_vars(BootSteps) /\ WF_vars(Pulls(Boot))
--------------------------------------------------------------------------------
Pcs == {"idle", "gate", "config", "mkdir", "list", "fetch", "ok", "failed",
        "unlink", "delete", "sweep", "gone"}

(* Types; a directory holds files of the repository only, and the position *)
(* of the startup pull stays within its list.                              *)
TypeOK ==
  /\ hub \in Hubs
  /\ made \subseteq Selectors
  /\ \A s \in Selectors : /\ dir[s] \subseteq {hub[i] : i \in DOMAIN hub}
                          /\ s \notin made => dir[s] = {}
  /\ DOMAIN thr = Threads
  /\ \A t \in Threads : /\ thr[t].pc \in Pcs /\ thr[t].inc \in Filters
                        /\ {thr[t].sel, thr[t].place} \subseteq Selectors
  /\ boot.i \in 1 .. Len(Required) + 1 /\ boot.attempt \in 0 .. MaxAttempts

(* A pull that reports success leaves every file it chose in the           *)
(* directory, whatever earlier pulls, deletions and crashes left there,    *)
(* unless somebody has removed files from it meanwhile.                    *)
PullLeavesAllWanted ==
  \A t \in Threads : At(t, "ok") /\ thr[t].clean =>
    \A i \in Chosen(thr[t].inc) : hub[i] \in Held(thr[t].place)

(* What an HTTP or a startup pull fetched under a tag that the repository  *)
(* has is what load then opens for that tag, with the projector load_gguf  *)
(* would choose among all of the repository: the two sides agree on        *)
(* directory, tag and rank although each works them out for itself.        *)
PulledIsLoaded ==
  \A t \in Threads :
    LET tag == thr[t].sel IN
    /\ At(t, "ok") /\ thr[t].clean /\ ~thr[t].cli
    /\ thr[t].inc = tag /\ tag # NoTag
    /\ \E f \in Ggufs : f.kind = "gguf" /\ tag \in f.has
    => /\ load(tag) # {} /\ \A f \in load(tag) : tag \in f.has
       /\ Projector(tag) = {f \in Best(Ggufs) : f.kind = "mmproj"}

(* The two forms of /api/ready do not contradict each other: a server that *)
(* calls itself ready after its startup pull has every model it was told   *)
(* to fetch, though a pull may succeed with nothing but a projector, and   *)
(* the flags and the disk change in separate steps.                        *)
ReadyFormsAgree ==
  Ready /\ boot.kept => ReadyFor({Required[i] : i \in DOMAIN Required})

(* The startup pull comes to an end: ready, or failed after its attempts.  *)
StartupSettles == <>[](boot.done \/ boot.failed)

(* hub.rs: "Is `model` present on local disk and loadable".                *)
ReadyIsLoadable == \A s \in Selectors : is_local(s) => load(s) # {}

(* hub.rs: is_local "is the same truth `list_local` reports".              *)
OneTruth == \A s \in Rows : is_local(s)
================================================================================
