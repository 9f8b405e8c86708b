--------------------------------- MODULE Session ---------------------------------
(***************************************************************************)
(* Generations on the resident model (LoadedModel::generate in             *)
(* src/src/models/mod.rs): what is kept in the KV cache between requests,  *)
(* the incremental prefill, the four ways to get the next token, and the   *)
(* repeat-penalty window on the device.                                    *)
(*                                                                         *)
(* A row of the cache or of the activations is named by the tokens it was  *)
(* computed from.  A row attends to all rows before it: if these are not   *)
(* the rows of one prompt, the new row is Broken.  Which token a row leads *)
(* to is open, and so is where a stop string or the closing of a JSON      *)
(* value ends the text.  Prompts with media, which neither reuse nor       *)
(* truncate, are left out.                                                 *)
(***************************************************************************)
EXTENDS Integers, Sequences, FiniteSets, FiniteSetsExt

CONSTANTS
  Tokens,       \* ordinary token ids
  Families,     \* "std" (Transformer) and "gemma4"
  Modes,        \* ways to the next token, see below
  StopsIn,      \* modes in which a stop string may end a std generation
  MayEmbed,     \* whether embeddings are asked of a std model
  MaxSeq,       \* KV capacity
  Reserve,      \* slots kept for the answer, 16 in the code
  Chunk,        \* rows of one prefill step, 512 in the code
  Window,       \* tokens under the repeat penalty, 64 in the code
  MaxTokens,    \* GenOptions.max_tokens
  Prompts,      \* bound of the model: prompts, as token ids
  MaxRequests   \* bound of the model: requests in one run

ASSUME TokensAssumption == Tokens \subseteq Nat
ASSUME SizesAssumption ==
  /\ {MaxSeq, Reserve, Chunk, Window, MaxTokens, MaxRequests} \subseteq Nat
  /\ Chunk > 0 /\ Window > 0 /\ MaxSeq > Reserve + 1
ASSUME PromptsAssumption == Prompts \subseteq Seq(Tokens) \ {<<>>}
ASSUME FamiliesAssumption == Families \subseteq {"std", "gemma4"}
ASSUME ModesAssumption ==
  StopsIn \subseteq Modes /\ Modes \subseteq {"pipeline", "argmax", "sample", "logits"}

(* "pipeline": greedy, the token stays on the device and the next step is  *)
(* launched before the token is looked at.  "argmax": greedy, one step     *)
(* after the other.  "sample": top-k candidates from a graph, with the     *)
(* penalty window on the device.  "logits": the whole row on the host, as  *)
(* for constrained JSON.  Gemma 4 has no pipeline but a graph for argmax.  *)
Greedy == {"pipeline", "argmax"}

(* Operators named ...Kept, ...OfPrompt, ...Unevicted and ...Untruncated   *)
(* are bugs the code does not have; they only show that the properties can *)
(* tell.                                                                   *)
VARIABLES
  family,   \* architecture of the resident model
  kv,       \* KV cache, one row per position
  x,        \* activations, one row per row of a chunk
  session,  \* LoadedModel.session_ids
  g,        \* the generation in progress
  posdev,   \* ws.pos_dev: the device's position counter
  ring,     \* ws.hist_ring
  counts,   \* ws.hist_counts
  requests  \* requests so far

vars == <<family, kv, x, session, g, posdev, ring, counts, requests>>

device == <<posdev, ring, counts>>

NoRow == <<>>
Broken == <<-1>>

FreshCache == [p \in 0 .. (MaxSeq - 1) |-> NoRow]
FreshRing == [i \in 0 .. (Window - 1) |-> 0]
FreshCounts == [t \in Tokens \cup {0} |-> 0]

NoGeneration ==
  [pc |-> "idle", mode |-> "logits", fed |-> <<>>, reused |-> 0, done |-> 0,
   history |-> <<>>, head |-> NoRow, step |-> 0]

Init ==
  /\ family \in Families
  /\ kv = FreshCache
  /\ x = [i \in 0 .. (Chunk - 1) |-> NoRow]
  /\ session = <<>>
  /\ g = NoGeneration
  /\ posdev = 0
  /\ ring = FreshRing
  /\ counts = FreshCounts
  /\ requests = 0

Smaller(a, b) == IF a < b THEN a ELSE b

(* What the rows below position pos stand for.                             *)
Context(cache, pos) ==
  IF pos = 0 THEN <<>>
  ELSE LET last == cache[pos - 1]
       IN IF /\ Len(last) = pos
             /\ \A p \in 0 .. (pos - 1) : cache[p] = SubSeq(last, 1, p + 1)
            THEN last ELSE Broken

(* Attention of new rows for tokens, from position pos on.                 *)
NewRow(cache, pos, tokens) ==
  IF Context(cache, pos) = Broken THEN Broken ELSE Context(cache, pos) \o tokens

--------------------------------------------------------------------------------
(* The start of generate: reset, truncation, common prefix.                *)

TruncatedUntruncated(prompt) == prompt

(* The first token and the most recent tail.                               *)
Truncated(prompt) ==
  IF Len(prompt) + Reserve <= MaxSeq THEN prompt
  ELSE LET keep == MaxSeq - Reserve
       IN <<prompt[1]>> \o SubSeq(prompt, Len(prompt) - keep + 2, Len(prompt))

(* Rows that need no prefill; one token is always left to compute.         *)
Reusable(fed) ==
  IF family = "std"
    THEN Max({n \in 0 .. Smaller(Len(session), Len(fed) - 1) :
                SubSeq(session, 1, n) = SubSeq(fed, 1, n)})
    ELSE 0

ModesOf(f) == IF f = "std" THEN Modes ELSE Modes \ {"pipeline"}

(* Gemma 4 clears its cache and window; otherwise only a cursor moves.     *)
AfterReset(fresh, held) == IF family = "gemma4" THEN fresh ELSE held

Reset ==
  /\ kv' = AfterReset(FreshCache, kv)
  /\ ring' = AfterReset(FreshRing, ring)
  /\ counts' = AfterReset(FreshCounts, counts)

BeginKept(prompt, mode) ==
  /\ g.pc = "idle" /\ requests < MaxRequests
  /\ requests' = requests + 1
  /\ LET fed == Truncated(prompt)
     IN g' = [NoGeneration EXCEPT !.pc = "prefill", !.mode = mode, !.fed = fed,
                                  !.reused = Reusable(fed), !.history = fed]
  /\ Reset
  /\ UNCHANGED <<family, x, session, posdev>>

Begin(prompt, mode) ==
  /\ g.pc = "idle" /\ requests < MaxRequests
  /\ requests' = requests + 1
  /\ LET fed == Truncated(prompt)
     IN g' = [NoGeneration EXCEPT !.pc = "prefill", !.mode = mode, !.fed = fed,
                                  !.reused = Reusable(fed), !.history = fed]
  /\ session' = <<>>
  /\ Reset
  /\ UNCHANGED <<family, x, posdev>>

--------------------------------------------------------------------------------
(* Prefill.                                                                *)

Delta == Len(g.fed) - g.reused

(* One chunk of the delta through the layers, after the capacity check.    *)
PrefillChunk ==
  /\ g.pc = "prefill" /\ g.done < Delta
  /\ IF Len(g.fed) > MaxSeq
       THEN g' = [g EXCEPT !.pc = "refused"] /\ UNCHANGED <<kv, x>>
       ELSE LET take == Smaller(Delta - g.done, Chunk)
                pos == g.reused + g.done
                row(i) == NewRow(kv, pos, SubSeq(g.fed, pos + 1, pos + i + 1))
            IN /\ x' = [i \in DOMAIN x |-> IF i < take THEN row(i) ELSE x[i]]
               /\ kv' = [p \in DOMAIN kv |->
                           IF p \in pos .. (pos + take - 1) THEN row(p - pos) ELSE kv[p]]
               /\ g' = [g EXCEPT !.done = @ + take]
  /\ UNCHANGED <<family, session, device, requests>>

(* k_hist_push: evict what the ring slot held, admit the token.            *)
PushUnevicted(hist, pos, t) ==
  [ring |-> [hist.ring EXCEPT ![pos % Window] = t],
   counts |-> [hist.counts EXCEPT ![t] = @ + 1]]

Push(hist, pos, t) ==
  LET old == hist.ring[pos % Window]
      evicted == [hist.counts EXCEPT ![old] = IF @ > 0 THEN @ - 1 ELSE 0]
  IN [ring |-> [hist.ring EXCEPT ![pos % Window] = t],
      counts |-> [evicted EXCEPT ![t] = @ + 1]]

(* hist_reset_and_seed: the tail of the prompt, at its positions.          *)
Seeded(fed) ==
  LET first == IF Len(fed) > Window THEN Len(fed) - Window ELSE 0
      after[p \in first .. Len(fed)] ==
        IF p = first THEN [ring |-> FreshRing, counts |-> FreshCounts]
        ELSE Push(after[p - 1], p - 1, fed[p])
  IN after[Len(fed)]

(* Where the first token is projected from: prefill_argmax counts the row  *)
(* from the start of the prompt, prefill from the start of the delta.      *)
HeadRowOfPrompt == (Len(g.fed) - 1) % Chunk

HeadRow ==
  IF g.mode \in Greedy THEN (Delta + g.reused - 1) % Chunk ELSE (Delta - 1) % Chunk

Budget == Smaller(MaxTokens, MaxSeq - Len(g.fed))

(* Project, arm the graph of the mode, seed the window.                    *)
Project ==
  /\ g.pc = "prefill" /\ g.done = Delta
  /\ g' = [g EXCEPT !.head = x[HeadRow], !.pc = IF Budget = 0 THEN "finish" ELSE "sample"]
  /\ posdev' = IF g.mode = "logits" THEN posdev ELSE Len(g.fed)
  /\ IF g.mode = "sample"
       THEN ring' = Seeded(g.fed).ring /\ counts' = Seeded(g.fed).counts
       ELSE UNCHANGED <<ring, counts>>
  /\ UNCHANGED <<family, kv, x, session, requests>>

--------------------------------------------------------------------------------
(* The token loop.                                                         *)

(* An end-of-sequence token ends the loop and is not fed.                  *)
EndOfTurn ==
  /\ g.pc = "sample"
  /\ g' = [g EXCEPT !.pc = "finish"]
  /\ UNCHANGED <<family, kv, x, session, device, requests>>

(* One decode step for token t at position pos.                            *)
Decode(pos, t) ==
  /\ x' = [x EXCEPT ![0] = NewRow(kv, pos, <<t>>)]
  /\ kv' = [kv EXCEPT ![pos] = NewRow(kv, pos, <<t>>)]

(* Accept t; the pipeline has launched its step by then.                   *)
Accept(t) ==
  /\ g.pc = "sample"
  /\ IF g.mode = "pipeline"
       THEN /\ Decode(posdev, t)
            /\ posdev' = posdev + 1
            /\ g' = [g EXCEPT !.history = Append(@, t), !.pc = "accepted",
                              !.head = NewRow(kv, posdev, <<t>>)]
       ELSE /\ g' = [g EXCEPT !.history = Append(@, t), !.pc = "accepted"]
            /\ UNCHANGED <<kv, x, posdev>>
  /\ UNCHANGED <<family, session, ring, counts, requests>>

(* A stop string, or the end of the JSON value, ends the loop at once.     *)
StopString ==
  /\ g.pc = "accepted"
  /\ family = "std" => g.mode \in StopsIn
  /\ g' = [g EXCEPT !.pc = "finish"]
  /\ UNCHANGED <<family, kv, x, session, device, requests>>

(* A captured step takes its position from the device's counter.           *)
Captured == g.mode = "sample" \/ (g.mode = "argmax" /\ family = "gemma4")

AfterStep == IF g.step + 1 = Budget THEN "finish" ELSE "sample"

(* The rest of a round: wait for the fetch, or run the decode step.        *)
Step ==
  /\ g.pc = "accepted"
  /\ LET t == g.history[Len(g.history)]
         pos == IF Captured THEN posdev ELSE Len(g.fed) + g.step
     IN IF g.mode = "pipeline"
          THEN /\ g' = [g EXCEPT !.pc = AfterStep, !.step = @ + 1]
               /\ UNCHANGED <<kv, x, device>>
          ELSE /\ Decode(pos, t)
               /\ g' = [g EXCEPT !.pc = AfterStep, !.step = @ + 1,
                                 !.head = NewRow(kv, pos, <<t>>)]
               /\ posdev' = IF Captured THEN posdev + 1 ELSE posdev
               /\ IF g.mode = "sample"
                    THEN LET pushed == Push([ring |-> ring, counts |-> counts], posdev, t)
                         IN ring' = pushed.ring /\ counts' = pushed.counts
                    ELSE UNCHANGED <<ring, counts>>
  /\ UNCHANGED <<family, session, requests>>

(* Sync, then session_ids := history.                                      *)
Finish ==
  /\ g.pc = "finish"
  /\ session' = g.history
  /\ g' = NoGeneration
  /\ UNCHANGED <<family, kv, x, device, requests>>

(* Any call fails: the generation returns its error with the session gone. *)
Fail ==
  /\ g.pc # "idle"
  /\ g' = NoGeneration
  /\ UNCHANGED <<family, kv, x, session, device, requests>>

--------------------------------------------------------------------------------
(* embed runs its tokens through the same layers from position 0 on.       *)
Embed(tokens) ==
  /\ g.pc = "idle" /\ requests < MaxRequests
  /\ family = "std" => MayEmbed
  /\ requests' = requests + 1
  /\ LET n == Smaller(Len(tokens), Smaller(MaxSeq, Chunk))
         before == AfterReset(FreshCache, kv)
     IN /\ kv' = [p \in DOMAIN kv |-> IF p < n THEN SubSeq(tokens, 1, p + 1) ELSE before[p]]
        /\ x' = [i \in DOMAIN x |-> IF i < n THEN SubSeq(tokens, 1, i + 1) ELSE x[i]]
  /\ ring' = AfterReset(FreshRing, ring)
  /\ counts' = AfterReset(FreshCounts, counts)
  /\ UNCHANGED <<family, session, g, posdev>>

(* The model is evicted and a model is loaded.                             *)
Reload ==
  /\ g.pc = "idle" /\ session # <<>>
  /\ family' \in Families
  /\ kv' = FreshCache
  /\ x' = [i \in DOMAIN x |-> NoRow]
  /\ session' = <<>>
  /\ posdev' = 0 /\ ring' = FreshRing /\ counts' = FreshCounts
  /\ UNCHANGED <<g, requests>>

(* The bound of the model is reached.                                      *)
Rest == g.pc = "idle" /\ requests = MaxRequests /\ UNCHANGED vars

Next ==
  \/ \E prompt \in Prompts : \E mode \in ModesOf(family) : Begin(prompt, mode)
  \/ PrefillChunk \/ Project
  \/ EndOfTurn \/ StopString \/ Step \/ Finish \/ Fail
  \/ \E t \in Tokens : Accept(t)
  \/ \E tokens \in Prompts : Embed(tokens)
  \/ Reload
  \/ Rest

Spec == Init /\ [][Next]_vars

--------------------------------------------------------------------------------
(* Properties.                                                             *)

Rows == {NoRow, Broken} \cup UNION {[1 .. n -> Tokens] : n \in 1 .. MaxSeq}

(* Types of the variables; no write lands outside the cache.               *)
TypeOK ==
  /\ family \in Families
  /\ DOMAIN kv = 0 .. (MaxSeq - 1) /\ \A p \in DOMAIN kv : kv[p] \in Rows
  /\ DOMAIN x = 0 .. (Chunk - 1) /\ \A i \in DOMAIN x : x[i] \in Rows
  /\ session \in Rows /\ g.history \in Seq(Tokens)
  /\ g.step <= MaxTokens
  /\ posdev \in 0 .. MaxSeq
  /\ ring \in [0 .. (Window - 1) -> Tokens \cup {0}]
  /\ counts \in [Tokens \cup {0} -> 0 .. Window]

(* Incremental prefill changes nothing: whenever a token is about to be    *)
(* chosen, the cache holds the rows of exactly the prompt and the answer   *)
(* so far, whatever earlier requests left in it: ended by a limit, a stop  *)
(* token, a failure or a client that left, or by a stop string within the  *)
(* pipeline.  Not so after a stop string outside it, nor after an          *)
(* embedding by a generating model: both leave ids whose rows are others'. *)
ContextIsHistory ==
  g.pc = "sample" => Context(kv, Len(g.history)) = g.history

(* The next token is chosen from the newest row and no other.              *)
HeadIsNewest == g.pc = "sample" => g.head = g.history

FirstGreedyAfterReuse == g.step = 0 /\ g.mode \in Greedy /\ g.reused > 0

(* HeadIsNewest for every token but the first greedy one after a reused    *)
(* prefix, for which prefill_argmax counts rows from the wrong end.        *)
HeadIsNewestElsewhere == ~ FirstGreedyAfterReuse => HeadIsNewest

LastOf(history) ==
  SubSeq(history, IF Len(history) > Window THEN Len(history) - Window + 1 ELSE 1,
         Len(history))

Occurrences(t, s) == Cardinality({i \in DOMAIN s : s[i] = t})

(* decode_step_sample: "the penalty sees exactly the host sampler's        *)
(* last-64 window".  (Token 0 is undercounted: see k_hist_push.)           *)
WindowIsHosts ==
  g.pc = "sample" /\ g.mode = "sample" /\ g.step > 0
    => \A t \in Tokens : counts[t] = Occurrences(t, LastOf(g.history))

(* A prompt longer than the context is truncated, "never a 500", and the   *)
(* budget ends the answer before the cache is full.                        *)
CapacityNeverRefuses ==
  g.pc # "refused" /\ (g.pc = "accepted" => Len(g.history) <= MaxSeq)
================================================================================
