----------------------------- MODULE SessionProofs -----------------------------
(***************************************************************************)
(* The KV cache between and during generations, for any tokens, prompts,   *)
(* capacities, chunk sizes and any number of requests.                     *)
(*                                                                         *)
(* IInv says what the cache holds at every stage.  Between requests it     *)
(* holds the rows of the session, which is what the next request reuses    *)
(* them for; that is so only where every session is the history of a       *)
(* generation all of whose tokens were fed (CacheFollowsSession).          *)
(***************************************************************************)
EXTENDS Session, TLAPS, SequenceTheorems, WellFoundedInduction, FiniteSetTheorems

(* Only the pipeline, which has fed a token before it looks at it, may     *)
(* stop at a stop string, and no embedding runs over the cache.            *)
CacheFollowsSession == StopsIn \subseteq {"pipeline"} /\ ~ MayEmbed

Stages == {"idle", "prefill", "sample", "accepted", "finish"}

(* The rows below position n are those of the tokens h.                    *)
Good(cache, h, n) == \A p \in 0 .. (n - 1) : cache[p] = SubSeq(h, 1, p + 1)

(* Types, as far as the argument needs them; not of rows.                  *)
Typed ==
  /\ DOMAIN kv = 0 .. (MaxSeq - 1)
  /\ session \in Seq(Tokens)
  /\ DOMAIN g = DOMAIN NoGeneration
  /\ g.pc \in Stages /\ g.fed \in Seq(Tokens) /\ g.history \in Seq(Tokens)
  /\ g.reused \in Nat /\ g.done \in Nat /\ g.step \in Nat
  /\ posdev \in Int

(* Lengths: of the prompt, of the answer and of what is kept.              *)
PrefillFits ==
  g.pc = "prefill" =>
    /\ g.history = g.fed /\ g.step = 0
    /\ 0 < Len(g.fed) /\ Len(g.fed) <= MaxSeq
    /\ g.reused < Len(g.fed) /\ g.done <= Delta

AnswerFits ==
  g.pc \in {"sample", "accepted"} =>
    /\ 0 < Len(g.fed) /\ Len(g.fed) <= MaxSeq
    /\ g.step < Budget
    /\ Len(g.history) = Len(g.fed) + g.step + (IF g.pc = "accepted" THEN 1 ELSE 0)

KeptFits == g.pc = "finish" => Len(g.history) <= MaxSeq

SessionFits == Len(session) <= MaxSeq /\ (g.pc # "idle" => session = <<>>)

Fits == Typed /\ PrefillFits /\ AnswerFits /\ KeptFits /\ SessionFits

(* Rows.                                                                   *)
OnDevice == g.mode = "pipeline" \/ Captured

(* Positions whose rows are there: all of the history, less the token that *)
(* was accepted and is not fed yet.                                        *)
Fed ==
  IF g.pc = "accepted" /\ g.mode # "pipeline" THEN Len(g.history) - 1 ELSE Len(g.history)

PrefillRows == g.pc = "prefill" => Good(kv, g.fed, g.reused + g.done)

AnswerRows ==
  g.pc \in {"sample", "accepted"} =>
    Good(kv, g.history, Fed) /\ (OnDevice => posdev = Fed)

KeptRows == g.pc = "finish" /\ family = "std" => Good(kv, g.history, Len(g.history))

SessionRows == g.pc = "idle" /\ family = "std" => Good(kv, session, Len(session))

IInv == Fits /\ PrefillRows /\ AnswerRows /\ KeptRows /\ SessionRows

--------------------------------------------------------------------------------
(* Sequences and the largest of a set.                                     *)

LEMMA MaxIsMember ==
  ASSUME NEW n \in Nat, NEW S \in SUBSET (0 .. n), S # {}
  PROVE  Max(S) \in S
<1> DEFINE R == OpToRel(<, Nat)
           T == {m \in Nat : \E i \in S : m = n - i}
<1>1. IsWellFoundedOn(R, Nat)
  BY NatLessThanWellFounded
<1>2. T \subseteq Nat
  OBVIOUS
<1>3. T # {}
  <2>1. PICK i \in S : TRUE
    OBVIOUS
  <2>2. n - i \in Nat
    BY <2>1
  <2> QED
    BY <2>1, <2>2
<1>4. PICK low \in T : \A y \in T : ~ (<<y, low>> \in R)
  <2> HIDE DEF R, T
  <2> QED
    BY <1>1, <1>2, <1>3, WFMin
<1>5. PICK i \in S : low = n - i
  OBVIOUS
<1>6. ASSUME NEW j \in S PROVE i >= j
  <2>1. i \in 0 .. n /\ j \in 0 .. n
    OBVIOUS
  <2>2. n - j \in T
    BY <2>1
  <2>3. ~ (<<n - j, low>> \in R)
    BY <1>4, <2>2
  <2>4. ~ (n - j < low)
    BY <2>1, <2>2, <2>3 DEF OpToRel
  <2> QED
    BY <1>5, <2>1, <2>4
<1> QED
  BY <1>6 DEF Max

LEMMA PrefixTyped ==
  ASSUME NEW h \in Seq(Tokens), NEW n \in 0 .. Len(h)
  PROVE  SubSeq(h, 1, n) \in Seq(Tokens) /\ Len(SubSeq(h, 1, n)) = n
<1>1. \A i \in 1 .. n : h[i] \in Tokens
  BY ElementOfSeq
<1>2. Len(h) \in Nat
  BY LenProperties
<1> QED
  BY <1>1, <1>2, SubSeqProperties

LEMMA PrefixOfPrefix ==
  ASSUME NEW h \in Seq(Tokens), NEW n \in 0 .. Len(h), NEW p \in 0 .. n - 1
  PROVE  SubSeq(SubSeq(h, 1, n), 1, p + 1) = SubSeq(h, 1, p + 1)
<1>1. Len(h) \in Nat
  BY LenProperties
<1>2. 1 \in 1 .. Len(h) /\ n \in 1 .. Len(h) /\ 1 \in 1 .. n - 1 + 1 /\ p + 1 \in 1 .. n - 1 + 1
  BY <1>1
<1>3. SubSeq(SubSeq(h, 1, n), 1, p + 1) = SubSeq(h, 1 + 1 - 1, 1 + (p + 1) - 1)
  BY <1>2, SubSeqOfSubSeq
<1>4. 1 + 1 - 1 = 1 /\ 1 + (p + 1) - 1 = p + 1
  BY <1>1
<1> QED
  BY <1>3, <1>4

LEMMA PrefixOfAppend ==
  ASSUME NEW h \in Seq(Tokens), NEW t \in Tokens, NEW n \in 1 .. Len(h)
  PROVE  SubSeq(Append(h, t), 1, n) = SubSeq(h, 1, n)
<1>1. Len(h) \in Nat /\ <<t>> \in Seq(Tokens) /\ Append(h, t) = h \o <<t>>
  BY LenProperties, AppendIsConcat
<1>2. 1 \in 1 .. Len(h)
  BY <1>1
<1> QED
  BY <1>1, <1>2, SubSeqOfConcat1

LEMMA OneOfSequence ==
  ASSUME NEW h \in Seq(Tokens), NEW i \in 1 .. Len(h)
  PROVE  SubSeq(h, i, i) = <<h[i]>>
<1> DEFINE one == SubSeq(h, i, i)
<1>1. Len(h) \in Nat /\ i \in Int
  BY LenProperties
<1>2. h[i] \in Tokens
  BY ElementOfSeq
<1>3. \A j \in i .. i : h[j] \in Tokens
  BY <1>1, <1>2
<1>4. /\ one \in Seq(Tokens)
      /\ Len(one) = IF i <= i THEN i - i + 1 ELSE 0
      /\ \A j \in 1 .. i - i + 1 : one[j] = h[i + j - 1]
  BY <1>1, <1>3, SubSeqProperties
<1>5. Len(one) = 1 /\ one[1] = h[i]
  BY <1>1, <1>4
<1>6. <<h[i]>> \in Seq(Tokens) /\ Len(<<h[i]>>) = 1
  BY <1>2
<1>7. \A j \in 1 .. Len(one) : one[j] = <<h[i]>>[j]
  BY <1>5
<1> HIDE DEF one
<1> QED
  BY <1>4, <1>5, <1>6, <1>7, SeqEqual DEF one

(* A sequence of tokens is never the mark of a broken row.                 *)
LEMMA NotBroken ==
  ASSUME NEW h \in Seq(Tokens)
  PROVE  h # Broken
<1> SUFFICES ASSUME h = Broken PROVE FALSE
  OBVIOUS
<1>1. Len(h) = 1 /\ h[1] = -1
  BY DEF Broken
<1>2. 1 \in 1 .. Len(h)
  BY <1>1
<1>3. h[1] \in Tokens
  BY <1>2, ElementOfSeq
<1> QED
  BY <1>1, <1>3, TokensAssumption

(* Good rows of a prefix stand for that prefix.                            *)
LEMMA ContextOfGood ==
  ASSUME NEW cache, NEW h \in Seq(Tokens), NEW n \in 0 .. Len(h), Good(cache, h, n)
  PROVE  Context(cache, n) = SubSeq(h, 1, n)
<1>1. Len(h) \in Nat
  BY LenProperties
<1>2. CASE n = 0
  BY <1>2, SubSeqEmpty DEF Context
<1>3. CASE n # 0
  <2> DEFINE last == cache[n - 1]
  <2>1. n - 1 \in 0 .. n - 1 /\ n - 1 + 1 = n
    BY <1>1, <1>3
  <2>2. last = SubSeq(h, 1, n)
    BY <2>1 DEF Good
  <2>3. Len(last) = n
    BY <2>2, PrefixTyped
  <2>4. ASSUME NEW p \in 0 .. n - 1 PROVE cache[p] = SubSeq(last, 1, p + 1)
    BY <2>2, PrefixOfPrefix DEF Good
  <2> HIDE DEF last
  <2>5. Context(cache, n) = last
    BY <1>3, <2>3, <2>4 DEF Context, last
  <2> QED
    BY <2>2, <2>5
<1> QED
  BY <1>2, <1>3

(* A row computed over good rows is the next good row.                     *)
LEMMA RowAfterGood ==
  ASSUME NEW cache, NEW h \in Seq(Tokens), NEW n \in 0 .. Len(h), Good(cache, h, n),
         NEW k \in n .. Len(h)
  PROVE  NewRow(cache, n, SubSeq(h, n + 1, k)) = SubSeq(h, 1, k)
<1>1. Len(h) \in Nat
  BY LenProperties
<1>2. Context(cache, n) = SubSeq(h, 1, n)
  BY ContextOfGood
<1>3. SubSeq(h, 1, n) # Broken
  BY PrefixTyped, NotBroken
<1>4. 1 \in 1 .. Len(h) + 1 /\ n \in 1 - 1 .. Len(h)
  BY <1>1
<1>5. SubSeq(h, 1, n) \o SubSeq(h, n + 1, k) = SubSeq(h, 1, k)
  BY <1>4, ConcatAdjacentSubSeq
<1> QED
  BY <1>2, <1>3, <1>5 DEF NewRow

(* One decode step after good rows makes one more good row.                *)
LEMMA GoodGrows ==
  ASSUME NEW cache, DOMAIN cache = 0 .. (MaxSeq - 1),
         NEW h \in Seq(Tokens), NEW n \in 0 .. Len(h) - 1, n < MaxSeq, Good(cache, h, n)
  PROVE  Good([cache EXCEPT ![n] = NewRow(cache, n, <<h[n + 1]>>)], h, n + 1)
<1> DEFINE next == SubSeq(h, n + 1, n + 1)
           grown == [cache EXCEPT ![n] = NewRow(cache, n, <<h[n + 1]>>)]
<1>1. Len(h) \in Nat /\ MaxSeq \in Nat
  BY LenProperties, SizesAssumption
<1>2. n + 1 \in 1 .. Len(h) /\ n \in 0 .. Len(h) /\ n + 1 \in n .. Len(h)
  BY <1>1
<1>3. h[n + 1] \in Tokens
  BY <1>2, ElementOfSeq
<1>4. next = <<h[n + 1]>>
  BY <1>2, OneOfSequence
<1>5. NewRow(cache, n, next) = SubSeq(h, 1, n + 1)
  BY <1>2, RowAfterGood
<1> SUFFICES ASSUME NEW p \in 0 .. n + 1 - 1
             PROVE  grown[p] = SubSeq(h, 1, p + 1)
  BY DEF Good
<1>6. CASE p = n
  <2>1. grown[p] = NewRow(cache, n, <<h[n + 1]>>)
    BY <1>1, <1>6
  <2> QED
    BY <1>4, <1>5, <1>6, <2>1
<1>7. CASE p # n
  <2>1. p \in 0 .. n - 1
    BY <1>7
  <2>2. grown[p] = cache[p]
    BY <1>1, <1>7, <2>1
  <2> QED
    BY <2>1, <2>2 DEF Good
<1> QED
  BY <1>6, <1>7

(* What was good for a history is good for it with one token more.         *)
LEMMA GoodOfAppend ==
  ASSUME NEW cache, NEW h \in Seq(Tokens), NEW t \in Tokens, Good(cache, h, Len(h))
  PROVE  Good(cache, Append(h, t), Len(h))
<1>1. Len(h) \in Nat
  BY LenProperties
<1> SUFFICES ASSUME NEW p \in 0 .. Len(h) - 1
             PROVE  cache[p] = SubSeq(Append(h, t), 1, p + 1)
  BY DEF Good
<1>2. p + 1 \in 1 .. Len(h)
  BY <1>1
<1>3. SubSeq(Append(h, t), 1, p + 1) = SubSeq(h, 1, p + 1)
  BY <1>2, PrefixOfAppend
<1> QED
  BY <1>3 DEF Good

--------------------------------------------------------------------------------
(* The start of a generation.                                              *)

LEMMA TruncatedFits ==
  ASSUME NEW prompt \in Prompts
  PROVE  /\ Truncated(prompt) \in Seq(Tokens)
         /\ 0 < Len(Truncated(prompt)) /\ Len(Truncated(prompt)) <= MaxSeq
<1>1. prompt \in Seq(Tokens) /\ prompt # <<>>
  BY PromptsAssumption
<1>2. Len(prompt) \in Nat /\ Len(prompt) > 0
  BY <1>1, EmptySeq
<1>3. MaxSeq \in Nat /\ Reserve \in Nat /\ MaxSeq > Reserve + 1
  BY SizesAssumption
<1>4. CASE Len(prompt) + Reserve <= MaxSeq
  BY <1>1, <1>2, <1>3, <1>4 DEF Truncated
<1>5. CASE ~ (Len(prompt) + Reserve <= MaxSeq)
  <2> DEFINE from == Len(prompt) - (MaxSeq - Reserve) + 2
             tail == SubSeq(prompt, from, Len(prompt))
  <2>1. from \in Int /\ from >= 1 /\ Len(prompt) - from + 1 = MaxSeq - Reserve - 1
    BY <1>2, <1>3, <1>5
  <2>2. \A i \in from .. Len(prompt) : prompt[i] \in Tokens
    <3> SUFFICES ASSUME NEW i \in from .. Len(prompt) PROVE prompt[i] \in Tokens
      OBVIOUS
    <3>1. i \in 1 .. Len(prompt)
      BY <1>2, <2>1
    <3> QED
      BY <1>1, <3>1, ElementOfSeq
  <2> HIDE DEF from
  <2>3. tail \in Seq(Tokens) /\ Len(tail) = IF from <= Len(prompt) THEN Len(prompt) - from + 1 ELSE 0
    BY <1>2, <2>1, <2>2, SubSeqProperties
  <2>4. 1 \in 1 .. Len(prompt)
    BY <1>2
  <2>5. <<prompt[1]>> \in Seq(Tokens) /\ Len(<<prompt[1]>>) = 1
    BY <1>1, <2>4, ElementOfSeq
  <2> HIDE DEF tail
  <2>6. <<prompt[1]>> \o tail \in Seq(Tokens) /\ Len(<<prompt[1]>> \o tail) = 1 + Len(tail)
    BY <2>3, <2>5, ConcatProperties
  <2>7. Truncated(prompt) = <<prompt[1]>> \o tail
    BY <1>5 DEF Truncated, from, tail
  <2> QED
    BY <1>2, <1>3, <2>1, <2>3, <2>6, <2>7
<1> QED
  BY <1>4, <1>5

(* A reused prefix is one of the session and of the prompt, and leaves a   *)
(* token to compute.                                                       *)
LEMMA ReusedIsCommon ==
  ASSUME session \in Seq(Tokens), NEW fed \in Seq(Tokens), 0 < Len(fed)
  PROVE  /\ Reusable(fed) \in Nat /\ Reusable(fed) < Len(fed)
         /\ family # "std" => Reusable(fed) = 0
         /\ Reusable(fed) <= Len(session) \/ family # "std"
         /\ family = "std" =>
              SubSeq(session, 1, Reusable(fed)) = SubSeq(fed, 1, Reusable(fed))
<1> DEFINE limit == Smaller(Len(session), Len(fed) - 1)
           common == {n \in 0 .. limit : SubSeq(session, 1, n) = SubSeq(fed, 1, n)}
<1>1. Len(session) \in Nat /\ Len(fed) \in Nat
  BY LenProperties
<1>2. limit \in Nat /\ limit <= Len(session) /\ limit <= Len(fed) - 1
  BY <1>1 DEF Smaller
<1>3. CASE family = "std"
  <2>1. Reusable(fed) = Max(common)
    BY <1>3 DEF Reusable
  <2>2. 0 \in common
    <3>1. SubSeq(session, 1, 0) = <<>> /\ SubSeq(fed, 1, 0) = <<>>
      BY SubSeqEmpty
    <3> QED
      BY <1>2, <3>1
  <2>3. common \in SUBSET (0 .. limit) /\ common # {}
    BY <2>2
  <2>4. Max(common) \in common
    <3> HIDE DEF limit, common
    <3> QED
      BY <1>2, <2>3, MaxIsMember
  <2>5. Reusable(fed) \in 0 .. limit
        /\ SubSeq(session, 1, Reusable(fed)) = SubSeq(fed, 1, Reusable(fed))
    BY <2>1, <2>4
  <2> HIDE DEF limit
  <2> QED
    BY <1>1, <1>2, <1>3, <2>5
<1>4. CASE family # "std"
  BY <1>1, <1>4 DEF Reusable
<1> QED
  BY <1>3, <1>4

--------------------------------------------------------------------------------
(* Lengths.                                                                *)

LEMMA InitFits == Init => Fits
<1> SUFFICES ASSUME Init PROVE Fits
  OBVIOUS
<1>1. <<>> \in Seq(Tokens) /\ Len(<<>>) = 0 /\ MaxSeq \in Nat
  BY EmptySeq, SizesAssumption
<1>2. g.pc = "idle" /\ session = <<>>
  BY DEF Init, NoGeneration
<1>3. Typed
  BY <1>1 DEF Init, NoGeneration, FreshCache, Typed, Stages
<1> QED
  BY <1>1, <1>2, <1>3 DEF Fits, PrefillFits, AnswerFits, KeptFits, SessionFits

LEMMA BeginFits ==
  ASSUME Fits, NEW prompt \in Prompts, NEW mode, Begin(prompt, mode)
  PROVE  Fits'
<1> DEFINE fed == Truncated(prompt)
<1>1. fed \in Seq(Tokens) /\ 0 < Len(fed) /\ Len(fed) <= MaxSeq /\ Len(fed) \in Nat
  BY TruncatedFits, LenProperties
<1>2. session \in Seq(Tokens)
  BY DEF Fits, Typed
<1>3. Reusable(fed) \in Nat /\ Reusable(fed) < Len(fed)
  <2> HIDE DEF fed
  <2> QED
    BY <1>1, <1>2, ReusedIsCommon
<1> HIDE DEF fed
<1>4. g' = [NoGeneration EXCEPT !.pc = "prefill", !.mode = mode, !.fed = fed,
                                !.reused = Reusable(fed), !.history = fed]
  BY DEF Begin, fed
<1>5. /\ DOMAIN g' = DOMAIN NoGeneration
      /\ g'.pc = "prefill" /\ g'.fed = fed /\ g'.history = fed
      /\ g'.reused = Reusable(fed) /\ g'.done = 0 /\ g'.step = 0
  BY <1>4 DEF NoGeneration
<1>6. session' = <<>> /\ posdev' = posdev /\ DOMAIN kv' = 0 .. (MaxSeq - 1)
  BY DEF Begin, Reset, AfterReset, FreshCache, Fits, Typed
<1>7. session' \in Seq(Tokens) /\ Len(session') = 0 /\ MaxSeq \in Nat
  BY <1>6, EmptySeq, SizesAssumption
<1>8. Typed'
  BY <1>1, <1>3, <1>5, <1>6, <1>7 DEF Fits, Typed, Stages
<1>9. PrefillFits'
  BY <1>1, <1>3, <1>5 DEF PrefillFits, Delta
<1> QED
  BY <1>5, <1>6, <1>7, <1>8, <1>9 DEF Fits, AnswerFits, KeptFits, SessionFits

LEMMA PrefillFitsStep ==
  ASSUME Fits, PrefillChunk
  PROVE  Fits'
<1>1. /\ g.pc = "prefill" /\ Len(g.fed) <= MaxSeq /\ g.done < Delta
      /\ g.reused \in Nat /\ g.done \in Nat /\ Len(g.fed) \in Nat /\ Chunk \in Nat
      /\ MaxSeq \in Nat
  BY LenProperties, SizesAssumption DEF PrefillChunk, Fits, Typed, PrefillFits
<1> DEFINE take == Smaller(Delta - g.done, Chunk)
<1>2. take \in Nat /\ g.done + take <= Delta
  BY <1>1 DEF Smaller, Delta
<1>3. g' = [g EXCEPT !.done = @ + take]
  BY <1>1 DEF PrefillChunk
<1>4. DOMAIN g = DOMAIN NoGeneration
  BY DEF Fits, Typed
<1> HIDE DEF take
<1>5. /\ DOMAIN g' = DOMAIN NoGeneration /\ g'.pc = "prefill" /\ g'.fed = g.fed
      /\ g'.history = g.history /\ g'.reused = g.reused /\ g'.step = g.step
      /\ g'.done = g.done + take
  BY <1>1, <1>3, <1>4 DEF NoGeneration
<1>6. DOMAIN kv' = 0 .. (MaxSeq - 1) /\ session' = session /\ posdev' = posdev
  BY <1>1 DEF PrefillChunk, device, Fits, Typed
<1>7. Typed'
  BY <1>1, <1>2, <1>5, <1>6 DEF Fits, Typed
<1>8. PrefillFits'
  BY <1>1, <1>2, <1>5 DEF Fits, PrefillFits, Delta
<1> QED
  BY <1>1, <1>5, <1>6, <1>7, <1>8 DEF Fits, AnswerFits, KeptFits, SessionFits

LEMMA ProjectFits ==
  ASSUME Fits, Project
  PROVE  Fits'
<1>1. /\ g.pc = "prefill" /\ g.history = g.fed /\ g.step = 0
      /\ 0 < Len(g.fed) /\ Len(g.fed) <= MaxSeq
      /\ Len(g.fed) \in Nat /\ MaxSeq \in Nat /\ MaxTokens \in Nat
      /\ DOMAIN g = DOMAIN NoGeneration
  BY LenProperties, SizesAssumption DEF Project, Fits, Typed, PrefillFits
<1>2. Budget \in Nat
  BY <1>1 DEF Budget, Smaller
<1>3. /\ DOMAIN g' = DOMAIN NoGeneration /\ g'.fed = g.fed
      /\ g'.history = g.history /\ g'.reused = g.reused /\ g'.step = 0 /\ g'.done = g.done
      /\ g'.pc = IF Budget = 0 THEN "finish" ELSE "sample"
  BY <1>1 DEF Project, NoGeneration
<1>4. kv' = kv /\ session' = session /\ (posdev' = posdev \/ posdev' = Len(g.fed))
  BY DEF Project
<1>5. Typed'
  BY <1>1, <1>3, <1>4 DEF Fits, Typed, Stages
<1>6. Budget' = Budget
  BY <1>3 DEF Budget
<1>7. AnswerFits'
  BY <1>1, <1>2, <1>3, <1>6 DEF AnswerFits
<1> QED
  BY <1>1, <1>3, <1>4, <1>5, <1>7 DEF Fits, PrefillFits, KeptFits, SessionFits

(* What the token loop starts from.                                        *)
LEMMA LoopFacts ==
  ASSUME Fits, g.pc \in {"sample", "accepted"}
  PROVE  /\ MaxSeq \in Nat /\ Budget \in Nat /\ Budget <= MaxSeq - Len(g.fed)
         /\ Len(g.fed) \in Nat /\ g.step \in Nat /\ g.step < Budget
         /\ Len(g.history) \in Nat
         /\ Len(g.history) = Len(g.fed) + g.step + (IF g.pc = "accepted" THEN 1 ELSE 0)
         /\ Len(g.history) <= MaxSeq /\ 0 < Len(g.fed) /\ Len(g.fed) <= MaxSeq
         /\ DOMAIN g = DOMAIN NoGeneration
<1>1. /\ MaxSeq \in Nat /\ MaxTokens \in Nat /\ Len(g.fed) \in Nat /\ g.step \in Nat
      /\ Len(g.history) \in Nat /\ DOMAIN g = DOMAIN NoGeneration
  BY LenProperties, SizesAssumption DEF Fits, Typed
<1>2. /\ 0 < Len(g.fed) /\ Len(g.fed) <= MaxSeq /\ g.step < Budget
      /\ Len(g.history) = Len(g.fed) + g.step + (IF g.pc = "accepted" THEN 1 ELSE 0)
  BY DEF Fits, AnswerFits
<1>3. MaxSeq - Len(g.fed) \in Nat
  BY <1>1, <1>2
<1>4. Budget \in Nat /\ Budget <= MaxSeq - Len(g.fed)
  <2> DEFINE left == MaxSeq - Len(g.fed)
  <2>1. left \in Nat
    BY <1>3
  <2>2. Budget = Smaller(MaxTokens, left)
    BY DEF Budget
  <2> HIDE DEF left
  <2>3. Smaller(MaxTokens, left) \in Nat /\ Smaller(MaxTokens, left) <= left
    BY <1>1, <2>1 DEF Smaller
  <2>4. Budget \in Nat /\ Budget <= left
    BY <2>2, <2>3
  <2> QED
    BY <2>4 DEF left
<1> QED
  BY <1>1, <1>2, <1>4

(* The loop is left, at an end-of-sequence token or a stop string.         *)
LEMMA LeaveFits ==
  ASSUME Fits, EndOfTurn \/ StopString
  PROVE  Fits'
<1>1. g.pc \in {"sample", "accepted"}
  BY DEF EndOfTurn, StopString
<1>2. Len(g.history) <= MaxSeq /\ DOMAIN g = DOMAIN NoGeneration
  BY <1>1, LoopFacts
<1>3. /\ g' = [g EXCEPT !.pc = "finish"]
      /\ kv' = kv /\ session' = session /\ posdev' = posdev
  BY DEF EndOfTurn, StopString, device
<1>4. /\ DOMAIN g' = DOMAIN NoGeneration /\ g'.pc = "finish" /\ g'.fed = g.fed
      /\ g'.history = g.history /\ g'.reused = g.reused /\ g'.step = g.step
      /\ g'.done = g.done
  BY <1>2, <1>3 DEF NoGeneration
<1>5. Typed'
  BY <1>3, <1>4 DEF Fits, Typed, Stages
<1> QED
  BY <1>1, <1>2, <1>3, <1>4, <1>5 DEF Fits, PrefillFits, AnswerFits, KeptFits, SessionFits

LEMMA AcceptFits ==
  ASSUME Fits, NEW t \in Tokens, Accept(t)
  PROVE  Fits'
<1>1. g.pc = "sample"
  BY DEF Accept
<1>2. /\ Len(g.history) = Len(g.fed) + g.step /\ g.step < Budget /\ g.step \in Nat
      /\ Len(g.fed) \in Nat /\ 0 < Len(g.fed) /\ Len(g.fed) <= MaxSeq
      /\ Len(g.history) \in Nat /\ DOMAIN g = DOMAIN NoGeneration
  BY <1>1, LoopFacts
<1>3. /\ DOMAIN g' = DOMAIN NoGeneration /\ g'.pc = "accepted" /\ g'.fed = g.fed
      /\ g'.history = Append(g.history, t) /\ g'.reused = g.reused /\ g'.step = g.step
      /\ g'.done = g.done
  BY <1>2 DEF Accept, NoGeneration
<1>4. /\ session' = session /\ (posdev' = posdev \/ posdev' = posdev + 1)
      /\ DOMAIN kv' = 0 .. (MaxSeq - 1)
  BY DEF Accept, Decode, Fits, Typed
<1>5. g'.history \in Seq(Tokens) /\ Len(g'.history) = Len(g.history) + 1
  BY <1>3, AppendProperties DEF Fits, Typed
<1>6. Typed'
  BY <1>3, <1>4, <1>5 DEF Fits, Typed, Stages
<1>7. Budget' = Budget
  BY <1>3 DEF Budget
<1>8. AnswerFits'
  BY <1>2, <1>3, <1>5, <1>7 DEF AnswerFits
<1> QED
  BY <1>1, <1>3, <1>4, <1>6, <1>8 DEF Fits, PrefillFits, KeptFits, SessionFits

LEMMA StepFits ==
  ASSUME Fits, Step
  PROVE  Fits'
<1>1. g.pc = "accepted"
  BY DEF Step
<1>2. /\ Len(g.history) = Len(g.fed) + g.step + 1 /\ g.step < Budget /\ g.step \in Nat
      /\ Len(g.fed) \in Nat /\ 0 < Len(g.fed) /\ Len(g.fed) <= MaxSeq /\ Budget \in Nat
      /\ Len(g.history) \in Nat /\ Len(g.history) <= MaxSeq
      /\ DOMAIN g = DOMAIN NoGeneration
  BY <1>1, LoopFacts
<1>3. /\ DOMAIN g' = DOMAIN NoGeneration /\ g'.pc = AfterStep /\ g'.fed = g.fed
      /\ g'.history = g.history /\ g'.reused = g.reused /\ g'.step = g.step + 1
      /\ g'.done = g.done
  BY <1>2 DEF Step, NoGeneration
<1>4. /\ session' = session /\ (posdev' = posdev \/ posdev' = posdev + 1)
      /\ DOMAIN kv' = 0 .. (MaxSeq - 1)
  BY DEF Step, Decode, device, Fits, Typed
<1>5. AfterStep \in {"finish", "sample"} /\ (AfterStep = "sample" => g.step + 1 # Budget)
  BY DEF AfterStep
<1>6. Typed'
  BY <1>3, <1>4, <1>5 DEF Fits, Typed, Stages
<1>7. Budget' = Budget
  BY <1>3 DEF Budget
<1>8. AnswerFits'
  BY <1>2, <1>3, <1>5, <1>7 DEF AnswerFits
<1> QED
  BY <1>1, <1>2, <1>3, <1>4, <1>5, <1>6, <1>8 DEF Fits, PrefillFits, KeptFits, SessionFits

LEMMA EndFits ==
  ASSUME Fits, Finish \/ Fail
  PROVE  Fits'
<1>1. /\ g' = NoGeneration /\ kv' = kv /\ posdev' = posdev /\ g.pc # "idle"
      /\ session' = session \/ (g.pc = "finish" /\ session' = g.history)
  BY DEF Finish, Fail, device
<1>2. session' \in Seq(Tokens) /\ Len(session') <= MaxSeq
  BY <1>1 DEF Fits, Typed, KeptFits, SessionFits
<1>3. <<>> \in Seq(Tokens)
  BY EmptySeq
<1>4. Typed'
  BY <1>1, <1>2, <1>3 DEF Fits, Typed, NoGeneration, Stages
<1> QED
  BY <1>1, <1>2, <1>4 DEF Fits, PrefillFits, AnswerFits, KeptFits, SessionFits, NoGeneration

(* Between requests: an embedding, another model, nothing.                 *)
LEMMA BetweenFits ==
  ASSUME Fits, (\E tokens \in Prompts : Embed(tokens)) \/ Reload \/ UNCHANGED vars
  PROVE  Fits'
<1>1. /\ g' = g /\ DOMAIN kv' = 0 .. (MaxSeq - 1)
      /\ session' = session \/ (session' = <<>> /\ g.pc = "idle")
      /\ posdev' \in Int
  BY DEF Fits, Typed, Embed, Reload, vars, FreshCache
<1>2. session' \in Seq(Tokens) /\ Len(session') <= MaxSeq
  <2>1. <<>> \in Seq(Tokens) /\ Len(<<>>) = 0 /\ MaxSeq \in Nat
    BY EmptySeq, SizesAssumption
  <2>2. session \in Seq(Tokens) /\ Len(session) <= MaxSeq
    BY DEF Fits, Typed, SessionFits
  <2>3. CASE session' = session
    BY <2>2, <2>3
  <2>4. CASE session' = <<>>
    BY <2>1, <2>4
  <2> QED
    BY <1>1, <2>3, <2>4
<1>3. Typed'
  BY <1>1, <1>2 DEF Fits, Typed
<1>4. PrefillFits' /\ AnswerFits' /\ KeptFits'
  BY <1>1 DEF Fits, PrefillFits, AnswerFits, KeptFits, Delta, Budget
<1> QED
  BY <1>1, <1>2, <1>3, <1>4 DEF Fits, SessionFits

LEMMA NextFits == Fits /\ [Next]_vars => Fits'
<1> SUFFICES ASSUME Fits, [Next]_vars PROVE Fits'
  OBVIOUS
<1>1. ASSUME NEW prompt \in Prompts, NEW mode \in ModesOf(family), Begin(prompt, mode)
      PROVE  Fits'
  BY <1>1, BeginFits
<1>2. CASE PrefillChunk
  BY <1>2, PrefillFitsStep
<1>3. CASE Project
  BY <1>3, ProjectFits
<1>4. CASE EndOfTurn \/ StopString
  BY <1>4, LeaveFits
<1>5. ASSUME NEW t \in Tokens, Accept(t) PROVE Fits'
  BY <1>5, AcceptFits
<1>6. CASE Step
  BY <1>6, StepFits
<1>7. CASE Finish \/ Fail
  BY <1>7, EndFits
<1>8. CASE (\E tokens \in Prompts : Embed(tokens)) \/ Reload \/ UNCHANGED vars
  BY <1>8, BetweenFits
<1>9. CASE Rest
  BY <1>8, <1>9 DEF Rest
<1> QED
  BY <1>1, <1>2, <1>3, <1>4, <1>5, <1>6, <1>7, <1>8, <1>9 DEF Next

(* No prompt and no answer outgrows the context, whatever the model        *)
(* answers, however the requests end and wherever they stop.               *)
THEOREM NeverRefused == Spec => []CapacityNeverRefuses
<1>1. Spec => []Fits
  BY InitFits, NextFits, PTL DEF Spec
<1>2. ASSUME Fits PROVE CapacityNeverRefuses
  <2>1. g.pc # "refused"
    BY <1>2 DEF Fits, Typed, Stages
  <2>2. g.pc = "accepted" => Len(g.history) <= MaxSeq
    BY <1>2, LoopFacts
  <2> QED
    BY <2>1, <2>2 DEF CapacityNeverRefuses
<1> QED
  BY <1>1, <1>2, PTL

--------------------------------------------------------------------------------
(* Rows.                                                                   *)

LEMMA InitRows == Init => IInv
<1> SUFFICES ASSUME Init PROVE IInv
  OBVIOUS
<1>1. Fits
  BY InitFits
<1>2. g.pc = "idle" /\ session = <<>> /\ Len(session) = 0
  BY DEF Init, NoGeneration
<1> QED
  BY <1>1, <1>2 DEF IInv, PrefillRows, AnswerRows, KeptRows, SessionRows, Good

LEMMA BeginRows ==
  ASSUME IInv, NEW prompt \in Prompts, NEW mode, Begin(prompt, mode)
  PROVE  IInv'
<1> DEFINE fed == Truncated(prompt)
<1>1. fed \in Seq(Tokens) /\ 0 < Len(fed) /\ Len(fed) \in Nat
  BY TruncatedFits, LenProperties
<1>2. g.pc = "idle" /\ session \in Seq(Tokens) /\ Len(session) \in Nat
  BY LenProperties DEF Begin, IInv, Fits, Typed
<1>3. /\ Reusable(fed) \in Nat /\ Reusable(fed) < Len(fed)
      /\ family # "std" => Reusable(fed) = 0
      /\ Reusable(fed) <= Len(session) \/ family # "std"
      /\ family = "std" =>
           SubSeq(session, 1, Reusable(fed)) = SubSeq(fed, 1, Reusable(fed))
  <2> HIDE DEF fed
  <2> QED
    BY <1>1, <1>2, ReusedIsCommon
<1> HIDE DEF fed
<1>4. Fits'
  BY BeginFits DEF IInv
<1>5. g' = [NoGeneration EXCEPT !.pc = "prefill", !.mode = mode, !.fed = fed,
                                !.reused = Reusable(fed), !.history = fed]
  BY DEF Begin, fed
<1>6. g'.pc = "prefill" /\ g'.fed = fed /\ g'.reused = Reusable(fed) /\ g'.done = 0
  BY <1>5 DEF NoGeneration
<1>7. Good(kv', fed, Reusable(fed))
  <2>1. CASE family = "std"
    <3>1. kv' = kv
      BY <2>1 DEF Begin, Reset, AfterReset
    <3>2. Good(kv, session, Len(session))
      BY <1>2, <2>1 DEF IInv, SessionRows
    <3> SUFFICES ASSUME NEW p \in 0 .. Reusable(fed) - 1
                 PROVE  kv[p] = SubSeq(fed, 1, p + 1)
      BY <3>1 DEF Good
    <3>3. Reusable(fed) \in 0 .. Len(session) /\ Reusable(fed) \in 0 .. Len(fed)
      BY <1>1, <1>2, <1>3, <2>1
    <3>4. p \in 0 .. Len(session) - 1
      BY <1>2, <3>3
    <3>5. kv[p] = SubSeq(session, 1, p + 1)
      BY <3>2, <3>4 DEF Good
    <3>6. SubSeq(SubSeq(session, 1, Reusable(fed)), 1, p + 1) = SubSeq(session, 1, p + 1)
      BY <1>2, <3>3, PrefixOfPrefix
    <3>7. SubSeq(SubSeq(fed, 1, Reusable(fed)), 1, p + 1) = SubSeq(fed, 1, p + 1)
      BY <1>1, <3>3, PrefixOfPrefix
    <3> QED
      BY <1>3, <2>1, <3>5, <3>6, <3>7
  <2>2. CASE family # "std"
    BY <1>3, <2>2 DEF Good
  <2> QED
    BY <2>1, <2>2
<1>8. PrefillRows'
  BY <1>3, <1>6, <1>7 DEF PrefillRows
<1> QED
  BY <1>4, <1>6, <1>8 DEF IInv, AnswerRows, KeptRows, SessionRows

LEMMA PrefillRowsStep ==
  ASSUME IInv, PrefillChunk
  PROVE  IInv'
<1> DEFINE take == Smaller(Delta - g.done, Chunk)
           pos == g.reused + g.done
           row(i) == NewRow(kv, pos, SubSeq(g.fed, pos + 1, pos + i + 1))
<1>1. /\ g.pc = "prefill" /\ g.done < Delta /\ Len(g.fed) <= MaxSeq
      /\ g.reused \in Nat /\ g.done \in Nat /\ Len(g.fed) \in Nat
      /\ Chunk \in Nat /\ MaxSeq \in Nat /\ g.fed \in Seq(Tokens)
      /\ DOMAIN g = DOMAIN NoGeneration /\ DOMAIN kv = 0 .. (MaxSeq - 1)
      /\ Good(kv, g.fed, pos)
  BY LenProperties, SizesAssumption
     DEF PrefillChunk, IInv, Fits, Typed, PrefillFits, PrefillRows
<1>2. take \in Nat /\ pos + take <= Len(g.fed) /\ pos \in Nat
  BY <1>1 DEF Smaller, Delta
<1>3. /\ kv' = [p \in DOMAIN kv |->
                  IF p \in pos .. (pos + take - 1) THEN row(p - pos) ELSE kv[p]]
      /\ g' = [g EXCEPT !.done = @ + take]
  BY <1>1 DEF PrefillChunk
<1>4. Fits'
  BY PrefillFitsStep DEF IInv
<1> HIDE DEF take
<1>5. g'.pc = "prefill" /\ g'.fed = g.fed /\ g'.reused = g.reused /\ g'.done = g.done + take
  BY <1>1, <1>3 DEF NoGeneration
<1>6. ASSUME NEW p \in 0 .. (pos + take) - 1 PROVE kv'[p] = SubSeq(g.fed, 1, p + 1)
  <2>1. p \in 0 .. (MaxSeq - 1)
    BY <1>1, <1>2
  <2>2. CASE p \in pos .. (pos + take - 1)
    <3>1. kv'[p] = row(p - pos)
      BY <1>1, <1>3, <2>1, <2>2
    <3>2. pos + (p - pos) + 1 = p + 1
      BY <1>2
    <3>3. kv'[p] = NewRow(kv, pos, SubSeq(g.fed, pos + 1, p + 1))
      BY <3>1, <3>2
    <3> HIDE DEF pos, row
    <3>4. pos \in 0 .. Len(g.fed) /\ p + 1 \in pos .. Len(g.fed)
      BY <1>1, <1>2, <2>2
    <3>5. NewRow(kv, pos, SubSeq(g.fed, pos + 1, p + 1)) = SubSeq(g.fed, 1, p + 1)
      BY <1>1, <3>4, RowAfterGood
    <3> QED
      BY <3>3, <3>5
  <2>3. CASE p \notin pos .. (pos + take - 1)
    <3>1. kv'[p] = kv[p]
      BY <1>1, <1>3, <2>1, <2>3
    <3> HIDE DEF pos, row
    <3>2. p \in 0 .. pos - 1
      BY <1>2, <2>3
    <3> QED
      BY <1>1, <3>1, <3>2 DEF Good
  <2> QED
    BY <2>2, <2>3
<1>7. g'.reused + g'.done = pos + take
  BY <1>1, <1>2, <1>5
<1>8. PrefillRows'
  <2> HIDE DEF pos
  <2> QED
    BY <1>5, <1>6, <1>7 DEF PrefillRows, Good
<1> QED
  BY <1>4, <1>5, <1>8 DEF IInv, AnswerRows, KeptRows, SessionRows

LEMMA ProjectRows ==
  ASSUME IInv, Project
  PROVE  IInv'
<1>1. /\ g.pc = "prefill" /\ g.history = g.fed /\ g.done = Delta
      /\ g.reused \in Nat /\ Len(g.fed) \in Nat /\ DOMAIN g = DOMAIN NoGeneration
      /\ Good(kv, g.fed, g.reused + g.done)
  BY LenProperties DEF Project, IInv, Fits, Typed, PrefillFits, PrefillRows
<1>2. Good(kv, g.fed, Len(g.fed))
  <2>1. g.reused + g.done = Len(g.fed)
    BY <1>1 DEF Delta
  <2> QED
    BY <1>1, <2>1
<1>3. /\ g'.history = g.fed /\ g'.mode = g.mode
      /\ g'.pc \in {"finish", "sample"}
  BY <1>1 DEF Project, NoGeneration
<1>4. /\ kv' = kv /\ family' = family
      /\ g.mode # "logits" => posdev' = Len(g.fed)
  BY DEF Project
<1>5. Fits'
  BY ProjectFits DEF IInv
<1>6. AnswerRows'
  BY <1>2, <1>3, <1>4 DEF AnswerRows, Fed, OnDevice, Captured
<1> QED
  BY <1>2, <1>3, <1>4, <1>5, <1>6 DEF IInv, PrefillRows, KeptRows, SessionRows

LEMMA LeaveRows ==
  ASSUME CacheFollowsSession, IInv, EndOfTurn \/ StopString
  PROVE  IInv'
<1>1. g.pc \in {"sample", "accepted"} /\ Good(kv, g.history, Fed)
  BY DEF EndOfTurn, StopString, IInv, AnswerRows
<1>2. family = "std" => Fed = Len(g.history)
  BY DEF EndOfTurn, StopString, CacheFollowsSession, Fed
<1>3. DOMAIN g = DOMAIN NoGeneration
  BY DEF IInv, Fits, Typed
<1>4. g'.pc = "finish" /\ g'.history = g.history /\ kv' = kv /\ family' = family
  BY <1>3 DEF EndOfTurn, StopString, NoGeneration
<1>5. Fits'
  BY LeaveFits DEF IInv
<1> QED
  BY <1>1, <1>2, <1>4, <1>5 DEF IInv, PrefillRows, AnswerRows, KeptRows, SessionRows

LEMMA AcceptRows ==
  ASSUME IInv, NEW t \in Tokens, Accept(t)
  PROVE  IInv'
<1> DEFINE longer == Append(g.history, t)
<1>1. /\ g.pc = "sample" /\ Good(kv, g.history, Len(g.history))
      /\ OnDevice => posdev = Len(g.history)
  BY DEF Accept, IInv, AnswerRows, Fed
<1>2. /\ Len(g.history) \in Nat /\ Len(g.history) < MaxSeq /\ MaxSeq \in Nat
      /\ DOMAIN g = DOMAIN NoGeneration
  BY <1>1, LoopFacts DEF IInv
<1>3. g.history \in Seq(Tokens) /\ DOMAIN kv = 0 .. (MaxSeq - 1)
  BY DEF IInv, Fits, Typed
<1>4. /\ longer \in Seq(Tokens) /\ Len(longer) = Len(g.history) + 1
      /\ longer[Len(g.history) + 1] = t
  BY <1>3, AppendProperties
<1>5. Good(kv, longer, Len(g.history))
  BY <1>1, <1>3, GoodOfAppend
<1>6. g'.pc = "accepted" /\ g'.history = longer /\ g'.mode = g.mode /\ family' = family
  BY <1>2 DEF Accept, NoGeneration
<1>7. Fits'
  BY AcceptFits DEF IInv
<1>8. AnswerRows'
  <2> HIDE DEF longer
  <2>1. CASE g.mode = "pipeline"
    <3>1. posdev = Len(g.history) /\ posdev' = Len(g.history) + 1
      BY <1>1, <2>1 DEF Accept, OnDevice
    <3>2. kv' = [kv EXCEPT ![Len(g.history)] = NewRow(kv, Len(g.history), <<t>>)]
      BY <2>1, <3>1 DEF Accept, Decode
    <3>3. Len(g.history) \in 0 .. Len(longer) - 1
      BY <1>2, <1>4
    <3>4. Good(kv', longer, Len(g.history) + 1)
      BY <1>2, <1>3, <1>4, <1>5, <3>2, <3>3, GoodGrows
    <3>5. Fed' = Len(g.history) + 1
      BY <1>4, <1>6, <2>1 DEF Fed
    <3> QED
      BY <1>6, <3>1, <3>4, <3>5 DEF AnswerRows
  <2>2. CASE g.mode # "pipeline"
    <3>1. kv' = kv /\ posdev' = posdev
      BY <2>2 DEF Accept
    <3>2. Fed' = Len(g.history)
      BY <1>2, <1>4, <1>6, <2>2 DEF Fed
    <3>3. OnDevice' = OnDevice
      BY <1>6 DEF OnDevice, Captured
    <3> QED
      BY <1>1, <1>5, <1>6, <3>1, <3>2, <3>3 DEF AnswerRows
  <2> QED
    BY <2>1, <2>2
<1> QED
  BY <1>6, <1>7, <1>8 DEF IInv, PrefillRows, KeptRows, SessionRows

LEMMA StepRows ==
  ASSUME IInv, Step
  PROVE  IInv'
<1> DEFINE h == g.history
<1>1. /\ g.pc = "accepted" /\ Good(kv, h, Fed) /\ (OnDevice => posdev = Fed)
  BY DEF Step, IInv, AnswerRows
<1>2. /\ Len(h) = Len(g.fed) + g.step + 1 /\ Len(g.fed) \in Nat /\ g.step \in Nat
      /\ Len(h) \in Nat /\ 0 < Len(h) /\ Len(h) <= MaxSeq /\ MaxSeq \in Nat
      /\ DOMAIN g = DOMAIN NoGeneration
  BY <1>1, LoopFacts DEF IInv
<1>3. h \in Seq(Tokens) /\ DOMAIN kv = 0 .. (MaxSeq - 1)
  BY DEF IInv, Fits, Typed
<1>4. /\ g'.history = h /\ g'.mode = g.mode /\ family' = family
      /\ g'.pc \in {"sample", "finish"}
  BY <1>2 DEF Step, NoGeneration, AfterStep
<1>5. Fits'
  BY StepFits DEF IInv
<1>6. Fed' = Len(h)
  BY <1>4 DEF Fed
<1>7. OnDevice' = OnDevice
  BY <1>4 DEF OnDevice, Captured
<1>8. Good(kv', h, Len(h)) /\ (OnDevice => posdev' = Len(h))
  <2>1. CASE g.mode = "pipeline"
    <3>1. kv' = kv /\ posdev' = posdev /\ Fed = Len(h)
      BY <2>1 DEF Step, device, Fed
    <3> QED
      BY <1>1, <3>1
  <2>2. CASE g.mode # "pipeline"
    <3> DEFINE pos == IF Captured THEN posdev ELSE Len(g.fed) + g.step
    <3>1. Fed = Len(h) - 1
      BY <1>1, <2>2 DEF Fed
    <3>2. pos = Len(h) - 1
      BY <1>1, <1>2, <2>2, <3>1 DEF OnDevice
    <3>3. /\ kv' = [kv EXCEPT ![pos] = NewRow(kv, pos, <<h[Len(h)]>>)]
          /\ posdev' = IF Captured THEN posdev + 1 ELSE posdev
      BY <2>2 DEF Step, Decode
    <3> HIDE DEF pos, h
    <3>4. pos \in 0 .. Len(h) - 1 /\ pos < MaxSeq /\ pos + 1 = Len(h)
      BY <1>2, <3>2
    <3>5. Good([kv EXCEPT ![pos] = NewRow(kv, pos, <<h[pos + 1]>>)], h, pos + 1)
      BY <1>1, <1>3, <3>1, <3>2, <3>4, GoodGrows
    <3>6. OnDevice => posdev' = Len(h)
      BY <1>1, <1>2, <2>2, <3>1, <3>3 DEF OnDevice
    <3> QED
      BY <3>3, <3>4, <3>5, <3>6
  <2> QED
    BY <2>1, <2>2
<1> QED
  BY <1>4, <1>5, <1>6, <1>7, <1>8
     DEF IInv, PrefillRows, AnswerRows, KeptRows, SessionRows

LEMMA EndRows ==
  ASSUME IInv, Finish \/ Fail
  PROVE  IInv'
<1>1. g'.pc = "idle" /\ kv' = kv /\ family' = family
  BY DEF Finish, Fail, NoGeneration
<1>2. Fits'
  BY EndFits DEF IInv
<1>3. ASSUME Finish PROVE SessionRows'
  BY <1>1, <1>3 DEF Finish, IInv, KeptRows, SessionRows
<1>4. ASSUME Fail PROVE SessionRows'
  <2>1. session' = <<>> /\ Len(session') = 0
    BY <1>4 DEF Fail, IInv, Fits, SessionFits
  <2> QED
    BY <2>1 DEF SessionRows, Good
<1> QED
  BY <1>1, <1>2, <1>3, <1>4 DEF IInv, PrefillRows, AnswerRows, KeptRows

LEMMA BetweenRows ==
  ASSUME CacheFollowsSession, IInv,
         (\E tokens \in Prompts : Embed(tokens)) \/ Reload \/ UNCHANGED vars
  PROVE  IInv'
<1>1. Fits'
  BY BetweenFits DEF IInv
<1>2. CASE \E tokens \in Prompts : Embed(tokens)
  <2>1. family # "std" /\ family' = family /\ g' = g /\ g.pc = "idle"
    BY <1>2 DEF Embed, CacheFollowsSession
  <2> QED
    BY <1>1, <2>1 DEF IInv, PrefillRows, AnswerRows, KeptRows, SessionRows
<1>3. CASE Reload
  <2>1. g' = g /\ g.pc = "idle" /\ session' = <<>> /\ Len(session') = 0
    BY <1>3 DEF Reload
  <2>2. SessionRows'
    BY <2>1 DEF SessionRows, Good
  <2> QED
    BY <1>1, <2>1, <2>2 DEF IInv, PrefillRows, AnswerRows, KeptRows
<1>4. CASE UNCHANGED vars
  BY <1>1, <1>4
     DEF vars, IInv, PrefillRows, AnswerRows, KeptRows, SessionRows, Good, Fed,
         OnDevice, Captured
<1> QED
  BY <1>2, <1>3, <1>4

LEMMA NextRows ==
  ASSUME CacheFollowsSession
  PROVE  IInv /\ [Next]_vars => IInv'
<1> SUFFICES ASSUME IInv, [Next]_vars PROVE IInv'
  OBVIOUS
<1>1. ASSUME NEW prompt \in Prompts, NEW mode \in ModesOf(family), Begin(prompt, mode)
      PROVE  IInv'
  BY <1>1, BeginRows
<1>2. CASE PrefillChunk
  BY <1>2, PrefillRowsStep
<1>3. CASE Project
  BY <1>3, ProjectRows
<1>4. CASE EndOfTurn \/ StopString
  BY <1>4, LeaveRows
<1>5. ASSUME NEW t \in Tokens, Accept(t) PROVE IInv'
  BY <1>5, AcceptRows
<1>6. CASE Step
  BY <1>6, StepRows
<1>7. CASE Finish \/ Fail
  BY <1>7, EndRows
<1>8. CASE (\E tokens \in Prompts : Embed(tokens)) \/ Reload \/ UNCHANGED vars
  BY <1>8, BetweenRows
<1>9. CASE Rest
  BY <1>8, <1>9 DEF Rest
<1> QED
  BY <1>1, <1>2, <1>3, <1>4, <1>5, <1>6, <1>7, <1>8, <1>9 DEF Next

(* Reuse of cached rows is sound where sessions are fed histories: for any *)
(* requests, in any order, each ended by the budget, an end of turn, a     *)
(* stop in the pipeline, or an error at any point, a token is chosen over  *)
(* exactly the rows of its own prompt and answer.                          *)
THEOREM ReuseIsSound ==
  ASSUME CacheFollowsSession
  PROVE  Spec => []ContextIsHistory
<1>1. IInv /\ [Next]_vars => IInv'
  BY NextRows
<1>2. Spec => []IInv
  BY <1>1, InitRows, PTL DEF Spec
<1>3. ASSUME IInv PROVE ContextIsHistory
  <2> SUFFICES ASSUME g.pc = "sample"
               PROVE  Context(kv, Len(g.history)) = g.history
    BY DEF ContextIsHistory
  <2>1. g.history \in Seq(Tokens) /\ Len(g.history) \in Nat
    BY <1>3, LenProperties DEF IInv, Fits, Typed
  <2>2. Good(kv, g.history, Len(g.history))
    BY <1>3 DEF IInv, AnswerRows, Fed
  <2>3. Len(g.history) \in 0 .. Len(g.history)
    BY <2>1
  <2>4. Context(kv, Len(g.history)) = SubSeq(g.history, 1, Len(g.history))
    BY <2>1, <2>2, <2>3, ContextOfGood
  <2> QED
    BY <2>1, <2>4, SubSeqFull
<1> QED
  BY <1>2, <1>3, PTL

--------------------------------------------------------------------------------
(* The row the next token is chosen from.  A chunk overwrites the rows of  *)
(* the one before it, so what counts is where the last chunk ended; every  *)
(* chunk but the last is full.                                             *)

ChunkRow ==
  g.pc = "prefill" =>
    /\ g.done % Chunk = 0 \/ g.done = Delta
    /\ g.done > 0 => x[(g.done - 1) % Chunk] = SubSeq(g.fed, 1, g.reused + g.done)

HeadRows ==
  /\ g.pc = "sample" /\ ~ FirstGreedyAfterReuse => g.head = g.history
  /\ g.pc = "accepted" /\ g.mode = "pipeline" => g.head = g.history

Heads == DOMAIN x = 0 .. (Chunk - 1) /\ ChunkRow /\ HeadRows

LEMMA Below ==
  ASSUME NEW c \in Nat, NEW d \in Int, c * d < c, - c < c * d
  PROVE  d = 0
<1>1. CASE d >= 1
  <2>1. c * d >= c * 1
    BY <1>1
  <2> QED
    BY <2>1
<1>2. CASE d <= -1
  <2>1. c * d <= c * (-1)
    BY <1>2
  <2> QED
    BY <2>1
<1> QED
  BY <1>1, <1>2

LEMMA Remainder ==
  ASSUME NEW c \in Nat, c > 0, NEW n \in Nat, n % c = 0, NEW r \in Nat, r < c
  PROVE  (n + r) % c = r
<1> DEFINE q == n \div c
           p == (n + r) \div c
           s == (n + r) % c
<1>1. q \in Int /\ n = c * q
  OBVIOUS
<1>2. p \in Int /\ s \in Nat /\ s < c /\ n + r = c * p + s
  OBVIOUS
<1> HIDE DEF q, p, s
<1>3. c * (q - p) = c * q - c * p
  BY <1>1, <1>2
<1>4. c * (q - p) = s - r
  BY <1>1, <1>2, <1>3
<1>5. q - p = 0
  BY <1>1, <1>2, <1>4, Below
<1> QED
  BY <1>1, <1>2, <1>5 DEF s

LEMMA NextMultiple ==
  ASSUME NEW c \in Nat, c > 0, NEW n \in Nat, n % c = 0
  PROVE  (n + c) % c = 0
<1> DEFINE q == n \div c
           p == (n + c) \div c
           s == (n + c) % c
<1>1. q \in Int /\ n = c * q
  OBVIOUS
<1>2. p \in Int /\ s \in Nat /\ s < c /\ n + c = c * p + s
  OBVIOUS
<1> HIDE DEF q, p, s
<1>3. c * (q + 1 - p) = c * q + c - c * p
  BY <1>1, <1>2
<1>4. c * (q + 1 - p) = s
  BY <1>1, <1>2, <1>3
<1>5. q + 1 - p = 0
  BY <1>1, <1>2, <1>4, Below
<1> QED
  BY <1>1, <1>2, <1>4, <1>5 DEF s

(* A row for one token more, over good rows.                               *)
LEMMA NextRowIsHistory ==
  ASSUME NEW cache, NEW h \in Seq(Tokens), NEW t \in Tokens, Good(cache, h, Len(h))
  PROVE  NewRow(cache, Len(h), <<t>>) = Append(h, t)
<1>1. Len(h) \in Nat /\ Len(h) \in 0 .. Len(h)
  BY LenProperties
<1>2. Context(cache, Len(h)) = SubSeq(h, 1, Len(h))
  BY <1>1, ContextOfGood
<1>3. SubSeq(h, 1, Len(h)) = h
  BY SubSeqFull
<1>4. h # Broken /\ Append(h, t) = h \o <<t>>
  BY NotBroken, AppendIsConcat
<1> QED
  BY <1>2, <1>3, <1>4 DEF NewRow

LEMMA PrefillHeads ==
  ASSUME IInv, Heads, PrefillChunk
  PROVE  Heads'
<1> DEFINE take == Smaller(Delta - g.done, Chunk)
           pos == g.reused + g.done
           row(i) == NewRow(kv, pos, SubSeq(g.fed, pos + 1, pos + i + 1))
<1>1. /\ g.pc = "prefill" /\ g.done < Delta /\ Len(g.fed) <= MaxSeq
      /\ g.reused \in Nat /\ g.done \in Nat /\ Len(g.fed) \in Nat
      /\ Chunk \in Nat /\ Chunk > 0 /\ MaxSeq \in Nat /\ g.fed \in Seq(Tokens)
      /\ DOMAIN g = DOMAIN NoGeneration /\ DOMAIN x = 0 .. (Chunk - 1)
      /\ Good(kv, g.fed, pos)
  BY LenProperties, SizesAssumption
     DEF PrefillChunk, IInv, Fits, Typed, PrefillFits, PrefillRows, Heads
<1>2. /\ take \in Nat /\ take > 0 /\ take <= Chunk /\ pos \in Nat /\ pos + take <= Len(g.fed)
      /\ (take = Chunk \/ g.done + take = Delta)
  <2> DEFINE len == Len(g.fed)
             done == g.done
             reused == g.reused
  <2>1. /\ len \in Nat /\ done \in Nat /\ reused \in Nat /\ Chunk \in Nat
        /\ Chunk > 0 /\ done < len - reused
    BY <1>1 DEF Delta
  <2>2. take = IF len - reused - done < Chunk THEN len - reused - done ELSE Chunk
    BY <2>1 DEF Smaller, Delta
  <2>3. Delta = len - reused /\ pos = reused + done
    BY DEF Delta
  <2> HIDE DEF len, done, reused, pos
  <2>4. take \in Nat /\ take > 0 /\ take <= Chunk /\ pos \in Nat /\ pos + take <= len
    BY <2>1, <2>2, <2>3
  <2>5. take = Chunk \/ done + take = Delta
    BY <2>1, <2>2, <2>3
  <2> QED
    BY <2>4, <2>5 DEF len, done
<1>3. g.done % Chunk = 0
  BY <1>1 DEF Heads, ChunkRow, Delta
<1>4. /\ x' = [i \in DOMAIN x |-> IF i < take THEN row(i) ELSE x[i]]
      /\ g' = [g EXCEPT !.done = @ + take]
  BY <1>1 DEF PrefillChunk
<1> HIDE DEF take
<1>5. /\ g'.pc = "prefill" /\ g'.fed = g.fed /\ g'.reused = g.reused /\ g'.done = g.done + take
  <2>1. g' = [g EXCEPT !.done = @ + take]
    BY <1>4
  <2> QED
    BY <1>1, <2>1 DEF NoGeneration
<1>6. Delta' = Delta
  BY <1>5 DEF Delta
<1>7. x'[take - 1] = SubSeq(g.fed, 1, pos + take)
  <2>1. take - 1 \in 0 .. (Chunk - 1) /\ take - 1 < take
    BY <1>1, <1>2
  <2>2. x'[take - 1] = row(take - 1)
    BY <1>1, <1>4, <2>1
  <2>3. pos + (take - 1) + 1 = pos + take
    BY <1>2
  <2>4. x'[take - 1] = NewRow(kv, pos, SubSeq(g.fed, pos + 1, pos + take))
    BY <2>2, <2>3
  <2> HIDE DEF pos, row
  <2>5. pos \in 0 .. Len(g.fed) /\ pos + take \in pos .. Len(g.fed)
    BY <1>1, <1>2
  <2> QED
    BY <1>1, <2>4, <2>5, RowAfterGood
<1>8. (g.done + take - 1) % Chunk = take - 1
  <2>1. take - 1 \in Nat /\ take - 1 < Chunk
    BY <1>1, <1>2
  <2>2. (g.done + (take - 1)) % Chunk = take - 1
    BY <1>1, <1>3, <2>1, Remainder
  <2>3. g.done + (take - 1) = g.done + take - 1
    BY <1>1, <1>2
  <2> QED
    BY <2>2, <2>3
<1>9. (g.done + take) % Chunk = 0 \/ g.done + take = Delta
  <2>1. (g.done + Chunk) % Chunk = 0
    BY <1>1, <1>3, NextMultiple
  <2> QED
    BY <1>2, <2>1
<1>10. pos + take = g'.reused + g'.done
  BY <1>1, <1>2, <1>5
<1>11. ChunkRow'
  <2>1. x'[(g'.done - 1) % Chunk] = SubSeq(g'.fed, 1, g'.reused + g'.done)
    <3>1. (g'.done - 1) % Chunk = take - 1
      <4>1. g'.done = g.done + take /\ g.done \in Nat /\ take \in Nat
        BY <1>1, <1>2, <1>5
      <4>2. g'.done - 1 = g.done + take - 1
        BY <4>1
      <4> QED
        BY <1>8, <4>2
    <3> HIDE DEF pos
    <3> QED
      BY <1>5, <1>7, <1>10, <3>1
  <2>2. g'.done % Chunk = 0 \/ g'.done = Delta'
    BY <1>5, <1>9, <1>6
  <2> QED
    BY <2>1, <2>2 DEF ChunkRow
<1>12. DOMAIN x' = 0 .. (Chunk - 1)
  BY <1>1, <1>4
<1> QED
  BY <1>5, <1>11, <1>12 DEF Heads, HeadRows

(* prefill_argmax counts the row from the start of the prompt: right when  *)
(* nothing was reused.                                                     *)
LEMMA ProjectHeads ==
  ASSUME IInv, Heads, Project
  PROVE  Heads'
<1>1. /\ g.pc = "prefill" /\ g.history = g.fed /\ g.done = Delta /\ g.step = 0
      /\ g.reused \in Nat /\ Len(g.fed) \in Nat /\ g.reused < Len(g.fed)
      /\ g.fed \in Seq(Tokens) /\ DOMAIN g = DOMAIN NoGeneration
  BY LenProperties DEF Project, IInv, Fits, Typed, PrefillFits
<1>2. /\ g'.pc \in {"finish", "sample"} /\ g'.history = g.fed /\ g'.mode = g.mode
      /\ g'.step = 0 /\ g'.reused = g.reused /\ g'.head = x[HeadRow] /\ x' = x
  BY <1>1 DEF Project, NoGeneration
<1>3. ASSUME g.mode \notin Greedy \/ g.reused = 0 PROVE g'.head = g.fed
  <2>1. HeadRow = (g.done - 1) % Chunk
    <3>1. CASE g.mode \notin Greedy
      BY <1>1, <3>1 DEF HeadRow
    <3>2. CASE g.reused = 0 /\ g.mode \in Greedy
      <4>1. Delta + g.reused - 1 = g.done - 1
        BY <1>1, <3>2 DEF Delta
      <4> QED
        BY <3>2, <4>1 DEF HeadRow
    <3> QED
      BY <1>3, <3>1, <3>2
  <2>2. g.done > 0 /\ g.reused + g.done = Len(g.fed)
    BY <1>1 DEF Delta
  <2>3. x[(g.done - 1) % Chunk] = SubSeq(g.fed, 1, Len(g.fed))
    BY <1>1, <2>2 DEF Heads, ChunkRow
  <2> QED
    BY <1>1, <1>2, <2>1, <2>3, SubSeqFull
<1>4. ~ FirstGreedyAfterReuse' => g.mode \notin Greedy \/ g.reused = 0
  BY <1>1, <1>2 DEF FirstGreedyAfterReuse
<1> QED
  BY <1>2, <1>3, <1>4 DEF Heads, ChunkRow, HeadRows

LEMMA AcceptHeads ==
  ASSUME IInv, Heads, NEW t \in Tokens, Accept(t)
  PROVE  Heads'
<1>1. /\ g.pc = "sample" /\ Good(kv, g.history, Len(g.history))
      /\ OnDevice => posdev = Len(g.history)
  BY DEF Accept, IInv, AnswerRows, Fed
<1>2. DOMAIN g = DOMAIN NoGeneration /\ g.history \in Seq(Tokens)
  BY DEF IInv, Fits, Typed
<1>3. g'.pc = "accepted" /\ g'.history = Append(g.history, t) /\ g'.mode = g.mode
  BY <1>2 DEF Accept, NoGeneration
<1>4. DOMAIN x' = DOMAIN x
  BY DEF Accept, Decode
<1>5. ASSUME g.mode = "pipeline" PROVE g'.head = g'.history
  <2>1. posdev = Len(g.history)
    BY <1>1, <1>5 DEF OnDevice
  <2>2. g'.head = NewRow(kv, posdev, <<t>>)
    BY <1>2, <1>5 DEF Accept, NoGeneration
  <2> QED
    BY <1>1, <1>2, <1>3, <2>1, <2>2, NextRowIsHistory
<1> QED
  BY <1>3, <1>4, <1>5 DEF Heads, ChunkRow, HeadRows

LEMMA StepHeads ==
  ASSUME IInv, Heads, Step
  PROVE  Heads'
<1> DEFINE h == g.history
           n == Len(h) - 1
<1>1. /\ g.pc = "accepted" /\ Good(kv, h, Fed) /\ (OnDevice => posdev = Fed)
  BY DEF Step, IInv, AnswerRows
<1>2. /\ Len(h) = Len(g.fed) + g.step + 1 /\ Len(g.fed) \in Nat /\ g.step \in Nat
      /\ Len(h) \in Nat /\ 0 < Len(h) /\ DOMAIN g = DOMAIN NoGeneration
  BY <1>1, LoopFacts DEF IInv
<1>3. h \in Seq(Tokens)
  BY DEF IInv, Fits, Typed
<1>4. g'.history = h /\ g'.mode = g.mode /\ g'.pc \in {"sample", "finish"} /\ g'.step = g.step + 1
  BY <1>2 DEF Step, NoGeneration, AfterStep
<1>5. DOMAIN x' = DOMAIN x
  BY DEF Step, Decode
<1>6. g'.head = h
  <2>1. CASE g.mode = "pipeline"
    BY <1>1, <1>2, <2>1 DEF Step, Heads, HeadRows, NoGeneration
  <2>2. CASE g.mode # "pipeline"
    <3> DEFINE pos == IF Captured THEN posdev ELSE Len(g.fed) + g.step
    <3>1. Fed = n /\ n \in 0 .. Len(h) /\ n + 1 \in n .. Len(h) /\ n + 1 = Len(h)
      BY <1>1, <1>2, <2>2 DEF Fed
    <3>2. pos = n
      BY <1>1, <1>2, <2>2, <3>1 DEF OnDevice
    <3>3. g'.head = NewRow(kv, pos, <<h[Len(h)]>>)
      BY <1>2, <2>2 DEF Step, NoGeneration
    <3>4. <<h[Len(h)]>> = SubSeq(h, n + 1, n + 1)
      <4>1. Len(h) \in 1 .. Len(h)
        BY <1>2
      <4>2. SubSeq(h, Len(h), Len(h)) = <<h[Len(h)]>>
        <5> HIDE DEF h
        <5> QED
          BY <1>3, <4>1, OneOfSequence
      <4> QED
        BY <3>1, <4>2
    <3> HIDE DEF pos, h, n
    <3>5. NewRow(kv, n, SubSeq(h, n + 1, n + 1)) = SubSeq(h, 1, n + 1)
      BY <1>1, <1>3, <3>1, RowAfterGood
    <3> QED
      BY <1>3, <3>1, <3>2, <3>3, <3>4, <3>5, SubSeqFull
  <2> QED
    BY <2>1, <2>2
<1> QED
  BY <1>4, <1>5, <1>6 DEF Heads, ChunkRow, HeadRows

LEMMA InitHeads == Init => Heads
<1> SUFFICES ASSUME Init PROVE Heads
  OBVIOUS
<1>1. g.pc = "idle" /\ DOMAIN x = 0 .. (Chunk - 1)
  BY DEF Init, NoGeneration
<1> QED
  BY <1>1 DEF Heads, ChunkRow, HeadRows

LEMMA NextHeads == IInv /\ Heads /\ [Next]_vars => Heads'
<1> SUFFICES ASSUME IInv, Heads, [Next]_vars PROVE Heads'
  OBVIOUS
<1>1. ASSUME NEW prompt \in Prompts, NEW mode \in ModesOf(family), Begin(prompt, mode)
      PROVE  Heads'
  <2>1. g'.pc = "prefill" /\ g'.done = 0 /\ x' = x
    BY <1>1 DEF Begin, NoGeneration
  <2>2. 0 % Chunk = 0
    BY SizesAssumption
  <2> QED
    BY <2>1, <2>2 DEF Heads, ChunkRow, HeadRows
<1>2. CASE PrefillChunk
  BY <1>2, PrefillHeads
<1>3. CASE Project
  BY <1>3, ProjectHeads
<1>4. CASE EndOfTurn \/ StopString
  <2>1. g' = [g EXCEPT !.pc = "finish"] /\ x' = x /\ DOMAIN g = DOMAIN NoGeneration
    BY <1>4 DEF EndOfTurn, StopString, IInv, Fits, Typed
  <2>2. g'.pc = "finish"
    BY <2>1 DEF NoGeneration
  <2> QED
    BY <2>1, <2>2 DEF Heads, ChunkRow, HeadRows
<1>5. ASSUME NEW t \in Tokens, Accept(t) PROVE Heads'
  BY <1>5, AcceptHeads
<1>6. CASE Step
  BY <1>6, StepHeads
<1>7. CASE Finish \/ Fail
  BY <1>7 DEF Finish, Fail, NoGeneration, Heads, ChunkRow, HeadRows
<1>8. CASE (\E tokens \in Prompts : Embed(tokens)) \/ Reload
  <2>1. g' = g /\ g.pc = "idle" /\ DOMAIN x' = DOMAIN x
    BY <1>8 DEF Embed, Reload
  <2> QED
    BY <2>1 DEF Heads, ChunkRow, HeadRows
<1>9. CASE UNCHANGED vars
  BY <1>9 DEF vars, Heads, ChunkRow, HeadRows, FirstGreedyAfterReuse, Delta
<1>10. CASE Rest
  BY <1>9, <1>10 DEF Rest
<1> QED
  BY <1>1, <1>2, <1>3, <1>4, <1>5, <1>6, <1>7, <1>8, <1>9, <1>10 DEF Next

(* A token is chosen from the row of the newest token, for any prompt, any *)
(* reused prefix and any size of a chunk, in every mode and at every step  *)
(* but one: the first greedy token after a reused prefix, where the code   *)
(* counts the row from the wrong end (and HeadIsNewest fails).             *)
THEOREM NewestRowDecides ==
  ASSUME CacheFollowsSession
  PROVE  Spec => []HeadIsNewestElsewhere
<1>1. IInv /\ [Next]_vars => IInv'
  BY NextRows
<1>2. Spec => [](IInv /\ Heads)
  BY <1>1, InitRows, InitHeads, NextHeads, PTL DEF Spec
<1>3. ASSUME Heads PROVE HeadIsNewestElsewhere
  BY <1>3 DEF Heads, HeadRows, HeadIsNewestElsewhere, HeadIsNewest
<1> QED
  BY <1>2, <1>3, PTL

--------------------------------------------------------------------------------
(* The penalty window.  The device never sees the text: it has a ring of   *)
(* the last tokens and a count per token, seeded from the prompt and       *)
(* brought up to date with each token fed.                                 *)

(* An empty slot of the ring reads as 0, so a token 0 would be counted out *)
(* when a slot is used for the first time.                                 *)
NoTokenIsZero == 0 \notin Tokens

(* Where hist_reset_and_seed begins.                                       *)
From(fed) == IF Len(fed) > Window THEN Len(fed) - Window ELSE 0

(* The places of t under the window when n tokens of h are pushed, the     *)
(* first of them at position from.                                         *)
InWindow(h, from, n, t) == {i \in 1 .. n : i > from /\ i > n - Window /\ h[i] = t}

(* What ring and counts may hold.                                          *)
Hists == [ring : [0 .. (Window - 1) -> Tokens \cup {0}], counts : [Tokens \cup {0} -> Nat]]

(* The slot of a position.                                                 *)
Slot(p) == p % Window

(* The ring holds the window, 0 in the other slots, and the counts are     *)
(* those of the window.                                                    *)
Slots(held, h, from, n) ==
  \A p \in from .. (n - 1) : p >= n - Window => held[Slot(p)] = h[p + 1]
Spare(held, from, n) ==
  \A s \in 0 .. (Window - 1) :
    (\A p \in from .. (n - 1) : p >= n - Window => Slot(p) # s) => held[s] = 0
Counted(hist, h, from, n) ==
  \A t \in Tokens : hist.counts[t] = Cardinality(InWindow(h, from, n, t))
Follows(hist, h, from, n) ==
  hist \in Hists /\ Slots(hist.ring, h, from, n) /\ Spare(hist.ring, from, n) /\ Counted(hist, h, from, n)

LEMMA SlotIsSlot ==
  ASSUME NEW p \in Nat
  PROVE  Slot(p) \in 0 .. (Window - 1)
BY SizesAssumption DEF Slot

(* Positions nearer than the window have slots of their own; the next one  *)
(* takes the slot of the one that leaves.                                  *)
LEMMA OneOfASlot ==
  ASSUME NEW p \in Nat, NEW q \in Nat, p <= q, q - p < Window, Slot(p) = Slot(q)
  PROVE  p = q
<1> DEFINE d == p \div Window
           e == q \div Window
           s == p % Window
<1>0. Window \in Nat /\ Window > 0
  BY SizesAssumption
<1>1. d \in Int /\ s \in Nat /\ p = Window * d + s
  BY <1>0
<1>2. e \in Int /\ q = Window * e + s
  <2>1. q % Window = s
    BY DEF Slot
  <2> QED
    BY <1>0, <2>1
<1> HIDE DEF d, e, s
<1>3. Window * (e - d) = Window * e - Window * d
  BY <1>0, <1>1, <1>2
<1>4. Window * (e - d) = q - p
  BY <1>0, <1>1, <1>2, <1>3
<1>5. e - d = 0
  BY <1>0, <1>1, <1>2, <1>4, Below
<1> QED
  BY <1>1, <1>2, <1>5

LEMMA SlotComesRound ==
  ASSUME NEW n \in Nat, Window <= n
  PROVE  Slot(n - Window) = Slot(n)
<1> DEFINE p == n - Window
           d == p \div Window
           e == n \div Window
           s == p % Window
           r == n % Window
<1>0. Window \in Nat /\ Window > 0 /\ p \in Nat /\ n = p + Window
  BY SizesAssumption
<1>1. d \in Int /\ s \in Nat /\ s < Window /\ p = Window * d + s
  BY <1>0
<1>2. e \in Int /\ r \in Nat /\ r < Window /\ n = Window * e + r
  BY <1>0
<1> HIDE DEF d, e, s, r, p
<1>3. Window * (e - (d + 1)) = Window * e - Window * d - Window
  BY <1>0, <1>1, <1>2
<1>4. Window * (e - (d + 1)) = s - r
  BY <1>0, <1>1, <1>2, <1>3
<1>5. e - (d + 1) = 0
  BY <1>0, <1>1, <1>2, <1>4, Below
<1>6. s = r
  BY <1>0, <1>1, <1>2, <1>4, <1>5
<1> QED
  BY <1>6 DEF s, r, p, Slot

(* Seeded is defined by recursion.  Its function exists, by counting up    *)
(* from where the seeding begins, and so is what its equation says.        *)
Seeds(fed) ==
  CHOOSE after : after =
    [p \in From(fed) .. Len(fed) |->
       IF p = From(fed) THEN [ring |-> FreshRing, counts |-> FreshCounts]
       ELSE Push(after[p - 1], p - 1, fed[p])]

LEMMA SeededIsLast ==
  ASSUME NEW fed
  PROVE  Seeded(fed) = Seeds(fed)[Len(fed)]
BY DEF Seeded, Seeds, From

(* Counting: a set with 0 and with every successor of its members has all. *)
LEMMA CountUp ==
  ASSUME NEW S \in SUBSET Nat, 0 \in S, \A n \in S : n + 1 \in S
  PROVE  \A n \in Nat : n \in S
<1> SUFFICES ASSUME NEW n \in Nat, n \notin S PROVE FALSE
  OBVIOUS
<1> DEFINE R == OpToRel(<, Nat)
           T == Nat \ S
<1>1. IsWellFoundedOn(R, Nat)
  BY NatLessThanWellFounded
<1>2. T \subseteq Nat /\ T # {}
  OBVIOUS
<1>3. PICK low \in T : \A y \in T : ~ (<<y, low>> \in R)
  <2> HIDE DEF R, T
  <2> QED
    BY <1>1, <1>2, WFMin
<1>4. low - 1 \in Nat /\ low - 1 < low
  OBVIOUS
<1>5. low - 1 \notin T
  BY <1>3, <1>4 DEF OpToRel
<1>6. low - 1 \in S
  BY <1>4, <1>5
<1>7. low - 1 + 1 = low
  BY <1>4
<1> QED
  BY <1>6, <1>7

(* The right-hand side of the equation, up to a last position.             *)
Seed(fed, last, after) ==
  [p \in From(fed) .. last |->
     IF p = From(fed) THEN [ring |-> FreshRing, counts |-> FreshCounts]
     ELSE Push(after[p - 1], p - 1, fed[p])]

LEMMA SeedExists ==
  ASSUME NEW fed \in Seq(Tokens)
  PROVE  \E after : after = Seed(fed, Len(fed), after)
<1> DEFINE f == From(fed)
           S == {k \in Nat : \E after : after = Seed(fed, f + k, after)}
<1>1. Len(fed) \in Nat /\ f \in Nat /\ f <= Len(fed)
  BY LenProperties, SizesAssumption DEF From
<1> HIDE DEF f
<1>2. 0 \in S
  <2> DEFINE a == [p \in f .. f |-> [ring |-> FreshRing, counts |-> FreshCounts]]
  <2>1. a = Seed(fed, f, a)
    BY <1>1 DEF Seed, f
  <2>2. f + 0 = f
    BY <1>1
  <2> QED
    BY <2>1, <2>2
<1>3. ASSUME NEW k \in S PROVE k + 1 \in S
  <2>1. PICK a : a = Seed(fed, f + k, a)
    OBVIOUS
  <2> DEFINE b == Seed(fed, f + (k + 1), a)
  <2>2. ASSUME NEW p \in f .. f + (k + 1), p # f PROVE b[p - 1] = a[p - 1]
    <3>1. p - 1 \in f .. f + k /\ p - 1 \in f .. f + (k + 1)
      BY <1>1, <2>2
    <3>2. a[p - 1] = IF p - 1 = f THEN [ring |-> FreshRing, counts |-> FreshCounts]
                     ELSE Push(a[p - 1 - 1], p - 1 - 1, fed[p - 1])
      BY <2>1, <3>1 DEF Seed, f
    <3> QED
      BY <3>1, <3>2 DEF Seed, f
  <2>3. b = Seed(fed, f + (k + 1), b)
    <3>1. b = [p \in f .. f + (k + 1) |->
                 IF p = f THEN [ring |-> FreshRing, counts |-> FreshCounts]
                 ELSE Push(a[p - 1], p - 1, fed[p])]
      BY DEF Seed, f
    <3> HIDE DEF b
    <3> QED
      BY <2>2, <3>1 DEF Seed, f
  <2> HIDE DEF b
  <2> QED
    BY <2>3
<1>4. Len(fed) - f \in S
  <2>1. Len(fed) - f \in Nat
    BY <1>1
  <2> HIDE DEF S
  <2>2. S \in SUBSET Nat
    BY DEF S
  <2> QED
    BY <1>2, <1>3, <2>1, <2>2, CountUp
<1>5. f + (Len(fed) - f) = Len(fed)
  BY <1>1
<1> QED
  BY <1>4, <1>5

LEMMA SeedsUnfolds ==
  ASSUME NEW fed \in Seq(Tokens)
  PROVE  Seeds(fed) = Seed(fed, Len(fed), Seeds(fed))
<1>1. Seeds(fed) = CHOOSE after : after = Seed(fed, Len(fed), after)
  BY DEF Seeds, Seed
<1> QED
  BY <1>1, SeedExists

LEMMA WindowIsFinite ==
  ASSUME NEW h, NEW from, NEW n \in Nat, NEW t
  PROVE  IsFiniteSet(InWindow(h, from, n, t)) /\ Cardinality(InWindow(h, from, n, t)) \in Nat
<1>1. IsFiniteSet(1 .. n)
  BY FS_Interval
<1>2. InWindow(h, from, n, t) \in SUBSET (1 .. n)
  BY DEF InWindow
<1>3. IsFiniteSet(InWindow(h, from, n, t))
  BY <1>1, <1>2, FS_Subset
<1> QED
  BY <1>3, FS_CardinalityType

(* k_hist_push, slot by slot and token by token.                           *)
LEMMA PushTyped ==
  ASSUME NEW hist \in Hists, NEW n \in Nat, NEW t \in Tokens
  PROVE  /\ Push(hist, n, t) \in Hists /\ hist.ring[Slot(n)] \in Tokens \cup {0}
         /\ \A q \in 0 .. (Window - 1) :
              Push(hist, n, t).ring[q] = IF q = Slot(n) THEN t ELSE hist.ring[q]
         /\ \A u \in Tokens :
              Push(hist, n, t).counts[u] =
                (IF u = hist.ring[Slot(n)] /\ hist.counts[u] > 0
                 THEN hist.counts[u] - 1 ELSE hist.counts[u]) + (IF u = t THEN 1 ELSE 0)
<1> DEFINE s == Slot(n)
           old == hist.ring[s]
           evicted == [hist.counts EXCEPT ![old] = IF @ > 0 THEN @ - 1 ELSE 0]
           after == Push(hist, n, t)
<1>1. s \in 0 .. (Window - 1)
  BY SlotIsSlot
<1>2. hist.ring \in [0 .. (Window - 1) -> Tokens \cup {0}] /\ hist.counts \in [Tokens \cup {0} -> Nat]
  BY DEF Hists
<1>3. after = [ring |-> [hist.ring EXCEPT ![s] = t], counts |-> [evicted EXCEPT ![t] = @ + 1]]
  BY DEF Push, Slot
<1> HIDE DEF after, s
<1>4. old \in Tokens \cup {0}
  BY <1>1, <1>2
<1>5. evicted \in [Tokens \cup {0} -> Nat]
  BY <1>2, <1>4
<1>6. \A u \in Tokens : evicted[u] = IF u = old /\ hist.counts[u] > 0 THEN hist.counts[u] - 1 ELSE hist.counts[u]
  BY <1>2, <1>4
<1> HIDE DEF evicted, old
<1>7. after.counts = [evicted EXCEPT ![t] = @ + 1] /\ after.ring = [hist.ring EXCEPT ![s] = t]
  BY <1>3
<1>8. after.counts \in [Tokens \cup {0} -> Nat] /\ after.ring \in [0 .. (Window - 1) -> Tokens \cup {0}]
  <2>1. evicted[t] + 1 \in Nat
    BY <1>5
  <2>2. [evicted EXCEPT ![t] = @ + 1] \in [Tokens \cup {0} -> Nat]
    BY <1>5, <2>1
  <2>3. [hist.ring EXCEPT ![s] = t] \in [0 .. (Window - 1) -> Tokens \cup {0}]
    BY <1>2
  <2> QED
    BY <1>7, <2>2, <2>3
<1>9. after \in Hists
  <2>1. after = [ring |-> after.ring, counts |-> after.counts]
    BY <1>3, <1>7
  <2> QED
    BY <1>8, <2>1 DEF Hists
<1>10. \A u \in Tokens : after.counts[u] = evicted[u] + (IF u = t THEN 1 ELSE 0)
  BY <1>5, <1>7
<1>11. \A q \in 0 .. (Window - 1) : after.ring[q] = IF q = s THEN t ELSE hist.ring[q]
  BY <1>2, <1>7
<1> QED
  BY <1>4, <1>6, <1>9, <1>10, <1>11 DEF after, old, s

LEMMA SlotsHold ==
  ASSUME NEW held, NEW h, NEW from \in Nat, NEW n \in Nat, Slots(held, h, from, n),
         NEW p \in from .. (n - 1), p >= n - Window
  PROVE  held[Slot(p)] = h[p + 1]
BY DEF Slots

LEMMA SlotsNext ==
  ASSUME NEW held, NEW h, NEW from \in Nat, NEW n \in Nat, Window \in Nat,
         \A p \in from .. n : p >= n + 1 - Window => held[Slot(p)] = h[p + 1]
  PROVE  Slots(held, h, from, n + 1)
BY DEF Slots

(* A push moves the window by one: the token that leaves is the one whose  *)
(* slot is taken, if the window is full, and none otherwise.               *)
LEMMA PushFollows ==
  ASSUME NoTokenIsZero, NEW h \in Seq(Tokens), NEW from \in Nat, NEW n \in Nat,
         from <= n, n < Len(h), NEW hist, Follows(hist, h, from, n)
  PROVE  Follows(Push(hist, n, h[n + 1]), h, from, n + 1)
<1> DEFINE s == Slot(n)
           t == h[n + 1]
           old == hist.ring[s]
           after == Push(hist, n, t)
           gone == n - Window + 1
<1>1. /\ Window \in Nat /\ Window > 0 /\ Len(h) \in Nat /\ n + 1 \in 1 .. Len(h)
      /\ s \in 0 .. (Window - 1) /\ t \in Tokens /\ hist \in Hists
  <2>1. Len(h) \in Nat
    BY LenProperties
  <2>2. n + 1 \in 1 .. Len(h)
    BY <2>1
  <2>3. t \in Tokens
    BY <2>2, ElementOfSeq
  <2> QED
    BY <2>1, <2>2, <2>3, SizesAssumption, SlotIsSlot DEF Follows
<1>2. /\ after \in Hists /\ old \in Tokens \cup {0}
      /\ \A q \in 0 .. (Window - 1) : after.ring[q] = IF q = s THEN t ELSE hist.ring[q]
      /\ \A u \in Tokens :
           after.counts[u] =
             (IF u = old /\ hist.counts[u] > 0 THEN hist.counts[u] - 1 ELSE hist.counts[u])
               + (IF u = t THEN 1 ELSE 0)
  <2>1. hist \in Hists /\ t \in Tokens
    BY <1>1
  <2> HIDE DEF t
  <2>2. /\ Push(hist, n, t) \in Hists /\ hist.ring[Slot(n)] \in Tokens \cup {0}
        /\ \A q \in 0 .. (Window - 1) :
              Push(hist, n, t).ring[q] = IF q = Slot(n) THEN t ELSE hist.ring[q]
        /\ \A u \in Tokens :
              Push(hist, n, t).counts[u] =
                (IF u = hist.ring[Slot(n)] /\ hist.counts[u] > 0
                 THEN hist.counts[u] - 1 ELSE hist.counts[u]) + (IF u = t THEN 1 ELSE 0)
    BY <2>1, PushTyped, SMTT(40)
  <2> QED
    BY <2>2
<1> HIDE DEF after
<1>3. ASSUME NEW p \in from .. n, p >= n + 1 - Window
      PROVE  after.ring[Slot(p)] = h[p + 1]
  <2>1. p \in Nat /\ p <= n /\ n - p < Window /\ Slot(p) \in 0 .. (Window - 1)
    <3>1. p \in Nat /\ p <= n /\ n - p < Window
      BY <1>1, <1>3
    <3> QED
      BY <3>1, SlotIsSlot
  <2>2. CASE p = n
    BY <1>2, <2>1, <2>2
  <2>3. CASE p # n
    <3>1. Slot(p) # s
      BY <2>1, <2>3, OneOfASlot
    <3>2. p \in from .. (n - 1) /\ p >= n - Window
      BY <1>1, <1>3, <2>1, <2>3
    <3>3. hist.ring[Slot(p)] = h[p + 1]
      BY <3>2, SlotsHold DEF Follows
    <3> QED
      BY <1>2, <2>1, <3>1, <3>3
  <2> QED
    BY <2>2, <2>3
<1>31. Slots(after.ring, h, from, n + 1)
  BY <1>1, <1>3, SlotsNext
<1>4. CASE from <= n - Window
  <2>1. /\ n - Window \in Nat /\ Slot(n - Window) = s
        /\ n - Window \in from .. (n - 1) /\ gone = n - Window + 1
        /\ gone \in 1 .. n /\ gone > from
    <3>1. n - Window \in Nat /\ Window <= n
      BY <1>1, <1>4
    <3> QED
      BY <1>1, <1>4, <3>1, SlotComesRound
  <2>2. old = h[gone]
    <3>1. hist.ring[Slot(n - Window)] = h[n - Window + 1]
      BY <1>1, <1>4, <2>1, SlotsHold DEF Follows
    <3> QED
      BY <2>1, <3>1
  <2>3. old \in Tokens
    <3>1. gone \in 1 .. Len(h)
      BY <1>1, <2>1
    <3> QED
      BY <2>2, <3>1, ElementOfSeq
  <2>4. Spare(after.ring, from, n + 1)
    <3> SUFFICES ASSUME NEW q \in 0 .. (Window - 1),
                        \A p \in from .. (n + 1 - 1) : p >= n + 1 - Window => Slot(p) # q
                 PROVE  after.ring[q] = 0
      BY <1>1 DEF Spare
    <3>1. n \in from .. (n + 1 - 1) /\ n >= n + 1 - Window
      BY <1>1
    <3>2. q # s
      BY <3>1
    <3>3. ASSUME NEW p \in from .. (n - 1), p >= n - Window PROVE Slot(p) # q
      <4>1. CASE p = n - Window
        BY <2>1, <3>2, <4>1
      <4>2. CASE p # n - Window
        <5>1. p \in from .. (n + 1 - 1) /\ p >= n + 1 - Window
          BY <1>1, <3>3, <4>2
        <5> QED
          BY <5>1
      <4> QED
        BY <4>1, <4>2
    <3>4. hist.ring[q] = 0
      BY <3>3 DEF Follows, Spare
    <3> QED
      BY <1>2, <3>2, <3>4
  <2>5. ASSUME NEW u \in Tokens
        PROVE  after.counts[u] = Cardinality(InWindow(h, from, n + 1, u))
    <3> DEFINE W == InWindow(h, from, n, u)
               V == InWindow(h, from, n + 1, u)
               less == W \ {gone}
    <3>1. IsFiniteSet(W) /\ Cardinality(W) \in Nat /\ hist.counts[u] = Cardinality(W)
      BY WindowIsFinite DEF Follows, Counted
    <3>2. gone \in W <=> u = old
      BY <1>1, <2>1, <2>2 DEF InWindow
    <3>3. IsFiniteSet(less) /\ Cardinality(less) = IF gone \in W THEN Cardinality(W) - 1 ELSE Cardinality(W)
      <4> HIDE DEF W, gone
      <4> QED
        BY <3>1, FS_RemoveElement
    <3>4. n + 1 \notin less
      BY <1>1 DEF InWindow
    <3>5. V = IF u = t THEN less \cup {n + 1} ELSE less
      BY <1>1, <2>1 DEF InWindow
    <3>6. Cardinality(less \cup {n + 1}) = Cardinality(less) + 1
      <4> HIDE DEF less
      <4> QED
        BY <3>3, <3>4, FS_AddElement
    <3>7. gone \in W => Cardinality(W) > 0
      <4> HIDE DEF W, gone
      <4>1. gone \in W => W # {}
        OBVIOUS
      <4>2. Cardinality(W) = 0 <=> W = {}
        BY <3>1, FS_EmptySet
      <4> QED
        BY <3>1, <4>1, <4>2
    <3> HIDE DEF less, W, V, gone, old, t
    <3>8. Cardinality(V) = Cardinality(less) + (IF u = t THEN 1 ELSE 0)
      <4>1. Cardinality(less) \in Int
        BY <3>1, <3>3
      <4> QED
        BY <3>5, <3>6, <4>1
    <3> QED
      BY <1>2, <3>1, <3>2, <3>3, <3>7, <3>8 DEF V
  <2> QED
    BY <1>2, <1>31, <2>4, <2>5 DEF Follows, Counted, after
<1>5. CASE ~ (from <= n - Window)
  <2>1. old = 0
    <3>1. ASSUME NEW p \in from .. (n - 1), p >= n - Window PROVE Slot(p) # s
      <4>1. p \in Nat /\ p <= n /\ n - p < Window /\ p # n
        BY <1>1, <1>5
      <4> QED
        BY <4>1, OneOfASlot
    <3> QED
      BY <1>1, <3>1 DEF Follows, Spare
  <2>2. Spare(after.ring, from, n + 1)
    <3> SUFFICES ASSUME NEW q \in 0 .. (Window - 1),
                        \A p \in from .. (n + 1 - 1) : p >= n + 1 - Window => Slot(p) # q
                 PROVE  after.ring[q] = 0
      BY <1>1 DEF Spare
    <3>1. n \in from .. (n + 1 - 1) /\ n >= n + 1 - Window
      BY <1>1
    <3>2. q # s
      BY <3>1
    <3>3. ASSUME NEW p \in from .. (n - 1), p >= n - Window PROVE Slot(p) # q
      <4>1. p \in from .. (n + 1 - 1) /\ p >= n + 1 - Window
        BY <1>1, <1>5
      <4> QED
        BY <4>1
    <3>4. hist.ring[q] = 0
      BY <3>3 DEF Follows, Spare
    <3> QED
      BY <1>2, <3>2, <3>4
  <2>3. ASSUME NEW u \in Tokens
        PROVE  after.counts[u] = Cardinality(InWindow(h, from, n + 1, u))
    <3> DEFINE W == InWindow(h, from, n, u)
               V == InWindow(h, from, n + 1, u)
    <3>1. IsFiniteSet(W) /\ Cardinality(W) \in Nat /\ hist.counts[u] = Cardinality(W)
      BY WindowIsFinite DEF Follows, Counted
    <3>2. u # old
      BY <2>1 DEF NoTokenIsZero
    <3>3. V = IF u = t THEN W \cup {n + 1} ELSE W
      BY <1>1, <1>5 DEF InWindow
    <3>4. n + 1 \notin W
      BY DEF InWindow
    <3>5. Cardinality(W \cup {n + 1}) = Cardinality(W) + 1
      <4> HIDE DEF W
      <4> QED
        BY <3>1, <3>4, FS_AddElement
    <3> HIDE DEF W, V, old, t
    <3> QED
      BY <1>2, <3>1, <3>2, <3>3, <3>5 DEF V
  <2> QED
    BY <1>2, <1>31, <2>2, <2>3 DEF Follows, Counted, after
<1> QED
  BY <1>1, <1>4, <1>5

LEMMA FreshFollows ==
  ASSUME NEW h, NEW from \in Nat
  PROVE  Follows([ring |-> FreshRing, counts |-> FreshCounts], h, from, from)
<1> DEFINE fresh == [ring |-> FreshRing, counts |-> FreshCounts]
<1>1. Window \in Nat /\ Window > 0
  BY SizesAssumption
<1>2. FreshRing \in [0 .. (Window - 1) -> Tokens \cup {0}] /\ FreshCounts \in [Tokens \cup {0} -> Nat]
  BY DEF FreshRing, FreshCounts
<1>3. fresh \in Hists
  BY <1>2 DEF Hists
<1>4. ASSUME NEW t \in Tokens PROVE FreshCounts[t] = Cardinality(InWindow(h, from, from, t))
  <2>1. InWindow(h, from, from, t) = {}
    BY DEF InWindow
  <2> QED
    BY <2>1, FS_EmptySet DEF FreshCounts
<1>5. Slots(FreshRing, h, from, from)
  BY DEF Slots
<1>6. Spare(FreshRing, from, from)
  BY DEF Spare, FreshRing
<1> QED
  BY <1>3, <1>4, <1>5, <1>6 DEF Follows, Counted

(* The tail of the prompt, pushed at its own positions.                    *)
LEMMA SeededFollows ==
  ASSUME NoTokenIsZero, NEW fed \in Seq(Tokens)
  PROVE  Follows(Seeded(fed), fed, From(fed), Len(fed))
<1> DEFINE f == From(fed)
           S == {k \in Nat : f + k <= Len(fed) => Follows(Seeds(fed)[f + k], fed, f, f + k)}
<1>1. Len(fed) \in Nat /\ f \in Nat /\ f <= Len(fed)
  BY LenProperties, SizesAssumption DEF From
<1>2. ASSUME NEW p \in f .. Len(fed)
      PROVE  Seeds(fed)[p] = IF p = f THEN [ring |-> FreshRing, counts |-> FreshCounts]
                             ELSE Push(Seeds(fed)[p - 1], p - 1, fed[p])
  BY SeedsUnfolds DEF Seed
<1> HIDE DEF f
<1>3. 0 \in S
  <2>1. f \in f .. Len(fed) /\ f + 0 = f
    BY <1>1
  <2>2. Follows(Seeds(fed)[f], fed, f, f)
    BY <1>1, <1>2, <2>1, FreshFollows
  <2> QED
    BY <2>1, <2>2
<1>4. ASSUME NEW k \in S PROVE k + 1 \in S
  <2> SUFFICES ASSUME f + (k + 1) <= Len(fed)
               PROVE  Follows(Seeds(fed)[f + (k + 1)], fed, f, f + (k + 1))
    BY <1>4
  <2> DEFINE n == f + k
  <2>1. n \in Nat /\ f <= n /\ n < Len(fed) /\ f + (k + 1) = n + 1 /\ n + 1 \in f .. Len(fed)
        /\ n + 1 # f /\ n + 1 - 1 = n
    BY <1>1, <1>4
  <2>2. Follows(Seeds(fed)[n], fed, f, n)
    BY <1>4, <2>1
  <2>3. Seeds(fed)[n + 1] = Push(Seeds(fed)[n], n, fed[n + 1])
    BY <1>2, <2>1
  <2> HIDE DEF n
  <2>4. Follows(Push(Seeds(fed)[n], n, fed[n + 1]), fed, f, n + 1)
    BY <1>1, <2>1, <2>2, PushFollows
  <2> QED
    BY <2>1, <2>3, <2>4
<1>5. Len(fed) - f \in S
  <2>1. Len(fed) - f \in Nat
    BY <1>1
  <2> HIDE DEF S
  <2>2. S \in SUBSET Nat
    BY DEF S
  <2> QED
    BY <1>3, <1>4, <2>1, <2>2, CountUp
<1>6. f + (Len(fed) - f) = Len(fed)
  BY <1>1
<1> QED
  BY <1>5, <1>6, SeededIsLast DEF f

LEMMA FollowsLonger ==
  ASSUME NEW h \in Seq(Tokens), NEW t \in Tokens, NEW from \in Nat, NEW hist,
         Follows(hist, h, from, Len(h))
  PROVE  Follows(hist, Append(h, t), from, Len(h))
<1> DEFINE n == Len(h)
           a == Append(h, t)
<1>1. n \in Nat /\ \A i \in 1 .. n : a[i] = h[i]
  BY LenProperties, AppendProperties
<1>2. \A p \in from .. (n - 1) : a[p + 1] = h[p + 1]
  BY <1>1
<1>3. \A u : InWindow(a, from, n, u) = InWindow(h, from, n, u)
  <2> HIDE DEF n, a
  <2> QED
    BY <1>1 DEF InWindow
<1> HIDE DEF n, a
<1>4. Slots(hist.ring, a, from, n)
  <2>1. \A p \in from .. (n - 1) : p >= n - Window => hist.ring[Slot(p)] = h[p + 1]
    BY <1>1, SlotsHold DEF Follows, n
  <2> QED
    BY <1>2, <2>1 DEF Slots
<1> QED
  BY <1>3, <1>4 DEF Follows, Counted, n, a

(* The window by positions is the host's: the last tokens, cut off.        *)
LEMMA FollowsIsHosts ==
  ASSUME NEW h \in Seq(Tokens), NEW from \in Nat, NEW hist,
         from <= (IF Len(h) > Window THEN Len(h) - Window ELSE 0),
         Follows(hist, h, from, Len(h)), NEW t \in Tokens
  PROVE  hist.counts[t] = Occurrences(t, LastOf(h))
<1> DEFINE n == Len(h)
           k == IF n > Window THEN n - Window ELSE 0
           last == LastOf(h)
           W == InWindow(h, from, n, t)
           V == {j \in DOMAIN last : last[j] = t}
<1>1. n \in Nat /\ Window \in Nat /\ Window > 0 /\ k \in Nat /\ k <= n /\ from <= k
  BY LenProperties, SizesAssumption
<1>2. last = SubSeq(h, k + 1, n)
  BY <1>1 DEF LastOf
<1>3. Len(last) = n - k /\ DOMAIN last = 1 .. (n - k) /\ \A j \in 1 .. (n - k) : last[j] = h[k + j]
  <2> HIDE DEF k, last, n
  <2>1. n = Len(h)
    BY DEF n
  <2>2. \A i \in k + 1 .. n : h[i] \in Tokens
    BY <1>1, <2>1, ElementOfSeq
  <2>3. Len(last) = n - k /\ DOMAIN last = 1 .. (n - k)
    BY <1>1, <1>2, <2>1, <2>2, SubSeqProperties
  <2>4. \A j \in 1 .. (n - k) : last[j] = h[k + j]
    BY <1>1, <1>2, <2>1, <2>2, SubSeqProperties
  <2> QED
    BY <2>3, <2>4
<1>4. W = {i \in 1 .. n : i > k /\ h[i] = t}
  BY <1>1 DEF InWindow
<1> HIDE DEF k, n, last
<1>5. V = {j \in 1 .. (n - k) : h[k + j] = t}
  BY <1>3
<1> DEFINE shift == [j \in V |-> k + j]
<1>6. shift \in Bijection(V, W)
  <2>1. shift \in [V -> W]
    BY <1>1, <1>4, <1>5
  <2>2. \A i, j \in V : shift[i] = shift[j] => i = j
    BY <1>1, <1>5
  <2>3. ASSUME NEW i \in W PROVE \E j \in V : shift[j] = i
    <3>1. i - k \in V /\ k + (i - k) = i
      BY <1>1, <1>4, <1>5, <2>3
    <3> QED
      BY <3>1
  <2> HIDE DEF shift, V, W
  <2>4. \A i \in W : \E j \in V : shift[j] = i
    BY <2>3
  <2>5. shift \in Injection(V, W)
    BY <2>1, <2>2 DEF Injection, IsInjective
  <2>6. shift \in Surjection(V, W)
    BY <2>1, <2>4 DEF Surjection
  <2> QED
    BY <2>5, <2>6 DEF Bijection
<1>7. IsFiniteSet(V)
  <2>1. IsFiniteSet(1 .. (n - k))
    BY <1>1, FS_Interval
  <2>2. V \in SUBSET (1 .. (n - k))
    BY <1>5
  <2> QED
    BY <2>1, <2>2, FS_Subset
<1>8. Cardinality(W) = Cardinality(V)
  <2> HIDE DEF V, W, shift
  <2> QED
    BY <1>6, <1>7, FS_Bijection DEF ExistsBijection
<1>9. hist.counts[t] = Cardinality(W)
  BY DEF Follows, Counted, n
<1> QED
  BY <1>8, <1>9 DEF Occurrences, last

(* In the token loop the device is as far as the cache.                    *)
Windowed ==
  g.mode = "sample" /\ g.pc \in {"sample", "accepted"} =>
    /\ posdev = Fed
    /\ Follows([ring |-> ring, counts |-> counts], g.history, From(g.fed), Fed)

LEMMA ProjectWindowed ==
  ASSUME NoTokenIsZero, Fits, Project
  PROVE  Windowed'
<1>1. /\ g.history = g.fed /\ g.fed \in Seq(Tokens) /\ DOMAIN g = DOMAIN NoGeneration
  BY DEF Project, Fits, Typed, PrefillFits
<1>2. /\ g'.fed = g.fed /\ g'.history = g.fed /\ g'.mode = g.mode
      /\ g'.pc \in {"finish", "sample"}
  BY <1>1 DEF Project, NoGeneration
<1>3. Fed' = Len(g.fed)
  BY <1>2 DEF Fed
<1>4. ASSUME g.mode = "sample"
      PROVE  posdev' = Len(g.fed) /\ [ring |-> ring', counts |-> counts'] = Seeded(g.fed)
  <2>1. posdev' = Len(g.fed) /\ ring' = Seeded(g.fed).ring /\ counts' = Seeded(g.fed).counts
    BY <1>4 DEF Project
  <2>2. Seeded(g.fed) \in Hists
    BY <1>1, SeededFollows DEF Follows
  <2> QED
    BY <2>1, <2>2 DEF Hists
<1>5. Follows(Seeded(g.fed), g.fed, From(g.fed), Len(g.fed))
  BY <1>1, SeededFollows
<1> QED
  BY <1>2, <1>3, <1>4, <1>5 DEF Windowed

LEMMA FromIsNat ==
  ASSUME NEW h \in Seq(Tokens)
  PROVE  From(h) \in Nat
BY LenProperties, SizesAssumption DEF From

LEMMA AcceptWindowed ==
  ASSUME Fits, Windowed, NEW t \in Tokens, Accept(t)
  PROVE  Windowed'
<1>1. /\ g.pc = "sample" /\ g.history \in Seq(Tokens) /\ g.fed \in Seq(Tokens)
      /\ DOMAIN g = DOMAIN NoGeneration
  BY DEF Accept, Fits, Typed
<1>2. g'.pc = "accepted" /\ g'.history = Append(g.history, t) /\ g'.mode = g.mode /\ g'.fed = g.fed
  BY <1>1 DEF Accept, NoGeneration
<1>3. ASSUME g.mode = "sample"
      PROVE  /\ posdev' = Len(g.history) /\ Fed' = Len(g.history)
             /\ Follows([ring |-> ring', counts |-> counts'], Append(g.history, t),
                        From(g.fed), Len(g.history))
  <2>1. posdev' = posdev /\ ring' = ring /\ counts' = counts
    BY <1>3 DEF Accept
  <2>2. Fed = Len(g.history)
    BY <1>1 DEF Fed
  <2>3. Len(Append(g.history, t)) = Len(g.history) + 1 /\ Len(g.history) \in Nat
    BY <1>1, AppendProperties, LenProperties
  <2>4. Fed' = Len(g.history)
    <3>1. Fed' = Len(Append(g.history, t)) - 1
      BY <1>2, <1>3 DEF Fed
    <3> QED
      BY <2>3, <3>1
  <2>5. Follows([ring |-> ring, counts |-> counts], g.history, From(g.fed), Len(g.history))
    BY <1>1, <1>3, <2>2 DEF Windowed
  <2>6. Follows([ring |-> ring, counts |-> counts], Append(g.history, t), From(g.fed), Len(g.history))
    BY <1>1, <2>5, FollowsLonger, FromIsNat
  <2> QED
    BY <1>1, <1>3, <2>1, <2>2, <2>4, <2>6 DEF Windowed
<1> QED
  BY <1>2, <1>3 DEF Windowed

LEMMA StepWindowed ==
  ASSUME NoTokenIsZero, Fits, Windowed, Step
  PROVE  Windowed'
<1> DEFINE h == g.history
           n == Len(h) - 1
           from == From(g.fed)
           before == [ring |-> ring, counts |-> counts]
<1>1. /\ g.pc = "accepted" /\ h \in Seq(Tokens) /\ g.fed \in Seq(Tokens)
      /\ DOMAIN g = DOMAIN NoGeneration
  BY DEF Step, Fits, Typed
<1>2. /\ Len(h) = Len(g.fed) + g.step + 1 /\ Len(g.fed) \in Nat /\ g.step \in Nat
      /\ Len(h) \in Nat
  BY <1>1, LoopFacts
<1>3. /\ g'.history = h /\ g'.mode = g.mode /\ g'.fed = g.fed /\ g'.pc \in {"sample", "finish"}
  BY <1>1 DEF Step, NoGeneration, AfterStep
<1>4. Fed' = Len(h)
  BY <1>3 DEF Fed
<1>5. ASSUME g.mode = "sample"
      PROVE  /\ posdev' = Len(h)
             /\ Follows([ring |-> ring', counts |-> counts'], h, from, Len(h))
  <2>1. Fed = n /\ n \in Nat /\ n + 1 = Len(h)
    BY <1>1, <1>2, <1>5 DEF Fed
  <2>2. posdev = n /\ Follows(before, h, from, n)
    BY <1>1, <1>5, <2>1 DEF Windowed
  <2>3. posdev' = posdev + 1 /\ ring' = Push(before, n, h[Len(h)]).ring
        /\ counts' = Push(before, n, h[Len(h)]).counts
    BY <1>5, <2>2 DEF Step, Captured
  <2>4. from \in Nat /\ from <= n /\ n < Len(h)
    <3>1. from \in Nat /\ from <= Len(g.fed)
      BY <1>1, <1>2, SizesAssumption DEF From
    <3> QED
      BY <1>2, <2>1, <3>1
  <2> HIDE DEF before, n, from
  <2>5. Follows(Push(before, n, h[n + 1]), h, from, n + 1)
    <3> HIDE DEF h
    <3> QED
      BY <1>1, <2>1, <2>2, <2>4, PushFollows
  <2>6. [ring |-> ring', counts |-> counts'] = Push(before, n, h[Len(h)])
    <3>1. Push(before, n, h[Len(h)]) \in Hists
      BY <2>1, <2>5 DEF Follows
    <3> QED
      BY <2>3, <3>1 DEF Hists
  <2> QED
    BY <2>1, <2>2, <2>3, <2>5, <2>6
<1> QED
  BY <1>3, <1>4, <1>5 DEF Windowed

LEMMA NextWindowed == NoTokenIsZero /\ Fits /\ Windowed /\ [Next]_vars => Windowed'
<1> SUFFICES ASSUME NoTokenIsZero, Fits, Windowed, [Next]_vars PROVE Windowed'
  OBVIOUS
<1>0. DOMAIN g = DOMAIN NoGeneration
  BY DEF Fits, Typed
<1>1. ASSUME NEW prompt \in Prompts, NEW mode \in ModesOf(family), Begin(prompt, mode)
      PROVE  Windowed'
  <2>1. g'.pc = "prefill"
    BY <1>1 DEF Begin, NoGeneration
  <2> QED
    BY <2>1 DEF Windowed
<1>2. CASE PrefillChunk
  <2>1. g'.pc \in {"prefill", "refused"}
    BY <1>0, <1>2 DEF PrefillChunk, NoGeneration
  <2> QED
    BY <2>1 DEF Windowed
<1>3. CASE Project
  BY <1>3, ProjectWindowed
<1>4. CASE EndOfTurn \/ StopString
  <2>1. g'.pc = "finish"
    BY <1>0, <1>4 DEF EndOfTurn, StopString, NoGeneration
  <2> QED
    BY <2>1 DEF Windowed
<1>5. ASSUME NEW t \in Tokens, Accept(t) PROVE Windowed'
  BY <1>5, AcceptWindowed
<1>6. CASE Step
  BY <1>6, StepWindowed
<1>7. CASE Finish \/ Fail
  BY <1>7 DEF Finish, Fail, NoGeneration, Windowed
<1>8. CASE (\E tokens \in Prompts : Embed(tokens)) \/ Reload
  BY <1>8 DEF Embed, Reload, Windowed
<1>9. CASE UNCHANGED vars
  BY <1>9 DEF vars, Windowed, Fed
<1>10. CASE Rest
  BY <1>9, <1>10 DEF Rest
<1> QED
  BY <1>1, <1>2, <1>3, <1>4, <1>5, <1>6, <1>7, <1>8, <1>9, <1>10 DEF Next

(* The penalty on the device counts what the host's sampler would count in *)
(* its window, at every step, for any prompt, any window and any number of *)
(* tokens: the incremental ring of k_hist_push, seeded with the tail of    *)
(* the prompt, and evicting one token per token, is the window.  No token  *)
(* has the number 0, which marks an empty slot of the ring.                *)
THEOREM PenaltyIsHosts ==
  ASSUME NoTokenIsZero
  PROVE  Spec => []WindowIsHosts
<1>1. Init => Windowed
  BY DEF Init, NoGeneration, Windowed
<1>2. Spec => [](Fits /\ Windowed)
  BY <1>1, InitFits, NextFits, NextWindowed, PTL DEF Spec
<1>3. ASSUME Fits, Windowed PROVE WindowIsHosts
  <2> SUFFICES ASSUME g.pc = "sample", g.mode = "sample", NEW t \in Tokens
               PROVE  counts[t] = Occurrences(t, LastOf(g.history))
    BY DEF WindowIsHosts
  <2>1. g.history \in Seq(Tokens) /\ g.fed \in Seq(Tokens)
    BY <1>3 DEF Fits, Typed
  <2>2. Fed = Len(g.history)
    BY DEF Fed
  <2>3. Follows([ring |-> ring, counts |-> counts], g.history, From(g.fed), Len(g.history))
    BY <1>3, <2>2 DEF Windowed
  <2>4. From(g.fed) <= (IF Len(g.history) > Window THEN Len(g.history) - Window ELSE 0)
    <3>1. Len(g.history) = Len(g.fed) + g.step /\ g.step \in Nat /\ Len(g.fed) \in Nat
      BY <1>3, LoopFacts
    <3> QED
      BY <3>1, SizesAssumption DEF From
  <2>5. [ring |-> ring, counts |-> counts].counts[t] = Occurrences(t, LastOf(g.history))
    <3> DEFINE hist == [ring |-> ring, counts |-> counts]
    <3> HIDE DEF hist
    <3>1. Follows(hist, g.history, From(g.fed), Len(g.history))
      BY <2>3 DEF hist
    <3>2. hist.counts[t] = Occurrences(t, LastOf(g.history))
      BY <2>1, <2>4, <3>1, FromIsNat, FollowsIsHosts
    <3> QED
      BY <3>2 DEF hist
  <2> QED
    BY <2>5
<1> QED
  BY <1>2, <1>3, PTL
================================================================================
