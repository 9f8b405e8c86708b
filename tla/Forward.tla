---------------------------------- MODULE Forward ------------------------------
(* A loaded model at work: requests turn into launches, launches change    *)
(* device memory, answers are read back.  The stream runs one launch after *)
(* the other; what can go wrong is which cells a launch reads, what is in  *)
(* them from earlier turns, and whether the row that is projected is the   *)
(* row that was asked for.  The checks compare memory and answers with     *)
(* Network.                                                                *)
EXTENDS Network

CONSTANTS
  Models,      \* the models that may be loaded
  Card,        \* the shape of a model
  Turns,       \* per model, the requests that may be made
  MAX_TURNS,   \* bound of the model: requests in one run
  MAX_STEPS    \* bound of the model: decode steps of a request

ASSUME ForwardAssumption == MAX_TURNS \in Nat \ {0} /\ MAX_STEPS \in Nat

VARIABLES
  model,   \* which model is loaded
  mem,     \* the buffers that launches write
  tape,    \* launches ahead
  hist,    \* the positions of the sequence
  job,     \* the request
  graph,   \* repeat penalty baked into the sampling graph, 0 without one
  said,    \* what was last read back
  faults   \* extents of the last launch outside a buffer, and unwritten ones

vars == <<model, mem, tape, hist, job, graph, said, faults>>
--------------------------------------------------------------------------------
(* The device after a build.                                               *)

Parts == {1, VISION, AUDIO}
Tower(c, part) == IF part = VISION THEN c.vision ELSE c.audio
TensorsOf(c, part) ==
  CASE part = 1 -> IF Std(c) THEN StdTensors(c) ELSE G4Tensors(c)
    [] ~Declared(Tower(c, part)) -> <<>>
    [] Std(c) -> TowerTensors(c, Tower(c, part))
    [] part = VISION -> G4VisionTensors(c, c.vision)
    [] part = AUDIO -> G4AudioTensors(c, c.audio)

Held(steps) ==
  LET got(what) == {i \in DOMAIN steps : steps[i].do = what}
      gone == {steps[i].buf : i \in got("free")} IN
  [b \in {steps[i].buf : i \in got("alloc")} \ gone |->
     Max({steps[i].n : i \in {j \in got("alloc") : steps[j].buf = b}})]

(* A tensor that is read row by row lies there as its rows.                *)
Unit(c, part, t) ==
  CASE t.buf[2] = "norms" -> Tower(c, part).h
    [] t.buf[2] = "qk_norm" -> Tower(c, part).h \div Tower(c, part).heads
    [] t.buf[2] \in {"pos_embed", "pre_ln", "final_ln"} -> t.k
    [] OTHER -> Elems(t)
Laid(c, part, t, p) ==
  LET unit == Unit(c, part, t)
      matrix == <<part, t.buf[1], t.buf[2]>> IN
  IF unit = Elems(t) THEN {Cell(p, unit, <<"w", matrix, 0, t.n>>)}
  ELSE {Cell(At(p, i * unit), unit, <<"w", matrix, i, i + 1>>) : i \in 0 .. Elems(t) \div unit - 1}
Stack(c, f, ts) ==
  UNION {Laid(c, 1, ts[i], At(P(1, ts[1].buf[1], f),
                              SumOf(Elems, SubSeq(ts, 1, i - 1)))) : i \in DOMAIN ts}
Positions(v) == {Cell(At(P(AUDIO, 0, "relpe"), r * v.h), v.h, <<"w", <<AUDIO, 0, "relpe">>, r, r + 1>>)
                   : r \in 0 .. v.rows - 1}
WeightCells(c, held) ==
  LET alive(part, t) == t.buf \in DOMAIN held[part]
      ofPart(part) == {Laid(c, part, t, Of(part, t)) :
                         t \in {u \in ToSet(TensorsOf(c, part)) : alive(part, u)}}
      fused == IF ~Std(c) \/ c.codec = "gguf" THEN {}
               ELSE {Stack(c, "wqkv", StdQKV(c, l)) : l \in 1 .. Layers(c)}
                      \cup {Stack(c, "w_gateup", StdGateUp(c, l)) : l \in 1 .. Layers(c)}
      biases == IF Std(c) /\ c.bias THEN {Stack(c, "bqkv", StdBias(c, l)) : l \in 1 .. Layers(c)}
                ELSE {}
      relpe == IF ~Std(c) /\ Declared(c.audio) THEN {Positions(c.audio)} ELSE {} IN
  UNION ((UNION {ofPart(part) : part \in Parts}) \cup fused \cup biases \cup relpe)

HeldBy == [m \in Models |-> [part \in Parts |-> Held(build(Card[m])[part])]]
Weights ==
  [m \in Models |->
     LET cells == WeightCells(Card[m], HeldBy[m]) IN
     [b \in {s.buf : s \in cells} |-> {s \in cells : s.buf = b}]]

(* Bytes of an element of a work buffer.                                   *)
ElementOf(f) ==
  CASE f \in {"logits_f", "att_part", "hist_ring", "hist_counts", "ids", "pos_dev", "blkid", "pos"} -> 4
    [] f \in {"argmax_slot", "cand"} -> 8
    [] OTHER -> 2
SoftRows(c, part) ==
  LET v == Tower(c, part) IN
  IF ~Declared(v) THEN 0
  ELSE CASE part = AUDIO -> IF Std(c) THEN FramesOut(v, v.frames) ELSE ClipTokens(v.frames)
         [] part # AUDIO /\ Std(c) -> v.rows - (IF v.cls THEN 1 ELSE 0)
         [] OTHER -> (v.gw \div v.pool) * (v.gh \div v.pool)
Capacity ==
  [m \in Models |->
     LET held(part) == {<<part, b[1], b[2]>> : b \in DOMAIN HeldBy[m][part]}
         media == {<<part, 0, "media">> : part \in {VISION, AUDIO}} IN
     [b \in (UNION {held(part) : part \in Parts}) \cup media |->
        CASE b \in media -> SoftRows(Card[m], b[1]) * Card[m].hs
          [] b \notin media /\ b \in DOMAIN Weights[m] ->
               Max({s.at + s.len : s \in Weights[m][b]})
          [] OTHER -> HeldBy[m][b[1]][<<b[2], b[3]>>] \div ElementOf(b[3])]]
--------------------------------------------------------------------------------
(* A launch.                                                               *)

Memory(m, w) ==
  [b \in DOMAIN m \cup DOMAIN w |-> IF b \in DOMAIN m THEN m[b] ELSE w[b]]

Exec(m, o) ==
  CASE o[1] = "gather" -> gather(m, o[2], o[3], o[4], o[5], o[6])
    [] o[1] = "gguf_gather" -> gguf_gather(m, o[2], o[3], o[4], o[5], o[6])
    [] o[1] = "rmsnorm" -> rmsnorm(m, o[2], o[3], o[4], o[5], o[6])
    [] o[1] = "layernorm" -> layernorm(m, o[2], o[3], o[4], o[5], o[6], o[7])
    [] o[1] = "add" -> add(m, o[2], o[3], o[4])
    [] o[1] = "bias" -> bias(m, o[2], o[3], o[4], o[5])
    [] o[1] = "swiglu" -> swiglu(m, o[2], o[3], o[4])
    [] o[1] = "geglu" -> geglu(m, o[2], o[3], o[4])
    [] o[1] = "gelu" -> gelu(m, o[2], o[3])
    [] o[1] = "silu" -> silu(m, o[2], o[3])
    [] o[1] = "clampk" -> clampk(m, o[2], o[3])
    [] o[1] = "scalemul" -> scalemul(m, o[2], o[3], o[4])
    [] o[1] = "mulvec" -> mulvec(m, o[2], o[3], o[4], o[5])
    [] o[1] = "mul_strided" -> mul_strided(m, o[2], o[3], o[4], o[5], o[6], o[7])
    [] o[1] = "glu" -> glu(m, o[2], o[3], o[4], o[5])
    [] o[1] = "dtod" -> dtod(m, o[2], o[3], o[4])
    [] o[1] = "htod" -> htod(m, o[2], o[3], o[4])
    [] o[1] = "memset" -> memset(m, o[2], o[3], o[4])
    [] o[1] = "dwconv1d" -> dwconv1d(m, o[2], o[3], o[4], o[5], o[6], o[7])
    [] o[1] = "meanpool" -> meanpool(m, o[2], o[3], o[4], o[5])
    [] o[1] = "gemm_f16" -> gemm_f16(m, o[2], o[3], o[4], o[5], o[6], o[7])
    [] o[1] = "gemm_strided_out" -> gemm_strided_out(m, o[2], o[3], o[4], o[5], o[6], o[7], o[8])
    [] o[1] = "gemv_f16" -> gemv_f16(m, o[2], o[3], o[4], o[5], o[6], o[7], o[8])
    [] o[1] = "gguf_gemv" -> gguf_gemv(m, o[2], o[3], o[4], o[5], o[6], o[7], o[8])
    [] o[1] = "nf4_gemv" -> nf4_gemv(m, o[2], o[3], o[4], o[5], o[6])
    [] o[1] \in {"gguf_dequant", "nf4_dequant"} -> gguf_dequant(m, o[2], o[3], o[4], o[5])
    [] o[1] = "rope" -> rope(m, o[2], o[3], o[4], o[5], o[6], o[7], o[8])
    [] o[1] = "rope2d" -> rope2d(m, o[2], o[3], o[4], o[5], o[6], o[7])
    [] o[1] = "kv_append" -> kv_append(m, o[2], o[3], o[4], o[5], o[6], o[7], o[8], o[9], o[10], o[11])
    [] o[1] = "attn_decode" -> attn_decode(m, o[2], o[3], o[4], o[5], o[6], o[7], o[8], o[9])
    [] o[1] = "attn_decode_split" ->
         attn_decode_split(m, o[2], o[3], o[4], o[5], o[6], o[7], o[8], o[9], o[10], o[11])
    [] o[1] = "attn_reduce" -> attn_reduce(m, o[2], o[3], o[4], o[5], o[6], o[7], o[8], o[9])
    [] o[1] = "attn_prefill" ->
         attn_prefill(m, o[2], o[3], o[4], o[5], o[6], o[7], o[8], o[9], o[10], o[11])
    [] o[1] = "audio_attn" -> audio_attn(m, o[2], o[3], o[4], o[5], o[6], o[7], o[8], o[9], o[10])
    [] o[1] = "h2f" -> h2f(m, o[2], o[3], o[4])
    [] o[1] = "argmax" -> argmax_softcap_enqueue(m, o[2], o[3], o[4])
    [] o[1] = "argmax_to_ids" -> argmax_to_ids(m, o[2], o[3])
    [] o[1] = "penalty" -> apply_penalty(m, o[2], o[3], o[4], o[5])
    [] o[1] = "slot_take" -> slot_take(m, o[2], o[3], o[4], o[5])
    [] o[1] = "hist_push" -> hist_push(m, o[2], o[3], o[4], o[5], o[6], o[7], o[8])
    [] o[1] = "pos_bump" -> pos_bump(m, o[2])
    [] o[1] = "im2col" -> im2col(m, o[2], o[3], o[4], o[5], o[6])
    [] o[1] = "pool" -> pool(m, o[2], o[3], o[4], o[5], o[6], o[7])
    [] o[1] = "dtoh" -> Effect({Extent(o[3], o[4])}, {})

(* What the host finds in a buffer it copies back.                         *)
ReadBack(m, o) ==
  [what |-> o[2],
   val |-> IF o[2] = "candidates" THEN [i \in 1 .. o[4] |-> ValueAt(m, At(o[3], i - 1), 1)]
           ELSE ValueAt(m, o[3], o[4])]

(* A value of the residual stream that is what Network says gets its name, *)
(* or terms would grow with every layer.                                   *)
RECURSIVE Stem(_)
Stem(v) == CASE v[1] = "add" -> Stem(v[2])
             [] v[1] = "scale" -> Stem(v[3])
             [] v[1] = "rms" -> Stem(v[4])
             [] OTHER -> v
Stages == {"X", "M", "N", "O"}
Names(c, h, e, buf, v) ==
  LET stem == Stem(v) IN
  IF buf[3] = "media" THEN {<<"F", buf[1], 0, i, e.turn>> : i \in 0 .. e.rows - 1}
  ELSE IF v[1] \in Stages \/ buf[3] \notin {"x", "sx"} THEN {}
  ELSE IF stem[1] \in Stages THEN {Following(c, stem)}
  ELSE IF buf[1] = 1 THEN {Mid(h, 1, j) : j \in 0 .. Len(h) - 1}
  ELSE {<<"M", buf[1], 1, r, e.turn>> : r \in 0 .. e.rows - 1}
Named1(c, h, e, cell) ==
  LET fit == {n \in Names(c, h, e, cell.buf, cell.val) : Meaning(c, h, e, n) = cell.val} IN
  IF fit # {} THEN [cell EXCEPT !.val = CHOOSE n \in fit : TRUE]
  ELSE IF cell.val[1] = "argmax" THEN [cell EXCEPT !.val = Token(c, cell.val[2])]
  ELSE cell

Outside(m, r) == r.at < 0 \/ r.at + r.len > Capacity[m][r.buf]
Launch ==
  /\ tape # <<>>
  /\ LET c == Card[model]
         o == Head(tape)
         all == Memory(mem, Weights[model])
         e == Exec(all, o)
         touched == e.in \cup {Extent([buf |-> s.buf, at |-> s.at], s.len) : s \in e.out} IN
     /\ mem' = Store(mem, {Named1(c, hist, job.sight, s) : s \in e.out})
     /\ said' = IF o[1] = "dtoh" THEN ReadBack(all, o) ELSE said
     /\ faults' = [outside |-> {r \in touched : Outside(model, r)},
                   unwritten |-> {r \in e.in : ~Whole(all, r)}]
  /\ tape' = Tail(tape)
  /\ UNCHANGED <<model, hist, job, graph>>
--------------------------------------------------------------------------------
(* Requests.  A turn: how the answer is made (mode), n new tokens, how     *)
(* many of the old ones its prompt repeats, the media in it and where.     *)

Silent == [what |-> "nothing", val |-> <<>>]
Fine == [outside |-> {}, unwritten |-> {}]

Sight(c, k, t) ==
  CASE k.media = "text" -> [part |-> 0, rows |-> 0, turn |-> t]
    [] k.media = "image" ->
         [part |-> VISION, v |-> c.vision, turn |-> t, frames |-> 0,
          rows |-> IF Std(c) THEN c.vision.rows ELSE c.vision.gw * c.vision.gh]
    [] k.media = "clip" ->
         [part |-> AUDIO, v |-> c.audio, turn |-> t, frames |-> c.audio.frames,
          rows |-> SoftRows(c, AUDIO)]
encode(c, k, t) ==
  CASE k.media = "text" -> <<>>
    [] k.media = "image" ->
         IF Std(c) THEN encode_image(c, c.vision, SoftRows(c, VISION), t)
         ELSE G4encode_image(c, c.vision, c.vision.gw, c.vision.gh, t)
    [] k.media = "clip" ->
         IF Std(c) THEN encode_audio(c, c.audio, c.audio.frames, t)
         ELSE G4encode_audio(c, c.audio, c.audio.frames, t)

(* Only a standard model keeps a prefix, and never beside media.           *)
Kept(c, k) ==
  IF Std(c) /\ k.media = "text" /\ k.mode # "embed" /\ job.mode # "embed"
  THEN Min({k.keep, Len(hist)}) ELSE 0
Asked(c, k) == IF k.mode = "embed" THEN Min({k.n, c.seq, CHUNK}) ELSE k.n
(* An image of gemma4 is one block of the prompt, a clip is none.          *)
Prompt(c, k, pos0, e) ==
  LET rows == IF e.part = 0 THEN 0 ELSE SoftRows(c, e.part) IN
  [i \in 1 .. Asked(c, k) |->
     IF i - 1 \in k.at .. k.at + rows - 1
     THEN [tok |-> placeholder, soft |-> <<"F", e.part, 0, i - 1 - k.at, e.turn>>,
           blk |-> IF ~Std(c) /\ e.part = VISION THEN 0 ELSE -1, t |-> e.turn]
     ELSE [tok |-> <<"in", pos0 + i - 1, e.turn>>, soft |-> NoSoft, blk |-> -1, t |-> e.turn]]
Column(h, f) == [i \in DOMAIN h |-> h[i][f]]

Answering(c, k, h, pos0, e) ==
  LET toks == Column(SubSeq(h, pos0 + 1, Len(h)), "tok")
      blk == Column(h, "blk")
      media == IF e.part = 0 THEN <<>>
               ELSE <<[at |-> k.at, buf |-> Media(e.part), rows |-> SoftRows(c, e.part)]>> IN
  CASE k.mode = "greedy" ->
         prefill_argmax(c, toks, media, pos0, blk) \o If(Std(c), seed_device_token)
           \o arm(Len(h))
    [] k.mode = "argmax" -> prefill_argmax(c, toks, media, pos0, blk) \o arm(Len(h))
    [] k.mode = "sample" ->
         prefill(c, toks, media, pos0, blk) \o arm(Len(h))
           \o hist_reset_and_seed(c, Column(h, "tok"))
    [] k.mode = "logits" -> prefill(c, toks, media, pos0, blk)

(* arm_sample_graph captures anew when the penalty differs; a capture may  *)
(* fail, and the steps then bring the logits home.                         *)
arm_sample_graphOnce(rp) == IF graph # 0 THEN {graph} ELSE {rp, 0}
arm_sample_graph(rp) == IF graph = rp THEN {graph} ELSE {rp, 0}

check_capacity(c, want) == want <= c.seq

Begin(k) ==
  LET c == Card[model]
      t == job.turn + 1
      e == Sight(c, k, t)
      pos0 == Kept(c, k)
      h == SubSeq(hist, 1, pos0) \o Prompt(c, k, pos0, e) IN
  /\ tape = <<>> /\ job.turn < MAX_TURNS
  /\ check_capacity(c, Len(h))
  /\ hist' = h
  /\ mem' = [b \in DOMAIN mem |-> IF b[3] = "media" THEN {} ELSE mem[b]]
  /\ tape' = IF k.mode = "embed" THEN embed(c, Column(h, "tok"))
             ELSE encode(c, k, t) \o reset(c) \o Answering(c, k, h, pos0, e)
  /\ job' = [mode |-> k.mode, turn |-> t, n |-> Len(h) - pos0, pos0 |-> pos0,
             rp |-> k.rp, sight |-> e, steps |-> 0]
  /\ IF k.mode = "sample" THEN graph' \in arm_sample_graph(k.rp) ELSE graph' = graph
  /\ said' = Silent /\ faults' = Fine
  /\ UNCHANGED model

(* The host feeds the token it was told or, of logits and candidates, one  *)
(* that it draws.                                                          *)
Step ==
  LET c == Card[model]
      pos == Len(hist)
      token == IF job.mode \in {"greedy", "argmax"} THEN said.val
               ELSE <<"tok", pos - 1, hist[pos].t>> IN
  /\ tape = <<>> /\ job.mode \notin {"idle", "embed"}
  /\ job.steps < MAX_STEPS /\ check_capacity(c, pos + 1)
  /\ hist' = Append(hist, [tok |-> token, soft |-> NoSoft, blk |-> -1, t |-> job.turn])
  /\ tape' = CASE job.mode = "greedy" -> decode_step_greedy(c, token)
               [] job.mode = "argmax" -> decode_step_argmax(c, token, pos)
               [] job.mode = "sample" /\ graph # 0 -> decode_step_sample(c, token, graph)
               [] OTHER -> decode_step(c, token, pos)
  /\ job' = [job EXCEPT !.steps = @ + 1]
  /\ said' = Silent /\ faults' = Fine
  /\ UNCHANGED <<model, mem, graph>>

Init ==
  /\ model \in Models
  /\ mem = [b \in DOMAIN Capacity[model] \ DOMAIN Weights[model] |-> {}]
  /\ tape = <<>> /\ hist = <<>> /\ graph = 0
  /\ job = [mode |-> "idle", turn |-> 0, n |-> 0, pos0 |-> 0, rp |-> 1,
            sight |-> [part |-> 0, rows |-> 0, turn |-> 0], steps |-> 0]
  /\ said = Silent /\ faults = Fine
Next == Launch \/ (\E k \in Turns[model] : Begin(k)) \/ Step
Spec == Init /\ [][Next]_vars
--------------------------------------------------------------------------------
(* Properties.                                                             *)

(* Positions fit the caches, a job counts its steps, and one model stays.  *)
TypeOK ==
  /\ model \in Models /\ graph \in Nat
  /\ Len(hist) <= Card[model].seq
  /\ job.turn \in 0 .. MAX_TURNS /\ job.steps \in 0 .. MAX_STEPS
  /\ job.pos0 + job.n + job.steps = Len(hist)
  /\ said.what \in {"nothing", "logits", "argmax", "candidates", "embedding"}

(* The row that a prompt's answer is projected from is the last one.       *)
RightRow(what) ==
  LET blk == [i \in 1 .. job.pos0 + job.n |-> hist[i].blk]
      chunks == Chunks(Card[model], job.n, job.pos0, blk)
      last == chunks[Len(chunks)].take - 1 IN
  (IF what = "argmax" THEN GreedyRow(job.n, job.pos0) ELSE LastRow(job.n)) = last
Misrow(what) ==
  job.steps = 0 /\ job.mode # "embed" /\ what \in {"logits", "argmax"} /\ ~RightRow(what)

(* No launch touches an element outside the buffer it was given, at the    *)
(* sizes that the builders chose: tails of slabs and tiles, split heads,   *)
(* the last position, a cut chunk, a shared layer of another width.        *)
LaunchesInBounds == faults.outside = {}

(* No launch reads an element that nothing has written whole: neither the  *)
(* rest of a buffer after a short chunk nor a partial of the flash decode  *)
(* that its block skipped.  The exception is the row of Misrow.            *)
ReadsAreWritten ==
  \A r \in faults.unwritten :
    r.buf = <<1, 0, "x">> /\ (Misrow("logits") \/ Misrow("argmax"))

(* From every answer on, the caches hold for every                         *)
(* position the keys and values of the sequence as it is now, whichever    *)
(* turn, chunk, kernel or kept prefix put them there.                      *)
CacheIsTheSequence ==
  said.what # "nothing" =>
    LET c == Card[model] IN
    \A l \in 1 .. (IF Std(c) THEN Layers(c) ELSE FirstShared(c) - 1) :
      LET d == IF Std(c) THEN c.hd ELSE Hd(c, l)
          kvh == IF Std(c) THEN c.kvh ELSE Kvh(c, l)
          at(f, g, j) == ValueAt(mem, Slot(P(1, l, f), g, c.seq, j, d), d) IN
      \A j \in 0 .. Len(hist) - 1, g \in 0 .. kvh - 1 :
        /\ at("k_cache", g, j) = head(g, KeyOf(c, hist, l, j))
        /\ at("v_cache", g, j) = head(g, ValueOf(c, hist, l, j))

(* What the host reads back is what Network computes of the whole          *)
(* sequence: logits, the best token, the penalized candidates, the mean of *)
(* an embedding; from prompts in chunks, from graphs, from steps.          *)
Expected(what) ==
  LET c == Card[model]
      last == Len(hist) - 1 IN
  CASE what = "logits" -> widened(Logits(c, hist, last))
    [] what = "argmax" -> Token(c, Logits(c, hist, last))
    [] what = "candidates" -> Candidates(c, hist, job.rp)
    [] what = "embedding" -> averaged([j \in 1 .. Len(hist) |-> Final(c, hist, j - 1)])
AnswersAreTheNetworks ==
  said.what # "nothing" /\ ~Misrow(said.what) => said.val = Expected(said.what)

(* When a prompt takes soft tokens, and to the end of its turn, they are   *)
(* what the tower makes of this image or clip, none of another turn's.     *)
Taking == tape # <<>> /\ tape[1][1] = "dtod" /\ tape[1][3].buf = Media(job.sight.part).buf
SoftTokensAreTheTowers ==
  LET c == Card[model]
      e == job.sight IN
  (tape = <<>> \/ Taking) /\ e.part # 0 =>
    \A i \in 0 .. SoftRows(c, e.part) - 1 :
      ValueAt(mem, At(Media(e.part), i * c.hs), c.hs) = <<"F", e.part, 0, i, e.turn>>
================================================================================
