---------------------------------- MODULE Tapes --------------------------------
(* The launches of a forward pass, in the order the code enqueues them.  A *)
(* launch is a tuple: the kernel, then what its launcher is given; a tape  *)
(* is a sequence of launches.  A buffer is <<part, layer, field>>: part 1  *)
(* is the text model, 2 its vision tower, 3 its audio tower.  Widths come  *)
(* from Builders, so a tape runs on the buffers that a build allocated.    *)
EXTENDS Builders, KvShare, Kernels

P(part, l, f) == [buf |-> <<part, l, f>>, at |-> 0]
T(f) == P(1, 0, f)
Of(part, t) == P(part, t.buf[1], t.buf[2])
Freq(c, l) == <<"theta", c.types[l]>>
Geometry(q_heads, kv_heads, dim, max_seq) ==
  [q_heads |-> q_heads, kv_heads |-> kv_heads, dim |-> dim, max_seq |-> max_seq]
--------------------------------------------------------------------------------
(* Transformer.                                                            *)

lin_gemv(t, x, y, b, mode) ==
  <<<<IF t.store = "block" THEN "gguf_gemv" ELSE "gemv_f16",
      Of(1, t), x, y, b, t.n, t.k, mode>>>>

(* A packed weight goes through the dq scratch, slab by slab.              *)
SlabRows(c, t) == Max({1, DqBytes(c) \div (2 * t.k)})
lin_gemmWholeSlabs(c, t, act, out, rows) ==
  IF t.store # "block" THEN <<<<"gemm_f16", act, Of(1, t), out, rows, t.n, t.k>>>>
  ELSE LET slab == SlabRows(c, t) IN
       Each(Ceil(t.n, slab), LAMBDA i :
         <<<<"gguf_dequant", At(Of(1, t), (i - 1) * slab * t.k), T("dq"), slab * t.k, t.k>>,
           <<"gemm_strided_out", act, T("dq"), At(out, (i - 1) * slab), rows, slab, t.k, t.n>>>>)
lin_gemm(c, t, act, out, rows) ==
  IF t.store # "block" THEN <<<<"gemm_f16", act, Of(1, t), out, rows, t.n, t.k>>>>
  ELSE LET slab == SlabRows(c, t) IN
       Each(Ceil(t.n, slab), LAMBDA i :
         LET r0 == (i - 1) * slab
             nr == Min({slab, t.n - r0}) IN
         <<<<"gguf_dequant", At(Of(1, t), r0 * t.k), T("dq"), nr * t.k, t.k>>,
           <<"gemm_strided_out", act, T("dq"), At(out, r0), rows, nr, t.k, t.n>>>>)

(* One row is decoded into the contiguous qkv row.                         *)
QkvAt(c, rows) ==
  IF rows = 1
  THEN [q |-> T("qkv"), k |-> At(T("qkv"), Qd(c)), v |-> At(T("qkv"), Qd(c) + Kvd(c))]
  ELSE [q |-> T("q"), k |-> T("k"), v |-> T("v")]
QkvDecode(c, l) ==
  LET to == QkvAt(c, 1)
      w == StdQKV(c, l)
      b(off) == IF c.bias THEN At(P(1, l, "bqkv"), off) ELSE Null IN
  IF c.codec # "gguf"
  THEN <<<<"gemv_f16", P(1, l, "wqkv"), T("h"), to.q, b(0), Qd(c) + 2 * Kvd(c), c.hs, 0>>>>
  ELSE lin_gemv(w[1], T("h"), to.q, b(0), 0) \o lin_gemv(w[2], T("h"), to.k, b(Qd(c)), 0)
         \o lin_gemv(w[3], T("h"), to.v, b(Qd(c) + Kvd(c)), 0)
QkvPrefill(c, l, rows) ==
  LET to == QkvAt(c, rows)
      w == StdQKV(c, l)
      fused(row, y, n) ==
        <<<<"gemm_f16", T("h"), At(P(1, l, "wqkv"), row * c.hs), y, rows, n, c.hs>>>>
      b(off, y, n) == <<<<"bias", y, At(P(1, l, "bqkv"), off), rows, n>>>> IN
  (IF c.codec # "gguf"
   THEN fused(0, to.q, Qd(c)) \o fused(Qd(c), to.k, Kvd(c))
          \o fused(Qd(c) + Kvd(c), to.v, Kvd(c))
   ELSE lin_gemm(c, w[1], T("h"), to.q, rows) \o lin_gemm(c, w[2], T("h"), to.k, rows)
          \o lin_gemm(c, w[3], T("h"), to.v, rows))
    \o If(c.bias, b(0, to.q, Qd(c)) \o b(Qd(c), to.k, Kvd(c))
                    \o b(Qd(c) + Kvd(c), to.v, Kvd(c)))

(* One query of a cached layer: a block per chunk of positions, or one     *)
(* kernel when the head does not fit the lanes of a warp.                  *)
AttendDecode(q, kc, vc, g, pos0, window, pos_dev, split) ==
  LET nc == Ceil(g.max_seq, ATT_CSZ) IN
  IF split
  THEN <<<<"attn_decode_split", q, kc, vc, T("att_part"), g, pos0 + 1, ATT_CSZ, nc, window,
           pos_dev>>,
         <<"attn_reduce", T("att_part"), T("att"), g, ATT_CSZ, nc, pos0 + 1, window, pos_dev>>>>
  ELSE <<<<"attn_decode", q, kc, vc, T("att"), g, pos0 + 1, window, pos_dev>>>>

StdAttend(c, l, rows, pos0, pos_dev) ==
  LET to == QkvAt(c, rows)
      g == Geometry(c.heads, c.kvh, c.hd, c.seq)
      kc == P(1, l, "k_cache")
      vc == P(1, l, "v_cache") IN
  <<<<"rope", to.q, rows, c.heads, c.hd, pos0, Freq(c, l), pos_dev>>,
    <<"rope", to.k, rows, c.kvh, c.hd, pos0, Freq(c, l), pos_dev>>,
    <<"kv_append", to.k, to.v, kc, vc, rows, c.kvh, c.hd, pos0, c.seq, pos_dev>>>>
    \o (IF rows = 1
        THEN AttendDecode(to.q, kc, vc, g, pos0, 0, pos_dev,
                          c.hd % LANES = 0 /\ c.hd <= 4 * LANES)
        ELSE <<<<"attn_prefill", to.q, kc, vc, T("att"), rows, g, pos0, TRUE, 0, Null>>>>)

(* The residual stream is the epilogue of a decoded row.                   *)
StdMlpDecode(c, l) ==
  LET gu == StdGateUp(c, l)
      norm == <<<<"rmsnorm", T("x"), P(1, l, "ffn_norm"), T("h"), 1, c.hs>>>> IN
  lin_gemv(StdO(c, l), T("att"), T("x"), Null, 1) \o norm
    \o (IF c.codec # "gguf"
        THEN <<<<"gemv_f16", P(1, l, "w_gateup"), T("h"), T("gate"), Null, c.inter, c.hs, 2>>>>
        ELSE lin_gemv(gu[1], T("h"), T("gate"), Null, 0)
               \o lin_gemv(gu[2], T("h"), T("up"), Null, 0)
               \o <<<<"swiglu", T("gate"), T("up"), c.inter>>>>)
    \o lin_gemv(StdDown(c, l), T("gate"), T("x"), Null, 1)
StdMlpPrefill(c, l, rows) ==
  LET gu == StdGateUp(c, l)
      half(row, y) ==
        <<<<"gemm_f16", T("h"), At(P(1, l, "w_gateup"), row * c.hs), y, rows, c.inter, c.hs>>>>
      residual == <<<<"add", T("x"), T("h"), rows * c.hs>>>> IN
  lin_gemm(c, StdO(c, l), T("att"), T("h"), rows) \o residual
    \o <<<<"rmsnorm", T("x"), P(1, l, "ffn_norm"), T("h"), rows, c.hs>>>>
    \o (IF c.codec # "gguf" THEN half(0, T("gate")) \o half(c.inter, T("up"))
        ELSE lin_gemm(c, gu[1], T("h"), T("gate"), rows)
               \o lin_gemm(c, gu[2], T("h"), T("up"), rows))
    \o <<<<"swiglu", T("gate"), T("up"), rows * c.inter>>>>
    \o lin_gemm(c, StdDown(c, l), T("gate"), T("h"), rows) \o residual

StdForward(c, rows, pos0, pos_dev) ==
  Each(Layers(c), LAMBDA l :
    <<<<"rmsnorm", T("x"), P(1, l, "attn_norm"), T("h"), rows, c.hs>>>>
      \o (IF rows = 1 THEN QkvDecode(c, l) ELSE QkvPrefill(c, l, rows))
      \o StdAttend(c, l, rows, pos0, pos_dev)
      \o (IF rows = 1 THEN StdMlpDecode(c, l) ELSE StdMlpPrefill(c, l, rows)))

upload_ids(tokens) == <<<<"htod", T("ids"), tokens, 1>>>>
gather_ids(c, n) ==
  <<<<IF StdEmbedTensor(c).store = "block" THEN "gguf_gather" ELSE "gather",
      T("embed_tokens"), T("ids"), T("x"), n, c.hs>>>>
StdEmbedTokens(c, tokens) == upload_ids(tokens) \o gather_ids(c, Len(tokens))

(* The final norm of a row and its projection through the head.            *)
head_project(c) ==
  LET t == IF c.tied THEN StdEmbedTensor(c) ELSE StdHead(c)[1] IN
  IF t.store = "block"
  THEN <<<<"gguf_gemv", Of(1, t), T("h"), T("logits_h"), Null, t.n, t.k, 0>>>>
  ELSE <<<<"gemm_f16", T("h"), Of(1, t), T("logits_h"), 1, c.vocab, c.hs>>>>
FinalNorm(c, row, rows) ==
  <<<<"rmsnorm", At(T("x"), row * c.hs), T("norm"), T("h"), rows, c.hs>>>>
--------------------------------------------------------------------------------
(* Gemma4.                                                                 *)

(* WTensor::gemm: one row straight from the packed form, else through wsc. *)
WGemm(part, t, x, y, rows) ==
  LET w == Of(part, t) IN
  CASE t.store \notin {"block", "nf4"} -> <<<<"gemm_f16", x, w, y, rows, t.n, t.k>>>>
    [] t.store = "block" /\ rows = 1 -> <<<<"gguf_gemv", w, x, y, Null, t.n, t.k, 0>>>>
    [] t.store = "nf4" /\ rows = 1 -> <<<<"nf4_gemv", w, x, y, t.n, t.k>>>>
    [] OTHER -> <<<<IF t.store = "block" THEN "gguf_dequant" ELSE "nf4_dequant",
                    w, T("wsc"), t.n * t.k, t.k>>,
                  <<"gemm_f16", x, T("wsc"), y, rows, t.n, t.k>>>>
rms(x, w, rows, n) == <<<<"rmsnorm", x, w, x, rows, n>>>>

G4EmbedTokens(c, n) ==
  <<<<IF G4Embed(c).store = "block" THEN "gguf_gather" ELSE "gather",
      T("embed_tokens"), T("ids"), T("x"), n, c.hs>>,
    <<"scalemul", T("x"), <<"sqrt", c.hs>>, n * c.hs>>>>

(* What a token looks up in the per-layer table; a media token is padding. *)
pad == <<"pad", 0, 0>>
placeholder == <<"placeholder", 0, 0>>
gather_ple_identity(c, tokens) ==
  LET id(t) == IF t = placeholder THEN pad ELSE t IN
  If(c.ple > 0, <<<<"htod", T("ple_id"), [i \in DOMAIN tokens |-> <<"ple", id(tokens[i])>>],
                    Layers(c) * c.ple>>>>)
compute_ple(c, rows) ==
  LET slab == Layers(c) * c.ple IN
  If(c.ple > 0,
     WGemm(1, G4PleHead(c), T("x"), T("ple"), rows)
       \o <<<<"scalemul", T("ple"), <<"inv_sqrt", c.hs>>, rows * slab>>,
            <<"rmsnorm", T("ple"), T("ple_norm"), T("ple"), rows * Layers(c), c.ple>>,
            <<"add", T("ple"), T("ple_id"), rows * slab>>,
            <<"scalemul", T("ple"), <<"inv_sqrt", 2>>, rows * slab>>>>)

(* A full layer without v_proj takes its values from the keys, before      *)
(* their norm.                                                             *)
G4OwnCacheNormFirst(c, l, rows, pos0, pos_dev) ==
  LET kv == G4Kv(c, l)
      d == Hd(c, l)
      n == Kvh(c, l) * d
      norms == rows * Kvh(c, l) IN
  WGemm(1, kv[1], T("h"), T("k"), rows)
    \o rms(T("k"), P(1, l, "k_norm"), norms, d)
    \o If(Len(kv) = 1, <<<<"dtod", T("v"), T("k"), rows * n>>>>)
    \o <<<<"rope", T("k"), rows, Kvh(c, l), d, pos0, Freq(c, l), pos_dev>>>>
    \o If(Len(kv) = 2, WGemm(1, kv[2], T("h"), T("v"), rows))
    \o rms(T("v"), Null, norms, d)
    \o <<<<"kv_append", T("k"), T("v"), P(1, l, "k_cache"), P(1, l, "v_cache"), rows,
           Kvh(c, l), d, pos0, c.seq, pos_dev>>>>
G4OwnCache(c, l, rows, pos0, pos_dev) ==
  LET kv == G4Kv(c, l)
      d == Hd(c, l)
      n == Kvh(c, l) * d
      norms == rows * Kvh(c, l) IN
  WGemm(1, kv[1], T("h"), T("k"), rows)
    \o If(Len(kv) = 1, <<<<"dtod", T("v"), T("k"), rows * n>>>>)
    \o rms(T("k"), P(1, l, "k_norm"), norms, d)
    \o <<<<"rope", T("k"), rows, Kvh(c, l), d, pos0, Freq(c, l), pos_dev>>>>
    \o If(Len(kv) = 2, WGemm(1, kv[2], T("h"), T("v"), rows))
    \o rms(T("v"), Null, norms, d)
    \o <<<<"kv_append", T("k"), T("v"), P(1, l, "k_cache"), P(1, l, "v_cache"), rows,
           Kvh(c, l), d, pos0, c.seq, pos_dev>>>>
Window(c, l) == IF c.types[l] = "sliding" THEN c.window ELSE 0
G4Attend(c, l, rows, pos0, blkid, pos_dev) ==
  LET src == KvSource(c.types, FirstShared(c), l)
      kc == P(1, src, "k_cache")
      vc == P(1, src, "v_cache")
      g == Geometry(c.heads, Kvh(c, l), Hd(c, l), c.seq) IN
  IF rows = 1
  THEN AttendDecode(T("q"), kc, vc, g, pos0, Window(c, l), pos_dev,
                    Hd(c, l) % LANES = 0 /\ Hd(c, l) <= 16 * LANES)
  ELSE <<<<"attn_prefill", T("q"), kc, vc, T("att"), rows, g, pos0, TRUE, Window(c, l),
           IF blkid THEN T("blkid") ELSE Null>>>>
G4PleStep(c, l, rows) ==
  LET ple == G4Ple(c, l) IN
  If(c.ple > 0,
     WGemm(1, ple[1], T("x"), T("ple_g"), rows)
       \o <<<<"gelu", T("ple_g"), rows * c.ple>>,
            <<"mul_strided", T("ple_g"), T("ple"), rows, c.ple, Layers(c) * c.ple,
              (l - 1) * c.ple>>>>
       \o WGemm(1, ple[2], T("ple_g"), T("h2"), rows)
       \o rms(T("h2"), P(1, l, "ple_norm"), rows, c.hs)
       \o <<<<"add", T("x"), T("h2"), rows * c.hs>>>>)

G4Forward(c, rows, pos0, blkid, pos_dev) ==
  Each(Layers(c), LAMBDA l :
    LET mlp == G4Mlp(c, l)
        d == Hd(c, l)
        norm(f) == <<<<"rmsnorm", T("x"), P(1, l, f), T("h"), rows, c.hs>>>>
        residual == <<<<"add", T("x"), T("h2"), rows * c.hs>>>> IN
    norm("input_norm")
      \o WGemm(1, G4Wq(c, l), T("h"), T("q"), rows)
      \o rms(T("q"), P(1, l, "q_norm"), rows * c.heads, d)
      \o <<<<"rope", T("q"), rows, c.heads, d, pos0, Freq(c, l), pos_dev>>>>
      \o If(~Shared(c, l), G4OwnCache(c, l, rows, pos0, pos_dev))
      \o G4Attend(c, l, rows, pos0, blkid, pos_dev)
      \o WGemm(1, mlp[1], T("att"), T("h2"), rows)
      \o rms(T("h2"), P(1, l, "post_attn_norm"), rows, c.hs) \o residual
      \o norm("pre_ffw_norm")
      \o WGemm(1, mlp[2], T("h"), T("gate"), rows) \o WGemm(1, mlp[3], T("h"), T("up"), rows)
      \o <<<<"geglu", T("gate"), T("up"), rows * Inter(c, l)>>>>
      \o WGemm(1, mlp[4], T("gate"), T("h2"), rows)
      \o rms(T("h2"), P(1, l, "post_ffw_norm"), rows, c.hs) \o residual
      \o G4PleStep(c, l, rows)
      \o <<<<"scalemul", T("x"), <<"layer", l>>, rows * c.hs>>>>)

G4Project(c) ==
  LET t == G4Embed(c) IN
  IF t.store = "block"
  THEN <<<<"gguf_gemv", Of(1, t), T("h"), T("logits_h"), Null, t.n, t.k, 0>>>>
  ELSE <<<<"gemm_f16", T("h"), Of(1, t), T("logits_h"), 1, c.vocab, c.hs>>>>
--------------------------------------------------------------------------------
(* The two families.                                                       *)

Std(c) == c.arch = "std"
embed_tokens(c, tokens) ==
  IF Std(c) THEN StdEmbedTokens(c, tokens)
  ELSE upload_ids(tokens) \o G4EmbedTokens(c, Len(tokens))
forward_chunk(c, rows, pos0, blkid) ==
  IF Std(c) THEN StdForward(c, rows, pos0, Null) ELSE G4Forward(c, rows, pos0, blkid, Null)
Projected(c, row) ==
  FinalNorm(c, row, 1) \o (IF Std(c) THEN head_project(c) ELSE G4Project(c))
project_logits(c, row) ==
  Projected(c, row)
    \o <<<<"h2f", T("logits_h"), T("logits_f"), c.vocab>>,
         <<"dtoh", "logits", T("logits_f"), c.vocab>>>>
argmax(c) == <<<<"argmax", T("logits_h"), T("argmax_slot"), c.vocab>>>>
project_argmax(c, row) ==
  Projected(c, row) \o argmax(c) \o <<<<"dtoh", "argmax", T("argmax_slot"), 1>>>>

(* A chunk of a prompt of n tokens.  gemma4 draws a cut back to the front  *)
(* of the media block it would split, unless the chunk starts in it.       *)
StdTake(d, n) == Min({n - d, CHUNK})
G4Take(d, n, pos0, blk) ==
  LET take == StdTake(d, n)
      cut == pos0 + d + take
      inside == take < n - d /\ blk[cut + 1] >= 0 /\ blk[cut + 1] = blk[cut]
      back == Max({0} \cup {b \in 1 .. take : blk[pos0 + d + b] # blk[cut + 1]}) IN
  IF inside /\ back > 0 THEN back ELSE take
Chunks(c, n, pos0, blk) ==
  LET take(d) == IF Std(c) THEN StdTake(d, n) ELSE G4Take(d, n, pos0, blk)
      from[d \in 0 .. n] == IF d = n THEN <<>>
                            ELSE <<[done |-> d, take |-> take(d)]>> \o from[d + take(d)]
  IN from[0]

(* media: where soft tokens go, the buffer they come from, how many.       *)
Splice(c, media, done, take) ==
  LET s == Max({media.at, done})
      e == Min({media.at + media.rows, done + take}) IN
  If(s < e, <<<<"dtod", At(T("x"), (s - done) * c.hs), At(media.buf, (s - media.at) * c.hs),
                (e - s) * c.hs>>>>)
HasBlocks(blk) == \E i \in DOMAIN blk : blk[i] >= 0
prefill_inner(c, tokens, media, pos0, blk) ==
  LET n == Len(tokens)
      chunks == Chunks(c, n, pos0, blk)
      blocks == ~Std(c) /\ HasBlocks(blk) IN
  If(blocks, <<<<"htod", T("blkid"), [i \in DOMAIN blk |-> <<"block", blk[i]>>], 1>>>>)
    \o FlattenSeq([i \in DOMAIN chunks |->
         LET d == chunks[i].done
             take == chunks[i].take
             part == SubSeq(tokens, d + 1, d + take) IN
         embed_tokens(c, part)
           \o FlattenSeq([j \in DOMAIN media |-> Splice(c, media[j], d, take)])
           \o If(~Std(c), gather_ple_identity(c, part) \o compute_ple(c, take))
           \o forward_chunk(c, take, pos0 + d, blocks)])
(* project_logits after a prompt, and project_argmax after both.           *)
LastRow(n) == (n - 1) % CHUNK
GreedyRow(n, pos0) == (n + pos0 - 1) % CHUNK
prefill(c, tokens, media, pos0, blk) ==
  prefill_inner(c, tokens, media, pos0, blk) \o project_logits(c, LastRow(Len(tokens)))
prefill_argmax(c, tokens, media, pos0, blk) ==
  (IF Std(c) THEN prefill(c, tokens, media, pos0, blk)
   ELSE prefill_inner(c, tokens, media, pos0, blk))
    \o project_argmax(c, GreedyRow(Len(tokens), pos0))

seed_device_token == <<<<"argmax_to_ids", T("argmax_slot"), T("ids")>>>>
armNext(pos) == <<<<"htod", T("pos_dev"), <<<<"n", pos + 1>>>>, 1>>>>
arm(pos) == <<<<"htod", T("pos_dev"), <<<<"n", pos>>>>, 1>>>>

(* The device half of a step, which a graph replays.                       *)
StepFront(c) ==
  (IF Std(c) THEN gather_ids(c, 1) ELSE G4EmbedTokens(c, 1) \o compute_ple(c, 1))
    \o (IF Std(c) THEN StdForward(c, 1, 0, T("pos_dev"))
        ELSE G4Forward(c, 1, 0, FALSE, T("pos_dev")))
    \o Projected(c, 0)
bump == <<<<"pos_bump", T("pos_dev")>>>>
enqueue_decode(c) ==
  StepFront(c) \o argmax(c)
    \o If(Std(c), seed_device_token) \o bump
topk(c) ==
  Each(SAMPLE_TOPK, LAMBDA j :
    argmax(c) \o <<<<"slot_take", T("argmax_slot"), At(T("cand"), j - 1), T("logits_h"),
                     c.vocab>>>>)
enqueue_sample(c, rp) ==
  StepFront(c)
    \o If(rp # 1, <<<<"penalty", T("logits_h"), T("hist_counts"), rp, c.vocab>>>>)
    \o topk(c) \o bump

(* The steps, each with its host half.  The greedy step of a standard      *)
(* model finds its token on the device.                                    *)
decode_step_greedy(c, token) ==
  If(~Std(c), upload_ids(<<token>>) \o gather_ple_identity(c, <<token>>))
    \o enqueue_decode(c) \o <<<<"dtoh", "argmax", T("argmax_slot"), 1>>>>
hist_push_at(c, pos, pos_dev) ==
  <<<<"hist_push", T("hist_ring"), T("hist_counts"), T("ids"), pos, pos_dev, SAMPLE_TOPK,
      c.vocab>>>>
decode_step_sample(c, token, rp) ==
  upload_ids(<<token>>) \o hist_push_at(c, 0, T("pos_dev"))
    \o If(~Std(c), gather_ple_identity(c, <<token>>))
    \o enqueue_sample(c, rp) \o <<<<"dtoh", "candidates", T("cand"), SAMPLE_TOPK>>>>
decode_step_inner(c, token, pos) ==
  embed_tokens(c, <<token>>)
    \o If(~Std(c), gather_ple_identity(c, <<token>>) \o compute_ple(c, 1))
    \o forward_chunk(c, 1, pos, FALSE)
decode_step(c, token, pos) == decode_step_inner(c, token, pos) \o project_logits(c, 0)
decode_step_argmax(c, token, pos) == decode_step_inner(c, token, pos) \o project_argmax(c, 0)

(* The penalty window, cleared and filled with the tail of the prompt.     *)
ClearWindow(c) ==
  <<<<"memset", T("hist_ring"), SAMPLE_TOPK, 1>>, <<"memset", T("hist_counts"), c.vocab, c.vocab>>>>
hist_reset_and_seed(c, history) ==
  LET n == Len(history)
      lo == IF n > SAMPLE_TOPK THEN n - SAMPLE_TOPK ELSE 0 IN
  ClearWindow(c)
    \o Each(n - lo, LAMBDA i :
         upload_ids(<<history[lo + i]>>) \o hist_push_at(c, lo + i - 1, Null))

(* Transformer::reset moves a cursor, Gemma4::reset clears the caches.     *)
reset(c) ==
  If(~Std(c),
     Each(FirstShared(c) - 1, LAMBDA l :
       LET n == Kvh(c, l) * c.seq * Hd(c, l) IN
       <<<<"memset", P(1, l, "k_cache"), n, Hd(c, l)>>,
         <<"memset", P(1, l, "v_cache"), n, Hd(c, l)>>>>)
       \o ClearWindow(c))

embed(c, tokens) ==
  LET n == Min({Len(tokens), c.seq, CHUNK})
      part == SubSeq(tokens, 1, n) IN
  reset(c) \o embed_tokens(c, part)
    \o If(~Std(c), gather_ple_identity(c, part) \o compute_ple(c, n))
    \o forward_chunk(c, n, 0, FALSE) \o FinalNorm(c, 0, n)
    \o <<<<"meanpool", T("h"), T("logits_f"), n, c.hs>>, <<"dtoh", "embedding", T("logits_f"), c.hs>>>>
================================================================================
