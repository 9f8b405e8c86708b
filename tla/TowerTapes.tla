------------------------------- MODULE TowerTapes ------------------------------
(* The launches of the vision and audio towers, on the buffers of the      *)
(* Builders.  The soft tokens end in the buffer <<part, 0, "media">>, which *)
(* the prompt keeps.  turn tells one image or clip from another.           *)
EXTENDS Tapes

VISION == 2
AUDIO == 3
Media(part) == P(part, 0, "media")

(* Host work between two launches: the im2col of the second convolution,   *)
(* and the k x k pooling with its norm.                                    *)
im2col(m, x, y, t1, t2, h) ==
  LET near(t) == {s \in 2 * t - 1 .. 2 * t + 1 : s >= 0 /\ s < t1} IN
  Effect({Extent(x, t1 * h)},
         {Cell(At(y, t * 3 * h), 3 * h,
               <<"taps", t, {<<s, ValueAt(m, At(x, s * h), h)>> : s \in near(t)}>>)
            : t \in 0 .. t2 - 1})
PoolOfNext(i, gw, k) ==
  {((i \div (gw \div k)) + dy) * gw + (i % (gw \div k)) + dx
     : dx \in 0 .. k - 1, dy \in 0 .. k - 1}
PoolOf(i, gw, k) ==
  {((i \div (gw \div k)) * k + dy) * gw + (i % (gw \div k)) * k + dx
     : dx \in 0 .. k - 1, dy \in 0 .. k - 1}
pool(m, x, y, gw, gh, k, h) ==
  Effect({Extent(x, gw * gh * h)},
         {Cell(At(y, i * h), h,
               <<"pooled", i, {<<p, ValueAt(m, At(x, p * h), h)>> : p \in PoolOf(i, gw, k)}>>)
            : i \in 0 .. (gw \div k) * (gh \div k) - 1})
--------------------------------------------------------------------------------
(* EncoderTower.                                                           *)

ln(part, l, f, x, y, rows, n) ==
  <<<<"layernorm", x, P(part, l, f \o "_w"), P(part, l, f \o "_b"), y, rows, n>>>>
(* Weight and bias of the norms that are one tensor in the Builders.       *)
ln2(part, f, n, x, y, rows) ==
  <<<<"layernorm", x, P(part, 0, f), At(P(part, 0, f), n), y, rows, n>>>>
affine(part, l, w, b, x, y, rows, n, k) ==
  <<<<"gemm_f16", x, P(part, l, w), y, rows, n, k>>, <<"bias", y, P(part, l, b), rows, n>>>>

run_blocks(v, part, rows) ==
  LET V(f) == P(part, 0, f)
      g == Geometry(v.heads, v.heads, v.h \div v.heads, v.rows)
      copied == <<<<"dtod", V("x"), V("h"), rows * v.h>>>>
      block(l) ==
        LET sq(w, b, x, y) == affine(part, l, w, b, x, y, rows, v.h, v.h) IN
        ln(part, l, "ln1", V("x"), V("h"), rows, v.h)
          \o sq("wq", "bq", V("h"), V("q")) \o sq("wk", "bk", V("h"), V("k"))
          \o sq("wv", "bv", V("h"), V("v"))
          \o <<<<"kv_append", V("k"), V("v"), V("kc"), V("vc"), rows, v.heads, g.dim, 0,
                 v.rows, Null>>,
               <<"attn_prefill", V("q"), V("kc"), V("vc"), V("h"), rows, g, 0, FALSE, 0,
                 Null>>>>
          \o sq("wo", "bo", V("h"), V("q"))
          \o <<<<"add", V("x"), V("q"), rows * v.h>>>>
          \o ln(part, l, "ln2", V("x"), V("h"), rows, v.h)
          \o affine(part, l, "fc1", "fb1", V("h"), V("ff"), rows, v.inter, v.h)
          \o <<<<"gelu", V("ff"), rows * v.inter>>>>
          \o affine(part, l, "fc2", "fb2", V("ff"), V("h"), rows, v.h, v.inter)
          \o <<<<"add", V("x"), V("h"), rows * v.h>>>>
  IN If(v.cls, ln2(part, "pre_ln", v.h, V("x"), V("h"), rows) \o copied)
       \o Each(v.layers, LAMBDA l : block(l))
       \o ln2(part, "final_ln", v.h, V("x"), V("h"), rows) \o copied
project(c, v, part, rows) ==
  LET V(f) == P(part, 0, f) IN
  IF Lone(v)
  THEN affine(part, 0, "proj1_w", "proj1_b", V("x"), Media(part), rows, c.hs, v.h)
  ELSE affine(part, 0, "proj1_w", "proj1_b", V("x"), V("ff"), rows, v.mid, v.h)
    \o <<<<"gelu", V("ff"), rows * v.mid>>>>
    \o affine(part, 0, "proj2_w", "proj2_b", V("ff"), Media(part), rows, c.hs, v.mid)

encode_image(c, v, n, turn) ==
  LET V(f) == P(VISION, 0, f)
      cls == IF v.cls THEN 1 ELSE 0
      rows == n + cls
      first == At(V("x"), cls * v.h) IN
  <<<<"htod", V("stage"), [r \in 1 .. n |-> <<"pixels", r - 1, turn>>], v.patch>>>>
    \o affine(VISION, 0, "patch_w", "patch_b", V("stage"), first, n, v.h, v.patch)
    \o If(v.cls, <<<<"dtod", V("x"), V("class_embed"), v.h>>>>)
    \o <<<<"add", V("x"), V("pos_embed"), rows * v.h>>>>
    \o run_blocks(v, VISION, rows)
    \o If(v.cls, <<<<"dtod", V("h"), first, n * v.h>>, <<"dtod", V("x"), V("h"), n * v.h>>>>)
    \o project(c, v, VISION, n)

(* t_in frames of the spectrogram.                                         *)
FramesIn(v, t_in) == Min({t_in, 2 * v.rows})
FramesOut(v, t_in) == Max({1, Min({FramesIn(v, t_in) \div 2, v.rows})})
encode_audio(c, v, t_in, turn) ==
  LET V(f) == P(AUDIO, 0, f)
      t1 == FramesIn(v, t_in)
      t2 == FramesOut(v, t_in) IN
  <<<<"htod", V("stage"), [r \in 1 .. t1 |-> <<"pixels", r - 1, turn>>], v.patch>>>>
    \o affine(AUDIO, 0, "patch_w", "patch_b", V("stage"), V("q"), t1, v.h, v.patch)
    \o <<<<"gelu", V("q"), t1 * v.h>>, <<"im2col", V("q"), V("stage"), t1, t2, v.h>>>>
    \o affine(AUDIO, 0, "conv2_w", "conv2_b", V("stage"), V("x"), t2, v.h, 3 * v.h)
    \o <<<<"gelu", V("x"), t2 * v.h>>, <<"add", V("x"), V("pos_embed"), t2 * v.h>>>>
    \o run_blocks(v, AUDIO, t2) \o project(c, v, AUDIO, t2)
--------------------------------------------------------------------------------
(* G4Vision and G4Audio.                                                   *)

Named(tensors, l, f) ==
  tensors[CHOOSE i \in DOMAIN tensors : tensors[i].buf = <<l, f>>]

(* ClipLin::run stages a clamped input, so that it is not changed.         *)
clip_run(v, part, t, x, y, rows) ==
  LET staged == P(part, 0, "sclip") IN
  IF ~v.clip THEN WGemm(part, t, x, y, rows)
  ELSE <<<<"dtod", staged, x, rows * t.k>>, <<"clampk", staged, rows * t.k>>>>
         \o WGemm(part, t, staged, y, rows) \o <<<<"clampk", y, rows * t.n>>>>

VisionLayer(c, v, l, n) ==
  LET V(f) == P(VISION, 0, f)
      ts == G4VisionTensors(c, v)
      lin(f, x, y) == clip_run(v, VISION, Named(ts, l, f), x, y, n)
      norm(r, x, y) == <<<<"rmsnorm", x, At(P(VISION, l, "norms"), r * v.h), y, n, v.h>>>>
      d == v.h \div v.heads
      g == Geometry(v.heads, v.heads, d, n)
      hats(r, x) == rms(x, At(P(VISION, l, "qk_norm"), r * d), n * v.heads, d)
      turned(x) == <<<<"rope2d", x, V("pos"), At(V("pos"), G4_MAX_PATCHES), n, v.heads, d>>>>
      residual == <<<<"add", V("sx"), V("sh2"), n * v.h>>>> IN
  norm(0, V("sx"), V("sh"))
    \o lin("q", V("sh"), V("sq")) \o lin("k", V("sh"), V("sk")) \o lin("v", V("sh"), V("sv"))
    \o hats(0, V("sq")) \o hats(1, V("sk")) \o rms(V("sv"), Null, n * v.heads, d)
    \o turned(V("sq")) \o turned(V("sk"))
    \o <<<<"kv_append", V("sk"), V("sv"), V("sgate"), V("sup"), n, v.heads, d, 0, n, Null>>,
         <<"attn_prefill", V("sq"), V("sgate"), V("sup"), V("satt"), n, g, 0, FALSE, 0,
           Null>>>>
    \o lin("o", V("satt"), V("sh2")) \o norm(1, V("sh2"), V("sh2")) \o residual
    \o norm(2, V("sx"), V("sh"))
    \o lin("gate", V("sh"), V("sgate")) \o lin("up", V("sh"), V("sup"))
    \o <<<<"geglu", V("sgate"), V("sup"), n * v.inter>>>>
    \o lin("down", V("sgate"), V("sh2")) \o norm(3, V("sh2"), V("sh2")) \o residual

(* posx, posy, gidx and gidy lie one behind the other.                     *)
G4encode_image(c, v, gw, gh, turn) ==
  LET V(f) == P(VISION, 0, f)
      ts == G4VisionTensors(c, v)
      n == gw * gh
      tokens == (gw \div v.pool) * (gh \div v.pool)
      pos(i) == At(V("pos"), i * G4_MAX_PATCHES)
      up(i, f(_)) == <<<<"htod", pos(i), [p \in 1 .. n |-> <<"n", f(p - 1)>>], 1>>>>
      x(p) == p % gw
      y(p) == p \div gw
      table(row, ids) ==
        <<<<"gather", At(V("pos_table"), row * v.h), ids, V("pose"), n, v.h>>,
          <<"add", V("sx"), V("pose"), n * v.h>>>> IN
  up(0, x) \o up(1, y) \o up(2, x) \o up(3, y)
    \o <<<<"htod", V("sh"), [r \in 1 .. n |-> <<"pixels", r - 1, turn>>], v.patch>>>>
    \o WGemm(VISION, Named(ts, 0, "input_proj"), V("sh"), V("sx"), n)
    \o table(0, pos(2)) \o table(v.rows, pos(3))
    \o Each(v.layers, LAMBDA l : VisionLayer(c, v, l, n))
    \o <<<<"pool", V("sx"), V("pooled"), gw, gh, v.pool, v.h>>>>
    \o WGemm(VISION, Named(ts, 0, "emb_proj"), V("pooled"), V("out"), tokens)
    \o <<<<"dtod", Media(VISION), V("out"), tokens * c.hs>>>>

AudioLayer(c, v, l, n) ==
  LET V(f) == P(AUDIO, 0, f)
      ts == G4AudioTensors(c, v)
      lin(f, x, y) == clip_run(v, AUDIO, Named(ts, l, f), x, y, n)
      norm(r, x, y) == <<<<"rmsnorm", x, At(P(AUDIO, l, "norms"), r * v.h), y, n, v.h>>>>
      plus(x) == <<<<"add", V("sx"), x, n * v.h>>>>
      ff(w1, w2, r) ==
        norm(r, V("sx"), V("sh")) \o lin(w1, V("sh"), V("sg"))
          \o <<<<"silu", V("sg"), n * v.h * 4>>>>
          \o lin(w2, V("sg"), V("sh2")) \o norm(r + 1, V("sh2"), V("sh2"))
          \o <<<<"scalemul", V("sh2"), <<"residual", l>>, n * v.h>>>> \o plus(V("sh2")) IN
  WGemm(AUDIO, Named(ts, l, "relk_w"), V("relpe"), V("relk"), v.rows)
    \o ff("ff1_w1", "ff1_w2", 0)
    \o norm(2, V("sx"), V("sh"))
    \o lin("q", V("sh"), V("sq")) \o lin("k", V("sh"), V("sk")) \o lin("v", V("sh"), V("sv"))
    \o <<<<"mulvec", V("sq"), P(AUDIO, l, "qscale"), n, v.h>>,
         <<"scalemul", V("sk"), <<"k_scale", l>>, n * v.h>>,
         <<"audio_attn", V("sq"), V("sk"), V("sv"), V("relk"), V("sh2"), n, v.h, v.pool,
           v.rows - 1>>>>
    \o lin("post", V("sh2"), V("sh")) \o norm(3, V("sh"), V("sh")) \o plus(V("sh"))
    \o norm(4, V("sx"), V("sh")) \o lin("lc_start", V("sh"), V("sg"))
    \o <<<<"glu", V("sg"), V("sh"), n, v.h>>,
         <<"dwconv1d", V("sh"), P(AUDIO, l, "lc_dw"), V("sh2"), n, v.h, v.patch>>>>
    \o norm(5, V("sh2"), V("sh2")) \o <<<<"silu", V("sh2"), n * v.h>>>>
    \o lin("lc_end", V("sh2"), V("sh")) \o plus(V("sh"))
    \o ff("ff2_w1", "ff2_w2", 6)
    \o norm(8, V("sx"), V("sx"))

(* Two convolutions of stride 2 on the host, then the tower.               *)
ClipTokens(frames) == Min({Ceil(Ceil(frames, 2), 2), AUDIO_MAX_TOKENS})
G4encode_audio(c, v, frames, turn) ==
  LET V(f) == P(AUDIO, 0, f)
      ts == G4AudioTensors(c, v)
      n == ClipTokens(frames) IN
  <<<<"htod", V("sh"), [r \in 1 .. n |-> <<"pixels", r - 1, turn>>], v.conv>>>>
    \o WGemm(AUDIO, Named(ts, 0, "input_proj"), V("sh"), V("sx"), n)
    \o Each(v.layers, LAMBDA l : AudioLayer(c, v, l, n))
    \o WGemm(AUDIO, Named(ts, 0, "out_proj"), V("sx"), V("sout"), n)
    \o <<<<"bias", V("sout"), P(AUDIO, 0, "out_bias"), n, v.h>>>>
    \o rms(V("sout"), Null, n, v.h)
    \o WGemm(AUDIO, Named(ts, 0, "emb_proj"), V("sout"), Media(AUDIO), n)
================================================================================
