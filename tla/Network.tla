---------------------------------- MODULE Network ------------------------------
(* What the models compute, position by position: the meaning that the     *)
(* launches of Tapes and TowerTapes are held to.  No buffer, chunk, tile,  *)
(* slab or cache occurs here.                                              *)
(*                                                                         *)
(* The state of the residual stream has a name: <<kind, part, l, j, t>> is *)
(* row j of a part after layer l (X), or inside it after the attention (M) *)
(* and, in a conformer, after its attention (N) and its convolution (O);   *)
(* F is a soft token.  t: the turn that computed it.                       *)
EXTENDS TowerTapes

Mat(part, l, f, n) == <<"w", <<part, l, f>>, 0, n>>
Row(part, l, f, r) == <<"w", <<part, l, f>>, r, r + 1>>
Vec(part, l, f) == Mat(part, l, f, 1)
NoSoft == <<"none">>
--------------------------------------------------------------------------------
(* Text.  h: the positions so far, each with its token, the soft token in  *)
(* its place, its media block and its turn.                                *)

Embedding(c, h, j) ==
  LET row == <<"row", <<1, 0, "embed_tokens">>, 0, h[j + 1].tok>> IN
  IF h[j + 1].soft # NoSoft THEN h[j + 1].soft
  ELSE IF Std(c) THEN row
  ELSE scaled(<<"sqrt", c.hs>>, row)
After(c, h, l, j) ==
  IF l = 0 THEN Embedding(c, h, j) ELSE <<"X", 1, l, j, h[j + 1].t>>
Mid(h, l, j) == <<"M", 1, l, j, h[j + 1].t>>

TextNorm(c, l, f, x) == normed(c.hs, Vec(1, l, f), x)
TextLin(l, f, n, x) == product(Mat(1, l, f, n), x)

(* What a query sees: the past, as far as its window, and its own image.   *)
Visible(c, h, l, j) ==
  {i \in 0 .. Len(h) - 1 :
     \/ i <= j /\ (Std(c) \/ Window(c, l) = 0 \/ j - i < Window(c, l))
     \/ h[i + 1].blk >= 0 /\ h[i + 1].blk = h[j + 1].blk}
(* Heads share keys and values in groups of equal size.                    *)
Attention1(q, heads, kvh, seen, K(_), V(_)) ==
  attended(q, [i \in 1 .. heads |->
    LET g == ((i - 1) * kvh) \div heads IN {<<s, head(g, K(s)), head(g, V(s))>> : s \in seen}])

StdKey(c, h, l, f, j) ==
  LET v == TextLin(l, f \o "_proj", IF f = "q" THEN Qd(c) ELSE Kvd(c),
                   TextNorm(c, l, "attn_norm", After(c, h, l - 1, j))) IN
  IF c.bias THEN biased(Vec(1, l, f \o "_bias"), v) ELSE v
(* The layer whose keys and values a layer attends to.                     *)
CacheOf(c, l) ==
  IF Std(c) \/ ~Shared(c, l) THEN l
  ELSE Max({i \in 1 .. Layers(c) - c.shared : c.types[i] = c.types[l]})
G4In(c, h, l, j) == TextNorm(c, l, "input_norm", After(c, h, l - 1, j))

Query(c, h, l, j) ==
  rotated(Freq(c, l), j,
    IF Std(c) THEN StdKey(c, h, l, "q", j)
    ELSE normed(Hd(c, l), Vec(1, l, "q_norm"),
                TextLin(l, "q_proj", c.heads * Hd(c, l), G4In(c, h, l, j))))
KeyOf(c, h, l, j) ==
  rotated(Freq(c, l), j,
    IF Std(c) THEN StdKey(c, h, l, "k", j)
    ELSE normed(Hd(c, l), Vec(1, l, "k_norm"),
                TextLin(l, "k_proj", Kvh(c, l) * Hd(c, l), G4In(c, h, l, j))))
ValueOf(c, h, l, j) ==
  IF Std(c) THEN StdKey(c, h, l, "v", j)
  ELSE normed(Hd(c, l), <<"one">>,
              TextLin(l, IF c.keqv /\ c.types[l] = "full" THEN "k_proj" ELSE "v_proj",
                      Kvh(c, l) * Hd(c, l), G4In(c, h, l, j)))
TextMid(c, h, l, j) ==
  LET src == CacheOf(c, l)
      att == Attention1(Query(c, h, l, j), c.heads, IF Std(c) THEN c.kvh ELSE Kvh(c, l),
                        Visible(c, h, l, j), LAMBDA s : KeyOf(c, h, src, s),
                        LAMBDA s : ValueOf(c, h, src, s))
      o == TextLin(l, "o_proj", c.hs, att) IN
  sum(After(c, h, l - 1, j), IF Std(c) THEN o ELSE TextNorm(c, l, "post_attn_norm", o))

(* What a token adds to the layers, by its identity and by its embedding.  *)
PerLayer(c, h, j) ==
  LET id == IF h[j + 1].soft # NoSoft THEN pad ELSE h[j + 1].tok
      projected == product(Mat(1, 0, "ple_model_proj", Layers(c) * c.ple), Embedding(c, h, j)) IN
  scaled(<<"inv_sqrt", 2>>,
         sum(normed(c.ple, Vec(1, 0, "ple_norm"), scaled(<<"inv_sqrt", c.hs>>, projected)),
             <<"ple", id>>))
TextOut(c, h, l, j) ==
  LET m == Mid(h, l, j)
      inter == IF Std(c) THEN c.inter ELSE Inter(c, l)
      mlp(act, norm) ==
        LET x == TextNorm(c, l, norm, m) IN
        TextLin(l, "down_proj", c.hs,
                gate_up(act, TextLin(l, "gate_proj", inter, x), TextLin(l, "up_proj", inter, x)))
      wide == sum(m, TextNorm(c, l, "post_ffw_norm", mlp("geglu", "pre_ffw_norm")))
      own == <<"part", (l - 1) * c.ple, c.ple, PerLayer(c, h, j)>>
      ple == TextLin(l, "ple_proj", c.hs,
                     <<"mul", <<"gelu", TextLin(l, "ple_gate", c.ple, wide)>>, own>>) IN
  IF Std(c) THEN sum(m, mlp("swiglu", "ffn_norm"))
  ELSE scaled(<<"layer", l>>,
              IF c.ple = 0 THEN wide ELSE sum(wide, TextNorm(c, l, "ple_norm", ple)))

Final(c, h, j) == normed(c.hs, Vec(1, 0, "norm"), After(c, h, Layers(c), j))
HeadMat(c) == Mat(1, 0, IF Std(c) /\ ~c.tied THEN "lm_head" ELSE "embed_tokens", c.vocab)
Logits(c, h, j) == product(HeadMat(c), Final(c, h, j))
(* The token of the largest logit has a name as well.                      *)
Token(c, v) ==
  IF v[1] = "lin" /\ v[2] = HeadMat(c) /\ v[3][1] = "rms" /\ v[3][4][1] = "X"
     /\ v = product(HeadMat(c), normed(c.hs, Vec(1, 0, "norm"), v[3][4]))
  THEN <<"tok", v[3][4][4], v[3][4][5]>> ELSE winner(v)
(* The last tokens, each at its place in the ring.                         *)
Recent(h) ==
  {<<p % SAMPLE_TOPK, h[p + 1].tok>> : p \in Max({0, Len(h) - SAMPLE_TOPK}) .. Len(h) - 1}
Candidates(c, h, rp) ==
  LET plain == Logits(c, h, Len(h) - 1)
      best == IF rp = 1 THEN plain ELSE penalized(rp, counted(Recent(h)), plain)
      round[i \in 1 .. SAMPLE_TOPK] == IF i = 1 THEN best ELSE masked(round[i - 1]) IN
  [i \in 1 .. SAMPLE_TOPK |-> Token(c, round[i])]
--------------------------------------------------------------------------------
(* Towers.  e: the tower (part, v), what it looks at (rows; gw x gh for an *)
(* image of gemma4) and the turn.                                          *)

Pixels(e, r) == <<"pixels", r, e.turn>>
TowerX(e, l, r) == <<"X", e.part, l, r, e.turn>>
Affine(e, l, w, b, n, x) == biased(Vec(e.part, l, b), product(Mat(e.part, l, w, n), x))
LayerNorm(e, l, f, x) ==
  layer_normed(e.v.h, Vec(e.part, l, f \o "_w"), Vec(e.part, l, f \o "_b"), x)
EndNorm(e, f, x) == layer_normed(e.v.h, Row(e.part, 0, f, 0), Row(e.part, 0, f, 1), x)

EncoderStart(e, r) ==
  LET v == e.v
      patch(i) == Affine(e, 0, "patch_w", "patch_b", v.h, Pixels(e, i))
      placed(x) == sum(x, Row(e.part, 0, "pos_embed", r))
      near == {s \in 2 * r - 1 .. 2 * r + 1 : s >= 0 /\ s < FramesIn(v, e.frames)} IN
  IF e.part = AUDIO
  THEN placed(<<"gelu", Affine(e, 0, "conv2_w", "conv2_b", v.h,
                               <<"taps", r, {<<s, <<"gelu", patch(s)>>>> : s \in near}>>)>>)
  ELSE IF ~v.cls THEN placed(patch(r))
  ELSE EndNorm(e, "pre_ln", placed(IF r = 0 THEN Vec(e.part, 0, "class_embed")
                                   ELSE patch(r - 1)))
EncoderAfter(e, l, r) == IF l = 0 THEN EncoderStart(e, r) ELSE TowerX(e, l, r)
EncoderMid(e, l, r) ==
  LET v == e.v
      in(s) == LayerNorm(e, l, "ln1", EncoderAfter(e, l - 1, s))
      att == Attention1(Affine(e, l, "wq", "bq", v.h, in(r)), v.heads, v.heads, 0 .. e.rows - 1,
                        LAMBDA s : Affine(e, l, "wk", "bk", v.h, in(s)),
                        LAMBDA s : Affine(e, l, "wv", "bv", v.h, in(s))) IN
  sum(EncoderAfter(e, l - 1, r), Affine(e, l, "wo", "bo", v.h, att))
EncoderOut(e, l, r) ==
  LET m == <<"M", e.part, l, r, e.turn>>
      wide == <<"gelu", Affine(e, l, "fc1", "fb1", e.v.inter, LayerNorm(e, l, "ln2", m))>> IN
  sum(m, Affine(e, l, "fc2", "fb2", e.v.h, wide))
EncoderSoft(c, e, i) ==
  LET r == IF e.part = VISION /\ e.v.cls THEN i + 1 ELSE i
      x == EndNorm(e, "final_ln", TowerX(e, e.v.layers, r))
      first(n) == Affine(e, 0, "proj1_w", "proj1_b", n, x) IN
  IF e.v.mid = 0 THEN first(c.hs)
  ELSE Affine(e, 0, "proj2_w", "proj2_b", c.hs, <<"gelu", first(e.v.mid)>>)

G4Norm(e, l, i, x) == normed(e.v.h, Row(e.part, l, "norms", i), x)
Clip(e, x) == IF e.v.clip THEN <<"clamp", x>> ELSE x
ClipLin(e, l, f, n, x) == Clip(e, product(Mat(e.part, l, f, n), Clip(e, x)))

VisionStart(e, p) ==
  LET coordinate(r, i) == <<"row", <<VISION, 0, "pos_table">>, r, <<"n", i>>>> IN
  sum(sum(product(Mat(VISION, 0, "input_proj", e.v.h), Pixels(e, p)),
          coordinate(0, p % e.v.gw)), coordinate(e.v.rows, p \div e.v.gw))
VisionAfter(e, l, p) == IF l = 0 THEN VisionStart(e, p) ELSE TowerX(e, l, p)
VisionMid(e, l, p) ==
  LET v == e.v
      d == v.h \div v.heads
      lin(f, s) == ClipLin(e, l, f, v.h, G4Norm(e, l, 0, VisionAfter(e, l - 1, s)))
      hat(f, i, s) == rotated2d(<<"n", s % v.gw>>, <<"n", s \div v.gw>>,
                                normed(d, Row(VISION, l, "qk_norm", i), lin(f, s)))
      att == Attention1(hat("q", 0, p), v.heads, v.heads, 0 .. e.rows - 1,
                        LAMBDA s : hat("k", 1, s), LAMBDA s : normed(d, <<"one">>, lin("v", s))) IN
  sum(VisionAfter(e, l - 1, p), G4Norm(e, l, 1, ClipLin(e, l, "o", v.h, att)))
VisionOut(e, l, p) ==
  LET m == <<"M", VISION, l, p, e.turn>>
      lin(f) == ClipLin(e, l, f, e.v.inter, G4Norm(e, l, 2, m)) IN
  sum(m, G4Norm(e, l, 3, ClipLin(e, l, "down", e.v.h, gate_up("geglu", lin("gate"), lin("up")))))
(* A soft token is the mean of a square of patches.                        *)
VisionSoft(c, e, i) ==
  LET k == e.v.pool
      across == e.v.gw \div k
      square == {p \in 0 .. e.rows - 1 : (p % e.v.gw) \div k = i % across
                                         /\ (p \div e.v.gw) \div k = i \div across} IN
  product(Mat(VISION, 0, "emb_proj", c.hs),
          <<"pooled", i, {<<p, TowerX(e, e.v.layers, p)>> : p \in square}>>)

AudioAfter(e, l, p) ==
  IF l = 0 THEN product(Mat(AUDIO, 0, "input_proj", e.v.h), Pixels(e, p)) ELSE TowerX(e, l, p)
Macaron(e, l, x, w1, w2, i) ==
  sum(x, scaled(<<"residual", l>>,
        G4Norm(e, l, i + 1, ClipLin(e, l, w2, e.v.h,
          <<"silu", ClipLin(e, l, w1, 4 * e.v.h, G4Norm(e, l, i, x))>>))))
AudioFirst(e, l, p) == Macaron(e, l, AudioAfter(e, l - 1, p), "ff1_w1", "ff1_w2", 0)
(* A query hears its chunk and what is at most past frames before itself;  *)
(* the rest of the window only weighs in the softmax.                      *)
AudioMid(e, l, p) ==
  LET past == e.v.rows - 1
      front == (p \div e.v.pool) * e.v.pool - past
      window == front .. front + e.v.pool + past - 1
      offset(j) == j - front - (p % e.v.pool)
      heard == {j \in window : j \in 0 .. e.rows - 1 /\ offset(j) \in 0 .. past}
      m(j) == <<"M", AUDIO, l, j, e.turn>>
      lin(f, j) == ClipLin(e, l, f, e.v.h, G4Norm(e, l, 2, m(j)))
      att == listened(<<"mulvec", Vec(AUDIO, l, "qscale"), lin("q", p)>>,
                      {<<j, scaled(<<"k_scale", l>>, lin("k", j)), lin("v", j),
                         product(Mat(AUDIO, l, "relk_w", e.v.h),
                                 Row(AUDIO, 0, "relpe", offset(j)))>> : j \in heard},
                      Cardinality(window \ heard)) IN
  sum(m(p), G4Norm(e, l, 3, ClipLin(e, l, "post", e.v.h, att)))
AudioConv(e, l, p) ==
  LET n(j) == <<"N", AUDIO, l, j, e.turn>>
      gated1(j) == <<"glu", ClipLin(e, l, "lc_start", 2 * e.v.h, G4Norm(e, l, 4, n(j)))>>
      near == {j \in 0 .. p : p - j < e.v.patch} IN
  sum(n(p), ClipLin(e, l, "lc_end", e.v.h,
        <<"silu", G4Norm(e, l, 5, convolved(Vec(AUDIO, l, "lc_dw"),
                                            {<<p - j, gated1(j)>> : j \in near}))>>))
AudioOut(e, l, p) ==
  G4Norm(e, l, 8, Macaron(e, l, <<"O", AUDIO, l, p, e.turn>>, "ff2_w1", "ff2_w2", 6))
AudioSoft(c, e, i) ==
  product(Mat(AUDIO, 0, "emb_proj", c.hs),
    normed(e.v.h, <<"one">>,
      biased(Vec(AUDIO, 0, "out_bias"),
             product(Mat(AUDIO, 0, "out_proj", e.v.h), TowerX(e, e.v.layers, i)))))
--------------------------------------------------------------------------------
(* The meaning of a name.                                                  *)

TowerMeaning(c, e, name) ==
  LET kind == name[1] l == name[3] r == name[4] IN
  CASE Std(c) /\ kind = "M" -> EncoderMid(e, l, r)
    [] Std(c) /\ kind = "X" -> EncoderOut(e, l, r)
    [] Std(c) /\ kind = "F" -> EncoderSoft(c, e, r)
    [] ~Std(c) /\ e.part = VISION /\ kind = "M" -> VisionMid(e, l, r)
    [] ~Std(c) /\ e.part = VISION /\ kind = "X" -> VisionOut(e, l, r)
    [] ~Std(c) /\ e.part = VISION /\ kind = "F" -> VisionSoft(c, e, r)
    [] ~Std(c) /\ e.part = AUDIO /\ kind = "M" -> AudioFirst(e, l, r)
    [] ~Std(c) /\ e.part = AUDIO /\ kind = "N" -> AudioMid(e, l, r)
    [] ~Std(c) /\ e.part = AUDIO /\ kind = "O" -> AudioConv(e, l, r)
    [] ~Std(c) /\ e.part = AUDIO /\ kind = "X" -> AudioOut(e, l, r)
    [] ~Std(c) /\ e.part = AUDIO /\ kind = "F" -> AudioSoft(c, e, r)
Meaning(c, h, e, name) ==
  CASE name[2] # 1 -> TowerMeaning(c, e, name)
    [] name[2] = 1 /\ name[1] = "M" -> TextMid(c, h, name[3], name[4])
    [] name[2] = 1 /\ name[1] = "X" -> TextOut(c, h, name[3], name[4])

(* The name that follows in the residual stream.                           *)
Following(c, name) ==
  LET conformer == ~Std(c) /\ name[2] = AUDIO
      kind == CASE name[1] = "X" -> "M"
                [] name[1] = "M" -> IF conformer THEN "N" ELSE "X"
                [] name[1] = "N" -> "O"
                [] name[1] = "O" -> "X" IN
  <<kind, name[2], IF name[1] = "X" THEN name[3] + 1 ELSE name[3], name[4], name[5]>>
================================================================================
