-------------------------------- MODULE Builders -------------------------------
(* What the builders of a model ask of the device, in the order they ask,  *)
(* and the forecast made before them.  A builder is a list of steps:       *)
(*   find   a tensor the builder cannot do without                         *)
(*   alloc  a buffer that the model keeps until it is dropped              *)
(*   free   a temporary that goes out of scope                             *)
(*   q8     ensure_q8_scratch for a row of n elements                      *)
(* A buffer is named by a layer (0 outside the layers) and a field.        *)
EXTENDS Integers, Sequences, SequencesExt, FiniteSetsExt

CONSTANTS
  CHUNK, DQ_SCRATCH, ATT_CSZ, SAMPLE_TOPK,
  G4_MAX_PATCHES,     \* rows of the vision tower's scratch
  FORECAST_FRAMES,    \* rows of the audio tower's scratch in the forecast
  AUDIO_MAX_TOKENS    \* rows of it in the tower

ASSUME BuildersAssumption ==
  {CHUNK, DQ_SCRATCH, ATT_CSZ, SAMPLE_TOPK, G4_MAX_PATCHES, FORECAST_FRAMES,
   AUDIO_MAX_TOKENS} \subseteq Nat \ {0}

Ceil(a, b) == (a + b - 1) \div b
Fold(op(_, _), f(_), s) ==
  LET acc[a, b \in DOMAIN s] ==
        IF a = b THEN f(s[a])
        ELSE op(acc[a, (a + b) \div 2], acc[(a + b) \div 2 + 1, b])
  IN IF s = <<>> THEN 0 ELSE acc[1, Len(s)]
SumOf(f(_), s) == Fold(+, f, s)
Each(n, f(_)) == FlattenSeq([l \in 1 .. n |-> f(l)])
NoTower == [there |-> FALSE]
If(b, s) == IF b THEN s ELSE <<>>
Layers(c) == Len(c.types)
--------------------------------------------------------------------------------
(* Tensors.  store: how the file keeps it; n, k: rows and columns.         *)

Tensor(l, field, store, n, k) ==
  [buf |-> <<l, field>>, store |-> store, n |-> n, k |-> k]
Elems(t) == t.n * t.k

storage_bytes(store, e) ==
  CASE store = "f32" -> 4 * e
    [] store = "block" -> (e \div 32) * 34
    [] store = "nf4" -> e \div 2
    [] OTHER -> 2 * e

nf4_device_bytes(e) == e \div 2 + (e \div 64) * 4 + 64

device_bytes(c, t) ==
  CASE t.store = "block" /\ c.codec = "gguf" -> storage_bytes("block", Elems(t))
    [] t.store = "nf4" -> nf4_device_bytes(Elems(t))
    [] OTHER -> 2 * Elems(t)

Find(buf) == <<[do |-> "find", buf |-> buf, n |-> 0]>>
Alloc(buf, n) == <<[do |-> "alloc", buf |-> buf, n |-> n]>>
Free(buf) == <<[do |-> "free", buf |-> buf, n |-> 0]>>
GrowQ8(k) == <<[do |-> "q8", buf |-> <<0, "q8">>, n |-> k]>>
Room(field, n) == Alloc(<<0, field>>, n)

HalfCodec_upload(t) ==
  LET staging == <<t.buf[1], "staging " \o t.buf[2]>> IN
  IF t.store \in {"bf16", "f32"}
  THEN Alloc(staging, storage_bytes(t.store, Elems(t)))
         \o Alloc(t.buf, 2 * Elems(t)) \o Free(staging)
  ELSE Alloc(t.buf, 2 * Elems(t))
GgufCodec_upload(c, t) == Alloc(t.buf, device_bytes(c, t))
CodecUpload(c, t) ==
  IF c.codec = "gguf" THEN GgufCodec_upload(c, t) ELSE HalfCodec_upload(t)

(* WeightIndex::upload and upload_lin *)
upload(c, t) == Find(t.buf) \o CodecUpload(c, t)
upload_lin(c, t) ==
  IF c.codec = "gguf" /\ t.store = "block"
  THEN Find(t.buf) \o GgufCodec_upload(c, t) \o GrowQ8(t.k)
  ELSE upload(c, t)

(* G4Index::upload and upload_w: a dense slot is dequantized on the host.  *)
G4upload(c, t) ==
  Find(t.buf) \o (IF t.store = "block" THEN Alloc(t.buf, 2 * Elems(t))
                                       ELSE CodecUpload(c, t))
G4upload_w(c, t) ==
  CASE t.store = "block" ->
         Find(t.buf) \o Alloc(t.buf, storage_bytes("block", Elems(t))) \o GrowQ8(t.k)
    [] t.store = "nf4" ->
         Find(t.buf) \o Alloc(t.buf, Elems(t) \div 2)
           \o Alloc(<<t.buf[1], "absmax " \o t.buf[2]>>, (Elems(t) \div 64) * 4)
           \o Alloc(<<t.buf[1], "map " \o t.buf[2]>>, 64)
    [] OTHER -> G4upload(c, t)
--------------------------------------------------------------------------------
(* Transformer::build.                                                     *)

Qd(c) == c.heads * c.hd
Kvd(c) == c.kvh * c.hd
Lin(c, l, f, n, k) == Tensor(l, f, c.lin, n, k)
Dense(c, l, f, n) == Tensor(l, f, c.dense, 1, n)

StdEmbedTensor(c) == Tensor(0, "embed_tokens", c.lin, c.vocab, c.hs)
StdHead(c) == If(~c.tied, <<Lin(c, 0, "lm_head", c.vocab, c.hs)>>)
StdQKV(c, l) ==
  <<Lin(c, l, "q_proj", Qd(c), c.hs), Lin(c, l, "k_proj", Kvd(c), c.hs),
    Lin(c, l, "v_proj", Kvd(c), c.hs)>>
StdGateUp(c, l) ==
  <<Lin(c, l, "gate_proj", c.inter, c.hs), Lin(c, l, "up_proj", c.inter, c.hs)>>
StdO(c, l) == Lin(c, l, "o_proj", c.hs, Qd(c))
StdDown(c, l) == Lin(c, l, "down_proj", c.hs, c.inter)
StdBias(c, l) ==
  If(c.bias, <<Dense(c, l, "q_bias", Qd(c)), Dense(c, l, "k_bias", Kvd(c)),
               Dense(c, l, "v_bias", Kvd(c))>>)
StdNorms(c, l) == <<Dense(c, l, "attn_norm", c.hs), Dense(c, l, "ffn_norm", c.hs)>>

Uploads(c, s) == FlattenSeq([i \in DOMAIN s |-> upload(c, s[i])])
Lins(c, s) == FlattenSeq([i \in DOMAIN s |-> upload_lin(c, s[i])])
Drops(s) == FlattenSeq([i \in DOMAIN s |-> Free(s[i].buf)])
fuse(buf, s) == Alloc(buf, 2 * SumOf(Elems, s))

(* A tied head needs the table as a f16 operand; an untied bf16 table is   *)
(* kept as it is stored.                                                   *)
StdEmbed(c) ==
  LET t == StdEmbedTensor(c) IN
  CASE c.codec = "gguf" /\ t.store = "block" -> upload_lin(c, t)
    [] t.store = "f16" \/ (t.store = "bf16" /\ ~c.tied /\ c.codec # "gguf") ->
         Find(t.buf) \o Alloc(t.buf, storage_bytes(t.store, Elems(t)))
    [] OTHER -> upload(c, t)

(* q, k, v, gate and up live until the layer's fused copies are made.      *)
StdFused(c, l) ==
  LET qkv == StdQKV(c, l) gu == StdGateUp(c, l) IN
  Uploads(c, qkv) \o Uploads(c, gu)
    \o fuse(<<l, "wqkv">>, qkv) \o upload(c, StdO(c, l))
    \o fuse(<<l, "w_gateup">>, gu) \o upload(c, StdDown(c, l))
    \o Drops(qkv) \o Drops(gu)
StdSplit(c, l) ==
  Lins(c, StdQKV(c, l) \o <<StdO(c, l)>> \o StdGateUp(c, l) \o <<StdDown(c, l)>>)

StdLayer(c, l) ==
  LET norms == StdNorms(c, l)
      kv == c.kvh * c.seq * c.hd * 2 IN
  (IF c.codec = "gguf" THEN StdSplit(c, l) ELSE StdFused(c, l))
    \o upload(c, norms[1])
    \o If(c.bias, Uploads(c, StdBias(c, l)) \o fuse(<<l, "bqkv">>, StdBias(c, l))
                    \o Drops(StdBias(c, l)))
    \o upload(c, norms[2])
    \o Alloc(<<l, "k_cache">>, kv) \o Alloc(<<l, "v_cache">>, kv)

DqBytes(c) == Min({Max({Qd(c), Kvd(c), c.inter}) * c.hs * 2, DQ_SCRATCH})

StdWorkspace(c) ==
  LET row(f, n) == Room(f, CHUNK * n * 2) IN
  row("x", c.hs) \o row("h", Max({c.hs, Qd(c)})) \o row("att", Qd(c))
    \o row("q", Qd(c)) \o row("k", Kvd(c)) \o row("v", Kvd(c))
    \o Room("qkv", (Qd(c) + 2 * Kvd(c)) * 2)
    \o Room("att_part", c.heads * Ceil(c.seq, ATT_CSZ) * (c.hd + 2) * 4)
    \o Room("cand", SAMPLE_TOPK * 8) \o Room("hist_ring", SAMPLE_TOPK * 4)
    \o Room("hist_counts", c.vocab * 4)
    \o row("gate", c.inter) \o row("up", c.inter)
    \o Room("logits_h", c.vocab * 2) \o Room("logits_f", c.vocab * 4)
    \o Room("argmax_slot", 8) \o Room("pos_dev", 4) \o Room("ids", CHUNK * 4)
    \o If(c.codec = "gguf", Room("dq", DqBytes(c)))

(* EncoderTower::build: the vision or audio tower of a standard model.     *)
TowerBlock(c, v, l) ==
  LET at(f, n, k) == Tensor(l, f, c.dense, n, k) IN
  <<at("ln1_w", 1, v.h), at("ln1_b", 1, v.h), at("wq", v.h, v.h), at("bq", 1, v.h),
    at("wk", v.h, v.h), at("bk", 1, v.h), at("wv", v.h, v.h), at("bv", 1, v.h),
    at("wo", v.h, v.h), at("bo", 1, v.h), at("ln2_w", 1, v.h), at("ln2_b", 1, v.h),
    at("fc1", v.inter, v.h), at("fb1", 1, v.inter), at("fc2", v.h, v.inter),
    at("fb2", 1, v.h)>>
Lone(v) == v.mid = 0      \* the projector is one linear, not two around a GELU
Projector(c, v) ==
  LET at(f, n, k) == Tensor(0, f, c.dense, n, k)
      first(n) == <<at("proj1_w", n, v.h), at("proj1_b", 1, n)>> IN
  IF Lone(v) THEN first(c.hs)
  ELSE first(v.mid) \o <<at("proj2_w", c.hs, v.mid), at("proj2_b", 1, c.hs)>>
TowerEnds(c, v) ==
  LET at(f, n, k) == Tensor(0, f, c.dense, n, k) IN
  <<at("pos_embed", v.rows, v.h)>>
    \o If(v.cls, <<at("class_embed", 1, v.h), at("pre_ln", 2, v.h)>>)
    \o <<at("final_ln", 2, v.h)>> \o Projector(c, v)
TowerFront(c, v) ==
  LET at(f, n, k) == Tensor(0, f, c.dense, n, k) IN
  <<at("patch_w", v.h, v.patch), at("patch_b", 1, v.h)>>
    \o If(v.conv2, <<at("conv2_w", v.h, 3 * v.h), at("conv2_b", 1, v.h)>>)
TowerTensors(c, v) ==
  TowerFront(c, v)
    \o Each(v.layers, LAMBDA l : TowerBlock(c, v, l)) \o TowerEnds(c, v)
TowerSpace(c, v) ==
  LET row(f, n) == Room(f, v.rows * n * 2)
      mid == Max({c.hs, v.h, v.inter})
      mel == IF v.conv2 THEN (v.patch * v.patch) \div 3 ELSE 0 IN
  row("x", Max({v.h, c.hs})) \o row("h", mid) \o row("q", v.h) \o row("k", v.h)
    \o row("v", v.h) \o row("ff", mid) \o row("kc", v.h) \o row("vc", v.h)
    \o row("stage", Max({v.patch, 3 * v.h, mel}))
EncoderTower(c, v) == Uploads(c, TowerTensors(c, v)) \o TowerSpace(c, v)

StdTensors(c) ==
  <<StdEmbedTensor(c), Dense(c, 0, "norm", c.hs)>> \o StdHead(c)
    \o Each(Layers(c), LAMBDA l : StdQKV(c, l) \o StdGateUp(c, l)
              \o <<StdO(c, l), StdDown(c, l)>> \o StdBias(c, l) \o StdNorms(c, l))

StdText(c) ==
  StdEmbed(c) \o upload(c, Dense(c, 0, "norm", c.hs)) \o Lins(c, StdHead(c))
    \o Each(Layers(c), LAMBDA l : StdLayer(c, l)) \o StdWorkspace(c)
--------------------------------------------------------------------------------
(* Gemma4::build.  types: the attention of each layer; the last c.shared   *)
(* layers have no cache of their own.                                      *)

FirstShared(c) == Layers(c) - c.shared + 1
Shared(c, l) == l >= FirstShared(c)
Hd(c, l) == IF c.types[l] = "sliding" THEN c.hd ELSE c.ghd
Kvh(c, l) == IF c.types[l] = "sliding" THEN c.kvh ELSE c.gkvh
Inter(c, l) == IF Shared(c, l) /\ c.wide THEN 2 * c.inter ELSE c.inter
CacheBytes(c, l) == Kvh(c, l) * c.seq * Hd(c, l) * 2
Widest(c) == IF c.wide THEN 2 * c.inter ELSE c.inter

G4Kv(c, l) ==
  <<Lin(c, l, "k_proj", Kvh(c, l) * Hd(c, l), c.hs)>>
    \o If(~(c.keqv /\ c.types[l] = "full"),
          <<Lin(c, l, "v_proj", Kvh(c, l) * Hd(c, l), c.hs)>>)
G4Norms(c, l) ==
  <<Dense(c, l, "input_norm", c.hs), Dense(c, l, "post_attn_norm", c.hs),
    Dense(c, l, "pre_ffw_norm", c.hs), Dense(c, l, "post_ffw_norm", c.hs)>>
G4Mlp(c, l) ==
  <<Lin(c, l, "o_proj", c.hs, c.heads * Hd(c, l)),
    Lin(c, l, "gate_proj", Inter(c, l), c.hs), Lin(c, l, "up_proj", Inter(c, l), c.hs),
    Lin(c, l, "down_proj", c.hs, Inter(c, l))>>
G4Ple(c, l) ==
  If(c.ple > 0, <<Lin(c, l, "ple_gate", c.ple, c.hs), Lin(c, l, "ple_proj", c.hs, c.ple)>>)
G4Wq(c, l) == Lin(c, l, "q_proj", c.heads * Hd(c, l), c.hs)
G4PleHead(c) == Lin(c, 0, "ple_model_proj", Layers(c) * c.ple, c.hs)
G4Embed(c) == Tensor(0, "embed_tokens", IF c.lin = "nf4" THEN "bf16" ELSE c.lin,
                     c.vocab, c.hs)
Rope(c) == Tensor(0, "rope_freqs", "f32", 1, c.ghd \div 2)

Ws(c, s) == FlattenSeq([i \in DOMAIN s |-> G4upload_w(c, s[i])])
Denses(c, s) == FlattenSeq([i \in DOMAIN s |-> G4upload(c, s[i])])

G4Front(c) ==
  LET e == G4Embed(c) IN
  (IF e.store = "block"
   THEN Find(e.buf) \o Alloc(e.buf, storage_bytes("block", Elems(e))) \o GrowQ8(c.hs)
   ELSE G4upload(c, e))
    \o G4upload(c, Dense(c, 0, "norm", c.hs))
    \o If(c.ple > 0, Find(<<0, "ple_table">>) \o G4upload_w(c, G4PleHead(c))
                       \o G4upload(c, Dense(c, 0, "ple_norm", c.ple)))

G4Layer(c, l) ==
  LET own == ~Shared(c, l) IN
  If(own, Find(<<l, "k_proj">>)) \o Denses(c, G4Norms(c, l))
    \o G4upload_w(c, G4Wq(c, l)) \o G4upload(c, Dense(c, l, "q_norm", Hd(c, l)))
    \o If(own, Ws(c, G4Kv(c, l)) \o G4upload(c, Dense(c, l, "k_norm", Hd(c, l))))
    \o Ws(c, G4Mlp(c, l)) \o Ws(c, G4Ple(c, l))
    \o If(c.ple > 0, G4upload(c, Dense(c, l, "ple_norm", c.hs)))
    \o If(c.types[l] = "full" /\ c.codec = "gguf",
          Alloc(<<l, "rope_factors">>, storage_bytes("f32", Elems(Rope(c)))))
    \o If(own, Alloc(<<l, "k_cache">>, CacheBytes(c, l))
                 \o Alloc(<<l, "v_cache">>, CacheBytes(c, l)))

(* What the host keeps: the table of per-layer embeddings.                 *)
G4Tensors(c) ==
  <<G4Embed(c), Dense(c, 0, "norm", c.hs)>>
    \o If(c.codec = "gguf", <<Rope(c)>>)
    \o If(c.ple > 0, <<G4PleHead(c), Dense(c, 0, "ple_norm", c.ple)>>)
    \o Each(Layers(c), LAMBDA l : G4Norms(c, l)
         \o <<G4Wq(c, l), Dense(c, l, "q_norm", Hd(c, l)),
              Dense(c, l, "k_norm", Hd(c, l))>>
         \o G4Kv(c, l) \o G4Mlp(c, l) \o G4Ple(c, l)
         \o If(c.ple > 0, <<Dense(c, l, "ple_norm", c.hs)>>))

G4VisionTensors(c, v) ==
  Each(v.layers, LAMBDA l :
    <<Dense(c, l, "norms", 4 * v.h), Lin(c, l, "q", v.h, v.h), Lin(c, l, "k", v.h, v.h),
      Lin(c, l, "v", v.h, v.h), Lin(c, l, "o", v.h, v.h), Dense(c, l, "qk_norm", 2 * (v.h \div v.heads)),
      Lin(c, l, "gate", v.inter, v.h), Lin(c, l, "up", v.inter, v.h),
      Lin(c, l, "down", v.h, v.inter)>>)
    \o <<Tensor(0, "input_proj", "f16", v.h, v.patch),
         Tensor(0, "pos_table", c.dense, 2 * v.rows, v.h), Lin(c, 0, "emb_proj", c.hs, v.h)>>
G4VisionSpace(c, v) ==
  LET row(f, n) == Room(f, G4_MAX_PATCHES * n)
      tokens == G4_MAX_PATCHES \div (v.pool * v.pool) IN
  row("sx", 2 * v.h) \o row("sh", 2 * v.h) \o row("sh2", 2 * v.h) \o row("sq", 2 * v.h)
    \o row("sk", 2 * v.h) \o row("sv", 2 * v.h) \o row("satt", 2 * v.h)
    \o row("sgate", 2 * v.inter) \o row("sup", 2 * v.inter)
    \o row("sclip", 2 * Max({v.h, v.inter})) \o row("pos", 16) \o row("pose", 2 * v.h)
    \o Room("pooled", tokens * v.h * 2) \o Room("out", tokens * c.hs * 2)

G4AudioTensors(c, v) ==
  Each(v.layers, LAMBDA l :
    <<Dense(c, l, "qscale", v.h), Dense(c, l, "lc_dw", v.h * v.patch)>>
      \o <<Dense(c, l, "norms", 9 * v.h), Lin(c, l, "ff1_w1", 4 * v.h, v.h),
           Lin(c, l, "ff1_w2", v.h, 4 * v.h), Lin(c, l, "ff2_w1", 4 * v.h, v.h),
           Lin(c, l, "ff2_w2", v.h, 4 * v.h), Lin(c, l, "q", v.h, v.h),
           Lin(c, l, "k", v.h, v.h), Lin(c, l, "v", v.h, v.h), Lin(c, l, "post", v.h, v.h),
           Lin(c, l, "relk_w", v.h, v.h), Lin(c, l, "lc_start", 2 * v.h, v.h),
           Lin(c, l, "lc_end", v.h, v.h)>>)
    \o <<Lin(c, 0, "input_proj", v.h, v.conv), Lin(c, 0, "out_proj", v.h, v.h),
         Dense(c, 0, "out_bias", v.h), Lin(c, 0, "emb_proj", c.hs, v.h)>>
G4AudioSpace(c, v) ==
  LET row(f, n) == Room(f, (AUDIO_MAX_TOKENS + v.pool) * n * 2) IN
  Room("relpe", v.rows * v.h * 2) \o Room("relk", v.rows * v.h * 2)
    \o row("sx", v.h) \o row("sh", v.h) \o row("sh2", v.h) \o row("sg", 4 * v.h)
    \o row("sq", v.h) \o row("sk", v.h) \o row("sv", v.h) \o row("sclip", 4 * v.h)
    \o row("sout", Max({v.h, c.hs}))
--------------------------------------------------------------------------------
(* The three parts of a build, and the tensors of the checkpoint.  A tower *)
(* that the configuration declares is whole or absent in the file; the     *)
(* towers of a standard model are built in either case.                    *)

Declared(v) == v # NoTower
InFile(v) == v # NoTower /\ v.there

Vision(c) ==
  IF c.arch = "std" THEN If(Declared(c.vision), EncoderTower(c, c.vision))
  ELSE If(InFile(c.vision), Ws(c, G4VisionTensors(c, c.vision)) \o G4VisionSpace(c, c.vision))
Audio(c) ==
  IF c.arch = "std" THEN If(Declared(c.audio), EncoderTower(c, c.audio))
  ELSE If(InFile(c.audio), Ws(c, G4AudioTensors(c, c.audio)) \o G4AudioSpace(c, c.audio))
Tensors(c) ==
  IF c.arch = "std"
  THEN StdTensors(c) \o If(InFile(c.vision), TowerTensors(c, c.vision))
                    \o If(InFile(c.audio), TowerTensors(c, c.audio))
  ELSE G4Tensors(c) \o If(InFile(c.vision), G4VisionTensors(c, c.vision))
                   \o If(InFile(c.audio), G4AudioTensors(c, c.audio))
--------------------------------------------------------------------------------
(* VramForecast::compute, Gemma4::forecast_bytes and the transient that    *)
(* the loader adds to it.                                                  *)

MaxOver(f(_), s) == Fold(LAMBDA a, b : IF a > b THEN a ELSE b, f, s)

StdTransient(c) ==
  MaxOver(LAMBDA t : IF t.store = "f16" THEN 0 ELSE storage_bytes(t.store, Elems(t)),
          Tensors(c))
StdForecast(c) ==
  LET wide == Max({c.hs, Qd(c)}) IN
  SumOf(LAMBDA t : device_bytes(c, t), Tensors(c))
    + (IF c.codec = "gguf" THEN DqBytes(c) ELSE 0)
    + StdTransient(c)
    + Layers(c) * 2 * c.kvh * c.seq * c.hd * 2
    + CHUNK * (3 * wide + Qd(c) + 2 * Kvd(c) + 2 * c.inter) * 2
    + (Qd(c) + 2 * Kvd(c)) * 2 + c.vocab * 8

(* The projection behind the audio tower's convolutions is left out with   *)
(* them, although G4Audio::build uploads it.                               *)
OnHost(c, t) == InFile(c.audio) /\ t = Lin(c, 0, "input_proj", c.audio.h, c.audio.conv)
prefill_scratch_bytes(c) ==
  MaxOver(LAMBDA t : IF t.store \in {"nf4", "block"} /\ t.buf # <<0, "embed_tokens">>
                        /\ ~OnHost(c, t)
                     THEN 2 * Elems(t) ELSE 0, Tensors(c))

G4Workspace(c) ==
  LET row(f, n) == Room(f, CHUNK * n * 2)
      d == Max({c.hd, c.ghd})
      kvd == Max({c.kvh, c.gkvh}) * d
      atLeast(f, n) == Room(f, Max({n, 2})) IN
  row("x", c.hs) \o row("h", c.hs) \o row("h2", c.hs) \o row("q", c.heads * d)
    \o row("k", kvd) \o row("v", kvd) \o row("att", c.heads * d)
    \o row("gate", Widest(c)) \o row("up", Widest(c))
    \o atLeast("ple", CHUNK * Layers(c) * c.ple * 2)
    \o atLeast("ple_id", CHUNK * Layers(c) * c.ple * 2) \o atLeast("ple_g", CHUNK * c.ple * 2)
    \o atLeast("wsc", prefill_scratch_bytes(c))
    \o Room("blkid", c.seq * 4) \o Room("ids", CHUNK * 4)
    \o Room("logits_h", c.vocab * 2) \o Room("logits_f", c.vocab * 4)
    \o Room("argmax_slot", 8) \o Room("pos_dev", 4)
    \o Room("att_part", c.heads * Ceil(c.seq, ATT_CSZ) * (d + 2) * 4)
    \o Room("cand", SAMPLE_TOPK * 8) \o Room("hist_ring", SAMPLE_TOPK * 4)
    \o Room("hist_counts", c.vocab * 4)

G4Text(c) ==
  G4Front(c) \o Each(Layers(c), LAMBDA l : G4Layer(c, l)) \o G4Workspace(c)
build(c) ==
  <<IF c.arch = "std" THEN StdText(c) ELSE G4Text(c), Vision(c), Audio(c)>>

G4Forecast(c) ==
  LET d == Max({c.hd, c.ghd})
      on == SelectSeq(Tensors(c), LAMBDA t : ~OnHost(c, t))
      ple == IF c.ple = 0 THEN 0
             ELSE CHUNK * Layers(c) * c.ple * 4 + CHUNK * c.ple * 2
      eyes == IF ~Declared(c.vision) THEN 0
              ELSE G4_MAX_PATCHES * 2 * (9 * c.vision.h + 2 * c.vision.inter)
      ears == IF ~Declared(c.audio) THEN 0 ELSE FORECAST_FRAMES * c.audio.h * 16 IN
  SumOf(LAMBDA t : device_bytes(c, t), on)
    + SumOf(LAMBDA l : 2 * CacheBytes(c, l), [l \in 1 .. FirstShared(c) - 1 |-> l])
    + CHUNK * 2 * (3 * c.hs + 2 * c.heads * d + 2 * Max({c.kvh, c.gkvh}) * d
                     + 2 * Widest(c))
    + c.seq * 4 + CHUNK * 4 + c.vocab * 6 + ple + eyes + ears + prefill_scratch_bytes(c)
    + MaxOver(LAMBDA t : IF t.store \in {"f16", "nf4"} THEN 0
                         ELSE storage_bytes(t.store, Elems(t)), on)

forecast(c) == IF c.arch = "std" THEN StdForecast(c) ELSE G4Forecast(c)

(* The rows of a slab of lin_gemm, and the scratch a gemm needs when it    *)
(* dequantizes a weight whole.                                             *)
Packed(c) ==
  ToSet(SelectSeq(Tensors(c), LAMBDA t :
    t.store = "nf4" \/ (t.store = "block" /\ c.codec = "gguf")))
Prefilled(c) == {t \in Packed(c) : t.buf \notin {<<0, "embed_tokens">>, <<0, "lm_head">>}}
ScratchNeeded(c) ==
  IF c.arch = "std" THEN Max({0} \cup {2 * t.k : t \in Prefilled(c)})
  ELSE Max({0} \cup {2 * Elems(t) : t \in Prefilled(c)})
================================================================================
