--------------------------------- MODULE Names ---------------------------------
(* Tensor names.  formats.rs rewrites the names of a GGUF file, and of the *)
(* projector file beside it, into the Hugging Face names that the builders *)
(* of gemma4 and transformer.rs ask for; the two sides know nothing of     *)
(* each other but these strings.  A name is <<part, layer, stem, suffix>>, *)
(* with layer Top for a tensor outside the blocks.                         *)
EXTENDS Naturals

CONSTANTS
  Layers,   \* the numbers of the blocks
  Top       \* no block

ASSUME NamesAssumption == Top \notin Layers

IsName(n) == n = <<n[1], n[2], n[3], n[4]>>
Beside(n, suffix) == <<n[1], n[2], n[3], suffix>>

Stats == {"input_min", "input_max", "output_min", "output_max"}

(* What a table leaves out passes through verbatim.  The tables of the     *)
(* code list whole tails; those here list stems, and no file carries a     *)
(* listed stem under a suffix that the code does not list.                 *)
Keys(table) == {p[1] : p \in table}
Renamed(table, stem) ==
  IF stem \in Keys(table) THEN (CHOOSE p \in table : p[1] = stem)[2] ELSE stem
--------------------------------------------------------------------------------
(* The text model.                                                         *)

TextStems ==
  {<<"attn_q", "self_attn.q_proj">>, <<"attn_k", "self_attn.k_proj">>,
   <<"attn_v", "self_attn.v_proj">>, <<"attn_output", "self_attn.o_proj">>,
   <<"attn_norm", "input_layernorm">>, <<"ffn_norm", "post_attention_layernorm">>,
   <<"ffn_gate", "mlp.gate_proj">>, <<"ffn_up", "mlp.up_proj">>,
   <<"ffn_down", "mlp.down_proj">>}

TextTops ==
  {<<"token_embd", "embed_tokens">>, <<"output_norm", "norm">>,
   <<"output", "lm_head">>}

translate_name(n) ==
  <<"model", n[2], IF n[2] = Top THEN Renamed(TextTops, n[3]) ELSE Renamed(TextStems, n[3]), n[4]>>

Gemma4Stems ==
  {<<"ffn_norm", "pre_feedforward_layernorm">>,
   <<"attn_q_norm", "self_attn.q_norm">>, <<"attn_k_norm", "self_attn.k_norm">>,
   <<"post_attention_norm", "post_attention_layernorm">>,
   <<"post_ffw_norm", "post_feedforward_layernorm">>,
   <<"post_norm", "post_per_layer_input_norm">>,
   <<"inp_gate", "per_layer_input_gate">>, <<"proj", "per_layer_projection">>}
  \cup {p \in TextStems : p[1] # "ffn_norm"}

Gemma4Tops ==
  {<<"per_layer_token_embd", "embed_tokens_per_layer">>,
   <<"per_layer_model_proj", "per_layer_model_projection">>,
   <<"per_layer_proj_norm", "per_layer_projection_norm">>,
   <<"rope_freqs", "rope_freqs">>} \cup TextTops

translate_gemma4(n) ==
  <<"language_model", n[2], IF n[2] = Top THEN Renamed(Gemma4Tops, n[3]) ELSE Renamed(Gemma4Stems, n[3]), n[4]>>
--------------------------------------------------------------------------------
(* The towers.  A weight and its four clip bounds go through two tables,   *)
(* one for the stems of the bounds and one for whole tails.                *)

VisionStatStems ==
  {<<"attn_q", "self_attn.q_proj">>, <<"attn_k", "self_attn.k_proj">>,
   <<"attn_v", "self_attn.v_proj">>, <<"attn_out", "self_attn.o_proj">>,
   <<"ffn_gate", "mlp.gate_proj">>, <<"ffn_up", "mlp.up_proj">>,
   <<"ffn_down", "mlp.down_proj">>}

VisionTails ==
  {<<"attn_q", "self_attn.q_proj">>, <<"attn_k", "self_attn.k_proj">>,
   <<"attn_v", "self_attn.v_proj">>, <<"attn_out", "self_attn.o_proj">>,
   <<"attn_q_norm", "self_attn.q_norm">>, <<"attn_k_norm", "self_attn.k_norm">>,
   <<"ln1", "input_layernorm">>, <<"attn_norm", "input_layernorm">>,
   <<"attn_post_norm", "post_attention_layernorm">>,
   <<"post_attention_norm", "post_attention_layernorm">>,
   <<"ln2", "pre_feedforward_layernorm">>,
   <<"ffn_norm", "pre_feedforward_layernorm">>,
   <<"ffn_post_norm", "post_feedforward_layernorm">>,
   <<"post_ffw_norm", "post_feedforward_layernorm">>,
   <<"ffn_gate", "mlp.gate_proj">>, <<"ffn_up", "mlp.up_proj">>,
   <<"ffn_down", "mlp.down_proj">>}

\* A slip: the bound of the second feed forward beside the first's weight.
AudioStatStemsStray ==
  {<<"ffn_up_1", "feed_forward1.ffw_layer_1">>}

AudioStatStems ==
  {<<"ffn_up", "feed_forward1.ffw_layer_1">>,
   <<"ffn_down", "feed_forward1.ffw_layer_2">>,
   <<"ffn_up_1", "feed_forward2.ffw_layer_1">>,
   <<"ffn_down_1", "feed_forward2.ffw_layer_2">>, <<"attn_q", "self_attn.q_proj">>,
   <<"attn_k", "self_attn.k_proj">>, <<"attn_v", "self_attn.v_proj">>,
   <<"attn_out", "self_attn.post">>, <<"attn_k_rel", "self_attn.relative_k_proj">>,
   <<"conv_pw1", "lconv1d.linear_start">>, <<"conv_pw2", "lconv1d.linear_end">>,
   <<"conv_dw", "lconv1d.depthwise_conv1d">>}

AudioTails ==
  {<<"ffn_norm", "feed_forward1.pre_layer_norm">>,
   <<"ffn_up", "feed_forward1.ffw_layer_1">>,
   <<"ffn_down", "feed_forward1.ffw_layer_2">>,
   <<"ffn_post_norm", "feed_forward1.post_layer_norm">>,
   <<"ffn_norm_1", "feed_forward2.pre_layer_norm">>,
   <<"ffn_up_1", "feed_forward2.ffw_layer_1">>,
   <<"ffn_down_1", "feed_forward2.ffw_layer_2">>,
   <<"ffn_post_norm_1", "feed_forward2.post_layer_norm">>,
   <<"norm_conv", "lconv1d.conv_norm">>, <<"conv_norm", "lconv1d.pre_layer_norm">>,
   <<"attn_pre_norm", "norm_pre_attn">>, <<"attn_post_norm", "norm_post_attn">>,
   <<"attn_q", "self_attn.q_proj">>, <<"attn_k", "self_attn.k_proj">>,
   <<"attn_v", "self_attn.v_proj">>, <<"attn_out", "self_attn.post">>,
   <<"attn_k_rel", "self_attn.relative_k_proj">>,
   <<"conv_pw1", "lconv1d.linear_start">>,
   <<"conv_dw", "lconv1d.depthwise_conv1d">>, <<"conv_pw2", "lconv1d.linear_end">>,
   <<"ln2", "norm_out">>}

(* Whole names: projections, patch embedder, subsampler.                   *)
TowerTops ==
  {<<<<"mm", "input_projection">>, <<"embed_vision", "embedding_projection">>>>,
   <<<<"mm", "vision.input_projection">>, <<"embed_vision", "embedding_projection">>>>,
   <<<<"mm", "audio.input_projection">>, <<"embed_audio", "embedding_projection">>>>,
   <<<<"mm", "a.input_projection">>, <<"embed_audio", "embedding_projection">>>>,
   <<<<"v", "patch_embd">>, <<"vision_tower", "patch_embedder.input_proj">>>>,
   <<<<"a", "conv1d.0">>, <<"audio_tower", "subsample_conv_projection.layer0.conv">>>>,
   <<<<"a", "conv1d.0.norm">>, <<"audio_tower", "subsample_conv_projection.layer0.norm">>>>,
   <<<<"a", "conv1d.1">>, <<"audio_tower", "subsample_conv_projection.layer1.conv">>>>,
   <<<<"a", "conv1d.1.norm">>, <<"audio_tower", "subsample_conv_projection.layer1.norm">>>>,
   <<<<"a", "input_projection">>, <<"audio_tower", "subsample_conv_projection.input_proj_linear">>>>,
   <<<<"a", "pre_encode.out">>, <<"audio_tower", "output_proj">>>>}

Towers ==
  {<<"v", "vision_tower">>, <<"a", "audio_tower">>}

VisionBlock(n) ==
  <<"vision_tower", n[2], Renamed(IF n[4] \in Stats THEN VisionStatStems ELSE VisionTails, n[3]), n[4]>>

AudioBlock(n) ==
  IF n[3] = "per_dim_scale" THEN <<"audio_tower", n[2], "self_attn.per_dim_scale", "">>
  ELSE <<"audio_tower", n[2], Renamed(IF n[4] \in Stats THEN AudioStatStems ELSE AudioTails, n[3]), n[4]>>

(* Names that are Hugging Face names already pass, and so does the rest.   *)
translate_mmproj(n) ==
  LET top == <<n[1], n[3]>> IN
  IF n[2] # Top
  THEN CASE n[1] = "v" -> VisionBlock(n)
         [] n[1] = "a" -> AudioBlock(n)
         [] OTHER -> n
  ELSE IF top = <<"v", "position_embd">>
  THEN <<"vision_tower", Top, "patch_embedder.position_embedding_table", "">>
  ELSE IF top \in Keys(TowerTops) /\ n[4] \notin Stats
  THEN LET to == Renamed(TowerTops, top) IN <<to[1], Top, to[2], n[4]>>
  ELSE IF n[1] \in Keys(Towers) THEN <<Renamed(Towers, n[1]), Top, n[3], n[4]>>
  ELSE n
--------------------------------------------------------------------------------
(* What the builders ask for.                                              *)

Of(part, layers, stems, suffixes) ==
  {<<part, l, s, x>> : l \in layers, s \in stems, x \in suffixes}

Gemma4Layer(l, Shared) ==
  {"input_layernorm", "post_attention_layernorm", "pre_feedforward_layernorm",
   "post_feedforward_layernorm", "self_attn.q_proj", "self_attn.q_norm",
   "self_attn.o_proj", "mlp.gate_proj", "mlp.up_proj", "mlp.down_proj",
   "per_layer_input_gate", "per_layer_projection", "post_per_layer_input_norm"}
  \cup (IF l \in Shared THEN {} ELSE {"self_attn.k_proj", "self_attn.v_proj", "self_attn.k_norm"})

Gemma4Asks(Shared) ==
  (UNION {Of("language_model", {l}, Gemma4Layer(l, Shared), {"weight"}) : l \in Layers})
  \cup Of("language_model", {Top}, {"embed_tokens", "norm", "embed_tokens_per_layer",
          "per_layer_model_projection", "per_layer_projection_norm"}, {"weight"})

StdAsks ==
  Of("model", Layers, {"self_attn.q_proj", "self_attn.k_proj", "self_attn.v_proj",
     "self_attn.o_proj", "mlp.gate_proj", "mlp.up_proj", "mlp.down_proj",
     "input_layernorm", "post_attention_layernorm"}, {"weight"})
  \cup Of("model", {Top}, {"embed_tokens", "norm"}, {"weight"})

(* upload_clip: the linears that may come with clip bounds.                *)
VisionClips == {"self_attn.q_proj", "self_attn.k_proj", "self_attn.v_proj",
                "self_attn.o_proj", "mlp.gate_proj", "mlp.up_proj", "mlp.down_proj"}
AudioClips == {"feed_forward1.ffw_layer_1", "feed_forward1.ffw_layer_2",
               "feed_forward2.ffw_layer_1", "feed_forward2.ffw_layer_2",
               "self_attn.q_proj", "self_attn.k_proj", "self_attn.v_proj",
               "self_attn.post", "lconv1d.linear_start", "lconv1d.linear_end"}

VisionAsks ==
  Of("vision_tower", Layers, VisionClips \cup {"input_layernorm", "post_attention_layernorm",
     "pre_feedforward_layernorm", "post_feedforward_layernorm", "self_attn.q_norm",
     "self_attn.k_norm"}, {"weight"})
  \cup {<<"vision_tower", Top, "patch_embedder.input_proj", "weight">>,
        <<"vision_tower", Top, "patch_embedder.position_embedding_table", "">>,
        <<"embed_vision", Top, "embedding_projection", "weight">>}

AudioAsks ==
  Of("audio_tower", Layers, AudioClips \cup {"feed_forward1.pre_layer_norm",
     "feed_forward1.post_layer_norm", "feed_forward2.pre_layer_norm",
     "feed_forward2.post_layer_norm", "norm_pre_attn", "norm_post_attn",
     "self_attn.relative_k_proj", "lconv1d.pre_layer_norm", "lconv1d.depthwise_conv1d",
     "lconv1d.conv_norm", "norm_out"}, {"weight"})
  \cup Of("audio_tower", Layers, {"self_attn.per_dim_scale"}, {""})
  \cup Of("audio_tower", {Top}, {"subsample_conv_projection.layer0.conv",
     "subsample_conv_projection.layer0.norm", "subsample_conv_projection.layer1.conv",
     "subsample_conv_projection.layer1.norm", "subsample_conv_projection.input_proj_linear",
     "output_proj"}, {"weight"})
  \cup {<<"audio_tower", Top, "output_proj", "bias">>,
        <<"embed_audio", Top, "embedding_projection", "weight">>}

(* The bounds a clipped linear looks for beside its weight.                *)
BoundsAsked ==
  Of("vision_tower", Layers, VisionClips, Stats) \cup Of("audio_tower", Layers, AudioClips, Stats)
--------------------------------------------------------------------------------
(* What a converter writes for a whole model: every stem that the tables   *)
(* know, under one of its names.                                           *)

TextExport(stems, tops) == Of("blk", Layers, Keys(stems), {"weight"})
                             \cup Of("lm", {Top}, Keys(tops), {"weight"})
TowerExport ==
  Of("v", Layers, Keys(VisionTails) \ {"attn_norm", "post_attention_norm", "ffn_norm", "post_ffw_norm"}, {"weight"})
  \cup Of("v", Layers, Keys(VisionStatStems), Stats)
  \cup Of("a", Layers, Keys(AudioTails), {"weight"})
  \cup Of("a", Layers, {"attn_q", "conv_pw1", "ffn_up"}, {"bias"})
  \cup Of("a", Layers, Keys(AudioStatStems), Stats)
  \cup Of("a", Layers, {"per_dim_scale"}, {"weight"})
  \cup Of("a", {Top}, {"conv1d.0", "conv1d.0.norm", "conv1d.1", "conv1d.1.norm",
                       "input_projection", "pre_encode.out"}, {"weight"})
  \cup {<<"a", Top, "pre_encode.out", "bias">>, <<"v", Top, "patch_embd", "weight">>,
        <<"v", Top, "position_embd", "weight">>, <<"mm", Top, "input_projection", "weight">>,
        <<"mm", Top, "a.input_projection", "weight">>}
================================================================================
