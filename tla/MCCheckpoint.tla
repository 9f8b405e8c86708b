------------------------------ MODULE MCCheckpoint ------------------------------
(* Instances of Checkpoint for TLC.                                        *)
EXTENDS Checkpoint

GgufFile(fields, align, tensors, len) ==
  [magic |-> TRUE, fields |-> fields, align |-> align, tensors |-> tensors, len |-> len]

Tensor(name, dtype, shape, off) ==
  [name |-> name, dtype |-> dtype, shape |-> shape, off |-> off, end |-> off]
Span(name, shape, off, end) ==
  [name |-> name, dtype |-> "F16", shape |-> shape, off |-> off, end |-> end]

Gguf(files, parts, mmproj, arch) ==
  [kind |-> "gguf", files |-> files, parts |-> parts, index |-> <<>>,
   mmproj |-> mmproj, arch |-> arch]

Q(l) == <<"blk", l, "attn_q", "weight">>
K(l) == <<"blk", l, "attn_k", "weight">>

(* One file: headers shorter and longer than the windows, shapes with and  *)
(* without whole rows, offsets inside and outside the file.                *)
Headers == {<<2, 1>>, <<3, 3>>, <<5, 6>>}
Single ==
  {Gguf("m" :> GgufFile(h, a, {Tensor(Q(0), d, s, o), Tensor(K(0), "F16", <<1>>, p)}, len),
        <<"m">>, NoFile, "llama") :
     h \in Headers, a \in {2, 4}, d \in {"F16", "Q4", NoCodec}, s \in {<<2, 2>>, <<1, 4>>, <<3>>, <<>>},
     o \in {0, 4}, p \in {0, 5}, len \in {9, 12, 22}}

(* Two parts; in one of them both carry the same tensor.                   *)
Split ==
  {Gguf("p1" :> GgufFile(<<2, 1>>, 2, {Tensor(Q(0), "Q4", <<1, 4>>, 0)}, 8)
        @@ "p2" :> GgufFile(<<2>>, 2, {Tensor(Q(l), "F16", <<2>>, 0)}, 6),
        <<"p1", "p2">>, NoFile, "llama") : l \in Layers}

(* Shards: spans that touch, overlap, nest, are empty, lie out of bounds.  *)
Shard(ss, len) == [magic |-> TRUE, fields |-> <<1, 2>>, align |-> 1, tensors |-> ss, len |-> len]
A == <<"model", 0, "a", "weight">>
B == <<"model", 0, "b", "weight">>
C == <<"model", 0, "c", "weight">>
Pairs == {<<0, 2>>, <<0, 4>>, <<2, 4>>, <<2, 6>>, <<4, 6>>, <<2, 2>>}
ShapeOf(p) == <<(p[2] - p[1]) \div 2>>
St(files, parts, index) ==
  [kind |-> "st", files |-> files, parts |-> parts, index |-> index,
   mmproj |-> NoFile, arch |-> "llama"]
OneShard ==
  {St("model.safetensors" :>
        Shard({Span(A, ShapeOf(p), p[1], p[2]), Span(B, ShapeOf(q), q[1], q[2]),
                Span(C, ShapeOf(r), r[1], r[2])}, 9), <<"model.safetensors">>, <<>>) :
     p \in Pairs, q \in Pairs, r \in Pairs}
TwoShards ==
  {St("s1" :> Shard({Span(A, <<1>>, 0, 2)}, 5) @@ "s2" :> Shard({Span(n, <<1>>, 0, 2)}, 5),
      <<"s1", "s2">>, index) : n \in {A, B}, index \in {<<>>, <<"s1", "s2">>}}

(* Complete exports.                                                       *)
Whole(names) ==
  GgufFile(<<1>>, 1, {Tensor(n, "F16", <<1>>, 0) : n \in names}, 3)
Exports ==
  {Gguf("m" :> Whole(TextExport(Gemma4Stems, Gemma4Tops)) @@ "mmproj" :> Whole(TowerExport),
        <<"m">>, "mmproj", "gemma4"),
   Gguf("m" :> Whole(TextExport(TextStems, TextTops)), <<"m">>, NoFile, "qwen2"),
   \* a projector of which one name is in the main file already
   Gguf("m" :> Whole(TextExport(Gemma4Stems, Gemma4Tops) \cup {<<"vision_tower", Top, "std_bias", "">>})
        @@ "mmproj" :> GgufFile(<<1>>, 1, {Tensor(<<"language_model", 0, "mlp.up_proj", "weight">>, "F16", <<1>>, 1)}, 4),
        <<"m">>, "mmproj", "gemma4")}

AllRepos == Single \cup Split \cup OneShard \cup TwoShards \cup Exports
TwoLayers == {0, 1}
================================================================================
