-------------------------------- MODULE MCForward -------------------------------
(* Instances of Forward for TLC: one model of each kind, small enough that *)
(* chunks, slabs, tiles and windows end inside a prompt.                   *)
EXTENDS Forward

CONSTANTS dense16, slabs, nibbles, packed4

Turn(mode, n, keep, rp) ==
  [mode |-> mode, n |-> n, keep |-> keep, media |-> "text", at |-> 0, rp |-> rp]
With(k, media, at) == [k EXCEPT !.media = media, !.at = at]

Base ==
  [arch |-> "std", codec |-> "half", lin |-> "f16", dense |-> "f16",
   hs |-> 4, heads |-> 2, kvh |-> 1, hd |-> 2, inter |-> 6, vocab |-> 8, seq |-> 6,
   types |-> <<"full", "full">>, shared |-> 0, gkvh |-> 1, ghd |-> 2, wide |-> FALSE,
   keqv |-> FALSE, ple |-> 0, bias |-> FALSE, tied |-> FALSE, window |-> 0,
   vision |-> NoTower, audio |-> NoTower]
Lens == [there |-> TRUE, h |-> 4, heads |-> 2, inter |-> 6, layers |-> 2, rows |-> 3,
         patch |-> 3, cls |-> TRUE, conv2 |-> FALSE, mid |-> 5]
Horn == [there |-> TRUE, h |-> 4, heads |-> 2, inter |-> 6, layers |-> 1, rows |-> 4,
         patch |-> 3, cls |-> FALSE, conv2 |-> TRUE, mid |-> 0, frames |-> 4]

(* dense16: fused linears, biases, a tower with a class row.  slabs:       *)
(* packed linears, a tied head, heads that no warp divides, a projector    *)
(* of one linear.  nibbles: 4                                              *)
(* bits, a shared sliding layer behind a full one without v_proj.          *)
(* packed4: gemma4 in blocks.                                              *)
Shop ==
  [m \in Models |->
     CASE m = dense16 -> [Base EXCEPT !.bias = TRUE, !.vision = Lens]
       [] m = slabs -> [Base EXCEPT !.codec = "gguf", !.lin = "block", !.dense = "f32",
            !.hd = 3, !.tied = TRUE, !.audio = Horn]
       [] m = nibbles -> [Base EXCEPT !.arch = "gemma4", !.lin = "nf4", !.dense = "bf16",
            !.tied = TRUE, !.types = <<"sliding", "full", "sliding">>, !.shared = 1,
            !.ghd = 4, !.wide = TRUE, !.keqv = TRUE, !.ple = 2, !.window = 2,
            !.vision = [there |-> TRUE, h |-> 4, heads |-> 2, inter |-> 6, layers |-> 1,
                        rows |-> 4, patch |-> 3, pool |-> 2, clip |-> TRUE, gw |-> 4,
                        gh |-> 2]]
       [] m = packed4 -> [Base EXCEPT !.arch = "gemma4", !.codec = "gguf", !.lin = "block",
            !.dense = "f32", !.tied = TRUE, !.types = <<"full", "sliding">>, !.window = 2,
            !.audio = [there |-> TRUE, h |-> 2, layers |-> 1, rows |-> 3, patch |-> 2,
                       pool |-> 2, conv |-> 3, clip |-> FALSE, frames |-> 10]]]

Asked1 ==
  [m \in Models |->
     CASE m = dense16 -> {Turn("greedy", 2, 3, 1), Turn("sample", 2, 2, 2), Turn("sample", 1, 4, 3),
                        Turn("embed", 5, 0, 1), Turn("argmax", 4, 0, 1),
                        With(Turn("logits", 5, 0, 1), "image", 2)}
       [] m = slabs -> {Turn("greedy", 4, 0, 1), Turn("logits", 2, 3, 1), Turn("embed", 2, 0, 1),
                        With(Turn("sample", 5, 0, 1), "clip", 1)}
       [] m = nibbles -> {Turn("greedy", 4, 0, 1), Turn("sample", 2, 0, 2),
                          With(Turn("argmax", 5, 0, 1), "image", 2)}
       [] m = packed4 -> {Turn("sample", 4, 0, 1), Turn("sample", 3, 0, 2), Turn("embed", 3, 0, 1),
                         With(Turn("greedy", 4, 0, 1), "clip", 0)}]

(* A clip of more frames than the tower has rows.                          *)
LongShop ==
  [m \in Models |-> [Base EXCEPT !.codec = "gguf", !.lin = "block", !.dense = "f32",
                       !.audio = [Horn EXCEPT !.frames = 6]]]
================================================================================
