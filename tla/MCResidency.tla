------------------------------ MODULE MCResidency ------------------------------
(* Instances of Residency for TLC: small widths, one model of each kind.   *)
EXTENDS Residency

CONSTANTS dense, packed, sighted, halves, mute

Base ==
  [arch |-> "std", codec |-> "half", lin |-> "f16", dense |-> "f16",
   hs |-> 32, heads |-> 2, kvh |-> 1, hd |-> 16, inter |-> 64, vocab |-> 64, seq |-> 8,
   types |-> <<"full", "full">>, shared |-> 0, gkvh |-> 1, ghd |-> 16, wide |-> FALSE,
   keqv |-> FALSE, ple |-> 0, bias |-> FALSE, tied |-> FALSE,
   vision |-> NoTower, audio |-> NoTower,
   opens |-> TRUE, words |-> TRUE, lacks |-> {}]

Eyes == [there |-> TRUE, h |-> 32, inter |-> 64, layers |-> 1, rows |-> 4, patch |-> 32,
         pool |-> 2, heads |-> 2, cls |-> TRUE, conv2 |-> FALSE, mid |-> 64]
Ears == [there |-> TRUE, h |-> 32, layers |-> 1, rows |-> 3, patch |-> 3, pool |-> 2,
         conv |-> 32]

Gemma == [Base EXCEPT !.arch = "gemma4", !.tied = TRUE, !.ghd = 32, !.ple = 32,
          !.types = <<"sliding", "full", "sliding", "full">>, !.shared = 2,
          !.wide = TRUE, !.keqv = TRUE]

(* dense: a f16 model whose linears are fused, with a tower.  mute: bf16,   *)
(* tied, no tokenizer to be had.                                           *)
(* packed: blocks, wider than the rest, biases.  sighted: gemma4 blocks    *)
(* with an unfinished projector file.  halves: gemma4 in 4 bits and bf16.  *)
Shop ==
  [m \in Models |->
     CASE m = dense -> [Base EXCEPT !.vision = Eyes]
       [] m = mute -> [Base EXCEPT !.tied = TRUE, !.lin = "bf16", !.words = FALSE]
       [] m = packed -> [Base EXCEPT !.codec = "gguf", !.lin = "block", !.dense = "f32",
                         !.inter = 96, !.bias = TRUE]
       [] m = sighted -> [Gemma EXCEPT !.codec = "gguf", !.lin = "block", !.dense = "f32",
                       !.vision = Eyes, !.audio = Ears, !.lacks = {<<2, <<1, "up">>>>}]
       [] m = halves -> [Gemma EXCEPT !.lin = "nf4", !.dense = "bf16", !.vision = Eyes,
                         !.audio = [Ears EXCEPT !.there = FALSE]]]

(* What the theorems about Residency ask of a card holds of these.         *)
ASSUME ShopAssumption == Card = Shop => \A m \in Models : Covers(m) /\ Serves(m)

(* A forecast covers each model, none beside a greedy neighbour.           *)
Neighbours == {0, 90000, 124000}

(* One f16 layer dominates: its fused copies are the peak.                 *)
Fat == [m \in Models |-> [Base EXCEPT !.inter = 512]]
Alone == {0}
================================================================================
