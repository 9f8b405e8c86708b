-------------------------------- MODULE MCStore --------------------------------
(* Instances of Store for TLC.                                             *)
EXTENDS Store

CONSTANT u1

File(name, kind, has, label, length, rank) ==
  [name |-> name, kind |-> kind, has |-> has, label |-> label,
   length |-> length, rank |-> rank]

Config == File("config.json", "config", {}, NoTag, 11, 3)

(* A checkpoint in two shards. *)
Sharded == <<Config, File("model-1.safetensors", "st", {}, NoTag, 19, 3),
             File("model-2.safetensors", "st", {}, NoTag, 19, 3)>>

(* Two quantizations, the tag of one within the other's, two projectors. *)
Quants == <<File("m-Q4_K.gguf", "gguf", {"Q4_K"}, "Q4_K", 11, 3),
            File("m-Q4_K_M.gguf", "gguf", {"Q4_K", "Q4_K_M"}, "Q4_K_M", 13, 3),
            File("mmproj-BF16.gguf", "mmproj", {}, NoTag, 16, 1),
            File("mmproj-F16.gguf", "mmproj", {}, NoTag, 15, 0)>>

(* A single quantization and no config.json. *)
Lone == <<File("m-Q4_K_M.gguf", "gguf", {"Q4_K", "Q4_K_M"}, "Q4_K_M", 13, 3)>>

(* The other quantization and a projector that rides along with any tag. *)
Missing == <<File("m-Q4_K.gguf", "gguf", {"Q4_K"}, "Q4_K", 11, 3),
             File("mmproj-F16.gguf", "mmproj", {}, NoTag, 15, 0)>>

AllKinds == {Sharded, Quants, Lone, Missing}
QuantTags == {"Q4_K", "Q4_K_M"}
OneModel == <<"Q4_K_M">>
PullCommands == {<<NoTag, NoTag>>, <<"Q4_K", NoTag>>, <<NoTag, "Q4_K_M">>}
================================================================================
