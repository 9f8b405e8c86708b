-------------------------------- MODULE MCSession --------------------------------
(* Instances of Session for TLC.                                           *)
EXTENDS Session, TLC

PromptsUpTo(n) == UNION {[1 .. k -> Tokens] : k \in 1 .. n}

(* All prompts of up to four tokens and two that do not fit the cache.     *)
MixedPrompts == PromptsUpTo(4) \cup {<<1, 2, 1, 2, 1>>, <<2, 2, 1, 1, 2>>}

ShortPrompts == PromptsUpTo(4)
================================================================================
