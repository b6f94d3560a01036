------------------------- MODULE MC_ObjectCompiler -------------------------
(***************************************************************************)
(* Sources for the assembly stack: programs around one tag whose position *)
(* crosses the address-width boundaries of a four-valued byte, a backward *)
(* reference, a program referring to an undefined tag (a TypeError) and   *)
(* one that does not parse.  The optimiser removes bare opcodes.          *)
(***************************************************************************)
EXTENDS ObjectCompiler

Op == [k |-> "op"]
Push(v) == [k |-> "push", v |-> v]
PushTag(t) == [k |-> "pushtag", t |-> t]
Tag(t) == [k |-> "tag", t |-> t]

Programs ==
    { <<PushTag(1), Tag(1)>>,
      <<PushTag(1), Op, Tag(1)>>,
      <<PushTag(1), Push(20), PushTag(1), Push(20), Tag(1)>>,
      <<PushTag(1), PushTag(1), PushTag(1), PushTag(1), Push(20), Tag(1)>>,
      <<Push(20), Tag(1), Op, PushTag(1)>>,
      <<PushTag(2), Op, Tag(1)>> }

MCSources == {[parses |-> TRUE, code |-> c] : c \in Programs} \cup {[parses |-> FALSE, code |-> <<>>]}

MCOptimised(code) == SelectSeq(code, LAMBDA it : it.k # "op")
=============================================================================
