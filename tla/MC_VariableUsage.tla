-------------------------- MODULE MC_VariableUsage --------------------------
(***************************************************************************)
(* Model-checking instance of VariableUsage: three functions and one      *)
(* modifier.  Function 1 holds a loop, the node the SMT checker asks      *)
(* about, and may carry the modifier; functions 2 and 3 call each other,  *)
(* function 1 or nothing, assign or read a variable; function 2 may be     *)
(* unimplemented and may carry the modifier, whose body calls, assigns or *)
(* does nothing around its placeholder.  The queries are the loop of      *)
(* function 1 and the modifier's body, both with function 1 as outer call  *)
(* stack, and function 1 itself with an empty one.                         *)
(***************************************************************************)
EXTENDS VariableUsage

Assign(v) == [k |-> "assign", v |-> v]
Read(v) == [k |-> "read", v |-> v]
Call(f) == [k |-> "call", f |-> f]
Loop(b) == [k |-> "loop", body |-> b]
Placeholder == [k |-> "placeholder"]

LoopItems == {Assign(1), Call(2), Call(3), Call(1)}
OtherItems == {Assign(2), Read(2), Call(1), Call(3), Call(2), Assign(3)}
ModBodies == {<<Placeholder>>, <<Call(2), Placeholder>>, <<Placeholder, Assign(1)>>,
              <<Call(3), Placeholder, Placeholder>>}

Programs ==
    {[mods |-> (1 :> m1) @@ (2 :> m2) @@ (3 :> <<>>),
      impl |-> (1 :> TRUE) @@ (2 :> i2) @@ (3 :> TRUE),
      body |-> (1 :> <<Loop(<<x>>), y>>) @@ (2 :> IF i2 THEN <<b2>> ELSE <<>>) @@ (3 :> <<b3>>),
      modBody |-> 1 :> mb]
     : m1 \in {<<>>, <<1>>}, m2 \in {<<>>, <<1>>}, i2 \in BOOLEAN,
       x \in LoopItems, y \in {Read(1), Assign(3)}, b2 \in OtherItems \ {Call(2)},
       b3 \in {Assign(3), Call(2), Call(1)}, mb \in ModBodies}

Queries(p) ==
    {[prog |-> p, outer |-> <<1>>, node |-> <<[t |-> "item", x |-> p.body[1][1]]>>],
     [prog |-> p, outer |-> <<>>, node |-> <<[t |-> "function", x |-> 1]>>]}
    \cup IF p.mods[1] = <<>> THEN {}
         ELSE {[prog |-> p, outer |-> <<1>>, node |-> Accept(p.modBody[1])]}

MCInitialQuery(q) == \E p \in Programs : q \in Queries(p)

=============================================================================
