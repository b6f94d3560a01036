---------------------------- MODULE MC_FullInliner ----------------------------
(***************************************************************************)
(* Model-checking instance of FullInliner: every program whose top-level   *)
(* block makes one or two direct calls and whose functions have at most    *)
(* MaxStmts statements, each a direct call with or without a literal       *)
(* argument, a call nested in a larger expression, or other work of a size *)
(* in OtherSizes.  Statements of other work are labelled by position.      *)
(* Every call has one argument, an identifier or a literal, as the         *)
(* ExpressionSplitter leaves them.  MCUnsplitProgram is the same programs  *)
(* with a top-level call whose two arguments are calls with side effects.  *)
(***************************************************************************)
EXTENDS FullInliner

CONSTANTS MaxStmts, CallSize, OtherSizes

DirectCalls == [callee: Funs, direct: {TRUE}, const: BOOLEAN, args: {<<0>>}, size: {CallSize}, label: {0}]

FunStmts ==
    DirectCalls
    \cup [callee: Funs, direct: {FALSE}, const: {FALSE}, args: {<<0>>}, size: {CallSize}, label: {0}]
    \cup [callee: {0}, direct: {FALSE}, const: {FALSE}, args: {<<>>}, size: OtherSizes, label: {1}]

TopBodies == UNION {[1..n -> DirectCalls] : n \in 1..MaxStmts}
FunBodies == UNION {[1..n -> FunStmts] : n \in 0..MaxStmts}

\* Give every statement of other work a label of its own.
Labelled(b, seq) ==
    [i \in DOMAIN seq |-> [seq[i] EXCEPT !.label = IF @ = 0 THEN 0 ELSE b * MaxStmts + i]]

MCInitialProgram(prog) ==
    \E t \in TopBodies, fs \in [Funs -> FunBodies] :
        prog = [b \in Blocks |-> IF b = Top THEN t ELSE Labelled(b, fs[b])]

\* f(sload(x), call(...)) at the top level: two arguments with effects,
\* labelled apart from all other work.
UnsplitCall(f) ==
    [callee |-> f, direct |-> TRUE, const |-> FALSE, args |-> <<100, 101>>, size |-> CallSize, label |-> 0]

MCUnsplitProgram(prog) ==
    \E f \in Funs, fs \in [Funs -> FunBodies] :
        prog = [b \in Blocks |-> IF b = Top THEN <<UnsplitCall(f)>> ELSE Labelled(b, fs[b])]

=============================================================================
