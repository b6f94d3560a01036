----------------------------- MODULE FullInliner -----------------------------
(***************************************************************************)
(* One run of the Yul full inliner (libyul/optimiser/FullInliner.cpp) on   *)
(* an AST after FunctionHoister and FunctionGrouper: one top-level block   *)
(* Top and the function definitions Funs, numbered in the order of their   *)
(* names, which is the order of the std::map m_functions.                  *)
(*                                                                         *)
(* A body is a sequence of statements.  A statement either calls a        *)
(* function (callee # 0) or does other work (callee = 0).  A call is       *)
(* "direct" when it is the whole value of an expression statement, an     *)
(* assignment or a declaration: the only calls tryInlineStatement         *)
(* inlines.  "const" says that an argument is a literal; "args" are the   *)
(* effects of the arguments, in the order written: 0 for an identifier or  *)
(* a literal, else the label of the side effect the argument has (a call  *)
(* of a builtin such as sload or call).  Every statement                   *)
(* carries the code size it contributes; every statement of other work    *)
(* carries a label naming it in the original program.  The bindings that  *)
(* performInline adds (parameters, return variables, results) are glue:   *)
(* statements of size GlueSize and label 0.  Variable names, and thus the  *)
(* renaming done by BodyCopier, are abstracted away.                       *)
(***************************************************************************)
EXTENDS Naturals, Sequences, FiniteSets, SequencesExt, Relation

CONSTANTS
    Funs,             \* the functions, 1..K in name order
    GlueSize,         \* code size of the bindings performInline adds
    MaxBody,          \* bound on the length of a body the model represents
    InitialProgram(_) \* InitialProgram(b): b is a program the run may get

Top == 0
Blocks == {Top} \cup Funs

Stmt == [callee: {0} \cup Funs, direct: BOOLEAN, const: BOOLEAN,
         args: Seq(Nat), size: Nat, label: Nat]

\* The size thresholds of shallInline (FullInliner.cpp:114).
SmallSize == 10
ConstantBonusSize == 50

VARIABLES
    body,           \* the statements of every block
    alwaysInline,   \* m_alwaysInline
    functionSizes,  \* m_functionSizes
    current,        \* the block handleBlock is processing
    pos,            \* the statement of that block iterateReplacing visits next
    phase,          \* "ctor", "run", "done", or "exhausted" (MaxBody reached)
    inlineCount,    \* auxiliary: how often each function was inlined
    start           \* auxiliary: the program the run started from

vars == <<body, alwaysInline, functionSizes, current, pos, phase,
          inlineCount, start>>

(***************************************************************************)
(* Metrics the constructor computes.                                       *)
(***************************************************************************)
\* CodeSize::codeSize of a block.
CodeSize(seq) == FoldLeft(LAMBDA acc, st : acc + st.size, 0, seq)

\* ReferencesCounter::countReferences(m_ast)[f]: the calls of f anywhere.
ReferencesIn(prog, f) ==
    Cardinality({<<b, i>> \in Blocks \X (1..MaxBody) :
                    i \in DOMAIN prog[b] /\ prog[b][i].callee = f})

References(f) == ReferencesIn(body, f)

(***************************************************************************)
(* The behaviour of a block: the labels of the work it does, in order,     *)
(* with every call expanded into the effects of its arguments, evaluated   *)
(* from right to left (yulInterpreter/Interpreter.h:175), and then the     *)
(* behaviour of its callee.  Defined for programs whose call graph has no *)
(* cycle; Depth bounds the expansion.                                      *)
(***************************************************************************)
CallGraph(prog) ==
    [pair \in Funs \X Funs |->
        \E i \in DOMAIN prog[pair[1]] : prog[pair[1]][i].callee = pair[2]]

Recursive(prog) == \E f \in Funs : TransitiveClosure(CallGraph(prog), Funs)[f, f]

RECURSIVE Behaviour(_, _, _)
Behaviour(prog, seq, depth) ==
    IF seq = <<>> \/ depth = 0 THEN <<>>
    ELSE LET st == Head(seq)
             here == IF st.callee # 0
                     THEN SelectSeq(Reverse(st.args), LAMBDA a : a # 0) \o Behaviour(prog, prog[st.callee], depth - 1)
                     ELSE IF st.label # 0 THEN <<st.label>> ELSE <<>>
         IN  here \o Behaviour(prog, Tail(seq), depth)

BlockBehaviour(prog, b) == Behaviour(prog, prog[b], Cardinality(Funs) + 1)


(***************************************************************************)
(* The decision and the rewrite.                                           *)
(***************************************************************************)
\* FullInliner::shallInline(call, callSite), with the callee's size as the
\* driver records it.
shallInline(st, callSite) ==
    /\ st.callee # callSite
    /\ \/ st.callee \in alwaysInline
       \/ functionSizes[st.callee] < SmallSize
       \/ st.const /\ functionSizes[st.callee] < ConstantBonusSize

\* The same thresholds applied to the callee's actual size.
WithinThresholds(st) ==
    \/ CodeSize(body[st.callee]) < SmallSize
    \/ st.const /\ CodeSize(body[st.callee]) < ConstantBonusSize

Glue == [callee |-> 0, direct |-> FALSE, const |-> FALSE, args |-> <<>>, size |-> GlueSize, label |-> 0]

\* newVariable(parameter i, argument i): "let p_i := a_i", which has the
\* argument's effect.  The bindings of arguments without effect are part of
\* the glue.
Binding(a) == [Glue EXCEPT !.label = a]

\* InlineModifier::performInline: the parameters declared and bound to the
\* arguments in the order written, the return variables declared, a copy of
\* the callee's body, then the assignment of the results to the original
\* targets.
performInline(st) ==
    LET effects == SelectSeq(st.args, LAMBDA a : a # 0)
    IN  [i \in DOMAIN effects |-> Binding(effects[i])] \o <<Glue>> \o body[st.callee] \o <<Glue>>

\* The statement iterateReplacing visits now, and whether it is a direct
\* call (tryInlineStatement).
Visited == body[current][pos]

(***************************************************************************)
(* Actions.                                                                *)
(***************************************************************************)
\* iterateReplacing: the block with the statement at i replaced by ins.
SplicedDropsNext(i, ins) ==
    SubSeq(body[current], 1, i - 1) \o ins \o SubSeq(body[current], i + 2, Len(body[current]))
Spliced(i, ins) ==
    SubSeq(body[current], 1, i - 1) \o ins \o SubSeq(body[current], i + 1, Len(body[current]))

\* iterateReplacing: the next statement visited after a replacement by ins
\* is the one after the inserted statements.
ResumeAfterSkipsNext(ins) == pos + Len(ins) + 1
ResumeAfterRevisits(ins) == pos
ResumeAfter(ins) == pos + Len(ins)

\* The constructor's m_alwaysInline (FullInliner.cpp:60).
AlwaysInlineCalled == {f \in Funs : References(f) >= 1}
AlwaysInline == {f \in Funs : References(f) = 1}

\* FullInliner::updateCodeSize.
updateCodeSizeMissing(f) == functionSizes
updateCodeSize(f) == [functionSizes EXCEPT ![f] = CodeSize(body[f])]

(***************************************************************************)
(* Actions.                                                                *)
(***************************************************************************)
\* The constructor: call counts and sizes, computed once.
Construct ==
    /\ phase = "ctor"
    /\ alwaysInline' = AlwaysInline
    /\ functionSizes' = [f \in Funs |-> CodeSize(body[f])]
    /\ current' = Top
    /\ pos' = 1
    /\ phase' = "run"
    /\ UNCHANGED <<body, inlineCount, start>>

\* tryInlineStatement replaces the visited call by its expansion;
\* iterateReplacing continues after the inserted statements.
Inline ==
    /\ phase = "run"
    /\ pos <= Len(body[current])
    /\ Visited.direct
    /\ shallInline(Visited, current)
    /\ LET ins == performInline(Visited)
       IN  IF Len(Spliced(pos, ins)) > MaxBody
           THEN /\ phase' = "exhausted"
                /\ UNCHANGED <<body, pos, inlineCount>>
           ELSE /\ body' = [body EXCEPT ![current] = Spliced(pos, ins)]
                /\ pos' = ResumeAfter(ins)
                /\ inlineCount' = [inlineCount EXCEPT ![Visited.callee] = @ + 1]
                /\ UNCHANGED phase
    /\ UNCHANGED <<alwaysInline, functionSizes, current, start>>

\* tryInlineStatement returns nothing: the statement stays.
Keep ==
    /\ phase = "run"
    /\ pos <= Len(body[current])
    /\ ~(Visited.direct /\ shallInline(Visited, current))
    /\ pos' = pos + 1
    /\ UNCHANGED <<body, alwaysInline, functionSizes, current, phase, inlineCount, start>>

\* FullInliner::run: the top-level block first, then the functions in
\* name order, each followed by updateCodeSize.
NextBlock ==
    /\ phase = "run"
    /\ pos > Len(body[current])
    /\ functionSizes' = IF current = Top THEN functionSizes ELSE updateCodeSize(current)
    /\ IF \E f \in Funs : f > current
       THEN /\ current' = current + 1
            /\ pos' = 1
            /\ UNCHANGED phase
       ELSE /\ phase' = "done"
            /\ UNCHANGED <<current, pos>>
    /\ UNCHANGED <<body, alwaysInline, inlineCount, start>>

\* The run has returned, or the model's bound was reached.
Finished ==
    /\ phase \in {"done", "exhausted"}
    /\ UNCHANGED vars

Init ==
    /\ InitialProgram(body)
    /\ start = body
    /\ alwaysInline = {}
    /\ functionSizes = [f \in Funs |-> 0]
    /\ current = Top
    /\ pos = 1
    /\ phase = "ctor"
    /\ inlineCount = [f \in Funs |-> 0]

Next == Construct \/ Inline \/ Keep \/ NextBlock \/ Finished

Spec == Init /\ [][Next]_vars /\ WF_vars(Next)



(***************************************************************************)
(* Properties.                                                             *)
(***************************************************************************)
TypeOK ==
    /\ body \in [Blocks -> Seq(Stmt)]
    /\ \A b \in Blocks : \A i \in DOMAIN body[b] :
          body[b][i].callee = 0 => ~body[b][i].direct
    /\ alwaysInline \subseteq Funs
    /\ functionSizes \in [Funs -> Nat]
    /\ current \in Blocks
    /\ pos \in 1..(Len(body[current]) + 1)
    /\ phase \in {"ctor", "run", "done", "exhausted"}
    /\ inlineCount \in [Funs -> Nat]

\* A function the constructor found called exactly once is inlined at most
\* once in the run, although the copies of its call that inlining other
\* functions makes leave m_alwaysInline stale (FullInliner.cpp:60): the
\* copies land behind iterateReplacing's position and are never visited.
AlwaysInlinedOnce == \A f \in alwaysInline : inlineCount[f] <= 1

\* Every decision shallInline takes on a size threshold holds for the
\* callee's body as it is when it is copied: updateCodeSize after each
\* function (FullInliner.cpp:77) keeps m_functionSizes current for every
\* function the run can inline.
DecisionsUseCurrentSizes ==
    [][Inline => Visited.callee \in alwaysInline \/ WithinThresholds(Visited)]_vars

\* Inlining preserves what every block does: for a program without
\* recursion, each block still does the same work in the same order as
\* at the start of the run (performInline, FullInliner.cpp:147-201).
BehaviourPreserved ==
    ~Recursive(start) => \A b \in Blocks : BlockBehaviour(body, b) = BlockBehaviour(start, b)

\* The run returns: handleBlock visits finitely many statements even when
\* the program is recursive.
Terminates == <>(phase = "done")

\* Spec section 8: a function with exactly one call site, that call being a
\* whole statement outside the function itself, has no call left after one
\* inliner pass (so the pruner can remove its definition).
SingleCallSiteInlined ==
    phase = "done" =>
        \A f \in Funs :
            (/\ ReferencesIn(start, f) = 1
             /\ \E b \in Blocks \ {f} : \E i \in DOMAIN start[b] :
                   start[b][i].callee = f /\ start[b][i].direct)
            => References(f) = 0


=============================================================================
