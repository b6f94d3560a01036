----------------------------- MODULE LoopLowering -----------------------------
(***************************************************************************)
(* The lowering of Solidity control flow to Yul by IRGeneratorForStatements *)
(* (libsolidity/codegen/ir/IRGeneratorForStatements.cpp): for loops,       *)
(* break, continue and return, where return goes through the variable      *)
(* return_flag, and a Yul interpreter that runs the lowered function body. *)
(* The interpreter is shown to implement the Solidity semantics of         *)
(* SolidityLoops.                                                          *)
(*                                                                         *)
(* Statements are those of SolidityLoops.  A Yul statement is a record     *)
(* [y, l, init, post, body]; y is one of                                   *)
(*   "work"            the code of a Solidity statement without control    *)
(*                     flow (declaration, assignment, expression);        *)
(*   "cond"            let expr_l := <condition of loop l>;               *)
(*   "breakifnotcond"  if iszero(expr_l) { break };                        *)
(*   "setflag"         let return_flag := 1;                              *)
(*   "clearflag"       return_flag := 0;                                  *)
(*   "breakifnotflag"  if iszero(return_flag) { break };                   *)
(*   "break", "continue";                                                  *)
(*   "for"             for { init } return_flag { post } { body }.        *)
(***************************************************************************)
EXTENDS Integers, Sequences, SequencesExt

CONSTANTS
    MaxIter,            \* how often a loop body may run (SolidityLoops)
    MaxTrace,           \* the interpreter's trace limit (maxTraceSize)
    InitialProgram(_)   \* InitialProgram(p): p is a function body to lower

Y(y, l) == [y |-> y, l |-> l, init |-> <<>>, post |-> <<>>, body |-> <<>>]
YFor(l, init, post, body) == [y |-> "for", l |-> l, init |-> init, post |-> post, body |-> body]

Code(l) == IF l = 0 THEN <<>> ELSE <<Y("work", l)>>

(***************************************************************************)
(* The lowering, one operator per visit of IRGeneratorForStatements.       *)
(***************************************************************************)
\* visit(Return): the return value assigned, return_flag cleared, break.
ReturnNoClear(s) == Code(s.l) \o <<Y("break", 0)>>
ReturnLowering(s) == Code(s.l) \o <<Y("clearflag", 0), Y("break", 0)>>

\* visit(ForStatement): the condition is tested at the start of the body.
CondCheck(s) == IF s.cond THEN <<Y("cond", s.l), Y("breakifnotcond", s.l)>> ELSE <<>>

\* visit(ForStatement): after the loop, a cleared return_flag is passed on
\* to the enclosing loop.
BubbleUpMissing == <<>>
BubbleUp == <<Y("breakifnotflag", 0)>>

RECURSIVE LowerSeq(_), LowerStmt(_)
LowerStmt(s) ==
    CASE s.k = "work"     -> <<Y("work", s.l)>>
      [] s.k = "break"    -> <<Y("break", 0)>>
      [] s.k = "continue" -> <<Y("continue", 0)>>
      [] s.k = "return"   -> ReturnLowering(s)
      [] s.k = "for"      -> <<YFor(s.l, Code(s.init), Code(s.post),
                                    CondCheck(s) \o LowerSeq(s.body))>> \o BubbleUp

LowerSeq(ss) == IF ss = <<>> THEN <<>> ELSE LowerStmt(Head(ss)) \o LowerSeq(Tail(ss))

\* The function around the body: a loop on return_flag that runs once.
FunctionBodyNoBreak(prog) == <<YFor(0, <<Y("setflag", 0)>>, <<>>, LowerSeq(prog))>>
FunctionBody(prog) == <<YFor(0, <<Y("setflag", 0)>>, <<>>, LowerSeq(prog) \o <<Y("break", 0)>>)>>

(***************************************************************************)
(* The text m_code receives, as a sequence of tokens: one token per line   *)
(* of straight-line code, and the braces, keywords and jumps as written.   *)
(***************************************************************************)
Line(l) == IF l = 0 THEN <<>> ELSE <<"stmt">>
IfBreak == <<"if", "{", "break", "}">>

RECURSIVE TextSeq(_), TextStmt(_)
TextStmt(s) ==
    CASE s.k = "work"     -> <<"stmt">>
      [] s.k = "break"    -> <<"break">>
      [] s.k = "continue" -> <<"continue">>
      [] s.k = "return"   -> Line(s.l) \o <<"return_flag := 0", "break">>
      [] s.k = "for"      -> <<"for", "{">> \o Line(s.init) \o <<"}", "return_flag", "{">>
                               \o Line(s.post) \o <<"}">>
                               \o (IF s.cond THEN <<"stmt">> \o IfBreak ELSE <<>>)
                               \o TextSeq(s.body) \o <<"}">> \o IfBreak

TextSeq(ss) == IF ss = <<>> THEN <<>> ELSE TextStmt(Head(ss)) \o TextSeq(Tail(ss))

FunctionText(prog) ==
    <<"for", "{", "stmt", "}", "return_flag", "{", "}", "{">> \o TextSeq(prog) \o <<"break", "}">>

\* A recursive-descent reader of Yul statements over these tokens: the
\* position after what it read, or 0 when the tokens are not Yul.
RECURSIVE ParseBlock(_, _), ParseStmt(_, _), ParseStmts(_, _)
ParseBlock(ts, i) ==
    IF i <= Len(ts) /\ ts[i] = "{"
    THEN LET j == ParseStmts(ts, i + 1)
         IN  IF j > 0 /\ j <= Len(ts) /\ ts[j] = "}" THEN j + 1 ELSE 0
    ELSE 0

ParseStmt(ts, i) ==
    CASE ts[i] \in {"stmt", "break", "continue", "return_flag := 0"} -> i + 1
      [] ts[i] = "if" -> ParseBlock(ts, i + 1)
      [] ts[i] = "for" ->
            LET a == ParseBlock(ts, i + 1)
                b == IF a > 0 /\ a <= Len(ts) /\ ts[a] = "return_flag"
                     THEN ParseBlock(ts, a + 1) ELSE 0
            IN  IF b > 0 THEN ParseBlock(ts, b) ELSE 0
      [] OTHER -> 0

ParseStmts(ts, i) ==
    IF i > Len(ts) \/ ts[i] = "}" THEN i
    ELSE LET j == ParseStmt(ts, i) IN IF j = 0 THEN 0 ELSE ParseStmts(ts, j)

IsYul(ts) == ParseStmts(ts, 1) = Len(ts) + 1


(***************************************************************************)
(* A Yul interpreter for the lowered body.  The control stack holds block  *)
(* frames (statements left to run) and loop frames (the for statement,    *)
(* the part it is in, and how often its body was entered).                 *)
(***************************************************************************)
VARIABLES
    prog,       \* the Solidity function body, unchanged
    execs,      \* its complete traces by SolidityLoops, unchanged
    stack,      \* the control stack, innermost frame first
    flag,       \* the value of return_flag, -1 before it is declared
    lastCond,   \* the value of the condition variable last assigned
    trace,      \* the observable events so far
    diverged    \* MaxTrace events emitted and the function still running

vars == <<prog, execs, stack, flag, lastCond, trace, diverged>>

None == Y("none", 0)
BlockFrame(ss) == [f |-> "block", ss |-> ss, node |-> None, stage |-> "none", iter |-> 0]
LoopFrame(n, stage, iter) == [f |-> "loop", ss |-> <<>>, node |-> n, stage |-> stage, iter |-> iter]

S == INSTANCE SolidityLoops WITH program <- prog, executions <- execs, halted <- (stack = <<>>)

Running == stack # <<>> /\ ~diverged

\* The statement about to run, in the innermost block.
Current == Head(Head(stack).ss)
Advance == <<[Head(stack) EXCEPT !.ss = Tail(@)]>> \o Tail(stack)

\* break: the body block and the loop frame of the innermost loop go.
BreakStack == SubSeq(stack, 3, Len(stack))
\* continue: the rest of the body goes; the loop runs its post block.
ContinueStackKeepsBody ==
    <<BlockFrame(stack[2].node.post), [stack[2] EXCEPT !.stage = "post"]>> \o Tail(stack)
ContinueStack ==
    <<BlockFrame(stack[2].node.post), [stack[2] EXCEPT !.stage = "post"]>> \o BreakStack

\* An event is traced, unless the trace is at its limit.
Emitting(ev) ==
    IF Len(trace) < MaxTrace
    THEN trace' = Append(trace, ev) /\ UNCHANGED diverged
    ELSE diverged' = TRUE /\ UNCHANGED trace

\* One statement of the innermost block.
StmtStep ==
    /\ Running
    /\ Head(stack).f = "block"
    /\ Head(stack).ss # <<>>
    /\ \/ /\ Current.y = "work"
          /\ Emitting(S!Work(Current.l))
          /\ stack' = Advance
          /\ UNCHANGED <<flag, lastCond>>
       \/ /\ Current.y = "cond"
          /\ \E v \in BOOLEAN :
                /\ v => stack[2].iter <= MaxIter
                /\ lastCond' = v
                /\ Emitting(S!Cond(Current.l, v))
          /\ stack' = Advance
          /\ UNCHANGED flag
       \/ /\ Current.y = "breakifnotcond"
          /\ stack' = IF lastCond THEN Advance ELSE BreakStack
          /\ UNCHANGED <<flag, lastCond, trace, diverged>>
       \/ /\ Current.y \in {"setflag", "clearflag"}
          /\ flag' = IF Current.y = "setflag" THEN 1 ELSE 0
          /\ stack' = Advance
          /\ UNCHANGED <<lastCond, trace, diverged>>
       \/ /\ Current.y = "breakifnotflag"
          /\ stack' = IF flag # 0 THEN Advance ELSE BreakStack
          /\ UNCHANGED <<flag, lastCond, trace, diverged>>
       \/ /\ Current.y = "break"
          /\ stack' = BreakStack
          /\ UNCHANGED <<flag, lastCond, trace, diverged>>
       \/ /\ Current.y = "continue"
          /\ stack' = ContinueStack
          /\ UNCHANGED <<flag, lastCond, trace, diverged>>
       \/ /\ Current.y = "for"
          /\ stack' = <<BlockFrame(Current.init), LoopFrame(Current, "init", 0)>> \o Advance
          /\ UNCHANGED <<flag, lastCond, trace, diverged>>
    /\ UNCHANGED <<prog, execs>>

\* The innermost block has run to its end.
BlockEnd ==
    /\ Running
    /\ Head(stack).f = "block"
    /\ Head(stack).ss = <<>>
    /\ stack' = Tail(stack)
    /\ UNCHANGED <<prog, execs, flag, lastCond, trace, diverged>>

\* A loop tests return_flag after its init or post block, and runs its
\* post block after its body.
LoopStep ==
    /\ Running
    /\ Head(stack).f = "loop"
    /\ LET fr == Head(stack) IN
       \/ /\ fr.stage \in {"init", "post"}
          /\ stack' = IF flag # 0
                      THEN <<BlockFrame(fr.node.body),
                             [fr EXCEPT !.stage = "body",
                                        !.iter = IF @ <= MaxIter THEN @ + 1 ELSE @]>>
                           \o Tail(stack)
                      ELSE Tail(stack)
       \/ /\ fr.stage = "body"
          /\ stack' = <<BlockFrame(fr.node.post), [fr EXCEPT !.stage = "post"]>> \o Tail(stack)
    /\ UNCHANGED <<prog, execs, flag, lastCond, trace, diverged>>

\* The function has returned, or the trace limit was reached.
Done ==
    /\ ~Running
    /\ UNCHANGED vars

Init ==
    /\ InitialProgram(prog)
    /\ execs = S!Executions(prog)
    /\ stack = <<BlockFrame(FunctionBody(prog))>>
    /\ flag = -1
    /\ lastCond = FALSE
    /\ trace = <<>>
    /\ diverged = FALSE

Next == StmtStep \/ BlockEnd \/ LoopStep \/ Done

Spec == Init /\ [][Next]_vars /\ WF_vars(Next)

(***************************************************************************)
(* Properties.                                                             *)
(***************************************************************************)
\* The control stack alternates blocks and loops, a block at the bottom.
TypeOK ==
    /\ \A i \in DOMAIN stack :
          /\ stack[i].f \in {"block", "loop"}
          /\ i < Len(stack) => stack[i].f # stack[i + 1].f
          /\ stack[i].f = "loop" => stack[i].node.y = "for" /\ stack[i].iter \in 0..(MaxIter + 1)
    /\ stack # <<>> => stack[Len(stack)].f = "block"
    /\ flag \in {-1, 0, 1}
    /\ lastCond \in BOOLEAN
    /\ diverged \in BOOLEAN

\* Once a return has cleared return_flag, nothing observable happens any
\* more: the events so far are a complete execution of the Solidity body.
\* This is what the bubbling "if iszero(return_flag) { break }" after every
\* loop (IRGeneratorForStatements.cpp:150) is for.
ReturnIsFinal == flag = 0 => trace \in execs

\* The lowered body, run by the interpreter, does what the Solidity body
\* does: every trace it produces is a trace of SolidityLoops, and it halts
\* only on a complete one.
LoweringRefinesSolidity == S!Spec

\* The lowered function always returns.
Terminates == <>(stack = <<>>)

\* The text visit(ForStatement) and its callees write is Yul: every for
\* statement has init, condition, post and body (IRGeneratorForStatements.cpp:132-150).
EmittedCodeParses == IsYul(FunctionText(prog))

=============================================================================
