---------------------------- MODULE SolidityLoops ----------------------------
(***************************************************************************)
(* What a Solidity function body built from for loops, break, continue,    *)
(* return and straight-line statements does: the observable trace of the   *)
(* statements it executes and of the loop conditions it evaluates, with    *)
(* their values.  A loop condition is an opaque expression: any value may  *)
(* come out, but a loop runs its body at most MaxIter times, so every      *)
(* execution is finite.                                                     *)
(*                                                                         *)
(* A statement is a record [k, l, init, post, cond, body]:                 *)
(*   k = "work"      a statement without control flow, labelled l;        *)
(*   k = "break", "continue";                                              *)
(*   k = "return"    l # 0 when it evaluates a return value, labelled l;   *)
(*   k = "for"       loop l with optional init and post statements (labels,*)
(*                   0 when absent), an optional condition, and a body.    *)
(*                                                                         *)
(* The abstract specification emits such a trace one event at a time and  *)
(* halts when the trace is a complete execution of the function body      *)
(* program.                                                                *)
(***************************************************************************)
EXTENDS Naturals, Sequences, SequencesExt

CONSTANT MaxIter

VARIABLES
    program,     \* the function body, unchanged
    executions,  \* its complete traces, unchanged
    trace,       \* the events so far
    halted       \* the function has returned

\* An observable event: a statement executed, or a condition evaluated.
Work(l) == [e |-> "work", l |-> l, v |-> TRUE]
Cond(l, v) == [e |-> "cond", l |-> l, v |-> v]

Opt(l) == IF l = 0 THEN <<>> ELSE <<Work(l)>>

\* Outcomes of executing statements: the trace and how control leaves.
Outcome(t, x) == [t |-> t, x |-> x]

Then(o, rest) == Outcome(o.t \o rest.t, rest.x)

RECURSIVE ExecSeq(_), ExecStmt(_), Loop(_, _)
ExecSeq(ss) ==
    IF ss = <<>> THEN {Outcome(<<>>, "normal")}
    ELSE UNION {IF o.x = "normal" THEN {Then(o, r) : r \in ExecSeq(Tail(ss))} ELSE {o}
                  : o \in ExecStmt(Head(ss))}

ExecStmt(s) ==
    CASE s.k = "work"     -> {Outcome(<<Work(s.l)>>, "normal")}
      [] s.k = "break"    -> {Outcome(<<>>, "break")}
      [] s.k = "continue" -> {Outcome(<<>>, "continue")}
      [] s.k = "return"   -> {Outcome(Opt(s.l), "return")}
      [] s.k = "for"      -> {Then(Outcome(Opt(s.init), "normal"), o) : o \in Loop(s, 0)}

\* The loop after i runs of its body: test the condition, run the body,
\* then the post statement.  break ends the loop, return the function.
Loop(s, i) ==
    LET iteration ==
          UNION {CASE o.x = "break"  -> {Outcome(o.t, "normal")}
                   [] o.x = "return" -> {o}
                   [] OTHER          -> {Then(Outcome(o.t \o Opt(s.post), "normal"), r)
                                           : r \in Loop(s, i + 1)}
                 : o \in IF i < MaxIter THEN ExecSeq(s.body) ELSE {}}
    IN  IF s.cond
        THEN {Outcome(<<Cond(s.l, FALSE)>>, "normal")}
             \cup {Then(Outcome(<<Cond(s.l, TRUE)>>, "normal"), o) : o \in iteration}
        ELSE iteration

\* The complete traces of a function body.
Executions(prog) == {o.t : o \in ExecSeq(prog)}

Init ==
    /\ executions = Executions(program)
    /\ trace = <<>>
    /\ halted = FALSE

Emit ==
    /\ ~halted
    /\ \E t \in executions :
          /\ Len(t) > Len(trace)
          /\ IsPrefix(trace, t)
          /\ trace' = Append(trace, t[Len(trace) + 1])
    /\ UNCHANGED <<program, executions, halted>>

Halt ==
    /\ ~halted
    /\ trace \in executions
    /\ halted' = TRUE
    /\ UNCHANGED <<program, executions, trace>>

Spec == Init /\ [][Emit \/ Halt]_<<program, executions, trace, halted>>

=============================================================================
