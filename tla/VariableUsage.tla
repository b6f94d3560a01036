---------------------------- MODULE VariableUsage ----------------------------
(***************************************************************************)
(* VariableUsage::touchedVariables (libsolidity/formal/VariableUsage.cpp): *)
(* the variables a statement of a function or modifier may assign, found  *)
(* by walking it and, through every call of an implemented internal        *)
(* function, the called function with its modifiers.  The function path  *)
(* (the functions being walked, after the caller's outer call stack)      *)
(* keeps a recursive call from being walked again; a placeholder "_" in a *)
(* modifier walks the body of the function on top of the path.            *)
(*                                                                         *)
(* Statements are items: [k |-> "assign", v] (an identifier with          *)
(* lValueRequested), [k |-> "read", v], [k |-> "call", f] (a call          *)
(* inlinedFunctionCallToDefinition resolves to function f, or 0 when it   *)
(* does not), [k |-> "loop", body] and [k |-> "placeholder"].              *)
(***************************************************************************)
EXTENDS Naturals, Sequences, SequencesExt, FiniteSets

CONSTANTS
    Funs,            \* the function definitions
    Mods,            \* the modifier definitions
    MaxDepth,        \* the depth of the function path at which the walk overflows its stack
    InitialQuery(_)  \* InitialQuery(q): q is a call of touchedVariables on a program

(***************************************************************************)
(* The walk.                                                               *)
(***************************************************************************)
VARIABLES
    query,      \* the program, the node and the outer call stack, unchanged
    touched,    \* m_touchedVariables
    path,       \* m_functionPath
    tasks,      \* the walk: what is left to accept or end, next first
    phase       \* "run", "done", "internal" (a solAssert) or "overflow"

vars == <<query, touched, path, tasks, phase>>

Prog == query.prog
Modifiers(f) == Prog.mods[f]
Implemented(f) == Prog.impl[f]
Body(f) == Prog.body[f]
ModBody(m) == Prog.modBody[m]

Top == Head(tasks)
Continue(ts) == tasks' = ts \o Tail(tasks)

Accept(items) == [i \in DOMAIN items |-> [t |-> "item", x |-> items[i]]]

Running == phase = "run" /\ tasks # <<>>

\* visit(FunctionDefinition): the function goes on the path; its modifier
\* invocations and its body are walked; endVisit takes it off.
FunctionWalk(f) ==
    [i \in DOMAIN Modifiers(f) |-> [t |-> "invocation", x |-> Modifiers(f)[i]]]
    \o (IF Implemented(f) THEN Accept(Body(f)) ELSE <<>>)
    \o <<[t |-> "endFunction", x |-> f]>>

VisitFunctionDefinition ==
    /\ Running /\ Top.t = "function"
    /\ IF Len(path) >= MaxDepth THEN phase' = "overflow" /\ UNCHANGED <<path, tasks>>
       ELSE /\ path' = Append(path, Top.x)
            /\ Continue(FunctionWalk(Top.x))
            /\ UNCHANGED phase
    /\ UNCHANGED <<query, touched>>

EndFunctionDefinitionNoPop ==
    /\ Running /\ Top.t = "endFunction"
    /\ IF path = <<>> THEN phase' = "internal" /\ UNCHANGED <<path, tasks>>
       ELSE Continue(<<>>) /\ UNCHANGED <<path, phase>>
    /\ UNCHANGED <<query, touched>>
EndFunctionDefinition ==
    /\ Running /\ Top.t = "endFunction"
    /\ IF path = <<>> THEN phase' = "internal" /\ UNCHANGED <<path, tasks>>
       ELSE path' = Front(path) /\ Continue(<<>>) /\ UNCHANGED phase
    /\ UNCHANGED <<query, touched>>

\* endVisit(Identifier): an assigned variable is touched.
EndVisitIdentifierAnyUse ==
    /\ Running /\ Top.t = "item" /\ Top.x.k \in {"assign", "read"}
    /\ touched' = touched \cup {Top.x.v}
    /\ Continue(<<>>)
    /\ UNCHANGED <<query, path, phase>>
EndVisitIdentifier ==
    /\ Running /\ Top.t = "item" /\ Top.x.k \in {"assign", "read"}
    /\ touched' = IF Top.x.k = "assign" THEN touched \cup {Top.x.v} ELSE touched
    /\ Continue(<<>>)
    /\ UNCHANGED <<query, path, phase>>

\* endVisit(FunctionCall): the definition of an inlinable call is walked,
\* unless it is on the function path.
ShallWalkAnyCall(f) == f # 0
ShallWalk(f) == f # 0 /\ ~\E i \in DOMAIN path : path[i] = f

EndVisitFunctionCall ==
    /\ Running /\ Top.t = "item" /\ Top.x.k = "call"
    /\ Continue(IF ShallWalk(Top.x.f) THEN <<[t |-> "function", x |-> Top.x.f]>> ELSE <<>>)
    /\ UNCHANGED <<query, touched, path, phase>>

\* endVisit(ModifierInvocation): the modifier's definition is walked.
EndVisitModifierInvocation ==
    /\ Running /\ Top.t = "invocation"
    /\ Continue(Accept(ModBody(Top.x)))
    /\ UNCHANGED <<query, touched, path, phase>>

\* endVisit(PlaceholderStatement): the body of the function on top of the
\* path, if it has one.
PlaceholderFunctionFirst == path[1]
PlaceholderFunction == path[Len(path)]
EndVisitPlaceholder ==
    /\ Running /\ Top.t = "item" /\ Top.x.k = "placeholder"
    /\ IF path = <<>> THEN phase' = "internal" /\ UNCHANGED tasks
       ELSE /\ Continue(IF Implemented(PlaceholderFunction) THEN Accept(Body(PlaceholderFunction)) ELSE <<>>)
            /\ UNCHANGED phase
    /\ UNCHANGED <<query, touched, path>>

\* The walker's default visit of a loop: its body.
VisitLoop ==
    /\ Running /\ Top.t = "item" /\ Top.x.k = "loop"
    /\ Continue(Accept(Top.x.body))
    /\ UNCHANGED <<query, touched, path, phase>>

\* touchedVariables returns.
Finish ==
    /\ phase = "run" /\ tasks = <<>>
    /\ phase' = "done"
    /\ UNCHANGED <<query, touched, path, tasks>>

Stopped ==
    /\ phase # "run"
    /\ UNCHANGED vars

\* touchedVariables(node, outerCallstack): the set cleared, the path set to
\* the outer call stack, the node accepted.
InitWithoutCallstack ==
    /\ InitialQuery(query)
    /\ touched = {}
    /\ path = <<>>
    /\ tasks = query.node
    /\ phase = "run"
Init ==
    /\ InitialQuery(query)
    /\ touched = {}
    /\ path = query.outer
    /\ tasks = query.node
    /\ phase = "run"

Next ==
    \/ VisitFunctionDefinition \/ EndFunctionDefinition \/ EndVisitIdentifier
    \/ EndVisitFunctionCall \/ EndVisitModifierInvocation \/ EndVisitPlaceholder
    \/ VisitLoop \/ Finish \/ Stopped

Spec == Init /\ [][Next]_vars /\ WF_vars(Next)

(***************************************************************************)
(* What the walk should find: the variables assigned in the node and in    *)
(* every function body and modifier body execution can reach from it      *)
(* without calling a function of the outer call stack.  A modifier body is *)
(* reached for a function; its placeholder reaches that function's body.  *)
(***************************************************************************)
RECURSIVE AssignedIn(_), UnitsIn(_, _)
AssignedIn(items) ==
    UNION {CASE items[i].k = "assign" -> {items[i].v}
             [] items[i].k = "loop"   -> AssignedIn(items[i].body)
             [] OTHER                 -> {}
           : i \in DOMAIN items}

\* The units the items call or, in a modifier walked for function ctx, enter.
UnitsIn(items, ctx) ==
    UNION {CASE items[i].k = "call" /\ items[i].f # 0 /\ items[i].f \notin Range(query.outer)
                   -> {<<"fun", items[i].f>>}
             [] items[i].k = "placeholder" /\ ctx # 0 /\ Implemented(ctx) -> {<<"body", ctx>>}
             [] items[i].k = "loop" -> UnitsIn(items[i].body, ctx)
             [] OTHER -> {}
           : i \in DOMAIN items}

UnitItems(u) == CASE u[1] = "body" -> Body(u[2]) [] u[1] = "mod" -> ModBody(u[2]) [] OTHER -> <<>>

Succ(u) ==
    CASE u[1] = "fun" -> {<<"mod", m, u[2]>> : m \in Range(Modifiers(u[2]))}
                         \cup (IF Implemented(u[2]) THEN {<<"body", u[2]>>} ELSE {})
      [] u[1] = "body" -> UnitsIn(Body(u[2]), u[2])
      [] OTHER         -> UnitsIn(ModBody(u[2]), u[3])

\* The units reached from a set of units, to a fixed point.
RECURSIVE ReachFrom(_)
ReachFrom(S) ==
    LET S2 == S \cup UNION {Succ(u) : u \in S}
    IN  IF S2 = S THEN S ELSE ReachFrom(S2)

Reachable ==
    LET Outer == IF query.outer = <<>> THEN 0 ELSE query.outer[Len(query.outer)]
    IN  ReachFrom(UNION {IF query.node[i].t = "function" THEN {<<"fun", query.node[i].x>>}
                         ELSE UnitsIn(<<query.node[i].x>>, Outer) : i \in DOMAIN query.node})

ReferenceTouched ==
    UNION {AssignedIn(<<query.node[i].x>>) : i \in {i \in DOMAIN query.node : query.node[i].t = "item"}}
    \cup UNION {AssignedIn(UnitItems(u)) : u \in Reachable}

(***************************************************************************)
(* Properties.                                                             *)
(***************************************************************************)
TypeOK ==
    /\ touched \subseteq UNION {AssignedIn(Body(f)) : f \in Funs} \cup UNION {AssignedIn(ModBody(m)) : m \in Mods}
                \cup AssignedIn([i \in {i \in DOMAIN query.node : query.node[i].t = "item"} |-> query.node[i].x])
    /\ path \in Seq(Funs)
    /\ phase \in {"run", "done", "internal", "overflow"}
    /\ \A i \in DOMAIN tasks : tasks[i].t \in {"item", "function", "endFunction", "invocation"}

\* touchedVariables finds exactly the variables that running the node may
\* assign, through calls, modifiers and placeholders, without re-entering
\* the functions of the outer call stack (VariableUsage.cpp:37-79).
TouchedIsReachable == phase = "done" => touched = ReferenceTouched

\* Every function the walk enters it leaves: when touchedVariables returns,
\* the function path is the outer call stack again (VariableUsage.cpp:44-54).
PathRestored == phase = "done" => path = query.outer

\* The assertions of endVisit(FunctionDefinition) and
\* endVisit(PlaceholderStatement) hold: the path is never empty there.
NoInternalError == phase # "internal"

\* The function-path guard bounds the recursion: recursive and mutually
\* recursive calls, also through modifiers, never take the path beyond
\* MaxDepth (VariableUsage.cpp:40).
NoStackOverflow == phase # "overflow"

=============================================================================
