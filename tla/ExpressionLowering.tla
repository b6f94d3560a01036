-------------------------- MODULE ExpressionLowering --------------------------
(***************************************************************************)
(* The translation of Solidity declarations, assignments and expressions   *)
(* into Yul by IRGeneratorForStatements, with the IRGenerationContext it   *)
(* asks for names, virtual function resolution and internal dispatch       *)
(* functions (libsolidity/codegen/ir/).                                    *)
(*                                                                         *)
(* The generator is an AST walker: every visit either emits its code at   *)
(* once or accepts its children first and emits afterwards.  The walk is  *)
(* modelled by a stack of tasks: "accept" a node, or one of the           *)
(* continuations that follow a handler's calls of accept.  The emitted    *)
(* code is a sequence of Yul lines "let x := rhs" and "x := rhs"; names   *)
(* are <<"expr", id>> (IRGenerationContext::variable), <<"vloc", id>>     *)
(* (addLocalVariable) and <<"fun", id>> (functionName).  The text of a    *)
(* line, the hex formatting of literals and the bodies of the conversion  *)
(* and checked-add helpers (YulUtilFunctions) are abstracted to what they *)
(* compute.                                                                 *)
(*                                                                         *)
(* The generated lines are then run by a Yul semantics and compared with  *)
(* the Solidity semantics of the same statements.                          *)
(***************************************************************************)
EXTENDS Integers, Sequences, SequencesExt, Functions, TLC

CONSTANTS
    Funs,              \* the function definitions of the hierarchy's contracts
    Hierarchy,         \* the contracts, most derived first (m_inheritanceHierarchy)
    Vars,              \* the local variable declarations: [id, type]
    Ret(_, _),         \* Ret(f, args): what function f returns for args
    InitialProgram(_)  \* InitialProgram(p): p is a statement sequence to translate

(***************************************************************************)
(* Types, as far as the generator looks at them.                           *)
(***************************************************************************)
\* A type: its category, its width (uint) or value (rational constant), and
\* the parameter and return types of a function type.
Type(c, n, params, rets) == [c |-> c, n |-> n, params |-> params, rets |-> rets]
UInt(bits) == Type("uint", bits, <<>>, <<>>)
FunType(f) == Type("fun", 0, f.params, f.rets)

\* Type::sizeOnStack: a call of a function without return values has the
\* empty tuple type; every other type of the model has one slot.
SizeOnStack(t) == IF t.c = "tuple" THEN 0 ELSE 1

\* The value a conversion to type to leaves (the cleanup of the helper
\* conversionFunction(from, to); rational constants are exact).
Conv(v, to) == IF to.c = "uint" THEN v % (2 ^ to.n) ELSE v

VarType(v) == (CHOOSE d \in Vars : d.id = v).type
Fun(id) == CHOOSE f \in Funs : f.id = id

(***************************************************************************)
(* IRGenerationContext.                                                    *)
(***************************************************************************)
\* The function of contract c matching f by name and parameter types, none
\* if there is none.
None == [id |-> 0]
Matching(c, f) ==
    {g \in Funs : g.contract = c /\ g.name = f.name /\ ~g.ctor /\ g.params = f.params}

\* virtualFunction: the first match, scanning the hierarchy most derived first.
RECURSIVE VirtualIn(_, _)
VirtualIn(h, f) ==
    IF h = <<>> THEN None
    ELSE IF Matching(Head(h), f) # {} THEN CHOOSE g \in Matching(Head(h), f) : TRUE
    ELSE VirtualIn(Tail(h), f)

virtualFunctionBaseFirst(f) == VirtualIn(Reverse(Hierarchy), f)
virtualFunction(f) == VirtualIn(Hierarchy, f)

ExprName(e) == <<"expr", e.id>>
VarName(v) == <<"vloc", v>>
FunName(id) == <<"fun", id>>

\* internalDispatch: the cases of dispatch_internal_in_<in>_out_<out>, every
\* non-constructor function of the hierarchy with that many parameters and
\* return values.
DispatchCases(in, out) ==
    {[funID |-> g.id, name |-> FunName(g.id)] :
        g \in {h \in Funs : /\ h.contract \in Range(Hierarchy) /\ ~h.ctor
                            /\ Len(h.params) = in /\ Len(h.rets) = out}}

(***************************************************************************)
(* Yul lines and operands.                                                 *)
(***************************************************************************)
\* expressionAsType: the expression's variable, converted unless the types
\* are equal.
Operand(n, conv) == [n |-> n, conv |-> conv]
expressionAsType(e, to) == Operand(ExprName(e), IF e.type = to THEN <<>> ELSE <<to>>)

Let(x, rhs) == [op |-> "let", x |-> x, rhs |-> rhs]
Assign(x, rhs) == [op |-> "set", x |-> x, rhs |-> rhs]
Rhs(r, v, a) == [r |-> r, v |-> v, a |-> a]   \* kind, value or name, operands

ParameterNamesOfType(call) == <<>>
ParameterNames(call) ==
    IF call.callee.k = "ident" /\ call.callee.isFun THEN Fun(call.callee.ref).pnames ELSE <<>>

\* visit(FunctionCall): the argument given for parameter i; a named
\* argument is looked up by the parameter's name (0: not found).
ArgumentIndex(call, i) ==
    IF call.names = <<>> THEN i
    ELSE IF i > Len(ParameterNames(call)) THEN 0
    ELSE SelectInSeq(call.names, LAMBDA nm : nm = ParameterNames(call)[i])

CallArguments(call) == [i \in DOMAIN call.args |-> call.args[ArgumentIndex(call, i)]]

ParameterTypes(call) == call.callee.type.params

(***************************************************************************)
(* CopyTranslate: the copy of an inline assembly block.  An operation is  *)
(* [k |-> "let", x, rhs] or [k |-> "set", x, rhs]; a reference is         *)
(* [k |-> "ref", ext |-> FALSE, n] (a name of the block, n being the name *)
(* the user wrote, as a name pair when it reads like a generated one) or  *)
(* [k |-> "ref", ext |-> TRUE, var, slot] (an external reference to a     *)
(* Solidity variable, slot for its _slot or _offset suffix), and a value  *)
(* may also be [k |-> "lit", v].                                           *)
(***************************************************************************)
translateIdentifierUnprefixed(n) == n
translateIdentifier(n) == <<"usr", n>>

\* translate(Identifier): an external reference becomes the variable's
\* generated name, any other identifier goes through translateIdentifier.
TranslateRef(r) == IF r.ext THEN VarName(r.var) ELSE translateIdentifier(r.n)

AsmRhs(src) == IF src.k = "lit" THEN Rhs("lit", src.v, <<>>) ELSE Rhs("op", 0, <<Operand(TranslateRef(src), <<>>)>>)

TranslateOp(op) ==
    IF op.k = "let" THEN Let(translateIdentifier(op.x), AsmRhs(op.rhs))
    ELSE Assign(TranslateRef(op.x), AsmRhs(op.rhs))

\* The external references in the order the copier meets them.
ExternalRefs(ops) ==
    SelectSeq(FlattenSeq([i \in DOMAIN ops |-> IF ops[i].k = "let" THEN <<ops[i].rhs>> ELSE <<ops[i].x, ops[i].rhs>>]),
              LAMBDA r : r.k = "ref" /\ r.ext)

(***************************************************************************)
(* The generator's state.                                                  *)
(***************************************************************************)
VARIABLES
    prog,            \* the statements to translate
    code,            \* m_code, as Yul lines
    localVariables,  \* the declarations m_localVariables has a name for
    functions,       \* the function collector: dispatch functions by arity
    tasks,           \* the walk: what is left to do, next first
    phase            \* "run", "done", "unimplemented" or "internal"

vars == <<prog, code, localVariables, functions, tasks, phase>>

Task(t, n, i) == [t |-> t, n |-> n, i |-> i]
Accept(n) == Task("accept", n, 0)

Top == Head(tasks)
Node == Top.n

\* Pop the current task, push ts in its place.
Continue(ts) == tasks' = ts \o Tail(tasks)

\* solUnimplementedAssert and solAssert: the translation stops.
Unimplemented == phase' = "unimplemented" /\ UNCHANGED <<code, localVariables, functions, tasks>>
Internal == phase' = "internal" /\ UNCHANGED <<code, localVariables, functions, tasks>>

\* IRGenerationContext::variable and defineExpression: a one-slot value.
Define(e, rhs) ==
    IF SizeOnStack(e.type) # 1 THEN Unimplemented
    ELSE /\ code' = Append(code, Let(ExprName(e), rhs))
         /\ Continue(<<>>)
         /\ UNCHANGED <<localVariables, functions, phase>>

Running == phase = "run" /\ tasks # <<>>

\* IRGenerationContext::addLocalVariable.
addLocalVariableOfStatement(stmt) == localVariables \cup {stmt.id}
addLocalVariable(stmt) == localVariables \cup {stmt.var}

(***************************************************************************)
(* Actions: one per visit and per continuation after a visit's accepts.    *)
(***************************************************************************)
\* visit(VariableDeclarationStatement): addLocalVariable, then the initial
\* value, or a declaration without value.
VisitVariableDeclaration ==
    /\ Running /\ Top.t = "accept" /\ Node.k = "decl"
    /\ IF SizeOnStack(VarType(Node.var)) # 1 THEN Unimplemented
       ELSE /\ localVariables' = addLocalVariable(Node)
            /\ IF Node.init.k = "none"
               THEN /\ code' = Append(code, Let(VarName(Node.var), Rhs("zero", 0, <<>>)))
                    /\ Continue(<<>>)
               ELSE /\ Continue(<<Accept(Node.init), Task("declared", Node, 0)>>)
                    /\ UNCHANGED code
            /\ UNCHANGED <<functions, phase>>
    /\ UNCHANGED prog

\* ... "let vloc := expressionAsType(value, type of the variable)".
EndVariableDeclaration ==
    /\ Running /\ Top.t = "declared"
    /\ IF SizeOnStack(Node.init.type) # 1 THEN Unimplemented
       ELSE /\ code' = Append(code, Let(VarName(Node.var),
                          Rhs("op", 0, <<expressionAsType(Node.init, VarType(Node.var))>>)))
            /\ Continue(<<>>)
            /\ UNCHANGED <<localVariables, functions, phase>>
    /\ UNCHANGED prog

\* The walker's default visits: an expression statement and a binary
\* operation accept their children, left to right.
VisitChildren ==
    /\ Running /\ Top.t = "accept" /\ Node.k \in {"exprstmt", "binary"}
    /\ Continue(IF Node.k = "exprstmt" THEN <<Accept(Node.e)>>
                ELSE <<Accept(Node.l), Accept(Node.r), Task("binary", Node, 0)>>)
    /\ UNCHANGED <<prog, code, localVariables, functions, phase>>

\* visit(Assignment): the right-hand side first.
VisitAssignment ==
    /\ Running /\ Top.t = "accept" /\ Node.k = "assign"
    /\ Continue(<<Accept(Node.rhs), Task("assigned", Node, 0)>>)
    /\ UNCHANGED <<prog, code, localVariables, functions, phase>>

\* ... then "vloc := value" and "let expr := vloc".
EndAssignment ==
    /\ Running /\ Top.t = "assigned"
    /\ IF Node.lhs.ref \notin localVariables THEN Internal
       ELSE IF SizeOnStack(Node.rhs.type) # 1 THEN Unimplemented
       ELSE /\ code' = code \o
                  <<Assign(VarName(Node.lhs.ref), Rhs("op", 0, <<expressionAsType(Node.rhs, Node.lhs.type)>>)),
                    Let(ExprName(Node), Rhs("op", 0, <<Operand(VarName(Node.lhs.ref), <<>>)>>))>>
            /\ Continue(<<>>)
            /\ UNCHANGED <<localVariables, functions, phase>>
    /\ UNCHANGED prog

\* visit(Identifier): a function is its virtual target's id, a variable its
\* local name.
VisitIdentifier ==
    /\ Running /\ Top.t = "accept" /\ Node.k = "ident"
    /\ IF Node.isFun
       THEN IF virtualFunction(Fun(Node.ref)) = None THEN Internal
            ELSE Define(Node, Rhs("lit", virtualFunction(Fun(Node.ref)).id, <<>>))
       ELSE IF Node.ref \notin localVariables THEN Internal
            ELSE Define(Node, Rhs("op", 0, <<Operand(VarName(Node.ref), <<>>)>>))
    /\ UNCHANGED prog

\* visit(Literal): numbers only; a string literal is not implemented.
VisitLiteral ==
    /\ Running /\ Top.t = "accept" /\ Node.k = "lit"
    /\ IF Node.type.c = "rat" THEN Define(Node, Rhs("lit", Node.type.n, <<>>)) ELSE Unimplemented
    /\ UNCHANGED prog

\* endVisit(BinaryOperation): a constant folded, or the checked addition of
\* both operands converted to the common type.
EndBinaryOperation ==
    /\ Running /\ Top.t = "binary"
    /\ CASE Node.op \in {"&&", "||"}                    -> Unimplemented
         [] Node.ctype.c = "rat"                        -> Define(Node, Rhs("lit", Node.ctype.n, <<>>))
         [] Node.op # "+" \/ Node.ctype.c # "uint"      -> Unimplemented
         [] OTHER -> Define(Node, Rhs("add", Node.ctype.n,
                              <<expressionAsType(Node.l, Node.ctype), expressionAsType(Node.r, Node.ctype)>>))
    /\ UNCHANGED prog

\* visit(FunctionCall): a type conversion visits its argument; an internal
\* call visits its arguments in parameter order.
VisitFunctionCall ==
    /\ Running /\ Top.t = "accept" /\ Node.k = "call"
    /\ IF Node.kind = "conv"
       THEN Continue(<<Accept(Node.args[1]), Task("converted", Node, 0)>>)
            /\ UNCHANGED phase
       ELSE IF \/ Len(Node.args) # Len(ParameterTypes(Node))
               \/ \E i \in DOMAIN Node.args : ArgumentIndex(Node, i) = 0
       THEN Internal
       ELSE /\ Continue(FlattenSeq([i \in DOMAIN Node.args |-> <<Accept(CallArguments(Node)[i]), Task("argument", Node, i)>>])
                        \o <<Task("arguments", Node, 0)>>)
            /\ UNCHANGED phase
    /\ UNCHANGED <<prog, code, localVariables, functions>>

\* ... the converted value of a type conversion.
EndConversion ==
    /\ Running /\ Top.t = "converted"
    /\ IF SizeOnStack(Node.args[1].type) # 1 THEN Unimplemented
       ELSE Define(Node, Rhs("op", 0, <<expressionAsType(Node.args[1], Node.type)>>))
    /\ UNCHANGED prog

\* ... each argument, once visited, is named by expressionAsType.
EndArgument ==
    /\ Running /\ Top.t = "argument"
    /\ IF SizeOnStack(CallArguments(Node)[Top.i].type) # 1 THEN Unimplemented
       ELSE Continue(<<>>) /\ UNCHANGED <<code, localVariables, functions, phase>>
    /\ UNCHANGED prog

CallOperands(call) ==
    [i \in DOMAIN call.args |-> expressionAsType(CallArguments(call)[i], ParameterTypes(call)[i])]

\* ... a call of a function by name goes to virtualFunctionName; any other
\* callee is visited after the arguments.
EndArguments ==
    /\ Running /\ Top.t = "arguments"
    /\ IF Node.callee.k = "ident" /\ Node.callee.isFun
       THEN IF virtualFunction(Fun(Node.callee.ref)) = None THEN Internal
            ELSE Define(Node, Rhs("call", FunName(virtualFunction(Fun(Node.callee.ref)).id), CallOperands(Node)))
       ELSE Continue(<<Accept(Node.callee), Task("callee", Node, 0)>>)
            /\ UNCHANGED <<code, localVariables, functions, phase>>
    /\ UNCHANGED prog

\* internalDispatch: the collector creates each dispatch function once.
Dispatch(key) ==
    IF key \in DOMAIN functions THEN functions
    ELSE functions @@ (key :> DispatchCases(key[1], key[2]))

\* ... the callee's value and the arguments go to the dispatch function of
\* the callee type's arity.
EndCallee ==
    /\ Running /\ Top.t = "callee"
    /\ LET key == <<Len(Node.callee.type.params), Len(Node.callee.type.rets)>>
       IN  IF SizeOnStack(Node.type) # 1 THEN Unimplemented
           ELSE /\ functions' = Dispatch(key)
                /\ code' = Append(code, Let(ExprName(Node), Rhs("dispatch", key,
                              <<Operand(ExprName(Node.callee), <<>>)>> \o CallOperands(Node))))
                /\ Continue(<<>>)
                /\ UNCHANGED <<localVariables, phase>>
    /\ UNCHANGED prog

\* visit(InlineAssembly): the block copied by CopyTranslate, which stops at
\* the first _slot or _offset reference (solUnimplementedAssert) or
\* reference to a variable without a name (variableName's solAssert), and
\* printed as one Yul block.
VisitInlineAssembly ==
    /\ Running /\ Top.t = "accept" /\ Node.k = "asm"
    /\ LET refs == ExternalRefs(Node.ops)
           bad == SelectInSeq(refs, LAMBDA r : r.slot \/ r.var \notin localVariables)
       IN  IF bad # 0 THEN IF refs[bad].slot THEN Unimplemented ELSE Internal
           ELSE /\ code' = Append(code, [op |-> "block", body |-> [i \in DOMAIN Node.ops |-> TranslateOp(Node.ops[i])]])
                /\ Continue(<<>>)
                /\ UNCHANGED <<localVariables, functions, phase>>
    /\ UNCHANGED prog

Finish ==
    /\ phase = "run" /\ tasks = <<>>
    /\ phase' = "done"
    /\ UNCHANGED <<prog, code, localVariables, functions, tasks>>

\* The translation has returned or thrown.
Stopped ==
    /\ phase # "run"
    /\ UNCHANGED vars

Init ==
    /\ InitialProgram(prog)
    /\ code = <<>>
    /\ localVariables = {}
    /\ functions = [key \in {} |-> {}]
    /\ tasks = [i \in DOMAIN prog |-> Accept(prog[i])]
    /\ phase = "run"

Next ==
    \/ VisitVariableDeclaration \/ EndVariableDeclaration \/ VisitChildren
    \/ VisitAssignment \/ EndAssignment \/ VisitIdentifier \/ VisitLiteral
    \/ EndBinaryOperation \/ VisitFunctionCall \/ EndConversion \/ EndArgument
    \/ EndArguments \/ EndCallee \/ VisitInlineAssembly \/ Finish \/ Stopped

Spec == Init /\ [][Next]_vars /\ WF_vars(Next)

(***************************************************************************)
(* What the generated lines do: a Yul run with the dispatch functions the  *)
(* collector holds.  A call records the function and its arguments; the   *)
(* checked addition reverts on overflow; a dispatch without a case for    *)
(* the value is invalid().                                                 *)
(***************************************************************************)
Value(o, env) == IF o.conv = <<>> THEN env[o.n] ELSE Conv(env[o.n], o.conv[1])

Called(st, f, vals) ==
    [st |-> [st EXCEPT !.calls = Append(@, <<f, vals>>)], v |-> Ret(f, vals)]

YulRhs(r, st) ==
    LET vals == [i \in DOMAIN r.a |-> Value(r.a[i], st.env)]
    IN  CASE r.r = "zero" -> [st |-> st, v |-> 0]
          [] r.r = "lit"  -> [st |-> st, v |-> r.v]
          [] r.r = "op"   -> [st |-> st, v |-> vals[1]]
          [] r.r = "add"  -> IF vals[1] + vals[2] >= 2 ^ r.v
                             THEN [st |-> [st EXCEPT !.halt = "revert"], v |-> 0]
                             ELSE [st |-> st, v |-> vals[1] + vals[2]]
          [] r.r = "call" -> Called(st, r.v[2], vals)
          [] r.r = "dispatch" ->
                LET cases == {c \in functions[r.v] : c.funID = vals[1]}
                IN  IF cases = {} THEN [st |-> [st EXCEPT !.halt = "invalid"], v |-> 0]
                    ELSE Called(st, (CHOOSE c \in cases : TRUE).name[2], Tail(vals))

\* A block runs its lines; the names it declares go out of scope after it.
RECURSIVE YulLine(_, _)
YulLine(st, line) ==
    IF st.halt # "none" THEN st
    ELSE IF line.op = "block"
    THEN LET inner == FoldLeft(YulLine, st, line.body)
         IN  [inner EXCEPT !.env = Restrict(@, DOMAIN st.env)]
    ELSE LET o == YulRhs(line.rhs, st)
         IN  IF o.st.halt # "none" THEN o.st
             ELSE [o.st EXCEPT !.env = IF line.op = "let" THEN (line.x :> o.v) @@ @
                                       ELSE [@ EXCEPT ![line.x] = o.v]]

YulRun(lines) == FoldLeft(YulLine, [env |-> <<>>, calls |-> <<>>, halt |-> "none"], lines)

\* Every name a line reads or assigns is declared by an earlier line of its
\* block or of an enclosing one, and no name is declared twice, nor in a
\* block again (Yul forbids shadowing).
RECURSIVE WellScopedIn(_, _)
WellScopedIn(lines, outer) ==
    \A i \in DOMAIN lines :
        LET declared == outer \cup {lines[j].x : j \in {j \in 1..(i - 1) : lines[j].op = "let"}}
        IN  IF lines[i].op = "block" THEN WellScopedIn(lines[i].body, declared)
            ELSE /\ \A j \in DOMAIN lines[i].rhs.a : lines[i].rhs.a[j].n \in declared
                 /\ (lines[i].op = "let") <=> (lines[i].x \notin declared)

WellScoped(lines) == WellScopedIn(lines, {})

(***************************************************************************)
(* What the Solidity statements do.  Calls evaluate their arguments in     *)
(* parameter order, then the callee, and go to the most derived function  *)
(* of the name and parameter types; values are converted implicitly where *)
(* they are stored, passed or combined.                                    *)
(***************************************************************************)
Position(c) == SelectInSeq(Hierarchy, LAMBDA x : x = c)

MostDerived(f) ==
    CHOOSE g \in Funs : /\ g.contract \in Range(Hierarchy) /\ ~g.ctor
                        /\ g.name = f.name /\ g.params = f.params
                        /\ \A i \in 1..(Position(g.contract) - 1) : Matching(Hierarchy[i], f) = {}

RECURSIVE Eval(_, _), EvalArgs(_, _, _)
Eval(e, s) ==
    IF s.rev THEN [s |-> s, v |-> 0]
    ELSE CASE e.k = "lit"                -> [s |-> s, v |-> e.type.n]
           [] e.k = "ident" /\ e.isFun   -> [s |-> s, v |-> MostDerived(Fun(e.ref)).id]
           [] e.k = "ident"              -> [s |-> s, v |-> s.env[e.ref]]
           [] e.k = "assign" ->
                LET r == Eval(e.rhs, s)
                IN  [s |-> [r.s EXCEPT !.env[e.lhs.ref] = Conv(r.v, e.type)], v |-> Conv(r.v, e.type)]
           [] e.k = "binary" /\ e.ctype.c = "rat" -> [s |-> s, v |-> e.ctype.n]
           [] e.k = "binary" ->
                LET a == Eval(e.l, s)
                    b == Eval(e.r, a.s)
                    sum == Conv(a.v, e.ctype) + Conv(b.v, e.ctype)
                IN  IF ~b.s.rev /\ sum >= 2 ^ e.ctype.n THEN [s |-> [b.s EXCEPT !.rev = TRUE], v |-> 0]
                    ELSE [s |-> b.s, v |-> sum]
           [] e.k = "call" /\ e.kind = "conv" ->
                LET a == Eval(e.args[1], s) IN [s |-> a.s, v |-> Conv(a.v, e.type)]
           [] OTHER ->
                LET as == EvalArgs(CallArguments(e), ParameterTypes(e), s)
                    c == IF e.callee.k = "ident" /\ e.callee.isFun
                         THEN [s |-> as.s, v |-> MostDerived(Fun(e.callee.ref)).id]
                         ELSE Eval(e.callee, as.s)
                IN  IF c.s.rev THEN c
                    ELSE [s |-> [c.s EXCEPT !.calls = Append(@, <<c.v, as.vs>>)], v |-> Ret(c.v, as.vs)]

EvalArgs(args, types, s) ==
    IF args = <<>> THEN [s |-> s, vs |-> <<>>]
    ELSE LET a == Eval(Head(args), s)
             rest == EvalArgs(Tail(args), Tail(types), a.s)
         IN  [s |-> rest.s, vs |-> <<Conv(a.v, Head(types))>> \o rest.vs]

\* Inline assembly runs its operations on the Solidity variables it
\* references and on names of its own.
AsmValue(acc, src) ==
    CASE src.k = "lit" -> src.v
      [] src.ext       -> acc.s.env[src.var]
      [] OTHER         -> acc.loc[src.n]

AsmStep(acc, op) ==
    CASE op.k = "let" -> [acc EXCEPT !.loc = (op.x :> AsmValue(acc, op.rhs)) @@ @]
      [] op.x.ext     -> [acc EXCEPT !.s.env[op.x.var] = AsmValue(acc, op.rhs)]
      [] OTHER        -> [acc EXCEPT !.loc[op.x.n] = AsmValue(acc, op.rhs)]

Exec(st, stmt) ==
    CASE st.rev -> st
      [] stmt.k = "asm" -> FoldLeft(AsmStep, [s |-> st, loc |-> <<>>], stmt.ops).s
      [] stmt.k = "decl" /\ stmt.init.k = "none" -> [st EXCEPT !.env = (stmt.var :> 0) @@ @]
      [] stmt.k = "decl" ->
            LET a == Eval(stmt.init, st)
            IN  [a.s EXCEPT !.env = (stmt.var :> Conv(a.v, VarType(stmt.var))) @@ @]
      [] OTHER -> Eval(stmt.e, st).s

SolRun(p) == FoldLeft(Exec, [env |-> <<>>, calls |-> <<>>, rev |-> FALSE], p)

(***************************************************************************)
(* Properties.                                                             *)
(***************************************************************************)
TypeOK ==
    /\ \A i \in DOMAIN code :
          \/ code[i].op = "block" /\ \A j \in DOMAIN code[i].body : code[i].body[j].op \in {"let", "set"}
          \/ /\ code[i].op \in {"let", "set"}
             /\ code[i].x[1] \in {"expr", "vloc"}
             /\ code[i].rhs.r \in {"zero", "lit", "op", "add", "call", "dispatch"}
             /\ \A j \in DOMAIN code[i].rhs.a : code[i].rhs.a[j].n[1] \in {"expr", "vloc"}
    /\ localVariables \subseteq {d.id : d \in Vars}
    /\ phase \in {"run", "done", "unimplemented", "internal"}
    /\ \A i \in DOMAIN tasks : tasks[i].t \in {"accept", "declared", "assigned", "binary",
                                                "converted", "argument", "arguments", "callee"}


\* The generated code is well scoped: every expr_ and vloc_ name is
\* declared by a "let" before any line reads or assigns it, and none twice
\* (defineExpression after the operands' visits, addLocalVariable before
\* the initial value's); a variable of an inline assembly block, whatever
\* the user called it, never redeclares a generated name (the usr$ prefix
\* of CopyTranslate::translateIdentifier).
CodeWellScoped == WellScoped(code)

\* The generated Yul does what the Solidity statements do: the same calls
\* to the same functions with the same arguments in the same order, the
\* same revert, no invalid() of a dispatch function, and the same values
\* in the local variables.  This covers the virtual resolution of direct
\* calls and of function values, the dispatch cases, the order of named
\* arguments, and every implicit and explicit conversion.
LoweringPreservesSemantics ==
    phase = "done" /\ WellScoped(code) =>
        LET y == YulRun(code)
            s == SolRun(prog)
        IN  /\ y.calls = s.calls
            /\ (y.halt = "revert") = s.rev
            /\ y.halt # "invalid"
            /\ ~s.rev => \A v \in DOMAIN s.env : y.env[VarName(v)] = s.env[v]

\* A well-typed program never trips an internal assertion of the generator
\* or the context (variableName of an unregistered variable, a failed
\* virtualFunction lookup, a missing named argument): only the staging
\* failures of solUnimplementedAssert may stop it.
NoInternalError == phase # "internal"

\* The translation returns or throws.
Terminates == <>(phase # "run")


=============================================================================
