--------------------------- MODULE MC_UnusedPruner ---------------------------
(***************************************************************************)
(* Model-checking instance of UnusedPruner: every well-formed Yul AST of   *)
(* N statements that the Disambiguator and FunctionHoister can hand the    *)
(* pruner, with no or one externally used top-level function.              *)
(*                                                                         *)
(* Well-formed means what the parser's scoping rules allow: a function is  *)
(* visible in the whole block that defines it and in every block nested   *)
(* in it; a variable only after its declaration in its own block, and not *)
(* inside function bodies.  An expression that calls a user function is   *)
(* not movable; a statement references at most MaxUses names.             *)
(***************************************************************************)
EXTENDS UnusedPruner

CONSTANT MaxUses

MCStmts == 1..N

\* Enclosing blocks of a statement at parent p under the parent map par.
RECURSIVE EnclosingBlocks(_, _)
EnclosingBlocks(par, p) == IF p = 0 THEN {0} ELSE {p} \cup EnclosingBlocks(par, par[p])

\* Statements are numbered in pre-order: s sits at the top level, in the
\* body of s-1, or in a block enclosing s-1; and only functions have bodies.
\* Built statement by statement, as sequences of [kind, parent].
ParentOptions(pre, s) ==
    IF s = 1 THEN {0}
    ELSE LET par == [j \in DOMAIN pre |-> pre[j].parent]
         IN  {p \in {s - 1} \cup EnclosingBlocks(par, par[s - 1]) :
                p = 0 \/ pre[p].kind = "fun"}

RECURSIVE ShapePrefixes(_)
ShapePrefixes(i) ==
    IF i = 0 THEN {<<>>}
    ELSE UNION {{Append(pre, [kind |-> k, parent |-> p]) :
                    k \in Kinds, p \in ParentOptions(pre, i)}
                : pre \in ShapePrefixes(i - 1)}

Shapes ==
    {[kind |-> [s \in MCStmts |-> pre[s].kind], parent |-> [s \in MCStmts |-> pre[s].parent]]
        : pre \in ShapePrefixes(N)}

VisibleNames(sh, s) ==
    LET blocks == EnclosingBlocks(sh.parent, sh.parent[s])
    IN  {f \in MCStmts : sh.kind[f] = "fun" /\ sh.parent[f] \in blocks}
          \cup {v \in MCStmts : sh.kind[v] = "var" /\ v < s /\ sh.parent[v] = sh.parent[s]}

UseSets(sh, s) == {u \in SUBSET VisibleNames(sh, s) : Cardinality(u) <= MaxUses}

\* The choices for one statement of a shape.
StmtChoices(sh, s) ==
    LET base == [kind |-> sh.kind[s], parent |-> sh.parent[s]]
        funs == {f \in MCStmts : sh.kind[f] = "fun"}
        valued(u, mov, mul) ==
            [kind |-> base.kind, parent |-> base.parent, value |-> TRUE,
             movable |-> mov, multi |-> mul, uses |-> u]
    IN  CASE sh.kind[s] = "fun" ->
               {[kind |-> "fun", parent |-> base.parent, value |-> FALSE,
                 movable |-> TRUE, multi |-> FALSE, uses |-> {}]}
          [] sh.kind[s] = "var" ->
               {[kind |-> "var", parent |-> base.parent, value |-> FALSE,
                 movable |-> TRUE, multi |-> FALSE, uses |-> {}]}
               \cup {valued(u, TRUE, FALSE) : u \in {x \in UseSets(sh, s) : x \cap funs = {}}}
               \cup {valued(u, FALSE, m) : u \in UseSets(sh, s), m \in BOOLEAN}
          [] sh.kind[s] = "expr" ->
               {valued(u, TRUE, FALSE) : u \in {x \in UseSets(sh, s) : x \cap funs = {}}}
               \cup {valued(u, FALSE, FALSE) : u \in UseSets(sh, s)}

\* All ASTs of one shape: a choice for every statement in turn.
RECURSIVE FillAST(_, _, _, _)
FillAST(a, sh, i, acc) ==
    IF i > N THEN a = [s \in MCStmts |-> acc[s]]
    ELSE \E r \in StmtChoices(sh, i) : FillAST(a, sh, i + 1, Append(acc, r))

MCInitialUnit(a, e) ==
    \E sh \in Shapes :
        /\ FillAST(a, sh, 1, <<>>)
        /\ \E ext \in {{}} \cup {{f} : f \in {g \in MCStmts : sh.kind[g] = "fun" /\ sh.parent[g] = 0}} :
               e = ext

=============================================================================
