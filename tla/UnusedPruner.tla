---------------------------- MODULE UnusedPruner ----------------------------
(***************************************************************************)
(* The Yul optimiser stage that removes unused functions and variables and *)
(* movable expression statements (libyul/optimiser/UnusedPruner.cpp), run  *)
(* by UnusedPruner::runUntilStabilised until a run reports no change.      *)
(*                                                                         *)
(* The AST is abstracted to its statements 1..N numbered in pre-order.     *)
(* Each statement has a kind ("fun", "var" or "expr"), the block it sits   *)
(* in (0 is the top-level block, f > 0 the body of function f), whether it *)
(* has a value (a variable declaration may lack an initializer), whether   *)
(* that value is movable (MovableChecker), whether a declaration declares  *)
(* several variables, and the set of names its expression references.      *)
(* A statement that declares something declares the name equal to its id; *)
(* the further variables of a multi-variable declaration are never         *)
(* referenced.  The references of a function are those of its body        *)
(* statements, which are statements of their own.                          *)
(*                                                                         *)
(* One step of the model is one statement decision of the pruner, one      *)
(* block it enters, one run it constructs or one run it ends, in the order *)
(* the ASTModifier walk performs them.                                     *)
(***************************************************************************)
EXTENDS Naturals, Sequences, FiniteSets

LOCAL INSTANCE Relation

CONSTANTS
    N,                  \* number of statements in the AST
    InitialUnit(_, _)   \* InitialUnit(a, e): a is an AST to prune, with e
                        \* its externally used functions

Stmts == 1..N
Names == Stmts
Kinds == {"fun", "var", "expr"}

StmtRecord ==
    [kind: Kinds, parent: 0..N, value: BOOLEAN, movable: BOOLEAN,
     multi: BOOLEAN, uses: SUBSET Names]

VARIABLES
    ast,              \* the statements as currently rewritten
    removed,          \* statements replaced by an empty block and removed
    externallyUsed,   \* _externallyUsedFunctions of runUntilStabilised
    references,       \* m_references of the current UnusedPruner object
    shouldRunAgain,   \* m_shouldRunAgain of the current UnusedPruner object
    work,             \* pending steps of the AST walk of the current run
    phase             \* "ctor", "walk", "stable" or "failed" (OptimizerException)

vars == <<ast, removed, externallyUsed, references, shouldRunAgain,
          work, phase>>

(***************************************************************************)
(* Tree structure.                                                         *)
(***************************************************************************)
RECURSIVE Ancestors(_)
Ancestors(s) ==
    IF ast[s].parent = 0 THEN {} ELSE {ast[s].parent} \cup Ancestors(ast[s].parent)

\* A statement is still in the AST when neither it nor an enclosing
\* function definition has been removed.
Live(s) == s \notin removed /\ \A a \in Ancestors(s) : a \notin removed
LiveStmts == {s \in Stmts : Live(s)}

\* Seeded fault: only the statements directly in the body of f, not those
\* of the functions nested in it.
BodyShallow(f) == {s \in LiveStmts : ast[s].parent = f}

\* The live statements of the body of function f, nested ones included.
Body(f) == {s \in LiveStmts : f \in Ancestors(s)}

\* ReferencesCounter::countReferences over a set of statements: the number
\* of statements that reference each name.
CountReferences(S) == [n \in Names |-> Cardinality({s \in S : n \in ast[s].uses})]

\* The constructor: count all references and add one for every externally
\* used function.
InitialReferences ==
    LET c == CountReferences(LiveStmts)
    IN  [n \in Names |-> c[n] + (IF n \in externallyUsed THEN 1 ELSE 0)]

\* Seeded fault: a name counts as used only when referenced twice.
usedTwice(n) == references[n] > 1

used(n) == references[n] > 0

\* Seeded fault: the counts are subtracted but m_shouldRunAgain is not set.
subtractReferencesNoFlag(sub) ==
    IF \A n \in Names : references[n] >= sub[n]
    THEN /\ references' = [n \in Names |-> references[n] - sub[n]]
         /\ UNCHANGED <<shouldRunAgain, phase>>
    ELSE /\ phase' = "failed"
         /\ UNCHANGED <<references, shouldRunAgain>>

(***************************************************************************)
(* subtractReferences: asserts that every subtracted count is recorded and *)
(* not larger than the record, subtracts, and sets m_shouldRunAgain for    *)
(* every name in the subtrahend (a name with count 0 is not in it).        *)
(***************************************************************************)
subtractReferences(sub) ==
    IF \A n \in Names : references[n] >= sub[n]
    THEN /\ references' = [n \in Names |-> references[n] - sub[n]]
         /\ shouldRunAgain' = (shouldRunAgain \/ \E n \in Names : sub[n] > 0)
         /\ UNCHANGED phase
    ELSE /\ phase' = "failed"
         /\ UNCHANGED <<references, shouldRunAgain>>

(***************************************************************************)
(* The walk.  operator()(Block) first decides on every statement of the    *)
(* block in order, then removes the emptied blocks, then ASTModifier       *)
(* descends into every remaining statement, i.e. into the bodies of the    *)
(* function definitions that were kept.                                    *)
(***************************************************************************)
Children(b) ==
    SelectSeq([i \in 1..N |-> i], LAMBDA s : ast[s].parent = b /\ Live(s))

BlockSteps(b) ==
    LET cs   == Children(b)
        funs == SelectSeq(cs, LAMBDA s : ast[s].kind = "fun")
    IN  [i \in 1..Len(cs) |-> [op |-> "stmt", s |-> cs[i]]]
          \o [i \in 1..Len(funs) |-> [op |-> "descend", s |-> funs[i]]]

\* Head of the walk is a statement decision for s.
Visiting(s) == work # <<>> /\ Head(work) = [op |-> "stmt", s |-> s]

\* The remaining walk after one statement decision.
Step == work' = Tail(work)

EnterBlock(b) ==
    /\ phase = "walk"
    /\ work # <<>>
    /\ Head(work) = [op |-> "block", s |-> b]
    /\ work' = BlockSteps(b) \o Tail(work)
    /\ UNCHANGED <<ast, removed, externallyUsed, references, shouldRunAgain,
                   phase>>

\* ASTModifier visiting a function definition walks its body; a function
\* that this run removed is an empty block and is gone.
Descend(f) ==
    /\ phase = "walk"
    /\ work # <<>>
    /\ Head(work) = [op |-> "descend", s |-> f]
    /\ work' = (IF Live(f) THEN <<[op |-> "block", s |-> f]>> ELSE <<>>) \o Tail(work)
    /\ UNCHANGED <<ast, removed, externallyUsed, references, shouldRunAgain,
                   phase>>

(***************************************************************************)
(* The statement decisions of operator()(Block).                           *)
(***************************************************************************)
\* Seeded fault: the function's references are subtracted but the statement
\* is not replaced by an empty block.
RemoveFunctionKeepsStatement(s) ==
    /\ phase = "walk" /\ Visiting(s)
    /\ ast[s].kind = "fun"
    /\ ~used(s)
    /\ subtractReferences(CountReferences(Body(s)))
    /\ Step
    /\ UNCHANGED <<ast, removed, externallyUsed>>

RemoveFunction(s) ==
    /\ phase = "walk" /\ Visiting(s)
    /\ ast[s].kind = "fun"
    /\ ~used(s)
    /\ subtractReferences(CountReferences(Body(s)))
    /\ removed' = removed \cup {s}
    /\ Step
    /\ UNCHANGED <<ast, externallyUsed>>

\* All declared variables unused and no initializer: removed, nothing to
\* subtract.
RemoveUninitializedVariable(s) ==
    /\ phase = "walk" /\ Visiting(s)
    /\ ast[s].kind = "var"
    /\ ~used(s)
    /\ ~ast[s].value
    /\ removed' = removed \cup {s}
    /\ Step
    /\ UNCHANGED <<ast, externallyUsed, references, shouldRunAgain, phase>>

\* Seeded fault: the declaration is removed without subtracting the
\* references of its initializer.
RemoveMovableVariableNoSubtract(s) ==
    /\ phase = "walk" /\ Visiting(s)
    /\ ast[s].kind = "var"
    /\ ~used(s)
    /\ ast[s].value /\ ast[s].movable
    /\ removed' = removed \cup {s}
    /\ Step
    /\ UNCHANGED <<ast, externallyUsed, references, shouldRunAgain, phase>>

\* All declared variables unused and a movable initializer: removed, the
\* initializer's references subtracted.
RemoveMovableVariable(s) ==
    /\ phase = "walk" /\ Visiting(s)
    /\ ast[s].kind = "var"
    /\ ~used(s)
    /\ ast[s].value /\ ast[s].movable
    /\ subtractReferences(CountReferences({s}))
    /\ removed' = removed \cup {s}
    /\ Step
    /\ UNCHANGED <<ast, externallyUsed>>

\* Seeded fault: `pop(f())` is taken to be movable.
DowngradeVariablePopMovable(s) ==
    /\ phase = "walk" /\ Visiting(s)
    /\ ast[s].kind = "var"
    /\ ~used(s)
    /\ ast[s].value /\ ~ast[s].movable /\ ~ast[s].multi
    /\ ast' = [ast EXCEPT ![s].kind = "expr", ![s].movable = TRUE]
    /\ Step
    /\ UNCHANGED <<removed, externallyUsed, references, shouldRunAgain, phase>>

\* `let a := f()` with `a` unused becomes the expression statement
\* `pop(f())`, which is not movable; its references stay.
DowngradeVariable(s) ==
    /\ phase = "walk" /\ Visiting(s)
    /\ ast[s].kind = "var"
    /\ ~used(s)
    /\ ast[s].value /\ ~ast[s].movable /\ ~ast[s].multi
    /\ ast' = [ast EXCEPT ![s].kind = "expr", ![s].movable = FALSE]
    /\ Step
    /\ UNCHANGED <<removed, externallyUsed, references, shouldRunAgain, phase>>

\* Seeded fault: every expression statement is removed, movable or not.
RemoveExpressionUnchecked(s) ==
    /\ phase = "walk" /\ Visiting(s)
    /\ ast[s].kind = "expr"
    /\ subtractReferences(CountReferences({s}))
    /\ removed' = removed \cup {s}
    /\ Step
    /\ UNCHANGED <<ast, externallyUsed>>

RemoveMovableExpression(s) ==
    /\ phase = "walk" /\ Visiting(s)
    /\ ast[s].kind = "expr"
    /\ ast[s].movable
    /\ subtractReferences(CountReferences({s}))
    /\ removed' = removed \cup {s}
    /\ Step
    /\ UNCHANGED <<ast, externallyUsed>>

\* Whether operator()(Block) rewrites statement s under the counts refs;
\* otherwise the pruner leaves it as it is.
PrunableWith(s, refs) ==
    CASE ast[s].kind = "fun" -> refs[s] = 0
      [] ast[s].kind = "var" -> refs[s] = 0 /\ ~(ast[s].value /\ ~ast[s].movable /\ ast[s].multi)
      [] ast[s].kind = "expr" -> ast[s].movable

Prunable(s) == PrunableWith(s, references)

KeepStatement(s) ==
    /\ phase = "walk" /\ Visiting(s)
    /\ ~Prunable(s)
    /\ Step
    /\ UNCHANGED <<ast, removed, externallyUsed, references, shouldRunAgain,
                   phase>>

(***************************************************************************)
(* runUntilStabilised: construct a pruner (recount), walk the AST, and     *)
(* loop while the run reports shouldRunAgain().                            *)
(***************************************************************************)
Construct ==
    /\ phase = "ctor"
    /\ references' = InitialReferences
    /\ shouldRunAgain' = FALSE
    /\ work' = <<[op |-> "block", s |-> 0]>>
    /\ phase' = "walk"
    /\ UNCHANGED <<ast, removed, externallyUsed>>

\* Seeded fault: the loop condition of runUntilStabilised inverted.
EndRunInverted ==
    /\ phase = "walk"
    /\ work = <<>>
    /\ phase' = IF shouldRunAgain THEN "stable" ELSE "ctor"
    /\ UNCHANGED <<ast, removed, externallyUsed, references, shouldRunAgain,
                   work>>

EndRun ==
    /\ phase = "walk"
    /\ work = <<>>
    /\ phase' = IF shouldRunAgain THEN "ctor" ELSE "stable"
    /\ UNCHANGED <<ast, removed, externallyUsed, references, shouldRunAgain,
                   work>>

\* runUntilStabilised has returned (or thrown); the program goes on without
\* the pruner.
Finished ==
    /\ phase \in {"stable", "failed"}
    /\ UNCHANGED vars

Init ==
    /\ InitialUnit(ast, externallyUsed)
    /\ removed = {}
    /\ references = [n \in Names |-> 0]
    /\ shouldRunAgain = FALSE
    /\ work = <<>>
    /\ phase = "ctor"

Next ==
    \/ Construct
    \/ EndRun
    \/ \E b \in {0} \cup Stmts : EnterBlock(b)
    \/ \E s \in Stmts :
        \/ Descend(s)
        \/ RemoveFunction(s)
        \/ RemoveUninitializedVariable(s)
        \/ RemoveMovableVariable(s)
        \/ DowngradeVariable(s)
        \/ RemoveMovableExpression(s)
        \/ KeepStatement(s)
    \/ Finished

\* The pruner is sequential code: every enabled step is eventually taken.
Spec == Init /\ [][Next]_vars /\ WF_vars(Next)

-----------------------------------------------------------------------------
\* The rewritten AST stays well-formed: statements only sit in function
\* bodies, and an expression MovableChecker accepts calls no user function.
TypeOK ==
    /\ ast \in [Stmts -> StmtRecord]
    /\ \A s \in Stmts :
        /\ ast[s].parent # 0 => ast[ast[s].parent].kind = "fun"
        /\ ast[s].movable => \A n \in ast[s].uses : ast[n].kind # "fun"
    /\ removed \subseteq Stmts
    /\ externallyUsed \subseteq Names
    /\ references \in [Names -> Nat]
    /\ shouldRunAgain \in BOOLEAN
    /\ work \in Seq([op: {"block", "stmt", "descend"}, s: 0..N])
    /\ phase \in {"ctor", "walk", "stable", "failed"}

(***************************************************************************)
(* Reference-count invariant: while a run walks the AST, m_references is   *)
(* exactly a fresh count over the statements still in the AST plus one for *)
(* every externally used function, through every removal and cascade of    *)
(* subtractReferences.                                                     *)
(***************************************************************************)
ReferencesExact == phase = "walk" => references = InitialReferences

(***************************************************************************)
(* Soundness: the pruner never removes a function or variable that some    *)
(* statement still in the AST references, however removals cascade within  *)
(* a run and across the runs of runUntilStabilised.                        *)
(***************************************************************************)
NoDanglingReference ==
    \A s \in LiveStmts : \A n \in ast[s].uses : Live(n)

(***************************************************************************)
(* A side effect is never dropped: no removed statement carried a value    *)
(* that MovableChecker rejects (`let a := f()` becomes `pop(f())`, a       *)
(* non-movable expression statement stays).                                *)
(***************************************************************************)
SideEffectsKept ==
    \A s \in removed :
        ~(ast[s].kind \in {"var", "expr"} /\ ast[s].value /\ ~ast[s].movable)

(***************************************************************************)
(* The assertions of subtractReferences never throw OptimizerException:    *)
(* no name is subtracted more often than it is recorded.                   *)
(***************************************************************************)
NoOptimizerException == phase # "failed"

(***************************************************************************)
(* When runUntilStabilised returns, the AST is a fixpoint: under a fresh   *)
(* count no statement in it is one the pruner would rewrite.               *)
(***************************************************************************)
StableIsFixpoint ==
    phase = "stable" => \A s \in LiveStmts : ~PrunableWith(s, InitialReferences)

(***************************************************************************)
(* What the fixpoint leaves behind.  The header says the pruner does not   *)
(* remove circular references (UnusedPruner.h:36): its test is a zero      *)
(* reference count, so a function that only itself, or a ring of dead      *)
(* functions, calls survives.  A function is reachable when the top-level  *)
(* code or an externally used function references it, or a statement      *)
(* directly in the body of a reachable function does.                      *)
(***************************************************************************)
LiveFuns == {f \in LiveStmts : ast[f].kind = "fun"}

CallRelation == [p \in LiveFuns \X LiveFuns |->
                   \E s \in LiveStmts : ast[s].parent = p[1] /\ p[2] \in ast[s].uses]

Roots == externallyUsed \cup UNION {ast[s].uses : s \in {s \in LiveStmts : ast[s].parent = 0}}

\* When runUntilStabilised returns, every unreachable function it kept is
\* kept only by a cycle: it lies on, or is called from, a ring of
\* unreachable functions calling each other.  Every other dead function,
\* however deep the cascade of removals that frees it, is gone.
OnlyCyclesSurvive ==
    phase = "stable" =>
        LET calls   == TransitiveClosure(CallRelation, LiveFuns)
            reached == {g \in LiveFuns : g \in Roots \/ \E r \in Roots \cap LiveFuns : calls[r, g]}
            dead    == LiveFuns \ reached
        IN  \A f \in dead : \E g \in dead : calls[g, g] /\ (g = f \/ calls[g, f])

(***************************************************************************)
(* runUntilStabilised terminates: the loop of runs ends.                   *)
(***************************************************************************)
Terminates == <>(phase = "stable")

=============================================================================
