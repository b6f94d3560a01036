--------------------------- MODULE MC_LoopLowering ---------------------------
(***************************************************************************)
(* Model-checking instance of LoopLowering: every function body of one or  *)
(* two statements holding one for loop whose body has up to two           *)
(* statements, of which one may be an inner loop with a one-statement     *)
(* body.  Loops have a condition or not; the outer loop an init and a post *)
(* statement or not; returns a value or not.  A loop without a condition  *)
(* leaves in its first run of the body (break or return before any        *)
(* continue), so MaxIter bounds every loop.                               *)
(***************************************************************************)
EXTENDS LoopLowering

Sol(k, l, init, post, cond, body) ==
    [k |-> k, l |-> l, init |-> init, post |-> post, cond |-> cond, body |-> body]

Atom(k, l) == Sol(k, l, 0, 0, FALSE, <<>>)

\* The body of a loop without a condition must leave it on the first run.
MustExit(body) ==
    \E i \in DOMAIN body :
        /\ body[i].k \in {"break", "return"}
        /\ \A j \in 1..(i - 1) : body[j].k \in {"work", "for"}

Straight == {Atom("work", 1), Atom("return", 0), Atom("return", 1)}
Jumps == {Atom("break", 0), Atom("continue", 0)}

Loops(bodies, inits) ==
    {l \in {Sol("for", 1, i, p, c, b) : i \in inits, p \in inits, c \in BOOLEAN, b \in bodies} :
        l.cond \/ MustExit(l.body)}

Inner == Loops({<<>>} \cup {<<s>> : s \in Straight \cup Jumps}, {0})

OuterAtoms == Straight \cup Jumps \cup Inner

OuterBodies ==
    {<<>>} \cup {<<a>> : a \in OuterAtoms}
    \cup {<<a, b>> : a \in OuterAtoms, b \in OuterAtoms \ Inner}
    \cup {<<a, b>> : a \in OuterAtoms \ Inner, b \in Inner}

Outer == Loops(OuterBodies, {0, 1})

Tops == {<<o>> : o \in Outer} \cup {<<o, x>> : o \in Outer, x \in Straight}
                              \cup {<<x, o>> : o \in Outer, x \in Straight}

\* Every statement gets its own label, from its position: a loop is
\* labelled p, a statement 3q, an init 3p + 1 and a post 3p + 2.
RECURSIVE Relabel(_, _)
Relabel(ss, pre) ==
    [i \in DOMAIN ss |->
        LET p == pre * 4 + i
        IN  [ss[i] EXCEPT !.l = IF ss[i].k = "for" THEN p ELSE IF @ = 0 THEN 0 ELSE 3 * p,
                          !.init = IF @ = 0 THEN 0 ELSE 3 * p + 1,
                          !.post = IF @ = 0 THEN 0 ELSE 3 * p + 2,
                          !.body = Relabel(@, p)]]

Programs == {Relabel(t, 1) : t \in Tops}

MCInitialProgram(p) == p \in Programs

=============================================================================
