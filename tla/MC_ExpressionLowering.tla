----------------------- MODULE MC_ExpressionLowering -----------------------
(***************************************************************************)
(* Model-checking instance of ExpressionLowering.  Contract C derives from *)
(* B.  B defines f(uint8), f(uint16), g(uint8 a, uint16 b), h(uint8) and   *)
(* k(uint8) without return value; C overrides f(uint8) and has a           *)
(* constructor.  The locals are x (uint8), y (uint16) and fp, a function   *)
(* of type function(uint8) returns (uint8).  Every program declares y and *)
(* fp, then declares x and works with it, in Solidity or in an inline      *)
(* assembly block.                                                         *)
(***************************************************************************)
EXTENDS ExpressionLowering

U8 == UInt(8)
U16 == UInt(16)
Rat(v) == Type("rat", v, <<>>, <<>>)
Tuple0 == Type("tuple", 0, <<>>, <<>>)

F(id, name, c, params, pnames, rets) ==
    [id |-> id, name |-> name, contract |-> c, params |-> params, pnames |-> pnames,
     rets |-> rets, ctor |-> FALSE]

MCFuns ==
    { F(1, "f", "B", <<U8>>, <<"a">>, <<U8>>),
      F(2, "f", "C", <<U8>>, <<"a">>, <<U8>>),
      F(3, "f", "B", <<U16>>, <<"a">>, <<U8>>),
      F(4, "g", "B", <<U8, U16>>, <<"a", "b">>, <<U8>>),
      F(5, "k", "B", <<U8>>, <<"a">>, <<>>),
      F(7, "h", "B", <<U8>>, <<"a">>, <<U8>>),
      [F(6, "", "C", <<>>, <<>>, <<>>) EXCEPT !.ctor = TRUE] }

MCHierarchy == <<"C", "B">>

X == 11
Y == 12
FP == 13
MCVars == {[id |-> X, type |-> U8], [id |-> Y, type |-> U16],
           [id |-> FP, type |-> FunType(F(0, "", "", <<U8>>, <<>>, <<U8>>))]}

MCRet(f, vs) == (f * 40 + FoldLeft(+, 0, vs)) % 256

(* Expressions, before they are numbered. *)
Lit(v) == [k |-> "lit", id |-> 0, type |-> Rat(v)]
StringLit == [k |-> "lit", id |-> 0, type |-> Type("string", 0, <<>>, <<>>)]
VarRef(v) == [k |-> "ident", id |-> 0, isFun |-> FALSE, ref |-> v, type |-> VarType(v)]
FunRef(f) == [k |-> "ident", id |-> 0, isFun |-> TRUE, ref |-> f, type |-> FunType(Fun(f))]
Bin(op, l, r, ct) == [k |-> "binary", id |-> 0, op |-> op, l |-> l, r |-> r, ctype |-> ct, type |-> ct]
Call(callee, args, names) ==
    [k |-> "call", id |-> 0, kind |-> "call", callee |-> callee, args |-> args, names |-> names,
     type |-> IF callee.type.rets = <<>> THEN Tuple0 ELSE callee.type.rets[1]]
ConvCall(to, arg) ==
    [k |-> "call", id |-> 0, kind |-> "conv", callee |-> [k |-> "type", id |-> 0],
     args |-> <<arg>>, names |-> <<>>, type |-> to]
Assignment(v, rhs) == [k |-> "assign", id |-> 0, lhs |-> VarRef(v), rhs |-> rhs, type |-> VarType(v)]
Decl(v, init) == [k |-> "decl", id |-> 0, var |-> v, init |-> init]
NoInit == [k |-> "none", id |-> 0]
Stmt(e) == [k |-> "exprstmt", id |-> 0, e |-> e]

(* Inline assembly: operations, references and literals of a block. *)
Asm(ops) == [k |-> "asm", id |-> 0, ops |-> ops]
ALet(n, rhs) == [k |-> "let", x |-> n, rhs |-> rhs]
ASet(r, rhs) == [k |-> "set", x |-> r, rhs |-> rhs]
ExtRef(v) == [k |-> "ref", ext |-> TRUE, var |-> v, slot |-> FALSE]
SlotRef(v) == [k |-> "ref", ext |-> TRUE, var |-> v, slot |-> TRUE]
Local(n) == [k |-> "ref", ext |-> FALSE, n |-> n]
ALit(v) == [k |-> "lit", v |-> v]

\* Expressions of type uint8 over y and fp.
U8Exprs ==
    { Lit(200),
      Bin("+", Lit(1), Lit(2), Rat(3)),
      Bin("+", ConvCall(U8, VarRef(Y)), Lit(200), U8),
      Call(FunRef(1), <<Lit(5)>>, <<>>),
      Call(FunRef(3), <<Assignment(Y, Lit(9))>>, <<>>),
      Call(FunRef(4), <<VarRef(Y), Lit(9)>>, <<"b", "a">>),
      Call(VarRef(FP), <<Call(FunRef(7), <<Lit(3)>>, <<>>)>>, <<>>) }

\* What follows the declaration of x.
Continuations ==
    { <<>>,
      <<Stmt(Assignment(X, Bin("+", VarRef(X), Lit(60), U8)))>>,
      <<Stmt(Assignment(FP, FunRef(7))), Stmt(Call(VarRef(FP), <<VarRef(X)>>, <<>>))>>,
      <<Stmt(Call(FunRef(5), <<VarRef(X)>>, <<>>))>>,
      <<Stmt(Bin("*", VarRef(X), VarRef(X), U8))>>,
      <<Stmt(StringLit)>>,
      \* a block whose own variable is spelt like the generated name of x,
      \* that copies x into y and stores 7 in x, before x is read again
      <<Asm(<<ALet(<<"vloc", X>>, ExtRef(X)), ASet(ExtRef(Y), Local(<<"vloc", X>>)),
              ASet(ExtRef(X), ALit(7))>>),
        Stmt(Call(FunRef(1), <<VarRef(X)>>, <<>>))>>,
      \* x_slot := 1 (any _slot or _offset suffix)
      <<Asm(<<ASet(SlotRef(X), ALit(1))>>)>> }

Tops ==
    { <<Decl(Y, Lit(y)), Decl(FP, FunRef(f)), Decl(X, e)>> \o c :
        y \in {7, 300}, f \in {1, 7}, e \in U8Exprs \cup {NoInit}, c \in Continuations }

\* Node ids from positions: child j of node p is p * 8 + j.
Child(f) == CASE f \in {"init", "e", "l", "lhs", "callee"} -> 1 [] OTHER -> 2

RECURSIVE Number(_, _)
Number(n, p) ==
    [f \in DOMAIN n |->
        CASE f = "id" -> p
          [] f \in {"init", "e", "l", "r", "lhs", "rhs", "callee"} -> Number(n[f], p * 8 + Child(f))
          [] f = "args" -> [i \in DOMAIN n.args |-> Number(n.args[i], p * 8 + 2 + i)]
          [] OTHER -> n[f]]

MCInitialProgram(p) == p \in {[i \in DOMAIN t |-> Number(t[i], i)] : t \in Tops}

=============================================================================
