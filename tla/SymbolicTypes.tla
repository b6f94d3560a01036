---------------------------- MODULE SymbolicTypes ----------------------------
(***************************************************************************)
(* The SMT encoding of Solidity types (libsolidity/formal/SymbolicTypes.cpp)*)
(* and the declaration of one symbolic variable: newSymbolicVariable picks *)
(* the kind of variable and the Solidity type it carries, the variable's  *)
(* SMT sort is smtSort of that type, and setSymbolicZeroValue and          *)
(* setSymbolicUnknownValue add assertions on its current value.            *)
(*                                                                         *)
(* A type is a record with a category c: "Integer" (signed, bits),         *)
(* "FixedBytes" (bytes), "Address", "Bool", "RationalNumber" (fractional), *)
(* "Function" (params, rets: sequences of types), or any other category,  *)
(* which the SMT checker does not support.  WordBits stands for the 256   *)
(* bits of IntegerType(256) and AddressBits for the 160 of an address, so *)
(* that the ranges are TLC integers.                                       *)
(***************************************************************************)
EXTENDS Integers, Sequences, SequencesExt, FiniteSets

CONSTANTS
    WordBits,        \* the width of IntegerType(256)
    AddressBits,     \* the width of an address
    InitialType(_)   \* InitialType(t): t is a type the SMT checker declares a variable of

UInt(bits) == [c |-> "Integer", signed |-> FALSE, bits |-> bits]

(***************************************************************************)
(* The category predicates and the SMT kind and sort of a type.           *)
(***************************************************************************)
isInteger(c) == c = "Integer"
isRational(c) == c = "RationalNumber"
isFixedBytes(c) == c = "FixedBytes"
isAddress(c) == c = "Address"
isNumber(c) == isInteger(c) \/ isRational(c) \/ isFixedBytes(c) \/ isAddress(c)
isBool(c) == c = "Bool"
isFunction(c) == c = "Function"
isSupportedType(c) == isNumber(c) \/ isBool(c) \/ isFunction(c)

\* Sort("fail") is a solAssert, Sort("unimplemented") a solUnimplementedAssert.
Sort(k) == [k |-> k]
Failure == {Sort("fail"), Sort("unimplemented")}

smtKind(c) == IF isNumber(c) THEN "Int" ELSE IF isBool(c) THEN "Bool" ELSE "fail"

RECURSIVE smtSort(_), smtSorts(_)
smtSort(t) ==
    CASE smtKind(t.c) = "Int"  -> Sort("Int")
      [] smtKind(t.c) = "Bool" -> Sort("Bool")
      [] smtKind(t.c) = "Function" ->
            LET ps == smtSorts(t.params)
            IN  IF \E i \in DOMAIN ps : ps[i] \in Failure THEN Sort("fail")
                ELSE IF Len(t.rets) # 1 THEN Sort("fail")
                ELSE IF smtSort(t.rets[1]) \in Failure THEN Sort("fail")
                ELSE [k |-> "Function", params |-> ps, ret |-> smtSort(t.rets[1])]
      [] smtKind(t.c) = "Array" -> Sort("unimplemented")
      [] OTHER -> Sort("fail")

smtSorts(ts) == [i \in DOMAIN ts |-> smtSort(ts[i])]

(***************************************************************************)
(* newSymbolicVariable: whether the variable is abstract, its kind and    *)
(* the Solidity type it carries, or Failed.  The SSA index of a new       *)
(* variable is 0 and its next free index 1 (SSAVariable::resetIndex).     *)
(* A fixed-bytes variable carries the unsigned integer type of its width *)
(* and an address variable the unsigned integer type of an address.       *)
(***************************************************************************)
NewSSANoReset == [currentIndex |-> 0, nextFreeIndex |-> 0]
NewSSA == [currentIndex |-> 0, nextFreeIndex |-> 1]

Failed == [kind |-> "fail"]
NoVar == [kind |-> "none"]

Var(abstract, kind, type) == [abstract |-> abstract, kind |-> kind, type |-> type, ssa |-> NewSSA]

newSymbolicVariableOfFunctionType(t) ==
    CASE ~isSupportedType(t.c)  -> Var(TRUE, "Int", UInt(WordBits))
      [] isBool(t.c)            -> Var(FALSE, "Bool", t)
      [] isFunction(t.c)        -> Var(FALSE, "Int", t)
      [] isInteger(t.c)         -> Var(FALSE, "Int", t)
      [] isFixedBytes(t.c)      -> Var(FALSE, "FixedBytes", UInt(8 * t.bytes))
      [] isAddress(t.c)         -> Var(FALSE, "Address", UInt(AddressBits))
      [] isRational(t.c)        -> Var(FALSE, "Int", IF t.fractional THEN UInt(WordBits) ELSE t)
      [] OTHER                  -> Failed
newSymbolicVariable(t) ==
    CASE ~isSupportedType(t.c)  -> Var(TRUE, "Int", UInt(WordBits))
      [] isBool(t.c)            -> Var(FALSE, "Bool", t)
      [] isFunction(t.c)        -> Var(FALSE, "Int", UInt(WordBits))
      [] isInteger(t.c)         -> Var(FALSE, "Int", t)
      [] isFixedBytes(t.c)      -> Var(FALSE, "FixedBytes", UInt(8 * t.bytes))
      [] isAddress(t.c)         -> Var(FALSE, "Address", UInt(AddressBits))
      [] isRational(t.c)        -> Var(FALSE, "Int", IF t.fractional THEN UInt(WordBits) ELSE t)
      [] OTHER                  -> Failed

minValue(t) == IF t.signed THEN -(2^(t.bits - 1)) ELSE 0
maxValuePastEnd(t) == IF t.signed THEN 2^(t.bits - 1) ELSE 2^t.bits
maxValue(t) == IF t.signed THEN 2^(t.bits - 1) - 1 ELSE 2^t.bits - 1

\* The assertions on the current value: <<op, k>> with op "=", ">=" or "<=".
setSymbolicZeroValue(t) ==
    IF isInteger(t.c) THEN {<<"=", 0>>}
    ELSE IF isBool(t.c) THEN {<<"=", FALSE>>}
    ELSE {}
setSymbolicUnknownValue(t) ==
    IF isInteger(t.c) THEN {<<">=", minValue(t)>>, <<"<=", maxValue(t)>>} ELSE {}

(***************************************************************************)
(* The declaration of one variable of type ty.                            *)
(***************************************************************************)
VARIABLES
    ty,          \* the Solidity type, unchanged
    var,         \* the symbolic variable, NoVar before it is made
    assertions,  \* what the solver has been told of its current value
    done,        \* the value initialisations applied: a subset of {"zero", "unknown"}
    phase        \* "run" or "internal" (a solAssert)

vars == <<ty, var, assertions, done, phase>>

Init ==
    /\ InitialType(ty)
    /\ var = NoVar
    /\ assertions = {}
    /\ done = {}
    /\ phase = "run"

\* newSymbolicVariable and the constructor, which takes the SMT sort of
\* the variable's type.
NewVariable ==
    /\ phase = "run" /\ var = NoVar
    /\ IF newSymbolicVariable(ty) = Failed \/ smtSort(newSymbolicVariable(ty).type) \in Failure
       THEN phase' = "internal" /\ UNCHANGED var
       ELSE var' = newSymbolicVariable(ty) /\ UNCHANGED phase
    /\ UNCHANGED <<ty, assertions, done>>

SetZeroValue ==
    /\ phase = "run" /\ var # NoVar /\ "zero" \notin done
    /\ assertions' = assertions \cup setSymbolicZeroValue(var.type)
    /\ done' = done \cup {"zero"}
    /\ UNCHANGED <<ty, var, phase>>

SetUnknownValue ==
    /\ phase = "run" /\ var # NoVar /\ "unknown" \notin done
    /\ assertions' = assertions \cup setSymbolicUnknownValue(var.type)
    /\ done' = done \cup {"unknown"}
    /\ UNCHANGED <<ty, var, phase>>

Settled ==
    /\ phase # "run" \/ done = {"zero", "unknown"}
    /\ UNCHANGED vars

Next == NewVariable \/ SetZeroValue \/ SetUnknownValue \/ Settled

Spec == Init /\ [][Next]_vars

(***************************************************************************)
(* What the value of a declared variable may be, read off the assertions: *)
(* an interval of integers, each bound a set that is empty when the bound *)
(* is absent, or a set of Booleans.                                        *)
(***************************************************************************)
Lowest(S) == CHOOSE k \in S : \A j \in S : k <= j
Highest(S) == CHOOSE k \in S : \A j \in S : k >= j
Bounds(ops) == {a[2] : a \in {a \in assertions : a[1] \in ops}}

AdmittedInterval ==
    [lo |-> IF Bounds({"=", ">="}) = {} THEN {} ELSE {Highest(Bounds({"=", ">="}))},
     hi |-> IF Bounds({"=", "<="}) = {} THEN {} ELSE {Lowest(Bounds({"=", "<="}))}]

AdmittedBools == {b \in BOOLEAN : \A a \in assertions : a[2] = b}

\* The values of a Solidity type the variable stands for: an abstract or
\* function variable stands for a 256-bit word.
Values(t) ==
    CASE isInteger(t.c)    -> [lo |-> {minValue(t)}, hi |-> {maxValue(t)}]
      [] isAddress(t.c)    -> [lo |-> {0}, hi |-> {2^AddressBits - 1}]
      [] isFixedBytes(t.c) -> [lo |-> {0}, hi |-> {2^(8 * t.bytes) - 1}]
      [] OTHER             -> [lo |-> {0}, hi |-> {2^WordBits - 1}]

(***************************************************************************)
(* Properties.                                                             *)
(***************************************************************************)
TypeOK ==
    /\ var = NoVar \/ /\ var.kind \in {"Int", "Bool", "FixedBytes", "Address"}
                       /\ var.abstract \in BOOLEAN
                       /\ var.ssa.currentIndex < var.ssa.nextFreeIndex
    /\ \A a \in assertions : a[1] \in {"=", ">=", "<="}
    /\ done \subseteq {"zero", "unknown"}
    /\ phase \in {"run", "internal"}

\* newSymbolicVariable gives every type a variable whose type has an SMT
\* sort: unsupported types and function types are encoded as a 256-bit
\* integer, so the constructor's smtSort never fails (SymbolicTypes.cpp:84-117).
VariableWellSorted == phase # "internal"

\* A declared variable of a type other than a rational constant, once
\* initialised, admits exactly the right values: setSymbolicZeroValue
\* leaves only the type's zero, and setSymbolicUnknownValue every value of
\* the type, the full 256-bit word for an abstract or function variable
\* (SymbolicTypes.cpp:84-117, 173-200).
InitialisedValuesExact ==
    (var # NoVar /\ ~isRational(ty.c)) =>
        /\ "zero" \in done =>
              IF isBool(ty.c) THEN AdmittedBools = {FALSE}
              ELSE AdmittedInterval = [lo |-> {0}, hi |-> {0}]
        /\ done = {"unknown"} =>
              IF isBool(ty.c) THEN AdmittedBools = BOOLEAN
              ELSE AdmittedInterval = Values(ty)

\* Every type the SMT checker supports has an SMT sort: smtSort has a case
\* for function types, which gives them a function sort
\* (SymbolicTypes.cpp:35-45, 71-76).
SupportedTypeHasSort == isSupportedType(ty.c) => smtSort(ty) \notin Failure

=============================================================================
