-------------------------- MODULE MC_SymbolicTypes --------------------------
(***************************************************************************)
(* Model-checking instance of SymbolicTypes: integers of three widths, both *)
(* signed and unsigned, fixed bytes of one and two bytes, an address, a   *)
(* Boolean, a fractional and an integer rational constant, three function *)
(* types and six unsupported categories.  A 256-bit word is scaled to 16 *)
(* bits and an address to 12.                                              *)
(***************************************************************************)
EXTENDS SymbolicTypes

Int8 == [c |-> "Integer", signed |-> TRUE, bits |-> 8]
UInt8 == UInt(8)
BoolType == [c |-> "Bool"]

Fn(ps, rs) == [c |-> "Function", params |-> ps, rets |-> rs]

Types ==
    {[c |-> "Integer", signed |-> s, bits |-> b] : s \in BOOLEAN, b \in {8, 12, 16}}
    \cup {[c |-> "FixedBytes", bytes |-> n] : n \in {1, 2}}
    \cup {[c |-> "Address"], BoolType}
    \cup {[c |-> "RationalNumber", fractional |-> f] : f \in BOOLEAN}
    \cup {Fn(<<>>, <<UInt8>>), Fn(<<BoolType, Int8>>, <<>>), Fn(<<UInt8>>, <<BoolType, UInt8>>)}
    \cup {[c |-> x] : x \in {"Mapping", "Array", "Struct", "Enum", "Tuple", "StringLiteral"}}

MCInitialType(t) == t \in Types

=============================================================================
