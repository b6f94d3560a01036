--------------------------- MODULE MC_AssemblyItem ---------------------------
(***************************************************************************)
(* Model-checking instance of AssemblyItem: two variables, four item       *)
(* types, two opcodes, two payloads of which one is 257 (whose low byte,   *)
(* taken as an opcode, is the other's), two locations, two jump types.    *)
(***************************************************************************)
EXTENDS AssemblyItem

=============================================================================
