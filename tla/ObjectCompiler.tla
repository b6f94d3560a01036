--------------------------- MODULE ObjectCompiler ---------------------------
(***************************************************************************)
(* The assembly stack (libyul/AssemblyStack.h) as a caller sees it: a unit *)
(* is parsed and analysed, optionally optimised, and assembled, as often   *)
(* and for as many machines as the caller likes.  parseAndAnalyze          *)
(* overwrites everything a previous call left; assemble is const.          *)
(*                                                                         *)
(* Assembling lowers the object to bytecode items and resolves the         *)
(* addresses of its tags in two passes (spec section 4.4): the first lays  *)
(* the items out with every tag reference at the widest address width,     *)
(* the second with the narrowest width that covers the largest tag         *)
(* position the first pass measured.  The bodies of the stack, of the     *)
(* object compiler and of the assembler are not in the repository; their   *)
(* behaviour is the spec's, the state is the header's.                     *)
(*                                                                         *)
(* A program is a sequence of items: [k |-> "op"] (one opcode),            *)
(* [k |-> "push", v] (a literal), [k |-> "pushtag", t] (a reference to tag *)
(* t) and [k |-> "tag", t] (the definition of tag t).  ByteBase is the     *)
(* number of values of one byte (256), scaled down so that width          *)
(* boundaries are reached by short programs.                              *)
(***************************************************************************)
EXTENDS Integers, Sequences, SequencesExt, FiniteSets

CONSTANTS
    Sources,          \* the sources a caller may pass: [parses, code]
    Machines,         \* the targets assemble accepts
    Language,         \* "Yul", "Assembly" or "StrictAssembly"
    ByteBase,         \* the values of one byte
    MaxAddressBytes,  \* the widest address encoding
    Optimised(_),     \* Optimised(code): what the optimiser suite makes of code
    NoObject, NoOutput

(***************************************************************************)
(* Item sizes and the layout of a program.                                 *)
(***************************************************************************)
\* The bytes a non-negative value takes: at least one.
BytesFor(v) == CHOOSE n \in 1..MaxAddressBytes + 2 : v < ByteBase^n /\ (n = 1 \/ v >= ByteBase^(n - 1))

\* AssemblyItem::bytesRequired(addressLength): an opcode and a tag
\* definition (JUMPDEST) are one byte, a push one plus its value's bytes, a
\* tag reference one plus the address width.
ItemBytes(it, w) ==
    CASE it.k = "push"    -> 1 + BytesFor(it.v)
      [] it.k = "pushtag" -> 1 + w
      [] OTHER            -> 1

\* Offset(code, w)[i]: the position of item i when tag references take w
\* bytes.
Offset(code, w) ==
    LET off[i \in 1..Len(code) + 1] == IF i = 1 THEN 0 ELSE off[i - 1] + ItemBytes(code[i - 1], w)
    IN  off

\* bytesRequired(AssemblyItems, addressLength).
bytesRequired(code, w) == Offset(code, w)[Len(code) + 1]

Tags(code) == {code[i].t : i \in {i \in DOMAIN code : code[i].k = "tag"}}

TagPosition(code, w, t) == Offset(code, w)[CHOOSE i \in DOMAIN code : code[i].k = "tag" /\ code[i].t = t]

MaxTagPosition(code, w) ==
    IF Tags(code) = {} THEN 0
    ELSE CHOOSE p \in {TagPosition(code, w, t) : t \in Tags(code)} :
            \A t \in Tags(code) : TagPosition(code, w, t) <= p

\* The two passes: the address width is the narrowest covering the largest
\* tag position of a layout at the widest width.
AddressWidthOptimistic(code) == BytesFor(MaxTagPosition(code, 1))
AddressWidth(code) == BytesFor(MaxTagPosition(code, MaxAddressBytes))

\* Analysis: every referenced tag is defined exactly once.
Analyses(code) ==
    /\ \A i \in DOMAIN code : code[i].k = "pushtag" => code[i].t \in Tags(code)
    /\ \A i, j \in DOMAIN code : code[i].k = "tag" /\ code[j].k = "tag" /\ code[i].t = code[j].t => i = j

(***************************************************************************)
(* The stack.                                                              *)
(***************************************************************************)
VARIABLES
    optimiserSettings,   \* m_optimiserSettings: whether the optimiser runs
    analysisSuccessful,  \* m_analysisSuccessful
    parserResult,        \* m_parserResult: [src, code, optimised], or NoObject
    errors,              \* m_errors: the kinds of error reported
    lastSource,          \* the source of the caller's last parseAndAnalyze
    output               \* the caller's last MachineAssemblyObject, or NoOutput

vars == <<optimiserSettings, analysisSuccessful, parserResult, errors, lastSource, output>>

\* AssemblyStack(evmVersion, language, optimiserSettings).
Init ==
    /\ optimiserSettings \in BOOLEAN
    /\ analysisSuccessful = FALSE
    /\ parserResult = NoObject
    /\ errors = {}
    /\ lastSource = NoObject
    /\ output = NoOutput

\* parseAndAnalyze: the errors cleared, the source parsed and, if it
\* parses, analysed; whatever an earlier call left is overwritten.
ParseAndAnalyzeKeepingResult(s) ==
    /\ errors' = IF ~s.parses THEN {"ParserError"} ELSE IF ~Analyses(s.code) THEN {"TypeError"} ELSE {}
    /\ analysisSuccessful' = (analysisSuccessful \/ (s.parses /\ Analyses(s.code)))
    /\ parserResult' = IF s.parses THEN [src |-> s, code |-> s.code, optimised |-> FALSE] ELSE NoObject
    /\ lastSource' = s
    /\ UNCHANGED <<optimiserSettings, output>>
ParseAndAnalyze(s) ==
    /\ errors' = IF ~s.parses THEN {"ParserError"} ELSE IF ~Analyses(s.code) THEN {"TypeError"} ELSE {}
    /\ analysisSuccessful' = (s.parses /\ Analyses(s.code))
    /\ parserResult' = IF s.parses THEN [src |-> s, code |-> s.code, optimised |-> FALSE] ELSE NoObject
    /\ lastSource' = s
    /\ UNCHANGED <<optimiserSettings, output>>

\* optimize: only for Yul and strict assembly; nothing is done unless the
\* optimiser is enabled and the object analysed.
Optimize ==
    /\ Language \in {"Yul", "StrictAssembly"}
    /\ IF optimiserSettings /\ analysisSuccessful
       THEN parserResult' = [parserResult EXCEPT !.code = Optimised(@), !.optimised = TRUE]
       ELSE UNCHANGED parserResult
    /\ UNCHANGED <<optimiserSettings, analysisSuccessful, errors, lastSource, output>>

\* assemble(machine), const: only after a successful analysis; the object
\* is compiled and its tags resolved in two passes.
Assemble(m) ==
    /\ analysisSuccessful
    /\ output' = [src |-> parserResult.src, optimised |-> parserResult.optimised, machine |-> m,
                  code |-> parserResult.code, width |-> AddressWidth(parserResult.code)]
    /\ UNCHANGED <<optimiserSettings, analysisSuccessful, parserResult, errors, lastSource>>

Next ==
    \/ \E s \in Sources : ParseAndAnalyze(s)
    \/ Optimize
    \/ \E m \in Machines : Assemble(m)

Spec == Init /\ [][Next]_vars

(***************************************************************************)
(* Properties.                                                             *)
(***************************************************************************)
\* The state has its types, and an analysed unit has an object.
TypeOK ==
    /\ optimiserSettings \in BOOLEAN /\ analysisSuccessful \in BOOLEAN
    /\ parserResult = NoObject \/ (parserResult.src \in Sources /\ parserResult.optimised \in BOOLEAN)
    /\ analysisSuccessful => parserResult # NoObject
    /\ errors \subseteq {"ParserError", "TypeError"}
    /\ output = NoOutput \/ (output.machine \in Machines /\ output.width \in 1..MaxAddressBytes)

AddressesFit ==
    output # NoOutput =>
        \A t \in Tags(output.code) : TagPosition(output.code, output.width, t) < ByteBase^output.width

=============================================================================
