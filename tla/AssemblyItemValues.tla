------------------------- MODULE AssemblyItemValues -------------------------
(***************************************************************************)
(* What an AssemblyItem promises (spec section 1): a value.  A set of      *)
(* variables, the slots, each holds an item or nothing yet; constructing,  *)
(* copying, tag() and pushTag() assign a slot a whole item, and each      *)
(* setter changes one field of one slot.  No operation on one slot        *)
(* changes another.                                                        *)
(*                                                                         *)
(* An item is [type, instr, data, loc, jump, pushed]: instr is the opcode *)
(* of an Operation (NoInstr otherwise), data the payload of any other     *)
(* type (NoData for an Operation), pushed the cached pushed value or       *)
(* NoData.                                                                 *)
(***************************************************************************)
EXTENDS Naturals

CONSTANTS
    Slots,        \* the variables holding items
    Types,        \* AssemblyItemType values, "Operation" among them
    Instrs,       \* opcodes
    Data,         \* payloads (u256)
    Locs,         \* source locations; NoLoc is SourceLocation()
    JumpTypes,    \* "Ordinary", "IntoFunction", "OutOfFunction"
    NoInstr, NoData, NoLoc, Empty

VARIABLE items

Item(type, instr, data, loc) ==
    [type |-> type, instr |-> instr, data |-> data, loc |-> loc, jump |-> "Ordinary", pushed |-> NoData]

Init == items = [s \in Slots |-> Empty]

Assign(s, v) == items' = [items EXCEPT ![s] = v]

Construct(s) ==
    \/ \E i \in Instrs, l \in Locs : Assign(s, Item("Operation", i, NoData, l))
    \/ \E t \in Types \ {"Operation"}, d \in Data, l \in Locs : Assign(s, Item(t, NoInstr, d, l))

Copy(dst, src) == items[src] # Empty /\ Assign(dst, items[src])

TagOf(dst, src, t) ==
    /\ items[src] # Empty /\ items[src].type \in {"PushTag", "Tag"}
    /\ Assign(dst, Item(t, NoInstr, items[src].data, NoLoc))

Set(s, f, v) ==
    /\ items[s] # Empty
    /\ items' = [items EXCEPT ![s][f] = v]

SetData(s) == items[s] # Empty /\ items[s].type # "Operation" /\ \E d \in Data : Set(s, "data", d)
SetLocation(s) == \E l \in Locs : Set(s, "loc", l)
SetJumpType(s) == \E j \in JumpTypes : Set(s, "jump", j)
SetPushedValue(s) == \E d \in Data : Set(s, "pushed", d)

\* Every operation an item has.
Next ==
    \E s, o \in Slots :
        \/ Construct(s) \/ Copy(s, o) \/ TagOf(s, o, "Tag") \/ TagOf(s, o, "PushTag")
        \/ SetData(s) \/ SetLocation(s) \/ SetJumpType(s) \/ SetPushedValue(s)

Spec == Init /\ [][Next]_items

=============================================================================
