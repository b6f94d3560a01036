---------------------------- MODULE AssemblyItem ----------------------------
(***************************************************************************)
(* AssemblyItem (libevmasm/AssemblyItem.h) as the class stores it: the     *)
(* payload m_data and the cached m_pushedValue are shared_ptr<u256>, so    *)
(* the defaulted copy constructor and assignment make copies point to the *)
(* same cells, field by field; setData and setPushedValue point the item  *)
(* to a new cell.  A cell's address is not observable, so the model keeps  *)
(* each item's values and, per pointer field, which items share a cell:   *)
(* sharing[f] holds the pairs {s, o} of items whose field f points to one *)
(* cell.  A write through a pointer changes every item sharing the cell.  *)
(* The items refine AssemblyItemValues.                                    *)
(***************************************************************************)
EXTENDS Naturals, FiniteSets, Sequences, SequencesExt

CONSTANTS
    Slots, Types, Instrs, Data, Locs, JumpTypes,
    NoInstr, NoData, NoLoc, Empty

\* enum AssemblyItemType, in declaration order.
AssemblyItemTypes ==
    <<"UndefinedItem", "Operation", "Push", "PushString", "PushTag", "PushSub", "PushSubSize",
      "PushProgramSize", "Tag", "PushData", "PushLibraryAddress", "PushDeployTimeAddress">>

Pointer == {"data", "pushed"}

VARIABLES
    items,     \* slot -> [type, instr, data, loc, jump, pushed], or Empty
    sharing    \* field -> the pairs of slots whose field points to one cell

vars == <<items, sharing>>

Live == {s \in Slots : items[s] # Empty}

Partners(f, s) == {o \in Slots \ {s} : {s, o} \in sharing[f]}

\* Slot s stops pointing to the cell of field f that it shared.
Detach(f, s) == {p \in sharing[f] : s \notin p}

\* The sharing after slot s is assigned an item whose pointers are new cells.
DetachAll(s) == [f \in Pointer |-> Detach(f, s)]

Fresh(type, instr, data, loc) ==
    [type |-> type, instr |-> instr, data |-> data, loc |-> loc, jump |-> "Ordinary", pushed |-> NoData]

\* AssemblyItem(Instruction, SourceLocation).
ConstructInstruction(s) ==
    /\ \E i \in Instrs, l \in Locs : items' = [items EXCEPT ![s] = Fresh("Operation", i, NoData, l)]
    /\ sharing' = DetachAll(s)

\* AssemblyItem(AssemblyItemType, u256, SourceLocation), also reached by
\* AssemblyItem(u256, SourceLocation) with type Push: an Operation takes
\* the low byte of the data as its opcode, every other type a new cell.
ConstructTyped(s) ==
    /\ \E t \in Types, d \in Data, l \in Locs :
          items' = [items EXCEPT ![s] = IF t = "Operation" THEN Fresh(t, d % 256, NoData, l)
                                        ELSE Fresh(t, NoInstr, d, l)]
    /\ sharing' = DetachAll(s)

\* The defaulted copy constructor and copy assignment: dst points to the
\* cells src points to.
Copy(dst, src) ==
    /\ items[src] # Empty
    /\ items' = [items EXCEPT ![dst] = items[src]]
    /\ sharing' = [f \in Pointer |->
                     IF dst = src THEN sharing[f]
                     ELSE Detach(f, dst) \cup
                          IF items[src][f] = NoData THEN {}
                          ELSE {{dst, o} : o \in ({src} \cup Partners(f, src)) \ {dst}}]

\* tag() and pushTag(): assertThrow on any other type, else a new item of
\* type t holding a copy of data().
TagOf(dst, src, t) ==
    /\ items[src] # Empty /\ items[src].type \in {"PushTag", "Tag"}
    /\ items' = [items EXCEPT ![dst] = Fresh(t, NoInstr, items[src].data, NoLoc)]
    /\ sharing' = DetachAll(dst)

\* Field f of slot s pointed to a new cell holding v.
Repoint(s, f, v) ==
    /\ items' = [items EXCEPT ![s][f] = v]
    /\ sharing' = [sharing EXCEPT ![f] = Detach(f, s)]

\* Field f of slot s written through its pointer.
WriteThrough(s, f, v) ==
    /\ items' = [o \in Slots |-> IF o \in {s} \cup Partners(f, s) THEN [items[o] EXCEPT ![f] = v] ELSE items[o]]
    /\ UNCHANGED sharing

SetDataUnchecked(s) ==
    /\ items[s] # Empty
    /\ \E d \in Data : Repoint(s, "data", d)
SetData(s) ==
    /\ items[s] # Empty /\ items[s].type # "Operation"
    /\ \E d \in Data : Repoint(s, "data", d)

SetLocation(s) ==
    /\ items[s] # Empty
    /\ \E l \in Locs : items' = [items EXCEPT ![s].loc = l]
    /\ UNCHANGED sharing
SetJumpType(s) ==
    /\ items[s] # Empty
    /\ \E j \in JumpTypes : items' = [items EXCEPT ![s].jump = j]
    /\ UNCHANGED sharing

SetPushedValueInPlace(s) ==
    /\ items[s] # Empty
    /\ \E d \in Data : IF items[s].pushed = NoData THEN Repoint(s, "pushed", d) ELSE WriteThrough(s, "pushed", d)
SetPushedValue(s) ==
    /\ items[s] # Empty
    /\ \E d \in Data : Repoint(s, "pushed", d)

Init ==
    /\ items = [s \in Slots |-> Empty]
    /\ sharing = [f \in Pointer |-> {}]

Next ==
    \E s, o \in Slots :
        \/ ConstructInstruction(s) \/ ConstructTyped(s) \/ Copy(s, o)
        \/ TagOf(s, o, "Tag") \/ TagOf(s, o, "PushTag")
        \/ SetData(s) \/ SetLocation(s) \/ SetJumpType(s) \/ SetPushedValue(s)

Spec == Init /\ [][Next]_vars

(***************************************************************************)
(* The comparisons of the class; data() reads the payload.                *)
(***************************************************************************)
TypeIndex(t) == CHOOSE i \in DOMAIN AssemblyItemTypes : AssemblyItemTypes[i] = t

EqualWithLocation(a, b) ==
    /\ a.type = b.type /\ a.loc = b.loc
    /\ IF a.type = "Operation" THEN a.instr = b.instr ELSE a.data = b.data
Equal(a, b) ==
    /\ a.type = b.type
    /\ IF a.type = "Operation" THEN a.instr = b.instr ELSE a.data = b.data

Less(a, b) ==
    IF a.type # b.type THEN TypeIndex(a.type) < TypeIndex(b.type)
    ELSE IF a.type = "Operation" THEN a.instr < b.instr
    ELSE a.data < b.data

Values == INSTANCE AssemblyItemValues

(***************************************************************************)
(* Properties.                                                             *)
(***************************************************************************)
\* Every item has its type; an Operation has an opcode and no payload; a
\* cell is shared only by live items whose pointer is set, and items
\* sharing a cell read the same value from it.
TypeOK ==
    /\ \A s \in Live :
          /\ items[s].type \in Range(AssemblyItemTypes)
          /\ items[s].type = "Operation" <=> items[s].data = NoData
          /\ items[s].loc \in Locs /\ items[s].jump \in JumpTypes
    /\ \A f \in Pointer : \A p \in sharing[f] :
          /\ Cardinality(p) = 2 /\ p \subseteq Live
          /\ \A s, o \in p : items[s][f] # NoData /\ items[s][f] = items[o][f]

\* Copies share their payload and pushed-value cells, yet every operation
\* on one item leaves the values of all other items as they were: the
\* class behaves as the value type of AssemblyItemValues
\* (AssemblyItem.h:66-93, 144).
ValuesRefined == Values!Spec

\* operator< is compatible with operator==: two items are equal exactly
\* when neither is less than the other, whatever their locations, jump
\* types and pushed values (AssemblyItem.h:99-118).
OrderCompatibleWithEquality ==
    \A a, b \in Live : Equal(items[a], items[b]) <=> (~Less(items[a], items[b]) /\ ~Less(items[b], items[a]))

=============================================================================
