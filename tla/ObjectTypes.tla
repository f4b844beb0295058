----------------------------- MODULE ObjectTypes -----------------------------
(***************************************************************************)
(* What 002-object knows of a type (TenEngine-002-object): TypeRegistry,   *)
(* the descriptors it keeps, and an instance seen through a PropertyBag.   *)
(*                                                                         *)
(* A descriptor of a property says where the property lies, how many bytes *)
(* it has and, unless it says NoType, of what type it is; what the type is *)
(* good for depends on whether it is registered at the time of asking.     *)
(* The memory of an instance is a function from the names of its           *)
(* properties: to the bits of a leaf, to the memory of a nested object, to *)
(* the sequence of the elements of an array.  A type is known by its name, *)
(* which goes with its TypeId.                                             *)
(***************************************************************************)
EXTENDS Naturals, Sequences, SequencesExt

CONSTANTS NoType,       \* kInvalidTypeId
          Properties,   \* of each type: [name, of, size], in the order of the descriptor
          Bytes,        \* the size of each type
          Late          \* types whose module registers them later than the others

Type == DOMAIN Properties
Bits == 0 .. 1          \* what a leaf can hold

ASSUME TypeAssumption ==
    /\ NoType \notin Type /\ Late \subseteq Type /\ DOMAIN Bytes = Type
    /\ \A t \in Type : \A i \in DOMAIN Properties[t] :
          Properties[t][i].of \in Type \cup {NoType}

VARIABLE registered     \* RegistryStorage: the types that have a descriptor

Names(t) == {Properties[t][i].name : i \in DOMAIN Properties[t]}

\* FindProperty, and the search of each parser: the first of that name.
FindProperty(t, name) ==
    Properties[t][SelectInSeq(Properties[t], LAMBDA p : p.name = name)]

\* GetTypeById finds a descriptor with properties, one of elements, or nothing.
IsObject(p) == p.of \in registered /\ Properties[p.of] # <<>>
IsArray(p) ==
    p.of \in registered /\ p.size > Bytes[p.of] /\ p.size % Bytes[p.of] = 0
IsGUID(p) == p.of \in registered /\ p.of = "GUID" /\ Bytes[p.of] = 16
ElementOf(p) == [p EXCEPT !.size = Bytes[p.of]]

RECURSIVE Filled(_, _)
\* Memory with the same bits everywhere; laid out whatever is registered.
FilledObject(t, bits) ==
    [name \in Names(t) |-> Filled(FindProperty(t, name), bits)]
Filled(p, bits) ==
    IF p.of = NoType THEN bits
    ELSE IF Properties[p.of] # <<>> THEN FilledObject(p.of, bits)
    ELSE IF p.size > Bytes[p.of] THEN [i \in 1 .. p.size \div Bytes[p.of] |-> bits]
    ELSE bits
=============================================================================
