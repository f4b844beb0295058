----------------------------- MODULE BinaryFormat -----------------------------
(***************************************************************************)
(* What BinarySerializer writes and reads                                  *)
(* (TenEngine-002-object/src/BinarySerializer.cpp).  An object is the      *)
(* sequence of its properties, each with its name, a marker and what the   *)
(* marker announces.  Sixteen bytes are a GUID, whatever their type; what  *)
(* is no registered object is copied as it lies in memory.  Every property *)
(* has a name here, so the count that is written is the right one.         *)
(***************************************************************************)
EXTENDS ObjectTypes

RECURSIVE WriteBinary(_, _)
Marked(p, v) ==
    CASE p.size = 16 -> <<"guid", v>>
      [] p.size # 16 /\ IsObject(p) -> <<"nested", p.of, WriteBinary(p.of, v)>>
      [] OTHER -> <<"primitive", v>>

WriteBinary(t, m) ==
    [i \in DOMAIN Properties[t] |->
        LET p == Properties[t][i] IN <<p.name, Marked(p, m[p.name])>>]

RECURSIVE ReadBinary(_, _, _)
\* Slip: bytes are not taken for a property that has become an object since.
ReadMarkedAsObject(x, v, p) ==
    CASE x[1] = "guid" -> [ok |-> p.size = 16, value |-> IF p.size = 16 THEN x[2] ELSE v]
      [] x[1] = "nested" -> ReadBinary(x[3], v, x[2])
      [] OTHER -> [ok |-> ~IsObject(p), value |-> x[2]]

\* The type of a nested object is the one the document names.
ReadMarked(x, v, p) ==
    CASE x[1] = "guid" -> [ok |-> p.size = 16, value |-> IF p.size = 16 THEN x[2] ELSE v]
      [] x[1] = "nested" ->
            IF x[2] \in registered THEN ReadBinary(x[3], v, x[2])
            ELSE [ok |-> FALSE, value |-> v]
      [] OTHER -> [ok |-> TRUE, value |-> x[2]]

ReadBinary(d, m, t) ==
    LET Field(r, x) ==
            IF ~r.ok \/ x[1] \notin Names(t) THEN [r EXCEPT !.ok = FALSE]
            ELSE LET read == ReadMarked(x[2], r.value[x[1]], FindProperty(t, x[1]))
                 IN [ok |-> read.ok, value |-> [r.value EXCEPT ![x[1]] = read.value]]
    IN FoldLeft(Field, [ok |-> TRUE, value |-> m], d)

\* The header names the type of the object.
SerializeBinary(t, m) == [typeId |-> t, data |-> WriteBinary(t, m)]

\* Slip: the type in the header is not looked at.
DeserializeAnyType(d, t, m) == ReadBinary(d.data, m, t)

DeserializeBinary(d, t, m) ==
    IF d.typeId = t THEN ReadBinary(d.data, m, t) ELSE [ok |-> FALSE, value |-> m]
=============================================================================
