----------------------------- MODULE Serializers -----------------------------
(***************************************************************************)
(* Objects through ISerializer and the helpers for files                   *)
(* (TenEngine-002-object/src): an instance is made and set through its     *)
(* PropertyBag, written in one of three formats into a buffer or a file,   *)
(* and read from there into a fresh instance, as its own type or as        *)
(* another, by the right parser or by another, while modules go on         *)
(* registering their types.                                                *)
(*                                                                         *)
(* Every serializer writes version 1 and is at version 1, so no buffer is  *)
(* ever old enough for IVersionMigration: it is not modelled.  Nor is the  *)
(* lack of memory.                                                         *)
(***************************************************************************)
EXTENDS ObjectTypes

CONSTANTS NoInstance, NoDocument, NotRead

JSON == INSTANCE JSONFormat
XML == INSTANCE XMLFormat
Binary == INSTANCE BinaryFormat

Format == {"binary", "json", "xml"}
Extension == {".json", ".xml", ".mesh"}

VARIABLES instance,     \* [type, memory] of the instance at hand
          stored,       \* what was written: see Document
          outcome       \* what the last read returned and left in its instance

objectVars == <<registered, instance, stored, outcome>>

\* where: "buffer", or the extension of the file.  The instance it was written
\* from and the types registered then are kept for the properties.
Document(f, where) ==
    [format |-> f, where |-> where, type |-> instance.type,
     tokens |-> CASE f = "json" -> JSON!WriteJSON(instance.type, instance.memory)
                  [] f = "xml" -> XML!WriteXML(instance.type, instance.memory)
                  [] f = "binary" -> Binary!SerializeBinary(instance.type, instance.memory),
     of |-> instance.memory, known |-> registered]

ObjectInit ==
    /\ registered = Type \ Late
    /\ instance = NoInstance /\ stored = NoDocument /\ outcome = NotRead

\* A type that is registered already keeps its first descriptor.
RegisterType(t) ==
    /\ t \notin registered
    /\ registered' = registered \cup {t}
    /\ UNCHANGED <<instance, stored, outcome>>

CreateInstance(t) ==
    /\ t \in registered
    /\ instance' = [type |-> t, memory |-> FilledObject(t, 0)]
    /\ stored' = NoDocument /\ outcome' = NotRead
    /\ UNCHANGED registered

SetProperty(name, bits) ==
    /\ instance # NoInstance
    /\ name \in Names(instance.type)
    /\ instance' = [instance EXCEPT
            !.memory[name] = Filled(FindProperty(instance.type, name), bits)]
    /\ UNCHANGED <<registered, stored, outcome>>

\* The instance is given up afterwards; what was written of it stays.
Write(f, where) ==
    /\ instance # NoInstance
    /\ stored' = Document(f, where)
    /\ instance' = NoInstance
    /\ UNCHANGED <<registered, outcome>>

Serialize(f) == Write(f, "buffer")
SerializeToFile(f, extension) == Write(f, extension)

FormatFromPath(extension) ==
    CASE extension = ".json" -> "json" [] extension = ".xml" -> "xml" [] OTHER -> "binary"

(***************************************************************************)
(* Reading.  Each format begins in its own way, and only the binary header *)
(* names the type.  A buffer that Serialize filled ends with a NUL, a file *)
(* does not: JSONSerializer copies it to put one there, XMLSerializer      *)
(* parses it as it is and reads on into other memory, in which anything    *)
(* can stand.                                                              *)
(***************************************************************************)
Results(f, t) ==
    LET fresh == FilledObject(t, 0)
        d == stored.tokens
        xml == XML!ReadXML(d, t, fresh)
        strange == stored.where # "buffer" /\ XML!ReadsPastEnd(d, xml)
        Result(r, oks) == {[format |-> f, type |-> t, ok |-> ok, memory |-> r.value] : ok \in oks}
        Parsed(r) == Result(r, {r.ok})
    IN CASE f # stored.format -> Result([value |-> fresh], {FALSE})
         [] f = "json" /\ f = stored.format -> Parsed(JSON!ReadJSON(d, t, fresh))
         [] f = "binary" /\ f = stored.format -> Parsed(Binary!DeserializeBinary(d, t, fresh))
         [] f = "xml" /\ f = stored.format ->
                IF strange THEN Result(xml, BOOLEAN) ELSE Parsed(xml)

Read(f, t) ==
    /\ t \in registered
    /\ outcome' \in Results(f, t)
    /\ UNCHANGED <<registered, instance, stored>>

Deserialize(f, t) == stored # NoDocument /\ stored.where = "buffer" /\ Read(f, t)
DeserializeFromFile(f, t) == stored # NoDocument /\ stored.where # "buffer" /\ Read(f, t)

\* The overload that takes no format.
DeserializeByPath(t) ==
    /\ stored # NoDocument /\ stored.where # "buffer"
    /\ Read(FormatFromPath(stored.where), t)

ObjectNext ==
    \/ \E t \in Type : RegisterType(t) \/ CreateInstance(t) \/ DeserializeByPath(t)
    \/ \E name \in UNION {Names(t) : t \in Type}, bits \in Bits : SetProperty(name, bits)
    \/ \E f \in Format : Serialize(f)
    \/ \E f \in Format, extension \in Extension : SerializeToFile(f, extension)
    \/ \E f \in Format, t \in Type : Deserialize(f, t) \/ DeserializeFromFile(f, t)

ObjectSpec == ObjectInit /\ [][ObjectNext]_objectVars

(***************************************************************************)
(* Properties.                                                             *)
(***************************************************************************)
OwnRead == outcome # NotRead /\ outcome.type = stored.type /\ outcome.format = stored.format

IsKnownObject(p) == p.of \in stored.known /\ Properties[p.of] # <<>>

\* The descriptors alone say what JSON carries: words, booleans, GUIDs of the
\* type GUID, and objects of them; the rest stays what it was.
RECURSIVE Carried(_, _)
CarriedObject(t, m) ==
    [name \in Names(t) |-> Carried(FindProperty(t, name), m[name])]
Carried(p, v) ==
    IF p.of = "GUID" THEN v
    ELSE IF IsKnownObject(p) THEN CarriedObject(p.of, v)
    ELSE IF p.size \in {1, 4, 8} THEN v ELSE Filled(p, 0)

HasArray(t) ==
    \E i \in DOMAIN Properties[t] : Properties[t][i].of \notin {NoType, "GUID"}
        /\ Properties[Properties[t][i].of] = <<>>
        /\ Properties[t][i].size > Bytes[Properties[t][i].of]

\* XML carries typed words, and a GUID where nothing follows it.
XMLCarries(t) ==
    \A i \in DOMAIN Properties[t] :
        LET p == Properties[t][i]
        IN \/ p.of # NoType /\ p.size \in {4, 8} /\ Properties[p.of] = <<>>
           \/ p.of = "GUID" /\ i = Len(Properties[t])

\* What is read as the type it was written from is what was written, as far as
\* its format carries it: in binary whatever types were registered since, in JSON
\* if they are the same and there is no array.
RoundTrip ==
    OwnRead =>
        CASE stored.format = "binary" -> outcome.ok /\ outcome.memory = stored.of
          [] stored.format = "json" ->
                ~HasArray(stored.type) /\ stored.known = registered =>
                    outcome.ok /\ outcome.memory = CarriedObject(stored.type, stored.of)
          [] stored.format = "xml" ->
                XMLCarries(stored.type) =>
                    /\ outcome.memory = stored.of
                    /\ stored.where = "buffer" => outcome.ok

\* A document of another format, or a binary one of another type, is refused
\* before anything is stored; a text of another type stores into no property
\* whose name is not in it.
NothingForeign ==
    outcome # NotRead /\ ~OwnRead =>
        /\ outcome.format # stored.format \/ outcome.format = "binary" => ~outcome.ok
        /\ \A name \in Names(outcome.type) :
              \/ outcome.memory[name] = Filled(FindProperty(outcome.type, name), 0)
              \/ /\ outcome.format = stored.format /\ outcome.format # "binary"
                 /\ name \in Names(stored.type)

\* Documents say to every reader what they were written to say, or nothing.
DocumentsSound == RoundTrip /\ NothingForeign

\* What the tests of the three serializers assert: an object of words, as the one
\* they register, comes back from its own format as it was.
TestStructsReadBack ==
    OwnRead /\ stored.where = "buffer"
        /\ (\A i \in DOMAIN Properties[stored.type] : Properties[stored.type][i].size = 4)
        => outcome.ok /\ outcome.memory = stored.of
=============================================================================
