------------------------------ MODULE XMLFormat ------------------------------
(***************************************************************************)
(* What XMLSerializer writes and reads                                     *)
(* (TenEngine-002-object/src/XMLSerializer.cpp).  A document is the        *)
(* sequence of its tags and texts; the white space between them, and the   *)
(* declaration and the attributes version and type, are left out.  The     *)
(* text of an element is followed by the indentation of its closing tag.   *)
(*                                                                         *)
(* The parser can be left inside a tag: where it has read the < of a tag   *)
(* that it does not go on to read.  What it was in the middle of then ends *)
(* well, with the rest of the document unread.  The search for the items   *)
(* of an array, which the writer never writes, is left out.                *)
(***************************************************************************)
EXTENDS ObjectTypes, FiniteSetsExt

\* IsBasicType: by the size; the type has an id but need not be registered.
IsBasic(p) == p.of # NoType /\ ~IsGUID(p) /\ p.size \in {1, 4, 8}

(***************************************************************************)
(* XMLWriter.  A "leaf" is closed in its own tag and has a GUID, an        *)
(* "empty" is closed in its own tag and has none.                          *)
(***************************************************************************)
Element(name, inner) == << <<"open", name>> >> \o inner \o << <<"close", name>> >>

RECURSIVE Children(_, _)
Child(p, v) ==
    CASE IsGUID(p) -> << <<"leaf", p.name, v>> >>
      [] ~IsGUID(p) /\ IsBasic(p) -> Element(p.name, << <<"text", v>> >>)
      [] ~IsGUID(p) /\ ~IsBasic(p) /\ IsObject(p) -> Element(p.name, Children(p.of, v))
      [] OTHER -> Element(p.name, << <<"complex">> >>)

Children(t, m) ==
    FlattenSeq([i \in DOMAIN Properties[t] |->
                    Child(Properties[t][i], m[Properties[t][i].name])])

WriteXML(t, m) ==
    IF Properties[t] = <<>> THEN << <<"empty", t>> >> ELSE Element(t, Children(t, m))

(***************************************************************************)
(* XMLParser.                                                              *)
(***************************************************************************)
Before(at, v) == [ok |-> TRUE, at |-> at, inside |-> FALSE, value |-> v]
Inside(at, v) == [ok |-> TRUE, at |-> at, inside |-> TRUE, value |-> v]
Wrong(at, v) == [ok |-> FALSE, at |-> at, inside |-> FALSE, value |-> v]

Tag(d, i) == IF i <= Len(d) THEN d[i][1] ELSE "end"
Starts == {"open", "leaf", "empty"}
Texts == {"text", "complex"}

\* SkipElement takes a tag closed in itself for one that is still open.
SkipElement(d, i) ==
    LET Depth(j) == 1 + Cardinality({k \in i + 1 .. j : Tag(d, k) \in Starts})
                      - Cardinality({k \in i + 1 .. j : Tag(d, k) = "close"})
    IN 1 + Min({j \in i + 1 .. Len(d) : Depth(j) = 0} \cup {Len(d)})

\* The text of a boolean is never "true" to the letter: the indentation is in it.
\* What is not a number is 0.
Text(d, i, v, p) ==
    CASE p.size \in {4, 8} -> IF Tag(d, i) = "text" THEN d[i][2] ELSE 0
      [] p.size = 1 -> 0
      [] OTHER -> v

\* After the tag of a GUID the next < is read too, with its tag if that closes.
ParseGUID(d, i) ==
    CASE Tag(d, i + 1) = "close" -> Before(i + 2, d[i][3])
      [] Tag(d, i + 1) = "end" -> Before(i + 1, d[i][3])
      [] OTHER -> Inside(i + 1, d[i][3])

\* After its closing tag an element looks for it once more.
LookAgain(d, i, tag, m) ==
    CASE Tag(d, i) = "close" -> IF d[i][2] = tag THEN Before(i + 1, m) ELSE Wrong(i + 1, m)
      [] Tag(d, i) \in Starts -> Inside(i, m)
      [] OTHER -> Before(i, m)

RECURSIVE ParseElement(_, _, _, _)
\* ParseValue has read the tag of the property when it asks ParseElement for a
\* nested object, which takes the first tag inside for that of the object.
ParseChild(d, i, v, p) ==
    CASE Tag(d, i) = "leaf" /\ IsGUID(p) -> ParseGUID(d, i)
      [] Tag(d, i) \in {"leaf", "empty"} /\ ~(Tag(d, i) = "leaf" /\ IsGUID(p)) ->
            Before(i + 1, v)
      [] Tag(d, i) = "open" /\ Tag(d, i + 1) \in Texts ->
            Before(i + 3, Text(d, i + 1, v, p))
      [] Tag(d, i) = "open" /\ Tag(d, i + 1) \notin Texts ->
            IF IsObject(p) THEN ParseElement(d, i + 1, v, p.of)
            ELSE Before(SkipElement(d, i + 1), v)

RECURSIVE ParseChildren(_, _, _, _, _)
ParseChildren(d, i, tag, m, t) ==
    IF Tag(d, i) = "close"
    THEN IF d[i][2] = tag THEN LookAgain(d, i + 1, tag, m) ELSE Wrong(i + 1, m)
    ELSE IF Tag(d, i) \notin Starts THEN Before(i, m)
    ELSE LET name == d[i][2]
             r == IF name \in Names(t) THEN ParseChild(d, i, m[name], FindProperty(t, name))
                  ELSE Before(SkipElement(d, i), <<>>)
             n == IF name \in Names(t) THEN [m EXCEPT ![name] = r.value] ELSE m
         IN IF ~r.ok THEN Wrong(r.at, n)
            ELSE IF r.inside THEN Inside(r.at, n)
            ELSE ParseChildren(d, r.at, tag, n, t)

ParseElement(d, i, m, t) ==
    CASE Tag(d, i) \in {"leaf", "empty"} -> Before(i + 1, m)
      [] Tag(d, i) = "open" ->
            ParseChildren(d, IF Tag(d, i + 1) \in Texts THEN i + 2 ELSE i + 1,
                          d[i][2], m, t)
      [] OTHER -> Wrong(i, m)

ReadXML(d, t, m) == ParseElement(d, 1, m, t)

\* A buffer that ends with its last tag has the parser read what lies behind it.
ReadsPastEnd(d, r) == Tag(d, 1) = "open" /\ r.ok /\ ~r.inside /\ r.at > Len(d)
=============================================================================
