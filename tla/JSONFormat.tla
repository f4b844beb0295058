------------------------------ MODULE JSONFormat ------------------------------
(***************************************************************************)
(* What JSONSerializer writes and reads                                    *)
(* (TenEngine-002-object/src/JSONSerializer.cpp).  A document is the       *)
(* sequence of its tokens: a bracket or a comma, a key with its colon, a   *)
(* value.  White space and escapes are left out.  Two numbers with nothing *)
(* between them are one number to the parser.  The text of a GUID stands   *)
(* for it: ToString and FromString are inverse of each other.  ObjectRef,  *)
(* an object around one GUID, is left out.                                 *)
(***************************************************************************)
EXTENDS ObjectTypes, FiniteSetsExt

Metadata == {"$version", "$type"}

(***************************************************************************)
(* JSONWriter: out, and whether the next key is the first of its object.   *)
(***************************************************************************)
Put(w, token) == [w EXCEPT !.out = Append(@, token)]

\* Slip: the flag of the object outside stays, so a nested one begins with a comma.
StartBracketFirst(w, bracket) == [out |-> Append(w.out, <<bracket>>), first |-> w.first]

StartBracket(w, bracket) == [out |-> Append(w.out, <<bracket>>), first |-> TRUE]

WriteKey(w, key) ==
    [out |-> w.out \o (IF w.first THEN <<>> ELSE << <<",">> >>) \o << <<"key", key>> >>,
     first |-> FALSE]

\* A number is written at four and at eight bytes, whatever the type is called.
WriteLeaf(w, p, v) ==
    Put(w, IF p.size \in {4, 8} THEN <<"number", v>>
           ELSE IF p.size = 1 THEN <<"bool", v>> ELSE <<"null">>)

RECURSIVE WriteValue(_, _, _)
WriteObject(w, t, m) ==
    LET version == Put(WriteKey(StartBracket(w, "{"), "$version"), <<"number", 1>>)
        typed == Put(WriteKey(version, "$type"), <<"text", t>>)
        Field(x, p) == WriteValue(WriteKey(x, p.name), p, m[p.name])
    IN Put(FoldLeft(Field, typed, Properties[t]), <<"}">>)

\* The elements of an array are written one after the other: WriteArrayElement,
\* which would put the commas, is not called.
WriteValue(w, p, v) ==
    CASE IsGUID(p) -> Put(w, <<"text", v>>)
      [] ~IsGUID(p) /\ IsObject(p) -> WriteObject(w, p.of, v)
      [] ~IsGUID(p) /\ ~IsObject(p) /\ IsArray(p) ->
            LET Element(x, e) == WriteLeaf(x, ElementOf(p), e)
            IN Put(FoldLeft(Element, StartBracket(w, "["), v), <<"]">>)
      [] OTHER -> WriteLeaf(w, p, v)

WriteJSON(t, m) == WriteObject([out |-> <<>>, first |-> TRUE], t, m).out

(***************************************************************************)
(* JSONParser.  A parse ends at a token, well or not, with what it stored. *)
(***************************************************************************)
Done(at, v) == [ok |-> TRUE, at |-> at, value |-> v]
Failed(at, v) == [ok |-> FALSE, at |-> at, value |-> v]

Kind(d, i) == IF i <= Len(d) THEN d[i][1] ELSE "end"

\* The token after the digits that begin at i.
NumberEnd(d, i) == Min({j \in i .. Len(d) + 1 : Kind(d, j) # "number"})

\* ParseInt32 and its like: the digits, in tens.
Number(d, i) ==
    IF NumberEnd(d, i) = i + 1 THEN d[i][2]
    ELSE LET Shift(a, token) == 10 * a + token[2]
         IN FoldLeft(Shift, 0, SubSeq(d, i, NumberEnd(d, i) - 1))

\* SkipValue counts one kind of bracket only.
SkipBrackets(d, i, open, close) ==
    LET Depth(j) == Cardinality({k \in i .. j : Kind(d, k) = open})
                    - Cardinality({k \in i .. j : Kind(d, k) = close})
    IN 1 + Min({j \in i .. Len(d) : Depth(j) = 0} \cup {Len(d)})

SkipValue(d, i) ==
    CASE Kind(d, i) = "{" -> SkipBrackets(d, i, "{", "}")
      [] Kind(d, i) = "[" -> SkipBrackets(d, i, "[", "]")
      [] Kind(d, i) = "number" -> NumberEnd(d, i)
      [] OTHER -> i + 1

\* Null, text and a value of another size leave the property as it was.
ParseLeaf(d, i, v, p) ==
    CASE Kind(d, i) = "number" ->
            Done(NumberEnd(d, i), IF p.size \in {4, 8} THEN Number(d, i) ELSE v)
      [] Kind(d, i) = "bool" -> Done(i + 1, IF p.size = 1 THEN d[i][2] ELSE v)
      [] Kind(d, i) \in {"text", "null"} -> Done(i + 1, v)
      [] OTHER -> Failed(i, v)

RECURSIVE ParseFields(_, _, _, _), ParseElements(_, _, _, _, _)
ParseValue(d, i, v, p) ==
    CASE IsGUID(p) ->
            IF Kind(d, i) = "text" THEN Done(i + 1, d[i][2]) ELSE Failed(i, v)
      [] ~IsGUID(p) /\ IsObject(p) ->
            IF Kind(d, i) = "{" THEN ParseFields(d, i + 1, v, p.of) ELSE Failed(i, v)
      [] ~IsGUID(p) /\ ~IsObject(p) /\ IsArray(p) ->
            IF Kind(d, i) = "[" THEN ParseElements(d, i + 1, 1, v, p) ELSE Failed(i, v)
      [] OTHER -> ParseLeaf(d, i, v, p)

\* After a value comes a comma or the end; a comma before the end is let through.
ParseFields(d, i, m, t) ==
    IF Kind(d, i) = "}" THEN Done(i + 1, m)
    ELSE IF Kind(d, i) # "key" THEN Failed(i, m)
    ELSE LET key == d[i][2]
             known == key \notin Metadata /\ key \in Names(t)
             r == IF known THEN ParseValue(d, i + 1, m[key], FindProperty(t, key))
                  ELSE Done(SkipValue(d, i + 1), <<>>)
             n == IF known THEN [m EXCEPT ![key] = r.value] ELSE m
         IN IF ~r.ok THEN Failed(r.at, n)
            ELSE IF Kind(d, r.at) = "," THEN ParseFields(d, r.at + 1, n, t)
            ELSE IF Kind(d, r.at) = "}" THEN ParseFields(d, r.at, n, t)
            ELSE Failed(r.at, n)

ParseElements(d, i, index, v, p) ==
    IF Kind(d, i) = "]" THEN Done(i + 1, v)
    ELSE IF Kind(d, i) = "end" \/ index > Len(v) THEN Failed(i, v)
    ELSE LET r == ParseLeaf(d, i, v[index], ElementOf(p))
             n == [v EXCEPT ![index] = r.value]
         IN IF ~r.ok THEN Failed(r.at, n)
            ELSE IF Kind(d, r.at) = "," THEN ParseElements(d, r.at + 1, index + 1, n, p)
            ELSE IF Kind(d, r.at) = "]" THEN ParseElements(d, r.at, index + 1, n, p)
            ELSE Failed(r.at, n)

ReadJSON(d, t, m) ==
    IF Kind(d, 1) = "{" THEN ParseFields(d, 2, m, t) ELSE Failed(1, m)
=============================================================================
