------------------------------ MODULE ValueXML ------------------------------
(***************************************************************************)
(* How libminimal writes values, types and code as XML and reads them back *)
(* (minimal/src/serialise.c, parsexml.c), and how Python makes values of   *)
(* its objects (liblinda/python/value.c).                                  *)
(***************************************************************************)
EXTENDS Image, SequencesExt

CONSTANTS Registered,  \* the types a server has given an id,
          Builtin,     \* the types every process has,
          TypeSpecOf   \* and the syntax trees of the others, by name

-----------------------------------------------------------------------------
(* Syntax trees.                                                           *)

RECURSIVE TypeSpecXML(_), CodeXML(_), ToTree(_)

ParametersXML(t) == Element("parameter_list", "", 0, t.kids)

\* Minimal_serialiseTypeSpec: what it has no case for is left out.
TypeSpecXML(t) ==
    LET kids == FlattenSeq([i \in DOMAIN t.kids |-> TypeSpecXML(t.kids[i])])
    IN CASE t.k \in {"nil", "id", "ptr"} -> <<Element(t.k, t.s, 0, <<>>)>>
         [] t.k \in {"typespec", "bracket"} -> TypeSpecXML(t.kids[1])
         [] t.k \in {"type_function", "product_type", "sum_type"} ->
                <<Element(t.k, "", 0, kids)>>
         [] t.k = "parameter_list" -> <<ParametersXML(t)>>
         [] OTHER -> <<>>

\* Minimal_serialiseCode: it has no case for if, brackets or sequences.
CodeXML(t) ==
    LET kids == FlattenSeq([i \in DOMAIN t.kids |-> CodeXML(t.kids[i])])
    IN CASE t.k \in {"id", "integer", "string"} -> <<Element(t.k, t.s, 0, <<>>)>>
         [] t.k \in {"operator", "index", "let", "funccall", "argument_list"} ->
                <<Element(t.k, t.s, 0, kids)>>
         [] t.k = "tuple" -> <<Element("tuple", "", Len(t.kids), kids)>>
         [] OTHER -> <<>>

\* The first n - 1 children in their places, the last child in place n.
Places(kids, n) ==
    [i \in 1..n |-> IF i > Len(kids) THEN NoTree
                    ELSE ToTree(kids[IF i = n THEN Len(kids) ELSE i])]

\* Minimal_xmlToSyntaxTree: a tuple comes back as a product type.
ToTree(e) ==
    LET all == [i \in DOMAIN e.kids |-> ToTree(e.kids[i])]
    IN CASE e.tag \in {"nil", "id", "integer", "string", "ptr"} -> Tree(e.tag, e.s, <<>>)
         [] e.tag \in {"product_type", "sum_type"} -> Tree(e.tag, "", all)
         [] e.tag = "tuple" -> Tree("product_type", "", SubSeq(all, 1, e.n))
         [] e.tag \in {"operator", "index", "funccall", "type_function"} ->
                Tree(e.tag, e.s, Places(e.kids, 2))
         [] e.tag = "let" -> Tree("let", "", Places(e.kids, 3))
         [] e.tag = "argument_list" ->
                Tree("argument_list", "", Places(e.kids, IF Len(e.kids) < 2 THEN 1 ELSE 2))
         [] e.tag = "parameter_list" -> Tree("parameter_list", "", e.kids)
         [] e.tag = "code" -> IF e.kids = <<>> THEN NoTree ELSE ToTree(e.kids[1])
         [] OTHER -> NoTree

-----------------------------------------------------------------------------
(* The types a value needs explained to its reader.                        *)

RECURSIVE Named(_), TypeList(_), AddTypes(_, _)

Named(t) == (IF t.k \in {"id", "ptr"} THEN {t.s} \ Builtin ELSE {})
                \cup UNION {Named(t.kids[i]) : i \in DOMAIN t.kids}

\* Minimal_getTypeList: the types, and those their definitions name.
TypeList(S) == LET more == S \cup UNION {Named(TypeSpecOf[t]) : t \in S}
               IN IF more = S THEN S ELSE TypeList(more)

\* Minimal_addTypesToList: pointers and functions are not entered.
AddTypes(G, v) ==
    LET c == G.cell[v]
    IN ({c.type} \cup (IF c.k = "type" THEN {c.s} ELSE {}))
           \cup (IF c.k \in {"tuple", "sum"}
                 THEN UNION {AddTypes(G, c.kids[i]) : i \in DOMAIN c.kids} ELSE {})

HasTypeId(c) == (c.k = "type" /\ c.s \in Registered) \/ c.type \in Registered

\* Minimal_includeTypes.
IncludeTypes(G, v) ==
    LET c == G.cell[v]
        types == TypeList(AddTypes(G, v) \ (Builtin \cup {""}))
        known == \/ HasTypeId(c)
                 \/ /\ c.k = "tuple" /\ c.type = ""
                    /\ \A i \in DOMAIN c.kids : HasTypeId(G.cell[c.kids[i]])
    IN IF known THEN <<>>
       ELSE [i \in 1..Cardinality(types) |->
               LET t == SetToSeq(types)[i]
               IN Element("type", t, 0, TypeSpecXML(TypeSpecOf[t]))]

-----------------------------------------------------------------------------
(* Minimal_serialiseValue.                                                 *)

\* The text of a number: "%f" keeps six decimals of a number counted in tenths
\* of a millionth.
SixDecimals(n) == ((n + 5) \div 10) * 10

\* AddTypeName and AddId.
Attributes(e, G, v, types, ids) ==
    LET c == G.cell[v]
    IN IF ~UseTypes THEN [e EXCEPT !.id = v]
       ELSE [e EXCEPT !.id = v, !.kids = types \o @,
                      !.typename = IF c.type \in Registered THEN "" ELSE c.type,
                      !.typeid = IF c.type \in Registered /\ ids THEN c.type ELSE ""]

RECURSIVE Serialise(_, _, _, _, _, _), Elements(_, _, _, _)

\* The elements of a tuple, up to the first NULL; "memo" is threaded through.
Elements(G, vs, memo, ids) ==
    IF vs = <<>> \/ Head(vs) = 0 THEN [here |-> <<>>, root |-> <<>>, memo |-> memo]
    ELSE LET one  == Serialise(G, Head(vs), memo, FALSE, FALSE, ids)
             rest == Elements(G, Tail(vs), one.memo, ids)
         IN [here |-> <<Element("element", "", 0, one.here)>> \o rest.here,
             root |-> one.root \o rest.root, memo |-> rest.memo]

\* The elements written where the value stands, those written beside the root
\* (what pointers point to), and the values that have been written.  A
\* boolean's element is made and never added.
Serialise(G, v, memo, include, spec, ids) ==
    LET c      == G.cell[v]
        seen   == memo \cup {v}
        types  == IF include THEN IncludeTypes(G, v) ELSE <<>>
        Leaf(tag, n) == [here |-> <<Attributes(Element(tag, c.s, n, <<>>), G, v, types, ids)>>,
                         root |-> <<>>, memo |-> seen]
    IN CASE c.k = "boolean" -> [here |-> <<>>, root |-> <<>>, memo |-> seen]
         [] c.k \in {"nil", "string", "integer", "uinteger", "tsid"} -> Leaf(c.k, c.n)
         [] c.k \in {"float", "double"} -> Leaf("float", SixDecimals(c.n))
         [] c.k = "type" ->
                [here |-> types \o
                     <<[Element("typeobj", c.s, 0,
                            IF c.s \in Registered /\ ~spec THEN <<>>
                            ELSE TypeSpecXML(TypeSpecOf[c.s]))
                        EXCEPT !.id = v,
                               !.typeid = IF c.s \in Registered /\ ~spec THEN c.s ELSE ""]>>,
                 root |-> <<>>, memo |-> seen]
         [] c.k \in {"tuple", "sum"} ->
                LET in == Elements(G, c.kids, seen, ids /\ c.type \notin Registered)
                    e  == Element(c.k, "", c.n,
                             IF c.k = "tuple" THEN in.here ELSE in.here[1].kids)
                IN [in EXCEPT !.here = <<Attributes(e, G, v, types, ids)>>]
         [] c.k = "function" ->
                LET e == Element("function", c.s, 0,
                           <<ParametersXML(c.params), Element("code", "", 0, CodeXML(c.code))>>)
                IN [here |-> <<Attributes(e, G, v, <<>>, TRUE)>>, root |-> <<>>, memo |-> seen]
         [] c.k = "ptr" ->
                LET to  == c.kids[1]
                    out == Serialise(G, to, seen \cup {to}, FALSE, FALSE, ids)
                    me  == Leaf("ptr", to)
                IN IF to \in seen THEN me
                   ELSE [me EXCEPT !.root = out.here \o out.root, !.memo = out.memo]

-----------------------------------------------------------------------------
(* Minimal_xmlToValue.                                                     *)

\* The cells built so far, the pointers that wait for a value, the values
\* found, and the types explained so far.
Reader == [cell |-> <<>>, waiting |-> <<>>, found |-> <<>>,
           types |-> {<<b, NoTree>> : b \in Builtin}]

SetType(r, v, e) ==
    IF v = 0 THEN r
    ELSE IF e.typeid # "" THEN [r EXCEPT !.cell[v].type = e.typeid]
    ELSE IF \E t \in r.types : t[1] = e.typename THEN [r EXCEPT !.cell[v].type = e.typename]
    ELSE r

\* A pointer to a value found already, or one that waits: in every slot that
\* is free, or in a new one.
Point(r, to) ==
    LET at   == Len(r.cell)
        hits == {i \in DOMAIN r.found : r.found[i].id = to}
        free == {i \in DOMAIN r.waiting : r.waiting[i].id = 0}
        slot == [id |-> to, at |-> at]
    IN IF hits # {} THEN [r EXCEPT !.cell[at].kids = <<r.found[Min(hits)].v>>]
       ELSE IF free # {}
            THEN [r EXCEPT !.waiting = [i \in DOMAIN @ |-> IF i \in free THEN slot ELSE @[i]]]
            ELSE [r EXCEPT !.waiting = Append(@, slot)]

\* A value with an id is found: the pointers that wait for it get it.
Find(r, v, id) ==
    IF id = 0 THEN r
    ELSE LET hit == {i \in DOMAIN r.waiting : r.waiting[i].id = id}
         IN [r EXCEPT !.cell = [c \in DOMAIN @ |->
                            IF \E i \in hit : r.waiting[i].at = c
                            THEN [@[c] EXCEPT !.kids = <<v>>] ELSE @[c]],
                      !.waiting = [i \in DOMAIN @ |->
                            IF i \in hit THEN [@[i] EXCEPT !.id = 0] ELSE @[i]],
                      !.found = Append(@, [id |-> id, v |-> v])]

\* A type and its definition are entered in the layer of this reading.
Explain(r, e) == [r EXCEPT !.types = @ \cup {<<e.s, IF e.kids = <<>> THEN NoTree
                                                   ELSE ToTree(e.kids[1])>>}]

RECURSIVE ToValue(_, _), Series(_, _, _)

\* Minimal_xmlSeriesToValue: the first value of an element; a type that comes
\* with a later one is given to the first.
Series(es, r, root) ==
    IF es = <<>> THEN [v |-> root, r |-> r]
    ELSE LET e == Head(es)
             one == ToValue(e, r)
         IN IF e.tag = "type" THEN Series(Tail(es), one.r, root)
            ELSE LET v == IF root = 0 THEN one.v ELSE root
                 IN Series(Tail(es), SetType(one.r, v, e), v)

\* The values of the elements of a tuple, in turn.
RECURSIVE Adds(_, _, _)
Adds(es, r, vs) ==
    IF es = <<>> THEN [v |-> vs, r |-> r]
    ELSE LET one == ToValue(Head(es), r)
         IN Adds(Tail(es), one.r, IF Head(es).tag = "type" THEN vs ELSE Append(vs, one.v))

Kind(tag) == IF tag = "typeobj" THEN "type" ELSE tag

\* The type each constructor of values.c gives its values.
OwnType == [nil |-> "niltype", string |-> "stringtype", tsid |-> "tupleSpacetype",
            integer |-> "int", uinteger |-> "uint", float |-> "float",
            typeobj |-> "typetype", tuple |-> "", sum |-> "", ptr |-> "", function |-> ""]

ToValue(e, r) ==
    LET new == Len(r.cell) + 1
        Made(c) == [r EXCEPT !.cell = Append(@, c)]
        c == Cell(Kind(e.tag), OwnType[e.tag], 0, e.s, <<>>)
        built ==
            CASE e.tag \in {"integer", "uinteger"} ->
                    [v |-> new, r |-> Made([c EXCEPT !.n = CInt(e.n)])]
              [] e.tag = "float" -> [v |-> new, r |-> Made([c EXCEPT !.n = e.n])]
              [] e.tag \in {"nil", "string", "tsid"} -> [v |-> new, r |-> Made(c)]
              [] e.tag = "typeobj" ->
                    [v |-> new, r |-> IF e.typeid # "" THEN Made(c) ELSE Explain(Made(c), e)]
              [] e.tag = "ptr" -> [v |-> new, r |-> Point(Made([c EXCEPT !.kids = <<0>>]), e.n)]
              [] e.tag = "tuple" ->
                    LET in == Adds(e.kids, Made(c), <<>>)
                    IN [v |-> new, r |-> [in.r EXCEPT !.cell[new].kids = in.v]]
              [] e.tag = "sum" ->
                    LET in == ToValue(e.kids[1], Made(c))
                    IN [v |-> new, r |-> [in.r EXCEPT !.cell[new].kids = <<in.v>>,
                                                      !.cell[new].n = e.n]]
              [] e.tag = "function" ->
                    [v |-> new, r |-> Made([c EXCEPT !.params = ToTree(e.kids[1]),
                                                     !.code = ToTree(e.kids[2])])]
              [] e.tag = "element" -> Series(e.kids, r, 0)
              [] e.tag = "type" -> [v |-> 0, r |-> Explain(r, e)]
              [] OTHER -> [v |-> 0, r |-> r]
    IN [built EXCEPT !.r = Find(SetType(@, built.v, e), built.v, e.id)]

-----------------------------------------------------------------------------
Write(G, include, spec) ==
    LET out == Serialise(G, G.root, {}, include, spec, TRUE) IN out.here \o out.root

Read(e) == LET got == ToValue(e, Reader)
           IN [root |-> got.v, cell |-> got.r.cell, types |-> got.r.types]

\* What a value looks like from its root, to a depth that goes round a cycle.
RECURSIVE Picture(_, _, _)
Picture(G, v, depth) ==
    IF v = 0 \/ depth = 0 THEN <<"...">>
    ELSE LET c == G.cell[v]
         IN <<c.k, c.type, c.n, c.s, c.params, c.code,
              [i \in DOMAIN c.kids |-> Picture(G, c.kids[i], depth - 1)]>>

\* Two images look the same, and the types in the one are explained to the reader
\* of the other.
TypesIn(G) == ({G.cell[i].type : i \in DOMAIN G.cell}
                 \cup {G.cell[i].s : i \in {j \in DOMAIN G.cell : G.cell[j].k = "type"}})
              \ (Builtin \cup Registered \cup {""})
Alike(G, H) == /\ Picture(G, G.root, 6) = Picture(H, H.root, 6)
               /\ \A t \in TypesIn(G) : <<t, TypeSpecOf[t]>> \in H.types

-----------------------------------------------------------------------------
(* Values of Python objects.                                               *)

\* PyO2Value: a Python object becomes a value; one that wraps a value is that
\* value.  A Python int is a C long.  The cells of a tuple follow its own.
RECURSIVE FromPython(_)
Shift(c, by) == [c EXCEPT !.kids = [i \in DOMAIN @ |-> IF @[i] = 0 THEN 0 ELSE @[i] + by]]
FromPython(o) ==
    LET Leaf(c) == [root |-> 1, types |-> {}, cell |-> <<c>>]
        Place(G, item) ==
            LET V  == FromPython(item)
                by == Len(G.cell)
            IN [root |-> 1, types |-> {},
                cell |-> [G.cell EXCEPT ![1].kids = Append(@, V.root + by)]
                            \o [i \in DOMAIN V.cell |-> Shift(V.cell[i], by)]]
    IN CASE o.py = "Value" -> o.v
         [] o.py = "None"  -> Leaf(Cell("nil", "niltype", 0, "", <<>>))
         [] o.py = "int"   -> Leaf(Cell("integer", "long", o.n, "", <<>>))
         [] o.py = "float" -> Leaf(Cell("float", "float", o.n, "", <<>>))
         [] o.py = "str"   -> Leaf(Cell("string", "stringtype", 0, o.s, <<>>))
         [] o.py = "TSRef" -> Leaf(Cell("tsid", "tupleSpacetype", 0, o.s, <<>>))
         [] o.py = "type"  -> Leaf(Cell("type", "typetype", 0, o.s, <<>>))
         [] o.py = "tuple" -> FoldLeft(Place, Leaf(Cell("tuple", "", 0, "", <<>>)), o.items)

\* A tuple that was received (Tuple2PyO) and is sent on (PyO2Tuple): a new root
\* over the same elements; a pointer to the old root still points to it.
SentOn(G) == [G EXCEPT !.cell = Append(@, [@[G.root] EXCEPT !.type = ""]),
                       !.root = Len(G.cell) + 1]
=============================================================================
