------------------------------- MODULE MCWire -------------------------------
(***************************************************************************)
(* The calls of clients, servers and the monitor, with small tuples that   *)
(* have types, templates, pointers, cycles and functions in them.          *)
(***************************************************************************)
EXTENDS Wire, ValueXML

MCBuiltin == {"niltype", "typetype", "int", "long", "float", "stringtype",
              "tupleSpacetype", "int64"}
MCRegistered == {"Point"}
Id(s) == Tree("id", s, <<>>)
MCTypeSpecOf ==
    [long |-> Id("int64"),
     pair |-> Tree("product_type", "", <<Id("long"), Id("name")>>),
     name |-> Id("stringtype"),
     list |-> Tree("sum_type", "", <<Tree("nil", "", <<>>),
                 Tree("product_type", "", <<Id("long"), Tree("ptr", "list", <<>>)>>)>>)]

Leaf(k, type, n, s) == Cell(k, type, n, s, <<>>)
Long(n)   == Leaf("integer", "long", n, "")
Text1(s)  == Leaf("string", "stringtype", 0, s)
TypeOf(s) == Leaf("type", "typetype", 0, s)
Row(type, kids) == Cell("tuple", type, 0, "", kids)
PtrTo(v)  == Cell("ptr", "", 0, "", <<v>>)
Value(cells) == Ref([root |-> 1, cell |-> cells, types |-> {}])

Function == \* f x = let y = x in g(y) + 1
    [Leaf("function", "", 0, "f") EXCEPT
        !.params = Tree("parameter_list", "", <<Id("x")>>),
        !.code = Tree("let", "", <<Id("y"), Id("x"),
                    Tree("operator", "+",
                        <<Tree("funccall", "", <<Id("g"), Tree("argument_list", "", <<Id("y")>>)>>),
                          Tree("integer", "1", <<>>)>>)>>)]

Mixed == Value(<<Row("", <<2, 3, 4, 5, 6>>), Long(2), Text1("a"),
                 Leaf("tsid", "tupleSpacetype", 0, "t1"), Leaf("nil", "niltype", 0, ""),
                 Leaf("float", "float", 30, "")>>)
\* A value of a type that must be explained, with a type it names in turn.
Pair == Value(<<Row("", <<2, 3>>), Row("pair", <<4, 5>>), Long(3), Long(1), Text1("b")>>)
\* A type a server has registered.
Dot == Value(<<Row("", <<2>>), Row("Point", <<3, 4>>), Long(1), Long(-2)>>)
\* Formals: any long, any pair, any list (a recursive type).
Formals == Value(<<Row("", <<2, 3, 4>>), TypeOf("long"), TypeOf("pair"), TypeOf("list")>>)
\* Pointers: one to an earlier sibling and two to the tuple itself; and two to a
\* tuple that is read before the outer one, which is pointed to as well.
Ring == Value(<<Row("", <<2, 3, 4, 5>>), Long(1), PtrTo(2), PtrTo(1), PtrTo(1)>>)
Nest == Value(<<Row("", <<2, 3, 7>>), Long(1), Row("", <<4, 5, 6>>), Long(2),
                PtrTo(3), PtrTo(1), PtrTo(3)>>)
Code == Value(<<Row("", <<2, 3>>), Text1("f"), Function>>)
Templates == {Formals, Mixed}
Tuples == {Mixed, Pair, Dot, Ring, Nest, Code}

T1 == Ref(TupleSpace("t1"))
T2 == Ref(TupleSpace("t2"))
Client(type, args, answers) ==
    [by |-> "client", type |-> type, msgid |-> NoMsgid, args |-> args, answers |-> answers]
A(type, args) == [type |-> type, msgid |-> NoMsgid, args |-> args]
Done == {A("DONE", <<>>)}
Unknown == A("DONT_KNOW", <<>>)
String(s) == {A("RESULT_STRING", <<Str(s)>>)}
Found(v) == A("RESULT_TUPLE", <<Ref(SentOn(v.v))>>)

Clients ==
    {Client("REGISTER_PROCESS", <<>>, String("p1")),
     Client("REGISTER_THREAD", <<Str(ProcessId)>>, String("th1")),
     Client("CREATE_TUPLESPACE", <<Str("th1")>>, String("t1")),
     Client("ADD_REFERENCE", <<Str("t1"), Str("th1")>>, Done),
     Client("DELETE_REFERENCE", <<Str("t1"), Str("th1")>>, Done),
     Client("UPDATE_TYPE", <<Str("1"), Value(<<TypeOf("pair")>>)>>, Done),
     Client("COLLECT", <<T1, T2, Formals>>, {A("RESULT_INT", <<Num(2)>>)}),
     Client("COPY_COLLECT", <<T1, T2, Mixed>>, {A("RESULT_INT", <<Num(0)>>)}),
     Client("MONITOR", <<>>, Done), Client("LIST_TS", <<>>, String("t1")),
     Client("INSPECT", <<Str("t1")>>,
            {Unknown, Found(Value(<<Row("", <<2>>), Text1("refs")>>))}),
     Client("GET_ROUTES", <<>>, {Found(Value(<<Row("", <<>>)>>))})}
    \cup {Client("OUT", <<T1, v>>, Done) : v \in Tuples}
    \cup {Client(type, <<T1, Formals, Str("th1")>>, {Found(v) : v \in {Pair, Ring, Nest}}) :
             type \in {"IN", "RD"}}
    \cup {Client(type, <<T1, Mixed, Str("th1")>>, {A("UNBLOCK", <<>>), Found(Mixed)}) :
             type \in {"INP", "RDP"}}

Address == [py |-> "tuple", items |-> <<[py |-> "str", s |-> "host"], [py |-> "int", n |-> 5]>>]
Server(type, args, answers) ==
    [by |-> "server", type |-> type, msgid |-> <<"n2", "n1", "7">>, args |-> args,
     answers |-> {[a EXCEPT !.msgid = <<"n1", "n2", "7">>] : a \in answers}]
Servers ==
    {Server("GET_NODE_ID", <<>>, String("n2")),
     Server("MY_NAME_IS", <<Str(ProcessId)>>, Done),
     Server("GET_NEIGHBOURS", <<>>, {Found(Value(<<Row("", <<2>>), Text1("n3")>>))}),
     Server("GET_CONNECTION_DETAILS", <<Str("n3")>>,
            {Unknown, A("RESULT_TUPLE", <<Ref(FromPython(
                [py |-> "tuple", items |-> <<Address, [py |-> "None"]>>]))>>)}),
     Server("REGISTER_PARTITION", <<Str("t1"), Str("n1")>>, Done),
     Server("DELETED_PARTITION", <<Str("t1"), Str("n1")>>, Done),
     Server("GET_PARTITIONS", <<Str("t1")>>,
            {Found(Value(<<Row("", <<2>>), Text1("n2")>>))}),
     Server("GET_REQUESTS", <<Str("t1")>>, {Unknown}),
     Server("TUPLE_REQUEST", <<T1, Mixed>>, Done),
     Server("CANCEL_REQUEST", <<T1, Mixed>>, Done),
     Server("MULTIPLE_IN", <<T1, Mixed>>, Done)}

MCCalls == Clients \cup Servers
\* They are of the kind the theorems are about.
ASSUME CallsAreProper == CallsProper /\ ValuesArrive

MCBodies == {Encoded[m] : m \in DOMAIN Encoded}
=============================================================================
