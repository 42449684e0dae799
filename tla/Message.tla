------------------------------ MODULE Message ------------------------------
(***************************************************************************)
(* The messages of liblinda (liblinda/src/message.c, messageread.c) and of *)
(* the Python module of the server (liblinda/python/message.c, value.c): a *)
(* message is built, written as XML, read into a union of three words,     *)
(* handed to Python and freed.  The many cases of the C code are tables    *)
(* over the kinds of message that are treated alike.                       *)
(***************************************************************************)
EXTENDS Image

CONSTANTS ProcessId,         \* Linda_process_id of the process that sends
          WriteValue(_, _, _), \* the XML of a value: with its types? with its spec?
          ReadValue(_),        \* the value an element stands for
          LookAlike(_, _)      \* is the second a faithful picture of the first?

Plain    == {"DONE", "DONT_KNOW", "UNBLOCK", "MONITOR", "LIST_TS", "GET_ROUTES",
             "REGISTER_PROCESS", "GET_NODE_ID", "GET_NEIGHBOURS"}
Texts    == {"RESULT_STRING", "CREATE_TUPLESPACE", "GET_CONNECTION_DETAILS",
             "REGISTER_THREAD", "MY_NAME_IS"}
Matches  == {"IN", "RD", "INP", "RDP"}
Collects == {"COLLECT", "COPY_COLLECT"}
Refs     == {"ADD_REFERENCE", "DELETE_REFERENCE", "REGISTER_PARTITION", "DELETED_PARTITION"}
Asks     == {"GET_PARTITIONS", "GET_REQUESTS"}
Requests == {"TUPLE_REQUEST", "CANCEL_REQUEST", "MULTIPLE_IN"}
Types    == Plain \cup Texts \cup Matches \cup Collects \cup Refs \cup Asks \cup Requests
                \cup {"RESULT_INT", "RESULT_TUPLE", "RESULT_TYPE", "OUT", "INSPECT",
                      "REGISTER_TYPE", "UPDATE_TYPE", "REQUEST_TYPE"}

\* A word of the union: a C string, a reference to a value, an int, or unset.
Str(s)  == [as |-> "str", s |-> s, n |-> 0, v |-> None]
Ref(v)  == [as |-> "ref", s |-> "", n |-> 0, v |-> v]
Num(n)  == [as |-> "int", s |-> "", n |-> n, v |-> None]
Unset   == [as |-> "none", s |-> "", n |-> 0, v |-> None]
NoMsgid == <<>>

\* The words a constructor fills in from its arguments, in order.
WordsOf(type) == CASE type \in Plain -> {}
                   [] type \in {"RESULT_TYPE", "REGISTER_TYPE"} -> {2}
                   [] type \in Matches \cup Collects -> 1..3
                   [] type \in Refs \cup Requests \cup {"OUT", "UPDATE_TYPE"} -> 1..2
                   [] OTHER -> {1}

\* Message_done ... Message_multiple_in.
Construct(type, args) ==
    [type |-> type, msgid |-> NoMsgid,
     word |-> [i \in 1..3 |-> IF i \in WordsOf(type)
                              THEN args[Cardinality(WordsOf(type) \cap 1..i)] ELSE Unset]]

\* What the arguments are: a string that is copied, a value that is referred to,
\* or an int.  Two constructors take theirs from Linda_process_id.
Arguments(type) ==
    CASE type \in Plain -> <<>>
      [] type \in Texts \cup Asks \cup {"INSPECT", "REQUEST_TYPE"} -> <<"str">>
      [] type = "RESULT_INT" -> <<"int">>
      [] type \in {"RESULT_TUPLE", "RESULT_TYPE", "REGISTER_TYPE"} -> <<"ref">>
      [] type \in Refs -> <<"str", "str">>
      [] type = "UPDATE_TYPE" -> <<"str", "ref">>
      [] type \in {"OUT"} \cup Requests -> <<"ref", "ref">>
      [] type \in Matches -> <<"ref", "ref", "str">>
      [] type \in Collects -> <<"ref", "ref", "ref">>
IsWord(w, as) == CASE as = "str" -> w = Str(w.s)
                   [] as = "ref" -> w = Ref(w.v)
                   [] as = "int" -> w = Num(w.n)
Proper(m) == /\ m.type \in Types /\ DOMAIN m.args = DOMAIN Arguments(m.type)
             /\ \A i \in DOMAIN m.args : IsWord(m.args[i], Arguments(m.type)[i])
             /\ m.type \in {"REGISTER_THREAD", "MY_NAME_IS"} => m.args[1].s = ProcessId

-----------------------------------------------------------------------------
(* Message_getString.                                                      *)

StringValue(s) == [root |-> 1, types |-> {}, cell |-> <<Cell("string", "stringtype", 0, s, <<>>)>>]
IntValue(n)    == [root |-> 1, types |-> {}, cell |-> <<Cell("integer", "int", n, "", <<>>)>>]
TupleSpace(s)  == [root |-> 1, types |-> {}, cell |-> <<Cell("tsid", "tupleSpacetype", 0, s, <<>>)>>]
NameOf(v)      == v.cell[v.root].s

Operations   == {"RESULT_STRING", "RESULT_INT", "RESULT_TUPLE", "OUT"} \cup Matches \cup Collects
Services     == {"CREATE_TUPLESPACE", "ADD_REFERENCE", "DELETE_REFERENCE", "INSPECT", "RESULT_TYPE",
                 "REGISTER_THREAD", "REGISTER_TYPE", "UPDATE_TYPE", "REQUEST_TYPE"}
Action(type) == IF type = "REQUEST_TYPE" THEN "RESULT_TYPE" ELSE type
Text(s)      == WriteValue(StringValue(s), FALSE, FALSE)
Ts(name)     == <<Element("ts", name, 0, <<>>)>>
Tid(name)    == <<Element("tid", name, 0, <<>>)>>
InElement(v, spec) == <<Element("element", "", 0, WriteValue(v, UseTypes, spec))>>

\* The words of an operation on tuples, or of an answer ...
OperationXML(m) ==
    LET w == m.word
        Value(i) == WriteValue(w[i].v, UseTypes, FALSE)
    IN CASE m.type = "RESULT_STRING" -> Text(w[1].s)
         [] m.type = "RESULT_INT"    -> WriteValue(IntValue(w[1].n), FALSE, FALSE)
         [] m.type = "RESULT_TUPLE"  -> Value(1)
         [] m.type = "OUT"           -> Ts(NameOf(w[1].v)) \o Value(2)
         [] m.type \in Matches       -> Ts(NameOf(w[1].v)) \o Value(2) \o Tid(w[3].s)
         [] m.type \in Collects      -> Ts(NameOf(w[1].v)) \o Ts(NameOf(w[2].v)) \o Value(3)

\* ... of what a client tells its server about itself, or asks it ...
ServiceXML(m) ==
    LET w == m.word
    IN CASE m.type = "REGISTER_THREAD" -> Text(ProcessId)
         [] m.type \in {"CREATE_TUPLESPACE", "REQUEST_TYPE"} -> Text(w[1].s)
         [] m.type \in {"ADD_REFERENCE", "DELETE_REFERENCE"} -> Ts(w[1].s) \o Text(w[2].s)
         [] m.type = "INSPECT"       -> Ts(w[1].s)
         [] m.type = "REGISTER_TYPE" -> InElement(w[2].v, FALSE) \o Text(ProcessId)
         [] m.type = "UPDATE_TYPE"   -> Text(w[1].s) \o InElement(w[2].v, TRUE) \o Text(ProcessId)
         [] m.type = "RESULT_TYPE"   -> InElement(w[2].v, FALSE)

\* ... and of what a server tells another.
NodeXML(m) ==
    LET w == m.word
    IN CASE m.type = "MY_NAME_IS" -> Text(ProcessId)
         [] m.type \in {"REGISTER_PARTITION", "DELETED_PARTITION"} -> Ts(w[1].s) \o Text(w[2].s)
         [] m.type \in Asks       -> Ts(w[1].s)
         [] m.type = "GET_CONNECTION_DETAILS" -> Text(w[1].s)
         [] m.type \in Requests   -> Ts(NameOf(w[1].v)) \o WriteValue(w[2].v, FALSE, FALSE)

Encode(m) ==
    (IF m.msgid = NoMsgid THEN <<>> ELSE <<[Element("msgid", "", 0, <<>>) EXCEPT !.kids = m.msgid]>>)
    \o <<Element("action", Action(m.type), 0, <<>>)>>
    \o CASE m.type \in Plain -> <<>>
         [] m.type \in Operations -> OperationXML(m)
         [] m.type \in Services -> ServiceXML(m)
         [] OTHER -> NodeXML(m)

-----------------------------------------------------------------------------
(* BuildMessage: one element after the other.  A reader that meets an      *)
(* action it does not know exits; what does not fit its type is discarded. *)

Blank == [type |-> "DONE", msgid |-> NoMsgid, word |-> [i \in 1..3 |-> Unset]]
Known == Types \ {"RESULT_TYPE", "REQUEST_TYPE"}
Exits(es) == \E i \in DOMAIN es : es[i].tag = "action" /\ es[i].s \notin Known

\* The word an element goes to (0: it is discarded), given what came before.
TsWord_first(m) == \* faulty: the second tuplespace of a collect replaces the first
    CASE m.type \in {"OUT", "INSPECT", "REGISTER_THREAD"} \cup Matches
                        \cup Refs \cup Asks \cup Requests \cup Collects -> 1
      [] OTHER -> 0
TsWord(m) == CASE m.type \in {"OUT", "INSPECT", "REGISTER_THREAD"} \cup Matches
                                 \cup Refs \cup Asks \cup Requests -> 1
               [] m.type \in Collects -> IF m.word[1] = Unset THEN 1 ELSE 2
               [] OTHER -> 0
TupleWord_noResult(m) == \* faulty: the case of an answer is missing
    CASE m.type \in {"OUT"} \cup Matches \cup Requests -> 2
      [] m.type \in Collects -> 3
      [] OTHER -> 0
TupleWord(m) == CASE m.type = "RESULT_TUPLE" -> 1
                  [] m.type \in {"OUT"} \cup Matches \cup Requests -> 2
                  [] m.type \in Collects -> 3
                  [] OTHER -> 0
StringWord(m) == CASE m.type \in Texts -> 1
                   [] m.type \in Refs -> 2
                   [] m.type \in {"REGISTER_TYPE", "UPDATE_TYPE"} ->
                          IF m.word[1] = Unset THEN 1 ELSE 3
                   [] OTHER -> 0
Put(m, i, w) == IF i = 0 THEN m ELSE [m EXCEPT !.word[i] = w]

BuildMessage(m, e) ==
    CASE e.tag = "action" -> [m EXCEPT !.type = e.s]
      [] e.tag = "msgid"  -> [m EXCEPT !.msgid = e.kids]
      [] e.tag = "ts"     -> Put(m, TsWord(m), IF m.type \in Refs THEN Str(e.s) ELSE Ref(TupleSpace(e.s)))
      [] e.tag = "tid"    -> Put(m, IF m.type \in Matches THEN 3 ELSE 0, Str(e.s))
      [] e.tag = "tuple"  -> Put(m, TupleWord(m), Ref(ReadValue(e)))
      [] e.tag = "string" -> Put(m, StringWord(m), Str(e.s))
      [] e.tag = "integer" -> Put(m, IF m.type = "RESULT_INT" THEN 1 ELSE 0, Num(CInt(e.n)))
      [] e.tag = "element" -> Put(m, IF m.type \in {"REGISTER_TYPE", "UPDATE_TYPE"} THEN 2 ELSE 0,
                                  Ref(ReadValue(e)))
      [] OTHER -> m

ReadOn(m, es) ==
    LET read[i \in 0..Len(es)] == IF i = 0 THEN m ELSE BuildMessage(read[i - 1], es[i])
    IN  read[Len(es)]
Decode(es) == ReadOn(Blank, es)

\* Message_free: how each word is given back.
Frees_noTid(type) == \* faulty: the thread id of a match is forgotten
    CASE type \in Plain \cup {"RESULT_INT"} -> <<"none", "none", "none">>
      [] type \in Texts \cup Asks \cup {"INSPECT", "REQUEST_TYPE"} -> <<"str", "none", "none">>
      [] type \in Collects     -> <<"ref", "ref", "ref">>
      [] type \in Refs         -> <<"str", "str", "none">>
      [] type \in {"OUT"} \cup Matches \cup Requests -> <<"ref", "ref", "none">>
      [] type = "RESULT_TUPLE" -> <<"ref", "none", "none">>
      [] type = "RESULT_TYPE"  -> <<"none", "ref", "none">>
      [] type \in {"REGISTER_TYPE", "UPDATE_TYPE"} -> <<"str", "ref", "str">>
Frees(type) ==
    CASE type \in Plain \cup {"RESULT_INT"} -> <<"none", "none", "none">>
      [] type \in Texts \cup Asks \cup {"INSPECT", "REQUEST_TYPE"} -> <<"str", "none", "none">>
      [] type \in Matches      -> <<"ref", "ref", "str">>
      [] type \in Collects     -> <<"ref", "ref", "ref">>
      [] type \in Refs         -> <<"str", "str", "none">>
      [] type \in {"OUT"} \cup Requests -> <<"ref", "ref", "none">>
      [] type = "RESULT_TUPLE" -> <<"ref", "none", "none">>
      [] type = "RESULT_TYPE"  -> <<"none", "ref", "none">>
      [] type \in {"REGISTER_TYPE", "UPDATE_TYPE"} -> <<"str", "ref", "str">>
\* A string that was never set is freed as NULL; a reference may not be unset.
Freed(m) == \A i \in 1..3 :
                \/ m.word[i].as = Frees(m.type)[i]
                \/ m.word[i].as = "none" /\ Frees(m.type)[i] = "str"
                \/ m.word[i].as = "int" /\ Frees(m.type)[i] = "none"

-----------------------------------------------------------------------------
(* The server's side in Python.                                            *)

\* LindaPython_recv: the words handed to a handler; a tuplespace by its name.
ByName(w) == IF w.as = "ref" THEN Str(NameOf(w.v)) ELSE w
Handed(m) ==
    LET w == m.word
        args == CASE m.type \in Plain -> <<>>
                  [] m.type \in {"OUT"} \cup Requests -> <<ByName(w[1]), w[2]>>
                  [] m.type \in Matches  -> <<ByName(w[1]), w[2], w[3]>>
                  [] m.type \in Collects -> <<ByName(w[1]), ByName(w[2]), w[3]>>
                  [] m.type \in Asks \cup {"INSPECT"} -> <<ByName(w[1])>>
                  [] m.type \in Refs     -> <<w[1], w[2]>>
                  [] m.type = "RESULT_TYPE"   -> <<w[2]>>
                  [] m.type = "REGISTER_TYPE" -> <<w[2], w[3]>>
                  [] m.type = "UPDATE_TYPE"   -> <<w[1], w[2], w[3]>>
                  [] OTHER -> <<w[1]>>
    IN [msgid |-> m.msgid, type |-> m.type, args |-> args]

\* LindaPython_send: which messages it knows, and what their arguments become.
SentByPython == Types \ {"REGISTER_PROCESS", "REGISTER_THREAD", "REGISTER_TYPE", "UPDATE_TYPE",
                         "OUT", "IN", "RD", "INP", "RDP"}
=============================================================================
