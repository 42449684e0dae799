---------------------------- MODULE MinimalHeap ----------------------------
(***************************************************************************)
(* The reference-counted heap of libminimal: values, syntax trees, layers  *)
(* and name maps (minimal/src).  Every object carries a count; dropping a  *)
(* reference either frees the object, which drops its references in turn,  *)
(* or runs a search for a collectable clique from it (cyclic_garbage.c).   *)
(* libminimal takes no lock and is called from one thread at a time, so    *)
(* the only interleaving is the nesting of drops: it is the stack "work".  *)
(* Kinds with the same pointer fields are one kind; the two-element arrays *)
(* stand for arrays of any length, a name map for its values.              *)
(***************************************************************************)
EXTENDS Naturals, Integers, Sequences, FiniteSets

CONSTANTS Cells,          \* memory for the objects a program builds
          Default,        \* the default layer (Minimal_Layer_init),
          DefaultMap,     \* its map,
          TypeType,       \* the type of all types (it stands for the others),
          TypeDef,        \* and the syntax tree of its definition
          NULL,
          Programs,       \* the programs: the operations one uses and its bounds,
                          \* the objects alive and its references to one of them
          AnySetter       \* may a setter replace a value that reaches back?

Builtin == {Default, DefaultMap, TypeType, TypeDef}
Objects == Cells \cup Builtin

ASSUME ObjectsAreDistinct ==
    /\ Cardinality(Builtin) = 4 /\ Builtin \cap Cells = {} /\ NULL \notin Objects
    /\ IsFiniteSet(Cells) /\ AnySetter \in BOOLEAN
    /\ \A p \in Programs : p.cells \in Nat /\ p.held \in Nat

Values == {"scalar", "type", "tuple", "sum", "function", "pointer"}
Trees == {"leaf", "branches", "spec", "def", "params", "call", "let", "args",
          "op", "ifexpr", "index"}
Kinds == Values \cup Trees \cup {"layer", "map"}

\* The pointers of each struct.
Struct ==
    [ scalar   |-> {},
      type     |-> {"type_spec", "typemap"},
      tuple    |-> {"e1", "e2"},
      sum      |-> {"value"},
      function |-> {"parameter_list", "code", "layer"},
      pointer  |-> {"ptr"},
      leaf     |-> {},
      branches |-> {"e1", "e2"},
      spec     |-> {"type_def"},
      def      |-> {"type_spec", "parameter_list", "body"},
      params   |-> {"next_var"},
      call     |-> {"function", "arguments"},
      let      |-> {"var", "letexpr", "code"},
      args     |-> {"argument", "next_arg"},
      op       |-> {"op1", "op2"},
      ifexpr   |-> {"_if", "_then", "_else"},
      index    |-> {"expr", "index"},
      layer    |-> {"map", "parent"},
      map      |-> {"e1", "e2"} ]

FieldNames == (UNION {Struct[k] : k \in Kinds}) \cup {"typeobj"}
Typeobj(k) == IF k \in Values THEN {"typeobj"} ELSE {}
Fields(k) == Struct[k] \cup Typeobj(k)

\* What Minimal_getReferences reports to the search for cycles ...
ReportedByValue ==
    [ scalar |-> {}, type |-> {"typemap", "type_spec"}, tuple |-> {"e1", "e2"},
      sum |-> {"value"}, function |-> {"layer", "parameter_list", "code"},
      pointer |-> {"ptr"} ]
ReportedByTree ==
    [ leaf |-> {}, branches |-> {"e1", "e2"}, spec |-> {"type_def"},
      def |-> {"type_spec", "parameter_list", "body"}, params |-> {"next_var"},
      call |-> {"function", "arguments"}, let |-> {"var", "letexpr", "code"},
      args |-> {"argument", "next_arg"}, op |-> {"op1", "op2"},
      ifexpr |-> {"_if", "_then", "_else"}, index |-> {"expr", "index"} ]
Reported_noPtr(k) == \* faulty: a pointer's target is not reported
    CASE k = "pointer"  -> {"typeobj"}
      [] k \in Values -> ReportedByValue[k] \cup {"typeobj"}
      [] k \in Trees  -> ReportedByTree[k]
      [] k = "layer"  -> {"map", "parent"}
      [] k = "map"    -> {"e1", "e2"}
      [] OTHER        -> {}
Reported(k) == CASE k \in Values -> ReportedByValue[k] \cup {"typeobj"}
                 [] k \in Trees  -> ReportedByTree[k]
                 [] k = "layer"  -> {"map", "parent"}
                 [] k = "map"    -> {"e1", "e2"}
                 [] OTHER        -> {}

\* ... and what Minimal_delObject gives up before the memory is freed.
ReleasedByValue ==
    [ scalar |-> {}, type |-> {"type_spec", "typemap"}, tuple |-> {"e1", "e2"},
      sum |-> {"value"}, function |-> {"parameter_list", "code", "layer"},
      pointer |-> {"ptr"} ]
ReleasedByTree ==
    [ leaf |-> {}, branches |-> {"e1", "e2"}, spec |-> {"type_def"},
      def |-> {"type_spec", "parameter_list", "body"}, params |-> {"next_var"},
      call |-> {"function", "arguments"}, let |-> {"var", "letexpr", "code"},
      args |-> {"argument", "next_arg"}, op |-> {"op1", "op2"},
      ifexpr |-> {"_if", "_then", "_else"}, index |-> {"expr", "index"} ]
Released(k) == CASE k \in Values -> ReleasedByValue[k] \cup {"typeobj"}
                 [] k \in Trees  -> ReleasedByTree[k]
                 [] k = "layer"  -> {"parent", "map"}
                 [] k = "map"    -> {"e1", "e2"}
                 [] OTHER        -> {}

\* Fields the constructors and setters of a kind may leave NULL; the others
\* are dropped without a test for NULL.
Optional == {"typeobj", "type_spec", "typemap", "e1", "e2", "next_var",
             "next_arg", "parent"}

\* Which constructor keeps the caller's reference (Take), adds one of its own
\* (Share), to the current layer (Layered) or to the type of the value (Typed).
Take(k) == CASE k = "type"     -> {"type_spec"}
             [] k = "sum"      -> {"value"}
             [] k = "function" -> {"parameter_list", "code"}
             [] k = "def"      -> {"parameter_list", "body"}
             [] k \in Trees \ {"def"} -> Struct[k]
             [] OTHER          -> {}
Share(k)   == IF k = "pointer" THEN {"ptr"} ELSE {}
Layered(k) == CASE k = "type" -> {"typemap"} [] k = "function" -> {"layer"} [] OTHER -> {}
Typed(k)   == IF k \in {"scalar", "type"} THEN {"typeobj"} ELSE {}

VARIABLES kind,     \* [Objects -> Kinds or "unused"]
          slot,     \* the pointers of each object
          count,    \* ref_count
          held,     \* references the program's own variables hold
          globals,  \* Minimal_defaultLayer, _currentLayer and _typeType
          work,     \* drops under way, innermost first
          crashed,  \* "no", or why the process died
          program   \* the program that runs
heap == <<kind, slot, count>>
vars == <<kind, slot, count, held, globals, work, crashed, program>>

-----------------------------------------------------------------------------
(* Slots and the search for cycles.                                        *)

NoSlots == [f \in {} |-> NULL]
Live(o) == kind[o] # "unused"
Points(o, F) == {slot[o][f] : f \in {g \in F : slot[o][g] # NULL}}

\* What edges lead to from o, which takes as many steps as there are objects at
\* most.
Further(edges, S) == S \cup UNION {edges[x] : x \in S}
Spread(edges, o) ==
    LET after[n \in 0..Cardinality(Objects)] ==
            IF n = 0 THEN {o} ELSE Further(edges, after[n - 1])
    IN  after[Cardinality(Objects)]

\* The objects Minimal_performCyclicCollection lists when it starts at o.
Reach(o) == Spread([x \in Objects |-> Points(x, Reported(kind[x]))], o)

\* How many references to x the listed objects R report.
Internal(R, x) ==
    Cardinality({p \in UNION {{y} \X Reported(kind[y]) : y \in R} : slot[p[1]][p[2]] = x})

\* The listed objects that reach o: the largest clique o can be part of.
Clique(o) == {x \in Reach(o) : o \in Reach(x)}

-----------------------------------------------------------------------------
(* Minimal_delReference2, one drop at a time.                              *)

NoDrops == [x \in Objects |-> 0]
Drops(S) == \* the drops of freeing the objects S
    [x \in Objects |->
        Cardinality({p \in UNION {{y} \X Released(kind[y]) : y \in S} : slot[p[1]][p[2]] = x})]
Frame(drops, set, reclaim) == [drops |-> drops, set |-> set, reclaim |-> reclaim]
Drop(o) == [NoDrops EXCEPT ![o] = 1]
NoSet == <<NULL, "none", NULL>>

\* Is a pointer that is dropped without a test NULL?
NullDropped(S) == \E x \in S : \E f \in Released(kind[x]) \ Optional : slot[x][f] = NULL

\* The objects of S are torn down; their memory is freed when that is done.
Free(S, rest) ==
    IF NullDropped(S)
    THEN crashed' = "null" /\ UNCHANGED work
    ELSE work' = <<Frame(Drops(S), NoSet, S)>> \o rest /\ UNCHANGED crashed

Collect_rootOnly(o, left, rest) == \* faulty: only the first count is compared
    LET K == Clique(o)
    IN  \/ /\ left > Internal(Reach(o), o)
           /\ count' = [count EXCEPT ![o] = left]
           /\ work' = rest /\ UNCHANGED crashed
        \/ /\ left = Internal(Reach(o), o)
           /\ count' = [x \in Objects |-> IF x \in K THEN -1 ELSE count[x]]
           /\ Free(K, rest)
Collect(o, left, rest) == \* performCyclicCollection, o's count already lowered to left
    LET R       == Reach(o)
        c(x)    == IF x = o THEN left ELSE count[x]
        K       == Clique(o)
    IN  \/ /\ \/ c(o) > Internal(R, o)
              \/ c(o) = Internal(R, o) /\ \E x \in K : c(x) > Internal(R, x)
           /\ count' = [count EXCEPT ![o] = left]
           /\ work' = rest /\ UNCHANGED crashed
        \/ /\ \/ c(o) < Internal(R, o)
              \/ c(o) = Internal(R, o) /\ \E x \in K : c(x) < Internal(R, x)
           /\ crashed' = "count" /\ UNCHANGED <<count, work>>
        \/ /\ \A x \in K : c(x) = Internal(R, x)
           /\ count' = [x \in Objects |-> IF x \in K THEN -1 ELSE count[x]]
           /\ Free(K, rest)

Delete(o) ==
    /\ crashed = "no" /\ work # <<>> /\ Head(work).drops[o] > 0
    /\ LET rest == <<[Head(work) EXCEPT !.drops[o] = @ - 1]>> \o Tail(work) IN
       \/ /\ count[o] < 0
          /\ work' = rest /\ UNCHANGED <<count, crashed>>
       \/ /\ count[o] = 1
          /\ count' = [count EXCEPT ![o] = 0]
          /\ Free({o}, rest)
       \/ /\ count[o] > 1
          /\ Collect(o, count[o] - 1, rest)
       \/ /\ count[o] = 0 \* the drop of an object being freed: -1, no search
          /\ count' = [count EXCEPT ![o] = -1]
          /\ work' = rest /\ UNCHANGED crashed
    /\ UNCHANGED <<kind, slot, held, globals, program>>

\* All drops of the innermost frame are done: the setter that waited for them
\* stores its value, or the memory of the objects torn down is freed.
Return_keepSlots == \* faulty: freed memory keeps its pointers
    /\ crashed = "no" /\ work # <<>> /\ Head(work).drops = NoDrops
    /\ work' = Tail(work)
    /\ kind' = [x \in Objects |-> IF x \in Head(work).reclaim THEN "unused" ELSE kind[x]]
    /\ count' = [x \in Objects |-> IF x \in Head(work).reclaim THEN 0 ELSE count[x]]
    /\ UNCHANGED <<slot, held, globals, crashed, program>>
Return ==
    /\ crashed = "no" /\ work # <<>> /\ Head(work).drops = NoDrops
    /\ LET w == Head(work) IN
       /\ work' = Tail(work)
       /\ kind' = [x \in Objects |-> IF x \in w.reclaim THEN "unused" ELSE kind[x]]
       /\ count' = [x \in Objects |-> IF x \in w.reclaim THEN 0 ELSE count[x]]
       /\ slot' = [x \in Objects |->
                     IF x \in w.reclaim THEN NoSlots
                     ELSE IF x = w.set[1] /\ w.set[2] \in DOMAIN slot[x]
                          THEN [slot[x] EXCEPT ![w.set[2]] = w.set[3]]
                     ELSE slot[x]]
    /\ UNCHANGED <<held, globals, crashed, program>>

-----------------------------------------------------------------------------
(* The operations of the library, called while no drop is under way.       *)

Calling(op) == crashed = "no" /\ work = <<>> /\ op \in program.uses
Holding(o) == held[o] > 0
Unused(S) == \* memory for as many more objects
    /\ \A c \in S : ~Live(c)
    /\ Cardinality({x \in Cells : Live(x)} \cup S) <= program.cells
Running == globals.default # NULL   \* between Minimal_init and Minimal_finalise
AfterDrop(o) == IF o = NULL THEN work' = <<>>
                ELSE work' = <<Frame(Drop(o), NoSet, {})>>

Init ==
    /\ kind = [o \in Objects |-> CASE o = Default -> "layer" [] o = DefaultMap -> "map"
                                   [] o = TypeType -> "type" [] o = TypeDef -> "leaf"
                                   [] OTHER -> "unused"]
    /\ slot = [o \in Objects |->
                 CASE o = Default    -> [map |-> DefaultMap, parent |-> NULL]
                   [] o = DefaultMap -> [e1 |-> TypeType, e2 |-> NULL]
                   [] o = TypeType   -> [typeobj |-> TypeType, type_spec |-> TypeDef,
                                         typemap |-> Default]
                   [] OTHER          -> NoSlots]
    /\ count = [o \in Objects |-> CASE o \in {Default, TypeType} -> 3
                                    [] o \in {DefaultMap, TypeDef} -> 1
                                    [] OTHER -> 0]
    /\ held = [o \in Objects |-> 0]
    /\ globals = [default |-> Default, current |-> Default, typeType |-> TypeType]
    /\ work = <<>> /\ crashed = "no" /\ program \in Programs

\* A constructor of kind k builds c from its arguments.
Given(k) == [Take(k) \cup Share(k) -> {o \in Objects : Holding(o)} \cup {NULL}]
Suits_null(k, f, v) == \* faulty: the value of a sum may be NULL
    IF v = NULL THEN f \in Optional \cup {"value"}
    ELSE kind[v] \in IF k \in Trees \/ f \in {"type_spec", "parameter_list", "code"}
                     THEN Trees ELSE Values
Suits(k, f, v) ==
    IF v = NULL THEN f \in Optional \/ (f = "ptr" /\ AnySetter)
    ELSE kind[v] \in IF k \in Trees \/ f \in {"type_spec", "parameter_list", "code"}
                     THEN Trees ELSE Values
New(k, c, given) ==
    LET arg == [f \in Fields(k) |->
                  CASE f \in DOMAIN given -> given[f]
                    [] f \in Layered(k)   -> globals.current
                    [] f \in Typed(k)     -> globals.typeType
                    [] OTHER              -> NULL]
        shared(x) == Cardinality({f \in Share(k) \cup Layered(k) \cup Typed(k) : arg[f] = x})
        taken(x) == Cardinality({f \in Take(k) : arg[f] = x})
    IN  /\ Calling(k) /\ Running /\ Unused({c})
        /\ \A f \in DOMAIN given : Suits(k, f, given[f])
        /\ \A x \in Objects : taken(x) <= held[x]
        /\ k = "type" => given.type_spec # NULL /\ kind[given.type_spec] # "spec"
        /\ kind' = [kind EXCEPT ![c] = k]
        /\ slot' = [slot EXCEPT ![c] = arg]
        /\ count' = [x \in Objects |-> IF x = c THEN 1 ELSE count[x] + shared(x)]
        /\ held' = [x \in Objects |-> IF x = c THEN 1 ELSE held[x] - taken(x)]
        /\ UNCHANGED <<globals, work, crashed, program>>

\* A type built from a definition node keeps the node's body and drops the node.
TypeSpec(c, tree) ==
    LET def == slot[tree].type_def
        arg == [type_spec |-> def, typemap |-> globals.current, typeobj |-> globals.typeType]
    IN  /\ Calling("type") /\ Running /\ Unused({c})
        /\ Holding(tree) /\ kind[tree] = "spec"
        /\ kind' = [kind EXCEPT ![c] = "type"]
        /\ slot' = [slot EXCEPT ![c] = arg]
        /\ count' = [x \in Objects |-> IF x = c THEN 1
                                       ELSE count[x] + Cardinality({f \in Fields("type") : arg[f] = x})]
        /\ held' = [held EXCEPT ![c] = 1, ![tree] = @ - 1]
        /\ work' = <<Frame(Drop(tree), NoSet, {})>>
        /\ UNCHANGED <<globals, crashed, program>>

\* A type known only by its identifier; a tree field left out by the caller.
TypeFromId(c) ==
    /\ Calling("typeId") /\ Running /\ Unused({c})
    /\ kind' = [kind EXCEPT ![c] = "type"]
    /\ slot' = [slot EXCEPT ![c] = [typeobj |-> globals.typeType, type_spec |-> NULL,
                                    typemap |-> NULL]]
    /\ count' = [count EXCEPT ![c] = 1, ![globals.typeType] = @ + 1]
    /\ held' = [held EXCEPT ![c] = 1]
    /\ UNCHANGED <<globals, work, crashed, program>>

\* A layer and its empty name map.
CreateLayer(c, m, parent) ==
    /\ Calling("layer") /\ Running /\ c # m /\ Unused({c, m})
    /\ kind[parent] = "layer" /\ (Holding(parent) \/ parent = globals.default)
    /\ kind' = [kind EXCEPT ![c] = "layer", ![m] = "map"]
    /\ slot' = [slot EXCEPT ![c] = [map |-> m, parent |-> parent],
                            ![m] = [e1 |-> NULL, e2 |-> NULL]]
    /\ count' = [count EXCEPT ![c] = 1, ![m] = 1, ![parent] = @ + 1]
    /\ held' = [held EXCEPT ![c] = 1]
    /\ UNCHANGED <<globals, work, crashed, program>>

SetCurrentLayer(l) ==
    /\ Calling("setCurrent") /\ Running /\ Holding(l) /\ kind[l] = "layer"
    /\ globals' = [globals EXCEPT !.current = l]
    /\ count' = [count EXCEPT ![l] = @ + 1]
    /\ AfterDrop(globals.current)
    /\ UNCHANGED <<kind, slot, held, crashed, program>>

\* Minimal_tupleSet, _setPtr, _setSumValue and the trees' setTuple and addTo...:
\* the old value is dropped while the slot still points to it, and only then
\* overwritten; the container keeps the caller's reference to v.
Settable(o) == CASE kind[o] \in {"tuple", "branches"} -> {"e1", "e2"}
                 [] kind[o] = "pointer" -> {"ptr"}
                 [] kind[o] = "sum" -> {"value"}
                 [] OTHER -> {}
Set(o, f, v) ==
    LET old == slot[o][f] IN
    /\ Calling("set") /\ Holding(o) /\ f \in Settable(o)
    /\ Suits(kind[o], f, v) /\ (v # NULL => Holding(v))
    /\ kind[o] = "branches" => v # NULL /\ v \notin {x \in Objects : o \in Reach(x)}
    /\ (~AnySetter /\ old # NULL) => o \notin Reach(old)
    /\ held' = [x \in Objects |-> IF x = v THEN held[x] - 1 ELSE held[x]]
    /\ held'[o] > 0   \* the caller still has the container
    /\ IF old = NULL
       THEN slot' = [slot EXCEPT ![o][f] = v] /\ UNCHANGED work
       ELSE work' = <<Frame(Drop(old), <<o, f, v>>, {})>> /\ UNCHANGED slot
    /\ UNCHANGED <<kind, count, globals, crashed, program>>

\* Minimal_setType and Minimal_setTypeMap add, store, and only then drop.
SetType_noAdd(v, type) == \* faulty: the new type is not counted
    /\ Calling("setType") /\ Holding(v) /\ kind[v] \in Values
    /\ Holding(type) /\ kind[type] = "type"
    /\ slot' = [slot EXCEPT ![v].typeobj = type]
    /\ AfterDrop(slot[v].typeobj)
    /\ UNCHANGED <<kind, count, held, globals, crashed, program>>
SetType(v, type) ==
    /\ Calling("setType") /\ Holding(v) /\ kind[v] \in Values
    /\ Holding(type) /\ kind[type] = "type"
    /\ slot' = [slot EXCEPT ![v].typeobj = type]
    /\ count' = [count EXCEPT ![type] = @ + 1]
    /\ AfterDrop(slot[v].typeobj)
    /\ UNCHANGED <<kind, held, globals, crashed, program>>

SetTypeMap(v, types) ==
    LET typeobj == slot[v].typeobj
        targets == {x \in {v, typeobj} : x # NULL /\ kind[x] = "type"}
        old     == {x \in targets : slot[x].typemap # NULL}
    IN  /\ Calling("setTypeMap") /\ Holding(v) /\ kind[v] \in Values /\ typeobj # v
        /\ Holding(types) /\ kind[types] = "layer"
        /\ slot' = [x \in Objects |-> IF x \in targets
                                      THEN [slot[x] EXCEPT !.typemap = types] ELSE slot[x]]
        /\ count' = [count EXCEPT ![types] = @ + Cardinality(targets)]
        /\ work' = <<Frame([x \in Objects |-> Cardinality({t \in old : slot[t].typemap = x})],
                           NoSet, {})>>
        /\ UNCHANGED <<kind, held, globals, crashed, program>>

\* Minimal_addName keeps the caller's reference; a name bound already is
\* rebound, its old value dropped after.  Minimal_delName unbinds it first too.
AddName(m, f, v) ==
    /\ Calling("name") /\ kind[m] = "map" /\ m \in Cells /\ f \in {"e1", "e2"}
    /\ \E l \in Objects : kind[l] = "layer" /\ slot[l].map = m /\ (Holding(l) \/ l = globals.current)
    /\ v # NULL => Holding(v) /\ kind[v] \in Values
    /\ v = NULL => slot[m][f] # NULL
    /\ slot' = [slot EXCEPT ![m][f] = v]
    /\ held' = [x \in Objects |-> IF x = v THEN held[x] - 1 ELSE held[x]]
    /\ AfterDrop(slot[m][f])
    /\ UNCHANGED <<kind, count, globals, crashed, program>>

\* Minimal_Layer_addTree of a function definition: the function value keeps
\* the parameters and the body of the tree, the tree the type declared for the
\* name, if any, and the name is bound to the function.  t is the type object
\* Minimal_function2 builds for a typed function.
AddFunction(def, name, c, t) ==
    LET l     == globals.current
        m     == slot[l].map
        decl  == slot[m][name]
        typed == decl # NULL /\ kind[decl] = "type" /\ slot[decl].type_spec # NULL
        spec  == slot[decl].type_spec
        funct == [parameter_list |-> slot[def].parameter_list, code |-> slot[def].body,
                  layer |-> l, typeobj |-> IF typed THEN t ELSE NULL]
        type  == [type_spec |-> spec, typemap |-> l, typeobj |-> globals.typeType]
        added(x) == Cardinality({f \in Struct["function"] : funct[f] = x})
                    + IF typed THEN Cardinality({f \in Fields("type") : type[f] = x})
                                    + (IF x = spec THEN 1 ELSE 0)
                      ELSE 0
    IN  /\ Calling("addFunction") /\ Running /\ Holding(def) /\ kind[def] = "def"
        /\ slot[def].type_spec = NULL
        /\ (decl # NULL /\ kind[decl] = "type") => typed
        /\ Unused({c, t}) /\ (typed <=> c # t)
        /\ kind' = [x \in Objects |-> IF x = c THEN "function"
                                      ELSE IF typed /\ x = t THEN "type" ELSE kind[x]]
        /\ slot' = [x \in Objects |->
                      CASE x = c -> funct
                        [] typed /\ x = t -> type
                        [] typed /\ x = def -> [slot[x] EXCEPT !.type_spec = spec]
                        [] x = m -> [slot[x] EXCEPT ![name] = c]
                        [] OTHER -> slot[x]]
        /\ count' = [x \in Objects |-> IF x = c \/ (typed /\ x = t) THEN 1 ELSE count[x] + added(x)]
        /\ AfterDrop(decl)
        /\ UNCHANGED <<held, globals, crashed, program>>

\* Minimal_copy: tuples and pointers are copied with what they hold, each
\* object once (the memo), everything else is shared with the original.
Followed(k) == CASE k = "tuple" -> {"e1", "e2"} [] k = "pointer" -> {"ptr"} [] OTHER -> {}
Copied(v) == Spread([x \in Objects |-> Points(x, Followed(kind[x]))], v)
Copy(v, copy) ==
    LET C == DOMAIN copy
        nslot(x) == [f \in Fields(kind[x]) |->
                        IF f \in Followed(kind[x]) /\ slot[x][f] # NULL
                        THEN copy[slot[x][f]] ELSE slot[x][f]]
        shares(x) == Cardinality({p \in UNION {{y} \X (Fields(kind[y]) \ Followed(kind[y])) : y \in C} :
                                     slot[p[1]][p[2]] = x})
        occurs(x) == Cardinality({p \in UNION {{y} \X Followed(kind[y]) : y \in C} :
                                     slot[p[1]][p[2]] = x})
        original(y) == CHOOSE x \in C : copy[x] = y
        new == {copy[x] : x \in C}
    IN  /\ Calling("copy") /\ Holding(v) /\ kind[v] \in Values
        /\ Unused(new)
        /\ \A x \in C : /\ kind[x] \in Values \ {"sum"}
                        /\ kind[x] = "type" => slot[x].type_spec # NULL
        /\ kind' = [y \in Objects |-> IF y \in new THEN kind[original(y)] ELSE kind[y]]
        /\ slot' = [y \in Objects |-> IF y \in new THEN nslot(original(y)) ELSE slot[y]]
        /\ count' = [y \in Objects |->
                       IF y \in new THEN occurs(original(y)) + (IF y = copy[v] THEN 1 ELSE 0)
                       ELSE count[y] + shares(y)]
        /\ held' = [held EXCEPT ![copy[v]] = 1]
        /\ UNCHANGED <<globals, work, crashed, program>>

\* The program keeps one more reference to an object it can reach, or drops one.
AddReference(o) ==
    /\ Calling("reference") /\ Live(o) /\ o \in Cells /\ held[o] < program.held
    /\ \E x \in Objects : Holding(x) /\ o \in Reach(x)
    /\ held' = [held EXCEPT ![o] = @ + 1]
    /\ count' = [count EXCEPT ![o] = @ + 1]
    /\ UNCHANGED <<kind, slot, globals, work, crashed, program>>

DelReference(o) ==
    /\ Calling("drop") /\ Holding(o)
    /\ held' = [held EXCEPT ![o] = @ - 1]
    /\ AfterDrop(o)
    /\ UNCHANGED <<kind, slot, count, globals, crashed, program>>

\* Minimal_finalise: the global types, then the two layer variables.
Finalise ==
    /\ Calling("finalise") /\ Running
    /\ globals' = [default |-> NULL, current |-> NULL, typeType |-> NULL]
    /\ work' = <<Frame(Drop(globals.typeType), NoSet, {}),
                 Frame(Drop(globals.default), NoSet, {}),
                 Frame(Drop(globals.current), NoSet, {})>>
    /\ UNCHANGED <<kind, slot, count, held, crashed, program>>

\* The process ends: killed, or between two calls.
Over == (crashed # "no" \/ work = <<>>) /\ UNCHANGED vars

Next ==
    \/ \E k \in Kinds \ {"layer", "map"} : \E c \in Cells :
           /\ Calling(k) /\ \E given \in Given(k) : New(k, c, given)
    \/ \E c \in Cells, tree \in Objects : TypeSpec(c, tree)
    \/ \E c \in Cells : TypeFromId(c)
    \/ \E c, m \in Cells, p \in Objects : CreateLayer(c, m, p)
    \/ \E l \in Objects : SetCurrentLayer(l)
    \/ \E o \in Objects, v \in Objects \cup {NULL} : \E f \in Settable(o) : Set(o, f, v)
    \/ \E v, t \in Objects : SetType(v, t)
    \/ \E v, l \in Objects : SetTypeMap(v, l)
    \/ \E m \in Objects, f \in {"e1", "e2"}, v \in Objects \cup {NULL} : AddName(m, f, v)
    \/ \E def \in Objects, f \in {"e1", "e2"}, c, t \in Cells : AddFunction(def, f, c, t)
    \/ \E v \in Objects : Calling("copy") /\ \E copy \in [Copied(v) -> {c \in Cells : ~Live(c)}] :
           (\A x, y \in Copied(v) : copy[x] = copy[y] => x = y) /\ Copy(v, copy)
    \/ \E o \in Objects : AddReference(o)
    \/ \E o \in Objects : DelReference(o)
    \/ Finalise
    \/ \E o \in Objects : Delete(o)
    \/ Return
    \/ Over

Spec == Init /\ [][Next]_vars

-----------------------------------------------------------------------------
TypeOK ==
    /\ kind \in [Objects -> Kinds \cup {"unused"}]
    /\ \A o \in Objects : slot[o] \in [IF Live(o) THEN Fields(kind[o]) ELSE {} -> Objects \cup {NULL}]
    /\ count \in [Objects -> Int]
    /\ held \in [Objects -> Nat]
    /\ globals \in [default : Objects \cup {NULL}, current : Objects \cup {NULL},
                    typeType : Objects \cup {NULL}]
    /\ work \in Seq([drops : [Objects -> Nat], reclaim : SUBSET Objects,
                     set : (Objects \cup {NULL}) \X (FieldNames \cup {"none"})
                           \X (Objects \cup {NULL})])
    /\ crashed \in {"no", "count", "null"}
    /\ program \in Programs

\* References to o that are somebody's: the program's, the globals', those of
\* slots of objects not being torn down (a slot waiting to be overwritten is
\* no longer one), the values waiting to be stored, and the drops still to do.
Alive == {x \in Objects : Live(x) /\ count[x] > 0}
Replaced(p) == \E i \in DOMAIN work : work[i].set[1] = p[1] /\ work[i].set[2] = p[2]
Referrers(o) == {p \in UNION {{x} \X Fields(kind[x]) : x \in Alive} :
                    slot[p[1]][p[2]] = o /\ ~Replaced(p)}
GlobalRefs(o) == Cardinality({g \in DOMAIN globals : globals[g] = o})
Pending(frames, o) ==
    LET sum[i \in 0..Len(frames)] ==
            IF i = 0 THEN 0
            ELSE sum[i - 1] + frames[i].drops[o] + (IF frames[i].set[3] = o THEN 1 ELSE 0)
    IN  sum[Len(frames)]
Waiting(o) == Pending(work, o)

\* Every count is exact: no step of a nested teardown loses or invents a
\* reference (ref_count, refcount.c:51-61; constructors and setters of values.c).
RefCountExact ==
    crashed = "no" => \A o \in Alive :
        count[o] = held[o] + GlobalRefs(o) + Cardinality(Referrers(o)) + Waiting(o)

\* The collector never frees an object that somebody still refers to: a
\* reference of the program, of a global or of a live object leads to memory
\* that is in use and not being torn down (cyclic_garbage.c:175-197).
NoDangling ==
    crashed = "no" =>
        /\ \A o \in Objects : held[o] + GlobalRefs(o) > 0 => o \in Alive
        /\ \A x \in Alive : \A f \in DOMAIN slot[x] :
               slot[x][f] # NULL /\ ~Replaced(<<x, f>>) => slot[x][f] \in Alive

\* Nothing is left behind: between two calls every object in use, cycles
\* included, can be reached from a reference of the program or of a global
\* (the purpose of performCyclicCollection).
NoGarbage ==
    crashed = "no" /\ work = <<>> =>
        \A o \in Objects : Live(o) =>
            \E x \in Objects : held[x] + GlobalRefs(x) > 0 /\ o \in Reach(x)

\* The process does not die in the collector: neither on a count below the
\* references it found (cyclic_garbage.c:136-141, 158-163) nor on NULL.
NeverCrashes == crashed = "no"
\* "Real reference count lower than cyclic count. This should not happen!"
\* (cyclic_garbage.c:138)
NeverBelowCyclicCount == crashed # "count"
=============================================================================
