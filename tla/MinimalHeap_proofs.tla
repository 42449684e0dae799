------------------------- MODULE MinimalHeap_proofs -------------------------
(***************************************************************************)
(* That counts and the cycle collector together free what nothing refers   *)
(* to and nothing else, for any objects and programs in which no setter    *)
(* replaces a value that leads back to its container (~AnySetter).         *)
(*                                                                         *)
(* HeapInv is inductive:                                                   *)
(*   WellTyped  objects have the pointers of their kind;                   *)
(*   Sound      counts are Exact, what is referred to is alive (Safe), all *)
(*              that is alive is referred to in the end (Covers), and      *)
(*              pointers that are dropped untested lead somewhere (Filled, *)
(*              Layers);                                                   *)
(*   Orderly, FrameOK, Torn  about the stack of drops: who frees what, and *)
(*              that a setter waits alone at its bottom.                   *)
(* Quiet says the same of the heap between two calls.  Each operation is   *)
(* composed of a few rewrites of the heap that keep Quiet; one lemma for   *)
(* each operation (...Keeps) says that it keeps HeapInv, and three lemmas  *)
(* say it of the free, the search and the return of a drop.                *)
(***************************************************************************)
EXTENDS MinimalHeap, FiniteSetTheorems, TLAPS

Lists == INSTANCE OwnerList_proofs

(***************************************************************************)
(* Kinds, fields and objects.                                              *)
(***************************************************************************)
\* The sets of kinds are apart.
LEMMA KindsApart ==
    /\ \A k \in Values : k \notin Trees /\ k \notin {"layer", "map", "unused"}
    /\ \A k \in Trees : k \notin Values /\ k \notin {"layer", "map", "unused"}
    /\ "layer" \notin Values \cup Trees /\ "map" \notin Values \cup Trees
    /\ "unused" \notin Kinds
BY DEF Values, Trees, Kinds

\* The collector is told of all pointers of a tree, and all are given up.
LEMMA TreeFields ==
    ASSUME NEW k \in Trees
    PROVE  Reported(k) = Struct[k] /\ Released(k) = Struct[k] /\ Fields(k) = Struct[k]
<1>1. /\ ReportedByTree["leaf"] = Struct["leaf"] /\ ReportedByTree["branches"] = Struct["branches"]
      /\ ReportedByTree["spec"] = Struct["spec"] /\ ReportedByTree["def"] = Struct["def"]
      /\ ReportedByTree["params"] = Struct["params"] /\ ReportedByTree["call"] = Struct["call"]
      /\ ReportedByTree["let"] = Struct["let"] /\ ReportedByTree["args"] = Struct["args"]
      /\ ReportedByTree["op"] = Struct["op"] /\ ReportedByTree["ifexpr"] = Struct["ifexpr"]
      /\ ReportedByTree["index"] = Struct["index"]
    BY DEF ReportedByTree, Struct
<1>2. /\ ReleasedByTree["leaf"] = Struct["leaf"] /\ ReleasedByTree["branches"] = Struct["branches"]
      /\ ReleasedByTree["spec"] = Struct["spec"] /\ ReleasedByTree["def"] = Struct["def"]
      /\ ReleasedByTree["params"] = Struct["params"] /\ ReleasedByTree["call"] = Struct["call"]
      /\ ReleasedByTree["let"] = Struct["let"] /\ ReleasedByTree["args"] = Struct["args"]
      /\ ReleasedByTree["op"] = Struct["op"] /\ ReleasedByTree["ifexpr"] = Struct["ifexpr"]
      /\ ReleasedByTree["index"] = Struct["index"]
    BY DEF ReleasedByTree, Struct
<1>3. ReportedByTree[k] = Struct[k] /\ ReleasedByTree[k] = Struct[k]
    BY <1>1, <1>2 DEF Trees
<1>4. k \notin Values /\ k # "layer" /\ k # "map"
    BY KindsApart
<1>5. Reported(k) = ReportedByTree[k]
    BY <1>4 DEF Reported
<1>6. Released(k) = ReleasedByTree[k]
    BY <1>4 DEF Released
<1>. QED BY <1>3, <1>4, <1>5, <1>6 DEF Fields, Typeobj

\* The same of a value, of a layer and of a map of names.
LEMMA ValueFields ==
    ASSUME NEW k \in Values
    PROVE  /\ Reported(k) = Struct[k] \cup {"typeobj"} /\ Released(k) = Struct[k] \cup {"typeobj"}
           /\ Fields(k) = Struct[k] \cup {"typeobj"}
<1>1. ReportedByValue[k] = Struct[k] /\ ReleasedByValue[k] = Struct[k]
    <2>1. /\ ReportedByValue["scalar"] = Struct["scalar"] /\ ReportedByValue["type"] = Struct["type"]
          /\ ReportedByValue["tuple"] = Struct["tuple"] /\ ReportedByValue["sum"] = Struct["sum"]
          /\ ReportedByValue["function"] = Struct["function"]
          /\ ReportedByValue["pointer"] = Struct["pointer"]
        BY DEF ReportedByValue, Struct
    <2>2. /\ ReleasedByValue["scalar"] = Struct["scalar"] /\ ReleasedByValue["type"] = Struct["type"]
          /\ ReleasedByValue["tuple"] = Struct["tuple"] /\ ReleasedByValue["sum"] = Struct["sum"]
          /\ ReleasedByValue["function"] = Struct["function"]
          /\ ReleasedByValue["pointer"] = Struct["pointer"]
        BY DEF ReleasedByValue, Struct
    <2>. QED BY <2>1, <2>2 DEF Values
<1>2. k \notin Trees /\ k # "layer" /\ k # "map"
    BY KindsApart
<1>3. Reported(k) = ReportedByValue[k] \cup {"typeobj"}
    BY <1>2 DEF Reported
<1>4. Released(k) = ReleasedByValue[k] \cup {"typeobj"}
    BY <1>2 DEF Released
<1>. QED BY <1>1, <1>3, <1>4 DEF Fields, Typeobj

\* ... and of a layer, of a map of names and of memory not in use.
LEMMA OtherFields ==
    /\ Reported("layer") = {"map", "parent"} /\ Released("layer") = {"map", "parent"}
    /\ Fields("layer") = {"map", "parent"}
    /\ Reported("map") = {"e1", "e2"} /\ Released("map") = {"e1", "e2"} /\ Fields("map") = {"e1", "e2"}
    /\ Reported("unused") = {} /\ Released("unused") = {}
<1>1. Struct["layer"] = {"map", "parent"} /\ Struct["map"] = {"e1", "e2"}
    BY DEF Struct
<1>2. Fields("layer") = {"map", "parent"} /\ Fields("map") = {"e1", "e2"}
    BY <1>1, KindsApart DEF Fields, Typeobj
<1>3. Reported("layer") = {"map", "parent"} /\ Reported("map") = {"e1", "e2"}
    BY KindsApart DEF Reported
<1>4. Released("layer") = {"map", "parent"} /\ Released("map") = {"e1", "e2"}
    BY KindsApart DEF Released
<1>5. "unused" \notin Values /\ "unused" \notin Trees
    BY KindsApart DEF Kinds
<1>6. Reported("unused") = {} /\ Released("unused") = {}
    BY <1>5 DEF Reported, Released
<1>. QED BY <1>2, <1>3, <1>4, <1>6

\* The collector is told of all pointers, and all are given up.
LEMMA AllFields ==
    ASSUME NEW k \in Kinds
    PROVE  /\ Reported(k) = Fields(k) /\ Released(k) = Fields(k)
           /\ Fields(k) \subseteq FieldNames /\ k # "unused"
<1>1. Fields(k) \subseteq FieldNames
    <2>1. ASSUME NEW f \in Struct[k] PROVE f \in FieldNames
        BY DEF FieldNames
    <2>2. "typeobj" \in FieldNames
        BY DEF FieldNames
    <2>3. \A f \in Fields(k) : f \in Struct[k] \/ f = "typeobj"
        BY DEF Fields, Typeobj
    <2>. QED BY <2>1, <2>2, <2>3
<1>2. CASE k \in Values
    BY <1>2, <1>1, ValueFields, KindsApart
<1>3. CASE k \in Trees
    BY <1>3, <1>1, TreeFields, KindsApart
<1>4. CASE k \in {"layer", "map"}
    BY <1>4, <1>1, OtherFields
<1>. QED BY <1>2, <1>3, <1>4 DEF Kinds

\* The names of pointers are finitely many.
LEMMA FewFields == IsFiniteSet(FieldNames)
<1> DEFINE Pair(a, b) == {a, b}
<1>1. \A a, b, c, d, e, f : IsFiniteSet({a, b, c, d, e, f})
    <2> TAKE a, b, c, d, e, f
    <2>1. IsFiniteSet({a} \cup {b}) /\ IsFiniteSet({c} \cup {d}) /\ IsFiniteSet({e} \cup {f})
        BY FS_Singleton, FS_Union
    <2>2. IsFiniteSet(({a} \cup {b}) \cup (({c} \cup {d}) \cup ({e} \cup {f})))
        BY <2>1, FS_Union
    <2>3. ({a} \cup {b}) \cup (({c} \cup {d}) \cup ({e} \cup {f})) = {a, b, c, d, e, f}
        OBVIOUS
    <2>. QED BY <2>2, <2>3
<1> DEFINE A == {"type_spec", "typemap", "e1", "e2", "value", "parameter_list"}
           B == {"code", "layer", "ptr", "type_def", "body", "next_var"}
           C == {"function", "arguments", "var", "letexpr", "argument", "next_arg"}
           D == {"op1", "op2", "_if", "_then", "_else", "expr"}
           E == {"index", "map", "parent", "typeobj", "typeobj", "typeobj"}
<1>2. IsFiniteSet((A \cup B) \cup ((C \cup D) \cup E))
    <2>1. IsFiniteSet(A) /\ IsFiniteSet(B) /\ IsFiniteSet(C) /\ IsFiniteSet(D) /\ IsFiniteSet(E)
        BY <1>1
    <2> HIDE DEF A, B, C, D, E
    <2>2. IsFiniteSet(A \cup B) /\ IsFiniteSet(C \cup D)
        BY <2>1, FS_Union
    <2>3. IsFiniteSet((C \cup D) \cup E)
        BY <2>1, <2>2, FS_Union
    <2>. QED BY <2>2, <2>3, FS_Union
<1>3. \A k \in Kinds : Struct[k] \subseteq (A \cup B) \cup ((C \cup D) \cup E)
    <2>1. \A k \in Values : Struct[k] \subseteq A \cup B
        BY DEF Values, Struct
    <2>2. \A k \in {"layer", "map"} : Struct[k] \subseteq A \cup E
        BY DEF Struct
    <2>3. \A k \in {"leaf", "branches", "spec", "def", "params", "call"} : Struct[k] \subseteq A \cup (B \cup C)
        BY DEF Struct
    <2>4. \A k \in {"let", "args", "op", "ifexpr", "index"} : Struct[k] \subseteq (B \cup C) \cup (D \cup E)
        BY DEF Struct
    <2> HIDE DEF A, B, C, D, E
    <2>. QED BY <2>1, <2>2, <2>3, <2>4 DEF Kinds, Trees
<1>4. FieldNames \subseteq (A \cup B) \cup ((C \cup D) \cup E)
    <2>1. "typeobj" \in E
        OBVIOUS
    <2> HIDE DEF A, B, C, D, E
    <2>2. \A f \in FieldNames : f = "typeobj" \/ \E k \in Kinds : f \in Struct[k]
        BY DEF FieldNames
    <2>. QED BY <2>2, <2>1, <1>3
<1> HIDE DEF A, B, C, D, E
<1>. QED BY <1>2, <1>4, FS_Subset

\* There are finitely many objects; the four of the library are four.
LEMMA TheObjects ==
    /\ IsFiniteSet(Objects) /\ Cardinality(Objects) \in Nat /\ NULL \notin Objects
    /\ Default # DefaultMap /\ Default # TypeType /\ Default # TypeDef
    /\ DefaultMap # TypeType /\ DefaultMap # TypeDef /\ TypeType # TypeDef
    /\ Cells \subseteq Objects /\ Builtin \subseteq Objects /\ Builtin \cap Cells = {}
<1>1. \A a, b, c : IsFiniteSet({a, b, c}) /\ Cardinality({a, b, c}) <= 3
    <2> TAKE a, b, c
    <2>1. IsFiniteSet({a}) /\ Cardinality({a}) = 1
        BY FS_Singleton
    <2>2. IsFiniteSet({a} \cup {b}) /\ Cardinality({a} \cup {b}) <= 2 /\ Cardinality({a} \cup {b}) \in Nat
        <3>1. /\ IsFiniteSet({a} \cup {b})
              /\ Cardinality({a} \cup {b}) = IF b \in {a} THEN Cardinality({a}) ELSE Cardinality({a}) + 1
            BY <2>1, FS_AddElement
        <3>2. Cardinality({a} \cup {b}) <= 2
            BY <3>1, <2>1
        <3>. QED BY <3>1, <3>2, FS_CardinalityType
    <2>3. IsFiniteSet(({a} \cup {b}) \cup {c}) /\ Cardinality(({a} \cup {b}) \cup {c}) <= 3
        <3> DEFINE S == {a} \cup {b}
        <3>1. /\ IsFiniteSet(S \cup {c})
              /\ Cardinality(S \cup {c}) = IF c \in S THEN Cardinality(S) ELSE Cardinality(S) + 1
            <4> HIDE DEF S
            <4>. QED BY <2>2, FS_AddElement DEF S
        <3>2. Cardinality(S) \in Nat /\ Cardinality(S) <= 2
            BY <2>2
        <3> HIDE DEF S
        <3>3. Cardinality(S \cup {c}) <= 3
            BY <3>1, <3>2
        <3>. QED BY <3>1, <3>3 DEF S
    <2>4. ({a} \cup {b}) \cup {c} = {a, b, c}
        OBVIOUS
    <2>. QED BY <2>3, <2>4
<1>2. \A a, b, c : Builtin # {a, b, c}
    <2> TAKE a, b, c
    <2>1. Cardinality({a, b, c}) <= 3 /\ Cardinality({a, b, c}) \in Nat
        BY <1>1, FS_CardinalityType
    <2>2. Cardinality(Builtin) = 4
        BY ObjectsAreDistinct
    <2>. QED BY <2>1, <2>2
<1>3. /\ Default # DefaultMap /\ Default # TypeType /\ Default # TypeDef
      /\ DefaultMap # TypeType /\ DefaultMap # TypeDef /\ TypeType # TypeDef
    <2>1. Builtin = {Default, DefaultMap, TypeType, TypeDef}
        BY DEF Builtin
    <2>. QED BY <1>2, <2>1
<1>4. IsFiniteSet(Builtin)
    <2>1. IsFiniteSet({Default, DefaultMap, TypeType} \cup {TypeDef})
        BY <1>1, FS_Singleton, FS_Union
    <2>2. Builtin = {Default, DefaultMap, TypeType} \cup {TypeDef}
        BY DEF Builtin
    <2>. QED BY <2>1, <2>2
<1>5. IsFiniteSet(Objects)
    BY <1>4, ObjectsAreDistinct, FS_Union DEF Objects
<1>. QED BY <1>3, <1>5, ObjectsAreDistinct, FS_CardinalityType DEF Objects


(***************************************************************************)
(* What edges lead to.                                                     *)
(***************************************************************************)
Chain(edges, o, N, g) ==
    g = [n \in 0 .. N |-> IF n = 0 THEN {o} ELSE Further(edges, g[n - 1])]

\* There is such a function for every number of steps.
LEMMA ChainExists == \A edges, o : \A N \in Nat : \E g : Chain(edges, o, N, g)
<1> SUFFICES ASSUME NEW edges, NEW o
             PROVE  \A N \in Nat : \E g : Chain(edges, o, N, g)
    OBVIOUS
<1> DEFINE T == {N \in Nat : \E g : Chain(edges, o, N, g)}
<1>1. 0 \in T
    <2>1. Chain(edges, o, 0, [n \in 0 .. 0 |-> {o}])
        BY DEF Chain
    <2>. QED BY <2>1
<1>2. ASSUME NEW N \in Nat, N \in T PROVE N + 1 \in T
    <2>1. PICK g : Chain(edges, o, N, g)
        BY <1>2
    <2> DEFINE last == Further(edges, g[N])
               h == [n \in 0 .. (N + 1) |-> IF n = N + 1 THEN last ELSE g[n]]
    <2>2. \A n \in 0 .. N : g[n] = IF n = 0 THEN {o} ELSE Further(edges, g[n - 1])
        BY <2>1 DEF Chain
    <2>3. ASSUME NEW n \in 0 .. (N + 1)
          PROVE  h[n] = IF n = 0 THEN {o} ELSE Further(edges, h[n - 1])
        <3>1. CASE n = N + 1
            <4>1. n # 0 /\ n - 1 = N /\ h[n - 1] = g[N] /\ h[n] = last
                BY <3>1
            <4>. QED BY <4>1
        <3>2. CASE n \in 0 .. N
            <4>1. h[n] = g[n] /\ (n # 0 => h[n - 1] = g[n - 1])
                BY <3>2
            <4>. QED BY <4>1, <3>2, <2>2
        <3>. QED BY <3>1, <3>2
    <2>4. Chain(edges, o, N + 1, h)
        BY <2>3 DEF Chain
    <2>. QED BY <2>4
<1>3. Nat \subseteq T
    <2> HIDE DEF T
    <2>. QED BY <1>1, <1>2, Lists!Induction
<1>. QED BY <1>3

Steps(edges, o, g) ==
    /\ g[0] = {o} /\ Spread(edges, o) = g[Cardinality(Objects)]
    /\ \A n \in Nat : n + 1 <= Cardinality(Objects) => g[n + 1] = Further(edges, g[n])

\* What edges lead to is reached in as many steps as there are objects.
LEMMA SpreadSteps == \A edges, o : \E g : Steps(edges, o, g)
<1> TAKE edges, o
<1> DEFINE N == Cardinality(Objects)
           after[n \in 0 .. N] == IF n = 0 THEN {o} ELSE Further(edges, after[n - 1])
<1>1. N \in Nat
    BY TheObjects
<1>2. \E g : Chain(edges, o, N, g)
    <2> HIDE DEF N
    <2>. QED BY <1>1, ChainExists
<1>3. Chain(edges, o, N, after)
    BY <1>2 DEF Chain
<1>4. Spread(edges, o) = after[N]
    BY DEF Spread
<1> HIDE DEF after, N
<1>5. \A n \in 0 .. N : after[n] = IF n = 0 THEN {o} ELSE Further(edges, after[n - 1])
    BY <1>3 DEF Chain
<1>6. ASSUME NEW n \in Nat, n + 1 <= N PROVE after[n + 1] = Further(edges, after[n])
    <2>1. n + 1 \in 0 .. N /\ n + 1 # 0 /\ (n + 1) - 1 = n
        BY <1>1, <1>6
    <2>. QED BY <2>1, <1>5
<1>7. after[0] = {o}
    BY <1>1, <1>5
<1>8. Steps(edges, o, after)
    BY <1>4, <1>6, <1>7 DEF N, Steps
<1>. QED BY <1>8

\* What edges lead to from o is closed, and the least closed set with o: each
\* step that adds something adds an object, and there are no more than that.
LEMMA SpreadFacts ==
    ASSUME NEW edges \in [Objects -> SUBSET Objects], NEW o \in Objects
    PROVE  /\ o \in Spread(edges, o) /\ Spread(edges, o) \subseteq Objects
           /\ \A x \in Spread(edges, o) : edges[x] \subseteq Spread(edges, o)
           /\ \A S : o \in S /\ (\A x \in S \cap Objects : edges[x] \subseteq S) => Spread(edges, o) \subseteq S
<1> DEFINE N == Cardinality(Objects)
<1> HIDE DEF N
<1>1. PICK g : /\ g[0] = {o} /\ Spread(edges, o) = g[N]
               /\ \A n \in Nat : n + 1 <= N => g[n + 1] = Further(edges, g[n])
    <2>1. PICK g : Steps(edges, o, g)
        BY SpreadSteps
    <2>. QED BY <2>1 DEF N, Steps
<1>2. N \in Nat /\ IsFiniteSet(Objects)
    BY TheObjects DEF N
<1>3. \A S : S \subseteq Further(edges, S)
    BY DEF Further
<1>4. \A S \in SUBSET Objects : Further(edges, S) \subseteq Objects
    BY DEF Further
<1> DEFINE T == {n \in Nat : n <= N => o \in g[n] /\ g[n] \subseteq Objects
                              /\ (Further(edges, g[n]) = g[n] \/ Cardinality(g[n]) >= n + 1)}
<1>5. 0 \in T
    <2>1. Cardinality(g[0]) = 1
        BY <1>1, FS_Singleton
    <2>2. o \in g[0] /\ g[0] \subseteq Objects
        BY <1>1
    <2>3. Cardinality(g[0]) >= 0 + 1
        BY <2>1
    <2>. QED BY <2>2, <2>3
<1>6. ASSUME NEW n \in Nat, n \in T PROVE n + 1 \in T
    <2> SUFFICES ASSUME n + 1 <= N
                 PROVE  /\ o \in g[n + 1] /\ g[n + 1] \subseteq Objects
                        /\ Further(edges, g[n + 1]) = g[n + 1] \/ Cardinality(g[n + 1]) >= n + 2
        OBVIOUS
    <2>1. /\ o \in g[n] /\ g[n] \subseteq Objects
          /\ Further(edges, g[n]) = g[n] \/ Cardinality(g[n]) >= n + 1
        BY <1>2, <1>6
    <2>2. g[n + 1] = Further(edges, g[n])
        BY <1>1
    <2>3. o \in g[n + 1] /\ g[n + 1] \subseteq Objects /\ g[n] \subseteq g[n + 1]
        BY <2>1, <2>2, <1>3, <1>4
    <2>4. CASE Further(edges, g[n]) = g[n]
        BY <2>2, <2>3, <2>4
    <2>5. CASE Further(edges, g[n]) # g[n] /\ Cardinality(g[n]) >= n + 1
        <3>1. IsFiniteSet(g[n + 1]) /\ IsFiniteSet(g[n])
            BY <2>1, <2>3, <1>2, FS_Subset
        <3>2. Cardinality(g[n + 1]) \in Nat /\ Cardinality(g[n]) \in Nat
            BY <3>1, FS_CardinalityType
        <3>3. Cardinality(g[n]) <= Cardinality(g[n + 1]) /\ Cardinality(g[n]) # Cardinality(g[n + 1])
            BY <2>2, <2>3, <2>5, <3>1, FS_Subset
        <3>. QED BY <2>3, <2>5, <3>2, <3>3
    <2>. QED BY <2>1, <2>4, <2>5
<1>7. o \in g[N] /\ g[N] \subseteq Objects /\ (Further(edges, g[N]) = g[N] \/ Cardinality(g[N]) >= N + 1)
    <2>1. Nat \subseteq T
        <3> HIDE DEF T
        <3>. QED BY <1>5, <1>6, Lists!Induction
    <2>2. N \in T
        <3> HIDE DEF T
        <3>. QED BY <2>1, <1>2
    <2>. QED BY <2>2, <1>2
<1>8. Further(edges, g[N]) = g[N]
    <2>1. Cardinality(g[N]) <= N
        BY <1>2, <1>7, FS_Subset DEF N
    <2>2. Cardinality(g[N]) \in Nat
        BY <1>2, <1>7, FS_Subset, FS_CardinalityType
    <2>. QED BY <1>2, <1>7, <2>1, <2>2
<1>9. \A x \in g[N] : edges[x] \subseteq g[N]
    BY <1>8 DEF Further
<1>10. ASSUME NEW S, o \in S, \A x \in S \cap Objects : edges[x] \subseteq S
       PROVE  g[N] \subseteq S
    <2> DEFINE U == {n \in Nat : n <= N => g[n] \subseteq S \cap Objects}
    <2>1. 0 \in U
        BY <1>1, <1>10
    <2>2. ASSUME NEW n \in Nat, n \in U PROVE n + 1 \in U
        <3> SUFFICES ASSUME n + 1 <= N PROVE g[n + 1] \subseteq S \cap Objects
            OBVIOUS
        <3>1. g[n] \subseteq S \cap Objects /\ g[n + 1] = Further(edges, g[n])
            BY <1>1, <1>2, <2>2
        <3>. QED BY <3>1, <1>10 DEF Further
    <2>3. Nat \subseteq U
        <3> HIDE DEF U
        <3>. QED BY <2>1, <2>2, Lists!Induction
    <2>4. N \in U
        <3> HIDE DEF U
        <3>. QED BY <2>3, <1>2
    <2>. QED BY <2>4, <1>2
<1>. QED BY <1>1, <1>7, <1>9, <1>10

(***************************************************************************)
(* The drops still to do.                                                  *)
(***************************************************************************)
FrameType ==
    [drops : [Objects -> Nat], reclaim : SUBSET Objects,
     set : (Objects \cup {NULL}) \X (FieldNames \cup {"none"}) \X (Objects \cup {NULL})]
Is(a, x) == IF a = x THEN 1 ELSE 0
Owed(frame, x) == frame.drops[x] + Is(frame.set[3], x)
Frames(w) == {w[i] : i \in DOMAIN w}

Summed(w, x, N, g) ==
    g = [i \in 0 .. N |-> IF i = 0 THEN 0
                          ELSE g[i - 1] + w[i].drops[x] + (IF w[i].set[3] = x THEN 1 ELSE 0)]
Sums(w, x, g) ==
    /\ g[0] = 0 /\ Pending(w, x) = g[Len(w)]
    /\ \A n \in Nat : n + 1 <= Len(w) =>
          g[n + 1] = g[n] + w[n + 1].drops[x] + Is(w[n + 1].set[3], x)

\* There is such a function for every number of frames.
LEMMA SummedExists == \A w, x : \A N \in Nat : \E g : Summed(w, x, N, g)
<1> SUFFICES ASSUME NEW w, NEW x
             PROVE  \A N \in Nat : \E g : Summed(w, x, N, g)
    OBVIOUS
<1> DEFINE T == {N \in Nat : \E g : Summed(w, x, N, g)}
           add(i) == IF w[i].set[3] = x THEN 1 ELSE 0
           step(g, i) == g[i - 1] + w[i].drops[x] + add(i)
<1>1. 0 \in T
    <2>1. Summed(w, x, 0, [i \in 0 .. 0 |-> 0])
        BY DEF Summed
    <2>. QED BY <2>1
<1>2. ASSUME NEW N \in Nat, N \in T PROVE N + 1 \in T
    <2>1. PICK g : Summed(w, x, N, g)
        BY <1>2
    <2> DEFINE last == step(g, N + 1)
               h == [i \in 0 .. (N + 1) |-> IF i = N + 1 THEN last ELSE g[i]]
    <2>2. \A i \in 0 .. N : g[i] = IF i = 0 THEN 0 ELSE step(g, i)
        BY <2>1 DEF Summed
    <2>3. ASSUME NEW i \in 0 .. (N + 1)
          PROVE  h[i] = IF i = 0 THEN 0 ELSE step(h, i)
        <3>1. CASE i = N + 1
            <4>1. i # 0 /\ i - 1 = N /\ h[i - 1] = g[i - 1] /\ h[i] = last
                BY <3>1
            <4>2. step(h, i) = step(g, i)
                BY <4>1
            <4> HIDE DEF step, h
            <4>. QED BY <4>1, <4>2, <3>1 DEF h
        <3>2. CASE i \in 0 .. N
            <4>1. h[i] = g[i] /\ (i # 0 => h[i - 1] = g[i - 1])
                BY <3>2
            <4>2. i # 0 => step(h, i) = step(g, i)
                BY <4>1
            <4> HIDE DEF step, h
            <4>. QED BY <4>1, <4>2, <3>2, <2>2
        <3>. QED BY <3>1, <3>2
    <2>4. Summed(w, x, N + 1, h)
        BY <2>3 DEF Summed
    <2>. QED BY <2>4
<1>3. Nat \subseteq T
    <2> HIDE DEF T
    <2>. QED BY <1>1, <1>2, Lists!Induction
<1>. QED BY <1>3

\* What the frames owe is a sum, frame by frame.
LEMMA PendingSteps == \A w, x : Len(w) \in Nat => \E g : Sums(w, x, g)
<1> SUFFICES ASSUME NEW w, NEW x, Len(w) \in Nat PROVE \E g : Sums(w, x, g)
    OBVIOUS
<1> DEFINE sum[i \in 0 .. Len(w)] ==
               IF i = 0 THEN 0
               ELSE sum[i - 1] + w[i].drops[x] + (IF w[i].set[3] = x THEN 1 ELSE 0)
<1>1. \E g : Summed(w, x, Len(w), g)
    BY SummedExists
<1>2. Summed(w, x, Len(w), sum)
    BY <1>1 DEF Summed
<1>3. Pending(w, x) = sum[Len(w)]
    BY DEF Pending
<1> HIDE DEF sum
<1>4. ASSUME NEW n \in Nat, n + 1 <= Len(w)        PROVE  sum[n + 1] = sum[n] + w[n + 1].drops[x] + Is(w[n + 1].set[3], x)
    <2>1. n + 1 \in 0 .. Len(w) /\ n + 1 # 0 /\ (n + 1) - 1 = n
        BY <1>4
    <2>2. sum[n + 1] = sum[n] + w[n + 1].drops[x] + (IF w[n + 1].set[3] = x THEN 1 ELSE 0)
        BY <2>1, <1>2 DEF Summed
    <2>. QED BY <2>2 DEF Is
<1>5. sum[0] = 0
    BY <1>2 DEF Summed
<1>6. Sums(w, x, sum)
    BY <1>3, <1>4, <1>5 DEF Sums
<1>. QED BY <1>6

\* What a frame owes an object is a number, and none if nothing in it points there.
LEMMA OwedType ==
    \A f \in FrameType, x \in Objects :
        /\ f.drops[x] \in Nat /\ Is(f.set[3], x) \in {0, 1} /\ Owed(f, x) \in Nat
        /\ Owed(f, x) = f.drops[x] + Is(f.set[3], x)
        /\ (Owed(f, x) = 0 <=> f.drops[x] = 0 /\ f.set[3] # x)
<1> TAKE f \in FrameType, x \in Objects
<1>1. f.drops[x] \in Nat
    BY DEF FrameType
<1>2. Is(f.set[3], x) \in {0, 1} /\ (Is(f.set[3], x) = 0 <=> f.set[3] # x)
    BY DEF Is
<1>. QED BY <1>1, <1>2 DEF Owed

\* The frames of a stack are its first frame and those below it.
LEMMA OnTop ==
    ASSUME NEW f \in FrameType, NEW w \in Seq(FrameType)
    PROVE  LET v == <<f>> \o w IN
           /\ v \in Seq(FrameType) /\ Len(v) = Len(w) + 1 /\ v[1] = f /\ v # <<>>
           /\ \A i \in DOMAIN w : v[i + 1] = w[i]
           /\ \A i \in DOMAIN v : i = 1 \/ (i - 1 \in DOMAIN w /\ v[i] = w[i - 1])
           /\ Head(v) = f /\ Tail(v) = w /\ Frames(v) = {f} \cup Frames(w)
<1> DEFINE v == <<f>> \o w
<1>1. v \in Seq(FrameType) /\ Len(v) = Len(w) + 1 /\ v[1] = f /\ v # <<>>
    OBVIOUS
<1>2. \A i \in DOMAIN w : i + 1 \in DOMAIN v /\ v[i + 1] = w[i]
    OBVIOUS
<1>3. \A i \in DOMAIN v : i = 1 \/ (i - 1 \in DOMAIN w /\ v[i] = w[i - 1])
    OBVIOUS
<1>4. Head(v) = f
    BY <1>1
<1>5. Tail(v) = w
    <2>1. Tail(v) \in Seq(FrameType) /\ Len(Tail(v)) = Len(w)
        BY <1>1
    <2>2. \A i \in 1 .. Len(w) : Tail(v)[i] = w[i]
        BY <1>1, <1>2
    <2> HIDE DEF v
    <2>. QED BY <2>1, <2>2
<1>6. Frames(v) = {f} \cup Frames(w)
    <2>1. 1 \in DOMAIN v
        BY <1>1
    <2> HIDE DEF v
    <2>2. Frames(v) \subseteq {f} \cup Frames(w)
        BY <1>1, <1>3 DEF Frames
    <2>3. {f} \cup Frames(w) \subseteq Frames(v)
        BY <1>1, <1>2, <2>1 DEF Frames
    <2>. QED BY <2>2, <2>3
<1>. QED BY <1>1, <1>2, <1>3, <1>4, <1>5, <1>6

\* A stack that is not empty is its first frame on the others.
LEMMA TopAndRest ==
    ASSUME NEW w \in Seq(FrameType), w # <<>>
    PROVE  Head(w) \in FrameType /\ Tail(w) \in Seq(FrameType) /\ w = <<Head(w)>> \o Tail(w)
<1>1. Head(w) \in FrameType /\ Tail(w) \in Seq(FrameType)
    OBVIOUS
<1>2. Len(<<Head(w)>> \o Tail(w)) = Len(w) /\ <<Head(w)>> \o Tail(w) \in Seq(FrameType)
    BY <1>1
<1>3. \A i \in 1 .. Len(w) : (<<Head(w)>> \o Tail(w))[i] = w[i]
    BY <1>1
<1>. QED BY <1>1, <1>2, <1>3

\* Nothing is owed when no drop is under way.
LEMMA PendingEmpty == \A x : Pending(<<>>, x) = 0
<1> TAKE x
<1>1. Len(<<>>) = 0
    OBVIOUS
<1>2. PICK g : Sums(<<>>, x, g)
    BY <1>1, PendingSteps
<1>. QED BY <1>1, <1>2 DEF Sums

\* What is owed is a number, and it is none only if no frame owes anything.
LEMMA PendingType ==
    ASSUME NEW w \in Seq(FrameType), NEW x \in Objects
    PROVE  /\ Pending(w, x) \in Nat
           /\ Pending(w, x) = 0 => \A f \in Frames(w) : Owed(f, x) = 0
<1>1. Len(w) \in Nat
    OBVIOUS
<1>2. PICK g : Sums(w, x, g)
    BY <1>1, PendingSteps
<1> DEFINE T == {n \in Nat : n <= Len(w) =>
                     /\ g[n] \in Nat
                     /\ g[n] = 0 => \A i \in 1 .. n : Owed(w[i], x) = 0}
<1>3. 0 \in T
    BY <1>2 DEF Sums
<1>4. ASSUME NEW n \in Nat, n \in T PROVE n + 1 \in T
    <2> SUFFICES ASSUME n + 1 <= Len(w)
                 PROVE  /\ g[n + 1] \in Nat
                        /\ g[n + 1] = 0 => \A i \in 1 .. (n + 1) : Owed(w[i], x) = 0
        OBVIOUS
    <2>1. g[n + 1] = g[n] + w[n + 1].drops[x] + Is(w[n + 1].set[3], x)
        BY <1>2 DEF Sums
    <2>2. g[n] \in Nat /\ (g[n] = 0 => \A i \in 1 .. n : Owed(w[i], x) = 0)
        BY <1>1, <1>4
    <2>3. w[n + 1] \in FrameType
        OBVIOUS
    <2> DEFINE a == w[n + 1].drops[x]
               b == Is(w[n + 1].set[3], x)
    <2>4. a \in Nat /\ b \in {0, 1} /\ Owed(w[n + 1], x) = a + b
        BY <2>3, OwedType
    <2> HIDE DEF a, b
    <2>5. g[n + 1] = g[n] + a + b
        BY <2>1 DEF a, b
    <2>6. g[n + 1] \in Nat /\ (g[n + 1] = 0 => g[n] = 0 /\ Owed(w[n + 1], x) = 0)
        BY <2>2, <2>4, <2>5
    <2>7. \A i \in 1 .. (n + 1) : i \in 1 .. n \/ i = n + 1
        OBVIOUS
    <2>. QED BY <2>2, <2>6, <2>7
<1>5. Nat \subseteq T
    <2> HIDE DEF T
    <2>. QED BY <1>3, <1>4, Lists!Induction
<1>6. Len(w) \in T
    <2> HIDE DEF T
    <2>. QED BY <1>1, <1>5
<1>7. Pending(w, x) = g[Len(w)]
    BY <1>2 DEF Sums
<1>. QED BY <1>1, <1>6, <1>7 DEF Frames

\* A frame adds what it owes.
LEMMA PendingOnTop ==
    ASSUME NEW f \in FrameType, NEW w \in Seq(FrameType), NEW x \in Objects
    PROVE  Pending(<<f>> \o w, x) = Pending(w, x) + Owed(f, x)
<1> DEFINE v == <<f>> \o w
<1>1. /\ Len(w) \in Nat /\ Len(v) = Len(w) + 1 /\ v[1] = f
      /\ \A i \in DOMAIN w : v[i + 1] = w[i]
    BY OnTop
<1>2. PICK g : Sums(w, x, g)
    BY <1>1, PendingSteps
<1> HIDE DEF v
<1>3. PICK h : Sums(v, x, h)
    <2>1. Len(v) \in Nat
        BY <1>1
    <2>. QED BY <2>1, PendingSteps
<1> DEFINE T == {n \in Nat : n <= Len(w) => g[n] \in Nat /\ h[n + 1] = g[n] + Owed(f, x)}
<1>4. 0 \in T
    <2>1. h[0 + 1] = h[0] + v[0 + 1].drops[x] + Is(v[0 + 1].set[3], x)
        BY <1>1, <1>3 DEF Sums
    <2>2. h[0] = 0 /\ g[0] = 0
        BY <1>2, <1>3 DEF Sums
    <2>3. v[0 + 1] = f
        BY <1>1
    <2>4. f.drops[x] \in Nat /\ Is(f.set[3], x) \in {0, 1} /\ Owed(f, x) = f.drops[x] + Is(f.set[3], x)
        BY OwedType
    <2>5. h[0 + 1] = 0 + f.drops[x] + Is(f.set[3], x)
        BY <2>1, <2>2, <2>3
    <2>6. h[0 + 1] = g[0] + Owed(f, x)
        BY <2>2, <2>4, <2>5
    <2>. QED BY <2>2, <2>6
<1>5. ASSUME NEW n \in Nat, n \in T PROVE n + 1 \in T
    <2> SUFFICES ASSUME n + 1 <= Len(w)
                 PROVE  g[n + 1] \in Nat /\ h[(n + 1) + 1] = g[n + 1] + Owed(f, x)
        OBVIOUS
    <2>1. g[n] \in Nat /\ h[n + 1] = g[n] + Owed(f, x)
        BY <1>1, <1>5
    <2>2. n + 1 \in DOMAIN w /\ w[n + 1] \in FrameType /\ v[(n + 1) + 1] = w[n + 1]
        BY <1>1
    <2> DEFINE a == w[n + 1].drops[x]
               b == Is(w[n + 1].set[3], x)
    <2>3. a \in Nat /\ b \in {0, 1} /\ Owed(f, x) \in Nat
        BY <2>2, OwedType
    <2>4. g[n + 1] = g[n] + a + b
        BY <1>2 DEF Sums
    <2>5. h[(n + 1) + 1] = h[n + 1] + a + b
        BY <1>1, <1>3, <2>2 DEF Sums
    <2> HIDE DEF a, b
    <2>6. h[(n + 1) + 1] = (g[n] + Owed(f, x)) + a + b
        BY <2>1, <2>5
    <2> DEFINE i == g[n]
               j == Owed(f, x)
    <2>7. i \in Nat /\ j \in Nat /\ a \in Nat /\ b \in Nat
        BY <2>1, <2>3
    <2>8. g[n + 1] = i + a + b /\ h[(n + 1) + 1] = (i + j) + a + b
        BY <2>4, <2>6
    <2> HIDE DEF i, j
    <2>9. i + a + b \in Nat /\ (i + j) + a + b = (i + a + b) + j
        BY <2>7
    <2>10. g[n + 1] \in Nat /\ h[(n + 1) + 1] = g[n + 1] + j
        BY <2>8, <2>9
    <2>. QED BY <2>10 DEF j
<1>6. Nat \subseteq T
    <2> HIDE DEF T
    <2>. QED BY <1>4, <1>5, Lists!Induction
<1>7. Len(w) \in T
    <2> HIDE DEF T
    <2>. QED BY <1>1, <1>6
<1>8. Pending(w, x) = g[Len(w)] /\ Pending(v, x) = h[Len(w) + 1]
    BY <1>1, <1>2, <1>3 DEF Sums
<1>. QED BY <1>1, <1>7, <1>8 DEF v

(***************************************************************************)
(* How many pointers of the objects A lead to x, those of H left aside.    *)
(***************************************************************************)
Refs(A, s, H, x) ==
    {p \in A \X FieldNames : p[2] \in DOMAIN s[p[1]] /\ s[p[1]][p[2]] = x /\ p \notin H}
Deg(A, s, H, x) == Cardinality(Refs(A, s, H, x))
Names(r) == DOMAIN r
Agree(A, s, t) == \A y \in A : t[y] = s[y]
ButFor(f, r, q) == DOMAIN r = DOMAIN q /\ \A g \in DOMAIN r : g # f => q[g] = r[g]
Slots(r, x) == Cardinality({f \in DOMAIN r : r[f] = x})

\* As many as there are in a set that is mapped to them one to one.
LEMMA SameSize ==
    ASSUME NEW P, NEW Q, IsFiniteSet(P), NEW f \in [P -> Q],
           \A a, b \in P : f[a] = f[b] => a = b, \A q \in Q : \E a \in P : f[a] = q
    PROVE  IsFiniteSet(Q) /\ Cardinality(Q) = Cardinality(P)
<1>1. f \in Bijection(P, Q)
    BY DEF Bijection, Injection, Surjection, IsInjective
<1>2. ExistsBijection(P, Q)
    BY <1>1 DEF ExistsBijection
<1>. QED BY <1>2, FS_Bijection

\* Only finitely many pointers lead to x.
LEMMA DegType ==
    ASSUME NEW A \in SUBSET Objects, NEW s, NEW H, NEW x
    PROVE  /\ IsFiniteSet(Refs(A, s, H, x)) /\ Deg(A, s, H, x) \in Nat
           /\ Deg(A, s, H, x) = 0 <=> Refs(A, s, H, x) = {}
<1>1. IsFiniteSet(A) /\ IsFiniteSet(FieldNames)
    BY TheObjects, FewFields, FS_Subset
<1>2. IsFiniteSet(A \X FieldNames)
    BY <1>1, FS_Product
<1>3. IsFiniteSet(Refs(A, s, H, x))
    BY <1>2, FS_Subset DEF Refs
<1>. QED BY <1>3, FS_CardinalityType, FS_EmptySet DEF Deg

\* The pointers of two sets of objects.
LEMMA DegSplit ==
    ASSUME NEW A \in SUBSET Objects, NEW B \in SUBSET Objects, A \cap B = {},
           NEW s, NEW H, NEW x
    PROVE  Deg(A \cup B, s, H, x) = Deg(A, s, H, x) + Deg(B, s, H, x)
<1> DEFINE P == Refs(A, s, H, x)
           Q == Refs(B, s, H, x)
<1>1. Refs(A \cup B, s, H, x) = P \cup Q /\ P \cap Q = {}
    BY DEF Refs
<1>2. IsFiniteSet(P) /\ IsFiniteSet(Q) /\ Cardinality(P) \in Nat /\ Cardinality(Q) \in Nat
    BY DegType DEF Deg
<1> HIDE DEF P, Q
<1>3. Cardinality(P \cup Q) = Cardinality(P) + Cardinality(Q) - Cardinality({})
    BY <1>1, <1>2, FS_Union
<1>4. Cardinality({}) = 0
    BY FS_EmptySet
<1>5. Cardinality(P \cup Q) = Cardinality(P) + Cardinality(Q)
    BY <1>2, <1>3, <1>4
<1>. QED BY <1>1, <1>5 DEF Deg, P, Q

\* ... and of a set and what is left without it.
LEMMA DegWithout ==
    ASSUME NEW A \in SUBSET Objects, NEW B \in SUBSET A, NEW s, NEW H, NEW x
    PROVE  /\ Deg(A, s, H, x) = Deg(A \ B, s, H, x) + Deg(B, s, H, x)
           /\ Deg(B, s, H, x) <= Deg(A, s, H, x)
<1>1. Deg((A \ B) \cup B, s, H, x) = Deg(A \ B, s, H, x) + Deg(B, s, H, x)
    BY DegSplit
<1>2. (A \ B) \cup B = A
    OBVIOUS
<1>3. Deg(A \ B, s, H, x) \in Nat /\ Deg(B, s, H, x) \in Nat
    BY DegType
<1> DEFINE a == Deg(A, s, H, x)
           b == Deg(A \ B, s, H, x)
           c == Deg(B, s, H, x)
<1>4. a = b + c /\ b \in Nat /\ c \in Nat
    BY <1>1, <1>2, <1>3
<1> HIDE DEF a, b, c
<1>5. a = b + c /\ c <= a
    BY <1>4
<1>. QED BY <1>5 DEF a, b, c

\* Only the pointers of the objects counted matter.
LEMMA DegSame ==
    ASSUME NEW A, NEW s, NEW t, NEW G, NEW H, NEW x,
           Agree(A, s, t),
           \A y \in A : \A f \in FieldNames : <<y, f>> \in G <=> <<y, f>> \in H
    PROVE  Deg(A, s, G, x) = Deg(A, t, H, x)
<1>1. Refs(A, s, G, x) = Refs(A, t, H, x)
    BY DEF Refs, Agree
<1>. QED BY <1>1 DEF Deg

\* The pointers of one object.
LEMMA DegOne ==
    ASSUME NEW y, NEW s, NEW H, NEW x, Names(s[y]) \subseteq FieldNames,
           \A f \in FieldNames : <<y, f>> \notin H
    PROVE  Deg({y}, s, H, x) = Slots(s[y], x) /\ Slots(s[y], x) \in Nat
<1> USE DEF Names
<1> DEFINE P == {f \in DOMAIN s[y] : s[y][f] = x}
           Q == Refs({y}, s, H, x)
           g == [f \in P |-> <<y, f>>]
<1>1. IsFiniteSet(P)
    BY FewFields, FS_Subset
<1>2. \A f \in P : <<y, f>> \in Q
    BY DEF Refs
<1>3. g \in [P -> Q]
    BY <1>2
<1>4. \A a, b \in P : g[a] = g[b] => a = b
    OBVIOUS
<1>5. \A q \in Q : \E a \in P : g[a] = q
    <2> TAKE q \in Q
    <2>1. q = <<y, q[2]>> /\ q[2] \in P
        BY DEF Refs
    <2>2. g[q[2]] = q
        BY <2>1
    <2>. QED BY <2>1, <2>2
<1>6. IsFiniteSet(Q) /\ Cardinality(Q) = Cardinality(P)
    <2> HIDE DEF P, Q, g
    <2>. QED BY <1>1, <1>3, <1>4, <1>5, SameSize
<1>. QED BY <1>1, <1>6, FS_CardinalityType DEF Deg, Slots

\* One pointer left aside counts for what it points to.
HasPointer(A, s, o, f) ==
    A \in SUBSET Objects /\ o \in A /\ f \in FieldNames /\ f \in Names(s[o])
\* All pointers to x are the others and that one, if it leads there.
LEMMA DegHide ==
    \A A, s, o, f : HasPointer(A, s, o, f) =>
        \A x : Deg(A, s, {}, x) = Deg(A, s, {<<o, f>>}, x) + Is(s[o][f], x)
<1> SUFFICES ASSUME NEW A, NEW s, NEW o, NEW f, HasPointer(A, s, o, f), NEW x
             PROVE  Deg(A, s, {}, x) = Deg(A, s, {<<o, f>>}, x) + Is(s[o][f], x)
    OBVIOUS
<1> USE DEF HasPointer
<1> USE DEF Names
<1> DEFINE P == Refs(A, s, {<<o, f>>}, x)
<1>1. IsFiniteSet(P) /\ Cardinality(P) \in Nat
    BY DegType DEF Deg
<1>2. <<o, f>> \notin P
    BY DEF Refs
<1>3. CASE s[o][f] = x
    <2>1. Refs(A, s, {}, x) = P \cup {<<o, f>>}
        BY <1>3 DEF Refs
    <2> HIDE DEF P
    <2>2. Cardinality(P \cup {<<o, f>>}) = Cardinality(P) + 1
        BY <1>1, <1>2, FS_AddElement
    <2>. QED BY <2>1, <2>2, <1>3 DEF P, Deg, Is
<1>4. CASE s[o][f] # x
    <2>1. Refs(A, s, {}, x) = P
        BY <1>4 DEF Refs
    <2>. QED BY <2>1, <1>1, <1>4 DEF Deg, Is
<1>. QED BY <1>3, <1>4

\* One pointer of the objects A is overwritten: what it led to counts no more.
Stores(A, s, t, o, f) ==
    /\ A \in SUBSET Objects /\ o \in A /\ f \in FieldNames
    /\ f \in Names(s[o]) /\ f \in Names(t[o]) /\ ButFor(f, s[o], t[o])
    /\ Agree(A \ {o}, s, t)
\* The pointers to x are one less for the old value and one more for the new.
LEMMA DegStores ==
    \A A, s, t, o, f : Stores(A, s, t, o, f) =>
        \A x : Deg(A, t, {}, x) = Deg(A, s, {}, x) - Is(s[o][f], x) + Is(t[o][f], x)
<1> SUFFICES ASSUME NEW A, NEW s, NEW t, NEW o, NEW f, Stores(A, s, t, o, f), NEW x
             PROVE  Deg(A, t, {}, x) = Deg(A, s, {}, x) - Is(s[o][f], x) + Is(t[o][f], x)
    OBVIOUS
<1>0. /\ A \in SUBSET Objects /\ o \in A /\ f \in FieldNames
      /\ f \in Names(s[o]) /\ f \in Names(t[o]) /\ ButFor(f, s[o], t[o])
      /\ Agree(A \ {o}, s, t)
    BY DEF Stores
<1>1. Refs(A, t, {<<o, f>>}, x) = Refs(A, s, {<<o, f>>}, x)
    <2> DEFINE H == {<<o, f>>}
    <2>1. ASSUME NEW y \in A, NEW g \in FieldNames
          PROVE  <<y, g>> \in Refs(A, t, H, x) <=> <<y, g>> \in Refs(A, s, H, x)
        BY <1>0 DEF Refs, Names, ButFor, Agree
    <2>2. Refs(A, t, H, x) \subseteq A \X FieldNames /\ Refs(A, s, H, x) \subseteq A \X FieldNames
        BY DEF Refs
    <2> HIDE DEF H
    <2>3. Refs(A, t, H, x) = Refs(A, s, H, x)
        BY <2>1, <2>2
    <2>. QED BY <2>3 DEF H
<1>2. Deg(A, t, {}, x) = Deg(A, s, {<<o, f>>}, x) + Is(t[o][f], x)
    <2>1. HasPointer(A, t, o, f)
        BY <1>0 DEF HasPointer
    <2>2. Deg(A, t, {}, x) = Deg(A, t, {<<o, f>>}, x) + Is(t[o][f], x)
        BY <2>1, DegHide
    <2>. QED BY <2>2, <1>1 DEF Deg
<1>3. Deg(A, s, {}, x) = Deg(A, s, {<<o, f>>}, x) + Is(s[o][f], x)
    <2>1. HasPointer(A, s, o, f)
        BY <1>0 DEF HasPointer
    <2>. QED BY <2>1, DegHide
<1>4. Deg(A, s, {<<o, f>>}, x) \in Nat /\ Is(t[o][f], x) \in Nat /\ Is(s[o][f], x) \in Nat
    BY <1>0, DegType DEF Is
<1>. QED BY <1>2, <1>3, <1>4

\* One object more, whose pointers are r's.
LEMMA DegNew ==
    ASSUME NEW A \in SUBSET Objects, NEW s, NEW t, NEW c \in Objects \ A,
           Agree(A, s, t), Names(t[c]) \subseteq FieldNames, NEW x
    PROVE  /\ Deg(A \cup {c}, t, {}, x) = Deg(A, s, {}, x) + Slots(t[c], x)
           /\ Deg(A, s, {}, x) \in Nat /\ Slots(t[c], x) \in Nat
<1>1. Deg(A \cup {c}, t, {}, x) = Deg(A, t, {}, x) + Deg({c}, t, {}, x)
    BY DegSplit
<1>2. Deg(A, t, {}, x) = Deg(A, s, {}, x)
    <2>1. Refs(A, t, {}, x) = Refs(A, s, {}, x)
        BY DEF Refs, Agree
    <2>. QED BY <2>1 DEF Deg
<1>3. Deg({c}, t, {}, x) = Slots(t[c], x) /\ Slots(t[c], x) \in Nat
    <2>1. \A f \in FieldNames : <<c, f>> \notin {}
        OBVIOUS
    <2>. QED BY <2>1, DegOne
<1>. QED BY <1>1, <1>2, <1>3, DegType

(***************************************************************************)
(* The inductive invariant.  A are the objects in use that are not being   *)
(* torn down, H the pointers about to be overwritten, K, s, c, h and g the *)
(* values of kind, slot, count, held and globals, and d[x] the drops of x  *)
(* still to do, with the value of a setter that waits.                     *)
(***************************************************************************)
GlobalCount(g, x) == Is(g.default, x) + Is(g.current, x) + Is(g.typeType, x)
InUse(K) == {x \in Objects : K[x] # "unused"}
Hidden(w) == {p \in Objects \X FieldNames :
                 \E i \in DOMAIN w : w[i].set[1] = p[1] /\ w[i].set[2] = p[2]}
Owes(w) == [x \in Objects |-> Pending(w, x)]

WellTyped(K, s, c, h, g) ==
    /\ K \in [Objects -> Kinds \cup {"unused"}]
    /\ s = [x \in Objects |-> s[x]]
    /\ \A x \in Objects : s[x] \in [IF K[x] # "unused" THEN Fields(K[x]) ELSE {} -> Objects \cup {NULL}]
    /\ c \in [Objects -> Int] /\ h \in [Objects -> Nat]
    /\ g \in [default : Objects \cup {NULL}, current : Objects \cup {NULL},
              typeType : Objects \cup {NULL}]

\* A pointer that is dropped without a test is not NULL.
Filled(s) == \A x \in Objects : \A f \in Names(s[x]) : s[x][f] = NULL => f \in Optional

\* A layer has a map; the globals are there together or not at all.
Layers(A, K, s, g) ==
    /\ \A l \in A : K[l] = "layer" => s[l].map \in Objects /\ K[s[l].map] = "map"
    /\ g.default # NULL =>
          g.current \in Objects /\ K[g.current] = "layer" /\ g.typeType \in Objects
    /\ g.default = NULL => g.current = NULL /\ g.typeType = NULL

Exact(A, H, s, c, h, g, d) ==
    \A x \in A : c[x] = h[x] + GlobalCount(g, x) + Deg(A, s, H, x) + d[x]
Safe(A, H, s, h, g) ==
    /\ \A x \in Objects : h[x] + GlobalCount(g, x) > 0 => x \in A
    /\ \A x \in A : \A f \in Names(s[x]) : s[x][f] # NULL /\ <<x, f>> \notin H => s[x][f] \in A

\* Everything in use is reached from a reference that is somebody's.
Shut(S, A, H, s, h, g, d) ==
    /\ \A x \in Objects : h[x] + GlobalCount(g, x) + d[x] > 0 => x \in S
    /\ \A x \in S \cap A : \A f \in Names(s[x]) : s[x][f] # NULL /\ <<x, f>> \notin H => s[x][f] \in S
Covers(A, H, s, h, g, d) == \A S \in SUBSET Objects : Shut(S, A, H, s, h, g, d) => A \subseteq S

Sound(A, H, K, s, c, h, g, d) ==
    /\ Filled(s) /\ Layers(A, K, s, g) /\ Exact(A, H, s, c, h, g, d) /\ Safe(A, H, s, h, g)
    /\ Covers(A, H, s, h, g, d)

\* The setter that waits: its container is held, and no drop under way leads to it.
Storing(o, f, v) ==
    /\ f \in Settable(o) /\ held[o] > 0 /\ slot[o][f] # NULL
    /\ v \in Alive \/ (v = NULL /\ f \in Optional)
    /\ \A fr \in Frames(work) : \A x \in Objects : fr.drops[x] > 0 => o \notin Reach(x)
FrameOK(fr) ==
    /\ \A x \in fr.reclaim : Live(x) /\ count[x] <= 0
    /\ \A x \in Objects : fr.drops[x] > 0 => x \in Alive \cup fr.reclaim
    /\ fr.set # NoSet => \E o \in Objects : \E f \in FieldNames, v \in Objects \cup {NULL} :
                            fr.set = <<o, f, v>> /\ Storing(o, f, v)
Orderly(w) ==
    /\ \A i, j \in DOMAIN w : i # j => w[i].reclaim \cap w[j].reclaim = {}
    /\ \A i \in DOMAIN w : w[i].set # NoSet => i = Len(w) /\ w[i].reclaim = {}
Torn == \A x \in Objects : Live(x) /\ count[x] <= 0 => \E fr \in Frames(work) : x \in fr.reclaim

HeapInv ==
    /\ WellTyped(kind, slot, count, held, globals)
    /\ work \in Seq(FrameType) /\ crashed = "no" /\ program \in Programs
    /\ Sound(Alive, Hidden(work), kind, slot, count, held, globals, Owes(work))
    /\ Orderly(work) /\ (\A fr \in Frames(work) : FrameOK(fr)) /\ Torn

\* Between two calls, and after a call whose drops d are still to do.
Quiet(K, s, c, h, g, d) ==
    /\ WellTyped(K, s, c, h, g) /\ (\A x \in Objects : K[x] # "unused" => c[x] > 0)
    /\ d \in [Objects -> Nat] /\ (\A x \in Objects : d[x] > 0 => x \in InUse(K))
    /\ Sound(InUse(K), {}, K, s, c, h, g, d)

\* The frames w owe d, and are of calls that only drop.
Loose(w, d) ==
    /\ w \in Seq(FrameType) /\ Hidden(w) = {} /\ d = Owes(w) /\ Orderly(w)
    /\ \A fr \in Frames(w) : fr.reclaim = {} /\ fr.set = NoSet
                             /\ \A x \in Objects : fr.drops[x] > 0 => d[x] > 0

\* No frame owes anything.
LEMMA NoDropsOwed == Loose(<<>>, NoDrops) /\ Hidden(<<>>) = {} /\ Owes(<<>>) = NoDrops /\ Frames(<<>>) = {}
<1>1. <<>> \in Seq(FrameType) /\ Hidden(<<>>) = {} /\ Frames(<<>>) = {} /\ Orderly(<<>>)
    BY DEF Hidden, Frames, Orderly
<1>2. Owes(<<>>) = NoDrops
    BY PendingEmpty DEF Owes, NoDrops
<1>. QED BY <1>1, <1>2 DEF Loose

\* Between two calls.
LEMMA Before ==
    ASSUME HeapInv, work = <<>>
    PROVE  Quiet(kind, slot, count, held, globals, NoDrops) /\ Alive = InUse(kind)
<1>1. \A x \in Objects : kind[x] # "unused" => count[x] > 0
    <2>1. Frames(work) = {}
        BY NoDropsOwed
    <2>2. \A x \in Objects : count[x] \in Int
        BY DEF HeapInv, WellTyped
    <2>. QED BY <2>1, <2>2 DEF HeapInv, Torn, Live
<1>2. Alive = InUse(kind)
    BY <1>1 DEF Alive, InUse, Live
<1>3. Hidden(work) = {} /\ Owes(work) = NoDrops
    BY NoDropsOwed
<1>4. Sound(InUse(kind), {}, kind, slot, count, held, globals, NoDrops)
    BY <1>2, <1>3 DEF HeapInv
<1>5. NoDrops \in [Objects -> Nat] /\ \A x \in Objects : ~(NoDrops[x] > 0)
    BY DEF NoDrops
<1>. QED BY <1>1, <1>2, <1>4, <1>5 DEF HeapInv, Quiet

\* After a call.
LEMMA After ==
    ASSUME NEW d, Loose(work', d), crashed' = "no", program' \in Programs,
           Quiet(kind', slot', count', held', globals', d)
    PROVE  HeapInv'
<1>1. WellTyped(kind', slot', count', held', globals')
    BY DEF Quiet
<1>2. (\A x \in Objects : kind'[x] # "unused" => count'[x] > 0)
    BY DEF Quiet
<1>3. Alive' = InUse(kind')
    BY <1>2 DEF Alive, InUse, Live
<1>4. work' \in Seq(FrameType) /\ Hidden(work') = {} /\ d = Owes(work') /\ Orderly(work')
    BY DEF Loose
<1>5. Sound(Alive', Hidden(work'), kind', slot', count', held', globals', Owes(work'))
    BY <1>3, <1>4 DEF Quiet
<1>6. ASSUME NEW fr \in Frames(work') PROVE FrameOK(fr)'
    <2>1. fr.reclaim = {} /\ fr.set = NoSet /\ \A x \in Objects : fr.drops[x] > 0 => x \in Alive'
        BY <1>3 DEF Loose, Quiet
    <2>. QED BY <2>1 DEF FrameOK
<1>7. Torn'
    <2>1. \A x \in Objects : count'[x] \in Int
        BY <1>1 DEF WellTyped
    <2>. QED BY <1>2, <2>1 DEF Torn, Live
<1>. QED BY <1>1, <1>4, <1>5, <1>6, <1>7 DEF HeapInv

(***************************************************************************)
(* What the pieces of the invariant give.                                  *)
(***************************************************************************)
\* The pointers of an object in use are the fields of its kind, all of which the
\* collector is told of and all of which are given up; there are no others.
LEMMA FieldsOf ==
    ASSUME NEW K, NEW s, NEW c, NEW h, NEW g, WellTyped(K, s, c, h, g), NEW x \in Objects
    PROVE  /\ Names(s[x]) \subseteq FieldNames
           /\ Reported(K[x]) = Names(s[x]) /\ Released(K[x]) = Names(s[x])
           /\ x \in InUse(K) => K[x] \in Kinds /\ Names(s[x]) = Fields(K[x])
           /\ x \notin InUse(K) => K[x] = "unused" /\ Names(s[x]) = {}
           /\ \A f \in Names(s[x]) : s[x][f] \in Objects \cup {NULL}
<1>1. K[x] \in Kinds \cup {"unused"}
    BY DEF WellTyped
<1>2. s[x] \in [IF K[x] # "unused" THEN Fields(K[x]) ELSE {} -> Objects \cup {NULL}]
    BY DEF WellTyped
<1>3. Names(s[x]) = IF K[x] # "unused" THEN Fields(K[x]) ELSE {}
    BY <1>2 DEF Names
<1>4. \A f \in Names(s[x]) : s[x][f] \in Objects \cup {NULL}
    BY <1>2 DEF Names
<1>5. CASE K[x] = "unused"
    BY <1>3, <1>4, <1>5, OtherFields DEF InUse
<1>6. CASE K[x] # "unused"
    <2>1. K[x] \in Kinds
        BY <1>1, <1>6
    <2>. QED BY <2>1, <1>3, <1>4, <1>6, AllFields DEF InUse
<1>. QED BY <1>5, <1>6

\* What the collector lists from o: the least set with o that pointers do not leave.
ReachOf(K, s, o) ==
    Spread([x \in Objects |-> {s[x][f] : f \in {g \in Reported(K[x]) : s[x][g] # NULL}}], o)
\* The two are one.
LEMMA ReachIs == \A o : Reach(o) = ReachOf(kind, slot, o)
BY DEF Reach, ReachOf, Points

Enclosed(S, s) == \A x \in S \cap Objects : \A f \in Names(s[x]) : s[x][f] # NULL => s[x][f] \in S

\* No pointer leaves what is listed from o, no such set with o is smaller, and
\* what is listed from a listed object is listed.
LEMMA ReachFacts ==
    ASSUME NEW K, NEW s, NEW c, NEW h, NEW g, WellTyped(K, s, c, h, g), NEW o \in Objects
    PROVE  /\ o \in ReachOf(K, s, o) /\ ReachOf(K, s, o) \subseteq Objects
           /\ Enclosed(ReachOf(K, s, o), s)
           /\ \A S : o \in S /\ Enclosed(S, s) => ReachOf(K, s, o) \subseteq S
           /\ \A x \in ReachOf(K, s, o) : ReachOf(K, s, x) \subseteq ReachOf(K, s, o)
<1> DEFINE edges == [x \in Objects |-> {s[x][f] : f \in {n \in Reported(K[x]) : s[x][n] # NULL}}]
<1>1. \A x \in Objects : edges[x] = {s[x][f] : f \in {n \in Names(s[x]) : s[x][n] # NULL}}
    BY FieldsOf
<1>2. ASSUME NEW x \in Objects PROVE edges[x] \in SUBSET Objects
    <2>1. \A f \in Names(s[x]) : s[x][f] \in Objects \cup {NULL}
        BY FieldsOf
    <2> HIDE DEF edges
    <2>. QED BY <1>1, <2>1
<1>3. edges \in [Objects -> SUBSET Objects]
    BY <1>2
<1>4. \A x : ReachOf(K, s, x) = Spread(edges, x)
    BY DEF ReachOf
<1>5. ASSUME NEW S
      PROVE  Enclosed(S, s) <=> \A x \in S \cap Objects : edges[x] \subseteq S
    <2> HIDE DEF edges
    <2>1. ASSUME NEW x \in Objects
          PROVE  edges[x] \subseteq S <=> \A f \in Names(s[x]) : s[x][f] # NULL => s[x][f] \in S
        BY <1>1
    <2>. QED BY <2>1 DEF Enclosed
<1> HIDE DEF edges
<1>6. ASSUME NEW p \in Objects
      PROVE  /\ p \in ReachOf(K, s, p) /\ ReachOf(K, s, p) \subseteq Objects
             /\ Enclosed(ReachOf(K, s, p), s)
             /\ \A S : p \in S /\ Enclosed(S, s) => ReachOf(K, s, p) \subseteq S
    <2>1. /\ p \in Spread(edges, p) /\ Spread(edges, p) \subseteq Objects
          /\ \A x \in Spread(edges, p) : edges[x] \subseteq Spread(edges, p)
          /\ \A S : p \in S /\ (\A x \in S \cap Objects : edges[x] \subseteq S) => Spread(edges, p) \subseteq S
        BY <1>3, SpreadFacts
    <2>2. Enclosed(Spread(edges, p), s)
        BY <2>1, <1>5
    <2>3. \A S : p \in S /\ Enclosed(S, s) => Spread(edges, p) \subseteq S
        BY <2>1, <1>5
    <2>4. ReachOf(K, s, p) = Spread(edges, p)
        BY <1>4
    <2>. QED BY <2>1, <2>2, <2>3, <2>4
<1>7. ASSUME NEW x \in ReachOf(K, s, o) PROVE ReachOf(K, s, x) \subseteq ReachOf(K, s, o)
    <2>1. x \in Objects
        BY <1>6
    <2>. QED BY <2>1, <1>6
<1>. QED BY <1>6, <1>7

\* The globals refer to x as often as they are x.
LEMMA GlobalCountType ==
    \A g, x : /\ GlobalCount(g, x) \in Nat
              /\ GlobalCount(g, x) > 0 <=> x \in {g.default, g.current, g.typeType}
<1> TAKE g, x
<1>1. /\ Is(g.default, x) \in {0, 1} /\ Is(g.current, x) \in {0, 1} /\ Is(g.typeType, x) \in {0, 1}
      /\ Is(g.default, x) = 1 <=> x = g.default
      /\ Is(g.current, x) = 1 <=> x = g.current
      /\ Is(g.typeType, x) = 1 <=> x = g.typeType
    BY DEF Is
<1>. QED BY <1>1 DEF GlobalCount

\* [s EXCEPT ![o][f] = v], pointer by pointer.
Overwritten(s, t, o, f, v) ==
    /\ t = [x \in Objects |-> t[x]] /\ Agree(Objects \ {o}, s, t)
    /\ ButFor(f, s[o], t[o]) /\ t[o] = [n \in DOMAIN s[o] |-> t[o][n]] /\ t[o][f] = v
\* That is what the assignment to a pointer does.
LEMMA Overwrite ==
    ASSUME NEW K, NEW s, NEW c, NEW h, NEW g, WellTyped(K, s, c, h, g), NEW o \in Objects,
           NEW f \in Names(s[o]), NEW v
    PROVE  Overwritten(s, [s EXCEPT ![o][f] = v], o, f, v)
<1> DEFINE t == [s EXCEPT ![o][f] = v]
<1>1. s = [x \in Objects |-> s[x]] /\ s[o] = [n \in Names(s[o]) |-> s[o][n]]
    BY DEF WellTyped, Names
<1>2. DOMAIN s = Objects
    BY <1>1
<1>3. t[o] = [s[o] EXCEPT ![f] = v]
    BY <1>2
<1>4. \A x \in Objects : x # o => t[x] = s[x]
    BY <1>2
<1>5. t = [x \in Objects |-> t[x]]
    BY <1>2
<1>6. /\ DOMAIN t[o] = Names(s[o]) /\ t[o][f] = v /\ \A n \in Names(s[o]) : n # f => t[o][n] = s[o][n]
      /\ t[o] = [n \in Names(s[o]) |-> t[o][n]]
    BY <1>1, <1>3 DEF Names
<1> HIDE DEF t
<1>. QED BY <1>4, <1>5, <1>6 DEF Overwritten, Agree, ButFor, Names, t

(***************************************************************************)
(* One pointer is overwritten between two calls.                           *)
(***************************************************************************)
\* The old value is owed a drop; who held the new value held it for the slot,
\* or its count goes up.
Rewritten(K, s, c, h, d, t, c2, h2, d2, o, f, v) ==
    /\ o \in InUse(K) /\ f \in Names(s[o]) /\ v \in InUse(K) \cup {NULL}
    /\ v = NULL => f \in Optional
    /\ f # "map" /\ Overwritten(s, t, o, f, v)
    /\ c2 \in [Objects -> Int] /\ h2 \in [Objects -> Nat]
    /\ \A x \in Objects : c2[x] - h2[x] = (c[x] - h[x]) + Is(v, x)
    /\ \A x \in InUse(K) : c2[x] > 0
    /\ \A x \in Objects : h2[x] <= h[x]
    /\ d2 = [x \in Objects |-> d[x] + Is(s[o][f], x)]

\* What the program held is still reached.
Kept(K, t, h, h2, g, d) ==
    \A S \in SUBSET Objects : Shut(S, InUse(K), {}, t, h2, g, d) =>
        \A x \in Objects : h[x] > 0 => x \in S

\* Overwriting a pointer keeps what holds between two calls.
LEMMA OneSlot ==
    ASSUME NEW K, NEW s, NEW c, NEW h, NEW g, NEW d, NEW t, NEW c2, NEW h2, NEW d2, NEW o, NEW f, NEW v,
           Quiet(K, s, c, h, g, d), Rewritten(K, s, c, h, d, t, c2, h2, d2, o, f, v),
           Kept(K, t, h, h2, g, d2)
    PROVE  Quiet(K, t, c2, h2, g, d2)
<1> DEFINE A == InUse(K)
<1>1. WellTyped(K, s, c, h, g) /\ A \in SUBSET Objects
    BY DEF Quiet, InUse
<1>2. /\ o \in A /\ o \in Objects /\ f \in Names(s[o]) /\ v \in A \cup {NULL} /\ v \in Objects \cup {NULL}
      /\ v = NULL => f \in Optional
      /\ f # "map" /\ c2 \in [Objects -> Int] /\ h2 \in [Objects -> Nat] /\ f \in FieldNames
    BY <1>1, FieldsOf DEF Rewritten, InUse
<1>3. /\ t = [x \in Objects |-> t[x]] /\ Agree(Objects \ {o}, s, t)
      /\ ButFor(f, s[o], t[o]) /\ t[o] = [n \in DOMAIN s[o] |-> t[o][n]] /\ t[o][f] = v
    BY DEF Rewritten, Overwritten
<1>4. \A x \in Objects : Names(t[x]) = Names(s[x])
    BY <1>3 DEF Agree, ButFor, Names
<1>5. \A x \in Objects : \A n \in Names(s[x]) : t[x][n] = IF x = o /\ n = f THEN v ELSE s[x][n]
    BY <1>3 DEF Agree, ButFor, Names
<1>6. WellTyped(K, t, c2, h2, g)
    <2>1. ASSUME NEW x \in Objects, x # o
          PROVE  t[x] \in [IF K[x] # "unused" THEN Fields(K[x]) ELSE {} -> Objects \cup {NULL}]
        BY <1>1, <1>3, <2>1 DEF WellTyped, Agree
    <2>2. t[o] \in [IF K[o] # "unused" THEN Fields(K[o]) ELSE {} -> Objects \cup {NULL}]
        <3>1. s[o] \in [IF K[o] # "unused" THEN Fields(K[o]) ELSE {} -> Objects \cup {NULL}]
            BY <1>1, <1>2 DEF WellTyped
        <3>2. DOMAIN s[o] = IF K[o] # "unused" THEN Fields(K[o]) ELSE {}
            BY <3>1
        <3>3. \A n \in DOMAIN s[o] : t[o][n] \in Objects \cup {NULL}
            BY <3>1, <1>2, <1>5 DEF Names
        <3>. QED BY <3>2, <3>3, <1>3
    <2>. QED BY <1>1, <1>2, <1>3, <2>1, <2>2 DEF WellTyped
<1>7. \A x \in Objects : K[x] # "unused" => c2[x] > 0
    BY DEF Rewritten, InUse
<1>8. Filled(t)
    BY <1>2, <1>4, <1>5 DEF Quiet, Sound, Filled
<1>9. Layers(A, K, t, g)
    <2>1. ASSUME NEW l \in A, K[l] = "layer" PROVE t[l].map = s[l].map
        <3>1. l \in Objects /\ Names(s[l]) = {"map", "parent"}
            BY <1>1, <2>1, FieldsOf, OtherFields
        <3>. QED BY <3>1, <1>2, <1>5
    <2>. QED BY <2>1 DEF Quiet, Sound, Layers
<1>10. Exact(A, {}, t, c2, h2, g, d2)
    <2> SUFFICES ASSUME NEW x \in A
                 PROVE  c2[x] = h2[x] + GlobalCount(g, x) + Deg(A, t, {}, x) + d2[x]
        BY DEF Exact
    <2>1. x \in Objects
        BY <1>1
    <2>2. c[x] = h[x] + GlobalCount(g, x) + Deg(A, s, {}, x) + d[x]
        BY DEF Quiet, Sound, Exact
    <2>3. Deg(A, t, {}, x) = Deg(A, s, {}, x) - Is(s[o][f], x) + Is(t[o][f], x)
        <3>1. f \in Names(s[o]) /\ f \in Names(t[o]) /\ Agree(A \ {o}, s, t)
            BY <1>1, <1>2, <1>3, <1>4 DEF Agree
        <3>2. A \in SUBSET Objects /\ o \in A /\ f \in FieldNames /\ ButFor(f, s[o], t[o])
            BY <1>1, <1>2, <1>3
        <3>3. Stores(A, s, t, o, f)
            BY <3>1, <3>2 DEF Stores
        <3> HIDE DEF A
        <3>. QED BY <3>3, DegStores
    <2>4. /\ c[x] \in Int /\ h[x] \in Nat /\ c2[x] \in Int /\ h2[x] \in Nat
          /\ Deg(A, s, {}, x) \in Nat /\ GlobalCount(g, x) \in Nat /\ d[x] \in Nat
          /\ Is(s[o][f], x) \in Nat /\ Is(v, x) \in Nat
        BY <1>1, <1>2, <2>1, DegType, GlobalCountType DEF WellTyped, Quiet, Is
    <2>5. c2[x] - h2[x] = (c[x] - h[x]) + Is(v, x) /\ d2[x] = d[x] + Is(s[o][f], x)
        BY <2>1 DEF Rewritten
    <2>6. t[o][f] = v
        BY <1>3
    <2> DEFINE D == Deg(A, s, {}, x)
               D2 == Deg(A, t, {}, x)
               G == GlobalCount(g, x)
               i == Is(s[o][f], x)
               j == Is(v, x)
               cx == c[x]
               hx == h[x]
               c2x == c2[x]
               h2x == h2[x]
               dx == d[x]
    <2>7. cx = hx + G + D + dx /\ D2 = D - i + j /\ c2x - h2x = (cx - hx) + j
        BY <2>2, <2>3, <2>4, <2>5, <2>6
    <2>8. /\ cx \in Int /\ hx \in Nat /\ c2x \in Int /\ h2x \in Nat
          /\ D \in Nat /\ G \in Nat /\ i \in Nat /\ j \in Nat /\ dx \in Nat /\ d2[x] = dx + i
        BY <2>4, <2>5
    <2> HIDE DEF D, D2, G, i, j, cx, hx, c2x, h2x, dx
    <2>9. c2x = h2x + G + D2 + (dx + i)
        BY <2>7, <2>8
    <2>. QED BY <2>8, <2>9 DEF D2, G, c2x, h2x
<1>11. Safe(A, {}, s, h, g)
    BY DEF Quiet, Sound
<1>12. Safe(A, {}, t, h2, g)
    <2>1. ASSUME NEW x \in Objects, h2[x] + GlobalCount(g, x) > 0 PROVE x \in A
        <3>1. h2[x] <= h[x] /\ h[x] \in Nat /\ h2[x] \in Nat /\ GlobalCount(g, x) \in Nat
            BY <1>1, <1>2, GlobalCountType DEF Rewritten, WellTyped
        <3>2. h[x] + GlobalCount(g, x) > 0
            BY <2>1, <3>1
        <3>. QED BY <3>2, <1>11 DEF Safe
    <2>2. ASSUME NEW x \in A, NEW n \in Names(t[x]), t[x][n] # NULL PROVE t[x][n] \in A
        BY <1>1, <1>2, <1>4, <1>5, <1>11, <2>2 DEF Safe
    <2> HIDE DEF A
    <2>. QED BY <2>1, <2>2 DEF Safe
<1>13. ASSUME NEW x \in Objects, d2[x] > 0 PROVE x \in A
    <2>1. CASE d[x] > 0
        BY <2>1 DEF Quiet
    <2>2. CASE s[o][f] = x
        <3>1. s[o][f] # NULL
            BY <2>2, TheObjects
        <3>. QED BY <1>2, <1>11, <2>2, <3>1 DEF Safe
    <2>3. d[x] \in Nat /\ d2[x] = d[x] + Is(s[o][f], x)
        BY DEF Rewritten, Quiet
    <2>4. d[x] > 0 \/ s[o][f] = x
        BY <2>3, <1>13 DEF Is
    <2>. QED BY <2>1, <2>2, <2>4
<1>15. d2 \in [Objects -> Nat] /\ \A x \in Objects : d2[x] \in Nat /\ d[x] \in Nat /\ d[x] <= d2[x]
    <2>1. \A x \in Objects : d[x] \in Nat /\ Is(s[o][f], x) \in {0, 1}
        BY DEF Quiet, Is
    <2>2. d2 = [x \in Objects |-> d[x] + Is(s[o][f], x)]
        BY DEF Rewritten
    <2>. QED BY <2>1, <2>2
<1>14. Covers(A, {}, t, h2, g, d2)
    <2> SUFFICES ASSUME NEW S \in SUBSET Objects, Shut(S, A, {}, t, h2, g, d2)
                 PROVE  A \subseteq S
        BY DEF Covers
    <2>1. \A x \in Objects : h[x] > 0 => x \in S
        BY DEF Kept
    <2>2. ASSUME NEW x \in Objects, h[x] + GlobalCount(g, x) + d[x] > 0 PROVE x \in S
        <3>1. h[x] \in Nat /\ GlobalCount(g, x) \in Nat /\ h2[x] \in Nat /\ d[x] \in Nat /\ d2[x] \in Nat /\ d[x] <= d2[x]
            BY <1>1, <1>2, <1>15, GlobalCountType DEF WellTyped
        <3>2. h[x] > 0 \/ h2[x] + GlobalCount(g, x) + d2[x] > 0
            BY <2>2, <3>1
        <3>. QED BY <3>2, <2>1 DEF Shut
    <2>3. ASSUME NEW x \in S \cap A, NEW n \in Names(s[x]), s[x][n] # NULL PROVE s[x][n] \in S
        <3>1. CASE x = o /\ n = f
            <4>1. s[x][n] \in Objects
                BY <1>1, <2>3, FieldsOf
            <4>2. /\ h2[s[x][n]] \in Nat /\ GlobalCount(g, s[x][n]) \in Nat
                  /\ d[s[x][n]] \in Nat /\ d2[s[x][n]] = d[s[x][n]] + 1
                BY <3>1, <4>1, <1>2, <1>15, GlobalCountType DEF Rewritten, Is
            <4>3. h2[s[x][n]] + GlobalCount(g, s[x][n]) + d2[s[x][n]] > 0
                BY <4>2
            <4>. QED BY <4>1, <4>3 DEF Shut
        <3>2. CASE ~(x = o /\ n = f)
            <4>1. n \in Names(t[x]) /\ t[x][n] = s[x][n]
                BY <1>1, <1>4, <1>5, <3>2
            <4>. QED BY <4>1, <2>3 DEF Shut
        <3>. QED BY <3>1, <3>2
    <2>4. Shut(S, A, {}, s, h, g, d)
        BY <2>2, <2>3 DEF Shut
    <2>. QED BY <2>4 DEF Quiet, Sound, Covers
<1>. QED BY <1>6, <1>7, <1>8, <1>9, <1>10, <1>12, <1>13, <1>14, <1>15 DEF Quiet, Sound

(***************************************************************************)
(* Only references of the program, of globals and of drops come and go.    *)
(***************************************************************************)
Recounted(K, c, h, g, d, c2, h2, g2, d2) ==
    /\ c2 \in [Objects -> Int] /\ h2 \in [Objects -> Nat] /\ d2 \in [Objects -> Nat]
    /\ g2 \in [default : Objects \cup {NULL}, current : Objects \cup {NULL},
               typeType : Objects \cup {NULL}]
    /\ \A x \in Objects : c2[x] - (h2[x] + GlobalCount(g2, x) + d2[x])
                          = c[x] - (h[x] + GlobalCount(g, x) + d[x])
    /\ \A x \in InUse(K) : c2[x] > 0
    /\ \A x \in Objects : h2[x] + GlobalCount(g2, x) + d2[x] > 0 => x \in InUse(K)
    /\ \A x \in Objects : h[x] + GlobalCount(g, x) + d[x] > 0 => h2[x] + GlobalCount(g2, x) + d2[x] > 0
    /\ g2.default # NULL =>
          g2.current \in Objects /\ K[g2.current] = "layer" /\ g2.typeType \in Objects
    /\ g2.default = NULL => g2.current = NULL /\ g2.typeType = NULL

\* Taking and giving up references, with no pointer changed, keeps it.
LEMMA OnlyCounts ==
    ASSUME NEW K, NEW s, NEW c, NEW h, NEW g, NEW d, NEW c2, NEW h2, NEW g2, NEW d2,
           Quiet(K, s, c, h, g, d), Recounted(K, c, h, g, d, c2, h2, g2, d2)
    PROVE  Quiet(K, s, c2, h2, g2, d2)
<1> DEFINE A == InUse(K)
<1>1. WellTyped(K, s, c, h, g) /\ d \in [Objects -> Nat] /\ A \in SUBSET Objects
    BY DEF Quiet, InUse
<1>2. WellTyped(K, s, c2, h2, g2)
    BY <1>1 DEF WellTyped, Recounted
<1>3. \A x \in Objects : K[x] # "unused" => c2[x] > 0
    BY DEF Recounted, InUse
<1>4. ASSUME NEW x \in Objects
      PROVE  /\ h[x] \in Nat /\ h2[x] \in Nat /\ d[x] \in Nat /\ d2[x] \in Nat
             /\ c[x] \in Int /\ c2[x] \in Int
             /\ GlobalCount(g, x) \in Nat /\ GlobalCount(g2, x) \in Nat
    BY <1>1, GlobalCountType DEF WellTyped, Recounted
<1>5. d2 \in [Objects -> Nat] /\ \A x \in Objects : d2[x] > 0 => x \in A
    BY <1>4 DEF Recounted
<1>6. Layers(A, K, s, g2)
    BY DEF Recounted, Quiet, Sound, Layers
<1>7. Exact(A, {}, s, c2, h2, g2, d2)
    <2> SUFFICES ASSUME NEW x \in A
                 PROVE  c2[x] = h2[x] + GlobalCount(g2, x) + Deg(A, s, {}, x) + d2[x]
        BY DEF Exact
    <2>1. x \in Objects
        BY <1>1
    <2> DEFINE D == Deg(A, s, {}, x)
               G == GlobalCount(g, x)
               G2 == GlobalCount(g2, x)
               cx == c[x]
               hx == h[x]
               dx == d[x]
               c2x == c2[x]
               h2x == h2[x]
               d2x == d2[x]
    <2>2. cx = hx + G + D + dx
        BY DEF Quiet, Sound, Exact
    <2>3. c2x - (h2x + G2 + d2x) = cx - (hx + G + dx)
        BY <2>1 DEF Recounted
    <2>4. /\ cx \in Int /\ c2x \in Int /\ hx \in Nat /\ h2x \in Nat /\ dx \in Nat /\ d2x \in Nat
          /\ G \in Nat /\ G2 \in Nat /\ D \in Nat
        BY <1>1, <1>4, <2>1, DegType
    <2> HIDE DEF D, G, G2, cx, hx, dx, c2x, h2x, d2x
    <2>5. c2x = h2x + G2 + D + d2x
        BY <2>2, <2>3, <2>4
    <2>. QED BY <2>5 DEF D, G2, c2x, h2x, d2x
<1>8. Safe(A, {}, s, h2, g2)
    <2>1. ASSUME NEW x \in Objects, h2[x] + GlobalCount(g2, x) > 0 PROVE x \in A
        <3>1. h2[x] + GlobalCount(g2, x) + d2[x] > 0
            BY <1>4, <2>1
        <3>. QED BY <3>1 DEF Recounted
    <2>2. Safe(A, {}, s, h, g)
        BY DEF Quiet, Sound
    <2> HIDE DEF A
    <2>. QED BY <2>1, <2>2 DEF Safe
<1>9. Covers(A, {}, s, h2, g2, d2)
    <2> SUFFICES ASSUME NEW S \in SUBSET Objects, Shut(S, A, {}, s, h2, g2, d2)
                 PROVE  A \subseteq S
        BY DEF Covers
    <2>1. ASSUME NEW x \in Objects, h[x] + GlobalCount(g, x) + d[x] > 0 PROVE x \in S
        <3>1. h2[x] + GlobalCount(g2, x) + d2[x] > 0
            BY <2>1 DEF Recounted
        <3>. QED BY <3>1 DEF Shut
    <2>2. Shut(S, A, {}, s, h, g, d)
        BY <2>1 DEF Shut
    <2>. QED BY <2>2 DEF Quiet, Sound, Covers
<1>. QED BY <1>2, <1>3, <1>5, <1>6, <1>7, <1>8, <1>9 DEF Quiet, Sound

(***************************************************************************)
(* One object more between two calls, which the program holds.             *)
(***************************************************************************)
\* No pointer leads to memory that is not in use, from an object that is.
LEMMA NoneToUnused ==
    ASSUME NEW K, NEW s, NEW c, NEW h, NEW g, NEW d, Quiet(K, s, c, h, g, d),
           NEW x \in Objects, x \notin InUse(K)
    PROVE  /\ Deg(InUse(K), s, {}, x) = 0 /\ h[x] = 0 /\ GlobalCount(g, x) = 0 /\ d[x] = 0
           /\ Is(g.default, x) = 0 /\ Is(g.current, x) = 0 /\ Is(g.typeType, x) = 0
<1>1. Safe(InUse(K), {}, s, h, g) /\ WellTyped(K, s, c, h, g) /\ d \in [Objects -> Nat]
    BY DEF Quiet, Sound
<1>2. h[x] \in Nat /\ GlobalCount(g, x) \in Nat /\ d[x] \in Nat
    BY <1>1, GlobalCountType DEF WellTyped
<1>3. h[x] = 0 /\ GlobalCount(g, x) = 0
    BY <1>1, <1>2 DEF Safe
<1>4. d[x] = 0
    BY <1>2 DEF Quiet
<1>5. Refs(InUse(K), s, {}, x) = {}
    BY <1>1, TheObjects DEF Refs, Safe, Names
<1>6. Deg(InUse(K), s, {}, x) = 0
    BY <1>5, DegType DEF InUse
<1>7. x # g.default /\ x # g.current /\ x # g.typeType
    BY <1>3, GlobalCountType
<1>. QED BY <1>3, <1>4, <1>6, <1>7 DEF Is

\* An object has finitely many pointers to x.
LEMMA SlotsType ==
    ASSUME NEW r, Names(r) \subseteq FieldNames, NEW x
    PROVE  /\ Slots(r, x) \in Nat
           /\ Slots(r, x) = 0 <=> \A f \in Names(r) : r[f] # x
<1> DEFINE P == {f \in DOMAIN r : r[f] = x}
<1>1. IsFiniteSet(P)
    BY FewFields, FS_Subset DEF Names
<1>2. Cardinality(P) \in Nat /\ (Cardinality(P) = 0 <=> P = {})
    BY <1>1, FS_CardinalityType, FS_EmptySet
<1>3. P = {} <=> \A f \in Names(r) : r[f] # x
    BY DEF Names
<1> HIDE DEF P
<1>. QED BY <1>2, <1>3 DEF Slots, P

Added(K, s, c, h, K2, s2, c2, h2, o, k, r) ==
    /\ o \in Objects /\ o \notin InUse(K) /\ k \in Kinds
    /\ r \in [Fields(k) -> InUse(K) \cup {NULL}]
    /\ \A f \in Names(r) : r[f] = NULL => f \in Optional
    /\ k = "layer" => r.map \in Objects /\ K[r.map] = "map"
    /\ K2 = [K EXCEPT ![o] = k] /\ s2 = [s EXCEPT ![o] = r]
    /\ c2 \in [Objects -> Int] /\ h2 \in [Objects -> Nat]
    /\ c2[o] = 1 /\ h2[o] = 1
    /\ \A x \in Objects : x # o =>
          /\ c2[x] - h2[x] = (c[x] - h[x]) + Slots(r, x)
          /\ h2[x] <= h[x]
          /\ h[x] > 0 => h2[x] > 0 \/ \E f \in Names(r) : r[f] = x
    /\ \A x \in InUse(K) : c2[x] > 0

\* One more object, referred to by the program only, keeps it.
LEMMA OneMore ==
    ASSUME NEW K, NEW s, NEW c, NEW h, NEW g, NEW d, NEW K2, NEW s2, NEW c2, NEW h2, NEW o, NEW k, NEW r,
           Quiet(K, s, c, h, g, d), Added(K, s, c, h, K2, s2, c2, h2, o, k, r)
    PROVE  Quiet(K2, s2, c2, h2, g, d) /\ InUse(K2) = InUse(K) \cup {o}
<1> DEFINE A == InUse(K)
<1>1. WellTyped(K, s, c, h, g) /\ A \in SUBSET Objects /\ d \in [Objects -> Nat]
    BY DEF Quiet, InUse
<1>2. /\ o \in Objects /\ o \notin A /\ k \in Kinds /\ r \in [Fields(k) -> A \cup {NULL}]
      /\ c2 \in [Objects -> Int] /\ h2 \in [Objects -> Nat] /\ c2[o] = 1 /\ h2[o] = 1
    BY DEF Added
<1>3. K2 = [K EXCEPT ![o] = k] /\ s2 = [s EXCEPT ![o] = r]
    BY DEF Added
<1>4. K \in [Objects -> Kinds \cup {"unused"}] /\ DOMAIN s = Objects /\ s = [x \in Objects |-> s[x]]
    BY <1>1 DEF WellTyped
<1>5. /\ K2[o] = k /\ s2[o] = r /\ s2 = [x \in Objects |-> s2[x]]
      /\ K2 \in [Objects -> Kinds \cup {"unused"}]
      /\ \A x \in Objects : x # o => K2[x] = K[x] /\ s2[x] = s[x]
    <2>1. K2[o] = k /\ K2 \in [Objects -> Kinds \cup {"unused"}] /\ \A x \in Objects : x # o => K2[x] = K[x]
        BY <1>2, <1>3, <1>4
    <2>2. s2[o] = r /\ s2 = [x \in Objects |-> s2[x]] /\ \A x \in Objects : x # o => s2[x] = s[x]
        BY <1>2, <1>3, <1>4
    <2>. QED BY <2>1, <2>2
<1>6. k # "unused" /\ Names(r) = Fields(k) /\ Names(r) \subseteq FieldNames
    BY <1>2, AllFields DEF Names
<1>7. InUse(K2) = A \cup {o}
    BY <1>2, <1>5, <1>6 DEF InUse
<1>8. WellTyped(K2, s2, c2, h2, g)
    <2>1. ASSUME NEW x \in Objects
          PROVE  s2[x] \in [IF K2[x] # "unused" THEN Fields(K2[x]) ELSE {} -> Objects \cup {NULL}]
        <3>1. CASE x # o
            BY <3>1, <1>1, <1>5 DEF WellTyped
        <3>2. CASE x = o
            <4>1. A \cup {NULL} \subseteq Objects \cup {NULL}
                BY <1>1
            <4>2. r \in [Fields(k) -> Objects \cup {NULL}]
                BY <4>1, <1>2
            <4>. QED BY <4>2, <3>2, <1>5, <1>6
        <3>. QED BY <3>1, <3>2
    <2>. QED BY <1>1, <1>2, <1>5, <2>1 DEF WellTyped
<1>9. /\ \A x \in Objects : K2[x] # "unused" => c2[x] > 0
      /\ \A x \in Objects : d[x] > 0 => x \in InUse(K2)
    <2>1. \A x \in A : c2[x] > 0
        BY DEF Added
    <2>2. \A x \in InUse(K2) : c2[x] > 0
        BY <2>1, <1>2, <1>7
    <2>. QED BY <2>2, <1>7 DEF InUse, Quiet
<1>10. Filled(s2)
    BY <1>5 DEF Added, Quiet, Sound, Filled
<1>11. Layers(A \cup {o}, K2, s2, g)
    <2>1. ASSUME NEW x \in Objects, K[x] # "unused" PROVE K2[x] = K[x]
        BY <1>2, <1>5, <2>1 DEF InUse
    <2>2. ASSUME NEW l \in A, K2[l] = "layer" PROVE s2[l].map \in Objects /\ K2[s2[l].map] = "map"
        <3>1. l \in Objects /\ l # o /\ K[l] = "layer" /\ s2[l] = s[l]
            BY <1>1, <1>2, <1>5, <2>2
        <3>2. s[l].map \in Objects /\ K[s[l].map] = "map"
            BY <3>1, <2>2 DEF Quiet, Sound, Layers
        <3>. QED BY <3>1, <3>2, <2>1
    <2>3. ASSUME K2[o] = "layer" PROVE s2[o].map \in Objects /\ K2[s2[o].map] = "map"
        <3>1. r.map \in Objects /\ K[r.map] = "map"
            BY <2>3, <1>5 DEF Added
        <3>. QED BY <3>1, <2>1, <1>5
    <2>4. g.default # NULL => g.current \in Objects /\ K2[g.current] = "layer" /\ g.typeType \in Objects
        <3>1. g.default # NULL => g.current \in Objects /\ K[g.current] = "layer" /\ g.typeType \in Objects
            BY DEF Quiet, Sound, Layers
        <3>. QED BY <3>1, <2>1
    <2>5. g.default = NULL => g.current = NULL /\ g.typeType = NULL
        BY DEF Quiet, Sound, Layers
    <2> HIDE DEF A
    <2>. QED BY <2>2, <2>3, <2>4, <2>5 DEF Layers
<1>12. Agree(A, s, s2)
    BY <1>1, <1>2, <1>5 DEF Agree
<1>13. ASSUME NEW x
       PROVE  /\ Deg(A \cup {o}, s2, {}, x) = Deg(A, s, {}, x) + Slots(r, x)
              /\ Deg(A, s, {}, x) \in Nat /\ Slots(r, x) \in Nat
    <2>1. Names(s2[o]) \subseteq FieldNames /\ o \in Objects \ A
        BY <1>2, <1>5, <1>6
    <2> HIDE DEF A
    <2>. QED BY <2>1, <1>1, <1>5, <1>12, DegNew
<1>14. Exact(A \cup {o}, {}, s2, c2, h2, g, d)
    <2>1. ASSUME NEW x \in A
          PROVE  c2[x] = h2[x] + GlobalCount(g, x) + Deg(A \cup {o}, s2, {}, x) + d[x]
        <3>1. x \in Objects /\ x # o
            BY <1>1, <1>2
        <3> DEFINE D == Deg(A, s, {}, x)
                   D2 == Deg(A \cup {o}, s2, {}, x)
                   G == GlobalCount(g, x)
                   cx == c[x]
                   hx == h[x]
                   dx == d[x]
                   c2x == c2[x]
                   h2x == h2[x]
                   j == Slots(r, x)
        <3>2. cx = hx + G + D + dx
            BY DEF Quiet, Sound, Exact
        <3>3. c2x - h2x = (cx - hx) + j
            BY <3>1 DEF Added
        <3>4. /\ cx \in Int /\ c2x \in Int /\ hx \in Nat /\ h2x \in Nat /\ dx \in Nat
              /\ G \in Nat /\ D \in Nat /\ j \in Nat /\ D2 = D + j
            BY <1>1, <1>2, <1>13, <3>1, GlobalCountType DEF WellTyped
        <3> HIDE DEF D, D2, G, cx, hx, dx, c2x, h2x, j
        <3>5. c2x = h2x + G + D2 + dx
            BY <3>2, <3>3, <3>4
        <3>. QED BY <3>5 DEF D2, G, c2x, h2x, dx
    <2>2. c2[o] = h2[o] + GlobalCount(g, o) + Deg(A \cup {o}, s2, {}, o) + d[o]
        <3>1. Deg(A, s, {}, o) = 0 /\ GlobalCount(g, o) = 0 /\ d[o] = 0
            BY <1>2, NoneToUnused
        <3>2. Slots(r, o) = 0
            <4>1. \A f \in Names(r) : r[f] # o
                BY <1>2, TheObjects DEF Names
            <4>. QED BY <4>1, <1>6, SlotsType
        <3> HIDE DEF A
        <3>3. Deg(A \cup {o}, s2, {}, o) = Deg(A, s, {}, o) + Slots(r, o)
            BY <1>13
        <3>4. Deg(A \cup {o}, s2, {}, o) = 0
            BY <3>1, <3>2, <3>3
        <3>. QED BY <3>1, <3>4, <1>2
    <2> HIDE DEF A
    <2>. QED BY <2>1, <2>2 DEF Exact
<1>15. Safe(A \cup {o}, {}, s2, h2, g)
    <2>1. Safe(A, {}, s, h, g)
        BY DEF Quiet, Sound
    <2>2. ASSUME NEW x \in Objects, h2[x] + GlobalCount(g, x) > 0, x # o PROVE x \in A
        <3>1. h2[x] <= h[x] /\ h[x] \in Nat /\ h2[x] \in Nat /\ GlobalCount(g, x) \in Nat
            BY <2>2, <1>1, <1>2, GlobalCountType DEF Added, WellTyped
        <3>2. h[x] + GlobalCount(g, x) > 0
            BY <2>2, <3>1
        <3>. QED BY <3>2, <2>1 DEF Safe
    <2>3. ASSUME NEW x \in A, NEW f \in Names(s2[x]), s2[x][f] # NULL PROVE s2[x][f] \in A
        <3>1. s2[x] = s[x]
            BY <1>1, <1>2, <1>5
        <3>. QED BY <3>1, <2>1, <2>3 DEF Safe
    <2>4. ASSUME NEW f \in Names(s2[o]), s2[o][f] # NULL PROVE s2[o][f] \in A
        BY <1>2, <1>5, <2>4 DEF Names
    <2> HIDE DEF A
    <2>. QED BY <2>2, <2>3, <2>4 DEF Safe
<1>16. Covers(A \cup {o}, {}, s2, h2, g, d)
    <2> SUFFICES ASSUME NEW S \in SUBSET Objects, Shut(S, A \cup {o}, {}, s2, h2, g, d)
                 PROVE  A \cup {o} \subseteq S
        BY DEF Covers
    <2>0. ASSUME NEW x \in Objects
          PROVE  h[x] \in Nat /\ h2[x] \in Nat /\ d[x] \in Nat /\ GlobalCount(g, x) \in Nat
        BY <1>1, <1>2, GlobalCountType DEF WellTyped
    <2>1. o \in S
        <3>1. h2[o] + GlobalCount(g, o) + d[o] > 0
            BY <2>0, <1>2
        <3>. QED BY <3>1, <1>2 DEF Shut
    <2>2. ASSUME NEW f \in Names(r), r[f] # NULL PROVE r[f] \in S
        <3>1. f \in Names(s2[o]) /\ s2[o][f] # NULL /\ s2[o][f] = r[f]
            BY <2>2, <1>5
        <3>. QED BY <3>1, <2>1 DEF Shut
    <2>3. ASSUME NEW x \in Objects, h[x] + GlobalCount(g, x) + d[x] > 0 PROVE x \in S
        <3>1. CASE x = o
            BY <3>1, <2>1
        <3>2. CASE x # o /\ h2[x] + GlobalCount(g, x) + d[x] > 0
            BY <3>2 DEF Shut
        <3>3. CASE x # o /\ ~(h2[x] + GlobalCount(g, x) + d[x] > 0)
            <4>1. h[x] > 0 /\ ~(h2[x] > 0)
                BY <3>3, <2>0, <2>3
            <4>2. \E f \in Names(r) : r[f] = x
                BY <4>1, <3>3 DEF Added
            <4>. QED BY <4>2, <2>2, TheObjects
        <3>. QED BY <3>1, <3>2, <3>3
    <2>4. ASSUME NEW x \in S \cap A, NEW f \in Names(s[x]), s[x][f] # NULL PROVE s[x][f] \in S
        <3>1. s2[x] = s[x] /\ x \in A \cup {o}
            BY <1>1, <1>2, <1>5
        <3>. QED BY <3>1, <2>4 DEF Shut
    <2>5. Shut(S, A, {}, s, h, g, d)
        BY <2>3, <2>4 DEF Shut
    <2>6. A \subseteq S
        BY <2>5 DEF Quiet, Sound, Covers
    <2>. QED BY <2>1, <2>6
<1>. QED BY <1>1, <1>7, <1>8, <1>9, <1>10, <1>11, <1>14, <1>15, <1>16 DEF Quiet, Sound

(***************************************************************************)
(* The drops a call leaves to do.                                          *)
(***************************************************************************)
\* The frame of a call that only drops has the type of a frame.
LEMMA NoSetType == NoSet \in (Objects \cup {NULL}) \X (FieldNames \cup {"none"}) \X (Objects \cup {NULL})
BY DEF NoSet

\* A frame without a setter hides no pointer, and keeps a stack orderly.
LEMMA PlainOnTop ==
    ASSUME NEW fr \in FrameType, fr.set = NoSet, NEW w \in Seq(FrameType)
    PROVE  /\ Hidden(<<fr>> \o w) = Hidden(w)
           /\ Orderly(w) /\ (\A f \in Frames(w) : f.reclaim \cap fr.reclaim = {}) => Orderly(<<fr>> \o w)
           /\ Orderly(<<fr>> \o w) => Orderly(w) /\ \A f \in Frames(w) : f.reclaim \cap fr.reclaim = {}
<1> DEFINE v == <<fr>> \o w
<1>1. /\ v \in Seq(FrameType) /\ Len(v) = Len(w) + 1 /\ v[1] = fr
      /\ \A i \in DOMAIN w : v[i + 1] = w[i]
      /\ \A i \in DOMAIN v : i = 1 \/ (i - 1 \in DOMAIN w /\ v[i] = w[i - 1])
    BY OnTop
<1>2. DOMAIN v = 1 .. Len(v) /\ DOMAIN w = 1 .. Len(w) /\ Len(w) \in Nat
    BY <1>1
<1> HIDE DEF v
<1>3. \A i \in DOMAIN w : i + 1 \in DOMAIN v /\ i + 1 # 1
    BY <1>1, <1>2
<1>4. fr.set[1] = NULL
    BY DEF NoSet
<1>5. Hidden(v) = Hidden(w)
    <2>1. ASSUME NEW p \in Hidden(v) PROVE p \in Hidden(w)
        <3>1. p \in Objects \X FieldNames
            BY DEF Hidden
        <3>2. PICK i \in DOMAIN v : v[i].set[1] = p[1] /\ v[i].set[2] = p[2]
            BY DEF Hidden
        <3>3. i # 1
            BY <3>1, <3>2, <1>1, <1>4, TheObjects
        <3>. QED BY <3>1, <3>2, <3>3, <1>1 DEF Hidden
    <2>2. ASSUME NEW p \in Hidden(w) PROVE p \in Hidden(v)
        <3>1. p \in Objects \X FieldNames
            BY DEF Hidden
        <3>2. PICK i \in DOMAIN w : w[i].set[1] = p[1] /\ w[i].set[2] = p[2]
            BY DEF Hidden
        <3>3. i + 1 \in DOMAIN v /\ v[i + 1] = w[i]
            BY <1>1, <1>3
        <3>. QED BY <3>1, <3>2, <3>3 DEF Hidden
    <2>. QED BY <2>1, <2>2
<1>6. ASSUME Orderly(w), \A f \in Frames(w) : f.reclaim \cap fr.reclaim = {} PROVE Orderly(v)
    <2>1. ASSUME NEW i \in DOMAIN v, NEW j \in DOMAIN v, i # j PROVE v[i].reclaim \cap v[j].reclaim = {}
        <3>1. CASE i = 1
            <4>1. j - 1 \in DOMAIN w /\ v[j] = w[j - 1]
                BY <3>1, <2>1, <1>1
            <4>. QED BY <4>1, <3>1, <1>1, <1>6 DEF Frames
        <3>2. CASE j = 1
            <4>1. i - 1 \in DOMAIN w /\ v[i] = w[i - 1]
                BY <3>2, <2>1, <1>1
            <4>. QED BY <4>1, <3>2, <1>1, <1>6 DEF Frames
        <3>3. CASE i # 1 /\ j # 1
            <4>1. i - 1 \in DOMAIN w /\ v[i] = w[i - 1] /\ j - 1 \in DOMAIN w /\ v[j] = w[j - 1]
                BY <3>3, <1>1
            <4>2. i - 1 # j - 1
                BY <2>1, <1>2
            <4>. QED BY <4>1, <4>2, <1>6 DEF Orderly
        <3>. QED BY <3>1, <3>2, <3>3
    <2>2. ASSUME NEW i \in DOMAIN v, v[i].set # NoSet PROVE i = Len(v) /\ v[i].reclaim = {}
        <3>1. i - 1 \in DOMAIN w /\ v[i] = w[i - 1]
            BY <2>2, <1>1
        <3>2. i - 1 = Len(w) /\ w[i - 1].reclaim = {}
            BY <3>1, <2>2, <1>6 DEF Orderly
        <3>. QED BY <3>1, <3>2, <1>1, <1>2
    <2>. QED BY <2>1, <2>2 DEF Orderly
<1>7. ASSUME Orderly(v) PROVE Orderly(w) /\ \A f \in Frames(w) : f.reclaim \cap fr.reclaim = {}
    <2>1. ASSUME NEW i \in DOMAIN w, NEW j \in DOMAIN w, i # j PROVE w[i].reclaim \cap w[j].reclaim = {}
        <3>1. i + 1 \in DOMAIN v /\ j + 1 \in DOMAIN v /\ i + 1 # j + 1 /\ v[i + 1] = w[i] /\ v[j + 1] = w[j]
            BY <2>1, <1>1, <1>2, <1>3
        <3>. QED BY <3>1, <1>7 DEF Orderly
    <2>2. ASSUME NEW i \in DOMAIN w, w[i].set # NoSet PROVE i = Len(w) /\ w[i].reclaim = {}
        <3>1. i + 1 \in DOMAIN v /\ v[i + 1] = w[i]
            BY <1>1, <1>3
        <3>2. i + 1 = Len(v) /\ v[i + 1].reclaim = {}
            BY <3>1, <2>2, <1>7 DEF Orderly
        <3>. QED BY <3>1, <3>2, <1>1, <1>2
    <2>3. ASSUME NEW i \in DOMAIN w PROVE w[i].reclaim \cap fr.reclaim = {}
        <3>1. i + 1 \in DOMAIN v /\ 1 \in DOMAIN v /\ i + 1 # 1 /\ v[i + 1] = w[i]
            BY <1>1, <1>2, <1>3
        <3>. QED BY <3>1, <1>1, <1>7 DEF Orderly
    <2>. QED BY <2>1, <2>2, <2>3 DEF Orderly, Frames
<1>. QED BY <1>5, <1>6, <1>7 DEF v

\* One more call's drops.
LEMMA LooseOnTop ==
    ASSUME NEW w, NEW d, Loose(w, d), NEW drops \in [Objects -> Nat]
    PROVE  Loose(<<Frame(drops, NoSet, {})>> \o w, [x \in Objects |-> d[x] + drops[x]])
<1> DEFINE fr == Frame(drops, NoSet, {})
           v == <<fr>> \o w
           e == [x \in Objects |-> d[x] + drops[x]]
<1>1. fr \in FrameType /\ fr.drops = drops /\ fr.set = NoSet /\ fr.reclaim = {}
    BY NoSetType DEF Frame, FrameType
<1>2. w \in Seq(FrameType) /\ Hidden(w) = {} /\ d = Owes(w) /\ Orderly(w)
    BY DEF Loose
<1> HIDE DEF fr
<1>3. v \in Seq(FrameType) /\ Frames(v) = {fr} \cup Frames(w)
    BY <1>1, <1>2, OnTop
<1>4. Hidden(v) = {} /\ Orderly(v)
    BY <1>1, <1>2, PlainOnTop
<1>5. ASSUME NEW x \in Objects
      PROVE  Pending(v, x) = d[x] + drops[x] /\ d[x] \in Nat /\ drops[x] \in Nat
    <2>1. Pending(v, x) = Pending(w, x) + Owed(fr, x)
        BY <1>1, <1>2, PendingOnTop
    <2>2. d[x] = Pending(w, x) /\ Pending(w, x) \in Nat
        BY <1>2, PendingType DEF Owes
    <2>3. fr.set[3] # x
        BY <1>1, TheObjects DEF NoSet
    <2>4. Owed(fr, x) = drops[x] + 0
        BY <1>1, <2>3 DEF Owed, Is
    <2>5. Pending(v, x) = d[x] + (drops[x] + 0) /\ drops[x] \in Nat
        BY <2>1, <2>2, <2>4
    <2> HIDE DEF v
    <2>. QED BY <2>2, <2>5
<1>6. e = Owes(v)
    BY <1>5 DEF Owes
<1>7. ASSUME NEW f \in Frames(v)
      PROVE  f.reclaim = {} /\ f.set = NoSet /\ \A x \in Objects : f.drops[x] > 0 => e[x] > 0
    <2>1. CASE f = fr
        BY <2>1, <1>1, <1>5
    <2>2. CASE f \in Frames(w)
        BY <2>2, <1>5 DEF Loose
    <2>. QED BY <2>1, <2>2, <1>3
<1> HIDE DEF v, e
<1>8. Loose(v, e)
    BY <1>3, <1>4, <1>6, <1>7 DEF Loose
<1>. QED BY <1>8 DEF v, e, fr

\* One frame owes its own drops.
LEMMA OneFrame ==
    ASSUME NEW drops \in [Objects -> Nat]
    PROVE  Loose(<<Frame(drops, NoSet, {})>>, drops)
<1>1. Loose(<<Frame(drops, NoSet, {})>> \o <<>>, [x \in Objects |-> NoDrops[x] + drops[x]])
    BY NoDropsOwed, LooseOnTop
<1>2. <<Frame(drops, NoSet, {})>> \o <<>> = <<Frame(drops, NoSet, {})>>
    OBVIOUS
<1>3. [x \in Objects |-> NoDrops[x] + drops[x]] = drops
    BY DEF NoDrops
<1>. QED BY <1>1, <1>2, <1>3

\* The drop of one object, or of none.
Once(o) == [x \in Objects |-> Is(o, x)]
\* The drop of o is of o alone.
LEMMA DropIs == \A o \in Objects : Drop(o) = Once(o) /\ Once(o) \in [Objects -> Nat]
<1> TAKE o \in Objects
<1>1. \A x \in Objects : Is(o, x) \in Nat
    BY DEF Is
<1>2. \A x \in Objects : Drop(o)[x] = Is(o, x)
    BY DEF Drop, NoDrops, Is
<1>3. Drop(o) = [x \in Objects |-> Drop(o)[x]]
    BY DEF Drop, NoDrops
<1>. QED BY <1>1, <1>2, <1>3 DEF Once

\* A call that drops o, or nothing, leaves that drop to do.
LEMMA DropOwed ==
    ASSUME NEW o \in Objects \cup {NULL}, AfterDrop(o)
    PROVE  Loose(work', Once(o)) /\ Once(o) \in [Objects -> Nat]
<1>1. CASE o = NULL
    <2>1. Once(o) = NoDrops /\ NoDrops \in [Objects -> Nat]
        BY <1>1, TheObjects DEF Once, NoDrops, Is
    <2>. QED BY <2>1, <1>1, NoDropsOwed DEF AfterDrop
<1>2. CASE o # NULL
    <2>1. o \in Objects /\ work' = <<Frame(Once(o), NoSet, {})>> /\ Once(o) \in [Objects -> Nat]
        BY <1>2, DropIs DEF AfterDrop
    <2>. QED BY <2>1, OneFrame
<1>. QED BY <1>1, <1>2

(***************************************************************************)
(* Building one object.                                                    *)
(***************************************************************************)
Counted(k) == Share(k) \cup Layered(k) \cup Typed(k)

\* Each pointer of a new object is taken over, shared or NULL, and it is NULL
\* only where the code tests for that.
LEMMA KindSlots ==
    ASSUME NEW k \in Kinds \ {"layer", "map"}
    PROVE  /\ Take(k) \cup Counted(k) \subseteq Fields(k) /\ Take(k) \cap Counted(k) = {}
           /\ Fields(k) \ (Take(k) \cup Counted(k)) \subseteq Optional
           /\ Share(k) \cap (Layered(k) \cup Typed(k)) = {} /\ Layered(k) \cap Typed(k) = {}
<1>1. CASE k \in Trees
    <2>1. k \notin Values /\ k \notin {"type", "sum", "function", "pointer", "scalar"}
        BY <1>1, KindsApart DEF Values
    <2>2. Counted(k) = {}
        BY <2>1 DEF Counted, Share, Layered, Typed
    <2>3. Fields(k) = Struct[k]
        BY <1>1, TreeFields
    <2>4. CASE k = "def"
        <3>1. Take("def") = {"parameter_list", "body"}
            BY DEF Take
        <3>2. Struct["def"] = {"type_spec", "parameter_list", "body"}
            BY DEF Struct
        <3>3. "type_spec" \in Optional
            BY DEF Optional
        <3>. QED BY <2>2, <2>3, <2>4, <3>1, <3>2, <3>3 DEF Counted
    <2>5. CASE k # "def"
        <3>1. Take(k) = Struct[k]
            BY <1>1, <2>1, <2>5 DEF Take
        <3>. QED BY <2>2, <2>3, <3>1 DEF Counted
    <2>. QED BY <2>4, <2>5
<1>2. CASE k \in Values
    <2>1. Fields(k) = Struct[k] \cup {"typeobj"}
        BY <1>2, ValueFields
    <2>2. k \notin Trees
        BY <1>2, KindsApart
    <2>3. CASE k = "scalar"
        <3>1. Struct[k] = {} /\ Share(k) = {} /\ Layered(k) = {} /\ Typed(k) = {"typeobj"}
            BY <2>3 DEF Struct, Share, Layered, Typed
        <3>2. Take(k) = {}
            BY <2>2, <2>3 DEF Take
        <3>. QED BY <2>1, <3>1, <3>2 DEF Counted
    <2>4. CASE k = "type"
        <3>1. /\ Struct[k] = {"type_spec", "typemap"} /\ Share(k) = {} /\ Layered(k) = {"typemap"}
              /\ Typed(k) = {"typeobj"}
            BY <2>4 DEF Struct, Share, Layered, Typed
        <3>2. Take(k) = {"type_spec"}
            BY <2>2, <2>4 DEF Take
        <3>. QED BY <2>1, <3>1, <3>2 DEF Counted
    <2>5. CASE k = "tuple"
        <3>1. Struct[k] = {"e1", "e2"} /\ Share(k) = {} /\ Layered(k) = {} /\ Typed(k) = {}
            BY <2>5 DEF Struct, Share, Layered, Typed
        <3>2. Take(k) = {}
            BY <2>2, <2>5 DEF Take
        <3>. QED BY <2>1, <3>1, <3>2 DEF Counted, Optional
    <2>6. CASE k = "sum"
        <3>1. Struct[k] = {"value"} /\ Share(k) = {} /\ Layered(k) = {} /\ Typed(k) = {}
            BY <2>6 DEF Struct, Share, Layered, Typed
        <3>2. Take(k) = {"value"}
            BY <2>2, <2>6 DEF Take
        <3>. QED BY <2>1, <3>1, <3>2 DEF Counted, Optional
    <2>7. CASE k = "function"
        <3>1. /\ Struct[k] = {"parameter_list", "code", "layer"} /\ Share(k) = {}
              /\ Layered(k) = {"layer"} /\ Typed(k) = {}
            BY <2>7 DEF Struct, Share, Layered, Typed
        <3>2. Take(k) = {"parameter_list", "code"}
            BY <2>2, <2>7 DEF Take
        <3>. QED BY <2>1, <3>1, <3>2 DEF Counted, Optional
    <2>8. CASE k = "pointer"
        <3>1. Struct[k] = {"ptr"} /\ Share(k) = {"ptr"} /\ Layered(k) = {} /\ Typed(k) = {}
            BY <2>8 DEF Struct, Share, Layered, Typed
        <3>2. Take(k) = {}
            BY <2>2, <2>8 DEF Take
        <3>. QED BY <2>1, <3>1, <3>2 DEF Counted, Optional
    <2>. QED BY <1>2, <2>3, <2>4, <2>5, <2>6, <2>7, <2>8 DEF Values
<1>. QED BY <1>1, <1>2 DEF Kinds

\* The globals, while the library runs, and what the program holds are in use.
LEMMA GlobalsInUse ==
    ASSUME NEW K, NEW s, NEW c, NEW h, NEW g, NEW d, Quiet(K, s, c, h, g, d)
    PROVE  /\ \A x \in Objects : h[x] > 0 => x \in InUse(K)
           /\ g.default # NULL => /\ g.default \in InUse(K) /\ g.current \in InUse(K)
                                  /\ g.typeType \in InUse(K) /\ K[g.current] = "layer"
           /\ \A x \in Objects : x \in {g.default, g.current, g.typeType} => x \in InUse(K)
           /\ g.default \in Objects \cup {NULL} /\ g.current \in Objects \cup {NULL}
           /\ g.typeType \in Objects \cup {NULL}
           /\ \A x \in InUse(K) : \A f \in Names(s[x]) : s[x][f] \in InUse(K) \cup {NULL}
           /\ \A x \in Objects : h[x] \in Nat /\ c[x] \in Int
           /\ InUse(K) \subseteq Objects /\ NULL \notin InUse(K) /\ DOMAIN K = Objects /\ DOMAIN s = Objects
<1>1. WellTyped(K, s, c, h, g) /\ Safe(InUse(K), {}, s, h, g) /\ Layers(InUse(K), K, s, g)
    BY DEF Quiet, Sound
<1>2. ASSUME NEW x \in Objects PROVE h[x] \in Nat /\ c[x] \in Int /\ GlobalCount(g, x) \in Nat
    BY <1>1, GlobalCountType DEF WellTyped
<1>3. \A x \in Objects : h[x] > 0 => x \in InUse(K)
    BY <1>1, <1>2 DEF Safe
<1>4. \A x \in Objects : x \in {g.default, g.current, g.typeType} => x \in InUse(K)
    <2> TAKE x \in Objects
    <2> HAVE x \in {g.default, g.current, g.typeType}
    <2>1. GlobalCount(g, x) > 0
        BY GlobalCountType
    <2>2. h[x] + GlobalCount(g, x) > 0
        BY <2>1, <1>2
    <2>. QED BY <2>2, <1>1 DEF Safe
<1>5. /\ g.default \in Objects \cup {NULL} /\ g.current \in Objects \cup {NULL}
      /\ g.typeType \in Objects \cup {NULL}
    BY <1>1 DEF WellTyped
<1>6. g.default # NULL => g.current \in Objects /\ g.typeType \in Objects /\ K[g.current] = "layer"
    BY <1>1 DEF Layers
<1>7. \A x \in InUse(K) : \A f \in Names(s[x]) : s[x][f] \in InUse(K) \cup {NULL}
    BY <1>1 DEF Safe
<1>8. InUse(K) \subseteq Objects /\ NULL \notin InUse(K) /\ DOMAIN K = Objects /\ DOMAIN s = Objects
    <2>1. InUse(K) \subseteq Objects
        BY DEF InUse
    <2>2. DOMAIN K = Objects
        BY <1>1 DEF WellTyped
    <2>3. s = [x \in Objects |-> s[x]]
        BY <1>1 DEF WellTyped
    <2>4. DOMAIN s = Objects
        BY <2>3
    <2>. QED BY <2>1, <2>2, <2>4, TheObjects
<1>. QED BY <1>2, <1>3, <1>4, <1>5, <1>6, <1>7, <1>8

\* The pointers of an object, counted in two parts.
Among(P, r, x) == Cardinality({f \in P : r[f] = x})
Parts(r, P, Q, x) ==
    /\ Names(r) \subseteq FieldNames /\ P \cup Q \subseteq Names(r)
    /\ P \cap Q = {} /\ \A f \in Names(r) \ (P \cup Q) : r[f] # x
\* The pointers to x are those of the one part and those of the other.
LEMMA SlotsParts ==
    \A r, P, Q, x : Parts(r, P, Q, x) =>
        /\ Slots(r, x) = Among(P, r, x) + Among(Q, r, x)
        /\ Among(P, r, x) \in Nat /\ Among(Q, r, x) \in Nat
        /\ Among(P, r, x) = 0 => \A f \in P : r[f] # x
        /\ Among(Q, r, x) = 0 => \A f \in Q : r[f] # x
<1> TAKE r, P, Q, x
<1> HAVE Parts(r, P, Q, x)
<1> USE DEF Parts
<1> DEFINE U == {f \in P : r[f] = x}
           V == {f \in Q : r[f] = x}
<1>1. IsFiniteSet(U) /\ IsFiniteSet(V)
    <2>1. U \in SUBSET FieldNames /\ V \in SUBSET FieldNames
        OBVIOUS
    <2> HIDE DEF U, V
    <2>. QED BY <2>1, FewFields, FS_Subset
<1>2. U \cap V = {} /\ {f \in DOMAIN r : r[f] = x} = U \cup V
    BY DEF Names
<1>3. \A f \in P : r[f] = x => f \in U
    OBVIOUS
<1>4. \A f \in Q : r[f] = x => f \in V
    OBVIOUS
<1> HIDE DEF U, V
<1>5. /\ Cardinality(U) \in Nat /\ Cardinality(V) \in Nat
      /\ Cardinality(U) = 0 => U = {}
      /\ Cardinality(V) = 0 => V = {}
    BY <1>1, FS_CardinalityType, FS_EmptySet
<1>6. Cardinality(U \cup V) = Cardinality(U) + Cardinality(V) - 0
    BY <1>1, <1>2, FS_Union, FS_EmptySet
<1>7. Slots(r, x) = Cardinality(U) + Cardinality(V)
    <2>1. Slots(r, x) = Cardinality(U \cup V)
        BY <1>2 DEF Slots
    <2>2. Cardinality(U) + Cardinality(V) - 0 = Cardinality(U) + Cardinality(V)
        BY <1>5
    <2>. QED BY <2>1, <2>2, <1>6
<1>. QED BY <1>3, <1>4, <1>5, <1>7 DEF U, V, Among

\* A call that owes nothing: what holds between two calls holds after it.
LEMMA Finished ==
    ASSUME HeapInv, work = <<>>, UNCHANGED <<work, crashed, program>>,
           Quiet(kind', slot', count', held', globals', NoDrops)
    PROVE  HeapInv'
<1>1. Loose(work', NoDrops)
    BY NoDropsOwed
<1>2. crashed' = "no" /\ program' \in Programs
    BY DEF HeapInv
<1>. QED BY <1>1, <1>2, After

\* Memory for a new object is not in use.
LEMMA UnusedCell ==
    ASSUME NEW S, Unused(S), S \subseteq Cells
    PROVE  \A c \in S : c \in Objects /\ c \notin InUse(kind)
BY TheObjects DEF Unused, InUse, Live

\* A constructor keeps the invariant: it counts what it shares and takes over
\* what it is given (values.c, syntax_tree.c).
LEMMA NewKeeps ==
    ASSUME HeapInv, ~AnySetter, NEW k \in Kinds \ {"layer", "map"}, NEW o \in Cells,
           NEW given \in Given(k), New(k, o, given)
    PROVE  HeapInv'
<1> DEFINE arg == [f \in Fields(k) |->
                     CASE f \in DOMAIN given -> given[f]
                       [] f \in Layered(k)   -> globals.current
                       [] f \in Typed(k)     -> globals.typeType
                       [] OTHER              -> NULL]
           shared(x) == Cardinality({f \in Share(k) \cup Layered(k) \cup Typed(k) : arg[f] = x})
           taken(x) == Cardinality({f \in Take(k) : arg[f] = x})
           A == InUse(kind)
<1>1. /\ work = <<>> /\ Running /\ Unused({o})
      /\ \A f \in DOMAIN given : Suits(k, f, given[f])
      /\ \A x \in Objects : taken(x) <= held[x]
      /\ kind' = [kind EXCEPT ![o] = k]
      /\ slot' = [slot EXCEPT ![o] = arg]
      /\ count' = [x \in Objects |-> IF x = o THEN 1 ELSE count[x] + shared(x)]
      /\ held' = [x \in Objects |-> IF x = o THEN 1 ELSE held[x] - taken(x)]
      /\ UNCHANGED <<globals, work, crashed, program>>
    BY DEF New, Calling
<1>2. Quiet(kind, slot, count, held, globals, NoDrops)
    BY <1>1, Before
<1>3. o \in Objects /\ o \notin A
    BY <1>1, UnusedCell
<1>4. /\ \A x \in Objects : held[x] > 0 => x \in A
      /\ globals.current \in A /\ globals.typeType \in A
      /\ \A x \in Objects : held[x] \in Nat /\ count[x] \in Int
      /\ A \subseteq Objects /\ NULL \notin A
    BY <1>1, <1>2, GlobalsInUse DEF Running
<1>5. /\ Take(k) \cup Counted(k) \subseteq Fields(k) /\ Take(k) \cap Counted(k) = {}
      /\ Fields(k) \ (Take(k) \cup Counted(k)) \subseteq Optional
      /\ Share(k) \cap (Layered(k) \cup Typed(k)) = {} /\ Layered(k) \cap Typed(k) = {}
    BY KindSlots
<1>6. DOMAIN given = Take(k) \cup Share(k) /\ \A f \in Take(k) \cup Share(k) : given[f] \in A \cup {NULL}
    <2>1. given \in [Take(k) \cup Share(k) -> {x \in Objects : Holding(x)} \cup {NULL}]
        BY DEF Given
    <2>2. {x \in Objects : Holding(x)} \cup {NULL} \subseteq A \cup {NULL}
        BY <1>4 DEF Holding
    <2> HIDE DEF A
    <2>. QED BY <2>1, <2>2
<1>7. ASSUME NEW f \in Fields(k)
      PROVE  /\ arg[f] \in A \cup {NULL} /\ (arg[f] = NULL => f \in Optional)
             /\ f \notin Take(k) \cup Counted(k) => arg[f] = NULL
    <2>1. CASE f \in Take(k) \cup Share(k)
        <3>1. arg[f] = given[f]
            BY <2>1, <1>5, <1>6 DEF Counted
        <3>2. given[f] = NULL => f \in Optional
            BY <2>1, <1>1, <1>6 DEF Suits
        <3>. QED BY <2>1, <3>1, <3>2, <1>6 DEF Counted
    <2>2. CASE f \in Layered(k)
        <3>1. f \notin DOMAIN given /\ f \notin Typed(k)
            BY <2>2, <1>5, <1>6 DEF Counted
        <3>2. arg[f] = globals.current
            BY <2>2, <3>1
        <3>. QED BY <2>2, <3>2, <1>4 DEF Counted
    <2>3. CASE f \in Typed(k)
        <3>1. f \notin DOMAIN given /\ f \notin Layered(k)
            BY <2>3, <1>5, <1>6 DEF Counted
        <3>2. arg[f] = globals.typeType
            BY <2>3, <3>1
        <3>. QED BY <2>3, <3>2, <1>4 DEF Counted
    <2>4. CASE f \notin Take(k) \cup Share(k) \cup Layered(k) \cup Typed(k)
        <3>1. arg[f] = NULL
            BY <2>4, <1>6
        <3>. QED BY <2>4, <3>1, <1>5 DEF Counted
    <2>. QED BY <2>1, <2>2, <2>3, <2>4
<1>8. Names(arg) = Fields(k) /\ Fields(k) \subseteq FieldNames
    BY AllFields DEF Names
<1>9. arg \in [Fields(k) -> A \cup {NULL}]
    BY <1>7
<1>10. \A f \in Names(arg) : arg[f] = NULL => f \in Optional
    BY <1>7, <1>8
<1> HIDE DEF arg
<1>11. ASSUME NEW x \in Objects
       PROVE  /\ Slots(arg, x) = taken(x) + shared(x) /\ taken(x) \in Nat /\ shared(x) \in Nat
              /\ taken(x) = 0 \/ \E f \in Names(arg) : arg[f] = x
    <2>1. \A f \in Names(arg) \ (Take(k) \cup Counted(k)) : arg[f] # x
        BY <1>7, <1>8, TheObjects
    <2>2. Counted(k) = Share(k) \cup Layered(k) \cup Typed(k)
        BY DEF Counted
    <2>3. Slots(arg, x) = taken(x) + shared(x) /\ taken(x) \in Nat /\ shared(x) \in Nat
        <3>1. Parts(arg, Take(k), Counted(k), x)
            BY <2>1, <1>5, <1>8 DEF Parts
        <3>2. /\ Slots(arg, x) = Among(Take(k), arg, x) + Among(Counted(k), arg, x)
              /\ Among(Take(k), arg, x) \in Nat /\ Among(Counted(k), arg, x) \in Nat
            BY <3>1, SlotsParts
        <3>. QED BY <3>2, <2>2 DEF Among
    <2>4. ASSUME \A f \in Names(arg) : arg[f] # x PROVE taken(x) = 0
        <3>1. {f \in Take(k) : arg[f] = x} = {}
            BY <2>4, <1>5, <1>8
        <3>. QED BY <3>1, FS_EmptySet
    <2>. QED BY <2>3, <2>4
<1> HIDE DEF shared, taken
<1>12. ASSUME NEW x \in Objects, x # o
       PROVE  /\ count'[x] = count[x] + shared(x) /\ held'[x] = held[x] - taken(x)
              /\ count'[x] \in Int /\ held'[x] \in Nat
              /\ count'[x] - held'[x] = (count[x] - held[x]) + Slots(arg, x)
              /\ held'[x] <= held[x]
              /\ held[x] > 0 => held'[x] > 0 \/ \E f \in Names(arg) : arg[f] = x
    <2>1. count'[x] = count[x] + shared(x) /\ held'[x] = held[x] - taken(x)
        BY <1>1, <1>12
    <2>2. /\ count[x] \in Int /\ held[x] \in Nat /\ taken(x) \in Nat /\ shared(x) \in Nat
          /\ taken(x) <= held[x] /\ Slots(arg, x) = taken(x) + shared(x)
        BY <1>1, <1>4, <1>11
    <2>3. taken(x) = 0 \/ \E f \in Names(arg) : arg[f] = x
        BY <1>11
    <2>. QED BY <2>1, <2>2, <2>3
<1>13. count' \in [Objects -> Int] /\ held' \in [Objects -> Nat] /\ count'[o] = 1 /\ held'[o] = 1
    <2>1. count'[o] = 1 /\ held'[o] = 1
        BY <1>1, <1>3
    <2>2. \A x \in Objects : count'[x] \in Int /\ held'[x] \in Nat
        BY <2>1, <1>12
    <2>3. count' = [x \in Objects |-> count'[x]] /\ held' = [x \in Objects |-> held'[x]]
        BY <1>1
    <2>. QED BY <2>1, <2>2, <2>3
<1>14. \A x \in A : count'[x] > 0
    <2> TAKE x \in A
    <2>1. x \in Objects /\ x # o /\ count[x] > 0
        BY <1>2, <1>3, <1>4 DEF Quiet, InUse
    <2>2. count'[x] = count[x] + shared(x) /\ count[x] \in Int /\ shared(x) \in Nat
        BY <2>1, <1>4, <1>11, <1>12
    <2>. QED BY <2>1, <2>2
<1>15. Added(kind, slot, count, held, kind', slot', count', held', o, k, arg)
    <2> HIDE DEF A
    <2>1. k # "layer" /\ k \in Kinds
        OBVIOUS
    <2>. QED BY <2>1, <1>1, <1>3, <1>9, <1>10, <1>12, <1>13, <1>14 DEF Added, A
<1>16. Quiet(kind', slot', count', held', globals', NoDrops)
    BY <1>1, <1>2, <1>15, OneMore
<1>. QED BY <1>1, <1>16, Finished

\* One field more.
Fresh(P, f) == P \subseteq FieldNames /\ f \in FieldNames /\ f \notin P
\* One more field counts if its pointer leads to x.
LEMMA AmongOneMore ==
    \A P, f, r, x : Fresh(P, f) =>
        Among(P \cup {f}, r, x) = Among(P, r, x) + Is(r[f], x) /\ Among(P, r, x) \in Nat
<1> TAKE P, f, r, x
<1> HAVE Fresh(P, f)
<1>0. P \subseteq FieldNames /\ f \in FieldNames \ P
    BY DEF Fresh
<1> DEFINE U == {n \in P : r[n] = x}
<1>1. IsFiniteSet(U) /\ f \notin U
    <2>1. U \in SUBSET FieldNames /\ f \notin U
        BY <1>0
    <2> HIDE DEF U
    <2>2. IsFiniteSet(U)
        BY <2>1, FewFields, FS_Subset
    <2>. QED BY <2>1, <2>2
<1>2. Cardinality(U) \in Nat /\ Among(P, r, x) = Cardinality(U)
    BY <1>1, FS_CardinalityType DEF Among
<1>3. CASE r[f] = x
    <2>1. {n \in P \cup {f} : r[n] = x} = U \cup {f}
        BY <1>3
    <2> HIDE DEF U
    <2>2. Cardinality(U \cup {f}) = Cardinality(U) + 1
        BY <1>1, FS_AddElement
    <2>. QED BY <2>1, <2>2, <1>2, <1>3 DEF Among, Is
<1>4. CASE r[f] # x
    <2>1. {n \in P \cup {f} : r[n] = x} = U
        BY <1>4
    <2> HIDE DEF U
    <2>2. Among(P \cup {f}, r, x) = Cardinality(U)
        BY <2>1 DEF Among
    <2>3. Is(r[f], x) = 0
        BY <1>4 DEF Is
    <2>. QED BY <2>2, <2>3, <1>2
<1>. QED BY <1>3, <1>4

\* The pointers of the fields p, q and u.
Trio(p, q, u) == {p, q, u}
Three(p, q, u) == {p, q, u} \subseteq FieldNames /\ p # q /\ p # u /\ q # u
\* The pointers of three fields, one by one.
LEMMA AmongThree ==
    \A p, q, u, r, x : Three(p, q, u) =>
        Among(Trio(p, q, u), r, x) = Is(r[p], x) + Is(r[q], x) + Is(r[u], x)
<1> TAKE p, q, u, r, x
<1> HAVE Three(p, q, u)
<1>0. Fresh({}, p) /\ Fresh({p}, q) /\ Fresh({p, q}, u)
    BY DEF Fresh, Three
<1>1. Among({}, r, x) = 0
    <2>1. {n \in {} : r[n] = x} = {}
        OBVIOUS
    <2>. QED BY <2>1, FS_EmptySet DEF Among
<1>2. Among({} \cup {p}, r, x) = Among({}, r, x) + Is(r[p], x)
    BY <1>0, AmongOneMore
<1>3. Among({p} \cup {q}, r, x) = Among({p}, r, x) + Is(r[q], x)
    BY <1>0, AmongOneMore
<1>4. Among({p, q} \cup {u}, r, x) = Among({p, q}, r, x) + Is(r[u], x)
    BY <1>0, AmongOneMore
<1>5. {} \cup {p} = {p} /\ {p} \cup {q} = {p, q} /\ {p, q} \cup {u} = Trio(p, q, u)
    BY DEF Trio
<1>6. Is(r[p], x) \in Nat
    BY DEF Is
<1>7. Among({p}, r, x) = Is(r[p], x)
    BY <1>1, <1>2, <1>5, <1>6
<1>. QED BY <1>3, <1>4, <1>5, <1>7

\* The pointers of a type.
TypeRecord(r) == Names(r) = {"type_spec", "typemap", "typeobj"}
\* They are counted one by one.
LEMMA TypeSlots ==
    \A r, x : TypeRecord(r) =>
        Slots(r, x) = Is(r.type_spec, x) + Is(r.typemap, x) + Is(r.typeobj, x)
<1> TAKE r, x
<1> HAVE TypeRecord(r)
<1>1. {"type_spec", "typemap", "typeobj"} \subseteq FieldNames
    <2>1. Fields("type") = {"type_spec", "typemap"} \cup {"typeobj"}
        BY DEF Fields, Typeobj, Struct, Values
    <2>2. Fields("type") \subseteq FieldNames
        BY AllFields DEF Kinds, Values
    <2>. QED BY <2>1, <2>2
<1>2. Three("type_spec", "typemap", "typeobj")
    BY <1>1 DEF Three
<1>3. Among(Trio("type_spec", "typemap", "typeobj"), r, x)
          = Is(r["type_spec"], x) + Is(r["typemap"], x) + Is(r["typeobj"], x)
    BY <1>2, AmongThree
<1>4. Slots(r, x) = Among(Trio("type_spec", "typemap", "typeobj"), r, x)
    BY DEF Slots, Among, Names, TypeRecord, Trio
<1>. QED BY <1>3, <1>4

\* The fields of types, layers and maps.
LEMMA SomeFields ==
    /\ Fields("type") = {"type_spec", "typemap", "typeobj"}
    /\ Fields("layer") = {"map", "parent"} /\ Fields("map") = {"e1", "e2"}
    /\ Fields("function") = {"parameter_list", "code", "layer", "typeobj"}
    /\ Fields("def") = {"type_spec", "parameter_list", "body"}
    /\ Fields("spec") = {"type_def"}
    /\ {"type", "layer", "map", "function", "def", "spec"} \subseteq Kinds
<1>1. Fields("layer") = {"map", "parent"} /\ Fields("map") = {"e1", "e2"}
    BY OtherFields
<1>2. "type" \in Values /\ "function" \in Values /\ "def" \in Trees /\ "spec" \in Trees
    BY DEF Values, Trees
<1>3. /\ Fields("type") = Struct["type"] \cup {"typeobj"}
      /\ Fields("function") = Struct["function"] \cup {"typeobj"}
    BY <1>2, ValueFields
<1>4. Fields("def") = Struct["def"] /\ Fields("spec") = Struct["spec"]
    BY <1>2, TreeFields
<1>5. /\ Struct["type"] = {"type_spec", "typemap"}
      /\ Struct["function"] = {"parameter_list", "code", "layer"}
      /\ Struct["def"] = {"type_spec", "parameter_list", "body"}
      /\ Struct["spec"] = {"type_def"}
    BY DEF Struct
<1>6. Fields("type") = {"type_spec", "typemap", "typeobj"}
    BY <1>3, <1>5
<1>7. Fields("function") = {"parameter_list", "code", "layer", "typeobj"}
    BY <1>3, <1>5
<1>8. Fields("def") = {"type_spec", "parameter_list", "body"} /\ Fields("spec") = {"type_def"}
    BY <1>4, <1>5
<1>. QED BY <1>1, <1>2, <1>6, <1>7, <1>8 DEF Kinds

\* A type known only by its identifier.
LEMMA TypeFromIdKeeps ==
    ASSUME HeapInv, NEW o \in Cells, TypeFromId(o)
    PROVE  HeapInv'
<1> DEFINE r == [typeobj |-> globals.typeType, type_spec |-> NULL, typemap |-> NULL]
           t == globals.typeType
           A == InUse(kind)
<1>1. /\ work = <<>> /\ Running /\ Unused({o})
      /\ kind' = [kind EXCEPT ![o] = "type"] /\ slot' = [slot EXCEPT ![o] = r]
      /\ count' = [count EXCEPT ![o] = 1, ![t] = @ + 1]
      /\ held' = [held EXCEPT ![o] = 1]
      /\ UNCHANGED <<globals, work, crashed, program>>
    BY DEF TypeFromId, Calling
<1>2. Quiet(kind, slot, count, held, globals, NoDrops)
    BY <1>1, Before
<1>3. o \in Objects /\ o \notin A
    BY <1>1, UnusedCell
<1>4. /\ t \in A /\ t \in Objects /\ t # o
      /\ \A x \in Objects : held[x] \in Nat /\ count[x] \in Int
    BY <1>1, <1>2, <1>3, GlobalsInUse DEF Running
<1>5. Names(r) = {"type_spec", "typemap", "typeobj"}
    BY DEF Names
<1>6. r \in [Fields("type") -> A \cup {NULL}]
    BY <1>4, SomeFields
<1>7. \A f \in Names(r) : r[f] = NULL => f \in Optional
    BY <1>5 DEF Optional
<1>8. r.type_spec = NULL /\ r.typemap = NULL /\ r.typeobj = t
    OBVIOUS
<1> HIDE DEF r
<1>9. \A x \in Objects : Slots(r, x) = Is(t, x)
    <2> TAKE x \in Objects
    <2>1. Slots(r, x) = Is(NULL, x) + Is(NULL, x) + Is(t, x)
        BY <1>5, <1>8, TypeSlots DEF TypeRecord
    <2>2. Is(NULL, x) = 0 /\ Is(t, x) \in {0, 1}
        BY TheObjects DEF Is
    <2>. QED BY <2>1, <2>2
<1>10. count \in [Objects -> Int] /\ held \in [Objects -> Nat]
    BY <1>2 DEF Quiet, WellTyped
<1>11. count' \in [Objects -> Int] /\ held' \in [Objects -> Nat] /\ count'[o] = 1 /\ held'[o] = 1
    BY <1>1, <1>3, <1>4, <1>10
<1>12. ASSUME NEW x \in Objects, x # o
       PROVE  count'[x] = count[x] + Is(t, x) /\ held'[x] = held[x] /\ Is(t, x) \in Nat
    <2>1. held'[x] = held[x] /\ count'[x] = IF x = t THEN count[x] + 1 ELSE count[x]
        BY <1>1, <1>3, <1>4, <1>10, <1>12
    <2>. QED BY <2>1, <1>4 DEF Is
<1>13. \A x \in A : count'[x] > 0
    <2> TAKE x \in A
    <2>1. x \in Objects /\ x # o /\ count[x] > 0
        BY <1>2, <1>3 DEF Quiet, InUse
    <2>. QED BY <2>1, <1>4, <1>12
<1>14. Added(kind, slot, count, held, kind', slot', count', held', o, "type", r)
    <2>1. \A x \in Objects : x # o => /\ count'[x] - held'[x] = (count[x] - held[x]) + Slots(r, x)
                                      /\ held'[x] <= held[x]
                                      /\ held[x] > 0 => held'[x] > 0
        BY <1>4, <1>9, <1>12
    <2>2. "type" \in Kinds /\ "type" # "layer"
        BY SomeFields
    <2> HIDE DEF A
    <2>. QED BY <2>1, <2>2, <1>1, <1>3, <1>6, <1>7, <1>11, <1>13 DEF Added, A
<1>15. Quiet(kind', slot', count', held', globals', NoDrops)
    BY <1>1, <1>2, <1>14, OneMore
<1>. QED BY <1>1, <1>15, Finished


(***************************************************************************)
(* Calls that take or drop references and touch no pointer.                *)
(***************************************************************************)
\* One reference more to o, or one less.
More(c, o) == [x \in Objects |-> c[x] + Is(o, x)]
Less(c, o) == [x \in Objects |-> c[x] - Is(o, x)]
\* Both are what ++ and -- do.
LEMMA MoreLess ==
    \A o \in Objects :
        /\ \A c \in [Objects -> Int] : /\ [c EXCEPT ![o] = @ + 1] = More(c, o)
                                       /\ More(c, o) \in [Objects -> Int]
        /\ \A h \in [Objects -> Nat] :
              /\ [h EXCEPT ![o] = @ + 1] = More(h, o) /\ More(h, o) \in [Objects -> Nat]
              /\ [h EXCEPT ![o] = @ - 1] = Less(h, o)
              /\ h[o] > 0 => Less(h, o) \in [Objects -> Nat]
<1> TAKE o \in Objects
<1>1. \A x : Is(o, x) \in {0, 1} /\ (Is(o, x) = 1 <=> x = o)
    BY DEF Is
<1>2. ASSUME NEW c \in [Objects -> Int]
      PROVE  [c EXCEPT ![o] = @ + 1] = More(c, o) /\ More(c, o) \in [Objects -> Int]
    <2>1. \A x \in Objects : [c EXCEPT ![o] = @ + 1][x] = c[x] + Is(o, x) /\ c[x] + Is(o, x) \in Int
        BY <1>1
    <2>. QED BY <2>1 DEF More
<1>3. ASSUME NEW h \in [Objects -> Nat]
      PROVE  /\ [h EXCEPT ![o] = @ + 1] = More(h, o) /\ More(h, o) \in [Objects -> Nat]
             /\ [h EXCEPT ![o] = @ - 1] = Less(h, o)
             /\ h[o] > 0 => Less(h, o) \in [Objects -> Nat]
    <2>1. \A x \in Objects : [h EXCEPT ![o] = @ + 1][x] = h[x] + Is(o, x) /\ h[x] + Is(o, x) \in Nat
        BY <1>1
    <2>2. \A x \in Objects : [h EXCEPT ![o] = @ - 1][x] = h[x] - Is(o, x)
        BY <1>1
    <2>3. h[o] > 0 => \A x \in Objects : h[x] - Is(o, x) \in Nat
        BY <1>1
    <2>. QED BY <2>1, <2>2, <2>3 DEF More, Less
<1>. QED BY <1>2, <1>3

\* What a quiet heap counts are numbers.
LEMMA QuietTypes ==
    ASSUME NEW K, NEW s, NEW c, NEW h, NEW g, NEW d, Quiet(K, s, c, h, g, d)
    PROVE  /\ c \in [Objects -> Int] /\ h \in [Objects -> Nat] /\ d \in [Objects -> Nat]
           /\ g \in [default : Objects \cup {NULL}, current : Objects \cup {NULL},
                     typeType : Objects \cup {NULL}]
           /\ WellTyped(K, s, c, h, g) /\ Layers(InUse(K), K, s, g)
           /\ \A x \in InUse(K) : c[x] > 0
           /\ \A x \in Objects : h[x] + GlobalCount(g, x) + d[x] > 0 => x \in InUse(K)
<1>1. /\ WellTyped(K, s, c, h, g) /\ Layers(InUse(K), K, s, g) /\ d \in [Objects -> Nat]
      /\ Safe(InUse(K), {}, s, h, g)
    BY DEF Quiet, Sound
<1>2. c \in [Objects -> Int] /\ h \in [Objects -> Nat]
    BY <1>1 DEF WellTyped
<1>3. \A x \in InUse(K) : c[x] > 0
    BY DEF Quiet, InUse
<1>4. ASSUME NEW x \in Objects, h[x] + GlobalCount(g, x) + d[x] > 0 PROVE x \in InUse(K)
    <2>1. h[x] \in Nat /\ GlobalCount(g, x) \in Nat /\ d[x] \in Nat
        BY <1>1, <1>2, GlobalCountType
    <2>2. h[x] + GlobalCount(g, x) > 0 \/ d[x] > 0
        BY <2>1, <1>4
    <2>. QED BY <2>2, <1>1 DEF Safe, Quiet
<1>. QED BY <1>1, <1>2, <1>3, <1>4 DEF WellTyped

\* The program takes one more reference to what it reaches (refcount.c).
LEMMA AddReferenceKeeps ==
    ASSUME HeapInv, NEW o \in Objects, AddReference(o)
    PROVE  HeapInv'
<1>1. /\ work = <<>> /\ kind[o] # "unused"
      /\ held' = [held EXCEPT ![o] = @ + 1] /\ count' = [count EXCEPT ![o] = @ + 1]
      /\ UNCHANGED <<kind, slot, globals, work, crashed, program>>
    BY DEF AddReference, Calling, Live
<1>2. Quiet(kind, slot, count, held, globals, NoDrops)
    BY <1>1, Before
<1>3. /\ count \in [Objects -> Int] /\ held \in [Objects -> Nat] /\ NoDrops \in [Objects -> Nat]
      /\ o \in InUse(kind)
    BY <1>1, <1>2, QuietTypes DEF InUse
<1>4. count' = More(count, o) /\ held' = More(held, o)
    BY <1>1, <1>3, MoreLess
<1>5. ASSUME NEW x \in Objects
      PROVE  /\ count'[x] = count[x] + Is(o, x) /\ held'[x] = held[x] + Is(o, x)
             /\ count[x] \in Int /\ held[x] \in Nat /\ Is(o, x) \in {0, 1}
             /\ Is(o, x) = 1 => x \in InUse(kind)
             /\ GlobalCount(globals, x) \in Nat /\ NoDrops[x] \in Nat
    BY <1>3, <1>4, GlobalCountType DEF More, Is
<1>6. count' \in [Objects -> Int] /\ held' \in [Objects -> Nat]
    BY <1>3, <1>4, MoreLess
<1>7. Recounted(kind, count, held, globals, NoDrops, count', held', globals, NoDrops)
    <2>1. /\ \A x \in InUse(kind) : count'[x] > 0
          /\ \A x \in Objects : held'[x] + GlobalCount(globals, x) + NoDrops[x] > 0 => x \in InUse(kind)
        <3>1. ASSUME NEW x \in InUse(kind) PROVE count'[x] > 0
            <4>1. x \in Objects /\ count[x] > 0
                BY <1>2, QuietTypes DEF InUse
            <4>. QED BY <4>1, <1>5
        <3>2. ASSUME NEW x \in Objects, held'[x] + GlobalCount(globals, x) + NoDrops[x] > 0
              PROVE  x \in InUse(kind)
            <4>1. held[x] + GlobalCount(globals, x) + NoDrops[x] > 0 \/ Is(o, x) = 1
                BY <1>5, <3>2
            <4>. QED BY <4>1, <1>2, <1>5, QuietTypes
        <3>. QED BY <3>1, <3>2
    <2>2. \A x \in Objects :
              /\ count'[x] - (held'[x] + GlobalCount(globals, x) + NoDrops[x])
                     = count[x] - (held[x] + GlobalCount(globals, x) + NoDrops[x])
              /\ held[x] + GlobalCount(globals, x) + NoDrops[x] > 0
                     => held'[x] + GlobalCount(globals, x) + NoDrops[x] > 0
        BY <1>5
    <2>3. Layers(InUse(kind), kind, slot, globals)
        BY <1>2, QuietTypes
    <2>4. globals \in [default : Objects \cup {NULL}, current : Objects \cup {NULL},
                       typeType : Objects \cup {NULL}]
        BY <1>2, QuietTypes
    <2>. QED BY <1>3, <1>6, <2>1, <2>2, <2>3, <2>4 DEF Recounted, Layers
<1>8. Quiet(kind, slot, count', held', globals, NoDrops)
    BY <1>2, <1>7, OnlyCounts
<1>. QED BY <1>1, <1>8, Finished

\* The program gives one up, and the drop is to do.
LEMMA DelReferenceKeeps ==
    ASSUME HeapInv, NEW o \in Objects, DelReference(o)
    PROVE  HeapInv'
<1>1. /\ work = <<>> /\ held[o] > 0 /\ held' = [held EXCEPT ![o] = @ - 1] /\ AfterDrop(o)
      /\ UNCHANGED <<kind, slot, count, globals, crashed, program>>
    BY DEF DelReference, Calling, Holding
<1>2. Quiet(kind, slot, count, held, globals, NoDrops)
    BY <1>1, Before
<1>3. count \in [Objects -> Int] /\ held \in [Objects -> Nat] /\ NoDrops \in [Objects -> Nat]
    BY <1>2, QuietTypes
<1>4. held' = Less(held, o) /\ held' \in [Objects -> Nat]
    BY <1>1, <1>3, MoreLess
<1>5. Loose(work', Once(o)) /\ Once(o) \in [Objects -> Nat]
    BY <1>1, DropOwed
<1>6. ASSUME NEW x \in Objects
      PROVE  held'[x] + GlobalCount(globals, x) + Once(o)[x]
                 = held[x] + GlobalCount(globals, x) + NoDrops[x]
    <2>1. held'[x] = held[x] - Is(o, x) /\ Once(o)[x] = Is(o, x) /\ NoDrops[x] = 0
        BY <1>4 DEF Less, Once, NoDrops
    <2>2. held[x] \in Nat /\ Is(o, x) \in Nat /\ GlobalCount(globals, x) \in Nat
        BY <1>3, GlobalCountType DEF Is
    <2>. QED BY <2>1, <2>2
<1>7. Recounted(kind, count, held, globals, NoDrops, count', held', globals, Once(o))
    <2>1. globals \in [default : Objects \cup {NULL}, current : Objects \cup {NULL},
                       typeType : Objects \cup {NULL}]
        BY <1>2, QuietTypes
    <2>2. \A x \in InUse(kind) : count'[x] > 0
        BY <1>1, <1>2, QuietTypes
    <2>3. \A x \in Objects : held[x] + GlobalCount(globals, x) + NoDrops[x] > 0 => x \in InUse(kind)
        BY <1>2, QuietTypes
    <2>4. Layers(InUse(kind), kind, slot, globals)
        BY <1>2, QuietTypes
    <2>. QED BY <1>1, <1>3, <1>4, <1>5, <1>6, <2>1, <2>2, <2>3, <2>4 DEF Recounted, Layers
<1>8. Quiet(kind, slot, count', held', globals, Once(o))
    BY <1>2, <1>7, OnlyCounts
<1>9. crashed' = "no" /\ program' \in Programs
    BY <1>1 DEF HeapInv
<1>. QED BY <1>1, <1>5, <1>8, <1>9, After

\* The current layer is another, and the old one is dropped (layer.c).
LEMMA SetCurrentLayerKeeps ==
    ASSUME HeapInv, NEW l \in Objects, SetCurrentLayer(l)
    PROVE  HeapInv'
<1> DEFINE old == globals.current
<1>1. /\ work = <<>> /\ Running /\ held[l] > 0 /\ kind[l] = "layer"
      /\ globals' = [globals EXCEPT !.current = l] /\ count' = [count EXCEPT ![l] = @ + 1]
      /\ AfterDrop(old)
      /\ UNCHANGED <<kind, slot, held, crashed, program>>
    BY DEF SetCurrentLayer, Calling, Holding
<1>2. Quiet(kind, slot, count, held, globals, NoDrops)
    BY <1>1, Before
<1>3. /\ count \in [Objects -> Int] /\ held \in [Objects -> Nat] /\ NoDrops \in [Objects -> Nat]
      /\ l \in InUse(kind) /\ old \in Objects
      /\ globals \in [default : Objects \cup {NULL}, current : Objects \cup {NULL},
                      typeType : Objects \cup {NULL}]
    BY <1>1, <1>2, QuietTypes, GlobalsInUse DEF Running, InUse
<1>4. count' = More(count, l) /\ count' \in [Objects -> Int]
    BY <1>1, <1>3, MoreLess
<1>5. Loose(work', Once(old)) /\ Once(old) \in [Objects -> Nat]
    BY <1>1, <1>3, DropOwed
<1>6. /\ globals' \in [default : Objects \cup {NULL}, current : Objects \cup {NULL},
                       typeType : Objects \cup {NULL}]
      /\ globals'.default = globals.default /\ globals'.current = l
      /\ globals'.typeType = globals.typeType
    BY <1>1, <1>3
<1> HIDE DEF old
<1>7. ASSUME NEW x \in Objects
      PROVE  /\ count'[x] = count[x] + Is(l, x) /\ count[x] \in Int /\ Is(l, x) \in {0, 1}
             /\ held'[x] + GlobalCount(globals', x) + Once(old)[x]
                  = held[x] + GlobalCount(globals, x) + NoDrops[x] + Is(l, x)
             /\ held[x] + GlobalCount(globals, x) + NoDrops[x] \in Nat
             /\ Is(l, x) = 1 => x = l
    <2>1. Once(old)[x] = Is(old, x) /\ NoDrops[x] = 0 /\ held'[x] = held[x]
        BY <1>1 DEF Once, NoDrops
    <2>2. /\ GlobalCount(globals', x) = Is(globals.default, x) + Is(l, x) + Is(globals.typeType, x)
          /\ GlobalCount(globals, x) = Is(globals.default, x) + Is(old, x) + Is(globals.typeType, x)
        BY <1>6 DEF GlobalCount, old
    <2>3. /\ held[x] \in Nat /\ Is(l, x) \in {0, 1} /\ Is(old, x) \in {0, 1}
          /\ Is(globals.default, x) \in {0, 1} /\ Is(globals.typeType, x) \in {0, 1}
          /\ Is(l, x) = 1 => x = l
        BY <1>3 DEF Is
    <2>4. count'[x] = count[x] + Is(l, x) /\ count[x] \in Int
        BY <1>3, <1>4 DEF More
    <2>. QED BY <2>1, <2>2, <2>3, <2>4
<1>8. Recounted(kind, count, held, globals, NoDrops, count', held', globals', Once(old))
    <2>1. ASSUME NEW x \in InUse(kind) PROVE count'[x] > 0
        <3>1. x \in Objects /\ count[x] > 0
            BY <1>2, QuietTypes DEF InUse
        <3>. QED BY <3>1, <1>7
    <2>2. ASSUME NEW x \in Objects, held'[x] + GlobalCount(globals', x) + Once(old)[x] > 0
          PROVE  x \in InUse(kind)
        <3>1. held[x] + GlobalCount(globals, x) + NoDrops[x] > 0 \/ x = l
            BY <1>7, <2>2
        <3>. QED BY <3>1, <1>2, <1>3, QuietTypes
    <2>3. ASSUME NEW x \in Objects
          PROVE  /\ count'[x] - (held'[x] + GlobalCount(globals', x) + Once(old)[x])
                       = count[x] - (held[x] + GlobalCount(globals, x) + NoDrops[x])
                 /\ held[x] + GlobalCount(globals, x) + NoDrops[x] > 0
                       => held'[x] + GlobalCount(globals', x) + Once(old)[x] > 0
        <3> DEFINE a == held[x] + GlobalCount(globals, x) + NoDrops[x]
                   b == held'[x] + GlobalCount(globals', x) + Once(old)[x]
                   i == Is(l, x)
                   cx == count[x]
                   c2x == count'[x]
        <3>1. b = a + i /\ a \in Nat /\ i \in {0, 1} /\ c2x = cx + i /\ cx \in Int
            BY <1>7
        <3> HIDE DEF a, b, i, cx, c2x
        <3>2. c2x - b = cx - a /\ (a > 0 => b > 0)
            BY <3>1
        <3>. QED BY <3>2 DEF a, b, cx, c2x
    <2>4. Layers(InUse(kind), kind, slot, globals)
        BY <1>2, QuietTypes
    <2>5. globals'.default # NULL /\ globals'.current \in Objects /\ kind[globals'.current] = "layer"
          /\ globals'.typeType \in Objects
        BY <1>1, <1>6, <2>4 DEF Running, Layers
    <2>. QED BY <1>1, <1>3, <1>4, <1>5, <1>6, <2>1, <2>2, <2>3, <2>5 DEF Recounted
<1>9. Quiet(kind, slot, count', held', globals', Once(old))
    BY <1>2, <1>8, OnlyCounts
<1>10. crashed' = "no" /\ program' \in Programs
    BY <1>1 DEF HeapInv
<1>. QED BY <1>1, <1>5, <1>9, <1>10, After

\* The globals are dropped (Minimal_finalise).
LEMMA FinaliseKeeps ==
    ASSUME HeapInv, Finalise
    PROVE  HeapInv'
<1> DEFINE a == globals.typeType
           b == globals.default
           e == globals.current
           d1 == [x \in Objects |-> NoDrops[x] + Once(e)[x]]
           d2 == [x \in Objects |-> d1[x] + Once(b)[x]]
           d3 == [x \in Objects |-> d2[x] + Once(a)[x]]
<1>1. /\ work = <<>> /\ Running
      /\ globals' = [default |-> NULL, current |-> NULL, typeType |-> NULL]
      /\ work' = <<Frame(Drop(a), NoSet, {}), Frame(Drop(b), NoSet, {}), Frame(Drop(e), NoSet, {})>>
      /\ UNCHANGED <<kind, slot, count, held, crashed, program>>
    BY DEF Finalise, Calling
<1>2. Quiet(kind, slot, count, held, globals, NoDrops)
    BY <1>1, Before
<1>3. /\ count \in [Objects -> Int] /\ held \in [Objects -> Nat]
      /\ a \in Objects /\ b \in Objects /\ e \in Objects
    BY <1>1, <1>2, QuietTypes, GlobalsInUse DEF Running, InUse
<1>4. /\ Drop(a) = Once(a) /\ Drop(b) = Once(b) /\ Drop(e) = Once(e)
      /\ Once(a) \in [Objects -> Nat] /\ Once(b) \in [Objects -> Nat] /\ Once(e) \in [Objects -> Nat]
    BY <1>3, DropIs
<1>5. Loose(work', d3)
    <2>1. Loose(<<Frame(Once(e), NoSet, {})>> \o <<>>, d1)
        BY <1>4, NoDropsOwed, LooseOnTop
    <2>2. Loose(<<Frame(Once(b), NoSet, {})>> \o (<<Frame(Once(e), NoSet, {})>> \o <<>>), d2)
        BY <2>1, <1>4, LooseOnTop
    <2>3. Loose(<<Frame(Once(a), NoSet, {})>>
                  \o (<<Frame(Once(b), NoSet, {})>> \o (<<Frame(Once(e), NoSet, {})>> \o <<>>)), d3)
        BY <2>2, <1>4, LooseOnTop
    <2>4. work' = <<Frame(Once(a), NoSet, {})>>
                  \o (<<Frame(Once(b), NoSet, {})>> \o (<<Frame(Once(e), NoSet, {})>> \o <<>>))
        BY <1>1, <1>4
    <2>. QED BY <2>3, <2>4
<1>6. ASSUME NEW x \in Objects
      PROVE  /\ held'[x] + GlobalCount(globals', x) + d3[x] = held[x] + GlobalCount(globals, x) + NoDrops[x]
             /\ d3[x] \in Nat
    <2>1. NoDrops[x] = 0 /\ d3[x] = Is(e, x) + Is(b, x) + Is(a, x) /\ held'[x] = held[x]
        <3>1. Is(e, x) \in Nat /\ Is(b, x) \in Nat /\ Is(a, x) \in Nat
            BY DEF Is
        <3>2. d3[x] = ((NoDrops[x] + Once(e)[x]) + Once(b)[x]) + Once(a)[x]
            OBVIOUS
        <3>. QED BY <1>1, <3>1, <3>2 DEF Once, NoDrops
    <2>2. GlobalCount(globals', x) = 0
        <3>1. Is(NULL, x) = 0
            BY TheObjects DEF Is
        <3>. QED BY <3>1, <1>1 DEF GlobalCount
    <2>3. GlobalCount(globals, x) = Is(b, x) + Is(e, x) + Is(a, x)
        BY DEF GlobalCount
    <2>4. Is(e, x) \in Nat /\ Is(b, x) \in Nat /\ Is(a, x) \in Nat /\ held[x] \in Nat
        BY <1>3 DEF Is
    <2> HIDE DEF a, b, e, d3
    <2>. QED BY <2>1, <2>2, <2>3, <2>4
<1>7. d3 \in [Objects -> Nat]
    BY <1>6
<1> HIDE DEF a, b, e, d1, d2, d3
<1>8. Recounted(kind, count, held, globals, NoDrops, count', held', globals', d3)
    <2>1. /\ globals' \in [default : Objects \cup {NULL}, current : Objects \cup {NULL},
                           typeType : Objects \cup {NULL}]
          /\ globals'.default = NULL /\ globals'.current = NULL /\ globals'.typeType = NULL
        BY <1>1
    <2>2. \A x \in InUse(kind) : count'[x] > 0
        BY <1>1, <1>2, QuietTypes
    <2>3. \A x \in Objects : held[x] + GlobalCount(globals, x) + NoDrops[x] > 0 => x \in InUse(kind)
        BY <1>2, QuietTypes
    <2>. QED BY <1>1, <1>3, <1>6, <1>7, <2>1, <2>2, <2>3 DEF Recounted
<1>9. Quiet(kind, slot, count', held', globals', d3)
    BY <1>2, <1>8, OnlyCounts
<1>10. crashed' = "no" /\ program' \in Programs
    BY <1>1 DEF HeapInv
<1>. QED BY <1>1, <1>5, <1>9, <1>10, After

(***************************************************************************)
(* Calls that overwrite one pointer.                                       *)
(***************************************************************************)
\* The new value is counted or was the caller's, the old one is owed a drop, and
\* what the caller gave is still reached.
LEMMA StoreKeeps ==
    ASSUME HeapInv, work = <<>>, NEW o \in InUse(kind), NEW f \in Names(slot[o]),
           NEW v \in InUse(kind) \cup {NULL}, v = NULL => f \in Optional, f # "map",
           slot' = [slot EXCEPT ![o][f] = v], AfterDrop(slot[o][f]),
           UNCHANGED <<kind, globals, crashed, program>>,
           count' \in [Objects -> Int], held' \in [Objects -> Nat],
           \A x \in Objects : count'[x] - held'[x] = (count[x] - held[x]) + Is(v, x),
           \A x \in InUse(kind) : count'[x] > 0,
           \A x \in Objects : held'[x] <= held[x],
           Kept(kind, slot', held, held', globals, Once(slot[o][f]))
    PROVE  HeapInv'
<1> DEFINE d == Once(slot[o][f])
<1>1. Quiet(kind, slot, count, held, globals, NoDrops)
    BY Before
<1>2. WellTyped(kind, slot, count, held, globals) /\ o \in Objects
    BY <1>1, QuietTypes DEF InUse
<1>3. slot[o][f] \in Objects \cup {NULL}
    BY <1>2, FieldsOf
<1>4. Loose(work', d) /\ d \in [Objects -> Nat]
    BY <1>3, DropOwed
<1>5. d = [x \in Objects |-> NoDrops[x] + Is(slot[o][f], x)]
    <2>1. \A x \in Objects : NoDrops[x] + Is(slot[o][f], x) = Is(slot[o][f], x)
        BY DEF NoDrops, Is
    <2>. QED BY <2>1 DEF Once
<1>6. Overwritten(slot, slot', o, f, v)
    BY <1>2, Overwrite
<1> HIDE DEF d
<1>7. Rewritten(kind, slot, count, held, NoDrops, slot', count', held', d, o, f, v)
    BY <1>5, <1>6 DEF Rewritten
<1>8. Kept(kind, slot', held, held', globals, d)
    BY DEF d
<1>9. Quiet(kind, slot', count', held', globals, d)
    BY <1>1, <1>7, <1>8, OneSlot
<1>10. crashed' = "no" /\ program' \in Programs
    BY DEF HeapInv
<1>. QED BY <1>4, <1>9, <1>10, After

\* A value gets another type, and the old one is dropped after (values.c).
LEMMA SetTypeKeeps ==
    ASSUME HeapInv, NEW v \in Objects, NEW type \in Objects, SetType(v, type)
    PROVE  HeapInv'
<1>1. /\ work = <<>> /\ held[v] > 0 /\ kind[v] \in Values /\ held[type] > 0 /\ kind[type] = "type"
      /\ slot' = [slot EXCEPT ![v]["typeobj"] = type] /\ count' = [count EXCEPT ![type] = @ + 1]
      /\ AfterDrop(slot[v]["typeobj"])
      /\ UNCHANGED <<kind, held, globals, crashed, program>>
    BY DEF SetType, Calling, Holding
<1>2. Quiet(kind, slot, count, held, globals, NoDrops)
    BY <1>1, Before
<1>3. /\ v \in InUse(kind) /\ type \in InUse(kind)
      /\ count \in [Objects -> Int] /\ held \in [Objects -> Nat]
      /\ WellTyped(kind, slot, count, held, globals)
    BY <1>1, <1>2, GlobalsInUse, QuietTypes
<1>4. "typeobj" \in Names(slot[v]) /\ type # NULL
    <2>1. "typeobj" \in Fields(kind[v]) /\ kind[v] # "unused"
        BY <1>1, KindsApart, ValueFields
    <2>. QED BY <2>1, <1>3, TheObjects DEF WellTyped, Names
<1>5. count' = More(count, type) /\ count' \in [Objects -> Int]
    BY <1>1, <1>3, MoreLess
<1>6. ASSUME NEW x \in Objects
      PROVE  /\ count'[x] - held'[x] = (count[x] - held[x]) + Is(type, x) /\ held'[x] <= held[x]
             /\ count'[x] >= count[x] /\ count[x] \in Int
    <2>1. /\ count'[x] = count[x] + Is(type, x) /\ held'[x] = held[x] /\ Is(type, x) \in {0, 1}
          /\ count[x] \in Int /\ held[x] \in Nat
        BY <1>1, <1>3, <1>5 DEF More, Is
    <2>. QED BY <2>1
<1>7. ASSUME NEW x \in InUse(kind) PROVE count'[x] > 0
    <2>1. x \in Objects /\ count[x] > 0
        BY <1>2, QuietTypes DEF InUse
    <2>. QED BY <2>1, <1>6, <1>5
<1>8. Kept(kind, slot', held, held', globals, Once(slot[v]["typeobj"]))
    <2> DEFINE d == Once(slot[v]["typeobj"])
    <2>1. \A x \in Objects : held[x] \in Nat /\ GlobalCount(globals, x) \in Nat /\ d[x] \in Nat
        BY <1>3, GlobalCountType DEF Once, Is
    <2> HIDE DEF d
    <2>2. ASSUME NEW x \in Objects, held[x] > 0 PROVE held'[x] + GlobalCount(globals, x) + d[x] > 0
        BY <1>1, <2>1, <2>2
    <2>3. Kept(kind, slot', held, held', globals, d)
        BY <2>2 DEF Kept, Shut
    <2>. QED BY <2>3 DEF d
<1>9. held' \in [Objects -> Nat] /\ "typeobj" # "map"
    BY <1>1, <1>3
<1>. QED BY <1>1, <1>3, <1>4, <1>5, <1>6, <1>7, <1>8, <1>9, StoreKeeps

\* What the caller gives up for a pointer of an object it still reaches is still
\* reached: the pointer leads there.
Stays(K, t, h, g, d, o) == \A S \in SUBSET Objects : Shut(S, InUse(K), {}, t, h, g, d) => o \in S
\* Whatever the program held it still reaches.
LEMMA GivenStaysReached ==
    ASSUME NEW K, NEW t, NEW h \in [Objects -> Nat], NEW h2 \in [Objects -> Nat], NEW g,
           NEW d \in [Objects -> Nat], NEW o \in InUse(K), NEW f \in Names(t[o]),
           NEW v, t[o][f] = v, \A x \in Objects : x # v => h2[x] = h[x],
           v \in Objects => Stays(K, t, h2, g, d, o)
    PROVE  Kept(K, t, h, h2, g, d)
<1> SUFFICES ASSUME NEW S \in SUBSET Objects, Shut(S, InUse(K), {}, t, h2, g, d),
                    NEW x \in Objects, h[x] > 0
             PROVE  x \in S
    BY DEF Kept
<1>1. CASE x # v
    <2>1. h2[x] > 0 /\ h2[x] \in Nat /\ GlobalCount(g, x) \in Nat /\ d[x] \in Nat
        BY <1>1, GlobalCountType
    <2>2. h2[x] + GlobalCount(g, x) + d[x] > 0
        BY <2>1
    <2>. QED BY <2>2 DEF Shut
<1>2. CASE x = v
    <2>1. o \in S
        BY <1>2 DEF Stays
    <2>2. t[o][f] # NULL
        BY <1>2, TheObjects
    <2>3. t[o][f] \in S
        BY <2>1, <2>2 DEF Shut
    <2>. QED BY <2>3, <1>2
<1>. QED BY <1>1, <1>2

\* The caller's reference to v goes to the slot.
Handed(h, v) == [x \in Objects |-> IF x = v THEN h[x] - 1 ELSE h[x]]
\* It held one, and holds one less.
LEMMA HandedFacts ==
    ASSUME NEW h \in [Objects -> Nat], NEW v, v \in Objects => h[v] > 0
    PROVE  /\ Handed(h, v) \in [Objects -> Nat]
           /\ \A x \in Objects : /\ Handed(h, v)[x] = h[x] - Is(v, x)
                                 /\ Handed(h, v)[x] <= h[x]
                                 /\ x # v => Handed(h, v)[x] = h[x]
<1>1. ASSUME NEW x \in Objects
      PROVE  /\ Handed(h, v)[x] = h[x] - Is(v, x) /\ Handed(h, v)[x] <= h[x]
             /\ x # v => Handed(h, v)[x] = h[x]
             /\ Handed(h, v)[x] \in Nat
    <2>1. CASE x = v
        <3>1. Handed(h, v)[x] = h[x] - 1 /\ Is(v, x) = 1 /\ h[x] > 0 /\ h[x] \in Nat
            BY <2>1 DEF Handed, Is
        <3>. QED BY <3>1, <2>1
    <2>2. CASE x # v
        <3>1. Handed(h, v)[x] = h[x] /\ Is(v, x) = 0 /\ h[x] \in Nat
            BY <2>2 DEF Handed, Is
        <3>. QED BY <3>1, <2>2
    <2>. QED BY <2>1, <2>2
<1>2. Handed(h, v) = [x \in Objects |-> Handed(h, v)[x]]
    BY DEF Handed
<1>3. Handed(h, v) \in [Objects -> Nat]
    BY <1>1, <1>2
<1>. QED BY <1>1, <1>3

\* A pointer is set to what the caller gives up, in an object that it still reaches.
LEMMA GiveKeeps ==
    ASSUME HeapInv, work = <<>>, NEW o \in InUse(kind), NEW f \in Names(slot[o]),
           NEW v \in Objects \cup {NULL}, v = NULL => f \in Optional, f # "map",
           v \in Objects => held[v] > 0,
           slot' = [slot EXCEPT ![o][f] = v], AfterDrop(slot[o][f]),
           held' = Handed(held, v),
           UNCHANGED <<kind, count, globals, crashed, program>>,
           v \in Objects => Stays(kind, slot', held', globals, Once(slot[o][f]), o)
    PROVE  HeapInv'
<1> DEFINE d == Once(slot[o][f])
<1>1. Quiet(kind, slot, count, held, globals, NoDrops)
    BY Before
<1>2. /\ count \in [Objects -> Int] /\ held \in [Objects -> Nat] /\ o \in Objects
      /\ WellTyped(kind, slot, count, held, globals)
      /\ v \in InUse(kind) \cup {NULL}
    BY <1>1, QuietTypes, GlobalsInUse DEF InUse
<1>3. /\ held' \in [Objects -> Nat]
      /\ \A x \in Objects : /\ held'[x] = held[x] - Is(v, x) /\ held'[x] <= held[x]
                            /\ x # v => held'[x] = held[x]
    BY <1>2, HandedFacts
<1>4. \A x \in Objects : count'[x] - held'[x] = (count[x] - held[x]) + Is(v, x)
    <2> TAKE x \in Objects
    <2>1. /\ held'[x] = held[x] - Is(v, x) /\ count'[x] = count[x] /\ held[x] \in Nat
          /\ count[x] \in Int /\ Is(v, x) \in {0, 1}
        BY <1>2, <1>3 DEF Is
    <2>. QED BY <2>1
<1>5. \A x \in InUse(kind) : count'[x] > 0
    BY <1>1, QuietTypes
<1>6. d \in [Objects -> Nat]
    BY DEF Once, Is
<1>7. f \in Names(slot'[o]) /\ slot'[o][f] = v
    <2>1. Overwritten(slot, slot', o, f, v)
        BY <1>2, Overwrite
    <2>. QED BY <2>1 DEF Overwritten, ButFor, Names
<1>8. v \in Objects => Stays(kind, slot', held', globals, d, o)
    OBVIOUS
<1> HIDE DEF d
<1>9. Kept(kind, slot', held, held', globals, d)
    <2>1. PICK t, h2 : t = slot' /\ h2 = held'
        OBVIOUS
    <2>2. h2 \in [Objects -> Nat] /\ f \in Names(t[o]) /\ t[o][f] = v
        BY <1>3, <1>7, <2>1
    <2>3. \A x \in Objects : x # v => h2[x] = held[x]
        BY <1>3, <2>1
    <2>4. v \in Objects => Stays(kind, t, h2, globals, d, o)
        BY <1>8, <2>1
    <2>5. Kept(kind, t, held, h2, globals, d)
        BY <1>2, <1>6, <2>2, <2>3, <2>4, GivenStaysReached
    <2>. QED BY <2>1, <2>5
<1>10. Kept(kind, slot', held, held', globals, Once(slot[o][f]))
    BY <1>9 DEF d
<1>11. count' \in [Objects -> Int]
    BY <1>2
<1>. QED BY <1>2, <1>3, <1>4, <1>5, <1>10, <1>11, StoreKeeps

\* A name is bound, rebound or unbound (layer.c).
LEMMA AddNameKeeps ==
    ASSUME HeapInv, NEW m \in Objects, NEW f \in {"e1", "e2"}, NEW v \in Objects \cup {NULL},
           AddName(m, f, v)
    PROVE  HeapInv'
<1>1. /\ work = <<>> /\ kind[m] = "map"
      /\ v # NULL => held[v] > 0 /\ kind[v] \in Values
      /\ slot' = [slot EXCEPT ![m][f] = v]
      /\ held' = Handed(held, v)
      /\ AfterDrop(slot[m][f])
      /\ UNCHANGED <<kind, count, globals, crashed, program>>
    BY DEF AddName, Calling, Holding, Handed
<1>2. PICK l \in Objects : kind[l] = "layer" /\ slot[l].map = m /\ (held[l] > 0 \/ l = globals.current)
    BY DEF AddName, Holding
<1>3. Quiet(kind, slot, count, held, globals, NoDrops)
    BY <1>1, Before
<1>4. /\ held \in [Objects -> Nat] /\ WellTyped(kind, slot, count, held, globals)
      /\ m \in InUse(kind) /\ l \in InUse(kind)
    BY <1>1, <1>2, <1>3, QuietTypes, KindsApart DEF InUse
<1>5. Names(slot[m]) = {"e1", "e2"} /\ "map" \in Names(slot[l])
    <2>1. "layer" # "unused" /\ "map" # "unused" /\ kind[m] = "map" /\ kind[l] = "layer"
        BY <1>1, <1>2
    <2>2. /\ slot[m] \in [Fields("map") -> Objects \cup {NULL}]
          /\ slot[l] \in [Fields("layer") -> Objects \cup {NULL}]
        BY <1>4, <2>1 DEF WellTyped
    <2>. QED BY <2>2, SomeFields DEF Names
<1>6. f \in Names(slot[m]) /\ f \in Optional /\ f # "map"
    BY <1>5 DEF Optional
<1>7. v \in Objects => l # v /\ held[v] > 0
    BY <1>1, <1>2, KindsApart, TheObjects
<1>8. /\ l # m /\ slot'[l] = slot[l]
    <2>1. l # m
        BY <1>1, <1>2
    <2>2. Overwritten(slot, slot', m, f, v)
        BY <1>1, <1>4, <1>6, Overwrite
    <2>. QED BY <2>1, <2>2, <1>2 DEF Overwritten, Agree
<1>9. ASSUME v \in Objects, NEW S \in SUBSET Objects,
             Shut(S, InUse(kind), {}, slot', held', globals, Once(slot[m][f]))
      PROVE  m \in S
    <2>1. held'[l] + GlobalCount(globals, l) + Once(slot[m][f])[l] > 0
        <3>1. held'[l] = held[l]
            BY <1>1, <1>4, <1>7, <1>9, HandedFacts
        <3>2. held[l] \in Nat /\ GlobalCount(globals, l) \in Nat /\ Once(slot[m][f])[l] \in Nat
            BY <1>4, GlobalCountType DEF Once, Is
        <3>3. l = globals.current => GlobalCount(globals, l) > 0
            BY GlobalCountType
        <3>. QED BY <1>2, <3>1, <3>2, <3>3
    <2>2. l \in S
        BY <1>9, <2>1 DEF Shut
    <2>3. slot'[l].map = m /\ m # NULL /\ "map" \in Names(slot'[l])
        BY <1>2, <1>5, <1>8, TheObjects
    <2>4. slot'[l]["map"] \in S
        BY <1>4, <1>9, <2>2, <2>3 DEF Shut
    <2>. QED BY <2>3, <2>4
<1>10. v \in Objects => Stays(kind, slot', held', globals, Once(slot[m][f]), m)
    BY <1>9 DEF Stays
<1>. QED BY <1>1, <1>4, <1>6, <1>7, <1>10, GiveKeeps

\* The pointers that a setter may overwrite.
LEMMA SetSlots ==
    ASSUME NEW c, NEW h, NEW g, WellTyped(kind, slot, c, h, g), NEW o \in Objects, NEW f \in Settable(o)
    PROVE  /\ o \in InUse(kind) /\ f \in Names(slot[o]) /\ f # "map" /\ f \in FieldNames
           /\ f \in {"e1", "e2", "ptr", "value"}
<1>1. \/ kind[o] \in {"tuple", "branches"} /\ f \in {"e1", "e2"}
      \/ kind[o] = "pointer" /\ f = "ptr"
      \/ kind[o] = "sum" /\ f = "value"
    <2>1. CASE kind[o] \in {"tuple", "branches"}
        <3>1. Settable(o) = {"e1", "e2"}
            BY <2>1 DEF Settable
        <3>. QED BY <3>1, <2>1
    <2>2. CASE kind[o] = "pointer"
        <3>1. Settable(o) = {"ptr"}
            BY <2>2 DEF Settable
        <3>. QED BY <3>1, <2>2
    <2>3. CASE kind[o] = "sum"
        <3>1. Settable(o) = {"value"}
            BY <2>3 DEF Settable
        <3>. QED BY <3>1, <2>3
    <2>4. CASE kind[o] \notin {"tuple", "branches", "pointer", "sum"}
        <3>1. Settable(o) = {}
            BY <2>4 DEF Settable
        <3>. QED BY <3>1
    <2>. QED BY <2>1, <2>2, <2>3, <2>4
<1>2. /\ Struct["tuple"] = {"e1", "e2"} /\ Struct["branches"] = {"e1", "e2"}
      /\ Struct["pointer"] = {"ptr"} /\ Struct["sum"] = {"value"}
    BY DEF Struct
<1>3. f \in Fields(kind[o]) /\ kind[o] \in Kinds
    BY <1>1, <1>2 DEF Fields, Kinds, Values, Trees
<1>4. kind[o] # "unused" /\ Fields(kind[o]) \subseteq FieldNames
    BY <1>3, AllFields
<1>5. f \in Names(slot[o])
    BY <1>3, <1>4 DEF WellTyped, Names
<1>. QED BY <1>1, <1>3, <1>4, <1>5 DEF InUse

\* A stack of one frame.
LEMMA Alone ==
    ASSUME NEW fr \in FrameType, fr.reclaim = {}
    PROVE  /\ <<fr>> \in Seq(FrameType) /\ Frames(<<fr>>) = {fr} /\ Orderly(<<fr>>)
           /\ Hidden(<<fr>>) = {p \in Objects \X FieldNames : fr.set[1] = p[1] /\ fr.set[2] = p[2]}
           /\ \A x \in Objects : Owes(<<fr>>)[x] = Owed(fr, x)
<1>1. <<fr>> \in Seq(FrameType) /\ DOMAIN <<fr>> = {1} /\ <<fr>>[1] = fr /\ Len(<<fr>>) = 1
    OBVIOUS
<1>2. Frames(<<fr>>) = {fr}
    BY <1>1 DEF Frames
<1>3. Orderly(<<fr>>)
    BY <1>1 DEF Orderly
<1>4. Hidden(<<fr>>) = {p \in Objects \X FieldNames : fr.set[1] = p[1] /\ fr.set[2] = p[2]}
    <2> DEFINE w == <<fr>>
    <2>1. DOMAIN w = {1} /\ w[1] = fr
        BY <1>1
    <2> HIDE DEF w
    <2>2. Hidden(w) = {p \in Objects \X FieldNames : fr.set[1] = p[1] /\ fr.set[2] = p[2]}
        BY <2>1 DEF Hidden
    <2>. QED BY <2>2 DEF w
<1>5. ASSUME NEW x \in Objects PROVE Owes(<<fr>>)[x] = Owed(fr, x)
    <2>1. <<fr>> \o <<>> = <<fr>> /\ <<>> \in Seq(FrameType)
        OBVIOUS
    <2>2. Pending(<<fr>> \o <<>>, x) = Pending(<<>>, x) + Owed(fr, x)
        BY <2>1, PendingOnTop
    <2>3. Pending(<<>>, x) = 0 /\ Owed(fr, x) \in Nat
        BY PendingEmpty, OwedType
    <2>. QED BY <2>1, <2>2, <2>3 DEF Owes
<1>. QED BY <1>1, <1>2, <1>3, <1>4, <1>5

\* The setter that first drops the old value: the slot still leads there.
LEMMA SetWaits ==
    ASSUME HeapInv, ~AnySetter, NEW o \in Objects, NEW f \in Settable(o),
           NEW v \in Objects \cup {NULL}, Set(o, f, v), slot[o][f] # NULL
    PROVE  HeapInv'
<1>0. PICK old, fr : old = slot[o][f] /\ fr = Frame(Drop(old), <<o, f, v>>, {})
    OBVIOUS
<1> DEFINE A == InUse(kind)
           H == {<<o, f>>}
           d == [x \in Objects |-> Owed(fr, x)]
<1>1. /\ work = <<>> /\ held[o] > 0 /\ Suits(kind[o], f, v) /\ (v # NULL => held[v] > 0)
      /\ o \notin Reach(old) /\ held' = Handed(held, v) /\ held'[o] > 0 /\ work' = <<fr>>
      /\ UNCHANGED <<kind, slot, count, globals, crashed, program>>
    BY <1>0 DEF Set, Calling, Holding, Handed
<1>2. Quiet(kind, slot, count, held, globals, NoDrops) /\ Alive = A
    BY <1>1, Before
<1>3. /\ held \in [Objects -> Nat] /\ count \in [Objects -> Int]
      /\ WellTyped(kind, slot, count, held, globals) /\ A \subseteq Objects
    BY <1>2, QuietTypes DEF InUse
<1>4. o \in A /\ f \in Names(slot[o]) /\ f \in FieldNames
    BY <1>3, SetSlots
<1>5. old \in A /\ old \in Objects
    BY <1>0, <1>2, <1>3, <1>4, GlobalsInUse
<1>6. v \in A \cup {NULL} /\ (v = NULL => f \in Optional)
    <2>1. v # NULL => v \in A
        BY <1>1, <1>2, GlobalsInUse
    <2>2. v = NULL => f \in Optional
        BY <1>1 DEF Suits
    <2>. QED BY <2>1, <2>2
<1>7. /\ held' \in [Objects -> Nat]
      /\ \A x \in Objects : held'[x] = held[x] - Is(v, x) /\ held'[x] <= held[x]
    <2>1. v \in Objects => held[v] > 0
        BY <1>1, TheObjects
    <2>2. /\ Handed(held, v) \in [Objects -> Nat]
          /\ \A x \in Objects : /\ Handed(held, v)[x] = held[x] - Is(v, x)
                                /\ Handed(held, v)[x] <= held[x]
        BY <2>1, <1>3, HandedFacts
    <2>3. held' = Handed(held, v)
        BY <1>1
    <2>. QED BY <2>2, <2>3
<1>8. /\ fr \in FrameType /\ fr.reclaim = {} /\ fr.set = <<o, f, v>> /\ fr.drops = Once(old)
    <2>1. Drop(old) = Once(old) /\ Once(old) \in [Objects -> Nat]
        BY <1>5, DropIs
    <2>2. fr = [drops |-> Once(old), set |-> <<o, f, v>>, reclaim |-> {}]
        BY <1>0, <2>1 DEF Frame
    <2>3. <<o, f, v>> \in (Objects \cup {NULL}) \X (FieldNames \cup {"none"}) \X (Objects \cup {NULL})
        BY <1>4
    <2>. QED BY <2>1, <2>2, <2>3 DEF FrameType
<1> HIDE DEF A
<1>9. /\ work' \in Seq(FrameType) /\ Frames(work') = {fr} /\ Orderly(work')
      /\ Hidden(work') = H /\ Owes(work') = d
    <2>1. Hidden(work') = H
        BY <1>1, <1>4, <1>8, Alone
    <2>2. Owes(work') = d
        <3>1. \A x \in Objects : Owes(work')[x] = d[x]
            BY <1>1, <1>8, Alone
        <3>. QED BY <3>1 DEF Owes
    <2>. QED BY <1>1, <1>8, <2>1, <2>2, Alone
<1>10. ASSUME NEW x \in Objects
       PROVE  d[x] = Is(old, x) + Is(v, x) /\ Is(old, x) \in {0, 1} /\ Is(v, x) \in {0, 1}
    <2>1. Owed(fr, x) = fr.drops[x] + Is(fr.set[3], x)
        BY <1>8, OwedType
    <2>. QED BY <2>1, <1>8 DEF Once, Is
<1> HIDE DEF d
<1>11. Alive' = A
    BY <1>1, <1>2 DEF Alive, Live
<1>12. WellTyped(kind', slot', count', held', globals')
    BY <1>1, <1>3, <1>7 DEF WellTyped
<1>13. Exact(A, H, slot, count, held', globals, d)
    <2> SUFFICES ASSUME NEW x \in A
                 PROVE  count[x] = held'[x] + GlobalCount(globals, x) + Deg(A, slot, H, x) + d[x]
        BY DEF Exact
    <2>1. x \in Objects
        BY <1>3
    <2> DEFINE D == Deg(A, slot, {}, x)
               E == Deg(A, slot, H, x)
               G == GlobalCount(globals, x)
               cx == count[x]
               hx == held[x]
               h2 == held'[x]
               dx == d[x]
               i == Is(old, x)
               j == Is(v, x)
    <2>2. cx = hx + G + D + NoDrops[x] /\ NoDrops[x] = 0
        BY <1>2, <2>1 DEF Quiet, Sound, Exact, NoDrops, A
    <2>3. D = E + i
        <3>1. HasPointer(A, slot, o, f)
            BY <1>3, <1>4 DEF HasPointer
        <3>. QED BY <1>0, <3>1, DegHide
    <2>4. h2 = hx - j /\ dx = i + j /\ i \in Nat /\ j \in Nat /\ h2 \in Nat
        BY <2>1, <1>7, <1>10
    <2>5. hx \in Nat /\ G \in Nat /\ E \in Nat /\ cx \in Int
        BY <2>1, <1>3, GlobalCountType, DegType
    <2> HIDE DEF D, E, G, cx, hx, h2, dx, i, j
    <2>6. cx = h2 + G + E + dx
        BY <2>2, <2>3, <2>4, <2>5
    <2>. QED BY <2>6 DEF E, G, cx, h2, dx
<1>14. Safe(A, H, slot, held', globals)
    <2>1. Safe(A, {}, slot, held, globals)
        BY <1>2 DEF Quiet, Sound, A
    <2>2. ASSUME NEW x \in Objects, held'[x] + GlobalCount(globals, x) > 0 PROVE x \in A
        <3>1. held'[x] \in Nat /\ held[x] \in Nat /\ held'[x] <= held[x] /\ GlobalCount(globals, x) \in Nat
            BY <1>3, <1>7, GlobalCountType
        <3>2. held[x] + GlobalCount(globals, x) > 0
            BY <2>2, <3>1
        <3>. QED BY <3>2, <2>1 DEF Safe
    <2>. QED BY <2>1, <2>2 DEF Safe
<1>15. Covers(A, H, slot, held', globals, d)
    <2> SUFFICES ASSUME NEW S \in SUBSET Objects, Shut(S, A, H, slot, held', globals, d)
                 PROVE  A \subseteq S
        BY DEF Covers
    <2>1. ASSUME NEW x \in Objects, held[x] + GlobalCount(globals, x) + NoDrops[x] > 0 PROVE x \in S
        <3> DEFINE G == GlobalCount(globals, x)
                   hx == held[x]
                   h2 == held'[x]
                   dx == d[x]
                   i == Is(old, x)
                   j == Is(v, x)
        <3>1. /\ hx \in Nat /\ G \in Nat /\ h2 = hx - j /\ dx = i + j /\ i \in Nat /\ j \in Nat
              /\ NoDrops[x] = 0
            BY <1>3, <1>7, <1>10, GlobalCountType DEF NoDrops
        <3>2. hx + G > 0
            BY <2>1, <3>1
        <3> HIDE DEF G, hx, h2, dx, i, j
        <3>3. h2 + G + dx > 0
            BY <3>1, <3>2
        <3>4. held'[x] + GlobalCount(globals, x) + d[x] > 0
            BY <3>3 DEF h2, G, dx
        <3>. QED BY <3>4 DEF Shut
    <2>2. old \in S
        <3>1. d[old] > 0
            BY <1>5, <1>10 DEF Is
        <3>2. held'[old] \in Nat /\ GlobalCount(globals, old) \in Nat /\ d[old] \in Nat
            BY <1>5, <1>7, <1>10, GlobalCountType
        <3>3. held'[old] + GlobalCount(globals, old) + d[old] > 0
            BY <3>1, <3>2
        <3>. QED BY <1>5, <3>3 DEF Shut
    <2>3. ASSUME NEW x \in S \cap A, NEW n \in Names(slot[x]), slot[x][n] # NULL PROVE slot[x][n] \in S
        <3>1. CASE x = o /\ n = f
            BY <1>0, <3>1, <2>2
        <3>2. CASE ~(x = o /\ n = f)
            BY <3>2, <2>3 DEF Shut
        <3>. QED BY <3>1, <3>2
    <2>4. Shut(S, A, {}, slot, held, globals, NoDrops)
        BY <2>1, <2>3 DEF Shut
    <2>. QED BY <2>4, <1>2 DEF Quiet, Sound, Covers, A
<1>16. Sound(A, H, kind, slot, count, held', globals, d)
    BY <1>2, <1>13, <1>14, <1>15 DEF Quiet, Sound, A
<1>17. Sound(Alive', Hidden(work'), kind', slot', count', held', globals', Owes(work'))
    BY <1>1, <1>9, <1>11, <1>16
<1>18. \A x \in Objects : fr.drops[x] > 0 => x = old
    BY <1>8 DEF Once, Is
<1>19. Storing(o, f, v)'
    <2>1. f \in Settable(o)' /\ Reach(old)' = Reach(old)
        BY <1>1 DEF Settable, Reach, Points
    <2>2. slot'[o][f] # NULL /\ held'[o] > 0 /\ (v \in Alive' \/ (v = NULL /\ f \in Optional))
        BY <1>1, <1>6, <1>11
    <2>3. \A g \in Frames(work') : \A x \in Objects : g.drops[x] > 0 => o \notin Reach(x)'
        BY <1>1, <1>9, <1>18, <2>1
    <2>. QED BY <2>1, <2>2, <2>3 DEF Storing
<1>20. FrameOK(fr)'
    <2>1. \A x \in Objects : fr.drops[x] > 0 => x \in Alive'
        BY <1>5, <1>11, <1>18
    <2>. QED BY <1>4, <1>8, <1>19, <2>1 DEF FrameOK
<1>21. Torn'
    <2>1. \A x \in Objects : kind[x] # "unused" => count[x] > 0 /\ count[x] \in Int
        BY <1>2, <1>3 DEF Quiet
    <2>2. \A x \in Objects : ~(Live(x)' /\ count'[x] <= 0)
        BY <1>1, <2>1 DEF Live
    <2>. QED BY <2>2 DEF Torn
<1>22. crashed' = "no" /\ program' \in Programs
    BY <1>1 DEF HeapInv
<1>. QED BY <1>9, <1>12, <1>17, <1>20, <1>21, <1>22 DEF HeapInv

\* A setter keeps the invariant, whether it has an old value to drop or not.
LEMMA SetKeeps ==
    ASSUME HeapInv, ~AnySetter, NEW o \in Objects, NEW v \in Objects \cup {NULL},
           NEW f \in Settable(o), Set(o, f, v)
    PROVE  HeapInv'
<1>1. CASE slot[o][f] # NULL
    BY <1>1, SetWaits
<1>2. CASE slot[o][f] = NULL
    <2>1. /\ work = <<>> /\ Suits(kind[o], f, v) /\ (v # NULL => held[v] > 0)
          /\ held' = Handed(held, v) /\ held'[o] > 0
          /\ slot' = [slot EXCEPT ![o][f] = v]
          /\ UNCHANGED <<work, kind, count, globals, crashed, program>>
        BY <1>2 DEF Set, Calling, Holding, Handed
    <2>2. Quiet(kind, slot, count, held, globals, NoDrops)
        BY <2>1, Before
    <2>3. held \in [Objects -> Nat] /\ WellTyped(kind, slot, count, held, globals)
        BY <2>2, QuietTypes
    <2>4. o \in InUse(kind) /\ f \in Names(slot[o]) /\ f # "map"
        BY <2>3, SetSlots
    <2>5. v = NULL => f \in Optional
        BY <2>1 DEF Suits
    <2>6. AfterDrop(slot[o][f])
        BY <1>2, <2>1 DEF AfterDrop
    <2>7. v \in Objects => held[v] > 0
        BY <2>1, TheObjects
    <2>8. held' \in [Objects -> Nat]
        BY <2>1, <2>3, <2>7, HandedFacts
    <2>9. Stays(kind, slot', held', globals, Once(slot[o][f]), o)
        <3>1. held'[o] \in Nat /\ GlobalCount(globals, o) \in Nat /\ Once(slot[o][f])[o] \in Nat
            BY <2>8, GlobalCountType DEF Once, Is
        <3>2. held'[o] + GlobalCount(globals, o) + Once(slot[o][f])[o] > 0
            BY <2>1, <3>1
        <3>. QED BY <3>2 DEF Stays, Shut
    <2>. QED BY <2>1, <2>4, <2>5, <2>6, <2>7, <2>9, GiveKeeps
<1>. QED BY <1>1, <1>2

(***************************************************************************)
(* Building a type from a tree, and a layer with its map.                  *)
(***************************************************************************)
\* A reference the program gives up is owed a drop.
LEMMA LetGo ==
    ASSUME NEW K, NEW s, NEW c, NEW h, NEW g, NEW d, Quiet(K, s, c, h, g, d),
           NEW o \in Objects, h[o] > 0, NEW d2, d2 = [x \in Objects |-> d[x] + Is(o, x)]
    PROVE  Quiet(K, s, c, Less(h, o), g, d2)
<1>1. /\ c \in [Objects -> Int] /\ h \in [Objects -> Nat] /\ d \in [Objects -> Nat]
      /\ g \in [default : Objects \cup {NULL}, current : Objects \cup {NULL},
                typeType : Objects \cup {NULL}]
      /\ Layers(InUse(K), K, s, g)
      /\ \A x \in InUse(K) : c[x] > 0
      /\ \A x \in Objects : h[x] + GlobalCount(g, x) + d[x] > 0 => x \in InUse(K)
    BY QuietTypes
<1>2. Less(h, o) \in [Objects -> Nat]
    BY <1>1, MoreLess
<1>3. ASSUME NEW x \in Objects
      PROVE  /\ Less(h, o)[x] + GlobalCount(g, x) + d2[x] = h[x] + GlobalCount(g, x) + d[x]
             /\ d2[x] \in Nat
    <2>1. /\ Less(h, o)[x] = h[x] - Is(o, x) /\ d2[x] = d[x] + Is(o, x)
          /\ h[x] \in Nat /\ d[x] \in Nat /\ Is(o, x) \in Nat /\ GlobalCount(g, x) \in Nat
        BY <1>1, GlobalCountType DEF Less, Is
    <2>. QED BY <2>1
<1>4. d2 \in [Objects -> Nat]
    BY <1>3
<1>5. Recounted(K, c, h, g, d, c, Less(h, o), g, d2)
    BY <1>1, <1>2, <1>3, <1>4 DEF Recounted, Layers
<1>. QED BY <1>5, OnlyCounts

\* A type keeps the body of a definition node and drops the node.
LEMMA TypeSpecKeeps ==
    ASSUME HeapInv, NEW o \in Cells, NEW tree \in Objects, TypeSpec(o, tree)
    PROVE  HeapInv'
<1> DEFINE r == [type_spec |-> slot[tree].type_def, typemap |-> globals.current,
                 typeobj |-> globals.typeType]
           A == InUse(kind)
           h == [held EXCEPT ![o] = 1]
<1>1. /\ work = <<>> /\ Running /\ Unused({o}) /\ held[tree] > 0 /\ kind[tree] = "spec"
      /\ kind' = [kind EXCEPT ![o] = "type"] /\ slot' = [slot EXCEPT ![o] = r]
      /\ count' = [x \in Objects |-> IF x = o THEN 1
                                     ELSE count[x] + Cardinality({f \in Fields("type") : r[f] = x})]
      /\ held' = [held EXCEPT ![o] = 1, ![tree] = @ - 1]
      /\ work' = <<Frame(Drop(tree), NoSet, {})>>
      /\ UNCHANGED <<globals, crashed, program>>
    BY DEF TypeSpec, Calling, Holding
<1>2. Quiet(kind, slot, count, held, globals, NoDrops)
    BY <1>1, Before
<1>3. o \in Objects /\ o \notin A
    BY <1>1, UnusedCell
<1>4. /\ tree \in A /\ tree # o /\ A \subseteq Objects /\ NULL \notin A
      /\ globals.current \in A /\ globals.typeType \in A
      /\ count \in [Objects -> Int] /\ held \in [Objects -> Nat]
      /\ WellTyped(kind, slot, count, held, globals)
    BY <1>1, <1>2, <1>3, GlobalsInUse, QuietTypes DEF Running
<1>5. slot[tree].type_def \in A
    <2>1. "type_def" \in Names(slot[tree])
        <3>1. slot[tree] \in [Fields("spec") -> Objects \cup {NULL}]
            BY <1>1, <1>4, SomeFields, KindsApart DEF WellTyped
        <3>. QED BY <3>1, SomeFields DEF Names
    <2>2. slot[tree].type_def \in A \cup {NULL}
        BY <1>2, <1>4, <2>1, GlobalsInUse
    <2>3. slot[tree].type_def # NULL
        <3>1. "type_def" \notin Optional
            BY DEF Optional
        <3>. QED BY <1>2, <2>1, <3>1 DEF Quiet, Sound, Filled
    <2>. QED BY <2>2, <2>3
<1>6. /\ Names(r) = {"type_spec", "typemap", "typeobj"}
      /\ r \in [Fields("type") -> A \cup {NULL}]
      /\ \A f \in Names(r) : r[f] # NULL
    BY <1>4, <1>5, SomeFields DEF Names
<1> HIDE DEF r
<1>7. ASSUME NEW x \in Objects, x # o
      PROVE  count'[x] = count[x] + Slots(r, x) /\ Slots(r, x) \in Nat /\ count[x] \in Int
    <2>1. Slots(r, x) = Cardinality({f \in Fields("type") : r[f] = x})
        BY <1>6, SomeFields DEF Slots, Names
    <2>2. Names(r) \subseteq FieldNames
        BY <1>6, SomeFields, AllFields
    <2>. QED BY <1>1, <1>4, <1>7, <2>1, <2>2, SlotsType
<1>8. count' \in [Objects -> Int] /\ count'[o] = 1
    <2>1. count'[o] = 1
        BY <1>1, <1>3
    <2>2. \A x \in Objects : count'[x] \in Int
        BY <2>1, <1>7
    <2>3. count' = [x \in Objects |-> count'[x]]
        BY <1>1
    <2>. QED BY <2>1, <2>2, <2>3
<1>9. h \in [Objects -> Nat] /\ h[o] = 1 /\ \A x \in Objects : x # o => h[x] = held[x]
    BY <1>3, <1>4
<1>10. \A x \in A : count'[x] > 0
    <2> TAKE x \in A
    <2>1. x \in Objects /\ x # o /\ count[x] > 0
        BY <1>2, <1>3, <1>4, QuietTypes
    <2>. QED BY <2>1, <1>7
<1> HIDE DEF h
<1>11. Added(kind, slot, count, held, kind', slot', count', h, o, "type", r)
    <2>1. ASSUME NEW x \in Objects, x # o
          PROVE  /\ count'[x] - h[x] = (count[x] - held[x]) + Slots(r, x)
                 /\ h[x] <= held[x]
                 /\ held[x] > 0 => h[x] > 0
        <3>1. /\ count'[x] = count[x] + Slots(r, x) /\ h[x] = held[x]
              /\ count[x] \in Int /\ held[x] \in Nat /\ Slots(r, x) \in Nat
            BY <1>4, <1>7, <1>9, <2>1
        <3>. QED BY <3>1
    <2>2. "type" \in Kinds /\ "type" # "layer"
        BY SomeFields
    <2> HIDE DEF A
    <2>. QED BY <2>1, <2>2, <1>1, <1>3, <1>6, <1>8, <1>9, <1>10 DEF Added, A
<1>12. Quiet(kind', slot', count', h, globals, NoDrops)
    BY <1>2, <1>11, OneMore
<1>13. held' = Less(h, tree) /\ h[tree] > 0
    <2>1. held' = [h EXCEPT ![tree] = @ - 1]
        <3> DEFINE e == [h EXCEPT ![tree] = @ - 1]
        <3>1. \A x \in Objects : held'[x] = IF x = tree THEN held[x] - 1 ELSE IF x = o THEN 1 ELSE held[x]
            BY <1>1, <1>3, <1>4
        <3>2. \A x \in Objects : e[x] = IF x = tree THEN held[x] - 1 ELSE IF x = o THEN 1 ELSE held[x]
            BY <1>4, <1>9
        <3>3. held' = [x \in Objects |-> held'[x]] /\ e = [x \in Objects |-> e[x]]
            BY <1>1, <1>4, <1>9
        <3> HIDE DEF e
        <3>4. held' = e
            BY <3>1, <3>2, <3>3
        <3>. QED BY <3>4 DEF e
    <2>2. h[tree] > 0
        BY <1>1, <1>4, <1>9
    <2>. QED BY <2>1, <2>2, <1>4, <1>9, MoreLess
<1>14. Once(tree) = [x \in Objects |-> NoDrops[x] + Is(tree, x)]
    <2>1. \A x \in Objects : NoDrops[x] + Is(tree, x) = Is(tree, x)
        BY DEF NoDrops, Is
    <2>. QED BY <2>1 DEF Once
<1>15. Quiet(kind', slot', count', held', globals', Once(tree))
    <2>1. Quiet(kind', slot', count', Less(h, tree), globals, Once(tree))
        BY <1>12, <1>13, <1>14, LetGo
    <2>. QED BY <2>1, <1>1, <1>13
<1>16. AfterDrop(tree)
    BY <1>1, TheObjects DEF AfterDrop
<1>17. crashed' = "no" /\ program' \in Programs
    BY <1>1 DEF HeapInv
<1>. QED BY <1>15, <1>16, <1>17, DropOwed, After

\* The pointers of a layer.
LayerRecord(r) == Names(r) = {"map", "parent"}
\* They are counted one by one.
LEMMA LayerSlots ==
    \A r, x : LayerRecord(r) => Slots(r, x) = Is(r.map, x) + Is(r.parent, x)
<1> TAKE r, x
<1> HAVE LayerRecord(r)
<1>1. Fresh({}, "map") /\ Fresh({"map"}, "parent")
    BY SomeFields, AllFields DEF Fresh
<1>2. Among({}, r, x) = 0
    <2>1. {n \in {} : r[n] = x} = {}
        OBVIOUS
    <2>. QED BY <2>1, FS_EmptySet DEF Among
<1>3. Among({} \cup {"map"}, r, x) = Among({}, r, x) + Is(r["map"], x)
    BY <1>1, AmongOneMore
<1>4. Among({"map"} \cup {"parent"}, r, x) = Among({"map"}, r, x) + Is(r["parent"], x)
    BY <1>1, AmongOneMore
<1>5. {} \cup {"map"} = {"map"} /\ {"map"} \cup {"parent"} = {"map", "parent"}
    OBVIOUS
<1>6. Slots(r, x) = Among({"map", "parent"}, r, x)
    BY DEF Slots, Among, Names, LayerRecord
<1>7. Is(r["map"], x) \in Nat
    BY DEF Is
<1>8. Among({"map"}, r, x) = Is(r["map"], x)
    BY <1>2, <1>3, <1>5, <1>7
<1>. QED BY <1>4, <1>5, <1>6, <1>8

\* A layer and its map are built (Minimal_createLayer2).
LEMMA CreateLayerKeeps ==
    ASSUME HeapInv, NEW o \in Cells, NEW m \in Cells, NEW parent \in Objects, CreateLayer(o, m, parent)
    PROVE  HeapInv'
<1> DEFINE e == [e1 |-> NULL, e2 |-> NULL]
           r == [map |-> m, parent |-> parent]
           A == InUse(kind)
           K == [kind EXCEPT ![m] = "map"]
           s == [slot EXCEPT ![m] = e]
           c == [count EXCEPT ![m] = 1]
           h == [held EXCEPT ![m] = 1]
<1>1. /\ work = <<>> /\ o # m /\ Unused({o, m}) /\ kind[parent] = "layer"
      /\ kind' = [kind EXCEPT ![o] = "layer", ![m] = "map"]
      /\ slot' = [slot EXCEPT ![o] = r, ![m] = e]
      /\ count' = [count EXCEPT ![o] = 1, ![m] = 1, ![parent] = @ + 1]
      /\ held' = [held EXCEPT ![o] = 1]
      /\ UNCHANGED <<globals, work, crashed, program>>
    BY DEF CreateLayer, Calling
<1>2. Quiet(kind, slot, count, held, globals, NoDrops)
    BY <1>1, Before
<1>3. o \in Objects /\ o \notin A /\ m \in Objects /\ m \notin A
    BY <1>1, UnusedCell
<1>4. /\ count \in [Objects -> Int] /\ held \in [Objects -> Nat] /\ A \subseteq Objects /\ NULL \notin A
      /\ DOMAIN kind = Objects /\ DOMAIN slot = Objects
      /\ held[m] = 0 /\ held[o] = 0
    BY <1>2, <1>3, QuietTypes, GlobalsInUse, NoneToUnused
<1>5. parent \in A /\ parent # o /\ parent # m
    BY <1>1, <1>3, KindsApart DEF InUse
<1>6. /\ Names(e) = {"e1", "e2"} /\ e \in [Fields("map") -> A \cup {NULL}]
      /\ \A f \in Names(e) : e[f] = NULL /\ f \in Optional
    BY SomeFields DEF Names, Optional
<1>7. \A x \in Objects : Slots(e, x) = 0
    <2>1. Names(e) \subseteq FieldNames
        BY <1>6, SomeFields, AllFields
    <2> HIDE DEF e
    <2>. QED BY <2>1, <1>6, TheObjects, SlotsType
<1>8. /\ Names(r) = {"map", "parent"} /\ r.map = m /\ r.parent = parent
      /\ r \in [Fields("layer") -> Objects \cup {NULL}] /\ r["map"] = m
      /\ \A f \in Names(r) : r[f] \in A \cup {m} /\ r[f] # NULL
    BY <1>3, <1>5, SomeFields, TheObjects DEF Names
<1> HIDE DEF e, r
<1>9. \A x \in Objects : Slots(r, x) = Is(m, x) + Is(parent, x)
    BY <1>8, LayerSlots DEF LayerRecord
<1>10. /\ c \in [Objects -> Int] /\ h \in [Objects -> Nat] /\ c[m] = 1 /\ h[m] = 1
       /\ \A x \in Objects : x # m => c[x] = count[x] /\ h[x] = held[x]
    BY <1>3, <1>4
<1>11. K[m] = "map" /\ \A x \in Objects : x # m => K[x] = kind[x]
    BY <1>3, <1>4
<1>12. Added(kind, slot, count, held, K, s, c, h, m, "map", e)
    <2>1. ASSUME NEW x \in Objects, x # m
          PROVE  /\ c[x] - h[x] = (count[x] - held[x]) + Slots(e, x)
                 /\ h[x] <= held[x]
                 /\ held[x] > 0 => h[x] > 0
        <3>1. c[x] = count[x] /\ h[x] = held[x] /\ count[x] \in Int /\ held[x] \in Nat /\ Slots(e, x) = 0
            BY <1>4, <1>7, <1>10, <2>1
        <3>. QED BY <3>1
    <2>2. \A x \in A : c[x] > 0
        BY <1>2, <1>3, <1>4, <1>10, QuietTypes
    <2>3. "map" \in Kinds /\ "map" # "layer"
        BY SomeFields
    <2> HIDE DEF A, c, h
    <2>. QED BY <2>1, <2>2, <2>3, <1>3, <1>6, <1>10 DEF Added, A
<1>13. Quiet(K, s, c, h, globals, NoDrops) /\ InUse(K) = A \cup {m}
    <2> HIDE DEF K, s, c, h
    <2>. QED BY <1>2, <1>12, OneMore
<1>14. /\ kind' = [K EXCEPT ![o] = "layer"] /\ slot' = [s EXCEPT ![o] = r]
    <2>1. DOMAIN K = Objects /\ DOMAIN s = Objects
        BY <1>4
    <2>2. kind' = [x \in Objects |-> IF x = m THEN "map" ELSE IF x = o THEN "layer" ELSE kind[x]]
        BY <1>1, <1>3, <1>4
    <2>3. [K EXCEPT ![o] = "layer"]
              = [x \in Objects |-> IF x = m THEN "map" ELSE IF x = o THEN "layer" ELSE kind[x]]
        BY <1>1, <1>3, <1>4
    <2>4. slot' = [x \in Objects |-> IF x = m THEN e ELSE IF x = o THEN r ELSE slot[x]]
        BY <1>1, <1>3, <1>4
    <2>5. [s EXCEPT ![o] = r] = [x \in Objects |-> IF x = m THEN e ELSE IF x = o THEN r ELSE slot[x]]
        BY <1>1, <1>3, <1>4
    <2>. QED BY <2>2, <2>3, <2>4, <2>5
<1>15. /\ count' \in [Objects -> Int] /\ held' \in [Objects -> Nat] /\ count'[o] = 1 /\ held'[o] = 1
       /\ count'[m] = 1 /\ held'[m] = 0
    <2>1. held' \in [Objects -> Nat] /\ held'[o] = 1 /\ held'[m] = 0
        BY <1>1, <1>3, <1>4
    <2>2. count'[o] = 1 /\ count'[m] = 1
        BY <1>1, <1>3, <1>4, <1>5
    <2>3. count' \in [Objects -> Int]
        <3>1. count' = [x \in Objects |-> IF x = parent THEN count[x] + 1
                                          ELSE IF x \in {o, m} THEN 1 ELSE count[x]]
            BY <1>1, <1>3, <1>4, <1>5
        <3>2. \A x \in Objects : count[x] \in Int
            BY <1>4
        <3>. QED BY <3>1, <3>2
    <2>. QED BY <2>1, <2>2, <2>3
<1>16. ASSUME NEW x \in Objects, x # o, x # m
       PROVE  count'[x] = count[x] + Is(parent, x) /\ held'[x] = held[x]
    <2>1. count'[x] = IF x = parent THEN count[x] + 1 ELSE count[x]
        BY <1>1, <1>3, <1>4, <1>5, <1>16
    <2>2. held'[x] = held[x]
        BY <1>1, <1>4, <1>16
    <2>. QED BY <2>1, <2>2, <1>4 DEF Is
<1> HIDE DEF K, s, c, h
<1>17. Added(K, s, c, h, kind', slot', count', held', o, "layer", r)
    <2>1. ASSUME NEW x \in Objects, x # o
          PROVE  /\ count'[x] - held'[x] = (c[x] - h[x]) + Slots(r, x)
                 /\ held'[x] <= h[x]
                 /\ h[x] > 0 => held'[x] > 0 \/ \E f \in Names(r) : r[f] = x
        <3>1. CASE x = m
            <4>1. count'[x] = 1 /\ held'[x] = 0 /\ c[x] = 1 /\ h[x] = 1
                BY <3>1, <1>10, <1>15
            <4>2. Is(m, x) = 1 /\ Is(parent, x) = 0
                BY <3>1, <1>5 DEF Is
            <4>3. r["map"] = x /\ "map" \in Names(r)
                BY <3>1, <1>8
            <4>. QED BY <4>1, <4>2, <4>3, <1>9
        <3>2. CASE x # m
            <4>1. count'[x] = count[x] + Is(parent, x) /\ held'[x] = held[x]
                BY <2>1, <3>2, <1>16
            <4>2. c[x] = count[x] /\ h[x] = held[x] /\ count[x] \in Int /\ held[x] \in Nat
                BY <3>2, <1>4, <1>10
            <4>3. Slots(r, x) = 0 + Is(parent, x) /\ Is(parent, x) \in Nat
                BY <3>2, <1>9 DEF Is
            <4>. QED BY <4>1, <4>2, <4>3
        <3>. QED BY <3>1, <3>2
    <2>2. ASSUME NEW x \in InUse(K) PROVE count'[x] > 0
        <3>1. CASE x = m
            BY <3>1, <1>15
        <3>2. CASE x # m
            <4>1. x \in A /\ x \in Objects /\ x # o /\ count[x] > 0
                BY <3>2, <1>2, <1>3, <1>4, <1>13, QuietTypes
            <4>. QED BY <4>1, <3>2, <1>4, <1>16 DEF Is
        <3>. QED BY <3>1, <3>2
    <2>3. "layer" \in Kinds
        BY SomeFields
    <2>4. o \notin InUse(K)
        BY <1>1, <1>3, <1>13
    <2>5. r \in [Fields("layer") -> InUse(K) \cup {NULL}]
        BY <1>8, <1>13 DEF Names
    <2>6. r.map \in Objects /\ K[r.map] = "map"
        BY <1>3, <1>8, <1>11
    <2> HIDE DEF A
    <2>. QED BY <2>1, <2>2, <2>3, <2>4, <2>5, <2>6, <1>3, <1>8, <1>14, <1>15 DEF Added
<1>18. Quiet(kind', slot', count', held', globals, NoDrops)
    BY <1>13, <1>17, OneMore
<1>. QED BY <1>1, <1>18, Finished

(***************************************************************************)
(* The layer of a value's type, and of a type that is the value.           *)
(***************************************************************************)
\* One pointer is overwritten with a value that is counted, and nothing else
\* changes: the old value is owed a drop.
Pointed(K, s, c, d, t, c2, d2, o, f, v) ==
    /\ o \in InUse(K) /\ f \in Names(s[o]) /\ v \in InUse(K) /\ f # "map"
    /\ t = [s EXCEPT ![o][f] = v] /\ c2 = More(c, v)
    /\ d2 = [x \in Objects |-> d[x] + Is(s[o][f], x)]
\* That keeps what holds between two calls.
LEMMA PointTo ==
    ASSUME NEW K, NEW s, NEW c, NEW h, NEW g, NEW d, NEW t, NEW c2, NEW d2, NEW o, NEW f, NEW v,
           Quiet(K, s, c, h, g, d), Pointed(K, s, c, d, t, c2, d2, o, f, v)
    PROVE  Quiet(K, t, c2, h, g, d2)
<1>1. /\ c \in [Objects -> Int] /\ h \in [Objects -> Nat] /\ d \in [Objects -> Nat]
      /\ WellTyped(K, s, c, h, g) /\ \A x \in InUse(K) : c[x] > 0
    BY QuietTypes
<1>2. o \in Objects /\ v \in Objects /\ v # NULL /\ InUse(K) \subseteq Objects
    BY TheObjects DEF Pointed, InUse
<1>3. Overwritten(s, t, o, f, v)
    BY <1>1, <1>2, Overwrite DEF Pointed
<1>4. c2 \in [Objects -> Int]
    BY <1>1, <1>2, MoreLess DEF Pointed
<1>5. ASSUME NEW x \in Objects
      PROVE  /\ c2[x] - h[x] = (c[x] - h[x]) + Is(v, x) /\ c2[x] >= c[x]
             /\ c2[x] \in Int /\ c[x] \in Int
             /\ d2[x] \in Nat /\ h[x] \in Nat
    <2>1. c2[x] = c[x] + Is(v, x) /\ d2[x] = d[x] + Is(s[o][f], x)
        BY DEF Pointed, More
    <2>2. /\ Is(v, x) \in Nat /\ Is(s[o][f], x) \in Nat /\ c[x] \in Int /\ h[x] \in Nat /\ d[x] \in Nat
        BY <1>1 DEF Is
    <2>. QED BY <2>1, <2>2
<1>6. \A x \in InUse(K) : c2[x] > 0
    <2> TAKE x \in InUse(K)
    <2>1. x \in Objects /\ c[x] > 0
        BY <1>1, <1>2
    <2>. QED BY <2>1, <1>5
<1>7. Rewritten(K, s, c, h, d, t, c2, h, d2, o, f, v)
    <2>1. \A x \in Objects : h[x] <= h[x]
        BY <1>1
    <2>. QED BY <2>1, <1>1, <1>2, <1>3, <1>4, <1>5, <1>6 DEF Rewritten, Pointed
<1>8. Kept(K, t, h, h, g, d2)
    <2>1. ASSUME NEW x \in Objects, h[x] > 0 PROVE h[x] + GlobalCount(g, x) + d2[x] > 0
        BY <1>5, <2>1, GlobalCountType
    <2>. QED BY <2>1 DEF Kept, Shut
<1>. QED BY <1>7, <1>8, OneSlot

\* How many of a and b are in a set that has no others.
LEMMA OfTwo ==
    ASSUME NEW a, NEW b, a # b, NEW T, T \subseteq {a, b}
    PROVE  Cardinality(T) = (IF a \in T THEN 1 ELSE 0) + (IF b \in T THEN 1 ELSE 0)
<1>1. Cardinality({}) = 0 /\ Cardinality({a}) = 1 /\ Cardinality({b}) = 1 /\ IsFiniteSet({a})
    BY FS_EmptySet, FS_Singleton
<1>2. Cardinality({a} \cup {b}) = Cardinality({a}) + 1
    <2>1. b \notin {a}
        OBVIOUS
    <2>. QED BY <1>1, <2>1, FS_AddElement
<1>3. CASE a \in T /\ b \in T
    <2>1. T = {a} \cup {b}
        BY <1>3
    <2>. QED BY <2>1, <1>1, <1>2, <1>3
<1>4. CASE a \in T /\ b \notin T
    <2>1. T = {a}
        BY <1>4
    <2>. QED BY <2>1, <1>1, <1>4
<1>5. CASE a \notin T /\ b \in T
    <2>1. T = {b}
        BY <1>5
    <2>. QED BY <2>1, <1>1, <1>5
<1>6. CASE a \notin T /\ b \notin T
    <2>1. T = {}
        BY <1>6
    <2>. QED BY <2>1, <1>1, <1>6
<1>. QED BY <1>3, <1>4, <1>5, <1>6

\* A value and its type get another map of types, one after the other.
LEMMA SetTypeMapKeeps ==
    ASSUME HeapInv, NEW v \in Objects, NEW types \in Objects, SetTypeMap(v, types)
    PROVE  HeapInv'
<1>0. PICK u, targets, old :
          /\ u = slot[v].typeobj
          /\ targets = {x \in {v, u} : x # NULL /\ kind[x] = "type"}
          /\ old = {x \in targets : slot[x].typemap # NULL}
    OBVIOUS
<1> DEFINE A == InUse(kind)
           drops == [x \in Objects |-> Cardinality({t \in old : slot[t].typemap = x})]
           s1 == IF v \in targets THEN [slot EXCEPT ![v]["typemap"] = types] ELSE slot
           c1 == IF v \in targets THEN More(count, types) ELSE count
           d1 == IF v \in targets THEN [x \in Objects |-> NoDrops[x] + Is(slot[v]["typemap"], x)]
                 ELSE NoDrops
           s2 == IF u \in targets THEN [s1 EXCEPT ![u]["typemap"] = types] ELSE s1
           c2 == IF u \in targets THEN More(c1, types) ELSE c1
           d2 == IF u \in targets THEN [x \in Objects |-> d1[x] + Is(s1[u]["typemap"], x)] ELSE d1
<1>1. /\ work = <<>> /\ kind[v] \in Values /\ u # v /\ held[v] > 0
      /\ held[types] > 0 /\ kind[types] = "layer"
      /\ slot' = [x \in Objects |-> IF x \in targets
                                    THEN [slot[x] EXCEPT !["typemap"] = types] ELSE slot[x]]
      /\ count' = [count EXCEPT ![types] = @ + Cardinality(targets)]
      /\ work' = <<Frame(drops, NoSet, {})>>
      /\ UNCHANGED <<kind, held, globals, crashed, program>>
    BY <1>0 DEF SetTypeMap, Calling, Holding
<1>2. Quiet(kind, slot, count, held, globals, NoDrops)
    BY <1>1, Before
<1>3. /\ v \in A /\ types \in A /\ A \subseteq Objects /\ NULL \notin A
      /\ count \in [Objects -> Int] /\ held \in [Objects -> Nat]
      /\ WellTyped(kind, slot, count, held, globals) /\ DOMAIN slot = Objects
    BY <1>1, <1>2, GlobalsInUse, QuietTypes
<1>4. u \in A \cup {NULL}
    <2>1. "typeobj" \in Names(slot[v])
        <3>1. slot[v] \in [Fields(kind[v]) -> Objects \cup {NULL}]
            BY <1>1, <1>3, KindsApart DEF WellTyped
        <3>. QED BY <1>1, <3>1, ValueFields DEF Names
    <2>. QED BY <1>0, <1>2, <1>3, <2>1, GlobalsInUse
<1>5. /\ targets \subseteq {v, u} /\ targets \subseteq A
      /\ \A x \in targets : "typemap" \in Names(slot[x])
    <2>1. targets \subseteq A
        BY <1>0, <1>3, <1>4
    <2>2. ASSUME NEW x \in targets PROVE "typemap" \in Names(slot[x])
        <3>1. slot[x] \in [Fields("type") -> Objects \cup {NULL}]
            BY <1>0, <1>3, <2>1, <2>2, SomeFields, KindsApart DEF WellTyped
        <3>. QED BY <3>1, SomeFields DEF Names
    <2>. QED BY <1>0, <2>1, <2>2
<1>6. Quiet(kind, s1, c1, held, globals, d1)
    <2>1. CASE v \in targets
        <3>1. Pointed(kind, slot, count, NoDrops, s1, c1, d1, v, "typemap", types)
            BY <2>1, <1>3, <1>5 DEF Pointed
        <3> HIDE DEF s1, c1, d1
        <3>. QED BY <1>2, <3>1, PointTo
    <2>2. CASE v \notin targets
        BY <2>2, <1>2
    <2>. QED BY <2>1, <2>2
<1>7. u \in targets => s1[u] = slot[u]
    <2>1. u \in targets => u \in Objects
        BY <1>3, <1>5
    <2>. QED BY <2>1, <1>1, <1>3
<1>8. Quiet(kind, s2, c2, held, globals, d2)
    <2>1. CASE u \in targets
        <3> HIDE DEF s1, c1, d1
        <3>1. Pointed(kind, s1, c1, d1, s2, c2, d2, u, "typemap", types)
            BY <2>1, <1>3, <1>5, <1>7 DEF Pointed
        <3> HIDE DEF s2, c2, d2
        <3>. QED BY <1>6, <3>1, PointTo
    <2>2. CASE u \notin targets
        <3> HIDE DEF s1, c1, d1
        <3>. QED BY <2>2, <1>6
    <2>. QED BY <2>1, <2>2
<1>9. slot' = s2
    <2>1. ASSUME NEW x \in Objects
          PROVE  s1[x] = IF x = v /\ x \in targets THEN [slot[x] EXCEPT !["typemap"] = types] ELSE slot[x]
        BY <1>3
    <2>2. DOMAIN s1 = Objects
        BY <1>3
    <2>3. s1 = [x \in Objects |-> s1[x]]
        BY <1>3 DEF WellTyped
    <2> HIDE DEF s1
    <2>4. ASSUME NEW x \in Objects
          PROVE  s2[x] = IF x \in targets THEN [slot[x] EXCEPT !["typemap"] = types] ELSE slot[x]
        <3>1. s2[x] = IF x = u /\ x \in targets THEN [s1[x] EXCEPT !["typemap"] = types] ELSE s1[x]
            BY <2>2
        <3>2. x \in targets => x = v \/ x = u
            BY <1>5
        <3>. QED BY <3>1, <3>2, <2>1, <1>1, <1>7
    <2>5. s2 = [x \in Objects |-> s2[x]]
        <3>1. CASE u \in targets
            BY <2>2, <3>1
        <3>2. CASE u \notin targets
            BY <2>3, <3>2
        <3>. QED BY <3>1, <3>2
    <2> HIDE DEF s2
    <2>. QED BY <2>4, <2>5, <1>1
<1> DEFINE p == IF v \in targets THEN 1 ELSE 0
           q == IF u \in targets THEN 1 ELSE 0
<1>10. count' = c2
    <2>1. Cardinality(targets) = p + q
        BY <1>1, <1>5, OfTwo
    <2>2. \A x \in Objects : c2[x] = count[x] + (IF x = types THEN p + q ELSE 0)
        <3>1. \A x \in Objects : c1[x] = count[x] + (IF x = types THEN p ELSE 0)
            BY <1>3 DEF More, Is
        <3> HIDE DEF c1
        <3>2. \A x \in Objects : c2[x] = c1[x] + (IF x = types THEN q ELSE 0)
            <4>1. \A x \in Objects : c1[x] \in Int
                BY <3>1, <1>3
            <4>. QED BY <4>1 DEF More, Is
        <3> HIDE DEF c2
        <3>3. p \in {0, 1} /\ q \in {0, 1}
            OBVIOUS
        <3> HIDE DEF p, q
        <3>. QED BY <3>1, <3>2, <3>3, <1>3
    <2>3. c2 = [x \in Objects |-> c2[x]]
        BY <1>3 DEF More
    <2>4. count' = [x \in Objects |-> count[x] + (IF x = types THEN p + q ELSE 0)]
        <3> HIDE DEF p, q
        <3>1. p + q \in Nat
            BY DEF p, q
        <3>2. count' = [count EXCEPT ![types] = @ + (p + q)]
            BY <1>1, <2>1
        <3> DEFINE n == p + q
        <3> HIDE DEF n
        <3>3. \A x \in Objects : count'[x] = count[x] + (IF x = types THEN n ELSE 0)
            BY <1>3, <3>1, <3>2 DEF n
        <3>4. count' = [x \in Objects |-> count'[x]]
            BY <1>3, <3>2
        <3>. QED BY <3>3, <3>4 DEF n
    <2> HIDE DEF c2, p, q
    <2>. QED BY <2>2, <2>3, <2>4
<1>11. drops = d2
    <2>1. ASSUME NEW x \in Objects PROVE drops[x] = d2[x]
        <3> DEFINE T == {t \in old : slot[t].typemap = x}
                   a == IF v \in targets THEN Is(slot[v]["typemap"], x) ELSE 0
                   b == IF u \in targets THEN Is(slot[u]["typemap"], x) ELSE 0
        <3>1. T \subseteq {v, u} /\ x # NULL
            BY <1>0, <1>5, TheObjects
        <3>2. (v \in T <=> v \in targets /\ slot[v]["typemap"] = x)
              /\ (u \in T <=> u \in targets /\ slot[u]["typemap"] = x)
            BY <1>0, <3>1
        <3>3. Cardinality(T) = (IF v \in T THEN 1 ELSE 0) + (IF u \in T THEN 1 ELSE 0)
            <4> HIDE DEF T
            <4>. QED BY <1>1, <3>1, OfTwo
        <3>4. drops[x] = Cardinality(T)
            OBVIOUS
        <3>5. (IF v \in T THEN 1 ELSE 0) = a /\ (IF u \in T THEN 1 ELSE 0) = b
            <4> HIDE DEF T
            <4>. QED BY <3>2 DEF Is
        <3>6. d1[x] = a
            BY DEF NoDrops, Is
        <3>7. a \in Nat /\ b \in Nat
            BY DEF Is
        <3>8. d2[x] = a + b
            <4> HIDE DEF d1, s1
            <4>. QED BY <3>6, <3>7, <1>7
        <3> HIDE DEF T, d2, drops, a, b
        <3>. QED BY <3>3, <3>4, <3>5, <3>8
    <2>2. d2 = [x \in Objects |-> d2[x]]
        BY DEF NoDrops
    <2> HIDE DEF d2
    <2>3. drops = [x \in Objects |-> drops[x]]
        OBVIOUS
    <2> HIDE DEF drops
    <2>. QED BY <2>1, <2>2, <2>3
<1> HIDE DEF s1, s2, c1, c2, d1, d2, drops, p, q
<1>12. Loose(work', d2)
    <2>1. d2 \in [Objects -> Nat]
        BY <1>8, QuietTypes
    <2>. QED BY <2>1, <1>1, <1>11, OneFrame
<1>13. Quiet(kind', slot', count', held', globals', d2)
    BY <1>1, <1>8, <1>9, <1>10
<1>14. crashed' = "no" /\ program' \in Programs
    BY <1>1 DEF HeapInv
<1>. QED BY <1>12, <1>13, <1>14, After

(***************************************************************************)
(* Binding a name to a function.                                           *)
(***************************************************************************)
\* A new object that the program holds and whose pointers are all counted.
Built(K, s, c, h, K2, s2, c2, h2, o, k, r) ==
    /\ o \in Objects /\ o \notin InUse(K) /\ k \in Kinds \ {"layer"}
    /\ r \in [Fields(k) -> InUse(K) \cup {NULL}] /\ \A f \in Names(r) : r[f] = NULL => f \in Optional
    /\ K2 = [K EXCEPT ![o] = k] /\ s2 = [s EXCEPT ![o] = r]
    /\ c2 = [x \in Objects |-> IF x = o THEN 1 ELSE c[x] + Slots(r, x)]
    /\ h2 = [h EXCEPT ![o] = 1]
\* That keeps what holds between two calls.
LEMMA OneBuilt ==
    ASSUME NEW K, NEW s, NEW c, NEW h, NEW g, NEW d, NEW K2, NEW s2, NEW c2, NEW h2, NEW o, NEW k, NEW r,
           Quiet(K, s, c, h, g, d), Built(K, s, c, h, K2, s2, c2, h2, o, k, r)
    PROVE  Quiet(K2, s2, c2, h2, g, d) /\ InUse(K2) = InUse(K) \cup {o}
<1>1. /\ c \in [Objects -> Int] /\ h \in [Objects -> Nat] /\ \A x \in InUse(K) : c[x] > 0
    BY QuietTypes
<1>2. /\ o \in Objects /\ o \notin InUse(K) /\ Names(r) = Fields(k) /\ InUse(K) \subseteq Objects
    BY DEF Built, Names, InUse
<1>3. Names(r) \subseteq FieldNames
    BY <1>2, AllFields DEF Built
<1>4. ASSUME NEW x \in Objects
      PROVE  /\ c2[x] = IF x = o THEN 1 ELSE c[x] + Slots(r, x)
             /\ h2[x] = IF x = o THEN 1 ELSE h[x]
             /\ Slots(r, x) \in Nat /\ c[x] \in Int /\ h[x] \in Nat
    BY <1>1, <1>3, SlotsType DEF Built
<1>5. c2 \in [Objects -> Int] /\ h2 \in [Objects -> Nat] /\ c2[o] = 1 /\ h2[o] = 1
    <2>1. \A x \in Objects : c2[x] \in Int /\ h2[x] \in Nat
        BY <1>4
    <2>2. c2 = [x \in Objects |-> c2[x]] /\ h2 = [x \in Objects |-> h2[x]]
        BY <1>1 DEF Built
    <2>. QED BY <2>1, <2>2, <1>2, <1>4
<1>6. Added(K, s, c, h, K2, s2, c2, h2, o, k, r)
    <2>1. ASSUME NEW x \in Objects, x # o
          PROVE  /\ c2[x] - h2[x] = (c[x] - h[x]) + Slots(r, x) /\ h2[x] <= h[x]
                 /\ h[x] > 0 => h2[x] > 0
        BY <1>4, <2>1
    <2>2. ASSUME NEW x \in InUse(K) PROVE c2[x] > 0
        <3>1. x \in Objects /\ x # o /\ c[x] > 0
            BY <1>1, <1>2
        <3>. QED BY <3>1, <1>4
    <2>. QED BY <2>1, <2>2, <1>5 DEF Added, Built
<1>. QED BY <1>6, OneMore

\* The function is built and bound to its name in the map of the current layer,
\* the old value of which is owed a drop; it takes the program's reference to its
\* type, if it has one.
Bound(K, s, c, h, g, K2, s2, c2, h2, o, m, name, r) ==
    /\ o \in Objects /\ o \notin InUse(K) /\ name \in {"e1", "e2"}
    /\ g.current \in InUse(K) /\ K[g.current] = "layer" /\ m = s[g.current].map /\ K[m] = "map"
    /\ r \in [Fields("function") -> InUse(K) \cup {NULL}]
    /\ \A f \in Names(r) : r[f] = NULL => f \in Optional
    /\ r["typeobj"] \in Objects => h[r["typeobj"]] > 0
    /\ K2 = [K EXCEPT ![o] = "function"] /\ s2 = [[s EXCEPT ![o] = r] EXCEPT ![m][name] = o]
    /\ c2 = [x \in Objects |-> IF x = o THEN 1 ELSE c[x] + Among(Struct["function"], r, x)]
    /\ h2 = Handed(h, r["typeobj"])
\* That keeps what holds between two calls, the old value of the name dropped.
LEMMA FunctionBound ==
    ASSUME NEW K, NEW s, NEW c, NEW h, NEW g, NEW K2, NEW s2, NEW c2, NEW h2, NEW o, NEW m, NEW name, NEW r,
           Quiet(K, s, c, h, g, NoDrops), Bound(K, s, c, h, g, K2, s2, c2, h2, o, m, name, r)
    PROVE  Quiet(K2, s2, c2, h2, g, Once(s[m][name]))
<1> DEFINE t == r["typeobj"]
           l == g.current
           h1 == [h2 EXCEPT ![o] = 1]
           s1 == [s EXCEPT ![o] = r]
           A == InUse(K)
<1>1. /\ c \in [Objects -> Int] /\ h \in [Objects -> Nat] /\ WellTyped(K, s, c, h, g)
      /\ \A x \in A : c[x] > 0
      /\ A \subseteq Objects /\ NULL \notin A /\ DOMAIN s = Objects /\ DOMAIN K = Objects
    BY QuietTypes, GlobalsInUse
<1>2. /\ o \in Objects /\ o \notin A /\ name \in {"e1", "e2"} /\ l \in A /\ K[l] = "layer"
      /\ m = s[l].map /\ K[m] = "map"
    BY DEF Bound
<1>3. /\ m \in A /\ m # o /\ l # o /\ m # l /\ "map" \in Names(s[l]) /\ Names(s[m]) = {"e1", "e2"}
    <2>1. /\ s[l] \in [Fields("layer") -> Objects \cup {NULL}] /\ "map" \in Names(s[l])
        <3>1. s[l] \in [Fields("layer") -> Objects \cup {NULL}]
            BY <1>1, <1>2, KindsApart, SomeFields DEF WellTyped
        <3>. QED BY <3>1, SomeFields DEF Names
    <2>2. m \in Objects
        BY <1>1, <1>2, QuietTypes DEF Layers
    <2>3. s[m] \in [Fields("map") -> Objects \cup {NULL}]
        BY <1>1, <1>2, <2>2, KindsApart, SomeFields DEF WellTyped
    <2>4. m \in A
        BY <1>2, <2>2, KindsApart, SomeFields DEF InUse
    <2>. QED BY <1>2, <2>1, <2>3, <2>4, SomeFields DEF Names
<1>4. h2 \in [Objects -> Nat] /\ \A x \in Objects : h2[x] = h[x] - Is(t, x) /\ h2[x] <= h[x]
                                                    /\ (x # t => h2[x] = h[x])
    BY <1>1, HandedFacts DEF Bound
<1>5. h[o] = 0 /\ t # o /\ h2[o] = 0
    <2>1. h[o] = 0
        BY <1>2, NoneToUnused
    <2>2. t # o
        BY <1>2, <2>1 DEF Bound
    <2>. QED BY <1>2, <1>4, <2>1, <2>2
<1>6. /\ Names(r) = Fields("function") /\ Names(r) \subseteq FieldNames
      /\ Names(r) = Struct["function"] \cup {"typeobj"} /\ "typeobj" \notin Struct["function"]
    <2>1. Names(r) = Fields("function")
        BY DEF Bound, Names
    <2>2. Struct["function"] = {"parameter_list", "code", "layer"}
        BY DEF Struct
    <2>. QED BY <2>1, <2>2, SomeFields, AllFields
<1>7. ASSUME NEW x \in Objects
      PROVE  /\ Slots(r, x) = Among(Struct["function"], r, x) + Is(t, x)
             /\ Among(Struct["function"], r, x) \in Nat /\ Is(t, x) \in {0, 1}
             /\ Is(t, x) = 1 => x = t
    <2>1. Fresh(Struct["function"], "typeobj")
        BY <1>6 DEF Fresh
    <2>2. /\ Among(Struct["function"] \cup {"typeobj"}, r, x)
                 = Among(Struct["function"], r, x) + Is(t, x)
          /\ Among(Struct["function"], r, x) \in Nat
        BY <2>1, AmongOneMore
    <2>3. Slots(r, x) = Among(Names(r), r, x)
        BY DEF Slots, Among, Names
    <2>4. Slots(r, x) = Among(Struct["function"] \cup {"typeobj"}, r, x)
        BY <2>3, <1>6
    <2>5. Is(t, x) \in {0, 1} /\ (Is(t, x) = 1 => x = t)
        BY DEF Is
    <2> HIDE DEF t
    <2>. QED BY <2>2, <2>4, <2>5
<1>8. ASSUME NEW x \in Objects
      PROVE  /\ c2[x] = IF x = o THEN 1 ELSE c[x] + Among(Struct["function"], r, x)
             /\ c[x] \in Int /\ h[x] \in Nat /\ c2[x] \in Int
             /\ h1[x] = IF x = o THEN 1 ELSE h2[x]
    <2>1. c2[x] = IF x = o THEN 1 ELSE c[x] + Among(Struct["function"], r, x)
        BY DEF Bound
    <2>. QED BY <2>1, <1>1, <1>2, <1>4, <1>7
<1>9. c2 \in [Objects -> Int] /\ h1 \in [Objects -> Nat] /\ h1[o] = 1 /\ c2[o] = 1
    <2>1. c2 = [x \in Objects |-> c2[x]]
        BY DEF Bound
    <2>. QED BY <2>1, <1>2, <1>4, <1>8
<1>10. \A x \in A \cup {o} : c2[x] > 0
    <2> TAKE x \in A \cup {o}
    <2>1. CASE x = o
        BY <2>1, <1>9
    <2>2. CASE x # o
        <3>1. x \in Objects /\ c[x] > 0
            BY <2>2, <1>1
        <3>. QED BY <3>1, <2>2, <1>7, <1>8
    <2>. QED BY <2>1, <2>2
<1> HIDE DEF h1
<1>11. Added(K, s, c, h, K2, s1, c2, h1, o, "function", r)
    <2>1. ASSUME NEW x \in Objects, x # o
          PROVE  /\ c2[x] - h1[x] = (c[x] - h[x]) + Slots(r, x)
                 /\ h1[x] <= h[x]
                 /\ h[x] > 0 => h1[x] > 0 \/ \E f \in Names(r) : r[f] = x
        <3>1. /\ c2[x] = c[x] + Among(Struct["function"], r, x) /\ c[x] \in Int /\ h[x] \in Nat
              /\ h1[x] = h[x] - Is(t, x) /\ h1[x] <= h[x]
              /\ Slots(r, x) = Among(Struct["function"], r, x) + Is(t, x)
              /\ Among(Struct["function"], r, x) \in Nat /\ Is(t, x) \in {0, 1}
            BY <2>1, <1>4, <1>7, <1>8
        <3>2. Is(t, x) = 1 => "typeobj" \in Names(r) /\ r["typeobj"] = x
            BY <1>6, <1>7
        <3>. QED BY <3>1, <3>2
    <2>2. "function" \in Kinds /\ "function" # "layer"
        BY SomeFields
    <2>3. \A x \in A : c2[x] > 0
        BY <1>10
    <2> HIDE DEF A
    <2>. QED BY <2>1, <2>2, <2>3, <1>2, <1>9 DEF Added, Bound, A
<1>12. Quiet(K2, s1, c2, h1, g, NoDrops) /\ InUse(K2) = A \cup {o}
    <2> HIDE DEF s1
    <2>. QED BY <1>11, OneMore
<1>13. s1[m] = s[m] /\ s1[l] = s[l]
    BY <1>1, <1>2, <1>3
<1> HIDE DEF A, s1
<1>14. s2 = [s1 EXCEPT ![m][name] = o]
    BY DEF Bound, s1
<1>15. Overwritten(s1, s2, m, name, o)
    <2>1. WellTyped(K2, s1, c2, h1, g)
        BY <1>12, QuietTypes
    <2>2. m \in Objects /\ name \in Names(s1[m])
        BY <1>1, <1>2, <1>3, <1>13
    <2>. QED BY <1>14, <2>1, <2>2, Overwrite
<1>16. Once(s[m][name]) = [x \in Objects |-> NoDrops[x] + Is(s1[m][name], x)]
    <2>1. \A x \in Objects : NoDrops[x] + Is(s[m][name], x) = Is(s[m][name], x)
        BY DEF NoDrops, Is
    <2>. QED BY <2>1, <1>13 DEF Once
<1>17. Rewritten(K2, s1, c2, h1, NoDrops, s2, c2, h2, Once(s[m][name]), m, name, o)
    <2>1. ASSUME NEW x \in Objects
          PROVE  c2[x] - h2[x] = (c2[x] - h1[x]) + Is(o, x) /\ h2[x] <= h1[x]
        <3>1. CASE x = o
            BY <3>1, <1>5, <1>9 DEF Is
        <3>2. CASE x # o
            <4>1. h1[x] = h2[x] /\ Is(o, x) = 0 /\ h2[x] \in Nat /\ c2[x] \in Int
                BY <3>2, <1>4, <1>8 DEF Is
            <4>. QED BY <4>1
        <3>. QED BY <3>1, <3>2
    <2>2. m \in InUse(K2) /\ o \in InUse(K2) /\ name \in Names(s1[m]) /\ name # "map" /\ o # NULL
        BY <1>2, <1>3, <1>12, <1>13, TheObjects
    <2>3. \A x \in InUse(K2) : c2[x] > 0
        BY <1>10, <1>12
    <2>. QED BY <2>1, <2>2, <2>3, <1>4, <1>9, <1>15, <1>16 DEF Rewritten
<1>18. Stays(K2, s2, h2, g, Once(s[m][name]), m)
    <2> SUFFICES ASSUME NEW S \in SUBSET Objects, Shut(S, InUse(K2), {}, s2, h2, g, Once(s[m][name]))
                 PROVE  m \in S
        BY DEF Stays
    <2>1. l \in S
        <3>1. l \in Objects
            BY <1>1, <1>2
        <3>2. /\ h2[l] \in Nat /\ GlobalCount(g, l) \in Nat /\ GlobalCount(g, l) > 0
              /\ Once(s[m][name])[l] \in Nat
            BY <3>1, <1>4, GlobalCountType DEF Once, Is
        <3>3. h2[l] + GlobalCount(g, l) + Once(s[m][name])[l] > 0
            BY <3>2
        <3>. QED BY <3>1, <3>3 DEF Shut
    <2>2. s2[l] = s[l]
        <3>1. s2[l] = s1[l]
            BY <1>1, <1>2, <1>3, <1>15 DEF Overwritten, Agree
        <3>. QED BY <3>1, <1>13
    <2>3. l \in InUse(K2) /\ "map" \in Names(s2[l]) /\ s2[l]["map"] = m /\ m # NULL
        BY <1>1, <1>2, <1>3, <1>12, <2>2
    <2>4. s2[l]["map"] \in S
        BY <2>1, <2>3 DEF Shut
    <2>. QED BY <2>3, <2>4
<1>19. Kept(K2, s2, h1, h2, g, Once(s[m][name]))
    <2>1. Once(s[m][name]) \in [Objects -> Nat]
        BY DEF Once, Is
    <2>2. name \in Names(s2[m]) /\ s2[m][name] = o
        BY <1>3, <1>2, <1>13, <1>15 DEF Overwritten, ButFor, Names
    <2>3. m \in InUse(K2) /\ \A x \in Objects : x # o => h2[x] = h1[x]
        BY <1>3, <1>8, <1>12
    <2>. QED BY <2>1, <2>2, <2>3, <1>4, <1>9, <1>18, GivenStaysReached
<1>. QED BY <1>12, <1>17, <1>19, OneSlot

\* What a definition, and the type that a name is declared with, point to.
LEMMA DefParts ==
    ASSUME NEW K, NEW s, NEW c, NEW h, NEW g, NEW d, Quiet(K, s, c, h, g, d)
    PROVE  /\ \A x \in InUse(K) : K[x] = "def" =>
                  /\ Names(s[x]) = {"type_spec", "parameter_list", "body"}
                  /\ s[x].parameter_list \in InUse(K) /\ s[x].body \in InUse(K)
           /\ \A x \in InUse(K) : K[x] = "type" =>
                  /\ Names(s[x]) = {"type_spec", "typemap", "typeobj"}
                  /\ s[x].type_spec \in InUse(K) \cup {NULL}
           /\ \A x \in InUse(K) : K[x] = "layer" =>
                  /\ s[x].map \in InUse(K) /\ K[s[x].map] = "map"
           /\ \A x \in InUse(K) : K[x] = "map" =>
                  /\ Names(s[x]) = {"e1", "e2"} /\ \A f \in {"e1", "e2"} : s[x][f] \in InUse(K) \cup {NULL}
<1>1. /\ WellTyped(K, s, c, h, g) /\ Filled(s) /\ Layers(InUse(K), K, s, g)
      /\ \A x \in InUse(K) : \A f \in Names(s[x]) : s[x][f] \in InUse(K) \cup {NULL}
      /\ \A x \in InUse(K) : x \in Objects
    BY GlobalsInUse DEF Quiet, Sound, InUse
<1>2. ASSUME NEW x \in InUse(K) PROVE Names(s[x]) = Fields(K[x])
    <2>1. s[x] \in [Fields(K[x]) -> Objects \cup {NULL}]
        BY <1>1, <1>2 DEF WellTyped, InUse
    <2>. QED BY <2>1 DEF Names
<1>3. ASSUME NEW x \in InUse(K), K[x] = "def"
      PROVE  /\ Names(s[x]) = {"type_spec", "parameter_list", "body"}
             /\ s[x].parameter_list \in InUse(K) /\ s[x].body \in InUse(K)
    <2>1. Names(s[x]) = {"type_spec", "parameter_list", "body"}
        BY <1>2, <1>3, SomeFields
    <2>2. "parameter_list" \notin Optional /\ "body" \notin Optional
        BY DEF Optional
    <2>. QED BY <1>1, <2>1, <2>2 DEF Filled
<1>4. ASSUME NEW x \in InUse(K), K[x] = "type"
      PROVE  /\ Names(s[x]) = {"type_spec", "typemap", "typeobj"}
             /\ s[x].type_spec \in InUse(K) \cup {NULL}
    <2>1. Names(s[x]) = {"type_spec", "typemap", "typeobj"}
        BY <1>2, <1>4, SomeFields
    <2>. QED BY <1>1, <2>1
<1>5. ASSUME NEW x \in InUse(K), K[x] = "layer"
      PROVE  s[x].map \in InUse(K) /\ K[s[x].map] = "map"
    <2>1. s[x].map \in Objects /\ K[s[x].map] = "map"
        BY <1>1, <1>5 DEF Layers
    <2>. QED BY <2>1, KindsApart, SomeFields DEF InUse
<1>6. ASSUME NEW x \in InUse(K), K[x] = "map"
      PROVE  Names(s[x]) = {"e1", "e2"} /\ \A f \in {"e1", "e2"} : s[x][f] \in InUse(K) \cup {NULL}
    <2>1. Names(s[x]) = {"e1", "e2"}
        BY <1>2, <1>6, SomeFields
    <2>. QED BY <1>1, <2>1
<1>. QED BY <1>3, <1>4, <1>5, <1>6

\* A function is built from its tree and bound to its name, with the type that
\* was declared for it if there is one (Minimal_Layer_addTree).
LEMMA AddFunctionKeeps ==
    ASSUME HeapInv, NEW def \in Objects, NEW name \in {"e1", "e2"}, NEW o \in Cells, NEW t \in Cells,
           AddFunction(def, name, o, t)
    PROVE  HeapInv'
<1> DEFINE l == globals.current
           m == slot[l].map
           decl == slot[m][name]
           spec == slot[decl].type_spec
<1> DEFINE typed == decl # NULL /\ kind[decl] = "type" /\ slot[decl].type_spec # NULL
           funct == [parameter_list |-> slot[def].parameter_list, code |-> slot[def].body,
                     layer |-> l, typeobj |-> IF typed THEN t ELSE NULL]
           type == [type_spec |-> spec, typemap |-> l, typeobj |-> globals.typeType]
           added(x) == Cardinality({f \in Struct["function"] : funct[f] = x})
                       + IF typed THEN Cardinality({f \in Fields("type") : type[f] = x})
                                       + (IF x = spec THEN 1 ELSE 0)
                         ELSE 0
           A == InUse(kind)
<1>1. /\ work = <<>> /\ Running /\ held[def] > 0 /\ kind[def] = "def" /\ slot[def].type_spec = NULL
      /\ Unused({o, t}) /\ (typed <=> o # t)
      /\ kind' = [x \in Objects |-> IF x = o THEN "function"
                                    ELSE IF typed /\ x = t THEN "type" ELSE kind[x]]
      /\ slot' = [x \in Objects |->
                    CASE x = o -> funct
                      [] typed /\ x = t -> type
                      [] typed /\ x = def -> [slot[x] EXCEPT !.type_spec = spec]
                      [] x = m -> [slot[x] EXCEPT ![name] = o]
                      [] OTHER -> slot[x]]
      /\ count' = [x \in Objects |-> IF x = o \/ (typed /\ x = t) THEN 1 ELSE count[x] + added(x)]
      /\ AfterDrop(decl)
      /\ UNCHANGED <<held, globals, crashed, program>>
    BY DEF AddFunction, Calling, Holding
<1>0. l = globals.current /\ m = slot[l].map /\ decl = slot[m][name] /\ spec = slot[decl].type_spec
    OBVIOUS
<1> HIDE DEF l, m, decl, spec
<1>2. Quiet(kind, slot, count, held, globals, NoDrops)
    BY <1>1, Before
<1>3. o \in Objects /\ o \notin A /\ t \in Objects /\ t \notin A
    BY <1>1, UnusedCell
<1>4. /\ count \in [Objects -> Int] /\ held \in [Objects -> Nat] /\ A \subseteq Objects /\ NULL \notin A
      /\ DOMAIN kind = Objects /\ DOMAIN slot = Objects /\ slot = [x \in Objects |-> slot[x]]
      /\ held[o] = 0 /\ held[t] = 0 /\ def \in A
      /\ l \in A /\ kind[l] = "layer" /\ globals.typeType \in A
    <2>1. held[o] = 0 /\ held[t] = 0
        BY <1>2, <1>3, NoneToUnused
    <2>2. /\ def \in A /\ l \in A /\ kind[l] = "layer" /\ globals.typeType \in A
          /\ A \subseteq Objects /\ NULL \notin A /\ DOMAIN kind = Objects /\ DOMAIN slot = Objects
        <3>1. held[def] > 0 /\ globals.default # NULL
            BY <1>1 DEF Running
        <3> HIDE DEF A
        <3>2. /\ \A x \in Objects : held[x] > 0 => x \in A
              /\ globals.current \in A /\ globals.typeType \in A /\ kind[globals.current] = "layer"
              /\ A \subseteq Objects /\ NULL \notin A /\ DOMAIN kind = Objects /\ DOMAIN slot = Objects
            BY <1>2, <3>1, GlobalsInUse DEF A
        <3>. QED BY <1>0, <3>1, <3>2
    <2>3. count \in [Objects -> Int] /\ held \in [Objects -> Nat] /\ slot = [x \in Objects |-> slot[x]]
        BY <1>2, QuietTypes DEF WellTyped
    <2>. QED BY <2>1, <2>2, <2>3
<1>5. /\ m \in A /\ kind[m] = "map" /\ Names(slot[m]) = {"e1", "e2"} /\ decl \in A \cup {NULL}
      /\ slot[def].parameter_list \in A /\ slot[def].body \in A
      /\ Names(slot[def]) = {"type_spec", "parameter_list", "body"}
    <2>1. kind[def] = "def"
        BY <1>1
    <2>5. /\ \A x \in A : kind[x] = "def" =>
                /\ Names(slot[x]) = {"type_spec", "parameter_list", "body"}
                /\ slot[x].parameter_list \in A /\ slot[x].body \in A
          /\ \A x \in A : kind[x] = "layer" => slot[x].map \in A /\ kind[slot[x].map] = "map"
          /\ \A x \in A : kind[x] = "map" =>
                /\ Names(slot[x]) = {"e1", "e2"} /\ \A f \in {"e1", "e2"} : slot[x][f] \in A \cup {NULL}
        <3> HIDE DEF InUse, Quiet
        <3>. QED BY <1>2, DefParts
    <2> HIDE DEF A
    <2>2. m \in A /\ kind[m] = "map"
        BY <1>0, <1>4, <2>5
    <2>3. Names(slot[m]) = {"e1", "e2"} /\ decl \in A \cup {NULL}
        BY <1>0, <2>2, <2>5
    <2>4. /\ slot[def].parameter_list \in A /\ slot[def].body \in A
          /\ Names(slot[def]) = {"type_spec", "parameter_list", "body"}
        BY <1>4, <2>1, <2>5
    <2>. QED BY <2>2, <2>3, <2>4
<1>6. m # def /\ m # l /\ m # o /\ m # t /\ def # o /\ def # t
    BY <1>1, <1>3, <1>4, <1>5
<1>7. Names(funct) = {"parameter_list", "code", "layer", "typeobj"}
    BY DEF Names
<1>8. Loose(work', Once(decl))
    BY <1>1, <1>4, <1>5, DropOwed
<1>9. crashed' = "no" /\ program' \in Programs
    BY <1>1 DEF HeapInv
<1>10. Struct["function"] = {"parameter_list", "code", "layer"}
    BY DEF Struct
<1>11. CASE ~typed
    <2>1. /\ funct \in [Fields("function") -> A \cup {NULL}]
          /\ \A f \in Names(funct) : funct[f] = NULL => f \in Optional
          /\ funct["typeobj"] = NULL
        <3>1. funct["typeobj"] = NULL
            BY <1>11
        <3>2. funct["parameter_list"] \in A /\ funct["code"] \in A /\ funct["layer"] \in A
            BY <1>4, <1>5
        <3>3. "typeobj" \in Optional
            BY DEF Optional
        <3>4. funct = [f \in {"parameter_list", "code", "layer", "typeobj"} |-> funct[f]]
            OBVIOUS
        <3> HIDE DEF funct, A
        <3>. QED BY <3>1, <3>2, <3>3, <3>4, <1>4, <1>7, SomeFields
    <2>2. kind' = [kind EXCEPT ![o] = "function"]
        BY <1>1, <1>3, <1>4, <1>11
    <2>3. \A x \in Objects : slot'[x] = IF x = o THEN funct ELSE IF x = m THEN [slot[x] EXCEPT ![name] = o]
                                        ELSE slot[x]
        <3> HIDE DEF funct, type
        <3>1. \A x \in Objects : slot'[x] = CASE x = o -> funct [] x = m -> [slot[x] EXCEPT ![name] = o]
                                               [] OTHER -> slot[x]
            BY <1>1, <1>6, <1>11
        <3>. QED BY <3>1, <1>6
    <2>4. slot' = [[slot EXCEPT ![o] = funct] EXCEPT ![m][name] = o]
        <3> HIDE DEF funct
        <3> DEFINE s1 == [slot EXCEPT ![o] = funct]
                   s == [s1 EXCEPT ![m][name] = o]
        <3>5. s1 = [x \in Objects |-> s1[x]] /\ \A x \in Objects : s1[x] = IF x = o THEN funct ELSE slot[x]
            BY <1>3, <1>4
        <3> HIDE DEF s1
        <3>6. m \in Objects /\ m # o /\ DOMAIN s1 = Objects
            BY <1>4, <1>5, <1>6, <3>5
        <3>7. \A x \in Objects : s[x] = IF x = m THEN [s1[x] EXCEPT ![name] = o] ELSE s1[x]
            BY <3>6
        <3>1. \A x \in Objects : s[x] = IF x = o THEN funct ELSE IF x = m THEN [slot[x] EXCEPT ![name] = o]
                                        ELSE slot[x]
            <4> HIDE DEF s
            <4> TAKE x \in Objects
            <4>1. CASE x = o
                BY <4>1, <3>5, <3>6, <3>7
            <4>2. CASE x = m
                <5>1. s1[x] = slot[x]
                    BY <4>2, <3>5, <3>6
                <5>2. s[x] = [s1[x] EXCEPT ![name] = o]
                    BY <4>2, <3>7
                <5>. QED BY <5>1, <5>2, <4>2, <3>6
            <4>3. CASE x # o /\ x # m
                BY <4>3, <3>5, <3>7
            <4>. QED BY <4>1, <4>2, <4>3
        <3>2. s = [x \in Objects |-> s[x]]
            BY <3>5, <3>6
        <3>4. slot' = [x \in Objects |-> slot'[x]]
            BY <1>1
        <3> HIDE DEF s
        <3>3. slot' = s
            BY <2>3, <3>1, <3>2, <3>4
        <3>. QED BY <3>3 DEF s, s1
    <2>5. count' = [x \in Objects |-> IF x = o THEN 1 ELSE count[x] + Among(Struct["function"], funct, x)]
        <3>1. \A x \in Objects : added(x) = Among(Struct["function"], funct, x)
            <4> TAKE x \in Objects
            <4>1. Among(Struct["function"], funct, x) \in Nat
                <5>1. Fresh(Struct["function"], "typeobj")
                    BY <1>7, <1>10, SomeFields, AllFields DEF Fresh
                <5>. QED BY <5>1, AmongOneMore
            <4>2. added(x) = Cardinality({f \in Struct["function"] : funct[f] = x}) + 0
                BY <1>11
            <4> HIDE DEF added, funct
            <4>. QED BY <4>1, <4>2 DEF Among
        <3> HIDE DEF added, funct
        <3>2. \A x \in Objects : count'[x] = IF x = o THEN 1 ELSE count[x] + Among(Struct["function"], funct, x)
            BY <1>1, <1>11, <3>1
        <3>3. count' = [x \in Objects |-> count'[x]]
            BY <1>1
        <3>. QED BY <3>2, <3>3
    <2>6. held' = Handed(held, funct["typeobj"])
        <3>1. \A x \in Objects : Handed(held, NULL)[x] = held[x]
            BY TheObjects DEF Handed
        <3>2. Handed(held, NULL) = held
            BY <3>1, <1>4 DEF Handed
        <3> HIDE DEF funct
        <3>. QED BY <3>2, <2>1, <1>1
    <2> HIDE DEF funct, A
    <2>7. Bound(kind, slot, count, held, globals, kind', slot', count', held', o, m, name, funct)
        BY <1>0, <1>3, <1>4, <1>5, <2>1, <2>2, <2>4, <2>5, <2>6, TheObjects DEF Bound, A
    <2>8. Quiet(kind', slot', count', held', globals, Once(slot[m][name]))
        BY <1>2, <2>7, FunctionBound
    <2>. QED BY <1>0, <1>1, <1>8, <1>9, <2>8, After
<1>12. CASE typed
    <2> DEFINE K == [kind EXCEPT ![t] = "type"]
               s1 == [slot EXCEPT ![t] = type]
               c1 == [x \in Objects |-> IF x = t THEN 1 ELSE count[x] + Slots(type, x)]
               h == [held EXCEPT ![t] = 1]
               s == [s1 EXCEPT ![def]["type_spec"] = spec]
               c == More(c1, spec)
    <2>1. spec \in A /\ decl \in A
        BY <1>0, <1>2, <1>5, <1>12, DefParts
    <2>2. /\ Names(type) = {"type_spec", "typemap", "typeobj"}
          /\ type \in [Fields("type") -> A \cup {NULL}] /\ \A f \in Names(type) : type[f] # NULL
        BY <1>4, <2>1, SomeFields DEF Names
    <2>3. Built(kind, slot, count, held, K, s1, c1, h, t, "type", type)
        <3>1. "type" \in Kinds \ {"layer"}
            BY SomeFields
        <3> HIDE DEF type
        <3>. QED BY <1>3, <2>2, <3>1 DEF Built
    <2>4. Quiet(K, s1, c1, h, globals, NoDrops) /\ InUse(K) = A \cup {t}
        <3> HIDE DEF K, s1, c1, h, type
        <3>. QED BY <1>2, <2>3, OneBuilt
    <2>5. /\ s1[def] = slot[def] /\ s1[m] = slot[m] /\ s1[l] = slot[l] /\ s1[t] = type
          /\ K[m] = "map" /\ K[l] = "layer" /\ o # t /\ l # t
        BY <1>1, <1>3, <1>4, <1>5, <1>6, <1>12
    <2>6. Quiet(K, s, c, h, globals, NoDrops)
        <3>1. NoDrops = [x \in Objects |-> NoDrops[x] + Is(s1[def]["type_spec"], x)]
            <4>1. s1[def]["type_spec"] = NULL
                BY <1>1, <2>5
            <4> HIDE DEF s1
            <4>. QED BY <4>1, TheObjects DEF NoDrops, Is
        <3> HIDE DEF K, s1, c1, h, A
        <3>2. Pointed(K, s1, c1, NoDrops, s, c, NoDrops, def, "type_spec", spec)
            <4>1. def \in InUse(K) /\ "type_spec" \in Names(s1[def]) /\ spec \in InUse(K)
                BY <1>4, <1>5, <2>1, <2>4, <2>5
            <4>. QED BY <4>1, <3>1 DEF Pointed
        <3> HIDE DEF s, c
        <3>. QED BY <2>4, <3>2, PointTo
    <2>7. /\ \A x \in Objects : s[x] = IF x = t THEN type ELSE IF x = def
                                       THEN [slot[x] EXCEPT !["type_spec"] = spec] ELSE slot[x]
          /\ s = [x \in Objects |-> s[x]] /\ DOMAIN s = Objects
        <3>1. \A x \in Objects : s1[x] = IF x = t THEN type ELSE slot[x]
            BY <1>3, <1>4
        <3>2. s1 = [x \in Objects |-> s1[x]]
            BY <1>3, <1>4
        <3> HIDE DEF s1, type
        <3>3. \A x \in Objects : s[x] = IF x = def THEN [s1[x] EXCEPT !["type_spec"] = spec] ELSE s1[x]
            BY <1>4, <3>2
        <3>4. s = [x \in Objects |-> s[x]] /\ DOMAIN s = Objects
            BY <1>4, <3>2
        <3> HIDE DEF s
        <3>. QED BY <3>1, <3>3, <3>4, <1>6
    <2>8. s[m] = slot[m] /\ s[l] = slot[l]
        <3>1. l # def
            BY <1>1, <1>4
        <3> HIDE DEF s
        <3>. QED BY <2>5, <2>7, <1>4, <1>5, <1>6, <3>1
    <2>9. /\ funct \in [Fields("function") -> InUse(K) \cup {NULL}]
          /\ \A f \in Names(funct) : funct[f] # NULL
          /\ funct["typeobj"] = t
        <3>1. funct["typeobj"] = t
            BY <1>12
        <3>2. funct["parameter_list"] \in A /\ funct["code"] \in A /\ funct["layer"] \in A
            BY <1>4, <1>5
        <3>3. funct = [f \in {"parameter_list", "code", "layer", "typeobj"} |-> funct[f]]
            OBVIOUS
        <3> HIDE DEF funct, A, K
        <3>. QED BY <3>1, <3>2, <3>3, <1>3, <1>4, <1>7, <2>4, SomeFields, TheObjects
    <2>10. kind' = [K EXCEPT ![o] = "function"]
        BY <1>1, <1>3, <1>4, <1>12
    <2>11. slot' = [[s EXCEPT ![o] = funct] EXCEPT ![m][name] = o]
        <3> HIDE DEF funct, type, s
        <3> DEFINE w == [s EXCEPT ![o] = funct]
                   u == [w EXCEPT ![m][name] = o]
        <3>6. m \in Objects /\ m # o
            BY <1>4, <1>5, <1>6
        <3>7. w = [x \in Objects |-> w[x]] /\ \A x \in Objects : w[x] = IF x = o THEN funct ELSE s[x]
            BY <1>3, <2>7
        <3> HIDE DEF w
        <3>8. \A x \in Objects : u[x] = IF x = m THEN [w[x] EXCEPT ![name] = o] ELSE w[x]
            BY <3>6, <3>7
        <3>9. u = [x \in Objects |-> u[x]]
            BY <3>6, <3>7
        <3>1. \A x \in Objects : u[x] = IF x = o THEN funct ELSE IF x = m THEN [s[x] EXCEPT ![name] = o] ELSE s[x]
            <4> HIDE DEF u
            <4>. QED BY <3>6, <3>7, <3>8
        <3>2. \A x \in Objects : slot'[x] = CASE x = o -> funct
                                              [] x = t -> type
                                              [] x = def -> [slot[x] EXCEPT !.type_spec = spec]
                                              [] x = m -> [slot[x] EXCEPT ![name] = o]
                                              [] OTHER -> slot[x]
            BY <1>1, <1>12
        <3>3. \A x \in Objects : slot'[x] = IF x = o THEN funct ELSE IF x = t THEN type
                                            ELSE IF x = def THEN [slot[x] EXCEPT !.type_spec = spec]
                                            ELSE IF x = m THEN [slot[x] EXCEPT ![name] = o] ELSE slot[x]
            <4> TAKE x \in Objects
            <4>1. CASE x = o
                BY <4>1, <3>2, <1>6, <2>5
            <4>2. CASE x = t
                BY <4>2, <3>2, <1>6, <2>5
            <4>3. CASE x = def
                BY <4>3, <3>2, <1>6, <2>5
            <4>4. CASE x = m
                BY <4>4, <3>2, <1>6, <2>5
            <4>5. CASE x \notin {o, t, def, m}
                BY <4>5, <3>2
            <4>. QED BY <4>1, <4>2, <4>3, <4>4, <4>5
        <3>4. slot' = [x \in Objects |-> slot'[x]]
            BY <1>1
        <3> HIDE DEF u
        <3>10. \A x \in Objects : slot'[x] = u[x]
            <4> TAKE x \in Objects
            <4>1. CASE x = o
                BY <4>1, <3>1, <3>3
            <4>2. CASE x = t
                <5>1. u[x] = s[x] /\ s[x] = type
                    BY <4>2, <3>1, <2>5, <2>7, <1>6
                <5>2. slot'[x] = type
                    BY <4>2, <3>3, <2>5
                <5>. QED BY <5>1, <5>2
            <4>3. CASE x = def
                BY <4>3, <3>1, <3>3, <2>7, <1>6
            <4>4. CASE x = m
                <5>1. s[x] = slot[x]
                    BY <4>4, <2>7, <1>6
                <5>2. u[x] = [s[x] EXCEPT ![name] = o]
                    BY <4>4, <3>1, <1>6
                <5>3. slot'[x] = [slot[x] EXCEPT ![name] = o]
                    BY <4>4, <3>3, <1>6
                <5>. QED BY <5>1, <5>2, <5>3
            <4>5. CASE x \notin {o, t, def, m}
                BY <4>5, <3>1, <3>3, <2>7
            <4>. QED BY <4>1, <4>2, <4>3, <4>4, <4>5
        <3>5. slot' = u
            BY <3>4, <3>9, <3>10
        <3>. QED BY <3>5 DEF u, w
    <2>12. ASSUME NEW x \in Objects
           PROVE  /\ Among(Struct["function"], funct, x) \in Nat /\ Slots(type, x) \in Nat
                  /\ Is(spec, x) \in {0, 1} /\ count[x] \in Int
                  /\ added(x) = Among(Struct["function"], funct, x) + (Slots(type, x) + Is(spec, x))
                  /\ x = t => Among(Struct["function"], funct, x) = 0 /\ Is(spec, x) = 0
        <3>1. Fresh(Struct["function"], "typeobj")
            BY <1>7, <1>10, SomeFields, AllFields DEF Fresh
        <3>2. Among(Struct["function"], funct, x) \in Nat
            BY <3>1, AmongOneMore
        <3>3. Slots(type, x) \in Nat
            <4>1. Names(type) \subseteq FieldNames
                BY <2>2, SomeFields, AllFields
            <4> HIDE DEF type
            <4>. QED BY <4>1, SlotsType
        <3>4. Cardinality({f \in Fields("type") : type[f] = x}) = Slots(type, x)
            <4> HIDE DEF type
            <4>. QED BY <2>2, SomeFields DEF Slots, Names
        <3>5. added(x) = Cardinality({f \in Struct["function"] : funct[f] = x})
                         + (Cardinality({f \in Fields("type") : type[f] = x}) + (IF x = spec THEN 1 ELSE 0))
            BY <1>12
        <3>6. x = t => {f \in Struct["function"] : funct[f] = x} = {} /\ Is(spec, x) = 0
            <4>1. x = t => funct["parameter_list"] # x /\ funct["code"] # x /\ funct["layer"] # x
                BY <1>3, <1>4, <1>5
            <4> HIDE DEF funct
            <4>. QED BY <4>1, <1>3, <1>10, <2>1 DEF Is
        <3> HIDE DEF added, funct, type
        <3>. QED BY <3>2, <3>3, <3>4, <3>5, <3>6, <1>4, FS_EmptySet DEF Among, Is
    <2>13. count' = [x \in Objects |-> IF x = o THEN 1 ELSE c[x] + Among(Struct["function"], funct, x)]
        <3> HIDE DEF added, funct, type
        <3>1. \A x \in Objects : count'[x] = IF x = o \/ x = t THEN 1 ELSE count[x] + added(x)
            BY <1>1, <1>12
        <3>2. \A x \in Objects : c[x] = (IF x = t THEN 1 ELSE count[x] + Slots(type, x)) + Is(spec, x)
            BY DEF More
        <3> HIDE DEF c
        <3>3. ASSUME NEW x \in Objects
              PROVE  count'[x] = IF x = o THEN 1 ELSE c[x] + Among(Struct["function"], funct, x)
            BY <2>5, <2>12, <3>1, <3>2
        <3>4. count' = [x \in Objects |-> count'[x]]
            BY <1>1
        <3>. QED BY <3>3, <3>4
    <2>14. held' = Handed(h, t) /\ h[t] > 0
        <3>1. \A x \in Objects : h[x] = IF x = t THEN 1 ELSE held[x]
            BY <1>4
        <3> HIDE DEF h
        <3>2. \A x \in Objects : Handed(h, t)[x] = held[x]
            BY <1>4, <3>1 DEF Handed
        <3>3. Handed(h, t) = held
            BY <3>2, <1>4 DEF Handed
        <3>. QED BY <3>1, <3>3, <1>1, <1>3
    <2> HIDE DEF funct, type, K, s, c, h, s1, c1
    <2>15. Bound(K, s, c, h, globals, kind', slot', count', held', o, m, name, funct)
        <3>1. o \notin InUse(K) /\ globals.current \in InUse(K) /\ K[globals.current] = "layer"
              /\ m = s[globals.current].map /\ K[m] = "map"
            BY <1>0, <1>3, <1>4, <2>4, <2>5, <2>8
        <3>2. held' = Handed(h, funct["typeobj"]) /\ h[funct["typeobj"]] > 0
            BY <2>9, <2>14
        <3>. QED BY <1>3, <2>9, <2>10, <2>11, <2>13, <3>1, <3>2 DEF Bound
    <2>16. Quiet(kind', slot', count', held', globals, Once(s[m][name]))
        BY <2>6, <2>15, FunctionBound
    <2>17. s[m][name] = decl
        BY <1>0, <2>8
    <2>. QED BY <1>1, <1>8, <1>9, <2>16, <2>17, After
<1>. QED BY <1>11, <1>12

(***************************************************************************)
(* Copies.  C are the objects copied, copy[x] is the copy of x, t are the  *)
(* pointers after: those to a copied object lead to its copy, the others   *)
(* are shared.                                                             *)
(***************************************************************************)
Images(C, copy) == {copy[x] : x \in C}
OneToOne(C, copy) == \A x, y \in C : copy[x] = copy[y] => x = y
Mirrors(A, C, copy, K, s, t) ==
    /\ A \in SUBSET Objects /\ C \subseteq A /\ OneToOne(C, copy)
    /\ \A x \in C : copy[x] \in Objects /\ copy[x] \notin A
    /\ \A x \in C : Names(s[x]) \subseteq FieldNames /\ Names(t[copy[x]]) = Names(s[x])
                    /\ Followed(K[x]) \subseteq Names(s[x])
    /\ \A x \in C : \A f \in Names(s[x]) :
          /\ s[x][f] \in A \cup {NULL}
          /\ f \in Followed(K[x]) => s[x][f] \in C \cup {NULL}
          /\ t[copy[x]][f] = IF f \in Followed(K[x]) /\ s[x][f] # NULL THEN copy[s[x][f]] ELSE s[x][f]

\* Where the pointers of the copies lead.
LEMMA MirrorPointers ==
    ASSUME NEW A, NEW C, NEW copy, NEW K, NEW s, NEW t, Mirrors(A, C, copy, K, s, t),
           NEW x \in C, NEW f \in Names(s[x])
    PROVE  /\ \A w \in C : t[copy[x]][f] = copy[w] <=> f \in Followed(K[x]) /\ s[x][f] = w
           /\ \A w \in A : t[copy[x]][f] = w <=> f \notin Followed(K[x]) /\ s[x][f] = w
           /\ t[copy[x]][f] \in A \cup Images(C, copy) \cup {NULL}
           /\ t[copy[x]][f] = NULL <=> s[x][f] = NULL
<1> DEFINE p == s[x][f]
           q == t[copy[x]][f]
<1>1. /\ p \in A \cup {NULL}
      /\ f \in Followed(K[x]) => p \in C \cup {NULL}
      /\ q = IF f \in Followed(K[x]) /\ p # NULL THEN copy[p] ELSE p
    BY DEF Mirrors
<1>2. /\ C \subseteq A /\ A \subseteq Objects /\ NULL \notin Objects
      /\ \A w \in C : copy[w] \in Objects /\ copy[w] \notin A
    BY TheObjects DEF Mirrors
<1>3. \A w, y \in C : copy[w] = copy[y] => w = y
    BY DEF Mirrors, OneToOne
<1> HIDE DEF p, q
<1>4. CASE f \in Followed(K[x]) /\ p # NULL
    <2>1. p \in C /\ q = copy[p]
        BY <1>1, <1>4
    <2>2. \A w \in C : q = copy[w] <=> p = w
        BY <2>1, <1>3
    <2>3. \A w \in A : q # w
        BY <2>1, <1>2
    <2>4. q \in Images(C, copy) /\ q # NULL
        BY <2>1, <1>2 DEF Images
    <2>. QED BY <2>2, <2>3, <2>4, <1>4 DEF p, q
<1>5. CASE ~(f \in Followed(K[x]) /\ p # NULL)
    <2>1. q = p
        BY <1>1, <1>5
    <2>2. \A w \in C : q # copy[w]
        BY <2>1, <1>1, <1>2
    <2>3. \A w \in C : ~(f \in Followed(K[x]) /\ p = w)
        BY <1>2, <1>5
    <2>4. \A w \in A : q = w <=> f \notin Followed(K[x]) /\ p = w
        BY <2>1, <1>2, <1>5
    <2>. QED BY <2>1, <2>2, <2>3, <2>4, <1>1 DEF p, q
<1>. QED BY <1>4, <1>5

\* The pointers of the copies to x are as many as the pairs P they stand for.
Reflects(P, C, copy, t, x) ==
    /\ C \in SUBSET Objects /\ OneToOne(C, copy) /\ P \subseteq C \X FieldNames
    /\ \A w \in C : \A f \in FieldNames :
          <<w, f>> \in P <=> f \in Names(t[copy[w]]) /\ t[copy[w]][f] = x
\* There are as many.
LEMMA ReflectCount ==
    \A P, C, copy, t, x : Reflects(P, C, copy, t, x) => Deg(Images(C, copy), t, {}, x) = Cardinality(P)
<1> SUFFICES ASSUME NEW P, NEW C, NEW copy, NEW t, NEW x, Reflects(P, C, copy, t, x)
             PROVE  Deg(Images(C, copy), t, {}, x) = Cardinality(P)
    OBVIOUS
<1> DEFINE Q == Refs(Images(C, copy), t, {}, x)
           m == [p \in P |-> <<copy[p[1]], p[2]>>]
<1>1. IsFiniteSet(P)
    <2>1. IsFiniteSet(Objects \X FieldNames)
        BY TheObjects, FewFields, FS_Product
    <2>2. P \subseteq Objects \X FieldNames
        BY DEF Reflects
    <2>. QED BY <2>1, <2>2, FS_Subset
<1>2. \A p \in P : p \in C \X FieldNames
    BY DEF Reflects
<1>3. ASSUME NEW p \in P PROVE m[p] \in Q
    <2>1. PICK w \in C, f \in FieldNames : p = <<w, f>>
        BY <1>2
    <2>2. f \in Names(t[copy[w]]) /\ t[copy[w]][f] = x
        BY <2>1 DEF Reflects
    <2>3. m[p] = <<copy[w], f>> /\ copy[w] \in Images(C, copy)
        BY <2>1 DEF Images
    <2>. QED BY <2>2, <2>3 DEF Refs, Names
<1>4. ASSUME NEW a \in P, NEW b \in P, m[a] = m[b] PROVE a = b
    <2>1. PICK w \in C, f \in FieldNames : a = <<w, f>>
        BY <1>2
    <2>2. PICK y \in C, g \in FieldNames : b = <<y, g>>
        BY <1>2
    <2>3. copy[w] = copy[y] /\ f = g
        BY <1>4, <2>1, <2>2
    <2>. QED BY <2>1, <2>2, <2>3 DEF Reflects, OneToOne
<1>5. ASSUME NEW q \in Q PROVE \E a \in P : m[a] = q
    <2>1. PICK y \in Images(C, copy), f \in FieldNames : q = <<y, f>> /\ f \in DOMAIN t[y] /\ t[y][f] = x
        BY DEF Refs
    <2>2. PICK w \in C : y = copy[w]
        BY DEF Images
    <2>3. <<w, f>> \in P
        BY <2>1, <2>2 DEF Reflects, Names
    <2>4. m[<<w, f>>] = q
        BY <2>1, <2>2, <2>3
    <2>. QED BY <2>3, <2>4
<1>6. m \in [P -> Q]
    BY <1>3
<1>7. (\A a, b \in P : m[a] = m[b] => a = b) /\ \A q \in Q : \E a \in P : m[a] = q
    BY <1>4, <1>5
<1> HIDE DEF m, Q
<1>8. Cardinality(Q) = Cardinality(P)
    BY <1>1, <1>6, <1>7, SameSize
<1>. QED BY <1>8 DEF Q, Deg

\* A quiet heap with copies of C, which v leads to, is quiet: each copy but v's
\* is pointed to by another, and the program holds v's.
Duplicated(K, s, c, h, v, C, copy, K2, s2, c2, h2) ==
    /\ Mirrors(InUse(K), C, copy, K, s, s2) /\ v \in C
    /\ \A x \in C : /\ K[x] \in Values /\ K2[copy[x]] = K[x]
                    /\ s2[copy[x]] = [f \in Names(s2[copy[x]]) |-> s2[copy[x]][f]]
    /\ \A y \in Objects \ Images(C, copy) : K2[y] = K[y] /\ s2[y] = s[y] /\ h2[y] = h[y]
    /\ K2 \in [Objects -> Kinds \cup {"unused"}] /\ s2 = [x \in Objects |-> s2[x]]
    /\ c2 \in [Objects -> Int] /\ h2 \in [Objects -> Nat]
    /\ \A x \in C : h2[copy[x]] = Is(v, x)
                    /\ c2[copy[x]] = Deg(Images(C, copy), s2, {}, copy[x]) + Is(v, x)
    /\ \A y \in InUse(K) : c2[y] = c[y] + Deg(Images(C, copy), s2, {}, y)
    /\ \A S : v \in S /\ (\A x \in S \cap C : \A f \in Followed(K[x]) : s[x][f] # NULL => s[x][f] \in S)
              => C \subseteq S
\* A copy of what C holds keeps what holds between two calls.
LEMMA DuplicateKeeps ==
    ASSUME NEW K, NEW s, NEW c, NEW h, NEW g, NEW d, Quiet(K, s, c, h, g, d), NEW v, NEW C, NEW copy,
           NEW K2, NEW s2, NEW c2, NEW h2, Duplicated(K, s, c, h, v, C, copy, K2, s2, c2, h2)
    PROVE  Quiet(K2, s2, c2, h2, g, d)
<1> DEFINE A == InUse(K)
           N == Images(C, copy)
<1>1. /\ WellTyped(K, s, c, h, g) /\ A \in SUBSET Objects /\ d \in [Objects -> Nat]
      /\ c \in [Objects -> Int] /\ h \in [Objects -> Nat]
    BY QuietTypes DEF InUse
<1>2. /\ C \subseteq A /\ v \in C /\ OneToOne(C, copy) /\ NULL \notin Objects
      /\ \A x \in C : copy[x] \in Objects /\ copy[x] \notin A /\ copy[x] \in N
      /\ N \in SUBSET Objects /\ A \cap N = {} /\ \A y \in N : \E x \in C : y = copy[x]
    BY TheObjects DEF Duplicated, Mirrors, Images
<1>3. /\ c2 \in [Objects -> Int] /\ h2 \in [Objects -> Nat] /\ s2 = [x \in Objects |-> s2[x]]
      /\ K2 \in [Objects -> Kinds \cup {"unused"}]
      /\ \A y \in Objects \ N : K2[y] = K[y] /\ s2[y] = s[y] /\ h2[y] = h[y]
      /\ \A x \in C : /\ K2[copy[x]] = K[x] /\ K[x] \in Values /\ h2[copy[x]] = Is(v, x)
                      /\ c2[copy[x]] = Deg(N, s2, {}, copy[x]) + Is(v, x)
      /\ \A y \in A : c2[y] = c[y] + Deg(N, s2, {}, y)
    BY DEF Duplicated
<1>4. \A x \in C : Names(s2[copy[x]]) = Names(s[x]) /\ Names(s[x]) \subseteq FieldNames
    BY DEF Duplicated, Mirrors
<1>5. ASSUME NEW x \in C, NEW f \in Names(s[x])
      PROVE  /\ \A w \in C : s2[copy[x]][f] = copy[w] <=> f \in Followed(K[x]) /\ s[x][f] = w
             /\ s2[copy[x]][f] \in A \cup N \cup {NULL}
             /\ s2[copy[x]][f] = NULL <=> s[x][f] = NULL
    <2>1. Mirrors(A, C, copy, K, s, s2)
        BY DEF Duplicated
    <2> HIDE DEF A
    <2>. QED BY <2>1, MirrorPointers
<1>6. \A S : v \in S /\ (\A x \in S \cap C : \A f \in Followed(K[x]) : s[x][f] # NULL => s[x][f] \in S)
             => C \subseteq S
    BY DEF Duplicated
<1>7. \A x \in C : \A f \in Followed(K[x]) : f \in Names(s[x]) /\ s[x][f] \in C \cup {NULL}
    BY DEF Duplicated, Mirrors
<1>8. InUse(K2) = A \cup N
    <2>1. ASSUME NEW y \in N PROVE K2[y] # "unused"
        <3>1. PICK x \in C : y = copy[x]
            BY <1>2
        <3>. QED BY <3>1, <1>3, KindsApart
    <2>2. \A y \in Objects \ N : K2[y] = K[y]
        BY <1>3
    <2> HIDE DEF N
    <2>. QED BY <2>1, <2>2, <1>2 DEF InUse
<1>9. ASSUME NEW x
      PROVE  /\ Deg(A \cup N, s2, {}, x) = Deg(A, s, {}, x) + Deg(N, s2, {}, x)
             /\ Deg(A, s, {}, x) \in Nat /\ Deg(N, s2, {}, x) \in Nat
    <2>1. A \in SUBSET Objects /\ N \in SUBSET Objects /\ A \cap N = {}
        BY <1>1, <1>2
    <2>2. Agree(A, s, s2)
        BY <1>2, <1>3, <2>1 DEF Agree
    <2> HIDE DEF A, N
    <2>3. Deg(A, s, {}, x) = Deg(A, s2, {}, x)
        BY <2>2, DegSame
    <2>4. Deg(A \cup N, s2, {}, x) = Deg(A, s2, {}, x) + Deg(N, s2, {}, x)
        BY <2>1, DegSplit
    <2>5. Deg(A, s2, {}, x) \in Nat /\ Deg(N, s2, {}, x) \in Nat
        BY <2>1, DegType
    <2>. QED BY <2>3, <2>4, <2>5
<1>10. ASSUME NEW x \in C
       PROVE  /\ Deg(A, s, {}, copy[x]) = 0 /\ GlobalCount(g, copy[x]) = 0 /\ d[copy[x]] = 0
              /\ h[copy[x]] = 0
    BY <1>2, NoneToUnused
<1>11. WellTyped(K2, s2, c2, h2, g)
    <2>1. ASSUME NEW y \in Objects
          PROVE  s2[y] \in [IF K2[y] # "unused" THEN Fields(K2[y]) ELSE {} -> Objects \cup {NULL}]
        <3>1. CASE y \notin N
            BY <3>1, <1>1, <1>3 DEF WellTyped
        <3>2. CASE y \in N
            <4>1. PICK x \in C : y = copy[x]
                BY <3>2, <1>2
            <4>2. s[x] \in [Fields(K[x]) -> Objects \cup {NULL}] /\ K[x] # "unused"
                BY <1>1, <1>2 DEF WellTyped, InUse
            <4>3. Names(s2[y]) = Fields(K[x]) /\ K2[y] = K[x]
                BY <4>1, <4>2, <1>3, <1>4 DEF Names
            <4>4. \A f \in Fields(K[x]) : s2[y][f] \in Objects \cup {NULL}
                <5>1. A \cup N \cup {NULL} \subseteq Objects \cup {NULL} /\ Names(s[x]) = Fields(K[x])
                    <6> HIDE DEF A, N
                    <6>. QED BY <1>1, <1>2, <4>2 DEF Names
                <5>. QED BY <5>1, <1>5, <4>1
            <4>5. s2[y] = [f \in Names(s2[y]) |-> s2[y][f]]
                BY <4>1 DEF Duplicated
            <4>6. s2[y] = [f \in Fields(K[x]) |-> s2[y][f]]
                BY <4>3, <4>5
            <4>7. s2[y] \in [Fields(K[x]) -> Objects \cup {NULL}]
                BY <4>4, <4>6
            <4> HIDE DEF A, N
            <4>. QED BY <4>2, <4>3, <4>7
        <3>. QED BY <3>1, <3>2
    <2>2. g \in [default : Objects \cup {NULL}, current : Objects \cup {NULL}, typeType : Objects \cup {NULL}]
        BY QuietTypes
    <2>. QED BY <1>3, <2>1, <2>2 DEF WellTyped
<1>12. \A y \in A \cup N : c2[y] > 0
    <2>1. ASSUME NEW y \in A PROVE c2[y] > 0
        <3>1. c[y] > 0 /\ c[y] \in Int /\ Deg(N, s2, {}, y) \in Nat
            BY <1>1, <1>9, QuietTypes
        <3>. QED BY <3>1, <1>3
    <2>2. ASSUME NEW x \in C, x # v PROVE Deg(N, s2, {}, copy[x]) > 0
        <3> DEFINE T == {w \in C : w = v \/ \E y \in C : \E f \in Followed(K[y]) : s[y][f] = w}
        <3>1. C \subseteq T
            <4>1. v \in T
                BY <1>2
            <4>2. ASSUME NEW y \in T \cap C, NEW f \in Followed(K[y]), s[y][f] # NULL PROVE s[y][f] \in T
                BY <4>2, <1>7
            <4> HIDE DEF T
            <4>. QED BY <4>1, <4>2, <1>6
        <3>6. PICK y \in C : \E f \in Followed(K[y]) : s[y][f] = x
            BY <2>2, <3>1
        <3>2. PICK f \in Followed(K[y]) : s[y][f] = x
            BY <3>6
        <3>3. f \in Names(s[y]) /\ s2[copy[y]][f] = copy[x]
            BY <3>2, <1>5, <1>7
        <3>4. <<copy[y], f>> \in Refs(N, s2, {}, copy[x])
            <4>1. copy[y] \in N /\ f \in FieldNames /\ f \in Names(s2[copy[y]])
                BY <3>3, <1>2, <1>4
            <4>. QED BY <4>1, <3>3 DEF Refs, Names
        <3>5. Deg(N, s2, {}, copy[x]) # 0 /\ Deg(N, s2, {}, copy[x]) \in Nat
            <4>1. N \in SUBSET Objects
                BY <1>2
            <4> HIDE DEF N
            <4>. QED BY <4>1, <3>4, DegType
        <3> HIDE DEF N
        <3>. QED BY <3>5
    <2>3. ASSUME NEW x \in C PROVE c2[copy[x]] > 0
        <3>1. Deg(N, s2, {}, copy[x]) \in Nat /\ c2[copy[x]] = Deg(N, s2, {}, copy[x]) + Is(v, x)
            BY <1>3, <1>9
        <3>2. Is(v, x) \in {0, 1} /\ (x = v => Is(v, x) = 1)
            BY DEF Is
        <3> HIDE DEF N
        <3>. QED BY <2>2, <3>1, <3>2
    <2> HIDE DEF A, N
    <2>. QED BY <2>1, <2>3, <1>2
<1>13. Filled(s2)
    <2>1. Filled(s)
        BY DEF Quiet, Sound
    <2>2. ASSUME NEW y \in Objects, NEW f \in Names(s2[y]), s2[y][f] = NULL PROVE f \in Optional
        <3>1. CASE y \notin N
            BY <3>1, <2>1, <2>2, <1>3 DEF Filled
        <3>2. CASE y \in N
            <4>1. PICK x \in C : y = copy[x]
                BY <3>2, <1>2
            <4>2. f \in Names(s[x]) /\ s[x][f] = NULL /\ x \in Objects
                BY <4>1, <2>2, <1>1, <1>2, <1>4, <1>5
            <4>. QED BY <4>2, <2>1 DEF Filled
        <3>. QED BY <3>1, <3>2
    <2>. QED BY <2>2 DEF Filled
<1>14. Layers(A \cup N, K2, s2, g)
    <2>1. \A y \in A : K2[y] = K[y] /\ s2[y] = s[y]
        BY <1>1, <1>2, <1>3
    <2>2. /\ \A x \in A : K[x] = "layer" => s[x].map \in A /\ K[s[x].map] = "map"
          /\ g.default # NULL => g.current \in A /\ g.typeType \in A /\ K[g.current] = "layer"
          /\ g.default = NULL => g.current = NULL /\ g.typeType = NULL
        <3>1. \A x \in A : K[x] = "layer" => s[x].map \in A /\ K[s[x].map] = "map"
            <4> HIDE DEF InUse
            <4>. QED BY DefParts
        <3>2. g.default # NULL => g.current \in A /\ g.typeType \in A /\ K[g.current] = "layer"
            BY GlobalsInUse
        <3>3. g.default = NULL => g.current = NULL /\ g.typeType = NULL
            BY QuietTypes DEF Layers
        <3>. QED BY <3>1, <3>2, <3>3
    <2>3. \A y \in N : K2[y] # "layer"
        BY <1>2, <1>3, KindsApart
    <2>4. A \subseteq Objects
        BY <1>1
    <2> HIDE DEF A, N
    <2>. QED BY <2>1, <2>2, <2>3, <2>4 DEF Layers
<1>15. Exact(A \cup N, {}, s2, c2, h2, g, d)
    <2>1. ASSUME NEW x \in A
          PROVE  c2[x] = h2[x] + GlobalCount(g, x) + Deg(A \cup N, s2, {}, x) + d[x]
        <3>1. x \in Objects /\ x \notin N
            BY <1>1, <1>2
        <3> DEFINE D == Deg(A, s, {}, x)
                   E == Deg(N, s2, {}, x)
                   D2 == Deg(A \cup N, s2, {}, x)
                   G == GlobalCount(g, x)
                   cx == c[x]
                   hx == h[x]
                   dx == d[x]
        <3>2. cx = hx + G + D + dx
            BY DEF Quiet, Sound, Exact
        <3>3. c2[x] = cx + E /\ h2[x] = hx
            BY <3>1, <1>3
        <3>4. cx \in Int /\ hx \in Nat /\ dx \in Nat /\ G \in Nat /\ D \in Nat /\ E \in Nat /\ D2 = D + E
            BY <1>1, <1>9, <3>1, GlobalCountType
        <3> HIDE DEF D, D2, E, G, cx, hx, dx
        <3>5. c2[x] = h2[x] + G + D2 + dx
            BY <3>2, <3>3, <3>4
        <3>. QED BY <3>5 DEF D2, G, dx
    <2>2. ASSUME NEW x \in C
          PROVE  c2[copy[x]] = h2[copy[x]] + GlobalCount(g, copy[x]) + Deg(A \cup N, s2, {}, copy[x]) + d[copy[x]]
        <3> DEFINE E == Deg(N, s2, {}, copy[x])
                   D2 == Deg(A \cup N, s2, {}, copy[x])
        <3>1. D2 = E /\ E \in Nat
            <4>1. D2 = Deg(A, s, {}, copy[x]) + E /\ E \in Nat
                BY <1>9
            <4>2. Deg(A, s, {}, copy[x]) = 0
                BY <1>10
            <4> HIDE DEF D2, E
            <4>. QED BY <4>1, <4>2
        <3>2. c2[copy[x]] = E + Is(v, x) /\ h2[copy[x]] = Is(v, x)
            BY <1>3
        <3>3. Is(v, x) \in Nat
            BY DEF Is
        <3> HIDE DEF D2, E
        <3>4. c2[copy[x]] = h2[copy[x]] + GlobalCount(g, copy[x]) + D2 + d[copy[x]]
            BY <3>1, <3>2, <3>3, <1>10
        <3>. QED BY <3>4 DEF D2
    <2>3. \A y \in N : c2[y] = h2[y] + GlobalCount(g, y) + Deg(A \cup N, s2, {}, y) + d[y]
        BY <2>2, <1>2
    <2> HIDE DEF A, N
    <2>. QED BY <2>1, <2>3 DEF Exact
<1>16. Safe(A \cup N, {}, s2, h2, g)
    <2>1. Safe(A, {}, s, h, g)
        BY DEF Quiet, Sound
    <2>2. ASSUME NEW y \in Objects, h2[y] + GlobalCount(g, y) > 0, y \notin N PROVE y \in A
        BY <2>2, <2>1, <1>3 DEF Safe
    <2>3. ASSUME NEW y \in A, NEW f \in Names(s2[y]), s2[y][f] # NULL PROVE s2[y][f] \in A
        <3>1. s2[y] = s[y]
            BY <1>1, <1>2, <1>3
        <3>. QED BY <3>1, <2>1, <2>3 DEF Safe
    <2>4. ASSUME NEW y \in N, NEW f \in Names(s2[y]), s2[y][f] # NULL PROVE s2[y][f] \in A \cup N
        <3>1. PICK x \in C : y = copy[x]
            BY <1>2
        <3>2. f \in Names(s[x])
            BY <3>1, <1>4
        <3>. QED BY <3>1, <3>2, <2>4, <1>5
    <2> HIDE DEF A, N
    <2>. QED BY <2>2, <2>3, <2>4 DEF Safe
<1>17. Covers(A \cup N, {}, s2, h2, g, d)
    <2> SUFFICES ASSUME NEW S \in SUBSET Objects, Shut(S, A \cup N, {}, s2, h2, g, d)
                 PROVE  A \cup N \subseteq S
        BY DEF Covers
    <2>1. ASSUME NEW x \in Objects, h[x] + GlobalCount(g, x) + d[x] > 0 PROVE x \in S
        <3>1. x \in A
            BY <2>1, QuietTypes
        <3>2. h2[x] = h[x]
            BY <3>1, <1>2, <1>3
        <3>. QED BY <3>2, <2>1 DEF Shut
    <2>2. ASSUME NEW x \in S \cap A, NEW f \in Names(s[x]), s[x][f] # NULL PROVE s[x][f] \in S
        <3>1. s2[x] = s[x] /\ x \in A \cup N
            BY <1>1, <1>2, <1>3
        <3>. QED BY <3>1, <2>2 DEF Shut
    <2>3. A \subseteq S
        <3>1. Shut(S, A, {}, s, h, g, d)
            BY <2>1, <2>2 DEF Shut
        <3>. QED BY <3>1 DEF Quiet, Sound, Covers
    <2>4. \A x \in C : copy[x] \in S
        <3> DEFINE T == {x \in C : copy[x] \in S}
        <3>1. v \in T
            <4>1. copy[v] \in Objects /\ h2[copy[v]] = 1 /\ GlobalCount(g, copy[v]) = 0 /\ d[copy[v]] = 0
                BY <1>2, <1>3, <1>10 DEF Is
            <4>2. copy[v] \in S
                BY <4>1 DEF Shut
            <4>. QED BY <4>2, <1>2
        <3>2. ASSUME NEW x \in T \cap C, NEW f \in Followed(K[x]), s[x][f] # NULL PROVE s[x][f] \in T
            <4>1. s[x][f] \in C /\ f \in Names(s[x])
                BY <3>2, <1>7
            <4>2. s2[copy[x]][f] = copy[s[x][f]] /\ f \in Names(s2[copy[x]])
                BY <4>1, <1>4, <1>5
            <4>3. copy[x] \in S \cap (A \cup N) /\ copy[s[x][f]] # NULL
                BY <4>1, <1>2
            <4>4. s2[copy[x]][f] \in S
                BY <4>2, <4>3 DEF Shut
            <4>. QED BY <4>1, <4>2, <4>4
        <3>3. C \subseteq T
            <4> HIDE DEF T
            <4>. QED BY <3>1, <3>2, <1>6
        <3>. QED BY <3>3
    <2>. QED BY <2>3, <2>4, <1>2
<1>18. \A x \in Objects : d[x] > 0 => x \in A \cup N
    BY DEF Quiet
<1> HIDE DEF A, N
<1>19. Sound(A \cup N, {}, K2, s2, c2, h2, g, d)
    BY <1>13, <1>14, <1>15, <1>16, <1>17 DEF Sound
<1>20. \A x \in Objects : K2[x] # "unused" => c2[x] > 0
    BY <1>8, <1>12 DEF InUse
<1>. QED BY <1>1, <1>8, <1>11, <1>18, <1>19, <1>20 DEF Quiet

\* The pointers that copying follows.
LEMMA FollowedFields ==
    ASSUME NEW K, NEW s, NEW c, NEW h, NEW g, WellTyped(K, s, c, h, g), NEW x \in Objects
    PROVE  Followed(K[x]) \subseteq Names(s[x])
<1>1. Followed(K[x]) \subseteq Fields(K[x])
    <2>1. Followed("tuple") = {"e1", "e2"} /\ Followed("pointer") = {"ptr"}
          /\ (K[x] \notin {"tuple", "pointer"} => Followed(K[x]) = {})
        BY DEF Followed
    <2>2. Fields("tuple") = {"e1", "e2", "typeobj"} /\ Fields("pointer") = {"ptr", "typeobj"}
        BY ValueFields DEF Values, Struct
    <2>. QED BY <2>1, <2>2
<1>2. x \in InUse(K) => Names(s[x]) = Fields(K[x])
    BY FieldsOf
<1>3. x \notin InUse(K) => K[x] = "unused"
    BY FieldsOf
<1>4. Followed("unused") = {}
    BY DEF Followed
<1>. QED BY <1>1, <1>2, <1>3, <1>4

\* The objects a copy is made of: the least set with v that the pointers that
\* are followed do not leave.
LEMMA CopiedFacts ==
    ASSUME HeapInv, work = <<>>, NEW v \in InUse(kind)
    PROVE  /\ v \in Copied(v) /\ Copied(v) \subseteq InUse(kind)
           /\ \A x \in Copied(v) : \A f \in Followed(kind[x]) : slot[x][f] \in Copied(v) \cup {NULL}
           /\ \A S : v \in S /\ (\A x \in S \cap Copied(v) : \A f \in Followed(kind[x]) :
                                    slot[x][f] # NULL => slot[x][f] \in S)
                     => Copied(v) \subseteq S
<1> DEFINE A == InUse(kind)
           edges == [x \in Objects |-> Points(x, Followed(kind[x]))]
<1>1. Quiet(kind, slot, count, held, globals, NoDrops)
    BY Before
<1>2. /\ A \subseteq Objects
      /\ \A x \in Objects : Followed(kind[x]) \subseteq Names(slot[x])
      /\ \A x \in A : \A f \in Names(slot[x]) : slot[x][f] \in A \cup {NULL}
      /\ \A x \in Objects : \A f \in Names(slot[x]) : slot[x][f] \in Objects \cup {NULL}
    <2>1. WellTyped(kind, slot, count, held, globals)
        BY <1>1 DEF Quiet
    <2>2. \A x \in Objects : \A f \in Names(slot[x]) : slot[x][f] \in Objects \cup {NULL}
        BY <2>1, FieldsOf
    <2>3. \A x \in Objects : Followed(kind[x]) \subseteq Names(slot[x])
        BY <2>1, FollowedFields
    <2>4. A \subseteq Objects /\ \A x \in A : \A f \in Names(slot[x]) : slot[x][f] \in A \cup {NULL}
        <3> HIDE DEF A
        <3>. QED BY <1>1, GlobalsInUse DEF A
    <2>. QED BY <2>2, <2>3, <2>4
<1>3. \A x \in Objects : edges[x] = {slot[x][f] : f \in {g \in Followed(kind[x]) : slot[x][g] # NULL}}
    BY DEF Points
<1>4. edges \in [Objects -> SUBSET Objects]
    <2>1. ASSUME NEW x \in Objects PROVE Points(x, Followed(kind[x])) \in SUBSET Objects
        BY <1>2 DEF Points
    <2>. QED BY <2>1
<1>5. Copied(v) = Spread(edges, v)
    BY DEF Copied
<1> HIDE DEF edges
<1>6. /\ v \in Copied(v) /\ Copied(v) \subseteq Objects
      /\ \A x \in Copied(v) : edges[x] \subseteq Copied(v)
      /\ \A S : v \in S /\ (\A x \in S \cap Objects : edges[x] \subseteq S) => Copied(v) \subseteq S
    BY <1>2, <1>4, <1>5, SpreadFacts
<1>7. Copied(v) \subseteq A
    <2>1. ASSUME NEW x \in A PROVE edges[x] \subseteq A
        BY <1>2, <1>3
    <2> HIDE DEF A
    <2>. QED BY <1>6, <2>1 DEF A
<1>8. ASSUME NEW x \in Copied(v), NEW f \in Followed(kind[x]) PROVE slot[x][f] \in Copied(v) \cup {NULL}
    BY <1>3, <1>6
<1>9. ASSUME NEW S, v \in S,
             \A x \in S \cap Copied(v) : \A f \in Followed(kind[x]) : slot[x][f] # NULL => slot[x][f] \in S
      PROVE  Copied(v) \subseteq S
    <2> DEFINE T == S \cap Copied(v)
    <2>1. ASSUME NEW x \in T \cap Objects PROVE edges[x] \subseteq T
        BY <1>3, <1>6, <1>8, <1>9
    <2>2. v \in T
        BY <1>6, <1>9
    <2>3. Copied(v) \subseteq T
        <3> HIDE DEF T
        <3>. QED BY <1>6, <2>1, <2>2
    <2>. QED BY <2>3
<1>. QED BY <1>6, <1>7, <1>8, <1>9

\* Minimal_copy keeps the invariant.
LEMMA CopyKeeps ==
    ASSUME HeapInv, NEW v \in Objects, NEW copy \in [Copied(v) -> {c \in Cells : ~Live(c)}],
           \A x, y \in Copied(v) : copy[x] = copy[y] => x = y, Copy(v, copy)
    PROVE  HeapInv'
<1> DEFINE A == InUse(kind)
           C == Copied(v)
           N == Images(C, copy)
           nslot(x) == [f \in Fields(kind[x]) |->
                           IF f \in Followed(kind[x]) /\ slot[x][f] # NULL
                           THEN copy[slot[x][f]] ELSE slot[x][f]]
           Shared(x) == {p \in UNION {{y} \X (Fields(kind[y]) \ Followed(kind[y])) : y \in C} :
                            slot[p[1]][p[2]] = x}
           Occurring(x) == {p \in UNION {{y} \X Followed(kind[y]) : y \in C} : slot[p[1]][p[2]] = x}
           original(y) == CHOOSE x \in C : copy[x] = y
<1>1. /\ work = <<>> /\ held[v] > 0
      /\ \A x \in C : kind[x] \in Values
      /\ kind' = [y \in Objects |-> IF y \in N THEN kind[original(y)] ELSE kind[y]]
      /\ slot' = [y \in Objects |-> IF y \in N THEN nslot(original(y)) ELSE slot[y]]
      /\ count' = [y \in Objects |->
                     IF y \in N THEN Cardinality(Occurring(original(y))) + (IF y = copy[v] THEN 1 ELSE 0)
                     ELSE count[y] + Cardinality(Shared(y))]
      /\ held' = [held EXCEPT ![copy[v]] = 1]
      /\ UNCHANGED <<globals, work, crashed, program>>
    <2>1. DOMAIN copy = C
        OBVIOUS
    <2>. QED BY <2>1 DEF Copy, Calling, Holding, Images
<1>2. Quiet(kind, slot, count, held, globals, NoDrops)
    BY <1>1, Before
<1>3. /\ A \subseteq Objects /\ v \in A /\ count \in [Objects -> Int] /\ held \in [Objects -> Nat]
      /\ WellTyped(kind, slot, count, held, globals)
      /\ \A x \in A : \A f \in Names(slot[x]) : slot[x][f] \in A \cup {NULL}
    <2>1. WellTyped(kind, slot, count, held, globals) /\ count \in [Objects -> Int] /\ held \in [Objects -> Nat]
        BY <1>2, QuietTypes
    <2>2. /\ A \subseteq Objects /\ \A x \in Objects : held[x] > 0 => x \in A
          /\ \A x \in A : \A f \in Names(slot[x]) : slot[x][f] \in A \cup {NULL}
        <3> HIDE DEF A
        <3>. QED BY <1>2, GlobalsInUse DEF A
    <2>. QED BY <1>1, <2>1, <2>2
<1>4. /\ v \in C /\ C \subseteq A
      /\ \A x \in C : \A f \in Followed(kind[x]) : slot[x][f] \in C \cup {NULL}
      /\ \A S : v \in S /\ (\A x \in S \cap C : \A f \in Followed(kind[x]) : slot[x][f] # NULL => slot[x][f] \in S)
                => C \subseteq S
    BY <1>1, <1>3, CopiedFacts
<1>5. \A x \in C : copy[x] \in Objects /\ copy[x] \notin A /\ copy[x] \in N
    BY TheObjects DEF Images, InUse, Live
<1>6. \A x, y \in C : copy[x] = copy[y] => x = y
    OBVIOUS
<1>7. \A y \in N : \E x \in C : y = copy[x]
    BY DEF Images
<1>8. \A x \in C : /\ Names(slot[x]) = Fields(kind[x]) /\ Fields(kind[x]) \subseteq FieldNames
                   /\ Followed(kind[x]) \subseteq Fields(kind[x]) /\ kind[x] \in Kinds
    <2>1. \A x \in A : kind[x] \in Kinds /\ Names(slot[x]) = Fields(kind[x]) /\ Names(slot[x]) \subseteq FieldNames
        BY <1>3, FieldsOf
    <2>2. \A x \in Objects : Followed(kind[x]) \subseteq Names(slot[x])
        BY <1>3, FollowedFields
    <2> HIDE DEF A, C
    <2>. QED BY <2>1, <2>2, <1>3, <1>4
<1>9. \A x \in C : original(copy[x]) = x
    <2> HIDE DEF C
    <2>. QED BY <1>6
<1> HIDE DEF original, Shared, Occurring, A, C, N
<1>10. ASSUME NEW x \in C
       PROVE  /\ kind'[copy[x]] = kind[x] /\ slot'[copy[x]] = nslot(x)
              /\ count'[copy[x]] = Cardinality(Occurring(x)) + (IF copy[x] = copy[v] THEN 1 ELSE 0)
    BY <1>1, <1>5, <1>9
<1>11. \A y \in Objects \ N : /\ kind'[y] = kind[y] /\ slot'[y] = slot[y]
                              /\ count'[y] = count[y] + Cardinality(Shared(y))
    BY <1>1
<1>12. Mirrors(A, C, copy, kind, slot, slot')
    <2>1. ASSUME NEW x \in C
          PROVE  /\ Names(slot'[copy[x]]) = Names(slot[x])
                 /\ \A f \in Names(slot[x]) :
                       slot'[copy[x]][f] = IF f \in Followed(kind[x]) /\ slot[x][f] # NULL
                                           THEN copy[slot[x][f]] ELSE slot[x][f]
        <3>1. Names(nslot(x)) = Fields(kind[x])
            BY DEF Names
        <3>. QED BY <3>1, <1>8, <1>10
    <2>. QED BY <2>1, <1>3, <1>4, <1>5, <1>6, <1>8 DEF Mirrors, OneToOne
<1>13. \A w \in C : Deg(N, slot', {}, copy[w]) = Cardinality(Occurring(w))
    <2> TAKE w \in C
    <2>1. ASSUME NEW y \in C, NEW f \in FieldNames
          PROVE  <<y, f>> \in Occurring(w) <=> f \in Names(slot'[copy[y]]) /\ slot'[copy[y]][f] = copy[w]
        <3>1. <<y, f>> \in Occurring(w) <=> f \in Followed(kind[y]) /\ slot[y][f] = w
            BY DEF Occurring
        <3>2. Names(slot'[copy[y]]) = Names(slot[y])
            BY <1>12 DEF Mirrors
        <3>3. f \in Names(slot[y]) =>
                 (slot'[copy[y]][f] = copy[w] <=> f \in Followed(kind[y]) /\ slot[y][f] = w)
            BY <1>12, MirrorPointers
        <3>4. f \in Followed(kind[y]) => f \in Names(slot[y])
            BY <1>8
        <3>. QED BY <3>1, <3>2, <3>3, <3>4
    <2>2. Occurring(w) \subseteq C \X FieldNames
        BY <1>8 DEF Occurring
    <2>3. Reflects(Occurring(w), C, copy, slot', copy[w])
        BY <2>1, <2>2, <1>3, <1>4, <1>6 DEF Reflects, OneToOne
    <2>. QED BY <2>3, ReflectCount DEF N
<1>14. \A w \in A : Deg(N, slot', {}, w) = Cardinality(Shared(w))
    <2> TAKE w \in A
    <2>1. ASSUME NEW y \in C, NEW f \in FieldNames
          PROVE  <<y, f>> \in Shared(w) <=> f \in Names(slot'[copy[y]]) /\ slot'[copy[y]][f] = w
        <3>1. <<y, f>> \in Shared(w) <=> f \in Fields(kind[y]) \ Followed(kind[y]) /\ slot[y][f] = w
            BY DEF Shared
        <3>2. Names(slot'[copy[y]]) = Names(slot[y]) /\ Names(slot[y]) = Fields(kind[y])
            BY <1>8, <1>12 DEF Mirrors
        <3>3. f \in Names(slot[y]) =>
                 (slot'[copy[y]][f] = w <=> f \notin Followed(kind[y]) /\ slot[y][f] = w)
            BY <1>12, MirrorPointers
        <3>. QED BY <3>1, <3>2, <3>3
    <2>2. Shared(w) \subseteq C \X FieldNames
        BY <1>8 DEF Shared
    <2>3. Reflects(Shared(w), C, copy, slot', w)
        BY <2>1, <2>2, <1>3, <1>4, <1>6 DEF Reflects, OneToOne
    <2>. QED BY <2>3, ReflectCount DEF N
<1>15. kind' \in [Objects -> Kinds \cup {"unused"}] /\ slot' = [x \in Objects |-> slot'[x]]
    <2>1. \A y \in Objects : kind'[y] \in Kinds \cup {"unused"}
        <3>1. \A y \in Objects : kind[y] \in Kinds \cup {"unused"}
            BY <1>3 DEF WellTyped
        <3>2. ASSUME NEW y \in Objects PROVE kind'[y] \in Kinds \cup {"unused"}
            <4>1. CASE y \in N
                <5>1. PICK x \in C : y = copy[x]
                    BY <4>1, <1>7
                <5>. QED BY <5>1, <1>8, <1>10
            <4>2. CASE y \notin N
                BY <4>2, <3>1, <1>11
            <4>. QED BY <4>1, <4>2
        <3>. QED BY <3>2
    <2>2. kind' = [y \in Objects |-> kind'[y]] /\ slot' = [y \in Objects |-> slot'[y]]
        BY <1>1
    <2>. QED BY <2>1, <2>2
<1>16. N \subseteq Objects /\ A \cap N = {} /\ copy[v] \in N
    BY <1>4, <1>5, <1>7
<1>17. \A x \in C : count'[copy[x]] = Deg(N, slot', {}, copy[x]) + Is(v, x)
    <2> TAKE x \in C
    <2>1. (IF copy[x] = copy[v] THEN 1 ELSE 0) = Is(v, x)
        BY <1>4, <1>6 DEF Is
    <2>. QED BY <2>1, <1>10, <1>13
<1>18. \A y \in A : count'[y] = count[y] + Deg(N, slot', {}, y)
    <2> TAKE y \in A
    <2>1. y \in Objects \ N
        BY <1>3, <1>16
    <2>. QED BY <2>1, <1>11, <1>14
<1>19. count' \in [Objects -> Int]
    <2>1. \A x : Deg(N, slot', {}, x) \in Nat
        BY <1>16, DegType
    <2>2. ASSUME NEW y \in Objects PROVE count'[y] \in Int
        <3>1. CASE y \in N
            <4>1. PICK x \in C : y = copy[x]
                BY <3>1, <1>7
            <4>2. count'[y] = Deg(N, slot', {}, y) + Is(v, x) /\ Deg(N, slot', {}, y) \in Nat
                BY <4>1, <2>1, <1>17
            <4>. QED BY <4>2 DEF Is
        <3>2. CASE y \in A
            <4>1. count'[y] = count[y] + Deg(N, slot', {}, y) /\ Deg(N, slot', {}, y) \in Nat
                BY <3>2, <2>1, <1>18
            <4>. QED BY <4>1, <1>3
        <3>3. CASE y \notin A /\ y \notin N
            <4>1. count'[y] = count[y] + Cardinality(Shared(y))
                BY <3>3, <1>11
            <4>2. Shared(y) = {}
                <5>1. ASSUME NEW w \in C, NEW f \in Fields(kind[w]) PROVE slot[w][f] # y
                    <6>1. slot[w][f] \in A \cup {NULL}
                        BY <1>3, <1>4, <1>8
                    <6>. QED BY <6>1, <3>3, TheObjects
                <5>. QED BY <5>1 DEF Shared
            <4>. QED BY <4>1, <4>2, <1>3, FS_EmptySet
        <3>. QED BY <3>1, <3>2, <3>3
    <2>3. count' = [y \in Objects |-> count'[y]]
        BY <1>1
    <2>. QED BY <2>2, <2>3
<1>20. /\ held' \in [Objects -> Nat] /\ \A x \in C : held'[copy[x]] = Is(v, x)
       /\ \A y \in Objects \ N : held'[y] = held[y]
    <2>1. \A x \in C : held[copy[x]] = 0
        BY <1>2, <1>5, NoneToUnused DEF A
    <2>2. held' \in [Objects -> Nat] /\ \A y \in Objects : held'[y] = IF y = copy[v] THEN 1 ELSE held[y]
        BY <1>1, <1>3
    <2>3. ASSUME NEW x \in C PROVE held'[copy[x]] = Is(v, x)
        <3>1. CASE x = v
            BY <3>1, <2>2, <1>5 DEF Is
        <3>2. CASE x # v
            <4>1. copy[x] # copy[v] /\ copy[x] \in Objects
                BY <3>2, <1>4, <1>5, <1>6
            <4>. QED BY <4>1, <3>2, <2>1, <2>2 DEF Is
        <3>. QED BY <3>1, <3>2
    <2>4. \A y \in Objects \ N : held'[y] = held[y]
        BY <2>2, <1>16
    <2>. QED BY <2>2, <2>3, <2>4
<1>21. \A x \in C : slot'[copy[x]] = [f \in Names(slot'[copy[x]]) |-> slot'[copy[x]][f]]
    <2> TAKE x \in C
    <2>1. nslot(x) = [f \in Names(nslot(x)) |-> nslot(x)[f]]
        BY DEF Names
    <2> HIDE DEF nslot
    <2>. QED BY <2>1, <1>10
<1> HIDE DEF nslot
<1>22. Duplicated(kind, slot, count, held, v, C, copy, kind', slot', count', held')
    BY <1>1, <1>4, <1>10, <1>11, <1>12, <1>15, <1>17, <1>18, <1>19, <1>20, <1>21 DEF Duplicated, A, N
<1>23. Quiet(kind', slot', count', held', globals, NoDrops)
    BY <1>2, <1>22, DuplicateKeeps
<1>. QED BY <1>1, <1>23, Finished

(***************************************************************************)
(* One drop.                                                               *)
(***************************************************************************)
\* The stack r is w with one drop of o less in its first frame.
Rest(w, o) == <<[Head(w) EXCEPT !.drops[o] = @ - 1]>> \o Tail(w)
Fewer(r, w, o) ==
    /\ r \in Seq(FrameType) /\ Hidden(r) = Hidden(w) /\ Orderly(r)
    /\ \A x \in Objects : Pending(w, x) = Pending(r, x) + Is(o, x)
    /\ \A f \in Frames(r) : \E g \in Frames(w) :
          /\ f.set = g.set /\ f.reclaim = g.reclaim
          /\ \A x \in Objects : f.drops[x] > 0 => g.drops[x] > 0
    /\ \A g \in Frames(w) : \E f \in Frames(r) : f.reclaim = g.reclaim
\* That is what one drop less does to the stack.
LEMMA OneLess ==
    ASSUME NEW w \in Seq(FrameType), w # <<>>, Orderly(w), NEW o \in Objects, Head(w).drops[o] > 0
    PROVE  Fewer(Rest(w, o), w, o)
<1> DEFINE fr == Head(w)
           fr2 == [fr EXCEPT !.drops[o] = @ - 1]
           rest == Tail(w)
           r == Rest(w, o)
<1>1. fr \in FrameType /\ rest \in Seq(FrameType) /\ w = <<fr>> \o rest
    BY TopAndRest
<1>2. /\ fr2 \in FrameType /\ fr2.set = fr.set /\ fr2.reclaim = fr.reclaim
      /\ \A x \in Objects : fr2.drops[x] = fr.drops[x] - Is(o, x)
    <2>1. /\ fr.drops \in [Objects -> Nat] /\ fr.drops[o] > 0
          /\ fr = [drops |-> fr.drops, reclaim |-> fr.reclaim, set |-> fr.set]
          /\ fr.set \in (Objects \cup {NULL}) \X (FieldNames \cup {"none"}) \X (Objects \cup {NULL})
          /\ fr.reclaim \in SUBSET Objects
        BY <1>1 DEF FrameType
    <2> HIDE DEF fr
    <2>2. fr2.drops = [fr.drops EXCEPT ![o] = @ - 1] /\ fr2.set = fr.set /\ fr2.reclaim = fr.reclaim
        BY <2>1
    <2>3. fr2.drops \in [Objects -> Nat] /\ \A x \in Objects : fr2.drops[x] = fr.drops[x] - Is(o, x)
        BY <2>1, <2>2 DEF Is
    <2>4. fr2 = [drops |-> fr2.drops, reclaim |-> fr2.reclaim, set |-> fr2.set]
        <3>1. DOMAIN fr = {"drops", "reclaim", "set"}
            BY <1>1 DEF FrameType
        <3>2. fr2 = [k \in {"drops", "reclaim", "set"} |-> fr2[k]]
            BY <3>1
        <3> HIDE DEF fr2
        <3>. QED BY <3>2
    <2> HIDE DEF fr2
    <2>. QED BY <2>1, <2>2, <2>3, <2>4 DEF FrameType
<1>3. r = <<fr2>> \o rest
    BY DEF Rest
<1> HIDE DEF fr, fr2, rest, r
<1>4. /\ r \in Seq(FrameType) /\ Len(r) = Len(rest) + 1 /\ r[1] = fr2
      /\ \A i \in DOMAIN rest : r[i + 1] = rest[i]
      /\ \A i \in DOMAIN r : i = 1 \/ (i - 1 \in DOMAIN rest /\ r[i] = rest[i - 1])
      /\ Frames(r) = {fr2} \cup Frames(rest)
    BY <1>1, <1>2, <1>3, OnTop
<1>5. /\ Len(w) = Len(rest) + 1 /\ w[1] = fr
      /\ \A i \in DOMAIN rest : w[i + 1] = rest[i]
      /\ Frames(w) = {fr} \cup Frames(rest)
    BY <1>1, OnTop
<1>6. /\ DOMAIN r = DOMAIN w /\ Len(r) = Len(w)
      /\ \A i \in DOMAIN w : r[i].set = w[i].set /\ r[i].reclaim = w[i].reclaim
    <2>1. DOMAIN r = DOMAIN w /\ Len(r) = Len(w)
        BY <1>4, <1>5
    <2>2. ASSUME NEW i \in DOMAIN r PROVE r[i].set = w[i].set /\ r[i].reclaim = w[i].reclaim
        <3>1. CASE i = 1
            BY <3>1, <1>2, <1>4, <1>5
        <3>2. CASE i # 1
            <4>1. i - 1 \in DOMAIN rest /\ r[i] = rest[i - 1]
                BY <3>2, <1>4
            <4>2. w[(i - 1) + 1] = rest[i - 1] /\ (i - 1) + 1 = i
                BY <4>1, <1>5
            <4>. QED BY <4>1, <4>2
        <3>. QED BY <3>1, <3>2
    <2>. QED BY <2>1, <2>2
<1>7. Hidden(r) = Hidden(w)
    BY <1>6 DEF Hidden
<1>8. Orderly(r)
    BY <1>6 DEF Orderly
<1>9. ASSUME NEW x \in Objects PROVE Pending(w, x) = Pending(r, x) + Is(o, x)
    <2> DEFINE P == Pending(rest, x)
               p == Pending(w, x)
               q == Pending(r, x)
               a == fr.drops[x]
               b == fr2.drops[x]
               e == Is(fr.set[3], x)
               i == Is(o, x)
    <2>1. p = P + Owed(fr, x) /\ q = P + Owed(fr2, x) /\ P \in Nat
        BY <1>1, <1>2, <1>3, PendingOnTop, PendingType
    <2>2. Owed(fr, x) = a + e /\ Owed(fr2, x) = b + e /\ a \in Nat /\ b \in Nat /\ e \in Nat
        BY <1>1, <1>2, OwedType
    <2>3. b = a - i /\ i \in Nat
        BY <1>2 DEF Is
    <2> HIDE DEF P, p, q, a, b, e, i
    <2>4. p = q + i
        BY <2>1, <2>2, <2>3
    <2>. QED BY <2>4 DEF p, q, i
<1>10. \A x \in Objects : fr2.drops[x] > 0 => fr.drops[x] > 0
    <2>1. \A x \in Objects : fr.drops[x] \in Nat /\ fr2.drops[x] \in Nat /\ Is(o, x) \in Nat
        BY <1>1, <1>2 DEF FrameType, Is
    <2>. QED BY <2>1, <1>2
<1>11. \A f \in Frames(r) : \E g \in Frames(w) :
          /\ f.set = g.set /\ f.reclaim = g.reclaim
          /\ \A x \in Objects : f.drops[x] > 0 => g.drops[x] > 0
    BY <1>2, <1>4, <1>5, <1>10
<1>12. \A g \in Frames(w) : \E f \in Frames(r) : f.reclaim = g.reclaim
    BY <1>2, <1>4, <1>5
<1>13. Fewer(r, w, o)
    BY <1>4, <1>7, <1>8, <1>9, <1>11, <1>12 DEF Fewer
<1>. QED BY <1>13 DEF r

\* The objects the collector lists from one that is dropped are alive, and the
\* pointer a setter waits to overwrite is not one of theirs.
Dropped(o) == o \in Objects /\ o \in Alive /\ \E fr \in Frames(work) : fr.drops[o] > 0
\* No pointer leaves them.
LEMMA ListedFacts ==
    ASSUME HeapInv, NEW o, Dropped(o)
    PROVE  /\ o \in Reach(o) /\ Reach(o) \subseteq Alive
           /\ \A x \in Reach(o) : \A f \in FieldNames : <<x, f>> \notin Hidden(work)
           /\ \A x \in Reach(o) : \A f \in Names(slot[x]) : slot[x][f] # NULL => slot[x][f] \in Reach(o)
<1> DEFINE R == Reach(o)
<1>1. WellTyped(kind, slot, count, held, globals) /\ o \in Objects /\ Alive \subseteq Objects
    BY DEF HeapInv, Dropped, Alive
<1>2. o \in R /\ R \subseteq Objects /\ Enclosed(R, slot) /\ \A S : o \in S /\ Enclosed(S, slot) => R \subseteq S
    BY <1>1, ReachIs, ReachFacts
<1>3. ASSUME NEW x \in R, NEW f \in FieldNames, <<x, f>> \in Hidden(work) PROVE FALSE
    <2>1. PICK i \in DOMAIN work : work[i].set[1] = x /\ work[i].set[2] = f
        BY <1>3 DEF Hidden
    <2>2. work[i] \in Frames(work) /\ FrameOK(work[i]) /\ x # NULL
        BY <1>2, TheObjects DEF HeapInv, Frames
    <2>3. work[i].set # NoSet
        BY <2>1, <2>2 DEF NoSet
    <2>4. PICK q \in Objects, g \in FieldNames, v \in Objects \cup {NULL} :
             work[i].set = <<q, g, v>> /\ Storing(q, g, v)
        BY <2>2, <2>3 DEF FrameOK
    <2>5. q = x
        BY <2>1, <2>4
    <2>. QED BY <2>4, <2>5 DEF Storing, Dropped
<1>4. R \subseteq Alive
    <2> DEFINE S == R \cap Alive
    <2>1. o \in S
        BY <1>2 DEF Dropped
    <2>2. ASSUME NEW x \in S, NEW f \in Names(slot[x]), slot[x][f] # NULL PROVE slot[x][f] \in S
        <3>1. x \in Objects /\ f \in FieldNames
            BY <1>1, <1>2, FieldsOf
        <3>2. <<x, f>> \notin Hidden(work)
            BY <3>1, <1>3
        <3>3. slot[x][f] \in Alive
            BY <3>2, <2>2 DEF HeapInv, Sound, Safe
        <3>4. slot[x][f] \in R
            BY <3>1, <2>2, <1>2 DEF Enclosed
        <3>. QED BY <3>3, <3>4
    <2>3. Enclosed(S, slot)
        BY <2>2 DEF Enclosed
    <2> HIDE DEF S
    <2>4. R \subseteq S
        BY <1>2, <2>1, <2>3
    <2>. QED BY <2>4 DEF S
<1>. QED BY <1>2, <1>3, <1>4 DEF Enclosed

\* The frame f stands for g of the stack before a drop: it is in order if the
\* objects it still refers to are alive, and new drops are of what drops led to.
Continues(f, g) ==
    /\ g \in Frames(work) /\ f.set = g.set /\ f.reclaim = g.reclaim
    /\ \A x \in Objects : f.drops[x] > 0 => g.drops[x] > 0
NoneFarther ==
    \A k \in Frames(work') : \A x \in Objects : k.drops[x] > 0 =>
        \E y \in Objects : \E j \in Frames(work) : j.drops[y] > 0 /\ x \in Reach(y)
\* A frame that goes on stays in order.
LEMMA FrameStays ==
    ASSUME HeapInv, UNCHANGED <<kind, slot, held>>, NoneFarther, NEW f, NEW g, Continues(f, g),
           \A x \in Objects : f.drops[x] > 0 \/ f.set[3] = x => (x \in Alive => x \in Alive'),
           \A x \in Objects : Live(x) /\ count[x] <= 0 => count'[x] <= 0
    PROVE  FrameOK(f)'
<1>1. FrameOK(g) /\ g \in FrameType /\ WellTyped(kind, slot, count, held, globals)
    BY DEF HeapInv, Continues, Frames
<1>2. \A x \in f.reclaim : Live(x)' /\ count'[x] <= 0
    BY <1>1 DEF FrameOK, Continues, Live, FrameType
<1>3. \A x \in Objects : f.drops[x] > 0 => x \in Alive' \cup f.reclaim
    BY <1>1 DEF FrameOK, Continues
<1>4. ASSUME f.set # NoSet
      PROVE  \E o \in Objects : \E n \in FieldNames, v \in Objects \cup {NULL} :
                 f.set = <<o, n, v>> /\ Storing(o, n, v)'
    <2>1. PICK o \in Objects, n \in FieldNames, v \in Objects \cup {NULL} :
             f.set = <<o, n, v>> /\ Storing(o, n, v)
        BY <1>1, <1>4 DEF FrameOK, Continues
    <2>2. n \in Settable(o)' /\ held'[o] > 0 /\ slot'[o][n] # NULL
        BY <2>1 DEF Storing, Settable
    <2>3. v \in Alive' \/ (v = NULL /\ n \in Optional)
        <3>1. CASE v \in Alive
            <4>1. v \in Objects /\ f.set[3] = v
                BY <2>1, <3>1 DEF Alive
            <4>. QED BY <4>1, <3>1
        <3>2. CASE v = NULL /\ n \in Optional
            BY <3>2
        <3>. QED BY <3>1, <3>2, <2>1 DEF Storing
    <2>4. ASSUME NEW k \in Frames(work'), NEW x \in Objects, k.drops[x] > 0 PROVE o \notin Reach(x)'
        <3>1. PICK y \in Objects : \E j \in Frames(work) : j.drops[y] > 0 /\ x \in Reach(y)
            BY <2>4 DEF NoneFarther
        <3>2. o \notin Reach(y)
            BY <2>1, <3>1 DEF Storing
        <3>3. Reach(x) \subseteq Reach(y)
            BY <1>1, <3>1, ReachIs, ReachFacts
        <3>4. Reach(x)' = Reach(x)
            BY DEF Reach, Points
        <3>. QED BY <3>2, <3>3, <3>4
    <2>5. Storing(o, n, v)'
        BY <2>2, <2>3, <2>4 DEF Storing
    <2>. QED BY <2>1, <2>5
<1>. QED BY <1>2, <1>3, <1>4 DEF FrameOK

\* Another reference than the one dropped keeps what it led to in reach, or it
\* led to an object that is being torn down.
StillReached(o) ==
    o \in Alive => \A S \in SUBSET Objects :
        Shut(S, Alive, Hidden(work), slot, held, globals, Owes(Rest(work, o))) => o \in S
\* A drop that frees nothing keeps the invariant.
LEMMA JustDropped ==
    ASSUME HeapInv, NEW o \in Objects, work # <<>>, Head(work).drops[o] > 0,
           work' = Rest(work, o), StillReached(o),
           UNCHANGED <<kind, slot, held, globals, crashed, program>>, count' \in [Objects -> Int],
           \A x \in Alive : count'[x] = count[x] - Is(o, x) /\ count'[x] > 0,
           \A x \in Objects : Live(x) /\ count[x] <= 0 => count'[x] <= 0
    PROVE  HeapInv'
<1> DEFINE A == Alive
           H == Hidden(work)
           d == Owes(work)
           e == Owes(work')
<1>1. /\ WellTyped(kind, slot, count, held, globals) /\ work \in Seq(FrameType)
      /\ crashed = "no" /\ program \in Programs /\ Orderly(work) /\ Torn
      /\ Sound(A, H, kind, slot, count, held, globals, d) /\ A \subseteq Objects
    BY DEF HeapInv, Alive
<1>2. Fewer(work', work, o)
    BY <1>1, OneLess
<1>3. /\ work' \in Seq(FrameType) /\ Hidden(work') = H /\ Orderly(work')
      /\ \A x \in Objects : d[x] = e[x] + Is(o, x) /\ e[x] \in Nat
    <2>1. work' \in Seq(FrameType) /\ Hidden(work') = H /\ Orderly(work')
        BY <1>2 DEF Fewer
    <2>2. \A x \in Objects : Pending(work', x) \in Nat
        BY <2>1, PendingType
    <2>. QED BY <2>1, <2>2, <1>2 DEF Fewer, Owes
<1>4. Alive' = A
    <2>1. \A x \in Objects : Live(x)' <=> Live(x)
        BY DEF Live
    <2>2. \A x \in Objects : Live(x) /\ x \notin A => count[x] <= 0
        BY <1>1 DEF Alive, WellTyped
    <2>3. \A x \in Objects : x \in A => Live(x)
        BY DEF Alive
    <2>4. \A x \in Objects : Live(x)' /\ count'[x] > 0 <=> x \in A
        BY <2>1, <2>2, <2>3
    <2>. QED BY <1>1, <2>4 DEF Alive
<1>5. WellTyped(kind', slot', count', held', globals')
    BY <1>1 DEF WellTyped
<1> HIDE DEF A, H, d, e
<1>6. Exact(A, H, slot, count', held, globals, e)
    <2> SUFFICES ASSUME NEW x \in A
                 PROVE  count'[x] = held[x] + GlobalCount(globals, x) + Deg(A, slot, H, x) + e[x]
        BY DEF Exact
    <2> DEFINE D == Deg(A, slot, H, x)
               G == GlobalCount(globals, x)
               c == count[x]
               h == held[x]
               dx == d[x]
               ex == e[x]
               i == Is(o, x)
    <2>1. c = h + G + D + dx
        BY <1>1 DEF Sound, Exact
    <2>2. x \in Objects /\ count'[x] = c - i /\ dx = ex + i /\ ex \in Nat /\ i \in Nat
        BY <1>1, <1>3 DEF A, Is
    <2>3. h \in Nat /\ G \in Nat /\ D \in Nat /\ c \in Int
        BY <1>1, <2>2, GlobalCountType, DegType DEF WellTyped
    <2> HIDE DEF D, G, c, h, dx, ex, i
    <2>4. count'[x] = h + G + D + ex
        BY <2>1, <2>2, <2>3
    <2>. QED BY <2>4 DEF h, G, D, ex
<1>7. Covers(A, H, slot, held, globals, e)
    <2> SUFFICES ASSUME NEW S \in SUBSET Objects, Shut(S, A, H, slot, held, globals, e)
                 PROVE  A \subseteq S
        BY DEF Covers
    <2> DEFINE T == S \cup {o}
    <2>1. ASSUME NEW x \in Objects, held[x] + GlobalCount(globals, x) + d[x] > 0 PROVE x \in T
        <3>1. CASE x = o
            BY <3>1
        <3>2. CASE x # o
            <4>1. d[x] = e[x]
                BY <1>3, <3>2 DEF Is
            <4>2. x \in S
                BY <4>1, <2>1 DEF Shut
            <4>. QED BY <4>2
        <3>. QED BY <3>1, <3>2
    <2>2. o \in A => o \in S
        BY DEF StillReached, A, H, e
    <2>3. ASSUME NEW x \in T \cap A, NEW f \in Names(slot[x]), slot[x][f] # NULL, <<x, f>> \notin H
          PROVE  slot[x][f] \in T
        <3>1. x \in S \cap A
            BY <2>2
        <3>2. slot[x][f] \in S
            BY <2>3, <3>1 DEF Shut
        <3>. QED BY <3>2
    <2>4. Shut(T, A, H, slot, held, globals, d)
        <3> HIDE DEF T
        <3>. QED BY <2>1, <2>3 DEF Shut
    <2>5. T \in SUBSET Objects
        OBVIOUS
    <2>6. A \subseteq T
        <3> HIDE DEF T
        <3>. QED BY <2>4, <2>5, <1>1 DEF Sound, Covers
    <2>. QED BY <2>2, <2>6
<1>8. Sound(A, H, kind, slot, count', held, globals, e)
    BY <1>1, <1>6, <1>7 DEF Sound
<1>9. Sound(Alive', Hidden(work'), kind', slot', count', held', globals', Owes(work'))
    BY <1>3, <1>4, <1>8 DEF e
<1>10. NoneFarther
    <2>1. ASSUME NEW k \in Frames(work'), NEW x \in Objects, k.drops[x] > 0
          PROVE  \E j \in Frames(work) : j.drops[x] > 0 /\ x \in Reach(x)
        <3>1. x \in Reach(x)
            BY <1>1, ReachIs, ReachFacts
        <3>2. \E j \in Frames(work) : j.drops[x] > 0
            BY <2>1, <1>2 DEF Fewer
        <3>. QED BY <3>1, <3>2
    <2>. QED BY <2>1 DEF NoneFarther
<1>11. ASSUME NEW f \in Frames(work') PROVE FrameOK(f)'
    <2>1. PICK g \in Frames(work) : Continues(f, g)
        BY <1>2 DEF Fewer, Continues
    <2>2. \A x \in Objects : f.drops[x] > 0 \/ f.set[3] = x => (x \in Alive => x \in Alive')
        BY <1>4 DEF A
    <2>. QED BY <2>1, <2>2, <1>10, FrameStays
<1>12. Torn'
    <2>1. ASSUME NEW x \in Objects, Live(x)', count'[x] <= 0 PROVE \E f \in Frames(work') : x \in f.reclaim
        <3>1. Live(x) /\ x \notin A
            <4>1. count'[x] \in Int
                OBVIOUS
            <4>. QED BY <4>1, <2>1, <1>4 DEF Alive, Live
        <3>2. count[x] <= 0
            BY <3>1, <1>1 DEF A, Alive, WellTyped
        <3>3. PICK g \in Frames(work) : x \in g.reclaim
            BY <3>1, <3>2, <1>1 DEF Torn
        <3>. QED BY <3>3, <1>2 DEF Fewer
    <2>. QED BY <2>1 DEF Torn
<1>. QED BY <1>1, <1>3, <1>5, <1>9, <1>11, <1>12 DEF HeapInv

\* What freeing S gives up and what the listed objects R report are the pointers.
LEMMA PointersOf ==
    ASSUME HeapInv, NEW S \in SUBSET Objects, NEW x
    PROVE  /\ x \in Objects => Drops(S)[x] = Deg(S, slot, {}, x)
           /\ Internal(S, x) = Deg(S, slot, {}, x)
<1>1. WellTyped(kind, slot, count, held, globals)
    BY DEF HeapInv
<1>2. \A y \in S : /\ Reported(kind[y]) = Names(slot[y]) /\ Released(kind[y]) = Names(slot[y])
                   /\ Names(slot[y]) \subseteq FieldNames
    BY <1>1, FieldsOf
<1> DEFINE P == {p \in UNION {{y} \X Released(kind[y]) : y \in S} : slot[p[1]][p[2]] = x}
           Q == {p \in UNION {{y} \X Reported(kind[y]) : y \in S} : slot[p[1]][p[2]] = x}
<1>3. P = Refs(S, slot, {}, x)
    BY <1>2 DEF Refs, Names
<1>4. Q = Refs(S, slot, {}, x)
    BY <1>2 DEF Refs, Names
<1>5. x \in Objects => Drops(S)[x] = Cardinality(P)
    BY DEF Drops
<1>6. Internal(S, x) = Cardinality(Q)
    BY DEF Internal
<1>. QED BY <1>3, <1>4, <1>5, <1>6 DEF Deg

\* Objects that nothing but each other and the drop refers to are torn down.
Unreferenced(S, o) ==
    /\ S \subseteq Alive /\ o \in S /\ S \subseteq Reach(o)
    /\ \A x \in S : /\ held[x] = 0 /\ GlobalCount(globals, x) = 0 /\ Pending(Rest(work, o), x) = 0
                    /\ Deg(Alive \ S, slot, Hidden(work), x) = 0
\* Their drops come on top of the stack, and the invariant is kept.
LEMMA TornDown ==
    ASSUME HeapInv, NEW o \in Objects, work # <<>>, Head(work).drops[o] > 0,
           NEW S, Unreferenced(S, o), Free(S, Rest(work, o)),
           UNCHANGED <<kind, slot, held, globals, program>>, count' \in [Objects -> Int],
           \A x \in S : count'[x] <= 0, \A x \in Objects \ S : count'[x] = count[x]
    PROVE  HeapInv'
<1>0. PICK fr : fr = Frame(Drops(S), NoSet, S)
    OBVIOUS
<1> DEFINE A == Alive
           B == A \ S
           H == Hidden(work)
           d == Owes(work)
           e == Owes(work')
           rest == Rest(work, o)
<1>1. /\ WellTyped(kind, slot, count, held, globals) /\ work \in Seq(FrameType)
      /\ crashed = "no" /\ program \in Programs /\ Orderly(work) /\ Torn
      /\ Sound(A, H, kind, slot, count, held, globals, d) /\ A \subseteq Objects
    BY DEF HeapInv, Alive
<1>2. Fewer(rest, work, o)
    BY <1>1, OneLess
<1>3. /\ rest \in Seq(FrameType) /\ Hidden(rest) = H /\ Orderly(rest)
      /\ \A x \in Objects : d[x] = Pending(rest, x) + Is(o, x) /\ Pending(rest, x) \in Nat
    <2>1. rest \in Seq(FrameType) /\ Hidden(rest) = H /\ Orderly(rest)
        BY <1>2 DEF Fewer
    <2> HIDE DEF rest
    <2>2. \A x \in Objects : Pending(rest, x) \in Nat
        BY <2>1, PendingType
    <2>. QED BY <2>1, <2>2, <1>2 DEF Fewer, Owes
<1>4. /\ S \subseteq A /\ S \in SUBSET Objects /\ o \in S /\ S \subseteq Reach(o)
      /\ \A x \in S : /\ held[x] = 0 /\ GlobalCount(globals, x) = 0 /\ Pending(rest, x) = 0
                      /\ Deg(B, slot, H, x) = 0
    BY <1>1 DEF Unreferenced
<1>5. \A g \in Frames(rest) : \A x \in S : g.drops[x] = 0 /\ g.set[3] # x
    <2> HIDE DEF rest
    <2>1. ASSUME NEW g \in Frames(rest), NEW x \in S PROVE g.drops[x] = 0 /\ g.set[3] # x
        <3>1. g \in FrameType /\ x \in Objects
            BY <1>3, <1>4 DEF Frames
        <3>2. Owed(g, x) = 0
            BY <1>3, <1>4, <3>1, PendingType
        <3>. QED BY <3>1, <3>2, OwedType
    <2>. QED BY <2>1
<1>6. Dropped(o)
    <2>1. Head(work) \in Frames(work)
        BY <1>1 DEF Frames
    <2>. QED BY <2>1, <1>4 DEF Dropped
<1>7. /\ Reach(o) \subseteq A /\ \A x \in Reach(o) : \A f \in FieldNames : <<x, f>> \notin H
      /\ \A x \in Reach(o) : \A f \in Names(slot[x]) : slot[x][f] # NULL => slot[x][f] \in Reach(o)
    BY <1>6, ListedFacts
<1>8. \A x \in Objects : Drops(S)[x] = Deg(S, slot, H, x) /\ Drops(S)[x] \in Nat
    <2> TAKE x \in Objects
    <2>1. Drops(S)[x] = Deg(S, slot, {}, x)
        BY <1>4, PointersOf
    <2>2. Deg(S, slot, {}, x) = Deg(S, slot, H, x)
        <3>1. Agree(S, slot, slot) /\ \A y \in S : \A f \in FieldNames : <<y, f>> \in {} <=> <<y, f>> \in H
            BY <1>4, <1>7 DEF Agree
        <3> HIDE DEF H
        <3>. QED BY <3>1, DegSame
    <2>3. Deg(S, slot, H, x) \in Nat
        BY <1>4, DegType
    <2>. QED BY <2>1, <2>2, <2>3
<1>9. /\ fr \in FrameType /\ fr.set = NoSet /\ fr.drops = Drops(S) /\ fr.reclaim = S
    <2>1. Drops(S) \in [Objects -> Nat]
        <3>1. Drops(S) = [x \in Objects |-> Drops(S)[x]]
            BY DEF Drops
        <3>. QED BY <1>8, <3>1
    <2>. QED BY <1>0, <2>1, <1>4, NoSetType DEF Frame, FrameType
<1>10. crashed' = "no" /\ work' = <<fr>> \o rest
    <2>1. ~NullDropped(S)
        <3>1. ASSUME NEW x \in S, NEW f \in Released(kind[x]) \ Optional PROVE slot[x][f] # NULL
            <4>1. f \in Names(slot[x]) /\ x \in Objects
                BY <1>1, <1>4, FieldsOf
            <4>. QED BY <4>1, <1>1 DEF Sound, Filled
        <3>. QED BY <3>1 DEF NullDropped
    <2>. QED BY <1>0, <1>1, <2>1 DEF Free
<1> HIDE DEF A, H, d, e, rest
<1>11. \A g \in Frames(rest) : g.reclaim \cap S = {} /\ g.reclaim \subseteq Objects
    <2>1. ASSUME NEW g \in Frames(rest) PROVE g.reclaim \cap S = {} /\ g.reclaim \subseteq Objects
        <3>1. PICK k \in Frames(work) : k.reclaim = g.reclaim
            BY <1>2 DEF Fewer
        <3>2. FrameOK(k) /\ k \in FrameType
            BY <3>1, <1>1 DEF HeapInv, Frames
        <3>3. \A x \in k.reclaim : count[x] <= 0 /\ x \in Objects
            BY <3>2 DEF FrameOK, FrameType
        <3>4. \A x \in S : count[x] > 0 /\ count[x] \in Int
            BY <1>1, <1>4 DEF A, Alive, WellTyped
        <3>. QED BY <3>1, <3>3, <3>4
    <2>. QED BY <2>1
<1>12. /\ work' \in Seq(FrameType) /\ Hidden(work') = H /\ Orderly(work')
       /\ Frames(work') = {fr} \cup Frames(rest)
    <2>1. work' \in Seq(FrameType) /\ Frames(work') = {fr} \cup Frames(rest)
        BY <1>3, <1>9, <1>10, OnTop
    <2>2. Hidden(work') = H
        BY <1>3, <1>9, <1>10, PlainOnTop
    <2>3. Orderly(work')
        BY <1>3, <1>9, <1>10, <1>11, PlainOnTop
    <2>. QED BY <2>1, <2>2, <2>3
<1>13. \A x \in Objects : e[x] = Pending(rest, x) + Deg(S, slot, H, x) /\ e[x] \in Nat
    <2> TAKE x \in Objects
    <2>1. Owed(fr, x) = fr.drops[x] + Is(fr.set[3], x) /\ Is(fr.set[3], x) = 0
        <3>1. fr.set[3] # x
            BY <1>9, TheObjects DEF NoSet
        <3>. QED BY <3>1, <1>9, OwedType DEF Is
    <2>2. Owed(fr, x) = Deg(S, slot, H, x) /\ Deg(S, slot, H, x) \in Nat
        BY <2>1, <1>8, <1>9
    <2>3. e[x] = Pending(rest, x) + Owed(fr, x)
        BY <1>3, <1>9, <1>10, PendingOnTop DEF e, Owes
    <2>. QED BY <2>2, <2>3, <1>3
<1>14. Alive' = B
    <2>1. \A x \in Objects : Live(x)' <=> Live(x)
        BY DEF Live
    <2>2. \A x \in Objects : count'[x] > 0 <=> x \notin S /\ count[x] > 0
        <3>1. \A x \in Objects : count'[x] \in Int
            OBVIOUS
        <3>. QED BY <3>1, <1>1
    <2>. QED BY <2>1, <2>2 DEF Alive, A
<1>15. WellTyped(kind', slot', count', held', globals')
    BY <1>1 DEF WellTyped
<1>16. \A x : Deg(A, slot, H, x) = Deg(B, slot, H, x) + Deg(S, slot, H, x)
              /\ Deg(B, slot, H, x) \in Nat /\ Deg(S, slot, H, x) \in Nat
    <2> TAKE x
    <2>1. B \in SUBSET Objects /\ B \cap S = {} /\ A = B \cup S
        BY <1>1, <1>4
    <2> HIDE DEF B
    <2>2. Deg(A, slot, H, x) = Deg(B, slot, H, x) + Deg(S, slot, H, x)
        BY <2>1, <1>4, DegSplit
    <2>. QED BY <2>1, <2>2, <1>4, DegType
<1>17. Exact(B, H, slot, count', held, globals, e)
    <2> SUFFICES ASSUME NEW x \in B
                 PROVE  count'[x] = held[x] + GlobalCount(globals, x) + Deg(B, slot, H, x) + e[x]
        BY DEF Exact
    <2> DEFINE D == Deg(A, slot, H, x)
               E == Deg(B, slot, H, x)
               F == Deg(S, slot, H, x)
               G == GlobalCount(globals, x)
               c == count[x]
               h == held[x]
               p == Pending(rest, x)
    <2>1. c = h + G + D + d[x]
        BY <1>1 DEF Sound, Exact
    <2>2. x \in Objects /\ x # o /\ x \notin S
        BY <1>1, <1>4
    <2>3. count'[x] = c /\ d[x] = p + Is(o, x) /\ Is(o, x) = 0 /\ e[x] = p + F /\ p \in Nat
        BY <2>2, <1>3, <1>13 DEF Is
    <2>4. h \in Nat /\ G \in Nat /\ D = E + F /\ E \in Nat /\ F \in Nat /\ c \in Int
        BY <1>1, <1>16, <2>2, GlobalCountType DEF WellTyped
    <2> HIDE DEF D, E, F, G, c, h, p
    <2>5. count'[x] = h + G + E + e[x]
        BY <2>1, <2>3, <2>4
    <2>. QED BY <2>5 DEF E, G, h
<1>18. Safe(B, H, slot, held, globals)
    <2>1. ASSUME NEW x \in Objects, held[x] + GlobalCount(globals, x) > 0 PROVE x \in B
        <3>1. x \in A
            BY <2>1, <1>1 DEF Sound, Safe
        <3>2. x \notin S
            BY <2>1, <1>4
        <3>. QED BY <3>1, <3>2
    <2>2. ASSUME NEW x \in B, NEW f \in Names(slot[x]), slot[x][f] # NULL, <<x, f>> \notin H
          PROVE  slot[x][f] \in B
        <3>1. slot[x][f] \in A
            BY <2>2, <1>1 DEF Sound, Safe
        <3>2. ASSUME slot[x][f] \in S PROVE FALSE
            <4>1. f \in FieldNames /\ B \in SUBSET Objects
                BY <1>1, FieldsOf
            <4>2. <<x, f>> \in Refs(B, slot, H, slot[x][f])
                BY <2>2, <4>1 DEF Refs, Names
            <4>3. Deg(B, slot, H, slot[x][f]) # 0
                BY <4>1, <4>2, DegType
            <4>. QED BY <4>3, <3>2, <1>4
        <3>. QED BY <3>1, <3>2
    <2> HIDE DEF B
    <2>. QED BY <2>1, <2>2 DEF Safe
<1>19. ASSUME NEW x \in S, NEW f \in Names(slot[x]), slot[x][f] # NULL
       PROVE  slot[x][f] \in A /\ Drops(S)[slot[x][f]] > 0 /\ e[slot[x][f]] > 0
    <2>1. slot[x][f] \in A /\ f \in FieldNames /\ slot[x][f] \in Objects
        <3>1. f \in FieldNames
            BY <1>1, <1>4, FieldsOf
        <3>2. slot[x][f] \in A
            BY <1>4, <1>7, <1>19
        <3>. QED BY <3>1, <3>2, <1>1
    <2>2. <<x, f>> \in Refs(S, slot, H, slot[x][f])
        BY <2>1, <1>4, <1>7 DEF Refs, Names
    <2>3. Deg(S, slot, H, slot[x][f]) # 0
        BY <2>2, <1>4, DegType
    <2>4. Deg(S, slot, H, slot[x][f]) \in Nat /\ Pending(rest, slot[x][f]) \in Nat
        BY <2>1, <1>3, <1>16
    <2>. QED BY <2>1, <2>3, <2>4, <1>8, <1>13
<1>20. Covers(B, H, slot, held, globals, e)
    <2> SUFFICES ASSUME NEW T \in SUBSET Objects, Shut(T, B, H, slot, held, globals, e)
                 PROVE  B \subseteq T
        BY DEF Covers
    <2> DEFINE U == T \cup S
    <2>0. \A x \in Objects : held[x] \in Nat /\ GlobalCount(globals, x) \in Nat
        BY <1>1, GlobalCountType DEF WellTyped
    <2>1. ASSUME NEW x \in Objects, held[x] + GlobalCount(globals, x) + d[x] > 0 PROVE x \in U
        <3>1. CASE x = o
            BY <3>1, <1>4
        <3>2. CASE x # o
            <4>1. d[x] = Pending(rest, x) /\ Pending(rest, x) \in Nat
                BY <1>3, <3>2 DEF Is
            <4>2. e[x] = d[x] + Deg(S, slot, H, x) /\ Deg(S, slot, H, x) \in Nat
                BY <4>1, <1>13, <1>16
            <4>3. held[x] + GlobalCount(globals, x) + e[x] > 0
                BY <4>1, <4>2, <2>0, <2>1
            <4>4. x \in T
                BY <4>3 DEF Shut
            <4>. QED BY <4>4
        <3>. QED BY <3>1, <3>2
    <2>2. ASSUME NEW x \in U \cap A, NEW f \in Names(slot[x]), slot[x][f] # NULL, <<x, f>> \notin H
          PROVE  slot[x][f] \in U
        <3>1. CASE x \in S
            <4>1. e[slot[x][f]] > 0 /\ slot[x][f] \in Objects
                BY <3>1, <2>2, <1>1, <1>19
            <4>2. held[slot[x][f]] + GlobalCount(globals, slot[x][f]) + e[slot[x][f]] > 0
                BY <4>1, <2>0, <1>13
            <4>3. slot[x][f] \in T
                BY <4>1, <4>2 DEF Shut
            <4>. QED BY <4>3
        <3>2. CASE x \notin S
            <4>1. x \in T \cap B
                BY <2>2, <3>2
            <4>2. slot[x][f] \in T
                BY <4>1, <2>2 DEF Shut
            <4>. QED BY <4>2
        <3>. QED BY <3>1, <3>2
    <2>3. U \in SUBSET Objects
        BY <1>4
    <2> HIDE DEF U
    <2>4. Shut(U, A, H, slot, held, globals, d)
        BY <2>1, <2>2 DEF Shut
    <2>5. A \subseteq U
        BY <2>3, <2>4, <1>1 DEF Sound, Covers
    <2>. QED BY <2>5 DEF U
<1>21. Layers(B, kind, slot, globals)
    BY <1>1 DEF Sound, Layers
<1>22. Sound(Alive', Hidden(work'), kind', slot', count', held', globals', Owes(work'))
    <2>1. Sound(B, H, kind, slot, count', held, globals, e)
        BY <1>1, <1>17, <1>18, <1>20, <1>21 DEF Sound
    <2>. QED BY <2>1, <1>12, <1>14 DEF e
<1>23. \A x \in Objects : Drops(S)[x] > 0 => x \in Reach(o)
    <2>1. ASSUME NEW x \in Objects, Drops(S)[x] > 0 PROVE x \in Reach(o)
        <3>1. Refs(S, slot, H, x) # {}
            <4>1. Deg(S, slot, H, x) # 0
                BY <2>1, <1>8
            <4>. QED BY <4>1, <1>4, DegType
        <3>2. PICK y \in S, f \in FieldNames : f \in DOMAIN slot[y] /\ slot[y][f] = x
            BY <3>1 DEF Refs
        <3>. QED BY <3>2, <1>4, <1>7, TheObjects DEF Names
    <2>. QED BY <2>1
<1>24. NoneFarther
    <2>1. ASSUME NEW k \in Frames(work'), NEW x \in Objects, k.drops[x] > 0
          PROVE  \E y \in Objects : \E j \in Frames(work) : j.drops[y] > 0 /\ x \in Reach(y)
        <3>1. CASE k = fr
            <4>1. x \in Reach(o)
                BY <3>1, <2>1, <1>9, <1>23
            <4>. QED BY <4>1, <1>6 DEF Dropped
        <3>2. CASE k \in Frames(rest)
            <4>1. x \in Reach(x)
                BY <1>1, ReachIs, ReachFacts
            <4>2. \E j \in Frames(work) : j.drops[x] > 0
                BY <3>2, <2>1, <1>2 DEF Fewer
            <4>. QED BY <4>1, <4>2
        <3>. QED BY <3>1, <3>2, <1>12
    <2>. QED BY <2>1 DEF NoneFarther
<1>25. ASSUME NEW f \in Frames(rest) PROVE FrameOK(f)'
    <2>1. PICK g \in Frames(work) : Continues(f, g)
        BY <1>2 DEF Fewer, Continues
    <2>2. \A x \in Objects : f.drops[x] > 0 \/ f.set[3] = x => (x \in Alive => x \in Alive')
        BY <1>5, <1>14 DEF A
    <2>3. \A x \in Objects : Live(x) /\ count[x] <= 0 => count'[x] <= 0
        OBVIOUS
    <2>. QED BY <2>1, <2>2, <2>3, <1>24, FrameStays
<1>26. FrameOK(fr)'
    <2>1. \A x \in S : Live(x)' /\ count'[x] <= 0
        BY <1>4 DEF A, Alive, Live
    <2>2. ASSUME NEW x \in Objects, fr.drops[x] > 0 PROVE x \in Alive' \cup S
        <3>1. x \in A
            BY <2>2, <1>7, <1>9, <1>23
        <3>. QED BY <3>1, <1>14
    <2>. QED BY <2>1, <2>2, <1>9 DEF FrameOK
<1>27. Torn'
    <2>1. ASSUME NEW x \in Objects, Live(x)', count'[x] <= 0 PROVE \E f \in Frames(work') : x \in f.reclaim
        <3>1. CASE x \in S
            BY <3>1, <1>9, <1>12
        <3>2. CASE x \notin S
            <4>1. Live(x) /\ count[x] <= 0
                BY <3>2, <2>1 DEF Live
            <4>2. PICK g \in Frames(work) : x \in g.reclaim
                BY <4>1, <1>1 DEF Torn
            <4>. QED BY <4>2, <1>2, <1>12 DEF Fewer
        <3>. QED BY <3>1, <3>2
    <2>. QED BY <2>1 DEF Torn
<1>. QED BY <1>1, <1>10, <1>12, <1>15, <1>22, <1>25, <1>26, <1>27 DEF HeapInv

\* The count of a listed object, the drop done, is what the listed objects report
\* of it and the references it has from elsewhere.
Left(o, x) == IF x = o THEN count[o] - 1 ELSE count[x]
Elsewhere(o, x) ==
    held[x] + GlobalCount(globals, x) + Pending(Rest(work, o), x)
    + Deg(Alive \ Reach(o), slot, Hidden(work), x)
\* The two sums are the same.
LEMMA LeftIs ==
    ASSUME HeapInv, NEW o \in Objects, work # <<>>, Head(work).drops[o] > 0, o \in Alive,
           NEW x \in Reach(o)
    PROVE  /\ Left(o, x) = Internal(Reach(o), x) + Elsewhere(o, x)
           /\ Internal(Reach(o), x) \in Nat /\ Elsewhere(o, x) \in Nat
           /\ Elsewhere(o, x) = 0 => /\ held[x] = 0 /\ GlobalCount(globals, x) = 0
                                     /\ Pending(Rest(work, o), x) = 0
                                     /\ Deg(Alive \ Reach(o), slot, Hidden(work), x) = 0
<1> DEFINE A == Alive
           H == Hidden(work)
           R == Reach(o)
           rest == Rest(work, o)
           D == Deg(A, slot, H, x)
           E == Deg(A \ R, slot, H, x)
           F == Deg(R, slot, H, x)
           I == Internal(R, x)
           G == GlobalCount(globals, x)
           c == count[x]
           h == held[x]
           p == Pending(rest, x)
           i == Is(o, x)
           l == Left(o, x)
<1>1. /\ WellTyped(kind, slot, count, held, globals) /\ work \in Seq(FrameType) /\ Orderly(work)
      /\ Exact(A, H, slot, count, held, globals, Owes(work)) /\ A \subseteq Objects
    BY DEF HeapInv, Alive, Sound
<1>2. Dropped(o)
    <2>1. Head(work) \in Frames(work)
        BY <1>1 DEF Frames
    <2>. QED BY <2>1 DEF Dropped
<1>3. R \subseteq A /\ \A y \in R : \A f \in FieldNames : <<y, f>> \notin H
    BY <1>2, ListedFacts
<1>4. x \in A /\ x \in Objects
    BY <1>1, <1>3
<1>5. Fewer(rest, work, o)
    BY <1>1, OneLess
<1>6. Pending(work, x) = p + i /\ p \in Nat
    <2>1. Pending(work, x) = p + i /\ rest \in Seq(FrameType)
        BY <1>4, <1>5 DEF Fewer
    <2> HIDE DEF rest
    <2>. QED BY <2>1, <1>4, PendingType
<1>7. c = h + G + D + Pending(work, x)
    BY <1>1, <1>4 DEF Exact, Owes
<1> HIDE DEF A, H, R, rest
<1>8. D = E + F /\ E \in Nat /\ F \in Nat
    <2>1. (A \ R) \in SUBSET Objects /\ R \in SUBSET Objects /\ (A \ R) \cap R = {} /\ A = (A \ R) \cup R
        BY <1>1, <1>3
    <2>2. ASSUME NEW B, B = A \ R PROVE D = Deg(B, slot, H, x) + F /\ Deg(B, slot, H, x) \in Nat /\ F \in Nat
        <3>1. B \in SUBSET Objects /\ R \in SUBSET Objects /\ B \cap R = {} /\ A = B \cup R
            BY <2>1, <2>2
        <3>2. Deg(B \cup R, slot, H, x) = Deg(B, slot, H, x) + F
            BY <3>1, DegSplit
        <3>3. Deg(B, slot, H, x) \in Nat /\ F \in Nat
            BY <3>1, DegType
        <3>. QED BY <3>1, <3>2, <3>3
    <2>. QED BY <2>2
<1>9. I = F
    <2>1. I = Deg(R, slot, {}, x)
        <3>1. R \in SUBSET Objects
            BY <1>1, <1>3
        <3>. QED BY <3>1, PointersOf
    <2>2. Agree(R, slot, slot) /\ \A y \in R : \A f \in FieldNames : <<y, f>> \in {} <=> <<y, f>> \in H
        BY <1>3 DEF Agree
    <2>. QED BY <2>1, <2>2, DegSame
<1>10. h \in Nat /\ G \in Nat /\ c \in Int /\ i \in Nat
    BY <1>1, <1>4, GlobalCountType DEF WellTyped, Is
<1>11. l = c - i
    BY <1>4, <1>10, <1>1 DEF Left, Is, WellTyped
<1>12. Elsewhere(o, x) = h + G + p + E
    BY DEF Elsewhere, A, H, R, rest
<1>13. l = I + (h + G + p + E) /\ I \in Nat /\ h + G + p + E \in Nat
       /\ (h + G + p + E = 0 => h = 0 /\ G = 0 /\ p = 0 /\ E = 0)
    <2> HIDE DEF D, E, F, I, G, c, h, p, i, l
    <2>. QED BY <1>6, <1>7, <1>8, <1>9, <1>10, <1>11
<1>. QED BY <1>12, <1>13 DEF A, H, R, rest

\* An object of the clique that is referred to from elsewhere keeps the clique.
LEMMA ReferredToElsewhere ==
    ASSUME HeapInv, NEW o \in Objects, work # <<>>, Head(work).drops[o] > 0, o \in Alive,
           NEW y \in Clique(o), Left(o, y) > Internal(Reach(o), y)
    PROVE  StillReached(o)
<1> DEFINE A == Alive
           H == Hidden(work)
           R == Reach(o)
           rest == Rest(work, o)
           e == Owes(rest)
<1> SUFFICES ASSUME NEW S \in SUBSET Objects, Shut(S, A, H, slot, held, globals, e)
             PROVE  o \in S
    BY DEF StillReached
<1>1. /\ WellTyped(kind, slot, count, held, globals) /\ work \in Seq(FrameType) /\ Orderly(work)
      /\ Sound(A, H, kind, slot, count, held, globals, Owes(work)) /\ A \subseteq Objects
    BY DEF HeapInv, Alive
<1>2. Dropped(o)
    <2>1. Head(work) \in Frames(work)
        BY <1>1 DEF Frames
    <2>. QED BY <2>1 DEF Dropped
<1>3. /\ o \in R /\ R \subseteq A /\ \A x \in R : \A f \in FieldNames : <<x, f>> \notin H
      /\ \A x \in R : \A f \in Names(slot[x]) : slot[x][f] # NULL => slot[x][f] \in R
    BY <1>2, ListedFacts
<1>4. y \in R /\ o \in Reach(y) /\ y \in Objects
    BY <1>1, <1>3 DEF Clique
<1>5. \A x \in Objects : Owes(work)[x] = e[x] + Is(o, x) /\ e[x] \in Nat
    <2>1. Fewer(rest, work, o)
        BY <1>1, OneLess
    <2> HIDE DEF rest
    <2>2. rest \in Seq(FrameType) /\ \A x \in Objects : Pending(work, x) = Pending(rest, x) + Is(o, x)
        BY <2>1 DEF Fewer
    <2>3. \A x \in Objects : Pending(rest, x) \in Nat
        BY <2>2, PendingType
    <2>. QED BY <2>2, <2>3 DEF Owes
<1>6. Elsewhere(o, y) > 0
    <2>1. /\ Left(o, y) = Internal(R, y) + Elsewhere(o, y)
          /\ Internal(R, y) \in Nat /\ Elsewhere(o, y) \in Nat
        BY <1>4, LeftIs
    <2>. QED BY <2>1
<1>7. Elsewhere(o, y) = held[y] + GlobalCount(globals, y) + e[y] + Deg(A \ R, slot, H, y)
    BY <1>4 DEF Elsewhere, Owes
<1> HIDE DEF A, H, R, rest, e
<1>8. y \in S => o \in S
    <2>1. Enclosed(S \cap R, slot)
        <3>1. ASSUME NEW x \in S \cap R, NEW f \in Names(slot[x]), slot[x][f] # NULL PROVE slot[x][f] \in S \cap R
            <4>1. x \in A /\ f \in FieldNames
                BY <1>1, <1>3, FieldsOf
            <4>2. slot[x][f] \in S
                BY <4>1, <3>1, <1>3 DEF Shut
            <4>. QED BY <4>2, <3>1, <1>3
        <3>. QED BY <3>1 DEF Enclosed
    <2>2. \A T : y \in T /\ Enclosed(T, slot) => Reach(y) \subseteq T
        BY <1>1, <1>4, ReachIs, ReachFacts
    <2>. QED BY <2>1, <2>2, <1>4
<1>9. CASE held[y] + GlobalCount(globals, y) + e[y] > 0
    BY <1>4, <1>8, <1>9 DEF Shut
<1>10. CASE ~(held[y] + GlobalCount(globals, y) + e[y] > 0)
    <2>1. Deg(A \ R, slot, H, y) # 0
        <3>1. held[y] \in Nat /\ GlobalCount(globals, y) \in Nat /\ e[y] \in Nat
            BY <1>1, <1>4, <1>5, GlobalCountType DEF WellTyped
        <3> DEFINE D == Deg(A \ R, slot, H, y)
        <3>2. D \in Nat
            <4>1. (A \ R) \in SUBSET Objects
                BY <1>1
            <4>2. ASSUME NEW B, B = A \ R PROVE Deg(B, slot, H, y) \in Nat
                BY <4>1, <4>2, DegType
            <4>. QED BY <4>2
        <3>3. held[y] + GlobalCount(globals, y) + e[y] + D > 0
            BY <1>6, <1>7
        <3> HIDE DEF D
        <3>4. D # 0
            BY <3>1, <3>2, <3>3, <1>10
        <3>. QED BY <3>4 DEF D
    <2>2. Refs(A \ R, slot, H, y) # {}
        <3>1. (A \ R) \in SUBSET Objects
            BY <1>1
        <3>2. ASSUME NEW B, B = A \ R PROVE Refs(B, slot, H, y) # {}
            BY <2>1, <3>1, <3>2, DegType
        <3>. QED BY <3>2
    <2>3. PICK z \in A \ R, f \in FieldNames : f \in Names(slot[z]) /\ slot[z][f] = y /\ <<z, f>> \notin H
        BY <2>2 DEF Refs, Names
    <2> DEFINE T == S \cup R
    <2>4. ASSUME NEW x \in Objects, held[x] + GlobalCount(globals, x) + Owes(work)[x] > 0 PROVE x \in T
        <3>1. CASE x = o
            BY <3>1, <1>3
        <3>2. CASE x # o
            <4>1. Owes(work)[x] = e[x]
                BY <3>2, <1>5 DEF Is
            <4>2. x \in S
                BY <4>1, <2>4 DEF Shut
            <4>. QED BY <4>2
        <3>. QED BY <3>1, <3>2
    <2>5. ASSUME NEW x \in T \cap A, NEW n \in Names(slot[x]), slot[x][n] # NULL, <<x, n>> \notin H
          PROVE  slot[x][n] \in T
        <3>1. CASE x \in R
            BY <3>1, <2>5, <1>3
        <3>2. CASE x \notin R
            <4>1. slot[x][n] \in S
                BY <3>2, <2>5 DEF Shut
            <4>. QED BY <4>1
        <3>. QED BY <3>1, <3>2
    <2>6. T \in SUBSET Objects
        BY <1>1, <1>3
    <2>7. A \subseteq T
        <3> HIDE DEF T
        <3>1. Shut(T, A, H, slot, held, globals, Owes(work))
            BY <2>4, <2>5 DEF Shut
        <3>. QED BY <3>1, <2>6, <1>1 DEF Sound, Covers
    <2>8. z \in S \cap A
        BY <2>3, <2>7
    <2>9. y # NULL
        BY <1>4, TheObjects
    <2>10. slot[z][f] \in S
        BY <2>3, <2>8, <2>9 DEF Shut
    <2>. QED BY <2>3, <2>10, <1>8
<1>. QED BY <1>9, <1>10

\* The search for a clique: the clique is kept, or torn down; no count is below
\* what is reported of it.
LEMMA CollectKeeps ==
    ASSUME HeapInv, NEW o \in Objects, work # <<>>, Head(work).drops[o] > 0, o \in Alive, count[o] > 1,
           Collect(o, count[o] - 1, Rest(work, o)), UNCHANGED <<kind, slot, held, globals, program>>
    PROVE  HeapInv'
<1>0. PICK K : K = Clique(o)
    OBVIOUS
<1> DEFINE A == Alive
           R == Reach(o)
           rest == Rest(work, o)
           c(x) == IF x = o THEN count[o] - 1 ELSE count[x]
<1>1. /\ WellTyped(kind, slot, count, held, globals) /\ work \in Seq(FrameType)
      /\ crashed = "no" /\ program \in Programs /\ A \subseteq Objects /\ count \in [Objects -> Int]
    BY DEF HeapInv, Alive, WellTyped
<1>2. Dropped(o)
    <2>1. Head(work) \in Frames(work)
        BY <1>1 DEF Frames
    <2>. QED BY <2>1 DEF Dropped
<1>3. /\ o \in R /\ R \subseteq A /\ \A x \in R : \A f \in FieldNames : <<x, f>> \notin Hidden(work)
      /\ \A x \in R : \A f \in Names(slot[x]) : slot[x][f] # NULL => slot[x][f] \in R
    BY <1>2, ListedFacts
<1>4. K \subseteq R /\ o \in K /\ \A x \in R : x \in K <=> o \in Reach(x)
    BY <1>0, <1>3 DEF Clique
<1>5. \A x : Left(o, x) = c(x)
    BY DEF Left
<1>6. \A x \in R : /\ c(x) = Internal(R, x) + Elsewhere(o, x)
                   /\ Internal(R, x) \in Nat /\ Elsewhere(o, x) \in Nat
                   /\ Elsewhere(o, x) = 0 =>
                         /\ held[x] = 0 /\ GlobalCount(globals, x) = 0 /\ Pending(rest, x) = 0
                         /\ Deg(A \ R, slot, Hidden(work), x) = 0
    BY <1>5, LeftIs
<1>7. Collect(o, count[o] - 1, rest) =>
        \/ /\ \/ c(o) > Internal(R, o)
              \/ c(o) = Internal(R, o) /\ \E x \in K : c(x) > Internal(R, x)
           /\ count' = [count EXCEPT ![o] = count[o] - 1]
           /\ work' = rest /\ UNCHANGED crashed
        \/ c(o) < Internal(R, o) \/ \E x \in K : c(x) < Internal(R, x)
        \/ /\ \A x \in K : c(x) = Internal(R, x)
           /\ count' = [x \in Objects |-> IF x \in K THEN -1 ELSE count[x]]
           /\ Free(K, rest)
    BY <1>0 DEF Collect
<1> HIDE DEF c, rest
<1>8. ~(c(o) < Internal(R, o) \/ \E x \in K : c(x) < Internal(R, x))
    <2>1. ASSUME NEW x \in R PROVE ~(c(x) < Internal(R, x))
        <3>1. c(x) = Internal(R, x) + Elsewhere(o, x) /\ Internal(R, x) \in Nat /\ Elsewhere(o, x) \in Nat
            BY <1>6
        <3>. QED BY <3>1
    <2>. QED BY <2>1, <1>3, <1>4
<1>9. CASE /\ c(o) > Internal(R, o) \/ \E x \in K : c(x) > Internal(R, x)
           /\ count' = [count EXCEPT ![o] = count[o] - 1]
           /\ work' = rest /\ UNCHANGED crashed
    <2>1. PICK y \in K : c(y) > Internal(R, y)
        BY <1>4, <1>9
    <2>2. StillReached(o)
        BY <2>1, <1>0, <1>5, ReferredToElsewhere
    <2>3. count' \in [Objects -> Int] /\ \A x \in Objects : count'[x] = IF x = o THEN count[o] - 1 ELSE count[x]
        BY <1>1, <1>9
    <2>4. \A x \in A : count'[x] = count[x] - Is(o, x) /\ count'[x] > 0
        <3>1. \A x \in A : x \in Objects /\ count[x] > 0 /\ count[x] \in Int
            BY <1>1 DEF Alive
        <3>. QED BY <2>3, <3>1 DEF Is
    <2>5. \A x \in Objects : Live(x) /\ count[x] <= 0 => count'[x] <= 0
        BY <2>3, <1>1
    <2>6. work' = Rest(work, o)
        BY <1>9 DEF rest
    <2>. QED BY <1>9, <2>2, <2>3, <2>4, <2>5, <2>6, JustDropped
<1>10. CASE /\ \A x \in K : c(x) = Internal(R, x)
            /\ count' = [x \in Objects |-> IF x \in K THEN -1 ELSE count[x]]
            /\ Free(K, rest)
    <2>1. \A x \in K : Elsewhere(o, x) = 0
        <3> TAKE x \in K
        <3>1. c(x) = Internal(R, x) + Elsewhere(o, x) /\ Internal(R, x) \in Nat /\ Elsewhere(o, x) \in Nat
            BY <1>4, <1>6
        <3>2. c(x) = Internal(R, x)
            BY <1>10
        <3>. QED BY <3>1, <3>2
    <2>2. ASSUME NEW x \in K, Refs(A \ K, slot, Hidden(work), x) # {} PROVE FALSE
        <3>1. PICK z \in A \ K, f \in FieldNames :
                 f \in Names(slot[z]) /\ slot[z][f] = x /\ <<z, f>> \notin Hidden(work)
            BY <2>2 DEF Refs, Names
        <3>2. CASE z \in R
            <4>1. o \in Reach(x) /\ z \in Objects /\ x \in Objects /\ x # NULL
                BY <1>1, <1>3, <1>4, <3>1, TheObjects
            <4>2. Reach(x) \subseteq Reach(z)
                <5>1. x \in Reach(z)
                    <6>1. z \in Reach(z) /\ Enclosed(Reach(z), slot)
                        BY <1>1, <4>1, ReachIs, ReachFacts
                    <6>. QED BY <6>1, <3>1, <4>1 DEF Enclosed
                <5>. QED BY <5>1, <1>1, <4>1, ReachIs, ReachFacts
            <4>. QED BY <4>1, <4>2, <3>1, <3>2, <1>4
        <3>3. CASE z \notin R
            <4>1. <<z, f>> \in Refs(A \ R, slot, Hidden(work), x)
                BY <3>1, <3>3 DEF Refs, Names
            <4>2. Deg(A \ R, slot, Hidden(work), x) = 0
                BY <2>1, <1>4, <1>6
            <4>3. (A \ R) \in SUBSET Objects
                BY <1>1
            <4>4. ASSUME NEW B, B = A \ R PROVE Refs(B, slot, Hidden(work), x) = {}
                BY <4>2, <4>3, <4>4, DegType
            <4>. QED BY <4>1, <4>4
        <3>. QED BY <3>2, <3>3
    <2>3. \A x \in K : Deg(A \ K, slot, Hidden(work), x) = 0
        <3>1. ASSUME NEW x \in K PROVE Deg(A \ K, slot, Hidden(work), x) = 0
            <4>1. Refs(A \ K, slot, Hidden(work), x) = {}
                BY <2>2
            <4>. QED BY <4>1, FS_EmptySet DEF Deg
        <3>. QED BY <3>1
    <2>4. Unreferenced(K, o)
        BY <1>3, <1>4, <1>6, <2>1, <2>3 DEF Unreferenced, rest
    <2>5. /\ count' \in [Objects -> Int] /\ (\A x \in K : count'[x] <= 0)
          /\ \A x \in Objects \ K : count'[x] = count[x]
        BY <1>1, <1>3, <1>4, <1>10
    <2>6. Free(K, Rest(work, o))
        BY <1>10 DEF rest
    <2>. QED BY <2>4, <2>5, <2>6, TornDown
<1>. QED BY <1>7, <1>8, <1>9, <1>10 DEF rest

\* A drop keeps the invariant: the object stays, is torn down, or is the last
\* of a clique that is (Minimal_delReference2).
LEMMA DeleteKeeps ==
    ASSUME HeapInv, NEW o \in Objects, Delete(o)
    PROVE  HeapInv'
<1> DEFINE fr == Head(work)
           rest == Rest(work, o)
<1>1. /\ WellTyped(kind, slot, count, held, globals) /\ work \in Seq(FrameType)
      /\ crashed = "no" /\ program \in Programs /\ Alive \subseteq Objects /\ count \in [Objects -> Int]
      /\ Exact(Alive, Hidden(work), slot, count, held, globals, Owes(work)) /\ Orderly(work)
    BY DEF HeapInv, Alive, WellTyped, Sound
<1>2. work # <<>> /\ fr.drops[o] > 0 /\ UNCHANGED <<kind, slot, held, globals, program>>
    BY DEF Delete
<1>3. \/ count[o] < 0 /\ work' = rest /\ UNCHANGED <<count, crashed>>
      \/ count[o] = 1 /\ count' = [count EXCEPT ![o] = 0] /\ Free({o}, rest)
      \/ count[o] > 1 /\ Collect(o, count[o] - 1, rest)
      \/ count[o] = 0 /\ count' = [count EXCEPT ![o] = -1] /\ work' = rest /\ UNCHANGED crashed
    BY DEF Delete, Rest
<1>4. count[o] > 0 => o \in Alive
    <2>1. fr \in Frames(work) /\ FrameOK(fr)
        BY <1>1, <1>2 DEF HeapInv, Frames
    <2>2. o \in Alive \cup fr.reclaim
        BY <1>2, <2>1 DEF FrameOK
    <2>3. o \in fr.reclaim => count[o] <= 0 /\ count[o] \in Int
        BY <1>1, <2>1 DEF FrameOK
    <2>. QED BY <2>2, <2>3
<1> HIDE DEF fr, rest
<1>5. CASE count[o] > 1 /\ Collect(o, count[o] - 1, rest)
    BY <1>1, <1>2, <1>4, <1>5, CollectKeeps DEF fr, rest
<1>6. CASE count[o] = 1 /\ count' = [count EXCEPT ![o] = 0] /\ Free({o}, rest)
    <2>1. o \in Alive
        BY <1>4, <1>6
    <2> DEFINE D == Deg(Alive, slot, Hidden(work), o)
               G == GlobalCount(globals, o)
               h == held[o]
               p == Pending(rest, o)
    <2>2. Pending(work, o) = p + 1 /\ p \in Nat
        <3>1. Fewer(rest, work, o)
            BY <1>1, <1>2, OneLess DEF fr, rest
        <3>2. rest \in Seq(FrameType) /\ Pending(work, o) = p + Is(o, o)
            BY <3>1 DEF Fewer
        <3>. QED BY <3>2, PendingType DEF Is
    <2>3. 1 = h + G + D + Pending(work, o)
        BY <1>1, <1>6, <2>1 DEF Exact, Owes
    <2>4. h \in Nat /\ G \in Nat /\ D \in Nat
        BY <1>1, GlobalCountType, DegType DEF WellTyped
    <2>5. h = 0 /\ G = 0 /\ D = 0 /\ p = 0
        <3> HIDE DEF h, G, D, p
        <3>. QED BY <2>2, <2>3, <2>4
    <2>6. Deg(Alive \ {o}, slot, Hidden(work), o) = 0
        <3>1. Refs(Alive, slot, Hidden(work), o) = {}
            BY <1>1, <2>5, DegType
        <3>2. Refs(Alive \ {o}, slot, Hidden(work), o) = {}
            BY <3>1 DEF Refs
        <3>. QED BY <3>2, FS_EmptySet DEF Deg
    <2>7. o \in Reach(o)
        BY <1>1, ReachIs, ReachFacts
    <2>8. Unreferenced({o}, o)
        BY <2>1, <2>5, <2>6, <2>7 DEF Unreferenced, rest
    <2>9. count' \in [Objects -> Int] /\ (\A x \in {o} : count'[x] <= 0)
          /\ \A x \in Objects \ {o} : count'[x] = count[x]
        BY <1>1, <1>6
    <2>. QED BY <1>2, <1>6, <2>8, <2>9, TornDown DEF fr, rest
<1>7. CASE count[o] <= 0 /\ count' \in [Objects -> Int] /\ count'[o] <= 0
           /\ (\A x \in Objects : x # o => count'[x] = count[x]) /\ work' = rest /\ UNCHANGED crashed
    <2>1. o \notin Alive
        BY <1>1, <1>7 DEF Alive
    <2>2. \A x \in Alive : count'[x] = count[x] - Is(o, x) /\ count'[x] > 0
        BY <2>1, <1>1, <1>7 DEF Is, Alive
    <2>3. \A x \in Objects : Live(x) /\ count[x] <= 0 => count'[x] <= 0
        BY <1>7
    <2>4. StillReached(o)
        BY <2>1 DEF StillReached
    <2>. QED BY <1>2, <1>7, <2>2, <2>3, <2>4, JustDropped DEF fr, rest
<1>8. CASE count[o] < 0 /\ work' = rest /\ UNCHANGED <<count, crashed>>
    BY <1>1, <1>7, <1>8
<1>9. CASE count[o] = 0 /\ count' = [count EXCEPT ![o] = -1] /\ work' = rest /\ UNCHANGED crashed
    BY <1>1, <1>7, <1>9
<1>. QED BY <1>3, <1>5, <1>6, <1>8, <1>9

(***************************************************************************)
(* The drops of a frame are done.                                          *)
(***************************************************************************)
\* The pointer a setter waits to overwrite is not a layer's map.
LEMMA HiddenIs ==
    ASSUME HeapInv, NEW p \in Hidden(work)
    PROVE  p[2] \in {"e1", "e2", "ptr", "value"}
<1>1. p \in Objects \X FieldNames /\ WellTyped(kind, slot, count, held, globals)
    BY DEF Hidden, HeapInv
<1>2. PICK i \in DOMAIN work : work[i].set[1] = p[1] /\ work[i].set[2] = p[2]
    BY DEF Hidden
<1>3. FrameOK(work[i]) /\ work[i].set # NoSet
    BY <1>1, <1>2, TheObjects DEF HeapInv, Frames, NoSet
<1>4. PICK q \in Objects, g \in FieldNames, v \in Objects \cup {NULL} :
         work[i].set = <<q, g, v>> /\ Storing(q, g, v)
    BY <1>3 DEF FrameOK
<1>5. g \in Settable(q) /\ g = p[2]
    BY <1>2, <1>4 DEF Storing
<1>. QED BY <1>1, <1>5, SetSlots

\* The memory of the objects torn down is free again.
LEMMA FreedKeeps ==
    ASSUME HeapInv, Return, Head(work).set = NoSet
    PROVE  HeapInv'
<1>0. PICK w : w = Head(work)
    OBVIOUS
<1> DEFINE A == Alive
           H == Hidden(work)
           d == Owes(work)
           F == w.reclaim
<1>1. /\ WellTyped(kind, slot, count, held, globals) /\ work \in Seq(FrameType)
      /\ crashed = "no" /\ program \in Programs /\ Orderly(work) /\ Torn
      /\ Sound(A, H, kind, slot, count, held, globals, d) /\ A \subseteq Objects
      /\ kind \in [Objects -> Kinds \cup {"unused"}] /\ count \in [Objects -> Int]
    BY DEF HeapInv, Alive, WellTyped
<1>2. /\ work # <<>> /\ w.drops = NoDrops /\ work' = Tail(work) /\ w.set = NoSet
      /\ UNCHANGED <<held, globals, crashed, program>>
    BY <1>0 DEF Return
<1>3. /\ w \in FrameType /\ work' \in Seq(FrameType) /\ work = <<w>> \o work' /\ w \in Frames(work)
      /\ Frames(work) = {w} \cup Frames(work')
    <2>1. w \in FrameType /\ work' \in Seq(FrameType) /\ work = <<w>> \o work'
        BY <1>0, <1>1, <1>2, TopAndRest
    <2>2. Frames(<<w>> \o work') = {w} \cup Frames(work')
        BY <2>1, OnTop
    <2>. QED BY <2>1, <2>2
<1>4. F \subseteq Objects /\ FrameOK(w) /\ \A x \in F : Live(x) /\ count[x] <= 0 /\ x \notin A
    BY <1>1, <1>3 DEF HeapInv, FrameOK, FrameType, Alive
<1>5. \A x \in Objects : /\ kind'[x] = IF x \in F THEN "unused" ELSE kind[x]
                         /\ count'[x] = IF x \in F THEN 0 ELSE count[x]
                         /\ slot'[x] = IF x \in F THEN NoSlots ELSE slot[x]
    <2>1. \A x \in Objects : x # w.set[1]
        BY <1>2, TheObjects DEF NoSet
    <2>. QED BY <1>0, <2>1 DEF Return
<1>6. /\ Hidden(work') = H /\ Orderly(work')
      /\ \A f \in Frames(work') : f.reclaim \cap F = {}
    <2>1. Hidden(<<w>> \o work') = Hidden(work')
        BY <1>2, <1>3, PlainOnTop
    <2>2. Orderly(<<w>> \o work') => Orderly(work') /\ \A f \in Frames(work') : f.reclaim \cap w.reclaim = {}
        BY <1>2, <1>3, PlainOnTop
    <2>. QED BY <2>1, <2>2, <1>1, <1>3
<1>7. Owes(work') = d
    <2>1. ASSUME NEW x \in Objects PROVE Pending(work, x) = Pending(work', x)
        <3>1. Pending(<<w>> \o work', x) = Pending(work', x) + Owed(w, x) /\ Pending(work', x) \in Nat
            BY <1>3, PendingOnTop, PendingType
        <3>2. w.drops[x] = 0 /\ w.set[3] # x
            BY <1>2, TheObjects DEF NoDrops, NoSet
        <3>3. Owed(w, x) = 0
            BY <3>2, <1>3, OwedType
        <3>. QED BY <3>1, <3>3, <1>3
    <2>. QED BY <2>1 DEF Owes
<1> HIDE DEF H, d, F
<1>8. Alive' = A
    BY <1>4, <1>5 DEF Alive, Live
<1>9. \A x \in A : x \in Objects /\ kind'[x] = kind[x] /\ slot'[x] = slot[x] /\ count'[x] = count[x]
    BY <1>1, <1>4, <1>5
<1>10. WellTyped(kind', slot', count', held', globals')
    <2>1. kind' = [x \in Objects |-> kind'[x]] /\ slot' = [x \in Objects |-> slot'[x]]
          /\ count' = [x \in Objects |-> count'[x]]
        BY DEF Return
    <2>2. ASSUME NEW x \in Objects
          PROVE  /\ kind'[x] \in Kinds \cup {"unused"} /\ count'[x] \in Int
                 /\ slot'[x] \in [IF kind'[x] # "unused" THEN Fields(kind'[x]) ELSE {} -> Objects \cup {NULL}]
        <3>1. CASE x \in F
            <4>1. kind'[x] = "unused" /\ count'[x] = 0 /\ slot'[x] = [f \in {} |-> NULL]
                BY <3>1, <1>5 DEF NoSlots
            <4>2. slot'[x] \in [{} -> Objects \cup {NULL}]
                BY <4>1
            <4>. QED BY <4>1, <4>2
        <3>2. CASE x \notin F
            BY <3>2, <1>1, <1>5 DEF WellTyped
        <3>. QED BY <3>1, <3>2
    <2>3. kind' \in [Objects -> Kinds \cup {"unused"}] /\ count' \in [Objects -> Int]
        BY <2>1, <2>2
    <2>. QED BY <2>1, <2>2, <2>3, <1>1, <1>2 DEF WellTyped
<1>11. Filled(slot')
    <2>1. ASSUME NEW x \in Objects, NEW f \in Names(slot'[x]), slot'[x][f] = NULL PROVE f \in Optional
        <3>1. x \notin F
            BY <2>1, <1>5 DEF NoSlots, Names
        <3>2. slot'[x] = slot[x]
            BY <3>1, <1>5
        <3>. QED BY <2>1, <3>2, <1>1 DEF Sound, Filled
    <2>. QED BY <2>1 DEF Filled
<1>12. Layers(A, kind', slot', globals)
    <2>1. ASSUME NEW l \in A, kind'[l] = "layer"
          PROVE  slot'[l].map \in Objects /\ kind'[slot'[l].map] = "map"
        <3>1. kind[l] = "layer" /\ slot'[l] = slot[l] /\ l \in Objects
            BY <2>1, <1>9
        <3>2. slot[l].map \in Objects /\ kind[slot[l].map] = "map"
            BY <3>1, <1>1 DEF Sound, Layers
        <3>3. "map" \in Names(slot[l]) /\ <<l, "map">> \notin H
            <4>1. l \in InUse(kind)
                BY <3>1 DEF InUse
            <4>2. "map" \in Names(slot[l])
                BY <4>1, <3>1, <1>1, FieldsOf, SomeFields
            <4>3. \A p \in H : p[2] # "map"
                BY HiddenIs DEF H
            <4>. QED BY <4>2, <4>3
        <3>4. slot[l].map \in A
            BY <3>2, <3>3, <1>1, TheObjects DEF Sound, Safe
        <3>. QED BY <3>1, <3>2, <3>4, <1>9
    <2>2. ASSUME globals.default # NULL
          PROVE  globals.current \in Objects /\ kind'[globals.current] = "layer" /\ globals.typeType \in Objects
        <3>1. globals.current \in Objects /\ kind[globals.current] = "layer" /\ globals.typeType \in Objects
            BY <2>2, <1>1 DEF Sound, Layers
        <3>2. held[globals.current] \in Nat /\ GlobalCount(globals, globals.current) > 0
              /\ GlobalCount(globals, globals.current) \in Nat
            BY <3>1, <1>1, GlobalCountType DEF WellTyped
        <3>3. held[globals.current] + GlobalCount(globals, globals.current) > 0
            BY <3>2
        <3>4. globals.current \in A
            BY <3>1, <3>3, <1>1 DEF Sound, Safe
        <3>. QED BY <3>1, <3>4, <1>9
    <2>3. globals.default = NULL => globals.current = NULL /\ globals.typeType = NULL
        BY <1>1 DEF Sound, Layers
    <2> HIDE DEF A
    <2>. QED BY <2>1, <2>2, <2>3 DEF Layers
<1> HIDE DEF A
<1>13. Exact(A, H, slot', count', held, globals, d)
    <2>1. Agree(A, slot, slot')
        BY <1>9 DEF Agree
    <2>2. \A x : Deg(A, slot', H, x) = Deg(A, slot, H, x)
        BY <2>1, DegSame
    <2>. QED BY <2>2, <1>1, <1>9 DEF Sound, Exact
<1>14. Safe(A, H, slot', held, globals)
    BY <1>1, <1>9 DEF Sound, Safe
<1>15. Covers(A, H, slot', held, globals, d)
    <2> SUFFICES ASSUME NEW S \in SUBSET Objects, Shut(S, A, H, slot', held, globals, d)
                 PROVE  A \subseteq S
        BY DEF Covers
    <2>1. ASSUME NEW x \in S \cap A, NEW f \in Names(slot[x]), slot[x][f] # NULL, <<x, f>> \notin H
          PROVE  slot[x][f] \in S
        <3>1. slot'[x] = slot[x]
            BY <1>9
        <3>. QED BY <3>1, <2>1 DEF Shut
    <2>2. Shut(S, A, H, slot, held, globals, d)
        BY <2>1 DEF Shut
    <2>. QED BY <2>2, <1>1 DEF Sound, Covers
<1>16. Sound(Alive', Hidden(work'), kind', slot', count', held', globals', Owes(work'))
    BY <1>2, <1>6, <1>7, <1>8, <1>11, <1>12, <1>13, <1>14, <1>15 DEF Sound
<1>17. \A x \in Objects : Reach(x)' \subseteq Reach(x)
    <2> TAKE x \in Objects
    <2>1. x \in Reach(x) /\ Enclosed(Reach(x), slot)
        BY <1>1, ReachIs, ReachFacts
    <2>2. Enclosed(Reach(x), slot')
        <3>1. \A y \in Objects : Names(slot'[y]) = {} \/ slot'[y] = slot[y]
            BY <1>5 DEF NoSlots, Names
        <3>. QED BY <2>1, <3>1 DEF Enclosed
    <2>3. ReachOf(kind', slot', x) \subseteq Reach(x)
        BY <2>1, <2>2, <1>10, ReachFacts
    <2>4. Reach(x)' = ReachOf(kind', slot', x)
        BY DEF Reach, ReachOf, Points
    <2>. QED BY <2>3, <2>4
<1>18. ASSUME NEW f \in Frames(work') PROVE FrameOK(f)'
    <2>1. f \in Frames(work) /\ FrameOK(f) /\ f \in FrameType
        <3>1. f \in Frames(work)
            BY <1>3
        <3>2. FrameOK(f)
            BY <3>1 DEF HeapInv
        <3>. QED BY <3>1, <3>2, <1>1 DEF Frames
    <2>2. \A x \in f.reclaim : Live(x)' /\ count'[x] <= 0
        <3>1. \A x \in f.reclaim : Live(x) /\ count[x] <= 0 /\ x \notin F /\ x \in Objects
            BY <2>1, <1>6 DEF FrameOK, FrameType
        <3>. QED BY <3>1, <1>5 DEF Live
    <2>3. \A x \in Objects : f.drops[x] > 0 => x \in Alive' \cup f.reclaim
        BY <2>1, <1>8 DEF FrameOK, A
    <2>4. ASSUME NEW o \in Objects, NEW n \in FieldNames, NEW v \in Objects \cup {NULL}, Storing(o, n, v)
          PROVE  Storing(o, n, v)'
        <3>1. /\ n \in Settable(o) /\ held[o] > 0 /\ slot[o][n] # NULL
              /\ v \in Alive \/ (v = NULL /\ n \in Optional)
              /\ \A k \in Frames(work) : \A x \in Objects : k.drops[x] > 0 => o \notin Reach(x)
            BY <2>4 DEF Storing
        <3>2. o \in A
            <4>1. held[o] \in Nat /\ GlobalCount(globals, o) \in Nat
                BY <1>1, GlobalCountType DEF WellTyped
            <4>2. held[o] + GlobalCount(globals, o) > 0
                BY <3>1, <4>1
            <4>. QED BY <4>2, <1>1 DEF Sound, Safe
        <3>3. kind'[o] = kind[o] /\ slot'[o] = slot[o]
            BY <3>2, <1>9
        <3>4. Settable(o)' = Settable(o)
            BY <3>3 DEF Settable
        <3>5. \A k \in Frames(work') : \A x \in Objects : k.drops[x] > 0 => o \notin Reach(x)'
            BY <3>1, <1>3, <1>17
        <3>. QED BY <3>1, <3>3, <3>4, <3>5, <1>2, <1>8 DEF Storing, A
    <2>5. f.set # NoSet => \E o \in Objects : \E n \in FieldNames, v \in Objects \cup {NULL} :
                               f.set = <<o, n, v>> /\ Storing(o, n, v)'
        BY <2>1, <2>4 DEF FrameOK
    <2>. QED BY <2>2, <2>3, <2>5 DEF FrameOK
<1>19. Torn'
    <2>1. ASSUME NEW x \in Objects, Live(x)', count'[x] <= 0 PROVE \E f \in Frames(work') : x \in f.reclaim
        <3>1. x \notin F /\ Live(x) /\ count[x] <= 0
            BY <2>1, <1>5 DEF Live
        <3>2. PICK g \in Frames(work) : x \in g.reclaim
            BY <3>1, <1>1 DEF Torn
        <3>. QED BY <3>1, <3>2, <1>3 DEF F
    <2>. QED BY <2>1 DEF Torn
<1>. QED BY <1>1, <1>2, <1>3, <1>6, <1>10, <1>16, <1>18, <1>19 DEF HeapInv

\* A sequence without elements is empty,
LEMMA NoElements == \A S : \A q \in Seq(S) : Len(q) = 0 => q = <<>>
OBVIOUS
\* ... so nothing is below the only frame of a stack.
LEMMA NothingBelow ==
    ASSUME NEW S, NEW q \in Seq(S), q # <<>>, Len(q) = 1
    PROVE  Tail(q) = <<>>
<1>1. Tail(q) \in Seq(S) /\ Len(Tail(q)) = Len(q) - 1
    OBVIOUS
<1>2. Len(Tail(q)) = 0
    BY <1>1
<1>. QED BY <1>1, <1>2, NoElements

\* A setter waits alone on the stack, and for the drops of its own frame only.
LEMMA WaitsAlone ==
    ASSUME HeapInv, Return, Head(work).set # NoSet
    PROVE  \E o \in Objects : \E f \in FieldNames, v \in Objects \cup {NULL} :
               /\ Storing(o, f, v) /\ Head(work).reclaim = {} /\ Tail(work) = <<>>
               /\ Hidden(work) = {<<o, f>>} /\ Owes(work) = [x \in Objects |-> Is(v, x)]
               /\ Alive = InUse(kind) /\ Head(work).set = <<o, f, v>>
<1>0. PICK w : w = Head(work)
    OBVIOUS
<1>1. work # <<>> /\ w.drops = NoDrops /\ w.set # NoSet
    BY <1>0 DEF Return
<1>2. /\ work \in Seq(FrameType) /\ Orderly(work)
      /\ w \in FrameType /\ Tail(work) \in Seq(FrameType) /\ work = <<w>> \o Tail(work)
    <2>1. work \in Seq(FrameType) /\ Orderly(work)
        BY DEF HeapInv
    <2>. QED BY <2>1, <1>0, <1>1, TopAndRest
<1>3. 1 \in DOMAIN work /\ work[1] = w /\ Len(work) \in Nat
    BY <1>0, <1>1, <1>2
<1>4. w.reclaim = {} /\ Len(work) = 1
    BY <1>1, <1>2, <1>3 DEF Orderly
<1>5. Tail(work) = <<>> /\ work = <<w>>
    <2>2. Tail(work) = <<>>
        BY <1>1, <1>2, <1>4, NothingBelow
    <2>3. <<w>> \o <<>> = <<w>>
        OBVIOUS
    <2>. QED BY <2>2, <2>3, <1>2
<1>6. FrameOK(w)
    <2>1. w \in Frames(work)
        BY <1>3 DEF Frames
    <2>. QED BY <2>1 DEF HeapInv
<1>7. PICK o \in Objects : \E f \in FieldNames, v \in Objects \cup {NULL} :
               w.set = <<o, f, v>> /\ Storing(o, f, v)
    BY <1>1, <1>6 DEF FrameOK
<1>8. PICK f \in FieldNames, v \in Objects \cup {NULL} : w.set = <<o, f, v>> /\ Storing(o, f, v)
    BY <1>7
<1>9. Hidden(work) = {<<o, f>>}
    <2>1. Hidden(work) = {p \in Objects \X FieldNames : w.set[1] = p[1] /\ w.set[2] = p[2]}
        BY <1>2, <1>4, <1>5, Alone
    <2>. QED BY <2>1, <1>8
<1>10. Owes(work) = [x \in Objects |-> Is(v, x)]
    <2>1. ASSUME NEW x \in Objects PROVE Owes(work)[x] = Is(v, x)
        <3>1. Owes(work)[x] = Owed(w, x)
            BY <1>2, <1>4, <1>5, Alone
        <3>2. w.drops[x] = 0 /\ w.set[3] = v
            BY <1>1, <1>8 DEF NoDrops
        <3>. QED BY <3>1, <3>2 DEF Owed, Is
    <2>. QED BY <2>1 DEF Owes
<1>11. Alive = InUse(kind)
    <2>1. Frames(work) = {w}
        BY <1>2, <1>4, <1>5, Alone
    <2>2. ASSUME NEW x \in Objects, Live(x) PROVE count[x] > 0
        <3>1. ~(count[x] <= 0)
            BY <2>1, <2>2, <1>4 DEF HeapInv, Torn
        <3>2. count[x] \in Int
            BY DEF HeapInv, WellTyped
        <3>. QED BY <3>1, <3>2
    <2>. QED BY <2>2 DEF Alive, InUse, Live
<1>. QED BY <1>0, <1>4, <1>5, <1>8, <1>9, <1>10, <1>11

\* The setter that waited stores its value.
LEMMA StoredKeeps ==
    ASSUME HeapInv, Return, Head(work).set # NoSet
    PROVE  HeapInv'
<1>0. PICK o \in Objects : \E f \in FieldNames, v \in Objects \cup {NULL} :
               /\ Storing(o, f, v) /\ Head(work).reclaim = {} /\ Tail(work) = <<>>
               /\ Hidden(work) = {<<o, f>>} /\ Owes(work) = [x \in Objects |-> Is(v, x)]
               /\ Alive = InUse(kind) /\ Head(work).set = <<o, f, v>>
    BY WaitsAlone
<1>1. PICK f \in FieldNames, v \in Objects \cup {NULL} :
               /\ Storing(o, f, v) /\ Head(work).reclaim = {} /\ Tail(work) = <<>>
               /\ Hidden(work) = {<<o, f>>} /\ Owes(work) = [x \in Objects |-> Is(v, x)]
               /\ Alive = InUse(kind) /\ Head(work).set = <<o, f, v>>
    BY <1>0
<1> DEFINE A == InUse(kind)
           H == {<<o, f>>}
           d == [x \in Objects |-> Is(v, x)]
<1>2. PICK s, t, old : s = slot /\ t = slot' /\ old = slot[o][f]
    OBVIOUS
<1>3. /\ WellTyped(kind, s, count, held, globals) /\ Sound(A, H, kind, s, count, held, globals, d)
      /\ program \in Programs
    BY <1>1, <1>2 DEF HeapInv
<1>4. /\ o \in A /\ f \in Names(s[o]) /\ f # "map" /\ held[o] > 0
      /\ v \in A \/ (v = NULL /\ f \in Optional)
    BY <1>1, <1>2, <1>3, SetSlots DEF Storing
<1>5. A \in SUBSET Objects /\ A \subseteq Objects
    BY DEF InUse
<1>6. /\ kind' = kind /\ count' = count /\ work' = <<>>
      /\ UNCHANGED <<held, globals, crashed, program>>
    <2>1. /\ kind' = [x \in Objects |-> IF x \in {} THEN "unused" ELSE kind[x]]
          /\ count' = [x \in Objects |-> IF x \in {} THEN 0 ELSE count[x]]
          /\ work' = <<>> /\ UNCHANGED <<held, globals, crashed, program>>
        BY <1>1 DEF Return
    <2>2. kind = [x \in Objects |-> kind[x]] /\ count = [x \in Objects |-> count[x]]
        BY <1>3 DEF WellTyped
    <2>. QED BY <2>1, <2>2
<1>7. Overwritten(s, t, o, f, v)
    <2>1. t = [x \in Objects |-> IF x = o /\ f \in DOMAIN s[x] THEN [s[x] EXCEPT ![f] = v] ELSE s[x]]
        BY <1>1, <1>2 DEF Return
    <2>2. t[o] = [s[o] EXCEPT ![f] = v]
        BY <2>1, <1>4 DEF Names
    <2>3. s[o] = [n \in DOMAIN s[o] |-> s[o][n]]
        BY <1>3 DEF WellTyped
    <2>4. DOMAIN t[o] = DOMAIN s[o] /\ t[o] = [n \in DOMAIN s[o] |-> t[o][n]] /\ t[o][f] = v
          /\ \A n \in DOMAIN s[o] : n # f => t[o][n] = s[o][n]
        BY <2>2, <2>3, <1>4 DEF Names
    <2>5. \A x \in Objects : x # o => t[x] = s[x]
        BY <2>1
    <2>6. t = [x \in Objects |-> t[x]]
        BY <2>1
    <2>. QED BY <2>4, <2>5, <2>6 DEF Overwritten, Agree, ButFor
<1>8. /\ t = [x \in Objects |-> t[x]] /\ Agree(Objects \ {o}, s, t)
      /\ ButFor(f, s[o], t[o]) /\ t[o] = [n \in DOMAIN s[o] |-> t[o][n]] /\ t[o][f] = v
    BY <1>7 DEF Overwritten
<1>9. \A x \in Objects : Names(t[x]) = Names(s[x])
    BY <1>8 DEF Agree, ButFor, Names
<1>10. \A x \in Objects : \A n \in Names(s[x]) : t[x][n] = IF x = o /\ n = f THEN v ELSE s[x][n]
    BY <1>8 DEF Agree, ButFor, Names
<1>11. WellTyped(kind, t, count, held, globals)
    <2>1. ASSUME NEW x \in Objects, x # o
          PROVE  t[x] \in [IF kind[x] # "unused" THEN Fields(kind[x]) ELSE {} -> Objects \cup {NULL}]
        BY <1>3, <1>8, <2>1 DEF WellTyped, Agree
    <2>2. t[o] \in [IF kind[o] # "unused" THEN Fields(kind[o]) ELSE {} -> Objects \cup {NULL}]
        <3>1. s[o] \in [IF kind[o] # "unused" THEN Fields(kind[o]) ELSE {} -> Objects \cup {NULL}]
            BY <1>3, <1>4 DEF WellTyped
        <3>2. DOMAIN s[o] = IF kind[o] # "unused" THEN Fields(kind[o]) ELSE {}
            BY <3>1
        <3>3. \A n \in DOMAIN s[o] : t[o][n] \in Objects \cup {NULL}
            BY <3>1, <1>4, <1>10 DEF Names
        <3>. QED BY <3>2, <3>3, <1>8
    <2>. QED BY <1>3, <1>8, <2>1, <2>2 DEF WellTyped
<1>12. Filled(t)
    <2>1. Filled(s)
        BY <1>3 DEF Sound
    <2>2. ASSUME NEW x \in Objects, NEW n \in Names(t[x]), t[x][n] = NULL PROVE n \in Optional
        <3>1. n \in Names(s[x]) /\ t[x][n] = IF x = o /\ n = f THEN v ELSE s[x][n]
            BY <1>9, <1>10
        <3>2. CASE x = o /\ n = f
            BY <3>1, <3>2, <2>2, <1>4, <1>5, TheObjects
        <3>3. CASE ~(x = o /\ n = f)
            BY <3>1, <3>3, <2>1, <2>2 DEF Filled
        <3>. QED BY <3>2, <3>3
    <2>. QED BY <2>2 DEF Filled
<1>13. Layers(A, kind, t, globals)
    <2>1. ASSUME NEW l \in A, kind[l] = "layer" PROVE t[l].map = s[l].map
        <3>1. l \in Objects /\ Names(s[l]) = {"map", "parent"}
            BY <1>3, <1>5, <2>1, FieldsOf, OtherFields
        <3>. QED BY <3>1, <1>4, <1>10
    <2>. QED BY <2>1, <1>3 DEF Sound, Layers
<1> HIDE DEF A
<1>14. Exact(A, {}, t, count, held, globals, NoDrops)
    <2> SUFFICES ASSUME NEW x \in A
                 PROVE  count[x] = held[x] + GlobalCount(globals, x) + Deg(A, t, {}, x) + NoDrops[x]
        BY DEF Exact
    <2>1. x \in Objects
        BY <1>5
    <2> DEFINE D == Deg(A, t, {}, x)
               D1 == Deg(A, s, {}, x)
               E == Deg(A, s, H, x)
               G == GlobalCount(globals, x)
               cx == count[x]
               hx == held[x]
               i == Is(s[o][f], x)
               j == Is(v, x)
    <2>2. cx = hx + G + E + j
        BY <1>3, <2>1 DEF Sound, Exact
    <2>3. D1 = E + i
        <3>1. HasPointer(A, s, o, f)
            BY <1>4, <1>5 DEF HasPointer
        <3>. QED BY <3>1, DegHide
    <2>4. D = D1 - i + j
        <3>1. Stores(A, s, t, o, f)
            BY <1>4, <1>5, <1>8, <1>9 DEF Stores, Agree
        <3>. QED BY <3>1, <1>8, DegStores
    <2>5. hx \in Nat /\ G \in Nat /\ E \in Nat /\ i \in Nat /\ j \in Nat /\ NoDrops[x] = 0
        BY <2>1, <1>3, <1>5, GlobalCountType, DegType DEF WellTyped, Is, NoDrops
    <2> HIDE DEF D, D1, E, G, cx, hx, i, j
    <2>6. cx = hx + G + D + 0
        BY <2>2, <2>3, <2>4, <2>5
    <2>. QED BY <2>5, <2>6 DEF D, G, cx, hx
<1>15. Safe(A, {}, t, held, globals)
    <2>1. Safe(A, H, s, held, globals)
        BY <1>3 DEF Sound
    <2>2. ASSUME NEW x \in A, NEW n \in Names(t[x]), t[x][n] # NULL PROVE t[x][n] \in A
        <3>1. CASE x = o /\ n = f
            BY <3>1, <2>2, <1>4, <1>8
        <3>2. CASE ~(x = o /\ n = f)
            <4>1. n \in Names(s[x]) /\ t[x][n] = s[x][n] /\ <<x, n>> \notin H
                BY <3>2, <1>5, <1>9, <1>10
            <4>. QED BY <4>1, <2>1, <2>2 DEF Safe
        <3>. QED BY <3>1, <3>2
    <2>. QED BY <2>1, <2>2 DEF Safe
<1>16. Covers(A, {}, t, held, globals, NoDrops)
    <2> SUFFICES ASSUME NEW S \in SUBSET Objects, Shut(S, A, {}, t, held, globals, NoDrops)
                 PROVE  A \subseteq S
        BY DEF Covers
    <2>1. \A x \in Objects : /\ held[x] \in Nat /\ GlobalCount(globals, x) \in Nat /\ NoDrops[x] = 0
                             /\ Is(v, x) \in {0, 1} /\ (Is(v, x) = 1 <=> x = v)
        BY <1>3, GlobalCountType DEF WellTyped, NoDrops, Is
    <2>2. \A x \in Objects : held[x] + GlobalCount(globals, x) > 0 => x \in S
        BY <2>1 DEF Shut
    <2>3. o \in S
        BY <1>4, <2>1, <2>2
    <2>4. v \in Objects => v \in S
        BY <2>3, <1>4, <1>8, <1>9, TheObjects DEF Shut
    <2>5. ASSUME NEW x \in Objects, held[x] + GlobalCount(globals, x) + d[x] > 0 PROVE x \in S
        <3>1. d[x] = Is(v, x)
            OBVIOUS
        <3> HIDE DEF d
        <3>2. x = v \/ held[x] + GlobalCount(globals, x) > 0
            BY <3>1, <2>1, <2>5
        <3>. QED BY <3>2, <2>2, <2>4
    <2>6. ASSUME NEW x \in S \cap A, NEW n \in Names(s[x]), s[x][n] # NULL, <<x, n>> \notin H PROVE s[x][n] \in S
        <3>1. n \in Names(t[x]) /\ t[x][n] = s[x][n]
            BY <2>6, <1>5, <1>9, <1>10
        <3>. QED BY <3>1, <2>6 DEF Shut
    <2>7. Shut(S, A, H, s, held, globals, d)
        BY <2>5, <2>6 DEF Shut
    <2>. QED BY <2>7, <1>3 DEF Sound, Covers
<1>17. Quiet(kind, t, count, held, globals, NoDrops)
    <2>1. \A x \in Objects : kind[x] # "unused" => count[x] > 0
        BY <1>1 DEF Alive, InUse
    <2>2. NoDrops \in [Objects -> Nat] /\ \A x \in Objects : ~(NoDrops[x] > 0)
        BY DEF NoDrops
    <2>3. Sound(A, {}, kind, t, count, held, globals, NoDrops)
        BY <1>12, <1>13, <1>14, <1>15, <1>16 DEF Sound
    <2>. QED BY <1>11, <2>1, <2>2, <2>3 DEF Quiet, A
<1>18. Loose(work', NoDrops)
    BY <1>6, NoDropsOwed
<1>19. Quiet(kind', slot', count', held', globals', NoDrops)
    BY <1>2, <1>6, <1>17
<1>20. crashed' = "no" /\ program' \in Programs
    <2>1. crashed = "no"
        BY DEF HeapInv
    <2>. QED BY <1>3, <1>6, <2>1
<1>. QED BY <1>18, <1>19, <1>20, After

\* The end of a drop.
LEMMA ReturnKeeps ==
    ASSUME HeapInv, Return
    PROVE  HeapInv'
BY FreedKeeps, StoredKeeps

(***************************************************************************)
(* The first state, and every step.                                        *)
(***************************************************************************)
\* Before the first call.
LEMMA AtFirst ==
    ASSUME Quiet(kind, slot, count, held, globals, NoDrops), work = <<>>, crashed = "no",
           program \in Programs
    PROVE  HeapInv
<1>1. WellTyped(kind, slot, count, held, globals) /\ \A x \in Objects : kind[x] # "unused" => count[x] > 0
    BY DEF Quiet
<1>2. Alive = InUse(kind)
    BY <1>1 DEF Alive, InUse, Live
<1>3. work \in Seq(FrameType) /\ Hidden(work) = {} /\ Owes(work) = NoDrops /\ Orderly(work) /\ Frames(work) = {}
    BY NoDropsOwed DEF Loose
<1>4. Sound(Alive, Hidden(work), kind, slot, count, held, globals, Owes(work))
    BY <1>2, <1>3 DEF Quiet
<1>5. Torn
    <2>1. \A x \in Objects : count[x] \in Int
        BY <1>1 DEF WellTyped
    <2>. QED BY <1>1, <2>1 DEF Torn, Live
<1>. QED BY <1>1, <1>3, <1>4, <1>5 DEF HeapInv

\* What Minimal_init builds: the default layer with its map, which binds the
\* type of types, and the definition of that type.
LEMMA FirstObjects ==
    ASSUME Init
    PROVE  /\ InUse(kind) = Builtin /\ Builtin \subseteq Objects
           /\ kind[Default] = "layer" /\ kind[DefaultMap] = "map" /\ kind[TypeType] = "type"
           /\ kind[TypeDef] = "leaf"
           /\ slot[Default] = [map |-> DefaultMap, parent |-> NULL]
           /\ slot[DefaultMap] = [e1 |-> TypeType, e2 |-> NULL]
           /\ slot[TypeType] = [typeobj |-> TypeType, type_spec |-> TypeDef, typemap |-> Default]
           /\ slot[TypeDef] = NoSlots
           /\ \A x \in Objects \ Builtin : slot[x] = NoSlots /\ kind[x] = "unused" /\ count[x] = 0
           /\ count[Default] = 3 /\ count[TypeType] = 3 /\ count[DefaultMap] = 1 /\ count[TypeDef] = 1
           /\ globals = [default |-> Default, current |-> Default, typeType |-> TypeType]
           /\ held = [x \in Objects |-> 0]
           /\ kind = [x \in Objects |-> kind[x]] /\ slot = [x \in Objects |-> slot[x]]
           /\ count = [x \in Objects |-> count[x]]
<1>0. /\ Builtin \subseteq Objects /\ Default \in Objects /\ DefaultMap \in Objects
      /\ TypeType \in Objects /\ TypeDef \in Objects
    BY TheObjects DEF Builtin
<1>1. /\ kind[Default] = "layer" /\ kind[DefaultMap] = "map" /\ kind[TypeType] = "type"
      /\ kind[TypeDef] = "leaf" /\ kind = [x \in Objects |-> kind[x]]
      /\ \A x \in Objects \ Builtin : kind[x] = "unused"
    BY <1>0, TheObjects DEF Init, Builtin
<1>2. /\ slot[Default] = [map |-> DefaultMap, parent |-> NULL]
      /\ slot[DefaultMap] = [e1 |-> TypeType, e2 |-> NULL]
      /\ slot[TypeType] = [typeobj |-> TypeType, type_spec |-> TypeDef, typemap |-> Default]
      /\ slot[TypeDef] = NoSlots /\ slot = [x \in Objects |-> slot[x]]
      /\ \A x \in Objects \ Builtin : slot[x] = NoSlots
    BY <1>0, TheObjects DEF Init, Builtin
<1>3. /\ count[Default] = 3 /\ count[TypeType] = 3 /\ count[DefaultMap] = 1 /\ count[TypeDef] = 1
      /\ count = [x \in Objects |-> count[x]]
      /\ \A x \in Objects \ Builtin : count[x] = 0
    BY <1>0, TheObjects DEF Init, Builtin
<1>4. InUse(kind) = Builtin
    BY <1>0, <1>1 DEF InUse, Builtin
<1>. QED BY <1>0, <1>1, <1>2, <1>3, <1>4 DEF Init

\* The pointers of these objects.
LEMMA FirstPointers ==
    ASSUME Init
    PROVE  /\ Names(slot[Default]) = {"map", "parent"} /\ Names(slot[DefaultMap]) = {"e1", "e2"}
           /\ Names(slot[TypeType]) = {"typeobj", "type_spec", "typemap"} /\ Names(slot[TypeDef]) = {}
           /\ \A x \in Objects \ Builtin : Names(slot[x]) = {}
           /\ slot[Default]["map"] = DefaultMap /\ slot[Default]["parent"] = NULL
           /\ slot[DefaultMap]["e1"] = TypeType /\ slot[DefaultMap]["e2"] = NULL
           /\ slot[TypeType]["typeobj"] = TypeType /\ slot[TypeType]["type_spec"] = TypeDef
           /\ slot[TypeType]["typemap"] = Default
           /\ slot[Default].map = DefaultMap
BY FirstObjects DEF Names, NoSlots

\* ... and their types.
LEMMA FirstTyped ==
    ASSUME Init
    PROVE  WellTyped(kind, slot, count, held, globals)
<1>1. /\ Default \in Objects /\ DefaultMap \in Objects /\ TypeType \in Objects /\ TypeDef \in Objects
    BY TheObjects DEF Builtin
<1>2. /\ Fields("layer") = {"map", "parent"} /\ Fields("map") = {"e1", "e2"}
      /\ Fields("type") = {"typeobj", "type_spec", "typemap"} /\ Fields("leaf") = {}
    <2>1. Struct["type"] = {"type_spec", "typemap"} /\ Struct["leaf"] = {}
        BY DEF Struct
    <2>2. "type" \in Values /\ "leaf" \notin Values
        BY DEF Values
    <2>3. Typeobj("type") = {"typeobj"} /\ Typeobj("leaf") = {}
        BY <2>2 DEF Typeobj
    <2>. QED BY <2>1, <2>3, OtherFields DEF Fields
<1>3. {"layer", "map", "type", "leaf"} \subseteq Kinds /\ "unused" \notin {"layer", "map", "type", "leaf"}
    BY DEF Kinds, Values, Trees
<1>4. ASSUME NEW x \in Objects
      PROVE  /\ kind[x] \in Kinds \cup {"unused"} /\ count[x] \in Int
             /\ slot[x] \in [IF kind[x] # "unused" THEN Fields(kind[x]) ELSE {} -> Objects \cup {NULL}]
    <2>1. CASE x = Default
        BY <2>1, <1>1, <1>2, <1>3, FirstObjects
    <2>2. CASE x = DefaultMap
        BY <2>2, <1>1, <1>2, <1>3, FirstObjects
    <2>3. CASE x = TypeType
        <3>1. [typeobj |-> TypeType, type_spec |-> TypeDef, typemap |-> Default]
                  \in [{"typeobj", "type_spec", "typemap"} -> Objects \cup {NULL}]
            BY <1>1
        <3>2. slot[x] \in [Fields("type") -> Objects \cup {NULL}]
            BY <2>3, <3>1, <1>2, FirstObjects
        <3>. QED BY <2>3, <3>2, <1>3, FirstObjects
    <2>4. CASE x = TypeDef
        <3>1. slot[x] = [f \in {} |-> NULL] /\ kind[x] = "leaf" /\ count[x] = 1
            BY <2>4, FirstObjects DEF NoSlots
        <3>2. slot[x] \in [{} -> Objects \cup {NULL}]
            BY <3>1
        <3>. QED BY <3>1, <3>2, <1>2, <1>3
    <2>5. CASE x \notin Builtin
        <3>1. slot[x] = [f \in {} |-> NULL] /\ kind[x] = "unused" /\ count[x] = 0
            BY <2>5, FirstObjects DEF NoSlots
        <3>2. slot[x] \in [{} -> Objects \cup {NULL}]
            BY <3>1
        <3>. QED BY <3>1, <3>2, <1>2, <1>3
    <2>. QED BY <2>1, <2>2, <2>3, <2>4, <2>5 DEF Builtin
<1>5. kind \in [Objects -> Kinds \cup {"unused"}] /\ count \in [Objects -> Int]
    BY <1>4, FirstObjects
<1>6. held \in [Objects -> Nat] /\ slot = [x \in Objects |-> slot[x]]
    BY FirstObjects
<1>7. globals \in [default : Objects \cup {NULL}, current : Objects \cup {NULL},
                   typeType : Objects \cup {NULL}]
    BY <1>1, FirstObjects
<1>. QED BY <1>4, <1>5, <1>6, <1>7 DEF WellTyped

\* Their counts are exact.
LEMMA FirstExact ==
    ASSUME Init
    PROVE  Exact(Builtin, {}, slot, count, held, globals, NoDrops)
<1> DEFINE p1 == <<Default, "map">>
           p2 == <<DefaultMap, "e1">>
           p3 == <<TypeType, "typeobj">>
           p4 == <<TypeType, "type_spec">>
           p5 == <<TypeType, "typemap">>
<1>1. /\ Default # DefaultMap /\ Default # TypeType /\ Default # TypeDef
      /\ DefaultMap # TypeType /\ DefaultMap # TypeDef /\ TypeType # TypeDef
      /\ NULL \notin Builtin /\ Builtin = {Default, DefaultMap, TypeType, TypeDef}
    BY TheObjects DEF Builtin
<1>2. {"map", "parent", "e1", "e2", "typeobj", "type_spec", "typemap"} \subseteq FieldNames
    <2>1. Fields("layer") \subseteq FieldNames /\ Fields("map") \subseteq FieldNames /\ Fields("type") \subseteq FieldNames
        BY SomeFields, AllFields
    <2>. QED BY <2>1, SomeFields
<1>3. ASSUME NEW x \in Builtin, NEW p
      PROVE  p \in Refs(Builtin, slot, {}, x) <=>
                \/ p = p1 /\ x = DefaultMap
                \/ p = p2 /\ x = TypeType
                \/ p = p3 /\ x = TypeType
                \/ p = p4 /\ x = TypeDef
                \/ p = p5 /\ x = Default
    <2> DEFINE R == Refs(Builtin, slot, {}, x)
    <2>1. ASSUME NEW y \in Builtin, NEW n \in FieldNames
          PROVE  <<y, n>> \in R <=> n \in Names(slot[y]) /\ slot[y][n] = x
        BY DEF Refs, Names
    <2>2. R \subseteq Builtin \X FieldNames
        BY DEF Refs
    <2> HIDE DEF R
    <2>3. ASSUME NEW n \in FieldNames PROVE <<Default, n>> \in R <=> n = "map" /\ x = DefaultMap
        BY <1>1, <2>1, FirstPointers
    <2>4. ASSUME NEW n \in FieldNames PROVE <<DefaultMap, n>> \in R <=> n = "e1" /\ x = TypeType
        BY <1>1, <2>1, FirstPointers
    <2>5. ASSUME NEW n \in FieldNames
          PROVE  <<TypeType, n>> \in R <=> \/ n = "typeobj" /\ x = TypeType
                                           \/ n = "type_spec" /\ x = TypeDef
                                           \/ n = "typemap" /\ x = Default
        BY <1>1, <2>1, FirstPointers
    <2>6. ASSUME NEW n \in FieldNames PROVE <<TypeDef, n>> \notin R
        BY <1>1, <2>1, FirstPointers
    <2>7. p \in R => \E y \in Builtin, n \in FieldNames : p = <<y, n>>
        BY <2>2
    <2>8. /\ p1 \in R <=> x = DefaultMap
          /\ p2 \in R <=> x = TypeType
          /\ p3 \in R <=> x = TypeType
          /\ p4 \in R <=> x = TypeDef
          /\ p5 \in R <=> x = Default
        BY <1>2, <2>3, <2>4, <2>5
    <2>9. ASSUME p \in R
          PROVE  p \in {p1, p2, p3, p4, p5}
        <3>1. PICK y \in Builtin, n \in FieldNames : p = <<y, n>>
            BY <2>7, <2>9
        <3>. QED BY <3>1, <2>9, <2>3, <2>4, <2>5, <2>6, <1>1
    <2> HIDE DEF p1, p2, p3, p4, p5
    <2>. QED BY <2>8, <2>9 DEF R
<1>4. p2 # p3
    BY <1>1
<1> HIDE DEF p1, p2, p3, p4, p5
<1>5. /\ Refs(Builtin, slot, {}, Default) = {p5} /\ Refs(Builtin, slot, {}, DefaultMap) = {p1}
      /\ Refs(Builtin, slot, {}, TypeDef) = {p4} /\ Refs(Builtin, slot, {}, TypeType) = {p2} \cup {p3}
    BY <1>1, <1>3
<1>6. Cardinality({p5}) = 1 /\ Cardinality({p1}) = 1 /\ Cardinality({p4}) = 1
    BY FS_Singleton
<1>7. Cardinality({p2} \cup {p3}) = 2
    <2>1. IsFiniteSet({p2}) /\ Cardinality({p2}) = 1 /\ p3 \notin {p2}
        BY <1>4, FS_Singleton
    <2>2. Cardinality({p2} \cup {p3}) = Cardinality({p2}) + 1
        BY <2>1, FS_AddElement
    <2>. QED BY <2>1, <2>2
<1>8. /\ Deg(Builtin, slot, {}, Default) = 1 /\ Deg(Builtin, slot, {}, DefaultMap) = 1
      /\ Deg(Builtin, slot, {}, TypeDef) = 1 /\ Deg(Builtin, slot, {}, TypeType) = 2
    BY <1>5, <1>6, <1>7 DEF Deg
<1>9. /\ GlobalCount(globals, Default) = 2 /\ GlobalCount(globals, DefaultMap) = 0
      /\ GlobalCount(globals, TypeDef) = 0 /\ GlobalCount(globals, TypeType) = 1
    BY <1>1, FirstObjects DEF GlobalCount, Is
<1>10. \A x \in Builtin : held[x] = 0 /\ NoDrops[x] = 0
    BY FirstObjects DEF NoDrops
<1>. QED BY <1>1, <1>8, <1>9, <1>10, FirstObjects DEF Exact

\* The invariant holds in the first state.
LEMMA InitHeapInv == Init => HeapInv
<1> SUFFICES ASSUME Init PROVE HeapInv
    OBVIOUS
<1>1. /\ Default # DefaultMap /\ Default # TypeType /\ Default # TypeDef
      /\ DefaultMap # TypeType /\ DefaultMap # TypeDef /\ TypeType # TypeDef
      /\ NULL \notin Objects /\ Builtin = {Default, DefaultMap, TypeType, TypeDef} /\ Builtin \subseteq Objects
    BY TheObjects DEF Builtin
<1>2. /\ globals.default = Default /\ globals.current = Default /\ globals.typeType = TypeType
      /\ \A x \in Objects : held[x] = 0 /\ NoDrops[x] = 0
    BY FirstObjects DEF NoDrops
<1>3. \A x \in Objects : GlobalCount(globals, x) > 0 <=> x \in {Default, TypeType}
    BY <1>2, GlobalCountType
<1>4. \A x \in Objects : GlobalCount(globals, x) \in Nat
    BY GlobalCountType
<1>5. Filled(slot)
    <2>1. {"parent", "e2"} \subseteq Optional
        BY DEF Optional
    <2>2. ASSUME NEW x \in Builtin, NEW f \in Names(slot[x]), slot[x][f] = NULL PROVE f \in Optional
        BY <1>1, <2>1, <2>2, FirstPointers
    <2>3. \A x \in Objects \ Builtin : Names(slot[x]) = {}
        BY FirstPointers
    <2>. QED BY <2>2, <2>3 DEF Filled
<1>6. Layers(Builtin, kind, slot, globals)
    <2>1. ASSUME NEW l \in Builtin, kind[l] = "layer" PROVE l = Default
        BY <1>1, <2>1, FirstObjects
    <2>2. slot[Default].map = DefaultMap /\ kind[DefaultMap] = "map" /\ kind[Default] = "layer"
        BY FirstObjects, FirstPointers
    <2>. QED BY <1>1, <1>2, <2>1, <2>2 DEF Layers
<1>7. Safe(Builtin, {}, slot, held, globals)
    <2>1. \A x \in Objects : held[x] + GlobalCount(globals, x) > 0 => x \in Builtin
        BY <1>1, <1>2, <1>3, <1>4
    <2>2. \A x \in Builtin : \A f \in Names(slot[x]) : slot[x][f] # NULL => slot[x][f] \in Builtin
        BY <1>1, FirstPointers
    <2>. QED BY <2>1, <2>2 DEF Safe
<1>8. Covers(Builtin, {}, slot, held, globals, NoDrops)
    <2> SUFFICES ASSUME NEW S \in SUBSET Objects, Shut(S, Builtin, {}, slot, held, globals, NoDrops)
                 PROVE  Builtin \subseteq S
        BY DEF Covers
    <2>1. /\ \A x \in Objects : GlobalCount(globals, x) > 0 => x \in S
          /\ \A x \in S \cap Builtin : \A f \in Names(slot[x]) : slot[x][f] # NULL => slot[x][f] \in S
        BY <1>2, <1>4 DEF Shut
    <2>2. Default \in S /\ TypeType \in S
        BY <1>1, <1>3, <2>1
    <2>3. DefaultMap \in S
        BY <1>1, <2>1, <2>2, FirstPointers
    <2>4. TypeDef \in S
        BY <1>1, <2>1, <2>2, FirstPointers
    <2>. QED BY <1>1, <2>2, <2>3, <2>4
<1>9. Sound(InUse(kind), {}, kind, slot, count, held, globals, NoDrops)
    BY <1>5, <1>6, <1>7, <1>8, FirstExact, FirstObjects DEF Sound
<1>10. \A x \in Objects : kind[x] # "unused" => count[x] > 0
    <2>1. \A x \in Builtin : count[x] > 0
        BY <1>1, FirstObjects
    <2>. QED BY <2>1, FirstObjects
<1>11. NoDrops \in [Objects -> Nat] /\ \A x \in Objects : ~(NoDrops[x] > 0)
    BY DEF NoDrops
<1>12. Quiet(kind, slot, count, held, globals, NoDrops)
    BY <1>9, <1>10, <1>11, FirstTyped DEF Quiet
<1>13. work = <<>> /\ crashed = "no" /\ program \in Programs
    BY DEF Init
<1>. QED BY <1>12, <1>13, AtFirst

\* Nothing happens.
LEMMA NothingMoves ==
    ASSUME HeapInv, UNCHANGED vars
    PROVE  HeapInv'
<1>1. UNCHANGED <<kind, slot, count, held, globals, work, crashed, program>>
    BY DEF vars
<1>2. Alive' = Alive
    BY <1>1 DEF Alive, Live
<1>3. \A x : Reach(x)' = Reach(x) /\ Settable(x)' = Settable(x)
    BY <1>1 DEF Reach, Points, Settable
<1>4. Sound(Alive, Hidden(work), kind, slot, count, held, globals, Owes(work))'
    BY <1>1, <1>2 DEF HeapInv
<1>5. ASSUME NEW o, NEW f, NEW v, Storing(o, f, v) PROVE Storing(o, f, v)'
    BY <1>1, <1>2, <1>3, <1>5 DEF Storing
<1>6. ASSUME NEW fr \in Frames(work), FrameOK(fr) PROVE FrameOK(fr)'
    <2>1. /\ \A x \in fr.reclaim : Live(x)' /\ count'[x] <= 0
          /\ \A x \in Objects : fr.drops[x] > 0 => x \in Alive' \cup fr.reclaim
        BY <1>1, <1>2, <1>6 DEF FrameOK, Live
    <2>2. fr.set # NoSet => \E o \in Objects : \E f \in FieldNames, v \in Objects \cup {NULL} :
                                fr.set = <<o, f, v>> /\ Storing(o, f, v)'
        BY <1>5, <1>6 DEF FrameOK
    <2>. QED BY <2>1, <2>2 DEF FrameOK
<1>7. Torn'
    BY <1>1 DEF HeapInv, Torn, Live
<1>8. \A fr \in Frames(work') : FrameOK(fr)'
    BY <1>1, <1>6 DEF HeapInv
<1>. QED BY <1>1, <1>4, <1>7, <1>8 DEF HeapInv

\* Every call, every drop and every return keeps the invariant.
LEMMA NextHeapInv ==
    ASSUME ~AnySetter, HeapInv, [Next]_vars
    PROVE  HeapInv'
<1>1. CASE \E k \in Kinds \ {"layer", "map"} : \E c \in Cells :
               Calling(k) /\ \E given \in Given(k) : New(k, c, given)
    BY <1>1, NewKeeps
<1>2. CASE \E c \in Cells, tree \in Objects : TypeSpec(c, tree)
    BY <1>2, TypeSpecKeeps
<1>3. CASE \E c \in Cells : TypeFromId(c)
    BY <1>3, TypeFromIdKeeps
<1>4. CASE \E c, m \in Cells, p \in Objects : CreateLayer(c, m, p)
    BY <1>4, CreateLayerKeeps
<1>5. CASE \E l \in Objects : SetCurrentLayer(l)
    BY <1>5, SetCurrentLayerKeeps
<1>6. CASE \E o \in Objects, v \in Objects \cup {NULL} : \E f \in Settable(o) : Set(o, f, v)
    BY <1>6, SetKeeps
<1>7. CASE \E v, t \in Objects : SetType(v, t)
    BY <1>7, SetTypeKeeps
<1>8. CASE \E v, l \in Objects : SetTypeMap(v, l)
    BY <1>8, SetTypeMapKeeps
<1>9. CASE \E m \in Objects, f \in {"e1", "e2"}, v \in Objects \cup {NULL} : AddName(m, f, v)
    BY <1>9, AddNameKeeps
<1>10. CASE \E def \in Objects, f \in {"e1", "e2"}, c, t \in Cells : AddFunction(def, f, c, t)
    BY <1>10, AddFunctionKeeps
<1>11. CASE \E v \in Objects : Calling("copy") /\ \E copy \in [Copied(v) -> {c \in Cells : ~Live(c)}] :
               (\A x, y \in Copied(v) : copy[x] = copy[y] => x = y) /\ Copy(v, copy)
    BY <1>11, CopyKeeps
<1>12. CASE \E o \in Objects : AddReference(o)
    BY <1>12, AddReferenceKeeps
<1>13. CASE \E o \in Objects : DelReference(o)
    BY <1>13, DelReferenceKeeps
<1>14. CASE Finalise
    BY <1>14, FinaliseKeeps
<1>15. CASE \E o \in Objects : Delete(o)
    BY <1>15, DeleteKeeps
<1>16. CASE Return
    BY <1>16, ReturnKeeps
<1>17. CASE Over
    BY <1>17, NothingMoves DEF Over
<1>18. CASE UNCHANGED vars
    BY <1>18, NothingMoves
<1>. QED BY <1>1, <1>2, <1>3, <1>4, <1>5, <1>6, <1>7, <1>8, <1>9, <1>10, <1>11, <1>12, <1>13,
            <1>14, <1>15, <1>16, <1>17, <1>18 DEF Next

(***************************************************************************)
(* What the invariant says of the properties.                              *)
(***************************************************************************)
\* The references of the globals, counted one by one.
LEMMA GlobalRefsIs ==
    ASSUME HeapInv
    PROVE  \A o \in Objects : GlobalRefs(o) = GlobalCount(globals, o) /\ GlobalRefs(o) \in Nat
<1> SUFFICES ASSUME NEW o \in Objects
             PROVE  GlobalRefs(o) = GlobalCount(globals, o) /\ GlobalRefs(o) \in Nat
    OBVIOUS
<1> DEFINE P(g) == {x \in {g} : globals[x] = o}
<1>1. DOMAIN globals = {"default", "current", "typeType"}
    BY DEF HeapInv, WellTyped
<1>2. \A g : /\ IsFiniteSet(P(g)) /\ Cardinality(P(g)) = Is(globals[g], o) /\ Is(globals[g], o) \in Nat
             /\ P(g) \subseteq {g}
    <2> TAKE g
    <2>1. CASE globals[g] = o
        <3>1. P(g) = {g}
            BY <2>1
        <3>. QED BY <3>1, <2>1, FS_Singleton DEF Is
    <2>2. CASE globals[g] # o
        <3>1. P(g) = {}
            BY <2>2
        <3>. QED BY <3>1, <2>2, FS_EmptySet DEF Is
    <2>. QED BY <2>1, <2>2
<1>3. {g \in DOMAIN globals : globals[g] = o} = P("default") \cup (P("current") \cup P("typeType"))
    BY <1>1
<1> DEFINE a == P("default")
           b == P("current")
           c == P("typeType")
<1>4. /\ IsFiniteSet(a) /\ IsFiniteSet(b) /\ IsFiniteSet(c)
      /\ Cardinality(a) = Is(globals["default"], o) /\ Cardinality(b) = Is(globals["current"], o)
      /\ Cardinality(c) = Is(globals["typeType"], o)
      /\ Cardinality(a) \in Nat /\ Cardinality(b) \in Nat /\ Cardinality(c) \in Nat
    BY <1>2
<1>5. b \cap c = {} /\ a \cap (b \cup c) = {}
    BY <1>2
<1> HIDE DEF a, b, c
<1>6. IsFiniteSet(b \cup c) /\ Cardinality(b \cup c) = Cardinality(b) + Cardinality(c) - Cardinality({})
    BY <1>4, <1>5, FS_Union
<1>7. Cardinality(a \cup (b \cup c)) = Cardinality(a) + Cardinality(b \cup c) - Cardinality({})
    BY <1>4, <1>5, <1>6, FS_Union
<1>8. Cardinality({}) = 0
    BY FS_EmptySet
<1>9. GlobalRefs(o) = Cardinality(a \cup (b \cup c))
    BY <1>3 DEF GlobalRefs, a, b, c
<1>10. GlobalCount(globals, o) = Cardinality(a) + Cardinality(b) + Cardinality(c)
    BY <1>4 DEF GlobalCount
<1>. QED BY <1>4, <1>6, <1>7, <1>8, <1>9, <1>10

\* The pointers of objects in use, but for the one about to be overwritten.
LEMMA ReferrersAre ==
    ASSUME HeapInv
    PROVE  /\ \A o : Referrers(o) = Refs(Alive, slot, Hidden(work), o)
           /\ \A x \in Alive : \A f \in DOMAIN slot[x] : Replaced(<<x, f>>) <=> <<x, f>> \in Hidden(work)
<1>1. WellTyped(kind, slot, count, held, globals) /\ Alive \subseteq Objects
    BY DEF HeapInv, Alive
<1>2. ASSUME NEW x \in Alive
      PROVE  DOMAIN slot[x] = Fields(kind[x]) /\ DOMAIN slot[x] \subseteq FieldNames
    <2>1. x \in InUse(kind)
        BY DEF Alive, InUse, Live
    <2>. QED BY <2>1, <1>1, FieldsOf DEF Names
<1>3. ASSUME NEW x \in Alive, NEW f \in FieldNames
      PROVE  Replaced(<<x, f>>) <=> <<x, f>> \in Hidden(work)
    BY <1>1 DEF Replaced, Hidden
<1>4. ASSUME NEW o PROVE Referrers(o) = Refs(Alive, slot, Hidden(work), o)
    <2>1. ASSUME NEW p \in Referrers(o) PROVE p \in Refs(Alive, slot, Hidden(work), o)
        <3>1. PICK x \in Alive : p \in {x} \X Fields(kind[x])
            BY DEF Referrers
        <3>2. PICK f \in Fields(kind[x]) : p = <<x, f>>
            BY <3>1
        <3>3. slot[x][f] = o /\ ~Replaced(<<x, f>>)
            BY <3>2 DEF Referrers
        <3>. QED BY <3>2, <3>3, <1>2, <1>3 DEF Refs
    <2>2. ASSUME NEW p \in Refs(Alive, slot, Hidden(work), o) PROVE p \in Referrers(o)
        <3>1. PICK x \in Alive, f \in FieldNames : p = <<x, f>>
            BY DEF Refs
        <3>2. f \in DOMAIN slot[x] /\ slot[x][f] = o /\ <<x, f>> \notin Hidden(work)
            BY <3>1 DEF Refs
        <3>3. f \in Fields(kind[x]) /\ ~Replaced(<<x, f>>)
            BY <3>2, <1>2, <1>3
        <3>4. p \in {x} \X Fields(kind[x])
            BY <3>1, <3>3
        <3>. QED BY <3>1, <3>2, <3>3, <3>4 DEF Referrers
    <2>. QED BY <2>1, <2>2
<1>. QED BY <1>2, <1>3, <1>4

\* The invariant gives the count of each object.
LEMMA CountIs == HeapInv => RefCountExact
<1> SUFFICES ASSUME HeapInv, NEW o \in Alive
             PROVE  count[o] = held[o] + GlobalRefs(o) + Cardinality(Referrers(o)) + Waiting(o)
    BY DEF RefCountExact
<1>1. o \in Objects
    BY DEF Alive
<1>2. count[o] = held[o] + GlobalCount(globals, o) + Deg(Alive, slot, Hidden(work), o) + Owes(work)[o]
    BY DEF HeapInv, Sound, Exact
<1>3. Owes(work)[o] = Waiting(o)
    BY <1>1 DEF Owes, Waiting
<1>4. GlobalRefs(o) = GlobalCount(globals, o)
    BY <1>1, GlobalRefsIs
<1>5. Cardinality(Referrers(o)) = Deg(Alive, slot, Hidden(work), o)
    BY ReferrersAre DEF Deg
<1>. QED BY <1>2, <1>3, <1>4, <1>5

\* ... that what is referred to is there,
LEMMA ReferredIsAlive == HeapInv => NoDangling
<1> SUFFICES ASSUME HeapInv PROVE NoDangling
    OBVIOUS
<1>1. Safe(Alive, Hidden(work), slot, held, globals)
    BY DEF HeapInv, Sound
<1>2. ASSUME NEW o \in Objects, held[o] + GlobalRefs(o) > 0 PROVE o \in Alive
    BY <1>1, <1>2, GlobalRefsIs DEF Safe
<1>3. ASSUME NEW x \in Alive, NEW f \in DOMAIN slot[x], slot[x][f] # NULL, ~Replaced(<<x, f>>)
      PROVE  slot[x][f] \in Alive
    <2>1. <<x, f>> \notin Hidden(work)
        BY <1>3, ReferrersAre
    <2>. QED BY <2>1, <1>1, <1>3 DEF Safe, Names
<1>. QED BY <1>2, <1>3 DEF NoDangling

\* ... and that what is there is reached: the objects reached from a reference
\* of the program or of a global are a set no pointer leaves.
LEMMA InUseIsReached == HeapInv => NoGarbage
<1> SUFFICES ASSUME HeapInv, work = <<>>, NEW o \in Objects, Live(o)
             PROVE  \E x \in Objects : held[x] + GlobalRefs(x) > 0 /\ o \in Reach(x)
    BY DEF NoGarbage
<1>1. Quiet(kind, slot, count, held, globals, NoDrops)
    BY Before
<1>2. WellTyped(kind, slot, count, held, globals) /\ Covers(InUse(kind), {}, slot, held, globals, NoDrops)
    BY <1>1 DEF Quiet, Sound
<1>3. o \in InUse(kind)
    BY DEF Live, InUse
<1> DEFINE S == {y \in Objects : \E x \in Objects : held[x] + GlobalRefs(x) > 0 /\ y \in Reach(x)}
<1>4. ASSUME NEW x \in Objects, held[x] + GlobalCount(globals, x) + NoDrops[x] > 0 PROVE x \in S
    <2>1. held[x] \in Nat /\ GlobalRefs(x) \in Nat /\ GlobalRefs(x) = GlobalCount(globals, x) /\ NoDrops[x] = 0
        BY <1>2, GlobalRefsIs DEF WellTyped, NoDrops
    <2>2. held[x] + GlobalRefs(x) > 0
        BY <1>4, <2>1
    <2>3. x \in Reach(x)
        BY <1>2, ReachIs, ReachFacts
    <2>. QED BY <2>2, <2>3
<1>5. ASSUME NEW y \in S, NEW f \in Names(slot[y]), slot[y][f] # NULL PROVE slot[y][f] \in S
    <2>1. PICK x \in Objects : held[x] + GlobalRefs(x) > 0 /\ y \in Reach(x)
        OBVIOUS
    <2>2. Enclosed(Reach(x), slot) /\ Reach(x) \subseteq Objects
        BY <1>2, ReachIs, ReachFacts
    <2>3. slot[y][f] \in Reach(x)
        BY <1>5, <2>1, <2>2 DEF Enclosed
    <2>. QED BY <2>1, <2>2, <2>3
<1>6. S \subseteq Objects
    OBVIOUS
<1> HIDE DEF S
<1>7. Shut(S, InUse(kind), {}, slot, held, globals, NoDrops)
    BY <1>4, <1>5 DEF Shut
<1>8. o \in S
    BY <1>2, <1>3, <1>6, <1>7 DEF Covers
<1>. QED BY <1>8 DEF S

\* ... and the types.
LEMMA InvIsTyped == HeapInv => TypeOK
<1> SUFFICES ASSUME HeapInv PROVE TypeOK
    OBVIOUS
<1>1. WellTyped(kind, slot, count, held, globals) /\ work \in Seq(FrameType)
      /\ crashed = "no" /\ program \in Programs
    BY DEF HeapInv
<1>2. \A x \in Objects : slot[x] \in [IF Live(x) THEN Fields(kind[x]) ELSE {} -> Objects \cup {NULL}]
    BY <1>1 DEF WellTyped, Live
<1>3. work \in Seq([drops : [Objects -> Nat], reclaim : SUBSET Objects,
                    set : (Objects \cup {NULL}) \X (FieldNames \cup {"none"}) \X (Objects \cup {NULL})])
    BY <1>1 DEF FrameType
<1>4. /\ kind \in [Objects -> Kinds \cup {"unused"}] /\ count \in [Objects -> Int] /\ held \in [Objects -> Nat]
      /\ globals \in [default : Objects \cup {NULL}, current : Objects \cup {NULL},
                      typeType : Objects \cup {NULL}]
    BY <1>1 DEF WellTyped
<1>. QED BY <1>1, <1>2, <1>3, <1>4 DEF TypeOK

(***************************************************************************)
(* The theorems, of programs in which a setter replaces no value that      *)
(* leads back to its container (with one that does, the collector dies:    *)
(* NeverBelowCyclicCount).                                                 *)
(***************************************************************************)
\* The invariant holds in every state of such a program.
THEOREM HeapIsSound ==
    ASSUME ~AnySetter
    PROVE  Spec => []HeapInv
<1>1. HeapInv /\ [Next]_vars => HeapInv'
    BY NextHeapInv
<1>. QED BY <1>1, InitHeapInv, PTL DEF Spec

\* Every object keeps the pointers of its kind, and every pointer leads to an
\* object or nowhere, also while drops are nested (values.h, syntax_tree.h).
THEOREM ObjectsTyped ==
    ASSUME ~AnySetter
    PROVE  Spec => []TypeOK
BY HeapIsSound, InvIsTyped, PTL

\* Every count is exact, in the middle of nested drops too: it is the number of
\* references of the program, of the globals, of pointers of objects not being
\* torn down, and of drops still to do (ref_count, refcount.c:51-61).
THEOREM ExactCounts ==
    ASSUME ~AnySetter
    PROVE  Spec => []RefCountExact
BY HeapIsSound, CountIs, PTL

\* Nothing that somebody refers to is freed (cyclic_garbage.c:175-197).
THEOREM ReferencesHold ==
    ASSUME ~AnySetter
    PROVE  Spec => []NoDangling
BY HeapIsSound, ReferredIsAlive, PTL

\* Between two calls nothing is in use that the program and the globals do not
\* reach, cycles included (performCyclicCollection).
THEOREM GarbageIsFreed ==
    ASSUME ~AnySetter
    PROVE  Spec => []NoGarbage
BY HeapIsSound, InUseIsReached, PTL

\* The collector never finds a count below the references it listed, and no
\* NULL is dropped that is not tested for (cyclic_garbage.c:136-141, 158-163).
THEOREM ProcessLives ==
    ASSUME ~AnySetter
    PROVE  Spec => []NeverCrashes
<1>1. HeapInv => NeverCrashes
    BY DEF HeapInv, NeverCrashes
<1>. QED BY <1>1, HeapIsSound, PTL

=============================================================================
