----------------------------- MODULE MCAntiSlop -----------------------------
EXTENDS AntiSlop

L == INSTANCE LintFiles

-----------------------------------------------------------------------------
(* Files about types: A<T> and B<U>, and a use of them in several places.  *)
BodiesOfA ==
    {L!Named("T"), L!UnknownType, L!Union(<<L!Named("T"), L!Null>>), L!Record(L!String, L!Named("T")),
     L!Parens(L!Named("T")), L!Ref("Readonly", <<L!Named("T")>>),
     L!Mapped("K", L!Named("PropertyKey"), L!Named("T")),
     L!Both(<<L!Named("T"), L!LiteralType(<<L!Field(L!String)>>)>>)}

BodiesOfB ==
    {L!Ref("A", <<L!Named("U")>>), L!Ref("A", <<L!Union(<<L!Named("U"), L!Null>>)>>),
     L!Ref("A", <<L!Ref("A", <<L!Named("U")>>)>>),
     L!LiteralType(<<L!Indexed(L!String, L!Ref("A", <<L!Named("U")>>))>>)}

Uses ==
    {L!Ref("A", <<L!UnknownType>>), L!Ref("B", <<L!UnknownType>>), L!Ref("B", <<L!String>>),
     L!Record(L!String, L!Ref("B", <<L!AnyType>>)), L!Record(L!String, L!Named("E")),
     L!Ref("Readonly", <<L!Record(L!String, L!ObjectType)>>),
     L!Parens(L!Record(L!String, L!UnknownType)),
     L!Record(L!String, L!Ref("B", <<L!Record(L!String, L!AnyType)>>)),
     L!Ref("Pick", <<L!Ref("B", <<L!Named("E")>>), L!String>>),
     L!Record(L!String, L!LiteralType(<<L!OptionalField(L!Never)>>))}

Top(use) == L!AliasOf("C", <<>>, use)
Signature(use) ==
    L!Function("FunctionDeclaration", "f", <<L!TypeParameter("P", <<use>>, <<>>)>>,
               <<L!Parameter("p", <<use>>)>>, <<use>>, L!Block(<<>>))
Shadowed(use) ==
    L!Function("FunctionDeclaration", "g", <<>>, <<>>, <<>>,
               L!Block(<<L!AliasOf("A", <<L!Plain("V")>>, L!String),
                         L!Declare("const", "v", <<use>>, L!ObjectOf(<<>>))>>))
Bound(use) ==
    L!Function("FunctionDeclaration", "h", <<L!Plain("A")>>, <<L!Parameter("p", <<use>>)>>,
               <<>>, L!Block(<<L!AliasOf("D", <<>>, use)>>))

TypeFile(a, b, statement) ==
    L!SourceFile(<<L!AliasOf("A", <<L!Plain("T")>>, a), L!AliasOf("B", <<L!Plain("U")>>, b),
                   L!Interface("E", <<>>), statement>>)

TypeFiles ==
    {TypeFile(a, b, s) : a \in BodiesOfA, b \in BodiesOfB,
                         s \in {Top(u) : u \in Uses} \cup {Signature(u) : u \in Uses}}
    \cup {TypeFile(L!Named("T"), b, s) :
             b \in BodiesOfB, s \in {Shadowed(u) : u \in Uses} \cup {Bound(u) : u \in Uses}}

(* A default that speaks of an earlier parameter.                          *)
DefaultFiles ==
    {L!SourceFile(<<L!AliasOf("A", <<L!Plain("T"), L!TypeParameter("W", <<>>, <<d>>)>>,
                              L!Union(<<L!Named("W"), L!Null>>)),
                    L!AliasOf("C", <<>>, L!Ref("A", <<u>>))>>) :
        d \in {L!Named("T"), L!UnknownType, L!Record(L!String, L!Named("T"))},
        u \in {L!UnknownType, L!String}}

(* An alias applied to a union with its own parameter, which has the name   *)
(* of the other alias's parameter.                                         *)
OwnParameterFiles ==
    {L!SourceFile(<<L!AliasOf("A", <<L!Plain("T")>>, L!Record(L!String, L!Named("T"))),
                    L!AliasOf("X", <<L!Plain("T")>>, L!Ref("A", <<L!Union(<<L!Named("T"), u>>)>>)),
                    L!AliasOf("Y", <<>>, L!Record(L!String, v))>>) :
        u \in {L!Null, L!UnknownType}, v \in {L!AnyType, L!String}}

-----------------------------------------------------------------------------
(* Files about values: two bindings, one made from the other, and what is  *)
(* done with the second.                                                   *)
N == L!AliasOf("N", <<>>, L!Ref("M", <<L!UnknownType>>))
M == L!AliasOf("M", <<L!Plain("T")>>, L!Named("T"))

Types1 == {<<>>, <<L!UnknownType>>, <<L!String>>}
Types2 == {<<>>, <<L!UnknownType>>, <<L!ObjectType>>, <<L!Named("N")>>, <<L!Record(L!String, L!UnknownType)>>,
           <<L!Ref("M", <<L!UnknownType>>)>>}
Values1 == {L!One, L!ObjectOf(<<>>), L!Id("b"), L!Id("p")}
Values2 == {L!Id("a"), L!AsType(L!Id("a"), L!UnknownType),
            L!ObjectOf(<<>>),
           L!AsType(L!Grouped(L!AsType(L!Angled(L!ObjectType, L!Id("a")), L!String)), L!UnknownType)}
Wanted == {L!String, L!LiteralType(<<L!Field(L!String)>>), L!Named("const")}

ValueFile(kind, t1, e1, t2, e2, rest) ==
    L!SourceFile(<<M, N,
        L!Function("FunctionDeclaration", "f", <<>>, <<L!Parameter("p", <<L!String>>)>>,
            <<L!UnknownType>>,
            L!Block(<<L!Declare(kind, "a", t1, e1), L!Declare("const", "b", t2, e2)>> \o rest))>>)

Rests ==
    {<<L!Return(L!AsType(L!Id("b"), w))>> : w \in Wanted}
    \cup {<<L!Assign("a", L!One), L!Return(L!AsType(L!Id("b"), L!String))>>,
          <<L!Return(L!Function("ArrowFunctionExpression", "", <<>>, <<>>, <<>>,
                                L!AsType(L!Id("b"), L!String)))>>}

ValueFiles ==
    {ValueFile("const", t1, e1, t2, e2, r) :
        t1 \in Types1, e1 \in Values1, t2 \in Types2, e2 \in Values2, r \in Rests}
    \cup {ValueFile("let", <<>>, e1, t2, L!Id("a"), r) :
        e1 \in Values1, t2 \in Types2, r \in Rests}

(* A binding made from one that another function or the module declares.    *)
OuterFiles ==
    {L!SourceFile(<<L!Declare("const", "a", t1, L!One),
        L!Function("FunctionDeclaration", "f", <<>>, <<L!Parameter("p", p)>>, <<>>,
            L!Block(<<L!Declare("const", "d", <<>>, d), L!Declare("const", "b", t2, e2),
                      L!Return(L!AsType(L!Id("b"), L!String))>>))>>) :
        t1 \in Types1, p \in {<<>>, <<L!String>>, <<L!ObjectType>>},
        d \in {L!Id("a"), L!Id("p"), L!Id("b"), L!Grouped(L!Id("p"))},
        t2 \in {<<>>, <<L!AnyType>>, <<L!Parens(L!UnknownType)>>, <<L!String>>},
        e2 \in {L!Id("d"), L!Grouped(L!AsType(L!Id("d"), L!UnknownType)),
                L!AsType(L!Id("b"), L!String)}}

(* Assertions inside one another, const ones alone and mixed with others.   *)
ChainFiles ==
    {L!SourceFile(<<L!Do(L!AsType(L!Grouped(L!AsType(inner, t2)), t1))>>) :
        t1 \in {L!Named("const"), L!String}, t2 \in {L!Named("const"), L!String},
        inner \in {L!One, L!Grouped(L!Angled(L!Named("const"), L!One)), L!Angled(L!String, L!One),
                   L!Grouped(L!Grouped(L!AsType(L!One, L!Named("const"))))}}

(* Calls of a local type predicate.                                        *)
CallFiles ==
    {L!SourceFile(<<
        L!Function("FunctionDeclaration", "is", <<>>, <<L!Parameter("x", <<L!UnknownType>>)>>,
                   <<L!IsA(x, L!String)>>, L!Block(<<>>)),
        L!Declare("const", "a", t, e), L!Do(L!Call(L!Id("is"), <<v>>))>>) :
        x \in {"x", "y"}, t \in Types1, e \in {L!One, L!Id("q")},
        v \in {L!Id("a"), L!AsType(L!Id("a"), L!String), L!Call(L!Id("is"), <<L!Id("q")>>)}}

-----------------------------------------------------------------------------
(* Files about arrays: a reducer that copies something, filter and map.    *)
Callback(body) ==
    L!Function("ArrowFunctionExpression", "", <<>>, <<L!Parameter("acc", <<>>), L!Parameter("x", <<>>)>>,
               <<>>, L!Block(body))
Copied == {L!Call(L!Member(L!Id("acc"), "concat"), <<L!Id("x")>>),
           L!Call(L!Member(L!Id("c"), "slice"), <<>>),
           L!Call(L!Member(L!Id("Object"), "assign"), <<L!ObjectOf(<<>>), L!Id("c")>>),
           L!Call(L!Member(L!Id("Array"), "from"), <<L!Id("acc")>>),
           L!Call(L!Member(L!Id("acc"), "push"), <<L!Id("x")>>)}
Before == {<<>>,
           <<L!Declare("const", "c", <<>>, L!Id("acc"))>>,
           <<L!Declare("const", "d", <<>>, L!Id("acc")), L!Declare("const", "c", <<>>, L!Id("d"))>>,
           <<L!Declare("let", "c", <<>>, L!Id("acc"))>>,
           <<L!Declare("const", "c", <<>>, L!Id("x"))>>,
           <<L!Declare("const", "acc", <<>>, L!ArrayOf(<<>>))>>}
Starts == {<<>>, <<L!ArrayOf(<<>>)>>, <<L!ObjectOf(<<>>)>>, <<L!Id("items")>>}

Items == L!Declare("const", "items", <<L!Ref("Array", <<L!String>>)>>, L!Id("q"))
ReduceFiles ==
    {L!SourceFile(<<Items,
        L!Do(L!Call(L!Member(L!Id("items"), "reduce"),
                    <<Callback(<<L!Block(b \o <<L!Return(c)>>)>>)>> \o s))>>) :
        b \in Before, c \in Copied, s \in Starts}
PipelineFiles ==
    {L!SourceFile(<<Items,
        L!Do(L!Call(L!Member(L!Call(L!Member(L!Id(i), m1), <<L!Id("f")>>), m2), <<L!Id("g")>>))>>) :
        i \in {"items", "q"}, m1 \in {"filter", "map"}, m2 \in {"filter", "map"}}

-----------------------------------------------------------------------------
Singles == TypeFiles \cup DefaultFiles \cup OwnParameterFiles \cup ValueFiles \cup OuterFiles
               \cup ChainFiles \cup CallFiles \cup ReduceFiles \cup PipelineFiles

(* Two files that give the same names to different types, after each other.*)
Redefinitions ==
    UNION {{TypeFile(a, b, Top(L!Ref("A", <<L!UnknownType>>))),
            L!SourceFile(<<L!AliasOf("B", <<L!Plain("T")>>, a), L!AliasOf("A", <<L!Plain("U")>>, b),
                           L!Interface("E", <<>>), Top(L!Ref("A", <<L!UnknownType>>))>>)} :
              a \in BodiesOfA, b \in {L!Named("U"), L!String}}
MCBatches ==
    {<<f>> : f \in Singles} \cup {<<f, g>> : f \in Redefinitions, g \in Redefinitions}
=============================================================================
