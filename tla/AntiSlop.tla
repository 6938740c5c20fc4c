------------------------------ MODULE AntiSlop ------------------------------
(***************************************************************************)
(* The anti-slop plugin while the linter runs: the walk of LintWalk, with  *)
(* every rule of the plugin.                                               *)
(***************************************************************************)
EXTENDS LintWalk, AssertionRules, TypeMeaning

(* What the plugin's rules say of a node.                                  *)
Verdicts(n) ==
    UNION {Tagged("no-unsafe-dictionary-type", noUnsafeDictionaryType(n)),
           Tagged("no-unknown-type-aliases", noUnknownTypeAliases(n)),
           Tagged("no-unknown-returns", noUnknownReturns(n)),
           Tagged("no-object-parameters", noObjectParameters(n)),
           Tagged("no-unknown-parameters", noUnknownParameters(n)),
           Tagged("no-known-value-widening", noKnownValueWidening(n)),
           Tagged("no-widen-then-assert", noWidenThenAssert(n)),
           Tagged("no-chained-type-assertions", noChainedTypeAssertions(n)),
           Tagged("no-array-filter-map", noArrayFilterMap(n)),
           Tagged("no-reduce-accumulator-copy", noReduceAccumulatorCopy(n))}

Next ==
    \/ OpenFile
    \/ VisitProgram
    \/ \E n \in NextNode : \E said \in {Verdicts(n)} : Visit(n, said) \/ Throw(said)

Spec == Init /\ [][Next]_vars

-----------------------------------------------------------------------------
(* No type of the file is named twice, and no alias and no built-in is     *)
(* used, directly or through aliases, in an argument of itself (a Record    *)
(* in an argument of a Record is left out, too): then looking names up by  *)
(* spelling, as the rules do while they expand aliases, cannot mistake one *)
(* type for another.                                                       *)
Binders == {n \in Nodes : DeclaresType(n) \/ TypeOf(n) \in {"TSTypeParameter", "TSMappedType",
                                                             "TSInferType"}}
ReferredIn(n) == {ReferenceName(d) : d \in Within(n)} \ {""}

RECURSIVE ReferredFrom(_)
ReferredFrom(names) ==
    LET more == names \cup UNION {ReferredIn(d) : d \in {e \in Nodes : TypeOf(e) = Alias
                                                                       /\ NameOf(e) \in names}}
    IN  IF more = names THEN names ELSE ReferredFrom(more)

Hygienic ==
    /\ \A m, n \in Binders : m # n => NameOf(m) # NameOf(n)
    /\ \A n \in Nodes : ReferenceName(n) # "" =>
          NameOf(n) \notin ReferredFrom(UNION {ReferredIn(a) : a \in ToSet(Arguments(n))})

(* An alias is reported by no-unknown-type-aliases exactly if it stands for *)
(* unknown, through whatever aliases and type parameters.                  *)
UnknownAliasesReported ==
    Linted /\ Hygienic =>
        ReportedBy("no-unknown-type-aliases") =
            {n \in Nodes : TypeOf(n) = Alias /\ IsUnknown(Kid(n, "typeAnnotation"))}

(* no-unsafe-dictionary-type reports nothing but unsafe dictionaries, every *)
(* one the file writes down lies in a reported type, but in a constraint,  *)
(* as a plain use of an alias or anywhere in parentheses (the rule reports *)
(* none there), and a dictionary inside a reported one is not reported     *)
(* again.                                                                  *)
WritesDictionary(n) ==
    /\ TypeOf(n) \in {"TSTypeReference", "TSTypeLiteral", "TSMappedType"}
    /\ IsUnsafeDictionary(n)

Exempt(n) ==
    \/ isInsideTypeParameterConstraint(n) \/ isPlainAliasConsumerUse(n)
    \/ \E a \in Ancestors(n) : unwrapTransparentType(a) # a

UnsafeDictionariesReported ==
    Linted /\ Hygienic =>
        LET reported == ReportedBy("no-unsafe-dictionary-type")
        IN  /\ \A n \in reported : TypeOf(n) # "TSIndexSignature" => WritesDictionary(n)
            /\ \A n \in Nodes : WritesDictionary(n) /\ ~Exempt(n) =>
                  \E r \in reported : IsPrefix(r, n)
            /\ \A m, n \in reported :
                  IsPrefix(m, n) => m = n \/ TypeOf(m) = "TSIndexSignature"

-----------------------------------------------------------------------------
(* The places where a value meets an explicit type.                        *)
Meeting(value, type) ==
    IF value = None \/ type = None THEN {} ELSE {[value |-> value, type |-> type]}

FlowsAt(n) ==
    CASE TypeOf(n) = "VariableDeclarator" -> Meeting(Kid(n, "init"), Kid(n, "typeAnnotation"))
      [] TypeOf(n) \in Assertions /\ TypeOf(Parent(n)) \notin Assertions ->
           Meeting(Kid(n, "expression"), Kid(n, "typeAnnotation"))
      [] TypeOf(n) = "AssignmentExpression" ->
           LET variable == resolveVariable(NameOf(n), n)
           IN  IF Cardinality(variable) # 1 \/ anyDeclarator(variable) = None THEN {}
               ELSE Meeting(Kid(n, "right"), Kid(anyDeclarator(variable), "typeAnnotation"))
      [] TypeOf(n) = "ReturnStatement" /\ Nearest(n, FunctionTypes) # None ->
           Meeting(Kid(n, "argument"), Kid(Nearest(n, FunctionTypes), "returnType"))
      [] OTHER -> {}

(* Everything a value may be traced to: inside its wrappers, and at the    *)
(* single definition of a const that nothing else writes.                  *)
Origins(e) ==
    IF TypeOf(e) \in ExpressionWrappers THEN {Kid(e, "expression")}
    ELSE IF TypeOf(e) # "Identifier" THEN {}
    ELSE LET variable == resolveVariable(NameOf(e), e)
         IN  {Kid(d, "init") : d \in {c \in variable :
                 /\ variable = {c} /\ TypeOf(c) = "VariableDeclarator"
                 /\ NameOf(Parent(c)) = "const" /\ Kid(c, "init") # None
                 /\ \A a \in Nodes : TypeOf(a) = "AssignmentExpression"
                                        => resolveVariable(NameOf(a), a) # variable}}

RECURSIVE TracedFrom(_)
TracedFrom(es) ==
    LET more == es \cup UNION {Origins(e) : e \in es}
    IN  IF more = es THEN es ELSE TracedFrom(more)

Established(e) ==
    \E m \in TracedFrom({e}) :
        TypeOf(m) \in {"ObjectExpression", "ArrayExpression", "ArrowFunctionExpression",
            "ClassExpression", "FunctionExpression", "NewExpression", "Literal",
            "TemplateLiteral", "UnaryExpression"}

(* The type is unknown and nothing else; a generic alias is a container.   *)
NamesGeneric(type) ==
    LET alias == LexicalAlias(NameOf(type), type)
    IN  ReferenceName(type) # "" /\ alias # None /\ TypeParameters(alias) # <<>>

IsExactlyUnknown(type) ==
    /\ ~NamesGeneric(unwrapTransparentType(type))
    /\ \E t \in Expanded(type, <<>>, Depth) : TypeOf(t.type) = "TSUnknownKeyword"

(* A value is reported as widened to unknown exactly where it is             *)
(* established, through any chain of consts, and the explicit type it       *)
(* meets is unknown, through any chain of aliases.                          *)
EstablishedValuesStayKnown ==
    Linted /\ Hygienic => \A n \in Nodes : \A f \in FlowsAt(n) :
        ([rule |-> "no-known-value-widening", node |-> f.value, data |-> "unknown"] \in reports)
            <=> (Established(f.value) /\ IsExactlyUnknown(f.type))

(* What the evidence for a value is traced to inside the function f: the   *)
(* parentheses go, and so do consts of f without an annotation.             *)
IsConst(d) ==
    /\ TypeOf(d) = "VariableDeclarator" /\ NameOf(Parent(d)) = "const" /\ Kid(d, "init") # None
    /\ \A a \in Nodes : TypeOf(a) = "AssignmentExpression"
                          => d \notin resolveVariable(NameOf(a), a)

Named(e) == IF TypeOf(e) = "Identifier" THEN resolveVariable(NameOf(e), e) ELSE {}

LocalConsts(e, f) ==
    {c \in Named(e) : IsConst(c) /\ Kid(c, "typeAnnotation") = None /\ functionBoundary(c) = f}

LocalOrigins(e, f) ==
    IF TypeOf(e) = "ParenthesizedExpression" THEN {Kid(e, "expression")}
    ELSE {Kid(c, "init") : c \in LocalConsts(e, f)}

RECURSIVE TracedWithin(_, _)
TracedWithin(es, f) ==
    LET more == es \cup UNION {LocalOrigins(e, f) : e \in es}
    IN  IF more = es THEN es ELSE TracedWithin(more, f)

Narrow(type) == type # None /\ broadTypeKind(type) = Nothing

(* The function of a const d says what a value is: it builds it, asserts    *)
(* its type, or declares a name other than d for a type that is not broad.  *)
KnownBehind(e, d) ==
    \E m \in TracedWithin({e}, functionBoundary(d)) :
        \/ TypeOf(m) \in {"ObjectExpression", "ArrayExpression", "ArrowFunctionExpression",
              "ClassExpression", "FunctionExpression", "NewExpression", "Literal", "TemplateLiteral"}
        \/ TypeOf(m) \in Assertions /\ Narrow(Kid(m, "typeAnnotation"))
        \/ \E c \in Named(m) \ {d} :
              Narrow(Kid(c, "typeAnnotation")) /\ functionBoundary(c) = functionBoundary(d)

(* The value a const was given before its type was erased, by a broad       *)
(* assertion around it or by the const's own annotation.                   *)
ErasedValues(d) ==
    LET init == unwrapExpressionParentheses(Kid(d, "init"))
        broad(type) == type # None /\ ~Narrow(type)
    IN  IF TypeOf(init) \in Assertions /\ broad(Kid(init, "typeAnnotation"))
        THEN {Kid(init, "expression")}
        ELSE IF broad(Kid(d, "typeAnnotation")) THEN {init} ELSE {}

(* An assertion is reported by no-widen-then-assert only if it takes back, *)
(* later in the same function, the type of a const whose erased value the  *)
(* function knows, through any chain of its consts; and it is reported if,  *)
(* besides, the const is unknown or any and the type asserted is not broad.*)
TakesBack(n, d) ==
    /\ IsConst(d) /\ StartsAfter(n, d) /\ functionBoundary(n) = functionBoundary(d)
    /\ \E e \in ErasedValues(d) : KnownBehind(e, d)

ErasedToTop(d) ==
    LET declared == Kid(d, "typeAnnotation")
    IN  IF declared = None \/ Narrow(declared)
        THEN isUnknownOrAnyType(Kid(unwrapExpressionParentheses(Kid(d, "init")), "typeAnnotation"))
        ELSE isUnknownOrAnyType(declared)

ErasedTypesNotTakenBack ==
    Linted => \A n \in {m \in Nodes : TypeOf(m) \in Assertions} :
        LET e == unwrapExpressionParentheses(Kid(n, "expression"))
            erased == {d \in Named(e) : TakesBack(n, d)}
            reported == n \in ReportedBy("no-widen-then-assert")
        IN  /\ reported => erased # {} /\ Narrow(Kid(n, "typeAnnotation"))
            /\ (\E d \in erased : ErasedToTop(d)) /\ Narrow(Kid(n, "typeAnnotation")) => reported
=============================================================================
