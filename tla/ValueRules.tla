----------------------------- MODULE ValueRules -----------------------------
(***************************************************************************)
(* no-known-value-widening: a value the file itself establishes flows into *)
(* an explicitly broad type.                                               *)
(***************************************************************************)
EXTENDS TypeRules

unwrapExpression(e) == Unwrap(e, ExpressionWrappers)

(* isKnownEvidenceExpression of shared/dictionary-types.ts.                *)
isKnownEvidenceExpression(e) ==
    TypeOf(unwrapExpression(e)) \in
        FunctionTypes \cup {"ObjectExpression", "ArrayExpression", "ClassExpression",
            "NewExpression", "Literal", "TemplateLiteral", "UnaryExpression"}

(* The declarator of a variable that has no other definition.              *)
variableDeclarator(variable) ==
    IF \E d \in variable : variable = {d} /\ TypeOf(d) = "VariableDeclarator"
    THEN CHOOSE d \in variable : TRUE ELSE None

(* Mutant: a const is not asked for.                                       *)
isStableAnyVariable(variable, declarator) == TRUE

isStableConstVariable(variable, declarator) ==
    NameOf(Parent(declarator)) = "const" /\ ~IsReassigned(variable)

(* The initializer of a const that is never written again.                 *)
StableInitializer(variable) ==
    LET declarator == variableDeclarator(variable)
    IN  IF declarator = None THEN None
        ELSE IF isStableConstVariable(variable, declarator) THEN Kid(declarator, "init")
        ELSE None

RECURSIVE hasKnownEvidence(_, _)
hasKnownEvidence(e, visited) ==
    LET inner == unwrapExpression(e)
        variable == resolveVariable(NameOf(inner), inner)
    IN  IF isKnownEvidenceExpression(e) THEN TRUE
        ELSE IF TypeOf(inner) # "Identifier" \/ variable = {} \/ variable \in visited THEN FALSE
        ELSE IF StableInitializer(variable) = None THEN FALSE
        ELSE hasKnownEvidence(StableInitializer(variable), visited \cup {variable})

IsFunction(n) ==
    TypeOf(n) \in FunctionTypes \cup {"TSDeclareFunction", "TSEmptyBodyFunctionExpression"}

localFunctionForCall(callee) ==
    LET inner == unwrapExpression(callee)
        variable == resolveVariable(NameOf(inner), inner)
        definition == CHOOSE d \in variable : TRUE
        init == Kid(definition, "init")
    IN  IF IsFunction(inner) THEN inner
        ELSE IF TypeOf(inner) # "Identifier" \/ Cardinality(variable) # 1 THEN None
        ELSE IF IsFunction(definition) THEN definition
        ELSE IF TypeOf(definition) # "VariableDeclarator" \/ init = None THEN None
        ELSE IF IsFunction(unwrapExpression(init)) THEN unwrapExpression(init) ELSE None

(* The annotation of a variable's only definition: a declarator, or the    *)
(* parameter of a function that binds it.                                  *)
variableTypeAnnotation(variable) ==
    LET definition == CHOOSE d \in variable : TRUE
        owner == Nearest(definition, SignatureTypes)
        parameters == {p \in AnnotatedParameters(owner) :
                          functionParameterBindingName(p) = NameOf(definition)}
    IN  IF Cardinality(variable) # 1 THEN None
        ELSE IF TypeOf(definition) = "VariableDeclarator" THEN Kid(definition, "typeAnnotation")
        ELSE IF TypeOf(definition) # "Parameter" \/ parameters = {} THEN None
        ELSE functionParameterTypeAnnotation(CHOOSE p \in parameters : TRUE)

Known == "known"

hasInformativeType(type) ==
    LET unsafe == classifyUnsafeDictionaryValue(type)
    IN  IF unsafe = Nothing THEN Known ELSE IF unsafe = Overflow THEN Overflow ELSE Nothing

RECURSIVE hasKnownCallArgumentEvidence(_, _)
hasKnownCallArgumentEvidence(e, visited) ==
    LET variable == resolveVariable(NameOf(e), e)
        owner == localFunctionForCall(Kid(e, "callee"))
    IN  IF TypeOf(e) \in {"ParenthesizedExpression", "TSNonNullExpression", "TSSatisfiesExpression"}
        THEN hasKnownCallArgumentEvidence(Kid(e, "expression"), visited)
        ELSE IF TypeOf(e) \in Assertions THEN hasInformativeType(Kid(e, "typeAnnotation"))
        ELSE IF TypeOf(e) = "CallExpression"
        THEN IF owner = None THEN Nothing
             ELSE IF Kid(owner, "returnType") = None THEN Nothing
             ELSE hasInformativeType(Kid(owner, "returnType"))
        ELSE IF TypeOf(e) # "Identifier"
        THEN IF isKnownEvidenceExpression(e) THEN Known ELSE Nothing
        ELSE IF variable = {} \/ variable \in visited THEN Nothing
        ELSE IF variableTypeAnnotation(variable) # None
        THEN hasInformativeType(variableTypeAnnotation(variable))
        ELSE IF StableInitializer(variable) = None THEN Nothing
        ELSE hasKnownCallArgumentEvidence(StableInitializer(variable), visited \cup {variable})

-----------------------------------------------------------------------------
(* The parameter a type predicate of the owner speaks about: its index.    *)
typePredicateSubjectIndex(owner) ==
    LET hits == {i \in DOMAIN Parameters(owner) :
                    isTypePredicateSubject(owner,
                        functionParameterBindingName(Parameters(owner)[i]))}
    IN  IF hits = {} THEN None ELSE CHOOSE i \in hits : \A j \in hits : i <= j

annotationTarget(type) == IF type = None THEN Nothing ELSE classifyWideningTarget(type)

isEmptyObjectExpression(e) ==
    LET inner == unwrapExpression(e)
    IN  TypeOf(inner) = "ObjectExpression" /\ Kids(inner) = <<>>

isDictionaryAccumulatorTarget(target) == target \in {"open dictionary", "generic container"}

reportFlow(e, target) ==
    IF target \in {Nothing, Overflow} THEN Reports(e, target)
    ELSE IF isDictionaryAccumulatorTarget(target) /\ isEmptyObjectExpression(e) THEN {}
    ELSE IF hasKnownEvidence(e, {}) THEN Reports(e, target) ELSE {}

(* The value that meets an explicit type at a node, and that type.         *)
Flow(value, type) == [value |-> value, type |-> type]

Initialized(n, value) == Flow(Kid(n, value), Kid(n, "typeAnnotation"))

Assigned(n) ==
    LET declarator == variableDeclarator(resolveVariable(NameOf(n), n))
    IN  Flow(Kid(n, "right"), IF declarator = None THEN None ELSE Kid(declarator, "typeAnnotation"))

Returned(n) ==
    LET owner == Nearest(n, FunctionTypes)
    IN  Flow(Kid(n, "argument"), IF owner = None THEN None ELSE Kid(owner, "returnType"))

FlowOf(n) ==
    CASE TypeOf(n) = "VariableDeclarator" /\ NameOf(n) # "" -> Initialized(n, "init")
      [] TypeOf(n) \in {"PropertyDefinition", "AccessorProperty"} -> Initialized(n, "value")
      [] TypeOf(n) = "AssignmentExpression" -> Assigned(n)
      [] TypeOf(n) = "ReturnStatement" -> Returned(n)
      [] TypeOf(n) = "ArrowFunctionExpression" /\ TypeOf(Kid(n, "body")) # "BlockStatement" ->
           Flow(Kid(n, "body"), Kid(n, "returnType"))
      [] TypeOf(n) \in Assertions /\ TypeOf(Parent(n)) \notin Assertions ->
           Flow(Kid(n, "expression"), Kid(n, "typeAnnotation"))
      [] OTHER -> Flow(None, None)

(* A known argument for the unknown subject of a local type predicate.     *)
Called(n) ==
    LET owner == localFunctionForCall(Kid(n, "callee"))
        index == typePredicateSubjectIndex(owner)
        arguments == KidsAs(n, "arguments")
        annotation == functionParameterTypeAnnotation(Parameters(owner)[index])
        evidence == hasKnownCallArgumentEvidence(arguments[index], {})
    IN  IF owner = None THEN {}
        ELSE IF index = None THEN {}
        ELSE IF index > Len(arguments) THEN {}
        ELSE IF TypeOf(arguments[index]) = "SpreadElement" \/ annotation = None THEN {}
        ELSE IF ~containsUnknownType(annotation) THEN {}
        ELSE IF evidence = Known THEN {<<arguments[index], "unknown">>}
        ELSE Reports(arguments[index], evidence)

noKnownValueWidening(n) ==
    LET flow == FlowOf(n)
    IN  IF TypeOf(n) = "CallExpression" THEN Called(n)
        ELSE IF flow.value = None THEN {}
        ELSE reportFlow(flow.value, annotationTarget(flow.type))
=============================================================================
