----------------------------- MODULE TypeRules -----------------------------
(***************************************************************************)
(* The rules about the types a file writes down: no-unsafe-dictionary-type,*)
(* no-unknown-type-aliases, no-unknown-returns, no-object-parameters and   *)
(* no-unknown-parameters, with shared/function-parameters.ts.  A rule maps *)
(* a visited node to its reports, a set of nodes with what is said of each;*)
(* Overflow is said of a node whose visit throws.                          *)
(***************************************************************************)
EXTENDS DictionaryTypes

TypeNodeKinds ==
    {"TSAnyKeyword", "TSArrayType", "TSConditionalType", "TSFunctionType", "TSInferType",
     "TSIntersectionType", "TSLiteralType", "TSMappedType", "TSNeverKeyword",
     "TSNullKeyword", "TSNumberKeyword", "TSObjectKeyword", "TSParenthesizedType",
     "TSStringKeyword", "TSSymbolKeyword", "TSTypeLiteral", "TSTypeOperator",
     "TSTypePredicate", "TSTypeReference", "TSUnionType", "TSUnknownKeyword"}

isInsideTypeAliasDeclaration(n) == Nearest(n, {Alias}) # None

isPlainAliasConsumerUse(n) ==
    /\ ReferenceName(n) # ""
    /\ Arguments(n) = <<>>
    /\ visibleTypeAlias(NameOf(n), n) # None
    /\ ~isInsideTypeAliasDeclaration(n)

isInsideTypeParameterConstraint(n) ==
    \E k \in 1 .. Len(n) : /\ RoleOf(Up(n, k)) = "constraint"
                           /\ TypeOf(Up(n, k - 1)) = "TSTypeParameter"

(* The types a node is part of, the nearest first.                         *)
EnclosingTypes(n) ==
    SelectSeq([i \in 1 .. Len(n) |-> Up(n, Len(n) - i)], LAMBDA a : TypeOf(a) \in TypeNodeKinds)

(* The first enclosing type that is itself an unsafe dictionary.           *)
EnclosingDictionary(n) ==
    FirstResult(classifyUnsafeDictionary, EnclosingTypes(n))

Reports(n, data) == IF data = Nothing THEN {} ELSE {<<n, data>>}

shouldReportType(n) ==
    LET own == classifyUnsafeDictionary(n)
    IN  IF isInsideTypeParameterConstraint(n) \/ isPlainAliasConsumerUse(n) THEN Nothing
        ELSE IF own \in {Nothing, Overflow} THEN own
        ELSE IF EnclosingDictionary(n) = Nothing THEN own
        ELSE IF EnclosingDictionary(n) = Overflow THEN Overflow ELSE Nothing

noUnsafeDictionaryType(n) ==
    IF TypeOf(n) \in {"TSTypeReference", "TSTypeLiteral", "TSMappedType"}
    THEN Reports(n, shouldReportType(n))
    ELSE IF /\ TypeOf(n) = "TSIndexSignature"
            /\ Kid(n, "typeAnnotation") # None
            /\ TypeOf(Parent(n)) # "TSTypeLiteral"
    THEN Reports(n, classifyUnsafeDictionaryValue(Kid(n, "typeAnnotation")))
    ELSE {}

-----------------------------------------------------------------------------
noUnknownTypeAliases(n) ==
    IF TypeOf(n) # Alias THEN {}
    ELSE IF resolvedTypeMatches(Kid(n, "typeAnnotation"), "unknownAlias")
    THEN {<<n, "unknownAlias">>} ELSE {}

SignatureTypes ==
    FunctionTypes \cup {"TSFunctionType", "TSMethodSignature", "TSDeclareFunction",
        "TSEmptyBodyFunctionExpression", "TSCallSignatureDeclaration",
        "TSConstructSignatureDeclaration", "TSConstructorType"}

noUnknownReturns(n) ==
    IF TypeOf(n) \notin SignatureTypes \/ Kid(n, "returnType") = None THEN {}
    ELSE IF resolvedTypeMatches(Kid(n, "returnType"), "unknownReturn")
    THEN {<<Kid(n, "returnType"), "unknownReturn">>} ELSE {}

-----------------------------------------------------------------------------
(* shared/function-parameters.ts.  Patterns other than an identifier under *)
(* rest, default and property wrappers have no part here.                  *)
RECURSIVE containsUnknownType(_)
containsUnknownType(n) ==
    \/ TypeOf(n) = "TSUnknownKeyword"
    \/ /\ TypeOf(n) \in {"TSParenthesizedType", "TSUnionType"}
       /\ \E k \in ToSet(Kids(n)) : containsUnknownType(k)

WrappedParameter(p) == Kid(p, "wrapped")

RECURSIVE functionParameterTypeAnnotation(_)
functionParameterTypeAnnotation(p) ==
    IF TypeOf(p) = "Parameter" THEN Kid(p, "typeAnnotation")
    ELSE IF TypeOf(p) # "TSParameterProperty" /\ Kid(p, "typeAnnotation") # None
    THEN Kid(p, "typeAnnotation")
    ELSE functionParameterTypeAnnotation(WrappedParameter(p))

RECURSIVE functionParameterBindingName(_)
functionParameterBindingName(p) ==
    IF TypeOf(p) = "Parameter" THEN NameOf(p)
    ELSE functionParameterBindingName(WrappedParameter(p))

Parameters(n) == KidsAs(n, "params")
AnnotatedParameters(n) ==
    IF TypeOf(n) \notin SignatureTypes THEN {}
    ELSE {p \in ToSet(Parameters(n)) : functionParameterTypeAnnotation(p) # None}

noObjectParameters(n) ==
    {<<functionParameterTypeAnnotation(p), "objectParameter">> :
        p \in {q \in AnnotatedParameters(n) :
                 resolvedTypeMatches(functionParameterTypeAnnotation(q), "object")}}

isTypePredicateSubject(n, name) ==
    LET predicate == Kid(n, "returnType")
    IN  IF predicate = None THEN FALSE
        ELSE TypeOf(predicate) = "TSTypePredicate" /\ NameOf(predicate) = name

noUnknownParameters(n) ==
    {<<functionParameterTypeAnnotation(p), "unknownParameter">> :
        p \in {q \in AnnotatedParameters(n) :
                 /\ containsUnknownType(functionParameterTypeAnnotation(q))
                 /\ functionParameterBindingName(q) # "cause"
                 /\ ~isTypePredicateSubject(n, functionParameterBindingName(q))}}
=============================================================================
