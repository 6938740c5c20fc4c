--------------------------- MODULE AssertionRules ---------------------------
(***************************************************************************)
(* no-widen-then-assert, which reports an assertion that takes back the    *)
(* type a const binding was stripped of.                                   *)
(***************************************************************************)
EXTENDS ValueRules

unwrapTypeParentheses(type) == Unwrap(type, {"TSParenthesizedType"})
unwrapExpressionParentheses(e) == Unwrap(e, {"ParenthesizedExpression"})

isUnknownOrAnyType(type) ==
    TypeOf(unwrapTypeParentheses(type)) \in {"TSUnknownKeyword", "TSAnyKeyword"}

RECURSIVE isBroadRecordKeyType(_)
isBroadRecordKeyType(type) ==
    LET n == unwrapTypeParentheses(type)
    IN  \/ TypeOf(n) \in {"TSStringKeyword", "TSNumberKeyword", "TSSymbolKeyword"}
        \/ TypeOf(n) = "TSUnionType" /\ \A k \in ToSet(Kids(n)) : isBroadRecordKeyType(k)
        \/ ReferenceName(n) = "PropertyKey"

(* Readonly<...>, Record<key, unknown> or { [key]: unknown }, by spelling. *)
RECURSIVE isBroadRecordType(_)
isBroadRecordType(type) ==
    LET n == unwrapTypeParentheses(type)
        members == KidsAs(n, "members")
    IN  CASE ReferenceName(n) = "Readonly" ->
               FirstArgument(n) # None /\ isBroadRecordType(FirstArgument(n))
          [] ReferenceName(n) = "Record" ->
               /\ Len(Arguments(n)) = 2
               /\ isBroadRecordKeyType(Arguments(n)[1])
               /\ isUnknownOrAnyType(Arguments(n)[2])
          [] TypeOf(n) = "TSTypeLiteral" ->
               /\ Len(members) = 1
               /\ TypeOf(members[1]) = "TSIndexSignature"
               /\ isBroadRecordKeyType(Kid(members[1], "parameters"))
               /\ isUnknownOrAnyType(Kid(members[1], "typeAnnotation"))
          [] OTHER -> FALSE

broadTypeKind(type) ==
    IF isUnknownOrAnyType(type) THEN "top"
    ELSE IF TypeOf(unwrapTypeParentheses(type)) = "TSObjectKeyword" THEN "object"
    ELSE IF isBroadRecordType(type) THEN "record" ELSE Nothing

typesHaveSameSyntax(left, right) ==
    left # None /\ SameText(unwrapTypeParentheses(left), unwrapTypeParentheses(right))

RECURSIVE isDefinitelyObjectType(_)
isDefinitelyObjectType(type) ==
    LET n == unwrapTypeParentheses(type)
    IN  \/ TypeOf(n) \in {"TSArrayType", "TSConstructorType", "TSFunctionType",
                          "TSMappedType", "TSObjectKeyword", "TSTupleType"}
        \/ TypeOf(n) = "TSTypeLiteral" /\ KidsAs(n, "members") # <<>>
        \/ /\ TypeOf(n) = "TSIntersectionType"
           /\ \A k \in ToSet(Kids(n)) : isDefinitelyObjectType(k)
        \/ /\ TypeOf(n) = "TSTypeOperator" /\ NameOf(n) = "readonly"
           /\ isDefinitelyObjectType(Append(n, 1))

RECURSIVE isDefinitelyNarrowerRecordType(_)
isDefinitelyNarrowerRecordType(type) ==
    LET n == unwrapTypeParentheses(type)
    IN  CASE TypeOf(n) = "TSTypeLiteral" ->
               \E m \in ToSet(KidsAs(n, "members")) : TypeOf(m) # "TSIndexSignature"
          [] ReferenceName(n) = "Readonly" ->
               FirstArgument(n) # None /\ isDefinitelyNarrowerRecordType(FirstArgument(n))
          [] ReferenceName(n) = "Record" ->
               Len(Arguments(n)) = 2 /\ ~isUnknownOrAnyType(Arguments(n)[2])
          [] OTHER -> FALSE

-----------------------------------------------------------------------------
FunctionBoundaries == FunctionTypes \cup {"TSDeclareFunction", "TSEmptyBodyFunctionExpression"}

functionBoundary(n) == Nearest(n, FunctionBoundaries)

(* The first declarator among a variable's definitions.                    *)
anyDeclarator(variable) ==
    LET declarators == {d \in variable : TypeOf(d) = "VariableDeclarator"}
    IN  IF declarators = {} THEN None ELSE First(declarators)

(* A const binding with an initializer and no other write.                 *)
IsConstBinding(variable) ==
    LET declarator == anyDeclarator(variable)
    IN  /\ declarator # None
        /\ NameOf(Parent(declarator)) = "const"
        /\ Kid(declarator, "init") # None
        /\ ~IsReassigned(variable)

(* What is known of a value: its type, or only that there is one; None if  *)
(* nothing is.                                                             *)
OfType(type) == [type |-> type]

RECURSIVE knownValueEvidence(_, _, _)
knownValueEvidence(e, boundary, visited) ==
    LET n == unwrapExpressionParentheses(e)
        variable == resolveVariable(NameOf(n), n)
        annotated == {d \in variable : Kid(d, "typeAnnotation") # None}
        annotation == Kid(First(annotated), "typeAnnotation")
    IN  IF TypeOf(n) \in Assertions
        THEN IF broadTypeKind(Kid(n, "typeAnnotation")) # Nothing THEN None
             ELSE OfType(Kid(n, "typeAnnotation"))
        ELSE IF TypeOf(n) \in {"Literal", "TemplateLiteral", "ArrayExpression",
                               "ArrowFunctionExpression", "ClassExpression",
                               "FunctionExpression", "NewExpression", "ObjectExpression"}
        THEN OfType(None)
        ELSE IF TypeOf(n) # "Identifier" \/ variable = {} \/ variable \in visited THEN None
        ELSE IF annotated # {}
        THEN IF functionBoundary(First(annotated)) # boundary \/ broadTypeKind(annotation) # Nothing
             THEN None ELSE OfType(annotation)
        ELSE IF ~IsConstBinding(variable) THEN None
        ELSE IF functionBoundary(anyDeclarator(variable)) # boundary THEN None
        ELSE knownValueEvidence(Kid(anyDeclarator(variable), "init"), boundary,
                                visited \cup {variable})

(* Mutant: the assertion that widens an initializer is not looked through.  *)
widenedByOwnValue(variable) ==
    LET declarator == anyDeclarator(variable)
        declared == Kid(declarator, "typeAnnotation")
        init == Kid(declarator, "init")
        asserted == unwrapExpressionParentheses(init)
        initializerBroadKind ==
            IF TypeOf(asserted) \notin Assertions THEN Nothing
            ELSE broadTypeKind(Kid(asserted, "typeAnnotation"))
        declaredBroadKind == IF declared = None THEN Nothing ELSE broadTypeKind(declared)
        broadKind == IF declaredBroadKind # Nothing THEN declaredBroadKind
                     ELSE initializerBroadKind
        original == init
        evidence == knownValueEvidence(original, functionBoundary(declarator), {variable})
    IN  IF ~IsConstBinding(variable) THEN None
        ELSE IF broadKind = Nothing \/ evidence = None THEN None
        ELSE [broadKind |-> broadKind, evidence |-> evidence]

(* How a const binding was widened, and what was known of its value.       *)
widenedBinding(variable) ==
    LET declarator == anyDeclarator(variable)
        declared == Kid(declarator, "typeAnnotation")
        init == Kid(declarator, "init")
        asserted == unwrapExpressionParentheses(init)
        initializerBroadKind ==
            IF TypeOf(asserted) \notin Assertions THEN Nothing
            ELSE broadTypeKind(Kid(asserted, "typeAnnotation"))
        declaredBroadKind == IF declared = None THEN Nothing ELSE broadTypeKind(declared)
        broadKind == IF declaredBroadKind # Nothing THEN declaredBroadKind
                     ELSE initializerBroadKind
        original == IF initializerBroadKind # Nothing THEN Kid(asserted, "expression") ELSE init
        evidence == knownValueEvidence(original, functionBoundary(declarator), {variable})
    IN  IF ~IsConstBinding(variable) THEN None
        ELSE IF broadKind = Nothing \/ evidence = None THEN None
        ELSE [broadKind |-> broadKind, evidence |-> evidence]

assertionIsNarrower(widened, type) ==
    /\ broadTypeKind(type) = Nothing
    /\ \/ widened.broadKind = "top"
       \/ typesHaveSameSyntax(widened.evidence.type, type)
       \/ IF widened.broadKind = "object" THEN isDefinitelyObjectType(type)
          ELSE isDefinitelyNarrowerRecordType(type)

noWidenThenAssert(n) ==
    LET e == unwrapExpressionParentheses(Kid(n, "expression"))
        variable == resolveVariable(NameOf(e), e)
        widened == widenedBinding(variable)
        declarator == anyDeclarator(variable)
    IN  IF TypeOf(n) \notin Assertions THEN {}
        ELSE IF TypeOf(e) # "Identifier" \/ variable = {} THEN {}
        ELSE IF widened = None THEN {}
        ELSE IF /\ StartsAfter(n, declarator)
                /\ functionBoundary(n) = functionBoundary(declarator)
                /\ assertionIsNarrower(widened, Kid(n, "typeAnnotation"))
        THEN {<<n, "widenThenAssert">>} ELSE {}
=============================================================================
