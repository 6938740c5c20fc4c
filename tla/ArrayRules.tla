----------------------------- MODULE ArrayRules -----------------------------
(***************************************************************************)
(* shared/array-method.ts and the rules on it: no-array-filter-map and     *)
(* no-reduce-accumulator-copy.  A MemberExpression is named after its      *)
(* static property ("" if there is none).                                  *)
(***************************************************************************)
EXTENDS LintSyntax

unwrapArrayExpression(n) == Unwrap(n, ExpressionWrappers \cup {"ChainExpression"})

(* The variable an expression names, {} if it names none.                  *)
resolveArrayBinding(n) ==
    LET inner == unwrapArrayExpression(n)
    IN  IF TypeOf(inner) = "Identifier" THEN resolveVariable(NameOf(inner), inner) ELSE {}

arrayMethodTarget(n) ==
    LET member == unwrapArrayExpression(n)
    IN  IF TypeOf(member) # "MemberExpression" THEN None
        ELSE IF NameOf(member) = "" THEN None
        ELSE [name |-> NameOf(member), object |-> Kid(member, "object")]

(* An array type is inside nothing but parentheses and readonly.           *)
isArrayAnnotation(type) ==
    \E m \in Within(type) :
        /\ \/ TypeOf(m) \in {"TSArrayType", "TSTupleType"}
           \/ ReferenceName(m) \in {"Array", "ReadonlyArray"}
        /\ \A k \in Len(type) .. Len(m) - 1 :
              \/ TypeOf(Up(m, k)) = "TSParenthesizedType"
              \/ TypeOf(Up(m, k)) = "TSTypeOperator" /\ NameOf(Up(m, k)) = "readonly"

(* Mutant: a let binding counts as well.                                   *)
AnyInitializer(variable) ==
    LET declarators == {d \in variable : TypeOf(d) = "VariableDeclarator" /\ Kid(d, "init") # None}
    IN  IF declarators = {} THEN None ELSE Kid(First(declarators), "init")

(* The initializer of the first const among a variable's definitions.      *)
ConstInitializer(variable) ==
    LET declarators == {d \in variable : /\ TypeOf(d) = "VariableDeclarator"
                                         /\ Kid(d, "init") # None
                                         /\ NameOf(Parent(d)) = "const"}
    IN  IF declarators = {} THEN None ELSE Kid(First(declarators), "init")

ArrayMethods == {"map", "filter", "flatMap", "slice", "concat",
                 "toSorted", "toReversed", "toSpliced"}

Annotated(variable) == {d \in variable : Kid(d, "typeAnnotation") # None}

(* An array literal, or a variable with an array's annotation.             *)
IsArrayEvidence(e) ==
    LET n == unwrapArrayExpression(e)
        variable == resolveArrayBinding(n)
    IN  \/ TypeOf(n) = "ArrayExpression"
        \/ /\ TypeOf(n) = "Identifier" /\ Annotated(variable) # {} /\ ~IsReassigned(variable)
           /\ isArrayAnnotation(Kid(First(Annotated(variable)), "typeAnnotation"))

(* The expression that has to be an array for e to be one.                 *)
ArrayBehind(e) ==
    LET n == unwrapArrayExpression(e)
        method == arrayMethodTarget(Kid(n, "callee"))
        variable == resolveArrayBinding(n)
    IN  IF TypeOf(n) = "CallExpression"
        THEN IF method = None THEN None
             ELSE IF method.name \in ArrayMethods THEN method.object ELSE None
        ELSE IF TypeOf(n) # "Identifier" \/ variable = {} THEN None
        ELSE IF Annotated(variable) # {} \/ IsReassigned(variable) THEN None
        ELSE ConstInitializer(variable)

(* The expressions the recursion comes to; after as many steps as there    *)
(* are nodes it has met a variable again (visited).                        *)
isKnownArrayExpression(e) ==
    LET behind[i \in Nat] ==
            IF i = 0 THEN e
            ELSE LET last == behind[i - 1] IN IF last = None THEN None ELSE ArrayBehind(last)
    IN  \E i \in 0 .. Cardinality(Nodes) : behind[i] # None /\ IsArrayEvidence(behind[i])

-----------------------------------------------------------------------------
noArrayFilterMap(n) ==
    LET outer == arrayMethodTarget(Kid(n, "callee"))
        innerCall == unwrapArrayExpression(outer.object)
        inner == arrayMethodTarget(Kid(innerCall, "callee"))
    IN  IF TypeOf(n) # "CallExpression" THEN {}
        ELSE IF outer = None THEN {}
        ELSE IF outer.name \notin {"map", "filter"} \/ TypeOf(innerCall) # "CallExpression" THEN {}
        ELSE IF inner = None THEN {}
        ELSE IF /\ inner.name = (IF outer.name = "map" THEN "filter" ELSE "map")
                /\ isKnownArrayExpression(inner.object)
        THEN {<<n, "arrayFilterMap">>} ELSE {}

-----------------------------------------------------------------------------
(* The call whose argument is this callback, through syntax-only wrappers. *)
OwnerOf(callback) ==
    Deepest({a \in Ancestors(callback) : unwrapArrayExpression(a) # callback})

(* The innermost function around n, if it is the callback of a reduce with *)
(* a plain accumulator; a function declaration hides what is around it.    *)
enclosingReducer(n) ==
    LET callback == Nearest(n, FunctionTypes)
        owner == OwnerOf(callback)
        method == arrayMethodTarget(Kid(owner, "callee"))
        arguments == KidsAs(owner, "arguments")
        first == Kid(callback, "params")
        accumulator == IF TypeOf(first) = "AssignmentPattern" THEN Kid(first, "wrapped") ELSE first
    IN  IF callback = None THEN None
        ELSE IF TypeOf(callback) = "FunctionDeclaration" THEN None
        ELSE IF TypeOf(owner) # "CallExpression" THEN None
        ELSE IF method = None \/ Len(arguments) \notin 1 .. 2 THEN None
        ELSE IF method.name \notin {"reduce", "reduceRight"} THEN None
        ELSE IF unwrapArrayExpression(arguments[1]) # callback \/ first = None THEN None
        ELSE IF TypeOf(accumulator) # "Parameter" THEN None
        ELSE [callback |-> callback, accumulator |-> {accumulator},
              initialValue |-> IF Len(arguments) = 2 THEN arguments[2] ELSE None]

(* The variable that a const's initializer names, {} if there is none.     *)
Behind(variable) ==
    IF variable = {} \/ IsReassigned(variable) \/ ConstInitializer(variable) = None THEN {}
    ELSE resolveArrayBinding(ConstInitializer(variable))

(* The variables the recursion comes to.                                   *)
TracedBack(variable) ==
    LET behind[i \in Nat] == IF i = 0 THEN variable ELSE Behind(behind[i - 1])
    IN  behind

(* After as many steps as there are nodes it has met a variable again.     *)
referencesAccumulator(e, accumulator) ==
    \E i \in 0 .. Cardinality(Nodes) : TracedBack(resolveArrayBinding(e))[i] = accumulator

isGlobalCopyOwner(n, name) ==
    LET inner == unwrapArrayExpression(n)
    IN  TypeOf(inner) = "Identifier" /\ NameOf(inner) = name /\ resolveArrayBinding(inner) = {}

CopyMethods == {"concat", "slice", "toSpliced", "toSorted", "toReversed", "with"}

copiesAccumulator(n, method, reducer) ==
    LET arguments == KidsAs(n, "arguments")
        isAccumulator(e) == referencesAccumulator(e, reducer.accumulator)
    IN  CASE method.name = "assign" /\ isGlobalCopyOwner(method.object, "Object") ->
               /\ arguments # <<>>
               /\ TypeOf(unwrapArrayExpression(arguments[1])) = "ObjectExpression"
               /\ \E i \in 2 .. Len(arguments) : isAccumulator(arguments[i])
          [] method.name = "from" /\ isGlobalCopyOwner(method.object, "Array") ->
               arguments # <<>> /\ isAccumulator(arguments[1])
          [] method.name \in CopyMethods ->
               /\ reducer.initialValue # None
               /\ isKnownArrayExpression(reducer.initialValue)
               /\ isAccumulator(method.object)
          [] OTHER -> FALSE

noReduceAccumulatorCopy(n) ==
    LET method == arrayMethodTarget(Kid(n, "callee"))
        reducer == enclosingReducer(n)
    IN  IF TypeOf(n) # "CallExpression" THEN {}
        ELSE IF method = None \/ reducer = None THEN {}
        ELSE IF copiesAccumulator(n, method, reducer) THEN {<<n, "accumulatorCopy">>} ELSE {}
=============================================================================
