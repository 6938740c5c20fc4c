-------------------------- MODULE AssertionChains --------------------------
(***************************************************************************)
(* no-chained-type-assertions: type assertions directly inside one another *)
(* are reported at the outermost of them.                                  *)
(***************************************************************************)
EXTENDS LintSyntax

unwrapParenthesizedExpression(e) == Unwrap(e, {"ParenthesizedExpression"})

isConstAssertion(n) == ReferenceName(Kid(n, "typeAnnotation")) = "const"

(* Mutant: parentheses end a chain.                                        *)
isDirectlyOutermost(n) == TypeOf(Parent(n)) \notin Assertions \/ RoleOf(n) # "expression"

(* The first parent that is no parenthesis does not assert what is below.  *)
isOutermostAssertionInChain(n) ==
    LET parent == Deepest({a \in Ancestors(n) : TypeOf(a) # "ParenthesizedExpression"})
        current == Up(n, Len(parent) + 1)
    IN  TypeOf(parent) \notin Assertions \/ RoleOf(current) # "expression"

(* The expressions the loop of isForbiddenAssertionChain comes to.         *)
Inwards(n) ==
    LET current[i \in Nat] ==
            IF i = 0 THEN n
            ELSE IF TypeOf(current[i - 1]) \in Assertions
            THEN unwrapParenthesizedExpression(Kid(current[i - 1], "expression"))
            ELSE current[i - 1]
    IN  current

(* The assertions among them; each is further down than the one before.    *)
AssertionChain(n) ==
    {m \in Within(n) : /\ TypeOf(m) \in Assertions
                       /\ \E i \in 0 .. Len(m) - Len(n) : Inwards(n)[i] = m}

isForbiddenAssertionChain(n) ==
    /\ Cardinality(AssertionChain(n)) > 1
    /\ \E m \in AssertionChain(n) : ~isConstAssertion(m)

noChainedTypeAssertions(n) ==
    IF TypeOf(n) \notin Assertions THEN {}
    ELSE IF isOutermostAssertionInChain(n) /\ isForbiddenAssertionChain(n)
    THEN {<<n, "chained">>} ELSE {}
=============================================================================
