------------------------ MODULE TypeAliasResolution ------------------------
(***************************************************************************)
(* shared/type-alias-resolution.ts: matching a type after resolving        *)
(* aliases and substituting their parameters.                              *)
(***************************************************************************)
EXTENDS TypeNames

TypeParameters(n) == KidsAs(n, "typeParameters")
NoSubstitutions == <<>>
Maps(substitutions, name) == name \in DOMAIN substitutions
Arguments(reference) == KidsAs(reference, "typeArguments")

(* What the i-th parameter of an alias stands for: its argument in the     *)
(* reference, else its default, else nothing.                              *)
ArgumentOf(alias, reference, i) ==
    IF i <= Len(Arguments(reference)) THEN Arguments(reference)[i]
    ELSE Kid(TypeParameters(alias)[i], "default")

Applies(alias, reference) ==
    \A i \in DOMAIN TypeParameters(alias) : ArgumentOf(alias, reference, i) # None

(* Mutant: a default cannot speak of the parameters before it.             *)
substitutionsOfBase(alias, reference, base) ==
    LET Add(next, i) ==
            (NameOf(TypeParameters(alias)[i]) :>
                [type |-> ArgumentOf(alias, reference, i), substitutions |-> base])
            @@ next
    IN  FoldLeft(Add, base, [i \in DOMAIN TypeParameters(alias) |-> i])

(* Each argument is kept with the substitutions it is to be read under.    *)
aliasSubstitutions(alias, reference, base) ==
    LET Add(next, i) ==
            (NameOf(TypeParameters(alias)[i]) :>
                [type |-> ArgumentOf(alias, reference, i),
                 substitutions |-> IF i <= Len(Arguments(reference)) THEN base ELSE next])
            @@ next
    IN  FoldLeft(Add, base, [i \in DOMAIN TypeParameters(alias) |-> i])

(* The matchers the rules pass: what else than the keyword matches, and    *)
(* which children a matcher descends into.                                 *)
Keyword(matcher) ==
    IF matcher = "object" THEN "TSObjectKeyword" ELSE "TSUnknownKeyword"

Descends(matcher, n) ==
    CASE TypeOf(n) = "TSParenthesizedType" -> Kids(n)
      [] TypeOf(n) = "TSUnionType" -> Kids(n)
      [] /\ matcher = "unknownReturn" /\ TypeOf(n) = "TSTypeReference"
         /\ NameOf(n) \in {"Promise", "PromiseLike"} /\ Arguments(n) # <<>>
           -> <<Arguments(n)[1]>>
      [] OTHER -> <<>>

RECURSIVE Evaluate(_, _, _, _)
Evaluate(matcher, n, substitutions, resolving) ==
    LET reference == TypeOf(n) = "TSTypeReference" /\ NameOf(n) # ""
        alias == visibleTypeAlias(NameOf(n), n)
    IN  CASE reference /\ Maps(substitutions, NameOf(n)) /\ Arguments(n) = <<>> ->
               Evaluate(matcher, substitutions[NameOf(n)].type,
                        substitutions[NameOf(n)].substitutions, resolving)
          [] /\ reference /\ ~(Maps(substitutions, NameOf(n)) /\ Arguments(n) = <<>>)
             /\ alias # None /\ alias \notin resolving /\ Applies(alias, n) ->
               Evaluate(matcher, Kid(alias, "typeAnnotation"),
                        aliasSubstitutions(alias, n, substitutions), resolving \cup {alias})
          [] OTHER ->
               \/ TypeOf(n) = Keyword(matcher)
               \/ \E k \in ToSet(Descends(matcher, n)) :
                     Evaluate(matcher, k, substitutions, resolving)

resolvedTypeMatches(n, matcher) == Evaluate(matcher, n, NoSubstitutions, {})
=============================================================================
