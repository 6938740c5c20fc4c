-------------------------- MODULE DictionaryTypes --------------------------
(***************************************************************************)
(* shared/dictionary-types.ts: what the values of a dictionary type are,   *)
(* whether such a value is an unsafe escape hatch, and how broad the type  *)
(* is that a value is widened to.                                          *)
(*                                                                         *)
(* These functions call themselves on types, aliases and substitutions     *)
(* with a guard on alias names only, so they need not come to an end.  The *)
(* last argument counts the calls left on JavaScript's stack: a call       *)
(* beyond it throws, which is the result Overflow of every caller.         *)
(***************************************************************************)
EXTENDS TypeAliasResolution

CONSTANT StackLimit     \* bound on nested calls; the engine's is larger

TransparentWrappers == {"Readonly", "Partial", "Required", "NonNullable"}
BuiltIns == TransparentWrappers \cup {"Record", "Pick", "Omit", "PropertyKey"}
Nothing == "nothing"    \* the functions' null

(* The result of calls made one after the other until one gives more than  *)
(* null, or throws; some() says hit of it.                                 *)
FirstResult(Call(_), arguments) ==
    FoldLeft(LAMBDA found, x : IF found = Nothing THEN Call(x) ELSE found, Nothing, arguments)

Some(result, hit) == IF result \in {Nothing, Overflow} THEN result ELSE hit

-----------------------------------------------------------------------------
InterfacesNamed(name) == {n \in environment.interfaces : NameOf(n) = name}

isBuiltIn(name, use) == name \in BuiltIns /\ ~hasVisibleTypeBinding(name, use)

RECURSIVE unwrapTransparentType(_)
unwrapTransparentType(n) ==
    IF \/ TypeOf(n) = "TSParenthesizedType"
       \/ TypeOf(n) = "TSTypeOperator" /\ NameOf(n) = "readonly"
    THEN unwrapTransparentType(Append(n, 1))
    ELSE n

isUnappliedReferenceTo(n, name) ==
    LET unwrapped == unwrapTransparentType(n)
    IN  ReferenceName(unwrapped) = name /\ Arguments(unwrapped) = <<>>

isEffectivelyEmptyMember(m) ==
    /\ TypeOf(m) = "TSPropertySignature"
    /\ NameOf(m) = "optional"
    /\ Kid(m, "typeAnnotation") # None
    /\ TypeOf(unwrapTransparentType(Kid(m, "typeAnnotation"))) = "TSNeverKeyword"

AllMembersEmpty(n) == \A m \in ToSet(KidsAs(n, "members")) : isEffectivelyEmptyMember(m)

isEffectivelyEmptyInterface(declarations) ==
    /\ Cardinality(declarations) = 1
    /\ \A n \in declarations : KidsAs(n, "extends") = <<>> /\ AllMembersEmpty(n)

-----------------------------------------------------------------------------
(* An argument that is a parameter of an alias around it is replaced by    *)
(* what that parameter stands for; anything else is left as it is.         *)
RECURSIVE resolvedSubstitutionArgument(_, _, _)
resolvedSubstitutionArgument(n, base, resolving) ==
    LET name == ReferenceName(unwrapTransparentType(n))
    IN  IF name = "" \/ name \in resolving \/ ~Maps(base, name) THEN n
        ELSE resolvedSubstitutionArgument(base[name], base, resolving \cup {name})

aliasSubstitution(alias, reference, base) ==
    LET Add(next, i) ==
            (NameOf(TypeParameters(alias)[i]) :>
                resolvedSubstitutionArgument(ArgumentOf(alias, reference, i), next, {}))
            @@ next
    IN  FoldLeft(Add, base, [i \in DOMAIN TypeParameters(alias) |-> i])

IsWrapper(n) == NameOf(n) \in TransparentWrappers /\ isBuiltIn(NameOf(n), n)
FirstArgument(n) == Kid(n, "typeArguments")

(* The alias a reference is expanded to: visible, not being expanded, and  *)
(* with an argument for every parameter.                                   *)
Expansion(n, resolving) ==
    LET alias == visibleTypeAlias(NameOf(n), n)
    IN  IF alias = None \/ NameOf(n) \in resolving THEN None
        ELSE IF Applies(alias, n) THEN alias ELSE None

(* Mutant: some member is enough.                                          *)
SomeMemberResult(results) ==
    LET hits == SelectSeq(results, LAMBDA r : r # Nothing)
    IN  IF hits = <<>> THEN Nothing ELSE hits[1]

IntersectionResult(results) ==
    LET Has(r) == \E i \in DOMAIN results : results[i] = r
    IN  IF Has(Overflow) THEN Overflow
        ELSE IF Has("any") THEN "any"
        ELSE IF results = <<>> \/ Has(Nothing) THEN Nothing ELSE results[1]

RECURSIVE unsafeDirectValue(_, _, _, _)

unsafeReference(n, substitutions, resolving, calls) ==
    LET name == NameOf(n)
        expansion == Expansion(n, resolving)
    IN  IF name = "" \/ (IsWrapper(n) /\ FirstArgument(n) = None) THEN Nothing
        ELSE IF IsWrapper(n)
        THEN unsafeDirectValue(FirstArgument(n), substitutions, resolving, calls - 1)
        ELSE IF Maps(substitutions, name)
        THEN IF isUnappliedReferenceTo(substitutions[name], name) THEN Nothing
             ELSE unsafeDirectValue(substitutions[name], substitutions, resolving, calls - 1)
        ELSE IF InterfacesNamed(name) # {}
        THEN IF isEffectivelyEmptyInterface(InterfacesNamed(name))
             THEN "empty-object" ELSE Nothing
        ELSE IF expansion = None THEN Nothing
        ELSE unsafeDirectValue(Kid(expansion, "typeAnnotation"),
                               aliasSubstitution(expansion, n, substitutions),
                               resolving \cup {name}, calls - 1)

unsafeDirectValue(type, substitutions, resolving, calls) ==
    LET n == unwrapTransparentType(type)
        Member(k) == unsafeDirectValue(k, substitutions, resolving, calls - 1)
    IN  IF calls = 0 THEN Overflow
        ELSE CASE TypeOf(n) = "TSUnknownKeyword" -> "unknown"
               [] TypeOf(n) = "TSAnyKeyword" -> "any"
               [] TypeOf(n) = "TSObjectKeyword" -> "object"
               [] TypeOf(n) = "TSTypeLiteral" ->
                    IF AllMembersEmpty(n) THEN "empty-object" ELSE Nothing
               [] TypeOf(n) = "TSUnionType" -> Some(FirstResult(Member, Kids(n)), "union")
               [] TypeOf(n) = "TSIntersectionType" -> 
                    IntersectionResult(FoldLeft(LAMBDA all, k : Append(all, Member(k)),
                                                <<>>, Kids(n)))
               [] TypeOf(n) = "TSTypeReference" ->
                    unsafeReference(n, substitutions, resolving, calls)
               [] OTHER -> Nothing

-----------------------------------------------------------------------------
(* The value types of a dictionary, each with the substitutions it is to   *)
(* be read under; a call that throws gives one value of no type.           *)
Value(n, substitutions) ==
    IF n = None THEN <<>> ELSE <<[type |-> n, substitutions |-> substitutions]>>
Thrown == <<[type |-> None, substitutions |-> NoSubstitutions]>>

RECURSIVE dictionaryValueTypes(_, _, _, _)

referencedValueTypes(n, substitutions, resolving, calls) ==
    LET name == NameOf(n)
        expansion == Expansion(n, resolving)
        Inner(m) == IF m = None THEN <<>>
                    ELSE dictionaryValueTypes(m, substitutions, resolving, calls - 1)
    IN  IF name = "" THEN <<>>
        ELSE IF Maps(substitutions, name)
        THEN IF isUnappliedReferenceTo(substitutions[name], name) THEN <<>>
             ELSE Inner(substitutions[name])
        ELSE IF IsWrapper(n) \/ (name \in {"Pick", "Omit"} /\ isBuiltIn(name, n))
        THEN Inner(FirstArgument(n))
        ELSE IF name = "Record" /\ isBuiltIn(name, n)
        THEN IF Len(Arguments(n)) < 2 THEN <<>> ELSE Value(Arguments(n)[2], substitutions)
        ELSE IF expansion = None THEN <<>>
        ELSE dictionaryValueTypes(Kid(expansion, "typeAnnotation"),
                                  aliasSubstitution(expansion, n, substitutions),
                                  resolving \cup {name}, calls - 1)

dictionaryValueTypes(type, substitutions, resolving, calls) ==
    LET n == unwrapTransparentType(type)
        indexes == SelectSeq(KidsAs(n, "members"),
                             LAMBDA m : TypeOf(m) = "TSIndexSignature")
    IN  IF calls = 0 THEN Thrown
        ELSE CASE TypeOf(n) = "TSTypeLiteral" ->
                    FlattenSeq([i \in DOMAIN indexes |->
                                   Value(Kid(indexes[i], "typeAnnotation"), substitutions)])
               [] TypeOf(n) = "TSMappedType" -> Value(Kid(n, "typeAnnotation"), substitutions)
               [] TypeOf(n) = "TSTypeReference" ->
                    referencedValueTypes(n, substitutions, resolving, calls)
               [] OTHER -> <<>>

classifyUnsafeDictionaryValue(n) == unsafeDirectValue(n, NoSubstitutions, {}, StackLimit)

classifyUnsafeDictionary(n) ==
    LET values == dictionaryValueTypes(n, NoSubstitutions, {}, StackLimit)
        Unsafe(v) == IF v.type = None THEN Overflow
                     ELSE unsafeDirectValue(v.type, v.substitutions, {}, StackLimit)
    IN  FirstResult(Unsafe, values)

-----------------------------------------------------------------------------
(* How broad a type is as the target of a value: the key of a dictionary,  *)
(* an alias that stands for a broad type, and the type as it is written.   *)
RECURSIVE isBroadMappedKey(_, _, _, _)
isBroadMappedKey(type, substitutions, visited, calls) ==
    LET n == unwrapTransparentType(type)
        name == ReferenceName(n)
        alias == visibleTypeAlias(name, n)
        Key(m, seen) == isBroadMappedKey(m, substitutions, seen, calls - 1)
    IN  IF calls = 0 THEN Overflow
        ELSE IF TypeOf(n) \in {"TSStringKeyword", "TSNumberKeyword", "TSSymbolKeyword"}
        THEN "broad"
        ELSE IF TypeOf(n) = "TSUnionType"
        THEN FirstResult(LAMBDA k : Key(k, visited), Kids(n))
        ELSE IF name = "" THEN Nothing
        ELSE IF Maps(substitutions, name) /\ ~isUnappliedReferenceTo(substitutions[name], name)
        THEN Key(substitutions[name], visited)
        ELSE IF name = "PropertyKey" /\ isBuiltIn(name, n) THEN "broad"
        ELSE IF alias = None \/ name \in visited THEN Nothing
        ELSE IF TypeParameters(alias) # <<>> THEN Nothing
        ELSE Key(Kid(alias, "typeAnnotation"), visited \cup {name})

(* "open dictionary" if the key is broad.                                  *)
OpenIfBroad(key, substitutions, calls) ==
    LET broad == isBroadMappedKey(key, substitutions, {}, calls - 1)
    IN  IF key = None THEN "open dictionary"
        ELSE IF broad = "broad" THEN "open dictionary" ELSE broad

HasIndexSignature(n) ==
    \E m \in ToSet(KidsAs(n, "members")) : TypeOf(m) = "TSIndexSignature"

RECURSIVE classifyAliasBroadTarget(_, _, _, _)
classifyAliasBroadTarget(type, substitutions, resolving, calls) ==
    LET n == unwrapTransparentType(type)
        name == ReferenceName(n)
        expansion == Expansion(n, resolving)
        Target(m) == classifyAliasBroadTarget(m, substitutions, resolving, calls - 1)
    IN  IF calls = 0 THEN Overflow
        ELSE IF TypeOf(n) = "TSUnknownKeyword" THEN "unknown"
        ELSE IF TypeOf(n) = "TSObjectKeyword" THEN "object"
        ELSE IF TypeOf(n) = "TSTypeLiteral"
        THEN IF HasIndexSignature(n) THEN "open dictionary" ELSE Nothing
        ELSE IF TypeOf(n) = "TSMappedType"
        THEN OpenIfBroad(Kid(n, "constraint"), substitutions, calls)
        ELSE IF name = "" THEN Nothing
        ELSE IF Maps(substitutions, name)
        THEN IF isUnappliedReferenceTo(substitutions[name], name) THEN Nothing
             ELSE Target(substitutions[name])
        ELSE IF IsWrapper(n)
        THEN IF FirstArgument(n) = None THEN Nothing ELSE Target(FirstArgument(n))
        ELSE IF name = "Record" /\ isBuiltIn(name, n)
        THEN OpenIfBroad(FirstArgument(n), substitutions, calls)
        ELSE IF expansion = None THEN Nothing
        ELSE classifyAliasBroadTarget(Kid(expansion, "typeAnnotation"),
                                      aliasSubstitution(expansion, n, substitutions),
                                      resolving \cup {name}, calls - 1)

(* An alias with parameters is a container, and only broad as a dictionary.*)
classifyReferencedAlias(n) ==
    LET alias == Expansion(n, {})
        target == classifyAliasBroadTarget(Kid(alias, "typeAnnotation"),
                      aliasSubstitution(alias, n, NoSubstitutions), {NameOf(n)}, StackLimit)
    IN  IF alias = None THEN Nothing
        ELSE IF TypeParameters(alias) = <<>> \/ target = Overflow THEN target
        ELSE IF target = "open dictionary" THEN "generic container" ELSE Nothing

RECURSIVE classifyWideningTarget(_)
classifyWideningTarget(type) ==
    LET n == unwrapTransparentType(type)
        name == ReferenceName(n)
    IN  IF TypeOf(n) = "TSUnknownKeyword" THEN "unknown"
        ELSE IF TypeOf(n) = "TSObjectKeyword" THEN "object"
        ELSE IF TypeOf(n) = "TSTypeLiteral"
        THEN IF HasIndexSignature(n) THEN "open dictionary"
             ELSE IF KidsAs(n, "members") # <<>> THEN "anonymous object" ELSE Nothing
        ELSE IF TypeOf(n) = "TSMappedType" THEN "open dictionary"
        ELSE IF name = "" THEN Nothing
        ELSE IF IsWrapper(n)
        THEN IF FirstArgument(n) = None THEN Nothing
             ELSE classifyWideningTarget(FirstArgument(n))
        ELSE IF name = "Record" /\ isBuiltIn(name, n)
        THEN OpenIfBroad(FirstArgument(n), NoSubstitutions, StackLimit)
        ELSE classifyReferencedAlias(n)
=============================================================================
