---------------------------- MODULE TypeMeaning ----------------------------
(***************************************************************************)
(* What the types of a file mean, as TypeScript reads them: a reference    *)
(* definition for the lint rules, with none of their shortcuts.  A name    *)
(* refers to its Referents (TypeNames), and an alias is expanded with      *)
(* closures: each argument keeps the scope it was written in.  Expansion   *)
(* stops after Depth steps, so an alias that never ends means nothing; no  *)
(* file of an instance needs more.                                         *)
(***************************************************************************)
EXTENDS DictionaryTypes

CONSTANT Depth          \* bound on expansions of the reference definition

(* A closure maps type parameters to a type and the closure to read it in. *)
Closed(alias, reference, closure) ==
    LET Add(next, i) ==
            (TypeParameters(alias)[i] :>
                [type |-> ArgumentOf(alias, reference, i),
                 closure |-> IF i <= Len(Arguments(reference)) THEN closure ELSE next])
            @@ next
    IN  FoldLeft(Add, closure, [i \in DOMAIN TypeParameters(alias) |-> i])

(* A type without the parentheses, aliases and parameters around it, and   *)
(* the closure to read it in; no type if the expansion does not end.       *)
RECURSIVE Expanded(_, _, _)
Expanded(type, closure, depth) ==
    LET n == unwrapTransparentType(type)
        bound == {p \in Referents(NameOf(n), n) : p \in DOMAIN closure}
        aliases == {LexicalAlias(NameOf(n), n)} \ {None}
    IN  IF depth = 0 THEN {}
        ELSE IF ReferenceName(n) = "" THEN {[type |-> n, closure |-> closure]}
        ELSE IF bound # {}
        THEN UNION {Expanded(closure[p].type, closure[p].closure, depth - 1) : p \in bound}
        ELSE IF \A a \in aliases : ~Applies(a, n) THEN {[type |-> n, closure |-> closure]}
        ELSE UNION {Expanded(Kid(a, "typeAnnotation"), Closed(a, n, closure), depth - 1) :
                       a \in aliases}

IsGlobalNamed(n, names) == ReferenceName(n) \in names /\ IsGlobal(NameOf(n), n)

(* The type inside a built-in wrapper.                                     *)
WrappedIn(n, wrappers) ==
    IF IsGlobalNamed(n, wrappers) THEN {FirstArgument(n)} \ {None} ELSE {}

RECURSIVE MeansUnknown(_, _, _)
MeansUnknown(type, closure, depth) ==
    \E t \in Expanded(type, closure, depth) :
        \/ TypeOf(t.type) = "TSUnknownKeyword"
        \/ /\ TypeOf(t.type) = "TSUnionType"
           /\ \E k \in ToSet(Kids(t.type)) : MeansUnknown(k, t.closure, depth - 1)

(* any, or an intersection with any in it.                                 *)
RECURSIVE MeansAny(_, _, _)
MeansAny(type, closure, depth) ==
    \E t \in Expanded(type, closure, depth) :
        \/ TypeOf(t.type) = "TSAnyKeyword"
        \/ \E k \in WrappedIn(t.type, TransparentWrappers)
                      \cup {k \in ToSet(Kids(t.type)) : TypeOf(t.type) = "TSIntersectionType"} :
              MeansAny(k, t.closure, depth - 1)

(* The types that are unsafe by themselves.                                *)
IsBareUnsafe(n) ==
    \/ TypeOf(n) \in {"TSUnknownKeyword", "TSAnyKeyword", "TSObjectKeyword"}
    \/ TypeOf(n) = "TSTypeLiteral" /\ AllMembersEmpty(n)
    \/ /\ ReferenceName(n) # ""
       /\ \A d \in Referents(NameOf(n), n) : TypeOf(d) = "TSInterfaceDeclaration"
       /\ isEffectivelyEmptyInterface(Referents(NameOf(n), n))

(* unknown, any, object, {}, or a union or alias containing one of those.  *)
RECURSIVE MeansUnsafe(_, _, _)
MeansUnsafe(type, closure, depth) ==
    \E t \in Expanded(type, closure, depth) :
        LET unsafe == {k \in ToSet(Kids(t.type)) \cup WrappedIn(t.type, TransparentWrappers) :
                          MeansUnsafe(k, t.closure, depth - 1)}
        IN  \/ IsBareUnsafe(t.type) \/ MeansAny(t.type, t.closure, depth)
            \/ /\ TypeOf(t.type) = "TSUnionType" \/ IsGlobalNamed(t.type, TransparentWrappers)
               /\ unsafe # {}
            \/ TypeOf(t.type) = "TSIntersectionType" /\ unsafe = ToSet(Kids(t.type))

(* The types of a dictionary's values, as written where it is written.     *)
ValueTypes(n) ==
    CASE TypeOf(n) = "TSTypeLiteral" ->
           {Kid(m, "typeAnnotation") : m \in {k \in ToSet(KidsAs(n, "members")) :
                                                 TypeOf(k) = "TSIndexSignature"}} \ {None}
      [] TypeOf(n) = "TSMappedType" -> {Kid(n, "typeAnnotation")} \ {None}
      [] IsGlobalNamed(n, {"Record"}) /\ Len(Arguments(n)) >= 2 -> {Arguments(n)[2]}
      [] OTHER -> {}

RECURSIVE MeansUnsafeDictionary(_, _, _)
MeansUnsafeDictionary(type, closure, depth) ==
    \E t \in Expanded(type, closure, depth) :
        \/ \E k \in ValueTypes(t.type) : MeansUnsafe(k, t.closure, depth - 1)
        \/ \E k \in WrappedIn(t.type, TransparentWrappers \cup {"Pick", "Omit"}) :
              MeansUnsafeDictionary(k, t.closure, depth - 1)

IsUnsafeDictionary(n) == MeansUnsafeDictionary(n, <<>>, Depth)
IsUnknown(n) == MeansUnknown(n, <<>>, Depth)
=============================================================================
