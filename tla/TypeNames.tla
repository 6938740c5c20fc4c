----------------------------- MODULE TypeNames -----------------------------
(***************************************************************************)
(* Which declaration the name of a type refers to: as the rules look it up *)
(* in the environment they made of the file (type-alias-resolution.ts,     *)
(* lexical-type-parameters.ts and the start of dictionary-types.ts of the  *)
(* plugin's shared code), and as TypeScript does.                          *)
(***************************************************************************)
EXTENDS LintSyntax

VARIABLE environment    \* the rules' closures: bindings and interfaces of a file

TypeScopes == {"Program", "BlockStatement", "TSModuleBlock", "StaticBlock", "SwitchStatement"}

enclosingTypeScope(n) ==
    LET scope == Nearest(n, TypeScopes) IN IF scope = None THEN n ELSE scope

Alias == "TSTypeAliasDeclaration"

DeclaresType(n) ==
    /\ TypeOf(n) \in {Alias, "TSInterfaceDeclaration", "TSEnumDeclaration",
                      "ClassDeclaration", "ClassExpression", "ImportSpecifier",
                      "ImportDefaultSpecifier", "ImportNamespaceSpecifier"}
    /\ NameOf(n) # ""

(* Every declaration of a type in the tree, with the scope it belongs to.  *)
collectTypeBindings ==
    {[node |-> n, name |-> NameOf(n), scope |-> enclosingTypeScope(n),
      alias |-> IF TypeOf(n) = Alias THEN n ELSE None] :
        n \in {m \in Nodes : DeclaresType(m)}}

-----------------------------------------------------------------------------
(* Names bound by type parameters, mapped-type keys and infer around n.    *)
collectInferTypeParameterNames(n) ==
    {NameOf(m) : m \in {d \in Within(n) : TypeOf(d) = "TSInferType"}}

(* The names that a, on the path to n, binds for what hangs below it at n. *)
BoundBy(a, n) ==
    LET below == IF a = n THEN "" ELSE RoleOf(Up(n, Len(a) + 1))
    IN  {NameOf(p) : p \in ChildrenAs(a, "typeParameters")}
        \cup (IF TypeOf(a) = "TSMappedType" /\ below \in {"nameType", "typeAnnotation"}
              THEN {NameOf(a)} ELSE {})
        \cup (IF TypeOf(a) = "TSConditionalType" /\ below = "trueType"
              THEN collectInferTypeParameterNames(Kid(a, "extendsType")) ELSE {})

lexicalTypeParameterNames(n) ==
    UNION {BoundBy(a, n) : a \in {b \in Ancestors(n) \cup {n} : TypeOf(b) # "Program"}}

(* The bindings of the name in the nearest scope around the use.           *)
nearestTypeBindings(name, use) ==
    LET candidates == {b \in environment.bindings :
                          b.name = name /\ IsPrefix(b.scope, use)}
        nearest == Deepest({b.scope : b \in candidates})
    IN  {b \in candidates : b.scope = nearest}

visibleTypeAlias(name, use) ==
    LET bindings == nearestTypeBindings(name, use)
    IN  IF name \in lexicalTypeParameterNames(use) \/ Cardinality(bindings) # 1 THEN None
        ELSE (CHOOSE b \in bindings : TRUE).alias

hasVisibleTypeBinding(name, use) ==
    \/ name \in lexicalTypeParameterNames(use)
    \/ nearestTypeBindings(name, use) # {}

-----------------------------------------------------------------------------
(* The interfaces of the program's own statements, exported or not.        *)
TopLevelInterfaces ==
    {n \in Nodes : /\ TypeOf(n) = "TSInterfaceDeclaration"
                   /\ \A a \in Ancestors(n) :
                         TypeOf(a) \in {"Program", "ExportNamedDeclaration",
                                        "ExportDefaultDeclaration"}}

createTypeEnvironment ==
    [bindings |-> collectTypeBindings, interfaces |-> TopLevelInterfaces]

-----------------------------------------------------------------------------
(* What TypeScript means by a name: it is bound by the innermost parameter *)
(* list or scope around the use that declares it.                          *)
DeclarationsOf(name) == {n \in Nodes : DeclaresType(n) /\ NameOf(n) = name}
ParameterBinders(name, use) == {a \in Ancestors(use) : name \in BoundBy(a, use)}
Binder(name, use) ==
    Deepest(ParameterBinders(name, use)
            \cup {enclosingTypeScope(d) : d \in
                    {e \in DeclarationsOf(name) : enclosingTypeScope(e) \in Ancestors(use)}})

IsGlobal(name, use) == Binder(name, use) = None

(* The declarations, or the type parameter, that a name refers to at use.  *)
Referents(name, use) ==
    LET at == Binder(name, use)
    IN  IF at = None THEN {}
        ELSE IF at \in ParameterBinders(name, use)
        THEN {p \in ChildrenAs(at, "typeParameters") : NameOf(p) = name}
        ELSE {d \in DeclarationsOf(name) : enclosingTypeScope(d) = at}

LexicalAlias(name, use) ==
    LET referents == Referents(name, use)
    IN  IF \E d \in referents : referents = {d} /\ TypeOf(d) = Alias
        THEN CHOOSE d \in referents : TRUE ELSE None
=============================================================================
