----------------------------- MODULE LintSyntax -----------------------------
(***************************************************************************)
(* What the anti-slop lint rules of the assets worker read: one file's     *)
(* syntax tree, as Oxlint hands it to a JavaScript plugin, and the         *)
(* variables its scope manager resolves.  Both are external to the plugin. *)
(*                                                                         *)
(* A node is its path from the Program node <<>>: the i-th child of n is   *)
(* Append(n, i), its parent is n without the last step, and the order of   *)
(* the source text is the lexicographic order of paths.  file[n] gives the *)
(* node's type, the property of its parent that holds it (role), its name  *)
(* (an identifier, an operator, a modifier, or "") and its children.       *)
(***************************************************************************)
EXTENDS Integers, Sequences, FiniteSets, SequencesExt, TLC

CONSTANT None       \* null and undefined

VARIABLE file       \* the syntax tree being linted

Overflow == "overflow"  \* said of a node whose visit throws a RangeError

Nodes == DOMAIN file
TypeOf(n) == file[n].type
NameOf(n) == file[n].name
RoleOf(n) == file[n].role

Up(n, k) == SubSeq(n, 1, k)
Parent(n) == Up(n, Len(n) - 1)
Ancestors(n) == {Up(n, k) : k \in 0 .. Len(n) - 1}
Within(n) == {m \in Nodes : IsPrefix(n, m)}

Kids(n) == [i \in 1 .. file[n].kids |-> Append(n, i)]

(* The children that a property of n holds: their places among the kids,   *)
(* the children as a set, as a sequence, and the first of them.            *)
HeldAs(n, role) == {i \in 1 .. file[n].kids : RoleOf(Append(n, i)) = role}
ChildrenAs(n, role) == {Append(n, i) : i \in HeldAs(n, role)}
Nth(held, i) == CHOOSE k \in held : Cardinality({j \in held : j <= k}) = i
KidsAs(n, role) ==
    [i \in 1 .. Cardinality(HeldAs(n, role)) |-> Append(n, Nth(HeldAs(n, role), i))]
Kid(n, role) == IF HeldAs(n, role) = {} THEN None ELSE Append(n, Min(HeldAs(n, role)))

(* The nearest of a set of enclosing nodes, None if there is none.         *)
Deepest(ns) ==
    IF ns = {} THEN None ELSE CHOOSE n \in ns : \A m \in ns : Len(m) <= Len(n)

Nearest(n, types) == Deepest({a \in Ancestors(n) : TypeOf(a) \in types})

(* m starts after n has ended.                                             *)
StartsAfter(m, n) ==
    \E k \in 1 .. Len(m) : k <= Len(n) /\ Up(m, k - 1) = Up(n, k - 1) /\ m[k] > n[k]

First(ns) == CHOOSE n \in ns : \A m \in ns \ {n} : StartsAfter(m, n)

Assertions == {"TSAsExpression", "TSTypeAssertion"}
ExpressionWrappers ==
    Assertions \cup {"ParenthesizedExpression", "TSNonNullExpression", "TSSatisfiesExpression"}

ReferenceName(n) == IF TypeOf(n) = "TSTypeReference" THEN NameOf(n) ELSE ""

(* What a wrapper wraps: an expression, or a type.                         *)
Wrapped(n) == IF Kid(n, "expression") # None THEN Kid(n, "expression") ELSE Kid(n, "typeAnnotation")

(* The node inside every wrapper of one of these types.                    *)
Unwrap(n, wrappers) ==
    IF TypeOf(n) \notin wrappers THEN n
    ELSE CHOOSE m \in Within(n) :
            /\ TypeOf(m) \notin wrappers
            /\ \A k \in Len(n) .. Len(m) - 1 :
                  TypeOf(Up(m, k)) \in wrappers /\ Up(m, k + 1) = Wrapped(Up(m, k))

(* Two nodes with the same text but for white space.                       *)
SameText(m, n) ==
    /\ {SubSeq(d, Len(m) + 1, Len(d)) : d \in Within(m)}
         = {SubSeq(d, Len(n) + 1, Len(d)) : d \in Within(n)}
    /\ \A d \in Within(m) :
          LET e == n \o SubSeq(d, Len(m) + 1, Len(d))
          IN  TypeOf(d) = TypeOf(e) /\ NameOf(d) = NameOf(e)

-----------------------------------------------------------------------------
FunctionTypes == {"ArrowFunctionExpression", "FunctionDeclaration", "FunctionExpression"}
VariableScopes == FunctionTypes \cup {"Program", "BlockStatement"}
VariableDefinitions == {"VariableDeclarator", "Parameter", "FunctionDeclaration"}

(* What the trees of the parser are like, as far as proofs rely on it: the *)
(* nodes form a finite tree with the only Program at its root, a Program   *)
(* and a type reference have no type parameters, parentheses hold nothing  *)
(* but one expression, and an assertion holds one; and nothing else in its *)
(* scope has the name of a const, which would be a syntax error.           *)
IsSyntaxTree(tree) ==
    LET nodes == DOMAIN tree
        IsScope(n) == tree[n].type \in VariableScopes
        ShareScope(c, d) ==
            \E k \in 0 .. Len(c) - 1 :
                /\ k < Len(d) /\ Up(c, k) = Up(d, k) /\ IsScope(Up(c, k))
                /\ \A j \in k + 1 .. Len(c) - 1 : ~IsScope(Up(c, j))
                /\ \A j \in k + 1 .. Len(d) - 1 : ~IsScope(Up(d, j))
        Holds(n, role) == {i \in 1 .. tree[n].kids : tree[Append(n, i)].role = role}
    IN  /\ IsFiniteSet(nodes) /\ nodes \subseteq Seq(Nat \ {0})
        /\ <<>> \in nodes /\ None \notin nodes
        /\ \A n \in nodes : /\ tree[n].kids \in Nat
                           /\ \A i \in 1 .. tree[n].kids : Append(n, i) \in nodes
        /\ \A n \in nodes \ {<<>>} :
              /\ Up(n, Len(n) - 1) \in nodes
              /\ n[Len(n)] <= tree[Up(n, Len(n) - 1)].kids
        /\ \A n \in nodes :
              /\ tree[n].type = "Program" <=> n = <<>>
              /\ tree[n].type \in {"Program", "TSTypeReference"} => Holds(n, "typeParameters") = {}
              /\ tree[n].type = "ParenthesizedExpression" => /\ tree[n].kids = 1
                                                             /\ Holds(n, "expression") = {1}
              /\ tree[n].type \in Assertions => \E i \in 1 .. tree[n].kids : Holds(n, "expression") = {i}
        /\ \A c, d \in nodes :
              /\ tree[c].type = "VariableDeclarator" /\ tree[Up(c, Len(c) - 1)].name = "const"
              /\ tree[d].type \in VariableDefinitions /\ tree[d].name = tree[c].name
              /\ ShareScope(c, d)
              => c = d

-----------------------------------------------------------------------------
(* The scope manager: a variable is the set of nodes that define it.       *)
DefinesVariable(n) == TypeOf(n) \in VariableDefinitions

ScopeOf(n) == Nearest(n, VariableScopes)

resolveVariable(name, use) ==
    LET visible == {d \in Nodes : /\ DefinesVariable(d) /\ NameOf(d) = name
                                  /\ ScopeOf(d) \in Ancestors(use)}
        scope == Deepest({ScopeOf(d) : d \in visible})
    IN  {d \in visible : ScopeOf(d) = scope}

(* A write that is not the initializer: an assignment to the variable.     *)
IsReassigned(variable) ==
    \E n \in Nodes : /\ TypeOf(n) = "AssignmentExpression"
                     /\ resolveVariable(NameOf(n), n) = variable
=============================================================================
