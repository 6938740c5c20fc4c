----------------------------- MODULE LintFiles -----------------------------
(***************************************************************************)
(* Syntax trees for the instances of AntiSlop: constructors for the terms  *)
(* of a source file, and the flattening of a term into the function from   *)
(* paths to nodes that LintSyntax reads.                                   *)
(***************************************************************************)
EXTENDS Integers, Sequences

Term(type, name, kids) == [type |-> type, name |-> name, kids |-> kids]
As(role, terms) == [i \in DOMAIN terms |-> <<role, terms[i]>>]

RECURSIVE Flatten(_, _)
Flatten(role, t) ==
    LET parts == [i \in DOMAIN t.kids |-> Flatten(t.kids[i][1], t.kids[i][2])]
        paths == {<<>>} \cup UNION {{<<i>> \o p : p \in DOMAIN parts[i]} : i \in DOMAIN parts}
    IN  [p \in paths |->
            IF p = <<>> THEN [type |-> t.type, role |-> role, name |-> t.name, kids |-> Len(t.kids)]
            ELSE parts[p[1]][Tail(p)]]

SourceFile(statements) == Flatten("", Term("Program", "", As("body", statements)))

-----------------------------------------------------------------------------
(* Types                                                                   *)
KeywordType(type) == Term(type, "", <<>>)
UnknownType == KeywordType("TSUnknownKeyword")
AnyType == KeywordType("TSAnyKeyword")
ObjectType == KeywordType("TSObjectKeyword")
String == KeywordType("TSStringKeyword")
Null == KeywordType("TSNullKeyword")
Never == KeywordType("TSNeverKeyword")

Ref(name, arguments) == Term("TSTypeReference", name, As("typeArguments", arguments))
Named(name) == Ref(name, <<>>)
Union(types) == Term("TSUnionType", "", As("types", types))
Both(types) == Term("TSIntersectionType", "", As("types", types))
Parens(type) == Term("TSParenthesizedType", "", As("typeAnnotation", <<type>>))
Record(key, value) == Ref("Record", <<key, value>>)
Indexed(key, value) ==
    Term("TSIndexSignature", "", As("parameters", <<key>>) \o As("typeAnnotation", <<value>>))
LiteralType(members) == Term("TSTypeLiteral", "", As("members", members))
Field(type) == Term("TSPropertySignature", "", As("typeAnnotation", <<type>>))
OptionalField(type) == Term("TSPropertySignature", "optional", As("typeAnnotation", <<type>>))
Mapped(key, constraint, value) ==
    Term("TSMappedType", key, As("constraint", <<constraint>>) \o As("typeAnnotation", <<value>>))
IsA(name, type) == Term("TSTypePredicate", name, As("typeAnnotation", <<type>>))

TypeParameter(name, constraint, default) ==
    Term("TSTypeParameter", name, As("constraint", constraint) \o As("default", default))
Plain(name) == TypeParameter(name, <<>>, <<>>)
AliasOf(name, parameters, type) ==
    Term("TSTypeAliasDeclaration", name,
         As("typeParameters", parameters) \o As("typeAnnotation", <<type>>))
Interface(name, members) == Term("TSInterfaceDeclaration", name, As("members", members))

(* Expressions and statements                                              *)
Id(name) == Term("Identifier", name, <<>>)
One == Term("Literal", "", <<>>)
ObjectOf(properties) == Term("ObjectExpression", "", As("properties", properties))
ArrayOf(elements) == Term("ArrayExpression", "", As("elements", elements))
Grouped(e) == Term("ParenthesizedExpression", "", As("expression", <<e>>))
AsType(e, type) ==
    Term("TSAsExpression", "", As("expression", <<e>>) \o As("typeAnnotation", <<type>>))
Angled(type, e) ==
    Term("TSTypeAssertion", "", As("typeAnnotation", <<type>>) \o As("expression", <<e>>))
Call(callee, arguments) ==
    Term("CallExpression", "", As("callee", <<callee>>) \o As("arguments", arguments))
Member(object, name) == Term("MemberExpression", name, As("object", <<object>>))

Block(statements) == Term("BlockStatement", "", As("body", statements))
Do(e) == Term("ExpressionStatement", "", As("expression", <<e>>))
Return(e) == Term("ReturnStatement", "", As("argument", <<e>>))
Assign(name, e) == Do(Term("AssignmentExpression", name, As("right", <<e>>)))
Declare(kind, name, types, e) ==
    Term("VariableDeclaration", kind, As("declarations",
        <<Term("VariableDeclarator", name, As("typeAnnotation", types) \o As("init", <<e>>))>>))
Parameter(name, types) == Term("Parameter", name, As("typeAnnotation", types))
Function(kind, name, parameters, params, types, body) ==
    Term(kind, name, As("typeParameters", parameters) \o As("params", params)
                     \o As("returnType", types) \o As("body", <<body>>))
=============================================================================
