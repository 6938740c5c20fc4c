------------------------------ MODULE LintWalk ------------------------------
(***************************************************************************)
(* The linter's walk over one file after the other: it calls every rule on *)
(* every node of a syntax tree, in source order.  The rules are created    *)
(* once for all files, so the type environment they keep lives on from one *)
(* file to the next; the Program handler renews it.  A rule that throws    *)
(* ends the linting of its file.                                           *)
(*                                                                         *)
(* Here the environment is that of the plugin, and so are two rules,       *)
(* no-chained-type-assertions and no-reduce-accumulator-copy; the others   *)
(* say anything at all (AnyRules).  AntiSlop has them.                     *)
(***************************************************************************)
EXTENDS TypeNames, AssertionChains, ArrayRules

CONSTANT Batches        \* the sequences of files that one run of the linter may see

Trees == UNION {ToSet(batch) : batch \in Batches}
ASSUME NoneAssumption == None # <<>>
ASSUME BatchesAssumption == Batches \subseteq Seq(Trees) /\ \A tree \in Trees : IsSyntaxTree(tree)

VARIABLES
    queue,      \* the files still to be linted
    visiting,   \* the node of the file to be visited next; None after the last
    reports,    \* what the rules have reported on the file
    failed      \* whether a rule threw on the file

vars == <<file, environment, queue, visiting, reports, failed>>

(* Source order: a node comes before its children, they before its right.  *)
Following(n) ==
    LET right == {k \in 1 .. Len(n) : n[k] < file[Up(n, k - 1)].kids}
    IN  IF file[n].kids > 0 THEN Append(n, 1)
        ELSE IF right = {} THEN None
        ELSE Append(Up(n, Max(right) - 1), n[Max(right)] + 1)

EmptyFile == [n \in {<<>>} |-> [type |-> "Program", role |-> "", name |-> "", kids |-> 0]]

Tagged(rule, said) == {[rule |-> rule, node |-> r[1], data |-> r[2]] : r \in said}
SaidBy(rule, said) == {r \in said : r.rule = rule}

(* What is said here of a node, and which part of what is said that is.    *)
RulesHere == {"no-chained-type-assertions", "no-reduce-accumulator-copy"}
SaidHere(said) == {r \in said : r.rule \in RulesHere}
VerdictsHere(n) == Tagged("no-chained-type-assertions", noChainedTypeAssertions(n))
                   \cup Tagged("no-reduce-accumulator-copy", noReduceAccumulatorCopy(n))

Threw(said) == \E r \in said : r.data = Overflow

-----------------------------------------------------------------------------
Init ==
    /\ queue \in Batches
    /\ file = EmptyFile
    /\ environment = [bindings |-> {}, interfaces |-> {}]
    /\ visiting = None
    /\ reports = {}
    /\ failed = FALSE

(* The linter opens the next file; the rules are not told.                 *)
OpenFile ==
    /\ visiting = None
    /\ queue # <<>>
    /\ file' = Head(queue)
    /\ queue' = Tail(queue)
    /\ visiting' = <<>>
    /\ reports' = {}
    /\ failed' = FALSE
    /\ UNCHANGED environment

(* Mutant: the environment is made for the first file only.                *)
KeepEnvironment ==
    /\ visiting = <<>>
    /\ environment' = IF environment.bindings = {} THEN createTypeEnvironment ELSE environment
    /\ visiting' = Following(<<>>)
    /\ UNCHANGED <<file, queue, reports, failed>>

(* The rules' Program handlers.                                            *)
VisitProgram ==
    /\ visiting = <<>>
    /\ environment' = createTypeEnvironment
    /\ visiting' = Following(<<>>)
    /\ UNCHANGED <<file, queue, reports, failed>>

(* The rules' handlers for any other node.                                 *)
Visit(n, said) ==
    /\ ~Threw(said)
    /\ reports' = reports \cup said
    /\ visiting' = Following(n)
    /\ UNCHANGED <<file, environment, queue, failed>>

(* A handler throws: the rest of the file is not linted.                   *)
Throw(said) ==
    /\ Threw(said)
    /\ visiting' = None
    /\ failed' = TRUE
    /\ UNCHANGED <<file, environment, queue, reports>>

NextNode == {visiting} \ {None, <<>>}

AnyRules ==
    \/ OpenFile
    \/ VisitProgram
    \/ \E n \in NextNode : \E said :
          /\ SaidHere(said) = VerdictsHere(n)
          /\ Visit(n, said) \/ Throw(said)

Walk == Init /\ [][AnyRules]_vars

-----------------------------------------------------------------------------
Linted == visiting = None /\ ~failed
ReportedBy(rule) == {r.node : r \in SaidBy(rule, reports)}

(* A type reference is expanded to the alias TypeScript means, or not at    *)
(* all, and always when no type parameter has the name: whichever files    *)
(* were linted before.  (visibleTypeAlias: "the nearest visible alias with *)
(* this name, respecting lexical shadowing".)                              *)
NamesAreLexical ==
    visiting = None => \A n \in {m \in Nodes : ReferenceName(m) # ""} :
        LET alias == visibleTypeAlias(NameOf(n), n)
            meant == LexicalAlias(NameOf(n), n)
        IN  \/ alias = meant
            \/ alias = None /\ ParameterBinders(NameOf(n), n) # {}

(* Of the assertions directly inside one another, one is reported if they   *)
(* are several and not all const assertions, and none otherwise.           *)
ChainedWith(m, n) == unwrapParenthesizedExpression(Kid(m, "expression")) = n

ChainReportedOnce ==
    Linted =>
        LET assertions == {n \in Nodes : TypeOf(n) \in Assertions}
            tops == {n \in assertions : ~ \E m \in assertions : ChainedWith(m, n)}
            Chain(top) == {n \in assertions :
                              /\ IsPrefix(top, n)
                              /\ \A a \in Ancestors(n) : IsPrefix(top, a) =>
                                    TypeOf(a) \in Assertions \cup {"ParenthesizedExpression"}
                              /\ \A k \in Len(top) + 1 .. Len(n) :
                                    RoleOf(Up(n, k)) = "expression"}
        IN  \A top \in tops :
               Cardinality(Chain(top) \cap ReportedBy("no-chained-type-assertions")) =
                   IF /\ Cardinality(Chain(top)) > 1
                      /\ \E n \in Chain(top) : ReferenceName(Kid(n, "typeAnnotation")) # "const"
                   THEN 1 ELSE 0

(* The variables that stand for a reducer's accumulator: itself and consts  *)
(* that nothing writes again, initialised with one of them.                *)
StandIns(accumulator) ==
    LET standIns[i \in Nat] ==
            IF i = 0 THEN {accumulator}
            ELSE LET fewer == standIns[i - 1]
                 IN  fewer \cup
                     {{d} : d \in {c \in Nodes :
                         /\ TypeOf(c) = "VariableDeclarator" /\ NameOf(Parent(c)) = "const"
                         /\ Kid(c, "init") # None
                         /\ resolveArrayBinding(Kid(c, "init")) \in fewer
                         /\ ~IsReassigned({c})}}
    IN  standIns

StandInsFor(accumulator) == StandIns(accumulator)[Cardinality(Nodes)]

(* A call of a method that copies its array (concat, slice, ...; not of     *)
(* Array.from or Object.assign) is reported inside a reducer exactly if the *)
(* array stands for the accumulator and the reducer started from an array. *)
CopiesAreOfTheAccumulator ==
    Linted => \A n \in {m \in Nodes : TypeOf(m) = "CallExpression" /\ enclosingReducer(m) # None} :
        LET method == arrayMethodTarget(Kid(n, "callee"))
            reducer == enclosingReducer(n)
            start == reducer.initialValue
        IN  (IF method = None THEN FALSE ELSE method.name \in CopyMethods) =>
              ((n \in ReportedBy("no-reduce-accumulator-copy")) <=>
                  /\ resolveArrayBinding(method.object) \in StandInsFor(reducer.accumulator)
                  /\ start # None
                  /\ isKnownArrayExpression(start))
=============================================================================
