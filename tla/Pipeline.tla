------------------------------ MODULE Pipeline ------------------------------
(***************************************************************************)
(* One file in the pipeline: crates/stiles-core/src/pipeline.rs,           *)
(* tree_walker.rs and lint.rs.                                             *)
(*                                                                         *)
(* The file is parsed, every decoration provider is asked about it, the    *)
(* decorations of those that cover it are merged in turn, and the lints of *)
(* its language see its named nodes.  The decorations are a DecorationMap: *)
(* a provider that reads the tree seals it before anything is merged.      *)
(***************************************************************************)
EXTENDS DecorationMap, SequencesExt

CONSTANTS MaxNodes,    \* a bound on the nodes of a file's tree
          Language,    \* the languages of trees and of lints
          Rule,        \* rule ids
          LintLists,   \* the lists of lints a run may have
          Providers,   \* how many providers are configured
          Attached,    \* the decorations a provider may attach to a file
          MaxFound     \* a bound on the diagnostics of a file

\* A plugin declared the rules of a lint that is checked.
Lint == [language : Language, checked : BOOLEAN, rules : SUBSET Rule]

ASSUME PipelineAssumption ==
    /\ MaxNodes \in Nat \ {0} /\ Providers \in Nat /\ MaxFound \in Nat
    /\ LintLists \subseteq Seq(Lint)
    /\ 1..MaxNodes \subseteq Node /\ Attached \subseteq Entry
    /\ Providers <= MaxEntries  \* a provider attaches at most one decoration

VARIABLES language,     \* the language the file was parsed as
          depth, named, \* its tree: the nodes are numbered in the order of the text
          lints,        \* the lints of the run
          stage,        \* "parse", "consult", "merge", "walk", or how the run on the file ended
          asked,        \* how many providers have answered
          covered,      \* the decorations of those that cover the file
          gaps,         \* the providers that do not
          merged,       \* how many of `covered` are merged
          todo,         \* the nodes still to visit, the next one first
          at,           \* the position of the lint that checks the next node
          diagnostics,  \* what the walk has found
          shown         \* history: which lint was shown which node

file == <<language, depth, named, lints>>
consulted == <<asked, covered, gaps>>
walk == <<todo, at, diagnostics, shown>>
vars == <<file, stage, consulted, merged, entries, sealed, walk>>

-----------------------------------------------------------------------------
(* The tree.                                                               *)
Nodes == DOMAIN depth

\* The nodes numbered n+1..m are all below n.
Encloses(n, m) == n < m /\ \A k \in (n + 1)..m : depth[k] > depth[n]

NamedChildren(n) ==
    Ascending({m \in Nodes : Encloses(n, m) /\ depth[m] = depth[n] + 1 /\ named[m]})

IsTree(d) == d[1] = 0 /\ \A i \in 2..Len(d) : d[i] \in 1..(d[i - 1] + 1)

\* `walk_lints` keeps the lints of the tree's language, in their order.
Seeing == Ascending({i \in DOMAIN lints : lints[i].language = language})

-----------------------------------------------------------------------------
Init ==
    /\ language \in Language
    /\ \E n \in 1..MaxNodes :
           /\ depth \in {d \in [1..n -> 0..(n - 1)] : IsTree(d)}
           /\ named \in [1..n -> BOOLEAN]
    /\ lints \in LintLists
    /\ stage = "parse"
    /\ asked = 0 /\ covered = <<>> /\ gaps = <<>> /\ merged = 0
    /\ MapInit
    /\ todo = <<>> /\ at = 1 /\ diagnostics = <<>> /\ shown = <<>>

\* The file leaves the pipeline with an error: what was found is dropped.
Fails(error) ==
    /\ stage' = error
    /\ diagnostics' = <<>>
    /\ UNCHANGED <<todo, at, shown>>

Parse ==
    /\ stage = "parse"
    /\ stage' = "consult"
    /\ UNCHANGED <<file, consulted, merged, entries, sealed, walk>>

NoSyntaxTree ==
    /\ stage = "parse"
    /\ Fails("no_syntax_tree")
    /\ UNCHANGED <<file, consulted, merged, entries, sealed>>

\* A provider may read nodes of the tree, which seals its decorations.
MayRead == Lookup \/ UNCHANGED <<entries, sealed>>

Covers(decorations) ==
    /\ stage = "consult" /\ asked < Providers
    /\ MayRead
    /\ asked' = asked + 1
    /\ covered' = Append(covered, decorations)
    /\ UNCHANGED <<file, stage, gaps, merged, walk>>

DoesNotCover ==
    /\ stage = "consult" /\ asked < Providers
    /\ MayRead
    /\ asked' = asked + 1
    /\ gaps' = Append(gaps, asked + 1)
    /\ UNCHANGED <<file, stage, covered, merged, walk>>

ProviderFails ==
    /\ stage = "consult" /\ asked < Providers
    /\ MayRead
    /\ Fails("provider_failed")
    /\ UNCHANGED <<file, consulted, merged>>

\* Mistake: one gap is enough to give the file up.
GivesUpOnAGap ==
    /\ stage = "consult" /\ asked = Providers
    /\ covered = <<>> \/ gaps # <<>>
    /\ Fails("uncovered")
    /\ UNCHANGED <<file, consulted, merged, entries, sealed>>

Uncovered ==
    /\ stage = "consult" /\ asked = Providers
    /\ covered = <<>>
    /\ Fails("uncovered")
    /\ UNCHANGED <<file, consulted, merged, entries, sealed>>

MergeCovered ==
    /\ \/ stage = "consult" /\ asked = Providers
       \/ stage = "merge"
    /\ merged < Len(covered)
    /\ Merge(covered[merged + 1])
    /\ merged' = merged + 1
    /\ stage' = "merge"
    /\ UNCHANGED <<file, consulted, walk>>

\* `root_node` seals the decorations for the walk.
StartWalk ==
    /\ stage = "merge" /\ merged = Len(covered)
    /\ Lookup
    /\ stage' = "walk"
    /\ todo' = <<1>> /\ at' = 1
    /\ UNCHANGED <<file, consulted, merged, diagnostics, shown>>

-----------------------------------------------------------------------------
(* The walk: `visit_node` shows the node it is at to every lint, then goes *)
(* down to the node's named children.                                      *)
Checking ==
    /\ stage = "walk" /\ todo # <<>>
    /\ named[Head(todo)] /\ at <= Len(Seeing)

Show == shown' = Append(shown, <<Head(todo), Seeing[at]>>)

\* Mistake: what a pass reports is not held against what it declared.
TrustsThePass(found) ==
    /\ Checking
    /\ Len(diagnostics) + Len(found) <= MaxFound
    /\ Show
    /\ at' = at + 1
    /\ diagnostics' =
           diagnostics \o [i \in DOMAIN found |->
                              [node |-> Head(todo), lint |-> Seeing[at], rule |-> found[i]]]
    /\ UNCHANGED <<file, stage, consulted, merged, entries, sealed, todo>>

Stray(found) ==
    LET lint == lints[Seeing[at]]
    IN  lint.checked /\ \E i \in DOMAIN found : found[i] \notin lint.rules

CheckNode(found) ==
    /\ Checking
    /\ ~Stray(found)
    /\ Len(diagnostics) + Len(found) <= MaxFound
    /\ Show
    /\ at' = at + 1
    /\ diagnostics' =
           diagnostics \o [i \in DOMAIN found |->
                              [node |-> Head(todo), lint |-> Seeing[at], rule |-> found[i]]]
    /\ UNCHANGED <<file, stage, consulted, merged, entries, sealed, todo>>

ReportsUndeclared(found) ==
    /\ Checking
    /\ Stray(found)
    /\ Show
    /\ stage' = "undeclared" /\ diagnostics' = <<>>
    /\ UNCHANGED <<file, consulted, merged, entries, sealed, todo, at>>

Panics ==
    /\ Checking
    /\ Show
    /\ stage' = "panicked" /\ diagnostics' = <<>>
    /\ UNCHANGED <<file, consulted, merged, entries, sealed, todo, at>>

\* Mistake: the children wait for the node's siblings.
DescendsLast ==
    /\ stage = "walk" /\ todo # <<>>
    /\ ~Checking
    /\ todo' = Tail(todo) \o NamedChildren(Head(todo))
    /\ at' = 1
    /\ UNCHANGED <<file, stage, consulted, merged, entries, sealed, diagnostics, shown>>

Descend ==
    /\ stage = "walk" /\ todo # <<>>
    /\ ~Checking
    /\ todo' = NamedChildren(Head(todo)) \o Tail(todo)
    /\ at' = 1
    /\ UNCHANGED <<file, stage, consulted, merged, entries, sealed, diagnostics, shown>>

EndWalk ==
    /\ stage = "walk" /\ todo = <<>>
    /\ stage' = "ok"
    /\ UNCHANGED <<file, consulted, merged, entries, sealed, walk>>

\* What one check of a node may report.
Reports == {<<>>} \cup {<<r>> : r \in Rule} \cup {<<r, s>> : r, s \in Rule}

Next ==
    \/ Parse \/ NoSyntaxTree
    \/ Covers(<<>>)
    \/ \E d \in Attached : d.node \in Nodes /\ Covers(<<d>>)
    \/ DoesNotCover \/ ProviderFails \/ Uncovered
    \/ MergeCovered \/ StartWalk
    \/ \E found \in Reports : CheckNode(found) \/ ReportsUndeclared(found)
    \/ Panics \/ Descend \/ EndWalk

Spec == Init /\ [][Next]_vars

-----------------------------------------------------------------------------
(* The nodes the walk is for: the named ones that are reached through      *)
(* named ones only.  The root is visited whether it is named or not.       *)
Visible(n) ==
    named[n] /\ \A a \in Nodes \ {1} : Encloses(a, n) => named[a]

Expected == {n \in Nodes : Visible(n)} \X Range(Seeing)

Before(a, b) == a[1] < b[1] \/ (a[1] = b[1] /\ a[2] < b[2])

(* `visit_node` shows the visible nodes in the order of the text, each to  *)
(* every lint of the language in turn: it skips no pair and repeats none,  *)
(* wherever it is stopped, and a walk that ends well has shown them all.   *)
WalkInTextOrder ==
    /\ \A i, j \in DOMAIN shown : i < j => Before(shown[i], shown[j])
    /\ Range(shown) \subseteq Expected
    /\ shown # <<>> =>
           \A e \in Expected : Before(e, Last(shown)) => e \in Range(shown)
    /\ stage = "ok" => Range(shown) = Expected

(* While the lints see the tree, a lookup on a node answers with what the  *)
(* covering providers attached to it, in the order the providers were      *)
(* asked: nothing a provider sealed by reading the tree survives a merge.  *)
PassesSeeEveryDecoration ==
    stage = "walk" =>
        \A n \in Nodes :
            On(n) = Sitting(FlattenSeq(covered), n)

(* A file is given up as uncovered only when every provider was asked and  *)
(* each gave a gap, and then no lint has seen it; it is walked only when   *)
(* every provider answered and one covers it.                              *)
UncoveredIsUnanimous ==
    /\ stage = "uncovered" =>
           gaps = [i \in 1..Providers |-> i] /\ shown = <<>>
    /\ shown # <<>> =>
           covered # <<>> /\ Len(covered) + Len(gaps) = Providers

(* What comes out of `run_on_source` was reported by a lint of the file's  *)
(* language, about a node it was shown, under a rule its plugin declared,  *)
(* in the order of the walk.                                               *)
DiagnosticsAreDeclared ==
    /\ \A i \in DOMAIN diagnostics :
           LET d == diagnostics[i]
           IN  /\ <<d.node, d.lint>> \in Range(shown)
               /\ lints[d.lint].checked => d.rule \in lints[d.lint].rules
    /\ \A i, j \in DOMAIN diagnostics :
           i < j => ~Before(<<diagnostics[j].node, diagnostics[j].lint>>,
                            <<diagnostics[i].node, diagnostics[i].lint>>)
=============================================================================
