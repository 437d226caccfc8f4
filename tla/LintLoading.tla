---------------------------- MODULE LintLoading ----------------------------
(***************************************************************************)
(* One run of stiles from its configuration to the passes of a file:       *)
(* crates/stiles/src/custom_lints.rs with its handshake, abi_tag and       *)
(* artifact modules, the rule filter and the rule options.                 *)
(*                                                                         *)
(* Every configured entry is resolved to a directory before anything is    *)
(* compiled.  Each directory is then built, or read as it is when a        *)
(* publisher built it, and every library it yields completes a handshake   *)
(* of three reads and one call before its lints count.  Last, the lints    *)
(* are checked against each other and against the rules the project names. *)
(*                                                                         *)
(* How a git entry is obtained, and what other processes do to the cache   *)
(* meanwhile, is the subject of LintCache; here it is a choice among the   *)
(* directories the entry can resolve to.                                   *)
(***************************************************************************)
EXTENDS Naturals, Sequences, FiniteSets

CONSTANTS
    Package,      \* the lint packages, numbered in the order of their paths
    Cdylib,       \* those that build a dynamic library
    Dir,          \* the directories an entry can resolve to
    Members,      \* the packages whose manifest is in or under each directory,
                  \* or whose library a publisher packed into it
    Builds,       \* the packages that a plain `cargo build` there compiles: those
                  \* it selects, which excluded ones, other workspaces and members
                  \* that are not default are not, and their dependencies
    FileName,     \* the place of each library in the order of file names
    Entry,        \* the `[[lints]]` entries: each the set of what it can
                  \* resolve to, one element for a path, several for a pin
    MaxEntries,   \* bound: the entries of a configuration
    MaxMessages,  \* bound: the artifacts one build of cargo reports
    Language,     \* the languages a lint can run on
    Name,         \* the rule ids that plugins declare and projects write
    Export,       \* the lists of lints a plugin can export
    Identity      \* the identities a stiles or a plugin can be built with

Contents == {"Sources", "Libraries"}
Resolved == [dir : Dir, contents : Contents]
AbiVersion == [major : Nat, minor : Nat]
AbiIdentity == [abi_version : AbiVersion, types : Nat, language : Nat]
PluginLint == [language : Language, rules : SUBSET Name]

ASSUME PackageAssumption == Package \subseteq Nat /\ Cdylib \subseteq Package
ASSUME DirAssumption == Members \in [Dir -> SUBSET Package] /\ Builds \in [Dir -> SUBSET Package]
ASSUME FileNameAssumption == FileName \in [Cdylib -> Nat]
ASSUME EntryAssumption == \A e \in Entry : e \subseteq Resolved
ASSUME BoundAssumption == MaxEntries \in Nat /\ MaxMessages \in Nat
ASSUME ExportAssumption == Export \subseteq Seq(PluginLint)
ASSUME IdentityAssumption == Identity \subseteq AbiIdentity

VARIABLES
    pc,        \* the step the run is about to take
    host,      \* the `AbiIdentity` of the binary that runs
    entries,   \* `config.lints()`
    exports,   \* what the library of each package exports
    filter,    \* the `RuleFilter` of the project
    options,   \* the rules that `[rules.options]` configures
    sources,   \* the entries resolved so far, in order
    built,     \* the directories cargo was run in
    at,        \* the number of the source being loaded
    todo,      \* its libraries that have yet to be loaded
    plugin,    \* the `AbiIdentity` of the last library opened
    reads,     \* the fields of its declaration that were read
    lints,     \* the lints loaded so far
    passes     \* the options each pass of the file was configured with

config == <<host, entries, exports>>
settings == <<filter, options>>
library == <<at, todo, plugin, reads>>
vars == <<pc, config, settings, sources, built, library, lints, passes>>

-----------------------------------------------------------------------------
(* AbiVersion: an order that compares the major first, and the range of    *)
(* versions a stiles reads.                                                *)

LessEq(a, b) ==
    \/ a.major < b.major
    \/ a.major = b.major /\ a.minor <= b.minor

\* Mistake: the floor of a major is its first minor, before 1.0 too.
FloorOfTheMajor(v) == [v EXCEPT !.minor = 0]

Floor(v) == IF v.major = 0 THEN v ELSE [v EXCEPT !.minor = 0]

Accepts(v, p) == LessEq(Floor(v), p) /\ LessEq(p, v)

\* `AbiTag::new`.  The digest is taken to be free of collisions, and the
\* target, which a run never changes, is left out.
AbiTag(id) == <<Floor(id.abi_version), id.types, id.language>>

\* Mistake: the language crate is not compared.
ValidateTypes(h, p) ==
    Accepts(h.abi_version, p.abi_version) /\ h.types = p.types

\* `validate`: the checks of the handshake, the version again among them.
Validate(h, p) ==
    /\ Accepts(h.abi_version, p.abi_version)
    /\ h.types = p.types
    /\ h.language = p.language

-----------------------------------------------------------------------------
(* RuleFilter, and what a set of loaded lints declares.                    *)

Kinds == {"All", "Only", "Except"}
RuleFilter == [kind : Kinds, names : SUBSET Name]

NewFilter(enable, disable) ==
    CASE enable # {} -> [kind |-> "Only", names |-> enable]
      [] disable # {} -> [kind |-> "Except", names |-> disable]
      [] OTHER -> [kind |-> "All", names |-> {}]

Declared == UNION {lints[i].rules : i \in DOMAIN lints}

\* `refuse_shared_rules`
SharedRule(ls) ==
    \E i \in DOMAIN ls : \E j \in i + 1 .. Len(ls) :
        /\ ls[i].language = ls[j].language
        /\ ls[i].rules \cap ls[j].rules # {}

-----------------------------------------------------------------------------
BoundedSeq(S, n) == UNION {[1 .. k -> S] : k \in 0 .. n}
RangeOf(s) == {s[i] : i \in DOMAIN s}
NoIdentity == [abi_version |-> [major |-> 0, minor |-> 0], types |-> 0, language |-> 0]

Init ==
    /\ pc = "config"
    /\ host \in Identity
    /\ entries \in BoundedSeq(Entry, MaxEntries)
    /\ exports \in [Cdylib -> Export]
    /\ filter = NewFilter({}, {})
    /\ options = {}
    /\ sources = <<>>
    /\ built = {}
    /\ at = 1
    /\ todo = {}
    /\ plugin = NoIdentity
    /\ reads = {}
    /\ lints = <<>>
    /\ passes = <<>>

\* Every error ends the run; the name says which.
Failure == {"config!", "resolve!", "twice!", "build!", "empty!", "open!",
            "handshake!", "panic!", "hollow!", "shared!", "names!", "pass!"}
Fail(why) == pc' = why

\* `read_options` flattens the tables of the rules into one list of options,
\* in which an empty table leaves nothing.
Table == [Name -> {"absent", "empty", "filled"}]
ReadOptions(table) == {n \in Name : table[n] = "filled"}

\* `StilesConfig::load`: a file that cannot be read, or that fills in both
\* lists, is refused.
ReadConfig ==
    /\ pc = "config"
    /\ \E enable, disable \in SUBSET Name, table \in Table :
         IF enable # {} /\ disable # {}
           THEN Fail("config!") /\ UNCHANGED settings
           ELSE /\ filter' = NewFilter(enable, disable)
                /\ options' = ReadOptions(table)
                /\ pc' = "resolve"
    /\ UNCHANGED <<config, sources, built, library, lints, passes>>

(* `configured_sources` *)

\* The directory was resolved to its canonical form, so it is `seen` however
\* the entry spelled it.
Admit(r) ==
    IF r.dir \in {sources[i].dir : i \in DOMAIN sources}
      THEN Fail("twice!") /\ UNCHANGED sources
      ELSE sources' = Append(sources, r) /\ pc' = "resolve"

\* An entry can also fail to resolve: to a directory at all, to one that
\* exists, or to one that holds a `Cargo.toml`.
Resolve ==
    /\ pc = "resolve"
    /\ Len(sources) < Len(entries)
    /\ \/ \E r \in entries[Len(sources) + 1] : Admit(r)
       \/ Fail("resolve!") /\ UNCHANGED sources
    /\ UNCHANGED <<config, settings, built, library, lints, passes>>

ResolvedAll ==
    /\ pc = "resolve"
    /\ Len(sources) = Len(entries)
    /\ pc' = "load"
    /\ UNCHANGED <<config, settings, sources, built, library, lints, passes>>

(* `load_sources` and `load_prebuilt` *)

\* Mistake: a library counts wherever its package is.
ArtifactsAnywhere(messages, d) == RangeOf(messages) \cap Cdylib

\* `cdylib_artifacts`: the libraries that cargo reports, in any order and more
\* than once, of packages under the directory.
CdylibArtifacts(messages, d) == RangeOf(messages) \cap Cdylib \cap Members[d]

Source == sources[at]

\* Cargo reports what it compiled, and what it had compiled before.
Build ==
    /\ pc = "load"
    /\ at <= Len(sources)
    /\ Source.contents = "Sources"
    /\ built' = built \cup {Source.dir}
    /\ \/ \E messages \in BoundedSeq(Builds[Source.dir], MaxMessages) :
            /\ RangeOf(messages) = Builds[Source.dir]
            /\ LET found == CdylibArtifacts(messages, Source.dir)
               IN  IF found = {}
                     THEN Fail("build!") /\ UNCHANGED todo
                     ELSE pc' = "open" /\ todo' = found
       \/ Fail("build!") /\ UNCHANGED todo
    /\ UNCHANGED <<config, settings, sources, at, plugin, reads, lints, passes>>

\* The directory holds what the publisher packed, or nothing.
ListPrebuilt ==
    /\ pc = "load"
    /\ at <= Len(sources)
    /\ Source.contents = "Libraries"
    /\ \E found \in {{}, Members[Source.dir] \cap Cdylib} :
         IF found = {}
           THEN Fail("empty!") /\ UNCHANGED todo
           ELSE pc' = "open" /\ todo' = found
    /\ UNCHANGED <<config, settings, sources, built, at, plugin, reads, lints, passes>>

(* `load_library`, for the libraries of a directory in order *)

\* What was built is kept by manifest path, an archive is sorted by file name.
Rank(s, p) == IF s.contents = "Sources" THEN p ELSE FileName[p]

First(S) == CHOOSE p \in S : \A q \in S : Rank(Source, p) <= Rank(Source, q)

\* The library is opened and its version read.  It may not open, and may
\* export no declaration.
Open ==
    /\ pc = "open"
    /\ todo # {}
    /\ \/ \E id \in Identity :
            /\ plugin' = id
            /\ reads' = {"abi_version"}
            /\ IF Accepts(host.abi_version, id.abi_version)
                 THEN pc' = "handshake"
                 ELSE Fail("handshake!")
       \/ Fail("open!") /\ UNCHANGED <<plugin, reads>>
    /\ UNCHANGED <<config, settings, sources, built, at, todo, lints, passes>>

Handshake ==
    /\ pc = "handshake"
    /\ reads' = reads \cup {"types_fingerprint", "language_fingerprint"}
    /\ IF Validate(host, plugin) THEN pc' = "list" ELSE Fail("handshake!")
    /\ UNCHANGED <<config, settings, sources, built, at, todo, plugin, lints, passes>>

\* A lint as stiles keeps it: with the library it came from.
Loaded(ls, lib) ==
    [i \in DOMAIN ls |-> [language |-> ls[i].language, rules |-> ls[i].rules,
                          library |-> lib]]

\* Mistake: a lint that declares no rule is let in.
NoLints(ls) == ls = <<>>

\* A plugin without lints, or with a lint without rules.
Hollow(ls) == ls = <<>> \/ \E i \in DOMAIN ls : ls[i].rules = {}

\* `load` of the declaration is read and called; the plugin may panic.
CallLoad ==
    /\ pc = "list"
    /\ reads' = reads \cup {"load"}
    /\ LET p == First(todo)
           ls == exports[p]
       IN  \/ Fail("panic!") /\ UNCHANGED <<todo, lints>>
           \/ /\ Hollow(ls)
              /\ Fail("hollow!")
              /\ UNCHANGED <<todo, lints>>
           \/ /\ ~Hollow(ls)
              /\ lints' = lints \o Loaded(ls, <<Source.dir, p>>)
              /\ todo' = todo \ {p}
              /\ pc' = "open"
    /\ UNCHANGED <<config, settings, sources, built, at, plugin, passes>>

NextSource ==
    /\ pc = "open"
    /\ todo = {}
    /\ at' = at + 1
    /\ pc' = "load"
    /\ UNCHANGED <<config, settings, sources, built, todo, plugin, reads, lints, passes>>

RefuseSharedRules ==
    /\ pc = "load"
    /\ at > Len(sources)
    /\ IF SharedRule(lints) THEN Fail("shared!") ELSE pc' = "loaded"
    /\ UNCHANGED <<config, settings, sources, built, library, lints, passes>>

(* The check command goes on to the names the project wrote.  The rules    *)
(* command stops at "loaded", and lists each declared rule with the        *)
(* language of every lint that declares it.                                *)

\* Mistake: only the names of the filter are checked.
FilterNamesOnly == filter.names \subseteq Declared

NamesAreDeclared == filter.names \subseteq Declared /\ options \subseteq Declared

ValidateNames ==
    /\ pc = "loaded"
    /\ IF NamesAreDeclared THEN pc' = "instantiate" ELSE Fail("names!")
    /\ UNCHANGED <<config, settings, sources, built, library, lints, passes>>

\* `RuleOptions::for_rules`
ForRules(rules) == options \cap rules

\* `instantiate`: one pass for each lint, in the order of the lints.  A pass
\* may panic while it is constructed or configured.
Instantiate ==
    /\ pc = "instantiate"
    /\ Len(passes) < Len(lints)
    /\ \/ /\ passes' = Append(passes, ForRules(lints[Len(passes) + 1].rules))
          /\ UNCHANGED pc
       \/ Fail("pass!") /\ UNCHANGED passes
    /\ UNCHANGED <<config, settings, sources, built, library, lints>>

Ready ==
    /\ pc = "instantiate"
    /\ Len(passes) = Len(lints)
    /\ pc' = "ready"
    /\ UNCHANGED <<config, settings, sources, built, library, lints, passes>>

\* The run is over, or goes on to the files.
Ended ==
    /\ pc \in {"ready"} \cup Failure
    /\ UNCHANGED vars

Next ==
    \/ ReadConfig \/ Resolve \/ ResolvedAll
    \/ Build \/ ListPrebuilt \/ Open \/ Handshake \/ CallLoad \/ NextSource
    \/ RefuseSharedRules \/ ValidateNames \/ Instantiate \/ Ready
    \/ Ended

Spec == Init /\ [][Next]_vars

-----------------------------------------------------------------------------
Field == {"abi_version", "types_fingerprint", "language_fingerprint", "load"}
LoadedLint == [language : Language, rules : SUBSET Name, library : Dir \X Package]

\* The state of one run of the loader.
TypeOK ==
    /\ pc \in {"config", "resolve", "load", "open", "handshake", "list", "loaded",
               "instantiate", "ready"} \cup Failure
    /\ host \in Identity
    /\ entries \in BoundedSeq(Entry, MaxEntries)
    /\ exports \in [Cdylib -> Export]
    /\ filter \in RuleFilter
    /\ options \in SUBSET Name
    /\ sources \in Seq(Resolved)
    /\ built \in SUBSET Dir
    /\ at \in Nat \ {0}
    /\ todo \in SUBSET Cdylib
    /\ plugin \in AbiIdentity
    /\ reads \in SUBSET Field
    /\ lints \in Seq(LoadedLint)
    /\ passes \in Seq(SUBSET Name)

\* What a plugin lays out the way the host reads it, said without an order on
\* versions.  Each minor before 1.0 is a protocol of its own, and a major is
\* one protocol that only grows: a plugin built for a later minor needs a
\* host that knows more.  The fingerprints vouch for everything behind `load`.
SameProtocol(h, p) ==
    \/ h = p
    \/ h.major = p.major /\ h.major # 0 /\ p.minor <= h.minor

LaidOut(h, p) ==
    {"abi_version"} \cup
    (IF ~SameProtocol(h.abi_version, p.abi_version) THEN {}
     ELSE IF h.types = p.types /\ h.language = p.language THEN Field
     ELSE Field \ {"load"})

\* `load_library` reads a field, and calls `load`, only of a plugin that
\* exports it where this binary looks for it, whatever the plugin is.
ReadsOnlyWhatIsThere == reads \subseteq LaidOut(host, plugin)

\* An archive under the host's own tag fails the handshake for one reason
\* alone: a later minor of a major from 1.0 on wrote it.  (abi_tag.rs, "with
\* one exception")
TaggedFailsOnlyWhenNewer ==
    (pc = "handshake!" /\ AbiTag(plugin) = AbiTag(host)) =>
        /\ host.abi_version.major > 0
        /\ plugin.abi_version.minor > host.abi_version.minor

\* No package is compiled while an entry might still turn out not to resolve.
BuildsAfterResolving == built # {} => Len(sources) = Len(entries)

\* A run that goes ahead runs no lint twice, though a workspace and a member
\* of it, or a checkout and an archive of one repository, may both be
\* configured: directories that differ, which `seen` cannot tell.
Through == {"loaded", "instantiate", "ready"}
NoLintTwice ==
    pc \in Through =>
        \A i, j \in DOMAIN lints :
            lints[i].library[2] = lints[j].library[2] => lints[i].library = lints[j].library

\* The lints of one library stand in a row, in the order of its export.
InARow(ls, lib, exported) ==
    \E k \in 0 .. Len(ls) :
        /\ {i \in DOMAIN ls : ls[i].library = lib} = {k + j : j \in DOMAIN exported}
        /\ \A j \in DOMAIN exported : ls[k + j] = exported[j]

\* A run that goes ahead loaded every lint of every configured entry and no
\* other: of a workspace the plugins that cargo selects there, of an archive
\* all.  Their order is one that cargo's messages have no part in: by entry,
\* then by manifest in a workspace and by file name in an archive.
Offered(s) ==
    Cdylib \cap Members[s.dir] \cap (IF s.contents = "Sources" THEN Builds[s.dir] ELSE Package)
LibrariesOf(s) == {<<s.dir, p>> : p \in Offered(s)}
Position(d) == CHOOSE i \in DOMAIN sources : sources[i].dir = d
InOrder(s, p, q) == IF s.contents = "Sources" THEN p <= q ELSE FileName[p] <= FileName[q]
LoadsWhatIsConfigured ==
    pc \in Through =>
        /\ \A i \in DOMAIN sources : \A lib \in LibrariesOf(sources[i]) :
             InARow(lints, lib, Loaded(exports[lib[2]], lib))
        /\ \A i \in DOMAIN lints : \E j \in DOMAIN sources :
             lints[i].library \in LibrariesOf(sources[j])
        /\ \A i \in DOMAIN lints : \A j \in i .. Len(lints) :
             LET a == lints[i].library
                 b == lints[j].library
             IN  \/ Position(a[1]) < Position(b[1])
                 \/ a[1] = b[1] /\ InOrder(sources[Position(a[1])], a[2], b[2])

\* What a project writes under `[rules]` reaches the lints it is about: a name
\* it enables or disables is one a pass can report, a rule it sets an option
\* of has a pass that is handed it and no second one of the same language,
\* and no pass is handed an option of a rule it does not declare.  Nothing is
\* promised of the name of an option, which nothing declares, nor of a table
\* without options, which is gone once it is read.
SettingsReachOnePass ==
    pc = "ready" =>
        /\ \A n \in filter.names : \E i \in DOMAIN lints : n \in lints[i].rules
        /\ \A o \in options : \E i \in DOMAIN passes : o \in passes[i]
        /\ \A i, j \in DOMAIN passes :
             (i # j /\ passes[i] \cap passes[j] # {}) => lints[i].language # lints[j].language
        /\ \A i \in DOMAIN passes : passes[i] \subseteq lints[i].rules
=============================================================================
