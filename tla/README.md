# A TLA+ model of stiles

Stiles is a linter. It links no rules of its own: every rule is a plugin that a
project names in its configuration, and a run fetches or builds the plugins,
loads them, finds the project's source files, lets the Rust and TypeScript
toolchains decorate their syntax trees, and shows every node to every lint.

This directory holds the model of its core, the instances TLC checks, and
theorems that TLAPS proves for every instance. `PROJECT.json` maps each
definition to the lines it models.

## The system

| Component | State it keeps | Operations | Interacts with |
|---|---|---|---|
| Lint cache (`custom_lints/cache.rs`, `prebuilt.rs`, `git_source.rs`) | directories on disk that all runs of a user share, one staging directory per process | look for an entry, discard, stage, unpack or check out, rename into place | other runs (through the file system only, without locks), the release API, git |
| Custom lint loading (`custom_lints.rs`, `handshake.rs`, `artifact.rs`) | the loaded lints with the rules they declare | resolve every source, build or open, shake hands, refuse shared rules, construct and configure passes | lint cache, cargo, the dynamic loader |
| Configuration, rule filter, rule options | the project's settings | find and read `stiles.toml`, admit a rule, validate names, options per rule | check driver, custom lints |
| Discovery | files and walk errors | walk under ignore files, policy on errors | check driver |
| Check driver (`commands/check.rs`) | diagnostics, failures, remedies, outcome, closing text | load, discover, walk, report, exit | everything; the presenter is a task of its own |
| Providers (`check/providers.rs`, `stiles-rust`, `stiles-typescript`) | a snapshot of each project taken at load time | load, find a file's project, verdict on a file | disk (twice), an editor at work in the project |
| Pipeline, walk, lint (`stiles-core`) | the parser, one file's tree | parse, consult, merge, walk, check a node | providers, passes (plugin code that may panic or misreport) |
| Decorations (`decoration_map.rs`) | entries in insertion order, an index built on first use | insert, merge, lookup | providers write, lints read |
| Plugin boundary, ABI identity | versions and fingerprints | accept or refuse a library | custom lints |
| Checker pool of the TypeScript checker (`stiles-tsrs/tsrs_compiler/src/checkerpool.rs`, `splitcheck.rs`) | checkers, the idle threads of the process, a queue of files per checker, the states of the pieces of a split file | run a group of jobs, reuse or end a thread, take or steal a file, check a piece, merge | the threads with each other, through a mutex, channels, a condition variable and relaxed atomics |
| Renderer, code generation, macros, harness, tools | - | build-time or pure output | - |

What is hard in it:

* **Runs share the cache without a lock.** Their steps interleave at every
  system call, and a run may be killed between any two. A release lookup of
  several seconds lies between the look at the cache and the discard.
* **A run has many early returns.** Errors that belong to one file, errors that
  end the walk and errors that end the run take different ways out, and three
  sources decide the exit code.
* **The project changes while it is checked.** Toolchains read it at load time,
  the walk reads each file again, and project roots are looked up three times.
* **An index is built lazily** and has to be dropped by everything that writes.
* **Plugins** report what they like, when they like, or panic; and what a library
  exports may be read only after its version says where it lies.
* **Checkers share work without locks.** A pass of the TypeScript checker runs on
  threads that outlive it, with a borrowed task behind an `unsafe` block, on
  queues whose every access is a relaxed atomic, and on pieces of one file that
  several threads claim.

For each component, what makes it correct: nothing half-made in the cache is
ever taken for finished, and a warm cache is left alone; success is only
reported for a run that checked everything and showed everything; decorations
belong to the text the lints see; lints see every node once and in order with
every decoration; only declared and admitted rules come out; a load takes what is
configured, once, and reads nothing of a plugin it does not know the layout of;
a pass checks every file and every piece once, ends, and leaves no job behind.

## The modules

| Module | Models |
|---|---|
| `LintCache` | Several runs on one cache entry of each kind (prebuilt libraries, checkout). One action per system call or exchange of `resolve_git`, `fetch`, `install`, `unpack`, `checkout`, `configured_sources` and the loading. A directory is the set of its entries. |
| `CheckRun` | One run of `stiles check`. One action per stage and per way a file can go. The presenter may stop at any time. |
| `Audit` | What an exit code promises, abstractly. `CheckRun` implements it with `scope <- files`, `flawed <- errors`, `clear <-` the checked files without a failing diagnostic, `verdict <- exit`. |
| `Pipeline` | One file through `run_on_source`, `walk_lints`, `visit_node` and `Lint::check_node`. Extends `DecorationMap`: the tree's decorations are its state, and `Covers`, `MergeCovered` and `StartWalk` step it with `Lookup` and `Merge`. |
| `DecorationMap` | `insert`, `merge`, `lookup` with the sealed order, and the binary searches of `on`, `first` and what `get_all` filters. Its specification by itself is `MapSpec`. |
| `Providers` | `Providers::load` and `for_file`, `load` and `decorate` of both providers, against an editor. |
| `LintLoading` | `CustomLints::load`, `instantiate`, `RuleFilter` and `RuleOptions`: from the configuration to the passes of a file. One action per entry resolved, build, library opened, handshake, call of `load`, and check that follows. |
| `CheckerThreads` | `run_work_group`, `run_checker_job`, `checker_thread`: groups, the list of idle threads, the channels. One action per lock, send, receive and timeout. |
| `FileQueue` | `FileQueue`, `queues_next` and the loop of a pass. One action per atomic access. |
| `SplitCheck` | `statement_pieces`, `plan_splits`, `SplitFile`, and what a checker does with a piece. |
| `MC*` | Constants for TLC. |
| `*Proofs` | Theorems about the module they are named after; `PipelineProofs` holds those about `DecorationMap` too. |

`Pipeline` is the inside of `CheckRun`'s `FileChecked` and `FileFails`;
`Providers` says what the answers of its `Covers`, `DoesNotCover` and
`ProviderFails` mean; `LintLoading` is the inside of `LoadLints`, and `LintCache`
that of its `Resolve` for a git source. A job of `CheckerThreads` is the loop of
one checker in `FileQueue`; what it takes from a queue is an item of `SplitCheck`,
where taking an item is one step.

### Correspondence worth knowing

* `LintCache`: `pc` names the call a run is about to make. A name of a directory
  resolves to what is there *now*, so `attached` remembers which runs still hold
  the directory they opened (`remove_dir_all` removes the entries of the
  directory it opened, also after it was renamed over). The wall between
  `CachedPrebuilt` and `Exists` is the release lookup.
* `CheckRun`: files are numbered in the order discovery sorts them into. `Fatal`
  is `?`: the error goes to `ClosingText::into_failure`. What a file, a plugin or
  the project does to the run is chosen when the run meets it. `checked` is a
  history variable. A diagnostic is its file, rule and severity.
* `Pipeline`: a tree is the sequence of the depths of its nodes in the order of
  the text, so the reference for the walk is the order of the numbers. `todo` is
  the recursion of `visit_node` made explicit.
* `DecorationMap`: `sealed` is the `OnceLock`, a set of at most one order. A value
  is known by its type, which `stable_downcast_ref` checks.
* `LintLoading`: an entry is the set of ways it may resolve. What a plugin is
  (version, fingerprints, exports) is chosen when it is met. `reads` is the history
  of the fields of a declaration that were read. `pc` ends in a name with an
  exclamation mark for each error that the load returns.
* `CheckerThreads`: `run` stands for a whole task, which returns or unwinds. A group
  is known by the thread that called `run_work_group`, so groups overlap. `Held` are
  the jobs whose `done` sender exists, which is what `recv` asks about.
* `FileQueue`: `range` and `thieves` are the two atomics. The two loads that ask one
  queue whether it admits a thief and how much it holds are one step: nothing is
  decided by them, and `admit` and `take` ask again.
* `SplitCheck`: what checking finds is abstract. A diagnostic is located in one file
  and has *finders*, the statements whose check reports it (statement 0: the checks
  of the whole file). A checker's collection is a set, since it deduplicates. The
  weights that lead to a cut and to a placement are not modelled; every cut that
  `statement_pieces` can make of the bounded lengths, and every placement at another
  checker than the owner's, before or behind that checker's own files, is tried.
  Checking is local to a checker and merged into the step before or after it.
* `LintLoading`, what a source offers: `Members` are the packages under a directory,
  `Builds` those that a plain `cargo build --release` there selects (the root package
  or the default members; never excluded ones or those of a nested workspace). Built
  libraries are ordered by manifest, those of an archive by file name, and the two
  orders are independent (`Rank`).
* `Providers`: `Decode` is `decode_bytes` of tsrs. The walk's `read_to_string` keeps the
  bytes and refuses what is not UTF-8. Directories are nested, so the nearest tsconfig.json is the one
  with the greatest number. A toolchain's view of a file (held, excluded, ...) is
  chosen when the project is loaded. The files of a project are read in one step.

## The runs

| Run | Shows | Bounds |
|---|---|---|
| `cache_race` | two runs, dying anywhere, publish only whole entries; a warm cache stays warm; both runs end or wait for a git remote, cargo or a plugin | 2 runs are all a race over one entry needs (one acts, one interferes); 2 libraries make "some but not all" possible |
| `cache_serial` | runs one after another accept nothing half-made and load every lint | 3 runs: one dies, one cleans up or dies too, one reads; a single process id, so every staging directory is met again |
| `check_run` | the exit code, the report and the closing text agree; the run implements `Audit` | 3 files put a failing one before, between and after others; 2 rules (one disabled); severities below, at and above both thresholds |
| `pipeline` | every visible node once, in the order of the text, with all decorations in the providers' order; only declared rules; uncovered only when unanimous | trees up to 4 nodes, the smallest where depth-first and breadth-first differ; 2 providers that may disagree either way; two diagnostics, so that their order matters |
| `decorations` | the index is never stale, a lookup is exact, the first entry wins | 3 nodes (a neighbour on either side), lists up to length 3 |
| `providers` | decorations of the text the lints see; answers for all files of a quiet run but TypeScript files with a byte order mark; only enclosing projects are asked | a Rust file, 2 TypeScript files (one may be outside the other's project), 2 edits: something goes away and comes back; a text with and without a byte order mark, and bytes that are not UTF-8 |
| `lint_loading` | fields are read only where they lie; a tag predicts the handshake; what cargo selects and what an archive holds is loaded, once and in the configured order; every name under `[rules]` that sets something is a rule of a loaded lint, and its options reach that lint's pass only | a workspace that leaves a package out of its build, its members, and an archive whose file names sort otherwise than the manifests: directories that overlap in every way; two entries at a time; versions on both sides of every edge of `floor`; exports that are empty, collide within a plugin, across plugins, across languages |
| `checker_threads` | no job outlives its group, each runs once on its own thread, taken threads are alive, groups and threads end | 2 groups (one acts, one interferes) of 2 jobs (the least that uses threads); 3 threads, one fewer than jobs, so that both reuse and a failed spawn happen |
| `file_queue` | every file checked once, by the checker that later passes ask; the limit on those who steal, and nobody takes without a place while a queue has weight; no place kept for nothing; the pass ends | 3 checkers (an owner and two thieves at one queue), one beyond the counted ones; a file that weighs nothing; a limit of 1, and none; stealing and stickiness on and off |
| `split_check` | pieces partition a file, each is checked once, the file reports what it should but for errors of merged declarations, shadow mode fails over nothing else, nobody sleeps for ever | 3 checkers; two split files of up to 3 and 2 pieces, so that owners run each other's; diagnostics found in one piece, in two, by owner and helper, by the file as a whole, for another file, and by both declarations of an interface that two files merge; statement lengths up to 3 give every cut |

Two runs end in a violation; each is a disagreement between the code and what its
comments say (`findings` in `PROJECT.json`):

* `cache_stopped`: `install` discards what another run installed during its own
  release lookup. A run that dies inside that discard leaves some libraries, which
  every later run takes for all of them.
* `split_merged`: a checker hands back only what a piece *adds* to its collection. If
  it met a diagnostic of the split file before, from a file of its own that
  declares the same interface, nobody reports it. `split_check` is the same instance:
  it shows that nothing else is ever lost.

Four more disagreements are shown by passing runs, whose properties state what the
code does:

* `providers`, `QuietRunAnswers`: tsrs drops a byte order mark and the walk keeps it,
  so a TypeScript file that begins with one is "stale" in every run, edited or not,
  and "re-run stiles" does not help.
* `lint_loading`, `SettingsReachOnePass`: a pass gets the options of its own rules.
  Two comments (`config.rs:84`, `rule_options.rs:21`) say that it gets the whole table.
  What is not checked by anyone: the names of options, and the name of a rule whose
  table of options is empty, since `read_options` leaves nothing of it.
* `lint_loading`, `TaggedFailsOnlyWhenNewer`: from version 1 on an archive under the
  right tag may fail the handshake, if a later minor built it. `abi_tag.rs:22` says so;
  `ARCHITECTURE.md:295`, `custom_lints.rs:406` and `abi_tag.rs:64` say it passes.
* `file_queue`, `ThievesWithinLimit`: files that weigh nothing are taken from others'
  queues without admission; the comment on `queues_next` says that a thief takes only
  from queues that admit it.

The models also take steps that no passing property can speak against, and a
maintainer should know of them. They are found by adding the obvious invariant:

* `LintCache`: a run whose release lookup was slow discards the directory another run
  has just installed, and that run fails to read its lints; a rename between `holds`
  and `exists` makes `checkout` discard a finished checkout, and HEAD still answers
  for what is left of it until the discard reaches it.
* `CheckRun`: diagnostics leave the walk only when it is over, so a pass that panics
  while it is configured for a later file loses those of the files before it.
* `Providers`: the repair of files without text reads the disk again, and misses a
  file that was saved as UTF-8 in between; a tsconfig.json that appears after the
  load leaves its files with the message of a run that has no provider.
* `SplitCheck`: a check that panics in a claimed piece never finishes it, so the owner
  waits for ever, and `run_work_group` with it, instead of passing the panic on.
  `PassEnds` names this as the only exception.

### Fairness

`cache_race` assumes `WF_vars(Step(r))` for each run, where `Step` holds the local
system calls and the exchange with the release API, which has a connect and a
request timeout (`github_release.rs:110`). The operating system schedules a runnable
process eventually. `Fetch`, `LoadSources` and `LoadLibrary` are not in `Step`: git and
cargo run without a deadline and may use the network, and opening a library runs code
of its author, so the property allows a run to wait there. What it shows is that
runs do not keep each other busy. Nothing makes a process start or die.

`checker_threads`, `file_queue` and `split_check` assume weak fairness of the steps of
each thread: each is an operating-system thread of its own, and checking a file
ends. In `CheckerThreads` that includes the timeout of an idle thread, a second.
In `FileQueue` a step that is refused is a step: that thieves do not keep each
other looking is what `PassEnds` shows. In `SplitCheck` neither a spurious wake-up
nor a panic is fair: a sleeping owner relies on `notify_all`.

Liveness of a check is not claimed: a pass is foreign code and may loop.

`Pipeline` and `Providers` end, so their runs do not check for deadlock;
the others stutter explicitly in their last states, and do.

## What is proved

Every invariant and every action property that a run checks is also a theorem, for
every value of the constants, from the named assumptions of the modules. Each
argument is an inductive invariant; what it holds and why it is needed:

* `LintCacheProofs`. `TypeCorrect`; `StagingCorrect`, the invariant that living
  runs have distinct process ids and that a staging directory holds exactly what
  its run has put there so far. It is needed because a rename publishes the
  staging directory whatever is in it. `PublishesWhole` follows for any number
  of runs, crashes included. `WarmForGood` rests on the lemma that only a run
  past its look at the cache touches an entry. `SerialInvariant` adds, for runs
  that do not overlap, where each one stands towards the entry (`Position`) and what
  it has found there; `SerialAcceptsWhole` and `SerialLoadsEveryLint` follow. Without
  the hypothesis the second is false, as `cache_stopped` shows.
* `CheckRunProofs`. `TypeCorrect`, then `RunInvariant`: every file found is still to
  come, checked or failed; the walk ends early only with a failure; the outcome
  remembers each failure; nothing is lost between the walk and the report.
  `SuccessEarned` and `Refinement` (`CheckRun` implements `Audit`) follow. `WalkStops`
  adds which files the walk has passed (`WalkInv`), `ReportAgrees` what was shown
  and what the outcome made of it (`ReportInv`).
* `PipelineProofs`, about the decorations. `SealStaysFresh` is inductive as it
  stands. `LookupStaysExact` takes the code's two binary searches apart: the sealed
  order is the one enumeration of the entries by node and place
  (`EnumeratedInOrder`, `AscendingIsUnique`), `SearchFinds` shows that
  `partition_point` stops at the edge of whatever is closed downward, so that the
  slice between two searches is the entries of the node (`OnIsSitting`).
  `PresentEntriesWin` says that the entries of a node only grow at the end
  (`SittingGrows`), so what `first` answers stays. Both need node ids to be numbers.
* `PipelineProofs`, about a file. `FileInv` says what a file, its tree and its providers
  may be. `ConsultInv` counts the answers against the providers asked:
  `UncoveredStaysUnanimous`. `MergeInv` says that the tree holds the decorations of the
  providers merged so far in their order (`FlatFacts` on concatenation), and that no
  index sealed before a merge survives it: `PassesSeeAll`. `WalkInv` is the walk as a
  loop: what was shown is in order and is all that comes before the next node; what is
  still to visit is in order, none below another; and whatever is visible and not
  shown is one of them or below one. `GoesDown` shows that replacing a node by its
  children keeps this, for any tree. `WalksInTextOrder` and, with
  `DiagnosticsInv`, `DiagnosticsStayDeclared` follow.
* `ProvidersProofs`. `DecorationsAreCurrent` and `ProjectsEnclose`, from the invariant
  that the walk compares a real text and that a project is kept under a root at
  or below its own. That `discover_root` answers with a directory at or above the
  one it starts from needs the greatest element of a finite set of numbers, which
  comes from the well-foundedness of the naturals. `QuietRunsAnswer` needs to know what
  holds until the first edit (`QuietInv`): the root of every file that was passed is
  loaded or about to be, each text that was analyzed is the one on disk, decoded as its
  toolchain does, and the text at hand is that of the current file.
* `LintLoadingProofs`. `AcceptsIsSameProtocol`: `floor <= plugin <= host` says that both
  speak one protocol, for all versions. `TypeCorrect` carries `LoadingInv`: a library
  that is being loaded has a source and is among those left. `HandshakeIsSafe` and
  `TagPredictsHandshake` follow from `HandshakeInv`; `ResolvesFirst`, that nothing is
  built before every entry is resolved, from `ResolvedInv`.
  `LintsRunOnce` needs that a package exports the same lints wherever it is loaded
  from: the second copy then shares a rule with the first, and `refuse_shared_rules`
  ends the load, *because* a lint without rules was refused before. `WholeInv` carries
  it: whatever library a lint came from, all of its lints are there, each with a rule.
  `SettingsWork` adds that a pass gets the options of its own rules only.
  `LoadsTheConfigured` names a library by the number of its source and its package;
  `FiledInv` says that the lints are those of the libraries finished so far, one
  library after the other in that order, and that what is finished of the current
  source precedes what is left. It needs that no directory is a source twice.
* `CheckerThreadsProofs`. `ThreadsInvariant` is the conjunction that makes the rest
  inductive: a thread is on the list at most once and only while it can receive
  (`ThreadInv`); a taken thread is not on the list, is nobody else's and has an empty
  channel (`TakenInv`); a job is in one place (`JobInv`); what a group dispatched is
  received, reported or out (`CountInv`, by cardinalities); a group that is over has
  nothing out (`GroupInv`). `TaskIsSafe` is the claim of the `SAFETY` comment in
  `run_work_group`; `JobsDoNotQueue` and `TakenThreadsLive` are the other two. The
  panic "a checker job ended without reporting" is thereby unreachable. `JobsRunOnce`
  adds how often each job has run, by the place it is in (`RunsInv`).
* `FileQueueProofs`. `TypeCorrect` carries `PassInv`: the files outside a queue's range
  were checked once, by the recorded owner, those inside by nobody, and a checker
  that has stopped left an empty queue of its own. `FilesAreTakenOnce` and
  `PassIsComplete` follow for any number of checkers, any weights and any limit.
  `PlacesAreRight` says which queues a checker has a bit in; the limit follows from it.
  `PlacesStayInUse` adds what a checker knows when it stops (`WorkInv`): one that
  drains has seen every queue without work, which `StaysEmpty` shows to last (the other half of `LimitHolds`), and one
  that looks for a victim finds at least the queue it has a place in.
* `SplitCheckProofs`. `PiecesCover`: `statement_pieces` closes its pieces in order and
  leaves none empty, whatever the lengths (`CutsInOrder`, `RangesPartition`).
  `PiecesOnce`: each piece is in one queue or taken (`QueueInv`), and its state, the
  checker at work on it and its result agree (`ClaimInv`). `SplitReports` and
  `ShadowDiffers` hold for every program and assume nothing about where diagnostics are
  found. `FoundInv` splits them: what only the check of its own file reports (`Home`) a
  helper has always handed back, because no other file can have put it in its
  collection before; of the rest the owner has what its own pieces and the checks of
  the whole file report, and in shadow mode everything. That remainder is `MayMiss`,
  and `split_merged` shows that it is not empty. `OwnerInv` says that a file has one
  owner, which makes the collections comparable.

Type correctness, `ThreadsInvariant` and `BuildsAfterResolving` are proved only; every
other theorem in `PROJECT.json` states a property that a run checks too.

Recursive functions (`prefix`, the cuts, the queues, the binary search) are reasoned about
by induction over a set of numbers: the set of those for which a fact holds has 0 and
is closed under the next one, so it has all (`UpTo`, from the well-foundedness of the
naturals); that the function exists at all is shown the same way (`Recursion`,
`SumsExist`).

Only model-checked: `RunsEnd`, `GroupsEnd`, `ThreadsEnd` and both `PassEnds`. They are
liveness under fairness, whose proof needs `ENABLED`. Also the two runs that end in
a violation, which are counterexamples.

## What is left out

* In the cache: a machine that stops, since nothing calls `fsync` and files that were
  written may be lost or empty afterwards (`Crash` is a process that is killed); two
  machines or containers that share one cache and whose
  process ids collide; other pins (entries do not interact); cargo's target
  directory inside a checkout; the removal of one's own staging directory is one
  step, and so is listing a directory.
* What toolchains compute for a node, tree-sitter's parsing, the `ignore` crate's
  walk, TOML and JSON: libraries.
* Rendering, the `rules` and `abi` commands' output, code generation, macros, the
  test harness, the repository's own tools, `stiles_patch` (arguments for cargo).
* The retirement of checkers under a memory target, the assignment of files to
  checkers, cancellation.

### Not modelled: the TypeScript checker

Of 375 thousand lines in the repository about 340 thousand are `stiles-tsrs`, a port
of the TypeScript compiler: some 80 thousand lines of generated tables (case
mappings, diagnostics, node kinds) and a scanner, parser, binder, checker, printer
and emitter. They are sequential functions from a program's text to trees, types
and messages, and their specification is another implementation of the same
functions. An abstraction of them that leaves out types and trees leaves out all
of it, and one that keeps them is a transliteration. What the project models of
it is what this code adds to the port and what is hard to test there: how its
checkers share threads, files and pieces of files. Of the other crates, which are
the program's own, the modules above cover the parts that keep state; the rest
formats, parses or generates text.

## Plan

Done: `LintCache`, `CheckRun` with `Audit`, `DecorationMap`, `Pipeline`, `Providers`,
`LintLoading`, `CheckerThreads`, `FileQueue`, `SplitCheck`, and the proofs of all their
invariants and action properties.

Next, in this order:

1. `ReleaseSelect`: `find_asset`, `select_asset`, the digest and the archive limits, as
   operators against reference definitions.
2. `ConfigSearch` and `Discovery`: the search upwards for `stiles.toml`, the order of
   patterns, walk errors under either policy and `WalkFailure::classify`.
3. Composition: `CheckRun` with `Pipeline` in place of `FileChecked` and `FileFails`, and
   `FileQueue` under `SplitCheck`, each shown to refine the coarser one.
