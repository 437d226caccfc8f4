------------------------------ MODULE Providers ------------------------------
(***************************************************************************)
(* The decoration providers of a run while somebody edits the project:     *)
(* crates/stiles/src/commands/check/providers.rs, and `load` and           *)
(* `decorate` of crates/stiles-rust/src/provider.rs and                    *)
(* crates/stiles-typescript/src/provider.rs.                               *)
(*                                                                         *)
(* A provider analyzes the texts it found on disk when it was loaded.  The *)
(* walk reads each file again, later, and asks the provider about it.  The *)
(* TypeScript project of a file is that of the nearest tsconfig.json, and  *)
(* it is looked up at three different times.  An editor may save a file,   *)
(* add a tsconfig.json or remove one between any two of these steps.       *)
(*                                                                         *)
(* The directories are nested, the outermost one is 1, and the files are   *)
(* numbered in the order of the walk.                                      *)
(***************************************************************************)
EXTENDS Naturals, FiniteSets

CONSTANTS RustFile, TsFile,  \* the files of the run
          Inside,            \* the Rust files below the root of the Cargo workspace
          Depth,             \* how many nested directories there are
          HomeOf,            \* the directory of each TypeScript file
          Text,              \* the texts a file may have
          Marked, Unmarked,  \* those that begin with a byte order mark, and each without it
          NotUtf8, Recoded,  \* bytes of a file that are no text, and what tsrs reads in them
          Lossy, NoText,     \* a text with replacement characters, and no text
          MaxEdits           \* a bound on the edits of a run

File == RustFile \cup TsFile
Dir == 1..Depth
NoRoot == 0

ASSUME ProvidersAssumption ==
    /\ File \subseteq Nat /\ RustFile \cap TsFile = {} /\ Inside \subseteq RustFile
    /\ Depth \in Nat /\ MaxEdits \in Nat
    /\ HomeOf \in [TsFile -> Dir]

ASSUME TextAssumption ==
    /\ NoText \notin Text \cup {Lossy}
    /\ Marked \subseteq Text /\ NotUtf8 \notin Text
    /\ Unmarked \in [Marked -> Text] /\ \A t \in Marked : Unmarked[t] # t
    /\ Recoded \in Text \cup {Lossy}

VARIABLES
    disk,        \* the bytes of every file
    configs,     \* the directories that hold a tsconfig.json
    edits,       \* how many edits there have been
    pc,          \* "load", "project", "rust", "repair", "walk", "decorate", "ended", "failed"
                 \* or "panicked"
    todo,        \* the files the current loop has not reached
    root,        \* the project root just found
    typescript,  \* the TypeScript providers, by the root they were loaded for
    rust,        \* the Rust provider, in a set
    source,      \* the text the walk read
    verdict,     \* what came of each file
    seen,        \* history: the text of each file that its lints see
    used         \* history: the text the toolchain had analyzed for a file it covers

project == <<disk, configs, edits>>
loaded == <<typescript, rust>>
results == <<verdict, seen, used>>
vars == <<project, pc, todo, root, loaded, source, results>>

\* What a toolchain makes of a file.
TsRole == {"held", "excluded", "unreached"}
RustRole == {"module", "orphan", "excluded", "unknown"}

-----------------------------------------------------------------------------
(* The editor.                                                             *)
Edit ==
    /\ edits < MaxEdits
    /\ pc \notin {"ended", "failed", "panicked"}
    /\ edits' = edits + 1
    /\ \/ \E f \in File, t \in Text \cup {NotUtf8} :
             t # disk[f] /\ disk' = [disk EXCEPT ![f] = t] /\ UNCHANGED configs
       \/ \E d \in Dir :
             /\ configs' \in {configs \cup {d}, configs \ {d}} \ {configs}
             /\ UNCHANGED disk
    /\ UNCHANGED <<pc, todo, root, loaded, source, results>>

\* `discover_root`: the nearest directory, at or above d, with a tsconfig.json.
DiscoverRoot(d) ==
    LET holding == {e \in configs : e <= d}
    IN  IF holding = {} THEN NoRoot ELSE CHOOSE e \in holding : \A g \in holding : g <= e

Current(f) == f \in todo /\ \A g \in todo : f <= g
IsLoaded(r) == \E p \in typescript : p.key = r

-----------------------------------------------------------------------------
Init ==
    /\ disk \in [File -> Text \cup {NotUtf8}]
    /\ configs \in SUBSET Dir
    /\ edits = 0
    /\ pc = "load" /\ todo = File
    /\ root = NoRoot
    /\ typescript = {} /\ rust = {}
    /\ source = NoText
    /\ verdict = [f \in File |-> "none"]
    /\ seen = [f \in File |-> NoText] /\ used = [f \in File |-> NoText]

\* A Rust file loads nothing yet; a TypeScript file whose project is there
\* already, or that has none, loads nothing.
LoadNothing(f) ==
    /\ pc = "load" /\ Current(f)
    /\ f \in TsFile => DiscoverRoot(HomeOf[f]) = NoRoot \/ IsLoaded(DiscoverRoot(HomeOf[f]))
    /\ todo' = todo \ {f}
    /\ UNCHANGED <<project, pc, root, loaded, source, results>>

FindProject(f) ==
    /\ pc = "load" /\ Current(f) /\ f \in TsFile
    /\ DiscoverRoot(HomeOf[f]) # NoRoot /\ ~IsLoaded(DiscoverRoot(HomeOf[f]))
    /\ root' = DiscoverRoot(HomeOf[f])
    /\ todo' = todo \ {f}
    /\ pc' = "project"
    /\ UNCHANGED <<project, loaded, source, results>>

\* `decode_bytes`: the text tsrs reads in the bytes b.  It drops a byte order
\* mark, decodes UTF-16 and replaces what is neither that nor UTF-8.
Decode(b) == IF b = NotUtf8 THEN Recoded ELSE IF b \in Marked THEN Unmarked[b] ELSE b

\* `TypeScriptDecorationProvider::load` looks for the tsconfig.json again, and
\* reads the files of the project it finds.
LoadProject ==
    /\ pc = "project"
    /\ DiscoverRoot(root) # NoRoot
    /\ \E role \in [TsFile -> TsRole] :
         typescript' = typescript \cup
             {[key |-> root, root |-> DiscoverRoot(root), role |-> role,
               text |-> [f \in TsFile |-> Decode(disk[f])]]}
    /\ root' = NoRoot
    /\ pc' = "load"
    /\ UNCHANGED <<project, todo, rust, source, results>>

\* There is no Rust file, or the workspace is loaded: the VFS interns the files
\* it knows, and an excluded one and one whose bytes are no text get none.
LoadRust ==
    /\ pc = "load" /\ todo = {}
    /\ IF RustFile = {}
         THEN UNCHANGED rust
         ELSE \E role \in [RustFile -> RustRole] :
                rust' = {[role |-> role,
                          text |-> [f \in RustFile |->
                                       IF role[f] \in {"module", "orphan"} /\ disk[f] # NotUtf8
                                         THEN disk[f] ELSE NoText]]}
    /\ pc' = "repair"
    /\ UNCHANGED <<project, todo, root, typescript, source, results>>

\* A project cannot be loaded, which ends the run.
LoadFails ==
    /\ pc = "project" \/ (pc = "load" /\ todo = {} /\ RustFile # {})
    /\ pc' = "failed"
    /\ UNCHANGED <<project, todo, root, loaded, source, results>>

Interned(p, f) == p.role[f] # "unknown"

\* Mistake: files without a text are left as they are.
RepairsNothing ==
    /\ pc = "repair"
    /\ todo' = File
    /\ pc' = "walk"
    /\ UNCHANGED <<project, root, loaded, source, results>>

\* `give_text_to_files_that_have_none` reads the interned files below the root
\* again, and gives a lossy text to those whose bytes are no text now.
Repair ==
    /\ pc = "repair"
    /\ rust' = {[p EXCEPT !.text = [f \in RustFile |->
                    IF Interned(p, f) /\ f \in Inside /\ disk[f] = NotUtf8
                      THEN Lossy ELSE p.text[f]]] : p \in rust}
    /\ todo' = File
    /\ pc' = "walk"
    /\ UNCHANGED <<project, root, typescript, source, results>>

-----------------------------------------------------------------------------
(* The walk.                                                               *)
Read(f) ==
    /\ pc = "walk" /\ Current(f)
    /\ disk[f] # NotUtf8
    /\ source' = disk[f]
    /\ pc' = "decorate"
    /\ UNCHANGED <<project, todo, root, loaded, results>>

Settle(f, v, t) ==
    /\ verdict' = [verdict EXCEPT ![f] = v]
    /\ seen' = [seen EXCEPT ![f] = source]
    /\ used' = [used EXCEPT ![f] = t]
    /\ todo' = todo \ {f}
    /\ pc' = "walk"
    /\ source' = NoText

CannotRead(f) ==
    /\ pc = "walk" /\ Current(f)
    /\ disk[f] = NotUtf8
    /\ Settle(f, "unreadable", NoText)
    /\ UNCHANGED <<project, root, loaded>>

At(f) == pc = "decorate" /\ Current(f)

\* Mistake: any project that is loaded answers for the file.
AsksAnyProject(f) == typescript

\* `for_file`: the project root is looked up once more.
ForFile(f) == {p \in typescript : p.key = DiscoverRoot(HomeOf[f])}

\* The file has no project: the stand-in declines it.
NoProject(f) ==
    /\ At(f) /\ f \in TsFile
    /\ DiscoverRoot(HomeOf[f]) = NoRoot
    /\ Settle(f, "NoProject", NoText)
    /\ UNCHANGED <<project, root, loaded>>

\* Its project is one the run has not loaded: there is nobody to ask.
NobodyToAsk(f) ==
    /\ At(f) /\ f \in TsFile
    /\ DiscoverRoot(HomeOf[f]) # NoRoot /\ ForFile(f) = {}
    /\ Settle(f, "no_provider", NoText)
    /\ UNCHANGED <<project, root, loaded>>

TsGap(p, f) ==
    IF HomeOf[f] < p.root THEN "OutsideRoot"
    ELSE IF p.role[f] = "excluded" THEN "ExcludedByToolchain"
    ELSE "Unreachable"

DecorateTypeScript(f) ==
    /\ At(f) /\ f \in TsFile
    /\ DiscoverRoot(HomeOf[f]) # NoRoot
    /\ \E p \in ForFile(f) :
         IF p.role[f] # "held" THEN Settle(f, TsGap(p, f), NoText)
         ELSE IF p.text[f] # source THEN Settle(f, "StaleSource", NoText)
         ELSE Settle(f, "Covered", p.text[f])
    /\ UNCHANGED <<project, root, loaded>>

RustGap(f) == IF f \in Inside THEN "Unreachable" ELSE "OutsideRoot"

\* The file is known to the database, which panics when it reads a file that
\* has no text: this one, or a sibling module.
Declared(p, f) == p.role[f] = "module"
HasText(p, f) == p.text[f] # NoText

\* Mistake: the text of the file is not compared with the database's.
IgnoresStaleText(p, f) ==
    CASE ~Interned(p, f) -> RustGap(f)
      [] p.role[f] = "excluded" -> "ExcludedByToolchain"
      [] p.role[f] = "orphan" -> "Unreachable"
      [] OTHER -> "Covered"

RustVerdict(p, f) ==
    IF ~Interned(p, f) THEN RustGap(f)
    ELSE IF p.role[f] = "excluded" THEN "ExcludedByToolchain"
    ELSE IF p.role[f] = "orphan" THEN "Unreachable"
    ELSE IF p.text[f] # source THEN "StaleSource"
    ELSE "Covered"

DecorateRust(f) ==
    /\ At(f) /\ f \in RustFile
    /\ \E p \in rust :
         /\ p.role[f] = "module" => HasText(p, f)
         /\ Settle(f, RustVerdict(p, f), IF RustVerdict(p, f) = "Covered" THEN p.text[f] ELSE NoText)
    /\ UNCHANGED <<project, root, loaded>>

DatabasePanics(f) ==
    /\ At(f) /\ f \in RustFile
    /\ \E p \in rust : /\ p.role[f] \in {"module", "orphan"}
                       /\ \E g \in RustFile : Declared(p, g) /\ ~HasText(p, g)
    /\ pc' = "panicked"
    /\ UNCHANGED <<project, todo, root, loaded, source, results>>

End ==
    /\ pc = "walk" /\ todo = {}
    /\ pc' = "ended"
    /\ UNCHANGED <<project, todo, root, loaded, source, results>>

Next ==
    \/ Edit
    \/ LoadProject \/ LoadRust \/ LoadFails \/ Repair \/ End
    \/ \E f \in File : \/ LoadNothing(f) \/ FindProject(f) \/ Read(f) \/ CannotRead(f)
                       \/ NoProject(f) \/ NobodyToAsk(f) \/ DecorateTypeScript(f)
                       \/ DecorateRust(f) \/ DatabasePanics(f)

Spec == Init /\ [][Next]_vars

-----------------------------------------------------------------------------
(* The decorations of a file address the text its lints see, whatever was  *)
(* saved between the load and the walk: the text the toolchain analyzed is *)
(* the one the walk read, and never a lossy stand-in (the comparison with  *)
(* `tree.source()` in both `decorate`s).                                   *)
CoveredIsCurrent ==
    \A f \in File : verdict[f] = "Covered" => used[f] = seen[f] /\ used[f] \in Text

(* "A file is therefore never reported as a gap of a project it was never  *)
(* part of": wherever tsconfig.json files come and go during the run, the  *)
(* project that is asked about a TypeScript file lies at or above it.      *)
AskedProjectEncloses ==
    \A f \in TsFile : verdict[f] # "OutsideRoot"

(* A run nobody interferes with answers for every file it can read, but    *)
(* for one kind: a TypeScript file that begins with a byte order mark is   *)
(* stale as soon as it is compared, because tsrs drops the mark and the    *)
(* walk keeps it.  No other file is stale and none is without a provider, a*)
(* TypeScript file lacks a project only if no directory above it has a     *)
(* tsconfig.json, and the database has a text for every file below the     *)
(* workspace root when the walk begins.                                    *)
QuietRunAnswers ==
    edits = 0 =>
        /\ \A f \in File : verdict[f] # "no_provider"
        /\ \A f \in RustFile : verdict[f] # "StaleSource"
        /\ \A f \in TsFile : /\ verdict[f] = "StaleSource" => seen[f] \in Marked
                             /\ verdict[f] = "Covered" => seen[f] \notin Marked
                             /\ verdict[f] = "NoProject" => \A d \in configs : d > HomeOf[f]
        /\ pc \in {"walk", "decorate"} =>
               \A p \in rust, f \in Inside : p.role[f] \in {"module", "orphan"} => HasText(p, f)
=============================================================================
