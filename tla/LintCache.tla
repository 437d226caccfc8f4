----------------------------- MODULE LintCache -----------------------------
(***************************************************************************)
(* How several stiles processes obtain the lints of one pinned git source  *)
(* through the cache directory they share: crates/stiles/src/              *)
(* custom_lints.rs with its cache, git_source and prebuilt modules.        *)
(*                                                                         *)
(* A run looks for prebuilt libraries, then for a checkout, then asks a    *)
(* release for an archive, and last fetches the pin with git.  Whatever it *)
(* fetches is assembled in a staging directory named after the process     *)
(* and renamed into place.  No lock is taken anywhere, so the steps of two *)
(* runs interleave at every system call, and a run may die between any     *)
(* two.                                                                    *)
(*                                                                         *)
(* A directory is the set of its entries; "." is one of them, so a         *)
(* directory that does not exist is {}.  The pinned source is a workspace  *)
(* of one package per element of Lint: a prebuilt directory holds the      *)
(* library of each, a checkout the sources of each.                        *)
(***************************************************************************)
EXTENDS Naturals, FiniteSets

CONSTANTS Run,   \* the stiles processes that will ever use the cache
          Pid,   \* the process ids the system hands out, and hands out again
          Lint   \* the lint packages of the pinned source

Other == {".", "archive.tar.gz", "Cargo.toml", "HEAD"}

ASSUME PidAssumption == Pid # {}
ASSUME LintAssumption == Lint # {} /\ Lint \cap Other = {}

VARIABLES
    pc,        \* the step each run is about to take
    pid,       \* the process id of each run
    kind,      \* what each run resolves the source to: `Contents`
    dir,       \* the cache entry of each kind
    staging,   \* the staging directory of each kind and process id
    attached,  \* the runs whose opened directory is still the one in place
    notice,    \* the `PrebuiltNotice` each run collected
    pending,   \* the libraries a run listed and has yet to open
    loaded     \* the lints a run has loaded

vars == <<pc, pid, kind, dir, staging, attached, notice, pending, loaded>>
fs == <<dir, staging, attached>>
loads == <<pending, loaded>>

-----------------------------------------------------------------------------
Kind == {"Libraries", "Sources"}
Notice == {"none", "Unpublished", "Unusable"}
Dir == SUBSET (Lint \cup Other)

Terminal == {"done", "failed", "crashed"}
\* A run that is past its look at the cache and has not settled on an entry.
Fetching == {"findAsset", "holds", "exists", "open", "unlink", "stage",
             "download", "extract", "fetch", "tree", "rename", "lost"}
PC == {"idle", "cached", "cachedCheckout", "admit", "load", "dlopen"}
        \cup Fetching \cup Terminal

Live(r) == pc[r] \notin Terminal \cup {"idle"}

\* Mistake: a staging directory that two processes share.
SharedStaging(r) == CHOOSE p \in Pid : TRUE

\* `staging_directory`: the name carries the process id.
StagingDirectory(r) == pid[r]
Staged(r) == staging[kind[r]][StagingDirectory(r)]
Stage(r, d) == staging' = [staging EXCEPT ![kind[r]][StagingDirectory(r)] = d]

\* `libraries`, and `holds_libraries`: one library is enough.
Libraries(d) == d \cap Lint
HoldsLibraries(d) == Libraries(d) # {}

\* `holds`: git answers with the pinned commit.
Holds(d) == "HEAD" \in d

\* What `cached` of either module would accept.
Accepts(k, d) == IF k = "Libraries" THEN HoldsLibraries(d) ELSE Holds(d)

Tree == Lint \cup {"Cargo.toml"}
Whole(k, d) == d = {"."} \cup (IF k = "Libraries" THEN Lint ELSE Tree \cup {"HEAD"})

Goto(r, l) == pc' = [pc EXCEPT ![r] = l]
At(r, k, l) == kind[r] = k /\ pc[r] = l

-----------------------------------------------------------------------------
(* The cache starts cold.  The prebuilt entry may be an empty directory    *)
(* and the checkout anything that git does not recognise as the pin, such  *)
(* as half of a copied backup.                                             *)
Init ==
    /\ pc = [r \in Run |-> "idle"]
    /\ pid = [r \in Run |-> CHOOSE p \in Pid : TRUE]
    /\ kind = [r \in Run |-> "Libraries"]
    /\ \E p \in {{}, {"."}}, c \in {{}} \cup {{"."} \cup s : s \in SUBSET Tree} :
         dir = [k \in Kind |-> IF k = "Libraries" THEN p ELSE c]
    /\ staging = [k \in Kind |-> [p \in Pid |-> {}]]
    /\ attached = {}
    /\ notice = [r \in Run |-> "none"]
    /\ pending = [r \in Run |-> {}]
    /\ loaded = [r \in Run |-> {}]

\* A process starts; its id is one no living process has.
Start(r) ==
    /\ pc[r] = "idle"
    /\ \E p \in Pid : /\ \A s \in Run : Live(s) => pid[s] # p
                      /\ pid' = [pid EXCEPT ![r] = p]
    /\ Goto(r, "cached")
    /\ UNCHANGED <<kind, fs, notice, loads>>

(* resolve_git *)

\* Mistake: a cached library directory is ignored.
IgnoresCache(r) ==
    /\ pc[r] = "cached"
    /\ Goto(r, "cachedCheckout")
    /\ UNCHANGED <<pid, kind, fs, notice, loads>>

CachedPrebuilt(r) ==
    /\ pc[r] = "cached"
    /\ Goto(r, IF HoldsLibraries(dir["Libraries"]) THEN "admit" ELSE "cachedCheckout")
    /\ UNCHANGED <<pid, kind, fs, notice, loads>>

CachedCheckout(r) ==
    /\ pc[r] = "cachedCheckout"
    /\ IF Holds(dir["Sources"])
         THEN Goto(r, "admit") /\ kind' = [kind EXCEPT ![r] = "Sources"]
         ELSE Goto(r, "findAsset") /\ UNCHANGED kind
    /\ UNCHANGED <<pid, fs, notice, loads>>

\* A fetch that comes to nothing: the caller goes on to git, an error of git
\* ends the run.
GiveUp(r, n) ==
    IF kind[r] = "Libraries"
      THEN /\ Goto(r, "holds")
           /\ kind' = [kind EXCEPT ![r] = "Sources"]
           /\ notice' = [notice EXCEPT ![r] = n]
      ELSE Goto(r, "failed") /\ UNCHANGED <<kind, notice>>

\* What the releases of the remote answer.  A remote that is not on GitHub is
\* not asked, and a repository stiles cannot see is passed over in silence.
FindAsset(r) ==
    /\ pc[r] = "findAsset"
    /\ \/ Goto(r, "exists") /\ UNCHANGED <<kind, notice>>
       \/ \E n \in Notice : GiveUp(r, n)
    /\ UNCHANGED <<pid, fs, loads>>

(* The discard of what is at the destination.  `remove_dir_all` opens the  *)
(* directory, unlinks what it holds one entry at a time, and removes the   *)
(* directory by name.  An entry another process unlinked first is no       *)
(* error; a directory that is gone when it is opened is one, and so is one *)
(* that another process put in its place before the last step.             *)

Exists(r) ==
    /\ pc[r] = "exists"
    /\ Goto(r, IF dir[kind[r]] # {} THEN "open" ELSE "stage")
    /\ UNCHANGED <<pid, kind, fs, notice, loads>>

Open(r) ==
    /\ pc[r] = "open"
    /\ IF dir[kind[r]] # {}
         THEN /\ Goto(r, "unlink")
              /\ attached' = attached \cup {r}
              /\ UNCHANGED <<kind, notice>>
         ELSE GiveUp(r, "Unusable") /\ UNCHANGED attached
    /\ UNCHANGED <<pid, dir, staging, loads>>

Unlink(r) ==
    /\ pc[r] = "unlink"
    /\ r \in attached
    /\ \E e \in dir[kind[r]] \ {"."} : dir' = [dir EXCEPT ![kind[r]] = @ \ {e}]
    /\ UNCHANGED <<pc, pid, kind, staging, attached, notice, loads>>

\* No open handle names the directory at the destination of k any longer.
Detach(k) == attached' = {s \in attached : kind[s] # k}

RemoveDir(r) ==
    /\ pc[r] = "unlink"
    /\ r \in attached => dir[kind[r]] \subseteq {"."}
    /\ IF dir[kind[r]] \subseteq {"."}
         THEN /\ Goto(r, "stage")
              /\ dir' = [dir EXCEPT ![kind[r]] = {}]
              /\ Detach(kind[r])
              /\ UNCHANGED <<kind, notice>>
         ELSE GiveUp(r, "Unusable") /\ UNCHANGED <<dir, attached>>
    /\ UNCHANGED <<pid, staging, loads>>

(* prebuilt::install *)

\* The staging directory of an earlier process with this id is discarded.
StagePrebuilt(r) ==
    /\ At(r, "Libraries", "stage")
    /\ Stage(r, {"."})
    /\ Goto(r, "download")
    /\ UNCHANGED <<pid, kind, dir, attached, notice, loads>>

\* The archive arrived, and its digest is the one the sidecar publishes.
Download(r) ==
    /\ pc[r] = "download"
    /\ Stage(r, Staged(r) \cup {"archive.tar.gz"})
    /\ Goto(r, "extract")
    /\ UNCHANGED <<pid, kind, dir, attached, notice, loads>>

Extract(r) ==
    /\ pc[r] = "extract"
    /\ \E l \in Lint \ Staged(r) : Stage(r, Staged(r) \cup {l})
    /\ UNCHANGED <<pc, pid, kind, dir, attached, notice, loads>>

\* Mistake: an unpack that stops halfway counts as finished.
FinishesEarly(r) ==
    /\ pc[r] = "extract"
    /\ HoldsLibraries(Staged(r))
    /\ Stage(r, Staged(r) \ {"archive.tar.gz"})
    /\ Goto(r, "rename")
    /\ UNCHANGED <<pid, kind, dir, attached, notice, loads>>

FinishUnpack(r) ==
    /\ pc[r] = "extract"
    /\ Lint \subseteq Staged(r)
    /\ Stage(r, Staged(r) \ {"archive.tar.gz"})
    /\ Goto(r, "rename")
    /\ UNCHANGED <<pid, kind, dir, attached, notice, loads>>

\* The release stops answering, a digest differs, or the disk is full.
UnpackFails(r) ==
    /\ pc[r] \in {"download", "extract"}
    /\ Stage(r, {})
    /\ GiveUp(r, "Unusable")
    /\ UNCHANGED <<pid, dir, attached, loads>>

(* The move into place.  A directory may be renamed onto an empty one and  *)
(* onto none; onto any other the rename fails.                             *)
Rename(r, k) ==
    /\ At(r, k, "rename")
    /\ Stage(r, {})
    /\ IF dir[k] \subseteq {"."}
         THEN /\ dir' = [dir EXCEPT ![k] = Staged(r)]
              /\ Detach(k)
              /\ Goto(r, "admit")
         ELSE Goto(r, "lost") /\ UNCHANGED <<dir, attached>>
    /\ UNCHANGED <<pid, kind, notice, loads>>

InstallPrebuilt(r) == Rename(r, "Libraries")

\* Mistake: the loser tries its rename again.
RetriesRename(r) ==
    /\ At(r, "Libraries", "lost")
    /\ Goto(r, "rename")
    /\ UNCHANGED <<pid, kind, fs, notice, loads>>

\* The loser reads what the winner installed.
LosePrebuilt(r) ==
    /\ At(r, "Libraries", "lost")
    /\ IF HoldsLibraries(dir["Libraries"])
         THEN Goto(r, "admit") /\ UNCHANGED <<kind, notice>>
         ELSE GiveUp(r, "Unusable")
    /\ UNCHANGED <<pid, fs, loads>>

(* git_source::checkout *)

CheckoutHolds(r) ==
    /\ pc[r] = "holds"
    /\ Goto(r, IF Holds(dir["Sources"]) THEN "admit" ELSE "exists")
    /\ UNCHANGED <<pid, kind, fs, notice, loads>>

\* The abandoned staging directory goes, and a new repository is created.
StageCheckout(r) ==
    /\ At(r, "Sources", "stage")
    /\ Stage(r, {"."})
    /\ Goto(r, "fetch")
    /\ UNCHANGED <<pid, kind, dir, attached, notice, loads>>

\* The remote serves the pinned commit.  Nothing bounds how long it takes.
Fetch(r) ==
    /\ pc[r] = "fetch"
    /\ Goto(r, "tree")
    /\ UNCHANGED <<pid, kind, fs, notice, loads>>

WriteTree(r) ==
    /\ pc[r] = "tree"
    /\ \E e \in Tree \ Staged(r) : Stage(r, Staged(r) \cup {e})
    /\ UNCHANGED <<pc, pid, kind, dir, attached, notice, loads>>

\* Mistake: HEAD is written before the working tree.
DetachesHeadFirst(r) ==
    /\ pc[r] = "tree"
    /\ Stage(r, Staged(r) \cup {"HEAD"})
    /\ Goto(r, "rename")
    /\ UNCHANGED <<pid, kind, dir, attached, notice, loads>>

\* HEAD is written last.
DetachHead(r) ==
    /\ pc[r] = "tree"
    /\ Tree \subseteq Staged(r)
    /\ Stage(r, Staged(r) \cup {"HEAD"})
    /\ Goto(r, "rename")
    /\ UNCHANGED <<pid, kind, dir, attached, notice, loads>>

\* An error of `materialize` ends the run and leaves the staging directory.
MaterializeFails(r) ==
    /\ pc[r] \in {"fetch", "tree"}
    /\ GiveUp(r, "none")
    /\ UNCHANGED <<pid, fs, loads>>

InstallCheckout(r) == Rename(r, "Sources")

LoseCheckout(r) ==
    /\ At(r, "Sources", "lost")
    /\ IF Holds(dir["Sources"])
         THEN Goto(r, "admit") /\ UNCHANGED <<kind, notice>>
         ELSE GiveUp(r, "none")
    /\ UNCHANGED <<pid, fs, loads>>

(* configured_sources, and the load of what it resolved *)

\* The resolved directory has to exist, and a checkout to hold a manifest.
Admit(r) ==
    /\ pc[r] = "admit"
    /\ LET d == dir[kind[r]]
           ok == IF kind[r] = "Libraries" THEN d # {} ELSE "Cargo.toml" \in d
       IN  Goto(r, IF ok THEN "load" ELSE "failed")
    /\ UNCHANGED <<pid, kind, fs, notice, loads>>

\* The directory is listed once; the libraries are opened from that list.
LoadPrebuilt(r) ==
    /\ At(r, "Libraries", "load")
    /\ LET found == Libraries(dir["Libraries"])
       IN  /\ pending' = [pending EXCEPT ![r] = found]
           /\ Goto(r, IF found # {} THEN "dlopen" ELSE "failed")
    /\ UNCHANGED <<pid, kind, fs, notice, loaded>>

LoadLibrary(r) ==
    /\ pc[r] = "dlopen"
    /\ \E l \in pending[r] :
         IF l \in dir["Libraries"]
           THEN /\ loaded' = [loaded EXCEPT ![r] = @ \cup {l}]
                /\ pending' = [pending EXCEPT ![r] = @ \ {l}]
                /\ Goto(r, IF pending[r] = {l} THEN "done" ELSE "dlopen")
           ELSE Goto(r, "failed") /\ UNCHANGED loads
    /\ UNCHANGED <<pid, kind, fs, notice>>

\* cargo builds the packages it finds; the libraries it reports are opened.
LoadSources(r) ==
    /\ At(r, "Sources", "load")
    /\ LET built == IF "Cargo.toml" \in dir["Sources"] THEN dir["Sources"] \cap Lint ELSE {}
       IN  /\ loaded' = [loaded EXCEPT ![r] = built]
           /\ Goto(r, IF built # {} THEN "done" ELSE "failed")
    /\ UNCHANGED <<pid, kind, fs, notice, pending>>

\* cargo fails, or a library does: it does not open, pass the handshake or
\* export a lint.
LoadFails(r) ==
    /\ pc[r] = "dlopen" \/ At(r, "Sources", "load")
    /\ Goto(r, "failed")
    /\ UNCHANGED <<pid, kind, fs, notice, loads>>

\* The process is killed; what it has written stays.
Crash(r) ==
    /\ Live(r)
    /\ Goto(r, "crashed")
    /\ attached' = attached \ {r}
    /\ UNCHANGED <<pid, kind, dir, staging, notice, loads>>

-----------------------------------------------------------------------------
\* The steps that end without anyone else's help.  The exchange with GitHub
\* has a timeout.  `Fetch` has none; nor has the load, which waits for cargo
\* or runs the initializers of a library and its `load`.
Step(r) ==
    \/ CachedPrebuilt(r) \/ CachedCheckout(r) \/ FindAsset(r)
    \/ Exists(r) \/ Open(r) \/ Unlink(r) \/ RemoveDir(r)
    \/ StagePrebuilt(r) \/ Download(r) \/ Extract(r) \/ FinishUnpack(r) \/ UnpackFails(r)
    \/ InstallPrebuilt(r) \/ LosePrebuilt(r)
    \/ CheckoutHolds(r) \/ StageCheckout(r) \/ WriteTree(r) \/ DetachHead(r)
    \/ InstallCheckout(r) \/ LoseCheckout(r)
    \/ Admit(r) \/ LoadPrebuilt(r)

Resting == (\A r \in Run : pc[r] \in Terminal) /\ UNCHANGED vars

Next ==
    \/ \E r \in Run : \/ Start(r) \/ Step(r) \/ Fetch(r) \/ MaterializeFails(r)
                      \/ LoadLibrary(r) \/ LoadSources(r) \/ LoadFails(r) \/ Crash(r)
    \/ Resting

Spec == Init /\ [][Next]_vars

FairSpec == Spec /\ \A r \in Run : WF_vars(Step(r))

\* One run at a time: a process starts only when no other is alive.
SerialNext == Next /\ \A r \in Run : pc[r] = "idle" /\ pc'[r] # "idle" =>
                                     \A s \in Run : ~Live(s)
SerialSpec == Init /\ [][SerialNext]_vars

-----------------------------------------------------------------------------
TypeOK ==
    /\ pc \in [Run -> PC]
    /\ pid \in [Run -> Pid]
    /\ kind \in [Run -> Kind]
    /\ dir \in [Kind -> Dir]
    /\ staging \in [Kind -> [Pid -> Dir]]
    /\ attached \subseteq Run
    /\ notice \in [Run -> Notice]
    /\ pending \in [Run -> SUBSET Lint]
    /\ loaded \in [Run -> SUBSET Lint]

(* No run publishes half of an entry: when an entry that the `cached` of a *)
(* later run would accept comes into being, it is whole.  This is what     *)
(* `install` and `checkout` assemble in a staging directory for.           *)
PublishedWhole ==
    [][\A k \in Kind : ~Accepts(k, dir[k]) /\ Accepts(k, dir'[k]) => Whole(k, dir'[k])]_vars

(* A cache that is warm and that no run is at work on.                     *)
Warm(k) ==
    /\ Whole(k, dir[k])
    /\ \A r \in Run : /\ pc[r] \notin Fetching
                      /\ k = "Libraries" => pc[r] # "cachedCheckout"

(* Once the cache is warm no run asks the network or touches the entry     *)
(* again, which is what `resolve_git` orders its questions for.            *)
WarmStaysWarm == [][\A k \in Kind : Warm(k) => Warm(k)']_vars

(* What `cached` accepts is whole: the unpack or the checkout of a run     *)
(* that stopped halfway is never taken for a finished one.                 *)
AcceptedIsWhole == \A k \in Kind : Accepts(k, dir[k]) => Whole(k, dir[k])

(* A run that reports success has loaded every lint of the pinned source,  *)
(* never the part of them that happened to be there.                       *)
LoadsEveryLint == \A r \in Run : pc[r] = "done" => loaded[r] = Lint

(* The same for a run that starts once every other has ended or died.      *)
StoppedRunLeavesNoPart == (\A r \in Run : ~Live(r)) => AcceptedIsWhole

(* A run that waits for what it has no deadline for: the git remote,       *)
(* cargo, or the code of a library it opens.                               *)
Waiting(r) == pc[r] \in {"fetch", "dlopen"} \/ At(r, "Sources", "load")

(* Every run ends, or waits for somebody outside stiles, whatever the      *)
(* others do to the cache: no discard and no lost rename of `install` and  *)
(* `checkout` starts over for ever.                                        *)
RunsEnd == \A r \in Run : Live(r) ~> (pc[r] \in Terminal \/ Waiting(r))
=============================================================================
