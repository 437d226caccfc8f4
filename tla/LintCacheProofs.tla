-------------------------- MODULE LintCacheProofs --------------------------
(***************************************************************************)
(* Theorems about LintCache, for any number of runs, process ids and lint  *)
(* packages.                                                               *)
(***************************************************************************)
EXTENDS LintCache, TLAPS

USE PidAssumption, LintAssumption

(* The variables keep their types along every step of every run.           *)
THEOREM TypeCorrect == Spec => []TypeOK
<1>1. Init => TypeOK
  BY DEF Init, TypeOK, Kind, Notice, Dir, Tree, Other, PC, Fetching, Terminal
<1>2. TypeOK /\ [Next]_vars => TypeOK'
  <2> SUFFICES ASSUME TypeOK, [Next]_vars PROVE TypeOK'
    OBVIOUS
  <2> USE DEF TypeOK, Goto, At, Stage, Staged, StagingDirectory, Kind, Notice, Dir, PC,
              Fetching, Terminal, Other, fs, loads
  <2>1. CASE UNCHANGED vars
    BY <2>1 DEF vars
  <2>2. ASSUME NEW r \in Run, Start(r) PROVE TypeOK'
    BY <2>2 DEF Start
  <2>3. ASSUME NEW r \in Run, CachedPrebuilt(r) PROVE TypeOK'
    BY <2>3 DEF CachedPrebuilt
  <2>4. ASSUME NEW r \in Run, CachedCheckout(r) PROVE TypeOK'
    BY <2>4 DEF CachedCheckout
  <2>5. ASSUME NEW r \in Run, FindAsset(r) PROVE TypeOK'
    BY <2>5 DEF FindAsset, GiveUp
  <2>6. ASSUME NEW r \in Run, Exists(r) PROVE TypeOK'
    BY <2>6 DEF Exists
  <2>7. ASSUME NEW r \in Run, Open(r) PROVE TypeOK'
    BY <2>7 DEF Open, GiveUp
  <2>8. ASSUME NEW r \in Run, Unlink(r) PROVE TypeOK'
    BY <2>8 DEF Unlink
  <2>9. ASSUME NEW r \in Run, RemoveDir(r) PROVE TypeOK'
    BY <2>9 DEF RemoveDir, GiveUp, Detach
  <2>10. ASSUME NEW r \in Run, StagePrebuilt(r) PROVE TypeOK'
    BY <2>10 DEF StagePrebuilt
  <2>11. ASSUME NEW r \in Run, Download(r) PROVE TypeOK'
    BY <2>11 DEF Download
  <2>12. ASSUME NEW r \in Run, Extract(r) PROVE TypeOK'
    BY <2>12 DEF Extract
  <2>13. ASSUME NEW r \in Run, FinishUnpack(r) PROVE TypeOK'
    BY <2>13 DEF FinishUnpack
  <2>14. ASSUME NEW r \in Run, UnpackFails(r) PROVE TypeOK'
    BY <2>14 DEF UnpackFails, GiveUp
  <2>15. ASSUME NEW r \in Run, NEW k \in Kind, Rename(r, k) PROVE TypeOK'
    BY <2>15 DEF Rename, Detach
  <2>16. ASSUME NEW r \in Run, LosePrebuilt(r) PROVE TypeOK'
    BY <2>16 DEF LosePrebuilt, GiveUp
  <2>17. ASSUME NEW r \in Run, CheckoutHolds(r) PROVE TypeOK'
    BY <2>17 DEF CheckoutHolds
  <2>18. ASSUME NEW r \in Run, StageCheckout(r) PROVE TypeOK'
    BY <2>18 DEF StageCheckout
  <2>19. ASSUME NEW r \in Run, Fetch(r) PROVE TypeOK'
    BY <2>19 DEF Fetch
  <2>20. ASSUME NEW r \in Run, WriteTree(r) PROVE TypeOK'
    BY <2>20 DEF WriteTree, Tree
  <2>21. ASSUME NEW r \in Run, DetachHead(r) PROVE TypeOK'
    BY <2>21 DEF DetachHead
  <2>22. ASSUME NEW r \in Run, MaterializeFails(r) PROVE TypeOK'
    BY <2>22 DEF MaterializeFails, GiveUp
  <2>23. ASSUME NEW r \in Run, LoseCheckout(r) PROVE TypeOK'
    BY <2>23 DEF LoseCheckout, GiveUp
  <2>24. ASSUME NEW r \in Run, Admit(r) PROVE TypeOK'
    BY <2>24 DEF Admit
  <2>25. ASSUME NEW r \in Run, LoadPrebuilt(r) PROVE TypeOK'
    BY <2>25 DEF LoadPrebuilt, Libraries
  <2>26. ASSUME NEW r \in Run, LoadLibrary(r) PROVE TypeOK'
    BY <2>26 DEF LoadLibrary
  <2>27. ASSUME NEW r \in Run, LoadSources(r) PROVE TypeOK'
    BY <2>27 DEF LoadSources
  <2>28. ASSUME NEW r \in Run, LoadFails(r) PROVE TypeOK'
    BY <2>28 DEF LoadFails
  <2>29. ASSUME NEW r \in Run, Crash(r) PROVE TypeOK'
    BY <2>29 DEF Crash
  <2>30. QED
    BY <2>1, <2>2, <2>3, <2>4, <2>5, <2>6, <2>7, <2>8, <2>9, <2>10, <2>11, <2>12, <2>13,
       <2>14, <2>15, <2>16, <2>17, <2>18, <2>19, <2>20, <2>21, <2>22, <2>23, <2>24, <2>25,
       <2>26, <2>27, <2>28, <2>29
       DEF Next, Step, InstallPrebuilt, InstallCheckout, Resting
<1>3. QED
  BY <1>1, <1>2, PTL DEF Spec

-----------------------------------------------------------------------------
(* What a run has in its staging directory at each step, given that no two *)
(* living runs have one process id.                                        *)
PidsDistinct == \A r, s \in Run : r # s /\ Live(r) /\ Live(s) => pid[r] # pid[s]

StagedSoFar(r) ==
    /\ pc[r] = "download" => kind[r] = "Libraries" /\ Staged(r) = {"."}
    /\ pc[r] = "extract" => /\ kind[r] = "Libraries"
                            /\ {".", "archive.tar.gz"} \subseteq Staged(r)
                            /\ Staged(r) \subseteq {".", "archive.tar.gz"} \cup Lint
    /\ pc[r] = "fetch" => kind[r] = "Sources" /\ Staged(r) = {"."}
    /\ pc[r] = "tree" => /\ kind[r] = "Sources"
                         /\ "." \in Staged(r)
                         /\ Staged(r) \subseteq {"."} \cup Tree
    /\ pc[r] = "rename" => Whole(kind[r], Staged(r))

StagingInv == TypeOK /\ PidsDistinct /\ \A r \in Run : StagedSoFar(r)

(* The staging invariant: it is inductive together with the types.         *)
THEOREM StagingCorrect == Spec => []StagingInv
<1>1. Init => StagingInv
  BY DEF Init, StagingInv, PidsDistinct, StagedSoFar, Live, TypeOK, Kind, Notice, Dir, Tree, Other,
         PC, Fetching, Terminal
<1>2. StagingInv /\ TypeOK' /\ [Next]_vars => StagingInv'
  <2> SUFFICES ASSUME StagingInv, TypeOK', [Next]_vars PROVE PidsDistinct' /\ \A s \in Run : StagedSoFar(s)'
    BY DEF StagingInv
  <2> USE DEF StagingInv, TypeOK, Goto, At, Stage, Staged, StagingDirectory, Kind, fs, loads,
              PidsDistinct, StagedSoFar, Live, Terminal
  <2>1. CASE UNCHANGED vars
    BY <2>1 DEF vars, Whole
  <2>2. ASSUME NEW r \in Run, Start(r) PROVE PidsDistinct' /\ \A s \in Run : StagedSoFar(s)'
    BY <2>2 DEF Start
  <2>3. ASSUME NEW r \in Run, CachedPrebuilt(r) PROVE PidsDistinct' /\ \A s \in Run : StagedSoFar(s)'
    BY <2>3 DEF CachedPrebuilt
  <2>4. ASSUME NEW r \in Run, CachedCheckout(r) PROVE PidsDistinct' /\ \A s \in Run : StagedSoFar(s)'
    BY <2>4 DEF CachedCheckout
  <2>5. ASSUME NEW r \in Run, FindAsset(r) PROVE PidsDistinct' /\ \A s \in Run : StagedSoFar(s)'
    BY <2>5 DEF FindAsset, GiveUp
  <2>6. ASSUME NEW r \in Run, Exists(r) PROVE PidsDistinct' /\ \A s \in Run : StagedSoFar(s)'
    BY <2>6 DEF Exists
  <2>7. ASSUME NEW r \in Run, Open(r) PROVE PidsDistinct' /\ \A s \in Run : StagedSoFar(s)'
    BY <2>7 DEF Open, GiveUp
  <2>8. ASSUME NEW r \in Run, Unlink(r) PROVE PidsDistinct' /\ \A s \in Run : StagedSoFar(s)'
    BY <2>8 DEF Unlink
  <2>9. ASSUME NEW r \in Run, RemoveDir(r) PROVE PidsDistinct' /\ \A s \in Run : StagedSoFar(s)'
    BY <2>9 DEF RemoveDir, GiveUp, Detach
  <2>10. ASSUME NEW r \in Run, StagePrebuilt(r) PROVE PidsDistinct' /\ \A s \in Run : StagedSoFar(s)'
    BY <2>10 DEF StagePrebuilt
  <2>11. ASSUME NEW r \in Run, Download(r) PROVE PidsDistinct' /\ \A s \in Run : StagedSoFar(s)'
    <3>1. PidsDistinct'
      BY <2>11 DEF Download
    <3>2. StagedSoFar(r)'
      BY <2>11 DEF Download
    <3>3. ASSUME NEW s \in Run, s # r PROVE StagedSoFar(s)'
      <4>1. CASE Live(s)
        <5>1. Staged(s)' = Staged(s)
          BY <2>11, <3>3, <4>1 DEF Download
        <5>2. pc'[s] = pc[s] /\ kind'[s] = kind[s]
          BY <2>11, <3>3 DEF Download
        <5>3. QED
          BY <5>1, <5>2 DEF Whole
      <4>2. CASE ~Live(s)
        BY <2>11, <3>3, <4>2 DEF Download
      <4>3. QED
        BY <4>1, <4>2
    <3>4. QED
      BY <3>1, <3>2, <3>3
  <2>12. ASSUME NEW r \in Run, Extract(r) PROVE PidsDistinct' /\ \A s \in Run : StagedSoFar(s)'
    BY <2>12 DEF Extract
  <2>13. ASSUME NEW r \in Run, FinishUnpack(r) PROVE PidsDistinct' /\ \A s \in Run : StagedSoFar(s)'
    BY <2>13 DEF FinishUnpack, Whole, Other
  <2>14. ASSUME NEW r \in Run, UnpackFails(r) PROVE PidsDistinct' /\ \A s \in Run : StagedSoFar(s)'
    BY <2>14 DEF UnpackFails, GiveUp
  <2>15. ASSUME NEW r \in Run, NEW k \in Kind, Rename(r, k) PROVE PidsDistinct' /\ \A s \in Run : StagedSoFar(s)'
    BY <2>15 DEF Rename, Detach
  <2>16. ASSUME NEW r \in Run, LosePrebuilt(r) PROVE PidsDistinct' /\ \A s \in Run : StagedSoFar(s)'
    BY <2>16 DEF LosePrebuilt, GiveUp
  <2>17. ASSUME NEW r \in Run, CheckoutHolds(r) PROVE PidsDistinct' /\ \A s \in Run : StagedSoFar(s)'
    BY <2>17 DEF CheckoutHolds
  <2>18. ASSUME NEW r \in Run, StageCheckout(r) PROVE PidsDistinct' /\ \A s \in Run : StagedSoFar(s)'
    BY <2>18 DEF StageCheckout
  <2>19. ASSUME NEW r \in Run, Fetch(r) PROVE PidsDistinct' /\ \A s \in Run : StagedSoFar(s)'
    BY <2>19 DEF Fetch
  <2>20. ASSUME NEW r \in Run, WriteTree(r) PROVE PidsDistinct' /\ \A s \in Run : StagedSoFar(s)'
    <3>1. PidsDistinct'
      BY <2>20 DEF WriteTree
    <3>2. StagedSoFar(r)'
      BY <2>20 DEF WriteTree, Tree
    <3>3. ASSUME NEW s \in Run, s # r PROVE StagedSoFar(s)'
      <4>1. CASE Live(s)
        <5>1. Staged(s)' = Staged(s)
          BY <2>20, <3>3, <4>1 DEF WriteTree
        <5>2. pc'[s] = pc[s] /\ kind'[s] = kind[s]
          BY <2>20, <3>3 DEF WriteTree
        <5>3. QED
          BY <5>1, <5>2 DEF Whole
      <4>2. CASE ~Live(s)
        BY <2>20, <3>3, <4>2 DEF WriteTree
      <4>3. QED
        BY <4>1, <4>2
    <3>4. QED
      BY <3>1, <3>2, <3>3
  <2>21. ASSUME NEW r \in Run, DetachHead(r) PROVE PidsDistinct' /\ \A s \in Run : StagedSoFar(s)'
    BY <2>21 DEF DetachHead, Whole, Other, Tree
  <2>22. ASSUME NEW r \in Run, MaterializeFails(r) PROVE PidsDistinct' /\ \A s \in Run : StagedSoFar(s)'
    BY <2>22 DEF MaterializeFails, GiveUp
  <2>23. ASSUME NEW r \in Run, LoseCheckout(r) PROVE PidsDistinct' /\ \A s \in Run : StagedSoFar(s)'
    BY <2>23 DEF LoseCheckout, GiveUp
  <2>24. ASSUME NEW r \in Run, Admit(r) PROVE PidsDistinct' /\ \A s \in Run : StagedSoFar(s)'
    BY <2>24 DEF Admit
  <2>25. ASSUME NEW r \in Run, LoadPrebuilt(r) PROVE PidsDistinct' /\ \A s \in Run : StagedSoFar(s)'
    BY <2>25 DEF LoadPrebuilt
  <2>26. ASSUME NEW r \in Run, LoadLibrary(r) PROVE PidsDistinct' /\ \A s \in Run : StagedSoFar(s)'
    BY <2>26 DEF LoadLibrary
  <2>27. ASSUME NEW r \in Run, LoadSources(r) PROVE PidsDistinct' /\ \A s \in Run : StagedSoFar(s)'
    BY <2>27 DEF LoadSources
  <2>28. ASSUME NEW r \in Run, LoadFails(r) PROVE PidsDistinct' /\ \A s \in Run : StagedSoFar(s)'
    BY <2>28 DEF LoadFails
  <2>29. ASSUME NEW r \in Run, Crash(r) PROVE PidsDistinct' /\ \A s \in Run : StagedSoFar(s)'
    BY <2>29 DEF Crash
  <2>30. QED
    BY <2>1, <2>2, <2>3, <2>4, <2>5, <2>6, <2>7, <2>8, <2>9, <2>10, <2>11, <2>12, <2>13, <2>14, <2>15, <2>16, <2>17, <2>18, <2>19, <2>20, <2>21, <2>22, <2>23, <2>24, <2>25, <2>26, <2>27, <2>28, <2>29
       DEF Next, Step, InstallPrebuilt, InstallCheckout, Resting
<1>3. QED
  BY <1>1, <1>2, TypeCorrect, PTL DEF Spec

-----------------------------------------------------------------------------
(* The steps that change an entry of the cache.                            *)
LEMMA WhoTouchesTheCache ==
    ASSUME [Next]_vars
    PROVE  \/ UNCHANGED dir
           \/ \E r \in Run : Unlink(r) \/ RemoveDir(r) \/ \E k \in Kind : Rename(r, k)
  BY DEF Next, Step, vars, fs, Resting, Start, CachedPrebuilt, CachedCheckout, FindAsset, Exists,
         Open, StagePrebuilt, Download, Extract, FinishUnpack, UnpackFails, InstallPrebuilt,
         LosePrebuilt, CheckoutHolds, StageCheckout, Fetch, WriteTree, DetachHead,
         MaterializeFails, InstallCheckout, LoseCheckout, Admit, LoadPrebuilt, LoadLibrary,
         LoadSources, LoadFails, Crash, Kind

(* What a run publishes is whole, however many runs are at work on the     *)
(* cache and wherever they die: only the rename of `install` and           *)
(* `checkout` creates an entry, and by then the staging directory is whole.*)
THEOREM PublishesWhole == Spec => PublishedWhole
<1>1. StagingInv /\ [Next]_vars =>
        [\A k \in Kind : ~Accepts(k, dir[k]) /\ Accepts(k, dir'[k]) => Whole(k, dir'[k])]_vars
  <2> SUFFICES ASSUME StagingInv, [Next]_vars, NEW k \in Kind,
                      ~Accepts(k, dir[k]), Accepts(k, dir'[k])
               PROVE  Whole(k, dir'[k])
    OBVIOUS
  <2>1. CASE UNCHANGED dir
    BY <2>1
  <2>2. ASSUME NEW r \in Run, Unlink(r) PROVE FALSE
    BY <2>2 DEF Unlink, Accepts, HoldsLibraries, Libraries, Holds, StagingInv, TypeOK, Kind
  <2>3. ASSUME NEW r \in Run, RemoveDir(r) PROVE FALSE
    BY <2>3 DEF RemoveDir, Accepts, HoldsLibraries, Libraries, Holds, StagingInv, TypeOK, Kind
  <2>4. ASSUME NEW r \in Run, NEW j \in Kind, Rename(r, j) PROVE Whole(k, dir'[k])
    BY <2>4 DEF Rename, At, StagingInv, StagedSoFar, TypeOK, Kind
  <2>5. QED
    BY <2>1, <2>2, <2>3, <2>4, WhoTouchesTheCache
<1>2. QED
  BY <1>1, StagingCorrect, PTL DEF Spec, PublishedWhole

(* Once the cache is warm and no run is fetching, no run ever fetches      *)
(* again and the entry stays as it is.                                     *)
THEOREM WarmForGood == Spec => WarmStaysWarm
<1>1. TypeOK /\ [Next]_vars => [\A k \in Kind : Warm(k) => Warm(k)']_vars
  <2> SUFFICES ASSUME TypeOK, [Next]_vars, NEW k \in Kind, Warm(k) PROVE Warm(k)'
    OBVIOUS
  <2> USE DEF Warm, TypeOK, Goto, Fetching
  <2>1. CASE UNCHANGED vars
    BY <2>1 DEF vars, Whole
  <2>2. UNCHANGED dir
    BY WhoTouchesTheCache DEF Unlink, RemoveDir, Rename, At
  <2>3. Whole(k, dir[k])'
    BY <2>2 DEF Whole
  <2>4. ASSUME NEW r \in Run, CachedPrebuilt(r) PROVE Warm(k)'
    BY <2>3, <2>4 DEF CachedPrebuilt, Whole, HoldsLibraries, Libraries
  <2>5. ASSUME NEW r \in Run, CachedCheckout(r) PROVE Warm(k)'
    BY <2>3, <2>5 DEF CachedCheckout, Whole, Holds, Kind
  <2>6. ASSUME NEW r \in Run, Start(r) \/ Admit(r) \/ LoadPrebuilt(r) \/ LoadLibrary(r)
                              \/ LoadSources(r) \/ LoadFails(r) \/ Crash(r)
        PROVE  Warm(k)'
    BY <2>3, <2>6 DEF Start, Admit, LoadPrebuilt, LoadLibrary, LoadSources, LoadFails, Crash, At
  <2>7. QED
    BY <2>1, <2>4, <2>5, <2>6
       DEF Next, Step, Resting, FindAsset, Exists, Open, Unlink, RemoveDir, StagePrebuilt,
           Download, Extract, FinishUnpack, UnpackFails, InstallPrebuilt, InstallCheckout, Rename,
           LosePrebuilt, CheckoutHolds, StageCheckout, Fetch, WriteTree, DetachHead,
           MaterializeFails, LoseCheckout, At
<1>2. QED
  BY <1>1, TypeCorrect, PTL DEF Spec, WarmStaysWarm

-----------------------------------------------------------------------------
(* One run at a time.  A run that reaches the discard found nothing to     *)
(* accept, and nobody has put anything there since; a run that reaches the *)
(* load found or made an entry, and nobody has touched it since.           *)
OneLive == \A r, s \in Run : Live(r) /\ Live(s) => r = s

Position(r) ==
    /\ pc[r] \in {"idle", "cached", "cachedCheckout", "findAsset", "dlopen"} => kind[r] = "Libraries"
    /\ pc[r] = "holds" => kind[r] = "Sources"
    /\ pc[r] \in {"cachedCheckout", "findAsset", "exists", "open", "unlink"}
         => ~Accepts(kind[r], dir[kind[r]])
    /\ pc[r] \in {"admit", "load", "dlopen"} => Accepts(kind[r], dir[kind[r]])
    /\ pc[r] = "dlopen" => pending[r] \cup loaded[r] = Lint

SerialInv == OneLive /\ AcceptedIsWhole /\ LoadsEveryLint /\ \A r \in Run : Position(r)

LEMMA SerialIsSpec == SerialSpec => Spec
<1>1. [SerialNext]_vars => [Next]_vars
  BY DEF SerialNext
<1>2. QED
  BY <1>1, PTL DEF SerialSpec, Spec

(* The invariant holds when runs follow one another, each possibly dying   *)
(* at any step.                                                            *)
LEMMA SerialInvariant == SerialSpec => []SerialInv
<1>1. Init => SerialInv
  BY DEF Init, SerialInv, OneLive, Live, Terminal, AcceptedIsWhole, LoadsEveryLint, Position,
         Accepts, HoldsLibraries, Libraries, Holds, Kind, Tree, Other
<1>2. SerialInv /\ StagingInv /\ StagingInv' /\ [SerialNext]_vars => SerialInv'
  <2> SUFFICES ASSUME SerialInv, StagingInv, StagingInv', [SerialNext]_vars PROVE SerialInv'
    OBVIOUS
  <2> USE DEF SerialInv, StagingInv, TypeOK, Goto, At, Kind, fs, loads, OneLive, Live, Terminal,
              AcceptedIsWhole, LoadsEveryLint, Position
  <2>1. CASE UNCHANGED vars
    BY <2>1 DEF vars
  <2>2. ASSUME NEW r \in Run, Start(r) PROVE SerialInv'
    <3>1. pc'[r] = "cached" /\ pc[r] = "idle"
      BY <2>2 DEF Start
    <3>2. SerialNext
      BY <3>1 DEF vars
    <3>3. \A s \in Run : ~Live(s)
      BY <3>1, <3>2 DEF SerialNext
    <3>4. QED
      BY <2>2, <3>3 DEF Start
  <2>3. ASSUME NEW r \in Run, CachedPrebuilt(r) PROVE SerialInv'
    BY <2>3 DEF CachedPrebuilt, Accepts, HoldsLibraries, Libraries, Holds
  <2>4. ASSUME NEW r \in Run, CachedCheckout(r) PROVE SerialInv'
    BY <2>4 DEF CachedCheckout, Accepts, HoldsLibraries, Libraries, Holds
  <2>5. ASSUME NEW r \in Run, FindAsset(r) PROVE SerialInv'
    BY <2>5 DEF FindAsset, GiveUp
  <2>6. ASSUME NEW r \in Run, Exists(r) PROVE SerialInv'
    BY <2>6 DEF Exists
  <2>7. ASSUME NEW r \in Run, Open(r) PROVE SerialInv'
    BY <2>7 DEF Open, GiveUp
  <2>8. ASSUME NEW r \in Run, Unlink(r) PROVE SerialInv'
    BY <2>8 DEF Unlink, Accepts, HoldsLibraries, Libraries, Holds
  <2>9. ASSUME NEW r \in Run, RemoveDir(r) PROVE SerialInv'
    BY <2>9 DEF RemoveDir, GiveUp, Detach, Accepts, HoldsLibraries, Libraries, Holds
  <2>10. ASSUME NEW r \in Run, StagePrebuilt(r) PROVE SerialInv'
    BY <2>10 DEF StagePrebuilt
  <2>11. ASSUME NEW r \in Run, Download(r) PROVE SerialInv'
    BY <2>11 DEF Download
  <2>12. ASSUME NEW r \in Run, Extract(r) PROVE SerialInv'
    BY <2>12 DEF Extract
  <2>13. ASSUME NEW r \in Run, FinishUnpack(r) PROVE SerialInv'
    BY <2>13 DEF FinishUnpack
  <2>14. ASSUME NEW r \in Run, UnpackFails(r) PROVE SerialInv'
    BY <2>14 DEF UnpackFails, GiveUp
  <2>15. ASSUME NEW r \in Run, NEW k \in Kind, Rename(r, k) PROVE SerialInv'
    <3>1. OneLive' /\ LoadsEveryLint'
      BY <2>15 DEF Rename
    <3>2. CASE dir[k] \subseteq {"."}
      <4>1. Whole(k, Staged(r))
        BY <2>15 DEF Rename, StagedSoFar
      <4>2. dir' = [dir EXCEPT ![k] = Staged(r)] /\ pc' = [pc EXCEPT ![r] = "admit"]
              /\ kind' = kind /\ kind[r] = k
        BY <2>15, <3>2 DEF Rename
      <4>3. Accepts(k, dir'[k])
        BY <4>1, <4>2 DEF Whole, Accepts, HoldsLibraries, Libraries, Holds
      <4>4. AcceptedIsWhole'
        BY <4>1, <4>2
      <4>5. ASSUME NEW s \in Run PROVE Position(s)'
        <5>1. CASE s = r
          BY <4>2, <4>3, <5>1
        <5>2. CASE s # r
          BY <2>15, <4>2, <5>2 DEF Rename
        <5>3. QED
          BY <5>1, <5>2
      <4>6. QED
        BY <3>1, <4>4, <4>5
    <3>3. CASE ~(dir[k] \subseteq {"."})
      BY <2>15, <3>3 DEF Rename
    <3>4. QED
      BY <3>2, <3>3
  <2>16. ASSUME NEW r \in Run, LosePrebuilt(r) PROVE SerialInv'
    BY <2>16 DEF LosePrebuilt, GiveUp, Accepts, HoldsLibraries, Libraries, Holds
  <2>17. ASSUME NEW r \in Run, CheckoutHolds(r) PROVE SerialInv'
    BY <2>17 DEF CheckoutHolds, Accepts, HoldsLibraries, Libraries, Holds
  <2>18. ASSUME NEW r \in Run, StageCheckout(r) PROVE SerialInv'
    BY <2>18 DEF StageCheckout
  <2>19. ASSUME NEW r \in Run, Fetch(r) PROVE SerialInv'
    BY <2>19 DEF Fetch
  <2>20. ASSUME NEW r \in Run, WriteTree(r) PROVE SerialInv'
    BY <2>20 DEF WriteTree
  <2>21. ASSUME NEW r \in Run, DetachHead(r) PROVE SerialInv'
    BY <2>21 DEF DetachHead
  <2>22. ASSUME NEW r \in Run, MaterializeFails(r) PROVE SerialInv'
    BY <2>22 DEF MaterializeFails, GiveUp
  <2>23. ASSUME NEW r \in Run, LoseCheckout(r) PROVE SerialInv'
    BY <2>23 DEF LoseCheckout, GiveUp, Accepts, HoldsLibraries, Libraries, Holds
  <2>24. ASSUME NEW r \in Run, Admit(r) PROVE SerialInv'
    BY <2>24 DEF Admit
  <2>25. ASSUME NEW r \in Run, LoadPrebuilt(r) PROVE SerialInv'
    BY <2>25 DEF LoadPrebuilt, Accepts, HoldsLibraries, Libraries, Holds, Whole
  <2>26. ASSUME NEW r \in Run, LoadLibrary(r) PROVE SerialInv'
    <3>1. OneLive' /\ AcceptedIsWhole'
      BY <2>26 DEF LoadLibrary
    <3>2. PICK l \in pending[r] :
            IF l \in dir["Libraries"]
              THEN /\ loaded' = [loaded EXCEPT ![r] = @ \cup {l}]
                   /\ pending' = [pending EXCEPT ![r] = @ \ {l}]
                   /\ Goto(r, IF pending[r] = {l} THEN "done" ELSE "dlopen")
              ELSE Goto(r, "failed") /\ UNCHANGED loads
      BY <2>26 DEF LoadLibrary
    <3>3. pending[r] \cup loaded[r] = Lint
      BY <2>26 DEF LoadLibrary
    <3>4. LoadsEveryLint'
      <4>1. ASSUME pc'[r] = "done" PROVE loaded'[r] = Lint
        <5>1. pending[r] = {l} /\ loaded'[r] = loaded[r] \cup {l}
          BY <3>2, <4>1
        <5>2. QED
          BY <3>3, <5>1
      <4>2. ASSUME NEW s \in Run, s # r PROVE pc'[s] = pc[s] /\ loaded'[s] = loaded[s]
        BY <3>2, <4>2
      <4>3. QED
        BY <4>1, <4>2
    <3>5. ASSUME NEW s \in Run PROVE Position(s)'
      BY <2>26, <3>2, <3>3 DEF LoadLibrary
    <3>6. QED
      BY <3>1, <3>4, <3>5
  <2>27. ASSUME NEW r \in Run, LoadSources(r) PROVE SerialInv'
    BY <2>27 DEF LoadSources, Accepts, HoldsLibraries, Libraries, Holds, Whole, Tree
  <2>28. ASSUME NEW r \in Run, LoadFails(r) PROVE SerialInv'
    BY <2>28 DEF LoadFails
  <2>29. ASSUME NEW r \in Run, Crash(r) PROVE SerialInv'
    BY <2>29 DEF Crash
  <2>30. QED
    BY <2>1, <2>2, <2>3, <2>4, <2>5, <2>6, <2>7, <2>8, <2>9, <2>10, <2>11, <2>12, <2>13, <2>14, <2>15, <2>16, <2>17, <2>18, <2>19, <2>20, <2>21, <2>22, <2>23, <2>24, <2>25, <2>26, <2>27, <2>28, <2>29
       DEF SerialNext, Next, Step, InstallPrebuilt, InstallCheckout, Resting
<1>3. QED
  BY <1>1, <1>2, SerialIsSpec, StagingCorrect, PTL DEF SerialSpec

(* When runs follow one another, what `cached` of prebuilt or of           *)
(* git_source accepts is never half-made, wherever an earlier run died.    *)
THEOREM SerialAcceptsWhole == SerialSpec => []AcceptedIsWhole
<1>1. SerialInv => AcceptedIsWhole
  BY DEF SerialInv
<1>2. QED
  BY <1>1, SerialInvariant, PTL

(* And a run that ends well has loaded every lint of the pinned source,    *)
(* from libraries found, unpacked or built (`configured_sources`).         *)
THEOREM SerialLoadsEveryLint == SerialSpec => []LoadsEveryLint
<1>1. SerialInv => LoadsEveryLint
  BY DEF SerialInv
<1>2. QED
  BY <1>1, SerialInvariant, PTL
=============================================================================
