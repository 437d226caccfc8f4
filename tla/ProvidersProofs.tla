--------------------------- MODULE ProvidersProofs ---------------------------
(***************************************************************************)
(* Theorems about Providers, for any files, directories, texts and edits.  *)
(***************************************************************************)
EXTENDS Providers, WellFoundedInduction, TLAPS

(* Finitely many numbers have a greatest one.                              *)
LEMMA Greatest ==
    ASSUME NEW N \in Nat, NEW S \in SUBSET (1..N), S # {}
    PROVE  \E m \in S : \A x \in S : x <= m
<1> DEFINE T == {N - x : x \in S}
<1>1. T \subseteq Nat /\ T # {}
  <2>1. \A x \in S : x \in 1..N /\ N - x \in Nat
    OBVIOUS
  <2>2. PICK x \in S : TRUE
    OBVIOUS
  <2>3. N - x \in T
    BY <2>2
  <2> QED
    BY <2>1, <2>3
<1>2. PICK t \in T : \A y \in T : ~(<<y, t>> \in OpToRel(<, Nat))
  BY <1>1, NatLessThanWellFounded, WFMin
<1>3. PICK m \in S : t = N - m
  BY <1>2
<1>4. ASSUME NEW x \in S
      PROVE  x <= m
  <2>1. N - x \in T /\ N - x \in Nat /\ t \in Nat
    BY <1>1
  <2>2. ~(N - x < t)
    BY <1>2, <2>1 DEF OpToRel
  <2> QED
    BY <1>3, <2>1, <2>2
<1> QED
  BY <1>3, <1>4

(* `discover_root` finds nothing, or a directory at or above the one it    *)
(* starts from.                                                            *)
LEMMA RootIsAbove ==
    ASSUME configs \subseteq Dir, NEW d \in Dir
    PROVE  DiscoverRoot(d) = NoRoot \/ (DiscoverRoot(d) \in Dir /\ DiscoverRoot(d) <= d)
<1> DEFINE holding == {e \in configs : e <= d}
<1>1. CASE holding = {}
  BY <1>1 DEF DiscoverRoot
<1>2. CASE holding # {}
  <2>1. \E m \in holding : \A x \in holding : x <= m
    <3>1. holding \in SUBSET (1..Depth) /\ Depth \in Nat
      BY ProvidersAssumption DEF Dir
    <3> QED
      BY <1>2, <3>1, Greatest
  <2>2. DiscoverRoot(d) \in holding
    BY <1>2, <2>1 DEF DiscoverRoot
  <2> QED
    BY <2>2
<1> QED
  BY <1>1, <1>2

-----------------------------------------------------------------------------
(* The inductive invariant: the walk compares a real text, and a provider  *)
(* was loaded from a root at or above the one it is kept under.            *)
DiskInv == disk \in [File -> Text \cup {NotUtf8}] /\ configs \subseteq Dir
SourceInv == pc = "decorate" => source \in Text
RootInv == /\ pc = "project" => root \in Dir
           /\ \A p \in typescript : p.root \in Dir /\ p.key \in Dir /\ p.root <= p.key
ResultInv == DOMAIN verdict = File /\ DOMAIN seen = File /\ DOMAIN used = File
PInv == /\ DiskInv /\ SourceInv /\ RootInv /\ ResultInv
        /\ CoveredIsCurrent /\ AskedProjectEncloses

(* A file that is settled with anything but a foreign text under "Covered" *)
(* and a foreign project under "OutsideRoot" leaves the results in order.  *)
LEMMA SettleKeeps ==
    ASSUME PInv, NEW f \in File, NEW v, NEW t, Settle(f, v, t),
           v = "Covered" => t = source /\ t \in Text,
           f \in TsFile => v # "OutsideRoot",
           UNCHANGED <<project, root, loaded>>
    PROVE  PInv'
<1>1. DiskInv' /\ SourceInv' /\ RootInv' /\ ResultInv'
  BY DEF PInv, DiskInv, SourceInv, RootInv, ResultInv, Settle, project, loaded
<1>2. CoveredIsCurrent'
  BY DEF PInv, ResultInv, CoveredIsCurrent, Settle
<1>3. AskedProjectEncloses'
  BY DEF PInv, ResultInv, AskedProjectEncloses, Settle
<1> QED
  BY <1>1, <1>2, <1>3 DEF PInv

LEMMA InitInv == Init => PInv
<1> SUFFICES ASSUME Init
             PROVE  PInv
  OBVIOUS
<1>1. DiskInv /\ SourceInv /\ RootInv
  BY DEF Init, DiskInv, SourceInv, RootInv
<1>2. ResultInv
  BY DEF Init, ResultInv
<1>3. \A f \in File : verdict[f] = "none"
  BY DEF Init
<1>4. CoveredIsCurrent /\ AskedProjectEncloses
  BY <1>3 DEF CoveredIsCurrent, AskedProjectEncloses, File
<1> QED
  BY <1>1, <1>2, <1>4 DEF PInv

(* Every action keeps the invariant, the editor's included.                *)
LEMMA NextInv ==
    ASSUME PInv, [Next]_vars
    PROVE  PInv'
<1> USE DEF PInv
<1>1. CASE Edit
  <2>1. DiskInv'
    BY <1>1 DEF Edit, DiskInv
  <2>2. UNCHANGED <<pc, root, typescript, source, verdict, seen, used>>
    BY <1>1 DEF Edit, loaded, results
  <2> QED
    BY <2>1, <2>2 DEF SourceInv, RootInv, ResultInv, CoveredIsCurrent, AskedProjectEncloses
<1>2. CASE LoadProject
  <2>1. UNCHANGED <<disk, configs, source, verdict, seen, used>> /\ pc' = "load"
    BY <1>2 DEF LoadProject, project, results
  <2>2. root \in Dir /\ DiscoverRoot(root) \in Dir /\ DiscoverRoot(root) <= root
    BY <1>2, RootIsAbove DEF LoadProject, RootInv, DiskInv
  <2>3. RootInv'
    BY <1>2, <2>1, <2>2 DEF LoadProject, RootInv
  <2> QED
    BY <2>1, <2>3 DEF DiskInv, SourceInv, ResultInv, CoveredIsCurrent, AskedProjectEncloses
<1>3. CASE LoadRust \/ LoadFails \/ Repair \/ End
  <2>1. UNCHANGED <<disk, configs, root, typescript, source, verdict, seen, used>>
        /\ pc' \notin {"project", "decorate"}
    BY <1>3 DEF LoadRust, LoadFails, Repair, End, project, loaded, results
  <2> QED
    BY <2>1 DEF DiskInv, SourceInv, RootInv, ResultInv, CoveredIsCurrent, AskedProjectEncloses
<1>4. ASSUME NEW f \in File, LoadNothing(f) \/ FindProject(f) \/ Read(f) \/ DatabasePanics(f)
      PROVE  PInv'
  <2>1. UNCHANGED <<disk, configs, typescript, verdict, seen, used>>
    BY <1>4 DEF LoadNothing, FindProject, Read, DatabasePanics, project, loaded, results
  <2>2. SourceInv'
    BY <1>4 DEF LoadNothing, FindProject, Read, DatabasePanics, SourceInv, DiskInv
  <2>3. RootInv'
    <3>1. CASE FindProject(f)
      <4>1. HomeOf[f] \in Dir
        BY <3>1, ProvidersAssumption DEF FindProject
      <4>2. DiscoverRoot(HomeOf[f]) \in Dir
        BY <3>1, <4>1, RootIsAbove DEF FindProject, DiskInv
      <4> QED
        BY <2>1, <3>1, <4>2 DEF FindProject, RootInv
    <3>2. CASE LoadNothing(f) \/ Read(f) \/ DatabasePanics(f)
      BY <2>1, <3>2 DEF LoadNothing, Read, DatabasePanics, RootInv
    <3> QED
      BY <1>4, <3>1, <3>2
  <2> QED
    BY <2>1, <2>2, <2>3 DEF DiskInv, ResultInv, CoveredIsCurrent, AskedProjectEncloses
<1>5. ASSUME NEW f \in File, CannotRead(f) \/ NoProject(f) \/ NobodyToAsk(f)
      PROVE  PInv'
  <2>1. PICK v \in {"unreadable", "NoProject", "no_provider"} : Settle(f, v, NoText)
    BY <1>5 DEF CannotRead, NoProject, NobodyToAsk
  <2>2. UNCHANGED <<project, root, loaded>>
    BY <1>5 DEF CannotRead, NoProject, NobodyToAsk
  <2>3. v # "Covered" /\ v # "OutsideRoot"
    BY <2>1
  <2> QED
    BY <2>1, <2>2, <2>3, SettleKeeps
<1>6. ASSUME NEW f \in File, DecorateTypeScript(f)
      PROVE  PInv'
  <2>1. source \in Text /\ f \in TsFile /\ UNCHANGED <<project, root, loaded>>
    BY <1>6 DEF DecorateTypeScript, At, SourceInv
  <2>2. PICK p \in ForFile(f) :
          IF p.role[f] # "held" THEN Settle(f, TsGap(p, f), NoText)
          ELSE IF p.text[f] # source THEN Settle(f, "StaleSource", NoText)
          ELSE Settle(f, "Covered", p.text[f])
    BY <1>6 DEF DecorateTypeScript
  <2>3. TsGap(p, f) \in {"ExcludedByToolchain", "Unreachable"}
    <3>1. HomeOf[f] \in Dir /\ DiscoverRoot(HomeOf[f]) # NoRoot
      BY <1>6, <2>1, ProvidersAssumption DEF DecorateTypeScript
    <3>2. DiscoverRoot(HomeOf[f]) \in Dir /\ DiscoverRoot(HomeOf[f]) <= HomeOf[f]
      BY <3>1, RootIsAbove DEF DiskInv
    <3>3. p.root \in Dir /\ p.root <= DiscoverRoot(HomeOf[f])
      BY <2>2 DEF ForFile, RootInv
    <3>4. ~(HomeOf[f] < p.root)
      BY <3>1, <3>2, <3>3, ProvidersAssumption DEF Dir
    <3> QED
      BY <3>4 DEF TsGap
  <2>4. CASE p.role[f] # "held"
    <3>1. Settle(f, TsGap(p, f), NoText)
      BY <2>2, <2>4
    <3>2. TsGap(p, f) # "Covered" /\ TsGap(p, f) # "OutsideRoot"
      BY <2>3
    <3> QED
      BY <2>1, <3>1, <3>2, SettleKeeps
  <2>5. CASE p.role[f] = "held" /\ p.text[f] # source
    <3>1. Settle(f, "StaleSource", NoText)
      BY <2>2, <2>5
    <3> QED
      BY <2>1, <3>1, SettleKeeps
  <2>6. CASE p.role[f] = "held" /\ p.text[f] = source
    <3>1. Settle(f, "Covered", p.text[f])
      BY <2>2, <2>6
    <3> QED
      BY <2>1, <2>6, <3>1, SettleKeeps
  <2> QED
    BY <2>4, <2>5, <2>6
<1>7. ASSUME NEW f \in File, DecorateRust(f)
      PROVE  PInv'
  <2>1. source \in Text /\ f \in RustFile /\ f \notin TsFile /\ UNCHANGED <<project, root, loaded>>
    BY <1>7, ProvidersAssumption DEF DecorateRust, At, SourceInv
  <2>2. PICK p \in rust :
          Settle(f, RustVerdict(p, f), IF RustVerdict(p, f) = "Covered" THEN p.text[f] ELSE NoText)
    BY <1>7 DEF DecorateRust
  <2>3. RustVerdict(p, f) = "Covered" => p.text[f] = source
    BY DEF RustVerdict, RustGap
  <2> QED
    BY <2>1, <2>2, <2>3, SettleKeeps
<1>8. CASE UNCHANGED vars
  BY <1>8 DEF vars, project, loaded, results, DiskInv, SourceInv, RootInv, ResultInv,
              CoveredIsCurrent, AskedProjectEncloses
<1> QED
  BY <1>1, <1>2, <1>3, <1>4, <1>5, <1>6, <1>7, <1>8 DEF Next

(* However a project is edited while a run loads and walks it, the lints   *)
(* only ever see decorations of the very text they are shown, because both *)
(* `decorate`s compare the texts.                                          *)
THEOREM DecorationsAreCurrent == Spec => []CoveredIsCurrent
<1>1. PInv => CoveredIsCurrent
  BY DEF PInv
<1> QED
  BY <1>1, InitInv, NextInv, PTL DEF Spec

(* However tsconfig.json files come and go, `for_file` hands a TypeScript  *)
(* file to no project that lies beside or below it.                        *)
THEOREM ProjectsEnclose == Spec => []AskedProjectEncloses
<1>1. PInv => AskedProjectEncloses
  BY DEF PInv
<1> QED
  BY <1>1, InitInv, NextInv, PTL DEF Spec

-----------------------------------------------------------------------------
(* A run nobody interferes with.  Until the first edit, what the run loads *)
(* is what it finds again in the walk.                                     *)

\* The root that is looked up for a file is one the run has loaded, or is
\* about to.
Served(f) ==
    \/ DiscoverRoot(HomeOf[f]) = NoRoot
    \/ IsLoaded(DiscoverRoot(HomeOf[f]))
    \/ pc = "project" /\ root = DiscoverRoot(HomeOf[f])
ServedInv ==
    pc # "failed" => \A f \in TsFile : (pc \in {"load", "project"} => f \notin todo) => Served(f)

\* The providers analyzed what is on disk, tsrs as it decodes it, and the walk
\* read it.
TsTextInv == \A p \in typescript : \A f \in TsFile : p.text[f] = Decode(disk[f])
RustTextInv ==
    \A p \in rust : \A f \in RustFile :
        /\ p.role[f] \in RustRole
        /\ p.role[f] \in {"module", "orphan"} /\ disk[f] # NotUtf8 => p.text[f] = disk[f]
        /\ p.role[f] \in {"module", "orphan"} /\ f \in Inside /\ pc \in {"walk", "decorate"} =>
               p.text[f] # NoText
ReadInv == \A f \in File : At(f) => source = disk[f] /\ source # NotUtf8

\* The verdicts so far.
AnswerInv ==
    /\ \A f \in File : verdict[f] # "no_provider"
    /\ \A f \in RustFile : verdict[f] # "StaleSource"
    /\ \A f \in TsFile : /\ verdict[f] = "StaleSource" => seen[f] \in Marked
                         /\ verdict[f] = "Covered" => seen[f] \notin Marked
                         /\ verdict[f] = "NoProject" => \A d \in configs : d > HomeOf[f]
QuietInv ==
    /\ edits \in Nat
    /\ edits = 0 => ServedInv /\ TsTextInv /\ RustTextInv /\ ReadInv /\ AnswerInv

\* `discover_root` finds nothing only where there is nothing.
LEMMA NothingAbove ==
    ASSUME configs \subseteq Dir, NEW d \in Dir, DiscoverRoot(d) = NoRoot
    PROVE  \A e \in configs : e > d
<1> DEFINE holding == {e \in configs : e <= d}
<1>1. holding = {}
  <2> SUFFICES ASSUME holding # {} PROVE FALSE
    OBVIOUS
  <2>1. holding \in SUBSET (1..Depth) /\ Depth \in Nat
    BY ProvidersAssumption DEF Dir
  <2>2. \E m \in holding : \A x \in holding : x <= m
    BY <2>1, Greatest
  <2>3. DiscoverRoot(d) \in holding
    BY <2>2 DEF DiscoverRoot
  <2> QED
    BY <2>1, <2>3 DEF NoRoot
<1> QED
  BY <1>1, ProvidersAssumption DEF Dir

\* A file that is settled with an answer leaves the results of a quiet run in
\* order.
LEMMA SettleIsQuiet ==
    ASSUME PInv, QuietInv, NEW f \in File, NEW v, NEW t, Settle(f, v, t),
           UNCHANGED <<project, root, loaded>>, pc \in {"walk", "decorate"},
           edits = 0 => v # "no_provider",
           edits = 0 /\ v = "StaleSource" => f \notin RustFile /\ source \in Marked,
           edits = 0 /\ v = "Covered" /\ f \in TsFile => source \notin Marked,
           edits = 0 /\ v = "NoProject" /\ f \in TsFile => \A d \in configs : d > HomeOf[f]
    PROVE  QuietInv'
<1>1. UNCHANGED <<disk, configs, edits, root, typescript, rust>> /\ pc' = "walk"
  BY DEF Settle, project, loaded
<1>2. \A g \in File : /\ verdict'[g] = IF g = f THEN v ELSE verdict[g]
                      /\ seen'[g] = IF g = f THEN source ELSE seen[g]
  BY DEF Settle, PInv, ResultInv
<1>3. ASSUME edits = 0
      PROVE  ServedInv' /\ TsTextInv' /\ RustTextInv' /\ ReadInv' /\ AnswerInv'
  <2>1. ServedInv'
    <3>1. \A g \in TsFile : Served(g)
      BY <1>3 DEF QuietInv, ServedInv
    <3> QED
      BY <1>1, <3>1 DEF ServedInv, Served, DiscoverRoot, IsLoaded
  <2>2. TsTextInv' /\ RustTextInv'
    BY <1>1, <1>3 DEF QuietInv, TsTextInv, RustTextInv
  <2>3. ReadInv'
    BY <1>1 DEF ReadInv, At
  <2>4. AnswerInv'
    BY <1>1, <1>2, <1>3 DEF QuietInv, AnswerInv, File
  <2> QED
    BY <2>1, <2>2, <2>3, <2>4
<1> QED
  BY <1>1, <1>3 DEF QuietInv

LEMMA QuietInit == Init => QuietInv
<1> SUFFICES ASSUME Init PROVE QuietInv
  OBVIOUS
<1>1. ServedInv /\ TsTextInv /\ RustTextInv /\ ReadInv
  BY DEF Init, ServedInv, TsTextInv, RustTextInv, ReadInv, At, File
<1>2. \A f \in File : verdict[f] = "none"
  BY DEF Init
<1>3. AnswerInv
  BY <1>2 DEF AnswerInv, File
<1> QED
  BY <1>1, <1>3 DEF Init, QuietInv

LEMMA QuietNext ==
    ASSUME PInv, QuietInv, [Next]_vars
    PROVE  QuietInv'
<1>1. CASE Edit
  BY <1>1 DEF Edit, QuietInv
<1>2. CASE LoadProject
  <2>1. UNCHANGED <<disk, configs, edits, todo, rust, source, verdict, seen>> /\ pc' = "load"
        /\ pc = "project"
    BY <1>2 DEF LoadProject, project, results
  <2>2. PICK role : typescript' = typescript \cup
             {[key |-> root, root |-> DiscoverRoot(root), role |-> role,
               text |-> [f \in TsFile |-> Decode(disk[f])]]}
    BY <1>2 DEF LoadProject
  <2>3. ASSUME edits = 0
        PROVE  ServedInv' /\ TsTextInv' /\ RustTextInv' /\ ReadInv' /\ AnswerInv'
    <3>1. ServedInv'
      <4>1. ASSUME NEW f \in TsFile, f \notin todo PROVE Served(f)'
        <5>1. Served(f)
          BY <2>1, <2>3, <4>1 DEF QuietInv, ServedInv
        <5>2. DiscoverRoot(HomeOf[f])' = DiscoverRoot(HomeOf[f])
          BY <2>1 DEF DiscoverRoot
        <5>3. ASSUME NEW r, IsLoaded(r) \/ r = root PROVE IsLoaded(r)'
          <6>1. CASE IsLoaded(r)
            BY <2>2, <6>1 DEF IsLoaded
          <6>2. CASE r = root
            <7>1. PICK q : q = [key |-> root, root |-> DiscoverRoot(root), role |-> role,
                                text |-> [g \in TsFile |-> Decode(disk[g])]]
              OBVIOUS
            <7>2. q \in typescript' /\ q.key = r
              BY <2>2, <6>2, <7>1
            <7> QED
              BY <7>2 DEF IsLoaded
          <6> QED
            BY <5>3, <6>1, <6>2
        <5> QED
          BY <5>1, <5>2, <5>3 DEF Served
      <4> QED
        BY <2>1, <4>1 DEF ServedInv
    <3>2. TsTextInv'
      BY <2>1, <2>2, <2>3 DEF QuietInv, TsTextInv
    <3>3. RustTextInv' /\ ReadInv' /\ AnswerInv'
      BY <2>1, <2>3 DEF QuietInv, RustTextInv, ReadInv, AnswerInv, At
    <3> QED
      BY <3>1, <3>2, <3>3
  <2> QED
    BY <2>1, <2>3 DEF QuietInv
<1>3. CASE LoadRust
  <2>1. UNCHANGED <<disk, configs, edits, todo, root, typescript, source, verdict, seen>>
        /\ pc = "load" /\ pc' = "repair" /\ todo = {}
    BY <1>3 DEF LoadRust, project, results
  <2>2. ASSUME edits = 0
        PROVE  ServedInv' /\ TsTextInv' /\ RustTextInv' /\ ReadInv' /\ AnswerInv'
    <3>1. ServedInv'
      BY <2>1, <2>2 DEF QuietInv, ServedInv, Served, DiscoverRoot, IsLoaded
    <3>2. TsTextInv' /\ ReadInv' /\ AnswerInv'
      BY <2>1, <2>2 DEF QuietInv, TsTextInv, ReadInv, AnswerInv, At
    <3>3. RustTextInv'
      BY <1>3, <2>1, <2>2 DEF LoadRust, QuietInv, RustTextInv
    <3> QED
      BY <3>1, <3>2, <3>3
  <2> QED
    BY <2>1, <2>2 DEF QuietInv
<1>4. CASE Repair
  <2>1. UNCHANGED <<disk, configs, edits, root, typescript, source, verdict, seen>>
        /\ pc = "repair" /\ pc' = "walk"
    BY <1>4 DEF Repair, project, results
  <2>2. ASSUME edits = 0
        PROVE  ServedInv' /\ TsTextInv' /\ RustTextInv' /\ ReadInv' /\ AnswerInv'
    <3>1. ServedInv'
      BY <2>1, <2>2 DEF QuietInv, ServedInv, Served, DiscoverRoot, IsLoaded
    <3>2. TsTextInv' /\ ReadInv' /\ AnswerInv'
      BY <2>1, <2>2 DEF QuietInv, TsTextInv, ReadInv, AnswerInv, At
    <3>3. RustTextInv'
      <4> SUFFICES ASSUME NEW q \in rust', NEW f \in RustFile
                   PROVE  /\ q.role[f] \in RustRole
                          /\ q.role[f] \in {"module", "orphan"} =>
                               /\ disk[f] # NotUtf8 => q.text[f] = disk[f]
                               /\ f \in Inside => q.text[f] # NoText
        BY <2>1 DEF RustTextInv
      <4>1. PICK p \in rust :
              q = [p EXCEPT !.text = [g \in RustFile |->
                      IF Interned(p, g) /\ g \in Inside /\ disk[g] = NotUtf8
                        THEN Lossy ELSE p.text[g]]]
        BY <1>4 DEF Repair
      <4>2. /\ p.role[f] = q.role[f]
            /\ q.text[f] = IF Interned(p, f) /\ f \in Inside /\ disk[f] = NotUtf8
                             THEN Lossy ELSE p.text[f]
        BY <4>1
      <4>3. p.role[f] \in {"module", "orphan"} /\ disk[f] # NotUtf8 =>
              p.text[f] = disk[f] /\ disk[f] \in Text
        BY <2>2, <4>2 DEF QuietInv, RustTextInv, PInv, DiskInv, File
      <4>4. p.role[f] \in RustRole
        BY <2>2 DEF QuietInv, RustTextInv
      <4>5. p.role[f] \in {"module", "orphan"} => Interned(p, f)
        BY DEF Interned
      <4> QED
        BY <4>2, <4>3, <4>4, <4>5, TextAssumption
    <3> QED
      BY <3>1, <3>2, <3>3
  <2> QED
    BY <2>1, <2>2 DEF QuietInv
<1>5. CASE LoadFails \/ End
  <2>1. UNCHANGED <<disk, configs, edits, todo, root, typescript, rust, source, verdict, seen>>
        /\ pc' \in {"failed", "ended"}
    BY <1>5 DEF LoadFails, End, project, loaded, results
  <2>2. pc' # "failed" => pc = "walk"
    BY <1>5 DEF LoadFails, End
  <2>3. ASSUME edits = 0
        PROVE  ServedInv' /\ TsTextInv' /\ RustTextInv' /\ ReadInv' /\ AnswerInv'
    BY <2>1, <2>2, <2>3 DEF QuietInv, ServedInv, Served, DiscoverRoot, IsLoaded, TsTextInv,
                            RustTextInv, ReadInv, AnswerInv, At
  <2> QED
    BY <2>1, <2>3 DEF QuietInv
<1>6. ASSUME NEW f \in File, LoadNothing(f) \/ FindProject(f) PROVE QuietInv'
  <2>1. UNCHANGED <<disk, configs, edits, typescript, rust, source, verdict, seen>>
        /\ pc = "load" /\ pc' \in {"load", "project"} /\ todo' = todo \ {f}
    BY <1>6 DEF LoadNothing, FindProject, project, loaded, results
  <2>2. ASSUME edits = 0
        PROVE  ServedInv' /\ TsTextInv' /\ RustTextInv' /\ ReadInv' /\ AnswerInv'
    <3>1. TsTextInv' /\ RustTextInv' /\ ReadInv' /\ AnswerInv'
      BY <2>1, <2>2 DEF QuietInv, TsTextInv, RustTextInv, ReadInv, AnswerInv, At
    <3>2. ServedInv'
      <4> SUFFICES ASSUME NEW g \in TsFile, g \notin todo' PROVE Served(g)'
        BY <2>1 DEF ServedInv
      <4>1. CASE g \notin todo
        BY <2>1, <2>2, <4>1 DEF QuietInv, ServedInv, Served, DiscoverRoot, IsLoaded
      <4>2. CASE g = f
        BY <1>6, <2>1, <4>2 DEF LoadNothing, FindProject, Served, DiscoverRoot, IsLoaded
      <4> QED
        BY <2>1, <4>1, <4>2
    <3> QED
      BY <3>1, <3>2
  <2> QED
    BY <2>1, <2>2 DEF QuietInv
<1>7. ASSUME NEW f \in File, Read(f) PROVE QuietInv'
  <2>1. UNCHANGED <<disk, configs, edits, todo, root, typescript, rust, verdict, seen>>
        /\ pc = "walk" /\ pc' = "decorate" /\ source' = disk[f] /\ disk[f] # NotUtf8 /\ Current(f)
    BY <1>7 DEF Read, project, loaded, results
  <2>2. ASSUME NEW g \in File, Current(g)' PROVE g = f
    BY <2>1, <2>2, ProvidersAssumption DEF Current
  <2>3. ASSUME edits = 0
        PROVE  ServedInv' /\ TsTextInv' /\ RustTextInv' /\ ReadInv' /\ AnswerInv'
    <3>1. ReadInv'
      BY <2>1, <2>2 DEF ReadInv, At
    <3> QED
      BY <2>1, <2>3, <3>1 DEF QuietInv, ServedInv, Served, DiscoverRoot, IsLoaded, TsTextInv,
                              RustTextInv, AnswerInv
  <2> QED
    BY <2>1, <2>3 DEF QuietInv
<1>8. ASSUME NEW f \in File, DatabasePanics(f) PROVE QuietInv'
  <2>1. UNCHANGED <<disk, configs, edits, todo, root, typescript, rust, source, verdict, seen>>
        /\ pc = "decorate" /\ pc' = "panicked"
    BY <1>8 DEF DatabasePanics, At, project, loaded, results
  <2>2. ASSUME edits = 0
        PROVE  ServedInv' /\ TsTextInv' /\ RustTextInv' /\ ReadInv' /\ AnswerInv'
    BY <2>1, <2>2 DEF QuietInv, ServedInv, Served, DiscoverRoot, IsLoaded, TsTextInv,
                      RustTextInv, ReadInv, AnswerInv, At
  <2> QED
    BY <2>1, <2>2 DEF QuietInv
<1>9. ASSUME NEW f \in File, CannotRead(f) PROVE QuietInv'
  <2>1. Settle(f, "unreadable", NoText) /\ pc = "walk" /\ UNCHANGED <<project, root, loaded>>
    BY <1>9 DEF CannotRead
  <2> QED
    BY <2>1, SettleIsQuiet
<1>10. ASSUME NEW f \in File, NoProject(f) PROVE QuietInv'
  <2>1. /\ Settle(f, "NoProject", NoText) /\ pc = "decorate" /\ UNCHANGED <<project, root, loaded>>
        /\ f \in TsFile /\ DiscoverRoot(HomeOf[f]) = NoRoot
    BY <1>10 DEF NoProject, At
  <2>2. \A d \in configs : d > HomeOf[f]
    BY <2>1, NothingAbove, ProvidersAssumption DEF PInv, DiskInv
  <2> QED
    BY <2>1, <2>2, SettleIsQuiet
<1>11. ASSUME NEW f \in File, NobodyToAsk(f) PROVE QuietInv'
  <2>1. /\ Settle(f, "no_provider", NoText) /\ pc = "decorate" /\ UNCHANGED <<project, root, loaded>>
        /\ f \in TsFile /\ DiscoverRoot(HomeOf[f]) # NoRoot /\ ForFile(f) = {}
    BY <1>11 DEF NobodyToAsk, At
  <2>2. edits # 0
    BY <2>1 DEF QuietInv, ServedInv, Served, IsLoaded, ForFile
  <2> QED
    BY <2>1, <2>2, SettleIsQuiet
<1>12. ASSUME NEW f \in File, DecorateTypeScript(f) PROVE QuietInv'
  <2>1. At(f) /\ pc = "decorate" /\ f \in TsFile /\ UNCHANGED <<project, root, loaded>>
    BY <1>12 DEF DecorateTypeScript, At
  <2>2. PICK p \in ForFile(f) :
          IF p.role[f] # "held" THEN Settle(f, TsGap(p, f), NoText)
          ELSE IF p.text[f] # source THEN Settle(f, "StaleSource", NoText)
          ELSE Settle(f, "Covered", p.text[f])
    BY <1>12 DEF DecorateTypeScript
  <2>3. CASE p.role[f] # "held"
    <3>1. TsGap(p, f) \in {"OutsideRoot", "ExcludedByToolchain", "Unreachable"}
      BY DEF TsGap
    <3> QED
      BY <2>1, <2>2, <2>3, <3>1, SettleIsQuiet
  <2>4. CASE p.role[f] = "held" /\ p.text[f] # source
    <3>1. edits = 0 => source \in Marked /\ f \notin RustFile
      BY <2>1, <2>2, <2>4, ProvidersAssumption DEF QuietInv, TsTextInv, ReadInv, ForFile, Decode
    <3> QED
      BY <2>1, <2>2, <2>4, <3>1, SettleIsQuiet
  <2>5. CASE p.role[f] = "held" /\ p.text[f] = source
    <3>1. edits = 0 => source \notin Marked
      BY <2>1, <2>2, <2>5, TextAssumption DEF QuietInv, TsTextInv, ReadInv, ForFile, Decode
    <3> QED
      BY <2>1, <2>2, <2>5, <3>1, SettleIsQuiet
  <2> QED
    BY <2>3, <2>4, <2>5
<1>13. ASSUME NEW f \in File, DecorateRust(f) PROVE QuietInv'
  <2>1. /\ At(f) /\ pc = "decorate" /\ f \in RustFile /\ f \notin TsFile
        /\ UNCHANGED <<project, root, loaded>>
    BY <1>13, ProvidersAssumption DEF DecorateRust, At
  <2>2. PICK p \in rust : /\ p.role[f] = "module" => HasText(p, f)
                          /\ Settle(f, RustVerdict(p, f),
                                    IF RustVerdict(p, f) = "Covered" THEN p.text[f] ELSE NoText)
    BY <1>13 DEF DecorateRust
  <2>3. \/ RustVerdict(p, f) \in {"Unreachable", "OutsideRoot", "ExcludedByToolchain", "Covered"}
        \/ /\ RustVerdict(p, f) = "StaleSource" /\ p.text[f] # source
           /\ p.role[f] \notin {"unknown", "excluded", "orphan"}
    BY DEF RustVerdict, RustGap, Interned
  <2>4. edits = 0 => (p.role[f] \notin {"unknown", "excluded", "orphan"} => p.text[f] = source)
    BY <2>1, <2>2 DEF QuietInv, RustTextInv, ReadInv, RustRole
  <2>5. RustVerdict(p, f) # "NoProject"
    BY <2>3
  <2>6. edits = 0 => RustVerdict(p, f) \notin {"StaleSource", "no_provider"}
    BY <2>3, <2>4
  <2>7. PICK v, t : v = RustVerdict(p, f) /\ Settle(f, v, t)
    BY <2>2
  <2> QED
    BY <2>1, <2>5, <2>6, <2>7, SettleIsQuiet
<1>14. CASE UNCHANGED vars
  BY <1>14 DEF vars, project, loaded, results, QuietInv, ServedInv, Served, DiscoverRoot, IsLoaded,
               TsTextInv, RustTextInv, ReadInv, AnswerInv, At, Current
<1> QED
  BY <1>1, <1>2, <1>3, <1>4, <1>5, <1>6, <1>7, <1>8, <1>9, <1>10, <1>11, <1>12, <1>13, <1>14
  DEF Next

(* Whatever the layout of a project, a run of it that nobody edits answers *)
(* for every file but the TypeScript ones with a byte order mark: the three*)
(* times a file's project is looked up agree, and the text a toolchain     *)
(* analyzed differs from the one the walk reads by nothing but the mark.   *)
THEOREM QuietRunsAnswer == Spec => []QuietRunAnswers
<1>1. PInv /\ QuietInv => QuietRunAnswers
  BY ProvidersAssumption DEF QuietInv, AnswerInv, RustTextInv, QuietRunAnswers, HasText
<1> QED
  BY <1>1, InitInv, NextInv, QuietInit, QuietNext, PTL DEF Spec
=============================================================================
