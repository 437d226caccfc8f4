------------------------- MODULE LintLoadingProofs -------------------------
(***************************************************************************)
(* Theorems about LintLoading, for any packages, directories, entries,     *)
(* exported lints and identities.                                          *)
(***************************************************************************)
EXTENDS LintLoading, SequenceTheorems, WellFoundedInduction, TLAPS

(* `accepts`, an interval of an order that compares the major first, is    *)
(* the protocol a host shares: its own version before 1.0, and the earlier *)
(* minors of its major from then on.                                       *)
THEOREM AcceptsIsSameProtocol ==
    ASSUME NEW h \in AbiVersion, NEW p \in AbiVersion
    PROVE  Accepts(h, p) <=> SameProtocol(h, p)
<1> USE DEF AbiVersion
<1>1. CASE h.major = 0
  <2>1. Floor(h) = h
    BY <1>1 DEF Floor
  <2>2. Accepts(h, p) <=> h.major = p.major /\ h.minor = p.minor
    BY <1>1, <2>1 DEF Accepts, LessEq
  <2>3. h = p <=> h.major = p.major /\ h.minor = p.minor
    OBVIOUS
  <2> QED
    BY <1>1, <2>2, <2>3 DEF SameProtocol
<1>2. CASE h.major # 0
  <2>1. Floor(h).major = h.major /\ Floor(h).minor = 0
    BY <1>2 DEF Floor
  <2>2. Accepts(h, p) <=> h.major = p.major /\ p.minor <= h.minor
    BY <2>1 DEF Accepts, LessEq
  <2> QED
    BY <1>2, <2>2 DEF SameProtocol
<1> QED
  BY <1>1, <1>2

(* A plugin of the host's floor that the host does not accept is of a      *)
(* later minor, and before 1.0 there is none.                              *)
LEMMA SameFloor ==
    ASSUME NEW h \in AbiVersion, NEW p \in AbiVersion,
           Floor(h) = Floor(p), ~Accepts(h, p)
    PROVE  h.major > 0 /\ p.minor > h.minor
<1> USE DEF AbiVersion
<1>1. ~SameProtocol(h, p)
  BY AcceptsIsSameProtocol
<1>2. h.major = p.major
  BY DEF Floor
<1>3. CASE h.major = 0
  <2>1. h = p
    BY <1>2, <1>3 DEF Floor
  <2> QED
    BY <1>1, <2>1 DEF SameProtocol
<1>4. CASE h.major # 0
  BY <1>1, <1>2, <1>4 DEF SameProtocol
<1> QED
  BY <1>3, <1>4

(* Either order of the libraries is one of numbers.                        *)
LEMMA RankIsNatural ==
    ASSUME NEW s, NEW p \in Cdylib
    PROVE  Rank(s, p) \in Nat
BY PackageAssumption, FileNameAssumption DEF Rank

(* The libraries of a directory have a first one.                          *)
LEMMA FirstIsLeast ==
    ASSUME NEW S \in SUBSET Cdylib, S # {}
    PROVE  First(S) \in S /\ \A q \in S : Rank(Source, First(S)) <= Rank(Source, q)
<1>1. \A q \in S : Rank(Source, q) \in Nat
  BY RankIsNatural
<1> DEFINE T == {Rank(Source, q) : q \in S}
<1>2. T \subseteq Nat /\ T # {}
  BY <1>1
<1>3. PICK t \in T : \A y \in T : ~(<<y, t>> \in OpToRel(<, Nat))
  BY <1>2, NatLessThanWellFounded, WFMin
<1>4. \A y \in T : t <= y
  <2>1. \A y \in T : ~(y < t)
    BY <1>2, <1>3 DEF OpToRel
  <2> QED
    BY <1>2, <2>1
<1>5. PICK p \in S : t = Rank(Source, p)
  BY <1>3
<1>6. \A q \in S : Rank(Source, p) <= Rank(Source, q)
  BY <1>4, <1>5
<1> QED
  BY <1>5, <1>6 DEF First

-----------------------------------------------------------------------------
(* Type correctness.                                                       *)

LEMMA EntriesAreASequence ==
    ASSUME TypeOK
    PROVE  entries \in Seq(Entry) /\ Len(entries) \in Nat
<1>1. PICK k \in 0 .. MaxEntries : entries \in [1 .. k -> Entry]
  BY DEF TypeOK, BoundedSeq
<1> QED
  BY <1>1, BoundAssumption

LEMMA LoadedIsTyped ==
    ASSUME NEW ls \in Export, NEW lib \in Dir \X Package
    PROVE  /\ Loaded(ls, lib) \in Seq(LoadedLint)
           /\ Len(Loaded(ls, lib)) = Len(ls)
           /\ \A k \in 1 .. Len(ls) : /\ Loaded(ls, lib)[k].language = ls[k].language
                                      /\ Loaded(ls, lib)[k].rules = ls[k].rules
                                      /\ Loaded(ls, lib)[k].library = lib
<1>1. ls \in Seq(PluginLint) /\ DOMAIN ls = 1 .. Len(ls) /\ Len(ls) \in Nat
  BY ExportAssumption
<1>2. \A k \in 1 .. Len(ls) : ls[k].language \in Language /\ ls[k].rules \in SUBSET Name
  <2>1. \A k \in 1 .. Len(ls) : ls[k] \in PluginLint
    BY <1>1
  <2> QED
    BY <2>1 DEF PluginLint
<1>3. Loaded(ls, lib) \in [1 .. Len(ls) -> LoadedLint]
  BY <1>1, <1>2 DEF Loaded, LoadedLint
<1> QED
  BY <1>1, <1>3 DEF Loaded

LEMMA TypeOKInit == Init => TypeOK
<1> SUFFICES ASSUME Init PROVE TypeOK
  OBVIOUS
<1>1. NoIdentity \in AbiIdentity
  BY DEF NoIdentity, AbiIdentity, AbiVersion
<1>2. filter \in RuleFilter
  BY DEF Init, NewFilter, RuleFilter, Kinds
<1> QED
  BY <1>1, <1>2 DEF Init, TypeOK

(* While a library is being loaded there is a source it is of, and it is   *)
(* one of those left.                                                      *)
LoadingInv ==
    /\ pc \in {"open", "handshake", "list"} => at <= Len(sources)
    /\ pc \in {"handshake", "list"} => todo # {}

LEMMA LoadingInvNext == TypeOK /\ LoadingInv /\ [Next]_vars => LoadingInv'
<1> SUFFICES ASSUME TypeOK, LoadingInv, [Next]_vars PROVE LoadingInv'
  OBVIOUS
<1> USE DEF LoadingInv, config, settings, library, Fail
<1>1. CASE ReadConfig
  BY <1>1 DEF ReadConfig
<1>2. CASE Resolve
  BY <1>2 DEF Resolve, Admit
<1>3. CASE Build \/ ListPrebuilt
  BY <1>3 DEF Build, ListPrebuilt
<1>4. CASE Open \/ Handshake
  BY <1>4 DEF Open, Handshake
<1>5. CASE CallLoad
  BY <1>5 DEF CallLoad
<1>6. CASE ResolvedAll \/ NextSource \/ RefuseSharedRules \/ ValidateNames \/ Instantiate \/ Ready
  BY <1>6 DEF ResolvedAll, NextSource, RefuseSharedRules, ValidateNames, Instantiate, Ready
<1>7. CASE UNCHANGED vars
  BY <1>7 DEF vars
<1> QED
  BY <1>1, <1>2, <1>3, <1>4, <1>5, <1>6, <1>7 DEF Next, Ended

LEMMA TypeOKNext == TypeOK /\ LoadingInv /\ [Next]_vars => TypeOK'
<1> SUFFICES ASSUME TypeOK, LoadingInv, [Next]_vars PROVE TypeOK'
  OBVIOUS
<1> USE DEF TypeOK
<1>1. CASE ReadConfig
  <2>1. \A e, d \in SUBSET Name : NewFilter(e, d) \in RuleFilter
    BY DEF NewFilter, RuleFilter, Kinds
  <2> QED
    BY <1>1, <2>1 DEF ReadConfig, ReadOptions, Fail, Failure, config, settings, library
<1>2. CASE Resolve
  <2>1. \A r \in entries[Len(sources) + 1] : r \in Resolved
    <3>1. entries \in Seq(Entry) /\ Len(sources) + 1 \in 1 .. Len(entries)
      BY <1>2, EntriesAreASequence DEF Resolve
    <3>2. entries[Len(sources) + 1] \in Entry
      BY <3>1
    <3> QED
      BY <3>2, EntryAssumption
  <2>2. sources' \in Seq(Resolved)
    <3>1. \A r \in Resolved : Append(sources, r) \in Seq(Resolved)
      BY AppendProperties
    <3> QED
      BY <1>2, <2>1, <3>1 DEF Resolve, Admit
  <2> QED
    BY <1>2, <2>2 DEF Resolve, Admit, Fail, Failure, config, settings, library
<1>3. CASE ResolvedAll
  BY <1>3 DEF ResolvedAll, config, settings, library
<1>4. CASE Build
  <2>1. Source \in Resolved
    BY <1>4 DEF Build, Source
  <2>2. Source.dir \in Dir
    BY <2>1 DEF Resolved
  <2>3. \A m : CdylibArtifacts(m, Source.dir) \in SUBSET Cdylib
    BY DEF CdylibArtifacts
  <2> QED
    BY <1>4, <2>2, <2>3 DEF Build, Fail, Failure, config, settings, library
<1>5. CASE ListPrebuilt
  BY <1>5 DEF ListPrebuilt, Fail, Failure, config, settings, library
<1>6. CASE Open
  BY <1>6, IdentityAssumption DEF Open, Fail, Failure, Field, config, settings, library
<1>7. CASE Handshake
  BY <1>7 DEF Handshake, Fail, Failure, Field, config, settings, library
<1>8. CASE CallLoad
  <2>1. CASE UNCHANGED <<todo, lints>>
    BY <1>8, <2>1 DEF CallLoad, Fail, Failure, Field, config, settings, library
  <2>2. CASE /\ lints' = lints \o Loaded(exports[First(todo)], <<Source.dir, First(todo)>>)
             /\ todo' = todo \ {First(todo)}
             /\ pc' = "open"
    <3>1. lints' \in Seq(LoadedLint)
      <4>1. todo # {} /\ at \in 1 .. Len(sources)
        BY <1>8 DEF CallLoad, LoadingInv
      <4>2. First(todo) \in Cdylib
        BY <4>1, FirstIsLeast
      <4>3. Source \in Resolved
        BY <4>1 DEF Source
      <4>4. <<Source.dir, First(todo)>> \in Dir \X Package
        BY <4>2, <4>3, PackageAssumption DEF Resolved
      <4>5. exports[First(todo)] \in Export
        BY <4>2
      <4>6. Loaded(exports[First(todo)], <<Source.dir, First(todo)>>) \in Seq(LoadedLint)
        BY <4>4, <4>5, LoadedIsTyped
      <4> QED
        BY <2>2, <4>6, ConcatProperties
    <3> QED
      BY <1>8, <2>2, <3>1 DEF CallLoad, Field, config, settings, library
  <2> QED
    BY <1>8, <2>1, <2>2 DEF CallLoad
<1>9. CASE NextSource
  BY <1>9 DEF NextSource, config, settings, library
<1>10. CASE RefuseSharedRules
  BY <1>10 DEF RefuseSharedRules, Fail, Failure, config, settings, library
<1>11. CASE ValidateNames
  BY <1>11 DEF ValidateNames, Fail, Failure, config, settings, library
<1>12. CASE Instantiate
  <2>1. passes' \in Seq(SUBSET Name)
    <3>1. \A rules : ForRules(rules) \in SUBSET Name
      BY DEF ForRules
    <3>2. \A o \in SUBSET Name : Append(passes, o) \in Seq(SUBSET Name)
      BY AppendProperties
    <3> QED
      BY <1>12, <3>1, <3>2 DEF Instantiate
  <2> QED
    BY <1>12, <2>1 DEF Instantiate, Fail, Failure, config, settings, library
<1>13. CASE Ready
  BY <1>13 DEF Ready, config, settings, library
<1>14. CASE UNCHANGED vars
  BY <1>14 DEF vars, config, settings, library
<1> QED
  BY <1>1, <1>2, <1>3, <1>4, <1>5, <1>6, <1>7, <1>8, <1>9, <1>10, <1>11, <1>12,
     <1>13, <1>14 DEF Next, Ended

(* The variables keep their types; a library is loaded only of a source    *)
(* there is.                                                               *)
THEOREM TypeCorrect == Spec => [](TypeOK /\ LoadingInv)
<1>1. Init => TypeOK /\ LoadingInv
  BY TypeOKInit DEF Init, LoadingInv
<1>2. TypeOK /\ LoadingInv /\ [Next]_vars => (TypeOK /\ LoadingInv)'
  BY TypeOKNext, LoadingInvNext
<1> QED
  BY <1>1, <1>2, PTL DEF Spec

-----------------------------------------------------------------------------
(* The handshake.  Behind the first read the host and the plugin share a   *)
(* protocol, and behind the handshake everything that crosses it.          *)
HandshakeInv ==
    /\ ReadsOnlyWhatIsThere
    /\ TaggedFailsOnlyWhenNewer
    /\ pc \in {"handshake", "list"} => SameProtocol(host.abi_version, plugin.abi_version)
    /\ pc = "list" => host.types = plugin.types /\ host.language = plugin.language

LEMMA HandshakeInvNext == TypeOK /\ HandshakeInv /\ [Next]_vars => HandshakeInv'
<1> SUFFICES ASSUME TypeOK, HandshakeInv, [Next]_vars PROVE HandshakeInv'
  OBVIOUS
<1> USE DEF config, settings, library, Fail
<1>1. host \in AbiIdentity /\ host.abi_version \in AbiVersion
  BY IdentityAssumption DEF TypeOK, AbiIdentity
<1>2. CASE Open
  <2>1. CASE \E id \in Identity :
               /\ plugin' = id
               /\ reads' = {"abi_version"}
               /\ IF Accepts(host.abi_version, id.abi_version)
                    THEN pc' = "handshake"
                    ELSE Fail("handshake!")
    <3>1. PICK id \in Identity :
               /\ plugin' = id
               /\ reads' = {"abi_version"}
               /\ IF Accepts(host.abi_version, id.abi_version)
                    THEN pc' = "handshake"
                    ELSE Fail("handshake!")
      BY <2>1
    <3>2. id.abi_version \in AbiVersion
      BY IdentityAssumption DEF AbiIdentity
    <3>3. host' = host
      BY <1>2 DEF Open
    <3>4. ReadsOnlyWhatIsThere'
      BY <3>1 DEF ReadsOnlyWhatIsThere, LaidOut
    <3>5. CASE Accepts(host.abi_version, id.abi_version)
      <4>1. SameProtocol(host.abi_version, id.abi_version)
        BY <1>1, <3>2, <3>5, AcceptsIsSameProtocol
      <4> QED
        BY <3>1, <3>3, <3>4, <3>5, <4>1 DEF HandshakeInv, TaggedFailsOnlyWhenNewer
    <3>6. CASE ~Accepts(host.abi_version, id.abi_version)
      <4>1. AbiTag(id) = AbiTag(host) => Floor(host.abi_version) = Floor(id.abi_version)
        BY DEF AbiTag
      <4>2. TaggedFailsOnlyWhenNewer'
        BY <1>1, <3>1, <3>2, <3>3, <3>6, <4>1, SameFloor DEF TaggedFailsOnlyWhenNewer
      <4> QED
        BY <3>1, <3>4, <3>6, <4>2 DEF HandshakeInv
    <3> QED
      BY <3>5, <3>6
  <2>2. CASE Fail("open!") /\ UNCHANGED <<plugin, reads>>
    BY <1>2, <2>2 DEF Open, HandshakeInv, ReadsOnlyWhatIsThere, TaggedFailsOnlyWhenNewer
  <2> QED
    BY <1>2, <2>1, <2>2 DEF Open
<1>3. CASE Handshake
  <2>1. plugin.abi_version \in AbiVersion
    BY DEF TypeOK, AbiIdentity
  <2>2. /\ SameProtocol(host.abi_version, plugin.abi_version)
        /\ Accepts(host.abi_version, plugin.abi_version)
    BY <1>1, <1>3, <2>1, AcceptsIsSameProtocol DEF Handshake, HandshakeInv
  <2>3. host' = host /\ plugin' = plugin
    BY <1>3 DEF Handshake
  <2>4. ReadsOnlyWhatIsThere'
    BY <1>3, <2>2, <2>3 DEF Handshake, HandshakeInv, ReadsOnlyWhatIsThere, LaidOut, Field
  <2>5. CASE Validate(host, plugin)
    BY <1>3, <2>2, <2>3, <2>4, <2>5
       DEF Handshake, Validate, HandshakeInv, TaggedFailsOnlyWhenNewer
  <2>6. CASE ~Validate(host, plugin)
    <3>1. AbiTag(plugin) # AbiTag(host)
      BY <2>2, <2>6 DEF Validate, AbiTag
    <3> QED
      BY <1>3, <2>3, <2>4, <2>6, <3>1 DEF Handshake, HandshakeInv, TaggedFailsOnlyWhenNewer
  <2> QED
    BY <2>5, <2>6
<1>4. CASE CallLoad
  <2>1. LaidOut(host, plugin) = Field
    BY <1>4 DEF CallLoad, HandshakeInv, LaidOut, Field
  <2>2. reads' \subseteq Field
    BY <1>4 DEF CallLoad, TypeOK, Field
  <2> QED
    BY <1>4, <2>1, <2>2 DEF CallLoad, HandshakeInv, ReadsOnlyWhatIsThere, LaidOut,
       TaggedFailsOnlyWhenNewer
<1>5. CASE UNCHANGED <<host, plugin, reads>> /\ pc' \notin {"handshake", "list", "handshake!"}
  BY <1>5 DEF HandshakeInv, ReadsOnlyWhatIsThere, LaidOut, TaggedFailsOnlyWhenNewer
<1>6. ReadConfig \/ Resolve \/ ResolvedAll \/ Build \/ ListPrebuilt
        => UNCHANGED <<host, plugin, reads>> /\ pc' \notin {"handshake", "list", "handshake!"}
  BY DEF ReadConfig, Resolve, Admit, ResolvedAll, Build, ListPrebuilt
<1>7. NextSource \/ RefuseSharedRules \/ ValidateNames \/ Instantiate \/ Ready
        => UNCHANGED <<host, plugin, reads>> /\ pc' \notin {"handshake", "list", "handshake!"}
  BY DEF NextSource, RefuseSharedRules, ValidateNames, Instantiate, Ready
<1>8. CASE UNCHANGED vars
  BY <1>8 DEF vars, HandshakeInv, ReadsOnlyWhatIsThere, LaidOut, TaggedFailsOnlyWhenNewer
<1> QED
  BY <1>2, <1>3, <1>4, <1>5, <1>6, <1>7, <1>8 DEF Next, Ended

(* `load_library` reads no field of a plugin that does not hold it, and    *)
(* calls into none whose layout differs.                                   *)
THEOREM HandshakeIsSafe == Spec => []ReadsOnlyWhatIsThere
<1>1. Init => HandshakeInv
  BY DEF Init, HandshakeInv, ReadsOnlyWhatIsThere, LaidOut, TaggedFailsOnlyWhenNewer
<1>2. HandshakeInv => ReadsOnlyWhatIsThere
  BY DEF HandshakeInv
<1> QED
  BY <1>1, <1>2, HandshakeInvNext, TypeCorrect, PTL DEF Spec

(* An archive found under the host's tag fails the handshake only when a   *)
(* later minor wrote it.                                                   *)
THEOREM TagPredictsHandshake == Spec => []TaggedFailsOnlyWhenNewer
<1>1. Init => HandshakeInv
  BY DEF Init, HandshakeInv, ReadsOnlyWhatIsThere, LaidOut, TaggedFailsOnlyWhenNewer
<1>2. HandshakeInv => TaggedFailsOnlyWhenNewer
  BY DEF HandshakeInv
<1> QED
  BY <1>1, <1>2, HandshakeInvNext, TypeCorrect, PTL DEF Spec

-----------------------------------------------------------------------------
(* Nothing is compiled while an entry is unresolved: the resolution is     *)
(* over before the first build.                                            *)
ResolvedInv ==
    /\ pc \in {"config", "resolve"} => built = {}
    /\ pc \in {"load", "open", "handshake", "list"} => Len(sources) = Len(entries)
    /\ BuildsAfterResolving

THEOREM ResolvesFirst == Spec => []BuildsAfterResolving
<1>1. Init => ResolvedInv
  BY DEF Init, ResolvedInv, BuildsAfterResolving
<1>2. ResolvedInv /\ [Next]_vars => ResolvedInv'
  <2> SUFFICES ASSUME ResolvedInv, [Next]_vars PROVE ResolvedInv'
    OBVIOUS
  <2> USE DEF config, settings, library, Fail, ResolvedInv, BuildsAfterResolving
  <2>1. CASE ReadConfig \/ Resolve \/ ResolvedAll
    BY <2>1 DEF ReadConfig, Resolve, Admit, ResolvedAll
  <2>2. CASE Build \/ ListPrebuilt
    BY <2>2 DEF Build, ListPrebuilt
  <2>3. CASE Open \/ Handshake \/ CallLoad \/ NextSource
    BY <2>3 DEF Open, Handshake, CallLoad, NextSource
  <2>4. CASE RefuseSharedRules \/ ValidateNames \/ Instantiate \/ Ready
    BY <2>4 DEF RefuseSharedRules, ValidateNames, Instantiate, Ready
  <2>5. CASE UNCHANGED vars
    BY <2>5 DEF vars
  <2> QED
    BY <2>1, <2>2, <2>3, <2>4, <2>5 DEF Next, Ended
<1>3. ResolvedInv => BuildsAfterResolving
  BY DEF ResolvedInv
<1> QED
  BY <1>1, <1>2, <1>3, PTL DEF Spec

-----------------------------------------------------------------------------
(* Whatever library a lint came from, all of its lints are there, each     *)
(* with a rule: so a library that came in twice shares a rule with itself. *)
WholeInv ==
    \A i \in 1 .. Len(lints) :
        LET lib == lints[i].library
            ls == exports[lib[2]]
        IN  /\ lib[2] \in Cdylib
            /\ ~Hollow(ls)
            /\ \A k \in 1 .. Len(ls) : \E m \in 1 .. Len(lints) :
                 /\ lints[m].library = lib
                 /\ lints[m].language = ls[k].language
                 /\ lints[m].rules = ls[k].rules

LEMMA WholeInvNext ==
    TypeOK /\ LoadingInv /\ WholeInv /\ [Next]_vars => WholeInv'
<1> SUFFICES ASSUME TypeOK, LoadingInv, WholeInv, [Next]_vars PROVE WholeInv'
  OBVIOUS
<1> USE DEF config, settings, library
<1>1. CASE UNCHANGED <<lints, exports>>
  BY <1>1 DEF WholeInv
<1>2. CASE CallLoad /\ ~UNCHANGED lints
  <2> DEFINE p == First(todo)
             ls == exports[p]
             lib == <<Source.dir, p>>
             new == Loaded(ls, lib)
  <2>1. /\ ~Hollow(ls)
        /\ lints' = lints \o new
        /\ exports' = exports
    BY <1>2 DEF CallLoad
  <2>2. todo # {} /\ at \in 1 .. Len(sources)
    BY <1>2 DEF CallLoad, LoadingInv, TypeOK
  <2>3. p \in Cdylib /\ ls \in Export
    BY <2>2, FirstIsLeast DEF TypeOK
  <2>4. Source \in Resolved
    BY <2>2 DEF Source, TypeOK
  <2>5. lib \in Dir \X Package /\ lib[2] = p
    BY <2>3, <2>4, PackageAssumption DEF Resolved
  <2>6. /\ new \in Seq(LoadedLint)
        /\ Len(new) = Len(ls)
        /\ Len(new) \in Nat
        /\ \A k \in 1 .. Len(ls) : /\ new[k].language = ls[k].language
                                   /\ new[k].rules = ls[k].rules
                                   /\ new[k].library = lib
    BY <2>3, <2>5, LoadedIsTyped
  <2> HIDE DEF new, lib, ls, p
  <2>7. /\ lints \in Seq(LoadedLint) /\ Len(lints) \in Nat
        /\ Len(lints') = Len(lints) + Len(new)
        /\ \A i \in 1 .. Len(lints) : lints'[i] = lints[i]
        /\ \A k \in 1 .. Len(new) : lints'[Len(lints) + k] = new[k]
    <3>1. lints \in Seq(LoadedLint) /\ Len(lints) \in Nat
      BY DEF TypeOK
    <3>2. /\ Len(lints') = Len(lints) + Len(new)
          /\ \A i \in 1 .. Len(lints) + Len(new) :
               lints'[i] = IF i <= Len(lints) THEN lints[i] ELSE new[i - Len(lints)]
      BY <2>1, <2>6, <3>1, ConcatProperties
    <3> QED
      BY <2>6, <3>1, <3>2
  <2>8. ASSUME NEW i \in 1 .. Len(lints')
        PROVE  LET of == lints'[i].library
                   all == exports'[of[2]]
               IN  /\ of[2] \in Cdylib
                   /\ ~Hollow(all)
                   /\ \A k \in 1 .. Len(all) : \E m \in 1 .. Len(lints') :
                        /\ lints'[m].library = of
                        /\ lints'[m].language = all[k].language
                        /\ lints'[m].rules = all[k].rules
    <3>1. CASE i <= Len(lints)
      <4>1. i \in 1 .. Len(lints) /\ lints'[i] = lints[i]
        BY <2>7, <3>1
      <4>2. \A m \in 1 .. Len(lints) : m \in 1 .. Len(lints') /\ lints'[m] = lints[m]
        BY <2>6, <2>7
      <4>3. lints'[i].library[2] \in Cdylib /\ ~Hollow(exports'[lints'[i].library[2]])
        BY <2>1, <4>1 DEF WholeInv
      <4>4. ASSUME NEW k \in 1 .. Len(exports[lints[i].library[2]])
            PROVE  \E m \in 1 .. Len(lints') :
                     /\ lints'[m].library = lints[i].library
                     /\ lints'[m].language = exports[lints[i].library[2]][k].language
                     /\ lints'[m].rules = exports[lints[i].library[2]][k].rules
        <5>1. PICK m \in 1 .. Len(lints) :
                     /\ lints[m].library = lints[i].library
                     /\ lints[m].language = exports[lints[i].library[2]][k].language
                     /\ lints[m].rules = exports[lints[i].library[2]][k].rules
          BY <4>1 DEF WholeInv
        <5> QED
          BY <4>2, <5>1
      <4>5. /\ lints'[i].library = lints[i].library
            /\ exports'[lints'[i].library[2]] = exports[lints[i].library[2]]
        BY <2>1, <4>1
      <4> QED
        BY <4>3, <4>4, <4>5
    <3>2. CASE i > Len(lints)
      <4>1. PICK j \in 1 .. Len(new) : i = Len(lints) + j
        <5>1. i - Len(lints) \in 1 .. Len(new)
          BY <2>6, <2>7, <3>2
        <5>2. i = Len(lints) + (i - Len(lints))
          BY <2>6, <2>7
        <5> QED
          BY <5>1, <5>2
      <4>2. lints'[i].library = lib
        BY <2>6, <2>7, <4>1
      <4>3. \A k \in 1 .. Len(ls) : /\ Len(lints) + k \in 1 .. Len(lints')
                                    /\ lints'[Len(lints) + k] = new[k]
        BY <2>6, <2>7
      <4>4. exports'[lib[2]] = ls /\ lib[2] \in Cdylib
        BY <2>1, <2>3, <2>5 DEF ls
      <4>5. ASSUME NEW k \in 1 .. Len(ls)
            PROVE  \E m \in 1 .. Len(lints') : /\ lints'[m].library = lib
                                               /\ lints'[m].language = ls[k].language
                                               /\ lints'[m].rules = ls[k].rules
        <5>1. /\ new[k].library = lib
              /\ new[k].language = ls[k].language
              /\ new[k].rules = ls[k].rules
          BY <2>6
        <5> QED
          BY <4>3, <5>1
      <4>6. exports'[lints'[i].library[2]] = ls /\ lints'[i].library[2] \in Cdylib
        BY <4>2, <4>4
      <4>7. ~Hollow(exports'[lints'[i].library[2]])
        BY <2>1, <4>6
      <4> QED
        BY <4>2, <4>5, <4>6, <4>7
    <3> QED
      BY <2>7, <3>1, <3>2
  <2> QED
    BY <2>8 DEF WholeInv
<1>3. ReadConfig \/ Resolve \/ ResolvedAll \/ Build \/ ListPrebuilt \/ Open \/ Handshake
        => UNCHANGED <<lints, exports>>
  BY DEF ReadConfig, Resolve, ResolvedAll, Build, ListPrebuilt, Open, Handshake
<1>4. NextSource \/ RefuseSharedRules \/ ValidateNames \/ Instantiate \/ Ready \/ UNCHANGED vars
        => UNCHANGED <<lints, exports>>
  BY DEF NextSource, RefuseSharedRules, ValidateNames, Instantiate, Ready, vars
<1>5. CallLoad => UNCHANGED exports
  BY DEF CallLoad
<1> QED
  BY <1>1, <1>2, <1>3, <1>4, <1>5 DEF Next, Ended

-----------------------------------------------------------------------------
(* Past the check of shared rules there are none, past the validation      *)
(* every name is declared, and each pass holds the options of its lint.    *)
SettingsInv ==
    /\ pc \in Through => ~SharedRule(lints)
    /\ pc \in {"instantiate", "ready"} => NamesAreDeclared
    /\ pc \in {"config", "resolve", "load", "open", "handshake", "list", "loaded"}
         => passes = <<>>
    /\ pc \in {"instantiate", "ready"} => Len(passes) <= Len(lints)
    /\ pc = "ready" => Len(passes) = Len(lints)
    /\ pc \in {"instantiate", "ready"} =>
         \A i \in 1 .. Len(passes) : passes[i] = ForRules(lints[i].rules)

LEMMA SettingsInvNext == TypeOK /\ SettingsInv /\ [Next]_vars => SettingsInv'
<1> SUFFICES ASSUME TypeOK, SettingsInv, [Next]_vars PROVE SettingsInv'
  OBVIOUS
<1> USE DEF config, settings, library, Fail
<1>1. CASE pc' \notin Through /\ passes' = passes /\ (passes = <<>> \/ pc' \in Failure)
  BY <1>1 DEF SettingsInv, Through, Failure
<1>2. ReadConfig \/ Resolve \/ ResolvedAll \/ Build \/ ListPrebuilt
        => pc' \notin Through /\ passes' = passes /\ (passes = <<>> \/ pc' \in Failure)
  BY DEF ReadConfig, Resolve, Admit, ResolvedAll, Build, ListPrebuilt, SettingsInv,
     Through, Failure
<1>3. Open \/ Handshake \/ CallLoad \/ NextSource
        => pc' \notin Through /\ passes' = passes /\ (passes = <<>> \/ pc' \in Failure)
  BY DEF Open, Handshake, CallLoad, NextSource, SettingsInv, Through, Failure
<1>4. CASE RefuseSharedRules
  BY <1>4 DEF RefuseSharedRules, SettingsInv, Through, Failure
<1>5. CASE ValidateNames
  <2>1. pc \in Through /\ passes = <<>>
    BY <1>5 DEF ValidateNames, Through, SettingsInv
  <2>2. Len(passes) <= Len(lints) /\ 1 .. Len(passes) = {}
    BY <2>1 DEF TypeOK
  <2>3. CASE NamesAreDeclared
    <3>1. NamesAreDeclared'
      BY <1>5, <2>3 DEF ValidateNames, NamesAreDeclared, Declared
    <3> QED
      BY <1>5, <2>1, <2>2, <2>3, <3>1 DEF ValidateNames, SettingsInv, Through
  <2>4. CASE ~NamesAreDeclared
    BY <1>5, <2>4 DEF ValidateNames, SettingsInv, Through
  <2> QED
    BY <2>3, <2>4
<1>6. CASE Instantiate
  <2>1. CASE Fail("pass!") /\ UNCHANGED passes
    BY <1>6, <2>1 DEF Instantiate, SettingsInv, Through
  <2>2. CASE passes' = Append(passes, ForRules(lints[Len(passes) + 1].rules)) /\ pc' = pc
    <3>1. /\ pc = "instantiate" /\ pc' = "instantiate"
          /\ lints' = lints /\ filter' = filter /\ options' = options
          /\ Len(passes) < Len(lints)
      BY <1>6, <2>2 DEF Instantiate
    <3>2. /\ Len(passes) \in Nat /\ Len(lints) \in Nat
          /\ Len(passes') = Len(passes) + 1
          /\ \A i \in 1 .. Len(passes) : passes'[i] = passes[i]
          /\ passes'[Len(passes) + 1] = ForRules(lints[Len(passes) + 1].rules)
      <4>1. ForRules(lints[Len(passes) + 1].rules) \in SUBSET Name
        BY DEF ForRules, TypeOK
      <4>2. passes \in Seq(SUBSET Name) /\ lints \in Seq(LoadedLint)
        BY DEF TypeOK
      <4> QED
        BY <2>2, <4>1, <4>2, AppendProperties
    <3>3. \A i \in 1 .. Len(passes') : passes'[i] = ForRules(lints[i].rules)
      BY <3>1, <3>2 DEF SettingsInv
    <3>4. NamesAreDeclared' /\ ~SharedRule(lints')
      BY <3>1 DEF SettingsInv, Through, NamesAreDeclared, Declared
    <3>5. \A i \in 1 .. Len(passes') : passes'[i] = ForRules(lints[i].rules)'
      BY <3>1, <3>3 DEF ForRules
    <3> QED
      BY <3>1, <3>2, <3>4, <3>5 DEF SettingsInv, Through
  <2> QED
    BY <1>6, <2>1, <2>2 DEF Instantiate
<1>7. CASE Ready
  <2>1. NamesAreDeclared' /\ ~SharedRule(lints')
    BY <1>7 DEF Ready, SettingsInv, Through, NamesAreDeclared, Declared
  <2> QED
    BY <1>7, <2>1 DEF Ready, SettingsInv, Through, ForRules, TypeOK
<1>8. CASE UNCHANGED vars
  BY <1>8 DEF vars, SettingsInv, Through, NamesAreDeclared, Declared, ForRules
<1> QED
  BY <1>1, <1>2, <1>3, <1>4, <1>5, <1>6, <1>7, <1>8 DEF Next, Ended

LEMMA LintsAreChecked == Spec => [](TypeOK /\ WholeInv /\ SettingsInv)
<1>1. Init => WholeInv /\ SettingsInv
  BY DEF Init, WholeInv, SettingsInv, Through
<1> QED
  BY <1>1, TypeCorrect, WholeInvNext, SettingsInvNext, PTL DEF Spec

(* A run that goes ahead runs each lint once, through however many         *)
(* directories its package was configured.                                 *)
THEOREM LintsRunOnce == Spec => []NoLintTwice
<1>1. TypeOK /\ WholeInv /\ SettingsInv => NoLintTwice
  <2> SUFFICES ASSUME TypeOK, WholeInv, SettingsInv, pc \in Through,
                      NEW i \in DOMAIN lints, NEW j \in DOMAIN lints,
                      lints[i].library[2] = lints[j].library[2],
                      lints[i].library # lints[j].library
               PROVE  FALSE
    BY DEF NoLintTwice
  <2> DEFINE ls == exports[lints[i].library[2]]
  <2>1. DOMAIN lints = 1 .. Len(lints) /\ Len(lints) \in Nat
    BY DEF TypeOK
  <2>2. ls \in Seq(PluginLint) /\ ~Hollow(ls)
    BY <2>1, ExportAssumption DEF WholeInv, TypeOK
  <2>3. Len(ls) \in Nat /\ 1 \in 1 .. Len(ls) /\ ls[1].rules # {}
    BY <2>2 DEF Hollow
  <2>4. PICK m \in 1 .. Len(lints) : /\ lints[m].library = lints[i].library
                                     /\ lints[m].language = ls[1].language
                                     /\ lints[m].rules = ls[1].rules
    BY <2>1, <2>3 DEF WholeInv
  <2>5. PICK n \in 1 .. Len(lints) : /\ lints[n].library = lints[j].library
                                     /\ lints[n].language = ls[1].language
                                     /\ lints[n].rules = ls[1].rules
    BY <2>1, <2>3 DEF WholeInv
  <2>6. /\ lints[m].language = lints[n].language
        /\ lints[m].rules \cap lints[n].rules # {}
        /\ m # n
    BY <2>3, <2>4, <2>5
  <2>7. SharedRule(lints)
    <3>1. CASE m < n
      <4>1. n \in m + 1 .. Len(lints)
        BY <2>1, <3>1
      <4> QED
        BY <2>1, <2>6, <4>1 DEF SharedRule
    <3>2. CASE n < m
      <4>1. m \in n + 1 .. Len(lints)
        BY <2>1, <3>2
      <4> QED
        BY <2>1, <2>6, <4>1 DEF SharedRule
    <3> QED
      BY <2>1, <2>6, <3>1, <3>2
  <2> QED
    BY <2>7 DEF SettingsInv
<1> QED
  BY <1>1, LintsAreChecked, PTL

(* Every rule a project names, and every option it sets, reaches a lint,   *)
(* one per language, and no pass sees what is not its own.                 *)
THEOREM SettingsWork == Spec => []SettingsReachOnePass
<1>1. TypeOK /\ SettingsInv => SettingsReachOnePass
  <2> SUFFICES ASSUME TypeOK, SettingsInv, pc = "ready" PROVE SettingsReachOnePass
    BY DEF SettingsReachOnePass
  <2>1. /\ DOMAIN lints = 1 .. Len(lints) /\ DOMAIN passes = 1 .. Len(lints)
        /\ Len(lints) \in Nat /\ Len(passes) = Len(lints)
    BY DEF TypeOK, SettingsInv
  <2>2. \A i \in DOMAIN passes : passes[i] = options \cap lints[i].rules
    BY <2>1 DEF SettingsInv, ForRules
  <2>3. filter.names \subseteq Declared /\ options \subseteq Declared /\ ~SharedRule(lints)
    BY DEF SettingsInv, NamesAreDeclared, Through
  <2>4. \A n \in filter.names : \E i \in DOMAIN lints : n \in lints[i].rules
    BY <2>3 DEF Declared
  <2>5. \A o \in options : \E i \in DOMAIN passes : o \in passes[i]
    BY <2>1, <2>2, <2>3 DEF Declared
  <2>6. ASSUME NEW i \in DOMAIN passes, NEW j \in DOMAIN passes,
               i # j, passes[i] \cap passes[j] # {}
        PROVE  lints[i].language # lints[j].language
    <3>1. lints[i].rules \cap lints[j].rules # {}
      BY <2>2, <2>6
    <3>2. CASE i < j
      <4>1. j \in i + 1 .. Len(lints)
        BY <2>1, <3>2
      <4> QED
        BY <2>1, <2>3, <3>1, <4>1 DEF SharedRule
    <3>3. CASE j < i
      <4>1. i \in j + 1 .. Len(lints)
        BY <2>1, <3>3
      <4> QED
        BY <2>1, <2>3, <3>1, <4>1 DEF SharedRule
    <3> QED
      BY <2>1, <2>6, <3>2, <3>3
  <2> QED
    BY <2>2, <2>4, <2>5, <2>6 DEF SettingsReachOnePass
<1> QED
  BY <1>1, LintsAreChecked, PTL

-----------------------------------------------------------------------------
(* The order of the lints.  A library is known by the number of its source *)
(* and by its package.                                                     *)
Place == (DOMAIN sources) \X Cdylib
LibOf(e) == <<sources[e[1]].dir, e[2]>>
RankOf(e) == Rank(sources[e[1]], e[2])
NotAfter(e, f) == e[1] < f[1] \/ (e[1] = f[1] /\ RankOf(e) <= RankOf(f))

\* The lints of some libraries, one library after the other.
Filed(ls, done) ==
    /\ \A e \in done : InARow(ls, LibOf(e), Loaded(exports[e[2]], LibOf(e)))
    /\ \A i \in DOMAIN ls : \E e \in done : ls[i].library = LibOf(e)
    /\ \A i, j \in DOMAIN ls : i <= j =>
         \E e, f \in done : /\ ls[i].library = LibOf(e) /\ ls[j].library = LibOf(f)
                            /\ NotAfter(e, f)

\* The libraries loaded so far.
Loading == {"open", "handshake", "list"}
Held(i) == Offered(sources[i])
Finished == {e \in Place : /\ e[2] \in Held(e[1])
                           /\ e[1] < at \/ (e[1] = at /\ pc \in Loading /\ e[2] \notin todo)}

\* Those left of a source come after the others.
QueueInv ==
    /\ todo \subseteq Held(at)
    /\ \A p \in Held(at) \ todo : \A q \in todo : Rank(Source, p) <= Rank(Source, q)

Distinct == \A i, j \in DOMAIN sources : sources[i].dir = sources[j].dir => i = j
FiledInv ==
    /\ Distinct
    /\ pc \in {"config", "resolve"} => lints = <<>> /\ at = 1
    /\ pc \in {"load"} \cup Loading \cup Through => Filed(lints, Finished)
    /\ pc \in Loading => QueueInv
    /\ pc \in Through => at > Len(sources)

LEMMA SourcesFacts ==
    ASSUME TypeOK
    PROVE  /\ Len(sources) \in Nat /\ DOMAIN sources = 1 .. Len(sources)
           /\ \A i \in DOMAIN sources : sources[i] \in Resolved /\ sources[i].dir \in Dir
           /\ \A e \in Place : /\ e[1] \in Nat /\ e[2] \in Nat /\ e[2] \in Cdylib
                               /\ e = <<e[1], e[2]>> /\ LibOf(e) \in Dir \X Package
<1>1. Len(sources) \in Nat /\ DOMAIN sources = 1 .. Len(sources) /\ sources \in Seq(Resolved)
  BY DEF TypeOK
<1>2. \A i \in DOMAIN sources : sources[i] \in Resolved /\ sources[i].dir \in Dir
  <2>1. \A i \in 1 .. Len(sources) : sources[i] \in Resolved
    BY <1>1, ElementOfSeq
  <2>2. \A r \in Resolved : r.dir \in Dir
    BY DEF Resolved
  <2> QED
    BY <1>1, <2>1, <2>2
<1>3. ASSUME NEW e \in Place
      PROVE  /\ e[1] \in Nat /\ e[2] \in Nat /\ e[2] \in Cdylib
             /\ e = <<e[1], e[2]>> /\ LibOf(e) \in Dir \X Package
  <2>1. e[1] \in DOMAIN sources /\ e[2] \in Cdylib /\ e = <<e[1], e[2]>>
    BY DEF Place
  <2>2. e[1] \in Nat /\ e[2] \in Nat /\ e[2] \in Package
    BY <1>1, <2>1, PackageAssumption
  <2> QED
    BY <1>2, <2>1, <2>2 DEF LibOf
<1> QED
  BY <1>1, <1>2, <1>3

LEMMA LibrariesDiffer ==
    ASSUME TypeOK, Distinct, NEW e \in Place, NEW f \in Place, LibOf(e) = LibOf(f)
    PROVE  e = f
<1>1. sources[e[1]].dir = sources[f[1]].dir /\ e[2] = f[2]
  BY DEF LibOf
<1>2. e[1] = f[1]
  BY <1>1 DEF Distinct, Place
<1> QED
  BY <1>1, <1>2, SourcesFacts

\* The lints of a library that comes after the others.
LEMMA FilesOneMore ==
    ASSUME TypeOK, Distinct, NEW ls \in Seq(LoadedLint), NEW done \in SUBSET Place, NEW e \in Place,
           e \notin done, \A f \in done : NotAfter(f, e), Filed(ls, done),
           NEW more, more = ls \o Loaded(exports[e[2]], LibOf(e))
    PROVE  Filed(more, done \cup {e})
<1>1. PICK new, lib : lib = LibOf(e) /\ new = Loaded(exports[e[2]], lib)
  OBVIOUS
<1>2. e[2] \in Cdylib /\ exports[e[2]] \in Export /\ lib \in Dir \X Package
  BY <1>1, SourcesFacts DEF TypeOK
<1>3. PICK a \in Nat, b \in Nat : a = Len(ls) /\ b = Len(new) /\ DOMAIN ls = 1 .. a /\ DOMAIN new = 1 .. b
  <2>1. new \in Seq(LoadedLint)
    BY <1>1, <1>2, LoadedIsTyped
  <2> QED
    BY <2>1, LenProperties
<1>4. new \in Seq(LoadedLint) /\ \A k \in 1 .. b : new[k].library = lib
  <2>1. /\ new \in Seq(LoadedLint) /\ Len(new) = Len(exports[e[2]])
        /\ \A k \in 1 .. Len(exports[e[2]]) : new[k].library = lib
    BY <1>1, <1>2, LoadedIsTyped
  <2> QED
    BY <1>3, <2>1
<1>5. /\ DOMAIN more = 1 .. a + b /\ Len(more) = a + b
      /\ \A i \in 1 .. a : more[i] = ls[i]
      /\ \A k \in 1 .. b : more[a + k] = new[k]
  <2>1. /\ more \in Seq(LoadedLint) /\ Len(more) = a + b
        /\ \A i \in 1 .. a + b : more[i] = IF i <= a THEN ls[i] ELSE new[i - a]
    <3>1. /\ more \in Seq(LoadedLint) /\ Len(more) = Len(ls) + Len(new)
          /\ \A i \in 1 .. Len(ls) + Len(new) : more[i] = IF i <= Len(ls) THEN ls[i] ELSE new[i - Len(ls)]
      BY <1>1, <1>4, ConcatProperties
    <3> QED
      BY <1>3, <3>1
  <2>2. DOMAIN more = 1 .. a + b
    BY <2>1, LenProperties
  <2>3. \A i \in 1 .. a : i \in 1 .. a + b /\ i <= a
    OBVIOUS
  <2>4. \A k \in 1 .. b : a + k \in 1 .. a + b /\ ~(a + k <= a) /\ (a + k) - a = k
    OBVIOUS
  <2> QED
    BY <2>1, <2>2, <2>3, <2>4
<1>6. ASSUME NEW i \in 1 .. a + b
      PROVE  \/ i \in 1 .. a /\ more[i] = ls[i]
             \/ ~(i <= a) /\ \E k \in 1 .. b : i = a + k /\ more[i] = new[k] /\ more[i].library = lib
  <2>1. CASE i <= a
    BY <1>5, <2>1
  <2>2. CASE ~(i <= a)
    <3>1. PICK k \in 1 .. b : i = a + k
      <4>1. i - a \in 1 .. b /\ i = a + (i - a)
        BY <2>2
      <4> QED
        BY <4>1
    <3> QED
      BY <1>4, <1>5, <2>2, <3>1
  <2> QED
    BY <2>1, <2>2
<1>7. \A f \in done : LibOf(f) # lib
  BY <1>1, LibrariesDiffer
<1>8. \A i \in 1 .. a : ls[i].library # lib
  BY <1>3, <1>7 DEF Filed
<1>9. ASSUME NEW f \in done PROVE InARow(more, LibOf(f), Loaded(exports[f[2]], LibOf(f)))
  <2>1. PICK old, ex : old = LibOf(f) /\ ex = Loaded(exports[f[2]], LibOf(f))
    OBVIOUS
  <2>2. PICK k \in 0 .. a : /\ {i \in 1 .. a : ls[i].library = old} = {k + j : j \in DOMAIN ex}
                            /\ \A j \in DOMAIN ex : ls[k + j] = ex[j]
    BY <1>3, <2>1 DEF Filed, InARow
  <2>3. \A i \in 1 .. a + b : more[i].library = old <=> i \in 1 .. a /\ ls[i].library = old
    BY <1>5, <1>6, <1>7, <2>1
  <2>4. {i \in 1 .. a + b : more[i].library = old} = {i \in 1 .. a : ls[i].library = old}
    <3>1. \A i \in 1 .. a : i \in 1 .. a + b
      OBVIOUS
    <3> QED
      BY <2>3, <3>1
  <2>5. \A j \in DOMAIN ex : k + j \in 1 .. a
    BY <2>2
  <2>6. k \in 0 .. Len(more)
    BY <1>5
  <2>7. \A j \in DOMAIN ex : more[k + j] = ex[j]
    BY <1>5, <2>2, <2>5
  <2>8. {i \in DOMAIN more : more[i].library = old} = {k + j : j \in DOMAIN ex}
    BY <1>5, <2>2, <2>4
  <2> QED
    BY <2>1, <2>6, <2>7, <2>8 DEF InARow
<1>10. InARow(more, lib, new)
  <2>1. {i \in DOMAIN more : more[i].library = lib} = {a + j : j \in DOMAIN new}
    <3>1. ASSUME NEW i \in DOMAIN more, more[i].library = lib PROVE \E j \in DOMAIN new : i = a + j
      <4>1. i \in 1 .. a + b
        BY <1>5
      <4>2. ~(i \in 1 .. a /\ more[i] = ls[i])
        BY <1>8, <3>1
      <4>3. \E k \in 1 .. b : i = a + k
        BY <1>6, <4>1, <4>2
      <4> QED
        BY <1>3, <4>3
    <3>2. ASSUME NEW j \in DOMAIN new PROVE a + j \in DOMAIN more /\ more[a + j].library = lib
      BY <1>3, <1>4, <1>5
    <3> QED
      BY <3>1, <3>2
  <2>2. a \in 0 .. Len(more)
    BY <1>5
  <2>3. \A j \in DOMAIN new : more[a + j] = new[j]
    BY <1>3, <1>5
  <2> QED
    BY <2>1, <2>2, <2>3 DEF InARow
<1>11. ASSUME NEW i \in DOMAIN more PROVE \E f \in done \cup {e} : more[i].library = LibOf(f)
  <2>1. CASE i \in 1 .. a /\ more[i] = ls[i]
    BY <1>3, <2>1 DEF Filed
  <2>2. CASE more[i].library = lib
    BY <1>1, <2>2
  <2> QED
    BY <1>5, <1>6, <2>1, <2>2
<1>12. ASSUME NEW i \in DOMAIN more, NEW j \in DOMAIN more, i <= j
       PROVE  \E f, g \in done \cup {e} : /\ more[i].library = LibOf(f) /\ more[j].library = LibOf(g)
                                          /\ NotAfter(f, g)
  <2>1. CASE i \in 1 .. a /\ more[i] = ls[i] /\ j \in 1 .. a /\ more[j] = ls[j]
    BY <1>3, <1>12, <2>1 DEF Filed
  <2>2. CASE i \in 1 .. a /\ more[i] = ls[i] /\ more[j].library = lib
    <3>1. PICK f \in done : ls[i].library = LibOf(f)
      BY <1>3, <2>2 DEF Filed
    <3> QED
      BY <1>1, <2>2, <3>1
  <2>3. CASE more[i].library = lib /\ more[j].library = lib
    <3>1. NotAfter(e, e)
      BY SourcesFacts, RankIsNatural DEF NotAfter, RankOf
    <3> QED
      BY <1>1, <2>3, <3>1
  <2>4. i \in 1 .. a + b /\ j \in 1 .. a + b /\ (j <= a => i <= a)
    BY <1>5, <1>12
  <2>5. \/ i \in 1 .. a /\ more[i] = ls[i]
        \/ ~(i <= a) /\ more[i].library = lib
    BY <1>6, <2>4
  <2>6. \/ j \in 1 .. a /\ more[j] = ls[j] /\ j <= a
        \/ more[j].library = lib
    BY <1>6, <2>4
  <2> QED
    BY <2>1, <2>2, <2>3, <2>4, <2>5, <2>6
<1> QED
  BY <1>1, <1>9, <1>10, <1>11, <1>12 DEF Filed

\* The same lints of the same libraries are filed as they were.
LEMMA StaysFiled ==
    ASSUME NEW ls, NEW done, Filed(ls, done), UNCHANGED <<sources, exports>>,
           ls = lints', done = Finished'
    PROVE  Filed(lints, Finished)'
<1>1. \A e : LibOf(e)' = LibOf(e)
  BY DEF LibOf
<1>2. \A e, f : NotAfter(e, f)' <=> NotAfter(e, f)
  BY DEF NotAfter, RankOf, Rank
<1> HIDE DEF Finished, LibOf
<1> QED
  BY <1>1, <1>2 DEF Filed

LEMMA FiledInit == Init => FiledInv
BY DEF Init, FiledInv, Distinct, Loading, Through

LEMMA NothingFiled == Filed(<<>>, {})
BY DEF Filed

LEMMA FiledNext ==
    ASSUME TypeOK, LoadingInv, FiledInv, [Next]_vars
    PROVE  FiledInv'
<1> USE DEF config, settings, library, Fail
<1>0. ASSUME UNCHANGED <<sources, exports, lints>>, NEW done, done = Finished', done = Finished,
             Filed(lints, Finished)
      PROVE  Distinct' /\ Filed(lints, Finished)'
  <2>1. Distinct'
    BY <1>0 DEF FiledInv, Distinct
  <2> QED
    BY <1>0, <2>1, StaysFiled
<1>1. CASE ReadConfig
  BY <1>1 DEF ReadConfig, FiledInv, Distinct, Loading, Through
<1>2. CASE Resolve
  <2>1. /\ pc = "resolve" /\ pc' \notin {"load"} \cup Loading \cup Through
        /\ UNCHANGED <<lints, at>>
    BY <1>2 DEF Resolve, Admit, Loading, Through
  <2>2. Distinct'
    <3>1. CASE sources' = sources
      BY <3>1 DEF FiledInv, Distinct
    <3>2. CASE sources' # sources
      <4>1. PICK r \in entries[Len(sources) + 1] :
              /\ r.dir \notin {sources[i].dir : i \in DOMAIN sources}
              /\ sources' = Append(sources, r)
        BY <1>2, <3>2 DEF Resolve, Admit
      <4>2. sources \in Seq(Resolved) /\ Len(sources) \in Nat /\ DOMAIN sources = 1 .. Len(sources)
        BY DEF TypeOK
      <4>3. r \in Resolved
        <5>1. Len(sources) + 1 \in 1 .. Len(entries) /\ entries \in Seq(Entry)
          BY <1>2, <4>2, EntriesAreASequence DEF Resolve
        <5>2. entries[Len(sources) + 1] \in Entry
          BY <5>1, ElementOfSeq
        <5> QED
          BY <5>2, EntryAssumption
      <4>4. PICK n \in Nat : n = Len(sources)
        BY <4>2
      <4>5. /\ DOMAIN sources' = 1 .. n + 1
            /\ sources'[n + 1] = r /\ \A i \in 1 .. n : sources'[i] = sources[i]
        <5>1. /\ sources' \in Seq(Resolved) /\ Len(sources') = n + 1
              /\ sources'[n + 1] = r /\ \A i \in 1 .. n : sources'[i] = sources[i]
          BY <4>1, <4>2, <4>3, <4>4, AppendProperties
        <5> QED
          BY <5>1, LenProperties
      <4>6. \A i \in 1 .. n + 1 : i \in 1 .. n \/ i = n + 1
        OBVIOUS
      <4> QED
        BY <4>1, <4>2, <4>4, <4>5, <4>6 DEF FiledInv, Distinct
    <3> QED
      BY <3>1, <3>2
  <2> QED
    BY <2>1, <2>2 DEF FiledInv, Through, Loading
<1>3. CASE ResolvedAll
  <2>1. pc = "resolve" /\ pc' = "load" /\ UNCHANGED <<sources, exports, lints, at, todo>>
    BY <1>3 DEF ResolvedAll
  <2>2. lints = <<>> /\ at = 1
    BY <2>1 DEF FiledInv
  <2>3. Finished' = {}
    <3>1. \A i \in DOMAIN sources : ~(i < 1)
      BY SourcesFacts
    <3> QED
      BY <2>1, <2>2, <3>1 DEF Finished, Place, Loading
  <2>4. Filed(lints, Finished)'
    BY <2>1, <2>2, <2>3, NothingFiled, StaysFiled
  <2> QED
    BY <2>1, <2>4 DEF FiledInv, Distinct, Through, Loading
<1>4. CASE Build \/ ListPrebuilt
  <2>1. /\ pc = "load" /\ pc' \in {"open"} \cup Failure /\ UNCHANGED <<sources, exports, lints, at>>
        /\ at <= Len(sources)
    BY <1>4 DEF Build, ListPrebuilt, Failure
  <2>2. at \in DOMAIN sources
    BY <2>1, SourcesFacts DEF TypeOK
  <2>3. pc' = "open" => todo' = Held(at)
    <3>1. CASE Build
      BY <3>1 DEF Build, Held, Offered, Source, CdylibArtifacts
    <3>2. CASE ListPrebuilt
      BY <3>2, PackageAssumption DEF ListPrebuilt, Held, Offered, Source
    <3> QED
      BY <1>4, <3>1, <3>2
  <2>4. CASE pc' = "open"
    <3>1. Finished' = Finished
      BY <2>1, <2>3, <2>4 DEF Finished, Place, Held, Loading
    <3>2. Filed(lints, Finished)
      BY <2>1 DEF FiledInv
    <3>3. Distinct' /\ Filed(lints, Finished)'
      BY <1>0, <2>1, <3>1, <3>2
    <3>4. QueueInv'
      BY <2>1, <2>3, <2>4 DEF QueueInv, Held
    <3> QED
      BY <2>4, <3>3, <3>4 DEF FiledInv, Through, Loading
  <2>5. CASE pc' \in Failure
    BY <2>1, <2>5 DEF FiledInv, Distinct, Failure, Through, Loading
  <2> QED
    BY <2>1, <2>4, <2>5
<1>5. CASE Open \/ Handshake
  <2>1. /\ pc \in Loading /\ pc' \in {"handshake", "list"} \cup Failure
        /\ UNCHANGED <<sources, exports, lints, at, todo>>
    BY <1>5 DEF Open, Handshake, Failure, Loading
  <2>2. CASE pc' \in Loading
    <3>1. Finished' = Finished
      BY <2>1, <2>2 DEF Finished, Place, Held
    <3>2. Filed(lints, Finished)
      BY <2>1 DEF FiledInv
    <3>3. Distinct' /\ Filed(lints, Finished)'
      BY <1>0, <2>1, <3>1, <3>2
    <3>4. QueueInv'
      BY <2>1 DEF FiledInv, QueueInv, Held, Source, Rank
    <3> QED
      BY <2>2, <3>3, <3>4 DEF FiledInv, Through, Loading
  <2>3. CASE pc' \in Failure
    BY <2>1, <2>3 DEF FiledInv, Distinct, Failure, Through, Loading
  <2> QED
    BY <2>1, <2>2, <2>3 DEF Loading
<1>6. CASE CallLoad
  <2>1. pc = "list" /\ UNCHANGED <<sources, exports, at>> /\ pc' \in {"open"} \cup Failure
    BY <1>6 DEF CallLoad, Failure
  <2>2. CASE pc' \in Failure
    BY <2>1, <2>2 DEF FiledInv, Distinct, Failure, Through, Loading
  <2>3. CASE pc' = "open"
    <3>1. PICK p, e : p = First(todo) /\ e = <<at, p>>
      OBVIOUS
    <3>2. /\ todo' = todo \ {p}
          /\ lints' = lints \o Loaded(exports[p], <<Source.dir, p>>)
      BY <1>6, <2>3, <3>1 DEF CallLoad, Failure
    <3>3. todo # {} /\ at \in DOMAIN sources
      BY <2>1, SourcesFacts DEF LoadingInv, TypeOK
    <3>4. p \in todo /\ \A q \in todo : Rank(Source, p) <= Rank(Source, q)
      BY <3>1, <3>3, FirstIsLeast DEF TypeOK
    <3>5. /\ todo \subseteq Held(at) /\ \A r \in Held(at) \ todo : \A q \in todo : Rank(Source, r) <= Rank(Source, q)
          /\ Filed(lints, Finished) /\ Distinct
      BY <2>1 DEF FiledInv, QueueInv, Loading
    <3>6. todo \subseteq Cdylib /\ Held(at) \subseteq Cdylib
      BY DEF TypeOK, Held, Offered
    <3>7. /\ e \in Place /\ e[1] = at /\ e[2] = p /\ LibOf(e) = <<Source.dir, p>>
      BY <3>1, <3>3, <3>4 DEF Place, LibOf, Source, TypeOK
    <3>8. e \notin Finished
      BY <3>4, <3>7, SourcesFacts DEF Finished, TypeOK
    <3>9. \A f \in Finished : NotAfter(f, e)
      <4> SUFFICES ASSUME NEW f \in Finished PROVE NotAfter(f, e)
        OBVIOUS
      <4>1. f \in Place /\ f[2] \in Held(f[1]) /\ (f[1] < at \/ (f[1] = at /\ f[2] \notin todo))
        BY DEF Finished
      <4>2. f[1] = at /\ f[2] \notin todo => Rank(Source, f[2]) <= Rank(Source, p)
        BY <3>4, <3>5, <4>1
      <4> QED
        BY <3>7, <4>1, <4>2 DEF NotAfter, RankOf, Source
    <3>10. PICK done : done = Finished /\ done \in SUBSET Place
      BY DEF Finished
    <3>11. Finished' = done \cup {e}
      <4>1. \A f \in Place : f = e <=> f[1] = at /\ f[2] = p
        BY <3>7, SourcesFacts
      <4>2. \A f \in Place : f[1] = at => ~(f[1] < at)
        BY <3>7, SourcesFacts DEF TypeOK
      <4>3. Finished' = {f \in Place : /\ f[2] \in Held(f[1])
                                       /\ f[1] < at \/ (f[1] = at /\ f[2] \notin todo \ {p})}
        BY <2>1, <2>3, <3>2 DEF Finished, Place, Held, Loading
      <4>4. Finished = {f \in Place : /\ f[2] \in Held(f[1])
                                      /\ f[1] < at \/ (f[1] = at /\ f[2] \notin todo)}
        BY <2>1 DEF Finished, Loading
      <4>5. p \in Held(at)
        BY <3>4, <3>5
      <4> QED
        BY <3>7, <3>10, <4>1, <4>2, <4>3, <4>4, <4>5
    <3>12. PICK more : more = lints'
      OBVIOUS
    <3>13. Filed(more, done \cup {e})
      <4>1. more = lints \o Loaded(exports[e[2]], LibOf(e)) /\ lints \in Seq(LoadedLint)
        BY <3>2, <3>7, <3>12 DEF TypeOK
      <4> QED
        BY <3>5, <3>7, <3>8, <3>9, <3>10, <4>1, FilesOneMore
    <3>14. Filed(lints, Finished)'
      BY <2>1, <3>11, <3>12, <3>13, StaysFiled
    <3>15. \A r \in Held(at) \ (todo \ {p}) : \A q \in todo \ {p} :
             Rank(Source, r) <= Rank(Source, q)
      <4> SUFFICES ASSUME NEW r \in Held(at) \ (todo \ {p}), NEW q \in todo \ {p}
                   PROVE  Rank(Source, r) <= Rank(Source, q)
        OBVIOUS
      <4>1. CASE r = p
        BY <3>4, <4>1
      <4>2. CASE r # p
        BY <3>5, <4>2
      <4> QED
        BY <4>1, <4>2
    <3>16. Distinct'
      BY <2>1, <3>5 DEF Distinct
    <3>17. QueueInv'
      BY <2>1, <3>2, <3>5, <3>15 DEF QueueInv, Held, Source, Rank
    <3> QED
      BY <2>3, <3>14, <3>16, <3>17 DEF FiledInv, Through, Loading
  <2> QED
    BY <2>1, <2>2, <2>3
<1>7. CASE NextSource
  <2>1. /\ pc = "open" /\ pc' = "load" /\ todo = {} /\ at' = at + 1
        /\ UNCHANGED <<sources, exports, lints, todo>>
    BY <1>7 DEF NextSource
  <2>2. Finished' = Finished
    <3>1. \A i \in DOMAIN sources : i < at + 1 <=> i < at \/ i = at
      BY SourcesFacts DEF TypeOK
    <3>2. \A f \in Place : f[1] < at + 1 <=> f[1] < at \/ f[1] = at
      BY <3>1 DEF Place
    <3>3. Finished' = {f \in Place : f[2] \in Held(f[1]) /\ f[1] < at + 1}
      BY <2>1 DEF Finished, Place, Held, Loading
    <3>4. Finished = {f \in Place : f[2] \in Held(f[1]) /\ (f[1] < at \/ f[1] = at)}
      BY <2>1 DEF Finished, Loading
    <3> QED
      BY <3>2, <3>3, <3>4
  <2>3. Filed(lints, Finished)
    BY <2>1 DEF FiledInv, Loading
  <2>4. Distinct' /\ Filed(lints, Finished)'
    BY <1>0, <2>1, <2>2, <2>3
  <2> QED
    BY <2>1, <2>4 DEF FiledInv, Through, Loading
<1>8. CASE RefuseSharedRules \/ ValidateNames \/ Instantiate \/ Ready
  <2>1. /\ pc \in {"load"} \cup Through /\ pc' \in Through \cup Failure
        /\ at > Len(sources) /\ UNCHANGED <<sources, exports, lints, at, todo>>
    BY <1>8 DEF RefuseSharedRules, ValidateNames, Instantiate, Ready, Through, Failure, FiledInv
  <2>2. CASE pc' \in Through
    <3>1. Finished' = Finished
      BY <2>1, <2>2 DEF Finished, Place, Held, Loading, Through
    <3>2. Filed(lints, Finished)
      BY <2>1 DEF FiledInv
    <3>3. Distinct' /\ Filed(lints, Finished)'
      BY <1>0, <2>1, <3>1, <3>2
    <3> QED
      BY <2>1, <2>2, <3>3 DEF FiledInv, Through, Loading
  <2>3. CASE pc' \in Failure
    BY <2>1, <2>3 DEF FiledInv, Distinct, Failure, Through, Loading
  <2> QED
    BY <2>1, <2>2, <2>3
<1>9. CASE UNCHANGED vars
  <2>1. UNCHANGED <<pc, sources, exports, lints, at, todo>>
    BY <1>9 DEF vars
  <2>2. Finished' = Finished
    BY <2>1 DEF Finished, Place, Held
  <2>3. Filed(lints, Finished) => Filed(lints, Finished)'
    BY <1>0, <2>1, <2>2
  <2> QED
    BY <2>1, <2>3 DEF FiledInv, QueueInv, Distinct, Held, Source, Rank
<1> QED
  BY <1>1, <1>2, <1>3, <1>4, <1>5, <1>6, <1>7, <1>8, <1>9 DEF Next, Ended

(* For any packages, directories and entries, whatever cargo selects in a  *)
(* directory and whatever order it reports its artifacts in: a run that    *)
(* goes ahead has every lint of every plugin selected there or packed into *)
(* the archive, each library's in a row, by entry and then by manifest or  *)
(* file name, and no other lint.                                           *)
THEOREM LoadsTheConfigured == Spec => []LoadsWhatIsConfigured
<1>1. TypeOK /\ FiledInv => LoadsWhatIsConfigured
  <2> SUFFICES ASSUME TypeOK, FiledInv, pc \in Through PROVE LoadsWhatIsConfigured
    BY DEF LoadsWhatIsConfigured
  <2>1. Filed(lints, Finished) /\ Distinct /\ at > Len(sources)
    BY DEF FiledInv
  <2>2. Finished = {e \in Place : e[2] \in Held(e[1])}
    <3>1. \A i \in DOMAIN sources : i < at
      BY <2>1, SourcesFacts DEF TypeOK
    <3> QED
      BY <3>1 DEF Finished, Place
  <2>3. ASSUME NEW i \in DOMAIN sources, NEW lib \in LibrariesOf(sources[i])
        PROVE  InARow(lints, lib, Loaded(exports[lib[2]], lib))
    <3>1. PICK p \in Held(i) : lib = <<sources[i].dir, p>>
      BY DEF LibrariesOf, Held
    <3>2. PICK e : e = <<i, p>>
      OBVIOUS
    <3>3. e \in Finished /\ LibOf(e) = lib /\ e[2] = lib[2]
      BY <2>2, <3>1, <3>2 DEF Place, Held, Offered, LibOf
    <3> QED
      BY <2>1, <3>3 DEF Filed
  <2>4. ASSUME NEW e \in Finished
        PROVE  /\ e[1] \in DOMAIN sources /\ LibOf(e) \in LibrariesOf(sources[e[1]])
               /\ Position(LibOf(e)[1]) = e[1] /\ LibOf(e)[2] = e[2]
    <3>1. e[1] \in DOMAIN sources /\ e[2] \in Held(e[1])
      BY <2>2 DEF Place
    <3>2. LibOf(e)[1] = sources[e[1]].dir /\ LibOf(e)[2] = e[2]
      BY DEF LibOf
    <3>3. Position(sources[e[1]].dir) = e[1]
      BY <2>1, <3>1 DEF Position, Distinct
    <3> QED
      BY <3>1, <3>2, <3>3 DEF LibOf, LibrariesOf, Held
  <2>5. ASSUME NEW i \in DOMAIN lints PROVE \E j \in DOMAIN sources : lints[i].library \in LibrariesOf(sources[j])
    BY <2>1, <2>4 DEF Filed
  <2>6. ASSUME NEW i \in DOMAIN lints, NEW j \in i .. Len(lints)
        PROVE  LET a == lints[i].library
                   b == lints[j].library
               IN  \/ Position(a[1]) < Position(b[1])
                   \/ a[1] = b[1] /\ InOrder(sources[Position(a[1])], a[2], b[2])
    <3>1. j \in DOMAIN lints /\ i <= j
      BY DEF TypeOK
    <3>2. PICK e, f \in Finished : /\ lints[i].library = LibOf(e) /\ lints[j].library = LibOf(f)
                                   /\ NotAfter(e, f)
      BY <2>1, <3>1 DEF Filed
    <3>3. e[1] = f[1] => LibOf(e)[1] = LibOf(f)[1]
      BY DEF LibOf
    <3> QED
      BY <2>4, <3>2, <3>3 DEF NotAfter, RankOf, Rank, InOrder
  <2> QED
    BY <2>3, <2>5, <2>6 DEF LoadsWhatIsConfigured
<1> QED
  BY <1>1, FiledInit, FiledNext, TypeCorrect, PTL DEF Spec
=============================================================================
