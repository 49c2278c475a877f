------------------------ MODULE OutputCleanupProofs ------------------------
(***************************************************************************)
(* Proofs about OutputCleanup: whatever fails, crashes or is damaged, and  *)
(* however often, a build removes only what its builder emitted or what a  *)
(* manifest cut inside a path seems to list, keeps what it emits itself,   *)
(* and leaves no stale artifact behind while nothing goes wrong.           *)
(***************************************************************************)
EXTENDS OutputCleanup, TLAPS

\* A manifest is none, or lists managed files that its builder emitted, and at
\* most one name that is left of such a file's.
Claims(m) ==
    \/ m = NoManifest
    \/ /\ m.owner \in Builders
       /\ m.paths \subseteq Own(m.owner) \cup CutNames(m.owner)
       /\ \A p, q \in m.paths \ Own(m.owner) : p = q

\* What a build has read is its own builder's.
LoadedIsOwn == loaded = NoManifest \/ (loaded.owner = builder /\ Claims(loaded))

\* What a build has emitted so far is on disk, unless a cut manifest lists it by
\* accident, and the managed part of it is what it will list.
EmittedSoFar ==
    pc = "emit" =>
        /\ pending \subseteq outputs
        /\ current = (outputs \ pending) \cap Managed
        /\ \A p \in outputs \ pending : p \in emitted[builder]
        /\ \A p \in outputs \ pending :
              files[p] = builder \/ p \in CutNames(builder) \ Managed

\* Before the first build no file is anybody's artifact.
NothingYet ==
    builds = 0 => /\ pc = "idle" /\ manifest = NoManifest
                  /\ \A p \in Paths : files[p] \notin Builders

\* An unbroken chain of builds: each artifact is listed in the manifest on
\* disk or, during a build, in the one it read or in its own.
ChainIsUnbroken ==
    mishaps = 0 /\ sole =>
        /\ pc = "idle" =>
              /\ manifest = NoManifest \/ manifest.owner = builder
              /\ \A p \in Managed : files[p] = builder => p \in manifest.paths
        /\ pc = "emit" =>
              \A p \in Managed : files[p] = builder => p \in loaded.paths \cup current
        /\ lastBuild = "ok" => pc = "idle" /\ manifest.paths \subseteq outputs

CleanupInv ==
    /\ TypeOK /\ Claims(manifest) /\ LoadedIsOwn
    /\ EmittedSoFar /\ NothingYet /\ ChainIsUnbroken

-----------------------------------------------------------------------------
LEMMA NoManifestType == IsManifest(NoManifest)
BY DEF IsManifest, NoManifest

LEMMA InitHolds == Init => CleanupInv
<1> SUFFICES ASSUME Init PROVE CleanupInv
  OBVIOUS
<1>1. TypeOK
  BY NoManifestType DEF Init, TypeOK
<1>2. \A p \in Paths : files[p] \in {"nobody", "user"}
  BY DEF Init
<1>3. NothingYet
  BY <1>2, CleanupAssumption DEF Init, NothingYet
<1>4. ChainIsUnbroken
  BY <1>2, CleanupAssumption DEF Init, ChainIsUnbroken
<1> QED
  BY <1>1, <1>3, <1>4 DEF Init, CleanupInv, Claims, LoadedIsOwn, EmittedSoFar

\* What a builder has emitted and what may be left of its names only grows.
LEMMA OwnGrows ==
    ASSUME TypeOK, \A b \in Builders : emitted[b] \subseteq emitted'[b],
           torn => torn'
    PROVE  \A b \in Builders : /\ Own(b) \subseteq Own(b)'
                               /\ CutNames(b) \subseteq CutNames(b)'
BY DEF Own, CutNames

\* So a claim once justified stays so.
LEMMA ClaimsLast ==
    ASSUME TypeOK, \A b \in Builders : emitted[b] \subseteq emitted'[b],
           torn => torn', NEW m, Claims(m)
    PROVE  \/ m = NoManifest
           \/ /\ m.owner \in Builders
              /\ m.paths \subseteq Own(m.owner)' \cup CutNames(m.owner)'
              /\ \A p, q \in m.paths \ Own(m.owner)' : p = q
BY OwnGrows DEF Claims

\* A mishap ends what the chain promises.
LEMMA MishapBreaks ==
    ASSUME TypeOK, NEW kind, Mishap(kind)
    PROVE  mishaps' \in Nat /\ mishaps' # 0
BY DEF TypeOK, Mishap

LEMMA UserWritesStep ==
    ASSUME CleanupInv, NEW p \in Paths, UserWrites(p)
    PROVE  CleanupInv'
<1> USE DEF UserWrites, buildVars
<1>1. TypeOK'
  BY MishapBreaks DEF CleanupInv, TypeOK, IsManifest
<1>2. Claims(manifest)' /\ LoadedIsOwn'
  BY DEF CleanupInv, Claims, LoadedIsOwn, Own, CutNames
<1>3. EmittedSoFar'
  BY DEF CleanupInv, EmittedSoFar, Own, CutNames
<1>4. NothingYet'
  BY CleanupAssumption DEF CleanupInv, NothingYet, TypeOK
<1>5. ChainIsUnbroken'
  BY MishapBreaks DEF CleanupInv, ChainIsUnbroken
<1> QED
  BY <1>1, <1>2, <1>3, <1>4, <1>5 DEF CleanupInv

LEMMA UserDamagesManifestStep ==
    ASSUME CleanupInv, UserDamagesManifest
    PROVE  CleanupInv'
<1> USE DEF UserDamagesManifest, buildVars
<1>1. TypeOK'
  BY MishapBreaks, NoManifestType DEF CleanupInv, TypeOK, IsManifest
<1>2. Claims(manifest)' /\ LoadedIsOwn'
  BY DEF CleanupInv, Claims, LoadedIsOwn, Own, CutNames
<1>3. EmittedSoFar' /\ NothingYet'
  BY DEF CleanupInv, EmittedSoFar, NothingYet, Own, CutNames
<1>4. ChainIsUnbroken'
  BY MishapBreaks DEF CleanupInv, ChainIsUnbroken
<1> QED
  BY <1>1, <1>2, <1>3, <1>4 DEF CleanupInv

LEMMA StartBuildStep ==
    ASSUME CleanupInv, NEW b \in Builders, NEW outs \in SUBSET Paths,
           StartBuild(b, outs)
    PROVE  CleanupInv'
<1> USE DEF StartBuild
<1>1. loaded' = NoManifest \/ (loaded' = manifest /\ manifest.owner = b)
  OBVIOUS
<1>2. TypeOK'
  BY <1>1, NoManifestType DEF CleanupInv, TypeOK, IsManifest
<1>3. Claims(manifest)'
  BY DEF CleanupInv, Claims, Own, CutNames
<1>4. LoadedIsOwn'
  BY <1>1 DEF CleanupInv, Claims, LoadedIsOwn, Own, CutNames
<1>5. EmittedSoFar'
  BY DEF EmittedSoFar
<1>6. NothingYet'
  BY DEF CleanupInv, TypeOK, NothingYet
<1>7. ChainIsUnbroken'
  <2> SUFFICES ASSUME mishaps' = 0, sole',
                      NEW p \in Managed, files'[p] = builder'
               PROVE  p \in loaded'.paths
    BY DEF ChainIsUnbroken
  <2>1. p \in Paths
    BY CleanupAssumption
  <2>2. CASE builds = 0
    BY <2>1, <2>2 DEF CleanupInv, NothingYet
  <2>3. CASE builds # 0
    <3>1. b = builder /\ mishaps = 0 /\ sole
      BY <2>3
    <3>2. p \in manifest.paths
      BY <3>1 DEF CleanupInv, ChainIsUnbroken
    <3>3. manifest # NoManifest
      BY <3>2 DEF NoManifest
    <3>4. manifest.owner = b
      BY <3>1, <3>3 DEF CleanupInv, ChainIsUnbroken
    <3> QED
      BY <3>2, <3>4
  <2> QED
    BY <2>2, <2>3
<1> QED
  BY <1>2, <1>3, <1>4, <1>5, <1>6, <1>7 DEF CleanupInv

LEMMA EmitFileStep ==
    ASSUME CleanupInv, NEW p \in Paths, EmitFile(p)
    PROVE  CleanupInv'
<1> USE DEF EmitFile
<1>1. TypeOK'
  BY DEF CleanupInv, TypeOK, IsManifest
<1>2. \A b \in Builders : emitted[b] \subseteq emitted'[b]
  BY DEF CleanupInv, TypeOK
<1>3. Claims(manifest)' /\ LoadedIsOwn'
  BY <1>2, ClaimsLast DEF CleanupInv, Claims, LoadedIsOwn
<1>4. EmittedSoFar'
  <2>1. CutNames(builder) \subseteq CutNames(builder)'
    BY <1>2, OwnGrows DEF CleanupInv, TypeOK
  <2> QED
    BY <2>1 DEF CleanupInv, EmittedSoFar, TypeOK
<1>5. NothingYet'
  BY DEF CleanupInv, NothingYet
<1>6. ChainIsUnbroken'
  BY CleanupAssumption DEF CleanupInv, ChainIsUnbroken, TypeOK
<1> QED
  BY <1>1, <1>3, <1>4, <1>5, <1>6 DEF CleanupInv

\* What is removed was listed by an earlier build, or seemed to be, and is no
\* managed output of this one.
LEMMA StaleIsNotEmitted ==
    ASSUME CleanupInv, pc = "emit", pending = {}, NEW p \in Stale
    PROVE  /\ p \in Own(builder) \cup CutNames(builder)
           /\ p \in outputs => p \in CutNames(builder) \ Managed
<1>1. loaded # NoManifest
  BY DEF Stale, NoManifest
<1>2. p \in Own(builder) \cup CutNames(builder)
  BY <1>1 DEF CleanupInv, LoadedIsOwn, Claims, Stale
<1>3. p \in outputs => p \notin Managed
  BY DEF CleanupInv, EmittedSoFar, Stale
<1> QED
  BY <1>2, <1>3 DEF Own

LEMMA RemoveStaleStep ==
    ASSUME CleanupInv, NEW p \in Paths, RemoveStale(p)
    PROVE  CleanupInv'
<1> USE DEF RemoveStale, buildVars
<1>1. TypeOK'
  BY DEF CleanupInv, TypeOK, IsManifest
<1>2. Claims(manifest)' /\ LoadedIsOwn'
  BY DEF CleanupInv, Claims, LoadedIsOwn, Own, CutNames
<1>3. p \in outputs => p \in CutNames(builder) \ Managed
  BY StaleIsNotEmitted
<1>4. EmittedSoFar'
  BY <1>3 DEF CleanupInv, EmittedSoFar, TypeOK, CutNames, Own
<1>5. NothingYet'
  BY DEF CleanupInv, NothingYet
<1>6. ChainIsUnbroken'
  BY CleanupAssumption DEF CleanupInv, ChainIsUnbroken, TypeOK
<1> QED
  BY <1>1, <1>2, <1>4, <1>5, <1>6 DEF CleanupInv

\* What a build lists at its end are artifacts of its builder, and its outputs.
LEMMA CurrentIsOwn ==
    ASSUME CleanupInv, pc = "emit", pending = {}
    PROVE  current \subseteq Own(builder) /\ current \subseteq outputs
BY DEF CleanupInv, EmittedSoFar, Own

LEMMA WriteManifestStep ==
    ASSUME CleanupInv, WriteManifest
    PROVE  CleanupInv'
<1> USE DEF WriteManifest
<1>1. mishaps' \in Nat /\ (mishaps' = 0 => /\ mishaps = 0 /\ lastBuild' = "ok"
                                           /\ \A p \in Stale : files[p] = "nobody")
  BY MishapBreaks DEF CleanupInv, TypeOK
<1>2. TypeOK'
  BY <1>1 DEF CleanupInv, TypeOK, IsManifest, Listing
<1>3. current \subseteq Own(builder) /\ current \subseteq outputs
  BY CurrentIsOwn
<1>4. Claims(manifest)'
  BY <1>3 DEF CleanupInv, TypeOK, Claims, Listing, Own, CutNames
<1>5. LoadedIsOwn'
  BY DEF CleanupInv, LoadedIsOwn, Claims, Own, CutNames
<1>6. EmittedSoFar' /\ NothingYet'
  BY DEF CleanupInv, EmittedSoFar, NothingYet, Own, CutNames
<1>7. ChainIsUnbroken'
  <2> SUFFICES ASSUME mishaps' = 0, sole'
               PROVE  /\ \A p \in Managed : files[p] = builder => p \in current
                      /\ current \subseteq outputs
    BY DEF ChainIsUnbroken, Listing
  <2>1. ASSUME NEW p \in Managed, files[p] = builder PROVE p \in current
    <3>1. p \in loaded.paths \cup current
      BY <1>1, <2>1 DEF CleanupInv, ChainIsUnbroken
    <3>2. p \notin Stale
      BY <1>1, <2>1, CleanupAssumption DEF CleanupInv, TypeOK
    <3> QED
      BY <3>1, <3>2 DEF Stale
  <2> QED
    BY <1>3, <2>1
<1> QED
  BY <1>2, <1>4, <1>5, <1>6, <1>7 DEF CleanupInv

\* Whatever an interrupted write leaves is a manifest whose claims are
\* justified, but for the name that is left of the path it was cut in.
LEMMA HalfWrittenClaims ==
    ASSUME CleanupInv, pc = "emit", pending = {}, HalfWritten,
           UNCHANGED <<emitted, builder>>
    PROVE  /\ IsManifest(manifest)' /\ torn' \in BOOLEAN /\ (torn => torn')
           /\ Claims(manifest)'
<1>1. CASE manifest' \in {manifest, NoManifest} /\ UNCHANGED torn
  BY <1>1, NoManifestType DEF CleanupInv, TypeOK, IsManifest, Claims, Own, CutNames
<1>2. ASSUME NEW p \in current, NEW left \in {{}} \cup {{b} : b \in Beginnings[p]},
             manifest' = Listing({q \in current : Rank[q] < Rank[p]} \cup left),
             torn' = (torn \/ left # {})
      PROVE  /\ IsManifest(manifest)' /\ torn' \in BOOLEAN /\ (torn => torn')
             /\ Claims(manifest)'
  <2>1. current \subseteq Own(builder) /\ current \subseteq Paths /\ builder \in Builders
    BY CurrentIsOwn DEF CleanupInv, TypeOK
  <2>2. left \subseteq Beginnings[p] /\ left \subseteq Paths /\ \A x, y \in left : x = y
    BY <1>2, <2>1, CleanupAssumption
  <2>3. torn \in BOOLEAN /\ torn' \in BOOLEAN /\ (torn => torn') /\ (left # {} => torn')
    BY <1>2 DEF CleanupInv, TypeOK
  <2>4. current \subseteq Own(builder)'
    BY <2>1 DEF Own
  <2>5. left \subseteq CutNames(builder)'
    <3>1. p \in Own(builder)'
      BY <2>4
    <3> QED
      BY <2>2, <2>3, <3>1 DEF CutNames
  <2>6. /\ manifest'.valid = TRUE /\ manifest'.owner = builder
        /\ manifest'.paths = {q \in current : Rank[q] < Rank[p]} \cup left
    BY <1>2 DEF Listing
  <2>7. IsManifest(manifest)'
    BY <1>2, <2>1, <2>2 DEF IsManifest, Listing
  <2>8. Claims(manifest)'
    BY <2>1, <2>2, <2>4, <2>5, <2>6 DEF Claims
  <2> QED
    BY <2>3, <2>7, <2>8
<1> QED
  BY <1>1, <1>2 DEF HalfWritten

\* A crash leaves the manifest, what an interrupted write leaves, or the new one.
LEMMA CrashClaims ==
    ASSUME CleanupInv, Crash
    PROVE  /\ IsManifest(manifest)' /\ torn' \in BOOLEAN /\ (torn => torn')
           /\ Claims(manifest)'
<1>1. pc = "emit" /\ UNCHANGED <<emitted, builder>>
  BY DEF Crash, CleanupInv, TypeOK
<1>2. CASE UNCHANGED <<manifest, torn>>
  BY <1>1, <1>2 DEF CleanupInv, TypeOK, IsManifest, Claims, Own, CutNames
<1>3. CASE pending = {} /\ HalfWritten
  BY <1>1, <1>3, HalfWrittenClaims
<1>4. CASE pending = {} /\ manifest' = Listing(current) /\ UNCHANGED torn
  <2>1. current \subseteq Own(builder)'
    BY <1>1, <1>4, CurrentIsOwn DEF Own
  <2>2. current \subseteq Paths /\ builder \in Builders /\ torn \in BOOLEAN
    BY DEF CleanupInv, TypeOK
  <2>3. IsManifest(manifest)'
    BY <1>4, <2>2 DEF IsManifest, Listing
  <2>4. manifest'.owner = builder /\ manifest'.paths = current
    BY <1>4 DEF Listing
  <2>5. Claims(manifest)'
    BY <1>1, <2>1, <2>2, <2>4 DEF Claims
  <2> QED
    BY <1>4, <2>2, <2>3, <2>5
<1> QED
  BY <1>2, <1>3, <1>4 DEF Crash

\* The steps that end a build badly leave a manifest whose claims are justified.
LEMMA BadEndStep ==
    ASSUME CleanupInv, EmitFails \/ WriteManifestFails \/ Crash
    PROVE  CleanupInv'
<1>1. /\ \E kind : Mishap(kind)
      /\ pc # "idle" /\ pc' = "idle" /\ lastBuild' = "failed"
      /\ UNCHANGED <<files, builder, outputs, pending, loaded, current, builds,
                     emitted, sole>>
  BY DEF EmitFails, WriteManifestFails, Crash
<1>2. mishaps' \in Nat /\ mishaps' # 0
  BY <1>1, MishapBreaks DEF CleanupInv
<1>3. /\ IsManifest(manifest)' /\ torn' \in BOOLEAN /\ (torn => torn')
      /\ Claims(manifest)'
  <2>1. CASE EmitFails
    BY <2>1 DEF EmitFails, CleanupInv, TypeOK, IsManifest, Claims, Own, CutNames
  <2>2. CASE WriteManifestFails
    BY <2>2, HalfWrittenClaims DEF WriteManifestFails
  <2>3. CASE Crash
    BY <2>3, CrashClaims
  <2> QED
    BY <2>1, <2>2, <2>3
<1>4. TypeOK'
  BY <1>1, <1>2, <1>3 DEF CleanupInv, TypeOK, IsManifest
<1>5. LoadedIsOwn'
  BY <1>1, <1>3, ClaimsLast DEF CleanupInv, TypeOK, Claims, LoadedIsOwn
<1>6. EmittedSoFar' /\ NothingYet'
  BY <1>1 DEF CleanupInv, EmittedSoFar, NothingYet
<1>7. ChainIsUnbroken'
  BY <1>2 DEF ChainIsUnbroken
<1> QED
  BY <1>3, <1>4, <1>5, <1>6, <1>7 DEF CleanupInv

LEMMA StepHolds == CleanupInv /\ [Next]_vars => CleanupInv'
<1> SUFFICES ASSUME CleanupInv, [Next]_vars PROVE CleanupInv'
  OBVIOUS
<1>1. CASE UNCHANGED vars
  BY <1>1 DEF vars, buildVars, CleanupInv, TypeOK, IsManifest, Claims, LoadedIsOwn,
              EmittedSoFar, NothingYet, ChainIsUnbroken, Own, CutNames
<1>2. CASE Next
  BY <1>2, UserWritesStep, UserDamagesManifestStep, StartBuildStep, EmitFileStep,
     RemoveStaleStep, WriteManifestStep, BadEndStep DEF Next
<1> QED
  BY <1>1, <1>2

-----------------------------------------------------------------------------
\* The inductive invariant holds for any paths, builders, builds and mishaps.
THEOREM CleanupInvariant == Spec => []CleanupInv
BY InitHolds, StepHolds, PTL DEF Spec

\* Cleanup never removes what the running build has just emitted, unless a cut
\* manifest lists an unmanaged file by accident.
THEOREM CurrentOutputsSurviveHolds == Spec => []CurrentOutputsSurvive
<1>1. CleanupInv => CurrentOutputsSurvive
  BY DEF CleanupInv, EmittedSoFar, CurrentOutputsSurvive
<1> QED
  BY <1>1, CleanupInvariant, PTL

\* The manifest on disk claims no file that its builder did not emit, whichever
\* crashes and failed writes it has survived, besides the one name that is left
\* of a path it was cut in.
THEOREM ManifestClaimsOwnArtifactsHolds == Spec => []ManifestClaimsOwnArtifacts
<1>1. CleanupInv => ManifestClaimsOwnArtifacts
  BY DEF CleanupInv, Claims, NoManifest, ManifestClaimsOwnArtifacts
<1> QED
  BY <1>1, CleanupInvariant, PTL

\* While nothing went wrong, a build that succeeded leaves no artifact of its
\* builder in the folder besides its outputs.
THEOREM NoStaleArtifactsHolds == Spec => []NoStaleArtifacts
<1>1. CleanupInv => NoStaleArtifacts
  BY DEF CleanupInv, ChainIsUnbroken, NoStaleArtifacts
<1> QED
  BY <1>1, CleanupInvariant, PTL

\* A step of remove_manifest_tracked_stale_artifacts is the only one that
\* deletes, and what it deletes this builder emitted, as a managed artifact, or
\* a cut manifest of it lists by accident.
THEOREM OnlyOwnArtifactsAreRemovedHolds == Spec => OnlyOwnArtifactsAreRemoved
<1> DEFINE Removal == \A p \in Paths :
               files[p] # "nobody" /\ files'[p] = "nobody" =>
                   p \in Own(builder) \cup CutNames(builder)
<1>1. CleanupInv /\ [Next]_vars => [Removal]_vars
  <2> SUFFICES ASSUME CleanupInv, Next PROVE Removal
    OBVIOUS
  <2> SUFFICES ASSUME NEW q \in Paths, files[q] # "nobody", files'[q] = "nobody"
               PROVE  q \in Own(builder) \cup CutNames(builder)
    OBVIOUS
  <2>1. files \in [Paths -> Builders \cup {"nobody", "user"}] /\ builder \in Builders
    BY DEF CleanupInv, TypeOK
  <2>2. ASSUME NEW p \in Paths, UserWrites(p) PROVE FALSE
    BY <2>1, <2>2 DEF UserWrites
  <2>3. ASSUME NEW p \in Paths, EmitFile(p) PROVE FALSE
    BY <2>1, <2>3, CleanupAssumption DEF EmitFile
  <2>4. ASSUME NEW p \in Paths, RemoveStale(p) PROVE q \in Own(builder) \cup CutNames(builder)
    <3>1. q = p
      BY <2>1, <2>4 DEF RemoveStale
    <3> QED
      BY <2>4, <3>1, StaleIsNotEmitted DEF RemoveStale
  <2> QED
    BY <2>2, <2>3, <2>4 DEF Next, UserDamagesManifest, StartBuild, EmitFails,
       WriteManifest, WriteManifestFails, Crash
<1> QED
  BY <1>1, CleanupInvariant, PTL DEF Spec, OnlyOwnArtifactsAreRemoved
=============================================================================
