--------------------------- MODULE OutputCleanup ---------------------------
(***************************************************************************)
(* Writing a project's outputs and cleaning up after earlier builds        *)
(* (build.rs, write_project_outputs_inner; output_cleanup.rs).             *)
(*                                                                         *)
(* A build reads the manifest of the build before it, writes its output    *)
(* files one by one, removes the files the old manifest lists and the new  *)
(* build did not emit, and writes its own manifest.  Any of these steps    *)
(* may fail, and the process may die between two of them, or while it      *)
(* writes the manifest.  Users put files of their own into the output      *)
(* folder and damage the manifest.                                         *)
(***************************************************************************)
EXTENDS Naturals, FiniteSets

CONSTANTS
    Paths,         \* relative paths of files in the output folder
    Managed,       \* those that count as managed artifacts: by their
                   \* extension, or because they are emitted as bytes
    Rank,          \* the place of each path in the order of the manifest
    Beginnings,    \* Beginnings[p] : the paths whose name is a proper
                   \* beginning of the name of p
    Builders,      \* the builder kinds that share the folder
    MaxBuilds,     \* bound on the builds of a behaviour
    MaxMishaps,    \* bound on failures, crashes and damages
    Mishaps        \* which may happen: "fail", "crash", "damage"

ASSUME CleanupAssumption ==
    /\ Managed \subseteq Paths
    /\ Rank \in [Paths -> Nat]
    /\ \A p, q \in Paths : Rank[p] = Rank[q] => p = q
    /\ Beginnings \in [Paths -> SUBSET Paths]
    /\ Builders \cap {"nobody", "user"} = {}
    /\ MaxBuilds \in Nat /\ MaxMishaps \in Nat
    /\ Mishaps \subseteq {"fail", "crash", "damage"}

VARIABLES
    files,      \* who wrote each path last: a builder, "user", or "nobody"
    manifest,   \* .beanstalk_manifest: whether valid, its builder and paths
    pc,         \* where write_project_outputs_inner is
    builder,    \* the builder of the running build
    outputs,    \* the paths it emits
    pending,    \* those it has not emitted yet
    loaded,     \* the manifest as read before the first write
    current,    \* current_managed_artifact_paths
    builds,     \* builds started so far
    mishaps,    \* mishaps so far
    emitted,    \* history: emitted[b] : every path builder b has written
    sole,       \* history: all builds were of one builder
    torn,       \* history: a manifest was once cut inside a path
    lastBuild   \* history: how the last build ended

buildVars == <<pc, builder, outputs, pending, loaded, current>>
vars == <<files, manifest, buildVars, builds, mishaps, emitted, sole, torn,
          lastBuild>>

\* Missing, unreadable, of another version, or with invalid metadata.
NoManifest == [valid |-> FALSE, owner |-> "nobody", paths |-> {}]

Init ==
    /\ files \in [Paths -> {"nobody", "user"}]
    /\ manifest = NoManifest
    /\ pc = "idle" /\ builder \in Builders
    /\ outputs = {} /\ pending = {} /\ loaded = NoManifest /\ current = {}
    /\ builds = 0 /\ mishaps = 0
    /\ emitted = [b \in Builders |-> {}]
    /\ sole = TRUE /\ torn = FALSE
    /\ lastBuild = "none"

Mishap(kind) ==
    /\ kind \in Mishaps /\ mishaps < MaxMishaps
    /\ mishaps' = mishaps + 1

-----------------------------------------------------------------------------
(* The environment, between builds.                                        *)

UserWrites(p) ==
    /\ pc = "idle" /\ Mishap("damage")
    /\ files' = [files EXCEPT ![p] = "user"]
    /\ lastBuild' = "none"
    /\ UNCHANGED <<manifest, buildVars, builds, emitted, sole, torn>>

UserDamagesManifest ==
    /\ pc = "idle" /\ manifest.valid /\ Mishap("damage")
    /\ manifest' = NoManifest
    /\ lastBuild' = "none"
    /\ UNCHANGED <<files, buildVars, builds, emitted, sole, torn>>

-----------------------------------------------------------------------------
(* One build.                                                              *)

\* A plausible bug: a manifest is read without a look at its builder.
StartBuildTrusting(b, outs) ==
    /\ pc = "idle" /\ builds < MaxBuilds
    /\ builder' = b /\ outputs' = outs /\ pending' = outs /\ current' = {}
    /\ loaded' = manifest
    /\ builds' = builds + 1
    /\ sole' = (sole /\ (builds = 0 \/ b = builder))
    /\ lastBuild' = "none"
    /\ pc' = "emit"
    /\ UNCHANGED <<files, manifest, mishaps, emitted, torn>>

\* prepare_output_cleanup reads the manifest before anything is written; one
\* of another builder does not count.
StartBuild(b, outs) ==
    /\ pc = "idle" /\ builds < MaxBuilds
    /\ builder' = b /\ outputs' = outs /\ pending' = outs /\ current' = {}
    /\ loaded' = IF manifest.owner = b THEN manifest ELSE NoManifest
    /\ builds' = builds + 1
    /\ sole' = (sole /\ (builds = 0 \/ b = builder))
    /\ lastBuild' = "none"
    /\ pc' = "emit"
    /\ UNCHANGED <<files, manifest, mishaps, emitted, torn>>

\* A plausible bug: a file of any extension is tracked.
EmitFileUnmanaged(p) ==
    /\ pc = "emit" /\ p \in pending
    /\ pending' = pending \ {p}
    /\ files' = [files EXCEPT ![p] = builder]
    /\ current' = current \cup {p}
    /\ emitted' = [emitted EXCEPT ![builder] = @ \cup {p}]
    /\ UNCHANGED <<manifest, pc, builder, outputs, loaded, builds, mishaps,
                   sole, torn, lastBuild>>

\* One iteration of emit_project_output_files.
EmitFile(p) ==
    /\ pc = "emit" /\ p \in pending
    /\ pending' = pending \ {p}
    /\ files' = [files EXCEPT ![p] = builder]
    /\ current' = current \cup ({p} \cap Managed)
    /\ emitted' = [emitted EXCEPT ![builder] = @ \cup {p}]
    /\ UNCHANGED <<manifest, pc, builder, outputs, loaded, builds, mishaps,
                   sole, torn, lastBuild>>

\* A path is refused or a write fails: the build ends with an error, and what
\* it wrote stays.
EmitFails ==
    /\ pc = "emit" /\ pending # {} /\ Mishap("fail")
    /\ pc' = "idle" /\ lastBuild' = "failed"
    /\ UNCHANGED <<files, manifest, builder, outputs, pending, loaded, current,
                   builds, emitted, sole, torn>>

\* A plausible bug: cleanup of everything the old manifest lists.
StaleAll == loaded.paths

\* What remove_manifest_tracked_stale_artifacts has to go through.
Stale == loaded.paths \ current

\* One iteration of it.
RemoveStale(p) ==
    /\ pc = "emit" /\ pending = {}
    /\ p \in Stale /\ files[p] # "nobody"
    /\ files' = [files EXCEPT ![p] = "nobody"]
    /\ UNCHANGED <<manifest, buildVars, builds, mishaps, emitted, sole, torn,
                   lastBuild>>

\* A manifest of the running build that parses.
Listing(paths) == [valid |-> TRUE, owner |-> builder, paths |-> paths]

\* A plausible bug: the manifest lists what is new in this build.
WriteManifestOfNew ==
    /\ pc = "emit" /\ pending = {}
    /\ \A p \in Stale : files[p] = "nobody"
    /\ manifest' = Listing(current \ loaded.paths)
    /\ pc' = "idle" /\ lastBuild' = "ok"
    /\ UNCHANGED <<files, builder, outputs, pending, loaded, current, builds,
                   mishaps, emitted, sole, torn>>

\* write_build_manifest ends the build.  The removal of files may have failed
\* or been refused, with no more than a warning.
WriteManifest ==
    /\ pc = "emit" /\ pending = {}
    /\ IF \E p \in Stale : files[p] # "nobody"
       THEN Mishap("fail") /\ lastBuild' = "warned"
       ELSE UNCHANGED mishaps /\ lastBuild' = "ok"
    /\ manifest' = Listing(current)
    /\ pc' = "idle"
    /\ UNCHANGED <<files, builder, outputs, pending, loaded, current, builds,
                   emitted, sole, torn>>

\* What fs::write may leave when it stops halfway: the old manifest, one
\* without its metadata, or a valid header and the first of the sorted paths,
\* the last of them cut.  What remains of that one may be the name of a file.
HalfWritten ==
    \/ manifest' \in {manifest, NoManifest} /\ UNCHANGED torn
    \/ \E p \in current : \E left \in {{}} \cup {{b} : b \in Beginnings[p]} :
          /\ manifest' = Listing({q \in current : Rank[q] < Rank[p]} \cup left)
          /\ torn' = (torn \/ left # {})

\* Writing the manifest is not atomic.
WriteManifestFails ==
    /\ pc = "emit" /\ pending = {} /\ Mishap("fail")
    /\ HalfWritten
    /\ pc' = "idle" /\ lastBuild' = "failed"
    /\ UNCHANGED <<files, builder, outputs, pending, loaded, current, builds,
                   emitted, sole>>

\* The process dies, maybe while it writes the manifest or just after.
Crash ==
    /\ pc # "idle" /\ Mishap("crash")
    /\ \/ UNCHANGED <<manifest, torn>>
       \/ pending = {} /\ HalfWritten
       \/ pending = {} /\ manifest' = Listing(current) /\ UNCHANGED torn
    /\ pc' = "idle" /\ lastBuild' = "failed"
    /\ UNCHANGED <<files, builder, outputs, pending, loaded, current, builds,
                   emitted, sole>>

Next ==
    \/ \E p \in Paths : UserWrites(p)
    \/ UserDamagesManifest
    \/ \E b \in Builders, outs \in SUBSET Paths : StartBuild(b, outs)
    \/ \E p \in Paths : EmitFile(p) \/ RemoveStale(p)
    \/ EmitFails \/ WriteManifest \/ WriteManifestFails \/ Crash

Spec == Init /\ [][Next]_vars
-----------------------------------------------------------------------------
IsManifest(m) ==
    m \in [valid : BOOLEAN, owner : Builders \cup {"nobody"},
           paths : SUBSET Paths]

TypeOK ==
    /\ files \in [Paths -> Builders \cup {"nobody", "user"}]
    /\ IsManifest(manifest) /\ IsManifest(loaded)
    /\ pc \in {"idle", "emit"}
    /\ builder \in Builders
    /\ outputs \in SUBSET Paths /\ pending \in SUBSET Paths
    /\ current \in SUBSET Paths
    /\ builds \in Nat /\ mishaps \in Nat
    /\ emitted \in [Builders -> SUBSET Paths]
    /\ sole \in BOOLEAN /\ torn \in BOOLEAN
    /\ lastBuild \in {"none", "ok", "warned", "failed"}

\* The artifacts of a builder: the managed files it has emitted.
Own(b) == emitted[b] \cap Managed

\* The names that a manifest of the builder lists by accident alone: what an
\* interrupted write of it left of one of them.
CutNames(b) == IF torn THEN UNION {Beginnings[p] : p \in Own(b)} ELSE {}

\* Cleanup only deletes what this builder emitted under that path before, and
\* of managed extension: no file of the user that never was an artifact, and no
\* file only another builder wrote, whatever crashes and damage came between.
\* The one exception is a file whose name is a beginning of such an artifact's,
\* once the write of a manifest was interrupted inside a path.
OnlyOwnArtifactsAreRemoved ==
    [][\A p \in Paths :
          files[p] # "nobody" /\ files'[p] = "nobody" =>
              p \in Own(builder) \cup CutNames(builder)]_vars

\* Cleanup never removes what the running build just emitted, unless it is an
\* unmanaged file that a cut manifest lists.
CurrentOutputsSurvive ==
    pc = "emit" => \A p \in outputs \ pending :
        files[p] = builder \/ p \in CutNames(builder) \ Managed

\* The manifest, whichever build, crash or failed write it survived, claims no
\* file that its builder did not emit; except, if it was cut inside a path, the
\* one name that is left of that path.
ManifestClaimsOwnArtifacts ==
    manifest.valid =>
        LET strange == manifest.paths \ Own(manifest.owner) IN
        /\ strange \subseteq CutNames(manifest.owner)
        /\ \A p, q \in strange : p = q

\* Artifacts of removed pages do not persist: after a build that succeeded the
\* folder holds no managed artifact of the builder besides its outputs, as long
\* as no mishap and no build of another builder broke the chain of manifests.
NoStaleArtifacts ==
    lastBuild = "ok" /\ mishaps = 0 /\ sole =>
        \A p \in Managed : files[p] = builder => p \in outputs

\* Files that limited safe mode preserved are cleaned up by the first build
\* that finds a valid manifest again.
PreservedUntilManifestIsValid ==
    lastBuild = "ok" /\ loaded.valid =>
        \A p \in Managed : files[p] = builder => p \in outputs
=============================================================================
