--------------------------- MODULE WorkspacePlan ------------------------------
(***************************************************************************)
(* What becomes of a plan when it is run: the overlay of mount points in   *)
(* the source snapshot, and for each row the preparation of                *)
(* src/workspace.rs (PreparedWorkspace::prepare_with_generation) and the   *)
(* environment and mounts src/runtime.rs renders (dry_run).                *)
(*                                                                         *)
(* A plan may be run several times, of different commits.  A row's run     *)
(* root is named after the digest of its plan, so that each run finds what *)
(* the earlier ones left in it.  The lock on it is modelled in CheckRun,   *)
(* the preparation of the cache entries in CachePromotion; here a cache    *)
(* entry is known by its key.                                              *)
(***************************************************************************)
EXTENDS PlanBuild, SourceSnapshot

CONSTANTS
    Commits,      \* the commits there may be a run of
    MaxUses,      \* how often a plan is run
    HostNames,    \* the names runtime_environment passes on to the docker CLI
    Host          \* the names the environment of the process has

VARIABLES
    step,         \* where the run is, or why it was given up
    current,      \* the row being executed
    todo,         \* the targets left to look at in the current step
    trees,        \* each row's run root: path -> its kind and the runs that wrote to it
    mounts,       \* WorkspacePlanV1::mounts
    used          \* how often the plan has been run

workspaceVars == <<snapshotVars, step, current, todo, trees, mounts, used>>
allVars == <<vars, workspaceVars>>

Envelope(r) == IF Matrix THEN RuntimeEnvelope(MatrixPlan(Rows, plans), r) ELSE plans[r]

tree == trees[current]

\* artifact_kind_for
ArtifactKindFor(check, path) ==
    LET contracts == SelectSeq(check.contracts, LAMBDA k : k.path = path)
    IN  IF contracts = <<>> THEN "file" ELSE contracts[1].kind

\* The artifacts, check after check, with the kind of each.
PlannedArtifacts(checks) ==
    FlattenSeq([i \in DOMAIN checks |->
        LET c == checks[i]
        IN  [j \in DOMAIN c.artifacts |->
               [path |-> c.artifacts[j], kind |-> ArtifactKindFor(c, c.artifacts[j]),
                check |-> c.id]]])

\* The mount targets, where they must be and as what, in the order
\* validate_repository_mount_targets and prepare_mount_overlay go through them.
Targets(caches, checks) ==
    LET artifacts == PlannedArtifacts(checks)
    IN  [i \in DOMAIN caches |-> [path |-> caches[i].mount, kind |-> "directory", cache |-> TRUE]]
            \o [i \in DOMAIN artifacts |->
                  [path |-> artifacts[i].path, kind |-> artifacts[i].kind, cache |-> FALSE]]

\* CacheKey::for_plan_cache, and the key of each of a plan's caches.
CacheKey(p, cache) == [plan |-> p, id |-> cache.id]

CacheSource(p, cache) == [root |-> "cache", key |-> CacheKey(p, cache)]

\* container_target
ContainerTarget(path) == <<Workspace>> \o path

-----------------------------------------------------------------------------
\* A matrix has one overlay, for the checks of all the rows (prepare_source_snapshot_overlay).
OverlayTargets ==
    Targets(Envelope(1).caches, FlattenSeq([r \in DOMAIN plans |-> Envelope(r).checks]))

\* print_run: a plan with a secret for remote runs is refused; the commit is materialized, or is of
\* a kind that cannot be.
MaterializeCommit ==
    /\ phase = "done" /\ step = "idle" /\ used < MaxUses
    /\ \E commit \in Commits :
        \/ Envelope(1).env.remote = <<>> /\ Materialize(commit) /\ step' = "overlay"
        \/ /\ Envelope(1).env.remote # <<>> \/ ~Supported(commit)
           /\ step' = "refused" /\ UNCHANGED snapshotVars
    /\ todo' = OverlayTargets /\ current' = 1
    /\ UNCHANGED <<vars, trees, mounts, used>>

PrepareMountOverlay ==
    /\ step = "overlay" /\ todo # <<>>
    /\ \/ /\ Present(Head(todo)) \/ OverlayFile(Head(todo)) \/ OverlayDirectory(Head(todo))
          /\ todo' = Tail(todo) /\ UNCHANGED step
       \/ OverlayFails(Head(todo)) /\ step' = "blocked" /\ UNCHANGED todo
    /\ UNCHANGED <<vars, current, trees, mounts, used>>

\* The next row is prepared in the snapshot.
BeginRowOf(r) ==
    /\ step' = "targets" /\ current' = r
    /\ todo' = Targets(Envelope(r).caches, Envelope(r).checks)

OverlayDone ==
    /\ step = "overlay" /\ todo = <<>> /\ BeginRowOf(1)
    /\ UNCHANGED <<vars, snapshotVars, trees, mounts, used>>

\* validate_repository_mount_target
TargetFits(target) == target.path \in DOMAIN source /\ source[target.path].kind = target.kind

ValidateTarget ==
    /\ step = "targets" /\ todo # <<>>
    /\ \/ TargetFits(Head(todo)) /\ todo' = Tail(todo) /\ UNCHANGED step
       \/ ~TargetFits(Head(todo)) /\ step' = "unfit" /\ UNCHANGED todo
    /\ UNCHANGED <<vars, snapshotVars, current, trees, mounts, used>>

TargetsValid ==
    /\ step = "targets" /\ todo = <<>>
    /\ step' = "artifacts" /\ todo' = PlannedArtifacts(Envelope(current).checks)
    /\ UNCHANGED <<vars, snapshotVars, current, trees, mounts, used>>

\* create_managed_directory_chain: the directories that are missing on the way to a path.
Blocked(path) == \E q \in Ancestry(path) : q \in DOMAIN tree /\ tree[q].kind # "directory"

Chain(path) ==
    tree @@ [q \in Ancestry(path) \ DOMAIN tree |-> [kind |-> "directory", by |-> {}]]

\* What prepare_artifact makes of the run root: File::create empties a file that is there, while
\* a directory keeps what it has.
Prepared(a) ==
    IF a.kind = "directory" THEN Chain(a.path)
    ELSE (a.path :> [kind |-> "file", by |-> {}]) @@ Chain(Front(a.path))

\* Mutant of Unsafe: a file must not be there yet.
UnsafeIfPresent(a) ==
    IF a.kind = "directory" THEN Blocked(a.path)
    ELSE Blocked(Front(a.path)) \/ a.path \in DOMAIN tree

\* When prepare_artifact refuses with UnsafeManagedObject.
Unsafe(a) ==
    IF a.kind = "directory" THEN Blocked(a.path)
    ELSE Blocked(Front(a.path)) \/ (a.path \in DOMAIN tree /\ tree[a.path].kind # "file")

PrepareArtifact ==
    /\ step = "artifacts" /\ todo # <<>>
    /\ LET a == Head(todo)
       IN  \/ Unsafe(a) /\ step' = "unsafe" /\ UNCHANGED <<todo, trees>>
           \/ /\ ~Unsafe(a) /\ trees' = [trees EXCEPT ![current] = Prepared(a)]
              /\ todo' = Tail(todo) /\ UNCHANGED step
    /\ UNCHANGED <<vars, snapshotVars, current, mounts, used>>

\* The mounts build_with_cache_sources asks for.
Bindings(p) ==
    LET artifacts == PlannedArtifacts(p.checks)
    IN  <<[source |-> [root |-> "repository"], target |-> <<Workspace>>, access |-> "ro",
           purpose |-> "repository", id |-> <<>>, kind |-> "directory", generation |-> <<>>]>>
        \o [i \in DOMAIN p.caches |->
              [source |-> CacheSource(p, p.caches[i]), target |-> ContainerTarget(p.caches[i].mount),
               access |-> "rw", purpose |-> "cache", id |-> <<p.caches[i].id>>,
               kind |-> "directory", generation |-> <<>>]]
        \o [i \in DOMAIN artifacts |->
              [source |-> [root |-> "run", path |-> artifacts[i].path],
               target |-> ContainerTarget(artifacts[i].path), access |-> "rw",
               purpose |-> "artifact", id |-> <<artifacts[i].check, artifacts[i].path>>,
               kind |-> artifacts[i].kind, generation |-> <<>>]]

\* Mutant of WithGenerations: the first cache mount is taken, whoever its source is.
WithGenerationsInOrder(p, ms) ==
    FoldLeft(LAMBDA s, c :
        LET i == CHOOSE i \in DOMAIN s : s[i].purpose = "cache"
        IN  [s EXCEPT ![i].generation = <<CacheKey(p, c)>>], ms, p.caches)

\* Each prepared entry is expected at the cache mount that has its data as source.
WithGenerations(p, ms) ==
    FoldLeft(LAMBDA s, c :
        LET at == {i \in DOMAIN s : s[i].purpose = "cache" /\ s[i].source = CacheSource(p, c)}
        IN  [i \in DOMAIN s |-> IF at # {} /\ i = Min(at)
                                THEN [s[i] EXCEPT !.generation = <<CacheKey(p, c)>>] ELSE s[i]],
        ms, p.caches)

\* A target that is taken is refused with DuplicateTarget.
BuildMounts ==
    /\ step = "artifacts" /\ todo = <<>>
    /\ LET asked == Bindings(Envelope(current))
           unique == NoDuplicates([i \in DOMAIN asked |-> asked[i].target])
       IN  \/ ~unique /\ step' = "duplicate" /\ UNCHANGED mounts
           \/ unique /\ step' = "ready" /\ mounts' = WithGenerations(Envelope(current), asked)
    /\ UNCHANGED <<vars, snapshotVars, current, todo, trees, used>>

\* The row's checks run: whatever is mounted writable may be written to.
Execute ==
    /\ step = "ready"
    /\ \E written \in SUBSET {m.source.path : m \in {n \in Range(mounts) : n.purpose = "artifact"}} :
        trees' = [trees EXCEPT ![current] =
                    [q \in DOMAIN tree |->
                       IF q \in written THEN [tree[q] EXCEPT !.by = @ \cup {used}] ELSE tree[q]]]
    /\ step' = "ran" /\ mounts' = <<>>
    /\ UNCHANGED <<vars, snapshotVars, current, todo, used>>

Disturbed ==
    /\ step = "ran" /\ Disturb
    /\ step' = "disturbed" /\ UNCHANGED <<vars, current, todo, trees, mounts, used>>

Revalidate ==
    /\ step \in {"ran", "disturbed"}
    /\ step' = IF Revalidates THEN "valid" ELSE "changed"
    /\ UNCHANGED <<vars, snapshotVars, current, todo, trees, mounts, used>>

\* The next row, or the end of the run.
RowDone ==
    /\ step = "valid"
    /\ \/ current < Len(plans) /\ BeginRowOf(current + 1) /\ UNCHANGED <<snapshotVars, used>>
       \/ /\ current = Len(plans) /\ RemoveSnapshot /\ used' = used + 1
          /\ step' = "idle" /\ UNCHANGED <<current, todo>>
    /\ UNCHANGED <<vars, trees, mounts>>

-----------------------------------------------------------------------------
\* revalidate_mount_sources accepts a mount.  What lies at a source in the cache is modelled in
\* CachePromotion.
MountRevalidates(m) ==
    CASE m.purpose = "repository" -> TRUE
      [] m.purpose = "cache" -> m.generation = <<m.source.key>>
      [] m.purpose = "artifact" -> /\ m.source.path \in DOMAIN tree
                                   /\ tree[m.source.path].kind = m.kind

\* docker_execution_environment, with later insertions over earlier ones; a name is taken from the
\* host only if the host has it.
Environment(p) ==
    [n \in {p.env.internal[i].name : i \in DOMAIN p.env.internal} |->
       [target |-> (CHOOSE b \in Range(p.env.internal) : b.name = n).target]]
        @@ [n \in Range(p.env.fixed) |-> [class |-> "fixed"]]
        @@ [n \in (Range(p.env.inherit) \cup HostNames) \cap Host |-> [class |-> "host"]]

\* NormalizedEnvironment::names, the names docker_dry_run_check passes on to the container.
PassedNames(p) ==
    Range(p.env.inherit) \cup Range(p.env.fixed)
        \cup {p.env.internal[i].name : i \in DOMAIN p.env.internal}

\* docker_dry_run_check: a check is given all of the plan's mounts and names; docker leaves out a
\* name that its own environment does not have.
DryRunCheck(p, c) ==
    [id |-> c.id, deps |-> c.deps, mounts |-> mounts,
     env |-> [n \in PassedNames(p) \cap DOMAIN Environment(p) |-> Environment(p)[n]]]

-----------------------------------------------------------------------------
PlanStep == Next /\ step = "idle" /\ used = 0 /\ UNCHANGED workspaceVars

WorkspaceInit ==
    /\ Init
    /\ manifest = <<>> /\ source = <<>> /\ overlay_files = {} /\ overlay_directories = {}
    /\ step = "idle" /\ current = 1 /\ todo = <<>> /\ trees = [r \in 1..MaxRuntimes |-> <<>>]
    /\ mounts = <<>> /\ used = 0

WorkspaceNext ==
    \/ PlanStep \/ MaterializeCommit \/ PrepareMountOverlay \/ OverlayDone \/ ValidateTarget
    \/ TargetsValid \/ PrepareArtifact \/ BuildMounts \/ Execute \/ Disturbed \/ Revalidate
    \/ RowDone

WorkspaceSpec == WorkspaceInit /\ [][WorkspaceNext]_allVars

-----------------------------------------------------------------------------
PlannedPaths == {t.path : t \in UNION {Range(Targets(Envelope(r).caches, Envelope(r).checks)) :
                                         r \in DOMAIN plans}}

\* A run of a plan that into_plan has accepted is not given up before the checks, for a target
\* that is taken, one in the way of another or one of the wrong kind, unless the commit has an
\* entry there or two rows of a matrix share the place; what earlier runs left in the run roots
\* does not matter (prepare_mount_overlay, DuplicateTarget, UnsafeManagedObject,
\* UnsafeRepositoryMountTarget).  In particular a target that the commit does not have is no reason
\* to give up: the overlay makes it.  CONFIGURATION.md:136-141, CACHE_AND_WORKSPACE.md:164-169 and
\* ADOPTION_GUIDE.md:90-93 say the opposite, that a live run rejects a missing destination before
\* Docker starts; that is so of prepare_with_generation alone, without the overlay before it.
PlansAreMountable ==
    /\ step \notin {"duplicate", "unsafe"}
    /\ step \in {"blocked", "unfit"} =>
        \E p \in PlannedPaths :
            \/ \E q \in DOMAIN manifest : IsPrefix(p, q) \/ IsPrefix(q, p)
            \/ \E q \in PlannedPaths : Matrix /\ IsStrictPrefix(p, q)

\* When the checks start every mount passes the revalidation made before each container, lies at a
\* place of the snapshot of its own kind, and hides no other writable mount
\* (revalidate_mount_sources, validate_repository_mount_target).
MountsFit ==
    step = "ready" =>
        /\ \A i \in DOMAIN mounts : MountRevalidates(mounts[i])
        /\ \A i, j \in 2..Len(mounts) : i # j => ~IsPrefix(mounts[i].target, mounts[j].target)
        /\ \A m \in Range(mounts) :
            m.purpose # "repository" => source[Tail(m.target)].kind = m.kind

\* A regular file that a check leaves untouched cannot pass for its output: when the checks start
\* the file is empty, though an earlier use of the plan filled it (prepare_artifact).
FilesStartEmpty ==
    step = "ready" => \A q \in DOMAIN tree : tree[q].kind = "file" => tree[q].by = {}

\* What is sealed was checked on the commit and nothing else: after a revalidation that succeeds
\* every entry of the commit is there, unchanged, and no file besides the mount points; one that
\* fails means that this is not so, the overlay alone never makes it fail (revalidate).
SealedSourceIsCommit ==
    step \in {"valid", "changed"} =>
        (step = "valid") =
            /\ \A p \in DOMAIN manifest :
                p \in DOMAIN source /\ source[p] = File(p, manifest[p] = "executable")
            /\ \A p \in DOMAIN source : source[p].kind \in {"file", "directory"}
            /\ \A p \in Files : p \in DOMAIN manifest \cup PlannedPaths
            /\ overlay_files \subseteq Files

\* In every container each name the plan declares has the value of its class, an inherited one that
\* of the host, if it has one, an internal one the place where its cache is mounted; no other name
\* is passed on, and a plan with a secret for remote runs is not run here
\* (docker_execution_environment, docker_dry_run_check, print_run).
NamesBoundAsDeclared ==
    step = "ready" =>
        LET p == Envelope(current)
        IN  \A c \in Range(p.checks) :
            LET d == DryRunCheck(p, c)
            IN  /\ \A n \in Range(p.env.fixed) : d.env[n] = [class |-> "fixed"]
                /\ \A n \in Range(p.env.inherit) \cap Host : d.env[n] = [class |-> "host"]
                /\ DOMAIN d.env = PassedNames(p) \ (Range(p.env.inherit) \ Host)
                /\ p.env.remote = <<>>
                /\ \A b \in Range(p.env.internal) : \E m \in Range(d.mounts) :
                    /\ m.purpose = "cache" /\ m.id = <<b.cache>> /\ m.access = "rw"
                    /\ d.env[b.name] = [target |-> m.target]
                    /\ \E k \in Range(config.caches) : k.id = b.cache /\ Tail(m.target) = k.mount

\* The checks start as planned: in containers whose mounts fit, with empty output files and with
\* every declared name bound to the value of its class (WorkspacePlan::prepare and its mounts).
ChecksStartAsPlanned == MountsFit /\ FilesStartEmpty /\ NamesBoundAsDeclared
=============================================================================
