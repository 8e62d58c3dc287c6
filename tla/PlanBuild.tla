----------------------------- MODULE PlanBuild -------------------------------
(***************************************************************************)
(* From a configuration to the normalized plan whose digest binds receipts *)
(* and policies: ConfigV1::into_plan of src/config.rs, and for a           *)
(* configuration with several runtimes build_plan_with_profile of          *)
(* src/matrix.rs, which plans each runtime's checks as a configuration of  *)
(* its own, with the projection of src/matrix_legacy.rs.                   *)
(*                                                                         *)
(* Ids and names are numbers, ordered as the strings are.  A path is the   *)
(* sequence of its segments, a segment a sequence of character codes.  An  *)
(* optional field is a sequence of at most one element.  No two plans have *)
(* the same digest.                                                        *)
(***************************************************************************)
EXTENDS CheckOrder, Relation, SequencesExt

CONSTANTS
    Families,     \* the configurations that may be loaded, in families
    MaxChecks, MaxCaches, MaxRuntimes,
    MaxBytes,     \* the upper bound of max_bytes of an artifact contract
    MaxEntries,   \* that of max_entries, for a directory
    MaxStorage,   \* MAX_STORAGE_BYTES
    MinReserve    \* MIN_RECEIPT_JOURNAL_RESERVE_BYTES

VARIABLES
    config,       \* the configuration being planned
    phase,        \* the step of into_plan, "done", "failed" or "overlap"
    row,          \* the runtime whose checks are being planned
    plans,        \* the plans of the rows before it
    first         \* what the configuration gave before it was rewritten, and how it was

planVars == <<config, phase, row, plans, first>>
vars == <<orderVars, planVars>>

Matrix == config.runtimes # <<>>

RuntimeIds == [i \in DOMAIN config.runtimes |-> config.runtimes[i].id]

Rows == IF Matrix THEN SetToSortSeq(Range(RuntimeIds), <) ELSE <<0>>

\* What the runtime of a row is given, besides the policy.
RuntimeSpec(id) ==
    IF Matrix THEN (CHOOSE r \in Range(config.runtimes) : r.id = id).spec ELSE config.runtime

\* The configuration of one row, as MatrixConfigV2 hands it to ConfigV1::into_plan.
Group ==
    IF Matrix
    THEN [config EXCEPT !.schema = "1.0", !.storage = <<>>, !.policy = {},
                        !.checks = SelectSeq(config.checks, LAMBDA c : c.runtime = Rows[row])]
    ELSE config

-----------------------------------------------------------------------------
\* Paths.
Slash == 47
Dot == 46
Tilde == 126
Colon == 58
Backslash == 92
Root == << <<Dot>> >>

\* The directory the repository is mounted at in a container, written as the codes of "/w".
Workspace == <<Slash, 119>>

\* The string of a path.
Text(p) ==
    FoldLeft(LAMBDA s, segment : IF s = <<>> THEN segment ELSE s \o <<Slash>> \o segment, <<>>, p)

\* validate_relative_path; a path that begins with a slash has an empty first segment.
ValidPath(p) ==
    \/ p = Root
    \/ /\ p # <<>> /\ ~IsPrefix(<<Tilde>>, p[1])
       /\ \A i \in DOMAIN p : /\ p[i] \notin {<<>>, <<Dot>>, <<Dot, Dot>>}
                              /\ Range(p[i]) \cap {Colon, Backslash} = {}

\* The order of the strings.
PathBefore(p, q) ==
    LET s == Text(p)  t == Text(q)
    IN  IsStrictPrefix(s, t) \/
        \E i \in DOMAIN s \cap DOMAIN t :
            SubSeq(s, 1, i - 1) = SubSeq(t, 1, i - 1) /\ s[i] < t[i]

\* reject_path_overlap: equal, or one continues the other with a slash.
Overlap(p, q) ==
    LET s == Text(p)
        t == Text(q)
        inside(a, b) == IsStrictPrefix(b, a) /\ a[Len(b) + 1] = Slash
    IN  s = t \/ inside(s, t) \/ inside(t, s)

-----------------------------------------------------------------------------
NoDuplicates(s) == \A i, j \in DOMAIN s : i # j => s[i] # s[j]

Sorted(s) == SetToSortSeq(Range(s), <)

SortedBy(s, Key(_)) == SetToSortSeq(Range(s), LAMBDA a, b : Key(a) < Key(b))

\* normalize_caches
CachesValid(g) ==
    /\ Len(g.caches) <= MaxCaches
    /\ NoDuplicates([i \in DOMAIN g.caches |-> g.caches[i].id])
    /\ NoDuplicates([i \in DOMAIN g.caches |-> g.caches[i].mount])
    /\ \A c \in Range(g.caches) : ValidPath(c.mount) /\ c.mount # Root

NormalizedCaches(g) == SortedBy(g.caches, LAMBDA c : c.id)

\* normalize_environment
EnvironmentNames(g) ==
    g.env.allow \o SetToSeq(g.env.fixed)
        \o [i \in DOMAIN g.env.internal |-> g.env.internal[i].name] \o g.env.remote

EnvironmentValid(g) ==
    /\ NoDuplicates(EnvironmentNames(g))
    /\ g.schema = "1.0" => g.env.fixed = {} /\ g.env.internal = <<>> /\ g.env.remote = <<>>
    /\ g.schema # "1.0" => g.env.allow = <<>>
    /\ \A b \in Range(g.env.internal) : \E c \in Range(g.caches) : c.id = b.cache

NormalizedEnvironment(g) ==
    LET target(b) == <<Workspace>> \o (CHOOSE c \in Range(g.caches) : c.id = b.cache).mount
        bound == [i \in DOMAIN g.env.internal |->
                    [name |-> g.env.internal[i].name, cache |-> g.env.internal[i].cache,
                     target |-> target(g.env.internal[i])]]
    IN  [inherit |-> Sorted(g.env.allow), fixed |-> SetToSortSeq(g.env.fixed, <),
         internal |-> SortedBy(bound, LAMBDA b : b.name), remote |-> Sorted(g.env.remote)]

\* validate_text, validate_identifier: the names and texts of a check are well formed, or one is not
TextValid(c) == c.valid

\* validate_check, the lists of a check, validate_artifact_contracts
CheckValid(c) ==
    /\ TextValid(c)
    /\ NoDuplicates(c.deps) /\ NoDuplicates(c.artifacts)
    /\ \A p \in Range(c.artifacts) : ValidPath(p) /\ p # Root
    /\ \A k \in Range(c.contracts) :
        /\ k.path \in Range(c.artifacts) /\ k.bytes \in 1..MaxBytes
        /\ k.entries \in 1..(IF k.kind = "file" THEN 1 ELSE MaxEntries)
    /\ NoDuplicates([i \in DOMAIN c.contracts |-> c.contracts[i].path])

ChecksError(g) ==
    IF g.checks = <<>> THEN "no_checks"
    ELSE IF Len(g.checks) > MaxChecks THEN "too_many"
    ELSE IF \A c \in Range(g.checks) : ~c.required THEN "no_required"
    ELSE IF \E c \in Range(g.checks) : ~CheckValid(c) THEN "check"
    ELSE IF ~NoDuplicates([i \in DOMAIN g.checks |-> g.checks[i].id]) THEN "duplicate"
    ELSE "none"

CheckById(g, id) == CHOOSE c \in Range(g.checks) : c.id = id

\* normalize_check, of a check whose lists unique_sorted has put in order; the contracts keep the
\* order they are declared in.  A matrix configuration has none (as_v1).
NormalizedCheck(c) ==
    [id |-> c.id, required |-> c.required, argv |-> c.argv, dir |-> c.dir, timeout |-> c.timeout,
     deps |-> Sorted(c.deps), artifacts |-> SetToSortSeq(Range(c.artifacts), PathBefore),
     contracts |-> IF Matrix THEN <<>>
                   ELSE [i \in DOMAIN c.contracts |->
                           [path |-> c.contracts[i].path, kind |-> c.contracts[i].kind,
                            bytes |-> c.contracts[i].bytes, entries |-> c.contracts[i].entries,
                            producer |-> c.id]]]

\* validate_dependencies
DependenciesValid(g) ==
    LET ids == {c.id : c \in Range(g.checks)}
    IN  \A c \in Range(g.checks) : Range(c.deps) \subseteq ids \ {c.id}

\* The sum normalize_storage makes of the contracts.
ArtifactBytes(g) ==
    FoldLeft(LAMBDA n, c : FoldLeft(LAMBDA m, k : m + k.bytes, n, c.contracts), 0, g.checks)

\* normalize_storage
StorageValid(g) ==
    /\ g.schema \notin {"1.2", "1.3"} => g.storage = <<>>
    /\ g.schema \in {"1.2", "1.3"} => g.storage # <<>>
    /\ \A s \in Range(g.storage) :
        /\ s.free \in 1..MaxStorage /\ s.reserve \in MinReserve..MaxStorage
        /\ s.growth \in 0..MaxStorage
        /\ s.free + s.reserve + s.growth + ArtifactBytes(g) <= MaxStorage

\* The mounts a row writes to, in the order validate_path_isolation looks at them.
CacheMounts(g) == LET caches == NormalizedCaches(g) IN [i \in DOMAIN caches |-> caches[i].mount]

Artifacts(g) ==
    FlattenSeq([i \in DOMAIN ordered |-> NormalizedCheck(CheckById(g, ordered[i])).artifacts])

\* Mutant of PathsIsolated: artifacts are not compared with the caches.
PathsIsolatedFromReceipt(g) ==
    LET caches == CacheMounts(g)  artifacts == Artifacts(g)
    IN  /\ \A i \in DOMAIN caches : ~Overlap(caches[i], g.output)
        /\ \A i, j \in DOMAIN caches : i < j => ~Overlap(caches[i], caches[j])
        /\ \A i, j \in DOMAIN artifacts : j < i => ~Overlap(artifacts[i], artifacts[j])
        /\ \A i \in DOMAIN artifacts : ~Overlap(artifacts[i], g.output)

\* validate_path_isolation
PathsIsolated(g) ==
    LET caches == CacheMounts(g)  artifacts == Artifacts(g)
    IN  /\ \A i \in DOMAIN caches : ~Overlap(caches[i], g.output)
        /\ \A i, j \in DOMAIN caches : i < j => ~Overlap(caches[i], caches[j])
        /\ \A i, j \in DOMAIN artifacts : j < i => ~Overlap(artifacts[i], artifacts[j])
        /\ \A i \in DOMAIN artifacts : ~Overlap(artifacts[i], g.output)
        /\ \A i \in DOMAIN artifacts, j \in DOMAIN caches : ~Overlap(artifacts[i], caches[j])

\* ExecutionPlanV1
Plan(g) ==
    [schema |-> g.schema, project |-> g.project, runtime |-> RuntimeSpec(Rows[row]),
     policy |-> g.policy, output |-> g.output, freshness |-> g.freshness,
     env |-> NormalizedEnvironment(g), caches |-> NormalizedCaches(g), storage |-> g.storage,
     checks |-> [i \in DOMAIN ordered |-> NormalizedCheck(CheckById(g, ordered[i]))]]

-----------------------------------------------------------------------------
Go(from, to) == phase = from /\ phase' = to

\* A step of into_plan that validates: it goes on, or the first error is returned.
Stage(from, to, ok) ==
    /\ (ok /\ Go(from, to)) \/ (~ok /\ Go(from, "failed"))
    /\ UNCHANGED <<orderVars, config, row, plans, first>>

\* The part of build_plan_with_profile before the rows; an ordinary configuration has one row.
GroupRows ==
    Stage("start", "row",
          Matrix =>
            /\ config.schema = "2.0"
            /\ Len(config.runtimes) \in 2..MaxRuntimes /\ NoDuplicates(RuntimeIds)
            /\ \A c \in Range(config.checks) : c.runtime \in Range(RuntimeIds)
            /\ NoDuplicates([i \in DOMAIN config.checks |-> config.checks[i].id])
            /\ \A c, d \in Range(config.checks) :
                 d.id \in Range(c.deps) => d.runtime = c.runtime)

BeginRow == Stage("row", "top", Matrix => \E c \in Range(Group.checks) : c.required)

\* validate_repository_identity, validate_image_reference, validate_bounded: the fields that are
\* single values are well formed, or one is not
ScalarsValid == config.scalars

\* validate_top_level, and the fields that are single values wherever they are looked at
ValidateTopLevel ==
    Stage("top", "caches",
          /\ Group.schema \in {"1.0", "1.1", "1.2", "1.3"} /\ ScalarsValid
          /\ ValidPath(config.output) /\ config.output # Root)

NormalizeCaches == Stage("caches", "runtime", CachesValid(Group))

\* normalize_runtime: pull policy and swap mode, in schema 1.3 and in no other.
NormalizeRuntime ==
    Stage("runtime", "environment",
          Group.policy = IF Group.schema = "1.3" THEN {"pull", "swap"} ELSE {})

NormalizeEnvironment == Stage("environment", "checks", EnvironmentValid(Group))

NormalizeChecks ==
    /\ phase = "checks"
    /\ LET g == Group
           ok == ChecksError(g) = "none" /\ DependenciesValid(g)
       IN  \/ /\ ok /\ phase' = "order"
              /\ StartOrder([id \in {c.id : c \in Range(g.checks)} |-> Range(CheckById(g, id).deps)])
           \/ ~ok /\ phase' = "failed" /\ UNCHANGED orderVars
    /\ UNCHANGED <<config, row, plans, first>>

OrderCheck == phase = "order" /\ PopReady /\ UNCHANGED planVars

OrderEnds == ready = {} /\ Stage("order", "storage", Ordered)

NormalizeStorage == Stage("storage", "paths", StorageValid(Group))

\* Path isolation, then the row's plan; the last row completes the plan.
FinishRow ==
    /\ phase = "paths"
    /\ \/ /\ PathsIsolated(Group)
          /\ plans' = Append(plans, Plan(Group))
          /\ \/ row < Len(Rows) /\ phase' = "row" /\ row' = row + 1
             \/ row = Len(Rows) /\ phase' = "done" /\ UNCHANGED row
       \/ ~PathsIsolated(Group) /\ phase' = "overlap" /\ UNCHANGED <<row, plans>>
    /\ UNCHANGED <<orderVars, config, first>>

\* The same declarations, in the opposite order.
Redeclared ==
    LET check(c) == [c EXCEPT !.deps = Reverse(@), !.artifacts = Reverse(@),
                              !.contracts = Reverse(@)]
        turned == Reverse(config.checks)
    IN  [config EXCEPT
            !.caches = Reverse(@), !.runtimes = Reverse(@),
            !.env.allow = Reverse(@), !.env.internal = Reverse(@), !.env.remote = Reverse(@),
            !.checks = [i \in DOMAIN turned |-> check(turned[i])]]

Outcome ==
    [built |-> phase = "done", rows |-> Rows, plans |-> IF phase = "done" THEN plans ELSE <<>>]

\* The configuration file is rewritten and planned again.
Rewrite(how, new) ==
    /\ first = <<>>
    /\ first' = <<[how |-> how, outcome |-> Outcome]>> /\ config' = new
    /\ phase' = "start" /\ row' = 1 /\ plans' = <<>>
    /\ deps' = <<>> /\ indegree' = <<>> /\ ready' = {} /\ ordered' = <<>>

\* It has the same declarations as before ...
Redeclare == phase \in {"done", "failed", "overlap"} /\ Rewrite("redeclared", Redeclared)

\* ... or a matrix has one value changed: of the project, of a runtime or of a check.
Edits ==
    {[config EXCEPT ![field] = @ + 1] : field \in {"project", "freshness"}}
        \cup {[config EXCEPT !.runtimes[1].spec[field] = @ + 1] :
                field \in {"image", "cpu", "memory", "pids", "network"}}
        \cup {[config EXCEPT !.checks[1][field] = @ + 1] : field \in {"argv", "dir", "timeout"}}
        \cup {[config EXCEPT !.checks[1].artifacts = <<>>], [config EXCEPT !.env.allow = <<>>],
              [config EXCEPT !.caches = SubSeq(@, 2, Len(@))]}

Edit == phase = "done" /\ Matrix /\ \E c \in Edits : Rewrite("edited", c)

Init ==
    /\ \E family \in Families : config \in family
    /\ phase = "start" /\ row = 1 /\ plans = <<>> /\ first = <<>>
    /\ deps = <<>> /\ indegree = <<>> /\ ready = {} /\ ordered = <<>>

Next ==
    \/ GroupRows \/ BeginRow \/ ValidateTopLevel \/ NormalizeCaches \/ NormalizeRuntime
    \/ NormalizeEnvironment \/ NormalizeChecks \/ OrderCheck \/ OrderEnds \/ NormalizeStorage
    \/ FinishRow \/ Redeclare \/ Edit

Spec == Init /\ [][Next]_vars

-----------------------------------------------------------------------------
\* MatrixPlanV2: what the rows share is taken from the first of them.
MatrixPlan(ids, ps) ==
    [schema |-> "2.0", project |-> ps[1].project, output |-> ps[1].output,
     freshness |-> ps[1].freshness, env |-> ps[1].env, caches |-> ps[1].caches,
     runtimes |-> [r \in DOMAIN ps |->
                     [id |-> ids[r], digest |-> [sha256 |-> ps[r]], runtime |-> ps[r].runtime,
                      policy |-> ps[r].policy, checks |-> ps[r].checks]]]

\* runtime_envelopes: the plan each row is executed by, rebuilt from the matrix plan.
RuntimeEnvelope(m, r) ==
    [schema |-> "1.0", project |-> m.project, runtime |-> m.runtimes[r].runtime,
     policy |-> m.runtimes[r].policy, output |-> m.output, freshness |-> m.freshness,
     env |-> m.env, caches |-> m.caches, storage |-> <<>>, checks |-> m.runtimes[r].checks]

\* legacy_environment, legacy_runtime and legacy_check refuse what they cannot show.
LegacyRepresentable(m) ==
    /\ m.env.fixed = <<>> /\ m.env.internal = <<>> /\ m.env.remote = <<>>
    /\ \A r \in DOMAIN m.runtimes :
        /\ m.runtimes[r].policy = {}
        /\ \A i \in DOMAIN m.runtimes[r].checks : m.runtimes[r].checks[i].contracts = <<>>

\* Mutant of LegacyCheck: the projection forgets the timeout.
LegacyCheckUntimed(c) ==
    [id |-> c.id, required |-> c.required, argv |-> c.argv, dir |-> c.dir, deps |-> c.deps,
     artifacts |-> c.artifacts]

\* legacy_check
LegacyCheck(c) ==
    [id |-> c.id, required |-> c.required, argv |-> c.argv, dir |-> c.dir, timeout |-> c.timeout,
     deps |-> c.deps, artifacts |-> c.artifacts]

\* project_legacy_basis, the basis of the digests under the legacy profile.
LegacyBasis(m) ==
    LET checks(r) == [i \in DOMAIN m.runtimes[r].checks |-> LegacyCheck(m.runtimes[r].checks[i])]
        row_digest(r) ==
            [sha256 |-> [schema |-> "1.0", project |-> m.project, runtime |-> m.runtimes[r].runtime,
                         output |-> m.output, freshness |-> m.freshness,
                         environment_allow |-> m.env.inherit, caches |-> m.caches,
                         checks |-> checks(r)]]
    IN  [schema |-> m.schema, project |-> m.project, output |-> m.output,
         freshness |-> m.freshness, environment_allow |-> m.env.inherit, caches |-> m.caches,
         runtimes |-> [r \in DOMAIN m.runtimes |->
                         [id |-> m.runtimes[r].id, digest |-> row_digest(r),
                          runtime |-> m.runtimes[r].runtime, checks |-> checks(r)]]]

-----------------------------------------------------------------------------
TypeOK ==
    /\ phase \in {"start", "row", "top", "caches", "runtime", "environment", "checks", "order",
                  "storage", "paths", "done", "failed", "overlap"}
    /\ row \in 1..Len(Rows) /\ Len(plans) \in {row - 1, row}
    /\ ready \subseteq Ids /\ Range(ordered) \subseteq Ids
    /\ DOMAIN indegree = Ids /\ \A c \in Ids : indegree[c] \in 0..Cardinality(deps[c])

\* Of all the orders that respect the dependencies a plan has the least: the order, and with it the
\* digest, is a function of the declared checks (topological_checks).
OrderIsLeast ==
    Ordered /\ Ids # {} =>
        \A s \in SetToSeqs(Ids) :
            (\A i \in DOMAIN s : deps[s[i]] \subseteq {s[j] : j \in 1..(i - 1)}) =>
                s = ordered \/ \E i \in DOMAIN s : /\ SubSeq(s, 1, i - 1) = SubSeq(ordered, 1, i - 1)
                                                   /\ ordered[i] < s[i]

\* A configuration is refused for a cycle only if it has one, and then every check on a cycle is
\* named; what else is named waits for such a check (DependencyCycle).
CycleIsReal ==
    phase = "failed" /\ ready = {} /\ ~Ordered =>
        LET reaches == TransitiveClosure([c, d \in Ids |-> d \in deps[c]], Ids)
            cyclic == {c \in Ids : reaches[c, c]}
        IN  /\ cyclic # {} /\ cyclic \subseteq Blamed
            /\ \A c \in Blamed : \E d \in cyclic : c = d \/ reaches[c, d]

\* Every declared check is planned exactly once, in the row of the runtime it names, and is there
\* with all the checks it depends on (build_plan_with_profile).
RowsPartitionChecks ==
    phase = "done" =>
        \A c \in Range(config.checks) :
            LET places == {<<r, i>> \in (DOMAIN plans) \X (1..Len(config.checks)) :
                             i \in DOMAIN plans[r].checks /\ plans[r].checks[i].id = c.id}
            IN  /\ Cardinality(places) = 1
                /\ \A p \in places : /\ Matrix => Rows[p[1]] = c.runtime
                                     /\ \A d \in Range(c.deps) : \E i \in 1..(p[2] - 1) :
                                            plans[p[1]].checks[i].id = d

\* A plan's order is right: it exists unless there is a cycle, it is the least that respects the
\* dependencies, and it has every declared check once (topological_checks).
OrderIsRight == DependenciesComeFirst /\ OrderIsLeast /\ CycleIsReal /\ RowsPartitionChecks

\* Everything a row writes to.
Writable(artifacts, caches, output) ==
    FlattenSeq(artifacts) \o [i \in DOMAIN caches |-> caches[i].mount] \o <<output>>

Nested(paths) == \E i, j \in DOMAIN paths : i # j /\ IsPrefix(paths[i], paths[j])

\* In a plan no cache, artifact or receipt lies at or inside another, segment by segment, so that
\* no two of them name the same writable place (validate_path_isolation, CONFIGURATION.md).
WritablePathsApart ==
    phase = "done" =>
        \A r \in DOMAIN plans :
            LET p == plans[r]
            IN  ~Nested(Writable([i \in DOMAIN p.checks |-> p.checks[i].artifacts], p.caches,
                                 p.output))

\* A configuration refused for its paths does have two that lie inside one another: names that
\* merely begin alike are left alone (reject_path_overlap).
RefusedPathsOverlap ==
    phase = "overlap" =>
        LET checks == Group.checks
        IN  Nested(Writable([i \in DOMAIN checks |-> checks[i].artifacts], config.caches,
                            config.output))

\* Paths are kept apart exactly: an accepted plan has no two writable places one inside the other,
\* and only a configuration that has two is refused for it (validate_path_isolation).
PathsApartExactly == WritablePathsApart /\ RefusedPathsOverlap

\* The plan a row is executed by is the plan its digest was taken of, though it is put together from
\* the fields of the first row (runtime_envelopes).
EnvelopesRebuild ==
    phase = "done" /\ Matrix =>
        \A r \in DOMAIN plans : RuntimeEnvelope(MatrixPlan(Rows, plans), r) = plans[r]

\* Every matrix plan has a legacy projection, and the projection forgets nothing: when a matrix is
\* edited, the plan and its legacy basis either both change or both stay (project_legacy_basis).
LegacyLosesNothing ==
    phase = "done" /\ Matrix =>
        LET m == MatrixPlan(Rows, plans)
        IN  /\ LegacyRepresentable(m)
            /\ \A f \in Range(first) : f.outcome.built =>
                 LET before == MatrixPlan(f.outcome.rows, f.outcome.plans)
                 IN  LegacyBasis(m) = LegacyBasis(before) <=> m = before

\* The digests of a matrix bind what is executed: the plan a row runs by is the one its digest was
\* taken of, and a change of any declared value changes the digest, under the legacy profile too.
DigestsBindPlans == EnvelopesRebuild /\ LegacyLosesNothing

\* CONFIGURATION.md: semantically equivalent declaration orders produce identical plan bytes and
\* digest.
PlanIgnoresDeclarationOrder ==
    phase \in {"done", "failed", "overlap"} =>
        \A f \in Range(first) : f.how = "redeclared" => f.outcome = Outcome
=============================================================================
