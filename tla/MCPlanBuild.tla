---------------------------- MODULE MCPlanBuild ------------------------------
(***************************************************************************)
(* WorkspacePlan, and with it PlanBuild, for TLC.  The configurations fall *)
(* into families, each of which varies what one part of into_plan looks    *)
(* at: every dependency graph on four checks, the paths of caches,         *)
(* artifacts and receipt, the schema versions with the fields they admit,  *)
(* and matrices.                                                           *)
(***************************************************************************)
EXTENDS WorkspacePlan

A == << <<97>> >>                  \* a
AB == << <<97, 98>> >>             \* ab
AinA == << <<97>>, <<97>> >>       \* a/a
B == << <<98>> >>                  \* b
AandB == << <<97>>, <<98>> >>      \* a/b
Other == << <<120>> >>             \* x
Up == << <<97>>, <<46, 46>> >>     \* a/..
Receipt == << <<99>> >>            \* c
Drive == << <<97, 58>> >>          \* a:
Home == << <<126>>, <<98>> >>      \* ~/b

Check(id, required, dependsOn, artifacts, contracts, runtime) ==
    [id |-> id, required |-> required, valid |-> TRUE, deps |-> dependsOn,
     argv |-> 1, dir |-> 1, timeout |-> 1, artifacts |-> artifacts, contracts |-> contracts,
     runtime |-> runtime]

Contract(path, kind, bytes, entries) ==
    [path |-> path, kind |-> kind, bytes |-> bytes, entries |-> entries]

\* All runtimes are declared alike, but for their ids.
Spec1 == [image |-> 1, cpu |-> 1, memory |-> 1, pids |-> 1, network |-> 0]
Declare(ids) == [i \in DOMAIN ids |-> [id |-> ids[i], spec |-> Spec1]]

Plain == [schema |-> "1.0", scalars |-> TRUE, policy |-> {}, output |-> Receipt,
          project |-> 1, freshness |-> 1, runtime |-> Spec1,
          env |-> [allow |-> <<>>, fixed |-> {}, internal |-> <<>>, remote |-> <<>>],
          caches |-> <<>>, storage |-> <<>>, runtimes |-> <<>>,
          checks |-> <<Check(1, TRUE, <<>>, <<>>, <<>>, 0)>>]

List(S) == SelectSeq(<<1, 2, 3, 4>>, LAMBDA x : x \in S)

\* Every dependency graph on four checks in which the first depends on those of a.
Graphs(a) ==
    LET check(i, d) == Check(i, i = 2, List(d), <<>>, <<>>, 0)
        others(i) == SUBSET ((1..4) \ {i})
    IN  {[Plain EXCEPT !.checks = <<check(1, a), check(2, b), check(3, c), check(4, d)>>] :
            b \in others(2), c \in others(3), d \in others(4)}

\* Three checks, with dependencies in every order they can be declared in.
Lists == UNION {SetToSeqs(S) : S \in SUBSET (1..3)}

Declarations ==
    {[Plain EXCEPT !.checks = <<Check(3, TRUE, d3, <<>>, <<>>, 0), Check(1, FALSE, d1, <<>>, <<>>, 0),
                                Check(2, FALSE, d2, <<>>, <<>>, 0)>>] :
        d1 \in {<<>>, <<3>>}, d2, d3 \in Lists}

Unknown ==
    {[Plain EXCEPT !.checks = <<Check(2, r, <<>>, <<>>, <<>>, 0), Check(i, FALSE, d, <<>>, <<>>, 0)>>] :
        r \in BOOLEAN, i \in {1, 2}, d \in {<<>>, <<2>>, <<3>>, <<2, 2>>}}

Paths ==
    {[Plain EXCEPT !.output = o,
                   !.caches = <<[id |-> 2, mount |-> m], [id |-> i, mount |-> n]>>,
                   !.checks = <<Check(1, TRUE, <<>>, <<p>>, <<>>, 0),
                                Check(2, TRUE, <<>>, q, <<>>, 0)>>] :
        o \in {Receipt, AB, Root}, m \in {A, AB, AinA, Root}, i \in {1, 2},
        n \in {B, AinA, Up, Drive, Home}, p \in {AB, AinA, Receipt},
        q \in {<<>>, <<A>>, <<B, Receipt>>, <<AandB>>, <<AB, AinA>>}}

Schemas ==
    {[Plain EXCEPT !.schema = v, !.policy = p, !.storage = s,
                   !.caches = <<[id |-> 3, mount |-> A], [id |-> 1, mount |-> B]>>,
                   !.env = [allow |-> a, fixed |-> f, internal |-> n, remote |-> r],
                   !.checks = <<Check(2, TRUE, <<>>, <<AB>>, k, 0)>>] :
        v \in {"0.9", "1.0", "1.1", "1.2", "1.3"}, p \in {{}, {"pull"}, {"pull", "swap"}},
        s \in {<<>>, <<[free |-> 1, reserve |-> 2, growth |-> 0]>>,
               <<[free |-> 2, reserve |-> 2, growth |-> 1]>>},
        a \in {<<>>, <<5, 4>>}, f \in {{}, {5, 6}}, n \in {<<>>, <<[name |-> 7, cache |-> 3],
                                                               [name |-> 5, cache |-> 1]>>},
        r \in {<<>>, <<9, 8>>}, k \in {<<>>} \cup {<<Contract(AB, "directory", 2, e)>> : e \in {2, 3}}}

Matrices ==
    {[Plain EXCEPT !.schema = "2.0", !.runtimes = Declare(rs), !.env.allow = <<5, 4>>,
                   !.caches = <<[id |-> 3, mount |-> A], [id |-> 1, mount |-> B]>>,
                   !.checks = <<Check(3, TRUE, d, <<AB>>, <<>>, r1), Check(1, TRUE, <<>>, <<p>>, <<>>, r2),
                                Check(i, q, <<>>, <<>>, <<>>, r3)>>] :
        rs \in {<<1>>, <<2, 1>>, <<1, 1>>}, d \in {<<>>, <<2, 1>>, <<2>>},
        p \in {AB, << <<97, 98>>, <<98>> >>}, r1, r2, r3 \in {1, 2, 3}, i \in {1, 2}, q \in BOOLEAN}

MCFamilies ==
    {Graphs(a) : a \in SUBSET (2..4)} \cup {Declarations, Unknown, Paths, Schemas, Matrices}

\* A check with two artifacts under contract.
Contracts ==
    {[Plain EXCEPT !.checks = <<Check(1, TRUE, <<>>, <<A, B>>,
                                      <<Contract(A, "file", 1, 1), Contract(B, "file", n, e)>>, 0),
                                Check(2, FALSE, d, <<>>, <<>>, 0)>>] :
        n \in 1..5, e \in 1..2, d \in {<<>>, <<1>>}}

MCContracts == {Contracts}

\* Commits with an entry at, above or beneath the targets, and of every kind.
MCCommits ==
    {[p \in P |-> "regular"] : P \in {{}, {A}, {AinA}, {AandB}, {AB, Other}}}
        \cup {[p \in {Other} |-> kind] : kind \in {"executable", "symlink", "submodule", "lfs"}}

\* A plan without anything to mount is not run, nor is the same plan declared otherwise.
Focus ==
    \/ step = "idle" /\ used = 0
    \/ first = <<>> /\ (config.caches # <<>> \/ \E c \in Range(config.checks) : c.artifacts # <<>>)
=============================================================================
