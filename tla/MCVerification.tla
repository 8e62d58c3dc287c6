--------------------------- MODULE MCVerification ---------------------------
(***************************************************************************)
(* Two ordinary plans that differ in their image, a plan that declares an  *)
(* artifact and capabilities, a matrix of two rows, and policies for them: *)
(* some that fit, some written for another plan, platform or producer, and *)
(* some that are not valid.                                                *)
(***************************************************************************)
EXTENDS Verification, TLC

CONSTANTS c1, c2

CommitSymmetry == Permutations({c1, c2})

Check(id, required) == [id |-> id, required |-> required, artifact |-> <<>>]

Plan(schema, image, checks) == [schema |-> schema, project |-> "o/p", image |-> image, checks |-> checks]

PlanOld == Plan("1.0", "img1", <<Check("build", TRUE), Check("lint", FALSE)>>)
Binary == [kind |-> "file", entries |-> 1, bytes |-> 1]
PlanNew ==
    Plan("1.3", "img1", <<[Check("build", TRUE) EXCEPT !.artifact = <<Binary>>], Check("lint", FALSE)>>)
RowBuild == Plan("1.3", "img1", <<Check("build", TRUE)>>)
RowTest == Plan("1.3", "img2", <<Check("test", TRUE)>>)

Single(plan) == <<[runtime |-> "only", plan |-> plan]>>
Rows == <<[runtime |-> "first", plan |-> RowBuild], [runtime |-> "second", plan |-> RowTest]>>

MCConfigs == {<<>>, Single(PlanOld), Single(PlanNew), Rows}

Day == 86400

PolicyV1(plan, required, image, platforms) ==
    [version |-> "1.0", project |-> "o/p", digest |-> Digest(plan), required |-> required, image |-> image,
     maxAge |-> Day, platforms |-> platforms]

PolicyV11(plan, strategy, supported, revoked) ==
    [version |-> "1.1", project |-> "o/p", digest |-> Digest(plan), required |-> {"build"}, image |-> "img1",
     maxAge |-> Day, platforms |-> {"linux", "mac"}, strategy |-> strategy,
     supported |-> supported, revoked |-> revoked]

PolicyV2(required, image) ==
    [version |-> "2.0", project |-> "o/p", digest |-> Digest(Rows), required |-> required, maxAge |-> Day,
     runtimes |-> [first |-> [digest |-> Digest(RowBuild), image |-> "img1", platforms |-> {"linux"}],
                   second |-> [digest |-> Digest(RowTest), image |-> image, platforms |-> {"linux"}]]]

MCPolicies ==
    {PolicyV1(PlanOld, {"build"}, "img1", {"linux"}),
     PolicyV1(PlanNew, {"build"}, "img1", {"mac"}),
     PolicyV1(PlanOld, {"build", "lint"}, "img1", {"linux"}),
     PolicyV11(PlanNew, "git_object", {"tool2"}, {"tool1"}),
     PolicyV11(PlanOld, "git_object", {"tool1"}, {}),
     PolicyV11(PlanNew, "git_archive", {"tool1"}, {}),
     PolicyV11(PlanNew, "git_object", {"tool1"}, {"tool1"}),
     PolicyV2([build |-> "first", test |-> "second"], "img2"),
     PolicyV2([build |-> "second", test |-> "first"], "img1"),
     PolicyV2([build |-> "first", test |-> "first"], "img2")}

MCHosts == {[producer |-> "tool1", platform |-> "linux"], [producer |-> "tool2", platform |-> "mac"]}

MCOutcomes ==
    {EvidenceOf("pass", "zero", "none"), EvidenceOf("fail", "none", "timed_out"), NotRun("dependency")}

\* 29 February 2000 and 31 December 2023, both at 00:00:00.
MCMidnights == {951782400, 1703980800}

MCOffsets == {0, Day, Day + 1}

MCSpans == {[started |-> 0, finished |-> 0], [started |-> 0, finished |-> Day],
            [started |-> Day, finished |-> 0]}

\* At the limits of the contract, and over them.
MCSizes == {[entries |-> 1, bytes |-> 1], [entries |-> 1, bytes |-> 2], [entries |-> 0, bytes |-> 0]}
=============================================================================
