------------------------------ MODULE Receipts ------------------------------
(***************************************************************************)
(* Receipts: what a run writes about itself, how it is sealed and what a   *)
(* document must satisfy to be taken for a receipt (src/receipt.rs and the *)
(* matrix receipts of src/matrix.rs).                                      *)
(*                                                                         *)
(* A plan is a sequence of rows [runtime, plan]; an ordinary plan has one. *)
(* The plan of a row has a schema version, its project, an image and its   *)
(* checks, in order; a check has at most one artifact under a contract, to *)
(* which it gives its name.  A document has the shape of a v1, v2 or       *)
(* matrix receipt, or is "garbage".                                        *)
(***************************************************************************)
EXTENDS Calendar, Evidence, Functions

\* canonical_digest: SHA-256 of the canonical JSON, under which no two values meet.
Digest(value) == [sha256 |-> value]

Statuses(checks) == {c.evidence.status : c \in {d \in Range(checks) : d.required}}

\* What a run knows when it seals: its row of the plan, its host and producer, its results, and
\* what the clock showed when the row began and ended.
Common(version, run, row) ==
    LET checks == [i \in DOMAIN row.plan.checks |->
                     [id |-> row.plan.checks[i].id, required |-> row.plan.checks[i].required,
                      evidence |-> run.results[row.plan.checks[i].id]]]
    IN  [schema |-> version, producer |-> run.producer, project |-> row.plan.project,
         commit |-> run.commit, dirty |-> FALSE,
         started |-> FormatUtc(run.clocks[row.runtime].started),
         finished |-> FormatUtc(run.clocks[row.runtime].finished),
         platform |-> run.platform, image |-> row.plan.image, digest |-> Digest(row.plan),
         checks |-> checks, overall |-> DeriveStatus(Statuses(checks))]

Contracted(plan) == {c \in Range(plan.checks) : c.artifact # <<>>}

\* observe_artifacts: what was found of every artifact under a contract.
ArtifactManifest(run, plan) ==
    {[path |-> c.id, kind |-> c.artifact[1].kind, producer |-> c.id,
      entries |-> run.measured[c.id].entries, bytes |-> run.measured[c.id].bytes] :
       c \in Contracted(plan)}

ReceiptV1(run, row) == [common |-> Common("1.0", run, row)]

ReceiptV2(run, row) ==
    [common |-> Common("2.0", run, row), strategy |-> "git_object", entries |-> run.entries,
     plan |-> row.plan, capability |-> (row.plan.schema = "1.3"),
     manifest |-> ArtifactManifest(run, row.plan)]

Seal(shape, receipt) == [shape |-> shape, id |-> Digest(receipt), receipt |-> receipt]

\* execute_matrix_run_v2: sealed v1 receipts of the rows, inside an outer receipt.
ReceiptMatrix(run) ==
    LET rows == [r \in DOMAIN run.plan |->
                   [runtime |-> run.plan[r].runtime,
                    receipt |-> Seal("v1", ReceiptV1(run, run.plan[r]))]]
        first == rows[1].receipt.receipt.common
    IN  [schema |-> "2.0", producer |-> first.producer, project |-> first.project,
         commit |-> first.commit, dirty |-> first.dirty, started |-> FormatUtc(run.started),
         finished |-> FormatUtc(run.finished), digest |-> Digest(run.plan), rows |-> rows,
         overall |-> DeriveStatus(UNION {Statuses(rows[r].receipt.receipt.common.checks) :
                                           r \in DOMAIN rows})]

-----------------------------------------------------------------------------
\* ReceiptCommon::validate
ValidCommon(version, c) ==
    /\ c.schema = version
    /\ ValidTimestamp(c.started) /\ ValidTimestamp(c.finished) /\ ~Earlier(c.finished, c.started)
    /\ c.checks # <<>>
    /\ \A i \in DOMAIN c.checks : ValidEvidence(c.checks[i].evidence)
    /\ \A i, j \in DOMAIN c.checks : c.checks[i].id = c.checks[j].id => i = j
    /\ Statuses(c.checks) # {}
    /\ c.overall = DeriveStatus(Statuses(c.checks))

\* validate_artifact_manifest: the artifacts are those of the plan, each once and within its limits.
ValidManifest(manifest, plan) ==
    /\ {a.path : a \in manifest} = {c.id : c \in Contracted(plan)}
    /\ \A a, b \in manifest : a.path = b.path => a = b
    /\ \A a \in manifest, c \in Contracted(plan) : a.path = c.id =>
         /\ a.kind = c.artifact[1].kind /\ a.producer = c.id
         /\ a.kind = "file" => a.entries = 1
         /\ a.entries <= c.artifact[1].entries /\ a.bytes <= c.artifact[1].bytes

\* ReceiptV2::validate: the snapshot was not empty, the plan is the one of the digest, and the
\* checks and artifacts are its own.
ValidV2(r) ==
    /\ ValidCommon("2.0", r.common)
    /\ r.entries > 0
    /\ r.common.digest = Digest(r.plan)
    /\ r.capability = (r.plan.schema = "1.3")
    /\ Len(r.plan.checks) = Len(r.common.checks)
    /\ \A p \in Range(r.plan.checks) : \E c \in Range(r.common.checks) :
         c.id = p.id /\ c.required = p.required
    /\ ValidManifest(r.manifest, r.plan)

Verifies(valid, doc) == valid /\ doc.id = Digest(doc.receipt)

\* The checks of the rows of a matrix receipt, one row after the other.
ChecksOfRows(rows) ==
    LET upTo[n \in 0..Len(rows)] ==
          IF n = 0 THEN <<>> ELSE upTo[n - 1] \o rows[n].receipt.receipt.common.checks
    IN  upTo[Len(rows)]

\* MatrixReceiptV2::validate
ValidMatrix(r) ==
    LET inner(i) == r.rows[i].receipt.receipt.common
        all == ChecksOfRows(r.rows)
    IN  /\ r.schema = "2.0" /\ ~r.dirty /\ Len(r.rows) >= 2
        /\ \A i, j \in DOMAIN r.rows : r.rows[i].runtime = r.rows[j].runtime => i = j
        /\ \A i \in DOMAIN r.rows :
             /\ Verifies(ValidCommon("1.0", inner(i)), r.rows[i].receipt)
             /\ inner(i).project = r.project /\ inner(i).commit = r.commit
             /\ inner(i).dirty = r.dirty /\ inner(i).producer = r.producer
        /\ ValidCommon("1.0", [inner(1) EXCEPT !.started = r.started, !.finished = r.finished,
                                 !.digest = r.digest, !.checks = all, !.overall = r.overall])

\* ReceiptEnvelopeV1, ReceiptEnvelopeV2 and MatrixReceiptEnvelopeV2: verify
VerifyEnvelope(doc) ==
    CASE doc.shape = "v1" -> Verifies(ValidCommon("1.0", doc.receipt.common), doc)
      [] doc.shape = "v2" -> Verifies(ValidV2(doc.receipt), doc)
      [] doc.shape = "matrix" -> Verifies(ValidMatrix(doc.receipt), doc)
      [] OTHER -> FALSE

\* What a run publishes: a v2 receipt if it had a source snapshot, a matrix receipt if it had rows.
Document(run) ==
    IF Len(run.plan) > 1 THEN Seal("matrix", ReceiptMatrix(run))
    ELSE IF run.snapshot THEN Seal("v2", ReceiptV2(run, run.plan[1]))
    ELSE Seal("v1", ReceiptV1(run, run.plan[1]))

Garbage == [shape |-> "garbage"]

\* The documents a receipt becomes when one value in the file changes and the identifier does not.
\* A receipt is not signed: one that somebody makes up whole, with the identifier that fits, cannot
\* be told from a run's (VERIFICATION_POLICY.md:128, GITHUB_GATE.md:45) and is not considered here.
Damaged(doc, commits) ==
    LET wrong(c) == {d \in commits : d # c}
        single == {[doc EXCEPT !.receipt.common.commit = c] : c \in wrong(doc.receipt.common.commit)}
                    \cup {[doc EXCEPT !.receipt.common.finished = doc.receipt.common.started],
                          [doc EXCEPT !.receipt.common.overall = "pass"]}
        matrix == {[doc EXCEPT !.receipt.commit = c] : c \in wrong(doc.receipt.commit)}
                    \cup {[doc EXCEPT !.receipt.rows[1].receipt.receipt.common.commit = c] :
                            c \in wrong(doc.receipt.commit)}
    IN  IF doc = Garbage THEN {}
        ELSE {d \in {Garbage} \cup (IF doc.shape = "matrix" THEN matrix ELSE single) : d # doc}
=============================================================================
