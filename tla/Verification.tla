---------------------------- MODULE Verification ----------------------------
(***************************************************************************)
(* The verify command (print_verify of src/main.rs, src/verify.rs and the  *)
(* matrix policy of src/matrix.rs) beside what it reads: a policy file, a  *)
(* configuration file trusted by some policies, and a receipt that a run   *)
(* wrote.  The command reads the policy and the configuration twice, first *)
(* to see that they are valid and then, after the receipt, to use them;    *)
(* the files may change in between.                                        *)
(*                                                                         *)
(* A run is remembered as it happened; its receipt is all the verifier     *)
(* sees of it.  Clocks show any instant of a few around a chosen midnight: *)
(* the run and the verifier need not share one, and a clock may be set     *)
(* back while a run lasts.                                                 *)
(***************************************************************************)
EXTENDS Receipts, FiniteSets

CONSTANTS
    Configs,    \* the plans a configuration file may stand for; <<>> is a file that is refused
    Policies,   \* the policy files
    Hosts,      \* [producer, platform]: the installations that run checks
    Commits,    \* the commits of the project
    Midnights,  \* instants, in seconds since 1970, at which a day begins
    Offsets,    \* seconds around the midnight at which clocks are read
    Spans,      \* [started, finished]: seconds around it at which the rows of a matrix read theirs
    Outcomes,   \* the evidence a check may end with
    Sizes,      \* [entries, bytes]: what may be found of an artifact
    MaxEdits    \* bound on the changes of the files other than by a run

ASSUME ClockAssumption == \A m \in Midnights, o \in Offsets : m + o \in Nat

ASSUME ConfigAssumption ==
    \A c \in Configs \ {<<>>} : Len(c) \in Nat \ {0} /\ DOMAIN c = 1..Len(c)

\* load_verification_policy_document knows no other version.
ASSUME PolicyAssumption == \A p \in Policies : p.version \in {"1.0", "1.1", "2.0"}

VARIABLES
    midnight,   \* the day this is about
    config,     \* the configuration file
    policyFile, \* the policy file
    receipt,    \* the receipt file: <<>> or <<[doc, run]>>, with the run that wrote it
    run,        \* the run in progress: <<>> or <<[...]>>
    edits,      \* changes made to the files
    pc, expected, evaluated,
    bytes,      \* the receipt as it was read
    policy,     \* the policy as it was loaded the second time
    trusted,    \* the trusted plan, when the policy asks for one
    report      \* [integrity, policy, decision, findings]

files == <<config, policyFile, receipt>>
reading == <<pc, expected, evaluated, bytes, policy, trusted, report>>
vars == <<midnight, files, run, edits, reading>>

Instants == {midnight + o : o \in Offsets}

NoReport == [integrity |-> "not_run", policy |-> "not_run", decision |-> "none", findings |-> {}]

Init ==
    /\ midnight \in Midnights /\ config \in Configs /\ policyFile \in Policies
    /\ receipt = <<>> /\ run = <<>> /\ edits = 0
    /\ pc = "idle" /\ expected \in Commits /\ evaluated = 0
    /\ bytes = <<>> /\ policy = <<>> /\ trusted = <<>> /\ report = NoReport

-----------------------------------------------------------------------------
(***************************************************************************)
(* A run loads the configuration, finds the commit clean and reads the     *)
(* clock.  A matrix run always has a source snapshot.  The entries of a    *)
(* snapshot, none if the commit has no files, count only for a v2 receipt. *)
(* The verifier sees of a run only whether its receipt is there: a run     *)
(* beside a verification is to it as one before or after it, and only the  *)
(* former is modelled.                                                     *)
(***************************************************************************)
BeginRun ==
    /\ pc = "idle" /\ run = <<>> /\ receipt = <<>> /\ config # <<>>
    /\ \E host \in Hosts, commit \in Commits, snapshot \in BOOLEAN, entries \in 0..1, now \in Instants :
         /\ Len(config) > 1 => snapshot
         /\ ~snapshot \/ Len(config) > 1 => entries = 0
         /\ run' = <<[plan |-> config, producer |-> host.producer, platform |-> host.platform,
                      commit |-> commit, snapshot |-> snapshot, entries |-> entries,
                      started |-> now]>>
    /\ UNCHANGED <<midnight, files, edits, reading>>

CheckIds(plan) == UNION {{c.id : c \in Range(plan[r].plan.checks)} : r \in DOMAIN plan}

RequiredIds(plan) ==
    UNION {{c.id : c \in {d \in Range(plan[r].plan.checks) : d.required}} : r \in DOMAIN plan}

ArtifactIds(plan) == UNION {{c.id : c \in Contracted(plan[r].plan)} : r \in DOMAIN plan}

\* What the clock showed when the rows of a run began and ended.  The one row of an ordinary run
\* begins and ends with it.
RowClocks(begun, now) ==
    LET rows == {begun.plan[r].runtime : r \in DOMAIN begun.plan}
    IN  IF Len(begun.plan) = 1
        THEN {[id \in rows |-> [started |-> begun.started, finished |-> now]]}
        ELSE [rows -> {[started |-> midnight + s.started, finished |-> midnight + s.finished] :
                         s \in Spans}]

(***************************************************************************)
(* Seal and publish: nothing is written if the receipt does not validate,  *)
(* as when the clock was set back to before the start, when an artifact is *)
(* over its limits or when the commit has no files.                        *)
(***************************************************************************)
FinishRun ==
    /\ run # <<>>
    /\ \E now \in Instants, results \in [CheckIds(run[1].plan) -> Outcomes],
          measured \in [ArtifactIds(run[1].plan) -> Sizes] :
       \E clocks \in RowClocks(run[1], now) :
         LET done == [plan |-> run[1].plan, producer |-> run[1].producer,
                      platform |-> run[1].platform, commit |-> run[1].commit,
                      snapshot |-> run[1].snapshot, entries |-> run[1].entries,
                      started |-> run[1].started, finished |-> now, clocks |-> clocks,
                      results |-> results, measured |-> measured]
             doc == Document(done)
         IN  receipt' = IF VerifyEnvelope(doc) THEN <<[doc |-> doc, run |-> done]>> ELSE receipt
    /\ run' = <<>>
    /\ UNCHANGED <<midnight, config, policyFile, edits, reading>>

(***************************************************************************)
(* Somebody edits a file, or the receipt is damaged on disk: before the    *)
(* verifier starts, or just before it reads the file (again), which to the *)
(* verifier is the same as earlier since it read it last.  A configuration *)
(* matters to it only under a policy that trusts one.                      *)
(***************************************************************************)
Edit ==
    /\ edits < MaxEdits /\ edits' = edits + 1 /\ run = <<>>
    /\ \/ /\ pc \in {"idle", "trust"} /\ receipt # <<>> /\ policyFile.version = "1.1"
          /\ config' \in Configs \ {config} /\ UNCHANGED <<policyFile, receipt>>
       \/ /\ pc = "load"
          /\ policyFile' \in Policies \ {policyFile} /\ UNCHANGED <<config, receipt>>
       \/ /\ pc \in {"idle", "read"} /\ receipt # <<>>
          /\ \E d \in Damaged(receipt[1].doc, Commits) : receipt' = <<[receipt[1] EXCEPT !.doc = d]>>
          /\ UNCHANGED <<config, policyFile>>
    /\ UNCHANGED <<midnight, run, reading>>

-----------------------------------------------------------------------------
\* MAX_FRESHNESS_SECONDS: a year
MaxFreshnessSeconds == 31536000

\* VerificationPolicyV1::validate
PolicyValidV1(p) == p.required # {} /\ p.platforms # {} /\ p.maxAge \in 1..MaxFreshnessSeconds

\* VerificationPolicyV1_1::validate
PolicyValidV11(p) ==
    /\ PolicyValidV1(p) /\ p.supported # {} /\ p.supported \cap p.revoked = {}

\* MatrixVerificationPolicyV2::validate: every runtime has a required check, and no other does.
PolicyValidV2(p) ==
    /\ Cardinality(DOMAIN p.runtimes) >= 2 /\ DOMAIN p.required # {}
    /\ \A id \in DOMAIN p.runtimes : p.runtimes[id].platforms # {}
    /\ p.maxAge \in 1..MaxFreshnessSeconds
    /\ {p.required[c] : c \in DOMAIN p.required} = DOMAIN p.runtimes

\* load_verification_policy_document
PolicyValid(p) ==
    CASE p.version = "1.0" -> PolicyValidV1(p)
      [] p.version = "1.1" -> PolicyValidV11(p)
      [] OTHER -> PolicyValidV2(p)

\* Mutant of AgeFindings: ages are counted in days.
AgeFindingsByDay(finished, now, maxAge) ==
    LET age == ParseUtc(now) \div DaySeconds - ParseUtc(finished) \div DaySeconds
    IN  IF age < 0 THEN {"future_receipt"}
        ELSE IF age > maxAge \div DaySeconds THEN {"stale_receipt"} ELSE {}

\* The receipt may be as old as the policy says and not a second older, nor from the future.
AgeFindings(finished, now, maxAge) ==
    LET age == ParseUtc(now) - ParseUtc(finished)
    IN  IF ~ValidTimestamp(finished) THEN {"invalid_time"}
        ELSE IF age < 0 THEN {"future_receipt"}
        ELSE IF age > maxAge THEN {"stale_receipt"} ELSE {}

Found(condition, code) == IF condition THEN {code} ELSE {}

IdsRequired(checks) == {c.id : c \in {d \in Range(checks) : d.required}}

\* evaluate_policy
EvaluatePolicy(c, p) ==
    Found(c.project # p.project, "repository")
    \cup Found(c.commit # expected, "commit")
    \cup Found(c.dirty, "dirty")
    \cup Found(c.digest # p.digest, "configuration")
    \cup Found(c.image # p.image, "image")
    \cup Found(c.platform \notin p.platforms, "platform")
    \cup Found(c.overall # "pass", "overall_status")
    \cup Found(IdsRequired(c.checks) # p.required, "required_check_set")
    \cup Found(\E k \in Range(c.checks) : k.id \in p.required /\ k.evidence.status # "pass",
               "required_check_result")
    \cup AgeFindings(c.finished, FormatUtc(evaluated), p.maxAge)

\* compare_execution_plan: any value that differs, at any depth, is a finding.
CompareExecutionPlan(actual, plan) == Found(actual # plan, "execution_plan")

\* verify_trusted_plan_receipt_document, after the findings of the baseline policy
TrustedFindings(doc, p, plan) ==
    Found(Digest(plan) # p.digest, "trusted_config_digest")
    \cup (IF doc.shape # "v2" THEN {"receipt_schema"}
          ELSE CompareExecutionPlan(doc.receipt.plan, plan)
               \cup Found(doc.receipt.strategy # p.strategy, "source_snapshot_strategy")
               \cup Found(doc.receipt.common.producer \in p.revoked, "producer_revoked")
               \cup Found(doc.receipt.common.producer \notin p.supported \cup p.revoked,
                          "producer_unsupported"))

RuntimesOf(r) == {r.rows[i].runtime : i \in DOMAIN r.rows}

RowOf(r, id) == r.rows[CHOOSE i \in DOMAIN r.rows : r.rows[i].runtime = id].receipt.receipt.common

\* Where and how the required checks of a matrix receipt ran: a set of [id, runtime, status].
RequiredOf(r) ==
    UNION {{[id |-> c.id, runtime |-> r.rows[i].runtime, status |-> c.evidence.status] :
              c \in {d \in Range(r.rows[i].receipt.receipt.common.checks) : d.required}} :
             i \in DOMAIN r.rows}

RowFindings(row, agreed) ==
    Found(row.digest # agreed.digest, "runtime_configuration")
    \cup Found(row.image # agreed.image, "runtime_image")
    \cup Found(row.platform \notin agreed.platforms, "runtime_platform")

RuntimeFindings(r, p) ==
    Found(RuntimesOf(r) # DOMAIN p.runtimes, "runtime_set")
    \cup UNION {RowFindings(RowOf(r, id), p.runtimes[id]) : id \in RuntimesOf(r) \cap DOMAIN p.runtimes}

CheckFindings(r, p) ==
    Found({c.id : c \in RequiredOf(r)} # DOMAIN p.required, "required_check_set")
    \cup UNION {Found(c.runtime # p.required[c.id], "check_runtime")
                \cup Found(c.runtime = p.required[c.id] /\ c.status # "pass", "required_check_result") :
                  c \in {d \in RequiredOf(r) : d.id \in DOMAIN p.required}}

\* evaluate_matrix_policy
EvaluateMatrixPolicy(r, p) ==
    Found(r.project # p.project, "repository")
    \cup Found(r.commit # expected, "commit")
    \cup Found(r.dirty, "dirty")
    \cup Found(r.digest # p.digest, "configuration")
    \cup Found(r.overall # "pass", "overall_status")
    \cup RuntimeFindings(r, p)
    \cup CheckFindings(r, p)
    \cup AgeFindings(r.finished, FormatUtc(evaluated), p.maxAge)

-----------------------------------------------------------------------------
Report(findings) ==
    [integrity |-> "pass", policy |-> IF findings = {} THEN "pass" ELSE "fail",
     decision |-> IF findings = {} THEN "pass" ELSE "fail", findings |-> findings]

IntegrityFails(code) ==
    [integrity |-> "fail", policy |-> "not_run", decision |-> "fail", findings |-> {code}]

End(r) == pc' = "done" /\ report' = r

\* The command ends with an error and no report.
Refuse == End([NoReport EXCEPT !.decision = "error"])

TrustedConfig(c) == Len(c) = 1

\* validate_verification_policy_path; then the clock, unless the caller gave a date.
ValidatePolicy ==
    /\ pc = "idle" /\ run = <<>>
    /\ evaluated' \in Instants
    /\ IF PolicyValid(policyFile) /\ (policyFile.version = "1.1" => TrustedConfig(config))
       THEN pc' = "read" /\ UNCHANGED report
       ELSE Refuse
    /\ UNCHANGED <<midnight, files, run, edits, expected, bytes, policy, trusted>>

ReadReceipt ==
    /\ pc = "read"
    /\ bytes' = receipt
    /\ IF receipt = <<>> THEN End(IntegrityFails("read_failed")) ELSE pc' = "load" /\ UNCHANGED report
    /\ UNCHANGED <<midnight, files, run, edits, expected, evaluated, policy, trusted>>

LoadPolicy ==
    /\ pc = "load"
    /\ policy' = <<policyFile>>
    /\ IF ~PolicyValid(policyFile) THEN Refuse
       ELSE pc' = (IF policyFile.version = "1.1" THEN "trust" ELSE "evaluate") /\ UNCHANGED report
    /\ UNCHANGED <<midnight, files, run, edits, expected, evaluated, bytes, trusted>>

LoadTrustedPlan ==
    /\ pc = "trust"
    /\ trusted' = config
    /\ IF TrustedConfig(config) THEN pc' = "evaluate" /\ UNCHANGED report ELSE Refuse
    /\ UNCHANGED <<midnight, files, run, edits, expected, evaluated, bytes, policy>>

Doc == bytes[1].doc

(***************************************************************************)
(* verify_receipt_document_for_policy_path: the policy's version selects   *)
(* the parser, the document must be of a shape that it knows and verify,   *)
(* and only then is the policy evaluated.                                  *)
(***************************************************************************)
VerifyDocument(p) ==
    LET shapes == IF p.version = "2.0" THEN {"matrix"} ELSE {"v1", "v2"}
    IN  IF Doc.shape \notin shapes THEN IntegrityFails("parse_or_shape")
        ELSE IF ~VerifyEnvelope(Doc) THEN IntegrityFails("semantic_or_digest_invalid")
        ELSE Report(CASE p.version = "2.0" -> EvaluateMatrixPolicy(Doc.receipt, p)
                      [] p.version = "1.0" -> EvaluatePolicy(Doc.receipt.common, p)
                      [] OTHER -> EvaluatePolicy(Doc.receipt.common, p)
                                    \cup TrustedFindings(Doc, p, trusted[1].plan))

Evaluate ==
    /\ pc = "evaluate"
    /\ End(VerifyDocument(policy[1]))
    /\ UNCHANGED <<midnight, files, run, edits, expected, evaluated, bytes, policy, trusted>>

Next ==
    \/ BeginRun \/ FinishRun \/ Edit
    \/ ValidatePolicy \/ ReadReceipt \/ LoadPolicy \/ LoadTrustedPlan \/ Evaluate

Spec == Init /\ [][Next]_vars

-----------------------------------------------------------------------------
(***************************************************************************)
(* Types, and the report of a command that is done: a refusal has its      *)
(* findings, and a policy is evaluated only on a receipt that is whole.    *)
(***************************************************************************)
TypeOK ==
    /\ midnight \in Midnights /\ config \in Configs /\ policyFile \in Policies
    /\ Len(receipt) <= 1 /\ Len(run) <= 1 /\ edits \in 0..MaxEdits
    /\ pc \in {"idle", "read", "load", "trust", "evaluate", "done"}
    /\ expected \in Commits /\ evaluated \in Instants \cup {0}
    /\ (pc = "done") = (report.decision # "none")
    /\ report.decision = "pass" => report.integrity = "pass" /\ report.policy = "pass"
    /\ (report.decision = "fail") = (report.findings # {})
    /\ report.integrity = "fail" => report.policy = "not_run"

\* The receipt that was read is the one its run published.
Intact == Doc = Document(bytes[1].run)

\* The time from the end of the run to the verification, by their clocks and in seconds.
Age == evaluated - bytes[1].run.finished

AllRequiredPassed(r) == \A c \in RequiredIds(r.plan) : r.results[c].status = "pass"

\* The run that a policy for one runtime is meant to accept.
DeservesSingle(r, p) ==
    /\ Len(r.plan) = 1 /\ Digest(r.plan[1].plan) = p.digest /\ r.commit = expected
    /\ r.plan[1].plan.project = p.project /\ r.plan[1].plan.image = p.image
    /\ r.platform \in p.platforms
    /\ RequiredIds(r.plan) = p.required /\ AllRequiredPassed(r)
    /\ Age \in 0..p.maxAge

\* The run, read with the trusted configuration, that a policy with one is meant to accept.
DeservesTrust(r, p) ==
    /\ r.snapshot /\ p.strategy = "git_object"
    /\ trusted[1].plan = r.plan[1].plan /\ Digest(trusted[1].plan) = p.digest
    /\ r.producer \in p.supported \ p.revoked

\* The run that a matrix policy is meant to accept.
DeservesMatrix(r, p) ==
    /\ Len(r.plan) > 1 /\ Digest(r.plan) = p.digest /\ r.commit = expected
    /\ {r.plan[i].runtime : i \in DOMAIN r.plan} = DOMAIN p.runtimes
    /\ \A i \in DOMAIN r.plan :
         LET agreed == p.runtimes[r.plan[i].runtime]
         IN  /\ Digest(r.plan[i].plan) = agreed.digest /\ r.plan[i].plan.image = agreed.image
             /\ r.plan[i].plan.project = p.project /\ r.platform \in agreed.platforms
             /\ \A c \in RequiredIds(<<r.plan[i]>>) :
                  c \in DOMAIN p.required /\ p.required[c] = r.plan[i].runtime
    /\ RequiredIds(r.plan) = DOMAIN p.required /\ AllRequiredPassed(r)
    /\ Age \in 0..p.maxAge

Accepted == report.decision = "pass"

Deserves(r, p) ==
    IF p.version = "2.0" THEN DeservesMatrix(r, p)
    ELSE DeservesSingle(r, p) /\ (p.version = "1.1" => DeservesTrust(r, p))

(***************************************************************************)
(* What the verifier judged is what the files held when it read them last. *)
(* Nothing changes them after that (Edit).                                 *)
(***************************************************************************)
UpToDate ==
    /\ bytes = receipt /\ policy = <<policyFile>>
    /\ policyFile.version = "1.1" => trusted = config

(***************************************************************************)
(* A receipt that is accepted is the undamaged record of a run of the      *)
(* policy's plan, of the expected commit, on an accepted platform, in      *)
(* which every check that the policy requires passed, and which ended no   *)
(* longer ago than the policy allows, in seconds and across months and     *)
(* leap days (evaluate_policy).  Under a trusted configuration the plan is *)
(* also that of the configuration file, and the producer is supported      *)
(* (verify_trusted_plan_receipt_document).  In a matrix every row ran the  *)
(* policy's plan in the policy's image, each required check in the runtime *)
(* that the policy names for it (evaluate_matrix_policy).  The policy and  *)
(* the configuration are those in the files when they were read for the    *)
(* second time, whatever was there when the command first looked.  This is *)
(* about receipts that a run wrote, which may be damaged; one made up with *)
(* the identifier that fits is beyond it (see Damaged).                    *)
(***************************************************************************)
AcceptedMeansDeserved == Accepted => UpToDate /\ Intact /\ Deserves(bytes[1].run, policy[1])

(***************************************************************************)
(* A run that a policy is meant to accept is accepted, if its receipt is   *)
(* whole: optional checks, midnight and the exact age limit do not refuse  *)
(* it.                                                                     *)
(***************************************************************************)
DeservingRunAccepted ==
    pc = "done" /\ report.integrity # "not_run" /\ bytes # <<>>
        /\ Intact /\ Deserves(bytes[1].run, policy[1]) => Accepted
=============================================================================
