----------------------------- MODULE RunJournal ------------------------------
(***************************************************************************)
(* The store of run journals of src/run_journal.rs, on the primitives of   *)
(* src/durable_fs.rs: one directory per run with an owner marker, the      *)
(* binding of its source snapshot and one file per journal entry.  A file  *)
(* is created under its final name, so it exists before it has contents.   *)
(*                                                                         *)
(* This module holds the state, the operations a run performs on its own   *)
(* directory and the two steps of `recover apply`.  RunLifecycle says when *)
(* a run performs them.                                                    *)
(***************************************************************************)
EXTENDS Integers, Sequences

CONSTANTS
    Run,        \* run ids; each is used by one process
    NoRun       \* "no run"

ASSUME NoRunAssumption == NoRun \notin Run

VARIABLES
    root,       \* the marker of the store, its token, and whether runs/ exists
    token,      \* the root token a run has read or made
    dir,        \* where the directory of a run is; "recreated": it was quarantined and
                \* the run has made another one, without marker, in its place
    owner,      \* its owner marker
    binding,    \* its source binding
    entries,    \* its journal entries, in the order of their names
    applying    \* the run whose journal `recover apply` is about to move

storeVars == <<root, token, dir, owner, binding, entries, applying>>

State == {"created", "admitted", "prepared", "executing", "finalizing",
          "cleanup_pending", "failed", "sealed"}
Entry == [state : State, whole : BOOLEAN]
File  == {"none", "torn", "whole"}

StoreTypeOK ==
    /\ root \in [marker : File, token : Run \cup {NoRun}, runs : BOOLEAN]
    /\ token \in [Run -> Run \cup {NoRun}]
    /\ dir \in [Run -> {"none", "live", "quarantined", "recreated"}]
    /\ owner \in [Run -> File]
    /\ binding \in [Run -> File]
    /\ entries \in [Run -> Seq(Entry)]
    /\ applying \in Run \cup {NoRun}

StoreInit ==
    /\ root = [marker |-> "none", token |-> NoRun, runs |-> FALSE]
    /\ token = [r \in Run |-> NoRun]
    /\ dir = [r \in Run |-> "none"]
    /\ owner = [r \in Run |-> "none"]
    /\ binding = [r \in Run |-> "none"]
    /\ entries = [r \in Run |-> <<>>]
    /\ applying = NoRun

-----------------------------------------------------------------------------
(* Reading a journal.                                                      *)

\* legal_transition
Legal(s) ==
    CASE s = "created"         -> {"admitted", "failed", "cleanup_pending"}
      [] s = "admitted"        -> {"prepared", "failed", "cleanup_pending"}
      [] s = "prepared"        -> {"executing", "failed", "cleanup_pending"}
      [] s = "executing"       -> {"finalizing", "failed", "cleanup_pending"}
      [] s = "finalizing"      -> {"sealed", "failed", "cleanup_pending"}
      [] s = "cleanup_pending" -> {"failed"}
      [] OTHER                 -> {}

\* classify
Classify(s) ==
    CASE s \in {"created", "admitted", "prepared"} -> "restartable"
      [] s \in {"executing", "finalizing", "cleanup_pending"} -> "cleanup_required"
      [] OTHER -> "terminal"

LastState(r) == entries[r][Len(entries[r])].state

\* validate_run_marker of the directory at the path of r
Owned(r) == dir[r] = "live" /\ owner[r] = "whole" /\ token[r] = root.token

\* read_entries succeeds, with at least one entry.
Readable(r) ==
    /\ Owned(r)
    /\ binding[r] # "torn"
    /\ entries[r] # <<>>
    /\ \A i \in DOMAIN entries[r] : entries[r][i].whole
    /\ entries[r][1].state = "created"
    /\ \A i \in 1..Len(entries[r]) - 1 :
          entries[r][i + 1].state \in Legal(entries[r][i].state)

\* What `recover status` reports of r; of a recreated directory it reports the
\* quarantined one as well.
Status(r) ==
    CASE dir[r] = "none" -> "absent"
      [] dir[r] = "quarantined" -> "quarantined"
      [] dir[r] = "live" /\ Readable(r) -> Classify(LastState(r))
      [] OTHER -> "operator_required"

\* Mutant of Accepts: only the last entry is looked at.
AcceptsLastOnly(r, s) == entries[r] # <<>> /\ s \in Legal(LastState(r))

\* transition(s) gets as far as creating the entry file.
Accepts(r, s) ==
    /\ Readable(r)
    /\ s \in Legal(LastState(r))
    /\ ~(LastState(r) = "created" /\ s = "cleanup_pending")

\* The same for transition_cleanup_pending_after_admission_acquired.
AcceptsLateCleanup(r) ==
    /\ Readable(r)
    /\ LastState(r) \in {"created", "admitted", "prepared", "executing", "finalizing"}

-----------------------------------------------------------------------------
(* Writing one.                                                            *)

\* append_entry creates the file of the entry ...
OpenEntry(r, s) == entries' = [entries EXCEPT ![r] = Append(@, [state |-> s, whole |-> FALSE])]

\* ... and writes it.
WriteEntry(r) == entries' = [entries EXCEPT ![r][Len(entries[r])].whole = TRUE]

-----------------------------------------------------------------------------
(* recover apply.  Nothing tells it whether the process of r still runs.   *)

\* apply reads the journal and finds it unfinished.
ApplyReads(r) ==
    /\ applying = NoRun
    /\ root.marker = "whole" /\ root.runs
    /\ Readable(r)
    /\ Classify(LastState(r)) # "terminal"
    /\ applying' = r
    /\ UNCHANGED <<root, token, dir, owner, binding, entries>>

\* quarantine_owned_tree validates the owner marker and renames the directory;
\* if syncing the parent fails then, apply returns an error all the same.
ApplyRenames ==
    /\ applying # NoRun
    /\ Owned(applying)
    /\ dir' = [dir EXCEPT ![applying] = "quarantined"]
    /\ applying' = NoRun
    /\ UNCHANGED <<root, token, owner, binding, entries>>

\* It fails, or its process is killed.
ApplyFails ==
    /\ applying # NoRun
    /\ applying' = NoRun
    /\ UNCHANGED <<root, token, dir, owner, binding, entries>>

=============================================================================
