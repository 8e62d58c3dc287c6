----------------------------- MODULE AdmissionRoot -----------------------------
(***************************************************************************)
(* The first use of the admission directory: initialize_until of           *)
(* src/admission.rs, which acquire runs before it queues, creates the      *)
(* owner marker and the directories tickets/, leases/ and quarantine/.     *)
(* queue.lock itself is created before it is locked for the first time.    *)
(*                                                                         *)
(* The processes of Admission and the commands of AdmissionReconcile go on *)
(* from here: in a complete root initialize_until changes nothing, and     *)
(* Acquire stands for it.                                                  *)
(***************************************************************************)
EXTENDS AdmissionReconcile

VARIABLES
    marker,     \* the owner marker: absent, created but not written, written
    dirs,       \* how many of tickets/, leases/, quarantine/ exist
    ini,        \* where each process is inside initialize_until
    cut         \* an initialisation was cut short and left the root incomplete

rootVars == <<marker, dirs, ini, cut>>
everything == <<allVars, rootVars>>

InitSteps == {"new", "old", "mark", "markWrite", "dirs"}

\* The files, locks, commands and initialisers have their types.
RootTypeOK ==
    /\ ReconcileTypeOK
    /\ marker \in {"none", "torn", "whole"}
    /\ dirs \in 0..3
    /\ ini \in [Proc -> InitSteps \cup {"none"}]
    /\ cut \in BOOLEAN

RootInit ==
    /\ ReconcileInit
    /\ marker = "none"
    /\ dirs = 0
    /\ ini = [p \in Proc |-> "none"]
    /\ cut = FALSE

Ready == marker = "whole" /\ dirs = 3

-----------------------------------------------------------------------------
InitGoto(p, s) == ini' = [ini EXCEPT ![p] = s]

\* Everything of Admission but the queue lock and the place of the process.
RestUnchanged == UNCHANGED <<own, pass, hb, files, ticketLock, slot, counter, scan, rvars>>

\* The marker is read before the lock is taken.  A marker that is not written
\* yet is a foreign one: acquire fails.
InitBegin(p) ==
    /\ pc[p] = "idle" /\ ini[p] = "none"
    /\ ~Ready
    /\ marker # "torn"
    /\ InitGoto(p, IF marker = "whole" THEN "old" ELSE "new")
    /\ UNCHANGED <<allVars, marker, dirs, cut>>

\* With the lock the layout is validated: a root that was initialised needs
\* its marker and tickets/.
InitLock(p) ==
    /\ queue = NoProc
    /\ ini[p] \in {"new", "old"}
    /\ ini[p] = "old" => marker = "whole" /\ dirs >= 1
    /\ queue' = p
    /\ InitGoto(p, "mark")
    /\ RestUnchanged /\ UNCHANGED <<pc, marker, dirs, cut>>

\* ensure_owner_marker: create_new, then write_all.
InitMark(p) ==
    /\ ini[p] = "mark"
    /\ \/ marker = "whole" /\ InitGoto(p, "dirs") /\ UNCHANGED marker
       \/ marker = "none" /\ InitGoto(p, "markWrite") /\ marker' = "torn"
    /\ UNCHANGED <<allVars, dirs, cut>>

\* Mutant of InitMarkWrite: the queue is unlocked once the marker is there.
InitMarkWriteUnlocks(p) ==
    /\ ini[p] = "markWrite"
    /\ marker' = "whole"
    /\ queue' = NoProc
    /\ InitGoto(p, "dirs")
    /\ RestUnchanged /\ UNCHANGED <<pc, dirs, cut>>

InitMarkWrite(p) ==
    /\ ini[p] = "markWrite"
    /\ marker' = "whole"
    /\ InitGoto(p, "dirs")
    /\ UNCHANGED <<allVars, dirs, cut>>

InitDirectory(p) ==
    /\ ini[p] = "dirs"
    /\ dirs < 3
    /\ dirs' = dirs + 1
    /\ UNCHANGED <<allVars, marker, ini, cut>>

InitDone(p) ==
    /\ ini[p] = "dirs"
    /\ dirs = 3
    /\ queue' = NoProc
    /\ Goto(p, "enter")
    /\ InitGoto(p, "none")
    /\ cut' = FALSE
    /\ RestUnchanged /\ UNCHANGED <<marker, dirs>>

\* The deadline passes or the layout is refused before anything is written.
InitGivesUp(p) ==
    /\ ini[p] \in {"new", "old"}
    /\ InitGoto(p, "none")
    /\ UNCHANGED <<allVars, marker, dirs, cut>>

\* The process dies, or storage refuses a creation, with the lock held.
InitCut(p) ==
    /\ ini[p] \in InitSteps \ {"new", "old"}
    /\ InitGoto(p, "none")
    /\ queue' = NoProc
    /\ cut' = ~Ready
    /\ RestUnchanged /\ UNCHANGED <<pc, marker, dirs>>

InitStep(p) ==
    \/ InitBegin(p) \/ InitLock(p) \/ InitMark(p) \/ InitMarkWrite(p)
    \/ InitDirectory(p) \/ InitDone(p) \/ InitGivesUp(p) \/ InitCut(p)

\* In a root that is not complete, acquire fails or initialises, and the
\* commands end without touching anything.
RootNext ==
    \/ \E p \in Proc : InitStep(p)
    \/ Ready /\ ReconcileNext /\ UNCHANGED rootVars
       /\ \A p \in Proc : ini[p] # "none" => pc'[p] = "idle"

RootSpec == RootInit /\ [][RootNext]_everything

-----------------------------------------------------------------------------
\* First users that start together never spoil the root for each other.  Nobody
\* queues, waits or holds the slot in a directory that is not complete, although
\* the marker is there, for everybody to see, before the directories are; and
\* when no initialisation was cut short, the marker and the directories are all
\* there or all missing whenever the queue is unlocked.  (An interrupted
\* initialisation is not repaired: a marker without content, or without
\* tickets/, makes every later acquire fail.)
RootAllOrNothing ==
    /\ \A p \in Proc : pc[p] # "idle" => Ready
    /\ queue = NoProc /\ ~cut => Ready \/ (marker = "none" /\ dirs = 0)
=============================================================================
