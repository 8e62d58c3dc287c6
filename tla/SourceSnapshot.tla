--------------------------- MODULE SourceSnapshot ------------------------------
(***************************************************************************)
(* The private copy of a commit that checks read: src/source_snapshot.rs.  *)
(* It is materialized from the objects of the commit, gets an overlay of   *)
(* empty mount points, and is compared with its manifest after the checks. *)
(*                                                                         *)
(* A commit maps the path of each entry to its kind; the object id of an   *)
(* entry stands for the bytes of the file, and is taken to be its path.    *)
(* Materialization goes entry by entry in the code; no other step reads    *)
(* what it has written so far (RunLifecycle has its failures halfway).     *)
(***************************************************************************)
EXTENDS SequencesExt

VARIABLES
    manifest,            \* SourceManifestV1: the commit's entries
    source,              \* the snapshot's root: what lies at each path
    overlay_files, overlay_directories

snapshotVars == <<manifest, source, overlay_files, overlay_directories>>

Directory == [kind |-> "directory"]
File(bytes, executable) == [kind |-> "file", bytes |-> bytes, executable |-> executable]
Link == [kind |-> "link"]
Special == [kind |-> "special"]     \* a socket, a FIFO or a device

\* A path and the directories it lies in.
Ancestry(path) == {SubSeq(path, 1, n) : n \in 1..Len(path)}

Files == {p \in DOMAIN source : source[p].kind = "file"}

\* The entries materialize can write.  Any other makes it fail and remove what it has written: a
\* symlink, a submodule, an LFS pointer, a mode it does not know, a blob or a tree over its limit.
Supported(commit) == \A p \in DOMAIN commit : commit[p] \in {"regular", "executable"}

Materialized(commit) ==
    [p \in UNION {Ancestry(q) : q \in DOMAIN commit} |->
       IF p \in DOMAIN commit THEN File(p, commit[p] = "executable") ELSE Directory]

Materialize(commit) ==
    /\ Supported(commit)
    /\ manifest' = commit /\ source' = Materialized(commit)
    /\ overlay_files' = {} /\ overlay_directories' = {}

\* create_dir_all
InTheWay(path) == \E p \in Ancestry(path) : p \in DOMAIN source /\ source[p].kind # "directory"

CreateDirAll(path) == source @@ [p \in Ancestry(path) \ DOMAIN source |-> Directory]

\* One destination of prepare_mount_overlay, which leaves alone whatever exists.
Present(target) == target.path \in DOMAIN source /\ UNCHANGED snapshotVars

OverlayFile(target) ==
    /\ target.path \notin DOMAIN source /\ target.kind = "file" /\ ~InTheWay(Front(target.path))
    /\ source' = CreateDirAll(Front(target.path)) @@ (target.path :> File(<<>>, FALSE))
    /\ overlay_files' = overlay_files \cup {target.path}
    /\ UNCHANGED <<manifest, overlay_directories>>

\* A cache's directory is made but not remembered.
OverlayDirectory(target) ==
    /\ target.path \notin DOMAIN source /\ target.kind = "directory" /\ ~InTheWay(target.path)
    /\ source' = CreateDirAll(target.path)
    /\ overlay_directories' = IF target.cache THEN overlay_directories
                              ELSE overlay_directories \cup {target.path}
    /\ UNCHANGED <<manifest, overlay_files>>

OverlayFails(target) ==
    /\ target.path \notin DOMAIN source
    /\ InTheWay(IF target.kind = "file" THEN Front(target.path) ELSE target.path)
    /\ UNCHANGED snapshotVars

\* Something outside changes a file of the snapshot, removes or replaces it, or adds one.
Disturb ==
    /\ \/ \E p \in Files : \E f \in {File(<<>>, source[p].executable),
                                      File(source[p].bytes, ~source[p].executable), Link, Special} :
            source' = [source EXCEPT ![p] = f]
       \/ \E p \in Files : source' = [q \in (DOMAIN source) \ {p} |-> source[q]]
       \/ \E p \in {q \in DOMAIN source : source[q] = Directory} :
            \E f \in {File(<<>>, FALSE), Special} : source' = source @@ (Append(p, <<0>>) :> f)
    /\ UNCHANGED <<manifest, overlay_files, overlay_directories>>

ValidateEntryMode(p) == source[p].executable = (manifest[p] = "executable")

\* Mutant of Revalidates: git's object id is compared, the mode is not.
RevalidatesBytes ==
    /\ \A p \in DOMAIN source : source[p].kind \notin {"link", "special"}
    /\ Files = DOMAIN manifest \cup overlay_files
    /\ \A p \in overlay_directories : p \in DOMAIN source /\ source[p] = Directory
    /\ \A p \in DOMAIN manifest : source[p].bytes = p

\* revalidate, with collect_regular_files, validate_entry_mode and git hash-object.
Revalidates ==
    /\ \A p \in DOMAIN source : source[p].kind \notin {"link", "special"}
    /\ Files = DOMAIN manifest \cup overlay_files
    /\ \A p \in overlay_directories : p \in DOMAIN source /\ source[p] = Directory
    /\ \A p \in DOMAIN manifest : ValidateEntryMode(p) /\ source[p].bytes = p

\* cleanup, or the drop of a snapshot after an error.
RemoveSnapshot ==
    manifest' = <<>> /\ source' = <<>> /\ overlay_files' = {} /\ overlay_directories' = {}
=============================================================================
