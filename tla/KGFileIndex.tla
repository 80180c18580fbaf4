------------------------------ MODULE KGFileIndex ------------------------------
(***************************************************************************)
(* The incremental code index: `kg index scan` and the index jobs of the   *)
(* web server.                                                             *)
(*                                                                         *)
(* A scan classifies the files on disk against the hashes of the last one  *)
(* (file_hashes), parses the new and the changed files and upserts their   *)
(* nodes and edges one file at a time, then replaces the registry of       *)
(* hashes and the coverage report.  Editors change files at any moment,    *)
(* parsing and storing may fail for one file, and the process may die at   *)
(* any step.  The web server admits one job at a time; nothing keeps a     *)
(* command-line scan from running beside it.                               *)
(*                                                                         *)
(* The content of a file is the set of the symbols it defines.  It stands  *)
(* for its own SHA-256 digest and size.                                    *)
(***************************************************************************)
EXTENDS FiniteSets, Naturals

CONSTANTS
  Files,         \* relative paths
  Parsed,        \* the files of a kind the indexer parses (Python, TypeScript)
  Names,         \* bare file names
  BaseName,      \* the bare name of each path
  Symbols,       \* qualified names of classes and functions
  Bodies,        \* the contents a file may have
  FileItself,    \* the symbol of the node of the file
  Jobs,          \* slots for the index jobs of the web server; a slot is used again
  Cli,           \* processes that run `kg index scan`, once each
  MaxEdits,      \* bound on the edits
  MaxFaults,     \* bound on failures, crashes and full rebuilds
  Absent,        \* no such file, record or node
  NoJob          \* no active job

ASSUMPTION ConstantsAssumption ==
  /\ Parsed \subseteq Files
  /\ BaseName \in [Files -> Names]
  /\ Bodies \subseteq SUBSET Symbols
  /\ FileItself \notin Symbols
  /\ Jobs \cap Cli = {} /\ NoJob \notin Jobs
  /\ MaxEdits \in Nat /\ MaxFaults \in Nat
  /\ Absent \notin [body : Bodies, mtime : 0..MaxEdits] /\ Absent \notin Bodies

VARIABLES
  disk,      \* the content of each file and the time of its last edit
  edits,     \* the number of edits so far; the clock of the file system
  registry,  \* file_hashes: the version recorded for each file
  nodes,     \* the code nodes, with the digest attribute of each
  partOf,    \* the nodes whose part_of edge is stored
  scan,      \* where each scan stands, and what it holds in memory
  job,       \* the status of each job of the web server
  active,    \* the job that occupies the index manager
  faults,    \* the number of faults so far
  tainted    \* history: files whose recorded version does not vouch for their nodes

vars == <<disk, edits, registry, nodes, partOf, scan, job, active, faults, tainted>>

Scanners == Jobs \union Cli
Versions == [body : Bodies, mtime : 0..MaxEdits]
NodeIds == Names \X (Symbols \union {FileItself})
Reports == {"none", "indexed", "skipped", "failed", "stale"}
Steps == {"idle", "classify", "index", "parsed", "noded", "report", "finished", "exited"}

\* The nodes of a file: the ids hold its bare name only (_relative_path).
ChildIds(f, body) == {<<BaseName[f], s>> : s \in body}
FileId(f) == <<BaseName[f], FileItself>>

\* Mutant: the node of the file itself is forgotten.
IdsOfChildren(f, body) == ChildIds(f, body)

IdsOf(f, body) == {FileId(f)} \union ChildIds(f, body)

Scans ==
  [at : Steps,
   base : [Files -> Versions \union {Absent}],    \* the registry as loaded
   found : [Files -> Versions \union {Absent}],   \* the files as classified
   todo : SUBSET Files,                           \* files left in this phase
   report : [Files -> Reports],
   file : Files \union {Absent},                  \* the file being indexed
   body : Bodies \union {Absent},                 \* what was parsed of it
   detached : BOOLEAN,                            \* its database was replaced
   failed : BOOLEAN,                              \* it raised
   solo : BOOLEAN,                                \* history: no other scan ran meanwhile
   quiet : BOOLEAN]                               \* history: no edit or fault meanwhile

IdleScan ==
  [at |-> "idle", base |-> [f \in Files |-> Absent], found |-> [f \in Files |-> Absent],
   todo |-> {}, report |-> [f \in Files |-> "none"], file |-> Absent, body |-> Absent,
   detached |-> FALSE, failed |-> FALSE, solo |-> TRUE, quiet |-> TRUE]

Init ==
  /\ disk \in [Files -> [body : Bodies, mtime : {0}] \union {Absent}]
  /\ edits = 0
  /\ registry = [f \in Files |-> Absent]
  /\ nodes = [id \in NodeIds |-> Absent]
  /\ partOf = {}
  /\ scan = [p \in Scanners |-> IdleScan]
  /\ job = [j \in Jobs |-> "unused"]
  /\ active = NoJob
  /\ faults = 0
  /\ tainted = {}

Busy(p) == scan[p].at \notin {"idle", "finished", "exited"}
Exited == [IdleScan EXCEPT !.at = "exited"]

\* What a disturbance does to the history of the scans that are under way.
Disturbed == [p \in Scanners |-> IF Busy(p) THEN [scan[p] EXCEPT !.quiet = FALSE] ELSE scan[p]]

Fault == faults < MaxFaults /\ faults' = faults + 1

-----------------------------------------------------------------------------
(* The index manager of the web server.                                    *)

\* IndexManager.start: a new job, unless one is active (then IndexBusy is raised).
Start(j) ==
  /\ job[j] # "indexing"
  /\ active = NoJob
  /\ job' = [job EXCEPT ![j] = "indexing"]
  /\ active' = j
  /\ UNCHANGED <<disk, edits, registry, nodes, partOf, scan, faults, tainted>>

\* Mutant: the slot is released only when the runner returned.
FinishUnlessFailed(j) ==
  /\ scan[j].at = "finished"
  /\ ~scan[j].failed
  /\ job' = [job EXCEPT ![j] = "done"]
  /\ active' = NoJob
  /\ scan' = [scan EXCEPT ![j] = IdleScan]
  /\ UNCHANGED <<disk, edits, registry, nodes, partOf, faults, tainted>>

\* IndexManager._run, its finally clause: the status is set and the slot released.
Finish(j) ==
  /\ scan[j].at = "finished"
  /\ job' = [job EXCEPT ![j] = IF scan[j].failed THEN "error" ELSE "done"]
  /\ active' = NoJob
  /\ scan' = [scan EXCEPT ![j] = IdleScan]
  /\ UNCHANGED <<disk, edits, registry, nodes, partOf, faults, tainted>>

-----------------------------------------------------------------------------
(* One scan (_project).                                                    *)

\* plan_index loads the registry.
Begin(p) ==
  /\ scan[p].at = "idle"
  /\ p \in Jobs => job[p] = "indexing"
  /\ LET beside == \E q \in Scanners : Busy(q)
     IN  scan' = [q \in Scanners |->
                    IF q = p
                      THEN [IdleScan EXCEPT !.at = "classify", !.base = registry,
                                            !.todo = Files, !.solo = ~beside]
                      ELSE IF Busy(q) THEN [scan[q] EXCEPT !.solo = FALSE] ELSE scan[q]]
  /\ UNCHANGED <<disk, edits, registry, nodes, partOf, job, active, faults, tainted>>

\* classify: one file is read and hashed.
Classify(p, f) ==
  /\ scan[p].at = "classify"
  /\ f \in scan[p].todo
  /\ scan' = [scan EXCEPT ![p].found[f] = disk[f], ![p].todo = @ \ {f}]
  /\ UNCHANGED <<disk, edits, registry, nodes, partOf, job, active, faults, tainted>>

\* A file that cannot be read is passed over, as if it were not there.
ClassifyUnreadable(p, f) ==
  /\ scan[p].at = "classify"
  /\ f \in scan[p].todo
  /\ disk[f] # Absent
  /\ Fault
  /\ scan' = [Disturbed EXCEPT ![p].todo = @ \ {f}]
  /\ UNCHANGED <<disk, edits, registry, nodes, partOf, job, active, tainted>>

\* content_key: digest, time and size.
SameVersion(v, w) == v # Absent /\ v = w

\* The changes are known: unchanged and unsupported files are skipped, the records of
\* missing ones are stale, and _project loads the registry again.
Plan(p) ==
  /\ scan[p].at = "classify"
  /\ scan[p].todo = {}
  /\ LET s == scan[p]
         present == {f \in Files : s.found[f] # Absent}
         unchanged == {f \in present : SameVersion(s.base[f], s.found[f])}
         stale == {f \in Files \ present : s.base[f] # Absent}
         todo == (present \ unchanged) \cap Parsed
     IN  scan' = [scan EXCEPT ![p] =
                    [s EXCEPT !.at = "index", !.base = registry, !.todo = todo,
                              !.report = [f \in Files |->
                                            IF f \in stale THEN "stale"
                                            ELSE IF f \in present \ todo THEN "skipped"
                                            ELSE "none"]]]
  /\ UNCHANGED <<disk, edits, registry, nodes, partOf, job, active, faults, tainted>>

\* The file is done with, for better or worse.
Noted(s, f, outcome) ==
  [s EXCEPT !.at = "index", !.todo = @ \ {f}, !.file = Absent, !.body = Absent,
            !.report = [@ EXCEPT ![f] = outcome]]

\* project_code_file reads the file again; it may be gone by now.
Parse(p, f) ==
  /\ scan[p].at = "index"
  /\ f \in scan[p].todo
  /\ scan' = [scan EXCEPT ![p] =
                IF disk[f] = Absent
                  THEN Noted(scan[p], f, "failed")
                  ELSE [scan[p] EXCEPT !.at = "parsed", !.file = f, !.body = disk[f].body]]
  /\ UNCHANGED <<disk, edits, registry, nodes, partOf, job, active, faults, tainted>>

\* The nodes carry the digest of the classified version.
UpsertNodes(p) ==
  /\ scan[p].at = "parsed"
  /\ LET s == scan[p]
         ids == IdsOf(s.file, s.body)
     IN  nodes' = IF s.detached THEN nodes
                  ELSE [id \in NodeIds |-> IF id \in ids THEN s.found[s.file].body ELSE nodes[id]]
  /\ scan' = [scan EXCEPT ![p].at = "noded"]
  /\ UNCHANGED <<disk, edits, registry, partOf, job, active, faults, tainted>>

\* A transaction of its own.
UpsertEdges(p) ==
  /\ scan[p].at = "noded"
  /\ LET s == scan[p]
     IN  /\ partOf' = IF s.detached THEN partOf ELSE partOf \union ChildIds(s.file, s.body)
         /\ scan' = [scan EXCEPT ![p] = Noted(s, s.file, "indexed")]
  /\ UNCHANGED <<disk, edits, registry, nodes, job, active, faults, tainted>>

\* Reading, parsing or storing one file raises: the scan goes on without it.
FileFails(p) ==
  /\ scan[p].at \in {"index", "parsed", "noded"}
  /\ Fault
  /\ \E f \in scan[p].todo :
       /\ scan[p].at # "index" => f = scan[p].file
       /\ scan' = [Disturbed EXCEPT ![p] = Noted(@, f, "failed")]
  /\ UNCHANGED <<disk, edits, registry, nodes, partOf, job, active, tainted>>

\* Mutant: records of deleted files are kept.
AppliedKeepingDeleted(s) ==
  [f \in Files |-> IF s.found[f] # Absent THEN s.found[f] ELSE s.base[f]]

\* Mutant: the files are hashed again when all are indexed.
AppliedAsOnDisk(s) == disk

\* FileHashRegistry.apply on the registry as loaded: the files are recorded as they
\* were classified, those that failed included.
Applied(s) ==
  [f \in Files |-> IF s.found[f] # Absent THEN s.found[f]
                   ELSE IF s.report[f] = "stale" THEN Absent ELSE s.base[f]]

\* registry.write_atomic.
Register(p) ==
  /\ scan[p].at = "index"
  /\ scan[p].todo = {}
  /\ registry' = Applied(scan[p])
  /\ scan' = [scan EXCEPT ![p].at = "report"]
  /\ LET with(outcome) == {f \in Files : scan[p].report[f] = outcome}
     IN  tainted' = IF scan[p].solo /\ ~scan[p].detached
                      THEN (tainted \union with("failed")) \ with("indexed")
                      ELSE Files
  /\ UNCHANGED <<disk, edits, nodes, partOf, job, active, faults>>

\* report.write_atomic: the coverage, which only people read.
Report(p) ==
  /\ scan[p].at = "report"
  /\ scan' = [scan EXCEPT ![p].at = "finished"]
  /\ UNCHANGED <<disk, edits, registry, nodes, partOf, job, active, faults, tainted>>

\* The process of the command line ends.
Exit(p) ==
  /\ scan[p].at = "finished"
  /\ scan' = [scan EXCEPT ![p] = Exited]
  /\ UNCHANGED <<disk, edits, registry, nodes, partOf, job, active, faults, tainted>>

\* Loading or writing the registry or the report raises.
ScanFails(p) ==
  /\ scan[p].at = "index" => scan[p].todo = {}
  /\ scan[p].at \in {"classify", "index", "report"}
  /\ Fault
  /\ scan' = [Disturbed EXCEPT ![p] = [IdleScan EXCEPT !.at = "finished", !.failed = TRUE]]
  /\ UNCHANGED <<disk, edits, registry, nodes, partOf, job, active, tainted>>

-----------------------------------------------------------------------------
(* The world around.                                                       *)

\* An editor writes or removes a file.
Edit(f) ==
  /\ edits < MaxEdits
  /\ edits' = edits + 1
  /\ disk' \in {[disk EXCEPT ![f] = v] :
                  v \in [body : Bodies, mtime : {edits + 1}] \union ({Absent} \ {disk[f]})}
  /\ scan' = Disturbed
  /\ UNCHANGED <<registry, nodes, partOf, job, active, faults, tainted>>

\* The web server dies with its jobs; a new one knows none.
ServerCrashes ==
  /\ \E j \in Jobs : job[j] # "unused"
  /\ Fault
  /\ scan' = [p \in Scanners |-> IF p \in Jobs THEN IdleScan ELSE Disturbed[p]]
  /\ job' = [j \in Jobs |-> "unused"]
  /\ active' = NoJob
  /\ UNCHANGED <<disk, edits, registry, nodes, partOf, tainted>>

CliCrashes(p) ==
  /\ Busy(p)
  /\ Fault
  /\ scan' = [Disturbed EXCEPT ![p] = Exited]
  /\ UNCHANGED <<disk, edits, registry, nodes, partOf, job, active, tainted>>

\* `kg index rebuild --full` publishes an empty database; the registry of hashes stays,
\* and a scan that has the old file open goes on writing to it.
RebuildFull ==
  /\ Fault
  /\ nodes' = [id \in NodeIds |-> Absent]
  /\ partOf' = {}
  /\ scan' = [p \in Scanners |->
                IF Busy(p) /\ scan[p].at # "classify"
                  THEN [Disturbed[p] EXCEPT !.detached = TRUE] ELSE Disturbed[p]]
  /\ tainted' = Files
  /\ UNCHANGED <<disk, edits, registry, job, active>>

-----------------------------------------------------------------------------
ScanStep(p) ==
  \/ Begin(p) \/ Plan(p) \/ UpsertNodes(p) \/ UpsertEdges(p) \/ Register(p) \/ Report(p)
  \/ \E f \in Files : Classify(p, f) \/ Parse(p, f)

JobStep(j) == ScanStep(j) \/ Finish(j)

Next ==
  \/ \E j \in Jobs : Start(j) \/ Finish(j)
  \/ \E p \in Cli : Exit(p) \/ CliCrashes(p)
  \/ \E p \in Scanners : ScanStep(p) \/ FileFails(p) \/ ScanFails(p)
  \/ \E p \in Scanners, f \in Files : ClassifyUnreadable(p, f)
  \/ \E f \in Files : Edit(f)
  \/ ServerCrashes
  \/ RebuildFull

\* The thread of a job keeps running.
Fairness == \A j \in Jobs : WF_vars(JobStep(j))

Spec == Init /\ [][Next]_vars
FairSpec == Spec /\ Fairness

-----------------------------------------------------------------------------
TypeOK ==
  /\ disk \in [Files -> Versions \union {Absent}]
  /\ edits \in 0..MaxEdits
  /\ registry \in [Files -> Versions \union {Absent}]
  /\ nodes \in [NodeIds -> Bodies \union {Absent}]
  /\ partOf \in SUBSET NodeIds
  /\ scan \in [Scanners -> Scans]
  /\ job \in [Jobs -> {"unused", "indexing", "done", "error"}]
  /\ active \in Jobs \union {NoJob}
  /\ faults \in 0..MaxFaults
  /\ tainted \in SUBSET Files

\* The nodes and edges of the file's present content are in the graph, with its digest
\* unless another file of the same bare name shares them.
Indexed(f) ==
  /\ \A id \in IdsOf(f, disk[f].body) :
       /\ nodes[id] # Absent
       /\ (\A g \in Files \ {f} : BaseName[g] # BaseName[f]) => nodes[id] = disk[f].body
  /\ ChildIds(f, disk[f].body) \subseteq partOf

(***************************************************************************)
(* A file that the next scan will skip as unchanged is in the graph: an    *)
(* edit between hashing and parsing, a crash between the graph and the     *)
(* registry, or a file that could not be read, never leave a recorded      *)
(* version whose nodes are missing or describe another content.  Only a    *)
(* failure of the file itself, overlapping scans and a full rebuild do.    *)
(***************************************************************************)
SkippedIsIndexed ==
  \A f \in Parsed \ tainted :
    registry[f] # Absent /\ registry[f] = disk[f] => Indexed(f)

(***************************************************************************)
(* A scan that nothing disturbed and that ran alone leaves the registry    *)
(* equal to the disk, deleted files included.                              *)
(***************************************************************************)
ScanCatchesUp ==
  \A p \in Scanners :
    scan[p].at = "report" /\ scan[p].quiet /\ scan[p].solo => registry = disk

(***************************************************************************)
(* The part_of edges of a file lead, through its classes, to its node.     *)
(* A part_of edge never points from or to a node that is not stored,       *)
(* though nodes and edges are stored by separate transactions, by scans    *)
(* that overlap, and on a database that may be replaced meanwhile.         *)
(***************************************************************************)
CodeEdgesAnchored ==
  \A id \in partOf : nodes[id] # Absent /\ nodes[<<id[1], FileItself>>] # Absent

(***************************************************************************)
(* A job that was admitted ends, however its runner ends, and with it the  *)
(* time in which the server answers that it is busy.                       *)
(***************************************************************************)
JobsEnd == \A j \in Jobs : active = j ~> active # j
=============================================================================
