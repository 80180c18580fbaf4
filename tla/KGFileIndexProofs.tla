--------------------------- MODULE KGFileIndexProofs ---------------------------
(***************************************************************************)
(* What holds of the code index for any files, contents, jobs and command  *)
(* lines, any number of scans beside one another, and any faults.          *)
(***************************************************************************)
EXTENDS KGFileIndex, TLAPS

-----------------------------------------------------------------------------
(***************************************************************************)
(* What a scan holds.                                                      *)
(***************************************************************************)

\* The ids of a file of known content are node ids.
LEMMA IdsTyped ==
  ASSUME NEW f \in Files, NEW body \in Bodies
  PROVE  /\ IdsOf(f, body) \in SUBSET NodeIds /\ ChildIds(f, body) \in SUBSET NodeIds
         /\ ChildIds(f, body) \subseteq IdsOf(f, body) /\ FileId(f) \in IdsOf(f, body)
BY ConstantsAssumption DEF IdsOf, ChildIds, FileId, NodeIds

\* What a scan that is parsing or storing has in hand is known, and every file
\* it has to index was found.
Held ==
  {s \in Scans :
     /\ s.at \in {"parsed", "noded"} =>
          s.file \in Files /\ s.body \in Bodies /\ s.found[s.file] # Absent
     /\ s.at \in {"index", "parsed", "noded"} => \A f \in s.todo : s.found[f] # Absent}

HeldInv == TypeOK /\ scan \in [Scanners -> Held]

LEMMA IdleHeld ==
  /\ IdleScan \in Held /\ Exited \in Held
  /\ [IdleScan EXCEPT !.at = "finished", !.failed = TRUE] \in Held
BY DEF IdleScan, Exited, Held, Scans, Steps, Reports

\* Noting what happens meanwhile changes nothing in hand.
LEMMA HistoryHeld ==
  ASSUME NEW s \in Held
  PROVE  /\ [s EXCEPT !.quiet = FALSE] \in Held /\ [s EXCEPT !.solo = FALSE] \in Held
         /\ [s EXCEPT !.detached = TRUE] \in Held
BY DEF Held, Scans

LEMMA NotedHeld ==
  ASSUME NEW s \in Held, s.at \in {"index", "parsed", "noded"}, NEW f \in Files, NEW outcome \in Reports
  PROVE  Noted(s, f, outcome) \in Held
BY DEF Noted, Held, Scans, Steps

LEMMA DisturbedHeld ==
  ASSUME scan \in [Scanners -> Held]
  PROVE  Disturbed \in [Scanners -> Held]
BY HistoryHeld DEF Disturbed

-----------------------------------------------------------------------------
(***************************************************************************)
(* Types.                                                                  *)
(***************************************************************************)

LEMMA InitHeld == Init => HeldInv
<1> SUFFICES ASSUME Init PROVE HeldInv
  OBVIOUS
<1>1. disk \in [Files -> Versions \union {Absent}]
  BY ConstantsAssumption DEF Init, Versions
<1>2. 0 \in 0..MaxEdits /\ 0 \in 0..MaxFaults BY ConstantsAssumption
<1>3. scan \in [Scanners -> Held] BY IdleHeld DEF Init
<1>4. scan \in [Scanners -> Scans] BY <1>3 DEF Held
<1> QED BY <1>1, <1>2, <1>3, <1>4 DEF Init, TypeOK, HeldInv

\* A step that leaves the tables typed and each scan with what it should hold.
LEMMA HeldIsTyped ==
  ASSUME scan' \in [Scanners -> Held]
  PROVE  scan' \in [Scanners -> Scans]
BY DEF Held

\* A scan's own steps.
LEMMA ScanStepHeld ==
  ASSUME HeldInv, NEW p \in Scanners, ScanStep(p)
  PROVE  HeldInv'
<1>1. /\ TypeOK /\ scan \in [Scanners -> Held] /\ scan[p] \in Held /\ scan[p] \in Scans
      /\ disk \in [Files -> Versions \union {Absent}]
      /\ registry \in [Files -> Versions \union {Absent}]
      /\ nodes \in [NodeIds -> Bodies \union {Absent}] /\ partOf \in SUBSET NodeIds
  BY DEF HeldInv, TypeOK, Held
<1>2. ASSUME Begin(p) PROVE HeldInv'
  <2>1. ASSUME NEW solo \in BOOLEAN
        PROVE  [IdleScan EXCEPT !.at = "classify", !.base = registry, !.todo = Files, !.solo = solo] \in Held
    <3> DEFINE begun == [IdleScan EXCEPT !.at = "classify", !.base = registry, !.todo = Files,
                                         !.solo = solo]
    <3>1. IdleScan \in Scans BY IdleHeld DEF Held
    <3>2. begun \in Scans BY <1>1, <3>1 DEF Scans, Steps
    <3>3. begun.at = "classify" BY <3>1 DEF Scans
    <3> HIDE DEF begun
    <3>4. begun \in Held BY <3>2, <3>3 DEF Held
    <3> QED BY <3>4 DEF begun
  <2>2. scan' \in [Scanners -> Held] BY <1>1, <1>2, <2>1, HistoryHeld DEF Begin
  <2> QED BY <1>1, <1>2, <2>2, HeldIsTyped DEF Begin, TypeOK, HeldInv
<1>3. ASSUME NEW f \in Files, Classify(p, f) PROVE HeldInv'
  <2>1. [scan[p] EXCEPT !.found = [@ EXCEPT ![f] = disk[f]], !.todo = @ \ {f}] \in Held
    BY <1>1, <1>3 DEF Classify, Held, Scans
  <2>2. scan' \in [Scanners -> Held] BY <1>1, <1>3, <2>1 DEF Classify
  <2> QED BY <1>1, <1>3, <2>2, HeldIsTyped DEF Classify, TypeOK, HeldInv
<1>4. ASSUME Plan(p) PROVE HeldInv'
  <2>1. ASSUME NEW todo \in SUBSET Files, NEW report \in [Files -> Reports],
               \A f \in todo : scan[p].found[f] # Absent
        PROVE  [scan[p] EXCEPT !.at = "index", !.base = registry, !.todo = todo, !.report = report] \in Held
    BY <1>1, <2>1 DEF Held, Scans, Steps
  <2>2. PICK todo \in SUBSET Files, report \in [Files -> Reports] :
          /\ \A f \in todo : scan[p].found[f] # Absent
          /\ scan' = [scan EXCEPT ![p] =
                     [scan[p] EXCEPT !.at = "index", !.base = registry, !.todo = todo, !.report = report]]
    BY <1>4 DEF Plan, Reports
  <2>3. scan' \in [Scanners -> Held] BY <1>1, <2>1, <2>2
  <2> QED BY <1>1, <1>4, <2>3, HeldIsTyped DEF Plan, TypeOK, HeldInv
<1>5. ASSUME NEW f \in Files, Parse(p, f) PROVE HeldInv'
  <2>1. Noted(scan[p], f, "failed") \in Held BY <1>1, <1>5, NotedHeld DEF Parse, Reports
  <2>2. ASSUME disk[f] # Absent
        PROVE  [scan[p] EXCEPT !.at = "parsed", !.file = f, !.body = disk[f].body] \in Held
    BY <1>1, <1>5, <2>2 DEF Parse, Held, Scans, Steps, Versions
  <2>3. scan' \in [Scanners -> Held] BY <1>1, <1>5, <2>1, <2>2 DEF Parse
  <2> QED BY <1>1, <1>5, <2>3, HeldIsTyped DEF Parse, TypeOK, HeldInv
<1>6. ASSUME UpsertNodes(p) PROVE HeldInv'
  <2>1. scan[p].found[scan[p].file].body \in Bodies
    BY <1>1, <1>6 DEF UpsertNodes, Held, Scans, Versions
  <2>2. nodes' \in [NodeIds -> Bodies \union {Absent}] BY <1>1, <1>6, <2>1 DEF UpsertNodes
  <2>3. [scan[p] EXCEPT !.at = "noded"] \in Held BY <1>1, <1>6 DEF UpsertNodes, Held, Scans, Steps
  <2>4. scan' \in [Scanners -> Held] BY <1>1, <1>6, <2>3 DEF UpsertNodes
  <2> QED BY <1>1, <1>6, <2>2, <2>4, HeldIsTyped DEF UpsertNodes, TypeOK, HeldInv
<1>7. ASSUME UpsertEdges(p) PROVE HeldInv'
  <2>1. scan[p].file \in Files /\ scan[p].body \in Bodies BY <1>1, <1>7 DEF UpsertEdges, Held
  <2>2. partOf' \in SUBSET NodeIds BY <1>1, <1>7, <2>1, IdsTyped DEF UpsertEdges
  <2>3. Noted(scan[p], scan[p].file, "indexed") \in Held
    BY <1>1, <1>7, <2>1, NotedHeld DEF UpsertEdges, Reports
  <2>4. scan' \in [Scanners -> Held] BY <1>1, <1>7, <2>3 DEF UpsertEdges
  <2> QED BY <1>1, <1>7, <2>2, <2>4, HeldIsTyped DEF UpsertEdges, TypeOK, HeldInv
<1>8. ASSUME Register(p) PROVE HeldInv'
  <2>1. registry' \in [Files -> Versions \union {Absent}] BY <1>1, <1>8 DEF Register, Applied, Scans
  <2>2. tainted' \in SUBSET Files BY <1>1, <1>8 DEF Register, TypeOK
  <2>3. [scan[p] EXCEPT !.at = "report"] \in Held BY <1>1 DEF Held, Scans, Steps
  <2>4. scan' \in [Scanners -> Held] BY <1>1, <1>8, <2>3 DEF Register
  <2> QED BY <1>1, <1>8, <2>1, <2>2, <2>4, HeldIsTyped DEF Register, TypeOK, HeldInv
<1>9. ASSUME Report(p) PROVE HeldInv'
  <2>1. [scan[p] EXCEPT !.at = "finished"] \in Held BY <1>1 DEF Held, Scans, Steps
  <2>2. scan' \in [Scanners -> Held] BY <1>1, <1>9, <2>1 DEF Report
  <2> QED BY <1>1, <1>9, <2>2, HeldIsTyped DEF Report, TypeOK, HeldInv
<1> QED BY <1>2, <1>3, <1>4, <1>5, <1>6, <1>7, <1>8, <1>9 DEF ScanStep

\* The steps around it: the manager, failures, and the world.
OtherStep ==
  \/ \E j \in Jobs : Start(j) \/ Finish(j)
  \/ \E p \in Cli : Exit(p) \/ CliCrashes(p)
  \/ \E p \in Scanners : FileFails(p) \/ ScanFails(p)
  \/ \E p \in Scanners, f \in Files : ClassifyUnreadable(p, f)
  \/ \E f \in Files : Edit(f)
  \/ ServerCrashes

LEMMA NextKinds ==
  Next <=> (\E p \in Scanners : ScanStep(p)) \/ OtherStep \/ RebuildFull
BY DEF Next, OtherStep

\* Whether a scan is under way.
Running(s) == s.at \notin {"idle", "finished", "exited"}

\* What steps of others may make of a scan: it ends, or one of its files is
\* noted or passed over while it is marked as disturbed.
Outlives(s, t) ==
  /\ t.at = "noded" => s.at = "noded" /\ t.file = s.file /\ t.body = s.body /\ t.detached = s.detached
  /\ Running(t) => Running(s) /\ t.solo = s.solo
  /\ Running(t) /\ t.quiet => t = s

LEMMA OtherStepScans ==
  ASSUME HeldInv, OtherStep
  PROVE  /\ scan' \in [Scanners -> Held]
         /\ \A q \in Scanners : Outlives(scan[q], scan'[q])
         /\ disk' = disk \/ \A q \in Scanners : ~(Running(scan'[q]) /\ scan'[q].quiet)
<1>1. /\ scan \in [Scanners -> Held] /\ \A q \in Scanners : scan[q] \in Held /\ scan[q] \in Scans
      /\ Jobs \subseteq Scanners /\ Cli \subseteq Scanners
  BY DEF HeldInv, Held, Scanners
<1>2. /\ Disturbed \in [Scanners -> Held]
      /\ \A q \in Scanners : /\ ~Running(scan[q]) => Disturbed[q] = scan[q]
                             /\ Running(scan[q]) => Disturbed[q] = [scan[q] EXCEPT !.quiet = FALSE]
  BY <1>1, DisturbedHeld DEF Disturbed, Busy, Running
<1>3. \A q \in Scanners : /\ Outlives(scan[q], scan[q]) /\ Outlives(scan[q], Disturbed[q])
                          /\ ~(Running(Disturbed[q]) /\ Disturbed[q].quiet)
  BY <1>1, <1>2 DEF Outlives, Running, Held, Scans
<1>4. \A s, t \in Scans : ~Running(t) => Outlives(s, t) BY DEF Outlives, Running
<1>5. ASSUME NEW j \in Jobs, Start(j) \/ Finish(j)
      PROVE  /\ disk' = disk /\ scan' \in [Scanners -> Held]
             /\ \A q \in Scanners : scan'[q] = scan[q] \/ scan'[q] = IdleScan
  BY <1>1, <1>5, IdleHeld DEF Start, Finish
<1>6. ASSUME NEW p \in Cli, Exit(p) \/ CliCrashes(p)
      PROVE  /\ disk' = disk /\ scan' \in [Scanners -> Held]
             /\ \A q \in Scanners : scan'[q] \in {scan[q], Disturbed[q], Exited}
  BY <1>1, <1>2, <1>6, IdleHeld DEF Exit, CliCrashes
<1>7. ASSUME NEW p \in Scanners, ScanFails(p)
      PROVE  /\ disk' = disk /\ scan' \in [Scanners -> Held]
             /\ \A q \in Scanners :
                  scan'[q] \in {Disturbed[q], [IdleScan EXCEPT !.at = "finished", !.failed = TRUE]}
  BY <1>1, <1>2, <1>7, IdleHeld DEF ScanFails
<1>8. ASSUME NEW p \in Scanners, FileFails(p)
      PROVE  /\ disk' = disk /\ scan' \in [Scanners -> Held]
             /\ \A q \in Scanners : Outlives(scan[q], scan'[q])
  <2>1. PICK f \in Files : scan' = [Disturbed EXCEPT ![p] = Noted(@, f, "failed")]
    BY <1>1, <1>8 DEF FileFails, Scans
  <2>2. scan[p].at \in {"index", "parsed", "noded"} /\ disk' = disk BY <1>8 DEF FileFails
  <2>3. Disturbed[p] = [scan[p] EXCEPT !.quiet = FALSE] BY <1>2, <2>2 DEF Running
  <2>4. Disturbed[p] \in Held /\ Disturbed[p].at \in {"index", "parsed", "noded"}
    BY <1>1, <1>2, <2>2, <2>3 DEF Scans
  <2>5. Noted(Disturbed[p], f, "failed") \in Held BY <2>4, NotedHeld DEF Reports
  <2>6. Outlives(scan[p], Noted(Disturbed[p], f, "failed"))
    BY <1>1, <2>2, <2>3 DEF Outlives, Noted, Running, Scans
  <2> QED BY <1>2, <1>3, <2>1, <2>2, <2>5, <2>6
<1>9. ASSUME NEW p \in Scanners, NEW f \in Files, ClassifyUnreadable(p, f)
      PROVE  /\ disk' = disk /\ scan' \in [Scanners -> Held]
             /\ \A q \in Scanners : Outlives(scan[q], scan'[q])
  <2> DEFINE t == [Disturbed[p] EXCEPT !.todo = @ \ {f}]
  <2>1. scan' = [Disturbed EXCEPT ![p] = t] /\ scan[p].at = "classify" /\ disk' = disk
    BY <1>1, <1>2, <1>9 DEF ClassifyUnreadable
  <2>2. Disturbed[p] = [scan[p] EXCEPT !.quiet = FALSE] BY <1>2, <2>1 DEF Running
  <2>3. t \in Scans /\ t.at = "classify" /\ t.solo = scan[p].solo /\ t.quiet = FALSE
    BY <1>1, <2>1, <2>2 DEF Scans
  <2> HIDE DEF t
  <2>4. t \in Held BY <2>3 DEF Held
  <2>5. Outlives(scan[p], t) BY <2>1, <2>3 DEF Outlives, Running
  <2> QED BY <1>2, <1>3, <2>1, <2>4, <2>5
<1>10. ASSUME NEW f \in Files, Edit(f) PROVE scan' = Disturbed
  BY <1>10 DEF Edit
<1>11. ASSUME ServerCrashes
       PROVE  /\ disk' = disk /\ scan' \in [Scanners -> Held]
              /\ \A q \in Scanners : scan'[q] \in {Disturbed[q], IdleScan}
  BY <1>2, <1>11, IdleHeld DEF ServerCrashes
<1>12. /\ \A q \in Scanners : Outlives(scan[q], IdleScan) /\ Outlives(scan[q], Exited)
       /\ \A q \in Scanners : Outlives(scan[q], [IdleScan EXCEPT !.at = "finished", !.failed = TRUE])
  BY DEF Outlives, Running, IdleScan, Exited
<1> QED BY <1>2, <1>3, <1>5, <1>6, <1>7, <1>8, <1>9, <1>10, <1>11, <1>12 DEF OtherStep

LEMMA OtherStepHeld ==
  ASSUME HeldInv, OtherStep
  PROVE  HeldInv' /\ UNCHANGED <<registry, nodes, partOf>>
<1>1. TypeOK BY DEF HeldInv
<1>2. scan' \in [Scanners -> Held] /\ scan' \in [Scanners -> Scans]
  BY OtherStepScans, HeldIsTyped
<1>3. UNCHANGED <<registry, nodes, partOf, tainted>>
  BY DEF OtherStep, Start, Finish, Exit, CliCrashes, FileFails, ScanFails, ClassifyUnreadable,
         Edit, ServerCrashes
<1>4. disk' \in [Files -> Versions \union {Absent}] /\ edits' \in 0..MaxEdits
  <2>1. ASSUME NEW f \in Files, Edit(f) PROVE <1>4
    <3>1. edits' \in 0..MaxEdits /\ edits' = edits + 1
      BY <1>1, <2>1, ConstantsAssumption DEF Edit, TypeOK
    <3>2. PICK v \in [body : Bodies, mtime : {edits + 1}] \union {Absent} : disk' = [disk EXCEPT ![f] = v]
      BY <2>1 DEF Edit
    <3>3. v \in Versions \union {Absent} BY <3>1, <3>2 DEF Versions
    <3> QED BY <1>1, <3>1, <3>2, <3>3 DEF TypeOK
  <2>2. (\E f \in Files : Edit(f)) \/ UNCHANGED <<disk, edits>>
    BY DEF OtherStep, Start, Finish, Exit, CliCrashes, FileFails, ScanFails, ClassifyUnreadable,
           ServerCrashes
  <2> QED BY <1>1, <2>1, <2>2 DEF TypeOK
<1>5. faults' \in 0..MaxFaults
  <2>1. Fault \/ UNCHANGED faults
    BY DEF OtherStep, Start, Finish, Exit, CliCrashes, FileFails, ScanFails, ClassifyUnreadable,
           Edit, ServerCrashes
  <2> QED BY <1>1, <2>1, ConstantsAssumption DEF TypeOK, Fault
<1>6. job' \in [Jobs -> {"unused", "indexing", "done", "error"}] /\ active' \in Jobs \union {NoJob}
  <2>1. CASE \E j \in Jobs : Start(j) \/ Finish(j) BY <1>1, <2>1 DEF Start, Finish, TypeOK
  <2>2. CASE ServerCrashes BY <2>2 DEF ServerCrashes
  <2>3. CASE UNCHANGED <<job, active>> BY <1>1, <2>3 DEF TypeOK
  <2> QED BY <2>1, <2>2, <2>3
        DEF OtherStep, Exit, CliCrashes, FileFails, ScanFails, ClassifyUnreadable, Edit
<1> QED BY <1>1, <1>2, <1>3, <1>4, <1>5, <1>6 DEF HeldInv, TypeOK

\* A scan that has the old file open goes on writing to it.
LEMMA RebuildHeld ==
  ASSUME HeldInv, RebuildFull
  PROVE  /\ HeldInv'
         /\ \A q \in Scanners : /\ scan'[q].at = "noded" => scan'[q].detached
                                /\ Running(scan'[q]) => /\ Running(scan[q]) /\ ~scan'[q].quiet
                                                        /\ scan'[q].solo = scan[q].solo
<1>1. /\ TypeOK /\ scan \in [Scanners -> Held] /\ \A q \in Scanners : scan[q] \in Held /\ scan[q] \in Scans
  BY DEF HeldInv, Held
<1>2. /\ Disturbed \in [Scanners -> Held]
      /\ \A q \in Scanners : /\ ~Running(scan[q]) => Disturbed[q] = scan[q]
                             /\ Running(scan[q]) => Disturbed[q] = [scan[q] EXCEPT !.quiet = FALSE]
  BY <1>1, DisturbedHeld DEF Disturbed, Busy, Running
<1>3. \A q \in Scanners :
        scan'[q] = IF Running(scan[q]) /\ scan[q].at # "classify"
                     THEN [Disturbed[q] EXCEPT !.detached = TRUE] ELSE Disturbed[q]
  BY DEF RebuildFull, Busy, Running
<1>4. scan' \in [Scanners -> Held] BY <1>2, HistoryHeld DEF RebuildFull
<1>5. faults' \in 0..MaxFaults BY <1>1, ConstantsAssumption DEF RebuildFull, Fault, TypeOK
<1>6. HeldInv' BY <1>1, <1>4, <1>5, HeldIsTyped DEF RebuildFull, HeldInv, TypeOK
<1>7. \A q \in Scanners : /\ scan'[q].at = "noded" => scan'[q].detached
                          /\ Running(scan'[q]) => /\ Running(scan[q]) /\ ~scan'[q].quiet
                                                  /\ scan'[q].solo = scan[q].solo
  <2> SUFFICES ASSUME NEW q \in Scanners
               PROVE  /\ scan'[q].at = "noded" => scan'[q].detached
                      /\ Running(scan'[q]) => /\ Running(scan[q]) /\ ~scan'[q].quiet
                                              /\ scan'[q].solo = scan[q].solo
    OBVIOUS
  <2> DEFINE marked == [scan[q] EXCEPT !.quiet = FALSE]
  <2>1. /\ marked \in Scans /\ marked.at = scan[q].at /\ marked.solo = scan[q].solo
        /\ marked.quiet = FALSE
    BY <1>1 DEF Scans
  <2>2. CASE ~Running(scan[q])
    <3>1. scan'[q] = scan[q] BY <1>2, <1>3, <2>2
    <3> QED BY <2>2, <3>1 DEF Running
  <2>3. CASE Running(scan[q]) /\ scan[q].at = "classify"
    <3>1. scan'[q] = marked BY <1>2, <1>3, <2>3
    <3> HIDE DEF marked
    <3> QED BY <2>1, <2>3, <3>1 DEF Running
  <2>4. CASE Running(scan[q]) /\ scan[q].at # "classify"
    <3>1. scan'[q] = [marked EXCEPT !.detached = TRUE] BY <1>2, <1>3, <2>4
    <3> HIDE DEF marked
    <3>2. /\ scan'[q].detached = TRUE /\ scan'[q].quiet = FALSE
          /\ scan'[q].at = scan[q].at /\ scan'[q].solo = scan[q].solo
      BY <2>1, <3>1 DEF Scans
    <3> QED BY <2>4, <3>2 DEF Running
  <2> QED BY <2>2, <2>3, <2>4
<1> QED BY <1>6, <1>7

LEMMA HeldInductive == HeldInv /\ [Next]_vars => HeldInv'
<1> SUFFICES ASSUME HeldInv, [Next]_vars PROVE HeldInv'
  OBVIOUS
<1>1. CASE UNCHANGED vars BY <1>1 DEF vars, HeldInv, TypeOK
<1>2. CASE Next BY <1>2, NextKinds, ScanStepHeld, OtherStepHeld, RebuildHeld
<1> QED BY <1>1, <1>2

LEMMA HeldInvariant == Spec => []HeldInv
BY InitHeld, HeldInductive, PTL DEF Spec

-----------------------------------------------------------------------------
(***************************************************************************)
(* Edges between stored nodes.                                             *)
(***************************************************************************)

\* A scan that has stored the nodes of its file finds them there.
NodesStored ==
  \A p \in Scanners :
    scan[p].at = "noded" /\ ~scan[p].detached =>
      \A id \in IdsOf(scan[p].file, scan[p].body) : nodes[id] # Absent

AnchorInv == NodesStored /\ CodeEdgesAnchored

\* The nodes that are stored stay, and where the edges do too nothing is lost.
LEMMA AnchorKept ==
  ASSUME HeldInv, AnchorInv,
         \A id \in NodeIds : nodes[id] # Absent => nodes'[id] # Absent,
         partOf' = partOf,
         \A q \in Scanners :
           scan'[q].at = "noded" /\ ~scan'[q].detached =>
             \/ /\ scan[q].at = "noded" /\ ~scan[q].detached
                /\ scan'[q].file = scan[q].file /\ scan'[q].body = scan[q].body
             \/ \A id \in IdsOf(scan'[q].file, scan'[q].body) : nodes'[id] # Absent
  PROVE  AnchorInv'
<1>1. /\ \A q \in Scanners : scan[q] \in Held /\ partOf \subseteq NodeIds
      /\ \A id \in NodeIds : <<id[1], FileItself>> \in NodeIds
  BY DEF HeldInv, TypeOK, NodeIds
<1>2. CodeEdgesAnchored' BY <1>1 DEF AnchorInv, CodeEdgesAnchored, TypeOK, HeldInv
<1>3. ASSUME NEW q \in Scanners, scan'[q].at = "noded", ~scan'[q].detached
      PROVE  \A id \in IdsOf(scan'[q].file, scan'[q].body) : nodes'[id] # Absent
  <2>1. CASE /\ scan[q].at = "noded" /\ ~scan[q].detached
             /\ scan'[q].file = scan[q].file /\ scan'[q].body = scan[q].body
    <3>1. IdsOf(scan[q].file, scan[q].body) \subseteq NodeIds
      BY <1>1, <2>1, IdsTyped DEF Held
    <3> QED BY <2>1, <3>1 DEF AnchorInv, NodesStored
  <2> QED BY <1>3, <2>1
<1> QED BY <1>2, <1>3 DEF AnchorInv, NodesStored

\* A scan that begins marks those beside it.
LEMMA BeginScans ==
  ASSUME NEW p \in Scanners, Begin(p)
  PROVE  /\ scan'[p] = [IdleScan EXCEPT !.at = "classify", !.base = registry, !.todo = Files,
                                        !.solo = ~\E q \in Scanners : Busy(q)]
         /\ scan'[p].at = "classify"
         /\ \A q \in Scanners : q # p =>
              scan'[q] = IF Busy(q) THEN [scan[q] EXCEPT !.solo = FALSE] ELSE scan[q]
<1>1. scan'[p] = [IdleScan EXCEPT !.at = "classify", !.base = registry, !.todo = Files,
                                  !.solo = ~\E q \in Scanners : Busy(q)]
  BY DEF Begin
<1>2. scan'[p].at = "classify" BY <1>1 DEF IdleScan
<1>3. \A q \in Scanners : q # p =>
        scan'[q] = IF Busy(q) THEN [scan[q] EXCEPT !.solo = FALSE] ELSE scan[q]
  BY DEF Begin
<1> QED BY <1>1, <1>2, <1>3

LEMMA AnchorStep ==
  ASSUME HeldInv, AnchorInv, NEW p \in Scanners, ScanStep(p)
  PROVE  AnchorInv'
<1>1. /\ TypeOK /\ \A q \in Scanners : scan[q] \in Held /\ scan[q] \in Scans
      /\ scan \in [Scanners -> Held] /\ nodes \in [NodeIds -> Bodies \union {Absent}]
  BY DEF HeldInv, TypeOK, Held
<1>2. CASE Begin(p)
  <2>1. scan'[p].at = "classify" /\ \A q \in Scanners :
          q # p => scan'[q] \in {scan[q], [scan[q] EXCEPT !.solo = FALSE]}
    BY <1>2, BeginScans
  <2>2. \A s \in Scans : LET t == [s EXCEPT !.solo = FALSE]
                         IN  t.at = s.at /\ t.file = s.file /\ t.body = s.body /\ t.detached = s.detached
    BY DEF Scans
  <2>3. \A q \in Scanners : scan'[q].at = "noded" =>
          /\ scan[q].at = "noded" /\ scan'[q].detached = scan[q].detached
          /\ scan'[q].file = scan[q].file /\ scan'[q].body = scan[q].body
    BY <1>1, <2>1, <2>2
  <2> QED BY <1>2, <2>3, AnchorKept DEF Begin
<1>3. CASE (\E f \in Files : Classify(p, f) \/ Parse(p, f)) \/ Plan(p) \/ Register(p) \/ Report(p)
  <2>1. UNCHANGED <<nodes, partOf>> BY <1>3 DEF Classify, Parse, Plan, Register, Report
  <2> DEFINE Moved == \E t : scan' = [scan EXCEPT ![p] = t] /\ t.at # "noded"
  <2>2. Moved
    <3>1. ASSUME NEW f \in Files, Classify(p, f) PROVE Moved
      <4>1. scan' = [scan EXCEPT ![p] = [scan[p] EXCEPT !.found[f] = disk[f], !.todo = @ \ {f}]]
        BY <1>1, <3>1 DEF Classify
      <4>2. [scan[p] EXCEPT !.found[f] = disk[f], !.todo = @ \ {f}].at = "classify"
        BY <1>1, <3>1 DEF Classify, Scans
      <4> QED BY <4>1, <4>2
    <3>2. ASSUME NEW f \in Files, Parse(p, f) PROVE Moved
      <4>1. Noted(scan[p], f, "failed").at = "index" BY <1>1 DEF Noted, Scans
      <4>2. [scan[p] EXCEPT !.at = "parsed", !.file = f, !.body = disk[f].body].at = "parsed"
        BY <1>1 DEF Scans
      <4> QED BY <3>2, <4>1, <4>2 DEF Parse
    <3>3. ASSUME Plan(p) PROVE Moved
      <4>1. PICK todo, report :
              scan' = [scan EXCEPT ![p] =
                         [scan[p] EXCEPT !.at = "index", !.base = registry, !.todo = todo, !.report = report]]
        BY <3>3 DEF Plan
      <4>2. [scan[p] EXCEPT !.at = "index", !.base = registry, !.todo = todo, !.report = report].at = "index"
        BY <1>1 DEF Scans
      <4> QED BY <4>1, <4>2
    <3>4. ASSUME Register(p) PROVE Moved
      <4>1. scan' = [scan EXCEPT ![p] = [scan[p] EXCEPT !.at = "report"]]
        BY <1>1, <3>4 DEF Register
      <4>2. [scan[p] EXCEPT !.at = "report"].at = "report" BY <1>1 DEF Scans
      <4> QED BY <4>1, <4>2
    <3>5. ASSUME Report(p) PROVE Moved
      <4>1. scan' = [scan EXCEPT ![p] = [scan[p] EXCEPT !.at = "finished"]]
        BY <1>1, <3>5 DEF Report
      <4>2. [scan[p] EXCEPT !.at = "finished"].at = "finished" BY <1>1 DEF Scans
      <4> QED BY <4>1, <4>2
    <3> QED BY <1>3, <3>1, <3>2, <3>3, <3>4, <3>5
  <2>3. scan'[p].at # "noded" /\ \A q \in Scanners : q # p => scan'[q] = scan[q]
    BY <1>1, <2>2
  <2> QED BY <2>1, <2>3, AnchorKept
<1>4. CASE UpsertNodes(p)
  <2> DEFINE s == scan[p]
             ids == IdsOf(s.file, s.body)
             digest == s.found[s.file].body
  <2>1. /\ s.file \in Files /\ s.body \in Bodies /\ digest \in Bodies /\ digest # Absent
        /\ ids \subseteq NodeIds
    BY <1>1, <1>4, IdsTyped, ConstantsAssumption DEF UpsertNodes, Held, Scans, Versions
  <2>2. /\ nodes' = IF s.detached THEN nodes ELSE [id \in NodeIds |-> IF id \in ids THEN digest ELSE nodes[id]]
        /\ partOf' = partOf
        /\ scan' = [scan EXCEPT ![p] = [s EXCEPT !.at = "noded"]]
    BY <1>1, <1>4 DEF UpsertNodes
  <2>3. \A id \in NodeIds : nodes[id] # Absent => nodes'[id] # Absent
    BY <2>1, <2>2
  <2>4. ~s.detached => \A id \in ids : nodes'[id] # Absent BY <2>1, <2>2
  <2>5. /\ scan'[p].file = s.file /\ scan'[p].body = s.body /\ scan'[p].detached = s.detached
        /\ \A q \in Scanners : q # p => scan'[q] = scan[q]
    BY <1>1, <2>2 DEF Scans
  <2> QED BY <2>2, <2>3, <2>4, <2>5, AnchorKept
<1>5. CASE UpsertEdges(p)
  <2> DEFINE s == scan[p]
  <2>1. /\ s.at = "noded" /\ s.file \in Files /\ s.body \in Bodies /\ nodes' = nodes
    BY <1>1, <1>5 DEF UpsertEdges, Held
  <2>2. ChildIds(s.file, s.body) \subseteq IdsOf(s.file, s.body) /\ FileId(s.file) \in IdsOf(s.file, s.body)
    BY <2>1, IdsTyped
  <2>3. CodeEdgesAnchored'
    <3>1. CASE s.detached BY <1>5, <2>1, <3>1 DEF UpsertEdges, AnchorInv, CodeEdgesAnchored
    <3>2. CASE ~s.detached
      <4>1. \A id \in IdsOf(s.file, s.body) : nodes[id] # Absent
        BY <2>1, <3>2 DEF AnchorInv, NodesStored
      <4>2. \A id \in ChildIds(s.file, s.body) : <<id[1], FileItself>> = FileId(s.file)
        BY DEF ChildIds, FileId
      <4>3. partOf' = partOf \union ChildIds(s.file, s.body) BY <1>5, <3>2 DEF UpsertEdges
      <4> QED BY <2>1, <2>2, <4>1, <4>2, <4>3 DEF AnchorInv, CodeEdgesAnchored
    <3> QED BY <3>1, <3>2
  <2>4. scan'[p].at # "noded" /\ \A q \in Scanners : q # p => scan'[q] = scan[q]
    BY <1>1, <1>5 DEF UpsertEdges, Noted, Scans
  <2> QED BY <2>1, <2>3, <2>4 DEF AnchorInv, NodesStored
<1> QED BY <1>2, <1>3, <1>4, <1>5 DEF ScanStep

LEMMA AnchorInductive == HeldInv /\ AnchorInv /\ [Next]_vars => AnchorInv'
<1> SUFFICES ASSUME HeldInv, AnchorInv, [Next]_vars PROVE AnchorInv'
  OBVIOUS
<1>1. CASE UNCHANGED vars BY <1>1 DEF vars, AnchorInv, NodesStored, CodeEdgesAnchored
<1>2. CASE OtherStep
  <2>1. UNCHANGED <<nodes, partOf>> BY <1>2, OtherStepHeld
  <2>2. \A q \in Scanners : Outlives(scan[q], scan'[q]) BY <1>2, OtherStepScans
  <2> QED BY <2>1, <2>2, AnchorKept DEF Outlives
<1>3. CASE RebuildFull
  <2>1. partOf' = {} BY <1>3 DEF RebuildFull
  <2> QED BY <1>3, <2>1, RebuildHeld DEF AnchorInv, NodesStored, CodeEdgesAnchored
<1> QED BY <1>1, <1>2, <1>3, NextKinds, AnchorStep

LEMMA InitAnchor == Init => AnchorInv
BY DEF Init, IdleScan, AnchorInv, NodesStored, CodeEdgesAnchored

LEMMA AnchorInvariant == Spec => []AnchorInv
BY InitAnchor, HeldInvariant, AnchorInductive, PTL DEF Spec

-----------------------------------------------------------------------------
(***************************************************************************)
(* What a scan knows while nothing disturbs it.                            *)
(***************************************************************************)

\* No two scans that are under way both think that they are alone.
Alone ==
  \A p, q \in Scanners :
    p # q /\ Running(scan[p]) /\ Running(scan[q]) => ~scan[p].solo

\* A scan that nothing disturbed, alone, holds the registry and knows the disk.
Current(s) ==
  Running(s) /\ s.quiet /\ s.solo =>
    /\ s.at # "report" => s.base = registry
    /\ s.at = "classify" => \A f \in Files \ s.todo : s.found[f] = disk[f]
    /\ s.at \in {"index", "parsed", "noded"} =>
         /\ s.found = disk
         /\ \A f \in Files : disk[f] = Absent /\ s.base[f] # Absent => s.report[f] = "stale"
    /\ s.at = "report" => registry = disk

QuietInv == Alone /\ \A p \in Scanners : Current(scan[p])

LEMMA AloneKept ==
  ASSUME Alone, \A q \in Scanners : Running(scan'[q]) => Running(scan[q]) /\ scan'[q].solo = scan[q].solo
  PROVE  Alone'
BY DEF Alone, Running

\* One scan moves on; the disk and the registry stay.
LEMMA QuietMoved ==
  ASSUME QuietInv, scan \in [Scanners -> Held], NEW p \in Scanners, NEW t,
         scan' = [scan EXCEPT ![p] = t], UNCHANGED <<disk, registry>>,
         Running(t) => Running(scan[p]) /\ t.solo = scan[p].solo,
         Current(t)
  PROVE  QuietInv'
<1>1. scan'[p] = t /\ \A q \in Scanners : q # p => scan'[q] = scan[q] OBVIOUS
<1>2. Alone' BY <1>1, AloneKept DEF QuietInv
<1>3. \A q \in Scanners : Current(scan'[q]) BY <1>1 DEF QuietInv
<1>4. \A q \in Scanners : Current(scan[q])' BY <1>3 DEF Current
<1> QED BY <1>2, <1>4 DEF QuietInv

\* A file that is done with is none that disappeared.
LEMMA NotedCurrent ==
  ASSUME NEW s \in Held, Current(s), s.at \in {"index", "parsed", "noded"},
         NEW f \in Files, s.found[f] # Absent, NEW outcome \in Reports
  PROVE  LET t == Noted(s, f, outcome)
         IN  Current(t) /\ Running(s) /\ t.solo = s.solo
<1> DEFINE t == Noted(s, f, outcome)
<1>1. /\ t.at = "index" /\ t.solo = s.solo /\ t.quiet = s.quiet /\ t.found = s.found
      /\ t.base = s.base /\ t.report = [s.report EXCEPT ![f] = outcome]
  BY DEF Noted, Held, Scans
<1>2. Running(s) BY DEF Running
<1>3. s.report \in [Files -> Reports] BY DEF Held, Scans
<1> HIDE DEF t
<1>4. Current(t) BY <1>1, <1>2, <1>3 DEF Current, Running
<1> QED BY <1>1, <1>2, <1>4 DEF t

LEMMA QuietStep ==
  ASSUME HeldInv, QuietInv, NEW p \in Scanners, ScanStep(p)
  PROVE  QuietInv'
<1> DEFINE s == scan[p]
<1>1. /\ scan \in [Scanners -> Held] /\ s \in Held /\ s \in Scans /\ Current(s) /\ Alone
      /\ disk \in [Files -> Versions \union {Absent}]
      /\ registry \in [Files -> Versions \union {Absent}]
  BY DEF HeldInv, TypeOK, Held, QuietInv
<1>2. CASE Begin(p)
  <2>1. scan'[p] = [IdleScan EXCEPT !.at = "classify", !.base = registry, !.todo = Files,
                                    !.solo = ~\E q \in Scanners : Busy(q)]
    BY <1>2, BeginScans
  <2>2. /\ scan'[p].at = "classify" /\ scan'[p].base = registry /\ scan'[p].todo = Files
        /\ scan'[p].solo = ~\E q \in Scanners : Running(scan[q])
    BY <2>1 DEF IdleScan, Busy, Running
  <2>3. \A q \in Scanners : q # p => /\ Running(scan'[q]) => Running(scan[q]) /\ scan'[q].solo = FALSE
    <3> SUFFICES ASSUME NEW q \in Scanners, q # p, Running(scan'[q])
                 PROVE  Running(scan[q]) /\ scan'[q].solo = FALSE
      OBVIOUS
    <3>1. CASE Busy(q)
      <4>1. scan'[q] = [scan[q] EXCEPT !.solo = FALSE] BY <1>2, <3>1, BeginScans
      <4>2. scan[q] \in Scans BY <1>1 DEF Held
      <4> QED BY <3>1, <4>1, <4>2 DEF Busy, Running, Scans
    <3>2. CASE ~Busy(q)
      BY <1>2, <3>2, BeginScans DEF Busy, Running
    <3> QED BY <3>1, <3>2
  <2>4. Alone'
    <3> SUFFICES ASSUME NEW a \in Scanners, NEW b \in Scanners, a # b, Running(scan'[a]), Running(scan'[b])
                 PROVE  ~scan'[a].solo
      BY DEF Alone, Running
    <3> QED BY <2>2, <2>3
  <2>5. UNCHANGED <<disk, registry>> BY <1>2 DEF Begin
  <2>6. Current(scan[p])' BY <2>2, <2>5 DEF Current
  <2>7. ASSUME NEW q \in Scanners, q # p PROVE Current(scan[q])'
    BY <2>3, <2>7 DEF Current, Running
  <2> QED BY <2>4, <2>6, <2>7 DEF QuietInv
<1>3. ASSUME NEW f \in Files, Classify(p, f) PROVE QuietInv'
  <2> DEFINE t == [s EXCEPT !.found[f] = disk[f], !.todo = @ \ {f}]
  <2>1. s.at = "classify" /\ scan' = [scan EXCEPT ![p] = t] /\ UNCHANGED <<disk, registry>>
    BY <1>1, <1>3 DEF Classify
  <2>2. /\ t.at = s.at /\ t.base = s.base /\ t.solo = s.solo /\ t.quiet = s.quiet
        /\ t.todo = s.todo \ {f} /\ t.found = [s.found EXCEPT ![f] = disk[f]]
        /\ s.found \in [Files -> Versions \union {Absent}]
    BY <1>1 DEF Scans
  <2> HIDE DEF t
  <2>3. Running(s) BY <2>1 DEF Running
  <2>4. Current(t) BY <1>1, <2>1, <2>2, <2>3 DEF Current, Running
  <2> QED BY <1>1, <2>1, <2>2, <2>3, <2>4, QuietMoved
<1>4. CASE Plan(p)
  <2> DEFINE present == {f \in Files : s.found[f] # Absent}
             unchanged == {f \in present : SameVersion(s.base[f], s.found[f])}
             stale == {f \in Files \ present : s.base[f] # Absent}
             todo == (present \ unchanged) \cap Parsed
             report == [f \in Files |-> IF f \in stale THEN "stale"
                                        ELSE IF f \in present \ todo THEN "skipped" ELSE "none"]
  <2>1. /\ scan' = [scan EXCEPT ![p] =
                       [s EXCEPT !.at = "index", !.base = registry, !.todo = todo, !.report = report]]
        /\ \A f \in stale : report[f] = "stale"
    BY <1>4 DEF Plan
  <2> DEFINE t == [s EXCEPT !.at = "index", !.base = registry, !.todo = todo, !.report = report]
  <2>2. s.at = "classify" /\ s.todo = {} /\ UNCHANGED <<disk, registry>> BY <1>4 DEF Plan
  <2>3. /\ t.at = "index" /\ t.base = registry /\ t.solo = s.solo /\ t.quiet = s.quiet
        /\ t.found = s.found /\ t.report = report
        /\ s.found \in [Files -> Versions \union {Absent}]
    BY <1>1 DEF Scans
  <2>4. scan' = [scan EXCEPT ![p] = t] BY <2>1
  <2> HIDE DEF t
  <2>5. Running(s) BY <2>2 DEF Running
  <2>6. ASSUME Running(t), t.quiet, t.solo
        PROVE  t.found = disk /\ \A f \in Files : disk[f] = Absent /\ t.base[f] # Absent => t.report[f] = "stale"
    <3>1. s.base = registry /\ \A f \in Files : s.found[f] = disk[f]
      BY <1>1, <2>2, <2>3, <2>5, <2>6 DEF Current
    <3>2. s.found = disk BY <1>1, <2>3, <3>1
    <3> QED BY <2>1, <2>3, <3>1, <3>2
  <2>7. Current(t) BY <2>3, <2>6 DEF Current
  <2> QED BY <1>1, <2>2, <2>3, <2>4, <2>5, <2>7, QuietMoved
<1>5. ASSUME NEW f \in Files, Parse(p, f) PROVE QuietInv'
  <2>1. s.at = "index" /\ f \in s.todo /\ s.found[f] # Absent /\ UNCHANGED <<disk, registry>>
    BY <1>1, <1>5 DEF Parse, Held
  <2>2. CASE disk[f] = Absent
    <3>1. scan' = [scan EXCEPT ![p] = Noted(s, f, "failed")] BY <1>5, <2>2 DEF Parse
    <3> QED BY <1>1, <2>1, <3>1, NotedCurrent, QuietMoved DEF Reports
  <2>3. CASE disk[f] # Absent
    <3> DEFINE t == [s EXCEPT !.at = "parsed", !.file = f, !.body = disk[f].body]
    <3>1. scan' = [scan EXCEPT ![p] = t] BY <1>5, <2>3 DEF Parse
    <3>2. /\ t.at = "parsed" /\ t.base = s.base /\ t.solo = s.solo /\ t.quiet = s.quiet
          /\ t.found = s.found /\ t.report = s.report
      BY <1>1 DEF Scans
    <3> HIDE DEF t
    <3>3. Running(s) BY <2>1 DEF Running
    <3>4. Current(t) BY <1>1, <2>1, <3>2, <3>3 DEF Current
    <3> QED BY <1>1, <2>1, <3>1, <3>2, <3>3, <3>4, QuietMoved
  <2> QED BY <2>2, <2>3
<1>6. CASE UpsertNodes(p)
  <2> DEFINE t == [s EXCEPT !.at = "noded"]
  <2>1. s.at = "parsed" /\ scan' = [scan EXCEPT ![p] = t] /\ UNCHANGED <<disk, registry>>
    BY <1>1, <1>6 DEF UpsertNodes
  <2>2. /\ t.at = "noded" /\ t.base = s.base /\ t.solo = s.solo /\ t.quiet = s.quiet
        /\ t.found = s.found /\ t.report = s.report
    BY <1>1 DEF Scans
  <2> HIDE DEF t
  <2>3. Running(s) BY <2>1 DEF Running
  <2>4. Current(t) BY <1>1, <2>1, <2>2, <2>3 DEF Current
  <2> QED BY <1>1, <2>1, <2>2, <2>3, <2>4, QuietMoved
<1>7. CASE UpsertEdges(p)
  <2>1. /\ s.at = "noded" /\ s.file \in Files /\ s.found[s.file] # Absent
        /\ scan' = [scan EXCEPT ![p] = Noted(s, s.file, "indexed")] /\ UNCHANGED <<disk, registry>>
    BY <1>1, <1>7 DEF UpsertEdges, Held
  <2> QED BY <1>1, <2>1, NotedCurrent, QuietMoved DEF Reports
<1>8. CASE Register(p)
  <2> DEFINE t == [s EXCEPT !.at = "report"]
  <2>1. /\ s.at = "index" /\ scan' = [scan EXCEPT ![p] = t] /\ disk' = disk
        /\ registry' = Applied(s)
    BY <1>1, <1>8 DEF Register
  <2>2. t.at = "report" /\ t.solo = s.solo /\ t.quiet = s.quiet BY <1>1 DEF Scans
  <2>3. scan'[p] = t /\ \A q \in Scanners : q # p => scan'[q] = scan[q] BY <1>1, <2>1
  <2> HIDE DEF t
  <2>4. Running(s) BY <2>1 DEF Running
  <2>5. Alone' BY <1>1, <2>2, <2>3, <2>4, AloneKept
  <2>6. ASSUME t.quiet, t.solo PROVE registry' = disk'
    <3>1. /\ s.base = registry /\ s.found = disk
          /\ \A f \in Files : disk[f] = Absent /\ s.base[f] # Absent => s.report[f] = "stale"
      BY <1>1, <2>1, <2>2, <2>4, <2>6 DEF Current
    <3>2. \A f \in Files : registry'[f] = disk[f] BY <2>1, <3>1 DEF Applied
    <3>3. registry' = [f \in Files |-> registry'[f]] BY <2>1 DEF Applied
    <3>4. disk = [f \in Files |-> disk[f]] BY <1>1
    <3> QED BY <2>1, <3>2, <3>3, <3>4
  <2>7. Current(scan[p])' BY <2>2, <2>3, <2>6 DEF Current
  <2>8. ASSUME NEW q \in Scanners, q # p PROVE Current(scan[q])'
    <3>1. Running(scan[q]) => ~scan[q].solo BY <1>1, <2>4, <2>8 DEF Alone
    <3> QED BY <2>3, <2>8, <3>1 DEF Current, Running
  <2> QED BY <2>5, <2>7, <2>8 DEF QuietInv
<1>9. CASE Report(p)
  <2> DEFINE t == [s EXCEPT !.at = "finished"]
  <2>1. scan' = [scan EXCEPT ![p] = t] /\ UNCHANGED <<disk, registry>>
    BY <1>1, <1>9 DEF Report
  <2>2. t.at = "finished" BY <1>1 DEF Scans
  <2> HIDE DEF t
  <2>3. ~Running(t) BY <2>2 DEF Running
  <2>4. Current(t) BY <2>3 DEF Current
  <2> QED BY <1>1, <2>1, <2>3, <2>4, QuietMoved
<1> QED BY <1>2, <1>3, <1>4, <1>5, <1>6, <1>7, <1>8, <1>9 DEF ScanStep

LEMMA QuietInductive == HeldInv /\ QuietInv /\ [Next]_vars => QuietInv'
<1> SUFFICES ASSUME HeldInv, QuietInv, [Next]_vars PROVE QuietInv'
  OBVIOUS
<1>1. CASE UNCHANGED vars BY <1>1 DEF vars, QuietInv, Alone, Current, Running
<1>2. CASE OtherStep
  <2>1. /\ registry' = registry
        /\ \A q \in Scanners : Outlives(scan[q], scan'[q])
        /\ disk' = disk \/ \A q \in Scanners : ~(Running(scan'[q]) /\ scan'[q].quiet)
    BY <1>2, OtherStepHeld, OtherStepScans
  <2>2. Alone' BY <2>1, AloneKept DEF QuietInv, Outlives
  <2>3. ASSUME NEW q \in Scanners PROVE Current(scan[q])'
    <3>1. CASE Running(scan'[q]) /\ scan'[q].quiet
      <4>1. scan'[q] = scan[q] /\ disk' = disk BY <2>1, <3>1 DEF Outlives
      <4>2. Current(scan[q]) BY DEF QuietInv
      <4> QED BY <2>1, <4>1, <4>2 DEF Current
    <3>2. CASE ~(Running(scan'[q]) /\ scan'[q].quiet)
      BY <3>2 DEF Current, Running
    <3> QED BY <3>1, <3>2
  <2> QED BY <2>2, <2>3 DEF QuietInv
<1>3. CASE RebuildFull
  <2>1. \A q \in Scanners : Running(scan'[q]) =>
          Running(scan[q]) /\ ~scan'[q].quiet /\ scan'[q].solo = scan[q].solo
    BY <1>3, RebuildHeld
  <2>2. Alone' BY <2>1, AloneKept DEF QuietInv
  <2>3. \A q \in Scanners : Current(scan[q])' BY <2>1 DEF Current, Running
  <2> QED BY <2>2, <2>3 DEF QuietInv
<1> QED BY <1>1, <1>2, <1>3, NextKinds, QuietStep

LEMMA InitQuiet == Init => QuietInv
BY DEF Init, IdleScan, QuietInv, Alone, Current, Running

LEMMA QuietInvariant == Spec => []QuietInv
BY InitQuiet, HeldInvariant, QuietInductive, PTL DEF Spec

-----------------------------------------------------------------------------
(***************************************************************************)
(* What the registry vouches for.                                          *)
(***************************************************************************)

\* A version that was seen is not younger than the clock.
Past(v) == v # Absent => v.mtime <= edits

Clock ==
  \A f \in Files :
    /\ Past(disk[f]) /\ Past(registry[f])
    /\ \A p \in Scanners : Past(scan[p].found[f]) /\ Past(scan[p].base[f])

\* A scan that has yet to write the registry.
Before(s) == s.at \in {"classify", "index", "parsed", "noded"}

\* What was parsed of a file is what was classified, unless it was edited since.
Carried(s) ==
  s.at \in {"parsed", "noded"} =>
    s.file \in s.todo /\ (s.found[s.file] = disk[s.file] => s.body = disk[s.file].body)

\* Unless the registry vouches for nothing, no scan is about to write the nodes of a
\* file whose present version is recorded.
Informed(s) ==
  Before(s) =>
    \/ tainted = Files
    \/ /\ s.at = "classify" => s.base = registry
       /\ s.at # "classify" => \A f \in s.todo : s.found[f] # registry[f]
       /\ \A f \in Files :
            registry[f] # Absent /\ registry[f] = disk[f] /\ s.found[f] # Absent => s.found[f] = disk[f]

\* No other file has its bare name.
Unshared(f) == \A g \in Files \ {f} : BaseName[g] # BaseName[f]

\* What a scan that is alone has seen to.
SeenTo(s, f) ==
  \/ f \in s.todo
  \/ s.report[f] = "failed"
  \/ s.report[f] = "skipped" /\ s.found[f] = registry[f]
  \/ s.report[f] = "indexed" /\ (s.found[f] = disk[f] => Indexed(f))

Diligent(s) ==
  Before(s) /\ s.solo =>
    /\ s.base = registry
    /\ s.at # "classify" /\ ~s.detached =>
         /\ \A f \in Files : s.report[f] = "indexed" => s.found[f] # Absent
         /\ \A f \in Parsed : s.found[f] # Absent => SeenTo(s, f)
    /\ s.at = "noded" /\ ~s.detached =>
         \A id \in IdsOf(s.file, s.body) :
           nodes[id] # Absent /\ (Unshared(s.file) => nodes[id] = s.found[s.file].body)

Fine(s) == Carried(s) /\ Informed(s) /\ Diligent(s)

SkipInv == Clock /\ SkippedIsIndexed /\ \A p \in Scanners : Fine(scan[p])

\* A file that is in the graph stays there while its nodes are kept.
LEMMA IndexedKept ==
  ASSUME NEW f \in Files, disk'[f] = disk[f], Indexed(f),
         \A id \in IdsOf(f, disk[f].body) :
           nodes[id] # Absent => nodes'[id] # Absent /\ (Unshared(f) => nodes'[id] = nodes[id]),
         partOf \subseteq partOf'
  PROVE  Indexed(f)'
<1>1. \A id \in IdsOf(f, disk[f].body) :
        nodes'[id] # Absent /\ (Unshared(f) => nodes'[id] = disk'[f].body)
  BY DEF Indexed, Unshared
<1>2. ChildIds(f, disk'[f].body) \subseteq partOf' /\ IdsOf(f, disk'[f].body) = IdsOf(f, disk[f].body)
  BY DEF Indexed
<1> QED BY <1>1, <1>2 DEF Indexed, Unshared

\* A scan that is over is answerable for nothing.
LEMMA FineOver ==
  ASSUME NEW q \in Scanners, ~Before(scan'[q])
  PROVE  Fine(scan[q])'
BY DEF Fine, Carried, Informed, Diligent, Before

\* A scan about which nothing but its history changes.
LEMMA FineSame ==
  ASSUME NEW q \in Scanners, Fine(scan[q]),
         scan'[q].at = scan[q].at, scan'[q].base = scan[q].base, scan'[q].found = scan[q].found,
         scan'[q].todo = scan[q].todo, scan'[q].report = scan[q].report, scan'[q].file = scan[q].file,
         scan'[q].body = scan[q].body, scan'[q].detached = scan[q].detached,
         scan'[q].solo => scan[q].solo,
         UNCHANGED <<disk, registry, nodes, partOf, tainted>>
  PROVE  Fine(scan[q])'
<1>1. Carried(scan[q])' BY DEF Fine, Carried
<1>2. Informed(scan[q])' BY DEF Fine, Informed, Before
<1>3. \A f \in Files : Indexed(f) => Indexed(f)' BY DEF Indexed
<1>4. \A f \in Parsed : SeenTo(scan[q], f) => SeenTo(scan[q], f)'
  BY <1>3, ConstantsAssumption DEF SeenTo
<1>5. Diligent(scan[q])' BY <1>4 DEF Fine, Diligent, Before
<1> QED BY <1>1, <1>2, <1>5 DEF Fine

\* A scan beside one that moves on, which therefore is not alone.
LEMMA FineBeside ==
  ASSUME QuietInv, SkipInv, NEW p \in Scanners, NEW q \in Scanners, q # p, Running(scan[p]),
         scan'[q] = scan[q], disk' = disk,
         \/ UNCHANGED <<registry, tainted>>
         \/ tainted' = Files
         \/ scan[p].solo
  PROVE  Fine(scan[q])'
<1>1. CASE ~Before(scan[q]) BY <1>1, FineOver
<1>2. CASE Before(scan[q])
  <2>1. Running(scan[q]) BY <1>2 DEF Before, Running
  <2>2. ~scan[q].solo /\ ~scan[p].solo BY <2>1 DEF QuietInv, Alone
  <2>3. Fine(scan[q]) BY DEF SkipInv
  <2>4. Carried(scan[q])' BY <2>3 DEF Fine, Carried
  <2>5. Informed(scan[q])' BY <2>2, <2>3 DEF Fine, Informed, Before
  <2>6. Diligent(scan[q])' BY <2>2 DEF Diligent
  <2> QED BY <2>4, <2>5, <2>6 DEF Fine
<1> QED BY <1>1, <1>2

\* A file that fails is noted.
LEMMA FineFailed ==
  ASSUME NEW q \in Scanners, Fine(scan[q]), scan[q] \in Held, NEW f \in Files,
         scan[q].at \in {"index", "parsed", "noded"},
         scan'[q].at = "index", scan'[q].base = scan[q].base, scan'[q].found = scan[q].found,
         scan'[q].todo = scan[q].todo \ {f}, scan'[q].detached = scan[q].detached,
         scan'[q].report = [scan[q].report EXCEPT ![f] = "failed"],
         scan'[q].solo = scan[q].solo,
         UNCHANGED <<disk, registry, nodes, partOf, tainted>>
  PROVE  Fine(scan[q])'
<1>1. Carried(scan[q])' BY DEF Carried
<1>2. Informed(scan[q])' BY DEF Fine, Informed, Before
<1>3. \A g \in Files : Indexed(g) => Indexed(g)' BY DEF Indexed
<1>4. scan[q].report \in [Files -> Reports] BY DEF Held, Scans
<1>5. \A g \in Parsed : SeenTo(scan[q], g) => SeenTo(scan[q], g)'
  BY <1>3, <1>4, ConstantsAssumption DEF SeenTo
<1>6. \A g \in Files : scan'[q].report[g] = "indexed" => scan[q].report[g] = "indexed"
  BY <1>4
<1>7. Diligent(scan[q])' BY <1>5, <1>6 DEF Fine, Diligent, Before
<1> QED BY <1>1, <1>2, <1>7 DEF Fine

\* Versions are seen on the disk, recorded and loaded; none is made up.
LEMMA ClockMoved ==
  ASSUME Clock, NEW p \in Scanners, UNCHANGED <<disk, edits>>,
         \A f \in Files : registry'[f] \in {registry[f], scan[p].found[f], scan[p].base[f], Absent},
         \A f \in Files : /\ scan'[p].found[f] \in {scan[p].found[f], disk[f], Absent}
                          /\ scan'[p].base[f] \in {scan[p].base[f], registry[f], Absent},
         \A q \in Scanners : q # p => scan'[q].found = scan[q].found /\ scan'[q].base = scan[q].base
  PROVE  Clock'
BY DEF Clock, Past

\* One scan moves on, and is itself in order.
LEMMA SkipMoved ==
  ASSUME HeldInv, QuietInv, SkipInv, NEW p \in Scanners, Running(scan[p]),
         \A q \in Scanners : q # p => scan'[q] = scan[q],
         UNCHANGED <<disk, edits>>,
         UNCHANGED <<registry, tainted>> \/ tainted' = Files \/ scan[p].solo,
         \A f \in Files : registry'[f] \in {registry[f], scan[p].found[f], scan[p].base[f], Absent},
         \A f \in Files : /\ scan'[p].found[f] \in {scan[p].found[f], disk[f], Absent}
                          /\ scan'[p].base[f] \in {scan[p].base[f], registry[f], Absent},
         SkippedIsIndexed', Fine(scan[p])'
  PROVE  SkipInv'
<1>1. Clock' BY ClockMoved DEF SkipInv
<1>2. \A q \in Scanners : q # p => Fine(scan[q])' BY FineBeside
<1> QED BY <1>1, <1>2 DEF SkipInv

\* The graph and the registry stay, and so does what the one says of the other.
LEMMA SkippedSame ==
  ASSUME SkippedIsIndexed, UNCHANGED <<disk, registry, nodes, partOf, tainted>>
  PROVE  SkippedIsIndexed'
BY DEF SkippedIsIndexed, Indexed

LEMMA BeginSkip ==
  ASSUME HeldInv, QuietInv, SkipInv, NEW p \in Scanners, Begin(p)
  PROVE  SkipInv'
<1>1. /\ \A q \in Scanners : scan[q] \in Scans
      /\ UNCHANGED <<disk, edits, registry, nodes, partOf, tainted>>
  BY DEF HeldInv, TypeOK, Begin
<1>2. /\ scan'[p].at = "classify" /\ scan'[p].base = registry
      /\ scan'[p].found = [f \in Files |-> Absent] /\ scan'[p].todo = Files
  <2>1. scan'[p] = [IdleScan EXCEPT !.at = "classify", !.base = registry, !.todo = Files,
                                    !.solo = ~\E q \in Scanners : Busy(q)]
    BY BeginScans
  <2> QED BY <2>1 DEF IdleScan
<1>3. \A q \in Scanners : q # p =>
        \/ scan'[q] = scan[q]
        \/ scan'[q] = [scan[q] EXCEPT !.solo = FALSE]
  BY BeginScans
<1>4. ASSUME NEW q \in Scanners, q # p
      PROVE  Fine(scan[q])' /\ scan'[q].found = scan[q].found /\ scan'[q].base = scan[q].base
  <2>1. /\ scan'[q].at = scan[q].at /\ scan'[q].base = scan[q].base /\ scan'[q].found = scan[q].found
        /\ scan'[q].todo = scan[q].todo /\ scan'[q].report = scan[q].report
        /\ scan'[q].file = scan[q].file /\ scan'[q].body = scan[q].body
        /\ scan'[q].detached = scan[q].detached
        /\ scan'[q].solo => scan[q].solo
    <3>1. scan[q] \in Scans BY <1>1
    <3>2. CASE scan'[q] = scan[q] BY <3>2
    <3>3. CASE scan'[q] = [scan[q] EXCEPT !.solo = FALSE] BY <3>1, <3>3 DEF Scans
    <3> QED BY <1>3, <1>4, <3>2, <3>3
  <2> QED BY <1>1, <2>1, FineSame DEF SkipInv
<1>5. Fine(scan[p])' BY <1>1, <1>2 DEF Fine, Carried, Informed, Diligent
<1>6. Clock' BY <1>1, <1>2, <1>4, ClockMoved DEF SkipInv
<1>7. SkippedIsIndexed' BY <1>1, SkippedSame DEF SkipInv
<1> QED BY <1>4, <1>5, <1>6, <1>7 DEF SkipInv

LEMMA ClassifySkip ==
  ASSUME HeldInv, QuietInv, SkipInv, NEW p \in Scanners, NEW f \in Files, Classify(p, f)
  PROVE  SkipInv'
<1> DEFINE s == scan[p]
           t == [s EXCEPT !.found[f] = disk[f], !.todo = @ \ {f}]
<1>1. scan \in [Scanners -> Scans] /\ s \in Scans /\ Fine(s) BY DEF HeldInv, TypeOK, SkipInv
<1>2. /\ s.at = "classify" /\ scan' = [scan EXCEPT ![p] = t]
      /\ UNCHANGED <<disk, edits, registry, nodes, partOf, tainted>>
  BY <1>1 DEF Classify
<1>3. /\ t.at = "classify" /\ t.base = s.base /\ t.solo = s.solo
      /\ t.found = [s.found EXCEPT ![f] = disk[f]]
      /\ s.found \in [Files -> Versions \union {Absent}]
  BY <1>1, <1>2 DEF Scans
<1>4. scan'[p] = t /\ \A q \in Scanners : q # p => scan'[q] = scan[q] BY <1>1, <1>2
<1> HIDE DEF t
<1>5. Fine(scan[p])' BY <1>1, <1>2, <1>3, <1>4 DEF Fine, Carried, Informed, Diligent, Before
<1>6. SkippedIsIndexed' BY <1>2, SkippedSame DEF SkipInv
<1>7. Running(scan[p]) BY <1>2 DEF Running
<1>8. \A g \in Files : t.found[g] \in {s.found[g], disk[g], Absent} BY <1>3
<1> QED BY <1>2, <1>3, <1>4, <1>5, <1>6, <1>7, <1>8, SkipMoved

LEMMA PlanSkip ==
  ASSUME HeldInv, QuietInv, SkipInv, NEW p \in Scanners, Plan(p)
  PROVE  SkipInv'
<1> DEFINE s == scan[p]
           present == {f \in Files : s.found[f] # Absent}
           unchanged == {f \in present : SameVersion(s.base[f], s.found[f])}
           stale == {f \in Files \ present : s.base[f] # Absent}
           todo == (present \ unchanged) \cap Parsed
           report == [f \in Files |-> IF f \in stale THEN "stale"
                                      ELSE IF f \in present \ todo THEN "skipped" ELSE "none"]
           t == [s EXCEPT !.at = "index", !.base = registry, !.todo = todo, !.report = report]
<1>1. scan \in [Scanners -> Scans] /\ s \in Scans /\ Fine(s) BY DEF HeldInv, TypeOK, SkipInv
<1>2. /\ s.at = "classify" /\ scan' = [scan EXCEPT ![p] = t]
      /\ UNCHANGED <<disk, edits, registry, nodes, partOf, tainted>>
  BY DEF Plan
<1>3. /\ t.at = "index" /\ t.base = registry /\ t.solo = s.solo /\ t.found = s.found
      /\ t.todo = todo /\ t.report = report
  BY <1>1, <1>2 DEF Scans
<1>4. scan'[p] = t /\ \A q \in Scanners : q # p => scan'[q] = scan[q] BY <1>1, <1>2
<1>5. /\ \A f \in todo : s.found[f] # Absent /\ s.found[f] # s.base[f]
      /\ \A f \in Files : report[f] # "indexed"
      /\ \A f \in Parsed : s.found[f] # Absent =>
           f \in todo \/ (report[f] = "skipped" /\ s.found[f] = s.base[f])
  BY ConstantsAssumption DEF SameVersion
<1> HIDE DEF t, todo, report
<1>6. Informed(scan[p])' BY <1>1, <1>2, <1>3, <1>4, <1>5 DEF Fine, Informed, Before
<1>7. Diligent(scan[p])'
  <2>1. s.solo => s.base = registry BY <1>1, <1>2 DEF Fine, Diligent, Before
  <2>2. s.solo => \A f \in Parsed : t.found[f] # Absent => SeenTo(scan[p], f)'
    BY <1>2, <1>3, <1>4, <1>5, <2>1 DEF SeenTo
  <2> QED BY <1>2, <1>3, <1>4, <1>5, <2>2 DEF Diligent
<1>8. Fine(scan[p])' BY <1>3, <1>4, <1>6, <1>7 DEF Fine, Carried
<1>9. SkippedIsIndexed' BY <1>2, SkippedSame DEF SkipInv
<1>10. Running(scan[p]) BY <1>2 DEF Running
<1> QED BY <1>2, <1>3, <1>4, <1>8, <1>9, <1>10, SkipMoved

LEMMA ParseSkip ==
  ASSUME HeldInv, QuietInv, SkipInv, NEW p \in Scanners, NEW f \in Files, Parse(p, f)
  PROVE  SkipInv'
<1> DEFINE s == scan[p]
<1>1. /\ scan \in [Scanners -> Scans] /\ s \in Scans /\ s \in Held /\ Fine(s)
  BY DEF HeldInv, TypeOK, SkipInv
<1>2. /\ s.at = "index" /\ f \in s.todo /\ UNCHANGED <<disk, edits, registry, nodes, partOf, tainted>>
  BY DEF Parse
<1>3. SkippedIsIndexed' BY <1>2, SkippedSame DEF SkipInv
<1>4. Running(scan[p]) BY <1>2 DEF Running
<1>5. CASE disk[f] = Absent
  <2> DEFINE t == Noted(s, f, "failed")
  <2>1. scan' = [scan EXCEPT ![p] = t] BY <1>5 DEF Parse
  <2>2. /\ t.at = "index" /\ t.base = s.base /\ t.found = s.found /\ t.todo = s.todo \ {f}
        /\ t.detached = s.detached /\ t.solo = s.solo /\ t.report = [s.report EXCEPT ![f] = "failed"]
    BY <1>1 DEF Noted, Scans
  <2>3. scan'[p] = t /\ \A q \in Scanners : q # p => scan'[q] = scan[q] BY <1>1, <2>1
  <2> HIDE DEF t
  <2>4. Fine(scan[p])' BY <1>1, <1>2, <2>2, <2>3, FineFailed
  <2> QED BY <1>2, <1>3, <1>4, <2>2, <2>3, <2>4, SkipMoved
<1>6. CASE disk[f] # Absent
  <2> DEFINE t == [s EXCEPT !.at = "parsed", !.file = f, !.body = disk[f].body]
  <2>1. scan' = [scan EXCEPT ![p] = t] BY <1>6 DEF Parse
  <2>2. /\ t.at = "parsed" /\ t.base = s.base /\ t.found = s.found /\ t.todo = s.todo
        /\ t.detached = s.detached /\ t.solo = s.solo /\ t.report = s.report
        /\ t.file = f /\ t.body = disk[f].body
    BY <1>1 DEF Scans
  <2>3. scan'[p] = t /\ \A q \in Scanners : q # p => scan'[q] = scan[q] BY <1>1, <2>1
  <2> HIDE DEF t
  <2>4. Carried(scan[p])' BY <1>2, <2>2, <2>3 DEF Carried
  <2>5. Informed(scan[p])' BY <1>1, <1>2, <2>2, <2>3 DEF Fine, Informed, Before
  <2>6. \A g \in Files : Indexed(g) => Indexed(g)' BY <1>2 DEF Indexed
  <2>7. \A g \in Parsed : SeenTo(s, g) => SeenTo(scan[p], g)'
    BY <1>2, <2>2, <2>3, <2>6, ConstantsAssumption DEF SeenTo
  <2>8. Diligent(scan[p])' BY <1>1, <1>2, <2>2, <2>3, <2>7 DEF Fine, Diligent, Before
  <2>9. Fine(scan[p])' BY <2>4, <2>5, <2>8 DEF Fine
  <2> QED BY <1>2, <1>3, <1>4, <2>2, <2>3, <2>9, SkipMoved
<1> QED BY <1>5, <1>6

LEMMA UpsertNodesSkip ==
  ASSUME HeldInv, QuietInv, SkipInv, NEW p \in Scanners, UpsertNodes(p)
  PROVE  SkipInv'
<1> DEFINE s == scan[p]
           ids == IdsOf(s.file, s.body)
           digest == s.found[s.file].body
           t == [s EXCEPT !.at = "noded"]
<1>1. /\ scan \in [Scanners -> Scans] /\ s \in Scans /\ s \in Held /\ Fine(s)
      /\ nodes \in [NodeIds -> Bodies \union {Absent}] /\ SkippedIsIndexed
  BY DEF HeldInv, TypeOK, SkipInv
<1>2. /\ s.at = "parsed" /\ scan' = [scan EXCEPT ![p] = t]
      /\ nodes' = IF s.detached THEN nodes ELSE [id \in NodeIds |-> IF id \in ids THEN digest ELSE nodes[id]]
      /\ UNCHANGED <<disk, edits, registry, partOf, tainted>>
  BY <1>1 DEF UpsertNodes
<1>3. /\ s.file \in Files /\ s.body \in Bodies /\ digest \in Bodies /\ digest # Absent
      /\ s.found[s.file] # Absent /\ s.file \in s.todo
      /\ ids \subseteq NodeIds
  BY <1>1, <1>2, IdsTyped, ConstantsAssumption DEF Held, Scans, Versions, Fine, Carried
<1>4. /\ t.at = "noded" /\ t.base = s.base /\ t.found = s.found /\ t.todo = s.todo
      /\ t.detached = s.detached /\ t.solo = s.solo /\ t.report = s.report
      /\ t.file = s.file /\ t.body = s.body
  BY <1>1 DEF Scans
<1>5. scan'[p] = t /\ \A q \in Scanners : q # p => scan'[q] = scan[q] BY <1>1, <1>2
<1>6. Running(scan[p]) /\ Before(s) /\ s.at # "classify" BY <1>2 DEF Running, Before
<1> HIDE DEF t
<1>7. ASSUME NEW f \in Files, f # s.file, disk[f] \in Versions, Indexed(f) PROVE Indexed(f)'
  <2>1. IdsOf(f, disk[f].body) \subseteq NodeIds BY <1>7, IdsTyped DEF Versions
  <2>2. ASSUME NEW id \in IdsOf(f, disk[f].body), nodes[id] # Absent
        PROVE  nodes'[id] # Absent /\ (Unshared(f) => nodes'[id] = nodes[id])
    <3>1. id \in NodeIds BY <2>1
    <3>2. Unshared(f) => id \notin ids
      BY <1>3, <1>7 DEF Unshared, IdsOf, FileId, ChildIds
    <3> QED BY <1>2, <1>3, <2>2, <3>1, <3>2
  <2> QED BY <1>2, <1>7, <2>2, IndexedKept
<1>8. SkippedIsIndexed'
  <2> SUFFICES ASSUME NEW f \in Parsed \ tainted, registry[f] # Absent, registry[f] = disk[f]
               PROVE  Indexed(f)'
    BY <1>2 DEF SkippedIsIndexed
  <2>1. f \in Files /\ disk[f] \in Versions BY ConstantsAssumption DEF HeldInv, TypeOK
  <2>2. Indexed(f) BY <1>1 DEF SkippedIsIndexed
  <2>3. f # s.file
    BY <1>1, <1>3, <1>6, <2>1 DEF Fine, Informed
  <2> QED BY <1>7, <2>1, <2>2, <2>3
<1>9. Carried(scan[p])' BY <1>1, <1>2, <1>4, <1>5 DEF Fine, Carried
<1>10. Informed(scan[p])' BY <1>1, <1>2, <1>4, <1>5, <1>6 DEF Fine, Informed
<1>11. Diligent(scan[p])'
  <2> SUFFICES ASSUME s.solo PROVE Diligent(scan[p])'
    BY <1>4, <1>5 DEF Diligent
  <2>1. s.base = registry BY <1>1, <1>6 DEF Fine, Diligent
  <2>2. ASSUME ~s.detached, NEW f \in Parsed, s.found[f] # Absent PROVE SeenTo(scan[p], f)'
    <3>1. SeenTo(s, f) BY <1>1, <1>6, <2>2 DEF Fine, Diligent
    <3>2. CASE f \in s.todo BY <1>4, <1>5, <3>2 DEF SeenTo
    <3>3. CASE f \notin s.todo
      <4>1. f # s.file /\ f \in Files BY <1>3, <3>3, ConstantsAssumption
      <4>2. s.found[f] \in Versions BY <1>1, <2>2, <4>1 DEF Scans
      <4>3. s.found[f] = disk[f] /\ Indexed(f) => Indexed(f)' BY <1>7, <4>1, <4>2
      <4> QED BY <1>2, <1>4, <1>5, <3>1, <3>3, <4>3 DEF SeenTo
    <3> QED BY <3>2, <3>3
  <2>3. ~s.detached => \A id \in ids :
          nodes'[id] # Absent /\ (Unshared(s.file) => nodes'[id] = s.found[s.file].body)
    BY <1>2, <1>3
  <2>4. ~s.detached => \A f \in Files : s.report[f] = "indexed" => s.found[f] # Absent
    BY <1>1, <1>6 DEF Fine, Diligent
  <2>5. /\ (scan[p].base = registry)' /\ scan'[p].detached = s.detached
        /\ scan'[p].file = s.file /\ scan'[p].body = s.body /\ scan'[p].found = s.found
        /\ scan'[p].report = s.report
    BY <1>2, <1>4, <1>5, <2>1
  <2>6. ~s.detached => \A id \in IdsOf(s.file, s.body) :
          nodes'[id] # Absent /\ (Unshared(scan'[p].file) => nodes'[id] = s.found[s.file].body)
    BY <2>3, <2>5
  <2> QED BY <2>2, <2>4, <2>5, <2>6 DEF Diligent
<1>12. Fine(scan[p])' BY <1>9, <1>10, <1>11 DEF Fine
<1> QED BY <1>2, <1>4, <1>5, <1>6, <1>8, <1>12, SkipMoved

LEMMA UpsertEdgesSkip ==
  ASSUME HeldInv, QuietInv, SkipInv, NEW p \in Scanners, UpsertEdges(p)
  PROVE  SkipInv'
<1> DEFINE s == scan[p]
           t == Noted(s, s.file, "indexed")
<1>1. /\ scan \in [Scanners -> Scans] /\ s \in Scans /\ s \in Held /\ Fine(s) /\ SkippedIsIndexed
  BY DEF HeldInv, TypeOK, SkipInv
<1>2. /\ s.at = "noded" /\ scan' = [scan EXCEPT ![p] = t]
      /\ partOf' = IF s.detached THEN partOf ELSE partOf \union ChildIds(s.file, s.body)
      /\ UNCHANGED <<disk, edits, registry, nodes, tainted>>
  BY <1>1 DEF UpsertEdges
<1>3. /\ s.file \in Files /\ s.body \in Bodies /\ s.found[s.file] \in Versions
      /\ s.found[s.file] # Absent /\ s.report \in [Files -> Reports]
  BY <1>1, <1>2 DEF Held, Scans
<1>4. /\ t.at = "index" /\ t.base = s.base /\ t.found = s.found /\ t.todo = s.todo \ {s.file}
      /\ t.detached = s.detached /\ t.solo = s.solo
      /\ t.report = [s.report EXCEPT ![s.file] = "indexed"]
  BY <1>1 DEF Noted, Scans
<1>5. scan'[p] = t /\ \A q \in Scanners : q # p => scan'[q] = scan[q] BY <1>1, <1>2
<1>6. Running(scan[p]) /\ Before(s) /\ s.at # "classify" BY <1>2 DEF Running, Before
<1> HIDE DEF t
<1>7. ASSUME NEW f \in Files, Indexed(f) PROVE Indexed(f)'
  BY <1>2, <1>7 DEF Indexed
<1>8. SkippedIsIndexed'
  BY <1>1, <1>2, <1>7, ConstantsAssumption DEF SkippedIsIndexed
<1>9. Informed(scan[p])' BY <1>1, <1>2, <1>4, <1>5, <1>6 DEF Fine, Informed
<1>10. Diligent(scan[p])'
  <2> SUFFICES ASSUME s.solo PROVE Diligent(scan[p])'
    BY <1>4, <1>5 DEF Diligent
  <2>1. s.base = registry BY <1>1, <1>6 DEF Fine, Diligent
  <2>2. ASSUME ~s.detached, NEW f \in Files, f = s.file, s.found[f] = disk[f] PROVE Indexed(f)'
    <3>1. s.body = disk[f].body BY <1>1, <1>2, <2>2 DEF Fine, Carried
    <3>2. \A id \in IdsOf(f, s.body) : nodes[id] # Absent /\ (Unshared(f) => nodes[id] = s.found[f].body)
      BY <1>1, <1>2, <1>6, <2>2 DEF Fine, Diligent
    <3>3. ChildIds(f, s.body) \subseteq partOf' BY <1>2, <2>2
    <3>4. \A id \in IdsOf(f, disk'[f].body) :
            nodes'[id] # Absent /\ (Unshared(f) => nodes'[id] = disk'[f].body)
      BY <1>2, <2>2, <3>1, <3>2
    <3>5. ChildIds(f, disk'[f].body) \subseteq partOf' BY <1>2, <3>1, <3>3
    <3> QED BY <3>4, <3>5 DEF Indexed, Unshared
  <2>3. ASSUME ~s.detached, NEW f \in Parsed, s.found[f] # Absent PROVE SeenTo(scan[p], f)'
    <3>1. SeenTo(s, f) /\ f \in Files BY <1>1, <1>6, <2>3, ConstantsAssumption DEF Fine, Diligent
    <3>2. CASE f = s.file
      <4>1. t.report[f] = "indexed" BY <1>3, <1>4, <3>2
      <4>2. s.found[f] = disk[f] => Indexed(f)' BY <2>2, <2>3, <3>1, <3>2
      <4>3. /\ scan'[p].report[f] = "indexed" /\ scan'[p].found[f] = s.found[f]
            /\ disk' = disk
        BY <1>2, <1>4, <1>5, <4>1
      <4> QED BY <4>2, <4>3 DEF SeenTo
    <3>3. CASE f # s.file BY <1>2, <1>3, <1>4, <1>5, <1>7, <3>1, <3>3 DEF SeenTo
    <3> QED BY <3>2, <3>3
  <2>4. ~s.detached => \A f \in Files : t.report[f] = "indexed" => t.found[f] # Absent
    BY <1>1, <1>3, <1>4, <1>6 DEF Fine, Diligent
  <2>5. scan'[p].at = "index" /\ scan'[p].base = registry' /\ scan'[p].detached = s.detached
    BY <1>2, <1>4, <1>5, <2>1
  <2>6. scan'[p].report = t.report /\ scan'[p].found = s.found /\ t.found = s.found BY <1>4, <1>5
  <2> QED BY <2>3, <2>4, <2>5, <2>6 DEF Diligent
<1>11. Fine(scan[p])' BY <1>4, <1>5, <1>9, <1>10 DEF Fine, Carried
<1> QED BY <1>2, <1>4, <1>5, <1>6, <1>8, <1>11, SkipMoved

LEMMA RegisterSkip ==
  ASSUME HeldInv, QuietInv, SkipInv, NEW p \in Scanners, Register(p)
  PROVE  SkipInv'
<1> DEFINE s == scan[p]
           with(outcome) == {f \in Files : s.report[f] = outcome}
<1>1. /\ scan \in [Scanners -> Scans] /\ s \in Scans /\ Fine(s) /\ SkippedIsIndexed
  BY DEF HeldInv, TypeOK, SkipInv
<1>2. /\ s.at = "index" /\ s.todo = {} /\ registry' = Applied(s)
      /\ tainted' = IF s.solo /\ ~s.detached
                      THEN (tainted \union with("failed")) \ with("indexed") ELSE Files
      /\ UNCHANGED <<disk, edits, nodes, partOf>>
  BY DEF Register
<1>3. scan'[p].at = "report" /\ scan'[p].found = s.found /\ scan'[p].base = s.base
  BY <1>1 DEF Register, Scans
<1>4. \A q \in Scanners : q # p => scan'[q] = scan[q] BY <1>1 DEF Register
<1>5. Running(scan[p]) /\ Before(s) /\ s.at # "classify" BY <1>2 DEF Running, Before
<1>6. SkippedIsIndexed'
  <2>1. CASE ~(s.solo /\ ~s.detached)
    BY <1>2, <2>1, ConstantsAssumption DEF SkippedIsIndexed
  <2>2. CASE s.solo /\ ~s.detached
    <3> SUFFICES ASSUME NEW f \in Parsed, f \notin tainted', registry'[f] # Absent, registry'[f] = disk[f]
                 PROVE  Indexed(f)'
      BY <1>2 DEF SkippedIsIndexed
    <3>1. f \in Files /\ (Indexed(f) => Indexed(f)') BY <1>2, ConstantsAssumption DEF Indexed
    <3>2. f \notin tainted \/ s.report[f] = "indexed" BY <1>2, <2>2, <3>1
    <3>3. s.report[f] # "failed" BY <1>2, <2>2, <3>1
    <3>4. s.base = registry /\ (s.report[f] = "indexed" => s.found[f] # Absent)
      BY <1>1, <1>5, <2>2, <3>1 DEF Fine, Diligent
    <3>5. CASE s.found[f] # Absent
      <4>1. SeenTo(s, f) BY <1>1, <1>5, <2>2, <3>5 DEF Fine, Diligent
      <4>2. s.found[f] = disk[f] BY <1>2, <3>1, <3>5 DEF Applied
      <4>3. CASE s.report[f] = "indexed" BY <1>2, <3>1, <4>1, <4>2, <4>3 DEF SeenTo
      <4>4. CASE s.report[f] # "indexed"
        BY <1>1, <1>2, <3>1, <3>2, <3>3, <3>5, <4>1, <4>2, <4>4 DEF SeenTo, SkippedIsIndexed
      <4> QED BY <4>3, <4>4
    <3>6. CASE s.found[f] = Absent
      <4>1. registry'[f] = registry[f] BY <1>2, <3>1, <3>4, <3>6 DEF Applied
      <4> QED BY <1>1, <3>1, <3>2, <3>4, <3>6, <4>1 DEF SkippedIsIndexed
    <3> QED BY <3>5, <3>6
  <2> QED BY <2>1, <2>2
<1>7. Fine(scan[p])' BY <1>3, FineOver DEF Before
<1>8. \A f \in Files : registry'[f] \in {registry[f], s.found[f], s.base[f], Absent}
  BY <1>2 DEF Applied
<1>9. tainted' = Files \/ s.solo BY <1>2
<1> QED BY <1>2, <1>3, <1>4, <1>5, <1>6, <1>7, <1>8, <1>9, SkipMoved

LEMMA ReportSkip ==
  ASSUME HeldInv, QuietInv, SkipInv, NEW p \in Scanners, Report(p)
  PROVE  SkipInv'
<1>1. scan \in [Scanners -> Scans] /\ scan[p] \in Scans BY DEF HeldInv, TypeOK
<1>2. /\ scan[p].at = "report" /\ UNCHANGED <<disk, edits, registry, nodes, partOf, tainted>>
      /\ scan'[p].at = "finished" /\ scan'[p].found = scan[p].found /\ scan'[p].base = scan[p].base
      /\ \A q \in Scanners : q # p => scan'[q] = scan[q]
  BY <1>1 DEF Report, Scans
<1>3. Running(scan[p]) BY <1>2 DEF Running
<1>4. Fine(scan[p])' BY <1>2, FineOver DEF Before
<1>5. SkippedIsIndexed' BY <1>2, SkippedSame DEF SkipInv
<1> QED BY <1>2, <1>3, <1>4, <1>5, SkipMoved

\* Failures and the manager's steps leave every scan in order.
LEMMA OtherSkip ==
  ASSUME HeldInv, SkipInv, OtherStep, UNCHANGED <<disk, edits, registry, nodes, partOf, tainted>>,
         \A f \in Files : ~Edit(f)
  PROVE  SkipInv'
<1> DEFINE Kept(q) == Fine(scan[q])' /\ \A f \in Files : /\ scan'[q].found[f] \in {scan[q].found[f], Absent}
                                                         /\ scan'[q].base[f] \in {scan[q].base[f], Absent}
           failed == [IdleScan EXCEPT !.at = "finished", !.failed = TRUE]
<1>1. /\ scan \in [Scanners -> Scans] /\ \A q \in Scanners : scan[q] \in Held /\ scan[q] \in Scans
      /\ \A q \in Scanners : Fine(scan[q])
      /\ Jobs \subseteq Scanners /\ Cli \subseteq Scanners
  BY DEF HeldInv, TypeOK, SkipInv, Scanners
<1>2. /\ Disturbed \in [Scanners -> Scans]
      /\ \A q \in Scanners : Disturbed[q] \in {scan[q], [scan[q] EXCEPT !.quiet = FALSE]}
  <2>1. \A r \in Scans : [r EXCEPT !.quiet = FALSE] \in Scans BY DEF Scans
  <2> QED BY <1>1, <2>1 DEF Disturbed
<1>3. ASSUME NEW q \in Scanners
      PROVE  LET d == Disturbed[q]
             IN  /\ d \in Scans /\ d.at = scan[q].at /\ d.base = scan[q].base /\ d.found = scan[q].found
                 /\ d.todo = scan[q].todo /\ d.report = scan[q].report /\ d.file = scan[q].file
                 /\ d.body = scan[q].body /\ d.detached = scan[q].detached /\ d.solo = scan[q].solo
  <2>1. CASE Disturbed[q] = scan[q] BY <1>1, <2>1
  <2>2. CASE Disturbed[q] = [scan[q] EXCEPT !.quiet = FALSE] BY <1>1, <2>2 DEF Scans
  <2> QED BY <1>2, <2>1, <2>2
<1>4. ASSUME NEW q \in Scanners, scan'[q] \in {scan[q], Disturbed[q]} PROVE Kept(q)
  <2>1. /\ scan'[q].at = scan[q].at /\ scan'[q].base = scan[q].base /\ scan'[q].found = scan[q].found
        /\ scan'[q].todo = scan[q].todo /\ scan'[q].report = scan[q].report
        /\ scan'[q].file = scan[q].file /\ scan'[q].body = scan[q].body
        /\ scan'[q].detached = scan[q].detached /\ scan'[q].solo = scan[q].solo
    BY <1>4, <1>3
  <2> QED BY <1>1, <2>1, FineSame
<1>5. ASSUME NEW q \in Scanners, scan'[q] \in {IdleScan, Exited, failed} PROVE Kept(q)
  <2>1. /\ IdleScan.at = "idle" /\ Exited.at = "exited" /\ failed.at = "finished"
        /\ Exited.found = IdleScan.found /\ Exited.base = IdleScan.base
        /\ failed.found = IdleScan.found /\ failed.base = IdleScan.base
        /\ \A f \in Files : IdleScan.found[f] = Absent /\ IdleScan.base[f] = Absent
    BY DEF IdleScan, Exited
  <2> HIDE DEF failed
  <2>2. /\ scan'[q].at \in {"idle", "exited", "finished"}
        /\ \A f \in Files : scan'[q].found[f] = Absent /\ scan'[q].base[f] = Absent
    BY <1>5, <2>1
  <2> QED BY <2>2, FineOver DEF Before
<1>6. ASSUME NEW j \in Jobs, Start(j) \/ Finish(j)
      PROVE  \A q \in Scanners : scan'[q] = scan[q] \/ scan'[q] = IdleScan
  BY <1>1, <1>6 DEF Start, Finish
<1>7. ASSUME NEW p \in Cli, Exit(p) \/ CliCrashes(p)
      PROVE  \A q \in Scanners : scan'[q] \in {scan[q], Disturbed[q], Exited}
  BY <1>1, <1>2, <1>7 DEF Exit, CliCrashes
<1>8. ASSUME NEW p \in Scanners, ScanFails(p)
      PROVE  \A q \in Scanners : scan'[q] \in {Disturbed[q], failed}
  BY <1>1, <1>2, <1>8 DEF ScanFails
<1>9. ASSUME NEW p \in Scanners, FileFails(p)
      PROVE  \A q \in Scanners : Kept(q)
  <2>1. PICK f \in Files : scan' = [Disturbed EXCEPT ![p] = Noted(@, f, "failed")]
    BY <1>1, <1>9 DEF FileFails, Scans
  <2>2. scan[p].at \in {"index", "parsed", "noded"} BY <1>9 DEF FileFails
  <2> DEFINE s == Disturbed[p]
             t == Noted(s, f, "failed")
  <2>3. /\ s \in Scans /\ s.base = scan[p].base /\ s.found = scan[p].found /\ s.todo = scan[p].todo
        /\ s.report = scan[p].report /\ s.detached = scan[p].detached /\ s.solo = scan[p].solo
    BY <1>3
  <2>4. scan'[p] = t /\ \A q \in Scanners : q # p => scan'[q] = Disturbed[q] BY <1>2, <2>1
  <2> HIDE DEF s
  <2>5. /\ t.at = "index" /\ t.base = s.base /\ t.found = s.found /\ t.todo = s.todo \ {f}
        /\ t.detached = s.detached /\ t.solo = s.solo /\ t.report = [s.report EXCEPT ![f] = "failed"]
    BY <2>3 DEF Noted, Scans
  <2> HIDE DEF t
  <2>6. Kept(p) BY <1>1, <2>2, <2>3, <2>4, <2>5, FineFailed
  <2> QED BY <1>4, <2>4, <2>6
<1>10. ASSUME NEW p \in Scanners, NEW f \in Files, ClassifyUnreadable(p, f)
      PROVE  \A q \in Scanners : Kept(q)
  <2> DEFINE s == Disturbed[p]
             t == [s EXCEPT !.todo = @ \ {f}]
  <2>1. scan' = [Disturbed EXCEPT ![p] = t] /\ scan[p].at = "classify"
    BY <1>1, <1>2, <1>10 DEF ClassifyUnreadable
  <2>2. /\ s \in Scans /\ s.at = scan[p].at /\ s.base = scan[p].base /\ s.found = scan[p].found
        /\ s.solo = scan[p].solo
    BY <1>3
  <2>3. scan'[p] = t /\ \A q \in Scanners : q # p => scan'[q] = Disturbed[q] BY <1>2, <2>1
  <2> HIDE DEF s
  <2>4. t.at = s.at /\ t.base = s.base /\ t.found = s.found /\ t.solo = s.solo
    BY <2>2 DEF Scans
  <2> HIDE DEF t
  <2>5. Kept(p) BY <1>1, <2>1, <2>2, <2>3, <2>4 DEF Fine, Carried, Informed, Diligent, Before
  <2> QED BY <1>4, <2>3, <2>5
<1>11. ASSUME ServerCrashes
       PROVE  \A q \in Scanners : scan'[q] \in {Disturbed[q], IdleScan}
  BY <1>2, <1>11 DEF ServerCrashes
<1>12. \A q \in Scanners : Kept(q)
  <2> HIDE DEF Kept, failed
  <2> QED BY <1>4, <1>5, <1>6, <1>7, <1>8, <1>9, <1>10, <1>11 DEF OtherStep
<1>13. Clock' BY <1>12 DEF SkipInv, Clock, Past
<1>14. SkippedIsIndexed' BY SkippedSame DEF SkipInv
<1> QED BY <1>12, <1>13, <1>14 DEF SkipInv

\* A new version is no version that was seen.
LEMMA EditSkip ==
  ASSUME HeldInv, SkipInv, NEW f \in Files, Edit(f)
  PROVE  SkipInv'
<1>1. /\ scan \in [Scanners -> Scans] /\ \A q \in Scanners : scan[q] \in Scans /\ scan[q] \in Held
      /\ \A q \in Scanners : Fine(scan[q]) /\ scan[q].file \in Files \union {Absent}
      /\ disk \in [Files -> Versions \union {Absent}] /\ edits \in Nat
      /\ registry \in [Files -> Versions \union {Absent}]
      /\ Clock /\ SkippedIsIndexed
  BY ConstantsAssumption DEF HeldInv, TypeOK, SkipInv, Scans
<1>2. /\ edits' = edits + 1 /\ scan' = Disturbed
      /\ UNCHANGED <<registry, nodes, partOf, tainted>>
  BY DEF Edit
<1>3. PICK v \in [body : Bodies, mtime : {edits + 1}] \union {Absent} : disk' = [disk EXCEPT ![f] = v]
  BY DEF Edit
<1>4. /\ v # Absent => v.mtime = edits + 1
      /\ disk'[f] = v /\ \A g \in Files : g # f => disk'[g] = disk[g]
  BY <1>1, <1>3
<1>5. \A g \in Files : registry[g] # Absent /\ registry[g] = disk'[g] => disk'[g] = disk[g]
  <2>1. registry[f] # Absent => registry[f] # v BY <1>1, <1>4 DEF Clock, Past, Versions
  <2> QED BY <1>4, <2>1
<1>6. ASSUME NEW q \in Scanners, NEW g \in Files, scan[q].found[g] # Absent, scan[q].found[g] = disk'[g]
      PROVE  disk'[g] = disk[g]
  <2>1. scan[q].found[f] # Absent => scan[q].found[f] # v
    BY <1>1, <1>4 DEF Clock, Past, Versions, Scans
  <2> QED BY <1>4, <1>6, <2>1
<1>7. ASSUME NEW g \in Files, disk'[g] = disk[g], Indexed(g) PROVE Indexed(g)'
  BY <1>2, <1>7 DEF Indexed
<1>8. Clock'
  <2>1. \A q \in Scanners : scan'[q].found = scan[q].found /\ scan'[q].base = scan[q].base
    BY <1>1, <1>2 DEF Disturbed, Scans
  <2>2. \A w : Past(w) /\ (w # Absent => w \in Versions) => Past(w)'
    BY <1>1, <1>2, ConstantsAssumption DEF Past, Versions
  <2>3. \A g \in Files : /\ Past(disk[g])' /\ Past(registry[g])'
    <3>1. Past(v)' BY <1>1, <1>2, <1>4 DEF Past
    <3>2. \A g \in Files : Past(registry[g])' BY <1>1, <1>2, <2>2 DEF Clock, Past, Versions
    <3>3. \A g \in Files : g # f => Past(disk[g])' BY <1>1, <1>2, <1>4 DEF Clock, Past, Versions
    <3>4. Past(disk[f])' BY <1>1, <1>2, <1>4 DEF Past
    <3> QED BY <3>2, <3>3, <3>4
  <2>4. ASSUME NEW q \in Scanners, NEW g \in Files PROVE Past(scan[q].found[g])' /\ Past(scan[q].base[g])'
    BY <1>1, <1>2, <2>1 DEF Clock, Past, Versions, Scans
  <2> QED BY <2>3, <2>4 DEF Clock
<1>9. SkippedIsIndexed'
  BY <1>1, <1>2, <1>5, <1>7, ConstantsAssumption DEF SkippedIsIndexed
<1>10. ASSUME NEW q \in Scanners PROVE Fine(scan[q])'
  <2> DEFINE s == scan[q]
             t == scan'[q]
  <2>1. /\ t.at = s.at /\ t.base = s.base /\ t.found = s.found /\ t.todo = s.todo /\ t.report = s.report
        /\ t.file = s.file /\ t.body = s.body /\ t.detached = s.detached /\ t.solo = s.solo
    BY <1>1, <1>2 DEF Disturbed, Scans
  <2>2. Carried(scan[q])'
    BY <1>1, <1>6, <2>1 DEF Fine, Carried, Held
  <2>3. Informed(scan[q])'
    BY <1>1, <1>2, <1>5, <2>1 DEF Fine, Informed, Before
  <2>4. ASSUME NEW g \in Parsed, s.found[g] # Absent, SeenTo(s, g) PROVE SeenTo(scan[q], g)'
    <3>1. g \in Files BY ConstantsAssumption
    <3>2. s.found[g] = disk'[g] => disk'[g] = disk[g] BY <1>6, <2>4, <3>1
    <3> QED BY <1>2, <1>7, <2>1, <2>4, <3>1, <3>2 DEF SeenTo
  <2>5. Diligent(scan[q])'
    <3> SUFFICES ASSUME Before(s), s.solo PROVE Diligent(scan[q])'
      BY <2>1 DEF Diligent, Before
    <3>1. Diligent(s) BY <1>1 DEF Fine
    <3>2. s.base = registry BY <3>1 DEF Diligent
    <3>3. s.at # "classify" /\ ~s.detached =>
            /\ \A g \in Files : s.report[g] = "indexed" => s.found[g] # Absent
            /\ \A g \in Parsed : s.found[g] # Absent => SeenTo(scan[q], g)'
      BY <2>4, <3>1 DEF Diligent
    <3>4. s.at = "noded" /\ ~s.detached =>
            \A id \in IdsOf(s.file, s.body) :
              nodes[id] # Absent /\ (Unshared(s.file) => nodes[id] = s.found[s.file].body)
      BY <3>1 DEF Diligent
    <3> QED BY <1>2, <2>1, <3>2, <3>3, <3>4 DEF Diligent
  <2> QED BY <2>2, <2>3, <2>5 DEF Fine
<1> QED BY <1>8, <1>9, <1>10 DEF SkipInv

\* A rebuild taints every file.
LEMMA RebuildSkip ==
  ASSUME HeldInv, SkipInv, RebuildFull
  PROVE  SkipInv'
<1>1. /\ scan \in [Scanners -> Scans] /\ \A q \in Scanners : scan[q] \in Scans /\ Fine(scan[q])
      /\ Clock
  BY DEF HeldInv, TypeOK, SkipInv
<1>2. tainted' = Files /\ UNCHANGED <<disk, edits, registry>> BY DEF RebuildFull
<1>3. ASSUME NEW q \in Scanners
      PROVE  /\ scan'[q].at = scan[q].at /\ scan'[q].base = scan[q].base /\ scan'[q].found = scan[q].found
             /\ scan'[q].todo = scan[q].todo /\ scan'[q].file = scan[q].file /\ scan'[q].body = scan[q].body
             /\ scan'[q].solo = scan[q].solo
             /\ Before(scan[q]) /\ scan[q].at # "classify" => scan'[q].detached = TRUE
  <2> DEFINE s == Disturbed[q]
  <2>1. /\ s \in Scans /\ s.at = scan[q].at /\ s.base = scan[q].base /\ s.found = scan[q].found
        /\ s.todo = scan[q].todo /\ s.file = scan[q].file /\ s.body = scan[q].body /\ s.solo = scan[q].solo
    BY <1>1 DEF Disturbed, Scans
  <2>2. scan'[q] = IF Busy(q) /\ scan[q].at # "classify" THEN [s EXCEPT !.detached = TRUE] ELSE s
    BY DEF RebuildFull
  <2> HIDE DEF s
  <2>3. Before(scan[q]) => Busy(q) BY DEF Before, Busy
  <2> QED BY <2>1, <2>2, <2>3 DEF Scans
<1>4. Clock' BY <1>1, <1>2, <1>3 DEF Clock, Past
<1>5. SkippedIsIndexed' BY <1>2, ConstantsAssumption DEF SkippedIsIndexed
<1>6. ASSUME NEW q \in Scanners PROVE Fine(scan[q])'
  <2>1. Carried(scan[q])'
    <3>1. Carried(scan[q]) BY <1>1 DEF Fine
    <3>2. /\ scan'[q].at = scan[q].at /\ scan'[q].found = scan[q].found /\ scan'[q].todo = scan[q].todo
          /\ scan'[q].file = scan[q].file /\ scan'[q].body = scan[q].body /\ disk' = disk
      BY <1>2, <1>3
    <3> QED BY <3>1, <3>2 DEF Carried
  <2>2. Informed(scan[q])' BY <1>2 DEF Informed
  <2>3. Diligent(scan[q])' BY <1>1, <1>2, <1>3 DEF Fine, Diligent, Before
  <2> QED BY <2>1, <2>2, <2>3 DEF Fine
<1> QED BY <1>4, <1>5, <1>6 DEF SkipInv

LEMMA SkipInductive == HeldInv /\ QuietInv /\ SkipInv /\ [Next]_vars => SkipInv'
<1> SUFFICES ASSUME HeldInv, QuietInv, SkipInv, [Next]_vars PROVE SkipInv'
  OBVIOUS
<1>1. CASE UNCHANGED vars
  <2>1. UNCHANGED <<disk, edits, registry, nodes, partOf, tainted, scan>> BY <1>1 DEF vars
  <2>2. \A q \in Scanners : Fine(scan[q])' BY <2>1, FineSame DEF SkipInv
  <2>3. Clock' BY <2>1 DEF SkipInv, Clock, Past
  <2>4. SkippedIsIndexed' BY <2>1, SkippedSame DEF SkipInv
  <2> QED BY <2>2, <2>3, <2>4 DEF SkipInv
<1>2. CASE OtherStep
  <2>1. CASE \E f \in Files : Edit(f) BY <2>1, EditSkip
  <2>2. CASE \A f \in Files : ~Edit(f)
    <3>1. UNCHANGED <<disk, edits, registry, nodes, partOf, tainted>>
      BY <1>2, <2>2 DEF OtherStep, Start, Finish, Exit, CliCrashes, FileFails, ScanFails,
                        ClassifyUnreadable, ServerCrashes
    <3> QED BY <1>2, <2>2, <3>1, OtherSkip
  <2> QED BY <2>1, <2>2
<1>3. ASSUME NEW p \in Scanners, ScanStep(p) PROVE SkipInv'
  BY <1>3, BeginSkip, ClassifySkip, PlanSkip, ParseSkip, UpsertNodesSkip, UpsertEdgesSkip,
     RegisterSkip, ReportSkip DEF ScanStep
<1> QED BY <1>1, <1>2, <1>3, NextKinds, RebuildSkip

LEMMA InitSkip == Init => SkipInv
<1> SUFFICES ASSUME Init PROVE SkipInv
  OBVIOUS
<1>1. /\ \A p \in Scanners : scan[p] = IdleScan
      /\ \A f \in Files : registry[f] = Absent
      /\ \A f \in Files : disk[f] # Absent => disk[f].mtime = 0
      /\ edits = 0
  BY DEF Init
<1>2. /\ IdleScan.at = "idle"
      /\ \A f \in Files : IdleScan.found[f] = Absent /\ IdleScan.base[f] = Absent
  BY DEF IdleScan
<1>3. Clock BY <1>1, <1>2 DEF Clock, Past
<1>4. SkippedIsIndexed BY <1>1, ConstantsAssumption DEF SkippedIsIndexed
<1>5. \A p \in Scanners : Fine(scan[p])
  BY <1>1, <1>2 DEF Fine, Carried, Informed, Diligent, Before
<1> QED BY <1>3, <1>4, <1>5 DEF SkipInv

LEMMA SkipInvariant == Spec => []SkipInv
BY InitSkip, HeldInvariant, QuietInvariant, SkipInductive, PTL DEF Spec

-----------------------------------------------------------------------------
(***************************************************************************)
(* The tables, the registry of hashes, the scans and the jobs always have  *)
(* their types: what a scan stores of a file was parsed of that very file, *)
(* whatever was edited, failed or died meanwhile.                          *)
(***************************************************************************)
THEOREM TypeCorrect == Spec => []TypeOK
<1>1. HeldInv => TypeOK BY DEF HeldInv
<1> QED BY <1>1, HeldInvariant, PTL

(***************************************************************************)
(* However many scans run beside one another, and whatever fails: a        *)
(* part_of edge never points from or to a node that is not stored.  A scan *)
(* stores the nodes before the edges, nothing but a full rebuild removes   *)
(* a node, and a rebuild takes the edges with it and the database from     *)
(* under the scans that are between the two.                               *)
(***************************************************************************)
THEOREM EdgesHaveNodes == Spec => []CodeEdgesAnchored
<1>1. AnchorInv => CodeEdgesAnchored BY DEF AnchorInv
<1> QED BY <1>1, AnchorInvariant, PTL

(***************************************************************************)
(* Any scan that nothing disturbed and that ran alone ends with a registry *)
(* equal to the disk, files that were deleted included, whatever earlier   *)
(* scans left in the registry when they failed, overlapped or died.        *)
(***************************************************************************)
THEOREM ScansCatchUp == Spec => []ScanCatchesUp
<1>1. QuietInv => ScanCatchesUp
  BY DEF QuietInv, Current, ScanCatchesUp, Running
<1> QED BY <1>1, QuietInvariant, PTL

(***************************************************************************)
(* A file that the next scan will skip as unchanged is in the graph, for   *)
(* any files, contents and scans: an edit between hashing and parsing, a   *)
(* crash between the graph and the registry, and a file that could not be  *)
(* read never leave a recorded version whose nodes or edges are missing,   *)
(* or describe another content.                                            *)
(***************************************************************************)
THEOREM SkippedFilesIndexed == Spec => []SkippedIsIndexed
<1>1. SkipInv => SkippedIsIndexed BY DEF SkipInv
<1> QED BY <1>1, SkipInvariant, PTL

=============================================================================
