----------------------------- MODULE KGIngestProofs -----------------------------
(***************************************************************************)
(* What holds of ingestion for any documents and conversations, any number *)
(* of processes beside one another, any days, and any faults.              *)
(***************************************************************************)
EXTENDS KGIngest, FiniteSetTheorems, SequenceTheorems, TLAPS

-----------------------------------------------------------------------------
(***************************************************************************)
(* What each process holds, and what a whole line of work relies on.       *)
(***************************************************************************)

AddSteps == {"check", "get", "write", "writing", "again", "append"}

\* Each process is at a step of its own command and holds a source or file of the
\* kind that command works on; a hook at work holds the lock.
Adder(a) ==
  /\ proc[a].at \in AddSteps \union {"idle"}
  /\ proc[a].at # "idle" => proc[a].source \in Documents

Hook(h) ==
  /\ proc[h].at \in AddSteps \union {"idle", "records", "commit"}
  /\ proc[h].at # "idle" => proc[h].source \in Renderings /\ lock = h

Saver(s) ==
  /\ proc[s].at \in {"idle", "find", "load", "truncate", "rewrite"}
  /\ proc[s].at # "idle" => proc[s].file \in Files

\* The file that is being added is one of the source.
FileAtHand(p) ==
  proc[p].at \in {"writing", "again", "append", "commit"} =>
    proc[p].file \in Files /\ proc[p].file[1] = proc[p].source

RolesInv ==
  /\ TypeOK
  /\ \A a \in Adders : Adder(a)
  /\ \A h \in Hooks : Hook(h)
  /\ \A s \in Savers : Saver(s)
  /\ \A p \in Processes : FileAtHand(p) /\ Len(proc[p].lines) <= MaxLines

\* The files and the marked sources of some lines.
FilesOf(lines) == {lines[i].file : i \in DOMAIN lines}
MarksOf(lines) == {SourceOf(lines[i]) : i \in {j \in DOMAIN lines : lines[j].extracted}}

\* What a saver has in memory is what the registry will be.
Carries(s) ==
  /\ proc[s].at \in {"load", "truncate", "rewrite"} => proc[s].file \in known
  /\ proc[s].at = "truncate" => proc[s].lines = Marked(registry, proc[s].file[1])
  /\ proc[s].at = "rewrite" =>
       /\ FilesOf(proc[s].lines) = known
       /\ MarksOf(proc[s].lines) = marked \union {proc[s].file[1]}
       /\ \A t \in Savers \ {s} : proc[t].at \notin {"truncate", "rewrite"}

NoneRewriting == \A s \in Savers : proc[s].at # "rewrite"

RegistryInv ==
  ~disturbed =>
    /\ NoneRewriting => FilesOf(registry) = known /\ MarksOf(registry) = marked
    /\ \A s \in Savers : Carries(s)

\* One line for each rendering of a conversation.
Once(lines) ==
  \A i, j \in DOMAIN lines :
    SourceOf(lines[i]) = SourceOf(lines[j]) /\ SourceOf(lines[i]) \in Renderings => i = j

CommittedRecords == {r \in log : r.status = "committed"}
Registered(source) == \E f \in known : f[1] = source

\* A hook past the log works on a conversation that is not committed; one that found its
\* rendering unregistered knows it is; and what it wrote is whole.
AtWork(hook) ==
  /\ hook.at \notin {"idle", "records"} => ~Committed(IdentityOf(hook.source))
  /\ hook.at \in {"again", "append"} => raw[hook.file] = "whole"
  /\ ~disturbed =>
       /\ hook.at \in {"write", "writing", "again", "append"} => ~Registered(hook.source)
       /\ hook.at = "commit" => hook.file \in known /\ raw[hook.file] = "whole"

\* A conversation that was committed is committed once, and as long as no rewrite was
\* disturbed, is registered and has its whole file.
RecordsInv ==
  /\ \A c \in answered : Committed(c)
  /\ \A r \in CommittedRecords :
       /\ r.identity \in Conversations /\ r.file \in Files
       /\ r.file[1] \in Renderings /\ IdentityOf(r.file[1]) = r.identity
       /\ ~disturbed => r.file \in known /\ raw[r.file] = "whole"
  /\ \A r, q \in CommittedRecords : r.identity = q.identity => r = q

\* The registry, or what will replace it, has each rendering once.
LinesInv ==
  ~disturbed =>
    /\ \A f \in known : f[1] \in Renderings => raw[f] = "whole"
    /\ FilesOf(registry) \subseteq known
    /\ Once(registry)
    /\ \A s \in Savers : proc[s].at = "rewrite" => Once(proc[s].lines)

\* A rendering that was ever registered was committed, is about to be, or was orphaned.
Owned(f) ==
  \/ f \in orphaned
  \/ \E r \in CommittedRecords : r.file = f
  \/ \E h \in Hooks : proc[h].at = "commit" /\ proc[h].file = f
OwnersInv == \A f \in known : f[1] \in Renderings => Owned(f)

ConversationsInv ==
  /\ \A h \in Hooks : AtWork(proc[h])
  /\ RecordsInv
  /\ LinesInv

\* Something that was extracted from the source is in the graph.
Saved(source) == \E k \in Chunks : <<source, k>> \in saved
MarksSaved(lines) == \A i \in DOMAIN lines : lines[i].extracted => Saved(SourceOf(lines[i]))

SavedInv ==
  /\ MarksSaved(registry)
  /\ \A s \in Savers :
       /\ proc[s].at # "idle" => Saved(proc[s].file[1])
       /\ proc[s].at \in {"truncate", "rewrite"} => MarksSaved(proc[s].lines)

-----------------------------------------------------------------------------
(***************************************************************************)
(* Lines of the registry.                                                  *)
(***************************************************************************)

LEMMA LineTyped ==
  ASSUME NEW lines \in Seq(Lines), NEW i \in DOMAIN lines
  PROVE  /\ lines[i] \in Lines /\ lines[i].file \in Files /\ SourceOf(lines[i]) \in Sources
         /\ lines[i].extracted \in BOOLEAN
<1>1. DOMAIN lines = 1..Len(lines) BY LenProperties
<1>2. lines[i] \in Lines BY <1>1, ElementOfSeq
<1> QED BY <1>2 DEF Lines, SourceOf, Files

\* Marking a source keeps the files, and marks that source alone.
LEMMA MarkedLines ==
  ASSUME NEW lines \in Seq(Lines), NEW source
  PROVE  LET new == Marked(lines, source) IN
         /\ new \in Seq(Lines) /\ Len(new) = Len(lines) /\ DOMAIN new = DOMAIN lines
         /\ \A i \in DOMAIN lines :
              /\ new[i].file = lines[i].file /\ SourceOf(new[i]) = SourceOf(lines[i])
              /\ new[i].extracted <=> (lines[i].extracted \/ SourceOf(lines[i]) = source)
<1> DEFINE new == Marked(lines, source)
<1>1. /\ DOMAIN lines = 1..Len(lines) /\ Len(lines) \in Nat
  BY LenProperties
<1>2. \A i \in 1..Len(lines) : new[i] \in Lines
  BY <1>1, LineTyped DEF Marked, Lines
<1>3. new = [i \in 1..Len(lines) |-> new[i]]
  BY <1>1 DEF Marked
<1>4. new \in Seq(Lines)
  BY <1>1, <1>2, <1>3, IsASeq
<1>5. DOMAIN new = 1..Len(lines)
  BY <1>3
<1>6. Len(new) = Len(lines)
  BY <1>1, <1>4, <1>5, LenProperties
<1>7. ASSUME NEW i \in DOMAIN lines
      PROVE  /\ new[i].file = lines[i].file /\ SourceOf(new[i]) = SourceOf(lines[i])
             /\ new[i].extracted <=> (lines[i].extracted \/ SourceOf(lines[i]) = source)
  BY <1>1, LineTyped DEF Marked, Lines, SourceOf
<1> QED BY <1>1, <1>4, <1>5, <1>6, <1>7

LEMMA MarkedFiles ==
  ASSUME NEW lines \in Seq(Lines), NEW source
  PROVE  FilesOf(Marked(lines, source)) = FilesOf(lines)
<1> DEFINE new == Marked(lines, source)
<1>1. DOMAIN new = DOMAIN lines /\ \A i \in DOMAIN lines : new[i].file = lines[i].file
  BY MarkedLines
<1> HIDE DEF new
<1>2. FilesOf(new) = FilesOf(lines) BY <1>1 DEF FilesOf
<1> QED BY <1>2 DEF new

LEMMA MarkedMarks ==
  ASSUME NEW lines \in Seq(Lines), NEW source, \E f \in FilesOf(lines) : f[1] = source
  PROVE  MarksOf(Marked(lines, source)) = MarksOf(lines) \union {source}
<1> DEFINE new == Marked(lines, source)
<1>1. /\ DOMAIN new = DOMAIN lines
      /\ \A i \in DOMAIN lines :
           /\ SourceOf(new[i]) = SourceOf(lines[i])
           /\ new[i].extracted <=> (lines[i].extracted \/ SourceOf(lines[i]) = source)
  BY MarkedLines
<1> HIDE DEF new
<1>2. MarksOf(new) \subseteq MarksOf(lines) \union {source}
  BY <1>1 DEF MarksOf
<1>3. MarksOf(lines) \subseteq MarksOf(new)
  BY <1>1 DEF MarksOf
<1>4. source \in MarksOf(new)
  <2>1. PICK i \in DOMAIN lines : SourceOf(lines[i]) = source
    BY DEF FilesOf, SourceOf
  <2>2. i \in DOMAIN new /\ new[i].extracted /\ SourceOf(new[i]) = source
    BY <1>1, <2>1
  <2> QED BY <2>2 DEF MarksOf
<1>5. MarksOf(new) = MarksOf(lines) \union {source}
  BY <1>2, <1>3, <1>4
<1> QED BY <1>5 DEF new

LEMMA MarkedOnce ==
  ASSUME NEW lines \in Seq(Lines), NEW source, Once(lines)
  PROVE  Once(Marked(lines, source))
BY MarkedLines DEF Once

\* A line that was appended is unmarked.
LEMMA AppendedLine ==
  ASSUME NEW lines \in Seq(Lines), NEW f \in Files
  PROVE  LET new == Append(lines, [file |-> f, extracted |-> FALSE]) IN
         /\ new \in Seq(Lines) /\ Len(new) = Len(lines) + 1
         /\ DOMAIN new = DOMAIN lines \union {Len(lines) + 1} /\ Len(lines) + 1 \notin DOMAIN lines
         /\ \A i \in DOMAIN lines : new[i] = lines[i]
         /\ new[Len(lines) + 1] = [file |-> f, extracted |-> FALSE]
         /\ FilesOf(new) = FilesOf(lines) \union {f}
         /\ MarksOf(new) = MarksOf(lines)
<1> DEFINE line == [file |-> f, extracted |-> FALSE]
           new == Append(lines, line)
<1>1. line \in Lines BY DEF Lines
<1>2. /\ new \in Seq(Lines) /\ Len(new) = Len(lines) + 1 /\ new[Len(lines) + 1] = line
      /\ \A i \in 1..Len(lines) : new[i] = lines[i]
  BY <1>1, AppendProperties
<1>3. /\ DOMAIN lines = 1..Len(lines) /\ DOMAIN new = 1..Len(new) /\ Len(lines) \in Nat
  BY <1>2, LenProperties
<1>4. DOMAIN new = DOMAIN lines \union {Len(lines) + 1} /\ Len(lines) + 1 \notin DOMAIN lines
  BY <1>2, <1>3
<1>5. \A i \in DOMAIN lines : new[i] = lines[i] BY <1>2, <1>3
<1>6. FilesOf(new) = FilesOf(lines) \union {f}
  <2> HIDE DEF new
  <2>1. new[Len(lines) + 1].file = f BY <1>2
  <2> QED BY <1>4, <1>5, <2>1 DEF FilesOf
<1>7. MarksOf(new) = MarksOf(lines)
  <2> HIDE DEF new
  <2>1. new[Len(lines) + 1].extracted = FALSE BY <1>2
  <2> QED BY <1>4, <1>5, <2>1 DEF MarksOf
<1> QED BY <1>2, <1>4, <1>5, <1>6, <1>7

LEMMA RenderingOfConversation ==
  ASSUME NEW rendering \in Renderings
  PROVE  IdentityOf(rendering) \in Conversations /\ rendering \in Sources
BY DEF Renderings, IdentityOf, Sources

LEMMA EmptyLines ==
  /\ <<>> \in Seq(Lines) /\ Len(<<>>) = 0 /\ DOMAIN <<>> = {}
  /\ FilesOf(<<>>) = {} /\ MarksOf(<<>>) = {}
<1>1. <<>> \in Seq(Lines) /\ Len(<<>>) = 0 /\ DOMAIN <<>> = {} BY EmptySeq
<1> QED BY <1>1 DEF FilesOf, MarksOf

LEMMA HasFile ==
  ASSUME NEW source
  PROVE  Has(source) <=> \E f \in FilesOf(registry) : f[1] = source
BY DEF Has, LinesOf, FilesOf, SourceOf

LEMMA LeastNumber ==
  ASSUME NEW T, T \subseteq Nat, T # {}
  PROVE  \E x \in T : \A y \in T : x <= y
<1>1. PICK x \in T : \A y \in T : <<y, x>> \notin OpToRel(<, Nat)
  BY WFMin, NatLessThanWellFounded
<1>2. ASSUME NEW y \in T PROVE x <= y
  <2>1. ~(y < x) BY <1>1 DEF OpToRel
  <2> QED BY <2>1
<1> QED BY <1>2

\* The first line of a source is one of its lines.
LEMMA FirstLineOfSource ==
  ASSUME registry \in Seq(Lines), NEW source, Has(source)
  PROVE  FirstLine(source).file \in FilesOf(registry) /\ FirstLine(source).file[1] = source
<1> DEFINE of == LinesOf(registry, source)
<1>1. of \subseteq Nat /\ of # {} /\ of \subseteq DOMAIN registry
  BY LenProperties DEF LinesOf, Has
<1>2. \E i \in of : \A j \in of : i <= j
  BY <1>1, LeastNumber
<1>3. PICK k \in of : FirstLine(source) = registry[k]
  BY <1>2 DEF FirstLine
<1> QED BY <1>1, <1>3 DEF FilesOf, LinesOf, SourceOf

\* A set of which any two members are equal has at most one.
LEMMA AtMostOne ==
  ASSUME NEW S, \A x, y \in S : x = y
  PROVE  Cardinality(S) <= 1
<1>1. CASE S = {} BY <1>1, FS_EmptySet
<1>2. CASE S # {}
  <2>1. PICK x \in S : TRUE BY <1>2
  <2>2. S = {x} BY <2>1
  <2> QED BY <2>2, FS_Singleton
<1> QED BY <1>1, <1>2

-----------------------------------------------------------------------------
(***************************************************************************)
(* Types, and what each process holds.                                     *)
(***************************************************************************)

LEMMA InitRoles == Init => RolesInv
<1> SUFFICES ASSUME Init PROVE RolesInv
  OBVIOUS
<1>1. Idle \in Procs /\ Idle.lines = <<>> /\ Len(<<>>) = 0
  BY EmptyLines DEF Idle, Procs, Steps
<1>2. TypeOK
  <2>1. registry \in Seq(Lines) /\ Len(registry) <= MaxLines
    BY ConstantsAssumption, EmptyLines DEF Init
  <2>2. raw \in [Files -> RawStates] /\ proc \in [Processes -> Procs] /\ today \in Days
    BY <1>1, ConstantsAssumption DEF Init, RawStates, Days
  <2>3. lock \in Hooks \union {Free} /\ faults \in 0..MaxFaults
    BY ConstantsAssumption DEF Init
  <2> QED BY <2>1, <2>2, <2>3 DEF Init, TypeOK
<1>3. \A p \in Processes : proc[p] = Idle
  BY DEF Init
<1> QED
  BY <1>1, <1>2, <1>3, ConstantsAssumption
  DEF RolesInv, Adder, Hook, Saver, FileAtHand, Idle, Processes

\* A step that gives one process a state of its role, and leaves the lock with
\* every other hook that is at work.
RoleOf(p, state) ==
  /\ state \in Procs /\ Len(state.lines) <= MaxLines
  /\ state.at \in {"writing", "again", "append", "commit"} =>
       state.file \in Files /\ state.file[1] = state.source
  /\ p \in Adders => /\ state.at \in AddSteps \union {"idle"}
                     /\ state.at # "idle" => state.source \in Documents
  /\ p \in Hooks =>
       /\ state.at \in AddSteps \union {"idle", "records", "commit"}
       /\ state.at # "idle" => state.source \in Renderings
  /\ p \in Savers =>
       /\ state.at \in {"idle", "find", "load", "truncate", "rewrite"}
       /\ state.at # "idle" => state.file \in Files

LEMMA RolesHeld ==
  RolesInv <=>
    /\ TypeOK
    /\ \A p \in Processes : RoleOf(p, proc[p])
    /\ \A h \in Hooks : proc[h].at # "idle" => lock = h
BY ConstantsAssumption
DEF RolesInv, RoleOf, Adder, Hook, Saver, FileAtHand, Processes, TypeOK

\* What a step leaves to show of types.
TypedBesides ==
  /\ today \in Days
  /\ raw \in [Files -> RawStates]
  /\ registry \in Seq(Lines) /\ Len(registry) <= MaxLines
  /\ log \in SUBSET [identity : Conversations, status : {"pending", "committed"},
                     file : Files \union {Nothing}]
  /\ saved \in SUBSET (Sources \X Chunks)
  /\ faults \in 0..MaxFaults
  /\ known \in SUBSET Files
  /\ marked \in SUBSET Sources
  /\ answered \in SUBSET Conversations
  /\ orphaned \in SUBSET Files
  /\ disturbed \in BOOLEAN

\* One process moves on, and the lock is kept by whoever else is at work.
LEMMA RoleKept ==
  ASSUME RolesInv, TypedBesides', NEW p \in Processes, NEW state, RoleOf(p, state),
         proc' = [proc EXCEPT ![p] = state],
         \/ lock' = lock /\ (p \in Hooks /\ state.at # "idle" => lock = p)
         \/ Unlock(p) /\ (p \in Hooks => state.at = "idle")
         \/ lock' = p /\ lock = Free /\ p \in Hooks
  PROVE  RolesInv'
<1>1. TypeOK /\ \A q \in Processes : RoleOf(q, proc[q])
  BY RolesHeld
<1>2. \A h \in Hooks : proc[h].at # "idle" => lock = h
  BY RolesHeld
<1>3. proc' \in [Processes -> Procs] /\ \A q \in Processes : proc'[q] = IF q = p THEN state ELSE proc[q]
  BY <1>1 DEF TypeOK, RoleOf
<1>4. lock' \in Hooks \union {Free}
  BY <1>1 DEF TypeOK, Unlock
<1>5. ASSUME NEW h \in Hooks, proc'[h].at # "idle" PROVE lock' = h
  <2>1. h \in Processes BY DEF Processes
  <2> QED BY <1>2, <1>3, <1>5, <2>1, ConstantsAssumption DEF Unlock
<1>6. TypeOK'
  BY <1>1, <1>3, <1>4 DEF TypeOK, TypedBesides
<1>7. \A q \in Processes : RoleOf(q, proc'[q])
  BY <1>1, <1>3
<1>8. RolesInv' <=> /\ TypeOK'
                    /\ \A q \in Processes : RoleOf(q, proc'[q])
                    /\ \A h \in Hooks : proc'[h].at # "idle" => lock' = h
  BY ConstantsAssumption
  DEF RolesInv, RoleOf, Adder, Hook, Saver, FileAtHand, Processes, TypeOK
<1> QED BY <1>5, <1>6, <1>7, <1>8

\* The steps of adding a source.
LEMMA AddStepRoles ==
  ASSUME RolesInv, NEW p \in Processes, AddStep(p)
  PROVE  RolesInv'
<1> DEFINE st == proc[p]
<1>1. /\ TypeOK /\ RoleOf(p, st) /\ st \in Procs
      /\ p \in Hooks /\ st.at # "idle" => lock = p
  BY RolesHeld DEF RoleOf
<1>2. st.at \in AddSteps
  BY DEF AddStep, Check, GetExisting, OpenFile, WriteFile, CheckAgain, AppendLine, AddSteps
<1>3. st.source \in Sources /\ p \notin Savers
  BY <1>1, <1>2 DEF RoleOf, AddSteps, Processes, Sources
<1>4. p \in Adders \/ p \in Hooks
  BY <1>3 DEF Processes
<1>5. /\ RoleOf(p, Idle)
      /\ \A step \in AddSteps \ {"writing", "again", "append"} : RoleOf(p, [st EXCEPT !.at = step])
  BY <1>1, <1>2, <1>3, <1>4, ConstantsAssumption, EmptyLines
  DEF RoleOf, AddSteps, Procs, Steps, Idle
<1>6. TypedBesides
  BY <1>1 DEF TypeOK, TypedBesides
<1>7. CASE Check(p)
  <2>1. TypedBesides' BY <1>6, <1>7 DEF Check, ReadsRegistry, TypedBesides
  <2>2. RoleOf(p, [st EXCEPT !.at = "get"]) /\ RoleOf(p, [st EXCEPT !.at = "write"])
    BY <1>5 DEF AddSteps
  <2>3. PICK step \in {"get", "write"} : proc' = [proc EXCEPT ![p] = [st EXCEPT !.at = step]]
    BY <1>1, <1>7 DEF Check, Goto, TypeOK
  <2> QED BY <1>1, <1>2, <1>7, <2>1, <2>2, <2>3, RoleKept DEF Check, AddSteps
<1>8. CASE GetExisting(p)
  <2>1. TypedBesides' BY <1>6, <1>8 DEF GetExisting, ReadsRegistry, TypedBesides
  <2>2. CASE p \in Hooks /\ Has(st.source)
    <3>1. FirstLine(st.source).file \in Files /\ FirstLine(st.source).file[1] = st.source
      <4>1. registry \in Seq(Lines) BY <1>1 DEF TypeOK
      <4>2. FilesOf(registry) \subseteq Files BY <4>1, LineTyped DEF FilesOf
      <4> QED BY <2>2, <4>1, <4>2, FirstLineOfSource
    <3>2. RoleOf(p, [st EXCEPT !.at = "commit", !.file = FirstLine(st.source).file])
      BY <1>1, <1>2, <1>3, <2>2, <3>1, ConstantsAssumption DEF RoleOf, Procs, Steps, AddSteps
    <3>3. /\ proc' = [proc EXCEPT ![p] = [st EXCEPT !.at = "commit", !.file = FirstLine(st.source).file]]
          /\ lock' = lock
      BY <1>1, <1>8, <2>2 DEF GetExisting, TypeOK
    <3> QED BY <1>1, <1>2, <1>8, <2>1, <2>2, <3>2, <3>3, RoleKept DEF GetExisting, AddSteps
  <2>3. CASE ~(p \in Hooks /\ Has(st.source))
    BY <1>5, <1>8, <2>1, <2>3, RoleKept DEF GetExisting, End, Idle
  <2> QED BY <2>2, <2>3
<1>9. CASE OpenFile(p)
  <2>1. <<st.source, today>> \in Files BY <1>1, <1>3 DEF Files, TypeOK
  <2>2. TypedBesides' BY <1>6, <1>9, <2>1 DEF OpenFile, TypedBesides, RawStates
  <2>3. RoleOf(p, [st EXCEPT !.at = "writing", !.file = <<st.source, today>>])
    BY <1>1, <1>2, <1>3, <1>4, <2>1, ConstantsAssumption DEF RoleOf, Procs, Steps, AddSteps
  <2> QED BY <1>1, <1>9, <2>2, <2>3, RoleKept DEF OpenFile
<1>10. CASE WriteFile(p)
  <2>1. st.file \in Files BY <1>1, <1>10 DEF WriteFile, RoleOf
  <2>2. TypedBesides' BY <1>6, <1>10, <2>1 DEF WriteFile, TypedBesides, RawStates
  <2>3. RoleOf(p, [st EXCEPT !.at = "again"])
    BY <1>1, <1>2, <1>3, <1>4, <1>10, ConstantsAssumption DEF WriteFile, RoleOf, Procs, Steps, AddSteps
  <2> QED BY <1>1, <1>10, <2>2, <2>3, RoleKept DEF WriteFile, Goto
<1>11. ASSUME st.at \in {"again", "append"}
       PROVE  /\ p \in Hooks => RoleOf(p, [st EXCEPT !.at = "commit"])
              /\ RoleOf(p, [st EXCEPT !.at = "append"])
  BY <1>1, <1>2, <1>3, <1>4, <1>11, ConstantsAssumption DEF RoleOf, Procs, Steps, AddSteps
<1>12. CASE CheckAgain(p)
  <2>1. TypedBesides' BY <1>6, <1>12 DEF CheckAgain, ReadsRegistry, TypedBesides
  <2>2. CASE Has(st.source) /\ p \notin Hooks
    BY <1>5, <1>12, <2>1, <2>2, RoleKept DEF CheckAgain, Added, End
  <2>3. CASE Has(st.source) /\ p \in Hooks
    BY <1>1, <1>11, <1>12, <2>1, <2>3, RoleKept DEF CheckAgain, Added, Goto
  <2>4. CASE ~Has(st.source)
    BY <1>1, <1>11, <1>12, <2>1, <2>4, RoleKept DEF CheckAgain, Goto
  <2> QED BY <2>2, <2>3, <2>4
<1>13. CASE AppendLine(p)
  <2>1. st.file \in Files BY <1>1, <1>13 DEF AppendLine, RoleOf
  <2>2. registry' \in Seq(Lines) /\ Len(registry') <= MaxLines
    <3>1. registry \in Seq(Lines) /\ Len(registry) \in Nat BY <1>1, LenProperties DEF TypeOK
    <3>2. registry' \in Seq(Lines) /\ Len(registry') = Len(registry) + 1
      BY <1>13, <2>1, <3>1, AppendedLine DEF AppendLine
    <3> QED BY <1>13, <3>1, <3>2, ConstantsAssumption DEF AppendLine
  <2>3. TypedBesides' BY <1>6, <1>13, <2>1, <2>2 DEF AppendLine, WritesRegistry, TypedBesides
  <2>4. CASE p \notin Hooks
    BY <1>5, <1>13, <2>3, <2>4, RoleKept DEF AppendLine, Added, End
  <2>5. CASE p \in Hooks
    BY <1>1, <1>11, <1>13, <2>3, <2>5, RoleKept DEF AppendLine, Added, Goto
  <2> QED BY <2>4, <2>5
<1> QED BY <1>7, <1>8, <1>9, <1>10, <1>12, <1>13 DEF AddStep

\* The steps of the hook.
LEMMA HookStepRoles ==
  ASSUME RolesInv, NEW h \in Hooks, StartHook(h) \/ ReadRecords(h) \/ Commit(h)
  PROVE  RolesInv'
<1> DEFINE st == proc[h]
<1>1. /\ TypeOK /\ RoleOf(h, st) /\ st \in Procs /\ h \in Processes
      /\ st.at # "idle" => lock = h
      /\ h \notin Adders /\ h \notin Savers
  BY RolesHeld, ConstantsAssumption DEF RoleOf, Processes
<1>2. TypedBesides
  BY <1>1 DEF TypeOK, TypedBesides
<1>3. RoleOf(h, Idle)
  BY <1>1, ConstantsAssumption, EmptyLines DEF RoleOf, Procs, Steps, Idle
<1>4. CASE StartHook(h)
  <2>1. TypedBesides' BY <1>2, <1>4 DEF StartHook, TypedBesides
  <2>2. PICK c \in Renderings :
          proc' = [proc EXCEPT ![h] = [Idle EXCEPT !.at = "records", !.source = c]]
    BY <1>4 DEF StartHook, Begin
  <2>3. RoleOf(h, [Idle EXCEPT !.at = "records", !.source = c])
    BY <1>1, <1>3, ConstantsAssumption DEF RoleOf, Procs, Steps, Idle, Sources
  <2> QED BY <1>1, <1>4, <2>1, <2>2, <2>3, RoleKept DEF StartHook
<1>5. CASE ReadRecords(h)
  <2>1. st.source \in Renderings /\ IdentityOf(st.source) \in Conversations
    BY <1>1, <1>5, RenderingOfConversation DEF ReadRecords, RoleOf
  <2>2. TypedBesides' BY <1>2, <1>5, <2>1 DEF ReadRecords, TypedBesides
  <2>3. RoleOf(h, [st EXCEPT !.at = "check"])
    BY <1>1, <1>5, <2>1 DEF ReadRecords, RoleOf, Procs, Steps, AddSteps
  <2>4. CASE Committed(IdentityOf(st.source))
    BY <1>1, <1>3, <1>5, <2>2, <2>4, RoleKept DEF ReadRecords, End, Idle
  <2>5. CASE ~Committed(IdentityOf(st.source))
    BY <1>1, <1>5, <2>2, <2>3, <2>5, RoleKept DEF ReadRecords, Goto
  <2> QED BY <2>4, <2>5
<1>6. CASE Commit(h)
  <2>1. IdentityOf(st.source) \in Conversations
    BY <1>1, <1>6, RenderingOfConversation DEF Commit, RoleOf
  <2>2. TypedBesides' BY <1>1, <1>2, <1>6, <2>1 DEF Commit, TypedBesides, Procs
  <2> QED BY <1>1, <1>3, <1>6, <2>2, RoleKept DEF Commit, End, Idle
<1> QED BY <1>4, <1>5, <1>6

SaverStep(s) == Normalize(s) \/ FindLine(s) \/ LoadLines(s) \/ Truncate(s) \/ Rewrite(s)

\* The steps of a save.
LEMMA SaverStepRoles ==
  ASSUME RolesInv, NEW s \in Savers, SaverStep(s)
  PROVE  RolesInv'
<1> DEFINE st == proc[s]
<1>1. /\ TypeOK /\ RoleOf(s, st) /\ st \in Procs /\ s \in Processes
      /\ s \notin Adders /\ s \notin Hooks
      /\ proc \in [Processes -> Procs]
  BY RolesHeld, ConstantsAssumption DEF RoleOf, Processes, TypeOK
<1>2. TypedBesides
  BY <1>1 DEF TypeOK, TypedBesides
<1>3. RoleOf(s, Idle) /\ Idle \in Procs
  BY <1>1, ConstantsAssumption, EmptyLines DEF RoleOf, Procs, Steps, Idle
<1>4. CASE Normalize(s)
  <2>1. PICK f \in Files, k \in Chunks :
          /\ saved' = saved \union {<<f[1], k>>}
          /\ proc' = [proc EXCEPT ![s] = [Idle EXCEPT !.at = "find", !.file = f]]
    BY <1>4 DEF Normalize
  <2>2. f[1] \in Sources BY DEF Files
  <2>3. TypedBesides' BY <1>2, <1>4, <2>1, <2>2 DEF Normalize, TypedBesides
  <2>4. RoleOf(s, [Idle EXCEPT !.at = "find", !.file = f])
    BY <1>1, <1>3 DEF RoleOf, Procs, Steps, Idle
  <2> QED BY <1>1, <1>4, <2>1, <2>3, <2>4, RoleKept DEF Normalize
<1>5. CASE FindLine(s)
  <2>1. TypedBesides' BY <1>2, <1>5 DEF FindLine, ReadsRegistry, TypedBesides
  <2>2. RoleOf(s, [st EXCEPT !.at = "load"])
    BY <1>1, <1>5 DEF FindLine, RoleOf, Procs, Steps
  <2>3. \/ proc' = [proc EXCEPT ![s] = Idle]
        \/ proc' = [proc EXCEPT ![s] = [st EXCEPT !.at = "load"]]
    BY <1>1, <1>5 DEF FindLine, Goto, End
  <2> QED BY <1>1, <1>3, <1>5, <2>1, <2>2, <2>3, RoleKept DEF FindLine
<1>6. CASE LoadLines(s)
  <2>1. TypedBesides' BY <1>2, <1>6 DEF LoadLines, ReadsRegistry, TypedBesides
  <2> DEFINE new == Marked(registry, st.file[1])
  <2>2. new \in Seq(Lines) /\ Len(new) <= MaxLines
    BY <1>2, MarkedLines DEF TypedBesides
  <2> HIDE DEF new
  <2>3. RoleOf(s, [st EXCEPT !.at = "truncate", !.lines = new])
    BY <1>1, <1>6, <2>2 DEF LoadLines, RoleOf, Procs, Steps
  <2>4. proc' = [proc EXCEPT ![s] = [st EXCEPT !.at = "truncate", !.lines = new]]
    BY <1>1, <1>6 DEF LoadLines, new
  <2> QED BY <1>1, <1>6, <2>1, <2>3, <2>4, RoleKept DEF LoadLines
<1>7. CASE Truncate(s)
  <2>1. TypedBesides'
    BY <1>2, <1>7, EmptyLines, ConstantsAssumption DEF Truncate, WritesRegistry, TypedBesides
  <2>2. RoleOf(s, [st EXCEPT !.at = "rewrite"])
    BY <1>1, <1>7 DEF Truncate, RoleOf, Procs, Steps
  <2> QED BY <1>1, <1>7, <2>1, <2>2, RoleKept DEF Truncate, Goto
<1>8. CASE Rewrite(s)
  <2>1. st.lines \in Seq(Lines) /\ Len(st.lines) <= MaxLines /\ st.file \in Files
    BY <1>1, <1>8 DEF Rewrite, RoleOf, Procs
  <2>2. st.file[1] \in Sources BY <2>1 DEF Files
  <2>3. TypedBesides' BY <1>2, <1>8, <2>1, <2>2 DEF Rewrite, WritesRegistry, TypedBesides
  <2> QED BY <1>1, <1>3, <1>8, <2>3, RoleKept DEF Rewrite, End
<1> QED BY <1>4, <1>5, <1>6, <1>7, <1>8 DEF SaverStep

\* The other steps: a document is asked for, a process dies, a day ends.
LEMMA OtherStepRoles ==
  ASSUME RolesInv,
         \/ \E a \in Adders : StartAdd(a)
         \/ \E p \in Processes : Crash(p)
         \/ NewDay
  PROVE  RolesInv'
<1>1. TypeOK /\ TypedBesides
  BY DEF RolesInv, TypeOK, TypedBesides
<1>2. ASSUME NEW p \in Processes PROVE RoleOf(p, Idle)
  BY ConstantsAssumption, EmptyLines DEF RoleOf, Procs, Steps, Idle
<1>3. ASSUME NEW a \in Adders, StartAdd(a) PROVE RolesInv'
  <2>1. TypedBesides' BY <1>1, <1>3 DEF StartAdd, TypedBesides
  <2>2. a \in Processes /\ a \notin Hooks /\ a \notin Savers BY ConstantsAssumption DEF Processes
  <2>3. PICK d \in Documents :
          proc' = [proc EXCEPT ![a] = [Idle EXCEPT !.at = "check", !.source = d]]
    BY <1>3 DEF StartAdd, Begin
  <2>4. RoleOf(a, [Idle EXCEPT !.at = "check", !.source = d])
    BY <1>2, <2>2 DEF RoleOf, Procs, Steps, Idle, Sources, AddSteps
  <2> QED BY <1>3, <2>1, <2>2, <2>3, <2>4, RoleKept DEF StartAdd
<1>4. ASSUME NEW p \in Processes, Crash(p) PROVE RolesInv'
  <2>a. proc[p].at = "commit" => proc[p].file \in Files
    BY DEF RolesInv, FileAtHand
  <2>b. orphaned' \in SUBSET Files
    BY <1>1, <1>4, <2>a DEF Crash, TypedBesides
  <2>1. TypedBesides'
    BY <1>1, <1>4, <2>b, ConstantsAssumption DEF Crash, TypedBesides
  <2>2. RoleOf(p, Idle) /\ Idle.at = "idle" BY <1>2 DEF Idle
  <2> QED BY <1>4, <2>1, <2>2, RoleKept DEF Crash, End
<1>5. CASE NewDay
  <2>1. today' \in Days BY <1>1, <1>5, ConstantsAssumption DEF NewDay, TypedBesides, Days
  <2> QED BY <1>5, <2>1
    DEF NewDay, RolesInv, TypeOK, Adder, Hook, Saver, FileAtHand
<1> QED BY <1>3, <1>4, <1>5

LEMMA RolesStep == RolesInv /\ [Next]_vars => RolesInv'
<1> SUFFICES ASSUME RolesInv, [Next]_vars PROVE RolesInv'
  OBVIOUS
<1>1. CASE UNCHANGED vars
  BY <1>1 DEF vars, RolesInv, TypeOK, Adder, Hook, Saver, FileAtHand
<1> QED
  BY <1>1, AddStepRoles, HookStepRoles, SaverStepRoles, OtherStepRoles DEF Next, SaverStep

-----------------------------------------------------------------------------
(***************************************************************************)
(* The registry keeps its files and marks.                                 *)
(***************************************************************************)

LEMMA InitRegistry == Init => RegistryInv
<1> SUFFICES ASSUME Init PROVE RegistryInv
  OBVIOUS
<1>1. FilesOf(registry) = {} /\ MarksOf(registry) = {} BY EmptyLines DEF Init
<1>2. \A s \in Savers : proc[s].at = "idle" BY DEF Init, Idle, Processes
<1> QED BY <1>1, <1>2 DEF Init, RegistryInv, Carries

\* A saver that does not move carries the same, while the registry is the same.
LEMMA CarriesKept ==
  ASSUME NEW s, Carries(s), UNCHANGED <<registry, known, marked>>,
         proc'[s].at = proc[s].at, proc'[s].file = proc[s].file, proc'[s].lines = proc[s].lines,
         proc[s].at = "rewrite" =>
           \A t \in Savers : proc'[t].at \in {"truncate", "rewrite"} =>
                              proc[t].at \in {"truncate", "rewrite"}
  PROVE  Carries(s)'
<1>1. (Marked(registry, proc[s].file[1]))' = Marked(registry, proc[s].file[1])
  BY DEF Marked, SourceOf
<1>2. (FilesOf(proc[s].lines))' = FilesOf(proc[s].lines)
      /\ (MarksOf(proc[s].lines))' = MarksOf(proc[s].lines)
  BY DEF FilesOf, MarksOf, SourceOf
<1> QED BY <1>1, <1>2 DEF Carries

\* A step of a process that leaves the registry alone and begins no rewrite.
LEMMA RegistryKept ==
  ASSUME RolesInv, RegistryInv, NEW p \in Processes, NEW state,
         UNCHANGED <<registry, known, marked>>, disturbed => disturbed',
         proc' = [proc EXCEPT ![p] = state],
         p \in Savers =>
           state.at \in {"idle", "find"} /\ (proc[p].at = "rewrite" => disturbed')
  PROVE  RegistryInv'
<1> SUFFICES ASSUME ~disturbed'
             PROVE  /\ NoneRewriting' => (FilesOf(registry) = known /\ MarksOf(registry) = marked)'
                    /\ \A s \in Savers : Carries(s)'
  BY DEF RegistryInv
<1>1. ~disturbed OBVIOUS
<1>2. \A q \in Processes : proc'[q] = IF q = p THEN state ELSE proc[q]
  BY DEF RolesInv, TypeOK
<1>3. Savers \subseteq Processes BY DEF Processes
<1>4. NoneRewriting' => NoneRewriting
  BY <1>2, <1>3 DEF NoneRewriting
<1>5. FilesOf(registry)' = FilesOf(registry) /\ MarksOf(registry)' = MarksOf(registry)
  BY DEF FilesOf, MarksOf, SourceOf
<1>6. ASSUME NEW s \in Savers PROVE Carries(s)'
  <2>1. CASE s = p BY <1>2, <1>3, <2>1 DEF Carries
  <2>2. CASE s # p
    <3>1. Carries(s) BY <1>1 DEF RegistryInv
    <3>2. proc'[s] = proc[s] BY <1>2, <1>3, <2>2
    <3>3. ASSUME NEW t \in Savers, proc[t].at \notin {"truncate", "rewrite"}
          PROVE  proc'[t].at \notin {"truncate", "rewrite"}
      BY <1>2, <1>3, <3>3
    <3> QED BY <3>1, <3>2, <3>3, CarriesKept
  <2> QED BY <2>1, <2>2
<1> QED BY <1>1, <1>4, <1>5, <1>6 DEF RegistryInv

\* Nothing happens to processes and registry.
LEMMA RegistryStutters ==
  ASSUME RegistryInv, UNCHANGED <<registry, known, marked, disturbed, proc>>
  PROVE  RegistryInv'
<1>1. NoneRewriting' = NoneRewriting BY DEF NoneRewriting
<1>2. (FilesOf(registry))' = FilesOf(registry) /\ (MarksOf(registry))' = MarksOf(registry)
  BY DEF FilesOf, MarksOf, SourceOf
<1>3. \A s \in Savers : Carries(s) => Carries(s)' BY CarriesKept
<1> QED BY <1>1, <1>2, <1>3 DEF RegistryInv

\* A saver that reads the registry as it is finds it complete.
LEMMA ReadsComplete ==
  ASSUME RegistryInv, ~disturbed, NEW p, ~Emptied(p), p \in Savers => proc[p].at # "rewrite"
  PROVE  FilesOf(registry) = known /\ MarksOf(registry) = marked
BY DEF RegistryInv, NoneRewriting, Emptied

LEMMA SaverStepRegistry ==
  ASSUME RolesInv, RegistryInv, NEW s \in Savers, SaverStep(s)
  PROVE  RegistryInv'
<1> DEFINE st == proc[s]
<1>1. /\ s \in Processes /\ proc \in [Processes -> Procs] /\ registry \in Seq(Lines)
      /\ Savers \subseteq Processes
  BY DEF RolesInv, TypeOK, Processes
<1>2. CASE Normalize(s)
  <2>1. PICK f \in Files : proc' = [proc EXCEPT ![s] = [Idle EXCEPT !.at = "find", !.file = f]]
    BY <1>2 DEF Normalize
  <2>2. [Idle EXCEPT !.at = "find", !.file = f].at = "find" BY DEF Idle
  <2> QED BY <1>1, <1>2, <2>1, <2>2, RegistryKept DEF Normalize
<1>3. CASE FindLine(s) /\ proc' = [proc EXCEPT ![s] = Idle]
  BY <1>1, <1>3, RegistryKept DEF FindLine, ReadsRegistry, Idle
<1> SUFFICES ASSUME ~disturbed',
                    ~ Normalize(s), ~ (FindLine(s) /\ proc' = [proc EXCEPT ![s] = Idle])
             PROVE  /\ NoneRewriting' => (FilesOf(registry) = known /\ MarksOf(registry) = marked)'
                    /\ \A t \in Savers : Carries(t)'
  BY <1>2, <1>3 DEF RegistryInv
<1>4. ~disturbed /\ (\A t \in Savers : Carries(t))
  BY DEF SaverStep, FindLine, LoadLines, Truncate, Rewrite, ReadsRegistry, WritesRegistry, RegistryInv
<1>5. CASE FindLine(s)
  <2>1. ~Emptied(s) /\ st.at = "find" BY <1>5 DEF FindLine, ReadsRegistry
  <2>2. FilesOf(registry) = known /\ MarksOf(registry) = marked BY <1>4, <2>1, ReadsComplete
  <2>3. st.file \in known BY <1>5, <2>2 DEF FindLine, End, FilesOf
  <2>4. /\ proc' = [proc EXCEPT ![s].at = "load"] /\ UNCHANGED <<registry, known, marked>>
    BY <1>5 DEF FindLine, Goto, End
  <2>5. ASSUME NEW t \in Savers PROVE Carries(t)'
    <3>1. /\ proc'[t].at = IF t = s THEN "load" ELSE proc[t].at
          /\ proc'[t].file = proc[t].file /\ proc'[t].lines = proc[t].lines
      BY <1>1, <2>4 DEF Procs
    <3>2. ASSUME NEW q \in Savers PROVE proc'[q].at = IF q = s THEN "load" ELSE proc[q].at
      BY <1>1, <2>4 DEF Procs
    <3>3. Carries(t) BY <1>4
    <3>4. CASE t = s BY <2>3, <2>4, <3>1, <3>4 DEF Carries
    <3>5. CASE t # s BY <2>4, <3>1, <3>2, <3>3, <3>5, CarriesKept
    <3> QED BY <3>4, <3>5
  <2> QED BY <2>2, <2>4, <2>5 DEF FilesOf, MarksOf
<1>6. CASE LoadLines(s)
  <2>1. ~Emptied(s) /\ st.at = "load" BY <1>6 DEF LoadLines, ReadsRegistry
  <2>2. FilesOf(registry) = known /\ MarksOf(registry) = marked BY <1>4, <2>1, ReadsComplete
  <2>3. st.file \in known BY <1>4, <2>1 DEF Carries
  <2> DEFINE new == Marked(registry, st.file[1])
  <2>4. /\ proc' = [proc EXCEPT ![s].at = "truncate", ![s].lines = new]
        /\ UNCHANGED <<registry, known, marked>>
    BY <1>6 DEF LoadLines
  <2> HIDE DEF new
  <2>5. \A t \in Savers :
          /\ proc'[t].at = IF t = s THEN "truncate" ELSE proc[t].at
          /\ proc'[t].file = proc[t].file
          /\ proc'[t].lines = IF t = s THEN new ELSE proc[t].lines
    BY <1>1, <2>4 DEF Procs
  <2>6. ASSUME NEW t \in Savers PROVE Carries(t)'
    <3>1. Carries(t) BY <1>4
    <3>2. t # s => proc[t].at # "rewrite" BY <2>1 DEF Emptied
    <3>3. CASE t = s
      <4>1. (Marked(registry, proc[t].file[1]))' = new
        <5>1. registry' = registry /\ proc'[t].file = st.file BY <2>4, <2>5, <3>3
        <5>2. (Marked(registry, proc[t].file[1]))' = Marked(registry', proc'[t].file[1])
          BY DEF Marked, SourceOf
        <5> QED BY <5>1, <5>2 DEF new
      <4>2. proc'[t].at = "truncate" /\ proc'[t].file \in known' /\ proc'[t].lines = new
        <5>1. known' = known BY <2>4
        <5>2. proc'[t].at = "truncate" /\ proc'[t].file = st.file /\ proc'[t].lines = new
          BY <2>5, <3>3
        <5> QED BY <2>3, <5>1, <5>2
      <4>3. proc'[t].lines = (Marked(registry, proc[t].file[1]))'
        BY <4>1, <4>2
      <4> QED BY <4>2, <4>3 DEF Carries
    <3>4. CASE t # s BY <2>4, <2>5, <3>1, <3>2, <3>4, CarriesKept
    <3> QED BY <3>3, <3>4
  <2> QED BY <2>2, <2>4, <2>6 DEF FilesOf, MarksOf
<1>7. CASE Truncate(s)
  <2>1. st.at = "truncate" /\ \A t \in Savers \ {s} : proc[t].at \notin {"truncate", "rewrite"}
    BY <1>7 DEF Truncate, WritesRegistry, Rewriting
  <2>2. FilesOf(registry) = known /\ MarksOf(registry) = marked
    BY <1>4, <2>1 DEF RegistryInv, NoneRewriting
  <2>3. st.file \in known /\ st.lines = Marked(registry, st.file[1]) BY <1>4, <2>1 DEF Carries
  <2>4. FilesOf(st.lines) = known /\ MarksOf(st.lines) = marked \union {st.file[1]}
    BY <1>1, <2>2, <2>3, MarkedFiles, MarkedMarks
  <2>5. proc' = [proc EXCEPT ![s].at = "rewrite"] /\ UNCHANGED <<known, marked>>
    BY <1>7 DEF Truncate, Goto
  <2>6. \A t \in Savers :
          /\ proc'[t].at = IF t = s THEN "rewrite" ELSE proc[t].at
          /\ proc'[t].file = proc[t].file /\ proc'[t].lines = proc[t].lines
    BY <1>1, <2>5 DEF Procs
  <2>7. ASSUME NEW t \in Savers PROVE Carries(t)'
    <3>1. Carries(t) BY <1>4
    <3>2. /\ (FilesOf(proc[t].lines))' = FilesOf(proc[t].lines)
          /\ (MarksOf(proc[t].lines))' = MarksOf(proc[t].lines)
      BY <2>6 DEF FilesOf, MarksOf, SourceOf
    <3> QED BY <2>1, <2>3, <2>4, <2>5, <2>6, <3>1, <3>2 DEF Carries
  <2>8. ~NoneRewriting' BY <2>6 DEF NoneRewriting
  <2> QED BY <2>7, <2>8
<1>8. CASE Rewrite(s)
  <2>1. st.at = "rewrite" BY <1>8 DEF Rewrite
  <2>2. /\ st.file \in known /\ FilesOf(st.lines) = known
        /\ MarksOf(st.lines) = marked \union {st.file[1]}
        /\ \A t \in Savers \ {s} : proc[t].at \notin {"truncate", "rewrite"}
    BY <1>4, <2>1 DEF Carries
  <2>3. st.lines # <<>> BY <2>2, EmptyLines
  <2>4. /\ registry' = st.lines /\ known' = known /\ marked' = marked \union {st.file[1]}
        /\ proc' = [proc EXCEPT ![s] = Idle]
    BY <1>8, <2>3 DEF Rewrite, End
  <2>5. \A t \in Savers : proc'[t] = IF t = s THEN Idle ELSE proc[t]
    BY <1>1, <2>4
  <2>6. ASSUME NEW t \in Savers PROVE Carries(t)'
    <3>1. Carries(t) BY <1>4
    <3> QED BY <2>2, <2>4, <2>5, <3>1 DEF Carries, Idle
  <2>7. FilesOf(registry)' = FilesOf(st.lines) /\ MarksOf(registry)' = MarksOf(st.lines)
    BY <2>4 DEF FilesOf, MarksOf
  <2> QED BY <2>2, <2>4, <2>6, <2>7
<1> QED BY <1>5, <1>6, <1>7, <1>8 DEF SaverStep

LEMMA AddStepRegistry ==
  ASSUME RolesInv, RegistryInv, NEW p \in Processes, AddStep(p)
  PROVE  RegistryInv'
<1>1. p \notin Savers
  <2>1. proc[p].at \in AddSteps
    BY DEF AddStep, Check, GetExisting, OpenFile, WriteFile, CheckAgain, AppendLine, AddSteps
  <2> QED BY <2>1 DEF RolesInv, Saver, AddSteps
<1>2. proc \in [Processes -> Procs] /\ registry \in Seq(Lines) BY DEF RolesInv, TypeOK
<1>3. \E state : proc' = [proc EXCEPT ![p] = state]
  BY <1>2 DEF AddStep, Check, GetExisting, OpenFile, WriteFile, CheckAgain, AppendLine,
              Goto, End, Added
<1>4. CASE AppendLine(p)
  <2> SUFFICES ASSUME ~disturbed'
               PROVE  /\ NoneRewriting' => (FilesOf(registry) = known /\ MarksOf(registry) = marked)'
                      /\ \A s \in Savers : Carries(s)'
    BY DEF RegistryInv
  <2>1. ~disturbed /\ \A s \in Savers : proc[s].at \notin {"truncate", "rewrite"}
    BY <1>1, <1>4 DEF AppendLine, WritesRegistry, Rewriting
  <2>2. FilesOf(registry) = known /\ MarksOf(registry) = marked /\ \A s \in Savers : Carries(s)
    BY <2>1 DEF RegistryInv, NoneRewriting
  <2>3. proc[p].file \in Files BY <1>4 DEF AppendLine, RolesInv, FileAtHand
  <2>4. FilesOf(registry') = known \union {proc[p].file} /\ MarksOf(registry') = marked
    BY <1>2, <1>4, <2>2, <2>3, AppendedLine DEF AppendLine
  <2>5. \A s \in Savers : proc'[s] = proc[s]
    BY <1>1, <1>2, <1>3
  <2>6. known' = known \union {proc[p].file} /\ marked' = marked BY <1>4 DEF AppendLine
  <2>7. ASSUME NEW s \in Savers PROVE Carries(s)'
    BY <2>1, <2>2, <2>5, <2>6 DEF Carries
  <2>8. (FilesOf(registry))' = FilesOf(registry') /\ (MarksOf(registry))' = MarksOf(registry')
    BY DEF FilesOf, MarksOf, SourceOf
  <2> QED BY <2>4, <2>6, <2>7, <2>8
<1>5. CASE ~AppendLine(p)
  <2>1. UNCHANGED <<registry, known, marked>> /\ (disturbed => disturbed')
    <3>1. CASE Check(p) BY <3>1 DEF Check, ReadsRegistry
    <3>2. CASE GetExisting(p) BY <3>2 DEF GetExisting, ReadsRegistry
    <3>3. CASE OpenFile(p) \/ WriteFile(p) BY <3>3 DEF OpenFile, WriteFile
    <3>4. CASE CheckAgain(p) BY <3>4 DEF CheckAgain, ReadsRegistry
    <3> QED BY <1>5, <3>1, <3>2, <3>3, <3>4 DEF AddStep
  <2> QED BY <1>1, <1>3, <2>1, RegistryKept
<1> QED BY <1>4, <1>5

LEMMA RegistryStep == RolesInv /\ RegistryInv /\ [Next]_vars => RegistryInv'
<1> SUFFICES ASSUME RolesInv, RegistryInv, [Next]_vars PROVE RegistryInv'
  OBVIOUS
<1>1. ASSUME NEW a \in Adders, StartAdd(a) PROVE RegistryInv'
  <2>1. a \in Processes /\ a \notin Savers BY ConstantsAssumption DEF Processes
  <2>2. \E state : proc' = [proc EXCEPT ![a] = state] BY <1>1 DEF StartAdd, Begin
  <2> QED BY <1>1, <2>1, <2>2, RegistryKept DEF StartAdd
<1>2. ASSUME NEW h \in Hooks, StartHook(h) \/ ReadRecords(h) \/ Commit(h) PROVE RegistryInv'
  <2>1. h \in Processes /\ h \notin Savers BY ConstantsAssumption DEF Processes
  <2>2. \E state : proc' = [proc EXCEPT ![h] = state]
    BY <1>2, <2>1 DEF StartHook, Begin, ReadRecords, Commit, End, Goto, RolesInv, TypeOK
  <2>3. UNCHANGED <<registry, known, marked, disturbed>>
    BY <1>2 DEF StartHook, ReadRecords, Commit
  <2> QED BY <2>1, <2>2, <2>3, RegistryKept
<1>3. ASSUME NEW p \in Processes, Crash(p) PROVE RegistryInv'
  <2>1. UNCHANGED <<registry, known, marked>> /\ proc' = [proc EXCEPT ![p] = Idle]
        /\ (disturbed => disturbed') /\ (proc[p].at = "rewrite" => disturbed')
    BY <1>3 DEF Crash, End
  <2>2. Idle.at = "idle" BY DEF Idle
  <2> QED BY <2>1, <2>2, RegistryKept
<1>4. CASE NewDay \/ UNCHANGED vars
  BY <1>4, RegistryStutters DEF NewDay, vars
<1> QED
  BY <1>1, <1>2, <1>3, <1>4, AddStepRegistry, SaverStepRegistry DEF Next, SaverStep

-----------------------------------------------------------------------------
(***************************************************************************)
(* A source is marked after something of it was saved.                     *)
(***************************************************************************)

LEMMA InitSaved == Init => SavedInv
BY EmptyLines DEF Init, SavedInv, MarksSaved, Idle, Processes

\* What a saver holds that is no further than having loaded lines.
LEMMA SavedKept ==
  ASSUME RolesInv, SavedInv, NEW p \in Processes, NEW state,
         proc' = [proc EXCEPT ![p] = state], saved \subseteq saved', MarksSaved(registry)',
         p \in Savers /\ state.at # "idle" => Saved(state.file[1])',
         p \in Savers /\ state.at \in {"truncate", "rewrite"} => MarksSaved(state.lines)
  PROVE  SavedInv'
<1>1. \A q \in Processes : proc'[q] = IF q = p THEN state ELSE proc[q]
  BY DEF RolesInv, TypeOK
<1>2. \A source : Saved(source) => Saved(source)' BY DEF Saved
<1>3. ASSUME NEW s \in Savers
      PROVE  /\ (proc[s].at # "idle" => Saved(proc[s].file[1]))'
             /\ (proc[s].at \in {"truncate", "rewrite"} => MarksSaved(proc[s].lines))'
  <2>1. CASE s = p
    <3>1. proc'[s] = state BY <1>1, <2>1
    <3>2. MarksSaved(state.lines) => (MarksSaved(proc[s].lines))'
      BY <1>2, <3>1 DEF MarksSaved, SourceOf
    <3>3. Saved(state.file[1])' => (Saved(proc[s].file[1]))' BY <3>1 DEF Saved
    <3> QED BY <2>1, <3>1, <3>2, <3>3
  <2>2. CASE s # p
    <3>1. proc'[s] = proc[s] BY <1>1, <2>2 DEF Processes
    <3>2. MarksSaved(proc[s].lines) => (MarksSaved(proc[s].lines))'
      BY <1>2, <3>1 DEF MarksSaved, SourceOf
    <3>3. Saved(proc[s].file[1]) => (Saved(proc[s].file[1]))' BY <1>2, <3>1 DEF Saved
    <3> QED BY <3>1, <3>2, <3>3 DEF SavedInv
  <2> QED BY <2>1, <2>2
<1> QED BY <1>3 DEF SavedInv

\* The registry as it was.
LEMMA MarksKept ==
  ASSUME SavedInv, UNCHANGED registry, saved \subseteq saved'
  PROVE  MarksSaved(registry)'
BY DEF SavedInv, MarksSaved, Saved, SourceOf

LEMMA SaverStepSaved ==
  ASSUME RolesInv, SavedInv, NEW s \in Savers, SaverStep(s)
  PROVE  SavedInv'
<1> DEFINE st == proc[s]
<1>1. /\ s \in Processes /\ proc \in [Processes -> Procs] /\ registry \in Seq(Lines)
      /\ st.at # "idle" => Saved(st.file[1])
      /\ st.at \in {"truncate", "rewrite"} => MarksSaved(st.lines)
  BY DEF RolesInv, TypeOK, Processes, SavedInv
<1>2. CASE Normalize(s)
  <2>1. PICK f \in Files, k \in Chunks :
          /\ saved' = saved \union {<<f[1], k>>}
          /\ proc' = [proc EXCEPT ![s] = [Idle EXCEPT !.at = "find", !.file = f]]
    BY <1>2 DEF Normalize
  <2> DEFINE new == [Idle EXCEPT !.at = "find", !.file = f]
  <2>2. new.at = "find" /\ new.file = f BY DEF Idle
  <2>3. Saved(f[1])' BY <2>1 DEF Saved
  <2>4. UNCHANGED registry BY <1>2 DEF Normalize
  <2> HIDE DEF new
  <2> QED BY <1>1, <2>1, <2>2, <2>3, <2>4, MarksKept, SavedKept DEF new
<1>3. CASE ~Normalize(s)
  <2>1. saved' = saved /\ Saved(st.file[1])
    BY <1>1, <1>3 DEF SaverStep, FindLine, LoadLines, Truncate, Rewrite
  <2>2. \A source : Saved(source)' <=> Saved(source) BY <2>1 DEF Saved
  <2>3. CASE FindLine(s)
    <3>1. PICK new : proc' = [proc EXCEPT ![s] = new] /\ (new = Idle \/ new = [st EXCEPT !.at = "load"])
      BY <1>1, <2>3 DEF FindLine, Goto, End
    <3>2. new.at \in {"idle", "load"} /\ (new.at # "idle" => new.file = st.file)
      BY <1>1, <3>1 DEF Idle, Procs
    <3> QED BY <1>1, <2>1, <2>2, <2>3, <3>1, <3>2, MarksKept, SavedKept DEF FindLine
  <2>4. CASE LoadLines(s)
    <3> DEFINE lines == Marked(registry, st.file[1])
               new == [st EXCEPT !.at = "truncate", !.lines = lines]
    <3>1. MarksSaved(lines)
      <4>1. /\ DOMAIN lines = DOMAIN registry
            /\ \A i \in DOMAIN registry :
                 /\ SourceOf(lines[i]) = SourceOf(registry[i])
                 /\ lines[i].extracted => registry[i].extracted \/ SourceOf(registry[i]) = st.file[1]
        BY <1>1, MarkedLines
      <4> HIDE DEF lines
      <4> QED BY <2>1, <4>1 DEF MarksSaved, SavedInv
    <3>2. proc' = [proc EXCEPT ![s] = new] /\ UNCHANGED registry
      BY <1>1, <2>4 DEF LoadLines
    <3> HIDE DEF lines
    <3>3. new.file = st.file /\ new.lines = lines BY <1>1 DEF Procs
    <3> HIDE DEF new
    <3> QED BY <1>1, <2>1, <2>2, <3>1, <3>2, <3>3, MarksKept, SavedKept
  <2>5. CASE Truncate(s)
    <3> DEFINE new == [st EXCEPT !.at = "rewrite"]
    <3>1. proc' = [proc EXCEPT ![s] = new] /\ registry' = <<>>
      BY <1>1, <2>5 DEF Truncate, Goto
    <3>2. MarksSaved(registry)' BY <3>1, EmptyLines DEF MarksSaved
    <3>3. new.file = st.file /\ new.lines = st.lines /\ MarksSaved(st.lines)
      BY <1>1, <2>5 DEF Procs, Truncate
    <3> HIDE DEF new
    <3> QED BY <1>1, <2>1, <2>2, <3>1, <3>2, <3>3, SavedKept
  <2>6. CASE Rewrite(s)
    <3>1. MarksSaved(registry) /\ MarksSaved(st.lines) BY <1>1, <2>6 DEF Rewrite, SavedInv
    <3>2. registry' = registry \/ registry' = st.lines BY <2>6 DEF Rewrite
    <3>3. MarksSaved(registry)' BY <2>2, <3>1, <3>2 DEF MarksSaved, SourceOf
    <3>4. proc' = [proc EXCEPT ![s] = Idle] /\ Idle.at = "idle" BY <2>6 DEF Rewrite, End, Idle
    <3> QED BY <1>1, <2>1, <3>3, <3>4, SavedKept
  <2> QED BY <1>3, <2>3, <2>4, <2>5, <2>6 DEF SaverStep
<1> QED BY <1>2, <1>3

LEMMA SavedStep == RolesInv /\ SavedInv /\ [Next]_vars => SavedInv'
<1> SUFFICES ASSUME RolesInv, SavedInv, [Next]_vars PROVE SavedInv'
  OBVIOUS
<1>1. proc \in [Processes -> Procs] /\ registry \in Seq(Lines) BY DEF RolesInv, TypeOK
<1>2. ASSUME NEW p \in Processes, p \notin Savers, UNCHANGED <<registry, saved>>,
             NEW state, proc' = [proc EXCEPT ![p] = state]
      PROVE  SavedInv'
  BY <1>2, MarksKept, SavedKept
<1>3. ASSUME NEW a \in Adders, StartAdd(a) PROVE SavedInv'
  BY <1>2, <1>3, ConstantsAssumption DEF StartAdd, Begin, Processes
<1>4. ASSUME NEW h \in Hooks, StartHook(h) \/ ReadRecords(h) \/ Commit(h) PROVE SavedInv'
  <2>1. h \in Processes /\ h \notin Savers BY ConstantsAssumption DEF Processes
  <2>2. \E state : proc' = [proc EXCEPT ![h] = state]
    BY <1>1, <1>4, <2>1 DEF StartHook, Begin, ReadRecords, Commit, End, Goto
  <2>3. UNCHANGED <<registry, saved>> BY <1>4 DEF StartHook, ReadRecords, Commit
  <2> QED BY <1>2, <2>1, <2>2, <2>3
<1>5. ASSUME NEW p \in Processes, AddStep(p) PROVE SavedInv'
  <2>1. p \notin Savers
    <3>1. proc[p].at \in AddSteps
      BY <1>5 DEF AddStep, Check, GetExisting, OpenFile, WriteFile, CheckAgain, AppendLine, AddSteps
    <3> QED BY <3>1 DEF RolesInv, Saver, AddSteps
  <2>2. PICK state : proc' = [proc EXCEPT ![p] = state]
    BY <1>1, <1>5 DEF AddStep, Check, GetExisting, OpenFile, WriteFile, CheckAgain, AppendLine,
                Goto, End, Added
  <2>3. CASE AppendLine(p)
    <3>1. proc[p].file \in Files BY <2>3 DEF AppendLine, RolesInv, FileAtHand
    <3>2. saved' = saved /\ registry' = Append(registry, [file |-> proc[p].file, extracted |-> FALSE])
      BY <2>3 DEF AppendLine
    <3>3. /\ DOMAIN registry' = DOMAIN registry \union {Len(registry) + 1}
          /\ \A i \in DOMAIN registry : registry'[i] = registry[i]
          /\ registry'[Len(registry) + 1].extracted = FALSE
      BY <1>1, <3>1, <3>2, AppendedLine
    <3>4. MarksSaved(registry)' BY <3>2, <3>3 DEF SavedInv, MarksSaved, Saved, SourceOf
    <3> QED BY <2>1, <2>2, <3>2, <3>4, SavedKept
  <2>4. CASE ~AppendLine(p)
    <3>1. UNCHANGED <<registry, saved>>
      <4>1. CASE Check(p) \/ GetExisting(p) \/ CheckAgain(p)
        BY <4>1 DEF Check, GetExisting, CheckAgain
      <4>2. CASE OpenFile(p) \/ WriteFile(p) BY <4>2 DEF OpenFile, WriteFile
      <4> QED BY <1>5, <2>4, <4>1, <4>2 DEF AddStep
    <3> QED BY <1>2, <2>1, <2>2, <3>1
  <2> QED BY <2>3, <2>4
<1>6. ASSUME NEW p \in Processes, Crash(p) PROVE SavedInv'
  <2>1. UNCHANGED <<registry, saved>> /\ proc' = [proc EXCEPT ![p] = Idle] /\ Idle.at = "idle"
    BY <1>6 DEF Crash, End, Idle
  <2> QED BY <2>1, MarksKept, SavedKept
<1>7. CASE NewDay \/ UNCHANGED vars
  BY <1>7 DEF NewDay, vars, SavedInv, MarksSaved, Saved, SourceOf
<1> QED
  BY <1>3, <1>4, <1>5, <1>6, <1>7, SaverStepSaved DEF Next, SaverStep

-----------------------------------------------------------------------------
(***************************************************************************)
(* Conversations are stored whole, and once.                               *)
(***************************************************************************)

LEMMA InitConversations == Init => ConversationsInv
<1> SUFFICES ASSUME Init PROVE ConversationsInv
  OBVIOUS
<1>1. \A p \in Processes : proc[p] = Idle /\ Idle.at = "idle" BY DEF Init, Idle
<1>2. Once(registry) /\ FilesOf(registry) = {} BY EmptyLines DEF Init, Once
<1>3. \A h \in Hooks : AtWork(proc[h]) BY <1>1 DEF AtWork, Processes
<1>4. RecordsInv BY DEF Init, RecordsInv, CommittedRecords
<1>5. LinesInv BY <1>1, <1>2 DEF Init, LinesInv, Processes
<1> QED BY <1>3, <1>4, <1>5 DEF ConversationsInv

\* At most one hook is at work.
LEMMA OneHook ==
  ASSUME RolesInv, NEW h \in Hooks, proc[h].at # "idle", NEW g \in Hooks \ {h}
  PROVE  proc[g].at = "idle"
BY DEF RolesInv, Hook

LEMMA IdleAtWork ==
  ASSUME NEW hook, hook.at \in {"idle", "records"}
  PROVE  AtWork(hook)
BY DEF AtWork

\* What a hook has is as good after a step that leaves files, registry and log.
LEMMA WorkKept ==
  ASSUME NEW hook, AtWork(hook), UNCHANGED <<known, raw, log>>, disturbed => disturbed'
  PROVE  AtWork(hook)'
BY DEF AtWork, Committed, Registered

LEMMA RecordsKept ==
  ASSUME RecordsInv, UNCHANGED <<known, raw, log, answered>>, disturbed => disturbed'
  PROVE  RecordsInv'
BY DEF RecordsInv, Committed, CommittedRecords, Registered

\* A step that leaves all of that: only what the process holds is new.
LEMMA ConversationsKept ==
  ASSUME RolesInv, ConversationsInv, NEW p \in Processes, NEW state,
         proc' = [proc EXCEPT ![p] = state],
         UNCHANGED <<registry, known, raw, log, answered>>, disturbed => disturbed',
         p \in Hooks => AtWork(state)',
         p \in Savers => state.at # "rewrite"
  PROVE  ConversationsInv'
<1>1. \A q \in Processes : proc'[q] = IF q = p THEN state ELSE proc[q]
  BY DEF RolesInv, TypeOK
<1>2. ASSUME NEW h \in Hooks PROVE AtWork(proc[h])'
  <2>1. CASE h = p
    <3>1. proc'[h] = state BY <1>1, <2>1
    <3> QED BY <2>1, <3>1 DEF AtWork, Committed, Registered
  <2>2. CASE h # p
    <3>1. proc'[h] = proc[h] BY <1>1, <2>2 DEF Processes
    <3> QED BY <3>1, WorkKept DEF ConversationsInv, AtWork, Committed, Registered
  <2> QED BY <2>1, <2>2
<1>3. RecordsInv' BY RecordsKept DEF ConversationsInv
<1>4. LinesInv'
  <2>1. \A s \in Savers : proc'[s].at = "rewrite" => proc'[s] = proc[s]
    BY <1>1 DEF Processes
  <2> QED BY <2>1 DEF ConversationsInv, LinesInv, FilesOf, Once, SourceOf
<1> QED BY <1>2, <1>3, <1>4 DEF ConversationsInv

\* A file is written: it belongs to no committed record, and to no registered
\* conversation, or becomes whole.
LEMMA FileWritten ==
  ASSUME RolesInv, ConversationsInv, NEW p \in Processes, NEW state, NEW f \in Files, NEW content,
         proc' = [proc EXCEPT ![p] = state], raw' = [raw EXCEPT ![f] = content],
         UNCHANGED <<registry, known, log, answered, disturbed>>, p \notin Savers,
         \/ content = "whole"
         \/ \A r \in CommittedRecords : r.file # f
         \/ f[1] \in Documents,
         \/ content = "whole"
         \/ f[1] \in Documents
         \/ ~disturbed => f \notin known,
         p \in Hooks => AtWork(state)' /\ proc[p].at # "idle",
         p \in Hooks \/ f[1] \in Documents
  PROVE  ConversationsInv'
<1>1. \A q \in Processes : proc'[q] = IF q = p THEN state ELSE proc[q]
  BY DEF RolesInv, TypeOK
<1>2. \A g \in Files : raw'[g] = IF g = f THEN content ELSE raw[g]
  BY DEF RolesInv, TypeOK
<1>3. ASSUME NEW h \in Hooks PROVE AtWork(proc[h])'
  <2>1. CASE h = p
    <3>1. proc'[h] = state BY <1>1, <2>1
    <3> QED BY <2>1, <3>1 DEF AtWork, Committed, Registered
  <2>2. CASE h # p
    <3>1. proc'[h] = proc[h] BY <1>1, <2>2 DEF Processes
    <3>2. CASE p \in Hooks
      <4>1. proc[h].at = "idle" BY <2>2, <3>2, OneHook
      <4> QED BY <3>1, <4>1 DEF AtWork
    <3>3. CASE f[1] \in Documents
      <4>1. proc[h].at \in {"again", "append", "commit"} =>
              proc[h].file \in Files /\ proc[h].file # f
        BY <3>3, ConstantsAssumption DEF RolesInv, Hook, FileAtHand, Processes
      <4>2. AtWork(proc[h]) BY DEF ConversationsInv
      <4> QED BY <1>2, <3>1, <4>1, <4>2 DEF AtWork, Committed, Registered
    <3> QED BY <3>2, <3>3
  <2> QED BY <2>1, <2>2
<1>4. RecordsInv'
  <2>1. \A r \in CommittedRecords : r.file \in Files /\ (r.file # f \/ content = "whole")
    BY ConstantsAssumption DEF ConversationsInv, RecordsInv
  <2> QED BY <1>2, <2>1 DEF ConversationsInv, RecordsInv, Committed, CommittedRecords, Registered
<1>5. LinesInv'
  <2>1. \A s \in Savers : proc'[s] = proc[s] BY <1>1 DEF Processes
  <2>2. known \subseteq Files BY DEF RolesInv, TypeOK
  <2>3. ~disturbed => \A g \in known : g[1] \in Renderings => raw'[g] = "whole"
    BY <1>2, <2>2, ConstantsAssumption DEF ConversationsInv, LinesInv
  <2> QED BY <2>1, <2>3 DEF ConversationsInv, LinesInv, FilesOf, Once, SourceOf
<1> QED BY <1>3, <1>4, <1>5 DEF ConversationsInv

LEMMA AddStepConversations ==
  ASSUME RolesInv, RegistryInv, ConversationsInv, NEW p \in Processes, AddStep(p)
  PROVE  ConversationsInv'
<1>0. PICK st : st = proc[p] OBVIOUS
<1> USE <1>0
<1>1. /\ TypeOK /\ RoleOf(p, st) /\ st \in Procs /\ proc \in [Processes -> Procs]
      /\ registry \in Seq(Lines) /\ raw \in [Files -> RawStates]
  BY RolesHeld DEF RoleOf, TypeOK
<1>2. st.at \in AddSteps
  BY DEF AddStep, Check, GetExisting, OpenFile, WriteFile, CheckAgain, AppendLine, AddSteps
<1>3. p \notin Savers /\ (p \in Adders => st.source \in Documents)
      /\ (p \in Hooks => st.source \in Renderings) /\ (p \in Adders \/ p \in Hooks)
  BY <1>1, <1>2, ConstantsAssumption DEF RoleOf, AddSteps, Processes
<1>4. p \in Hooks => AtWork(st)
  BY DEF ConversationsInv
<1>5. /\ [st EXCEPT !.at = "get"].source = st.source
      /\ [st EXCEPT !.at = "get"].file = st.file
  BY <1>1 DEF Procs
<1>6. Idle.at = "idle" BY DEF Idle
<1>7. ASSUME ~disturbed, ~Emptied(p)
      PROVE  FilesOf(registry) = known /\ (Has(st.source) <=> Registered(st.source))
  <2>1. FilesOf(registry) = known BY <1>3, <1>7, ReadsComplete
  <2> QED BY <2>1, HasFile DEF Registered
<1>8. CASE Check(p)
  <2>1. /\ UNCHANGED <<registry, known, raw, log, answered>> /\ (disturbed => disturbed')
        /\ ~disturbed' => ~disturbed /\ ~Emptied(p)
    BY <1>8 DEF Check, ReadsRegistry
  <2>2. CASE Has(st.source)
    <3>a. PICK new : new = [st EXCEPT !.at = "get"] OBVIOUS
    <3>1. new.at = "get" /\ new.source = st.source BY <1>1, <3>a DEF Procs
    <3>2. proc' = [proc EXCEPT ![p] = new] BY <1>1, <3>a, <1>8, <2>2 DEF Check, Goto
    <3>3. p \in Hooks => AtWork(new)'
      BY <1>2, <1>4, <2>1, <3>1 DEF AtWork, Committed, AddSteps
    <3> QED BY <1>3, <2>1, <3>2, <3>3, ConversationsKept
  <2>3. CASE ~Has(st.source)
    <3>a. PICK new : new = [st EXCEPT !.at = "write"] OBVIOUS
    <3>1. new.at = "write" /\ new.source = st.source BY <1>1, <3>a DEF Procs
    <3>2. proc' = [proc EXCEPT ![p] = new] BY <1>1, <3>a, <1>8, <2>3 DEF Check, Goto
    <3>3. p \in Hooks => AtWork(new)'
      BY <1>2, <1>4, <1>7, <2>1, <2>3, <3>1 DEF AtWork, Committed, AddSteps, Registered
    <3> QED BY <1>3, <2>1, <3>2, <3>3, ConversationsKept
  <2> QED BY <2>2, <2>3
<1>9. CASE GetExisting(p)
  <2>1. /\ UNCHANGED <<registry, known, raw, log, answered>> /\ (disturbed => disturbed')
        /\ ~disturbed' => ~disturbed /\ ~Emptied(p)
    BY <1>9 DEF GetExisting, ReadsRegistry
  <2>2. CASE p \in Hooks /\ Has(st.source)
    <3>a. PICK file : file = FirstLine(st.source).file OBVIOUS
    <3>b. PICK new : new = [st EXCEPT !.at = "commit", !.file = file] OBVIOUS
    <3>1. file \in FilesOf(registry) /\ file[1] = st.source BY <1>1, <2>2, <3>a, FirstLineOfSource
    <3>2. proc' = [proc EXCEPT ![p] = new] BY <1>1, <1>9, <2>2, <3>a, <3>b DEF GetExisting
    <3>3. new.at = "commit" /\ new.source = st.source /\ new.file = file BY <1>1, <3>b DEF Procs
    <3>4. ~disturbed' => file \in known /\ raw[file] = "whole"
      BY <1>3, <1>7, <2>1, <2>2, <3>1 DEF ConversationsInv, LinesInv
    <3>5. AtWork(new)'
      BY <1>2, <1>4, <2>1, <2>2, <3>3, <3>4 DEF AtWork, Committed, AddSteps, Registered
    <3> QED BY <1>3, <2>1, <3>2, <3>5, ConversationsKept
  <2>3. CASE ~(p \in Hooks /\ Has(st.source))
    <3>1. proc' = [proc EXCEPT ![p] = Idle] BY <1>9, <2>3 DEF GetExisting, End
    <3> QED BY <1>3, <1>6, <2>1, <3>1, IdleAtWork, ConversationsKept DEF AtWork
  <2> QED BY <2>2, <2>3
<1>10. CASE OpenFile(p)
  <2>a. PICK file : file = <<st.source, today>> OBVIOUS
  <2>b. PICK new : new = [st EXCEPT !.at = "writing", !.file = file] OBVIOUS
  <2>1. file \in Files /\ file[1] = st.source
    BY <1>1, <1>3, <2>a DEF Files, TypeOK, Sources
  <2>2. /\ proc' = [proc EXCEPT ![p] = new] /\ raw' = [raw EXCEPT ![file] = "torn"]
        /\ UNCHANGED <<registry, known, log, answered, disturbed>> /\ st.at = "write"
    BY <1>1, <1>10, <2>a, <2>b DEF OpenFile
  <2>3. new.at = "writing" /\ new.source = st.source BY <1>1, <2>b DEF Procs
  <2>4. p \in Hooks => ~Committed(IdentityOf(st.source)) /\ (~disturbed => ~Registered(st.source))
    BY <1>4, <2>2 DEF AtWork
  <2>5. p \in Hooks => \A r \in CommittedRecords : r.file # file
    BY <2>1, <2>4 DEF ConversationsInv, RecordsInv, CommittedRecords, Committed
  <2>6. p \in Hooks => (~disturbed => file \notin known)
    BY <2>1, <2>4 DEF Registered
  <2>7. p \in Hooks => AtWork(new)'
    BY <2>2, <2>3, <2>4 DEF AtWork, Committed, Registered
  <2>8. p \notin Hooks => file[1] \in Documents BY <1>3, <2>1
  <2> QED BY <1>3, <2>1, <2>2, <2>5, <2>6, <2>7, <2>8, FileWritten
<1>11. CASE WriteFile(p)
  <2>a. PICK new : new = [st EXCEPT !.at = "again"] OBVIOUS
  <2>1. st.file \in Files /\ st.file[1] = st.source BY <1>1, <1>11 DEF WriteFile, RoleOf
  <2>2. /\ proc' = [proc EXCEPT ![p] = new] /\ raw' = [raw EXCEPT ![st.file] = "whole"]
        /\ UNCHANGED <<registry, known, log, answered, disturbed>> /\ st.at = "writing"
    BY <1>1, <1>11, <2>a DEF WriteFile, Goto
  <2>3. new.at = "again" /\ new.source = st.source /\ new.file = st.file BY <1>1, <2>a DEF Procs
  <2>4. raw'[st.file] = "whole" BY <1>1, <2>1, <2>2
  <2>5. p \in Hooks => AtWork(new)'
    BY <1>4, <2>2, <2>3, <2>4 DEF AtWork, Committed, Registered
  <2>6. p \notin Hooks => st.file[1] \in Documents BY <1>3, <2>1
  <2> QED BY <1>3, <2>1, <2>2, <2>5, <2>6, FileWritten
<1>12. CASE CheckAgain(p)
  <2>1. /\ UNCHANGED <<registry, known, raw, log, answered>> /\ (disturbed => disturbed')
        /\ ~disturbed' => ~disturbed /\ ~Emptied(p)
        /\ st.at = "again"
    BY <1>12 DEF CheckAgain, ReadsRegistry
  <2>2. CASE Has(st.source) /\ p \notin Hooks
    <3>1. proc' = [proc EXCEPT ![p] = Idle] BY <1>12, <2>2 DEF CheckAgain, Added, End
    <3> QED BY <1>3, <2>1, <2>2, <3>1, ConversationsKept
  <2>3. CASE Has(st.source) /\ p \in Hooks
    <3>a. PICK new : new = [st EXCEPT !.at = "commit"] OBVIOUS
    <3>1. new.at = "commit" /\ new.source = st.source /\ new.file = st.file BY <1>1, <3>a DEF Procs
    <3>2. proc' = [proc EXCEPT ![p] = new] BY <1>1, <3>a, <1>12, <2>3 DEF CheckAgain, Added, Goto
    <3>3. AtWork(new)'
      BY <1>4, <1>7, <2>1, <2>3, <3>1 DEF AtWork, Committed, Registered
    <3> QED BY <1>3, <2>1, <3>2, <3>3, ConversationsKept
  <2>4. CASE ~Has(st.source)
    <3>a. PICK new : new = [st EXCEPT !.at = "append"] OBVIOUS
    <3>1. new.at = "append" /\ new.source = st.source /\ new.file = st.file BY <1>1, <3>a DEF Procs
    <3>2. proc' = [proc EXCEPT ![p] = new] BY <1>1, <3>a, <1>12, <2>4 DEF CheckAgain, Goto
    <3>3. p \in Hooks => AtWork(new)'
      BY <1>4, <2>1, <3>1 DEF AtWork, Committed, Registered
    <3> QED BY <1>3, <2>1, <3>2, <3>3, ConversationsKept
  <2> QED BY <2>2, <2>3, <2>4
<1>13. CASE AppendLine(p)
  <2>1. /\ UNCHANGED <<raw, log, answered>> /\ (disturbed => disturbed') /\ st.at = "append"
        /\ registry' = Append(registry, [file |-> st.file, extracted |-> FALSE])
        /\ known' = known \union {st.file}
    BY <1>13 DEF AppendLine, WritesRegistry
  <2>2. st.file \in Files /\ st.file[1] = st.source BY <1>1, <2>1 DEF RoleOf
  <2>3. PICK new : proc' = [proc EXCEPT ![p] = new]
                   /\ (p \in Hooks => new = [st EXCEPT !.at = "commit"])
    BY <1>1, <1>13 DEF AppendLine, Added, Goto, End
  <2>4. p \in Hooks => new.at = "commit" /\ new.source = st.source /\ new.file = st.file
    BY <1>1, <2>3 DEF Procs
  <2>5. \A q \in Processes : proc'[q] = IF q = p THEN new ELSE proc[q] BY <1>1, <2>3
  <2>6. ASSUME NEW h \in Hooks PROVE AtWork(proc[h])'
    <3>1. CASE h = p
      <4>1. proc'[h] = new BY <2>5, <3>1
      <4>2. st.file \in known' BY <2>1
      <4> QED BY <1>4, <2>1, <2>4, <3>1, <4>1, <4>2 DEF AtWork, Committed, Registered
    <3>2. CASE h # p
      <4>1. proc'[h] = proc[h] BY <2>5, <3>2 DEF Processes
      <4>2. CASE p \in Hooks
        <5>1. proc[h].at = "idle" BY <2>1, <3>2, <4>2, OneHook
        <5> QED BY <4>1, <5>1 DEF AtWork
      <4>3. CASE p \notin Hooks
        <5>1. proc[h].at # "idle" => proc[h].source # st.file[1]
          BY <1>3, <2>2, <4>3, ConstantsAssumption DEF RolesInv, Hook
        <5>2. AtWork(proc[h]) BY DEF ConversationsInv
        <5> QED BY <2>1, <4>1, <5>1, <5>2 DEF AtWork, Committed, Registered
      <4> QED BY <4>2, <4>3
    <3> QED BY <3>1, <3>2
  <2>7. RecordsInv'
    BY <2>1 DEF ConversationsInv, RecordsInv, Committed, CommittedRecords, Registered
  <2>8. LinesInv'
    <3> SUFFICES ASSUME ~disturbed' PROVE /\ \A f \in known' : f[1] \in Renderings => raw'[f] = "whole"
                                         /\ FilesOf(registry') \subseteq known'
                                         /\ Once(registry')
                                         /\ \A s \in Savers : proc'[s].at # "rewrite"
      BY DEF LinesInv
    <3>1. ~disturbed /\ \A s \in Savers : proc[s].at # "rewrite"
      BY <1>3, <1>13 DEF AppendLine, WritesRegistry, Rewriting
    <3>2. \A s \in Savers : proc'[s].at # "rewrite" BY <1>3, <2>5, <3>1 DEF Processes
    <3>3. \A f \in known' : f[1] \in Renderings => raw'[f] = "whole"
      <4>1. p \in Hooks => raw[st.file] = "whole" BY <1>4, <2>1 DEF AtWork
      <4>2. p \notin Hooks => st.file[1] \notin Renderings
        BY <1>3, <2>2, ConstantsAssumption
      <4> QED BY <2>1, <3>1, <4>1, <4>2 DEF ConversationsInv, LinesInv
    <3>4. FilesOf(registry') = FilesOf(registry) \union {st.file}
      BY <1>1, <2>1, <2>2, AppendedLine
    <3>5. Once(registry')
      <4>1. /\ DOMAIN registry' = DOMAIN registry \union {Len(registry) + 1}
            /\ \A i \in DOMAIN registry : registry'[i] = registry[i]
            /\ registry'[Len(registry) + 1].file = st.file
        BY <1>1, <2>1, <2>2, AppendedLine
      <4>2. st.file[1] \in Renderings => \A i \in DOMAIN registry : SourceOf(registry[i]) # st.file[1]
        <5>1. p \in Hooks => ~Registered(st.source) BY <1>4, <2>1, <3>1 DEF AtWork
        <5>2. \A i \in DOMAIN registry : registry[i].file \in known
          BY <3>1 DEF ConversationsInv, LinesInv, FilesOf
        <5> QED BY <1>3, <2>2, <5>1, <5>2, ConstantsAssumption DEF Registered, SourceOf
      <4>3. Once(registry) BY <3>1 DEF ConversationsInv, LinesInv
      <4>4. SourceOf(registry'[Len(registry) + 1]) = st.file[1] BY <4>1 DEF SourceOf
      <4> QED BY <4>1, <4>2, <4>3, <4>4 DEF Once
    <3>6. FilesOf(registry) \subseteq known BY <3>1 DEF ConversationsInv, LinesInv
    <3> QED BY <2>1, <3>2, <3>3, <3>4, <3>5, <3>6
  <2> QED BY <2>6, <2>7, <2>8 DEF ConversationsInv
<1> QED BY <1>8, <1>9, <1>10, <1>11, <1>12, <1>13 DEF AddStep

LEMMA HookStepConversations ==
  ASSUME RolesInv, ConversationsInv, NEW h \in Hooks, StartHook(h) \/ ReadRecords(h) \/ Commit(h)
  PROVE  ConversationsInv'
<1> DEFINE st == proc[h]
<1>1. /\ h \in Processes /\ h \notin Savers /\ proc \in [Processes -> Procs] /\ st \in Procs
      /\ st.at # "idle" => st.source \in Renderings /\ IdentityOf(st.source) \in Conversations
      /\ Savers \subseteq Processes /\ Hooks \subseteq Processes
  BY ConstantsAssumption, RenderingOfConversation DEF RolesInv, TypeOK, Hook, Processes
<1>2. Idle.at = "idle" BY DEF Idle
<1>3. CASE StartHook(h)
  <2>1. PICK c \in Renderings : proc' = [proc EXCEPT ![h] = [Idle EXCEPT !.at = "records", !.source = c]]
    BY <1>3 DEF StartHook, Begin
  <2> DEFINE new == [Idle EXCEPT !.at = "records", !.source = c]
  <2>2. new.at = "records" BY DEF Idle
  <2>3. UNCHANGED <<registry, known, raw, log, answered, disturbed>> BY <1>3 DEF StartHook
  <2> HIDE DEF new
  <2>4. AtWork(new)' BY <2>2 DEF AtWork
  <2> QED BY <1>1, <2>1, <2>3, <2>4, ConversationsKept DEF new
<1>4. CASE ReadRecords(h) /\ Committed(IdentityOf(st.source))
  <2>1. /\ proc' = [proc EXCEPT ![h] = Idle] /\ answered' = answered \union {IdentityOf(st.source)}
        /\ UNCHANGED <<registry, known, raw, log, disturbed>>
    BY <1>4 DEF ReadRecords, End
  <2>2. \A q \in Processes : proc'[q] = IF q = h THEN Idle ELSE proc[q] BY <1>1, <2>1
  <2>3. ASSUME NEW g \in Hooks PROVE AtWork(proc[g])'
    <3>1. AtWork(proc[g]) BY DEF ConversationsInv
    <3>2. proc'[g] = Idle \/ proc'[g] = proc[g] BY <1>1, <2>2
    <3> QED BY <1>2, <2>1, <3>1, <3>2 DEF AtWork, Committed, Registered
  <2>4. RecordsInv'
    BY <1>4, <2>1 DEF ConversationsInv, RecordsInv, Committed, CommittedRecords, Registered
  <2>5. \A s \in Savers : proc'[s] = proc[s] BY <1>1, <2>2
  <2>6. LinesInv' BY <2>1, <2>5 DEF ConversationsInv, LinesInv, FilesOf, Once, SourceOf
  <2> QED BY <2>3, <2>4, <2>6 DEF ConversationsInv
<1>5. CASE ReadRecords(h) /\ ~Committed(IdentityOf(st.source))
  <2> DEFINE new == [st EXCEPT !.at = "check"]
  <2>1. /\ proc' = [proc EXCEPT ![h] = new] /\ st.at = "records"
        /\ log' = log \union {[identity |-> IdentityOf(st.source), status |-> "pending", file |-> Nothing]}
        /\ UNCHANGED <<registry, known, raw, answered, disturbed>>
    BY <1>1, <1>5 DEF ReadRecords, Goto
  <2>2. new.at = "check" /\ new.source = st.source BY <1>1 DEF Procs
  <2> HIDE DEF new
  <2>3. CommittedRecords' = CommittedRecords /\ \A c : Committed(c)' <=> Committed(c)
    BY <2>1 DEF CommittedRecords, Committed
  <2>4. \A q \in Processes : proc'[q] = IF q = h THEN new ELSE proc[q] BY <1>1, <2>1
  <2>5. ASSUME NEW g \in Hooks PROVE AtWork(proc[g])'
    <3>1. CASE g = h
      <4>1. proc'[g] = new BY <1>1, <2>4, <3>1
      <4>2. ~(Committed(IdentityOf(proc[g].source)))' BY <1>5, <2>2, <2>3, <4>1 DEF Committed
      <4> QED BY <2>2, <4>1, <4>2 DEF AtWork
    <3>2. CASE g # h
      <4>1. proc'[g] = proc[g] /\ proc[g].at = "idle" BY <1>1, <2>1, <2>4, <3>2, OneHook
      <4> QED BY <4>1 DEF AtWork
    <3> QED BY <3>1, <3>2
  <2>6. RecordsInv'
    BY <2>1, <2>3 DEF ConversationsInv, RecordsInv, Registered
  <2>7. \A s \in Savers : proc'[s] = proc[s] BY <1>1, <2>4
  <2>8. LinesInv' BY <2>1, <2>7 DEF ConversationsInv, LinesInv, FilesOf, Once, SourceOf
  <2> QED BY <2>5, <2>6, <2>8 DEF ConversationsInv
<1>6. CASE Commit(h)
  <2> DEFINE record == [identity |-> IdentityOf(st.source), status |-> "committed", file |-> st.file]
  <2>1. /\ proc' = [proc EXCEPT ![h] = Idle] /\ st.at = "commit"
        /\ log' = log \union {record} /\ answered' = answered \union {IdentityOf(st.source)}
        /\ UNCHANGED <<registry, known, raw, disturbed>>
    BY <1>6 DEF Commit, End
  <2>2. record.identity = IdentityOf(st.source) /\ record.status = "committed" /\ record.file = st.file
    OBVIOUS
  <2> HIDE DEF record
  <2>3. CommittedRecords' = CommittedRecords \union {record}
    BY <2>1, <2>2 DEF CommittedRecords
  <2>4. /\ ~Committed(IdentityOf(st.source)) /\ st.file \in Files /\ st.file[1] = st.source
        /\ ~disturbed => st.file \in known /\ raw[st.file] = "whole"
    BY <1>1, <2>1 DEF ConversationsInv, AtWork, RolesInv, FileAtHand
  <2>5. \A r \in CommittedRecords : r.identity # IdentityOf(st.source)
    BY <2>4 DEF Committed, CommittedRecords
  <2>6. \A c : Committed(c)' <=> (Committed(c) \/ c = IdentityOf(st.source))
    BY <2>1, <2>2 DEF Committed
  <2>7. \A q \in Processes : proc'[q] = IF q = h THEN Idle ELSE proc[q] BY <1>1, <2>1
  <2>8. ASSUME NEW g \in Hooks PROVE AtWork(proc[g])'
    <3>1. CASE g = h
      <4>1. proc'[g] = Idle BY <1>1, <2>7, <3>1
      <4> QED BY <1>2, <4>1 DEF AtWork
    <3>2. CASE g # h
      <4>1. proc'[g] = proc[g] /\ proc[g].at = "idle" BY <1>1, <2>1, <2>7, <3>2, OneHook
      <4> QED BY <4>1 DEF AtWork
    <3> QED BY <3>1, <3>2
  <2>9. RecordsInv'
    <3>1. \A c \in answered' : Committed(c)' BY <2>1, <2>6 DEF ConversationsInv, RecordsInv
    <3>3. ASSUME NEW r \in CommittedRecords'
          PROVE  /\ r.identity \in Conversations /\ r.file \in Files
                 /\ r.file[1] \in Renderings /\ IdentityOf(r.file[1]) = r.identity
                 /\ ~disturbed' => r.file \in known' /\ raw'[r.file] = "whole"
      BY <1>1, <2>1, <2>2, <2>3, <2>4 DEF ConversationsInv, RecordsInv
    <3>4. \A r, q \in CommittedRecords' : r.identity = q.identity => r = q
      BY <2>2, <2>3, <2>5 DEF ConversationsInv, RecordsInv
    <3> QED BY <3>1, <3>3, <3>4 DEF RecordsInv
  <2>10. \A s \in Savers : proc'[s] = proc[s] BY <1>1, <2>7
  <2>11. LinesInv' BY <2>1, <2>10 DEF ConversationsInv, LinesInv, FilesOf, Once, SourceOf
  <2> QED BY <2>8, <2>9, <2>11 DEF ConversationsInv
<1> QED BY <1>3, <1>4, <1>5, <1>6

LEMMA SaverStepConversations ==
  ASSUME RolesInv, RegistryInv, ConversationsInv, NEW s \in Savers, SaverStep(s)
  PROVE  ConversationsInv'
<1> DEFINE st == proc[s]
<1>1. /\ s \in Processes /\ s \notin Hooks /\ proc \in [Processes -> Procs] /\ st \in Procs
      /\ registry \in Seq(Lines) /\ Savers \subseteq Processes
  BY ConstantsAssumption DEF RolesInv, TypeOK, Processes
<1>2. CASE Normalize(s) \/ FindLine(s) \/ LoadLines(s)
  <2>1. /\ UNCHANGED <<registry, known, raw, log, answered>> /\ (disturbed => disturbed')
    <3>1. CASE Normalize(s) BY <3>1 DEF Normalize
    <3>2. CASE FindLine(s) BY <3>2 DEF FindLine, ReadsRegistry
    <3>3. CASE LoadLines(s) BY <3>3 DEF LoadLines, ReadsRegistry
    <3> QED BY <1>2, <3>1, <3>2, <3>3
  <2>2. PICK new : proc' = [proc EXCEPT ![s] = new] /\ new.at # "rewrite"
    <3>1. CASE Normalize(s)
      <4>1. PICK f : proc' = [proc EXCEPT ![s] = [Idle EXCEPT !.at = "find", !.file = f]]
        BY <3>1 DEF Normalize
      <4>2. [Idle EXCEPT !.at = "find", !.file = f].at = "find" BY DEF Idle
      <4> QED BY <4>1, <4>2
    <3>2. CASE FindLine(s)
      <4>1. \/ proc' = [proc EXCEPT ![s] = Idle]
            \/ proc' = [proc EXCEPT ![s] = [st EXCEPT !.at = "load"]]
        BY <1>1, <3>2 DEF FindLine, Goto, End
      <4>2. Idle.at = "idle" /\ [st EXCEPT !.at = "load"].at = "load" BY <1>1 DEF Idle, Procs
      <4> QED BY <4>1, <4>2
    <3>3. CASE LoadLines(s)
      <4> DEFINE lines == Marked(registry, st.file[1])
                 new == [st EXCEPT !.at = "truncate", !.lines = lines]
      <4>1. proc' = [proc EXCEPT ![s] = new] BY <1>1, <3>3 DEF LoadLines
      <4> HIDE DEF lines
      <4>2. new.at = "truncate" BY <1>1 DEF Procs
      <4> HIDE DEF new
      <4> QED BY <4>1, <4>2
    <3> QED BY <1>2, <3>1, <3>2, <3>3
  <2> QED BY <1>1, <2>1, <2>2, ConversationsKept
<1>3. CASE Truncate(s) \/ Rewrite(s)
  <2>1. UNCHANGED <<raw, log, known, answered>> /\ (disturbed => disturbed')
    BY <1>3 DEF Truncate, Rewrite, WritesRegistry
  <2>2. PICK new : proc' = [proc EXCEPT ![s] = new]
    BY <1>1, <1>3 DEF Truncate, Rewrite, Goto, End
  <2>3. \A q \in Processes : proc'[q] = IF q = s THEN new ELSE proc[q] BY <1>1, <2>2
  <2>4. ASSUME NEW h \in Hooks PROVE AtWork(proc[h])'
    <3>1. proc'[h] = proc[h] BY <1>1, <2>3 DEF Processes
    <3> QED BY <2>1, <3>1 DEF ConversationsInv, AtWork, Committed, Registered
  <2>5. RecordsInv' BY <2>1, RecordsKept DEF ConversationsInv
  <2>6. LinesInv'
    <3> SUFFICES ASSUME ~disturbed'
                 PROVE  /\ FilesOf(registry') \subseteq known
                        /\ Once(registry')
                        /\ \A t \in Savers : proc'[t].at = "rewrite" => Once(proc'[t].lines)
      BY <2>1 DEF LinesInv, ConversationsInv
    <3>1. ~disturbed BY <2>1
    <3>2. /\ FilesOf(registry) \subseteq known /\ Once(registry)
          /\ \A t \in Savers : proc[t].at = "rewrite" => Once(proc[t].lines)
          /\ Carries(s)
      BY <3>1 DEF ConversationsInv, LinesInv, RegistryInv
    <3>3. CASE Truncate(s)
      <4>1. registry' = <<>> /\ st.at = "truncate" BY <3>3 DEF Truncate
      <4>2. FilesOf(registry') = {} /\ Once(registry') BY <4>1, EmptyLines DEF Once
      <4>3. \A q \in Processes : proc'[q].lines = proc[q].lines
        BY <1>1, <3>3 DEF Truncate, Goto, Procs
      <4>4. Once(st.lines) BY <1>1, <3>2, <4>1, MarkedOnce DEF Carries
      <4>5. ASSUME NEW t \in Savers, proc'[t].at = "rewrite" PROVE Once(proc'[t].lines)
        <5>1. t # s => proc'[t] = proc[t] BY <1>1, <2>3
        <5>2. proc'[t].lines = proc[t].lines BY <1>1, <4>3
        <5> QED BY <3>2, <4>4, <4>5, <5>1, <5>2
      <4> QED BY <4>2, <4>5
    <3>4. CASE Rewrite(s)
      <4>1. /\ registry' = registry \/ registry' = st.lines
            /\ proc' = [proc EXCEPT ![s] = Idle] /\ st.at = "rewrite"
        BY <3>4 DEF Rewrite, End
      <4>2. FilesOf(st.lines) = known /\ Once(st.lines) BY <3>2, <4>1 DEF Carries
      <4>3. ASSUME NEW t \in Savers, proc'[t].at = "rewrite" PROVE Once(proc'[t].lines)
        <5>1. t # s /\ proc'[t] = proc[t] BY <1>1, <4>1, <4>3 DEF Idle
        <5> QED BY <3>2, <4>3, <5>1
      <4> QED BY <3>2, <4>1, <4>2, <4>3
    <3> QED BY <1>3, <3>3, <3>4
  <2> QED BY <2>4, <2>5, <2>6 DEF ConversationsInv
<1> QED BY <1>2, <1>3 DEF SaverStep

LEMMA ConversationsStep == RolesInv /\ RegistryInv /\ ConversationsInv /\ [Next]_vars => ConversationsInv'
<1> SUFFICES ASSUME RolesInv, RegistryInv, ConversationsInv, [Next]_vars PROVE ConversationsInv'
  OBVIOUS
<1>1. ASSUME NEW a \in Adders, StartAdd(a) PROVE ConversationsInv'
  <2>1. a \in Processes /\ a \notin Savers /\ a \notin Hooks BY ConstantsAssumption DEF Processes
  <2>2. \E state : proc' = [proc EXCEPT ![a] = state] BY <1>1 DEF StartAdd, Begin
  <2>3. UNCHANGED <<registry, known, raw, log, answered, disturbed>> BY <1>1 DEF StartAdd
  <2> QED BY <2>1, <2>2, <2>3, ConversationsKept
<1>2. ASSUME NEW p \in Processes, Crash(p) PROVE ConversationsInv'
  <2>1. /\ proc' = [proc EXCEPT ![p] = Idle] /\ Idle.at = "idle"
        /\ UNCHANGED <<registry, known, raw, log, answered>> /\ (disturbed => disturbed')
    BY <1>2 DEF Crash, End, Idle
  <2>2. AtWork(Idle)' BY <2>1 DEF AtWork
  <2> QED BY <2>1, <2>2, ConversationsKept
<1>3. CASE NewDay \/ UNCHANGED vars
  <2>1. UNCHANGED <<registry, known, raw, log, answered, disturbed, proc>> BY <1>3 DEF NewDay, vars
  <2>2. \A h \in Hooks : AtWork(proc[h])'
    BY <2>1 DEF ConversationsInv, AtWork, Committed, Registered
  <2>3. RecordsInv' BY <2>1, RecordsKept DEF ConversationsInv
  <2>4. LinesInv' BY <2>1 DEF ConversationsInv, LinesInv, FilesOf, Once, SourceOf
  <2> QED BY <2>2, <2>3, <2>4 DEF ConversationsInv
<1> QED
  BY <1>1, <1>2, <1>3, AddStepConversations, HookStepConversations, SaverStepConversations
  DEF Next, SaverStep
-----------------------------------------------------------------------------
(***************************************************************************)
(* Every registered rendering is accounted for.                            *)
(***************************************************************************)

LEMMA InitOwners == Init => OwnersInv
BY DEF Init, OwnersInv

\* A step of one process, which accounts for the file it was about to commit.
LEMMA OwnersKept ==
  ASSUME RolesInv, OwnersInv, NEW p \in Processes, NEW state,
         proc' = [proc EXCEPT ![p] = state],
         known' = known, log \subseteq log', orphaned \subseteq orphaned',
         p \in Hooks /\ proc[p].at = "commit" =>
           \/ proc[p].file \in orphaned'
           \/ \E r \in CommittedRecords' : r.file = proc[p].file
  PROVE  OwnersInv'
<1>1. \A q \in Processes : proc'[q] = IF q = p THEN state ELSE proc[q]
  BY DEF RolesInv, TypeOK
<1>2. CommittedRecords \subseteq CommittedRecords' BY DEF CommittedRecords
<1>3. ASSUME NEW f \in known, f[1] \in Renderings PROVE Owned(f)'
  <2>1. Owned(f) BY <1>3 DEF OwnersInv
  <2>2. CASE f \in orphaned \/ \E r \in CommittedRecords : r.file = f
    BY <1>2, <2>2 DEF Owned
  <2>3. CASE \E h \in Hooks : proc[h].at = "commit" /\ proc[h].file = f
    <3>1. PICK h \in Hooks : proc[h].at = "commit" /\ proc[h].file = f BY <2>3
    <3>2. h # p => proc'[h] = proc[h] BY <1>1 DEF Processes
    <3> QED BY <3>1, <3>2 DEF Owned
  <2> QED BY <2>1, <2>2, <2>3 DEF Owned
<1> QED BY <1>3 DEF OwnersInv

\* The line that a hook appends is about to be committed.
LEMMA AppendOwned ==
  ASSUME RolesInv, OwnersInv, NEW p \in Processes, AppendLine(p)
  PROVE  OwnersInv'
<1>0. PICK st, file : st = proc[p] /\ file = st.file OBVIOUS
<1>1. st \in Procs /\ RoleOf(p, st) /\ proc \in [Processes -> Procs]
  BY <1>0, RolesHeld DEF TypeOK, RoleOf
<1>2. /\ st.at = "append" /\ known' = known \union {file} /\ UNCHANGED <<log, orphaned>>
      /\ file[1] = st.source
  BY <1>0, <1>1 DEF AppendLine, RoleOf
<1>3. p \in Hooks => proc' = [proc EXCEPT ![p].at = "commit"]
  BY DEF AppendLine, Added, Goto
<1>4. \A h \in Hooks : h # p => proc'[h] = proc[h]
  BY <1>1 DEF AppendLine, Added, Goto, End, Processes
<1>5. CommittedRecords' = CommittedRecords BY <1>2 DEF CommittedRecords
<1>6. ASSUME NEW f \in known, f[1] \in Renderings PROVE Owned(f)'
  BY <1>0, <1>2, <1>4, <1>5, <1>6 DEF OwnersInv, Owned
<1>7. ASSUME file[1] \in Renderings PROVE Owned(file)'
  <2>1. p \in Hooks
    <3>1. p \notin Savers BY <1>1, <1>2 DEF RoleOf
    <3>2. p \in Adders => st.source \notin Renderings
      BY <1>1, <1>2, ConstantsAssumption DEF RoleOf
    <3> QED BY <1>2, <1>7, <3>1, <3>2 DEF Processes
  <2>2. proc'[p].at = "commit" /\ proc'[p].file = file
    BY <1>0, <1>1, <1>3, <2>1 DEF Procs
  <2> QED BY <2>1, <2>2 DEF Owned
<1> QED BY <1>2, <1>6, <1>7 DEF OwnersInv

LEMMA OwnersStep == RolesInv /\ OwnersInv /\ [Next]_vars => OwnersInv'
<1> SUFFICES ASSUME RolesInv, OwnersInv, [Next]_vars PROVE OwnersInv'
  OBVIOUS
<1>1. proc \in [Processes -> Procs] BY DEF RolesInv, TypeOK
<1>2. ASSUME NEW p \in Processes, Crash(p) PROVE OwnersInv'
  <2>1. /\ proc' = [proc EXCEPT ![p] = Idle] /\ UNCHANGED <<known, log>>
        /\ orphaned \subseteq orphaned' /\ (proc[p].at = "commit" => proc[p].file \in orphaned')
    BY <1>2 DEF Crash, End
  <2> QED BY <2>1, OwnersKept
<1>3. ASSUME NEW h \in Hooks, StartHook(h) \/ ReadRecords(h) \/ Commit(h) PROVE OwnersInv'
  <2>1. h \in Processes BY DEF Processes
  <2>2. PICK state : proc' = [proc EXCEPT ![h] = state]
    BY <1>1, <1>3, <2>1 DEF StartHook, Begin, ReadRecords, Commit, End, Goto
  <2>3. known' = known /\ orphaned' = orphaned /\ log \subseteq log'
    BY <1>3 DEF StartHook, ReadRecords, Commit
  <2>4. CASE Commit(h)
    <3> DEFINE record == [identity |-> IdentityOf(proc[h].source), status |-> "committed",
                          file |-> proc[h].file]
    <3>1. record \in log' /\ record.status = "committed" /\ record.file = proc[h].file
      BY <2>4 DEF Commit
    <3> HIDE DEF record
    <3>2. record \in CommittedRecords' BY <3>1 DEF CommittedRecords
    <3> QED BY <2>1, <2>2, <2>3, <3>1, <3>2, OwnersKept
  <2>5. CASE ~Commit(h)
    <3>1. proc[h].at # "commit" BY <1>3, <2>5 DEF StartHook, ReadRecords
    <3> QED BY <2>1, <2>2, <2>3, <3>1, OwnersKept
  <2> QED BY <2>4, <2>5
<1>4. ASSUME NEW p \in Processes, AddStep(p), ~AppendLine(p) PROVE OwnersInv'
  <2>1. PICK state : proc' = [proc EXCEPT ![p] = state]
    BY <1>1, <1>4 DEF AddStep, Check, GetExisting, OpenFile, WriteFile, CheckAgain,
                      Goto, End, Added
  <2>2. UNCHANGED <<known, log, orphaned>> /\ proc[p].at # "commit"
    <3>1. CASE Check(p) \/ GetExisting(p) \/ CheckAgain(p)
      BY <3>1 DEF Check, GetExisting, CheckAgain
    <3>2. CASE OpenFile(p) \/ WriteFile(p) BY <3>2 DEF OpenFile, WriteFile
    <3> QED BY <1>4, <3>1, <3>2 DEF AddStep
  <2> QED BY <2>1, <2>2, OwnersKept
<1>5. ASSUME NEW s \in Savers, SaverStep(s) PROVE OwnersInv'
  <2>1. s \in Processes /\ s \notin Hooks BY ConstantsAssumption DEF Processes
  <2>2. PICK state : proc' = [proc EXCEPT ![s] = state]
    <3>1. CASE Normalize(s) BY <3>1 DEF Normalize
    <3>2. CASE FindLine(s) BY <1>1, <2>1, <3>2 DEF FindLine, Goto, End
    <3>3. CASE LoadLines(s) BY <1>1, <2>1, <3>3 DEF LoadLines
    <3>4. CASE Truncate(s) \/ Rewrite(s) BY <1>1, <2>1, <3>4 DEF Truncate, Rewrite, Goto, End
    <3> QED BY <1>5, <3>1, <3>2, <3>3, <3>4 DEF SaverStep
  <2>3. UNCHANGED <<known, log, orphaned>>
    BY <1>5 DEF SaverStep, Normalize, FindLine, LoadLines, Truncate, Rewrite
  <2> QED BY <2>1, <2>2, <2>3, OwnersKept
<1>6. ASSUME NEW a \in Adders, StartAdd(a) PROVE OwnersInv'
  <2>1. a \in Processes /\ a \notin Hooks BY ConstantsAssumption DEF Processes
  <2>2. UNCHANGED <<known, log, orphaned>> BY <1>6 DEF StartAdd
  <2>3. \E state : proc' = [proc EXCEPT ![a] = state] BY <1>6 DEF StartAdd, Begin
  <2> QED BY <2>1, <2>2, <2>3, OwnersKept
<1>7. CASE NewDay \/ UNCHANGED vars
  BY <1>7 DEF NewDay, vars, OwnersInv, Owned, CommittedRecords
<1> QED
  BY <1>2, <1>3, <1>4, <1>5, <1>6, <1>7, AppendOwned DEF Next, AddStep, SaverStep

-----------------------------------------------------------------------------
(***************************************************************************)
(* The theorems.                                                           *)
(***************************************************************************)

IngestInv == RolesInv /\ RegistryInv /\ ConversationsInv /\ OwnersInv /\ SavedInv

\* The invariant the theorems rest on.
THEOREM IngestInvariant == Spec => []IngestInv
<1>1. Init => IngestInv
  BY InitRoles, InitRegistry, InitConversations, InitOwners, InitSaved DEF IngestInv
<1>2. IngestInv /\ [Next]_vars => IngestInv'
  BY RolesStep, RegistryStep, ConversationsStep, OwnersStep, SavedStep DEF IngestInv
<1> QED BY <1>1, <1>2, PTL DEF Spec

\* For any sources, processes, chunks and bounds: files, lines, records and what each
\* process holds are of their kinds (raw_ops.py:28-67, hooks/session_end.py:374-457).
THEOREM TypeCorrect == Spec => []TypeOK
<1>1. IngestInv => TypeOK BY DEF IngestInv, RolesInv
<1> QED BY IngestInvariant, <1>1, PTL

\* Whatever is added, saved and marked beside one another, and wherever a process dies:
\* as long as no rewrite of the registry was disturbed, every file ever registered and
\* every mark ever made is in it, and nothing else (registry.py:57-112).
THEOREM RegistryAlwaysKeeps == Spec => []RegistryKeeps
<1>1. ASSUME IngestInv PROVE RegistryKeeps
  BY <1>1
  DEF IngestInv, RegistryInv, RegistryKeeps, Undisturbed, NoneRewriting, FilesOf, MarksOf
<1> QED BY IngestInvariant, <1>1, PTL

\* However many hooks die, wherever, a conversation that one reported as ingested has a
\* record whose file is registered and complete (hooks/session_end.py:374-457).
THEOREM AnsweredAlwaysStored == Spec => []AnsweredIsStored
<1>1. ASSUME IngestInv PROVE AnsweredIsStored
  <2> SUFFICES ASSUME Undisturbed, NEW c \in answered
               PROVE  \E r \in RecordsOf(c) : /\ \E i \in DOMAIN registry : registry[i].file = r.file
                                              /\ raw[r.file] = "whole"
    BY DEF AnsweredIsStored
  <2>1. ~disturbed /\ NoneRewriting BY DEF Undisturbed, NoneRewriting
  <2>2. PICK r \in log : r.identity = c /\ r.status = "committed"
    BY <1>1 DEF IngestInv, ConversationsInv, RecordsInv, Committed
  <2>3. r.file \in known /\ raw[r.file] = "whole"
    BY <1>1, <2>1, <2>2 DEF IngestInv, ConversationsInv, RecordsInv, CommittedRecords
  <2>4. FilesOf(registry) = known BY <1>1, <2>1 DEF IngestInv, RegistryInv
  <2>5. \E i \in DOMAIN registry : registry[i].file = r.file BY <2>3, <2>4 DEF FilesOf
  <2>6. r \in RecordsOf(c) BY <2>2 DEF RecordsOf
  <2> QED BY <2>3, <2>5, <2>6
<1> QED BY IngestInvariant, <1>1, PTL

\* Two files of one conversation are not both accounted for by a commit.
LEMMA OneOwner ==
  ASSUME RolesInv, ConversationsInv, OwnersInv, NEW f \in known, NEW g \in known,
         f[1] \in Renderings, g[1] \in Renderings, IdentityOf(f[1]) = IdentityOf(g[1]), f # g
  PROVE  {f, g} \cap orphaned # {}
<1> SUFFICES ASSUME f \notin orphaned, g \notin orphaned PROVE FALSE
  OBVIOUS
<1> DEFINE Recorded(e) == \E r \in CommittedRecords : r.file = e
           AtHand(e) == \E h \in Hooks : proc[h].at = "commit" /\ proc[h].file = e
<1>1. (Recorded(f) \/ AtHand(f)) /\ (Recorded(g) \/ AtHand(g))
  BY DEF OwnersInv, Owned
<1>2. ASSUME NEW e, Recorded(e) PROVE Committed(IdentityOf(e[1]))
  BY <1>2 DEF ConversationsInv, RecordsInv, CommittedRecords, Committed
<1>3. ASSUME NEW e, AtHand(e) PROVE ~Committed(IdentityOf(e[1]))
  <2>1. PICK h \in Hooks : proc[h].at = "commit" /\ proc[h].file = e BY <1>3
  <2>2. e[1] = proc[h].source BY <2>1 DEF RolesInv, FileAtHand, Processes
  <2> QED BY <2>1, <2>2 DEF ConversationsInv, AtWork
<1>4. CASE Recorded(f) /\ Recorded(g)
  <2>1. PICK r \in CommittedRecords, q \in CommittedRecords : r.file = f /\ q.file = g BY <1>4
  <2>2. r.identity = q.identity BY <2>1 DEF ConversationsInv, RecordsInv
  <2> QED BY <2>1, <2>2 DEF ConversationsInv, RecordsInv
<1>5. CASE AtHand(f) /\ AtHand(g)
  <2>1. PICK h \in Hooks : proc[h].at = "commit" /\ proc[h].file = f BY <1>5
  <2>2. PICK k \in Hooks : proc[k].at = "commit" /\ proc[k].file = g BY <1>5
  <2>3. h = k BY <2>1, <2>2 DEF RolesInv, Hook
  <2> QED BY <2>1, <2>2, <2>3
<1> HIDE DEF Recorded, AtHand
<1>6. CASE Recorded(f) /\ AtHand(g) BY <1>2, <1>3, <1>6
<1>7. CASE AtHand(f) /\ Recorded(g) BY <1>2, <1>3, <1>7
<1> QED BY <1>1, <1>4, <1>5, <1>6, <1>7

\* However often, under whatever titles and by however many hooks a conversation is
\* delivered, before and after crashes: it has one committed record; and as long as no
\* rewrite of the registry was disturbed, each rendering has one line, and of the lines of
\* two renderings one is of a hook that died before it committed
\* (hooks/session_end.py:307-308, 430-457, registry.py:57-63).
THEOREM ConversationsAlwaysOnce == Spec => []ConversationsOnce
<1>1. ASSUME IngestInv PROVE ConversationsOnce
  <2>1. ASSUME NEW c \in Conversations PROVE Cardinality(RecordsOf(c)) <= 1
    <3>1. \A r, q \in RecordsOf(c) : r = q
      BY <1>1 DEF IngestInv, ConversationsInv, RecordsInv, CommittedRecords, RecordsOf
    <3> QED BY <3>1, AtMostOne
  <2> DEFINE rendered == {k \in DOMAIN registry : SourceOf(registry[k]) \in Renderings}
  <2>2. ASSUME Undisturbed, NEW i \in rendered, NEW j \in rendered, i # j,
               IdentityOf(SourceOf(registry[i])) = IdentityOf(SourceOf(registry[j]))
        PROVE  /\ SourceOf(registry[i]) # SourceOf(registry[j])
               /\ {registry[i].file, registry[j].file} \cap orphaned # {}
    <3>1. ~disturbed /\ NoneRewriting BY <2>2 DEF Undisturbed, NoneRewriting
    <3>2. SourceOf(registry[i]) # SourceOf(registry[j])
      BY <1>1, <2>2, <3>1 DEF IngestInv, ConversationsInv, LinesInv, Once
    <3>3. registry[i].file \in known /\ registry[j].file \in known
      BY <1>1, <3>1 DEF IngestInv, RegistryInv, FilesOf
    <3>4. registry[i].file # registry[j].file BY <3>2 DEF SourceOf
    <3>5. {registry[i].file, registry[j].file} \cap orphaned # {}
      BY <1>1, <2>2, <3>3, <3>4, OneOwner DEF IngestInv, SourceOf
    <3> QED BY <3>2, <3>5
  <2> QED BY <2>1, <2>2 DEF ConversationsOnce
<1> QED BY IngestInvariant, <1>1, PTL

\* Even when saves overlap with one another, die between storing and marking, or write
\* the registry over what was appended: a source marked as extracted has something in
\* the graph (cli/save.py:63-84).
THEOREM MarksAlwaysFollowSaves == Spec => []MarkedAfterSave
<1>1. IngestInv => MarkedAfterSave
  BY DEF IngestInv, SavedInv, MarksSaved, Saved, MarkedAfterSave
<1> QED BY IngestInvariant, <1>1, PTL

\* Nothing but a hook that commits records where a conversation is.
LEMMA KeptStays ==
  ASSUME \A c \in Conversations : RecordsOf(c)' = RecordsOf(c)
  PROVE  Kept' = Kept
BY DEF Kept

\* A hook that commits keeps a conversation that was not kept, at a file of its own.
LEMMA CommitKeeps ==
  ASSUME RolesInv, ConversationsInv, NEW h \in Hooks, Commit(h)
  PROVE  Promised!Keep(IdentityOf(proc[h].source))
<1>1. proc[h].at = "commit" /\ h \in Processes BY DEF Commit, Processes
<1>2. PICK c \in Conversations, file \in Files :
        c = IdentityOf(proc[h].source) /\ file = proc[h].file
  BY <1>1, RenderingOfConversation DEF RolesInv, Hook, FileAtHand
<1> DEFINE record == [identity |-> c, status |-> "committed", file |-> file]
<1>3. file \in PlacesOf(c)
  <2>1. file[1] = proc[h].source /\ proc[h].source \in Renderings
    BY <1>1, <1>2 DEF RolesInv, FileAtHand, Hook
  <2>2. proc[h].source \in {c} \X Headers BY <1>2, <2>1 DEF Renderings, IdentityOf
  <2> QED BY <2>1, <2>2 DEF PlacesOf
<1>4. RecordsOf(c) = {}
  <2>1. ~Committed(c) BY <1>1, <1>2 DEF ConversationsInv, AtWork
  <2> QED BY <2>1 DEF Committed, RecordsOf
<1>5. log' = log \union {record} /\ answered' = answered \union {c} BY <1>2 DEF Commit
<1>6. RecordsOf(c)' = {record}
  BY <1>4, <1>5 DEF RecordsOf
<1>7. \A d \in Conversations \ {c} : RecordsOf(d)' = RecordsOf(d)
  BY <1>5 DEF RecordsOf
<1>8. Kept[c] = {} /\ Kept'[c] = {file}
  <2>1. Kept[c] = {r.file : r \in RecordsOf(c)} /\ Kept'[c] = {r.file : r \in RecordsOf(c)'}
    BY <1>2 DEF Kept
  <2>2. {r.file : r \in {record}} = {file} OBVIOUS
  <2> HIDE DEF record
  <2> QED BY <1>4, <1>6, <2>1, <2>2
<1>9. \A d \in Conversations \ {c} : Kept'[d] = Kept[d]
  BY <1>7 DEF Kept
<1>10. Kept' = [Kept EXCEPT ![c] = {file}]
  <2>1. Kept' = [d \in Conversations |-> Kept'[d]] /\ Kept = [d \in Conversations |-> Kept[d]]
    BY DEF Kept
  <2> QED BY <1>2, <1>8, <1>9, <2>1
<1> QED BY <1>2, <1>3, <1>5, <1>8, <1>10 DEF Promised!Keep

\* A hook that finds its conversation committed reports it; one that does not notes that
\* it is at work.
LEMMA ReadingRepeats ==
  ASSUME RolesInv, NEW h \in Hooks, ReadRecords(h)
  PROVE  \/ /\ IdentityOf(proc[h].source) \in Conversations
            /\ Promised!Repeat(IdentityOf(proc[h].source))
         \/ Kept' = Kept /\ answered' = answered
<1> DEFINE c == IdentityOf(proc[h].source)
<1>1. c \in Conversations BY RenderingOfConversation DEF ReadRecords, RolesInv, Hook
<1>2. CASE Committed(c)
  <2>1. log' = log /\ answered' = answered \union {c} BY <1>2 DEF ReadRecords
  <2>2. \A d \in Conversations : RecordsOf(d)' = RecordsOf(d) BY <2>1 DEF RecordsOf
  <2>3. Kept' = Kept BY <2>2, KeptStays
  <2>4. PICK r \in log : r.identity = c /\ r.status = "committed" BY <1>2 DEF Committed
  <2>5. r.file \in Kept[c] BY <1>1, <2>4 DEF Kept, RecordsOf
  <2> QED BY <1>1, <2>1, <2>3, <2>5 DEF Promised!Repeat
<1>3. CASE ~Committed(c)
  <2>1. /\ log' = log \union {[identity |-> c, status |-> "pending", file |-> Nothing]}
        /\ answered' = answered
    BY <1>3 DEF ReadRecords
  <2>2. \A d \in Conversations : RecordsOf(d)' = RecordsOf(d) BY <2>1 DEF RecordsOf
  <2> QED BY <2>1, <2>2, KeptStays
<1> QED BY <1>2, <1>3

\* For any conversations and hooks, however they overlap and wherever they die: the hook
\* keeps a conversation at one place of its own, once and for ever, and reports it only
\* then (hooks/session_end.py:429-457).
THEOREM HookImplementsDeliveries == Spec => ImplementsDeliveries
<1>1. Init => Promised!Init
  BY DEF Init, Promised!Init, Kept, RecordsOf
<1>2. IngestInv /\ [Next]_vars => [Promised!Next]_<<Kept, answered>>
  <2> SUFFICES ASSUME IngestInv, [Next]_vars
               PROVE  Promised!Next \/ (Kept' = Kept /\ answered' = answered)
    OBVIOUS
  <2>1. ASSUME NEW h \in Hooks, ReadRecords(h)
        PROVE  Promised!Next \/ (Kept' = Kept /\ answered' = answered)
    BY <2>1, ReadingRepeats DEF IngestInv, Promised!Next
  <2>2. ASSUME NEW h \in Hooks, Commit(h) PROVE Promised!Next
    <3>1. IdentityOf(proc[h].source) \in Conversations
      BY <2>2, RenderingOfConversation DEF Commit, IngestInv, RolesInv, Hook
    <3> QED BY <2>2, <3>1, CommitKeeps DEF IngestInv, Promised!Next
  <2>3. CASE log' = log /\ answered' = answered
    <3>1. \A c \in Conversations : RecordsOf(c)' = RecordsOf(c) BY <2>3 DEF RecordsOf
    <3> QED BY <2>3, <3>1, KeptStays
  <2>4. \/ \E h \in Hooks : ReadRecords(h) \/ Commit(h)
        \/ log' = log /\ answered' = answered
    BY DEF Next, vars, AddStep, Check, GetExisting, OpenFile, WriteFile, CheckAgain, AppendLine,
           Crash, StartAdd, StartHook, Normalize, FindLine, LoadLines, Truncate, Rewrite, NewDay
  <2> QED BY <2>1, <2>2, <2>3, <2>4
<1> QED BY <1>1, <1>2, IngestInvariant, PTL DEF Spec, ImplementsDeliveries, Promised!Spec
================================================================================
