------------------------------- MODULE KGIngest -------------------------------
(***************************************************************************)
(* Ingestion: raw files, the registry of sources, the log of the           *)
(* conversation hook, and what `kg save` marks as extracted.               *)
(*                                                                         *)
(* A source becomes a file under raw/ and then a line of registry.jsonl.   *)
(* `kg raw add` adds documents; the hook that runs when an agent session   *)
(* ends adds its conversation under a lock and records that it did.        *)
(* `kg save` stores what was extracted from one chunk and then rewrites    *)
(* the registry with the source marked.  Lines are appended to the         *)
(* registry, and the registry is rewritten, without a lock; any process    *)
(* may die between two steps; and the name of a file holds the day.        *)
(*                                                                         *)
(* A document stands for the digest of its text.  A conversation stands    *)
(* for its identity: harness, session and content.  What is stored is a    *)
(* rendering of it, whose header also holds the title that was delivered   *)
(* and the counts of what was skipped; the registry knows the digest of    *)
(* the rendering, and the log of the hook the identity.                    *)
(***************************************************************************)
EXTENDS FiniteSets, Naturals, Sequences

CONSTANTS
  Documents,      \* what `kg raw add` is given
  Conversations,  \* what the hook is given, each by its identity
  Headers,        \* the titles and counts that deliveries of one conversation may have
  Adders,         \* processes running `kg raw add`, one document after the other
  Hooks,          \* processes running `kg hook session-end`
  Savers,         \* processes running `kg save`
  Chunks,         \* the chunks of a source
  MaxDays,        \* bound on the days that pass
  MaxLines,       \* bound on the lines of the registry
  MaxFaults,      \* bound on the crashes and failures
  Nothing,        \* no source, no file
  Free            \* nobody holds the lock

Renderings == Conversations \X Headers
Sources == Documents \union Renderings
Days == 1..MaxDays
Files == Sources \X Days
Processes == Adders \union Hooks \union Savers

ASSUMPTION ConstantsAssumption ==
  /\ Documents \cap Renderings = {}
  /\ Adders \cap Hooks = {} /\ Adders \cap Savers = {} /\ Hooks \cap Savers = {}
  /\ MaxDays \in Nat \ {0} /\ MaxLines \in Nat /\ MaxFaults \in Nat
  /\ Nothing \notin Sources /\ Nothing \notin Files
  /\ Free \notin Hooks

VARIABLES
  today,      \* the date
  raw,        \* the files under raw/
  registry,   \* the lines of registry.jsonl
  log,        \* the records of logs/ingest.jsonl
  lock,       \* who holds logs/ingest.lock
  proc,       \* where each process stands, and what it holds in memory
  saved,      \* the chunks whose extraction is in the graph
  faults,     \* the number of faults so far
  known,      \* history: the files ever registered
  marked,     \* history: the sources ever marked as extracted
  answered,   \* history: the conversations that a hook reported as ingested
  orphaned,   \* history: the files that a hook had registered and died before it committed
  disturbed   \* history: the registry was read or written during a rewrite, or one died

vars == <<today, raw, registry, log, lock, proc, saved, faults, known, marked, answered,
          orphaned, disturbed>>

Lines == [file : Files, extracted : BOOLEAN]
RawStates == {"none", "torn", "whole"}
Steps == {"idle", "records", "check", "get", "write", "writing", "again", "append", "commit",
          "find", "load", "truncate", "rewrite"}
Procs == [at : Steps, source : Sources \union {Nothing}, file : Files \union {Nothing},
          lines : Seq(Lines)]

Idle == [at |-> "idle", source |-> Nothing, file |-> Nothing, lines |-> <<>>]

Init ==
  /\ today = 1
  /\ raw = [f \in Files |-> "none"]
  /\ registry = <<>>
  /\ log = {}
  /\ lock = Free
  /\ proc = [p \in Processes |-> Idle]
  /\ saved = {}
  /\ faults = 0
  /\ known = {}
  /\ marked = {}
  /\ answered = {}
  /\ orphaned = {}
  /\ disturbed = FALSE

SourceOf(line) == line.file[1]
\* The identity that the header of a rendering names.
IdentityOf(rendering) == rendering[1]
LinesOf(lines, source) == {i \in DOMAIN lines : SourceOf(lines[i]) = source}
\* Registry.has.
Has(source) == LinesOf(registry, source) # {}
\* Registry.get: the first line.
FirstLine(source) ==
  registry[CHOOSE i \in LinesOf(registry, source) :
             \A j \in LinesOf(registry, source) : i <= j]

\* A rewrite of the registry by another process than p is under way.
Rewriting(p) == \E s \in Savers \ {p} : proc[s].at \in {"truncate", "rewrite"}
\* A rewrite has emptied the registry and not yet filled it.
Emptied(p) == \E s \in Savers \ {p} : proc[s].at = "rewrite"

ReadsRegistry(p) == disturbed' = (disturbed \/ Emptied(p))
WritesRegistry(p) == disturbed' = (disturbed \/ Rewriting(p))

Goto(p, step) == proc' = [proc EXCEPT ![p].at = step]
Begin(p, step, source) == proc' = [proc EXCEPT ![p] = [Idle EXCEPT !.at = step, !.source = source]]
End(p) == proc' = [proc EXCEPT ![p] = Idle]

Unlock(p) == lock' = IF lock = p THEN Free ELSE lock

-----------------------------------------------------------------------------
(* add_source, by `kg raw add` or by the hook.                             *)

StartAdd(a) ==
  /\ proc[a].at = "idle"
  /\ \E d \in Documents : Begin(a, "check", d)
  /\ UNCHANGED <<today, raw, registry, log, lock, saved, faults, known, marked, answered,
                 disturbed, orphaned>>

\* The source is looked up by its digest; one that is registered is not added again.
Check(p) ==
  /\ proc[p].at = "check"
  /\ Goto(p, IF Has(proc[p].source) THEN "get" ELSE "write")
  /\ ReadsRegistry(p)
  /\ UNCHANGED <<today, raw, registry, log, lock, saved, faults, known, marked, answered,
                 orphaned>>

\* The file of the registered source.  A line that is gone by now raises.
GetExisting(p) ==
  /\ proc[p].at = "get"
  /\ LET source == proc[p].source
     IN  IF p \in Hooks /\ Has(source)
           THEN /\ proc' = [proc EXCEPT ![p].at = "commit", ![p].file = FirstLine(source).file]
                /\ UNCHANGED lock
           ELSE End(p) /\ Unlock(p)
  /\ ReadsRegistry(p)
  /\ UNCHANGED <<today, raw, registry, log, saved, faults, known, marked, answered,
                 orphaned>>

\* The file is created, or emptied.
OpenFile(p) ==
  /\ proc[p].at = "write"
  /\ LET file == <<proc[p].source, today>>
     IN  /\ raw' = [raw EXCEPT ![file] = "torn"]
         /\ proc' = [proc EXCEPT ![p].at = "writing", ![p].file = file]
  /\ UNCHANGED <<today, registry, log, lock, saved, faults, known, marked, answered,
                 disturbed, orphaned>>

WriteFile(p) ==
  /\ proc[p].at = "writing"
  /\ raw' = [raw EXCEPT ![proc[p].file] = "whole"]
  /\ Goto(p, "again")
  /\ UNCHANGED <<today, registry, log, lock, saved, faults, known, marked, answered,
                 disturbed, orphaned>>

\* What follows add_source.
Added(p) == IF p \in Hooks THEN Goto(p, "commit") ELSE End(p)

\* Registry.append looks the source up once more.
CheckAgain(p) ==
  /\ proc[p].at = "again"
  /\ IF Has(proc[p].source) THEN Added(p) ELSE Goto(p, "append")
  /\ ReadsRegistry(p)
  /\ UNCHANGED <<today, raw, registry, log, lock, saved, faults, known, marked, answered,
                 orphaned>>

AppendLine(p) ==
  /\ proc[p].at = "append"
  /\ Len(registry) < MaxLines
  /\ registry' = Append(registry, [file |-> proc[p].file, extracted |-> FALSE])
  /\ known' = known \union {proc[p].file}
  /\ Added(p)
  /\ WritesRegistry(p)
  /\ UNCHANGED <<today, raw, log, lock, saved, faults, marked, answered, orphaned>>

-----------------------------------------------------------------------------
(* The hook (ingest_payload).                                              *)

\* Mutant: the lock is not asked for.
StartHookUnlocked(h) ==
  /\ proc[h].at = "idle"
  /\ \E rendering \in Renderings : Begin(h, "records", rendering)
  /\ lock' = h
  /\ UNCHANGED <<today, raw, registry, log, saved, faults, known, marked, answered,
                 disturbed, orphaned>>

\* A delivery is rendered, and the lock taken if it is free; a hook that finds it taken
\* gives up.
StartHook(h) ==
  /\ proc[h].at = "idle"
  /\ lock = Free
  /\ \E rendering \in Renderings : Begin(h, "records", rendering)
  /\ lock' = h
  /\ UNCHANGED <<today, raw, registry, log, saved, faults, known, marked, answered,
                 disturbed, orphaned>>

\* Mutant: any record of the conversation will do.
CommittedOrPending(c) == \E r \in log : r.identity = c

\* The log has a record that this conversation is ingested.
Committed(c) == \E r \in log : r.identity = c /\ r.status = "committed"

\* A conversation that was committed is left alone.  Otherwise _repair_registry looks for
\* its raw file, and never finds one: it expects the header of the conversation at the
\* start of the text, where every raw file has its front matter.
ReadRecords(h) ==
  /\ proc[h].at = "records"
  /\ LET c == IdentityOf(proc[h].source)
     IN  IF Committed(c)
           THEN /\ answered' = answered \union {c}
                /\ End(h)
                /\ Unlock(h)
                /\ UNCHANGED log
           ELSE /\ log' = log \union {[identity |-> c, status |-> "pending", file |-> Nothing]}
                /\ Goto(h, "check")
                /\ UNCHANGED <<lock, answered>>
  /\ UNCHANGED <<today, raw, registry, saved, faults, known, marked, disturbed, orphaned>>

\* Mutant: the record may fail to be appended, and the hook answers all the same.
CommitRegardless(h) ==
  /\ proc[h].at = "commit"
  /\ LET c == IdentityOf(proc[h].source)
     IN  /\ \/ log' = log \union {[identity |-> c, status |-> "committed", file |-> proc[h].file]}
            \/ UNCHANGED log
         /\ answered' = answered \union {c}
  /\ End(h)
  /\ Unlock(h)
  /\ UNCHANGED <<today, raw, registry, saved, faults, known, marked, disturbed, orphaned>>

\* The record is appended and the lock released.
Commit(h) ==
  /\ proc[h].at = "commit"
  /\ LET c == IdentityOf(proc[h].source)
     IN  /\ log' = log \union {[identity |-> c, status |-> "committed", file |-> proc[h].file]}
         /\ answered' = answered \union {c}
  /\ End(h)
  /\ Unlock(h)
  /\ UNCHANGED <<today, raw, registry, saved, faults, known, marked, disturbed, orphaned>>

-----------------------------------------------------------------------------
(* `kg save`, for one chunk of a raw file.                                 *)

\* Mutant: a save that failed is marked like one that did not.
NormalizeRegardless(s) ==
  /\ proc[s].at = "idle"
  /\ \E f \in {f \in Files : raw[f] = "whole"}, new \in {{}} \union {{k} : k \in Chunks} :
       /\ saved' = saved \union ({f[1]} \X new)
       /\ proc' = [proc EXCEPT ![s] = [Idle EXCEPT !.at = "find", !.file = f]]
  /\ UNCHANGED <<today, raw, registry, log, lock, faults, known, marked, answered,
                 disturbed, orphaned>>

\* The gate stores what was extracted from the chunk; if it raises, the command ends.
Normalize(s) ==
  /\ proc[s].at = "idle"
  /\ \E f \in {f \in Files : raw[f] = "whole"}, k \in Chunks :
       /\ saved' = saved \union {<<f[1], k>>}
       /\ proc' = [proc EXCEPT ![s] = [Idle EXCEPT !.at = "find", !.file = f]]
  /\ UNCHANGED <<today, raw, registry, log, lock, faults, known, marked, answered,
                 disturbed, orphaned>>

\* The line with the path of the file names the source.
FindLine(s) ==
  /\ proc[s].at = "find"
  /\ IF \E i \in DOMAIN registry : registry[i].file = proc[s].file
       THEN Goto(s, "load")
       ELSE End(s)
  /\ ReadsRegistry(s)
  /\ UNCHANGED <<today, raw, registry, log, lock, saved, faults, known, marked, answered,
                 orphaned>>

\* Mutant: only the lines of the source are written back.
MarkedAlone(lines, source) ==
  [i \in 1..Cardinality(LinesOf(lines, source)) |->
     [file |-> (CHOOSE l \in {lines[j] : j \in LinesOf(lines, source)} : TRUE).file,
      extracted |-> TRUE]]

\* Every line of the source is marked, whatever chunk was saved.
Marked(lines, source) ==
  [i \in DOMAIN lines |->
     IF SourceOf(lines[i]) = source THEN [lines[i] EXCEPT !.extracted = TRUE] ELSE lines[i]]

\* mark_extracted reads the registry ...
LoadLines(s) ==
  /\ proc[s].at = "load"
  /\ proc' = [proc EXCEPT ![s].at = "truncate",
                          ![s].lines = Marked(registry, proc[s].file[1])]
  /\ ReadsRegistry(s)
  /\ UNCHANGED <<today, raw, registry, log, lock, saved, faults, known, marked, answered,
                 orphaned>>

\* ... opens it for writing, which empties it ...
Truncate(s) ==
  /\ proc[s].at = "truncate"
  /\ registry' = <<>>
  /\ Goto(s, "rewrite")
  /\ WritesRegistry(s)
  /\ UNCHANGED <<today, raw, log, lock, saved, faults, known, marked, answered, orphaned>>

\* ... and writes from its beginning, over what was appended meanwhile.
Rewrite(s) ==
  /\ proc[s].at = "rewrite"
  /\ registry' = IF proc[s].lines = <<>> THEN registry ELSE proc[s].lines
  /\ marked' = marked \union {proc[s].file[1]}
  /\ End(s)
  /\ WritesRegistry(s)
  /\ UNCHANGED <<today, raw, log, lock, saved, faults, known, answered, orphaned>>

-----------------------------------------------------------------------------
\* A process dies or raises; the system releases its lock.
Crash(p) ==
  /\ proc[p].at # "idle"
  /\ faults < MaxFaults
  /\ faults' = faults + 1
  /\ End(p)
  /\ Unlock(p)
  /\ disturbed' = (disturbed \/ proc[p].at = "rewrite")
  /\ orphaned' = orphaned \union (IF proc[p].at = "commit" THEN {proc[p].file} ELSE {})
  /\ UNCHANGED <<today, raw, registry, log, saved, known, marked, answered>>

NewDay ==
  /\ today < MaxDays
  /\ today' = today + 1
  /\ UNCHANGED <<raw, registry, log, lock, proc, saved, faults, known, marked, answered,
                 disturbed, orphaned>>

AddStep(p) ==
  \/ Check(p) \/ GetExisting(p) \/ OpenFile(p) \/ WriteFile(p) \/ CheckAgain(p)
  \/ AppendLine(p)

Next ==
  \/ \E p \in Processes : AddStep(p) \/ Crash(p)
  \/ \E a \in Adders : StartAdd(a)
  \/ \E h \in Hooks : StartHook(h) \/ ReadRecords(h) \/ Commit(h)
  \/ \E s \in Savers :
       Normalize(s) \/ FindLine(s) \/ LoadLines(s) \/ Truncate(s) \/ Rewrite(s)
  \/ NewDay

Spec == Init /\ [][Next]_vars

-----------------------------------------------------------------------------
TypeOK ==
  /\ today \in Days
  /\ raw \in [Files -> RawStates]
  /\ registry \in Seq(Lines) /\ Len(registry) <= MaxLines
  /\ log \in SUBSET [identity : Conversations, status : {"pending", "committed"},
                     file : Files \union {Nothing}]
  /\ lock \in Hooks \union {Free}
  /\ proc \in [Processes -> Procs]
  /\ saved \in SUBSET (Sources \X Chunks)
  /\ faults \in 0..MaxFaults
  /\ known \in SUBSET Files
  /\ marked \in SUBSET Sources
  /\ answered \in SUBSET Conversations
  /\ orphaned \in SUBSET Files
  /\ disturbed \in BOOLEAN

\* No rewrite of the registry was ever disturbed, and none has emptied it now.
Undisturbed == ~disturbed /\ \A s \in Savers : proc[s].at # "rewrite"

(***************************************************************************)
(* What is registered stays registered and what is marked stays marked,    *)
(* through crashes and any interleaving, as long as rewrites of the        *)
(* registry are left alone: nothing else loses a line or a mark.           *)
(***************************************************************************)
RegistryKeeps ==
  Undisturbed =>
    /\ known = {registry[i].file : i \in DOMAIN registry}
    /\ marked = {SourceOf(registry[i]) : i \in {j \in DOMAIN registry : registry[j].extracted}}

RecordsOf(c) == {r \in log : r.identity = c /\ r.status = "committed"}

(***************************************************************************)
(* A conversation that a hook reported as ingested has a record whose file *)
(* is registered and complete: an earlier hook that died half way does not *)
(* make a later one take it for done.                                      *)
(***************************************************************************)
AnsweredIsStored ==
  Undisturbed =>
    \A c \in answered : \E r \in RecordsOf(c) :
      /\ \E i \in DOMAIN registry : registry[i].file = r.file
      /\ raw[r.file] = "whole"

(***************************************************************************)
(* However often, under whatever titles and by however many hooks a        *)
(* conversation is delivered, it is committed once.  No rendering of it is *)
(* registered twice, and of two renderings that are, one was left behind   *)
(* by a hook that died between the registry and the log: the next delivery *)
(* knows the identity from the log alone, and another title is another     *)
(* source to the registry.                                                 *)
(***************************************************************************)
ConversationsOnce ==
  /\ \A c \in Conversations : Cardinality(RecordsOf(c)) <= 1
  /\ Undisturbed =>
       \A i, j \in {k \in DOMAIN registry : SourceOf(registry[k]) \in Renderings} :
         i # j /\ IdentityOf(SourceOf(registry[i])) = IdentityOf(SourceOf(registry[j])) =>
           /\ SourceOf(registry[i]) # SourceOf(registry[j])
           /\ {registry[i].file, registry[j].file} \cap orphaned # {}

\* A source is marked only when something that was extracted from it is in the graph,
\* even if the processes that saved and marked it die or overlap.
MarkedAfterSave ==
  \A i \in DOMAIN registry :
    registry[i].extracted => \E k \in Chunks : <<SourceOf(registry[i]), k>> \in saved

-----------------------------------------------------------------------------
(* What the hook promises, and where its log says a conversation is.        *)

PlacesOf(c) == {f \in Files : f[1] \in {c} \X Headers}
Kept == [c \in Conversations |-> {r.file : r \in RecordsOf(c)}]

\* However often a conversation is delivered, by hooks that overlap or die anywhere: it is
\* recorded at one file of its own, for ever, and reported only when it is
\* (hooks/session_end.py:430-457).
Promised == INSTANCE Deliveries WITH kept <- Kept, told <- answered
ImplementsDeliveries == Promised!Spec
===============================================================================
