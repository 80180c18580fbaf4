------------------------------ MODULE KGIndexView ------------------------------
(***************************************************************************)
(* The projects tab (StatsTab.tsx, useProjects.ts, rpc.ts) beside the index *)
(* manager of the server (viz/indexing.py).                                *)
(*                                                                         *)
(* The dialog submits an index run; the progress panel polls the status of *)
(* the runs, calls onDone when none of them is left running and none       *)
(* failed, and stops; onDone and a submission fetch the list again.  None  *)
(* of these requests is cancelled: the answer to one may arrive after its  *)
(* dialog was closed, its panel replaced, or a later one answered.  The    *)
(* server runs one job at a time, lists every job it ever had, and forgets *)
(* them all when it restarts.                                              *)
(*                                                                         *)
(* A run may be of any path, and writes the database there; the list has   *)
(* one project, that of the server.  The server's database is abstracted   *)
(* to how many runs have completed on it, and the list to how many of them *)
(* it shows; the schemas, fetched after it for the counts it shows, are    *)
(* left out.                                                               *)
(***************************************************************************)
EXTENDS FiniteSets, Naturals, Sequences

CONSTANTS
  CanIndex,        \* whether the server offers indexing
  Roots,           \* the paths that may be indexed
  Served,          \* the one whose database the server shows
  MaxJobs,         \* bound on the jobs
  MaxFlight,       \* bounds on the list requests, the polls and the submissions
  MaxPolls,        \* that are under way
  MaxSubmits,
  Failed,          \* a request that was refused or lost
  Nothing          \* no answer yet, and a list that was not read

ASSUMPTION IndexViewConstants ==
  /\ CanIndex \in BOOLEAN /\ Served \in Roots /\ Nothing \notin Roots
  /\ {MaxJobs, MaxFlight, MaxPolls, MaxSubmits} \subseteq Nat \ {0}

VARIABLES
  jobs,        \* the status of each job of the server, in the order of their slots
  active,      \* the path of the one that is running, Nothing for none
  started,     \* the number of jobs, those of earlier servers included
  completed,   \* how many runs the database of the server has
  mounted,     \* whether the tab is shown
  modal,       \* the dialog: "closed", "open" or "submitting"
  submits,     \* submissions under way
  indexing,    \* whether the progress panel is shown
  watching,    \* the panel's hasActive: whether it polls
  shown,       \* the jobs the panel shows
  polls,       \* status requests under way
  list,        \* how many of the runs on Served it shows, Nothing before it was read
  listError, loading,
  requests,    \* list requests under way
  mixed,       \* history: list requests overlapped
  due          \* history: the panel has called onDone since a run on Served completed

serverVars == <<jobs, active, started, completed>>
dialogVars == <<modal, submits>>
panelVars == <<indexing, watching, shown, polls>>
listVars == <<list, listError, loading, requests, mixed>>
indexVars == <<serverVars, mounted, dialogVars, panelVars, listVars, due>>

Statuses == {"indexing", "done", "error"}
Has(js, status) == \E i \in DOMAIN js : js[i] = status
Without(s, i) == SubSeq(s, 1, i - 1) \o SubSeq(s, i + 1, Len(s))

-----------------------------------------------------------------------------
(* The index manager *)

\* One run at a time, whatever its path.
Admits == ~Has(jobs, "indexing") /\ started < MaxJobs

\* A run on another path completes in another database, and what a failed run has
\* written is not counted.
FinishJob ==
  /\ \E i \in DOMAIN jobs :
       /\ jobs[i] = "indexing"
       /\ \/ /\ jobs' = [jobs EXCEPT ![i] = "done"]
             /\ IF active = Served THEN completed' = completed + 1 /\ due' = FALSE
                ELSE UNCHANGED <<completed, due>>
          \/ jobs' = [jobs EXCEPT ![i] = "error"] /\ UNCHANGED <<completed, due>>
  /\ active' = Nothing
  /\ UNCHANGED <<started, mounted, dialogVars, panelVars, listVars>>

\* The database stays.
Restart ==
  /\ jobs # <<>> /\ jobs' = <<>> /\ active' = Nothing
  /\ UNCHANGED <<started, completed, mounted, dialogVars, panelVars, listVars, due>>

-----------------------------------------------------------------------------
(* The list of projects *)

FetchProjects ==
  /\ Len(requests) < MaxFlight
  /\ requests' = Append(requests, Nothing)
  /\ mixed' = (requests # <<>>)
  /\ loading' = TRUE /\ listError' = FALSE
  /\ UNCHANGED list

\* The list is read in the database of the server, whichever path was indexed.
AnswerList(i) ==
  /\ requests[i] = Nothing
  /\ \E answer \in {completed, Failed} : requests' = [requests EXCEPT ![i] = answer]
  /\ UNCHANGED <<serverVars, mounted, dialogVars, panelVars, list, listError, loading, mixed,
                 due>>

DeliverList(i) ==
  /\ requests[i] # Nothing
  /\ requests' = Without(requests, i)
  /\ loading' = FALSE
  /\ IF requests[i] = Failed
     THEN listError' = TRUE /\ UNCHANGED list
     ELSE list' = requests[i] /\ UNCHANGED listError
  /\ UNCHANGED <<serverVars, mounted, dialogVars, panelVars, mixed, due>>

Refresh ==
  /\ mounted /\ ~loading
  /\ FetchProjects
  /\ UNCHANGED <<serverVars, mounted, dialogVars, panelVars, due>>

-----------------------------------------------------------------------------
(* The dialog *)

Owned(s, owner) == [i \in DOMAIN s |-> [s[i] EXCEPT !.of = IF @ = "gone" THEN @ ELSE owner]]

OpenModal ==
  /\ mounted /\ CanIndex /\ modal = "closed" /\ modal' = "open"
  /\ UNCHANGED <<serverVars, mounted, submits, panelVars, listVars, due>>

CloseModal ==
  /\ modal # "closed" /\ modal' = "closed"
  /\ submits' = Owned(submits, "tab")
  /\ UNCHANGED <<serverVars, mounted, panelVars, listVars, due>>

Submit ==
  /\ modal = "open" /\ modal' = "submitting"
  /\ Len(submits) < MaxSubmits
  /\ submits' = Append(submits, [of |-> "modal", answer |-> Nothing])
  /\ UNCHANGED <<serverVars, mounted, panelVars, listVars, due>>

\* The submission reaches the server, with whichever path it has: an invalid one and a
\* busy manager are refused, and the answer may be lost after the job was started.
AnswerSubmit(i) ==
  /\ submits[i].answer = Nothing
  /\ \/ /\ Admits
        /\ jobs' = Append(jobs, "indexing") /\ started' = started + 1
        /\ active' \in Roots
        /\ \E answer \in {"ok", Failed} : submits' = [submits EXCEPT ![i].answer = answer]
     \/ submits' = [submits EXCEPT ![i].answer = Failed] /\ UNCHANGED <<jobs, active, started>>
  /\ UNCHANGED <<completed, mounted, modal, panelVars, listVars, due>>

\* onCreated, then onClose, which closes the dialog that is open now.  A dialog
\* shows its own failure.
DeliverSubmit(i) ==
  /\ submits[i].answer # Nothing
  /\ IF submits[i].answer = "ok" /\ submits[i].of # "gone"
     THEN /\ indexing' = TRUE /\ FetchProjects
          /\ modal' = "closed" /\ submits' = Owned(Without(submits, i), "tab")
     ELSE /\ modal' = IF submits[i].of = "modal" THEN "open" ELSE modal
          /\ submits' = Without(submits, i)
          /\ UNCHANGED <<indexing, listVars>>
  /\ UNCHANGED <<serverVars, mounted, watching, shown, polls, due>>

-----------------------------------------------------------------------------
(* The progress panel *)

\* The panel disappears: the next one starts anew, and what this one asked is
\* still delivered to the tab.
DropPanel(remaining) ==
  /\ indexing' = FALSE /\ watching' = TRUE /\ shown' = <<>>
  /\ polls' = Owned(remaining, "tab")

\* A done that hides the panel only.
OnDoneUnrefreshed(remaining) == DropPanel(remaining) /\ UNCHANGED listVars

OnDone(remaining) == DropPanel(remaining) /\ FetchProjects

Tick ==
  /\ indexing /\ watching
  /\ Len(polls) < MaxPolls
  /\ polls' = Append(polls, [of |-> "panel", answer |-> Nothing])
  /\ UNCHANGED <<serverVars, mounted, dialogVars, indexing, watching, shown, listVars, due>>

AnswerPoll(i) ==
  /\ polls[i].answer = Nothing
  /\ polls' = [polls EXCEPT ![i].answer = jobs]
  /\ UNCHANGED <<serverVars, mounted, dialogVars, indexing, watching, shown, listVars, due>>

\* What is lost changes nothing.
LosePoll(i) ==
  /\ polls[i].answer = Nothing
  /\ polls' = Without(polls, i)
  /\ UNCHANGED <<serverVars, mounted, dialogVars, indexing, watching, shown, listVars, due>>

\* A panel that waits for success, as long as a job is listed as failed.
EndedWell(answer) == answer # <<>> /\ \A i \in DOMAIN answer : answer[i] = "done"

\* An empty list is no end: the server has restarted.
Ended(answer) == answer # <<>> /\ ~Has(answer, "indexing")

\* A panel that is gone calls onDone still.
DeliverPoll(i) ==
  LET answer == polls[i].answer
      own == polls[i].of = "panel"
  IN
  /\ answer # Nothing
  /\ IF Ended(answer) /\ ~Has(answer, "error")
     THEN OnDone(Without(polls, i)) /\ due' = TRUE
     ELSE /\ polls' = Without(polls, i)
          /\ shown' = IF own THEN answer ELSE shown
          /\ watching' = (watching /\ ~(own /\ Ended(answer)))
          /\ UNCHANGED <<indexing, listVars, due>>
  /\ UNCHANGED <<serverVars, mounted, dialogVars>>

\* The button under the failed jobs.
Dismiss ==
  /\ indexing /\ Has(shown, "error")
  /\ OnDone(polls)
  /\ UNCHANGED <<serverVars, mounted, dialogVars, due>>

-----------------------------------------------------------------------------
(* The tab *)

Mount ==
  /\ ~mounted /\ mounted' = TRUE
  /\ FetchProjects
  /\ UNCHANGED <<serverVars, dialogVars, panelVars, due>>

\* What was submitted still reaches the server.
Unmount ==
  /\ mounted /\ mounted' = FALSE
  /\ modal' = "closed" /\ submits' = Owned(submits, "gone")
  /\ indexing' = FALSE /\ watching' = TRUE /\ shown' = <<>> /\ polls' = <<>>
  /\ list' = Nothing /\ listError' = FALSE /\ loading' = FALSE
  /\ requests' = <<>> /\ mixed' = FALSE
  /\ UNCHANGED <<serverVars, due>>

IndexInit ==
  /\ jobs = <<>> /\ active = Nothing /\ started = 0 /\ completed = 0
  /\ mounted = FALSE /\ modal = "closed" /\ submits = <<>>
  /\ indexing = FALSE /\ watching = TRUE /\ shown = <<>> /\ polls = <<>>
  /\ list = Nothing /\ listError = FALSE /\ loading = FALSE /\ requests = <<>>
  /\ mixed = FALSE /\ due = FALSE

IndexNext ==
  \/ FinishJob \/ Restart
  \/ Mount \/ Unmount
  \/ Refresh \/ \E i \in DOMAIN requests : AnswerList(i) \/ DeliverList(i)
  \/ OpenModal \/ CloseModal \/ Submit
  \/ \E i \in DOMAIN submits : AnswerSubmit(i) \/ DeliverSubmit(i)
  \/ Tick \/ \E i \in DOMAIN polls : AnswerPoll(i) \/ LosePoll(i) \/ DeliverPoll(i)
  \/ Dismiss

\* Jobs end and the timer ticks; a request is answered and delivered, though
\* any one of the polls may be lost.
IndexFairness ==
  /\ WF_indexVars(FinishJob) /\ WF_indexVars(Tick)
  /\ SF_indexVars(\E i \in DOMAIN polls : AnswerPoll(i))
  /\ SF_indexVars(\E i \in DOMAIN polls : DeliverPoll(i))
  /\ WF_indexVars(\E i \in DOMAIN requests : AnswerList(i))
  /\ WF_indexVars(\E i \in DOMAIN requests : DeliverList(i))

IndexSpec == IndexInit /\ [][IndexNext]_indexVars
IndexFairSpec == IndexSpec /\ IndexFairness

-----------------------------------------------------------------------------
(* Properties *)

\* Everything holds values of its kind, the server runs one job at a time
\* (viz/indexing.py:43-63), and what belongs to the dialog or to the panel goes
\* with it (StatsTab.tsx:169, 226).
IndexTypeOK ==
  /\ jobs \in Seq(Statuses) /\ started \in 0 .. MaxJobs /\ Len(jobs) <= started
  /\ active \in Roots \union {Nothing} /\ completed \in Nat
  /\ \A i, j \in DOMAIN jobs : jobs[i] = "indexing" /\ jobs[j] = "indexing" => i = j
  /\ modal \in {"closed", "open", "submitting"}
  /\ submits \in Seq([of : {"modal", "tab", "gone"}, answer : {Nothing, Failed, "ok"}])
  /\ modal = "submitting" <=> \E i \in DOMAIN submits : submits[i].of = "modal"
  /\ shown \in Seq(Statuses)
  /\ polls \in Seq([of : {"panel", "tab"}, answer : Seq(Statuses) \union {Nothing}])
  /\ \A i \in DOMAIN polls : polls[i].of = "panel" => indexing
  /\ list \in Nat \union {Nothing}
  /\ requests \in Seq(Nat \union {Nothing, Failed})
  /\ {mounted, indexing, watching, listError, loading, mixed, due} \subseteq BOOLEAN
  /\ ~mounted => modal = "closed" /\ ~indexing /\ requests = <<>>

\* Once the panel has gone by itself and the list was fetched without another
\* request in between, the list shows every run on the server's own project that had
\* completed when the panel went.  It shows no run on another path, which is in
\* another database (StatsTab.tsx:79-85, 169, useProjects.ts:22-49, viz/server.py:224-225).
ListCatchesUp ==
  mounted /\ requests = <<>> /\ ~mixed =>
    /\ ~loading
    /\ due /\ ~listError => list = completed

\* The panel does not poll for ever: once the jobs are over it goes, or stops
\* polling to show a failure, unless the server restarted and lists none
\* (StatsTab.tsx:69-91, "keep polling, don't treat as done").  A poll that is lost
\* or answered late does not prevent it.
PollingEnds ==
  indexing /\ watching ~> (~indexing \/ ~watching \/ jobs = <<>>)
================================================================================
