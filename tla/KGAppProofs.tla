------------------------------ MODULE KGAppProofs ------------------------------
(***************************************************************************)
(* What holds of the page for any projects, components, answers of servers *)
(* and snapshots, and for any history; and, in the last part, of its tab of *)
(* projects, for any jobs, requests and restarts of the server.            *)
(***************************************************************************)
EXTENDS KGApp, KGIndexView, SequenceTheorems, TLAPS

\* A repository is asked for only while it is linked to, and only that of the
\* project shown: a request before a change of project has been cancelled.
AskedIsShown ==
  repo.asked # None => HasRepo(runtime, route) /\ repo.asked = route.project

PageInv == TypeOK /\ AskedIsShown /\ LinksOfProject /\ FailsClosed

-----------------------------------------------------------------------------
(***************************************************************************)
(* Routes and the language.                                                *)
(***************************************************************************)

\* What was read from a URL is a route, and reads the same again.
LEMMA RouteRead ==
  /\ \A url \in Urls : ReadRoute(url) \in Routes
  /\ \A where \in Routes : where \in Urls /\ ReadRoute(where) = where
BY DEF Urls, Routes, ReadRoute, Tabs

\* Whatever the request of the language yields is a language.
LEMMA Detected == LanguageAnswers \subseteq Languages
<1>1. \A l \in Languages \union {"other"} : Detect(<<>>, l) \in Languages
  <2>1. {i \in DOMAIN <<>> : <<>>[i].q > 0 /\ <<>>[i].tag \in Languages} = {} OBVIOUS
  <2> QED BY <2>1 DEF Detect, Languages
<1>2. Detect(Browser, None) \in Languages
  <2> DEFINE known == {i \in DOMAIN Browser : Browser[i].q > 0 /\ Browser[i].tag \in Languages}
             best == CHOOSE i \in known : \A j \in known :
                       \/ Browser[j].q < Browser[i].q
                       \/ Browser[j].q = Browser[i].q /\ i <= j
  <2>1. DOMAIN Browser = {1} /\ Browser[1].q = 10 BY DEF Browser
  <2>2. CASE known = {} BY <2>2 DEF Detect, Languages
  <2>3. CASE known # {}
    <3>1. known = {1} BY <2>1, <2>3
    <3>2. best \in known BY <2>1, <3>1
    <3>3. Browser[best].tag \in Languages BY <3>2
    <3> QED BY <2>3, <3>3 DEF Detect
  <2> QED BY <2>2, <2>3
<1> QED BY <1>1, <1>2 DEF LanguageAnswers

-----------------------------------------------------------------------------
(***************************************************************************)
(* The steps, by what they change.                                         *)
(***************************************************************************)

\* Rendering, listening, leaving and learning the language leave the rest alone.
LanguageStep ==
  \/ \E c \in Components : Render(c) \/ Listen(c) \/ Leave(c)
  \/ LanguageArrives

\* Every way to another route goes through SwitchTab, and leaves that route in
\* the open entry of the history.
LEMMA SwitchKinds ==
  ASSUME TypeOK,
         \/ \E tab \in Tabs : OpenTab(tab)
         \/ ClearProject
         \/ \E p \in Projects : SelectProject(p)
         \/ \E i \in DOMAIN entries : PopState(i)
  PROVE  \E where \in Routes :
           /\ SwitchTab(where)
           /\ entries' \in Seq(Routes) /\ here' \in DOMAIN entries'
           /\ ReadRoute(entries'[here']) = where
<1>1. entries \in Seq(Routes) /\ here \in 1 .. Len(entries) /\ route \in Routes
  BY LenProperties DEF TypeOK
<1>2. ASSUME NEW tab \in Tabs, NEW project \in Projects \union {None}, Navigate(tab, project)
      PROVE  \E where \in Routes :
               /\ SwitchTab(where)
               /\ entries' \in Seq(Routes) /\ here' \in DOMAIN entries'
               /\ ReadRoute(entries'[here']) = where
  <2> DEFINE url == [tab |-> tab, project |-> project]
             before == SubSeq(entries, 1, here)
  <2>1. url \in Routes /\ ReadRoute(url) = url BY RouteRead DEF Routes
  <2>2. here \in Nat \ {0} /\ here <= Len(entries) /\ Len(entries) \in Nat BY <1>1, LenProperties
  <2>3. \A i \in 1 .. here : entries[i] \in Routes BY <1>1, <2>2, ElementOfSeq
  <2>4. before \in Seq(Routes) /\ Len(before) = here BY <2>2, <2>3, SubSeqProperties
  <2>5. entries' = Append(before, url) /\ here' = here + 1 /\ SwitchTab(url)
    BY <1>2 DEF Navigate
  <2> HIDE DEF before, url
  <2>6. /\ Append(before, url) \in Seq(Routes) /\ Len(Append(before, url)) = here + 1
        /\ Append(before, url)[here + 1] = url
    BY <2>1, <2>2, <2>4, AppendProperties
  <2>7. here + 1 \in DOMAIN Append(before, url) BY <2>2, <2>6, LenProperties
  <2> QED BY <2>1, <2>5, <2>6, <2>7
<1>3. CASE \E tab \in Tabs : OpenTab(tab)
  <2>1. PICK tab \in Tabs : OpenTab(tab) BY <1>3
  <2>2. Navigate(tab, IF tab = "stats" THEN None ELSE route.project) BY <2>1 DEF OpenTab
  <2> QED BY <1>1, <1>2, <2>2 DEF Routes
<1>4. CASE ClearProject BY <1>2, <1>4 DEF ClearProject, Tabs
<1>5. CASE \E p \in Projects : SelectProject(p) BY <1>2, <1>5 DEF SelectProject, Tabs
<1>6. CASE \E i \in DOMAIN entries : PopState(i)
  <2>1. PICK i \in DOMAIN entries : PopState(i) BY <1>6
  <2>2. entries[i] \in Routes BY <1>1, <2>1, ElementOfSeq, LenProperties
  <2> QED BY <1>1, <2>1, <2>2, RouteRead DEF PopState
<1> QED BY <1>3, <1>4, <1>5, <1>6

\* The steps of the page are of these kinds.
LEMMA StepKinds ==
  ASSUME TypeOK, Next
  PROVE  \/ \E where \in Routes :
              /\ SwitchTab(where)
              /\ entries' \in Seq(Routes) /\ here' \in DOMAIN entries'
              /\ ReadRoute(entries'[here']) = where
         \/ LoadLive \/ LoadSnapshot \/ LanguageStep \/ RepoAnswers \/ Reload
BY SwitchKinds DEF Next, LanguageStep

-----------------------------------------------------------------------------
(***************************************************************************)
(* The invariant.                                                          *)
(***************************************************************************)

\* What the effect of the tab leaves: nothing without a live project, the same
\* for the same one, and a request for a new one.
LEMMA EffectOfTab ==
  ASSUME TypeOK, AskedIsShown, LinksOfProject, NEW r, NEW where \in Routes,
         repo' = RepoAfter(r, where), runtime' = r, route' = where
  PROVE  /\ repo' \in [asked : Projects \union {None}, held : Projects \union {None},
                       refused : BOOLEAN]
         /\ AskedIsShown' /\ LinksOfProject'
<1>1. CASE ~HasRepo(r, where)
  BY <1>1 DEF RepoAfter, NoRepo, AskedIsShown, LinksOfProject, GithubUrl, HasRepo, ShowsGraph, EffectiveTabOf, ShownTabs
<1>2. CASE HasRepo(r, where) /\ HasRepo(runtime, route) /\ where.project = route.project
  BY <1>2 DEF RepoAfter, TypeOK, AskedIsShown, LinksOfProject, GithubUrl
<1>3. CASE HasRepo(r, where) /\ ~(HasRepo(runtime, route) /\ where.project = route.project)
  <2>1. where.project \in Projects BY <1>3 DEF HasRepo, Routes
  <2>2. where.project # None BY <1>3 DEF HasRepo
  <2>3. repo' = [asked |-> where.project, held |-> repo.held, refused |-> FALSE]
    BY <1>3 DEF RepoAfter
  <2>4. repo.held \in Projects \union {None} BY DEF TypeOK
  <2>5. repo'.asked = where.project BY <2>3
  <2>6. HasRepo(runtime', route') BY <1>3
  <2>7. repo' \in [asked : Projects \union {None}, held : Projects \union {None}, refused : BOOLEAN]
    BY <2>1, <2>3, <2>4
  <2>8. repo'.asked # None BY <2>2, <2>5
  <2>9. AskedIsShown' BY <2>5, <2>6 DEF AskedIsShown
  <2>10. LinksOfProject' BY <2>8 DEF LinksOfProject
  <2> QED BY <2>7, <2>9, <2>10
<1> QED BY <1>1, <1>2, <1>3

LEMMA InitInv == Init => PageInv
<1> SUFFICES ASSUME Init PROVE PageInv
  OBVIOUS
<1>1. route \in Routes /\ ReadRoute(route) = route BY RouteRead DEF Init
<1>2. /\ entries \in Seq(Routes) /\ here \in DOMAIN entries /\ route = ReadRoute(entries[here])
  BY <1>1 DEF Init
<1>3. /\ repo \in [asked : Projects \union {None}, held : Projects \union {None}, refused : BOOLEAN]
      /\ repo.asked = None /\ repo.held = None
  BY DEF Init, NoRepo
<1>4. /\ phase \in [Components -> {"absent", "rendered", "listening"}] /\ phase["App"] # "absent"
      /\ \A c \in Children : phase[c] = "absent"
  BY AppConstants DEF Init, Blank, Components
<1>5. language \in [Components -> Languages] /\ cachedLanguage \in Languages
  BY DEF Init, English, Languages
<1>6. TypeOK BY <1>1, <1>2, <1>3, <1>4, <1>5 DEF Init, TypeOK
<1>7. ~HasRepo(runtime, route) BY DEF Init, HasRepo, ShowsGraph
<1> QED BY <1>3, <1>6, <1>7 DEF Init, PageInv, AskedIsShown, LinksOfProject, GithubUrl, FailsClosed

\* Another route unmounts the components of the tab that is left.
LEMMA SwitchInv ==
  ASSUME PageInv, NEW where \in Routes, SwitchTab(where),
         entries' \in Seq(Routes), here' \in DOMAIN entries', ReadRoute(entries'[here']) = where
  PROVE  PageInv'
<1>1. TypeOK /\ AskedIsShown /\ LinksOfProject /\ FailsClosed BY DEF PageInv
<1>2. /\ route' = where /\ repo' = RepoAfter(runtime, where) /\ phase' = Unmounted(where)
      /\ UNCHANGED <<transport, runtime, told, cachedLanguage, languageLoaded, languageRequest, language>>
  BY DEF SwitchTab, runtimeVars
<1>3. /\ repo' \in [asked : Projects \union {None}, held : Projects \union {None}, refused : BOOLEAN]
      /\ AskedIsShown' /\ LinksOfProject'
  BY <1>1, <1>2, EffectOfTab
<1>4. /\ phase' \in [Components -> {"absent", "rendered", "listening"}] /\ phase'["App"] # "absent"
      /\ \A c \in Children : phase'[c] # "absent" =>
           runtime # None /\ TabOf[c] = EffectiveTabOf(runtime, where)
  BY <1>1, <1>2, AppConstants DEF TypeOK, Unmounted, Components
<1>5. TypeOK' BY <1>1, <1>2, <1>3, <1>4 DEF TypeOK, EffectiveTab
<1> QED BY <1>1, <1>2, <1>3, <1>5 DEF PageInv, FailsClosed

\* The runtime arrives while nothing but the page is rendered.
LEMMA ResolveInv ==
  ASSUME PageInv, LoadLive \/ LoadSnapshot
  PROVE  PageInv'
<1>1. TypeOK /\ AskedIsShown /\ LinksOfProject /\ FailsClosed BY DEF PageInv
<1>2. /\ transport \in {"live", "snapshot"} /\ runtime = None
      /\ UNCHANGED <<entries, here, route, cachedLanguage, languageLoaded, languageRequest, phase, language>>
  BY <1>1 DEF LoadLive, LoadSnapshot, TypeOK, routeVars, languageVars
<1>3. \A c \in Children : phase[c] = "absent" BY <1>1, <1>2 DEF TypeOK
<1>4. CASE transport' = "snapshot" /\ UNCHANGED <<runtime, told, repo>>
  BY <1>1, <1>2, <1>3, <1>4
     DEF PageInv, TypeOK, AskedIsShown, LinksOfProject, GithubUrl, FailsClosed, EffectiveTab
<1>5. ASSUME NEW mode \in {"live", "static"}, NEW capabilities \in SUBSET Keys, NEW raw,
             Resolve(mode, capabilities, raw),
             \A k \in capabilities \ {"graph"} :
               mode = "live" /\ k \in DOMAIN raw /\ raw[k] = "true"
      PROVE  PageInv'
  <2>1. /\ runtime' = [mode |-> mode, capabilities |-> capabilities] /\ told' = raw
        /\ transport' = "settled" /\ repo' = RepoAfter(runtime', route')
    BY <1>2, <1>5 DEF Resolve
  <2>2. runtime' \in [mode : {"live", "static"}, capabilities : SUBSET Keys] BY <2>1
  <2>3. runtime' # None BY <2>2, AppConstants
  <2>4. route' \in Routes BY <1>1, <1>2 DEF TypeOK
  <2>5. /\ repo' \in [asked : Projects \union {None}, held : Projects \union {None}, refused : BOOLEAN]
        /\ AskedIsShown' /\ LinksOfProject'
    BY <1>1, <2>1, <2>4, EffectOfTab
  <2>6. TypeOK' BY <1>1, <1>2, <1>3, <2>1, <2>2, <2>3, <2>5 DEF TypeOK
  <2>7. FailsClosed' BY <1>5, <2>1 DEF FailsClosed
  <2> QED BY <2>5, <2>6, <2>7 DEF PageInv
<1>6. /\ \A raw : ParseCapabilities(raw) \in SUBSET Keys /\ StaticCapabilities(raw) \in SUBSET Keys
      /\ DefaultCapabilities \in SUBSET Keys
  BY DEF ParseCapabilities, StaticCapabilities, DefaultCapabilities, Keys
<1>7. CASE LoadLive
  <2>1. CASE \E raw \in LiveAnswers : Resolve("live", ParseCapabilities(raw), raw)
    <3>1. PICK raw \in LiveAnswers : Resolve("live", ParseCapabilities(raw), raw) BY <2>1
    <3>2. \A k \in ParseCapabilities(raw) \ {"graph"} : k \in DOMAIN raw /\ raw[k] = "true"
      BY DEF ParseCapabilities, DefaultCapabilities
    <3> QED BY <1>5, <1>6, <3>1, <3>2
  <2> QED BY <1>4, <1>7, <2>1 DEF LoadLive
<1>8. CASE LoadSnapshot
  <2>1. CASE \E raw \in SnapshotAnswers : Resolve("static", StaticCapabilities(raw), raw)
    <3>1. PICK raw \in SnapshotAnswers : Resolve("static", StaticCapabilities(raw), raw) BY <2>1
    <3>2. StaticCapabilities(raw) \ {"graph"} = {} BY DEF StaticCapabilities, DefaultCapabilities
    <3> QED BY <1>5, <1>6, <3>1, <3>2
  <2>2. CASE Resolve("static", DefaultCapabilities, Refused)
    <3>1. DefaultCapabilities \ {"graph"} = {} BY DEF DefaultCapabilities
    <3> QED BY <1>5, <1>6, <2>2, <3>1
  <2> QED BY <1>8, <2>1, <2>2 DEF LoadSnapshot
<1> QED BY <1>7, <1>8

\* A component that appears is one of the tab that is shown.
LEMMA LanguageInv ==
  ASSUME PageInv, LanguageStep
  PROVE  PageInv'
<1>1. TypeOK /\ AskedIsShown /\ LinksOfProject /\ FailsClosed BY DEF PageInv
<1>2. UNCHANGED <<entries, here, route, transport, runtime, told, repo>>
  BY DEF LanguageStep, Render, Listen, Leave, LanguageArrives, routeVars, runtimeVars
<1> DEFINE Kept ==
             /\ phase' \in [Components -> {"absent", "rendered", "listening"}]
             /\ language' \in [Components -> Languages] /\ cachedLanguage' \in Languages
             /\ languageLoaded' \in BOOLEAN /\ languageRequest' \in BOOLEAN
             /\ \A c \in Children : phase'[c] # "absent" => runtime # None /\ TabOf[c] = EffectiveTab
             /\ phase'["App"] # "absent"
<1>3. Kept
  <2>1. ASSUME NEW c \in Components, Render(c) PROVE Kept
    BY <1>1, <2>1, AppConstants DEF TypeOK, Render, Components
  <2>2. ASSUME NEW c \in Components, Listen(c) PROVE Kept
    BY <1>1, <2>2, AppConstants DEF TypeOK, Listen, Components
  <2>3. ASSUME NEW c \in Components, Leave(c) PROVE Kept
    BY <1>1, <2>3, AppConstants DEF TypeOK, Leave, Components
  <2>4. ASSUME LanguageArrives PROVE Kept
    <3>1. PICK l \in Languages :
            language' = [c \in Components |-> IF phase[c] = "listening" THEN l ELSE language[c]]
            /\ cachedLanguage' = l
      BY <2>4, Detected DEF LanguageArrives
    <3>2. languageLoaded' = TRUE /\ languageRequest' = FALSE /\ phase' = phase
      BY <2>4 DEF LanguageArrives
    <3> QED BY <1>1, <3>1, <3>2 DEF TypeOK
  <2> QED BY <2>1, <2>2, <2>3, <2>4 DEF LanguageStep
<1>4. TypeOK' BY <1>1, <1>2, <1>3 DEF TypeOK, EffectiveTab
<1> QED BY <1>1, <1>2, <1>4 DEF PageInv, AskedIsShown, LinksOfProject, GithubUrl, FailsClosed

\* The answer about the repository is about the project shown.
LEMMA RepoInv ==
  ASSUME PageInv, RepoAnswers
  PROVE  PageInv'
<1>1. TypeOK /\ AskedIsShown /\ LinksOfProject /\ FailsClosed BY DEF PageInv
<1>2. UNCHANGED <<entries, here, route, transport, runtime, told, cachedLanguage, languageLoaded,
                  languageRequest, phase, language>>
  BY DEF RepoAnswers, routeVars, runtimeVars, languageVars
<1>3. /\ repo' \in [asked : Projects \union {None}, held : Projects \union {None}, refused : BOOLEAN]
      /\ repo'.asked = None
      /\ repo'.refused \/ repo'.held = repo.asked
  <2>1. /\ repo \in [asked : Projects \union {None}, held : Projects \union {None}, refused : BOOLEAN]
        /\ repo.asked # None
    BY <1>1 DEF RepoAnswers, TypeOK
  <2>2. CASE repo' = [asked |-> None, held |-> repo.asked, refused |-> FALSE] BY <2>1, <2>2
  <2>3. CASE repo' = [repo EXCEPT !.asked = None, !.refused = TRUE]
    <3>1. repo' = [asked |-> None, held |-> repo.held, refused |-> TRUE] BY <2>1, <2>3
    <3> QED BY <2>1, <3>1
  <2> QED BY <2>2, <2>3 DEF RepoAnswers
<1>4. HasRepo(runtime, route) /\ repo.asked = route.project
  BY <1>1 DEF RepoAnswers, AskedIsShown
<1>5. TypeOK' BY <1>1, <1>2, <1>3 DEF TypeOK, EffectiveTab
<1> QED BY <1>1, <1>2, <1>3, <1>4, <1>5 DEF PageInv, AskedIsShown, LinksOfProject, GithubUrl, FailsClosed

\* A reload forgets everything but the history.
LEMMA ReloadInv ==
  ASSUME PageInv, Reload
  PROVE  PageInv'
<1>1. TypeOK BY DEF PageInv
<1>2. entries[here] \in Routes /\ here \in 1 .. Len(entries)
  BY <1>1, ElementOfSeq, LenProperties DEF TypeOK
<1>3. route' \in Routes /\ ReadRoute(route') = route' BY <1>2, RouteRead DEF Reload
<1>4. /\ entries' \in Seq(Routes) /\ here' \in DOMAIN entries' /\ route' = ReadRoute(entries'[here'])
  BY <1>1, <1>2, <1>3, ExceptSeq DEF TypeOK, Reload
<1>5. /\ repo' \in [asked : Projects \union {None}, held : Projects \union {None}, refused : BOOLEAN]
      /\ repo'.asked = None /\ repo'.held = None
  BY DEF Reload, NoRepo
<1>6. /\ phase' \in [Components -> {"absent", "rendered", "listening"}] /\ phase'["App"] # "absent"
      /\ \A c \in Children : phase'[c] = "absent"
  BY AppConstants DEF Reload, Blank, Components
<1>7. language' \in [Components -> Languages] /\ cachedLanguage' \in Languages
  BY DEF Reload, English, Languages
<1>8. TypeOK' BY <1>3, <1>4, <1>5, <1>6, <1>7 DEF Reload, TypeOK
<1>9. runtime' = None BY DEF Reload
<1>10. ~HasRepo(runtime', route') BY <1>9 DEF HasRepo, ShowsGraph
<1> QED BY <1>5, <1>8, <1>9, <1>10 DEF PageInv, AskedIsShown, LinksOfProject, GithubUrl, FailsClosed

LEMMA StepInv == PageInv /\ [Next]_vars => PageInv'
<1> SUFFICES ASSUME PageInv, [Next]_vars PROVE PageInv'
  OBVIOUS
<1>1. CASE UNCHANGED vars
  BY <1>1 DEF vars, routeVars, runtimeVars, languageVars, PageInv, TypeOK, AskedIsShown,
              LinksOfProject, GithubUrl, FailsClosed, EffectiveTab
<1>2. CASE Next
  <2>1. TypeOK BY DEF PageInv
  <2> QED BY <1>2, <2>1, StepKinds, SwitchInv, ResolveInv, LanguageInv, RepoInv, ReloadInv
<1> QED BY <1>1, <1>2

LEMMA PageInvariant == Spec => []PageInv
BY InitInv, StepInv, PTL DEF Spec

\* The view is the one of the open entry of the history, through clicks, the
\* browser's buttons and reloads, and nothing of a hidden tab is rendered
\* (App.tsx:62-102).
THEOREM TypeCorrect == Spec => []TypeOK
<1>1. PageInv => TypeOK BY DEF PageInv
<1> QED BY PageInvariant, <1>1, PTL

\* Whatever servers and snapshots answer, an optional control is offered only for
\* a literal true of a live server (kgAdapter.ts:42-64).
THEOREM ControlsFailClosed == Spec => []FailsClosed
<1>1. PageInv => FailsClosed BY DEF PageInv
<1> QED BY PageInvariant, <1>1, PTL

\* For any number of projects and any history, an answered request leaves the
\* repository of the project that is shown (GraphTab.tsx:253-270).
THEOREM LinksAreOfProject == Spec => []LinksOfProject
<1>1. PageInv => LinksOfProject BY DEF PageInv
<1> QED BY PageInvariant, <1>1, PTL

-----------------------------------------------------------------------------
(***************************************************************************)
(* The tab of projects.                                                    *)
(***************************************************************************)

\* One job of the server runs at most.
JobsInv ==
  /\ jobs \in Seq(Statuses) /\ started \in 0 .. MaxJobs /\ Len(jobs) <= started
  /\ active \in Roots \union {Nothing}
  /\ \A i, j \in DOMAIN jobs : jobs[i] = "indexing" /\ jobs[j] = "indexing" => i = j

Submissions == [of : {"modal", "tab", "gone"}, answer : {Nothing, Failed, "ok"}]

\* An open dialog waits for one submission at most, and nobody waits for those of a
\* tab that is gone.
DialogInv ==
  /\ modal \in {"closed", "open", "submitting"}
  /\ submits \in Seq(Submissions)
  /\ modal = "submitting" <=> \E i \in DOMAIN submits : submits[i].of = "modal"
  /\ \A i, j \in DOMAIN submits : submits[i].of = "modal" /\ submits[j].of = "modal" => i = j
  /\ ~mounted => modal = "closed" /\ \A i \in DOMAIN submits : submits[i].of = "gone"

Polls == [of : {"panel", "tab"}, answer : Seq(Statuses) \union {Nothing}]

\* A panel belongs to a tab that is shown, and only such a tab has polls under way.
ProgressInv ==
  /\ {mounted, indexing, watching} \subseteq BOOLEAN
  /\ shown \in Seq(Statuses)
  /\ polls \in Seq(Polls)
  /\ \A i \in DOMAIN polls : polls[i].of = "panel" => indexing
  /\ ~mounted => ~indexing /\ polls = <<>>

Answers == Nat \union {Nothing, Failed}

\* Without an overlap there is one request of the list at most, and once a panel has
\* called onDone it does not bring what was read before.  Of several requests the last
\* answer need not be the last one read.
ListInv ==
  /\ list \in Nat \union {Nothing} /\ requests \in Seq(Answers) /\ completed \in Nat
  /\ {listError, loading, mixed, due} \subseteq BOOLEAN
  /\ ~mounted => requests = <<>>
  /\ mounted /\ ~mixed =>
       /\ Len(requests) <= 1
       /\ due => \A k \in DOMAIN requests : requests[k] \in {completed, Nothing, Failed}
       /\ requests = <<>> => ~loading /\ (due /\ ~listError => list = completed)

IndexInv == JobsInv /\ DialogInv /\ ProgressInv /\ ListInv

-----------------------------------------------------------------------------

\* What is left when one element is taken out.
LEMMA Left ==
  ASSUME NEW S, NEW s \in Seq(S), NEW i \in DOMAIN s
  PROVE  /\ Without(s, i) \in Seq(S) /\ Len(Without(s, i)) = Len(s) - 1
         /\ \A k \in DOMAIN Without(s, i) :
              Without(s, i)[k] = s[IF k < i THEN k ELSE k + 1]
         /\ Len(s) = 1 => Without(s, i) = <<>>
<1>1. Len(s) \in Nat /\ i \in 1 .. Len(s) BY LenProperties
<1> DEFINE before == SubSeq(s, 1, i - 1)
           after == SubSeq(s, i + 1, Len(s))
<1>2. /\ before \in Seq(S) /\ Len(before) = i - 1
      /\ \A k \in 1 .. i - 1 : before[k] = s[k]
  <2>1. CASE i = 1
    <3>1. before = <<>> BY <2>1, SubSeqEmpty
    <3> QED BY <2>1, <3>1, EmptySeq
  <2>2. CASE i # 1
    <3>1. 1 \in 1 .. Len(s) + 1 /\ i - 1 \in 0 .. Len(s) /\ 1 <= i - 1 BY <1>1, <2>2
    <3>2. /\ before \in Seq(S) /\ Len(before) = IF 1 <= i - 1 THEN (i - 1) - 1 + 1 ELSE 0
          /\ \A k \in 1 .. (i - 1) - 1 + 1 : before[k] = s[1 + k - 1]
      BY <1>1, <3>1, SubSeqProperties
    <3> HIDE DEF before
    <3>3. (i - 1) - 1 + 1 = i - 1 /\ \A k \in 1 .. i - 1 : 1 + k - 1 = k BY <1>1
    <3>4. ASSUME NEW k \in 1 .. i - 1 PROVE before[k] = s[k]
      <4>1. before[k] = s[1 + k - 1] /\ 1 + k - 1 = k BY <3>2, <3>3
      <4> QED BY <4>1
    <3> QED BY <3>1, <3>2, <3>3, <3>4
  <2> QED BY <2>1, <2>2
<1>3. /\ after \in Seq(S) /\ Len(after) = Len(s) - i
      /\ \A k \in 1 .. Len(s) - i : after[k] = s[i + k]
  <2>1. CASE i = Len(s)
    <3>1. after = <<>> BY <1>1, <2>1, SubSeqEmpty
    <3> QED BY <1>1, <2>1, <3>1, EmptySeq
  <2>2. CASE i # Len(s)
    <3>1. i + 1 \in 1 .. Len(s) + 1 /\ Len(s) \in i .. Len(s) /\ i + 1 <= Len(s) BY <1>1, <2>2
    <3>2. /\ after \in Seq(S) /\ Len(after) = IF i + 1 <= Len(s) THEN Len(s) - (i + 1) + 1 ELSE 0
          /\ \A k \in 1 .. Len(s) - (i + 1) + 1 : after[k] = s[(i + 1) + k - 1]
      BY <1>1, <3>1, SubSeqProperties
    <3> HIDE DEF after
    <3>3. /\ Len(s) - (i + 1) + 1 = Len(s) - i
          /\ \A k \in 1 .. Len(s) - i : (i + 1) + k - 1 = i + k
      BY <1>1
    <3>4. ASSUME NEW k \in 1 .. Len(s) - i PROVE after[k] = s[i + k]
      <4>1. after[k] = s[(i + 1) + k - 1] /\ (i + 1) + k - 1 = i + k BY <3>2, <3>3
      <4> QED BY <4>1
    <3> QED BY <3>1, <3>2, <3>3, <3>4
  <2> QED BY <2>1, <2>2
<1> HIDE DEF before, after
<1>4. /\ before \o after \in Seq(S) /\ Len(before \o after) = Len(before) + Len(after)
      /\ \A k \in 1 .. Len(before) + Len(after) :
           (before \o after)[k] = IF k <= Len(before) THEN before[k] ELSE after[k - Len(before)]
  BY <1>2, <1>3, ConcatProperties
<1>5. Without(s, i) = before \o after BY DEF Without, before, after
<1>6. Len(Without(s, i)) = Len(s) - 1
  <2>1. i \in Int /\ Len(s) \in Int BY <1>1
  <2>2. Len(Without(s, i)) = (i - 1) + (Len(s) - i) BY <1>2, <1>3, <1>4, <1>5
  <2> QED BY <2>1, <2>2
<1>7. ASSUME NEW k \in DOMAIN Without(s, i)
      PROVE  Without(s, i)[k] = s[IF k < i THEN k ELSE k + 1]
  <2>1. k \in 1 .. Len(s) - 1 BY <1>4, <1>5, <1>6, LenProperties
  <2>2. CASE k < i
    <3>1. k \in 1 .. i - 1 /\ k <= Len(before) BY <1>1, <1>2, <2>1, <2>2
    <3>2. Len(before) + Len(after) = Len(s) - 1 BY <1>1, <1>2, <1>3
    <3>3. (before \o after)[k] = before[k] BY <1>4, <2>1, <3>1, <3>2
    <3>4. before[k] = s[k] BY <1>2, <3>1
    <3> QED BY <1>5, <2>2, <3>3, <3>4
  <2>3. CASE ~(k < i)
    <3>1. k - (i - 1) \in 1 .. Len(s) - i /\ ~(k <= Len(before)) BY <1>1, <1>2, <2>1, <2>3
    <3>2. Without(s, i)[k] = after[k - (i - 1)]
      <4>1. Len(before) + Len(after) = Len(s) - 1 BY <1>1, <1>2, <1>3
      <4>2. (before \o after)[k] = after[k - Len(before)] BY <1>4, <2>1, <3>1, <4>1
      <4> QED BY <1>2, <1>5, <4>2
    <3>3. after[k - (i - 1)] = s[i + (k - (i - 1))] BY <1>3, <3>1
    <3>4. i + (k - (i - 1)) = k + 1 BY <1>1, <2>1
    <3> QED BY <2>3, <3>2, <3>3, <3>4
  <2> QED BY <2>2, <2>3
<1>8. Len(s) = 1 => Without(s, i) = <<>>
  <2>1. Len(s) = 1 => Len(Without(s, i)) = 0 BY <1>6
  <2> QED BY <1>4, <1>5, <2>1, EmptySeq
<1> QED BY <1>4, <1>5, <1>6, <1>7, <1>8

\* What is handed over keeps its answer, and stays with nobody once it is.
Hand(r, owner) == [r EXCEPT !.of = IF @ = "gone" THEN @ ELSE owner]

LEMMA SeqMonotone ==
  ASSUME NEW S, NEW T, S \subseteq T, NEW s \in Seq(S)
  PROVE  s \in Seq(T)
<1>1. Len(s) \in Nat /\ DOMAIN s = 1 .. Len(s) /\ \A k \in 1 .. Len(s) : s[k] \in S
  BY LenProperties, ElementOfSeq
<1>2. s = [k \in 1 .. Len(s) |-> s[k]] BY <1>1, SeqDef
<1>3. s \in [1 .. Len(s) -> T] BY <1>1, <1>2
<1> QED BY <1>1, <1>3, SeqDef

LEMMA Handed ==
  ASSUME NEW S, NEW s \in Seq(S), NEW owner, NEW T,
         \A r \in S : Hand(r, owner) \in T
  PROVE  /\ Owned(s, owner) \in Seq(T) /\ DOMAIN Owned(s, owner) = DOMAIN s
         /\ \A i \in DOMAIN s : Owned(s, owner)[i] = Hand(s[i], owner)
<1> DEFINE handed == [i \in DOMAIN s |-> Hand(s[i], owner)]
<1>1. Len(s) \in Nat /\ DOMAIN s = 1 .. Len(s) BY LenProperties
<1>2. \A i \in DOMAIN s : s[i] \in S BY <1>1, ElementOfSeq
<1>3. \A i \in DOMAIN s :
        handed[i] = Hand(s[i], owner) /\ handed[i] \in T
  BY <1>2
<1>4. handed \in [1 .. Len(s) -> T]
  <2>1. handed = [i \in 1 .. Len(s) |-> handed[i]] BY <1>1
  <2> HIDE DEF handed
  <2> QED BY <1>1, <1>3, <2>1
<1>5. Owned(s, owner) = handed /\ DOMAIN handed = DOMAIN s BY DEF Owned, Hand
<1> HIDE DEF handed
<1>6. handed \in Seq(T) BY <1>1, <1>4, SeqDef
<1> QED BY <1>3, <1>5, <1>6

\* A new element stands behind the others.
LEMMA Appended ==
  ASSUME NEW S, NEW s \in Seq(S), NEW e \in S
  PROVE  /\ Append(s, e) \in Seq(S) /\ Len(Append(s, e)) = Len(s) + 1
         /\ Len(s) + 1 \in DOMAIN Append(s, e) /\ Append(s, e)[Len(s) + 1] = e
         /\ \A i \in DOMAIN Append(s, e) :
              i = Len(s) + 1 \/ (i \in DOMAIN s /\ Append(s, e)[i] = s[i])
         /\ \A i \in DOMAIN s : i \in DOMAIN Append(s, e) /\ Append(s, e)[i] = s[i]
<1>1. Len(s) \in Nat /\ DOMAIN s = 1 .. Len(s) BY LenProperties
<1>2. /\ Append(s, e) \in Seq(S) /\ Len(Append(s, e)) = Len(s) + 1
      /\ \A i \in 1 .. Len(s) : Append(s, e)[i] = s[i]
      /\ Append(s, e)[Len(s) + 1] = e
  BY AppendProperties
<1>3. DOMAIN Append(s, e) = 1 .. Len(s) + 1 BY <1>2, LenProperties
<1> QED BY <1>1, <1>2, <1>3

-----------------------------------------------------------------------------

LEMMA JobsKept == JobsInv /\ [IndexNext]_indexVars => JobsInv'
<1> SUFFICES ASSUME JobsInv, [IndexNext]_indexVars PROVE JobsInv'
  OBVIOUS
<1>1. Len(jobs) \in Nat /\ DOMAIN jobs = 1 .. Len(jobs) /\ MaxJobs \in Nat /\ started \in Nat
  BY LenProperties, IndexViewConstants DEF JobsInv
<1>2. CASE FinishJob
  <2>1. PICK i \in DOMAIN jobs, s \in {"done", "error"} :
          jobs' = [jobs EXCEPT ![i] = s] /\ started' = started /\ active' = Nothing
    BY <1>2 DEF FinishJob
  <2>2. jobs' \in Seq(Statuses) /\ Len(jobs') = Len(jobs) /\ DOMAIN jobs' = DOMAIN jobs
    BY <2>1, ExceptSeq DEF JobsInv, Statuses
  <2>3. \A k \in DOMAIN jobs : jobs'[k] = "indexing" => jobs[k] = "indexing" BY <2>1
  <2> QED BY <2>1, <2>2, <2>3 DEF JobsInv
<1>3. CASE Restart
  <2>1. jobs' \in Seq(Statuses) /\ Len(jobs') = 0 /\ DOMAIN jobs' = {}
    BY <1>3, EmptySeq DEF Restart
  <2> QED BY <1>1, <1>3, <2>1 DEF JobsInv, Restart
<1>4. ASSUME NEW i \in DOMAIN submits, AnswerSubmit(i) PROVE JobsInv'
  <2>1. CASE UNCHANGED <<jobs, active, started>> BY <2>1 DEF JobsInv
  <2>2. CASE /\ Admits /\ jobs' = Append(jobs, "indexing") /\ started' = started + 1
             /\ active' \in Roots
    <3>1. /\ jobs' \in Seq(Statuses) /\ Len(jobs') = Len(jobs) + 1
          /\ \A k \in DOMAIN jobs' : k = Len(jobs) + 1 \/ (k \in DOMAIN jobs /\ jobs'[k] = jobs[k])
      BY <2>2, Appended DEF JobsInv, Statuses
    <3>2. \A k \in DOMAIN jobs : jobs[k] # "indexing" BY <2>2 DEF Admits, Has
    <3>3. started < MaxJobs BY <2>2 DEF Admits
    <3> QED BY <1>1, <2>2, <3>1, <3>2, <3>3 DEF JobsInv
  <2> QED BY <1>4, <2>1, <2>2 DEF AnswerSubmit
<1>5. CASE UNCHANGED serverVars BY <1>5 DEF serverVars, JobsInv
<1>6. \/ FinishJob \/ Restart \/ \E i \in DOMAIN submits : AnswerSubmit(i)
      \/ UNCHANGED serverVars
  BY DEF indexVars, IndexNext, Mount, Unmount, Refresh, AnswerList,
         DeliverList, OpenModal, CloseModal, Submit, DeliverSubmit,
         Tick, AnswerPoll, LosePoll, DeliverPoll, Dismiss,
         serverVars
<1> QED BY <1>2, <1>3, <1>4, <1>5, <1>6

LEMMA DialogKept == DialogInv /\ [IndexNext]_indexVars => DialogInv'
<1> SUFFICES ASSUME DialogInv, [IndexNext]_indexVars PROVE DialogInv'
  OBVIOUS
<1>1. submits \in Seq(Submissions) /\ Len(submits) \in Nat /\ DOMAIN submits = 1 .. Len(submits)
  BY LenProperties DEF DialogInv
<1>2. \A i \in DOMAIN submits : submits[i] \in Submissions BY <1>1, ElementOfSeq
\* The tab or nobody waits for what was handed over.
<1>3. ASSUME NEW s \in Seq(Submissions), NEW owner \in {"tab", "gone"}
      PROVE  /\ Owned(s, owner) \in Seq(Submissions)
             /\ \A k \in DOMAIN Owned(s, owner) : /\ Owned(s, owner)[k].of # "modal"
                                                  /\ Owned(s, owner)[k].of \in {"gone", owner}
  <2>1. \A r \in Submissions :
          Hand(r, owner) \in {x \in Submissions : x.of \in {"gone", owner}}
    BY DEF Submissions, Hand
  <2> DEFINE T == {x \in Submissions : x.of \in {"gone", owner}}
  <2>2. /\ Owned(s, owner) \in Seq(T) /\ DOMAIN Owned(s, owner) = DOMAIN s
        /\ Len(Owned(s, owner)) \in Nat
    <3>1. \A r \in Submissions : Hand(r, owner) \in T BY <2>1
    <3> HIDE DEF T
    <3>2. Owned(s, owner) \in Seq(T) /\ DOMAIN Owned(s, owner) = DOMAIN s
      BY <3>1, Handed
    <3> QED BY <3>2, LenProperties
  <2>3. \A k \in DOMAIN Owned(s, owner) : Owned(s, owner)[k] \in T
    <3> HIDE DEF T
    <3> QED BY <2>2, ElementOfSeq, LenProperties
  <2>4. Owned(s, owner) \in Seq(Submissions)
    <3>1. T \subseteq Submissions OBVIOUS
    <3> HIDE DEF T
    <3> QED BY <2>2, <3>1, SeqMonotone
  <2> QED BY <2>3, <2>4
<1>4. CASE OpenModal BY <1>4 DEF OpenModal, DialogInv
<1>5. CASE CloseModal
  <2>1. /\ modal' = "closed" /\ submits' = Owned(submits, "tab")
        /\ mounted' = mounted /\ modal # "closed"
    BY <1>5 DEF CloseModal
  <2> QED BY <1>1, <1>3, <2>1 DEF DialogInv
<1>6. CASE Submit
  <2> DEFINE e == [of |-> "modal", answer |-> Nothing]
  <2>1. modal = "open" /\ modal' = "submitting" /\ submits' = Append(submits, e) /\ mounted' = mounted
    BY <1>6 DEF Submit
  <2>2. e \in Submissions /\ e.of = "modal" BY DEF Submissions
  <2> HIDE DEF e
  <2>3. /\ submits' \in Seq(Submissions)
        /\ Len(submits) + 1 \in DOMAIN submits' /\ submits'[Len(submits) + 1].of = "modal"
        /\ \A k \in DOMAIN submits' :
             k = Len(submits) + 1 \/ (k \in DOMAIN submits /\ submits'[k] = submits[k])
    BY <1>1, <2>1, <2>2, Appended
  <2>4. \A k \in DOMAIN submits : submits[k].of # "modal" BY <2>1 DEF DialogInv
  <2> QED BY <2>1, <2>3, <2>4 DEF DialogInv
<1>7. ASSUME NEW i \in DOMAIN submits, AnswerSubmit(i) PROVE DialogInv'
  <2>1. PICK answer \in {"ok", Failed} : submits' = [submits EXCEPT ![i].answer = answer]
    BY <1>7 DEF AnswerSubmit
  <2>2. [submits[i] EXCEPT !.answer = answer] \in Submissions BY <1>2 DEF Submissions
  <2>3. submits' \in Seq(Submissions) /\ DOMAIN submits' = DOMAIN submits
    BY <1>1, <2>1, <2>2, ExceptSeq
  <2>4. \A k \in DOMAIN submits : submits'[k].of = submits[k].of BY <1>2, <2>1 DEF Submissions
  <2>5. mounted' = mounted /\ modal' = modal BY <1>7 DEF AnswerSubmit
  <2> QED BY <2>3, <2>4, <2>5 DEF DialogInv
<1>8. ASSUME NEW i \in DOMAIN submits, DeliverSubmit(i) PROVE DialogInv'
  <2> DEFINE left == Without(submits, i)
  <2>1. left \in Seq(Submissions) /\ Len(left) = Len(submits) - 1
        /\ \A k \in DOMAIN left : left[k] = submits[IF k < i THEN k ELSE k + 1]
    BY <1>1, Left
  <2> HIDE DEF left
  <2>2. DOMAIN left = 1 .. Len(submits) - 1 BY <1>1, <2>1, LenProperties
  <2> DEFINE was(k) == IF k < i THEN k ELSE k + 1
  <2>3. /\ \A k \in DOMAIN left : was(k) \in DOMAIN submits /\ was(k) # i /\ left[k] = submits[was(k)]
        /\ \A k, m \in DOMAIN left : was(k) = was(m) => k = m
        /\ \A j \in DOMAIN submits : j # i => \E k \in DOMAIN left : was(k) = j
    <3>1. ASSUME NEW j \in DOMAIN submits, j # i PROVE \E k \in DOMAIN left : was(k) = j
      <4>1. CASE j < i BY <1>1, <2>2, <4>1
      <4>2. CASE ~(j < i)
        <5>1. j - 1 \in DOMAIN left /\ was(j - 1) = j BY <1>1, <2>2, <3>1, <4>2
        <5> QED BY <5>1
      <4> QED BY <4>1, <4>2
    <3>2. \A k \in DOMAIN left : was(k) \in DOMAIN submits /\ was(k) # i BY <1>1, <2>2
    <3>3. \A k, m \in DOMAIN left : was(k) = was(m) => k = m BY <1>1, <2>2
    <3> QED BY <2>1, <3>1, <3>2, <3>3
  <2> HIDE DEF was
  <2>4. mounted' = mounted BY <1>8 DEF DeliverSubmit
  <2>5. CASE submits[i].answer = "ok" /\ submits[i].of # "gone"
    <3>1. modal' = "closed" /\ submits' = Owned(left, "tab")
      BY <1>8, <2>5 DEF DeliverSubmit, left
    <3>2. mounted BY <2>5 DEF DialogInv
    <3> QED BY <1>3, <2>1, <2>4, <3>1, <3>2 DEF DialogInv
  <2>6. CASE ~(submits[i].answer = "ok" /\ submits[i].of # "gone")
    <3>1. modal' = (IF submits[i].of = "modal" THEN "open" ELSE modal) /\ submits' = left
      BY <1>8, <2>6 DEF DeliverSubmit, left
    <3>2. CASE submits[i].of = "modal"
      <4>1. \A k \in DOMAIN left : left[k].of # "modal" BY <2>3, <3>2 DEF DialogInv
      <4>2. mounted BY <3>2 DEF DialogInv
      <4> QED BY <2>1, <2>4, <3>1, <3>2, <4>1, <4>2 DEF DialogInv
    <3>3. CASE submits[i].of # "modal"
      <4>1. modal' = modal /\ submits' = left BY <3>1, <3>3
      <4>2. (\E j \in DOMAIN submits : submits[j].of = "modal")
              <=> \E k \in DOMAIN left : left[k].of = "modal"
        BY <2>3, <3>3
      <4>3. \A k, m \in DOMAIN left : left[k].of = "modal" /\ left[m].of = "modal" => k = m
        BY <2>3 DEF DialogInv
      <4>4. ~mounted => \A k \in DOMAIN left : left[k].of = "gone" BY <2>3 DEF DialogInv
      <4> QED BY <2>1, <2>4, <4>1, <4>2, <4>3, <4>4 DEF DialogInv
    <3> QED BY <3>2, <3>3
  <2> QED BY <2>5, <2>6
<1>9. CASE Mount BY <1>9 DEF Mount, dialogVars, DialogInv
<1>10. CASE Unmount
  <2>1. modal' = "closed" /\ submits' = Owned(submits, "gone") BY <1>10 DEF Unmount
  <2> QED BY <1>1, <1>3, <2>1 DEF DialogInv
<1>11. CASE UNCHANGED <<modal, submits, mounted>> BY <1>11 DEF DialogInv
<1>12. \/ OpenModal \/ CloseModal \/ Submit \/ Mount \/ Unmount
       \/ \E i \in DOMAIN submits : AnswerSubmit(i) \/ DeliverSubmit(i)
       \/ UNCHANGED <<modal, submits, mounted>>
  BY DEF indexVars, IndexNext, FinishJob, Restart, Refresh, AnswerList,
         DeliverList, Tick, AnswerPoll, LosePoll, DeliverPoll,
         Dismiss, dialogVars
<1> QED BY <1>4, <1>5, <1>6, <1>7, <1>8, <1>9, <1>10, <1>11, <1>12

LEMMA ProgressKept == JobsInv /\ DialogInv /\ ProgressInv /\ [IndexNext]_indexVars => ProgressInv'
<1> SUFFICES ASSUME JobsInv, DialogInv, ProgressInv, [IndexNext]_indexVars PROVE ProgressInv'
  OBVIOUS
<1>1. polls \in Seq(Polls) /\ \A i \in DOMAIN polls : polls[i] \in Polls
  BY ElementOfSeq, LenProperties DEF ProgressInv
\* What a panel leaves belongs to the tab.
<1>2. ASSUME NEW s \in Seq(Polls)
      PROVE  /\ Owned(s, "tab") \in Seq(Polls)
             /\ \A k \in DOMAIN Owned(s, "tab") : Owned(s, "tab")[k].of # "panel"
  <2>1. \A r \in Polls :
          Hand(r, "tab") \in Polls /\ Hand(r, "tab").of = "tab"
    BY DEF Polls, Hand
  <2>2. /\ Owned(s, "tab") \in Seq(Polls) /\ DOMAIN Owned(s, "tab") = DOMAIN s
        /\ \A i \in DOMAIN s : Owned(s, "tab")[i] = Hand(s[i], "tab")
    BY <2>1, Handed
  <2>3. \A i \in DOMAIN s : s[i] \in Polls BY ElementOfSeq, LenProperties
  <2>4. ASSUME NEW k \in DOMAIN s PROVE Owned(s, "tab")[k].of = "tab"
    BY <2>1, <2>2, <2>3
  <2> QED BY <2>2, <2>4
<1>3. ASSUME NEW i \in DOMAIN polls
      PROVE  /\ Without(polls, i) \in Seq(Polls)
             /\ \A k \in DOMAIN Without(polls, i) :
                  \E m \in DOMAIN polls : Without(polls, i)[k] = polls[m]
  <2>1. /\ Without(polls, i) \in Seq(Polls) /\ Len(Without(polls, i)) = Len(polls) - 1
        /\ \A k \in DOMAIN Without(polls, i) :
             Without(polls, i)[k] = polls[IF k < i THEN k ELSE k + 1]
    BY <1>1, Left
  <2>2. /\ DOMAIN Without(polls, i) = 1 .. Len(polls) - 1
        /\ DOMAIN polls = 1 .. Len(polls) /\ Len(polls) \in Nat
    BY <1>1, <2>1, LenProperties
  <2>3. \A k \in DOMAIN Without(polls, i) : (IF k < i THEN k ELSE k + 1) \in DOMAIN polls
    BY <2>2
  <2> QED BY <2>1, <2>3
<1>4. <<>> \in Seq(Statuses) /\ <<>> \in Seq(Polls) /\ DOMAIN <<>> = {} BY EmptySeq
<1>5. ASSUME NEW s \in Seq(Polls), DropPanel(s), mounted' = mounted, mounted PROVE ProgressInv'
  BY <1>2, <1>4, <1>5 DEF DropPanel, ProgressInv
<1>6. ASSUME NEW i \in DOMAIN submits, DeliverSubmit(i) PROVE ProgressInv'
  <2>1. CASE UNCHANGED <<mounted, indexing, watching, shown, polls>> BY <2>1 DEF ProgressInv
  <2>2. CASE submits[i].of # "gone" /\ indexing' = TRUE
    <3>1. mounted BY <2>2 DEF DialogInv
    <3> QED BY <1>6, <2>2, <3>1 DEF ProgressInv, DeliverSubmit
  <2> QED BY <1>6, <2>1, <2>2 DEF DeliverSubmit
<1>7. CASE Tick
  <2> DEFINE e == [of |-> "panel", answer |-> Nothing]
  <2>1. indexing /\ polls' = Append(polls, e) /\ UNCHANGED <<mounted, indexing, watching, shown>>
    BY <1>7 DEF Tick
  <2>2. e \in Polls BY DEF Polls
  <2> HIDE DEF e
  <2>3. polls' \in Seq(Polls) BY <1>1, <2>1, <2>2, Appended
  <2> QED BY <2>1, <2>3 DEF ProgressInv
<1>8. ASSUME NEW i \in DOMAIN polls, AnswerPoll(i) PROVE ProgressInv'
  <2>1. polls' = [polls EXCEPT ![i].answer = jobs] /\ UNCHANGED <<mounted, indexing, watching, shown>>
    BY <1>8 DEF AnswerPoll
  <2>2. [polls[i] EXCEPT !.answer = jobs] \in Polls BY <1>1 DEF Polls, JobsInv
  <2>3. polls' \in Seq(Polls) /\ DOMAIN polls' = DOMAIN polls
    BY <1>1, <2>1, <2>2, ExceptSeq
  <2>4. \A k \in DOMAIN polls : polls'[k].of = polls[k].of BY <1>1, <2>1 DEF Polls
  <2>5. mounted BY <1>4, <1>8 DEF ProgressInv
  <2> QED BY <2>1, <2>3, <2>4, <2>5 DEF ProgressInv
<1>9. ASSUME NEW i \in DOMAIN polls, LosePoll(i) PROVE ProgressInv'
  <2>1. polls' = Without(polls, i) /\ UNCHANGED <<mounted, indexing, watching, shown>>
    BY <1>9 DEF LosePoll
  <2>2. mounted BY <1>4, <1>9 DEF ProgressInv
  <2> QED BY <1>3, <2>1, <2>2 DEF ProgressInv
<1>10. ASSUME NEW i \in DOMAIN polls, DeliverPoll(i) PROVE ProgressInv'
  <2>1. mounted /\ mounted' = mounted BY <1>4, <1>10 DEF ProgressInv, DeliverPoll
  <2>2. CASE DropPanel(Without(polls, i)) BY <1>3, <1>5, <2>1, <2>2
  <2>3. CASE /\ polls' = Without(polls, i) /\ indexing' = indexing
             /\ shown' \in {polls[i].answer, shown}
             /\ watching' \in BOOLEAN /\ polls[i].answer # Nothing
    <3>1. shown' \in Seq(Statuses) BY <1>1, <2>3 DEF Polls, ProgressInv
    <3> QED BY <1>3, <2>1, <2>3, <3>1 DEF ProgressInv
  <2> QED BY <1>10, <2>2, <2>3 DEF DeliverPoll, OnDone
<1>11. CASE Dismiss
  <2>1. DropPanel(polls) /\ indexing /\ mounted' = mounted
    BY <1>11 DEF Dismiss, OnDone
  <2>2. mounted BY <2>1 DEF ProgressInv
  <2> QED BY <1>1, <1>5, <2>1, <2>2
<1>12. CASE Mount BY <1>4, <1>12 DEF Mount, panelVars, ProgressInv
<1>13. CASE Unmount BY <1>4, <1>13 DEF Unmount, ProgressInv
<1>14. CASE UNCHANGED <<mounted, indexing, watching, shown, polls>> BY <1>14 DEF ProgressInv
<1>15. \/ Tick \/ Dismiss \/ Mount \/ Unmount
       \/ \E i \in DOMAIN submits : DeliverSubmit(i)
       \/ \E i \in DOMAIN polls : AnswerPoll(i) \/ LosePoll(i) \/ DeliverPoll(i)
       \/ UNCHANGED <<mounted, indexing, watching, shown, polls>>
  BY DEF indexVars, IndexNext, FinishJob, Restart, Refresh, AnswerList,
         DeliverList, OpenModal, CloseModal, Submit, AnswerSubmit,
         panelVars
<1> QED BY <1>6, <1>7, <1>8, <1>9, <1>10, <1>11, <1>12, <1>13, <1>14, <1>15

\* A request that is made alone is the only one under way.
LEMMA Fetched ==
  ASSUME ListInv, mounted', FetchProjects, due' \in BOOLEAN, completed' = completed
  PROVE  ListInv'
<1>1. requests \in Seq(Answers) /\ Nothing \in Answers BY DEF ListInv, Answers
<1>2. /\ requests' = Append(requests, Nothing) /\ mixed' = (requests # <<>>)
      /\ loading' = TRUE /\ listError' = FALSE /\ list' = list
  BY DEF FetchProjects
<1>3. /\ requests' \in Seq(Answers) /\ Len(requests') = Len(requests) + 1
      /\ requests'[Len(requests) + 1] = Nothing /\ Len(requests) + 1 \in DOMAIN requests'
      /\ \A i \in DOMAIN requests' :
           i = Len(requests) + 1 \/ (i \in DOMAIN requests /\ requests'[i] = requests[i])
  BY <1>1, <1>2, Appended
<1>4. requests' # <<>> BY <1>3, EmptySeq
<1>5. requests = <<>> => Len(requests) = 0 /\ DOMAIN requests = {} BY EmptySeq
<1>6. ~mixed' => Len(requests') = 1 /\ requests'[1] = Nothing /\ DOMAIN requests' = {1}
  <2>1. ~mixed' => Len(requests) = 0 /\ Len(requests') = 1
    <3>1. ~mixed' => requests = <<>> BY <1>2
    <3> QED BY <1>3, <1>5, <3>1
  <2>2. DOMAIN requests' = 1 .. Len(requests') BY <1>3, LenProperties
  <2> QED BY <1>3, <2>1, <2>2
<1>7. {listError', loading', mixed', due'} \subseteq BOOLEAN BY <1>2
<1>8. list' \in Nat \union {Nothing} /\ completed' \in Nat BY <1>2 DEF ListInv
<1> QED BY <1>3, <1>4, <1>6, <1>7, <1>8 DEF ListInv

LEMMA ListKept == DialogInv /\ ProgressInv /\ ListInv /\ [IndexNext]_indexVars => ListInv'
<1> SUFFICES ASSUME DialogInv, ProgressInv, ListInv, [IndexNext]_indexVars PROVE ListInv'
  OBVIOUS
<1>1. /\ requests \in Seq(Answers) /\ \A i \in DOMAIN requests : requests[i] \in Answers
      /\ Len(requests) \in Nat /\ DOMAIN requests = 1 .. Len(requests)
  BY ElementOfSeq, LenProperties DEF ListInv
<1>2. Len(<<>>) = 0 /\ DOMAIN <<>> = {} /\ <<>> \in Seq(Answers) BY EmptySeq
<1>3. ASSUME NEW i \in DOMAIN requests PROVE mounted /\ requests # <<>>
  BY <1>2, <1>3 DEF ListInv
<1>4. CASE FinishJob
  <2>1. UNCHANGED <<mounted, list, listError, loading, requests, mixed>>
    BY <1>4 DEF FinishJob, listVars
  <2>2. CASE UNCHANGED <<completed, due>> BY <2>1, <2>2 DEF ListInv
  <2>3. CASE completed' = completed + 1 /\ due' = FALSE
    <3>1. completed' \in Nat BY <2>3 DEF ListInv
    <3>2. {listError', loading', mixed', due'} \subseteq BOOLEAN BY <2>1, <2>3 DEF ListInv
    <3>3. requests' \in Seq(Answers) /\ list' \in Nat \union {Nothing}
      BY <2>1 DEF ListInv
    <3>4. ~mounted' => requests' = <<>> BY <2>1 DEF ListInv
    <3>5. mounted' /\ ~mixed' => Len(requests') <= 1 /\ (requests' = <<>> => ~loading')
      BY <2>1 DEF ListInv
    <3> QED BY <2>3, <3>1, <3>2, <3>3, <3>4, <3>5 DEF ListInv
  <2> QED BY <1>4, <2>2, <2>3 DEF FinishJob
<1>5. ASSUME NEW i \in DOMAIN requests, AnswerList(i) PROVE ListInv'
  <2>1. PICK answer \in {completed, Failed} : requests' = [requests EXCEPT ![i] = answer]
    BY <1>5 DEF AnswerList
  <2>2. answer \in Answers BY DEF Answers, ListInv
  <2>3. /\ requests' \in Seq(Answers) /\ Len(requests') = Len(requests)
        /\ DOMAIN requests' = DOMAIN requests
    BY <1>1, <2>1, <2>2, ExceptSeq
  <2>4. \A k \in DOMAIN requests : requests'[k] \in {completed, Failed, requests[k]} BY <2>1
  <2>5. requests' # <<>> BY <1>2, <2>3
  <2>6. UNCHANGED <<mounted, list, listError, loading, mixed, due, completed>>
    BY <1>5 DEF AnswerList, serverVars
  <2> QED BY <1>3, <2>3, <2>4, <2>5, <2>6 DEF ListInv
<1>6. ASSUME NEW i \in DOMAIN requests, DeliverList(i) PROVE ListInv'
  <2>1. /\ requests[i] # Nothing /\ requests' = Without(requests, i) /\ loading' = FALSE
        /\ UNCHANGED <<mounted, mixed, due, completed>>
    BY <1>6 DEF DeliverList, serverVars
  <2>2. /\ requests' \in Seq(Answers) /\ Len(requests') = Len(requests) - 1
        /\ Len(requests) = 1 => requests' = <<>>
    BY <1>1, <2>1, Left
  <2>3. CASE requests[i] = Failed
    <3>1. listError' = TRUE /\ list' = list BY <1>6, <2>3 DEF DeliverList
    <3>2. mounted /\ ~mixed => requests' = <<>> BY <1>1, <2>2 DEF ListInv
    <3>3. mounted /\ mounted' /\ {listError', loading', mixed', due'} \subseteq BOOLEAN
      BY <1>3, <2>1, <3>1 DEF ListInv
    <3>4. list' \in Nat \union {Nothing} /\ completed' \in Nat BY <2>1, <3>1 DEF ListInv
    <3> QED BY <1>2, <2>1, <2>2, <3>1, <3>2, <3>3, <3>4 DEF ListInv
  <2>4. CASE requests[i] # Failed
    <3>1. listError' = listError /\ list' = requests[i] BY <1>6, <2>4 DEF DeliverList
    <3>2. list' \in Nat /\ completed' \in Nat BY <1>1, <2>1, <2>4, <3>1 DEF Answers, ListInv
    <3>3. mounted /\ ~mixed => requests' = <<>> /\ (due => list' = completed)
      BY <1>1, <2>1, <2>2, <2>4, <3>1 DEF ListInv
    <3>4. mounted /\ mounted' /\ {listError', loading', mixed', due'} \subseteq BOOLEAN
      BY <1>3, <2>1, <3>1 DEF ListInv
    <3>5. mounted' /\ ~mixed' => /\ requests' = <<>> /\ Len(requests') = 0 /\ DOMAIN requests' = {}
                               /\ ~loading' /\ (due' => list' = completed')
      BY <1>2, <2>1, <3>3, <3>4
    <3> QED BY <2>2, <3>2, <3>4, <3>5 DEF ListInv
  <2> QED BY <2>3, <2>4
<1>7. CASE Refresh
  <2>1. mounted' /\ FetchProjects /\ due' \in BOOLEAN /\ completed' = completed
    BY <1>7 DEF Refresh, serverVars, ListInv
  <2> QED BY <2>1, Fetched
<1>8. ASSUME NEW i \in DOMAIN submits, DeliverSubmit(i) PROVE ListInv'
  <2>1. CASE UNCHANGED <<mounted, listVars, due, completed>> BY <2>1 DEF listVars, ListInv
  <2>2. CASE submits[i].of # "gone" /\ FetchProjects
    <3>1. mounted BY <2>2 DEF DialogInv
    <3>2. mounted' /\ due' \in BOOLEAN /\ completed' = completed
      BY <1>8, <3>1 DEF DeliverSubmit, serverVars, ListInv
    <3> QED BY <2>2, <3>2, Fetched
  <2> QED BY <1>8, <2>1, <2>2 DEF DeliverSubmit, serverVars
<1>9. ASSUME NEW i \in DOMAIN polls, DeliverPoll(i) PROVE ListInv'
  <2>1. CASE UNCHANGED <<mounted, listVars, due, completed>> BY <2>1 DEF listVars, ListInv
  <2>2. CASE FetchProjects /\ due' = TRUE
    <3>1. mounted' /\ completed' = completed
      BY <1>2, <1>9 DEF ProgressInv, DeliverPoll, serverVars
    <3> QED BY <2>2, <3>1, Fetched
  <2> QED BY <1>9, <2>1, <2>2 DEF DeliverPoll, OnDone, serverVars
<1>10. CASE Dismiss
  <2>1. mounted' /\ FetchProjects /\ due' \in BOOLEAN /\ completed' = completed
    BY <1>10 DEF Dismiss, OnDone, serverVars, ProgressInv, ListInv
  <2> QED BY <2>1, Fetched
<1>11. CASE Mount
  <2>1. mounted' /\ FetchProjects /\ due' \in BOOLEAN /\ completed' = completed
    BY <1>11 DEF Mount, serverVars, ListInv
  <2> QED BY <2>1, Fetched
<1>12. CASE Unmount BY <1>2, <1>12 DEF Unmount, serverVars, ListInv
<1>13. CASE UNCHANGED <<mounted, listVars, due, completed>> BY <1>13 DEF listVars, ListInv
<1>14. \/ FinishJob \/ Refresh \/ Dismiss \/ Mount \/ Unmount
       \/ \E i \in DOMAIN requests : AnswerList(i) \/ DeliverList(i)
       \/ \E i \in DOMAIN submits : DeliverSubmit(i)
       \/ \E i \in DOMAIN polls : DeliverPoll(i)
       \/ UNCHANGED <<mounted, listVars, due, completed>>
  BY DEF indexVars, IndexNext, Restart, OpenModal, CloseModal, Submit,
         AnswerSubmit, Tick, AnswerPoll, LosePoll, listVars, serverVars
<1> QED BY <1>4, <1>5, <1>6, <1>7, <1>8, <1>9, <1>10, <1>11, <1>12, <1>13, <1>14

LEMMA IndexInvariant == IndexSpec => []IndexInv
<1>1. IndexInit => IndexInv
  <2> SUFFICES ASSUME IndexInit PROVE IndexInv
    OBVIOUS
  <2>1. /\ Len(<<>>) = 0 /\ DOMAIN <<>> = {}
        /\ <<>> \in Seq(Statuses) /\ <<>> \in Seq(Submissions)
        /\ <<>> \in Seq(Polls) /\ <<>> \in Seq(Answers)
    BY EmptySeq
  <2>2. JobsInv BY <2>1, IndexViewConstants DEF IndexInit, JobsInv
  <2>3. DialogInv BY <2>1 DEF IndexInit, DialogInv
  <2>4. ProgressInv BY <2>1 DEF IndexInit, ProgressInv
  <2>5. ListInv BY <2>1 DEF IndexInit, ListInv
  <2> QED BY <2>2, <2>3, <2>4, <2>5 DEF IndexInv
<1>2. IndexInv /\ [IndexNext]_indexVars => IndexInv'
  BY JobsKept, DialogKept, ProgressKept, ListKept DEF IndexInv
<1> QED BY <1>1, <1>2, PTL DEF IndexSpec

\* For any number of jobs, requests and restarts of the server: it runs one job at a
\* time (viz/indexing.py:43-63), and what belongs to the dialog or to the panel goes
\* with it (StatsTab.tsx:169, 226).
THEOREM IndexTypeCorrect == IndexSpec => []IndexTypeOK
<1>1. IndexInv => IndexTypeOK
  <2> SUFFICES ASSUME IndexInv PROVE IndexTypeOK
    OBVIOUS
  <2>1. submits \in Seq([of : {"modal", "tab", "gone"}, answer : {Nothing, Failed, "ok"}])
    BY DEF IndexInv, DialogInv, Submissions
  <2>2. polls \in Seq([of : {"panel", "tab"}, answer : Seq(Statuses) \union {Nothing}])
    BY DEF IndexInv, ProgressInv, Polls
  <2>3. requests \in Seq(Nat \union {Nothing, Failed}) BY DEF IndexInv, ListInv, Answers
  <2> QED
    BY <2>1, <2>2, <2>3 DEF IndexInv, JobsInv, DialogInv, ProgressInv, ListInv, IndexTypeOK
<1> QED BY <1>1, IndexInvariant, PTL

\* Whatever was answered late, whichever panel called onDone and whatever paths were
\* indexed: a list that was fetched without another request in between shows every run on
\* the server's own project that had completed when the panel went (StatsTab.tsx:79-85,
\* 169, useProjects.ts:22-49, viz/server.py:224-225).
THEOREM ListAlwaysCatchesUp == IndexSpec => []ListCatchesUp
<1>1. IndexInv => ListCatchesUp BY DEF IndexInv, ListInv, ListCatchesUp
<1> QED BY <1>1, IndexInvariant, PTL
================================================================================
