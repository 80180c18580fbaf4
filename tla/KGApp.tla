--------------------------------- MODULE KGApp ---------------------------------
(***************************************************************************)
(* The page of the graph UI (App.tsx): which runtime serves it, which view  *)
(* its URL names, and the language its components share.                   *)
(*                                                                         *)
(* The page asks for the capabilities of the live server and falls back to *)
(* the packaged snapshot; until then it shows a loading screen.  The route *)
(* is the tab and the project of the URL, and every change of it is an     *)
(* entry of the browser's history.  Components that show text are rendered *)
(* with the language known at that moment and listen, in an effect that    *)
(* runs later, for the one request of the language.  A reload starts the   *)
(* page again from its URL.                                                *)
(*                                                                         *)
(* The graph tab asks for the address of the project's repository, to which *)
(* the panel of a node links.                                              *)
(*                                                                         *)
(* The answer to a request is a value of a small set or a refusal: a       *)
(* network failure, an error status or text that is not JSON.              *)
(***************************************************************************)
EXTENDS FiniteSets, Naturals, Sequences

CONSTANTS
  Projects,           \* names of projects
  Children,           \* components below a tab that show text
  TabOf,              \* the tab of each child
  LiveAnswers,        \* what /api/capabilities may answer
  SnapshotAnswers,    \* what ./capabilities.json may hold
  NavigatorLanguage,  \* the language of the browser
  MaxEntries,         \* bound on the history
  MaxReloads,         \* bound on the reloads
  Refused,            \* a request that failed
  None                \* no project, no runtime yet

Tabs == {"graph", "stats"}
Keys == {"graph", "projects", "control", "index", "code_view", "adr", "dead_code", "missed_graph"}
Languages == {"en", "zh"}
Components == {"App"} \union Children

\* An answer gives values to the keys it has, known or not; one that is not an
\* object has none.
ASSUMPTION AppConstants ==
  /\ TabOf \in [Children -> Tabs] /\ "App" \notin Children
  /\ None \notin Projects \union [mode : {"live", "static"}, capabilities : SUBSET Keys]
  /\ \A raw \in LiveAnswers \union SnapshotAnswers :
       /\ raw \in [DOMAIN raw -> {"true", "false", "other"}]
       /\ raw # Refused
  /\ MaxEntries \in Nat \ {0} /\ MaxReloads \in Nat

VARIABLES
  entries,         \* the history of the page: the URL of each entry
  here,            \* the entry that is open
  route,           \* the tab and the project the page shows
  transport,       \* the runtime request under way: "live", "snapshot", or "settled"
  runtime,         \* the mode and the capabilities, None until they are known
  told,            \* history: the answer the runtime was made from
  cachedLanguage, languageLoaded,
  languageRequest, \* whether the request of the language is under way
  phase,           \* each component is "absent", "rendered", or "listening"
  language,        \* the language each component shows
  repo,            \* the graph tab's repository: whose was asked for and is not there yet,
                   \* whose is held, and (history) whether the last one was refused
  reloads

routeVars == <<entries, here, route>>
runtimeVars == <<transport, runtime, told>>
languageVars == <<cachedLanguage, languageLoaded, languageRequest, phase, language>>
vars == <<routeVars, runtimeVars, languageVars, repo, reloads>>

-----------------------------------------------------------------------------
(* Routes *)

Routes == [tab : Tabs, project : Projects \union {None}]

\* What the user may type: a tab the page does not know is the list of projects.
Urls == [tab : Tabs \union {"other"}, project : Projects \union {None}]
ReadRoute(url) == [tab |-> IF url.tab \in Tabs THEN url.tab ELSE "stats", project |-> url.project]

ShownTabs(r) == {"graph"} \union IF "projects" \in r.capabilities THEN {"stats"} ELSE {}
EffectiveTabOf(r, where) == IF where.tab \in ShownTabs(r) THEN where.tab ELSE "graph"
EffectiveTab == EffectiveTabOf(runtime, route)

-----------------------------------------------------------------------------
(* The repository of the graph tab *)

NoRepo == [asked |-> None, held |-> None, refused |-> FALSE]

ShowsGraph(r, where) == r # None /\ EffectiveTabOf(r, where) = "graph"
HasRepo(r, where) == ShowsGraph(r, where) /\ r.mode = "live" /\ where.project # None

\* An effect that runs when the tab appears, but not for another project.
RepoOfFirst(r, where) ==
  IF ~HasRepo(r, where) THEN NoRepo
  ELSE IF HasRepo(runtime, route) THEN repo
  ELSE [asked |-> where.project, held |-> None, refused |-> FALSE]

\* The effect of the tab: a new project is asked for, which cancels the request
\* before, and what is held stays until it is answered.
RepoAfter(r, where) ==
  IF ~HasRepo(r, where) THEN NoRepo
  ELSE IF HasRepo(runtime, route) /\ where.project = route.project THEN repo
  ELSE [asked |-> where.project, held |-> repo.held, refused |-> FALSE]

\* Any failure, or an answer that reports an error, leaves what is held.
RepoAnswers ==
  /\ repo.asked # None
  /\ \/ repo' = [asked |-> None, held |-> repo.asked, refused |-> FALSE]
     \/ repo' = [repo EXCEPT !.asked = None, !.refused = TRUE]
  /\ UNCHANGED <<routeVars, runtimeVars, languageVars, reloads>>

\* Whose repository the panel links a node to: one without a file links nowhere.
GithubUrl(hasFile) == IF hasFile THEN repo.held ELSE None

-----------------------------------------------------------------------------
(* Navigation *)

\* The children of the tab that is left are unmounted with it.
Unmounted(where) ==
  [c \in Components |->
     IF c # "App" /\ (runtime = None \/ TabOf[c] # EffectiveTabOf(runtime, where))
     THEN "absent" ELSE phase[c]]

SwitchTab(where) ==
  /\ route' = where
  /\ phase' = Unmounted(where)
  /\ repo' = RepoAfter(runtime, where)
  /\ UNCHANGED <<runtimeVars, cachedLanguage, languageLoaded, languageRequest, language, reloads>>

Navigate(tab, project) ==
  LET url == [tab |-> tab, project |-> project] IN
  /\ url # entries[here] /\ here < MaxEntries
  /\ entries' = Append(SubSeq(entries, 1, here), url)
  /\ here' = here + 1
  /\ SwitchTab(url)

OpenTab(tab) ==
  /\ runtime # None /\ tab \in ShownTabs(runtime)
  /\ tab = "graph" => route.project # None \/ runtime.mode = "static"
  /\ Navigate(tab, IF tab = "stats" THEN None ELSE route.project)

ClearProject == runtime # None /\ route.project # None /\ Navigate("stats", None)

SelectProject(p) == runtime # None /\ EffectiveTab = "stats" /\ Navigate("graph", p)

\* The browser's back and forward buttons, over any number of entries.
PopState(i) ==
  /\ i # here /\ here' = i
  /\ UNCHANGED entries
  /\ SwitchTab(ReadRoute(entries[i]))

-----------------------------------------------------------------------------
(* The runtime *)

DefaultCapabilities == {"graph"}

\* Only the literal true counts, and only for a known key.
ParseCapabilities(raw) ==
  DefaultCapabilities \union {k \in Keys \cap DOMAIN raw : raw[k] = "true"}

StaticCapabilities(raw) ==
  DefaultCapabilities \union {k \in {"graph"} \cap DOMAIN raw : raw[k] = "true"}

Resolve(mode, capabilities, raw) ==
  /\ runtime' = [mode |-> mode, capabilities |-> capabilities]
  /\ told' = raw
  /\ transport' = "settled"
  /\ repo' = RepoAfter(runtime', route)

LoadLive ==
  /\ transport = "live"
  /\ \/ \E raw \in LiveAnswers : Resolve("live", ParseCapabilities(raw), raw)
     \/ transport' = "snapshot" /\ UNCHANGED <<runtime, told, repo>>
  /\ UNCHANGED <<routeVars, languageVars, reloads>>

LoadSnapshot ==
  /\ transport = "snapshot"
  /\ \/ \E raw \in SnapshotAnswers : Resolve("static", StaticCapabilities(raw), raw)
     \/ Resolve("static", DefaultCapabilities, Refused)
  /\ UNCHANGED <<routeVars, languageVars, reloads>>

-----------------------------------------------------------------------------
(* The language *)

\* Ranges a browser accepts, in its order, with weights; the answer's override wins.
Detect(accepted, override) ==
  LET known == {i \in DOMAIN accepted : accepted[i].q > 0 /\ accepted[i].tag \in Languages}
      best == CHOOSE i \in known : \A j \in known : \/ accepted[j].q < accepted[i].q
                                                    \/ accepted[j].q = accepted[i].q /\ i <= j
  IN IF override \in Languages THEN override
     ELSE IF known = {} THEN "en" ELSE accepted[best].tag

Browser == <<[tag |-> NavigatorLanguage, q |-> 10]>>

\* What the request may yield: the server's language, or the browser's.
LanguageAnswers == {Detect(<<>>, l) : l \in Languages \union {"other"}} \union {Detect(Browser, None)}

\* A component below a tab appears: a list, a dialog, the sidebar of a graph.
Render(c) ==
  /\ c \in Children /\ phase[c] = "absent"
  /\ runtime # None /\ TabOf[c] = EffectiveTab
  /\ phase' = [phase EXCEPT ![c] = "rendered"]
  /\ language' = [language EXCEPT ![c] = cachedLanguage]
  /\ UNCHANGED <<routeVars, runtimeVars, cachedLanguage, languageLoaded, languageRequest, repo, reloads>>

\* A listener that relies on the announcement alone.
ListenOnly(c) ==
  /\ phase[c] = "rendered"
  /\ phase' = [phase EXCEPT ![c] = "listening"]
  /\ languageRequest' = (languageRequest \/ ~languageLoaded)
  /\ UNCHANGED <<routeVars, runtimeVars, cachedLanguage, languageLoaded, language, repo, reloads>>

\* Its effect runs: it listens, joins or starts the request, or takes what is known.
Listen(c) ==
  /\ phase[c] = "rendered"
  /\ phase' = [phase EXCEPT ![c] = "listening"]
  /\ languageRequest' = (languageRequest \/ ~languageLoaded)
  /\ language' = [language EXCEPT ![c] = IF languageLoaded THEN cachedLanguage ELSE @]
  /\ UNCHANGED <<routeVars, runtimeVars, cachedLanguage, languageLoaded, repo, reloads>>

Leave(c) ==
  /\ c \in Children /\ phase[c] # "absent"
  /\ phase' = [phase EXCEPT ![c] = "absent"]
  /\ UNCHANGED <<routeVars, runtimeVars, cachedLanguage, languageLoaded, languageRequest,
                 language, repo, reloads>>

LanguageArrives ==
  /\ languageRequest
  /\ \E l \in LanguageAnswers :
       /\ cachedLanguage' = l
       /\ language' = [c \in Components |-> IF phase[c] = "listening" THEN l ELSE language[c]]
  /\ languageLoaded' = TRUE
  /\ languageRequest' = FALSE
  /\ UNCHANGED <<routeVars, runtimeVars, phase, repo, reloads>>

-----------------------------------------------------------------------------
(* The page *)

Blank == [c \in Components |-> IF c = "App" THEN "rendered" ELSE "absent"]
English == [c \in Components |-> "en"]

\* The first load replaces the URL by the canonical one of its route.
Init ==
  /\ route \in {ReadRoute(url) : url \in Urls}
  /\ entries = <<route>> /\ here = 1
  /\ transport = "live" /\ runtime = None /\ told = Refused
  /\ cachedLanguage = "en" /\ languageLoaded = FALSE /\ languageRequest = FALSE
  /\ phase = Blank /\ language = English /\ repo = NoRepo
  /\ reloads = 0

Reload ==
  /\ reloads < MaxReloads /\ reloads' = reloads + 1
  /\ route' = ReadRoute(entries[here])
  /\ entries' = [entries EXCEPT ![here] = route']
  /\ transport' = "live" /\ runtime' = None /\ told' = Refused
  /\ cachedLanguage' = "en" /\ languageLoaded' = FALSE /\ languageRequest' = FALSE
  /\ phase' = Blank /\ language' = English /\ repo' = NoRepo
  /\ UNCHANGED here

Next ==
  \/ \E tab \in Tabs : OpenTab(tab)
  \/ ClearProject
  \/ \E p \in Projects : SelectProject(p)
  \/ \E i \in DOMAIN entries : PopState(i)
  \/ LoadLive \/ LoadSnapshot
  \/ \E c \in Components : Render(c) \/ Listen(c) \/ Leave(c)
  \/ LanguageArrives
  \/ RepoAnswers
  \/ Reload

\* Requests are answered or refused, and effects run; the user need do nothing.
Fairness ==
  /\ WF_vars(LoadLive) /\ WF_vars(LoadSnapshot)
  /\ WF_vars(LanguageArrives)
  /\ \A c \in Components : WF_vars(Listen(c))

Spec == Init /\ [][Next]_vars
FairSpec == Spec /\ Fairness

-----------------------------------------------------------------------------
(* Properties *)

\* Everything holds values of its kind; the view is the one of the open entry of
\* the history, "so the current view survives refreshes and can be bookmarked or
\* shared" (App.tsx:16-17, 62-81); and nothing but the page itself is rendered before the
\* runtime is known, nor any child of a tab that is hidden (App.tsx:85-102).
TypeOK ==
  /\ entries \in Seq(Routes) /\ here \in DOMAIN entries /\ route \in Routes
  /\ route = ReadRoute(entries[here])
  /\ transport \in {"live", "snapshot", "settled"}
  /\ runtime \in [mode : {"live", "static"}, capabilities : SUBSET Keys] \union {None}
  /\ transport = "settled" <=> runtime # None
  /\ cachedLanguage \in Languages
  /\ languageLoaded \in BOOLEAN /\ languageRequest \in BOOLEAN
  /\ phase \in [Components -> {"absent", "rendered", "listening"}]
  /\ language \in [Components -> Languages]
  /\ \A c \in Children : phase[c] # "absent" => runtime # None /\ TabOf[c] = EffectiveTab
  /\ phase["App"] # "absent"
  /\ repo \in [asked : Projects \union {None}, held : Projects \union {None}, refused : BOOLEAN]

\* The panel links to the repository of the project that is shown, through
\* changes of project by clicks and by the browser's buttons while earlier requests are
\* still under way, once the last of them is answered; without a live project
\* there is none.  A refused request is excepted: the code keeps the repository of
\* the project before (GraphTab.tsx:253-270).
LinksOfProject ==
  repo.asked = None /\ ~repo.refused =>
    GithubUrl(TRUE) = IF HasRepo(runtime, route) THEN route.project ELSE None

\* Optional controls fail closed: the page offers a capability only if a live
\* server answered literally true for it, and a snapshot offers the graph alone
\* (kgAdapter.ts:42-64, "Unknown or malformed capability responses default to
\* hiding optional controls").
FailsClosed ==
  runtime # None =>
    \A k \in runtime.capabilities \ {"graph"} :
      /\ runtime.mode = "live"
      /\ k \in DOMAIN told /\ told[k] = "true"

\* The page settles: it leaves the loading screen, learns its language, and
\* every component that has been shown long enough speaks it, also one that was
\* rendered while the answer arrived (App.tsx:44-45, i18n.ts:169-211).
PageSettles ==
  /\ <>[](runtime # None /\ languageLoaded)
  /\ \A c \in Components :
       phase[c] = "rendered" ~>
         \/ phase[c] = "absent"
         \/ language[c] = cachedLanguage /\ languageLoaded
  /\ <>[](\A c \in Components : phase[c] = "listening" => language[c] = cachedLanguage)
================================================================================
