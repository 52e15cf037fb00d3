------------------------------- MODULE Updates -------------------------------
(* How an open page gets from the build it runs to the one the origin serves:  *)
(* the service worker installs a build whole and waits, a page finds out by its  *)
(* worker, by version.json or by a chunk that is gone, and leaves through one      *)
(* ladder, reloadToLatest.  Before a page has booted a watchdog takes its place.    *)
(* The life cycle of a worker is the browser's: actions marked so are external.      *)
EXTENDS Integers, FiniteSets

CONSTANTS Tabs,
          MaxBuild,    \* builds that may be deployed, 1..MaxBuild
          MaxReloads,  \* MAX_RELOADS_PER_WINDOW
          MaxDeploys,  \* bounds on what the surroundings do: deploys, ...
          MaxOutages,  \* ... times the network goes, ...
          MaxVisits    \* ... and times a tab is opened, or reloaded by hand

ASSUME UpdatesAssumption ==
  /\ MaxBuild \in Nat \ {0} /\ MaxReloads \in Nat
  /\ MaxDeploys \in Nat /\ MaxOutages \in Nat /\ MaxVisits \in Nat

VARIABLES origin,   \* the build the origin serves; the others' files are gone
          network,  \* [on, room: is there storage left for the caches]
          worker,   \* the registration: a build in each of its places, or NoBuild
          cache,    \* [Builds -> what the cache of that build holds]
          tab,      \* [Tabs -> the page in it]
          session,  \* [Tabs -> sessionStorage, which outlives a reload]
          used      \* how much of the bounds is used up

updateVars == <<origin, network, worker, cache, tab, session, used>>

Builds == 1..MaxBuild
NoBuild == 0
Nameless == -1   \* 'sw-waiting': a newer worker waits, of which commit is not known

\* Builds share no chunk.  The worker has its own build in all it names: entry is what the
\* first paint needs, lazy what a route loads later.
NoCache == [shell |-> NoBuild, entry |-> FALSE, lazy |-> FALSE]
NoWorker == [active |-> NoBuild, waiting |-> NoBuild, installing |-> NoBuild,
             fetched |-> FALSE, skip |-> FALSE]
\* ctl: the worker that answers for the page; held: it is of the registration there is now.
\* reg: the page's register() has that registration, one that is gone, or is not through.
\* asks: the workers asked for their build; live: still the one that waits.
\* sha: latestServerSha, NoBuild while no update is known.
NoPage == [pc |-> "closed", build |-> NoBuild, ctl |-> NoBuild, held |-> FALSE, reg |-> "none",
           sha |-> NoBuild, asks |-> {}]
NoSession == [chunk |-> FALSE, guard |-> NoBuild, autos |-> 0, recovered |-> FALSE]

Registered == worker.active # NoBuild \/ worker.waiting # NoBuild \/ worker.installing # NoBuild
PageAt(t, pc) == tab[t].pc = pc
Goes(page) == [NoPage EXCEPT !.pc = "nav"]
PlainReload(t) == tab' = [tab EXCEPT ![t] = Goes(@)]
Outdated(asks) == {[a EXCEPT !.live = FALSE] : a \in asks}
-----------------------------------------------------------------------------
(* The worker                                                                  *)

\* register() of a page whose origin has no worker, and the browser's own checks.
StartInstall == worker' = [worker EXCEPT !.installing = origin, !.fetched = FALSE]

\* external: the browser finds that sw.js differs from the newest worker it has.
Check ==
  /\ network.on /\ Registered /\ worker.installing = NoBuild
  /\ (IF worker.waiting # NoBuild THEN worker.waiting ELSE worker.active) # origin
  /\ StartInstall
  /\ UNCHANGED <<origin, network, cache, tab, session, used>>

\* install: fails unless the document is this build's; storing it may fail quietly.
FetchShell ==
  LET b == worker.installing
  IN  /\ b # NoBuild /\ ~worker.fetched
      /\ IF network.on /\ origin = b
         THEN /\ worker' = [worker EXCEPT !.fetched = TRUE]
              /\ cache' = [cache EXCEPT ![b].shell = IF network.room THEN b ELSE @]
         ELSE worker' = [worker EXCEPT !.installing = NoBuild] /\ UNCHANGED cache
      /\ UNCHANGED <<origin, network, tab, session, used>>

\* announce: the page has a controller, hears of this registration, and is not on its way.
Announces(page) == page.pc = "open" /\ page.ctl # NoBuild /\ page.reg = "current"
Asks(page, b, live) ==
  IF Announces(page) THEN [page EXCEPT !.asks = @ \cup {[build |-> b, live |-> live]}] ELSE page

\* activate: every other build's cache goes.
OnlyCache(c, b) == [o \in Builds |-> IF o = b THEN c[o] ELSE NoCache]

\* The rest of install: the first paint is warmed, as far as the origin still has it.  The
\* worker waits, or is the first and takes over at once (external).
Install ==
  LET b == worker.installing
      warmed == [cache EXCEPT ![b].entry = @ \/ (network.on /\ network.room /\ origin = b)]
      first == worker.active = NoBuild
      told(page) == Asks([page EXCEPT !.asks = Outdated(@)], b, ~first)
  IN  /\ b # NoBuild /\ worker.fetched
      /\ worker' = [NoWorker EXCEPT !.active = IF first THEN b ELSE worker.active,
                                    !.waiting = IF first THEN NoBuild ELSE b]
      /\ cache' = IF first THEN OnlyCache(warmed, b) ELSE warmed
      /\ tab' = [t \in Tabs |-> told(tab[t])]
      /\ UNCHANGED <<origin, network, session, used>>

\* Mutant: every page the new worker controls reloads, asked or not.
SwappedReloads(page, b) ==
  IF page.held THEN Goes(page) ELSE [page EXCEPT !.asks = Outdated(@)]

\* controllerchange: the page that waits for it reloads, the others keep their document.
Swapped(page, b) ==
  IF ~page.held THEN [page EXCEPT !.asks = Outdated(@)]
  ELSE IF page.pc = "adopting" THEN Goes(page)
  ELSE [page EXCEPT !.ctl = b, !.asks = Outdated(@)]

\* external: the worker that waits takes over once it skips waiting or no page is left.
TakeOver ==
  LET b == worker.waiting
  IN  /\ b # NoBuild
      /\ worker.skip \/ \A t \in Tabs : ~tab[t].held
      /\ worker' = [worker EXCEPT !.active = b, !.waiting = NoBuild, !.skip = FALSE]
      /\ cache' = OnlyCache(cache, b)
      /\ tab' = [t \in Tabs |-> Swapped(tab[t], b)]
      /\ UNCHANGED <<origin, network, session, used>>
-----------------------------------------------------------------------------
(* A page arrives                                                              *)

\* handleShellNavigation, or the browser alone; a shell of the worker's build is kept.
Load(t) ==
  LET w == worker.active
      stored == w # NoBuild /\ cache[w].shell # NoBuild
      served == IF stored THEN cache[w].shell ELSE IF network.on THEN origin ELSE NoBuild
      page == [NoPage EXCEPT !.pc = "entry", !.build = served, !.ctl = w, !.held = w # NoBuild]
  IN  /\ PageAt(t, "nav")
      /\ IF served = NoBuild
         THEN tab' = [tab EXCEPT ![t].pc = "failed"] /\ UNCHANGED cache
         ELSE /\ tab' = [tab EXCEPT ![t] = page]
              /\ cache' = IF w = served /\ network.room
                          THEN [cache EXCEPT ![w].shell = w] ELSE cache
      /\ UNCHANGED <<origin, network, worker, session, used>>

\* handleAsset and handleForeignAsset: a chunk of build b for a page that worker w serves.
Cached(w, b, chunk) == w = b /\ cache[w][chunk]
Fetched(b) == network.on /\ origin = b
KeepsChunk(w, b, chunk) ==
  cache' = IF w = b /\ network.room THEN [cache EXCEPT ![w][chunk] = TRUE] ELSE cache

Unregistered(page) ==
  [page EXCEPT !.held = FALSE, !.asks = Outdated(@),
               !.reg = IF @ = "current" THEN "gone" ELSE @]
\* unregister(), then reload.
UnregisterAndReload(t) ==
  /\ worker' = NoWorker
  /\ tab' = [o \in Tabs |-> IF o = t THEN Goes(tab[o]) ELSE Unregistered(tab[o])]

\* clearCachesAndSW, then reload.
Reset(t) ==
  /\ UnregisterAndReload(t)
  /\ cache' = [b \in Builds |-> NoCache]

\* The entry runs, or the watchdog of index.html recovers: once, then its panel.
Boot(t) ==
  LET page == tab[t]
      b == page.build
  IN  /\ PageAt(t, "entry")
      /\ \/ /\ Cached(page.ctl, b, "entry")
            /\ tab' = [tab EXCEPT ![t].pc = "open"]
            /\ UNCHANGED <<worker, cache, session>>
         \/ /\ ~Cached(page.ctl, b, "entry") /\ Fetched(b)
            /\ tab' = [tab EXCEPT ![t].pc = "open"]
            /\ KeepsChunk(page.ctl, b, "entry")
            /\ UNCHANGED <<worker, session>>
         \/ /\ ~Cached(page.ctl, b, "entry") /\ ~Fetched(b) /\ ~session[t].recovered
            /\ session' = [session EXCEPT ![t].recovered = TRUE]
            /\ Reset(t)
         \/ /\ ~Cached(page.ctl, b, "entry") /\ ~Fetched(b) /\ session[t].recovered
            /\ tab' = [tab EXCEPT ![t].pc = "panel"]
            /\ UNCHANGED <<worker, cache, session>>
      /\ UNCHANGED <<origin, network, used>>

\* registerServiceWorker, after load: a worker that waits already is announced.
Register(t) ==
  /\ PageAt(t, "open") /\ tab[t].reg = "none"
  /\ \/ /\ Registered
        /\ LET page == [tab[t] EXCEPT !.reg = "current"]
           IN  tab' = [tab EXCEPT ![t] = IF worker.waiting = NoBuild THEN page
                                         ELSE Asks(page, worker.waiting, TRUE)]
        /\ UNCHANGED worker
     \/ /\ ~Registered /\ network.on
        /\ StartInstall /\ tab' = [tab EXCEPT ![t].reg = "current"]
     \/ /\ ~Registered /\ ~network.on
        /\ tab' = [tab EXCEPT ![t].reg = "gone"] /\ UNCHANGED worker
  /\ UNCHANGED <<origin, network, cache, session, used>>
-----------------------------------------------------------------------------
(* A page finds out                                                            *)

\* noteWaitingBuild
Note(page) == [page EXCEPT !.sha = IF @ = NoBuild THEN Nameless ELSE @]

\* Mutant: the worker told to take over is the one that waits by now.
AnswerTellsNext(t) ==
  \E a \in tab[t].asks, heard \in BOOLEAN :
    LET page == [tab[t] EXCEPT !.asks = @ \ {a}]
        same == heard /\ a.build = page.build
    IN  /\ PageAt(t, "open")
        /\ tab' = [tab EXCEPT ![t] = IF same THEN page ELSE Note(page)]
        /\ worker' = IF same /\ worker.waiting # NoBuild
                     THEN [worker EXCEPT !.skip = TRUE] ELSE worker
        /\ UNCHANGED <<origin, network, cache, session, used>>

\* askBuildId's answer, or none in time: a worker of the page's own build takes over
\* silently, if it still waits; any other is an update.
Answer(t) ==
  \E a \in tab[t].asks, heard \in BOOLEAN :
    LET page == [tab[t] EXCEPT !.asks = @ \ {a}]
        same == heard /\ a.build = page.build
    IN  /\ PageAt(t, "open")
        /\ tab' = [tab EXCEPT ![t] = IF same THEN page ELSE Note(page)]
        /\ worker' = IF same /\ a.live THEN [worker EXCEPT !.skip = TRUE] ELSE worker
        /\ UNCHANGED <<origin, network, cache, session, used>>

\* checkForUpdate: version.json names the page's commit, or an update.
Poll(t) ==
  /\ PageAt(t, "open") /\ network.on
  /\ tab' = [tab EXCEPT ![t].sha = IF origin = tab[t].build THEN NoBuild ELSE origin]
  /\ UNCHANGED <<origin, network, worker, cache, session, used>>
-----------------------------------------------------------------------------
(* A page leaves                                                               *)

\* Mutant: a plain reload, which the worker answers from its cache.
LeavePlainly(t) == PlainReload(t) /\ UNCHANGED worker

\* reloadToLatest: adopt the worker that waits; or unregister, unless offline; reload.
Leave(t) ==
  \/ ~Registered /\ PlainReload(t) /\ UNCHANGED worker
  \/ /\ Registered /\ worker.waiting = NoBuild
     /\ IF network.on THEN UnregisterAndReload(t) ELSE PlainReload(t) /\ UNCHANGED worker
  \/ /\ Registered /\ worker.waiting # NoBuild
     /\ worker' = [worker EXCEPT !.skip = TRUE]
     /\ tab' = [tab EXCEPT ![t].pc = "adopting"]

\* The worker adopted has not taken control within the time allowed.
GiveUp(t) ==
  /\ PageAt(t, "adopting")
  /\ IF network.on THEN UnregisterAndReload(t) ELSE PlainReload(t) /\ UNCHANGED worker
  /\ UNCHANGED <<origin, network, cache, session, used>>

\* reloadForUpdate at an in-app navigation: once for a sha, and so often in a window.
HashChange(t) ==
  /\ PageAt(t, "open") /\ tab[t].sha # NoBuild
  /\ session[t].guard # tab[t].sha /\ session[t].autos < MaxReloads
  /\ session' = [session EXCEPT ![t].guard = tab[t].sha, ![t].autos = @ + 1]
  /\ Leave(t)
  /\ UNCHANGED <<origin, network, cache, used>>

\* The person takes the Reload that the notice offers.
Click(t) ==
  /\ PageAt(t, "open") /\ tab[t].sha # NoBuild
  /\ Leave(t)
  /\ UNCHANGED <<origin, network, cache, session, used>>

\* A route loads its chunk; one that is gone is a reload, once until the page is healthy,
\* and the crash screen the next time.
LazyChunk(t) ==
  LET page == tab[t]
  IN  /\ PageAt(t, "open") /\ ~Cached(page.ctl, page.build, "lazy")
      /\ \/ /\ Fetched(page.build)
            /\ KeepsChunk(page.ctl, page.build, "lazy")
            /\ UNCHANGED <<worker, tab, session>>
         \/ /\ ~Fetched(page.build) /\ ~session[t].chunk
            /\ session' = [session EXCEPT ![t].chunk = TRUE]
            /\ Leave(t) /\ UNCHANGED cache
         \/ /\ ~Fetched(page.build) /\ session[t].chunk
            /\ tab' = [tab EXCEPT ![t].pc = "crashed"]
            /\ UNCHANGED <<worker, cache, session>>
      /\ UNCHANGED <<origin, network, used>>

\* The crash screen: Reload, or clear the caches and reload.
CrashScreen(t) ==
  /\ PageAt(t, "crashed")
  /\ \/ Leave(t) /\ UNCHANGED cache
     \/ Reset(t)
  /\ UNCHANGED <<origin, network, session, used>>

\* The watchdog's panel: Reload, a plain one, or Reset app cache & reload.
PanelReload(t) ==
  /\ PageAt(t, "panel") /\ PlainReload(t)
  /\ UNCHANGED <<origin, network, worker, cache, session, used>>
PanelReset(t) == PageAt(t, "panel") /\ Reset(t) /\ UNCHANGED <<origin, network, session, used>>

\* Time passes: a page is healthy, a cooldown is over, a window of reloads has passed.
TimePasses(t) ==
  /\ \/ PageAt(t, "open") /\ session[t].chunk /\ session' = [session EXCEPT ![t].chunk = FALSE]
     \/ session[t].recovered /\ session' = [session EXCEPT ![t].recovered = FALSE]
     \/ session[t].autos > 0 /\ session' = [session EXCEPT ![t].autos = 0]
  /\ UNCHANGED <<origin, network, worker, cache, tab, used>>
-----------------------------------------------------------------------------
(* The surroundings                                                            *)

\* external: a tab is opened or reloaded by hand, closed, or tries a failed page again.
Visit(t) ==
  /\ PageAt(t, "closed") \/ PageAt(t, "open")
  /\ used.visits < MaxVisits /\ used' = [used EXCEPT !.visits = @ + 1]
  /\ PlainReload(t)
  /\ UNCHANGED <<origin, network, worker, cache, session>>
Close(t) ==
  /\ ~PageAt(t, "closed")
  /\ tab' = [tab EXCEPT ![t] = NoPage] /\ session' = [session EXCEPT ![t] = NoSession]
  /\ UNCHANGED <<origin, network, worker, cache, used>>
TryAgain(t) ==
  /\ PageAt(t, "failed") /\ network.on /\ PlainReload(t)
  /\ UNCHANGED <<origin, network, worker, cache, session, used>>

\* external: a deploy, or a rollback, and the network.
Deploy ==
  /\ used.deploys < MaxDeploys /\ used' = [used EXCEPT !.deploys = @ + 1]
  /\ \E b \in Builds \ {origin} : origin' = b
  /\ UNCHANGED <<network, worker, cache, tab, session>>
NetworkGoes ==
  /\ network.on /\ used.outages < MaxOutages /\ used' = [used EXCEPT !.outages = @ + 1]
  /\ network' = [network EXCEPT !.on = FALSE]
  /\ UNCHANGED <<origin, worker, cache, tab, session>>
NetworkReturns ==
  /\ ~network.on /\ network' = [network EXCEPT !.on = TRUE]
  /\ UNCHANGED <<origin, worker, cache, tab, session, used>>

UpdateInit ==
  /\ origin = 1 /\ network \in [on : {TRUE}, room : BOOLEAN]
  /\ worker = NoWorker /\ cache = [b \in Builds |-> NoCache]
  /\ tab = [t \in Tabs |-> NoPage] /\ session = [t \in Tabs |-> NoSession]
  /\ used = [deploys |-> 0, outages |-> 0, visits |-> 0]

WorkerStep == Check \/ FetchShell \/ Install \/ TakeOver
PageStep(t) == Load(t) \/ Boot(t) \/ Register(t) \/ Answer(t) \/ Poll(t) \/ GiveUp(t)
PersonStep(t) ==
  Click(t) \/ HashChange(t) \/ LazyChunk(t) \/ CrashScreen(t)
  \/ PanelReload(t) \/ PanelReset(t) \/ Visit(t) \/ Close(t) \/ TryAgain(t)
Around == Deploy \/ NetworkGoes \/ NetworkReturns
UpdateNext ==
  \/ WorkerStep \/ Around
  \/ \E t \in Tabs : PageStep(t) \/ PersonStep(t) \/ TimePasses(t)

\* The browser runs what is started, the network returns, and a person who is offered a way
\* on takes it some day; whom the panel's Reload does not help resets.  Nobody is obliged to
\* navigate, close, open or wait.
UpdateFairness ==
  /\ WF_updateVars(FetchShell) /\ WF_updateVars(Install) /\ WF_updateVars(TakeOver)
  /\ WF_updateVars(NetworkReturns)
  /\ \A t \in Tabs :
       /\ WF_updateVars(Load(t)) /\ WF_updateVars(Boot(t)) /\ WF_updateVars(Register(t))
       /\ WF_updateVars(Answer(t)) /\ WF_updateVars(Poll(t)) /\ WF_updateVars(GiveUp(t))
       /\ WF_updateVars(Click(t)) /\ WF_updateVars(CrashScreen(t))
       /\ SF_updateVars(PanelReset(t)) /\ WF_updateVars(TryAgain(t))
UpdateSpec == UpdateInit /\ [][UpdateNext]_updateVars
FairSpec == UpdateSpec /\ UpdateFairness
-----------------------------------------------------------------------------
(* Properties                                                                  *)

Place == Builds \cup {NoBuild}
Query == [build : Builds, live : BOOLEAN]
Page == [pc : {"closed", "nav", "entry", "open", "adopting", "panel", "crashed", "failed"},
         build : Place, ctl : Place, held : BOOLEAN, reg : {"none", "current", "gone"},
         sha : Place \cup {Nameless}, asks : SUBSET Query]
Worker == [active : Place, waiting : Place, installing : Place, fetched : BOOLEAN,
           skip : BOOLEAN]
Contents == [shell : Place, entry : BOOLEAN, lazy : BOOLEAN]
Session == [chunk : BOOLEAN, guard : Place \cup {Nameless}, autos : 0..MaxReloads,
            recovered : BOOLEAN]
UpdateTypeOK ==
  /\ origin \in Builds /\ network \in [on : BOOLEAN, room : BOOLEAN]
  /\ worker \in Worker /\ cache \in [Builds -> Contents]
  /\ tab \in [Tabs -> Page] /\ session \in [Tabs -> Session]
  /\ used \in [deploys : 0..MaxDeploys, outages : 0..MaxOutages, visits : 0..MaxVisits]

\* A page that has not decided to go keeps its document when a worker takes over, and a
\* worker is told to take over only by a page that leaves or by one that runs its build,
\* although the worker asked may have been replaced before it answered.
Calm ==
  /\ worker'.active \notin {worker.active, NoBuild} =>
       \A t \in Tabs : PageAt(t, "open") => tab'[t].pc = "open" /\ tab'[t].build = tab[t].build
  /\ worker'.skip /\ ~worker.skip =>
       \E t \in Tabs : \/ tab'[t].pc = "adopting"
                       \/ PageAt(t, "open") /\ tab[t].build = worker.waiting
Undisturbed == [][Calm]_updateVars

\* Once the origin stays at a build, a tab that stays open comes to run it, however often it
\* is made to reload again: no reload lands on a dead build for ever, whatever the worker,
\* its caches and the other tabs hold.
NobodyStranded ==
  \A t \in Tabs : []<>(PageAt(t, "closed") \/ (PageAt(t, "open") /\ tab[t].build = origin))
=============================================================================
