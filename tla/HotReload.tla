------------------------------ MODULE HotReload ------------------------------
(***************************************************************************)
(* How an edit of the config file reaches the routes: the file watcher's   *)
(* thread (config/watcher.rs) debounces an event, loads the file and       *)
(* stores a new config into the slot; a task of run_server (main.rs) polls *)
(* the slot's pointer and rebuilds the router when it has changed.         *)
(*                                                                         *)
(* The poll compares addresses of configs that may have been freed, so     *)
(* configs have addresses here, and an address is used again once nothing  *)
(* holds it.  Time is counted in ticks (100 ms): the watcher sleeps        *)
(* DEBOUNCE of them, the task POLL; a poll comes at most MaxLate ticks     *)
(* late and the compilation of the rules takes at most MaxRebuild.         *)
(***************************************************************************)
EXTENDS Integers, FiniteSets

CONSTANTS Contents,     \* what the config file may hold
          Loadable,     \* contents load_config accepts
          Compilable,   \* those whose rules RouterSnapshot::from_config compiles
          Sources,      \* the registries a content configures
          Registries,
          NoFile,       \* the path while the file is away
          Addresses,    \* where a config may be allocated
          NoAddress,
          HasOverrides, \* the server runs with --local-override
          EarlyEdits,   \* the file may change before the watcher is started
          DEBOUNCE,     \* DEBOUNCE_DELAY
          POLL,         \* the sleep of the rebuild task
          MaxLate,      \* bound: how late a poll may come
          MaxRebuild,   \* bound: how long a rebuild may take
          MaxEvents     \* bound: events waiting for the watcher's thread

ASSUME ReloadAssumption ==
  /\ Compilable \subseteq Loadable
  /\ Loadable \subseteq Contents
  /\ NoFile \notin Contents
  /\ Sources \in [Contents -> SUBSET Registries]
  /\ NoAddress \notin Addresses
  /\ HasOverrides \in BOOLEAN
  /\ DEBOUNCE \in Nat
  /\ POLL \in Nat
  /\ MaxLate \in Nat
  /\ MaxRebuild \in Nat

VARIABLES file,        \* content of the config path
          events,      \* relevant events not yet handled
          stage,       \* "starting" until the watcher is started, "running"
          watcher,     \* "idle", "debouncing" or "loaded"
          slept,       \* ticks of the watcher's sleep
          loading,     \* what load_config returned to the watcher
          slot,        \* the config slot: address, content, overrides applied
          task,        \* "unstarted", "sleeping" or "rebuilding"
          last_ptr,    \* the address the task remembers
          current,     \* the config the task holds
          sincePoll,   \* ticks since its latest load of the slot
          router,      \* content and overrides the routes were compiled from
          resolver,    \* the registries the resolver was built for
          operational, \* registries that report anything but Unhealthy
          newest,      \* history: the latest compilable config of the slot
          before       \* history: the one before that

fileVars == <<file, events>>
watcherVars == <<watcher, slept, loading>>
taskVars == <<task, last_ptr, current, sincePoll, router>>
historyVars == <<newest, before>>
reloadVars == <<file, events, stage, watcher, slept, loading, slot, task, last_ptr,
                current, sincePoll, router, resolver, operational, newest, before>>

Rules(c) == [content |-> c.content, local |-> c.local]
NoConfig == [at |-> NoAddress, content |-> NoFile, local |-> FALSE]

\* Startup read the file, applied the overrides and compiled the routes; the
\* server exits when one of these fails.
ReloadInit ==
  /\ \E c \in Compilable, a \in Addresses :
       /\ file = c
       /\ slot = [at |-> a, content |-> c, local |-> HasOverrides]
       /\ resolver = Sources[c]
  /\ router = Rules(slot)
  /\ newest = router
  /\ before = router
  /\ operational \in SUBSET Registries
  /\ events = 0
  /\ stage = "starting"
  /\ watcher = "idle"
  /\ slept = 0
  /\ loading = NoFile
  /\ task = "unstarted"
  /\ last_ptr = NoAddress
  /\ current = NoConfig
  /\ sincePoll = 0

-----------------------------------------------------------------------------
(* The file: an editor that rewrites it in place shows its half-written    *)
(* content as a content of its own.                                        *)

Editable == stage = "running" \/ EarlyEdits

\* A write or a rename onto the path: one Modify or Create event, or two.
Write(c, n) ==
  /\ Editable
  /\ file' = c
  /\ IF stage = "running"
       THEN events + n <= MaxEvents /\ events' = events + n
       ELSE UNCHANGED events
  /\ UNCHANGED <<stage, watcherVars, slot, taskVars, resolver, operational, historyVars>>

\* A Remove event is not relevant.
Remove ==
  /\ Editable
  /\ file' = NoFile
  /\ UNCHANGED <<events, stage, watcherVars, slot, taskVars, resolver, operational,
                 historyVars>>

-----------------------------------------------------------------------------
(* Mutated forms, for checking that the properties can fail. *)

\* The reload skips the checks of load_config.
Load_unchecked ==
  /\ watcher = "debouncing"
  /\ slept >= DEBOUNCE
  /\ slept' = 0
  /\ watcher' = "loaded"
  /\ loading' = file
  /\ UNCHANGED <<fileVars, stage, slot, taskVars, resolver, operational, historyVars>>

\* The events that came in the meantime are taken as handled.
Store_coalesces(a) ==
  /\ watcher = "loaded"
  /\ a \notin {slot.at, current.at}
  /\ slot' = [at |-> a, content |-> loading, local |-> FALSE]
  /\ watcher' = "idle"
  /\ loading' = NoFile
  /\ events' = 0
  /\ newest' = IF loading \in Compilable THEN Rules(slot') ELSE newest
  /\ before' = IF loading \in Compilable THEN newest ELSE before
  /\ UNCHANGED <<file, stage, slept, taskVars, resolver, operational>>

\* No debounce: the file is read as soon as the event arrives.
Load_at_once ==
  /\ watcher = "debouncing"
  /\ slept' = 0
  /\ IF file \in Loadable
       THEN watcher' = "loaded" /\ loading' = file
       ELSE watcher' = "idle" /\ UNCHANGED loading
  /\ UNCHANGED <<fileVars, stage, slot, taskVars, resolver, operational, historyVars>>

-----------------------------------------------------------------------------
(* The watcher's thread: one event at a time *)

\* start_config_watcher, and the rebuild task spawned next.
StartWatcher ==
  /\ stage = "starting"
  /\ stage' = "running"
  /\ UNCHANGED <<fileVars, watcherVars, slot, taskVars, resolver, operational, historyVars>>

TakeEvent ==
  /\ watcher = "idle"
  /\ events > 0
  /\ events' = events - 1
  /\ watcher' = "debouncing"
  /\ slept' = 0
  /\ UNCHANGED <<file, stage, loading, slot, taskVars, resolver, operational, historyVars>>

\* The sleep is over; an error keeps the current config.
Load ==
  /\ watcher = "debouncing"
  /\ slept >= DEBOUNCE
  /\ slept' = 0
  /\ IF file \in Loadable
       THEN watcher' = "loaded" /\ loading' = file
       ELSE watcher' = "idle" /\ UNCHANGED loading
  /\ UNCHANGED <<fileVars, stage, slot, taskVars, resolver, operational, historyVars>>

\* The new config is allocated while the old one is still in the slot; the
\* overrides of startup are not applied to it, the resolver is not rebuilt.
Store(a) ==
  /\ watcher = "loaded"
  /\ a \notin {slot.at, current.at}
  /\ slot' = [at |-> a, content |-> loading, local |-> FALSE]
  /\ watcher' = "idle"
  /\ loading' = NoFile
  /\ newest' = IF loading \in Compilable THEN Rules(slot') ELSE newest
  /\ before' = IF loading \in Compilable THEN newest ELSE before
  /\ UNCHANGED <<fileVars, stage, slept, taskVars, resolver, operational>>

-----------------------------------------------------------------------------
(* The rebuild task *)

\* The remembered address is read when the task first runs.
TaskStart ==
  /\ stage = "running"
  /\ task = "unstarted"
  /\ task' = "sleeping"
  /\ last_ptr' = slot.at
  /\ sincePoll' = 0
  /\ UNCHANGED <<fileVars, stage, watcherVars, slot, current, router, resolver,
                 operational, historyVars>>

\* load_full after the sleep; the address is remembered before the rebuild.
Poll ==
  /\ task = "sleeping"
  /\ sincePoll >= POLL
  /\ sincePoll' = 0
  /\ IF slot.at = last_ptr
       THEN UNCHANGED <<task, last_ptr, current>>
       ELSE /\ task' = "rebuilding"
            /\ last_ptr' = slot.at
            /\ current' = slot
  /\ UNCHANGED <<fileVars, stage, watcherVars, slot, router, resolver, operational,
                 historyVars>>

\* rebuild_router; on an error the old routes stay and nothing is retried.
Rebuild ==
  /\ task = "rebuilding"
  /\ task' = "sleeping"
  /\ current' = NoConfig
  /\ router' = IF current.content \in Compilable THEN Rules(current) ELSE router
  /\ UNCHANGED <<fileVars, stage, watcherVars, slot, last_ptr, sincePoll, resolver,
                 operational, historyVars>>

-----------------------------------------------------------------------------
\* 100 ms pass, within the bounds on the task.
Tick ==
  /\ stage = "running"
  /\ sincePoll < POLL + MaxLate
  /\ task = "rebuilding" => sincePoll < MaxRebuild
  /\ sincePoll' = sincePoll + 1
  /\ slept' = IF watcher = "debouncing" /\ slept < DEBOUNCE THEN slept + 1 ELSE slept
  /\ UNCHANGED <<fileVars, stage, watcher, loading, slot, task, last_ptr, current, router,
                 resolver, operational, historyVars>>

RegistryChanges(g) ==
  /\ operational' = IF g \in operational THEN operational \ {g} ELSE operational \cup {g}
  /\ UNCHANGED <<fileVars, stage, watcherVars, slot, taskVars, resolver, historyVars>>

Watcher == TakeEvent \/ Load \/ \E a \in Addresses : Store(a)
RebuildTask == TaskStart \/ Poll \/ Rebuild
Editor == (\E c \in Contents, n \in 1..2 : Write(c, n)) \/ Remove

ReloadNext ==
  \/ StartWatcher \/ Watcher \/ RebuildTask \/ Editor \/ Tick
  \/ \E g \in Registries : RegistryChanges(g)

ReloadSpec == ReloadInit /\ [][ReloadNext]_reloadVars

\* Startup completes, time passes, and the thread and the task run.
FairReloadSpec ==
  /\ ReloadSpec
  /\ WF_reloadVars(StartWatcher)
  /\ WF_reloadVars(Tick)
  /\ WF_reloadVars(Watcher)
  /\ WF_reloadVars(RebuildTask)

-----------------------------------------------------------------------------
(* ready_handler *)

ReadyStatus ==
  IF Sources[slot.content] = {} THEN 200
  ELSE IF resolver \cap operational # {} THEN 200
  ELSE 503

-----------------------------------------------------------------------------
(* Properties *)

RulesSet == [content : Loadable, local : BOOLEAN]

\* Types of every variable; the slot only ever holds a config that loads.
ReloadTypeOK ==
  /\ file \in Contents \cup {NoFile}
  /\ events \in Nat
  /\ stage \in {"starting", "running"}
  /\ watcher \in {"idle", "debouncing", "loaded"}
  /\ slept \in 0..DEBOUNCE
  /\ loading \in (IF watcher = "loaded" THEN Loadable ELSE {NoFile})
  /\ slot \in [at : Addresses, content : Loadable, local : BOOLEAN]
  /\ task \in {"unstarted", "sleeping", "rebuilding"}
  /\ last_ptr \in (IF task = "unstarted" THEN {NoAddress} ELSE Addresses)
  /\ IF task = "rebuilding"
       THEN current \in [at : Addresses, content : Loadable, local : BOOLEAN]
       ELSE current = NoConfig
  /\ sincePoll \in 0..(POLL + MaxLate)
  /\ router \in RulesSet
  /\ resolver \subseteq Registries
  /\ operational \subseteq Registries
  /\ newest \in RulesSet
  /\ before \in RulesSet

\* When the task sleeps and the slot still has the address it remembers, the
\* routes are those of the latest config that compiles: comparing addresses of
\* freed configs misses no reload as long as no poll is later than the
\* debounce is longer than the poll.
Settled == task = "sleeping" /\ last_ptr = slot.at => router = newest

\* The routes are never more than one reload behind the config slot, which is
\* what a request that reads both can be mixed from.
LagsByOne == router \in {newest, before}

\* An edit that loads and compiles and is not edited over takes effect, in the
\* slot and in the routes, whatever was written before it, however its events
\* were spread and whatever the watcher read half-way.
EditsTakeEffect ==
  \A c \in Compilable :
    <>[](file = c) => <>[](slot.content = c /\ router.content = c)

-----------------------------------------------------------------------------
(* What docs and comments say and the code does not do: the first is the run *)
(* reload_failed_rebuild, TLC refutes the others when put in its place.       *)

\* operations-runbook.md:35 "If reload fails, the previous config and resolver
\* stay active": no config whose routes failed to compile is in the slot.
FailedReloadKeepsConfig ==
  task = "sleeping" /\ last_ptr = slot.at => slot.content \in Compilable

\* getting-started.md:70 "Redirect a route to your local service": while the
\* server runs with the overrides, its routes have them.
OverridesStay == HasOverrides => router.local

\* handlers.rs:189 "Returns 503 when every configured registry reports
\* Unhealthy", and so only then.
NotReadyOnlyIfUnhealthy ==
  ReadyStatus = 503 => Sources[slot.content] \cap operational = {}
=============================================================================
