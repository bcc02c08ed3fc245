--------------------------- MODULE HotReloadProofs ---------------------------
(***************************************************************************)
(* Proofs about HotReload, for every set of contents and addresses, every  *)
(* debounce and poll time and every lateness below the stated bounds.      *)
(***************************************************************************)
EXTENDS HotReload, TLAPS

Bound == POLL + MaxLate

LEMMA BoundIsNat == Bound \in Nat
BY ReloadAssumption DEF Bound

-----------------------------------------------------------------------------
(* Type correctness *)

LEMMA InitType == ReloadInit => ReloadTypeOK
<1> SUFFICES ASSUME ReloadInit PROVE ReloadTypeOK
  OBVIOUS
<1>1. PICK c \in Compilable, a \in Addresses :
        /\ file = c
        /\ slot = [at |-> a, content |-> c, local |-> HasOverrides]
        /\ resolver = Sources[c]
  BY DEF ReloadInit
<1>2. c \in Loadable /\ c \in Contents /\ Sources[c] \subseteq Registries
  BY ReloadAssumption
<1>3. router = [content |-> c, local |-> HasOverrides] /\ newest = router /\ before = router
  BY <1>1 DEF ReloadInit, Rules
<1>4. 0 \in 0..DEBOUNCE /\ 0 \in 0..(POLL + MaxLate)
  BY ReloadAssumption
<1> QED BY <1>1, <1>2, <1>3, <1>4, ReloadAssumption DEF ReloadInit, ReloadTypeOK, RulesSet

\* The watcher's thread keeps the types; only what loads reaches the slot.
LEMMA WatcherType == ASSUME ReloadTypeOK, Watcher PROVE ReloadTypeOK'
<1>1. CASE TakeEvent
  <2>1. events - 1 \in Nat /\ 0 \in 0..DEBOUNCE
    BY <1>1, ReloadAssumption DEF TakeEvent, ReloadTypeOK
  <2> QED BY <1>1, <2>1 DEF TakeEvent, ReloadTypeOK, taskVars, historyVars, RulesSet
<1>2. CASE Load
  <2>1. 0 \in 0..DEBOUNCE
    BY ReloadAssumption
  <2> QED BY <1>2, <2>1 DEF Load, ReloadTypeOK, fileVars, taskVars, historyVars, RulesSet
<1>3. ASSUME NEW a \in Addresses, Store(a) PROVE ReloadTypeOK'
  <2>1. loading \in Loadable
    BY <1>3 DEF Store, ReloadTypeOK
  <2>2. slot' = [at |-> a, content |-> loading, local |-> FALSE]
    BY <1>3 DEF Store
  <2>3. /\ slot' \in [at : Addresses, content : Loadable, local : BOOLEAN]
        /\ Rules(slot') \in RulesSet
    BY <2>1, <2>2 DEF Rules, RulesSet
  <2>4. newest' \in RulesSet /\ before' \in RulesSet
    BY <1>3, <2>3 DEF Store, ReloadTypeOK
  <2> QED BY <1>3, <2>3, <2>4 DEF Store, ReloadTypeOK, fileVars, taskVars
<1> QED BY <1>1, <1>2, <1>3 DEF Watcher

LEMMA TaskType == ASSUME ReloadTypeOK, RebuildTask PROVE ReloadTypeOK'
<1> 0 \in 0..(POLL + MaxLate)
  BY ReloadAssumption
<1>1. CASE TaskStart
  BY <1>1 DEF TaskStart, ReloadTypeOK, fileVars, watcherVars, historyVars
<1>2. CASE Poll
  BY <1>2 DEF Poll, ReloadTypeOK, fileVars, watcherVars, historyVars
<1>3. CASE Rebuild
  <2>1. router' \in RulesSet
    BY <1>3 DEF Rebuild, ReloadTypeOK, Rules, RulesSet
  <2> QED BY <1>3, <2>1 DEF Rebuild, ReloadTypeOK, fileVars, watcherVars, historyVars
<1> QED BY <1>1, <1>2, <1>3 DEF RebuildTask

LEMMA OutsideType ==
  ASSUME ReloadTypeOK,
         StartWatcher \/ Editor \/ Tick \/ \E g \in Registries : RegistryChanges(g)
  PROVE  ReloadTypeOK'
<1>1. CASE StartWatcher
  BY <1>1 DEF StartWatcher, ReloadTypeOK, fileVars, watcherVars, taskVars, historyVars
<1>2. CASE Editor
  <2>1. file' \in Contents \cup {NoFile} /\ events' \in Nat
    BY <1>2 DEF Editor, Write, Remove, ReloadTypeOK
  <2> QED BY <1>2, <2>1 DEF Editor, Write, Remove, ReloadTypeOK, watcherVars, taskVars,
                            historyVars
<1>3. CASE Tick
  <2>1. sincePoll' \in 0..(POLL + MaxLate) /\ slept' \in 0..DEBOUNCE
    BY <1>3, ReloadAssumption DEF Tick, ReloadTypeOK
  <2> QED BY <1>3, <2>1 DEF Tick, ReloadTypeOK, fileVars, historyVars
<1>4. ASSUME NEW g \in Registries, RegistryChanges(g) PROVE ReloadTypeOK'
  <2>1. operational' \subseteq Registries
    BY <1>4 DEF RegistryChanges, ReloadTypeOK
  <2> QED BY <1>4, <2>1 DEF RegistryChanges, ReloadTypeOK, fileVars, watcherVars, taskVars,
                            historyVars
<1> QED BY <1>1, <1>2, <1>3, <1>4

LEMMA StutterType == ASSUME ReloadTypeOK, UNCHANGED reloadVars PROVE ReloadTypeOK'
BY DEF reloadVars, ReloadTypeOK

\* The types hold throughout; with them, the slot only holds what loads.
THEOREM ReloadTypeCorrect == ReloadSpec => []ReloadTypeOK
<1>1. ReloadTypeOK /\ [ReloadNext]_reloadVars => ReloadTypeOK'
  BY WatcherType, TaskType, OutsideType, StutterType DEF ReloadNext
<1> QED BY <1>1, InitType, PTL DEF ReloadSpec

-----------------------------------------------------------------------------
(* No reload is missed *)

Seen == task # "unstarted" /\ slot.at = last_ptr

\* The watcher has not slept for longer than the task has not polled.
Waiting ==
  \/ watcher = "idle"
  \/ watcher = "debouncing" /\ slept <= sincePoll

\* The routes once a rebuild under way is done.
Effective ==
  IF task = "rebuilding" /\ current.content \in Compilable THEN Rules(current) ELSE router

\* An unseen config is the only one since the latest poll, because the watcher
\* would need a whole debounce to store another; so the task sees each config
\* before its address can be given away.
SeenInv ==
  /\ ~Seen => Waiting
  /\ Seen => Effective = newest
  /\ task = "unstarted" => router = newest
  /\ ~Seen /\ task # "unstarted" =>
       newest = IF slot.content \in Compilable THEN Rules(slot) ELSE Effective

LEMMA InitSeen == ReloadInit => SeenInv
BY DEF ReloadInit, SeenInv, Seen, Waiting

LEMMA WatcherSeen ==
  ASSUME ReloadTypeOK, SeenInv, Watcher, Bound < DEBOUNCE
  PROVE  SeenInv'
<1>0. sincePoll \in 0..Bound /\ slept \in 0..DEBOUNCE /\ Bound \in Nat /\ DEBOUNCE \in Nat
  BY BoundIsNat, ReloadAssumption DEF ReloadTypeOK, Bound
<1>1. CASE TakeEvent
  <2>1. Waiting'
    BY <1>0, <1>1 DEF TakeEvent, Waiting, taskVars
  <2>2. Seen' = Seen /\ Effective' = Effective
    BY <1>1 DEF TakeEvent, Seen, Effective, taskVars, Rules
  <2> QED BY <1>1, <2>1, <2>2 DEF TakeEvent, SeenInv, taskVars, historyVars, Rules
<1>2. CASE Load
  <2>1. ~Waiting
    BY <1>0, <1>2 DEF Load, Waiting
  <2>2. Seen' = Seen /\ Effective' = Effective
    BY <1>2 DEF Load, Seen, Effective, taskVars, Rules
  <2> QED BY <1>2, <2>1, <2>2 DEF Load, SeenInv, taskVars, historyVars, Seen
<1>3. ASSUME NEW a \in Addresses, Store(a) PROVE SeenInv'
  <2>1. Seen /\ Effective = newest
    BY <1>3 DEF Store, SeenInv, Waiting
  <2>2. slot'.at = a /\ slot'.content = loading
    BY <1>3 DEF Store
  <2>3. ~Seen' /\ Waiting' /\ task' # "unstarted"
    BY <1>3, <2>1, <2>2 DEF Store, Seen, Waiting, taskVars
  <2>4. Effective' = Effective
    BY <1>3 DEF Store, Effective, taskVars, Rules
  <2>5. newest' = IF slot'.content \in Compilable THEN Rules(slot') ELSE newest
    BY <1>3, <2>2 DEF Store
  <2>6. newest' = IF slot'.content \in Compilable THEN Rules(slot)' ELSE Effective'
    BY <2>1, <2>4, <2>5 DEF Rules
  <2> QED BY <2>3, <2>6 DEF SeenInv
<1> QED BY <1>1, <1>2, <1>3 DEF Watcher

LEMMA TaskSeen == ASSUME ReloadTypeOK, SeenInv, RebuildTask PROVE SeenInv'
<1>1. CASE TaskStart
  <2>1. Seen' /\ Effective' = router /\ task' # "unstarted"
    BY <1>1 DEF TaskStart, Seen, Effective
  <2> QED BY <1>1, <2>1 DEF TaskStart, SeenInv, historyVars
<1>2. CASE Poll
  <2>1. Seen' /\ task' # "unstarted"
    BY <1>2 DEF Poll, Seen
  <2>2. Effective' = newest'
    <3>1. CASE slot.at = last_ptr
      BY <1>2, <3>1 DEF Poll, SeenInv, Seen, Effective, historyVars, Rules
    <3>2. CASE slot.at # last_ptr
      <4>1. newest = IF slot.content \in Compilable THEN Rules(slot) ELSE router
        BY <1>2, <3>2 DEF Poll, SeenInv, Seen, Effective
      <4>2. Effective' = IF slot.content \in Compilable THEN Rules(slot) ELSE router
        BY <1>2, <3>2 DEF Poll, Effective, Rules
      <4> QED BY <1>2, <4>1, <4>2 DEF Poll, historyVars
    <3> QED BY <3>1, <3>2
  <2> QED BY <2>1, <2>2 DEF SeenInv
<1>3. CASE Rebuild
  <2>1. Effective' = Effective
    BY <1>3 DEF Rebuild, Effective
  <2>2. Seen' = Seen /\ (~Seen => Waiting') /\ task' # "unstarted" /\ task # "unstarted"
    BY <1>3 DEF Rebuild, Seen, Waiting, watcherVars, SeenInv
  <2> QED BY <1>3, <2>1, <2>2 DEF Rebuild, SeenInv, historyVars, Rules
<1> QED BY <1>1, <1>2, <1>3 DEF RebuildTask

LEMMA OutsideSeen ==
  ASSUME ReloadTypeOK, SeenInv,
         \/ StartWatcher \/ Editor \/ Tick
         \/ \E g \in Registries : RegistryChanges(g)
         \/ UNCHANGED reloadVars
  PROVE  SeenInv'
<1>1. CASE Tick
  <2>1. Waiting => Waiting'
    BY <1>1, ReloadAssumption DEF Tick, Waiting, ReloadTypeOK
  <2>2. Seen' = Seen /\ Effective' = Effective
    BY <1>1 DEF Tick, Seen, Effective, Rules
  <2> QED BY <1>1, <2>1, <2>2 DEF Tick, SeenInv, historyVars, Rules
<1>2. CASE \/ StartWatcher \/ Editor \/ (\E g \in Registries : RegistryChanges(g))
           \/ UNCHANGED reloadVars
  <2>1. UNCHANGED <<watcherVars, slot, taskVars, historyVars>>
    BY <1>2 DEF StartWatcher, Editor, Write, Remove, RegistryChanges, reloadVars,
                watcherVars, taskVars, historyVars
  <2> QED BY <2>1 DEF SeenInv, Seen, Waiting, Effective, Rules, watcherVars, taskVars,
                      historyVars
<1> QED BY <1>1, <1>2

LEMMA SeenStep ==
  ASSUME Bound < DEBOUNCE
  PROVE  ReloadTypeOK /\ SeenInv /\ [ReloadNext]_reloadVars => SeenInv'
BY WatcherSeen, TaskSeen, OutsideSeen DEF ReloadNext

\* With polls less late than the debounce outlasts the sleep of the task,
\* comparing freed addresses is safe: whenever the task sleeps on an unchanged
\* address, the routes are those of the latest config that compiles.
THEOREM PollsMissNothing ==
  ASSUME POLL + MaxLate < DEBOUNCE
  PROVE  ReloadSpec => []Settled
<1>1. ReloadTypeOK /\ SeenInv /\ [ReloadNext]_reloadVars => SeenInv'
  BY SeenStep DEF Bound
<1>2. SeenInv => Settled
  BY DEF SeenInv, Settled, Seen, Effective
<1> QED BY <1>1, <1>2, InitSeen, ReloadTypeCorrect, PTL DEF ReloadSpec

-----------------------------------------------------------------------------
(* The routes lag by one config *)

\* While a rebuild runs, the watcher is still in the sleep that began after
\* the store the rebuild answers to.
LagInv ==
  /\ router \in {newest, before}
  /\ task = "rebuilding" =>
       /\ Seen
       /\ sincePoll <= MaxRebuild
       /\ \/ watcher = "idle"
          \/ watcher = "debouncing" /\ slept <= Bound + sincePoll

LEMMA InitLag == ReloadInit => LagInv
BY DEF ReloadInit, LagInv

LEMMA LagStep ==
  ASSUME Bound + MaxRebuild < DEBOUNCE, ReloadTypeOK, SeenInv, LagInv, SeenInv',
         [ReloadNext]_reloadVars
  PROVE  LagInv'
<1>0. /\ sincePoll \in 0..Bound /\ slept \in 0..DEBOUNCE /\ Bound \in Nat
      /\ DEBOUNCE \in Nat /\ MaxRebuild \in Nat
  BY BoundIsNat, ReloadAssumption DEF ReloadTypeOK, Bound
<1>1. CASE TakeEvent
  BY <1>0, <1>1 DEF TakeEvent, LagInv, Seen, taskVars, historyVars
<1>2. CASE Load
  <2>1. task # "rebuilding"
    BY <1>0, <1>2 DEF Load, LagInv
  <2> QED BY <1>2, <2>1 DEF Load, LagInv, taskVars, historyVars
<1>3. ASSUME NEW a \in Addresses, Store(a) PROVE LagInv'
  <2>1. task # "rebuilding"
    BY <1>3 DEF Store, LagInv
  <2>2. router = newest
    BY <1>3, <2>1 DEF Store, SeenInv, Waiting, Effective
  <2> QED BY <1>3, <2>1, <2>2 DEF Store, LagInv, taskVars
<1>4. CASE TaskStart
  BY <1>4 DEF TaskStart, LagInv, historyVars
<1>5. CASE Poll
  <2>1. router' \in {newest', before'}
    BY <1>5 DEF Poll, LagInv, historyVars
  <2>2. ASSUME task' = "rebuilding"
        PROVE  watcher' = "idle" \/ (watcher' = "debouncing" /\ slept' <= Bound + sincePoll')
    <3>1. ~Seen
      BY <1>5, <2>2 DEF Poll, Seen
    <3> QED BY <1>0, <1>5, <3>1 DEF Poll, SeenInv, Waiting, watcherVars
  <2> QED BY <1>0, <1>5, <2>1, <2>2 DEF Poll, LagInv, Seen
<1>6. CASE Rebuild
  <2>1. task' = "sleeping" /\ router' = Effective /\ UNCHANGED historyVars
    BY <1>6 DEF Rebuild, Effective
  <2>2. Effective = newest
    BY <1>6 DEF Rebuild, LagInv, SeenInv
  <2> QED BY <2>1, <2>2 DEF LagInv, historyVars
<1>7. CASE Tick
  BY <1>0, <1>7 DEF Tick, LagInv, Seen, historyVars
<1>8. CASE \/ StartWatcher \/ Editor \/ (\E g \in Registries : RegistryChanges(g))
           \/ UNCHANGED reloadVars
  <2>1. UNCHANGED <<watcherVars, slot, taskVars, historyVars>>
    BY <1>8 DEF StartWatcher, Editor, Write, Remove, RegistryChanges, reloadVars,
                watcherVars, taskVars, historyVars
  <2> QED BY <2>1 DEF LagInv, Seen, watcherVars, taskVars, historyVars
<1> QED BY <1>1, <1>2, <1>3, <1>4, <1>5, <1>6, <1>7, <1>8
        DEF ReloadNext, Watcher, RebuildTask

\* A request that reads the routes and then the config slot sees configs that
\* are at most one reload apart, when a rebuild and the poll before it together
\* are over before the watcher's next debounce is.
THEOREM RoutesLagByOne ==
  ASSUME POLL + MaxLate + MaxRebuild < DEBOUNCE
  PROVE  ReloadSpec => []LagsByOne
<1>1. Bound + MaxRebuild < DEBOUNCE /\ Bound < DEBOUNCE
  BY ReloadAssumption DEF Bound
<1>2. ReloadTypeOK /\ SeenInv /\ [ReloadNext]_reloadVars => SeenInv'
  BY <1>1, SeenStep
<1>3. ReloadTypeOK /\ SeenInv /\ SeenInv' /\ LagInv /\ [ReloadNext]_reloadVars => LagInv'
  BY <1>1, LagStep
<1>4. LagInv => LagsByOne
  BY DEF LagInv, LagsByOne
<1> QED BY <1>2, <1>3, <1>4, InitSeen, InitLag, ReloadTypeCorrect, PTL DEF ReloadSpec
=============================================================================
