--------------------------- MODULE StartupProofs ---------------------------
(***************************************************************************)
(* Proofs about the process as it is assembled: for any programs that open *)
(* the database, any migrations, firewalls, requests, keys and restarts.   *)
(*                                                                         *)
(* The settings come first, as a specification of their own (Spec of       *)
(* Settings); then the database; then the process, which takes only steps  *)
(* that Settings knows; then the host keys.                                *)
(***************************************************************************)
EXTENDS Startup, FiniteSetTheorems, TLAPS

-----------------------------------------------------------------------------
(* The settings: lists of firewalls. *)

(* A list is a function on ids; the form the provers work with. *)
IsList(f) ==
    /\ f = [id \in DOMAIN f |-> f[id]]
    /\ DOMAIN f \subseteq Ids
    /\ \A id \in DOMAIN f : f[id] \in Entry

LEMMA ListsAreLists == \A f : f \in Lists <=> IsList(f)
  <1>1. ASSUME NEW f \in Lists PROVE IsList(f)
    <2>1. PICK ids \in SUBSET Ids : f \in [ids -> Entry]
      BY DEF Lists
    <2> QED
      BY <2>1 DEF IsList
  <1>2. ASSUME NEW f, IsList(f) PROVE f \in Lists
    <2>1. f \in [DOMAIN f -> Entry] /\ DOMAIN f \in SUBSET Ids
      BY <1>2 DEF IsList
    <2> QED
      BY <2>1 DEF Lists
  <1> QED
    BY <1>1, <1>2

LEMMA NoListIsList == NoList \in Lists
  <1>1. DOMAIN NoList = {}
    BY DEF NoList
  <1> QED
    BY <1>1, ListsAreLists DEF IsList, NoList

(* The operations on lists give lists. *)
LEMMA RestrictedList ==
    ASSUME NEW f \in Lists, NEW S
    PROVE  /\ Restrict(f, DOMAIN f \ S) \in Lists
           /\ DOMAIN Restrict(f, DOMAIN f \ S) = DOMAIN f \ S
           /\ \A id \in DOMAIN f \ S : Restrict(f, DOMAIN f \ S)[id] = f[id]
  BY ListsAreLists DEF IsList, Restrict

LEMMA RestrictedToPart ==
    ASSUME NEW f \in Lists, NEW S \in SUBSET DOMAIN f
    PROVE  /\ Restrict(f, S) \in Lists
           /\ DOMAIN Restrict(f, S) = S
           /\ \A id \in S : Restrict(f, S)[id] = f[id]
  BY ListsAreLists DEF IsList, Restrict

LEMMA MergedLists ==
    ASSUME NEW f \in Lists, NEW g \in Lists
    PROVE  /\ Over(f, g) \in Lists
           /\ DOMAIN Over(f, g) = DOMAIN f \cup DOMAIN g
           /\ \A id \in DOMAIN f : Over(f, g)[id] = f[id]
           /\ \A id \in DOMAIN g \ DOMAIN f : Over(f, g)[id] = g[id]
  BY ListsAreLists DEF IsList, Over

LEMMA SingletonList ==
    ASSUME NEW id \in Ids, NEW entry \in Entry
    PROVE  [i \in {id} |-> entry] \in Lists
  BY ListsAreLists DEF IsList

LEMMA EditedList ==
    ASSUME NEW f \in Lists, NEW id \in DOMAIN f, NEW entry \in Entry
    PROVE  [f EXCEPT ![id] = entry] \in Lists
  BY ListsAreLists DEF IsList

-----------------------------------------------------------------------------
(* Starting pollers                                                        *)

(* The row of every running poller says what the poller was started with, and
   the store did not refuse that start. *)
Registered ==
    /\ \A id \in DOMAIN running : id \in DOMAIN table /\ table[id] = running[id]
    /\ DOMAIN running \cap refused = {}

(* A poller that runs afterwards was kept, or was started as asked for; and what
   was asked for runs unless it was refused. *)
LEMMA StartedPollers ==
    ASSUME running \in Lists, table \in Lists, Registered, refused \subseteq Ids,
           NEW kept \in SUBSET DOMAIN running,
           NEW added \in Lists, kept \cap DOMAIN added = {}, StartPollers(kept, added)
    PROVE  /\ running' \in Lists /\ table' \in Lists /\ refused' \subseteq Ids
           /\ \A id \in DOMAIN running' :
                \/ id \in kept /\ running'[id] = running[id]
                \/ id \in DOMAIN added /\ running'[id] = added[id]
           /\ DOMAIN running' = (kept \cup DOMAIN added) \ refused'
           /\ refused' \ DOMAIN added = refused \ DOMAIN added
           /\ Registered'
  <1>1. PICK some \in Refusals(DOMAIN added) :
           LET started == Restrict(added, DOMAIN added \ some)
           IN  /\ running' = Over(started, Restrict(running, kept))
               /\ table' = Over(started, table)
               /\ refused' = (refused \ DOMAIN added) \cup some
    BY DEF StartPollers, SyncFirewalls
  <1> DEFINE started == Restrict(added, DOMAIN added \ some)
             old == Restrict(running, kept)
  <1>2. /\ started \in Lists /\ DOMAIN started = DOMAIN added \ some
        /\ \A id \in DOMAIN started : started[id] = added[id]
    BY RestrictedList
  <1>3. /\ old \in Lists /\ DOMAIN old = kept
        /\ \A id \in kept : old[id] = running[id]
    BY RestrictedToPart
  <1>4. /\ running' = Over(started, old) /\ table' = Over(started, table)
        /\ refused' = (refused \ DOMAIN added) \cup some
    BY <1>1
  <1>5. some \subseteq DOMAIN added /\ some \subseteq Ids
    BY SettingsConstants DEF Refusals
  <1> HIDE DEF started, old
  <1>6. /\ Over(started, old) \in Lists
        /\ DOMAIN Over(started, old) = DOMAIN started \cup DOMAIN old
        /\ \A id \in DOMAIN started : Over(started, old)[id] = started[id]
        /\ \A id \in DOMAIN old \ DOMAIN started : Over(started, old)[id] = old[id]
    BY <1>2, <1>3, MergedLists
  <1>7. /\ Over(started, table) \in Lists
        /\ DOMAIN Over(started, table) = DOMAIN started \cup DOMAIN table
        /\ \A id \in DOMAIN started : Over(started, table)[id] = started[id]
        /\ \A id \in DOMAIN table \ DOMAIN started : Over(started, table)[id] = table[id]
    BY <1>2, MergedLists
  <1>8. /\ running' \in Lists /\ table' \in Lists
        /\ DOMAIN running' = DOMAIN started \cup kept
        /\ \A id \in DOMAIN started : running'[id] = started[id]
        /\ \A id \in kept \ DOMAIN started : running'[id] = old[id]
    BY <1>3, <1>4, <1>6, <1>7
  <1>9. /\ DOMAIN running' = (kept \cup DOMAIN added) \ refused'
        /\ DOMAIN running' \cap refused' = {}
        /\ refused' \ DOMAIN added = refused \ DOMAIN added
        /\ refused' \subseteq Ids
    <2>1. kept \cap refused = {}
      BY DEF Registered
    <2> QED
      BY <1>2, <1>4, <1>5, <1>8, <2>1
  <1>10. \A id \in DOMAIN running' : id \in DOMAIN table' /\ table'[id] = running'[id]
    <2>1. \A id \in kept \ DOMAIN started : id \in DOMAIN table /\ table[id] = old[id]
      BY <1>3 DEF Registered
    <2> QED
      BY <1>4, <1>7, <1>8, <2>1
  <1>11. Registered'
    BY <1>9, <1>10 DEF Registered
  <1>12. \A id \in DOMAIN running' :
           \/ id \in kept /\ running'[id] = running[id]
           \/ id \in DOMAIN added /\ running'[id] = added[id]
    BY <1>2, <1>3, <1>8
  <1> QED
    BY <1>8, <1>9, <1>11, <1>12

(* Every poller that runs is of the list, with the connection it says. *)
Follow(list) ==
    \A id \in DOMAIN running : id \in DOMAIN list /\ running[id].conn = list[id].conn

(* After Reload pollers follow the list it was given, and each firewall of the
   list that was not refused has its poller. *)
LEMMA ReloadedPollers ==
    ASSUME running \in Lists, table \in Lists, Registered, refused \subseteq Ids,
           NEW target \in Lists, Reload(target)
    PROVE  /\ running' \in Lists /\ table' \in Lists /\ Registered'
           /\ refused' \subseteq Ids
           /\ \A id \in DOMAIN running' :
                id \in DOMAIN target /\ running'[id].conn = target[id].conn
           /\ DOMAIN running' = DOMAIN target \ refused'
  <1> DEFINE kept == Kept(target)
             added == Restrict(target, DOMAIN target \ kept)
  <1>1. /\ kept \in SUBSET DOMAIN running /\ kept \subseteq DOMAIN target
        /\ \A id \in kept : running[id].conn = target[id].conn
    BY DEF Kept
  <1>2. /\ added \in Lists /\ DOMAIN added = DOMAIN target \ kept
        /\ \A id \in DOMAIN added : added[id] = target[id]
    BY RestrictedList
  <1>3. StartPollers(kept, added)
    BY DEF Reload
  <1> HIDE DEF kept, added
  <1>4. kept \cap DOMAIN added = {} /\ kept \cup DOMAIN added = DOMAIN target
    BY <1>1, <1>2
  <1>5. /\ running' \in Lists /\ table' \in Lists /\ Registered'
        /\ refused' \subseteq Ids
        /\ \A id \in DOMAIN running' :
             \/ id \in kept /\ running'[id] = running[id]
             \/ id \in DOMAIN added /\ running'[id] = added[id]
        /\ DOMAIN running' = (kept \cup DOMAIN added) \ refused'
    BY <1>1, <1>2, <1>3, <1>4, StartedPollers
  <1> QED
    BY <1>1, <1>2, <1>4, <1>5

-----------------------------------------------------------------------------
(* Types                                                                   *)

Configs == [fws : Lists, sources : SUBSET Sources, made : BOOLEAN]

LEMMA LoadType ==
    ASSUME NEW content \in {Nothing} \cup Contents
    PROVE  Load(content) \in Configs
  BY NoListIsList, SettingsConstants DEF Load, EmptyConfig, Configs, Contents

(* What Update leaves, whether the save succeeds or not. *)
LEMMA UpdateFirewallsType ==
    ASSUME TypeOK, NEW u \in Updaters, want[u] = Idle, NEW fws \in Lists,
           UpdateFirewalls(u, fws)
    PROVE  /\ file' \in {Nothing, Garbled} \cup Contents
           /\ memory' \in Configs
           /\ want' \in [Updaters -> Lists \cup {Idle}]
           /\ \/ /\ memory'.fws = fws /\ want' = [want EXCEPT ![u] = fws]
                 /\ file' = [fws |-> fws, sources |-> memory.sources]
              \/ memory' = memory /\ want' = want /\ file' \in {file} \cup Damage
  <1>1. memory \in Configs
    BY DEF TypeOK, Configs
  <1>2. CASE Saved([memory EXCEPT !.fws = fws]) /\ want' = [want EXCEPT ![u] = fws]
    <2> DEFINE next == [memory EXCEPT !.fws = fws]
    <2>1. next \in Configs /\ next.fws = fws /\ next.sources = memory.sources
      BY <1>1 DEF Configs
    <2>2. memory' = next /\ file' = [fws |-> fws, sources |-> memory.sources]
      BY <1>2, <2>1 DEF Saved, OnDisk
    <2>3. file' \in Contents
      BY <1>1, <2>2 DEF Contents, Configs
    <2> QED
      BY <1>2, <2>1, <2>2, <2>3 DEF TypeOK
  <1>3. CASE SaveFails /\ UNCHANGED <<memory, want>>
    BY <1>1, <1>3 DEF SaveFails, Damage, TypeOK
  <1> QED
    BY <1>2, <1>3 DEF UpdateFirewalls

(* The three handlers that change the list of firewalls. *)
Changing(u) == AddFirewall(u) \/ EditFirewall(u) \/ RemoveFirewall(u)

LEMMA ChangingUpdates ==
    ASSUME TypeOK, NEW u \in Updaters, Changing(u)
    PROVE  /\ up /\ want[u] = Idle
           /\ UNCHANGED <<up, clearing, managerVars>>
           /\ \E fws \in Lists : UpdateFirewalls(u, fws)
  <1>1. memory.fws \in Lists
    BY DEF TypeOK
  <1>2. CASE AddFirewall(u)
    <2>1. PICK id \in Ids, entry \in Entry :
            UpdateFirewalls(u, Over([i \in {id} |-> entry], memory.fws))
      BY <1>2 DEF AddFirewall
    <2>2. Over([i \in {id} |-> entry], memory.fws) \in Lists
      BY <1>1, SingletonList, MergedLists
    <2> QED
      BY <1>2, <2>1, <2>2 DEF AddFirewall, Accepts, UpdateFrame
  <1>3. CASE EditFirewall(u)
    <2>1. PICK id \in DOMAIN memory.fws, entry \in Entry :
            UpdateFirewalls(u, [memory.fws EXCEPT ![id] = entry])
      BY <1>3 DEF EditFirewall
    <2>2. [memory.fws EXCEPT ![id] = entry] \in Lists
      BY <1>1, EditedList
    <2> QED
      BY <1>3, <2>1, <2>2 DEF EditFirewall, Accepts, UpdateFrame
  <1>4. CASE RemoveFirewall(u)
    <2>1. PICK id \in DOMAIN memory.fws :
            UpdateFirewalls(u, Restrict(memory.fws, DOMAIN memory.fws \ {id}))
      BY <1>4 DEF RemoveFirewall
    <2>2. Restrict(memory.fws, DOMAIN memory.fws \ {id}) \in Lists
      BY <1>1, RestrictedList
    <2> QED
      BY <1>4, <2>1, <2>2 DEF RemoveFirewall, Accepts, UpdateFrame
  <1> QED
    BY <1>2, <1>3, <1>4 DEF Changing

-----------------------------------------------------------------------------
(* The inductive invariant                                                 *)

(* At most one request that changes the settings at a time. *)
OneUpdater == \A u, v \in Updaters : u = v

(* What makes NoStalePoller and EveryFirewallPolled inductive: the list an
   updater holds is still the configured one, and without an updater between
   its calls the pollers follow the configured list already, whether or not a
   Clear database is under way. *)
InTouch ==
    /\ \A u \in Updaters : want[u] # Idle => want[u] = memory.fws
    /\ up /\ (\A u \in Updaters : want[u] = Idle) =>
         /\ Follow(memory.fws)
         /\ DOMAIN running = DOMAIN memory.fws \ refused

IInv ==
    /\ TypeOK
    /\ Registered
    /\ ~SavesMayTear => FirewallsPersisted
    /\ OneUpdater => InTouch

LEMMA InitIInv == Init => IInv
  <1> SUFFICES ASSUME Init PROVE IInv
    OBVIOUS
  <1>1. TypeOK
    BY NoListIsList DEF Init, TypeOK, EmptyConfig
  <1>2. FirewallsPersisted /\ InTouch /\ Registered
    BY DEF Init, FirewallsPersisted, InTouch, Registered, NoList
  <1> QED
    BY <1>1, <1>2 DEF IInv

LEMMA ChangingKeeps ==
    ASSUME IInv, NEW u \in Updaters, Changing(u)
    PROVE  IInv'
  <1>1. /\ TypeOK /\ up /\ want[u] = Idle
        /\ UNCHANGED <<up, clearing, managerVars>>
    BY ChangingUpdates DEF IInv
  <1>2. PICK fws \in Lists : UpdateFirewalls(u, fws)
    BY ChangingUpdates DEF IInv
  <1>3. /\ file' \in {Nothing, Garbled} \cup Contents
        /\ memory' \in Configs
        /\ want' \in [Updaters -> Lists \cup {Idle}]
        /\ \/ /\ memory'.fws = fws /\ want' = [want EXCEPT ![u] = fws]
              /\ file' = [fws |-> fws, sources |-> memory.sources]
           \/ memory' = memory /\ want' = want /\ file' \in {file} \cup Damage
    BY <1>1, <1>2, UpdateFirewallsType
  <1>4. TypeOK' /\ Registered'
    BY <1>1, <1>3 DEF TypeOK, Configs, Registered, IInv, managerVars
  <1>5. CASE /\ memory'.fws = fws /\ want' = [want EXCEPT ![u] = fws]
             /\ file' = [fws |-> fws, sources |-> memory.sources]
    <2>1. file' \in Contents
      BY <1>1, <1>5 DEF Contents, TypeOK
    <2>2. FirewallsPersisted'
      BY <1>5, <2>1, SettingsConstants DEF FirewallsPersisted, Load
    <2>3. OneUpdater => InTouch'
      BY <1>1, <1>5, SettingsConstants DEF OneUpdater, InTouch, TypeOK, managerVars
    <2> QED
      BY <1>4, <2>2, <2>3 DEF IInv
  <1>6. CASE memory' = memory /\ want' = want /\ file' \in {file} \cup Damage
    <2>1. ~SavesMayTear => FirewallsPersisted'
      BY <1>1, <1>6 DEF FirewallsPersisted, Damage, IInv
    <2>2. OneUpdater => InTouch'
      BY <1>1, <1>6 DEF InTouch, Follow, IInv, managerVars
    <2> QED
      BY <1>4, <2>1, <2>2 DEF IInv
  <1> QED
    BY <1>3, <1>5, <1>6

LEMMA SetSourceKeeps ==
    ASSUME IInv, NEW u \in Updaters, SetSourceEnabled(u)
    PROVE  IInv'
  <1>1. UNCHANGED <<up, clearing, managerVars, want>> /\ up /\ TypeOK
    BY DEF SetSourceEnabled, UpdateFrame, Accepts, IInv
  <1>2. memory \in Configs
    BY <1>1 DEF TypeOK, Configs
  <1>3. PICK switched \in SUBSET Sources :
          \/ Saved([memory EXCEPT !.sources = switched, !.made = TRUE])
          \/ /\ SaveFails
             /\ memory' = IF memory.made THEN [memory EXCEPT !.sources = switched] ELSE memory
    <2>1. PICK source \in Sources, enabled \in BOOLEAN :
            LET switched == IF enabled THEN memory.sources \cup {source}
                                       ELSE memory.sources \ {source}
            IN  \/ Saved([memory EXCEPT !.sources = switched, !.made = TRUE])
                \/ /\ SaveFails
                   /\ memory' = IF memory.made THEN [memory EXCEPT !.sources = switched]
                                               ELSE memory
      BY DEF SetSourceEnabled
    <2> DEFINE switched == IF enabled THEN memory.sources \cup {source}
                                      ELSE memory.sources \ {source}
    <2>2. switched \in SUBSET Sources
      BY <1>2 DEF Configs
    <2> QED
      BY <2>1, <2>2, Zenon
  <1>4. CASE Saved([memory EXCEPT !.sources = switched, !.made = TRUE])
    <2> DEFINE next == [memory EXCEPT !.sources = switched, !.made = TRUE]
    <2>1. next \in Configs /\ next.fws = memory.fws /\ next.sources = switched
      BY <1>2 DEF Configs
    <2>2. memory' = next /\ file' = [fws |-> memory.fws, sources |-> switched]
      BY <1>4, <2>1 DEF Saved, OnDisk
    <2> HIDE DEF next
    <2>3. file' \in Contents
      BY <1>2, <2>2 DEF Contents, Configs
    <2>4. TypeOK' /\ Registered'
      BY <1>1, <2>1, <2>2, <2>3 DEF TypeOK, Configs, Registered, IInv, managerVars
    <2>5. FirewallsPersisted'
      BY <2>1, <2>2, <2>3, SettingsConstants DEF FirewallsPersisted, Load
    <2>6. OneUpdater => InTouch'
      BY <1>1, <2>1, <2>2 DEF InTouch, Follow, IInv, managerVars
    <2> QED
      BY <2>4, <2>5, <2>6 DEF IInv
  <1>5. CASE /\ SaveFails
             /\ memory' = IF memory.made THEN [memory EXCEPT !.sources = switched] ELSE memory
    <2>1. memory' \in Configs /\ memory'.fws = memory.fws
      BY <1>2, <1>5 DEF Configs
    <2>2. file' \in {file} \cup Damage
      BY <1>5 DEF SaveFails
    <2>3. TypeOK' /\ Registered'
      BY <1>1, <2>1, <2>2 DEF TypeOK, Configs, Damage, Registered, IInv, managerVars
    <2>4. ~SavesMayTear => FirewallsPersisted'
      BY <1>1, <2>1, <2>2 DEF FirewallsPersisted, Damage, IInv
    <2>5. OneUpdater => InTouch'
      BY <1>1, <2>1 DEF InTouch, Follow, IInv, managerVars
    <2> QED
      BY <2>3, <2>4, <2>5 DEF IInv
  <1> QED
    BY <1>3, <1>4, <1>5

LEMMA ReloadKeeps ==
    ASSUME IInv, NEW u \in Updaters, ReloadAfterUpdate(u)
    PROVE  IInv'
  <1>1. /\ UNCHANGED <<up, file, memory, clearing>> /\ TypeOK
        /\ want[u] # Idle /\ want' = [want EXCEPT ![u] = Idle] /\ Reload(want[u])
    BY DEF ReloadAfterUpdate, IInv
  <1>2. /\ want[u] \in Lists /\ running \in Lists /\ table \in Lists /\ up /\ Registered
        /\ refused \subseteq Ids
    BY <1>1 DEF TypeOK, IInv
  <1>3. /\ running' \in Lists /\ table' \in Lists /\ Registered' /\ refused' \subseteq Ids
        /\ \A id \in DOMAIN running' :
             id \in DOMAIN want[u] /\ running'[id].conn = want[u][id].conn
        /\ DOMAIN running' = DOMAIN want[u] \ refused'
    BY <1>1, <1>2, ReloadedPollers
  <1>4. TypeOK'
    BY <1>1, <1>2, <1>3 DEF TypeOK
  <1>5. ~SavesMayTear => FirewallsPersisted'
    BY <1>1 DEF FirewallsPersisted, IInv
  <1>6. OneUpdater => InTouch'
    <2> SUFFICES ASSUME OneUpdater PROVE InTouch'
      OBVIOUS
    <2>1. want[u] = memory.fws
      BY <1>1 DEF IInv, InTouch
    <2>2. \A v \in Updaters : want'[v] = Idle
      BY <1>1 DEF OneUpdater, TypeOK
    <2> QED
      BY <1>1, <1>3, <2>1, <2>2 DEF InTouch, Follow
  <1> QED
    BY <1>3, <1>4, <1>5, <1>6 DEF IInv

LEMMA ClearingKeeps ==
    ASSUME IInv, NEW c \in Clearers, ClearHistory(c) \/ RestartAll(c)
    PROVE  IInv'
  <1>1. CASE ClearHistory(c)
    BY <1>1 DEF ClearHistory, IInv, TypeOK, FirewallsPersisted, InTouch, Follow, Registered, managerVars
  <1>2. CASE RestartAll(c)
    <2>1. /\ UNCHANGED <<up, file, memory, want>> /\ TypeOK
          /\ c \in clearing /\ clearing' = clearing \ {c} /\ StartPollers({}, running)
      BY <1>2 DEF RestartAll, IInv
    <2>2. running \in Lists /\ table \in Lists /\ up /\ Registered /\ refused \subseteq Ids
      BY <2>1 DEF TypeOK, IInv
    <2>3. /\ running' \in Lists /\ table' \in Lists /\ Registered' /\ refused' \subseteq Ids
          /\ \A id \in DOMAIN running' : id \in DOMAIN running /\ running'[id] = running[id]
          /\ DOMAIN running' = DOMAIN running \ refused'
          /\ refused' \ DOMAIN running = refused \ DOMAIN running
      <3>1. {} \in SUBSET DOMAIN running /\ {} \cap DOMAIN running = {}
        OBVIOUS
      <3>2. /\ running' \in Lists /\ table' \in Lists /\ refused' \subseteq Ids
            /\ \A id \in DOMAIN running' :
                 \/ id \in {} /\ running'[id] = running[id]
                 \/ id \in DOMAIN running /\ running'[id] = running[id]
            /\ DOMAIN running' = ({} \cup DOMAIN running) \ refused'
            /\ refused' \ DOMAIN running = refused \ DOMAIN running
            /\ Registered'
        BY <2>1, <2>2, <3>1, StartedPollers
      <3> QED
        BY <3>2
    <2>4. TypeOK'
      BY <2>1, <2>2, <2>3 DEF TypeOK
    <2>5. ~SavesMayTear => FirewallsPersisted'
      BY <2>1 DEF FirewallsPersisted, IInv
    <2>6. OneUpdater => InTouch'
      <3>1. \A fws : DOMAIN running = fws \ refused => DOMAIN running' = fws \ refused'
        BY <2>3
      <3> QED
        BY <2>1, <2>2, <2>3, <3>1 DEF InTouch, Follow, IInv, managerVars
    <2> QED
      BY <2>3, <2>4, <2>5, <2>6 DEF IInv
  <1> QED
    BY <1>1, <1>2

LEMMA StartKeeps ==
    ASSUME IInv, Start
    PROVE  IInv'
  <1>1. /\ ~up /\ up' /\ up' = TRUE /\ file # Garbled /\ memory' = Load(file)
        /\ UNCHANGED <<file, want, clearing>> /\ TypeOK /\ Reload(Load(file).fws)
    BY DEF Start, IInv
  <1>2. memory' \in Configs
    BY <1>1, LoadType DEF TypeOK
  <1>3. /\ Load(file).fws \in Lists /\ running \in Lists /\ table \in Lists
        /\ want = [u \in Updaters |-> Idle] /\ Registered /\ refused \subseteq Ids
    BY <1>1, <1>2 DEF TypeOK, Configs, IInv
  <1>4. /\ running' \in Lists /\ table' \in Lists /\ Registered' /\ refused' \subseteq Ids
        /\ \A id \in DOMAIN running' :
             id \in DOMAIN Load(file).fws /\ running'[id].conn = Load(file).fws[id].conn
        /\ DOMAIN running' = DOMAIN Load(file).fws \ refused'
    BY <1>1, <1>3, ReloadedPollers
  <1>5. TypeOK'
    BY <1>1, <1>2, <1>4 DEF TypeOK, Configs
  <1>6. FirewallsPersisted'
    BY <1>1 DEF FirewallsPersisted
  <1>7. InTouch'
    BY <1>1, <1>3, <1>4 DEF InTouch, Follow
  <1> QED
    BY <1>4, <1>5, <1>6, <1>7 DEF IInv

LEMMA StopKeeps ==
    ASSUME IInv, Stop
    PROVE  IInv'
  <1>1. TypeOK'
    BY NoListIsList DEF Stop, IInv, TypeOK, EmptyConfig, Damage
  <1>2. FirewallsPersisted' /\ InTouch' /\ Registered'
    BY DEF Stop, FirewallsPersisted, InTouch, Registered, NoList
  <1> QED
    BY <1>1, <1>2 DEF IInv

LEMMA NextIInv == IInv /\ [Next]_vars => IInv'
  <1> SUFFICES ASSUME IInv, [Next]_vars PROVE IInv'
    OBVIOUS
  <1>1. ASSUME NEW u \in Updaters, Updater(u)
        PROVE  IInv'
    BY <1>1, ChangingKeeps, SetSourceKeeps, ReloadKeeps DEF Updater, Changing
  <1>2. CASE UNCHANGED vars
    BY <1>2 DEF vars, IInv, TypeOK, FirewallsPersisted, InTouch, Follow, Registered, managerVars
  <1> QED
    BY <1>1, <1>2, ClearingKeeps, StartKeeps, StopKeeps DEF Next

-----------------------------------------------------------------------------

(* Every variable has its type, and a stopped process holds nothing. *)
THEOREM TypeCorrect == Spec => []TypeOK
  <1>1. IInv => TypeOK
    BY DEF IInv
  <1> QED
    BY <1>1, InitIInv, NextIInv, PTL DEF Spec

(* Unless a write can damage the file, the firewalls in memory are those on
   disk, whatever saves fail and whenever the process ends. *)
THEOREM Persisted ==
    ASSUME ~SavesMayTear
    PROVE  Spec => []FirewallsPersisted
  <1>1. IInv => FirewallsPersisted
    BY DEF IInv
  <1> QED
    BY <1>1, InitIInv, NextIInv, PTL DEF Spec

(* With one request at a time no poller of a removed firewall goes on and none
   uses an old address or password, even when the store refuses to register
   firewalls, saves damage the file or the process is restarted. *)
THEOREM NoneStale ==
    ASSUME OneUpdater
    PROVE  Spec => []NoStalePoller
  <1>1. IInv => NoStalePoller
    BY DEF IInv, InTouch, Follow, NoStalePoller, Settled
  <1> QED
    BY <1>1, InitIInv, NextIInv, PTL DEF Spec

(* And each configured firewall is polled, unless its last start was refused. *)
THEOREM AllPolled ==
    ASSUME OneUpdater
    PROVE  Spec => []EveryFirewallPolled
  <1>1. IInv => EveryFirewallPolled
    BY DEF IInv, InTouch, EveryFirewallPolled, Settled
  <1> QED
    BY <1>1, InitIInv, NextIInv, PTL DEF Spec

(* And its row has its present address: a poller that is kept has registered it
   before, one that is started does so. *)
THEOREM RowsFollow ==
    ASSUME OneUpdater
    PROVE  Spec => []RowsAsConfigured
  <1>1. IInv => RowsAsConfigured
    BY DEF IInv, InTouch, Follow, Registered, RowsAsConfigured, Settled
  <1> QED
    BY <1>1, InitIInv, NextIInv, PTL DEF Spec

-----------------------------------------------------------------------------
(* The database. *)

(* What the programs may rely on while they open it: what a program has passed
   is recorded, the one in a transaction has found its migration missing, and
   nobody else has recorded it since. *)
OpeningOK ==
    \A p \in Programs :
      /\ \A v \in 1 .. Latest : v < at[p] => v \in recorded
      /\ stage[p] \in {"apply"} \cup InTransaction => at[p] <= Latest
      /\ stage[p] = "commit" => at[p] \notin recorded
      /\ stage[p] = "open" => at[p] > Latest

MInv == MigrationTypeOK /\ AppliedAsRecorded /\ OpeningOK

MigrationStep == \E p \in Programs : Launch(p) \/ Open(p) \/ Leave(p)

LEMMA MigrationStart == MigrationInit => MInv
  BY MigrationAssumption
  DEF MigrationInit, MInv, MigrationTypeOK, AppliedAsRecorded, OpeningOK, Stages,
      InTransaction

LEMMA LaunchKeeps ==
    ASSUME MInv, NEW p \in Programs, Launch(p)
    PROVE  MInv'
  BY MigrationAssumption
  DEF MInv, Launch, GoToStage, MayWrite, MigrationTypeOK, AppliedAsRecorded, OpeningOK,
      Stages, InTransaction

LEMMA CheckKeeps ==
    ASSUME MInv, NEW p \in Programs, Check(p)
    PROVE  MInv'
  <1>1. /\ UNCHANGED <<applied, recorded>>
        /\ AppliedAsRecorded'
    BY DEF Check, MInv, AppliedAsRecorded
  <1>2. CASE at[p] > Latest /\ GoToStage(p, "open") /\ UNCHANGED at
    BY <1>1, <1>2, MigrationAssumption
    DEF MInv, GoToStage, MigrationTypeOK, OpeningOK, Stages, InTransaction
  <1>3. CASE at[p] \in recorded /\ at' = [at EXCEPT ![p] = @ + 1] /\ UNCHANGED stage
    <2>1. /\ at[p] \in 1 .. Latest
          /\ stage[p] = "check"
          /\ at' \in [Programs -> 1 .. Latest + 1]
      BY <1>3, MigrationAssumption DEF MInv, Check, MigrationTypeOK
    <2>2. OpeningOK'
      BY <1>1, <1>3, <2>1, MigrationAssumption
      DEF MInv, MigrationTypeOK, OpeningOK, InTransaction
    <2> QED
      BY <1>1, <1>3, <2>1, <2>2 DEF MInv, MigrationTypeOK
  <1>4. CASE at[p] \in (1 .. Latest) \ recorded /\ GoToStage(p, "apply") /\ UNCHANGED at
    BY <1>1, <1>4, MigrationAssumption
    DEF MInv, Check, GoToStage, MigrationTypeOK, OpeningOK, Stages, InTransaction
  <1> QED
    BY <1>2, <1>3, <1>4 DEF Check

LEMMA ApplyKeeps ==
    ASSUME MInv, NEW p \in Programs, Apply(p)
    PROVE  MInv'
  BY MigrationAssumption
  DEF MInv, Apply, GoToStage, MayWrite, MigrationTypeOK, AppliedAsRecorded, OpeningOK,
      Stages, InTransaction

LEMMA RecordKeeps ==
    ASSUME MInv, NEW p \in Programs, Record(p)
    PROVE  MInv'
  BY MigrationAssumption
  DEF MInv, Record, GoToStage, MigrationTypeOK, AppliedAsRecorded, OpeningOK, Stages,
      InTransaction

LEMMA LeaveKeeps ==
    ASSUME MInv, NEW p \in Programs, Leave(p)
    PROVE  MInv'
  BY MigrationAssumption
  DEF MInv, Leave, GoToStage, MigrationTypeOK, AppliedAsRecorded, OpeningOK, Stages,
      InTransaction

(* The migration a program commits is the next one: those before it are
   recorded, it is not, and the recorded ones have no gap. *)
LEMMA CommitKeeps ==
    ASSUME MInv, NEW p \in Programs, Commit(p)
    PROVE  MInv'
  <1>1. /\ at[p] \in 1 .. Latest /\ Len(applied) \in Nat
        /\ at[p] = Len(applied) + 1
    BY MigrationAssumption
    DEF MInv, Commit, MigrationTypeOK, AppliedAsRecorded, OpeningOK, InTransaction
  <1>2. /\ applied' \in Seq(1 .. Latest)
        /\ Len(applied') = Len(applied) + 1
        /\ DOMAIN applied' = 1 .. Len(applied) + 1
        /\ \A i \in DOMAIN applied' :
             applied'[i] = IF i = Len(applied) + 1 THEN at[p] ELSE applied[i]
    BY <1>1 DEF MInv, Commit, MigrationTypeOK
  <1>3. AppliedAsRecorded'
    <2>1. \A i \in DOMAIN applied' : applied'[i] = i
      BY <1>1, <1>2 DEF MInv, MigrationTypeOK, AppliedAsRecorded
    <2>2. recorded' = 1 .. Len(applied')
      BY <1>1, <1>2 DEF MInv, Commit, AppliedAsRecorded
    <2> QED
      BY <2>1, <2>2 DEF AppliedAsRecorded
  <1>4. MigrationTypeOK'
    BY <1>1, <1>2 DEF MInv, Commit, GoToStage, MigrationTypeOK, Stages, InTransaction
  <1>5. OpeningOK'
    BY <1>1 DEF MInv, Commit, GoToStage, MigrationTypeOK, OpeningOK, InTransaction
  <1> QED
    BY <1>3, <1>4, <1>5 DEF MInv

LEMMA MigrationNext == MInv /\ [MigrationStep]_migrationVars => MInv'
  <1> SUFFICES ASSUME MInv, [MigrationStep]_migrationVars PROVE MInv'
    OBVIOUS
  <1>1. CASE UNCHANGED migrationVars
    BY <1>1 DEF migrationVars, MInv, MigrationTypeOK, AppliedAsRecorded, OpeningOK
  <1>2. CASE MigrationStep
    BY <1>2, LaunchKeeps, CheckKeeps, ApplyKeeps, RecordKeeps, CommitKeeps, LeaveKeeps
    DEF MigrationStep, Open
  <1> QED
    BY <1>1, <1>2

LEMMA StartupMigrates == StartupNext => [MigrationStep]_migrationVars
  BY StartupAssumption
  DEF StartupNext, BeginStart, OpenDatabase, Serve, OpenFails, End, OtherProgram,
      SettingsStep, SettingsFrame, PollerConnects, DeviceRekeyed, MigrationStep

LEMMA StartupMInv == MInv /\ [StartupNext]_startupVars => MInv'
  BY StartupMigrates, MigrationNext DEF startupVars

(* Migrations are applied one after the other, none twice and none left out,
   and recorded as they were applied: however many programs open the database
   at once, and wherever they are cut off. *)
THEOREM MigratedInOrder == StartupSpec => []AppliedAsRecorded
  <1>1. StartupInit => MInv
    BY MigrationStart DEF StartupInit
  <1>2. MInv => AppliedAsRecorded
    BY DEF MInv
  <1> QED
    BY <1>1, <1>2, StartupMInv, PTL DEF StartupSpec

(* A program that has opened the database finds it fully migrated. *)
THEOREM OpenedIsMigrated == StartupSpec => []OpenIsMigrated
  <1>1. StartupInit => MInv
    BY MigrationStart DEF StartupInit
  <1>2. MInv => OpenIsMigrated
    <2> SUFFICES ASSUME MInv, NEW p \in Programs, stage[p] = "open"
                 PROVE  Len(applied) = Latest
      BY DEF OpenIsMigrated
    <2>1. Len(applied) \in Nat /\ recorded = 1 .. Len(applied) /\ recorded \subseteq 1 .. Latest
      BY DEF MInv, MigrationTypeOK, AppliedAsRecorded
    <2>2. Latest \in recorded
      BY MigrationAssumption DEF MInv, MigrationTypeOK, OpeningOK
    <2> QED
      BY <2>1, <2>2, MigrationAssumption
  <1> QED
    BY <1>1, <1>2, StartupMInv, PTL DEF StartupSpec

-----------------------------------------------------------------------------
(* The settings. *)

(* The process as it is assembled takes only steps that Settings knows, however
   long it opens the database and whatever becomes of it meanwhile. *)
LEMMA StartupSettings == StartupNext => [Next]_vars
  BY DEF StartupNext, BeginStart, OpenDatabase, Serve, OpenFails, End, OtherProgram,
         SettingsStep, PollerConnects, DeviceRekeyed, Next

(* So what is proved of Settings holds of the process. *)
THEOREM ImplementsSettings == StartupSpec => Spec
  <1>1. StartupInit => Init
    BY DEF StartupInit
  <1>2. [StartupNext]_startupVars => [Next]_vars
    BY StartupSettings DEF startupVars, vars
  <1> QED
    BY <1>1, <1>2, PTL DEF StartupSpec, Spec

(* With one settings request at a time, no poller of a removed firewall goes on
   and none uses old connection details. *)
THEOREM StartedNoneStale ==
    ASSUME OneUpdater
    PROVE  StartupSpec => []NoStalePoller
  BY ImplementsSettings, NoneStale, PTL

(* Unless a write can damage the file, what the process has in memory is what
   it will find on disk when it is started again. *)
THEOREM StartedPersisted ==
    ASSUME ~SavesMayTear
    PROVE  StartupSpec => []FirewallsPersisted
  BY ImplementsSettings, Persisted, PTL

(* With one settings request at a time each configured firewall that the store
   let start is polled and its row is up to date. *)
THEOREM StartedAllPolled ==
    ASSUME OneUpdater
    PROVE  StartupSpec => [](EveryFirewallPolled /\ RowsAsConfigured)
  BY ImplementsSettings, AllPolled, RowsFollow, PTL

-----------------------------------------------------------------------------
(* The host keys. *)

(* As long as no save failed, a running process has the pins of the file, and
   a password was only sent under the pinned key. *)
PinsOK ==
    ~pinsLost =>
      /\ pinFile \in Pins
      /\ up => entries = pinFile
      /\ \A addr \in Addrs : \A key \in trusted[addr] :
           addr \in DOMAIN pinFile /\ key = pinFile[addr]

KInv == IInv /\ HostKeyTypeOK /\ PinsOK

LEMMA NoPinsIsPins == NoPins \in Pins
  <1>1. NoPins \in [{} -> 1 .. MaxKeys]
    BY DEF NoPins
  <1> QED
    BY <1>1 DEF Pins

(* The map with a pin more. *)
LEMMA PinnedPins ==
    ASSUME entries \in Pins, NEW addr \in Addrs, NEW key \in 1 .. MaxKeys
    PROVE  /\ Pinned(addr, key) \in Pins
           /\ DOMAIN Pinned(addr, key) = DOMAIN entries \cup {addr}
           /\ Pinned(addr, key)[addr] = key
           /\ \A a \in DOMAIN entries \ {addr} : Pinned(addr, key)[a] = entries[a]
  <1>1. PICK addrs \in SUBSET Addrs : entries \in [addrs -> 1 .. MaxKeys]
    BY DEF Pins
  <1>2. Pinned(addr, key) \in [addrs \cup {addr} -> 1 .. MaxKeys]
    BY <1>1 DEF Pinned
  <1>3. addrs \cup {addr} \in SUBSET Addrs
    OBVIOUS
  <1> QED
    BY <1>1, <1>2, <1>3 DEF Pinned, Pins

LEMMA ConnectKeeps ==
    ASSUME KInv, up, NEW addr \in Addrs, Connect(addr), UNCHANGED vars
    PROVE  KInv'
  <1> DEFINE key == device[addr]
  <1>1. IInv'
    BY DEF KInv, vars, IInv, TypeOK, FirewallsPersisted, InTouch, Follow, Registered, managerVars
  <1>2. /\ key \in 1 .. MaxKeys
        /\ entries \in Pins
        /\ device' = device
        /\ up'
    BY DEF KInv, HostKeyTypeOK, Connect, vars
  <1>3. /\ Pinned(addr, key) \in Pins
        /\ DOMAIN Pinned(addr, key) = DOMAIN entries \cup {addr}
        /\ Pinned(addr, key)[addr] = key
        /\ \A a \in DOMAIN entries \ {addr} : Pinned(addr, key)[a] = entries[a]
    BY <1>2, PinnedPins
  <1> HIDE DEF key
  <1>4. CASE /\ addr \notin DOMAIN entries
             /\ entries' = Pinned(addr, key)
             /\ pinFile' = entries'
             /\ Trust(addr, key)
             /\ UNCHANGED pinsLost
    <2>1. HostKeyTypeOK'
      BY <1>2, <1>3, <1>4 DEF KInv, HostKeyTypeOK, Trust
    <2>2. PinsOK'
      <3> SUFFICES ASSUME ~pinsLost
                   PROVE  \A a \in Addrs : \A k \in trusted'[a] :
                            a \in DOMAIN pinFile' /\ k = pinFile'[a]
        BY <1>3, <1>4 DEF PinsOK
      <3>1. entries = pinFile
        BY DEF KInv, PinsOK
      <3>2. trusted[addr] = {}
        BY <1>4, <3>1 DEF KInv, PinsOK
      <3>3. trusted'[addr] = {key}
        BY <1>4, <3>2 DEF KInv, HostKeyTypeOK, Trust
      <3>4. \A a \in Addrs \ {addr} : trusted'[a] = trusted[a]
        BY <1>4 DEF KInv, HostKeyTypeOK, Trust
      <3> QED
        BY <1>3, <1>4, <3>1, <3>3, <3>4 DEF KInv, PinsOK
    <2> QED
      BY <1>1, <2>1, <2>2 DEF KInv
  <1>5. CASE /\ entries' = Pinned(addr, key)
             /\ pinFile' \in {pinFile, Unreadable}
             /\ pinsLost' = TRUE
             /\ UNCHANGED trusted
    BY <1>1, <1>2, <1>3, <1>5 DEF KInv, HostKeyTypeOK, PinsOK
  <1>6. CASE /\ addr \in DOMAIN entries
             /\ entries[addr] = key
             /\ Trust(addr, key)
             /\ UNCHANGED <<entries, pinFile, pinsLost>>
    <2>1. HostKeyTypeOK'
      BY <1>2, <1>6 DEF KInv, HostKeyTypeOK, Trust
    <2>2. trusted' = [trusted EXCEPT ![addr] = trusted[addr] \cup {key}]
      BY <1>6 DEF Trust
    <2>3. PinsOK'
      BY <1>2, <1>6, <2>2 DEF KInv, HostKeyTypeOK, PinsOK
    <2> QED
      BY <1>1, <2>1, <2>3 DEF KInv
  <1> QED
    BY <1>4, <1>5, <1>6 DEF Connect, key

LEMMA StartupKInv == KInv /\ [StartupNext]_startupVars => KInv'
  <1> SUFFICES ASSUME KInv, [StartupNext]_startupVars PROVE KInv'
    OBVIOUS
  <1>1. [Next]_vars
    BY StartupSettings DEF startupVars, vars
  <1>2. IInv'
    BY <1>1, NextIInv DEF KInv
  <1>3. CASE UNCHANGED <<keyVars, up>>
    BY <1>2, <1>3 DEF keyVars, KInv, HostKeyTypeOK, PinsOK
  <1>4. CASE Serve
    BY <1>2, <1>4, NoPinsIsPins, HostKeyAssumption
    DEF Serve, LoadPins, KInv, HostKeyTypeOK, PinsOK
  <1>5. CASE End
    <2>1. ForgetPins /\ up' = FALSE
      BY <1>5 DEF End, Stop
    <2> QED
      BY <1>2, <2>1, NoPinsIsPins DEF ForgetPins, KInv, HostKeyTypeOK, PinsOK
  <1>6. CASE PollerConnects
    <2>1. PICK id \in DOMAIN running : running[id].conn \in Addrs /\ Connect(running[id].conn)
      BY <1>6 DEF PollerConnects
    <2>2. up
      BY <2>1 DEF KInv, IInv, TypeOK, NoList
    <2>3. UNCHANGED vars
      BY <1>6 DEF PollerConnects
    <2> QED
      BY <2>1, <2>2, <2>3, ConnectKeeps
  <1>7. CASE DeviceRekeyed
    BY <1>2, <1>7, HostKeyAssumption
    DEF DeviceRekeyed, Rekey, KInv, HostKeyTypeOK, PinsOK, vars
  <1>8. CASE SettingsStep
    <2>1. up' = up
      BY <1>8
      DEF SettingsStep, Updater, AddFirewall, EditFirewall, RemoveFirewall,
          SetSourceEnabled, ReloadAfterUpdate, ClearHistory, RestartAll, UpdateFrame
    <2> QED
      BY <1>3, <1>8, <2>1 DEF SettingsStep, SettingsFrame, keyVars
  <1>9. CASE \/ BeginStart \/ OpenFails
            \/ \E p \in Programs : OpenDatabase(p)
            \/ \E q \in Programs \ {Self} : OtherProgram(q)
    <2>1. UNCHANGED <<vars, keyVars>>
      BY <1>9 DEF BeginStart, OpenFails, OpenDatabase, OtherProgram
    <2> QED
      BY <1>3, <2>1 DEF vars
  <1>10. CASE UNCHANGED startupVars
    BY <1>3, <1>10 DEF startupVars, vars
  <1> QED
    BY <1>4, <1>5, <1>6, <1>7, <1>8, <1>9, <1>10 DEF StartupNext

LEMMA StartKInv == StartupInit => KInv
  <1> SUFFICES ASSUME Init, HostKeyInit PROVE KInv
    BY DEF StartupInit
  <1>1. HostKeyTypeOK
    <2>1. 1 \in 1 .. MaxKeys
      BY HostKeyAssumption
    <2>2. device \in [Addrs -> 1 .. MaxKeys] /\ trusted \in [Addrs -> SUBSET (1 .. MaxKeys)]
      BY <2>1 DEF HostKeyInit
    <2> QED
      BY <2>2, NoPinsIsPins DEF HostKeyInit, HostKeyTypeOK
  <1>2. PinsOK
    BY NoPinsIsPins DEF HostKeyInit, PinsOK
  <1> QED
    BY <1>1, <1>2, InitIInv DEF KInv

(* The password of a firewall is sent under one host key only, whatever answers
   at its address and however often the process ends, unless a save of the
   pins failed. *)
THEOREM OneKeyForEach == StartupSpec => []OneKeyTrusted
  <1>1. StartupInit => KInv
    BY StartKInv
  <1>2. KInv => OneKeyTrusted
    <2> SUFFICES ASSUME KInv, ~pinsLost, NEW addr \in Addrs
                 PROVE  Cardinality(trusted[addr]) <= 1
      BY DEF OneKeyTrusted
    <2>1. trusted[addr] \subseteq {pinFile[addr]}
      BY DEF KInv, PinsOK
    <2>2. IsFiniteSet({pinFile[addr]}) /\ Cardinality({pinFile[addr]}) = 1
      BY FS_Singleton
    <2> QED
      BY <2>1, <2>2, FS_Subset
  <1> QED
    BY <1>1, <1>2, StartupKInv, PTL DEF StartupSpec

-----------------------------------------------------------------------------
(* The types of the whole. *)

(* Requests are served, and pollers run, only while the database is open. *)
ServesOpened == up => stage[Self] = "open"

LEMMA StartupServes == KInv /\ MInv /\ ServesOpened /\ [StartupNext]_startupVars => ServesOpened'
  <1> SUFFICES ASSUME KInv, MInv, ServesOpened, [StartupNext]_startupVars
               PROVE  ServesOpened'
    OBVIOUS
  <1>1. stage \in [Programs -> Stages]
    BY DEF MInv, MigrationTypeOK
  <1>2. CASE UNCHANGED <<vars, stage>> \/ UNCHANGED startupVars
    BY <1>2 DEF ServesOpened, vars, startupVars, migrationVars
  <1>3. CASE BeginStart \/ OpenDatabase(Self)
    <2>1. stage[Self] # "open"
      BY <1>3 DEF BeginStart, OpenDatabase, Launch, Open, Check, Apply, Record, Commit, Refused
    <2> QED
      BY <1>3, <2>1 DEF BeginStart, OpenDatabase, ServesOpened, vars
  <1>4. CASE \E p \in Programs \ {Self} : OpenDatabase(p) \/ OtherProgram(p)
    <2>1. PICK p \in Programs \ {Self} : OpenDatabase(p) \/ OtherProgram(p)
      BY <1>4
    <2>2. stage'[Self] = stage[Self] /\ up' = up
      BY <1>1, <2>1, StartupAssumption
      DEF OpenDatabase, OtherProgram, Launch, Leave, Open, Check, Apply, Record, Commit,
          GoToStage, vars
    <2> QED
      BY <2>2 DEF ServesOpened
  <1>5. CASE Serve
    BY <1>5 DEF Serve, ServesOpened, migrationVars
  <1>6. CASE OpenFails \/ End
    BY <1>6 DEF OpenFails, End, Stop, ServesOpened, vars
  <1>7. CASE SettingsStep
    <2>1. up' = up
      BY <1>7
      DEF SettingsStep, Updater, AddFirewall, EditFirewall, RemoveFirewall,
          SetSourceEnabled, ReloadAfterUpdate, ClearHistory, RestartAll, UpdateFrame
    <2> QED
      BY <1>7, <2>1 DEF SettingsStep, SettingsFrame, ServesOpened, migrationVars
  <1>8. CASE PollerConnects \/ DeviceRekeyed
    BY <1>2, <1>8 DEF PollerConnects, DeviceRekeyed, migrationVars
  <1> QED
    BY <1>2, <1>3, <1>4, <1>5, <1>6, <1>7, <1>8 DEF StartupNext

(* The parts of the process have their types, and it serves requests only with
   the database open and fully migrated. *)
THEOREM StartupTypeCorrect == StartupSpec => []StartupTypeOK
  <1>1. StartupInit => KInv /\ MInv /\ ServesOpened
    BY MigrationStart, StartKInv DEF StartupInit, Init, ServesOpened
  <1>2. KInv /\ MInv /\ ServesOpened => StartupTypeOK
    BY DEF KInv, IInv, MInv, ServesOpened, StartupTypeOK
  <1> QED
    BY <1>1, <1>2, StartupKInv, StartupMInv, StartupServes, PTL DEF StartupSpec
=============================================================================
