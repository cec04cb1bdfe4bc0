------------------------------ MODULE Settings ------------------------------
(***************************************************************************)
(* The Settings page: the configuration file, its holder in memory         *)
(* (config.Store), the poller Manager's set of running pollers and the     *)
(* `firewalls' table.  A handler that adds, edits or removes a firewall    *)
(* makes two calls, Store.Update and then Manager.Reload with the list     *)
(* that Update returned, each under a mutex of its own; other requests     *)
(* come in between.  Clear database makes a call of the store (see         *)
(* FlowTracking) and then Manager.RestartAll.                              *)
(*                                                                         *)
(* Abstractions.  What Manager compares to see whether a poller must be    *)
(* restarted (host, port, user, password, poll interval) is one value, the *)
(* `conn' of a firewall.  Requests that a handler answers with an error    *)
(* before it changes anything are left out.                                *)
(***************************************************************************)
EXTENDS FiniteSets, Functions

CONSTANTS
    Ids,            \* firewall ids
    Names, Conns,   \* what a firewall's entry says
    Sources,        \* enrichment sources
    Updaters,       \* requests that may be under way at the same time
    Clearers,       \* uses of Clear database that may be
    Idle,           \* the updater waits for nothing
    Nothing,        \* no configuration file, or an empty one
    Garbled,        \* a file that does not parse
    SavesMayFail,   \* may writing the file fail?
    SavesMayTear,   \* may a failed or interrupted write damage the file?
    Refusable,      \* ids for which the store may refuse SyncFirewall
    MayCrash        \* may the process end and be started again?

VARIABLES
    up,        \* is the process running?
    file,      \* config.yaml: Nothing, Garbled or [fws, sources]
    memory,    \* config.Store.cfg
    want,      \* updater |-> the list it is about to give to Reload
    clearing,  \* Clear database requests between their two calls
    running,   \* Manager.running: id |-> the entry the poller was started with
    table,     \* the firewalls table: id |-> what it says of the firewall
    refused    \* observer: ids whose last start the store refused

managerVars == <<running, table, refused>>
vars == <<up, file, memory, want, clearing, managerVars>>

Entry == [name : Names, conn : Conns]

(* The lists of configured firewalls: id |-> entry. *)
Lists == UNION {[ids -> Entry] : ids \in SUBSET Ids}

NoList == [id \in {} |-> {}]

(* f, and g where f says nothing: f @@ g of TLC, which no prover expands. *)
Over(f, g) ==
    [id \in DOMAIN f \cup DOMAIN g |-> IF id \in DOMAIN f THEN f[id] ELSE g[id]]

(* What a configuration file that parses says. *)
Contents == [fws : Lists, sources : SUBSET Sources]

ASSUME SettingsConstants ==
    /\ {SavesMayFail, SavesMayTear, MayCrash} \subseteq BOOLEAN
    /\ Refusable \subseteq Ids
    /\ Idle \notin Lists
    /\ Nothing # Garbled
    /\ Nothing \notin Contents
    /\ Garbled \notin Contents

(* `made' says whether EnabledSources is a map yet, rather than nil. *)
EmptyConfig == [fws |-> NoList, sources |-> {}, made |-> FALSE]

-----------------------------------------------------------------------------
(* config.Store                                                            *)

OnDisk(cfg) == [fws |-> cfg.fws, sources |-> cfg.sources]

(* A file that was written has an entry for EnabledSources, so that a map is
   made when it is read. *)
Load(content) ==
    IF content = Nothing THEN EmptyConfig
    ELSE [fws |-> content.fws, sources |-> content.sources, made |-> TRUE]

(* What os.WriteFile, which truncates the file first, may leave. *)
Damage == IF SavesMayTear THEN {Nothing, Garbled} ELSE {}

Saved(next) ==
    /\ memory' = next
    /\ file' = OnDisk(next)

SaveFails ==
    /\ SavesMayFail
    /\ file' \in {file} \cup Damage

(* Bug: the copy of the configuration shares its slice of firewalls. *)
UpdateFirewalls_SharedSlice(u, fws) ==
    LET next == [memory EXCEPT !.fws = fws] IN
      \/ Saved(next) /\ want' = [want EXCEPT ![u] = fws]
      \/ SaveFails /\ memory' = next /\ UNCHANGED want

(* Update by a handler that goes on to Reload: all or nothing in memory. *)
UpdateFirewalls(u, fws) ==
    LET next == [memory EXCEPT !.fws = fws] IN
      \/ Saved(next) /\ want' = [want EXCEPT ![u] = fws]
      \/ SaveFails /\ UNCHANGED <<memory, want>>

-----------------------------------------------------------------------------
(* Handlers: the first call                                                *)

Accepts(u) == up /\ want[u] = Idle

UpdateFrame == UNCHANGED <<up, clearing, managerVars>>

AddFirewall(u) ==
    /\ Accepts(u)
    /\ \E id \in Ids \ DOMAIN memory.fws, entry \in Entry :
         UpdateFirewalls(u, Over([i \in {id} |-> entry], memory.fws))
    /\ UpdateFrame

EditFirewall(u) ==
    /\ Accepts(u)
    /\ \E id \in DOMAIN memory.fws, entry \in Entry :
         UpdateFirewalls(u, [memory.fws EXCEPT ![id] = entry])
    /\ UpdateFrame

RemoveFirewall(u) ==
    /\ Accepts(u)
    /\ \E id \in DOMAIN memory.fws :
         UpdateFirewalls(u, Restrict(memory.fws, DOMAIN memory.fws \ {id}))
    /\ UpdateFrame

(* The copy that Update gives to a handler shares the map EnabledSources with
   the current configuration once there is one, so that a failed save leaves
   the switch turned in memory. *)
SetSourceEnabled(u) ==
    /\ Accepts(u)
    /\ \E source \in Sources, enabled \in BOOLEAN :
         LET switched == IF enabled THEN memory.sources \cup {source}
                                    ELSE memory.sources \ {source}
         IN  \/ Saved([memory EXCEPT !.sources = switched, !.made = TRUE])
             \/ /\ SaveFails
                /\ memory' = IF memory.made THEN [memory EXCEPT !.sources = switched]
                                            ELSE memory
    /\ UNCHANGED want
    /\ UpdateFrame

(* Store.ClearAllHistory leaves the firewalls table alone. *)
ClearHistory(c) ==
    /\ up
    /\ c \notin clearing
    /\ clearing' = clearing \cup {c}
    /\ UNCHANGED <<up, file, memory, want, managerVars>>

-----------------------------------------------------------------------------
(* poller.Manager: the second call                                         *)

(* Bug: the connection details are not compared. *)
Kept_Always(target) == DOMAIN running \cap DOMAIN target

(* The pollers that Reload neither stops nor restarts. *)
Kept(target) ==
    {id \in DOMAIN running \cap DOMAIN target : running[id].conn = target[id].conn}

(* The sets of firewalls the store may refuse to register. *)
Refusals(ids) == SUBSET (ids \cap Refusable)

(* Bug: ON CONFLICT DO NOTHING. *)
SyncFirewalls_InsertOnly(entries) == table' = Over(table, entries)

(* INSERT ... ON CONFLICT DO UPDATE *)
SyncFirewalls(entries) == table' = Over(entries, table)

(* startLocked for each entry; a refused firewall is logged and not polled. *)
StartPollers(kept, entries) ==
    \E some \in Refusals(DOMAIN entries) :
      LET started == Restrict(entries, DOMAIN entries \ some) IN
        /\ running' = Over(started, Restrict(running, kept))
        /\ SyncFirewalls(started)
        /\ refused' = (refused \ DOMAIN entries) \cup some

(* Bug: a poller that was stopped because its connection changed is not
   started again. *)
Reload_StopsOnly(target) ==
    StartPollers(Kept(target), Restrict(target, DOMAIN target \ DOMAIN running))

Reload(target) ==
    StartPollers(Kept(target), Restrict(target, DOMAIN target \ Kept(target)))

ReloadAfterUpdate(u) ==
    /\ want[u] # Idle
    /\ Reload(want[u])
    /\ want' = [want EXCEPT ![u] = Idle]
    /\ UNCHANGED <<up, file, memory, clearing>>

(* Every poller is started again with the entry it was started with. *)
RestartAll(c) ==
    /\ c \in clearing
    /\ StartPollers({}, running)
    /\ clearing' = clearing \ {c}
    /\ UNCHANGED <<up, file, memory, want>>

-----------------------------------------------------------------------------
(* The process                                                             *)

(* appserver.New: a file that does not parse ends the process. *)
Start ==
    /\ ~up
    /\ file # Garbled
    /\ up' = TRUE
    /\ memory' = Load(file)
    /\ Reload(memory'.fws)
    /\ UNCHANGED <<file, want, clearing>>

(* The end of the process, by App.Close or by itself, perhaps in a Save. *)
Stop ==
    /\ MayCrash
    /\ up
    /\ up' = FALSE
    /\ file' \in {file} \cup Damage
    /\ memory' = EmptyConfig
    /\ want' = [u \in Updaters |-> Idle]
    /\ clearing' = {}
    /\ running' = NoList
    /\ refused' = {}
    /\ UNCHANGED table

Init ==
    /\ up = FALSE
    /\ file = Nothing
    /\ memory = EmptyConfig
    /\ want = [u \in Updaters |-> Idle]
    /\ clearing = {}
    /\ running = NoList
    /\ table = NoList
    /\ refused = {}

Updater(u) ==
    \/ AddFirewall(u) \/ EditFirewall(u) \/ RemoveFirewall(u) \/ SetSourceEnabled(u)
    \/ ReloadAfterUpdate(u)

Next ==
    \/ \E u \in Updaters : Updater(u)
    \/ \E c \in Clearers : ClearHistory(c) \/ RestartAll(c)
    \/ Start
    \/ Stop

Spec == Init /\ [][Next]_vars

-----------------------------------------------------------------------------

(* Types; and a process that is down has nothing in memory. *)
TypeOK ==
    /\ up \in BOOLEAN
    /\ file \in {Nothing, Garbled} \cup Contents
    /\ memory \in [fws : Lists, sources : SUBSET Sources, made : BOOLEAN]
    /\ want \in [Updaters -> Lists \cup {Idle}]
    /\ clearing \subseteq Clearers
    /\ {running, table} \subseteq Lists
    /\ refused \subseteq Ids
    /\ ~up => running = NoList /\ clearing = {} /\ want = [u \in Updaters |-> Idle]

(* Nothing is between its two calls. *)
Settled == up /\ clearing = {} /\ \A u \in Updaters : want[u] = Idle

(* A firewall list that handlers and pollers are given is the one on disk,
   after failed saves too: Update works on a copy of the list and commits it
   last. *)
FirewallsPersisted == up => file # Garbled /\ memory.fws = Load(file).fws

(* A poller that runs when no request is under way is of a configured firewall
   and uses its present address and credentials, even if the store refuses to
   register firewalls: a removed firewall is not polled, nor is an old
   password used, after a clear or after restarts. *)
NoStalePoller ==
    Settled => \A id \in DOMAIN running :
                 id \in DOMAIN memory.fws /\ running[id].conn = memory.fws[id].conn

(* The other half of what the comment of Manager says, that changes of the
   settings take effect without a restart: every configured firewall is polled
   when no request is under way, but for those whose poller the store refused to
   let start: that poller has been stopped, and nothing tries again before the
   next Reload. *)
EveryFirewallPolled == Settled => DOMAIN memory.fws \ refused \subseteq DOMAIN running

(* The row of a configured firewall, which the dashboard shows, has its
   present address, under the same condition. *)
RowsAsConfigured ==
    Settled => \A id \in DOMAIN memory.fws \ refused :
                 id \in DOMAIN table /\ table[id].conn = memory.fws[id].conn

-----------------------------------------------------------------------------
(* What comments say and the code does not keep: TLC refutes each of these *)
(* (README, Departures).                                                   *)

(* What the comment of config.Store says: whatever fails, the configuration in
   memory and the file never disagree. *)
MemoryMatchesFile == up => file # Garbled /\ OnDisk(memory) = OnDisk(Load(file))

(* What the comment of SyncFirewall says: the row has the firewall's present
   name. *)
NamesAsConfigured ==
    Settled => \A id \in DOMAIN memory.fws :
                 id \in DOMAIN table => table[id].name = memory.fws[id].name
=============================================================================
