------------------------------ MODULE Startup ------------------------------
(***************************************************************************)
(* The process as appserver.New assembles it: the configuration is read,   *)
(* then the database opened and migrated, then the pinned host keys        *)
(* loaded, then a poller started for every configured firewall.  From then *)
(* on requests change the settings and pollers connect to their firewalls, *)
(* until the process ends; whoever started it starts it again.  Meanwhile  *)
(* the other program of the repository may open the same database.         *)
(*                                                                         *)
(* Settings, Migrations and HostKeys model the components; this module     *)
(* says in which order their steps may come.                               *)
(***************************************************************************)
EXTENDS Settings, Migrations, HostKeys

CONSTANTS
    Self,         \* the program of Settings and HostKeys
    MaxRestarts   \* bound: times a program ends, or fails to open the database

ASSUME StartupAssumption ==
    /\ Self \in Programs
    /\ Addrs \subseteq Conns
    /\ MaxRestarts \in Nat

VARIABLE restarts   \* use made of the bound

startupVars == <<vars, migrationVars, keyVars, restarts>>

Restarts ==
    /\ restarts < MaxRestarts
    /\ restarts' = restarts + 1

(* A file that does not parse ends the process before the database is opened. *)
BeginStart ==
    /\ file # Garbled
    /\ Launch(Self)
    /\ UNCHANGED <<vars, keyVars, restarts>>

OpenDatabase(p) ==
    /\ Open(p)
    /\ UNCHANGED <<vars, keyVars, restarts>>

(* store.Open has returned: keys, pollers, handlers. *)
Serve ==
    /\ stage[Self] = "open"
    /\ Start
    /\ LoadPins
    /\ UNCHANGED <<migrationVars, restarts>>

(* A statement of Open fails, or the process dies while it opens. *)
OpenFails ==
    /\ ~up
    /\ Leave(Self)
    /\ Restarts
    /\ UNCHANGED <<vars, keyVars>>

End ==
    /\ Stop
    /\ Leave(Self)
    /\ ForgetPins
    /\ Restarts

(* Once every migration is recorded the other program changes nothing here. *)
OtherProgram(p) ==
    /\ \/ Launch(p) /\ Len(applied) < Latest /\ UNCHANGED restarts
       \/ Leave(p) /\ Restarts
    /\ UNCHANGED <<vars, keyVars>>

SettingsFrame == UNCHANGED <<migrationVars, keyVars, restarts>>

SettingsStep ==
    /\ \/ \E u \in Updaters : Updater(u)
       \/ \E c \in Clearers : ClearHistory(c) \/ RestartAll(c)
    /\ SettingsFrame

(* The pollers of running firewalls connect; devices may change their keys. *)
PollerConnects ==
    /\ \E id \in DOMAIN running : running[id].conn \in Addrs /\ Connect(running[id].conn)
    /\ UNCHANGED <<vars, migrationVars, restarts>>

DeviceRekeyed ==
    /\ \E addr \in Addrs : Rekey(addr)
    /\ UNCHANGED <<vars, migrationVars, restarts>>

StartupInit == Init /\ MigrationInit /\ HostKeyInit /\ restarts = 0

StartupNext ==
    \/ BeginStart \/ OpenFails \/ Serve \/ End
    \/ \E p \in Programs : OpenDatabase(p)
    \/ \E p \in Programs \ {Self} : OtherProgram(p)
    \/ SettingsStep
    \/ PollerConnects
    \/ DeviceRekeyed

(* The process is started again when it has ended, each program goes on with
   what it is at, and a handler makes its second call. *)
StartupFairness ==
    /\ WF_startupVars(BeginStart)
    /\ WF_startupVars(Serve)
    /\ \A p \in Programs : WF_startupVars(OpenDatabase(p))
    /\ \A u \in Updaters : WF_startupVars(ReloadAfterUpdate(u) /\ SettingsFrame)
    /\ \A c \in Clearers : WF_startupVars(RestartAll(c) /\ SettingsFrame)

StartupSpec == StartupInit /\ [][StartupNext]_startupVars /\ StartupFairness

-----------------------------------------------------------------------------

(* The parts have their types, and requests are served only with the database
   open. *)
StartupTypeOK ==
    /\ TypeOK
    /\ MigrationTypeOK
    /\ HostKeyTypeOK
    /\ up => stage[Self] = "open"

(* Wherever the process was when it ended, in a migration that the other
   program may have been at as well, in a save or between the two calls of a
   request, it comes up again with every configured firewall polled that the
   store let start, as long as config.yaml is not damaged.  It relies on the
   second calls of the handlers to return: a Reload that stops a poller waits
   for its command in progress (SshClient, StopReturns). *)
PollsAgain == []<>(up /\ DOMAIN memory.fws \ refused = DOMAIN running)
=============================================================================
