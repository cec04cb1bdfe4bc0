------------------------------ MODULE HostKeys ------------------------------
(***************************************************************************)
(* Trust on first use: TrustedHostKeyCallback of internal/sshclient.  The  *)
(* pinned keys are read from known_hosts.json once, when the process       *)
(* starts, and the whole map is written back whenever an address is        *)
(* connected to for the first time.                                        *)
(*                                                                         *)
(* Abstractions.  A host key is one value (its type and encoding), numbered *)
(* in the order a device has them.  The callback runs under the store's    *)
(* mutex and is one step.                                                  *)
(***************************************************************************)
EXTENDS Integers, FiniteSets

CONSTANTS
    Addrs,            \* addresses of devices
    Unreadable,       \* known_hosts.json when it does not parse
    KeySavesMayFail,  \* may writing known_hosts.json fail, or be cut off?
    MaxKeys           \* bound: keys a device has, one after the other

Pins == UNION {[addrs -> 1 .. MaxKeys] : addrs \in SUBSET Addrs}

ASSUME HostKeyAssumption ==
    /\ KeySavesMayFail \in BOOLEAN
    /\ MaxKeys \in Nat \ {0}
    /\ Unreadable \notin Pins

VARIABLES
    device,     \* address |-> the key the device presents
    pinFile,    \* known_hosts.json: address |-> key, or Unreadable
    entries,    \* hostKeyStore.entries: address |-> key
    trusted,    \* observer: address |-> keys a password was sent under
    pinsLost    \* observer: has a save failed, or the file been damaged?

keyVars == <<device, pinFile, entries, trusted, pinsLost>>

NoPins == [addr \in {} |-> {}]

(* loadHostKeyStore: a file that is missing or does not parse is as good as an
   empty one. *)
LoadPins ==
    /\ entries' = IF pinFile = Unreadable THEN NoPins ELSE pinFile
    /\ UNCHANGED <<device, pinFile, trusted, pinsLost>>

Pinned(addr, key) ==
    [a \in DOMAIN entries \cup {addr} |-> IF a = addr THEN key ELSE entries[a]]

Trust(addr, key) == trusted' = [trusted EXCEPT ![addr] = @ \cup {key}]

(* Bug: keys are kept in memory only. *)
Connect_NoSave(addr) ==
    LET key == device[addr] IN
      /\ entries' = Pinned(addr, key)
      /\ addr \in DOMAIN entries => entries[addr] = key
      /\ Trust(addr, key)
      /\ UNCHANGED <<pinFile, pinsLost, device>>

(* A handshake: the callback takes a key that is new to the address, if it can
   save it, or the one on record.  A key that could not be saved is refused
   this time and taken the next, since it stays in the map. *)
Connect(addr) ==
    LET key == device[addr] IN
      /\ \/ /\ addr \notin DOMAIN entries
            /\ entries' = Pinned(addr, key)
            /\ \/ /\ pinFile' = entries'
                  /\ Trust(addr, key)
                  /\ UNCHANGED pinsLost
               \/ /\ KeySavesMayFail
                  /\ pinFile' \in {pinFile, Unreadable}
                  /\ pinsLost' = TRUE
                  /\ UNCHANGED trusted
         \/ /\ addr \in DOMAIN entries
            /\ entries[addr] = key
            /\ Trust(addr, key)
            /\ UNCHANGED <<entries, pinFile, pinsLost>>
      /\ UNCHANGED device

(* The device is replaced or rekeyed, or something else answers in its place. *)
Rekey(addr) ==
    /\ device[addr] < MaxKeys
    /\ device' = [device EXCEPT ![addr] = @ + 1]
    /\ UNCHANGED <<pinFile, entries, trusted, pinsLost>>

(* The process ends, perhaps in the save of a first connection. *)
ForgetPins ==
    /\ entries' = NoPins
    /\ \/ UNCHANGED <<pinFile, pinsLost>>
       \/ /\ KeySavesMayFail
          /\ Addrs \ DOMAIN entries # {}
          /\ pinFile' = Unreadable
          /\ pinsLost' = TRUE
    /\ UNCHANGED <<device, trusted>>

HostKeyInit ==
    /\ device = [addr \in Addrs |-> 1]
    /\ pinFile = NoPins
    /\ entries = NoPins
    /\ trusted = [addr \in Addrs |-> {}]
    /\ pinsLost = FALSE

-----------------------------------------------------------------------------

HostKeyTypeOK ==
    /\ device \in [Addrs -> 1 .. MaxKeys]
    /\ pinFile \in Pins \cup {Unreadable}
    /\ entries \in Pins
    /\ trusted \in [Addrs -> SUBSET (1 .. MaxKeys)]
    /\ pinsLost \in BOOLEAN

(* The password of a firewall goes to one host key only, across restarts of
   the process and whatever answers at its address later, as long as no save
   of known_hosts.json fails and no other process writes it: each process writes
   the pins it has in memory, those of another are lost (README, Departures). *)
OneKeyTrusted ==
    ~pinsLost => \A addr \in Addrs : Cardinality(trusted[addr]) <= 1
=============================================================================
