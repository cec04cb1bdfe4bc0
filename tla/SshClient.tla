------------------------------ MODULE SshClient ------------------------------
(***************************************************************************)
(* The SSH client of one poller (internal/sshclient/client.go): a shell on *)
(* the device that stays open from command to command, used by             *)
(*   - the poller goroutine, whose pollOnce runs two commands, each under  *)
(*     the client's mutex from the write to the prompt that ends the       *)
(*     answer, or to a timeout;                                            *)
(*   - the poller Manager, whose stopLocked cancels the poller and closes  *)
(*     the client under the same mutex, once.                              *)
(* The device answers late or never, and may drop the connection.  It may  *)
(* also take a connection and stay silent before the shell is open, where  *)
(* the client waits without a time limit.                                  *)
(*                                                                         *)
(* Abstractions.  The reader goroutine and its channel are one queue per   *)
(* connection, `incoming'.  A chunk of output says which command it        *)
(* belongs to and whether it ends with the prompt.  Commands are numbered  *)
(* modulo 3, which tells apart all that can be in transit; the greeting of *)
(* a new shell answers command 0.                                          *)
(***************************************************************************)
EXTENDS Integers, Sequences, FiniteSets

CONSTANTS
    Conns,     \* identities of connections
    NoConn,    \* Client.conn is nil
    Length     \* chunks of an answer

ASSUME ClientConstants ==
    /\ NoConn \notin Conns
    /\ Length \in Nat \ {0}

VARIABLES
    mutex,     \* who holds Client.mu: "free" or "poller"
    conn,      \* Client.conn
    fresh,     \* the local conn of connect, until the shell is open
    open,      \* connections dialled and not closed by the client
    dropped,   \* those the device has given up
    owed,      \* connection |-> what the device has yet to send: chunks
    incoming,  \* connection |-> chunks that arrived and were not read
    pc,        \* where the poller is
    command,   \* number of the command it runs
    second,    \* is that the second of pollOnce's two commands?
    retried,   \* has its write failed once?
    acc,       \* chunks waitPrompt has read
    stopping   \* stopLocked: "no", "cancelled" (waiting for the mutex), "closed"

clientVars == <<mutex, conn, fresh, open>>
deviceVars == <<dropped, owed, incoming>>
runVars == <<command, second, retried, acc>>
vars == <<clientVars, deviceVars, pc, runVars, stopping>>

Commands == 0 .. 3
Chunk == [of : Commands, prompt : BOOLEAN]

(* The chunks that answer command c. *)
Answer(c) == [i \in 1 .. Length |-> [of |-> c, prompt |-> i = Length]]

-----------------------------------------------------------------------------
(* The device                                                              *)

Connected(c) == c \in open /\ c \notin dropped

DeviceSends ==
    /\ \E c \in Conns :
         /\ Connected(c)
         /\ owed[c] # <<>>
         /\ owed' = [owed EXCEPT ![c] = Tail(@)]
         /\ incoming' = [incoming EXCEPT ![c] = Append(@, Head(owed[c]))]
    /\ UNCHANGED <<clientVars, dropped, pc, runVars, stopping>>

DeviceDrops ==
    /\ \E c \in Conns : Connected(c) /\ dropped' = dropped \cup {c}
    /\ UNCHANGED <<clientVars, owed, incoming, pc, runVars, stopping>>

-----------------------------------------------------------------------------
(* Client.Run                                                              *)

(* closeLocked *)
Close == conn' = NoConn /\ open' = open \ {conn}

(* Run returns an error: pollOnce records it and is over. *)
Fail == pc' = "failed"

(* Bug: the second command relies on the connection of the first. *)
Lock_FirstChecks ==
    /\ pc = "lock"
    /\ mutex = "free"
    /\ mutex' = "poller"
    /\ pc' = IF conn = NoConn /\ ~second THEN "dial" ELSE "write"
    /\ UNCHANGED <<conn, fresh, open, deviceVars, runVars, stopping>>

(* Run: the mutex, then ensure. *)
Lock ==
    /\ pc = "lock"
    /\ mutex = "free"
    /\ mutex' = "poller"
    /\ pc' = IF conn = NoConn THEN "dial" ELSE "write"
    /\ UNCHANGED <<conn, fresh, open, deviceVars, runVars, stopping>>

(* connect: close what there is and dial, which ends within 12 s with an error
   or with a TCP connection. *)
Dial ==
    /\ pc = "dial"
    /\ \/ /\ Close
          /\ Fail
          /\ UNCHANGED <<fresh, deviceVars>>
       \/ \E c \in Conns \ open :
            /\ conn' = NoConn
            /\ fresh' = c
            /\ open' = (open \ {conn}) \cup {c}
            /\ dropped' = dropped \ {c}
            /\ owed' = [owed EXCEPT ![c] = <<>>]
            /\ incoming' = [incoming EXCEPT ![c] = <<>>]
            /\ pc' = "setup"
    /\ UNCHANGED <<mutex, runVars, stopping>>

(* The handshake of ssh.Dial, NewSession, RequestPty and Shell, none with a time
   limit (ClientConfig.Timeout is that of the TCP connect): the device has
   answered them all, and its shell greets. *)
SetUp ==
    /\ pc = "setup"
    /\ fresh \notin dropped
    /\ conn' = fresh
    /\ fresh' = NoConn
    /\ owed' = [owed EXCEPT ![fresh] = Answer(0)]
    /\ pc' = "greet"
    /\ UNCHANGED <<mutex, open, dropped, incoming, runVars, stopping>>

(* Bug: an error return of connect without conn.Close. *)
SetUpFails_LeavesOpen ==
    /\ pc = "setup"
    /\ fresh' = NoConn
    /\ Fail
    /\ UNCHANGED <<mutex, conn, open, deviceVars, runVars, stopping>>

(* One of them fails: the device refuses, or its connection is lost. *)
SetUpFails ==
    /\ pc = "setup"
    /\ open' = open \ {fresh}
    /\ fresh' = NoConn
    /\ Fail
    /\ UNCHANGED <<mutex, conn, deviceVars, runVars, stopping>>

(* The write of the command line reaches a connected device.  On a dropped
   connection it may still succeed, to no avail; after a first failure Run
   connects anew, after a second it returns and leaves the connection. *)
Write ==
    /\ pc = "write"
    /\ acc' = <<>>
    /\ \/ /\ Connected(conn)
          /\ owed' = [owed EXCEPT ![conn] = @ \o Answer(command)]
          /\ pc' = "answer"
          /\ UNCHANGED retried
       \/ /\ conn \in dropped
          /\ \/ pc' = "answer" /\ UNCHANGED retried
             \/ ~retried /\ pc' = "dial" /\ retried' = TRUE
             \/ retried /\ Fail /\ UNCHANGED retried
          /\ UNCHANGED owed
    /\ UNCHANGED <<clientVars, dropped, incoming, command, second, stopping>>

(* waitPrompt: the next chunk. *)
ReadChunk ==
    /\ pc \in {"greet", "answer"}
    /\ incoming[conn] # <<>>
    /\ LET chunk == Head(incoming[conn]) IN
         /\ incoming' = [incoming EXCEPT ![conn] = Tail(@)]
         /\ acc' = IF pc = "answer" THEN Append(acc, chunk) ELSE acc
         /\ pc' = IF ~chunk.prompt THEN pc
                  ELSE IF pc = "greet" THEN "write" ELSE "answered"
    /\ UNCHANGED <<clientVars, dropped, owed, command, second, retried, stopping>>

(* Bugs: the shell is kept for the next command; no time limit. *)
GiveUp_KeepsShell ==
    /\ pc \in {"greet", "answer"}
    /\ Fail
    /\ UNCHANGED <<clientVars, deviceVars, runVars, stopping>>

GiveUp_OnlyWhenDropped ==
    /\ pc \in {"greet", "answer"}
    /\ conn \in dropped /\ incoming[conn] = <<>>
    /\ Close
    /\ Fail
    /\ UNCHANGED <<mutex, fresh, deviceVars, runVars, stopping>>

(* waitPrompt times out, at any moment, or sees that the session ended once
   all that came has been read: the connection is closed. *)
GiveUp ==
    /\ pc \in {"greet", "answer"}
    /\ Close
    /\ Fail
    /\ UNCHANGED <<mutex, fresh, deviceVars, runVars, stopping>>

-----------------------------------------------------------------------------
(* Poller.pollOnce and the loop around it                                  *)

Next3(c) == (c % 3) + 1

(* The first command of a poll: of the one Run begins with, or when the ticker
   fires.  That may be after the context was cancelled (select takes either). *)
BeginPoll ==
    /\ pc = "wait"
    /\ pc' = "lock"
    /\ command' = Next3(command)
    /\ second' = FALSE
    /\ retried' = FALSE
    /\ UNCHANGED <<clientVars, deviceVars, acc, stopping>>

(* Run has returned and unlocked.  After the first answer pollOnce goes on to
   the second command, without a look at its context. *)
Returned ==
    /\ pc \in {"answered", "failed"}
    /\ mutex' = "free"
    /\ acc' = <<>>
    /\ retried' = FALSE
    /\ IF pc = "answered" /\ ~second
       THEN /\ pc' = "lock"
            /\ command' = Next3(command)
            /\ second' = TRUE
       ELSE /\ pc' = "wait"
            /\ UNCHANGED <<command, second>>
    /\ UNCHANGED <<conn, fresh, open, deviceVars, stopping>>

(* The goroutine ends, after one poll at least. *)
RunEnds ==
    /\ pc = "wait"
    /\ command # 0
    /\ stopping # "no"
    /\ pc' = "ended"
    /\ UNCHANGED <<clientVars, deviceVars, runVars, stopping>>

-----------------------------------------------------------------------------
(* Manager.stopLocked                                                      *)

Cancel ==
    /\ stopping = "no"
    /\ stopping' = "cancelled"
    /\ UNCHANGED <<clientVars, deviceVars, pc, runVars>>

CloseClient ==
    /\ stopping = "cancelled"
    /\ mutex = "free"
    /\ Close
    /\ stopping' = "closed"
    /\ UNCHANGED <<mutex, fresh, deviceVars, pc, runVars>>

-----------------------------------------------------------------------------

Init ==
    /\ mutex = "free"
    /\ conn = NoConn
    /\ fresh = NoConn
    /\ open = {}
    /\ dropped = {}
    /\ owed = [c \in Conns |-> <<>>]
    /\ incoming = [c \in Conns |-> <<>>]
    /\ pc = "wait"
    /\ command = 0
    /\ second = FALSE
    /\ retried = FALSE
    /\ acc = <<>>
    /\ stopping = "no"

Run == Lock \/ Dial \/ SetUp \/ SetUpFails \/ Write \/ ReadChunk \/ GiveUp \/ Returned

Next ==
    \/ DeviceSends \/ DeviceDrops
    \/ Run \/ BeginPoll \/ RunEnds
    \/ Cancel \/ CloseClient

Spec == Init /\ [][Next]_vars

(* Fairness: a command in progress goes on, its time limits included, except
   where it waits for the device without one: there it is sure to go on only
   once the connection is lost.  A waiting Close gets the mutex in the end (a Go
   mutex does not starve a waiter).  Nothing is assumed of the device. *)
Waits == pc = "setup" /\ fresh \notin dropped

FairSpec == Spec /\ WF_vars(~Waits /\ Run) /\ SF_vars(CloseClient)

-----------------------------------------------------------------------------

(* Types; the poller has the mutex exactly while it is inside Run, it has a
   connection where it reads and writes, and while a shell is set up that is the
   connection it is set up on and no other. *)
TypeOK ==
    /\ mutex \in {"free", "poller"}
    /\ {conn, fresh} \subseteq open \cup {NoConn}
    /\ open \subseteq Conns
    /\ dropped \subseteq Conns
    /\ owed \in [Conns -> Seq(Chunk)]
    /\ incoming \in [Conns -> Seq(Chunk)]
    /\ pc \in {"wait", "lock", "dial", "setup", "greet", "write", "answer",
               "answered", "failed", "ended"}
    /\ command \in Commands
    /\ {second, retried} \subseteq BOOLEAN
    /\ acc \in Seq(Chunk)
    /\ stopping \in {"no", "cancelled", "closed"}
    /\ mutex = "poller" <=> pc \notin {"wait", "lock", "ended"}
    /\ pc \in {"greet", "write", "answer"} => conn # NoConn
    /\ pc = "setup" => conn = NoConn
    /\ pc = "setup" <=> fresh # NoConn

(* What Run returns without an error is the whole answer to its own command
   and nothing else, whatever timed out or was cut off before: a late answer
   never becomes the listing of another command, whose sessions the poller
   would all close. *)
OwnAnswer == pc = "answered" => acc = Answer(command)

(* The client never has more than one connection open: timeouts, drops, failed
   set-ups and reconnections leave none behind on this side. *)
OneConnection == Cardinality(open) <= 1

(* A Reload that stops this poller comes back, although stopLocked waits for
   the command in progress with the Manager's mutex held, unless the device
   takes a connection, keeps it and leaves the handshake or the request for a
   shell unanswered for ever.  Nothing else the device does can hold it up. *)
StopReturns == <>[]Waits \/ (stopping = "cancelled" ~> stopping = "closed")

(* Without that condition the code does not keep it: Client.mu is held while
   connect waits without a time limit, so Close, and with it Manager.mu, waits as
   long (README, Departures). *)
StopAlwaysReturns == stopping = "cancelled" ~> stopping = "closed"

(* The comment of stopLocked: it closes the poller's SSH connection.  The code
   does not keep this: a poller that is between its two commands, or whose
   ticker fires once more, connects again, and nobody closes that (README,
   Departures). *)
ConnectionClosed ==
    stopping = "closed" /\ pc = "ended" => \A c \in Conns : ~Connected(c)
=============================================================================
