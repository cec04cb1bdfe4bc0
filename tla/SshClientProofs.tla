--------------------------- MODULE SshClientProofs ---------------------------
(***************************************************************************)
(* For any number of connections and chunks: the types, at most one        *)
(* connection, and that an answer is never another command's.  The last    *)
(* needs to know, at every place the poller can be, what is still on its   *)
(* way on the connection it uses.                                          *)
(***************************************************************************)
EXTENDS SshClient, FiniteSetTheorems, TLAPS

(* The chunks s are those of the answer to c that follow the first k. *)
Part(s, c, k) == \A i \in 1 .. Len(s) : k + i <= Length /\ s[i] = Answer(c)[k + i]

(* What has arrived, and what the device owes, is the rest of the answer to c
   after its first k chunks: something is left. *)
Rest(arrived, due, c, k) ==
    /\ k < Length
    /\ k + Len(arrived) + Len(due) = Length
    /\ Part(arrived, c, k)
    /\ Part(due, c, k + Len(arrived))

Quiet == incoming[conn] = <<>> /\ owed[conn] = <<>>

Coming(c, k) == Rest(incoming[conn], owed[conn], c, k)

(* On a connection whose shell is not open yet there is nothing, and on the
   connection in use there is: the rest of the greeting while the poller
   reads that; the rest of its own answer while it waits for it, or nothing if
   it wrote to a dropped connection; nothing between two commands. *)
Clean ==
    /\ pc = "setup" => incoming[fresh] = <<>> /\ owed[fresh] = <<>>
    /\ pc = "greet" => \E k \in 0 .. Length : Coming(0, k)
    /\ pc = "answer" => \/ acc = <<>> /\ Quiet
                        \/ Part(acc, command, 0) /\ Coming(command, Len(acc))
    /\ pc \notin {"greet", "answer"} /\ conn # NoConn => Quiet
    /\ OwnAnswer

IInv == TypeOK /\ open \subseteq {conn, fresh} /\ Clean

-----------------------------------------------------------------------------
(* The stream of one connection                                            *)

LEMMA AnswerType ==
    ASSUME NEW c \in Commands
    PROVE  /\ Answer(c) \in Seq(Chunk) /\ Len(Answer(c)) = Length
           /\ \A i \in 1 .. Length : /\ Answer(c)[i] \in Chunk
                                     /\ Answer(c)[i].prompt <=> i = Length
  <1>1. \A i \in 1 .. Length : [of |-> c, prompt |-> i = Length] \in Chunk
    BY DEF Chunk
  <1>2. Length \in Nat
    BY ClientConstants
  <1>3. Answer(c) \in [1 .. Length -> Chunk]
    BY <1>1 DEF Answer
  <1>4. Answer(c) \in Seq(Chunk) /\ Len(Answer(c)) = Length
    BY <1>2, <1>3
  <1>5. \A i \in 1 .. Length : Answer(c)[i].prompt <=> i = Length
    BY DEF Answer
  <1> QED
    BY <1>3, <1>4, <1>5

(* A command written to a quiet connection: its whole answer is due. *)
LEMMA Written ==
    ASSUME NEW c \in Commands
    PROVE  Rest(<<>>, Answer(c), c, 0)
  BY AnswerType, ClientConstants DEF Rest, Part

(* The device sends a chunk: the rest is the same. *)
LEMMA Sent ==
    ASSUME NEW c \in Commands, NEW k \in Nat, NEW arrived \in Seq(Chunk),
           NEW due \in Seq(Chunk), due # <<>>, Rest(arrived, due, c, k)
    PROVE  Rest(Append(arrived, Head(due)), Tail(due), c, k)
  <1> DEFINE more == Append(arrived, Head(due))
             less == Tail(due)
             n == Len(arrived)
  <1>1. n \in Nat /\ Len(due) \in Nat /\ Len(due) > 0
    OBVIOUS
  <1>2. /\ Len(more) = n + 1 /\ more[n + 1] = due[1]
        /\ \A i \in 1 .. n : more[i] = arrived[i]
    OBVIOUS
  <1>3. /\ Len(less) = Len(due) - 1
        /\ \A i \in 1 .. Len(less) : less[i] = due[i + 1]
    OBVIOUS
  <1> HIDE DEF more, less, n
  <1>4. /\ k < Length /\ k + n + Len(due) = Length
        /\ \A i \in 1 .. n : k + i <= Length /\ arrived[i] = Answer(c)[k + i]
        /\ \A i \in 1 .. Len(due) :
             (k + n) + i <= Length /\ due[i] = Answer(c)[(k + n) + i]
    BY DEF Rest, Part, n
  <1>5. Part(more, c, k)
    <2> SUFFICES ASSUME NEW i \in 1 .. n + 1
                 PROVE  k + i <= Length /\ more[i] = Answer(c)[k + i]
      BY <1>2 DEF Part
    <2>1. CASE i = n + 1
      <3>1. (k + n) + 1 <= Length /\ due[1] = Answer(c)[(k + n) + 1]
        BY <1>1, <1>4
      <3>2. (k + n) + 1 = k + i
        BY <1>1, <2>1
      <3> QED
        BY <1>2, <2>1, <3>1, <3>2
    <2>2. CASE i # n + 1
      BY <1>1, <1>2, <1>4, <2>2
    <2> QED
      BY <2>1, <2>2
  <1>6. Part(less, c, k + (n + 1))
    <2> SUFFICES ASSUME NEW i \in 1 .. Len(less)
                 PROVE  /\ (k + (n + 1)) + i <= Length
                        /\ less[i] = Answer(c)[(k + (n + 1)) + i]
      BY DEF Part
    <2>1. i + 1 \in 1 .. Len(due) /\ (k + n) + (i + 1) = (k + (n + 1)) + i
      BY <1>1, <1>3
    <2>2. (k + n) + (i + 1) <= Length /\ due[i + 1] = Answer(c)[(k + n) + (i + 1)]
      BY <1>4, <2>1
    <2> QED
      BY <1>3, <2>1, <2>2
  <1>7. k + Len(more) + Len(less) = Length
    BY <1>1, <1>2, <1>3, <1>4
  <1> QED
    BY <1>2, <1>4, <1>5, <1>6, <1>7 DEF Rest, more, less

(* The first chunk that arrived is the next one of the answer.  It ends with
   the prompt exactly if it is the last, and then nothing is left. *)
LEMMA Taken ==
    ASSUME NEW c \in Commands, NEW k \in Nat, NEW arrived \in Seq(Chunk),
           NEW due \in Seq(Chunk), arrived # <<>>, Rest(arrived, due, c, k)
    PROVE  /\ Head(arrived) = Answer(c)[k + 1]
           /\ Head(arrived).prompt <=> k + 1 = Length
           /\ ~Head(arrived).prompt => Rest(Tail(arrived), due, c, k + 1)
           /\ Head(arrived).prompt => Tail(arrived) = <<>> /\ due = <<>>
  <1> DEFINE less == Tail(arrived)
             n == Len(arrived)
  <1>1. n \in Nat /\ Len(due) \in Nat /\ n > 0 /\ Length \in Nat
    BY ClientConstants
  <1>2. /\ Len(less) = n - 1 /\ less \in Seq(Chunk) /\ Head(arrived) = arrived[1]
        /\ \A i \in 1 .. Len(less) : less[i] = arrived[i + 1]
    OBVIOUS
  <1> HIDE DEF less, n
  <1>3. /\ k < Length /\ k + n + Len(due) = Length
        /\ \A i \in 1 .. n : k + i <= Length /\ arrived[i] = Answer(c)[k + i]
        /\ Part(due, c, k + n)
    BY DEF Rest, Part, n
  <1>4. Head(arrived) = Answer(c)[k + 1]
    BY <1>1, <1>2, <1>3
  <1>5. Head(arrived).prompt <=> k + 1 = Length
    BY <1>1, <1>3, <1>4, AnswerType
  <1>6. ASSUME k + 1 # Length PROVE Rest(less, due, c, k + 1)
    <2>1. Part(less, c, k + 1)
      <3> SUFFICES ASSUME NEW i \in 1 .. Len(less)
                   PROVE  (k + 1) + i <= Length /\ less[i] = Answer(c)[(k + 1) + i]
        BY DEF Part
      <3>1. i + 1 \in 1 .. n /\ k + (i + 1) = (k + 1) + i
        BY <1>1, <1>2
      <3>2. k + (i + 1) <= Length /\ arrived[i + 1] = Answer(c)[k + (i + 1)]
        BY <1>3, <3>1
      <3> QED
        BY <1>2, <3>1, <3>2
    <2>2. k + n = (k + 1) + Len(less)
      BY <1>1, <1>2
    <2>3. k + 1 < Length /\ (k + 1) + Len(less) + Len(due) = Length
      <3>1. k < Length /\ k + n + Len(due) = Length /\ Len(less) = n - 1
        BY <1>2, <1>3
      <3> QED
        BY <1>1, <1>6, <3>1
    <2> QED
      BY <1>3, <2>1, <2>2, <2>3 DEF Rest
  <1>7. ASSUME k + 1 = Length PROVE less = <<>> /\ due = <<>>
    <2>1. Len(less) = 0 /\ Len(due) = 0
      BY <1>1, <1>2, <1>3, <1>7
    <2> QED
      BY <1>2, <2>1
  <1> QED
    BY <1>4, <1>5, <1>6, <1>7 DEF less

(* Read in full, a part is the answer. *)
LEMMA WholeAnswer ==
    ASSUME NEW c \in Commands, NEW s \in Seq(Chunk), Part(s, c, 0), Len(s) = Length
    PROVE  s = Answer(c)
  <1>1. \A i \in 1 .. Length : s[i] = Answer(c)[i]
    BY ClientConstants DEF Part
  <1> QED
    BY <1>1, AnswerType, ClientConstants

LEMMA Read ==
    ASSUME NEW c \in Commands, NEW s \in Seq(Chunk), NEW chunk \in Chunk,
           Part(s, c, 0), Len(s) < Length, chunk = Answer(c)[Len(s) + 1]
    PROVE  Part(Append(s, chunk), c, 0) /\ Append(s, chunk) \in Seq(Chunk)
           /\ Len(Append(s, chunk)) = Len(s) + 1
  <1>1. \A i \in 1 .. Len(s) : 0 + i <= Length /\ s[i] = Answer(c)[0 + i]
    BY DEF Part
  <1>2. /\ Len(Append(s, chunk)) = Len(s) + 1 /\ Append(s, chunk)[Len(s) + 1] = chunk
        /\ Append(s, chunk) \in Seq(Chunk) /\ Len(s) \in Nat
        /\ \A i \in 1 .. Len(s) : Append(s, chunk)[i] = s[i]
    OBVIOUS
  <1>3. ASSUME NEW i \in 1 .. Len(s) + 1
        PROVE  0 + i <= Length /\ Append(s, chunk)[i] = Answer(c)[0 + i]
    BY <1>1, <1>2, ClientConstants
  <1> QED
    BY <1>2, <1>3 DEF Part

-----------------------------------------------------------------------------
(* The steps                                                               *)

LEMMA InitIInv == Init => IInv
  <1> SUFFICES ASSUME Init PROVE IInv
    OBVIOUS
  <1>1. <<>> \in Seq(Chunk) /\ 0 \in Commands
    BY DEF Commands
  <1>2. TypeOK
    BY <1>1 DEF Init, TypeOK
  <1>3. open \subseteq {conn, fresh} /\ Clean
    BY DEF Init, Clean, OwnAnswer
  <1> QED
    BY <1>2, <1>3 DEF IInv

LEMMA NextCommand == \A c \in Commands : Next3(c) \in Commands
  BY DEF Next3, Commands

LEMMA NextType ==
    ASSUME TypeOK, [Next]_vars
    PROVE  TypeOK'
  <1> USE DEF TypeOK
  <1>1. CASE DeviceSends
    BY <1>1 DEF DeviceSends, clientVars, runVars
  <1>2. CASE DeviceDrops
    BY <1>2 DEF DeviceDrops, clientVars, runVars
  <1>3. CASE Lock
    BY <1>3 DEF Lock, deviceVars, runVars
  <1>4. CASE Dial
    <2>1. CASE Close /\ Fail /\ UNCHANGED <<fresh, deviceVars>>
      BY <1>4, <2>1 DEF Dial, Close, Fail, deviceVars, runVars
    <2>2. ASSUME NEW c \in Conns \ open, conn' = NoConn, fresh' = c,
                 open' = (open \ {conn}) \cup {c}, dropped' = dropped \ {c},
                 owed' = [owed EXCEPT ![c] = <<>>],
                 incoming' = [incoming EXCEPT ![c] = <<>>], pc' = "setup"
          PROVE  TypeOK'
      BY <1>4, <2>2, ClientConstants DEF Dial, runVars
    <2> QED
      BY <1>4, <2>1, <2>2 DEF Dial
  <1>14. CASE SetUp
    <2>1. Answer(0) \in Seq(Chunk)
      BY AnswerType DEF Commands
    <2> QED
      BY <1>14, <2>1, ClientConstants DEF SetUp, runVars
  <1>15. CASE SetUpFails
    BY <1>15 DEF SetUpFails, Fail, deviceVars, runVars
  <1>5. CASE Write
    <2>1. Answer(command) \in Seq(Chunk)
      BY AnswerType
    <2>2. /\ acc' = <<>> /\ UNCHANGED <<clientVars, dropped, incoming, command, second, stopping>>
          /\ pc = "write" /\ pc' \in {"answer", "dial", "failed"} /\ retried' \in BOOLEAN
      BY <1>5 DEF Write, Fail
    <2>3. owed' \in [Conns -> Seq(Chunk)]
      <3>1. CASE owed' = [owed EXCEPT ![conn] = @ \o Answer(command)]
        <4>1. conn \in Conns => owed[conn] \o Answer(command) \in Seq(Chunk)
          BY <2>1
        <4> QED
          BY <3>1, <4>1
      <3> QED
        BY <1>5, <3>1 DEF Write
    <2> QED
      BY <2>2, <2>3 DEF clientVars
  <1>6. CASE ReadChunk
    <2> DEFINE chunk == Head(incoming[conn])
    <2>1. conn \in Conns /\ chunk \in Chunk
      BY <1>6 DEF ReadChunk
    <2>2. acc' \in Seq(Chunk) /\ incoming' \in [Conns -> Seq(Chunk)]
      BY <1>6, <2>1 DEF ReadChunk
    <2>3. pc \in {"greet", "answer"} /\ pc' \in {pc, "write", "answered"}
      BY <1>6 DEF ReadChunk
    <2>4. UNCHANGED <<clientVars, dropped, owed, command, second, retried, stopping>>
      BY <1>6 DEF ReadChunk
    <2> QED
      BY <2>2, <2>3, <2>4 DEF clientVars
  <1>7. CASE GiveUp
    BY <1>7 DEF GiveUp, Close, Fail, deviceVars, runVars
  <1>8. CASE Returned
    <2>1. command' \in Commands
      BY <1>8, NextCommand DEF Returned
    <2>2. second' \in BOOLEAN /\ pc' \in {"lock", "wait"}
      BY <1>8 DEF Returned
    <2>3. /\ mutex' = "free" /\ acc' = <<>> /\ retried' = FALSE
          /\ UNCHANGED <<conn, fresh, open, dropped, owed, incoming, stopping>>
      BY <1>8 DEF Returned, deviceVars
    <2>4. second' \in BOOLEAN /\ retried' \in BOOLEAN
      BY <2>2, <2>3
    <2>5. {second, retried}' \subseteq BOOLEAN
      BY <2>4, Zenon
    <2>6. acc' \in Seq(Chunk)
      BY <2>3
    <2>7. {conn, fresh}' \subseteq open' \cup {NoConn} /\ pc # "setup" /\ pc' # "setup"
      BY <1>8, <2>2, <2>3 DEF Returned
    <2>8. fresh' = NoConn
      BY <2>3, <2>7
    <2> QED
      BY <2>1, <2>2, <2>3, <2>5, <2>6, <2>7, <2>8
  <1>9. CASE BeginPoll
    <2>1. command' \in Commands
      BY <1>9, NextCommand DEF BeginPoll
    <2> QED
      BY <1>9, <2>1 DEF BeginPoll, clientVars, deviceVars
  <1>10. CASE RunEnds
    BY <1>10 DEF RunEnds, clientVars, deviceVars, runVars
  <1>11. CASE Cancel
    BY <1>11 DEF Cancel, clientVars, deviceVars, runVars
  <1>12. CASE CloseClient
    BY <1>12 DEF CloseClient, Close, deviceVars, runVars
  <1>13. CASE UNCHANGED vars
    BY <1>13 DEF vars, clientVars, deviceVars, runVars
  <1> QED
    BY <1>1, <1>2, <1>3, <1>4, <1>5, <1>6, <1>7, <1>8, <1>9, <1>10, <1>11, <1>12,
       <1>13, <1>14, <1>15 DEF Next, Run

(* The client closes the connection it has before it takes another. *)
LEMMA NextOpen ==
    ASSUME TypeOK, open \subseteq {conn, fresh}, [Next]_vars
    PROVE  open' \subseteq {conn', fresh'}
  <1>1. /\ open \subseteq Conns /\ NoConn \notin Conns
        /\ pc # "setup" => fresh = NoConn
        /\ pc = "setup" => conn = NoConn
    BY ClientConstants DEF TypeOK
  <1>2. CASE Dial
    BY <1>1, <1>2 DEF Dial, Close
  <1>3. CASE SetUp \/ SetUpFails
    BY <1>1, <1>3 DEF SetUp, SetUpFails
  <1>4. CASE GiveUp \/ CloseClient
    BY <1>4 DEF GiveUp, CloseClient, Close
  <1>5. CASE ~(Dial \/ SetUp \/ SetUpFails \/ GiveUp \/ CloseClient)
    <2>1. UNCHANGED <<conn, fresh, open>>
      BY <1>5 DEF Next, Run, DeviceSends, DeviceDrops, Lock, Write, ReadChunk, Returned,
                  BeginPoll, RunEnds, Cancel, vars, clientVars
    <2> QED
      BY <2>1
  <1> QED
    BY <1>2, <1>3, <1>4, <1>5

(* What the device sends is the rest that was due. *)
LEMMA SendsClean ==
    ASSUME TypeOK, Clean, DeviceSends
    PROVE  Clean'
  <1>1. PICK c \in Conns :
           /\ Connected(c) /\ owed[c] # <<>>
           /\ owed' = [owed EXCEPT ![c] = Tail(@)]
           /\ incoming' = [incoming EXCEPT ![c] = Append(@, Head(owed[c]))]
    BY DEF DeviceSends
  <1>2. /\ UNCHANGED <<pc, conn, fresh, acc, command>>
        /\ owed \in [Conns -> Seq(Chunk)] /\ incoming \in [Conns -> Seq(Chunk)]
        /\ command \in Commands /\ acc \in Seq(Chunk) /\ 0 \in Commands
    BY DEF DeviceSends, TypeOK, clientVars, runVars, Commands
  <1>3. CASE c # conn
    <2>1. conn \in Conns => owed'[conn] = owed[conn] /\ incoming'[conn] = incoming[conn]
      BY <1>1, <1>2, <1>3
    <2>2. pc \in {"greet", "answer"} => conn \in Conns
      BY DEF TypeOK
    <2>3. conn = NoConn \/ conn \in Conns
      BY DEF TypeOK
    <2>4. pc = "setup" => incoming'[fresh] = <<>> /\ owed'[fresh] = <<>>
      <3>1. pc = "setup" => fresh # c /\ fresh \in Conns
        BY <1>1 DEF Clean, TypeOK
      <3> QED
        BY <1>1, <1>2, <3>1 DEF Clean
    <2> QED
      BY <1>2, <2>1, <2>2, <2>3, <2>4 DEF Clean, OwnAnswer, Quiet, Coming
  <1>4. CASE c = conn
    <2>1. conn # NoConn /\ ~Quiet
      BY <1>1, <1>4, ClientConstants DEF Quiet
    <2>2. owed'[conn] = Tail(owed[conn]) /\ incoming'[conn] = Append(incoming[conn], Head(owed[conn]))
      BY <1>1, <1>2, <1>4
    <2>3. ASSUME NEW k \in Nat, NEW d \in Commands, Coming(d, k)
          PROVE  Coming(d, k)'
      BY <1>1, <1>2, <1>4, <2>2, <2>3, Sent DEF Coming
    <2>4. CASE pc = "greet"
      <3>1. PICK k \in 0 .. Length : Coming(0, k)
        BY <2>4 DEF Clean
      <3>2. Coming(0, k)'
        BY <1>2, <2>3, <3>1
      <3> QED
        BY <1>2, <2>4, <3>2 DEF Clean, OwnAnswer
    <2>5. CASE pc = "answer"
      <3>1. Part(acc, command, 0) /\ Coming(command, Len(acc)) /\ Len(acc) \in Nat
        BY <1>2, <2>1, <2>5 DEF Clean
      <3>2. Coming(command, Len(acc))'
        BY <1>2, <2>3, <3>1 DEF Coming
      <3> QED
        BY <1>2, <2>5, <3>1, <3>2 DEF Clean, OwnAnswer
    <2> QED
      BY <2>1, <2>4, <2>5 DEF Clean
  <1> QED
    BY <1>3, <1>4

(* Reading takes the next chunk; the prompt is the end of all that was due. *)
LEMMA ReadsClean ==
    ASSUME TypeOK, Clean, ReadChunk
    PROVE  Clean'
  <1> DEFINE arrived == incoming[conn]
             due == owed[conn]
             chunk == Head(arrived)
  <1>1. /\ conn \in Conns /\ arrived \in Seq(Chunk) /\ due \in Seq(Chunk)
        /\ command \in Commands /\ 0 \in Commands /\ acc \in Seq(Chunk)
        /\ arrived # <<>> /\ chunk \in Chunk /\ Len(acc) \in Nat /\ Length \in Nat
    BY ClientConstants DEF ReadChunk, TypeOK, Commands
  <1>2. /\ UNCHANGED <<conn, owed, command>>
        /\ incoming'[conn] = Tail(arrived) /\ owed'[conn] = due
        /\ acc' = IF pc = "answer" THEN Append(acc, chunk) ELSE acc
        /\ pc' = IF ~chunk.prompt THEN pc
                 ELSE IF pc = "greet" THEN "write" ELSE "answered"
    BY <1>1 DEF ReadChunk, TypeOK, clientVars
  <1>3. ~Quiet /\ pc \in {"greet", "answer"}
    BY <1>1 DEF Quiet, ReadChunk
  <1> HIDE DEF arrived, due, chunk
  <1>4. CASE pc = "greet"
    <2>1. PICK k \in 0 .. Length : Rest(arrived, due, 0, k)
      BY <1>4 DEF Clean, Coming, arrived, due
    <2>2. /\ k + 1 \in 0 .. Length
          /\ chunk.prompt => Tail(arrived) = <<>> /\ due = <<>>
          /\ ~chunk.prompt => Rest(Tail(arrived), due, 0, k + 1)
      <3>1. k \in Nat /\ k < Length
        BY <2>1 DEF Rest
      <3> QED
        BY <1>1, <2>1, <3>1, Taken DEF chunk
    <2>3. CASE chunk.prompt
      <3>1. pc' = "write" /\ incoming'[conn'] = <<>> /\ owed'[conn'] = <<>>
        BY <1>2, <1>4, <2>2, <2>3
      <3> QED
        BY <3>1 DEF Clean, OwnAnswer, Quiet
    <2>4. CASE ~chunk.prompt
      <3>1. pc' = "greet" /\ Rest(incoming'[conn'], owed'[conn'], 0, k + 1)
        BY <1>2, <1>4, <2>2, <2>4
      <3> QED
        BY <2>2, <3>1 DEF Clean, OwnAnswer, Coming
    <2> QED
      BY <2>3, <2>4
  <1>5. CASE pc = "answer"
    <2> DEFINE k == Len(acc)
    <2>1. Part(acc, command, 0) /\ Rest(arrived, due, command, k)
      BY <1>3, <1>5 DEF Clean, Coming, arrived, due
    <2>2. /\ chunk = Answer(command)[k + 1]
          /\ chunk.prompt <=> k + 1 = Length
          /\ chunk.prompt => Tail(arrived) = <<>> /\ due = <<>>
          /\ ~chunk.prompt => Rest(Tail(arrived), due, command, k + 1)
      BY <1>1, <2>1, Taken DEF chunk
    <2>3. k < Length
      BY <2>1 DEF Rest
    <2>4. /\ Part(Append(acc, chunk), command, 0) /\ Append(acc, chunk) \in Seq(Chunk)
          /\ Len(Append(acc, chunk)) = k + 1
      <3> USE DEF k
      <3> QED
        BY <1>1, <2>1, <2>2, <2>3, Read
    <2>5. acc' = Append(acc, chunk)
      BY <1>2, <1>5
    <2>6. CASE chunk.prompt
      <3>1. acc' = Answer(command)
        <4>1. k + 1 = Length
          BY <2>2, <2>6
        <4> QED
          BY <1>1, <2>4, <2>5, <4>1, WholeAnswer
      <3> QED
        BY <1>2, <1>5, <2>2, <2>6, <3>1 DEF Clean, OwnAnswer, Quiet
    <2>7. CASE ~chunk.prompt
      <3>1. Part(acc', command', 0) /\ Rest(incoming'[conn'], owed'[conn'], command', Len(acc'))
        BY <1>2, <2>2, <2>4, <2>5, <2>7
      <3> QED
        BY <1>2, <1>5, <2>7, <3>1 DEF Clean, OwnAnswer, Coming
    <2> QED
      BY <2>6, <2>7
  <1> QED
    BY <1>3, <1>4, <1>5

(* A command is written to a connection with nothing left on it. *)
LEMMA WritesClean ==
    ASSUME TypeOK, Clean, Write
    PROVE  Clean'
  <1>1. conn \in Conns /\ Quiet /\ command \in Commands /\ pc = "write"
    BY ClientConstants DEF Write, TypeOK, Clean
  <1>2. acc' = <<>> /\ UNCHANGED <<conn, incoming, command>>
    BY DEF Write, clientVars
  <1>3. CASE UNCHANGED owed /\ pc' \in {"answer", "dial", "failed"}
    BY <1>1, <1>2, <1>3 DEF Clean, OwnAnswer, Quiet
  <1>4. CASE owed' = [owed EXCEPT ![conn] = @ \o Answer(command)] /\ pc' = "answer"
    <2>1. Answer(command) \in Seq(Chunk) /\ owed[conn] = <<>> /\ incoming'[conn] = <<>>
      BY <1>1, <1>2, AnswerType DEF Quiet
    <2>2. owed'[conn] = Answer(command)
      BY <1>1, <1>4, <2>1 DEF TypeOK
    <2>3. Rest(incoming'[conn'], owed'[conn'], command', Len(acc'))
      BY <1>1, <1>2, <2>1, <2>2, Written
    <2> QED
      BY <1>2, <1>4, <2>3 DEF Clean, OwnAnswer, Coming, Part
  <1> QED
    BY <1>3, <1>4 DEF Write, Fail

LEMMA NextClean ==
    ASSUME TypeOK, Clean, [Next]_vars
    PROVE  Clean'
  <1>1. CASE DeviceSends
    BY <1>1, SendsClean
  <1>2. CASE ReadChunk
    BY <1>2, ReadsClean
  <1>3. CASE Write
    BY <1>3, WritesClean
  <1>4. CASE Dial \/ SetUpFails
    <2>1. CASE conn' = NoConn /\ pc' = "failed"
      BY <2>1 DEF Clean, OwnAnswer
    <2>2. ASSUME NEW c \in Conns, conn' = NoConn, fresh' = c,
                 owed' = [owed EXCEPT ![c] = <<>>],
                 incoming' = [incoming EXCEPT ![c] = <<>>], pc' = "setup"
          PROVE  Clean'
      BY <2>2 DEF Clean, OwnAnswer, TypeOK
    <2>3. SetUpFails => conn' = NoConn /\ pc' = "failed"
      BY DEF SetUpFails, Fail, TypeOK
    <2> QED
      BY <1>4, <2>1, <2>2, <2>3 DEF Dial, Close, Fail
  <1>9. CASE SetUp
    <2>1. fresh \in Conns /\ incoming[fresh] = <<>>
      BY <1>9 DEF SetUp, TypeOK, Clean
    <2>2. /\ conn' = fresh /\ pc' = "greet" /\ 0 \in Commands
          /\ incoming'[conn'] = <<>> /\ owed'[conn'] = Answer(0)
      BY <1>9, <2>1 DEF SetUp, TypeOK, Commands
    <2>3. Rest(incoming'[conn'], owed'[conn'], 0, 0) /\ 0 \in 0 .. Length
      BY <2>2, Written, ClientConstants
    <2> QED
      BY <2>2, <2>3 DEF Clean, OwnAnswer, Coming
  <1>5. CASE GiveUp \/ CloseClient
    BY <1>5 DEF GiveUp, CloseClient, Close, Fail, TypeOK, Clean, OwnAnswer, deviceVars, runVars
  <1>6. CASE Lock \/ BeginPoll \/ RunEnds
    BY <1>6 DEF Lock, BeginPoll, RunEnds, Clean, OwnAnswer, Quiet, deviceVars, clientVars, runVars
  <1>7. CASE Returned
    BY <1>7 DEF Returned, Clean, OwnAnswer, Quiet, deviceVars
  <1>8. CASE DeviceDrops \/ Cancel \/ UNCHANGED vars
    BY <1>8 DEF DeviceDrops, Cancel, Clean, OwnAnswer, Quiet, Coming, vars, deviceVars,
                clientVars, runVars
  <1> QED
    BY <1>1, <1>2, <1>3, <1>4, <1>5, <1>6, <1>7, <1>8, <1>9 DEF Next, Run

LEMMA NextIInv == IInv /\ [Next]_vars => IInv'
  BY NextType, NextOpen, NextClean DEF IInv

LEMMA AlwaysIInv == Spec => []IInv
  BY InitIInv, NextIInv, PTL DEF Spec

-----------------------------------------------------------------------------

(* Run keeps the mutex to its end, and has a connection where it reads and
   writes. *)
THEOREM TypeCorrect == Spec => []TypeOK
  <1>1. IInv => TypeOK
    BY DEF IInv
  <1> QED
    BY <1>1, AlwaysIInv, PTL

(* Whatever times out, drops or is closed by the Manager, no second connection
   is ever open. *)
THEOREM OneConnectionSafe == Spec => []OneConnection
  <1>1. IInv => OneConnection
    <2> SUFFICES ASSUME IInv
                 PROVE  Cardinality(open) <= 1
      BY DEF OneConnection
    <2>1. conn = NoConn \/ fresh = NoConn
      BY DEF IInv, TypeOK
    <2>2. open \subseteq {conn, fresh} /\ NoConn \notin open
      BY ClientConstants DEF IInv, TypeOK
    <2>3. open = {} \/ \E c : open = {c}
      BY <2>1, <2>2
    <2>4. ASSUME NEW c PROVE Cardinality({c}) = 1
      BY FS_Singleton
    <2>5. CASE open = {}
      BY <2>5, FS_EmptySet
    <2>6. CASE \E c : open = {c}
      BY <2>4, <2>6
    <2> QED
      BY <2>3, <2>5, <2>6
  <1> QED
    BY <1>1, AlwaysIInv, PTL

(* An answer that Run returns is the whole answer to its own command, however
   late the device and in however many pieces. *)
THEOREM OwnAnswerSafe == Spec => []OwnAnswer
  <1>1. IInv => OwnAnswer
    BY DEF IInv, Clean
  <1> QED
    BY <1>1, AlwaysIInv, PTL

=============================================================================
