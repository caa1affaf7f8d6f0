------------------------------ MODULE Reactor ------------------------------
(***************************************************************************)
(* The network side of wcs: the IO thread (rptp/TcpServer.cc and           *)
(* PollPoller.cc), the connections and their buffered readers              *)
(* (TcpConnection.cc, Rio.cc), the callbacks of src/MyServer.cc and the    *)
(* tasks they hand to the pool, with clients and sockets as environment.   *)
(* The pool is what TaskDispatch says of it.                               *)
(*                                                                         *)
(* A client writes lines; a line is a text byte "w", which stands for any  *)
(* text, and a newline "n".  It may write them together or apart, shut its *)
(* writing side or close.  Sockets behave as TCP does: a close with unread *)
(* answers resets the connection, so does a write to a client that is      *)
(* gone; then recv fails unless a FIN came first, and every write fails.   *)
(*                                                                         *)
(* ERR_EXIT, an assertion or an exception ends the process: "down".  The   *)
(* revents of a slot that poll has not covered yet is uninitialized.       *)
(***************************************************************************)
EXTENDS Naturals, Sequences, FiniteSets, SequencesExt

CONSTANTS Clients,
          Patient,    \* those that wait for an answer before the next line
          Lines,      \* bound: how many lines each client writes
          Slots,      \* bound: POLL_EVENT_SIZE is at most Slots + 1
          QueueSize,  \* the pool: its queue
          PoolSize,   \*           and its threads
          SendBuffer  \* how many answers fit in a socket unread

ASSUME ReactorAssumption ==
    /\ IsFiniteSet(Clients)
    /\ Patient \subseteq Clients
    /\ Lines \in [Clients -> Nat]
    /\ {Slots, QueueSize, PoolSize, SendBuffer} \subseteq Nat \ {0}

VARIABLES peer,     \* where each client is
          fin,      \* whether its end of input is in its socket
          rst,      \* whether the connection was reset
          inbound,  \* the bytes in the socket
          answers,  \* all that was ever written to the client
          unread,   \* how many of those the client has not read
          backlog   \* the connections not accepted yet

VARIABLES slots,    \* event_[i].fd, 0 when unused
          revents,  \* event_[i].revents & POLLIN; 0 is the listening socket
          maxi,     \* maxi_
          itmap,    \* itmap_, from a descriptor to a connection
          fd,       \* the descriptor of each connection, 0 before accept
          buf,      \* what readline has read and not returned, rest included
          taken,    \* how many lines each connection has returned
          pc, at,   \* where the IO thread is, and the slot it is at
          down      \* "up", or what has ended the process

VARIABLES pending, running  \* the tasks of the pool

network == <<peer, fin, rst, inbound, answers, unread, backlog>>
poller == <<slots, revents, maxi, itmap, fd>>
reader == <<buf, taken>>
iothread == <<pc, at>>
tasks == <<pending, running>>
vars == <<network, poller, reader, iothread, down, tasks>>

\* A connection is named by its client; line 0 is the greeting.
Reply(c, n) == [conn |-> c, line |-> n]
Tasks == UNION {{Reply(c, n) : n \in 1..Lines[c]} : c \in Clients}

Pool == INSTANCE TaskDispatch

TypeOK ==
    /\ peer \in [Clients -> {"away", "here", "gone"}]
    /\ unread \in [Clients -> 0..SendBuffer]
    /\ \E n \in 1..Slots : slots \in [1..n -> 0..Cardinality(Clients)]
    /\ revents \in [{0} \cup DOMAIN slots -> BOOLEAN]
    /\ maxi \in {0} \cup DOMAIN slots
    /\ DOMAIN itmap \subseteq 1..Cardinality(Clients)
    /\ \A c \in Clients : taken[c] <= Lines[c]
    /\ pc \in {"poll", "accept", "data", "read", "submit"}
    /\ down \in {"up", "slots", "recv", "read", "word", "write"}
    /\ Len(pending) <= QueueSize
    /\ Cardinality(running) <= PoolSize

Init ==
    /\ peer = [c \in Clients |-> "away"]
    /\ fin = [c \in Clients |-> FALSE]
    /\ rst = [c \in Clients |-> FALSE]
    /\ inbound = [c \in Clients |-> <<>>]
    /\ answers = [c \in Clients |-> <<>>]
    /\ unread = [c \in Clients |-> 0]
    /\ backlog = <<>>
    /\ slots \in {[i \in 1..n |-> 0] : n \in 1..Slots}
    /\ revents \in {r \in [{0} \cup DOMAIN slots -> BOOLEAN] : ~r[0]}
    /\ maxi = 0
    /\ itmap = <<>>
    /\ fd = [c \in Clients |-> 0]
    /\ buf = [c \in Clients |-> <<>>]
    /\ taken = [c \in Clients |-> 0]
    /\ pc = "poll"
    /\ at = 0
    /\ down = "up"
    /\ Pool!DInit

-----------------------------------------------------------------------------
(* Descriptors.  A connection lives while the map or a task points to it,  *)
(* and its descriptor is open as long.                                     *)

(* Mutants: a descriptor closed at the close event, a close event that     *)
(* leaves the map alone, a new slot that poll is not told of, and a poll   *)
(* that covers one slot too many.                                          *)
HeldByMap(c) == c \in Range(itmap)
NoErase(f) == itmap
SameMaxi(i) == maxi
OnePast(i) == IF i >= maxi THEN i + 1 ELSE maxi

Held(c) ==
    \/ c \in Range(itmap)
    \/ \E t \in Pool!PendingSet \cup running : t.conn = c
Erased(f) == [g \in DOMAIN itmap \ {f} |-> itmap[g]]
Covering(i) == IF i > maxi THEN i ELSE maxi

Owners(f) == {c \in Clients : fd[c] = f /\ Held(c)}
FreeFd == Min({f \in 1..Cardinality(Clients) : Owners(f) = {}})
FreeSlots == {i \in DOMAIN slots : slots[i] = 0}

\* What poll and recv see of a socket.
AtEnd(c) == inbound[c] = <<>> /\ fin[c]
Failed(c) == inbound[c] = <<>> /\ ~fin[c] /\ rst[c]
Readable(c) == inbound[c] # <<>> \/ fin[c] \/ rst[c]

(* A mutant: a write to a full socket fails, as if it did not block.       *)
WriteUnlessFull(c, r) ==
    IF unread[c] < SendBuffer
    THEN /\ answers' = [answers EXCEPT ![c] = Append(@, r)]
         /\ unread' = [unread EXCEPT ![c] = @ + 1]
         /\ UNCHANGED <<rst, down>>
    ELSE down' = "write" /\ UNCHANGED <<rst, answers, unread>>

\* writen: it blocks on a full socket and fails on a reset one.  What a
\* client that is gone is sent brings back a reset, at once or later.
Write(c, r) ==
    \/ /\ rst[c]
       /\ down' = "write"
       /\ UNCHANGED <<rst, answers, unread>>
    \/ /\ ~rst[c]
       /\ peer[c] = "gone"
       /\ rst' \in {rst, [rst EXCEPT ![c] = TRUE]}
       /\ UNCHANGED <<answers, unread, down>>
    \/ /\ ~rst[c]
       /\ peer[c] = "here"
       /\ unread[c] < SendBuffer
       /\ answers' = [answers EXCEPT ![c] = Append(@, r)]
       /\ unread' = [unread EXCEPT ![c] = @ + 1]
       /\ UNCHANGED <<rst, down>>

-----------------------------------------------------------------------------
(* Clients.                                                                *)

Here(c) == down = "up" /\ peer[c] = "here"
Newlines(s) == Cardinality({i \in DOMAIN s : s[i] = "n"})
Unserved(c) == buf[c] \o inbound[c]
Sent(c) == taken[c] + Newlines(Unserved(c))
Begun(c) == Unserved(c) # <<>> /\ Last(Unserved(c)) = "w"
AllAnswered(c) == Len(answers[c]) = Sent(c) + 1 /\ unread[c] = 0

Connect(c) ==
    /\ down = "up"
    /\ peer[c] = "away"
    /\ peer' = [peer EXCEPT ![c] = "here"]
    /\ backlog' = Append(backlog, c)
    /\ UNCHANGED <<fin, rst, inbound, answers, unread, poller, reader,
                   iothread, down, tasks>>

SendBytes(c, bytes) ==
    /\ Here(c)
    /\ ~fin[c]
    /\ Sent(c) < Lines[c]
    /\ Begun(c) => bytes = <<"n">>
    /\ c \in Patient => Begun(c) \/ AllAnswered(c)
    /\ inbound' = [inbound EXCEPT ![c] = @ \o bytes]
    /\ UNCHANGED <<peer, fin, rst, answers, unread, backlog, poller, reader,
                   iothread, down, tasks>>

ShutdownWrite(c) ==
    /\ Here(c)
    /\ ~fin[c]
    /\ fin' = [fin EXCEPT ![c] = TRUE]
    /\ UNCHANGED <<peer, rst, inbound, answers, unread, backlog, poller,
                   reader, iothread, down, tasks>>

Close(c) ==
    /\ Here(c)
    /\ peer' = [peer EXCEPT ![c] = "gone"]
    /\ fin' = [fin EXCEPT ![c] = @ \/ unread[c] = 0]
    /\ rst' = [rst EXCEPT ![c] = unread[c] > 0]
    /\ UNCHANGED <<inbound, answers, unread, backlog, poller, reader,
                   iothread, down, tasks>>

ReadAnswers(c) ==
    /\ Here(c)
    /\ unread[c] > 0
    /\ unread' = [unread EXCEPT ![c] = 0]
    /\ UNCHANGED <<peer, fin, rst, inbound, answers, backlog, poller, reader,
                   iothread, down, tasks>>

Speak(c) ==
    \/ \E bytes \in {<<"w">>, <<"n">>, <<"w", "n">>} : SendBytes(c, bytes)
    \/ ShutdownWrite(c)

-----------------------------------------------------------------------------
(* The IO thread: poll, accept one client, then the slots in turn.         *)

At(place) == down = "up" /\ pc = place

\* A poll that times out changes nothing and is left out.
Poll ==
    LET seen == [i \in DOMAIN revents |->
                    IF i = 0 THEN backlog # <<>>
                    ELSE IF i > maxi THEN revents[i]
                    ELSE slots[i] # 0 /\ Readable(itmap[slots[i]])]
    IN  /\ At("poll")
        /\ \E i \in 0..maxi : seen[i]
        /\ revents' = seen
        /\ pc' = "accept"
        /\ UNCHANGED <<network, slots, maxi, itmap, fd, reader, at, down,
                       tasks>>

Accepting == At("accept") /\ revents[0]

NoAccept ==
    /\ At("accept")
    /\ ~revents[0]
    /\ pc' = "data"
    /\ at' = 1
    /\ UNCHANGED <<network, poller, reader, down, tasks>>

\* connectCallback
Greet(c) == Write(c, Reply(c, 0))

\* Slot, connection, map entry, then the callback.
HandleAccept ==
    LET c == Head(backlog)
        i == Min(FreeSlots)
        f == FreeFd
    IN  /\ Accepting
        /\ FreeSlots # {}
        /\ backlog' = Tail(backlog)
        /\ slots' = [slots EXCEPT ![i] = f]
        /\ maxi' = Covering(i)
        /\ fd' = [fd EXCEPT ![c] = f]
        /\ itmap' = [g \in DOMAIN itmap \cup {f} |->
                        IF g \in DOMAIN itmap THEN itmap[g] ELSE c]
        /\ Greet(c)
        /\ pc' = "data"
        /\ at' = 1
        /\ UNCHANGED <<peer, fin, inbound, revents, reader, tasks>>

TooManyClients ==
    /\ Accepting
    /\ FreeSlots = {}
    /\ down' = "slots"
    /\ UNCHANGED <<network, poller, reader, iothread, tasks>>

\* The slots of this round that are still to be handled.
Due == {i \in at..maxi : slots[i] # 0 /\ revents[i]}

EndRound ==
    /\ At("data")
    /\ Due = {}
    /\ pc' = "poll"
    /\ at' = 0
    /\ UNCHANGED <<network, poller, reader, down, tasks>>

\* The task of an earlier line may still hold the connection.
CloseSlot(i) ==
    /\ slots' = [slots EXCEPT ![i] = 0]
    /\ itmap' = Erased(slots[i])

\* The connection the map has for the slot is told to read.
HandleMessageEvent(i) ==
    /\ slots[i] \in DOMAIN itmap
    /\ pc' = "read"
    /\ at' = i
    /\ UNCHANGED <<slots, itmap, down>>

\* recv(MSG_PEEK) blocks while the socket has nothing to say.
HandleData ==
    LET i == Min(Due)
        c == itmap[slots[i]]
    IN  /\ At("data")
        /\ Due # {}
        /\ \/ /\ inbound[c] # <<>>
              /\ HandleMessageEvent(i)
           \/ /\ AtEnd(c)
              /\ CloseSlot(i)
              /\ at' = i + 1
              /\ UNCHANGED <<pc, down>>
           \/ /\ Failed(c)
              /\ down' = "recv"
              /\ UNCHANGED <<slots, itmap, iothread>>
        /\ UNCHANGED <<network, revents, maxi, fd, reader, tasks>>

-----------------------------------------------------------------------------
(* messageCallback: receive a line, trim it, hand it to the pool.          *)

Reading(c) == At("read") /\ c = itmap[slots[at]]
NoLine(c) == "n" \notin Range(buf[c])

Fill(c) ==
    /\ Reading(c)
    /\ NoLine(c)
    /\ inbound[c] # <<>>
    /\ buf' = [buf EXCEPT ![c] = @ \o inbound[c]]
    /\ inbound' = [inbound EXCEPT ![c] = <<>>]
    /\ UNCHANGED <<peer, fin, rst, answers, unread, backlog, poller, taken,
                   iothread, down, tasks>>

ReadError(c) ==
    /\ Reading(c)
    /\ NoLine(c)
    /\ Failed(c)
    /\ down' = "read"
    /\ UNCHANGED <<network, poller, reader, iothread, tasks>>

\* The first n bytes of the buffer are the line.
TakeLine(c, n) ==
    /\ buf' = [buf EXCEPT ![c] = SubSeq(@, n + 1, Len(@))]
    /\ taken' = [taken EXCEPT ![c] = @ + 1]
    /\ pc' = "submit"
    /\ UNCHANGED <<network, poller, at, down, tasks>>

\* word.size() - 2 wraps round for a single byte and substr throws.
OneByteLine ==
    /\ down' = "word"
    /\ UNCHANGED <<network, poller, reader, iothread, tasks>>

ReceiveLine(c) ==
    /\ Reading(c)
    /\ ~NoLine(c)
    /\ IF Head(buf[c]) = "n" THEN OneByteLine ELSE TakeLine(c, 2)

\* The end of the input ends the line; its text may be a single byte.
ReceiveRest(c) ==
    /\ Reading(c)
    /\ NoLine(c)
    /\ AtEnd(c)
    /\ TakeLine(c, Len(buf[c])) \/ OneByteLine

AddTask ==
    LET c == itmap[slots[at]]
    IN  /\ At("submit")
        /\ Pool!Submit(Reply(c, taken[c]))
        /\ pc' = "data"
        /\ at' = at + 1
        /\ UNCHANGED <<network, poller, reader, down>>

IoThread ==
    \/ Poll \/ NoAccept \/ HandleAccept \/ TooManyClients
    \/ EndRound \/ HandleData
    \/ \E c \in Clients :
          Fill(c) \/ ReadError(c) \/ ReceiveLine(c) \/ ReceiveRest(c)
    \/ AddTask

-----------------------------------------------------------------------------
(* The pool.  compute writes to a descriptor: whoever owns it gets the     *)
(* answer.  Then the task ends and lets its connection go.                 *)

StartTask ==
    /\ down = "up"
    /\ Pool!Dispatch
    /\ UNCHANGED <<network, poller, reader, iothread, down>>

Compute(t) ==
    /\ down = "up"
    /\ Pool!Finish(t)
    /\ \E c \in Owners(fd[t.conn]) : Write(c, t)
    /\ UNCHANGED <<peer, fin, inbound, backlog, poller, reader, iothread>>

Client(c) == Connect(c) \/ Speak(c) \/ Close(c) \/ ReadAnswers(c)

Next ==
    \/ \E c \in Clients : Client(c)
    \/ IoThread
    \/ StartTask
    \/ \E t \in Tasks : Compute(t)

Spec == Init /\ [][Next]_vars

\* The server's threads run when they can.  Of the clients it is assumed
\* that they read what they get and that they do not keep silent for ever:
\* they end a line they began and some time shut their writing side.
\* Nobody has to close.
ServerFairness ==
    /\ WF_vars(IoThread)
    /\ WF_vars(StartTask)
    /\ \A t \in Tasks : WF_vars(Compute(t))
ClientFairness ==
    \A c \in Clients : WF_vars(Speak(c)) /\ WF_vars(ReadAnswers(c))

FairSpec == Spec /\ ServerFairness /\ ClientFairness

-----------------------------------------------------------------------------
(* Properties.                                                             *)

(* Slots, map and connections agree whenever the IO thread polls or goes   *)
(* round, so no assertion of PollPoller.cc fails: the descriptors in the   *)
(* slots are those of the map, each once and within what poll covers, and  *)
(* an open descriptor belongs to one connection.                           *)
MapMatchesSlots ==
    /\ DOMAIN itmap = Range(slots) \ {0}
    /\ \A i, j \in DOMAIN slots :
          slots[i] # 0 => /\ i <= maxi
                          /\ fd[itmap[slots[i]]] = slots[i]
                          /\ slots[i] = slots[j] => i = j
    /\ \A f \in 1..Cardinality(Clients) : Cardinality(Owners(f)) <= 1

(* A client gets answers to its own lines only, each at most once, even    *)
(* when its connection outlives its close event and descriptors are used   *)
(* again.                                                                  *)
AnswersAreOwn ==
    \A c \in Clients :
        /\ \A i \in DOMAIN answers[c] : answers[c][i].conn = c
        /\ \A i, j \in DOMAIN answers[c] :
              answers[c][i] = answers[c][j] => i = j

Answered(c, n) ==
    \/ Reply(c, n) \in Range(answers[c])
    \/ peer[c] = "gone"
    \/ down # "up"

(* A client that waits for its answers gets one to every line, whatever    *)
(* the others do, and also after it has shut its writing side.             *)
PatientAnswered ==
    \A c \in Patient : \A n \in 1..Lines[c] : Sent(c) >= n ~> Answered(c, n)

(* Every line is answered (README.md:4: the system takes any word and      *)
(* returns the result), also of a client that does not wait.               *)
EveryLineAnswered ==
    \A c \in Clients : \A n \in 1..Lines[c] : Sent(c) >= n ~> Answered(c, n)

(* The server is ended by a failed read or write only when some client    *)
(* has closed its connection: one that stays, shuts its writing side,      *)
(* writes half a line or does not read what it is sent cannot do it.       *)
StayingIsHarmless ==
    down \in {"recv", "read", "write"} => \E c \in Clients : peer[c] = "gone"

=============================================================================
