------------------------------- MODULE Server -------------------------------
(***************************************************************************)
(* The whole of wcs at run time: main reads the configuration and starts   *)
(* the server (src/main.cc, MyConfiguration.cc, MyServer.cc); clients type *)
(* words (test/client.c); the IO thread hands their lines to the pool;     *)
(* Server::compute looks a word up in the slave cache or asks the          *)
(* database, sends the answer and puts it into the master; the timers copy *)
(* the master to the slave and write the slave to the file; the process    *)
(* may be killed and started again.                                        *)
(*                                                                         *)
(* The parts are as coarse as this allows.  The pool is TaskDispatch; a    *)
(* line arrives whole, as the test client writes it; a query is right      *)
(* unless another one overlaps it on the one connection to the database;   *)
(* a lookup during a copy may miss or find anything; a copy reads a node   *)
(* three times.  What is behind this is in ThreadPool, Reactor, TextQuery  *)
(* and CacheManager.  The destructor of Server is not reached: the loop of *)
(* TcpServer::start does not end.                                          *)
(***************************************************************************)
EXTENDS LruCacheOps, FiniteSets

CONSTANTS Clients,
          Lines,       \* the lines each client types
          Answer,      \* what the database answers to each word
          Apology,     \* what queryDB returns when it finds nothing
          ConfFiles,   \* what the configuration file may hold
          Unset,       \* what an int of Configuration may be if never set
          Atoi,        \* the values of numerals
          QueueSize,   \* the pool: its queue
          PoolSize,    \*           and its threads
          MaxSize,     \* maxSize_ of the caches
          MaxFaults    \* bound: kills and connections that fail

\* messageCallback takes the end of a line off.
TrimSpaceRn(line) == SubSeq(line, 1, Len(line) - 2)
TrimSpaceN(line) == SubSeq(line, 1, Len(line) - 1)
Received(line) ==
    IF SubSeq(line, Len(line) - 1, Len(line)) = <<"\r", "\n">>
    THEN TrimSpaceRn(line)
    ELSE IF Last(line) = "\n" THEN TrimSpaceN(line)
    ELSE line

Words == UNION {{Received(line) : line \in Range(Lines[c])} : c \in Clients}

\* A bare newline ends the process and is left to Reactor.
ASSUME ServerAssumption ==
    /\ IsFiniteSet(Clients)
    /\ \A c \in Clients :
          /\ Lines[c] \in Seq(Seq(STRING))
          /\ \A line \in Range(Lines[c]) : Len(line) > 1
    /\ Words \subseteq DOMAIN Answer
    /\ \A w \in DOMAIN Answer : Answer[w] \in Seq(STRING)
    /\ Apology \in Seq(STRING)
    /\ {QueueSize, PoolSize, MaxSize} \subseteq Nat \ {0}
    /\ Unset \subseteq Nat
    /\ MaxFaults \in Nat

VARIABLES client,   \* where each test client is
          typed,    \* how many lines it has written
          fin,      \* whether it has shut its writing side
          sent,     \* all that the server wrote to it
          inbound   \* how many of its lines are in the socket

VARIABLES conffile,   \* the configuration file
          up,         \* whether the process runs
          conf,       \* the Configuration
          connected,  \* whether mysql_real_connect succeeded
          mapped,     \* the connections in itmap_
          taken,      \* how many lines receive() has returned
          job,        \* what compute is at, per running task
          querying,   \* the tasks that have a SELECT under way
          met,        \* those whose SELECT another one met
          broken      \* whether the connection is out of step for good

VARIABLES pending, running  \* the tasks of the pool

VARIABLES master, slave,  \* the caches
          walk,           \* where copyLruCache is
          cursor,         \* the node it has reached, 0 at the end
          due,            \* the timers that will expire again
          file,           \* the lines of the cache file
          restarts,       \* how often the process was killed
          faults,         \* how many faults there were, for the bound
          doubted         \* history: words whose answer a race may have made

clients == <<client, typed, fin, sent, inbound>>
process == <<conffile, up, conf, connected, mapped, taken>>
database == <<querying, met, broken>>
pool == <<pending, running>>
caches == <<master, slave, walk, cursor, due>>
disk == <<file, restarts, faults>>
vars == <<clients, process, job, database, pool, caches, disk, doubted>>

Reply(c, n) == [conn |-> c, line |-> n]
Tasks == UNION {{Reply(c, n) : n \in 1..Len(Lines[c])} : c \in Clients}
Word(t) == Received(Lines[t.conn][t.line])
Greeting == <<"Please input a word to query:">>

Pool == INSTANCE TaskDispatch

Copying == walk # "off"
NoConf == <<>>

TypeOK ==
    /\ client \in [Clients -> {"away", "here", "closed", "lost"}]
    /\ \A c \in Clients :
          /\ taken[c] + inbound[c] <= typed[c]
          /\ typed[c] <= Len(Lines[c])
    /\ DOMAIN job = running
    /\ met \cup querying \subseteq running
    /\ Pool!PendingSet \cup running \subseteq Tasks
    /\ Pool!PendingSet \cap running = {}
    /\ Len(pending) <= QueueSize
    /\ Cardinality(running) <= PoolSize
    /\ walk \in {"off", "copy", "val", "map", "next"}
    /\ {n.id : n \in Nodes(master)} = 1..Len(master.list)
    /\ {n.id : n \in Nodes(slave)} = 1..Len(slave.list)
    /\ \A n \in Nodes(master) \cup Nodes(slave) :
          n.key \in Seq(STRING) /\ n.val \in Seq(STRING)
    /\ file \in Seq(Seq(STRING))
    /\ cursor \in 0..Len(master.list)
    /\ due \subseteq {"write", "copy"}
    /\ ~up => mapped = {} /\ running = {} /\ pending = <<>>

Init ==
    /\ client = [c \in Clients |-> "away"]
    /\ typed = [c \in Clients |-> 0]
    /\ fin = [c \in Clients |-> FALSE]
    /\ sent = [c \in Clients |-> <<>>]
    /\ inbound = [c \in Clients |-> 0]
    /\ conffile \in ConfFiles
    /\ up = FALSE
    /\ conf = NoConf
    /\ connected = FALSE
    /\ mapped = {}
    /\ taken = [c \in Clients |-> 0]
    /\ job = <<>>
    /\ querying = {}
    /\ met = {}
    /\ broken = FALSE
    /\ Pool!DInit
    /\ master = EmptyCache
    /\ slave = EmptyCache
    /\ walk = "off"
    /\ cursor = 0
    /\ due = {}
    /\ file = <<>>
    /\ restarts = 0
    /\ faults = 0
    /\ doubted = {}

-----------------------------------------------------------------------------
(* The configuration.  A line is the sequence of its parts, of which "="   *)
(* is one; strings that no line sets are empty, integers whatever they     *)
(* are.  find() of a line without "=" is npos, and npos + 1 is 0.          *)

Numbers == {<<"port">>, <<"updateFrequence">>}
Strings == {<<"logFile">>, <<"enDict">>, <<"chDict">>, <<"cacheFile">>,
            <<"server_host">>, <<"sql_user_name">>, <<"sql_password">>,
            <<"db_name">>, <<"table_one_name">>, <<"table_two_name">>}

Equals(line) == SelectInSeq(line, LAMBDA part : part = "=")
Type(line) ==
    SubSeq(line, 1, IF Equals(line) = 0 THEN Len(line) ELSE Equals(line) - 1)
Content(line) == SubSeq(line, Equals(line) + 1, Len(line))

Configured(c, line) ==
    LET type == Type(line)
    IN  [key \in DOMAIN c |->
            IF line = <<>> \/ key # type THEN c[key]
            ELSE IF key \in Numbers THEN Atoi[Content(line)]
            ELSE Content(line)]

NewConfiguration(unset) ==
    [key \in Numbers \cup Strings |->
        IF key \in Numbers THEN unset ELSE <<>>]
ReadConf(lines, unset) == FoldLeft(Configured, NewConfiguration(unset), lines)

Frequence == conf[<<"updateFrequence">>]
\* Without a name, neither stream opens: nothing is read or written.
OpenRead(c) == c[<<"cacheFile">>] # <<>>
OpenWrite(c) == c[<<"cacheFile">>] # <<>>

(* Mutants: a connection whose tasks do not hold it, and a reader that     *)
(* forgets what is still in the socket.                                    *)
HeldByMap(c) == c \in mapped
AllRead(c) == typed[c] - taken[c]

\* The timers first expire whatever the configuration says, and then again
\* and again unless their interval is 0.
WritesRecur == Frequence # 0
CopiesRecur == Frequence \div 3 # 0

\* A connection lives while the map or a task points to it.
Held(c) ==
    \/ c \in mapped
    \/ \E t \in Pool!PendingSet \cup running : t.conn = c

\* How many lines readline has read and not returned.
Buffered(c) == typed[c] - taken[c] - inbound[c]

-----------------------------------------------------------------------------
(* The process: main, and its end.                                         *)

Fault == faults < MaxFaults /\ faults' = faults + 1

\* A connection that fails is reported and kept: every query then fails.
ConnectDB ==
    \/ connected' = TRUE /\ UNCHANGED faults
    \/ connected' = FALSE /\ Fault

\* Log, pool, caches and poller, in this order.
StartServer ==
    /\ up' = TRUE
    /\ master' = ReadLines(EmptyCache, IF OpenRead(conf') THEN file ELSE <<>>)
    /\ slave' = master'
    /\ due' = {"write", "copy"}

Boot ==
    /\ ~up
    /\ \E unset \in Unset : conf' = ReadConf(conffile, unset)
    /\ ConnectDB
    /\ StartServer
    /\ UNCHANGED <<clients, conffile, mapped, taken, job, database, pool,
                   walk, cursor, file, restarts, doubted>>

\* A write that was under way leaves the lines it has flushed.
Kill ==
    /\ up
    /\ Fault
    /\ restarts' = restarts + 1
    /\ up' = FALSE
    /\ conf' = NoConf
    /\ connected' = FALSE
    /\ mapped' = {}
    /\ job' = <<>>
    /\ querying' = {}
    /\ met' = {}
    /\ broken' = FALSE
    /\ pending' = <<>>
    /\ running' = {}
    /\ master' = EmptyCache
    /\ slave' = EmptyCache
    /\ walk' = "off"
    /\ cursor' = 0
    /\ due' = {}
    /\ \/ UNCHANGED file
       \/ /\ "write" \in due /\ ~Copying /\ OpenWrite(conf)
          /\ \E n \in 0..Len(slave.list) :
                file' = SubSeq(WriteLines(slave), 1, n)
    /\ client' = [c \in Clients |->
                     IF client[c] = "here" THEN "lost" ELSE client[c]]
    /\ UNCHANGED <<typed, fin, sent, inbound, conffile, taken, doubted>>

-----------------------------------------------------------------------------
(* The test client: it writes a line whenever one is typed, shuts its      *)
(* writing side at the end of its input, prints one message at a time and  *)
(* exits when the server has closed.                                       *)

TypeLine(c) ==
    /\ client[c] = "here"
    /\ ~fin[c]
    /\ typed[c] < Len(Lines[c])
    /\ typed' = [typed EXCEPT ![c] = @ + 1]
    /\ inbound' = [inbound EXCEPT ![c] = @ + 1]
    /\ UNCHANGED <<client, fin, sent, process, job, database, pool,
                   caches, disk, doubted>>

ShutdownWrite(c) ==
    /\ client[c] = "here"
    /\ ~fin[c]
    /\ fin' = [fin EXCEPT ![c] = TRUE]
    /\ UNCHANGED <<client, typed, sent, inbound, process, job,
                   database, pool, caches, disk, doubted>>

\* readline returns 0 after the last message.
ServerClose(c) ==
    /\ client[c] = "here"
    /\ ~Held(c)
    /\ client' = [client EXCEPT ![c] = "closed"]
    /\ UNCHANGED <<typed, fin, sent, inbound, process, job, database,
                   pool, caches, disk, doubted>>

-----------------------------------------------------------------------------
(* The IO thread: a connection, a line, the end of a client's input.       *)

Send(c, n, val) ==
    sent' = [sent EXCEPT ![c] = Append(@, [line |-> n, val |-> val])]

\* What a client writes before the accept waits in its socket, as after it.
HandleAccept(c) ==
    /\ up
    /\ client[c] = "away"
    /\ client' = [client EXCEPT ![c] = "here"]
    /\ mapped' = mapped \cup {c}
    /\ Send(c, 0, Greeting)
    /\ UNCHANGED <<typed, fin, inbound, conffile, up, conf, connected, taken,
                   job, database, pool, caches, disk, doubted>>

\* One line per event.  readline empties the socket when its buffer is empty.
HandleMessage(c) ==
    /\ c \in mapped
    /\ inbound[c] > 0
    /\ inbound' = [inbound EXCEPT ![c] = IF Buffered(c) > 0 THEN @ ELSE 0]
    /\ taken' = [taken EXCEPT ![c] = @ + 1]
    /\ Pool!Submit(Reply(c, taken'[c]))
    /\ UNCHANGED <<client, typed, fin, sent, conffile, up, conf, connected,
                   mapped, job, database, caches, disk, doubted>>

\* What is still in the buffer is dropped.
HandleClose(c) ==
    /\ c \in mapped
    /\ inbound[c] = 0
    /\ fin[c]
    /\ mapped' = mapped \ {c}
    /\ UNCHANGED <<clients, conffile, up, conf, connected, taken, job,
                   database, pool, caches, disk, doubted>>

-----------------------------------------------------------------------------
(* A worker in compute.                                                    *)

\* (StepShared is a mutant: ret of compute is shared by the workers.)
StepShared(t, stage, val) ==
    job' = [u \in DOMAIN job |->
               [stage |-> IF u = t THEN stage ELSE job[u].stage, val |-> val]]
Step(t, stage, val) ==
    job' = [job EXCEPT ![t] = [stage |-> stage, val |-> val]]
Stage(t, stage) == t \in running /\ job[t].stage = stage

StartTask ==
    /\ up
    /\ Pool!Dispatch
    /\ job' = [t \in running' |->
                  IF t \in running THEN job[t]
                  ELSE [stage |-> "lookup", val |-> <<>>]]
    /\ UNCHANGED <<clients, process, database, caches, disk, doubted>>

\* findIfInCache, without a lock.
Lookup(t) ==
    LET k == Word(t)
    IN  /\ Stage(t, "lookup")
        /\ \/ /\ Found(slave, k)
              /\ ~Copying
              /\ Step(t, "send", FoundVal(slave, k))
           \/ /\ ~Found(slave, k) \/ Copying
              /\ Step(t, "query", <<>>)
           \/ /\ Copying
              /\ \E n \in Nodes(slave) \cup Nodes(master) :
                    Step(t, "send", n.val)
        /\ doubted' = IF Copying /\ job'[t].stage = "send"
                      THEN doubted \cup {k} ELSE doubted
        /\ UNCHANGED <<clients, process, database, pool, caches, disk>>

\* queryDB, which does not lock the connection either.
BeginQuery(t) ==
    /\ Stage(t, "query")
    /\ t \notin querying
    /\ querying' = querying \cup {t}
    /\ LET overlap == querying # {}
       IN  /\ broken' \in {broken, broken \/ overlap}
           /\ met' = met \cup (IF overlap THEN querying' ELSE {})
                         \cup (IF broken THEN {t} ELSE {})
    /\ UNCHANGED <<clients, process, job, pool, caches, disk, doubted>>

EndQuery(t) ==
    LET k == Word(t)
        disturbed == t \in met \/ ~connected
    IN  /\ Stage(t, "query")
        /\ t \in querying
        /\ querying' = querying \ {t}
        /\ met' = met \ {t}
        /\ \E val \in IF ~connected THEN {Apology}
                      ELSE IF t \in met THEN {k, Apology} \cup Range(Answer)
                      ELSE {Answer[k]} :
              Step(t, "send", val)
        /\ doubted' = IF disturbed THEN doubted \cup {k} ELSE doubted
        /\ UNCHANGED <<clients, process, broken, pool, caches, disk>>

SendAnswer(t) ==
    /\ Stage(t, "send")
    /\ Send(t.conn, t.line, job[t].val)
    /\ Step(t, "put", job[t].val)
    /\ UNCHANGED <<client, typed, fin, inbound, process, database,
                   pool, caches, disk, doubted>>

\* The node under the copy.  It has read it, will read it again, and finds
\* one of another key there: a put evicted it, and its own has its place.
Here == NodeAt(master, cursor)
Crosses == walk \in {"val", "map"} /\ Here'.key # Here.key

\* The task ends with the put.
PutIntoMaster(t) ==
    /\ Stage(t, "put")
    /\ master' = Put(master, Word(t), job[t].val, MaxSize)
    /\ Pool!Finish(t)
    /\ job' = [u \in running' |-> job[u]]
    /\ UNCHANGED <<clients, process, database, slave, walk, cursor, due, disk>>
    /\ doubted' = IF Crosses THEN doubted \cup {Last(slave.list).key, Word(t)}
                  ELSE doubted

Compute(t) ==
    \/ Lookup(t) \/ BeginQuery(t) \/ EndQuery(t)
    \/ SendAnswer(t) \/ PutIntoMaster(t)

-----------------------------------------------------------------------------
(* The timers.                                                             *)

FirstOf(list) == IF list = <<>> THEN 0 ELSE list[1].id
After(list, i) == IF i = Len(list) THEN 0 ELSE list[i + 1].id

\* copyMasterToSlave clears the slave and walks over the master ...
BeginCopy ==
    /\ up
    /\ "copy" \in due
    /\ ~Copying
    /\ walk' = "copy"
    /\ slave' = EmptyCache
    /\ cursor' = FirstOf(master.list)
    /\ due' = IF CopiesRecur THEN due ELSE due \ {"copy"}
    /\ UNCHANGED <<clients, process, job, database, pool, master, disk,
                   doubted>>

\* ... while puts move its nodes: push_back(*iter) copies key_ and val_ ...
CopyKey ==
    /\ walk = "copy"
    /\ cursor # 0
    /\ slave' = AddNode(slave, Here.key, Here.val)
    /\ walk' = "val"
    /\ UNCHANGED <<clients, process, job, database, pool, master, cursor, due,
                   disk, doubted>>

\* ... the latter as it is by then ...
CopyVal ==
    /\ walk = "val"
    /\ slave' = SetVal(slave, Here.val)
    /\ walk' = "map"
    /\ UNCHANGED <<clients, process, job, database, pool, master, cursor, due,
                   disk, doubted>>

\* ... and the map entry is made under the key the node has by then.
MapNode ==
    /\ walk = "map"
    /\ slave' = MapLast(slave, Here.key)
    /\ walk' = "next"
    /\ UNCHANGED <<clients, process, job, database, pool, master, cursor, due,
                   disk, doubted>>

NextNode ==
    /\ walk = "next"
    /\ cursor' = After(master.list, Position(master, cursor))
    /\ walk' = "copy"
    /\ UNCHANGED <<clients, process, job, database, pool, master, slave, due,
                   disk, doubted>>

EndCopy ==
    /\ walk = "copy"
    /\ cursor = 0
    /\ walk' = "off"
    /\ UNCHANGED <<clients, process, job, database, pool, master, slave,
                   cursor, due, disk, doubted>>

WriteToFile ==
    /\ up
    /\ "write" \in due
    /\ ~Copying
    /\ file' = IF OpenWrite(conf) THEN WriteLines(slave) ELSE file
    /\ due' = IF WritesRecur THEN due ELSE due \ {"write"}
    /\ UNCHANGED <<clients, process, job, database, pool, master, slave, walk,
                   cursor, restarts, faults, doubted>>

-----------------------------------------------------------------------------
Client(c) ==
    TypeLine(c) \/ ShutdownWrite(c) \/ ServerClose(c)
Serve(c) == HandleMessage(c) \/ HandleClose(c)
Copy == BeginCopy \/ CopyKey \/ CopyVal \/ MapNode \/ NextNode \/ EndCopy

Next ==
    \/ Boot
    \/ Kill
    \/ \E c \in Clients : HandleAccept(c) \/ Client(c) \/ Serve(c)
    \/ StartTask
    \/ \E t \in Tasks : Compute(t)
    \/ Copy
    \/ WriteToFile

Spec == Init /\ [][Next]_vars

-----------------------------------------------------------------------------
(* Properties.                                                             *)

\* A line of the cache file that does not consist of two words is read back
\* as something else: its first word is taken for the key.  That is a word
\* of the answer when the query was empty.
Garbled(k) ==
    /\ restarts > 0
    /\ Len(k) = 1
    /\ \E q \in Words :
          /\ Len(q) # 1 \/ q \in doubted \/ Len(Answer[q]) # 1
          /\ \/ k = SubSeq(q \o Answer[q], 1, 1)
             \/ q = <<>> /\ q \in doubted

Explained(k, val) == val = Answer[k] \/ k \in doubted \/ Garbled(k)

(* Every answer a client is sent is the one the dictionary gives to its    *)
(* word, through lookup, put, eviction, copies disturbed by puts, the file *)
(* and restarts; the exceptions are a word whose query was disturbed on    *)
(* the shared connection or whose lookup met a copy, now or earlier; two   *)
(* words of which a put gave the one the place of the other while a copy   *)
(* read that; and, after a restart, one that the file holds a line of      *)
(* other than two words about.                                             *)
AnswersExplained ==
    \A c \in Clients : \A i \in DOMAIN sent[c] :
        sent[c][i].line > 0 =>
            Explained(Word(Reply(c, sent[c][i].line)), sent[c][i].val)

Answered(c, n) == \E i \in DOMAIN sent[c] : sent[c][i].line = n

(* The answers to a client may come out of order, but an answer overtakes  *)
(* only lines that are being computed, so fewer than the pool has threads: *)
(* none that still waits in the queue or was lost.                         *)
OvertakesOnlyRunning ==
    \A c \in Clients : \A n \in 1..taken[c] :
        Answered(c, n) /\ client[c] # "lost" =>
            \A m \in 1..n - 1 : Answered(c, m) \/ Reply(c, m) \in running

(* The server closes a connection only after the client has shut its       *)
(* writing side and every line taken from it was answered, however far its *)
(* last tasks were when the poller let the connection go.                  *)
ClosedWhenAnswered ==
    \A c \in Clients :
        client[c] = "closed" =>
            fin[c] /\ \A n \in 1..taken[c] : Answered(c, n)

=============================================================================
