# A TLA+ verification of wcs, the word-correction server

wcs answers a client that sends a word with the word itself, when the
dictionary holds it, or with the closest word, or with an apology. This
directory models the server, the offline programs that build its dictionary and
the segmenter they use in TLA+, checks the models with TLC on small instances,
and proves with TLAPS, for instances of any size, that the thread pool is a
bounded FIFO dispatcher and loses no wakeup, that the log loses nothing and
ends with its closing line, that the cache is an LRU when its keys are single
words, that no iterator dangles and the cache file is one complete slave, that
the poller's tables agree and only a client that has closed can end the server,
that an answer goes only to the client that asked, is the dictionary's but for
named exceptions, and is written before its connection is closed, and that the
segmenter loses nothing of a text, finds every entry, gives true positions and
chooses the heaviest path. Paths are
relative to `src/`; line numbers refer to the files as they are there.

## 1. The system

| Part | State it keeps | Operations | Called by |
|---|---|---|---|
| Thread pool (`rptp/ThreadPool.h`, `Condition.h`, `MutexLock.h`, `Thread.h`) | bounded queue of closures, `isStarted_`, threads, one mutex and two condition variables | `start`, `stop`, `addTask`, `getTask`, `runInThread` | the IO thread (`Server::messageCallback`), its own workers |
| Log (`src/MyLog.cc`) | unbounded queue of lines, `isStarted_`, one thread, the log file | `start`, `stop`, `addLog`, `getLog`, `run` | IO thread, workers |
| LRU cache (`src/MyCache.cc`) | list of (key, value) nodes, map from key to list iterator | `findIfInCache`, `putIntoCache`, `readCacheFile`, `writeCacheFile`, `copyLruCache` | cache manager, workers |
| Cache manager (`src/MyCacheManager.cc`) | master and slave cache, cache file, `mutex_`, two timer threads | `start`, `stop`, `writeToFile`, `copyMasterToSlave` | `Server`, the timers |
| Timer thread (`rptp/Timer.cc`, `TimerThread.cc`) | timerfd, `howlong_`, `isStarted_` | `startTimerThread`, `runTimer`, `cancelTimerThread` | cache manager |
| Text query (`src/MyTextQuery.cc`, `include/MyWord.h`) | one MySQL connection | `queryDB`, `queryTableOne`, `queryTableTwo` | workers |
| Server (`src/MyServer.cc`, `src/main.cc`) | the parts above, `cache_mutex_` | `messageCallback`, `compute`, `connectCallback`, `closeCallback` | poller, pool |
| Configuration (`src/MyConfiguration.cc`) | twelve values | `readConf` | `main` |
| Poller (`rptp/PollPoller.cc`, `TcpServer.cc`) | table of descriptors, map of connections | accept, data and close events | `main` |
| Connection and reader (`rptp/TcpConnection.cc`, `Rio.cc`) | descriptor, shutdown flag, read buffer | `receive`, `send`, `shutdown` | IO thread, workers |
| Sockets and addresses (`rptp/Socket.cc`, `InetAddress.cc`) | a descriptor, an address | wrappers of system calls | poller, connection |
| String utilities (`src/StringUtils.cc`) | none | UTF-8 splitting, edit distance, trimming, opening of files | text query, server |
| Dictionary builder (`buildDict/*.cc`) | word counts, two files | `MakeDictEn`, `MakeDictCh` | an operator |
| Database builder (`buildDB`) | two tables | `MakeDB` | an operator |
| Segmenter (`buildDict/include`, cppjieba) | dictionary trie, user's words, hidden Markov model, idf and stop words | `Cut`, `CutSmall`, `CutForSearch`, `CutAll`, `CutHMM`, `CutLevel`, `Tag`, `Extract`, `InsertUserWord` | dictionary builder |
| limonp (`buildDict/include/limonp`) | none that the segmenter uses | splitting, trimming, conversion of UTF-8; containers, threads, logging, MD5 | segmenter |
| Test client (`test`) | one socket | types lines, shuts down, prints answers | a user |
| Exception (`rptp/Exception.h`) | a stack trace | none is thrown | nobody |

Three kinds of threads meet: the IO thread polls, reads lines and adds tasks;
the workers of the pool look a word up in the slave cache (or the database),
answer the client, and put the answer into the master cache; the timer threads
copy the master to the slave and write the slave to disk. The log thread
stands behind all of them. They share the pool's queue (mutex and condition
variables), the log's queue (the same), the two caches (two different mutexes,
and none for lookups), the database connection (no mutex) and the sockets
(none).

What is hard to get right, and what makes each part correct:

- **Thread pool.** One signal per `addTask` and per `getTask`, threads that
  were signalled and do not run yet, spurious wakeups, `stop` against workers
  between two tests of a flag. Correct when no task or slot waits behind a
  sleeper, tasks start in order and once, and `stop` returns.
- **Log.** `stop` clears the flag and signals without the mutex. Correct when
  the file holds what was logged, in order, the closing line is last, and
  `stop` returns.
- **LRU cache.** A list and a map of iterators that must stay in step through
  hits, misses, evictions, and a file format in which blanks separate. Correct
  when it is an LRU, also over a save and a restart (which keep one word of a
  key and one of a value).
- **Cache manager, timers.** Callbacks that share a mutex with `stop`, puts
  under another mutex, lookups under none, a cache file rewritten in place and
  a process that may die. Correct when no iterator dangles, the file is the
  image of one complete slave, cached answers reach it, copies are copies and
  `stop` returns.
- **Server as a whole.** A word goes through lookup, query, answer, put, copy,
  file and restart, on several threads under different locks. Correct when
  every answer is the dictionary's, with exceptions one can name, when answers
  overtake each other no more than the pool has threads, and when a connection
  is closed only behind its answers.
- **Text query, poller, connection.** One connection to the database
  used by all workers; answers of one client on several workers; lines that
  arrive together or in halves; descriptors that outlive their close event.
  Correct when a client gets, in order, the answers to what it asked.
- **Algorithms.** The edit distance at the borders, truncated UTF-8, rows that
  a primary key refuses.
- **Segmenter.** A dynamic program over positions and lengths of two
  structures, a Viterbi path through probabilities that absorb each other, a
  trie that grows, cuts that are cut again. Correct when nothing of the text is
  lost or invented, the path is the heaviest and the labels the likeliest, a
  rune the user has named stays apart, and every cut ends.

`PROJECT.json` lists each of these hazards at its line, with the properties
that would notice it going wrong.

## 2. Modules

| Module | Models | Extends / uses |
|---|---|---|
| `ThreadPool` | the pool | `TaskDispatch` by a refinement mapping |
| `TaskDispatch` | abstract: a bounded FIFO dispatcher | |
| `Log` | the log | |
| `LruCacheOps` | the cache operations, as functions from a cache to a cache | |
| `LruCache` | one cache and its file | `LruCacheOps`, `LruSpec` by a refinement mapping |
| `LruSpec` | abstract: the last `MaxSize` keys used, and a saved copy | |
| `TimerThread` | timer threads, the timerfd, cancellation | |
| `CacheManager` | both caches, the manager, its timers, the workers' lookups and puts, crashes | `TimerThread`, `LruCacheOps` |
| `Reactor` | the poller, the connections and their readers, the server's callbacks; clients and sockets | `TaskDispatch` as the pool |
| `WordOps` | UTF-8 splitting, edit distance, word order | |
| `Dictionary` | the builders: from a corpus to the rows of the two tables | `WordOps` |
| `TextQuery` | the queries of the workers over their one connection | `Dictionary` |
| `StringUtil` | limonp's splitting and the conversions between UTF-8 and runes | |
| `DictTrie` | the segmenter's dictionary: loading, weights, trie, user's words | `StringUtil` |
| `Segment` | the segmenters, as functions from runes to words | `DictTrie` |
| `Jieba` | one request to the segmenter, step by step | `Segment` |
| `Server` | the whole process: configuration, IO thread, pool, workers, database, caches, timers, kills, test clients | `LruCacheOps`, `TaskDispatch` as the pool |
| `MCThreadPool`, `MCLog`, `MCLruCache`, `MCCacheManager`, `MCReactor`, `MCTextQuery`, `MCJieba`, `MCServer` | instances for TLC | |
| `SharedLemmas` | what several proofs need: induction on a set (`UpTo`), sequences without repetition, what each cache operation keeps of list and map, what a loaded file gives | `LruCacheOps`, `WellFoundedInduction` |
| `ThreadPoolProofs` | theorems about `ThreadPool`; that it implements `TaskDispatch` | `ThreadPool`, `SharedLemmas` |
| `LruProofs` | theorems about `LruCache`; that it implements `LruSpec` | `LruCache`, `SharedLemmas` |
| `CacheManagerProofs`, `ReactorProofs`, `ServerProofs`, `JiebaProofs` | theorems about the modules they are named for | the module, `SharedLemmas` |
| `LogProofs` | theorems about `Log` | `Log`, `TLAPS` |

### ThreadPool

`queue`, `isStarted` are the fields; `wpc`, `task` say where each worker is and
what it runs; `ppc`, `arg` the same for the threads in `addTask`; `owner`
where the thread that calls `start` and `stop` is. A critical section blocks
only in a condition wait, which gives the mutex up, so it is one action. A
wait that has returned is the state `"woken"`: the thread has yet to take the
mutex and to test its loop condition again, and others may overtake it. The
read of `isStarted_` at the head of `runInThread` takes no mutex and is an
action of its own (`CheckStarted`). `SignalOne` wakes any one waiter;
`SpuriousWake` any waiter at any time.

`stop` empties the queue outside the mutex and does not wake producers, so the
class can be used only when no `addTask` overlaps `stop`. Its one user keeps
to that (the thread that adds is the thread that stops), and the model takes
it as a contract: `StopSignal` needs every producer idle, `CallAdd` needs
`stop` to have returned. `addTask` on a pool not yet started, or stopped, is
allowed, as in the code, and blocks when the queue is full.

### Log

The same scheme with one consumer, except that `stop` takes no mutex. The
instant between the test of `isStarted_` (line 64) and the wait (line 65), in
which the log thread holds the mutex, is therefore visible, as the state
`"decided"`; all other critical sections are one action. `accepted` and
`failed` are history variables. `MaxFailures` bounds how often the file cannot
be opened; time stamps are left out.

### LruCacheOps, LruCache

A cache is a record of `list` and `map`, with nodes that carry their address:
that is what the iterators in the map hold. A new node gets the least free
address, so a freed one is reused at once. Strings are sequences of words,
since the file format tells no more apart; `ReadLine` keeps the previous key
or value when a line has too few words, as the code's variables outside the
loop do. The test for a full cache is `==`, as in the code.

### TimerThread, CacheManager

`TimerThread` has one action per step of `runTimer` and of `cancelTimer`,
since both write the same flag and timerfd without order. `CacheManager` adds
the bodies of the callbacks: `BeginWrite`, `WriteLine` (one flushed line),
`EndWrite`; `BeginCopy`, `CopyKey`, `CopyVal`, `MapNode`, `NextNode`,
`EndCopy`. A copy reads the node it stands on three times, its key and then
its answer (`push_back(*iter)`, line 125) and its key again (line 126), and
each read is an action, since a put may come in between. `Load` opens the file
once for each cache, and either may fail. `Lookup` and
`PutIntoMaster` are the two halves of `Server::compute`, with the answer sent
between them. `mutex` is `mutex_`; `cache_mutex_` needs no variable since a
put is one action. `Crash` kills the process; the next one finds the file.

The code has two data races here, and each is modelled by the outcomes the
build can produce:

- `copyLruCache` follows list links while puts, under the other mutex, unlink
  nodes and link them elsewhere. The copy continues from the node it has
  reached wherever that node now is. A put deletes one node and allocates one
  of the same size from the same thread, so the new node is at the freed
  address (`FreeId`), and the copy that held the freed one holds the new one.
  If that happens between two of its reads of the node, the entry of the new
  key in the slave leads to a node with the old key, or the old key gets the
  new answer. `crossed` is a history variable: the words whose put did this to
  the copy in progress, or to the last one.
- A lookup that overlaps a rebuilding of the slave may miss or return any
  answer. While no copy runs it returns what the slave holds.

Either may also end the process, which is a `Crash`.

`Counted` says which events (queries, crashes, files that fail to open) count
towards `MaxEvents`; the others are not bounded. Puts can keep a copy from
ever ending, by moving each node it comes to, so they wait once the slave has
`MaxCopy` nodes in the middle of a copy.

### Reactor

The IO thread is a program counter: `poll`, `accept` (at most one client per
round), `data` (the slots in turn), `read` (inside `messageCallback`, between
bytes), `submit` (inside `addTask`, which blocks on a full queue). `slots`,
`revents`, `maxi`, `itmap` are the poller's fields; slot and map entry change
in one action because only the IO thread sees them. `buf` is the user-space
buffer of `Rio`, which `poll` knows nothing of. The pool is `TaskDispatch`,
the specification that `ThreadPool` is shown to implement, so the two compose.

A connection lives as long as the map or a task points to it (`Held`), and
its descriptor is closed only then; `Owners(f)` says who has descriptor `f`,
and `Compute` writes to whoever that is. Descriptors are given out lowest
first, as the kernel does, so a closed one is used again at once.

A client is `away`, `here` or `gone`. It may write a line whole or in two
halves, shut its writing side, leave, or read what it was sent. A close with
unread answers resets the connection; a write to a client that is gone brings
a reset at once or later. A `recv` error, a failed write, a full table and a
line of one byte end the process (`down` says which), as `ERR_EXIT`, `exit`
and an uncaught exception do. `revents` of a slot that `poll` has not covered
is uninitialized: `Init` chooses it freely, and the first round after an
accept acts on it.

`StayingIsHarmless` separates the ends of the process that a client brings
about by closing from those it cannot: halves of lines, shutdowns and full
sockets are no failures.

Left out: the limit of 1023 bytes per line (lines are shorter), the bytes of a
text (one byte `w` stands for any), the poll timeout, and what is logged.

### WordOps, Dictionary, TextQuery

`WordOps` has the code's functions one by one: `Utf8ToUint32` and
`EditDistanceHelper` as recursive functions over the same indices, `Less` as
the order of the priority queue, whose top may be any greatest element.

`Dictionary` is the two offline programs as functions. `MakeDictEn` splits and
counts, with capitals left as they are, since the result of `tolower` is
dropped; `MakeDictCh` counts segments, and what segmentation makes of the
Chinese corpus is a constant here (the segmenter is `Jieba`). `WriteFileEn` and
`WriteFileCh` give the files an unordered map may be written to, `MakeDB` reads
them again. `ReadBack` is what `>>` reads of a line: a blank segment makes a
line whose count is taken for the word and whose frequency stays uninitialized.
`BuildTableOne` and `BuildTableTwo` are the `INSERT`s, of which a primary key,
compared without regard to case, refuses the later ones; `TableTwo` therefore
holds each word under its first character only.

`TextQuery` has one action per SELECT begun and one per SELECT ended. While
two are under way on the one connection, either may come back empty (it
failed: "commands out of sync"), with rows of another SELECT, or right, and
the connection may stay `broken` for good. `disturbed` is a history variable:
which workers this has happened to. `Init` chooses the order of the dictionary
file and the uninitialized frequency. Assumed: words are well-formed UTF-8 of
at most 20 characters, and of the collation only its treatment of ASCII case
matters. Either data race may also end the process, which says nothing here.

### StringUtil, DictTrie, Segment, Jieba

A string is a sequence of bytes, a rune a code point, and the conversions are
the code's, byte by byte: `Utf8ToUnicode32` stops at a malformed byte, `Encode`
drops bit 20 of a rune of the last planes (`Far` in `MCJieba` is one).
`DictTrie` loads lines as `LoadDict` and `LoadUserDict` do, sorts the weights
for the median a user's word gets, and keeps the trie as a function from its
nodes, each named by its path, to entries. `Segment` follows each segmenter:
`MPSegment` chooses backwards over the entries that begin at a rune and takes
the first of the heaviest; `HMMSegment` is Viterbi over four labels with
`MIN_DOUBLE` absorbing what is small beside it; `MixSegment` gives runs of
single runes to the model unless the user has named one; `FullSegment`,
`QuerySegment` and `LevelSegment` are built on them. Weights are integers (a
hundredth of a logarithm), so sums are exact where the code rounds.

The loops over positions (splitting, decoding, the walk along the path, the
labels, the runs) are all the same operator, `Walk`: what is made at a position
is followed by what is made from the position where the next pass begins. It is
a recursive function, as are the dynamic program and the trie's construction,
so that something can be proved about them.

`Jieba` has one action per range of the prefilter (`CutNext`) and per level
(`NextLevelStep`), one for each use of the words (`Locate`, `Tag`, `Extract`)
and `AddUserWord`. Of `CutLevel`, the numbers of the levels are left out of the
result.

The properties compare what a request has made so far with the sentence
(`TextCovered`, `EntriesFound`, `PositionsMatch`) and with all the ways to take
it apart (`HeaviestPath`: all segmentations into single runes and entries;
`LikeliestLabels`: all labels). Two of them have a limit that the proof brought
up: an entry of more than `MAX_WORD_LENGTH` (512) runes is in the trie but is
never found in a text, and `CutSmall` chooses among the entries up to its own
limit only.

### Server

Coarser than the modules of its parts, so that they can run together. The pool
is `TaskDispatch`, which `ThreadPool` implements; a line arrives whole, as the
test client writes it, and the bytes are `Reactor`'s; a query is one SELECT
that is right unless another one was under way on the connection, which
`TextQuery` bears out; the copy is read by read, as in `CacheManager`, and a
write of the file is one step unless a kill cuts it short. `Boot` is `main`
up to the poll loop, with `ReadConf` over the lines of the file: a line without
"=" sets nothing of use, the last of repeated keys counts, an integer no line
sets is `Unset`, and a third of an interval below 3 is 0, which makes the copy
timer fire once. `compute` is five actions, `Lookup`, `BeginQuery`, `EndQuery`,
`SendAnswer`, `PutIntoMaster`, between which everything else may happen. `Kill`
ends the process anywhere and loses all but the file. `doubted` is a history
variable: words whose answer a race may have made, by a query that met
another, a lookup that met a copy, or a put that replaced the node a copy was
reading (the word of the node and the word of the put). `Garbled` says which keys a
file read after a restart may answer wrongly, because it keeps one word of a
key and one of a value.

## 3. Runs

The longest runs (`cache_reach`, `reactor`, `server`) take one to three minutes
on two cores, the others half a minute or less.

| Run | Instance | Shows |
|---|---|---|
| `pool` | 2 workers, 2 producers, queue of 2, 4 tasks | `TypeOK` with the capacity; `NoTaskBehindSleepers` and `NoSlotBehindSleepers`: no wakeup is lost; `ImplementsDispatcher`: it is a bounded FIFO; `AcceptedTasksStart`, `FullQueueDrains`, `StopReturns` under fairness |
| `log` | 3 entries, 1 failure | `NothingLostOrReordered`, `ClosedLast`, `EntriesWritten`; `StopReturnsUnlessMissed`: `stop` hangs only when its store to the flag falls between the log thread's test and its wait |
| `lru` | 3 keys of one word, 2 answers, capacity 2 | `MapMatchesList`; `ImplementsLru` |
| `caches` | 1 worker, 2 words asked for (one of two words), capacity 2, two first files, 2 events of any kind, `MaxCopy` 5 | `NoDanglingIterator`: every iterator leads to a live node, and to one with its key but for a word in `crossed`; `FileIsOneCompleteCopy` |
| `cache_reach` | 2 one-word queries asked without end, one answer to both, capacity 2, empty file, no crash, `MaxCopy` 2 | `EventuallyInFile`: what is cached reaches the file, unless it is put during copy after copy or copies do not end; `StopReturnsUnlessCaught`: `stop` hangs only when a cancel finds the timer thread not yet in its loop, told to read, or waiting for the mutex |
| `cache_copy` | the same with two answers | **violated**: `SlaveIsACopy` |
| `reactor` | a client that waits for answers and one that does not, 1 or 2 lines each, tables of 1 and 2 slots | `MapMatchesSlots`: slots, map and descriptors agree; `AnswersAreOwn`: no answer goes astray or comes twice; `StayingIsHarmless`: a failed read or write ends the server only when a client has closed; `PatientAnswered`: the waiting client is answered whatever the other does |
| `reactor_lines` | the same | **violated**: `EveryLineAnswered` |
| `query` | 2 workers, 5 inputs, a corpus of two lines and nine segments (a word in two spellings, a word that is a segment too, a three-byte character, a blank segment), `PQ_TRIM_SIZE` 2 | `AnswerIsBest`: an undisturbed query answers as the reference says |
| `query_shared` | the same | **violated**: `DictionaryWordFound` |
| `segment` | three Chinese characters (one in no entry), ASCII, separators, a rune of the last plane, three malformed tails; 8 entries at most, a user dictionary or none, up to two added words; seven methods | `TextCovered`: nothing is lost, repeated or reordered; `EntriesFound`: the full segmenter misses no entry; `PositionsMatch`: `Locate` counts right through encoding and decoding; `HeaviestPath`, `LikeliestLabels` against all segmentations and all labels; `UserRunesKept`; `CutAdvances`: every cut comes to its end |
| `server` | 2 clients with 2 and 1 lines, a word of the dictionary and one of two words that is not in it, 2 workers, a queue of 2, caches of 1, two configuration files, one fault | `AnswersExplained`: every answer is the dictionary's but for named exceptions; `OvertakesOnlyRunning`: answers overtake only lines being computed; `ClosedWhenAnswered`: a connection is closed behind its answers |

**Why the bounds are enough.** In the pool, a lost wakeup needs two waiters
and two signals, one of them overtaken: two workers, two producers, two slots
and enough tasks to fill the queue while both producers hold one. Tasks may be
submitted again once done, so the runs are infinite. In the cache, a capacity
of two with three keys makes hits at the front and at the back, misses that
evict and misses that do not. In the manager, one worker suffices, because
puts exclude each other and a lookup shares nothing with another. Safety is
checked with two events, a query, a crash or a failure to open, which give a
put into a copy in progress, two puts, a crash between two lines of a write, or
a crash after a query; a loaded file fills the cache, so that the first put
already evicts, and `MaxCopy` is more than the nodes these can make. What must
happen at last is checked with queries without end, since a bound on them would
leave the copies undisturbed from some time on; `MaxCopy` 2 lets puts come
before, between and after the reads of the first two nodes, the whole of a
cache of two. In the reactor, two clients on a table of one or two slots give a full
table, a slot and a descriptor used again while a task still holds the old
connection, and two lines in one read. In the query, the reference compares
against all words and all alignments, and the corpus and the five inputs are
chosen so that each part (separators, counts, characters, substitution, order,
first row, English file first) decides one of them.
The second first file holds two entries with the same first word, as
a run with a query of two words leaves it, so the caches start with repeated
keys. In the segmenter, sentences of up to four runes over the
three characters and of six in one case contain every overlap of the entries,
which are of at most three runes; ASCII runs, numbers and separators appear in
sentences of two to four. In the server, two clients give two tasks of one
client, of two clients, and a line queued behind both workers; a cache of
one gives hits, misses and evictions, also under a copy (copies of more nodes
are in `caches`); the one fault is a kill with a restart, at
any step, or a database that does not connect. `Zero` for an integer never set
is one value of many, chosen because it stops a timer. `CHECK_DEADLOCK FALSE` stands where the system really stops: a stopped
log, a stopped manager, a server that has ended or whose clients have left and
whose timers do not recur.

**Fairness.** A thread that can go on does: weak fairness of each worker, of
each thread inside `addTask`, of the log thread, of `start` and `stop` once
begun. Tasks return. Nobody is obliged to call anything. The pool's mutex is
not a variable, so weak fairness of a worker says that a woken worker some
time gets the mutex while its action stays enabled. In `CacheManager` an armed
timer expires, and the two callbacks are strongly fair in taking `mutex_`:
the other callback holds it for one short pass and then leaves it free for
seconds (15 and 5), so a thread blocked in `lock` gets it. In `Reactor`
the IO thread and the pool are weakly fair, and so are two things clients do:
they read what they are sent, and they go on (a line begun is ended, and some
time the writing side is shut). Without the first a worker blocks in `send`
for ever, without the second the IO thread does in `recv`; both are hazards
of the code, listed as such, not of the model. No client must ever leave.
`lru`, `caches`, `query`, `segment`, `server` and the violated safety runs need
no fairness: they
check what must never happen, and `CutAdvances` bounds each step by a measure.

**The violations** are disagreements between the code and what it says of
itself; `findings` in `PROJECT.json` quotes both sides.

1. `cache_copy`: a put during a copy moves the node the copy has reached to
   the front; the copy then goes over the list again, and the slave has two
   nodes with one key.
2. `reactor_lines`: a client writes two lines and shuts its writing side; the
   second is in the reader's buffer when `recv` reports the end of the input,
   and the connection is closed without an answer to it.
3. `query_shared`: the SELECTs of two workers overlap on the one connection,
   one fails, and a word of the dictionary is answered with something else.

More losses that the code allows have no line of the repository against
them, so they are exceptions inside properties instead of runs of their own: a
client that has closed before its answer was written ends the server
(`StayingIsHarmless`); a key or an answer of several words does not survive
the cache file (`Garbled` in `AnswersExplained`); a put that replaces a node
between two reads of a copy mixes two words up (`crossed` in
`NoDanglingIterator`, `doubted` in `AnswersExplained`); and a word that is put
during copy after copy never reaches the file (`PutInCopy` in
`EventuallyInFile`): the put moves it to the front, behind the copy's back.
A slave that the first violation made longer than the master is written to the
file, and after a restart the master loads all of it: more than `maxSize_`
nodes, and as the test for a full cache is `==`, it never evicts again.

Two stops can hang, and a property says precisely when. `Log::stop`
(`StopReturnsUnlessMissed`): the log thread tests the flag, `stop` clears it and
signals nobody, the thread waits, `stop` joins for ever. `CacheManager::stop`
(`StopReturnsUnlessCaught`): it joins the timer threads holding the mutex their
callbacks take (`MyCacheManager.cc:43-46`), so a callback that waits for the
mutex never ends; it disarms the timer (`Timer.cc:68`) of a thread that `poll`
has told to read (line 58), which blocks in `read`; or it lowers the flag before
the new thread raises it (line 50). Each property excludes these windows and no
other.

`main` never reaches the three `stop` functions, since `TcpServer::start`
loops for ever; they are reachable by any other user of the classes.

`NoDanglingIterator` holds in spite of the repeated keys that the file format
and the first violation bring about: with a repeated key the map leads to the last
node, and evicting any node with that key removes the entry.

## 4. Proofs

Each theorem is `Spec => []...` or a refinement, for every value of the
constants that meets the module's `ASSUME`: no bound of section 3 is left but
where a constant names one (`MaxEvents`, `MaxCopy`, `MaxFaults`, `MaxFailures`, and
those are arbitrary). What `IInv` is called in each module is the inductive
strengthening, proved by one lemma per action or group of actions; a second
invariant that needs the first (`OInv`, `CInv`, `TInv`, `VInv`, ...) is
inductive relative to it.

**Thread pool** (`ThreadPoolProofs`; `PoolAssumption`: finitely many threads, a
natural capacity, an empty task that is not a task): `TypeCorrect`,
`NoLostConsumerWakeup`, `NoLostProducerWakeup`. `TypeOK` is not inductive by
itself: `Push` appends `arg[p]`, which must be a task, so `IInv` adds `ArgHeld`,
which says that a thread inside `addTask` holds one, and `NoAddDuringStop`,
which says that none is inside while the pool stops: without it `ClearOne`
would free slots behind sleeping producers. Each wakeup invariant is inductive
relative to `IInv`. The argument is a count: a signal either moves one thread
from sleeping to woken, which pays for the task added or the slot freed, or
finds no sleeper, which makes the invariant vacuous; a woken thread that acts
uses up one task or slot and one wakeup together; a thread goes to sleep only
on an empty (full) queue.

**Its refinement** (same module): `PoolImplementsDispatcher`,
`Spec => ImplementsDispatcher`, on `HInv`: a closure is in the queue once, or
with one producer, or with one worker (`OneHolder`); a worker holds one exactly
while it runs (`HolderStates`); before `start` and behind `join` there are no
workers (`ThreadsOfOwner`), so what `stop` drops nobody runs. Then `Push` is a
`Submit`, `TakeTask` a `Dispatch` (a free worker leaves fewer running than there
are workers), `FinishTask` a `Finish`, `ClearOne` a `Discard`, and all else a
stutter. `Reactor` and `Server` use the abstract side of this theorem.

**Log** (`LogProofs`; `LogAssumption`: the opening and the closing line differ
from each other and from what is logged): `LogTypeCorrect`, `ClosingLineLast`
and `NothingIsLost`. `IInv` ties the flag and the log thread to where the owner
is: the thread exists from the end of `start` on, reaches its end only with the
flag down, writes the closing line in its last step, and `stop` returns behind
it. `OInv` speaks of `Out`, the file, the entry in flight and the queue, one
behind the other: its members are the entries accepted and not refused, each
where the order of `addLog` puts it. A step leaves `Out` as it is, appends to
it, takes the one entry out that cannot be written, or puts the closing line
in. `NothingLostOrReordered` says this by members and positions rather than by
a filter of the accepted entries (`SelectSeq` is recursive); the entries of
an instance are all different, and each is logged at most once.

**Cache operations** (`SharedLemmas`). `Whole(c)`: the addresses of the nodes
are 1 to their number, no two the same, and each entry of the map leads to a
node with its key. A hit takes the node out that the map leads to, a miss in a
full cache the last one; in between one address is free and one entry may
dangle (`Lacks`), and the push to the front takes just that address and writes
just that entry (`PutWhole`), so the address freed last is the one used again.
`WholeBut(c, words)` is the same with an exception: the entries of `words` may
lead to a node with another key. A copy makes its node in three steps
(`AddNodeIs`, `SetValIs`, `MapLastIs`), of which only the last can add to
`words`.
That holds also when keys are repeated, as the file format makes them. Loading
a file is a fold over its lines: `SolutionExists` and `ReadSteps` show that the
fold has the solution one expects, with a step per line, from the least
counterexample; `ReadWhole` and `ReadPairs` follow by induction on the number
of lines, as an induction on a set (`UpTo`) and not on an operator.

**LRU cache** (`LruProofs`; `LruAssumption`: a positive capacity, keys and
answers are sequences): `LruTypes`, on `TInv`; the capacity is not exceeded
though its test is `==`. `MapLeadsToEveryNode` and `CacheIsLru` have a
hypothesis: `OneWordKeys`, every key is one word, and for the second one
`NonEmptyVals`, no answer is the empty string. Without the first the statement
is false of the code, as a key of two words is read back as one: two keys with
the same first word become two nodes of one key. The answers of the server are
never empty. `MInv` adds to `Whole` that no key has two nodes (`Exact`) and
that the lines of the file begin with different words; `LInv` that a line has
at least two. Then the pairs of an exact cache, in the order of its list, are
the content of `LruSpec`: a hit moves its pair to the front, a miss cuts the
last one off (`PutSimulates`), a save is the image of the content, and what a
restart loads is that image with each value cut to one word.

**Cache manager** (`CacheManagerProofs`; `ManagerAssumption`: two timers, other
than the names of the mutex's other holders, a positive capacity, files that
are sequences of lines): `CallbacksExclusive`, the mutual exclusion of both
callbacks and `stop`; `WriteMeetsNoCopy`: while the file is written the slave is
the last complete one; `IteratorsLive` and `FileIsOneCopy`. `IInv` says who
holds `mutex_` at each place of the three threads, that timers exist only once
spawned, and that the slave is complete outside a copy. `CInv` says that the
master is whole and the slave whole but for `crossed` at any time, also while
it is half copied; that between its reads the copy stands on a node with the
key it has read, or that the key it finds there is in `crossed`
(`AtNode`); that
the copy stands on an address the master still has (`CursorLive`), since a put
never leaves fewer; and that the file is a prefix of what the write in progress
set out to save, and all of it behind its end (`Saved`).

**Poller and connections** (`ReactorProofs`; `ReactorAssumption`): `SlotsAgree`,
`AnswersReachTheirClient`, `OnlyGoneClientsHarm` and `ReactorTypes`. The heart
is `Descriptors`: connections that are held, by the map or by a task, have
different descriptors, so the owner of a task's descriptor is the task's
connection even after the poller has let it go and has accepted others. It
needs a free descriptor at each accept: there are as many as clients, and the
new one holds none (a pigeonhole). `LinesTaken` and `Once` number the lines: a
task's line is at most the last one taken, less than one in hand, and never
among the answers already written. `ResetByGone`: only a client that has closed
has its connection reset, so only behind it does a read or a write fail.
`LineCount` is what the types need: the bytes that wait in the buffer and the
socket are texts of at most one byte, each ended by a newline but the last, and
the lines taken and the newlines that wait are together no more than the client
has to write; `Sizes` bounds the tables.

**Server** (`ServerProofs`; `ServerAssumption`: finitely many clients, lines,
answers and the apology are sequences of strings, sizes are positive):
`OvertakingIsBounded`, `CloseIsBehindAnswers`, `ServerTypes` and
`AnswersAreExplained`. `IInv` follows a line from the poller to its answer
(`NoneLost`: queued, with a worker or answered), keeps the queue of each client
in the order of its lines and behind all that was handed out (`QueueOrder`),
lets a task end only behind its answer (`PutBehindAnswer`), and says that a
closed connection was neither mapped nor held (`ClosedAnswered`). `TInv` adds
that no line is counted twice between client, socket and buffer, that only
running tasks query, that the master is whole and the slave whole but for
`doubted`, and that the copy stands between its reads on a node with the key it
has read, or that key and the one it finds there are both in `doubted`
(`AtNode`). `VInv` follows an answer
from the query through the master, the copy, the slave, the file and a restart:
every pair of a key and an answer, wherever it is, is explained or has a key
that `Garbled` names (`Goods`). What makes it inductive is that the exceptions
only grow (`GoodsGrow`), and that a line of the file is read back to the first
words of a pair that was good, or leaves the pair before it, which is one.

**Segmenter** (`JiebaProofs`; `InputAssumption`: the files load, strings are
bytes, limits are positive, every frequency has a logarithm): `RequestTyped`,
`TextIsCovered`, `EntriesAreFound`, `UserRunesAreKept`, `CutsAdvance`,
`PositionsAreTrue` and `PathsAreHeaviest`, that is all of the run `segment` but
the labels. The dictionary, the model and the sentence are any; nothing is
assumed of the model's numbers.

- *Recursive functions.* A recursive definition says nothing to a prover until
  one knows that such a function exists. `WalkExists`, `RecursExists`,
  `ChoosesExists` and `LabelsExist` build it from one end, value by value, by
  an induction on the set of the positions reached (`UpTo`); `FlattenIs`
  identifies the library's `FlattenSeq` with the running concatenation. Then
  `WalkInduction` carries whatever holds behind the last position, and is passed
  from each next position to the one before, to the whole, and `WalkCovers`
  says that a loop that takes a text apart loses none of it.
- *The dictionary.* `DictOK`: nodes are closed under their paths, a node's entry
  has the node's path as its word, weights are integers. It holds after loading
  (`InitDictOK`) and is kept by `InsertUserWord`. Hence an entry found at a rune
  is as long as the text it was found in (`FindDagIs`), which is what keeps
  the walk of `MPSegment` in step with its choices (`MPCutIs`).
- *The request.* `JInv` adds to the types that the cursor stands at an end of
  the sentence or beside a separator (`Boundary`). Without that `EntriesFound`
  is not inductive: an entry could lie across the cursor, and neither the words
  so far nor those of the next range would have it. For the same reason it
  speaks of entries without a separator. For the mix it says of each word, not
  of its runes only, that it is an entry or free of the user's runes
  (`KeptWords`). The next level is cut with a limit one shorter than the word,
  so its words are shorter (`JInvNextLevel`).
- *Positions.* `RoundTrip`: decoding what was encoded gives the runes again,
  below 2^20. Each rune has the width and the bytes of one of four forms
  (`RuneBytesAre`), whose lead admits no narrower one, and a row of them is read
  back by an induction along the runes. `Located` says where the words end
  (`EndAt`) once the report is made.
- *The heaviest path.* `IsSeg` says that words are a segmentation of a text;
  weights are summed by a recursive function of their own (`WeightSum`).
  `MPBound`: from the last word of any segmentation to its first, what
  is ahead weighs at most what the dynamic program has for that position.
  `MPCutWeighs`: the walk's words weigh just that. `HInv` is the invariant for
  the text so far. A segmentation of the text up to the next range must have a
  word that ends where the range begins (`SegMeets`: no entry lies across), so
  it splits in two (`SegSplits`) and is bounded part by part (`HeaviestOn`).
  `SegIsPieces` and `PiecesAreSeg` relate `IsSeg` to the sets of ends over which
  the property enumerates.

**Only model-checked**: all liveness (fairness and `ENABLED` are out of the
prover's reach); `LikeliestLabels`, since `MIN_DOUBLE` absorbs what is added to
it, so that a likelihood depends on the order of its sums and is not a sum of
parts that could be compared one by one; and `AnswerIsBest` with the types of
`TextQuery`, which compare the edit distance with all alignments of two words.

## 5. Not modelled, and what is left

- limonp beyond its string functions (queues, threads, closures, MD5, logging)
  and the string functions nobody here calls: vendored, and unused by this
  program. `LocalVector`, which the segmenter does use, is a sequence.
- The socket wrappers but for the close of a descriptor: system calls without
  state. `readn` of `Rio` and `Exception`: nobody calls or throws them.
- The destructor of `Server`, and with it the three `stop` functions as `main`
  would reach them: the loop of `TcpServer::start` has no end. The classes' own
  `stop` is modelled.
- Time stamps of log lines, wording and layout of messages, the limit of 1023
  bytes per line and the fixed buffers of the trimming functions, connecting to
  the database in the builders.
- A second start of a cancelled timer: nothing asks for one.

Open, in this order: liveness of `Server` (a word that is asked often some time
comes from the slave), for which its state space would have to be cut down; the
hazard of an interval below 3 has no property because the code promises
nothing there; truncated UTF-8 in `WordOps` (`Jieba` has it for the segmenter);
a proof that the recursion of the edit distance finds the cheapest alignment,
and with it `AnswerIsBest`; `CacheManager` against a specification of its own (a cache whose
file is some earlier content) as a refinement.
