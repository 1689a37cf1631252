# A TLA+ model of the HTTP/SQL server

The repository is a small database server in C. `server_main.c` starts a server
(`server/server.c`) that accepts connections and hands them to a thread pool
(`server/thread_pool.c`). A worker reads one HTTP request (`server/http.c`), has
its body executed as one SQL statement (`server/api.c`, `sql_processor/sql.c`)
against an in-memory table (`sql_processor/table.c`) that is indexed by B+ trees
(`sql_processor/bptree.c`), answers in JSON (`server/json_util.c`) and closes the
connection. `sql_processor/main.c` is a second program on the same SQL layer, a
prompt that reads statements from its input.

This directory models that system. TLC checks the models on small instances,
TLAPS proves what matters most about each component for all values of the
constants. `PROJECT.json` lists the runs, the theorems, the lines of code behind
each definition, and for every property a mutation of the model it detects.

## 1. Inventory

| Component | State | Operations | Talks to | What makes it correct |
|---|---|---|---|---|
| Thread pool, `thread_pool.c` | ring buffer (`jobs`, `head`, `tail`, `size`), `stop_requested`, mutex, condition variable, worker threads | init, submit, shutdown, destroy, the worker loop | called by the accept thread, calls the handler | FIFO, each descriptor served once, no lost wake-up, drained before exit |
| Server, `server.c`, `server_main.c` | `g_shutdown_requested`, listening socket, table, pool | create, run (accept loop), destroy, the signal handler | pool, table, kernel, signals | resources outlive their users, nothing leaks on any path, a signal ends it |
| Connection handler, `server.c`, `http.c`, `api.c` | request buffer, body, result | read head and body, run the statement, encode, send | client socket, table | the right bytes are executed however they arrive, answers are true, the handler returns |
| Users table, `table.c` | `next_id` and its mutex; per bucket a rwlock, rows, an index | insert, lookup by id, scans | called concurrently by all workers | inserts atomic, ids unique, scans complete and sorted |
| B+ tree, `bptree.c` | nodes with keys, children, parent, next | insert, search, destroy | called under the bucket's lock | finds exactly what was inserted, balanced, well linked |
| SQL parser, `sql.c` | cursor, command, error | text to command or error | handler, prompt | accepts its language and no more, commands mean what was written |
| SQL execution, `sql.c` | the result and its array of rows | plan to table call, destroy result | table, parser | outcome reported as it is, memory freed once |
| JSON buffer, `json_util.c` | text, length, capacity | append, escape, detach, destroy | handler | never overrun, what it holds can be read back |
| REPL, `main.c` | a table | create, read and execute lines, destroy | SQL layer | as the SQL layer; leaves nothing behind |
| Unit tests, benchmarks, scripts | | | | not modelled: no part of the programs |

The hard behaviours are the interleavings of main with the workers through one
mutex and one condition variable; signals that race with `accept`; teardown while
workers run; scans that take one bucket lock after the other while inserts run;
an id counter and integer literals that overflow; allocations that fail halfway
through an operation; text that has to be escaped, cut or refused at a boundary;
and a stream that arrives in arbitrary pieces from a client that may stop at any
point. `PROJECT.json` lists them as hazards, each at its line, with the properties
that cover it, or the reason why none does.

## 2. Modules

    JobQueue      <- refined by -  ThreadPool  <- extended by -  Server
    UsersTable    <- refined by -  Table  -- extends -->  Where
    BPTree        (what Table takes for its index, and for the ways it fails)
    Connection    (what ThreadPool takes for its handler)
    Query         -- extends -->  SqlParser, JsonBuffer, TableLife, Where
                  (what Connection takes for the statement and its answer)

**JobQueue** is what the pool promises: a bounded FIFO of descriptors with Put,
Take, Finish, Stop and Leave, and the progress that goes with it.

**ThreadPool** is `thread_pool.c`. Each worker has a program counter for
the loop of `thread_pool_worker_main`; the test of the wait condition (`MustWait`)
and the sleep (`CondWait`) are separate steps, because a store without the mutex
can come between them. Main's critical sections are one step each, enabled when
the mutex is free. `CondSignal`, `CondBroadcast` and `SpuriousWake` are POSIX's
condition variable. The failure path of init is modelled with its unlocked store
(a data race in C; on the machines the build targets the store becomes visible at
some moment, which is what interleaving it freely says).

**Server** extends ThreadPool with main's position in `server_create`,
`server_run` and `server_destroy`, the signal flag, the table's life and the
listening socket. Every step main takes on the pool is an action of ThreadPool,
taken where `server.c` makes the call. A signal may be handled by main, where it
interrupts `accept`, or by a worker, where it does not; a SIGPIPE ends the process.

**Connection** is one run of `server_handle_client`. Bytes are positions of a
stream and `recv` returns any number that fits, so `BodyIsExact` can say which
bytes reached the SQL layer. A request is abstracted to what the code branches on:
the length of its head, the kind of its request line and header lines, the value
of Content-Length (which goes through `strtoul`: too large a number saturates, a
negative one wraps), where the body has its first zero byte, and the kind of statement
before and without it, since `api_handle_query` gets a C string. An INSERT is the one
step of the handler that waits for other workers; it is no part of the fair step.

**UsersTable** is what the table promises the threads that share it: a set of rows
that only grows, atomic inserts under fresh ids, and SELECTs that are regular
rather than atomic: they return all matching rows stored before they began, and
possibly some stored since, once each and in order of id. The set `damaged` says what is
left of the promise when memory runs out inside `bptree_insert` (finding 3): an INSERT
that fails may damage ids of stored rows and its own; a lookup of a damaged id may find
nothing or a record that has been freed, and such an id may be given to a second row. All
other SELECTs, and all other ids, keep the promise.

**Table** is `table.c` driven as `sql_execute_plan` drives it. Drawing the id,
taking a lock, changing the index, appending the row and collecting a bucket are
separate steps. Ids are ints of `INT_BITS` bits that wrap, and the bucket of an id
uses C's remainder. The index of a bucket is the set of rows that a search from its root
finds. An allocation may fail before `bptree_insert` has changed anything (`InsertFails`) or
after it has split a leaf (`InsertTears`): then a run of neighbouring keys is cut off
(`CutOff`, whose shape is FailedPromotionLosesARun of BPTree), `table_insert` frees the
record, and if the record's key is on the side that stayed, the index keeps an entry for it
(`freed`), which makes what a lookup of that key reads arbitrary.

**BPTree** is `bptree.c` on a heap of nodes. One step of the walk, one split, one
new root is one action, and each allocation may fail.

**SqlParser** is `sql_parse` with every function it calls. A text is a sequence of
tokens, the longest runs of characters the code treats as one, white space
included, because the code skips it in some places and not in others. `Write`
appends the next token only when the parser looks at it, so the run covers every
text as far as the parser reads it: every wrong token at every place, and the end
of the text anywhere. Integers go through `strtol` (saturating to `LONG_BITS`) and
the cast to int (wrapping to `INT_BITS`).

**JsonBuffer** is `json_util.c`: capacity, doubling, escapes, ownership. A cell of
text counts one whether it stands for a character or for a fixed piece of JSON.

**TableLife** is `table_create` and `table_destroy`: the mutex and, bucket by
bucket, a lock and an index, each of which may fail to be made.

**Where** is the meaning of a WHERE clause and the loop that copies the rows it holds
for, shared by Table and Query.

**Query** composes the four into the life of statements: the table is created, a
text is parsed, the plan executed, and the result either encoded as JSON, append by
append as `api.c` does it, and handed over, or printed by the prompt and destroyed;
then the next text comes. `meant` is a history variable that holds what the text
says, read off its tokens without the parser.

**MC\*** modules give constants their values.

**ThreadPoolProofs**, **ServerProofs**, **TableProofs**, **TableRefinement**,
**BPTreeProofs**, **ConnectionProofs** and **QueryProofs** hold the theorems about the component they
are named for; **BasicLemmas** holds what several of them use about numbers,
sequences and the row loop.

Operators whose comment begins with "Mutant" are mutations of the operator after
them; no specification uses them. They show that each property can fail.

## 3. Runs

Run a check with `tlc -config <cfg> <module>`.

| Run | What it shows |
|---|---|
| `pool` | 3 workers, 2 slots, 3 descriptors, `pthread_create` may fail: ring buffer, one owner per descriptor, no lost wake-up, nobody asleep after stop, drained before exit, refinement of JobQueue with its progress; every connection is closed; destroy returns |
| `pool_init_failure` | **violated**: `thread_pool_init` may hang in its own failure path |
| `server_lifecycle` | 2 workers, 1 slot, 3 descriptors, every failure of `server_create`, signals at any time: table outlives handlers, nothing left at exit, at most one late connection, teardown completes, every connection closed, and nothing but a blocked `accept` or a hanging init holds up a signal |
| `server_signal_hang` | **violated**: a signal may leave main asleep in `accept` |
| `table_interleavings` | 2 clients, 2 kinds of rows, 3 buckets, 2-bit ints, 5 INSERTs and any number of lookups by index, by scan and by name, allocations may fail, in the middle of a split too: index and rows agree and ids are unique except for damaged ids, rows only grow, refinement of UsersTable |
| `table_progress` | 3 clients, 2 INSERTs and scans without end: refinement; lookups return, and an INSERT is held up for ever only by readers that keep coming |
| `bptree_inserts` | the code's order, 10 keys in every order, one allocation may fail anywhere: searches, balance and fill, links, leaf chain; only a failure during promotion loses keys from the walk, these are a run of neighbours of at least half a leaf, and none leaves the leaf level |
| `bptree_torn` | **violated**: a failed promotion makes stored keys unreachable |
| `connection_answers` | 406 requests under every cut of the stream and every failure: buffers hold, the body is exact, answers depend on the request alone, are those of the contract up to four departures, and are true; the handler returns unless an INSERT never gets its lock |
| `connection_false_500` | **violated**: an INSERT may be executed and answered with "Failed to execute SQL" |
| `query_answers` | all texts up to the point where the parser gives up, 5 literals, 5 names, up to 3 rows, allocations may fail: the language, what is executed, the JSON a client reads, room for the terminating zero, every block freed once |
| `query_literals` | **violated**: a literal that does not fit an int becomes another number |

### Bounds

* Pool: a lost or misdirected wake-up needs two workers and two queued jobs; with
  three workers one is busy, one asleep and one on its way. `pthread_create` may
  fail at every worker; what is claimed of the queue's progress excepts an init that
  fails, which may hang (finding 1). The theorems remove these bounds from the
  safety half.
* Server: one slot, so that a queue that is full, a worker that is busy and a
  descriptor in main's hands need only three descriptors.
* Table: an int of two bits (-2 .. 1) makes the first INSERT overflow `next_id` and
  the fifth meet a duplicate, within `MAX_INSERTS` = 5; three buckets distinguish
  C's remainder from the mathematical one. SELECTs are not bounded. Clients are
  symmetric in the safety run; the progress run has a third client, so that two
  readers can overlap while a writer waits. The order of the index is 2, the smallest
  there can be, so that the second row of a bucket splits a leaf and may tear it: INSERTs,
  lookups and the duplicate test then go on in the torn index. The theorems are for every
  order.
* B+ tree: with order 4, the tenth key is the first that can split an internal
  node. Keys are tried in every order; records are told apart as the first or a
  later one for their key. One failure (`MAX_FAILURES`) is enough to tear the tree;
  what is claimed of a torn tree is ChainKeepsKeys and FailedPromotionLosesARun, which also
  looks at every point where a promotion could fail.
* Connection: a buffer of 6 and bodies up to 3; heads that leave room, fill the
  buffer exactly and do not fit; lengths 0, below, at and one above the limit, negative
  ones that wrap to a length within and beyond the limit, and ones that do not fit an
  unsigned long; bodies with a zero byte first, in the middle and at the end.
* Query: sizes are scaled down so that every boundary is crossed: an int of 3 bits
  and a long of 5, with literals that fit both, one and neither; names of up to two
  characters, with one that just fits and one that does not; an excerpt of two
  characters; a first capacity of 4 cells, so that a response makes the buffer grow
  several times. White space may follow every word, and once (`MAX_BLANKS`) stand
  anywhere else. No statement is read with more than `MAX_ROWS` rows stored; two
  rows are there from the start, one with a quotation mark, one with a backslash and
  a line feed in its name. A table of two buckets is created before them.

### Fairness

Threads that can run do run: weak fairness on each worker and on main inside a
call. Nothing is assumed of clients, of signals, or of when main shuts down. That
a handler returns is an assumption of ThreadPool (`Handle` is part of the fair
worker step). `HandlerReturns` of Connection justifies it, from the socket time-outs
`server.c` sets, with one exception that it names: an INSERT that never gets the write
lock of its bucket, which the repository's README (line 715) leaves to the
implementation and OnlyReadersDelayWriters shows to be possible. So EveryConnectionClosed,
KeepsQueueProgress, TeardownCompletes, ConnectionsClosed and DestroyReturnsEventually are claimed
for workloads in which no writer is starved. A SELECT needs no such proviso: readers are
not kept out by waiting writers, and writers hold the lock for a bounded time. A mutex that is free infinitely often is not promised
to any particular thread, so Server assumes that spurious wake-ups are finitely
many; otherwise workers that wake up for nothing could keep main out. In Table a
thread inside an operation runs; nobody has to start one. The lock is granted to
any reader while it is not held for writing, as glibc's default does, so writers can
starve: without its second disjunct OnlyReadersDelayWriters is violated by one
client that scans again and again. OnlyReadersDelayWriters shows that nothing else ever keeps an
operation from returning.

## 4. Theorems

The proofs are checked by `tlapm`. They hold for all values of the constants that meet
the assumptions in the modules: the numbers are natural, sizes that the code fixes
above zero are above zero, values for "none" are distinct from real ones. The
assumptions that say more are:

* `IntAssumption` (Table, SqlParser): a power of two is a natural number, and a long
  is as wide as an int; both follow from the widths, but not for the provers;
* `QueryAssumption` (Table): a lookup by id looks for an int, which is the type of the
  parameter of `table_find_by_id_copy`;
* `RequestAssumption` (Connection): a request has a head, its length, the length of the
  rest and the place of the first zero byte are numbers, and Content-Length is an integer;
* `TextAssumption`, `RowsAssumption` (SqlParser, Query): literals are integers, names
  are sequences of characters, and the rows stored at the start are rows.

TLC evaluates all of them on every run.

### Pool and server

The pool's invariant is built in layers, each using the ones before it.

1. **Control** (`ControlCorrect`): typing, plus what the positions of workers and
   main imply about each other: the mutex is held exactly by the worker at "test"
   or "wait", only workers below `index` exist during init, a worker has exited
   only if the pool was stopped, joined workers have exited, and so on. None of
   the properties is inductive without it. `TypeCorrect` (TypeOK) and
   `StopWakesAll` (NoSleepAfterStop) follow.
2. **Ring** (`RingCorrect`): RingConsistent, using Control for the one step that
   resets the fields.
3. **Ownership** (`OwnershipCorrect`): DescriptorOwnership, by following how
   `Occupied` changes in a dequeue and in a submit.
4. **Wake-up** (`WakeupCorrect`): NoLostWakeup, a statement about cardinalities:
   submit adds one job and moves one sleeper, a dequeue removes one of each.
5. **Drain** (`DrainCorrect`): DrainedBeforeExit, from Control and Ownership.
6. **Refinement**: Spec implies ImplementsJobQueue. The queue is read off the
   ring buffer; the lemmas show that a dequeue is Tail and a submit is Append of
   that sequence.

Every step of the server is by its definition a step of ThreadPool or leaves the pool
alone, so every theorem about the pool holds in the server (the lemma `ServerUsesPool`,
which says nothing about `server.c` by itself). With an invariant that relates main's position in `server.c` to its
position in the pool (`ServerControlCorrect`) this gives `TableSafe`
(TableOutlivesHandlers), `ExitClean` (NothingLeftAtExit), `LateBound`
(AtMostOneLateConnection) and `ServerTypeCorrect`.

### Table

The index and the rows of a bucket differ while a writer is between `bptree_insert`
and its append, and two writers may be there in two buckets at once. The invariant
`Inv` of TableProofs therefore says who holds which lock and in which mode
(`LockOwners`), what each client is in the middle of (`Requests`), that rows and
requests are in the bucket of their id (`Placed`, which rests on
`BucketOfId`: C's remainder, corrected, is the mathematical one for negative ids
too), and that, damaged ids aside, the index of a bucket holds its rows and the row its
writer is about to append (`IndexContents`, `DistinctIds`). A failed promotion is a step like
the others: the rows it cuts off and the entry it leaves behind become damaged with it
(`TearDamages`), no step heals or spreads the damage (`DamageKept`), and a key that is freed
is always a damaged one, so that a lookup of any other id reads a live record. From it follow `IndexAgrees`
(IndexMatchesRows), `IdsUnique` (UniqueIds), `RowsAreKept` (RowsOnlyGrow) and
`TypeCorrect`.

`Implementation` is the refinement of UsersTable: every step of the bucketed table is
a step of the atomic one or leaves it alone. What a SELECT has collected so far
(`SelectInv`) is all matching rows that were stored when it began and lie in the
buckets it has visited, each once, and none of a bucket still to come. When it
answers, all buckets have been visited; the lemmas about the sort and the row loop
turn that into the answer UsersTable allows. `InsertTears` maps to `FailDamaging`, a lookup
that meets a freed record to `AnswerDamaged`. CutOff is not derived from the tree here: that
a failed promotion has this shape is model-checked (FailedPromotionLosesARun).

### B+ tree

BPTreeProofs, for every order of three or more (`OrderAssumption`; the code's is fixed in
`bptree.h`), any integer keys and any number of inserts and of failed allocations. The
four properties speak of the tree between two calls; an insert in between may have split a
leaf and several parents, and what it has half done must be described too. They also
depend on facts that no node records, which the invariant `Inv` therefore quantifies:

* `h`, the height of a node above the leaves. A split gives the right half the height of
  the left one, a new root is one higher. Heights rule out cycles and make the walk end.
* `path`, the nodes from the root to where the insert came down. The promotion climbs by
  the parent fields; that it meets the same nodes, and finds `left` among the children of
  its parent, is what makes `ChildPosition` a real position.
* `span`, the keys that the walk from the root brings to a node. While a separator is being
  promoted the right half is not a child yet and the two halves together have what the left
  one had (`Share`).

`Inv` has two parts. `Frame(h, path)` holds always: children and parents fit together, the
halves of a split are alike, leaves are linked to leaves, and each key whose insert returned
1 is in a leaf (`Kept`). `Sound(span)` holds unless an allocation has failed in a promotion
(`torn`): every node but the right half is a child (`Attached`), nodes are half full and
ordered (`Filled`), each child has exactly the keys its separators give it (`Spans`), the
chain ascends (`Chained`), and the leaves have what was inserted and nothing else
(`Contents`). `FrameStep` and `SoundStep` have one lemma per action and part; the lemmas
`RouteInserted` and `RouteCut` say what a new separator, and a cut of the separators, do to
the choice of the child.

From `TreeInvariant` (Spec => []Inv) follow `TreeWellLinked` (WellLinked), `LeavesKeepKeys`
(ChainKeepsKeys, the part about a torn tree from Frame alone), `TreeBalanced` (Balanced: on
the way up from any leaf there are as many nodes as the root is high, `LeafDepth`) and
`SearchFindsInserted` (LossOnlyByPromotion: the walk ends at the one leaf whose span has the
key, `WalkEnds`, `OneSpan`).

### Connection

WithinBuffers, BodyIsExact, FaultlessAnswer and InsertAnswerTrue (`BuffersHold`,
`ExactBody`, `ExpectedAnswer`, `TrueAnswer`) for buffers of any size, any requests and
any cut of the stream. `Reading` says where the handler is in the stream: what it has
received is in the buffer or in the body, and the body is the part of the stream
right after the head. `Deciding` says that whatever stage it is in, the answer that
stage leads to is the expected one unless something failed. `Storing` says when a row
can have been stored. What is expected is stated from the contract, without the code's order
of tests and without `strtoul` for lengths that are not negative; `HeadExpected` shows that
the two agree.

### Query

`TypeCorrect`, `RoomKept` (RoomForTerminator), `FreedOnce` (EveryBlockFreedOnce),
`LockModesAgree`, `LanguageAccepted` (AcceptsTheLanguage),
`WrittenExecuted` (ExecutesWhatIsWritten) and `AnswersReadable` (AnswerIsReadable), for
texts of any length, any literals and names, any rows and capacities. LockModesAgree compares
the lock that the first word of the text asks for with the kind of plan the parser makes (two
functions `sql.h` exports; the programs themselves call neither); `Origin` carries the first word
through the parser. RoomForTerminator rests on `Values` and on a lemma about the loop
that doubles the capacity: it ends, with room for the text and its zero. EveryBlockFreedOnce
needs `Memory`, which says that exactly what can still be reached is allocated, and
`Life`, the same for the locks and indexes of a table that may be half created.

`LanguageAccepted` and `WrittenExecuted` compare the parser, which moves a cursor over the
text, with readings of the whole text. `Reading` connects them: the words before the cursor, without white
space (`Said`), are the first words of a statement (`InsertSays`, `SelectSays`), how many
is told by the place the parser is at (`Index`), and the fields of the command are what
these words say; the same holds of the words without semicolons (`Sense`). A semicolon
that was let through before WHERE is the `d` of `SaidUpTo`. `Typed` says that the type
the command will get is the one of its column. From there:

* a text that is accepted is a sentence: when the parser reaches the end it has said a
  whole statement, and these, with or without their semicolon, are the sentences
  (`SentenceShape`, `ShapeSentence`, `AcceptedSentence`);
* a text that is refused begins no sentence (`RefusesAtOnce`): the words that were said
  tell which sentences are left, and at every place the token that is refused is none
  that any of these has there. `Refused` is proved at the step that refuses and kept
  until the result is returned;
* what is executed is what was written: when the plan is executed the command has the
  words of the text, an integer in range is not changed by `strtol` and the narrowing
  (`IntKept`), every comparison is executed as the one its mark stands for
  (`ComparesAsWritten`), and the row loop keeps exactly the rows that the clause holds for
  (`MatchingKeeps`).

`AnswersReadable` is about the way back, from the result to what a client that reads the
body as JSON makes of it. The response is appended in pieces and the reader takes it a
character at a time, so the invariant `Answering` follows the reader: the part of the body
that is in the buffer brings it to a state (`Reads`) from which the pieces still to come
bring it to what is expected (`ReadsAll`, `Building`). `Verdict` and `Outcome` say what the
parser and the execution hand to the response. When it is begun, all its pieces are still
to come, and that they say what is expected is put together from its parts: `Conveys` says
what pieces tell a reader who is outside of a string, wherever they stand. It holds of a
fixed text with numbers in it (`PlainConveys`; the digits of a number hold no quotation
mark, `DecimalCells`) and of a JSON string (`CellsRead`: each character, escaped or not,
gives the reader that character back; `StringConveys`), one part after another
(`ConveysJoin`), and so of any number of rows (`RowsConvey`). That the rows are the ones
that the statement means is WrittenExecuted.

### How

Induction over data is done by hand: the library's induction theorems have an operator
as a parameter and cannot be used, but the least element of a set of numbers can
(`LeastNumber`), and gives induction on membership (`InductionUpTo`). What a recursive
function computes is proved in two parts: that the recursion has a solution, and
what every solution is like.

### Only model-checked

All liveness, including the progress half of the refinement of JobQueue: fairness and
ENABLED are beyond TLAPS. FailedPromotionLosesARun of BPTree, which is about the tree in
the middle of an insert and after a failed one. Every other invariant and every action
property of a passing run is stated by a theorem.

## 5. Findings

1. `thread_pool.c:95`: the failure path of init stores `stop_requested` and
   broadcasts without the mutex. A worker between its test and its sleep misses
   both, and init waits for it for ever.
2. `server.c:224`: the signal flag is tested before `accept`. A signal in between,
   or one handled by a worker, does not end the server until the next connection
   arrives. The same window lets one connection in after the signal, although
   `docs/plan/11-implementation-policies.md:37` says that none is accepted;
   AtMostOneLateConnection proves that it is no more than one. SignalHeldUpOnlyByAccept
   shows that nothing else makes a signal late, but for finding 1.
3. `bptree.c:198` and `269`: a leaf is split before the node that will point to its
   right half is allocated. If that fails, keys that were stored become
   unreachable and the index may keep a pointer to the record the caller frees. Table
   follows it: a lookup of such an id misses a stored row or reads freed memory, scans
   still find every row, and once `next_id` has wrapped around the id can be stored twice.
4. `api.c:181`: the JSON buffer is allocated after the statement is executed. If
   that fails the client reads "Failed to execute SQL" about a row that is stored.
5. `sql.c:204`: an integer literal is cast from long to int without a range check:
   `VALUES ('a', 4294967316)` stores the age 20.

FaultlessAnswer states the documented contract with the departures the code makes from it,
and shows that there are no others:

* a request without any header line is answered with 400 whatever its method and path are,
  because the head is cut before its empty line and the request line then has no line end
  (`http.c:139-140`);
  `README.md:371-372` and `docs/plan/03-api-contract.md:124-125` say 405 and 404;
* a negative Content-Length is not refused, as `docs/plan/03-api-contract.md:126` has it
  for a wrong one, but wraps around in `strtoul` (`http.c:200`): 413 in most cases, but a
  valid length for numbers just above the negated range of an unsigned long;
* a body longer than Content-Length is answered as if it ended there.
  `docs/plan/11-implementation-policies.md:16` asks for 400 when the two differ;
  `docs/plan/03-api-contract.md:117` agrees with the code;
* a statement ends at a zero byte in the body, and the rest is ignored.

Two departures of the parser from its language are named in SqlParser and are part
of AcceptsTheLanguage, which shows that there are no others. `SELECT * FROM users;
WHERE id = 1` is accepted, because `sql_match_statement_end` (`sql.c:247`, "Accepts an
optional semicolon and trailing whitespace at the end.") has moved past the semicolon
before it fails. And INSERT and SELECT, unlike EXIT and QUIT, may not be preceded by
white space (`sql.c:537`).

## 6. Not modelled

The benchmarks (`perf10.c`, `cond10.c`, `perf_test.c`, `condition_perf_test.c`), the
unit tests and the scripts: they measure or test the components above and keep no
state of their own. The wording of messages, printing, and command line parsing.
`table_find_by_name` and `table_find_by_age`, which return the first of the matches
Table models and are called by a unit test only. What an excerpt quotes behind the
next token, and whether bytes of 0x80 and above form UTF-8. Time: a slow client can
hold a worker for as long as it sends a byte per time-out, and one that does not read
its 503 delays the accept loop by the send time-out. The early returns of `table.c` for
pthread calls that fail (lines 246, 255, 297 and the like): the mutex and the locks are default
ones and initialised before the table is used, no thread asks for a lock it holds, and the
readers are far fewer than the counter of a rwlock holds, so none of these calls can fail.

## 7. Plan

Done: the pool with its abstract specification and proofs, the server composed
with it, the table with its abstract specification, the B+ tree, the connection, and
the SQL layer from the text of a statement to its JSON.

Proved: the safety properties of the pool, the server, the table, the B+ tree, the
connection and the response's memory, what the parser accepts and refuses, that it is
executed as written and that its answer is read back, and both refinements (their
safety).

Next: a composition of Table and BPTree in which the index is the tree, so that CutOff is
derived and not stated, and a proof of FailedPromotionLosesARun from the spans of
BPTreeProofs.
