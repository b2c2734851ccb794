# A verification of MSTL

MSTL is a header-only C++ library: a standard library for learners (containers,
strings, algorithms, smart pointers, streams, files, dates, JSON) and, built on
it, the parts that run threads: a thread pool, a database connection pool, a
lock-free queue, a timer, a shared pointer, and a servlet with sessions. This
directory holds TLA+ models of both halves, the configurations that check them
with TLC, and proofs that TLAPS checks: about the concurrent half, and of the
sequential one about the file, the vector, the blocks of shared pointers and the
objects that hold objects.

The concurrent parts are state machines whose steps interleave. The sequential
parts are translated call by call, and every call is checked on every small
state or input against what its name promises. Where the code does not keep the
promise, the model does what the code does, and the property says exactly when
and how the result is wrong, so that a change of the code in either direction
would break it.

Sources are named below by their file under `include/MSTL/`.

1. Inventory of the system
2. Modules, and how they correspond to the code
3. What the runs check and show
4. Bounds
5. Fairness
6. Proofs
7. What the models found in the code
8. What is not modelled
9. Plan

## 1. Inventory of the system

| component | state it keeps | operations | shared with | what is hard |
|---|---|---|---|---|
| thread pool (`ext/thread_pool.hpp`) | task queue, map of threads, idle counter, sizes and limits, `is_running_` | `set_mode`, `set_*_threshhold`, `start`, `stop`, `submit_task`; `thread_function` in each worker | one mutex, three condition variables; `start`, `stop` and the counters partly outside the mutex | lost wake-ups, exits by two paths, growth and shrinking, restart, submits that overlap `stop` |
| database pool (`ext/database_pool.hpp`, from 1114) | queue of idle connections, `running_` | constructor, `get_connect`, the deleter of the `shared_ptr` it returns, producer and scanner threads, destructor | one mutex, one condition variable for opposite predicates | a connection with two users or none, broken connections, a server that goes away, shutdown |
| connections (`ext/database_pool.hpp`, up to 1113) | the native handle of MySQL, SQLite or Redis | construct, `connect_to`, `reset_connect`, `close`, `is_valid`, queries, destruct | used by the pool | handles closed twice or leaked when a step fails |
| lock-free queue (`ext/lock_free_queue.hpp`) | list of nodes with split reference counts, `head`, `tail` | `push`, `pop` | atomics only | reclamation, ABA, helping, a pop racing a late push |
| timer (`ext/timer.hpp`) | ordered set of nodes, id generator | `add`, `erase`, `check`, `sleep` | callbacks re-enter it | iterators across callbacks, order of equal expiries |
| shared pointer (`core/memory.hpp`, 1170-1470) | owner pointer, atomic count | copy, move, assign, reset, destruct | the count | last-owner races, pointers inside the objects they own |
| servlet and sessions (`web/servlet.hpp`, `web/session.hpp`) | listening socket, workers, map of sessions | `start`, `stop`, accepting, requests, forwarding, filters; create, find, erase, sweep sessions | one mutex in the session manager; raw pointers outside it | sessions erased under a request, cookies lost, workers and `stop` blocked in `accept`, `::read` or `::send` |
| buffered file (`core/file.hpp`) | descriptor, read and write buffers, positions | open, read, write, seek, tell, flush, truncate, close | none | read-ahead against position, partial writes, calls of the kernel that fail half-way |
| ordered containers (`core/rb_tree.hpp`, `map.hpp`, `set.hpp`) | nodes with links and colours, a header, a size | insert with and without a hint, erase, bounds, copy, move, swap | none | eight mirrored cases of rebalancing, the header's leftmost and rightmost |
| unordered containers (`core/hashtable.hpp`, `unordered_*.hpp`) | buckets of chains, a size | insert, erase, rehash, iterate, copy, move, swap | none | equal keys adjacent in a chain, sizes that follow, tables without buckets |
| deque, stack, queue (`core/deque.hpp`, ...) | a map of buffers, two iterators | push, pop, insert, erase, resize at either end | none | positions at buffer boundaries, growth of the map |
| vector, list, bitmap (`core/*.hpp`) | a buffer and its end, a ring and a count, words of bits | every modifying call | none | reallocation, aliasing arguments, word boundaries |
| heaps, sorting, algorithms (`core/heap.hpp`, `algo*.hpp`, `numeric.hpp`, `ext/sort.hpp`, `ext/leonardo_heap.hpp`) | none of their own | functions on ranges; `reduce` over parts in threads | threads in `reduce` | index arithmetic, references to elements that move |
| strings, views, C strings (`core/basic_string.hpp`, `string_view.hpp`, `basiclib.hpp`) | buffer, size, terminator | every modifying call, search, comparison, tokenizers | none | terminators, lengths off by one, arguments inside the string |
| streams, encodings, dates, JSON (`core/stringstream.hpp`, `string.hpp`, `hexadecimal.hpp`, `utility.hpp`, `datetime.hpp`, `json.hpp`) | position and flags, fields, the parser's stack | read, write, convert, add, compare, parse, build, print | none | boundaries of values, carries, error states |
| values that hold values (`core/optional.hpp`, `any.hpp`, `variant.hpp`, `functional.hpp`) | storage and what is built in it | construct, assign, emplace, reset, swap, move | none | built once, destroyed once, also when a constructor throws |
| memory (`core/memory.hpp`) | raw ranges, aligned blocks, owners | `uninitialized_*`, temporary buffers, `unique_ptr`, every way to make a `shared_ptr` | none | exceptions half-way, overflow, who deletes how |
| random numbers, DNS, type traits, printing, query results | little | conversions and accessors | none | nothing that several steps share |

How they interact. A worker of the pool calls the submitted task, which fulfils
the future the client waits for. The database pool makes connections through
the common base class of the three back ends and hands them to clients as
`shared_ptr` objects whose deleter gives them back. The polling loop of the
timer's test owns the timer; callbacks run inside `check`. The servlet's workers
share only the session manager and the socket. The containers serve all of
them; where a model uses one (the pool's map and queue, the timer's set) it
takes the container for what it promises, which the modules of the containers
check separately.

What makes each correct is, in short: a task once accepted is run once, in
order, by a pool that neither sleeps through it nor through `stop`; a connection
has one owner and works when it is handed out; a native handle is closed once; a
pushed value is popped once, in order, from memory that is still there; a timer
fires in order or not at all; an object dies with its last owner; a session
serves one client, which learns its name, while it is valid; a file is one
sequence of bytes with one position, whatever its buffers hold. A container
holds the elements its calls say, in a representation that is well formed; an
algorithm returns what its name says of every input; an object that is held is
built once and destroyed once, by what made it.

`PROJECT.json` lists all components with their status and, under `hazards`, the
places in the code where these can go wrong, each with the properties that watch
it or the reason why none does.

## 2. Modules, and how they correspond to the code

A section of code that holds a mutex and neither waits nor leaves it is one
action. Every access outside a mutex that another thread can see is an action of
its own. A condition variable is a program counter value: `wait` puts the thread
there, `notify_all` moves every such thread back to where it relocks the mutex
and tests again, and a spurious wake-up or a time-out may move it at any time. A
definition whose name is that of another with a suffix (`NotifyExit_forgotten`)
is not part of the model but a plausible bug used to test the properties.

**ThreadPool** (`ext/thread_pool.hpp`). `threads`, `queue`, `idle`, `running`,
`initSize`, `mode`, `taskMax`, `threadMax` are the members of the class (the
atomic `task_size_` is the queue's length); `nextId` is the process-wide
generator of ids. `wpc` and `wtask` say where each worker is in
`thread_function` and what it holds, `tpc` how far each call of `submit_task`,
then its task, has come, `octl` and `k` where the owner is in `start` or `stop`.
`start` is not one step: it publishes `is_running_`, creates each thread, starts
each one and counts it, and workers run in between. `idle_thread_size_` is kept
as an integer and reduced modulo 2^32 where the code compares it.
`Overlap = FALSE` stands for clients that call `submit_task` only between
`start` and `stop`. In CACHED mode any other client races with `start` for an
unordered map and no result is defined.

**TaskExecutor** is what `submit_task` promises: accepted tasks start in the order
of acceptance, once, and finish; refused tasks are never run. `ThreadPool`
implements it with the queue as the pending tasks and `tpc` for the rest.

**DatabasePool** (`ext/database_pool.hpp:1114-1296`). `queue` is
`connect_queue_`, `held` the connection in each client's `shared_ptr`, `ppc`,
`spc`, `cpc`, `dpc` the places of producer, scanner, clients, and of constructor
and destructor. `create_connect` runs with the mutex held, so making a
connection is part of its caller's action. `sound` and `up` are the external
server: which connections answer, and whether new ones can be made. The
destructor's two steps, clearing `running_` and notifying, are outside the mutex
in the code and separate here, and so are the producer's test of `running_` and the
wait that follows it, the first time (`ProducerChecks`) and when it was woken
(`ProducerTests`). The latter test is made with the mutex held; as it reads nothing
that the mutex guards, it is put before the lock is taken.

**LendingPool** is what the database pool promises: connections are free or lent to
one borrower, new ones may be made, free ones discarded, none after it closes.

**DbConnection** (`ext/database_pool.hpp:352-1112`). Which object points to which
native handle (`ptr`), and which handles the client library has open (`native`).
The methods are operators on a record so that `reset_connect` can call `close`
and `connect_to` as the code does. `leaks` names the handles that constructors
of the SQLite class left open, the one leak that the code has; `failed` marks a
SQLite connection that was reset in vain, whose next use closes its handle
twice, and there the behaviour ends.

**LockFreeQueue** (`ext/lock_free_queue.hpp`). One action per atomic access, in the
order of `push` and `pop`. Compare-exchange loops that only add to a counter are
one action, as their failed rounds change nothing. The 30- and 32-bit counts are
reduced modulo `CountMod`. `heap` tells which addresses hold a node; a deleted
address is reused. `data` of a new node is what `FreshData` says: the code does
not initialise it, which C++20's `std::atomic` constructor makes null and
earlier standards leave undetermined.

**FifoQueue** is what the queue promises. A push takes effect when the tail moves
past its node and a pop when the head does.

**Timer** (`ext/timer.hpp`, with the loop of `tests/try.cpp`). `timers` is the set,
ordered by expiry and id; `running` the callbacks in progress. The node stays in
the set while its callback runs, as in the code.

**SharedPtr** (`core/memory.hpp`). An assignment is several steps: the old owner is
released, which may destroy objects and, through their members, more objects;
then the source is read. `inside` records that an assignment read a pointer of
the object it had just released, after which anything may happen. The relaxed
ordering of the decrement is taken as sequentially consistent.

**Servlet** (`web/servlet.hpp`, `web/session.hpp`). One action per locked section of
the session manager and per unlocked use of the pointer it returned. `jar` is
the cookie each client keeps, `sent` the one in the request, `fresh`, `dead` and
`expired` are `is_new_`, `invalidated` and the outcome of the comparison with
`max_age_`. A worker at "read" is in `parse_request`'s `::read` and one at "send" in
`::send`; neither has a time-out, so what happens next there is the client's doing
(`ClientStep`): the request arrives, whole or cut short by the end of the connection
(`Receive`), or gives a length that is no number (`ParseThrows`), or the response
is taken (`Send`).

**File** (`core/file.hpp:188-758`, Linux). Each public method is one action, since
no two threads share an object. `disk` is the file at the path, `offset` and
`atEnd` what the kernel keeps for each descriptor; `rbuf` and `wbuf` are the used
parts of the two buffers; `allocated` says whether `open` has given them their
size, which a move does not hand over. A flush has three outcomes: everything
stored, an error, or (with `ShortWrites`) a part stored, and in the last two the
code keeps the buffer as it was. A file keeps two buffers over one kernel offset
and does not reconcile them. `Disciplined = TRUE` is a user who does it for
them, by the rules `MayRead`, `MayWrite`, `Alone` and `MayMove`: a flush or seek
before a read that follows writes, a seek before a write, tell or truncate that
follows reads, no seek to before the start of the file right after reads, one open
object of a path, and moves only onto an object that has been opened before. The rule
about the start is for what `seek` does when `lseek` fails: the read buffer is gone
by then (703), and with it the position (section 7). Once nothing is read ahead,
such a seek fails and changes nothing, and the user may try it.

**SeekableFile** is what a file promises such a user: bytes with one position, and a
lagging stored copy that agrees after a flush that succeeds. File maps to it by
`Content` (the disk with the write buffer over it), `Pending`, `Appends` and
`Position` (the kernel's offset less what was read ahead, or past what is
buffered). **ByteSeqs** has the
operators on byte sequences that both use.

**The containers.** A state of each is the container, or two of them, since copies,
moves and swaps need two; a call is an operator on it, translated statement by
statement on the concrete representation, and the elements that it should hold
are carried along as history. The invariant of each module compares the two and
states that the representation is well formed.
**RbTree** has the tree (a function from nodes to their links, the mirrored halves
of the code folded into one with the side as a parameter), **OrderedContainers**
the four containers on it. **HashTable** has buckets of chains with the four
unordered containers; **Deque** the map of buffers and the two iterators, with
stack and queue; **Vector**, **List** and **Bitmap** theirs. The argument of a call of
Vector is a reference: to an object elsewhere, or to an element of the vector itself
(`Own`), which is read when the code reads it (`Given`), after the elements have moved.
A flag `ok` turns false
when the code touches memory outside its buffers; the invariants say after
which calls it does.

**The algorithms.** **Algorithms** and **Sorting** translate loops to functions on
sequences and compare each with a definition of what it is for. An element is a
key and a number, which shows stability and tells a lost element from a copied
one. A step of the run picks a call and an input; the property looks at the
result.

**Text.** **Strings** is the storage of `basic_string`: buffer, size, terminator, leaks.
**StringSearch** has comparing and searching in views and strings, **CStrings** the
functions on terminated arrays and the tokenizers, **Characters** the classes of
characters, **StringStream** the string streams, **Encodings** UTF-8, escaping and
numbers as text, **DateTimes** the calendar, **Json** the parser as a machine with a
stack, the builder and the printer.

**Values.** **Values** has `optional`, `any`, `variant` and `function` as holders in which
objects are built and destroyed, with constructors that throw and arguments
inside the holder. **Memory** has the uninitialised algorithms, temporary buffers,
alignment, overflow and `unique_ptr`; **SharedOwners** the ways to make a
`shared_ptr` that SharedPtr leaves out (aliases, casts, adoption from a
`unique_ptr`, `make_shared`, `shared_from_this`, a control block that finds no
memory), in one thread.

**MCFile** gives File's constants values; ThreadPool, Servlet and DatabasePool get
theirs from the configurations alone. TLC runs one instance of
each group of parts that do not interact, in which a behaviour picks one part
and leaves the others as they are: **MCAtomics** (the queue and the shared
pointer), **MCComponents** (timer, connections, files, and the queue for its
liveness), **MCContainers** and **MCLibrary**. They extend the modules that
theorems are about, so that a run checks the very property that a theorem states,
and instantiate the others with values; a variable `st` has the state of those.

The theorems (section 6) are in **ThreadPoolProofs**, **DatabasePoolProofs**,
**LockFreeQueueProofs**, **ServletProofs**, **FileProofs**, **ContainerProofs** (vector and bitmap),
**ComponentProofs** (timer and connections) and **OwnershipProofs** (the counts of
SharedPtr, the blocks of SharedOwners, the holders of Values).

## 3. What the runs check and show

| run | shows |
|---|---|
| `pool_fixed` | FIXED mode, submits overlapping `start` and `stop` at will: no task is lost, duplicated or run twice (`OneHolder`); `start` finds its threads after a restart (`StartFindsItsThreads`); no worker sleeps through `stop` and `stop` does not sleep for ever (`NoSleepAfterStop`, `ExitSignalled`) |
| `pool_cached` | both modes: no lost wake-ups on either condition variable, the number of threads within its bounds, the idle counter never too low, growth until the first stop, the refinement to TaskExecutor, accepted tasks are run, `stop` returns |
| `pool_restart_growth` | a violation: after a restart the pool does not grow any more (section 7) |
| `db` | one owner for every connection, nobody sleeps through what it waits for, only working connections are handed out, the refinement to LendingPool, `get_connect` returns while the server is up, the destructor wakes a sleeping producer |
| `db_destroy` | a violation: the destructor may hang (section 7) |
| `atomics` | the queue: no node is used after it is freed and none leaks (`NodesSound`), a pop returns a value that was pushed and is taken once, the refinement to FifoQueue. The shared pointer: no object is used after its last owner has gone, counts equal owners (`OwnersSound`) |
| `lfq_lost` | a violation: a pushed value is lost (section 7) |
| `components` | timer: nothing dangles, order of expiry, erased timers stay silent, the polling loop ends. Connections: every handle is open just while one object has it (`HandlesSound`); files: the same of descriptors (`DescriptorsOwned`). Queue: every call that keeps running returns |
| `web` | no session is used after it is erased, sessions are private to a client and announced to it (`SessionsSound`), only valid ones are bound, the requests of a client that is prompt end however long another stays silent, and a request that was read gets to its response (`RequestsEnd`); `stop` waits for nothing but a client: in `accept`, or in the `::read` or `::send` of one that is not prompt (`StopWaitsOnlyForClients`) |
| `file` | a disciplined user's file object is a SeekableFile (`ImplementsStream`): over buffer boundaries, failed flushes and partial direct writes, seeks in both directions and past the start, appends, reopening and moves |
| `containers` | `ContainersSound`: the ordered containers are red-black trees of what was inserted, whatever order of calls; the unordered ones hold what their calls say or have lost exactly the nodes the model names; deque and list hold the elements that their calls say, inside their buffers and in rings that agree, but after the calls named. `VectorSound`, `BitmapSound`: the same of every call of a vector or a bitmap in every state; of a vector also with one of its own elements as the argument (`OwnSound`), right just when the code reads it before it moves or releases it |
| `library` | `LibrarySound`: what each call on ranges finds, leaves and returns, the sorts, raw memory and `unique_ptr`, and on which inputs each is wrong; the same of strings, searches, C strings, streams, encodings, dates, JSON. `ValuesSound`: what is held is what was given last and is built and destroyed once, but where named. `SharingSound`: a block of a `shared_ptr` counts its owners, and its object dies once, with the last |

The passing runs state deadlock checking off, because all these systems may stop:
clients need not call, the models bound the number of calls, and a part of
`library` ends when it has looked at its input.

For every property of every passing run `PROJECT.json` names a mutant, one
definition changed the way a plausible bug would change it, under which TLC finds
the property violated.

## 4. Bounds

| constant | value | why it is enough |
|---|---|---|
| `Tasks` | 3 (2 in the violation) | two fill a queue of limit 2 and one blocks; one task can be queued, one running and one blocked at once |
| `MaxIds`, `StartSizes`, thread limits | 2-5, {1, 2}, up to 3 | a pool at its size, growing above it, at its limit, and shrinking |
| `MaxStarts` | 2 | one restart, which is where ids and counters are reused |
| `UIntMod` | 16 | larger than any count reached, small enough that a counter below zero would be seen as a large one |
| `Conns`, `Clients` | 4, 2 (3, 2 to destroy) | one idle, two lent and one being made; freed ones are reused |
| `MaxCalls`, `MaxFaults` | 3, 1 | one client may call again after a fault that met the other |
| pushes, pops, nodes | 2, 2, 5 (2, 1, 4 in `components`, for liveness) | two pushes at one tail need helping, two pops at one head race, and a node is freed and its address reused |
| `CountMod` | 8 | above every count that four calls reach; `inner` does pass through negative values modulo 8 |
| timers, clock, delays | 3, 4, {0, 1, 2} | equal expiries, one added by a callback, one erased by it |
| `Users`, `Objs` of SharedPtr | 2, 2 | two owners dropping the last two references, and an object owned by a member of another |
| objects, handles of DbConnection | 3, 5 | a handle freed by one object reused by another while a third lives; all three back ends |
| workers, clients, ids, forwards | 2, 2, 2, 1 | parallel requests of one client and of two, one forward; `Prompt` has one of the clients, so that the other may block a worker in `::read` or `::send` for ever |
| `BufferSize`, `DirectOver`, `Inputs` | 2, 2, lengths 1 to 3 | a write that fits, one that fills the buffer and continues, one that bypasses it; a read of 3 refills the buffer |
| `MaxLen`, `MaxFaults`, objects of File | 3, 1, 2 | a file longer than the buffer; one failure, after which the same bytes are tried again; one move each way. `Distances` is {-2, 0, 3}: back inside the file and to before its start, in place, past the end |
| ordered containers | map of 5 keys, set of 3, multi containers of 2 keys and 3 elements | with five nodes every case of rebalancing after an erasure happens; two containers for copies and swaps |
| unordered containers | keys that hash to 1, 6, 11, 2; 2 then 5 buckets | chains of three, a rehash that splits a chain and one that does not |
| Deque | buffers of 2, at most 4 elements, a map of up to 6 | every position of first and last in a buffer, growth at both ends, the full last buffer |
| `MaxCap`, `MaxNew` of Vector; List | 6, 4; 3 elements (4 in two lists) | one reallocation and none, an insertion in front, inside and behind; a splice of every part |
| `WordBits`, `MaxWords`, `MaxBits` of Bitmap | 3, 2, 4 | ranges across a word boundary, an insertion longer than a word, a full last word |
| Algorithms | 3 keys, 5 elements in two ranges | empty, equal and disjoint ranges, a range inside another; parts of 2 in `reduce` |
| Sorting | all sequences of 5 and the longer ones of `Longer`, 3 keys | duplicates everywhere; longer ones where recursion passes its threshold and a Leonardo heap merges twice |
| Strings | initial capacity 3, at most 7 | growth, shrinking, an argument inside the string, every position |
| texts of StringSearch, CStrings, StringStream | 4 with words of 2; 3 with words of 2; 3 | a word at either end, overlapping occurrences, a word longer than the text; every sign and space before a digit |
| Encodings | 3 units, 4 signs, integers of 8 and 5 bits | every boundary between lengths of UTF-8 and both halves of a surrogate pair; overflow by one sign |
| DateTimes | 5 years around the epoch and around 0, two clocks, zones of one second to five hours | leap years that are and are not, negative stamps, carries of one day and of more |
| Json | every text of 2 units, four longer ones with one change, 8 calls of the builder | each rule of the grammar is met and broken; nesting of two |
| Memory; `Numbers`, `MaxHeap` of Values; `MaxBlocks` of SharedOwners | ranges of 5, 64 addresses; {0, 1, 2}, 4; 2 | a constructor that throws at each place; self-assignment, and an exchange of every pair of states |

Outside their assumptions the properties fail in a few steps: SharedPtr when
`p = p->next` counts as a use after deletion, Timer with callbacks that erase
their own timer or call `check`, Servlet with `Careless = TRUE` or a handler that
invalidates and forwards, File's `ImplementsStream` without its rules or with
`ShortWrites = TRUE` (section 7). The models therefore state the assumption
under which they hold.

## 5. Fairness

Weak fairness of each thread's own steps: an operating system keeps running
threads that can run, and a contended mutex is eventually acquired by each
thread that wants it. Nothing forces a client to call, to send
its request or to take its response (but those of `Prompt`, which is what prompt
means), a server to come back, a
spurious wake-up or a fault to happen, an idle worker to have been idle for
sixty seconds, or a client that was notified also to time out. A `wait_for` that nobody
ends does time out, as its clock runs. `GetConnectReturns` assumes a server that
is up from some time on: while it is down the producer may notify a waiting
client more often than it can time out (section 7). The lock-free queue
guarantees only that some call proceeds; `CallsReturn` holds because the number
of calls is bounded, so that the others are done at some time.

## 6. Proofs

TLAPS checks the following about the thread pool for every set of tasks, every
number of threads and restarts and all limits, from the assumption
`PoolAssumption`, which types the constants.

| theorem in ThreadPoolProofs | states | under |
|---|---|---|
| `TypeCorrect` | `[]TypeOK` | |
| `NoWorkerMissesTask` | `[]WaitOnlyWhenEmpty` | |
| `NoWorkerMissesStop` | `[]NoSleepAfterStop` | |
| `OneHolderEach` | `[]OneHolder` | |
| `PoolIsExecutor` | `ImplementsExecutor`: the pool implements TaskExecutor | |
| `IdleCounted` | `[]IdleNeverUnder` | |
| `ExitIsSignalled` | `[]ExitSignalled` | `0 \notin StartSizes` |
| `NoSubmitterMissesRoom` | `[]BlockedOnlyWhenFull` | `Overlap = FALSE` |
| `StartFinds` | `[]StartFindsItsThreads` | `Overlap = FALSE` |
| `SizeBounded` | `[]PoolSizeBounds` | `Overlap = FALSE` |
| `GrowsFirst` | `GrowsInFirstCycle` | `Overlap = FALSE` |

These are all the safety properties of the pool's passing runs. The argument, in the order of the module:

- *Wake-ups.* `WaitOnlyWhenEmpty` is inductive on its own: a worker goes to sleep
  only on an empty queue, and the two steps that leave the queue non-empty notify
  everyone. `NoSleepAfterStop` needs `RunningExact`, that `is_running_` is false
  exactly while the owner is outside `start` .. `stop`, so that no worker can go
  back to sleep. `BlockedOnlyWhenFull` needs `SubmitInv`, that no submit is in
  progress when the owner changes the limit.
- *Where the tasks are.* `OneHolder` would break if a new thread were given the
  id of one that exists, since its program counter would be overwritten.
  `MapExact` excludes this: the map holds exactly the threads that exist, all
  with ids below `nextId`. `OneHolder` is split into the queue's half and the
  workers' half, and `TasksMove` reduces the steps to the four that move a task
  and those that move none.
- *Refinement.* The same four steps are the four steps of TaskExecutor; by
  `OneHolder` an enqueued task is new to it and a finished one was running.
- *Number of threads.* `StartInv` says what `start` has made so far. It needs the
  bound on the number of threads (no worker may leave by its idle time-out while
  `start` walks the map, because the map is not above its size), and the bound
  needs it (the map has exactly `initSize` threads when `start` returns), so they
  are proved together as `SizeInv`.
- *The last exit.* A worker that was idle too long leaves without notifying, but
  only from a map larger than `initSize`. With `initSize >= 1` the map is not
  empty afterwards.
- *The counter of idle threads.* `Drift` is by how much the counter, with the
  thread that `start` is about to count, exceeds the idle workers. A step leaves
  it as it is, but for the exit of a worker that was stopped, which adds one
  (`DriftSteps`): so it is never negative, and it is 0 until the first `stop`
  (`FirstCycle`). Then a counter of 0 is read as 0 when every thread is busy.

And about the database pool, for every set of connections and clients, all sizes
and any number of calls and faults, from `DbPoolAssumption`: the sizes are
numbers, `Conns` is finite, and the null pointer is neither a connection nor a
client.

| theorem in DatabasePoolProofs | states |
|---|---|
| `TypeCorrect` | `[]TypeOK` |
| `NoSleepThrough` | `[]NobodySleepsThrough` |
| `OwnedOnce` | `[]OneOwner` |
| `HandedOutSound` | `HandsOutSound` |
| `PoolLends` | `ImplementsLending`: the pool implements LendingPool |

These are all its safety properties. The argument:

- *The queue.* `PushFacts`, `PopFacts` and `ScanFacts` say of any sequence what
  pushing, popping and the scanner's cut do to its elements, and that they keep
  them distinct. They rest on the library's facts about `Append`, `Tail` and
  `SubSeq`.
- *Shutdown.* `Shape` ties the other threads to how far the owner is: clients are
  away unless the pool is open, and the producer is done once it is joined.
  `NobodySleepsThrough` needs it, because the destructor empties the queue
  without waking anybody, and the constructor fills it so.
- *Owners and the refinement.* `StepKind` shows that every step is of one of five
  kinds: it discards idle connections, makes one, lends one, takes one back or
  closes the pool. Both theorems follow from the kinds alone. A step that lends
  names a connection that is idle or at an address no living one has, which is
  what keeps owners apart; and with one owner each, the borrower that the
  refinement mapping chooses is the client that holds the connection
  (`BorrowerFacts`).

About the lock-free queue, for every set of calls and nodes:

| theorem in LockFreeQueueProofs | states | under |
|---|---|---|
| `TypeCorrect` | `[]TypeOK` | `Enough` |
| `NodesStaySound` | `[]NodesSound` | `Enough` |
| `PopsReturnWhatTheyTook` | `[]PopsReturnTaken` | `Enough`, `NewIsNull` |
| `QueueIsFifo` | `ImplementsFifo`: the queue implements FifoQueue | `Enough`, `NewIsNull` |

`Enough` says that there are finitely many calls and nodes, and fewer calls than
a count has values (2^30 for the narrower of the two): counts wrap around in
model and proof. `NewIsNull` says that `std::atomic<T*>` starts as null, which C++20 added; the
nodes are sound without it, the values are not. These are all the safety
properties of the queue's passing run. The argument:

- *The line.* The list from head to tail is a sequence `s` that no variable holds,
  so the invariant is `Sound == \E s : Struct(s)`. Every other node is `Loose` (in
  the hands of one push, or linked behind the tail and waiting for anyone to
  swing it) or has been passed by the tail, and then has a successor (`Passed`).
- *Three counts that never agree.* What `outer` counts is whether the node is still
  to be left by the tail and by the head (`Sides`). What `inner` counts means
  nothing on its own: with what the tail, the head, or the call that has just
  moved one of them is still to pass on, it is the number of calls that hold the
  node, modulo the width of a count (`Counts`). As there are fewer calls than
  values, `inner = outer = 0` means that nobody holds the node, and nobody will.
- *Steps.* `StepShape` finds the line after each step: `Swing` appends the node it
  reads, `MoveHead` drops the first, no other step changes it. A failed
  compare-and-swap of a stale node is harmless because the node is still held, and
  therefore neither freed nor reused: this is what excludes ABA.
- *Values.* `Filled`, `Once` and `Returned` follow a value from the push to the
  node, to `taken` and to the result. A node of the line but the last holds a
  value that no other node and no pop has.
- *Refinement.* The queue's mapping walks the list by a recursive function
  (`Behind`); `ChainIsLine` shows, by the smallest index where they would differ,
  that it yields the line. `Swing` then is `Add`, `MoveHead` is `Remove`, and all else
  stutters (`SwingAdds`, `MoveHeadRemoves`, `ElseStutters`). The linearization
  point of a push is the swing of the tail, whichever call does it.

The other theorems rest on one inductive invariant for each component, and hold
for any number of threads, objects, addresses and sizes under the assumption named.

| theorem | states | under |
|---|---|---|
| `OwnershipProofs!OwnersStaySound` | `[]OwnersSound` | `Apart`: finitely many threads and objects, and objects, locals and null are different things |
| `ComponentProofs!HandlesStaySound` | `[]HandlesSound` of DbConnection | `Usual`: the three back ends, of which users close only Redis connections themselves, and null is no handle |
| `FileProofs!DescriptorsStayOwned` | `[]DescriptorsOwned` of File | `Distinct`: the invalid handle is not one the kernel gives out |
| `FileProofs!FileIsStream` | `ImplementsStream`: a file implements SeekableFile | `Usual` of FileProofs: `Distinct`, a disciplined user, `ShortWrites = FALSE`, numbers and texts are such, `BufferSize > 0` |
| `ComponentProofs!NoEraseDangles` | `[]NoDanglingErase` | `Plain`: callbacks neither erase their own timer nor call `check` |
| `ComponentProofs!FiringStaysSound` | `FiringSound` | `Plain` |
| `ServletProofs!SessionsStayPrivate` | `[]SessionsPrivate` | |
| `ServletProofs!BoundSessionsAreValid` | `BindsValid` | |
| `ServletProofs!SessionsStaySound` | `[]SessionsSound` | `Careful`: no session ends while another request uses it, and no handler forwards what it has invalidated |
| `ContainerProofs!VectorsStayInside` | `[]VectorInv`: two vectors stay inside their buffers, whatever calls are made | `VectorAssumption`: the sizes are numbers, and a call inserts no more than the largest buffer has room for |
| `ContainerProofs!VectorStaysSound` | `[]VectorSound` | `VectorAssumption` |
| `ContainerProofs!BitmapsStayInside` | `[]BitmapInv`: two bitmaps show the bits put into them, whatever calls are made | `BitmapAssumption`: the sizes are numbers, and a word has a bit |
| `ContainerProofs!BitmapStaysSound` | `[]BitmapSound` | `BitmapAssumption` |
| `OwnershipProofs!BlocksStaySound` | `[]SharingSound` of SharedOwners | nothing: any number of blocks |
| `OwnershipProofs!HoldersStaySound` | `[]ValuesSound` | `ValuesAssumption`: the values are integers, one of them that of `T{}`, and the heap has a place for each of three holders |

- *Shared pointers.* `CountExact` speaks of quiet moments only. `Counted`
  strengthens it: at every step the count of an object is the number of its
  holders, which are pointers whose operation has not released them yet and the
  references in the hands of a thread that is releasing. `Orderly` says that no
  two threads work on one pointer and that an object somebody works in has an
  owner. Each step moves one holder; the library's facts about finite sets then
  give the count.
- *Ways to share.* `Owed(s, a, b, h)` says that each block counts those of the three
  references `a`, `b` and `h` that are to it, and that its object is alive just while
  there are any. Between calls, `a` and `b` are what the two pointers own and `h` is
  nothing (`Settled`). A call is then a sequence of three moves: a count goes up
  and the reference is in hand, the one in hand is given up, and a pointer takes
  what is in hand and leaves there what it owned. That the pointers may also point
  at other objects than they own (aliases), and that an object may be lost when
  its control block finds no memory, are told by the same parts of the invariant.
- *Holders.* `HoldersInv` has a part for each kind. For `any` and `function`, `Whole`
  says that every holder has what its tag says, that no two share a place of the
  heap, and that what is in the heap somebody holds; `Value` forgets where an object
  is kept. Each call, by way of a temporary or not, then only gives a holder a
  value, passes one on or exchanges two (`Holds`, `Passes`, `Exchanges`). That a free
  place exists needs the third holder, the temporary, to be counted. A function
  has besides the invoker of what it holds (`Fitted`). An optional is `OptWell` with
  respect to the objects that it has forgotten, which is where the code's missing
  flag leaves them; a variant is `Full`, with an object of the type in its index,
  until one of the calls is made that the property names.
- *Vectors.* The code copies element by element between ranges that overlap, forwards
  or backwards, and reads some arguments after it has moved them. `CopyUpIs` and
  `CopyDownIs` say what such a loop leaves, by the least round at which it would
  leave something else; the recursion is a function, which the library's theorem
  on well-founded numbers shows to exist. From them follows what each call leaves of
  any vector that fits its buffer (`Fits`), and from those `VectorSound`, which
  quantifies over every call in every state. `VectorInv` is inductive, as no call
  that the steps make touches a cell outside the buffer.
- *Bitmaps.* `At(b, n)` is the iterator to the bit `n` of a buffer. `Advance`, `BumpUp`,
  `BumpDown` and `Diff` do to it what `+`, `+ 1`, `- 1` and `-` do to numbers; for `Advance`,
  which divides and truncates towards zero, that is where a negative step matters.
  After that words are forgotten: `View(m, b, n)` is the bit `n`, and `CopiesAt`,
  `CopiesBackAt` and `WritesAt` say what a loop leaves, again by the least round at
  which it would leave something else. A bitmap `Shows` a sequence, and each call
  on one that shows some bits leaves one that shows the bits the call is to leave
  (`MoveUpShows`, `RegrowShows`, `ErasedShows` and the like). `BitmapInv` is that both
  bitmaps show numbered bits.
- *Handles.* The methods are composed as in the code, so the lemmas `Opened`,
  `Closed` and `SqliteConnected` compute what each composition does to the set of
  open handles; all steps but two then come down to one change (`Change`): an object
  gives up its handle and gets a new one or none. A SQLite connection that was
  reset in vain, and a use, are the two.
- *Descriptors.* A step keeps the descriptors, exchanges the one of an object for
  a new one or none, or hands one over (`SameKeeps`, `GetsKeeps`,
  `PassesKeeps`). The rules for the user and the buffers play no part.
- *Files.* `StreamInv` adds to the descriptors that at most one object is open, that
  its write buffer is within its size, that one of its two buffers is empty,
  and that what was read ahead is still what the disk has in front of the kernel's
  offset (`Consistent`): without the last, a read from the buffer might return
  bytes that were overwritten since. The user's rules keep it so. Most steps on the
  open object are then one of three. A read moves the border between buffer and
  disk (`AheadIsRest`, `Consumed`, `MovesOn`). A write stores some bytes `u` and
  keeps `l`, where `u` and `l` together are what was buffered and what the call took
  (`Puts`); the user sees the same bytes at the same place as if they had been
  written at once, since two overwrites in a row are one (`OverwriteTwice`,
  `PutsWrites`). A flush stores all or, when it fails, nothing (`Flushes`,
  `Untouched`). Opening, closing and moving come last (`Closes`, `MoveStep`): a move
  is a stutter for the user, because both objects have empty buffers. What a line
  is, and that one with a newline has a first one, rests on well-founded numbers
  as in the timer (`LineLengthIs`).
- *Timers.* An id names one node for ever, and the node of the running callback is
  in the set. That `timer_set_.begin()` exists and is least comes from the
  library's theorem that the natural numbers are well-founded (`LeastNumber`,
  `FirstIsLeast`).
- *Sessions.* `Private` generalises the property to everything that can name a
  session: jar, request, binding and pending cookie. All steps but the creation of
  a session only pass on what is known already (`NothingNew`), and a new id is
  known to nobody. `CarefulInv` adds that a bound session is one that `get_session`
  would hand out now (`Usable`), that a session still marked new is known to its
  request alone (`Secret`), and that a client will be told (`Told`); without
  `Secret` another request could take the mark away before the cookie is set.

Only model-checked: `ContainersSound`, the containers but for vector and bitmap, and
`LibrarySound`, the library but for Values and SharedOwners, because most of their
operators are recursive; and liveness. Of every other invariant and action property of a
passing run the theorems state the very definition that the run checks. Of File, a user who breaks the rules and short
writes are outside both the run and the theorem, since the property fails then
(section 7).
Out of the prover's reach in principle are liveness under fairness and
`ENABLED`, induction over data (what a recursive definition computes for every
input), and modules that use RECURSIVE operators. Where a proof needs an
induction over rounds or positions, it takes the least counterexample instead
(`LeastNumber`).

## 7. What the models found in the code

Shown by a run that expects a violation:

- `ext/thread_pool.hpp:189` A worker that leaves because the pool stopped does
  not decrement `idle_thread_size_`. After a restart the counter is too high and a
  busy CACHED pool does not grow (`pool_restart_growth`).
- `ext/database_pool.hpp:1217` The destructor clears `running_` and notifies
  without the mutex. Between the producer's test and its wait both are lost, and
  `join` never returns (`db_destroy`).
- `ext/lock_free_queue.hpp:162` A pop empties the data of the node it took. A push
  that counted this node as the tail finds it empty, stores its value there and
  returns; the value is in no queue (`lfq_lost`).

Met while modelling; no run expects them, because nothing in the repository says
otherwise or because they are outside the modelled part:

- `thread_pool`: `submit_task` ignores `is_running_`, so a task accepted after the
  last worker left waits for the next `start`; a refused task's future holds a
  default value; `start` walks the map unlocked; after `start(0)` in CACHED mode a
  last worker that idles out while `stop` waits leaves it waiting for ever.
- `database_pool`: while the server is down the producer's loop notifies without
  pause and a client's time-out may never win (1150, 1242 against 1120); the
  constructor retries without end when the server never comes up; an exception
  at 1265 deletes a connection twice; `max_size_` bounds only the idle ones;
  the SQLite class leaks the handle of its constructor, its factory loses the
  object when `create_connect` fails (760), and a reset that fails leaves a handle
  that is closed twice.
- `lock_free_queue`: `data` uninitialised before C++20 (25); the destructor's
  `while (pop())` does not end, as a pop of the empty queue returns a pointer to a
  value-initialised object (114).
- `timer`: a callback that erases its own node, or calls `check`, leaves `check`
  with a dangling iterator (99); `add` takes a delay called `ms` and adds it
  to a clock of microseconds.
- `shared_ptr`: `p = p->next` reads its source after releasing the object it is
  in (1340); a control block that finds no memory leaks the object (1321), and
  `reset` then leaves a pointer without an owner; arrays are deleted with `delete`;
  `shared_ptr(nullptr)` of a type with `enable_shared_from_this` writes through
  null; `shared_from_this` in a destructor deletes twice; `make_shared` of an
  over-aligned type frees the aligned address before C++17; a null `unique_ptr`
  gives an owner whose deleter is called with null; cycles leak, there is no weak
  reference.
- `servlet`: a forward drops the cookie of a new session (409, so
  `SessionAnnounced` is stated for requests that were not forwarded); session
  pointers are used outside the mutex (602); `::read` (508, 536) and `::send` (649) have
  no time-out, so that a client that connects and stays silent, or takes no response,
  holds a worker for ever, and `stop` with it; `close` does not wake `accept` (867),
  so `stop` may wait for one more client; a failed `start` leaves the socket
  open; the destructor waits for the sweeper's five-minute sleep.
- `file`: a short write keeps the whole buffer, so the next flush stores the
  beginning twice (220); a move leaves the buffers behind, so pending writes are
  lost, the new object reads nothing or what the old buffers held, and a write
  into buffers without a size is undefined (380); a `seek` that
  `lseek` refuses, to before the start of the file, has dropped the read buffer (703)
  and returns false with the position moved past what was read ahead (713); `tell`,
  `seek` from the current position, `truncate` and a write after a read ignore what is buffered (717,
  746); `write(data, size)` with a size beyond the data copies `size` bytes (519
  uses `size`, not `real_size`), so File writes whole strings only; `close` gives
  no sign of a failed flush (463); `prefetch` of a closed file may answer true
  (735).
- `rb_tree`: `insert_unique` leaks the node it rejects (630); a tree that was moved
  from has no header; `map::at` does not throw for an absent key when a larger one
  is present (`map.hpp:178`).
- `hashtable`: `insert_unique` loses the nodes of a chain in front of a duplicate
  and replaces the value (343); erasing a range from inside a chain erases to the
  end of the chain (289); a range inserted into a multi container is inserted
  uniquely (583); tables built with a size, and those moved from, have no buckets;
  `bucket`, `count` and `equal_range` do not compile; `operator==` depends on the
  order of chains.
- `deque`: built with a multiple of the buffer size it leaves `finish_` at the end of
  a buffer, where no other call expects it; a swap of iterators nulls the second,
  so swap and move assignment ruin the other deque; growing the map overwrites
  spare buffers; clear and the destructor leak buffers; `insert(pos, own element)`
  reads it after the shift; `assign(range)` and `stack::emplace` do not compile.
- `vector`: an argument that is an element of the vector itself is read after the
  elements have moved: of a full vector `push_back(v[i])`, and `emplace` or `insert` of
  an element in front of the place, store what the move left behind (508); with room,
  an element at the place does so too and one behind it gives its neighbour's value
  (498); `insert(pos, n, v[i])` may give a shifted one (600), and `assign(n, v[i])` beyond
  the capacity reads a freed buffer. (A scalar that was moved from keeps its value,
  so that of these a vector of scalars has only the shifted values and the freed
  buffer.) `emplace` and `insert` at `end()` with spare capacity loop 2^64
  times; inserting n copies uses the wrong distance; `assign(n, v)` beyond the
  capacity keeps the old elements; `vector(n, T&&)` gives the value to the first
  only; `pop_back` destroys the cell behind the last.
- `list`: `empty()` is true for one element, so erase, pop and remove_if leave the
  last one and splice skips lists of one; splice and merge do not move the counts;
  inserting an empty range runs off the ring; copy assignment does not compile.
- `bitmap`: `insert(pos, first, last)` does not compile.
- Algorithms: the default `upper_bound` is `lower_bound` (`algo.hpp:768`) and
  `equal_range` ends too early; the bidirectional `reverse` is right up to one
  element, and `rotate` of bidirectional ranges, which reverses three times, only when
  nothing moves; `copy_backward` and `move_backward` of contiguous ranges, and with them
  `shift_right` and the insertion sort of raw arrays, write past the end;
  `lexicographical_compare` of contiguous ranges compares bytes; `shuffle` without
  a generator never leaves an element in its place, so `monkey_sort` may never end;
  `reduce` counts the initial value once for each part; `transform_reduce` adds
  zeroes; set_intersection, set_difference, set_symmetric_difference, find_if,
  remove_if, erase, random-access rotate, inplace_merge, merge_sort, tim_sort and
  bucket_sort do not compile.
- Sorting: `introspective_sort` and `nth_element` partition by a reference to an
  element that their swaps move, which is right only up to five elements (`sort`
  itself is right); `smooth_sort` of one element reads `levels[-1]`; the Leonardo
  heap does not pop its stack of levels (`leonardo_heap.hpp:114`), right up to
  eight elements.
- `basic_string`: copy assignment leaks; strings built from iterators, and an
  insertion at the end with room, have no terminator; an input range gives twice
  the size; `insert(n)` with room loses elements; `erase` to `npos` shifts the wrong
  way; a `replace` that grows writes to freed memory; appending own elements
  dangles on reallocation; `substr(size)`, `at(size)` and `replace(size)` end the
  program; `rfind(string_view)` starts at 0; `a >= b` is `!(b < a)`; the searches
  for sets of wide characters compare low bytes; the range check of a view is
  inverted (`string_view.hpp:824`); several overloads do not compile, and
  `u8string_to_utf8` names an undeclared `t`, so `string.hpp` is not C++20.
- `basiclib`: `is_space(char)` shifts without a test for small codes, so that on x86
  I, J, K, L, M, the grave accent and twelve codes from 128 count as spaces; `string_n_compare`
  compares one character less; `string_copy_offset` returns one before the end;
  `string_reverse` returns the middle; the empty word is not found in the empty
  text; `string_last_token` keeps delimiters behind a token; `string_last_char`
  never finds the terminator; `string_n_length` reads one past its limit;
  characters compare as signed.
- `stringstream`: what is written cannot be read back; the end is noticed only by a
  read that finds nothing; a sign stays consumed; a failed read of a bool reads an
  uninitialised variable; `get` and `getline` ignore the fail state. `errorlib`:
  `Exception(const Error&)` throws a sliced object.
- `hexadecimal` and `to_int`: spaces between digits are ignored; "-", "0x" and "" are
  0; the narrower conversions cut without a sign of it.
- `datetime`: `+=` carries at most one day (400); `-=` of exactly the seconds since
  midnight goes a day too far (418); `timestamp::to_datetime` is right only from
  1969-12-31 to 1970-01-02; `day_of_week` is wrong in January and February of year
  0 and before; differences overflow after 67 years; the second before the epoch
  is taken for an error; ISO text of local time ends in Z.
- `json`: unknown escapes stand for their letter, so printed control characters do
  not survive; decimals beyond six are cut; of duplicate keys the last wins; an
  empty key counts as none; `value(map)` that throws leaves its container open.
- `optional`: `optional(U&&)` and assigning a value to an empty one build without
  setting the flag; assigning to an optional of a scalar a value of that scalar's own
  type takes this way too (71 excludes the assignment of values, so that a temporary
  is made by 60-63 and moved by 174-188) and empties a full `optional<int>`; every
  empty one holds a `T{}` that is overwritten without being
  destroyed; `<=` is `!(a < b)`; the hash reads an absent value. `any`: gcc rejects
  its storage, its in-place constructors cannot be called. `variant`: copy
  assignment across alternatives assigns to a dead object (136); an emplace that
  throws leaves an index without an object (250); moves do not compile; the C++20
  constructor's static lambda keeps the first `this` (168). `function`:
  `operator=(F&&)` names an undeclared helper (380).
- `memory`: the catch blocks of `uninitialized_*` destroy the element that was not
  built and leave the first (22); a temporary buffer leaks its first element when
  a constructor throws; the overflow check of the allocator can never fail (538).

## 8. What is not modelled

`PROJECT.json` names every component with what is left out of it. In short:

- Of the servlet, parsing of requests and formatting of responses; of the file,
  its locks, attributes, times, static functions on paths and the Windows branch,
  and a read is taken not to fail; of the connections, queries and result sets; of
  the queue, its destructor and statistics. The pthread wrapper at
  `ext/thread_pool.hpp:47-122` is used by nothing.
- Calls that do not compile, as listed in section 7: there is no behaviour to model.
- Comparison of containers, `array`, `pair` and `tuple`, stateless functors,
  floating point numbers and their text, names of days and months.
- Random numbers, which are taken to be fresh where session ids use them; the DNS
  client and sockets, thin wrappers of system calls; type traits, concepts, macros
  and printing, which have no state (a good part of the lines of the library); trace_memory, which is output only.
- Three hazards have no property that holds. A CACHED pool's `start` walks an unordered map
  that a `submit_task` may change meanwhile (`thread_pool.hpp:278`): a data race
  without defined outcomes. While a server is down the producer notifies without
  pause (`database_pool.hpp:1242`), and whether a time-out ever wins is up to the
  scheduler. `p = p->next` does read a destroyed object (`memory.hpp:1340`), and
  `OwnersSound` sets it aside.
- Arguments of calls on other containers than `vector` are objects from elsewhere,
  not elements of the container, but where section 7 says otherwise.
- The library as C++17 builds it, the default (`CMakeLists.txt:6`). In C++20 the
  iterators of `vector` are contiguous, and `insertion_sort` of one takes the
  `copy_backward` that is wrong (`algobase.hpp:303`), as it does of raw arrays.
- A response sent to a client that has closed its connection raises SIGPIPE
  (`servlet.hpp:649`), which is taken to be ignored: the send then fails.
- Memory orderings weaker than sequential consistency are outside what these
  models can show.

## 9. Plan

Done: the concurrent parts with their abstract specifications (TaskExecutor,
LendingPool, FifoQueue, SeekableFile); the containers; algorithms and sorting;
strings, streams, encodings, dates, JSON; holders, memory and ownership; the
safety proofs of ThreadPool, DatabasePool, LockFreeQueue, DbConnection, SharedPtr,
Servlet, Timer, File, Vector, Bitmap, SharedOwners and Values.

What would come next: the containers in a form without RECURSIVE operators, beginning
with the ring of List, the two iterators of Deque and the storage of Strings, so that their invariants can be
proved.
