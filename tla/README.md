# A formal model of nemea-modules-ng

This directory holds TLA+ specifications of the NEMEA modules in this
repository, configurations that model-check them with TLC, and theorems about
them proved with TLAPS. Every definition is a translation of the source it
names in `PROJECT.json` (`map`); libraries that are not part of the repository
(libtrap, libunirec++, clickhouse-cpp, libtelemetry, rapidcsv, yaml-cpp) appear
only as the source uses them and are marked external.

Commands, from this directory:

    tlc -workers 2 -config ClickhouseSafety.cfg MCClickhouse.tla
    tlapm ClickhouseProofs.tla

## 1. The system

Five programs, each a filter between TRAP interfaces. Each has a record loop in
one thread: `receive()` returns a record, nothing (timeout), a format change, or
the end of the input.

| Part | State it keeps | Operations | Interacts with |
|---|---|---|---|
| clickhouse: main thread (`main.cpp`, `manager.cpp`) | stop flag, current block, field ids, time of the last insert | receive, change of format, write a row, export a block, check errors, stop | blocks through a stack of empty and a queue of filled ones |
| clickhouse: inserter threads (`inserter.cpp`) | client, stop signal, error and its exception | connect, check schema, take a block, insert with retries, give it back | ClickHouse server, both containers |
| clickhouse: `SyncQueue`, `SyncStack` | items, atomic size, mutex, condition variable | put, get, size | shared by all threads |
| clickhouse: column types and schema (`datatype.cpp`, `config.cpp`, `ensureSchema`) | columns and their writers, block columns | parse, prepare, read, write, describe, compare | template of the input, table of the server |
| deduplicator (`deduplicator.cpp`, `timeoutHashMap.hpp`, `timeoutBucket.hpp`) | buckets of eight slots, three counters | look up, refresh, insert, evict | appFs thread reads the counters |
| listDetector: address search (`ipAddressFieldMatcher.cpp`, `octetNode.hpp`, `ipAddressPrefix.cpp`) | one tree per address field, kept in a vector per octet | add a prefix, find the rules of an address | rule builder, rules matcher |
| listDetector: rules and hashes (`ruleBuilder.cpp`, `rule.cpp`, `fieldsMatcher.cpp`, `rulesMatcher.cpp`, `listDetector.cpp`) | rules, masks, hash table, reused buffer, counters | build, hash, match, count, send | trees; appFs thread reads the counters |
| listDetector: CSV file (`csvConfigParser.cpp`, `configParser.cpp`) | header, rows | load, check, describe the template | rule builder, interface |
| sampler (`sampler.cpp`) | two counters | count, sample | appFs thread reads the counters |
| telemetry (`main.cpp`, `ncurses-stdout-plugin.cpp`, `appfs-plugin.cpp`, `outputPlugin.cpp`) | plugin thread, stop flag, mutex, condition variable | parse the option, forward, print, stop | statistics of the interface, read by the plugin's thread |
| common (`unirec-telemetry.cpp`, `logger.cpp`, `pluginFactory.hpp`) | registered plugins, the lock of `loggerGet` | statistics, logging, creation of plugins | all programs; the signal handlers log |
| every `main.cpp` | stop flag, the objects of `main` | construct, loop, destroy | signal handler; the threads whose callbacks read the objects |

What is hard here, and what makes each part correct:

* **clickhouse** is the concurrent one. A block is written by one thread and
  cleared by another without a lock; only its place (stack, queue, main thread,
  one inserter) says who owns it. Inserts are retried after errors and after
  lost answers. Stopping pushes one `nullptr` per thread into a queue that may
  still hold blocks. It is correct if no block has two owners or none, no
  accepted record is dropped while the module runs, records are repeated only
  after a lost answer, and a stop ends.
* **its data path** has its own hazards: field ids change with the template,
  five lists in the source repeat the same types, the block moves to another
  endpoint whose table may differ.
* **deduplicator** removes expired keys lazily, during scans, and leaves holes.
  It is correct if a key is in one slot, with the right time, and if it behaves
  as a cache with a lifetime and an eviction rule.
* **sampler, deduplicator, listDetector, telemetry** share the shape of their
  process: objects are constructed one by one while another thread (appFs, or
  the printer of telemetry) already reads them through callbacks, and are
  destroyed in the opposite order; the format of the input may change at any
  record; SIGINT may come anywhere. They are correct if no callback reads an
  object that is gone, the stop reaches a thread that is about to wait, the
  last print has everything, and records leave in order, each in its own format.
* **listDetector** keeps only the start of each group of child nodes, so every
  insertion has to shift others; a union holds either a position or a rule
  number; rules with different present fields share one table of hashes and
  one reused buffer. It is correct if it does what comparing the record with
  every rule would do.

`PROJECT.json` lists the hazards one by one, each at its line, with the
properties that cover it or the reason why none does.

## 2. The modules

| Module | Models | Notes |
|---|---|---|
| `Clickhouse` | main thread, inserters, stop, SIGINT, failing exit | one action per step between two accesses to shared state |
| `BlockDelivery` | what clickhouse promises | abstract specification: accepted, pending, stored, stopping |
| `SyncContainer` | `SyncQueue` and `SyncStack` | steps of mutex, container, atomic size and condition variable, with spurious wake-ups |
| `BlockingContainer` | what a container promises | atomic put and get; it justifies the atomic put and get of `Clickhouse` |
| `ColumnTypes` | type words, enumeration, traits, visitors, columns, writers | pure operators |
| `ClickhouseConfig` | `parseConfig`: which YAML documents are taken, and the `Config` made of them | extends `ColumnTypes`; pure operators |
| `ClickhouseRows` | start with a configuration, field ids, block columns, schema check, failover | extends `ClickhouseConfig`; one block and one inserter, whose data are looked at |
| `TimeoutBucket` | `TimeoutBucket::insert` | pure operators on a bucket |
| `Deduplicator` | `TimeoutHashMap::insert`, `isDuplicate`, the record loop | extends `TimeoutBucket` |
| `ExpiringCache` | what the map promises | abstract specification of a cache with lifetime, capacity and eviction |
| `IpAddressFieldMatcher` | prefixes, insertion into the tree, search | pure operators |
| `IpRuleTree` | a list of prefixes added one by one | extends `IpAddressFieldMatcher` |
| `ListDetector` | CSV file, rule building, masks, hashes, buffer, matching, counters, record loop | extends `IpAddressFieldMatcher` |
| `ListFilter` | what listDetector promises | abstract specification: take a file whole or refuse it, compare with every rule |
| `OutputPlugins` | the value of `--output`, its parameters and the plugin made of it | pure operators |
| `NemeaModule` | the process of sampler, deduplicator, listDetector and telemetry, from the command line to its end | extends `OutputPlugins`; leaves open what deduplicator and listDetector decide |
| `RecordForwarding` | what the four promise of their output | abstract specification |
| `MC...` | values of the constants for TLC | nothing of the code |
| `...Proofs` | theorems and proofs | section 5 |
| `FoldTheorems` | folds over a sequence, for any operator | extended by no one, instantiated for each fold |

A definition named after a fault (`RecycleLost`, `StopWakeOne`, ...), standing
before the one it distorts, is a deliberately wrong variant. Each property has
one: with it in place of the right definition TLC finds the property violated
(`mutants` in `PROJECT.json`). No specification uses them.

### How state and actions correspond to the code

* **Clickhouse.** `pc` and `idx` are the place of the main thread in
  `processUnirecRecords`, `processRecord`, `stop` and their loops over the
  inserters; `ipc[i]` is that of thread *i* in `Inserter::run` and `insert`.
  `emptyBlocks`, `filledBlocks`, `current`, `hand` are the two containers,
  `m_current_block` and the local variable `block`. A row is the number of its
  record; `rows[b]` stands for the columns and `BlockCtx::rows` together, since
  both change in one step of the block's owner. `stored` counts the copies in
  the table. `Write` is all of `processRecord` after the block is there, up to
  the loop over `checkError`, which is `CheckError`. `m_exception` and
  `m_errored` are set in two steps. After an exception in the main thread
  `Destroy` models the destructors: joinable threads (`std::terminate`), or a
  condition variable destroyed while threads wait on it, which may hang.
  SIGINT comes any number of times; where the main thread may be logging
  (`MayLog`) it may also wait for ever in the handler, and is `stuck` then.
  `WriteThrows` is an exception out of a getter or a column writer. Left out:
  statistics, what is logged, values of columns.
* **SyncContainer.** One action per statement of `put` and `get`; `waiting` is
  the set of threads blocked on the condition variable; `lifo` chooses the
  stack or the queue, which differ in the item taken.
* **ClickhouseRows.** A value is a pair of record and field name, so that
  reading the wrong field is visible; what a getter makes of the value is left
  out. `document` is the YAML file: nested records with the names it has, where
  a scalar that does not convert is `Malformed`. `Configure` is `parseConfig`
  (refused, or the record `config`), `prepareColumns` and the creation of the
  block's columns. Template fields get arbitrary ids at every format change,
  which is more than libunirec does. `NextEndpoint` is clickhouse-cpp's rule
  (the endpoints in turn, each tried once). An insert returns, or throws because
  the connection is lost, or because the server refuses the rows or its answer
  is lost while the connection stands. A table does not change while the
  module runs; stopping is left to `Clickhouse`.
* **Deduplicator.** A bucket is the record of its arrays. The hash stands for
  the key (xxhash over the whole struct; collisions of different flows are not
  modelled). `FlowKey` has uninitialised tail padding that is hashed too, so
  `HashOf` gives a flow a *set* of hashes and each record takes any of them.
  `lastSeen` is a history variable. Counters are taken modulo
  `CounterModulus` (2^32 in the code).
* **IpAddressFieldMatcher, IpRuleTree.** `octets[k]` is the vector of level *k*;
  a node is `[value, ones, isLast, index]`, where `index` is the union of
  `nextNode` and the rule number. Both are `uint16_t`, as are the counter of
  rules and the sums that move a group, and are taken modulo `IndexModulus`
  (2^16 in the code). A position that no node has is `Outside`. A mask octet is
  a run of ones and is represented by its length.
* **ListDetector.** `csvFile` is the CSV file: header and rows of values. `Parse`
  loads and checks it, `Build...` takes row after row; a file that is refused
  leaves the program in phase `refused`. A hash is the sequence of hashed bytes (no collisions); a
  regular expression is the set of strings it is found in. The order in which
  unordered containers are walked is chosen nondeterministically in `Start`.
  The buffer keeps size and capacity, because resizing loses what lies beyond
  the size (a number takes `SizeOfNumber` bytes). A search that follows a
  position outside a level, and a record compared with as many rules as there are
  numbers, lead to phase `undefined` (`ProcessUndefined`), after which nothing is
  said. A malformed row throws out of a `noexcept` constructor:
  `BuildMalformed` terminates the process.
* **NemeaModule.** `args` chooses the program and its command line; `Scope` lists
  its objects in the order of their declarations and `built` says how many exist,
  so construction, an exception on the way and destruction follow one list.
  `pc` is the main thread's place; each catch block and return is a step of its
  own. `printer` is the place of `NcursesOutputPlugin::loopThread`: `check`,
  `block` and `leave` hold the mutex inside `wait_until`, `waiting` is blocked,
  `woken` and `late` have been woken up and want the mutex back. `reader` is the appFs
  thread with the `file` it has open. Of libtelemetry the model assumes what the
  header of the module states: a directory does not own its files, a file runs
  its callback under a lock, a destroyed `Holder` disables its files under the
  same lock, and stopping appFs waits for a read under way. `template` is the
  format of the input and `ids` the one in which the ids of the fields that are
  read were looked up, so which ids a record was read with shows in `sent`. The
  list detector looks them up when its rules are built, in the template of the
  required fields (`RequiredFormat`), and keeps them; the deduplicator looks them up
  before its loop and again at every change of the format; the others read no
  field. SIGINT comes at any step and any number of times; a first or a later one whose
  handler would wait for a lock its own thread holds leads to `hung`.

## 3. The runs

| Run | Instance | States | Shows |
|---|---|---|---|
| `clickhouse_safety` | 2 inserters, 2 blocks of 2 rows, 4 records, every input, clock in both directions, refused inserts, failed starts, failing writes, any number of SIGINTs | 1 116 876 | one owner per block, no block lost, blocks fit their place, order of arrival, no duplicates without lost answers, error published after its exception, enough wake-ups, `BlockDelivery` implemented |
| `clickhouse_liveness` | 1 inserter, 3 blocks of 2 rows, 4 records, refused inserts and lost answers | 74 878 | a stop ends, SIGINT ends the program, a queued block is stored, and `BlockDelivery` with lost answers |
| `sync_container` | 2 putters (3 items), 3 takers, stack and queue | 15 478 | no lost wake-up, exact size, `BlockingContainer` implemented, every get returns |
| `clickhouse_rows` | documents with all 30 types alone (1 endpoint), lists of 2 columns (2 endpoints), missing or malformed nodes; 6 kinds of tables, inserts that throw, 3 records | 709 463 | accepted types are usable, columns stay aligned, rows are records, rows only where the table fits, a fitting endpoint is found |
| `deduplicator` | 2 buckets of 2 slots, 3 flows with 4 hashes, times 0..3 | 225 404 | unique keys, exact times, drops only of recent keys, `ExpiringCache` implemented |
| `ip_rule_tree` | lists of up to 4 prefixes with 4 numbers for them, octets of 2 bits, 2 and 3 octets per address | 551 881 | one last node per rule; lists whose rules of a network stand together are searched exactly |
| `list_detector` | CSV files of up to 3 rows over 2 addresses, 2 ports, 1 name, with bad headers and rows; 3 numbers, 2 records | 324 614 | counters add up; `ListFilter` implemented for the lists of `IsFiltered` |
| `nemea_module` | 4 programs, with and without appFs, 9 values of `--output`, rates 0..2, 2 formats, 3 records, any number of SIGINTs | 120 596 | callbacks read live objects, the last print has all records, a shutdown ends unless a SIGINT finds main in the logger, `RecordForwarding` implemented |
| `clickhouse_leftovers`, `dedup_stale_link`, `ip_rule_tree_lost`, `list_detector_masks` | small | - | disagreements, section 6 |

Why the bounds are enough for what they show:

* Two inserters are the least with which they compete for a block and for a
  `nullptr`; two blocks, the least with which one is filled while another is
  in flight; a threshold of two makes blocks that are full, part full (delay,
  format change, stop) and empty; four records fill both blocks and make the
  main thread wait for one. The liveness run has one inserter and three blocks,
  so that two of them wait behind one that is tried again and again and the main
  thread waits for all; that a stop wakes every one of several inserters is
  `WakeUpsSuffice`, which the safety run checks with two.
* Three takers and two putters make a woken thread find its item taken by one
  that was not waiting.
* Two columns are the least that can be out of step or out of order; two
  endpoints, the least to move between.
* Two slots and three hashes in one bucket fill it, evict from it, and leave a
  hole before a live key; the time range passes the timeout twice. The counters
  wrap at 2 instead of 2^32.
* Three prefixes are the least that put a foreign network between two rules of
  one network; prefixes of most lengths end on and within octets. The fourth
  prefix of a list makes the count of rules wrap to 0: there are 4 numbers instead of
  65 536, and the properties speak of lists with fewer rules than numbers.
* Two rules with different masks compete for one hash table; the second record
  reuses the buffer the first one left. Lists outside `IsFiltered` are in the run
  too, for `TypeOK`, `CountsAddUp` and that the file is taken: one port left empty,
  a name left empty, numbers the last row does not give, prefixes of both families
  in two columns, and three rules with three numbers.
* Rates 0, 1 and 2 are refused, send all and drop some; with three records a
  record of each format can be sampled before and after a change of the format
  and one be left over. Every object of the longest program has a step at which
  SIGINT, an exception or a read can come.

`MaxRecords`, `MaxTime`, `MaxRules` (of `IpRuleTree`) and `Calls` are the only bounds
that are not in the code; each is a constant of its module and a guard. `CHECK_DEADLOCK FALSE`
appears in the runs of `IpRuleTree` and `ListDetector` only: they stop when the
file is read and the records are used up.

## 4. Fairness

* `Clickhouse`: weak fairness of the main thread and of each inserter thread, as
  the scheduler gives; strong fairness of an insert that succeeds and of a
  reconnect that succeeds, stating that the server answers a request that is
  repeated for ever. The retry loop of `insert()` repeats once a second without
  limit, so nothing weaker of the server would do and nothing stronger is
  needed. No fairness of the input, the clock or the signal; a SIGINT that makes
  the main thread wait for itself (`stuck`) is exempt from `StopEnds` and
  `InterruptEnds`.
* `SyncContainer`: weak fairness of each thread, strong fairness of acquiring the
  mutex (a thread that keeps finding it free gets it). Spurious wake-ups are
  possible and never required.
* `ClickhouseRows`: weak fairness of the inserter thread, strong fairness of an
  insert that returns (as in `Clickhouse`). Endpoints go down
  and come back without any fairness; the property itself assumes that one whose
  table fits stays up in the end.
* `NemeaModule`: strong fairness of the main thread, which takes a mutex that
  becomes free again and again and returns from `receive()` with or without a
  record; weak fairness of the printer thread and of a read under way. Nothing is
  assumed of timeouts, spurious wake-ups, new reads or the signal: the stop does
  not rest on the next print time.
* The other modules are sequential; no liveness is claimed.

## 5. What is proved

The theorems hold for every value of the constants that meets the named
assumptions. Each proof splits over the actions of `Next`; facts that several
proofs need are lemmas.

| Theorem | States | Inductive argument |
|---|---|---|
| `ClickhouseProofs!TypeCorrect` | `TypeOK` | with `PcShape`: the main thread has a block exactly where it writes to it, an inserter has one exactly inside the body of its loop |
| `ClickhouseProofs!BlockExclusive` | `OneHolder` | inductive together with the types: every move takes the block from the place that had it |
| `ClickhouseProofs!StopWakesAll` | `WakeUpsSuffice` | with `WakeInv`: all inserters below `idx` are signalled, so none of them enters `get()` again; a take lowers both sides of the inequality |
| `ClickhouseProofs!ErrorPublished` | `ErrorHasException` | with: a thread about to set the flag has set the exception |
| `ClickhouseProofs!BlocksCirculate` | `NoBlockLeaks` | every step leaves the blocks in place or moves one from one holder to another (`BlockMoves`) |
| `ClickhouseProofs!BlocksFit` | `BlocksFitTheirPlace` | `SizeInv`: the current block is below the threshold, because one that reaches it is sent out in the same step |
| `ClickhouseProofs!OrderIsKept` | `ArrivalOrder` | `OrderInv`: a block holds nothing before it is accepted, so a record that is appended is later than all others |
| `ClickhouseProofs!StoredOnce` | `NoDuplicates` | `CopyInv`: no record is in two blocks, and a stored one only in a block that is about to be cleared |
| `ClickhouseProofs!DeliveryIsImplemented` | `ImplementsDelivery` | all of the above and `RetireInv`: a block is cleared only when its rows are stored or the module stops |
| `ClickhouseRowsProofs` | `TypeOK`, `AcceptedTypesAreUsable`, `RowsStayAligned`, `RowsAreRecords`, `StoredWhereTheTableFits` | `RowsInv`: the columns are those of the document, their ids those of the template, every row of the block is of one record, and the thread has looked at the table of its endpoint before it takes a block |
| `SyncContainerProofs` | `NoLostWakeup` (`WakeupsAreNotLost`), `SizeIsExact` (`SizeAgrees`) | mutual exclusion: who is inside `put` or `get` holds the mutex |
| `SyncContainerProofs` | `TypeOK`, `ImplementsContainer` (`ContainerIsImplemented`) | `TypeInv`: who is between the change of the container and its return has an item; the change is the step that maps to the abstract put or get, every other one stutters |
| `DeduplicatorProofs` | `TypeOK`, `UniqueKeys`, `TimesAreExact`, `DropsAreRecent` | `IInv`, the conjunction of the first three: an insert either finds the only slot of its key or fills a slot when there is none |
| `DeduplicatorProofs!CacheIsImplemented` | `ImplementsCache` | `IInv` with `SeenIsHistory`: the keys in the slots are remembered by the cache, and what the scan erases has expired (`RememberedCount` for the capacity) |
| `NemeaModuleProofs!TypeCorrect` | `TypeOK` | `PhaseInv`: outcome and number of objects go with the phase; `ThreadInv`: the mutex is with the thread that is at a step which needs it |
| `NemeaModuleProofs!LastPrint` | `LastPrintIsFinal` | `PrintInv`: the flag is set only when the loop is over, and the last print follows the flag |
| `NemeaModuleProofs!ReadsAreSafe` | `ReadsAreOfLiveObjects` | `LifeInv`: telemetry's threads run only while its last object exists, and a holder stays while one of its files is read; two lemmas give each program's order of objects |
| `NemeaModuleProofs!ForwardingIsImplemented` | `ImplementsForwarding` | `RecordInv`: the record in hand is of the current format; `IdsInv`: the format in which the ids were looked up, for each program: the required one from the construction of the rules on (list detector), that of the template (deduplicator), none |
| `IpRuleTreeProofs` | `TypeOK`, `OneLastNodePerRule` (`EveryRuleHasItsNode`), `GroupedListsAreExact` (`GroupedSearchIsExact`) | `TreeOf`, below; for lists with fewer rules than numbers (`NumbersSuffice`), except for `TypeOK` |
| `ListDetectorProofs` | `TypeOK`, `CountsAddUp` (`CountersAddUp`) | `IInv`: the rules are those of a valid file's first rows, the containers are walked in an order of their elements, as many counters as rules; the rules a record is compared with, and with them the one that is counted, are rules of the list |
| `FoldTheorems!FoldInvariant` | - | what the first value of a fold has and each application keeps, its result has |

The inductive invariants were model-checked before they were proved. `PcShape`
is needed because `OneHolder` says nothing of `current` and `hand` being no
block at the steps that put one; `WakeInv` because the count alone does not say
which threads may still enter `get()`; `UniqueKeys` needs `TypeOK`, and
`TimesAreExact` needs `UniqueKeys`, since a second slot would keep an old time;
`LifeInv` has to say of every step on the way out how many objects are left, for
the property itself says nothing while no one reads.

The search tree needs the most. Nothing is claimed of a list with as many rules as
there are numbers (65 536 in the code), and positions stay below the number of
rules, so with fewer rules no position wraps either; that is proved, not assumed.
`TreeOf` says that inner nodes are full octets
and point into the next level; that in a list of one family every rule owns one
last node; and, if the rules of a network also stand together, that there is an
assignment `own` of a node to every rule and octet (`Paths`) in which the
groups of a level follow each other in the order of the nodes they belong to,
a rule's node is in the group of its node one octet before, rules that share a
node agree in the octets up to it, and the newest rule stands first on every
level. That last part is what makes it inductive, and what the lists of finding 3
break. `AddPrefix` is a fold over the octets;
`AddedSoFar` is what holds after the first of them, and `FoldTheorems` carries it
to the end. A theorem with an operator parameter cannot be cited, so
`FoldTheorems` takes the operator as a constant and is instantiated once for
each fold. The search is a recursive function; that the function exists, and what it returns, is
proved by induction over the levels from the last one up, as the absence of a least
counterexample.

`CountsAddUp` rests on the same tree. The counter that is raised must be one of a
rule, which is so because each step of the way returns fewer rules: the search of any tree,
however its nodes came about, returns numbers it was given (`SearchStaysWithin`, proved
with the tree and instantiated for the tree of each field), every mask only picks among
them. Sizes and contents of the hash buffer, masks, trees and counters are six more
folds. That the total moves by one with one counter is again the absence of a least
counterexample, over the totals of the first counters. No
assumption is made on the order of the list, on families or on masks, so the theorem covers
the lists of findings 3 and 4. What the program does after a search has left an array,
or with as many rules as there are numbers, is undefined, and phase `undefined` has
no further step: there the theorem is about the records before.

The assumptions are what the code is given: positive numbers of blocks, threads,
slots, buckets and octets; lists are sequences and the threshold of a document is
a number (`DocumentsAssumption`, `TablesAssumption`); a prefix has as many octets
as its family, its mask is a run of ones and the bits beyond it are zero
(`ListAssumption`, which `IpAddressPrefix` ensures); a valid CSV file is a sequence of
rows whose literals are numbers or strings, and a record has bytes in the fields that are not
addresses (`FilesAssumption`, `RecordsAssumption`); powers of two are positive
numbers (`PowerAssumption`: the provers have no arithmetic of powers). TLC
evaluates each of them in the runs.

Only model-checked:

* every liveness property, for the prover does not do fairness or `ENABLED`;
* `ImplementsFilter`. That a file is taken whole or refused is claimed of every
  file; that records are sorted as the list says, under the precondition `IsFiltered` that
  the property states: one address field with prefixes of the family of the
  records, rules of a network together and fewer than the numbers
  (`AddressesAreFound`), hashes that tell the rules apart (`HashesTellApart`), a
  buffer that loses nothing (`BufferKeepsItsBytes`), and no empty string
  (`NoStringIsEmpty`). Section 6 says what the code does with other lists.

## 6. Where the code and its documentation disagree

Each has a run whose counterexample shows it (`findings` in `PROJECT.json`):

1. `clickhouse_leftovers`: records exported by `Manager::stop()` are not in the
   table when `main` returns, after a clean end of the input. The inserters see
   the stop signal before the queue is empty.
2. `dedup_stale_link`: a key that has timed out is treated as new, but keeps the
   link of its previous life (`timeoutBucket.hpp`).
3. `ip_rule_tree_lost`: three rules in an order in which a foreign network stands
   between two rules of one network: part of a rule's nodes end up in the foreign
   network, whose addresses are found in a prefix they are not in.
4. `list_detector_masks`: rules that leave different ports empty share a table
   of hashes, and a source port matches as a destination port.

Others have no run:

* The maximum delay of a block is tested only when a record arrives
  (`manager.cpp:129`), while `README.md:110` of clickhouse calls it the maximum
  time a block waits. The defaults of that README (64 blocks, 8 threads) are 256
  and 32 in `config.hpp:68`.
* The number of a rule that another address field has ruled out is followed as a
  position of child nodes (`ipAddressFieldMatcher.cpp:108`), although
  `ipAddressFieldMatcher.hpp:39` promises to ignore such rules;
  `RuledOutAreIgnored` of `IpRuleTree` states the promise.
* A record exactly `--timeout` after the last one of its flow is dropped
  (`timeoutBucket.hpp:237` compares with `<`), while `README.md:28` of
  deduplicator speaks of duplicates "with less than `--timeout` delay".
  `DropsAreRecent` allows the distance the code allows.
* An empty value of a string field of a rule becomes the string "" and not a
  wildcard (`ruleBuilder.cpp:128`), while `README.md:31` of listDetector
  says "Empty values match everyting"; `NoStringIsEmpty` leaves such rules out of
  `ImplementsFilter`.
* `TimeoutBucket::erase` returns true for a key left in a slot that is not valid
  (`timeoutBucket.hpp:189`), although line 183 says "false if the key was not
  found". No program calls it.

Seen while modelling, where no document says anything:

* `appFs` of sampler, deduplicator and listDetector is declared outside the block
  that owns what its callbacks read, and outlives it; the list detector's holder
  outlives its rules (`listDetector.hpp:63`). `Unprotected` of `NemeaModule` names
  these files; `ReadsAreOfLiveObjects` is about all others.
* The signal handlers lock: SIGINT, the first or a later one, while the main thread
  is in `loggerGet` or logs to the console makes it wait for itself (phase `hung`
  of `NemeaModule`, `stuck` of `Clickhouse`). A later one may so undo a stop that
  has begun; `ShutdownEnds`, `StopEnds` and `InterruptEnds` exempt it.
* The list detector looks the ids of its fields up while it builds its rules
  (`ruleBuilder.cpp:82`) and a change of the format only changes the template
  (`main.cpp:47-50`), where the deduplicator looks its ids up again.
  `RecordForwarding` says of each program which ids its records are read with; whether
  an id kept over a change still names the same field is libunirec's.
* When the hash buffer grows it keeps only what is within its size, and the size is that of
  the last rule added (`fieldsMatcher.cpp:78`): a number written beyond it is lost when
  the next one makes the buffer grow, if the last rule leaves both empty.
* IPv4 and IPv6 prefixes share one tree and no node tells its family
  (`ipAddressFieldMatcher.cpp:125`): an address may be found in a prefix of the
  other family.
* Positions and rule numbers are `uint16_t`: rule 65 536 has the number of rule 0
  (`ipAddressFieldMatcher.cpp:24`, `fieldsMatcher.cpp:112`).
* The deduplicator installs no handler, so SIGINT ends it at once, without
  destructors (phase `killed`).

## 7. Not modelled, and the plan

Not modelled:

* the characters of YAML, CSV, command lines and option strings, which libraries
  read: the models start from words, values and `Malformed`;
* what is logged, the help texts, the screen of ncurses, and of the interface
  statistics everything but the number of records (`common` and the command lines
  are therefore marked partly modelled);
* `erase`, `remove`, `clear` and the iterators of the hash map, which no program
  calls (the deduplicator is therefore marked partly modelled), and the shift of
  an exponent below 3 in its constructor, which is undefined;
* hash collisions, and values of fields once they are read;
* a `--timeout` so large that its milliseconds do not fit a duration in
  nanoseconds (`deduplicator.cpp:27`);
* a CSV header that names a field twice: what libunirec makes of the template is
  not in the repository;
* the counters the appFs thread reads while the loop writes them: a read changes
  nothing, and only whether the object exists is looked at.

Written first: the concurrent core of clickhouse with its containers, then the
deduplicator, the address search and the list detector, then the data path of
clickhouse, its configuration and the CSV file, then the process around the four
filters. Left, in this order:

1. A theorem: `ImplementsFilter` under its precondition. It joins `IInv` of
   `ListDetectorProofs` with `TreeOf`, one per address field, and needs that the
   reused buffer keeps what is written to it.
2. A weaker precondition of `ImplementsFilter`: prefixes in two address fields, for the lists
   in which no rule number is followed as a position.
