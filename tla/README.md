# Verification of SO-Pr2-Synchronization

TLA+ modules, TLC configurations and TLAPS proofs for the memory-allocation
simulator of this repository: five small C programs that share two
memory-mapped files in `/tmp`. Line numbers below are those of the files under
`src/`.

## 1. The system

| Part | Source | State it keeps | Operations |
| --- | --- | --- | --- |
| Producer | `producer.c` | the semaphore `sem_find_space`, `g_algorithm`, the locals of each worker thread; it rewrites both files | `main` creates a worker every 10 to 15 s; `worker_thread` announces itself, allocates, sleeps, gives back; `SIGQUIT_handler` ends the process |
| Memory file | `/tmp/mmapped.bin`, `schema.json` | JSON array of partitions, each with `free_space` and its `processes` | `read_memory`, `write_memory` (truncate, stretch, map, copy) |
| Waiting file | `/tmp/mmapped_pro_on_waiting.bin` | JSON object whose keys are the ids of waiting processes | `read_memory_processes_on_waiting`, `write_memory_processes_on_waiting` |
| Algorithms | `include/algorithms.c` | none | `search_index` (best, first, worst fit), `select_algorithm` (menu) |
| Initializer | `initializer.c` | both files, rewritten from `schema.json` and `{}` | `init_memory`, `init_memory_processes_on_waiting` |
| Killer | `killer.c` | the pid it read from the shared segment | `kill_producer`, then `remove` of both files |
| Spy | `spy.c` | none; reads both files | `spy_memory`, `spy_on_memory`, `spy_on_waiting` |
| Logger | `lib/slog.c` | flags, a mutex, the static buffers of `strclr` and `slog_get` | `slog_init`, `slog`, `strclr` |
| JSON library | `lib/parson.c` | trees of objects and arrays | get, set, remove, parse, serialize |
| Random numbers | `include/random.c` | the C library's generator | `random_number` |
| Binnacle | `binnacle.c` | none | shows the log with `less` |

`main.c` and `examples/` are not part of the five programs.

**Interaction.** The programs only meet through the files, one shared-memory
segment with the producer's pid, and SIGQUIT. Inside the producer, the workers
meet through the two files and the semaphore. The semaphore is held from line
108 to lines 126 or 150, and again from 153 to 172. It covers the memory file
completely, but only one of the two rewrites of the waiting file: the
announcement (lines 99-106) happens before the first `sem_wait`.

**What is hard here.** Both files are rewritten in place in several steps
(`O_TRUNC`, `lseek` and `write` of one byte, `mmap`, `strcpy`), so a reader that
is let in at the wrong moment finds no bytes (`exit`), bytes without a text (a
NULL document, then `exit`), or has the page it is reading cut away (SIGBUS).
A partition is chosen on a text that was read earlier and is written back later.
Room is given back tens of seconds after it was taken, by an index kept across
the sleep. Rejection has an exit of its own. `strclr` returns one static buffer
to all threads. `exit` in one worker is the end of all of them.
The individual places are the `hazards` of `PROJECT.json`.

**What makes each part correct.**

* Workers: never two between `sem_wait` and `sem_post`; the memory file whole
  for every worker that uses it; its entries exactly the workers inside; free
  space plus entries equal to each partition's size; every decision equal to
  one atomic step of an allocator; every worker done in the end.
* Waiting list: names exactly the blocked workers. **It does not** (section 5).
* `search_index`: returns what the algorithm names, on ties, exact fits and
  empty arrays too.
* Initializer: returns 0 only with both files ready. Killer: the producer it
  signals is the one that runs; **not always** (section 5). Over ends and
  restarts the accounts of the memory file stay balanced.
* Two producers: **their workers clash** (section 5).
* Spy: what it has read of the partitions before a worker writes is the picture of the
  moment it opened the file; what it reads afterwards **is not** (section 5).
* Logger: whole lines with the tag of their own message, each message once where
  its level belongs, in one order on the screen and in the file.
* JSON objects and arrays: no name twice, every value owned once, nothing freed
  that is referred to, nothing owned lost, at the capacity limit and when `malloc`
  fails. Texts: parsing and serializing are inverse; a dotted path changes what
  it leads to and nothing else. Strings: valid UTF-8, whatever came in.

## 2. Modules

| Module | Models |
| --- | --- |
| `Algorithms` | what `search_index` returns (`Returns`), the three algorithms |
| `SearchIndex` | the loop of `search_index`, one action per iteration and branch |
| `Partitions` | the memory document, and lines 131-143 (`Assign`) and 158-167 (`Return`) as functions of it |
| `Producer` | `producer.c`: creation of workers, every step of `worker_thread` and of the four file functions, semaphore, log, `exit`, SIGQUIT, SIGBUS |
| `Allocator` | the abstract specification of the workers: one atomic step to enter, to be turned away, to leave |
| `Lifecycle` | extends `Producer`: `initializer.c`, `killer.c`, the pid segment and SIGQUIT handler of `producer.c`, producers one after the other |
| `TwoProducers` | two instances of `Producer` over the same files |
| `Spy` | extends `Producer`: `spy.c`, a reader without the semaphore |
| `Slog` | `slog.c`: flags, config file, mutex, static buffers, screen and file |
| `ParsonMemory` | the heap and the doubling of capacities, as the next two use them |
| `ParsonObject`, `ParsonArray` | `JSON_Object`, `JSON_Array` of `parson.c` |
| `JsonMap` | the abstract specification of `ParsonObject`: a map that owns its values |
| `JsonText` | parsing, serializing, deep copy, comparison, validation, on texts of tokens |
| `JsonDocument` | a program that parses, changes through dotted paths, writes and reads again |
| `Utf8` | bytes that `verify_utf8_sequence` accepts, `\u` escapes that `parse_utf16` turns into bytes |
| `Parson` | the four uses of `parson.c` side by side |
| `MCSearchIndex`, `MCProducer`, `MCLifecycle`, `MCTwoProducers`, `MCSpy`, `MCSlog`, `MCParson` | constants and symmetry for TLC |
| `SearchIndex_proof`, `Producer_proof`, `Lifecycle_proof` (with the spy and two producers), `Slog_proof` | theorems about the programs |
| `Parson_proof` (objects, arrays, strings, and all four uses), `JsonDocument_proof`, `JsonRoundTrip_proof` | theorems about the JSON library |
| `Recursion` | when a recursive function exists; instantiated by the last two |

`Producer` is the middle: `Lifecycle`, `TwoProducers` and `Spy` extend it, so what
it says of the workers holds in each of them unchanged, and `Partitions` and
`Algorithms` are below it.

### Producer

The position of a worker is `section` (which part of `worker_thread`) and
`stage` (which step of the file or log function that part calls):

| `section` | lines | `stage` |
| --- | --- | --- |
| `announce` | 99-106 | open, parse, truncate, stretch, copy |
| `enter` | 108 | idle |
| `withdraw` | 109-116 | open, parse, truncate, stretch, copy |
| `allocate` | 118-147 | open, parse, truncate, stretch, copy |
| `warn` | 125-127 | strclr, slog, post |
| `asig` | 148-150 | strclr, slog, post |
| `sleep`, `reenter` | 152, 153 | idle |
| `release` | 154-170 | open, parse, truncate, stretch, copy |
| `devo` | 171-172 | strclr, slog, post |

Each stage is one action, so every step that another thread can see is
interleaved with every other. Of each file the model keeps `status` (`absent`,
`empty`, `blank` for bytes without a whole text, `json`) and the last text
copied into it. The action of each stage:

* `OpenToRead`: `open` and `fstat`; an absent or empty file ends in `exit`.
* `ParseAnnounce`, `ParseWithdraw`, `ParseAllocate`, `Reject`, `ParseRelease`:
  the text is mapped and parsed, and the new text is computed. Local work that no
  other thread can see is part of that step. `ParseNothing`: the text is not
  whole; parson returns NULL everywhere, the array has no elements and the
  worker is rejected, or the text to write is NULL (stage `null`).
* `Truncate`, `Stretch`, `CopyWaiting`, `CopyMemory`: the three visible steps of
  a rewrite; `WriteNothing`: a NULL text is noticed only after `O_TRUNC`.
* `TouchTruncated`: a mapped file was cut to no bytes, the process dies at once.
* `Exit` and `Die`: a thread that calls `exit` goes no further, the others run
  on until the process is gone.

When two writers of the waiting file overlap, `StretchOutcome` and
`CopyOutcome` allow every outcome the mixed bytes can have: a whole text or not.
For the memory file these outcomes collapse to one, which is a consequence of
mutual exclusion that the runs and the proof establish, not an assumption.

Abstractions. The `delay` of an entry is only shown to the user and is dropped.
Thread ids are distinct (the kernel does not reuse the id of a live thread; a
worker is created once in a behaviour). A size is any of `1..MaxSize`.
`pthread_create` may fail at any moment, which includes the moment when the
stacks of the never joined workers have used up the mappings. `open`, `fstat`,
`lseek`, `write` and `mmap` fail only as described: a full disk or a missing
permission is not modelled, and `malloc` does not fail. Both files exist at the
start, as the initializer leaves them; nothing inside the producer removes
them (`Lifecycle` lifts both). SIGBUS is certain when a truncated file is touched.

### Algorithms and SearchIndex

`Returns(free, size, algorithm, index)` says what `search_index` returns: -1 when
nothing fits, else the fitting partition that no other fitting one is preferred
to; ties go to the lower position, because only a strictly better partition
replaces the candidate. `Producer` uses `Returns`, and `SearchIndex`
justifies it: its proof shows for arrays of any length that the loop returns such
an index. The definition is used as a relation, so neither model evaluates a
search inside another.

### Allocator

`ImplementsAllocator` maps a worker to `inside` from the copy of its assignment
(`asig`) to the copy of its return, to `gone` from then or from its rejection, and
to `outside` before. The copy of the memory file in `allocate` is `Enter`, the
decision in `Reject` is `TurnAway`, the copy in `release` is `Leave`, the creation
of a thread is `Choose`, everything else stutters. `TurnAway` is only allowed
when nothing fits, and `Enter` only where the algorithm says **at the moment the
text is written**: the refinement fails if a decision can become stale.

### Lifecycle

`Lifecycle` adds the other programs that write the files. `boot` is where `main` of the
producer is: at its menu, between `shmget` and the assignment of its pid
(`GetSegment`, `WritePid`), or creating workers (`Create`). The segment outlives the
process; only `SIGQUIT_handler` removes it. `Reap` is the kernel, which takes a dead
process' threads, semaphore and open files and leaves the segment and the files.
`life` counts the producers and is their pid.

The initializer is `InitOpen`, `InitParse`, `InitStretch`, `InitCopy`, once per file;
a missing `schema.json` ends it after `O_TRUNC`. The killer is `StartKiller`
(the pid is read, or the `-1` of a failed `shmat` dereferenced: it crashes), `Kill`
after the user's answer, and `Delete`, which removes first one file, then the other.
The three may overlap except that the initializer is run when no producer is alive.

A removed file lives on for those that have it open. The threads in `orphan` go on
with `old_status`, `old_memory`, `old_waiting` in place of the named files: their
steps are those of `Old`, the instance of `Producer` over these variables. The next
`open` of the same thread creates the name again (`O_CREAT`), or fails.

### Spy

The spy parses the mapping itself. It goes through the memory file partition by
partition and entry by entry (`ParseEntry`, `EndPartition`), in the `order` the entries
have in the text: a new one is the last, and the last takes the place of one that is
removed (`Arranged`, `parson.c:1815`). The workers' truncating, stretching and copying
go on in between. Once the file was written since the `open` (`disturbed`), the parser is
at the same offset of another text. Where the two texts line up (`LinesUp`) it goes on
in the new one; or what it reads is put together from both, the id of one with the size
of the other, and then anything may come of it (`ParseTorn`); or the parse fails
(`SpyParseNothing`), or touches a page that is not there (`SpyTouchOutside`).
`opened` and `always` are history variables: who was inside when the file was opened, and
who during the whole reading; `intact` is how far the parser was when the file was first
written. What the spy shows of the waiting list is left out.

### Slog

A call is `Enter` (the caller's arguments), `Lock`, `strclr` and `Tag` where the level
asks for them, `slog_get_print` and `Show`, `slog_get_save` and
`slog_to_file`, `Unlock`. `tag` and `line` are the static buffers of `strclr` and
`slog_get`: when another thread is between writing a buffer and
using it, the buffer may hold a mix. `slog_init` reads the config file line by line
and may fail to make the mutex; then the logger is not thread safe, and the
properties only speak of one that is. A log file that cannot be opened loses its
line (`unsaved`). The producer calls `strclr` itself, outside any lock; that
interleaving is in `Producer`, where the semaphore covers it.

### The JSON library

`ParsonObject` and `ParsonArray` have one action per function that changes an object
or array, with the calls inside it: growing (`Add`, any `malloc` of which may fail),
moving the last entry into the hole, cutting the arrays to the count at the end of a
parse, freeing what a failed call has made. `heap` tells for each value whether it is free,
loose (its maker's), owned, leaked or freed twice. `ImplementsMap` maps the parallel
arrays to the function `Mapped` from names to values.

`JsonText` is the recursive part, as functions of values and of sequences of tokens:
`parse_value` and the serializer follow the functions of the same names, with the
nesting limit, trailing commas, repeated names and the layout of pretty texts. Each
function that calls itself is a recursive function whose body is an operator
(`ParseValue`, `Serialize`, `Equal`, `Validate`, `SetBelow`) that is passed the function it
calls; the two loops of the parser are a sequence of states, `NextItem` and `NextMember`
being one pass. Values are `Tree`, of at most `MaxLevels` levels: a text cannot be parsed
to more than `MaxNesting` + 1, a program can build deeper ones. Numbers are counted in
ten-millionths, so that the six decimals of `%f` and `EPSILON` are visible. A text has two
tokens for a number, since the serializer has two ways to write one (`Printed`,
`parson.c:924-930`): `"num"` for an integer between `IntMin` and `UIntMax` (`%d` and `%u`), and
`"float"` for what `%f` writes, whose six decimals may be zeros. The parser reads both as
the same kind of value, so 0.9999999 is written `1.000000`, read as 1, and then written `1`;
`Settled` is that change, and `RoundTrip` allows no other. `JsonDocument` types a text chunk by chunk, parses it, sets and removes
through paths (with the calls that get no memory at depth `granted`), puts a copy
of the document into itself, and writes and reads it. `Utf8` is the bit
arithmetic of strings, with powers of two; its two walks along a string are recursive
functions, so that they can be proved about. `Parson` only puts the four beside each
other: a behaviour is of one use.

## 3. Runs

| Run | Instance | Shows |
| --- | --- | --- |
| `search_index` | arrays of 0 to 4 partitions, 0 to 3 units free, sizes 1 to 4, three algorithms | the loop ends and returns what `Returns` says |
| `producer_safety` | 3 workers, partitions of 2 and 1 units, sizes 1 and 2, three algorithms | types, mutual exclusion, `MemoryFileReady`, `Reservations`, `SpaceConserved`, `LogTagsMatch`, `LogNeverOvercommits`, `ImplementsAllocator` |
| `producer_liveness` | 2 workers | `EveryWorkerFinishes` |
| `lifecycle` | 2 workers, one partition of one unit, 2 producers, 1 killer | `EntriesSurvive`, `BalancedOverRestarts`, `InitializerReady`, `SegmentNamesProducer`, `KilledProducerEnds` |
| `spy_safety` | 2 workers, sizes 1 and 2, partitions of 2 and 1 units | `ReadIsExact` |
| `slog` | 2 threads, 2 calls each, levels 1 and 4, four config files, with and without `t_safe` | `LinesAreWhole`, `EveryCallIsLogged`, `SameOrder`, `EveryCallReturns` |
| `parson` | 3 names, 4 values, capacities 1 to 4; texts of 5 chunks, documents of 15 tokens and 4 levels, nesting up to 2, paths of 2 names; 3 escapes, 4 bytes | `DistinctNames`, `Ownership`, `ImplementsMap`; `ArrayOwnership`, `KeepsIndexOrFillsHole`; `ParsedIsWritten`, `RoundTrip`, `DotsetTouchesItsPath`, `RemoveAndSetBack`, `ValidateAsPromised`; `EscapesAreValid`, `ValidIsWritten` |
| `waiting_list_exact`, `waiting_file_ready` | 2 workers | violations, section 5 |
| `producer_signalled` | 2 producers, 1 killer | violation, section 5 |
| `no_clash` | 2 producers of one worker each | violation, section 5 |
| `inside_are_shown` | 2 workers, size 1, partitions of 2 and 1 units | violation, section 5 |

*Bounds of the workers.* Four partitions are enough for a tie that is not adjacent,
with a worse and a better candidate around it; size 4 never fits and size 3 fits
exactly. Three units of room and three workers of one or two units give a
worker that is turned away while two are inside, one that fits only where its
algorithm ranks second, an exact fit, and one that takes room given back while it
was waiting. Three workers are needed for a third to read what two others do to
a file; the proofs cover any finite number. No other counter needs a bound: the
log has at most two lines per worker. Liveness of the workers is checked with two:
one to hold the semaphore, or end, and one to wait for it.

*Bounds of the other programs.* `MaxLives` = 2: one producer dies, with a worker inside,
and another starts on what it left. `MaxKillers` = 1: the killer reads the pid of either
producer, and the first can also end by itself, so that it is met by one with an old pid;
the theorems of `Lifecycle_proof` cover any number of lives and killers. One unit is enough for a second worker to depend on the
first one's return; sizes and algorithms play no part. While a thread uses a removed
file, the same name is not removed a second time. The spy needs two
partitions, one of them with two entries: a worker can come or go between two reads of one
partition and between the reads of two. `inside_are_shown` is checked of
`WholeEntries`, without `ParseTorn`: its counterexample is a behaviour in which nothing
is put together from two texts.

*Bounds of the libraries.* Two threads are enough to mix two buffers; a third adds no
pair of calls (the theorems of `Slog_proof` cover any number). `MaxCalls` = 2 gives an
order of calls of one thread as well. Capacities that start at 1 and end at 4
double twice; an array cut to 3 cannot double; `ImplementsMap` and the
other properties of objects and arrays hold of any capacities by `Parson_proof`. Five
chunks make an object of one entry, an array of two items, and every way in which they are
broken off; larger documents are made by setting paths and by putting copies into each
other. `MaxNesting` = 2 and `MaxLevels` = 4 give documents at the limit that the parser
accepts and one level beyond it; `MaxPath` = 2 has a name that is entered or made and
one that is set; `MaxTokens` = 15 is the longest text of a document, enough for an object
of three entries or two objects in each other. The proofs are for any values of these.
Units and bytes are those on both sides of every boundary of the encodings;
`Parson_proof` covers all of them and strings of any length. The numbers that are set into
a document are 0.0000017, 0.9999999, which is rounded to an integer, and 2, which `UIntMax` = 1
leaves to `%f`; `IntMin` = -1. TLC's integers have 32 bits, so the real limits do not fit beside
the ten-millionths; the proofs are for any `IntMin` and `UIntMax`.

*Symmetry.* Workers are interchangeable in `producer_safety` and
`spy_safety`, heap values in `parson`. `KeepsIndexOrFillsHole` and the two
refinements are safety properties and name no single worker or value. The
runs with liveness use none.

*Deadlock* is checked in every run. Where the system may stop, a step that changes
nothing says so: a finished search (`Done`), a process that is gone (`Gone`), no program
running (`Rest`), an object or array that was freed (`Over`), threads that do not log
(`Elsewhere`). A text that was given up and a finished string start again
(`NotParsed`, `Another`). A live producer can always be sent SIGQUIT, so deadlock
says nothing of its workers; that none waits for ever is the subject of
`EveryWorkerFinishes`.

*Fairness.* `FairSpec` of `Producer` assumes weak fairness of each worker's next step
(the kernel runs every runnable thread, and a sleep ends) and of `Die` (a called
`exit` completes). Nothing obliges `main` to create a worker, to fail, or the user
to send SIGQUIT. A worker at `sem_wait` is only weakly fair although
`sem_wait` promises no order: each of the finitely many workers takes
the semaphore at most twice, so it is free for good at last. With workers
arriving for ever, which the bound excludes, `sem_wait` itself would have to be
fair; 10 s between arrivals make that an issue of the model only. `FairLSpec`
assumes that a signal is delivered and a called `exit` completes, and nothing
of the workers. `FairSlogSpec` assumes weak fairness of a thread inside `slog`; the calls
are bounded, so the mutex, too, is free for good at last. In `SearchIndex` the
loop is sequential code that runs.

Every property of a passing run has a mutant: an operator marked `Variant` in its
module, one plausible mistake in the code, which makes the property fail (a
search that keeps the last of equal candidates, a size one unit too large,
`sem_trywait` with its result ignored, a return without the semaphore or without
removing the entry, a post before the log line, a rejection without its post, a
pid that is written only into a new segment, an initializer that leaves an existing
file alone, a mutex given back before the line is saved, a hole in an array that is
closed by shifting, overlong UTF-8 that is accepted).

## 4. Proofs

Every safety property of a passing run is a theorem. The theorems about the workers hold for any finite set of workers, any
number of partitions of any sizes and any `MaxSize`; those about restarts for any number
of producers and killers as well; those about the logger for any threads, levels, config
files and number of calls; those about objects and arrays for any names, values and
capacities; those about strings for any bytes, any escapes and any length; those about
documents for any keys, texts, leaves, schemas, nesting limit and depth. The
assumptions are the named ASSUMEs of `Partitions`, `SearchIndex`, `Lifecycle`, `Slog`,
`ParsonMemory`, `ParsonObject`, `JsonText`, `JsonDocument` and `Utf8` and say only that: a
schema has some number of partitions of natural sizes, a code unit is four hexadecimal
digits, the leaves and schemas are values whose objects have no name twice, and so on.

**`Producer_proof`.** First the functions of the memory document: `AssignBalanced` and
`ReturnBalanced` say that lines 131-143 and 158-167 keep free space plus entries equal to
each partition's size. The units of a partition are the set `Occupied`, one pair per unit,
so the sum of the entries is a cardinality, and adding or removing an entry of size
`s` adds or removes `s` pairs. Then five inductive invariants, one on top of the other.

1. `Control` = `TypeOK`, `StageOK`, `MutualExclusion`. The type of the semaphore
   (0 or 1) is not inductive without mutual exclusion: a post by a thread that
   did not hold it would make 2. `StageOK` keeps a worker at stage `post` inside
   the critical section. `Goes` summarises what any step of a worker does to
   sections, stages and semaphore; the invariant is proved from the summary.
2. `MemoryFile` adds that the memory file is whole when nobody is rewriting it.
   `MemoryFileReady` alone says nothing of the file between two workers.
3. `Accounts` adds what a worker has computed and not yet written (`Computed`): the
   text it will copy is the current document with its own change, and the
   partition it chose is still the one `Returns` allows. `Reservations` and
   `SpaceConserved` only survive the copy because of it.
4. `TagReady` adds that a worker about to call `slog` finds its own tag in the
   static buffer, from which `LogTagsMatch` follows.
5. `LogFollows`: whoever has its line of assignment in the log and not yet its line of
   return is between the two in `worker_thread`. When a line is written its writer holds
   the semaphore, so all of those are inside (or are the writer), each with its size in
   the document. `LogNeverOvercommits` then compares two numbers of units: those
   the log shows are injected into those there are, each worker's units
   into the units of its partition, which are occupied by pairs that belong to one worker
   only (`Ranks`, `OccupiedFits`).

`Implementation` proves `Spec => ImplementsAllocator` from `Control` and
`Accounts`, action by action: a move of the allocator or a stutter.

**`Lifecycle_proof`.** A thread whose file was removed goes on with `Old!Step`, the same
step on other files, so each fact about a step is needed twice. What a step does is
summarised once without naming the files (`Goes` for the process, `Does` for the
documents: it passes, quits, takes, gives or copies); `Step` and `Old!Step` are each shown
to be within the summary, and the invariants are proved from it.

1. `LifeControl`: types, and `Control` over all the lives, from which `LTypeOK`.
2. `Lives`: no threads without a producer, none of those lost with their producer
   anywhere, and a thread at a removed memory file only while no file has the
   name. That last conjunct is what keeps two documents from being written at once.
3. `Remains`: each document that may still be read, with a name or without, is balanced
   and has exactly the entries of the workers inside and of some of the `lost`; what a
   writer has computed agrees with who is inside once it is copied. `EntriesSurvive` and
   `BalancedOverRestarts` follow. They are not inductive alone: what a
   writer will copy must be right before it is copied, and a removed file that is
   still open can be read and written as well.
   `Accounts` of `Producer_proof` cannot be reused, because it says that the workers
   inside are all there is in the document, which ends with the first producer that dies.
4. `Readying`: an initializer nobody has disturbed since it started has left ready what
   it has passed; then `InitializerReady`.

`SegmentNamesProducer` needs only where `main` is and what `segment` and `quit` hold then.

**The spy, in `Lifecycle_proof`.** The spy changes nothing of the producer (`SpyOnlyReads`: `SSpec => Spec`),
so the producer's theorems hold beside it. `Listed`: the list of entries in the order of
the text is that of the document, each once, because a step changes one entry (`OneEntry`)
and `Arranged` follows it. `SoFar`: while nobody has written, the entries passed are
shown as they are in the document, and `Reservations`, which ties the document to the
workers inside, keeps who is inside equal to `opened`. At the first write `intact` is
fixed, and what is behind the parser is not touched again: `ReadAlwaysExact`.

**Two producers, in `Lifecycle_proof`.** `Second` is `Producer_proof` instantiated for the
other process, lemmas included, so what a step does to its own sections, stages and
semaphore is known of both. `EachExcludesItsOwn`: two producers do not disturb
each other's mutual exclusion, although they share every file, because `Control` speaks of
nothing they share. `OnlyTogetherTheyClash`: until both have created a worker, no partition
is given to more than fits (`Alone`: as long as one of them has created none, the files
are as the other one alone would leave them, and `Accounts` holds of it). With workers in
both, the run `no_clash` shows the clash: the semaphore is all that is missing.

**`SearchIndex_proof`.** `CandidateIsBest` is the loop invariant: the candidate
answers for the part of the array already seen. `SearchCorrect` follows when the
loop has seen everything.

**`Slog_proof`.** `Whole` = `SlogTypeOK` (with mutual exclusion behind the lock),
`LinesAreWhole`, and `Buffers`: the thread behind the lock finds in the two buffers
what it has put there. From it `LinesAreWhole`. For the other two, an account of each
thread: how often its present message must already be on the screen and in the file,
given the step of `slog` it is at, that no line of a later call is there, and that a line
in the file was on the screen before. `CallsLogged` is the account of a thread that has
returned; `OrderKept` follows because the lines of the two outputs are written under one
lock.

**Objects, in `Parson_proof`.** `ObjectInv` = `OTypeOK`, `DistinctNames`, `Ownership`
is inductive as it stands: a removal moves the last entry into the hole, which keeps
names distinct only because they were, and frees a value that nobody else refers to only
because every value is referred to once. `ObjectIsMap` proves `OSpec => ImplementsMap`:
adding an entry is `Put` of the map, because the name is new; setting one is `Put` that
frees the old value; growing and cutting the arrays are stutters.

**Arrays, in `Parson_proof`.** The types and `ArrayOwnership` are inductive together.
`KeepsIndexOrFillsHole` (`IndexKept`) needs them as well: items are told apart by their
values, which is possible only because no value is in two slots.

**Strings, in `Parson_proof`.** For `ValidIsWritten`, one lemma for each length of a sequence: a code
point put together from bytes comes apart into the same bytes, if it is large enough and
they are continuation bytes; `AcceptedIsShortest` puts the four together.
`EscapesAreValid` is about strings of any length, and about two functions that call
themselves further on in the string (`process_string`, `is_valid_utf8`). The library's
induction theorems take an operator, which the provers cannot instantiate, but its
theorem on well-founded relations (`WFMin`) is about sets: `Least` gives a set of
naturals its least element, `BackwardInduction` an induction from the end of a string to
its start on a set of positions, and `BackwardRecursion` the existence of a function
whose value at each position depends on one further on, without which nothing is known of
a recursive function. `StringIsValid` then goes from the end of the text to its start:
behind each position the escapes are taken exactly when halves of pairs are in pairs
(`PairedStep`), and what is written of a code point in front of a valid string makes
one sequence more of a valid string (`WrittenAccepted`, `ValidPrepends`).

**Recursive functions (`Recursion`).** `f[x \in S] == ...` stands for a CHOOSE, and nothing
is known of it before a function with that equation is known to exist. `FunctionExists`
says when it does: the arguments can be put in levels, and the value at one depends only on
values at lower levels. It is proved from the least element of a set of naturals, by
rounds that are final one level at a time. `JsonDocument_proof` instantiates it for each
function of `JsonText` and `JsonDocument` with the levels that function goes down by:
the levels of a value (`Nested`), the names of a path, the tokens of a text, and for
`parse_value` the nesting up to the limit. Each function is then known by its equation
(`NestedIs`, `CopyIs`, `EqualsIs`, `ParseIs`, ...), and the induction over the same levels
(`TreeInduction`, `PathInduction`, `TextInduction`) shows what holds of all values.

**Documents (`JsonDocument_proof`).** `DTypeOK` says that a document is a value of
`Proper`: of at most `MaxLevels` levels, and no object with a name twice, at any depth. It
is inductive (`DocumentInit`, `DocumentStep`): the parser keeps it because
`json_object_add` refuses a name that is there (every pass of its loop keeps it, every
level of `parse_value` if the next does), `Set` because it replaces, `Remove` because it
moves. With names distinct, an object is known by what its names lead to, and the
properties follow from facts about a single object.

* `DotsetSafe`, by induction on the path: what a name leads to after `Set` and `Remove`; a path
  that goes another way than the one set is not touched, whatever was refused below. A
  call that fails may leave the empty objects it has made on its path (the
  property says so).
* `RemoveSafe`: an entry that is removed and set again changes its place only, and
  `json_value_equals` does not look at places; for this it must be reflexive
  on proper values, and two lists of distinct names with the same names have the same length.
* `ValidateSafe`: `json_validate` compares the number of entries first, then looks up each
  name of the schema; that the number is never what makes it refuse what the header
  accepts is again a matter of distinct names (an injection of the names of the schema).

**Text and value (`JsonRoundTrip_proof`).** Two directions, each an induction on the
nesting whose step is an induction on the passes of a loop.

* `ParsedSafe`. A parser is *honest* if the text it has passed is the text of the value it
  returns, white space and decimals aside. A pass of the loop of an array or object adds
  an item, or a name, a colon and a value, and a comma or the end, to what was passed
  (`ReadItem`, `ReadMember`); so `parse_value` is honest if `parse_value` one level deeper
  is (`HonestStep`). The parser sees an invented token in one case only, the minus without
  digits, which the property excepts at the front; inside a container it ends the parse,
  since what follows is neither comma nor bracket.
* `RoundTripSafe`. A parser *reads back* a value if it takes its text, compact or pretty, at
  any indentation and in front of anything, for a value like it, and stops behind it; or
  fails, when it has too many levels. The text of a container is cut
  at each entry into what the loop has passed and what is ahead of it (`RestAhead`); one
  pass reads back one entry, or fails at it (`ItemBack`, `MemberBack`), and after as
  many passes as there are tokens the loop has ended (`EntriesBack`). `StepBack` goes from
  `parse_value` at one level to the one above it. *Like it* means `json_value_equals`, since
  rounding to six decimals moves a number by less than `EPSILON`, and a text that is that of
  the value *settled*: token by token the same, but `1` where a number was rounded
  to `1.000000`. Settling goes through the joints of a text (`SettleJoin`, `SettleConcat`)
  and leaves all but such numbers as they are, so a container of settled entries has the
  settled text (`LikeContainer`).

**All four uses.** `FourUses`: a behaviour of `PSpec`, which the run `parson` checks, is a
behaviour of `OSpec`, `ASpec`, `DSpec` and `USpec`, of which three stand still.
`ParsonTypeCorrect` and `LibraryCorrect` therefore state for `PSpec` every property that
run checks.

**Only model-checked:** liveness (`EveryWorkerFinishes`, `Returned`, `KilledProducerEnds`,
`EveryCallReturns`), which needs ENABLED, out of the proof system's reach.

## 5. Findings

Five runs end in a violation, each of something a document or a comment of the
repository says.

* **A blocked worker can be missing from the waiting list** (run
  `waiting_list_exact`). The announcement reads, changes and rewrites the list
  outside the semaphore; two that overlap start from the same list and the later
  write drops the other's id. Arrivals are at least 10 s apart, so it takes a
  worker that is delayed that long.
* **"Now the file is ready to be mmapped" is not so for the waiting file** (run
  `waiting_file_ready`). Another worker's `O_TRUNC` can come between the write of
  the last byte and the `strcpy`, which then raises SIGBUS.
* **The killer can take the files from a producer it has not signalled** (run
  `producer_signalled`). It reads the pid once, before it asks the user, from a
  segment that outlives a producer which ended by `exit` or SIGBUS.
* **Two producers give the same room to two workers** (run `no_clash`). The
  semaphore is private to a process, and nothing prevents a second one.
* **The spy can miss a worker that stays inside** (run `inside_are_shown`), although it
  is to show "el proceso que las ocupa" at a given moment. The worker before it leaves,
  its entry is moved into the hole, and the parser, which reads the mapping without the
  semaphore, is already behind it; the one that left is shown.

The first two do not disturb the memory file: the safety runs and the proofs include
these behaviours, with the exits and bus errors they cause.

Seen while modelling, and part of the models where they have an effect:

* Both files can be back after the killer has removed them: a worker that is still
  running opens them with `O_CREAT`.
* The spy ends (`exit` or SIGBUS, or `puts(NULL)`) when it meets a file that is
  being rewritten. A worker can be shown as waiting and as inside at once, since the
  list is read before the partitions. Where two texts mix within an entry, it can show a
  worker with another's size.
* A parsed object is cut to its count (`parse_object_value`), and growing doubles that:
  an object of more than 480 entries cannot take one more, although the maximum is
  960. The callers ignore the failure.
* `json_parse_string("-")` is the number 0 (`parson.h:70`: NULL "in case of error").
* The text of a document that was read back can differ from the text it was read from: a
  number that six decimals make an integer (0.9999999) is written `1.000000`
  (`parson.c:929`), read back, and written `1` (`parson.c:925`). An integer beyond
  `unsigned int` keeps its decimals: it is written with `%f` both times.
* `slog.cfg:5` sets `LOGSTAMP`, which `parse_config` does not know; it reads
  `FILESTAMP`.
* `random_number` with equal limits returns one more than them; no caller does so.

## 6. Plan

Everything planned is done: each part that keeps state has its module and its run, and
each safety property of a passing run its theorem. What is open is named in the
next list and, for the proofs, at the end of section 4: liveness stays with TLC.

### Not modelled

* `binnacle.c`: one call of `less`.
* `main.c` and `examples/`: not built into the five programs.
* `select_algorithm`'s menu and the killer's and spy's keyboards: loops that ask until
  an answer is valid and keep no state; the models choose any answer.
* `random_number`: the models choose any size in the range its callers ask for.
* In `parson.c`: the scanner of numbers and the removal of comments work on
  characters, which the models do not have (a number that cannot be scanned is a
  `broken` token); `json_parse_file` is the
  step `InitParse`; writing files is not used by the programs.
* In `slog.c`: the date and the text of a line, and the sizes of its buffers.
