# Formal models of Learning-Concurrency-in-C

The repository holds five course projects that grow from sequential PNG tools to
concurrent network clients. This directory keeps TLA+ models of all five, and of the
course's examples that have processes, shared memory or transfers, next to the code,
the TLC runs that check small instances, and TLAPS proofs of what holds for every
size. All paths below are relative to `src/`.

## 1. Inventory

| Component | State it keeps | Operations | How it interacts |
|---|---|---|---|
| `proj1` `catpng.c`, `pnginfo.c`, `findpng.c`, `lab_png.h` | chunk buffers, file positions, a directory stack | walk a tree for PNGs, check signature and CRC, concatenate images | sequential, calls `zutil.c`, `crc.c` |
| `zutil.c`, `crc.c` (same in proj1, 2, 3) | a zlib stream, the CRC table | `mem_def`, `mem_inf` loops in CHUNK steps; table-driven CRC-32 | pure functions over memory |
| `proj2/paster.c` | `strips[50]`, `counter`, one mutex `lock`, one receive buffer per thread | T threads fetch a random strip each round and keep it if it is new | shared memory, a mutex, an unlocked exit test, `pthread_join` |
| `proj2/pastersingle.c` | `image_buffer`, `offset`, the strips' places in it | one loop: zero the buffer, transfer, keep what is new | sequential, one transfer at a time |
| `proj3/paster2.c`, `shm_stack.c` | two claim counters, a stack of received buffers, five semaphores, image attributes, inflated strips | producers fetch and push, consumers pop and inflate, the parent waits and concatenates | System V shared memory, POSIX semaphores, `fork` and `wait` |
| `proj4/findpng2.c`, `lab_png.h`, `pthread_stack.c` | frontier stack, visited hash table, PNG stack, `image_counter`, `waiting_thread` | T threads crawl pages, mark URLs, collect PNGs until M or until nothing is left | three mutexes, one condition variable |
| `proj5/findpng3.c`, `lab_png.h`, `pthread_stack.c` | the same without locks, a curl multi handle | one thread, up to T transfers at a time, in rounds | curl's multi interface |
| libcurl callbacks (`header_cb_curl`, `write_cb_curl3`, `recv_buf_init`) | a receive buffer | announce a strip's number, append and grow, or abort (proj3) | called by libcurl inside a transfer |
| `proj*/starter` | examples of the course: semaphores, fork, zombies, shared memory, threads, curl | small demos; two hand data from a child to its parent, `curl_xml` processes what it downloads | shared memory, `waitpid`, two semaphores |
| `proj3/run_lab3.sh`, `proj4/run_lab4.sh`, `proj5/run_lab5.sh`, `Test Cases` | none | timing scripts, reports of test sessions | run the programs |

### What makes each part correct, and what is hard

* **paster2.** Claims are unique and never exceed 50, the stack is never pushed
  full or popped empty, no strip is lost or handed out twice, the parent reads
  the strips only when all children are done. Hard: the interleaving of P + C
  processes through five semaphores, an unlocked `+=` on shared memory, a
  producer that returns between its claim and its push, failed transfers that
  are pushed all the same, `wait()` taking whichever child ends first.
* **paster.** A strip is kept once, the counter is the number of kept strips,
  nobody concatenates before 50 are there. Hard: an early return with the mutex
  held, an unlocked read of the counter, a buffer whose number was never set.
* **findpng2.** Each URL is fetched once, the crawl finishes, and it finishes only
  when there is no work left or M images were found. Hard: the count of waiting threads,
  signals sent when nobody sleeps, a failed fetch that skips the last check,
  images over M, redirects.
* **findpng3.** The same promise by one thread in rounds. Hard: failed handles in
  a round, errors of `curl_multi_wait`, M reached in the middle of a round.
* **catpng and pnginfo.** Each picture's data go where its header says although
  others are damaged; what `catpng` writes is what `pnginfo` accepts. Hard:
  `all.png` of an earlier run is appended to, and places are counted partly from
  the start of the file and partly from the position in it.
* **pastersingle.** The rows of a strip that came whole are in the image, and no more
  strips are missing from it than transfers failed. Failures do spread: the strips below
  one that is cut short move up, and a spoiled strip 0 takes the signature, IHDR, IDAT type
  and IEND of `all.png` with it. Hard: the buffer is zeroed before a transfer, so what
  failed has number 0 and is kept as strip 0; if nothing came its address is the next
  strip's; `catpng` reads heights, lengths and data from wherever a strip was put, and
  advances by what `mem_inf` returns.
* **findpng.** Every PNG of a tree is printed once and the counts of the recursive
  calls agree with what was printed. Hard: no file is closed, so the descriptors run
  out; a file without a word leaves the signature of an earlier one.
* **Receive buffers, zlib loops, CRC.** Growth never loses or overruns data, in any
  of the copies; table CRC equals bitwise CRC; lengths of zero and of whole chunks.
* **Examples.** What one process reads is what the other has finished; a main that comes
  to its end has waited for its children and removed its segments (one that aborts, or
  waits for ever for a child that died, leaves them behind); what is made of an answer is
  the answer as far as it came.

## 2. Modules

| Module | What it is |
|---|---|
| `StripAssembly` | abstract: strips arrive in any order, each is pasted once or lost, then the image is written once, of exactly what is in place |
| `Paster2` | `proj3/paster2.c` with `shm_stack.c`; implements `StripAssembly` |
| `Paster` | `proj2/paster.c`; implements `StripAssembly` with nothing lost |
| `Crawl` | abstract: pages are found as links of fetched pages, each is fetched at most once, the end comes when nothing is left or M images are found |
| `Findpng2` | `proj4/findpng2.c` with `lab_png.h` and `pthread_stack.c`; implements `Crawl` |
| `Findpng3` | `proj5/findpng3.c` with its `lab_png.h`; implements `Crawl` |
| `CatPng` | `proj1/catpng.c` and `proj1/pnginfo.c` on one `all.png` |
| `Zutil` | `mem_def` and `mem_inf`, extended by `CatPng` |
| `Receive` | the receive buffer and both forms of the write callback, extended by `PasterSingle` and `Examples` |
| `PasterSingle` | `proj2/pastersingle.c`; implements `StripAssembly` with what is spoiled lost |
| `Crc` | `proj1/crc.c` over the polynomials and widths given by constants |
| `Findpng` | `proj1/findpng.c` on a directory tree |
| `Examples` | ten starter programs, and the transfer of one body in `paster`, `paster2`, `findpng2`, `findpng3` |
| `Programs` | one instance of `PasterSingle`, `Crc`, `Findpng` and `Examples`, one of which runs in a behaviour |
| `Counting` | how the number of processes at some label changes in a step; induction for sets of numbers |
| `Paster2Proofs`, `PasterProofs`, `Findpng2Proofs`, `Findpng3Proofs`, `FindpngProofs`, `CatPngProofs`, `ProgramsProofs` | theorems and proofs |
| `Paster2MC`, `Findpng2MC`, `Findpng3MC`, `CatPngMC`, `ProgramsMC` | instances for TLC |

Every component has the same form. `pc[x]` names the statement process `x` is
about to run; an action is one statement or the statements that nobody else can
observe in the middle (those under one lock, or on memory of one's own). A
definition named `Bug...` is never used by a model: it is a mistaken variant of
the definition after it, and the property it is meant to break is named with it
in `PROJECT.json`.

**Paster2.** `sem` holds the five semaphores of lines 80-84, `counter_p` and
`counter_c` the shared counters, `pos` and `items` the stack, `img_attr` and
`inf` the attributes and the inflated strips, `local_counter`, `p_recv_buf` and
`temp` what children keep for themselves. A `push` is two actions
(`ProdPushGrow`, `ProdPushStore`) and so is a `pop`, because they are two
statements on shared memory and only `buffer_lock` keeps them together.
`img_attr[1] +=` is a read and a write (`ConsReadHeight`, `ConsWriteHeight`) with
nothing between them and the other consumers. A transfer may fail (`ProdFetchFails`: the buffer
is pushed all the same) and a producer may return early (`ProdDies`, lines
133-156, or an `abort` in the callback). The parent's two `wait` loops are one
count of reaped children.

**Paster.** The threads repeat lock, `recv_buf_init`, unlock, fetch, lock, test
and store, unlock, unlocked test of the counter. Storing and counting are two
actions. Answers may have no number (-1), or a number the image does not have.
`NoMemory` is the return from between lock and unlock.

**Findpng2.** `owner` are the three mutexes, `frontier`, `table`, `dp`, `png`
the shared structures, `todo` the links of the page a thread is on. `Pushed` is
`push` with the capacity of the stacks: to a full stack it does nothing, and nobody
looks. When the threads are joined main writes `png_urls.txt`, then the log. Lookup in the hash
table and entry into it are two actions under `hashmap_mutex`. A condition wait is one step to
`asleep` that gives the mutex back; signal and broadcast move sleepers to
`relock`; `Spurious` wakes one for no reason.

**Findpng3.** One thread: fill the multi handle, perform, wait, perform again
until nothing runs, read the messages in whatever order curl has them, test the end once a
round. `cm` are the transfers that run.

**CatPng.** A byte is known by the field it belongs to and by what the field
holds, a CRC by the bytes it was made from, so a wrong offset gives a wrong CRC.
`pos` is the stdio position; the stream is open in mode `a+`, so a write goes to
the end. `ntohl` is not declared in `proj1`, so its result is taken for an `int`
and `-(4 + ntohl(IDAT_length))` is negative; the model has that seek backwards. The
inflated and deflated lengths are those of the loops in `Zutil`, CHUNK by CHUNK. The data
of a picture may be longer than its header promises, which nobody checks: `mem_inf` then
copies beyond `uncompressed_data` (`zutil.c:132`, `catpng.c:65`). Such a step is `Overrun`; it leads
to `pc = "astray"`, where the behaviour stops and nothing is claimed of the program.

**PasterSingle.** A byte of `image_buffer` is a pair of a strip and a position, so it
can be told whose bytes lie at an address. A transfer breaks off before its header, after it or in its
body, or comes without the header. At the address a strip was put, `catpng` finds a whole
strip (perhaps another one), the beginning of one with zeros behind it, or zeros. `HeightEnd`,
`LengthEnd`, `TypeEnd`, `DataEnd` say where the fields of a strip are, so `Reads` and `Inflates` give what
the height, the IDAT length and `mem_inf` may come to: a number that came in part is
smaller, an inflate in error leaves the promised length, data of length 0 give nothing, and
data that turn to zeros may give anything, also more than the buffer of line 164 holds
(`"astray"`). One `Inflate` is one turn of the loops at lines 116 and 139, with the offset of line 172; `Write`
makes the frame of `all.png` (signature, IHDR, IDAT type, IEND) of what lies where strip 0 was put.

**Findpng.** A call of `search_dir` is a frame of `calls`; `open` are the files that
were opened and never closed. What `is_png` says of a file without a word is
either, because the signature is what an earlier call left on the stack.

**Examples.** A program is a record: the calls its main process and its child make,
in order, which of them may fail without ending the process, and its callbacks.
There is one action for each kind of call, so that the programs differ in data
only, as the sources differ in which calls they make. A process that uses memory
which is not attached, or a stack nobody initialised, goes "astray": nothing is said
of what it does then. `paster2`'s buffer says 1048576 and has a slot of 10000.

**Crc.** A number is the set of its 1 bits; exclusive or is the symmetric
difference. The code's width, byte and polynomial are constants.

## 3. Runs and what they show

| Run | Instance | Shows |
|---|---|---|
| `paster2_safety` | 2 producers, 2 consumers, 2 slots, 3 strips, 1 failed transfer, 1 lost child | slots are accounted for, `push` and `pop` never fail, no strip is in two places, at most the failed and the lost strip are missing, the parent goes on only when all is done |
| `paster2_assembles` | the same children, 1 slot, 2 strips, 1 failed transfer | under fairness the program implements `StripAssembly`: it ends, with every strip in place or lost to a failed transfer |
| `paster2_lost_height` | 2 consumers | **violated**: an addition to `img_attr[1]` is lost |
| `paster_assembles` | 3 threads, 3 strips, 3 curl errors, 1 failed malloc | implements `StripAssembly`; no strip is counted twice, no thread ends too early on the unlocked read, all strips or no image; if nothing fails the image is written |
| `paster_no_memory` | 2 threads | **violated**: the thread that found no memory is never reported, everyone waits for its mutex |
| `findpng2_crawls` | 2 threads, 6 URLs, 4 of them images and one of these under two addresses, 2 wanted, 1 failed transfer, 1 spurious wakeup, stacks of 6 | implements `Crawl`; the waiting threads are counted, no URL is logged twice, no work is left to sleepers, a push finds room as long as the log is shorter than the stack, at most t - 1 images too many, min(m, found) lines are written, and no thread runs for ever |
| `findpng2_hangs` | 2 threads, no failures | **violated**: a thread sleeps after the last broadcast |
| `findpng2_same_image_twice` | 1 thread, two addresses of one image | **violated**: `png_urls.txt` has two equal lines |
| `findpng3_crawls` | 2 transfers at a time, 8 URLs, 3 failed transfers, 2 errors of `curl_multi_wait` | implements `Crawl`, no transfer outlives its round, at most t - 1 images too many, it ends |
| `catpng_files` | 2 runs on up to 2 of 6 pictures (sound, broken, bad checksum, cut short; one sound and one broken with longer data than the header promises) | every picture up to the first short one is in its place, every IDAT chunk is sound, `pnginfo` accepts the file and shows the first image |
| `catpng_ihdr_crc` | 2 runs | **violated**: the second image has the CRC of the first one's header |
| `programs` | `pastersingle` with 3 strips and 2 failures; CRCs of 4 bits over up to 3 bytes; `findpng` in a tree of 3 directories and 5 files with 6 or 7 descriptors; each small program with 1 failing call and bodies of 0, 2, 7, 8 and 10 units | no more strips are missing from the image than transfers failed, those above a spoiled one are in place, those below only move up, and the frame is lost with strip 0 only; no memory is used that is not there; the table gives the CRC; every PNG is found or the search has a cause to give up; what is handed over is whole; nothing is left behind; they end |

### Bounds, and why they are enough

Two processes of a kind are needed to race; in `findpng2` a thread that checks, one
that sleeps and a spurious wakeup give every order of a signal and a wait, and the
proofs cover the safety of any number. Two slots tell a full, a half-full and an
empty stack; one strip more than slots makes a producer wait; each kind of
failure once, and for `paster` once for every thread, because main looks at what
every thread returned. The webs have a page that two pages link to, a link back, a
redirect and more images than are wanted. In `CatPng` a CHUNK is one row, so data of
a whole number of chunks, of part of one, and an error inside the second all occur;
`Deflated` has sizes below, at and above a CHUNK.

In `programs` a buffer has 8 units: bodies of 0, 2 and 7, 8, and 10 are empty, fit with the
terminating 0, fit only without it, and do not fit; a slot of `paster2` has 2, less
than the 8 it says it has. A strip has 7 bytes: two of the height, two of the IDAT length, two of data and IEND, so
that each number and the data can come in part. The tree of `findpng` has seven directories and files to
open: 7 descriptors are enough, 6 only if the directories come in a lucky order. Two
failures are the least by which a strip of `pastersingle` can be spoiled, its
place taken, and healed again. The CRC polynomial is of degree 4 with bytes of two
bits, so three bytes are more than its width and a burst can be shorter and longer.

`MaxFailures`, `MaxDeaths`, `MaxNoMemory`, `MaxSpurious`, `MaxWaitErrors`,
`MaxFaults`, `MaxUnreadable`, `MaxArgs`, `MaxRuns`, `MaxLen`, `BodyLengths`, `Limits` and `Deflated`
are the only bounds that the code does not have; each limits one action or one
choice. Symmetry is used in safety runs only.

### Deadlock

Every run says `CHECK_DEADLOCK FALSE`: the programs end, and several of them can
hang. That they do not hang where they should not is stated as a property:
`Assembles`, `Finishes`, `CrawlSettles`, `NoStrandedWork`, `Termination`,
`ProgramsEnd`.

### Fairness

* A process or thread that can run is run sooner or later (weak fairness of each
  process). A semaphore or mutex may go to any waiter.
* `paster`'s server picks strips at random, so each strip is handed out again and
  again while somebody asks (strong fairness of the fetches of each number), and so does
  that of `pastersingle` (`Reset`).
* A transfer that curl is made to drive again and again ends (strong fairness in
  `Findpng3`). Failures, deaths and spurious wakeups are never promised.

## 4. What is proved

For all values of the constants, from the assumptions named in the modules:

* `Paster2Proofs`, for any finite numbers of producers and consumers, any stack and any
  number of strips. First `TypeCorrect`, `SlotsAccounted`, `SectionsExclusive`,
  `StackSafe`: the invariant `IInv` is `TypeOK`, `SlotAccounting`, `Exclusion`
  and `ClaimBound` (a child inside a claim section has seen its counter below the
  number of strips). The accounting is needed for types already: that `pos` stays within the
  stack follows only from the semaphores. `Counting` reduces "the number of children at these
  labels" to one addition and one subtraction a step.
  Then `OneCopyOfEach`, `ParentIsLast` and `Implements`, from `CInv`:
  `Lonely` says that the strip is with one producer, in one slot, with one consumer or
  among the inflated ones, and that no two of these hold; it is kept by a claim
  because of `Fresh` (no strip at or above the producers' counter is anywhere), by a push
  and a pop because of `Carried` (a buffer is that of its claim) and `Idle` (a consumer
  has nothing until it pops). `Flow` relates the two counters: what consumers have taken and
  what `filled` offers are the claims less those under way and those lost, so a consumer
  that ends (`Ends`) has seen the last strip popped. `LossBound` charges every strip that
  is missing to a failed transfer or a lost child, and with `Made` the image is made of the strips in place.
  `ParentIsLast` and `Implements` assume `Consumers # {}`: `paster2` takes the number of
  consumers from its command line without a look at it, and with none the parent goes on
  although nothing was inflated.
* `PasterProofs`: `TypeCorrect`, `MutexHeld`, `CounterIsExact`,
  `ImageIsComplete`, `Implements`. `IInv` adds to the properties that a thread
  about to store has found its strip new, that a thread which has returned 0 has
  seen all strips, and that main has joined only threads that ended. `Implements` is a
  step simulation of `StripAssembly`: a store pastes, `CatPng` finishes,
  everything else stutters.
* `Findpng2Proofs`: `WaitersCounted`, `OvershootBounded`. The second needs
  `ImagesHeld`: once the counter is met, each image beyond the m-th belongs to a
  thread that is past its last fetch and will find the test of line 86 true.
  `TypeCorrect`, `LogIsExact`, `PushHasRoom`, `WorkIsNotStranded`,
  `OutputIsComplete`: `LogInv` says who may be between a lookup in the table and the
  entry (one thread, which holds `hashmap_mutex`, with a link that is in neither
  the table nor the log), and that main logs when all threads are gone. `OutInv` says
  that `png` holds as many images as were counted, apart from the one whose thread
  holds `png_mutex`; with `m <= StackSize`, which the theorem assumes, a push that
  was refused leaves at least m images.
  `Implements`: if the web is finite and fits into the stack
  (`IsFiniteSet(Urls)`, `Cardinality(Urls) <= StackSize`; otherwise a URL can be in
  the table and on no stack) every step of every interleaving is one of `Crawl` or a
  stutter. `PlaceInv` says that a URL is in one place: on the frontier, on its way there
  with one thread, or with the thread that fetches it; and that the links still to be
  looked at are those of the page of their thread.
* `Findpng3Proofs`: `TypeCorrect`, `RoundsAreComplete`, `OvershootBounded`,
  `FetchesOnce`, `OutputIsComplete` (for `m <= StackSize`), `Implements` (for a web that
  fits into the stack). `Budget`
  counts the transfers of a round whose result has not been looked at: a call of
  `curl_multi_perform` keeps their number, a message takes one away, and they are
  at most t and, with the images found, at most m - 1 + t. `PlaceInv` says that no URL
  has two of: a slot of the frontier, a transfer, a message; `OutInv` is as above.
* `FindpngProofs`, for every tree (`IsTree`), every limit of descriptors and whatever may
  not be opened: `TypeCorrect`, `SearchIsComplete`. The invariant keeps a
  set U of directories that no call was made for (`Fresh`): they are closed under what they
  hold, none of their files has been opened, and they are reached only through what the calls still have
  left; so when nothing is left U is empty and every PNG was printed. The counts of
  the calls are summed by a function (`SumsTo`) that a return shortens by one.
* `ProgramsProofs`: for `pastersingle`, with every number and size of strips,
  `TypeCorrect`, `BufferSuffices`, `DamageIsBounded`, `Implements`. `IInv` says that the
  transfer under way has brought the first bytes of the strip it is for (`Coming`), that each
  strip kept has its room before `offset` and a whole one its bytes there (`InPlace`), that
  `offset` is no more than `counter` buffers (`Counted`), and that every strip that is not whole,
  kept or about to be, has cost a failed transfer (`Spoiled`). For `catpng` it adds that every strip
lies within `image_buffer` (`Readable`), that what has been inflated so far is no more than the
heights promise (`Stacked`), that no strip is above its place and those with nothing spoiled above them are at it,
and that the frame is that of a whole strip if strip 0 is whole (`Finished`, `Assembled`). The layout of a
strip enters as `FieldAssumption` and `RowsAssumption`: the fields come in the order of a PNG and no
more is said of their sizes. `DamageIsBounded` says of a `catpng` that ends what the run's property
says; a behaviour in which `mem_inf` overran its buffer stops there, and
nothing is proved of what such a program does.
  `SearchIsComplete` carries the theorem of `FindpngProofs` over to the specification in which the
  programs stand side by side.
  `RegisterKeepsWidth` and `ChecksumIsSound` are about `crc.c`, for every width, size of a byte, table and
  polynomial with the term 1, and buffers of every length. A CRC by bits is a run of the
  map `D` (shift, and add the polynomial if a 1 is lost). `DelayedBits` and
  `ByteAtOnce` show that a step with the table entry of the low byte is that many steps of `D`;
  `BurstRemains` that the difference of two runs, which is a run itself because `D` is linear, is
  never emptied after a burst, since `Width - 1 \in Poly` makes `D` injective.
  The hypotheses `IsTree` and `IsCode` are the assumptions `TreeAssumption` and
  `CodeAssumption` of `Programs`, which TLC evaluates.
  `TypesAreKept`, `MemoryIsSafe`, `ExamplesDeliver` and `ExamplesCleanUp` are about the small
  programs and the transfers, for every size of a slot and of the stack, every length of an answer and
  any number of calls that fail (`ExampleAssumption`). What the programs promise depends on the
  order of the calls in each script, so the proof has two halves. `WellMade` says of a script what
  one would look for in the source: a segment is attached before it is used and not used after it
  was detached (`Provided`), a stack is popped by who made it or waited for the child that did
  (`Readied`), a child is waited for after its fork and a segment removed after it was made
  (`Led`, `Awaits`, `Removes`), a buffer is made before the transfer and given back last
  (`Begins`, `Closes`), and something is made of it after the transfer only (`Relies`,
  `Insists`, `Skips`). There is one lemma for each of the 14 programs (`SemSimpleMade`, ...), and
  the other half does not look at the scripts any more, but for those of `sem_simple`, `shm_simple` and
  `shm_struct`, of which it uses where a call stands. There
  `XInv` is kept by every kind of call, by its failure and by its being left out. `Standing` says
  that what a process has still to do is the rest of its script, so that `at` is where it stands and
  `Behind` what it has done; `Family`, `Segs` and `Held` say what the calls behind a
  process have left (children, segments, what is attached, which stacks are ready); `Buffered`
  and `Brought` that the buffer holds the answer as far as it came, within its room, and all of it
  when the transfer is behind and nothing failed; `Texts`, `Turns` and `Stacks` what is in shared
  memory at each step of the writer, and who may be at the message by the semaphores. `HandedOver` alone is
  not inductive: that main reads the whole message follows from where the child stands when
  `sem_wait` lets main pass. `Pushed` and `PoppedOff` say what one more push or pop does to a
  stack that counts down. `NoFault` limits what `Held` and `Brought` say to runs in which no call
  has failed, because some of the programs go on after a failure and use what is not there.
* `CatPngProofs`, for every set of pictures (their data may be shorter or longer than their headers
  promise; an overrun of `uncompressed_data` ends the behaviour), every `CHUNK`, every size of the deflated data and any
  number of runs: `TypeCorrect`, `StripsStayInPlace`, `IDATStaysSound`, `PnginfoFindsNoError`.
  `mem_defIs` and `mem_infIs` say what zutil's loops return, however the data fall into chunks.
  `Loops` says that the files that have been put into the buffer lie where the headers say, that
  `prev_data_size` is behind them and never beyond the sizes added up so far; `PlacedNext` that
  the next file keeps this, whatever its flaw. `Chunks` says that each image in `all.png` is complete
  but for the last while it is being written, and how long `all.png` is at each step of the
  writing, from which the backward seek of `catpng.c:143` finds its chunk; `First` is the header of the
  first image and the end behind it, `Walk` where `pnginfo` stands. A place in `all.png` is said
  to hold bytes (`HasAt`): what is appended keeps every such place (`PlacesKept`), and what is read
  there is what it holds (`ReadLong`).

The library's induction theorems take an operator as a parameter; where a recursive function
had to be unfolded for every length (the sums of `Findpng` and `CatPng`, zutil's loops, the CRC) the proofs use
`Induction` of `Counting` instead, which says that a set with 0 and the next number of each
of its numbers has all of them.

No safety property of a run is left to TLC alone. Only model-checked are the liveness properties
(`CrawlSettles`, `Termination`, `Finishes`, `ProgramsEnd`, and the liveness half of `Assembles`), which the
prover cannot do under fairness.
`Exclusion` of `Paster` and of `Paster2` is proved and needs no run.

## 5. Findings

1. `proj3/paster2.c:260`: consumers add to the height without a semaphore.
2. `proj2/paster.c:132`: a return between lock and unlock stops the program.
3. `proj4/findpng2.c:39`: a thread may begin to sleep after the last signal, so
   the program may hang although every transfer succeeds.
4. `proj4/lab_png.h:441`: redirects put one image into `png_urls.txt` twice.
5. `proj1/catpng.c:123`: with an `all.png` already there the CRC of the new header
   is computed from the old one. (Built and run, the program does this.)

## 6. Not modelled

* The other starter programs (arguments, directories, `getopt`, pointers, times,
  `pthreads`, `curl_multi`, a copy of `png_util`): they print what one call returns and
  keep no state that a step of somebody else could disturb.
* HTML parsing and the making of absolute URLs: libxml2 does them; a page is the
  sequence of its links.
* The compressed bytes; the byte sizes of the shared regions, so that
  `proj3/shm_stack.c:56` (an item counted as an `int`) has no property; the room for the deflated
  image (`catpng.c:40`, `pastersingle.c:132`); the array `error_code` of `paster.c:83` as bytes of memory; the
  buffers that `paster.c:166` does not free.
* What a program does after it has written beyond a buffer: after `mem_inf` has overrun
  `uncompressed_data` (`CatPng` and `PasterSingle` go astray there), after an answer of
  `paster2` that is longer than its slot, in `findpng` with a first word of eight or more
  bytes, which does not fit into `signature`, or a path that does not fit into the 64 bytes of
  `findpng.c:41`, and in the crawlers after 1000 entries in `dp`, `duplicated_values`
  (`proj4/lab_png.h:164`) and `duplicated_curl_malloc` (`proj5/findpng3.c:53`), which have no end in the models.
* In `paster2` an answer that comes without the fragment header: its number is -1, and
  line 264 would inflate to 9606 bytes in front of `inf`. In `paster` such a number reads what lies in front
  of the array (line 166); the model takes it for not new.
* `hsearch` with ENTER that finds the table full, after which both crawlers exit
  (`proj4/lab_png.h:167`), and in `Findpng3` a handle that could not be made; the latter is a failing call of
  `Examples`.
* `sem_destroy` after the segment of the semaphores was detached (`sem_simple.c:83`, `:95`): glibc's
  does not look at the semaphore, and the model has no step for it.
* Pictures of 2^32 bytes or more, where `height * (4 * width + 1)` would wrap; the end of a line in the
  log of `findpng2`, which line 248 leaves out.
* The log that `findpng3` writes for option -v, which is that of `findpng2` without
  threads; `curl_global_init` in every thread of `paster`; `zerr`, usage messages, the
  checks of arguments, timing, and the scripts that collect times.
* More than one copy of `zutil.c` and `crc.c`: proj1, proj2 and proj3 have the same files.

## 7. Plan

Every safety property that a run checks is stated by a theorem. What is left are proofs
of liveness under fairness, for
which another prover is needed, and the parts listed in section 6.
