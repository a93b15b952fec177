# Verification of sfc

TLA+ models of `sfc` ("safe c++", `src/README.md`), a C++ library in the style
of Rust's standard library: owning pointers and vectors, collections, threads,
buffered streams, formatting, logging and serialization. TLC checks the models
on small instances; TLAPS proves theorems about most of them for every value of
their constants. Paths below are relative to `src/src/sfc/` unless they begin
with `src/`.

## 1. The system

### Parts, their state, operations and interactions

| part | state | operations | works with |
|---|---|---|---|
| `sync/arc.h` Arc, Weak | block with two `u32` atomic counters and the value; a `Unique` pointer in each handle | copy, move, destroy, of both kinds | `sync/atomic.h`, `core/ptr.h`, `alloc`; threads own packets by it |
| `thread/` spawn, JoinHandle, Thread | pthread id and `_owned` in a handle; the packet `Arc<Option<T>>` | spawn, join, destroy, the worker's callback | Arc, `alloc/boxed.h`, the system's table of threads |
| `io/buffer*.h`, `io/mod*.h` BufWriter, LineWriter, Write, Read | a `Vec<u8>` of fixed capacity over any inner writer | write, flush, write_all, destroy | Vec; the system's `write` through RawStdout |
| `io/stdio.*` Stdout, Stderr, Stdin, print, eprint | one LineWriter and a mutex per process, one raw stderr and a mutex | lock and its guard, write_str, flush | LineWriter, Mutex, the Formatter |
| `sync/mutex.h`, `condvar.h` | pthread objects | lock, trylock, guards, wait | streams |
| `core/panicking.*` | none | message to stderr, then an exception | Stderr, every assertion of the library |
| `alloc/vec.h` RawVec, Vec | pointer, capacity, length | reserve, push, pop, append, truncate, clear, move, destroy | every container and string |
| `alloc/boxed.h` Box | pointer, deleter of a closure | construct, call, destroy | threads, logger |
| `collections/vec_deque.h` | RawVec, `_front`, `_back` | push and pop at both ends, growth, clear, iteration from both ends | Vec |
| `collections/binary_heap.h` | a Vec | push, pop, the two sift loops | Vec |
| `collections/linked_list.h`, `btree.h` | nodes in boxes | push, pop, iterate; insert with splitting, search (no instance of either compiles) | Box |
| `core/option.h`, `result.h` Option, Result | a tag and a union without destructor | move, copy, destroy, unwrap, map, and_then, or_else, `&&`, `\|\|` | `core/mem.h`; the results of most calls |
| `core/slice.h`, `str.*`, `iter.h` Slice, Str, Pattern | pointer and length; two fingers of a searcher | cut, find from both ends, starts_with, ends_with, trim | Option, Parser, paths, test patterns |
| `core/num.cc`, `core/fmt.*` IntoStr, Parser, Style, Formatter, Buffer | a buffer of 256 characters; a style; the output | digits of integers and floats, parsing, padding into a field | io, log, string |
| `log/` Logger, Console, File | level, list of backends | write with a filter and a line of 1024 bytes, entry of each backend | fmt, Stdout, fs |
| `serial/` Node, List, Dict, Json | tagged 16-byte nodes | push, insert, get; to and from text | Vec, String, fmt |
| `fs/file.*`, `fs/imp/unix.cc` File, OpenOptions | a descriptor of the system; six flags | open, move, close, seek, read, write | io::Read and Write; the log's File |
| `fs/path.*` Path, PathBuf | a String | push, pop, set_file_name, set_extension, parts | Str |
| `time/` Duration, Instant, System | seconds and nanoseconds | from and to units, plus, minus, duration_since | log |
| `math/` NdArray, NdSlice | address, dimensions, steps | index, slice, assign | |
| `test/` Test, Manager, Patterns | the list of tests | install, run, choose by patterns | Str, log |
| `os/` | | environment | system calls |

### What is hard about it

* **Interleavings**: the destructors of Arc handles on different threads; a
  worker and the owner of its handle; threads that print.
* **Ids and pointers that outlive what they name**: a `pthread_t` after a join,
  a vector after a move, the block under a Weak.
* **Partial failure**: a writer that takes a part of a slice, or throws in the
  middle of `write_all`, in a destructor, or while a mutex is held.
* **Boundaries**: a ring buffer that is full, empty, wrapped or growing; the
  number of digits at every power of two and ten; a heap whose last node has
  one child; the last place a text can be found at; a placeholder that ends
  early; a `_res` of 16 bits; times near the ends of a `u64`.
* **State without a lock**: a logger that gets backends while threads log.
* **Numbers that are given again**: thread ids, and file descriptors.
* **Liveness**: joins, loops of `write_all`, mutexes kept by guards that are
  forgotten on purpose.

`PROJECT.json` lists these as hazards, each at its line and with the properties
that would notice it going wrong.

### What makes each part correct

* *Arc*: who owns the value sees it alive; it is destroyed once and then the
  block is freed once, by whoever comes last; nothing leaks.
* *Threads*: a join returns the result of its own job, complete; the packet
  lives as long as the worker writes to it; every thread is released.
* *Writers*: bytes that were accepted come out once, in order; lines come out
  when they are complete; a failure costs nothing that was accepted.
* *Streams*: a text of several pieces is not mixed with another; what `print`
  wrote is out when it returns; no mutex stays locked.
* *Vectors, queues, heaps*: every element is in one place and destroyed once;
  a VecDeque is a double-ended queue, a BinaryHeap a priority queue.
* *Options*: a resource has as many owners as there are objects that hold it.
* *Numbers*: the text of a number is that number, and fits its field; reading is
  the inverse of writing.
* *Logger*: a thread goes through backends that are there; each line is in one
  piece; a backend misses no entry; every log call returns.
* *Files*: each open descriptor has one File; a read returns what stands there.
* *Formatting, JSON, paths, views, test patterns*: what comes out is what a short
  definition of the result says, for every input of a bounded set.

## 2. Modules

| module | models | abstract specification | checked by |
|---|---|---|---|
| `Arc` | `sync/arc.h`, with `ptr::Unique` and `mem::forget` | `SharedOwnership` | `MCArc`, proofs in `ArcProofs` |
| `Thread` | `thread/thread.h`, `thread/imp/unix.cc`, over a model of pthreads | | `MCThread`, proofs in `ThreadLoggerProofs` |
| `LineWriter` | BufWriter, LineWriter, `write_all` | | |
| `LineWriterClient` | one owner of a LineWriter that retries and closes | | `MCLineWriter`, proofs in `LineWriterProofs` |
| `Stdio` | Stdout, print, `Console::entry`: threads over `LineWriter` | | `MCStdio`, proofs in `StdioProofs` |
| `Stderr` | Stderr, eprint, `panic_imp` | | `MCReports`, proofs in `ThreadLoggerProofs` |
| `Logger` | Logger, `fmt::Buffer`, Console and File | | `MCReports`, proofs in `ThreadLoggerProofs` |
| `VecDeque` | the ring buffer and its iterator | `Deque` | `MCVecDeque`, proofs in `VecDequeProofs` |
| `BinaryHeap` | push, pop and the sift loops | `PriorityQueue` | `MCLibrary`, proofs in `LibraryProofs` |
| `Vec` | RawVec and Vec: who owns elements and memory | | `MCVec`, proofs in `VecProofs` |
| `IntoStr` | `num::IntoStr`, the counts of digits | | |
| `NumberFormat` | `Debug<T>::format` of numbers, `pad`, `pad_num`, over `IntoStr` | | `MCNumberFormat`, proofs in `NumberFormatProofs` |
| `Str` | Slice, the searchers, `num::Parser` | | |
| `Format` | Style's parser, templates, boxes | | |
| `Lists` | the storage of a `serial::List` | | |
| `Json` | Node, List, Dict, Json, Serde | | |
| `Time` | Duration, Instant, System | | |
| `Tests` | Patterns, Manager, `Test::from` | | |
| `Queries` | calls of `Str`, `Time` and `Tests`, each on every input of a set, and a list that grows | definitions beside the properties | proofs in `LibraryProofs` |
| `Calls` | these, and calls of `Format` and `Json` on every input of a set | definitions beside the properties | `MCLibrary`, inputs in `MCCalls` |
| `PathBuf` | Path and PathBuf | a stack of names | `MCLibrary`, proofs in `LibraryProofs` |
| `Files` | File, OpenOptions, io::Read, over descriptors | | `MCLibrary`, proofs in `LibraryProofs` |
| `Option` | Option and Result | | `MCLibrary`, proofs in `LibraryProofs` |
| `NdSlice` | NdArray and NdSlice | the cells a view means | `MCLibrary`, proofs in `LibraryProofs` |
| `Library` | objects of `PathBuf`, `Files`, `Option` and `NdSlice` beside each other | | as these |

Every module keeps the names of the source where it can. Some operators are
marked as faulty forms: they are no part of `Next`, each a plausible mistake in
the operation it is named after. Put in the place of that operation, one of them
violates each property; `PROJECT.json` lists the pairs.

### Arc

`st[h]` says what handle object `h` is and, while its destructor runs, which
access comes next: `~Arc` (51-54) is the atomic decrement (`DropArc`), the
destruction of the value (`DropData`), and the destructor of a Weak that shares
its code with `~Weak` (`DropWeak`, `Dealloc`, 29-34). `strong` and `weak` are
the counters, modulo `Modulus`. A copy reads a handle that must be alive, as C++
requires; `Move` empties the source; `Forget` drops a handle without its
destructor. Every counter access of the code is sequentially consistent by
default, so that an interleaving of atomic steps is what the program can do.

### Thread

A job is a call of `spawn`: the owner of the handle (`hpc`) and the worker
(`wpc`) are two processes. `os`, `runs`, `detached` and `waiter` are what the
system knows of thread ids; they are modelled from what POSIX says of the calls
the code makes (create, join, detach), and an id goes back to the system when
its thread was joined, or was detached and has ended. `Thread::join` does not
clear `_owned` (`thread/imp/unix.cc` 24-30), so `DropThread` calls detach in any
case. `spawn` may fail (`SpawnFail`): the packet then keeps an owner for ever,
as the deleter of a boxed closure (`alloc/boxed.h` 138) frees it without
destroying what it captured. The same happens at the end of each worker, so
that a packet is never freed: no use after free, but a leak, which the model
has and no property forbids.

### LineWriter, LineWriterClient, Stdio, Stderr

`todo` is what the running call has still to do, a list of `put` (BufWriter's
first test), `place` (its second), `flush` and `drain` (`write_all`): one step
makes at most one call of the inner writer. The inner writer takes any part of
what it is given (`cut` remembers that a slice written past the buffer was taken
in part) or fails (`Throw`), which leaves the buffer as it is. A newline may be
anywhere in a slice.

`Stdio` adds threads and the mutex: `print` holds it from `Stdout::lock`, whose
guard is forgotten, to `~Lock`, which flushes and then unlocks; `write_str` and
`flush` hold it for the expression. A flush that throws in `~Lock` ends the
program (`alive`), since destructors are `noexcept`. Every character that goes
through the buffer carries the call it belongs to and its place in it, piece and
index (`Signed`), which is how the properties tell characters apart; the program
sees `char` only. An inner writer that takes 0 bytes, which `write_all` and the
second test of BufWriter (`io/buffer-inl.h` 38) turn into an error or a loss, is
left out: a system call that is given bytes takes one or fails.

`Stderr` has no buffer; its `~Lock` is empty (`io/stdio.cc` 118). Its write
throws when the system's fails (`fs/imp/unix.cc` 56-62): out of `eprint`
(`PrintFails`) the exception passes the empty `~Lock`, and the mutex stays
locked as after an `eprint` that returns; out of a panic (`PieceFails`) it passes
the guard of `write_str`, which unlocks, and takes the place of
`panicking::Error`, the rest of the message being lost. When the system takes a
part of a piece, nobody looks at the count, and the piece counts as written.

### Logger

A logger has no lock. `SetLevel` and `AddReserve`, `AddCount` (the push of a
backend, which may move the vector, and counts the backend last) interleave with
threads that compare the level, format into a buffer, take the pointer and then
the length of the vector, and call backend after backend. `iter[t].block` is the
memory the iteration began in; `Stray` is the use of memory that was given back,
after which anything may happen. The Console keeps stdout locked for its
line (what `print` does with the pieces is `Stdio`'s part, and so is a write to the
console that fails; a line of `Level::User` begins with an empty prefix, which `p`
stands for as well); a File fills a buffer
of 1024 bytes and writes it by one call, whose count it ignores. `BufferWrite` is
`fmt::Buffer`: a piece that does not fit is left out whole, and later ones that
fit are not. Only one thread at a time adds backends: two would be a data race on
every field of the vector.

### VecDeque, Vec, BinaryHeap

`VecDeque` keeps the slots of the ring; `Grown` is the growth with the two ways
a wrapped queue is straightened out. The mask `x & (cap - 1)` is `x % cap`.
`Vec` follows elements: with the caller, in a slot, or destroyed. `nullDrop`
notes a destructor that runs at a null address, which the destructor of a
moved-from vector does (it keeps `_len`). In `BinaryHeap` a round of
`_shift_up` or `_shift_down` is a step, and elements are integers.

### IntoStr, NumberFormat

A number is a list of parts: digits, or a character repeated. Digits are counted
(`CountDcm`: 1233/4096 for the logarithm of 2 and a table; `CountBin`), room is
reserved, and a round of the digit loop is a step. `PaddedNum` and `Padded` set
the text into the field of a Style. The arithmetic of `f64` is replaced by
decimal fractions in parts of 1000, values are below 2^31 (the 32-bit path), and
what C++ leaves undefined is left out: 0 in base 2, 8 or 16 (`clz(0)`), the
absolute value of the least number of a signed type, and precisions for which
the scaled fraction does not fit `u64`.

### Str, Format, Lists, Json, Time, Tests, Queries, Calls

These are operators: a text is a sequence of characters, and a call returns an
option, a panic, or a value. `Queries` chooses one input (`input`) and makes the
call it is for (`answer`), so that every input of the instance is tried; a list
that `push` makes longer is an input that grows (`Stored`: what is left of the
capacity goes through a field of `ResMod` values). `Calls` adds the calls whose
operators are recursive, so that `Queries` can be proved about; its texts grow
too, and `Json` parses them at every length. For the inputs of `Queries` the
steps of `Calls` are those of `Queries`, and they never become others. Every
property compares `answer` with a definition that is not the code's: the places
of a pattern (`Matches`), the style that was spelled out, the node that was
written, the longest of the masks, the indentation by counting brackets.

* `Str`: a searcher has a front and a back finger; `Find` and `Rfind` move them.
  `find` returns the index after the match (`core/str.cc` 118-166) and `rfind`
  the index, which is what the callers use. `Dcm` is the loop of `extract_dcm`
  with its wrap, and integers have the width of `type`.
* `Format`: `ReadStyle` is `Style::from_str`, which looks ahead two characters;
  `Filled` is the recursion over the arguments of a template.
* `Json`: a node is a record of one field; `Written` and `Parse` are the text of
  one and the parser, with what they do to each other. The words `null`, `true`
  and `false` are one character. `List::push` and `Dict::insert` never return:
  `mem::forget(imp)` (`serial/node.cc` 157, 204) nulls the pointer of their
  vector and leaves its length, and the destructor of the vector runs `~Node` at
  address 0, which reads a tag there (`Crash`; address 0 is not mapped). So a
  program has only nodes without entries, no list with one is ever read, written
  or serialized, and what the code does below an entry (commas, the `]` that ends
  a dict, `Serde` of elements and fields) is not reached and not in the model.
* `Lists` is the arithmetic of `_len` and `_res` in `push` alone, what would
  hold if that destructor did nothing: the crash itself is `Json`'s part, and
  `NoNullDrop` of `Vec`.
* `Time`: the units, and how much a `u64` and a `u32` hold, are parameters. In
  the run a second has 20 nanoseconds and a `u64` 9 bits; the units keep their
  order.
* `Tests`: the text that compilers put around a type name is one character.

### PathBuf, Files, Option, NdSlice

`PathBuf` is the String of a path under `push`, `pop`, `set_file_name` and
`set_extension`. `Files` adds the system: a table of descriptors, the lowest free
one is given by `open`, and one file. A read may give less than is asked at
every turn (`ReadTurn`); `call` is the loop of `read_exact` or `read_to_end` with
what it has so far. `Option` follows resources through objects whose tag stays
`Some` when they were moved from, with `Husk` for what is left of the value;
`owners` counts what constructors and destructors of the value do. `NdSlice`
follows, beside address, dimensions and steps of a view, which cell of the array
each of its indices means (`shows`). `Library` composes the four
by interleaving: each step is one of one of them, since a program that uses them
keeps them apart. Every behaviour that `MCLibrary` checks of one of these is a
behaviour of `Library`.

## 3. Runs

Deadlock is not checked: programs that use a library may stop using it, and
each instance stops at its bounds. Liveness properties say what must not stop.

| run | what it checks and shows | bounds, and why they are enough |
|---|---|---|
| `arc` | `OwnersSeeLiveValue`, `NoTouchAfterFree`, `DestroyedOnceThenFreed`, `NoLeak`; `ImplementsOwnership`, the refinement with fairness | five handles: two owners and two watchers that end at once, and one more that copies or moves; one owner forgotten. 2,937 states. |
| `thread` | `JoinReadsOwnResult`, `WorkerPacketLive`, `FreshThreadsReleased`, `JoinReturns` | three jobs on three ids: all different, or one id given up to three times. 162,560 states. |
| `thread_join_lost` | finding: `JoinsYieldValues` fails | two jobs, one id |
| `line_writer` | `ToldIsDelivered`, `LinesGoOut`, `FaultsLoseNothing`, `CallsReturn` | a buffer of 2 and slices of 1 to 3: shorter than, as long as and longer than the buffer, with every placing of newlines; a stream of 5, two failures. 136,824 states. |
| `stdout` | `WriterIsLocked`, `TextsUninterleaved`, `PrintedIsOut`, `CallsReturn` | two threads with two calls each, texts of two pieces, buffered and past the buffer; one failure. 835,618 states. |
| `reports` | `IterationsInMemory`, `LinesSeparate`, `EntriesDelivered`, `LogReturns` of the logger; `StderrReports` | two threads; a vector that grows by two, so that the third backend moves it; two entries, one of which has a piece that does not fit; one write of a file cut short or failed. Two texts of two pieces on stderr, one write that fails. 77,520 states. |
| `queue` | `IterMeetsOnce`, `ImplementsDeque` | growth from 0, 1 and 2 slots to 4 and 8, every rotation, up to six values of two kinds. 42,024 states. |
| `vec` | `MemoryHoldsElements`, `InOnePlace`, `NoElementLost` | two vectors, four elements, capacities to 4. 1,525 states up to renaming: vectors and elements are used alike, so that symmetry is sound, and there is no liveness. |
| `vec_moved_from` | finding: `NoNullDrop` fails | two vectors, two elements |
| `numbers` | `LoopFits`, `NumbersSpelled`, `FieldFilled` | integers on both sides of every power of 2 and of 10 below 2^31, where counts change; 11 fractions with precisions 0 to 3; fields that are too small, exact and larger. 995,102 states. |
| `float_rounds_up` | finding: `FloatsSpelled` fails | the same |
| `library` | `HeapOrdered`, `ImplementsQueue`, `CallsReturn` of the binary heap; `TextsFound`: search, and choice and names of tests; `NumbersHold`: parsing, times, lists in their memory; `FormatsAsAsked`: templates and boxes; `NodesHold`: JSON and Serde there and back, whole values, and where an entry crashes; `ViewsShow`; `OwnedOnce`: descriptors and Options; `FilesAndNames`: paths as stacks, opened files, reads | heaps of seven elements, three full levels, of four values; texts of up to four characters and patterns of up to two; integers of eight bits and beyond; templates of up to four parts with every part of a placeholder; every kind of node that can be made, alone and before a comma; values of Serde with and without parts, each read into the type of each; texts of up to five characters for the parser; lists of up to 200 entries, with 16 values of `_res`; times around both ends of a `u64`; three patterns; paths of seven characters; arrays of up to three axes; two File objects, two descriptors, every combination of flags; three Options or Results and two resources. 107,129 states. |

A run of two or more components (`reports`, `library`) chooses one
at its beginning: they share no state, and their behaviours lie side by side.

Some properties are conditional, because without the condition the code
violates them, which the findings and the list below say:
`FreshThreadsReleased` speaks of executions in which the system has given no
id twice (fixed by clearing `_owned`); `ToldIsDelivered`, `FaultsLoseNothing`
and `PrintedIsOut` of executions in which no long slice was cut short;
`StderrReports` of panics before the first `eprint` has ended, returned or thrown,
and of whole messages where no write of the panic's own has failed;
`IterationsInMemory` of loggers with no more backends than the first memory of
the vector holds (eight); `EntriesDelivered` of calls that met no fault;
`NumbersSpelled` of all numbers but floats whose fraction rounds up to 1;
`FormatsAsAsked` of templates in which no empty placeholder comes before an align
character; `NodesHold` says exactly which of the nodes that can be made are read back, and
which values; `NumbersHold` has of a list the fields, and not the crash of its push.

### Fairness

* `Arc`: weak fairness of the three steps of a destructor that has begun: no
  step waits for another handle.
* `Thread`: weak fairness of the worker's steps (closures are assumed to
  return), of a join that has begun, and of a destructor. Nobody has to spawn,
  join or drop.
* `LineWriter`, `Stdio`, `Stderr`, `Logger`: weak fairness of the steps of a running call,
  for each thread its own. Nobody has to call, and the inner writer does not
  have to fail. Weak fairness is enough for the mutex because the calls of the
  other threads are finite in number; starvation by an endless printer is
  not excluded by the code.
* `BinaryHeap`: weak fairness of the loops.
* All others: safety only.

## 4. Findings

Checked by a run that finds the violation:

* **A joined thread is detached again** (`thread_join_lost`): `~Thread` runs
  `pthread_detach` on an id that `join` gave back. When the system has given it
  to another thread, that thread can no longer be joined.
* **A moved-from vector destroys elements at null** (`vec_moved_from`): the
  defaulted move leaves `_len`.
* **A fraction that rounds up to 1** (`float_rounds_up`): `{.1f}` of 0.96 counts
  `1 - 2` zeros in `usize`; the test in `reserve` wraps as well.

Noted while reading, in the models as the code has them or left out:

* `LineWriter::write` adds the counts of its two parts. When a long first part
  is taken in part, the sum counts bytes of the second, and the bytes in between
  are skipped; `print` ignores counts and loses the end of a long piece.
* `~BufWriter` and `write_all`: a flush that failed begins anew, so that what
  went out before the failure goes out twice.
* `Stderr::Lock::~Lock` is empty, so that stderr is locked for ever after the
  first `eprint`, whether it returns or throws (`EprintIsLast`, a part of
  `StderrReports`); a panic then blocks.
* A print inside the formatting of a print locks a mutex twice.
* The counters of Arc can wrap; `MAX_REFCOUNT` is not used. Weak frees with the
  layout of `T` and not of its block (`sync/arc.h` 33), which the allocator
  ignores.
* The closure of a thread is freed but not destroyed.
* `Vec::truncate(n)` destroys all elements, not those from `n` on;
  `shrink_to_fit` does nothing; `insert`, `remove` and `swap_remove` do not
  compile. `BinaryHeap::pop` is modelled with the `swap_remove` it expects.
* A moved-from VecDeque keeps its capacity and writes to null on a push.
* A prefix (`#x`) is not written when the field has no room for more
  (`core/fmt.cc` 287-291); `FieldFilled` allows it.
* `Read::read_to_end` always ends in an exception; `Condvar::wait_timeout`
  passes a relative time where an absolute one is expected; `sleep` throws when
  a signal interrupts it.
* `Logger::add_backend` moves the vector that other threads go through, from the
  ninth backend on.
* `Style::from_str` reads past the brace: `{}` before `<`, `>`, `^` or `=` takes
  the brace for a fill. A literal `{{` uses up an argument.
* JSON: every `List::push` and `Dict::insert` ends in `~Node` at address 0, so
  that a text crashes the parser once its first entry is whole, and a value with
  elements or fields crashes `serialize` (`NodesHold`). Of what is left, `false`
  is written and read as true; a number loses its first character, and one of a
  single digit panics; no dict is read back, nor a string with a quotation mark.
  Behind the crash, reached by no program: a list of two or more entries would
  not be read back (a blank follows its comma), nor any dict (`]` is expected at
  its end). `Option<T&>::expect` asserts that there is *no* value, so that
  `Dict::operator[]` takes a key that is missing through a null pointer.
  `Dict::insert` does not look for the key; `List::operator[]` calls itself; an
  empty string's Node frees a pointer that was never set.
* The parser of numbers ignores the sign, and takes characters below `'0'` for
  digits when the type has a sign; what is too large wraps.
* `Str::find` returns the index after the match; a search by a predicate misses
  the last character, and panics on an empty text; `trim_end` cuts at the last
  blank, wherever it is; `eq_ignore_case` is inverted; slices compare wrongly.
* `Option::operator||` returns its second operand whatever the first is; an
  `Option<T&>` without a value equals one with a value. An Option that was moved
  from still says `Some`, after `mem::take` too.
* `PathBuf::push` of `/a` to an empty path drops the slash, and `Path::parent`
  ends at the first slash.
* `NdSlice::slice` by one index cuts an index past the end to the end; the text
  of a view of rank 2 has its axes swapped.
* `System::operator-` adds; `as_millis_u32` wraps near the end of a `u64`.
* An empty test pattern panics.
* `OpenOptions` with nothing asked for opens for appending; `create_new` forgets
  `truncate`; `File::create` and `File::open` have no definition.
* `os::FixedCStr` writes one character past its buffer when a path fills it.

## 5. Proofs

`ArcProofs`, for any finite set of handles and any number of forgotten ones,
assuming `NoWrap` (the handles and forgotten owners together are fewer than the
counters can count; with 2^32 values that is a bound on memory):

* `ArcInvariant`: `IInv` holds. The invariants a user cares about are not
  inductive, since they say nothing of the counters the code decides by. `IInv`
  adds `CountersExact` (`_strong` is the number of owners that have not begun
  their destructor and of forgotten ones; `_weak` is the number of Weaks, plus
  one that all owners share and the last of them keeps until it releases it) and `Phases`
  (when an owner is left nobody finishes; at most one handle finishes; what was
  destroyed and freed in each phase). The proof goes by actions; each changes
  the state of one or two handles, and the lemmas `AtChange` and `CountsFollow`
  say how cardinalities follow.
* `ArcOwnersSeeLiveValue`, `ArcNoTouchAfterFree`, `ArcDestroyedOnce`,
  `ArcNoLeak`, `ArcTypeOK`: from `IInv`.
* `ArcImplementsOwnership`: every step is a step of `SharedOwnership`, or
  leaves its variables alone.

`LibraryProofs`, of `BinaryHeap`, for elements that are any integers, and heaps of any length:

* `HeapInvariant`: `IInv` adds to the types `OrderedButOne`, what a sift loop
  leaves to be done: the order holds everywhere but between the node the loop is
  at and its root (up) or its children (down), and the root of that node is in
  order with its children. Without the last part a swap could spoil the level
  below. The arithmetic of roots and children is in the first lemmas.
* `HeapAlwaysOrdered`: between calls the vector is a heap.
* `HeapImplementsQueue`: the calls are those of a priority queue, which gives out
  a least value. That the top of a heap is least goes down all levels (`LeastOnTop`):
  the first place whose value were below the top's has a root that is in order
  with it, and that is an earlier such place; `LeastNumber` says that a set of
  numbers has a least one. How often each value is there is followed by
  `TimesPushed`, `TimesPopped` and, for the swaps of the loops, `TimesExchanged`.
* `HeapTypeOK`.

`LibraryProofs`, of `Library`, for any handles, descriptors, bytes, objects, values,
names and arrays, assuming that descriptors are counted from 1, bytes are no
negative numbers, the objects are finitely many, what is left of a value that was
moved is no value, texts are made of characters, and arrays have an axis and
dimensions below a bound (`LibraryAssumption`). The inductive
invariant is `LibraryInv`; its parts do not look at each other.

* `LibraryOwnedOnce`, for values: `OptionInv` counts the owners of a value by the
  objects that hold it and the variable a call has it in, and ties the tag of
  an object to its value. Each member puts one value into one or two objects;
  `HavingPut` and `Put` say how the counts follow, so that the proof of a member
  is which values it puts where. For descriptors: `FidsInv` says that no two
  Files have the same open one, and that an open one has a File.
* `LibraryFilesAndNames`. Reads: `ReadInv` relates what a call of `read_exact` or
  `read_to_end` has to the position of the descriptor, which nobody else moves
  while it runs; `FilledIs` is how a piece of any size is appended. Opening and
  appending follow from the access mode (`OpenShows`, `AppendShows`). Names: `path`
  stays a text, and the rest are facts about texts. `Readings` are what is known
  of a path after each character; `NamesAre` says that the names of a path are
  those of its last reading, `NamesJoin` that a path that ends with a slash and one
  put behind it have the names of both, `NamesOne` that a text without a slash
  is one name. `RfindIs` and `FindIs` say what the two searches answer with,
  `BelowIs` and `NameIs` where a path falls into its parts.
* `LibraryViewsShow`, for arrays of any rank and any chain of indices and slices:
  `ViewInv` says that a view has a rank, and that the address of each of its
  indices is that of the cell it means, by the steps of the array. `IndexShows`
  takes the last axis away (`AtGrows`); `SlicedShows` keeps the axes with a span,
  numbered by how many come before them (`IsCount`), and rests on `WholeAt`: the
  address of an index of the view is that of the start of the spans and that of
  the index of the slice. Steps are products and addresses are sums, loops that
  are unrolled by `Runs`; `HomeIsAt` says that the steps of `from_dims` count the
  cells as the property does, which goes through the axes from the other end.
  `AssignedIs` and `ArrayIsDense` are what an assignment writes, and that an array
  leaves no gap.

`LibraryProofs`, of `Queries`, for any sets of texts, patterns, numbers, times, suites and
names of tests (`QueriesAssumption` says what each is: that a predicate is not
searched for, how a number is spelled, that times are in a `u64`), any types of 8 bits
or more, any units of time, and any alignment and width of a list's fields. `QueriesInv`
says that an answer is what the call makes of its input, and of a list that its
vector is in its block; the rest is what the calls make of every input:

* `QueriesTextsFound`. `TextMatches` and `CharMatches` say that the fingers of a searcher
  pass over exactly the places where a pattern can be (the sums that end them, at
  a pattern as long as the text, longer or empty); `SearchedRight` that the searches
  answer with the ends of that set. For tests, `ChoiceTells` goes along the fold over
  the masks: what is known after each is the last of the longest so far that fits,
  and `RunsMeet` says that a recursive function is the only one of its kind. `NamedIs`
  follows a type's name through the cuts of `Test::from`.
* `QueriesNumbersHold`. Numbers: what is written is a numeral (`DigitsAre`, by induction
  along the divisions by 10); `DigitsEnd` says that the loop of `extract_dcm` stops behind
  it, `DcmIs` that it has its value then, and `NumberBehind` what blanks and a sign
  before it do. Times: `Rests` are added and subtracted like what they are the rests
  of, so that a time which wraps comes back; what `as_millis_u32` rounds is between two
  multiples of a millisecond (`MillisAre`).
  Lists (`ListsInMemory`): a vector grows to a multiple of the alignment with room for
  one entry more (`GrownHasRoom`), and the rest of the spare capacity modulo 2^16 is not
  more than it; so the vector rebuilt from it may think its block smaller than it
  is, and then takes a new one, but never larger (`PushFits`).

`NumberFormatProofs`, for any capacity, any numbers below 2^31 (`NumbersAssumption`)
and any styles:

* `CountDcmExact`: the product by 1233/4096 is the number of decimal digits or one
  less (`LogFacts`, over the 31 counts of bits), and the table tells which; the
  count is made for `v | 1`, which has as many digits as `v`. `CountBinExact` is
  the same for base 2, 8 and 16. Both rest on `BitsFacts`: a number lies between
  two powers of 2 of the table.
* `LoopsFit`: `LoopFits` holds. `IInv` says that only the first part of the list
  is in a digit loop and that parts not yet begun were counted right; `DigitLess`
  (a division by the base takes one digit) keeps it along the loops, and
  `ReserveKeeps` shows that the test in `reserve` does not wrap for digits. For
  zeros it does (section 4), and `LoopFits` does not depend on them.
* `NumbersAreSpelled`: `NumbersSpelled` holds, for a buffer of more than 31
  characters (the code's has 256; in a shorter one `reserve` leaves parts out).
  `InStep` says where the steps are: `todo` is what is left of the number's parts,
  those before it stand in the buffer (`StandsUpto`, by the places `Ends` where
  each ends), and a digit loop has left its number divided by what the digits
  behind it are worth (`LoopAt`). `DigitWritten` is one round, a round of
  `LoopTwo` is two; `DivTwice` is the arithmetic. `ZerosCounted` shows that a
  fraction has no more digits than places unless it rounds up to 1.
* `FieldsFilled`: `FieldFilled` holds, for any styles that the parser can give
  (`StylesAssumption`) and any capacity. `FieldInv` says that the buffer never holds
  the character that fills a field, whatever the loops leave in it, and that what
  was written at the end is what `pad` or `pad_num` makes of the buffer. The rest
  is about texts: each branch of the two gives a field (`IsField`: what fills it
  on the left, the sign, what fills it between, the body, what fills it on the
  right), and what such a field holds besides its fill characters is sign and
  body.

`ThreadLoggerProofs`, of `Thread`, for any jobs and any thread ids (`None` being neither):

* `ThreadInvariant`: what a user sees, that a join reads its own result, depends
  on four processes that never look at each other: owner, worker, packet and
  system. `IInv` says how they stay in step: `HandlesInStep` (how many owners
  the packet has, by where the handle is), `ResultStored` (the result is in the
  packet from the worker's store to the one join that takes it), `IdsInStep`
  (an id that is live belongs to the worker that runs under it) and
  `WaitersJoin` (an id is kept while somebody waits for it). `FreshIdsKept` is
  the part that the second detach of a joined thread breaks: it is kept while no
  id was given twice.
* `ThreadJoinReadsOwnResult` and `ThreadWorkerPacketLive`, without any
  condition on ids; `ThreadFreshReleased`.

`ThreadLoggerProofs`, of `Logger`, for any threads, messages of any pieces, lengths of
buffers and numbers of backends, calls and faults of files (`LoggerAssumption`). The
invariant `LogInv` is needed as a whole, since what a backend has got depends on
where the iterations are, and that on how the vector grows:

* `LogIterationsInMemory`: `ThreadsInStep` (an iteration began in memory that was
  the vector's and ends where the vector did) and `MovedByGrowth` (memory moves
  only when the capacity grows, which by `GrowthAbove` it does each time).
* `LogLinesSeparate`: `OutsInStep` says of each backend that the characters of an
  entry are in one piece, that the next entry begins after the newline of the
  last, and that the entries of a thread come in the order of its calls.
  `LastLines` is what keeps it: the last line of a backend is at its newline,
  except while a thread that has stdout locked writes it. What a File writes of a
  line that fits ends in a newline, and has no other entry in it.
* `LogEntriesDelivered`: `EntriesHeld` (a call that runs has given its entry to the
  backends it has come to, and to no others), `PrefixesHeld` (no backend has an
  entry that the one before it has not) and `ReturnedHeld` (a call that returned
  without a fault has given it to all). That the console shows the pieces of a
  message that fit, and no others, needs what a loop over pieces makes of a
  buffer: an induction over their number, made by the least counterexample.

`ThreadLoggerProofs`, of `Stderr`, for any threads, pieces and calls:

* `StderrEprintIsLast`: `StderrInv` says that who writes has the mutex, and that
  after the first eprint has ended, returned or thrown, somebody has it who writes
  no more. Such a thread never unlocks it, and no other gets it.

`VecProofs`, for any elements and vectors, any alignment and sizes:

* `VecInvariant`: the elements of a vector that is alive are in its first `len`
  slots, which it has memory for, and no other vector has any. The arithmetic is
  in `AlignUpAbove` and `ReservedEnough`.
* `VecMemoryHoldsElements`; `VecNoElementLost` for elements that have a
  destructor; `VecInOnePlace` for elements that have none, or for vectors that are
  never truncated to a length above 0: the loop of `truncate` destroys what
  stays (section 4), so that without this hypothesis it is false.
* `VecNoNullDrop`: if no vector is moved from that has elements, no destructor
  runs at null. The run `vec_moved_from` shows what happens otherwise.

`LineWriterProofs`, for any capacity, stream, slices and failures:

* `LineWriterInvariant`: `todo` is a list that the steps rewrite, and `IInv` says
  which lists there are. `Writing` has two stages, the slice up to the last
  newline with a flush behind it (`FirstStage`) and the rest (`LastStage`), and
  says what was counted in each; `InOrder` and `Kept` relate what was accepted to
  what is in the sink, in the buffer and in the slice that `write_all` is in;
  `LinesKept` says where a newline may wait. `LastNewlineIsLast` is the search of
  `memrchr`.
* `LineWriterToldIsDelivered`, `LineWriterLinesGoOut`,
  `LineWriterFaultsLoseNothing`.

`StdioProofs`, for any threads, texts and capacity:

* `StdioInvariant`: the characters of the running call are in three places, in
  this order: gone out or in the buffer (`Stream`), in the parts that the writer
  has to do (`Underway`), and in the pieces the thread has still to write
  (`rest`). `Origins` and `ToCome` say where a character may be, `Together` that
  what came out is in the order of pieces and indexes with no character of
  another text between, `Complete` what a print that returned has left; `Counts`
  bounds the count of `write` by what it was given, which its type needs, and
  `Locked` says who is inside the mutex.
* `StdioWriterIsLocked`, `StdioTextsUninterleaved`, `StdioPrintedIsOut`.

`VecDequeProofs`, for any values, any first capacities up to 2^30 and any
capacity of at least 2 for the first growth (`VecDequeAssumption`; it is 16 in the
code, and a ring of one slot could not tell full from empty):

* `VecDequeInvariant`: front and back are indexes of the memory (`Placed`), what
  lies between them are values (`ValuesIn`), and what an iteration has passed on
  both sides, with what is between its ends, is the contents (`Meeting`). The
  lemmas unroll the ring: `RingIs` says what the sequence between two indexes is,
  wrapped or not, `RingAppends`, `RingPrepends`, `RingFirst` and `RingLast` what
  becomes of it when an end moves, and `GrowthKeeps` that each of the three
  branches of growth leaves the same sequence, with room for one more value.
* `VecDequeImplementsDeque`: every step is a step of `Deque`, or shows nothing of
  the queue.
* `VecDequeIterMeetsOnce`.
* `VecDequeTypeOK`: the capacity is a power of two, for queues of fewer than 2^30
  values (the model has no greater power). The other theorems do not need it,
  since the model takes remainders; the mask of the code does.

Only model-checked:

* Liveness and the refinements with fairness: temporal reasoning of that kind is
  out of the prover's reach.
* `FormatsAsAsked` and `NodesHold` of `Calls`: boxes within boxes and the parser
  of nodes are recursive operators, decided by evaluation.
* Of `StderrReports`, the bound of `TypeOK` on what goes out, and `PanicsReport`,
  which is liveness.

What folds data over a sequence (`NamesOf`, `Held`, the loops of `Logger`) is proved
about where the fold is over indexes: an induction over numbers alone needs no
operator as a parameter, since the least member of a set of counterexamples does,
as in `LeastOnTop`.

## 6. Not modelled

* The thread pool, the CUDA part, and the tests of the linked list and B-tree
  are compiled out; `hash_map.h` has declarations only. No instance of
  `LinkedList` or `BTree` compiles at this commit, so that there is no behaviour
  to model.
* Stdin, `sleep`, `yield_now`, window sizes, Metadata, clocks, environment
  variables: a system call each.
* Tuples, reflection, operators: templates the compiler evaluates. Comparison and
  text of Options, references as Options.
* UTF conversions, comparison of slices, floats read from text beyond where the
  parser stops, scientific notation; element-wise arithmetic of `math/`.
* The destructor of a Node, which depends on a pointer that was never set; what
  the code does with entries of lists and dicts, which no program can make.
* A write to the console that fails under a log call (module `Stdio` has what it
  does to stdout); an inner writer that takes 0 bytes.
* Memory orders weaker than sequential consistency; failing allocation; two
  threads that add a backend at once; a mutex that one thread locks twice; queues
  that were moved from; counters of Arc that wrap.

## 7. Plan

Done, in this order: Arc with its abstract specification and proofs; Thread,
which uses what Arc shows of the packet's counter; LineWriter with a client,
then Stdio, which composes it with threads; Stderr; VecDeque and Deque; Vec;
BinaryHeap with proofs; IntoStr and NumberFormat with proofs; Logger with its
backends; Str, Format, Lists, Json, Time and Tests under Queries and Calls; PathBuf, Files, Option
and NdSlice.

Proved, in this order: Arc, BinaryHeap, the counts of digits; Thread, Vec,
LineWriter, Stdio, VecDeque with its refinement of Deque, the heap as a
refinement of PriorityQueue, and that numbers are spelled; then Logger, Stderr,
that fields are filled, Option, Files, paths and views, searches, numbers that are
read, times, tests and lists.

What is left is in section 5 under "Only model-checked", and in section 6.
