# Specifications of the CS 252 programs

The repository holds five independent programs of a systems programming course:
shell scripts (`lab1`), a memory allocator (`lab2-src`), a Unix shell
(`lab3-src`), two exercises in threads and semaphores (`lab4-src`) and a web
server (`lab5-src`). This directory models their core logic in TLA+, checks the
models with TLC on small instances and proves theorems about them with TLAPS.

`PROJECT.json` lists the components, the runs, which lines of the source each
definition translates (`map`), the hazards of the code with the properties that
look after them, and the theorems.

## 1. Inventory

### Memory allocator: `lab2-src/MyMalloc.c`, `MyMalloc.h`

A boundary-tag allocator. *State:* a heap of chunks from `sbrk`, each an array of
objects between two fenceposts; every object has a header (size, status, `next`,
`prev`) and a footer (size, status); the free objects are in a doubly linked list
in address order that starts and ends at `free_list_sentinel`. *Operations:*
`initialize`, `allocate_object` (first fit; split the back of an object; take a
new chunk), `free_object` (four cases of coalescing; insertion by address),
`get_memory_from_os`. *Interactions:* the operating system's `sbrk`, which the
program may call too, so that chunks need not touch. *Hard:* coalescing in every
order of frees; remainders of a few bytes; the comparison with the sentinel's
address; the wrap of `size_t`; exhaustion. *Correct when:* tags agree and tile the
chunks, the list holds exactly the free objects in order, free neighbours are
always merged, what the program holds is allocated once and overlaps nothing.

### malloc interface: `lab2-src/MyMalloc.c` from line 573

`malloc`, `free`, `realloc` and `calloc` over the allocator. *State:* one
non-recursive mutex. *Interactions:* threads of the program share the heap.
*Hard:* `realloc` takes the mutex twice and copies in between without it; `calloc`
clears without it and multiplies in `size_t`; a failed allocation inside `realloc`
copies to `NULL`. *Correct when:* the allocator sees one call after another,
unlocked reads and writes touch only the caller's blocks, every call returns.

### Bounded buffer: `lab4-src/part1.c`, `part1.h`

*State:* a ring of `BUF_SIZE` characters, `head`, `tail`, two counting semaphores
(`full_sem` counts empty slots, `empty_sem` full ones) and a mutex. *Operations:*
the loops of `producer` and `consumer`, and `main`, which creates and joins them.
*Hard:* the semaphores change outside the mutex. *Correct when:* the ring is a
first-in first-out queue, never overflows, and everyone exits.

### Chemical reactions: `lab4-src/part2.c`, `part2.h`

*State:* four counts of atoms and molecules, a mutex, one semaphore per reaction.
*Operations:* six threads: two create atoms, four combine them. *Hard:* the
reactions read the counts without the mutex, decide, then lock; a thread that was
woken does not look again; one decrement is outside the mutex. *Correct when:* no
atom is lost or used twice, no wakeup is lost.

### Shell: `lab3-src`

- **command table and execution** (`command.c`, `command.h`). *State:* the global
  `current_command` (simple commands, file names, `is_background`, `is_cleared`),
  the descriptors of the process, its children. *Operations:* insertion, clear,
  `command_execute` (redirections, pipes, `fork`, `cd`/`setenv`/`unsetenv`/`exit`,
  wait), the handlers of SIGCHLD (`zombie`) and SIGINT (`ctrl_c`). *Hard:* both
  handlers run between any two steps of the rest; `waitpid` and the handler reap
  the same children; early returns with redirections in place; copies of pipe ends.
  *Correct when:* a line executes as typed, a pipeline is joined up with no stray
  write end, the terminal comes back, every child is reaped, the prompt returns.
- **grammar and expansions** (`shell.y`). *State:* the simple command being built
  and its growing array of arguments, the global array of wildcard matches.
  *Operations:* the rules that fill and execute the table; the expansion of
  wildcards, `~` and `${}`. *Hard:* what a syntax error leaves behind; arrays that
  grow while nested calls fill them; an array with one match is kept for the next
  word. *Correct when:* the matches are inserted sorted, once each, and no array is
  written past its end.
- **lexer and subshell** (`shell.l`). *State:* the descriptors during a subshell.
  *Hard:* the output is read to its end, a pipe end stays open, and nobody waits for
  the child but the handler. *Correct when:* the end of the output comes.
- **line editor** (`read-line.c`). *State:* the line in a buffer of fixed size, the
  position in the history. *Hard:* editing at the ends of the buffer and of the
  history over what an earlier line left. *Correct when:* the buffer holds what the
  screen shows. (The shell does not link it.)

### Web server: `lab5-src`

- **accept loops** (`main.c`, `server.c`, `tcp.c`, `socket.c`; `tls.c` is not
  compiled in by default). *State:* the listening and the accepted descriptors, the
  child. *Operations:* `run_linear_server`, `run_forking_server`; the two threaded
  loops are empty. *Hard:* the parent never closes what it accepted and waits for its
  child before it accepts again; a failed `accept` is handled like a connection.
  *Correct when:* whatever clients do, the next one is served.
- **request handling** (`server.c`, `http_messages.c`, `misc.c`). *State:* the lines
  and the parts of a request, a response, all on the heap. *Operations:* `handle`,
  `parse_respond`, `get_content_type`, `response_string`. *Hard:* paths that free,
  close or end the process in different ways; parts of a request that were never
  there. *Correct when:* one right answer, and everything freed once.
- **socket input** (`socket.c`, `tcp.c`). *State:* a line that grows. *Hard:*
  connections that end in the middle of a line; bytes that are no character.
- **directory listing** (`handle_dir.c`): a page made from `readdir` and `stat`;
  what it frees, and when it ends the process.

### The rest

`lab3-test` is a copy of `lab3-src`; `lab1` holds sequential scripts; `hello`,
`temp` and the `examples` directories hold stand-alone exercises; the tests of
`lab2-src` justify the inputs of the allocator's models; logs, outputs and served
documents are data.

## 2. Modules

| Module | What it is |
| --- | --- |
| `MyMalloc` | the allocator: tags, free list, chunks |
| `MyMallocProperties` | what makes it correct |
| `MyMallocAssumptions` | what the code takes for granted, as assumptions |
| `Allocator` | abstract: what a program may rely on |
| `MyMallocInvariant` | the inductive invariant of the heap |
| `MyMallocThreads` | threads over the allocator (instance of `MyMallocAssumptions`) |
| `BoundedBuffer` | producers, consumers and `main` of `part1.c` |
| `BoundedQueue` | abstract: a bounded first-in first-out queue |
| `Reactions` | the six threads of `part2.c` |
| `Shell` | parser, subshell, `command_execute`, handlers and processes |
| `ShellInvariant` | its inductive invariant |
| `Wildcards` | from the words of a command to its arguments |
| `WildcardsInvariant` | its inductive invariant |
| `ReadLine` | the line editor |
| `Server` | the web server: loops, input, requests, answers, clients |
| `ServerInvariant` | its inductive invariant |
| `MC...` | small instances for TLC |
| `...Proofs` | theorems, each file over the module it is named after |

In every module an operator called `Bug...` is a plausible mistake in the operator
after it. The specifications never use one; substituting it shows that a property
would notice (`mutants` in `PROJECT.json`).

### MyMalloc

`header` and `footer` map addresses to tags; tags are found by arithmetic exactly
as in the code, so a wrong size leads to an address without a tag. A call is a
record `op` ("search", "insert", "idle", "fault") with its loop variable, and each
turn of the two loops is a step: `AllocateStart`, then `SearchNext` or one of
`TakeWhole`, `Split`, `GrowSplit`, `GrowWhole`, `GrowRefused`; `FreeAlone` and the
three merges, then `InsertNext` and `InsertLink`. Sizes are in bytes and wrap at
`SIZE_MODULUS`, in place of 2^64. `Program` frees only what it holds;
`ProgramSbrk` is the program's own use of `sbrk`, as in `test8-7.c`. Counters,
verbose statistics and `print_list` are left out.

`Allocator` says what `malloc` promises: blocks that share no byte, a request up
to an arena is never refused, every request is answered or the process ends. The
refinement mapping hides tags, list and chunks (`Abstract` in `MyMallocProperties`).

### MyMallocThreads

Each thread has a place, a call with its arguments and the locals `new_ptr` and
`to_copy`. The heap is an instance of the allocator whose requests are the sizes these
calls can ask for, `calloc`'s product modulo 2^64 among them. The heap's variables change only through the actions of `MyMalloc`. The
`memcpy` of `realloc` has a beginning and an end with every other thread in
between. The program never passes a block to two calls: this is what
`MyMalloc.c:622-625` requires of it.

### BoundedBuffer, Reactions

A thread's `pc` names the place in its loop, one step per access to shared state.
Mutexes are the name of the holder. In `Reactions` the reads of counts without the
mutex are steps of their own, and every update of a counter is a load into `reg`
and a store, whether the mutex is held or not: an update is only as whole as the
mutex makes it. `num_o2 -= 2` is outside it, and races. `BoundedBuffer` counts what
was `filled` and `emptied`, and shows that the slots between `head` and `tail` are
a `BoundedQueue`.

### Shell

*State.* `table` and `is_cleared` are the command table; `line` and `inserted` say
how far the parser is; `pc` and `i` where the main program is; `fd` maps the seven
descriptors `command_execute` uses (0, 1, 2, `tmpin`, `tmpout`, `tmperr`, `fdin`)
to open files; `leaked` holds the open files of descriptors whose numbers are lost;
`procs` is the sequence of children with their descriptors; `handler` is where
`zombie` is.

A word in backquotes is one of the first command of a line. `Subshell` makes the two
pipes and forks; `SubshellOutput` waits until nobody holds the write end of the second;
the read end of it stays in `leaked` for good, as `pipeout[0]` does.

*Steps.* The main program stops while `handler` is not "none"; `ControlC` may come
between any two steps, of the handler too. The insertion of a simple command and
the next statement, which marks the table as not cleared, are two steps, since
SIGINT in between matters. Setting up the descriptors of one command is one step:
no other process sees them before the fork. SIGCHLD is a flag, so signals merge, and
`zombie` is three places: not running, in the blocking `wait3`, in the loop.
A builtin and a failed `fork` return before the descriptors are restored.

*Abstractions.* A command is one of "ends" (exits when it pleases), "filter"
(exits at the end of its input), "builtin" (`cd`, `setenv`, `unsetenv`) and "exit".
Left out: arguments, `is_appended`, `outfile_counter` (which only prints a
warning), the effects of builtins outside the table and the descriptors, the
capacity of pipes, SIGPIPE, descriptor numbers and their limit, reuse of process
ids, and that SIGINT also goes to the programs in the foreground. `open` refuses
the names in `Unopenable`; its flags do not matter to the properties. A line that
breaks off before its first command changes nothing, and is not in `Lines`. The
commands and the output of a subshell are left out: it ends when it pleases.

### Wildcards

`todo` holds the words still to parse, `stack` the calls of `expand_wildcards` in
progress, `dir_array`, `max_entries` and `room` the array of matches, its nominal and
its real size. A component of a pattern is the set of names its regular expression
matches; a directory is read in any order. What the code does that one might not
expect is in the model and allowed by the properties: a single match is not inserted,
the word is, and the match stays in the array for the next wildcard (`Expanded`); a
pattern that ends in a name without wildcards adds nothing. And a component before a `/`
is copied by `strncpy` without its end, over whatever the buffer on the stack held: it
is read as typed or as any of `Stale` that can begin the same way (`AsRead`). After `xy*`,
`ab/c*` may be read as `ab*` below every name that begins with `ab`, so what it inserts
need not match what was typed. Left out are a tail with a `/` in
it, which would lead a level deeper, and one that fills the buffer.

`WordsExpanded` compares what is inserted with the reference definition `Matches`,
without the recursion of the code. With one component, which has its end, `Matches` are
the paths that match, and all of them are inserted, once each. With several, only
the last is read as typed: what is inserted are names it matches, in directories as
deep below the root as the pattern, each once at most. In both cases what was left over
is there as often as it was. Tilde and environment expansion are
there for what they insert and for where they may end the process: a home directory
is copied over the word, an unset variable is a null pointer. `qsort` is `InOrder`, which
gives each entry the place that the number of entries before it says.

### ReadLine

The buffer has all its cells, since `read_line` does not clear it and the up arrow ends
its line with a NUL in the middle. `screen` is what the terminal's line shows. One key
is one step. Backspace does not look at `line_length`, which becomes negative on an
empty line; the properties say what holds until that happens (`below`).

### Server

*State.* `setup` is chosen at the start: mode, descriptor limit, whether `listen`
and `bind` succeeded. Without `listen`, `accept` fails at once; without `bind` it
waits, on a port nobody connects to. `loop` is where the accepting process is, `job` where `handle` is with its
lines, path and answer; `held` maps the two processes to the connections they have
open; `heap` holds the live blocks, named after the variables that own them; `damaged`
says that a block was freed that was not live. At most one `handle` runs at a time in
either mode, so one `job` is enough. Each client has a script of lines, and may be
away, here, half-closed or gone. `ready` says that it has done what the server waits
for: sent its next line, or read.

*Steps.* `Start`, `Accept`, `Fork` and `Reap` are the loops; `ReadLine` is one
`socket_read_line`, whole or cut off; `Parse`, `Lookup`, `Send`, `List` and `Finish`
are the parts of `handle` between which other processes or the client matter. Variables
the code reads without having assigned them (parts of a short request line, the value
of a header without one, the status of a file `stat` did not find) are choices.
`Aborts` is the allocator stopping a process that freed a block twice. The socket
blocks: an answer of a file in `Large`, which does not fit into the buffers of a
connection, is sent when the client has read (`Receive`) or is gone (`Blocked`).

*Abstractions.* Contents, formatting, header values; `file(1)` fails only as a fault;
a partial `send` is one the client does not receive. `MaxFaults` bounds the system
calls that fail without a reason in the model.

## 3. Runs

| Run | What it shows |
| --- | --- |
| `MCMyMalloc` | Any program that holds up to three objects of 1, 9, 176 or 177 bytes: the heap's invariants, termination of every call, and the refinement of `Allocator`. |
| `MCMyMallocThreads` | Two threads with two calls each: the allocator sees serial calls, unlocked copying and clearing stay inside the block, sources stay stable, every call returns. |
| `MCBoundedBuffer` | Two producers, two consumers, three characters, two slots: invariants, refinement of `BoundedQueue`, everyone exits. |
| `MCReactions` | Five atoms of oxygen and four of nitrogen: nothing is lost between a load and a store, at most one false reaction, all pairs combine. |
| `MCShell` | Two lines of eight kinds, one with a subshell, and one control-C: the wiring of pipelines, the restored descriptors, the table, reaping and the prompt. |
| `MCWildcards` | Two words and then one more in a second command, each of thirteen kinds, a component before a `/` as typed or with a stale tail: what is inserted is in `Matches`, and all of them for one component, sorted, with what was left over, and both arrays have room for it. |
| `MCReadLine` | Any keys over a buffer of five characters: screen, buffer and returned line agree. |
| `MCServer` | Two clients, one with any of eight requests, that may stop, leave or not read at any moment; linear, forking and threaded mode; one fault: the right answers, ownership of blocks and descriptors, what may end the server, and that well-behaved clients are served. |

The other runs each refute one sentence of the code or its documents; each is a
finding in `PROJECT.json`:

| Run | What TLC finds |
| --- | --- |
| `MCSmallRemainder` | The grow path splits without the `min_size` check of the search path, and makes objects smaller than their tags. |
| `MCO2Lost` | `num_o2` is not what was made less what was used. |
| `MCShellBackground` | `waitpid` reaps the foreground child, its SIGCHLD arrives after that, and `wait3` without `WNOHANG` blocks until a background job exits. |
| `MCServerEnds` | The forking parent never closes the connections it accepted: they are answered with "Connection: close" and stay open. |

Disagreements that no run is spent on, each of which the model contains: after `cd` or
`setenv` with redirected output the shell itself writes to the file (`ReturnsEarly`;
`DefaultsRestored` excepts it with `early`); a consumer prints what it expects, not the
slot it empties (printing is not modelled); `memcpy` in `realloc` reads up to 48 bytes
past the object, where another thread writes tags under the mutex; with the sentinel
above the heap, as in a shared library, the insertion search puts objects in the wrong
place (excluded by `MyMallocAssumptions`); an output file that cannot be opened leaves
a pipeline's last command writing into its own pipe (no such line in `MCShell`); a
component before a `/` is read with what an earlier one left on the stack (`AsRead`),
and the word inserts names it does not match, against the comment at `shell.y:205`; the
linear server ends when a listing or a request line is missing, and with a client that
closes too early (`StaysUp` lists the cases); a client that stays without sending, or
without reading a large document, stops either server for everyone (the premise of
`ClientsServed`).

### Bounds

- *Allocator.* 64-bit tag sizes; a chunk for an arena of 176 bytes holds four
  objects of the smallest size, so every case of splitting and of coalescing occurs, with the whole
  arena and one byte more requested too. Up to three live objects and chunks, which
  the program's `sbrk` may push apart. `HeapLimit` is where `sbrk` fails.
- *Threads.* Two threads suffice for every pairwise race of a call with a call;
  two calls each let one thread reuse what the other freed. An arena of 120 bytes
  and a heap of a few chunks make allocation fail in the middle of `realloc`. The
  pair `<<72, 57>>` is a product that wraps to 8.
- *Bounded buffer.* A string longer than the ring wraps both indices; two threads
  on each side compete for the mutex and the semaphores. The string is the same for
  all, as in the code.
- *Reactions.* Five and four atoms make every reaction happen, with an odd atom
  left over.
- *Shell.* Two lines (`MaxLines`) are a background job and the command after it,
  or a broken line and the one that inherits its leftovers; pipelines have two
  commands, three or four with leftovers, and one line has a subshell, so at most
  seven processes are forked (`MaxProcesses`, checked by `TypeOK`).
  One control-C (`MaxInterrupts`) at any step.
- *Wildcards.* Arrays that start with one entry and two arguments, in place of 20 and
  5, double several times; directories of up to four names, one hidden; up to seven
  entries at once when leftovers are inserted too.
- *Line editor.* Five characters leave room for a full line, one of the history and
  one shorter than it; two lines of history wrap. `MaxBelow` bounds how far
  `line_length` may fall below zero.
- *Server.* The second client is the one that must still be served, or sends first;
  a limit of one descriptor makes `accept`, `fopen` and `pipe` fail for want of one,
  and 20 is enough for everything. One fault (`MaxFaults`) at any call. The image that
  the first client may ask for is `Large`; what it asks for otherwise, and the second
  client's document, are not.

Runs in which the process may end in the middle (a fault, a refused `sbrk`) or the
threads may rest (a reaction that waits for atoms that do not come) say
`CHECK_DEADLOCK FALSE`; the others check for deadlock, and an `Ended` step stands
for the process that is over.

## 4. Fairness

- `MyMalloc`: a call that has begun goes on (`WF(Continue)`); nothing makes the
  program call.
- `MyMallocThreads`: weak fairness per thread, inside calls only. A thread waits
  for the mutex only finitely often because calls are bounded.
- `BoundedBuffer`, `Reactions`: weak fairness per thread: the scheduler runs every
  thread that can run. Strong fairness is not needed, because every thread has
  a bounded number of turns.
- `Shell`: the shell and its handlers are scheduled (`ShellGoesOn`). That programs
  which can exit do so is a separate assumption (`ProgramsEnd`), needed for
  `PromptReturns` and `ZombiesReaped` only; `MCShellBackground` does without it,
  since a job in the background may run for ever. Nothing obliges the user.
- `Server`: the two processes of the server are scheduled (`WF(ServerStep)`): at most
  one of them can take a step at a time. Nothing is assumed of clients, faults or
  control-C; `ClientsServed` names what it needs of the clients: none keeps the server
  waiting for ever (`Awaits`), as one does that stays and sends nothing, or stays and
  does not read an answer larger than the buffers of its connection.
- `Wildcards`, `ReadLine`: safety only.

## 5. Theorems

Every safety property of a passing run is also a theorem, for every value of the
constants that satisfies the assumptions the modules name:

- *Allocator:* `SizesAssumption`, `AddressesAssumption` and `ProgramAssumption` (the
  program may hold at least one object), and what the code takes for granted,
  `MyMallocAssumptions`, see below. `MyMallocThreads` assumes the same of its instance
  (`HeapAssumption`), that arguments are numbers, and that `NULL` is no thread.
- *Bounded buffer, reactions:* `BufferAssumption`, `AtomsAssumption`.
- *Shell:* `LinesAssumption` (a line has at least one command) and `BoundsAssumption`.
  Only `PipesEnd`, `PipelinesAreJoined` and `WholeInvariant` have a hypothesis,
  `OutputsOpen`: no line redirects output to a file that `open` refuses. It is needed:
  `command.c:291` ignores the failure, and the last command of such a pipeline writes
  into the pipe it reads from.
- *Line editor, expansions:* `ReadLineAssumption` (the history fits),
  `WildcardsAssumption` (arrays start with an entry and with two arguments),
  `NamesAssumption` (names are numbers, directories are named by paths, the words of a
  line have a root and components, and so has what is `Stale`).
- *Web server:* `ServerAssumption`, `ScriptsAssumption`, `FilesAssumption`: finitely many
  clients, lines of the kinds the model knows, files of three kinds, some of them large.

### Allocator

`MyMallocInvariant` has the invariant. `Shape` says of the tags that chunks are apart,
each chunk has its fenceposts, and from every object one gets to the next by its size;
`Merged` that no two free objects touch; `List` that the free list, cut where the call
in progress cut it, is the free objects in order of address; `Holds` that the allocated
objects are what the program holds; `OpInv` what the locals of the call in progress
point to. `FreeListAscending` alone is not inductive, for instance: that an insertion
keeps the order needs to know that every object before the loop's position is lower.

All parts are predicates of headers, footers and chunks, and the proofs use that. What
an assignment does is proved once, of any tags: `Splits`, `Merges`, `Flips` and `Grows`
for the shape, `Inserts`, `Removes` and `Replaces` for the list. The lemma of an action
only has to say which of them it is; each of the four cases of `free_object` is `Flips`
followed by up to two `Merges`. From `HeapInvariant` follow `BoundaryTags`, `Tiles`,
`FreeListSorted`, `AlwaysCoalesced`, `NothingLost` and `TypeCorrect`.

Two more invariants stand on it. `Bounded`: when the allocator asks for a chunk every
chunk it has contains an object in use, since an empty chunk is one free object that is
large enough; with it `HeapStaysSmall`. `Aligned`: every address and size is a multiple
of 8; with it and with blocks being apart `Refinement` shows, step by step, the safety
part of `ImplementsAllocator`. The last section says what a step does to the program's
blocks, for those who call the allocator.

### malloc interface

`AllocatorIsLocked` needs only `MutexInv`, which ties the places between lock and
unlock to the holder of the mutex. The rest takes the allocator's own theorems through
an instance of `MyMallocProofs`, with the threads as its program. `CallInv` says what
each place knows of its call; `OwnInv` that the block a call was given (`Old`) and the
one it is about to return (`New`) belong to no other call; `SizedInv` that a block
stays as large as when it was requested; `CountInv` that the program's limit of objects
covers the blocks in calls. With these every step of a thread is a step of the allocator
with a correct program, or none: `SerialCalls`. So the heap's invariant holds under any
interleaving (`WholeInvariant`), and what a caller may rely on gives
`CopySourceIsStable` and `WritesStayInside`.

### Bounded buffer and reactions

- **`BoundedBufferProofs`.** `TypeCorrect` needs `InLoop`: a thread past its wait
  has a character left, so that no index leaves the string. `MutualExclusion`
  follows from the types. `SlotsCorrect` is itself inductive given the two
  before it: a slot is in a semaphore, promised to a thread after its wait, or owed
  by a thread before its post; each step moves one thread between these sets, and
  lemmas on cardinalities (`OneMore`, `OneLess`) do the counting. `NoOverflow` is its
  arithmetic consequence. `RingIsQueue` proves `ImplementsQueue`: `TailInv` says that
  the two indexes are as far apart, modulo the size, as what was filled and emptied; a
  thread that holds the mutex after its wait has a slot of its own kind; and with lemmas
  on remainders filling a slot is putting a character behind the others.
- **`ReactionsProofs`.** `TypeCorrect` is inductive. `AtomsConserved` needs
  `LoadedInv`: a thread between its lock and its unlock holds the mutex, so the
  counters still have the values it loaded. `num_o2` is the exception: a store of
  `create_o2` outside the mutex and one of `create_o3` under it may undo each other,
  and what is left is a bound on it from both sides. For `FalseReactions` the invariant `WokenInv` says that until its creator signals,
  and while the signal is up, a reaction is past its test only if the pair is there;
  the one signal lets it go on once without looking, so a count falls to -2 at worst.

### Shell

`ShellInvariant` has two layers. `Base` holds of any lines: types, the places of the
parser and of `command_execute` in the line, what was parsed so far is what is in the
table as long as nothing disturbs it, the table is marked from the last simple command
on so that `ctrl_c` leaves it alone, and while a pipeline is wired up the three
saved descriptors hold the terminal. `LinesExecute`, `TableIsKept` and
`DescriptorsRestored` follow.

`Inv` adds who holds which end of which pipe. A pipe's ends are never held beyond those
who need them: when the shell passes a read end on, only the last process has the write
end and nobody else has the read end (`EndsApart`); a process that is not the last of
its line writes to a pipe which the next one reads or which the shell still passes on
(`Joined`, `Following`, `NewPipe`); lines and places are `Numbered` in the order of
forks. `WriteEndsClosed` and `PipelineJoined` alone are not inductive, since both speak
of processes already forked.

The proof first sorts the steps by what they do to descriptors (`Calm`, `Shuts`,
`Subshell`, `SetupLast`, `SetupPipe`, `ReturnsEarly`, `Fork`, `Restores`); then each part of
the invariant has one lemma over these forms. It covers pipelines of any length, early
returns with redirections in place, control-C and the handler of SIGCHLD at any step.

### Expansions and line editor

- **`WildcardsProofs`.** `Inv` says that `room` is 0 or `max_entries`, that a call which
  reads a directory does so only when the array is there, and that the arguments are
  as many as when the word came until its matches are inserted. `TypeCorrect` and
  `ArraysAlwaysFit` follow, in whatever order the nested calls find entries.

  `WordsAreExpanded` needs to know what the calls in progress have done so far, since
  nothing in `dir_array` tells one word's entries from another's (`Stage`): each call
  has come from the root along as many components as it has left out of its suffix,
  however they were read, and reads the last one as it is (`OnTheWay`); each was made for a name that the one below it has read (`Nested`); the
  entries are those that were there and then matches, each once (`Collected`). That a
  match is entered only once follows from `Fresh`: an entry below the prefix of a call is
  by a name the call has read, and the next name is not read yet. For a pattern of one
  component, a match has been entered or is still to be read (`Complete`). When no call
  is left, this is `Result`; that `InOrder` changes neither what is there nor how often,
  and ascends, is `InOrderFacts`, proved by counting the entries before each one
  (`Rank`), which needs that the comparison is a total order (`BeforeTransitive`,
  `BeforeTotal`).
- **`ReadLineProofs`.** `TypeCorrect` is inductive: the up arrow sets a length that fits
  by the assumption on the history, and `Full` stops the others. With it `LineOnScreen`
  is inductive too (`ScreenIsRight`): each key does to the buffer's first characters,
  as a sequence (`Shown`), what it does to the screen after the prompt; characters are not
  NUL, so the string returned ends where the line does.

### Web server

`ServerInvariant` follows a request. Where the two processes are (`Places`) and which
clients wait (`InQueue`, `Untouched`); what of the request has been read (`Reading`),
parsed (`Parsed`), looked up (`LookedUp`) and answered (`Answered`); which blocks the
process that handles it owns at each step (`Owned`), and that in the linear mode nothing
else is left but what is never freed (`NothingElse`); that a block is freed twice only
in a malformed request (`DamageExplained`). The many ways for the process to end are
one form of step, `Death`, with its reasons (`StepKinds`), which are the cases
of `StaysUp`. `AnswersAreRight`, `LinearServerLeaksNothing` and `ServerStaysUp` follow.

### Not proved

*Only model-checked:* all liveness (`CallsReturn`, the fairness in
`ImplementsAllocator`, `AllExit`, `PairsCombine`, `ZombiesReaped`, `PromptReturns`,
`ClientsServed`) and the absence of deadlock, which rest on `ENABLED`.

*Assumed of the environment* (`MyMallocAssumptions`): the sentinel lies below the
heap; a request leaves of a fresh chunk nothing or enough for an object; adding the
tags to a request, or to the smallest payload, does not wrap; `sbrk` is called with
multiples of 8 only, as by the allocator and by `test8-7.c:10`. The code checks none of
these; `MCSmallRemainder` shows what happens without the second. The third would need a
request of nearly 2^64 bytes.

## 6. Plan

Done, in order of weight: the models of allocator, malloc interface, bounded buffer,
reactions, shell execution with its subshell, web server, expansions and line editor;
the inductive invariants of all of them, and the two refinements. What is left: for
pipelines whose output file is refused, what still holds without `OutputsOpen`.

### Not modelled

The page of a directory listing, formatting and logging; lexical rules and the text of
a subshell's output; a `$` without braces, the variable `_` and patterns that are no
regular expression; TLS and the authorization and threaded modes of the server, which
are stubs; the copy of the shell under `lab3-test`; the scripts and examples. They are
text processing, pure I/O or no code.
