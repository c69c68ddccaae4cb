# TLA+ models of mpk_mix

mpk_mix is a C++20 utility library: small classes without a main loop, used by
programs that bring the threads, the signals and the order of calls. What can
go wrong in it is therefore rarely in one function. It is in sequences of legal
calls, in what happens between two system calls, in moves and unwinding, and at
the wrap or the limit of a container. These modules state what each class
promises in such circumstances, check it with TLC on small instances and prove
the most important facts with TLAPS for all sizes.

Paths below are relative to the repository (`include/mpk/mix/` is left out for
headers).

## Inventory

| Component | State | Operations | Who it interacts with | Hard part | What makes it correct |
|---|---|---|---|---|---|
| Descriptors: `src/wrap_c/socket.cpp`, `fd.cpp`, `io.cpp` | `fd_` per handle | construct, move, attach, detach, dup, accept, close, destroy, lend (`AttachedSocket`) | kernel descriptor table, rest of the program, other threads | numbers are reused at once; `accept` throws half-way; 0 means empty | one owner per number, every held number open, none lost |
| Ring buffer: `util/ring_buffer.hpp` | `data_`, `head_`, `size_`; iterator `index_`, `count_` | push, pop, clear, element access, segments; random-access iterator | its user's elements | wrap, full = empty index, unsigned arithmetic | a bounded queue that drops its oldest element |
| Intrusive list: `util/linked_list.hpp` | `prev_`, `next_` in each node | link, unlink, move, destroy; iterate | node owners, loops that run while nodes change | moves redirect neighbours; loops over changing lists | pointers mirror each other; loops miss nothing and end |
| Signal handler: `src/util/signal_handler.cpp` | `the_instance_`, members, dispositions | construct, destroy, handle | kernel signals, other threads, logger | a signal between any two steps; racing constructors; throw after the claim | the handler finds a whole object, a first signal stops, a second kills |
| Command line: `src/util/command_line_args.cpp` | index, name sets, pending consumer, error | run, chained run, help, validate | destinations of the caller, next parser | errors overwrite each other; who takes which word | what is assigned and reported is what the line says |
| Read and write loops: `socket.cpp`, `io.cpp` | bytes done | `read_all`, `write_all`, `setblocking` | peer, kernel buffers | partial transfers, EINTR, both peers writing | all bytes once and in order, or an exception |
| Datagrams: `socket.cpp`, `io.cpp` | kernel queue | `bind`, `addr`, `sendto`, `recvfrom`, `read_size` | network, other sockets | byte order at each call; size asked before the read; a throw after the read | answers go back to the sender, a sized buffer takes all |
| Checked calls: `src/wrap_c/check_c_call.cpp` | `errno` | three predicates, three actions | logger and formatter, which change `errno` | which convention a call has | a failure is told, as the failure it was |
| Host addresses: `src/wrap_c/host_addr.cpp` | two caches of one address | convert | threads sharing an object | lazy writes in const functions | both forms always agree |
| Byte buffer: `types/byte_buf.hpp` | `buf_`, `begin_`, `end_` | load, prepend, append, discard, shrink | views it hands out | headroom, self-append, moved-from state | content is what was put in; views stay inside |
| Index sets, flags: `util/index_set.hpp`, `enum_flags.hpp` | bits | insert, erase, iterate | | shifts by the full width, iterators that hold a copy | a set of indices |
| Groups, numbers: `strong/grouped.hpp`, `util/binomial.hpp`, `util/pow2.hpp` | values and offsets | add, close a group; pure functions | | width of offsets, overflow on the way | groups as they were closed; the mathematical result |
| Subscribers, resources, scratch dirs: `util/subscribers.hpp`, `resource_list.hpp`, `scratch_dir.*` | lists of owners | add, remove, call, clear | callbacks, file system | re-entrance, release order, retries | each resource released once, last first |
| Run-time types: `src/value/type.cpp` | static set of interned types | `of`, `intern` | all values | no lock; equal descriptions of different types | equal types, equal pointer, right accessors |
| Values and paths: `src/value/*` | type and `std::any` | get, set, resize, insert, remove along a path | registry, JSON and YAML | paths into temporaries, ignored paths | a tree: `set` then `get` |
| JSON, YAML, simple values: `src/serial/*` | path of the position | parse, print | external libraries | path in error messages, number limits | what was printed parses back |
| Crash handlers: `src/util/install_crash_handlers.cpp`, `stacktrace.cpp` | one flag, a slot per thread | install, throw, terminate, handle | kernel, C++ runtime | two threads crash at once; a stale stack | one trace, of the crash; the process ends |
| Logging, strong types, `func_ref`, meta, macros | next to none | | | compile time | |

`PROJECT.json` lists every component with its status, and under `hazards` the
places where this code is hard to test, with the properties that watch them.

## Modules

| Module | Models |
|---|---|
| `FdOwnership` | handles, descriptor table and library calls of several threads |
| `Datagrams` | bind, send, receive, sizes and ports, over queues that may lose |
| `HostAddress` | `HostAddr` with its two caches, `SockAddrLite` |
| `SlidingWindow` | abstract: a bounded queue that drops its oldest element |
| `RingBuffer`, `RingIterator` | array, head and size; the iterator with `size_t` arithmetic |
| `ByteString` | abstract: a string of bytes with headroom |
| `ByteBuffer` | `ByteBuf`: a vector that only grows and two offsets; implements `ByteString` |
| `FixedArrays` | `CappedVec` against a sequence, `FixedLengthString` against its text |
| `IndexBits` | `IndexSet` and `EnumFlags`, and loops whose body changes the set |
| `Groups`, `RangeWalk`, `Numbers` | `Grouped`; `IndexRange` over a strong index; `binomial`, `floor2`, `ceil2` |
| `ResourceList`, `ScratchDirs` | release in reverse order; directories with random names |
| `ItemLists` | abstract: lists as sequences, an item in at most one |
| `LinkedList`, `ListWalk` | nodes with `prev_` and `next_`; traversal, implements `ItemLists`; a loop over a list that changes |
| `SignalHandler` | constructor, destructor and handler as interruptible call frames |
| `CheckedCalls` | a system call, the sample of `errno`, predicate and action |
| `Transfer` | `read_all`, `write_all` and `setblocking` at both ends of a stream |
| `CrashHandlers` | throws, `std::terminate`, fatal signals and the guard between them |
| `ArgParser`, `ArgReading` | the parser's loop, one word per step; the declarative meaning of a line |
| `CxxTypes` | the C++ types that Values and documents have, and their data |
| `TypeRegistry` | descriptions of types as bytes, interned, and what is read back from them |
| `ValueAccess`, `ValueTree` | what a path leads to and does; a `Value` in use |
| `DocReader`, `DocTarget` | parsed documents; the JSON and YAML parsers and writers; an object read into |
| `ValueDocs` | the YAML parser for types known at run time only |
| `SimpleTexts` | texts of paths, durations and points in time |
| `FdOwnershipProofs`, `SocketProofs`, `RingBufferProofs`, `LinkedListProofs`, `ContainerProofs`, `SetProofs`, `ProcessProofs`, `ArgProofs` | proofs |
| `MCSockets`, `MCContainers`, `MCProcess`, `MCSignalHandler`, `MCArgParser`, `MCValues` | instances for TLC |

Components that do not interact share a run: a variable `subject`, chosen in
the initial state, says which of them moves, and the others stay in one initial
state. This is the disjoint union of their state spaces and not a product.
Components that do interact are composed by steps of one state: the iterator
moves over a buffer that is pushed and popped, `ListWalk` over the lists of
`LinkedList`, the readers fill what the writers wrote.

### FdOwnership

`open` is the kernel's table and `outside` the part of it the program owns
itself; `fd[h]` is the member `fd_`; `live` and `borrowed` say which handles
are constructed and which of them are `AttachedSocket`. A call that closes
takes two steps, `CloseSyscall` (the kernel frees the number) and `FinishCall`
(`fd_ = 0` and what follows: return, end of the destructor, the move or attach
that needed the close). Between them any other thread may be handed the number.
`Accept` is followed by `AcceptReturns` or, if the peer address cannot be
decoded, `AcceptUnwinds`, which runs the local handle's destructor. The kernel
hands out the lowest free number, as POSIX says.

The caller's side of the contract is in the guards: no two threads use one
handle at once; a number passed to `attach` or to a constructor is one the
caller owns; a descriptor that is lent is not closed or moved while it is. In
particular `attach` of the number a socket already holds is outside the model:
`socket.cpp:78` means to assert against it, but stands after `close()` has
zeroed `fd_`.

`Ownership` (every held number is open, has one owner, and is open while it is
lent) and `NoLeak` are the promise of the RAII classes. Two threads, three
handles and descriptors 0..3 give every pair of calls in every interleaving,
with a third handle as bystander and the table full.

### Datagrams, HostAddress

`bound[s]` is the `sockaddr_in` the kernel has, with its port in network order:
`Sockaddr` and `Decode` are the conversions that `bind`, `sendto`, `addr` and
`recvfrom` each make, and `Half` the number of values of a byte, so that
`Ports` can hold a port whose bytes differ and one that is too large for 16
bits. A socket that asks for port 0 is given one of `Ephemeral` by the kernel,
and `addr()` is the only way to learn which. `RecvFrom` takes the datagram and
then decodes the sender; for the sockets of a `socketpair` that throws and the
datagram is gone, as in the code. `ReadSize` may be called at any time. On an
empty queue it answers 0, as `FIONREAD` does, and a datagram that arrives
before a read of that size is cut to nothing: 0 does not tell "none yet" from
"an empty one".

`DatagramsAgree` says that `addr()` is the address that was bound, with a port
that is never 0 and that is the one asked for if one was; that whoever is told
that address reaches the socket; that an answer reaches the sender; and that a
buffer of `read_size()` bytes takes the whole datagram although more may have
arrived, for every size but 0.

`addrStr` and `addrNum` are the two members of `HostAddr`, filled when they are
asked for. `AnswersAsMade` says that what an object answers does not depend on
what it was asked before, or on the way it was copied. 0 means "not known", so
the address 0.0.0.0 has no text once it has gone through `SockAddrLite`, and
`get_ipv4_addr_of` takes four groups of digits as they are: "999.1.1.1" is
accepted and throws when its number is asked for. Two threads that ask one
const object race on the caches; that is left to the caller, and not modelled.

### RingBuffer, RingIterator

`data`, `head` and `size` are the members; `PushBack` stands for both
`push_back` overloads and `emplace_back` (all end in `push_impl`). `NoGhosts`
says that popped values are released, and `ImplementsWindow` that every call is
the queue operation of its name (that a step is some operation would not do: a
push that overwrote some element would still be a step of the queue).
`AccessAgrees` ties the ways to an element together: the two spans, the
iterator at its position, its subscripts and its distances. The iterator is
`[index, count]`; any mixture of `++`, `--`, `+=`, `-=` between `begin()` and
`end()` is taken. Capacity 5 wraps in every alignment and does not divide the
word, which is 2^8 in the runs: 2^8 and 2^64 leave the same remainder modulo 3
and 5, so the arithmetic errors of 64 bits show at 8.

### ByteBuffer, FixedArrays

`store`, `first` and `last` are `buf_`, `begin_` and `end_`. Bytes outside the
offsets stay as they were: `View` is all that a caller sees. A moved-from
buffer has lost its vector and kept its offsets, which is modelled (`moved`);
until it is loaded or assigned nothing else is called on it. An `append` of a
view of the buffer itself is not modelled: the vector may be reallocated under
it. `BytesAgree` compares each call with the one of `ByteString` and requires
the offsets to stay where there are bytes.

`CappedVec` is `slots` and `count`; `VectorAgrees` compares calls with those of
a sequence and says that slots beyond the count hold `T{}`. A
`FixedLengthString` is a length and an array whose tail is whatever memory held
(no terminating zero is written, though the header says "null-terminated"):
`TextsCompareAlone` says that nothing of it counts.

### IndexBits, RangeWalk, Groups, Numbers

The iterators of `IndexSet` and `EnumFlags` hold a copy of the set.
`LoopMeetsElements` and `LoopPassesFlags` state what a loop whose body inserts,
erases, inverts or clears then meets: the elements as they were at its
beginning, in order, and from `find()` or `insert()` the flag asked for and the
later ones. The first also says that no operation sets a bit beyond `Count`, on
which `size()`, `empty()` and `==` rely. `Count` may be as large as `Width`, as
it is by default. `all()` shifts a 1 by `Count`: a narrow storage is shifted in
an `int`, of `IntBits`, but one that is as wide as its `Count` and no narrower
than an `int` is shifted by all its bits, which is undefined. `Lowest` is then
any value of the storage. Both properties hold all the same, since there are no
stray bits at that width; what is lost is what `~` and `all()` are. `Full` is
the instance at that width.

`EnumFlags` goes through `to_ullong()`, which throws when a flag is set for
which it has no bit (`LongBits`, 64 in the code). `size()`, `*`, `++` and the
iterator of `find` and `insert` are `noexcept`, so that is the end of the
program (`ended`), and `LoopPassesFlags` says that nothing else is.

`LoopTakesRange` is about a range up to the largest index of its type, where
the arithmetic of `Strong` is cast back to its width, and `GroupsAsClosed`
about offsets of 32 bits; values after the last `next_group()` belong to no
group. `NumbersAreRight` compares `binomial`, `floor2` and `ceil2` with their
definitions at a width at which most sums overflow.

### ResourceList, ScratchDirs

`clear()` takes one step per entry, so that what a resource uses can be seen to
be there at each of them: `uses` holds what was in the list when it was made.
`ReleasedInOrder` assumes `AssignOverHeld = FALSE`: the defaulted move
assignment over a list that holds resources releases them front to back.

Constructors of several `ScratchDir` objects, and others in the system, come
upon the same names between any two of each other's steps. The file system may
refuse to remove a directory: the destructor catches the exception and prints
it (`reported`), and the directory stays. `OwnDirectoriesGo` says that an
object removes a directory that it made and nobody else will, and that no
directory stays but those that were given up by `detach()` and those whose
removal was tried and failed with a message. It assumes `MoveOverHeld = FALSE`:
the defaulted move assignment over an object that has a directory forgets it.
With TRUE the property does not hold, against "removed on destruction"
(`util/scratch_dir.hpp:2`).

### LinkedList, ListWalk

A list is a ring through its `root_`, a node in no list a ring of its own.
`MoveUnlinked` says whether nodes may be moved while they are alone. They may
in the code, and `linked_list_move` shows the result: the constructor copies
pointers to the old object, and the mirror is broken. Everything else is
checked and proved with `MoveUnlinked = FALSE`, which is therefore the
precondition of the results.

`ImplementsLists` compares every call with the one of sequences, where the
order of uninvolved items must not change. `ListWalk` adds a loop whose body
links, unlinks, moves and destroys other nodes: `LoopFindsAll` says that the
iterator stays in the list and that no item is missed that stayed in its place.
The body must not touch the current item: an unlinked node points at itself,
and the loop would stay on it for ever. That is an assumption on the user, and
the source does not state it. `WalkEnds` is conditional on the body linking and
moving only finitely often. Three items are one seen, one current, one to come;
the second list is where items go.

### SignalHandler

Each thread has a stack of frames: constructors and destructors at the bottom,
handlers that interrupted them above. `Claim` is the compare-exchange, `Fill`
the member assignments that may throw, `Install` one `std::signal` call per
step; `SetDefault` is one disposition put back by the destructor or by the
handler. `Deliver` pushes a handler frame, or kills if the disposition is
default. The handler logs (`LogSignal`), asks the stop source to stop if the
object was made with one (`RequestStop`; the objects that are, are the scene's
`sources`), and puts the dispositions back. Logging allocates and writes to a
sink with a lock: if the thread holds such a lock where it is interrupted
(`held`; `MayHold` says where it may), the handler waits for ever. What the
callbacks of a stop source do is the program's. A handler that would read an
object that is not there is the step `Undefined`: the object may be used or
anything may happen, and the model goes on without that handler.

A scene says what surrounds the handlers. In the first, one thread is
interrupted by up to three signals at any step: `HandlerFindsObject` holds
because installation comes last and restoration first. In the second, two
threads both build, with constructors that may throw, and both receive a
signal; in the third one thread builds and another receives two.
`InstanceIsArmed` (one object at most, armed until it is signalled, nothing
installed after its end, the next signal kills) is claimed for all scenes as
far as it applies, `HandlerFindsObject` for the first only, since a handler on
another thread than the destructor can find the object gone. `SignalStops` says
that a signal that found the handler is logged, and stops an object that has a
stop source, unless the handler is `Stuck` on a lock of what it interrupted.

### CheckedCalls, Transfer, CrashHandlers

`CheckedCalls` has the places at which `wrap_c` checks a call, each with the
values the call may return, those of them that mean failure, whether a failure
sets `errno`, and the message the place passes along, if any (`Sites`): opening
a file names its path, and `inet_aton`, which sets no `errno`, has a text of
its own. Code that runs after `errno` is sampled may change it.
`FailuresAreTold` says that the macro fits the convention of the call, and that
what is told is the place's message or else the error of the call, never an
older one. It assumes that the program's signal handlers put `errno` back
(`KeepErrno`).

In `Transfer` two ends follow a script of calls (`Dialogues`) over a stream of
`Room` bytes per direction. The kernel takes and gives any part of a buffer,
interrupts, has no data yet, or has lost the peer; each error is thrown, and an
end that throws closes. The caller is not told how much of a buffer went
through. `StreamIsTrue` says that bytes arrive in order, none twice and none
skipped, and that "reached end of file" is said of streams that ended there.
`StreamsEnd`: an end that hangs up frees the other, and two ends whose calls
mirror each other finish. Two ends that both write more than the room wait for
each other, which the dialogues contain and no property excludes. `SIGPIPE` is
assumed to be ignored. A write of bytes to a stream never returns 0, so the
branch that reports it (`socket.cpp:162`, `io.cpp:112`) is not in the model.
`setblocking` reads the flags and writes them in two calls; only one thread per
descriptor is modelled.

In `CrashHandlers` every throw stores its stack in the slot of its thread;
`std::terminate` shows the slot and aborts; a fatal signal prints if it is the
first to take the flag, puts the default back and raises itself again.
`TracesAreTrue` says that one trace is printed at most, that a process that
crashes once says where, and that the stack shown is a throw of that thread,
and of the very exception if it was not caught. After a rethrow, or when a
thread terminates for another reason, it may be the stack of an earlier throw.
Formatting a stack allocates and asks the loader for symbols, and
`terminate_handler` writes to `stderr`: `holds` are the threads that crashed
inside of these, with the lock that the formatting waits for.

`CrashEnds`: a crash ends the process, whatever crashes meanwhile, unless the
thread that prints has itself crashed with such a lock; then it waits, and the
next fatal signal of any thread ends the process, since it finds the flag taken
and prints nothing. An `abort()` that the program calls itself, outside of
`std::terminate`, is not modelled.

### ArgParser, ArgReading

Words are the classes the loop tells apart, and what is assigned is the
position of the word it came from, which is all that is needed to say that no
word is used twice, skipped or given to the wrong argument. `ReadValue`,
`ReadPositional`, `EndOptions`, `ReadLong` and `ReadShort` are the branches of
the loop, `ConsumeThrows` a value that does not parse, `Finish` the checks
after the loop in their order, `RunNext` the caller's run of the next parser on
the same index.

`ArgReading` says the same of the whole line: a reading assigns each word a
role (value, positional, `--`, option), and the conditions admit one reading
only. `LineAsRead` is checked at every word, with errors and without;
`ErrorsAreTrue` says that an error is reported exactly for a wrong line and
that the reported one is real, although later errors overwrite earlier ones;
`LeavesTheRest` says where a parser with others behind it stops. The parsers
are a plain command, a command that ends at its positional word and one that
declares none, with mandatory, optional, parsed and flag arguments. Four words
are an option with its value twice, or a group of letters, a `--` and two more.
The model follows the code in letting the later of two equal names win, but no
document says what should happen; `ErrorsAreTrue` needs that the long names of
a parser's options are distinct (`NamesAssumption`), because a mandatory option
that has lost its name is never missed. The rest holds without it.

### CxxTypes, TypeRegistry

A C++ type is a term. `Storage` lays its description out as the constructor of
`Type` does: size, aggregate, what the aggregate needs, padding, pointers.
`Intern` finds equal descriptions, and only a new one gets accessors; `Of` asks
for the components first. The views read pointers back byte by byte.
`TypesDescribed` says that each answer prints as what was declared, that no
description is made twice and none stands for two declarations, and that the
accessors behind it are those of the type asked for. Strong types over the same
type are declared alike, so the second gets the `Type` of the first and its
accessors; the instance has one strong type per weak type, and that is a
precondition. `MaxSize` 64 makes one of the types fill its description to the
last byte; `Heap` 248 makes pointers cross a byte boundary. The set of types
has no lock, and two threads are not modelled.

### ValueAccess, ValueTree

`Component` is one step of a path: an index, a field, or below an enumeration
`index`, `value`, `name` (views that a `Defer` converts back when the access
ends) and `names`, `values` (temporaries). `Get` and `Change` follow a path
down and come back up. `ValueTree` has two Values that are assigned, resized,
copied, extracted, emptied and compared; a call that throws changes nothing.
`insert` and `remove` take a path and ignore it, and so does the model.
`ValuesSound`: the data always is of the type, on which unchecked casts rely,
and no `Defer` throws while an exception passes. `WrittenWhereAsked`: what was
written is read back there, what was resized has the length asked for and the
elements it had, and nothing beside it has changed. The enumeration has a
default that is an enumerator.

`FormattedValue` is the text itself: elements between braces and commas,
strings and names without quotes, a path with its slashes, "custom" for every
object of a custom type. `SameValuesAgree` has two halves. `==` holds exactly
for the same contents, where objects of a custom type without `==` are all
equal (`Visible`), and a path whose name views a text is not equal to one whose
name owns it, as the defaulted `==` of `ValuePathItem` has it. Values of one
type that print alike are equal if their texts are plain (`PrintsPlainly`): not
empty, no comma, bracket or brace in a string, no slash in a name, no name that
reads as a number or views its text. Without that they need not be: a vector of
the string "a,b" prints as one of "a" and "b" does. The sources of the run hold
such texts, so that the condition is tried from both sides.

### DocReader, DocTarget, ValueDocs

A document is a tree of nodes as nlohmann::json or yaml-cpp hand it over; the
`format` says which of the two answers. `ReadNode` reads it into an object in
place and returns what the object holds then, also after a failure, with the
path that the error names. `Written` is `to_json` and `to_yaml`. `DocTarget`
reads any of a set of documents into an object that already holds something,
and the last document written as well. What a document means is stated
separately (`Meaning`) as a relation without order, and without an object.

`DocumentsMean`: what was accepted is what the document means, what was written
is read back (but for an optional that holds what reads as none), and the
parser for Values makes the same of a YAML document. `FailuresAreLocal`: the
path in the error leads to the culprit, what comes before it has been read and
what comes behind it was not touched. An optional is new before it is read, a
variant is assigned when its value is whole, an entry that a map already has
stays. nlohmann's `get_to` casts numbers without a check, so 300 is 44 in an
eight-bit field in JSON and an error in YAML; the model casts too.

### SimpleTexts

`PathsSurviveText` and `TimesSurviveText` say exactly which paths, durations
and words of a point in time survive being printed and read: not a path with a
slash in a name, not a name that reads as an index, not a negative duration.
`Path` and `ValuePath` print and read alike, but the `==` of the first compares
what names say (`PathsEqual`) and that of the second also whether they are a
string or a view of one (`ValuePathsEqual`). What is read owns its names, so a
`ValuePath` with a name that is a view is never equal to what is read from its
text. The number of a duration is read into a double, and the model rounds as
doubles do (`Double`): exact up to `Exact`, which stands for 2^53, then every
other integer, every fourth. So a longer duration than `Exact` nanoseconds is
written exactly and read back rounded, unless it is whole hours or days, which
are multiplied as integers after their fraction was cut off. A number out of
the range of the cast gives any duration (`DurationsOf`).

## Runs

| Run | Question | Result |
|---|---|---|
| `sockets` | does ownership survive reuse, moves, loans and exceptions? do datagrams and addresses say whose they are? | `Ownership`, `NoLeak`, `DatagramsAgree`, `AnswersAsMade` hold |
| `fd_stdin_closed` | is an accepted number ever 0? | yes (`socket.cpp:217`) |
| `containers` | is each container what its plain counterpart is, call by call? | `NoGhosts`, `AccessAgrees`, `ImplementsWindow`, `BytesAgree`, `VectorAgrees`, `TextsCompareAlone`, `LoopMeetsElements`, `LoopPassesFlags`, `LoopTakesRange`, `GroupsAsClosed`, `NumbersAreRight`, `ReleasedInOrder`, `OwnDirectoriesGo` hold |
| `ring_iterator_order` | does `<` agree with `-`? | no |
| `ring_iterator_back` | does `+=` take negative distances? | no |
| `list_walk` | pointers, sequences and loops over changing lists | `DoublyLinked`, `ImplementsLists`, `LoopFindsAll`, `WalkEnds` hold |
| `linked_list_move` | may a lone node be moved? | no |
| `process` | signals anywhere, failing calls, streams that are cut, crashes during crashes | `HandlerFindsObject`, `InstanceIsArmed`, `SignalStops`, `FailuresAreTold`, `StreamIsTrue`, `StreamsEnd`, `TracesAreTrue`, `CrashEnds` hold |
| `signal_throw` | is a refused construction refused for a reason? | not after a throw |
| `signal_early` | does every second signal kill? | not if the first came too early |
| `arg_parser` | does the loop compute the meaning of the line? | `LineAsRead`, `ErrorsAreTrue`, `LeavesTheRest` hold |
| `values` | types, Values, documents and texts | `TypesDescribed`, `ValuesSound`, `SameValuesAgree`, `WrittenWhereAsked`, `DocumentsMean`, `FailuresAreLocal`, `PathsSurviveText`, `TimesSurviveText` hold |

The six that answer "no" or "yes, 0" are in `PROJECT.json` under `findings`,
each with the line that says otherwise.

Deadlock is checked in `containers`, `list_walk` and the two `ring_iterator`
runs. The systems of the others may stop (no signal left, a stream finished, a
line read, all words typed), or the run only looks for one state.

Bounds, and why they are enough:

* `MaxFd` 3, two threads, three handles: see `FdOwnership`; the theorems hold
  without them. `MaxQueued` 2 is a queue with a datagram behind the one that
  was sized; `MaxSent` 3 one more than fits. `Ports` are 0, one whose bytes
  differ, and one too large; `Ephemeral` has two, so that both sockets get one.
* `Cap` 5, `WordMod` 256: above. `MaxStore` 5 with chunks of one and two bytes:
  headroom that is too small, just enough, and more; the string grows on either
  side and is moved back. `Limit` 3: a resize to more, to fewer and to as many.
* `Width` 8 with `Count` 5 leaves three stray bits, and `Full` is 5 of 5, no
  narrower than its `int`. `LongBits` 3 with four flags: one is beyond.
  `OffsetMod` 5 with groups of any sizes reaches the last offset; `MaxGroups` 3
  has an empty group at either end. `IndexMod` 8 and `W` 3 are a word of three
  bits: every value, every range. `Capacity` 2 with `MaxForeign` 3: texts that
  fit, that fill, that are cut.
* `Attempts` 2 and three names: both meet, or one is left. Three resources and
  two lists: a release half-way, one list emptied and moved over.
* `deliveries` (in `Scenes`): one signal in each of constructor, handler and
  destructor; one while two threads race; two on a thread of their own. `Room`
  2 is less than most buffers. `MaxCrashes` 2: one crash in the middle of
  another; more would find the flag taken as the second does.
* `MaxWords` 4 for command lines and for times, one more than a time has.
  `MaxLen` 2: vectors shrink, grow and keep an element. `MaxRoute` 2, `MaxText`
  3, `MaxIndex` 10: two items, one with an index of two digits, in and out of
  range; the longer texts are those that paths print as. `MaxCount` 31 with
  units of 24, 12, 6, 2 and 1, and `Exact` 16: durations that a double rounds,
  and texts of up to `MaxHalves` 7 halves of a unit, among them fractions, ties
  and numbers that are out of range. `Gaps` lets a double be up to 2048 times
  as large as `Exact`; with 2^53 that is past any duration.

Fairness is weak and always of steps that the code takes by itself: a thread
that is in a signal handler goes on with it, where it does not wait for what it
has interrupted (`SignalStops`), an end of a stream makes its next call while
that does not block (`StreamsEnd`), a thread that has crashed goes on through
the handlers but for the steps that may wait for a lock of a crashed thread
(`CrashGoesOn`, for `CrashEnds`), the loop over a list goes on when its body
has returned (`WalkEnds`). Nothing is assumed of the kernel's choices, of the
sender of signals, or of other threads.

## Proofs

All with TLAPS, for every value of the constants that satisfies the named
assumptions.

* `FdOwnershipProofs` (assumes `~StdinMayClose`): `OwnershipKept`,
  `SingleOwner`, `NothingLeaks`. None is inductive alone. A thread that is
  about to close or store a number relies on nobody else having it, so `IInv`
  adds `CallInv`: each running call works on a handle that owns (`CallOK`) and
  no two running calls meet on a handle or a number (`Apart`). One lemma per
  action shows that `IInv` survives it.
* `RingBufferProofs`: `NothingLingers`, the refinement `Refinement` of
  `SlidingWindow` call by call, and `WaysAgree`, which says that segments,
  positions, subscripts and distances agree (assumes `~NegativeJumps`). The
  argument is arithmetic modulo the capacity (`Wrap`, `SlotsDistinct`,
  `SlotShift`); each operation's effect on the content is compared with that of
  the queue, and the two segments are shown to meet where the array wraps.
* `LinkedListProofs` (assumes `~MoveUnlinked`): `StaysDoublyLinked`, the
  refinement `ListsImplemented` of `ItemLists` call by call, and
  `LoopsFindAll`. The first invariant, `Mirror`, says that `next_` and `prev_`
  are inverse on live nodes; each operation is a cut (`UnlinkMirrors`), a
  take-over (`TakeMirrors`) or a put (`PutMirrors`). The second, `WalksExist`,
  says that a walk leads from every list head through distinct items back to
  it; `WalkIsTraversal` shows that there is one walk, and that it is what
  `Traversal` lists, although that counts steps up to the number of nodes. Then
  each cut, put and take-over is one of the walk (`CutWalk`, `PutWalk`,
  `TakeWalk`, `TakeRing`) or passes beside it. The loop's invariant, `OnPlace`,
  is that what stayed and was not seen comes at the iterator's place or later;
  no call disturbs it, because each keeps the order of what it does not name
  (`CallsKeepOrder`).
* `ContainerProofs`, five components without a bound on anything:
  `BufferIsString` (the refinement of `ByteString`; the invariant is that the
  offsets enclose bytes there are, and each call is compared position by
  position), `VectorIsSequence` (with `VecInv`: slots beyond the count hold
  `T{}`), `OnlyTextsCount` (`FixedInv`: the array begins with the text it was
  given, at its length), `LoopsTakeRanges` (`RangeInv`: the walked indices are
  those from the beginning to the position, and no sum has wrapped), `OwnGo`
  (assumes `~MoveOverHeld`; `ScratchInv`: besides the property, that a
  constructor which is still trying has no path).

* `SetProofs`, six components. `LoopMeets`: the iterator over a copy of an
  `IndexSet` has met exactly the elements below it (`BitsInv`), for any `Count`
  up to `Width`, whatever `all()` is where its shift is undefined (`LowestAre`:
  no bit beyond `Width` in any case). `LoopPasses`: the same of the flags,
  whose place in the enumeration is one (`FlagsInv`; the enumerators are
  distinct), and the program is ended only where a flag beyond `LongBits` is
  set. `GroupsStand`: with the offsets goes that the vector is the groups one
  after the other (`ValuesAre`). `FlattenSeq` is a recursive function, and what
  it does to one more group is shown from the least number for which it would
  not (`FlatExists`, `FlatAgrees`). `ReleasesInOrder` (assumes
  `~AssignOverHeld`): no resource is in two places and what it uses stands
  before it (`OnePlace`, `UsesStandBefore`), while `clear()` works its way down
  (`EmptiedBehind`). `NumbersRight`: `floor2` stops at the highest bit, because
  before it what is left has a higher one (`FloorIs`); the rows of `binomial`
  follow Pascal's rule, which is shown of the subsets themselves (`Pascal`),
  and a sum may be cut to the width before it is used (`SumWraps`).
  `TimesSurvive`: a whole number up to `Exact` is a double, and so is its
  double (`DoubleIs`), so a count that a unit divides is what is read
  (`WrittenIsRead`); the words are taken turn by turn (`PartsAre`).
  `PathsSurvive`: no character is special but the slash and the digits, and
  nothing has a longest length, so each recursion is shown to depend on its
  last step only (`ScanAppend`, `DigitsAppend`), which gives the inverse of
  each operator: the decimal text of an index is read as it (`DecimalReads`)
  and the digits of a number without needless zeros are its text
  (`DigitsReadBack`); slashes put together what they take apart, in one way
  (`SegmentsAre`, `JoinedSplits`). A path is then read back, and a text printed
  again, exactly when every item is (`PrintedIsRead`, `ReadIsPrinted`);
  `PathsSurvive` says so of the `==` of `Path` and of that of `ValuePath`,
  which differ in whose the names are.
* `SocketProofs`: `HostsAnswer`, with the invariant that the two members of a
  `HostAddr` can come from what it was made of (`Fits`); `DatagramsTrue`, with
  what a bound socket, a queue and a known size are (`DatagramsInv`), for a
  port that was asked for and for one of the kernel's choice, for queues empty
  or not, and the arithmetic of network order: `PortsSurvive` and
  `AddressesSurvive` are about division by any number of values that a byte
  has.
* `ProcessProofs`. `FindsObject` and `Armedness` hold for every scene of the
  constant, that is for any number of threads, objects and signals; as in the
  properties, what is said of handlers is about scenes of one thread. The
  invariant `SigInv` says for each call in progress what it has done to its
  object and to the dispositions (`BaseFits`, `InstallFits`), and for each
  handler what it has interrupted (`HandlersFit`). `FailuresTold` assumes
  `KeepErrno`, that each macro tests for what its call returns on failure
  (`MacrosFit`), and that a place whose call leaves no `errno` passes a message
  (`ErrnoOrMessage`). `StreamTrue`: what is in the pipe continues what was
  read, byte by byte (`Stream`), for any dialogue, any room and any cut.
  `TracesTrue`: what the guard of the handlers says of the thread that is in
  them (`CrashInv`).

* `ArgProofs`: `LinesAreRead`, `ErrorsTrue` (the only one that assumes
  `NamesAssumption`) and `RestIsLeft`, for lines and chains of any length and
  any declarations. There is one reading of a stretch of a line (`OneReading`,
  from the least word at which two would differ), so the reading of one more
  word is the old one continued (`ReadsOn`), and what an argument is given
  changes by what that word is for (`GivenOn`). The invariant `ArgInv` says of
  the loop's locals what the reading so far has made of them (`LocalsInv`: the
  option that waits, the end of options, the number of positional words, the
  names seen), of the error that an option word bears it out (`LoopErrors`), of
  the parsers behind that they are untouched (`NextInv`), and where the loop
  stops (`StopInv`). Every branch does what any word of its role does (`Obey`),
  and that keeps the invariant (`ObeyKeeps`). At the end each check of the code
  is shown to find just the problem it is named for (`ChecksFind`): that the
  n-th positional word is for the n-th positional argument (`NthIs`,
  `NthOfRank`) makes "fewer words than arguments" the same as "a mandatory one
  has its default".

Only model-checked: everything about types, Values and documents
(`TypesDescribed`, `ValuesSound`, `SameValuesAgree`, `WrittenWhereAsked`,
`DocumentsMean`, `FailuresAreLocal`), whose operators follow trees and are
declared RECURSIVE, out of the prover's reach; and liveness (`WalkEnds`,
`SignalStops`, `StreamsEnd`, `CrashEnds`), which is as well.

## Not modelled

External and taken for what the code uses of it: the kernel (lowest free
descriptor, partial transfers, queues), `inet_aton`, `inet_ntoa` and
`getaddrinfo`, nlohmann::json, yaml-cpp (0.8 or later, in which an empty node
reads as the text "null"), `std::from_chars`, the C++ runtime's way from a
throw to `std::terminate`.

Left out:

* texts of messages, regular expressions; the calendar and time zones; digits
  of floating-point numbers; the layout of a stack trace;
* `shutdown`, `select`, `listen`, socket options, `mmap`: one system call each;
* `Subscribers`: a vector and a loop over it. A callback that adds or removes
  subscribers invalidates the loop, and arguments that are rvalues are
  forwarded to every callback (`util/subscribers.hpp:45`), so the second gets
  what the first has moved from. Nothing promises otherwise;
* `ValueRegistry`, a map by name; `Checkpoint`, which measures time; logging;
  `func_ref`, `Holder`, `Defer` as classes; hashes; everything that happens at
  compile time;
* declaration of arguments by regular expression, and the help text. The
  trigger of `--help` refers to the parser it was declared on, so a parser must
  not be moved after that;
* data races that the classes leave to their users: the caches of one
  `HostAddr`, the set of interned types, one handle used by two threads,
  `setblocking` between reading and writing the flags;
* moved-from objects that keep a size (`RingBuffer`) may only be destroyed or
  assigned, though their `size()` says otherwise; `rbegin()` of `StrongVector`
  and similar one-line forwarders;
* memory orders weaker than sequential consistency: the modelled code uses the
  default order everywhere.

## Plan

Done: everything above. Left, in the order of what it would add:

1. `TypeRegistry` with two threads, to show what a lock has to cover, and
   `Subscribers` with callbacks that change the list, once the code says what
   either should do.
2. `RingBuffer` and `ByteBuf` with elements whose construction throws.
3. Declaration of command-line arguments, and help.
