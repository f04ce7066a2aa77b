# Verification of Unix2016: cifar-server and guess-server

TLA+ models of the two servers in this repository, the TLC runs that check them
on small instances, and machine-checked proofs (TLAPS) of what holds of them for
every size. `src/cifar-server` is an HTTP server for a set of pictures;
`src/hw5` is a number-guessing server on a Unix socket.

- [1. The system](#1-the-system)
- [2. Modules and how they correspond to the code](#2-modules-and-how-they-correspond-to-the-code)
- [3. Runs: what is checked, bounds and why they are enough](#3-runs)
- [4. Fairness](#4-fairness)
- [5. What is proved](#5-what-is-proved)
- [6. Disagreements between the code and what it says](#6-disagreements)
- [7. Not modelled](#7-not-modelled)
- [8. Plan](#8-plan)

## 1. The system

### cifar-server

| Component | State | Operations | Hard about it |
|---|---|---|---|
| Thread pool (`server.c` 178-322, the configured build) | per worker: state, descriptor argument, mutex, condition variable; the acceptor's `newfd` and index | worker: reset, publish, wait, serve, close; acceptor: accept, search, hand over | hand-over of one integer between two threads with a mutex, a condition variable and an unprotected state |
| Thread per connection (`server.c` 103-177) | a ring of NUM_THREADS slots with a thread pointer and a descriptor each | accept, fill a slot, create, join | threads read their slot through a pointer while the main thread goes on; failing `pthread_create` |
| Process per connection (`server.c` 324-360) | one descriptor table per process | accept, fork, close, exit | a connection ends when the last copy is closed; failing `fork` |
| Client handler (`handler.c`) | the keep-alive flag | receive, route, respond, close | which of caller and callee closes; what happens after a failed receive or send |
| Request receiver and parser (`http_request.c`) | line buffer, line number, Complete, Invalid, method, path, keep-alive | poll, recv, split into lines, parse | requests cut anywhere, several in a buffer, timeouts, errors |
| Response writer (`http_response.c`, `io.c`) | headers, body or file, sent size | send all, sendfile | short sends, a file that changes, a result nobody looks at |
| String builder (`stringbuilder.c`) | data, length, capacity | append, sprintf, clear, chop | growth at the boundary, terminator |
| Resources (`resources.c`) | the file of pictures, read or mapped | index page, bitmap, static file, listing, decode a path, guess a type | index bounds, paths, files that change, what failures leave allocated |
| Bitmap writer (`bmp.c`), string utilities (`stringutils.c`) | none | pixels and headers; parameters and numbers | offsets, planes and signs; bytes that look like the ones wanted |
| Listener and startup (`main.c`, `server.c` 33-101, 363-394, `resources.c` 158-189) | port, mapping, signal dispositions, the listening socket | options, preload, ignore SIGCHLD and SIGPIPE, resolve, bind, listen | every step can fail, and the loop over the addresses goes on after a failure |

A server accepts a connection and calls `ServeClient` for it in a thread or a
process; `ServeClient` alternates `THttpRequest_Receive` and
`THttpResponse_Send` on that descriptor until the client leaves, makes an error,
lets ten seconds pass or does not ask for keep-alive. The threads share the
descriptor table of the process, and that is where most of what can go wrong
meets: a descriptor is a small number that is used again as soon as somebody has
closed it.

### guess-server (hw5)

| Component | State | Operations | Hard about it |
|---|---|---|---|
| Server process (`server.c` 22-41, 80-167) | children, pending SIGCHLD, the listening socket | accept, get a number, fork, close, reap | signals coalesce and arrive between any two steps |
| Game (`server.c` 43-78, `io.c`) | attempt counter, half-received guess | RecvAll, answer, SendAll | a byte stream cut anywhere; the attempt limit |
| Number source (`numbers.c`) | Data, Count, Pos | read a file, next number | wrap-around; parent and children have copies |

### What makes each component correct

- Pool: a mutex always has a holder that will unlock it; a descriptor goes to a
  worker that has nothing to serve, is served by it, and only that worker closes
  it; the search for a worker ends; a woken worker comes back. The code does not
  keep all of this (section 6); what is shown is when it goes wrong, and that
  nothing else makes it go wrong.
- Thread per connection: a thread serves the descriptor it was created for;
  every open descriptor has somebody who will close it.
- Process per connection: no process keeps a connection that is not its own;
  who is queued is accepted while failed forks have left a descriptor to accept with,
  and served to the end or left open by a failed fork.
- Connection: what is handled is exactly one request as the client wrote it,
  however it arrived; what is refused is refused for a reason; requests and
  responses stay in step; the handler returns.
- Startup: a server that serves is at the port asked for, with its pictures, both signals
  ignored and one socket; whatever fails, nothing is left open.
- Request target: the page and the picture are the ones the links say, the file is the
  one the client meant, and decoding its name stays inside the strings.
- Response: a peer that goes by Content-Length reads the page that was due; a page is
  the page however often its builder had to grow; the index leads to every picture and
  nowhere else; a bitmap looks like the picture, as far as the file of pictures goes.
- Guessing server: numbers in turn; no dead child is forgotten.
- Game: answers never mislead; a perfect client wins.

`PROJECT.json` lists every hazard with its line, and the properties aimed at it.

## 2. Modules and how they correspond to the code

| Module | Models |
|---|---|
| `FdTable` | the kernel's descriptor table: lowest free descriptor, close (external) |
| `ThreadPool` | `server_thread_main` and `RunServerImpl` of the pool build, one action per shared access, mutex or condition call, or system call |
| `ThreadPerConnection` | the ring of slots and its threads |
| `ForkServer` | parent, children and their descriptor tables |
| `Startup` | `main`, `preload_pictures` and `RunServer` up to `listen`, one action per option and system call |
| `CifarServer` | the whole process of the build that forks (EXTENDS Startup and ForkServer) |
| `ConnectionService` | the abstract promise: away, queued, accepted, served (or stranded), away |
| `HttpConnection` | `ServeClient`, `THttpRequest_Receive` and the parser on one connection |
| `StringBuilder` | `stringbuilder.c` as operators on the value of a builder |
| `Powers` | powers as products, for `StringUtils` and `GuessGame` |
| `StringUtils` | `stringutils.c`, and what `sscanf` makes of bytes, as operators |
| `Pictures` | the file of pictures, the bitmaps of `bmp.c` and a viewer, as operators |
| `RequestHandler` | `Handle` from the bytes of a target to the answer: split, routes, `GetIntParam`, `percent_url_decode`, bitmap (EXTENDS StringUtils and Pictures) |
| `Resources` | the pages of `resources.c` and the response they fill, as operators (EXTENDS StringBuilder and Pictures) |
| `HttpResponse` | `Handle`, `SendStaticFile`, `THttpResponse_Send`, `SendAll` and sendfile on one connection, with a peer and files that change (EXTENDS Resources) |
| `NumberSource` | `numbers.c` as operators |
| `GuessServer` | the guessing server's processes and signals (EXTENDS NumberSource) |
| `GuessGame` | `ServeSingleClient`, `RecvAll`, `SendAll` with a client |
| `ThreadPoolProofs`, `RingProofs` | theorems about ThreadPool and ThreadPerConnection |
| `ForkServerProofs` | theorems about ForkServer and CifarServer: invariants, and the refinement of ConnectionService |
| `HttpConnectionProofs` | theorems about HttpConnection: parser and responses |
| `RequestHandlerProofs` | theorems about RequestHandler: decoder, parameter, links, bitmaps |
| `HttpResponseProofs` | theorems about HttpResponse, Resources and StringBuilder: types, pages, the peer |
| `GuessServerProofs` | theorems about GuessServer and GuessGame |
| `FoldProofs` | induction over numbers, and what FoldLeft computes, for any operator; the proof modules instantiate it |
| `MC*` | symmetry and small inputs for TLC |

**ThreadPool.** `wpc[t]` is the line a worker is at: `prepare` 213, `reset` 214,
`publish` 215, `unlock` 216, `wait` and `blocked` 220, `woken` (signalled, wants
the mutex back) 220, `release` 221, `awake` 223, `run` 230, `serving` inside
`ServeClient`, `close` 231, `finish` 234. `apc` is where the acceptor is: `create`
263-286, `accept` 292, `lock` 304, `unlock_found`/`unlock_next` 310, `lock_task`
317, `write` 318, `signal` 319, `unlock_task` 320. Locking and the read of the
state that follows it (304-305) are one step: nobody but the lock decides when
the read happens, and a state written in between could as well have been written
before. The worker waits without holding the mutex, which POSIX leaves undefined;
the model follows glibc's default mutex, which does not know its owner: the unlock
inside the wait frees the mutex whoever has locked it. `Restless` are the workers
that `pthread_cond_wait` may wake without a signal, as often as it likes. `subject`
remembers which connection a worker was called for, and `disturbed` collects the workers
for which the hand-over may go wrong: those that are Restless, and those the acceptor
has found AWAITING_TASK (`LookAtThread`) while they were not inside the wait. It is a
history variable: no guard looks at it.

**ThreadPerConnection.** The join at line 166 is given the `pthread_t *` of the slot
instead of the `pthread_t` in it. What that does is undefined; the module keeps
the outcomes that do not wait for the thread (it returns, and its result is only
printed) or never return (no fairness is assumed). Heap corruption is left out. A
thread that starts too late therefore reads the descriptor of another connection, or
-1; `PromptThreadReadsOwnDescriptor` says exactly when that cannot happen.
`age` counts the slots used since a thread was created; `abandoned` are the
descriptors `pthread_create` failed for and those whose thread, too late, has read
another one in its slot.

**ForkServer.** `fork` copies `fd_table` into `child_table[p]`; `leaked` are the
descriptors of failed forks. `Stage` maps a state to `ConnectionService`: a
connection is served while some process holds it.

**Startup and CifarServer.** `start_pc` is the system call that is next. A failure goes
to `exited`, which stands for EXIT_FAILURE, or, inside the loop of
`CreateSocketToListen`, on to the next address. `sockets` are the addresses that have an
open socket, which is more than the code keeps: it has one variable for all of them. A
number given to -p is cut to PORTS as `%hu` cuts it to sixteen bits. Before
`serving` no step of ForkServer happens, and afterwards none of Startup.

**RequestHandler.** Texts are sequences of byte codes, because what is asked of them is
about bytes. A number in a target is read and printed as folds over its digits (`NextDigit`).
`pc` is `split` (`SplitFullRequest`), `route`, `param` (one turn of the
outer loop of `GetIntParam` is a step; its inner loop is `StopsAt`), `decode` (one
turn of the loop of `percent_url_decode` is a step), `answered` or `crashed`. `answer` is the route
that was taken with its argument and, for a picture, the bitmap, for a file, the type.
`Beyond` is a byte behind the terminator of the encoded path; the decoder is right if it
never sees it. `IsCString` is how `realpath` reads the decoded path. A byte of
the file of pictures stands for its own address, so a bitmap says where each of
its colours comes from. `Pixel`, `Meant`, `Piece` and `Decimal` say what is expected, and
are written without a look at the loops of the code. `Load` copies a picture out of the
mapped file even when the file ends inside it (resources.c:230-236), or exactly before
it. What the copy finds there is zero up to the end of the last page of memory
(`EndOfPages`), and behind that either whatever is there (`Foreign`) or nothing, and the
process is killed. So `SendCifarBitmap` answers what was found, or crashes; and
`ViewerSeesThePicture` says that of the file everything is shown in its place, black behind
it, and something else only behind the pages. The other build reads, and refuses.

**HttpConnection.** The client's bytes are atoms (a word, CR, LF), so a cut can
fall inside a line or between CR and LF but not inside a word; words are opaque
apart from `GET` and the one header the parser knows. The parser's fields are
those of `THttpRequestParser` and `THttpRequest` together. A response is its code.
Handle chooses any code its routes can produce.

**StringBuilder and Resources.** A builder is a record of `Data`, `Length` and
`Capacity_`; `Data` is a function on the cells of the allocation, so that a write
beyond it is lost and a cell nobody wrote is `Junk`. A cell stands for a piece of text: a
link to a picture, a page number, a stretch of markup, a byte of a file; it is a pair of
a kind and a number. Whatever the code does in a loop - doubling the capacity, printing
the cells of a page - is a fold. What a page
looks like is left out; which texts it consists of, in which order, and how they
get into the builder is kept. `IndexText` and `ListingText` are the pages as a reader
expects them, written without a builder.

**HttpResponse.** `pc` is `receive` and `handle` in `ServeClient`; `stat` between the
realpath and the stat of `SendStaticFile`; `open_page` and `read` where the build without
sendfile reads the file; `build`, `headers`, `body`, `open`,
`sendfile`, `close` in `THttpResponse_Send`; `destroy` 112. A request is the route it
takes and the argument `sscanf` or the query string makes of it (RequestHandler); `Outside` are the
paths whose real path does not contain that of ./static. `send` takes any part of
what is left. The peer reads headers up to the blank line and then as many cells as
Content-Length says. The code ignores the result of `THttpResponse_Send`; after a
response that was cut short (`cut`) the peer is out of step and is not followed further.
`SendAllFails` may happen at any part of a response: send() fails when the peer has gone,
and also when the descriptor is no longer there, as after the double close of section 6.
`ImageCrashes` is the copy that runs over the last page of the mapped file. `build` is the
pair of options USING_MMAP_INSTEAD_READ and USING_SENDFILE. What the calls allocate and
free is left out.

**GuessServer.** `handler` is TRUE while the parent is in `SigchldHandler`, during
which its main loop stands still; `sigchld` is the one pending-bit of the signal.
Clients are counted; `turn` and `child_turn` say who plays with whom. When accept
or fork fails the server exits, and its children are init's.

**GuessGame.** A guess is `GUESS_BYTES` digits in base `BASE`, and `ntohl` is a fold over
them; a `recv` takes any number of them up to what is missing. `sent` and `answers` are the client's view.

Definitions marked "Mutant" are small plausible bugs: for every property of a
passing run one of them, put in the place of the definition it is named after,
makes TLC find the property violated.

## 3. Runs

CHECK_DEADLOCK is off everywhere, because every server may really come to rest:
with no client it stands in `accept` and `pthread_cond_wait`, a connection or a
game ends, and TLC's clients stop coming.

| Run | Question | Bounds |
|---|---|---|
| `pool` | types; no mutex without a holder; what goes wrong in a hand-over goes wrong for a disturbed worker only; the search ends; woken workers come back | 2 workers, one of them Restless, 2 connections, 2 descriptors |
| `pool_lost_task`, `pool_double_close`, `pool_wrong_fd` | violations, section 6 | 2 workers, none Restless, 2 connections, 2 descriptors |
| `ring` | a thread that starts before the ring comes around reads its own descriptor; no descriptor without an owner | ring of 3, 2 threads, 3 connections, 3 descriptors |
| `fork` | the whole server that forks: it serves only when it is ready, or ends without a socket; no process holds a stranger's connection; implements ConnectionService | 3 command lines (none, two ports of which one is out of range, one bad), 1 or 2 addresses, 4 builds, every system call may fail; 2 children, 3 connections, 2 descriptors (the table fills up), 2 failing forks (all of it may be lost) |
| `http` | parsing and keep-alive independent of cuts; ServeClient returns | 3 texts of up to 10 atoms, buffer of 4 atoms, 1 error |
| `http_no_method` | violation, section 6 | 1 text |
| `routes` | page, picture and file are the ones the target says; links lead where they say; bitmaps look like their pictures; decoding stays inside its strings | all queries of up to 5 bytes of `p=&1` and numbers of 4; all names of up to 4 bytes of `%`, digits, letters and `.`; the links of every page and picture; ints of 8 bits, numbers of 2 digits; 12 pictures of 4x4 in pages of 16 bytes; a file that is whole, one that ends inside a picture and one that ends exactly before one |
| `response` | bodies are the pages; the peer reads them; links of the index | 2 builds; 12 pictures, 4 to a page; a file of pictures that is whole, one that ends inside the sixth and one that ends exactly behind it; builders of capacity 2; files of 0 to 3 bytes, 3 requests, 1 change, 2 attempts |
| `guess_server` | numbers in turn; no dead child unnoticed; every dead child is reaped | 3 children, 4 clients, 4 number files |
| `guess_game` | answers never mislead; a halving client wins | 7 numbers, guesses of 2 digits, 3 attempts, 2 guesses ahead |

Why these are enough. The pool's workers interact only with the acceptor, and the
acceptor with one worker at a time; two workers and two connections give every
pair (busy and idle, signalled and reset, disturbed and not). A connection that has left
may come again, so two connections are enough for a descriptor to be overwritten while
another is served, and two descriptors for a number to be used again while its old owner
still has a close to do. In `pool` one worker wakes up whenever it likes, and the other only
when it is signalled; so the second shows what happens without any spurious wake-up, and
`pool_wrong_fd` has none at all. In `fork` as many forks fail as there are descriptors: then
every descriptor may be lost, accept() fails for ever (server.c:334) and whoever is queued
stays there. `ConnectionService` says so: the kernel owes an accept only while fewer
connections are stranded than there is Room for (`Exhausted`), and OPEN_MAX is that Room.
The proofs of section 5 remove the bounds for the safety part. A ring of
three slots is the smallest in which an index that starts over differs from one that
moves on. A buffer of four atoms is smaller than the usual request, so those are
cut, and larger than the shortest, so two can meet in one buffer. Builders of two cells
grow several times on every page. Three requests put every response after a
response of another route on the same connection, and one change of a file falls
between any two of its system calls. The targets of `routes` have two of everything
that is looked for: two parameters, two escapes, two extensions, each of them whole,
cut off and repeated; an int of eight bits holds every number of two digits and cuts
some of three, as thirty-two bits do with nine and ten. With two addresses a failure
is followed by a success, and by another failure. Three children
can die in one run of the handler, before it and after it. `guess_game` has exactly
the range of 2^3 - 1 numbers for which three attempts suffice, so one attempt less is
noticed.

Every bound is a constant: `Restless`, `MaxFailures`, `ThreadIds` and `Children`
(how many threads or processes may live at a time), `OPEN_MAX`, `MaxTexts`,
`MaxErrors`, `PORTS`, `MAX_INT_LEN`, `INT_BITS`, `MaxRequests`, `MaxChanges`, `MaxClients`, `MaxInFlight`. When no child is free `ForkServer` waits for one
instead of failing once more; failures are counted by MaxFailures.

## 4. Fairness

- Pool: strong fairness of each worker and of the acceptor. A thread that can
  run is scheduled; the acceptor polls the mutexes, so a worker finds its mutex
  free again and again but not for ever, and a mutex that is free again and again
  is got in the end. Nothing is assumed of clients, of wake-ups without a signal or of a
  connection being there to accept.
- `ServeClient` returns: an assumption in the server modules, and what
  `http` shows of `HttpConnection`, where it rests on poll giving up and on clients
  that send finitely much.
- ForkServer: weak fairness of the parent and of each child; none of failures
  (a fork may always succeed) nor of clients. That the server accepts as long as it has
  a descriptor left is what `ImplementsService` concludes from this. CifarServer adds weak fairness of the
  process before it serves; any of its system calls may fail or succeed.
- HttpConnection: weak fairness of the thread, the poll timeout included; poll
  and recv need not fail.
- GuessServer: weak fairness of the parent's loop and of signal delivery. A
  child may play for ever, because the game has no timeout, and the server need
  not exit.
- HttpResponse, RequestHandler, GuessGame and ThreadPerConnection: none, their properties
  are invariants.

## 5. What is proved

Every safety invariant of the runs that pass is stated by a theorem, checked by
TLAPS for every value of the constants the ASSUMEs allow.

### Assumptions

| Assumption | Says | Because |
|---|---|---|
| `FdAssumption`, `PoolAssumption`, `RingAssumption`, `ForkAssumption` | at least one descriptor, one worker or slot, one place in the listen queue | the constants of `server.c` and `config.h` |
| `StartupAssumption` | a default port in range; lists of addresses that are not empty | getaddrinfo returns at least one when it succeeds |
| `HttpAssumption` | `GET`, the header and its value are words; CR and LF are not; the receive buffer has room for a byte | the parser compares words with these three |
| `HandlerAssumption` | no target has a NUL in it; the name of the parameter has no ampersand; the rows of a bitmap need no padding; the file of pictures is not empty | a request line is a C string; "page"; 32 pixels of 3 bytes; mmap fails for an empty file |
| `LinkAssumption` | the number of a picture is not too long for `%Nd`; IMAGES and BMP have no question mark, and BMP does not begin with a digit | 10000 pictures and nine digits; the literals in `resources.c` and `handler.c` |
| `ExtensionAssumption` | an extension is not empty, has no NUL and no `%`, and does not begin with a hexadecimal digit | each extension in the list of `resources.c` begins with a dot |
| `IntAssumption` | a number of MAX_INT_LEN digits fits in an int | nine digits and 31 bits |
| `PicturesAssumption`, `ResourcesAssumption` | there are pictures, they fill whole pages of the index, and a row of the table has at least one; a page of memory has a size | 10000 pictures, 100 to a page |
| `BuilderAssumption`, `ResponseAssumption`, HttpResponse's `FilesAssumption` | sizes are numbers; a request for a file names one | what `stat` and `sscanf` return |
| `NumberAssumption`, `GuessAssumption`, GuessServer's `FilesAssumption` | what a number file leaves is a sequence of numbers in range | a fact about SelectSeq, and so about recursion, which TLC evaluates for the files of the run |
| `GameAssumption` | a guess is wide enough for every number | four bytes for 10^9 |
| `AttemptsAssumption` | MAX + 1 is less than 2 to the number of attempts | 10^9 and 32 attempts |

### Induction over data

The library states induction with an operator as its parameter, which no prover here can
instantiate. `FoldProofs` goes another way. `NatSetInduction` is induction with a set in the
place of the predicate; it follows from the library's minimal element of a well-founded
relation, which has no such parameter. FoldLeft is the value of a function that is CHOOSEn
because it satisfies a recursion; `StepExists` shows by that induction that there is such a
function, and from there `FoldLeft` of a sequence with one element more is one more
application of the operator. The operator is a CONSTANT of the module, so a proof module
gets the facts for its own operator with INSTANCE (`Parsing`, `Numeral`, `Product`,
`Doubling`, `Printing`, `Reading`). Recursive functions defined in a LET (`Decimal`, the
pages behind Next) are shown to exist the same way.

### cifar-server: threads and processes

- `PoolMutexesHaveHolders` (`ThreadPoolProofs`): `Spec => [](TypeOK /\
  LockedMutexHasHolder)`. The two together are inductive (`TypedPool`): every action that
  leaves a critical section unlocks, and every action that locks enters one. It holds of the
  whole specification, with the unlock inside an unlocked wait and with spurious wake-ups.
- `OnlyTheDisturbedGoWrong`: `Spec => [](ExclusionUnlessDisturbed /\
  AssignsUnlessDisturbed /\ SignalledUnlessDisturbed /\ RunsUnlessDisturbed)`, of everything
  the code allows. The four are not inductive. `Handover` adds what the argument needs: for
  a worker that is not disturbed, being inside means that the mutex is locked
  (`InsideIsExclusive`); its argument is -1 from the reset to the hand-over and a
  descriptor from there to the call (`FdArgFollowsPC`); and what the acceptor has found out
  about it stays true until it is signalled (`AcceptorKnowsWorker`). For every worker, it
  is AWAITING_TASK from its publication to its wake-up (`StateFollowsPC`). What the theorem
  says of the code is that its two faults are all there is: the state is published before
  the wait and stays after it, and the wait looks at nothing when it returns.
- `PromptThreadsAreSafe` (`RingProofs`): `Spec => [](TypeOK /\
  PromptThreadReadsOwnDescriptor)` for ThreadPerConnection. The argument is `IndexIsAhead`:
  as long as a thread that has not started is younger than the ring is long, the index is
  exactly `age + 1` places ahead of its slot (modulo the ring), so neither a join nor a new
  descriptor is written there.
- `DescriptorsHaveOwners`: `Spec => []OpenDescriptorHasOwner`. The inductive form
  (`OwnedOrLost`) says which of its descriptors a thread is going to close: the one it was
  created for while it has not read, afterwards only if that is the one it read.
- `NobodyKeepsAStranger` (`ForkServerProofs`): `Spec => [](TypeOK /\ HoldsOnlyItsOwn)` for
  ForkServer. Added for the induction: the parent has nothing in hand when it accepts.
- `WholeServerIsSafe`: `ServerSpec => [](ServesOnlyWhenReady /\ TypeOK /\ HoldsOnlyItsOwn)`
  for CifarServer. `SoFar` says, for each place in the start, what has been done so far:
  options, mapping, signals, and which sockets are open (that of the address being tried, or
  none). A step of the whole is a step of one part and none of the other, so the two
  inductive invariants carry over side by side.
- `ForkServerServes`, `WholeServerServes`: `Spec => Service!Spec` and `ServerSpec =>
  Service!Spec`, the safety part of ConnectionService. Each action is shown to move one
  connection by one action of the service, or none. `Apart` is what that needs: a connection
  is queued once and then held by nobody, the parent holds it at one descriptor only, and
  what a child holds besides its own is what the parent has for good; so a close ends a
  connection exactly when it was the last one.

### cifar-server: a connection

- `HttpTypeOK`, `GoodRequests`, `BadRequests`, `ResponsesMatch` (`HttpConnectionProofs`):
  the four invariants of HttpConnection, all from `IInv`. Its core is `Reads(parser,
  received)`: the parser is what the text received so far makes of it, however it was cut.
  The line in its buffer is what follows the last LF, it is complete exactly when the text
  has an empty line at its end, keep-alive is set exactly when the header stands in the
  text, method and path are its first words (`Took`), and `Invalid` has its reason in the
  text (`Judged`); if something came behind a complete request, the parser has not taken it
  and is invalid. This is proved for one atom (`Take`), and for a buffer of any length by
  the fold. `StateFollowsPC` says what ServeClient knows where, and `InStep` counts the
  responses and the ends of requests in the texts answered.
- `DecoderStaysInside` (`RequestHandlerProofs`): `Spec => [](TypeOK /\
  DecodingStaysInside)`. Inductive with: the position is within the encoded path, what is
  written is no longer than what was read, and a digit is never the terminator.
- `FilesAreTheOnesMeant`, `TypesBelongToTheFiles`: `Decoded` adds to this what has been
  decoded so far is what was meant up to there, and that the end of it which no escape
  touches was copied byte for byte; so an extension of the encoded path is one of the file's
  name.
- `PagesAreTheParameters`: `Parameter` says that the loop of `GetIntParam` is always at the
  start of a piece of the query, and that no piece before it is the parameter. What `%9d`
  makes of the digits is a fold, whose value is below the power of ten and so keeps its
  width.
- `LinksAreFollowed`: `LinksFollowed` follows one link - to a page, or to a picture -
  through the split, the routes and the parameter. It rests on `Decimal` and the scanning
  fold being inverse to each other for every number that is not too long.
- `BitmapsAreThePictures`: `Spec => []ViewerSeesThePicture`, for every size of the pictures,
  of their file and of a page of memory. Most of it is arithmetic: quotient and remainder of
  the address a viewer goes to.

### cifar-server: a response

All from `Sound` and what is added to it, in `HttpResponseProofs`.

- `ResponseIsTyped`: `Spec => []TypeOK`. `Sound` says that a response has a path exactly
  when it is to send a file, which only the build with sendfile does, and what request and
  file there are at every place in the handling and the sending. The contents of bodies are
  not looked into.
- `BodiesArePages`: `Spec => []BodyIsThePage`. The lemmas about the builder come first:
  `Keeps(sb, text)` says that it is an allocation with the text in its first cells and room
  for the terminator, and every operation - growing by doubling, appending, printing once
  or, when the first try did not fit, twice, chopping, clearing - is shown to keep a text
  and to put the right one behind it. Then each page: whatever the capacity it starts with,
  the index, the error pages, the listing and the file that was read put the expected text
  into an empty builder. `Content` says where in the handling which of them is in the body.
- `IndexIsComplete`: `Spec => []IndexLeadsEverywhere`. A theorem about the operators:
  picture n is on page n divided by the pictures of a page, and `Next` followed k times from
  page p is at p + k, wrapped.
- `PeersReadPages`: `Spec => []PeerReadsThePage`. `PeerFollows` says, while headers or a
  body are sent, that what is left to send is the rest after some k cells, and that the peer
  is exactly k cells into reading them (`AfterHeaders`, `AfterBody`), so it is at the start
  of the next response when the server is. A part that `send` takes is a fold of the peer's
  `ReadCell`, and the lemmas follow it over a part of any length.

### guess-server

- `TheDeadAreNoticed` (`GuessServerProofs`): `Spec => []ZombieIsNoticed`, which is inductive
  together with the types of the children.
- `NumbersAreGivenInTurn`: `Spec => [](TypeOK /\ NumbersInTurn)`. Added for the induction
  (`InTurn`): the position is the number of clients so far, modulo the length of the ring.
- `GameTypes`, `NobodyMisled`: `GameSpec => []NeverMisled`. `GameInv` adds `UnreadIsSent`:
  what has been received of a guess, with what has arrived behind it, is the bytes of the
  guesses not answered, in their order; and `AttemptCounts`, which ties the attempt to the
  answers. That `ntohl` of the bytes of a number is the number again is an induction over
  their count.
- `HalvingWins`: `GameSpec => []HalvingClientWins`. It follows from `GameInv`. A guess in
  the middle leaves at most half of the numbers (`MiddleHalves`), so after k of them 2^k
  times what is left is at most MAX + 1; after MAX_ATTEMPTS wrong ones that would be less
  than one number, and the right one is always left.

### Only model-checked

Liveness needs fairness and ENABLED, which are beyond the proof system:
`WorkersReturnToWait`, `SearchTerminates`, `ServeClientReturns`, `StartupEnds`,
`ZombiesAreReaped`, and the liveness part of `ConnectionService` (`ImplementsService`; its
safety part is `WholeServerServes`). That the runs of section 6 are violated is for TLC to
show too.

## 6. Disagreements

Each is a run that TLC finds violated; the property states what the code says of itself.

- `pool_lost_task` - "thread %d is not active, so assigning the task to it"
  (server.c:308): the acceptor sees AWAITING_TASK before the worker waits. The signal is
  lost when the worker has not reached the wait, and the accepted connection is never
  served.
- `pool_wrong_fd` - "received wrond fd!" (server.c:229), with no spurious wake-up and no
  lost signal. The wait unlocks a mutex its caller does not hold (server.c:220), and so
  frees the lock of the acceptor, who is handing the worker a descriptor. The worker is
  signalled and takes the mutex again before the acceptor's unlock (line 320), which frees it
  under the worker. The acceptor accepts the next connection, and can now lock the mutex and
  find that worker AWAITING_TASK still. Between its write (318) and its signal (319) the
  worker, which has served its first connection meanwhile, resets its descriptor to -1 and
  waits; the signal wakes it for a task that is not there, and the new connection is never
  served.
- `pool_double_close` - `ServeClient` closes the descriptor when the peer has gone
  (handler.c:102) and its caller closes the number again, which may be another
  connection's by then.
- `http_no_method` - "received good request" (handler.c:79): a request that begins
  with an empty line is a success without a method.

## 7. Not modelled

- Liveness of a response: `send` has no timeout (io.c:31), so it would say that peers read.
- What a peer makes of what it is sent after a response that was cut short: the code goes on
  with the next response (handler.c:82), and no text of it promises otherwise.
- Failures of malloc and realloc beyond those the code looks at (the bitmap); the width
  of size_t in `stringbuilder.c`.
- Allocations. The request and response are not destroyed when a peer has gone
  (handler.c:105), and a listing that fails leaves directories open (resources.c:356): both
  losses are certain on their paths, and stand in the list of hazards without a property.
- The branches for Apple (TCP_NOPUSH, its sendfile).
- A mapping that fails at the start and is tried again in `Load` (resources.c:200): the server
  does not get that far, which is `ServesOnlyWhenReady`.
- Header fields of a bitmap that the viewer does not look at. `biSizeImage` is set to the
  number of pixels, where the comment on the field (bmp.c:25) says bytes; it may be anything
  when the bitmap is not compressed.
- A port above 65535 is not refused but cut to sixteen bits: modelled, and not promised
  otherwise anywhere.
- `tests.c` and `config.h`: read as a statement of intent and as the choice of a build.
- The HTML, CSS and pictures: data.
- The pool's undefined wait beyond glibc's behaviour; the heap after the bad join.

## 8. Plan

Done, in the order of importance: `FdTable`, `ThreadPool` and its proofs, `ThreadPerConnection`,
`ConnectionService` and `ForkServer`, `HttpConnection`, `StringBuilder`, `Resources`,
`HttpResponse`, `NumberSource`, `GuessServer`, `GuessGame`; then `Pictures`, `StringUtils` and
`RequestHandler`, `Startup` and `CifarServer`, the build that reads in
`HttpResponse`, and the proofs about them, about the refinement of `ConnectionService` and,
with `FoldProofs`, about what the folds of the parser, the pages and the game compute.

What is left:

1. `HttpResponse` composed with `HttpConnection`: a client that sends requests and reads
   responses by their length on a kept connection.
2. `StringBuilder`: growth in a size_t of bounded width.
3. A repaired `ThreadPool` - published state, wait and task under one mutex, with a
   predicate - as an implementation of `ConnectionService`.
