# portscan-4lang in TLA+

The repository holds one port scanner written four times: in C, C++, Rust and C#. The four share a command
line, a port-list grammar, a permission guard, the probe of one port and a report; what really differs is how
each runs many probes at once. The modules here model each program's way of doing that and check all four
against one abstract scan; they model the probe of a port down to its system calls, on POSIX and on Windows, and
each program from its arguments to its report and its exit code. They prove the four scans correct for every number
of ports and threads, the four probes for every timeout, and, for argument lists of every length and every address,
that no program scans what it may not, or ends otherwise than documented, that the four are interchangeable, and that
their reports read back as what was found.

Paths of the form `README.md:219` name the repository's own README; `c/`, `cpp/`, `rust/`, `csharp/` are its
directories.

## The system

| Part | State it keeps | Operations | Where |
|---|---|---|---|
| C pool and scan | the shared counter, the thread handles, the result slots (`calloc`'d) | `run_scan`, `pool_run`, `work_loop`, `take_next` | `c/src/pool.c`, `c/src/main.c` |
| C++ pool and scan | an atomic index, a vector of `jthread`, a vector of results | `scanPorts`, `runScan` | `cpp/src/Scanner.cpp`, `cpp/src/main.cpp` |
| Rust scan | a tokio semaphore, the blocking pool's queue and threads, the join handles | `scan_ports`, `scan_port`, `run` | `rust/src/scanner.rs`, `rust/src/main.rs` |
| C# scan | a `SemaphoreSlim`, an array of tasks, an array of results | `ScanPortsAsync`, `PrepareAndScanAsync` | `csharp/src/PortScan/Scanner.cs`, `Program.cs` |
| Probe of one port | one descriptor, its timeouts, the `PortResult` | `scan_port`, `connect_port`, `read_banner` and their siblings | `c/src/scan.c`, `c/src/net_sock.c`, `cpp/src/Scanner.cpp`, `cpp/src/LinuxSocket.cpp`, `cpp/src/WinSocket.cpp`, `rust/src/scanner.rs`, `Scanner.cs` |
| Command line | `Options` | `args_parse`, `parseArgs`, `cli::parse`, `Args.Parse` | `args.c`, `Args.cpp`, `cli.rs`, `Args.cs` |
| Port list | a set of ports | `ports_parse`, `parsePorts`, `ports::parse`, `PortRange.Parse` | `ports.c`, `Ports.cpp`, `ports.rs`, `PortRange.cs` |
| Addresses and guard | none | `net_resolve`, `net_is_local`, `is_scan_allowed` and their siblings | `net_addr.c`, `LinuxSocket.cpp`, `local.rs`, `main.*`, `LocalAddress.cs`, `Program.cs` |
| Report and banner text | counters | `report_table`, `report_json`, `scan_sanitize_banner` and their siblings | `report.*`, `Report.*`, `scan.c` |

How they interact. `main` reads the arguments, then the port list, then resolves the target, asks the guard, and
calls the scan once. The scan hands the indexes of the port list to threads or tasks; each probes one port and
writes one element of a results array that no lock protects. When the last probe has ended the report is
printed and the process exits. Nothing is persisted and the four programs share no state: there is no crash
recovery to speak of, and every hazard is one of threads, of a resource that gives out, of the network's
timing, or of four implementations drifting apart.

What is hard, and what makes each part correct:

- **Pools** (interleaving, partial failure, liveness). Every index is handed out once; nothing reads a slot
  before its writer is gone; a thread, a socket or memory that cannot be had must cost speed and not results;
  at most `--concurrency` probes at a time; the scan ends.
- **Probe** (timeouts, error paths). The descriptor is closed once on each of many ways out; the verdict is what
  the network said, even when the answer races the timeout; signals may only delay; the probe ends.
- **Command line, ports, guard** (drift, boundaries, partial failure). The four agree; no target outside the
  local ranges is scanned without the flag; the scan is given what it assumes; the exit code tells the truth.
- **Report** (drift, boundaries). The four print the same; what is printed can be taken apart again, whatever bytes
  a peer sends as its banner and however they are cut.

`PROJECT.json` lists every hazard at its line with the properties that cover it.

## Modules

| Module | Models | State and actions against the code |
|---|---|---|
| `ScanContract` | what a scan promises | abstract: which positions are being probed, their verdicts, the report |
| `CPool`, `MCCPool` | `run_scan` and `pool_run` | `next`, `started`, `joined`, `results` are the fields and locals of those names; one action per atomic step: `take_next` (the fetch-and-add), `BeginTask` and `EndTask` (the two ends of `scan_task`), `CreateWorker`, `StopCreating`, `Join`, `PoolReturns`, `PrintReport`; a worker that ends stays `done` |
| `CppPool`, `MCCppPool` | `scanPorts` and `runScan` | `fetch_add`, `StoreResult` per thread; `CreateThread` or `CreateThrows` for `emplace_back`; the destructors of the vector of `jthread` are `JoinThread`, and `Unwound` when an exception passes |
| `RustScan`, `MCRustScan` | `scan_ports` and `run` | each task goes `new`, `waiting`, `permit`, `queued`, `probing`, `socket`, `stream`, `probed`, `done`, where `socket` holds one descriptor and `stream` (the clone a banner is read from) two; the semaphore is a count with a first-in-first-out list of waiters, the blocking pool a queue and a number of `threads` up to `max_blocking_threads` (both external, as the code uses them). A thread that the system refuses leaves the closure in the queue, or panics (`spawn_blocking_panics`); the panic passes through the `expect` on the handle (`AwaitPanics`) and ends the process (`ProcessEnds`); `ThreadLeaves` is the end of an idle thread |
| `CsScan`, `MCCsScan` | `ScanPortsAsync` | `WaitAsync`, `NewSocket` (throws without a free descriptor), `ScanPortAsync`, `Release` per task, `WhenAll` in the caller |
| `CPoolProofs`, `CppPoolProofs`, `RustScanProofs`, `CsScanProofs` | theorems about the four scans | an inductive invariant each, and the refinement of `ScanContract` |
| `ProbeContract` | what a probe promises | abstract: one socket, one justified verdict, a banner from an open port only; a `managed` program may throw, and its timer may outrun an answer |
| `TcpSocket` | socket and network (external) | the network answers at any time or never; a peer sends, ends, resets, or stays silent; `poll` and `select` differ in what they say of a failed attempt |
| `ProbeState` | what the four probes have in common | the variables, time (`Tick`), and the environment; `windows` chooses the system |
| `CProbe` | `scan_port` over `net_sock.c` | one action per system call, so that a wait that timed out and the close that follows are two (`WriteTimeout`, `CloseTimedOut`), with room for a late answer in between; `net_wait` is `poll_ready` or `select_ready`; `Interrupted` is `EINTR` |
| `CppProbe` | `scanPort` over `LinuxSocket.cpp` and `WinSocket.cpp` | the same, with `owners`: which `UniqueSocket` objects hold the descriptor |
| `RustProbe` | `blocking_scan`, `read_banner_blocking` | `connect_timeout` of socket2 (external) against a deadline; `owners` holds `socket` and its clone `stream`, each dropped on its way out |
| `CsProbe` | `ScanPortAsync`, `ReadBannerAsync` | the timers of the two `CancellationTokenSource`s race the answer; `using` is `Dispose`; `threw` is a `new Socket` that throws |
| `Probes` | any of the four before one network | chooses program and system and runs the probe |
| `Texts` | texts, characters and addresses | a text is a name; how it reads as a number and as a port list are tables; a character stands for those that are treated alike; `Finding` is what a probe found |
| `CMain`, `CppMain`, `RustMain`, `CsMain` | each program from its arguments to its exit code | the parser's loop is a fold with the options as accumulator; then one action per step of `main` (parse, ports, resolve, guard, scan and report); the scan is one step, its detail in the pool modules; `output` is what was printed |
| `CReport`, `CppReport`, `RustReport`, `CsReport` | banner text, table and JSON of each program | operators from results to a sequence of pieces: characters where the program looks at them, fixed text and numbers as one piece each |
| `ReportContract` | what a report tells | readers that take a table and JSON apart, and a banner defined by what it is rather than by a loop |
| `CliContract` | what the command line promises | a reading of the whole argument list at once, the local ranges by prefix length, the exit codes |
| `ProbesProofs` | theorems about the four probes | an inductive invariant for each program, and the refinement of `ProbeContract` |
| `ReportProofs`, `ArgumentProofs`, `FourProgramsProofs` | theorems about banners and reports, about the parsers, port lists and guards, and about the programs they are parts of | each extends the one before; `Facts` is what is known of a process in each phase, and `Reached` where it is on the course that its input sets for it |
| `FourPrograms`, `MCFourPrograms` | the four on the same input | `C`, `Cpp`, `Rust`, `Cs` are instances with a process record each |

Every definition named "Slip" is a plausible mistake in the definition that follows it. No action uses it; it is
there so that each property can be seen to fail on it.

## What the runs check

| Run | Question | Bounds | Answer |
|---|---|---|---|
| `CPool` | Does the C pool keep `Inv` and implement `ScanContract`, its end included, wherever `pthread_create` or `calloc` fails? | 4 ports, limit of 3 threads, `--concurrency` 1, 2, 5 | yes |
| `CppPool` | When any `jthread` may fail: is the results vector safe, is `ScanContract` kept, and does the process always end? | 3 ports, 1, 2, 5 | yes |
| `CppPoolCap` | Is there a cap on C++ threads (README.md:150, :166)? | cap scaled to 2 for 3 ports | **no** |
| `CppPoolThrow` | Does the C++ program end with a report when a thread cannot be created? | 3 ports | **no**: `std::terminate` |
| `RustScan` | When any blocking thread may be refused: are permits conserved, do semaphore and blocking pool agree until then, do two descriptors for each permit suffice, is the report in order, is `ScanContract` kept, and how does the scan end? | 3 ports, 1, 2, 5, 2 descriptors, ports open or closed | yes; it ends by report or panic, or hangs without a thread |
| `CsScan` | When sockets give out, and when there are enough: do permits come back, is a descriptor free for each, do tasks end before the scan is left, is `ScanContract` kept, does the scan always end? | 4 ports, 1, 2, 3, 2 descriptors | yes |
| `CsScanSocket` | Is a port whose socket cannot be opened reported as an error? | 2 descriptors, concurrency 3 | **no**: unhandled exception |
| `Probes` | Are descriptors, time, verdict and end of a probe right, in each program and on either system, for every outcome of every call? | timeouts of 3 and 2 ticks, 2 signals | yes |
| `FourPrograms` | Do the four end alike and as documented, scan nothing they may not, give the scan what it assumes, and print what was found? And what of it holds when memory, threads, sockets or Winsock give out? | see below | yes |
| `PlusSign` | Is `--timeout +800` treated alike? | one command line | **no**: only Rust accepts it |
| `FamilyOrder` | Is the same address scanned when the resolver lists IPv6 first? | one list | **no**: Rust takes the first, the others the first IPv4 |
| `GuardRange` | Is the guard that of README.md:22 and :158? | fc00::1 | **no**: fc00::/8 passes too |

A "no" is a run that finds the property violated, and a finding in `PROJECT.json`.

`CppPool`, `RustScan` and `CsScan` check the safety part of the contract and, apart from it, how the program stops: the
contract's own end, a report, is what `CppPoolThrow` and `CsScanSocket` refute when something gives out.
Only the C program always reaches it. `ScanEnds` of `RustScan` says which end there is: the report, as long as no thread is
refused; and otherwise the report, a panic, or a closure that waits for ever in a pool that got no thread at all, or whose
threads left before it came.

The inputs of `FourPrograms` are: every list of up to three of 15 words and about 500 longer ones, with one local
target; two command lines (with and without the flag) with both sides of every boundary of the guard in the first
two bytes, as IPv4, as IPv4-mapped and as IPv6 addresses, with lists of two addresses and with none; and eight command
lines with four answers of the resolver while something may run out. For the reports there are all 64 combinations of
states of three ports, in both formats, with and without `--banner`, for a plain target, one of quotes and controls,
and one that is not ASCII; and one open port with every sequence of up to three of eight kinds of byte, and up to four
of five kinds, in both formats. They leave out what the violation runs show
apart (a plus sign, IPv6 listed first), and port lists of 256 characters or more and numbers of 16 digits or more,
which only the C program refuses, having fixed buffers for them.

**Why the bounds are enough.** The C pool has four ports and a limit of three threads, so that each of the three bounds of
`worker_count` decides for some `--concurrency`: the request for 1 and 2, the limit for 5, and that the limit lies under
the number of ports keeps the two apart. The three ports of the C++ pool lie between the concurrency values, which decide
for 1 and 2 and leave it to the ports for 5. Two threads already race for an index, and a third is still running when one
ends. The three tasks of the Rust scan, and the four of the C# scan, let waiters queue up behind permits, and closures
behind threads: with one permit two wait, with two permits one thread may be refused while the other runs, and with
five nobody waits for a permit.
With two descriptors and `--concurrency` 1, 2 and 5 there are enough of them for every probe, for the probes but not
for the clones, and for neither; `Found` leaves connections the two ends that differ in whether a banner is read.
Probe timeouts of 3 and 2 ticks differ, so that each `min` has two sides; two signals show that the second
restarts a wait that the first had restarted. No parser of the four looks back further than one argument, and
two options suffice for order to matter, so lists of three words (and the longer ones that carry both a target
and two flags) reach every branch. The guard reads two bytes of an IPv4 address; of an IPv6 address, the first
two, the last, and whether the rest is zero or the mapped prefix. `BannerMax` is 3 instead of 120, so that four bytes
are too many, and the cut can uncover a space.

The ticks, the signals (`MaxInterrupts`), `Found`, the scaled `BannerMax` and the lists of `MCFourPrograms` are the only
artificial bounds; the
counter of a pool is unbounded in the module and `CounterBound` limits it.

**Deadlock** is checked in every run but `RustScan`: each specification stutters explicitly once the
program has ended, and nowhere else. The Rust scan can really hang: a closure may wait in a pool that was refused its only
thread. `ScanEnds` says that this is the one way to be stuck.

**Fairness.** The pools assume weak fairness of each thread or task and of the caller: the kernel runs every
runnable thread, the runtimes poll every ready task and hand a queued closure to a thread that is free. The system owes the blocking pool
of the Rust program no thread: that it grants or refuses one is a choice within `spawn_blocking`, and idle threads need not
leave (`ThreadLeaves` has no fairness). A probe
ends because each of its waits has a timeout, and that is what `Probes` checks, under weak fairness of
the thread and of time alone. Nothing is asked of the network, `poll` need never fail, and signals stop
(`MaxInterrupts`): with an endless stream of them `net_wait` would never return, since it waits for the whole
timeout again. `FourPrograms` states no liveness and no fairness.

## What is proved

The four scans are proved for every port list that is not empty and increasing, every set of concurrency values of at
least 1, every number of descriptors (Rust, C#) and every `THREAD_LIMIT` of at least 1 (C): `PoolAssumption` and
`ScanAssumption` say so. They are not taken on trust: `PreconditionsKept` proves that, whatever the command line, a scan
starts with a port list, concurrency and timeout that satisfy them. In each module
`InvHolds` is the inductive invariant (`Inv` or `IInv`), from which the rest follows.

**`CPoolProofs`.** `TypeCorrect`, `SlotsHaveOneOwner`, `NothingIsLost` and `NoThreadIsLeft` are parts of `Inv`;
`ReportsAreComplete`, `CounterIsBounded`, `ConcurrencyIsBounded` and `SlotsAreWrittenOnce` are consequences, and
`ImplementsScanContract` maps every step to a step of `ScanContract` or a stutter.
`OneOwner` is not inductive alone: a thread that takes an index must know that nobody holds it.
So `NoIndexLost` says that everything at or above the counter is untouched, and `HoldersAgree` that every holder's
index is below it and still without a verdict; the fetch-and-add then keeps all three. That the pool may return
needs `ThreadsMatchPhase` (exactly the threads `1 .. started` exist, or only the caller's own, and the first `joined`
are done) and `CounterSpent` (a thread ends only once the counter is past the last index, and the counter passes it
once per ended thread at most): when the last thread is joined, every index is below the counter and nobody holds one,
so every slot has its verdict. The bounds follow from a count: no more than `workers` threads are started, which
`worker_count` keeps under `--concurrency`, `THREAD_LIMIT` and the number of ports; and probes, or ended threads, are a
subset of the threads that were started, or of the caller alone.

**`CppPoolProofs`.** `SlotsHaveOneWriter`, `ThreadsJoinFirst` and `ImplementsScanContract` (the property that the run
checks) follow the same argument, with the destructors of the `jthread`s in the place of the joins and with
`std::terminate` possible at each creation: the invariant says nothing of a terminated process that it does not say of
a running one, because its threads simply stop. That the report is complete rests on `ThreadsMatch` (all `workers`
threads were started if the caller is at the joins) and on `CounterSpent`.

**`RustScanProofs`.** `PermitsComeBack` is a count: permits that are free and tasks that hold one add up to
`--concurrency`. It is inductive only with `QueuesAgree`: a permit that is dropped goes to the head of the waiters, which
must be a waiting task, and must not be there twice (`Pushed` and `Popped` are about queues in general). A task that
panicked has dropped its permit, but its closure still runs if a thread gets to it; so running closures may be more than
the permits that are held, and what bounds them is the number of threads (`ThreadsAgree`, `ProbesAreBounded`). From that
bound follow `DescriptorsSuffice` (a probe that asks for a descriptor has a thread, so that the probes that have theirs are
fewer than the threads, and only those that have two are counted twice) and the bound of the contract.
`PermitsMeanThreads` is the other way round: without a refusal no task panics, every queued or running closure has a
permit (`ClosuresHavePermits`), and a thread is started for each that finds none idle.
`AwaitsInPortOrder` needs that a task that is done stays so (`TasksGoForward`) and has left its verdict and its result
(`TaskLeavesResult`); a task that panicked is never done, which is why its panic keeps the report from being printed.
`ImplementsScanContract` is the property of the run, whichever threads the system refuses.

**`CsScanProofs`.** `PermitsComeBack`, `TasksEndFirst`, `DescriptorsSuffice` and `ImplementsScanContract` (the property of
the run), by the same count: a task that faults keeps its permit until its `finally`. `FaultsAreFinal` says that an
exception keeps the report from being written, and `TaskLeavesResult` that every other task that ended left its result;
so a report is complete if there is one.

**`ProbesProofs`.** `TypeCorrect`, `DescriptorsAreOwned`, `OnlyOpenPortsRead`, `TimeBounded` and `ImplementsProbeContract`,
for every `TimeoutTicks` and `BannerTicks` of at least 1 and every `MaxInterrupts` (`ProbeAssumption`). The programs go
through different places, so `IInv` is a disjunction of four invariants, each with four parts. `VerdictAgrees` says at
which places nothing was sent yet, nothing went wrong yet, and there is no verdict yet; that the verdict `open` rests on
a connection is what makes the banner safe. `OwnsDescriptor`, `CppOwners` and `RustOwners` say who holds the descriptor at
each place: without them it could be closed on one way out and once more by the next owner. `RustOwners` also counts:
the descriptors that were closed and those that have an owner are one together, and two only for an open port whose banner
is wanted, so that a second drop shows even when nothing was cloned. `TimeAgrees` relates the
time that has passed to the time that is left of the current wait: their sum is bounded, and a wait that
a signal starts over adds one timeout to the bound (`Restarted`). It also says that a wait for a connection ends no
sooner than the timeout, from which follows that a `filtered` port was given all of its time. `WireAgrees` is what the
network and Windows never do. Each system call then maps to a step of the contract: the one that decides maps to
`Decide`, the one that closes the descriptor to a close, and those that only try again to a stutter.

**`ArgumentProofs`** and **`FourProgramsProofs`.** The parsers fold the arguments with a state; `CliContract` looks at the
whole list. The lemmas take one to the other in three moves. First, the four parsers are one operator, `Take`, up to the
pairs of a flag and a value that each accepts (`CTakes` and its siblings; `CAccepts` and its siblings are the
pairs). Second, a fold is a `Run`: a function from positions to states, each by `Take` from the one before
(`RunExists`). The library's induction theorems take an operator as a parameter, which the provers cannot supply, so
the induction on the position is one on a set of naturals, whose smallest missing element would be minimal for
`Less` (`Induction`). Third, `Agrees` is the invariant of a run: after `k`
arguments the state says whether a flag still waits for its value, and otherwise holds what the first `k` arguments say
of target, permission and ports; it is an error if and only if one of them is wrong with no request for help before it.
`RunParsed` follows at the last position. `PortLists` says the same of port lists: each program accepts the lists that the
contract calls valid, and marks ports between 1 and 65535 and at least one.
`SameParsers` says that the four give the same result, options and all, for every list without the texts named below.

`GuardsAreTheLocalRanges`, in the same module: for every IPv4 and every IPv6 address, each of the four guards is
`InLocalRange`. The programs test bytes, with masks; the contract lists prefixes in groups of 16 bits. The lemmas take
the one to the other, and show that it does not matter that the Rust and C# programs look for a mapped address first.
That is what `FourPrograms` samples at its boundaries; no assumption is needed.

`Inv` in `FourProgramsProofs` says of each of the four processes what it knows in its phase (`Facts`): after the arguments,
the options are those that the list asks for; after the ports, there are some and all are in range; after the resolver,
there is an address; in the scan, it is a permitted one, which is where `GuardsAreTheLocalRanges` comes in; and at the exit
one of eight reasons holds for the code (`Conclusion`), among them that the network did not start or the scan panicked. Only the conjunction is inductive: the guard looks at an address and
at an option that were stored two and three phases earlier. From it follow `PermissionKept` (no scan of an address
outside the local ranges without `--yes-i-own-this`), `PreconditionsKept`, `ExitCodesHonest`, `OutcomesDocumented` and
`CppAndCsDocumented`.

**`ReportProofs`.** `SameReports`: for every target, all options, every set of ports and whatever bytes were received, the
four programs print the same text. `ReportsReadBack`: `ReadTable` or `ReadJson` takes that text apart into what was to be
told. Both rest on lemmas about folds, of which the loops of the programs, `FlattenSeq` and the two readers are all
instances: a fold is where its run ends (`FoldOfRun`), a fold over two sequences in a row is one fold after the other
(`FoldConcat`), and a loop that adds a chain of pieces at each turn ends with the chains joined (`JoinedSteps`), so that a
loop and a `FlattenSeq` of the same parts print the same. The prover cannot induct over data, so all of it is again
`Induction` over a set of naturals.

- Banners. `BannersAreClean`: each of the four ways to cut and trim yields `CleanBanner` of the bytes, which does not say
  how, for bytes of every length. C and Rust work with positions; C++ and C# push one character after another, and
  `CppPushes` and `CsAdds` say what they have pushed after `k` bytes and in which state they are.
- Writers. `CTable`, `CppTable`, `RustTable` and `CsTable` show that each is the one `Table`, and their siblings the one
  `Json`. A comma belongs to an entry in three programs and to the loop's position in the fourth (`CppAddIs`).
  `OpenPorts` is a list that increases; `AscendingExists` and `IncreasingStays` say that there is one such list and only
  one.
- Readers. `LinesOfJoined` says into which lines a text falls, and `SummaryReads` where each number of the summary stands,
  with or without the errors. `LexString` says that the lexer gives a string back as it was before it was escaped;
  `JsonReads` then finds the names and the entries by their positions. They need that no piece of the target is a name
  that the reader looks for (`TargetIsPlain`), and that no banner holds a line end or a quote that is not escaped.

**Courses.** With this, `FourProgramsProofs` has a second inductive invariant, `Traced`. `CourseOfC` and its siblings hold
what a program makes of its arguments, the port list, the resolver's answer and the findings; `Reached(w, p)` says that
process `p` is one of the seven records that the course `w` passes through, the last of which is `Final(w)`, or that
something ran out and it ended without output. `Inv` does not suffice here, because two processes are to be compared that
never run at the same time: each has to be tied to its input alone. `OnTheirCourses` is the invariant. `CoursesAreAlike`
puts the four on one course (`SameParsers`, `PortLists`, `SameAddress`, the guards) and `CoursesAreFaithful` says that what
a course prints is `Report`; from them follow `ProgramsInterchangeable`, `TablesReadBack` and `AllJsonReadsBack`.

**What the programs' proofs assume.** `InputsAssumption`: arguments are texts, a resolver gives addresses of four or sixteen
bytes, and a probe finds one of four states and some bytes; that is all that `main`'s `argv`, `getaddrinfo` and a
probe (`TypeOK` of `Probes`) can yield. `NamesAssumption`: no argument and no decimal number is called like a
piece of fixed text that a reader looks for, such as `closed:`. A text is one piece in the model, so that such a target
would be taken for the label; in the programs it is spelled out between quotes, or stands at its place in a line, and
nothing follows for them. `BannerMaxAssumption`: the length of a banner is a natural number.

The runs show `ExitCodesAreHonest`, `OutcomeAsDocumented` and `Interchangeable`
of inputs that leave three texts out; the theorems name them. `Signed` is the number with a plus sign that the Rust program
alone accepts (run `PlusSign`), and `TooLong` the port list and the number that only the C program refuses, having fixed buffers
for them. `OutcomesDocumented` excludes both, `ExitCodesHonest` the first alone; `PermissionKept` and `PreconditionsKept`
exclude nothing, and `CppAndCsDocumented` says that the C++ and the C# program end as documented without exception.
`ProgramsInterchangeable` excludes both and `IPv4First`, a resolver that lists IPv6 before IPv4 (run `FamilyOrder`).
`TablesReadBack` and `AllJsonReadsBack` exclude nothing, whatever runs out. How a single text reads as a number or as a port list is
the tables of `Texts`, in the proofs as in the runs: the theorems are about every list of arguments and every answer of the
resolver, and a text outside the tables is one that is no number and a port list of one word. The bounds of the options are
constants with names (`MAX_TIMEOUT_MS` and its siblings), as in the sources.

Only model-checked: liveness (the contracts' `FairSpec`, `AlwaysStops`, `AlwaysReturns`, `ScanEnds`), since the prover handles
neither fairness nor `ENABLED`. Every invariant that a run checks is also proved.

## Where the programs part without a run of their own

- A thread that the system refuses. The C program goes on with the threads it has, and the C++ program ends by
  `std::terminate` (run `CppPoolThrow`). In the Rust program, `spawn_blocking` leaves the closure in the queue or panics;
  the `expect` on the task's handle (`rust/src/scanner.rs:264`) passes the panic on, and the process ends with exit code
  101 and without a report. `ScanEnds` allows both ends, and the hang that is left when no thread ever comes.
- Exit code 2. README.md:30 says of it that the target could not be resolved. The C and C++ programs also end with 2
  when Winsock does not start (`c/src/main.c:131`, `cpp/src/main.cpp:99`), before they look at the target;
  `ExitCodesAreHonest` says so of these two, and holds the other two to the README.
- JSON with a target that is not ASCII. `write_json_string` of Rust pushes each byte of the UTF-8 text as a character
  (`rust/src/report.rs:45`), so that U+00E9 is printed as two other characters; `WriteJsonString` of C# tests the low
  byte of each UTF-16 unit (`Report.cs:103`), so that U+0107 is printed as the control character U+0007. `RustReport` and
  `CsReport` do the same; `JsonReadsBack` asks nothing of the two for such a target, and `Interchangeable` does not
  compare their JSON. C and C++ print the bytes as they are.
- The milliseconds. C rounds to the nearest (`c/src/scan.c:52`), the others cut off. The model leaves the numbers out.
- Descriptors. README.md:150 asks that `--concurrency` stay under the limit of the process. With `--banner` the Rust
  program needs two for each probe (`rust/src/scanner.rs:225`), which `EnoughDescriptors` states of `RustScan`.
- Timers. A C# probe may report `filtered` of a port that had answered, if the timer is due before the runtime has
  completed the connection; the other three ask the system once more. `ProbeContract` allows it of a `managed` probe.
- Signals. They restart the waits of the C and C++ programs, cut off the banner of the Rust program, and do nothing to
  its connection or to the C# program (`TimeIsBounded`).

## Not modelled

- Which systems refuse what: a refused thread, socket or allocation, and a Winsock that does not start, are choices at the
  places where the programs ask for them. The start of Winsock by the Rust and C# libraries, and memory exhaustion in the
  C++, Rust and C# programs, which ends them at any place, are left out.
- A failed `fcntl` or `ioctlsocket` of the C++ program closes the socket in the same step (`SetNonBlocking`); in the C
  program the two are apart.
- On Windows, how soon the system reports a refused connection (`disable_syn_retransmission` and its siblings ask it to
  be quick, at best effort): it lies in the kernel. `resolve` and `isLocalAddress` of `WinSocket.cpp` repeat
  `LinuxSocket.cpp`, and the Windows `pool_run` repeats the other; the modules stand for both.
- Column widths, milliseconds and the text of the address in a report.
- The tests, build files and `bench.ps1`: read as statements of what the programs promise.
- How texts are split into characters: `Texts` gives each text its reading. Arguments that are not valid UTF-8, and
  targets of 256 characters or more, are left out, as is whether a target's text is a literal address: `dns` is the
  list that the lookup yields in either case.
- One table of descriptors under the C and C++ pools: there a descriptor that cannot be had is one more `error` verdict,
  which the pools allow at any time.

## Plan

The order followed so far: the pools and their contract, the probes and theirs, the programs around them, the
reports. What is left, most important first:

1. The tables of `Texts` as parameters, so that the theorems about port lists and numbers range over every reading and
   not only over those the tables list.
