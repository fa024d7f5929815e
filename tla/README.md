# A verification development for msft-test

The repository is a collection of small programs written to reproduce,
measure or explain the behaviour of operating systems and services.  Each is a
few hundred lines; none shares state with another, except the pairs named below.  What is
hard about them is what they were written to exercise: signals, forks, pipes, process tables
that change while they are read, servers that fail half-way, header graphs with cycles.

## Inventory

Paths are relative to `src/ostc`.

| Part | State it keeps | Operations and interactions | What is hard | What makes it correct |
|---|---|---|---|---|
| Signal daemon, `signals/signalh.cpp` (`os/sun/signalh.cpp` is the same code without `DAEMONIZE`) | descriptors, session, signal mask, `sigCnt`, `allDone` | `Process_Daemonize`, handler, hold phase, `while (!allDone) pause()`; the kernel delivers what `signal.cpp` and the user send | handler against `main`, masks, full queue, a failing second fork | exact count, no overlap of handlers, masks restored, ends when told |
| Signal sender, `signals/signal.cpp` | loop variable | one `sigqueue` per signal, gives up at the first failure | daemon gone, queue full, other senders | exit 0 only with the whole batch queued |
| `ssh/ssh-fork.c` | two pipes, `do_cmd_pid`, six handlers | `do_cmd` forks ssh; `killchild` and `suspchild` forward signals and wait | signals at any point, nested handlers, descriptors 0 and 1 closed on entry | right pipe ends on both sides; parent and child stop and die together |
| SSH clients, `ssh/ssh-sample-exec.c`, `ssh/ssh-sample.c` | session, channel, `wr`, `len`, `counter` | connect, handshake, authenticate, open a channel, write a request, read a response, shut down; libssh2 is non-blocking | `EAGAIN` anywhere, partial writes, slow or split answers, disconnects | the request arrives unharmed; bounded waiting; resources released in order |
| MySQL clients, `mysql/*` | connection, result set, row and field counts | connect, five statements with a check after each, close | failure of one statement of several; state left on the server; two runs at once | connection closed on each path; success only if each statement did what was asked |
| Header tools, `measure-headers/cch`, `mkpch`, `depstats` | list of headers seen, recursion stack, pipe to the compiler | `Exec` runs the compiler and captures its output; `CompileRecursive` walks the include graph; parsers of `-H` output and of `.d` files | cyclic include graphs, failing compiles, a pipe that fills | every header once, termination, all output captured |
| PAM loop, `pam_auth.c`, `os/hp/pam_auth.c` | handle, conversation data, loop counter | `authorize` in a loop; conversation callback called by PAM | allocation failures inside the callback, counts of 0 | every handle ended once, results reported |
| Process listers, `os/aix/getprocs64.cpp`, `os/hp/procpathname.cpp`, `os/hp/pstat_test2.c` | index, burst, position in the burst | read the kernel's table in bursts of 10 | the table changes between two reads | complete, without duplicates, ends |
| Load generators, `process_gen.sh`, `process_gen2.sh`, `os/hp/process_gen.sh` | marker file, worker processes, clocks | a script writes a file that is program and marker in one, starts it in the background, polls, waits | the file removed at any time, a worker asleep just then, a script that dies before its workers | none is left when the script ends; removing the file ends them all |
| AIX device listers, `os/aix/physdisk.cpp`, `os/aix/odm_showprocs.cpp` | offset in a record, value buffer, answer of the ODM | initialize, a walk over tags, lengths and values, a `do` loop over devices, terminate | one buffer for all values, padding, damaged records, errors in the loop | each item and each device once, cut where it ends; an end |
| Two-call sizing, `os/windows/getadaptersinfo`, `os/aix/netcounters.cpp`, `os/aix/perfstat_network.cpp`, `os/aix/bind_test.c` | buffer and its size | ask for the size, allocate, ask again, print | interfaces come and go between the calls, either call fails | never more than was allocated; what is printed was written; a whole listing or a failure |
| Installer, `elins.vbs` | files, service | a script under `On Error Resume Next` | each step may fail and the next still runs | |
| Compiler wrappers (`measure-headers/scripts`), shell scripts (`github/omi-fetch.sh`, `provtest.sh`, `load.sh`, `azlinux/*`) | none | commands in a row | | |
| Child makers (`makezombie.cpp`, `makesleepychild.cpp`, `sleeper.c`), printers of system information (`os/*`), language experiments (`exception_test.cpp`, `regex_test.cpp`, ...) | none | one system call or one feature each | | |
| Small programs: `escape.cpp`, `quote_*.cpp`, `slash.cpp`, `gethostbyname.cpp`, `azlinux/cpuload.c`, `omiclient` | little | string conversions, a loop | boundaries | |

## Plan and layout

The parts share no state, so that each component is a module of its own.  The order is that of
how hard their interleavings are to test: signals and processes first, then the tables and
graphs that change or loop, then the clients of a service, then the parsers.

| Module | Models | Uses | Run with | Proofs |
|---|---|---|---|---|
| `FdTable` | descriptors: lowest-free rule, `pipe`, `dup2`, `close` (external) | | | |
| `Daemonize` | `Process_Daemonize`, three processes | extends `FdTable` | `MCBackground` | `Background_proofs` |
| `SignalDaemon` | the daemon's handler and `main()`, the senders, the kernel's queues | | `MCSignalDaemon` | `SignalDaemon_proofs` |
| `SshFork` | `do_cmd`, its two processes and two handlers | extends `FdTable` | `SshFork.cfg` | `SshFork_proofs` |
| `ProcScan` | abstract specification of a listing | | through `ProcLister`, `SizedQuery` | |
| `ProcLister` | the two listers in bursts | implements `ProcScan` (`ScanSpec`) | `MCTables` | `Tables_proofs` |
| `HeaderWalk` | `CompileRecursive` | | `MCHeaderWalk` | `HeaderWalk_proofs` |
| `Includes` | `Exec`, `FindIncludes`, the loops of `mkpch` | justifies an assumption of `HeaderWalk` | `MCIncludes` | `Includes_proofs` |
| `SshRequest` | both libssh2 clients and a server | | `MCClients`, `SshRequest_ReadError.cfg` | `Clients_proofs` |
| `MySqlQuery` | all three MySQL clients and a server | | `MCClients` | `Clients_proofs` |
| `PamAuth` | both PAM programs and the callback | | `MCClients` | `Clients_proofs` |
| `Cursor` | how a pointer looks for the next of some characters | | | |
| `DepStats` | both parsers of `depstats` and the counting | extends `Cursor` | `MCReaders`, `MCDepStats` | `Readers_proofs` |
| `ProcessGen` | the load generators, their workers and time | | `MCBackground` | `Background_proofs` |
| `SizedQuery` | five programs that size and fetch a table | implements `ProcScan` (`SnapshotListed`) | `MCTables` | `Tables_proofs` |
| `Vpd` | the AIX device listers | extends `Cursor` | `MCReaders` | `Readers_proofs` |
| `Background`, `Tables`, `Readers`, `Clients` | two or three components beside each other | `Daemonize`, `ProcessGen`; `ProcLister`, `SizedQuery`; `DepStats`, `Vpd`; `SshRequest`, `MySqlQuery`, `PamAuth` | `MCBackground`, `MCTables`, `MCReaders`, `MCClients` | `Background_proofs`, `Tables_proofs`, `Readers_proofs`, `Clients_proofs` |

`Background`, `Tables`, `Readers` and `Clients` each hold components that face the same environment:
processes left in the background, a table that changes, data that others wrote, a service that fails.  The
first is extended, the others are instances (`Gen`, `Sized`, `Odm`, `Sql`, `Pam`) with variables of their own,
and the theorems are about each by itself: `Gen!Spec => []JobsGone`.  In each behaviour of their MC modules one
of the components runs and the others rest, so that one run asks the same question of all; nothing else is
composed there.  Conditions such as `serves = "sshd"` say which runs, and a specification's fairness is that of
the component that runs.

Where two components meet:

- The sender and the daemon are one state machine in `SignalDaemon`; what they share is the
  kernel's queue.  `Daemonize` ends where `SignalDaemon` begins: its last state, `serving`, is
  the return of 0 on which `main()` goes on, and `SignalDaemon` mentions no descriptor.
- `HeaderWalk` assumes of its graphs that no list names a header twice (`GraphsAssumption`).
  `Includes!FirstLevelFound` shows that `FindIncludes` returns such lists, and
  `Includes_proofs!Correctness` proves it.
- `Daemonize` and `SshFork` rest on the same `FdTable`.
- `ProcLister` and `SizedQuery` implement the same `ProcScan`: one reads a table in pieces, the
  other in one call that may come too late for the size it was given.

Actions that begin with another name and are marked "Mutant of ..." in a comment belong to no
specification: each is the operation with a plausible mistake in it, and a property must notice
when it takes the operation's place.

## How the modules correspond to the code

**Daemonize** (`signals/signalh.cpp:23-72`, `:106-122`).  One `pc`, session and descriptor
table per process.  `Fork1`, `Setsid`, `Fork2`, `CloseAll`, `OpenAll` are the calls in their
order; a fork may fail.  `setsid()` cannot fail in a freshly forked child, and the program may be
started with any set of descriptors.

**SignalDaemon** (`signals/signalh.cpp:74-177`, `signals/signal.cpp`; `os/sun/` has the same
code with other output).  `main()` is seven actions (`Install` ... `Pause`), and moves only while no
handler activation is on top of it.  The handler is cut where another activation could come
between: the test, the load and the store of `sigCnt++`, the sleep.  The kernel keeps standard
signals as a set and real-time signals as queues of at most `MaxQueued`; `HandlerMask` is what
`sigaction()` with an empty `sa_mask` masks.  A sender's `SendFails` is the `return 2`.

**SshFork** (`ssh/ssh-fork.c:11-118`).  Every system call of `do_cmd` is an action, in the
parent and in the child; `fork()` and the assignment to `do_cmd_pid` are two.  Handlers nest
(`frames`), with their own signal masked as `signal()` does.  `HandlerKill`, `HandlerWait`,
`HandlerFinish` are the test of `do_cmd_pid` and `kill()`, `waitpid()`, and
`_exit(1)` or `kill(getpid(), SIGSTOP)`.  The environment sends a signal to the parent or
to the whole job, and resumes a stopped job as a shell does.  `Stranded` is a parent that stays in its
`waitpid()` until ssh ends by itself or somebody outside resumes it.

**ProcLister** (`os/aix/getprocs64.cpp`, `os/hp/procpathname.cpp`, `os/hp/pstat_test2.c`).
`NextInBurst` and `NextReads` are the two branches of `nextProc()`, `Body` the loop of
`main()`.  `Birth` and `Death` change the table between any two steps; a read takes place at one
moment, and a process id is not used again during a scan.  What the kernel's call returns (`IsBurst`): the processes from an index on, in the
order of their slots, as many as fit.

**HeaderWalk** (`measure-headers/cch/main.cpp:307-405`).  The activations of the
recursion are `frames`; the program's `_stack`, which is never popped, is `stack`.
Whether a header compiles is chosen when it is compiled first, whether a file can be listed when it
is listed.

**Includes** (`cch/main.cpp:23-225`, `mkpch/main.cpp:44-128`).  `Exec` with both
processes and the pipe between them; then the parser, line by line, and the selection of the topmost
wanted headers.  `cch` wants all, `mkpch` those that match its arguments: `wanted`.  A line
is its number of dots and its path.

**SshRequest** (`ssh/ssh-sample-exec.c`, `ssh/ssh-sample.c`).  `SetUp` is the sequence
of the calls up to the channel, with `SetUpFails` for the exit each has.  A call that returns
`EAGAIN` and is repeated changes nothing and is a stuttering step; a read that returns it counts.
The server answers in pieces, late or never, and may close at any time.

**MySqlQuery** (`mysql/*`).  `testMySqlRealQuery` is the five statements of `Script`, with
`ExecuteQuery`'s loop over the results and `main()`'s check after each; `testMySqlAPI` is one statement
and `ApiStore`; `testMySqlPrepare` is a sequence of calls with one exit for all errors.  The
server knows of one thing, whether the procedure exists.

**PamAuth** (`pam_auth.c:178-347`, `os/hp/pam_auth.c:173-278`).  `main()` calls `authorize()`
in its loop; PAM may call `pwd_conv()` back any number of times before it decides.  `pam_auth.c`
writes to `resp[i]->resp`, which is its own array for `i = 0` only: `Answer`, `AnswerStray` and
`AnswerCrashes` are what that does.

**DepStats** (`measure-headers/depstats/main.cpp`).  `GetNextLine` and `CountLine` are the
two parsers, over texts of names and of the marks they look for.  The program's `p` is a position in the text,
and a line the set of the positions it is made of; `Colon` is where the target ends, and `Given` what follows
it.  A word may be in pieces, as continuations do not end it (`Spells`).  Reading a file, sorting and printing have no state that anything else looks at.

**ProcessGen** (`process_gen.sh:9-51`, `process_gen2.sh`, `os/hp/process_gen.sh`).  A script is a
record of what the three differ in: the lines it writes, and the lengths of the worker's sleep, the
script's polling and its last wait.  `Count` ... `Leave` are its commands; `Open` and `Test` are a
worker's.  Nobody signals anybody: that the last wait suffices is a matter of time, so each process
has a `timer` and `Tick` moves all of them.  A process whose sleep is over runs at once or up to
`MaxLate` ticks later.  `Remove` (the user) and `Die` (the script is interrupted) may come anywhere.

**SizedQuery** (`os/windows/getadaptersinfo`, `os/aix/netcounters.cpp`, `perfstat_network.cpp`,
`bind_test.c:78-118`).  `Ask`, `Allocate`, `Fetch`, `PrintEntry` are the steps all five share, with what
each does with a failure: the long Windows version retains its first buffer, `netcounters` goes on
with -1, the others exit.  `Appear` and `Vanish` come between any two.  A table has a size in bytes on
Windows, where an adapter with a second address takes more than an entry, and in entries on AIX.
An interface that has vanished does not come back.

**Vpd** (`os/aix/physdisk.cpp`, `odm_showprocs.cpp`).  `DecodeItem` is one round of
`decodeVPD()`, on bytes, with the assertion and the one buffer that every value is copied to.  A record is
its bytes together with its items and where they begin; `Formed` says after the comment at
`physdisk.cpp:25-49` how they belong together, and the action looks at the bytes only.  The calls of the ODM
are actions that may fail.  `GetNext` is the body of the `do` loop of `odm_showprocs.cpp:115`, which
prints an error and asks again.  Records of bytes that no machine writes are left out, except those in which
something without a usable length follows the items.

## Abstract specifications

`ProcScan` says what a listing promises whatever the table does: nothing twice, nothing that
never existed, nothing left out that lived through the scan.  `ProcLister` implements it under
a mapping that forgets the index, the burst and the slots, and keeps what was listed (`ScanSpec`;
checked and proved).  `SizedQuery` implements it too (`SnapshotListed`), under a mapping in which a call
that fails, or that was cut short for want of room, is a scan that failed.  For the pure parts the reference definition stands beside the
property: `Topmost` in `Includes` says of a text, without indices or loops, which headers are
first-level; `Closed` in `HeaderWalk` says what is reachable without a walk; `Expected` in `DepStats`
counts the places where the lines of a file name something, without a parser's pointer; `AllPrinted` in `Vpd` compares with
the record's items, not with its bytes.

## Runs

| Run | Instance | Shows |
|---|---|---|
| `background` | 5 descriptors, every set of them open at the start; two generators, counts that leave 0 to 2 workers to start, each up to one tick late | `StdioTied`, `DaemonServes`, `JobsGone`, `WorkersEnd` |
| `signal_daemon` | two senders, five kinds of jobs, a queue of two | `CountExact`, `ExitZeroMeansAllSent`, `DiesOnlyByUser`, `SignalsHandled`, `NextSignalStops` |
| `stop_ends` | two senders of stops or others | violates `StopEnds`: see Findings |
| `ssh_fork` | 7 descriptors, 0 and 1 open or not, two signals | `ChildWired`, `ParentWired`, `NoOrphan`, `StopsTogether`, `HandlersEnd` |
| `tables` | 4 slots, 4 processes, bursts of 2, both platforms; 3 interfaces and the loopback one, two with two addresses, 5 programs | `NoDuplicate`, `ListingEnds`, `ScanSpec`; `RoomIsReal`, `EntriesWritten`, `SnapshotListed` |
| `clients` | both SSH clients, a request of 3, an answer of 3, 5 reads into a buffer of 3, the NUL included; two runs of any of the three database clients, with or without a procedure left behind; both PAM programs, up to 3 rounds, up to 3 messages at once | `RequestIntact`, `CallsValid`, `AnswerPrinted`, `RequestEnds`; `InSync`, `FailsOnlyIfDisturbed`; `HandlesEnded`, `RoundsCounted`, `PromptsAnswered`; `TypesOK` |
| `ssh_read_error` | the same SSH clients, smaller | violates `ReadErrorShutsDown`: see Findings |
| `header_walk` | every graph over 3 files and a system header, up to 2 includes each | `OnlyReachable`, `AllReachable`, `CompiledOnce`, `WalkEnds` |
| `includes` | every text of up to 4 lines, 3 levels and 2 paths, a pipe of 2 lines | `FirstLevelFound`, `CompileEnds` |
| `readers` | every file of up to 3 of 13 kinds of lines, or two of one line; every record of up to 3 of 5 items, damaged or not, and up to 2 devices | `AnswerRight`, `AllPrinted`, `OdmEnds`; `TypesOK` |
| `dep_stats_comments` | the same | violates `CommentsSkipped`: see Findings |

`TypesOK` is checked where it is not idle: a pointer that leaves its text, or a counter that goes too far,
violates it.  The types of every module are a theorem.

### Bounds, and why they are enough

- `MaxFd = 4` and `6`: the programs use three and six descriptors; one more is left for `pipe()` to
  go wrong with, and an inherited 0 or 1 makes it fail.  The proofs hold for every `MaxFd`.
- `Jobs` with at most two signals each, `MaxQueued = 2`: four signals against two places let a
  batch stop in the middle; two activations suffice to lose an increment.  Proved for all.
- `MaxSignals = 2`, and two of the three stop signals, which `do_cmd` treats alike: two activations of
  `suspchild`, or one and a `killchild`, nest in either order.  With one stop signal alone two of the four ways
  into `Stranded` would not occur; each of the four does in the run, as it fails without any one of them.
  The bound is not used by the proofs.
- `LastSlot = 3`, `Burst = 2`: a full burst, a partial one and an empty one, and a slot that is reused
  behind the index.
- Three files of our own: a cycle of one, of two and of three, a diamond, and a header that a
  branch skips since another has it.
- Four lines: a level that rises, falls back and rises again, with a line that is no include in
  between; two lines in the pipe make the compiler wait.
- `MaxReads = 5` is the code's own; request and answer have a first, a middle and a last piece.
  `WBuffer = 3` for the 1024 bytes of `wbuffer`: the answer fits in when the client reads before all of it has
  arrived, and overruns it afterwards.
- `UserRows = {0, 1}`: the checks tell none from some.
- `IntMax = 3` for 2147483647, `Default = 2` for 5000, `Rounds = 2` for 5: only which of them the
  loop is bounded by matters.  Proved for all.
- Three lines: a comment or a blank line before, between and after rules; a line continued between blanks, and
  one continued inside a name and behind a colon, where two pieces make one word.  `Words` are the words whose
  counts are looked at.
- `Target = 6` with 1, 2, 3 or 6 processes there: a script that starts none, one or two workers, or is
  refused.  Two generators: `process_gen.sh` in seconds (sleep 1, wait 4), and `process_gen2.sh` in
  units of 5 seconds (150 and 160).  `MaxLate = 1`: one of those units.  The proof wants only that sleep
  and delay together are less than the wait (`TimeEnough`): `process_gen.sh` tolerates a delay of less than
  3 seconds, `process_gen2.sh` of less than 10.
- Three interfaces: one that stays, one that appears and one that vanishes; two of them with second addresses
  and `EntrySize = 2`, so that both second addresses together have the size of an entry.
- Three items: an empty one, an even and an odd one, one with a NUL in it; each order of a long one and
  shorter ones.  `Size = 28` holds the longest record and the NUL behind it.

### Fairness

Liveness is checked under weak fairness of what a scheduler or a kernel guarantees: a process
that can run runs, a deliverable signal is delivered, a handler goes on.  No fairness is given to the
environment: senders may stop (`SignalDaemon` gives fairness to their code, not to their being
started), nobody need resume a stopped job, ssh need not end, a server need not answer, processes
may be created for ever.  `SshRequest` assumes that a blocking repetition on `EAGAIN` ends, with
success or an error; the read loop does not need that.  `ProcessGen` is fair to time, to the script and to
each worker, not to the user who removes the file.  `Daemonize` is fair to its calls, and a fork may always
fail.  `Vpd` is fair to the program's calls only: what the ODM answers is not restricted, and `OdmEnds` says that the
program ends, or else the ODM answers errors for ever and the `do` loop asks for ever.  `Includes` assumes that the compiler ends.  The modules
without liveness properties have no fair specification.

## Findings

- **A stop can be lost** (`StopEnds`, `signals/signalh.cpp:175`).  `allDone` is tested and
  `pause()` is called with SIGRTMIN deliverable in between.  A stop that arrives there is
  handled, and the daemon sleeps on; `NextSignalStops` shows that one more signal ends it.
- **A failed read does not shut down** (`ReadErrorShutsDown`, `ssh/ssh-sample-exec.c:290`).  The branch
  `len < 0` ends in `goto shutdown`, but `len` is a `size_t`: it is never taken, and `memcpy()` is given
  the error as a length.
- **Only one comment is skipped** (`CommentsSkipped`, `depstats/main.cpp:67`).  The test for `#` is an
  `if`: the second of two comments is parsed as a rule, and counted, or it ends the program.
  `AnswerRight` holds for files whose comments stand apart.

Noticed, and without a run, as no behaviour depends on it or nothing in the repository
states the contrary as a promise:

- `signalh.cpp:49` speaks of closing all descriptors; 0, 1 and 2 are closed.
- `signalh.cpp:127` says that other signals are masked in the handler; `sa_mask` is emptied.
  What matters is that SIGRTMIN is (`CountExact`).
- `testMySqlRealQuery.cpp:89` counts rows that `mysql_num_rows()` has counted; the checks
  compare with 0 and 1 only.
- `testMySqlRealQuery.cpp:119` prints an error of `mysql_next_result()` and goes on.
- `getadaptersinfo.cpp:173` rounds its vector down to whole entries and passes on the size it was told; the
  system may fill that, so that an adapter's second address lies behind the vector.  `RoomIsReal`
  excepts this case by name.
- `getadaptersinfo.cpp:176` prints every entry of the vector, also those that nobody wrote: of interfaces that
  have vanished since, and, as the size asked for has all second addresses in it, one for each entry's size of
  those, even when nothing changes.  `EntriesWritten` says that there are no others.
- `getadaptersinfo.cpp:173`, `netcounters.cpp:35`, `perfstat_network.cpp:20` and `bind_test.c:102` do not check
  their allocations: `AllocateFails` says what becomes of that.
- `ssh-sample-exec.c:294` and `ssh-sample.c:267` copy what a read returned, up to 16384 bytes, and a NUL into
  `wbuffer[1024]`.  An answer of more than 1023 bytes at once overruns it (`ReadOverflows`: any part of it is
  printed, and the client crashes or goes on), which `AnswerPrinted` excepts by name.
- `ssh-sample.c:155-166` use the fingerprint and the list of authentication methods without a test for NULL: a
  client whose server refuses that call crashes (`SetUpFails`).
- `odm_showprocs.cpp:115-127` goes on after an error of `odm_get_next()`, so that an error that persists is asked
  for and printed for ever (`OdmEnds`).
- `ssh-fork.c:24` and `:39`: a handler may be left in `waitpid()` in the four ways that `StrandedOnlyBy` names.
  A stop that the child takes before it is ssh goes to the `suspchild` it inherited, which does nothing there,
  and the parent waits for a stop that never comes while ssh runs.  When a second stop signal interrupts
  `suspchild`, the inner activation stops the parent, and resuming the job discards the signal the outer one had
  sent; or both wait for one stop.  `killchild` waits for a suspended ssh, which does not see the signal.
- `ssh-fork.c:84-116`: SIGTERM, SIGINT or SIGHUP between `fork()` and the `signal()` for it ends the parent and
  leaves ssh running.  `NoOrphan` speaks of the time after that only.
- `depstats/main.cpp:37-40` takes an error of `fread()` for the end of the file, and counts the part it has read.
  `DepStats` counts that part as the file: `Texts` are the texts as they were read.
- `netcounters.cpp:35` allocates -1 entries when its first call fails; the second call fails as well then.
- `depstats/main.cpp:66-87` goes on behind a comment that ends in a continuation with the continued text as
  if it were a rule, and takes blanks behind a continued blank line for one, which ends the program.
  `AnswerRight` leaves such files out (`Plain`).
- `pam_auth.c:313` promises infinitely many rounds for 0 and makes 2147483647.
- `pam_auth.c:239` reaches only the first reply; `PromptsAnswered` excepts the others by name.

## Proofs

All theorems are checked by TLAPS from the modules' named assumptions on constants alone, for every
value of the constants.

| Theorems | Say | Argument |
|---|---|---|
| `Background_proofs`: `TypeCorrect`, `StdioIsTied`, `DaemonIsDetached` | types; standard streams on `/dev/null`; the daemon leads no session | `StdioInv` says for each step which of 0, 1, 2 are free and which are open; with it the lowest-free rule leaves `open()` no choice |
| `SignalDaemon_proofs`: `TypeCorrect`, `NoReentry`, `CounterExact`, `OnlyUserKills`, `HoldPhaseQuiet`, `BatchesComplete` | one activation; exact counts; masks; whole batches | `CountExact` speaks of moments without a handler only and is not inductive: `CountInv` says for each point in the handler how much of the last signal has reached `sigCnt`; `QueueInv` ties the queue to `posted`; `FrameInv` and `MaskInv` give the one activation; `SentInv` says of a sender still running where in `posted` the part of its batch is that it has sent |
| `SshFork_proofs`: `TypeCorrect`, `ChildIsWired`, `ParentIsWired` | types; the pipes | for each end, the exact set of descriptors it is open on at each step; the reserved pipe keeps the others above 1 |
| `SshFork_proofs`: `ParentStopsWithChild`, `ChildIsCollected` | stop and die together, for any number of signals and nested handlers | an activation behind its `waitpid()` knows that the child is dead, or stopped and cannot run before the parent is resumed |
| `SshFork_proofs`: `KillIsSent` | `killchild` waits only for an ssh that is dead or has its signal on the way | no other step takes a kill signal from ssh, and `PidIsChild`: `do_cmd_pid` is set only when there is a child |
| `SshFork_proofs`: `StrandedOnly` | a handler is left in `waitpid()` in four ways only | `ReportHeld`: while the parent runs, a stop that has been collected belongs to an activation that is about to stop the parent; `WaitHasPid`: none waits before `do_cmd_pid` is set; `HandlerMoves` says what the four steps do to the stack |
| `Tables_proofs`: `TypeCorrect`, `Completeness`, `Uniqueness`, `CountIsExact`, `ImplementsScan` | the listing, and the refinement of `ProcScan` | what is below the index is listed or in the burst, or was not there from the start; slots of what was listed lie below what comes |
| `Tables_proofs`: `RoomSuffices`, `NothingBlank`, `ImplementsSnapshot` | the second call stays within its buffer; what is printed was written; the refinement of `ProcScan` | the room is what was told or, for whole entries, less than one below it (`RoomInv`); what was told is at most what the interfaces seen so far and their second addresses need (`SnapshotInv`), so that entries nobody wrote belong to interfaces that vanished or are made of second addresses (`BlankInv`) |
| `Clients_proofs`: `RequestArrives`, `CallsAreValid`, `AllIsPrinted` | the request; the answer; the calls on channel, session and socket | `Holds`: for each call what the client has then; `Progress`: what was received is the positions up to `wr`, and so many more continue them; until the client reads, all that the server sent waits in the channel, in order (`AllInInbox`) |
| `Clients_proofs`: `NeverOutOfSync`, `OnlyDisturbedFail` | unread results; runs that disturb each other | neither is inductive: `Unread` says at each step whether there are results, `Undisturbed` what a run to which nothing has happened is about to read (`Coming`), has read, and expects of the procedure (`Procedure`); a step of another run changes only the last, and then `clash` says so (`OtherRunStep`) |
| `Clients_proofs`: `TypesCorrect` | the types of all three | with the others of the three |
| `HeaderWalk_proofs`: `TypeCorrect`, `Soundness`, `Completeness`, `OnceEach` | the walk on every graph | the activations are a path; what an index has passed is settled; each file was entered from an earlier one; `Counts` bounds the compilations of a broken header by the files that are past it |
| `HeaderWalk_proofs`: `RecursionIsBounded`, `WalkComesNearer` | the recursion is never deeper than there are files; each step decreases a measure | the files of the activations differ, so that they are an injection into `Files`; the measure is lexicographic: files not entered, activations, entries left in the list, the step before the loop |
| `Includes_proofs`: `TypeCorrect`, `Correctness` | the first-level includes of every text | between rounds no wanted entry before the index is still open there |
| `Includes_proofs`: `NobodyWaitsForEver`, `StepsAreCounted` | the tool and the compiler never both wait; each step decreases a natural number | `Writers`: only a running compiler, and a parent about to close it, hold the pipe's writing end |
| `Readers_proofs`: `CountsAreThoseOfTheRules` | `depstats` prints exactly when it understands all files, and the counts are those of the rules | `AnswerRight` speaks of the end only: `LinesRead` says that between two lines `p` is at a boundary of the text and all lines before it were understood; `CountsRead` that the counts are the number of places before `p` that name something.  `To` and `Past` are least elements, and a sum of counts is the cardinality of a union of disjoint sets of places |
| `Readers_proofs`: `ReaderComesNearer` | each step closes a file, ends the program or moves `p` on, whatever the text | `LineIsPassed`: a line that is read lies behind `p` then |
| `Readers_proofs`: `AllArePrinted` | all items of a record are printed, in order | `Decoding`: between rounds `p` is where the next item begins; a value is cut by the NUL behind it, whatever the buffer held.  `Listing`: the devices printed are those given but the one in hand |
| `Readers_proofs`: `TypesCorrect` | the types of both, the pointers stay in their texts | with the two above |
| `Clients_proofs`: `PamTypeCorrect`, `NoHandleStays`, `CountsAreRight`, `PromptsGetPassword` | the loop and the conversation | `Tally`: in a round the counters lag by `res`; `Replies`: the replies so far match the messages |
| `Background_proofs`: `GenTypeCorrect`, `JobsAreGone` | no worker is left when the script ends | a running worker's timer is at most its sleep and a delay; when the script begins its last wait it is ahead of each worker by what `TimeEnough` says, and `Tick` keeps the distance |

The assumptions are the types and sizes of the constants (`MaxFd >= 2`, bursts of one process or more, ...);
`HeaderWalk` assumes more of its data: `IsFiniteSet(Files)` and `GraphsAssumption`.  `GeneratorsAssumption` asks
that the scripts are `Sensible` and leave their workers `TimeEnough`.  `InterfacesAssumption` asks that the
loopback interface is one of them, that there are finitely many and that an entry has a size; any of them may
have a second address.  `ClientsAssumption` names the three programs,
and `PamAssumption` the sizes of the PAM loop.  `TextsAssumption` asks that no name is a mark and that the words are made
of names, `#` and `:`, and `RecordsAssumption` that each record is `Formed`.

Only model-checked are the liveness properties (`SignalsHandled`, `NextSignalStops`, `HandlersEnd`,
`ListingEnds`, `RequestEnds`, `WalkEnds`, `CompileEnds`, `DaemonServes`, `WorkersEnd`, `OdmEnds`): they rest on
fairness and so on `ENABLED`, which the provers at hand cannot treat.  Of some of them the part that is about
states and steps is proved.  For `WalkEnds`, `CompileEnds` and for `depstats` it is a measure that every step
decreases, so that the program takes only a finite number of steps; for `CompileEnds` also that somebody can
take one until the end (`NoDeadlock` spells out the guards); for `HandlersEnd`, its
second part, `StrandedOnlyBy`, and that what `killchild` waits for is on its way.  What is left to TLC is the step from there to the temporal formula.

## Not modelled

- The installer (`elins.vbs`): a linear script of remote commands; what a step does is not in the repository.
- `initialize()` of `pam_auth.c`, which loads libpam at run time: compiled out (`NO_DLLOAD`).
- Compiler wrappers, shell scripts, child makers, printers of system information, language experiments: one
  command, call or feature each, without state that a later step looks at.
- Small programs: pure string functions, a loop or one library call; `cloc-1.62.pl` is third-party.
- The arguments `process_gen2.sh` gives its workers, and the `bind()` half of `bind_test.c`.
- In the modelled parts: what is printed, times measured by `cch`, sorting, and the reuse of a process id
  (`ssh-fork.c:23` may signal a stranger after `suspchild` has collected a dead child).

## Next

1. A generator that is started again while workers of an earlier one still run.
2. A composition of `Includes` with `HeaderWalk`: a walk whose lists come from `FindIncludes`, with a
   compiler killed half-way.
3. Measures like those of `HeaderWalk` and `Includes` for the listers and the generators.
