# A TLA+ model of FDT, the FUSE Diagnostic Tool

FDT runs a FUSE file system under a modified libfuse and shows, tests or
single-steps the operations that the kernel asks of it.  This directory holds
TLA+ specifications of its concurrent and stateful parts, TLC configurations
that check them on small instances, and theorems that TLAPS proves for every
instance.  `PROJECT.json` lists the components, the runs, the source lines of
each definition, the hazards, the findings and the theorems.

## The system

Two processes run while a tool is active.

* **FDT** (`fdt.c` and one file per tool) has a GTK thread, which serves the
  buttons, an idle callback and the signal handlers, and one reader thread for
  the running tool.
* **The file system** is the user's FUSE binary, forked and executed with a
  libfuse in which every user-defined operation is wrapped
  (`libfuse/lib/fuse.c`).  For the debugger it mounts and serves requests with
  several worker threads; for the wizard and the test suite it runs tests
  instead of mounting (`libfuse/lib/helper.c`) and ends.  The library itself
  keeps a table of nodes and locks paths between the kernel's requests and the
  user's operations.

The console logger (`fdt --logger`) is FDT without GTK: one thread that reads
events and keys.

They share a FIFO of JSON events (file system to reader thread), a named
semaphore on which wrapped operations wait (debugger and logger), two areas of
anonymous shared memory (`fs_mounted` and `shared_error`), and signals (SIGINT
and SIGKILL from FDT, SIGCHLD to it).

### Inventory

| Part | Source | State and actors | Module |
| --- | --- | --- | --- |
| Debugger | `debugger.c`, wrappers in `libfuse/lib/fuse.c`, `fuse_loop_mt.c`, `fuse_signals.c` | worker threads, reader, GUI; counter, semaphore, queue, button | `Debugger` |
| Event reader | the same loop in `debugger.c`, `wizard.c`, `testsuite.c` | bytes in the FIFO, chunk buffer, brace and quote state | `ChunkReader`, `EventStream`, `EventText` |
| Launcher | `fdt.c`, start and stop functions of the tools | fork, `fuse_pid`, `fs_mounted`, `shared_error`, FIFO names, readers, SIGCHLD | `Launcher` |
| Wizard tests | `wizard_tests.c` (copied under `osxfuse/`) | test order, guards, skipping, reports | `WizardTests` |
| Wizard view | `wizard.c`, buttons in `fdt.c` | reader, event list, rows, notification, Skip, Run again | `Wizard` |
| Test suite runner | `testsuite_run.c` (copied under `osxfuse/`) | groups and sequences, two file handle tables, comparison | `Testsuite` |
| Test suite view | `testsuite.c` | event list, tree of results, iterators | `Testsuite` |
| Logger | `logger.c` | one thread, keys, capture, tokens, two signal handlers | `Logger` |
| libfuse's node table and path locks | `libfuse/lib/fuse.c` | worker threads, nodes, read and write locks, wait queue, hidden files | `NodeTree`, `NodeTable`, `PathLocks`, `FuseLib` |
| Widgets and dialogs, conversions of parameters to JSON, `cJSON.c`, `siggen.py`, the rest of libfuse and osxfuse | | see *Not modelled* | |

## Debugger

`Debugger` models one debugging session after another.

| Model | Code |
| --- | --- |
| `next_seqnum`, `report_fs_call`, `sem_wait`, `report_fs_call_return` | a wrapped operation: number, invoke event, wait, run, return event |
| `Unmount`, `JoinWorkers`, `ExitProcess`, `Crash` | how the FUSE loop and the process end, with the destroy call of the main thread |
| `ReadEvent`, `StoreIncrement`, `TestMode`, `Enqueue`, `Detach` | `doStartDebugger` and `handleDebuggerEvent` |
| `AdvanceCheck`, `AdvancePost`, `LoadCounter`, `StoreDecrement` | `advance` and `advancePending`, run by both the reader and the GUI thread |
| `BeginDrain`, `ShowEvent` | `gui_idle_debugger`, which holds the queue's lock while it drains |
| `advance_btn_handler`, `autoadvance_btn_handler`, `updateAdvanceButtonState`, `stopDebugger`, `KillFs`, `startDebugger` | the buttons |

`pendingInvocations++` and `--` are a load and a store, and no lock keeps the
reader's and the GUI thread's apart: they are a data race, and every run lets
them interleave.  The history variable `overlapped` remembers that one update
began while another was between its load and its store, so that what is lost
with the race is told apart from what is not.  `Hung` is where the system may
stop after that: a call waits for a token that nobody posts.  An event is
reduced to its type and its thread.  Memory is sequentially consistent: `closing` and
`pendingInvocations` are a store-buffering pair, and weaker memory could add
behaviours.  A restart waits for the previous reader thread; the overlap of two
sessions is the subject of `Launcher`.

| Run | Question | Result |
| --- | --- | --- |
| `debugger_step` | a user who only steps: is a token always for a waiting call (`NoSpareToken`), can a paused call be advanced (`PausedCallCanBeAdvanced`), is it resumed if the user keeps clicking (`EveryCallIsResumed`), does Stop end the process and the reader (`StopEndsSession`)? | holds, up to the first overlap of two updates |
| `debugger_auto` | Auto-advance toggled at any time, crashes, unmounts, two sessions: do waiting calls, events, counter and semaphore balance (`EveryWaitAccountedFor`), does Stop release every call (`StopReleasesEveryCall`), does the button follow the counter (`AdvanceButtonFollowsCounter`)? | holds, the first two up to the first overlap of two updates |
| `debugger_restart` | `PausedCallCanBeAdvanced` in a second session | violated: the counter is left at -1 and not reset |

Three limits of these results.

* *The race.*  All but `AdvanceButtonFollowsCounter` have `~overlapped` as a
  premise, and need it.  A click on Advance while the next call's event is being
  counted can lose that increment: the call then waits with an insensitive
  button (`PausedCallCanBeAdvanced`, `EveryCallIsResumed`), and Stop, which posts
  as often as the counter says, leaves it waiting, so that the process does not
  end (`StopReleasesEveryCall`, `StopEndsSession`).  A lost decrement lets a
  click post for a call that was already let through (`NoSpareToken`).  TLC
  finds a counterexample to each of them without the premise.
* *Auto-advance.*  `NoSpareToken` needs a user who only steps: when Auto-advance
  is toggled (`CanToggle = TRUE`) the reader and the GUI thread can both pass
  `canAdvance` for one call and both post.
* *Restarts.*  `StopReleasesEveryCall` is about the first session: a later one
  may inherit a counter that does not match.

Bounds: two workers and two calls, besides the destroy call of the main thread.
The kernel waits for the answer to its first request only, and a file system
need not define `init`, so any two calls may overlap; with two workers two of
them wait at a time, and the queue, the FIFO and the semaphore hold more than one
entry.  The race in `advance` needs one call and two threads; the overlap of
two updates needs two calls; the restart needs two sessions.  In `debugger_auto`
the second session makes no call but the destroy call (`LaterCalls`): what it
adds is the counter and the events that the first one left behind.  Workers are
symmetric, and symmetry is used only without liveness.

Fairness (`Progress`): the scheduler runs every thread that can take a step, and
an operation of the file system returns.  Nothing is assumed of the kernel's
requests, of failures, or of the user.  `EveryCallIsResumed` has its assumption
on the user (`PatientUser`: Advance is clicked if it can be clicked infinitely
often) as a premise.

## Event reader

Nothing separates two events in the FIFO.  `ChunkReader` models the loop that
counts braces outside strings, one character a step, over the characters that
it tells apart, together with the growing buffer and a writer that may die
within a write.  `EventText` gives the texts: an object in an object with one
string, escaped as `cJSON` escapes it.  `EventStream` is the abstract promise:
whole events in order, each eventually delivered, then the end; `ChunkReader`
implements it under `open <- (writer # "closed")`, `ended <- (pc = "done")`.  A
writer that is cut within an event counts as still there: its reader delivers
all whole events before and never a part of one, but it does not end, because
the loop goes on while braces are open (`debugger.c:178`) and spins on the end
of file.

| Run | Question | Result |
| --- | --- | --- |
| `chunk_stream` | does the reader implement `EventStream`, with room for the terminator (`RoomForTerminator`), wherever the writer dies? | holds for strings that do not end in a backslash |
| `chunk_backslash` | is every event delivered (`EveryEventDelivered`)? | violated by a string that ends in a backslash |

Bounds: two events, so that the second one shows whether the first left the
reader in step.  The strings are those that could make it lose its place: a
brace or a quote, alone or after a brace, a quote or a backslash.  The initial
capacity is 1 instead of 1024, so that the buffer grows several times.
Fairness: the reader thread is scheduled; the writer need not go on.  The
logger's loop is different (it reads without blocking, and its test for the end
of file is never reached); it is part of `Logger`.

## Launcher

`Launcher` models starting and stopping: the buttons, `startTool` step by step
around its fork, the child up to its exec and its opening of the log,
`childKilled` with its one-second wait, `terminate`, and for each session the
reader thread and what the FIFO's name refers to.  A session's number stands for
its process id; the wizard also stands for the test suite.  Both signal handlers
run on the GUI thread.  The wizard's own *Skip* and *Run wizard again* call the Start button's handler
(`wizard.c:77` and `wizard.c:257`) and, unlike it, are never made insensitive:
they are shown from the first failed test on, while the file system may still
run.  `StartPressed` has both ways.  What the two buttons do to the tests is in
`Wizard`.

The code relies on some things not happening: delays, and a user who presses
those buttons too early.  `prompt` holds those that do not
happen in a behaviour; it is chosen at the start from `Prompts`, and a property
has those it needs as its premise:

| Name | What does not happen |
| --- | --- |
| `pid` | a signal between fork and the store of its result |
| `child` | the GUI is idle before the child has set `fs_mounted` |
| `tool` | the file system opens its log before the tool has made it |
| `reader` | a reader that has something to do takes longer than a second, or than the user takes to press Start |
| `again` | *Skip* or *Run wizard again* is pressed while Start is insensitive (`PatientUser`) |

| Property | Holds if these do not happen |
| --- | --- |
| `StartMountsOneFileSystem` | `child`, `again` |
| `StartComesBack` | `pid`, `child`, `again` |
| `EventsReachReader`, `NoFalseAlarm` | `child`, `tool`, `reader`, `again` |
| `ExitStopsFileSystems` | `pid`, `child`, `reader`, `again` |
| `CrashIsReported` | all five |

| Run | Result |
| --- | --- |
| `launcher` | all properties hold, for all five assumed away and for only `pid`, `child` and `again`, and with failing forks |
| `launcher_double_start` | `OneFileSystem` is violated without `child`, by the Start button alone |

What the second table names is needed.  With `tool` or `reader` taken out,
`EventsReachReader` fails (the file system opens a regular file or an old FIFO;
a reader that ends late removes the next session's FIFO by name).  With `again`
taken out, every one of the properties fails: a second file system is started
beside the first, `fuse_pid` and `fs_mounted` are those of the second, the two
share the FIFO's name, and nothing is left that refers to the first, which is
neither stopped nor missed.  TLC finds a counterexample for each in a few
seconds; the whole state space without `again` is out of reach of a run.  So the
properties are about sessions that are begun while Start is sensitive, whichever
button begins them, and do not cover a user who presses the wizard's buttons
while its file system runs.
`ExitStopsFileSystems` says that every file system has been sent SIGINT when FDT
exits.  It does not say that it has ended: `terminate` means to send SIGKILL the
second time it is called (`fdt.c:299`), but the first call has set `fuse_pid` to
0 by then, so a file system that does not obey runs on.  After a failed fork
`fuse_pid` is -1 and `terminate` signals that "process"; the model does so too
(`signals`), and no property excludes it.

Bounds: two presses of Start, which is what it takes for sessions to overlap.
Fairness: FDT's threads and handlers run, a forked child reaches its exec, and a
process that is leaving ends; nothing makes the user click, or a process obey
SIGINT.

## Wizard

`WizardTests` is the sequence of checks that the file system's process makes.
Each test function of `wizard_tests.c` is a list of checks in its order; a check
is a record of the outcome it needs, the key it asks `is_skipped` about, the key
it reports a skip under, the operations it calls and the key it reports.  These
keys are not always the same in the code, and the records keep the differences.
The file system is arbitrary: `faults` may leave an operation undefined, make a
check come out wrong, or crash in it.

`Wizard` composes the tests with the reader thread, the two parts of the idle
callback (rows under the lock, then the message outside it), SIGCHLD and the
user, who mends the file system or skips the test it fails, any number of times.

| Property of run `wizard` | Meaning |
| --- | --- |
| `SkippedTestsDoNotFail` | a skipped test does not fail again; six keys that no guard asks about are the exceptions |
| `UndefinedCallsWereSkipped` | the order of the tests keeps an undefined operation from being called, unless its own test was skipped |
| `VerdictIsShown` | after a run the next pass shows a failure, success or a crash, as it was, in whatever order events, SIGCHLD and passes came |
| `RowsTellOfSkips` | when success is shown, each skipped function has a row that says so |

Bounds: one fault, which may be any one of the operations and checks, and a FIFO
that holds one event, so that the writer and the reader alternate in every way
that matters to a pass in between.  Runs and skips are not bounded.  Two things
are assumed: the reader's unlocked replacement of the lists (`wizard.c:316`) does
not fall into the part of a pass that walks them, and the user presses a button
only after the last run has ended (the buttons do not ask; `Launcher` has what
happens otherwise).

## Test suite

`Testsuite` plays recordings to the file system under test and to the
passthrough, and shows the results.  A recorded function is reduced to one of
eleven kinds by what it does to the table of file handles and to the set of
paths; the module's header has the list.  The recording is made up as it is played, from the calls that a kernel
could send next, so a run covers every recording up to the bound.

| Model | Code |
| --- | --- |
| `store_fh`, `increment_open`, `path_to_fh`, `destroy_fh` | the two hash tables from paths to handles |
| `Opened` | `bb_open`, `bb_opendir` and `bb_create` of the passthrough (`bbfs.c`) |
| `make_call`, `run_test_sequence`, `Dies` | a call on both file systems, its comparison, and the entry that is missing |
| `testsuite_init` ... `testsuite_end`, `Killed` | the loops over groups and sequences, the reset, a run cut short |
| `ShowEvent`, `gui_idle_testsuite` | the tree, its filling anew in each run, `group_iter` and `sequence_iter` |

| Property of run `testsuite` | Meaning |
| --- | --- |
| `HandleIsOfItsOpen` | a call on an open file gets the handle that was given out for that very file |
| `TablesAgree` | after a call that both have answered, the tables have the same paths and counts |
| `ConformingPasses` | a file system that does what the passthrough does is not failed, unless the group asks for a function that the passthrough lacks |
| `RowsAreUnderTheirSequence` | no row is put under the sequence of an earlier run that was cut short |
| `PassCoversItsRows` | below PASS there is only PASS |

The first and the third are for `tame` recordings: the table has one entry for a
path, so a second open of a path that is open, a rename of an open file, and the
removal of a path that was never opened mislead it (the last one ends the
process).  `ConformingPasses` also needs that no earlier run was cut short
(`clean`), because that leaves files in `/tmp/fdt-ts-root`, which only a group's
end empties, and that no call of the group was `lacking`: for a function that
`bbfs.c` does not have (`lock`, `utimens`, `write_buf`, `flock`, `fallocate`,
`ioctl` and others) `run_test_sequence` fails the sequence before it has called
the file system under test (`testsuite_run.c:1403`), however good that is.  The
loss is limited to the group: the next one starts from two empty directories
and passes again.  None of these limits is about the model: taking a premise away
gives a counterexample.

Facts of the code that the kinds reflect:

* `releasedir` never calls the operation, in either file system, and answers
  with the -1 that `retval` starts with.  In the recording the directory is
  closed, so that it can be opened again or removed; the handle in the file
  system stays open and its number is not given out again.
* `open`, `opendir` and `create` enter what they find in `fi->fh` into the table
  also when they fail; `create` does not count it.
* A path is not marked as a file or a directory, so the model also lets a file be
  closed by `releasedir` and a directory by `release`.
* An iterator of an earlier filling is refused by the tree and its row is lost.

The reader of the GUI replaces the list of events and clears `displayed` without
the lock (`testsuite.c:139-148`); `testsuite_init` does both in one step, with
the start of the run.  As in the wizard, it is assumed that this does not fall
into the part of a pass that walks the list.

Bounds: two paths, four calls over two runs of one group with up to two
sequences, at most two of the calls in the second run (`LaterCalls`), three files
open at a time, one of which may be a directory that `releasedir` has not closed:
a handle can be released and given out again to the other path, and a run can be
cut short and followed by another.
Deadlock is not checked: when the bounds are used up the test suite is idle.

## Logger

`Logger` is one thread and two signal handlers that interrupt it anywhere, with
the file system's threads as in `Debugger`.  An event may arrive in two pieces,
because the FIFO is read without blocking and a key is served whenever it is
empty, also within an event.  `l_advance` and its counter are several steps,
between which Ctrl-C may run `l_advancePending`.

| Property of run `logger` | Meaning |
| --- | --- |
| `SequencesAreRuns` | a captured sequence has every call from its first to its last, in order, and no call twice |
| `QuitLosesNothing` | when `q` ends the loop no capture is open and the user has been asked about the others |
| `QuitEndsBoth` | after `q` the file system and the logger end: its tokens suffice |
| `EveryCallIsResumed` | no call waits for ever, unless Ctrl-C makes the counter negative |

`q` is served during half an event too; a capture that is started again before
the loop ends can then hold that event's call, but `current_state` is `IDLE`
when the loop is told to end.  `QuitEndsBoth` excepts `CutShort`: when the file
system dies within an event the inner loop waits for the rest, and only a second
Ctrl-C ends it.

Bounds: two workers, two calls and the destroy call, three keys (start, stop,
quit).  As in `Debugger`, any two calls may overlap.  `QuitPosts` is 3 instead of
50, one more than the calls, which is the ratio that `LoggerAssumption` states:
with more waiting calls than tokens the property does not hold.  Fairness: threads run, operations return, and a file
system obeys SIGINT; nothing makes the user press a key.

## File system library

`NodeTree` is the table of nodes and the ways through it; `NodeTable` (changes to
it) and `PathLocks` are the functions of `libfuse/lib/fuse.c` that run under
`f->lock`, as operators on the table; `FuseLib` is the request handlers,
whose sections of the mutex and calls of the file system are separate steps of a
worker thread.  The file system under test is a set of directory entries, in
which an operation succeeds only where it can; each node remembers the object
that its name led to when it was made, which is what the kernel means by it.

| Property of run `fuse_lib` | Meaning |
| --- | --- |
| `ReferencesAreCounted` | a node's references are its lookups and its children; names are unique in a directory |
| `NodesInUseStay` | a node that a handler will look up again has not been deleted; `forget` and `release` never take too much |
| `LocksAreAccountedFor` | a lock count is the number of locked paths through the node, with or without a writer's mark, or it is one writer's |
| `PathLeadsToItsObject` | when the file system is called, the path still leads to what the kernel meant |
| `WaitersWillBeWoken` | a waiting request is done, or somebody who is not waiting holds a lock (the code has a FIXME about deadlocks here, `fuse.c:1218`) |
| `HiddenFilesGoUnlessCancelled` | the last release removes a hidden file, if no create was cancelled |

| Run | Result |
| --- | --- |
| `fuse_lib` | all hold, and there is no deadlock |
| `fuse_hidden` | `HiddenFilesGo`, without the condition, is violated: a create whose reply is refused releases its file between the check and the mark of an `unlink`, and the hidden file stays |

Assumed of the kernel: it names nodes it has looked up and not forgotten, keeps
the nodes of a request until the reply, holds the mutex of each directory whose
names a request may change, lets only one rename between directories run at a
time, and refuses to rename a directory into itself.  Assumed of the
configuration: the default one (no `remember`, `hard_remove`, `nopath`,
`auto_cache` or `intr`).  Left out: allocation failures, a failure of the unlink
that removes a hidden file, lookups of `.` and `..`, the
branch of create for what is not a regular file, and the last section of getattr
(`fuse.c:4447-4455`), which finds the node again to set the times of its cached
attributes: it changes nothing that the model has, and the kernel keeps the node
until the reply.

Bounds: three threads in `fuse_lib` (a reader, a writer and one that waits behind
both), two in `fuse_hidden`, three requests on a tree of two directories and two
files that may be open, one refused reply.  Threads and names are symmetric.

## Proofs

Every theorem holds for all values of the constants that the `ASSUME` of its
module allows: any number of threads, calls, keys, sessions, events, recordings,
paths or faults.  The bounds of the runs above do not apply.

| Theorem | Module | Statement |
| --- | --- | --- |
| `TypeCorrect` | `DebuggerProofs` | `Spec => []TypeOK` |
| `ButtonFollowsCounter` | `DebuggerProofs` | `Spec => []AdvanceButtonFollowsCounter` |
| `WaitsAccountedFor` | `DebuggerProofs` | `Spec => []EveryWaitAccountedFor` |
| `StopReleases` | `DebuggerProofs` | `Spec => []StopReleasesEveryCall` |
| `StepsOneCall` | `DebuggerProofs` | `~CanToggle => (Spec => [](session = 1 => NoSpareToken))` |
| `PausedCanAdvance` | `DebuggerProofs` | `Spec => [](session = 1 => PausedCallCanBeAdvanced)` |
| `ChunkBufferSafe` | `ChunkReaderProofs` | `Spec => []RoomForTerminator` |
| `ReaderTypes` | `ChunkReaderProofs` | `Spec => []TypeOK` |
| `ScanIsRight` | `ChunkReaderProofs` | `Spec => []ScanInv` |
| `CutsAreEvents` | `ChunkReaderProofs` | `FramedEvents` implies `Spec => Stream!Safety` |
| `LauncherTypes` | `LauncherProofs` | `Spec => []TypeOK` |
| `StartMountsOne` | `LauncherProofs` | `Spec => []StartMountsOneFileSystem` |
| `SessionsDoNotMix` | `LauncherProofs` | `Spec => []("child" \in prompt => EventsReachReader)` |
| `AlarmsAreTrue` | `LauncherProofs` | `Spec => []("child" \in prompt => NoFalseAlarm)` |
| `ExitStopsAll` | `LauncherProofs` | `Spec => []({"pid", "child"} \subseteq prompt => ExitStopsFileSystems)` |
| `WizardTypes` | `WizardProofs` | `Spec => []TypeOK` |
| `SkipMakesProgress` | `WizardProofs` | `Spec => []SkippedTestsDoNotFail` |
| `RunsAreJudged` | `WizardProofs` | `Spec => []VerdictIsShown` |
| `TablesStayTogether` | `TestsuiteProofs` | `Spec => []TablesAgree` |
| `HandlesReachTheirOpen` | `TestsuiteProofs` | `Spec => []HandleIsOfItsOpen` |
| `NoFalseFailure` | `TestsuiteProofs` | `Spec => []ConformingPasses` |
| `TreeIsSorted` | `TestsuiteTreeProofs` | `Spec => []RowsAreUnderTheirSequence` |
| `VerdictsCoverTheirRows` | `TestsuiteTreeProofs` | `Spec => []PassCoversItsRows` |
| `LoggerTypes` | `LoggerProofs` | `Spec => []TypeOK` |
| `CapturedCallsAreRuns` | `LoggerProofs` | `Spec => []SequencesAreRuns` |
| `QuitKeepsCaptures` | `LoggerProofs` | `Spec => QuitLosesNothing` |
| `UnlockAssertionsHold` | `PathLocksProofs` | where the locks are accounted for, the assertions of `unlock_path` hold for every path that is held |
| `RequestsAreAccountedFor` | `PathLocksProofs` | `try_get_path2` keeps the locks accounted for, and takes all of its paths or none |
| `FreedPathsAreAccountedFor` | `PathLocksProofs` | `queue_element_unlock` followed by `wake_up_queued` keeps the locks accounted for |

### Debugger

*ButtonFollowsCounter.*  The property only speaks of states at rest, so it is
not inductive.  `ButtonInv` says that an insensitive button is wrong only while
a refresh is due: an event is queued, the reader is past its increment and will
queue one, or Auto-advance has been clicked.  It also covers the value that the
GUI thread has loaded and not yet stored, which is what torn updates need: the
theorem holds whether or not updates overlap.

*WaitsAccountedFor and StopReleases.*  `AccountInv` is about `Slack`, the
difference of the two sides of the balance.  It is 0 while the file system serves
or joins its workers, and never negative: a crash takes waiting calls with it, and
SIGINT can end the wait of the destroy call.
It adds that until two updates overlap at most one thread is between load and
store and its value is current, that the main thread makes no call before
fuse_destroy, and `StopDrains`: after Stop, the GUI thread is still in its loop
or at most one call is pending, which the reader is about to advance.  At rest
neither is so and nothing is unread, so the balance leaves a token for each
waiting call.  The lemmas on
`WaitingIn` and `InvokesIn` say how each step changes the two cardinalities, the
reading of an event by a bijection that shifts positions.  The balance is not
claimed for later sessions, which inherit the counter (`debugger_restart` shows
why).

*StepsOneCall and PausedCanAdvance.*  `SteppingInv` says that without
Auto-advance and before Stop only the GUI thread is in `advance`, for a call that
is counted.  With the balance this bounds the tokens by the waiting calls.  The
second theorem needs no such invariant: at rest a waiting call without a token is
in the counter by the balance, and the button follows it by
`ButtonFollowsCounter`.

### Event reader

*ChunkBufferSafe.*  `BufferInv` adds the types of the buffer; `GrownHasRoom` is
the arithmetic of doubling.

*ScanIsRight.*  The loop's three variables are compared with reference
definitions that look at the whole chunk instead of one character at a time:
`Depth` counts the braces outside quotes, `InQuotes` the quotes that are not
escaped.  `ScanInv` is inductive with `TypeOK`.

*CutsAreEvents* is the safety part of the refinement of `EventStream`.  Its
hypothesis `FramedEvents` says of the texts that their braces balance at the end
and nowhere before, by the same reference definitions.  The texts of the run are
framed, and one that ends in a backslash is not: `PlainEventsAreFramed` in
`MCChunkReader` has TLC evaluate both.  `StreamInv` describes the pipe: the
characters in it and in the chunk are the texts written, one after the other,
from the first that has not been delivered, with the place at which each begins
(`Ahead`); the chunk is a beginning of that text, and the loop is left exactly
at its end (`Cutting`).  The rest of the promise, that every event arrives, is
fairness and stays with TLC.

### Launcher

`LauncherInv` has four parts that build on each other, each under the delays it
needs.  `OneInv`: only the last session's process can be alive, and
`fs_mounted` and the button say so.  `ReadInv`: which FIFO each process and each
reader has hold of.  `PidInv` and `CauseInv`: what the process in `fuse_pid` has
been told and has said, and why one has ended.  `ExitInv`: one that runs is
expected, is being forked, has been told to stop or is leaving.
All of them are under `Orderly`, `child` and `again` together: the handler runs
only where the button is sensitive.
`EventsReachReader`, `NoFalseAlarm` and `ExitStopsFileSystems` have their other
premises (`tool`, `reader`) in themselves.

### Wizard

`IInv` relates the four places a run's results are in: the process' position and
its record of the outcomes, the FIFO, the list, and what the window shows.
`Reported` is the set of the current run's events, in the FIFO or in the list,
whichever has them; it is empty of them until the reader has replaced the list
of the last run.  `Reports` says that a failure, the end and any event at all are
in it exactly if the process has come so far, which is what `VerdictIsShown`
rests on.  For `SkippedTestsDoNotFail`, `Due` says that the check that the
process is at was called for by the outcome of the one it needs; the facts about
the table of checks (every check that can fail asks about its own key, or only
runs after one that did, with six exceptions) are lemmas on the one table that
the code has.  Faults and the size of the FIFO are arbitrary.

### Test suite

*The runner.*  `RunnerInv` adds to the three properties: in a tame recording open
files have different paths (`RecInv`); the tables agree wherever both file
systems have answered (`TablesInv`); and for `ConformingPasses`, that both
directories hold the same paths and are empty between groups (`PassInv`), also
in a group that fails for a function that the passthrough lacks.  That a new
open can be told from every other (`FreshIdIsFresh`) counts the ids in use.

*The tree.*  What the view shows lags behind what the runner does.  `ViewInv`
says that the tree *after the waiting events have been shown* (`Shown`) follows
the runner: the iterators point at the running group and sequence, or at nothing
that the tree accepts.  `Shown` is the fold of `ShowEvent` over the list, stated
as the existence of its intermediate trees.  Reporting an event lengthens the
fold at its end and displaying one shortens it at its beginning, so both keep
the invariant, and no induction over the list is needed.

The two modules could be one, but each takes some ten minutes to check, and they
share only a few lemmas.

### Logger

*CapturedCallsAreRuns.*  `RunInv`: there is a number `h` up to which the calls
have been handled.  No captured call is above it and an open sequence ends in it;
the events above it are in the FIFO or being handled, in order, without a gap
except for one that is being written or was cut by the writer's death
(`StreamInv`); and one thread writes at a time.

*QuitKeepsCaptures.*  `QuitInv`: outside a capture the current sequence is empty,
and the thread is in `quitLogger` only outside one and after the question about
the export.

### Path locks

The theorems are about the operators of `PathLocks`, which are what the library
does within one section of `f->lock`.  `Accounts(node, th)`, which the run
`fuse_lib` checks as `LocksAreAccountedFor`, says that the lock of each node is
the number of held paths through it, with or without a waiting writer's mark, or
that it is one writer's.  The argument counts: `OneMoreReader` and
`OneMoreWriter` say how holding one more path changes the two sets, `LockPath`,
`UnlockPath` and `MarkNode` that the lock changes alike.  The delicate points are
that a path does not go through the node that it write-locks, which needs the
nodes to be a tree (`IsTree`; `fuse_lib` checks it with `TypeOK`), and that the
mark goes with the last reader (`ReaderOut`).  `wake_up_queued` is an induction
over the queue, which `Induction` states for sets of numbers, because the
library's induction theorems cannot be instantiated; `RunExists` shows that the
recursive function is defined.

Hypotheses: the nodes are a tree; a queued request names nodes; and the threads
have fewer than 998 paths.  The last one is `TREELOCK_WAIT_OFFSET`: it is
`INT_MIN` in the code and -1000 in the model, and with more readers than that the
mark could not be told from a count.

What is not proved is that `LocksAreAccountedFor` holds throughout `FuseLib`:
the steps between (a rename or a forget changes the tree while paths are held)
keep it only because of the locks, the reference counts and what is assumed of
the kernel together, and `unref_node` is a recursive operator, which keeps its
module out of the prover's reach.

### Model-checked only

* Liveness (`StopEndsSession`, `EveryCallIsResumed`, `CrashIsReported`,
  `StartComesBack`, `QuitEndsBoth`, and the fairness in
  `ImplementsEventStream`): out of the prover's reach.
* `UndefinedCallsWereSkipped` in `Wizard`: it speaks of what is enabled.
* `RowsTellOfSkips` in `Wizard`: it depends on the runs before this one.  That a
  check which ran before the user skipped a later one still passes follows only
  from the faults having shrunk since, which no variable records.
* `FuseLib` and its invariants, for the reasons above.
* The types of `Testsuite` and `FuseLib` have no theorem of their own; those of
  the former are part of `RunnerInv`.

## Not modelled

* Construction of GTK widgets, the file selector and the documentation tabs of
  `fdt.c`: no state that another part reads.
* The wrappers that turn an operation's parameters into JSON, `cJSON.c` apart
  from its escaping of strings, and `siggen.py`: pure formatting and parsing.
* Recorded contents: the test suite's comparison of attributes, data and
  directory listings is reduced to the existence of paths.
* Of libfuse: the kernel protocol (`fuse_lowlevel.c`), mounting, options,
  modules (`iconv`, `subdir`), byte-range locks, directory buffers, interrupts
  sent to the file system, and the options that are off by default.  They are
  input and output, or an upstream library that FDT does not change.
* osxfuse: the macOS port repeats libfuse, with the same wrappers, tests and test
  suite runner copied into it; the rest is a kernel extension, a framework, a
  preference pane and packaging.

The vendored libraries are most of the roughly 163,000 lines in the repository,
so the lines that the modules stand for are a small share of all lines, although
they cover most of the state of FDT's own files.
