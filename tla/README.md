# A verification development for s3c2440adc

s3c2440adc samples the ADC of an S3C2440 board and shows the samples on a
desktop: a kernel driver (`drivers/`), a library that wraps its device files
(`libs3cadc/`), a TCP server on the board (`server/`) and a Qt client, the
oscillometer (`client/fyyoscillometer/`).  This directory holds TLA+ models of
the parts that keep state, the TLC runs that check them on small instances, and
TLAPS proofs of what matters most for every instance.

`PROJECT.json` lists components, runs, mutants, the map from definitions to
source lines, findings, hazards and theorems.

## 1. Inventory

| component | state it keeps | operations | interacts with |
|---|---|---|---|
| driver, file operations (`drivers/fl2440adcdri.c` 64-158) | `client[]`, `client_ref[]`, `mutex`; `private_data` per file | open, read, release | processes that open the device; the kernel's s3c-adc core |
| driver, loading (`fl2440adcdri.c` 161-282, `fl2440adcdev.c`) | chrdev region, class, platform devices, driver, cdevs | init, exit, probe, remove | driver core; makes the nodes live |
| libs3cadc (`s3cadc.c`) | a handle with the device's descriptor | alloc, destroy, get | driver below, server main above |
| server main (`server/src/main.c`) | options, `adcdev[]` | parse, start, end | everything in the server |
| pid file, signal, quit (`adcdaemonize.c`, `adcserverexit.h`, `main.c`) | the file, SIGUSR1's disposition | write_pid, remove_pid, handler, `-x` | other servers and runs of `-x` on the host |
| listening socket (`adcnetwork.c` 48-117) | a cursor in the address list, a descriptor | one function | kernel |
| event loop (`adcnetwork.c` 123-300) | epoll set, batch of events, one datagram | wait, accept, read, ADC, write | clients over TCP, the ADC through the library |
| signal source of the client (`fyych.cc`, `fyynet.cc`) | socket, settings, `reConnect`, `allowConnect`, timer | dialog, slots of the socket and timer | server, chart |
| chart of the client (`fyymon.cc`) | list of samples, type, idle and visible flags, timer, picture | ten slots | its source, indicator, FyyMon |
| state board, refresh period, wiring (`fyystateboard.cc`, `fyyosimeter.cc`, `FyyMon`) | the state text, a log, the period and its jitter timer | slots of the source's signals | source, charts |
| daemonize (`adcdaemonize.c`) | working directory, descriptors | one function | the pid file's path |
| indicator layout, background, log viewer | widgets | painting, saving a text | |
| nqcommon, test programs | none that others see | | |

What each part must get right:

- *driver*: the client pointers and the s3c-adc core agree in every order of
  open, read and close; a sleeping read keeps its client; a file reads its own
  channel.
- *loading*: whatever fails, and whoever opens a node while it appears, nothing
  that can be opened lacks what backs it, and nothing is left behind.
- *event loop*: edge-triggered epoll loses no arrival; no event names a closed
  descriptor; requests are answered in order and truthfully; everybody is
  served; a client that waits for its answers does not kill the process.
- *stream*: what the client shows is an answer of the server.
- *pid file*: one server at a time; the file names it; nothing is left behind;
  `-x` ends the server.
- *main*: exactly the chosen channels are handed to the loop; every path gives
  back what it took; only handles are destroyed; the pid file is the one the
  command line names.
- *listening socket*: an address that can be bound is found; no descriptor
  leaks.
- *source*: settings, connection and samples agree whatever happens while the
  dialog is open; a source that is down can be brought up; a disallowed one
  goes down.
- *chart*: the list is bounded and ordered; drawing drops the old samples and
  only those; timer, visibility and idle state agree; a stale diagram is
  redrawn.
- *board and wiring*: chart and board tell the state of the source.

The hard behaviours are: interleaved processes on the driver's tables (one
mutex, one sleep under it), from before the tables are set up; a load that
fails in the middle; a stream that is cut anywhere; edge-triggered readiness with arrivals before and
between the server's calls, resets and SIGPIPE; signals that arrive outside
`epoll_wait`; crashes around the pid file; a nested event loop under a modal
dialog; a clock that wraps at midnight.  The hazards in `PROJECT.json` give the
line of each.

## 2. Modules

| module | models | state and actions |
|---|---|---|
| `AdcDriver` | file operations of the driver | `client`, `clientRef`, `registered` are the tables and the core's view of them; a file is `closed`, `idle`, `reading` or `faulted`.  open and release are one action each because they are one critical section; read is `ReadBegin` / `ReadEnd` around the sleep |
| `AdcModule` | loading and unloading around `AdcDriver`, which it extends | `mod` says where init or exit stands, `todo` what is left to take down (the labels of init, or the calls of exit); region, class, devices, probes, driver are one action each, every one of which may fail; `UseFile` is a step of `AdcDriver`, `OpenDies` an open before `mutex_init` |
| `SampleService` | abstract: what a client is promised | sessions, pending requests, answers on their way |
| `AdcServer` | `adc_server_conn`, its clients, sockets and epoll | one action per system call of the loop; `pc` says where the thread is, `batch` is the rest of `epl_evs`, `ready` the kernel's ready list; clients connect, send, receive, close, reset |
| `DataFraming` | one connection as a stream: `struct DataGram` of each end, the server's read, the client's `readData` | words on their way and how many have arrived; a word remembers its answer and its place in it |
| `ListenSocket` | `get_tcp_listen_socket_t` | the address list with the kernel's answers, the cursor, open and bound sockets; a part of `ServerMain` |
| `ServerInstance` | pid file, SIGUSR1, `-x` | one action per system call on the file or a process; crashes anywhere |
| `ServerMain` | `main` with `s3cadc_alloc` / `s3cadc_destroy`, `adc_server_daemonize`, and `ListenSocket` | the command line is an initial value; parsing, going to the background, opening, listening, serving and freeing are actions; `pidfile` is the file used, with the directory its name starts from |
| `FyyChannel` | `FyyCH`, its dialog, `FyyNet` | the socket is the record `net`; dialog steps (`OpenDialog`, `SetConf`, `Apply`) interleave with socket and timer events |
| `FyyChart` | `dataChart` | one action per slot, `Tick` for time |
| `FyyScope` | what is bound to one source: its chart (`FyyChart`, which it extends), its state board, the refresh period | one action per signal of the source, which calls the slots of chart and board together; the source appears as `up` |

`MC*` modules give the constants their values for TLC; the modules without one
are run directly.  `*Proofs` modules hold the theorems; `FyyChartProofs` has
those about `FyyChart` and about `FyyScope`, `ServerMainProofs` those about
`ServerMain` and `ListenSocket`.  A definition whose name
ends in an underscore and a word (`OpenFirst_RefBeforeRegister`) stands before
the definition it varies and is a *mutant*: what a plausible bug would make of
it.  Substituted for the original it must break the property that
`PROJECT.json` pairs it with, which shows that the property says something.

Modelling decisions that a reader of the code should know:

- *Driver.*  Calls that fail before touching a table are stuttering steps.
  `mutex` is a variable only because of the sleep.  A read of a NULL client
  oopses with the mutex held; the file is then `faulted` for good.
- *Loading.*  `cdev_add` makes a device openable, before init has initialised
  the mutex.  An open that locks the mutex of zeroes is taken to oops in
  `mutex_lock`; the opener is `stuck` and its use count keeps the module loaded.
  Between `mutex_init` and the loop of `atomic_set` opens work, and the loop
  resets what they have counted.  The loop itself is one action.  The tables go
  with the module; clients that are still registered with s3c-adc are `leaked`.
  A failing probe leaves its device without a driver.
- *Stream.*  The unit is the 32-bit word: a cut inside a word changes nothing
  the properties tell apart.  An end reads once when it is told of arrivals.
  Members of the request that nobody sets hold anything (`junk`).
- *Event loop.*  A batch holds at most one event per file, and a file is closed
  only by its own event, so an event names its connection; this is
  `EventsAreCurrent`, not an assumption.  A datagram travels whole here; how it
  may be cut is `DataFraming`'s subject.  Errors of the listening socket are
  left out.  A write to a client that has closed
  succeeds and provokes a reset; one after that reset is SIGPIPE.
- *Library and driver seen from the loop.*  `ReadAdc` records which handle was
  read.  That the driver returns the voltage of that handle's channel is not
  assumed and not true: after a second session it is channel 0's
  (`driver_channel`).  So what `ServesInOrder` promises of an answer is that it
  comes from a read of the device asked for; the two models are not composed.
- *Instance.*  `CleanStack` says whether the unterminated buffer of `-x`
  happens to end where the digits do; with it FALSE `-x` may signal any process
  (the runs take TRUE, the proof of `StaleFilesExplained` covers both).  pids
  are not reused.
- *Main.*  The mark of channel MAXADC is written to the word behind
  `adcdev[]`, which is undefined.  The Makefile does not optimise, so that the
  parameters of main lie below its locals and what can lie behind the array is
  another local, or the frame.  `MarkPastEnd` has an outcome for each: `options`
  becomes 1, which is OPTFOREGROUND (a `-x` or a `-P` is forgotten); `pidpath`
  becomes an address that no call can read; `ret_val` becomes 1; a local that is
  dead changes nothing; and with `port` or the frame main dies later
  (`SmashedFaults`).  `smashed` records that it happened.
- *Background.*  The launcher is not followed.  `adc_server_daemonize` returns
  an error before or behind its `chdir`, or none; main goes on in every case.
- *Listening socket.*  The loop's test and the `if (!addr)` behind it never see
  NULL, since NULL is dereferenced first; they have no actions.
- *Source.*  The socket's operations are those of Qt 4's QTcpSocket as the code
  uses them: disconnecting waits for the connection and for unsent data,
  aborting does not, and `disconnected()` is emitted only from a connection.
  Whether the nested event loop still delivers events after OK depends on the
  dispatcher (GLib's can, others do not): the constant `WindowEvents`.  The
  sample timer is never stopped; a socket that is not connected ignores it.
- *Chart.*  A sample is its time of arrival; the value only affects where a dot
  is painted.  The age is the difference of two times of day.  `timer` is
  `isActive()` of the timer; that one with a negative interval is active and
  never fires is `FyyScope`'s subject.
- *Wiring.*  What `FyyScope` takes of the source, that `dataSrcReady` and
  `dataSrcUnReady` tell whether it is up, is `SignalsTellState` of `FyyChannel`.
  A connection that is wanted no more when it comes about is a `SourceBlinks`.
  `syncUpdateFrame` restarts timers that run, which no variable shows.

## 3. Runs

Passing:

| run | bounds | shows |
|---|---|---|
| `driver` | 3 symmetric files, 3 channels: the first shared by all, the second used by one file at a time, the third by two; 2 loads, any failure | `RefImpliesClient`, `PointerTracksCore`, `ReadKeepsClient`, `SoleUserHasClient` (about the second channel), `NodesBacked`, `NothingLeft`, of `AdcModule` |
| `server_order` | 2 clients, 2 requests each, both may be unanswered, batches of up to two events, 1 failure, signal | `ServesInOrder` (refinement of `SampleService`), `EventsAreCurrent`, `NoLostConnection`, `OnlyPipelinersKill` |
| `server_live` | 2 clients with one request at a time, no failures | `NoLostEdge`, `ClosedIsReaped`, `ServesEveryone` (refinement with fairness) |
| `framing` | 3 requests of one source, 2 arrivals of a part at any word of either direction, both layouts | `SamplesAreAnswers` |
| `instance` | 3 servers, 2 runs of `-x`, failures and crashes anywhere, fairness | `OneServer`, `FileNamesServer`, `StaleOnlyAfterCrash`, `QuitFromWaitCleansUp` |
| `main_start` | all command lines of 2 options and 3 operands, 2 channels, all lists of 3 addresses | `ServesChosen`, `HandlesReturned`, `FaultsOnlyAfterFailure`, `SocketIsSound`, `FindsLaterAddress`, `FileAsNamed` |
| `chart_day` | 2 dots, window 2, 6 ticks of a day of 10; a negative and another period | `WithinMaxDots`, `NewestFirst`, `DiagramIsLive`, `RemovesExactlyOld`, `ScreenTellsSource`, `DiagramRedraws`, of `FyyScope` |
| `channel_settings` | 2 hosts, 2 channels and a text that is cut, buffers of 2, no window events | `ConnectedToConfigured`, `ShowsConfigured`, `DownCanReconnect`, `SignalsTellState`, `DisallowedEnds` |

Why these bounds are enough.  The driver treats channels alike, except 0 (the
default of `private_data`), so 0 and another suffice for what is shared; three
files are one that sleeps, one that closes and one that opens.  A second load
shows what the first left behind, and three devices let the loop that takes
registrations back run over its first, a middle and its last.  Two cuts of the
stream are one that loses the place and one that finds it again, by making up a
whole datagram out of two short reads.  In
the event loop two connections give every interleaving of a connection with the
listener and with one other; in a batch of two events the second waits while the
first is handled, and a third that is ready waits for the next `epoll_wait`; two
requests are also what a client needs to have an answer discarded and the next
one written behind its reset; two requests are the least that can share an edge.
Three servers allow a crash, a successor and a third that finds a stale file;
two runs of `-x` are the least that can disturb one another.  The chart's list needs one more arrival than
`MaxDots`, and time to make the oldest leave the window.  The proofs (section
5) remove the bounds for most of the safety properties.

Deadlock is not checked where the program does stop: a faulted driver holds its
mutex for good, a server whose clients are done waits in `epoll_wait`, processes
end, functions return, a source has asked all it may.  It is checked for the
client's runs.

Violations: each run checks one statement of the repository's texts and finds
the code does otherwise.

| run | statement | what happens |
|---|---|---|
| `driver_channel` | a handle reads the channel it was opened for (`libs3cadc/README`) | the second session on channel 1 reads channel 0: open returns before it sets `private_data` |
| `driver_multi` | several processes may have a device open (`fl2440adcdri.c:82`) | further openers are not counted; the second close releases the client of all |
| `server_pipelined` | the server answers the client's request (`server/README`) | one read per edge: a second request that shares it waits for a third |
| `instance_quit` | `-x` quits the running one (`server/README`) | a signal outside `epoll_wait` is lost, and all later ones ignored |

The models also follow the code where it goes wrong in ways that a run of their
own would only repeat.  The passing runs state the exact extent:

- the walk over the addresses skips the first and dereferences NULL behind the
  last (`adcnetwork.c:73`): `FindsLaterAddress`;
- a device that cannot be opened leaves marks, pointer value 1, that main
  destroys (`main.c:257`): `FaultsOnlyAfterFailure`;
- channel MAXADC is accepted and marked behind the array (`main.c:161`):
  `MarkPastEnd`; `FaultsOnlyAfterFailure` and `FileAsNamed` except a process to
  which that happened (`smashed`), `ServesChosen` and `HandlesReturned` hold for
  it too;
- past midnight samples of the day before have a negative age and stay
  (`fyymon.cc:114`): `RemovesExactlyOld` is checked and proved
  within a day;
- a source that comes back, or a new refresh period, starts the timer of a
  frozen chart (`fyymon.cc:228`, `287`): `DiagramIsLive` is about diagrams;
- accepting the dialog with the box checked while the socket still closes
  connects nothing (`fyych.cc:343`): `DownCanReconnect` says that the next
  attempt does;
- two runs of `-x`, or one beside a server that fails of itself, can remove the
  file of a live server (`adcserverexit.h:71`): `Undisturbed`;
- a `-P` before `-x` is forgotten, and a server in the background looks for a
  relative path in `/` (`main.c:127`, `adcdaemonize.c:117`): `FileAsNamed`;
- an opener that comes before `mutex_init` keeps the module loaded for good
  (`fl2440adcdri.c:245`): `OpenDies`, and every load can leave a client on each
  channel (line 275): `NothingLeft`;
- a short read at the client shifts all that follows, and a client with the
  64-bit layout mixes two answers in each sample (`fyynet.cc:131`,
  `dataitem.h:41`): `SamplesAreAnswers`;
- a negative refresh period stops all diagrams (`fyymon.cc:448`):
  `DiagramRedraws` excepts it, and `DiagramIsLive`, which asks for an active
  timer, does not see it;
- a failure of `accept` or of a registration leaves the rest of the backlog
  without an event until somebody else connects (`adcnetwork.c:190`):
  `NoLostConnection`;
- a client that sends two requests, closes and leaves the answers to its reset
  ends the server by SIGPIPE (`adcnetwork.c:265`): `OnlyPipelinersKill` says
  that no other can;
- `connected()` of the old host, delivered between OK and its effect, makes the
  new settings unused (`fyych.cc:343`): `ConnectedToConfigured` is checked and
  proved for dispatchers that deliver nothing there.

## 4. Fairness

- `AdcServer`: weak fairness of the server's steps together, since it is one
  thread that never blocks outside `epoll_wait` and the device's read; of
  `Receive` for each client, since the client's readyRead slot runs from its
  event loop; of `ResetArrives`, since the network delivers.  Connecting,
  sending and closing are not fair.  A client that does not read at all would
  stop the server (`adcnetwork.c:264-266`): that is why `Receive` is assumed.
- `ServerInstance`: a process that has started goes on, and re-enters
  `epoll_wait` after a batch; a run of `-x` that has read the file goes on.
  Starting, crashing and events are not fair.  There is no fairness for
  `LeaveWait`: nobody has to send anything.
- `FyyChart`: none; the module has safety properties only.
- `FyyScope`: weak fairness of `Redraw`: a timer that runs fires in the end,
  unless its interval is negative.  That other timers restart it does not keep
  it from firing for good: `frameUpdateTimerStart` is emitted on selections,
  connections and the first sample, not on every frame.
- `FyyChannel`: a connection attempt ends and a closing socket sends or breaks
  (TCP's timeouts), and the nested event loop ends after OK.

## 5. Proofs

All theorems are checked by tlapm with Z3, Zenon and LS4, from the named
assumptions on constants only.

- `AdcDriverProofs`.  `RefCorrect`, `PointersCorrect`, `ReadSafe`: for any set of
  files and channels.  `ReadKeepsClient` is not inductive: the invariant adds
  that a reading file owns the mutex, so that no release can run.  The two
  theorems about a sole user need that files on such a channel are unique, which
  follows from the bound on the cardinality of `OpenOn`.
- `AdcModuleProofs`.  The same for a driver that is loaded and unloaded: the
  invariant of `AdcDriverProofs` is kept by `ResetCounters`, because it does not
  ask that a file be counted, and by `Unloaded`, because no file is open then
  (`FilesClosed`).  `NodesCorrect` and `UnloadCorrect` need what is held at each
  stage (`Holds`), with what is left to take down (`Unwinds`), and that devices
  are registered in the order of their minors (`Devices`), so that a
  registration that fails takes all earlier ones back (`TakesAllBack`; init
  registers the least minor without a device, and `SmallestPosition` shows from
  the well-foundedness of < on Nat that there is one).
- `AdcServerProofs`, for any number of clients, requests and events in a batch.
  `EventsAreCurrent` is not inductive.  `IInv` adds where the thread stands
  (`Stage`: the event in work is the head of the batch), that epoll lists a file
  once and a batch reports it once (`OncePerFile`), that only open connections
  are listed, that an event not handled yet still has its cause (`CauseLasts`:
  nothing but its own handling consumes what it reports), what is in the backlog
  (`BacklogExact`) and that the datagram at work belongs to the request that was
  read (`HandFits`).  From `OncePerFile` it follows that closing a connection
  leaves no other event of it in the batch.
  - `NoConnectionLost` is about steps: with connections waiting the listener is
    listed or in the batch, or the step before was a failure, or it was so
    already and nobody has connected since (`StepsKeepConnections`, from
    `ScheduleStep` and from who touches the backlog, `BacklogMoves`).
  - `OnlyPipelinersEnd`: `OnlyPipelinersKill` needs that a client which was
    written to after it closed has an answer discarded for good (`Discarded`),
    so that another one at work makes two requests beyond what it took.  The
    write that discards is the only step that adds to it, and there `Accounted`
    gives the bound.
  - `NoEdgeLost` assumes `Window = 1`, clients that wait for each answer; without
    it the statement is false (run `server_pipelined`).  `Accounted` bounds what
    is on its way, at work and answered by what was asked; with `Window = 1` there
    is nothing behind the request that was read (`OneAtATime`), so that one read
    per event is enough.
  - `Implements`: under the substitution of the `INSTANCE` in `AdcServer`, every
    step of the loop, the clients and the network is a step of `SampleService`
    or leaves its state alone (`StepRefines`, with one lemma per step of the
    service: `CallStep`, `AdmitStep`, `AskStep`, `AnswerStep`, `DiscardStep`,
    `DeliverStep`, `LeaveStep`, `EndStep`, `KillStep`, and `HiddenStep` for what
    the service does not see).  This is the safety half; `ServesEveryone`, the
    same with fairness, stays with TLC.
- `ServerMainProofs`, for any number of channels, options, operands and
  addresses.  Parts of the invariant: `Walk` (which addresses the walk has tried
  and what is open), `NoSocket` (main has no socket outside `adc_server_conn`),
  `Marks` (the operands parsed so far are the marks in `adcdev[]`), `Devices`
  (marks below the loop's index have become handles; when freeing, what is left
  in the array is what is left to destroy) and `Paths` (`pidpath` is the last
  path among the options parsed, unless a later `-x` has hidden the `-P`:
  `Remembered`, until a write behind the array).
  `ServesAsAsked`, `NothingLeftOpen` and `FaultsAreNamed` follow from `Marks` and
  `Devices`, `SocketReturned` and `WalkFindsAddress` from `Walk`, `PidFileAsNamed`
  from `Paths` and from which option is the last of a finite list (`Greatest`).
- `DataFramingProofs`, for any number of channels, requests and arrivals of a
  part.  What is on its way to the client is the end of a row of whole answers
  (`RowOfAnswers`: a word's answer and its place in it are those that its
  distance from the end gives), and a client with the server's layout is as far
  out of step as the parts it has discarded make it (`InStep`).
  `WholeInStep` shows that five words from the front are one answer exactly if
  the row's length is that of whole answers.
- `ServerInstanceProofs`.  `StaleFilesExplained` holds for any number of servers
  and runs of `-x` and either value of the flags.  `SingleServer` and
  `FileCorrect` are about `Undisturbed` states: at most one `-x` has been
  started, it read the pid as written, and no server failed of itself.
  `DisturbedForGood` shows that such a state has only such states before it, and
  the strengthening `Ownership` says what the one run of `-x` can have read, so
  that its unlink cannot hit the file of a live server.
- `FyyChartProofs`.  The inductive invariant is about the list as a whole
  (`ListInv`: bounded, ordered, nothing from the future).  `NewestKeeps` and
  `PushKeeps` show that taking a beginning and putting a new sample in front
  keep it, `InWindowPrefix` that drawing takes a beginning; for that the first
  old position must exist, which is the least element of a set of numbers
  (`SmallestPosition`).  `DrawingCorrect` states `RemovesExactlyOld` for every
  chart whose time stays within a day: because the list is in order and ages are
  not negative, all samples behind the first old one are old too
  (`DrawsTheWindow`).  Past midnight it is false.
- `FyyChartProofs`, about `FyyScope`.  `ImplementsChart`: every step of the widgets is a slot of
  the chart or leaves it alone, so that `FyyScope` implements `FyyChart` and
  `ChartCorrect` and `RedrawCorrect` follow from its theorems; `ScreenCorrect` by
  induction.
- `FyyChannelProofs`.  `FlagCorrect`, `SignalsCorrect` and `DisallowedCorrect`
  hold for both dispatchers.  `HostCorrect` and `ShowsCorrect` assume `~WindowEvents`; the
  strengthening `HostInv` says that a clear `reConnect` vouches for the host,
  which is what makes the single flag enough.

Every safety invariant and action property of the passing runs is stated by one
of these theorems.  Model-checked only: the liveness properties `ClosedIsReaped`,
`ServesEveryone`, `QuitFromWaitCleansUp`, `DiagramRedraws` and `DisallowedEnds`
(liveness under fairness and ENABLED are outside the prover's reach), and that
the code violates the four statements of section 3.  The theorems hold under
hypotheses where section 3 says that the code goes wrong without them: `Window = 1`
for `NoEdgeLost`, `MaxTime < Day` for `DrawingCorrect`, `~WindowEvents` for
`HostCorrect` and `ShowsCorrect`, `Undisturbed` for `SingleServer` and
`FileCorrect`.

## 6. Not modelled

- Driver: bind and unbind of devices through sysfs; unloading by force; what
  s3c-adc does with a client that outlives the module; and the driver core's
  list of the platform bus's children, in which `dev.parent = NULL`
  (`fl2440adcdev.c:48`) leaves every device that is unregistered.  "Nothing left"
  is of the region, class, driver, devices, cdevs, nodes and open files.
- Server: error events of the listening socket; a write of less than a datagram;
  the numbers of descriptors after `adc_server_daemonize`, and the launcher's
  exit status; `nqcommon`, which prints and wraps one fcntl (its failure is a
  branch of `AdcServer` and `ListenSocket`); the test programs, which are
  sequential and keep no state.
- Client: painting, layout and texts; the log of the state board and its viewer,
  which collect and save texts (the log has no bound); the value of the refresh
  period beyond its sign, and of the sample interval; `getDateTime`, which nobody
  calls.

`PROJECT.json` gives the status of each component.

## 7. Plan

Done: the driver's tables and the life of its module; the event loop with its
abstract service; the stream between client and server; the pid file; main with
the background and the listening socket; the client's source, chart and state
board.  Proofs of every safety property that the runs check, and of the
refinements `FyyScope` => `FyyChart` and `AdcServer` => `SampleService`.

Next:

1. What the models leave out and could say: the error events of the listening
   socket in `AdcServer`, and the numbers of descriptors after
   `adc_server_daemonize` in `ServerMain`.
2. Proofs of what the invariants imply between components: that the handles the
   loop reads (`ReadAdc`) are those that `ServesChosen` hands over, and that
   what `SignalsTellState` promises is the `up` of `FyyScope`.
