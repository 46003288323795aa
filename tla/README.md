# RobustDataCollector, specified

TLA+ models of the data collector of this repository, the TLC configurations
that check them on small instances, and TLAPS proofs of their safety properties,
and of four liveness properties, for every value of the constants.

RobustDataCollector is an Android application that collects network data in
the background: packet captures with the application each packet belongs to,
samples of passive measurements, active probes, and user input. It uploads
them over FTP when the phone is idle. It must do that for weeks, with no user
looking at it, on a phone that changes networks, runs out of battery and
storage, and kills its processes. Its own code is 24 Java files under
`src/src/edu/umich/robustdatacollector/` (called `J/` below), `socket_proc.c`
and `user_input.c` in `src/libpcap-1.1.1/`, and patches marked `CODE CHANGED`
in the vendored libpcap and tcpdump. The repository has no tests of it.


## 1. Inventory

| Component | State | Operations | Talks to |
| --- | --- | --- | --- |
| Scheduler (`J/scheduler/SchedulerThread.java`, `SchedulerService.java`) | place in its loop, `sleepTimeTotal`, policy values | `run` (one iteration every 10 s), `upload`, `parsePolicyFile`, `downloadConfig`; receivers for screen and battery | every other Java component; the FTP server |
| Interface detector (`J/scheduler/InterfaceDetector.java`) | `lastInterfaceType` | `detect`, `getCurrentInterfaceType` | capture control, ConnectivityManager |
| Capture control (`J/imapcollector/IMAPCollector.java`) | one root shell and its pipe | `startCollectingIMAPData`, `stopCollectingIMAPData`, `isIMAPCollectorRunning` | root shell, `dc_stop_flag`, `ps` |
| Wake lock (`J/scheduler/ResourceLock.java`) | reference count, timeouts | `acquireCPU`, `releaseCPU` | scheduler, service |
| Flags and timestamps (`J/Utilities.java`) | files `isUploading`, `isActiveProbing`, `lastUploadTimestamp` | set, clear, read; `isUserIdle`, `zip` | scheduler, probing, user interface |
| Active probing control (`J/scheduler/ActiveProbingReceiver.java`, `J/activeprobing/NewTestThread.java`) | threads that run a test | `onReceive` of an alarm, `run` | flags, wake lock |
| Active probing measurements (`J/activeprobing/RTT.java`, `Throughput.java`, ...) | sockets, result files | RTT and throughput against a server | that server |
| Start-up and user interface (`J/RobustDataCollector.java`, `J/scheduler/StartupReceiver.java`, `SchedulerPeriodicChecker.java`) | alarms | start the service, show the flags | service, flags |
| Uploaders (`J/uploader/*.java`) | collected folders on the SD card | zip, send, delete | FTP server, scheduler |
| User input collector (`J/userinput/InputTrace.java`) | collector processes and their threads, the monitor thread in `ssd`, the list `mprocs`, folders on the SD card | `doCapture`, `stopCapture`, `isRunning`, `readMprocs`, `screenshotDecision.run` | scheduler thread and main thread, `ps`, shells, the upload |
| Passive monitoring (`J/passivemonitoring/PassiveMonitoringService.java`) | trace files, timers | `onCreate`, `onDestroy`, timer callbacks | scheduler, Android |
| Capture process (`imap-tcpdump`: `user_input.c`, patches of `tcpdump.c`, `pcap-linux.c`, `sf-pcap.c`) | `exitFlag`, `byteCounter`, window of volumes, open files | `pcap_loop`, `MonitorExit`, `TerminateCapture` | `dc_stop_flag`, `dc_activity` |
| Packet attribution (`socket_proc.c`) | connections, indexes by port and address, applications | `ReadConnections`, `ReadProcFD`, `UpdatePacket`, `CleanConnectionInfo` | `/proc`, the main thread of the capture process |
| TCP settings (`J/TCPSettings.java`) | none | none: every call is commented out | |

How they interact:

* *Threads.* The scheduler thread, the main thread of the Android process
  (receivers, alarms, service callbacks), one thread per active probe and the
  threads of the input collector share files, the wake lock and objects
  without any lock of their own. The capture process is a different process,
  with two threads of its own.
* *Files as signals.* `isUploading` and `isActiveProbing` keep uploads and
  probes apart; `dc_stop_flag` tells captures to end; `dc_activity` carries the
  traffic volume from the capture to `isUserIdle`. None of them is written or
  tested atomically, and all outlive the process that made them.
* *Pipes and `ps`.* A capture is started by writing a command line to a root
  shell, and found again by looking for its name in the output of `ps`.

What is hard: the interleaving of these threads between a test and its use;
timing (a stop sleeps 5 s for a poll of 1.2 s); crashes at any point, which
leave files, shells and captures behind; an upload that ends in the middle;
counters shared without locks.

What makes each component correct:

* scheduler: captures and monitoring always come back; uploads end and let go
  of the flag and the lock; a folder is uploaded only once it is complete;
* capture control: after a stop nothing captures; starts do not pile up;
* wake lock: held throughout an upload, by no more and no fewer than its owners;
* flags: set only while what they say is true, and never for good;
* uploaders: what is deleted has been sent, what is collected is sent in the end;
* input collector: it stops when the storage is critical and comes back when it is
  not; no thread of it gets out of reach; its traces are uploaded complete;
* capture process: it ends when told to, and leaves nothing behind that is
  believed later; the volume it shows is the volume captured;
* attribution: an index names a connection that has the indexed port and
  address, no check of its own ends the capture, a packet goes to an application
  that had the socket, and a socket that stays open is attributed.


## 2. Modules

| Module | Models | Lines of code it stands for |
| --- | --- | --- |
| `IMAPCollector` | capture control: shells, pipes, captures, the stop file | `IMAPCollector.java`, `user_input.c:376-387`, `tcpdump.c:1359-1382` |
| `Scheduler` (extends it) | scheduler loop and `upload()`, interface detector, wake lock, flags, active probing control, services, crash and restart | `SchedulerThread.java`, `InterfaceDetector.java`, `ResourceLock.java`, `ActiveProbingReceiver.java`, `NewTestThread.java` |
| `MCScheduler` | the constants and the symmetry TLC needs | |
| `IMAPCollectorProofs`, `SchedulerProofs` | proofs about them | |
| `CaptureProcess` | the two threads inside one capture | `user_input.c:364-426`, `tcpdump.c:1359-1414, 1932-1952`, `pcap_dump` |
| `CaptureProcessProofs` | proofs about it | |
| `SafeUpload` | what the uploaders promise, as an abstract specification | |
| `Uploader` (instantiates it) | the uploads of captures and of passive monitoring, with the zip | `IMAPUploader.java:126-208`, `PsmnUploader.java:133-223`, `Utilities.java:162-187`, `SchedulerThread.java:269-289` |
| `MCUploader` | the folder of each file | |
| `UploaderProofs` | proofs about `Uploader` | |
| `ConnTable` | the attribution of packets: table, indexes, refresh from `/proc` | `socket_proc.c:133-651` |
| `Attribution` | what the attribution of packets promises, as an abstract specification | |
| `MCConnTable` | addresses and traffic of the runs, view, symmetry | |
| `ConnTableProofs`, `ConnTableRefreshProofs` | proofs about `ConnTable`: types, indexes, whose name; what a refresh achieves | |
| `AttributionProofs` | proof that `ConnTable` implements `Attribution` | |
| `InputTrace` | the control of the user input collector, its threads and processes, and the upload of its folders | `InputTrace.java:76-341`, `UInpUploader.java:34-142`, `SchedulerThread.java:260-334, 364-383` |
| `InputTraceProofs` | proofs about `InputTrace` | |

### IMAPCollector

`pipe[s]` is what the application has written to shell `s` and the shell has
not read; `run[s]` the capture it runs in the foreground (the interface type it
was started on); `stopFlag` the file `dc_stop_flag`; `polls` how many polls of
`MonitorExit` are left in the 5 s sleep of a stop. `startCollectingIMAPData`,
`beginStop`/`endStop` (the two halves of `stopCollectingIMAPData`, before and
after its sleep) and `isIMAPCollectorRunning` are operators that the scheduler's
actions use, as its code calls the methods. `ShellReadsCommand`, `CaptureEnds`
and `PollPeriod` are steps of the shells. There are two shells: `"app"`, of the
process that lives, and `"orphan"`, of a process that died (Linux does not kill
a child with its parent).

The collector catches every `IOException` and goes on (`callFails`). An
`exec("ps")` that fails answers that nothing captures (144-150): another command
may then be queued behind a capture that runs. A `FileWriter` that fails leaves
the stop without its file (104-110): it sleeps its 5 s and ends nothing, unless an
earlier process left a file there. A `writeBytes` that fails loses the command
(94-96), with no other effect than that no capture starts. `ioErrors` counts the
failures; `faults` those that hid or spared a capture, since a stop (or a reboot)
last left no shell with any work. Both are history.

### Scheduler

`pc` is the place of the scheduler thread; an action is a stretch of code from
one point where somebody else can intervene to the next, so there is an action
boundary before each test of a flag file, each call that sleeps or talks to a
service, and each use of what was read before. The answer of `ps` and the start that follows it are two steps
(`Detect`, `DetectStart`; `StorageCheck`, `StorageStart`), so the answer may be
stale. `UploadCheck` to `UploadRelease` follow `upload()` line by line, its early return at low battery included
(`UploadLowBattery`). The main thread is modelled by its callbacks: `ScreenOff`,
`ScreenOn`, `ProbeCheck` followed by `ProbeStart` or `ProbeDeclined` (the alarm
reads the upload flag first and decides later), `TimedAcquire`, and
`PsmnCallback`, since `startService` and `stopService` only put a call in a
queue. `TestBegins`/`TestEnds` are a probe's thread. `Killed`, `Reboots` and
`Restart` are the life of the process: memory is lost, files, shells and
captures stay; the kernel drops the wake lock of a dead process.

Values that are read and not kept are chosen where they are read: battery
level, free storage, hour of the day, user activity, whether there is data.
`lowReturns`, `kills` and `listed` are history.

### CaptureProcess

One process from the end of `StartCapture` to its exit. `pc["main"]` is in
`pcap_loop`, adds each packet's length to `byteCounter` in a read (`LoadCounter`)
and a write (`StoreCounter`); `pc["mon"]` is in `MonitorExit`, which looks for
the stop file, moves `byteCounter` into its window with two reads
(`MonEnqueues`, `MonAdds`) and a reset (`MonResets`), and writes `dc_activity`.
A compiler may merge the two reads; that is the behaviour in which nothing
happens between them. Both threads call `TerminateCapture`. A file closed twice
and a handle used after `pcap_close` are undefined behaviour: the process
crashes, or goes on. A packet may end the process, too (`ReceiveExits`): the next
file of the trace cannot be opened (`error`, `tcpdump.c:1653`), a port is out of
range (`exit`, `socket_proc.c:200-203`), or a directory that did not open is closed
(`socket_proc.c:320`). `mishaps` is history: what has failed so far. The ring
buffer `queue`/`ptr` is a sequence, oldest value first. `int` is not cut to 32
bits: the bytes of three minutes stay far below it.

### SafeUpload and Uploader

`SafeUpload` knows three sets of files: those given to the uploaders, those of
which the phone has all, and those of which the server has all. A file arrives
at the server from the phone, may be sent again (it is not whole on the server
meanwhile, since `uploadFile` overwrites), and may leave the phone only when the
server has it.

`Uploader` has names instead of files: `X` (`Plain`) and `X.zip` (`Zip`), on the
phone (`local`) and on the server (`remote`), and which zips on the phone are
incomplete (`torn`). `IMAPUploader.uploadData` and `PsmnUploader.uploadData` have
the same text but for the zip, so they are the same actions, with `zipping` to
tell whose turn it is. `pc` is the place in the text: the head of the loop over
folders (`FoldersDone`, `NextFolder`), `Connect`, the head of the loop over files
(`NextFile`, `FolderDone`), the three effects of `Utilities.zip` on the storage
(`ZipOpens`, `ZipCloses`, `ZipDeletes`), the transfer (`SendBegins`, `SendEnds`) and
`Deletes`, which deletes the name that was *listed* - for a file that was zipped,
one that is already gone. `ZipFails` and `FTPFails` are the error paths; the
outcome of the test `indexOf("exist") != 0` is left open, since it is true of
nearly every message but not of all. `Dies` is the death of the process at any
step. A zip left behind, whole or half, is found by the next upload like any
other file. `collected`, `sends` and `interrupts` are history.

The refinement maps `given` to the files in collected folders, `onPhone` to the
files with their plain name or a complete zip on the phone, and `onServer` to the
files with a whole copy on the server.

### ConnTable

The kernel's side is the sockets (an inode each, `holder[s]` the processes that
have it open) and the processes (`proc[p]`, the command line, or the stage of its
end); they change at any moment while the code reads `/proc` (`Fork`, `Rename`,
`Exit`, `Reap`, `Open`, `Close`). The code's side is the table `conns`, the bins
by inode (`bin`), the two indexes with the lists of their keys, the processes
seen by this refresh with the buffer of their names (`procs`, `nameBuf`), and the
applications in the order of the file `appname` (`apps`).

`Receive` and `LookupHits`/`LookupMisses` are `UpdatePacket` and the first half of
`UpdatePacket_Core`; a miss starts a refresh, one action per thing read:
`ReadConnections` for each of the four files, `ListPids`, `AttachProcess` for each
process, then `UpdateNames` entry by entry, `CleanConnectionInfo`, `UpdateIndexes`
and `Answer`. The order in which a file lists sockets is left open. `LocalPort` and
`RemotePort` are what lines 605-629 compute, wrong bytes included.
`AttachProcess` of a process that was reaped since the listing closes the directory
that it could not open (320), which is undefined: the capture goes on, or crashes
(`AttachCrashes`). Identifiers count from 1. `owned`, `called` and `steady` are history.

### Attribution

`Attribution` is what the reader of a trace may rely on, without table, indexes or
`/proc`: each name of a process gets a number once, which it keeps; a packet gets
one answer, either none or the number of a name that some process with a socket of
it has had - or another's, if that process has exited and can no longer be asked.
`ConnTable` implements it (`Attributes`) with `apps` for the list and `SocketsOf` for
the sockets a packet may belong to: those that agree with it in the port it is
looked up by or in the hash of the remote address, which is all the code asks.

### InputTrace

`pc[c]` is the place of each of the two callers, the scheduler's thread and the
main thread: one action for each access to a shared field (`Tests`, `Tells`,
`Forgets`; `Clears`, `Fills`; `News`, `Starts`) and for each look at `ps` (`Kills`,
`IsRunning`). A `su` or `ps` that cannot be run, or whose output cannot be read, is
a mishap that is caught and forgotten: `IsRunning` then answers that there is no
collector (78-106), and `Kills` spares some of them or all (313-341). `coll[k]` is a capture on its way from a thread (`UserInputCollect`)
through a folder and a file to a process that `ps` shows (`Proceeds`); what `ps`
does not show can be neither killed nor counted as running; that the file is there,
`su` runs and `ps` shows it is one step of `Proceeds`. `kills` are the
shells that `killProcess` has left to do their work, for which it does not wait.
`mon[m]` is a thread `screenshotDecision`, with a place between `mprocs.size()` and
`mprocs.get(i)`. An exception that nobody catches ends the process (`Crashes`),
which the alarm starts again (`Restart`).

The thread of the scheduler is the loop of `Scheduler` reduced to the calls of
the collector: the check of the storage, the stop at the begin of `upload()`, the
listing of the folders (`Lists`), what happens to each (`Takes`), and the start at
the end (`Leaves`). A list of targets that does not exist, and then is never read,
is left out. `overlap`, `reads`, `excuse`, `unseen`, `torn` and `crash` are history:
they say what has happened that may explain what follows.


## 3. Runs

| Run | Checks | Shows |
| --- | --- | --- |
| `capture` | `TypeOK`, `StopLeavesQuiet`, `BoundedBacklog`, `UploadedFoldersClosed`, `BacklogInv` | with network switches, failed captures, uploads, critical storage, a crash that leaves an orphan, and failed calls of `ps`, the pipe and the stop file, a stop leaves no capture running or queued and no folder is uploaded while it is written, unless such a failure hid or spared a capture since the shells were last quiet; each lets in one command and no more |
| `flags` | `WakeLockCoversUpload`, `HoldsAccounted`, `StaleUploadFlagFromLowBattery`, `ProbeFlagHasOwner` | the lock and the two flag files are left behind only at the low battery return |
| `live` | `CaptureRecurs`, `MonitoringRecurs`, `UploadsLetGo`, `GoesRound` | through crashes, failures and changes of the network the thread comes round, monitoring comes back, captures do while the network stays of one type, uploads let go |
| `process` | `TypeOK`, `AssertionsHold`, `WindowInv`, `ActivityRemoved`, `ExitEnds` | no `MyAssert` fails in any interleaving; once `exitFlag` is set the process ends, and leaves no `dc_activity` but after a mishap named |
| `uploads` | `TypeOK`, `UploadInv`, `NothingLost`, `SentTwice`, `UploadShrinks`, `SafeUploads`, `AllArrive` | the uploaders implement `SafeUpload` whatever fails; no file is sent more than once (twice, if zipped) but for interruptions; each step brings the end of an upload nearer; every collected file is on the server and off the phone in the end |
| `conn_table` | `TypeOK`, `AttributedToHolder`, `ConnectedAttributed`, `Attributes` | while two processes fork, exit and share sockets between any two reads of `/proc`, an entry goes to a process that had its socket, and a packet of a socket that stays open is attributed; the table implements `Attribution` |
| `conn_indexes` | `AssertionsHold`, `IndexesRight`, `NoDuplicates`, `AnswerOfMatchingEntry` | with sockets that collide in port, address and hash, and a process that changes its name, the indexes agree with the table and no check that exits fails |
| `input` | `TypeOK`, `CrashesExplained`, `MonitorsReachable`, `UploadTearsUnseen`, `CriticalStops`, `CaptureRecurs` | what two threads in `stopCapture` and `doCapture` at once can break, and a `su` or `ps` that fails, and that nothing else breaks; the collector stops and comes back |
| `shown_uploading`, `switch_followed`, `shown_volume`, `local_port` | one documented statement each | the code does otherwise; see section 6 |

Bounds:

* `capture`: no network, WiFi and 4G (one network of each interface type the
  detector tells apart); storage and uploads every 2nd iteration, so that
  iterations with neither and with both occur (`live` has those with one); four
  polls in a stop, the least the proofs need and what 5 s hold; two failed calls,
  so that one may follow from the other (a capture hidden, then spared); one
  death, which leaves all the orphans there can be at a time. No low battery
  return, probes or timers, which touch neither shells nor folders.
  `CaptureView` leaves out `tracing`, which no step reads.
* `flags`: two probes (symmetric), one timed acquisition, two low battery
  returns in a life, one death: two owners of each shared thing, and one more
  than the code expects of each accident. The network does not change. No call of
  the collector fails: those failures touch neither the lock nor the flags.
* `live`: no network and 4G, so that it may be lost and found at every step (the
  switch from type to type is in `capture`, and in the proofs); storage and uploads
  in the code's ratio of 1:2; one failed call, one low battery return, one death. No probes
  and no timed acquisitions: they touch the flag of the probes and the count of the
  lock, and the run `flags` has them; `UploadsLetGoCorrect` covers any number.
* `process`: a window of 2 values filled every 2nd second, packets of 1 and 2
  bytes, 4 bytes in all: enough to fill the window, push a value out and let
  packets arrive between any two steps.
* `uploads`: two folders of passive monitoring, one of them with two files, and
  one folder of captures: a folder half done, a folder after it, an uploader
  after the other. Two interruptions among `ZipFails`, `FTPFails` and `Dies`: one to
  leave a half zip, one to break off its transfer.
* `conn_table`: two processes, so that one inherits and keeps a socket; two
  sockets with the same port and addresses of the same hash, one TCP and one
  UDP; traffic of one of them. `conn_indexes`: one process, three sockets, two of
  them with the same addresses (a connection closed and made again) and a third
  with their port; traffic of all, and of none of them. Ports of two bytes of two
  values, so that swapping the bytes matters; a clock of two readings, one timeout
  apart, so that an entry is fresh or stale. The kernel does not change from a
  lookup to its answer (`Computing`): those steps read nothing of it. Each
  name is one of two, which are symmetric. `MCView` leaves out what a refresh
  clears before it reads it. `IdWidth` is 256 and the tables are far smaller:
  with a smaller `IdWidth`, `ConnectedAttributed` does not hold (section 6).
  `ConnTable`'s table itself has no bound; `MAX_CONNS` is not tested by the code.
* `input`: four captures and four monitors at a time, which is more than ever
  exist at once in this instance; one change of the screen in a life, one mishap
  (a capture that ends by itself, or a `su` or `ps` that fails), one death. One change of the screen puts the main thread
  at any place of `stopCapture` or `doCapture` during any call of the scheduler's,
  and the scheduler's calls are not bounded, so all overlaps of two calls occur.

The runs with `CHECK_DEADLOCK FALSE` are of a capture that ends (`CaptureProcess`) or
may crash (`ConnTable`).

### Fairness

`FairSpec` of `Scheduler` has weak fairness of the scheduler thread, of the
alarm receiver's second half, of the probes' threads, the lock's timer, the
shells' reads and polls, and the restart of the service (it is sticky, and an
alarm starts it again). `PsmnCallback` has strong fairness: the main thread
handles its messages in order, so a queued service call is made although other
callbacks keep coming and a later stop may replace it. Networks, users, alarms,
crashes and failures are not fair: nothing makes them happen. The deaths of the
process are bounded; a phone that kills it for ever collects nothing.

`FairSpec` of `CaptureProcess` has weak fairness of each thread, except in the
wait for a packet, which has no timeout.

`FairSpec` of `InputTrace` has weak fairness of the scheduler's thread, of each
caller, of the threads of monitors and captures, of the shells that kill, and of
the restart. The screen, failures, deaths and the storage are not fair. The loop
of a monitor (`Looks`) needs none: it has no end until it is told.

`FairSpec` of `Uploader` has weak fairness of the thread that uploads: calls
return (they may fail), and uploads are started again. The latter is an
assumption about the user, who leaves the phone idle and charged from time to
time. `AllArrive` is about finitely many folders: with new ones for ever, a
budget that is used up by them each time and an order of `listFiles` that keeps
preferring them, an old folder might wait for ever; nothing in the code prevents
that, nor makes it likely.

### Assumptions about time

The model keeps no clock. Five facts about time are built in:

* a stop's 5 s hold four polls of 1.0 s + 0.2 s (`PollsAssumption`), and a
  command in a pipe takes one to be started and one to be ended;
* in the 10 s that `Sleep` stands for, the shell reads its pipe and the main
  thread makes the service calls queued (Android would otherwise report that
  the application does not respond);
* in `InputTrace`, the sleep of 10 s outlasts the start of a capture, a kill, a
  monitor's last round and a callback of the main thread (`Wakes`);
* in `InputTrace`, the uploads of captures, passive monitoring and probing
  results that come before the input collector's folders, with their FTP
  connections, outlast a kill and a monitor's last round (`Lists`);
* at most one orphan shell exists: a process lives longer than it takes to stop
  the captures left by its predecessor.


## 4. Proofs

For every value of the constants under the assumptions each module names
(`PollsAssumption`: at least four polls; intervals positive, the upload interval
a multiple of the storage interval; capacities positive; finitely many files,
folders, sockets and processes). Some have a further hypothesis, named below:
`ConnectedCorrect` and `FewSocketsAttributed`, and the liveness theorems
`ExitEndsCorrect`, `ThreadGoesRound`, `UploadsLetGoCorrect`,
`MonitoringRecursCorrect` and `CaptureRecursCorrect`.

`SchedulerProofs`:

* `TypeCorrect`, `HoldsCorrect`: `TypeOK` and `HoldsAccounted` are inductive
  only together. The release of a timed acquisition decrements the count, and
  it is only the accounting that keeps the count a natural number; the
  accounting is a sum, so it needs the types. `WakeLockCorrect` follows.
* `UploadFlagCorrect`: from `FlagInv`, which adds where in `upload()` the flag is
  set. `ProbeFlagCorrect`: inductive as it stands.
* `BacklogCorrect`: `BacklogInv` measures each shell by `Work(s)`, the polls that
  would drain it. At most four; at most three where a `ps` may soon allow a start,
  two where one is about to add to it; no more than the polls left during a stop;
  none from the stop of an upload to its start. Each bound has two more for each of
  `faults`: a `ps` that hides a capture lets one more command in, and a stop without
  its file drains nothing, so that the start after it finds what there was. None of
  these is inductive alone: a start is allowed where `ps` shows
  no capture, which says nothing of the pipe, so the bound at the start rests on
  the drain of the last stop, which rests on the bound before it.
  `StopCorrect`, `BacklogBounded` and `UploadsClosedFolders` follow, for any number
  of failures: quiet is what a stop guarantees while `faults = 0`, and what it
  restores when it happens to drain what the failures let in.
* `ThreadGoesRound`: `FairSpec /\ []NeverStuck /\ []FewFaults => GoesRound`,
  with the four polls the code's stop has time for. Wherever the thread is, it stays
  or goes on along `After`, whatever the other actors do, unless the process dies
  (`ThreadMoves`, `OthersMoves`). A place without a sleep is left by the fairness of
  the thread (`PlainLeft`), a stop after four polls (`StopLeft`), the pause of
  `detect` when the shells have read their pipes (`PauseLeft`), which `Work` bounds.
  These links make the chains `LoopToStorage`, `StorageToUpload`, `UploadPrepared`
  and `UploadDone`, and they close in `SleepRecurs`.
* `UploadsLetGoCorrect`: from that, from `ProcessComesBack`, and from
  `HoldsAccounted` and `StaleUploadFlagFromLowBattery`, which leave nobody outside
  `upload()` to hold the lock or the flag.
* `MonitoringRecursCorrect`: a start of the service may be followed in the queue by
  a stop, and both may be made late. `ServiceInv` relates the service, the queue and
  the place of the thread: once the queue is empty the service is what the last call
  made of it, and where the thread sleeps that was a start. The calls of a sleep are
  made before the sleep ends (`CallsMade`), so the service is up in each of them.
* `CaptureRecursCorrect`: suppose the phone stays on networks of a type, with no
  capture and no upload flagged from some time on (`Starves`). Then a command in a
  pipe cannot wait for ever, and one that was read would be a capture
  (`CommandWaits`, `CommandsRead`); so the pipes are empty. The thread still goes
  round, and so it sees the network in `detect`; each of the ways from there starts a
  capture or leads to one that does (`SeesNetwork`, `NoStarving`): a contradiction.
  The fairness of the shells' reads is used, and nothing of their failures.

On the hypotheses. Weak fairness moves an actor only if it *can* move, and `ENABLED`
is not expanded by the prover. `NeverStuck` says just that, of the thread, the
polls, the reads, the service calls, the second half of a probe's alarm and the
restart, and nothing of where the steps lead. It holds by the guards of the actions,
says nothing of the code, and so is a hypothesis and no property of a run; who
adds it to `SchedulerLive.cfg` as an `INVARIANT` finds that it holds there. The
theorems take it from there, for all networks, tests, timers, intervals and numbers
of deaths. `FewFaults` is `faults <= 2`: it limits the failures that hid or spared a
capture since all was last quiet, not those in all. With it the pipes hold a fixed
number of commands; that shells work off *any* number of them is an induction over
it. For the same reason `MonitoringRecursCorrect` and `CaptureRecursCorrect` assume
`<>[](pc # "dead")`: the model bounds the deaths, but that a step bounded by a
counter stops happening is an induction over the counter. A chain of leads-to with
as many links as places needs no induction; for an arbitrary number of polls it
would, hence the fixed four. `CaptureRecurs` itself speaks of a phone where calls
have stopped failing (`NoCallFails`): a command lost at each start would be none.

`IMAPCollectorProofs` has the lemmas on the operators of capture control: the
types they keep and the work they leave.

`CaptureProcessProofs`:

* `TypeCorrect`.
* `WindowCorrect`, `AssertionsCorrect`: that `totBytes` is never less than the
  value about to leave the window does not follow from the value having been
  added: value and total are different reads of a counter that another thread
  changes. `WindowInv` says that the values of the window *fit* in the total:
  there is a sequence of partial sums that ends below it. Stated with an
  existential it needs no recursion and no induction over the window. Between
  the two reads the total is short by what the second will bring, and that is
  enough because `byteCounter` does not fall between them, the reset being the
  monitor's own - unless `pcap_dump` writes back a sum it began before the last
  reset, when the counter was zero: that is the conjunct on `reg`.
* `ActivityCorrect`: `ActivityInv` says that while nothing has gone wrong
  `exitFlag` is set exactly when the monitor has left its loop, and that each
  thread removes the file before it closes anything.
* `ExitEndsCorrect`: `FairSpec /\ []NeitherStuck => ExitEnds`. `ExitInv` has, once
  `exitFlag` is set, one of the threads on its way through `TerminateCapture`:
  mostly the monitor, since the main thread may be waiting for a packet. A thread
  on its way only goes on (`Onwards`), or the process ends under it. `NeitherStuck`
  is the hypothesis about `ENABLED`, as `NeverStuck` above: it holds by the guards, in
  the instance of the run `process` too.

`UploaderProofs`:

* `TypeCorrect`, `UploadInvCorrect`: inductive together. `UploadInv` says what
  each deletion rests on: a listed name is on the phone, a half zip has its file
  next to it, what is being sent is whole unless it is a zip found in the folder,
  and what was sent has arrived or was such a half zip.
* `UploadsAreSafe`: `Spec => Safe!Spec`. A send is a step `SendAgain`, then `Arrive`;
  a deletion `Remove`, or nothing, when what is deleted is a half zip or a name
  already gone; the steps of `zip` are nothing, since at each of them the file or
  its whole zip is on the phone.
* `NothingIsLost`: from `UploadsAreSafe` and the abstract specification alone.
* `SentTwiceCorrect`: `SendsInv` counts, beside the sends made, those the names on
  the phone are still good for (`Left`): a plain file its whole allowance, a zip
  one. The sum never exceeds the allowance and the interruptions. A send that begins
  moves one from the second to the first; when it ends without its deletion, the
  one that comes back is paid for by the interruption.
* `UploadShrinksCorrect`, `StepsLeftNat`: that an upload ends, as a variant.
  `StepsLeft` counts what is left of it: the uploaders whose turn comes, the folders
  listed and not yet visited, the names of the one in hand, the place within a
  name. Every step lowers it, the failing ones included, and a collector that adds
  a file leaves it alone, since folders and names are listed before they are
  visited. It is a natural number, so no upload has more steps than it had at its
  beginning.

`ConnTableProofs`, from `ConnTableAssumption` (finitely many sockets and
processes, each socket with its addresses):

* `TypeCorrect`: the number of an entry's application is that of a line of
  `appname`, which only grows.
* `HolderCorrect`: the strengthening follows the refresh: the processes seen are
  alive or dead but were born, the name in the buffer of a process is one of its
  command lines or the process is dead, and an entry was given its process by
  the process's own list of open files.
* `LocalPortOtherwise`: what remains true of the comment at `socket_proc.c:84`; see
  section 6.
* `TableCorrect`, and from it `IndexesCorrect`, `AssertionsCorrect`,
  `NoDuplicatesCorrect`, `AnswerCorrect`: the indexes are cleared by the lists made
  when they were filled. So "clear during a refresh" rests on "right before it",
  and that on the order of `CleanConnectionInfo`, which leaves one entry for each
  key and none without an application, before the indexes are filled again.

`AttributionProofs`:

* `AttributionCorrect`: `Spec => Attributes`. A change of sockets or processes is
  `Happens`, `GetAppID` of a name not yet in the list `Lists`, a hit or the answer
  after a refresh `Answers`; every other step is nothing to the reader of the
  trace. An answer is rightful by `AnswerOfMatchingEntry` for the
  socket and `AttributedToHolder` for the name, and so needs both invariants at
  once; a new name is some process's because the buffer holds nothing else
  (`BufInv`).
* `AnswersStayTrue`, `NumbersStay`: what follows from the abstract specification
  alone, and so of the code.

`ConnTableRefreshProofs`:

* `ConnectedCorrect`: `ConnectedAttributed`, *as long as* the table has no more
  entries than a byte of `iNode2connid` tells apart (`Spec /\ []Wide`); beyond that
  it does not hold. `RefreshInv` follows a socket that stays open with all its
  holders through the refresh: once its file of `/proc/net` has been read it is in
  a bin; while processes are attached, its entry has one of its holders, or one is
  among those still to be looked at; while names are read, its entry has a name or
  is still ahead; the clean-up may drop the entry only for a later one with the
  same addresses (the latest of finitely many exists); and a right index knows the
  remote address, so that the search finds *some* entry - which need not be the
  one of that socket.
* `TableBounded`, `FewSocketsAttributed`: `AgeInv` tells the entries that were there
  before a refresh from those it made, by their place. Of each age a socket has one
  entry: of the older since the last clean-up left one for each address, of the newer
  since a file lists a socket once and a socket is in one file. So the table has at
  most twice as many entries as there are sockets, and the hypothesis `[]Wide` can be
  had from a constant: `2 * Cardinality(Socket) <= IdWidth`. The bound is reached (two
  sockets, four entries in the run `conn_table`). In the code it counts connections
  that the kernel still lists after their last holder has closed them too (section 7).

`InputTraceProofs`, from `InputTraceAssumption` (the bounds are natural numbers):

* `CrashesCorrect`: `FieldInv` says that a caller that is not overlapped finds
  `ssd` as it left it; `ListInv` that a monitor within the list saw it filled, so
  that an emptied one has been read twice.
* `MonitorsCorrect`: the difficulty is that `isRunning` asks for a process and the
  monitor is a thread. `MonitorInv` says that, without an excuse, the field holds
  a monitor only while a capture is alive that no shell is about to kill; so when
  `ps` shows none and none is starting, the field is null and no monitor is
  overwritten. A `ps` that fails shows none under a collector that runs: that is one
  more excuse. A kill that fails needs none, since the monitor was told before.
* `UploadTearsCorrect`: `UploadInv` says that from the stop of an upload to its
  end each capture alive will be killed, was out of the stop's sight, or was spared
  by a kill that failed.

Only model-checked:

* `CriticalStops` and `CaptureRecurs` of `InputTrace`: that all captures have ended
  or started takes one link for each of them, and the screens and failures that
  disturb them stop by a counter: both are inductions over data;
* `AllArrive`: an induction over folders and interruptions. That a single upload
  ends is the part of it that is proved, as a variant;
* the violations.

Every other property of a passing run is a theorem.


## 5. Hazards

`PROJECT.json` lists them at the line where each bites, with the properties that
would catch it, or the reason why none does.


## 6. Where the code differs from what is said of it

* `ShownUploading`: after `upload()` returns at low battery
  (`SchedulerThread.java:282`) the screen says "Is Uploading: true" until the next
  upload that ends, a probe that `LoopHead` finds flagged as well, or a restart;
  the wake lock stays held.
* `SwitchFollowed`: the comment at `InterfaceDetector.java:81` has the capture
  adjusted after a switch; a capture started by the storage check or `upload()`
  in between is not.
* `ShownVolume`: the comment at `user_input.c:390` has the file show the bytes of
  the past 180 s. A reset between the read and the write of an addition counts
  a period twice, and what arrives between the two reads of `byteCounter` stays
  in the total for good. The total never falls below the window it stands
  for (`WindowInv`): an idle phone may be taken for a busy one.
* `AnswerHasLocalPort`: the comment at `socket_proc.c:84` has `port2connid` map the
  local port. For a packet downlink line 608 overwrites the destination port with
  the source port's swapped bytes: the index is read at a port that is not the
  packet's, and the entry found is taken without a comparison of addresses. It is
  the only thing wrong with the comment: `LocalPortOtherwise` proves it of all
  other packets.

Seen in the models, without a run of their own:

* A phone that changes between WiFi and the mobile network after each `detect` has
  looked and before the capture starts gets none: the start is for the type that was
  seen, which has no address any more. With the storage critical at each check
  nothing else starts one, and this may go on; hence `CaptureRecurs` speaks of a
  phone that stays on networks of one type.
* With both flag files there, the loop deletes both (`SchedulerThread.java:355-358`),
  and `RobustDataCollector.java:70` then shows "Is Active Probing: false" while a
  test runs (`LoopHead` between `TestBegins` and `TestEnds`).
* `TerminateCapture` returns when `pcap_stats` fails (`tcpdump.c:1943`,
  `TerminateStats`), where `user_input.c:386` and `tcpdump.c:1380` say that the
  program has ended.
* `socket_proc.c:140` says "read /proc/pid/cmdline"; for a process that has exited
  `fgets` (149) reads nothing and the entry gets the name an earlier refresh left
  in the buffer. Hence the exception in `AttributedToHolder`.
* `socket_proc.c:81` has the bins map inodes to entries; they store identifiers as
  bytes (82, 246), and beyond 256 entries name others. Hence `IdWidth`.
* `InputTrace.java:48` says that the list of targets is read "only ... when the
  phone launches"; `doCapture` reads it each time (185), under the monitors.
* The timeout of `Definition.java:13` is 10000 ms; its comment says 5 seconds.
* `UInpUploader.java:101` takes the absolute path of a compressed screenshot for its
  name: its transfer fails, and what remains of the folder waits for later
  uploads; a screenshot that cannot be decoded is deleted (97-99).

Checked and found right, in spite of first appearances: the shared
`isActiveProbing` file never blocks uploads for good; the stale `ps` output never
makes more than two commands pile up while no call fails, and each failure adds one
at most until a stop has left all quiet; a timeout never releases the upload's
reference to the lock; `MyAssert` never fails; an upload that finds an
empty folder of a collector that is starting deletes it, and the collector comes
back all the same; the indexes of `socket_proc.c` are never stale, although they
are cleared key by key.


## 7. Not modelled, and why

* The values of the policy file and the arithmetic on them (int products with
  1000, which wrap beyond 2147483 s). A policy file that does not parse kills the
  process in the model as in the code.
* The timers and receivers of `PassiveMonitoringService`. Whether its files are
  closed when `psmnList` names them (`SchedulerThread.java:264, 276`) depends only on
  how long the main thread takes, for which the code has no bound.
* The files of the probing results (`AcpbUploader.java`) and the files within a
  folder of the input collector (`UInpUploader.java:77-138`).
* Screenshots: the signals that turn them on and off, and that one is lost when
  the collector is not in `ps` yet. No other code depends on them.
* The shells of `UserInputCollect` that never end (`waitFor` waits for a shell
  nobody closes), and the folders of collectors that have ended.
* Connections that `/proc/net` lists after their last holder has closed them (inode
  0, or none of any process): they get neither process nor application and leave
  the table in the clean-up, but take places until then.
* The contents of the table of connections beyond `MAX_CONNS` (`socket_proc.c:225`):
  what the overflow overwrites depends on the build.
* `onCreate` of the scheduler service on a phone without an SD card.
* Another process that writes `dc_activity` at the same time: an orphan capture
  does so until the next stop.
* A phone on WiFi and the mobile network at once: `net` is the one
  `getCurrentInterfaceType` would report.
* The two deletes at the head of the loop are one step.
* A stop file that cannot be deleted: it ends captures sooner than they would end
  otherwise, which `CaptureEnds` allows at any time. A process without a root shell
  (`rootProcess` null) dies when it writes to it, as `Killed` may.
* A capture that is polled in a stop and whose `pcap_stats` fails
  (`tcpdump.c:1940-1943`) goes on until its next poll: `PollPeriod` ends each capture
  at its first.
* A list of folders that is null, of a directory that is gone (`SchedulerThread.java:287,
  289`): the exception ends the process, as `Dies` may, within its bound.
* A `delete()` that fails: no caller looks at its result; the file stays and is
  sent again by the next upload.
* Probe measurements (socket I/O against a server that is not here), the user
  interface, TCP settings (dead code), the overloads of `uploadData` with one
  argument (dead code), and the vendored libpcap and tcpdump.


## 8. Plan

1. `IMAPCollector`, `Scheduler` and their proofs: done. The core, and the part
   whose failure loses everything else.
2. `CaptureProcess` and its proofs: done.
3. `SafeUpload`, `Uploader` and their proofs: done for the uploaders of captures and
   passive monitoring.
4. `ConnTable`, `Attribution` and their proofs: done.
5. `InputTrace` and its proofs: done.
6. `PassiveMonitoring`: timers and receivers against `onDestroy`.
7. `Policy`: the intervals as 32-bit products.
8. The files of `UInpUploader` and `AcpbUploader`.
9. Compositions: `Uploader` below the `upload()` of `Scheduler` (what it lists is
   closed), `CaptureProcess` as an implementation of the capture that
   `IMAPCollector` takes for granted (ends within a poll, however its threads
   interleave).
