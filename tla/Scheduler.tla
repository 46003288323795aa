------------------------------ MODULE Scheduler ------------------------------
(***************************************************************************)
(* The scheduler of the data collector: scheduler/SchedulerThread.java     *)
(* with everything it drives.                                              *)
(*                                                                         *)
(* One loop iteration of SchedulerThread.run is: look at the two flag      *)
(* files, detect an interface switch, check the storage, keep the passive  *)
(* monitoring service started, perhaps upload, sleep ten seconds.  pc is   *)
(* the place of the thread; the actions below are its steps, cut where     *)
(* another actor can run in between.  The other actors are the main thread *)
(* of the Android process (screen, alarm and service callbacks), the       *)
(* active probing threads, the root shells with their captures (module     *)
(* IMAPCollector), the network, the wake lock's timer, and a crash of the  *)
(* process at any point.                                                   *)
(*                                                                         *)
(* Values the code reads and this module does not keep (battery level,     *)
(* free storage, hour, user activity, amount of collected data) are chosen *)
(* when they are read.                                                     *)
(***************************************************************************)
EXTENDS IMAPCollector, FiniteSets

CONSTANTS
    Networks,       \* the networks the phone may be on
    StorageEvery,   \* DATA_STORAGE_CHECK_INTERVAL, in loop iterations
    UploadEvery,    \* DATA_UPLOAD_CHECK_INTERVAL, in loop iterations
    Tests,          \* bound: active probing threads that may exist at once
    MaxTimers,      \* bound: timed wake lock acquisitions outstanding
    MaxLowReturns,  \* bound: low battery returns in one life of the process
    MaxKills        \* bound: deaths of the process

AllNetworks == {"none", "wifi", "4G", "3G", "2G"}

ASSUME NetworksAssumption == Networks \subseteq AllNetworks /\ Networks # {}
ASSUME EveryAssumption ==
    /\ StorageEvery \in Nat \ {0}
    /\ UploadEvery \in Nat \ {0}
    /\ UploadEvery % StorageEvery = 0      \* 120 s and 60 s in the code
ASSUME BoundsAssumption ==
    /\ MaxTimers \in Nat
    /\ MaxLowReturns \in Nat
    /\ MaxKills \in Nat

VARIABLES
    pc,         \* where the scheduler thread is; "dead" without a process
    tick,       \* sleepTimeTotal, in iterations, modulo UploadEvery
    net,        \* the network the phone is on
    cur,        \* currentInterfaceType in InterfaceDetector.detect
    lastType,   \* InterfaceDetector.lastInterfaceType, -1 at first
    uploading,  \* the file isUploading exists
    acpb,       \* the file isActiveProbing exists
    probe,      \* the main thread, in ActiveProbingReceiver.onReceive or not
    test,       \* test[t]: life of a NewTestThread
    alarm,      \* the repeating alarm of active probing is set
    count,      \* reference count of the wake lock
    timers,     \* timed acquisitions whose timeout has not yet fired
    lowReturns, \* history: uploads of this life left at the low battery return
    psmnUp,     \* PassiveMonitoringService exists
    psmnQueue,  \* service calls the main thread has still to make
    tracing,    \* the user input collector runs
    listed,     \* shells whose capture writes a folder of imapList
    recent,     \* less than TWO_UPLOADS_MIN_INTERVAL since the last upload
    kills       \* deaths of the process so far

lockVars  == <<count, timers, lowReturns>>
probeVars == <<probe, test, alarm>>
flagVars  == <<uploading, acpb>>
psmnVars  == <<psmnUp, psmnQueue>>
ifaceVars == <<net, cur, lastType>>
vars == <<pc, tick, ifaceVars, flagVars, probeVars, lockVars, psmnVars,
          tracing, listed, recent, kills, imapVars>>

\* The places of upload() between acquireCPU and releaseCPU.
UploadPCs == {"upStop", "upStopOthers", "upFlag", "upList", "upStart",
              "upPsmn", "upBattery", "upSend", "upClear", "upLog",
              "upRelease"}
\* The sleeps of stopCollectingIMAPData.
StopPCs == {"noNetStop", "switchStop", "storageStop", "upStop"}
PCs == {"dead", "loop", "detect", "detectSame", "detectStart", "detectPause",
        "switchStart", "storage", "storageStart", "storageStopOthers",
        "storageOthers", "psmn", "uploadCheck", "config", "decide", "sleep"} \cup StopPCs \cup UploadPCs

ThreadTypeOK ==
    /\ pc \in PCs
    /\ tick \in 0..(UploadEvery - 1)
    /\ net \in Networks
    /\ cur \in IfaceType \cup {NoType}
    /\ lastType \in IfaceType \cup {NoType, -1}
    /\ listed \in SUBSET Shells
    /\ recent \in BOOLEAN
    /\ kills \in Nat
FlagTypeOK ==
    /\ uploading \in BOOLEAN
    /\ acpb \in BOOLEAN
    /\ probe \in {"idle", "passed"}
    /\ test \in [Tests -> {"none", "started", "running"}]
    /\ alarm \in BOOLEAN
LockTypeOK ==
    /\ count \in Nat
    /\ timers \in Nat
    /\ lowReturns \in Nat
ServiceTypeOK ==
    /\ psmnUp \in BOOLEAN
    /\ psmnQueue \in Seq({"create", "destroy"})
    /\ tracing \in BOOLEAN

TypeOK == /\ IMAPTypeOK /\ ThreadTypeOK /\ FlagTypeOK
          /\ LockTypeOK /\ ServiceTypeOK

\* A phone on which the app was never run, and SchedulerThread just started.
Init ==
    /\ IMAPInit
    /\ pc = "loop" /\ tick = 0
    /\ net \in Networks /\ cur = NoType /\ lastType = -1
    /\ uploading = FALSE /\ acpb = FALSE
    /\ probe = "idle" /\ test = [t \in Tests |-> "none"] /\ alarm = FALSE
    /\ count = 0 /\ timers = 0 /\ lowReturns = 0
    /\ psmnUp = FALSE /\ psmnQueue = <<>>
    /\ tracing = FALSE /\ listed = {} /\ recent = FALSE /\ kills = 0

(***************************************************************************)
(* Helpers.                                                                *)
(***************************************************************************)

Goto(from, to) == pc = from /\ pc' = to

\* getCurrentInterfaceType
TypeOf(n) == CASE n = "none" -> NoType [] n = "wifi" -> WifiType
               [] OTHER -> CellType

\* upload() talks to the FTP server over any of these.
UploadNets == {"wifi", "4G", "3G"}

\* getInterfaceNameByType: the interface of the current network has an
\* address; one the phone has just left may still have one.
Named(t) == {b \in BOOLEAN : t = TypeOf(net) => b}

\* startService and stopService return at once; the main thread makes the
\* calls onCreate and onDestroy later, in order, and only on a change.
psmnWanted == IF psmnQueue = <<>> THEN psmnUp
                                  ELSE psmnQueue[Len(psmnQueue)] = "create"
startPsmn == /\ psmnQueue' = IF psmnWanted THEN psmnQueue
                                           ELSE Append(psmnQueue, "create")
             /\ UNCHANGED psmnUp
stopPsmn  == /\ psmnQueue' = IF psmnWanted THEN Append(psmnQueue, "destroy")
                                           ELSE psmnQueue
             /\ UNCHANGED psmnUp

\* Mutant: setReferenceCounted(false), so that one release undoes them all.
releaseCPUWholly == count' = 0 /\ timers' = 0

\* ResourceLock.acquireCPU and releaseCPU.  The lock is reference counted;
\* the count reaching zero cancels the timers.
acquireCPU == count' = count + 1
releaseCPU == /\ count' = IF count > 0 THEN count - 1 ELSE 0
              /\ timers' = IF count = 1 THEN 0 ELSE timers

(***************************************************************************)
(* SchedulerThread.run, up to the upload.                                  *)
(***************************************************************************)

\* Both flags set: each of them keeps the other activity from starting.
LoopHead ==
    /\ Goto("loop", "detect")
    /\ uploading' = (uploading /\ ~acpb)
    /\ acpb' = (acpb /\ ~uploading)
    /\ UNCHANGED <<tick, ifaceVars, probeVars, lockVars, psmnVars, tracing,
                   listed, recent, kills, imapVars>>

\* Mutant: the first call of a process makes the last type, which is not
\* known, the current one, instead of the other way round.
DetectSwapped ==
    LET now    == IF lastType = -1 THEN lastType ELSE TypeOf(net)
        before == lastType
    IN  /\ pc = "detect"
        /\ cur' = now
        /\ lastType' = now
        /\ \/ /\ now = before
              /\ pc' = "detectSame"
              /\ UNCHANGED imapVars
           \/ /\ now # before
              /\ pc' = IF now = NoType THEN "noNetStop" ELSE "switchStop"
              /\ beginStop
        /\ UNCHANGED <<tick, net, flagVars, probeVars, lockVars, psmnVars,
                       tracing, listed, recent, kills>>

\* InterfaceDetector.detect, up to the branch on a switch.  The first call
\* of a process takes the current type for the last one.
Detect ==
    LET now    == TypeOf(net)
        before == IF lastType = -1 THEN now ELSE lastType
    IN  /\ pc = "detect"
        /\ cur' = now
        /\ lastType' = now
        /\ \/ /\ now = before
              /\ pc' = "detectSame"
              /\ UNCHANGED imapVars
           \/ /\ now # before
              /\ pc' = IF now = NoType THEN "noNetStop" ELSE "switchStop"
              /\ beginStop
        /\ UNCHANGED <<tick, net, flagVars, probeVars, lockVars, psmnVars,
                       tracing, listed, recent, kills>>

\* Mutant: a missing capture is started on Wi-Fi only.
DetectSameOnWifi ==
    /\ pc = "detectSame"
    /\ \E running \in BOOLEAN :
          /\ isIMAPCollectorRunning(running)
          /\ pc' = IF ~uploading /\ cur = WifiType /\ ~running
                     THEN "detectStart" ELSE "storage"
    /\ UNCHANGED <<tick, ifaceVars, flagVars, probeVars, lockVars, psmnVars,
                   tracing, listed, recent, kills>>

\* The same network as before: is a capture missing?
DetectSame ==
    /\ pc = "detectSame"
    /\ \E running \in BOOLEAN :
          /\ isIMAPCollectorRunning(running)
          /\ pc' = IF ~uploading /\ cur # NoType /\ ~running
                     THEN "detectStart" ELSE "storage"
    /\ UNCHANGED <<tick, ifaceVars, flagVars, probeVars, lockVars, psmnVars,
                   tracing, listed, recent, kills>>

\* ... it is, as far as detect has seen: start one, on the type it has seen.
DetectStart ==
    /\ pc = "detectStart"
    /\ \E named \in Named(cur) :
          /\ startCollectingIMAPData(cur, named)
          /\ pc' = IF named THEN "detectPause" ELSE "storage"
    /\ UNCHANGED <<tick, ifaceVars, flagVars, probeVars, lockVars, psmnVars,
                   tracing, listed, recent, kills>>

\* Mutant: no sleep after the start in detect.
DetectPauseDropped ==
    /\ Goto("detectPause", "storage")
    /\ UNCHANGED <<tick, ifaceVars, flagVars, probeVars, lockVars, psmnVars,
                   tracing, listed, recent, kills, imapVars>>

\* Thread.sleep(2000): long enough for the shell to read the command.
DetectPause ==
    /\ Goto("detectPause", "storage")
    /\ Settled
    /\ UNCHANGED <<tick, ifaceVars, flagVars, probeVars, lockVars, psmnVars,
                   tracing, listed, recent, kills, imapVars>>

\* stopCollectingIMAPData returns, wherever it was called from.
StopReturns ==
    /\ pc \in StopPCs
    /\ endStop
    /\ pc' = CASE pc = "noNetStop"   -> "storage"
               [] pc = "switchStop"  -> "switchStart"
               [] pc = "storageStop" -> "storageStopOthers"
               [] pc = "upStop"      -> "upStopOthers"
    /\ UNCHANGED <<tick, ifaceVars, flagVars, probeVars, lockVars, psmnVars,
                   tracing, listed, recent, kills>>

\* The network switched: capture on the new one.
SwitchStart ==
    /\ Goto("switchStart", "storage")
    /\ \E named \in Named(cur) : startCollectingIMAPData(cur, named)
    /\ UNCHANGED <<tick, ifaceVars, flagVars, probeVars, lockVars, psmnVars,
                   tracing, listed, recent, kills>>

\* Mutant: the storage check starts a capture whether or not one runs.
StorageCheckBlind ==
    /\ pc = "storage"
    /\ \/ /\ tick % StorageEvery # 0
          /\ pc' = "psmn"
          /\ UNCHANGED imapVars
       \/ /\ tick % StorageEvery = 0
          /\ pc' = "storageStop"
          /\ beginStop
       \/ /\ tick % StorageEvery = 0
          /\ pc' = "storageStart"
          /\ UNCHANGED imapVars
    /\ UNCHANGED <<tick, ifaceVars, flagVars, probeVars, lockVars, psmnVars,
                   tracing, listed, recent, kills>>

\* The storage check, every DATA_STORAGE_CHECK_INTERVAL: stop every collector
\* when storage is critical, else look for a capture that is missing ...
StorageCheck ==
    /\ pc = "storage"
    /\ \/ /\ tick % StorageEvery # 0
          /\ pc' = "psmn"
          /\ UNCHANGED imapVars
       \/ /\ tick % StorageEvery = 0
          /\ pc' = "storageStop"
          /\ beginStop
       \/ /\ tick % StorageEvery = 0
          /\ \E running \in BOOLEAN :
                /\ isIMAPCollectorRunning(running)
                /\ pc' = IF running THEN "storageOthers" ELSE "storageStart"
    /\ UNCHANGED <<tick, ifaceVars, flagVars, probeVars, lockVars, psmnVars,
                   tracing, listed, recent, kills>>

\* ... and start one, on the type of the moment.
StorageStart ==
    /\ Goto("storageStart", "storageOthers")
    /\ \E named \in Named(TypeOf(net)) :
          startCollectingIMAPData(TypeOf(net), named)
    /\ UNCHANGED <<tick, ifaceVars, flagVars, probeVars, lockVars, psmnVars,
                   tracing, listed, recent, kills>>

\* Storage is critical: stop passive monitoring and the input collector too.
StorageStopOthers ==
    /\ Goto("storageStopOthers", "psmn")
    /\ stopPsmn
    /\ tracing' = FALSE
    /\ UNCHANGED <<tick, ifaceVars, flagVars, probeVars, lockVars, listed,
                   recent, kills, imapVars>>

\* Storage is not critical: keep the input collector and the service running.
StorageOthers ==
    /\ Goto("storageOthers", "psmn")
    /\ tracing' = TRUE
    /\ startPsmn
    /\ UNCHANGED <<tick, ifaceVars, flagVars, probeVars, lockVars, listed,
                   recent, kills, imapVars>>

\* Mutant: the service is started by the storage check only.
StartPassiveMonitoringDropped ==
    /\ Goto("psmn", "uploadCheck")
    /\ UNCHANGED <<tick, ifaceVars, flagVars, probeVars, lockVars, psmnVars,
                   tracing, listed, recent, kills, imapVars>>

\* The service is started in every iteration, storage critical or not.
StartPassiveMonitoring ==
    /\ Goto("psmn", "uploadCheck")
    /\ startPsmn
    /\ UNCHANGED <<tick, ifaceVars, flagVars, probeVars, lockVars, tracing,
                   listed, recent, kills, imapVars>>

\* Every DATA_UPLOAD_CHECK_INTERVAL, unless active probing runs or the last
\* upload is recent, call upload().
UploadCheck ==
    /\ pc = "uploadCheck"
    /\ pc' = IF tick % UploadEvery = 0 /\ ~acpb /\ ~recent THEN "config"
                                                           ELSE "sleep"
    /\ UNCHANGED <<tick, ifaceVars, flagVars, probeVars, lockVars, psmnVars,
                   tracing, listed, recent, kills, imapVars>>

\* Thread.sleep(10 s): long enough for the shells to settle, and for the main
\* thread to make its calls: Android kills a process whose main thread hangs.
Sleep ==
    /\ Goto("sleep", "loop")
    /\ Settled /\ psmnQueue = <<>>
    /\ tick' = (tick + 1) % UploadEvery
    /\ UNCHANGED <<ifaceVars, flagVars, probeVars, lockVars, psmnVars,
                   tracing, listed, recent, kills, imapVars>>

(***************************************************************************)
(* SchedulerThread.upload.                                                 *)
(***************************************************************************)

\* What the process kept in memory is lost, when it dies or the phone does.
memoryLost ==
    /\ kills < MaxKills
    /\ kills' = kills + 1
    /\ pc' = "dead" /\ tick' = 0
    /\ cur' = NoType /\ lastType' = -1
    /\ probe' = "idle" /\ test' = [t \in Tests |-> "none"]
    /\ count' = 0 /\ timers' = 0 /\ lowReturns' = 0
    /\ psmnUp' = FALSE /\ psmnQueue' = <<>>
    /\ listed' = {}
    /\ UNCHANGED <<net, flagVars, recent>>

\* The process dies.  Files, root processes and alarms stay, and Android
\* starts the service again (Restart).
processDies ==
    /\ memoryLost
    /\ IdleShell("orphan") \/ IdleShell("app")      \* bound: one orphan
    /\ abandonShell
    /\ UNCHANGED <<alarm, tracing>>

\* downloadConfig and parsePolicyFile, when there is a network for it.  Only
\* DocumentException is caught: a policy that lacks an element, or holds a
\* number that does not parse, kills the process.
Config ==
    \/ /\ Goto("config", "decide")
       /\ UNCHANGED <<tick, ifaceVars, flagVars, probeVars, lockVars,
                      psmnVars, tracing, listed, recent, kills, imapVars>>
    \/ /\ pc = "config"
       /\ net \in UploadNets
       /\ processDies

\* The rest of upload() up to the sleep in stopCollectingIMAPData.  urgent:
\* upload storage is critical or TWO_UPLOADS_MAX_INTERVAL has passed; idle:
\* isUserIdle; night: the hour is 2 to 7.
Decide ==
    /\ pc = "decide"
    /\ \E hasData, urgent, idle, night \in BOOLEAN :
        LET toUpload == /\ hasData
                        /\ \/ urgent /\ net \in UploadNets
                           \/ ~urgent /\ idle /\ net \in {"wifi", "4G"}
                           \/ ~urgent /\ ~idle /\ night /\ net \in UploadNets
        IN  IF toUpload
              THEN /\ pc' = "upStop"
                   /\ acquireCPU
                   /\ beginStop
              ELSE /\ pc' = "sleep"
                   /\ UNCHANGED <<count, imapVars>>
    /\ UNCHANGED <<tick, ifaceVars, flagVars, probeVars, timers, lowReturns,
                   psmnVars, tracing, listed, recent, kills>>

\* stopService, which does not wait for onDestroy, and InputTrace.stopCapture.
UploadStopOthers ==
    /\ Goto("upStopOthers", "upFlag")
    /\ stopPsmn
    /\ tracing' = FALSE
    /\ UNCHANGED <<tick, ifaceVars, flagVars, probeVars, lockVars, listed,
                   recent, kills, imapVars>>

UploadSetFlag ==
    /\ Goto("upFlag", "upList")
    /\ uploading' = TRUE
    /\ UNCHANGED <<tick, ifaceVars, acpb, probeVars, lockVars, psmnVars,
                   tracing, listed, recent, kills, imapVars>>

\* IMAPUploader.getDataToUpload: every folder, one still written to included.
UploadListIMAP ==
    /\ Goto("upList", "upStart")
    /\ listed' = {s \in Shells : run[s] # NoType}
    /\ UNCHANGED <<tick, ifaceVars, flagVars, probeVars, lockVars, psmnVars,
                   tracing, recent, kills, imapVars>>

\* Capture again, into a new folder, while the old folders are uploaded.
UploadRestartIMAP ==
    /\ Goto("upStart", "upPsmn")
    /\ \E named \in Named(TypeOf(net)) :
          startCollectingIMAPData(TypeOf(net), named)
    /\ UNCHANGED <<tick, ifaceVars, flagVars, probeVars, lockVars, psmnVars,
                   tracing, listed, recent, kills>>

\* PsmnUploader.getDataToUpload and startService.
UploadRestartPsmn ==
    /\ Goto("upPsmn", "upBattery")
    /\ startPsmn
    /\ UNCHANGED <<tick, ifaceVars, flagVars, probeVars, lockVars, tracing,
                   listed, recent, kills, imapVars>>

\* Mutant: upload() returns when there is nothing to send.
UploadNothingReturns ==
    /\ Goto("upBattery", "sleep")
    /\ UNCHANGED <<tick, ifaceVars, flagVars, probeVars, lockVars, psmnVars,
                   tracing, listed, recent, kills, imapVars>>

\* There is nothing to send.
UploadNothing ==
    /\ Goto("upBattery", "upClear")
    /\ UNCHANGED <<tick, ifaceVars, flagVars, probeVars, lockVars, psmnVars,
                   tracing, listed, recent, kills, imapVars>>

\* There is something to send and the battery allows it.
UploadGoesOn ==
    /\ Goto("upBattery", "upSend")
    /\ UNCHANGED <<tick, ifaceVars, flagVars, probeVars, lockVars, psmnVars,
                   tracing, listed, recent, kills, imapVars>>

\* The low battery return leaves the flag set and the wake lock acquired.
UploadLowBattery ==
    /\ Goto("upBattery", "sleep")
    /\ lowReturns < MaxLowReturns
    /\ lowReturns' = lowReturns + 1
    /\ listed' = {}
    /\ UNCHANGED <<tick, ifaceVars, flagVars, probeVars, count, timers,
                   psmnVars, tracing, recent, kills, imapVars>>

\* The four uploaders have returned and the time is recorded, or one of them
\* threw: uploadData of a list that is null.
UploadSend ==
    \/ /\ Goto("upSend", "upClear")
       /\ recent' = TRUE
       /\ UNCHANGED <<tick, ifaceVars, flagVars, probeVars, lockVars,
                      psmnVars, tracing, listed, kills, imapVars>>
    \/ /\ pc = "upSend"
       /\ processDies

UploadClearFlag ==
    /\ Goto("upClear", "upLog")
    /\ uploading' = FALSE
    /\ listed' = {}
    /\ UNCHANGED <<tick, ifaceVars, acpb, probeVars, lockVars, psmnVars,
                   tracing, recent, kills, imapVars>>

\* LogUploader.upload, then the input collector is started again.
UploadRestartTracing ==
    /\ Goto("upLog", "upRelease")
    /\ tracing' = TRUE
    /\ UNCHANGED <<tick, ifaceVars, flagVars, probeVars, lockVars, psmnVars,
                   listed, recent, kills, imapVars>>

UploadRelease ==
    /\ Goto("upRelease", "sleep")
    /\ releaseCPU
    /\ UNCHANGED <<tick, ifaceVars, flagVars, probeVars, lowReturns,
                   psmnVars, tracing, listed, recent, kills, imapVars>>

(***************************************************************************)
(* The main thread: screen, alarm and service callbacks, one at a time.    *)
(***************************************************************************)

mainFree == pc # "dead" /\ probe = "idle"
threadVars == <<pc, tick, cur, lastType, listed, recent, kills>>

\* ScreenReceiver, ACTION_SCREEN_OFF.
ScreenOff ==
    /\ mainFree
    /\ tracing' = FALSE
    /\ alarm' = TRUE
    /\ UNCHANGED <<threadVars, net, flagVars, probe, test, lockVars,
                   psmnVars, imapVars>>

\* ScreenReceiver, ACTION_SCREEN_ON: unless storage is critical, start the
\* input collector, whatever the scheduler thread is doing.
ScreenOn ==
    /\ mainFree
    /\ alarm' = FALSE
    /\ \E storageCritical \in BOOLEAN : tracing' = (tracing \/ ~storageCritical)
    /\ UNCHANGED <<threadVars, net, flagVars, probe, test, lockVars,
                   psmnVars, imapVars>>

\* ActiveProbingReceiver: the alarm fires and no upload is flagged.
ProbeCheck ==
    /\ mainFree
    /\ alarm /\ ~uploading
    /\ probe' = "passed"
    /\ UNCHANGED <<threadVars, net, flagVars, test, alarm, lockVars,
                   psmnVars, tracing, imapVars>>

\* ... its other conditions hold, and it starts a NewTestThread.
ProbeStart(t) ==
    /\ probe = "passed"
    /\ net \in {"4G", "3G"}
    /\ test[t] = "none"
    /\ test' = [test EXCEPT ![t] = "started"]
    /\ probe' = "idle"
    /\ UNCHANGED <<threadVars, net, flagVars, alarm, lockVars, psmnVars,
                   tracing, imapVars>>

\* ... or one of them does not: storage, battery, user activity, network.
ProbeDeclined ==
    /\ probe = "passed"
    /\ probe' = "idle"
    /\ UNCHANGED <<threadVars, net, flagVars, test, alarm, lockVars,
                   psmnVars, tracing, imapVars>>

\* SchedulerService.onStartCommand, by the periodic alarm, while the thread
\* lives: acquire the wake lock for a minute.
TimedAcquire ==
    /\ mainFree
    /\ timers < MaxTimers
    /\ acquireCPU
    /\ timers' = timers + 1
    /\ UNCHANGED <<threadVars, net, flagVars, probeVars, lowReturns,
                   psmnVars, tracing, imapVars>>

\* PassiveMonitoringService.onCreate and onDestroy.
PsmnCallback ==
    /\ mainFree
    /\ psmnQueue # <<>>
    /\ psmnUp' = (Head(psmnQueue) = "create")
    /\ psmnQueue' = Tail(psmnQueue)
    /\ UNCHANGED <<threadVars, net, flagVars, probeVars, lockVars, tracing,
                   imapVars>>

(***************************************************************************)
(* The other actors.                                                       *)
(***************************************************************************)

\* NewTestThread.run: set the flag, run the three tests, clear the flag.
TestBegins(t) ==
    /\ test[t] = "started"
    /\ test' = [test EXCEPT ![t] = "running"]
    /\ acpb' = TRUE
    /\ UNCHANGED <<threadVars, net, uploading, probe, alarm, lockVars,
                   psmnVars, tracing, imapVars>>

\* Mutant: a test that throws leaves the flag set.
TestEndsFlagged(t) ==
    /\ test[t] = "running"
    /\ test' = [test EXCEPT ![t] = "none"]
    /\ UNCHANGED <<threadVars, net, flagVars, probe, alarm, lockVars,
                   psmnVars, tracing, imapVars>>

TestEnds(t) ==
    /\ test[t] = "running"
    /\ test' = [test EXCEPT ![t] = "none"]
    /\ acpb' = FALSE
    /\ UNCHANGED <<threadVars, net, uploading, probe, alarm, lockVars,
                   psmnVars, tracing, imapVars>>

\* Mutant: the timeout releases the lock, not a reference to it.
TimerReleasesAll ==
    /\ timers > 0
    /\ count' = 0 /\ timers' = 0
    /\ UNCHANGED <<threadVars, net, flagVars, probeVars, lowReturns,
                   psmnVars, tracing, imapVars>>

\* The timeout of a timed acquisition releases the wake lock.
TimerReleases ==
    /\ timers > 0
    /\ count' = count - 1
    /\ timers' = IF count = 1 THEN 0 ELSE timers - 1
    /\ UNCHANGED <<threadVars, net, flagVars, probeVars, lowReturns,
                   psmnVars, tracing, imapVars>>

\* The shells and their captures; a capture that ends closes its folder.
besidesShells == <<pc, tick, cur, lastType, recent, kills, net, flagVars,
                   probeVars, lockVars, psmnVars, tracing>>

ShellReads == /\ \E s \in Shells : ShellReadsCommand(s)
              /\ UNCHANGED <<besidesShells, listed>>

ShellCaptureEnds == /\ \E s \in Shells : CaptureEnds(s) /\ listed' = listed \ {s}
                    /\ UNCHANGED besidesShells

ShellPoll == /\ PollPeriod
             /\ listed' = {s \in listed : run'[s] # NoType}
             /\ UNCHANGED besidesShells

NetworkChanges ==
    /\ net' \in Networks \ {net}
    /\ UNCHANGED <<threadVars, flagVars, probeVars, lockVars, psmnVars,
                   tracing, imapVars>>

\* TWO_UPLOADS_MIN_INTERVAL has passed since the last upload.
IntervalPasses ==
    /\ recent
    /\ recent' = FALSE
    /\ UNCHANGED <<pc, tick, cur, lastType, listed, kills, net, flagVars,
                   probeVars, lockVars, psmnVars, tracing, imapVars>>

\* The process is killed, at any point.
Killed == pc # "dead" /\ processDies

\* The phone reboots: only files stay, and StartupReceiver starts the service.
Reboots ==
    /\ pc # "dead"
    /\ memoryLost
    /\ killShells
    /\ alarm' = FALSE
    /\ tracing' = FALSE

\* Mutant: the constructor of SchedulerThread leaves isUploading alone.
RestartFlagged ==
    /\ Goto("dead", "loop")
    /\ acpb' = FALSE
    /\ UNCHANGED <<uploading, tick, ifaceVars, probeVars, lockVars, psmnVars,
                   tracing, listed, recent, kills, imapVars>>

\* Android starts SchedulerService again: the constructor of SchedulerThread
\* clears both flags.
Restart ==
    /\ Goto("dead", "loop")
    /\ uploading' = FALSE
    /\ acpb' = FALSE
    /\ UNCHANGED <<tick, ifaceVars, probeVars, lockVars, psmnVars, tracing,
                   listed, recent, kills, imapVars>>

ThreadStep ==
    \/ LoopHead \/ Detect \/ DetectSame \/ DetectStart \/ DetectPause
    \/ StopReturns \/ SwitchStart \/ StorageCheck \/ StorageStart
    \/ StorageStopOthers \/ StorageOthers
    \/ StartPassiveMonitoring \/ UploadCheck \/ Sleep
    \/ Config \/ Decide \/ UploadStopOthers \/ UploadSetFlag
    \/ UploadListIMAP \/ UploadRestartIMAP \/ UploadRestartPsmn
    \/ UploadNothing \/ UploadGoesOn \/ UploadLowBattery \/ UploadSend
    \/ UploadClearFlag \/ UploadRestartTracing \/ UploadRelease

MainStep ==
    \/ ScreenOff \/ ScreenOn \/ TimedAcquire \/ PsmnCallback
    \/ ProbeCheck \/ ProbeDeclined \/ \E t \in Tests : ProbeStart(t)

TestStep == \E t \in Tests : TestBegins(t) \/ TestEnds(t)

Next ==
    \/ ThreadStep \/ MainStep \/ TestStep \/ TimerReleases
    \/ ShellReads \/ ShellCaptureEnds \/ ShellPoll
    \/ NetworkChanges \/ IntervalPasses \/ Killed \/ Reboots \/ Restart

Spec == Init /\ [][Next]_vars

\* Threads, shells and timers get to run; captures, crashes, networks, users
\* and alarms do as they like.  The main thread takes its messages in order,
\* so that a service call is made even if other callbacks keep coming.
Fairness ==
    /\ WF_vars(ThreadStep)
    /\ SF_vars(PsmnCallback)
    /\ WF_vars(ProbeDeclined \/ \E t \in Tests : ProbeStart(t))
    /\ WF_vars(TestStep)
    /\ WF_vars(TimerReleases)
    /\ WF_vars(ShellReads)
    /\ WF_vars(ShellPoll)
    /\ WF_vars(Restart)

FairSpec == Spec /\ Fairness

(***************************************************************************)
(* Properties.                                                             *)
(***************************************************************************)

\* The wake lock is held from acquireCPU to releaseCPU of upload(), whatever
\* the timed acquisitions of SchedulerService.onStartCommand do meanwhile:
\* the CPU cannot sleep in the middle of an upload.
WakeLockCoversUpload == pc \in UploadPCs => count > 0

\* Every reference to the wake lock has an owner: the upload in progress, a
\* timeout that will fire, or a low battery return, which never gives its
\* reference back.  Nothing else leaks one, and nothing releases another's.
HoldsAccounted ==
    count = (IF pc \in UploadPCs THEN 1 ELSE 0) + timers + lowReturns

\* While the process lives, a flag file isUploading found outside of upload()
\* was left by a low battery return: a crash, a reboot, active probing or
\* LoopHead never leave one behind.
StaleUploadFlagFromLowBattery ==
    pc # "dead" /\ uploading /\ pc \notin UploadPCs => lowReturns > 0

\* While the process lives, the flag file isActiveProbing was set by a test
\* that still runs, so that it never blocks uploads for good: this holds
\* although several tests share the file, the scheduler may delete it under
\* a running test, and the process may die in the middle of one.
ProbeFlagHasOwner ==
    pc # "dead" /\ acpb => \E t \in Tests : test[t] = "running"

\* When stopCollectingIMAPData returns, no shell runs a capture or is about
\* to start one, not even one left by an earlier process: four polls drain
\* what start calls on a stale "ps" may have queued.  Only failures that hid or
\* spared a capture, since the shells were last quiet, make an exception.
StopLeavesQuiet == pc \in StopPCs /\ polls = 0 /\ faults = 0 => Quiet

\* A shell never holds more than two commands, nor two behind a running
\* capture: the checks of "ps" keep start calls from piling up.  Each failure
\* of "ps" or of a stop lets one more in, until a stop has left all quiet.
BoundedBacklog == \A s \in Shells : Work(s) <= 4 + 2 * faults

\* No folder of imapList, which uploadData sends and deletes file by file, is
\* still written to by a capture, unless the stop before failed or did not
\* suffice for what earlier failures had let in.
UploadedFoldersClosed == listed # {} => faults > 0

\* The inductive form of the three.  The work of the app's shell where a start
\* may add to it:
StartableInv ==
    /\ pc \in {"dead", "loop", "detect", "detectSame", "storage"}
          => Work("app") <= 3 + 2 * faults
    /\ pc \in {"detectStart", "storageStart", "upStopOthers", "upFlag",
               "upList", "upStart"}
          => Work("app") <= 2 + 2 * faults
    /\ pc = "switchStart" => Work("app") <= 1 + 2 * faults

\* In a stop with its file there is no more work than the polls take off; one
\* without it is a failure.
StoppingInv ==
    pc \in StopPCs =>
        IF stopFlag
          THEN \A s \in Shells : Work(s) <= polls + 2 * faults
          ELSE /\ faults > 0
               /\ Work("app") <= (IF pc = "upStop" THEN 2 ELSE 1) + 2 * faults

\* From the stop of an upload to the list of its folders and on to the start
\* that follows, all is quiet or there was a failure.
QuietInv ==
    /\ pc \in {"switchStart", "upStopOthers", "upFlag", "upList", "upStart"}
          => Quiet \/ faults > 0
    /\ pc \notin {"upStart", "upPsmn", "upBattery", "upSend", "upClear"}
          => listed = {}

BacklogInv == /\ BoundedBacklog /\ StartableInv /\ StoppingInv /\ QuietInv
              /\ UploadedFoldersClosed

\* No call of the collector fails in a step.
NoCallFails == ioErrors' = ioErrors

\* While the phone stays on networks of one type, captures never stay away for
\* good, in spite of failed captures, uploads, critical storage, crashes, stale
\* "ps" output and calls that failed; calls that keep failing, and a flagged
\* upload, which keeps detect from starting one, are the exceptions.  (A phone
\* that changes type between each detect and its start may go without: detect
\* starts on the type it saw, which has no address any more.)
CaptureRecurs ==
    /\ <>[][NoCallFails]_vars
    /\ <>[](TypeOf(net) = WifiType) \/ <>[](TypeOf(net) = CellType)
    => []<>(Capturing \/ uploading)

\* The passive monitoring service, which uploads and critical storage stop,
\* always comes back.
MonitoringRecurs == []<>psmnUp

\* As long as no upload is left at the low battery return, uploads always end
\* with the flag cleared and the CPU free to sleep.
UploadsLetGo ==
    <>[](lowReturns = 0 /\ timers = 0) => []<>(count = 0 /\ ~uploading)

\* The scheduler thread never hangs: whatever the phone, its user, the captures
\* and the collector's failures do, it comes to the sleep of its loop again,
\* unless the process dies again and again.
GoesRound == []<>(pc = "sleep" \/ pc = "dead")

(***************************************************************************)
(* What the proofs of liveness take for granted: a step whose guard holds  *)
(* can be taken.  The prover does not look into ENABLED.                   *)
(***************************************************************************)

\* The thread is not in a sleep that is still to last.
Awake ==
    /\ pc # "dead"
    /\ pc \in StopPCs => polls = 0
    /\ pc \in {"detectPause", "sleep"} => Settled
    /\ pc = "sleep" => psmnQueue = <<>>

NeverStuck ==
    /\ Awake => ENABLED <<ThreadStep>>_vars
    /\ pc \in StopPCs /\ polls > 0 => ENABLED <<ShellPoll>>_vars
    /\ ~Settled => ENABLED <<ShellReads>>_vars
    /\ mainFree /\ psmnQueue # <<>> => ENABLED <<PsmnCallback>>_vars
    /\ probe = "passed" => ENABLED <<ProbeDeclined \/ \E t \in Tests : ProbeStart(t)>>_vars
    /\ pc = "dead" => ENABLED <<Restart>>_vars

(***************************************************************************)
(* What comments and the user interface say, and the code does not do.     *)
(***************************************************************************)

\* RefreshUIThread shows the flag file isUploading as "Is Uploading".
ShownUploading == pc # "dead" /\ uploading => pc \in UploadPCs

\* "an interface switch happended, adjust the imap data collector
\* accordingly": after detect, the capture of this process is on the network
\* that detect saw.
SwitchFollowed ==
    pc = "storage" /\ cur # NoType => run["app"] \in {NoType, cur}
=============================================================================
