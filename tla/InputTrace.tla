----------------------------- MODULE InputTrace -----------------------------
(***************************************************************************)
(* The control of the user input collector (InputTrace): stopCapture and   *)
(* doCapture, called without a lock by the thread of the scheduler and, at *)
(* each change of the screen, by the main thread; the threads and the      *)
(* processes they start; and the upload of the collector's folders, which  *)
(* goes on while the main thread may start the collector again.            *)
(*                                                                         *)
(* Whether a collector takes screenshots is left out: nothing reads it.    *)
(* So are the folders of collectors that have ended.                       *)
(*                                                                         *)
(* Every exception of "su" and "ps" is caught and forgotten: one that      *)
(* cannot be run has shown no collector, and killed none.                  *)
(***************************************************************************)
EXTENDS Integers, FiniteSets

CONSTANTS
    NCaptures,      \* bound: captures at a time, each with thread and process
    NMonitors,      \* bound: monitors at a time
    MaxScreen,      \* bound: changes of the screen
    MaxMishaps,     \* bound: captures that fail or end by themselves, and calls
                    \*   of su and ps that fail
    MaxKills        \* bound: deaths of the process from outside

Capture == 1 .. NCaptures
Monitor == 1 .. NMonitors
Caller == {"scheduler", "main"}

ASSUME InputTraceAssumption ==
    {NCaptures, NMonitors, MaxScreen, MaxMishaps, MaxKills} \subseteq Nat

VARIABLES
    pc,         \* pc[c]: the place of the caller
    cause,      \* cause[c]: why it calls: "check", "upload", "restart" or "screen"
    storage,    \* "fine" or "critical"
    ssd,        \* the field ssd: a monitor, or 0 for null
    mon,        \* mon[m]: the thread screenshotDecision, "none", "new", "loop",
                \*   "get" (between mprocs.size() and mprocs.get(0))
    told,       \* the monitors whose torun is false
    mprocs,     \* the list of targets: "null", "empty" or "full"
    coll,       \* coll[k]: "none", "thread" (UserInputCollect started), "dir" (its
                \*   folder made), "runs" (the trace made, the process in ps)
    kills,      \* the collectors for which a shell has a kill to execute
    listed,     \* the folders of the upload that it has not come to
    screens, mishaps, dead, \* counted up to the bounds
    crash,      \* history: what ended the process, [how, by], or NoCrash
    overlap,    \* history: overlap[c], the other caller was inside during c's call
    reads,      \* history: calls of readMprocs since the launch, up to 2
    excuse,     \* history: what may leave a monitor behind has happened since the launch
    unseen,     \* history: captures that the stop of this upload did not kill
    torn        \* history: captures whose trace this upload took away under them

monitors == <<mon, told, ssd, mprocs>>
threads == <<pc, cause, monitors>>
bounds == <<screens, mishaps, dead>>
outside == <<storage, coll, kills, listed, bounds>>
history == <<crash, overlap, reads, excuse, unseen, torn>>
vars == <<threads, outside, history>>

NoCrash == [how |-> "none", by |-> "none"]
Starting == {k \in Capture : coll[k] \in {"thread", "dir"}}
Running == {k \in Capture : coll[k] = "runs"}
\* Places in stopCapture and doCapture, in the order they are passed.
Stopping == {"test", "tell", "forget", "ps"}
DoCapture == {"isRunning", "clear", "fill", "collect", "new", "start"}
Inside == Stopping \cup DoCapture
Place == Inside \cup {"idle", "dead", "check", "sleep", "uploadCheck", "list", "take"}
Cause == {"check", "upload", "restart", "screen"}
Other(c) == IF c = "main" THEN "scheduler" ELSE "main"

TypeOK ==
    /\ pc \in [Caller -> Place] /\ cause \in [Caller -> Cause]
    /\ storage \in {"fine", "critical"} /\ ssd \in Monitor \cup {0}
    /\ mon \in [Monitor -> {"none", "new", "loop", "get"}]
    /\ mprocs \in {"null", "empty", "full"}
    /\ coll \in [Capture -> {"none", "thread", "dir", "runs"}]
    /\ kills \subseteq Running /\ listed \subseteq {k \in Capture : coll[k] \in {"dir", "runs"}}
    /\ told \subseteq {m \in Monitor : mon[m] # "none"}
    /\ screens \in 0 .. MaxScreen /\ mishaps \in 0 .. MaxMishaps /\ dead \in 0 .. MaxKills
    /\ crash \in [how : {"none", "null", "twice", "list"}, by : Caller \cup {"none"}]
    /\ overlap \in [Caller -> BOOLEAN] /\ reads \in 0 .. 2 /\ excuse \in BOOLEAN
    /\ unseen \subseteq Running \cup Starting /\ torn \subseteq Running

Init ==
    /\ pc = [c \in Caller |-> IF c = "main" THEN "idle" ELSE "check"]
    /\ cause = [c \in Caller |-> IF c = "main" THEN "screen" ELSE "check"]
    /\ storage \in {"fine", "critical"}
    /\ ssd = 0 /\ mon = [m \in Monitor |-> "none"] /\ told = {} /\ mprocs = "null"
    /\ coll = [k \in Capture |-> "none"] /\ kills = {} /\ listed = {}
    /\ screens = 0 /\ mishaps = 0 /\ dead = 0
    /\ crash = NoCrash /\ overlap = [c \in Caller |-> FALSE] /\ reads = 0
    /\ excuse = FALSE /\ unseen = {} /\ torn = {}

-----------------------------------------------------------------------------
(* Calls and returns                                                       *)

\* c calls stopCapture (place "test") or doCapture ("isRunning").
Enter(c, why, place) ==
    /\ pc' = [pc EXCEPT ![c] = place] /\ cause' = [cause EXCEPT ![c] = why]
    /\ overlap' = [b \in Caller |-> IF b = c THEN pc[Other(c)] \in Inside
                                    ELSE overlap[b] \/ pc[b] \in Inside]
    /\ excuse' = (excuse \/ pc[Other(c)] \in Inside)

Goes(c, place) == pc' = [pc EXCEPT ![c] = place] /\ UNCHANGED <<cause, overlap>>

\* The call, or the test before it, is over.
Returns(c) ==
    /\ pc' = [pc EXCEPT ![c] = CASE cause[c] = "check" -> "uploadCheck"
                                 [] cause[c] = "upload" -> "list"
                                 [] cause[c] = "restart" -> "sleep"
                                 [] OTHER -> "idle"]
    /\ overlap' = [overlap EXCEPT ![c] = FALSE]
    /\ cause' = [cause EXCEPT ![c] = IF c = "main" THEN "screen" ELSE "check"]

\* The process ends, with its threads; collectors go on.
Dies(why) ==
    /\ crash' = why
    /\ pc' = [c \in Caller |-> "dead"] /\ ssd' = 0
    /\ mon' = [m \in Monitor |-> "none"] /\ told' = {} /\ mprocs' = "null"
    /\ coll' = [k \in Capture |-> IF k \in Running THEN coll[k] ELSE "none"]
    /\ listed' = {} /\ unseen' = {} /\ torn' = {}
    /\ UNCHANGED <<cause, storage, kills, screens, mishaps, overlap, reads, excuse>>

Crashes(how, c) == Dies([how |-> how, by |-> c]) /\ UNCHANGED dead

\* A capture ends by itself, or a call of su or ps fails; or all goes well.
Mishap(happens) ==
    /\ happens => mishaps < MaxMishaps
    /\ mishaps' = IF happens THEN mishaps + 1 ELSE mishaps

-----------------------------------------------------------------------------
(* stopCapture                                                             *)

\* Mutant: the test of ssd is dropped.
TestsNothing(c) ==
    /\ pc[c] = "test" /\ Goes(c, "tell")
    /\ UNCHANGED <<monitors, outside, crash, reads, excuse, unseen, torn>>

\* if (ssd != null)
Tests(c) ==
    /\ pc[c] = "test" /\ Goes(c, IF ssd = 0 THEN "ps" ELSE "tell")
    /\ UNCHANGED <<monitors, outside, crash, reads, excuse, unseen, torn>>

\* Mutant: the monitor is not stopped.
TellsNothing(c) ==
    /\ pc[c] = "tell"
    /\ \/ ssd = 0 /\ Crashes("null", c)
       \/ /\ ssd # 0 /\ Goes(c, "forget")
          /\ UNCHANGED <<monitors, outside, crash, reads, excuse, unseen, torn>>

\* ssd.stopMonitor(): the field is read again.
Tells(c) ==
    /\ pc[c] = "tell"
    /\ \/ ssd = 0 /\ Crashes("null", c)
       \/ /\ ssd # 0 /\ Goes(c, "forget")
          /\ told' = told \cup ({ssd} \cap {m \in Monitor : mon[m] # "none"})
          /\ UNCHANGED <<mon, ssd, mprocs, outside, crash, reads, excuse, unseen, torn>>

\* A monitor that was never started and is not referred to any more is no more.
Drop(m, to) ==
    LET dropped == {n \in Monitor : n = m /\ mon[n] = "new"}
    IN  /\ mon' = [n \in Monitor |-> IF n \in dropped THEN "none" ELSE to[n]]
        /\ told' = told \ dropped

Forgets(c) ==
    /\ pc[c] = "forget" /\ ssd' = 0 /\ Drop(ssd, mon) /\ Goes(c, "ps")
    /\ UNCHANGED <<mprocs, outside, crash, reads, excuse, unseen, torn>>

\* Mutant: a capture is killed whether ps shows it or not.
KillsStarted(c) ==
    /\ pc[c] = "ps" /\ kills' = kills \cup Running \cup Starting /\ Returns(c)
    /\ unseen' = IF cause[c] = "upload" THEN {} ELSE unseen
    /\ UNCHANGED <<monitors, storage, coll, listed, bounds, crash, reads, excuse, torn>>

\* killProcess: those that ps shows will be killed, by a shell; none of them, or
\* not all, when a call fails.
Kills(c) ==
    /\ pc[c] = "ps" /\ Returns(c)
    /\ \E killed \in SUBSET Running :
        /\ Mishap(killed # Running)
        /\ kills' = kills \cup killed
        /\ unseen' = IF cause[c] = "upload" THEN Starting \cup (Running \ killed) ELSE unseen
    /\ UNCHANGED <<monitors, storage, coll, listed, screens, dead, crash, reads,
                   excuse, torn>>

-----------------------------------------------------------------------------
(* doCapture                                                               *)

\* A call that fails has seen no collector.  Callers ask it too before they call:
\* the earlier answer has no other effect.
IsRunning(c) ==
    /\ pc[c] = "isRunning"
    /\ \E answer \in BOOLEAN :
        /\ answer => Running # {}
        /\ Mishap(~answer /\ Running # {})
        /\ IF answer THEN Returns(c) ELSE Goes(c, "clear")
        /\ excuse' = (excuse \/ (~answer /\ Running \cup Starting # {}))
    /\ UNCHANGED <<monitors, storage, coll, kills, listed, screens, dead, crash,
                   reads, unseen, torn>>

\* readMprocs, which other threads may see half done.
Clears(c) ==
    /\ pc[c] = "clear" /\ Goes(c, "fill")
    /\ mprocs' = "empty" /\ reads' = (IF reads = 0 THEN 1 ELSE 2)
    /\ UNCHANGED <<mon, told, ssd, outside, crash, excuse, unseen, torn>>

Fills(c) ==
    /\ pc[c] = "fill" /\ Goes(c, "collect") /\ mprocs' = "full"
    /\ UNCHANGED <<mon, told, ssd, outside, crash, reads, excuse, unseen, torn>>

\* uic.start()
Collects(c) ==
    /\ pc[c] = "collect" /\ Goes(c, "new")
    /\ \E k \in Capture :
        /\ coll[k] = "none" /\ \A l \in Capture : coll[l] = "none" => k <= l
        /\ coll' = [coll EXCEPT ![k] = "thread"]
        /\ unseen' = IF pc["scheduler"] \in {"list", "take"} THEN unseen \cup {k} ELSE unseen
    /\ UNCHANGED <<monitors, storage, kills, listed, bounds, crash, reads, excuse, torn>>

\* ssd = new screenshotDecision()
News(c) ==
    /\ pc[c] = "new" /\ Goes(c, "start")
    /\ \E m \in Monitor :
        /\ mon[m] = "none" /\ m # ssd
        /\ \A n \in Monitor : mon[n] = "none" /\ n # ssd => m <= n
        /\ ssd' = m
        /\ Drop(ssd, [mon EXCEPT ![m] = "new"])
    /\ UNCHANGED <<mprocs, outside, crash, reads, excuse, unseen, torn>>

\* ssd.start(): of what the field holds now; a thread is started once.
Starts(c) ==
    /\ pc[c] = "start"
    /\ \/ ssd = 0 /\ Crashes("null", c)
       \/ ssd # 0 /\ mon[ssd] # "new" /\ Crashes("twice", c)
       \/ /\ ssd # 0 /\ mon[ssd] = "new" /\ Returns(c)
          /\ mon' = [mon EXCEPT ![ssd] = "loop"]
          /\ UNCHANGED <<told, ssd, mprocs, outside, crash, reads, excuse, unseen, torn>>

-----------------------------------------------------------------------------
(* The thread of the scheduler: run() and upload(), as far as they concern *)
(* the collector                                                           *)

\* Mutant: critical storage does not stop the collector.
CheckFine ==
    /\ pc["scheduler"] = "check"
    /\ IF storage = "critical" THEN Goes("scheduler", "uploadCheck") /\ UNCHANGED excuse
       ELSE Enter("scheduler", "check", "isRunning")
    /\ UNCHANGED <<monitors, outside, crash, reads, unseen, torn>>

\* Mutant: only the upload starts the collector again.
CheckCritical ==
    /\ pc["scheduler"] = "check"
    /\ IF storage = "critical" THEN Enter("scheduler", "check", "test")
       ELSE Goes("scheduler", "uploadCheck") /\ UNCHANGED excuse
    /\ UNCHANGED <<monitors, outside, crash, reads, unseen, torn>>

\* The check of the storage, every minute.
Check ==
    /\ pc["scheduler"] = "check"
    /\ Enter("scheduler", "check", IF storage = "critical" THEN "test" ELSE "isRunning")
    /\ UNCHANGED <<monitors, outside, crash, reads, unseen, torn>>

\* Mutant: the upload does not stop the collector.
UploadCheckRunning ==
    /\ pc["scheduler"] = "uploadCheck"
    /\ \/ Goes("scheduler", "list")
       \/ Goes("scheduler", "sleep")
    /\ UNCHANGED <<monitors, outside, crash, reads, excuse, unseen, torn>>

\* upload() begins with stopCapture, or there is none.
UploadCheck ==
    /\ pc["scheduler"] = "uploadCheck"
    /\ \/ Enter("scheduler", "upload", "test")
       \/ Goes("scheduler", "sleep") /\ UNCHANGED excuse
    /\ UNCHANGED <<monitors, outside, crash, reads, unseen, torn>>

\* UInpUploader lists the folders, after the other folders were uploaded, which
\* outlasts a kill and the last round of a monitor.  At low battery upload()
\* returns before that.
Lists ==
    /\ pc["scheduler"] = "list"
    /\ \/ /\ kills = {} /\ told = {} /\ Goes("scheduler", "take")
          /\ listed' = {k \in Capture : coll[k] \in {"dir", "runs"}}
          /\ UNCHANGED unseen
       \/ Goes("scheduler", "sleep") /\ unseen' = {} /\ UNCHANGED listed
    /\ UNCHANGED <<monitors, storage, coll, kills, bounds, crash, reads, excuse, torn>>

\* A folder without a file is deleted: the thread that made it cannot make the
\* file.  A trace is zipped and deleted, which the collector may still write to.
Takes(k) ==
    /\ pc["scheduler"] = "take" /\ k \in listed
    /\ listed' = listed \ {k}
    /\ coll' = [coll EXCEPT ![k] = IF @ = "dir" THEN "none" ELSE @]
    /\ excuse' = (excuse \/ coll[k] = "dir")
    /\ torn' = (IF coll[k] = "runs" THEN torn \cup {k} ELSE torn)
    /\ unseen' = (IF coll[k] = "dir" THEN unseen \ {k} ELSE unseen)
    /\ UNCHANGED <<pc, cause, monitors, storage, kills, bounds, crash, overlap, reads>>

\* At the end, or when the time is up or a transfer fails, doCapture is next.
Leaves ==
    /\ pc["scheduler"] = "take" /\ listed' = {} /\ unseen' = {} /\ torn' = {}
    /\ Enter("scheduler", "restart", "isRunning")
    /\ UNCHANGED <<monitors, storage, coll, kills, bounds, crash, reads>>

\* The sleep of 10 s outlasts the start and the end of threads and processes.
Wakes ==
    /\ pc["scheduler"] = "sleep" /\ Starting = {} /\ kills = {} /\ told = {}
    /\ pc["main"] = "idle" /\ Goes("scheduler", "check")
    /\ UNCHANGED <<monitors, outside, crash, reads, excuse, unseen, torn>>

\* The screen goes off, or on: then the storage is looked at first.
Screen ==
    /\ pc["main"] = "idle" /\ screens < MaxScreen /\ screens' = screens + 1
    /\ \/ Enter("main", "screen", "test")
       \/ storage = "fine" /\ Enter("main", "screen", "isRunning")
    /\ UNCHANGED <<monitors, storage, coll, kills, listed, mishaps, dead, crash, reads,
                   unseen, torn>>

-----------------------------------------------------------------------------
(* Monitors and collectors                                                 *)

\* i < mprocs.size()
Looks(m) ==
    /\ mon[m] = "loop" /\ m \notin told /\ mprocs = "full"
    /\ mon' = [mon EXCEPT ![m] = "get"]
    /\ UNCHANGED <<pc, cause, told, ssd, mprocs, outside, history>>

\* mprocs.get(i) throws if the list was emptied.
Gets(m) ==
    /\ mon[m] = "get"
    /\ \/ mprocs # "full" /\ Crashes("list", "none")
       \/ /\ mprocs = "full" /\ mon' = [mon EXCEPT ![m] = "loop"]
          /\ UNCHANGED <<pc, cause, told, ssd, mprocs, outside, history>>

Finishes(m) ==
    /\ mon[m] = "loop" /\ m \in told
    /\ mon' = [mon EXCEPT ![m] = "none"] /\ told' = told \ {m}
    /\ UNCHANGED <<pc, cause, ssd, mprocs, outside, history>>

\* UserInputCollect makes the folder, then the file, and runs the collector.
Proceeds(k) ==
    /\ coll[k] \in {"thread", "dir"}
    /\ coll' = [coll EXCEPT ![k] = IF @ = "thread" THEN "dir" ELSE "runs"]
    /\ UNCHANGED <<threads, storage, kills, listed, bounds, history>>

\* What goes with a capture that is over.
Over(k) ==
    /\ coll' = [coll EXCEPT ![k] = "none"]
    /\ kills' = kills \ {k} /\ listed' = listed \ {k}
    /\ unseen' = unseen \ {k} /\ torn' = torn \ {k}
    /\ UNCHANGED <<threads, storage, screens, dead, crash, overlap, reads>>

KillArrives(k) == k \in kills /\ Over(k) /\ UNCHANGED <<mishaps, excuse>>

Fails(k) ==
    /\ coll[k] # "none" /\ Mishap(TRUE)
    /\ Over(k) /\ excuse' = TRUE

Storage ==
    /\ storage' = (IF storage = "fine" THEN "critical" ELSE "fine")
    /\ UNCHANGED <<threads, coll, kills, listed, bounds, history>>

Killed ==
    /\ pc["main"] # "dead" /\ dead < MaxKills /\ dead' = dead + 1
    /\ Dies(NoCrash)

\* The alarm starts the service again: a new SchedulerThread.
Restart ==
    /\ pc["main"] = "dead"
    /\ pc' = [c \in Caller |-> IF c = "main" THEN "idle" ELSE "check"]
    /\ cause' = [c \in Caller |-> IF c = "main" THEN "screen" ELSE "check"]
    /\ crash' = NoCrash /\ overlap' = [c \in Caller |-> FALSE] /\ reads' = 0
    /\ excuse' = FALSE
    /\ UNCHANGED <<monitors, outside, unseen, torn>>

-----------------------------------------------------------------------------
Calls(c) ==
    \/ Tests(c) \/ Tells(c) \/ Forgets(c) \/ Kills(c) \/ IsRunning(c)
    \/ Clears(c) \/ Fills(c) \/ Collects(c) \/ News(c) \/ Starts(c)
Upload == UploadCheck \/ Lists \/ (\E k \in Capture : Takes(k)) \/ Leaves
Loop == Check \/ Upload \/ Wakes
Next ==
    \/ \E c \in Caller : Calls(c)
    \/ Loop \/ Screen
    \/ \E m \in Monitor : Looks(m) \/ Gets(m) \/ Finishes(m)
    \/ \E k \in Capture : Proceeds(k) \/ KillArrives(k) \/ Fails(k)
    \/ Storage \/ Killed \/ Restart
Spec == Init /\ [][Next]_vars

\* Threads, processes and shells run on, and the alarm comes.
Fairness ==
    /\ WF_vars(Loop) /\ WF_vars(Restart)
    /\ \A c \in Caller : WF_vars(Calls(c))
    /\ \A m \in Monitor : WF_vars(Gets(m)) /\ WF_vars(Finishes(m))
    /\ \A k \in Capture : WF_vars(Proceeds(k)) /\ WF_vars(KillArrives(k))
FairSpec == Spec /\ Fairness

-----------------------------------------------------------------------------
(* Properties                                                              *)

\* The field ssd is read again after the test (172-175), and once more to start
\* the thread (188-189): that ends the process only when the other thread was in
\* stopCapture or doCapture during the call.  The list of targets vanishes under
\* a monitor (280) only when it is read more than "when the phone launches" (48).
CrashesExplained ==
    /\ crash.how \in {"null", "twice"} => overlap[crash.by]
    /\ crash.how = "list" => reads = 2

\* Until two calls overlap, a capture ends by itself, or one is started while
\* another is not in ps yet or was not seen there (183), the one monitor that
\* goes on is the one that the next stopCapture will stop.
MonitorsReachable ==
    ~excuse => \A m \in Monitor : mon[m] \in {"loop", "get"} /\ m \notin told => m = ssd

\* The upload takes the trace of a running collector away only if its own stop
\* did not kill it: it was starting then, su or ps failed, or the main thread
\* started it since.
UploadTearsUnseen == torn \subseteq unseen

\* While the storage stays critical, whatever upload() and races start again
\* (300) and stops that failed have spared is stopped again.
CriticalStops ==
    <>[](storage = "critical") => []<>(Starting \cup Running = {})

\* While it stays fine, collectors are always started again, also after crashes.
CaptureRecurs == <>[](storage = "fine") => []<>(Running # {})

=============================================================================
