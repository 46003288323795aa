---------------------------- MODULE IMAPCollector ----------------------------
(***************************************************************************)
(* The control of the packet capture: imapcollector/IMAPCollector.java and *)
(* the shell behind it.                                                    *)
(*                                                                         *)
(* The collector owns one root shell.  To start a capture it writes a      *)
(* command line to the shell's standard input; the shell runs the program  *)
(* imap-tcpdump in the foreground, so a second command line stays in the   *)
(* pipe until the first capture ends.  To stop a capture it creates the    *)
(* file /data/tmp/dc_stop_flag, sleeps five seconds and deletes the file;  *)
(* every running imap-tcpdump polls for the file (MonitorExit).            *)
(*                                                                         *)
(* A shell outlives the Android process that started it: when that process *)
(* dies, its shell, the capture it runs and the command lines left in its  *)
(* pipe go on as the "orphan" shell, and the next Android process has a    *)
(* new "app" shell.                                                        *)
(*                                                                         *)
(* The collector catches and forgets every IOException: a "ps" that cannot *)
(* be run has shown no capture, a command line that cannot be written is   *)
(* lost, and a stop whose file cannot be created sleeps all the same.      *)
(***************************************************************************)
EXTENDS Integers, Sequences

CONSTANTS
    PollsPerStop,   \* polls of MonitorExit that fit in the 5 s of a stop
    MaxIOErrors     \* bound: calls of the collector that fail

\* MonitorExit polls every 1.0 s and ends 0.2 s later, so 4 times 1.2 s fit
\* in the 5 s that stopCollectingIMAPData sleeps.
ASSUME PollsAssumption == PollsPerStop \in Nat /\ PollsPerStop >= 4
ASSUME IOErrorsAssumption == MaxIOErrors \in Nat

NoType    == 0          \* getCurrentInterfaceType: no network
WifiType  == 1
CellType  == 2
IfaceType == {WifiType, CellType}
Shells    == {"app", "orphan"}

VARIABLES
    stopFlag,   \* the file /data/tmp/dc_stop_flag exists
    polls,      \* polls left of the sleep in stopCollectingIMAPData
    run,        \* run[s]: interface type of the capture shell s runs, or NoType
    pipe,       \* pipe[s]: the start commands shell s has not read yet
    ioErrors,   \* history: calls of the collector that failed
    faults      \* history: those that hid or spared a capture, since no
                \* shell was last left with any work

shellVars == <<run, pipe>>
failVars  == <<ioErrors, faults>>
imapVars  == <<stopFlag, polls, shellVars, failVars>>

IMAPTypeOK ==
    /\ stopFlag \in BOOLEAN
    /\ polls \in 0..PollsPerStop
    /\ run \in [Shells -> IfaceType \cup {NoType}]
    /\ pipe \in [Shells -> Seq(IfaceType)]
    /\ ioErrors \in Nat
    /\ faults \in Nat

IMAPInit ==
    /\ stopFlag = FALSE
    /\ polls = 0
    /\ run = [s \in Shells |-> NoType]
    /\ pipe = [s \in Shells |-> <<>>]
    /\ ioErrors = 0
    /\ faults = 0

\* Shell s has neither a capture nor a command.
IdleShell(s) == run[s] = NoType /\ pipe[s] = <<>>

\* Nothing captures and nothing is going to.
Quiet == \A s \in Shells : IdleShell(s)

(***************************************************************************)
(* The methods of IMAPCollector, as the calls the scheduler makes.         *)
(***************************************************************************)

\* A call fails with an IOException, which is caught.  hides: a capture goes
\* on unseen or unstopped for it.
callFails(hides) ==
    /\ ioErrors < MaxIOErrors
    /\ ioErrors' = ioErrors + 1
    /\ faults' = IF hides THEN faults + 1 ELSE faults

\* A capture runs, of whichever shell.
Capturing == \E s \in Shells : run[s] # NoType

\* isIMAPCollectorRunning answers: "ps" lists the captures of every shell, but
\* not the command lines still in a pipe; one that cannot be run, or whose
\* output cannot be read, lists none.
isIMAPCollectorRunning(answer) ==
    /\ \/ answer = Capturing /\ UNCHANGED failVars
       \/ Capturing /\ ~answer /\ callFails(TRUE)
    /\ UNCHANGED <<stopFlag, polls, shellVars>>

\* startCollectingIMAPData(t).  The stop file is deleted first, whatever
\* follows.  named: the interface of that type has an address; when it has
\* none, or t is NoType, NoInterfaceNameException is thrown.  The command
\* line may fail to be written.  (Without a root shell, rootProcess being
\* null, the command is lost and the process dies of it: Killed may follow.)
startCollectingIMAPData(t, named) ==
    /\ stopFlag' = FALSE
    /\ \/ /\ t # NoType /\ named
          /\ \/ /\ pipe' = [pipe EXCEPT !["app"] = Append(@, t)]
                /\ UNCHANGED failVars
             \/ /\ callFails(FALSE)
                /\ UNCHANGED pipe
       \/ /\ t = NoType \/ ~named
          /\ UNCHANGED <<pipe, failVars>>
    /\ UNCHANGED <<polls, run>>

\* Mutant: the sleep of stopCollectingIMAPData is a second too short.
beginStopShort ==
    /\ stopFlag' = TRUE
    /\ polls' = PollsPerStop - 1
    /\ UNCHANGED <<shellVars, failVars>>

\* stopCollectingIMAPData up to its sleep: create the stop file, which may
\* fail.  (A file that a process left when it died serves as well.)
beginStop ==
    /\ polls' = PollsPerStop
    /\ \/ /\ stopFlag' = TRUE
          /\ UNCHANGED failVars
       \/ /\ ~stopFlag
          /\ callFails(TRUE)
          /\ UNCHANGED stopFlag
    /\ UNCHANGED shellVars

\* Mutant: stopCollectingIMAPData deletes the stop file without its sleep.
endStopAtOnce ==
    /\ stopFlag' = FALSE
    /\ polls' = 0
    /\ faults' = IF Quiet THEN 0 ELSE faults
    /\ UNCHANGED <<shellVars, ioErrors>>

\* Mutant: stopCollectingIMAPData asks "ps" until no capture is left.
endStopWaits ==
    /\ polls = 0 /\ ~Capturing
    /\ stopFlag' = FALSE
    /\ faults' = IF Quiet THEN 0 ELSE faults
    /\ UNCHANGED <<polls, shellVars, ioErrors>>

\* The rest of stopCollectingIMAPData, once the sleep is over.
endStop ==
    /\ polls = 0
    /\ stopFlag' = FALSE
    /\ faults' = IF Quiet THEN 0 ELSE faults
    /\ UNCHANGED <<polls, shellVars, ioErrors>>

(***************************************************************************)
(* The root shells and the captures they run.                              *)
(***************************************************************************)

\* A shell reads its next command line once its foreground capture has ended.
ShellReadsCommand(s) ==
    /\ run[s] = NoType
    /\ pipe[s] # <<>>
    /\ run' = [run EXCEPT ![s] = Head(pipe[s])]
    /\ pipe' = [pipe EXCEPT ![s] = Tail(@)]
    /\ UNCHANGED <<stopFlag, polls, failVars>>

\* A capture ends: it saw the stop file, or pcap_loop returned (an interface
\* that went down, a read error, a full disk).
CaptureEnds(s) ==
    /\ run[s] # NoType
    /\ run' = [run EXCEPT ![s] = NoType]
    /\ UNCHANGED <<stopFlag, polls, pipe, failVars>>

\* One poll period of the sleep in stopCollectingIMAPData: every capture that
\* runs sees the stop file, if it is there, and ends; a shell without a
\* capture reads a command.
PollPeriod ==
    /\ polls > 0
    /\ polls' = polls - 1
    /\ run' = [s \in Shells |->
                 IF run[s] # NoType THEN (IF stopFlag THEN NoType ELSE run[s])
                 ELSE IF pipe[s] # <<>> THEN Head(pipe[s]) ELSE NoType]
    /\ pipe' = [s \in Shells |->
                 IF run[s] = NoType /\ pipe[s] # <<>> THEN Tail(pipe[s])
                                                      ELSE pipe[s]]
    /\ UNCHANGED <<stopFlag, failVars>>

\* The Android process dies.  Its shell becomes the orphan; one with nothing
\* to do ends with its pipe.
abandonShell ==
    /\ IF IdleShell("app")
         THEN UNCHANGED shellVars
         ELSE /\ run' = [run EXCEPT !["orphan"] = run["app"], !["app"] = NoType]
              /\ pipe' = [pipe EXCEPT !["orphan"] = pipe["app"], !["app"] = <<>>]
    /\ polls' = 0
    /\ UNCHANGED <<stopFlag, failVars>>

\* The phone reboots: no shell survives, files do.
killShells ==
    /\ run' = [s \in Shells |-> NoType]
    /\ pipe' = [s \in Shells |-> <<>>]
    /\ polls' = 0
    /\ faults' = 0
    /\ UNCHANGED <<stopFlag, ioErrors>>

(***************************************************************************)
(* Vocabulary of the properties.                                           *)
(***************************************************************************)

\* The poll periods it takes to empty shell s while the stop file exists.
Work(s) == IF run[s] = NoType THEN 2 * Len(pipe[s]) ELSE 2 * Len(pipe[s]) + 1

\* No shell is about to start a capture.
Settled == \A s \in Shells : pipe[s] # <<>> => run[s] # NoType
=============================================================================
