--------------------------- MODULE CaptureProcess ---------------------------
(***************************************************************************)
(* One capture process, imap-tcpdump, from the end of StartCapture to its  *)
(* exit: the code that this repository adds to tcpdump.c, pcap-linux.c,    *)
(* sf-pcap.c and user_input.c.                                             *)
(*                                                                         *)
(* Two threads share the process.  The main thread is in pcap_loop, writes *)
(* each packet to the trace and adds its length to byteCounter.  The       *)
(* monitor thread (MonitorExit) wakes up every second, looks for the stop  *)
(* file, and in every Frequency-th second moves byteCounter into a window  *)
(* of Capacity values, whose total it writes to the file dc_activity, from *)
(* which the Android side tells whether the user is idle.  Either thread   *)
(* may end the process, through TerminateCapture.                          *)
(*                                                                         *)
(* Nothing is locked and byteCounter is no atomic: a read of it, an add to *)
(* it and the reset are steps of their own here.  A FILE closed twice or a *)
(* pcap handle used after pcap_close is undefined behaviour: the process   *)
(* crashes, or goes on.                                                    *)
(***************************************************************************)
EXTENDS Integers, Sequences

CONSTANTS
    Frequency,      \* CHECK_VOLUME_FREQUENCY
    Capacity,       \* QUEUE_CAPACITY
    Sizes,          \* captured lengths of packets
    MaxBytes        \* bound: bytes captured by the process

ASSUME WindowAssumption == Frequency \in Nat \ {0} /\ Capacity \in Nat \ {0}
ASSUME PacketAssumption == Sizes \subseteq Nat /\ MaxBytes \in Nat

NoFile == -3        \* dc_activity does not exist
Empty  == -2        \* it was opened and not written yet
Full   == -1        \* it says that the window is not full yet

VARIABLES
    proc,       \* "running", "exited" (exit was called) or "crashed"
    pc,         \* the place of each thread
    stopFile,   \* the file dc_stop_flag exists
    exitFlag,
    activity,   \* the content of dc_activity
    len,        \* length of the packet in pcap_dump
    reg,        \* byteCounter as pcap_dump has read it
    byteCounter,
    queue,      \* the window, the oldest value first
    totBytes,
    clk,        \* modulo Frequency
    filesOpen,  \* ofsAppName and ofsEvents are open
    pdOpen,     \* pcap_close has not been called
    captured,   \* history: bytes captured so far
    mishaps     \* history: what has gone wrong so far

volumeVars == <<len, reg, byteCounter, captured>>
windowVars == <<queue, totBytes, clk>>
handleVars == <<filesOpen, pdOpen>>
vars == <<proc, pc, stopFile, exitFlag, activity, volumeVars, windowVars,
          handleVars, mishaps>>

Threads == {"main", "mon"}
\* The places of TerminateCapture, then the one after it has returned.
TerminatePCs == {"files", "stats", "close", "exit", "returned"}
PCs == [main |-> {"wait", "load", "store", "ended", "remove"} \cup TerminatePCs,
        mon  |-> {"sleep", "remove", "open", "enqueue", "total", "reset", "write"}
                   \cup TerminatePCs]
\* pcap_loop ended before exitFlag was set, a packet ended the process,
\* pcap_stats failed, dc_activity could not be opened, MyAssert failed.
Mishaps == {"loop", "packet", "stats", "open", "assert"}

PlacesOK ==
    /\ proc \in {"running", "exited", "crashed"}
    /\ pc \in [Threads -> PCs.main \cup PCs.mon]
    /\ \A th \in Threads : pc[th] \in PCs[th]

FilesOK ==
    /\ stopFile \in BOOLEAN /\ exitFlag \in BOOLEAN
    /\ activity \in Int /\ activity >= NoFile
    /\ filesOpen \in BOOLEAN /\ pdOpen \in BOOLEAN
    /\ mishaps \subseteq Mishaps

VolumeOK ==
    /\ len \in Nat /\ reg \in Nat /\ byteCounter \in Nat /\ captured \in Nat
    /\ queue \in Seq(Nat) /\ Len(queue) <= Capacity
    /\ totBytes \in Nat
    /\ clk \in 0..(Frequency - 1)

TypeOK == PlacesOK /\ FilesOK /\ VolumeOK

\* StartCapture has run, and main has started the monitor thread.
Init ==
    /\ proc = "running"
    /\ pc = [th \in Threads |-> IF th = "main" THEN "wait" ELSE "sleep"]
    /\ stopFile \in BOOLEAN /\ exitFlag = FALSE /\ activity = NoFile
    /\ len = 0 /\ reg = 0 /\ byteCounter = 0 /\ captured = 0
    /\ queue = <<>> /\ totBytes = 0 /\ clk = 0
    /\ filesOpen = TRUE /\ pdOpen = TRUE /\ mishaps = {}

At(th, place) == proc = "running" /\ pc[th] = place
\* The thread goes on: no other thread moves, and the process runs on.
Goto(th, place) == pc' = [pc EXCEPT ![th] = place] /\ UNCHANGED proc
Ends(how) == proc' = how /\ UNCHANGED pc

(***************************************************************************)
(* TerminateCapture, called by either thread.                              *)
(***************************************************************************)

\* The last line of appname, and both files are closed.
TerminateFiles(th) ==
    /\ At(th, "files")
    /\ \/ Goto(th, "stats")
       \/ ~filesOpen /\ Ends("crashed")
    /\ filesOpen' = FALSE
    /\ UNCHANGED <<stopFile, exitFlag, activity, volumeVars, windowVars, pdOpen,
                   mishaps>>

\* When pcap_stats fails TerminateCapture returns.
TerminateStats(th) ==
    /\ At(th, "stats")
    /\ \/ Goto(th, "close") /\ UNCHANGED mishaps
       \/ Goto(th, "returned") /\ mishaps' = mishaps \cup {"stats"}
       \/ ~pdOpen /\ Ends("crashed") /\ UNCHANGED mishaps
    /\ UNCHANGED <<stopFile, exitFlag, activity, volumeVars, windowVars,
                   handleVars>>

TerminateClose(th) ==
    /\ At(th, "close")
    /\ \/ Goto(th, "exit")
       \/ ~pdOpen /\ Ends("crashed")
    /\ pdOpen' = FALSE
    /\ UNCHANGED <<stopFile, exitFlag, activity, volumeVars, windowVars,
                   filesOpen, mishaps>>

TerminateExit(th) ==
    /\ At(th, "exit") /\ Ends("exited")
    /\ UNCHANGED <<stopFile, exitFlag, activity, volumeVars, windowVars,
                   handleVars, mishaps>>

TerminateCapture(th) ==
    \/ TerminateFiles(th) \/ TerminateStats(th)
    \/ TerminateClose(th) \/ TerminateExit(th)

(***************************************************************************)
(* The main thread.                                                        *)
(***************************************************************************)

\* A packet is read.  A ring that holds packets is read without a look at
\* exitFlag, so that it may be set here.
Receive ==
    /\ At("main", "wait") /\ Goto("main", "load")
    /\ \E n \in Sizes : captured + n <= MaxBytes /\ len' = n
    /\ UNCHANGED <<stopFile, exitFlag, activity, reg, byteCounter, captured,
                   windowVars, handleVars, mishaps>>

\* It is read from a closed handle, or its name goes to a closed appname.
ReceiveCrashes ==
    /\ At("main", "wait") /\ ~(filesOpen /\ pdOpen) /\ Ends("crashed")
    /\ UNCHANGED <<stopFile, exitFlag, activity, volumeVars, windowVars,
                   handleVars, mishaps>>

\* It is the end of the process: the trace is full and the next file cannot be
\* opened (error), or the search for its process meets a port out of range (exit)
\* or closes a directory it could not open (a crash, see ConnTable).
ReceiveExits ==
    /\ At("main", "wait") /\ (Ends("exited") \/ Ends("crashed"))
    /\ mishaps' = mishaps \cup {"packet"}
    /\ UNCHANGED <<stopFile, exitFlag, activity, volumeVars, windowVars,
                   handleVars>>

\* byteCounter += h->caplen in pcap_dump: the read, then the write.
LoadCounter ==
    /\ At("main", "load") /\ Goto("main", "store")
    /\ reg' = byteCounter
    /\ UNCHANGED <<stopFile, exitFlag, activity, len, byteCounter, captured,
                   windowVars, handleVars, mishaps>>

StoreCounter ==
    /\ At("main", "store") /\ Goto("main", "wait")
    /\ byteCounter' = reg + len
    /\ captured' = captured + len
    /\ UNCHANGED <<stopFile, exitFlag, activity, len, reg, windowVars,
                   handleVars, mishaps>>

\* pcap_loop returns: it sees exitFlag before or after it waits for a packet,
\* or reading fails.
LoopReturns ==
    /\ At("main", "wait") /\ Goto("main", "ended")
    /\ mishaps' = IF exitFlag THEN mishaps ELSE mishaps \cup {"loop"}
    /\ UNCHANGED <<stopFile, exitFlag, activity, volumeVars, windowVars,
                   handleVars>>

LoopEnded ==
    /\ At("main", "ended") /\ Goto("main", "remove")
    /\ exitFlag' = TRUE
    /\ UNCHANGED <<stopFile, activity, volumeVars, windowVars, handleVars, mishaps>>

\* remove("/data/tmp/dc_activity"), and 0.2 s of sleep.
MainRemoves ==
    /\ At("main", "remove") /\ Goto("main", "files")
    /\ activity' = NoFile
    /\ UNCHANGED <<stopFile, exitFlag, volumeVars, windowVars, handleVars, mishaps>>

\* TerminateCapture has returned: tcpdump's own end of main closes the handle
\* and exits.
MainFallsThrough ==
    /\ At("main", "returned")
    /\ \/ Ends("exited")
       \/ ~pdOpen /\ Ends("crashed")
    /\ pdOpen' = FALSE
    /\ UNCHANGED <<stopFile, exitFlag, activity, volumeVars, windowVars,
                   filesOpen, mishaps>>

(***************************************************************************)
(* The monitor thread, MonitorExit.                                        *)
(***************************************************************************)

\* It wakes up and finds the stop file.
MonStops ==
    /\ At("mon", "sleep") /\ stopFile /\ Goto("mon", "remove")
    /\ exitFlag' = TRUE
    /\ UNCHANGED <<stopFile, activity, volumeVars, windowVars, handleVars, mishaps>>

\* Mutants: dc_activity is left to the next process; TerminateCapture is not
\* called.
MonRemovesNothing ==
    /\ At("mon", "remove") /\ Goto("mon", "files")
    /\ UNCHANGED <<stopFile, exitFlag, activity, volumeVars, windowVars,
                   handleVars, mishaps>>

MonRemovesOnly ==
    /\ At("mon", "remove") /\ Goto("mon", "sleep")
    /\ activity' = NoFile
    /\ UNCHANGED <<stopFile, exitFlag, volumeVars, windowVars, handleVars, mishaps>>

MonRemoves ==
    /\ At("mon", "remove") /\ Goto("mon", "files")
    /\ activity' = NoFile
    /\ UNCHANGED <<stopFile, exitFlag, volumeVars, windowVars, handleVars, mishaps>>

\* It finds no stop file, or TerminateCapture has returned.
MonTicks ==
    /\ (At("mon", "sleep") /\ ~stopFile) \/ At("mon", "returned")
    /\ clk' = (clk + 1) % Frequency
    /\ Goto("mon", IF clk' = 0 THEN "open" ELSE "sleep")
    /\ UNCHANGED <<stopFile, exitFlag, activity, volumeVars, queue, totBytes,
                   handleVars, mishaps>>

\* fopen empties dc_activity, or fails.
MonOpens ==
    /\ At("mon", "open")
    /\ \/ Goto("mon", "enqueue") /\ activity' = Empty /\ UNCHANGED mishaps
       \/ Ends("exited") /\ mishaps' = mishaps \cup {"open"} /\ UNCHANGED activity
    /\ UNCHANGED <<stopFile, exitFlag, volumeVars, windowVars, handleVars>>

Enters(q) == queue' = Append(q, byteCounter) /\ Goto("mon", "total")

\* Mutant: the window grows without bound.
MonEnqueuesAll ==
    /\ At("mon", "enqueue") /\ Enters(queue)
    /\ UNCHANGED <<stopFile, exitFlag, activity, volumeVars, totBytes, clk,
                   handleVars, mishaps>>

\* byteCounter enters the window, in the place of the oldest value once the
\* window is full.
MonEnqueues ==
    /\ At("mon", "enqueue")
    /\ \/ Len(queue) < Capacity /\ Enters(queue) /\ UNCHANGED <<totBytes, mishaps>>
       \/ LET left == totBytes - Head(queue)
          IN  /\ Len(queue) >= Capacity
              /\ \/ left >= 0 /\ totBytes' = left /\ Enters(Tail(queue))
                    /\ UNCHANGED mishaps
                 \/ left < 0 /\ Ends("exited") /\ mishaps' = mishaps \cup {"assert"}
                    /\ UNCHANGED <<queue, totBytes>>
    /\ UNCHANGED <<stopFile, exitFlag, activity, volumeVars, clk, handleVars>>

\* Mutant: the total is that of the last value.
MonAddsAnew ==
    /\ At("mon", "total") /\ Goto("mon", "reset")
    /\ totBytes' = byteCounter
    /\ UNCHANGED <<stopFile, exitFlag, activity, volumeVars, queue, clk,
                   handleVars, mishaps>>

\* The second read of byteCounter.
MonAdds ==
    /\ At("mon", "total") /\ Goto("mon", "reset")
    /\ totBytes' = totBytes + byteCounter
    /\ UNCHANGED <<stopFile, exitFlag, activity, volumeVars, queue, clk,
                   handleVars, mishaps>>

\* Mutant: only what entered the window is taken off the counter.
MonResetsPartly ==
    /\ At("mon", "reset") /\ Goto("mon", "write")
    /\ byteCounter' = byteCounter - queue[Len(queue)]
    /\ UNCHANGED <<stopFile, exitFlag, activity, len, reg, captured, windowVars,
                   handleVars, mishaps>>

MonResets ==
    /\ At("mon", "reset") /\ Goto("mon", "write")
    /\ byteCounter' = 0
    /\ UNCHANGED <<stopFile, exitFlag, activity, len, reg, captured, windowVars,
                   handleVars, mishaps>>

\* fclose writes the line, to no file if main has removed it meanwhile.
MonWrites ==
    /\ At("mon", "write") /\ Goto("mon", "sleep")
    /\ activity' = IF activity = NoFile THEN NoFile
                   ELSE IF Len(queue) < Capacity THEN Full ELSE totBytes
    /\ UNCHANGED <<stopFile, exitFlag, volumeVars, windowVars, handleVars, mishaps>>

(***************************************************************************)
(* The process.                                                            *)
(***************************************************************************)

\* IMAPCollector creates and deletes the stop file.
StopFileChanges ==
    /\ proc = "running"
    /\ stopFile' = ~stopFile
    /\ UNCHANGED <<proc, pc, exitFlag, activity, volumeVars, windowVars,
                   handleVars, mishaps>>

MainRuns ==
    \/ LoadCounter \/ StoreCounter \/ LoopEnded \/ MainRemoves
    \/ MainFallsThrough \/ TerminateCapture("main")

MonRuns ==
    \/ MonStops \/ MonRemoves \/ MonTicks \/ MonOpens \/ MonEnqueues \/ MonAdds
    \/ MonResets \/ MonWrites \/ TerminateCapture("mon")

Next ==
    \/ Receive \/ ReceiveCrashes \/ ReceiveExits \/ LoopReturns
    \/ MainRuns \/ MonRuns \/ StopFileChanges

Spec == Init /\ [][Next]_vars

\* Nothing makes a packet arrive: pcap_loop may wait for ever.
FairSpec == Spec /\ WF_vars(MainRuns) /\ WF_vars(MonRuns)

(***************************************************************************)
(* Properties.                                                             *)
(***************************************************************************)

\* MyAssert (user_input.c:405) never fails: though byteCounter is read twice
\* for a value, once for the window and once for the total, and packets arrive
\* between the reads, the total is never short of the value that leaves.
AssertionsHold == "assert" \notin mishaps

\* The values of q fit in total: f is the sequence of their sums.
Fits(q, total) ==
    \E f \in [0..Len(q) -> 0..total] :
        /\ f[0] = 0
        /\ \A i \in 1..Len(q) : f[i] = f[i - 1] + q[i]
        /\ \A i, j \in 0..Len(q) : i <= j => f[i] <= f[j]

\* What keeps MyAssert from failing: the total covers the window at every
\* moment, with what the second read of byteCounter adds once a value has
\* entered.  For that byteCounter may not fall between the two reads, which it
\* would if pcap_dump wrote back a count it had read before the last reset.
WindowInv ==
    /\ AssertionsHold
    /\ pc["main"] = "store" => byteCounter \in {reg, 0}
    /\ Fits(queue, IF pc["mon"] = "total" THEN totBytes + byteCounter ELSE totBytes)

\* A process that has ended leaves no dc_activity behind, from which
\* Utilities.isUserIdle would go on to read the volume of the past - unless
\* pcap_loop ended by itself (the monitor may write the file again after main
\* has removed it), a packet ended the process, or pcap_stats, fopen or MyAssert
\* failed.
ActivityRemoved == proc # "running" /\ mishaps = {} => activity = NoFile

\* Why: with no mishap it is the monitor that sets exitFlag, and then it writes
\* no more; each thread removes the file before it closes anything.
ActivityInv ==
    \/ mishaps # {}
    \/ /\ exitFlag <=> pc["mon"] \in {"remove", "files", "stats", "close", "exit"}
       /\ \A th \in Threads : pc[th] # "returned"
       /\ \A th \in Threads : pc[th] \in {"files", "stats", "close", "exit"}
                                 => activity = NoFile /\ exitFlag
       /\ pc["main"] \in {"ended", "remove"} => exitFlag
       /\ ~filesOpen \/ ~pdOpen \/ proc # "running" => activity = NoFile /\ exitFlag

\* Once exitFlag is set the process ends, by either thread and whatever the
\* other does, though the main thread may wait for a packet for ever and the
\* stop file may be deleted meanwhile (unless pcap_stats fails).
ExitEnds == exitFlag ~> proc # "running" \/ "stats" \in mishaps

\* "every 10 sec, write the total send/recv bytes in the past 180 sec to the
\* file" (user_input.c:390): dc_activity never shows more than was captured.
ShownVolume == activity <= captured

(***************************************************************************)
(* What the proof of liveness takes for granted.                           *)
(***************************************************************************)

\* No thread waits for the other: it can always go on, but for the wait for a
\* packet.  The guards say so, but ENABLED is beyond the prover.
NeitherStuck ==
    proc = "running" =>
        /\ ENABLED <<MonRuns>>_vars
        /\ pc["main"] # "wait" => ENABLED <<MainRuns>>_vars

=============================================================================
