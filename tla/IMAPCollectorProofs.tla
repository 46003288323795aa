------------------------- MODULE IMAPCollectorProofs -------------------------
(* Facts about the operators of IMAPCollector, used by SchedulerProofs: the *)
(* types they keep and the work (Work) they leave the shells with.          *)
EXTENDS IMAPCollector, TLAPS

\* What a command line in a pipe adds to the work, and reading it removes.
LEMMA PipeFacts ==
    ASSUME NEW S, NEW q \in Seq(S)
    PROVE  /\ Len(q) \in Nat
           /\ q # <<>> <=> Len(q) > 0
           /\ \A e \in S : Append(q, e) \in Seq(S) /\ Len(Append(q, e)) = Len(q) + 1
           /\ q # <<>> => /\ Head(q) \in S
                          /\ Tail(q) \in Seq(S)
                          /\ Len(Tail(q)) = Len(q) - 1
  OBVIOUS

LEMMA IMAPUnchangedType ==
    ASSUME IMAPTypeOK, UNCHANGED imapVars
    PROVE  IMAPTypeOK'
  BY DEF IMAPTypeOK, imapVars, shellVars, failVars

LEMMA InitIMAPType ==
    ASSUME IMAPInit
    PROVE  IMAPTypeOK
<1>1. <<>> \in Seq(IfaceType)
  OBVIOUS
<1>2. stopFlag \in BOOLEAN /\ polls = 0
  BY DEF IMAPInit
<1>3. run \in [Shells -> IfaceType \cup {NoType}]
  BY DEF IMAPInit
<1>4. pipe \in [Shells -> Seq(IfaceType)]
  BY <1>1 DEF IMAPInit
<1>5. ioErrors \in Nat /\ faults \in Nat
  BY DEF IMAPInit
<1>. QED
  BY <1>2, <1>3, <1>4, <1>5, PollsAssumption DEF IMAPTypeOK

\* A failed call is counted, and once more if it hides a capture.
LEMMA FailCounts ==
    ASSUME IMAPTypeOK, NEW hides, callFails(hides)
    PROVE  /\ ioErrors' \in Nat /\ faults' \in Nat
           /\ faults' = IF hides THEN faults + 1 ELSE faults
  BY DEF IMAPTypeOK, callFails

LEMMA RunningType ==
    ASSUME IMAPTypeOK, NEW answer, isIMAPCollectorRunning(answer)
    PROVE  IMAPTypeOK'
<1>1. ioErrors' \in Nat /\ faults' \in Nat
  BY FailCounts DEF IMAPTypeOK, isIMAPCollectorRunning, failVars
<1>. QED
  BY <1>1 DEF IMAPTypeOK, isIMAPCollectorRunning, shellVars

LEMMA StartType ==
    ASSUME IMAPTypeOK, NEW t \in IfaceType \cup {NoType}, NEW named,
           startCollectingIMAPData(t, named)
    PROVE  IMAPTypeOK'
<1>1. ioErrors' \in Nat /\ faults' \in Nat
  BY FailCounts DEF IMAPTypeOK, startCollectingIMAPData, failVars
<1>2. CASE t # NoType /\ named /\ pipe' = [pipe EXCEPT !["app"] = Append(@, t)]
  <2>1. pipe["app"] \in Seq(IfaceType) /\ t \in IfaceType
    BY <1>2 DEF IMAPTypeOK, Shells
  <2>2. Append(pipe["app"], t) \in Seq(IfaceType)
    BY <2>1
  <2>3. pipe' = [pipe EXCEPT !["app"] = Append(pipe["app"], t)]
    BY <1>2
  <2>. QED
    BY <1>1, <2>2, <2>3 DEF IMAPTypeOK, startCollectingIMAPData, Shells
<1>3. CASE UNCHANGED pipe
  BY <1>1, <1>3 DEF IMAPTypeOK, startCollectingIMAPData
<1>. QED
  BY <1>2, <1>3 DEF startCollectingIMAPData

LEMMA StopType ==
    ASSUME IMAPTypeOK, beginStop \/ endStop
    PROVE  IMAPTypeOK'
<1>1. polls' \in 0..PollsPerStop
  <2>1. PollsPerStop \in 0..PollsPerStop
    BY PollsAssumption
  <2>2. polls' = polls \/ polls' = PollsPerStop
    BY DEF beginStop, endStop
  <2>. QED
    BY <2>1, <2>2 DEF IMAPTypeOK
<1>2. stopFlag' \in BOOLEAN /\ UNCHANGED <<run, pipe>>
  BY DEF IMAPTypeOK, beginStop, endStop, shellVars
<1>3. ioErrors' \in Nat /\ faults' \in Nat
  <2>1. CASE callFails(TRUE)
    BY <2>1, FailCounts
  <2>2. CASE UNCHANGED failVars
    BY <2>2 DEF IMAPTypeOK, failVars
  <2>3. CASE endStop
    BY <2>3 DEF IMAPTypeOK, endStop
  <2>. QED
    BY <2>1, <2>2, <2>3 DEF beginStop
<1>. QED
  BY <1>1, <1>2, <1>3 DEF IMAPTypeOK

LEMMA ShellReadsType ==
    ASSUME IMAPTypeOK, NEW s \in Shells, ShellReadsCommand(s)
    PROVE  IMAPTypeOK'
<1>1. pipe[s] \in Seq(IfaceType) /\ pipe[s] # <<>>
  BY DEF IMAPTypeOK, ShellReadsCommand
<1>2. Head(pipe[s]) \in IfaceType /\ Tail(pipe[s]) \in Seq(IfaceType)
  BY <1>1, PipeFacts
<1>. QED
  BY <1>2 DEF IMAPTypeOK, ShellReadsCommand, failVars

LEMMA CaptureEndsType ==
    ASSUME IMAPTypeOK, NEW s \in Shells, CaptureEnds(s)
    PROVE  IMAPTypeOK'
  BY DEF IMAPTypeOK, CaptureEnds, failVars

LEMMA PollPeriodType ==
    ASSUME IMAPTypeOK, PollPeriod
    PROVE  IMAPTypeOK'
<1>1. \A s \in Shells : pipe[s] # <<>> =>
          Head(pipe[s]) \in IfaceType /\ Tail(pipe[s]) \in Seq(IfaceType)
  BY PipeFacts DEF IMAPTypeOK
<1>2. run' \in [Shells -> IfaceType \cup {NoType}]
  BY <1>1 DEF PollPeriod, IMAPTypeOK
<1>3. pipe' \in [Shells -> Seq(IfaceType)]
  BY <1>1 DEF PollPeriod, IMAPTypeOK
<1>. QED
  BY <1>2, <1>3, PollsAssumption DEF PollPeriod, IMAPTypeOK, failVars

LEMMA LostShellType ==
    ASSUME IMAPTypeOK, abandonShell \/ killShells
    PROVE  IMAPTypeOK'
<1>1. <<>> \in Seq(IfaceType)
  OBVIOUS
<1>2. polls' \in 0..PollsPerStop /\ stopFlag' \in BOOLEAN
  BY PollsAssumption DEF IMAPTypeOK, abandonShell, killShells
<1>3. run' \in [Shells -> IfaceType \cup {NoType}]
  BY DEF IMAPTypeOK, abandonShell, killShells, Shells, shellVars
<1>4. pipe' \in [Shells -> Seq(IfaceType)]
  BY <1>1 DEF IMAPTypeOK, abandonShell, killShells, Shells, shellVars
<1>5. ioErrors' \in Nat /\ faults' \in Nat
  BY DEF IMAPTypeOK, abandonShell, killShells, failVars
<1>. QED
  BY <1>2, <1>3, <1>4, <1>5 DEF IMAPTypeOK

-----------------------------------------------------------------------------
(* The work of the shells. *)

LEMMA WorkNat ==
    ASSUME IMAPTypeOK, NEW s \in Shells
    PROVE  Work(s) \in Nat /\ Work(s) >= 0
  BY DEF IMAPTypeOK, Work

LEMMA WorkNatNext ==
    ASSUME IMAPTypeOK', NEW s \in Shells
    PROVE  Work(s)' \in Nat
  BY DEF IMAPTypeOK, Work

\* No work is left exactly when nothing captures and nothing is going to.
LEMMA QuietIsNoWork ==
    ASSUME IMAPTypeOK
    PROVE  Quiet <=> \A s \in Shells : Work(s) = 0
<1>. SUFFICES ASSUME NEW s \in Shells
              PROVE  (run[s] = NoType /\ pipe[s] = <<>>) <=> Work(s) = 0
  BY DEF Quiet, IdleShell
<1>1. pipe[s] \in Seq(IfaceType)
  BY DEF IMAPTypeOK
<1>2. Len(pipe[s]) \in Nat /\ (pipe[s] # <<>> <=> Len(pipe[s]) > 0)
  BY <1>1, PipeFacts
<1>. QED
  BY <1>2 DEF Work

LEMMA QuietIsNoWorkNext ==
    IMAPTypeOK' => (Quiet' <=> \A s \in Shells : Work(s)' = 0)
<1>1. IMAPTypeOK => (Quiet <=> \A s \in Shells : Work(s) = 0)
  BY QuietIsNoWork
<1>2. (IMAPTypeOK => (Quiet <=> \A s \in Shells : Work(s) = 0))'
  BY <1>1, PTL
<1>. QED
  BY <1>2

\* Settled shells do an odd number of polls of work, or none.
LEMMA SettledWork ==
    ASSUME IMAPTypeOK, Settled, NEW s \in Shells, Work(s) <= 4 + 2 * faults
    PROVE  Work(s) <= 3 + 2 * faults
<1>1. pipe[s] \in Seq(IfaceType) /\ faults \in Nat
  BY DEF IMAPTypeOK
<1>2. Len(pipe[s]) \in Nat /\ (pipe[s] # <<>> <=> Len(pipe[s]) > 0)
  BY <1>1, PipeFacts
<1>3. CASE run[s] = NoType
  <2>1. Len(pipe[s]) = 0
    BY <1>2, <1>3 DEF Settled
  <2>2. Work(s) = 0
    BY <1>3, <2>1 DEF Work
  <2>. QED
    BY <1>1, <2>2
<1>4. CASE run[s] # NoType
  <2>1. Work(s) = 2 * Len(pipe[s]) + 1
    BY <1>4 DEF Work
  <2>2. \A l, f \in Nat : 2 * l + 1 <= 4 + 2 * f => 2 * l + 1 <= 3 + 2 * f
    OBVIOUS
  <2>. QED
    BY <1>1, <1>2, <2>1, <2>2
<1>. QED
  BY <1>3, <1>4

LEMMA UnchangedWork ==
    ASSUME UNCHANGED <<run, pipe>>, NEW s \in Shells
    PROVE  Work(s)' = Work(s)
  BY DEF Work

\* What "ps" answers leaves the shells alone; if it hides a capture that counts.
LEMMA RunningWork ==
    ASSUME IMAPTypeOK, NEW answer \in BOOLEAN, isIMAPCollectorRunning(answer)
    PROVE  /\ UNCHANGED <<run, pipe>>
           /\ faults' = faults \/ faults' = faults + 1
           /\ ~answer /\ Capturing => faults' = faults + 1
<1>1. UNCHANGED <<run, pipe>>
  BY DEF isIMAPCollectorRunning, shellVars
<1>2. CASE answer = Capturing /\ UNCHANGED failVars
  BY <1>1, <1>2 DEF failVars
<1>3. CASE callFails(TRUE)
  BY <1>1, <1>3, FailCounts
<1>. QED
  BY <1>2, <1>3 DEF isIMAPCollectorRunning

\* Without a capture to be seen the app's shell has an even amount of work.
LEMMA UnseenWork ==
    ASSUME IMAPTypeOK, isIMAPCollectorRunning(FALSE), Work("app") <= 3 + 2 * faults
    PROVE  Work("app")' <= 2 + 2 * faults'
<1>0. "app" \in Shells /\ faults \in Nat
  BY DEF IMAPTypeOK, Shells
<1>a. UNCHANGED <<run, pipe>> /\ faults' \in {faults, faults + 1}
      /\ (Capturing => faults' = faults + 1)
  <2>. DEFINE answer == FALSE
  <2>1. answer \in BOOLEAN /\ isIMAPCollectorRunning(answer) /\ ~answer
    OBVIOUS
  <2>. HIDE DEF answer
  <2>. QED
    BY <2>1, RunningWork
<1>1. Work("app")' = Work("app") /\ Work("app") \in Nat
  BY <1>0, <1>a, UnchangedWork, WorkNat
<1>2. CASE Capturing
  <2>1. faults' = faults + 1
    BY <1>2, <1>a
  <2>. QED
    BY <1>0, <1>1, <2>1
<1>3. CASE ~Capturing
  <2>1. run["app"] = NoType /\ Len(pipe["app"]) \in Nat
    BY <1>0, <1>3, PipeFacts DEF Capturing, IMAPTypeOK
  <2>2. Work("app") = 2 * Len(pipe["app"])
    BY <2>1 DEF Work
  <2>3. \A l, f \in Nat : 2 * l <= 3 + 2 * f => 2 * l <= 2 + 2 * f
    OBVIOUS
  <2>4. Work("app") <= 2 + 2 * faults
    BY <1>0, <2>1, <2>2, <2>3
  <2>. QED
    BY <1>0, <1>1, <1>a, <2>4
<1>. QED
  BY <1>2, <1>3

\* A start adds one command at most, and nothing that is hidden.
LEMMA StartWork ==
    ASSUME IMAPTypeOK, NEW t \in IfaceType \cup {NoType}, NEW named,
           startCollectingIMAPData(t, named)
    PROVE  /\ Work("app")' <= Work("app") + 2
           /\ Work("orphan")' = Work("orphan")
           /\ UNCHANGED faults
           /\ ~named => Work("app")' = Work("app")
<1>1. "app" \in Shells /\ "orphan" \in Shells
  BY DEF Shells
<1>2. Work("app") \in Nat
  BY <1>1, WorkNat
<1>a. UNCHANGED faults
  BY FailCounts DEF startCollectingIMAPData, failVars
<1>3. CASE t # NoType /\ named /\ pipe' = [pipe EXCEPT !["app"] = Append(@, t)]
  <2>1. pipe["app"] \in Seq(IfaceType) /\ t \in IfaceType
    BY <1>1, <1>3 DEF IMAPTypeOK
  <2>2. Len(Append(pipe["app"], t)) = Len(pipe["app"]) + 1 /\ Len(pipe["app"]) \in Nat
    BY <2>1, PipeFacts
  <2>3. pipe' = [pipe EXCEPT !["app"] = Append(pipe["app"], t)] /\ run' = run
    BY <1>3 DEF startCollectingIMAPData
  <2>4. /\ pipe'["app"] = Append(pipe["app"], t)
        /\ pipe'["orphan"] = pipe["orphan"]
    BY <1>1, <2>3 DEF IMAPTypeOK
  <2>5. Work("app")' <= Work("app") + 2 /\ Work("orphan")' = Work("orphan")
    BY <2>2, <2>3, <2>4 DEF Work
  <2>. QED
    BY <1>3, <1>a, <2>5
<1>4. CASE UNCHANGED pipe
  <2>1. UNCHANGED <<run, pipe>>
    BY <1>4 DEF startCollectingIMAPData
  <2>. QED
    BY <1>1, <1>2, <1>a, <2>1, UnchangedWork
<1>. QED
  BY <1>3, <1>4 DEF startCollectingIMAPData

\* A stop begins with its file, or fails.
LEMMA StopWork ==
    ASSUME IMAPTypeOK, beginStop
    PROVE  /\ UNCHANGED <<run, pipe>> /\ polls' = PollsPerStop
           /\ \/ stopFlag' = TRUE /\ faults' = faults
              \/ stopFlag' = FALSE /\ faults' = faults + 1
  BY FailCounts DEF beginStop, shellVars, failVars, IMAPTypeOK

LEMMA ShellReadsWork ==
    ASSUME IMAPTypeOK, NEW r \in Shells, ShellReadsCommand(r), NEW s \in Shells
    PROVE  Work(s)' <= Work(s) /\ (s = r => Work(s)' < Work(s))
<1>1. pipe[r] \in Seq(IfaceType) /\ pipe[r] # <<>> /\ run[r] = NoType
  BY DEF IMAPTypeOK, ShellReadsCommand
<1>2. /\ Len(Tail(pipe[r])) = Len(pipe[r]) - 1
      /\ Len(pipe[r]) \in Nat /\ Len(pipe[s]) \in Nat
  BY <1>1, PipeFacts DEF IMAPTypeOK
<1>3. CASE r = s
  <2>1. run'[r] # NoType /\ pipe'[r] = Tail(pipe[r])
    BY <1>1, PipeFacts DEF ShellReadsCommand, IMAPTypeOK, IfaceType, NoType, WifiType, CellType
  <2>2. Work(r) = 2 * Len(pipe[r]) /\ Work(r)' = 2 * (Len(pipe[r]) - 1) + 1
    BY <1>1, <1>2, <2>1 DEF Work
  <2>. QED
    BY <1>2, <1>3, <2>2
<1>4. CASE r # s
  <2>1. run'[s] = run[s] /\ pipe'[s] = pipe[s]
    BY <1>4 DEF ShellReadsCommand, IMAPTypeOK
  <2>. QED
    BY <1>2, <1>4, <2>1 DEF Work
<1>. QED
  BY <1>3, <1>4

LEMMA CaptureEndsWork ==
    ASSUME IMAPTypeOK, NEW r \in Shells, CaptureEnds(r), NEW s \in Shells
    PROVE  Work(s)' <= Work(s) /\ (s = r => Work(s)' < Work(s))
<1>1. Len(pipe[s]) \in Nat
  BY PipeFacts DEF IMAPTypeOK
<1>. QED
  BY <1>1 DEF CaptureEnds, Work, IMAPTypeOK

\* A poll period takes one off the work of every shell that has some, if the
\* stop file is there, and never adds any.
LEMMA PollWork ==
    ASSUME IMAPTypeOK, PollPeriod, NEW s \in Shells
    PROVE  /\ stopFlag => Work(s)' = IF Work(s) = 0 THEN 0 ELSE Work(s) - 1
           /\ Work(s)' <= Work(s)
           /\ run[s] = NoType /\ pipe[s] # <<>> => Work(s)' < Work(s)
<1>1. pipe[s] \in Seq(IfaceType)
  BY DEF IMAPTypeOK
<1>2. /\ Len(pipe[s]) \in Nat
      /\ pipe[s] # <<>> <=> Len(pipe[s]) > 0
      /\ pipe[s] # <<>> => Len(Tail(pipe[s])) = Len(pipe[s]) - 1
                           /\ Head(pipe[s]) \in IfaceType
  BY <1>1, PipeFacts
<1>3. \A i \in IfaceType : i # NoType
  BY DEF IfaceType, WifiType, CellType, NoType
<1>4. CASE run[s] = NoType /\ pipe[s] # <<>>
  <2>1. run'[s] # NoType /\ pipe'[s] = Tail(pipe[s])
    BY <1>2, <1>3, <1>4 DEF PollPeriod
  <2>. QED
    BY <1>2, <1>4, <2>1 DEF Work
<1>5. CASE run[s] # NoType /\ stopFlag
  <2>1. run'[s] = NoType /\ pipe'[s] = pipe[s]
    BY <1>5 DEF PollPeriod
  <2>2. Work(s)' = 2 * Len(pipe[s]) /\ Work(s) = 2 * Len(pipe[s]) + 1
    BY <1>2, <1>5, <2>1 DEF Work
  <2>. QED
    BY <1>2, <1>5, <2>2
<1>6. CASE run[s] # NoType /\ ~stopFlag
  <2>1. run'[s] = run[s] /\ pipe'[s] = pipe[s]
    BY <1>6 DEF PollPeriod
  <2>. QED
    BY <1>2, <1>6, <2>1 DEF Work
<1>7. CASE run[s] = NoType /\ pipe[s] = <<>>
  <2>1. run'[s] = NoType /\ pipe'[s] = pipe[s] /\ Len(pipe[s]) = 0
    BY <1>2, <1>7 DEF PollPeriod
  <2>. QED
    BY <1>7, <2>1 DEF Work
<1>. QED
  BY <1>4, <1>5, <1>6, <1>7

\* After a death the app's shell is new, and the orphan is the one or the other.
LEMMA LostShellWork ==
    ASSUME IMAPTypeOK, abandonShell \/ killShells
    PROVE  /\ Work("app")' = 0
           /\ \/ Work("orphan")' \in {Work("app"), Work("orphan")} /\ faults' = faults
              \/ Work("orphan")' = 0 /\ faults' = 0
<1>1. Len(<<>>) = 0
  OBVIOUS
<1>2. CASE abandonShell
  <2>1. CASE IdleShell("app") /\ UNCHANGED shellVars
    <3>1. UNCHANGED <<run, pipe>> /\ run["app"] = NoType /\ pipe["app"] = <<>>
      BY <2>1 DEF shellVars, IdleShell
    <3>2. Work("app")' = 0 /\ Work("orphan")' = Work("orphan")
      BY <1>1, <3>1 DEF Work
    <3>. QED
      BY <1>2, <3>2 DEF abandonShell, failVars
  <2>2. CASE ~IdleShell("app")
    <3>1. /\ run'["app"] = NoType /\ pipe'["app"] = <<>>
          /\ run'["orphan"] = run["app"] /\ pipe'["orphan"] = pipe["app"]
      BY <1>2, <2>2 DEF abandonShell, IMAPTypeOK, Shells
    <3>2. Work("app")' = 0
      BY <1>1, <3>1 DEF Work
    <3>3. Work("orphan")' = Work("app")
      BY <3>1 DEF Work
    <3>. QED
      BY <1>2, <3>2, <3>3 DEF abandonShell, failVars
  <2>. QED
    BY <1>2, <2>1, <2>2 DEF abandonShell
<1>3. CASE killShells
  <2>1. \A s \in Shells : run'[s] = NoType /\ pipe'[s] = <<>>
    BY <1>3 DEF killShells
  <2>2. Work("app")' = 0 /\ Work("orphan")' = 0
    BY <1>1, <2>1 DEF Work, Shells
  <2>. QED
    BY <1>3, <2>2 DEF killShells
<1>. QED
  BY <1>2, <1>3
=============================================================================
