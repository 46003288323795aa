--------------------------- MODULE SchedulerProofs ---------------------------
(* The theorems about Scheduler, for every value of its constants. *)
EXTENDS Scheduler, IMAPCollectorProofs

LEMMA TypeOfType ==
    ASSUME NEW n
    PROVE  TypeOf(n) \in IfaceType \cup {NoType}
  BY DEF TypeOf, IfaceType

LEMMA PsmnStartType ==
    ASSUME ServiceTypeOK, startPsmn
    PROVE  psmnQueue' \in Seq({"create", "destroy"}) /\ psmnUp' \in BOOLEAN
  BY DEF ServiceTypeOK, startPsmn

LEMMA PsmnStopType ==
    ASSUME ServiceTypeOK, stopPsmn
    PROVE  psmnQueue' \in Seq({"create", "destroy"}) /\ psmnUp' \in BOOLEAN
  BY DEF ServiceTypeOK, stopPsmn

\* What is lost with the memory starts again from its initial value.
LEMMA MemoryLostType ==
    ASSUME TypeOK, memoryLost
    PROVE  /\ ThreadTypeOK' /\ LockTypeOK'
           /\ psmnUp' \in BOOLEAN /\ psmnQueue' \in Seq({"create", "destroy"})
<1>1. ThreadTypeOK'
  <2>1. pc' \in PCs /\ cur' = NoType /\ lastType' = -1 /\ listed' = {}
    BY DEF memoryLost, PCs
  <2>2. tick' \in 0..(UploadEvery - 1) /\ kills' \in Nat
    BY EveryAssumption DEF memoryLost, TypeOK, ThreadTypeOK
  <2>3. net' \in Networks /\ recent' \in BOOLEAN
    BY DEF memoryLost, TypeOK, ThreadTypeOK
  <2>. QED
    BY <2>1, <2>2, <2>3 DEF ThreadTypeOK
<1>2. LockTypeOK'
  BY DEF LockTypeOK, memoryLost
<1>3. psmnUp' = FALSE /\ psmnQueue' = <<>>
  BY DEF memoryLost
<1>4. <<>> \in Seq({"create", "destroy"})
  OBVIOUS
<1>. QED
  BY <1>1, <1>2, <1>3, <1>4

\* A step of any actor keeps every variable in its type.
LEMMA TypeStep == TypeOK /\ HoldsAccounted /\ [Next]_vars => TypeOK'
<1>. SUFFICES ASSUME TypeOK, HoldsAccounted, [Next]_vars PROVE TypeOK'
  OBVIOUS
<1>. USE EveryAssumption
     DEF TypeOK, ThreadTypeOK, FlagTypeOK, LockTypeOK, ServiceTypeOK, PCs, StopPCs, UploadPCs, Goto, imapVars,
         ifaceVars, flagVars, probeVars, lockVars, psmnVars, threadVars,
         besidesShells
<1>1. CASE LoopHead
  <2>1. IMAPTypeOK'
    BY <1>1, IMAPUnchangedType DEF LoopHead
  <2>2. ThreadTypeOK'
    BY <1>1 DEF LoopHead
  <2>3. FlagTypeOK'
    BY <1>1 DEF LoopHead
  <2>4. LockTypeOK' /\ ServiceTypeOK'
    BY <1>1 DEF LoopHead
  <2>. QED
    BY <2>1, <2>2, <2>3, <2>4
<1>2. CASE Detect
  <2>1. IMAPTypeOK'
    BY <1>2, IMAPUnchangedType, StopType DEF Detect
  <2>2. ThreadTypeOK'
    BY <1>2, TypeOfType DEF Detect
  <2>3. FlagTypeOK'
    BY <1>2 DEF Detect
  <2>4. LockTypeOK' /\ ServiceTypeOK'
    BY <1>2 DEF Detect
  <2>. QED
    BY <2>1, <2>2, <2>3, <2>4
<1>3. CASE DetectSame
  <2>1. IMAPTypeOK'
    BY <1>3, RunningType DEF DetectSame
  <2>2. ThreadTypeOK'
    BY <1>3 DEF DetectSame
  <2>3. FlagTypeOK'
    BY <1>3 DEF DetectSame
  <2>4. LockTypeOK' /\ ServiceTypeOK'
    BY <1>3 DEF DetectSame
  <2>. QED
    BY <2>1, <2>2, <2>3, <2>4
<1>46. CASE DetectStart
  <2>1. IMAPTypeOK'
    BY <1>46, StartType DEF DetectStart
  <2>2. ThreadTypeOK'
    BY <1>46 DEF DetectStart
  <2>3. FlagTypeOK'
    BY <1>46 DEF DetectStart
  <2>4. LockTypeOK' /\ ServiceTypeOK'
    BY <1>46 DEF DetectStart
  <2>. QED
    BY <2>1, <2>2, <2>3, <2>4
<1>4. CASE DetectPause
  <2>1. IMAPTypeOK'
    BY <1>4, IMAPUnchangedType DEF DetectPause
  <2>2. ThreadTypeOK'
    BY <1>4 DEF DetectPause
  <2>3. FlagTypeOK'
    BY <1>4 DEF DetectPause
  <2>4. LockTypeOK' /\ ServiceTypeOK'
    BY <1>4 DEF DetectPause
  <2>. QED
    BY <2>1, <2>2, <2>3, <2>4
<1>5. CASE StopReturns
  <2>1. IMAPTypeOK'
    BY <1>5, StopType DEF StopReturns
  <2>2. ThreadTypeOK'
    BY <1>5 DEF StopReturns
  <2>3. FlagTypeOK'
    BY <1>5 DEF StopReturns
  <2>4. LockTypeOK' /\ ServiceTypeOK'
    BY <1>5 DEF StopReturns
  <2>. QED
    BY <2>1, <2>2, <2>3, <2>4
<1>6. CASE SwitchStart
  <2>1. IMAPTypeOK'
    BY <1>6, StartType DEF SwitchStart
  <2>2. ThreadTypeOK'
    BY <1>6 DEF SwitchStart
  <2>3. FlagTypeOK'
    BY <1>6 DEF SwitchStart
  <2>4. LockTypeOK' /\ ServiceTypeOK'
    BY <1>6 DEF SwitchStart
  <2>. QED
    BY <2>1, <2>2, <2>3, <2>4
<1>7. CASE StorageCheck
  <2>1. IMAPTypeOK'
    BY <1>7, IMAPUnchangedType, StopType, RunningType DEF StorageCheck
  <2>2. ThreadTypeOK'
    BY <1>7 DEF StorageCheck
  <2>3. FlagTypeOK'
    BY <1>7 DEF StorageCheck
  <2>4. LockTypeOK' /\ ServiceTypeOK'
    BY <1>7 DEF StorageCheck
  <2>. QED
    BY <2>1, <2>2, <2>3, <2>4
<1>47. CASE StorageStart
  <2>1. IMAPTypeOK'
    BY <1>47, StartType, TypeOfType DEF StorageStart
  <2>2. ThreadTypeOK'
    BY <1>47 DEF StorageStart
  <2>3. FlagTypeOK'
    BY <1>47 DEF StorageStart
  <2>4. LockTypeOK' /\ ServiceTypeOK'
    BY <1>47 DEF StorageStart
  <2>. QED
    BY <2>1, <2>2, <2>3, <2>4
<1>8. CASE StorageStopOthers
  <2>1. IMAPTypeOK'
    BY <1>8, IMAPUnchangedType DEF StorageStopOthers
  <2>2. ThreadTypeOK'
    BY <1>8, PsmnStopType DEF StorageStopOthers
  <2>3. FlagTypeOK'
    BY <1>8, PsmnStopType DEF StorageStopOthers
  <2>4. LockTypeOK' /\ ServiceTypeOK'
    BY <1>8, PsmnStopType DEF StorageStopOthers
  <2>. QED
    BY <2>1, <2>2, <2>3, <2>4
<1>9. CASE StorageOthers
  <2>1. IMAPTypeOK'
    BY <1>9, IMAPUnchangedType DEF StorageOthers
  <2>2. ThreadTypeOK'
    BY <1>9, PsmnStartType DEF StorageOthers
  <2>3. FlagTypeOK'
    BY <1>9, PsmnStartType DEF StorageOthers
  <2>4. LockTypeOK' /\ ServiceTypeOK'
    BY <1>9, PsmnStartType DEF StorageOthers
  <2>. QED
    BY <2>1, <2>2, <2>3, <2>4
<1>10. CASE StartPassiveMonitoring
  <2>1. IMAPTypeOK'
    BY <1>10, IMAPUnchangedType DEF StartPassiveMonitoring
  <2>2. ThreadTypeOK'
    BY <1>10, PsmnStartType DEF StartPassiveMonitoring
  <2>3. FlagTypeOK'
    BY <1>10, PsmnStartType DEF StartPassiveMonitoring
  <2>4. LockTypeOK' /\ ServiceTypeOK'
    BY <1>10, PsmnStartType DEF StartPassiveMonitoring
  <2>. QED
    BY <2>1, <2>2, <2>3, <2>4
<1>11. CASE UploadCheck
  <2>1. IMAPTypeOK'
    BY <1>11, IMAPUnchangedType DEF UploadCheck
  <2>2. ThreadTypeOK'
    BY <1>11 DEF UploadCheck
  <2>3. FlagTypeOK'
    BY <1>11 DEF UploadCheck
  <2>4. LockTypeOK' /\ ServiceTypeOK'
    BY <1>11 DEF UploadCheck
  <2>. QED
    BY <2>1, <2>2, <2>3, <2>4
<1>12. CASE Sleep
  <2>1. IMAPTypeOK'
    BY <1>12, IMAPUnchangedType DEF Sleep
  <2>2. ThreadTypeOK'
    BY <1>12 DEF Sleep
  <2>3. FlagTypeOK'
    BY <1>12 DEF Sleep
  <2>4. LockTypeOK' /\ ServiceTypeOK'
    BY <1>12 DEF Sleep
  <2>. QED
    BY <2>1, <2>2, <2>3, <2>4
<1>13. CASE Config
  <2>1. IMAPTypeOK'
    BY <1>13, IMAPUnchangedType, LostShellType DEF Config, processDies
  <2>2. ThreadTypeOK'
    BY <1>13, MemoryLostType DEF Config, processDies
  <2>3. FlagTypeOK'
    BY <1>13 DEF Config, processDies, memoryLost
  <2>4. LockTypeOK' /\ ServiceTypeOK'
    BY <1>13, MemoryLostType DEF Config, processDies
  <2>. QED
    BY <2>1, <2>2, <2>3, <2>4
<1>14. CASE Decide
  <2>1. IMAPTypeOK'
    BY <1>14, IMAPUnchangedType, StopType DEF Decide
  <2>2. ThreadTypeOK'
    BY <1>14 DEF Decide, acquireCPU
  <2>3. FlagTypeOK'
    BY <1>14 DEF Decide, acquireCPU
  <2>4. LockTypeOK' /\ ServiceTypeOK'
    BY <1>14 DEF Decide, acquireCPU
  <2>. QED
    BY <2>1, <2>2, <2>3, <2>4
<1>15. CASE UploadStopOthers
  <2>1. IMAPTypeOK'
    BY <1>15, IMAPUnchangedType DEF UploadStopOthers
  <2>2. ThreadTypeOK'
    BY <1>15, PsmnStopType DEF UploadStopOthers
  <2>3. FlagTypeOK'
    BY <1>15, PsmnStopType DEF UploadStopOthers
  <2>4. LockTypeOK' /\ ServiceTypeOK'
    BY <1>15, PsmnStopType DEF UploadStopOthers
  <2>. QED
    BY <2>1, <2>2, <2>3, <2>4
<1>16. CASE UploadSetFlag
  <2>1. IMAPTypeOK'
    BY <1>16, IMAPUnchangedType DEF UploadSetFlag
  <2>2. ThreadTypeOK'
    BY <1>16 DEF UploadSetFlag
  <2>3. FlagTypeOK'
    BY <1>16 DEF UploadSetFlag
  <2>4. LockTypeOK' /\ ServiceTypeOK'
    BY <1>16 DEF UploadSetFlag
  <2>. QED
    BY <2>1, <2>2, <2>3, <2>4
<1>17. CASE UploadListIMAP
  <2>1. IMAPTypeOK'
    BY <1>17, IMAPUnchangedType DEF UploadListIMAP
  <2>2. ThreadTypeOK'
    BY <1>17 DEF UploadListIMAP
  <2>3. FlagTypeOK'
    BY <1>17 DEF UploadListIMAP
  <2>4. LockTypeOK' /\ ServiceTypeOK'
    BY <1>17 DEF UploadListIMAP
  <2>. QED
    BY <2>1, <2>2, <2>3, <2>4
<1>18. CASE UploadRestartIMAP
  <2>1. IMAPTypeOK'
    BY <1>18, StartType, TypeOfType DEF UploadRestartIMAP
  <2>2. ThreadTypeOK'
    BY <1>18 DEF UploadRestartIMAP
  <2>3. FlagTypeOK'
    BY <1>18 DEF UploadRestartIMAP
  <2>4. LockTypeOK' /\ ServiceTypeOK'
    BY <1>18 DEF UploadRestartIMAP
  <2>. QED
    BY <2>1, <2>2, <2>3, <2>4
<1>19. CASE UploadRestartPsmn
  <2>1. IMAPTypeOK'
    BY <1>19, IMAPUnchangedType DEF UploadRestartPsmn
  <2>2. ThreadTypeOK'
    BY <1>19, PsmnStartType DEF UploadRestartPsmn
  <2>3. FlagTypeOK'
    BY <1>19, PsmnStartType DEF UploadRestartPsmn
  <2>4. LockTypeOK' /\ ServiceTypeOK'
    BY <1>19, PsmnStartType DEF UploadRestartPsmn
  <2>. QED
    BY <2>1, <2>2, <2>3, <2>4
<1>20. CASE UploadNothing
  <2>1. IMAPTypeOK'
    BY <1>20, IMAPUnchangedType DEF UploadNothing
  <2>2. ThreadTypeOK'
    BY <1>20 DEF UploadNothing
  <2>3. FlagTypeOK'
    BY <1>20 DEF UploadNothing
  <2>4. LockTypeOK' /\ ServiceTypeOK'
    BY <1>20 DEF UploadNothing
  <2>. QED
    BY <2>1, <2>2, <2>3, <2>4
<1>21. CASE UploadGoesOn
  <2>1. IMAPTypeOK'
    BY <1>21, IMAPUnchangedType DEF UploadGoesOn
  <2>2. ThreadTypeOK'
    BY <1>21 DEF UploadGoesOn
  <2>3. FlagTypeOK'
    BY <1>21 DEF UploadGoesOn
  <2>4. LockTypeOK' /\ ServiceTypeOK'
    BY <1>21 DEF UploadGoesOn
  <2>. QED
    BY <2>1, <2>2, <2>3, <2>4
<1>22. CASE UploadLowBattery
  <2>1. IMAPTypeOK'
    BY <1>22, IMAPUnchangedType DEF UploadLowBattery
  <2>2. ThreadTypeOK'
    BY <1>22 DEF UploadLowBattery
  <2>3. FlagTypeOK'
    BY <1>22 DEF UploadLowBattery
  <2>4. LockTypeOK' /\ ServiceTypeOK'
    BY <1>22 DEF UploadLowBattery
  <2>. QED
    BY <2>1, <2>2, <2>3, <2>4
<1>23. CASE UploadSend
  <2>1. IMAPTypeOK'
    BY <1>23, IMAPUnchangedType, LostShellType DEF UploadSend, processDies
  <2>2. ThreadTypeOK'
    BY <1>23, MemoryLostType DEF UploadSend, processDies
  <2>3. FlagTypeOK'
    BY <1>23 DEF UploadSend, processDies, memoryLost
  <2>4. LockTypeOK' /\ ServiceTypeOK'
    BY <1>23, MemoryLostType DEF UploadSend, processDies
  <2>. QED
    BY <2>1, <2>2, <2>3, <2>4
<1>24. CASE UploadClearFlag
  <2>1. IMAPTypeOK'
    BY <1>24, IMAPUnchangedType DEF UploadClearFlag
  <2>2. ThreadTypeOK'
    BY <1>24 DEF UploadClearFlag
  <2>3. FlagTypeOK'
    BY <1>24 DEF UploadClearFlag
  <2>4. LockTypeOK' /\ ServiceTypeOK'
    BY <1>24 DEF UploadClearFlag
  <2>. QED
    BY <2>1, <2>2, <2>3, <2>4
<1>25. CASE UploadRestartTracing
  <2>1. IMAPTypeOK'
    BY <1>25, IMAPUnchangedType DEF UploadRestartTracing
  <2>2. ThreadTypeOK'
    BY <1>25 DEF UploadRestartTracing
  <2>3. FlagTypeOK'
    BY <1>25 DEF UploadRestartTracing
  <2>4. LockTypeOK' /\ ServiceTypeOK'
    BY <1>25 DEF UploadRestartTracing
  <2>. QED
    BY <2>1, <2>2, <2>3, <2>4
<1>26. CASE UploadRelease
  <2>1. IMAPTypeOK'
    BY <1>26, IMAPUnchangedType DEF UploadRelease
  <2>2. ThreadTypeOK'
    BY <1>26 DEF UploadRelease, releaseCPU
  <2>3. FlagTypeOK'
    BY <1>26 DEF UploadRelease, releaseCPU
  <2>4. LockTypeOK' /\ ServiceTypeOK'
    BY <1>26 DEF UploadRelease, releaseCPU
  <2>. QED
    BY <2>1, <2>2, <2>3, <2>4
<1>27. CASE ScreenOff
  <2>1. IMAPTypeOK'
    BY <1>27, IMAPUnchangedType DEF ScreenOff
  <2>2. ThreadTypeOK'
    BY <1>27 DEF ScreenOff
  <2>3. FlagTypeOK'
    BY <1>27 DEF ScreenOff
  <2>4. LockTypeOK' /\ ServiceTypeOK'
    BY <1>27 DEF ScreenOff
  <2>. QED
    BY <2>1, <2>2, <2>3, <2>4
<1>28. CASE ScreenOn
  <2>1. IMAPTypeOK'
    BY <1>28, IMAPUnchangedType DEF ScreenOn
  <2>2. ThreadTypeOK'
    BY <1>28 DEF ScreenOn
  <2>3. FlagTypeOK'
    BY <1>28 DEF ScreenOn
  <2>4. LockTypeOK' /\ ServiceTypeOK'
    BY <1>28 DEF ScreenOn
  <2>. QED
    BY <2>1, <2>2, <2>3, <2>4
<1>29. CASE TimedAcquire
  <2>1. IMAPTypeOK'
    BY <1>29, IMAPUnchangedType DEF TimedAcquire
  <2>2. ThreadTypeOK'
    BY <1>29 DEF TimedAcquire, acquireCPU
  <2>3. FlagTypeOK'
    BY <1>29 DEF TimedAcquire, acquireCPU
  <2>4. LockTypeOK' /\ ServiceTypeOK'
    BY <1>29 DEF TimedAcquire, acquireCPU
  <2>. QED
    BY <2>1, <2>2, <2>3, <2>4
<1>30. CASE PsmnCallback
  <2>1. IMAPTypeOK'
    BY <1>30, IMAPUnchangedType DEF PsmnCallback
  <2>2. ThreadTypeOK'
    BY <1>30 DEF PsmnCallback
  <2>3. FlagTypeOK'
    BY <1>30 DEF PsmnCallback
  <2>4. LockTypeOK' /\ ServiceTypeOK'
    BY <1>30 DEF PsmnCallback
  <2>. QED
    BY <2>1, <2>2, <2>3, <2>4
<1>31. CASE ProbeCheck
  <2>1. IMAPTypeOK'
    BY <1>31, IMAPUnchangedType DEF ProbeCheck
  <2>2. ThreadTypeOK'
    BY <1>31 DEF ProbeCheck
  <2>3. FlagTypeOK'
    BY <1>31 DEF ProbeCheck
  <2>4. LockTypeOK' /\ ServiceTypeOK'
    BY <1>31 DEF ProbeCheck
  <2>. QED
    BY <2>1, <2>2, <2>3, <2>4
<1>32. CASE ProbeDeclined
  <2>1. IMAPTypeOK'
    BY <1>32, IMAPUnchangedType DEF ProbeDeclined
  <2>2. ThreadTypeOK'
    BY <1>32 DEF ProbeDeclined
  <2>3. FlagTypeOK'
    BY <1>32 DEF ProbeDeclined
  <2>4. LockTypeOK' /\ ServiceTypeOK'
    BY <1>32 DEF ProbeDeclined
  <2>. QED
    BY <2>1, <2>2, <2>3, <2>4
<1>33. ASSUME NEW t \in Tests, ProbeStart(t) PROVE TypeOK'
  <2>1. IMAPTypeOK'
    BY <1>33, IMAPUnchangedType DEF ProbeStart
  <2>2. ThreadTypeOK'
    BY <1>33 DEF ProbeStart
  <2>3. FlagTypeOK'
    BY <1>33 DEF ProbeStart
  <2>4. LockTypeOK' /\ ServiceTypeOK'
    BY <1>33 DEF ProbeStart
  <2>. QED
    BY <2>1, <2>2, <2>3, <2>4
<1>34. ASSUME NEW t \in Tests, TestBegins(t) PROVE TypeOK'
  <2>1. IMAPTypeOK'
    BY <1>34, IMAPUnchangedType DEF TestBegins
  <2>2. ThreadTypeOK'
    BY <1>34 DEF TestBegins
  <2>3. FlagTypeOK'
    BY <1>34 DEF TestBegins
  <2>4. LockTypeOK' /\ ServiceTypeOK'
    BY <1>34 DEF TestBegins
  <2>. QED
    BY <2>1, <2>2, <2>3, <2>4
<1>35. ASSUME NEW t \in Tests, TestEnds(t) PROVE TypeOK'
  <2>1. IMAPTypeOK'
    BY <1>35, IMAPUnchangedType DEF TestEnds
  <2>2. ThreadTypeOK'
    BY <1>35 DEF TestEnds
  <2>3. FlagTypeOK'
    BY <1>35 DEF TestEnds
  <2>4. LockTypeOK' /\ ServiceTypeOK'
    BY <1>35 DEF TestEnds
  <2>. QED
    BY <2>1, <2>2, <2>3, <2>4
<1>36. CASE TimerReleases
  <2>1. IMAPTypeOK'
    BY <1>36, IMAPUnchangedType DEF TimerReleases, HoldsAccounted
  <2>2. ThreadTypeOK'
    BY <1>36 DEF TimerReleases, HoldsAccounted
  <2>3. FlagTypeOK'
    BY <1>36 DEF TimerReleases, HoldsAccounted
  <2>4. LockTypeOK' /\ ServiceTypeOK'
    BY <1>36 DEF TimerReleases, HoldsAccounted
  <2>. QED
    BY <2>1, <2>2, <2>3, <2>4
<1>37. CASE ShellReads
  <2>1. IMAPTypeOK'
    BY <1>37, ShellReadsType DEF ShellReads
  <2>2. ThreadTypeOK'
    BY <1>37 DEF ShellReads
  <2>3. FlagTypeOK'
    BY <1>37 DEF ShellReads
  <2>4. LockTypeOK' /\ ServiceTypeOK'
    BY <1>37 DEF ShellReads
  <2>. QED
    BY <2>1, <2>2, <2>3, <2>4
<1>38. CASE ShellCaptureEnds
  <2>1. IMAPTypeOK'
    BY <1>38, CaptureEndsType DEF ShellCaptureEnds
  <2>2. ThreadTypeOK'
    BY <1>38 DEF ShellCaptureEnds
  <2>3. FlagTypeOK'
    BY <1>38 DEF ShellCaptureEnds
  <2>4. LockTypeOK' /\ ServiceTypeOK'
    BY <1>38 DEF ShellCaptureEnds
  <2>. QED
    BY <2>1, <2>2, <2>3, <2>4
<1>39. CASE ShellPoll
  <2>1. IMAPTypeOK'
    BY <1>39, PollPeriodType DEF ShellPoll
  <2>2. ThreadTypeOK'
    BY <1>39 DEF ShellPoll
  <2>3. FlagTypeOK'
    BY <1>39 DEF ShellPoll
  <2>4. LockTypeOK' /\ ServiceTypeOK'
    BY <1>39 DEF ShellPoll
  <2>. QED
    BY <2>1, <2>2, <2>3, <2>4
<1>40. CASE NetworkChanges
  <2>1. IMAPTypeOK'
    BY <1>40, IMAPUnchangedType DEF NetworkChanges
  <2>2. ThreadTypeOK'
    BY <1>40 DEF NetworkChanges
  <2>3. FlagTypeOK'
    BY <1>40 DEF NetworkChanges
  <2>4. LockTypeOK' /\ ServiceTypeOK'
    BY <1>40 DEF NetworkChanges
  <2>. QED
    BY <2>1, <2>2, <2>3, <2>4
<1>41. CASE IntervalPasses
  <2>1. IMAPTypeOK'
    BY <1>41, IMAPUnchangedType DEF IntervalPasses
  <2>2. ThreadTypeOK'
    BY <1>41 DEF IntervalPasses
  <2>3. FlagTypeOK'
    BY <1>41 DEF IntervalPasses
  <2>4. LockTypeOK' /\ ServiceTypeOK'
    BY <1>41 DEF IntervalPasses
  <2>. QED
    BY <2>1, <2>2, <2>3, <2>4
<1>42. CASE Killed
  <2>1. IMAPTypeOK'
    BY <1>42, LostShellType DEF Killed, processDies
  <2>2. ThreadTypeOK'
    BY <1>42, MemoryLostType DEF Killed, processDies
  <2>3. FlagTypeOK'
    BY <1>42 DEF Killed, processDies, memoryLost
  <2>4. LockTypeOK' /\ ServiceTypeOK'
    BY <1>42, MemoryLostType DEF Killed, processDies
  <2>. QED
    BY <2>1, <2>2, <2>3, <2>4
<1>43. CASE Reboots
  <2>1. IMAPTypeOK'
    BY <1>43, LostShellType DEF Reboots
  <2>2. ThreadTypeOK'
    BY <1>43, MemoryLostType DEF Reboots
  <2>3. FlagTypeOK'
    BY <1>43 DEF Reboots, memoryLost
  <2>4. LockTypeOK' /\ ServiceTypeOK'
    BY <1>43, MemoryLostType DEF Reboots
  <2>. QED
    BY <2>1, <2>2, <2>3, <2>4
<1>44. CASE Restart
  <2>1. IMAPTypeOK'
    BY <1>44, IMAPUnchangedType DEF Restart
  <2>2. ThreadTypeOK'
    BY <1>44 DEF Restart
  <2>3. FlagTypeOK'
    BY <1>44 DEF Restart
  <2>4. LockTypeOK' /\ ServiceTypeOK'
    BY <1>44 DEF Restart
  <2>. QED
    BY <2>1, <2>2, <2>3, <2>4
<1>45. CASE UNCHANGED vars
  BY <1>45, IMAPUnchangedType DEF vars
<1>. QED
  BY <1>1, <1>2, <1>3, <1>4, <1>5, <1>6, <1>7, <1>8, <1>9, <1>10, <1>11,
     <1>12, <1>13, <1>14, <1>15, <1>16, <1>17, <1>18, <1>19, <1>20, <1>21,
     <1>22, <1>23, <1>24, <1>25, <1>26, <1>27, <1>28, <1>29, <1>30, <1>31,
     <1>32, <1>33, <1>34, <1>35, <1>36, <1>37, <1>38, <1>39, <1>40, <1>41,
     <1>42, <1>43, <1>44, <1>45, <1>46, <1>47
  DEF Next, ThreadStep, MainStep, TestStep

-----------------------------------------------------------------------------
(* The wake lock. *)

\* A step that leaves the lock alone, and the thread in or out of upload().
LEMMA LockUnchanged ==
    ASSUME HoldsAccounted, UNCHANGED lockVars,
           pc' \in UploadPCs <=> pc \in UploadPCs
    PROVE  HoldsAccounted'
  BY DEF HoldsAccounted, lockVars

LEMMA LockLost ==
    ASSUME memoryLost
    PROVE  HoldsAccounted'
  BY DEF HoldsAccounted, memoryLost, UploadPCs

\* A step of any actor keeps the references to the lock accounted for.
LEMMA HoldsStep == TypeOK /\ HoldsAccounted /\ [Next]_vars => HoldsAccounted'
<1>. SUFFICES ASSUME TypeOK, HoldsAccounted, [Next]_vars PROVE HoldsAccounted'
  OBVIOUS
<1>0. count \in Nat /\ timers \in Nat /\ lowReturns \in Nat
  BY DEF TypeOK, LockTypeOK
<1>1. CASE LoopHead \/ Detect \/ DetectSame \/ DetectStart \/ DetectPause
           \/ StopReturns \/ SwitchStart \/ StorageCheck \/ StorageStart
           \/ StorageStopOthers \/ StorageOthers
  <2>1. UNCHANGED lockVars
    BY <1>1 DEF LoopHead, Detect, DetectSame, DetectStart, DetectPause, StopReturns,
       SwitchStart, StorageCheck, StorageStart, StorageStopOthers, StorageOthers
  <2>2. pc' \in UploadPCs <=> pc \in UploadPCs
    BY <1>1 DEF LoopHead, Detect, DetectSame, DetectStart, DetectPause, StopReturns,
       SwitchStart, StorageCheck, StorageStart, StorageStopOthers, StorageOthers,
       Goto, UploadPCs, StopPCs
  <2>. QED
    BY <2>1, <2>2, LockUnchanged
<1>2. CASE StartPassiveMonitoring \/ UploadCheck \/ Sleep \/ Restart
  <2>1. UNCHANGED lockVars
    BY <1>2 DEF StartPassiveMonitoring, UploadCheck, Sleep, Restart
  <2>2. pc' \in UploadPCs <=> pc \in UploadPCs
    BY <1>2 DEF StartPassiveMonitoring, UploadCheck, Sleep, Restart, Goto, UploadPCs
  <2>. QED
    BY <2>1, <2>2, LockUnchanged
<1>3. CASE UploadStopOthers \/ UploadSetFlag \/ UploadListIMAP
           \/ UploadRestartIMAP \/ UploadRestartPsmn \/ UploadNothing
           \/ UploadGoesOn \/ UploadClearFlag \/ UploadRestartTracing
  <2>1. UNCHANGED lockVars
    BY <1>3 DEF UploadStopOthers, UploadSetFlag, UploadListIMAP,
       UploadRestartIMAP, UploadRestartPsmn, UploadNothing, UploadGoesOn,
       UploadClearFlag, UploadRestartTracing
  <2>2. pc' \in UploadPCs <=> pc \in UploadPCs
    BY <1>3 DEF UploadStopOthers, UploadSetFlag, UploadListIMAP,
       UploadRestartIMAP, UploadRestartPsmn, UploadNothing, UploadGoesOn,
       UploadClearFlag, UploadRestartTracing, Goto, UploadPCs
  <2>. QED
    BY <2>1, <2>2, LockUnchanged
<1>4. CASE Config
  BY <1>4, LockUnchanged, LockLost DEF Config, processDies, Goto, UploadPCs
<1>5. CASE UploadSend
  BY <1>5, LockUnchanged, LockLost DEF UploadSend, processDies, Goto, UploadPCs
<1>6. CASE Killed \/ Reboots
  BY <1>6, LockLost DEF Killed, processDies, Reboots
<1>7. CASE Decide
  <2>1. CASE pc' = "upStop" /\ acquireCPU
    BY <1>0, <1>7, <2>1 DEF Decide, HoldsAccounted, acquireCPU, UploadPCs
  <2>2. CASE pc' = "sleep" /\ UNCHANGED count
    BY <1>0, <1>7, <2>2 DEF Decide, HoldsAccounted, UploadPCs
  <2>. QED
    BY <1>7, <2>1, <2>2 DEF Decide
<1>8. CASE UploadLowBattery
  BY <1>0, <1>8 DEF UploadLowBattery, Goto, HoldsAccounted, UploadPCs
<1>9. CASE UploadRelease
  BY <1>0, <1>9 DEF UploadRelease, releaseCPU, Goto, HoldsAccounted, UploadPCs
<1>10. CASE TimedAcquire
  BY <1>0, <1>10 DEF TimedAcquire, acquireCPU, threadVars, HoldsAccounted
<1>11. CASE TimerReleases
  BY <1>0, <1>11 DEF TimerReleases, threadVars, HoldsAccounted, UploadPCs
<1>12. CASE ScreenOff \/ ScreenOn \/ PsmnCallback \/ ProbeCheck \/ ProbeDeclined
            \/ (\E t \in Tests : ProbeStart(t)) \/ TestStep
            \/ NetworkChanges \/ IntervalPasses
  <2>1. UNCHANGED lockVars /\ UNCHANGED pc
    BY <1>12 DEF ScreenOff, ScreenOn, PsmnCallback, ProbeCheck, ProbeDeclined,
       ProbeStart, TestStep, TestBegins, TestEnds, NetworkChanges,
       IntervalPasses, threadVars
  <2>. QED
    BY <2>1, LockUnchanged
<1>13. CASE ShellReads \/ ShellCaptureEnds \/ ShellPoll
  BY <1>13, LockUnchanged
  DEF ShellReads, ShellCaptureEnds, ShellPoll, besidesShells
<1>14. CASE UNCHANGED vars
  BY <1>14, LockUnchanged DEF vars
<1>. QED
  BY <1>1, <1>2, <1>3, <1>4, <1>5, <1>6, <1>7, <1>8, <1>9, <1>10, <1>11,
     <1>12, <1>13, <1>14
  DEF Next, ThreadStep, MainStep

LEMMA InitType == Init => TypeOK /\ HoldsAccounted
<1>. SUFFICES ASSUME Init PROVE TypeOK /\ HoldsAccounted
  OBVIOUS
<1>1. IMAPTypeOK
  BY InitIMAPType DEF Init
<1>2. ThreadTypeOK
  <2>1. pc \in PCs /\ net \in Networks /\ cur = NoType /\ lastType = -1
    BY DEF Init, PCs
  <2>2. tick \in 0..(UploadEvery - 1)
    BY EveryAssumption DEF Init
  <2>3. listed \in SUBSET Shells /\ recent \in BOOLEAN /\ kills \in Nat
    BY DEF Init
  <2>. QED
    BY <2>1, <2>2, <2>3 DEF ThreadTypeOK
<1>3. FlagTypeOK /\ LockTypeOK
  BY DEF Init, FlagTypeOK, LockTypeOK
<1>4. <<>> \in Seq({"create", "destroy"})
  OBVIOUS
<1>5. ServiceTypeOK
  BY <1>4 DEF Init, ServiceTypeOK
<1>6. HoldsAccounted
  BY DEF Init, HoldsAccounted, UploadPCs
<1>. QED
  BY <1>1, <1>2, <1>3, <1>5, <1>6 DEF TypeOK

\* Every variable keeps its type, whatever the sizes and the bounds are.
THEOREM TypeCorrect == Spec => []TypeOK
<1>1. TypeOK /\ HoldsAccounted /\ [Next]_vars => (TypeOK /\ HoldsAccounted)'
  BY TypeStep, HoldsStep
<1>. QED
  BY InitType, <1>1, PTL DEF Spec

\* Each reference to the wake lock belongs to the upload in progress, to a
\* timeout that will fire or to a low battery return, with any number of
\* timed acquisitions, low battery returns and deaths of the process.
THEOREM HoldsCorrect == Spec => []HoldsAccounted
<1>1. TypeOK /\ HoldsAccounted /\ [Next]_vars => (TypeOK /\ HoldsAccounted)'
  BY TypeStep, HoldsStep
<1>. QED
  BY InitType, <1>1, PTL DEF Spec

\* From acquireCPU to releaseCPU of upload() the CPU cannot sleep.
THEOREM WakeLockCorrect == Spec => []WakeLockCoversUpload
<1>1. TypeOK /\ HoldsAccounted => WakeLockCoversUpload
  BY DEF TypeOK, LockTypeOK, HoldsAccounted, WakeLockCoversUpload
<1>. QED
  BY TypeCorrect, HoldsCorrect, <1>1, PTL

-----------------------------------------------------------------------------
(* The flag files. *)

\* StaleUploadFlagFromLowBattery needs to know that upload() has deleted the
\* file before it returns.
FlagInv ==
    /\ StaleUploadFlagFromLowBattery
    /\ pc \in {"upLog", "upRelease"} => ~uploading

LEMMA FlagUnchanged ==
    ASSUME FlagInv, UNCHANGED <<uploading, lowReturns>>, UNCHANGED pc
    PROVE  FlagInv'
  BY DEF FlagInv, StaleUploadFlagFromLowBattery

LEMMA FlagLost ==
    ASSUME memoryLost
    PROVE  FlagInv'
  BY DEF FlagInv, StaleUploadFlagFromLowBattery, memoryLost

\* A step of any actor leaves a flag file behind at the low battery return only.
LEMMA FlagStep == TypeOK /\ FlagInv /\ [Next]_vars => FlagInv'
<1>. SUFFICES ASSUME TypeOK, FlagInv, [Next]_vars PROVE FlagInv'
  OBVIOUS
<1>. USE DEF FlagInv, StaleUploadFlagFromLowBattery, Goto, UploadPCs, StopPCs
<1>1. CASE LoopHead
  BY <1>1 DEF LoopHead, lockVars
<1>2. CASE Detect \/ DetectSame \/ DetectStart \/ DetectPause \/ StopReturns
           \/ SwitchStart
  BY <1>2 DEF Detect, DetectSame, DetectStart, DetectPause, StopReturns,
     SwitchStart, lockVars, flagVars
<1>3. CASE StorageCheck \/ StorageStart \/ StorageStopOthers \/ StorageOthers
           \/ StartPassiveMonitoring \/ UploadCheck \/ Sleep
  BY <1>3 DEF StorageCheck, StorageStart, StorageStopOthers, StorageOthers,
     StartPassiveMonitoring, UploadCheck, Sleep, lockVars, flagVars
<1>4. CASE Config
  BY <1>4, FlagLost DEF Config, processDies, lockVars, flagVars
<1>5. CASE Decide
  BY <1>5 DEF Decide, flagVars
<1>6. CASE UploadStopOthers \/ UploadSetFlag \/ UploadListIMAP
           \/ UploadRestartIMAP \/ UploadRestartPsmn \/ UploadNothing
           \/ UploadGoesOn
  BY <1>6 DEF UploadStopOthers, UploadSetFlag, UploadListIMAP,
     UploadRestartIMAP, UploadRestartPsmn, UploadNothing, UploadGoesOn,
     lockVars, flagVars
<1>7. CASE UploadLowBattery
  BY <1>7 DEF UploadLowBattery, TypeOK, LockTypeOK
<1>8. CASE UploadSend
  BY <1>8, FlagLost DEF UploadSend, processDies, lockVars, flagVars
<1>9. CASE UploadClearFlag \/ UploadRestartTracing \/ UploadRelease
  BY <1>9 DEF UploadClearFlag, UploadRestartTracing, UploadRelease,
     lockVars, flagVars
<1>10. CASE ScreenOff \/ ScreenOn \/ PsmnCallback \/ ProbeCheck \/ ProbeDeclined
            \/ (\E t \in Tests : ProbeStart(t)) \/ TimedAcquire
  <2>1. UNCHANGED <<uploading, lowReturns>> /\ UNCHANGED pc
    BY <1>10 DEF ScreenOff, ScreenOn, PsmnCallback, ProbeCheck, ProbeDeclined,
       ProbeStart, TimedAcquire, threadVars, flagVars, lockVars
  <2>. QED
    BY <2>1, FlagUnchanged
<1>11. CASE TestStep \/ TimerReleases \/ NetworkChanges \/ IntervalPasses
  <2>1. UNCHANGED <<uploading, lowReturns>> /\ UNCHANGED pc
    BY <1>11 DEF TestStep, TestBegins, TestEnds, TimerReleases,
       NetworkChanges, IntervalPasses, threadVars, flagVars, lockVars
  <2>. QED
    BY <2>1, FlagUnchanged
<1>12. CASE ShellReads \/ ShellCaptureEnds \/ ShellPoll
  BY <1>12, FlagUnchanged
  DEF ShellReads, ShellCaptureEnds, ShellPoll, besidesShells, flagVars, lockVars
<1>13. CASE Killed \/ Reboots
  BY <1>13, FlagLost DEF Killed, processDies, Reboots
<1>14. CASE Restart
  BY <1>14 DEF Restart
<1>15. CASE UNCHANGED vars
  BY <1>15, FlagUnchanged DEF vars, flagVars, lockVars
<1>. QED
  BY <1>1, <1>2, <1>3, <1>4, <1>5, <1>6, <1>7, <1>8, <1>9, <1>10, <1>11,
     <1>12, <1>13, <1>14, <1>15
  DEF Next, ThreadStep, MainStep

\* The file isUploading outlives upload() only after a low battery return.
THEOREM UploadFlagCorrect == Spec => []StaleUploadFlagFromLowBattery
<1>1. Init => FlagInv
  BY DEF Init, FlagInv, StaleUploadFlagFromLowBattery
<1>2. FlagInv => StaleUploadFlagFromLowBattery
  BY DEF FlagInv
<1>. QED
  BY <1>1, <1>2, FlagStep, TypeCorrect, PTL DEF Spec

LEMMA ProbeUnchanged ==
    ASSUME ProbeFlagHasOwner, UNCHANGED <<acpb, test>>, pc' # "dead" => pc # "dead"
    PROVE  ProbeFlagHasOwner'
  BY DEF ProbeFlagHasOwner

LEMMA ProbeLost ==
    ASSUME memoryLost
    PROVE  ProbeFlagHasOwner'
  BY DEF ProbeFlagHasOwner, memoryLost

\* A step of any actor leaves no file isActiveProbing without a running test.
LEMMA ProbeStep == TypeOK /\ ProbeFlagHasOwner /\ [Next]_vars => ProbeFlagHasOwner'
<1>. SUFFICES ASSUME TypeOK, ProbeFlagHasOwner, [Next]_vars
              PROVE  ProbeFlagHasOwner'
  OBVIOUS
<1>0. test \in [Tests -> {"none", "started", "running"}]
  BY DEF TypeOK, FlagTypeOK
<1>1. CASE LoopHead
  BY <1>1 DEF LoopHead, Goto, probeVars, ProbeFlagHasOwner
<1>2. CASE Detect \/ DetectSame \/ DetectStart \/ DetectPause \/ StopReturns
           \/ SwitchStart \/ StorageCheck \/ StorageStart \/ StorageStopOthers \/ StorageOthers
           \/ StartPassiveMonitoring \/ UploadCheck \/ Sleep \/ Decide
  <2>1. UNCHANGED <<acpb, test>>
    BY <1>2 DEF Detect, DetectSame, DetectStart, DetectPause, StopReturns,
       SwitchStart, StorageCheck, StorageStart, StorageStopOthers, StorageOthers, StartPassiveMonitoring,
       UploadCheck, Sleep, Decide, probeVars, flagVars
  <2>2. pc # "dead"
    BY <1>2 DEF Detect, DetectSame, DetectStart, DetectPause, StopReturns,
       SwitchStart, StorageCheck, StorageStart, StorageStopOthers, StorageOthers, StartPassiveMonitoring,
       UploadCheck, Sleep, Decide, Goto, StopPCs
  <2>. QED
    BY <2>1, <2>2, ProbeUnchanged
<1>3. CASE UploadStopOthers \/ UploadSetFlag \/ UploadListIMAP
           \/ UploadRestartIMAP \/ UploadRestartPsmn \/ UploadNothing
           \/ UploadGoesOn \/ UploadLowBattery \/ UploadClearFlag
           \/ UploadRestartTracing \/ UploadRelease
  <2>1. UNCHANGED <<acpb, test>>
    BY <1>3 DEF UploadStopOthers, UploadSetFlag, UploadListIMAP,
       UploadRestartIMAP, UploadRestartPsmn, UploadNothing, UploadGoesOn,
       UploadLowBattery, UploadClearFlag, UploadRestartTracing, UploadRelease,
       probeVars, flagVars
  <2>2. pc # "dead"
    BY <1>3 DEF UploadStopOthers, UploadSetFlag, UploadListIMAP,
       UploadRestartIMAP, UploadRestartPsmn, UploadNothing, UploadGoesOn,
       UploadLowBattery, UploadClearFlag, UploadRestartTracing, UploadRelease,
       Goto
  <2>. QED
    BY <2>1, <2>2, ProbeUnchanged
<1>4. CASE Config
  BY <1>4, ProbeUnchanged, ProbeLost
  DEF Config, processDies, Goto, probeVars, flagVars
<1>5. CASE UploadSend
  BY <1>5, ProbeUnchanged, ProbeLost
  DEF UploadSend, processDies, Goto, probeVars, flagVars
<1>6. CASE ScreenOff \/ ScreenOn \/ PsmnCallback \/ ProbeCheck \/ ProbeDeclined
           \/ TimedAcquire \/ TimerReleases \/ NetworkChanges \/ IntervalPasses
  <2>1. UNCHANGED <<acpb, test>> /\ UNCHANGED pc
    BY <1>6 DEF ScreenOff, ScreenOn, PsmnCallback, ProbeCheck, ProbeDeclined,
       TimedAcquire, TimerReleases, NetworkChanges, IntervalPasses,
       threadVars, flagVars, probeVars
  <2>. QED
    BY <2>1, ProbeUnchanged
<1>7. ASSUME NEW t \in Tests, ProbeStart(t) PROVE ProbeFlagHasOwner'
  <2>1. UNCHANGED acpb /\ UNCHANGED pc
    BY <1>7 DEF ProbeStart, threadVars, flagVars
  <2>2. \A u \in Tests : test[u] = "running" => test'[u] = "running"
    BY <1>0, <1>7 DEF ProbeStart
  <2>. QED
    BY <2>1, <2>2 DEF ProbeFlagHasOwner
<1>8. ASSUME NEW t \in Tests, TestBegins(t) PROVE ProbeFlagHasOwner'
  BY <1>0, <1>8 DEF TestBegins, ProbeFlagHasOwner
<1>9. ASSUME NEW t \in Tests, TestEnds(t) PROVE ProbeFlagHasOwner'
  BY <1>9 DEF TestEnds, ProbeFlagHasOwner
<1>10. CASE ShellReads \/ ShellCaptureEnds \/ ShellPoll
  BY <1>10, ProbeUnchanged
  DEF ShellReads, ShellCaptureEnds, ShellPoll, besidesShells, flagVars, probeVars
<1>11. CASE Killed \/ Reboots
  BY <1>11, ProbeLost DEF Killed, processDies, Reboots
<1>12. CASE Restart
  BY <1>12 DEF Restart, ProbeFlagHasOwner
<1>13. CASE UNCHANGED vars
  BY <1>13, ProbeUnchanged DEF vars, flagVars, probeVars
<1>. QED
  BY <1>1, <1>2, <1>3, <1>4, <1>5, <1>6, <1>7, <1>8, <1>9, <1>10, <1>11,
     <1>12, <1>13
  DEF Next, ThreadStep, MainStep, TestStep

\* No number of tests sharing the file isActiveProbing, and no crash, leaves
\* the file there, and uploads blocked, without a test that will delete it.
THEOREM ProbeFlagCorrect == Spec => []ProbeFlagHasOwner
<1>1. Init => ProbeFlagHasOwner
  BY DEF Init, ProbeFlagHasOwner
<1>. QED
  BY <1>1, ProbeStep, TypeCorrect, PTL DEF Spec

-----------------------------------------------------------------------------
(* The captures. *)

\* The places at which BacklogInv knows no more of the shells than the bound.
FreePCs == {"detectPause", "storageStopOthers", "storageOthers", "psmn",
            "uploadCheck", "config", "decide", "sleep", "upPsmn", "upBattery",
            "upSend", "upClear", "upLog", "upRelease"}

\* The places of upload() at which folders are listed.
ListedPCs == {"upStart", "upPsmn", "upBattery", "upSend", "upClear"}

\* The bound on the work of the shells.
Bounded == \A s \in Shells : Work(s) <= 4 + 2 * faults
ListedRight == /\ listed # {} => faults > 0
               /\ pc \notin ListedPCs => listed = {}

\* The parts of BacklogInv.
LEMMA BacklogParts ==
    ASSUME BacklogInv
    PROVE  Bounded /\ ListedRight /\ StartableInv /\ StoppingInv /\ QuietInv
  BY DEF BacklogInv, BoundedBacklog, UploadedFoldersClosed, Bounded, ListedRight,
     ListedPCs, QuietInv

\* A step that changes neither a shell nor the place of the thread.
LEMMA BacklogUnchanged ==
    ASSUME BacklogInv, UNCHANGED imapVars, UNCHANGED <<pc, listed>>
    PROVE  BacklogInv'
  BY DEF BacklogInv, BoundedBacklog, UploadedFoldersClosed, StartableInv,
     StoppingInv, QuietInv, Work, Quiet, IdleShell, imapVars, shellVars, failVars

\* A step of the thread to a place that asks for no more than the bound,
LEMMA BacklogAnywhere ==
    ASSUME Bounded', ListedRight', pc' \in FreePCs
    PROVE  BacklogInv'
  BY DEF BacklogInv, BoundedBacklog, UploadedFoldersClosed, StartableInv,
     StoppingInv, QuietInv, Bounded, ListedRight, ListedPCs, FreePCs, StopPCs

\* to one from which a capture may be started,
LEMMA BacklogStartable ==
    ASSUME Bounded', listed' = {}, Work("app")' <= 3 + 2 * faults',
           pc' \in {"dead", "loop", "detect", "detectSame", "storage"}
    PROVE  BacklogInv'
  BY DEF BacklogInv, BoundedBacklog, UploadedFoldersClosed, StartableInv,
     StoppingInv, QuietInv, Bounded, StopPCs

\* to the start itself,
LEMMA BacklogStarting ==
    ASSUME Bounded', listed' = {}, Work("app")' <= 2 + 2 * faults',
           pc' \in {"detectStart", "storageStart"}
    PROVE  BacklogInv'
  BY DEF BacklogInv, BoundedBacklog, UploadedFoldersClosed, StartableInv,
     StoppingInv, QuietInv, Bounded, StopPCs

\* or in the preparation of an upload.
UploadPreparedPCs == {"upStopOthers", "upFlag", "upList", "upStart"}
LEMMA BacklogPrepared ==
    ASSUME Bounded', ListedRight', Work("app")' <= 2 + 2 * faults',
           Quiet' \/ faults' > 0, pc' \in UploadPreparedPCs
    PROVE  BacklogInv'
  BY DEF BacklogInv, BoundedBacklog, UploadedFoldersClosed, StartableInv,
     StoppingInv, QuietInv, Bounded, ListedRight, ListedPCs, StopPCs,
     UploadPreparedPCs

\* The numbers of BacklogInv.
LEMMA WorkNumbers ==
    ASSUME TypeOK
    PROVE  /\ "app" \in Shells /\ "orphan" \in Shells
           /\ \A s \in Shells : s = "app" \/ s = "orphan"
           /\ \A s \in Shells : Work(s) \in Nat
           /\ faults \in Nat /\ polls \in Nat
<1>1. faults \in Nat /\ polls \in Nat
  BY PollsAssumption DEF TypeOK, IMAPTypeOK
<1>2. \A s \in Shells : Work(s) \in Nat
  BY WorkNat DEF TypeOK
<1>. QED
  BY <1>1, <1>2 DEF Shells

LEMMA WorkNumbersNext ==
    TypeOK' => /\ \A s \in Shells : Work(s)' \in Nat
               /\ faults' \in Nat /\ polls' \in Nat
<1>1. TypeOK => /\ \A s \in Shells : Work(s) \in Nat
                /\ faults \in Nat /\ polls \in Nat
  BY WorkNumbers
<1>2. (TypeOK => /\ \A s \in Shells : Work(s) \in Nat
                 /\ faults \in Nat /\ polls \in Nat)'
  BY <1>1, PTL
<1>. QED
  BY <1>2

LEMMA QuietWorkNext ==
    TypeOK' => (Quiet' <=> \A s \in Shells : Work(s)' = 0)
  BY QuietIsNoWorkNext DEF TypeOK

\* A step that leaves the shells no more work than they had, at a place of the
\* thread.
LEMMA BacklogLess ==
    ASSUME TypeOK, TypeOK', BacklogInv, UNCHANGED <<pc, stopFlag, faults>>,
           listed' \subseteq listed,
           \A s \in Shells : Work(s)' <= Work(s),
           pc \in StopPCs /\ stopFlag
              => \A s \in Shells : Work(s)' <= polls' + 2 * faults
    PROVE  BacklogInv'
<1>1. /\ \A s \in Shells : Work(s) \in Nat /\ Work(s)' \in Nat
      /\ faults \in Nat /\ "app" \in Shells
  BY WorkNumbers, WorkNumbersNext
<1>2. BoundedBacklog'
  BY <1>1, BacklogParts DEF Bounded, BoundedBacklog
<1>3. StartableInv'
  <2>1. Work("app")' <= Work("app") /\ StartableInv
    BY <1>1, BacklogParts
  <2>. QED
    BY <1>1, <2>1 DEF StartableInv
<1>4. StoppingInv'
  <2>1. Work("app")' <= Work("app") /\ StoppingInv
    BY <1>1, BacklogParts
  <2>2. CASE pc \in StopPCs /\ ~stopFlag
    <3>1. /\ faults > 0
          /\ Work("app") <= (IF pc = "upStop" THEN 2 ELSE 1) + 2 * faults
      BY <2>1, <2>2 DEF StoppingInv
    <3>2. Work("app")' <= (IF pc = "upStop" THEN 2 ELSE 1) + 2 * faults
      BY <1>1, <2>1, <3>1
    <3>. QED
      BY <2>2, <3>1, <3>2 DEF StoppingInv
  <2>3. CASE pc \in StopPCs /\ stopFlag
    BY <2>3 DEF StoppingInv
  <2>4. CASE pc \notin StopPCs
    BY <2>4 DEF StoppingInv
  <2>. QED
    BY <2>2, <2>3, <2>4
<1>5. ASSUME Quiet PROVE Quiet'
  <2>1. \A s \in Shells : Work(s) = 0
    BY <1>5, QuietIsNoWork DEF TypeOK
  <2>2. \A s \in Shells : Work(s)' = 0
    BY <1>1, <2>1
  <2>. QED
    BY <2>2, QuietWorkNext
<1>6. QuietInv' /\ UploadedFoldersClosed'
  BY <1>5, BacklogParts DEF QuietInv, UploadedFoldersClosed, ListedRight
<1>. QED
  BY <1>2, <1>3, <1>4, <1>6 DEF BacklogInv

\* The memory is lost, and with it the shell of the app.
LEMMA BacklogLost ==
    ASSUME TypeOK, BacklogInv, memoryLost, abandonShell \/ killShells
    PROVE  BacklogInv'
<1>1. /\ Work("app")' = 0
      /\ \/ Work("orphan")' \in {Work("app"), Work("orphan")} /\ faults' = faults
         \/ Work("orphan")' = 0 /\ faults' = 0
  BY LostShellWork DEF TypeOK
<1>2. /\ Work("app") <= 4 + 2 * faults /\ Work("orphan") <= 4 + 2 * faults
      /\ faults \in Nat
  BY WorkNumbers, BacklogParts DEF Bounded
<1>3. faults' \in Nat /\ Work("orphan")' <= 4 + 2 * faults'
  BY <1>1, <1>2
<1>4. Bounded' /\ Work("app")' <= 3 + 2 * faults'
  BY <1>1, <1>3 DEF Bounded, Shells
<1>5. pc' = "dead" /\ listed' = {}
  BY DEF memoryLost
<1>. QED
  BY <1>4, <1>5, BacklogStartable

\* The polls of a stop are enough for the work the shells have when it begins,
\* unless earlier failures have let in more, or the stop fails itself.
LEMMA StopBegins ==
    ASSUME TypeOK, Bounded, beginStop, listed' = {}, pc' \in StopPCs,
           Work("app") <= (IF pc' = "upStop" THEN 4 ELSE 3) + 2 * faults
    PROVE  BacklogInv'
<1>0. /\ \A s \in Shells : Work(s) \in Nat
      /\ faults \in Nat /\ "app" \in Shells
  BY WorkNumbers
<1>1. /\ UNCHANGED <<run, pipe>> /\ polls' = PollsPerStop
      /\ \/ stopFlag' = TRUE /\ faults' = faults
         \/ stopFlag' = FALSE /\ faults' = faults + 1
  BY StopWork DEF TypeOK
<1>2. \A s \in Shells : Work(s)' = Work(s)
  BY <1>1, UnchangedWork
<1>3. faults' \in Nat /\ faults' >= faults
  BY <1>0, <1>1
<1>4. Bounded'
  BY <1>0, <1>2, <1>3 DEF Bounded
<1>5. StoppingInv'
  <2>1. CASE stopFlag' = TRUE /\ faults' = faults
    <3>1. \A s \in Shells : Work(s)' <= polls' + 2 * faults'
      BY <1>0, <1>1, <1>2, <2>1, PollsAssumption DEF Bounded
    <3>. QED
      BY <2>1, <3>1 DEF StoppingInv
  <2>2. CASE stopFlag' = FALSE /\ faults' = faults + 1
    <3>1. Work("app")' <= (IF pc' = "upStop" THEN 2 ELSE 1) + 2 * faults'
      BY <1>0, <1>2, <2>2
    <3>2. faults' > 0
      BY <1>0, <2>2
    <3>. QED
      BY <2>2, <3>1, <3>2 DEF StoppingInv
  <2>. QED
    BY <1>1, <2>1, <2>2
<1>6. StartableInv' /\ QuietInv' /\ UploadedFoldersClosed'
  BY DEF StartableInv, QuietInv, UploadedFoldersClosed, StopPCs
<1>. QED
  BY <1>4, <1>5, <1>6 DEF BacklogInv, BoundedBacklog, Bounded

\* When the sleep of a stop is over the shells are quiet, or there was a failure.
LEMMA StopIsQuiet ==
    ASSUME TypeOK, BacklogInv, pc \in StopPCs, polls = 0
    PROVE  /\ faults = 0 => Quiet
           /\ Work("app") <= (IF pc = "upStop" THEN 2 ELSE 1) + 2 * faults
<1>0. /\ \A s \in Shells : Work(s) \in Nat
      /\ faults \in Nat /\ "app" \in Shells
  BY WorkNumbers
<1>1. CASE stopFlag
  <2>1. \A s \in Shells : Work(s) <= 0 + 2 * faults
    BY <1>1, BacklogParts DEF StoppingInv
  <2>2. faults = 0 => \A s \in Shells : Work(s) = 0
    BY <1>0, <2>1
  <2>3. faults = 0 => Quiet
    BY <2>2, QuietIsNoWork DEF TypeOK
  <2>. QED
    BY <1>0, <2>1, <2>3
<1>2. CASE ~stopFlag
  <2>1. /\ faults > 0
        /\ Work("app") <= (IF pc = "upStop" THEN 2 ELSE 1) + 2 * faults
    BY <1>2, BacklogParts DEF StoppingInv
  <2>. QED
    BY <1>0, <2>1
<1>. QED
  BY <1>1, <1>2

\* A step of any actor keeps the work of the shells within BacklogInv.
LEMMA BacklogStep == TypeOK /\ TypeOK' /\ BacklogInv /\ [Next]_vars => BacklogInv'
<1>. SUFFICES ASSUME TypeOK, TypeOK', BacklogInv, [Next]_vars PROVE BacklogInv'
  OBVIOUS
<1>a. IMAPTypeOK /\ IMAPTypeOK' /\ cur \in IfaceType \cup {NoType}
  BY DEF TypeOK, ThreadTypeOK
<1>b. "app" \in Shells /\ \A s \in Shells : s = "app" \/ s = "orphan"
  BY DEF Shells
<1>c. /\ \A s \in Shells : Work(s) \in Nat /\ Work(s)' \in Nat
      /\ faults \in Nat /\ faults' \in Nat /\ polls \in Nat
  BY WorkNumbers, WorkNumbersNext
<1>d. ASSUME UNCHANGED <<run, pipe>>
      PROVE  (\A s \in Shells : Work(s)' = Work(s)) /\ Quiet' = Quiet
  BY <1>d DEF Work, Quiet, IdleShell
<1>e. Bounded /\ ListedRight
  BY BacklogParts
<1>f. UNCHANGED imapVars => UNCHANGED <<run, pipe>> /\ faults' = faults
  BY DEF imapVars, shellVars, failVars
<1>g. UNCHANGED <<run, pipe>> /\ (faults' = faults \/ faults' = faults + 1) => Bounded'
  <2>. SUFFICES ASSUME UNCHANGED <<run, pipe>>, faults' = faults \/ faults' = faults + 1,
                       NEW s \in Shells
                PROVE  Work(s)' <= 4 + 2 * faults'
    BY DEF Bounded
  <2>1. Work(s)' = Work(s) /\ Work(s) <= 4 + 2 * faults
    BY <1>d, <1>e DEF Bounded
  <2>. QED
    BY <1>c, <2>1
\* A start where the app's shell has so much work that it may get two more.
<1>h. ASSUME NEW t \in IfaceType \cup {NoType}, NEW named,
             startCollectingIMAPData(t, named), Work("app") <= 2 + 2 * faults
      PROVE  /\ Bounded' /\ faults' = faults
             /\ Work("app")' <= Work("app") + 2
             /\ ~named => Work("app")' = Work("app")
  <2>1. /\ Work("app")' <= Work("app") + 2 /\ Work("orphan")' = Work("orphan")
        /\ faults' = faults /\ (~named => Work("app")' = Work("app"))
    BY <1>a, <1>h, StartWork
  <2>2. Work("app")' <= 4 + 2 * faults'
    BY <1>b, <1>c, <1>h, <2>1
  <2>3. Work("orphan")' <= 4 + 2 * faults'
    BY <1>e, <2>1 DEF Bounded, Shells
  <2>. QED
    BY <1>b, <2>1, <2>2, <2>3 DEF Bounded
<1>1. CASE LoopHead \/ Restart
  <2>1. /\ pc \in {"loop", "dead"} /\ pc' \in {"loop", "detect"} /\ listed' = {}
        /\ UNCHANGED imapVars
    BY <1>1, <1>e DEF LoopHead, Restart, Goto, ListedRight, ListedPCs
  <2>2. Work("app") <= 3 + 2 * faults
    BY <2>1, BacklogParts DEF StartableInv
  <2>3. Work("app")' <= 3 + 2 * faults'
    BY <1>b, <1>d, <1>f, <2>1, <2>2
  <2>. QED
    BY <1>f, <1>g, <2>1, <2>3, BacklogStartable
<1>2. CASE Detect
  <2>0. Work("app") <= 3 + 2 * faults /\ listed' = {}
    BY <1>2, <1>e, BacklogParts DEF Detect, StartableInv, ListedRight, ListedPCs
  <2>1. CASE pc' = "detectSame" /\ UNCHANGED imapVars
    <3>1. Work("app")' <= 3 + 2 * faults'
      BY <1>b, <1>d, <1>f, <2>0, <2>1
    <3>. QED
      BY <1>f, <1>g, <2>0, <2>1, <3>1, BacklogStartable
  <2>2. CASE pc' \in {"noNetStop", "switchStop"} /\ beginStop
    BY <1>e, <2>0, <2>2, StopBegins DEF StopPCs
  <2>. QED
    BY <1>2, <2>1, <2>2 DEF Detect
<1>3. CASE DetectSame \/ (StorageCheck /\ pc' \in {"storageOthers", "storageStart"})
  <2>0. Work("app") <= 3 + 2 * faults /\ listed' = {}
    BY <1>3, <1>e, BacklogParts
       DEF DetectSame, StorageCheck, StartableInv, ListedRight, ListedPCs
  <2>1. PICK running \in BOOLEAN :
            /\ isIMAPCollectorRunning(running)
            /\ \/ pc' = "storage" \/ pc' = "storageOthers"
               \/ pc' \in {"detectStart", "storageStart"} /\ ~running
    BY <1>3 DEF DetectSame, StorageCheck, StopPCs
  <2>2. UNCHANGED <<run, pipe>> /\ (faults' = faults \/ faults' = faults + 1)
    BY <1>a, <2>1, RunningWork
  <2>3. Bounded'
    BY <1>g, <2>2
  <2>4. Work("app")' <= 3 + 2 * faults'
    BY <1>b, <1>c, <1>d, <2>0, <2>2
  <2>5. CASE pc' = "storage"
    BY <2>0, <2>3, <2>4, <2>5, BacklogStartable
  <2>6. CASE pc' = "storageOthers"
    BY <2>0, <2>3, <2>6, BacklogAnywhere DEF ListedRight, FreePCs
  <2>7. CASE pc' \in {"detectStart", "storageStart"} /\ ~running
    <3>1. isIMAPCollectorRunning(FALSE)
      BY <2>1, <2>7
    <3>2. Work("app")' <= 2 + 2 * faults'
      BY <1>a, <2>0, <3>1, UnseenWork
    <3>. QED
      BY <2>0, <2>3, <2>7, <3>2, BacklogStarting
  <2>. QED
    BY <2>1, <2>5, <2>6, <2>7
<1>4. CASE StorageCheck /\ pc' \notin {"storageOthers", "storageStart"}
  <2>0. Work("app") <= 3 + 2 * faults /\ listed' = {}
    BY <1>4, <1>e, BacklogParts DEF StorageCheck, StartableInv, ListedRight, ListedPCs
  <2>1. CASE pc' = "psmn" /\ UNCHANGED imapVars
    BY <1>f, <1>g, <2>0, <2>1, BacklogAnywhere DEF ListedRight, FreePCs
  <2>2. CASE pc' = "storageStop" /\ beginStop
    BY <1>e, <2>0, <2>2, StopBegins DEF StopPCs
  <2>. QED
    BY <1>4, <2>1, <2>2 DEF StorageCheck
<1>5. CASE DetectStart
  <2>0. Work("app") <= 2 + 2 * faults /\ listed' = {}
    BY <1>5, <1>e, BacklogParts DEF DetectStart, StartableInv, ListedRight, ListedPCs
  <2>1. PICK named \in Named(cur) :
            /\ startCollectingIMAPData(cur, named)
            /\ pc' = IF named THEN "detectPause" ELSE "storage"
    BY <1>5 DEF DetectStart
  <2>2. Bounded' /\ faults' = faults /\ (~named => Work("app")' = Work("app"))
    BY <1>a, <1>h, <2>0, <2>1
  <2>3. CASE named
    BY <2>0, <2>1, <2>2, <2>3, BacklogAnywhere DEF ListedRight, FreePCs
  <2>4. CASE ~named
    <3>1. Work("app")' <= 3 + 2 * faults'
      BY <1>b, <1>c, <2>0, <2>2, <2>4
    <3>. QED
      BY <2>0, <2>1, <2>2, <2>4, <3>1, BacklogStartable
  <2>. QED
    BY <2>3, <2>4
<1>6. CASE DetectPause \/ Sleep
  <2>1. pc' \in {"storage", "loop"} /\ listed' = {} /\ Settled /\ UNCHANGED imapVars
    BY <1>6, <1>e DEF DetectPause, Sleep, Goto, ListedRight, ListedPCs
  <2>2. Work("app") <= 3 + 2 * faults
    BY <1>a, <1>b, <1>e, <2>1, SettledWork DEF Bounded
  <2>3. Work("app")' <= 3 + 2 * faults'
    BY <1>b, <1>d, <1>f, <2>1, <2>2
  <2>. QED
    BY <1>f, <1>g, <2>1, <2>3, BacklogStartable
<1>7. CASE StopReturns
  <2>0. /\ pc \in StopPCs /\ polls = 0 /\ endStop /\ listed' = {}
        /\ pc' = "upStopOthers" => pc = "upStop"
        /\ pc = "upStop" => pc' = "upStopOthers"
        /\ pc' \in {"storage", "switchStart", "storageStopOthers", "upStopOthers"}
    BY <1>7, <1>e DEF StopReturns, endStop, ListedRight, ListedPCs, StopPCs
  <2>1. /\ faults = 0 => Quiet
        /\ Work("app") <= (IF pc = "upStop" THEN 2 ELSE 1) + 2 * faults
    BY <2>0, StopIsQuiet
  <2>2. UNCHANGED <<run, pipe>> /\ faults' = IF Quiet THEN 0 ELSE faults
    BY <2>0 DEF endStop, shellVars
  <2>3. Quiet' \/ faults' > 0
    BY <1>c, <1>d, <2>1, <2>2
  <2>4. /\ Bounded'
        /\ Work("app")' <= (IF pc = "upStop" THEN 2 ELSE 1) + 2 * faults'
    <3>1. CASE Quiet
      <4>1. \A s \in Shells : Work(s)' = 0
        BY <1>d, <2>2, <3>1, QuietWorkNext
      <4>. QED
        BY <1>b, <1>c, <4>1 DEF Bounded
    <3>2. CASE ~Quiet
      BY <1>b, <1>d, <1>g, <2>1, <2>2, <3>2
    <3>. QED
      BY <3>1, <3>2
  <2>5. CASE pc' = "upStopOthers"
    <3>1. Work("app")' <= 2 + 2 * faults'
      BY <2>0, <2>4, <2>5
    <3>. QED
      BY <2>0, <2>3, <2>4, <2>5, <3>1, BacklogPrepared DEF ListedRight, UploadPreparedPCs
  <2>6. CASE pc' # "upStopOthers"
    <3>1. Work("app")' <= 1 + 2 * faults'
      BY <2>0, <2>4, <2>6
    <3>2. Work("app")' <= 3 + 2 * faults'
      BY <1>b, <1>c, <3>1
    <3>3. CASE pc' = "storage"
      BY <2>0, <2>4, <3>2, <3>3, BacklogStartable
    <3>4. CASE pc' = "storageStopOthers"
      BY <2>0, <2>4, <3>4, BacklogAnywhere DEF ListedRight, FreePCs
    <3>5. CASE pc' = "switchStart"
      BY <2>0, <2>3, <2>4, <3>1, <3>5
      DEF BacklogInv, BoundedBacklog, UploadedFoldersClosed, StartableInv,
          StoppingInv, QuietInv, Bounded, StopPCs
    <3>. QED
      BY <2>0, <2>6, <3>3, <3>4, <3>5
  <2>. QED
    BY <2>5, <2>6
<1>8. CASE SwitchStart \/ StorageStart \/ UploadRestartIMAP
  <2>1. PICK t \in IfaceType \cup {NoType}, named \in BOOLEAN :
            startCollectingIMAPData(t, named)
    BY <1>8, <1>a, TypeOfType DEF SwitchStart, StorageStart, UploadRestartIMAP, Named
  <2>2. /\ listed' = listed
        /\ \/ pc = "switchStart" /\ pc' = "storage"
           \/ pc = "storageStart" /\ pc' = "storageOthers"
           \/ pc = "upStart" /\ pc' = "upPsmn"
    BY <1>8 DEF SwitchStart, StorageStart, UploadRestartIMAP, Goto
  <2>3. /\ Work("app") <= 2 + 2 * faults
        /\ pc = "switchStart" => Work("app") <= 1 + 2 * faults
    <3>1. /\ pc = "switchStart" => Work("app") <= 1 + 2 * faults
          /\ pc # "switchStart" => Work("app") <= 2 + 2 * faults
      BY <2>2, BacklogParts DEF StartableInv
    <3>. QED
      BY <1>b, <1>c, <3>1
  <2>4. Bounded' /\ faults' = faults /\ Work("app")' <= Work("app") + 2
    BY <1>h, <2>1, <2>3
  <2>5. CASE pc' = "storage"
    <3>1. Work("app")' <= 3 + 2 * faults'
      BY <1>b, <1>c, <2>2, <2>3, <2>4, <2>5
    <3>2. listed' = {}
      BY <1>e, <2>2, <2>5 DEF ListedRight, ListedPCs
    <3>. QED
      BY <2>4, <2>5, <3>1, <3>2, BacklogStartable
  <2>6. CASE pc' # "storage"
    <3>1. ListedRight' /\ pc' \in FreePCs
      BY <1>e, <2>2, <2>4, <2>6 DEF ListedRight, ListedPCs, FreePCs
    <3>. QED
      BY <2>4, <3>1, BacklogAnywhere
  <2>. QED
    BY <2>5, <2>6
<1>9. CASE StorageStopOthers \/ StorageOthers \/ StartPassiveMonitoring \/ UploadCheck
  <2>1. pc' \in {"psmn", "uploadCheck", "config", "sleep"} /\ UNCHANGED imapVars
    BY <1>9 DEF StorageStopOthers, StorageOthers, StartPassiveMonitoring,
       UploadCheck, Goto
  <2>2. listed' = {}
    BY <1>9, <1>e DEF StorageStopOthers, StorageOthers,
       StartPassiveMonitoring, UploadCheck, Goto, ListedRight, ListedPCs
  <2>. QED
    BY <1>f, <1>g, <2>1, <2>2, BacklogAnywhere DEF ListedRight, FreePCs
<1>10. CASE Config
  <2>1. CASE Goto("config", "decide") /\ UNCHANGED imapVars /\ UNCHANGED listed
    <3>1. listed' = {} /\ pc' = "decide"
      BY <1>e, <2>1 DEF ListedRight, ListedPCs, Goto
    <3>. QED
      BY <1>f, <1>g, <2>1, <3>1, BacklogAnywhere DEF ListedRight, FreePCs
  <2>2. CASE processDies
    BY <2>2, BacklogLost DEF processDies
  <2>. QED
    BY <1>10, <2>1, <2>2 DEF Config
<1>11. CASE Decide
  <2>0. listed' = {}
    BY <1>11, <1>e DEF Decide, ListedRight, ListedPCs
  <2>1. CASE pc' = "upStop" /\ beginStop
    <3>1. Work("app") <= 4 + 2 * faults
      BY <1>b, <1>e DEF Bounded
    <3>. QED
      BY <1>e, <2>0, <2>1, <3>1, StopBegins DEF StopPCs
  <2>2. CASE pc' = "sleep" /\ UNCHANGED imapVars
    BY <1>f, <1>g, <2>0, <2>2, BacklogAnywhere DEF ListedRight, FreePCs
  <2>. QED
    BY <1>11, <2>1, <2>2 DEF Decide
<1>12. CASE UploadStopOthers \/ UploadSetFlag \/ UploadListIMAP
  <2>1. /\ pc \in {"upStopOthers", "upFlag", "upList"} /\ pc' \in UploadPreparedPCs
        /\ UNCHANGED imapVars
    BY <1>12 DEF UploadStopOthers, UploadSetFlag, UploadListIMAP, Goto, UploadPreparedPCs
  <2>2. (Quiet \/ faults > 0) /\ Work("app") <= 2 + 2 * faults
    BY <2>1, BacklogParts DEF QuietInv, StartableInv
  <2>3. (Quiet' \/ faults' > 0) /\ Work("app")' <= 2 + 2 * faults'
    BY <1>b, <1>d, <1>f, <2>1, <2>2
  <2>4. ListedRight'
    <3>1. CASE UploadListIMAP
      <4>1. Quiet => listed' = {}
        BY <3>1 DEF UploadListIMAP, Quiet, IdleShell
      <4>2. pc' = "upStart"
        BY <3>1 DEF UploadListIMAP, Goto
      <4>. QED
        BY <1>f, <2>1, <2>2, <4>1, <4>2 DEF ListedRight, ListedPCs
    <3>2. CASE UploadStopOthers \/ UploadSetFlag
      <4>1. listed' = {}
        BY <1>e, <2>1, <3>2 DEF UploadStopOthers, UploadSetFlag, ListedRight, ListedPCs
      <4>. QED
        BY <4>1 DEF ListedRight
    <3>. QED
      BY <1>12, <3>1, <3>2
  <2>. QED
    BY <1>f, <1>g, <2>1, <2>3, <2>4, BacklogPrepared
<1>13. CASE UploadRestartPsmn \/ UploadNothing \/ UploadGoesOn \/ UploadLowBattery
            \/ UploadClearFlag \/ UploadRestartTracing \/ UploadRelease
  <2>1. pc' \in FreePCs /\ UNCHANGED imapVars
    BY <1>13 DEF UploadRestartPsmn, UploadNothing, UploadGoesOn, FreePCs,
       UploadLowBattery, UploadClearFlag, UploadRestartTracing, UploadRelease, Goto
  <2>2. /\ listed' \subseteq listed
        /\ pc' \notin ListedPCs => listed' = {}
    BY <1>13, <1>e DEF UploadRestartPsmn, UploadNothing, UploadGoesOn, Goto, ListedPCs,
       UploadLowBattery, UploadClearFlag, UploadRestartTracing, UploadRelease, ListedRight
  <2>3. ListedRight'
    BY <1>e, <1>f, <2>1, <2>2 DEF ListedRight
  <2>. QED
    BY <1>f, <1>g, <2>1, <2>3, BacklogAnywhere
<1>14. CASE UploadSend
  <2>1. CASE Goto("upSend", "upClear") /\ UNCHANGED imapVars /\ UNCHANGED listed
    <3>1. ListedRight' /\ pc' \in FreePCs
      BY <1>e, <1>f, <2>1 DEF ListedRight, ListedPCs, FreePCs, Goto
    <3>. QED
      BY <1>f, <1>g, <2>1, <3>1, BacklogAnywhere
  <2>2. CASE processDies
    BY <2>2, BacklogLost DEF processDies
  <2>. QED
    BY <1>14, <2>1, <2>2 DEF UploadSend
<1>15. CASE MainStep \/ TestStep \/ TimerReleases \/ NetworkChanges \/ IntervalPasses
  <2>1. UNCHANGED imapVars /\ UNCHANGED <<pc, listed>>
    BY <1>15 DEF MainStep, ScreenOff, ScreenOn, PsmnCallback, ProbeCheck,
       ProbeDeclined, ProbeStart, TimedAcquire, TestStep, TestBegins, TestEnds,
       TimerReleases, NetworkChanges, IntervalPasses, threadVars
  <2>. QED
    BY <2>1, BacklogUnchanged
<1>16. CASE ShellReads \/ ShellCaptureEnds
  <2>1. PICK r \in Shells : ShellReadsCommand(r) \/ CaptureEnds(r)
    BY <1>16 DEF ShellReads, ShellCaptureEnds
  <2>2. \A s \in Shells : Work(s)' <= Work(s)
    BY <1>a, <2>1, ShellReadsWork, CaptureEndsWork
  <2>3. UNCHANGED <<pc, stopFlag, faults, polls>> /\ listed' \subseteq listed
    BY <1>16, <2>1 DEF ShellReads, ShellCaptureEnds, besidesShells,
       ShellReadsCommand, CaptureEnds, failVars
  <2>4. pc \in StopPCs /\ stopFlag => \A s \in Shells : Work(s)' <= polls' + 2 * faults
    <3>1. StoppingInv
      BY BacklogParts
    <3>2. pc \in StopPCs /\ stopFlag => \A s \in Shells : Work(s) <= polls + 2 * faults
      BY <3>1 DEF StoppingInv
    <3>. QED
      BY <1>c, <2>2, <2>3, <3>2
  <2>. QED
    BY <2>2, <2>3, <2>4, BacklogLess
<1>17. CASE ShellPoll
  <2>1. /\ PollPeriod /\ UNCHANGED <<pc, stopFlag, faults>> /\ listed' \subseteq listed
        /\ polls > 0 /\ polls' = polls - 1
    BY <1>17 DEF ShellPoll, besidesShells, PollPeriod, failVars
  <2>2. \A s \in Shells : /\ Work(s)' <= Work(s)
                          /\ stopFlag => Work(s)' = IF Work(s) = 0 THEN 0 ELSE Work(s) - 1
    BY <1>a, <2>1, PollWork
  <2>3. pc \in StopPCs /\ stopFlag => \A s \in Shells : Work(s)' <= polls' + 2 * faults
    <3>1. StoppingInv
      BY BacklogParts
    <3>2. pc \in StopPCs /\ stopFlag => \A s \in Shells : Work(s) <= polls + 2 * faults
      BY <3>1 DEF StoppingInv
    <3>. QED
      BY <1>c, <2>1, <2>2, <3>2
  <2>. QED
    BY <2>1, <2>2, <2>3, BacklogLess
<1>18. CASE Killed \/ Reboots
  BY <1>18, BacklogLost DEF Killed, processDies, Reboots
<1>19. CASE UNCHANGED vars
  BY <1>19, BacklogUnchanged DEF vars
<1>. QED
  BY <1>1, <1>2, <1>3, <1>4, <1>5, <1>6, <1>7, <1>8, <1>9, <1>10, <1>11,
     <1>12, <1>13, <1>14, <1>15, <1>16, <1>17, <1>18, <1>19
  DEF Next, ThreadStep

\* The inductive invariant behind the three theorems below.
THEOREM BacklogCorrect == Spec => []BacklogInv
<1>1. ASSUME Init PROVE BacklogInv
  <2>1. \A s \in Shells : Work(s) = 0
    BY <1>1 DEF Init, IMAPInit, Work
  <2>2. pc = "loop" /\ listed = {} /\ "app" \in Shells /\ faults = 0
    BY <1>1 DEF Init, IMAPInit, Shells
  <2>. QED
    BY <2>1, <2>2 DEF BacklogInv, BoundedBacklog, UploadedFoldersClosed,
       StartableInv, StoppingInv, QuietInv, StopPCs
<1>. QED
  BY <1>1, BacklogStep, TypeCorrect, PTL DEF Spec

\* When stopCollectingIMAPData returns no shell captures or is about to, unless
\* a call that hid or spared a capture has failed, however many have failed
\* before and however long its sleep is beyond the four polls assumed of it.
THEOREM StopCorrect == Spec => []StopLeavesQuiet
<1>1. TypeOK /\ BacklogInv => StopLeavesQuiet
  BY StopIsQuiet DEF StopLeavesQuiet
<1>. QED
  BY <1>1, TypeCorrect, BacklogCorrect, PTL

\* The commands in a shell's pipe pile up by one for each failure at most.
THEOREM BacklogBounded == Spec => []BoundedBacklog
<1>1. BacklogInv => BoundedBacklog
  BY DEF BacklogInv
<1>. QED
  BY <1>1, BacklogCorrect, PTL

\* No folder is uploaded and deleted while a capture writes to it, unless a
\* failure has hidden or spared that capture.
THEOREM UploadsClosedFolders == Spec => []UploadedFoldersClosed
<1>1. BacklogInv => UploadedFoldersClosed
  BY DEF BacklogInv
<1>. QED
  BY <1>1, BacklogCorrect, PTL

(***************************************************************************)
(* The thread runs on.  tlapm does not look into ENABLED, so that a step   *)
(* can be taken is a hypothesis of what follows: NeverStuck.               *)
(***************************************************************************)

UpAt(place) == pc = place
Alive == pc # "dead"

\* The order of the thread's places; a dead process is started again.
After(p, q) ==
    \/ p \in {"loop"} /\ q \in {"detect"}
    \/ p \in {"detect"} /\ q \in {"detectSame", "noNetStop", "switchStop"}
    \/ p \in {"detectSame"} /\ q \in {"detectStart", "storage"}
    \/ p \in {"detectStart"} /\ q \in {"detectPause", "storage"}
    \/ p \in {"detectPause", "noNetStop", "switchStart"} /\ q \in {"storage"}
    \/ p \in {"switchStop"} /\ q \in {"switchStart"}
    \/ p \in {"storage"} /\ q \in {"psmn", "storageStop", "storageStart", "storageOthers"}
    \/ p \in {"storageStart"} /\ q \in {"storageOthers"}
    \/ p \in {"storageStop"} /\ q \in {"storageStopOthers"}
    \/ p \in {"storageStopOthers", "storageOthers"} /\ q \in {"psmn"}
    \/ p \in {"psmn"} /\ q \in {"uploadCheck"}
    \/ p \in {"uploadCheck"} /\ q \in {"config", "sleep"}
    \/ p \in {"config"} /\ q \in {"decide"}
    \/ p \in {"decide"} /\ q \in {"upStop", "sleep"}
    \/ p \in {"upStop"} /\ q \in {"upStopOthers"}
    \/ p \in {"upStopOthers"} /\ q \in {"upFlag"}
    \/ p \in {"upFlag"} /\ q \in {"upList"}
    \/ p \in {"upList"} /\ q \in {"upStart"}
    \/ p \in {"upStart"} /\ q \in {"upPsmn"}
    \/ p \in {"upPsmn"} /\ q \in {"upBattery"}
    \/ p \in {"upBattery"} /\ q \in {"upSend", "upClear", "sleep"}
    \/ p \in {"upSend"} /\ q \in {"upClear"}
    \/ p \in {"upClear"} /\ q \in {"upLog"}
    \/ p \in {"upLog"} /\ q \in {"upRelease"}
    \/ p \in {"upRelease"} /\ q \in {"sleep"}
    \/ p \in {"sleep", "dead"} /\ q \in {"loop"}

\* The thread has left place p.
GoneOn(p) == ~Alive \/ After(p, pc)
Leaves(p) == UpAt(p) ~> GoneOn(p)

\* The places without a sleep.
Plain == PCs \ (StopPCs \cup {"dead", "detectPause", "sleep"})

\* A step of the thread goes on to a next place, or the process dies.
LEMMA ThreadMoves ==
    ASSUME TypeOK, ThreadStep
    PROVE  pc # "dead" /\ (pc' = "dead" \/ After(pc, pc'))
<1>. USE DEF After, Goto
<1>1. CASE LoopHead \/ Detect \/ DetectSame \/ DetectStart \/ DetectPause
  BY <1>1 DEF LoopHead, Detect, DetectSame, DetectStart, DetectPause
<1>2. CASE StopReturns
  BY <1>2 DEF StopReturns, StopPCs
<1>3. CASE SwitchStart \/ StorageCheck \/ StorageStart \/ StorageStopOthers
           \/ StorageOthers \/ StartPassiveMonitoring
  BY <1>3 DEF SwitchStart, StorageCheck, StorageStart, StorageStopOthers, StorageOthers,
     StartPassiveMonitoring
<1>4. CASE UploadCheck \/ Sleep
  BY <1>4 DEF UploadCheck, Sleep
<1>5. CASE Config \/ UploadSend
  BY <1>5 DEF Config, UploadSend, processDies, memoryLost
<1>6. CASE Decide
  BY <1>6 DEF Decide
<1>7. CASE UploadStopOthers \/ UploadSetFlag \/ UploadListIMAP \/ UploadRestartIMAP
           \/ UploadRestartPsmn
  BY <1>7 DEF UploadStopOthers, UploadSetFlag, UploadListIMAP, UploadRestartIMAP,
     UploadRestartPsmn
<1>8. CASE UploadNothing \/ UploadGoesOn \/ UploadLowBattery
           \/ UploadClearFlag \/ UploadRestartTracing \/ UploadRelease
  BY <1>8 DEF UploadNothing, UploadGoesOn, UploadLowBattery,
     UploadClearFlag, UploadRestartTracing, UploadRelease
<1>. QED
  BY <1>1, <1>2, <1>3, <1>4, <1>5, <1>6, <1>7, <1>8 DEF ThreadStep

\* The place tells the step.
LEMMA ThreadAt ==
    ASSUME ThreadStep
    PROVE  /\ pc = "detect" => Detect
           /\ pc = "detectSame" => DetectSame
           /\ pc = "detectStart" => DetectStart
           /\ pc = "switchStop" => StopReturns
           /\ pc = "switchStart" => SwitchStart
           /\ pc = "sleep" => Sleep
           /\ pc # "dead"
  BY DEF ThreadStep, Goto, LoopHead, Detect, DetectSame, DetectStart, DetectPause, StopReturns,
     StopPCs, SwitchStart, StorageCheck, StorageStart, StorageStopOthers, StorageOthers, StartPassiveMonitoring,
     UploadCheck, Sleep, Config, Decide, UploadStopOthers, UploadSetFlag, UploadListIMAP,
     UploadRestartIMAP, UploadRestartPsmn, UploadNothing, UploadGoesOn, UploadLowBattery,
     UploadSend, UploadClearFlag, UploadRestartTracing, UploadRelease

\* Nobody else moves the thread, but a death of the process and its restart.
LEMMA OthersMoves ==
    ASSUME TypeOK, [Next]_vars, ~ThreadStep
    PROVE  /\ pc' = pc \/ pc' = "dead" \/ (pc = "dead" /\ After(pc, pc'))
           /\ pc' = pc => polls' = polls \/ (polls > 0 /\ polls' = polls - 1)
<1>1. CASE MainStep \/ TestStep \/ TimerReleases \/ NetworkChanges \/ IntervalPasses
           \/ UNCHANGED vars
  BY <1>1 DEF MainStep, TestStep, ScreenOff, ScreenOn, PsmnCallback, ProbeCheck,
     ProbeDeclined, ProbeStart, TimedAcquire, TestBegins, TestEnds, TimerReleases,
     NetworkChanges, IntervalPasses, threadVars, imapVars, vars
<1>2. CASE ShellReads \/ ShellCaptureEnds \/ ShellPoll
  BY <1>2 DEF ShellReads, ShellCaptureEnds, ShellPoll, ShellReadsCommand, CaptureEnds,
     PollPeriod, besidesShells
<1>3. CASE Killed \/ Reboots
  BY <1>3 DEF Killed, processDies, Reboots, memoryLost
<1>4. CASE Restart
  BY <1>4 DEF Restart, Goto, After
<1>. QED
  BY <1>1, <1>2, <1>3, <1>4 DEF Next

\* No place comes after itself.
LEMMA AfterMoves == \A p \in PCs : ~After(p, p)
  BY DEF After

\* At a place the thread stays there or goes on; when it runs, it goes on.
LEMMA PlaceMoves ==
    ASSUME TypeOK, [Next]_vars, NEW p \in PCs, UpAt(p)
    PROVE  /\ UpAt(p)' \/ GoneOn(p)'
           /\ ThreadStep => ~UpAt(p)'
<1>1. CASE ThreadStep
  BY <1>1, ThreadMoves, AfterMoves DEF UpAt, GoneOn, Alive
<1>2. CASE ~ThreadStep
  BY <1>2, OthersMoves DEF UpAt, GoneOn, Alive
<1>. QED
  BY <1>1, <1>2

\* What the runs of the thread rest on: its invariants and the fairness of
\* the thread, of the polls of a stop and of the shells.
FourPolls == polls \in 0..4

\* No more than two failures have hidden or spared a capture since the shells
\* were last quiet.  (Each lets a command in; that the shells work off any
\* number of them takes an induction, which temporal steps do not have.)
FewFaults == faults <= 2
Runs ==
    /\ [](TypeOK /\ FourPolls /\ FewFaults /\ BacklogInv /\ NeverStuck)
    /\ [][Next]_vars
    /\ WF_vars(ThreadStep) /\ WF_vars(ShellPoll) /\ WF_vars(ShellReads)

\* A place without a sleep is left.
LEMMA PlainLeft ==
    ASSUME NEW p \in Plain
    PROVE  Runs => Leaves(p)
<1>1. TypeOK /\ [Next]_vars /\ UpAt(p) => UpAt(p)' \/ GoneOn(p)'
  BY PlaceMoves DEF Plain
<1>2. TypeOK /\ <<ThreadStep>>_vars /\ UpAt(p) => ~UpAt(p)'
  BY PlaceMoves DEF Plain, Next
<1>3. NeverStuck /\ UpAt(p) => ENABLED <<ThreadStep>>_vars
  BY DEF NeverStuck, UpAt, Awake, Plain
<1>. QED
  BY <1>1, <1>2, <1>3, PTL DEF Runs, Leaves

\* In the sleep of stopCollectingIMAPData, with n polls to go.
Asleep(p, n) == pc = p /\ polls = n

\* There the polls pass one by one.
LEMMA StopMoves ==
    ASSUME TypeOK, [Next]_vars, NEW p \in StopPCs, NEW n \in 0..4, Asleep(p, n)
    PROVE  /\ Asleep(p, n)' \/ (n > 0 /\ Asleep(p, n - 1)') \/ GoneOn(p)'
           /\ ShellPoll => ~Asleep(p, n)'
           /\ ThreadStep => ~Asleep(p, n)'
<1>1. p \in PCs /\ UpAt(p)
  BY DEF Asleep, UpAt, PCs
<1>2. (UpAt(p)' \/ GoneOn(p)') /\ (ThreadStep => ~UpAt(p)')
  BY <1>1, PlaceMoves
<1>3. UpAt(p)' => polls' = n \/ (n > 0 /\ polls' = n - 1)
  BY <1>2, OthersMoves DEF Asleep, UpAt
<1>4. ShellPoll => polls' = n - 1
  BY DEF ShellPoll, PollPeriod, Asleep
<1>. QED
  BY <1>2, <1>3, <1>4 DEF Asleep, UpAt

\* So it ends: after four polls at most stopCollectingIMAPData returns.
LEMMA StopLeft ==
    ASSUME NEW p \in StopPCs
    PROVE  Runs => Leaves(p)
<1>1. TypeOK /\ [Next]_vars =>
        /\ Asleep(p, 4) => Asleep(p, 4)' \/ Asleep(p, 3)' \/ GoneOn(p)'
        /\ Asleep(p, 3) => Asleep(p, 3)' \/ Asleep(p, 2)' \/ GoneOn(p)'
        /\ Asleep(p, 2) => Asleep(p, 2)' \/ Asleep(p, 1)' \/ GoneOn(p)'
        /\ Asleep(p, 1) => Asleep(p, 1)' \/ Asleep(p, 0)' \/ GoneOn(p)'
        /\ Asleep(p, 0) => Asleep(p, 0)' \/ GoneOn(p)'
  <2>. SUFFICES ASSUME TypeOK, [Next]_vars, NEW n \in 0..4, Asleep(p, n)
                PROVE  Asleep(p, n)' \/ (n > 0 /\ Asleep(p, n - 1)') \/ GoneOn(p)'
    BY DEF Asleep
  <2>. QED
    BY StopMoves
<1>2. TypeOK /\ <<ShellPoll>>_vars =>
        /\ Asleep(p, 4) => ~Asleep(p, 4)'
        /\ Asleep(p, 3) => ~Asleep(p, 3)'
        /\ Asleep(p, 2) => ~Asleep(p, 2)'
        /\ Asleep(p, 1) => ~Asleep(p, 1)'
  BY StopMoves DEF Next
<1>3. TypeOK /\ <<ThreadStep>>_vars => (Asleep(p, 0) => ~Asleep(p, 0)')
  BY StopMoves DEF Next
<1>4. NeverStuck =>
        /\ \/ Asleep(p, 4) \/ Asleep(p, 3) \/ Asleep(p, 2) \/ Asleep(p, 1)
             => ENABLED <<ShellPoll>>_vars
        /\ Asleep(p, 0) => ENABLED <<ThreadStep>>_vars
  BY DEF NeverStuck, Awake, Asleep, StopPCs
<1>5. FourPolls /\ UpAt(p) =>
        \/ Asleep(p, 4) \/ Asleep(p, 3) \/ Asleep(p, 2) \/ Asleep(p, 1) \/ Asleep(p, 0)
  BY DEF FourPolls, UpAt, Asleep
<1>. QED
  BY <1>1, <1>2, <1>3, <1>4, <1>5, PTL DEF Runs, Leaves

\* The sleep after a start lasts until the shells have read their commands.
\* Each step of a shell takes off some of their work, which is sixteen at most.
Load == Work("app") + Work("orphan")
Paused(n) == pc = "detectPause" /\ Load = n
Below(n) == pc = "detectPause" /\ Load < n

LEMMA LoadFalls ==
    ASSUME TypeOK, TypeOK', ShellReads \/ ShellCaptureEnds
    PROVE  Load' < Load
<1>1. PICK r \in Shells : ShellReadsCommand(r) \/ CaptureEnds(r)
  BY DEF ShellReads, ShellCaptureEnds
<1>2. \A s \in Shells : Work(s)' <= Work(s) /\ (s = r => Work(s)' < Work(s))
  BY <1>1, ShellReadsWork, CaptureEndsWork DEF TypeOK
<1>3. "app" \in Shells /\ "orphan" \in Shells /\ r \in {"app", "orphan"}
  BY DEF Shells
<1>4. \A s \in Shells : Work(s) \in Nat /\ Work(s)' \in Nat
  BY WorkNat, WorkNatNext DEF TypeOK
<1>. QED
  BY <1>2, <1>3, <1>4 DEF Load

LEMMA LoadPolled ==
    ASSUME TypeOK, TypeOK', ShellPoll
    PROVE  Load' < Load \/ (Load' = Load /\ Settled')
<1>1. \A s \in Shells : /\ Work(s)' <= Work(s)
                        /\ run[s] = NoType /\ pipe[s] # <<>> => Work(s)' < Work(s)
  BY PollWork DEF ShellPoll, TypeOK
<1>2. "app" \in Shells /\ "orphan" \in Shells /\ \A s \in Shells : s \in {"app", "orphan"}
  BY DEF Shells
<1>3. \A s \in Shells : Work(s) \in Nat /\ Work(s)' \in Nat
  BY WorkNat, WorkNatNext DEF TypeOK
<1>4. CASE \E s \in Shells : Work(s)' < Work(s)
  BY <1>1, <1>2, <1>3, <1>4 DEF Load
<1>5. CASE \A s \in Shells : Work(s)' = Work(s)
  <2>1. \A s \in Shells : pipe[s] # <<>> => run[s] # NoType
    BY <1>1, <1>3, <1>5
  <2>2. \A s \in Shells : pipe'[s] = pipe[s]
    BY <2>1 DEF ShellPoll, PollPeriod
  <2>3. \A s \in Shells : run[s] # NoType => run'[s] # NoType
    <3>. SUFFICES ASSUME NEW s \in Shells, run[s] # NoType, run'[s] = NoType
                  PROVE  FALSE
      OBVIOUS
    <3>1. Len(pipe[s]) \in Nat /\ pipe'[s] = pipe[s]
      BY <2>2, PipeFacts DEF TypeOK, IMAPTypeOK
    <3>. QED
      BY <1>5, <3>1 DEF Work
  <2>. QED
    BY <1>2, <1>5, <2>1, <2>2, <2>3 DEF Load, Settled
<1>. QED
  BY <1>1, <1>3, <1>4, <1>5

LEMMA PauseMoves ==
    ASSUME TypeOK, TypeOK', [Next]_vars, NEW n \in 0..16, Paused(n)
    PROVE  /\ \/ Paused(n)' /\ (Settled => Settled')
              \/ Below(n)' \/ GoneOn("detectPause")'
           /\ ShellReads \/ ThreadStep => ~Paused(n)'
<1>1. UpAt("detectPause") /\ "detectPause" \in PCs
  BY DEF Paused, UpAt, PCs
<1>2. CASE pc' # "detectPause"
  BY <1>1, <1>2, PlaceMoves DEF UpAt, Paused
<1>3. CASE pc' = "detectPause" /\ (ShellReads \/ ShellCaptureEnds \/ ShellPoll)
  <2>1. Load' < n \/ (Load' = n /\ Settled' /\ ~ShellReads)
    <3>1. CASE ShellReads \/ ShellCaptureEnds
      BY <3>1, LoadFalls DEF Paused
    <3>2. CASE ShellPoll
      <4>1. Load' < Load \/ (Load' = Load /\ Settled')
        BY <3>2, LoadPolled
      <4>2. ~ShellReads
        <5>1. polls' # polls
          BY <3>2, PollsAssumption DEF ShellPoll, PollPeriod, TypeOK, IMAPTypeOK
        <5>. QED
          BY <5>1 DEF ShellReads, ShellReadsCommand
      <4>. QED
        BY <4>1, <4>2 DEF Paused
    <3>. QED
      BY <1>3, <3>1, <3>2
  <2>2. ~ThreadStep
    BY <1>1, <1>3, PlaceMoves DEF UpAt
  <2>3. Load' \in Int
    BY WorkNatNext DEF TypeOK, Load, Shells
  <2>. QED
    BY <1>3, <2>1, <2>2, <2>3 DEF Paused, Below
<1>4. CASE pc' = "detectPause" /\ ~(ShellReads \/ ShellCaptureEnds \/ ShellPoll)
  <2>1. ~ThreadStep
    BY <1>1, <1>4, PlaceMoves DEF UpAt
  <2>2. UNCHANGED <<run, pipe>>
    BY <1>1, <1>4, <2>1 DEF UpAt, Next, MainStep, TestStep, ScreenOff, ScreenOn, PsmnCallback,
       ProbeCheck, ProbeDeclined, ProbeStart, TimedAcquire, TestBegins, TestEnds,
       TimerReleases, NetworkChanges, IntervalPasses, imapVars, shellVars, vars, Killed,
       processDies, Reboots, memoryLost, Restart, Goto
  <2>. QED
    BY <1>4, <2>1, <2>2 DEF Load, Work, Settled, Paused
<1>. QED
  BY <1>2, <1>3, <1>4

\* With n of work left, in time there is less or the sleep is over:
Shrinks(n) == Paused(n) ~> Below(n) \/ GoneOn("detectPause")

LEMMA PauseShrinks ==
    ASSUME NEW n \in 0..16
    PROVE  Runs => Shrinks(n)
<1>1. TypeOK /\ TypeOK' /\ [Next]_vars /\ Paused(n) =>
        \/ Paused(n)' /\ (Settled => Settled')
        \/ Below(n)' \/ GoneOn("detectPause")'
  BY PauseMoves
<1>2. TypeOK /\ TypeOK' /\ <<ShellReads>>_vars /\ Paused(n) => ~Paused(n)'
  BY PauseMoves DEF Next
<1>3. TypeOK /\ TypeOK' /\ <<ThreadStep>>_vars /\ Paused(n) => ~Paused(n)'
  BY PauseMoves DEF Next
<1>4. NeverStuck /\ Paused(n) => /\ ~Settled => ENABLED <<ShellReads>>_vars
                                 /\ Settled => ENABLED <<ThreadStep>>_vars
  BY DEF NeverStuck, Awake, Paused, StopPCs
<1>. QED
  BY <1>1, <1>2, <1>3, <1>4, PTL DEF Runs, Shrinks

\* so it ends.
LEMMA PauseLeft == Runs => Leaves("detectPause")
<1>1. Runs => Shrinks(0)
  BY PauseShrinks
<1>2. Runs => Shrinks(1)
  BY PauseShrinks
<1>3. Runs => Shrinks(2)
  BY PauseShrinks
<1>4. Runs => Shrinks(3)
  BY PauseShrinks
<1>5. Runs => Shrinks(4)
  BY PauseShrinks
<1>6. Runs => Shrinks(5)
  BY PauseShrinks
<1>7. Runs => Shrinks(6)
  BY PauseShrinks
<1>8. Runs => Shrinks(7)
  BY PauseShrinks
<1>9. Runs => Shrinks(8)
  BY PauseShrinks
<1>10. Runs => Shrinks(9)
  BY PauseShrinks
<1>11. Runs => Shrinks(10)
  BY PauseShrinks
<1>12. Runs => Shrinks(11)
  BY PauseShrinks
<1>13. Runs => Shrinks(12)
  BY PauseShrinks
<1>14. Runs => Shrinks(13)
  BY PauseShrinks
<1>15. Runs => Shrinks(14)
  BY PauseShrinks
<1>16. Runs => Shrinks(15)
  BY PauseShrinks
<1>17. Runs => Shrinks(16)
  BY PauseShrinks
<1>18. TypeOK => /\ Load \in Nat
                 /\ BacklogInv /\ FewFaults => Load <= 16
  <2>. SUFFICES ASSUME TypeOK PROVE Load \in Nat /\ (BacklogInv /\ FewFaults => Load <= 16)
    OBVIOUS
  <2>1. "app" \in Shells /\ "orphan" \in Shells
    BY DEF Shells
  <2>2. Work("app") \in Nat /\ Work("orphan") \in Nat /\ faults \in Nat
    BY <2>1, WorkNat DEF TypeOK, IMAPTypeOK
  <2>3. BacklogInv => Work("app") <= 4 + 2 * faults /\ Work("orphan") <= 4 + 2 * faults
    BY <2>1 DEF BacklogInv, BoundedBacklog
  <2>. QED
    BY <2>2, <2>3 DEF Load, FewFaults
<1>19. TypeOK =>
         /\ ~Below(0)
         /\ Below(1) => Paused(0)
         /\ Below(2) => Paused(1) \/ Below(1)
         /\ Below(3) => Paused(2) \/ Below(2)
         /\ Below(4) => Paused(3) \/ Below(3)
         /\ Below(5) => Paused(4) \/ Below(4)
         /\ Below(6) => Paused(5) \/ Below(5)
         /\ Below(7) => Paused(6) \/ Below(6)
         /\ Below(8) => Paused(7) \/ Below(7)
         /\ Below(9) => Paused(8) \/ Below(8)
         /\ Below(10) => Paused(9) \/ Below(9)
         /\ Below(11) => Paused(10) \/ Below(10)
         /\ Below(12) => Paused(11) \/ Below(11)
         /\ Below(13) => Paused(12) \/ Below(12)
         /\ Below(14) => Paused(13) \/ Below(13)
         /\ Below(15) => Paused(14) \/ Below(14)
         /\ Below(16) => Paused(15) \/ Below(15)
         /\ BacklogInv /\ FewFaults /\ UpAt("detectPause") => Paused(16) \/ Below(16)
  BY <1>18 DEF Paused, Below, UpAt
<1>. QED
  BY <1>1, <1>2, <1>3, <1>4, <1>5, <1>6, <1>7, <1>8, <1>9, <1>10, <1>11,
     <1>12, <1>13, <1>14, <1>15, <1>16, <1>17, <1>19, PTL DEF Runs, Leaves, Shrinks

\* From the top of the loop to the storage check,
LEMMA LoopToStorage ==
    Runs => (\/ UpAt("loop") \/ UpAt("detect") \/ UpAt("detectSame") \/ UpAt("detectStart") \/ UpAt("detectPause")
             \/ UpAt("noNetStop") \/ UpAt("switchStop") \/ UpAt("switchStart"))
              ~> (UpAt("storage") \/ ~Alive)
<1>0. /\ "loop" \in Plain /\ "detect" \in Plain /\ "detectSame" \in Plain /\ "detectStart" \in Plain
      /\ "switchStart" \in Plain /\ "noNetStop" \in StopPCs /\ "switchStop" \in StopPCs
  BY DEF Plain, PCs, StopPCs, UploadPCs
<1>1. Runs => Leaves("loop")
  BY <1>0, PlainLeft
<1>2. Runs => Leaves("detect")
  BY <1>0, PlainLeft
<1>3. Runs => Leaves("detectSame")
  BY <1>0, PlainLeft
<1>4. Runs => Leaves("switchStart")
  BY <1>0, PlainLeft
<1>5. Runs => Leaves("noNetStop")
  BY <1>0, StopLeft
<1>6. Runs => Leaves("switchStop")
  BY <1>0, StopLeft
<1>8. Runs => Leaves("detectStart")
  BY <1>0, PlainLeft
<1>7. /\ GoneOn("loop") => ~Alive \/ UpAt("detect")
      /\ GoneOn("detect") =>
           ~Alive \/ UpAt("detectSame") \/ UpAt("noNetStop") \/ UpAt("switchStop")
      /\ GoneOn("detectSame") => ~Alive \/ UpAt("detectStart") \/ UpAt("storage")
      /\ GoneOn("detectStart") => ~Alive \/ UpAt("detectPause") \/ UpAt("storage")
      /\ GoneOn("detectPause") => ~Alive \/ UpAt("storage")
      /\ GoneOn("noNetStop") => ~Alive \/ UpAt("storage")
      /\ GoneOn("switchStop") => ~Alive \/ UpAt("switchStart")
      /\ GoneOn("switchStart") => ~Alive \/ UpAt("storage")
  BY DEF GoneOn, After, UpAt
<1>. QED
  BY <1>1, <1>2, <1>3, <1>4, <1>5, <1>6, <1>7, <1>8, PauseLeft, PTL DEF Leaves

\* from there to the decision whether to upload,
LEMMA StorageToUpload ==
    Runs => (\/ UpAt("storage") \/ UpAt("storageStop") \/ UpAt("storageStopOthers")
             \/ UpAt("storageStart") \/ UpAt("storageOthers")
             \/ UpAt("psmn") \/ UpAt("uploadCheck") \/ UpAt("config") \/ UpAt("decide"))
              ~> (UpAt("upStop") \/ UpAt("sleep") \/ ~Alive)
<1>0. /\ "storage" \in Plain /\ "storageStop" \in StopPCs /\ "storageStopOthers" \in Plain
      /\ "storageStart" \in Plain /\ "storageOthers" \in Plain /\ "psmn" \in Plain
      /\ "uploadCheck" \in Plain /\ "config" \in Plain /\ "decide" \in Plain
  BY DEF Plain, PCs, StopPCs, UploadPCs
<1>1. Runs => Leaves("storage")
  BY <1>0, PlainLeft
<1>2. Runs => Leaves("storageStop")
  BY <1>0, StopLeft
<1>3. Runs => Leaves("storageStopOthers")
  BY <1>0, PlainLeft
<1>4. Runs => Leaves("storageOthers")
  BY <1>0, PlainLeft
<1>5. Runs => Leaves("psmn")
  BY <1>0, PlainLeft
<1>6. Runs => Leaves("uploadCheck")
  BY <1>0, PlainLeft
<1>7. Runs => Leaves("config")
  BY <1>0, PlainLeft
<1>8. Runs => Leaves("decide")
  BY <1>0, PlainLeft
<1>10. Runs => Leaves("storageStart")
  BY <1>0, PlainLeft
<1>9. /\ GoneOn("storage") => ~Alive \/ UpAt("psmn") \/ UpAt("storageStop")
                             \/ UpAt("storageStart") \/ UpAt("storageOthers")
      /\ GoneOn("storageStart") => ~Alive \/ UpAt("storageOthers")
      /\ GoneOn("storageStop") => ~Alive \/ UpAt("storageStopOthers")
      /\ GoneOn("storageStopOthers") => ~Alive \/ UpAt("psmn")
      /\ GoneOn("storageOthers") => ~Alive \/ UpAt("psmn")
      /\ GoneOn("psmn") => ~Alive \/ UpAt("uploadCheck")
      /\ GoneOn("uploadCheck") => ~Alive \/ UpAt("config") \/ UpAt("sleep")
      /\ GoneOn("config") => ~Alive \/ UpAt("decide")
      /\ GoneOn("decide") => ~Alive \/ UpAt("upStop") \/ UpAt("sleep")
  BY DEF GoneOn, After, UpAt
<1>. QED
  BY <1>1, <1>2, <1>3, <1>4, <1>5, <1>6, <1>7, <1>8, <1>9, <1>10, PTL DEF Leaves

\* through the preparation of an upload
LEMMA UploadPrepared ==
    Runs => (\/ UpAt("upStop") \/ UpAt("upStopOthers") \/ UpAt("upFlag") \/ UpAt("upList")
             \/ UpAt("upStart") \/ UpAt("upPsmn"))
              ~> (UpAt("upBattery") \/ ~Alive)
<1>0. /\ "upStop" \in StopPCs /\ "upStopOthers" \in Plain /\ "upFlag" \in Plain
      /\ "upList" \in Plain /\ "upStart" \in Plain /\ "upPsmn" \in Plain
  BY DEF Plain, PCs, StopPCs, UploadPCs
<1>1. Runs => Leaves("upStop")
  BY <1>0, StopLeft
<1>2. Runs => Leaves("upStopOthers")
  BY <1>0, PlainLeft
<1>3. Runs => Leaves("upFlag")
  BY <1>0, PlainLeft
<1>4. Runs => Leaves("upList")
  BY <1>0, PlainLeft
<1>5. Runs => Leaves("upStart")
  BY <1>0, PlainLeft
<1>6. Runs => Leaves("upPsmn")
  BY <1>0, PlainLeft
<1>7. /\ GoneOn("upStop") => ~Alive \/ UpAt("upStopOthers")
      /\ GoneOn("upStopOthers") => ~Alive \/ UpAt("upFlag")
      /\ GoneOn("upFlag") => ~Alive \/ UpAt("upList")
      /\ GoneOn("upList") => ~Alive \/ UpAt("upStart")
      /\ GoneOn("upStart") => ~Alive \/ UpAt("upPsmn")
      /\ GoneOn("upPsmn") => ~Alive \/ UpAt("upBattery")
  BY DEF GoneOn, After, UpAt
<1>. QED
  BY <1>1, <1>2, <1>3, <1>4, <1>5, <1>6, <1>7, PTL DEF Leaves

\* and the upload, which is made or left, to the sleep.
LEMMA UploadDone ==
    Runs => (\/ UpAt("upBattery") \/ UpAt("upSend") \/ UpAt("upClear") \/ UpAt("upLog")
             \/ UpAt("upRelease"))
              ~> (UpAt("sleep") \/ ~Alive)
<1>0. /\ "upBattery" \in Plain /\ "upSend" \in Plain /\ "upClear" \in Plain
      /\ "upLog" \in Plain /\ "upRelease" \in Plain
  BY DEF Plain, PCs, StopPCs, UploadPCs
<1>1. Runs => Leaves("upBattery")
  BY <1>0, PlainLeft
<1>2. Runs => Leaves("upSend")
  BY <1>0, PlainLeft
<1>3. Runs => Leaves("upClear")
  BY <1>0, PlainLeft
<1>4. Runs => Leaves("upLog")
  BY <1>0, PlainLeft
<1>5. Runs => Leaves("upRelease")
  BY <1>0, PlainLeft
<1>6. /\ GoneOn("upBattery") => ~Alive \/ UpAt("upSend") \/ UpAt("upClear") \/ UpAt("sleep")
      /\ GoneOn("upSend") => ~Alive \/ UpAt("upClear")
      /\ GoneOn("upClear") => ~Alive \/ UpAt("upLog")
      /\ GoneOn("upLog") => ~Alive \/ UpAt("upRelease")
      /\ GoneOn("upRelease") => ~Alive \/ UpAt("sleep")
  BY DEF GoneOn, After, UpAt
<1>. QED
  BY <1>1, <1>2, <1>3, <1>4, <1>5, <1>6, PTL DEF Leaves

\* However the phone, its user and the captures behave, the thread comes to the
\* sleep of its loop again, unless the process dies.
LEMMA SleepRecurs == Runs => []<>(UpAt("sleep") \/ ~Alive)
<1>1. TypeOK =>
        \/ \/ UpAt("loop") \/ UpAt("detect") \/ UpAt("detectSame") \/ UpAt("detectStart") \/ UpAt("detectPause")
           \/ UpAt("noNetStop") \/ UpAt("switchStop") \/ UpAt("switchStart")
        \/ \/ UpAt("storage") \/ UpAt("storageStop") \/ UpAt("storageStopOthers")
           \/ UpAt("storageStart") \/ UpAt("storageOthers") \/ UpAt("psmn")
           \/ UpAt("uploadCheck") \/ UpAt("config") \/ UpAt("decide")
        \/ \/ UpAt("upStop") \/ UpAt("upStopOthers") \/ UpAt("upFlag") \/ UpAt("upList")
           \/ UpAt("upStart") \/ UpAt("upPsmn")
        \/ \/ UpAt("upBattery") \/ UpAt("upSend") \/ UpAt("upClear") \/ UpAt("upLog")
           \/ UpAt("upRelease")
        \/ UpAt("sleep") \/ ~Alive
  BY DEF TypeOK, ThreadTypeOK, PCs, StopPCs, UploadPCs, UpAt, Alive
<1>2. Runs => []TypeOK
  BY PTL DEF Runs
<1>. QED
  BY <1>1, <1>2, LoopToStorage, StorageToUpload, UploadPrepared, UploadDone, PTL

\* A dead process is started again.
LEMMA ProcessComesBack ==
    [](TypeOK /\ NeverStuck) /\ [][Next]_vars /\ WF_vars(Restart)
        => (UpAt("dead") ~> UpAt("loop"))
<1>1. TypeOK /\ [Next]_vars /\ UpAt("dead") => UpAt("dead")' \/ UpAt("loop")'
  BY ThreadMoves, OthersMoves DEF UpAt, After
<1>2. <<Restart>>_vars => UpAt("loop")'
  BY DEF Restart, Goto, UpAt
<1>3. NeverStuck /\ UpAt("dead") => ENABLED <<Restart>>_vars
  BY DEF NeverStuck, UpAt
<1>. QED
  BY <1>1, <1>2, <1>3, PTL

\* All of it holds of the scheduler.  PollsPerStop has the value of the code: the
\* sleep of five seconds spans four polls.
LEMMA SchedulerRuns ==
    ASSUME PollsPerStop = 4
    PROVE  FairSpec /\ []NeverStuck /\ []FewFaults => Runs
<1>1. TypeOK => FourPolls
  BY DEF TypeOK, IMAPTypeOK, FourPolls
<1>. QED
  BY <1>1, TypeCorrect, BacklogCorrect, PTL DEF FairSpec, Spec, Fairness, Runs

\* The thread does not hang (run(), lines 351-416): whatever the phone, its user and the
\* captures do, it comes to the sleep of its loop again and again, unless the
\* process is dead again and again.  (GoesRound, for every network and all bounds.)
THEOREM ThreadGoesRound ==
    ASSUME PollsPerStop = 4
    PROVE  FairSpec /\ []NeverStuck /\ []FewFaults => GoesRound
<1>1. (UpAt("sleep") \/ ~Alive) => (pc = "sleep" \/ pc = "dead")
  BY DEF UpAt, Alive
<1>. QED
  BY <1>1, SchedulerRuns, SleepRecurs, PTL DEF GoesRound

Ended == pc \notin UploadPCs
LetGo == count = 0 /\ ~uploading
NothingOwed == lowReturns = 0 /\ timers = 0

\* UploadsLetGo for every network and all bounds.
THEOREM UploadsLetGoCorrect ==
    ASSUME PollsPerStop = 4
    PROVE  FairSpec /\ []NeverStuck /\ []FewFaults => UploadsLetGo
<1>1. /\ UpAt("loop") => Ended /\ Alive
      /\ UpAt("sleep") => Ended /\ Alive
      /\ ~Alive => UpAt("dead")
  BY DEF UpAt, Alive, Ended, UploadPCs
<1>2. Spec => [](Ended /\ Alive /\ NothingOwed => LetGo)
  <2>1. ( /\ TypeOK /\ HoldsAccounted /\ StaleUploadFlagFromLowBattery
          /\ Ended /\ Alive /\ NothingOwed )
        => LetGo
    <3>1. TypeOK /\ HoldsAccounted /\ Ended /\ NothingOwed => count = 0 /\ ~(lowReturns > 0)
      BY DEF HoldsAccounted, Ended, NothingOwed
    <3>. QED
      BY <3>1 DEF StaleUploadFlagFromLowBattery, Ended, Alive, LetGo
  <2>. QED
    BY <2>1, TypeCorrect, HoldsCorrect, UploadFlagCorrect, PTL
<1>3. FairSpec /\ []NeverStuck /\ []FewFaults => []<>(Ended /\ Alive)
  BY <1>1, SchedulerRuns, SleepRecurs, TypeCorrect, ProcessComesBack, PTL
     DEF FairSpec, Spec, Fairness
<1>4. UploadsLetGo <=> (<>[]NothingOwed => []<>LetGo)
  BY DEF UploadsLetGo, NothingOwed, LetGo
<1>. QED
  BY <1>2, <1>3, <1>4, PTL DEF FairSpec

-----------------------------------------------------------------------------
(* The passive monitoring service comes back. *)

\* The calls to the service that may wait for the main thread: each loop iteration
\* adds four at most, and the sleep lasts until they are made.
CallsAt(p) ==
    CASE p = "psmn" -> 1
      [] p \in {"uploadCheck", "config", "decide", "upStop", "upStopOthers"} -> 2
      [] p \in {"upFlag", "upList", "upStart", "upPsmn"} -> 3
      [] p \in {"upBattery", "upSend", "upClear", "upLog", "upRelease", "sleep"} -> 4
      [] OTHER -> 0

\* From its start in the loop to the sleep the service is wanted, but for the
\* part of upload() that has it stopped.
WantedPCs == {"uploadCheck", "config", "decide", "upStop", "upStopOthers",
              "upBattery", "upSend", "upClear", "upLog", "upRelease", "sleep"}

ServiceInv ==
    /\ pc \in WantedPCs => psmnWanted
    /\ Len(psmnQueue) <= CallsAt(pc)

LEMMA CallsType ==
    ASSUME ServiceTypeOK
    PROVE  /\ psmnQueue \in Seq({"create", "destroy"}) /\ Len(psmnQueue) \in Nat
           /\ psmnUp \in BOOLEAN
           /\ psmnQueue = <<>> <=> Len(psmnQueue) = 0
           /\ psmnQueue # <<>> => psmnQueue[Len(psmnQueue)] \in {"create", "destroy"}
  BY DEF ServiceTypeOK

LEMMA ServiceStarts ==
    ASSUME ServiceTypeOK, startPsmn
    PROVE  psmnWanted' /\ Len(psmnQueue') \in Nat /\ Len(psmnQueue') <= Len(psmnQueue) + 1
<1>1. CASE psmnWanted
  BY <1>1, CallsType DEF startPsmn, psmnWanted
<1>2. CASE ~psmnWanted
  <2>1. psmnQueue' = Append(psmnQueue, "create")
    BY <1>2 DEF startPsmn
  <2>2. psmnQueue' # <<>> /\ Len(psmnQueue') = Len(psmnQueue) + 1
        /\ psmnQueue'[Len(psmnQueue')] = "create"
    BY <2>1, CallsType
  <2>. QED
    BY <2>2, CallsType DEF psmnWanted
<1>. QED
  BY <1>1, <1>2

LEMMA ServiceStops ==
    ASSUME ServiceTypeOK, stopPsmn
    PROVE  Len(psmnQueue') \in Nat /\ Len(psmnQueue') <= Len(psmnQueue) + 1
<1>1. psmnQueue' = psmnQueue \/ psmnQueue' = Append(psmnQueue, "destroy")
  BY DEF stopPsmn
<1>. QED
  BY <1>1, CallsType

LEMMA TailLast ==
    ASSUME NEW S, NEW q \in Seq(S), Len(q) > 1
    PROVE  Tail(q) # <<>> /\ Tail(q)[Len(Tail(q))] = q[Len(q)]
<1>1. /\ Len(q) \in Nat
      /\ Len(q) > 0 => /\ Tail(q) \in Seq(S) /\ Len(Tail(q)) = Len(q) - 1
                       /\ \A i \in 1..(Len(q) - 1) : Tail(q)[i] = q[i + 1]
  OBVIOUS
<1>2. Len(q) - 1 \in 1..(Len(q) - 1) /\ (Len(q) - 1) + 1 = Len(q)
  BY <1>1
<1>3. Len(Tail(q)) = Len(q) - 1 /\ Tail(q)[Len(q) - 1] = q[Len(q)]
  BY <1>1, <1>2
<1>4. Tail(q) \in Seq(S) /\ Len(Tail(q)) > 0
  BY <1>1, <1>3
<1>5. Tail(q) # <<>>
  BY <1>1, <1>4, PipeFacts
<1>. QED
  BY <1>3, <1>5

LEMMA ServiceCalled ==
    ASSUME ServiceTypeOK, PsmnCallback
    PROVE  psmnWanted' = psmnWanted /\ Len(psmnQueue') = Len(psmnQueue) - 1
<1>1. psmnQueue # <<>> /\ psmnQueue' = Tail(psmnQueue)
  BY DEF PsmnCallback
<1>0. psmnQueue \in Seq({"create", "destroy"})
  BY CallsType
<1>5. Len(psmnQueue) \in Nat /\ Len(psmnQueue) # 0
  BY <1>1, CallsType
<1>6. \A n \in Nat : n # 0 /\ n # 1 => n > 1
  OBVIOUS
<1>2. Len(psmnQueue') = Len(psmnQueue) - 1
  BY <1>1, CallsType
<1>3. CASE Len(psmnQueue) = 1
  <2>1. psmnQueue' = <<>> /\ Head(psmnQueue) = psmnQueue[Len(psmnQueue)]
    BY <1>1, <1>3, CallsType
  <2>. QED
    BY <1>1, <2>1 DEF PsmnCallback, psmnWanted
<1>4. CASE Len(psmnQueue) # 1
  <2>1. psmnQueue' # <<>> /\ psmnQueue'[Len(psmnQueue')] = psmnQueue[Len(psmnQueue)]
    <3>1. Len(psmnQueue) > 1
      BY <1>4, <1>5, <1>6
    <3>2. /\ Tail(psmnQueue) # <<>>
          /\ Tail(psmnQueue)[Len(Tail(psmnQueue))] = psmnQueue[Len(psmnQueue)]
      BY <1>0, <3>1, TailLast
    <3>. QED
      BY <1>1, <3>2
  <2>. QED
    BY <1>1, <2>1 DEF psmnWanted
<1>. QED
  BY <1>2, <1>3, <1>4

\* A place of the thread that does not call the service asks for no less than the one before.
LEMMA ServiceAfter ==
    ASSUME NEW p \in PCs, NEW q, After(p, q), p \notin {"psmn", "upPsmn", "sleep"}
    PROVE  CallsAt(p) <= CallsAt(q) /\ (q \in WantedPCs => p \in WantedPCs)
  BY DEF After, CallsAt, WantedPCs

LEMMA ServiceStep == TypeOK /\ ServiceInv /\ [Next]_vars => ServiceInv'
<1>. SUFFICES ASSUME TypeOK, ServiceInv, [Next]_vars PROVE ServiceInv'
  OBVIOUS
<1>0. ServiceTypeOK /\ Len(psmnQueue) \in Nat /\ pc \in PCs
  BY CallsType DEF TypeOK, ThreadTypeOK
<1>1. ASSUME pc' = "dead", psmnQueue' = <<>> PROVE ServiceInv'
  BY <1>1 DEF ServiceInv, WantedPCs, CallsAt
<1>2. ASSUME UNCHANGED <<pc, psmnUp, psmnQueue>> PROVE ServiceInv'
  BY <1>2 DEF ServiceInv, psmnWanted
<1>3. ASSUME ThreadStep, UNCHANGED psmnVars, pc' # "dead", pc \notin {"psmn", "upPsmn", "sleep"}
      PROVE  ServiceInv'
  <2>1. After(pc, pc')
    BY <1>3, ThreadMoves
  <2>2. CallsAt(pc) <= CallsAt(pc') /\ (pc' \in WantedPCs => pc \in WantedPCs)
    BY <1>0, <1>3, <2>1, ServiceAfter
  <2>3. CallsAt(pc) \in Int /\ CallsAt(pc') \in Int
    BY DEF CallsAt
  <2>4. UNCHANGED <<psmnUp, psmnQueue>>
    BY <1>3 DEF psmnVars
  <2>. QED
    BY <1>0, <2>2, <2>3, <2>4 DEF ServiceInv, psmnWanted
<1>4. CASE ThreadStep
  <2>. USE DEF Goto, psmnVars
  <2>1. CASE LoopHead \/ Detect \/ DetectSame \/ DetectStart \/ DetectPause \/ StopReturns
             \/ SwitchStart \/ StorageCheck \/ StorageStart \/ UploadCheck \/ Decide
    <3>1. pc' # "dead"
      BY <2>1 DEF LoopHead, Detect, DetectSame, DetectStart, DetectPause, StopReturns, StopPCs,
         SwitchStart, StorageCheck, StorageStart, UploadCheck, Decide
    <3>. QED
      BY <1>3, <1>4, <2>1, <3>1 DEF LoopHead, Detect, DetectSame, DetectStart, DetectPause,
         StopReturns, StopPCs, SwitchStart, StorageCheck, StorageStart, UploadCheck, Decide
  <2>2. CASE StorageStopOthers \/ UploadStopOthers
    BY <1>0, <2>2, ServiceStops DEF StorageStopOthers, UploadStopOthers, ServiceInv, CallsAt,
       WantedPCs
  <2>3. CASE StorageOthers
    BY <1>0, <2>3, ServiceStarts DEF StorageOthers, ServiceInv, CallsAt, WantedPCs
  <2>4. CASE StartPassiveMonitoring
    BY <1>0, <2>4, ServiceStarts DEF StartPassiveMonitoring, ServiceInv, CallsAt, WantedPCs
  <2>5. CASE UploadRestartPsmn
    BY <1>0, <2>5, ServiceStarts DEF UploadRestartPsmn, ServiceInv, CallsAt, WantedPCs
  <2>6. CASE Sleep
    BY <1>0, <2>6, CallsType DEF Sleep, ServiceInv, CallsAt, WantedPCs
  <2>7. CASE Config
    BY <1>1, <1>3, <1>4, <2>7 DEF Config, processDies, memoryLost
  <2>8. CASE UploadSend
    BY <1>1, <1>3, <1>4, <2>8 DEF UploadSend, processDies, memoryLost
  <2>9. CASE UploadSetFlag \/ UploadListIMAP \/ UploadRestartIMAP
    BY <1>3, <1>4, <2>9 DEF UploadSetFlag, UploadListIMAP, UploadRestartIMAP
  <2>10. CASE UploadNothing \/ UploadGoesOn \/ UploadLowBattery \/ UploadClearFlag
              \/ UploadRestartTracing \/ UploadRelease
    BY <1>3, <1>4, <2>10 DEF UploadNothing, UploadGoesOn, UploadLowBattery, UploadClearFlag,
       UploadRestartTracing, UploadRelease
  <2>. QED
    BY <1>4, <2>1, <2>2, <2>3, <2>4, <2>5, <2>6, <2>7, <2>8, <2>9, <2>10 DEF ThreadStep
<1>5. CASE PsmnCallback
  <2>1. pc' = pc
    BY <1>5 DEF PsmnCallback, threadVars
  <2>2. CallsAt(pc) \in Int
    BY DEF CallsAt
  <2>. QED
    BY <1>0, <1>5, <2>1, <2>2, ServiceCalled DEF ServiceInv
<1>6. CASE ScreenOff \/ ScreenOn \/ TimedAcquire \/ ProbeCheck \/ ProbeDeclined
           \/ (\E t \in Tests : ProbeStart(t)) \/ TestStep \/ TimerReleases
           \/ NetworkChanges \/ IntervalPasses \/ UNCHANGED vars
  BY <1>2, <1>6 DEF TestStep, ScreenOff, ScreenOn, ProbeCheck, ProbeDeclined, ProbeStart,
     TimedAcquire, TestBegins, TestEnds, TimerReleases, NetworkChanges, IntervalPasses,
     threadVars, psmnVars, vars
<1>7. CASE ShellReads \/ ShellCaptureEnds \/ ShellPoll
  BY <1>2, <1>7 DEF ShellReads, ShellCaptureEnds, ShellPoll, besidesShells, psmnVars
<1>8. CASE Killed \/ Reboots
  BY <1>1, <1>8 DEF Killed, processDies, Reboots, memoryLost
<1>9. CASE Restart
  BY <1>0, <1>9 DEF Restart, Goto, psmnVars, ServiceInv, CallsAt, WantedPCs
<1>. QED
  BY <1>4, <1>5, <1>6, <1>7, <1>8, <1>9 DEF Next, MainStep

LEMMA ServiceCorrect == Spec => []ServiceInv
<1>1. Init => ServiceInv
  BY DEF Init, ServiceInv, WantedPCs, CallsAt
<1>. QED
  BY <1>1, ServiceStep, TypeCorrect, PTL DEF Spec

\* In the sleep of the loop, with n calls to the service still to be made.
Waiting(n) == pc = "sleep" /\ Len(psmnQueue) = n
Serves(n) == Waiting(n) ~> Waiting(n - 1) \/ ~Alive
ProbeEnds == ProbeDeclined \/ \E t \in Tests : ProbeStart(t)
ProbeIdle == probe = "idle"
CallsRun ==
    /\ [](TypeOK /\ NeverStuck)
    /\ [][Next]_vars
    /\ SF_vars(PsmnCallback) /\ WF_vars(ProbeEnds)

LEMMA WaitingMoves ==
    ASSUME TypeOK, [Next]_vars, NEW n \in 1..4, Waiting(n)
    PROVE  /\ Waiting(n)' \/ Waiting(n - 1)' \/ ~Alive'
           /\ PsmnCallback => ~Waiting(n)'
<1>0. ServiceTypeOK /\ UpAt("sleep") /\ "sleep" \in PCs
  BY DEF Waiting, TypeOK, UpAt, PCs
<1>1. CASE PsmnCallback
  <2>1. Len(psmnQueue') = n - 1 /\ pc' = "sleep"
    BY <1>0, <1>1, ServiceCalled DEF Waiting, PsmnCallback, threadVars
  <2>2. n # n - 1
    OBVIOUS
  <2>. QED
    BY <2>1, <2>2 DEF Waiting
<1>2. CASE ThreadStep
  <2>1. psmnQueue # <<>>
    BY <1>0, CallsType DEF Waiting
  <2>. QED
    BY <1>2, <2>1, ThreadAt DEF Waiting, Sleep
<1>3. CASE ScreenOff \/ ScreenOn \/ TimedAcquire \/ ProbeCheck \/ ProbeEnds
           \/ TestStep \/ TimerReleases \/ NetworkChanges \/ IntervalPasses \/ UNCHANGED vars
  BY <1>1, <1>3 DEF Waiting, ProbeEnds, TestStep, ScreenOff, ScreenOn, ProbeCheck, ProbeDeclined,
     ProbeStart, TimedAcquire, TestBegins, TestEnds, TimerReleases, NetworkChanges,
     IntervalPasses, threadVars, psmnVars, vars
<1>4. CASE ShellReads \/ ShellCaptureEnds \/ ShellPoll
  BY <1>1, <1>4 DEF Waiting, ShellReads, ShellCaptureEnds, ShellPoll, besidesShells, psmnVars
<1>5. CASE Killed \/ Reboots
  BY <1>1, <1>5 DEF Killed, processDies, Reboots, memoryLost, Alive
<1>6. CASE Restart
  BY <1>6 DEF Restart, Goto, Waiting
<1>. QED
  BY <1>1, <1>2, <1>3, <1>4, <1>5, <1>6 DEF Next, MainStep, ProbeEnds

\* The main thread is not in onReceive for good.
LEMMA MainThreadFree == CallsRun => []<>ProbeIdle
<1>1. TypeOK => probe = "passed" \/ ProbeIdle
  BY DEF TypeOK, FlagTypeOK, ProbeIdle
<1>2. <<ProbeEnds>>_vars => ProbeIdle'
  BY DEF ProbeEnds, ProbeDeclined, ProbeStart, ProbeIdle
<1>3. NeverStuck /\ probe = "passed" => ENABLED <<ProbeEnds>>_vars
  BY DEF NeverStuck, ProbeEnds
<1>. QED
  BY <1>1, <1>2, <1>3, PTL DEF CallsRun

\* The calls are made one by one.
LEMMA CallMade ==
    ASSUME NEW n \in 1..4
    PROVE  CallsRun => Serves(n)
<1>1. TypeOK /\ [Next]_vars /\ Waiting(n) => Waiting(n)' \/ Waiting(n - 1)' \/ ~Alive'
  BY WaitingMoves
<1>2. TypeOK /\ <<PsmnCallback>>_vars /\ Waiting(n) => ~Waiting(n)'
  BY WaitingMoves DEF Next, MainStep
<1>3. TypeOK /\ NeverStuck /\ ProbeIdle /\ Waiting(n) => ENABLED <<PsmnCallback>>_vars
  <2>1. TypeOK /\ Waiting(n) => psmnQueue # <<>>
    BY CallsType DEF TypeOK, Waiting
  <2>2. ProbeIdle /\ Waiting(n) => mainFree
    BY DEF ProbeIdle, Waiting, mainFree
  <2>. QED
    BY <2>1, <2>2 DEF NeverStuck
<1>. QED
  BY <1>1, <1>2, <1>3, MainThreadFree, PTL DEF CallsRun, Serves

\* so that all of them are, if the thread sleeps on.
LEMMA CallsMade == CallsRun /\ []ServiceInv => (UpAt("sleep") ~> Waiting(0) \/ ~Alive)
<1>0. 1 \in 1..4 /\ 2 \in 1..4 /\ 3 \in 1..4 /\ 4 \in 1..4
  OBVIOUS
<1>1. CallsRun => Serves(1)
  BY <1>0, CallMade
<1>2. CallsRun => Serves(2)
  BY <1>0, CallMade
<1>3. CallsRun => Serves(3)
  BY <1>0, CallMade
<1>4. CallsRun => Serves(4)
  BY <1>0, CallMade
<1>5. TypeOK /\ ServiceInv /\ UpAt("sleep") =>
        Waiting(0) \/ Waiting(1) \/ Waiting(2) \/ Waiting(3) \/ Waiting(4)
  <2>. SUFFICES ASSUME TypeOK, ServiceInv, pc = "sleep"
                PROVE  Len(psmnQueue) \in 0..4
    BY DEF UpAt, Waiting
  <2>1. Len(psmnQueue) \in Nat
    BY CallsType DEF TypeOK
  <2>2. CallsAt(pc) = 4
    BY DEF CallsAt
  <2>3. Len(psmnQueue) <= 4
    BY <2>2 DEF ServiceInv
  <2>4. \A n \in Nat : n <= 4 => n \in 0..4
    OBVIOUS
  <2>. QED
    BY <2>1, <2>3, <2>4
<1>6. /\ Waiting(1 - 1) => Waiting(0)
      /\ Waiting(2 - 1) => Waiting(1)
      /\ Waiting(3 - 1) => Waiting(2)
      /\ Waiting(4 - 1) => Waiting(3)
  BY DEF Waiting
<1>. QED
  BY <1>1, <1>2, <1>3, <1>4, <1>5, <1>6, PTL DEF CallsRun, Serves

LEMMA CallsOfScheduler == FairSpec /\ []NeverStuck => CallsRun /\ []ServiceInv
  BY TypeCorrect, ServiceCorrect, PTL DEF FairSpec, Spec, Fairness, ProbeEnds, CallsRun

\* MonitoringRecurs for every network and all bounds: as long as the process does
\* not keep dying, the service exists again and again, however often uploads
\* and critical storage stop it.
THEOREM MonitoringRecursCorrect ==
    ASSUME PollsPerStop = 4
    PROVE  FairSpec /\ []NeverStuck /\ []FewFaults /\ <>[](pc # "dead") => MonitoringRecurs
<1>1. TypeOK /\ ServiceInv /\ Waiting(0) => psmnUp
  BY CallsType DEF TypeOK, ServiceInv, Waiting, WantedPCs, psmnWanted
<1>2. FairSpec /\ []NeverStuck /\ []FewFaults => []<>(UpAt("sleep") \/ ~Alive)
  BY SchedulerRuns, SleepRecurs, PTL
<1>3. FairSpec /\ []NeverStuck /\ []FewFaults /\ <>[]Alive => []<>psmnUp
  BY <1>1, <1>2, TypeCorrect, ServiceCorrect, CallsMade, CallsOfScheduler, PTL DEF FairSpec
<1>. QED
  BY <1>3, PTL DEF Alive, MonitoringRecurs

-----------------------------------------------------------------------------
(* The captures come back. *)

\* A start leaves the commands of a shell in its pipe, and adds its own if it
\* does not fail.
LEMMA StartKeeps ==
    ASSUME IMAPTypeOK, NEW t \in IfaceType \cup {NoType}, NEW named,
           startCollectingIMAPData(t, named)
    PROVE  /\ UNCHANGED run
           /\ \A s \in Shells : pipe[s] # <<>> => pipe'[s] # <<>>
           /\ t # NoType /\ named /\ NoCallFails => pipe'["app"] # <<>>
<1>1. "app" \in Shells /\ pipe \in [Shells -> Seq(IfaceType)]
  BY DEF IMAPTypeOK, Shells
<1>2. CASE t # NoType /\ named /\ pipe' = [pipe EXCEPT !["app"] = Append(@, t)]
  <2>1. pipe["app"] \in Seq(IfaceType) /\ t \in IfaceType
    BY <1>1, <1>2
  <2>2. Append(pipe["app"], t) # <<>>
    <3>1. /\ Len(Append(pipe["app"], t)) > 0
          /\ Append(pipe["app"], t) \in Seq(IfaceType)
      BY <2>1, PipeFacts
    <3>. QED
      BY <3>1, PipeFacts
  <2>3. pipe' = [pipe EXCEPT !["app"] = Append(pipe["app"], t)] /\ run' = run
    BY <1>2 DEF startCollectingIMAPData
  <2>. QED
    BY <1>1, <2>2, <2>3
<1>3. CASE pipe' = pipe /\ (t # NoType /\ named => callFails(FALSE))
  <2>1. callFails(FALSE) => ~NoCallFails
    BY DEF callFails, NoCallFails, IMAPTypeOK
  <2>. QED
    BY <1>3, <2>1 DEF startCollectingIMAPData
<1>. QED
  BY <1>2, <1>3 DEF startCollectingIMAPData

\* The thread never takes a command back.
LEMMA ThreadKeeps ==
    ASSUME TypeOK, ThreadStep, pc' # "dead"
    PROVE  /\ UNCHANGED run
           /\ \A s \in Shells : pipe[s] # <<>> => pipe'[s] # <<>>
<1>. USE DEF Goto
<1>0. IMAPTypeOK /\ cur \in IfaceType \cup {NoType}
  BY DEF TypeOK, ThreadTypeOK
<1>1. CASE Detect \/ DetectSame \/ StopReturns \/ StorageCheck \/ Decide
  BY <1>1 DEF Detect, DetectSame, StopReturns, StorageCheck, Decide, beginStop, endStop,
     isIMAPCollectorRunning, imapVars, shellVars
<1>2. CASE DetectStart \/ SwitchStart
  BY <1>0, <1>2, StartKeeps DEF DetectStart, SwitchStart
<1>3. CASE StorageStart \/ UploadRestartIMAP
  BY <1>0, <1>3, StartKeeps, TypeOfType DEF StorageStart, UploadRestartIMAP
<1>4. CASE LoopHead \/ DetectPause \/ StorageStopOthers \/ StorageOthers
           \/ StartPassiveMonitoring \/ UploadCheck \/ Sleep
  BY <1>4 DEF LoopHead, DetectPause, StorageStopOthers, StorageOthers,
     StartPassiveMonitoring, UploadCheck, Sleep, imapVars, shellVars
<1>5. CASE UploadStopOthers \/ UploadSetFlag \/ UploadListIMAP \/ UploadRestartPsmn
           \/ UploadNothing \/ UploadGoesOn \/ UploadLowBattery
           \/ UploadClearFlag \/ UploadRestartTracing \/ UploadRelease
  BY <1>5 DEF UploadStopOthers, UploadSetFlag, UploadListIMAP, UploadRestartPsmn,
     UploadNothing, UploadGoesOn, UploadLowBattery, UploadClearFlag,
     UploadRestartTracing, UploadRelease, imapVars, shellVars
<1>6. CASE Config \/ UploadSend
  BY <1>6 DEF Config, UploadSend, processDies, memoryLost, imapVars, shellVars
<1>. QED
  BY <1>1, <1>2, <1>3, <1>4, <1>5, <1>6 DEF ThreadStep

\* The process lives, on a network of type t, without a capture, and no upload is flagged.
Bad(t) == Alive /\ TypeOf(net) = t /\ ~Capturing /\ ~uploading

\* Then a command in a pipe stays there until its shell reads it.
LEMMA CommandWaits ==
    ASSUME NEW t, TypeOK, [Next]_vars, Bad(t), Bad(t)', ~Settled
    PROVE  ~Settled' /\ ~ShellReads
<1>1. /\ \A s \in Shells : run[s] = NoType /\ run'[s] = NoType
      /\ pc # "dead" /\ pc' # "dead"
  BY DEF Bad, Alive, Capturing
<1>2. PICK s \in Shells : pipe[s] # <<>>
  BY DEF Settled
<1>3. /\ \A r \in Shells : pipe[r] \in Seq(IfaceType)
      /\ run \in [Shells -> IfaceType \cup {NoType}]
  BY DEF TypeOK, IMAPTypeOK
<1>4. \A r \in Shells : pipe[r] # <<>> => Head(pipe[r]) # NoType
  BY <1>3, PipeFacts DEF IfaceType, NoType, WifiType, CellType
<1>5. ~ShellReads
  BY <1>1, <1>3, <1>4 DEF ShellReads, ShellReadsCommand
<1>6. ~ShellPoll
  BY <1>1, <1>2, <1>4 DEF ShellPoll, PollPeriod
<1>7. ~ShellCaptureEnds
  BY <1>1 DEF ShellCaptureEnds, CaptureEnds
<1>8. CASE ThreadStep
  BY <1>1, <1>2, <1>5, <1>8, ThreadKeeps DEF Settled
<1>9. CASE ~ThreadStep
  <2>1. UNCHANGED pipe
    BY <1>1, <1>5, <1>6, <1>7, <1>9 DEF Next, MainStep, TestStep, ScreenOff, ScreenOn,
       PsmnCallback, ProbeCheck, ProbeDeclined, ProbeStart, TimedAcquire, TestBegins, TestEnds,
       TimerReleases, NetworkChanges, IntervalPasses, imapVars, shellVars, vars, Killed, processDies,
       Reboots, memoryLost, Restart, Goto
  <2>. QED
    BY <1>1, <1>2, <1>5, <2>1 DEF Settled
<1>. QED
  BY <1>8, <1>9

\* Its shells have read all they were given,
Starves(t) == []Bad(t)
AllSettled == []Settled
LEMMA CommandsRead ==
    ASSUME NEW t \in IfaceType
    PROVE  Runs /\ Starves(t) => AllSettled
<1>1. TypeOK /\ [Next]_vars /\ Bad(t) /\ Bad(t)' /\ ~Settled => ~Settled'
  BY CommandWaits
<1>2. TypeOK /\ <<ShellReads>>_vars /\ Bad(t) /\ Bad(t)' => Settled
  BY CommandWaits DEF Next
<1>3. NeverStuck /\ ~Settled => ENABLED <<ShellReads>>_vars
  BY DEF NeverStuck
<1>. QED
  BY <1>1, <1>2, <1>3, PTL DEF Runs, Starves, AllSettled

\* so that no pipe holds a command, and none gets one.
Idle(t) == Bad(t) /\ Settled

\* The thread is at place p of detect, and has seen the network.
Sees(p, t) == pc = p /\ cur = t

\* It goes on to a start of the capture, but cannot make it.
LEMMA SeesNetwork ==
    ASSUME NEW t \in IfaceType, TypeOK, [Next]_vars, [NoCallFails]_vars, Idle(t), Idle(t)'
    PROVE  /\ UpAt("detect") =>
                UpAt("detect")' \/ Sees("detectSame", t)' \/ Sees("switchStop", t)'
           /\ Sees("detectSame", t) => Sees("detectSame", t)' \/ Sees("detectStart", t)'
           /\ Sees("detectStart", t) => Sees("detectStart", t)'
           /\ Sees("switchStop", t) => Sees("switchStop", t)' \/ Sees("switchStart", t)'
           /\ Sees("switchStart", t) => Sees("switchStart", t)'
<1>0. /\ TypeOf(net) = t /\ t # NoType /\ ~Capturing /\ ~uploading
      /\ pc # "dead" /\ pc' # "dead" /\ IMAPTypeOK /\ "app" \in Shells
  BY DEF Idle, Bad, Alive, TypeOK, IfaceType, NoType, WifiType, CellType, Shells
<1>1. pipe'["app"] = <<>>
  BY <1>0 DEF Idle, Bad, Settled, Capturing
<1>5. NoCallFails
  BY DEF NoCallFails, vars, imapVars, failVars
<1>2. ASSUME NEW named \in Named(t), startCollectingIMAPData(t, named) PROVE FALSE
  <2>1. named
    BY <1>0, <1>2 DEF Named
  <2>. QED
    BY <1>0, <1>1, <1>2, <1>5, <2>1, StartKeeps
<1>3. CASE ThreadStep
  <2>. USE DEF Goto, UpAt, Sees
  <2>1. CASE pc = "detect"
    BY <1>0, <1>3, <2>1, ThreadAt DEF Detect
  <2>2. CASE Sees("detectSame", t)
    BY <1>0, <1>3, <2>2, ThreadAt DEF DetectSame, isIMAPCollectorRunning, ifaceVars
  <2>5. CASE Sees("detectStart", t)
    BY <1>2, <1>3, <2>5, ThreadAt DEF DetectStart
  <2>3. CASE Sees("switchStop", t)
    BY <1>3, <2>3, ThreadAt DEF StopReturns, ifaceVars
  <2>4. CASE Sees("switchStart", t)
    BY <1>2, <1>3, <2>4, ThreadAt DEF SwitchStart
  <2>. QED
    BY <2>1, <2>2, <2>3, <2>4, <2>5
<1>4. CASE ~ThreadStep
  <2>1. UNCHANGED <<pc, cur>>
    BY <1>0, <1>4 DEF Next, MainStep, TestStep, ScreenOff, ScreenOn, PsmnCallback,
       ProbeCheck, ProbeDeclined, ProbeStart, TimedAcquire, TestBegins, TestEnds,
       TimerReleases, NetworkChanges, IntervalPasses, ifaceVars, threadVars, vars, Killed,
       processDies, Reboots, memoryLost, Restart, Goto, ShellReads, ShellCaptureEnds,
       ShellPoll, besidesShells
  <2>. QED
    BY <2>1 DEF UpAt, Sees
<1>. QED
  BY <1>3, <1>4

\* The sleep of the loop ends, if the shells are settled.
LEMMA SleepLeft == Runs /\ CallsRun /\ []ServiceInv /\ []Settled => Leaves("sleep")
<1>1. TypeOK /\ [Next]_vars /\ Waiting(0) => Waiting(0)' \/ GoneOn("sleep")'
  <2>. SUFFICES ASSUME TypeOK, [Next]_vars, Waiting(0), pc' = "sleep"
                PROVE  psmnQueue' = psmnQueue
    BY PlaceMoves DEF Waiting, UpAt, PCs
  <2>1. psmnQueue = <<>> /\ pc = "sleep" /\ ~ThreadStep
    BY CallsType, PlaceMoves DEF Waiting, UpAt, PCs, TypeOK
  <2>. QED
    BY <2>1 DEF Next, MainStep, TestStep, ScreenOff, ScreenOn, PsmnCallback, psmnVars,
       ProbeCheck, ProbeDeclined, ProbeStart, TimedAcquire, TestBegins, TestEnds,
       TimerReleases, NetworkChanges, IntervalPasses, vars, Killed, processDies, Reboots,
       memoryLost, Restart, Goto, ShellReads, ShellCaptureEnds, ShellPoll, besidesShells
<1>2. TypeOK /\ <<ThreadStep>>_vars /\ Waiting(0) => ~Waiting(0)'
  BY PlaceMoves DEF Waiting, UpAt, PCs, Next
<1>3. TypeOK /\ NeverStuck /\ Settled /\ Waiting(0) => ENABLED <<ThreadStep>>_vars
  BY CallsType DEF TypeOK, Waiting, NeverStuck, Awake, StopPCs
<1>4. ~Alive => GoneOn("sleep")
  BY DEF GoneOn
<1>. QED
  BY <1>1, <1>2, <1>3, <1>4, CallsMade, PTL DEF Runs, Leaves

\* A phone that stays on networks of type t, without a call that fails, does not
\* go without for good: the thread comes from its sleep to a start, at a place it cannot stay at.
LEMMA NoStarving ==
    ASSUME NEW t \in IfaceType
    PROVE  Runs /\ CallsRun /\ []ServiceInv /\ [][NoCallFails]_vars => ~Starves(t)
<1>0. /\ "loop" \in Plain /\ "detect" \in Plain /\ "detectSame" \in Plain
      /\ "detectStart" \in Plain
      /\ "switchStart" \in Plain /\ "switchStop" \in StopPCs
  BY DEF Plain, PCs, StopPCs, UploadPCs
<1>1. Runs => Leaves("loop")
  BY <1>0, PlainLeft
<1>2. Runs => Leaves("detect")
  BY <1>0, PlainLeft
<1>3. Runs => Leaves("detectSame")
  BY <1>0, PlainLeft
<1>4. Runs => Leaves("switchStart")
  BY <1>0, PlainLeft
<1>5. Runs => Leaves("switchStop")
  BY <1>0, StopLeft
<1>13. Runs => Leaves("detectStart")
  BY <1>0, PlainLeft
<1>6. /\ GoneOn("sleep") => ~Alive \/ UpAt("loop")
      /\ GoneOn("loop") => ~Alive \/ UpAt("detect")
      /\ GoneOn("detect") => ~UpAt("detect")
      /\ GoneOn("detectSame") => ~UpAt("detectSame")
      /\ GoneOn("detectStart") => ~UpAt("detectStart")
      /\ GoneOn("switchStop") => ~UpAt("switchStop")
      /\ GoneOn("switchStart") => ~UpAt("switchStart")
  BY DEF GoneOn, After, UpAt, Alive
<1>7. /\ Sees("detectSame", t) => UpAt("detectSame")
      /\ Sees("detectStart", t) => UpAt("detectStart")
      /\ Sees("switchStop", t) => UpAt("switchStop")
      /\ Sees("switchStart", t) => UpAt("switchStart")
      /\ Bad(t) => Alive
  BY DEF Sees, UpAt, Bad
<1>8. TypeOK /\ [Next]_vars /\ [NoCallFails]_vars /\ Idle(t) /\ Idle(t)' =>
        /\ UpAt("detect") =>
             UpAt("detect")' \/ Sees("detectSame", t)' \/ Sees("switchStop", t)'
        /\ Sees("detectSame", t) => Sees("detectSame", t)' \/ Sees("detectStart", t)'
        /\ Sees("detectStart", t) => Sees("detectStart", t)'
        /\ Sees("switchStop", t) => Sees("switchStop", t)' \/ Sees("switchStart", t)'
        /\ Sees("switchStart", t) => Sees("switchStart", t)'
  BY SeesNetwork
<1>9. Runs /\ Starves(t) => [](Idle(t) /\ TypeOK) /\ [][Next]_vars /\ []Settled
  BY CommandsRead, PTL DEF Runs, Starves, AllSettled, Idle
<1>10. [](Idle(t) /\ TypeOK) /\ [][Next]_vars /\ [][NoCallFails]_vars =>
         /\ [](UpAt("detect") =>
                 []UpAt("detect") \/ <>(Sees("detectSame", t) \/ Sees("switchStop", t)))
         /\ [](Sees("detectSame", t) => []UpAt("detectSame") \/ <>Sees("detectStart", t))
         /\ [](Sees("detectStart", t) => []UpAt("detectStart"))
         /\ [](Sees("switchStart", t) => []UpAt("switchStart"))
         /\ [](Sees("switchStop", t) => []UpAt("switchStop") \/ <>Sees("switchStart", t))
  BY <1>7, <1>8, PTL
<1>11. Runs /\ Starves(t) /\ [][NoCallFails]_vars => [](~UpAt("detect"))
  BY <1>2, <1>3, <1>4, <1>5, <1>6, <1>7, <1>9, <1>10, <1>13, PTL DEF Leaves, Starves
<1>12. Runs /\ CallsRun /\ []ServiceInv /\ Starves(t) => <>UpAt("detect")
  BY <1>1, <1>6, <1>7, <1>9, SleepRecurs, SleepLeft, PTL DEF Leaves, Starves
<1>. QED
  BY <1>11, <1>12, PTL

\* CaptureRecurs for every network and all bounds: as long as the process does
\* not keep dying and the calls of the collector do not keep failing, a phone that
\* stays on networks of one type captures again and again, or an upload is flagged.
THEOREM CaptureRecursCorrect ==
    ASSUME PollsPerStop = 4
    PROVE  FairSpec /\ []NeverStuck /\ []FewFaults /\ <>[](pc # "dead") => CaptureRecurs
<1>1. WifiType \in IfaceType /\ CellType \in IfaceType
  BY DEF IfaceType
<1>2. Runs /\ CallsRun /\ []ServiceInv /\ [][NoCallFails]_vars => ~Starves(WifiType)
  BY <1>1, NoStarving
<1>3. Runs /\ CallsRun /\ []ServiceInv /\ [][NoCallFails]_vars => ~Starves(CellType)
  BY <1>1, NoStarving
<1>4. /\ pc # "dead" /\ TypeOf(net) = WifiType /\ ~(Capturing \/ uploading)
           => Bad(WifiType)
      /\ pc # "dead" /\ TypeOf(net) = CellType /\ ~(Capturing \/ uploading)
           => Bad(CellType)
  BY DEF Bad, Alive
<1>5. FairSpec /\ []NeverStuck /\ []FewFaults => Runs /\ CallsRun /\ []ServiceInv
  BY SchedulerRuns, CallsOfScheduler, PTL
<1>6. Runs /\ CallsRun /\ []ServiceInv => [](Runs /\ CallsRun /\ []ServiceInv)
  BY PTL DEF Runs, CallsRun
<1>7. FairSpec /\ []NeverStuck /\ []FewFaults =>
        []([][NoCallFails]_vars => ~Starves(WifiType) /\ ~Starves(CellType))
  BY <1>2, <1>3, <1>5, <1>6, PTL
<1>. QED
  BY <1>4, <1>7, PTL DEF Starves, CaptureRecurs
=============================================================================
