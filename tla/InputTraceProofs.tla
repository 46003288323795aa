-------------------------- MODULE InputTraceProofs --------------------------
(* Proofs about InputTrace.                                                *)
EXTENDS InputTrace, TLAPS

Alive == Running \cup Starting

\* Where the two callers are, and what the history knows of them.
CallsInv ==
    /\ pc["main"] \in Inside \cup {"idle", "dead"} /\ pc["scheduler"] # "idle"
    /\ pc["main"] = "dead" <=> pc["scheduler"] = "dead"
    /\ crash.how # "none" => pc["main"] = "dead"
    /\ cause["main"] = "screen" /\ cause["scheduler"] # "screen"
    /\ pc["scheduler"] \in DoCapture => cause["scheduler"] # "upload"
    /\ \A c \in Caller : pc[c] \in Inside /\ pc[Other(c)] \in Inside => overlap[c]
    /\ \A c \in Caller : overlap[c] => excuse

\* The process took its threads and fields with it.
DeadInv ==
    pc["main"] = "dead" => /\ ssd = 0 /\ mprocs = "null"
                           /\ \A m \in Monitor : mon[m] = "none"

\* A caller that is alone finds the field as it left it.
FieldInv ==
    \A c \in Caller : ~overlap[c] =>
        /\ pc[c] \in {"tell", "forget"} => ssd # 0
        /\ pc[c] = "start" => ssd # 0 /\ mon[ssd] = "new"

\* A monitor between size() and get() has seen a list that was filled.
ListInv ==
    /\ mprocs # "null" \/ (\E c \in Caller : pc[c] = "fill") => reads >= 1
    /\ \A m \in Monitor : mon[m] = "get" => mprocs # "null" /\ (mprocs = "empty" => reads = 2)

\* Without an excuse the field is null unless a capture is alive that no shell
\* is about to kill, so that isRunning() answers for the monitor as well.
FieldOfCapture ==
    (ssd # 0 \/ \E c \in Caller : pc[c] = "new") => \E k \in Alive : k \notin kills
MonitorInv ==
    ~excuse =>
        /\ \A c \in Caller :
            /\ pc[c] \in {"clear", "fill", "collect", "new", "ps"} => ssd = 0
            /\ pc[c] = "forget" => mon[ssd] = "none" \/ ssd \in told
        /\ FieldOfCapture

\* From the stop of an upload to its end, what is alive will be killed or was
\* not seen or not killed by the stop.
UploadInv ==
    /\ pc["scheduler"] = "list" => Alive \subseteq kills \cup unseen
    /\ pc["scheduler"] = "take" => Alive \subseteq unseen
    /\ pc["scheduler"] # "take" => torn = {}

IInv ==
    /\ TypeOK /\ CallsInv /\ DeadInv /\ FieldInv /\ ListInv /\ CrashesExplained
    /\ MonitorInv /\ MonitorsReachable /\ UploadInv /\ UploadTearsUnseen

\* A call, a return and the end of the process keep the types of what they change.
LEMMA EnterType ==
  ASSUME TypeOK, NEW c \in Caller, NEW place \in Place, NEW why \in Cause, Enter(c, why, place)
  PROVE  /\ pc' \in [Caller -> Place] /\ cause' \in [Caller -> Cause]
         /\ overlap' \in [Caller -> BOOLEAN] /\ excuse' \in BOOLEAN
<1>1. pc' \in [Caller -> Place] /\ cause' \in [Caller -> Cause]
  BY DEF TypeOK, Enter
<1>2. overlap' \in [Caller -> BOOLEAN]
  <2>1. (pc[Other(c)] \in Inside) \in BOOLEAN
    OBVIOUS
  <2>2. \A b \in Caller : (overlap[b] \/ pc[b] \in Inside) \in BOOLEAN
    OBVIOUS
  <2> QED BY <2>1, <2>2 DEF Enter
<1>3. excuse' \in BOOLEAN
  BY DEF Enter
<1> QED BY <1>1, <1>2, <1>3

LEMMA ReturnsType ==
  ASSUME TypeOK, NEW c \in Caller, Returns(c)
  PROVE  /\ pc' \in [Caller -> Place] /\ cause' \in [Caller -> Cause]
         /\ overlap' \in [Caller -> BOOLEAN]
<1>1. pc' \in [Caller -> Place]
  BY DEF TypeOK, Returns, Place
<1>2. cause' \in [Caller -> Cause]
  BY DEF TypeOK, Returns, Cause
<1>3. overlap' \in [Caller -> BOOLEAN]
  BY DEF TypeOK, Returns
<1> QED BY <1>1, <1>2, <1>3

LEMMA DiesType ==
  ASSUME TypeOK, NEW why \in [how : {"none", "null", "twice", "list"}, by : Caller \cup {"none"}],
         Dies(why), dead' \in 0 .. MaxKills
  PROVE  TypeOK'
<1>1. /\ pc' \in [Caller -> Place] /\ cause' \in [Caller -> Cause]
      /\ storage' \in {"fine", "critical"} /\ ssd' \in Monitor \cup {0}
      /\ mon' \in [Monitor -> {"none", "new", "loop", "get"}]
      /\ mprocs' \in {"null", "empty", "full"}
  BY DEF TypeOK, Dies, Place
<1>2. /\ coll' \in [Capture -> {"none", "thread", "dir", "runs"}]
      /\ kills' \subseteq Running' /\ listed' = {} /\ unseen' = {} /\ torn' = {} /\ told' = {}
  BY DEF TypeOK, Dies, Running
<1>3. /\ screens' \in 0 .. MaxScreen /\ mishaps' \in 0 .. MaxMishaps /\ crash' = why /\ reads' \in 0 .. 2
  BY DEF TypeOK, Dies
<1>4. overlap' \in [Caller -> BOOLEAN] /\ excuse' \in BOOLEAN
  BY DEF TypeOK, Dies
<1> QED BY <1>1, <1>2, <1>3, <1>4 DEF TypeOK

\* The end of a capture takes it out of every set of captures.
LEMMA OverType ==
  ASSUME TypeOK, NEW k \in Capture, Over(k), mishaps' \in 0 .. MaxMishaps, excuse' \in BOOLEAN
  PROVE  TypeOK'
<1>1. /\ coll' \in [Capture -> {"none", "thread", "dir", "runs"}]
      /\ kills' \subseteq Running' /\ listed' \subseteq {l \in Capture : coll'[l] \in {"dir", "runs"}}
      /\ unseen' \subseteq Running' \cup Starting' /\ torn' \subseteq Running'
  BY DEF TypeOK, Over, Running, Starting
<1>2. /\ screens' \in 0 .. MaxScreen /\ dead' \in 0 .. MaxKills
      /\ UNCHANGED <<threads, storage, crash, overlap, reads>>
  BY DEF TypeOK, Over
<1> QED BY <1>1, <1>2 DEF TypeOK, threads, monitors

\* Mishaps are counted up to their bound.
LEMMA MishapType ==
  ASSUME TypeOK, NEW happens, Mishap(happens)
  PROVE  mishaps' \in 0 .. MaxMishaps
<1>1. MaxMishaps \in Nat
  BY InputTraceAssumption
<1> QED BY <1>1 DEF TypeOK, Mishap

\* Every step keeps the types.
LEMMA TypeStep ==
  ASSUME TypeOK, [Next]_vars
  PROVE  TypeOK'
<1> USE DEF TypeOK, Running, Starting, Place, Inside, Stopping, DoCapture, Caller,
    monitors, outside, threads, bounds, history
<1>1. ASSUME NEW c \in Caller, Tests(c)
      PROVE  TypeOK'
  BY <1>1 DEF Tests, Goes
<1>2. ASSUME NEW c \in Caller, Tells(c)
      PROVE  TypeOK'
  <2>1. CASE Crashes("null", c)
    <3>1. dead' \in 0 .. MaxKills
      BY <2>1 DEF Crashes
    <3> QED BY <1>2, <2>1, <3>1, DiesType DEF Crashes
  <2>2. CASE ~Crashes("null", c)
    BY <1>2, <2>2 DEF Tells, Goes
  <2> QED BY <2>1, <2>2
<1>3. ASSUME NEW c \in Caller, Forgets(c)
      PROVE  TypeOK'
  BY <1>3 DEF Forgets, Goes, Drop
<1>4. ASSUME NEW c \in Caller, Kills(c)
      PROVE  TypeOK'
  <2>1. /\ pc' \in [Caller -> Place] /\ cause' \in [Caller -> Cause]
        /\ overlap' \in [Caller -> BOOLEAN]
    BY <1>4, ReturnsType DEF Kills
  <2>2. PICK killed \in SUBSET Running :
          /\ Mishap(killed # Running)
          /\ kills' = kills \cup killed
          /\ unseen' = IF cause[c] = "upload" THEN Starting \cup (Running \ killed) ELSE unseen
    BY <1>4 DEF Kills
  <2>3. mishaps' \in 0 .. MaxMishaps
    BY <2>2, MishapType
  <2>4. kills' \subseteq Running' /\ unseen' \subseteq Running' \cup Starting'
    BY <1>4, <2>2 DEF Kills
  <2> QED BY <1>4, <2>1, <2>3, <2>4 DEF Kills
<1>5. ASSUME NEW c \in Caller, IsRunning(c)
      PROVE  TypeOK'
  <2>0. PICK answer \in BOOLEAN :
          /\ Mishap(~answer /\ Running # {})
          /\ IF answer THEN Returns(c) ELSE Goes(c, "clear")
          /\ excuse' = (excuse \/ (~answer /\ Running \cup Starting # {}))
    BY <1>5 DEF IsRunning
  <2>3. mishaps' \in 0 .. MaxMishaps /\ excuse' \in BOOLEAN
    BY <2>0, MishapType
  <2>1. CASE Returns(c)
    <3>1. /\ pc' \in [Caller -> Place] /\ cause' \in [Caller -> Cause]
          /\ overlap' \in [Caller -> BOOLEAN]
      BY <1>5, <2>1, ReturnsType
    <3> QED BY <1>5, <2>3, <3>1 DEF IsRunning
  <2>2. CASE Goes(c, "clear")
    <3>1. /\ pc' \in [Caller -> Place] /\ UNCHANGED <<cause, overlap>>
      BY <2>2 DEF Goes
    <3> QED BY <1>5, <2>3, <3>1 DEF IsRunning
  <2> QED BY <2>0, <2>1, <2>2
<1>6. ASSUME NEW c \in Caller, Clears(c)
      PROVE  TypeOK'
  BY <1>6 DEF Clears, Goes
<1>7. ASSUME NEW c \in Caller, Fills(c)
      PROVE  TypeOK'
  BY <1>7 DEF Fills, Goes
<1>8. ASSUME NEW c \in Caller, Collects(c)
      PROVE  TypeOK'
  BY <1>8 DEF Collects, Goes
<1>9. ASSUME NEW c \in Caller, News(c)
      PROVE  TypeOK'
  BY <1>9 DEF News, Goes, Drop
<1>10. ASSUME NEW c \in Caller, Starts(c)
      PROVE  TypeOK'
  <2>1. CASE \E how \in {"null", "twice"} : Crashes(how, c)
    <3>1. dead' \in 0 .. MaxKills
      BY <2>1 DEF Crashes
    <3> QED BY <1>10, <2>1, <3>1, DiesType DEF Crashes
  <2>2. CASE ~\E how \in {"null", "twice"} : Crashes(how, c)
    <3>1. /\ Returns(c) /\ mon' = [mon EXCEPT ![ssd] = "loop"] /\ ssd # 0
          /\ UNCHANGED <<told, ssd, mprocs, outside, crash, reads, excuse, unseen, torn>>
      BY <1>10, <2>2 DEF Starts
    <3>2. /\ pc' \in [Caller -> Place] /\ cause' \in [Caller -> Cause]
          /\ overlap' \in [Caller -> BOOLEAN]
      BY <1>10, <3>1, ReturnsType
    <3> QED BY <3>1, <3>2
  <2> QED BY <2>1, <2>2
<1>11. CASE Check
  <2>1. PICK place \in {"test", "isRunning"} : Enter("scheduler", "check", place)
    BY <1>11 DEF Check
  <2>2. place \in Place /\ "check" \in Cause /\ "scheduler" \in Caller
    BY DEF Cause
  <2>3. /\ pc' \in [Caller -> Place] /\ cause' \in [Caller -> Cause]
        /\ overlap' \in [Caller -> BOOLEAN] /\ excuse' \in BOOLEAN
    BY <2>1, <2>2, EnterType
  <2> QED BY <1>11, <2>3 DEF Check
<1>12. CASE UploadCheck
  <2>1. CASE Enter("scheduler", "upload", "test")
    <3>1. "test" \in Place /\ "upload" \in Cause /\ "scheduler" \in Caller
      BY DEF Cause
    <3>2. /\ pc' \in [Caller -> Place] /\ cause' \in [Caller -> Cause]
          /\ overlap' \in [Caller -> BOOLEAN] /\ excuse' \in BOOLEAN
      BY <2>1, <3>1, EnterType
    <3> QED BY <1>12, <3>2 DEF UploadCheck
  <2>2. CASE Goes("scheduler", "sleep") /\ UNCHANGED excuse
    BY <1>12, <2>2 DEF UploadCheck, Goes
  <2> QED BY <1>12, <2>1, <2>2 DEF UploadCheck
<1>13. CASE Lists
  BY <1>13 DEF Lists, Goes
<1>14. ASSUME NEW k \in Capture, Takes(k)
      PROVE  TypeOK'
  BY <1>14 DEF Takes
<1>15. CASE Leaves
  <2>1. "isRunning" \in Place /\ "restart" \in Cause /\ "scheduler" \in Caller
    BY DEF Cause
  <2>2. /\ pc' \in [Caller -> Place] /\ cause' \in [Caller -> Cause]
        /\ overlap' \in [Caller -> BOOLEAN] /\ excuse' \in BOOLEAN
    BY <1>15, <2>1, EnterType DEF Leaves
  <2> QED BY <1>15, <2>2 DEF Leaves
<1>16. CASE Wakes
  BY <1>16 DEF Wakes, Goes
<1>17. CASE Screen
  <2>1. PICK place \in {"test", "isRunning"} : Enter("main", "screen", place)
    BY <1>17 DEF Screen
  <2>2. screens' \in 0 .. MaxScreen
    BY <1>17, InputTraceAssumption DEF Screen
  <2>3. place \in Place /\ "screen" \in Cause /\ "main" \in Caller
    BY DEF Cause
  <2>4. /\ pc' \in [Caller -> Place] /\ cause' \in [Caller -> Cause]
        /\ overlap' \in [Caller -> BOOLEAN] /\ excuse' \in BOOLEAN
    BY <2>1, <2>3, EnterType
  <2> QED BY <1>17, <2>2, <2>4 DEF Screen
<1>18. ASSUME NEW m \in Monitor, Looks(m)
      PROVE  TypeOK'
  BY <1>18 DEF Looks
<1>19. ASSUME NEW m \in Monitor, Gets(m)
      PROVE  TypeOK'
  <2>1. CASE Crashes("list", "none")
    <3>1. dead' \in 0 .. MaxKills
      BY <2>1 DEF Crashes
    <3> QED BY <1>19, <2>1, <3>1, DiesType DEF Crashes
  <2>2. CASE ~Crashes("list", "none")
    BY <1>19, <2>2 DEF Gets
  <2> QED BY <2>1, <2>2
<1>20. ASSUME NEW m \in Monitor, Finishes(m)
      PROVE  TypeOK'
  BY <1>20 DEF Finishes
<1>21. ASSUME NEW k \in Capture, Proceeds(k)
      PROVE  TypeOK'
  BY <1>21 DEF Proceeds
<1>22. ASSUME NEW k \in Capture, KillArrives(k)
      PROVE  TypeOK'
  <2>1. mishaps' \in 0 .. MaxMishaps /\ excuse' \in BOOLEAN
    BY <1>22 DEF KillArrives
  <2> QED BY <1>22, <2>1, OverType DEF KillArrives
<1>23. ASSUME NEW k \in Capture, Fails(k)
      PROVE  TypeOK'
  <2>1. mishaps' \in 0 .. MaxMishaps
    BY <1>23, MishapType DEF Fails
  <2> QED BY <1>23, <2>1, OverType DEF Fails
<1>24. CASE Storage
  BY <1>24 DEF Storage
<1>25. CASE Killed
  <2>1. dead' \in 0 .. MaxKills
    BY <1>25, InputTraceAssumption DEF Killed
  <2> QED BY <1>25, <2>1, DiesType DEF Killed, NoCrash
<1>26. CASE Restart
  <2>1. /\ pc' \in [Caller -> Place] /\ cause' \in [Caller -> Cause] /\ crash' = NoCrash
        /\ reads' = 0 /\ UNCHANGED <<monitors, outside, unseen, torn>>
    BY <1>26 DEF Restart, Cause
  <2>2. overlap' \in [Caller -> BOOLEAN] /\ excuse' \in BOOLEAN
    BY <1>26 DEF Restart
  <2> QED BY <2>1, <2>2 DEF NoCrash
<1>27. CASE UNCHANGED vars
  BY <1>27 DEF vars
<1> QED BY <1>1, <1>2, <1>3, <1>4, <1>5, <1>6, <1>7, <1>8, <1>9, <1>10, <1>11, <1>12,
    <1>13, <1>14, <1>15, <1>16, <1>17, <1>18, <1>19, <1>20, <1>21, <1>22, <1>23, <1>24,
    <1>25, <1>26, <1>27 DEF Next, Calls, Loop, Upload

\* Where the callers are, and the history of their calls.
LEMMA CallsStep ==
  ASSUME TypeOK, CallsInv, [Next]_vars
  PROVE  CallsInv'
<1> USE DEF TypeOK, CallsInv, Place, Inside, Stopping, DoCapture, Caller, Cause, Other,
    monitors, outside, threads, bounds, history
<1>1. ASSUME NEW c \in Caller, Tests(c)
      PROVE  CallsInv'
  BY <1>1 DEF Tests, Goes
<1>2. ASSUME NEW c \in Caller, Tells(c)
      PROVE  CallsInv'
  BY <1>2 DEF Tells, Goes, Crashes, Dies, NoCrash
<1>3. ASSUME NEW c \in Caller, Forgets(c)
      PROVE  CallsInv'
  BY <1>3 DEF Forgets, Goes, Drop
<1>4. ASSUME NEW c \in Caller, Kills(c)
      PROVE  CallsInv'
  BY <1>4 DEF Kills, Returns
<1>5. ASSUME NEW c \in Caller, IsRunning(c)
      PROVE  CallsInv'
  BY <1>5 DEF IsRunning, Goes, Returns
<1>6. ASSUME NEW c \in Caller, Clears(c)
      PROVE  CallsInv'
  BY <1>6 DEF Clears, Goes
<1>7. ASSUME NEW c \in Caller, Fills(c)
      PROVE  CallsInv'
  BY <1>7 DEF Fills, Goes
<1>8. ASSUME NEW c \in Caller, Collects(c)
      PROVE  CallsInv'
  BY <1>8 DEF Collects, Goes
<1>9. ASSUME NEW c \in Caller, News(c)
      PROVE  CallsInv'
  BY <1>9 DEF News, Goes, Drop
<1>10. ASSUME NEW c \in Caller, Starts(c)
      PROVE  CallsInv'
  BY <1>10 DEF Starts, Returns, Crashes, Dies
<1>11. CASE Check
  BY <1>11 DEF Check, Enter
<1>12. CASE UploadCheck
  <2>1. CASE Enter("scheduler", "upload", "test")
    BY <1>12, <2>1 DEF UploadCheck, Enter
  <2>2. CASE Goes("scheduler", "sleep") /\ UNCHANGED excuse
    BY <1>12, <2>2 DEF UploadCheck, Goes
  <2> QED BY <1>12, <2>1, <2>2 DEF UploadCheck
<1>13. CASE Lists
  BY <1>13 DEF Lists, Goes
<1>14. ASSUME NEW k \in Capture, Takes(k)
      PROVE  CallsInv'
  BY <1>14 DEF Takes
<1>15. CASE Leaves
  BY <1>15 DEF Leaves, Enter
<1>16. CASE Wakes
  BY <1>16 DEF Wakes, Goes
<1>17. CASE Screen
  <2>1. PICK place \in {"test", "isRunning"} : Enter("main", "screen", place)
    BY <1>17 DEF Screen
  <2> QED BY <1>17, <2>1 DEF Screen, Enter
<1>18. ASSUME NEW m \in Monitor, Looks(m)
      PROVE  CallsInv'
  BY <1>18 DEF Looks
<1>19. ASSUME NEW m \in Monitor, Gets(m)
      PROVE  CallsInv'
  BY <1>19 DEF Gets, Crashes, Dies
<1>20. ASSUME NEW m \in Monitor, Finishes(m)
      PROVE  CallsInv'
  BY <1>20 DEF Finishes
<1>21. ASSUME NEW k \in Capture, Proceeds(k)
      PROVE  CallsInv'
  BY <1>21 DEF Proceeds
<1>22. ASSUME NEW k \in Capture, KillArrives(k)
      PROVE  CallsInv'
  BY <1>22 DEF KillArrives, Over
<1>23. ASSUME NEW k \in Capture, Fails(k)
      PROVE  CallsInv'
  BY <1>23 DEF Fails, Over
<1>24. CASE Storage
  BY <1>24 DEF Storage
<1>25. CASE Killed
  BY <1>25 DEF Killed, Dies, NoCrash
<1>26. CASE Restart
  BY <1>26 DEF Restart, NoCrash
<1>27. CASE UNCHANGED vars
  BY <1>27 DEF vars
<1> QED BY <1>1, <1>2, <1>3, <1>4, <1>5, <1>6, <1>7, <1>8, <1>9, <1>10, <1>11, <1>12,
    <1>13, <1>14, <1>15, <1>16, <1>17, <1>18, <1>19, <1>20, <1>21, <1>22, <1>23, <1>24,
    <1>25, <1>26, <1>27 DEF Next, Calls, Loop, Upload

\* A dead process has no threads and no fields.
LEMMA DeadStep ==
  ASSUME TypeOK, CallsInv, DeadInv, [Next]_vars
  PROVE  DeadInv'
<1> USE DEF TypeOK, CallsInv, DeadInv, Place, Inside, Stopping, DoCapture, Caller, Cause,
    Other, monitors, outside, threads, bounds, history
<1>1. ASSUME NEW c \in Caller, Tests(c)
      PROVE  DeadInv'
  BY <1>1 DEF Tests, Goes
<1>2. ASSUME NEW c \in Caller, Tells(c)
      PROVE  DeadInv'
  BY <1>2 DEF Tells, Goes, Crashes, Dies, NoCrash
<1>3. ASSUME NEW c \in Caller, Forgets(c)
      PROVE  DeadInv'
  BY <1>3 DEF Forgets, Goes, Drop
<1>4. ASSUME NEW c \in Caller, Kills(c)
      PROVE  DeadInv'
  BY <1>4 DEF Kills, Returns
<1>5. ASSUME NEW c \in Caller, IsRunning(c)
      PROVE  DeadInv'
  BY <1>5 DEF IsRunning, Goes, Returns
<1>6. ASSUME NEW c \in Caller, Clears(c)
      PROVE  DeadInv'
  BY <1>6 DEF Clears, Goes
<1>7. ASSUME NEW c \in Caller, Fills(c)
      PROVE  DeadInv'
  BY <1>7 DEF Fills, Goes
<1>8. ASSUME NEW c \in Caller, Collects(c)
      PROVE  DeadInv'
  BY <1>8 DEF Collects, Goes
<1>9. ASSUME NEW c \in Caller, News(c)
      PROVE  DeadInv'
  BY <1>9 DEF News, Goes, Drop
<1>10. ASSUME NEW c \in Caller, Starts(c)
      PROVE  DeadInv'
  BY <1>10 DEF Starts, Returns, Crashes, Dies
<1>11. CASE Check
  BY <1>11 DEF Check, Enter
<1>12. CASE UploadCheck
  BY <1>12 DEF UploadCheck, Enter, Goes
<1>13. CASE Lists
  BY <1>13 DEF Lists, Goes
<1>14. ASSUME NEW k \in Capture, Takes(k)
      PROVE  DeadInv'
  BY <1>14 DEF Takes
<1>15. CASE Leaves
  BY <1>15 DEF Leaves, Enter
<1>16. CASE Wakes
  BY <1>16 DEF Wakes, Goes
<1>17. CASE Screen
  BY <1>17 DEF Screen, Enter
<1>18. ASSUME NEW m \in Monitor, Looks(m)
      PROVE  DeadInv'
  BY <1>18 DEF Looks
<1>19. ASSUME NEW m \in Monitor, Gets(m)
      PROVE  DeadInv'
  BY <1>19 DEF Gets, Crashes, Dies
<1>20. ASSUME NEW m \in Monitor, Finishes(m)
      PROVE  DeadInv'
  BY <1>20 DEF Finishes
<1>21. ASSUME NEW k \in Capture, Proceeds(k)
      PROVE  DeadInv'
  BY <1>21 DEF Proceeds
<1>22. ASSUME NEW k \in Capture, KillArrives(k)
      PROVE  DeadInv'
  BY <1>22 DEF KillArrives, Over
<1>23. ASSUME NEW k \in Capture, Fails(k)
      PROVE  DeadInv'
  BY <1>23 DEF Fails, Over
<1>24. CASE Storage
  BY <1>24 DEF Storage
<1>25. CASE Killed
  BY <1>25 DEF Killed, Dies, NoCrash
<1>26. CASE Restart
  BY <1>26 DEF Restart, NoCrash
<1>27. CASE UNCHANGED vars
  BY <1>27 DEF vars
<1> QED BY <1>1, <1>2, <1>3, <1>4, <1>5, <1>6, <1>7, <1>8, <1>9, <1>10, <1>11, <1>12,
    <1>13, <1>14, <1>15, <1>16, <1>17, <1>18, <1>19, <1>20, <1>21, <1>22, <1>23, <1>24,
    <1>25, <1>26, <1>27 DEF Next, Calls, Loop, Upload

\* A list is emptied under a monitor only by a second call of readMprocs.
LEMMA ListStep ==
  ASSUME TypeOK, CallsInv, DeadInv, ListInv, [Next]_vars
  PROVE  ListInv'
<1> USE DEF TypeOK, CallsInv, DeadInv, ListInv, monitors, outside, threads, bounds, history
<1>1. ASSUME NEW c \in Caller, Tests(c)
      PROVE  ListInv'
  BY <1>1 DEF Tests, Goes
<1>2. ASSUME NEW c \in Caller, Tells(c)
      PROVE  ListInv'
  BY <1>2 DEF Tells, Goes, Crashes, Dies, NoCrash
<1>3. ASSUME NEW c \in Caller, Forgets(c)
      PROVE  ListInv'
  BY <1>3 DEF Forgets, Goes, Drop
<1>4. ASSUME NEW c \in Caller, Kills(c)
      PROVE  ListInv'
  BY <1>4 DEF Kills, Returns
<1>5. ASSUME NEW c \in Caller, IsRunning(c)
      PROVE  ListInv'
  BY <1>5 DEF IsRunning, Goes, Returns
<1>6. ASSUME NEW c \in Caller, Clears(c)
      PROVE  ListInv'
  BY <1>6 DEF Clears, Goes
<1>7. ASSUME NEW c \in Caller, Fills(c)
      PROVE  ListInv'
  BY <1>7 DEF Fills, Goes
<1>8. ASSUME NEW c \in Caller, Collects(c)
      PROVE  ListInv'
  BY <1>8 DEF Collects, Goes
<1>9. ASSUME NEW c \in Caller, News(c)
      PROVE  ListInv'
  BY <1>9 DEF News, Goes, Drop
<1>10. ASSUME NEW c \in Caller, Starts(c)
      PROVE  ListInv'
  BY <1>10 DEF Starts, Returns, Crashes, Dies
<1>11. CASE Check
  BY <1>11 DEF Check, Enter
<1>12. CASE UploadCheck
  BY <1>12 DEF UploadCheck, Enter, Goes
<1>13. CASE Lists
  BY <1>13 DEF Lists, Goes
<1>14. ASSUME NEW k \in Capture, Takes(k)
      PROVE  ListInv'
  BY <1>14 DEF Takes
<1>15. CASE Leaves
  BY <1>15 DEF Leaves, Enter
<1>16. CASE Wakes
  BY <1>16 DEF Wakes, Goes
<1>17. CASE Screen
  BY <1>17 DEF Screen, Enter
<1>18. ASSUME NEW m \in Monitor, Looks(m)
      PROVE  ListInv'
  BY <1>18 DEF Looks
<1>19. ASSUME NEW m \in Monitor, Gets(m)
      PROVE  ListInv'
  BY <1>19 DEF Gets, Crashes, Dies
<1>20. ASSUME NEW m \in Monitor, Finishes(m)
      PROVE  ListInv'
  BY <1>20 DEF Finishes
<1>21. ASSUME NEW k \in Capture, Proceeds(k)
      PROVE  ListInv'
  BY <1>21 DEF Proceeds
<1>22. ASSUME NEW k \in Capture, KillArrives(k)
      PROVE  ListInv'
  BY <1>22 DEF KillArrives, Over
<1>23. ASSUME NEW k \in Capture, Fails(k)
      PROVE  ListInv'
  BY <1>23 DEF Fails, Over
<1>24. CASE Storage
  BY <1>24 DEF Storage
<1>25. CASE Killed
  BY <1>25 DEF Killed, Dies, NoCrash
<1>26. CASE Restart
  BY <1>26 DEF Restart, NoCrash
<1>27. CASE UNCHANGED vars
  BY <1>27 DEF vars
<1> QED BY <1>1, <1>2, <1>3, <1>4, <1>5, <1>6, <1>7, <1>8, <1>9, <1>10, <1>11, <1>12,
    <1>13, <1>14, <1>15, <1>16, <1>17, <1>18, <1>19, <1>20, <1>21, <1>22, <1>23, <1>24,
    <1>25, <1>26, <1>27 DEF Next, Calls, Loop, Upload

\* Only the other caller changes the field under a caller.
LEMMA FieldStep ==
  ASSUME TypeOK, CallsInv, FieldInv, [Next]_vars
  PROVE  FieldInv'
<1> USE DEF TypeOK, CallsInv, FieldInv, Place, Inside, Stopping, DoCapture, Caller, Cause,
    Other, monitors, outside, threads, bounds, history
<1>1. ASSUME NEW c \in Caller, Tests(c)
      PROVE  FieldInv'
  BY <1>1 DEF Tests, Goes
<1>2. ASSUME NEW c \in Caller, Tells(c)
      PROVE  FieldInv'
  BY <1>2 DEF Tells, Goes, Crashes, Dies, NoCrash
<1>3. ASSUME NEW c \in Caller, Forgets(c)
      PROVE  FieldInv'
  BY <1>3 DEF Forgets, Goes, Drop
<1>4. ASSUME NEW c \in Caller, Kills(c)
      PROVE  FieldInv'
  BY <1>4 DEF Kills, Returns
<1>5. ASSUME NEW c \in Caller, IsRunning(c)
      PROVE  FieldInv'
  BY <1>5 DEF IsRunning, Goes, Returns
<1>6. ASSUME NEW c \in Caller, Clears(c)
      PROVE  FieldInv'
  BY <1>6 DEF Clears, Goes
<1>7. ASSUME NEW c \in Caller, Fills(c)
      PROVE  FieldInv'
  BY <1>7 DEF Fills, Goes
<1>8. ASSUME NEW c \in Caller, Collects(c)
      PROVE  FieldInv'
  BY <1>8 DEF Collects, Goes
<1>9. ASSUME NEW c \in Caller, News(c)
      PROVE  FieldInv'
  <2>1. ssd' \in Monitor /\ mon'[ssd'] = "new" /\ ssd' # 0
    <3>1. PICK m \in Monitor : /\ m # ssd /\ ssd' = m
                              /\ Drop(ssd, [mon EXCEPT ![m] = "new"])
      BY <1>9 DEF News
    <3> QED BY <3>1 DEF Drop, Monitor
  <2>2. ASSUME NEW b \in Caller, b # c, ~overlap'[b]
        PROVE  pc'[b] \notin {"tell", "forget", "start"}
    BY <1>9, <2>2 DEF News, Goes
  <2>3. pc'[c] = "start"
    BY <1>9 DEF News, Goes
  <2> QED BY <2>1, <2>2, <2>3
<1>10. ASSUME NEW c \in Caller, Starts(c)
      PROVE  FieldInv'
  BY <1>10 DEF Starts, Returns, Crashes, Dies
<1>11. CASE Check
  BY <1>11 DEF Check, Enter
<1>12. CASE UploadCheck
  BY <1>12 DEF UploadCheck, Enter, Goes
<1>13. CASE Lists
  BY <1>13 DEF Lists, Goes
<1>14. ASSUME NEW k \in Capture, Takes(k)
      PROVE  FieldInv'
  BY <1>14 DEF Takes
<1>15. CASE Leaves
  BY <1>15 DEF Leaves, Enter
<1>16. CASE Wakes
  BY <1>16 DEF Wakes, Goes
<1>17. CASE Screen
  BY <1>17 DEF Screen, Enter
<1>18. ASSUME NEW m \in Monitor, Looks(m)
      PROVE  FieldInv'
  BY <1>18 DEF Looks
<1>19. ASSUME NEW m \in Monitor, Gets(m)
      PROVE  FieldInv'
  BY <1>19 DEF Gets, Crashes, Dies
<1>20. ASSUME NEW m \in Monitor, Finishes(m)
      PROVE  FieldInv'
  BY <1>20 DEF Finishes
<1>21. ASSUME NEW k \in Capture, Proceeds(k)
      PROVE  FieldInv'
  BY <1>21 DEF Proceeds
<1>22. ASSUME NEW k \in Capture, KillArrives(k)
      PROVE  FieldInv'
  BY <1>22 DEF KillArrives, Over
<1>23. ASSUME NEW k \in Capture, Fails(k)
      PROVE  FieldInv'
  BY <1>23 DEF Fails, Over
<1>24. CASE Storage
  BY <1>24 DEF Storage
<1>25. CASE Killed
  BY <1>25 DEF Killed, Dies, NoCrash
<1>26. CASE Restart
  BY <1>26 DEF Restart, NoCrash
<1>27. CASE UNCHANGED vars
  BY <1>27 DEF vars
<1> QED BY <1>1, <1>2, <1>3, <1>4, <1>5, <1>6, <1>7, <1>8, <1>9, <1>10, <1>11, <1>12,
    <1>13, <1>14, <1>15, <1>16, <1>17, <1>18, <1>19, <1>20, <1>21, <1>22, <1>23, <1>24,
    <1>25, <1>26, <1>27 DEF Next, Calls, Loop, Upload

\* The process ends.
LEMMA CrashStep ==
  ASSUME TypeOK, CallsInv, FieldInv, ListInv, CrashesExplained, [Next]_vars
  PROVE  CrashesExplained'
<1> USE DEF TypeOK, FieldInv, ListInv, CrashesExplained, NoCrash, monitors, outside,
    threads, bounds, history
<1>1. ASSUME NEW c \in Caller, Tests(c)
      PROVE  CrashesExplained'
  BY <1>1 DEF Tests, Goes
<1>2. ASSUME NEW c \in Caller, Tells(c)
      PROVE  CrashesExplained'
  BY <1>2 DEF Tells, Goes, Crashes, Dies, NoCrash
<1>3. ASSUME NEW c \in Caller, Forgets(c)
      PROVE  CrashesExplained'
  BY <1>3 DEF Forgets, Goes, Drop
<1>4. ASSUME NEW c \in Caller, Kills(c)
      PROVE  CrashesExplained'
  <2>1. pc["main"] # "dead" /\ crash' = crash
    BY <1>4 DEF Kills, Returns, CallsInv, Caller
  <2> QED BY <2>1 DEF CallsInv
<1>5. ASSUME NEW c \in Caller, IsRunning(c)
      PROVE  CrashesExplained'
  <2>1. pc["main"] # "dead" /\ crash' = crash
    BY <1>5 DEF IsRunning, Goes, Returns, CallsInv, Caller
  <2> QED BY <2>1 DEF CallsInv
<1>6. ASSUME NEW c \in Caller, Clears(c)
      PROVE  CrashesExplained'
  BY <1>6 DEF Clears, Goes
<1>7. ASSUME NEW c \in Caller, Fills(c)
      PROVE  CrashesExplained'
  BY <1>7 DEF Fills, Goes
<1>8. ASSUME NEW c \in Caller, Collects(c)
      PROVE  CrashesExplained'
  BY <1>8 DEF Collects, Goes
<1>9. ASSUME NEW c \in Caller, News(c)
      PROVE  CrashesExplained'
  BY <1>9 DEF News, Goes, Drop
<1>10. ASSUME NEW c \in Caller, Starts(c)
      PROVE  CrashesExplained'
  <2>1. CASE crash' = crash
    <3>1. pc["main"] # "dead"
      BY <1>10 DEF Starts, CallsInv, Caller
    <3> QED BY <2>1, <3>1 DEF CallsInv
  <2>2. CASE crash' # crash
    <3>1. crash'.how \in {"null", "twice"} /\ crash'.by = c /\ overlap' = overlap
      BY <1>10, <2>2 DEF Starts, Crashes, Dies
    <3>2. overlap[c]
      BY <1>10, <2>2 DEF Starts
    <3> QED BY <3>1, <3>2
  <2> QED BY <2>1, <2>2
<1>11. CASE Check
  <2>1. pc["main"] # "dead" /\ crash' = crash
    BY <1>11 DEF Check, Enter, CallsInv, Caller
  <2> QED BY <2>1 DEF CallsInv
<1>12. CASE UploadCheck
  <2>1. pc["main"] # "dead" /\ crash' = crash
    BY <1>12 DEF UploadCheck, Enter, Goes, CallsInv, Caller
  <2> QED BY <2>1 DEF CallsInv
<1>13. CASE Lists
  BY <1>13 DEF Lists, Goes
<1>14. ASSUME NEW k \in Capture, Takes(k)
      PROVE  CrashesExplained'
  BY <1>14 DEF Takes
<1>15. CASE Leaves
  <2>1. pc["main"] # "dead" /\ crash' = crash
    BY <1>15 DEF Leaves, Enter, CallsInv, Caller
  <2> QED BY <2>1 DEF CallsInv
<1>16. CASE Wakes
  BY <1>16 DEF Wakes, Goes
<1>17. CASE Screen
  <2>1. pc["main"] # "dead" /\ crash' = crash
    BY <1>17 DEF Screen, Enter, CallsInv, Caller
  <2> QED BY <2>1 DEF CallsInv
<1>18. ASSUME NEW m \in Monitor, Looks(m)
      PROVE  CrashesExplained'
  BY <1>18 DEF Looks
<1>19. ASSUME NEW m \in Monitor, Gets(m)
      PROVE  CrashesExplained'
  BY <1>19 DEF Gets, Crashes, Dies
<1>20. ASSUME NEW m \in Monitor, Finishes(m)
      PROVE  CrashesExplained'
  BY <1>20 DEF Finishes
<1>21. ASSUME NEW k \in Capture, Proceeds(k)
      PROVE  CrashesExplained'
  BY <1>21 DEF Proceeds
<1>22. ASSUME NEW k \in Capture, KillArrives(k)
      PROVE  CrashesExplained'
  BY <1>22 DEF KillArrives, Over
<1>23. ASSUME NEW k \in Capture, Fails(k)
      PROVE  CrashesExplained'
  BY <1>23 DEF Fails, Over
<1>24. CASE Storage
  BY <1>24 DEF Storage
<1>25. CASE Killed
  BY <1>25 DEF Killed, Dies, NoCrash
<1>26. CASE Restart
  BY <1>26 DEF Restart, NoCrash
<1>27. CASE UNCHANGED vars
  BY <1>27 DEF vars
<1> QED BY <1>1, <1>2, <1>3, <1>4, <1>5, <1>6, <1>7, <1>8, <1>9, <1>10, <1>11, <1>12,
    <1>13, <1>14, <1>15, <1>16, <1>17, <1>18, <1>19, <1>20, <1>21, <1>22, <1>23, <1>24,
    <1>25, <1>26, <1>27 DEF Next, Calls, Loop, Upload

\* The monitors.
LEMMA MonitorStep ==
  ASSUME TypeOK, CallsInv, DeadInv, FieldInv, MonitorInv, MonitorsReachable, [Next]_vars
  PROVE  MonitorInv' /\ MonitorsReachable'
<1> USE DEF TypeOK, CallsInv, FieldInv, MonitorInv, FieldOfCapture, MonitorsReachable,
    Alive, Running, Starting, Place, Inside, Stopping, DoCapture, Caller, Cause, Other,
    monitors, outside, threads, bounds, history
<1>1. ASSUME NEW c \in Caller, Tests(c)
      PROVE  MonitorInv' /\ MonitorsReachable'
  BY <1>1 DEF Tests, Goes
<1>2. ASSUME NEW c \in Caller, Tells(c)
      PROVE  MonitorInv' /\ MonitorsReachable'
  BY <1>2 DEF Tells, Goes, Crashes, Dies, NoCrash
<1>3. ASSUME NEW c \in Caller, Forgets(c)
      PROVE  MonitorInv' /\ MonitorsReachable'
  BY <1>3 DEF Forgets, Goes, Drop
<1>4. ASSUME NEW c \in Caller, Kills(c)
      PROVE  MonitorInv' /\ MonitorsReachable'
  BY <1>4 DEF Kills, Returns
<1>5. ASSUME NEW c \in Caller, IsRunning(c)
      PROVE  MonitorInv' /\ MonitorsReachable'
  <2>0. PICK answer \in BOOLEAN :
          /\ IF answer THEN Returns(c) ELSE Goes(c, "clear")
          /\ excuse' = (excuse \/ (~answer /\ Running \cup Starting # {}))
    BY <1>5 DEF IsRunning
  <2>1. CASE answer
    BY <1>5, <2>0, <2>1 DEF IsRunning, Returns
  <2>2. CASE ~answer /\ ~excuse'
    <3>1. Alive = {} /\ ssd = 0
      BY <1>5, <2>0, <2>2 DEF IsRunning
    <3> QED BY <1>5, <2>0, <2>2, <3>1 DEF IsRunning, Goes
  <2>3. CASE excuse'
    BY <2>3
  <2> QED BY <2>1, <2>2, <2>3
<1>6. ASSUME NEW c \in Caller, Clears(c)
      PROVE  MonitorInv' /\ MonitorsReachable'
  BY <1>6 DEF Clears, Goes
<1>7. ASSUME NEW c \in Caller, Fills(c)
      PROVE  MonitorInv' /\ MonitorsReachable'
  BY <1>7 DEF Fills, Goes
<1>8. ASSUME NEW c \in Caller, Collects(c)
      PROVE  MonitorInv' /\ MonitorsReachable'
  BY <1>8 DEF Collects, Goes
<1>9. ASSUME NEW c \in Caller, News(c)
      PROVE  MonitorInv' /\ MonitorsReachable'
  <2> SUFFICES ASSUME ~excuse' PROVE MonitorInv' /\ MonitorsReachable'
    OBVIOUS
  <2>1. PICK m \in Monitor : /\ m # ssd /\ ssd' = m
                            /\ Drop(ssd, [mon EXCEPT ![m] = "new"])
    BY <1>9 DEF News
  <2>2. /\ pc[c] = "new" /\ pc' = [pc EXCEPT ![c] = "start"] /\ ~excuse
        /\ UNCHANGED <<coll, kills>> /\ 0 \notin Monitor
    BY <1>9 DEF News, Goes, Monitor
  <2>3. \A b \in Caller : b # c => pc[b] \notin Inside
    BY <2>2
  <2>4. \A n \in Monitor : mon[n] \notin {"loop", "get"} \/ n \in told
    BY <2>2
  <2>5. \A n \in Monitor : mon'[n] \notin {"loop", "get"} \/ n \in told'
    BY <2>1, <2>4 DEF Drop
  <2>6. FieldOfCapture'
    BY <2>2
  <2> QED BY <2>2, <2>3, <2>5, <2>6
<1>10. ASSUME NEW c \in Caller, Starts(c)
      PROVE  MonitorInv' /\ MonitorsReachable'
  BY <1>10 DEF Starts, Returns, Crashes, Dies
<1>11. CASE Check
  BY <1>11 DEF Check, Enter
<1>12. CASE UploadCheck
  BY <1>12 DEF UploadCheck, Enter, Goes
<1>13. CASE Lists
  BY <1>13 DEF Lists, Goes
<1>14. ASSUME NEW k \in Capture, Takes(k)
      PROVE  MonitorInv' /\ MonitorsReachable'
  BY <1>14 DEF Takes
<1>15. CASE Leaves
  BY <1>15 DEF Leaves, Enter
<1>16. CASE Wakes
  BY <1>16 DEF Wakes, Goes
<1>17. CASE Screen
  BY <1>17 DEF Screen, Enter
<1>18. ASSUME NEW m \in Monitor, Looks(m)
      PROVE  MonitorInv' /\ MonitorsReachable'
  BY <1>18 DEF Looks
<1>19. ASSUME NEW m \in Monitor, Gets(m)
      PROVE  MonitorInv' /\ MonitorsReachable'
  BY <1>19 DEF Gets, Crashes, Dies
<1>20. ASSUME NEW m \in Monitor, Finishes(m)
      PROVE  MonitorInv' /\ MonitorsReachable'
  BY <1>20 DEF Finishes
<1>21. ASSUME NEW k \in Capture, Proceeds(k)
      PROVE  MonitorInv' /\ MonitorsReachable'
  BY <1>21 DEF Proceeds
<1>22. ASSUME NEW k \in Capture, KillArrives(k)
      PROVE  MonitorInv' /\ MonitorsReachable'
  BY <1>22 DEF KillArrives, Over
<1>23. ASSUME NEW k \in Capture, Fails(k)
      PROVE  MonitorInv' /\ MonitorsReachable'
  BY <1>23 DEF Fails, Over
<1>24. CASE Storage
  BY <1>24 DEF Storage
<1>25. CASE Killed
  BY <1>25 DEF Killed, Dies, NoCrash
<1>26. CASE Restart
  <2>1. ssd' = 0 /\ (\A c \in Caller : pc'[c] \in {"idle", "check"}) /\ mon' = mon
    BY <1>26 DEF Restart, DeadInv
  <2>2. \A m \in Monitor : mon'[m] = "none"
    BY <1>26 DEF Restart, DeadInv
  <2> QED BY <2>1, <2>2
<1>27. CASE UNCHANGED vars
  BY <1>27 DEF vars
<1> QED BY <1>1, <1>2, <1>3, <1>4, <1>5, <1>6, <1>7, <1>8, <1>9, <1>10, <1>11, <1>12,
    <1>13, <1>14, <1>15, <1>16, <1>17, <1>18, <1>19, <1>20, <1>21, <1>22, <1>23, <1>24,
    <1>25, <1>26, <1>27 DEF Next, Calls, Loop, Upload

\* The upload.
LEMMA UploadStep ==
  ASSUME TypeOK, CallsInv, UploadInv, UploadTearsUnseen, [Next]_vars
  PROVE  UploadInv' /\ UploadTearsUnseen'
<1> USE DEF TypeOK, CallsInv, UploadInv, UploadTearsUnseen, Alive, Running, Starting,
    Place, Inside, Stopping, DoCapture, Caller, Cause, Other, monitors, outside, threads,
    bounds, history
<1>1. ASSUME NEW c \in Caller, Tests(c)
      PROVE  UploadInv' /\ UploadTearsUnseen'
  BY <1>1 DEF Tests, Goes
<1>2. ASSUME NEW c \in Caller, Tells(c)
      PROVE  UploadInv' /\ UploadTearsUnseen'
  BY <1>2 DEF Tells, Goes, Crashes, Dies, NoCrash
<1>3. ASSUME NEW c \in Caller, Forgets(c)
      PROVE  UploadInv' /\ UploadTearsUnseen'
  BY <1>3 DEF Forgets, Goes, Drop
<1>4. ASSUME NEW c \in Caller, Kills(c)
      PROVE  UploadInv' /\ UploadTearsUnseen'
  BY <1>4 DEF Kills, Returns
<1>5. ASSUME NEW c \in Caller, IsRunning(c)
      PROVE  UploadInv' /\ UploadTearsUnseen'
  BY <1>5 DEF IsRunning, Goes, Returns
<1>6. ASSUME NEW c \in Caller, Clears(c)
      PROVE  UploadInv' /\ UploadTearsUnseen'
  BY <1>6 DEF Clears, Goes
<1>7. ASSUME NEW c \in Caller, Fills(c)
      PROVE  UploadInv' /\ UploadTearsUnseen'
  BY <1>7 DEF Fills, Goes
<1>8. ASSUME NEW c \in Caller, Collects(c)
      PROVE  UploadInv' /\ UploadTearsUnseen'
  BY <1>8 DEF Collects, Goes
<1>9. ASSUME NEW c \in Caller, News(c)
      PROVE  UploadInv' /\ UploadTearsUnseen'
  BY <1>9 DEF News, Goes, Drop
<1>10. ASSUME NEW c \in Caller, Starts(c)
      PROVE  UploadInv' /\ UploadTearsUnseen'
  BY <1>10 DEF Starts, Returns, Crashes, Dies
<1>11. CASE Check
  BY <1>11 DEF Check, Enter
<1>12. CASE UploadCheck
  BY <1>12 DEF UploadCheck, Enter, Goes
<1>13. CASE Lists
  BY <1>13 DEF Lists, Goes
<1>14. ASSUME NEW k \in Capture, Takes(k)
      PROVE  UploadInv' /\ UploadTearsUnseen'
  BY <1>14 DEF Takes
<1>15. CASE Leaves
  BY <1>15 DEF Leaves, Enter
<1>16. CASE Wakes
  BY <1>16 DEF Wakes, Goes
<1>17. CASE Screen
  BY <1>17 DEF Screen, Enter
<1>18. ASSUME NEW m \in Monitor, Looks(m)
      PROVE  UploadInv' /\ UploadTearsUnseen'
  BY <1>18 DEF Looks
<1>19. ASSUME NEW m \in Monitor, Gets(m)
      PROVE  UploadInv' /\ UploadTearsUnseen'
  BY <1>19 DEF Gets, Crashes, Dies
<1>20. ASSUME NEW m \in Monitor, Finishes(m)
      PROVE  UploadInv' /\ UploadTearsUnseen'
  BY <1>20 DEF Finishes
<1>21. ASSUME NEW k \in Capture, Proceeds(k)
      PROVE  UploadInv' /\ UploadTearsUnseen'
  BY <1>21 DEF Proceeds
<1>22. ASSUME NEW k \in Capture, KillArrives(k)
      PROVE  UploadInv' /\ UploadTearsUnseen'
  BY <1>22 DEF KillArrives, Over
<1>23. ASSUME NEW k \in Capture, Fails(k)
      PROVE  UploadInv' /\ UploadTearsUnseen'
  BY <1>23 DEF Fails, Over
<1>24. CASE Storage
  BY <1>24 DEF Storage
<1>25. CASE Killed
  BY <1>25 DEF Killed, Dies, NoCrash
<1>26. CASE Restart
  BY <1>26 DEF Restart, NoCrash
<1>27. CASE UNCHANGED vars
  BY <1>27 DEF vars
<1> QED BY <1>1, <1>2, <1>3, <1>4, <1>5, <1>6, <1>7, <1>8, <1>9, <1>10, <1>11, <1>12,
    <1>13, <1>14, <1>15, <1>16, <1>17, <1>18, <1>19, <1>20, <1>21, <1>22, <1>23, <1>24,
    <1>25, <1>26, <1>27 DEF Next, Calls, Loop, Upload

-----------------------------------------------------------------------------
LEMMA InitInvariant == Init => IInv
<1> SUFFICES ASSUME Init PROVE IInv
  OBVIOUS
<1> USE DEF Init, NoCrash, Running, Starting, Alive, Place, Inside, Stopping, DoCapture, Caller,
      Cause, Other
<1>1. TypeOK
  <2>1. screens \in 0 .. MaxScreen /\ mishaps \in 0 .. MaxMishaps /\ dead \in 0 .. MaxKills /\ reads \in 0 .. 2
    BY InputTraceAssumption
  <2>2. overlap \in [Caller -> BOOLEAN]
    OBVIOUS
  <2>3. /\ pc \in [Caller -> Place] /\ cause \in [Caller -> Cause] /\ excuse \in BOOLEAN
        /\ crash \in [how : {"none", "null", "twice", "list"}, by : Caller \cup {"none"}]
    OBVIOUS
  <2> QED BY <2>1, <2>2, <2>3 DEF TypeOK
<1>2. CallsInv /\ DeadInv /\ FieldInv /\ ListInv /\ CrashesExplained
  BY DEF CallsInv, DeadInv, FieldInv, ListInv, CrashesExplained
<1>3. MonitorInv /\ MonitorsReachable /\ UploadInv /\ UploadTearsUnseen
  BY DEF MonitorInv, FieldOfCapture, MonitorsReachable, UploadInv, UploadTearsUnseen
<1> QED BY <1>1, <1>2, <1>3 DEF IInv

THEOREM Invariant == Spec => []IInv
<1>1. IInv /\ [Next]_vars => IInv'
  BY TypeStep, CallsStep, DeadStep, ListStep, FieldStep, CrashStep, MonitorStep, UploadStep DEF IInv
<1> QED BY <1>1, InitInvariant, PTL DEF Spec

\* The types: among them, that a shell only kills collectors that ps showed, and
\* that a monitor told to stop is one that was made (killProcess, stopMonitor).
THEOREM TypeCorrect == Spec => []TypeOK
<1>1. IInv => TypeOK
  BY DEF IInv
<1> QED BY <1>1, Invariant, PTL

\* The exceptions of stopCapture, doCapture and screenshotDecision need two calls
\* at once, or a second call of readMprocs.
THEOREM CrashesCorrect == Spec => []CrashesExplained
<1>1. IInv => CrashesExplained
  BY DEF IInv
<1> QED BY <1>1, Invariant, PTL

\* No monitor is out of reach of the next stopCapture without one of the three
\* causes that excuse names.
THEOREM MonitorsCorrect == Spec => []MonitorsReachable
<1>1. IInv => MonitorsReachable
  BY DEF IInv
<1> QED BY <1>1, Invariant, PTL

\* An upload never takes away the trace of a collector that its stop could see.
THEOREM UploadTearsCorrect == Spec => []UploadTearsUnseen
<1>1. IInv => UploadTearsUnseen
  BY DEF IInv
<1> QED BY <1>1, Invariant, PTL

=============================================================================
