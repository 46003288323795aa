------------------------ MODULE CaptureProcessProofs ------------------------
(***************************************************************************)
(* The safety invariants of CaptureProcess and its end, for every window,  *)
(* every rate and every set of packet lengths.                             *)
(***************************************************************************)
EXTENDS CaptureProcess, TLAPS

(***************************************************************************)
(* Types.                                                                  *)
(***************************************************************************)

LEMMA GotoType ==
    ASSUME TypeOK, NEW th \in Threads, NEW place \in PCs[th], Goto(th, place)
    PROVE  /\ pc' \in [Threads -> PCs.main \cup PCs.mon]
           /\ \A t \in Threads : pc'[t] \in PCs[t]
           /\ pc'[th] = place
           /\ \A t \in Threads \ {th} : pc'[t] = pc[t]
           /\ proc' = proc
<1>1. PCs[th] \subseteq PCs.main \cup PCs.mon
  BY DEF PCs, Threads
<1>2. pc' = [pc EXCEPT ![th] = place] /\ pc \in [Threads -> PCs.main \cup PCs.mon]
  BY DEF TypeOK, PlacesOK, Goto
<1>3. pc'[th] = place /\ \A t \in Threads \ {th} : pc'[t] = pc[t]
  BY <1>2
<1>4. pc' \in [Threads -> PCs.main \cup PCs.mon]
  BY <1>1, <1>2
<1>. QED
  BY <1>3, <1>4 DEF TypeOK, PlacesOK, Goto

LEMMA EndsPlaces ==
    ASSUME TypeOK, NEW how \in {"exited", "crashed"}, Ends(how)
    PROVE  PlacesOK'
  BY DEF TypeOK, PlacesOK, Ends

LEMMA GotoPlaces ==
    ASSUME TypeOK, NEW th \in Threads, NEW place \in PCs[th], Goto(th, place)
    PROVE  PlacesOK'
<1>1. proc' \in {"running", "exited", "crashed"}
  BY GotoType DEF TypeOK, PlacesOK
<1>. QED
  BY <1>1, GotoType DEF PlacesOK

LEMMA ActivityValues ==
    {NoFile, Empty, Full} \subseteq Int /\ NoFile < Empty /\ Empty < Full /\ Full < 0
  BY DEF NoFile, Empty, Full

LEMMA InitType == Init => TypeOK
<1>. SUFFICES ASSUME Init PROVE TypeOK
  OBVIOUS
<1>1. PlacesOK
  BY DEF Init, PlacesOK, PCs, Threads
<1>2. <<>> \in Seq(Nat) /\ Len(<<>>) = 0
  OBVIOUS
<1>3. queue \in Seq(Nat) /\ Len(queue) <= Capacity /\ clk \in 0..(Frequency - 1)
  BY <1>2, WindowAssumption DEF Init
<1>4. FilesOK
  <2>1. activity \in Int /\ activity >= NoFile
    BY ActivityValues DEF Init
  <2>2. mishaps \subseteq Mishaps
    BY DEF Init
  <2>3. stopFile \in BOOLEAN /\ exitFlag \in BOOLEAN /\ filesOpen \in BOOLEAN
        /\ pdOpen \in BOOLEAN
    BY DEF Init
  <2>. QED
    BY <2>1, <2>2, <2>3 DEF FilesOK
<1>5. VolumeOK
  BY <1>3 DEF Init, VolumeOK
<1>. QED
  BY <1>1, <1>4, <1>5 DEF TypeOK

LEMMA TerminateType ==
    ASSUME TypeOK, NEW th \in Threads, TerminateCapture(th)
    PROVE  TypeOK'
<1>. USE DEF TypeOK
<1>1. TerminatePCs \subseteq PCs[th]
  BY DEF PCs, Threads
<1>2. CASE TerminateFiles(th)
  <2>1. PlacesOK'
    BY <1>1, <1>2, GotoPlaces, EndsPlaces DEF TerminateFiles, TerminatePCs
  <2>. QED
    BY <1>2, <2>1 DEF TerminateFiles, FilesOK, VolumeOK, volumeVars, windowVars
<1>3. CASE TerminateStats(th)
  <2>1. PlacesOK'
    BY <1>1, <1>3, GotoPlaces, EndsPlaces DEF TerminateStats, TerminatePCs
  <2>. QED
    BY <1>3, <2>1 DEF TerminateStats, FilesOK, VolumeOK, Mishaps, volumeVars, windowVars, handleVars
<1>4. CASE TerminateClose(th)
  <2>1. PlacesOK'
    BY <1>1, <1>4, GotoPlaces, EndsPlaces DEF TerminateClose, TerminatePCs
  <2>. QED
    BY <1>4, <2>1 DEF TerminateClose, FilesOK, VolumeOK, volumeVars, windowVars
<1>5. CASE TerminateExit(th)
  <2>1. PlacesOK'
    BY <1>5, EndsPlaces DEF TerminateExit
  <2>. QED
    BY <1>5, <2>1 DEF TerminateExit, FilesOK, VolumeOK, volumeVars, windowVars, handleVars
<1>. QED
  BY <1>2, <1>3, <1>4, <1>5 DEF TerminateCapture

LEMMA MainType ==
    ASSUME TypeOK,
           Receive \/ ReceiveCrashes \/ ReceiveExits \/ LoopReturns \/ LoadCounter \/ StoreCounter
             \/ LoopEnded \/ MainRemoves \/ MainFallsThrough
    PROVE  TypeOK'
<1>. USE DEF TypeOK, volumeVars, windowVars, handleVars
<1>1. /\ "main" \in Threads
      /\ {"wait", "load", "store", "ended", "remove", "files"} \subseteq PCs["main"]
  BY DEF Threads, PCs, TerminatePCs
<1>2. PlacesOK'
  BY <1>1, GotoPlaces, EndsPlaces
     DEF Receive, ReceiveCrashes, ReceiveExits, LoopReturns, LoadCounter, StoreCounter, LoopEnded,
         MainRemoves, MainFallsThrough
<1>3. CASE Receive
  BY <1>2, <1>3, PacketAssumption DEF Receive, FilesOK, VolumeOK
<1>4. CASE ReceiveCrashes
  BY <1>2, <1>4 DEF ReceiveCrashes, FilesOK, VolumeOK
<1>11. CASE ReceiveExits
  BY <1>2, <1>11 DEF ReceiveExits, FilesOK, VolumeOK, Mishaps
<1>5. CASE LoopReturns
  BY <1>2, <1>5 DEF LoopReturns, FilesOK, VolumeOK, Mishaps
<1>6. CASE LoadCounter
  BY <1>2, <1>6 DEF LoadCounter, FilesOK, VolumeOK
<1>7. CASE StoreCounter
  BY <1>2, <1>7 DEF StoreCounter, FilesOK, VolumeOK
<1>8. CASE LoopEnded
  BY <1>2, <1>8 DEF LoopEnded, FilesOK, VolumeOK
<1>9. CASE MainRemoves
  BY <1>2, <1>9 DEF MainRemoves, FilesOK, VolumeOK, NoFile
<1>10. CASE MainFallsThrough
  BY <1>2, <1>10 DEF MainFallsThrough, FilesOK, VolumeOK
<1>. QED
  BY <1>3, <1>4, <1>5, <1>6, <1>7, <1>8, <1>9, <1>10, <1>11

\* Sequences of naturals, as the window uses them.
LEMMA QueueFacts ==
    ASSUME NEW q \in Seq(Nat), NEW b \in Nat
    PROVE  /\ Len(q) \in Nat
           /\ Append(q, b) \in Seq(Nat) /\ Len(Append(q, b)) = Len(q) + 1
           /\ \A i \in 1..Len(q) : Append(q, b)[i] = q[i] /\ q[i] \in Nat
           /\ Append(q, b)[Len(q) + 1] = b
           /\ Len(q) > 0 => /\ Head(q) = q[1] /\ Head(q) \in Nat
                            /\ Tail(q) \in Seq(Nat) /\ Len(Tail(q)) = Len(q) - 1
                            /\ \A i \in 1..(Len(q) - 1) : Tail(q)[i] = q[i + 1]
  OBVIOUS

LEMMA EnqueueType ==
    ASSUME TypeOK, MonEnqueues
    PROVE  TypeOK'
<1>. USE DEF TypeOK, volumeVars, handleVars
<1>1. "mon" \in Threads /\ "total" \in PCs["mon"]
  BY DEF Threads, PCs
<1>2. PlacesOK'
  BY <1>1, GotoPlaces, EndsPlaces DEF MonEnqueues, Enters
<1>3. queue \in Seq(Nat) /\ byteCounter \in Nat /\ Len(queue) <= Capacity
      /\ Capacity \in Nat \ {0} /\ totBytes \in Nat
  BY WindowAssumption DEF FilesOK, VolumeOK
<1>4. queue' \in Seq(Nat) /\ Len(queue') <= Capacity
  <2>1. CASE Len(queue) < Capacity /\ Enters(queue)
    BY <1>3, <2>1, QueueFacts DEF Enters
  <2>2. CASE Len(queue) >= Capacity /\ Enters(Tail(queue))
    <3>1. Len(queue) > 0 /\ Tail(queue) \in Seq(Nat) /\ Len(Tail(queue)) = Len(queue) - 1
      BY <1>3, <2>2, QueueFacts
    <3>. QED
      BY <1>3, <2>2, <3>1, QueueFacts DEF Enters
  <2>3. CASE queue' = queue
    BY <1>3, <2>3
  <2>. QED
    BY <2>1, <2>2, <2>3 DEF MonEnqueues
<1>5. totBytes' \in Nat
  <2>1. CASE Len(queue) >= Capacity
    <3>1. Head(queue) \in Nat
      BY <1>3, <2>1, QueueFacts
    <3>. QED
      BY <1>3, <2>1, <3>1 DEF MonEnqueues
  <2>2. CASE Len(queue) < Capacity
    <3>1. Len(queue) \in Nat
      BY <1>3, QueueFacts
    <3>. QED
      BY <1>3, <2>2, <3>1 DEF MonEnqueues
  <2>3. Len(queue) \in Nat
    BY <1>3, QueueFacts
  <2>. QED
    BY <1>3, <2>1, <2>2, <2>3
<1>6. mishaps' \subseteq Mishaps
  BY DEF MonEnqueues, FilesOK, VolumeOK, Mishaps
<1>. QED
  BY <1>2, <1>4, <1>5, <1>6 DEF MonEnqueues, FilesOK, VolumeOK

LEMMA MonType ==
    ASSUME TypeOK,
           MonStops \/ MonRemoves \/ MonTicks \/ MonOpens \/ MonAdds \/ MonResets
             \/ MonWrites
    PROVE  TypeOK'
<1>. USE DEF TypeOK, volumeVars, windowVars, handleVars
<1>1. /\ "mon" \in Threads
      /\ {"sleep", "remove", "files", "open", "enqueue", "reset", "write"} \subseteq PCs["mon"]
  BY DEF Threads, PCs, TerminatePCs
<1>2. PlacesOK'
  BY <1>1, GotoPlaces, EndsPlaces
     DEF MonStops, MonRemoves, MonTicks, MonOpens, MonAdds, MonResets, MonWrites
<1>3. CASE MonStops
  BY <1>2, <1>3 DEF MonStops, FilesOK, VolumeOK
<1>4. CASE MonRemoves
  BY <1>2, <1>4 DEF MonRemoves, FilesOK, VolumeOK, NoFile
<1>5. CASE MonTicks
  <2>1. clk \in Nat /\ Frequency \in Nat \ {0}
    BY WindowAssumption DEF FilesOK, VolumeOK
  <2>2. clk' \in 0..(Frequency - 1)
    BY <1>5, <2>1 DEF MonTicks
  <2>. QED
    BY <1>2, <1>5, <2>2 DEF MonTicks, FilesOK, VolumeOK
<1>6. CASE MonOpens
  <2>1. FilesOK'
    <3>1. activity' \in Int /\ activity' >= NoFile
      BY <1>6, ActivityValues DEF MonOpens, FilesOK
    <3>2. mishaps' \subseteq Mishaps
      BY <1>6 DEF MonOpens, FilesOK, Mishaps
    <3>. QED
      BY <1>6, <3>1, <3>2 DEF MonOpens, FilesOK
  <2>. QED
    BY <1>2, <1>6, <2>1 DEF MonOpens, VolumeOK
<1>7. CASE MonAdds
  BY <1>2, <1>7 DEF MonAdds, FilesOK, VolumeOK
<1>8. CASE MonResets
  BY <1>2, <1>8 DEF MonResets, FilesOK, VolumeOK
<1>9. CASE MonWrites
  BY <1>2, <1>9 DEF MonWrites, FilesOK, VolumeOK, Full, NoFile
<1>. QED
  BY <1>3, <1>4, <1>5, <1>6, <1>7, <1>8, <1>9

LEMMA TypeNext == TypeOK /\ [Next]_vars => TypeOK'
<1>. SUFFICES ASSUME TypeOK, [Next]_vars PROVE TypeOK'
  OBVIOUS
<1>1. CASE Receive \/ ReceiveCrashes \/ ReceiveExits \/ LoopReturns \/ LoadCounter \/ StoreCounter
             \/ LoopEnded \/ MainRemoves \/ MainFallsThrough
  BY <1>1, MainType
<1>2. CASE \E th \in Threads : TerminateCapture(th)
  BY <1>2, TerminateType
<1>3. CASE MonStops \/ MonRemoves \/ MonTicks \/ MonOpens \/ MonAdds \/ MonResets
             \/ MonWrites
  BY <1>3, MonType
<1>4. CASE MonEnqueues
  BY <1>4, EnqueueType
<1>5. CASE StopFileChanges
  BY <1>5 DEF StopFileChanges, TypeOK, PlacesOK, FilesOK, VolumeOK, volumeVars, windowVars, handleVars
<1>6. CASE UNCHANGED vars
  BY <1>6 DEF vars, TypeOK, PlacesOK, FilesOK, VolumeOK, volumeVars, windowVars, handleVars
<1>. QED
  BY <1>1, <1>2, <1>3, <1>4, <1>5, <1>6 DEF Next, MainRuns, MonRuns, Threads

\* Every variable keeps its type; the window never holds more than Capacity
\* values, as the second MyAssert of MonitorExit (user_input.c:412) has it.
THEOREM TypeCorrect == Spec => []TypeOK
  BY InitType, TypeNext, PTL DEF Spec

(***************************************************************************)
(* The window: its values fit in the total.                                *)
(***************************************************************************)

LEMMA FitsMore ==
    ASSUME NEW q \in Seq(Nat), NEW t \in Nat, NEW u \in Nat, t <= u, Fits(q, t)
    PROVE  Fits(q, u)
<1>1. PICK f \in [0..Len(q) -> 0..t] :
        /\ f[0] = 0
        /\ \A i \in 1..Len(q) : f[i] = f[i - 1] + q[i]
        /\ \A i, j \in 0..Len(q) : i <= j => f[i] <= f[j]
  BY DEF Fits
<1>2. 0..t \subseteq 0..u
  OBVIOUS
<1>3. f \in [0..Len(q) -> 0..u]
  BY <1>2
<1>. QED
  BY <1>1, <1>3 DEF Fits

LEMMA FitsAppend ==
    ASSUME NEW q \in Seq(Nat), NEW t \in Nat, NEW b \in Nat, Fits(q, t)
    PROVE  Fits(Append(q, b), t + b)
<1>1. PICK f \in [0..Len(q) -> 0..t] :
        /\ f[0] = 0
        /\ \A i \in 1..Len(q) : f[i] = f[i - 1] + q[i]
        /\ \A i, j \in 0..Len(q) : i <= j => f[i] <= f[j]
  BY DEF Fits
<1>. DEFINE n == Len(q)
            r == Append(q, b)
            g == [i \in 0..(n + 1) |-> IF i = n + 1 THEN f[n] + b ELSE f[i]]
<1>2. /\ n \in Nat /\ Len(r) = n + 1 /\ r[n + 1] = b
      /\ \A i \in 1..n : r[i] = q[i] /\ q[i] \in Nat
  BY QueueFacts
<1>3. \A i \in 0..n : f[i] \in 0..t
  OBVIOUS
<1>. HIDE DEF n, r
<1>4. \A i \in 0..n : g[i] = f[i]
  <2>1. \A i \in 0..n : i \in 0..(n + 1) /\ i # n + 1
    BY <1>2
  <2>. QED
    BY <2>1
<1>5. g[n + 1] = f[n] + b /\ n \in 0..n
  <2>1. n + 1 \in 0..(n + 1) /\ n \in 0..n
    BY <1>2
  <2>. QED
    BY <2>1
<1>6. \A i \in 0..(n + 1) : g[i] \in 0..(t + b)
  <2>. SUFFICES ASSUME NEW i \in 0..(n + 1) PROVE g[i] \in 0..(t + b)
    OBVIOUS
  <2>. HIDE DEF g
  <2>1. CASE i \in 0..n
    BY <1>3, <1>4, <2>1
  <2>2. CASE i = n + 1
    BY <1>3, <1>5, <2>2
  <2>. QED
    BY <1>2, <2>1, <2>2
<1>7. g \in [0..(n + 1) -> 0..(t + b)]
  BY <1>6
<1>. HIDE DEF g
<1>8. g[0] = 0
  BY <1>1, <1>2, <1>4
<1>9. \A i \in 1..(n + 1) : g[i] = g[i - 1] + r[i]
  <2>. SUFFICES ASSUME NEW i \in 1..(n + 1) PROVE g[i] = g[i - 1] + r[i]
    OBVIOUS
  <2>1. CASE i = n + 1
    <3>1. i - 1 = n /\ n \in 0..n
      BY <1>2, <2>1
    <3>. QED
      BY <1>2, <1>4, <1>5, <2>1, <3>1
  <2>2. CASE i # n + 1
    <3>1. i \in 1..n /\ i \in 0..n /\ i - 1 \in 0..n
      BY <1>2, <2>2
    <3>2. f[i] = f[i - 1] + q[i]
      BY <1>1, <3>1 DEF n
    <3>. QED
      BY <1>2, <1>4, <3>1, <3>2
  <2>. QED
    BY <2>1, <2>2
<1>10. \A i, j \in 0..(n + 1) : i <= j => g[i] <= g[j]
  <2>. SUFFICES ASSUME NEW i \in 0..(n + 1), NEW j \in 0..(n + 1), i <= j
                PROVE  g[i] <= g[j]
    OBVIOUS
  <2>1. CASE j \in 0..n
    <3>1. i \in 0..n
      BY <1>2, <2>1
    <3>2. f[i] <= f[j]
      BY <1>1, <2>1, <3>1 DEF n
    <3>. QED
      BY <1>4, <2>1, <3>1, <3>2
  <2>2. CASE j = n + 1 /\ i \in 0..n
    <3>1. n \in 0..n /\ i <= n
      BY <1>2, <2>2
    <3>2. f[i] <= f[n]
      BY <1>1, <2>2, <3>1 DEF n
    <3>3. g[i] = f[i] /\ g[j] = f[n] + b /\ f[i] \in Nat /\ f[n] \in Nat
      BY <1>3, <1>4, <1>5, <2>2
    <3>. QED
      BY <3>2, <3>3
  <2>3. CASE j = n + 1 /\ i = n + 1
    BY <1>3, <1>5, <2>3
  <2>. QED
    BY <1>2, <2>1, <2>2, <2>3
<1>11. g \in [0..Len(r) -> 0..(t + b)]
  BY <1>2, <1>7
<1>12. Fits(r, t + b)
  BY <1>2, <1>8, <1>9, <1>10, <1>11 DEF Fits
<1>. QED
  BY <1>12 DEF r

\* The oldest value is part of the total, and what is left of it covers what
\* is left of the window.
LEMMA FitsTail ==
    ASSUME NEW q \in Seq(Nat), NEW t \in Nat, Len(q) > 0, Fits(q, t)
    PROVE  t - Head(q) \in Nat /\ Fits(Tail(q), t - Head(q))
<1>1. PICK f \in [0..Len(q) -> 0..t] :
        /\ f[0] = 0
        /\ \A i \in 1..Len(q) : f[i] = f[i - 1] + q[i]
        /\ \A i, j \in 0..Len(q) : i <= j => f[i] <= f[j]
  BY DEF Fits
<1>. DEFINE n == Len(q) - 1
            h == Head(q)
            r == Tail(q)
            g == [i \in 0..n |-> f[i + 1] - h]
<1>2. /\ n \in Nat /\ Len(q) = n + 1 /\ Len(r) = n /\ h = q[1] /\ h \in Nat
      /\ \A i \in 1..n : r[i] = q[i + 1]
      /\ \A i \in 1..(n + 1) : q[i] \in Nat
  BY QueueFacts
<1>. HIDE DEF n, h, r
<1>3. \A i \in 0..n : g[i] = f[i + 1] - h
  OBVIOUS
<1>4. f[1] = h
  BY <1>1, <1>2
<1>5. \A i \in 0..n : f[i + 1] \in 0..t /\ h <= f[i + 1]
  <2>. SUFFICES ASSUME NEW i \in 0..n PROVE f[i + 1] \in 0..t /\ h <= f[i + 1]
    OBVIOUS
  <2>1. i + 1 \in 0..Len(q) /\ 1 \in 0..Len(q) /\ 1 <= i + 1
    BY <1>2
  <2>. QED
    BY <1>1, <1>4, <2>1
<1>6. t - h \in Nat
  BY <1>2, <1>5
<1>7. \A i \in 0..n : g[i] \in 0..(t - h)
  BY <1>2, <1>3, <1>5
<1>8. g \in [0..n -> 0..(t - h)]
  BY <1>7
<1>9. g[0] = 0
  BY <1>2, <1>3, <1>4
<1>10. \A i \in 1..n : g[i] = g[i - 1] + r[i]
  <2>. SUFFICES ASSUME NEW i \in 1..n PROVE g[i] = g[i - 1] + r[i]
    OBVIOUS
  <2>1. i \in 0..n /\ i - 1 \in 0..n /\ i + 1 \in 1..Len(q) /\ (i - 1) + 1 = i
        /\ (i + 1) - 1 = i
    BY <1>2
  <2>2. f[i + 1] = f[i] + q[i + 1]
    BY <1>1, <2>1
  <2>. HIDE DEF g
  <2>3. g[i] = f[i + 1] - h /\ g[i - 1] = f[i] - h
    BY <1>3, <2>1
  <2>4. f[i] \in Nat /\ q[i + 1] \in Nat /\ r[i] = q[i + 1] /\ h \in Nat
    <3>1. f[(i - 1) + 1] \in 0..t
      BY <1>5, <2>1
    <3>. QED
      BY <1>2, <2>1, <3>1
  <2>. QED
    BY <2>2, <2>3, <2>4
<1>11. \A i, j \in 0..n : i <= j => g[i] <= g[j]
  <2>. SUFFICES ASSUME NEW i \in 0..n, NEW j \in 0..n, i <= j PROVE g[i] <= g[j]
    OBVIOUS
  <2>1. i + 1 \in 0..Len(q) /\ j + 1 \in 0..Len(q) /\ i + 1 <= j + 1
    BY <1>2
  <2>2. f[i + 1] <= f[j + 1]
    BY <1>1, <2>1
  <2>. QED
    BY <1>2, <1>3, <1>5, <2>2
<1>. HIDE DEF g
<1>12. Fits(r, t - h)
  BY <1>2, <1>8, <1>9, <1>10, <1>11 DEF Fits
<1>. QED
  BY <1>6, <1>12 DEF h, r

\* Steps that touch neither the counter nor the window.
LEMMA WindowKept ==
    ASSUME WindowInv, UNCHANGED <<queue, totBytes, byteCounter, reg>>,
           pc'["mon"] = "total" <=> pc["mon"] = "total",
           pc'["main"] = "store" => pc["main"] = "store",
           "assert" \in mishaps' => "assert" \in mishaps
    PROVE  WindowInv'
  BY DEF WindowInv, AssertionsHold

LEMMA InitWindow == Init => WindowInv
<1>. SUFFICES ASSUME Init PROVE WindowInv
  OBVIOUS
<1>1. pc["main"] = "wait" /\ pc["mon"] = "sleep"
  BY DEF Init, Threads
<1>2. Fits(<<>>, 0)
  <2>. DEFINE f == [i \in 0..0 |-> 0]
  <2>1. Len(<<>>) = 0 /\ f \in [0..0 -> 0..0] /\ f[0] = 0
    OBVIOUS
  <2>2. \A i \in 1..0 : f[i] = f[i - 1] + (<<>>)[i]
    OBVIOUS
  <2>3. \A i, j \in 0..0 : i <= j => f[i] <= f[j]
    OBVIOUS
  <2>. HIDE DEF f
  <2>. QED
    BY <2>1, <2>2, <2>3 DEF Fits
<1>. QED
  BY <1>1, <1>2 DEF Init, WindowInv, AssertionsHold

LEMMA TerminateWindow ==
    ASSUME TypeOK, WindowInv, NEW th \in Threads, TerminateCapture(th)
    PROVE  WindowInv'
<1>1. UNCHANGED <<queue, totBytes, byteCounter, reg>>
  BY DEF TerminateCapture, TerminateFiles, TerminateStats, TerminateClose,
         TerminateExit, volumeVars, windowVars
<1>2. "assert" \in mishaps' => "assert" \in mishaps
  BY DEF TerminateCapture, TerminateFiles, TerminateStats, TerminateClose, TerminateExit
<1>3. TerminatePCs \subseteq PCs[th]
  BY DEF PCs, Threads
<1>4. pc' = pc \/ \E place \in TerminatePCs : Goto(th, place)
  BY DEF TerminateCapture, TerminateFiles, TerminateStats, TerminateClose,
         TerminateExit, TerminatePCs, Ends
<1>5. pc[th] \in TerminatePCs
  BY DEF TerminateCapture, TerminateFiles, TerminateStats, TerminateClose,
         TerminateExit, TerminatePCs, At
<1>6. pc' = pc \/ (pc'[th] \in TerminatePCs /\ \A t \in Threads \ {th} : pc'[t] = pc[t])
  BY <1>3, <1>4, GotoType
<1>7. pc'["mon"] = "total" <=> pc["mon"] = "total"
  BY <1>5, <1>6 DEF Threads, TerminatePCs
<1>8. pc'["main"] = "store" => pc["main"] = "store"
  BY <1>5, <1>6 DEF Threads, TerminatePCs
<1>. QED
  BY <1>1, <1>2, <1>7, <1>8, WindowKept

\* The moves of the two threads.
LEMMA MainMoves ==
    ASSUME TypeOK, NEW place \in PCs["main"], Goto("main", place)
    PROVE  pc'["main"] = place /\ pc'["mon"] = pc["mon"]
<1>1. "main" \in Threads /\ "mon" \in Threads \ {"main"}
  BY DEF Threads
<1>. QED
  BY <1>1, GotoType

LEMMA MonMoves ==
    ASSUME TypeOK, NEW place \in PCs["mon"], Goto("mon", place)
    PROVE  pc'["mon"] = place /\ pc'["main"] = pc["main"]
<1>1. "mon" \in Threads /\ "main" \in Threads \ {"mon"}
  BY DEF Threads
<1>. QED
  BY <1>1, GotoType

LEMMA MainWindow ==
    ASSUME TypeOK, WindowInv,
           Receive \/ ReceiveCrashes \/ ReceiveExits \/ LoopReturns \/ LoadCounter \/ StoreCounter
             \/ LoopEnded \/ MainRemoves \/ MainFallsThrough
    PROVE  WindowInv'
<1>. USE DEF volumeVars, windowVars, handleVars
<1>1. {"wait", "load", "store", "ended", "remove", "files"} \subseteq PCs["main"]
  BY DEF PCs, TerminatePCs
<1>2. /\ queue \in Seq(Nat) /\ totBytes \in Nat /\ byteCounter \in Nat
      /\ reg \in Nat /\ len \in Nat
  BY DEF TypeOK, VolumeOK
<1>3. CASE Receive \/ ReceiveCrashes \/ ReceiveExits \/ LoopReturns \/ LoopEnded \/ MainRemoves
             \/ MainFallsThrough
  <2>1. UNCHANGED <<queue, totBytes, byteCounter, reg>>
    BY <1>3 DEF Receive, ReceiveCrashes, ReceiveExits, LoopReturns, LoopEnded, MainRemoves,
                MainFallsThrough
  <2>2. "assert" \in mishaps' => "assert" \in mishaps
    BY <1>3 DEF Receive, ReceiveCrashes, ReceiveExits, LoopReturns, LoopEnded, MainRemoves,
                MainFallsThrough
  <2>3. pc' = pc \/ \E place \in {"load", "ended", "remove", "files"} : Goto("main", place)
    BY <1>3 DEF Receive, ReceiveCrashes, ReceiveExits, LoopReturns, LoopEnded, MainRemoves,
                MainFallsThrough, Ends
  <2>4. pc' = pc \/ (pc'["main"] # "store" /\ pc'["mon"] = pc["mon"])
    BY <1>1, <2>3, MainMoves
  <2>. QED
    BY <2>1, <2>2, <2>4, WindowKept
<1>4. CASE LoadCounter
  <2>1. pc'["mon"] = pc["mon"]
    BY <1>1, <1>4, MainMoves DEF LoadCounter
  <2>2. UNCHANGED <<queue, totBytes, byteCounter, mishaps>> /\ reg' = byteCounter
    BY <1>4 DEF LoadCounter
  <2>. QED
    BY <2>1, <2>2 DEF WindowInv, AssertionsHold
<1>5. CASE StoreCounter
  <2>1. pc'["mon"] = pc["mon"] /\ pc'["main"] = "wait" /\ pc["main"] = "store"
    BY <1>1, <1>5, MainMoves DEF StoreCounter, At
  <2>2. UNCHANGED <<queue, totBytes, mishaps>> /\ byteCounter' = reg + len
    BY <1>5 DEF StoreCounter
  <2>3. byteCounter \in {reg, 0}
    BY <2>1 DEF WindowInv
  <2>4. byteCounter <= byteCounter' /\ byteCounter' \in Nat
    BY <1>2, <2>2, <2>3
  <2>5. CASE pc["mon"] = "total"
    <3>1. Fits(queue, totBytes + byteCounter)
      BY <2>5 DEF WindowInv
    <3>2. Fits(queue, totBytes + byteCounter')
      <4>1. /\ totBytes + byteCounter \in Nat /\ totBytes + byteCounter' \in Nat
            /\ totBytes + byteCounter <= totBytes + byteCounter'
        BY <1>2, <2>2, <2>4
      <4>. QED
        BY <1>2, <3>1, <4>1, FitsMore
    <3>. QED
      BY <2>1, <2>2, <2>5, <3>2 DEF WindowInv, AssertionsHold
  <2>6. CASE pc["mon"] # "total"
    BY <2>1, <2>2, <2>6 DEF WindowInv, AssertionsHold
  <2>. QED
    BY <2>5, <2>6
<1>. QED
  BY <1>3, <1>4, <1>5

LEMMA MonWindow ==
    ASSUME TypeOK, WindowInv,
           MonStops \/ MonRemoves \/ MonTicks \/ MonOpens \/ MonEnqueues \/ MonAdds
             \/ MonResets \/ MonWrites
    PROVE  WindowInv'
<1>. USE DEF volumeVars, windowVars, handleVars
<1>1. {"sleep", "remove", "files", "open", "enqueue", "total", "reset", "write"}
         \subseteq PCs["mon"]
  BY DEF PCs, TerminatePCs
<1>2. /\ queue \in Seq(Nat) /\ totBytes \in Nat /\ byteCounter \in Nat /\ reg \in Nat
      /\ Len(queue) \in Nat /\ Capacity \in Nat \ {0}
  BY WindowAssumption, QueueFacts DEF TypeOK, VolumeOK
<1>3. CASE MonStops \/ MonRemoves \/ MonTicks \/ MonOpens \/ MonWrites
  <2>1. UNCHANGED <<queue, totBytes, byteCounter, reg>>
    BY <1>3 DEF MonStops, MonRemoves, MonTicks, MonOpens, MonWrites
  <2>2. "assert" \in mishaps' => "assert" \in mishaps
    BY <1>3 DEF MonStops, MonRemoves, MonTicks, MonOpens, MonWrites
  <2>3. /\ pc["mon"] # "total"
        /\ pc' = pc \/ \E place \in {"sleep", "remove", "files", "open", "enqueue"} :
                         Goto("mon", place)
    BY <1>3 DEF MonStops, MonRemoves, MonTicks, MonOpens, MonWrites, Ends, At
  <2>4. pc'["mon"] # "total" /\ pc'["main"] = pc["main"]
    BY <1>1, <2>3, MonMoves
  <2>. QED
    BY <2>1, <2>2, <2>3, <2>4, WindowKept
<1>4. CASE MonEnqueues
  <2>1. pc["mon"] = "enqueue" /\ UNCHANGED <<byteCounter, reg>>
    BY <1>4 DEF MonEnqueues, At
  <2>2. Fits(queue, totBytes) /\ AssertionsHold
    BY <2>1 DEF WindowInv
  <2>3. CASE Len(queue) < Capacity
    <3>1. Enters(queue) /\ UNCHANGED <<totBytes, mishaps>>
      BY <1>2, <1>4, <2>3 DEF MonEnqueues
    <3>2. Fits(queue', totBytes' + byteCounter')
      BY <1>2, <2>1, <2>2, <3>1, FitsAppend DEF Enters
    <3>3. pc'["mon"] = "total" /\ pc'["main"] = pc["main"]
      BY <1>1, <3>1, MonMoves DEF Enters
    <3>. QED
      BY <2>1, <3>1, <3>2, <3>3 DEF WindowInv, AssertionsHold
  <2>4. CASE Len(queue) >= Capacity
    <3>1. totBytes - Head(queue) \in Nat /\ Fits(Tail(queue), totBytes - Head(queue))
          /\ Tail(queue) \in Seq(Nat)
      BY <1>2, <2>2, <2>4, FitsTail, QueueFacts
    <3>2. Enters(Tail(queue)) /\ totBytes' = totBytes - Head(queue) /\ UNCHANGED mishaps
      BY <1>2, <1>4, <2>4, <3>1 DEF MonEnqueues
    <3>3. Fits(queue', totBytes' + byteCounter')
      BY <1>2, <2>1, <3>1, <3>2, FitsAppend DEF Enters
    <3>4. pc'["mon"] = "total" /\ pc'["main"] = pc["main"]
      BY <1>1, <3>2, MonMoves DEF Enters
    <3>. QED
      BY <2>1, <3>2, <3>3, <3>4 DEF WindowInv, AssertionsHold
  <2>. QED
    BY <1>2, <2>3, <2>4
<1>5. CASE MonAdds
  <2>1. /\ pc["mon"] = "total" /\ pc'["mon"] = "reset" /\ pc'["main"] = pc["main"]
        /\ UNCHANGED <<queue, byteCounter, reg, mishaps>>
        /\ totBytes' = totBytes + byteCounter
    BY <1>1, <1>5, MonMoves DEF MonAdds, At
  <2>. QED
    BY <2>1 DEF WindowInv, AssertionsHold
<1>6. CASE MonResets
  <2>1. /\ pc["mon"] = "reset" /\ pc'["mon"] = "write" /\ pc'["main"] = pc["main"]
        /\ UNCHANGED <<queue, totBytes, reg, mishaps>> /\ byteCounter' = 0
    BY <1>1, <1>6, MonMoves DEF MonResets, At
  <2>. QED
    BY <2>1 DEF WindowInv, AssertionsHold
<1>. QED
  BY <1>3, <1>4, <1>5, <1>6

LEMMA WindowNext == TypeOK /\ WindowInv /\ [Next]_vars => WindowInv'
<1>. SUFFICES ASSUME TypeOK, WindowInv, [Next]_vars PROVE WindowInv'
  OBVIOUS
<1>1. CASE \E th \in Threads : TerminateCapture(th)
  BY <1>1, TerminateWindow
<1>2. CASE StopFileChanges \/ UNCHANGED vars
  BY <1>2, WindowKept DEF StopFileChanges, vars, volumeVars, windowVars
<1>. QED
  BY <1>1, <1>2, MainWindow, MonWindow DEF Next, MainRuns, MonRuns, Threads

\* The total covers the window, between the two reads of byteCounter too.
THEOREM WindowCorrect == Spec => []WindowInv
<1>1. TypeOK /\ WindowInv /\ [Next]_vars => TypeOK' /\ WindowInv'
  BY TypeNext, WindowNext
<1>. QED
  BY InitType, InitWindow, <1>1, PTL DEF Spec

\* MyAssert (user_input.c:405) never fails, whatever packets arrive when.
THEOREM AssertionsCorrect == Spec => []AssertionsHold
<1>1. WindowInv => AssertionsHold
  BY DEF WindowInv
<1>. QED
  BY WindowCorrect, <1>1, PTL

(***************************************************************************)
(* The file dc_activity.                                                   *)
(***************************************************************************)

LEMMA InitActivity == Init => ActivityInv
  BY DEF Init, ActivityInv, Threads

\* Nothing takes a mishap back.
LEMMA MishapsStay ==
    ASSUME [Next]_vars
    PROVE  mishaps \subseteq mishaps'
<1>. USE DEF volumeVars, windowVars, handleVars
<1>1. CASE MainRuns \/ Receive \/ ReceiveCrashes \/ ReceiveExits \/ LoopReturns
  BY <1>1 DEF MainRuns, Receive, ReceiveCrashes, ReceiveExits, LoopReturns, LoadCounter,
      StoreCounter, LoopEnded, MainRemoves, MainFallsThrough, TerminateCapture, TerminateFiles,
      TerminateStats, TerminateClose, TerminateExit
<1>2. CASE MonRuns
  BY <1>2 DEF MonRuns, MonStops, MonRemoves, MonTicks, MonOpens, MonEnqueues, MonAdds,
      MonResets, MonWrites, TerminateCapture, TerminateFiles, TerminateStats,
      TerminateClose, TerminateExit
<1>3. CASE StopFileChanges \/ UNCHANGED vars
  BY <1>3 DEF StopFileChanges, vars
<1>. QED
  BY <1>1, <1>2, <1>3 DEF Next

LEMMA TerminateActivity ==
    ASSUME TypeOK, ActivityInv, mishaps' = {}, mishaps = {},
           NEW th \in Threads, TerminateCapture(th)
    PROVE  ActivityInv'
<1>1. TerminatePCs \subseteq PCs[th]
  BY DEF PCs, Threads
<1>2. UNCHANGED <<exitFlag, activity>>
  BY DEF TerminateCapture, TerminateFiles, TerminateStats, TerminateClose, TerminateExit
<1>3. pc[th] \in {"files", "stats", "close", "exit"}
  BY DEF TerminateCapture, TerminateFiles, TerminateStats, TerminateClose,
         TerminateExit, At
<1>4. pc' = pc \/ \E place \in {"stats", "close", "exit"} : Goto(th, place)
  BY DEF TerminateCapture, TerminateFiles, TerminateStats, TerminateClose,
         TerminateExit, Ends
<1>5. \/ pc' = pc
      \/ /\ pc'[th] \in {"stats", "close", "exit"}
         /\ \A t \in Threads \ {th} : pc'[t] = pc[t]
  BY <1>1, <1>4, GotoType DEF TerminatePCs
<1>6. activity = NoFile /\ exitFlag
  BY <1>3 DEF ActivityInv
<1>7. pc'["mon"] \in {"remove", "files", "stats", "close", "exit"}
        <=> pc["mon"] \in {"remove", "files", "stats", "close", "exit"}
  BY <1>3, <1>5 DEF Threads
<1>8. \A t \in Threads : pc'[t] # "returned"
  BY <1>3, <1>5 DEF Threads, ActivityInv
<1>. QED
  BY <1>2, <1>6, <1>7, <1>8 DEF ActivityInv

LEMMA MainActivity ==
    ASSUME TypeOK, ActivityInv, mishaps' = {}, mishaps = {},
           Receive \/ ReceiveCrashes \/ ReceiveExits \/ LoopReturns \/ LoadCounter \/ StoreCounter
             \/ LoopEnded \/ MainRemoves \/ MainFallsThrough
    PROVE  ActivityInv'
<1>. USE DEF volumeVars, windowVars, handleVars, At, Threads
<1>1. {"wait", "load", "store", "ended", "remove", "files"} \subseteq PCs["main"]
  BY DEF PCs, TerminatePCs
<1>2. CASE Receive \/ LoadCounter \/ StoreCounter
  <2>1. pc'["mon"] = pc["mon"] /\ pc'["main"] \in {"wait", "load", "store"} /\ proc' = proc
    BY <1>1, <1>2, MainMoves DEF Receive, LoadCounter, StoreCounter, Goto
  <2>2. UNCHANGED <<exitFlag, activity, filesOpen, pdOpen>>
    BY <1>2 DEF Receive, LoadCounter, StoreCounter
  <2>. QED
    BY <2>1, <2>2 DEF ActivityInv
<1>3. CASE ReceiveCrashes
  <2>1. pc' = pc /\ UNCHANGED <<exitFlag, activity>> /\ ~(filesOpen /\ pdOpen)
    BY <1>3 DEF ReceiveCrashes, Ends
  <2>2. activity = NoFile /\ exitFlag
    BY <2>1 DEF ActivityInv
  <2>. QED
    BY <2>1, <2>2 DEF ActivityInv
<1>4. CASE LoopReturns
  <2>1. /\ pc'["mon"] = pc["mon"] /\ pc'["main"] = "ended" /\ proc' = proc
        /\ UNCHANGED <<exitFlag, activity, filesOpen, pdOpen>>
    BY <1>1, <1>4, MainMoves DEF LoopReturns, Goto
  <2>2. exitFlag
    BY <1>4 DEF LoopReturns
  <2>. QED
    BY <2>1, <2>2 DEF ActivityInv
<1>5. CASE LoopEnded
  <2>1. /\ pc'["mon"] = pc["mon"] /\ pc'["main"] = "remove" /\ proc' = proc
        /\ UNCHANGED <<activity, filesOpen, pdOpen>> /\ exitFlag' = TRUE
    BY <1>1, <1>5, MainMoves DEF LoopEnded, Goto
  <2>2. exitFlag
    BY <1>5 DEF LoopEnded, ActivityInv
  <2>. QED
    BY <2>1, <2>2 DEF ActivityInv
<1>6. CASE MainRemoves
  <2>1. /\ pc'["mon"] = pc["mon"] /\ pc'["main"] = "files" /\ proc' = proc
        /\ UNCHANGED <<exitFlag, filesOpen, pdOpen>> /\ activity' = NoFile
    BY <1>1, <1>6, MainMoves DEF MainRemoves, Goto
  <2>2. exitFlag
    BY <1>6 DEF MainRemoves, ActivityInv
  <2>. QED
    BY <2>1, <2>2 DEF ActivityInv
<1>7. CASE MainFallsThrough
  BY <1>7 DEF MainFallsThrough, ActivityInv
<1>8. CASE ReceiveExits
  BY <1>8 DEF ReceiveExits
<1>. QED
  BY <1>2, <1>3, <1>4, <1>5, <1>6, <1>7, <1>8

LEMMA MonActivity ==
    ASSUME TypeOK, ActivityInv, mishaps' = {}, mishaps = {},
           MonStops \/ MonRemoves \/ MonTicks \/ MonOpens \/ MonEnqueues \/ MonAdds
             \/ MonResets \/ MonWrites
    PROVE  ActivityInv'
<1>. USE DEF volumeVars, windowVars, handleVars, At, Threads
<1>. DEFINE Ending == {"remove", "files", "stats", "close", "exit"}
<1>1. {"sleep", "remove", "files", "open", "enqueue", "total", "reset", "write"}
         \subseteq PCs["mon"]
  BY DEF PCs, TerminatePCs
<1>2. CASE MonStops
  <2>1. /\ pc'["mon"] = "remove" /\ pc'["main"] = pc["main"] /\ proc' = proc
        /\ pc["mon"] = "sleep" /\ exitFlag' = TRUE
        /\ UNCHANGED <<activity, filesOpen, pdOpen>>
    BY <1>1, <1>2, MonMoves DEF MonStops, Goto
  <2>2. ~exitFlag
    BY <2>1 DEF ActivityInv
  <2>. QED
    BY <2>1, <2>2 DEF ActivityInv
<1>3. CASE MonRemoves
  <2>1. /\ pc'["mon"] = "files" /\ pc'["main"] = pc["main"] /\ proc' = proc
        /\ pc["mon"] = "remove" /\ activity' = NoFile
        /\ UNCHANGED <<exitFlag, filesOpen, pdOpen>>
    BY <1>1, <1>3, MonMoves DEF MonRemoves, Goto
  <2>2. exitFlag
    BY <2>1 DEF ActivityInv
  <2>. QED
    BY <2>1, <2>2 DEF ActivityInv
<1>4. CASE MonTicks \/ MonOpens \/ MonEnqueues \/ MonAdds \/ MonResets \/ MonWrites
  <2>1. pc["mon"] \notin Ending /\ pc["mon"] # "returned" /\ proc = "running"
    BY <1>4 DEF MonTicks, MonOpens, MonEnqueues, MonAdds, MonResets, MonWrites, ActivityInv
  <2>2. \E place \in {"sleep", "open", "enqueue", "total", "reset", "write"} :
          Goto("mon", place)
    BY <1>4 DEF MonTicks, MonOpens, MonEnqueues, MonAdds, MonResets, MonWrites, Enters
  <2>3. pc'["mon"] \notin Ending \cup {"returned"} /\ pc'["main"] = pc["main"]
        /\ proc' = proc
    BY <1>1, <2>2, MonMoves DEF Goto
  <2>4. UNCHANGED <<exitFlag, filesOpen, pdOpen>>
    BY <1>4 DEF MonTicks, MonOpens, MonEnqueues, MonAdds, MonResets, MonWrites
  <2>5. ~exitFlag
    BY <2>1 DEF ActivityInv
  <2>. QED
    BY <2>1, <2>3, <2>4, <2>5 DEF ActivityInv
<1>. QED
  BY <1>2, <1>3, <1>4

LEMMA ActivityNext == TypeOK /\ ActivityInv /\ [Next]_vars => ActivityInv'
<1>. SUFFICES ASSUME TypeOK, ActivityInv, [Next]_vars PROVE ActivityInv'
  OBVIOUS
<1>1. CASE mishaps' # {}
  BY <1>1 DEF ActivityInv
<1>2. CASE mishaps' = {} /\ mishaps = {}
  <2>1. CASE \E th \in Threads : TerminateCapture(th)
    BY <1>2, <2>1, TerminateActivity
  <2>2. CASE StopFileChanges \/ UNCHANGED vars
    BY <2>2 DEF StopFileChanges, vars, handleVars, ActivityInv
  <2>. QED
    BY <1>2, <2>1, <2>2, MainActivity, MonActivity DEF Next, MainRuns, MonRuns, Threads
<1>. QED
  BY <1>1, <1>2, MishapsStay

\* A process that ended without a mishap has left no dc_activity behind,
\* whichever thread ended it and wherever the other one was.
THEOREM ActivityCorrect == Spec => []ActivityRemoved
<1>1. TypeOK /\ ActivityInv /\ [Next]_vars => TypeOK' /\ ActivityInv'
  BY TypeNext, ActivityNext
<1>2. ActivityInv => ActivityRemoved
  BY DEF ActivityInv, ActivityRemoved
<1>. QED
  BY InitType, InitActivity, <1>1, <1>2, PTL DEF Spec

(***************************************************************************)
(* The end of the process.                                                 *)
(***************************************************************************)

\* While pcap_stats has not failed TerminateCapture does not return, and once
\* exitFlag is set one of the threads is past the place where it is set.
OnItsWay(th) == pc[th] \in {"remove", "files", "stats", "close", "exit"}
ExitInv ==
    proc = "running" /\ "stats" \notin mishaps =>
        /\ \A th \in Threads : pc[th] # "returned"
        /\ exitFlag => \E th \in Threads : OnItsWay(th)

\* A thread stays where it is, moves about in its loop, or comes one place nearer
\* to the end.
Onward(th) ==
    \/ pc'[th] = pc[th]
    \/ ~OnItsWay(th) /\ pc'[th] # "returned"
    \/ <<pc[th], pc'[th]>> \in {<<"remove", "files">>, <<"files", "stats">>,
                                <<"stats", "close">>, <<"close", "exit">>}
Onwards ==
    /\ \A th \in Threads : Onward(th)
    /\ exitFlag' => exitFlag \/ \E th \in Threads : pc'[th] = "remove"

LEMMA TerminateOnwards ==
    ASSUME TypeOK, NEW th \in Threads, TerminateCapture(th), "stats" \notin mishaps'
    PROVE  proc' # "running" \/ Onwards
<1>1. UNCHANGED exitFlag
  BY DEF TerminateCapture, TerminateFiles, TerminateStats, TerminateClose, TerminateExit
<1>2. \/ proc' # "running"
      \/ \E place \in {"stats", "close", "exit"} :
            /\ Goto(th, place)
            /\ <<pc[th], place>> \in {<<"files", "stats">>, <<"stats", "close">>,
                                     <<"close", "exit">>}
  BY DEF TerminateCapture, TerminateFiles, TerminateStats, TerminateClose,
         TerminateExit, Ends, At
<1>3. TerminatePCs \subseteq PCs[th]
  BY DEF PCs, Threads
<1>4. ASSUME NEW place \in {"stats", "close", "exit"}, Goto(th, place)
      PROVE  pc'[th] = place /\ \A t \in Threads \ {th} : pc'[t] = pc[t]
  BY <1>3, <1>4, GotoType DEF TerminatePCs
<1>. QED
  BY <1>1, <1>2, <1>4 DEF Onwards, Onward

LEMMA MainOnwards ==
    ASSUME TypeOK,
           Receive \/ ReceiveCrashes \/ ReceiveExits \/ LoopReturns \/ LoadCounter \/ StoreCounter
             \/ LoopEnded \/ MainRemoves \/ MainFallsThrough
    PROVE  proc' # "running" \/ Onwards
<1>. USE DEF At, Threads, OnItsWay, Onwards, Onward
<1>1. {"wait", "load", "store", "ended", "remove", "files"} \subseteq PCs["main"]
  BY DEF PCs, TerminatePCs
<1>2. CASE Receive \/ LoadCounter \/ StoreCounter \/ LoopReturns
  <2>1. \E place \in {"wait", "load", "store", "ended"} : Goto("main", place)
    BY <1>2 DEF Receive, LoadCounter, StoreCounter, LoopReturns
  <2>2. pc["main"] \in {"wait", "load", "store"} /\ UNCHANGED exitFlag
    BY <1>2 DEF Receive, LoadCounter, StoreCounter, LoopReturns
  <2>3. pc'["main"] \in {"wait", "load", "store", "ended"} /\ pc'["mon"] = pc["mon"]
    BY <1>1, <2>1, MainMoves
  <2>. QED
    BY <2>2, <2>3
<1>3. CASE LoopEnded
  <2>1. pc["main"] = "ended" /\ pc'["main"] = "remove" /\ pc'["mon"] = pc["mon"]
    BY <1>1, <1>3, MainMoves DEF LoopEnded
  <2>. QED
    BY <2>1
<1>4. CASE MainRemoves
  <2>1. /\ pc["main"] = "remove" /\ pc'["main"] = "files" /\ pc'["mon"] = pc["mon"]
        /\ UNCHANGED exitFlag
    BY <1>1, <1>4, MainMoves DEF MainRemoves
  <2>. QED
    BY <2>1
<1>5. CASE ReceiveCrashes \/ ReceiveExits \/ MainFallsThrough
  BY <1>5 DEF ReceiveCrashes, ReceiveExits, MainFallsThrough, Ends
<1>. QED
  BY <1>2, <1>3, <1>4, <1>5

LEMMA MonOnwards ==
    ASSUME TypeOK, pc["mon"] # "returned",
           MonStops \/ MonRemoves \/ MonTicks \/ MonOpens \/ MonEnqueues \/ MonAdds
             \/ MonResets \/ MonWrites
    PROVE  proc' # "running" \/ Onwards
<1>. USE DEF At, Threads, OnItsWay, Onwards, Onward
<1>1. {"sleep", "remove", "files", "open", "enqueue", "total", "reset", "write"}
         \subseteq PCs["mon"]
  BY DEF PCs, TerminatePCs
<1>2. CASE MonStops
  <2>1. pc["mon"] = "sleep" /\ pc'["mon"] = "remove" /\ pc'["main"] = pc["main"]
    BY <1>1, <1>2, MonMoves DEF MonStops
  <2>. QED
    BY <2>1
<1>3. CASE MonRemoves
  <2>1. /\ pc["mon"] = "remove" /\ pc'["mon"] = "files" /\ pc'["main"] = pc["main"]
        /\ UNCHANGED exitFlag
    BY <1>1, <1>3, MonMoves DEF MonRemoves
  <2>. QED
    BY <2>1
<1>4. CASE MonTicks \/ MonOpens \/ MonEnqueues \/ MonAdds \/ MonResets \/ MonWrites
  <2>1. /\ pc["mon"] \in {"sleep", "open", "enqueue", "total", "reset", "write"}
        /\ UNCHANGED exitFlag
    BY <1>4 DEF MonTicks, MonOpens, MonEnqueues, MonAdds, MonResets, MonWrites
  <2>2. \/ proc' # "running"
        \/ \E place \in {"sleep", "open", "enqueue", "total", "reset", "write"} :
              Goto("mon", place)
    BY <1>4 DEF MonTicks, MonOpens, MonEnqueues, MonAdds, MonResets, MonWrites, Enters, Ends
  <2>3. ASSUME NEW place \in {"sleep", "open", "enqueue", "total", "reset", "write"},
               Goto("mon", place)
        PROVE  pc'["mon"] = place /\ pc'["main"] = pc["main"]
    BY <1>1, <2>3, MonMoves
  <2>. QED
    BY <2>1, <2>2, <2>3
<1>. QED
  BY <1>2, <1>3, <1>4

LEMMA NextOnwards ==
    ASSUME TypeOK, ExitInv, [Next]_vars, "stats" \notin mishaps', proc = "running"
    PROVE  proc' # "running" \/ Onwards
<1>1. pc["mon"] # "returned"
  BY MishapsStay DEF ExitInv, Threads
<1>2. CASE \E th \in Threads : TerminateCapture(th)
  BY <1>2, TerminateOnwards
<1>3. CASE StopFileChanges \/ UNCHANGED vars
  BY <1>3 DEF StopFileChanges, vars, Onwards, Onward
<1>. QED
  BY <1>1, <1>2, <1>3, MainOnwards, MonOnwards DEF Next, MainRuns, MonRuns, Threads

\* A process that has ended does nothing more.
LEMMA EndedStays ==
    ASSUME [Next]_vars, proc # "running"
    PROVE  proc' # "running"
<1>1. CASE MainRuns \/ Receive \/ ReceiveCrashes \/ ReceiveExits \/ LoopReturns \/ StopFileChanges
  BY <1>1 DEF MainRuns, Receive, ReceiveCrashes, ReceiveExits, LoopReturns, LoadCounter,
      StoreCounter, LoopEnded, MainRemoves, MainFallsThrough, TerminateCapture, TerminateFiles,
      TerminateStats, TerminateClose, TerminateExit, StopFileChanges, At
<1>2. CASE MonRuns
  BY <1>2 DEF MonRuns, MonStops, MonRemoves, MonTicks, MonOpens, MonEnqueues, MonAdds,
      MonResets, MonWrites, TerminateCapture, TerminateFiles, TerminateStats,
      TerminateClose, TerminateExit, At
<1>3. CASE UNCHANGED vars
  BY <1>3 DEF vars
<1>. QED
  BY <1>1, <1>2, <1>3 DEF Next

LEMMA ExitNext ==
    ASSUME TypeOK, ExitInv, [Next]_vars
    PROVE  ExitInv'
<1>. SUFFICES ASSUME proc' = "running", "stats" \notin mishaps'
              PROVE  /\ \A th \in Threads : pc'[th] # "returned"
                     /\ exitFlag' => \E th \in Threads : OnItsWay(th)'
  BY DEF ExitInv
<1>1. proc = "running" /\ "stats" \notin mishaps
  BY EndedStays, MishapsStay
<1>2. Onwards
  BY <1>1, NextOnwards
<1>3. \A th \in Threads : pc'[th] # "returned"
  BY <1>1, <1>2 DEF ExitInv, Onwards, Onward
<1>4. \A th \in Threads : OnItsWay(th) => OnItsWay(th)'
  BY <1>2 DEF Onwards, Onward, OnItsWay
<1>5. exitFlag' => \E th \in Threads : OnItsWay(th)'
  <2>1. CASE exitFlag
    BY <1>1, <1>4, <2>1 DEF ExitInv
  <2>2. CASE exitFlag' /\ ~exitFlag
    BY <1>2, <2>2 DEF Onwards, OnItsWay
  <2>. QED
    BY <2>1, <2>2
<1>. QED
  BY <1>3, <1>5

(***************************************************************************)
(* The process ends, if its threads run.  tlapm does not look into ENABLED, *)
(* so that a thread can go on is a hypothesis: NeitherStuck.               *)
(***************************************************************************)

\* A thread at a place, in a process that has not ended and may still be ended by
\* it; and the end.
StillAt(th, place) == proc = "running" /\ "stats" \notin mishaps /\ pc[th] = place
Over == proc # "running" \/ "stats" \in mishaps

\* A thread on its way stays at its place or comes to the next,
LEMMA WayStep ==
    ASSUME TypeOK, ExitInv, [Next]_vars, NEW th \in Threads
    PROVE  /\ StillAt(th, "remove") => StillAt(th, "remove")' \/ StillAt(th, "files")' \/ Over'
           /\ StillAt(th, "files") => StillAt(th, "files")' \/ StillAt(th, "stats")' \/ Over'
           /\ StillAt(th, "stats") => StillAt(th, "stats")' \/ StillAt(th, "close")' \/ Over'
           /\ StillAt(th, "close") => StillAt(th, "close")' \/ StillAt(th, "exit")' \/ Over'
           /\ StillAt(th, "exit") => StillAt(th, "exit")' \/ Over'
<1>1. CASE proc = "running" /\ "stats" \notin mishaps' /\ proc' = "running"
  <2>1. Onward(th)
    BY <1>1, NextOnwards DEF Onwards
  <2>. QED
    BY <1>1, <2>1 DEF StillAt, Over, Onward, OnItsWay
<1>2. CASE ~(proc = "running" /\ "stats" \notin mishaps' /\ proc' = "running")
  BY <1>2, EndedStays DEF StillAt, Over
<1>. QED
  BY <1>1, <1>2

\* and leaves it when it runs.
LEMMA MonRunsOn ==
    ASSUME TypeOK, MonRuns, "stats" \notin mishaps', proc' = "running", OnItsWay("mon")
    PROVE  pc'["mon"] # pc["mon"]
<1>. USE DEF At, OnItsWay
<1>1. {"files", "stats", "close", "exit"} \subseteq PCs["mon"]
  BY DEF PCs, TerminatePCs
<1>2. MonRemoves \/ TerminateCapture("mon")
  BY DEF MonRuns, MonStops, MonTicks, MonOpens, MonEnqueues, MonAdds, MonResets, MonWrites
<1>3. \E place \in {"files", "stats", "close", "exit"} : Goto("mon", place) /\ place # pc["mon"]
  BY <1>2 DEF MonRemoves, TerminateCapture, TerminateFiles, TerminateStats, TerminateClose,
              TerminateExit, Ends
<1>. QED
  BY <1>1, <1>3, MonMoves

LEMMA MainRunsOn ==
    ASSUME TypeOK, MainRuns, "stats" \notin mishaps', proc' = "running", OnItsWay("main")
    PROVE  pc'["main"] # pc["main"]
<1>. USE DEF At, OnItsWay
<1>1. {"files", "stats", "close", "exit"} \subseteq PCs["main"]
  BY DEF PCs, TerminatePCs
<1>2. MainRemoves \/ TerminateCapture("main")
  BY DEF MainRuns, LoadCounter, StoreCounter, LoopEnded, MainFallsThrough
<1>3. \E place \in {"files", "stats", "close", "exit"} : Goto("main", place) /\ place # pc["main"]
  BY <1>2 DEF MainRemoves, TerminateCapture, TerminateFiles, TerminateStats, TerminateClose,
              TerminateExit, Ends
<1>. QED
  BY <1>1, <1>3, MainMoves

\* A thread that is on its way comes to the end.
LEMMA MonGetsThere ==
    [](TypeOK /\ ExitInv /\ NeitherStuck) /\ [][Next]_vars /\ WF_vars(MonRuns)
        => (OnItsWay("mon") ~> Over)
<1>1. TypeOK /\ ExitInv /\ [Next]_vars =>
        /\ StillAt("mon", "remove")
             => StillAt("mon", "remove")' \/ StillAt("mon", "files")' \/ Over'
        /\ StillAt("mon", "files")
             => StillAt("mon", "files")' \/ StillAt("mon", "stats")' \/ Over'
        /\ StillAt("mon", "stats")
             => StillAt("mon", "stats")' \/ StillAt("mon", "close")' \/ Over'
        /\ StillAt("mon", "close")
             => StillAt("mon", "close")' \/ StillAt("mon", "exit")' \/ Over'
        /\ StillAt("mon", "exit") => StillAt("mon", "exit")' \/ Over'
  BY WayStep DEF Threads
<1>2. TypeOK /\ <<MonRuns>>_vars =>
        /\ StillAt("mon", "remove") => ~StillAt("mon", "remove")' \/ Over'
        /\ StillAt("mon", "files") => ~StillAt("mon", "files")' \/ Over'
        /\ StillAt("mon", "stats") => ~StillAt("mon", "stats")' \/ Over'
        /\ StillAt("mon", "close") => ~StillAt("mon", "close")' \/ Over'
        /\ StillAt("mon", "exit") => ~StillAt("mon", "exit")' \/ Over'
  BY MonRunsOn DEF StillAt, Over, OnItsWay
<1>3. /\ OnItsWay("mon") => \/ StillAt("mon", "remove") \/ StillAt("mon", "files")
                            \/ StillAt("mon", "stats") \/ StillAt("mon", "close")
                            \/ StillAt("mon", "exit") \/ Over
      /\ NeitherStuck => Over \/ ENABLED <<MonRuns>>_vars
  BY DEF OnItsWay, StillAt, Over, NeitherStuck
<1>. QED
  BY <1>1, <1>2, <1>3, PTL

LEMMA MainGetsThere ==
    [](TypeOK /\ ExitInv /\ NeitherStuck) /\ [][Next]_vars /\ WF_vars(MainRuns)
        => (OnItsWay("main") ~> Over)
<1>1. TypeOK /\ ExitInv /\ [Next]_vars =>
        /\ StillAt("main", "remove")
             => StillAt("main", "remove")' \/ StillAt("main", "files")' \/ Over'
        /\ StillAt("main", "files")
             => StillAt("main", "files")' \/ StillAt("main", "stats")' \/ Over'
        /\ StillAt("main", "stats")
             => StillAt("main", "stats")' \/ StillAt("main", "close")' \/ Over'
        /\ StillAt("main", "close")
             => StillAt("main", "close")' \/ StillAt("main", "exit")' \/ Over'
        /\ StillAt("main", "exit") => StillAt("main", "exit")' \/ Over'
  BY WayStep DEF Threads
<1>2. TypeOK /\ <<MainRuns>>_vars =>
        /\ StillAt("main", "remove") => ~StillAt("main", "remove")' \/ Over'
        /\ StillAt("main", "files") => ~StillAt("main", "files")' \/ Over'
        /\ StillAt("main", "stats") => ~StillAt("main", "stats")' \/ Over'
        /\ StillAt("main", "close") => ~StillAt("main", "close")' \/ Over'
        /\ StillAt("main", "exit") => ~StillAt("main", "exit")' \/ Over'
  BY MainRunsOn DEF StillAt, Over, OnItsWay
<1>3. /\ OnItsWay("main") => \/ StillAt("main", "remove") \/ StillAt("main", "files")
                            \/ StillAt("main", "stats") \/ StillAt("main", "close")
                            \/ StillAt("main", "exit") \/ Over
      /\ NeitherStuck =>
            \/ ENABLED <<MainRuns>>_vars
            \/ ~ (\/ StillAt("main", "remove") \/ StillAt("main", "files")
                  \/ StillAt("main", "stats") \/ StillAt("main", "close")
                  \/ StillAt("main", "exit"))
  BY DEF OnItsWay, StillAt, Over, NeitherStuck
<1>. QED
  BY <1>1, <1>2, <1>3, PTL

\* ExitEnds: for every window, every rate and all packets, under the fairness of
\* the two threads alone.
THEOREM ExitEndsCorrect == FairSpec /\ []NeitherStuck => ExitEnds
<1>1. Init => ExitInv
  BY DEF Init, ExitInv, Threads
<1>2. TypeOK /\ ExitInv /\ [Next]_vars => TypeOK' /\ ExitInv'
  BY TypeNext, ExitNext
<1>3. ExitInv /\ exitFlag => OnItsWay("main") \/ OnItsWay("mon") \/ Over
  BY DEF ExitInv, Over, Threads
<1>4. Over <=> proc # "running" \/ "stats" \in mishaps
  BY DEF Over
<1>. QED
  BY InitType, <1>1, <1>2, <1>3, <1>4, MonGetsThere, MainGetsThere, PTL
     DEF FairSpec, Spec, ExitEnds

=============================================================================
