------------------------- MODULE AttributionProofs -------------------------
(* ConnTable implements Attribution.                                       *)
EXTENDS ConnTableProofs

-----------------------------------------------------------------------------
(* What the refinement rests on besides HolderInv and TableInv             *)

\* The buffer holds names of processes.  A packet is answered once.
BufInv == \A k \in DOMAIN nameBuf : \E q \in Pid : nameBuf[k] \in called[q]
PendingInv ==
    /\ pc = "return" <=> answer # -2
    /\ pc = "idle" => pkt = NoPacket
AskInv == BufInv /\ PendingInv

LEMMA NoPacketIsNone == NoPacket \notin Packet
<1>1. DOMAIN NoPacket = {"up"}
  BY DEF NoPacket
<1>2. \A p \in Packet : DOMAIN p = {"up", "flow", "sec"}
  BY DEF Packet
<1> QED BY <1>1, <1>2

\* The process a name was read from had it.
LEMMA BufFilled ==
  ASSUME TypeOK, KernelInv, NEW i \in DOMAIN conns, NEW p, GetProcName(i, p)
  PROVE  \A k \in DOMAIN nameBuf' :
            \/ k \in DOMAIN nameBuf /\ nameBuf'[k] = nameBuf[k]
            \/ p \in Pid /\ nameBuf'[k] \in called[p]
<1> DEFINE next == Len(procs) + 1
<1>1. CASE UNCHANGED nameBuf
  BY <1>1
<1>2. CASE /\ p \in Pid /\ Alive(p)
           /\ nameBuf' = IF next \in DOMAIN nameBuf THEN [nameBuf EXCEPT ![next] = proc[p]]
                         ELSE Append(nameBuf, proc[p])
  <2>1. proc[p] \in called[p]
    BY <1>2 DEF KernelInv
  <2>2. nameBuf \in Seq(Name) /\ proc[p] \in Name
    BY <1>2 DEF TypeOK, Alive
  <2> HIDE DEF next
  <2>3. CASE next \in DOMAIN nameBuf
    BY <1>2, <2>1, <2>2, <2>3
  <2>4. CASE next \notin DOMAIN nameBuf
    <3>1. nameBuf' = Append(nameBuf, proc[p])
      BY <1>2, <2>4
    <3> QED BY <1>2, <2>1, <2>2, <3>1
  <2> QED BY <2>3, <2>4
<1> QED BY <1>1, <1>2 DEF GetProcName

LEMMA BufStep ==
  ASSUME TypeOK, HolderInv, BufInv, [Next]_vars
  PROVE  BufInv'
<1> USE DEF kernel, table, names, place
<1>1. CASE Kernel
  <2>1. Onward /\ UNCHANGED nameBuf
    BY <1>1, KernelKeeps DEF HolderInv, Kernel
  <2> QED BY <2>1 DEF Onward, BufInv
<1>2. CASE UpdateNames
  <2>1. CASE UNCHANGED <<nameBuf, called>>
    BY <2>1 DEF BufInv
  <2>2. CASE \E i \in DOMAIN conns : GetProcName(i, conns[i].pid) /\ UNCHANGED called
    <3>1. PICK i \in DOMAIN conns : GetProcName(i, conns[i].pid) /\ UNCHANGED called
      BY <2>2
    <3>2. \A k \in DOMAIN nameBuf' :
            \/ k \in DOMAIN nameBuf /\ nameBuf'[k] = nameBuf[k]
            \/ conns[i].pid \in Pid /\ nameBuf'[k] \in called[conns[i].pid]
      BY <3>1, BufFilled DEF HolderInv
    <3> QED BY <3>1, <3>2 DEF BufInv
  <2> QED BY <1>2, <2>1, <2>2 DEF UpdateNames
<1>3. CASE UNCHANGED <<nameBuf, called>>
  BY <1>3 DEF BufInv
<1> QED BY <1>1, <1>2, <1>3 DEF Next, Capture, vars, Receive, LookupHits, LookupMisses, Answer,
       Return, Returned, ReadConnections, ListPids, AttachProcess, AttachCrashes, CleanConnectionInfo,
       UpdateIndexes

LEMMA PendingStep ==
  ASSUME TypeOK, PendingInv, [Next]_vars
  PROVE  PendingInv'
<1> USE DEF kernel, table, names, place
<1>1. CASE LookupHits \/ Answer
  <2>1. pkt \in Packet /\ pc # "return"
    BY <1>1 DEF LookupHits, Answer, TypeOK
  <2>2. PICK i \in (DOMAIN conns) \cup {0} : Return(i)
    <3>1. Fresh(pkt) \subseteq DOMAIN conns
      BY DEF Fresh
    <3> QED BY <1>1, <2>1, <3>1, FoundIsEntry DEF LookupHits, Answer
  <2>3. i # 0 => conns[i].app \in DOMAIN apps \cup {-1}
    BY EntryAt
  <2>4. DOMAIN apps \subseteq Nat
    BY DEF TypeOK
  <2> QED BY <2>2, <2>3, <2>4 DEF Return, PendingInv
<1>2. CASE (\E p \in Packet : Receive(p)) \/ LookupMisses \/ Returned \/ ReadConnections
           \/ ListPids \/ AttachProcess \/ AttachCrashes \/ UpdateNames \/ CleanConnectionInfo
           \/ UpdateIndexes
  BY <1>2 DEF PendingInv, Receive, LookupMisses, Returned, ReadConnections, ListPids,
     AttachProcess, AttachCrashes, UpdateNames, CleanConnectionInfo, UpdateIndexes
<1>3. CASE Kernel \/ UNCHANGED vars
  BY <1>3 DEF Kernel, vars, PendingInv
<1> QED BY <1>1, <1>2, <1>3 DEF Next, Capture

LEMMA AskCorrect == Spec => [](TypeOK /\ HolderInv /\ TableInv /\ AskInv)
<1>1. Init => AskInv
  BY DEF Init, AskInv, BufInv, PendingInv
<1>2. TypeOK /\ HolderInv /\ AskInv /\ [Next]_vars => AskInv'
  BY BufStep, PendingStep DEF AskInv
<1> QED BY <1>1, <1>2, TypeInit, TypeStep, HolderInit, HolderStep, TableCorrect, PTL DEF Spec

-----------------------------------------------------------------------------
(* The refinement                                                          *)

Exited == {p \in Pid : proc[p] \in {"zombie", "gone"}}
Unmoved == UNCHANGED <<owned, called, Exited>>

\* Steps of the kernel are what happens.
LEMMA KernelHappens ==
  ASSUME TypeOK, KernelInv, Kernel
  PROVE  Attr!Happens
<1>1. Onward /\ UNCHANGED <<apps, pkt, answer>>
  BY KernelKeeps DEF Kernel, names, place
<1>2. Exited \subseteq Exited'
  BY <1>1 DEF Exited, Onward, Dead
<1> QED BY <1>1, <1>2 DEF Attr!Happens, Onward, Exited

\* A name is listed when it is first met, and only then.
LEMMA NamesList ==
  ASSUME TypeOK, HolderInv, BufInv, BufInv', UpdateNames
  PROVE  Attr!Lists \/ UNCHANGED Attr!vars
<1>1. UNCHANGED <<owned, called, pkt, answer, proc>>
  BY DEF UpdateNames, kernel
<1>2. CASE UNCHANGED apps
  BY <1>1, <1>2 DEF Attr!vars
<1>3. CASE \E i \in DOMAIN conns : GetProcName(i, conns[i].pid) /\ ~UNCHANGED apps
  <2>1. PICK i \in DOMAIN conns : GetProcName(i, conns[i].pid) /\ ~UNCHANGED apps
    BY <1>3
  <2>2. /\ \/ \E k \in DOMAIN procs' : GetAppID(i, nameBuf'[k])
           \/ UNCHANGED apps
        /\ procs' \in Seq(Pid) /\ nameBuf' \in Seq(Name) /\ Len(procs') <= Len(nameBuf')
    <3>1. Len(procs) <= Len(nameBuf)
      BY DEF TypeOK
    <3> QED BY <2>1, <3>1, TypeGetProcName
  <2>3. PICK k \in DOMAIN procs' : GetAppID(i, nameBuf'[k])
    BY <2>1, <2>2
  <2>4. k \in DOMAIN nameBuf'
    <3>1. k \in 1 .. Len(procs') /\ Len(procs') \in Nat /\ Len(nameBuf') \in Nat
      BY <2>2
    <3> QED BY <2>2, <3>1
  <2>5. PICK q \in Pid : nameBuf'[k] \in called[q]
    BY <1>1, <2>4 DEF BufInv
  <2>6. (\A m \in DOMAIN apps : apps[m] # nameBuf'[k]) /\ apps' = Append(apps, nameBuf'[k])
    BY <2>1, <2>3 DEF GetAppID
  <2> QED BY <1>1, <2>5, <2>6 DEF Attr!Lists
<1> QED BY <1>2, <1>3 DEF UpdateNames, names

\* The entry that is found gives the number of a name its process has had.
LEMMA ReturnAnswers ==
  ASSUME TypeOK, HolderInv, TableInv, AskInv, LookupHits \/ Answer
  PROVE  Attr!Answers
<1>1. pkt \in Packet /\ InUse /\ IndexesRight /\ answer = -2
  BY DEF LookupHits, Answer, TypeOK, InUse, TableInv, AskInv, PendingInv
<1>2. PICK usable \in SUBSET (DOMAIN conns) : Return(Found(pkt, usable))
  <2>1. Fresh(pkt) \subseteq DOMAIN conns
    BY DEF Fresh
  <2> QED BY <2>1 DEF LookupHits, Answer
<1> DEFINE i == Found(pkt, usable)
<1>3. UNCHANGED <<owned, called, proc, apps, pkt>>
  BY <1>2 DEF Return, kernel, names, LookupHits, Answer
<1>4. CASE i = 0
  BY <1>1, <1>2, <1>3, <1>4, NoPacketIsNone DEF Return, Attr!Answers
<1>5. CASE i # 0
  <2>1. /\ i \in DOMAIN conns
        /\ \/ Addr[conns[i].sock].port = LocalPort(pkt)
           \/ IPHash[Addr[conns[i].sock].rip] = IPHash[pkt.flow.rip]
    BY <1>1, <1>5, FoundMatches
  <2>2. answer' = conns[i].app
    BY <1>2, <1>5 DEF Return
  <2> HIDE DEF i
  <2> DEFINE s == conns[i].sock
             q == conns[i].pid
             a == conns[i].app
  <2>3. s \in SocketsOf[pkt]
    BY <1>1, <2>1, EntryAt DEF SocketsOf
  <2>4. a \in DOMAIN apps
    BY <1>1, <2>1, EntryAt DEF TableInv
  <2>5. q \in owned[s] /\ q \in Pid /\ NameFor(apps[a], q)
    <3>1. a # -1
      BY <2>4 DEF TypeOK
    <3> QED BY <2>1, <3>1, EntryAt DEF HolderInv, EntryInv
  <2>6. apps[a] \in called[q] \/ q \in {p \in Pid : proc[p] \in {"zombie", "gone"}}
    BY <2>5 DEF NameFor, Dead
  <2>7. Attr!Rightful(pkt, answer')
    BY <2>2, <2>3, <2>4, <2>5, <2>6 DEF Attr!Rightful
  <2> QED BY <1>1, <1>3, <2>7, NoPacketIsNone DEF Attr!Answers
<1> QED BY <1>4, <1>5

LEMMA StepMaps ==
  ASSUME TypeOK, HolderInv, TableInv, AskInv, AskInv', [Next]_vars
  PROVE  [Attr!Next]_(Attr!vars)
<1> USE DEF kernel, table, names, place
<1>1. CASE Kernel
  BY <1>1, KernelHappens DEF HolderInv, Attr!Next
<1>2. ASSUME NEW p \in Packet, Receive(p) PROVE Attr!Asks
  BY <1>2 DEF Receive, Attr!Asks, AskInv, PendingInv
<1>3. CASE LookupHits \/ Answer
  BY <1>3, ReturnAnswers DEF Attr!Next
<1>4. CASE UpdateNames
  BY <1>4, NamesList DEF HolderInv, AskInv, Attr!Next
<1>5. CASE Returned
  BY <1>5 DEF Returned, AskInv, PendingInv, Attr!Next, Attr!Goes
<1>6. CASE LookupMisses \/ ReadConnections \/ ListPids \/ AttachProcess
           \/ AttachCrashes \/ CleanConnectionInfo \/ UpdateIndexes
  BY <1>6 DEF LookupMisses, ReadConnections, ListPids, AttachProcess, AttachCrashes,
     CleanConnectionInfo, UpdateIndexes, Attr!vars
<1>7. CASE UNCHANGED vars
  BY <1>7 DEF vars, Attr!vars
<1> QED BY <1>1, <1>2, <1>3, <1>4, <1>5, <1>6, <1>7 DEF Next, Capture, Attr!Next

\* Attributes: the table of connections implements Attribution.  Of the refresh
\* only the moment is visible in which a name is listed.
THEOREM AttributionCorrect == Spec => Attributes
<1>1. Init => Attr!Init
  BY ConnTableAssumption DEF Init, Attr!Init
<1>2. TypeOK /\ HolderInv /\ TableInv /\ AskInv /\ AskInv' /\ [Next]_vars
        => [Attr!Next]_(Attr!vars)
  BY StepMaps
<1> QED BY <1>1, <1>2, AskCorrect, PTL DEF Spec, Attributes, Attr!Spec

-----------------------------------------------------------------------------
(* What follows from the abstract specification alone                      *)

\* Nothing that was is forgotten, and no name changes its place.
LEMMA Grows ==
  ASSUME TypeOK, [Attr!Next]_(Attr!vars)
  PROVE  /\ \A s \in Socket : owned[s] \subseteq owned'[s]
         /\ \A q \in Pid : called[q] \subseteq called'[q]
         /\ Exited \subseteq Exited'
         /\ \A k \in DOMAIN apps : k \in DOMAIN apps' /\ apps'[k] = apps[k]
<1>1. CASE Attr!Happens
  BY <1>1 DEF Attr!Happens, Exited
<1>2. CASE Attr!Lists
  <2>1. PICK n \in Name : apps' = Append(apps, n)
    BY <1>2 DEF Attr!Lists, TypeOK
  <2>2. UNCHANGED <<owned, called, Exited>>
    BY <1>2 DEF Attr!Lists, Exited
  <2>3. apps \in Seq(Name)
    BY DEF TypeOK
  <2> QED BY <2>1, <2>2, <2>3
<1>3. CASE Attr!Asks \/ Attr!Answers \/ Attr!Goes \/ UNCHANGED Attr!vars
  <2>1. UNCHANGED <<owned, called, Exited, apps>>
    BY <1>3 DEF Attr!Asks, Attr!Answers, Attr!Goes, Attr!vars, Exited
  <2> QED BY <2>1
<1> QED BY <1>1, <1>2, <1>3 DEF Attr!Next

\* An answer stays true as long as the packet is in hand, whatever sockets and
\* processes do meanwhile: UpdatePacket returns to pcap_dump, which writes it.
THEOREM AnswersStayTrue == Spec => []Attr!AnswerTrue
<1>1. Attr!Init => Attr!AnswerTrue
  BY DEF Attr!Init, Attr!AnswerTrue
<1>2. TypeOK /\ TypeOK' /\ Attr!AnswerTrue /\ [Attr!Next]_(Attr!vars) => Attr!AnswerTrue'
  <2> SUFFICES ASSUME TypeOK, TypeOK', Attr!AnswerTrue, [Attr!Next]_(Attr!vars)
               PROVE  Attr!AnswerTrue'
    OBVIOUS
  <2>1. /\ \A s \in Socket : owned[s] \subseteq owned'[s]
        /\ \A q \in Pid : called[q] \subseteq called'[q]
        /\ Exited \subseteq Exited'
        /\ \A k \in DOMAIN apps : k \in DOMAIN apps' /\ apps'[k] = apps[k]
    BY Grows
  <2>2. CASE UNCHANGED <<pkt, answer>> /\ answer # -2
    <3>1. pkt \in Packet /\ (answer = -1 \/ Attr!Rightful(pkt, answer))
      BY <2>2 DEF Attr!AnswerTrue
    <3>2. CASE answer = -1
      BY <2>2, <3>1, <3>2 DEF Attr!AnswerTrue
    <3>3. CASE Attr!Rightful(pkt, answer)
      <4>0. PICK s \in SocketsOf[pkt] : \E q \in owned[s] :
              answer \in DOMAIN apps /\ (apps[answer] \in called[q] \/ q \in Exited)
        BY <3>3 DEF Attr!Rightful, Exited
      <4>1. PICK q \in owned[s] :
              answer \in DOMAIN apps /\ (apps[answer] \in called[q] \/ q \in Exited)
        BY <4>0
      <4>2. s \in Socket /\ q \in Pid
        <5>1. s \in Socket
          BY <3>1, <4>1 DEF SocketsOf
        <5> QED BY <4>1, <5>1 DEF TypeOK
      <4>3. /\ q \in owned'[s] /\ answer \in DOMAIN apps' /\ apps'[answer] = apps[answer]
            /\ apps'[answer] \in called'[q] \/ q \in Exited'
        BY <2>1, <4>1, <4>2
      <4>4. s \in SocketsOf[pkt'] /\ pkt' \in Packet /\ UNCHANGED answer
        BY <2>2, <3>1
      <4> QED BY <4>3, <4>4 DEF Attr!AnswerTrue, Attr!Rightful, Exited
    <3> QED BY <3>1, <3>2, <3>3
  <2>3. CASE UNCHANGED <<pkt, answer>> /\ answer = -2
    BY <2>3 DEF Attr!AnswerTrue
  <2>4. CASE Attr!Asks
    BY <2>4, NoPacketIsNone DEF Attr!Asks, Attr!AnswerTrue
  <2>5. CASE Attr!Answers
    <3>1. pkt' \in Packet /\ UNCHANGED <<owned, called, Exited, apps, pkt>>
      BY <2>5 DEF TypeOK, Attr!Answers, Exited
    <3> QED BY <2>5, <3>1 DEF Attr!Answers, Attr!AnswerTrue, Attr!Rightful, Exited
  <2>6. CASE Attr!Goes
    BY <2>6 DEF Attr!Goes, Attr!AnswerTrue
  <2> QED BY <2>2, <2>3, <2>4, <2>5, <2>6 DEF Attr!Next, Attr!Happens, Attr!Lists, Attr!vars
<1> QED BY <1>1, <1>2, TypeCorrect, AttributionCorrect, PTL DEF Attributes, Attr!Spec

\* A number in a trace keeps its name: appname only grows at its end (GetAppID,
\* socket_proc.c:406-425), across all refreshes of the process.
THEOREM NumbersStay == Spec => Attr!NumbersKept
<1>1. TypeOK /\ [Attr!Next]_(Attr!vars)
        => [\A k \in DOMAIN apps : k \in DOMAIN apps' /\ apps'[k] = apps[k]]_(Attr!vars)
  BY Grows
<1> QED BY <1>1, TypeCorrect, AttributionCorrect, PTL DEF Attributes, Attr!Spec, Attr!NumbersKept
=============================================================================
