-------------------------- MODULE ConnTableProofs --------------------------
(* Proofs about ConnTable.                                                 *)
EXTENDS ConnTable, FiniteSetTheorems, WellFoundedInduction, TLAPS

LEMMA PortOfFlow ==
  ASSUME NEW p \in Packet
  PROVE  LocalPort(p) \in Port /\ IPHash[p.flow.rip] \in Hash
<1>1. p.flow \in [port : Port, rip : RemoteIP, rport : Port, prot : Prot]
  BY ConnTableAssumption DEF Packet
<1>2. \A k \in Port : Swap(k) \in Port
  BY DEF Port, Swap
<1> QED BY <1>1, <1>2 DEF LocalPort, SrcPort, Hash

LEMMA AddrTypes ==
  ASSUME NEW s \in Socket
  PROVE  Addr[s].port \in Port /\ IPHash[Addr[s].rip] \in Hash
BY ConnTableAssumption DEF Hash

\* A listing of sockets is a sequence of sockets.
LEMMA ListingIsSeq ==
  ASSUME NEW S \in SUBSET Socket, NEW l \in Listings(S)
  PROVE  l \in Seq(S)
<1>1. IsFiniteSet(S)
  BY FS_Subset, ConnTableAssumption
<1>2. Cardinality(S) \in Nat
  BY <1>1, FS_CardinalityType
<1> QED BY <1>2 DEF Listings

\* The entries kept, in their order, are a sequence of entries.
LEMMA KeptFinite ==
  ASSUME TypeOK
  PROVE  Kept \subseteq DOMAIN conns /\ Cardinality(Kept) \in Nat
<1>1. DOMAIN conns = 1 .. Len(conns) /\ Len(conns) \in Nat
  BY DEF TypeOK
<1>2. Kept \subseteq 1 .. Len(conns)
  BY <1>1 DEF Kept
<1>3. IsFiniteSet(1 .. Len(conns))
  BY <1>1, FS_Interval
<1> QED BY <1>1, <1>2, <1>3, FS_Subset, FS_CardinalityType

LEMMA KeptSeq ==
  ASSUME TypeOK, NEW f \in Increasing(Kept), NEW c, c = [n \in DOMAIN f |-> conns[f[n]]]
  PROVE  /\ c \in Seq(Entry) /\ DOMAIN c = DOMAIN f
         /\ \A n \in DOMAIN c : f[n] \in Kept /\ c[n] = conns[f[n]]
<1>1. f \in [1 .. Cardinality(Kept) -> Kept]
  BY DEF Increasing
<1>2. \A n \in DOMAIN f : conns[f[n]] \in Entry
  BY <1>1, KeptFinite DEF TypeOK
<1> QED BY <1>1, <1>2, KeptFinite

LEMMA EntryAt ==
  ASSUME TypeOK, NEW i \in DOMAIN conns
  PROVE  /\ i \in Nat \ {0} /\ i <= Len(conns) /\ conns[i] \in Entry
         /\ conns[i].sock \in Socket /\ conns[i].pid \in Pid \cup {-1}
         /\ conns[i].app \in DOMAIN apps \cup {-1} /\ conns[i].tv \in Second
<1>1. i \in Nat \ {0} /\ i <= Len(conns) /\ conns[i] \in Entry
  BY DEF TypeOK
<1> QED BY <1>1 DEF Entry

LEMMA FoundIsEntry ==
  ASSUME TypeOK, pkt \in Packet, NEW usable \in SUBSET (DOMAIN conns)
  PROVE  Found(pkt, usable) \in usable \cup {0}
BY DEF Found

\* A set of identifiers that is not empty has a first and a last.
LEMMA NatMin ==
  ASSUME NEW S \in SUBSET Nat, S # {}
  PROVE  \E i \in S : \A j \in S : i <= j
<1> DEFINE R == {ss \in Nat \X Nat : ss[1] < ss[2]}
<1>1. IsWellFoundedOn(R, Nat)
  BY NatLessThanWellFounded DEF OpToRel
<1>2. \A i, j \in Nat : <<j, i>> \in R <=> j < i
  OBVIOUS
<1> HIDE DEF R
<1>3. \E i \in S : \A j \in S : ~ (<<j, i>> \in R)
  BY <1>1, WFMin
<1>4. PICK i \in S : \A j \in S : ~ (<<j, i>> \in R)
  BY <1>3
<1>5. \A j \in S : ~ (j < i)
  BY <1>2, <1>4
<1> QED BY <1>5

LEMMA FirstAndLast ==
  ASSUME TypeOK, NEW S \in SUBSET (DOMAIN conns), S # {}
  PROVE  /\ \E i \in S : \A j \in S : i <= j
         /\ \E i \in S : \A j \in S : i >= j
<1>1. DOMAIN conns = 1 .. Len(conns) /\ Len(conns) \in Nat
  BY DEF TypeOK
<1>2. S \in SUBSET Nat
  BY <1>1
<1> DEFINE T == {n \in Nat : \E i \in S : n = Len(conns) - i}
<1>3. T \in SUBSET Nat /\ T # {}
  <2>1. PICK k \in S : TRUE
    OBVIOUS
  <2>2. Len(conns) - k \in T
    BY <1>1, <2>1
  <2> QED BY <2>2
<1>4. PICK n \in T : \A m \in T : n <= m
  BY <1>3, NatMin
<1>5. PICK i \in S : n = Len(conns) - i
  BY <1>4
<1>6. ASSUME NEW j \in S PROVE i >= j
  <2>1. Len(conns) - j \in T
    BY <1>1
  <2> QED BY <2>1, <1>1, <1>4, <1>5
<1>7. \E k \in S : \A j \in S : k <= j
  BY <1>2, NatMin
<1> QED BY <1>6, <1>7

\* The entry a search returns has the packet's remote address.
LEMMA SearchedMatches ==
  ASSUME TypeOK, NEW p, SearchForConn(p) # 0
  PROVE  SearchForConn(p) \in DOMAIN conns /\ SameRemote(p, SearchForConn(p))
<1> DEFINE exact == {i \in DOMAIN conns : Exact(p, i)}
           same == {i \in DOMAIN conns : SameRemote(p, i)}
<1>1. exact \subseteq same /\ same \subseteq DOMAIN conns
  BY DEF Exact
<1>2. SearchForConn(p) = IF exact # {} THEN CHOOSE i \in exact : \A j \in exact : i <= j
        ELSE IF same # {} THEN CHOOSE i \in same : \A j \in same : i >= j
        ELSE 0
  BY DEF SearchForConn
<1>3. \A i \in same : i \in DOMAIN conns /\ SameRemote(p, i)
  OBVIOUS
<1> HIDE DEF exact, same
<1>4. CASE exact # {}
  <2>1. \E i \in exact : \A j \in exact : i <= j
    BY <1>1, <1>4, FirstAndLast
  <2> QED BY <1>1, <1>2, <1>3, <1>4, <2>1
<1>5. CASE exact = {} /\ same # {}
  <2>1. \E i \in same : \A j \in same : i >= j
    BY <1>1, <1>5, FirstAndLast
  <2> QED BY <1>2, <1>3, <1>5, <2>1
<1> QED BY <1>2, <1>4, <1>5

-----------------------------------------------------------------------------
(* Types                                                                   *)

TypeKernel ==
    /\ proc \in [Pid -> Name \cup {"unborn", "zombie", "gone"}]
    /\ holder \in [Socket -> SUBSET Pid] /\ owned \in [Socket -> SUBSET Pid]
    /\ called \in [Pid -> SUBSET Name] /\ steady \subseteq Socket

LEMMA TypeKernelStep ==
  ASSUME TypeKernel, Kernel
  PROVE  TypeKernel'
<1>1. ASSUME NEW p \in Pid, NEW n \in Name, NEW q, Fork(p, n, {s \in Socket : q \in holder[s]})
      PROVE  TypeKernel'
  BY <1>1 DEF Fork, TypeKernel
<1>2. ASSUME NEW p \in Pid, NEW n \in Name, Rename(p, n)
      PROVE  TypeKernel'
  BY <1>2 DEF Rename, TypeKernel
<1>3. ASSUME NEW p \in Pid, Exit(p)
      PROVE  TypeKernel'
  BY <1>3 DEF Exit, TypeKernel
<1>4. ASSUME NEW p \in Pid, Reap(p)
      PROVE  TypeKernel'
  BY <1>4 DEF Reap, TypeKernel
<1>5. ASSUME NEW s \in Socket, NEW p \in Pid, Open(s, p)
      PROVE  TypeKernel'
  BY <1>5 DEF Open, TypeKernel
<1>6. ASSUME NEW s \in Socket, NEW p \in Pid, Close(s, p)
      PROVE  TypeKernel'
  BY <1>6 DEF Close, TypeKernel
<1> QED BY <1>1, <1>2, <1>3, <1>4, <1>5, <1>6 DEF Kernel

LEMMA TypeReturn ==
  ASSUME TypeOK, pkt \in Packet, NEW i \in (DOMAIN conns) \cup {0}, Return(i)
  PROVE  TypeOK'
<1>1. pkt.sec \in Second
  BY DEF Packet
<1>2. conns' \in Seq(Entry)
  <2>1. CASE i = 0
    BY <2>1 DEF Return, TypeOK
  <2>2. CASE i # 0
    <3>1. conns' = [conns EXCEPT ![i] = [conns[i] EXCEPT !.tv = pkt.sec]]
      BY <2>2 DEF Return
    <3>2. [conns[i] EXCEPT !.tv = pkt.sec] \in Entry
      BY <1>1, <2>2, EntryAt DEF Entry
    <3> QED BY <2>2, <3>1, <3>2 DEF TypeOK
  <2> QED BY <2>1, <2>2
<1>3. answer' \in Nat \cup {-1, -2}
  <2>1. i # 0 => conns[i].app \in DOMAIN apps \cup {-1}
    BY EntryAt
  <2>2. DOMAIN apps \subseteq Nat
    BY DEF TypeOK
  <2> QED BY <2>1, <2>2 DEF Return
<1>4. Entry' = Entry
  BY DEF Return, Entry, names
<1> QED BY <1>2, <1>3, <1>4 DEF Return, TypeOK, names, kernel, Packet

\* Numbering an application keeps the table's type and the older numbers.
LEMMA TypeGetAppID ==
  ASSUME TypeOK, NEW i \in DOMAIN conns, NEW n \in Name, GetAppID(i, n)
  PROVE  /\ apps' \in Seq(Name) /\ conns' \in Seq(Entry')
         /\ DOMAIN apps \subseteq DOMAIN apps' /\ \A k \in DOMAIN apps : apps'[k] = apps[k]
         /\ DOMAIN conns' = DOMAIN conns
         /\ \A j \in DOMAIN conns : j # i => conns'[j] = conns[j]
         /\ conns'[i].app \in DOMAIN apps' /\ apps'[conns'[i].app] = n
         /\ conns'[i].sock = conns[i].sock /\ conns'[i].pid = conns[i].pid
<1>1. /\ apps' \in Seq(Name) /\ \E k \in DOMAIN apps' : apps'[k] = n
      /\ DOMAIN apps \subseteq DOMAIN apps' /\ \A k \in DOMAIN apps : apps'[k] = apps[k]
  <2>1. CASE \E k \in DOMAIN apps : apps[k] = n
    BY <2>1 DEF TypeOK, GetAppID
  <2>2. CASE ~ \E k \in DOMAIN apps : apps[k] = n
    <3>1. apps' = Append(apps, n) /\ apps \in Seq(Name)
      BY <2>2 DEF TypeOK, GetAppID
    <3>2. Len(apps) + 1 \in DOMAIN apps' /\ apps'[Len(apps) + 1] = n
      BY <3>1
    <3> QED BY <3>1, <3>2
  <2> QED BY <2>1, <2>2
<1> DEFINE a == CHOOSE k \in DOMAIN apps' : apps'[k] = n
<1>2. a \in DOMAIN apps' /\ apps'[a] = n
  BY <1>1
<1>3. conns' = [conns EXCEPT ![i].app = a]
  BY DEF GetAppID
<1> HIDE DEF a
<1>4. conns \in Seq(Entry')
  <2>1. \A j \in DOMAIN conns : conns[j] \in Entry'
    <3> SUFFICES ASSUME NEW j \in DOMAIN conns PROVE conns[j] \in Entry'
      OBVIOUS
    <3>1. conns[j] \in Entry
      BY EntryAt
    <3> QED BY <1>1, <3>1 DEF Entry
  <2> QED BY <2>1 DEF TypeOK
<1>6. conns[i] \in Entry'
  BY <1>4
<1>5. [conns[i] EXCEPT !.app = a] \in Entry'
  BY <1>2, <1>6 DEF Entry
<1>7. conns' = [conns EXCEPT ![i] = [conns[i] EXCEPT !.app = a]]
  BY <1>3
<1>8. conns' \in Seq(Entry') /\ DOMAIN conns' = DOMAIN conns
  BY <1>4, <1>5, <1>7
<1>9. conns'[i] = [conns[i] EXCEPT !.app = a]
  BY <1>7, <1>8
<1>10. \A j \in DOMAIN conns : j # i => conns'[j] = conns[j]
  BY <1>7
<1>11. /\ conns'[i].app = a /\ conns'[i].sock = conns[i].sock
       /\ conns'[i].pid = conns[i].pid
  BY <1>6, <1>9 DEF Entry
<1> QED BY <1>1, <1>2, <1>8, <1>10, <1>11

\* What Read appends is entries without process and application.
LEMMA TypeRead ==
  ASSUME TypeOK, ReadConnections
  PROVE  /\ conns' \in Seq(Entry) /\ bin' \in Seq(Nat)
         /\ \E l \in Seq(Socket) :
                /\ conns' = conns \o [i \in 1 .. Len(l) |->
                      [sock |-> l[i], pid |-> -1, app |-> -1, tv |-> pkt.sec]]
                /\ \A i \in 1 .. Len(l) : l[i] \in Socket
<1> DEFINE S == {s \in Socket : holder[s] # {} /\ Addr[s].file = at}
<1>1. PICK l \in Listings(S) :
        /\ conns' = conns \o [i \in 1 .. Len(l) |->
                        [sock |-> l[i], pid |-> -1, app |-> -1, tv |-> pkt.sec]]
        /\ bin' = bin \o [i \in 1 .. Len(l) |-> ((Len(conns) + i - 1) % IdWidth) + 1]
  BY DEF ReadConnections
<1> HIDE DEF S
<1>2. S \in SUBSET Socket
  BY DEF S
<1>3. l \in Seq(Socket) /\ \A i \in 1 .. Len(l) : l[i] \in Socket
  <2>1. l \in Seq(S)
    BY <1>2, ListingIsSeq
  <2> QED BY <1>2, <2>1
<1>4. pkt.sec \in Second
  BY DEF TypeOK, ReadConnections, Packet
<1>5. Len(l) \in Nat /\ Len(conns) \in Nat
  BY <1>3 DEF TypeOK
<1> DEFINE c == [i \in 1 .. Len(l) |-> [sock |-> l[i], pid |-> -1, app |-> -1, tv |-> pkt.sec]]
           b == [i \in 1 .. Len(l) |-> ((Len(conns) + i - 1) % IdWidth) + 1]
<1>6. c \in Seq(Entry)
  <2>1. \A i \in 1 .. Len(l) : c[i] \in Entry
    BY <1>3, <1>4 DEF Entry
  <2> QED BY <1>5, <2>1
<1>7. b \in Seq(Nat)
  <2>1. \A i \in 1 .. Len(l) : b[i] \in Nat
    <3> SUFFICES ASSUME NEW i \in 1 .. Len(l) PROVE b[i] \in Nat
      OBVIOUS
    <3>0. IdWidth \in Nat /\ IdWidth > 0
      <4>1. IdWidth \in Nat \ {0}
        BY ConnTableAssumption
      <4> QED BY <4>1
    <3>1. Len(conns) + i - 1 \in Int /\ IdWidth \in Nat /\ IdWidth > 0
      BY <1>5, <3>0
    <3>2. (Len(conns) + i - 1) % IdWidth \in 0 .. (IdWidth - 1)
      BY <3>1
    <3>3. \A k \in 0 .. (IdWidth - 1) : k + 1 \in Nat
      BY <3>1
    <3> QED BY <3>2, <3>3
  <2> QED BY <1>5, <2>1
<1>8. conns' = conns \o c /\ bin' = bin \o b
  BY <1>1
<1>9. conns \in Seq(Entry) /\ bin \in Seq(Nat)
  BY DEF TypeOK
<1> HIDE DEF c, b
<1>10. conns' \in Seq(Entry) /\ bin' \in Seq(Nat)
  BY <1>6, <1>7, <1>8, <1>9
<1> QED BY <1>1, <1>3, <1>10

\* AttachProcess changes only processes of entries that had none.
LEMMA TypeAttach ==
  ASSUME TypeOK, AttachProcess
  PROVE  /\ conns' \in Seq(Entry) /\ DOMAIN conns' = DOMAIN conns /\ todo' \subseteq Pid
         /\ \A i \in DOMAIN conns : conns'[i].sock = conns[i].sock /\ conns'[i].app = conns[i].app
<1>1. PICK p \in todo :
        /\ conns' = [i \in DOMAIN conns |->
                        IF conns[i].pid = -1 /\ \E s \in Socket : p \in holder[s] /\ Binned(s) = i
                        THEN [conns[i] EXCEPT !.pid = p] ELSE conns[i]]
        /\ todo' = todo \ {p}
  BY DEF AttachProcess
<1>2. p \in Pid
  BY DEF TypeOK
<1>3. \A i \in DOMAIN conns : conns'[i] = conns[i] \/ conns'[i] = [conns[i] EXCEPT !.pid = p]
  BY <1>1
<1>4. \A i \in DOMAIN conns : /\ conns'[i] \in Entry /\ conns'[i].sock = conns[i].sock
                              /\ conns'[i].app = conns[i].app
  <2> SUFFICES ASSUME NEW i \in DOMAIN conns
               PROVE  /\ conns'[i] \in Entry /\ conns'[i].sock = conns[i].sock
                      /\ conns'[i].app = conns[i].app
    OBVIOUS
  <2>1. conns[i] \in Entry
    BY EntryAt
  <2>2. [conns[i] EXCEPT !.pid = p] \in Entry
    BY <1>2, <2>1 DEF Entry
  <2> QED BY <1>3, <2>1, <2>2 DEF Entry
<1>5. DOMAIN conns' = DOMAIN conns /\ DOMAIN conns = 1 .. Len(conns) /\ Len(conns) \in Nat
  BY <1>1 DEF TypeOK
<1>6. conns' \in Seq(Entry)
  BY <1>1, <1>4, <1>5
<1>7. todo' \subseteq Pid
  BY <1>1 DEF TypeOK
<1> QED BY <1>4, <1>5, <1>6, <1>7

\* What GetProcName does to the names and the table.
LEMMA TypeGetProcName ==
  ASSUME TypeOK, NEW i \in DOMAIN conns, NEW p, Len(procs) <= Len(nameBuf), GetProcName(i, p)
  PROVE  /\ procs' \in Seq(Pid) /\ nameBuf' \in Seq(Name) /\ apps' \in Seq(Name)
         /\ conns' \in Seq(Entry') /\ Len(procs') <= Len(nameBuf')
         /\ \/ \E k \in DOMAIN procs' : procs'[k] = p /\ GetAppID(i, nameBuf'[k])
            \/ UNCHANGED <<procs, nameBuf, apps, conns>>
         /\ \A k \in DOMAIN procs' :
                \/ k \in DOMAIN procs /\ procs'[k] = procs[k] /\ nameBuf'[k] = nameBuf[k]
                \/ /\ p \in Pid /\ procs'[k] = p
                   /\ \/ Alive(p) /\ nameBuf'[k] = proc[p]
                      \/ proc[p] = "zombie"
<1> DEFINE next == Len(procs) + 1
           used == next \in DOMAIN nameBuf
           known == \E k \in DOMAIN procs : procs[k] = p
<1>0. /\ procs \in Seq(Pid) /\ nameBuf \in Seq(Name) /\ Len(procs) \in Nat /\ Len(nameBuf) \in Nat
      /\ DOMAIN procs = 1 .. Len(procs) /\ DOMAIN nameBuf = 1 .. Len(nameBuf)
  BY DEF TypeOK
<1>1. CASE \E k \in DOMAIN procs :
            procs[k] = p /\ GetAppID(i, nameBuf[k]) /\ UNCHANGED <<procs, nameBuf>>
  <2>1. PICK k \in DOMAIN procs :
            procs[k] = p /\ GetAppID(i, nameBuf[k]) /\ UNCHANGED <<procs, nameBuf>>
    BY <1>1
  <2>2. nameBuf[k] \in Name
    BY <1>0
  <2> QED BY <1>0, <2>1, <2>2, TypeGetAppID
<1>2. CASE /\ p \in Pid /\ Alive(p) /\ procs' = Append(procs, p)
           /\ nameBuf' = IF used THEN [nameBuf EXCEPT ![next] = proc[p]]
                         ELSE Append(nameBuf, proc[p])
           /\ GetAppID(i, proc[p])
  <2>1. proc[p] \in Name
    BY <1>2 DEF Alive
  <2>2. procs' \in Seq(Pid) /\ DOMAIN procs' = 1 .. next /\ procs'[next] = p /\ Len(procs') = next
        /\ \A k \in DOMAIN procs : procs'[k] = procs[k]
    BY <1>0, <1>2
  <2>3. /\ nameBuf' \in Seq(Name) /\ nameBuf'[next] = proc[p] /\ next <= Len(nameBuf')
        /\ \A k \in DOMAIN procs : nameBuf'[k] = nameBuf[k]
    <3>1. CASE used
      BY <1>0, <1>2, <2>1, <3>1
    <3>2. CASE ~used
      <4>0. ~ (Len(procs) + 1 \in 1 .. Len(nameBuf))
        BY <1>0, <3>2
      <4>1. Len(nameBuf) = Len(procs)
        <5>1. Len(procs) <= Len(nameBuf)
          OBVIOUS
        <5>2. Len(procs) \in Nat /\ Len(nameBuf) \in Nat
          BY <1>0
        <5>3. \A m, n \in Nat : m <= n /\ ~ (m + 1 \in 1 .. n) => n = m
          OBVIOUS
        <5> QED BY <4>0, <5>1, <5>2, <5>3
      <4> QED BY <1>0, <1>2, <2>1, <3>2, <4>1
    <3> QED BY <3>1, <3>2
  <2>4. /\ apps' \in Seq(Name) /\ conns' \in Seq(Entry')
    BY <1>2, <2>1, TypeGetAppID
  <2>5. next \in DOMAIN procs' /\ \A k \in DOMAIN procs' : k \in DOMAIN procs \/ k = next
    BY <1>0, <2>2
  <2> QED BY <1>2, <2>2, <2>3, <2>4, <2>5
<1>3. CASE /\ p \in Pid /\ proc[p] = "zombie" /\ used
           /\ procs' = Append(procs, p) /\ UNCHANGED nameBuf
           /\ GetAppID(i, nameBuf[next])
  <2>1. nameBuf[next] \in Name /\ next <= Len(nameBuf)
    BY <1>0, <1>3
  <2>2. procs' \in Seq(Pid) /\ DOMAIN procs' = 1 .. next /\ procs'[next] = p /\ Len(procs') = next
        /\ \A k \in DOMAIN procs : procs'[k] = procs[k]
    BY <1>0, <1>3
  <2>4. /\ apps' \in Seq(Name) /\ conns' \in Seq(Entry')
    BY <1>3, <2>1, TypeGetAppID
  <2>5. next \in DOMAIN procs' /\ \A k \in DOMAIN procs' : k \in DOMAIN procs \/ k = next
    BY <1>0, <2>2
  <2> QED BY <1>0, <1>3, <2>1, <2>2, <2>4, <2>5
<1>4. CASE UNCHANGED <<procs, nameBuf, apps, conns>>
  <2>1. Entry' = Entry
    BY <1>4 DEF Entry
  <2> QED BY <1>0, <1>4, <2>1 DEF TypeOK
<1> QED BY <1>1, <1>2, <1>3, <1>4 DEF GetProcName

LEMMA TypeInit == Init => TypeOK
<1> SUFFICES ASSUME Init PROVE TypeOK
  OBVIOUS
<1>1. TypeKernel
  BY DEF Init, TypeKernel
<1>2. /\ port2connid \in [Port -> Nat \cup {-1, -2}] /\ portSet \subseteq Port
      /\ ip2connid \in [Hash -> Nat \cup {-1, -2}] /\ ipSet \subseteq Hash
  BY DEF Init
<1>3. /\ conns \in Seq(Entry) /\ bin \in Seq(Nat)
      /\ procs \in Seq(Pid) /\ nameBuf \in Seq(Name) /\ apps \in Seq(Name)
  BY DEF Init
<1>4. Len(procs) <= Len(nameBuf) /\ at \in Nat /\ answer \in Nat \cup {-1, -2}
  BY DEF Init
<1> QED BY <1>1, <1>2, <1>3, <1>4 DEF Init, TypeKernel, TypeOK

LEMMA TypeStep == TypeOK /\ [Next]_vars => TypeOK'
<1> SUFFICES ASSUME TypeOK, [Next]_vars PROVE TypeOK'
  OBVIOUS
<1> USE DEF kernel, table, names, place
<1>1. CASE UNCHANGED vars
  <2>1. Entry' = Entry
    BY <1>1 DEF vars, Entry
  <2> QED BY <1>1, <2>1 DEF vars, TypeOK
<1>2. CASE Kernel
  <2>1. UNCHANGED <<table, names, place>>
    BY <1>2 DEF Kernel
  <2>2. Entry' = Entry
    BY <2>1 DEF Entry
  <2>3. TypeKernel'
    BY <1>2, TypeKernelStep DEF TypeOK, TypeKernel
  <2> QED BY <2>1, <2>2, <2>3 DEF TypeOK, TypeKernel
<1>3. ASSUME NEW p \in Packet, Receive(p) PROVE TypeOK'
  <2>1. Entry' = Entry
    BY <1>3 DEF Receive, Entry
  <2> QED BY <1>3, <2>1 DEF Receive, TypeOK
<1>4. CASE LookupHits
  <2>1. pkt \in Packet /\ Fresh(pkt) \in SUBSET (DOMAIN conns)
    BY <1>4 DEF LookupHits, TypeOK, Fresh
  <2>2. Found(pkt, Fresh(pkt)) \in (DOMAIN conns) \cup {0}
    BY <2>1, FoundIsEntry
  <2> QED BY <1>4, <2>1, <2>2, TypeReturn DEF LookupHits
<1>5. CASE LookupMisses
  <2>1. Entry' = Entry
    BY <1>5 DEF LookupMisses, Entry
  <2>2. /\ port2connid' \in [Port -> Nat \cup {-1, -2}] /\ ip2connid' \in [Hash -> Nat \cup {-1, -2}]
        /\ portSet' \subseteq Port /\ ipSet' \subseteq Hash
    BY <1>5 DEF LookupMisses, TypeOK
  <2>3. bin' \in Seq(Nat) /\ procs' \in Seq(Pid) /\ Len(procs') = 0 /\ steady' \subseteq Socket
    BY <1>5 DEF LookupMisses
  <2>4. Len(nameBuf) \in Nat
    BY DEF TypeOK
  <2> QED BY <1>5, <2>1, <2>2, <2>3, <2>4 DEF LookupMisses, TypeOK
<1>6. CASE Answer
  <2>1. pkt \in Packet
    BY <1>6 DEF Answer, TypeOK
  <2>2. Found(pkt, DOMAIN conns) \in (DOMAIN conns) \cup {0}
    BY <2>1, FoundIsEntry
  <2> QED BY <1>6, <2>1, <2>2, TypeReturn DEF Answer
<1>7. CASE Returned
  <2>1. Entry' = Entry
    BY <1>7 DEF Returned, Entry
  <2> QED BY <1>7, <2>1 DEF Returned, TypeOK
<1>8. CASE ReadConnections
  <2>1. Entry' = Entry
    BY <1>8 DEF ReadConnections, Entry
  <2>2. conns' \in Seq(Entry) /\ bin' \in Seq(Nat)
    BY <1>8, TypeRead
  <2>3. at' \in Nat /\ pc' \in {"list", "read"}
    BY <1>8 DEF ReadConnections, TypeOK
  <2> QED BY <1>8, <2>1, <2>2, <2>3 DEF ReadConnections, TypeOK
<1>9. CASE ListPids
  <2>1. Entry' = Entry
    BY <1>9 DEF ListPids, Entry
  <2>2. at' \in Nat /\ pc' \in {"names", "attach"} /\ todo' \subseteq Pid
    BY <1>9 DEF ListPids
  <2> QED BY <1>9, <2>1, <2>2 DEF ListPids, TypeOK
<1>10. CASE AttachProcess
  <2>1. Entry' = Entry
    BY <1>10 DEF AttachProcess, Entry
  <2>2. conns' \in Seq(Entry) /\ todo' \subseteq Pid
    BY <1>10, TypeAttach
  <2>3. pc' \in {"names", "attach"}
    BY <1>10 DEF AttachProcess
  <2> QED BY <1>10, <2>1, <2>2, <2>3 DEF AttachProcess, TypeOK
<1>11. CASE UpdateNames
  <2>1. CASE pc' = "clean" /\ UNCHANGED <<at, names, conns>>
    <3>1. Entry' = Entry
      BY <2>1 DEF Entry
    <3> QED BY <1>11, <2>1, <3>1 DEF UpdateNames, TypeOK
  <2>2. CASE \E i \in DOMAIN conns : /\ GetProcName(i, conns[i].pid)
                                     /\ at' = i + 1 /\ UNCHANGED pc
    <3>1. PICK i \in DOMAIN conns : /\ GetProcName(i, conns[i].pid)
                                    /\ at' = i + 1 /\ UNCHANGED pc
      BY <2>2
    <3>2. Len(procs) <= Len(nameBuf)
      BY DEF TypeOK
    <3>3. /\ procs' \in Seq(Pid) /\ nameBuf' \in Seq(Name) /\ apps' \in Seq(Name)
          /\ conns' \in Seq(Entry') /\ Len(procs') <= Len(nameBuf')
      BY <3>1, <3>2, TypeGetProcName
    <3>4. at' \in Nat
      BY <3>1, EntryAt
    <3> QED BY <1>11, <3>1, <3>3, <3>4 DEF UpdateNames, TypeOK
  <2> QED BY <1>11, <2>1, <2>2 DEF UpdateNames
<1>12. CASE CleanConnectionInfo
  <2>1. Entry' = Entry
    BY <1>12 DEF CleanConnectionInfo, Entry
  <2>2. conns' \in Seq(Entry)
    BY <1>12, KeptSeq DEF CleanConnectionInfo
  <2> QED BY <1>12, <2>1, <2>2 DEF CleanConnectionInfo, TypeOK
<1>13. CASE UpdateIndexes
  <2>1. Entry' = Entry
    BY <1>13 DEF UpdateIndexes, Entry
  <2>2. DOMAIN PortKey \subseteq Nat /\ DOMAIN IPKey \subseteq Nat
    BY DEF PortKey, IPKey, TypeOK
  <2>3. ASSUME NEW D, NEW index \in [D -> Nat \cup {-1, -2}], NEW key, DOMAIN key \subseteq Nat
        PROVE  Indexed(index, key) \in [D -> Nat \cup {-1, -2}] /\ Added(index, key) \subseteq D
    <3>1. ASSUME NEW k \in D PROVE Indexed(index, key)[k] \in Nat \cup {-1, -2}
      <4> DEFINE with == {i \in DOMAIN key : key[i] = k}
      <4>1. Indexed(index, key)[k] = IF with = {} THEN index[k]
            ELSE IF index[k] = -1 /\ \E i \in with : with = {i}
                 THEN CHOOSE i \in with : TRUE
                 ELSE -2
        BY DEF Indexed
      <4>2. with \subseteq Nat
        BY <2>3
      <4> QED BY <4>1, <4>2
    <3> QED BY <3>1 DEF Indexed, Added
  <2>4. /\ port2connid' \in [Port -> Nat \cup {-1, -2}] /\ portSet' \subseteq Port
    BY <1>13, <2>2, <2>3 DEF UpdateIndexes, TypeOK
  <2>5. /\ ip2connid' \in [Hash -> Nat \cup {-1, -2}] /\ ipSet' \subseteq Hash
    BY <1>13, <2>2, <2>3 DEF UpdateIndexes, TypeOK
  <2> QED BY <1>13, <2>1, <2>4, <2>5 DEF UpdateIndexes, TypeOK
<1>14. CASE AttachCrashes
  <2>1. Entry' = Entry
    BY <1>14 DEF AttachCrashes, Entry
  <2> QED BY <1>14, <2>1 DEF AttachCrashes, TypeOK
<1> QED BY <1>1, <1>2, <1>3, <1>4, <1>5, <1>6, <1>7, <1>8, <1>9, <1>10, <1>11, <1>12, <1>13,
       <1>14
        DEF Next, Capture

\* TypeOK, for every set of sockets and processes: in particular the number of
\* an entry's application is always that of a line of appname.
THEOREM TypeCorrect == Spec => []TypeOK
<1> QED BY TypeInit, TypeStep, PTL DEF Spec

-----------------------------------------------------------------------------
(* Whose name an entry has                                                 *)

Dead(p) == proc[p] \in {"zombie", "gone"}
\* A name that may be used for p: one it has had, or any once it is dead.
NameFor(n, p) == n \in called[p] \/ Dead(p)

KernelInv ==
    /\ \A s \in Socket : /\ holder[s] \subseteq owned[s]
                         /\ \A p \in owned[s] : proc[p] # "unborn"
    /\ \A p \in Pid : /\ Alive(p) => proc[p] \in called[p]
                      /\ proc[p] = "unborn" => called[p] = {}

\* The names read by the refresh, and the entries.
NamesInv == \A k \in DOMAIN procs : NameFor(nameBuf[k], procs[k])
EntryInv ==
    \A i \in DOMAIN conns :
        /\ conns[i].pid # -1 => conns[i].pid \in owned[conns[i].sock]
        /\ conns[i].app # -1 => conns[i].pid # -1 /\ NameFor(apps[conns[i].app], conns[i].pid)
HolderInv == KernelInv /\ NamesInv /\ EntryInv

\* A step of the kernel keeps what it knows, forgets no name and no owner, and
\* brings nobody back.
Onward ==
    /\ \A s \in Socket : owned[s] \subseteq owned'[s]
    /\ \A p \in Pid : called[p] \subseteq called'[p] /\ (Dead(p) => Dead(p)')

LEMMA KernelKeeps ==
  ASSUME TypeOK, KernelInv, Kernel
  PROVE  KernelInv' /\ Onward
<1> USE DEF KernelInv, Alive, Dead, TypeOK, Onward
<1>0. "unborn" \notin Name /\ "zombie" \notin Name /\ "gone" \notin Name
  BY ConnTableAssumption
<1>1. ASSUME NEW p \in Pid, NEW n \in Name, NEW q, q = -1 \/ (q \in Pid /\ Alive(q)),
             Fork(p, n, {s \in Socket : q \in holder[s]})
      PROVE  KernelInv' /\ Onward
  BY <1>0, <1>1 DEF Fork
<1>2. ASSUME NEW p \in Pid, NEW n \in Name, Rename(p, n)
      PROVE  KernelInv' /\ Onward
  BY <1>0, <1>2 DEF Rename
<1>3. ASSUME NEW p \in Pid, Exit(p)
      PROVE  KernelInv' /\ Onward
  BY <1>0, <1>3 DEF Exit
<1>4. ASSUME NEW p \in Pid, Reap(p)
      PROVE  KernelInv' /\ Onward
  BY <1>0, <1>4 DEF Reap
<1>5. ASSUME NEW s \in Socket, NEW p \in Pid, Open(s, p)
      PROVE  KernelInv' /\ Onward
  BY <1>0, <1>5 DEF Open
<1>6. ASSUME NEW s \in Socket, NEW p \in Pid, Close(s, p)
      PROVE  KernelInv' /\ Onward
  BY <1>0, <1>6 DEF Close
<1> QED BY <1>1, <1>2, <1>3, <1>4, <1>5, <1>6 DEF Kernel

\* Steps that change neither the kernel nor the names read keep the rest if they
\* keep the entries.
LEMMA HolderKept ==
  ASSUME HolderInv, UNCHANGED <<proc, owned, called, holder>>,
         \A k \in DOMAIN procs' : k \in DOMAIN procs /\ procs'[k] = procs[k] /\ nameBuf'[k] = nameBuf[k],
         EntryInv'
  PROVE  HolderInv'
<1>1. KernelInv'
  BY DEF HolderInv, KernelInv, Alive
<1>2. NamesInv'
  BY DEF HolderInv, NamesInv, NameFor, Dead
<1> QED BY <1>1, <1>2 DEF HolderInv

\* Entries that come from older entries with no other change than of the time
\* are as right as those.
LEMMA EntriesKept ==
  ASSUME EntryInv, UNCHANGED <<proc, owned, called, apps>>,
         \A i \in DOMAIN conns' : \E j \in DOMAIN conns :
            /\ conns'[i].sock = conns[j].sock /\ conns'[i].pid = conns[j].pid
            /\ conns'[i].app = conns[j].app
  PROVE  EntryInv'
BY DEF EntryInv, NameFor, Dead

LEMMA ReturnKeepsEntries ==
  ASSUME TypeOK, pkt \in Packet, NEW i \in (DOMAIN conns) \cup {0}, Return(i)
  PROVE  /\ DOMAIN conns' = DOMAIN conns
         /\ \A j \in DOMAIN conns :
                /\ conns'[j].sock = conns[j].sock /\ conns'[j].pid = conns[j].pid
                /\ conns'[j].app = conns[j].app
<1>1. CASE i = 0
  BY <1>1 DEF Return
<1>2. CASE i # 0
  <2>1. conns' = [conns EXCEPT ![i] = [conns[i] EXCEPT !.tv = pkt.sec]]
    BY <1>2 DEF Return
  <2>2. conns[i] \in Entry
    BY <1>2, EntryAt
  <2>3. LET e == [conns[i] EXCEPT !.tv = pkt.sec]
        IN  e.sock = conns[i].sock /\ e.pid = conns[i].pid /\ e.app = conns[i].app
    BY <2>2 DEF Entry
  <2> QED BY <1>2, <2>1, <2>3
<1> QED BY <1>1, <1>2

LEMMA HolderInit == Init => HolderInv
<1> SUFFICES ASSUME Init PROVE HolderInv
  OBVIOUS
<1>1. KernelInv
  BY ConnTableAssumption DEF Init, KernelInv, Alive
<1>2. DOMAIN procs = {} /\ DOMAIN conns = {}
  BY DEF Init
<1> QED BY <1>1, <1>2 DEF HolderInv, NamesInv, EntryInv

LEMMA HolderStep == TypeOK /\ HolderInv /\ [Next]_vars => HolderInv'
<1> SUFFICES ASSUME TypeOK, HolderInv, [Next]_vars PROVE HolderInv'
  OBVIOUS
<1> USE DEF kernel, table, names, place
<1>0. EntryInv /\ NamesInv /\ KernelInv
  BY DEF HolderInv
<1>1. CASE UNCHANGED vars
  <2>1. EntryInv'
    BY <1>0, <1>1, EntriesKept DEF vars
  <2> QED BY <1>1, <2>1, HolderKept DEF vars
<1>2. CASE Kernel
  <2>1. UNCHANGED <<table, names, place>>
    BY <1>2 DEF Kernel
  <2>2. KernelInv' /\ Onward
    BY <1>0, <1>2, KernelKeeps
  <2>3. ASSUME NEW p \in Pid, NEW n, NameFor(n, p)
        PROVE  n \in called'[p] \/ proc'[p] \in {"zombie", "gone"}
    BY <2>2, <2>3 DEF NameFor, Onward, Dead
  <2>4. EntryInv'
    <3> SUFFICES ASSUME NEW i \in DOMAIN conns
                 PROVE  /\ conns[i].pid # -1 => conns[i].pid \in owned'[conns[i].sock]
                        /\ conns[i].app # -1 => /\ conns[i].pid # -1
                                                /\ \/ apps[conns[i].app] \in called'[conns[i].pid]
                                                   \/ proc'[conns[i].pid] \in {"zombie", "gone"}
      BY <2>1 DEF EntryInv, NameFor, Dead
    <3>1. conns[i].sock \in Socket /\ conns[i].pid \in Pid \cup {-1}
      BY EntryAt
    <3>2. conns[i].pid # -1 => conns[i].pid \in owned'[conns[i].sock]
      BY <1>0, <2>2, <3>1 DEF EntryInv, Onward
    <3>3. conns[i].app # -1 => conns[i].pid \in Pid /\ NameFor(apps[conns[i].app], conns[i].pid)
      BY <1>0, <3>1 DEF EntryInv
    <3>4. ASSUME conns[i].app # -1
          PROVE  \/ apps[conns[i].app] \in called'[conns[i].pid]
                 \/ proc'[conns[i].pid] \in {"zombie", "gone"}
      BY <2>3, <3>3, <3>4
    <3>5. conns[i].app # -1 => conns[i].pid # -1
      BY <1>0 DEF EntryInv
    <3> QED BY <3>2, <3>4, <3>5
  <2>5. NamesInv'
    <3> SUFFICES ASSUME NEW k \in DOMAIN procs PROVE NameFor(nameBuf[k], procs[k])'
      BY <2>1 DEF NamesInv
    <3>1. procs[k] \in Pid
      BY DEF TypeOK
    <3>2. NameFor(nameBuf[k], procs[k])
      BY <1>0 DEF NamesInv
    <3> QED BY <2>1, <2>3, <3>1, <3>2 DEF NameFor, Dead
  <2> QED BY <2>2, <2>4, <2>5 DEF HolderInv
<1>3. ASSUME NEW p \in Packet, Receive(p) PROVE HolderInv'
  <2>1. EntryInv'
    BY <1>0, <1>3, EntriesKept DEF Receive
  <2> QED BY <1>3, <2>1, HolderKept DEF Receive
<1>4. CASE LookupHits \/ Answer
  <2>1. pkt \in Packet
    BY <1>4 DEF LookupHits, Answer, TypeOK
  <2>2. PICK i \in (DOMAIN conns) \cup {0} : Return(i)
    <3>1. Fresh(pkt) \subseteq DOMAIN conns
      BY DEF Fresh
    <3> QED BY <1>4, <2>1, <3>1, FoundIsEntry DEF LookupHits, Answer
  <2>3. EntryInv'
    BY <1>0, <2>1, <2>2, ReturnKeepsEntries, EntriesKept DEF Return
  <2> QED BY <2>2, <2>3, HolderKept DEF Return
<1>5. CASE LookupMisses
  <2>1. EntryInv'
    BY <1>0, <1>5, EntriesKept DEF LookupMisses
  <2>2. DOMAIN procs' = {}
    BY <1>5 DEF LookupMisses
  <2> QED BY <1>5, <2>1, <2>2, HolderKept DEF LookupMisses
<1>6. CASE Returned \/ ListPids \/ AttachCrashes \/ UpdateIndexes
  <2>1. EntryInv'
    BY <1>0, <1>6, EntriesKept DEF Returned, ListPids, AttachCrashes, UpdateIndexes
  <2> QED BY <1>6, <2>1, HolderKept DEF Returned, ListPids, AttachCrashes, UpdateIndexes
<1>7. CASE ReadConnections
  <2>1. PICK l \in Seq(Socket) :
          conns' = conns \o [i \in 1 .. Len(l) |->
                      [sock |-> l[i], pid |-> -1, app |-> -1, tv |-> pkt.sec]]
    BY <1>7, TypeRead
  <2>2. ASSUME NEW i \in DOMAIN conns'
        PROVE  \/ i \in DOMAIN conns /\ conns'[i] = conns[i]
               \/ conns'[i].pid = -1 /\ conns'[i].app = -1
    <3> DEFINE c == [j \in 1 .. Len(l) |-> [sock |-> l[j], pid |-> -1, app |-> -1, tv |-> pkt.sec]]
    <3>1. /\ c \in Seq({c[j] : j \in 1 .. Len(l)}) /\ Len(c) = Len(l) /\ Len(l) \in Nat
          /\ conns \in Seq(Entry)
      <4>1. Len(l) \in Nat /\ conns \in Seq(Entry)
        BY DEF TypeOK
      <4>2. \A j \in 1 .. Len(l) : c[j] \in {c[k] : k \in 1 .. Len(l)}
        OBVIOUS
      <4>3. c \in [1 .. Len(l) -> {c[k] : k \in 1 .. Len(l)}]
        BY <4>2
      <4> HIDE DEF c
      <4> QED BY <4>1, <4>3
    <3>2. \A j \in 1 .. Len(l) : c[j].pid = -1 /\ c[j].app = -1
      OBVIOUS
    <3>3. conns' = conns \o c
      BY <2>1
    <3> HIDE DEF c
    <3>4. CASE i <= Len(conns)
      BY <2>2, <3>1, <3>3, <3>4
    <3>5. CASE ~(i <= Len(conns))
      <4>1. i - Len(conns) \in 1 .. Len(l) /\ conns'[i] = c[i - Len(conns)]
        BY <2>2, <3>1, <3>3, <3>5
      <4> QED BY <3>2, <4>1
    <3> QED BY <3>4, <3>5
  <2>3. UNCHANGED <<kernel, names>>
    BY <1>7 DEF ReadConnections
  <2>4. EntryInv'
    BY <1>0, <2>2, <2>3 DEF EntryInv, NameFor, Dead
  <2> QED BY <2>3, <2>4, HolderKept
<1>8. CASE AttachProcess
  <2>1. PICK p \in todo :
        /\ conns' = [i \in DOMAIN conns |->
                        IF conns[i].pid = -1 /\ \E s \in Socket : p \in holder[s] /\ Binned(s) = i
                        THEN [conns[i] EXCEPT !.pid = p] ELSE conns[i]]
    BY <1>8 DEF AttachProcess
  <2>2. ASSUME NEW i \in DOMAIN conns, conns'[i] # conns[i]
        PROVE  /\ conns[i].pid = -1 /\ conns'[i].pid = p /\ p \in owned[conns[i].sock]
    <3>1. PICK s \in Socket : /\ p \in holder[s] /\ Binned(s) = i /\ conns[i].pid = -1
                              /\ conns'[i] = [conns[i] EXCEPT !.pid = p]
      BY <2>1, <2>2
    <3>2. conns'[i].pid = p
      BY <3>1, EntryAt DEF Entry
    <3>3. conns[i].sock = s
      <4> DEFINE b == {k \in DOMAIN bin : bin[k] \in DOMAIN conns /\ conns[bin[k]].sock = s}
      <4>1. i # 0
        BY EntryAt
      <4>2. b # {} /\ i = bin[CHOOSE k \in b : \A m \in b : k <= m]
        BY <3>1, <4>1 DEF Binned
      <4>3. b \in SUBSET Nat
        BY DEF TypeOK
      <4> HIDE DEF b
      <4>4. \E k \in b : \A m \in b : k <= m
        BY <4>2, <4>3, NatMin
      <4>5. PICK k \in b : i = bin[k]
        BY <4>2, <4>4
      <4> QED BY <4>5 DEF b
    <3> QED BY <1>0, <3>1, <3>2, <3>3 DEF KernelInv
  <2>3. UNCHANGED <<kernel, names>> /\ DOMAIN conns' = DOMAIN conns
    BY <1>8, <2>1 DEF AttachProcess
  <2>4. \A i \in DOMAIN conns : conns'[i].sock = conns[i].sock /\ conns'[i].app = conns[i].app
    BY <1>8, TypeAttach
  <2>5. EntryInv'
    <3> SUFFICES ASSUME NEW i \in DOMAIN conns
                 PROVE  /\ conns'[i].pid # -1 => conns'[i].pid \in owned[conns'[i].sock]
                        /\ conns'[i].app # -1 => /\ conns'[i].pid # -1
                                                 /\ NameFor(apps[conns'[i].app], conns'[i].pid)
      BY <2>3 DEF EntryInv, NameFor, Dead
    <3>1. CASE conns'[i] = conns[i]
      BY <1>0, <3>1 DEF EntryInv
    <3>2. CASE conns'[i] # conns[i]
      BY <1>0, <2>2, <2>4, <3>2 DEF EntryInv
    <3> QED BY <3>1, <3>2
  <2> QED BY <2>3, <2>5, HolderKept
<1>9. CASE UpdateNames
  <2>0. UNCHANGED kernel
    BY <1>9 DEF UpdateNames
  <2>1. CASE UNCHANGED <<names, conns>>
    <3>1. EntryInv'
      BY <1>0, <2>0, <2>1, EntriesKept
    <3> QED BY <2>0, <2>1, <3>1, HolderKept
  <2>2. CASE \E i \in DOMAIN conns : conns[i].app = -1 /\ GetProcName(i, conns[i].pid)
    <3>1. PICK i \in DOMAIN conns : conns[i].app = -1 /\ GetProcName(i, conns[i].pid)
      BY <2>2
    <3> DEFINE p == conns[i].pid
    <3>2. /\ \/ \E k \in DOMAIN procs' : procs'[k] = p /\ GetAppID(i, nameBuf'[k])
             \/ UNCHANGED <<procs, nameBuf, apps, conns>>
          /\ \A k \in DOMAIN procs' :
                \/ k \in DOMAIN procs /\ procs'[k] = procs[k] /\ nameBuf'[k] = nameBuf[k]
                \/ /\ p \in Pid /\ procs'[k] = p
                   /\ \/ Alive(p) /\ nameBuf'[k] = proc[p]
                      \/ proc[p] = "zombie"
          /\ procs' \in Seq(Pid) /\ nameBuf' \in Seq(Name) /\ Len(procs') <= Len(nameBuf')
      <4>1. Len(procs) <= Len(nameBuf)
        BY DEF TypeOK
      <4> QED BY <3>1, <4>1, TypeGetProcName
    <3>3. \A k \in DOMAIN procs' : NameFor(nameBuf'[k], procs'[k])
      BY <1>0, <3>2 DEF NamesInv, KernelInv, NameFor, Dead
    <3>4. KernelInv' /\ NamesInv'
      BY <1>0, <2>0, <3>3 DEF NamesInv, KernelInv, NameFor, Dead, Alive
    <3>5. EntryInv'
      <4>1. CASE UNCHANGED <<procs, nameBuf, apps, conns>>
        BY <1>0, <2>0, <4>1, EntriesKept
      <4>2. CASE \E k \in DOMAIN procs' : procs'[k] = p /\ GetAppID(i, nameBuf'[k])
        <5>1. PICK k \in DOMAIN procs' : procs'[k] = p /\ GetAppID(i, nameBuf'[k])
          BY <4>2
        <5>2. nameBuf'[k] \in Name /\ p \in Pid
          <6>1. k \in 1 .. Len(procs') /\ Len(procs') \in Nat /\ Len(nameBuf') \in Nat
            BY <3>2, <5>1
          <6>2. k \in 1 .. Len(nameBuf')
            BY <3>2, <6>1
          <6> QED BY <3>2, <5>1, <6>2
        <5>3. /\ DOMAIN apps \subseteq DOMAIN apps' /\ \A a \in DOMAIN apps : apps'[a] = apps[a]
              /\ DOMAIN conns' = DOMAIN conns
              /\ \A j \in DOMAIN conns : j # i => conns'[j] = conns[j]
              /\ apps'[conns'[i].app] = nameBuf'[k]
              /\ conns'[i].sock = conns[i].sock /\ conns'[i].pid = p
          BY <5>1, <5>2, TypeGetAppID
        <5> SUFFICES ASSUME NEW j \in DOMAIN conns
                     PROVE  /\ conns'[j].pid # -1 => conns'[j].pid \in owned[conns'[j].sock]
                            /\ conns'[j].app # -1 => /\ conns'[j].pid # -1
                                                     /\ NameFor(apps'[conns'[j].app], conns'[j].pid)
          BY <2>0, <5>3 DEF EntryInv, NameFor, Dead
        <5>4. CASE j = i
          <6>1. p # -1
            <7>1. Pid \subseteq Nat
              BY ConnTableAssumption
            <7> QED BY <5>2, <7>1
          <6>2. NameFor(apps'[conns'[i].app], p)
            BY <3>3, <5>1, <5>3
          <6> QED BY <1>0, <5>3, <5>4, <6>1, <6>2 DEF EntryInv
        <5>5. CASE j # i
          <6>1. conns[j].app \in DOMAIN apps \cup {-1}
            BY EntryAt
          <6> QED BY <1>0, <5>3, <5>5, <6>1 DEF EntryInv
        <5> QED BY <5>4, <5>5
      <4> QED BY <3>2, <4>1, <4>2
    <3> QED BY <3>4, <3>5 DEF HolderInv
  <2> QED BY <1>9, <2>1, <2>2 DEF UpdateNames
<1>10. CASE CleanConnectionInfo
  <2>1. PICK f \in Increasing(Kept) : conns' = [n \in DOMAIN f |-> conns[f[n]]]
    BY <1>10 DEF CleanConnectionInfo
  <2>2. \A n \in DOMAIN conns' : f[n] \in DOMAIN conns /\ conns'[n] = conns[f[n]]
    BY <2>1, KeptSeq, KeptFinite
  <2>3. EntryInv'
    BY <1>0, <1>10, <2>2, EntriesKept DEF CleanConnectionInfo
  <2> QED BY <1>10, <2>3, HolderKept DEF CleanConnectionInfo
<1> QED BY <1>1, <1>2, <1>3, <1>4, <1>5, <1>6, <1>7, <1>8, <1>9, <1>10 DEF Next, Capture

\* AttributedToHolder: whatever sockets and processes do while /proc is read, an
\* entry is given a process that had its socket, and a name of that process, or
\* one left in the buffer if it has exited.
THEOREM HolderCorrect == Spec => []AttributedToHolder
<1>1. TypeOK /\ HolderInv => AttributedToHolder
  <2> SUFFICES ASSUME TypeOK, HolderInv, NEW i \in DOMAIN conns
               PROVE  LET e == conns[i]
                      IN  /\ e.pid # -1 => e.pid \in owned[e.sock]
                          /\ e.app # -1 => e.pid # -1 /\ (apps[e.app] \in called[e.pid] \/ ~Alive(e.pid))
    BY DEF AttributedToHolder
  <2>1. \A p \in Pid : Dead(p) => ~Alive(p)
    BY ConnTableAssumption DEF Dead, Alive
  <2> QED BY <2>1, EntryAt DEF HolderInv, EntryInv, NameFor
<1> QED BY <1>1, TypeInit, TypeStep, HolderInit, HolderStep, PTL DEF Spec

-----------------------------------------------------------------------------
(* The indexes and the table                                               *)

Unique(c) == \A i, j \in DOMAIN c : Key(c[i].sock) = Key(c[j].sock) => i = j
TableInv ==
    /\ IndexesRight
    /\ ~InUse => portSet = {} /\ ipSet = {}
    /\ InUse \/ pc = "index" => Unique(conns) /\ \A i \in DOMAIN conns : conns[i].app # -1

\* An index that is built from nothing is right.
LEMMA IndexBuilt ==
  ASSUME NEW index, NEW key, DOMAIN key \subseteq Nat,
         \A k \in DOMAIN index : index[k] = -1
  PROVE  IndexRight(Indexed(index, key), key, Added(index, key))
<1> SUFFICES ASSUME NEW k \in DOMAIN index
             PROVE  LET with == {i \in DOMAIN key : key[i] = k}
                        new == Indexed(index, key)[k]
                    IN  /\ new = -1 <=> with = {}
                        /\ new \in Nat => with = {new}
                        /\ \A i \in with : with = {i} => new = i
                        /\ k \in Added(index, key) <=> new # -1
  BY DEF IndexRight, Indexed
<1> DEFINE with == {i \in DOMAIN key : key[i] = k}
           new == Indexed(index, key)[k]
<1>1. with \subseteq Nat
  OBVIOUS
<1>2. k \in Added(index, key) <=> with # {}
  BY DEF Added
<1>3. new = IF with = {} THEN -1
            ELSE IF \E i \in with : with = {i} THEN CHOOSE i \in with : TRUE ELSE -2
  BY DEF Indexed
<1> HIDE DEF with, new
<1> DEFINE Right == /\ new = -1 <=> with = {}
                    /\ new \in Nat => with = {new}
                    /\ \A i \in with : with = {i} => new = i
                    /\ k \in Added(index, key) <=> new # -1
<1>4. ASSUME with = {} PROVE Right
  BY <1>2, <1>3, <1>4
<1>5. ASSUME \E i \in with : with = {i} PROVE Right
  <2>1. new \in with
    BY <1>3, <1>5
  <2>2. with = {new} /\ new \in Nat
    BY <1>1, <1>5, <2>1
  <2>3. new # -1
    BY <2>2
  <2> QED BY <1>2, <2>2, <2>3
<1>6. ASSUME with # {}, ~ \E i \in with : with = {i} PROVE Right
  BY <1>2, <1>3, <1>6
<1>7. Right
  BY <1>4, <1>5, <1>6
<1> QED BY <1>7 DEF with, new

\* The steps that change neither sockets nor indexes keep the indexes right.
LEMMA KeysKept ==
  ASSUME DOMAIN conns' = DOMAIN conns, \A j \in DOMAIN conns : conns'[j].sock = conns[j].sock
  PROVE  PortKey' = PortKey /\ IPKey' = IPKey
BY DEF PortKey, IPKey

\* What is looked up in a right index has the key.
LEMMA FoundMatches ==
  ASSUME TypeOK, IndexesRight, InUse, pkt \in Packet, NEW usable \in SUBSET (DOMAIN conns),
         NEW i, i = Found(pkt, usable), i # 0
  PROVE  /\ i \in DOMAIN conns
         /\ \/ Addr[conns[i].sock].port = LocalPort(pkt)
            \/ IPHash[Addr[conns[i].sock].rip] = IPHash[pkt.flow.rip]
<1> DEFINE c1 == port2connid[LocalPort(pkt)]
           c2 == ip2connid[IPHash[pkt.flow.rip]]
           c3 == SearchForConn(pkt)
<1>1. \/ i \in usable /\ i = c1
      \/ i \in usable /\ i = c2
      \/ i \in usable /\ i = c3
  BY DEF Found
<1>2. i \in DOMAIN conns /\ i \in Nat
  BY <1>1, EntryAt
<1>3. LocalPort(pkt) \in DOMAIN port2connid /\ IPHash[pkt.flow.rip] \in DOMAIN ip2connid
  BY PortOfFlow DEF TypeOK
<1>4. CASE i = c1
  <2>1. {j \in DOMAIN PortKey : PortKey[j] = LocalPort(pkt)} = {i}
    BY <1>2, <1>3, <1>4 DEF IndexesRight, IndexRight
  <2> QED BY <1>2, <2>1 DEF PortKey
<1>5. CASE i = c2
  <2>1. {j \in DOMAIN IPKey : IPKey[j] = IPHash[pkt.flow.rip]} = {i}
    BY <1>2, <1>3, <1>5 DEF IndexesRight, IndexRight
  <2> QED BY <1>2, <2>1 DEF IPKey
<1>6. CASE i = c3
  <2>1. SameRemote(pkt, i)
    BY <1>6, SearchedMatches
  <2> QED BY <1>2, <2>1 DEF SameRemote
<1> QED BY <1>1, <1>2, <1>4, <1>5, <1>6

LEMMA TableInit == Init => TableInv
<1> SUFFICES ASSUME Init PROVE TableInv
  OBVIOUS
<1>1. DOMAIN conns = {} /\ DOMAIN PortKey = {} /\ DOMAIN IPKey = {} /\ InUse
  BY DEF Init, PortKey, IPKey, InUse
<1>2. IndexRight(port2connid, PortKey, portSet) /\ IndexRight(ip2connid, IPKey, ipSet)
  <2>1. \A k \in DOMAIN port2connid : port2connid[k] = -1
    BY DEF Init
  <2>2. \A k \in DOMAIN ip2connid : ip2connid[k] = -1
    BY DEF Init
  <2> QED BY <1>1, <2>1, <2>2 DEF IndexRight, Init
<1> QED BY <1>1, <1>2 DEF TableInv, IndexesRight, Unique

LEMMA TableReturn ==
  ASSUME TypeOK, TableInv, InUse, pkt \in Packet, NEW i \in (DOMAIN conns) \cup {0}, Return(i)
  PROVE  TableInv'
<1>1. /\ DOMAIN conns' = DOMAIN conns
      /\ \A j \in DOMAIN conns : conns'[j].sock = conns[j].sock /\ conns'[j].app = conns[j].app
  BY ReturnKeepsEntries
<1>2. PortKey' = PortKey /\ IPKey' = IPKey
  BY <1>1, KeysKept
<1>3. InUse' /\ UNCHANGED <<port2connid, ip2connid, portSet, ipSet>>
  BY DEF Return, InUse
<1>4. IndexesRight'
  BY <1>2, <1>3 DEF TableInv, IndexesRight, IndexRight
<1>5. Unique(conns') /\ \A j \in DOMAIN conns' : conns'[j].app # -1
  BY <1>1 DEF TableInv, Unique
<1> QED BY <1>3, <1>4, <1>5 DEF TableInv, Unique, Key, ProtOf

LEMMA TableStep == TypeOK /\ TableInv /\ [Next]_vars => TableInv'
<1> SUFFICES ASSUME TypeOK, TableInv, [Next]_vars PROVE TableInv'
  OBVIOUS
<1> USE DEF kernel, table, names, place
<1>1. CASE UNCHANGED table /\ UNCHANGED pc
  <2>1. UNCHANGED <<PortKey, IPKey, InUse>>
    BY <1>1 DEF PortKey, IPKey, InUse
  <2> QED BY <1>1, <2>1 DEF TableInv, IndexesRight, IndexRight, Unique, Key, ProtOf
<1>2. CASE UNCHANGED table /\ InUse /\ InUse'
  <2>1. UNCHANGED <<PortKey, IPKey>>
    BY <1>2 DEF PortKey, IPKey
  <2> QED BY <1>2, <2>1 DEF TableInv, IndexesRight, IndexRight, Unique, Key, ProtOf
<1>3. CASE ~InUse /\ ~InUse' /\ pc' # "index" /\ UNCHANGED <<port2connid, ip2connid, portSet, ipSet>>
  BY <1>3 DEF TableInv, IndexesRight
<1>4. CASE LookupHits \/ Answer
  <2>1. pkt \in Packet /\ InUse
    BY <1>4 DEF LookupHits, Answer, TypeOK, InUse
  <2>2. PICK i \in (DOMAIN conns) \cup {0} : Return(i)
    <3>1. Fresh(pkt) \subseteq DOMAIN conns
      BY DEF Fresh
    <3> QED BY <1>4, <2>1, <3>1, FoundIsEntry DEF LookupHits, Answer
  <2> QED BY <2>1, <2>2, TableReturn
<1>5. CASE LookupMisses
  <2>1. InUse /\ ~InUse' /\ pc' # "index" /\ portSet' = {} /\ ipSet' = {}
    BY <1>5 DEF LookupMisses, InUse
  <2>2. IndexRight(port2connid, PortKey, portSet) /\ IndexRight(ip2connid, IPKey, ipSet)
    BY <2>1 DEF TableInv, IndexesRight
  <2>3. \A k \in Port : k \in portSet <=> port2connid[k] # -1
    BY <2>2 DEF IndexRight, TypeOK
  <2>4. \A h \in Hash : h \in ipSet <=> ip2connid[h] # -1
    BY <2>2 DEF IndexRight, TypeOK
  <2>5. (\A k \in Port : port2connid'[k] = -1) /\ (\A h \in Hash : ip2connid'[h] = -1)
    BY <1>5, <2>3, <2>4 DEF LookupMisses
  <2> QED BY <2>1, <2>5 DEF TableInv, IndexesRight
<1>6. CASE CleanConnectionInfo
  <2>1. PICK f \in Increasing(Kept) : conns' = [n \in DOMAIN f |-> conns[f[n]]]
    BY <1>6 DEF CleanConnectionInfo
  <2>2. /\ DOMAIN conns' = DOMAIN f
        /\ \A n \in DOMAIN conns' : f[n] \in Kept /\ conns'[n] = conns[f[n]]
    BY <2>1, KeptSeq
  <2>3. ASSUME NEW i \in Kept, NEW j \in Kept, Key(conns[i].sock) = Key(conns[j].sock)
        PROVE  i = j
    <3>1. i \in DOMAIN conns /\ j \in DOMAIN conns /\ ~Beats(i, j) /\ ~Beats(j, i) /\ Live(i) /\ Live(j)
      BY DEF Kept
    <3>2. i \in Nat /\ j \in Nat /\ conns[i].tv \in Nat /\ conns[j].tv \in Nat
      BY <3>1, EntryAt, ConnTableAssumption
    <3> QED BY <2>3, <3>1, <3>2 DEF Beats
  <2>4. \A m, n \in DOMAIN f : f[m] = f[n] => m = n
    <3>1. f \in [1 .. Cardinality(Kept) -> Kept] /\ \A i, j \in DOMAIN f : i < j => f[i] < f[j]
      BY DEF Increasing
    <3>2. DOMAIN f \subseteq Nat /\ \A n \in DOMAIN f : f[n] \in Nat
      <4>1. Kept \subseteq Nat /\ Cardinality(Kept) \in Nat
        BY KeptFinite, EntryAt
      <4>2. DOMAIN f = 1 .. Cardinality(Kept) /\ \A n \in DOMAIN f : f[n] \in Kept
        BY <3>1
      <4>3. 1 .. Cardinality(Kept) \subseteq Nat
        BY <4>1
      <4> QED BY <4>1, <4>2, <4>3
    <3> QED BY <3>1, <3>2
  <2>5. Unique(conns') /\ \A i \in DOMAIN conns' : conns'[i].app # -1
    <3>1. \A i \in DOMAIN conns' : conns'[i].app # -1
      BY <2>2 DEF Kept, Live
    <3>2. \A i, j \in DOMAIN conns' : Key(conns'[i].sock) = Key(conns'[j].sock) => i = j
      BY <2>2, <2>3, <2>4
    <3> QED BY <3>1, <3>2 DEF Unique
  <2>6. ~InUse /\ ~InUse' /\ UNCHANGED <<port2connid, ip2connid, portSet, ipSet>>
    BY <1>6 DEF CleanConnectionInfo, InUse
  <2> QED BY <2>5, <2>6 DEF TableInv, IndexesRight, Unique, Key, ProtOf
<1>7. CASE UpdateIndexes
  <2>1. ~InUse /\ InUse' /\ UNCHANGED conns /\ pc = "index" /\ portSet = {} /\ ipSet = {}
    BY <1>7 DEF UpdateIndexes, InUse, TableInv
  <2>2. /\ \A k \in DOMAIN port2connid : port2connid[k] = -1
        /\ \A h \in DOMAIN ip2connid : ip2connid[h] = -1
    BY <2>1 DEF TableInv, IndexesRight, TypeOK
  <2>3. DOMAIN PortKey \subseteq Nat /\ DOMAIN IPKey \subseteq Nat
    BY DEF PortKey, IPKey, TypeOK
  <2>4. /\ IndexRight(Indexed(port2connid, PortKey), PortKey, Added(port2connid, PortKey))
        /\ IndexRight(Indexed(ip2connid, IPKey), IPKey, Added(ip2connid, IPKey))
    BY <2>2, <2>3, IndexBuilt
  <2>5. /\ port2connid' = Indexed(port2connid, PortKey) /\ portSet' = Added(port2connid, PortKey)
        /\ ip2connid' = Indexed(ip2connid, IPKey) /\ ipSet' = Added(ip2connid, IPKey)
    BY <1>7, <2>1 DEF UpdateIndexes
  <2>6. UNCHANGED <<PortKey, IPKey>>
    BY <2>1 DEF PortKey, IPKey
  <2>7. IndexesRight'
    BY <2>1, <2>4, <2>5, <2>6 DEF IndexesRight, IndexRight
  <2> QED BY <2>1, <2>7 DEF TableInv, Unique, Key, ProtOf
<1>8. ASSUME Kernel \/ UNCHANGED vars PROVE UNCHANGED table /\ UNCHANGED pc
  BY <1>8 DEF Kernel, vars
<1>9. ASSUME Returned \/ \E p \in Packet : Receive(p) PROVE UNCHANGED table /\ InUse /\ InUse'
  BY <1>9 DEF Returned, Receive, InUse
<1>10. ASSUME ReadConnections \/ ListPids \/ AttachProcess \/ AttachCrashes \/ UpdateNames
       PROVE  ~InUse /\ ~InUse' /\ pc' # "index" /\ UNCHANGED <<port2connid, ip2connid, portSet, ipSet>>
  BY <1>10 DEF ReadConnections, ListPids, AttachProcess, AttachCrashes, UpdateNames, InUse
<1> QED BY <1>1, <1>2, <1>3, <1>4, <1>5, <1>6, <1>7, <1>8, <1>9, <1>10 DEF Next, Capture

\* TableInv, the strengthening the next four rest on: table, indexes and the lists
\* of keys to clear agree at every place of a refresh (lines 264-284, 358-488).
THEOREM TableCorrect == Spec => []TableInv
BY TypeCorrect, TypeInit, TypeStep, TableInit, TableStep, PTL DEF Spec

\* IndexesRight: the indexes are rebuilt from nothing by every refresh, which
\* rests on the lists of the keys to clear being right after the one before.
THEOREM IndexesCorrect == Spec => []IndexesRight
<1>1. TableInv => IndexesRight
  BY DEF TableInv
<1> QED BY <1>1, TableCorrect, PTL

\* AssertionsHold: no check that ends the process can fail.
THEOREM AssertionsCorrect == Spec => []AssertionsHold
<1>1. TableInv => AssertionsHold
  BY DEF TableInv, AssertionsHold, InUse
<1> QED BY <1>1, TableCorrect, PTL

\* NoDuplicates: a connection has one entry whenever the table is used.
THEOREM NoDuplicatesCorrect == Spec => []NoDuplicates
<1>1. TableInv => NoDuplicates
  BY DEF TableInv, NoDuplicates, Unique
<1> QED BY <1>1, TableCorrect, PTL

LEMMA AnswerStep ==
  ASSUME TypeOK, TableInv, AnswerOfMatchingEntry, [Next]_vars
  PROVE  AnswerOfMatchingEntry'
<1> USE DEF kernel, table, names, place
<1>1. CASE LookupHits \/ Answer
  <2>1. pkt \in Packet /\ InUse /\ IndexesRight
    BY <1>1 DEF LookupHits, Answer, TypeOK, InUse, TableInv
  <2>2. PICK usable \in SUBSET (DOMAIN conns) : Return(Found(pkt, usable))
    <3>1. Fresh(pkt) \subseteq DOMAIN conns
      BY DEF Fresh
    <3> QED BY <1>1, <3>1 DEF LookupHits, Answer
  <2> DEFINE i == Found(pkt, usable)
  <2>3. i \in (DOMAIN conns) \cup {0}
    BY <2>1, FoundIsEntry
  <2>4. CASE i = 0
    BY <2>2, <2>4 DEF Return, AnswerOfMatchingEntry
  <2>5. CASE i # 0
    <3>1. /\ i \in DOMAIN conns
          /\ \/ Addr[conns[i].sock].port = LocalPort(pkt)
             \/ IPHash[Addr[conns[i].sock].rip] = IPHash[pkt.flow.rip]
      BY <2>1, <2>5, FoundMatches
    <3> HIDE DEF i
    <3>2. /\ DOMAIN conns' = DOMAIN conns /\ conns'[i].sock = conns[i].sock
          /\ conns'[i].app = conns[i].app
      BY <2>1, <2>2, <2>3, <3>1, ReturnKeepsEntries DEF i
    <3>3. conns' = [conns EXCEPT ![i].tv = pkt.sec] /\ answer' = conns[i].app /\ pkt' = pkt
      BY <2>2, <2>5 DEF Return, i
    <3>4. conns'[i].tv = pkt.sec
      BY <3>1, <3>3, EntryAt DEF Entry
    <3>5. LocalPort(pkt') = LocalPort(pkt)
      BY <3>3
    <3> QED BY <3>1, <3>2, <3>3, <3>4, <3>5 DEF AnswerOfMatchingEntry, LocalPort, SrcPort, Swap
  <2> QED BY <2>4, <2>5
<1>2. CASE UNCHANGED vars
  BY <1>2 DEF vars, AnswerOfMatchingEntry, LocalPort, SrcPort, Swap
<1>3. CASE Kernel \/ (\E p \in Packet : Receive(p)) \/ LookupMisses \/ Returned \/ ReadConnections
           \/ ListPids \/ AttachProcess \/ AttachCrashes \/ UpdateNames \/ CleanConnectionInfo
           \/ UpdateIndexes
  <2>1. pc' # "return"
    BY <1>3 DEF Kernel, Computing, Receive, LookupMisses, Returned, ReadConnections, ListPids,
                AttachProcess, AttachCrashes, UpdateNames, CleanConnectionInfo, UpdateIndexes
  <2> QED BY <2>1 DEF AnswerOfMatchingEntry
<1> QED BY <1>1, <1>2, <1>3 DEF Next, Capture

\* AnswerOfMatchingEntry: a packet is given to the application of an entry with
\* the port it was looked up by, or an address with the hash of its own.
THEOREM AnswerCorrect == Spec => []AnswerOfMatchingEntry
<1>1. Init => AnswerOfMatchingEntry
  BY DEF Init, AnswerOfMatchingEntry
<1> QED BY <1>1, TypeCorrect, TableCorrect, AnswerStep, PTL DEF Spec

\* AnswerHasLocalPort, which does not hold of every packet, holds of those uplink,
\* and of those downlink from a port whose bytes swapped are the local port: line
\* 608 is all that is wrong with the comment at line 84.
THEOREM LocalPortOtherwise ==
  Spec => [](pkt.up \/ Swap(pkt.flow.rport) = pkt.flow.port => AnswerHasLocalPort)
<1>1. AnswerOfMatchingEntry /\ (pkt.up \/ Swap(pkt.flow.rport) = pkt.flow.port)
        => AnswerHasLocalPort
  <2> SUFFICES ASSUME AnswerOfMatchingEntry,
                      pkt.up \/ Swap(pkt.flow.rport) = pkt.flow.port,
                      pc = "return", answer # -1
               PROVE  \E i \in DOMAIN conns :
                        /\ conns[i].app = answer
                        /\ \/ Addr[conns[i].sock].port = pkt.flow.port
                           \/ IPHash[Addr[conns[i].sock].rip] = IPHash[pkt.flow.rip]
    BY DEF AnswerHasLocalPort
  <2>1. LocalPort(pkt) = pkt.flow.port
    BY DEF LocalPort, SrcPort
  <2> QED BY <2>1 DEF AnswerOfMatchingEntry
<1> QED BY <1>1, AnswerCorrect, PTL
=============================================================================
