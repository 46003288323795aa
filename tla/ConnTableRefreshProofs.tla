---------------------- MODULE ConnTableRefreshProofs ----------------------
(* Proofs about the refresh of ConnTable: while the table has no more      *)
(* entries than a byte can number, a connection that is there all the time *)
(* comes out of the refresh with an application.  How large it gets is     *)
(* bounded by the number of sockets.                                       *)
EXTENDS ConnTableProofs

\* The identifiers that the bins store are those of the table.
Wide == Len(conns) <= IdWidth

HoldersAlive == \A s \in Socket : \A p \in holder[s] : Alive(p)

\* The bins name the entries made by this refresh, which have no process yet.
BinsNew ==
    pc \in {"read", "list"} =>
        \A k \in DOMAIN bin : /\ bin[k] \in DOMAIN conns
                              /\ conns[bin[k]].tv = pkt.sec /\ conns[bin[k]].pid = -1

\* How far a steady socket has come: it is in a bin; its entry has one of its
\* holders, or one is still to be looked at; its entry has an application, or is
\* still to be given one; the table has an entry with its addresses.
InBin(s) == \E k \in DOMAIN bin : bin[k] \in DOMAIN conns /\ conns[bin[k]].sock = s
Attached(s) ==
    LET i == Binned(s)
    IN  /\ i \in DOMAIN conns /\ conns[i].sock = s /\ conns[i].tv = pkt.sec
        /\ \/ conns[i].pid \in holder[s]
           \/ conns[i].pid = -1 /\ \E p \in todo : p \in holder[s]
Held(s, i) == conns[i].sock = s /\ conns[i].tv = pkt.sec /\ conns[i].pid \in holder[s]
Named(s, i) == conns[i].sock = s /\ conns[i].tv = pkt.sec /\ conns[i].app # -1
Progress(s) ==
    /\ holder[s] # {}
    /\ pc = "read" /\ Addr[s].file < at => InBin(s)
    /\ pc = "list" => InBin(s)
    /\ pc = "attach" => Attached(s)
    /\ pc = "names" => \E i \in DOMAIN conns : Held(s, i) /\ (conns[i].app = -1 => at <= i)
    /\ pc = "clean" => \E i \in DOMAIN conns : Named(s, i)
    /\ pc \in {"index", "answer"} => \E i \in DOMAIN conns : Key(conns[i].sock) = Key(s)

RefreshInv ==
    /\ HoldersAlive /\ BinsNew
    /\ pc = "attach" => at = 1
    /\ \A s \in steady : Progress(s)
    /\ ConnectedAttributed

-----------------------------------------------------------------------------
(* Listings and the latest entry                                           *)

\* A list of as many members as a finite set has, all different, has them all.
LEMMA ListsAll ==
  ASSUME NEW S, IsFiniteSet(S), NEW f \in [1 .. Cardinality(S) -> S],
         \A i, j \in DOMAIN f : f[i] = f[j] => i = j,
         NEW s \in S
  PROVE  \E i \in DOMAIN f : f[i] = s
<1>1. Cardinality(S) \in Nat
  BY FS_CardinalityType
<1>2. f \in Injection(1 .. Cardinality(S), S)
  BY DEF Injection, IsInjective
<1>3. Cardinality(1 .. Cardinality(S)) = Cardinality(S)
  BY <1>1, FS_Interval
<1>4. f \in Surjection(1 .. Cardinality(S), S)
  BY <1>2, <1>3, FS_Injection
<1> QED BY <1>4 DEF Surjection

\* Of some entries there is one with the latest time: the times of finitely many
\* entries have a bound, and the least bound is one of them.
LEMMA LatestEntry ==
  ASSUME TypeOK, NEW S \in SUBSET (DOMAIN conns), S # {}
  PROVE  \E i \in S : \A j \in S : conns[j].tv <= conns[i].tv
<1>1. DOMAIN conns = 1 .. Len(conns) /\ Len(conns) \in Nat
  BY DEF TypeOK
<1>2. \A j \in DOMAIN conns : conns[j].tv \in Nat
  BY EntryAt, ConnTableAssumption
<1> DEFINE Bound(n, u) == \A j \in DOMAIN conns : j <= n => conns[j].tv <= u
           Bad == {n \in Nat : ~ \E u \in Nat : Bound(n, u)}
<1>3. Bad = {}
  <2> SUFFICES ASSUME Bad # {} PROVE FALSE
    OBVIOUS
  <2>1. PICK n \in Bad : \A m \in Bad : n <= m
    BY NatMin
  <2>2. n \in Nat /\ ~ \E u \in Nat : Bound(n, u)
    OBVIOUS
  <2>3. n # 0
    <3>1. Bound(0, 0)
      BY <1>1
    <3> QED BY <2>2, <3>1
  <2>4. n - 1 \in Nat /\ n - 1 \notin Bad
    BY <2>1, <2>2, <2>3
  <2>5. PICK u \in Nat : Bound(n - 1, u)
    BY <2>4
  <2>6. CASE n \in DOMAIN conns
    <3>1. conns[n].tv \in Nat
      BY <1>2, <2>6
    <3>2. PICK w \in Nat : u <= w /\ conns[n].tv <= w
      BY <3>1
    <3>3. Bound(n, w)
      <4> SUFFICES ASSUME NEW j \in DOMAIN conns, j <= n PROVE conns[j].tv <= w
        OBVIOUS
      <4>1. CASE j = n
        BY <3>2, <4>1
      <4>2. CASE j # n
        <5>1. j <= n - 1
          BY <1>1, <2>2, <4>2
        <5>2. conns[j].tv <= u /\ conns[j].tv \in Nat
          BY <1>2, <2>5, <5>1
        <5> QED BY <3>2, <5>2
      <4> QED BY <4>1, <4>2
    <3> QED BY <2>2, <3>3
  <2>7. CASE n \notin DOMAIN conns
    <3>1. Bound(n, u)
      BY <1>1, <2>2, <2>5, <2>7
    <3> QED BY <2>2, <3>1
  <2> QED BY <2>6, <2>7
<1> DEFINE V == {u \in Nat : \A j \in S : conns[j].tv <= u}
<1>4. V # {}
  <2>1. PICK u \in Nat : Bound(Len(conns), u)
    BY <1>1, <1>3
  <2>2. u \in V
    BY <1>1, <2>1
  <2> QED BY <2>2
<1>5. PICK m \in V : \A u \in V : m <= u
  BY <1>4, NatMin
<1>6. \E i \in S : conns[i].tv = m
  <2> SUFFICES ASSUME \A i \in S : conns[i].tv # m PROVE FALSE
    OBVIOUS
  <2>1. \A i \in S : conns[i].tv \in Nat /\ conns[i].tv <= m
    BY <1>2, <1>5
  <2>2. m \in Nat
    OBVIOUS
  <2>3. \A i \in S : conns[i].tv <= m - 1 /\ m - 1 \in Nat
    BY <2>1, <2>2
  <2>4. m - 1 \in V
    BY <2>3
  <2> QED BY <1>5, <2>2, <2>4
<1>7. \A j \in S : conns[j].tv <= m
  BY <1>5
<1> QED BY <1>6, <1>7

-----------------------------------------------------------------------------
(* The kernel during a refresh                                             *)

\* A socket that stays steady loses no holder, and every holder is alive.
LEMMA KernelSteady ==
  ASSUME TypeOK, KernelInv, HoldersAlive, Kernel
  PROVE  /\ HoldersAlive' /\ steady' \subseteq steady
         /\ \A s \in steady' : holder[s] \subseteq holder'[s]
<1> DEFINE Goal == /\ HoldersAlive' /\ steady' \subseteq steady
                   /\ \A s \in steady' : holder[s] \subseteq holder'[s]
<1> USE DEF HoldersAlive, Alive, TypeOK
<1>0. "unborn" \notin Name /\ "zombie" \notin Name /\ "gone" \notin Name
  BY ConnTableAssumption
<1>1. ASSUME NEW p \in Pid, NEW n \in Name, NEW q, Fork(p, n, {s \in Socket : q \in holder[s]})
      PROVE  Goal
  BY <1>0, <1>1 DEF Fork
<1>2. ASSUME NEW p \in Pid, NEW n \in Name, Rename(p, n) PROVE Goal
  BY <1>0, <1>2 DEF Rename
<1>3. ASSUME NEW p \in Pid, Exit(p) PROVE Goal
  BY <1>0, <1>3 DEF Exit
<1>4. ASSUME NEW p \in Pid, Reap(p) PROVE Goal
  BY <1>0, <1>4 DEF Reap
<1>5. ASSUME NEW s \in Socket, NEW p \in Pid, Open(s, p) PROVE Goal
  BY <1>0, <1>5 DEF Open, KernelInv
<1>6. ASSUME NEW s \in Socket, NEW p \in Pid, Close(s, p) PROVE Goal
  BY <1>0, <1>6 DEF Close
<1> QED BY <1>1, <1>2, <1>3, <1>4, <1>5, <1>6 DEF Kernel

LEMMA RefreshKernel ==
  ASSUME TypeOK, HolderInv, RefreshInv, Kernel
  PROVE  RefreshInv'
<1>1. UNCHANGED <<table, names, place>> /\ ~Computing
  BY DEF Kernel
<1> USE DEF table, names, place
<1>2. /\ HoldersAlive' /\ steady' \subseteq steady
      /\ \A s \in steady' : holder[s] \subseteq holder'[s]
  BY KernelSteady DEF RefreshInv, HolderInv
<1>3. BinsNew'
  BY <1>1 DEF RefreshInv, BinsNew
<1>4. ASSUME NEW s \in steady' PROVE Progress(s)'
  <2>1. Progress(s) /\ s \in steady /\ holder[s] \subseteq holder'[s]
    BY <1>2 DEF RefreshInv
  <2>2. InBin(s)' = InBin(s)
    BY <1>1 DEF InBin
  <2>3. Binned(s)' = Binned(s)
    BY <1>1 DEF Binned
  <2>4. Attached(s) => Attached(s)'
    BY <1>1, <2>1, <2>3 DEF Attached
  <2>5. \A i \in DOMAIN conns : Held(s, i) => Held(s, i)'
    BY <1>1, <2>1 DEF Held
  <2>6. \A i \in DOMAIN conns : Named(s, i)' = Named(s, i)
    BY <1>1 DEF Named
  <2>7. \A i \in DOMAIN conns : (Key(conns[i].sock) = Key(s))' = (Key(conns[i].sock) = Key(s))
    BY <1>1 DEF Key, ProtOf
  <2> QED BY <1>1, <2>1, <2>2, <2>4, <2>5, <2>6, <2>7 DEF Progress
<1>5. ConnectedAttributed'
  BY <1>1, <1>2 DEF RefreshInv, ConnectedAttributed, Computing, ProtOf
<1> QED BY <1>1, <1>2, <1>3, <1>4, <1>5 DEF RefreshInv

-----------------------------------------------------------------------------
(* Reading the connections                                                 *)

\* What Binned returns is the entry of a bin, if a bin has the socket.
LEMMA BinnedInBin ==
  ASSUME TypeOK, NEW s \in Socket, InBin(s)
  PROVE  \E k \in DOMAIN bin : /\ Binned(s) = bin[k] /\ bin[k] \in DOMAIN conns
                               /\ conns[bin[k]].sock = s
<1> DEFINE b == {k \in DOMAIN bin : bin[k] \in DOMAIN conns /\ conns[bin[k]].sock = s}
<1>1. b # {} /\ b \in SUBSET Nat
  <2>1. DOMAIN bin \in SUBSET Nat
    BY DEF TypeOK
  <2> QED BY <2>1 DEF InBin
<1>2. Binned(s) = bin[CHOOSE k \in b : \A l \in b : k <= l]
  BY <1>1 DEF Binned
<1>3. \A k \in b : k \in DOMAIN bin /\ bin[k] \in DOMAIN conns /\ conns[bin[k]].sock = s
  OBVIOUS
<1> HIDE DEF b
<1>4. \E k \in b : \A l \in b : k <= l
  BY <1>1, NatMin
<1> QED BY <1>2, <1>3, <1>4

LEMMA Appended ==
  ASSUME NEW S, NEW T, NEW u \in Seq(S), NEW v \in Seq(T)
  PROVE  /\ Len(u \o v) = Len(u) + Len(v)
         /\ DOMAIN (u \o v) = 1 .. Len(u) + Len(v)
         /\ \A i \in 1 .. Len(u) : (u \o v)[i] = u[i]
         /\ \A i \in 1 .. Len(v) : (u \o v)[Len(u) + i] = v[i]
<1>1. u \in Seq(S \cup T) /\ v \in Seq(S \cup T)
  OBVIOUS
<1>2. Len(u) \in Nat /\ Len(v) \in Nat
  OBVIOUS
<1> QED BY <1>1, <1>2

\* The entries of a file are appended, and binned under their own identifiers as
\* long as the table is not too large.
LEMMA ReadAppends ==
  ASSUME TypeOK, ReadConnections, Wide'
  PROVE  /\ \A i \in DOMAIN conns : i \in DOMAIN conns' /\ conns'[i] = conns[i]
         /\ \A k \in DOMAIN bin : k \in DOMAIN bin' /\ bin'[k] = bin[k]
         /\ \A k \in DOMAIN bin' : k \notin DOMAIN bin =>
                /\ bin'[k] \in DOMAIN conns'
                /\ conns'[bin'[k]].tv = pkt.sec /\ conns'[bin'[k]].pid = -1
         /\ \A s \in Socket : holder[s] # {} /\ Addr[s].file = at =>
                \E k \in DOMAIN bin' : bin'[k] \in DOMAIN conns' /\ conns'[bin'[k]].sock = s
<1> DEFINE S == {s \in Socket : holder[s] # {} /\ Addr[s].file = at}
<1>1. PICK l \in Listings(S) :
        /\ conns' = conns \o [i \in 1 .. Len(l) |->
                        [sock |-> l[i], pid |-> -1, app |-> -1, tv |-> pkt.sec]]
        /\ bin' = bin \o [i \in 1 .. Len(l) |-> ((Len(conns) + i - 1) % IdWidth) + 1]
  BY DEF ReadConnections
<1>2. \A s \in Socket : holder[s] # {} /\ Addr[s].file = at => s \in S
  OBVIOUS
<1>3. S \in SUBSET Socket /\ IsFiniteSet(S)
  BY FS_Subset, ConnTableAssumption
<1> HIDE DEF S
<1>4. /\ l \in [1 .. Cardinality(S) -> S] /\ \A i, j \in DOMAIN l : l[i] = l[j] => i = j
      /\ l \in Seq(S) /\ Cardinality(S) \in Nat
  BY <1>3, ListingIsSeq, FS_CardinalityType DEF Listings
<1>5. \A s \in S : \E i \in DOMAIN l : l[i] = s
  BY <1>3, <1>4, ListsAll
<1> DEFINE n == Len(l)
           c == [i \in 1 .. n |-> [sock |-> l[i], pid |-> -1, app |-> -1, tv |-> pkt.sec]]
           b == [i \in 1 .. n |-> ((Len(conns) + i - 1) % IdWidth) + 1]
<1>6. n \in Nat /\ DOMAIN l = 1 .. n
  BY <1>4
<1>7. \A i \in 1 .. n : c[i].sock = l[i] /\ c[i].pid = -1 /\ c[i].tv = pkt.sec
  OBVIOUS
<1>8. c \in Seq({c[i] : i \in 1 .. n}) /\ Len(c) = n
  <2>1. \A j \in 1 .. n : c[j] \in {c[i] : i \in 1 .. n}
    OBVIOUS
  <2>2. c \in [1 .. n -> {c[i] : i \in 1 .. n}]
    BY <2>1
  <2> HIDE DEF c, n
  <2> QED BY <1>6, <2>2
<1>9. b \in Seq({b[i] : i \in 1 .. n}) /\ Len(b) = n
  <2>1. \A j \in 1 .. n : b[j] \in {b[i] : i \in 1 .. n}
    OBVIOUS
  <2>2. b \in [1 .. n -> {b[i] : i \in 1 .. n}]
    BY <2>1
  <2> HIDE DEF b, n
  <2> QED BY <1>6, <2>2
<1>10. conns \in Seq(Entry) /\ bin \in Seq(Nat) /\ Len(conns) \in Nat /\ Len(bin) \in Nat
  BY DEF TypeOK
<1>11. conns' = conns \o c /\ bin' = bin \o b
  BY <1>1
<1>12. \A i \in 1 .. n : b[i] = ((Len(conns) + i - 1) % IdWidth) + 1
  OBVIOUS
<1> HIDE DEF c, b, n
<1>13. Len(conns) + n <= IdWidth
  <2>1. Len(conns \o c) = Len(conns) + Len(c)
    <3>1. \A T : c \in Seq(T) => Len(conns \o c) = Len(conns) + Len(c)
      BY <1>10, Appended
    <3> DEFINE T == {c[i] : i \in 1 .. n}
    <3>2. c \in Seq(T)
      BY <1>8
    <3> HIDE DEF T
    <3> QED BY <3>1, <3>2
  <2> QED BY <1>8, <1>11, <2>1 DEF Wide
<1>14. \A i \in 1 .. n : b[i] = Len(conns) + i
  <2> SUFFICES ASSUME NEW i \in 1 .. n PROVE b[i] = Len(conns) + i
    OBVIOUS
  <2>1. IdWidth \in Nat /\ IdWidth > 0
    <3>1. IdWidth \in Nat \ {0}
      BY ConnTableAssumption
    <3> QED BY <3>1
  <2>2. Len(conns) + i - 1 \in 0 .. (IdWidth - 1)
    BY <1>6, <1>10, <1>13, <2>1
  <2>3. \A w \in Nat : w > 0 => \A m \in 0 .. (w - 1) : m % w = m
    OBVIOUS
  <2>4. (Len(conns) + i - 1) % IdWidth = Len(conns) + i - 1
    BY <2>1, <2>2, <2>3
  <2>5. i \in Nat
    BY <1>6
  <2> QED BY <1>10, <1>12, <2>4, <2>5
<1>15. \A i \in DOMAIN conns : i \in DOMAIN conns' /\ conns'[i] = conns[i]
  BY <1>8, <1>10, <1>11
<1>16. \A k \in DOMAIN bin : k \in DOMAIN bin' /\ bin'[k] = bin[k]
  BY <1>9, <1>10, <1>11
<1>17. \A i \in 1 .. n : /\ Len(bin) + i \in DOMAIN bin' /\ bin'[Len(bin) + i] = b[i]
                         /\ Len(conns) + i \in DOMAIN conns' /\ conns'[Len(conns) + i] = c[i]
  <2>1. \A m \in Nat : \A i \in 1 .. n : m + i \in 1 .. m + n
    BY <1>6
  <2>2. /\ DOMAIN bin' = 1 .. Len(bin) + n
        /\ \A i \in 1 .. n : bin'[Len(bin) + i] = b[i]
    BY <1>9, <1>10, <1>11, Appended
  <2>3. /\ DOMAIN conns' = 1 .. Len(conns) + n
        /\ \A i \in 1 .. n : conns'[Len(conns) + i] = c[i]
    BY <1>8, <1>10, <1>11, Appended
  <2> QED BY <1>10, <2>1, <2>2, <2>3
<1>18. ASSUME NEW k \in DOMAIN bin', k \notin DOMAIN bin
       PROVE  \E i \in 1 .. n : k = Len(bin) + i
  <2>1. k \in Nat /\ k > Len(bin) /\ k <= Len(bin) + n
    BY <1>6, <1>9, <1>10, <1>11, <1>18
  <2>2. k - Len(bin) \in 1 .. n
    BY <1>6, <1>10, <2>1
  <2> QED BY <1>10, <2>1, <2>2
<1>19. \A i \in 1 .. n : /\ bin'[Len(bin) + i] \in DOMAIN conns'
                         /\ conns'[bin'[Len(bin) + i]] = c[i]
  BY <1>14, <1>17
<1>20. ASSUME NEW k \in DOMAIN bin', k \notin DOMAIN bin
       PROVE  /\ bin'[k] \in DOMAIN conns'
              /\ conns'[bin'[k]].tv = pkt.sec /\ conns'[bin'[k]].pid = -1
  BY <1>7, <1>18, <1>19, <1>20
<1>21. ASSUME NEW s \in S
       PROVE  \E k \in DOMAIN bin' : bin'[k] \in DOMAIN conns' /\ conns'[bin'[k]].sock = s
  BY <1>5, <1>6, <1>7, <1>17, <1>19
<1> QED BY <1>2, <1>15, <1>16, <1>20, <1>21

LEMMA RefreshRead ==
  ASSUME TypeOK, RefreshInv, ReadConnections, Wide'
  PROVE  RefreshInv'
<1>1. /\ UNCHANGED <<kernel, pkt>> /\ pc = "read" /\ pc' \in {"read", "list"}
      /\ at' = at + 1 /\ (pc' = "list" => at = 4)
  BY DEF ReadConnections
<1> USE DEF kernel
<1>2. HoldersAlive' /\ ConnectedAttributed'
  BY <1>1 DEF RefreshInv, HoldersAlive, Alive, ConnectedAttributed
<1>3. BinsNew'
  BY <1>1, ReadAppends DEF RefreshInv, BinsNew
<1>4. ASSUME NEW s \in steady PROVE Progress(s)'
  <2>1. s \in Socket /\ Progress(s) /\ Addr[s].file \in Files
    BY ConnTableAssumption DEF RefreshInv, TypeOK
  <2>2. InBin(s) => InBin(s)'
    BY ReadAppends DEF InBin
  <2>3. Addr[s].file = at => InBin(s)'
    BY <2>1, ReadAppends DEF InBin, Progress
  <2>4. at \in Nat /\ Addr[s].file \in Nat /\ Addr[s].file <= 4
    BY <2>1 DEF Files, TypeOK
  <2>5. pc' = "list" \/ Addr[s].file < at' => Addr[s].file < at \/ Addr[s].file = at
    BY <1>1, <2>4
  <2> QED BY <1>1, <2>1, <2>2, <2>3, <2>5 DEF Progress
<1> QED BY <1>1, <1>2, <1>3, <1>4 DEF RefreshInv

-----------------------------------------------------------------------------
(* Attaching processes                                                     *)

LEMMA RefreshList ==
  ASSUME TypeOK, RefreshInv, ListPids
  PROVE  RefreshInv'
<1>1. /\ UNCHANGED <<kernel, conns, bin, pkt>> /\ pc = "list" /\ pc' \in {"names", "attach"} /\ at' = 1
      /\ todo' = {p \in Pid : Alive(p) \/ proc[p] = "zombie"}
      /\ pc' = "names" => todo' = {}
  BY DEF ListPids, table
<1> USE DEF kernel
<1>2. HoldersAlive' /\ ConnectedAttributed' /\ BinsNew'
  BY <1>1 DEF RefreshInv, HoldersAlive, Alive, ConnectedAttributed, BinsNew
<1>3. ASSUME NEW s \in steady PROVE Progress(s)'
  <2>1. s \in Socket /\ holder[s] # {} /\ InBin(s) /\ holder[s] \subseteq Pid
    BY <1>1 DEF RefreshInv, Progress, TypeOK
  <2>2. \A p \in holder[s] : p \in todo'
    BY <1>1, <2>1 DEF RefreshInv, HoldersAlive
  <2>3. pc' = "attach"
    BY <1>1, <2>1, <2>2
  <2>4. PICK k \in DOMAIN bin : /\ Binned(s) = bin[k] /\ bin[k] \in DOMAIN conns
                                /\ conns[bin[k]].sock = s
    BY <2>1, BinnedInBin
  <2>5. conns[bin[k]].tv = pkt.sec /\ conns[bin[k]].pid = -1
    BY <1>1, <2>4 DEF RefreshInv, BinsNew
  <2>6. Binned(s)' = Binned(s)
    BY <1>1 DEF Binned
  <2>7. \E p \in todo' : p \in holder[s]
    BY <2>1, <2>2
  <2>8. Attached(s)'
    BY <1>1, <2>4, <2>5, <2>6, <2>7 DEF Attached
  <2> QED BY <1>1, <2>1, <2>3, <2>8 DEF Progress
<1> QED BY <1>1, <1>2, <1>3 DEF RefreshInv

LEMMA RefreshAttach ==
  ASSUME TypeOK, RefreshInv, AttachProcess
  PROVE  RefreshInv'
<1>1. /\ UNCHANGED <<kernel, bin, at, pkt>> /\ pc = "attach" /\ pc' \in {"names", "attach"}
      /\ pc' = "names" => todo' = {} \/ \A i \in DOMAIN conns' : conns'[i].pid # -1
  BY DEF AttachProcess
<1>2. PICK p \in todo :
        /\ conns' = [i \in DOMAIN conns |->
                        IF conns[i].pid = -1 /\ \E s \in Socket : p \in holder[s] /\ Binned(s) = i
                        THEN [conns[i] EXCEPT !.pid = p] ELSE conns[i]]
        /\ todo' = todo \ {p}
  BY DEF AttachProcess
<1> USE DEF kernel
<1>3. HoldersAlive' /\ ConnectedAttributed' /\ BinsNew'
  BY <1>1 DEF RefreshInv, HoldersAlive, Alive, ConnectedAttributed, BinsNew
<1>4. DOMAIN conns' = DOMAIN conns /\ \A i \in DOMAIN conns : conns'[i].sock = conns[i].sock
  BY TypeAttach
<1>5. \A i \in DOMAIN conns : conns'[i].tv = conns[i].tv
  BY <1>2, EntryAt DEF Entry
<1>6. ASSUME NEW s \in steady PROVE Progress(s)'
  <2> DEFINE i == Binned(s)
  <2>1. s \in Socket /\ holder[s] # {} /\ Attached(s)
    BY <1>1 DEF RefreshInv, Progress, TypeOK
  <2>2. i' = i
    <3> DEFINE b == {k \in DOMAIN bin : bin[k] \in DOMAIN conns /\ conns[bin[k]].sock = s}
    <3>1. b' = b
      BY <1>1, <1>4
    <3>2. i = IF b = {} THEN 0 ELSE bin[CHOOSE k \in b : \A l \in b : k <= l]
      BY DEF Binned
    <3>3. i' = IF b' = {} THEN 0 ELSE bin'[CHOOSE k \in b' : \A l \in b' : k <= l]
      BY DEF Binned
    <3> HIDE DEF b
    <3> QED BY <1>1, <3>1, <3>2, <3>3
  <2>3. i \in DOMAIN conns /\ conns[i].sock = s /\ conns[i].tv = pkt.sec
    BY <2>1 DEF Attached
  <2>4. -1 \notin Pid /\ p \in Pid /\ holder[s] \subseteq Pid
    <3>1. Pid \subseteq Nat
      BY ConnTableAssumption
    <3> QED BY <2>1, <3>1 DEF TypeOK
  <2>5. /\ i \in DOMAIN conns' /\ conns'[i].sock = s /\ conns'[i].tv = pkt.sec
    BY <1>4, <1>5, <2>3
  <2>6. \/ conns'[i].pid \in holder[s]
        \/ conns'[i].pid = -1 /\ \E q \in todo' : q \in holder[s]
    <3>1. CASE conns[i].pid # -1
      BY <1>2, <2>1, <2>3, <3>1 DEF Attached
    <3>2. CASE conns[i].pid = -1 /\ p \in holder[s]
      <4>1. conns'[i] = [conns[i] EXCEPT !.pid = p]
        BY <1>2, <2>1, <2>3, <3>2
      <4>2. conns'[i].pid = p
        BY <2>3, <4>1, EntryAt DEF Entry
      <4> QED BY <3>2, <4>2
    <3>3. CASE conns[i].pid = -1 /\ p \notin holder[s]
      <4>1. conns'[i] = conns[i] \/ conns'[i] = [conns[i] EXCEPT !.pid = p]
        BY <1>2, <2>3
      <4>2. ASSUME conns'[i] # conns[i] PROVE FALSE
        <5>1. PICK t \in Socket : p \in holder[t] /\ Binned(t) = i
          BY <1>2, <2>3, <4>2
        <5>2. conns[i].sock = t
          <6>1. i # 0
            BY <2>3, EntryAt
          <6>2. InBin(t)
            BY <5>1, <6>1 DEF Binned, InBin
          <6> QED BY <5>1, <6>2, BinnedInBin
        <5> QED BY <2>3, <3>3, <5>1, <5>2
      <4>3. -1 \notin holder[s]
        BY <2>4
      <4>4. \E q \in todo : q \in holder[s]
        BY <2>1, <3>3, <4>3 DEF Attached
      <4> QED BY <1>2, <3>3, <4>2, <4>4
    <3> QED BY <3>1, <3>2, <3>3
  <2>7. Attached(s)'
    BY <1>1, <2>2, <2>5, <2>6 DEF Attached
  <2>8. pc' = "names" => conns'[i].pid \in holder[s]
    BY <1>1, <2>5, <2>6
  <2>9. pc' = "names" => Held(s, i)' /\ at' <= i
    <3>1. at = 1 /\ i >= 1
      BY <1>1, <2>3, EntryAt DEF RefreshInv
    <3> QED BY <1>1, <2>2, <2>5, <2>8, <3>1 DEF Held
  <2> QED BY <1>1, <2>1, <2>2, <2>5, <2>7, <2>9 DEF Progress
<1> QED BY <1>1, <1>3, <1>6 DEF RefreshInv

-----------------------------------------------------------------------------
(* Naming, cleaning up, indexing                                           *)

\* Numbering an application changes nothing else of an entry.
LEMMA NumberingKeeps ==
  ASSUME TypeOK, NEW i \in DOMAIN conns, NEW n \in Name, GetAppID(i, n)
  PROVE  /\ DOMAIN conns' = DOMAIN conns /\ conns'[i].app # -1
         /\ \A j \in DOMAIN conns : j # i => conns'[j] = conns[j]
         /\ conns'[i].sock = conns[i].sock /\ conns'[i].pid = conns[i].pid
         /\ conns'[i].tv = conns[i].tv
<1>1. /\ DOMAIN conns' = DOMAIN conns /\ conns'[i].app \in DOMAIN apps' /\ apps' \in Seq(Name)
      /\ \A j \in DOMAIN conns : j # i => conns'[j] = conns[j]
      /\ conns'[i].sock = conns[i].sock /\ conns'[i].pid = conns[i].pid
  BY TypeGetAppID
<1>2. conns'[i].app # -1
  BY <1>1
<1>3. PICK a : conns' = [conns EXCEPT ![i].app = a]
  BY DEF GetAppID
<1>4. conns'[i].tv = conns[i].tv
  <2>1. conns[i] \in Entry
    BY EntryAt
  <2> QED BY <1>3, <2>1 DEF Entry
<1> QED BY <1>1, <1>2, <1>4

\* The entry of a process that is alive gets an application.
LEMMA AliveNamed ==
  ASSUME TypeOK, NEW i \in DOMAIN conns, NEW p \in Pid, Alive(p), GetProcName(i, p)
  PROVE  \E n \in Name : GetAppID(i, n)
<1>1. \A k \in DOMAIN procs : nameBuf[k] \in Name
  BY DEF TypeOK
<1>2. proc[p] \in Name
  BY DEF Alive
<1>3. CASE \E k \in DOMAIN procs : procs[k] = p /\ GetAppID(i, nameBuf[k])
  BY <1>1, <1>3
<1>4. CASE GetAppID(i, proc[p])
  BY <1>2, <1>4
<1>5. proc[p] # "zombie"
  BY <1>2, ConnTableAssumption
<1> QED BY <1>3, <1>4, <1>5 DEF GetProcName

LEMMA RefreshNames ==
  ASSUME TypeOK, RefreshInv, UpdateNames
  PROVE  RefreshInv'
<1> DEFINE unnamed == {i \in DOMAIN conns : i >= at /\ conns[i].app = -1}
<1>1. UNCHANGED <<kernel, bin, pkt>> /\ pc = "names" /\ pc' \in {"names", "clean"}
  BY DEF UpdateNames
<1> USE DEF kernel
<1>2. HoldersAlive' /\ ConnectedAttributed' /\ BinsNew'
  BY <1>1 DEF RefreshInv, HoldersAlive, Alive, ConnectedAttributed, BinsNew
<1>3. ASSUME NEW s \in steady PROVE Progress(s)'
  <2>1. s \in Socket /\ holder[s] # {} /\ holder[s] \subseteq Pid
    BY <1>1 DEF RefreshInv, Progress, TypeOK
  <2>2. PICK e \in DOMAIN conns : Held(s, e) /\ (conns[e].app = -1 => at <= e)
    BY <1>1 DEF RefreshInv, Progress
  <2>3. e \in Nat /\ at \in Nat
    BY EntryAt DEF TypeOK
  <2>4. CASE unnamed = {} /\ pc' = "clean" /\ UNCHANGED <<at, names, conns>>
    <3>1. conns[e].app # -1
      BY <2>2, <2>3, <2>4
    <3>2. Named(s, e)' /\ e \in DOMAIN conns'
      BY <1>1, <2>2, <2>4, <3>1 DEF Held, Named
    <3> QED BY <1>1, <2>1, <2>4, <3>2 DEF Progress
  <2>5. CASE \E i \in unnamed : /\ \A j \in unnamed : i <= j
                                /\ GetProcName(i, conns[i].pid)
                                /\ at' = i + 1 /\ UNCHANGED pc
    <3>1. PICK i \in unnamed : /\ \A j \in unnamed : i <= j
                               /\ GetProcName(i, conns[i].pid)
                               /\ at' = i + 1 /\ UNCHANGED pc
      BY <2>5
    <3>2. i \in DOMAIN conns /\ i \in Nat
      BY EntryAt
    <3>3. (\E n \in Name : GetAppID(i, n)) \/ UNCHANGED conns
      <4>0. Len(procs) <= Len(nameBuf)
        BY DEF TypeOK
      <4>1. \A k \in DOMAIN procs' : nameBuf'[k] \in Name
        <5>1. /\ procs' \in Seq(Pid) /\ nameBuf' \in Seq(Name)
              /\ Len(procs') <= Len(nameBuf')
          BY <3>1, <3>2, <4>0, TypeGetProcName
        <5> QED BY <5>1
      <4>2. \/ \E k \in DOMAIN procs' : GetAppID(i, nameBuf'[k])
            \/ UNCHANGED conns
        BY <3>1, <3>2, <4>0, TypeGetProcName
      <4> QED BY <4>1, <4>2
    <3>4. /\ DOMAIN conns' = DOMAIN conns /\ \A j \in DOMAIN conns : j # i => conns'[j] = conns[j]
          /\ conns'[i].sock = conns[i].sock /\ conns'[i].pid = conns[i].pid
          /\ conns'[i].tv = conns[i].tv
      BY <3>2, <3>3, NumberingKeeps
    <3>5. Held(s, e)' /\ e \in DOMAIN conns'
      BY <1>1, <2>2, <3>4 DEF Held
    <3>6. CASE e = i
      <4>1. conns[i].pid \in Pid /\ Alive(conns[i].pid)
        BY <2>1, <2>2, <3>6 DEF Held, RefreshInv, HoldersAlive
      <4>2. conns'[i].app # -1
        BY <3>1, <3>2, <4>1, AliveNamed, NumberingKeeps
      <4> QED BY <1>1, <2>1, <3>1, <3>5, <3>6, <4>2 DEF Progress
    <3>7. CASE e # i
      <4>1. conns'[e] = conns[e]
        BY <3>4, <3>7
      <4>2. conns[e].app = -1 => i <= e
        BY <2>2, <2>3, <3>1
      <4>3. conns'[e].app = -1 => at' <= e
        BY <2>3, <3>1, <3>2, <3>7, <4>1, <4>2
      <4> QED BY <1>1, <2>1, <3>1, <3>5, <4>3 DEF Progress
    <3> QED BY <3>6, <3>7
  <2> QED BY <2>4, <2>5 DEF UpdateNames
<1> QED BY <1>1, <1>2, <1>3 DEF RefreshInv

\* A live entry may lose its place only to a live one with the same addresses.
LEMMA LiveKept ==
  ASSUME TypeOK, NEW i \in DOMAIN conns, Live(i)
  PROVE  \E j \in Kept : Key(conns[j].sock) = Key(conns[i].sock)
<1> DEFINE S == {j \in DOMAIN conns : Live(j) /\ Key(conns[j].sock) = Key(conns[i].sock)}
<1>1. S # {} /\ S \subseteq DOMAIN conns
  OBVIOUS
<1>2. \A j \in S : Live(j) /\ Key(conns[j].sock) = Key(conns[i].sock)
  OBVIOUS
<1>3. \A j \in DOMAIN conns : Live(j) /\ Key(conns[j].sock) = Key(conns[i].sock) => j \in S
  OBVIOUS
<1> HIDE DEF S
<1>4. PICK l \in S : \A j \in S : conns[j].tv <= conns[l].tv
  BY <1>1, LatestEntry
<1> DEFINE L == {j \in S : conns[j].tv = conns[l].tv}
<1>5. L # {} /\ L \subseteq DOMAIN conns
  BY <1>1
<1> HIDE DEF L
<1>6. PICK f \in L : \A j \in L : f <= j
  BY <1>5, FirstAndLast
<1>7. f \in S /\ conns[f].tv = conns[l].tv
  BY DEF L
<1>8. ASSUME NEW j \in DOMAIN conns, Beats(j, f) PROVE FALSE
  <2>1. j \in S
    BY <1>2, <1>3, <1>7, <1>8 DEF Beats
  <2>2. j \in Nat /\ f \in Nat /\ conns[j].tv \in Nat /\ conns[l].tv \in Nat
    BY <1>1, <1>7, EntryAt, ConnTableAssumption
  <2>3. conns[j].tv <= conns[l].tv
    BY <1>4, <2>1
  <2>4. conns[j].tv = conns[f].tv /\ j < f
    BY <1>7, <1>8, <2>2, <2>3 DEF Beats
  <2>5. j \in L
    BY <1>7, <2>1, <2>4 DEF L
  <2> QED BY <1>6, <2>2, <2>4, <2>5
<1>9. f \in Kept
  BY <1>1, <1>2, <1>7, <1>8 DEF Kept
<1> QED BY <1>2, <1>7, <1>9

LEMMA RefreshClean ==
  ASSUME TypeOK, RefreshInv, CleanConnectionInfo
  PROVE  RefreshInv'
<1>1. UNCHANGED <<kernel, bin, pkt>> /\ pc = "clean" /\ pc' = "index"
  BY DEF CleanConnectionInfo
<1> USE DEF kernel
<1>2. HoldersAlive' /\ ConnectedAttributed' /\ BinsNew'
  BY <1>1 DEF RefreshInv, HoldersAlive, Alive, ConnectedAttributed, BinsNew
<1>3. PICK f \in Increasing(Kept) : conns' = [n \in DOMAIN f |-> conns[f[n]]]
  BY DEF CleanConnectionInfo
<1>4. \A n \in DOMAIN f : n \in DOMAIN conns' /\ conns'[n] = conns[f[n]]
  BY <1>3
<1>5. \A j \in Kept : \E n \in DOMAIN f : f[n] = j
  <2>1. f \in [1 .. Cardinality(Kept) -> Kept] /\ \A i, j \in DOMAIN f : i < j => f[i] < f[j]
    BY DEF Increasing
  <2>2. IsFiniteSet(Kept) /\ Kept \subseteq Nat /\ Cardinality(Kept) \in Nat
    <3>1. DOMAIN conns = 1 .. Len(conns) /\ Len(conns) \in Nat
      BY DEF TypeOK
    <3>2. IsFiniteSet(DOMAIN conns) /\ DOMAIN conns \subseteq Nat
      BY <3>1, FS_Interval
    <3> QED BY <3>2, KeptFinite, FS_Subset
  <2>3. DOMAIN f \subseteq Nat /\ \A n \in DOMAIN f : f[n] \in Nat
    <3>1. DOMAIN f = 1 .. Cardinality(Kept) /\ \A n \in DOMAIN f : f[n] \in Kept
      BY <2>1
    <3>2. 1 .. Cardinality(Kept) \subseteq Nat
      BY <2>2
    <3> QED BY <2>2, <3>1, <3>2
  <2>4. \A m, n \in DOMAIN f : f[m] = f[n] => m = n
    BY <2>1, <2>3
  <2> QED BY <2>1, <2>2, <2>4, ListsAll
<1>6. ASSUME NEW s \in steady PROVE Progress(s)'
  <2>1. s \in Socket /\ holder[s] # {}
    BY <1>1 DEF RefreshInv, Progress, TypeOK
  <2>2. PICK i \in DOMAIN conns : Named(s, i)
    BY <1>1 DEF RefreshInv, Progress
  <2>3. Live(i)
    <3>1. conns[i].tv \in Nat /\ TIMEOUT \in Nat \ {0}
      BY EntryAt, ConnTableAssumption
    <3>2. conns[i].tv < conns[i].tv + TIMEOUT
      BY <3>1
    <3> QED BY <2>2, <3>2 DEF Named, Live
  <2>4. PICK j \in Kept : Key(conns[j].sock) = Key(conns[i].sock)
    BY <2>3, LiveKept
  <2>5. PICK n \in DOMAIN f : f[n] = j
    BY <1>5
  <2>6. n \in DOMAIN conns' /\ Key(conns'[n].sock) = Key(s)
    BY <1>4, <2>2, <2>4, <2>5 DEF Named
  <2> QED BY <1>1, <2>1, <2>6 DEF Progress, Key, ProtOf
<1> QED BY <1>1, <1>2, <1>6 DEF RefreshInv

-----------------------------------------------------------------------------
(* The answer                                                              *)

\* An index that is right knows the remote address of an entry, be it of one or
\* of several, so that the search comes to it in the end.
LEMMA AnswerFinds ==
  ASSUME TypeOK, IndexesRight, InUse, pkt \in Packet, NEW i \in DOMAIN conns, SameRemote(pkt, i)
  PROVE  Found(pkt, DOMAIN conns) # 0
<1> DEFINE h == IPHash[pkt.flow.rip]
           c2 == ip2connid[h]
<1>1. h \in DOMAIN ip2connid /\ c2 \in Nat \cup {-1, -2}
  BY PortOfFlow DEF TypeOK
<1>2. i \in {j \in DOMAIN IPKey : IPKey[j] = h}
  BY DEF IPKey, SameRemote
<1>3. c2 # -1
  BY <1>1, <1>2 DEF IndexesRight, IndexRight
<1>4. c2 \in Nat => c2 \in DOMAIN conns
  <2>1. c2 \in Nat => {j \in DOMAIN IPKey : IPKey[j] = h} = {c2}
    BY <1>1 DEF IndexesRight, IndexRight
  <2> QED BY <2>1 DEF IPKey
<1>5. 0 \notin DOMAIN conns
  BY EntryAt
<1>6. SearchForConn(pkt) \in DOMAIN conns
  <2> DEFINE exact == {j \in DOMAIN conns : Exact(pkt, j)}
             same == {j \in DOMAIN conns : SameRemote(pkt, j)}
  <2>1. SearchForConn(pkt) = IF exact # {} THEN CHOOSE j \in exact : \A l \in exact : j <= l
          ELSE IF same # {} THEN CHOOSE j \in same : \A l \in same : j >= l ELSE 0
    BY DEF SearchForConn
  <2>2. i \in same /\ same \subseteq DOMAIN conns /\ exact \subseteq DOMAIN conns
    OBVIOUS
  <2> HIDE DEF exact, same
  <2>3. exact # {} => \E j \in exact : \A l \in exact : j <= l
    BY <2>2, FirstAndLast
  <2>4. \E j \in same : \A l \in same : j >= l
    BY <2>2, FirstAndLast
  <2> QED BY <2>1, <2>2, <2>3, <2>4
<1> QED BY <1>1, <1>3, <1>4, <1>5, <1>6 DEF Found

LEMMA RefreshAnswer ==
  ASSUME TypeOK, TableInv, RefreshInv, Answer
  PROVE  RefreshInv'
<1>1. /\ UNCHANGED <<kernel, bin, pkt, at, todo>> /\ pc = "answer" /\ pc' = "return"
      /\ Found(pkt, DOMAIN conns) # 0 => answer' = conns[Found(pkt, DOMAIN conns)].app
  BY DEF Answer, Return
<1> USE DEF kernel
<1>2. HoldersAlive' /\ BinsNew' /\ \A s \in steady : Progress(s)'
  BY <1>1 DEF RefreshInv, HoldersAlive, Alive, BinsNew, Progress
<1>3. ASSUME NEW s \in steady,
             [port |-> Addr[s].port, rip |-> Addr[s].rip, rport |-> Addr[s].rport,
              prot |-> ProtOf(s)] = pkt.flow
      PROVE  answer' # -1
  <2>1. PICK i \in DOMAIN conns : Key(conns[i].sock) = Key(s)
    BY <1>1 DEF RefreshInv, Progress
  <2>2. SameRemote(pkt, i)
    BY <1>3, <2>1 DEF Key, SameRemote
  <2>3. InUse /\ pkt \in Packet /\ IndexesRight /\ \A j \in DOMAIN conns : conns[j].app # -1
    BY <1>1 DEF InUse, TypeOK, TableInv
  <2>4. Found(pkt, DOMAIN conns) # 0
    BY <2>2, <2>3, AnswerFinds
  <2>5. Found(pkt, DOMAIN conns) \in DOMAIN conns
    BY <2>3, <2>4, FoundIsEntry
  <2> QED BY <1>1, <2>3, <2>4, <2>5
<1>4. ConnectedAttributed'
  BY <1>1, <1>3 DEF ConnectedAttributed, ProtOf
<1> QED BY <1>1, <1>2, <1>4 DEF RefreshInv

LEMMA RefreshHits ==
  ASSUME TypeOK, TableInv, RefreshInv, LookupHits
  PROVE  RefreshInv'
<1> DEFINE i == Found(pkt, Fresh(pkt))
<1>1. /\ UNCHANGED <<kernel, bin, pkt, at, todo>> /\ pc = "lookup" /\ pc' = "return"
      /\ i # 0 /\ answer' = conns[i].app
  BY DEF LookupHits, Return
<1> USE DEF kernel
<1>2. HoldersAlive' /\ BinsNew' /\ \A s \in steady : Progress(s)'
  BY <1>1 DEF RefreshInv, HoldersAlive, Alive, BinsNew, Progress
<1>3. Fresh(pkt) \subseteq DOMAIN conns /\ pkt \in Packet
  BY <1>1 DEF Fresh, TypeOK
<1>4. i \in DOMAIN conns
  BY <1>1, <1>3, FoundIsEntry
<1>5. answer' # -1
  BY <1>1, <1>4 DEF TableInv, InUse
<1> QED BY <1>1, <1>2, <1>5 DEF RefreshInv, ConnectedAttributed

-----------------------------------------------------------------------------
(* The theorem                                                             *)

LEMMA RefreshInit == Init => RefreshInv
BY DEF Init, RefreshInv, HoldersAlive, BinsNew, ConnectedAttributed

LEMMA RefreshStep ==
  TypeOK /\ HolderInv /\ TableInv /\ Wide' /\ RefreshInv /\ [Next]_vars => RefreshInv'
<1> SUFFICES ASSUME TypeOK, HolderInv, TableInv, Wide', RefreshInv, [Next]_vars
             PROVE  RefreshInv'
  OBVIOUS
<1> USE DEF kernel
<1>1. CASE LookupMisses
  <2>1. /\ UNCHANGED <<proc, holder>> /\ pc' = "read" /\ at' = 1 /\ bin' = <<>>
        /\ steady' = {s \in Socket : holder[s] # {}}
    BY <1>1 DEF LookupMisses
  <2>2. HoldersAlive' /\ BinsNew' /\ ConnectedAttributed'
    BY <2>1 DEF RefreshInv, HoldersAlive, Alive, BinsNew, ConnectedAttributed
  <2>3. \A s \in steady' : Progress(s)'
    <3>1. \A s \in Socket : Addr[s].file \in 1 .. 4
      BY ConnTableAssumption DEF Files
    <3> QED BY <2>1, <3>1 DEF Progress
  <2> QED BY <2>1, <2>2, <2>3 DEF RefreshInv
<1>2. CASE UpdateIndexes
  <2>1. UNCHANGED <<kernel, conns, bin, at, todo, pkt>> /\ pc = "index" /\ pc' = "answer"
    BY <1>2 DEF UpdateIndexes
  <2>2. HoldersAlive' /\ BinsNew' /\ ConnectedAttributed'
    BY <2>1 DEF RefreshInv, HoldersAlive, Alive, BinsNew, ConnectedAttributed
  <2>3. \A s \in steady' : Progress(s)'
    BY <2>1 DEF RefreshInv, Progress, Key, ProtOf
  <2> QED BY <2>1, <2>2, <2>3 DEF RefreshInv
<1>3. CASE Returned \/ AttachCrashes \/ \E p \in Packet : Receive(p)
  <2>1. /\ UNCHANGED <<kernel, conns, bin>> /\ pc' \in {"idle", "lookup", "crashed"}
    BY <1>3 DEF Returned, AttachCrashes, Receive, table
  <2> QED BY <2>1 DEF RefreshInv, HoldersAlive, Alive, BinsNew, ConnectedAttributed, Progress
<1>4. CASE UNCHANGED vars
  <2> USE DEF vars, table, names, place
  <2>1. HoldersAlive' /\ BinsNew' /\ ConnectedAttributed'
    BY <1>4 DEF RefreshInv, HoldersAlive, Alive, BinsNew, ConnectedAttributed, ProtOf
  <2>2. ASSUME NEW s \in steady PROVE Progress(s)' = Progress(s)
    <3>1. InBin(s)' = InBin(s) /\ Binned(s)' = Binned(s)
      BY <1>4 DEF InBin, Binned
    <3>2. Attached(s)' = Attached(s)
      BY <1>4, <3>1 DEF Attached
    <3>3. \A i \in DOMAIN conns : Held(s, i)' = Held(s, i) /\ Named(s, i)' = Named(s, i)
      BY <1>4 DEF Held, Named
    <3>4. \A i \in DOMAIN conns : (Key(conns[i].sock) = Key(s))' = (Key(conns[i].sock) = Key(s))
      BY <1>4 DEF Key, ProtOf
    <3> QED BY <1>4, <3>1, <3>2, <3>3, <3>4 DEF Progress
  <2> QED BY <1>4, <2>1, <2>2 DEF RefreshInv
<1> QED
  BY <1>1, <1>2, <1>3, <1>4, RefreshKernel, RefreshRead, RefreshList, RefreshAttach,
     RefreshNames, RefreshClean, RefreshAnswer, RefreshHits DEF Next, Capture

\* ConnectedAttributed: while the table has no more entries than the bytes in the
\* bins can tell apart (lines 246-268), a packet of a connection that was open all
\* along is given to some application, whatever comes and goes beside it.
THEOREM ConnectedCorrect == Spec /\ []Wide => []ConnectedAttributed
<1>1. RefreshInv => ConnectedAttributed
  BY DEF RefreshInv
<1> QED
  BY <1>1, TypeInit, TypeStep, HolderInit, HolderStep, TableInit, TableStep,
     RefreshInit, RefreshStep, PTL DEF Spec

-----------------------------------------------------------------------------
(* How large the table gets                                                *)

\* In a refresh: the entries up to Older were there before it, and of the older
\* and of the newer entries no two have one socket.
Refreshing == pc \in {"read", "list", "attach", "names", "clean", "crashed"}
Older == Len(conns) - Len(bin)
AgeInv ==
    Refreshing =>
        /\ Len(bin) <= Len(conns)
        /\ \A i, j \in DOMAIN conns :
               conns[i].sock = conns[j].sock /\ (i <= Older <=> j <= Older) => i = j
        /\ pc = "read" => \A i \in DOMAIN conns : i > Older => Addr[conns[i].sock].file < at

LEMMA AgeKept ==
  ASSUME AgeInv, Refreshing, pc' = "read" => pc = "read" /\ at' = at,
         bin' = bin, DOMAIN conns' = DOMAIN conns, Len(conns') = Len(conns),
         \A i \in DOMAIN conns : conns'[i].sock = conns[i].sock
  PROVE  AgeInv'
<1>1. Older' = Older
  BY DEF Older
<1> QED BY <1>1 DEF AgeInv

\* Entries with one socket have one key.
LEMMA UniqueSockets ==
  ASSUME Unique(conns), NEW i \in DOMAIN conns, NEW j \in DOMAIN conns,
         conns[i].sock = conns[j].sock
  PROVE  i = j
<1>1. Key(conns[i].sock) = Key(conns[j].sock)
  OBVIOUS
<1> QED BY <1>1 DEF Unique

\* A file of /proc/net lists each socket once, and a socket is in one file.
LEMMA AgeRead ==
  ASSUME TypeOK, AgeInv, ReadConnections
  PROVE  AgeInv'
<1> DEFINE S == {s \in Socket : holder[s] # {} /\ Addr[s].file = at}
<1>1. PICK l \in Listings(S) :
        /\ conns' = conns \o [i \in 1 .. Len(l) |->
                        [sock |-> l[i], pid |-> -1, app |-> -1, tv |-> pkt.sec]]
        /\ bin' = bin \o [i \in 1 .. Len(l) |-> ((Len(conns) + i - 1) % IdWidth) + 1]
  BY DEF ReadConnections
<1>2. pc = "read" /\ at' = at + 1 /\ at \in Nat /\ Refreshing
  BY DEF ReadConnections, TypeOK, Refreshing
<1>3. S \in SUBSET Socket /\ \A s \in S : Addr[s].file = at
  OBVIOUS
<1> HIDE DEF S
<1>4. l \in Seq(S) /\ \A i, j \in DOMAIN l : l[i] = l[j] => i = j
  BY <1>3, ListingIsSeq DEF Listings
<1> DEFINE n == Len(l)
           c == [i \in 1 .. n |-> [sock |-> l[i], pid |-> -1, app |-> -1, tv |-> pkt.sec]]
           b == [i \in 1 .. n |-> ((Len(conns) + i - 1) % IdWidth) + 1]
<1>5. n \in Nat /\ DOMAIN l = 1 .. n
  BY <1>4
<1>6. \A i \in 1 .. n : c[i].sock = l[i]
  OBVIOUS
<1>7. c \in Seq({c[i] : i \in 1 .. n}) /\ Len(c) = n
  <2>1. \A j \in 1 .. n : c[j] \in {c[i] : i \in 1 .. n}
    OBVIOUS
  <2>2. c \in [1 .. n -> {c[i] : i \in 1 .. n}]
    BY <2>1
  <2> HIDE DEF c, n
  <2> QED BY <1>5, <2>2
<1>8. b \in Seq({b[i] : i \in 1 .. n}) /\ Len(b) = n
  <2>1. \A j \in 1 .. n : b[j] \in {b[i] : i \in 1 .. n}
    OBVIOUS
  <2>2. b \in [1 .. n -> {b[i] : i \in 1 .. n}]
    BY <2>1
  <2> HIDE DEF b, n
  <2> QED BY <1>5, <2>2
<1>9. conns \in Seq(Entry) /\ bin \in Seq(Nat) /\ Len(conns) \in Nat /\ Len(bin) \in Nat
      /\ DOMAIN conns = 1 .. Len(conns)
  BY DEF TypeOK
<1>10. conns' = conns \o c /\ bin' = bin \o b
  BY <1>1
<1> HIDE DEF c, b, n
<1>11. /\ Len(conns') = Len(conns) + n /\ DOMAIN conns' = 1 .. Len(conns) + n
       /\ \A i \in 1 .. Len(conns) : conns'[i] = conns[i]
       /\ \A i \in 1 .. n : conns'[Len(conns) + i] = c[i]
  <2>1. ASSUME NEW T, c \in Seq(T)
        PROVE  /\ Len(conns \o c) = Len(conns) + Len(c)
               /\ DOMAIN (conns \o c) = 1 .. Len(conns) + Len(c)
               /\ \A i \in 1 .. Len(conns) : (conns \o c)[i] = conns[i]
               /\ \A i \in 1 .. Len(c) : (conns \o c)[Len(conns) + i] = c[i]
    BY <1>9, <2>1, Appended
  <2> DEFINE T == {c[i] : i \in 1 .. n}
  <2>2. c \in Seq(T) /\ Len(c) = n
    BY <1>7
  <2> HIDE DEF T
  <2> QED BY <1>10, <2>1, <2>2
<1>12. Len(bin') = Len(bin) + n
  <2>1. ASSUME NEW T, b \in Seq(T) PROVE Len(bin \o b) = Len(bin) + Len(b)
    BY <1>9, <2>1, Appended
  <2> DEFINE T == {b[i] : i \in 1 .. n}
  <2>2. b \in Seq(T) /\ Len(b) = n
    BY <1>8
  <2> HIDE DEF T
  <2> QED BY <1>10, <2>1, <2>2
<1>13. Older' = Older /\ Older \in 0 .. Len(conns) /\ Len(bin') <= Len(conns')
  BY <1>2, <1>5, <1>9, <1>11, <1>12 DEF Older, AgeInv
<1>14. ASSUME NEW i \in DOMAIN conns', i \notin DOMAIN conns
       PROVE  /\ i > Older /\ i - Len(conns) \in 1 .. n
              /\ conns'[i].sock = l[i - Len(conns)] /\ conns'[i].sock \in S
  <2>1. i \in Nat /\ i > Len(conns) /\ i <= Len(conns) + n
    BY <1>5, <1>9, <1>11, <1>14
  <2>2. i > Older
    BY <1>9, <1>13, <2>1
  <2>3. i - Len(conns) \in 1 .. n /\ Len(conns) + (i - Len(conns)) = i
    BY <1>5, <1>9, <2>1
  <2>4. conns'[i].sock = l[i - Len(conns)]
    BY <1>6, <1>11, <2>3
  <2>5. l[i - Len(conns)] \in S
    BY <1>4, <1>5, <2>3
  <2> QED BY <2>2, <2>3, <2>4, <2>5
<1>15. \A i \in DOMAIN conns : conns'[i] = conns[i] /\ i \in Nat
  BY <1>9, <1>11
<1>16. ASSUME NEW i \in DOMAIN conns, i > Older PROVE Addr[conns'[i].sock].file < at
  <2>1. Addr[conns[i].sock].file < at
    BY <1>2, <1>16 DEF AgeInv
  <2> QED BY <1>15, <2>1
<1>17. \A s \in Socket : Addr[s].file \in Nat
  <2>1. \A s \in Socket : Addr[s].file \in 1 .. 4
    BY ConnTableAssumption DEF Files
  <2> QED BY <2>1
<1>18. ASSUME NEW i \in DOMAIN conns', i > Older PROVE Addr[conns'[i].sock].file < at'
  <2>1. CASE i \in DOMAIN conns
    <3>1. Addr[conns'[i].sock].file < at /\ Addr[conns'[i].sock].file \in Nat
      BY <1>15, <1>16, <1>17, <1>18, <2>1, EntryAt
    <3> QED BY <1>2, <3>1
  <2>2. CASE i \notin DOMAIN conns
    <3>1. Addr[conns'[i].sock].file = at
      BY <1>3, <1>14, <2>2
    <3> QED BY <1>2, <3>1
  <2> QED BY <2>1, <2>2
<1>19. ASSUME NEW i \in DOMAIN conns, NEW j \in DOMAIN conns', j \notin DOMAIN conns,
              conns'[i].sock = conns'[j].sock, i <= Older <=> j <= Older
       PROVE  FALSE
  <2>1. i \in Nat /\ j > Older /\ i \in DOMAIN conns'
    BY <1>5, <1>9, <1>11, <1>14, <1>15, <1>19
  <2>2. ~ (j <= Older)
    BY <1>9, <1>11, <1>13, <2>1
  <2>3. i > Older
    BY <1>9, <1>13, <1>19, <2>1, <2>2
  <2>4. Addr[conns'[i].sock].file < at
    BY <1>16, <2>1, <2>3
  <2>5. Addr[conns'[i].sock].file = at
    BY <1>3, <1>14, <1>19
  <2> QED BY <1>2, <2>4, <2>5
<1>20. ASSUME NEW i \in DOMAIN conns', NEW j \in DOMAIN conns',
              conns'[i].sock = conns'[j].sock, i <= Older <=> j <= Older
       PROVE  i = j
  <2>1. CASE i \in DOMAIN conns /\ j \in DOMAIN conns
    BY <1>2, <1>15, <1>20, <2>1 DEF AgeInv
  <2>2. CASE i \notin DOMAIN conns /\ j \notin DOMAIN conns
    <3>1. i - Len(conns) = j - Len(conns)
      BY <1>4, <1>5, <1>14, <1>20, <2>2
    <3>2. i \in Nat /\ j \in Nat
      BY <1>5, <1>9, <1>11
    <3> QED BY <1>9, <3>1, <3>2
  <2> QED BY <1>19, <1>20, <2>1, <2>2
<1> QED BY <1>13, <1>18, <1>20 DEF AgeInv

LEMMA AgeInit == Init => AgeInv
BY DEF Init, AgeInv, Refreshing

LEMMA AgeStep == TypeOK /\ TableInv /\ AgeInv /\ [Next]_vars => AgeInv'
<1> SUFFICES ASSUME TypeOK, TableInv, AgeInv, [Next]_vars PROVE AgeInv'
  OBVIOUS
<1> USE DEF table, place
<1>1. CASE UNCHANGED <<table, place>>
  <2>1. Older' = Older /\ Refreshing' = Refreshing
    BY <1>1 DEF Older, Refreshing
  <2> QED BY <1>1, <2>1 DEF AgeInv
<1>2. CASE LookupMisses
  <2>1. UNCHANGED conns /\ bin' = <<>> /\ InUse
    BY <1>2 DEF LookupMisses, InUse
  <2>2. Older' = Len(conns) /\ Len(bin') = 0
    <3>1. Len(conns) \in Nat
      BY DEF TypeOK
    <3> QED BY <2>1, <3>1 DEF Older
  <2>3. \A i \in DOMAIN conns : i \in Nat /\ i <= Len(conns)
    BY EntryAt
  <2>4. \A i \in DOMAIN conns : ~ (i > Len(conns))
    <3>1. Len(conns) \in Nat
      BY DEF TypeOK
    <3> QED BY <2>3, <3>1
  <2>5. Unique(conns)
    BY <2>1 DEF TableInv
  <2>6. 0 <= Len(conns)
    BY DEF TypeOK
  <2> QED BY <2>1, <2>2, <2>4, <2>5, <2>6, UniqueSockets DEF AgeInv
<1>3. CASE ListPids \/ AttachCrashes
  BY <1>3, AgeKept DEF ListPids, AttachCrashes, Refreshing
<1>4. CASE AttachProcess
  <2>1. bin' = bin /\ pc = "attach" /\ pc' # "read"
    BY <1>4 DEF AttachProcess
  <2>2. DOMAIN conns' = DOMAIN conns /\ \A i \in DOMAIN conns : conns'[i].sock = conns[i].sock
    BY <1>4, TypeAttach
  <2>3. Len(conns') = Len(conns)
    BY <1>4, <2>2, TypeAttach DEF TypeOK
  <2> QED BY <2>1, <2>2, <2>3, AgeKept DEF Refreshing
<1>5. CASE UpdateNames
  <2>1. bin' = bin /\ pc = "names" /\ pc' \in {"names", "clean"}
    BY <1>5 DEF UpdateNames
  <2>2. UNCHANGED conns \/ \E i \in DOMAIN conns : GetProcName(i, conns[i].pid)
    BY <1>5 DEF UpdateNames, names
  <2>3. ASSUME NEW i \in DOMAIN conns, GetProcName(i, conns[i].pid)
        PROVE  DOMAIN conns' = DOMAIN conns /\ \A j \in DOMAIN conns : conns'[j].sock = conns[j].sock
    <3>1. /\ \A k \in DOMAIN procs' : nameBuf'[k] \in Name
          /\ \/ \E k \in DOMAIN procs' : GetAppID(i, nameBuf'[k])
             \/ UNCHANGED conns
      BY <2>3, TypeGetProcName DEF TypeOK
    <3>2. ASSUME NEW m \in Name, GetAppID(i, m)
          PROVE  DOMAIN conns' = DOMAIN conns
                 /\ \A j \in DOMAIN conns : conns'[j].sock = conns[j].sock
      BY <3>2, NumberingKeeps
    <3> QED BY <3>1, <3>2
  <2>4. DOMAIN conns' = DOMAIN conns /\ \A j \in DOMAIN conns : conns'[j].sock = conns[j].sock
    BY <2>2, <2>3
  <2>5. Len(conns') = Len(conns)
    <3>1. conns \in Seq(Entry) /\ conns' \in Seq(Entry')
      BY TypeStep DEF TypeOK
    <3> QED BY <2>4, <3>1
  <2> QED BY <2>1, <2>4, <2>5, AgeKept DEF Refreshing
<1>6. CASE \/ LookupHits \/ Answer \/ CleanConnectionInfo \/ UpdateIndexes \/ Returned
           \/ \E p \in Packet : Receive(p)
  <2>1. pc' \in {"return", "index", "answer", "idle", "lookup"}
    BY <1>6 DEF LookupHits, Answer, Return, CleanConnectionInfo, UpdateIndexes, Returned, Receive
  <2> QED BY <2>1 DEF AgeInv, Refreshing
<1>7. CASE Kernel
  BY <1>1, <1>7 DEF Kernel
<1>8. CASE UNCHANGED vars
  BY <1>1, <1>8 DEF vars
<1> QED BY <1>2, <1>3, <1>4, <1>5, <1>6, <1>7, <1>8, AgeRead DEF Next, Capture

\* Entries whose sockets are all different are no more than there are sockets.
LEMMA Pigeons ==
  ASSUME NEW m \in Nat, NEW f \in [1 .. m -> Socket],
         \A i, j \in 1 .. m : f[i] = f[j] => i = j
  PROVE  m <= Cardinality(Socket)
<1>1. f \in Injection(1 .. m, Socket)
  BY DEF Injection, IsInjective
<1>2. Cardinality(1 .. m) <= Cardinality(Socket)
  BY <1>1, FS_Injection, ConnTableAssumption
<1>3. Cardinality(1 .. m) = m
  BY FS_Interval
<1> QED BY <1>2, <1>3

\* Before its clean-up the table has at most two entries for a socket, after it
\* at most one.
LEMMA TableSize == TypeOK /\ TableInv /\ AgeInv => Len(conns) <= 2 * Cardinality(Socket)
<1> SUFFICES ASSUME TypeOK, TableInv, AgeInv PROVE Len(conns) <= 2 * Cardinality(Socket)
  OBVIOUS
<1>1. Len(conns) \in Nat /\ DOMAIN conns = 1 .. Len(conns) /\ Len(bin) \in Nat
  BY DEF TypeOK
<1>2. Cardinality(Socket) \in Nat
  BY FS_CardinalityType, ConnTableAssumption
<1>3. CASE ~Refreshing
  <2>1. Unique(conns)
    BY <1>3 DEF TableInv, InUse, Refreshing, TypeOK
  <2> DEFINE f == [i \in 1 .. Len(conns) |-> conns[i].sock]
  <2>2. f \in [1 .. Len(conns) -> Socket]
    BY <1>1, EntryAt
  <2>3. \A i, j \in 1 .. Len(conns) : f[i] = f[j] => i = j
    BY <1>1, <2>1, UniqueSockets
  <2> HIDE DEF f
  <2>4. Len(conns) <= Cardinality(Socket)
    BY <1>1, <2>2, <2>3, Pigeons
  <2> QED BY <1>1, <1>2, <2>4
<1>4. CASE Refreshing
  <2>1. Older \in Nat /\ Older <= Len(conns) /\ Older + Len(bin) = Len(conns)
    BY <1>1, <1>4 DEF AgeInv, Older
  <2>2. ASSUME NEW i \in DOMAIN conns, NEW j \in DOMAIN conns,
               conns[i].sock = conns[j].sock, i <= Older <=> j <= Older
        PROVE  i = j
    BY <1>4, <2>2 DEF AgeInv
  <2>3. Older <= Cardinality(Socket)
    <3> DEFINE f == [i \in 1 .. Older |-> conns[i].sock]
    <3>1. \A i \in 1 .. Older : i \in DOMAIN conns /\ i <= Older
      BY <1>1, <2>1
    <3>2. f \in [1 .. Older -> Socket]
      BY <3>1, EntryAt
    <3>3. \A i, j \in 1 .. Older : f[i] = f[j] => i = j
      BY <2>2, <3>1
    <3> HIDE DEF f
    <3> QED BY <2>1, <3>2, <3>3, Pigeons
  <2>4. Len(bin) <= Cardinality(Socket)
    <3> DEFINE f == [i \in 1 .. Len(bin) |-> conns[Older + i].sock]
    <3>1. \A i \in 1 .. Len(bin) : Older + i \in DOMAIN conns /\ ~ (Older + i <= Older)
      BY <1>1, <2>1
    <3>2. f \in [1 .. Len(bin) -> Socket]
      BY <3>1, EntryAt
    <3>3. ASSUME NEW i \in 1 .. Len(bin), NEW j \in 1 .. Len(bin), f[i] = f[j] PROVE i = j
      <4>1. Older + i = Older + j
        BY <2>2, <3>1, <3>3
      <4> QED BY <1>1, <2>1, <4>1
    <3> HIDE DEF f
    <3> QED BY <1>1, <3>2, <3>3, Pigeons
  <2> QED BY <1>1, <1>2, <2>1, <2>3, <2>4
<1> QED BY <1>3, <1>4

\* The table of socket_proc.c has MAX_CONNS places and is filled without a test of
\* them (line 225): it never needs more than two for each socket that exists, one
\* for the entry it had before a refresh and one for the new.
THEOREM TableBounded == Spec => [](Len(conns) <= 2 * Cardinality(Socket))
BY TableSize, TypeInit, TypeStep, TableInit, TableStep, AgeInit, AgeStep, PTL DEF Spec

\* ConnectedAttributed again, from a constant: where there are never more sockets
\* than half of what a byte in a bin can number (lines 246-268), whatever else
\* happens.
THEOREM FewSocketsAttributed ==
  ASSUME 2 * Cardinality(Socket) <= IdWidth
  PROVE  Spec => []ConnectedAttributed
<1>1. TypeOK /\ TableInv /\ AgeInv => Wide
  <2>1. Cardinality(Socket) \in Nat /\ IdWidth \in Nat
    BY FS_CardinalityType, ConnTableAssumption
  <2>2. TypeOK => Len(conns) \in Nat
    BY DEF TypeOK
  <2> QED BY <2>1, <2>2, TableSize DEF Wide
<1> QED
  BY <1>1, TypeInit, TypeStep, TableInit, TableStep, AgeInit, AgeStep,
     ConnectedCorrect, PTL DEF Spec

=============================================================================
