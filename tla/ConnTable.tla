----------------------------- MODULE ConnTable -----------------------------
(***************************************************************************)
(* The attribution of packets to applications in a capture process         *)
(* (socket_proc.c): a table of connections, two indexes into it (by local  *)
(* port and by a hash of the remote address), and the list of applications *)
(* whose positions the packets carry.  A packet that no entry explains      *)
(* makes the process read the whole of /proc again, in many steps, while   *)
(* sockets and processes come and go.                                      *)
(*                                                                         *)
(* Identifiers of connections count from 1 (from 0 in the code).  A socket *)
(* is its inode; its addresses are the record Addr[s].                     *)
(***************************************************************************)
EXTENDS Integers, Sequences, FiniteSets

CONSTANTS
    Socket,     \* the inodes of sockets, each given to one socket
    Addr,       \* Addr[s]: its addresses and the file of /proc/net it is in
    Pid,        \* process identifiers, in the order of /proc
    Name,       \* command lines
    Renames,    \* <<n, m>>: a process called n may become one called m
    Byte,       \* the values of a byte of a port number
    RemoteIP,   \* remote addresses
    IPHash,     \* IPHash[a]: the upper half of an address
    Second,     \* the readings of the clock
    TIMEOUT,    \* seconds an entry is trusted without a packet
    IdWidth,    \* a bin of iNode2connid stores identifiers modulo this (256)
    Traffic     \* the flows packets belong to, [port, rip, rport, prot]

Port == Byte \X Byte
Prot == {"tcp", "udp"}
Files == 1 .. 4     \* tcp, tcp6, udp, udp6

ASSUME ConnTableAssumption ==
    /\ Addr \in [Socket -> [ip : {"wifi", "mobile"}, port : Port,
                            rip : RemoteIP, rport : Port, file : Files]]
    /\ Pid \subseteq Nat /\ IsFiniteSet(Pid) /\ IsFiniteSet(Socket)
    /\ DOMAIN IPHash = RemoteIP
    /\ Second \subseteq Nat /\ TIMEOUT \in Nat \ {0} /\ IdWidth \in Nat \ {0}
    /\ Traffic \subseteq [port : Port, rip : RemoteIP, rport : Port, prot : Prot]
    /\ Name \cap {"", "unborn", "zombie", "gone"} = {}

VARIABLES
    proc,       \* proc[p]: its command line, or "unborn", "zombie", "gone"
    holder,     \* holder[s]: the processes that have socket s open
    owned,      \* history: owned[s], the processes that ever had it open
    called,     \* history: called[p], the command lines p has had
    steady,     \* history: sockets open since the refresh began, with every
                \*   holder alive all the time
    conns,      \* the table: [sock, pid, app, tv] (-1: no process, no application)
    bin,        \* iNode2connid: the identifiers read in this refresh, as stored
    port2connid, ip2connid,     \* the indexes: identifier, -1 none, -2 several
    portSet, ipSet,             \* port2connidSetList, ip2connidSetList
    procs,      \* the processes whose names this refresh has read (nProcs of them)
    nameBuf,    \* nameBuf[k]: what procs[k].name holds; never cleared (beyond: "")
    apps,       \* the file appname: the names in the order of their numbers
    pc, at,     \* place in UpdatePacket_Core, and the file or entry it is at
    todo,       \* the processes AttachProcessInfo has still to look at
    pkt,        \* the packet in UpdatePacket_Core, [up, flow, sec]
    answer      \* what was returned for it: a number, -1, or -2 for none yet

kernel == <<proc, holder, owned, called, steady>>
table == <<conns, bin, port2connid, ip2connid, portSet, ipSet>>
names == <<procs, nameBuf, apps>>
place == <<pc, at, todo, pkt, answer>>
vars == <<kernel, table, names, place>>

-----------------------------------------------------------------------------
(* Types                                                                   *)

Hash == {IPHash[a] : a \in RemoteIP}
Alive(p) == proc[p] \in Name
Entry == [sock : Socket, pid : Pid \cup {-1}, app : DOMAIN apps \cup {-1}, tv : Second]
Packet == [up : BOOLEAN, flow : Traffic, sec : Second]
NoPacket == [up |-> FALSE]
\* Places where no refresh is under way: the indexes can be used.
InUse == pc \in {"idle", "lookup", "answer", "return"}

TypeOK ==
    /\ proc \in [Pid -> Name \cup {"unborn", "zombie", "gone"}]
    /\ holder \in [Socket -> SUBSET Pid] /\ owned \in [Socket -> SUBSET Pid]
    /\ called \in [Pid -> SUBSET Name] /\ steady \subseteq Socket
    /\ conns \in Seq(Entry) /\ bin \in Seq(Nat)
    /\ port2connid \in [Port -> Nat \cup {-1, -2}] /\ portSet \subseteq Port
    /\ ip2connid \in [Hash -> Nat \cup {-1, -2}] /\ ipSet \subseteq Hash
    /\ procs \in Seq(Pid) /\ nameBuf \in Seq(Name) /\ Len(procs) <= Len(nameBuf)
    /\ apps \in Seq(Name) /\ at \in Nat /\ todo \subseteq Pid
    /\ pc \in {"idle", "lookup", "read", "list", "attach", "names", "clean",
               "index", "answer", "return", "crashed"}
    /\ pkt \in Packet \cup {NoPacket} /\ (pc # "idle" => pkt \in Packet)
    /\ answer \in Nat \cup {-1, -2}

Init ==     \* StartCapture, before any socket and process that matters
    /\ proc = [p \in Pid |-> "unborn"]
    /\ holder = [s \in Socket |-> {}] /\ owned = holder
    /\ called = [p \in Pid |-> {}] /\ steady = {}
    /\ conns = <<>> /\ bin = <<>> /\ portSet = {} /\ ipSet = {}
    /\ port2connid = [k \in Port |-> -1] /\ ip2connid = [h \in Hash |-> -1]
    /\ procs = <<>> /\ nameBuf = <<>> /\ apps = <<>>
    /\ pc = "idle" /\ at = 1 /\ todo = {} /\ pkt = NoPacket /\ answer = -2

-----------------------------------------------------------------------------
(* The kernel: processes and sockets                                       *)

\* A process is forked with the sockets Q of its parent q, if any of interest.
Fork(p, n, Q) ==
    /\ proc[p] = "unborn"
    /\ proc' = [proc EXCEPT ![p] = n] /\ called' = [called EXCEPT ![p] = {n}]
    /\ holder' = [s \in Socket |-> IF s \in Q THEN holder[s] \cup {p} ELSE holder[s]]
    /\ owned' = [s \in Socket |-> owned[s] \cup holder'[s]]
    /\ UNCHANGED steady

\* It gets a new command line (an application forked by zygote, or exec).
Rename(p, n) ==
    /\ Alive(p) /\ <<proc[p], n>> \in Renames
    /\ proc' = [proc EXCEPT ![p] = n] /\ called' = [called EXCEPT ![p] = @ \cup {n}]
    /\ UNCHANGED <<holder, owned, steady>>

\* It exits: its sockets are closed, its cmdline is empty until it is reaped.
Exit(p) ==
    /\ Alive(p)
    /\ proc' = [proc EXCEPT ![p] = "zombie"]
    /\ holder' = [s \in Socket |-> holder[s] \ {p}]
    /\ steady' = {s \in steady : p \notin holder[s]}
    /\ UNCHANGED <<owned, called>>

Reap(p) ==
    /\ proc[p] = "zombie" /\ proc' = [proc EXCEPT ![p] = "gone"]
    /\ UNCHANGED <<holder, owned, called, steady>>

Open(s, p) ==
    /\ owned[s] = {} /\ Alive(p)
    /\ holder' = [holder EXCEPT ![s] = {p}] /\ owned' = [owned EXCEPT ![s] = {p}]
    /\ UNCHANGED <<proc, called, steady>>

Close(s, p) ==
    /\ p \in holder[s] /\ holder' = [holder EXCEPT ![s] = @ \ {p}]
    /\ steady' = steady \ {s}
    /\ UNCHANGED <<proc, owned, called>>

\* It moves at any time; where the capture only computes, from the clean-up to
\* the answer, a step of the kernel makes no difference to it and may wait.
Computing == pc \in {"lookup", "clean", "index", "answer", "return", "crashed"}
Kernel ==
    /\ ~Computing
    /\ \/ \E p \in Pid, n \in Name :
            \/ \E q \in Pid \cup {-1} : /\ q = -1 \/ (q \in Pid /\ Alive(q))
                                       /\ Fork(p, n, {s \in Socket : q \in holder[s]})
            \/ Rename(p, n)
       \/ \E p \in Pid : Exit(p) \/ Reap(p)
       \/ \E s \in Socket, p \in Pid : Open(s, p) \/ Close(s, p)
    /\ UNCHANGED <<table, names, place>>

-----------------------------------------------------------------------------
(* UpdatePacket: ports and direction                                       *)

\* The bytes of a port swapped.
Swap(k) == <<k[2], k[1]>>
ProtOf(s) == IF Addr[s].file <= 2 THEN "tcp" ELSE "udp"
\* The port of the sender; the port of the receiver is computed from it too.
SrcPort(p) == IF p.up THEN p.flow.port ELSE p.flow.rport
LocalPort(p) == IF p.up THEN SrcPort(p) ELSE Swap(SrcPort(p))
RemotePort(p) == IF p.up THEN Swap(SrcPort(p)) ELSE SrcPort(p)

Receive(p) ==
    /\ pc = "idle" /\ pc' = "lookup" /\ pkt' = p
    /\ UNCHANGED <<kernel, table, names, at, todo, answer>>

-----------------------------------------------------------------------------
(* UpdatePacket_Core: the search before and after a refresh                *)

SameRemote(p, i) ==
    /\ Addr[conns[i].sock].rip = p.flow.rip /\ ProtOf(conns[i].sock) = p.flow.prot
Exact(p, i) == SameRemote(p, i) /\ Addr[conns[i].sock].rport = RemotePort(p)

\* The first entry with the remote address, port and protocol, or else the last
\* with the remote address and protocol; 0 if there is none.
SearchForConn(p) ==
    LET exact == {i \in DOMAIN conns : Exact(p, i)}
        same == {i \in DOMAIN conns : SameRemote(p, i)}
    IN  IF exact # {} THEN CHOOSE i \in exact : \A j \in exact : i <= j
        ELSE IF same # {} THEN CHOOSE i \in same : \A j \in same : i >= j
        ELSE 0

\* Mutant: the ports of the packet are taken the wrong way round.
FoundSwapped(p, usable) ==
    LET c1 == port2connid[RemotePort(p)]
        c2 == ip2connid[IPHash[p.flow.rip]]
        c3 == SearchForConn(p)
    IN  IF c1 \in usable THEN c1 ELSE IF c2 \in usable THEN c2
        ELSE IF -2 \in {c1, c2} /\ c3 \in usable THEN c3 ELSE 0

\* The entry that answers p, among those usable, or 0.
Found(p, usable) ==
    LET c1 == port2connid[LocalPort(p)]
        c2 == ip2connid[IPHash[p.flow.rip]]
        c3 == SearchForConn(p)
    IN  IF c1 \in usable THEN c1 ELSE IF c2 \in usable THEN c2
        ELSE IF -2 \in {c1, c2} /\ c3 \in usable THEN c3 ELSE 0

Fresh(p) == {i \in DOMAIN conns : p.sec < conns[i].tv + TIMEOUT}

Return(i) ==
    /\ pc' = "return"
    /\ IF i = 0 THEN answer' = -1 /\ UNCHANGED conns
       ELSE /\ answer' = conns[i].app
            /\ conns' = [conns EXCEPT ![i].tv = pkt.sec]
    /\ UNCHANGED <<kernel, names, bin, port2connid, ip2connid, portSet, ipSet, at, todo, pkt>>

\* The table answers.
LookupHits == pc = "lookup" /\ Found(pkt, Fresh(pkt)) # 0 /\ Return(Found(pkt, Fresh(pkt)))

\* It does not: the refresh begins (Init).
LookupMisses ==
    /\ pc = "lookup" /\ Found(pkt, Fresh(pkt)) = 0
    /\ pc' = "read" /\ at' = 1
    /\ bin' = <<>> /\ procs' = <<>> /\ portSet' = {} /\ ipSet' = {}
    /\ port2connid' = [k \in Port |-> IF k \in portSet THEN -1 ELSE port2connid[k]]
    /\ ip2connid' = [h \in Hash |-> IF h \in ipSet THEN -1 ELSE ip2connid[h]]
    /\ steady' = {s \in Socket : holder[s] # {}}
    /\ UNCHANGED <<proc, holder, owned, called, conns, nameBuf, apps, todo, pkt, answer>>

\* The search after the refresh trusts every entry.
Answer == pc = "answer" /\ Return(Found(pkt, DOMAIN conns))

Returned ==
    /\ pc = "return" /\ pc' = "idle" /\ pkt' = NoPacket /\ answer' = -2
    /\ at' = 1 /\ todo' = {}
    /\ UNCHANGED <<kernel, table, names>>

-----------------------------------------------------------------------------
(* UpdateProcessSocketInfo: the refresh                                    *)

\* The orders in which the members of S can be listed.
Listings(S) ==
    {f \in [1 .. Cardinality(S) -> S] : \A i, j \in DOMAIN f : f[i] = f[j] => i = j}

\* ReadConnections of file number at.
ReadConnections ==
    /\ pc = "read"
    /\ \E l \in Listings({s \in Socket : holder[s] # {} /\ Addr[s].file = at}) :
        /\ conns' = conns \o [i \in 1 .. Len(l) |->
                        [sock |-> l[i], pid |-> -1, app |-> -1, tv |-> pkt.sec]]
        /\ bin' = bin \o [i \in 1 .. Len(l) |-> ((Len(conns) + i - 1) % IdWidth) + 1]
    /\ at' = at + 1 /\ pc' = (IF at = 4 THEN "list" ELSE "read")
    /\ UNCHANGED <<kernel, names, port2connid, ip2connid, portSet, ipSet, todo, pkt, answer>>

\* Mutant: the last process is missed.
ListPidsBefore ==
    /\ pc = "list"
    /\ todo' = {p \in Pid : /\ Alive(p) \/ proc[p] = "zombie"
                            /\ \E q \in Pid : q > p /\ (Alive(q) \/ proc[q] = "zombie")}
    /\ pc' = (IF todo' = {} THEN "names" ELSE "attach") /\ at' = 1
    /\ UNCHANGED <<kernel, table, names, pkt, answer>>

\* AttachProcessInfo lists /proc,
ListPids ==
    /\ pc = "list" /\ todo' = {p \in Pid : Alive(p) \/ proc[p] = "zombie"}
    /\ pc' = (IF todo' = {} THEN "names" ELSE "attach") /\ at' = 1
    /\ UNCHANGED <<kernel, table, names, pkt, answer>>

\* Mutant: the inodes in a bin are not compared.
BinnedAny(s) == IF bin = <<>> THEN 0 ELSE bin[1]

\* The first entry the bin has for socket s (ReadProcFD), or 0.
Binned(s) ==
    LET b == {k \in DOMAIN bin : bin[k] \in DOMAIN conns /\ conns[bin[k]].sock = s}
    IN  IF b = {} THEN 0 ELSE bin[CHOOSE k \in b : \A l \in b : k <= l]

\* and looks at the open files of each process, the last one first, until every
\* connection has a process.
AttachProcess ==
    /\ pc = "attach"
    /\ \E p \in todo :
        /\ \A q \in todo : q <= p
        /\ conns' = [i \in DOMAIN conns |->
                        IF conns[i].pid = -1 /\ \E s \in Socket : p \in holder[s] /\ Binned(s) = i
                        THEN [conns[i] EXCEPT !.pid = p] ELSE conns[i]]
        /\ todo' = todo \ {p}
    /\ pc' = IF todo' = {} \/ \A i \in DOMAIN conns' : conns'[i].pid # -1
             THEN "names" ELSE "attach"
    /\ UNCHANGED <<kernel, names, bin, port2connid, ip2connid, portSet, ipSet, at, pkt, answer>>

\* ReadProcFD cannot open the directory of a process reaped since the listing, and
\* closes it (320), which is undefined: it goes on (AttachProcess), or crashes.
AttachCrashes ==
    /\ pc = "attach" /\ pc' = "crashed"
    /\ \E p \in todo : proc[p] = "gone" /\ \A q \in todo : q <= p
    /\ UNCHANGED <<kernel, table, names, at, todo, pkt, answer>>

\* Mutant: a new application gets the next number.
GetAppIDNext(i, n) ==
    /\ apps' = IF \E k \in DOMAIN apps : apps[k] = n THEN apps ELSE Append(apps, n)
    /\ conns' = [conns EXCEPT ![i].app = IF \E k \in DOMAIN apps : apps[k] = n
                                         THEN CHOOSE k \in DOMAIN apps : apps[k] = n
                                         ELSE Len(apps) + 2]

\* Mutant: a name that is known gets another number.
GetAppIDAgain(i, n) ==
    /\ apps' = Append(apps, n)
    /\ conns' = [conns EXCEPT ![i].app = Len(apps')]

\* GetAppID: the number of a name, a new one if need be, for entry i.
GetAppID(i, n) ==
    /\ apps' = IF \E k \in DOMAIN apps : apps[k] = n THEN apps ELSE Append(apps, n)
    /\ conns' = [conns EXCEPT ![i].app = CHOOSE k \in DOMAIN apps' : apps'[k] = n]

\* GetProcName and GetAppID for entry i, of process p.  fgets leaves the buffer
\* alone if cmdline is empty.
GetProcName(i, p) ==
    LET next == Len(procs) + 1
        used == next \in DOMAIN nameBuf
        known == \E k \in DOMAIN procs : procs[k] = p
    IN  \/ \E k \in DOMAIN procs :
            /\ procs[k] = p /\ GetAppID(i, nameBuf[k]) /\ UNCHANGED <<procs, nameBuf>>
        \/ /\ ~known /\ p \in Pid /\ Alive(p)
           /\ procs' = Append(procs, p)
           /\ nameBuf' = IF used THEN [nameBuf EXCEPT ![next] = proc[p]]
                         ELSE Append(nameBuf, proc[p])
           /\ GetAppID(i, proc[p])
        \/ /\ ~known /\ p \in Pid /\ proc[p] = "zombie" /\ used
           /\ procs' = Append(procs, p) /\ UNCHANGED nameBuf
           /\ GetAppID(i, nameBuf[next])
        \/ /\ ~known /\ ~(p \in Pid /\ (Alive(p) \/ (proc[p] = "zombie" /\ used)))
           /\ UNCHANGED <<procs, nameBuf, apps, conns>>

\* UpdateNames, one entry without application at a time.
UpdateNames ==
    LET unnamed == {i \in DOMAIN conns : i >= at /\ conns[i].app = -1}
    IN  /\ pc = "names"
        /\ \/ unnamed = {} /\ pc' = "clean" /\ UNCHANGED <<at, names, conns>>
           \/ \E i \in unnamed :
                /\ \A j \in unnamed : i <= j
                /\ GetProcName(i, conns[i].pid)
                /\ at' = i + 1 /\ UNCHANGED pc
        /\ UNCHANGED <<kernel, bin, port2connid, ip2connid, portSet, ipSet, todo, pkt, answer>>

\* Mutant: entries without application are not told apart.
LiveUnnamed(i) == pkt.sec < conns[i].tv + TIMEOUT

\* CleanConnectionInfo: the outcome of its two loops.  Of the entries that have
\* an application and have not timed out, the latest of each connection stays
\* (the first of them, if there are several).
Live(i) == conns[i].app # -1 /\ pkt.sec < conns[i].tv + TIMEOUT
Key(s) == <<Addr[s].ip, Addr[s].rip, Addr[s].port, Addr[s].rport, ProtOf(s)>>

\* Mutant: only a later entry takes the place of another.
BeatsLater(j, i) ==
    /\ Live(j) /\ Key(conns[j].sock) = Key(conns[i].sock) /\ conns[j].tv > conns[i].tv

Beats(j, i) ==
    /\ Live(j) /\ Key(conns[j].sock) = Key(conns[i].sock)
    /\ conns[j].tv > conns[i].tv \/ (conns[j].tv = conns[i].tv /\ j < i)
Kept == {i \in DOMAIN conns : Live(i) /\ \A j \in DOMAIN conns : ~Beats(j, i)}
Increasing(S) ==
    {f \in [1 .. Cardinality(S) -> S] : \A i, j \in DOMAIN f : i < j => f[i] < f[j]}

CleanConnectionInfo ==
    /\ pc = "clean" /\ pc' = "index"
    /\ \E f \in Increasing(Kept) : conns' = [n \in DOMAIN f |-> conns[f[n]]]
    /\ UNCHANGED <<kernel, names, bin, port2connid, ip2connid, portSet, ipSet,
                   at, todo, pkt, answer>>

\* An index after entries with these keys were added to it, and the keys that it
\* did not have before.
Indexed(index, key) ==
    [k \in DOMAIN index |->
        LET with == {i \in DOMAIN key : key[i] = k}
        IN  IF with = {} THEN index[k]
            ELSE IF index[k] = -1 /\ \E i \in with : with = {i}
                 THEN CHOOSE i \in with : TRUE
                 ELSE -2]
Added(index, key) == {k \in DOMAIN index : index[k] = -1 /\ \E i \in DOMAIN key : key[i] = k}
PortKey == [i \in DOMAIN conns |-> Addr[conns[i].sock].port]
IPKey == [i \in DOMAIN conns |-> IPHash[Addr[conns[i].sock].rip]]

\* Mutant: the keys added are not listed.
UpdateIndexesUnlisted ==
    /\ pc = "index" /\ pc' = "answer"
    /\ port2connid' = Indexed(port2connid, PortKey)
    /\ ip2connid' = Indexed(ip2connid, IPKey)
    /\ UNCHANGED <<kernel, conns, bin, portSet, ipSet, names, at, todo, pkt, answer>>

\* UpdatePort2Connid and UpdateIP2Connid.
UpdateIndexes ==
    /\ pc = "index" /\ pc' = "answer"
    /\ port2connid' = Indexed(port2connid, PortKey)
    /\ portSet' = portSet \cup Added(port2connid, PortKey)
    /\ ip2connid' = Indexed(ip2connid, IPKey)
    /\ ipSet' = ipSet \cup Added(ip2connid, IPKey)
    /\ UNCHANGED <<kernel, conns, bin, names, at, todo, pkt, answer>>

-----------------------------------------------------------------------------
Capture ==
    \/ \E p \in Packet : Receive(p)
    \/ LookupHits \/ LookupMisses \/ Answer \/ Returned
    \/ ReadConnections \/ ListPids \/ AttachProcess \/ AttachCrashes \/ UpdateNames
    \/ CleanConnectionInfo \/ UpdateIndexes

Next == Kernel \/ Capture
Spec == Init /\ [][Next]_vars

-----------------------------------------------------------------------------
(* Properties                                                              *)

\* The checks before exit(0) (lines 361, 367, 385, 391, 513): the lists of index
\* keys are empty where an index is built, and no entry lacks an application
\* where an index is built or searched.
AssertionsHold ==
    /\ pc = "index" => portSet = {} /\ ipSet = {}
    /\ InUse \/ pc = "index" => \A i \in DOMAIN conns : conns[i].app # -1

\* What the comment above port2connid says (84-85): -1 where no entry has the
\* key, its identifier where one has, -2 where several have; and the lists name
\* the keys to clear.
IndexRight(index, key, set) ==
    \A k \in DOMAIN index :
        LET with == {i \in DOMAIN key : key[i] = k}
        IN  /\ index[k] = -1 <=> with = {}
            /\ index[k] \in Nat => with = {index[k]}
            /\ \A i \in with : with = {i} => index[k] = i
            /\ k \in set <=> index[k] # -1

\* The indexes are right whenever they are used, and clear during a refresh.
IndexesRight ==
    IF InUse THEN IndexRight(port2connid, PortKey, portSet) /\ IndexRight(ip2connid, IPKey, ipSet)
    ELSE /\ \A k \in Port : port2connid[k] = -1
         /\ \A h \in Hash : ip2connid[h] = -1

\* After a refresh a connection has one entry (comment at 446).
NoDuplicates ==
    InUse => \A i, j \in DOMAIN conns : Key(conns[i].sock) = Key(conns[j].sock) => i = j

\* The process of an entry is one that had the socket open, and its application
\* a command line of that process, unless it has exited: then the name may have
\* been read from an empty cmdline.
AttributedToHolder ==
    \A i \in DOMAIN conns :
        LET e == conns[i]
        IN  /\ e.pid # -1 => e.pid \in owned[e.sock]
            /\ e.app # -1 => e.pid # -1 /\ (apps[e.app] \in called[e.pid] \/ ~Alive(e.pid))

\* A packet is given only to an application of an entry with the port it was
\* looked up by, or with an address of the same hash.
AnswerOfMatchingEntry ==
    pc = "return" /\ answer # -1 =>
        \E i \in DOMAIN conns :
            /\ conns[i].app = answer /\ conns[i].tv = pkt.sec
            /\ \/ Addr[conns[i].sock].port = LocalPort(pkt)
               \/ IPHash[Addr[conns[i].sock].rip] = IPHash[pkt.flow.rip]

\* The sockets a packet may be attributed to, for the code (FoundMatches).
SocketsOf ==
    [p \in Packet |-> {s \in Socket : \/ Addr[s].port = LocalPort(p)
                                      \/ IPHash[Addr[s].rip] = IPHash[p.flow.rip]}]

\* The table implements Attribution, whatever sockets and processes do while
\* /proc is read: from the packet to the name, through the index, the entry, its
\* process and its number, nothing gets mixed up.
Attr == INSTANCE Attribution
            WITH Candidates <- SocketsOf, listed <- apps, asked <- pkt,
                 dead <- {p \in Pid : proc[p] \in {"zombie", "gone"}}
Attributes == Attr!Spec

\* A packet of a socket that was open, with all its holders alive, since before
\* the refresh that its arrival caused, is given to some application.
ConnectedAttributed ==
    pc = "return" /\ answer = -1 =>
        \A s \in steady :
            [port |-> Addr[s].port, rip |-> Addr[s].rip, rport |-> Addr[s].rport,
             prot |-> ProtOf(s)] # pkt.flow

-----------------------------------------------------------------------------
(* What comments say and the code does not do                              *)

\* "mapping from local port to CONN_INFO, used by tcpdump" (84): a packet is given
\* to an application with a connection that has the packet's local port, or an
\* address of the same hash.  The local port of a packet downlink is computed
\* from the wrong end of it (608).
AnswerHasLocalPort ==
    pc = "return" /\ answer # -1 =>
        \E i \in DOMAIN conns :
            /\ conns[i].app = answer
            /\ \/ Addr[conns[i].sock].port = pkt.flow.port
               \/ IPHash[Addr[conns[i].sock].rip] = IPHash[pkt.flow.rip]

=============================================================================
