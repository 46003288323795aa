---------------------------- MODULE MCConnTable ----------------------------
(* The addresses of the sockets in the runs of ConnTable.                  *)
EXTENDS ConnTable, TLC

MCIPHash == [a \in RemoteIP |-> IF a = "c" THEN 2 ELSE 1]

\* Sockets 1 and 2 have the same addresses (a port used again); 3 has their port
\* and goes to another address with the same hash, by UDP; 4 has another port
\* and goes to an address with another hash.
MCAddr == [s \in Socket |->
    CASE s \in {1, 2} -> [ip |-> "wifi", port |-> <<1, 2>>, rip |-> "a", rport |-> <<1, 1>>, file |-> s]
      [] s = 3        -> [ip |-> "wifi", port |-> <<1, 2>>, rip |-> "b", rport |-> <<2, 2>>, file |-> 3]
      [] OTHER        -> [ip |-> "wifi", port |-> <<2, 2>>, rip |-> "c", rport |-> <<1, 1>>, file |-> 1]]

FlowOf(s) ==
    [port |-> Addr[s].port, rip |-> Addr[s].rip, rport |-> Addr[s].rport, prot |-> ProtOf(s)]
MCTrafficOf1 == {FlowOf(1)}
\* Also a flow of none of the sockets, whose remote port is their local port.
MCTraffic ==
    {FlowOf(s) : s \in Socket} \cup
    {[port |-> <<2, 2>>, rip |-> "c", rport |-> <<1, 2>>, prot |-> "tcp"]}
MCRenames == {<<n, m>> \in Name \X Name : n # m}
MCNames == Permutations(Name)

\* What the next refresh clears before it uses it is left out where none is
\* under way.
MCView == <<kernel, conns, port2connid, ip2connid, portSet, ipSet, nameBuf, apps, place,
            IF InUse THEN <<>> ELSE <<bin, procs>>>>
=============================================================================
