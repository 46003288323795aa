---------------------------- MODULE Attribution ----------------------------
(***************************************************************************)
(* What the attribution of packets promises to the reader of a trace: the  *)
(* number a packet carries is the place of a name in the list of           *)
(* applications, for good, and that name is no other process's than one    *)
(* that had a socket the packet may belong to.                             *)
(*                                                                         *)
(* Nothing is said of when the list is made or how the sockets are found.  *)
(* A process that has exited can no longer be asked for its name; a packet *)
(* of it may carry that of another.                                        *)
(***************************************************************************)
EXTENDS Integers, Sequences

CONSTANTS
    Socket, Pid, Name, Packet,
    NoPacket,
    Candidates      \* Candidates[p]: the sockets packet p may belong to

VARIABLES
    owned,      \* owned[s]: the processes that ever had socket s open
    called,     \* called[q]: the names process q has had
    dead,       \* the processes that have exited
    listed,     \* the list of applications
    asked,      \* the packet in hand, or NoPacket
    answer      \* its number, -1 for none, or -2 while it is not decided

vars == <<owned, called, dead, listed, asked, answer>>

Init ==
    /\ owned = [s \in Socket |-> {}] /\ called = [q \in Pid |-> {}] /\ dead = {}
    /\ listed = <<>> /\ asked = NoPacket /\ answer = -2

\* Sockets are opened, processes start, are renamed and exit: what was, stays.
Happens ==
    /\ \A s \in Socket : owned[s] \subseteq owned'[s]
    /\ \A q \in Pid : called[q] \subseteq called'[q]
    /\ dead \subseteq dead'
    /\ UNCHANGED <<listed, asked, answer>>

\* A name some process has had gets the next number, once.
Lists ==
    /\ \E q \in Pid : \E n \in called[q] :
        /\ \A k \in DOMAIN listed : listed[k] # n
        /\ listed' = Append(listed, n)
    /\ UNCHANGED <<owned, called, dead, asked, answer>>

Asks ==
    /\ asked = NoPacket /\ asked' \in Packet
    /\ UNCHANGED <<owned, called, dead, listed, answer>>

\* Number k may be given to packet p.
Rightful(p, k) ==
    /\ k \in DOMAIN listed
    /\ \E s \in Candidates[p] : \E q \in owned[s] : listed[k] \in called[q] \/ q \in dead

\* A packet gets one answer.
Answers ==
    /\ asked # NoPacket /\ answer = -2
    /\ answer' = -1 \/ Rightful(asked, answer')
    /\ UNCHANGED <<owned, called, dead, listed, asked>>

Goes ==
    /\ answer # -2 /\ answer' = -2 /\ asked' = NoPacket
    /\ UNCHANGED <<owned, called, dead, listed>>

Next == Happens \/ Lists \/ Asks \/ Answers \/ Goes

Spec == Init /\ [][Next]_vars

\* The answer stays true while the packet is written.
AnswerTrue ==
    answer # -2 => asked \in Packet /\ (answer = -1 \/ Rightful(asked, answer))

\* A number never changes its meaning.
NumbersKept ==
    [][\A k \in DOMAIN listed : k \in DOMAIN listed' /\ listed'[k] = listed[k]]_vars
=============================================================================
