----------------------------- MODULE SafeUpload -----------------------------
(***************************************************************************)
(* What the uploaders promise about the files they are given: a file stays *)
(* on the phone until the server has all of it.                            *)
(*                                                                         *)
(* A file may be sent more than once; while it is sent again the server's  *)
(* copy is incomplete, and only the phone has the file.                    *)
(***************************************************************************)
CONSTANT Items      \* the collected files

VARIABLES
    given,      \* files given to the uploaders so far
    onPhone,    \* files of which the phone has all
    onServer    \* files of which the server has all

vars == <<given, onPhone, onServer>>

Init == given = {} /\ onPhone = {} /\ onServer = {}

Give ==
    \E S \in SUBSET (Items \ given) :
        /\ given' = given \cup S
        /\ onPhone' = onPhone \cup S
        /\ UNCHANGED onServer

Arrive == \E i \in onPhone : onServer' = onServer \cup {i} /\ UNCHANGED <<given, onPhone>>

SendAgain == \E i \in onPhone : onServer' = onServer \ {i} /\ UNCHANGED <<given, onPhone>>

Remove == \E i \in onServer : onPhone' = onPhone \ {i} /\ UNCHANGED <<given, onServer>>

Next == Give \/ Arrive \/ SendAgain \/ Remove

Spec == Init /\ [][Next]_vars

\* Every file is on the phone or on the server, and all of it.
NothingLost == given \subseteq onPhone \cup onServer
=============================================================================
