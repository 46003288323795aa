------------------------------ MODULE Uploader ------------------------------
(***************************************************************************)
(* The upload of the collected folders: uploadData of IMAPUploader and     *)
(* then of PsmnUploader, as upload() of SchedulerThread calls them, over   *)
(* many uploads.                                                           *)
(*                                                                         *)
(* Each works through the folders it was given.  It sends a folder's files *)
(* over FTP one by one, and deletes each after it was sent; PsmnUploader   *)
(* replaces a file by its zip first.  The two methods differ in nothing    *)
(* else.  Any call to the FTP client may fail, a zip may fail, and the     *)
(* process may die at every step.                                          *)
(*                                                                         *)
(* A folder appears here complete.  Of captures that is so unless a call   *)
(* of the collector failed (module Scheduler, UploadedFoldersClosed).  Of  *)
(* passive monitoring it is an assumption: the service may still have a    *)
(* trace open when its folder is listed.                                   *)
(***************************************************************************)
EXTENDS Naturals, FiniteSets

CONSTANTS
    Items,          \* the files the collectors produce
    Folders,        \* the folders they are in
    FolderOf,       \* the folder of each file
    ZippedFolders,  \* the folders of PassiveMonitoring; the others are of IMAP
    MaxInterrupts   \* bound: failures and deaths of the process

ASSUME FoldersAssumption ==
    /\ FolderOf \in [Items -> Folders]
    /\ ZippedFolders \subseteq Folders
ASSUME InterruptsAssumption == MaxInterrupts \in Nat
ASSUME FinitenessAssumption == IsFiniteSet(Items) /\ IsFiniteSet(Folders)

\* The names of files: X and X.zip.
Plain(i) == <<i, "plain">>
Zip(i)   == <<i, "zip">>
Names    == Items \X {"plain", "zip"}
Zipped(i) == FolderOf[i] \in ZippedFolders

VARIABLES
    pc,         \* the place in uploadData; "idle" between two uploads
    zipping,    \* FALSE in IMAPUploader, TRUE in PsmnUploader
    imapList,   \* the folders that IMAPUploader has still to go through
    psmnList,   \* and those of PsmnUploader
    tried,      \* a folder was tried, so that time may have run out
    folder,     \* the folder at hand
    list,       \* the names in it that are still to do
    file,       \* the name at hand
    folders,    \* the folders on the phone
    local,      \* the names on the phone
    torn,       \* files whose zip on the phone is incomplete
    remote,     \* the names of which the server has all
    collected,  \* history: the folders collected so far
    sends,      \* history: how often each file was sent
    interrupts  \* history: failures and deaths so far

listVars == <<imapList, psmnList, tried, folder, list, file>>
phoneVars == <<folders, local, torn, collected>>
vars == <<pc, zipping, listVars, phoneVars, remote, sends, interrupts>>

NoFolder == "no folder"
NoName   == <<>>
PCs == {"idle", "folder", "connect", "file", "zip", "zipping", "zipped",
        "send", "sending", "sent"}

TypeOK ==
    /\ pc \in PCs
    /\ zipping \in BOOLEAN
    /\ imapList \subseteq Folders /\ psmnList \subseteq Folders
    /\ tried \in BOOLEAN
    /\ folder \in Folders \cup {NoFolder}
    /\ list \subseteq Names
    /\ file \in Names \cup {NoName}
    /\ folders \subseteq Folders
    /\ local \subseteq Names
    /\ torn \subseteq Items
    /\ remote \subseteq Names
    /\ collected \subseteq Folders
    /\ sends \in [Items -> Nat]
    /\ interrupts \in Nat

Init ==
    /\ pc = "idle" /\ zipping = FALSE
    /\ imapList = {} /\ psmnList = {} /\ tried = FALSE
    /\ folder = NoFolder /\ list = {} /\ file = NoName
    /\ folders = {} /\ local = {} /\ torn = {} /\ collected = {}
    /\ remote = {} /\ sends = [i \in Items |-> 0] /\ interrupts = 0

Goto(from, to) == pc = from /\ pc' = to

\* The file a name is of, and the name under which it is sent.
ItemOf(name) == name[1]
SentAs(name) == IF Zipped(ItemOf(name)) THEN Zip(ItemOf(name)) ELSE name

NamesIn(f) == {n \in local : FolderOf[ItemOf(n)] = f}

(***************************************************************************)
(* upload() and the loop over the folders.                                 *)
(***************************************************************************)

\* A collector has closed a new folder, perhaps with no file in it.  A folder's
\* name is the time it was made, and is not used twice.
Collect(f) ==
    /\ f \notin collected
    /\ collected' = collected \cup {f}
    /\ folders' = folders \cup {f}
    /\ local' = local \cup {Plain(i) : i \in {j \in Items : FolderOf[j] = f}}
    /\ UNCHANGED <<pc, zipping, listVars, torn, remote, sends, interrupts>>

\* getDataToUpload of both, in upload(), which goes on with two empty lists when
\* another uploader has data.  (A list that is null ends the process: Dies.)
Start ==
    /\ Goto("idle", "folder")
    /\ zipping' = FALSE /\ tried' = FALSE
    /\ imapList' = folders \ ZippedFolders
    /\ psmnList' = folders \cap ZippedFolders
    /\ UNCHANGED <<folder, list, file, phoneVars, remote, sends, interrupts>>

Waiting == IF zipping THEN psmnList ELSE imapList

\* All folders are done, or UPLOADING_IMAP_DURATION (UPLOADING_PSMN_DURATION)
\* has passed; it is looked at before each folder.
FoldersDone ==
    /\ pc = "folder"
    /\ Waiting = {} \/ tried
    /\ IF zipping THEN pc' = "idle" /\ zipping' = FALSE
                  ELSE pc' = "folder" /\ zipping' = TRUE
    /\ tried' = FALSE
    /\ UNCHANGED <<imapList, psmnList, folder, list, file, phoneVars, remote,
                   sends, interrupts>>

\* The next folder, in the order of listFiles, which is not specified.
\* It is deleted when it is empty.
NextFolder(f) ==
    /\ pc = "folder" /\ f \in Waiting
    /\ IF zipping THEN psmnList' = psmnList \ {f} /\ UNCHANGED imapList
                  ELSE imapList' = imapList \ {f} /\ UNCHANGED psmnList
    /\ tried' = TRUE
    /\ IF NamesIn(f) = {} THEN /\ folders' = folders \ {f}
                               /\ UNCHANGED <<pc, folder, list>>
                          ELSE /\ pc' = "connect" /\ folder' = f /\ list' = NamesIn(f)
                               /\ UNCHANGED folders
    /\ UNCHANGED <<zipping, file, local, torn, collected, remote, sends, interrupts>>

\* connect and createDirectory; an error of the latter is taken for
\* "directory exists".
Connect ==
    /\ Goto("connect", "file")
    /\ UNCHANGED <<zipping, listVars, phoneVars, remote, sends, interrupts>>

\* Mutant: a folder that is not empty by now is tried again.
FolderDoneRetries ==
    /\ Goto("file", "folder")
    /\ list = {}
    /\ IF NamesIn(folder) = {} THEN folders' = folders \ {folder} /\ UNCHANGED psmnList
                                ELSE psmnList' = psmnList \cup {folder} /\ UNCHANGED folders
    /\ folder' = NoFolder
    /\ UNCHANGED <<zipping, imapList, tried, list, file, local, torn,
                   collected, remote, sends, interrupts>>

\* The folder is deleted if it is empty by now.
FolderDone ==
    /\ Goto("file", "folder")
    /\ list = {}
    /\ folders' = IF NamesIn(folder) = {} THEN folders \ {folder} ELSE folders
    /\ folder' = NoFolder
    /\ UNCHANGED <<zipping, imapList, psmnList, tried, list, file, local, torn,
                   collected, remote, sends, interrupts>>

(***************************************************************************)
(* One file.                                                               *)
(***************************************************************************)

\* Mutant: the zips found are taken for what was sent before.
NextFilePlain(n) ==
    /\ pc = "file" /\ n \in list
    /\ pc' = CASE ~Zipped(ItemOf(n))    -> "send"
               [] n = Plain(ItemOf(n)) -> "zip"
               [] OTHER                -> "file"
    /\ list' = list \ {n} /\ file' = n
    /\ UNCHANGED <<zipping, imapList, psmnList, tried, folder, phoneVars, remote,
                   sends, interrupts>>

NextFile(n) ==
    /\ pc = "file" /\ n \in list
    /\ pc' = IF Zipped(ItemOf(n)) /\ n = Plain(ItemOf(n)) THEN "zip" ELSE "send"
    /\ list' = list \ {n} /\ file' = n
    /\ UNCHANGED <<zipping, imapList, psmnList, tried, folder, phoneVars, remote,
                   sends, interrupts>>

\* Mutant: the zip is not named as what is sent.
ZipOpensElsewhere ==
    /\ Goto("zip", "zipping")
    /\ local' = local \cup {Zip(file)}
    /\ torn' = torn \cup {ItemOf(file)}
    /\ UNCHANGED <<zipping, listVars, folders, collected, remote, sends, interrupts>>

\* Mutant: the file is deleted once it is read, before the zip is closed.
ZipOpensDeleting ==
    /\ Goto("zip", "zipping")
    /\ local' = (local \ {file}) \cup {Zip(ItemOf(file))}
    /\ torn' = torn \cup {ItemOf(file)}
    /\ UNCHANGED <<zipping, listVars, folders, collected, remote, sends, interrupts>>

\* Utilities.zip opens the zip, fills and closes it, and deletes the file.
ZipOpens ==
    /\ Goto("zip", "zipping")
    /\ local' = local \cup {Zip(ItemOf(file))}
    /\ torn' = torn \cup {ItemOf(file)}
    /\ UNCHANGED <<zipping, listVars, folders, collected, remote, sends, interrupts>>

ZipCloses ==
    /\ Goto("zipping", "zipped")
    /\ torn' = torn \ {ItemOf(file)}
    /\ UNCHANGED <<zipping, listVars, folders, local, collected, remote, sends, interrupts>>

ZipDeletes ==
    /\ Goto("zipped", "send")
    /\ local' = local \ {file}
    /\ UNCHANGED <<zipping, listVars, folders, torn, collected, remote, sends, interrupts>>

\* changeDirectory, and uploadFile replaces what the server has.
SendBegins ==
    /\ Goto("send", "sending")
    /\ remote' = remote \ {SentAs(file)}
    /\ sends' = [sends EXCEPT ![ItemOf(file)] = @ + 1]
    /\ UNCHANGED <<zipping, listVars, phoneVars, interrupts>>

SendEnds ==
    /\ Goto("sending", "sent")
    /\ remote' = IF file = Zip(ItemOf(file)) /\ ItemOf(file) \in torn
                 THEN remote ELSE remote \cup {SentAs(file)}
    /\ UNCHANGED <<zipping, listVars, phoneVars, sends, interrupts>>

\* Mutant: the file is deleted whether or not it was sent.
DeletesEarly ==
    /\ pc \in {"sending", "sent"} /\ pc' = "file"
    /\ local' = local \ {file}
    /\ torn' = IF file = Zip(ItemOf(file)) THEN torn \ {ItemOf(file)} ELSE torn
    /\ file' = NoName
    /\ UNCHANGED <<zipping, imapList, psmnList, tried, folder, list, folders,
                   collected, remote, sends, interrupts>>

\* Mutant: only what was zipped is deleted, a zip never.
DeletesPlain ==
    /\ Goto("sent", "file")
    /\ local' = local \ {Plain(ItemOf(file))}
    /\ file' = NoName
    /\ UNCHANGED <<zipping, imapList, psmnList, tried, folder, list, folders, torn,
                   collected, remote, sends, interrupts>>

\* changeDirectory("/") and file.delete(): the name that was listed.
Deletes ==
    /\ Goto("sent", "file")
    /\ local' = local \ {file}
    /\ torn' = IF file = Zip(ItemOf(file)) THEN torn \ {ItemOf(file)} ELSE torn
    /\ file' = NoName
    /\ UNCHANGED <<zipping, imapList, psmnList, tried, folder, list, folders,
                   collected, remote, sends, interrupts>>

(***************************************************************************)
(* Failures.                                                               *)
(***************************************************************************)

Interrupted == interrupts < MaxInterrupts /\ interrupts' = interrupts + 1

\* The end of one uploadData: the other's turn, or the end of the upload.
Leaves ==
    IF zipping THEN pc' = "idle" /\ zipping' = FALSE
               ELSE pc' = "folder" /\ zipping' = TRUE

Forgets == folder' = NoFolder /\ list' = {} /\ file' = NoName

\* Mutant: it deletes the file, not the zip.
ZipFailsDeleting ==
    /\ pc \in {"zip", "zipping"}
    /\ Leaves /\ Forgets /\ Interrupted /\ tried' = FALSE
    /\ local' = local \ {file}
    /\ UNCHANGED <<imapList, psmnList, folders, torn, collected, remote, sends>>

\* zip throws IOException inside: it deletes the zip, and uploadData ends.
ZipFails ==
    /\ pc \in {"zip", "zipping"}
    /\ Leaves /\ Forgets /\ Interrupted /\ tried' = FALSE
    /\ local' = local \ {Zip(ItemOf(file))}
    /\ torn' = torn \ {ItemOf(file)}
    /\ UNCHANGED <<imapList, psmnList, folders, collected, remote, sends>>

\* An FTPException ends the folder (its test of the message is the wrong way
\* round, so that nearly any text counts as "file exists"), an IOException
\* ends uploadData.
FTPFails ==
    /\ pc \in {"connect", "send", "sending", "sent"}
    /\ \/ pc' = "folder" /\ UNCHANGED <<zipping, tried>>
       \/ Leaves /\ tried' = FALSE
    /\ Forgets /\ Interrupted
    /\ UNCHANGED <<imapList, psmnList, phoneVars, remote, sends>>

\* The process dies, and is started again.
Dies ==
    /\ pc # "idle"
    /\ pc' = "idle" /\ zipping' = FALSE /\ tried' = FALSE
    /\ Forgets /\ Interrupted
    /\ imapList' = {} /\ psmnList' = {}
    /\ UNCHANGED <<phoneVars, remote, sends>>

(***************************************************************************)
(* The specification.                                                      *)
(***************************************************************************)

Step ==
    \/ Start \/ FoldersDone \/ Connect \/ FolderDone
    \/ \E f \in Folders : NextFolder(f)
    \/ \E n \in Names : NextFile(n)
    \/ ZipOpens \/ ZipCloses \/ ZipDeletes
    \/ SendBegins \/ SendEnds \/ Deletes

Next ==
    \/ Step \/ ZipFails \/ FTPFails \/ Dies
    \/ \E f \in Folders : Collect(f)

Spec == Init /\ [][Next]_vars

\* Every upload ends (UploadsLetGo of module Scheduler), its calls returning.
\* That another is started needs a phone that is idle and charged again and again.
FairSpec == Spec /\ WF_vars(Step)

(***************************************************************************)
(* Properties.                                                             *)
(***************************************************************************)

\* The files collected, and those of which the phone, the server has all.
Given    == {i \in Items : FolderOf[i] \in collected}
OnPhone  == {i \in Items : Plain(i) \in local \/ (Zip(i) \in local /\ i \notin torn)}
OnServer == {i \in Items : Plain(i) \in remote \/ Zip(i) \in remote}

\* Why: names are only listed while they are on the phone; a file whose zip is
\* incomplete is itself on the phone; zip is given the file itself; what is sent
\* is on the phone until it is deleted, and is complete unless it is a zip that
\* was found in the folder; and it is deleted only when the server has it, or it
\* is such an incomplete zip.
ListedOnPhone == list \subseteq local
TornHasPlain  == \A i \in torn : Zipped(i) /\ Plain(i) \in local
FileAtHand    == pc \in {"zip", "zipping", "zipped", "send", "sending", "sent"}
                     => file \in Names /\ file \notin list
ZipsPlain     == pc \in {"zip", "zipping", "zipped"}
                     => /\ file = Plain(ItemOf(file)) /\ file \in local
                        /\ Zipped(ItemOf(file))
ZipComplete   == /\ pc \in {"zipping", "zipped"} => Zip(ItemOf(file)) \in local
                 /\ pc = "zipped" => ItemOf(file) \notin torn
SendsWhole    == pc \in {"send", "sending", "sent"}
                     => /\ SentAs(file) \in local
                        /\ file = Zip(ItemOf(file)) \/ ItemOf(file) \notin torn
SentArrived   == pc = "sent" => SentAs(file) \in remote \/ ItemOf(file) \in torn

UploadInv ==
    /\ ListedOnPhone /\ TornHasPlain /\ FileAtHand /\ ZipsPlain
    /\ ZipComplete /\ SendsWhole /\ SentArrived

\* The uploaders implement SafeUpload, whatever fails and wherever the process
\* dies: what is deleted has been sent, and not as half a zip.
Safe == INSTANCE SafeUpload
            WITH given <- Given, onPhone <- OnPhone, onServer <- OnServer
SafeUploads == Safe!Spec

\* A death within zip leaves half a zip (user data are sent from it by the next
\* upload, under the name of the whole); the file itself is still there then,
\* so that no collected file is ever lost.
NothingLost == Safe!NothingLost

\* PsmnUploader deletes the name it listed, which zip has deleted already, so
\* that each zip stays and is sent twice.  It is not sent any more often than
\* that but for an interrupted upload: nothing is sent for ever.
SentTwice ==
    \A i \in Items : sends[i] <= (IF Zipped(i) THEN 2 ELSE 1) + interrupts

\* The steps an upload has left at most: its turns (of the two uploaders), its
\* folders, the names listed in the folder at hand, and the place with a name.
TurnsLeft   == IF pc = "idle" THEN 0 ELSE IF zipping THEN 1 ELSE 2
FoldersLeft == Cardinality(imapList) + Cardinality(psmnList)
PlaceLeft ==
    CASE pc = "file"                -> 1
      [] pc \in {"connect", "sent"} -> 2
      [] pc = "sending"             -> 3
      [] pc = "send"                -> 4
      [] pc = "zipped"              -> 5
      [] pc = "zipping"             -> 6
      [] pc = "zip"                 -> 7
NamesLeft == IF pc \in {"idle", "folder"} THEN 0 ELSE 8 * Cardinality(list) + PlaceLeft
StepsPerFolder == 8 * Cardinality(Names) + 3
StepsLeft == TurnsLeft + StepsPerFolder * FoldersLeft + NamesLeft

\* An upload ends, whatever it finds in the folders: every step of it brings its
\* end nearer, one that fails too, and what is collected meanwhile does not put
\* it off.
UploadShrinks ==
    [][IF collected' # collected THEN StepsLeft' = StepsLeft
       ELSE pc = "idle" \/ StepsLeft' < StepsLeft]_vars

\* In the end every collected file is on the server and not on the phone, though
\* failures and deaths interrupt the uploads, time runs out, and the folders
\* come in any order.
AllArrive ==
    \A i \in Items : i \in Given ~> (i \in OnServer /\ {Plain(i), Zip(i)} \cap local = {})
=============================================================================
