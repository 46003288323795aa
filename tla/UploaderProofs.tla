-------------------------- MODULE UploaderProofs --------------------------
(***************************************************************************)
(* Proofs about module Uploader, for every set of files and folders and    *)
(* any number of failures and deaths: its types, its invariant, that it    *)
(* implements SafeUpload, that no file is lost, that a file is sent no     *)
(* more often than failures account for, and that each upload ends.        *)
(***************************************************************************)
EXTENDS Integers, Uploader, FiniteSetTheorems, TLAPS

(***************************************************************************)
(* Names.                                                                  *)
(***************************************************************************)

LEMMA NameOfItem ==
    ASSUME NEW i \in Items
    PROVE  /\ Plain(i) \in Names /\ Zip(i) \in Names
           /\ ItemOf(Plain(i)) = i /\ ItemOf(Zip(i)) = i
BY DEF Names, Plain, Zip, ItemOf

LEMMA NamesDiffer ==
    ASSUME NEW i \in Items, NEW j \in Items
    PROVE  /\ Plain(i) # Zip(j)
           /\ Plain(i) = Plain(j) => i = j
           /\ Zip(i) = Zip(j) => i = j
BY DEF Plain, Zip

LEMMA NameHasItem ==
    ASSUME NEW n \in Names
    PROVE  /\ ItemOf(n) \in Items
           /\ n = Plain(ItemOf(n)) \/ n = Zip(ItemOf(n))
BY DEF Names, Plain, Zip, ItemOf

LEMMA NameSent ==
    ASSUME NEW n \in Names
    PROVE  /\ SentAs(n) \in Names
           /\ ItemOf(SentAs(n)) = ItemOf(n)
           /\ Zipped(ItemOf(n)) => SentAs(n) = Zip(ItemOf(n))
           /\ ~Zipped(ItemOf(n)) => SentAs(n) = n
           /\ n = Zip(ItemOf(n)) => SentAs(n) = n
BY NameHasItem, NameOfItem DEF SentAs

\* Where there is a file at hand it is a name, and its item a file.
LEMMA AtHand ==
    ASSUME FileAtHand, pc \in {"zip", "zipping", "zipped", "send", "sending", "sent"}
    PROVE  /\ file \in Names /\ file \notin list
           /\ ItemOf(file) \in Items
           /\ Plain(ItemOf(file)) \in Names /\ Zip(ItemOf(file)) \in Names
           /\ SentAs(file) \in Names
<1>1. file \in Names /\ file \notin list
  BY DEF FileAtHand
<1> QED
  BY <1>1, NameHasItem, NameOfItem, NameSent

(***************************************************************************)
(* Types.                                                                  *)
(***************************************************************************)

LEMMA ForgetsType ==
    ASSUME Forgets
    PROVE  /\ folder' \in Folders \cup {NoFolder}
           /\ list' \subseteq Names
           /\ file' \in Names \cup {NoName}
BY DEF Forgets

LEMMA InterruptedType ==
    ASSUME Interrupted, interrupts \in Nat
    PROVE  interrupts' \in Nat
BY DEF Interrupted

LEMMA LeavesType ==
    ASSUME Leaves
    PROVE  pc' \in PCs /\ zipping' \in BOOLEAN
BY DEF Leaves, PCs

LEMMA TypeStep ==
    ASSUME TypeOK, FileAtHand, [Next]_vars
    PROVE  TypeOK'
<1> USE DEF TypeOK
<1>1. ASSUME NEW f \in Folders, Collect(f)
      PROVE  TypeOK'
  <2>1. {Plain(i) : i \in {j \in Items : FolderOf[j] = f}} \subseteq Names
    BY NameOfItem
  <2> QED
    BY <1>1, <2>1 DEF Collect, listVars
<1>2. CASE Start
  BY <1>2 DEF Start, Goto, phoneVars, PCs
<1>3. CASE FoldersDone
  BY <1>3 DEF FoldersDone, phoneVars, PCs
<1>4. ASSUME NEW f \in Folders, NextFolder(f)
      PROVE  TypeOK'
  <2>1. NamesIn(f) \subseteq Names
    BY DEF NamesIn
  <2>2. pc' \in PCs /\ folder' \in Folders \cup {NoFolder} /\ list' \subseteq Names
    BY <1>4, <2>1 DEF NextFolder, PCs
  <2>3. imapList' \subseteq Folders /\ psmnList' \subseteq Folders /\ folders' \subseteq Folders
    BY <1>4 DEF NextFolder
  <2>4. UNCHANGED <<zipping, file, local, torn, collected, remote, sends, interrupts>>
        /\ tried' = TRUE
    BY <1>4 DEF NextFolder
  <2> QED
    BY <2>2, <2>3, <2>4
<1>5. CASE Connect
  BY <1>5 DEF Connect, Goto, listVars, phoneVars, PCs
<1>6. CASE FolderDone
  BY <1>6 DEF FolderDone, Goto, PCs
<1>7. ASSUME NEW n \in Names, NextFile(n)
      PROVE  TypeOK'
  BY <1>7 DEF NextFile, phoneVars, PCs
<1>8. CASE ZipOpens
  BY <1>8, AtHand DEF ZipOpens, Goto, listVars, PCs
<1>9. CASE ZipCloses
  BY <1>9 DEF ZipCloses, Goto, listVars, PCs
<1>10. CASE ZipDeletes
  BY <1>10 DEF ZipDeletes, Goto, listVars, PCs
<1>11. CASE SendBegins
  <2>1. ItemOf(file) \in Items
    BY <1>11, AtHand DEF SendBegins, Goto
  <2>2. sends' \in [Items -> Nat]
    BY <1>11, <2>1 DEF SendBegins
  <2> QED
    BY <1>11, <2>2 DEF SendBegins, Goto, listVars, phoneVars, PCs
<1>12. CASE SendEnds
  BY <1>12, AtHand DEF SendEnds, Goto, listVars, phoneVars, PCs
<1>13. CASE Deletes
  BY <1>13 DEF Deletes, Goto, PCs
<1>14. CASE ZipFails
  BY <1>14, LeavesType, ForgetsType, InterruptedType DEF ZipFails
<1>15. CASE FTPFails
  <2>1. pc' \in PCs /\ zipping' \in BOOLEAN /\ tried' \in BOOLEAN
    BY <1>15, LeavesType DEF FTPFails, PCs
  <2> QED
    BY <1>15, <2>1, ForgetsType, InterruptedType DEF FTPFails, phoneVars
<1>16. CASE Dies
  BY <1>16, ForgetsType, InterruptedType DEF Dies, phoneVars, PCs
<1>17. CASE UNCHANGED vars
  BY <1>17 DEF vars, listVars, phoneVars
<1> QED
  BY <1>1, <1>2, <1>3, <1>4, <1>5, <1>6, <1>7, <1>8, <1>9, <1>10, <1>11, <1>12,
     <1>13, <1>14, <1>15, <1>16, <1>17 DEF Next, Step

(***************************************************************************)
(* The invariant.                                                          *)
(***************************************************************************)

\* Away from the handling of a file only the list and the zips matter.
LEMMA NoFileAtHand ==
    ASSUME pc' \in {"idle", "folder", "connect", "file"},
           ListedOnPhone', TornHasPlain'
    PROVE  UploadInv'
BY DEF UploadInv, FileAtHand, ZipsPlain, ZipComplete, SendsWhole, SentArrived

LEMMA ForgetsInv ==
    ASSUME Forgets, pc' \in {"idle", "folder"}, TornHasPlain'
    PROVE  UploadInv'
<1>1. ListedOnPhone'
  BY DEF Forgets, ListedOnPhone
<1> QED
  BY <1>1, NoFileAtHand

LEMMA TornKept ==
    ASSUME TornHasPlain, torn' \subseteq torn, local \subseteq local'
    PROVE  TornHasPlain'
BY DEF TornHasPlain, Zipped

LEMMA CollectInv ==
    ASSUME TypeOK, UploadInv, NEW f \in Folders, Collect(f)
    PROVE  UploadInv'
<1>1. local \subseteq local'
  BY DEF Collect
<1>2. UNCHANGED <<pc, list, file, torn, remote>>
  BY DEF Collect, listVars
<1>3. TornHasPlain'
  BY <1>1, <1>2, TornKept DEF UploadInv
<1> QED
  BY <1>1, <1>2, <1>3 DEF UploadInv, ListedOnPhone, FileAtHand, ZipsPlain,
     ZipComplete, SendsWhole, SentArrived, SentAs, Zipped

LEMMA NextFileInv ==
    ASSUME TypeOK, UploadInv, NEW n \in Names, NextFile(n)
    PROVE  UploadInv'
<1>1. UNCHANGED <<local, torn, remote>> /\ list' = list \ {n} /\ file' = n /\ n \in local
  BY DEF NextFile, phoneVars, UploadInv, ListedOnPhone
<1>2. pc' = IF Zipped(ItemOf(n)) /\ n = Plain(ItemOf(n)) THEN "zip" ELSE "send"
  BY DEF NextFile
<1>3. ListedOnPhone' /\ TornHasPlain' /\ FileAtHand'
  BY <1>1, TornKept DEF UploadInv, ListedOnPhone, FileAtHand
<1>4. ZipsPlain' /\ ZipComplete' /\ SentArrived'
  BY <1>1, <1>2 DEF ZipsPlain, ZipComplete, SentArrived, Zipped
<1>5. SendsWhole'
  <2>1. CASE pc' = "send"
    <3>1. SentAs(n) = n
      BY <1>2, <2>1, NameSent, NameHasItem
    <3>2. n = Zip(ItemOf(n)) \/ ItemOf(n) \notin torn
      BY <1>2, <2>1, NameHasItem DEF UploadInv, TornHasPlain
    <3> QED
      BY <1>1, <3>1, <3>2 DEF SendsWhole, SentAs, Zipped
  <2> QED
    BY <1>2, <2>1 DEF SendsWhole
<1> QED
  BY <1>3, <1>4, <1>5 DEF UploadInv

LEMMA ZipOpensInv ==
    ASSUME TypeOK, UploadInv, ZipOpens
    PROVE  UploadInv'
<1>1. UNCHANGED <<list, file, remote>> /\ pc = "zip" /\ pc' = "zipping"
  BY DEF ZipOpens, Goto, listVars
<1>2. /\ local' = local \cup {Zip(ItemOf(file))}
      /\ torn' = torn \cup {ItemOf(file)}
  BY DEF ZipOpens
<1>3. file = Plain(ItemOf(file)) /\ file \in local /\ Zipped(ItemOf(file))
  BY <1>1 DEF UploadInv, ZipsPlain
<1>4. TornHasPlain'
  BY <1>2, <1>3 DEF UploadInv, TornHasPlain, Zipped
<1>5. ListedOnPhone' /\ FileAtHand' /\ ZipsPlain'
  BY <1>1, <1>2, <1>3 DEF UploadInv, ListedOnPhone, FileAtHand, ZipsPlain, Zipped
<1>6. ZipComplete' /\ SendsWhole' /\ SentArrived'
  BY <1>1, <1>2 DEF ZipComplete, SendsWhole, SentArrived
<1> QED
  BY <1>4, <1>5, <1>6 DEF UploadInv

LEMMA ZipClosesInv ==
    ASSUME TypeOK, UploadInv, ZipCloses
    PROVE  UploadInv'
<1>1. UNCHANGED <<list, file, local, remote>> /\ pc = "zipping" /\ pc' = "zipped"
  BY DEF ZipCloses, Goto, listVars
<1>2. torn' = torn \ {ItemOf(file)}
  BY DEF ZipCloses
<1>3. TornHasPlain'
  BY <1>1, <1>2, TornKept DEF UploadInv
<1>4. ListedOnPhone' /\ FileAtHand' /\ ZipsPlain'
  BY <1>1 DEF UploadInv, ListedOnPhone, FileAtHand, ZipsPlain, Zipped
<1>5. ZipComplete' /\ SendsWhole' /\ SentArrived'
  BY <1>1, <1>2 DEF UploadInv, ZipComplete, SendsWhole, SentArrived
<1> QED
  BY <1>3, <1>4, <1>5 DEF UploadInv

LEMMA ZipDeletesInv ==
    ASSUME TypeOK, UploadInv, ZipDeletes
    PROVE  UploadInv'
<1>1. /\ UNCHANGED <<list, file, torn, remote>> /\ pc = "zipped" /\ pc' = "send"
      /\ local' = local \ {file}
  BY DEF ZipDeletes, Goto, listVars
<1>2. /\ file \in Names /\ file \notin list /\ ItemOf(file) \in Items
      /\ Zip(ItemOf(file)) \in Names
  BY <1>1, AtHand DEF UploadInv
<1>3. /\ file = Plain(ItemOf(file)) /\ Zipped(ItemOf(file))
      /\ Zip(ItemOf(file)) \in local /\ ItemOf(file) \notin torn
  BY <1>1 DEF UploadInv, ZipsPlain, ZipComplete
<1>4. TornHasPlain'
  <2> SUFFICES ASSUME NEW i \in torn PROVE Zipped(i) /\ Plain(i) \in local \ {file}
    BY <1>1 DEF TornHasPlain, Zipped
  <2>1. Zipped(i) /\ Plain(i) \in local
    BY DEF UploadInv, TornHasPlain
  <2>2. Plain(i) # file
    BY <1>2, <1>3, NamesDiffer DEF TypeOK
  <2> QED
    BY <2>1, <2>2
<1>5. ListedOnPhone' /\ FileAtHand'
  BY <1>1, <1>2 DEF UploadInv, ListedOnPhone, FileAtHand
<1>6. SendsWhole'
  <2>1. SentAs(file) = Zip(ItemOf(file)) /\ SentAs(file) # file
    BY <1>2, <1>3, NameSent, NamesDiffer
  <2> QED
    BY <1>1, <1>3, <2>1 DEF SendsWhole, SentAs, Zipped
<1>7. ZipsPlain' /\ ZipComplete' /\ SentArrived'
  BY <1>1 DEF ZipsPlain, ZipComplete, SentArrived
<1> QED
  BY <1>4, <1>5, <1>6, <1>7 DEF UploadInv

LEMMA SendInv ==
    ASSUME TypeOK, UploadInv, SendBegins \/ SendEnds
    PROVE  UploadInv'
<1>1. /\ UNCHANGED <<list, file, local, torn>>
      /\ pc \in {"send", "sending"} /\ pc' \in {"sending", "sent"}
  BY DEF SendBegins, SendEnds, Goto, listVars, phoneVars
<1>2. SentArrived'
  <2>1. CASE SendBegins
    BY <2>1 DEF SendBegins, Goto, SentArrived
  <2>2. CASE SendEnds
    BY <1>1, <2>2 DEF SendEnds, SentArrived, SentAs, Zipped
  <2> QED
    BY <2>1, <2>2
<1>3. TornHasPlain' /\ ListedOnPhone' /\ FileAtHand'
  BY <1>1, TornKept DEF UploadInv, ListedOnPhone, FileAtHand
<1>4. SendsWhole'
  BY <1>1 DEF UploadInv, SendsWhole, SentAs, Zipped
<1>5. ZipsPlain' /\ ZipComplete'
  BY <1>1 DEF ZipsPlain, ZipComplete
<1> QED
  BY <1>2, <1>3, <1>4, <1>5 DEF UploadInv

LEMMA DeletesInv ==
    ASSUME TypeOK, UploadInv, Deletes
    PROVE  UploadInv'
<1>1. /\ list' = list /\ pc = "sent" /\ pc' = "file" /\ local' = local \ {file}
      /\ torn' = IF file = Zip(ItemOf(file)) THEN torn \ {ItemOf(file)} ELSE torn
  BY DEF Deletes, Goto
<1>2. file \in Names /\ file \notin list /\ ItemOf(file) \in Items
  BY <1>1, AtHand DEF UploadInv
<1>3. ItemOf(file) \notin torn'
  BY <1>1 DEF UploadInv, SendsWhole
<1>4. ListedOnPhone'
  BY <1>1, <1>2 DEF UploadInv, ListedOnPhone
<1>5. TornHasPlain'
  <2> SUFFICES ASSUME NEW i \in torn' PROVE Zipped(i) /\ Plain(i) \in local \ {file}
    BY <1>1 DEF TornHasPlain, Zipped
  <2>1. i \in torn /\ i \in Items /\ i # ItemOf(file)
    BY <1>1, <1>3 DEF TypeOK
  <2>2. Zipped(i) /\ Plain(i) \in local
    BY <2>1 DEF UploadInv, TornHasPlain
  <2>3. Plain(i) # file
    BY <1>2, <2>1, NameOfItem
  <2> QED
    BY <2>2, <2>3
<1> QED
  BY <1>1, <1>4, <1>5, NoFileAtHand

LEMMA ZipFailsInv ==
    ASSUME TypeOK, UploadInv, ZipFails
    PROVE  UploadInv'
<1>1. Forgets /\ pc' \in {"idle", "folder"} /\ pc \in {"zip", "zipping"}
  BY DEF ZipFails, Leaves
<1>2. torn' \subseteq torn /\ local' = local \ {Zip(ItemOf(file))}
  BY DEF ZipFails
<1>3. ItemOf(file) \in Items
  BY <1>1, AtHand DEF UploadInv
<1>4. TornHasPlain'
  <2> SUFFICES ASSUME NEW i \in torn'
               PROVE  Zipped(i) /\ Plain(i) \in local \ {Zip(ItemOf(file))}
    BY <1>2 DEF TornHasPlain, Zipped
  <2>1. Zipped(i) /\ Plain(i) \in local /\ i \in Items
    BY <1>2 DEF UploadInv, TornHasPlain, TypeOK
  <2> QED
    BY <1>3, <2>1, NamesDiffer
<1> QED
  BY <1>1, <1>4, ForgetsInv

LEMMA InvStep ==
    ASSUME TypeOK, UploadInv, [Next]_vars
    PROVE  UploadInv'
<1>1. ASSUME pc' \in {"idle", "folder", "connect", "file"},
             UNCHANGED <<local, torn>>, list' \subseteq local
      PROVE  UploadInv'
  BY <1>1, TornKept, NoFileAtHand DEF UploadInv, ListedOnPhone
<1>2. CASE Start \/ FoldersDone \/ Connect \/ FolderDone
  <2>1. list' = list /\ UNCHANGED <<local, torn>> /\ pc' \in {"idle", "folder", "file"}
    BY <1>2 DEF Start, FoldersDone, Connect, FolderDone, Goto, phoneVars, listVars
  <2> QED
    BY <1>1, <2>1 DEF UploadInv, ListedOnPhone
<1>3. ASSUME NEW f \in Folders, NextFolder(f)
      PROVE  UploadInv'
  <2>1. UNCHANGED <<local, torn>> /\ pc' \in {"folder", "connect"}
    BY <1>3 DEF NextFolder
  <2>2. list' \in {list, NamesIn(f)}
    BY <1>3 DEF NextFolder
  <2> QED
    BY <1>1, <2>1, <2>2 DEF UploadInv, ListedOnPhone, NamesIn
<1>4. CASE FTPFails \/ Dies
  <2>1. Forgets /\ UNCHANGED <<local, torn>> /\ pc' \in {"idle", "folder"}
    BY <1>4 DEF FTPFails, Dies, Leaves, phoneVars
  <2> QED
    BY <2>1, TornKept, ForgetsInv DEF UploadInv
<1>5. CASE UNCHANGED vars
  BY <1>5 DEF vars, listVars, phoneVars, UploadInv, ListedOnPhone, TornHasPlain,
     FileAtHand, ZipsPlain, ZipComplete, SendsWhole, SentArrived, SentAs, Zipped
<1> QED
  BY <1>2, <1>3, <1>4, <1>5, CollectInv, NextFileInv, ZipOpensInv, ZipClosesInv,
     ZipDeletesInv, SendInv, DeletesInv, ZipFailsInv DEF Next, Step

LEMMA TypeAndInv == Spec => [](TypeOK /\ UploadInv)
<1>1. Init => TypeOK /\ UploadInv
  <2>1. Init => TypeOK
    <3>1. Init => interrupts \in Nat /\ sends \in [Items -> Nat]
      BY DEF Init
    <3>2. Init => pc \in PCs
      BY DEF Init, PCs
    <3> QED
      BY <3>1, <3>2 DEF Init, TypeOK
  <2>2. Init => UploadInv
    BY DEF Init, UploadInv, ListedOnPhone, TornHasPlain, FileAtHand, ZipsPlain,
       ZipComplete, SendsWhole, SentArrived
  <2> QED
    BY <2>1, <2>2
<1>2. TypeOK /\ UploadInv /\ [Next]_vars => (TypeOK /\ UploadInv)'
  BY TypeStep, InvStep DEF UploadInv
<1> QED
  BY <1>1, <1>2, PTL DEF Spec

\* Every variable keeps its type.
THEOREM TypeCorrect == Spec => []TypeOK
BY TypeAndInv, PTL

\* What is sent is on the phone, what is deleted was sent, half a zip is never
\* the only copy: UploadInv is inductive together with the types.
THEOREM UploadInvCorrect == Spec => []UploadInv
BY TypeAndInv, PTL

(***************************************************************************)
(* The refinement: every step is a step of SafeUpload or changes none of   *)
(* Given, OnPhone and OnServer.                                            *)
(***************************************************************************)

MapKept == UNCHANGED <<Given, OnPhone, OnServer>>

LEMMA Untouched ==
    ASSUME UNCHANGED <<collected, local, torn, remote>>
    PROVE  MapKept
BY DEF MapKept, Given, OnPhone, OnServer

LEMMA SourceOnPhone ==
    ASSUME TypeOK, UploadInv, pc \in {"send", "sending", "sent"}
    PROVE  ItemOf(file) \in Items /\ ItemOf(file) \in OnPhone
<1>1. file \in Names /\ ItemOf(file) \in Items
  BY AtHand DEF UploadInv
<1>2. SentAs(file) \in local /\ (ItemOf(file) \in torn => Plain(ItemOf(file)) \in local)
  BY DEF UploadInv, SendsWhole, TornHasPlain
<1>3. SentAs(file) \in {Plain(ItemOf(file)), Zip(ItemOf(file))}
  BY <1>1, NameHasItem DEF SentAs
<1> QED
  BY <1>1, <1>2, <1>3 DEF OnPhone

LEMMA CollectGives ==
    ASSUME TypeOK, UploadInv, NEW f \in Folders, Collect(f)
    PROVE  Safe!Give
<1> DEFINE S == {i \in Items : FolderOf[i] = f}
<1>1. /\ f \notin collected /\ collected' = collected \cup {f}
      /\ local' = local \cup {Plain(i) : i \in S} /\ UNCHANGED <<torn, remote>>
  BY DEF Collect
<1>2. S \in SUBSET (Items \ Given) /\ Given' = Given \cup S
  BY <1>1 DEF Given
<1>3. OnPhone' = OnPhone \cup S
  <2>1. ASSUME NEW i \in Items
        PROVE  /\ Zip(i) \in local' <=> Zip(i) \in local
               /\ Plain(i) \in local' <=> (Plain(i) \in local \/ i \in S)
    BY <1>1, <2>1, NamesDiffer
  <2> QED
    BY <1>1, <2>1 DEF OnPhone
<1>4. OnServer' = OnServer
  BY <1>1 DEF OnServer
<1> QED
  BY <1>2, <1>3, <1>4 DEF Safe!Give

LEMMA ZipStutters ==
    ASSUME TypeOK, UploadInv, ZipOpens \/ ZipCloses \/ ZipDeletes \/ ZipFails
    PROVE  MapKept
<1> DEFINE me == ItemOf(file)
<1>1. UNCHANGED <<collected, remote>>
  BY DEF ZipOpens, ZipCloses, ZipDeletes, ZipFails
<1>2. pc \in {"zip", "zipping", "zipped"}
  BY DEF ZipOpens, ZipCloses, ZipDeletes, ZipFails, Goto
<1>3. me \in Items /\ file = Plain(me) /\ Plain(me) \in local
  BY <1>2, AtHand DEF UploadInv, ZipsPlain
<1>4. /\ local' \in {local, local \cup {Zip(me)}, local \ {file}, local \ {Zip(me)}}
      /\ torn' \in {torn, torn \cup {me}, torn \ {me}}
  BY DEF ZipOpens, ZipCloses, ZipDeletes, ZipFails
<1>5. ASSUME NEW i \in Items, i # me
      PROVE  /\ Plain(i) \in local' <=> Plain(i) \in local
             /\ Zip(i) \in local' <=> Zip(i) \in local
             /\ i \in torn' <=> i \in torn
  BY <1>3, <1>4, <1>5, NamesDiffer
<1>6. Plain(me) \in local' \/ (Zip(me) \in local' /\ me \notin torn')
  <2>1. CASE ZipOpens
    BY <1>3, <2>1 DEF ZipOpens
  <2>2. CASE ZipCloses
    BY <1>3, <2>2 DEF ZipCloses
  <2>3. CASE ZipDeletes
    BY <1>3, <2>3, NamesDiffer DEF ZipDeletes, Goto, UploadInv, ZipComplete
  <2>4. CASE ZipFails
    BY <1>3, <2>4, NamesDiffer DEF ZipFails
  <2> QED
    BY <2>1, <2>2, <2>3, <2>4
<1>7. OnPhone' = OnPhone
  BY <1>3, <1>5, <1>6 DEF OnPhone
<1> QED
  BY <1>1, <1>7 DEF MapKept, Given, OnServer

LEMMA SendBeginsAgain ==
    ASSUME TypeOK, UploadInv, SendBegins
    PROVE  Safe!SendAgain \/ MapKept
<1> DEFINE me == ItemOf(file)
<1>1. /\ UNCHANGED <<collected, local, torn>> /\ pc = "send"
      /\ remote' = remote \ {SentAs(file)}
  BY DEF SendBegins, Goto, phoneVars
<1>2. me \in Items /\ me \in OnPhone
  BY <1>1, SourceOnPhone
<1>3. file \in Names
  BY <1>1, AtHand DEF UploadInv
<1>4. Given' = Given /\ OnPhone' = OnPhone
  BY <1>1 DEF Given, OnPhone
<1>5. ASSUME NEW i \in Items, i # me
      PROVE  i \in OnServer' <=> i \in OnServer
  BY <1>1, <1>3, <1>5, NameSent, NameOfItem DEF OnServer
<1>6. OnServer' \in {OnServer, OnServer \ {me}}
  BY <1>1, <1>5 DEF OnServer
<1> QED
  BY <1>2, <1>4, <1>6 DEF Safe!SendAgain, MapKept

LEMMA SendEndsArrives ==
    ASSUME TypeOK, UploadInv, SendEnds
    PROVE  Safe!Arrive \/ MapKept
<1> DEFINE me == ItemOf(file)
<1>1. /\ UNCHANGED <<collected, local, torn>> /\ pc = "sending"
      /\ remote' \in {remote, remote \cup {SentAs(file)}}
  BY DEF SendEnds, Goto, phoneVars
<1>2. me \in Items /\ me \in OnPhone
  BY <1>1, SourceOnPhone
<1>3. file \in Names
  BY <1>1, AtHand DEF UploadInv
<1>4. Given' = Given /\ OnPhone' = OnPhone
  BY <1>1 DEF Given, OnPhone
<1>5. OnServer' \in {OnServer, OnServer \cup {me}}
  <2>1. CASE remote' = remote
    BY <2>1 DEF OnServer
  <2>2. CASE remote' = remote \cup {SentAs(file)}
    <3>1. me \in OnServer'
      BY <1>2, <1>3, <2>2, NameHasItem DEF OnServer, SentAs
    <3>2. ASSUME NEW i \in Items, i # me
          PROVE  i \in OnServer' <=> i \in OnServer
      BY <1>3, <2>2, <3>2, NameSent, NameOfItem DEF OnServer
    <3>3. OnServer \subseteq OnServer'
      BY <2>2 DEF OnServer
    <3> QED
      BY <3>1, <3>2, <3>3 DEF OnServer
  <2> QED
    BY <1>1, <2>1, <2>2
<1> QED
  BY <1>2, <1>4, <1>5 DEF Safe!Arrive, MapKept

LEMMA DeletesRemoves ==
    ASSUME TypeOK, UploadInv, Deletes
    PROVE  Safe!Remove \/ MapKept
<1> DEFINE me == ItemOf(file)
<1>1. /\ UNCHANGED <<collected, remote>> /\ pc = "sent" /\ local' = local \ {file}
      /\ torn' = IF file = Zip(me) THEN torn \ {me} ELSE torn
  BY DEF Deletes, Goto
<1>2. file \in Names /\ me \in Items /\ SentAs(file) \in Names
  BY <1>1, AtHand DEF UploadInv
<1>3. Given' = Given /\ OnServer' = OnServer
  BY <1>1 DEF Given, OnServer
<1>4. ASSUME NEW i \in Items, i # me
      PROVE  i \in OnPhone' <=> i \in OnPhone
  BY <1>1, <1>2, <1>4, NameOfItem DEF OnPhone
<1>5. me \in OnPhone' => me \in OnPhone
  BY <1>1, <1>2 DEF OnPhone
<1>6. OnPhone' \in {OnPhone, OnPhone \ {me}}
  BY <1>4, <1>5 DEF OnPhone
<1>7. CASE me \in torn
  <2>1. file = Zip(me) /\ Plain(me) \in local
    BY <1>1, <1>7 DEF UploadInv, SendsWhole, TornHasPlain
  <2>2. Plain(me) \in local'
    BY <1>1, <1>2, <2>1, NamesDiffer
  <2>3. me \in OnPhone' /\ me \in OnPhone
    BY <1>2, <2>1, <2>2 DEF OnPhone
  <2> QED
    BY <1>3, <1>6, <2>3 DEF MapKept
<1>8. CASE me \notin torn
  <2>1. SentAs(file) \in remote
    BY <1>1, <1>8 DEF UploadInv, SentArrived
  <2>2. me \in OnServer
    BY <1>2, <2>1, NameHasItem DEF OnServer, SentAs
  <2> QED
    BY <1>3, <1>6, <2>2 DEF Safe!Remove, MapKept
<1> QED
  BY <1>7, <1>8

LEMMA StepMaps ==
    ASSUME TypeOK, UploadInv, [Next]_vars
    PROVE  [Safe!Next]_(Safe!vars)
<1>1. CASE \/ Start \/ FoldersDone \/ Connect \/ FolderDone \/ FTPFails \/ Dies
           \/ UNCHANGED vars
  BY <1>1, Untouched DEF Start, FoldersDone, Connect, FolderDone, FTPFails, Dies, vars,
     phoneVars, listVars, MapKept, Safe!vars
<1>2. CASE \E f \in Folders : NextFolder(f)
  BY <1>2, Untouched DEF NextFolder, MapKept, Safe!vars
<1>3. CASE \E n \in Names : NextFile(n)
  BY <1>3, Untouched DEF NextFile, phoneVars, MapKept, Safe!vars
<1>4. CASE \E f \in Folders : Collect(f)
  BY <1>4, CollectGives DEF Safe!Next
<1>5. CASE ZipOpens \/ ZipCloses \/ ZipDeletes \/ ZipFails
  BY <1>5, ZipStutters DEF MapKept, Safe!vars
<1>6. CASE SendBegins \/ SendEnds \/ Deletes
  BY <1>6, SendBeginsAgain, SendEndsArrives, DeletesRemoves DEF MapKept, Safe!vars, Safe!Next
<1> QED
  BY <1>1, <1>2, <1>3, <1>4, <1>5, <1>6 DEF Next, Step

LEMMA InitMaps ==
    ASSUME Init
    PROVE  Safe!Init
BY DEF Init, Safe!Init, Given, OnPhone, OnServer

\* IMAPUploader and PsmnUploader implement SafeUpload, whatever fails and
\* wherever the process dies.
THEOREM UploadsAreSafe == Spec => SafeUploads
<1>1. TypeOK /\ UploadInv /\ [Next]_vars => [Safe!Next]_(Safe!vars)
  BY StepMaps
<1> QED
  BY <1>1, InitMaps, TypeAndInv, PTL DEF Spec, SafeUploads, Safe!Spec

\* No collected file is ever lost: it follows from the abstract specification
\* alone.
THEOREM NothingIsLost == Spec => []NothingLost
<1>1. Safe!Init => NothingLost
  BY DEF Safe!Init, NothingLost, Safe!NothingLost
<1>2. NothingLost /\ [Safe!Next]_(Safe!vars) => NothingLost'
  BY DEF NothingLost, Safe!NothingLost, Safe!Next, Safe!vars, Safe!Give, Safe!Arrive,
     Safe!SendAgain, Safe!Remove
<1> QED
  BY <1>1, <1>2, UploadsAreSafe, PTL DEF SafeUploads, Safe!Spec

(***************************************************************************)
(* How often a file is sent.                                               *)
(***************************************************************************)

Allowed(i) == IF Zipped(i) THEN 2 ELSE 1

\* The sends that the names on the phone are still good for: the file itself is
\* sent as its zip, which then stays and is sent once more.
Rest(i) == (IF Plain(i) \in local THEN Allowed(i) ELSE 0) + (IF Zip(i) \in local THEN 1 ELSE 0)

\* The same, the file at hand considered: the zip that is being made takes the
\* place of what was there before, and a send that has begun is not to come.
AtHandOf(i, places) == pc \in places /\ ItemOf(file) = i
Left(i) ==
    IF AtHandOf(i, {"zipping", "zipped"}) THEN 2
    ELSE IF AtHandOf(i, {"send", "sending", "sent"}) /\ Zipped(i) /\ file = Plain(i)
         THEN IF pc = "send" THEN 2 ELSE 1
    ELSE IF AtHandOf(i, {"sending", "sent"}) THEN Rest(i) - 1
    ELSE Rest(i)

Uncollected ==
    \A i \in Items : FolderOf[i] \notin collected =>
        Plain(i) \notin local /\ Zip(i) \notin local /\ sends[i] = 0
ZipsOfZipped == \A i \in Items : Zip(i) \in local => Zipped(i)
PlainReplaced ==
    pc \in {"send", "sending", "sent"} /\ Zipped(ItemOf(file)) /\ file = Plain(ItemOf(file))
        => file \notin local
SendsBounded == \A i \in Items : sends[i] + Left(i) <= Allowed(i) + interrupts

SendsInv == Uncollected /\ ZipsOfZipped /\ PlainReplaced /\ SendsBounded

LEMMA RestType ==
    ASSUME NEW i \in Items
    PROVE  /\ Allowed(i) \in {1, 2} /\ Allowed(i)' = Allowed(i)
           /\ Rest(i) \in 0 .. 3 /\ Rest(i)' \in 0 .. 3
BY DEF Rest, Allowed, Zipped

\* Away from the file at hand, and before its zip is begun, only the names count.
LEMMA LeftElsewhere ==
    ASSUME NEW i \in Items
    PROVE  /\ pc \in {"idle", "folder", "connect", "file", "zip"} \/ ItemOf(file) # i
                  => Left(i) = Rest(i)
           /\ pc = "send" /\ file # Plain(i) => Left(i) = Rest(i)
           /\ pc = "send" /\ ~Zipped(i) => Left(i) = Rest(i)
BY DEF Left, AtHandOf

\* An interruption leaves at most one send more to come.
LEMMA LeftType ==
    ASSUME TypeOK, UploadInv, PlainReplaced, NEW i \in Items
    PROVE  Left(i) \in Int /\ Rest(i) <= Left(i) + 1
<1>1. Rest(i) \in 0 .. 3
  BY RestType
<1>2. CASE AtHandOf(i, {"send", "sending", "sent"}) /\ Zipped(i) /\ file = Plain(i)
  <2>1. Rest(i) <= 1
    BY <1>2 DEF Rest, PlainReplaced, AtHandOf
  <2>2. Left(i) \in {1, 2}
    BY <1>2 DEF Left, AtHandOf
  <2> QED BY <1>1, <2>1, <2>2
<1>3. CASE ~(AtHandOf(i, {"send", "sending", "sent"}) /\ Zipped(i) /\ file = Plain(i))
  <2>1. Left(i) \in {Rest(i), Rest(i) - 1} \/ Left(i) = 2
    BY <1>3 DEF Left
  <2> QED BY <1>1, <2>1
<1> QED BY <1>2, <1>3

\* A step that sends nothing keeps the bound if it leaves no more sends to come,
\* or is an interruption and leaves one more.
LEMMA BoundKept ==
    ASSUME TypeOK, UploadInv, PlainReplaced, SendsBounded, NEW i \in Items,
           sends'[i] = sends[i], Left(i)' \in Int,
           \/ Left(i)' <= Left(i) /\ interrupts' = interrupts
           \/ Left(i)' <= Left(i) + 1 /\ interrupts' = interrupts + 1
    PROVE  sends'[i] + Left(i)' <= Allowed(i)' + interrupts'
<1>1. /\ sends[i] \in Nat /\ interrupts \in Nat /\ Left(i) \in Int
      /\ Allowed(i) \in {1, 2} /\ Allowed(i)' = Allowed(i)
  BY RestType, LeftType DEF TypeOK
<1>2. sends[i] + Left(i) <= Allowed(i) + interrupts
  BY DEF SendsBounded
<1> QED BY <1>1, <1>2

LEMMA PlainReplacedStep ==
    ASSUME TypeOK, UploadInv, Uncollected, PlainReplaced, [Next]_vars
    PROVE  PlainReplaced'
<1>1. CASE pc' \notin {"send", "sending", "sent"}
  BY <1>1 DEF PlainReplaced
<1>2. ASSUME NEW n \in Names, NextFile(n)
      PROVE  PlainReplaced'
  BY <1>2 DEF NextFile, PlainReplaced, Zipped
<1>3. CASE ZipDeletes
  BY <1>3 DEF ZipDeletes, Goto, PlainReplaced, listVars
<1>4. CASE SendBegins \/ SendEnds
  BY <1>4 DEF SendBegins, SendEnds, Goto, PlainReplaced, listVars, phoneVars, Zipped
<1>5. ASSUME NEW f \in Folders, Collect(f), pc \in {"send", "sending", "sent"}
      PROVE  PlainReplaced'
  <2>1. UNCHANGED <<pc, file>> /\ local' = local \cup {Plain(j) : j \in {k \in Items : FolderOf[k] = f}}
    BY <1>5 DEF Collect, listVars
  <2>2. SentAs(file) \in local /\ ItemOf(file) \in Items /\ file \in Names
    BY <1>5, AtHand DEF UploadInv, SendsWhole
  <2>3. SentAs(file) \in {Plain(ItemOf(file)), Zip(ItemOf(file))}
    BY <2>2, NameHasItem DEF SentAs
  <2>4. FolderOf[ItemOf(file)] # f
    BY <1>5, <2>2, <2>3 DEF Uncollected, Collect
  <2>5. \A k \in Items : FolderOf[k] = f => file # Plain(k)
    BY <2>4, NameOfItem
  <2> QED BY <2>1, <2>5 DEF PlainReplaced, Zipped
<1>6. CASE UNCHANGED vars
  BY <1>6 DEF vars, listVars, phoneVars, PlainReplaced, Zipped
<1> QED
  BY <1>1, <1>2, <1>3, <1>4, <1>5, <1>6 DEF Next, Step, Start, FoldersDone, Connect,
     FolderDone, NextFolder, ZipOpens, ZipCloses, Deletes, ZipFails, FTPFails, Dies,
     Leaves, Goto, Collect

\* Names appear only by Collect, with the folder, and by ZipOpens, next to the file.
LEMMA NamesStep ==
    ASSUME TypeOK, UploadInv, Uncollected, ZipsOfZipped, [Next]_vars
    PROVE  Uncollected' /\ ZipsOfZipped'
<1>1. ASSUME NEW f \in Folders, Collect(f)
      PROVE  Uncollected' /\ ZipsOfZipped'
  <2>1. /\ collected' = collected \cup {f} /\ sends' = sends
        /\ local' = local \cup {Plain(j) : j \in {k \in Items : FolderOf[k] = f}}
    BY <1>1 DEF Collect
  <2>2. \A i \in Items : Zip(i) \in local' => Zip(i) \in local
    BY <2>1, NamesDiffer
  <2>3. \A i \in Items : FolderOf[i] # f /\ Plain(i) \in local' => Plain(i) \in local
    BY <2>1, NamesDiffer
  <2> QED BY <2>1, <2>2, <2>3 DEF Uncollected, ZipsOfZipped, Zipped
<1>2. CASE ZipOpens
  <2>1. /\ UNCHANGED <<collected, sends>> /\ local' = local \cup {Zip(ItemOf(file))}
        /\ ItemOf(file) \in Items /\ Zipped(ItemOf(file)) /\ Plain(ItemOf(file)) \in local
    BY <1>2, AtHand DEF ZipOpens, Goto, UploadInv, ZipsPlain
  <2>2. \A i \in Items : Plain(i) \in local' => Plain(i) \in local
    BY <2>1, NamesDiffer
  <2>3. \A i \in Items : Zip(i) \in local' => Zip(i) \in local \/ i = ItemOf(file)
    BY <2>1, NamesDiffer
  <2> QED BY <2>1, <2>2, <2>3 DEF Uncollected, ZipsOfZipped, Zipped
<1>3. CASE SendBegins
  <2>1. /\ UNCHANGED <<collected, local>> /\ sends' = [sends EXCEPT ![ItemOf(file)] = @ + 1]
        /\ SentAs(file) \in local /\ ItemOf(file) \in Items /\ file \in Names
    BY <1>3, AtHand DEF SendBegins, Goto, phoneVars, UploadInv, SendsWhole
  <2>2. SentAs(file) \in {Plain(ItemOf(file)), Zip(ItemOf(file))}
    BY <2>1, NameHasItem DEF SentAs
  <2>3. FolderOf[ItemOf(file)] \in collected
    BY <2>1, <2>2 DEF Uncollected
  <2> QED BY <2>1, <2>3 DEF Uncollected, ZipsOfZipped, TypeOK, Zipped
<1>4. CASE local' \subseteq local /\ UNCHANGED <<collected, sends>>
  BY <1>4 DEF Uncollected, ZipsOfZipped, Zipped
<1> QED
  BY <1>1, <1>2, <1>3, <1>4 DEF Next, Step, Start, FoldersDone, Connect, FolderDone,
     NextFolder, NextFile, ZipCloses, ZipDeletes, SendEnds, Deletes, ZipFails, FTPFails,
     Dies, vars, listVars, phoneVars

LEMMA LeftInt ==
    ASSUME NEW i \in Items
    PROVE  Left(i) \in Int /\ Left(i)' \in Int
BY RestType DEF Left

\* The steps of a file: what is sent was to come.
LEMMA SendBeginsBound ==
    ASSUME TypeOK, UploadInv, SendsInv, NEW i \in Items, SendBegins
    PROVE  sends'[i] + Left(i)' <= Allowed(i)' + interrupts'
<1>1. /\ pc = "send" /\ pc' = "sending" /\ UNCHANGED <<file, local, interrupts>>
      /\ sends' = [sends EXCEPT ![ItemOf(file)] = @ + 1]
      /\ file \in Names /\ ItemOf(file) \in Items
  BY AtHand DEF SendBegins, Goto, listVars, phoneVars, UploadInv
<1>2. Rest(i)' = Rest(i) /\ Allowed(i)' = Allowed(i)
  BY <1>1 DEF Rest, Allowed, Zipped
<1>3. CASE i = ItemOf(file)
  <2>1. Left(i)' = Left(i) - 1
    BY <1>1, <1>2, <1>3, RestType DEF Left, AtHandOf, Zipped
  <2>2. sends'[i] = sends[i] + 1 /\ sends[i] \in Nat /\ interrupts \in Nat
    BY <1>1, <1>3 DEF TypeOK
  <2>3. sends[i] + Left(i) <= Allowed(i) + interrupts
    BY DEF SendsInv, SendsBounded
  <2>4. Left(i) \in Int /\ Left(i)' \in Int /\ Allowed(i) \in {1, 2}
    BY LeftInt, RestType
  <2> QED BY <1>1, <1>2, <2>1, <2>2, <2>3, <2>4
<1>4. CASE i # ItemOf(file)
  <2>1. Left(i)' = Left(i) /\ sends'[i] = sends[i]
    BY <1>1, <1>2, <1>4 DEF Left, AtHandOf, TypeOK
  <2> QED BY <1>1, <2>1, LeftInt, BoundKept DEF SendsInv
<1> QED BY <1>3, <1>4

\* Only what the phone still has is good for a send.
LEMMA DeletesBound ==
    ASSUME TypeOK, UploadInv, SendsInv, NEW i \in Items, Deletes
    PROVE  Left(i)' <= Left(i)
<1>1. /\ pc = "sent" /\ pc' = "file" /\ local' = local \ {file}
      /\ file \in Names /\ ItemOf(file) \in Items /\ SentAs(file) \in local
      /\ file = Plain(ItemOf(file)) \/ file = Zip(ItemOf(file))
  BY AtHand, NameHasItem DEF Deletes, Goto, UploadInv, SendsWhole
<1>2. Left(i)' = Rest(i)'
  BY <1>1 DEF Left, AtHandOf
<1>3. Rest(i)' <= Rest(i) /\ Rest(i) \in 0 .. 3 /\ Rest(i)' \in 0 .. 3
  BY <1>1, RestType DEF Rest, Allowed, Zipped
<1>4. CASE i # ItemOf(file)
  BY <1>2, <1>3, <1>4 DEF Left, AtHandOf
<1>5. CASE i = ItemOf(file) /\ Zipped(i) /\ file = Plain(i)
  <2>1. Plain(i) \notin local'
    BY <1>1, <1>5
  <2>2. Rest(i)' <= 1
    BY <2>1 DEF Rest
  <2> QED BY <1>1, <1>2, <1>5, <2>2 DEF Left, AtHandOf
<1>6. CASE i = ItemOf(file) /\ ~(Zipped(i) /\ file = Plain(i))
  <2>1. Left(i) = Rest(i) - 1
    BY <1>1, <1>6 DEF Left, AtHandOf
  <2>2. file \in local /\ file \notin local'
    BY <1>1, <1>6 DEF SentAs
  <2>3. CASE file = Plain(i)
    <3>1. (Zip(i) \in local') = (Zip(i) \in local)
      BY <1>1, <2>3, NamesDiffer
    <3> QED BY <1>2, <1>3, <2>1, <2>2, <2>3, <3>1 DEF Rest, Allowed, Zipped
  <2>4. CASE file = Zip(i)
    <3>1. (Plain(i) \in local') = (Plain(i) \in local)
      BY <1>1, <2>4, NamesDiffer
    <3> QED BY <1>2, <1>3, <2>1, <2>2, <2>4, <3>1 DEF Rest, Allowed, Zipped
  <2> QED BY <1>1, <1>6, <2>3, <2>4
<1> QED BY <1>4, <1>5, <1>6

\* A zip in the making takes the place of what was there of the file.
LEMMA ZipsBound ==
    ASSUME TypeOK, UploadInv, SendsInv, NEW i \in Items, ZipOpens \/ ZipCloses \/ ZipDeletes
    PROVE  Left(i)' <= Left(i)
<1>1. /\ file \in Names /\ ItemOf(file) \in Items /\ UNCHANGED file
      /\ file = Plain(ItemOf(file)) /\ file \in local /\ Zipped(ItemOf(file))
  BY AtHand DEF ZipOpens, ZipCloses, ZipDeletes, Goto, listVars, UploadInv, ZipsPlain
<1>2. CASE i = ItemOf(file)
  <2>1. CASE ZipOpens
    <3>1. Left(i) = Rest(i) /\ Rest(i) >= 2
      BY <1>1, <1>2, <2>1, RestType DEF ZipOpens, Goto, Left, AtHandOf, Rest, Allowed
    <3>2. Left(i)' = 2
      BY <1>1, <1>2, <2>1 DEF ZipOpens, Goto, Left, AtHandOf
    <3> QED BY <3>1, <3>2, RestType
  <2>2. CASE ZipCloses \/ ZipDeletes
    BY <1>1, <1>2, <2>2 DEF ZipCloses, ZipDeletes, Goto, Left, AtHandOf, Zipped
  <2> QED BY <2>1, <2>2
<1>3. CASE i # ItemOf(file)
  <2>1. (Plain(i) \in local') = (Plain(i) \in local) /\ (Zip(i) \in local') = (Zip(i) \in local)
    BY <1>1, <1>3, NamesDiffer DEF ZipOpens, ZipCloses, ZipDeletes
  <2>2. Rest(i)' = Rest(i)
    BY <2>1 DEF Rest, Allowed, Zipped
  <2> QED BY <1>1, <1>3, <2>2, RestType DEF Left, AtHandOf
<1> QED BY <1>2, <1>3

\* An interruption leaves the names, and one send more to come at most.
LEMMA InterruptedBound ==
    ASSUME TypeOK, UploadInv, SendsInv, NEW i \in Items, ZipFails \/ FTPFails \/ Dies
    PROVE  Left(i)' <= Left(i) + 1 /\ interrupts' = interrupts + 1 /\ sends' = sends
<1>1. /\ interrupts' = interrupts + 1 /\ sends' = sends /\ local' \subseteq local
      /\ pc' \in {"idle", "folder"}
  BY DEF ZipFails, FTPFails, Dies, Interrupted, Leaves, phoneVars
<1>2. Left(i)' = Rest(i)'
  BY <1>1 DEF Left, AtHandOf
<1>3. Rest(i)' <= Rest(i)
  BY <1>1, RestType DEF Rest, Allowed, Zipped
<1>4. Left(i) \in Int /\ Rest(i) <= Left(i) + 1 /\ Rest(i) \in 0 .. 3 /\ Rest(i)' \in 0 .. 3
  BY LeftType, RestType DEF SendsInv
<1> QED BY <1>1, <1>2, <1>3, <1>4

\* A folder is collected once: its files were not there before.
LEMMA CollectBound ==
    ASSUME TypeOK, UploadInv, SendsInv, NEW i \in Items, NEW f \in Folders, Collect(f)
    PROVE  sends'[i] + Left(i)' <= Allowed(i)' + interrupts'
<1>1. /\ UNCHANGED <<pc, file, sends, interrupts>> /\ f \notin collected
      /\ local' = local \cup {Plain(j) : j \in {k \in Items : FolderOf[k] = f}}
  BY DEF Collect, listVars
<1>2. (Zip(i) \in local') = (Zip(i) \in local)
  BY <1>1, NamesDiffer
<1>3. CASE FolderOf[i] # f
  <2>1. (Plain(i) \in local') = (Plain(i) \in local)
    BY <1>1, <1>3, NamesDiffer
  <2>2. Rest(i)' = Rest(i)
    BY <1>2, <2>1 DEF Rest, Allowed, Zipped
  <2>3. Left(i)' = Left(i) /\ sends'[i] = sends[i]
    BY <1>1, <2>2 DEF Left, AtHandOf, Zipped
  <2> QED BY <1>1, <2>3, LeftInt, BoundKept DEF SendsInv
<1>4. CASE FolderOf[i] = f
  <2>1. Plain(i) \notin local /\ Zip(i) \notin local /\ sends[i] = 0
    BY <1>1, <1>4 DEF SendsInv, Uncollected
  <2>2. ~AtHandOf(i, {"zipping", "zipped", "send", "sending", "sent"})
    <3>1. SUFFICES ASSUME AtHandOf(i, {"zipping", "zipped", "send", "sending", "sent"})
                   PROVE  FALSE
      OBVIOUS
    <3>2. Plain(i) \in local \/ Zip(i) \in local
      BY <3>1, AtHand, NameHasItem DEF AtHandOf, UploadInv, ZipsPlain, SendsWhole, SentAs
    <3> QED BY <2>1, <3>2
  <2>3. Left(i)' = Rest(i)' /\ Rest(i)' <= Allowed(i)
    BY <1>1, <1>2, <2>1, <2>2, RestType DEF Left, AtHandOf, Rest, Allowed, Zipped
  <2>4. sends'[i] = 0 /\ interrupts' \in Nat /\ Allowed(i)' = Allowed(i) /\ Allowed(i) \in {1, 2}
    BY <1>1, <2>1, RestType DEF TypeOK
  <2> QED BY <2>3, <2>4, RestType
<1> QED BY <1>3, <1>4

LEMMA SendsStep ==
    ASSUME TypeOK, UploadInv, SendsInv, [Next]_vars
    PROVE  SendsInv'
<1>1. Uncollected' /\ ZipsOfZipped' /\ PlainReplaced'
  BY NamesStep, PlainReplacedStep DEF SendsInv
<1>2. ASSUME NEW i \in Items PROVE sends'[i] + Left(i)' <= Allowed(i)' + interrupts'
  <2>1. CASE SendBegins
    BY <2>1, SendBeginsBound
  <2>2. ASSUME NEW f \in Folders, Collect(f)
        PROVE  sends'[i] + Left(i)' <= Allowed(i)' + interrupts'
    BY <2>2, CollectBound
  <2>3. CASE ZipFails \/ FTPFails \/ Dies
    <3>1. Left(i)' <= Left(i) + 1 /\ interrupts' = interrupts + 1 /\ sends' = sends
      BY <2>3, InterruptedBound
    <3> QED BY <3>1, LeftInt, BoundKept DEF SendsInv
  <2>4. CASE ZipOpens \/ ZipCloses \/ ZipDeletes \/ Deletes
    <3>1. Left(i)' <= Left(i)
      BY <2>4, ZipsBound, DeletesBound
    <3>2. sends' = sends /\ interrupts' = interrupts
      BY <2>4 DEF ZipOpens, ZipCloses, ZipDeletes, Deletes
    <3> QED BY <3>1, <3>2, LeftInt, BoundKept DEF SendsInv
  <2>5. ASSUME Left(i)' = Left(i), sends' = sends, interrupts' = interrupts
        PROVE  sends'[i] + Left(i)' <= Allowed(i)' + interrupts'
    BY <2>5, LeftInt, BoundKept DEF SendsInv
  <2>6. CASE Start \/ FoldersDone \/ Connect \/ FolderDone \/ \E f \in Folders : NextFolder(f)
    <3>1. /\ UNCHANGED <<local, sends, interrupts>>
          /\ {pc, pc'} \subseteq {"idle", "folder", "connect", "file"}
      BY <2>6 DEF Start, FoldersDone, Connect, FolderDone, NextFolder, Goto, phoneVars
    <3>2. Left(i) = Rest(i) /\ Left(i)' = Rest(i)'
      BY <3>1 DEF Left, AtHandOf
    <3>3. Rest(i)' = Rest(i)
      BY <3>1 DEF Rest, Allowed, Zipped
    <3> QED BY <2>5, <3>1, <3>2, <3>3
  <2>7. CASE \E n \in Names : NextFile(n)
    <3>1. PICK n \in Names : NextFile(n)
      BY <2>7
    <3>2. /\ UNCHANGED <<local, sends, interrupts>> /\ file' = n /\ pc = "file"
          /\ pc' = IF Zipped(ItemOf(n)) /\ n = Plain(ItemOf(n)) THEN "zip" ELSE "send"
      BY <3>1 DEF NextFile, phoneVars
    <3>3. Left(i) = Rest(i) /\ Left(i)' = Rest(i)'
      BY <3>2 DEF Left, AtHandOf, Zipped
    <3>4. Rest(i)' = Rest(i)
      BY <3>2 DEF Rest, Allowed, Zipped
    <3> QED BY <2>5, <3>2, <3>3, <3>4
  <2>8. CASE SendEnds
    <3>1. /\ UNCHANGED <<local, file, sends, interrupts>> /\ pc = "sending" /\ pc' = "sent"
      BY <2>8 DEF SendEnds, Goto, listVars, phoneVars
    <3>2. Rest(i)' = Rest(i)
      BY <3>1 DEF Rest, Allowed, Zipped
    <3>3. Left(i)' = Left(i)
      BY <3>1, <3>2 DEF Left, AtHandOf, Zipped
    <3> QED BY <2>5, <3>1, <3>3
  <2>9. CASE UNCHANGED vars
    <3>1. UNCHANGED <<pc, file, local, sends, interrupts>>
      BY <2>9 DEF vars, listVars, phoneVars
    <3>2. Left(i)' = Left(i)
      BY <3>1 DEF Left, AtHandOf, Rest, Allowed, Zipped
    <3> QED BY <2>5, <3>1, <3>2
  <2> QED
    BY <2>1, <2>2, <2>3, <2>4, <2>6, <2>7, <2>8, <2>9 DEF Next, Step
<1> QED BY <1>1, <1>2 DEF SendsInv, SendsBounded

\* What has been sent and not deleted is still on the phone.
LEMMA LeftNat ==
    ASSUME TypeOK, UploadInv, SendsInv, NEW i \in Items
    PROVE  Left(i) >= 0
<1>1. CASE AtHandOf(i, {"sending", "sent"}) /\ ~(Zipped(i) /\ file = Plain(i))
  <2>1. SentAs(file) \in local /\ file \in Names /\ ItemOf(file) = i
    BY <1>1, AtHand DEF AtHandOf, UploadInv, SendsWhole
  <2>2. Plain(i) \in local \/ Zip(i) \in local
    BY <2>1, NameHasItem DEF SentAs
  <2>3. Rest(i) >= 1 /\ Rest(i) \in 0 .. 3
    BY <2>2, RestType DEF Rest, Allowed
  <2>4. Left(i) = Rest(i) - 1
    BY <1>1 DEF Left, AtHandOf
  <2> QED BY <2>3, <2>4
<1>2. CASE ~(AtHandOf(i, {"sending", "sent"}) /\ ~(Zipped(i) /\ file = Plain(i)))
  <2>1. Left(i) \in {1, 2, Rest(i)}
    BY <1>2 DEF Left, AtHandOf
  <2> QED BY <2>1, RestType
<1> QED BY <1>1, <1>2

\* SentTwice: however often zip and FTP fail and the process dies, a file is sent
\* once (twice, if it is zipped) and once more for each of these at most.
THEOREM SentTwiceCorrect == Spec => []SentTwice
<1>1. Init => SendsInv
  <2>1. ASSUME Init, NEW i \in Items PROVE sends[i] + Left(i) <= Allowed(i) + interrupts
    <3>1. Left(i) = 0 /\ sends[i] = 0 /\ interrupts = 0
      BY <2>1 DEF Init, Left, AtHandOf, Rest
    <3> QED BY <3>1, RestType
  <2>2. Init => Uncollected /\ ZipsOfZipped /\ PlainReplaced
    BY DEF Init, Uncollected, ZipsOfZipped, PlainReplaced
  <2> QED BY <2>1, <2>2 DEF SendsInv, SendsBounded
<1>2. TypeOK /\ UploadInv /\ SendsInv /\ [Next]_vars => SendsInv'
  BY SendsStep
<1>3. TypeOK /\ UploadInv /\ SendsInv => SentTwice
  <2>1. ASSUME TypeOK, UploadInv, SendsInv, NEW i \in Items
        PROVE  sends[i] <= Allowed(i) + interrupts
    <3>1. Left(i) >= 0
      BY <2>1, LeftNat DEF SendsInv
    <3>2. sends[i] + Left(i) <= Allowed(i) + interrupts /\ sends[i] \in Nat /\ interrupts \in Nat
      BY <2>1 DEF SendsInv, SendsBounded, TypeOK
    <3>3. Left(i) \in Int /\ Allowed(i) \in {1, 2}
      BY LeftInt, RestType
    <3> QED BY <3>1, <3>2, <3>3
  <2> QED BY <2>1 DEF SentTwice, Allowed
<1> QED BY <1>1, <1>2, <1>3, TypeAndInv, PTL DEF Spec


(***************************************************************************)
(* An upload ends.                                                         *)
(***************************************************************************)

LEMMA NamesFinite == IsFiniteSet(Names) /\ Cardinality(Names) \in Nat
<1>1. IsFiniteSet({"plain", "zip"})
  <2>1. IsFiniteSet({"plain"})
    BY FS_Singleton
  <2>2. IsFiniteSet({"plain"} \cup {"zip"})
    BY <2>1, FS_AddElement
  <2>3. {"plain", "zip"} = {"plain"} \cup {"zip"}
    OBVIOUS
  <2> QED
    BY <2>2, <2>3
<1>2. IsFiniteSet(Names)
  BY <1>1, FinitenessAssumption, FS_Product DEF Names
<1> QED
  BY <1>2, FS_CardinalityType

\* What the steps left are made of.
LeftOK ==
    /\ TurnsLeft \in Nat /\ FoldersLeft \in Nat /\ NamesLeft \in Nat
    /\ IsFiniteSet(imapList) /\ IsFiniteSet(psmnList) /\ IsFiniteSet(list)
    /\ Cardinality(list) \in Nat /\ Cardinality(list) <= Cardinality(Names)

LEMMA LeftTypes == TypeOK => LeftOK
<1> SUFFICES ASSUME TypeOK PROVE LeftOK
  OBVIOUS
<1>1. IsFiniteSet(imapList) /\ IsFiniteSet(psmnList)
  BY FinitenessAssumption, FS_Subset DEF TypeOK
<1>2. IsFiniteSet(list) /\ Cardinality(list) <= Cardinality(Names)
  BY NamesFinite, FS_Subset DEF TypeOK
<1>3. /\ Cardinality(imapList) \in Nat /\ Cardinality(psmnList) \in Nat
      /\ Cardinality(list) \in Nat
  BY <1>1, <1>2, FS_CardinalityType
<1>4. NamesLeft \in Nat
  <2>1. pc \in PCs \ {"idle", "folder"} => PlaceLeft \in Nat
    BY DEF PlaceLeft, PCs
  <2> QED
    BY <1>3, <2>1 DEF NamesLeft, TypeOK
<1> QED
  BY <1>1, <1>2, <1>3, <1>4 DEF LeftOK, TurnsLeft, FoldersLeft

LEMMA LeftTypesNext == TypeOK' => LeftOK'
BY LeftTypes, PTL

\* What a product grows by with its second factor.
LEMMA TimesSum ==
    ASSUME NEW w \in Nat, NEW a \in Nat, NEW d \in Nat
    PROVE  w * (a + d) = w * a + w * d /\ w * a \in Nat /\ w * d \in Nat
OBVIOUS

\* The sum falls when one part of it does and those before it do not grow; a part
\* counted w times may fall by one though the last grows by less than w.
LEMMA SumFalls ==
    ASSUME NEW w \in Nat, NEW t1 \in Nat, NEW f1 \in Nat, NEW n1 \in Nat,
           NEW t2 \in Nat, NEW f2 \in Nat, NEW n2 \in Nat,
           t2 <= t1, f2 <= f1,
           \/ t2 < t1 /\ n2 <= n1
           \/ f2 = f1 - 1 /\ n2 < n1 + w
           \/ n2 < n1
    PROVE  t2 + w * f2 + n2 < t1 + w * f1 + n1
<1> DEFINE d == f1 - f2
<1>1. d \in Nat /\ f1 = f2 + d
  OBVIOUS
<1> HIDE DEF d
<1>2. w * (f2 + d) = w * f2 + w * d /\ w * f2 \in Nat /\ w * d \in Nat
  BY <1>1, TimesSum
<1> DEFINE p == w * f2
           q == w * d
<1>3. w * f1 = p + q /\ p \in Nat /\ q \in Nat
  BY <1>1, <1>2
<1>4. d = 1 => q = w
  OBVIOUS
<1> HIDE DEF p, q
<1>5. f2 = f1 - 1 => q = w
  BY <1>1, <1>4
<1>6. t2 + p + n2 < t1 + (p + q) + n1
  BY <1>3, <1>5
<1> QED
  BY <1>3, <1>6 DEF p

LEMMA LessLeft ==
    ASSUME TypeOK, TypeOK', TurnsLeft' <= TurnsLeft, FoldersLeft' <= FoldersLeft,
           \/ TurnsLeft' < TurnsLeft /\ NamesLeft' <= NamesLeft
           \/ FoldersLeft' = FoldersLeft - 1 /\ NamesLeft' < NamesLeft + StepsPerFolder
           \/ NamesLeft' < NamesLeft
    PROVE  StepsLeft' < StepsLeft
<1>1. /\ TurnsLeft \in Nat /\ FoldersLeft \in Nat /\ NamesLeft \in Nat
      /\ TurnsLeft' \in Nat /\ FoldersLeft' \in Nat /\ NamesLeft' \in Nat
      /\ StepsPerFolder \in Nat
  BY LeftTypes, LeftTypesNext, NamesFinite DEF LeftOK, StepsPerFolder
<1>2. StepsLeft = TurnsLeft + StepsPerFolder * FoldersLeft + NamesLeft
  BY DEF StepsLeft
<1>3. StepsLeft' = TurnsLeft' + StepsPerFolder * FoldersLeft' + NamesLeft'
  BY DEF StepsLeft, StepsPerFolder
<1>4. TurnsLeft' + StepsPerFolder * FoldersLeft' + NamesLeft'
        < TurnsLeft + StepsPerFolder * FoldersLeft + NamesLeft
  BY <1>1, SumFalls
<1> QED
  BY <1>2, <1>3, <1>4

\* At a place with a name or a list there are steps left, at the others none.
NamesLeftOK ==
    IF pc \in {"idle", "folder"} THEN NamesLeft = 0
    ELSE NamesLeft = 8 * Cardinality(list) + PlaceLeft /\ NamesLeft > 0

LEMMA NamesLeftIs == TypeOK => NamesLeftOK
<1> SUFFICES ASSUME TypeOK PROVE NamesLeftOK
  OBVIOUS
<1>1. pc \in PCs \ {"idle", "folder"} => PlaceLeft \in Nat /\ PlaceLeft > 0
  BY DEF PlaceLeft, PCs
<1> QED
  BY <1>1, LeftTypes DEF NamesLeftOK, NamesLeft, LeftOK, TypeOK

LEMMA NamesLeftIsNext == TypeOK' => NamesLeftOK'
BY NamesLeftIs, PTL

\* A step to the next place of the same name.
LEMMA PlaceShrinks ==
    ASSUME TypeOK, TypeOK',
           Connect \/ ZipOpens \/ ZipCloses \/ ZipDeletes \/ SendBegins \/ SendEnds \/ Deletes
    PROVE  StepsLeft' < StepsLeft
<1>1. UNCHANGED <<zipping, imapList, psmnList, list>>
  BY DEF Connect, ZipOpens, ZipCloses, ZipDeletes, SendBegins, SendEnds, Deletes, listVars
<1>2. /\ pc \in PCs \ {"idle", "folder"} /\ pc' \in PCs \ {"idle", "folder"}
      /\ PlaceLeft' < PlaceLeft /\ PlaceLeft \in Nat /\ PlaceLeft' \in Nat
  BY DEF Connect, ZipOpens, ZipCloses, ZipDeletes, SendBegins, SendEnds, Deletes, Goto,
         PlaceLeft, PCs
<1>3. TurnsLeft' = TurnsLeft /\ FoldersLeft' = FoldersLeft
  BY <1>1, <1>2 DEF TurnsLeft, FoldersLeft
<1>4. NamesLeft' < NamesLeft
  BY <1>1, <1>2, NamesLeftIs, NamesLeftIsNext, LeftTypes DEF NamesLeftOK, LeftOK
<1> QED
  BY <1>3, <1>4, LessLeft, LeftTypes, LeftTypesNext DEF LeftOK

\* The end of one uploadData.
LEMMA LeavesShrinks ==
    ASSUME TypeOK, TypeOK', Leaves, pc # "idle", UNCHANGED <<imapList, psmnList>>
    PROVE  StepsLeft' < StepsLeft
<1>1. TurnsLeft' < TurnsLeft
  BY DEF Leaves, TurnsLeft, TypeOK
<1>2. FoldersLeft' = FoldersLeft
  BY DEF FoldersLeft
<1>3. NamesLeft' = 0
  BY NamesLeftIsNext DEF NamesLeftOK, Leaves
<1> QED
  BY <1>1, <1>2, <1>3, LessLeft, LeftTypes, LeftTypesNext DEF LeftOK

LEMMA FolderShrinks ==
    ASSUME TypeOK, TypeOK', NEW f \in Folders, NextFolder(f)
    PROVE  StepsLeft' < StepsLeft
<1>1. TurnsLeft' = TurnsLeft
  BY DEF NextFolder, TurnsLeft
<1>2. FoldersLeft' = FoldersLeft - 1
  <2>1. CASE zipping
    <3>1. imapList' = imapList /\ psmnList' = psmnList \ {f} /\ f \in psmnList
      BY <2>1 DEF NextFolder, Waiting
    <3>2. Cardinality(psmnList \ {f}) = Cardinality(psmnList) - 1
      BY <3>1, LeftTypes, FS_RemoveElement DEF LeftOK
    <3> QED
      BY <3>1, <3>2, LeftTypes, FS_CardinalityType DEF LeftOK, FoldersLeft
  <2>2. CASE ~zipping
    <3>1. psmnList' = psmnList /\ imapList' = imapList \ {f} /\ f \in imapList
      BY <2>2 DEF NextFolder, Waiting
    <3>2. Cardinality(imapList \ {f}) = Cardinality(imapList) - 1
      BY <3>1, LeftTypes, FS_RemoveElement DEF LeftOK
    <3> QED
      BY <3>1, <3>2, LeftTypes, FS_CardinalityType DEF LeftOK, FoldersLeft
  <2> QED
    BY <2>1, <2>2
<1>3. NamesLeft' < StepsPerFolder /\ NamesLeft = 0 /\ StepsPerFolder \in Nat
  <2>1. NamesLeft = 0
    BY NamesLeftIs DEF NamesLeftOK, NextFolder
  <2>2. pc' \in {"folder", "connect"}
    BY DEF NextFolder
  <2>3. pc' = "connect" => PlaceLeft' = 2
    BY DEF PlaceLeft
  <2>4. NamesLeft' = 0 \/ NamesLeft' = 8 * Cardinality(list') + 2
    BY <2>2, <2>3, NamesLeftIsNext DEF NamesLeftOK
  <2> QED
    BY <2>1, <2>4, LeftTypesNext, NamesFinite DEF LeftOK, StepsPerFolder
<1> QED
  BY <1>1, <1>2, <1>3, LessLeft, LeftTypes, LeftTypesNext DEF LeftOK

\* Each step of an upload brings its end nearer, and a folder that is collected
\* meanwhile leaves it where it was.
LEMMA ShrinksStep ==
    ASSUME TypeOK, TypeOK', [Next]_vars, vars' # vars
    PROVE  IF collected' # collected THEN StepsLeft' = StepsLeft
           ELSE pc = "idle" \/ StepsLeft' < StepsLeft
<1>1. ASSUME NEW f \in Folders, Collect(f)
      PROVE  collected' # collected /\ StepsLeft' = StepsLeft
  <2>1. collected' # collected /\ UNCHANGED <<pc, zipping, imapList, psmnList, list>>
    BY <1>1 DEF Collect, listVars
  <2>2. TurnsLeft' = TurnsLeft /\ FoldersLeft' = FoldersLeft /\ NamesLeft' = NamesLeft
    BY <2>1 DEF TurnsLeft, FoldersLeft, NamesLeft, PlaceLeft
  <2> QED
    BY <2>1, <2>2 DEF StepsLeft, StepsPerFolder
<1>2. ASSUME ~ \E f \in Folders : Collect(f)
      PROVE  collected' = collected
  BY <1>2 DEF Next, Step, Start, FoldersDone, Connect, FolderDone, NextFolder, NextFile,
              ZipOpens, ZipCloses, ZipDeletes, SendBegins, SendEnds, Deletes, ZipFails,
              FTPFails, Dies, phoneVars, vars
<1>3. CASE Start
  BY <1>1, <1>2, <1>3 DEF Start, Goto
<1>4. CASE FoldersDone
  <2>1. TurnsLeft' < TurnsLeft /\ FoldersLeft' = FoldersLeft
    BY <1>4 DEF FoldersDone, TurnsLeft, FoldersLeft, TypeOK
  <2>2. NamesLeft' = 0
    BY <1>4, NamesLeftIsNext DEF NamesLeftOK, FoldersDone
  <2>3. StepsLeft' < StepsLeft
    BY <2>1, <2>2, LessLeft, LeftTypes, LeftTypesNext DEF LeftOK
  <2> QED
    BY <1>1, <1>2, <2>3
<1>5. CASE FolderDone
  <2>1. TurnsLeft' = TurnsLeft /\ FoldersLeft' = FoldersLeft
    BY <1>5 DEF FolderDone, Goto, TurnsLeft, FoldersLeft
  <2>2. NamesLeft' = 0 /\ NamesLeft > 0
    BY <1>5, NamesLeftIs, NamesLeftIsNext DEF NamesLeftOK, FolderDone, Goto
  <2>3. StepsLeft' < StepsLeft
    BY <2>1, <2>2, LessLeft, LeftTypes, LeftTypesNext DEF LeftOK
  <2> QED
    BY <1>1, <1>2, <2>3
<1>6. ASSUME NEW f \in Folders, NextFolder(f)
      PROVE  StepsLeft' < StepsLeft
  BY <1>6, FolderShrinks
<1>7. ASSUME NEW n \in Names, NextFile(n)
      PROVE  StepsLeft' < StepsLeft
  <2>1. /\ UNCHANGED <<zipping, imapList, psmnList>>
        /\ pc = "file" /\ pc' \in {"zip", "send"} /\ n \in list /\ list' = list \ {n}
    BY <1>7 DEF NextFile
  <2>2. TurnsLeft' = TurnsLeft /\ FoldersLeft' = FoldersLeft
    BY <2>1 DEF TurnsLeft, FoldersLeft
  <2>3. Cardinality(list') = Cardinality(list) - 1
    BY <2>1, LeftTypes, FS_RemoveElement DEF LeftOK
  <2>4. PlaceLeft = 1 /\ PlaceLeft' \in {4, 7}
    BY <2>1 DEF PlaceLeft
  <2>5. NamesLeft' < NamesLeft
    BY <2>1, <2>3, <2>4, NamesLeftIs, NamesLeftIsNext, LeftTypes DEF NamesLeftOK, LeftOK
  <2> QED
    BY <2>2, <2>5, LessLeft, LeftTypes, LeftTypesNext DEF LeftOK
<1>8. CASE Connect \/ ZipOpens \/ ZipCloses \/ ZipDeletes \/ SendBegins \/ SendEnds \/ Deletes
  BY <1>1, <1>2, <1>8, PlaceShrinks
<1>9. CASE ZipFails
  <2>1. StepsLeft' < StepsLeft
    BY <1>9, LeavesShrinks DEF ZipFails
  <2> QED
    BY <1>1, <1>2, <2>1
<1>10. CASE FTPFails
  <2>1. CASE Leaves
    <3>1. StepsLeft' < StepsLeft
      BY <1>10, <2>1, LeavesShrinks DEF FTPFails
    <3> QED
      BY <1>1, <1>2, <3>1
  <2>2. CASE pc' = "folder" /\ UNCHANGED zipping
    <3>1. TurnsLeft' = TurnsLeft /\ FoldersLeft' = FoldersLeft
      BY <1>10, <2>2 DEF FTPFails, TurnsLeft, FoldersLeft
    <3>2. NamesLeft' = 0 /\ NamesLeft > 0
      BY <1>10, <2>2, NamesLeftIs, NamesLeftIsNext DEF NamesLeftOK, FTPFails, TypeOK
    <3>3. StepsLeft' < StepsLeft
      BY <3>1, <3>2, LessLeft, LeftTypes, LeftTypesNext DEF LeftOK
    <3> QED
      BY <1>1, <1>2, <3>3
  <2> QED
    BY <1>10, <2>1, <2>2 DEF FTPFails
<1>11. CASE Dies
  <2>1. TurnsLeft' < TurnsLeft
    BY <1>11 DEF Dies, TurnsLeft
  <2>2. FoldersLeft' = 0
    BY <1>11, FS_EmptySet DEF Dies, FoldersLeft
  <2>3. NamesLeft' = 0
    BY <1>11, NamesLeftIsNext DEF NamesLeftOK, Dies
  <2>4. StepsLeft' < StepsLeft
    BY <2>1, <2>2, <2>3, LessLeft, LeftTypes, LeftTypesNext DEF LeftOK
  <2> QED
    BY <1>1, <1>2, <2>4
<1> QED
  BY <1>1, <1>2, <1>3, <1>4, <1>5, <1>6, <1>7, <1>8, <1>9, <1>10, <1>11 DEF Next, Step

\* What is left is a number, so that it cannot fall for ever.
THEOREM StepsLeftNat == Spec => [](StepsLeft \in Nat)
<1>1. TypeOK => StepsLeft \in Nat
  <2>1. ASSUME TypeOK
        PROVE  /\ TurnsLeft \in Nat /\ FoldersLeft \in Nat /\ NamesLeft \in Nat
               /\ StepsPerFolder \in Nat
    BY <2>1, LeftTypes, NamesFinite DEF LeftOK, StepsPerFolder
  <2>2. ASSUME TypeOK PROVE StepsPerFolder * FoldersLeft \in Nat
    BY <2>1, <2>2, TimesSum
  <2> QED
    BY <2>1, <2>2 DEF StepsLeft
<1> QED
  BY <1>1, TypeAndInv, PTL

\* UploadShrinks: an upload of any folders comes to its end, failing or not, and
\* however much is collected while it runs; the number of its steps is bounded
\* from its start by the folders it lists.
THEOREM UploadShrinksCorrect == Spec => UploadShrinks
<1>1. TypeOK /\ TypeOK' /\ [Next]_vars
        => [IF collected' # collected THEN StepsLeft' = StepsLeft
            ELSE pc = "idle" \/ StepsLeft' < StepsLeft]_vars
  BY ShrinksStep
<1> QED
  BY <1>1, TypeAndInv, PTL DEF Spec, UploadShrinks
===========================================================================
