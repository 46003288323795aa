---- MODULE MCUploader ----
(* Uploader with two folders of PassiveMonitoring, one of them with two     *)
(* files, and one of IMAP.                                                  *)
EXTENDS Uploader, TLC

CONSTANTS a, b, c, d

MCFolderOf == (a :> "psmn1") @@ (b :> "psmn1") @@ (c :> "psmn2") @@ (d :> "imap")
====
