SPECIFICATION FairSpec
CONSTANTS
    a = a
    b = b
    c = c
    d = d
    Items = {a, b, c, d}
    Folders = {"psmn1", "psmn2", "imap"}
    FolderOf <- MCFolderOf
    ZippedFolders = {"psmn1", "psmn2"}
    MaxInterrupts = 2
INVARIANTS
    TypeOK
    UploadInv
    NothingLost
    SentTwice
PROPERTIES
    SafeUploads
    UploadShrinks
    AllArrive
