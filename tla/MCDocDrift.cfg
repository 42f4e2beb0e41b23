SPECIFICATION Spec
CONSTANTS
    Gone = Gone
    NoCommit = NoCommit
    Files <- MCFiles
    Docs <- MCDocs
    Checked <- MCChecked
    Changelogs <- MCChangelogs
    Ext <- MCExt
    Contents <- MCContents
    Texts <- MCTexts
    Bare <- MCBare
    AiClaims <- MCAiClaims
    Start <- MCStart
    MaxEdits = 3
INVARIANTS HookCatches DiffCatches PrbotExact 
