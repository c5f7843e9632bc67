\* Two files of at most two and one chunks, uploaded one after the other or at once.
SPECIFICATION FairUHSpec
CONSTANTS
    f1 = f1
    f2 = f2
    Files <- MCFiles
    Uploaders = {p1}
    NoFile = NoFile
    MaxLen <- MCMaxLen
    MaxPending = 2
INVARIANTS
    UploadTypeOK
    SuccessMeansIntact
    AnswerIsLast
PROPERTY UploadAnswered
