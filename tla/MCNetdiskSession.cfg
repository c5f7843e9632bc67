\* Two users, two sockets, one login that waits, three questions open.
SPECIFICATION SHSpec
CONSTANTS
    Users = {u1, u2}
    Sockets = {s1, s2}
    NoName = NoName
    MaxUnread = 1
    MaxQuestions = 3
SYMMETRY Symmetry
INVARIANTS
    SessionTypeOK
    FlagTellsPresence
    EndedIsOver
