CONSTANTS
    User = {u1, u2}
    Password = {p1}
    NoPassword = NoPassword
    Thread = {t1, t2}
    SaveMayFail = TRUE
SPECIFICATION Spec
SYMMETRY Symmetry
INVARIANTS
    TypeOK
    AdminsRemain
    ConfirmedIsSaved
