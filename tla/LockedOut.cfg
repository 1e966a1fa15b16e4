CONSTANTS
    User = {u1}
    Password = {p1, p2}
    NoPassword = NoPassword
    Thread = {t1}
    SaveMayFail = FALSE
SPECIFICATION ToldSpec
INVARIANT ReportedPasswordStays
