SPECIFICATION Spec
CONSTANTS
    Keys = {1,2,3}
    Num <- MCString
    Emails = {1, 2}
    Requests = {r1, r2}
    AdminEmail = 1
    AdminPw = 0
    DemoEmails = {2}
    MayFail = {2}
    MaxWrites = 1
    None = None
SYMMETRY MCSymmetry
INVARIANTS TypeOK LoginFollowsEntity DeletedStaysGone
PROPERTIES RestartRepairs
