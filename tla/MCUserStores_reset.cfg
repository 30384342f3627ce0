SPECIFICATION Spec
CONSTANTS
    Keys = {1}
    Num <- MCNumeric
    Emails = {1}
    Requests = {r1}
    AdminEmail = None
    AdminPw = 2
    DemoEmails = {}
    MayFail = {}
    MaxWrites = 1
    None = None
PROPERTIES PasswordNeverGoesBack
