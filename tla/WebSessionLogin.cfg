SPECIFICATION Spec
CONSTANTS
    Tabs = {t1, t2}
    Users = {u1}
    AuthorizedUsers = {u1}
    Nobody = nobody
INVARIANTS
    FreshAfterLogin
