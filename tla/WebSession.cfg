SPECIFICATION Spec
CONSTANTS
    Tabs = {t1, t2}
    Users = {u1, u2}
    AuthorizedUsers = {u1}
    Nobody = nobody
INVARIANTS
    TypeOK
    SessionWhole
    FreshAfterLogout
PROPERTIES
    OnlyCallbackLogsIn
