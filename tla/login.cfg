CONSTANTS
    None = None
    admin = admin
    user = user
    t1 = t1
    t2 = t2
    t3 = t3
    Browsers = {admin, user}
    Tabs = {t1, t2, t3}
    BrowserOf <- TabOwners
    Admins = {admin}
    MaxRotations = 2
    MaxFaults = 1
SPECIFICATION FairSpec
INVARIANTS
    TypeOK
    OneFetchPerMinute
PROPERTIES
    LoneLoginSucceeds
    KeysSettle
