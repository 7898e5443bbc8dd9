SPECIFICATION admSpec
CONSTANTS
    t1 = t1  s1 = s1  s2 = s2  n1 = n1  f1 = f1  f2 = f2  v1 = v1  v2 = v2
    Requests = {r1, r2, r3}
    Fields = {f1, f2}
    Values = {v1, v2}
    Tenants = {t1}
    Secrets = {s1, s2}
    Names = {n1}
    EarlierSaves <- NothingOrAll
    Corrections <- OneField
    Saves <- PageSecretOrName
    Masked = Masked  FromEnv = FromEnv  Gone = Gone  Unset = Unset  None = None
    NTargets = 1
    MaxCrashes = 1
SYMMETRY RequestSymmetry
CHECK_DEADLOCK FALSE
INVARIANTS AuditMatches OIDCFollowsSettings KeysAccountedFor
PROPERTIES DeletedIsFinal
