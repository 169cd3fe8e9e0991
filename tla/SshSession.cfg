CONSTANTS
    a1 = a1
    s1 = s1
    v1 = v1
    v2 = v2
    Sessions = {a1, s1}
    Attaches = {a1}
    Versions = {v1, v2}
    Version <- MCVersion
    Nothing = Nothing
    Broken = Broken
    AtFirst = {Nothing, v2}
SPECIFICATION FairSpec
INVARIANTS
    SshInv
    WholeUnlessCut
    ReadyHolds
    ListenerKeepsPath
    DeadSwept
    Released
PROPERTIES
    EndReleases
CHECK_DEADLOCK FALSE
