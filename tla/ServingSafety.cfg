CONSTANTS
    d1 = d1  d2 = d2  d3 = d3  d4 = d4  h1 = h1  h2 = h2
    Daemons = {d1, d2, d3, d4}
    Hosts = {h1, h2}
    Host <- MCHost
    Requests = {r1}
    Tokens = {t1, t2}
    None = None
    Junk = Junk
    Scenarios <- MCScenarios
SPECIFICATION FairSpec
INVARIANTS TypeOK WorkUnderLock LocalTokenWorks LiveTokenIsHeld
PROPERTY StopsOrServes
CHECK_DEADLOCK FALSE
