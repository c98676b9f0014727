SPECIFICATION FairSpec
CONSTANTS
    c1 = c1
    c2 = c2
    c3 = c3
    p1 = p1
    p2 = p2
    m = m
    n = n
    a = a
    b = b
    NoCall = NoCall
    NoRecord = NoRecord
    Unbound = Unbound
    Calls <- MCCalls
    HostOf <- MCHosts
    Processes <- MCProcesses
    Names <- MCNames
    Components <- MCComponents
    Dirs <- MCDirs
INVARIANTS
    BindingsDisjoint
    MutationsDisjoint
    ProcessExclusive
PROPERTIES
    RegistrationAnswered
