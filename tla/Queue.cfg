\* Three phones, two places in the queue and two items in the pool; the sequence
\* with two profiles, the list with items that pass their check_bond_flag on.
\* A queue nobody uses stands still: no deadlock is looked for.
CONSTANTS
    Addrs = {p1, p2, p3}
    Profs = {a2dp, hfp}
    ItemNum = 2
    MaxTime = 2
    MaxLoad = 2
    CheckValues = {FALSE}
    PoolProfs = {}
    PoolChecks = {TRUE}
SYMMETRY Phones
SPECIFICATION QueuesSpec
INVARIANTS
    AddressesUnique
    TimesRight
    PoolExact
PROPERTIES
    ImplementsTodoQueue
CHECK_DEADLOCK FALSE
