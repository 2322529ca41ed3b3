SPECIFICATION MCSpec
CONSTANTS
    s1 = s1
    s2 = s2
    own = own
    m1 = m1
    m2 = m2
    None = none
    Slots = {s1, s2}
    Runs = {own, m1, m2}
    Requests = {p1, p2}
    Week = 3
    Release = 2
    Times = {0, 2}
    MaxNow = 2
    MaxChanges = 2
    a = a
    b = b
    web = web
    script = script
    Syncs = {p1, p2}
    Processes = {web, script}
    NoProcess = noprocess
    Picks = {k1}
    Raids = {a, b}
    Bosses = {1}
    Levels = {1, 2}
    MaxFailures = 1
    c1 = c1
    c2 = c2
    Players = {{c1, c2}}
    BossPlans = {every, split}
    Default = every
    Modes = {"PENDING", "QUIET", "SKIPPED"}
    NoItem = noitem
    MaxVersion = 4
SYMMETRY Symmetry
INVARIANTS TypeOK NoOrphan OneRunPerOccurrence PassLeavesNoGap
INVARIANTS ExclusiveSync NoLockLeaks  StartCheckReminds
INVARIANTS NoticesMatchRoster PlanIsHeard
PROPERTIES FollowsBoard StoredKillsStay 
PROPERTIES OneMessagePerWrite OldNewsNeedsARetry
CHECK_DEADLOCK FALSE
