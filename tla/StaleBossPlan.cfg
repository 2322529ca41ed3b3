SPECIFICATION NoticeSpec
CONSTANTS
    Players = {{c1, c2}}
    BossPlans = {every, split}
    Default = every
    Modes = {"PENDING"}
    NoItem = noitem
    MaxVersion = 4
INVARIANTS BossPlanIsHeard
CHECK_DEADLOCK FALSE
