SPECIFICATION Spec
CONSTANTS
    Addrs = {v4, v6}
    Listeners = {l1, l2, l3, l4}
    Creds = {"a", "b"}
    Tokens = {t1}
    MaxDays = 2
    Clients = {c1, c2}
    Browsers = {b1}
    EventCap = 2
    StreamCap = 1
    MaxDay = 2
    KeptDays = 1
    Paths = {p1, p2}
    FirstPath = p1
    Budgets <- MCBudgets
PROPERTIES ComesUp
INVARIANTS
    StaysGuarded
    ConfigDurable
    NeverOvercounts
    StreamGapless
