\* Two administrators at work, four names, one group of one member for each role.
SPECIFICATION Spec
CONSTANTS
    w1 = w1
    w2 = w2
    n1 = n1
    n2 = n2
    n3 = n3
    n4 = n4
    Workers = {w1, w2}
    Names = {n1, n2, n3, n4}
    MaxGroups = 1
    Bootstrap = {n1}
    MaxSupers = 2
    DefaultQuota <- One
    Quotas <- Either
    Initial <- Some
    MaxEvents = 3
SYMMETRY Symmetry
INVARIANTS
    SuperRemains
    AccountsMatchRows
    QuotaOvershootIsBounded
    GroupsOfAccountsExist
CHECK_DEADLOCK FALSE
