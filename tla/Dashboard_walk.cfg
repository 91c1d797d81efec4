SPECIFICATION Spec
CONSTANTS
    Leads = {l1, l2, l3, l4}
    Widgets = {w1, w2}
    All = All
    PageSize = 2
    Day = 2
    Offsets <- MCOffsets
    Days = 2
    Week = 1
    Horizon = 3
SYMMETRY Symmetry
INVARIANT TypeOK
INVARIANT EveryLeadShown
INVARIANT TotalIsKept
INVARIANT DaysAgree
CHECK_DEADLOCK FALSE
