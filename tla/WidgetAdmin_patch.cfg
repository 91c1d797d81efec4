SPECIFICATION Spec
CONSTANTS
    Calls = {r1, r2, r3, r4}
    Owners = {o1, o2}
    Widgets = {w1}
    NoWidget = NoWidget
    NoOwner = NoOwner
    NoBody = NoBody
    Bodies <- MCBodies
SYMMETRY Symmetry
INVARIANT TypeOK
INVARIANT PatchesCompose
INVARIANT DeletedStaysDeleted
INVARIANT TenantsApart
CHECK_DEADLOCK FALSE
