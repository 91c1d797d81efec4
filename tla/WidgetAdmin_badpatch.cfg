SPECIFICATION Spec
CONSTANTS
    Calls = {r1, r2}
    Owners = {o1}
    Widgets = {w1}
    NoWidget = NoWidget
    NoOwner = NoOwner
    NoBody = NoBody
    Bodies <- MCBodies
INVARIANT BadPatchIsRefused
CHECK_DEADLOCK FALSE
