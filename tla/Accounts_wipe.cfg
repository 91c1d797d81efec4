SPECIFICATION Spec
CONSTANTS
    Calls = {r1, r2}
    Seeds = {d1, d2, d3}
    Persons = {p1, p2}
    Boxes = {b1, demo}
    DemoBox = demo
    DemoPassword = DemoPassword
    NoAddress = NoAddress
    NoPassword = NoPassword
    NoCall = NoCall
SYMMETRY Symmetry
INVARIANT TypeOK
INVARIANT AuthenticatedAsSelf
INVARIANT OneOwnerPerBox
INVARIANT RegistrationsAgree
CHECK_DEADLOCK FALSE
