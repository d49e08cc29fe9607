SPECIFICATION Spec
CONSTANTS
    a1 = a1
    a2 = a2
    r1 = r1
    r2 = r2
    n1 = n1
    n2 = n2
    Authority = authority
    Address <- MCAddress
    Role <- MCRole
    Name <- MCName
    MaxTime = 3
SYMMETRY Interchangeable
INVARIANTS
    TypeOK
    RoleIndexExact
PROPERTIES
    RevocationIsFinal
CHECK_DEADLOCK FALSE
