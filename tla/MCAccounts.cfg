\* Two tabs: three Google identities with two addresses, a quota of two principals,
\* and one expiry, disabled account or lost answer.
CONSTANTS
    e1 = e1
    e2 = e2
    s1 = s1
    s2 = s2
    s3 = s3
    None = None
    Principal = {p1, p2, p3}
    Email = {e1, e2}
    Subject = {s1, s2, s3}
    EmailOf <- MCEmailOf
    Verified = {s1, s2, s3}
    Authoritative <- MCAuthoritative
    Session = {t1, t2}
    Nonce = {n1, n2}
    Request = {r1, r2}
    CreationLimit = 2
    MaxRequests = 4
    MaxEvents = 1
SPECIFICATION Spec
INVARIANTS
    
    OneOwner
PROPERTIES
    RevokedSettles
    UpgradeSettles
SYMMETRY Symmetry
CHECK_DEADLOCK FALSE
