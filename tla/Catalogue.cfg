\* Two plans of the promotion and another, two customers, two requests that
\* synchronise, three requests in all.  No deadlock check: they get used up.
SPECIFICATION Spec
CONSTANTS
    p1 = p1
    p2 = p2
    p3 = p3
    u1 = u1
    u2 = u2
    s1 = s1
    s2 = s2
    mtn = mtn
    airtel = airtel
    Plans = {p1, p2, p3}
    Networks = {mtn, airtel}
    NetworkOf <- MCNetworkOf
    Users = {u1, u2}
    Sessions = {s1, s2}
    Prices = {200}
    Margins <- MCMargins
    Low = 1
    Catalogued <- MCCatalogued
    PromoNetwork = mtn
    PromoPlans = {p1, p2}
    PromoPrice = 199
    PromoLimit = 1
    NoPlan = NoPlan
    Unset = Unset
    NoJob = NoJob
    MaxRequests = 3
SYMMETRY MCSymmetry
INVARIANTS
    PageAgreesWithTill
    PromoWithinLimit
PROPERTY
    AdminDecides
CHECK_DEADLOCK FALSE
