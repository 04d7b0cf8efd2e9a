SPECIFICATION Spec
CONSTANTS
    alice = alice  c1 = c1  c2 = c2  p1 = p1  p2 = p2  short = short  long = long
    Names = {alice}
    Passwords = {p1, p2, short, long}
    Length <- MCLength
    Clients <- MCClients
    TTL = 2
    MaxDelay = 1
    NoAccount = NoAccount
    NoToken = NoToken
    NoRequest = NoRequest
    MaxFaults <- MCFaults
    FaultMixes <- AnyMix
INVARIANTS
    TypeOK
    StaleRoleBounded
    OneOwner
PROPERTIES
    RevocationTakesEffect
