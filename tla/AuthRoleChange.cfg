SPECIFICATION Spec
CONSTANTS
    alice = alice  c1 = c1  c2 = c2  p1 = p1  p2 = p2  short = short  long = long
    Names = {alice}
    Passwords = {p1}
    Length <- OneLength
    Clients <- MCClients
    TTL = 2
    MaxDelay = 1
    NoAccount = NoAccount
    NoToken = NoToken
    NoRequest = NoRequest
    MaxFaults <- OnlyRoles
    FaultMixes <- AnyMix
PROPERTIES
    RoleIsCurrent
