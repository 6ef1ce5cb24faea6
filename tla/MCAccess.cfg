\* One thread, one user whose role changes and whose token lives a second.
CONSTANTS
    Workers = {w1}
    Users = {1}
    Characters = {"/", "a", "b"}
    Roles <- MCRoles
    DefaultRole <- User
    Requests <- MCRequests
    Starts <- MCStarts
    Pages <- MCPages
    GuardedPages <- MCGuardedPages
    Bad = Bad
    LoginRoute <- AB
    LoginPath <- MCLoginPath
    MaxTime = 2
    MaxTokens = 1
SPECIFICATION Spec
INVARIANTS
    RoutedToMostSpecific
    UpstreamPathRejoins
    RolesEnforced
    LimitMostSpecific
    TokensKeepClaims
PROPERTY RolesExpire
