CONSTANTS MaxAccount = 3 MaxSession = 2
 GroupClients = {c1, c2} ScopeLogins = {"x"} MaxMember = 2 MaxGroupRequest = 5
 RoleNames = {"a", "b", "p"} BuiltInRoles = {"p"} StatusRole <- MCStatusRole TheUser = "user" RoleClients = {c1, c2} MaxRoleOps = 3
 Boards <- MCBoards Reports = {} AttemptPenalty = 3 Minute = 1 Viewers = {v1, v2} CacheTime = 2
 MaxAttempt = 0 MaxClock = 4 MaxRead = 4
 TestSets <- MCTestSets ExitCodes = {0, 5, 6}
 RowKinds = {"a", "gone"} DefaultLimit = 1 MaxLimit = 2 Limits = {0, 3} MaxRow = 3
 ChannelSize = 2 MaxVisit = 3
SPECIFICATION MCSpec
INVARIANTS ServicesInv ReportIsExact PagesComplete
PROPERTIES LogoutEndsSessions RolesExact EveryoneIsServed
CHECK_DEADLOCK FALSE
