CONSTANTS Users = {"u", "o"} GroupsOf <- MCGroupsOf AccountPermissions <- MCAccountPermissions
 Configs <- MCConfigs
 ProblemCodes = {"A", "B"} ContestClients = {c1, c2} QuotaAmount = 1 QuotaWindow = 1
 MaxTime = 5 MaxContestRequest = 3
 Boards <- MCBoards Reports <- MCReports AttemptPenalty = 3 Minute = 1 Viewers = {} CacheTime = 2
 MaxAttempt = 3 MaxClock = 4 MaxRead = 0
SPECIFICATION MCSpec
INVARIANTS SubmitIsUsable ContestInv FreezeHides BoardFollowsRules
PROPERTIES StartedKeepsTime
SYMMETRY ClientSymmetry
CHECK_DEADLOCK FALSE
