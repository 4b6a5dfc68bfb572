CONSTANTS Authors = {c1, c2} Builders = {b1, b2} Readers = {r1} Posters = {c1, c2}
 ContentOf <- MCContent FileKeys = {"rs"} MaxFile = 6 MaxBuild = 3 MaxRequest = 3 MaxFileFaults = 1
 PostNames = {"a", "b"} MaxPostRequest = 3 MaxAccount = 2 MaxSession = 1
 Clients = {c1, c2} Logins = {x, y} Emails = {"e", "f"} TokensLimit = 1 MaxUserRequest = 4 MaxMigrate = 3 MaxMigrateFaults = 1
SPECIFICATION MCSpec
INVARIANTS FilesAvailable ActiveEmailIsConfirmed UsersInv SchemaInv
PROPERTIES BuildIsWhole PostKeepsItsFiles
CHECK_DEADLOCK FALSE
SYMMETRY Sym
