--------------------------------- MODULE Users ---------------------------------
(***************************************************************************)
(* Users (internal/api/users.go) and the tokens that confirm their email   *)
(* or reset their password (internal/api/tokens.go).                       *)
(*                                                                         *)
(* A request reads the user, from a cache that may lag, and writes the     *)
(* whole row later.  Names and passwords are not distinguished; logins     *)
(* and emails are those in lower case.  Who holds the secret of a token is *)
(* not modelled: any token that was mailed may be used.                    *)
(***************************************************************************)
EXTENDS Accounts

CONSTANTS
    Clients, Logins, Emails,
    TokensLimit,          \* emailTokensLimit and passwordTokensLimit
    MaxUserRequest        \* bound on requests

ASSUME UserAssumption ==
    {TokensLimit, MaxUserRequest} \subseteq Nat /\ IsFiniteSet(Clients) /\ Clients /= {}

VARIABLES
    smtp,                 \* whether mail is configured
    user,                 \* rows of users, by ID
    token,                \* rows: [id, account, kind, email, first, expired]
    tokens,               \* tokens created so far
    client, userRequests,
    confirmed,            \* pairs of a user and an email that a token has confirmed
    activated,            \* users that were made active by hand
    consumed,             \* how often a token took effect
    outrun                \* accounts and kinds of which a token expired before one with a lower ID

userVars == <<smtp, user, token, tokens, client, userRequests, confirmed, activated, consumed, outrun>>

NoUser == [login |-> "", status |-> "", email |-> ""]
NoUserRequest == [pc |-> "idle", op |-> "none", id |-> 0, row |-> NoUser, token |-> 0]

UserInit ==
    /\ smtp \in BOOLEAN /\ user = [i \in AccountIds |-> NoUser] /\ token = {} /\ tokens = 0
    /\ client = [c \in Clients |-> NoUserRequest] /\ userRequests = 0
    /\ confirmed = {} /\ activated = {} /\ consumed = [t \in 1..MaxUserRequest |-> 0]
    /\ outrun = {}

UserIds == {i \in AccountIds : user[i] /= NoUser}
ClientAt(c, v) == client' = [client EXCEPT ![c] = v]
Ends(c) == ClientAt(c, NoUserRequest)

--------------------------------------------------------------------------------
(* The first half of a request: what it reads and refuses *)

Reads(c, op, i, row, t) ==
    /\ client[c].pc = "idle" /\ userRequests < MaxUserRequest /\ userRequests' = userRequests + 1
    /\ ClientAt(c, [pc |-> "write", op |-> op, id |-> i, row |-> row, token |-> t])
    /\ UNCHANGED <<accountVars, smtp, outrun, user, token, tokens, confirmed, activated, consumed>>
ReadRegisterUser(c, login, email) ==
    /\ \A i \in UserIds : user[i].login /= login
    /\ Reads(c, "register", 0, [login |-> login, status |-> IF smtp THEN "pending" ELSE "active", email |-> email], 0)
ReadUpdateUser(c, i) == Reads(c, "update", i, user[i], 0)
ReadUpdateUserPassword(c, i) == Reads(c, "password", i, user[i], 0)
ReadUpdateUserStatus(c, i, status) == Reads(c, "status", i, [user[i] EXCEPT !.status = status], 0)

\* the newest tokens of the kind, as many as the limit, that have not expired
GetCountTokens(i, kind) ==
    LET rows == {t \in token : t.account = i /\ t.kind = kind}
        newest == {t \in rows : Cardinality({s \in rows : s.id > t.id}) < TokensLimit}
    IN  Cardinality({t \in newest : ~t.expired})
MayCreateOneMore(i, kind) == GetCountTokens(i, kind) <= TokensLimit
MayCreateToken(i, kind) == GetCountTokens(i, kind) < TokensLimit
ReadUpdateUserEmail(c, i, email) ==
    /\ email /= user[i].email
    /\ IF smtp THEN MayCreateToken(i, "email") /\ Reads(c, "email token", i, [user[i] EXCEPT !.email = email], 0)
               ELSE Reads(c, "email", i, [user[i] EXCEPT !.email = email], 0)
ReadResendUserEmail(c, i) ==
    /\ smtp /\ user[i].status = "pending" /\ MayCreateToken(i, "email")
    /\ Reads(c, "email token", i, user[i], 0)
ReadResetUserPassword(c, i) ==
    smtp /\ MayCreateToken(i, "password") /\ Reads(c, "password token", i, user[i], 0)
ConfirmedRowKeepsEmail(t) ==
    LET u == user[t.account] IN
    IF t.kind = "password" THEN u ELSE [u EXCEPT !.status = IF @ = "pending" THEN "active" ELSE @]
\* consumeToken: the row of the user with what the token stands for
ConfirmedRow(t) ==
    LET u == user[t.account] IN
    IF t.kind = "password" THEN u
    ELSE [u EXCEPT !.email = t.email, !.status = IF @ = "pending" THEN "active" ELSE @]
ReadConsumeToken(c, t) == t \in token /\ ~t.expired /\ Reads(c, "consume", t.account, ConfirmedRow(t), t.id)
\* userAuth, and the session of the cookie
ReadLoginAccount(c, i) == Reads(c, "login", i, user[i], 0)
ReadLogoutAccount(c, s) == Reads(c, "logout", s.account, NoUser, s.id)

--------------------------------------------------------------------------------
(* The second half: the transaction *)

Writes(c, op) == client[c].pc = "write" /\ client[c].op = op
\* logins and emails are unique
UserAllowedTwice(i, row) == TRUE
UserAllowed(i, row) == \A j \in UserIds \ {i} : user[j].login /= row.login /\ user[j].email /= row.email
NewToken(i, kind, email, first) ==
    [id |-> tokens + 1, account |-> i, kind |-> kind, email |-> email, first |-> first, expired |-> FALSE]
\* mail is sent after the transaction
RegisterUser(c) ==
    LET row == client[c].row IN
    /\ Writes(c, "register") /\ UserAllowed(0, row)
    /\ CreateAccount("user") /\ user' = [user EXCEPT ![NewAccount] = row]
    /\ IF smtp
       THEN /\ token' = token \cup {NewToken(NewAccount, "email", row.email, TRUE)} /\ tokens' = tokens + 1
            /\ ClientAt(c, [client[c] EXCEPT !.pc = "mail", !.token = tokens'])
       ELSE UNCHANGED <<token, tokens>> /\ Ends(c)
    /\ UNCHANGED <<session, sessions, cleanup, smtp, outrun, userRequests, confirmed, activated, consumed>>
WritesUser(c, op) ==
    /\ Writes(c, op) /\ UserAllowed(client[c].id, client[c].row)
    /\ user' = [user EXCEPT ![client[c].id] = client[c].row] /\ Ends(c)
    /\ UNCHANGED <<accountVars, smtp, outrun, tokens, userRequests>>
UpdateUser(c) == WritesUser(c, "update") /\ UNCHANGED <<token, confirmed, activated, consumed>>
UpdateUserPassword(c) == WritesUser(c, "password") /\ UNCHANGED <<token, confirmed, activated, consumed>>
UpdateUserEmail(c) == WritesUser(c, "email") /\ UNCHANGED <<token, confirmed, activated, consumed>>
UpdateUserStatus(c) ==
    /\ WritesUser(c, "status") /\ UNCHANGED <<token, confirmed, consumed>>
    /\ activated' = activated \cup {i \in {client[c].id} : client[c].row.status = "active"}
ConsumeTokenOfAny(c) ==
    /\ WritesUser(c, "consume") /\ token' = {t \in token : t.id /= client[c].token}
    /\ consumed' = [consumed EXCEPT ![client[c].token] = @ + 1]
    /\ confirmed' = confirmed \cup {<<t.account, t.email>> : t \in {s \in token : s.id = client[c].token /\ s.kind = "email"}}
    /\ UNCHANGED activated
\* a token that is gone takes the transaction with it
ConsumeToken(c) ==
    \E t \in token :
        /\ t.id = client[c].token /\ WritesUser(c, "consume") /\ token' = token \ {t}
        /\ consumed' = [consumed EXCEPT ![t.id] = @ + 1]
        /\ confirmed' = confirmed \cup (IF t.kind = "email" THEN {<<t.account, t.email>>} ELSE {})
        /\ UNCHANGED activated
CreateToken(c) ==
    LET q == client[c] IN
    /\ q.pc = "write" /\ q.op \in {"email token", "password token"}
    /\ token' = token \cup {NewToken(q.id, IF q.op = "email token" THEN "email" ELSE "password", q.row.email, FALSE)}
    /\ tokens' = tokens + 1 /\ ClientAt(c, [q EXCEPT !.pc = "mail", !.token = tokens'])
    /\ UNCHANGED <<accountVars, smtp, outrun, user, userRequests, confirmed, activated, consumed>>
\* the token of a mail that cannot be sent is deleted, but not the one of a registration
SendMail(c, sent) ==
    /\ client[c].pc = "mail" /\ Ends(c)
    /\ token' = IF sent \/ client[c].op = "register" THEN token ELSE {t \in token : t.id /= client[c].token}
    /\ UNCHANGED <<accountVars, smtp, outrun, user, tokens, userRequests, confirmed, activated, consumed>>
LoginAccount(c) ==
    /\ Writes(c, "login") /\ CreateSession(client[c].id) /\ Ends(c)
    /\ UNCHANGED <<account, cleanup, smtp, outrun, user, token, tokens, userRequests, confirmed, activated, consumed>>
\* logoutAccount and deleteSession, of a session that may be gone
LogoutAccount(c) ==
    /\ Writes(c, "logout") /\ RemoveSession(client[c].token) /\ Ends(c)
    /\ UNCHANGED <<account, sessions, cleanup, smtp, outrun, user, token, tokens, userRequests, confirmed, activated, consumed>>
\* the transaction is refused, or the process ends, before or after it
UserRequestFails(c) ==
    /\ client[c].pc /= "idle" /\ Ends(c)
    /\ UNCHANGED <<accountVars, smtp, outrun, user, token, tokens, userRequests, confirmed, activated, consumed>>

\* expire_time comes from the time at which the request began, the ID from the insert:
\* a token may expire before one of its kind with a lower ID
TokenExpires(t) ==
    /\ ~t.expired /\ token' = (token \ {t}) \cup {[t EXCEPT !.expired = TRUE]}
    /\ outrun' = outrun \cup {<<s.account, s.kind>> : s \in {o \in token :
            o.account = t.account /\ o.kind = t.kind /\ o.id < t.id /\ ~o.expired /\ ~o.first}}
    /\ UNCHANGED <<accountVars, smtp, user, tokens, client, userRequests, confirmed, activated, consumed>>
\* tokenCleanupDaemon, or consumeToken of a token that has expired
TokenCleanup(t) ==
    /\ t.expired /\ token' = token \ {t}
    /\ UNCHANGED <<accountVars, smtp, outrun, user, tokens, client, userRequests, confirmed, activated, consumed>>

UserRead(c) ==
    \/ \E login \in Logins, email \in Emails : ReadRegisterUser(c, login, email)
    \/ \E i \in UserIds :
        \/ ReadUpdateUser(c, i) \/ ReadUpdateUserPassword(c, i)
        \/ \E status \in {"pending", "active", "blocked"} : ReadUpdateUserStatus(c, i, status)
        \/ \E email \in Emails : ReadUpdateUserEmail(c, i, email)
        \/ ReadResendUserEmail(c, i) \/ ReadResetUserPassword(c, i) \/ ReadLoginAccount(c, i)
    \/ \E t \in token : ReadConsumeToken(c, t)
    \/ \E s \in session : ReadLogoutAccount(c, s)
UserWrite(c) ==
    \/ RegisterUser(c) \/ UpdateUser(c) \/ UpdateUserPassword(c) \/ UpdateUserEmail(c) \/ UpdateUserStatus(c)
    \/ ConsumeToken(c) \/ CreateToken(c) \/ LoginAccount(c) \/ LogoutAccount(c) \/ UserRequestFails(c)
    \/ \E sent \in BOOLEAN : SendMail(c, sent)
UserNext ==
    \/ \E c \in Clients : UserRead(c) \/ UserWrite(c)
    \/ \E t \in token : TokenExpires(t) \/ TokenCleanup(t)

\* users and tokens with the sessions and their daemon
UsersNext == UserNext \/ (AccountNext /\ UNCHANGED userVars)
UsersSpec == AccountInit(0) /\ UserInit /\ [][UsersNext]_<<accountVars, userVars>>

--------------------------------------------------------------------------------
(* Properties *)

\* With mail, the email of an active user is one that a token has confirmed, or
\* somebody activated the user by hand, although requests write back whole rows
\* they read long ago and several tokens of different emails may be out
\* (registerUser, updateUserEmail, consumeToken).
ActiveEmailIsConfirmed ==
    smtp => \A i \in UserIds : user[i].status = "active" => <<i, user[i].email>> \in confirmed \/ i \in activated

\* A token takes effect at most once, also when two requests have found it
\* (consumeToken deletes it in the transaction that uses it).
TokenUsedOnce == \A t \in DOMAIN consumed : consumed[t] <= 1

\* Requests at the same time can pass the limit of tokens together, but by no
\* more than one token for each of the others (the count before the creation).  A
\* token that expires before one with a lower ID hides that one from the count,
\* which looks at the newest IDs only: then nothing is promised.
TokensBounded ==
    \A i \in UserIds, kind \in {"email", "password"} :
        <<i, kind>> \notin outrun =>
            Cardinality({t \in token : t.account = i /\ t.kind = kind /\ ~t.expired /\ ~t.first})
                <= TokensLimit + Cardinality(Clients) - 1

\* Logins and emails are unique, although two registrations may both have found
\* them free and nothing else checks an email (RegisterUserForm.Update).
LoginsUnique == \A i, j \in UserIds : user[i].login = user[j].login \/ user[i].email = user[j].email => i = j

\* Users and tokens in all, whatever requests do at the same time (users.go, tokens.go).
UsersInv == TokenUsedOnce /\ TokensBounded /\ LoginsUnique

================================================================================
