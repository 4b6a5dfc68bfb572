----------------------------- MODULE ServerProofs ------------------------------
(***************************************************************************)
(* What the server keeps of its accounts, and the database that it keeps   *)
(* them in, for any number of clients, accounts and requests: users and    *)
(* tokens (Users); groups, scopes and sessions beside the cached standings *)
(* and the visits (Services); what a role gives while roles change         *)
(* (Roles); lists that are read page by page (Paging); the schema and its  *)
(* history (Migrations).                                                   *)
(*                                                                         *)
(* A request carries what it has read from its first half to its second,   *)
(* while others write: the invariants say what is still true of it by      *)
(* then.                                                                   *)
(***************************************************************************)
EXTENDS Users, Services, Roles, Paging, Migrations, TLAPS, FiniteSetTheorems, NaturalsInduction,
        WellFoundedInduction, SequenceTheorems

--------------------------------------------------------------------------------
(* Users and tokens: the invariant *)

Statuses == {"", "pending", "active", "blocked"}
UserRow == [login : Logins \cup {""}, status : Statuses, email : Emails \cup {""}]
TokenRow == [id : Nat \ {0}, account : AccountIds, kind : {"email", "password"},
             email : Emails \cup {""}, first : BOOLEAN, expired : BOOLEAN]
UserOps == {"update", "password", "status", "email", "email token", "password token",
            "consume", "login"}
UserRequest == [pc : {"idle", "write", "mail"}, op : UserOps \cup {"none", "register", "logout"},
                id : 0..MaxAccount, row : UserRow, token : Nat]

UsersTypeOK ==
    /\ smtp \in BOOLEAN
    /\ account \in [AccountIds -> {"none", "user"}]
    /\ session \subseteq [id : Nat, account : AccountIds, expired : BOOLEAN] /\ sessions \in Nat
    /\ user \in [AccountIds -> UserRow]
    /\ token \subseteq TokenRow /\ IsFiniteSet(token) /\ tokens \in Nat
    /\ client \in [Clients -> UserRequest]
    /\ consumed \in [1..MaxUserRequest -> Nat]

\* A row that may be written, once its email is confirmed or its user activated.
MayBeActive(i, row) ==
    smtp /\ row.status = "active" => <<i, row.email>> \in confirmed \/ i \in activated

\* Rows belong to accounts.
RowsInv ==
    \A i \in AccountIds : /\ account[i] = "none" => user[i] = NoUser
                          /\ MayBeActive(i, user[i])

\* A token has its own ID, which has not been used, and the token of a
\* registration is the first one of its account.
TokenInv ==
    /\ \A t \in token : /\ t.id <= tokens /\ account[t.account] = "user"
                        /\ t.id <= MaxUserRequest => consumed[t.id] = 0
    /\ \A s, t \in token : s.id = t.id => s = t
    /\ \A s, t \in token : t.first /\ s.account = t.account => t.id <= s.id
    /\ \A k \in 1..MaxUserRequest : consumed[k] <= 1 /\ (consumed[k] # 0 => k <= tokens)

\* Tokens of an account and a kind have expired in the order of their IDs, unless one
\* has outrun another.
ExpiryInv ==
    \A s, t \in token :
        s.account = t.account /\ s.kind = t.kind /\ ~s.first /\ s.id < t.id /\ t.expired =>
            s.expired \/ <<t.account, t.kind>> \in outrun

\* What a request has read is still good enough to be written.
ClientInv(c) ==
    client[c].pc = "write" =>
        /\ client[c].op \in UserOps =>
             client[c].id \in AccountIds /\ account[client[c].id] = "user"
        /\ client[c].op \in {"update", "password"} => MayBeActive(client[c].id, client[c].row)
        /\ client[c].op = "email" => ~smtp
        /\ client[c].op = "register" => (smtp => client[c].row.status = "pending")
        /\ client[c].op = "consume" =>
            /\ client[c].token <= tokens
            /\ \A t \in token : t.id = client[c].token =>
                 /\ t.account = client[c].id
                 /\ t.kind = "email" => t.email = client[c].row.email
                 /\ t.kind = "password" => MayBeActive(client[c].id, client[c].row)

\* The tokens that count for the limit, and the requests about to create one.
LiveTokens(i, kind) ==
    {t \in token : t.account = i /\ t.kind = kind /\ ~t.expired /\ ~t.first}
TokenOp(kind) == IF kind = "email" THEN "email token" ELSE "password token"
Creating(i, kind) ==
    {c \in Clients : client[c].pc = "write" /\ client[c].op = TokenOp(kind) /\ client[c].id = i}
LimitOf(i, kind) ==
    Cardinality(LiveTokens(i, kind)) + Cardinality(Creating(i, kind))
        <= TokensLimit + Cardinality(Clients) - 1
LimitInv ==
    \A i \in AccountIds, kind \in {"email", "password"} : <<i, kind>> \notin outrun => LimitOf(i, kind)

IInv ==
    /\ UsersTypeOK /\ RowsInv /\ TokenInv /\ ExpiryInv /\ LoginsUnique /\ LimitInv
    /\ \A c \in Clients : ClientInv(c)

--------------------------------------------------------------------------------
(* Operators of the model *)

\* Nonempty sets of numbers have a least one.
LEMMA LeastNumber ==
  ASSUME NEW S, S \subseteq Nat, S # {}
  PROVE  \E x \in S : \A y \in S : x <= y
<1>1. PICK x \in S : \A y \in S : ~ (<<y, x>> \in OpToRel(<, Nat))
  BY NatLessThanWellFounded, WFMin
<1>2. ASSUME NEW y \in S PROVE x <= y
  <2>1. x \in Nat /\ y \in Nat /\ ~(y < x)
    BY <1>1 DEF OpToRel
  <2> QED BY <2>1
<1> QED BY <1>2

\* A new account is one that was free.
LEMMA FreshAccount ==
  ASSUME FreeIds # {}
  PROVE  NewAccount \in AccountIds /\ account[NewAccount] = "none"
<1>1. FreeIds \subseteq AccountIds /\ FreeIds \subseteq Nat
  BY AccountAssumption DEF FreeIds, AccountIds
<1>2. \E x \in FreeIds : \A y \in FreeIds : x <= y
  BY <1>1, LeastNumber
<1>3. NewAccount \in FreeIds
  BY <1>2 DEF NewAccount, Min
<1> QED BY <1>1, <1>3 DEF FreeIds

\* The row a token stands for.
LEMMA ConfirmedRowFacts ==
  ASSUME UsersTypeOK, NEW t \in token
  PROVE  /\ ConfirmedRow(t) \in UserRow
         /\ t.kind = "email" => ConfirmedRow(t).email = t.email
         /\ t.kind = "password" => ConfirmedRow(t) = user[t.account]
<1>1. /\ t.account \in AccountIds /\ t.kind \in {"email", "password"}
      /\ t.email \in Emails \cup {""}
  BY DEF UsersTypeOK, TokenRow
<1>2. user[t.account] \in UserRow
  BY <1>1 DEF UsersTypeOK
<1>3. CASE t.kind = "password"
  BY <1>2, <1>3 DEF ConfirmedRow
<1>4. CASE t.kind = "email"
  <2>1. ConfirmedRow(t) = [user[t.account] EXCEPT
            !.email = t.email, !.status = IF @ = "pending" THEN "active" ELSE @]
    BY <1>4 DEF ConfirmedRow
  <2>2. \E s \in Statuses :
          ConfirmedRow(t) = [user[t.account] EXCEPT !.email = t.email, !.status = s]
    BY <1>2, <2>1 DEF UserRow, Statuses
  <2> QED BY <1>1, <1>2, <1>4, <2>2 DEF UserRow
<1> QED BY <1>1, <1>3, <1>4

\* Sets of tokens and of clients are finite.
LEMMA LimitTypes ==
  ASSUME UsersTypeOK, NEW i, NEW kind
  PROVE  /\ IsFiniteSet(LiveTokens(i, kind)) /\ Cardinality(LiveTokens(i, kind)) \in Nat
         /\ IsFiniteSet(Creating(i, kind)) /\ Cardinality(Creating(i, kind)) \in Nat
         /\ Cardinality(Creating(i, kind)) <= Cardinality(Clients)
         /\ Cardinality(Clients) \in Nat /\ Cardinality(Clients) # 0 /\ TokensLimit \in Nat
<1>1. LiveTokens(i, kind) \in SUBSET token /\ Creating(i, kind) \in SUBSET Clients
  BY DEF LiveTokens, Creating
<1>2. IsFiniteSet(token) /\ IsFiniteSet(Clients) /\ TokensLimit \in Nat
  BY UserAssumption DEF UsersTypeOK
<1>3. Cardinality(Clients) # 0
  BY <1>2, UserAssumption, FS_EmptySet
<1> QED BY <1>1, <1>2, <1>3, FS_Subset, FS_CardinalityType

\* The count of the code is over the newest tokens only, as many as the limit; but
\* a live token that is not among them has as many younger ones, and those live as
\* long as none has outrun it: a request that passes the count has then found fewer
\* live tokens than the limit.
LEMMA CountIsExact ==
  ASSUME UsersTypeOK, TokenInv, ExpiryInv, NEW i \in AccountIds, NEW kind \in {"email", "password"},
         <<i, kind>> \notin outrun, MayCreateToken(i, kind)
  PROVE  Cardinality(LiveTokens(i, kind)) <= TokensLimit - 1
<1> DEFINE rows == {t \in token : t.account = i /\ t.kind = kind}
           newer(t) == {s \in rows : s.id > t.id}
           newest == {t \in rows : Cardinality(newer(t)) < TokensLimit}
           live == {t \in newest : ~t.expired}
<1>1. Cardinality(live) < TokensLimit
  BY DEF MayCreateToken, GetCountTokens
<1>2. IsFiniteSet(token) /\ IsFiniteSet(live) /\ Cardinality(live) \in Nat /\ TokensLimit \in Nat
  <2>1. IsFiniteSet(token) /\ live \in SUBSET token /\ TokensLimit \in Nat
    BY UserAssumption DEF UsersTypeOK
  <2> HIDE DEF live
  <2> QED BY <2>1, FS_Subset, FS_CardinalityType
<1>3. ASSUME NEW t PROVE IsFiniteSet(newer(t)) /\ Cardinality(newer(t)) \in Nat
  <2>1. newer(t) \in SUBSET token
    OBVIOUS
  <2> HIDE DEF newer
  <2> QED BY <1>2, <2>1, FS_Subset, FS_CardinalityType
<1>4. \A t \in rows : t \in token /\ t.id \in Nat /\ t.account = i /\ t.kind = kind
  BY DEF UsersTypeOK, TokenRow
<1>5. LiveTokens(i, kind) \subseteq live
  <2> SUFFICES ASSUME NEW u \in LiveTokens(i, kind), u \notin live PROVE FALSE
    OBVIOUS
  <2>1. u \in rows /\ ~u.expired /\ ~u.first
    BY DEF LiveTokens
  <2>2. Cardinality(newer(u)) >= TokensLimit
    <3>1. ~ (Cardinality(newer(u)) < TokensLimit)
      BY <2>1
    <3> HIDE DEF newer
    <3> QED BY <3>1, <1>2, <1>3
  \* the youngest token with that many younger ones
  <2> DEFINE counts == {n \in Nat : n >= TokensLimit /\ \E t \in rows : Cardinality(newer(t)) = n}
  <2>3. PICK n \in counts : \A m \in counts : n <= m
    <3>1. Cardinality(newer(u)) \in counts
      <4> HIDE DEF newer, rows
      <4> QED BY <1>3, <2>1, <2>2
    <3>2. counts \subseteq Nat
      OBVIOUS
    <3> HIDE DEF counts
    <3> QED BY <3>1, <3>2, LeastNumber
  <2>4. PICK v \in rows : Cardinality(newer(v)) = n
    OBVIOUS
  <2>5. n \in Nat /\ n >= TokensLimit /\ n <= Cardinality(newer(u))
    <3>1. Cardinality(newer(u)) \in counts
      <4> HIDE DEF newer, rows
      <4> QED BY <1>3, <2>1, <2>2
    <3>2. n <= Cardinality(newer(u))
      <4> HIDE DEF counts, newer
      <4> QED BY <2>3, <3>1
    <3> QED BY <3>2
  <2>6. ASSUME NEW s \in rows, NEW t \in rows, s.id > t.id
        PROVE  Cardinality(newer(s)) < Cardinality(newer(t))
    <3>1. newer(s) \in SUBSET newer(t) /\ s \in newer(t) /\ s \notin newer(s)
      BY <1>4, <2>6
    <3> HIDE DEF newer, rows
    <3>2. Cardinality(newer(s)) <= Cardinality(newer(t))
          /\ Cardinality(newer(s)) # Cardinality(newer(t))
      BY <1>3, <3>1, FS_Subset
    <3> QED BY <1>3, <3>2
  <2>7. v.id >= u.id
    <3>1. u.id > v.id => Cardinality(newer(u)) < Cardinality(newer(v))
      BY <2>1, <2>4, <2>6
    <3>2. Cardinality(newer(u)) \in Nat
      BY <1>3
    <3> HIDE DEF newer, counts
    <3> QED BY <1>4, <2>1, <2>4, <2>5, <3>1, <3>2
  <2>8. ASSUME NEW s \in newer(v) PROVE s \in live
    <3>1. s \in rows /\ s.id > v.id /\ s.id > u.id
      BY <1>4, <2>1, <2>7
    <3>2. Cardinality(newer(s)) < n
      BY <2>4, <2>6, <3>1
    <3>3. Cardinality(newer(s)) < TokensLimit
      <4>1. Cardinality(newer(s)) \in Nat
        BY <1>3
      <4>2. Cardinality(newer(s)) \notin counts
        <5> HIDE DEF newer, counts
        <5> QED BY <2>3, <2>5, <3>2, <4>1
      <4>3. ~ (Cardinality(newer(s)) >= TokensLimit)
        <5> HIDE DEF newer, rows
        <5> QED BY <3>1, <4>1, <4>2
      <4> HIDE DEF newer
      <4> QED BY <1>2, <4>1, <4>3
    <3>4. ~s.expired
      BY <1>4, <2>1, <3>1 DEF ExpiryInv
    <3> QED BY <3>1, <3>3, <3>4
  <2>9. newer(v) \in SUBSET live
    BY <2>8
  <2>10. Cardinality(newer(v)) <= Cardinality(live)
    <3> HIDE DEF newer, live
    <3> QED BY <1>2, <2>9, FS_Subset
  <2> HIDE DEF newer, live, rows, counts
  <2> QED BY <1>1, <1>2, <2>4, <2>5, <2>10
<1>6. Cardinality(LiveTokens(i, kind)) <= Cardinality(live)
  <2> HIDE DEF live
  <2> QED BY <1>2, <1>5, FS_Subset
<1>7. Cardinality(LiveTokens(i, kind)) \in Nat
  BY LimitTypes
<1> HIDE DEF live
<1> QED BY <1>1, <1>2, <1>6, <1>7

--------------------------------------------------------------------------------
(* Frames: what a step that leaves something alone keeps *)

\* What a request carries.
LEMMA ClientType ==
  ASSUME UsersTypeOK, NEW c \in Clients
  PROVE  /\ client[c] \in UserRequest /\ client[c].row \in UserRow /\ client[c].token \in Nat
         /\ client[c].id \in 0..MaxAccount /\ client[c].pc \in {"idle", "write", "mail"}
         /\ client[c].op \in UserOps \cup {"none", "register", "logout"}
BY DEF UsersTypeOK, UserRequest

\* Accounts stay, and what was confirmed, activated or outrun stays so.
Grows ==
    /\ smtp' = smtp /\ confirmed \subseteq confirmed' /\ activated \subseteq activated'
    /\ outrun \subseteq outrun'
    /\ \A i \in AccountIds : account[i] = "user" => account'[i] = "user"

\* Rows that stay.
LEMMA RowsFrame ==
  ASSUME RowsInv, Grows, user' = user, account' = account
  PROVE  RowsInv'
BY DEF RowsInv, MayBeActive, Grows

\* A request that stays, while tokens go, or come with new IDs.
LEMMA ClientFrame ==
  ASSUME UsersTypeOK, Grows, tokens' \in Nat, tokens <= tokens',
         NEW c \in Clients, ClientInv(c), client'[c] = client[c],
         \A t \in token' : t.id <= tokens =>
            \E s \in token : s.id = t.id /\ s.account = t.account /\ s.kind = t.kind
                             /\ s.email = t.email
  PROVE  ClientInv(c)'
<1> SUFFICES ASSUME client[c].pc = "write" PROVE ClientInv(c)'
  BY DEF ClientInv
<1>1. /\ client[c].op \in UserOps =>
           client[c].id \in AccountIds /\ account'[client[c].id] = "user"
      /\ client[c].op = "email" => ~smtp'
      /\ client[c].op = "register" => (smtp' => client[c].row.status = "pending")
  BY DEF ClientInv, Grows
<1>2. MayBeActive(client[c].id, client[c].row) =>
        (smtp' /\ client[c].row.status = "active" =>
            <<client[c].id, client[c].row.email>> \in confirmed' \/ client[c].id \in activated')
  BY DEF MayBeActive, Grows
<1>3. ASSUME client[c].op = "consume"
      PROVE  /\ client[c].token <= tokens'
             /\ \A t \in token' : t.id = client[c].token =>
                 /\ t.account = client[c].id
                 /\ t.kind = "email" => t.email = client[c].row.email
                 /\ t.kind = "password" => MayBeActive(client[c].id, client[c].row)
  <2>1. client[c].token <= tokens /\ tokens \in Nat /\ client[c].token \in Nat
    BY <1>3, ClientType DEF ClientInv, UsersTypeOK
  <2> QED BY <1>3, <2>1 DEF ClientInv
<1> QED BY <1>1, <1>2, <1>3 DEF ClientInv, MayBeActive

\* A request that is not about to write.
LEMMA ClientRests ==
  ASSUME NEW c \in Clients, client'[c].pc # "write"
  PROVE  ClientInv(c)'
BY DEF ClientInv

\* Tokens that stay or go.
LEMMA TokenFrame ==
  ASSUME TokenInv, ExpiryInv, UsersTypeOK, Grows, token' \subseteq token, tokens' = tokens,
         consumed' = consumed
  PROVE  TokenInv' /\ ExpiryInv'
<1>1. \A t \in token : t.account \in AccountIds
  BY DEF UsersTypeOK, TokenRow
<1> QED BY <1>1 DEF TokenInv, ExpiryInv, Grows

\* Fewer tokens and fewer requests to create one, of one account.
LEMMA LimitShrinks ==
  ASSUME UsersTypeOK, NEW i \in AccountIds, NEW kind \in {"email", "password"}, LimitOf(i, kind),
         LiveTokens(i, kind)' \subseteq LiveTokens(i, kind),
         Creating(i, kind)' \subseteq Creating(i, kind)
  PROVE  LimitOf(i, kind)'
<1>1. Cardinality(LiveTokens(i, kind)') <= Cardinality(LiveTokens(i, kind))
      /\ Cardinality(LiveTokens(i, kind)') \in Nat
  BY LimitTypes, FS_Subset, FS_CardinalityType
<1>2. Cardinality(Creating(i, kind)') <= Cardinality(Creating(i, kind))
      /\ Cardinality(Creating(i, kind)') \in Nat
  BY LimitTypes, FS_Subset, FS_CardinalityType
<1> QED BY <1>1, <1>2, LimitTypes DEF LimitOf

\* Of every account.
LEMMA LimitFrame ==
  ASSUME UsersTypeOK, LimitInv, Grows, token' \subseteq token,
         \A c \in Clients : client'[c] = client[c] \/ client'[c].pc # "write"
  PROVE  LimitInv'
<1> SUFFICES ASSUME NEW i \in AccountIds, NEW kind \in {"email", "password"},
                    <<i, kind>> \notin outrun
             PROVE  LimitOf(i, kind)'
  BY DEF LimitInv, Grows
<1>1. LiveTokens(i, kind)' \subseteq LiveTokens(i, kind)
  BY DEF LiveTokens
<1>2. Creating(i, kind)' \subseteq Creating(i, kind)
  BY DEF Creating, TokenOp
<1> QED BY <1>1, <1>2, LimitShrinks DEF LimitInv

\* A client without a request.
LEMMA NoRequestType == NoUserRequest \in UserRequest /\ NoUserRequest.pc = "idle"
<1>1. NoUser \in UserRow
  BY DEF NoUser, UserRow, Statuses
<1> QED BY <1>1, AccountAssumption DEF NoUserRequest, UserRequest

\* A request ends, or sends its mail.
LEMMA RequestEnds ==
  ASSUME UsersTypeOK, NEW c \in Clients, Ends(c)
  PROVE  /\ client' \in [Clients -> UserRequest] /\ client'[c].pc = "idle"
         /\ \A d \in Clients \ {c} : client'[d] = client[d]
<1>1. NoUserRequest \in UserRequest /\ NoUserRequest.pc = "idle"
  BY NoRequestType
<1> QED BY <1>1 DEF Ends, ClientAt, UsersTypeOK

--------------------------------------------------------------------------------
(* The first half of a request *)

\* A request starts: what it carries is good, and room for its token is counted.
LEMMA ReadsStep ==
  ASSUME IInv, NEW c \in Clients, NEW op \in UserOps \cup {"register", "logout"},
         NEW i \in 0..MaxAccount, NEW row \in UserRow, NEW t \in Nat, Reads(c, op, i, row, t),
         op \in UserOps => i \in AccountIds /\ account[i] = "user",
         op \in {"update", "password"} => MayBeActive(i, row),
         op = "email" => ~smtp,
         op = "register" => (smtp => row.status = "pending"),
         op = "consume" =>
            /\ t <= tokens
            /\ \A s \in token : s.id = t =>
                 /\ s.account = i
                 /\ s.kind = "email" => s.email = row.email
                 /\ s.kind = "password" => MayBeActive(i, row),
         \A kind \in {"email", "password"} : op = TokenOp(kind) => MayCreateToken(i, kind)
  PROVE  IInv'
<1> USE DEF IInv
<1>a. /\ UNCHANGED accountVars
      /\ UNCHANGED <<smtp, user, token, tokens, confirmed, activated, consumed, outrun>>
  BY DEF Reads
<1>b. UNCHANGED <<account, session, sessions>>
  BY <1>a DEF accountVars
<1>c. /\ client'[c] = [pc |-> "write", op |-> op, id |-> i, row |-> row, token |-> t]
      /\ \A d \in Clients \ {c} : client'[d] = client[d]
      /\ client' \in [Clients -> UserRequest]
  <2>1. client' = [client EXCEPT ![c] = [pc |-> "write", op |-> op, id |-> i, row |-> row,
                                         token |-> t]]
    BY DEF Reads, ClientAt
  <2>2. [pc |-> "write", op |-> op, id |-> i, row |-> row, token |-> t] \in UserRequest
    BY DEF UserRequest
  <2> QED BY <2>1, <2>2 DEF UsersTypeOK
<1>d. /\ client'[c].pc = "write" /\ client'[c].op = op /\ client'[c].id = i
      /\ client'[c].row = row /\ client'[c].token = t /\ client[c].pc = "idle"
  BY <1>c DEF Reads
<1>e. Grows
  BY <1>a, <1>b DEF Grows
<1>1. UsersTypeOK'
  BY <1>a, <1>b, <1>c DEF UsersTypeOK
<1>2. RowsInv'
  BY <1>a, <1>b, <1>e, RowsFrame
<1>3. TokenInv' /\ ExpiryInv'
  BY <1>a, <1>e, TokenFrame
<1>4. LoginsUnique'
  BY <1>a DEF LoginsUnique, UserIds
<1>5. ASSUME NEW d \in Clients PROVE ClientInv(d)'
  <2>1. CASE d = c
    BY <1>a, <1>b, <1>d, <2>1 DEF ClientInv, MayBeActive
  <2>2. CASE d # c
    <3>1. client'[d] = client[d] /\ tokens' \in Nat /\ tokens <= tokens'
      BY <1>a, <1>c, <2>2 DEF UsersTypeOK
    <3> QED BY <1>a, <1>e, <3>1, ClientFrame
  <2> QED BY <2>1, <2>2
<1>6. ASSUME NEW j \in AccountIds, NEW kind \in {"email", "password"}, <<j, kind>> \notin outrun
      PROVE  LimitOf(j, kind)'
  <2>1. LiveTokens(j, kind)' = LiveTokens(j, kind)
    BY <1>a DEF LiveTokens
  <2>2. CASE op = TokenOp(kind) /\ j = i
    <3>1. Cardinality(LiveTokens(j, kind)) <= TokensLimit - 1
      BY <1>6, <2>2, CountIsExact
    <3>2. Creating(j, kind)' \in SUBSET Clients
      BY DEF Creating
    <3>3. Cardinality(Creating(j, kind)') \in Nat
          /\ Cardinality(Creating(j, kind)') <= Cardinality(Clients)
      BY <3>2, UserAssumption, FS_Subset, FS_CardinalityType
    <3>4. Cardinality(LiveTokens(j, kind)') + Cardinality(Creating(j, kind)')
            <= TokensLimit + Cardinality(Clients) - 1
      BY <2>1, <3>1, <3>3, LimitTypes
    <3> QED BY <3>4 DEF LimitOf
  <2>3. CASE ~ (op = TokenOp(kind) /\ j = i)
    <3>1. Creating(j, kind)' = Creating(j, kind)
      BY ZenonT(30), <1>c, <1>d, <2>3 DEF Creating, TokenOp
    <3> QED BY <1>6, <2>1, <3>1 DEF LimitInv, LimitOf
  <2> QED BY <2>2, <2>3
<1> QED BY <1>1, <1>2, <1>3, <1>4, <1>5, <1>6, <1>a DEF LimitInv

\* A user that exists has an account and a row that may be written.
LEMMA ExistingUser ==
  ASSUME IInv, NEW i \in UserIds
  PROVE  /\ i \in AccountIds /\ i \in 0..MaxAccount /\ account[i] = "user"
         /\ user[i] \in UserRow /\ MayBeActive(i, user[i])
<1>1. i \in AccountIds /\ user[i] # NoUser
  BY DEF UserIds
<1>2. account[i] \in {"none", "user"} /\ user[i] \in UserRow
  BY <1>1 DEF IInv, UsersTypeOK
<1> QED BY <1>1, <1>2, AccountAssumption DEF IInv, RowsInv, AccountIds

\* What each request reads.
LEMMA UserReadStep ==
  ASSUME IInv, NEW c \in Clients, UserRead(c)
  PROVE  IInv'
<1> USE DEF TokenOp
<1>a. 0 \in Nat /\ 0 \in 0..MaxAccount /\ NoUser \in UserRow
  BY AccountAssumption DEF NoUser, UserRow, Statuses
<1>1. ASSUME NEW login \in Logins, NEW email \in Emails, ReadRegisterUser(c, login, email)
      PROVE IInv'
  <2> DEFINE row == [login |-> login, status |-> IF smtp THEN "pending" ELSE "active",
                     email |-> email]
  <2>1. Reads(c, "register", 0, row, 0)
    BY <1>1 DEF ReadRegisterUser
  <2>2. row \in UserRow /\ (smtp => row.status = "pending")
    BY DEF UserRow, Statuses
  <2>3. "register" \notin UserOps
    BY DEF UserOps
  <2> HIDE DEF row
  <2> QED BY <1>a, <2>1, <2>2, <2>3, ReadsStep
<1>2. ASSUME NEW i \in UserIds,
             ReadUpdateUser(c, i) \/ ReadUpdateUserPassword(c, i) \/ ReadLoginAccount(c, i)
      PROVE IInv'
  <2>1. PICK op \in {"update", "password", "login"} : Reads(c, op, i, user[i], 0)
    BY <1>2 DEF ReadUpdateUser, ReadUpdateUserPassword, ReadLoginAccount
  <2>2. op \in UserOps
    BY DEF UserOps
  <2> QED BY <1>a, <2>1, <2>2, ExistingUser, ReadsStep
<1>3. ASSUME NEW i \in UserIds, NEW s \in {"pending", "active", "blocked"},
             ReadUpdateUserStatus(c, i, s)
      PROVE IInv'
  <2>1. Reads(c, "status", i, [user[i] EXCEPT !.status = s], 0)
    BY <1>3 DEF ReadUpdateUserStatus
  <2>2. [user[i] EXCEPT !.status = s] \in UserRow
    BY ExistingUser DEF UserRow, Statuses
  <2>3. "status" \in UserOps
    BY DEF UserOps
  <2> QED BY <1>a, <2>1, <2>2, <2>3, ExistingUser, ReadsStep
<1>4. ASSUME NEW i \in UserIds, NEW email \in Emails, ReadUpdateUserEmail(c, i, email)
      PROVE IInv'
  <2>1. [user[i] EXCEPT !.email = email] \in UserRow
    BY ExistingUser DEF UserRow
  <2>2. "email" \in UserOps /\ "email token" \in UserOps
    BY DEF UserOps
  <2>3. CASE smtp
    <3>1. /\ MayCreateToken(i, "email")
          /\ Reads(c, "email token", i, [user[i] EXCEPT !.email = email], 0)
      BY <1>4, <2>3 DEF ReadUpdateUserEmail
    <3> QED BY <1>a, <2>1, <2>2, <3>1, ExistingUser, ReadsStep
  <2>4. CASE ~smtp
    <3>1. Reads(c, "email", i, [user[i] EXCEPT !.email = email], 0)
      BY <1>4, <2>4 DEF ReadUpdateUserEmail
    <3> QED BY <1>a, <2>1, <2>2, <2>4, <3>1, ExistingUser, ReadsStep
  <2> QED BY <2>3, <2>4
<1>5. ASSUME NEW i \in UserIds, ReadResendUserEmail(c, i) PROVE IInv'
  <2>1. MayCreateToken(i, "email") /\ Reads(c, "email token", i, user[i], 0)
    BY <1>5 DEF ReadResendUserEmail
  <2>2. "email token" \in UserOps
    BY DEF UserOps
  <2> QED BY <1>a, <2>1, <2>2, ExistingUser, ReadsStep
<1>6. ASSUME NEW i \in UserIds, ReadResetUserPassword(c, i) PROVE IInv'
  <2>1. MayCreateToken(i, "password") /\ Reads(c, "password token", i, user[i], 0)
    BY <1>6 DEF ReadResetUserPassword
  <2>2. "password token" \in UserOps
    BY DEF UserOps
  <2> QED BY <1>a, <2>1, <2>2, ExistingUser, ReadsStep
<1>7. ASSUME NEW t \in token, ReadConsumeToken(c, t) PROVE IInv'
  <2>1. Reads(c, "consume", t.account, ConfirmedRow(t), t.id)
    BY <1>7 DEF ReadConsumeToken
  <2>2. t.account \in AccountIds /\ t.account \in 0..MaxAccount /\ t.id \in Nat
    <3>1. t \in TokenRow
      BY DEF IInv, UsersTypeOK
    <3>2. t.account \in AccountIds /\ t.id \in Nat
      BY <3>1 DEF TokenRow
    <3> QED BY <3>2, AccountAssumption DEF AccountIds
  <2>3. t.id <= tokens /\ account[t.account] = "user" /\ \A s \in token : s.id = t.id => s = t
    BY DEF IInv, TokenInv
  <2>4. t.kind = "password" => MayBeActive(t.account, ConfirmedRow(t))
    BY <2>2, ConfirmedRowFacts DEF IInv, RowsInv
  <2>5. ConfirmedRow(t) \in UserRow /\ (t.kind = "email" => ConfirmedRow(t).email = t.email)
    BY ConfirmedRowFacts DEF IInv
  <2>6. "consume" \in UserOps
    BY DEF UserOps
  <2>7. PICK i \in AccountIds, row \in UserRow, k \in Nat :
            i = t.account /\ row = ConfirmedRow(t) /\ k = t.id
    BY <2>2, <2>5
  <2>8. /\ Reads(c, "consume", i, row, k) /\ i \in 0..MaxAccount /\ account[i] = "user"
        /\ k <= tokens
    BY <2>1, <2>2, <2>3, <2>7
  <2>9. \A s \in token : s.id = k =>
          /\ s.account = i
          /\ s.kind = "email" => s.email = row.email
          /\ s.kind = "password" => MayBeActive(i, row)
    BY <2>3, <2>4, <2>5, <2>7
  <2> QED BY <2>6, <2>8, <2>9, ReadsStep
<1>8. ASSUME NEW s \in session, ReadLogoutAccount(c, s) PROVE IInv'
  <2>1. Reads(c, "logout", s.account, NoUser, s.id)
    BY <1>8 DEF ReadLogoutAccount
  <2>2. s.account \in 0..MaxAccount /\ s.id \in Nat
    BY AccountAssumption DEF IInv, UsersTypeOK, AccountIds
  <2>3. "logout" \notin UserOps
    BY DEF UserOps
  <2>4. PICK i \in 0..MaxAccount, row \in UserRow, k \in Nat : Reads(c, "logout", i, row, k)
    BY <1>a, <2>1, <2>2
  <2> QED BY <2>3, <2>4, ReadsStep
<1> QED BY <1>1, <1>2, <1>3, <1>4, <1>5, <1>6, <1>7, <1>8 DEF UserRead

--------------------------------------------------------------------------------
(* The second half of a request *)

\* A step that only ends a request, and takes tokens away.
LEMMA EndStep ==
  ASSUME IInv, NEW c \in Clients, client'[c].pc # "write", client' \in [Clients -> UserRequest],
         \A d \in Clients \ {c} : client'[d] = client[d],
         UNCHANGED <<account, smtp, user, tokens, confirmed, activated, consumed, outrun>>,
         token' \subseteq token, sessions' \in Nat,
         session' \subseteq [id : Nat, account : AccountIds, expired : BOOLEAN]
  PROVE  IInv'
<1> USE DEF IInv
<1>a. Grows
  BY DEF Grows
<1>b. IsFiniteSet(token')
  BY FS_Subset DEF UsersTypeOK
<1>1. UsersTypeOK'
  BY <1>b DEF UsersTypeOK
<1>2. RowsInv'
  BY <1>a, RowsFrame
<1>3. TokenInv' /\ ExpiryInv'
  BY <1>a, TokenFrame
<1>4. LoginsUnique'
  BY DEF LoginsUnique, UserIds
<1>5. LimitInv'
  BY <1>a, LimitFrame
<1>6. ASSUME NEW d \in Clients PROVE ClientInv(d)'
  <2>1. CASE d = c
    BY <2>1, ClientRests
  <2>2. CASE d # c
    <3>1. client'[d] = client[d] /\ tokens' \in Nat /\ tokens <= tokens'
      BY <2>2 DEF UsersTypeOK
    <3> QED BY <1>a, <3>1, ClientFrame
  <2> QED BY <2>1, <2>2
<1> QED BY <1>1, <1>2, <1>3, <1>4, <1>5, <1>6

\* Sessions, mails and failures write neither users nor new tokens.
LEMMA QuietStep ==
  ASSUME IInv, NEW c \in Clients,
         \/ LoginAccount(c) \/ LogoutAccount(c) \/ UserRequestFails(c)
         \/ \E sent \in BOOLEAN : SendMail(c, sent)
  PROVE  IInv'
<1> USE DEF IInv
<1> DEFINE Session == [id : Nat, account : AccountIds, expired : BOOLEAN]
<1>a. Ends(c) /\ UNCHANGED <<account, smtp, user, tokens, confirmed, activated, consumed, outrun>>
  BY DEF LoginAccount, LogoutAccount, UserRequestFails, SendMail, accountVars
<1>b. token' \subseteq token
  BY DEF LoginAccount, LogoutAccount, UserRequestFails, SendMail
<1>c. session \subseteq Session /\ sessions \in Nat
  BY DEF UsersTypeOK
<1>d. session' \subseteq Session /\ sessions' \in Nat
  <2>1. CASE LoginAccount(c)
    <3>1. /\ sessions' = sessions + 1 /\ HasAccount(client[c].id)
          /\ session' = session \cup
               {[id |-> sessions', account |-> client[c].id, expired |-> FALSE]}
      BY <2>1 DEF LoginAccount, CreateSession
    <3>2. sessions' \in Nat /\ client[c].id \in AccountIds
      BY <1>c, <3>1 DEF HasAccount
    <3>3. [id |-> sessions', account |-> client[c].id, expired |-> FALSE] \in Session
      BY <3>2
    <3> QED BY <1>c, <3>1, <3>2, <3>3
  <2>2. CASE LogoutAccount(c)
    BY <1>c, <2>2 DEF LogoutAccount, RemoveSession
  <2>3. CASE UserRequestFails(c) \/ \E sent \in BOOLEAN : SendMail(c, sent)
    BY <1>c, <2>3 DEF UserRequestFails, SendMail, accountVars
  <2> QED BY <2>1, <2>2, <2>3
<1>e. /\ client' \in [Clients -> UserRequest] /\ client'[c].pc # "write"
      /\ \A d \in Clients \ {c} : client'[d] = client[d]
  BY <1>a, RequestEnds
<1> QED BY <1>a, <1>b, <1>d, <1>e, EndStep

\* A row is written: nobody else has its login or its email.
LEMMA WritesUserStep ==
  ASSUME IInv, NEW c \in Clients, NEW op \in UserOps, WritesUser(c, op),
         token' \subseteq token, TokenInv', Grows,
         smtp' /\ client[c].row.status = "active" =>
            <<client[c].id, client[c].row.email>> \in confirmed' \/ client[c].id \in activated',
         consumed' \in [1..MaxUserRequest -> Nat]
  PROVE  IInv'
<1> USE DEF IInv
<1>a. /\ Writes(c, op) /\ UserAllowed(client[c].id, client[c].row) /\ Ends(c)
      /\ user' = [user EXCEPT ![client[c].id] = client[c].row]
      /\ UNCHANGED <<account, session, sessions, smtp, tokens>>
  BY DEF WritesUser, accountVars
<1>b. PICK i \in AccountIds, row \in UserRow :
         i = client[c].id /\ row = client[c].row /\ account[i] = "user"
  BY <1>a, ClientType DEF Writes, ClientInv
<1>c. /\ client' \in [Clients -> UserRequest] /\ client'[c].pc = "idle"
      /\ \A d \in Clients \ {c} : client'[d] = client[d]
  BY <1>a, RequestEnds
<1>d. user'[i] = row /\ \A j \in AccountIds \ {i} : user'[j] = user[j]
  BY <1>a, <1>b DEF UsersTypeOK
<1>1. UsersTypeOK'
  <2>1. IsFiniteSet(token')
    BY FS_Subset DEF UsersTypeOK
  <2>2. user' \in [AccountIds -> UserRow]
    BY <1>a, <1>b DEF UsersTypeOK
  <2> QED BY <1>a, <1>c, <2>1, <2>2 DEF UsersTypeOK
<1>2. RowsInv'
  <2>1. (smtp' /\ row.status = "active" => <<i, row.email>> \in confirmed' \/ i \in activated')
    BY <1>b
  <2> QED BY <1>a, <1>b, <1>d, <2>1 DEF RowsInv, MayBeActive, Grows
<1>3. ExpiryInv'
  BY DEF ExpiryInv, Grows
<1>4. LoginsUnique'
  <2>1. \A j \in AccountIds : j # i /\ user'[j] # NoUser =>
          user'[j].login # row.login /\ user'[j].email # row.email
    BY <1>a, <1>b, <1>d DEF UserAllowed, UserIds
  <2>2. \A j, k \in AccountIds : j # i /\ k # i /\ user'[j] # NoUser /\ user'[k] # NoUser
          /\ (user'[j].login = user'[k].login \/ user'[j].email = user'[k].email) => j = k
    BY <1>d DEF LoginsUnique, UserIds
  <2> QED BY <1>d, <2>1, <2>2 DEF LoginsUnique, UserIds
<1>5. LimitInv'
  BY <1>c, LimitFrame
<1>6. ASSUME NEW d \in Clients PROVE ClientInv(d)'
  <2>1. CASE d = c
    BY <1>c, <2>1, ClientRests
  <2>2. CASE d # c
    <3>1. client'[d] = client[d] /\ tokens' \in Nat /\ tokens <= tokens'
      BY <1>a, <1>c, <2>2 DEF UsersTypeOK
    <3> QED BY <3>1, ClientFrame
  <2> QED BY <2>1, <2>2
<1> QED BY <1>1, <1>2, <1>3, <1>4, <1>5, <1>6

\* The requests that write a row and nothing else.
LEMMA UpdateStep ==
  ASSUME IInv, NEW c \in Clients,
         UpdateUser(c) \/ UpdateUserPassword(c) \/ UpdateUserEmail(c) \/ UpdateUserStatus(c)
  PROVE  IInv'
<1> USE DEF IInv
<1>1. ASSUME NEW op \in {"update", "password", "email"}, WritesUser(c, op),
             UNCHANGED <<token, confirmed, activated, consumed>>
      PROVE  IInv'
  <2>1. op \in UserOps /\ Writes(c, op) /\ UNCHANGED <<account, smtp, tokens, outrun>>
    BY <1>1 DEF UserOps, WritesUser, accountVars
  <2>2. Grows
    BY <1>1, <2>1 DEF Grows
  <2>3. TokenInv'
    BY <1>1, <2>1, <2>2, TokenFrame
  <2>4. op # "email" => MayBeActive(client[c].id, client[c].row)
    BY <2>1 DEF Writes, ClientInv
  <2>5. op = "email" => ~smtp
    BY <2>1 DEF Writes, ClientInv
  <2>6. smtp' /\ client[c].row.status = "active" =>
            <<client[c].id, client[c].row.email>> \in confirmed' \/ client[c].id \in activated'
    BY <1>1, <2>1, <2>4, <2>5 DEF MayBeActive
  <2>7. consumed' \in [1..MaxUserRequest -> Nat]
    BY <1>1 DEF UsersTypeOK
  <2> QED BY <1>1, <2>1, <2>2, <2>3, <2>6, <2>7, WritesUserStep
<1>2. CASE UpdateUserStatus(c)
  <2>1. /\ WritesUser(c, "status") /\ UNCHANGED <<token, confirmed, consumed>>
        /\ activated' = activated \cup {i \in {client[c].id} : client[c].row.status = "active"}
    BY <1>2 DEF UpdateUserStatus
  <2>2. "status" \in UserOps /\ UNCHANGED <<account, smtp, tokens, outrun>>
    BY <2>1 DEF UserOps, WritesUser, accountVars
  <2>3. Grows
    BY <2>1, <2>2 DEF Grows
  <2>4. TokenInv'
    BY <2>1, <2>2, <2>3, TokenFrame
  <2>5. client[c].row.status = "active" => client[c].id \in activated'
    BY <2>1
  <2>6. consumed' \in [1..MaxUserRequest -> Nat]
    BY <2>1 DEF UsersTypeOK
  <2> QED BY <2>1, <2>2, <2>3, <2>4, <2>5, <2>6, WritesUserStep
<1> QED BY <1>1, <1>2 DEF UpdateUser, UpdateUserPassword, UpdateUserEmail

\* A token is used: it exists, so it was not used, and the row is the one it confirms.
LEMMA ConsumeTokenStep ==
  ASSUME IInv, NEW c \in Clients, ConsumeToken(c)
  PROVE  IInv'
<1> USE DEF IInv
<1>1. PICK t \in token :
        /\ t.id = client[c].token /\ WritesUser(c, "consume") /\ token' = token \ {t}
        /\ consumed' = [consumed EXCEPT ![t.id] = @ + 1]
        /\ confirmed' = confirmed \cup (IF t.kind = "email" THEN {<<t.account, t.email>>} ELSE {})
        /\ UNCHANGED activated
  BY DEF ConsumeToken
<1>2. "consume" \in UserOps /\ Writes(c, "consume") /\ UNCHANGED <<account, smtp, tokens, outrun>>
  BY <1>1 DEF UserOps, WritesUser, accountVars
<1>3. t \in TokenRow /\ t.id \in Nat /\ t.id # 0 /\ t.kind \in {"email", "password"}
  <2>1. t \in TokenRow
    BY DEF UsersTypeOK
  <2> QED BY <2>1 DEF TokenRow
<1>4. Grows
  BY <1>1, <1>2 DEF Grows
<1>5. consumed' \in [1..MaxUserRequest -> Nat]
      /\ (\A k \in 1..MaxUserRequest : k # t.id => consumed'[k] = consumed[k])
      /\ (t.id \in 1..MaxUserRequest => consumed'[t.id] = consumed[t.id] + 1)
  <2>1. /\ consumed \in [1..MaxUserRequest -> Nat]
        /\ consumed' = [consumed EXCEPT ![t.id] = consumed[t.id] + 1]
    BY <1>1 DEF UsersTypeOK
  <2>2. CASE t.id \in 1..MaxUserRequest
    <3>1. consumed[t.id] + 1 \in Nat
      BY <2>1, <2>2
    <3> QED BY <2>1, <2>2, <3>1
  <2>3. CASE t.id \notin 1..MaxUserRequest
    BY <2>1, <2>3
  <2> QED BY <2>2, <2>3
<1>6. TokenInv'
  <2>1. \A s \in token : /\ s.id <= tokens /\ account[s.account] = "user"
                         /\ s.id <= MaxUserRequest => consumed[s.id] = 0
    BY DEF TokenInv
  <2>2. \A s \in token' : s \in token /\ s.id # t.id
    BY <1>1 DEF TokenInv
  <2>3. ASSUME NEW s \in token', s.id <= MaxUserRequest PROVE consumed'[s.id] = 0
    <3>1. s \in TokenRow /\ s.id # t.id /\ consumed[s.id] = 0
      BY <2>1, <2>2, <2>3 DEF UsersTypeOK
    <3>2. s.id \in 1..MaxUserRequest
      <4>1. s.id \in Nat /\ s.id # 0
        BY <3>1 DEF TokenRow
      <4> QED BY <2>3, <4>1, UserAssumption
    <3> QED BY <1>5, <3>1, <3>2
  <2>4. ASSUME NEW k \in 1..MaxUserRequest
        PROVE  consumed'[k] <= 1 /\ (consumed'[k] # 0 => k <= tokens')
    <3>1. CASE k = t.id
      <4>1. consumed[k] = 0 /\ k <= tokens
        BY <2>1, <3>1, UserAssumption
      <4> QED BY <1>2, <1>5, <3>1, <4>1
    <3>2. CASE k # t.id
      BY <1>2, <1>5, <3>2 DEF TokenInv
    <3> QED BY <3>1, <3>2
  <2>5. \A s \in token' : s.id <= tokens' /\ account'[s.account] = "user"
    BY <1>2, <2>1, <2>2
  <2>6. \A s, u \in token' : s.id = u.id => s = u
    BY <2>2 DEF TokenInv
  <2>7. \A s, u \in token' : u.first /\ s.account = u.account => u.id <= s.id
    BY <2>2 DEF TokenInv
  <2> QED BY <2>3, <2>4, <2>5, <2>6, <2>7 DEF TokenInv
<1>7. smtp' /\ client[c].row.status = "active" =>
          <<client[c].id, client[c].row.email>> \in confirmed' \/ client[c].id \in activated'
  <2>1. /\ t.account = client[c].id
        /\ t.kind = "email" => t.email = client[c].row.email
        /\ t.kind = "password" => MayBeActive(client[c].id, client[c].row)
    BY <1>1, <1>2 DEF Writes, ClientInv
  <2>2. CASE t.kind = "email"
    BY <1>1, <2>1, <2>2
  <2>3. CASE t.kind = "password"
    BY <1>2, <1>4, <2>1, <2>3 DEF MayBeActive, Grows
  <2> QED BY <1>3, <2>2, <2>3
<1>8. token' \subseteq token
  BY <1>1
<1> QED BY <1>1, <1>2, <1>4, <1>5, <1>6, <1>7, <1>8, WritesUserStep

--------------------------------------------------------------------------------
(* New tokens *)

\* A token with a new ID, for an account, with the ones that are there.
LEMMA NewTokenInv ==
  ASSUME IInv, NEW t \in TokenRow, t.id = tokens + 1, ~t.expired, Grows,
         account'[t.account] = "user", t.first => \A s \in token : s.account # t.account,
         token' = token \cup {t}, tokens' = tokens + 1, consumed' = consumed
  PROVE  /\ t \notin token /\ tokens' \in Nat /\ tokens <= tokens'
         /\ token' \subseteq TokenRow /\ IsFiniteSet(token') /\ TokenInv' /\ ExpiryInv'
         /\ \A s \in token' : s.id <= tokens => s \in token
<1> USE DEF IInv
<1>a. tokens \in Nat /\ \A s \in token : s \in TokenRow /\ s.id \in Nat /\ s.id <= tokens
  BY DEF UsersTypeOK, TokenRow, TokenInv
<1>1. t \notin token /\ (\A s \in token : s.id # t.id /\ s.id < t.id) /\ ~ (t.id <= tokens)
  BY <1>a
<1>2. TokenInv'
  <2>1. ASSUME NEW s \in token'
        PROVE  /\ s.id <= tokens' /\ account'[s.account] = "user"
               /\ s.id <= MaxUserRequest => consumed'[s.id] = 0
    <3>1. CASE s \in token
      <4>1. s.account \in AccountIds
        BY <1>a, <3>1 DEF TokenRow
      <4> QED BY <1>a, <3>1, <4>1 DEF TokenInv, Grows
    <3>2. CASE s = t
      <4>1. t.id <= MaxUserRequest => t.id \in 1..MaxUserRequest
        BY <1>a, UserAssumption
      <4>2. t.id <= MaxUserRequest => consumed[t.id] = 0
        BY <1>1, <4>1 DEF TokenInv
      <4> QED BY <1>a, <3>2, <4>2
    <3> QED BY <3>1, <3>2
  <2>2. \A s, u \in token' : s.id = u.id => s = u
    BY <1>1 DEF TokenInv
  <2>3. \A s, u \in token' : u.first /\ s.account = u.account => u.id <= s.id
    BY <1>a, <1>1 DEF TokenInv
  <2>4. \A k \in 1..MaxUserRequest : consumed'[k] <= 1 /\ (consumed'[k] # 0 => k <= tokens')
    BY <1>a DEF TokenInv
  <2> QED BY <2>1, <2>2, <2>3, <2>4 DEF TokenInv
<1>3. ExpiryInv'
  <2> SUFFICES ASSUME NEW s \in token', NEW u \in token', s.account = u.account, s.kind = u.kind,
                      ~s.first, s.id < u.id, u.expired
               PROVE  s.expired \/ <<u.account, u.kind>> \in outrun
    BY DEF ExpiryInv, Grows
  <2>1. u \in token /\ s \in token
    BY <1>a, <1>1
  <2> QED BY <2>1 DEF ExpiryInv
<1>4. IsFiniteSet(token')
  BY FS_AddElement DEF UsersTypeOK
<1>5. token' \subseteq TokenRow /\ tokens' \in Nat /\ tokens <= tokens'
  BY <1>a
<1> QED BY <1>1, <1>2, <1>3, <1>4, <1>5

\* A token created now.
IsNewToken(t, i, kind, email) == \E first \in BOOLEAN : t = NewToken(i, kind, email, first)
FreshToken(t, i, kind) ==
    t \in TokenRow /\ t.id = tokens + 1 /\ t.account = i /\ t.kind = kind /\ ~t.expired

\* The next token ID.
LEMMA NextId ==
  ASSUME tokens \in Nat
  PROVE  tokens + 1 \in Nat \ {0} /\ tokens + 1 \in Nat /\ tokens <= tokens + 1
OBVIOUS

\* A count moves from one side of a sum to the other.
LEMMA MovesOver ==
  ASSUME NEW a \in Nat, NEW b \in Nat, NEW n \in Nat, NEW m \in Nat, NEW x, NEW y,
         x = a + 1, y = b - 1, a + b <= n + m - 1
  PROVE  x + y <= n + m - 1
OBVIOUS

\* The fields of a new token.
LEMMA NewTokenType ==
  ASSUME tokens \in Nat, NEW i \in AccountIds, NEW kind \in {"email", "password"},
         NEW email \in Emails \cup {""}, NEW t, IsNewToken(t, i, kind, email)
  PROVE  FreshToken(t, i, kind)
<1>1. tokens + 1 \in Nat \ {0}
  BY NextId
<1>2. PICK first \in BOOLEAN : t = NewToken(i, kind, email, first)
  BY DEF IsNewToken
<1>3. t = [id |-> tokens + 1, account |-> i, kind |-> kind, email |-> email, first |-> first,
           expired |-> FALSE]
  BY <1>2 DEF NewToken
<1>4. t.id = tokens + 1 /\ t.account = i /\ t.kind = kind
  BY <1>3
<1>5. ~t.expired
  BY <1>3
<1>6. t \in TokenRow
  BY <1>1, <1>3, Zenon DEF TokenRow
<1> QED BY <1>4, <1>5, <1>6 DEF FreshToken

\* The other requests, when a token is added.
LEMMA OthersKeep ==
  ASSUME IInv, NEW c \in Clients, client'[c].pc # "write",
         \A d \in Clients \ {c} : client'[d] = client[d], Grows, tokens' \in Nat, tokens <= tokens',
         \A s \in token' : s.id <= tokens => s \in token, NEW d \in Clients
  PROVE  ClientInv(d)'
<1>1. CASE d = c
  BY <1>1, ClientRests
<1>2. CASE d # c
  BY <1>2, ClientFrame DEF IInv
<1> QED BY <1>1, <1>2

\* A request creates its token: it stood for one in the count.
LEMMA CreateTokenStep ==
  ASSUME IInv, NEW c \in Clients, CreateToken(c)
  PROVE  IInv'
<1> USE DEF IInv
<1>1. PICK kind \in {"email", "password"}, i \in AccountIds, email \in Emails \cup {""},
             t \in token' :
        /\ client[c].op = TokenOp(kind) /\ client[c].id = i /\ account[i] = "user"
        /\ t = NewToken(i, kind, email, FALSE) /\ token' = token \cup {t}
  <2>1. client[c].pc = "write" /\ client[c].op \in {"email token", "password token"}
    BY DEF CreateToken
  <2>2. client[c].id \in AccountIds /\ account[client[c].id] = "user"
    BY <2>1 DEF ClientInv, UserOps
  <2>3. client[c].row.email \in Emails \cup {""}
    BY ClientType DEF UserRow
  <2>4. CASE client[c].op = "email token"
    BY <2>2, <2>3, <2>4 DEF CreateToken, TokenOp
  <2>5. CASE client[c].op = "password token"
    BY <2>2, <2>3, <2>5 DEF CreateToken, TokenOp
  <2> QED BY <2>1, <2>4, <2>5
<1>2. /\ client[c].pc = "write" /\ tokens' = tokens + 1 /\ tokens \in Nat
      /\ client' = [client EXCEPT ![c] = [client[c] EXCEPT !.pc = "mail", !.token = tokens']]
      /\ UNCHANGED accountVars /\ UNCHANGED <<smtp, user, confirmed, activated, consumed, outrun>>
  BY DEF CreateToken, ClientAt, UsersTypeOK
<1>3. UNCHANGED <<account, session, sessions>> /\ Grows
  BY <1>2 DEF accountVars, Grows
<1>a. tokens \in Nat /\ tokens' = tokens + 1 /\ tokens' \in Nat /\ tokens <= tokens'
  <2>1. tokens \in Nat /\ tokens' = tokens + 1
    BY DEF CreateToken, UsersTypeOK
  <2> QED BY <2>1, NextId
<1>4. /\ client' \in [Clients -> UserRequest] /\ client'[c].pc = "mail"
      /\ \A d \in Clients \ {c} : client'[d] = client[d]
  <2>1. client[c] \in UserRequest /\ tokens' \in Nat
    BY <1>a, ClientType
  <2>2. [client[c] EXCEPT !.pc = "mail", !.token = tokens'] \in UserRequest
        /\ [client[c] EXCEPT !.pc = "mail", !.token = tokens'].pc = "mail"
    BY <2>1 DEF UserRequest
  <2> QED BY <1>2, <2>2 DEF UsersTypeOK
<1>5. /\ t \in TokenRow /\ t.account = i /\ t.kind = kind
      /\ ~t.first /\ ~t.expired /\ t \notin token
      /\ token' \subseteq TokenRow /\ IsFiniteSet(token') /\ TokenInv' /\ ExpiryInv'
      /\ tokens' \in Nat /\ \A s \in token' : s.id <= tokens => s \in token
  <2>1. t \in TokenRow /\ t.id = tokens + 1 /\ t.account = i /\ t.kind = kind /\ ~t.expired
    <3>1. IsNewToken(t, i, kind, email)
      BY <1>1 DEF IsNewToken
    <3>2. tokens \in Nat
      BY <1>a
    <3>3. FreshToken(t, i, kind)
      BY <3>1, <3>2, NewTokenType
    <3> QED BY <3>3 DEF FreshToken
  <2>2. ~t.first
    BY <1>1 DEF NewToken
  <2>3. account'[t.account] = "user" /\ consumed' = consumed
    BY <1>1, <1>2, <1>3, <2>1
  <2> QED BY <1>1, <1>3, <1>a, <2>1, <2>2, <2>3, NewTokenInv
<1>6. UsersTypeOK'
  BY <1>2, <1>3, <1>4, <1>5 DEF UsersTypeOK
<1>7. RowsInv'
  BY <1>2, <1>3, RowsFrame
<1>8. LoginsUnique'
  BY <1>2 DEF LoginsUnique, UserIds
<1>9. ASSUME NEW j \in AccountIds, NEW k \in {"email", "password"}, <<j, k>> \notin outrun
      PROVE  LimitOf(j, k)'
  <2>1. CASE j = i /\ k = kind
    <3>1. LiveTokens(j, k)' = LiveTokens(j, k) \cup {t} /\ t \notin LiveTokens(j, k)
      BY <1>1, <1>5, <2>1 DEF LiveTokens
    <3>2. Creating(j, k)' = Creating(j, k) \ {c} /\ c \in Creating(j, k)
      BY <1>1, <1>2, <1>4, <2>1 DEF Creating, TokenOp
    <3>3. Cardinality(LiveTokens(j, k)') = Cardinality(LiveTokens(j, k)) + 1
      BY <3>1, LimitTypes, FS_AddElement
    <3>4. Cardinality(Creating(j, k)') = Cardinality(Creating(j, k)) - 1
      BY <3>2, LimitTypes, FS_RemoveElement
    <3>5. Cardinality(LiveTokens(j, k)) + Cardinality(Creating(j, k))
            <= TokensLimit + Cardinality(Clients) - 1
      BY <1>9 DEF LimitInv, LimitOf
    <3>6. Cardinality(LiveTokens(j, k)') + Cardinality(Creating(j, k)')
            <= TokensLimit + Cardinality(Clients) - 1
      <4>1. /\ Cardinality(LiveTokens(j, k)) \in Nat /\ Cardinality(Creating(j, k)) \in Nat
            /\ Cardinality(Clients) \in Nat /\ TokensLimit \in Nat
        BY LimitTypes
      <4> QED BY <3>3, <3>4, <3>5, <4>1, MovesOver
    <3> QED BY <3>6 DEF LimitOf
  <2>2. CASE ~ (j = i /\ k = kind)
    <3>1. LiveTokens(j, k)' = LiveTokens(j, k)
      BY <1>1, <1>5, <2>2 DEF LiveTokens
    <3>2. Creating(j, k)' = Creating(j, k)
      BY <1>1, <1>4, <2>2 DEF Creating, TokenOp
    <3> QED BY <1>9, <3>1, <3>2 DEF LimitInv, LimitOf
  <2> QED BY <2>1, <2>2
<1>10. ASSUME NEW d \in Clients PROVE ClientInv(d)'
  BY <1>3, <1>4, <1>5, <1>a, OthersKeep
<1> QED BY <1>2, <1>5, <1>6, <1>7, <1>8, <1>9, <1>10 DEF LimitInv

\* A user is registered on an account that nothing refers to yet.
LEMMA RegisterUserStep ==
  ASSUME IInv, NEW c \in Clients, RegisterUser(c)
  PROVE  IInv'
<1> USE DEF IInv
<1>1. /\ Writes(c, "register") /\ UserAllowed(0, client[c].row) /\ FreeIds # {}
      /\ account' = [account EXCEPT ![NewAccount] = "user"]
      /\ user' = [user EXCEPT ![NewAccount] = client[c].row]
      /\ UNCHANGED <<session, sessions, smtp, confirmed, activated, consumed, outrun>>
  BY DEF RegisterUser, CreateAccount
<1>2. PICK i \in AccountIds, row \in UserRow :
        /\ i = NewAccount /\ row = client[c].row /\ account[i] = "none"
        /\ (smtp => row.status = "pending")
  BY <1>1, FreshAccount, ClientType DEF Writes, ClientInv
<1>3. /\ account'[i] = "user" /\ user'[i] = row /\ account' \in [AccountIds -> {"none", "user"}]
      /\ user' \in [AccountIds -> UserRow]
      /\ \A j \in AccountIds \ {i} : account'[j] = account[j] /\ user'[j] = user[j]
  BY <1>1, <1>2 DEF UsersTypeOK
<1>4. Grows
  BY <1>1, <1>2, <1>3 DEF Grows
<1>5. \A s \in token : s.account # i
  BY <1>2 DEF TokenInv
<1>6. /\ client' \in [Clients -> UserRequest] /\ client'[c].pc # "write"
      /\ \A d \in Clients \ {c} : client'[d] = client[d]
  <2>1. CASE smtp
    <3>1. client' = [client EXCEPT ![c] = [client[c] EXCEPT !.pc = "mail", !.token = tokens']]
          /\ tokens' = tokens + 1
      BY <2>1 DEF RegisterUser, ClientAt
    <3>2. client[c] \in UserRequest /\ tokens' \in Nat
      BY <3>1, ClientType DEF UsersTypeOK
    <3>3. [client[c] EXCEPT !.pc = "mail", !.token = tokens'] \in UserRequest
          /\ [client[c] EXCEPT !.pc = "mail", !.token = tokens'].pc = "mail"
      BY <3>2 DEF UserRequest
    <3> QED BY <3>1, <3>3 DEF UsersTypeOK
  <2>2. CASE ~smtp
    <3>1. Ends(c)
      BY <2>2 DEF RegisterUser
    <3> QED BY <3>1, RequestEnds
  <2> QED BY <2>1, <2>2
<1>7. /\ token' \subseteq TokenRow /\ IsFiniteSet(token') /\ TokenInv' /\ ExpiryInv'
      /\ tokens' \in Nat /\ tokens <= tokens'
      /\ (\A s \in token' : s.id <= tokens => s \in token)
      /\ (\A s \in token' : s \in token \/ s.first)
  <2>1. CASE smtp
    <3>1. PICK t : t = NewToken(i, "email", row.email, TRUE)
      OBVIOUS
    <3>2. token' = token \cup {t} /\ tokens' = tokens + 1
      BY <1>2, <2>1, <3>1 DEF RegisterUser
    <3>3. row.email \in Emails \cup {""}
      BY DEF UserRow
    <3>4. t \in TokenRow /\ t.id = tokens + 1 /\ t.account = i /\ ~t.expired
      <4>1. IsNewToken(t, i, "email", row.email)
        BY <3>1 DEF IsNewToken
      <4>2. tokens \in Nat
        BY DEF UsersTypeOK
      <4>3. "email" \in {"email", "password"}
        OBVIOUS
      <4>4. FreshToken(t, i, "email")
        BY <4>1, <4>2, <4>3, <3>3, NewTokenType
      <4> QED BY <4>4 DEF FreshToken
    <3>5. t.first
      BY <3>1 DEF NewToken
    <3>6. account'[t.account] = "user" /\ consumed' = consumed
          /\ \A s \in token : s.account # t.account
      BY <1>1, <1>3, <1>5, <3>4
    <3>7. /\ token' \subseteq TokenRow /\ IsFiniteSet(token') /\ TokenInv' /\ ExpiryInv'
          /\ tokens' \in Nat /\ tokens <= tokens'
          /\ \A s \in token' : s.id <= tokens => s \in token
      BY <1>4, <3>2, <3>4, <3>6, NewTokenInv
    <3> QED BY <3>2, <3>5, <3>7
  <2>2. CASE ~smtp
    <3>1. token' = token /\ tokens' = tokens
      BY <2>2 DEF RegisterUser
    <3>2. TokenInv' /\ ExpiryInv'
      BY <1>1, <1>4, <3>1, TokenFrame
    <3> QED BY <3>1, <3>2 DEF UsersTypeOK
  <2> QED BY <2>1, <2>2
<1>8. UsersTypeOK'
  BY <1>1, <1>3, <1>6, <1>7 DEF UsersTypeOK
<1>9. RowsInv'
  BY <1>1, <1>2, <1>3 DEF RowsInv, MayBeActive
<1>10. LoginsUnique'
  <2>1. \A j \in AccountIds : j # i /\ user'[j] # NoUser =>
          user'[j].login # row.login /\ user'[j].email # row.email
    <3> SUFFICES ASSUME NEW j \in AccountIds, j # i, user[j] # NoUser
                 PROVE  user[j].login # row.login /\ user[j].email # row.email
      BY <1>3
    <3>1. j # 0
      BY AccountAssumption DEF AccountIds
    <3> QED BY <1>1, <1>2, <3>1 DEF UserAllowed, UserIds
  <2>2. \A j, k \in AccountIds : j # i /\ k # i /\ user'[j] # NoUser /\ user'[k] # NoUser
          /\ (user'[j].login = user'[k].login \/ user'[j].email = user'[k].email) => j = k
    BY <1>3 DEF LoginsUnique, UserIds
  <2> QED BY <1>3, <2>1, <2>2 DEF LoginsUnique, UserIds
<1>11. ASSUME NEW j \in AccountIds, NEW k \in {"email", "password"}, <<j, k>> \notin outrun
       PROVE  LimitOf(j, k)'
  <2>1. LiveTokens(j, k)' \subseteq LiveTokens(j, k)
    BY <1>7 DEF LiveTokens
  <2>2. Creating(j, k)' \subseteq Creating(j, k)
    BY <1>6 DEF Creating, TokenOp
  <2> QED BY <1>11, <2>1, <2>2, LimitShrinks DEF LimitInv
<1>12. ASSUME NEW d \in Clients PROVE ClientInv(d)'
  BY <1>4, <1>6, <1>7, OthersKeep
<1> QED BY <1>1, <1>7, <1>8, <1>9, <1>10, <1>11, <1>12 DEF LimitInv

--------------------------------------------------------------------------------
(* Time and the daemons *)

\* A token expires, after those with lower IDs or before one of them.
LEMMA TokenExpiresStep ==
  ASSUME IInv, NEW t \in token, TokenExpires(t)
  PROVE  IInv'
<1> USE DEF IInv
<1>1. PICK e : e = [t EXCEPT !.expired = TRUE]
  OBVIOUS
<1>2. /\ token' = (token \ {t}) \cup {e}
      /\ UNCHANGED <<account, session, sessions, smtp, user, tokens, client, confirmed, activated>>
      /\ UNCHANGED consumed
  BY <1>1 DEF TokenExpires, accountVars
<1>3. t \in TokenRow
  BY DEF UsersTypeOK
<1>4. /\ e \in TokenRow /\ e.id = t.id /\ e.account = t.account /\ e.kind = t.kind
      /\ e.email = t.email /\ e.first = t.first /\ e.expired
  BY <1>1, <1>3 DEF TokenRow
<1>5. Grows
  BY <1>2 DEF Grows, TokenExpires
<1>6. UsersTypeOK'
  <2>1. IsFiniteSet(token')
    BY <1>2, FS_AddElement, FS_RemoveElement DEF UsersTypeOK
  <2> QED BY <1>2, <1>4, <2>1 DEF UsersTypeOK
<1>7. TokenInv'
  <2>1. \A s \in token \ {t} : s.id # t.id
    BY DEF TokenInv
  <2>2. \A s \in token' : /\ s.id <= tokens' /\ account'[s.account] = "user"
                          /\ s.id <= MaxUserRequest => consumed'[s.id] = 0
    BY <1>2, <1>4 DEF TokenInv
  <2>3. \A s, u \in token' : s.id = u.id => s = u
    BY <1>2, <1>4, <2>1 DEF TokenInv
  <2>4. \A s, u \in token' : u.first /\ s.account = u.account => u.id <= s.id
    BY <1>2, <1>4 DEF TokenInv
  <2>5. \A k \in 1..MaxUserRequest : consumed'[k] <= 1 /\ (consumed'[k] # 0 => k <= tokens')
    BY <1>2 DEF TokenInv
  <2> QED BY <2>2, <2>3, <2>4, <2>5 DEF TokenInv
<1>8. ExpiryInv'
  <2> SUFFICES ASSUME NEW s \in token', NEW u \in token', s.account = u.account, s.kind = u.kind,
                      ~s.first, s.id < u.id, u.expired
               PROVE  s.expired \/ <<u.account, u.kind>> \in outrun'
    BY DEF ExpiryInv
  <2>1. CASE s = e
    BY <1>4, <2>1
  <2>2. CASE s # e /\ u = e
    <3>1. s \in token /\ s.account = t.account /\ s.kind = t.kind /\ s.id < t.id
      BY <1>2, <1>4, <2>2
    <3>2. ~s.expired => <<s.account, s.kind>> \in outrun'
      BY <3>1 DEF TokenExpires
    <3> QED BY <3>2
  <2>3. CASE s # e /\ u # e
    BY <1>2, <1>5, <2>3 DEF ExpiryInv, Grows
  <2> QED BY <2>1, <2>2, <2>3
<1>9. ASSUME NEW j \in AccountIds, NEW k \in {"email", "password"}, <<j, k>> \notin outrun
      PROVE  LimitOf(j, k)'
  <2>1. LiveTokens(j, k)' \subseteq LiveTokens(j, k)
    BY <1>2, <1>4 DEF LiveTokens
  <2>2. Creating(j, k)' \subseteq Creating(j, k)
    BY <1>2 DEF Creating
  <2> QED BY <1>9, <2>1, <2>2, LimitShrinks DEF LimitInv
<1>10. ASSUME NEW d \in Clients PROVE ClientInv(d)'
  <2>1. client'[d] = client[d] /\ tokens' \in Nat /\ tokens <= tokens'
    BY <1>2 DEF UsersTypeOK
  <2>2. \A x \in token' : \E s \in token : s.id = x.id /\ s.account = x.account
                                           /\ s.kind = x.kind /\ s.email = x.email
    BY <1>2, <1>4
  <2> QED BY <1>5, <2>1, <2>2, ClientFrame
<1>11. RowsInv' /\ LoginsUnique'
  BY <1>2, <1>5, RowsFrame DEF LoginsUnique, UserIds
<1> QED BY <1>5, <1>6, <1>7, <1>8, <1>9, <1>10, <1>11 DEF LimitInv, Grows

\* The daemons remove tokens and sessions.
LEMMA DaemonStep ==
  ASSUME IInv, (\E t \in token : TokenCleanup(t)) \/ (AccountNext /\ UNCHANGED userVars)
  PROVE  IInv'
<1> USE DEF IInv
<1> DEFINE Session == [id : Nat, account : AccountIds, expired : BOOLEAN]
<1>1. UNCHANGED <<account, smtp, user, tokens, client, confirmed, activated, consumed, outrun>>
      /\ sessions' = sessions /\ token' \subseteq token
  BY DEF TokenCleanup, accountVars, AccountNext, SessionCleanup, CleanupFind, CleanupDelete,
         CleanupFails, SessionExpires, userVars
<1>2. session' \subseteq Session
  <2>1. session \subseteq Session
    BY DEF UsersTypeOK
  <2>2. CASE \E s \in session : SessionExpires(s)
    <3>1. PICK s \in session : session' = (session \ {s}) \cup {[s EXCEPT !.expired = TRUE]}
      BY <2>2 DEF SessionExpires
    <3>2. s \in Session
      BY <2>1
    <3>3. [s EXCEPT !.expired = TRUE] \in Session
      BY <3>2
    <3> QED BY <2>1, <3>1, <3>3
  <2>3. CASE session' \subseteq session
    BY <2>1, <2>3
  <2>4. session' \subseteq session \/ \E s \in session : SessionExpires(s)
    BY DEF TokenCleanup, accountVars, AccountNext, SessionCleanup, CleanupFind, CleanupDelete,
           CleanupFails, RemoveSession
  <2> QED BY <2>2, <2>3, <2>4
<1>3. UsersTypeOK'
  <2>1. IsFiniteSet(token')
    BY <1>1, FS_Subset DEF UsersTypeOK
  <2> QED BY <1>1, <1>2, <2>1 DEF UsersTypeOK
<1>4. Grows
  BY <1>1 DEF Grows
<1>5. RowsInv' /\ LoginsUnique'
  BY <1>1, <1>4, RowsFrame DEF LoginsUnique, UserIds
<1>6. TokenInv' /\ ExpiryInv'
  BY <1>1, <1>4, TokenFrame
<1>7. LimitInv'
  BY <1>1, <1>4, LimitFrame
<1>8. ASSUME NEW d \in Clients PROVE ClientInv(d)'
  <2>1. client'[d] = client[d] /\ tokens' \in Nat /\ tokens <= tokens'
    BY <1>1 DEF UsersTypeOK
  <2> QED BY <1>1, <1>4, <2>1, ClientFrame
<1> QED BY <1>3, <1>5, <1>6, <1>7, <1>8

--------------------------------------------------------------------------------
(* The invariant and what follows from it *)

\* No users, no tokens and no requests.
LEMMA InitInvariant == AccountInit(0) /\ UserInit => IInv
<1> SUFFICES ASSUME AccountInit(0), UserInit PROVE IInv
  OBVIOUS
<1>1. NoUser \in UserRow /\ NoUser.status = ""
  BY DEF NoUser, UserRow, Statuses
<1>2. NoUserRequest \in UserRequest /\ NoUserRequest.pc = "idle"
  BY NoRequestType
<1>3. account \in [AccountIds -> {"none", "user"}] /\ \A i \in AccountIds : account[i] = "none"
  BY AccountAssumption DEF AccountIds, AccountInit
<1>4. UsersTypeOK
  BY <1>1, <1>2, <1>3, FS_EmptySet DEF UsersTypeOK, AccountInit, UserInit
<1>5. RowsInv /\ LoginsUnique
  BY <1>1 DEF RowsInv, MayBeActive, LoginsUnique, UserIds, UserInit
<1>6. TokenInv /\ ExpiryInv
  BY UserAssumption DEF TokenInv, ExpiryInv, UserInit
<1>7. LimitInv
  <2> SUFFICES ASSUME NEW i \in AccountIds, NEW kind \in {"email", "password"}
               PROVE  LimitOf(i, kind)
    BY DEF LimitInv
  <2>1. LiveTokens(i, kind) = {} /\ Creating(i, kind) = {}
    BY <1>2 DEF LiveTokens, Creating, UserInit
  <2>2. Cardinality(LiveTokens(i, kind)) = 0 /\ Cardinality(Creating(i, kind)) = 0
    BY <2>1, FS_EmptySet
  <2> QED BY <1>4, <2>2, LimitTypes DEF LimitOf
<1>8. \A c \in Clients : ClientInv(c)
  BY <1>2 DEF ClientInv, UserInit
<1> QED BY <1>4, <1>5, <1>6, <1>7, <1>8 DEF IInv

\* Every step of the specification.
LEMMA StepInvariant == IInv /\ [UsersNext]_<<accountVars, userVars>> => IInv'
<1> SUFFICES ASSUME IInv, [UsersNext]_<<accountVars, userVars>> PROVE IInv'
  OBVIOUS
<1>1. CASE UNCHANGED <<accountVars, userVars>>
  <2> USE <1>1 DEF accountVars, userVars
  <2>1. UsersTypeOK'
    BY DEF IInv, UsersTypeOK
  <2>2. RowsInv' /\ LoginsUnique' /\ TokenInv' /\ ExpiryInv'
    BY DEF IInv, RowsInv, MayBeActive, LoginsUnique, UserIds, TokenInv, ExpiryInv
  <2>3. LimitInv'
    BY DEF IInv, LimitInv, LimitOf, LiveTokens, Creating
  <2>4. ASSUME NEW c \in Clients PROVE ClientInv(c)'
    BY DEF IInv, ClientInv, MayBeActive
  <2> QED BY <2>1, <2>2, <2>3, <2>4 DEF IInv
<1>2. ASSUME NEW c \in Clients, UserRead(c) PROVE IInv'
  BY <1>2, UserReadStep
<1>3. ASSUME NEW c \in Clients, UserWrite(c) PROVE IInv'
  BY <1>3, RegisterUserStep, UpdateStep, ConsumeTokenStep, CreateTokenStep, QuietStep
     DEF UserWrite
<1>4. ASSUME NEW t \in token, TokenExpires(t) PROVE IInv'
  BY <1>4, TokenExpiresStep
<1>5. CASE (\E t \in token : TokenCleanup(t)) \/ (AccountNext /\ UNCHANGED userVars)
  BY <1>5, DaemonStep
<1> QED BY <1>1, <1>2, <1>3, <1>4, <1>5 DEF UsersNext, UserNext

\* The invariant, for every number of clients, accounts and requests.
THEOREM Invariant == UsersSpec => []IInv
<1>1. AccountInit(0) /\ UserInit => IInv
  BY InitInvariant
<1>2. IInv /\ [UsersNext]_<<accountVars, userVars>> => IInv'
  BY StepInvariant
<1> QED BY <1>1, <1>2, PTL DEF UsersSpec

\* With mail configured, an active user has an email that a token confirmed, or was
\* activated by hand, although every request writes back a whole row it read before
\* other requests wrote theirs.
THEOREM ActiveUsersConfirmed == UsersSpec => []ActiveEmailIsConfirmed
<1>1. IInv => ActiveEmailIsConfirmed
  BY DEF IInv, RowsInv, MayBeActive, ActiveEmailIsConfirmed, UserIds
<1> QED BY <1>1, Invariant, PTL

\* A token takes effect at most once, logins and emails are unique, and requests at
\* the same time exceed the limit of tokens by no more than one for each other client,
\* unless a token of the account and kind has expired before one with a lower ID.
THEOREM UsersAreConsistent == UsersSpec => []UsersInv
<1>1. ASSUME IInv PROVE UsersInv
  <2>1. TokenUsedOnce
    BY <1>1 DEF IInv, TokenUsedOnce, TokenInv, UsersTypeOK
  <2>2. TokensBounded
    <3> SUFFICES ASSUME NEW i \in UserIds, NEW kind \in {"email", "password"},
                        <<i, kind>> \notin outrun
                 PROVE  Cardinality(LiveTokens(i, kind)) <= TokensLimit + Cardinality(Clients) - 1
      BY DEF TokensBounded, LiveTokens
    <3>1. i \in AccountIds /\ LimitOf(i, kind)
      BY <1>1 DEF UserIds, IInv, LimitInv
    <3> QED BY <1>1, <3>1, LimitTypes DEF IInv, LimitOf
  <2>3. LoginsUnique
    BY <1>1 DEF IInv
  <2> QED BY <2>1, <2>2, <2>3 DEF UsersInv
<1> QED BY <1>1, Invariant, PTL

--------------------------------------------------------------------------------
(* Groups, scopes and their accounts: the invariant *)

\* The kinds of accounts that have a row under the same ID.
OwnedKinds == {"group", "scope", "scope user"}
ObjectRow == [kind : OwnedKinds \cup {"none"}, owner : 0..MaxAccount, scope : 0..MaxAccount,
              login : ScopeLogins \cup {""}]
MemberRow(ids) == [id : ids, group : AccountIds, account : AccountIds, kind : {"regular", "manager"}]
SessionRow == [id : 1..sessions, account : AccountIds, expired : BOOLEAN]

AccountsTyped ==
    /\ account \in [AccountIds -> OwnedKinds \cup {"none", "user", "gone"}]
    /\ object \in [AccountIds -> ObjectRow]
MembersTyped == members \in Nat /\ member \subseteq MemberRow(1..members)
SessionsTyped == sessions \in Nat /\ session \subseteq SessionRow
GroupsTypeOK == AccountsTyped /\ MembersTyped /\ SessionsTyped /\ DOMAIN groupClient = GroupClients

\* An account of an owned kind, and no other, has a row, which is of its kind.
KindOf(i) == IF account[i] \in OwnedKinds THEN account[i] ELSE "none"
AccountsHaveRows ==
    \A i \in AccountIds : object[i].kind = KindOf(i) /\ (object[i].kind = "none" => object[i] = NoObject)
ObjectsRefer ==
    \A i \in AccountIds :
        Exists(object[i].owner) /\ (object[i].scope # 0 => account[object[i].scope] = "scope")
MembersRefer == \A m \in member : account[m.group] = "group" /\ account[m.account] = "user"
SessionsRefer == \A s \in session : HasAccount(s.account)
MembersDiffer == \A m, n \in member : m.id = n.id => m = n
SessionsDiffer == \A s, t \in session : s.id = t.id => s = t

\* What a request has read is of the same kind, or gone, when it is written; the
\* sessions a logout has found and is done with do not come back.
PendingLogout(q) ==
    /\ q.left \subseteq q.found /\ q.found \subseteq 1..sessions
    /\ \A s \in session : s.id \notin q.found \ q.left
PendingGroupRequest(q) ==
    /\ q.op = "create" => q.row \in ObjectRow /\ q.row.kind \in OwnedKinds
    /\ q.op = "update" =>
           /\ q.id \in AccountIds /\ account[q.id] \in {q.row.kind, "gone"}
           /\ q.row \in ObjectRow /\ q.row.kind \in OwnedKinds
    /\ q.op = "delete" => q.id \in AccountIds
    /\ q.op = "create member" => q.member \in MemberRow({0}) /\ account[q.member.account] = "user"
    /\ q.op = "update member" =>
           /\ q.member \in MemberRow(1..members)
           /\ \A n \in member : n.id = q.member.id =>
                  n.group = q.member.group /\ n.account = q.member.account
    /\ q.pc = "logout" => PendingLogout(q)

GroupRowsInv ==
    /\ AccountsHaveRows /\ ObjectsRefer /\ MembersRefer /\ SessionsRefer
    /\ MembersDiffer /\ SessionsDiffer /\ OneMembership
GroupsIInv ==
    /\ GroupsTypeOK /\ GroupRowsInv
    /\ \A c \in GroupClients : PendingGroupRequest(groupClient[c])

\* The cache of standings: who builds has an entry that is not done, alone.
CacheIInv ==
    /\ entry.id \in Nat /\ DOMAIN viewer = Viewers
    /\ \A v \in Viewers : viewer[v].pc = "build" => ~entry.done
    /\ \A v, w \in Viewers : viewer[v].pc = "build" /\ viewer[w].pc = "build" => v = w

\* The visits that were written, the one that is, and those in the channel follow
\* one another.
Ascending(s) == s \in Seq(Nat) /\ \A i, j \in 1..Len(s) : i < j => s[i] < s[j]
AllBelow(s, n) == \A i \in 1..Len(s) : s[i] < n
AllAbove(s, n) == \A i \in 1..Len(s) : n < s[i]
VisitIsPending == visitsDaemon \in {"create", "drain"}
VisitsIInv ==
    /\ lastVisit \in Nat /\ Ascending(finished) /\ Ascending(channel)
    /\ AllBelow(finished, lastVisit + 1) /\ AllBelow(channel, lastVisit + 1)
    /\ \A i \in 1..Len(finished) : AllAbove(channel, finished[i])
    /\ VisitIsPending =>
           visit \in 0..lastVisit /\ AllBelow(finished, visit) /\ AllAbove(channel, visit)

ServicesIInv == GroupsIInv /\ CacheIInv /\ VisitsIInv


--------------------------------------------------------------------------------
(* Groups: frames *)

\* What a step does to accounts, members and sessions as others see it: users stay,
\* an account keeps its kind or goes, members and sessions keep their ID and what
\* they are of, and new ones have new IDs.
UsersStay == \A i \in AccountIds : account[i] = "user" => account'[i] = "user"
KindsStay ==
    \A i \in AccountIds : account[i] \in OwnedKinds \cup {"gone"} => account'[i] \in {account[i], "gone"}
MembersStay ==
    /\ members' \in Nat /\ members <= members'
    /\ \A n \in member' : n.id \in 1..members =>
           \E m \in member : m.id = n.id /\ m.group = n.group /\ m.account = n.account
SessionsStay ==
    /\ sessions' \in Nat /\ sessions <= sessions'
    /\ \A s \in session' : s.id \in 1..sessions => \E t \in session : t.id = s.id

\* A request that waits is kept.
LEMMA PendingKept ==
  ASSUME GroupsTypeOK, UsersStay, KindsStay, MembersStay, SessionsStay,
         NEW q, PendingGroupRequest(q)
  PROVE  PendingGroupRequest(q)'
<1>n. members \in Nat /\ sessions \in Nat /\ members' \in Nat /\ sessions' \in Nat
      /\ members <= members' /\ sessions <= sessions'
  BY DEF GroupsTypeOK, MembersTyped, SessionsTyped, MembersStay, SessionsStay
<1>m. 1..members \subseteq 1..members' /\ 1..sessions \subseteq 1..sessions'
  BY <1>n
<1>1. q.op = "create" => q.row \in ObjectRow /\ q.row.kind \in OwnedKinds
  BY DEF PendingGroupRequest
<1>2. ASSUME q.op = "update"
      PROVE  /\ q.id \in AccountIds /\ account'[q.id] \in {q.row.kind, "gone"}
             /\ q.row \in ObjectRow /\ q.row.kind \in OwnedKinds
  <2>1. /\ q.id \in AccountIds /\ account[q.id] \in {q.row.kind, "gone"}
        /\ q.row \in ObjectRow /\ q.row.kind \in OwnedKinds
    BY <1>2 DEF PendingGroupRequest
  <2> QED BY <2>1 DEF KindsStay
<1>3. q.op = "delete" => q.id \in AccountIds
  BY DEF PendingGroupRequest
<1>4. q.op = "create member" => q.member \in MemberRow({0}) /\ account'[q.member.account] = "user"
  <2>1. q.op = "create member" => q.member \in MemberRow({0}) /\ account[q.member.account] = "user"
    BY DEF PendingGroupRequest
  <2> QED BY <2>1 DEF MemberRow, UsersStay
<1>5. ASSUME q.op = "update member"
      PROVE  /\ q.member \in MemberRow(1..members')
             /\ \A n \in member' : n.id = q.member.id =>
                    n.group = q.member.group /\ n.account = q.member.account
  <2>1. /\ q.member \in MemberRow(1..members)
        /\ \A n \in member : n.id = q.member.id =>
               n.group = q.member.group /\ n.account = q.member.account
    BY <1>5 DEF PendingGroupRequest
  <2>2. q.member.id \in 1..members
    BY <2>1 DEF MemberRow
  <2>3. q.member \in MemberRow(1..members')
    BY <2>1, <1>m DEF MemberRow
  <2> QED BY <2>1, <2>2, <2>3 DEF MembersStay
<1>6. ASSUME q.pc = "logout" PROVE PendingLogout(q)'
  <2>1. PendingLogout(q)
    BY <1>6 DEF PendingGroupRequest
  <2>2. q.left \subseteq q.found /\ q.found \subseteq 1..sessions
    BY <2>1 DEF PendingLogout
  <2>3. ASSUME NEW s \in session' PROVE s.id \notin q.found \ q.left
    BY <2>1, <2>2 DEF PendingLogout, SessionsStay
  <2>4. q.found \subseteq 1..sessions'
    BY <2>2, <1>m
  <2> QED BY <2>2, <2>3, <2>4 DEF PendingLogout
<1> QED BY <1>1, <1>2, <1>3, <1>4, <1>5, <1>6, Zenon DEF PendingGroupRequest

\* A client without a request.
LEMMA NoGroupRequestPending == PendingGroupRequest(NoGroupRequest) /\ PendingGroupRequest(NoGroupRequest)'
BY DEF NoGroupRequest, PendingGroupRequest

\* One request ends, or goes on, and the others wait.
LEMMA RequestsKept ==
  ASSUME GroupsIInv, UsersStay, KindsStay, MembersStay, SessionsStay, NEW c \in GroupClients,
         NEW q, PendingGroupRequest(q)', groupClient' = [groupClient EXCEPT ![c] = q]
  PROVE  /\ DOMAIN groupClient' = GroupClients
         /\ \A d \in GroupClients : PendingGroupRequest(groupClient[d])'
<1>1. DOMAIN groupClient = GroupClients /\ GroupsTypeOK
  BY DEF GroupsIInv, GroupsTypeOK
<1>2. ASSUME NEW d \in GroupClients PROVE PendingGroupRequest(groupClient[d])'
  <2>1. CASE d = c
    <3>1. groupClient'[d] = q
      BY <1>1, <2>1
    <3>2. PICK r : r = groupClient'[d]
      OBVIOUS
    <3>3. PendingGroupRequest(r)'
      BY <3>1, <3>2
    <3> QED BY <3>2, <3>3 DEF PendingGroupRequest, PendingLogout
  <2>2. CASE d # c
    <3>1. PICK r : r = groupClient[d]
      OBVIOUS
    <3>2. PendingGroupRequest(r)
      BY <3>1 DEF GroupsIInv
    <3>3. PendingGroupRequest(r)'
      BY <1>1, <3>2, PendingKept
    <3>4. groupClient'[d] = r
      BY <1>1, <2>2, <3>1
    <3> QED BY <3>3, <3>4 DEF PendingGroupRequest, PendingLogout
  <2> QED BY <2>1, <2>2
<1> QED BY <1>1, <1>2

\* Accounts, members and sessions that are left alone.
LEMMA AccountsStay ==
  ASSUME account' = account
  PROVE  UsersStay /\ KindsStay
BY DEF UsersStay, KindsStay
LEMMA MembersLeftAlone ==
  ASSUME GroupsTypeOK, members' = members, member' \subseteq member
  PROVE  MembersStay
BY DEF GroupsTypeOK, MembersTyped, MembersStay
LEMMA SessionsGo ==
  ASSUME GroupsTypeOK, sessions' = sessions, session' \subseteq session
  PROVE  SessionsStay
BY DEF GroupsTypeOK, SessionsTyped, SessionsStay

\* A step of one request, from what it does to the tables.
LEMMA RequestStep ==
  ASSUME GroupsIInv, UsersStay, KindsStay, MembersStay, SessionsStay, NEW c \in GroupClients,
         NEW q, PendingGroupRequest(q)', groupClient' = [groupClient EXCEPT ![c] = q],
         AccountsTyped', MembersTyped', SessionsTyped', GroupRowsInv'
  PROVE  GroupsIInv'
<1>1. /\ DOMAIN groupClient' = GroupClients
      /\ \A d \in GroupClients : PendingGroupRequest(groupClient[d])'
  BY RequestsKept
<1>2. GroupsTypeOK'
  BY <1>1 DEF GroupsTypeOK
<1> QED BY <1>1, <1>2, Zenon DEF GroupsIInv

\* A step of no request.
LEMMA NoRequestStep ==
  ASSUME GroupsIInv, UsersStay, KindsStay, MembersStay, SessionsStay, groupClient' = groupClient,
         AccountsTyped', MembersTyped', SessionsTyped', GroupRowsInv'
  PROVE  GroupsIInv'
<1>1. DOMAIN groupClient' = GroupClients /\ GroupsTypeOK
  BY DEF GroupsIInv, GroupsTypeOK
<1>2. ASSUME NEW d \in GroupClients PROVE PendingGroupRequest(groupClient[d])'
  <2>1. PICK r : r = groupClient[d]
    OBVIOUS
  <2>2. PendingGroupRequest(r)
    BY <2>1 DEF GroupsIInv
  <2>3. PendingGroupRequest(r)'
    BY <1>1, <2>2, PendingKept
  <2>4. groupClient'[d] = r
    BY <2>1
  <2> QED BY <2>3, <2>4 DEF PendingGroupRequest, PendingLogout
<1>3. GroupsTypeOK'
  BY <1>1 DEF GroupsTypeOK
<1> QED BY <1>2, <1>3, Zenon DEF GroupsIInv

\* What the rows of a table that is left alone keep.
LEMMA AccountsFrame ==
  ASSUME AccountsTyped, AccountsHaveRows, ObjectsRefer, account' = account, object' = object
  PROVE  AccountsTyped' /\ AccountsHaveRows' /\ ObjectsRefer'
BY DEF AccountsTyped, AccountsHaveRows, ObjectsRefer, KindOf, Exists, HasAccount
LEMMA MembersFrame ==
  ASSUME MembersTyped, MembersRefer, MembersDiffer, OneMembership, member' \subseteq member,
         members' = members,
         \A m \in member : account'[m.group] = account[m.group] /\ account'[m.account] = account[m.account]
  PROVE  MembersTyped' /\ MembersRefer' /\ MembersDiffer' /\ OneMembership'
BY DEF MembersTyped, MembersRefer, MembersDiffer, OneMembership
LEMMA SessionsFrame ==
  ASSUME SessionsTyped, SessionsRefer, SessionsDiffer, session' \subseteq session,
         sessions' = sessions, \A s \in session : account'[s.account] = account[s.account]
  PROVE  SessionsTyped' /\ SessionsRefer' /\ SessionsDiffer'
BY DEF SessionsTyped, SessionsRefer, SessionsDiffer, SessionRow, HasAccount

\* The parts of the invariant.
LEMMA GroupParts ==
  ASSUME GroupsIInv
  PROVE  /\ GroupsTypeOK /\ AccountsTyped /\ MembersTyped /\ SessionsTyped
         /\ AccountsHaveRows /\ ObjectsRefer /\ MembersRefer /\ SessionsRefer
         /\ MembersDiffer /\ SessionsDiffer /\ OneMembership
BY DEF GroupsIInv, GroupsTypeOK, GroupRowsInv

\* A step that only takes sessions away, if anything.
LEMMA OnlySessionsGo ==
  ASSUME GroupsIInv, UNCHANGED <<account, sessions, object, member, members>>,
         session' \subseteq session
  PROVE  /\ UsersStay /\ KindsStay /\ MembersStay /\ SessionsStay
         /\ AccountsTyped' /\ MembersTyped' /\ SessionsTyped' /\ GroupRowsInv'
<1>1. UsersStay /\ KindsStay /\ MembersStay /\ SessionsStay
  BY GroupParts, AccountsStay, MembersLeftAlone, SessionsGo
<1>2. AccountsTyped' /\ AccountsHaveRows' /\ ObjectsRefer'
  BY GroupParts, AccountsFrame
<1>3. MembersTyped' /\ MembersRefer' /\ MembersDiffer' /\ OneMembership'
  BY GroupParts, MembersFrame
<1>4. SessionsTyped' /\ SessionsRefer' /\ SessionsDiffer'
  BY GroupParts, SessionsFrame
<1> QED BY <1>1, <1>2, <1>3, <1>4 DEF GroupRowsInv

--------------------------------------------------------------------------------
(* Groups: the first half of a request *)

\* A request starts with what will still be good when it writes.
LEMMA GroupReadsStep ==
  ASSUME GroupsIInv, NEW c \in GroupClients, NEW op, NEW i, NEW row, NEW m,
         GroupReads(c, op, i, row, m),
         PendingGroupRequest([pc |-> "write", op |-> op, id |-> i, row |-> row, member |-> m,
                              found |-> {}, left |-> {}])
  PROVE  GroupsIInv'
<1>1. PICK q : q = [pc |-> "write", op |-> op, id |-> i, row |-> row, member |-> m,
                    found |-> {}, left |-> {}]
  OBVIOUS
<1>2. groupClient' = [groupClient EXCEPT ![c] = q] /\ UNCHANGED <<accountVars, object, member, members>>
  BY <1>1 DEF GroupReads
<1>3. UNCHANGED <<account, session, sessions, object, member, members>>
  BY <1>2 DEF accountVars
<1>4. /\ UsersStay /\ KindsStay /\ MembersStay /\ SessionsStay
      /\ AccountsTyped' /\ MembersTyped' /\ SessionsTyped' /\ GroupRowsInv'
  BY <1>3, OnlySessionsGo
<1>5. PendingGroupRequest(q)'
  BY <1>1, <1>4, PendingKept, GroupParts
<1> QED BY <1>2, <1>4, <1>5, RequestStep

\* Every first half.
LEMMA GroupReadStep ==
  ASSUME GroupsIInv, NEW c \in GroupClients, GroupRead(c)
  PROVE  GroupsIInv'
<1>t. /\ AccountIds \subseteq 0..MaxAccount /\ 0 \in 0..MaxAccount
      /\ account \in [AccountIds -> OwnedKinds \cup {"none", "user", "gone"}]
      /\ object \in [AccountIds -> ObjectRow] /\ member \subseteq MemberRow(1..members)
  BY GroupParts, AccountAssumption DEF AccountsTyped, MembersTyped, AccountIds
<1>k. ASSUME NEW i \in AccountIds, object[i].kind # "none"
      PROVE  object[i] \in ObjectRow /\ account[i] = object[i].kind /\ object[i].kind \in OwnedKinds
  BY <1>t, <1>k, GroupParts DEF AccountsHaveRows, KindOf, ObjectRow
<1>1. ASSUME NEW kind \in {"group", "scope"}, NEW owner \in AccountIds, ReadCreateOwned(c, kind, owner)
      PROVE  GroupsIInv'
  <2>1. [kind |-> kind, owner |-> owner, scope |-> 0, login |-> ""] \in ObjectRow
    BY <1>t DEF ObjectRow, OwnedKinds
  <2> QED BY <1>1, <2>1, GroupReadsStep DEF ReadCreateOwned, PendingGroupRequest, OwnedKinds
<1>2. ASSUME NEW i \in ObjectIds({"group", "scope"}), NEW owner \in AccountIds, ReadUpdateOwned(c, i, owner)
      PROVE  GroupsIInv'
  <2>1. i \in AccountIds /\ object[i].kind # "none"
    BY DEF ObjectIds
  <2>2. PICK row : row = [object[i] EXCEPT !.owner = owner]
    OBVIOUS
  <2>3. row \in ObjectRow /\ row.kind = object[i].kind
    BY <1>k, <1>t, <2>1, <2>2 DEF ObjectRow
  <2>4. account[i] = row.kind /\ row.kind \in OwnedKinds
    BY <1>k, <2>1, <2>3
  <2>5. GroupReads(c, "update", i, row, NoMember)
    BY <1>2, <2>2 DEF ReadUpdateOwned
  <2> QED BY <2>1, <2>3, <2>4, <2>5, GroupReadsStep DEF PendingGroupRequest
<1>3. ASSUME NEW i \in ObjectIds({"scope"}), NEW login \in ScopeLogins, ReadCreateScopeUser(c, i, login)
      PROVE  GroupsIInv'
  <2>1. [kind |-> "scope user", owner |-> 0, scope |-> i, login |-> login] \in ObjectRow
    BY <1>t DEF ObjectRow, OwnedKinds, ObjectIds
  <2> QED BY <1>3, <2>1, GroupReadsStep DEF ReadCreateScopeUser, PendingGroupRequest, OwnedKinds
<1>4. ASSUME NEW i \in ObjectIds({"scope user"}), NEW login \in ScopeLogins, ReadUpdateScopeUser(c, i, login)
      PROVE  GroupsIInv'
  <2>1. i \in AccountIds /\ object[i].kind # "none"
    BY DEF ObjectIds
  <2>2. PICK row : row = [object[i] EXCEPT !.login = login]
    OBVIOUS
  <2>3. row \in ObjectRow /\ row.kind = object[i].kind
    BY <1>k, <1>t, <2>1, <2>2 DEF ObjectRow
  <2>4. account[i] = row.kind /\ row.kind \in OwnedKinds
    BY <1>k, <2>1, <2>3
  <2>5. GroupReads(c, "update", i, row, NoMember)
    BY <1>4, <2>2 DEF ReadUpdateScopeUser
  <2> QED BY <2>1, <2>3, <2>4, <2>5, GroupReadsStep DEF PendingGroupRequest
<1>5. ASSUME NEW i \in AccountIds, ReadScopeUserAuth(c, i) \/ ReadLogoutScopeUser(c, i) \/ ReadDeleteObject(c, i)
      PROVE  GroupsIInv'
  <2>1. \E op \in {"login", "logout", "delete"} : GroupReads(c, op, i, object[i], NoMember)
    BY <1>5 DEF ReadScopeUserAuth, ReadLogoutScopeUser, ReadDeleteObject
  <2> QED BY <2>1, GroupReadsStep DEF PendingGroupRequest
<1>6. ASSUME NEW kind \in {"regular", "manager"}, NEW i \in AccountIds, NEW j \in AccountIds,
             ReadCreateGroupMember(c, i, j, kind)
      PROVE  GroupsIInv'
  <2>1. [id |-> 0, group |-> i, account |-> j, kind |-> kind] \in MemberRow({0}) /\ account[j] = "user"
    BY <1>6 DEF MemberRow, ReadCreateGroupMember
  <2> QED BY <1>6, <2>1, GroupReadsStep DEF ReadCreateGroupMember, PendingGroupRequest
<1>7. ASSUME NEW kind \in {"regular", "manager"}, NEW m \in member, ReadUpdateGroupMember(c, m, kind)
      PROVE  GroupsIInv'
  <2>1. PICK n : n = [m EXCEPT !.kind = kind]
    OBVIOUS
  <2>2. m \in MemberRow(1..members)
    BY <1>t
  <2>3. n \in MemberRow(1..members) /\ n.id = m.id /\ n.group = m.group /\ n.account = m.account
    BY <2>1, <2>2 DEF MemberRow
  <2>4. \A k \in member : k.id = n.id => k.group = n.group /\ k.account = n.account
    BY <2>3, GroupParts DEF MembersDiffer
  <2>5. GroupReads(c, "update member", m.group, object[m.group], n)
    BY <1>7, <2>1 DEF ReadUpdateGroupMember
  <2> QED BY <2>3, <2>4, <2>5, GroupReadsStep DEF PendingGroupRequest
<1>8. ASSUME NEW m \in member, ReadDeleteGroupMember(c, m)
      PROVE  GroupsIInv'
  BY <1>8, GroupReadsStep DEF ReadDeleteGroupMember, PendingGroupRequest
<1>9. \A kinds : ObjectIds(kinds) \subseteq AccountIds
  BY DEF ObjectIds
<1> QED BY <1>1, <1>2, <1>3, <1>4, <1>5, <1>6, <1>7, <1>8, <1>9 DEF GroupRead

--------------------------------------------------------------------------------
(* Groups: the transactions *)

\* The end of a request.
LEMMA GroupEndsStep ==
  ASSUME GroupsIInv, NEW c \in GroupClients, GroupEnds(c),
         UsersStay, KindsStay, MembersStay, SessionsStay,
         AccountsTyped', MembersTyped', SessionsTyped', GroupRowsInv'
  PROVE  GroupsIInv'
<1>1. PICK q : q = NoGroupRequest
  OBVIOUS
<1>2. PendingGroupRequest(q)' /\ groupClient' = [groupClient EXCEPT ![c] = q]
  BY <1>1, NoGroupRequestPending DEF GroupEnds
<1> QED BY <1>2, RequestStep

\* A row is created with its account.
LEMMA CreateObjectStep ==
  ASSUME GroupsIInv, NEW c \in GroupClients, CreateObject(c)
  PROVE  GroupsIInv'
<1> DEFINE q == groupClient[c]  n == NewAccount
<1>1. /\ q.op = "create" /\ ObjectAllowed(0, q.row) /\ FreeIds # {}
      /\ account' = [account EXCEPT ![n] = q.row.kind] /\ object' = [object EXCEPT ![n] = q.row]
      /\ GroupEnds(c) /\ UNCHANGED <<session, sessions, member, members>>
  BY DEF CreateObject, GroupWrites, CreateAccount
<1>2. n \in AccountIds /\ account[n] = "none"
  BY <1>1, FreshAccount
<1>3. q.row \in ObjectRow /\ q.row.kind \in OwnedKinds
  BY <1>1 DEF GroupsIInv, PendingGroupRequest
<1>4. /\ account \in [AccountIds -> OwnedKinds \cup {"none", "user", "gone"}]
      /\ object \in [AccountIds -> ObjectRow]
  BY GroupParts DEF AccountsTyped
<1>5. \A i \in AccountIds : account[i] # "none" => account'[i] = account[i]
  BY <1>1, <1>2, <1>4
<1>6. AccountsTyped'
  BY <1>1, <1>2, <1>3, <1>4 DEF AccountsTyped
<1>7. UsersStay /\ KindsStay /\ MembersStay /\ SessionsStay
  <2>1. UsersStay /\ KindsStay
    BY <1>5 DEF UsersStay, KindsStay, OwnedKinds
  <2> QED BY <1>1, <2>1, GroupParts, MembersLeftAlone, SessionsGo
<1>8. AccountsHaveRows'
  <2> SUFFICES ASSUME NEW i \in AccountIds
               PROVE  object'[i].kind = KindOf(i)' /\ (object'[i].kind = "none" => object'[i] = NoObject)
    BY DEF AccountsHaveRows
  <2>1. CASE i = n
    BY <1>1, <1>2, <1>3, <1>4, <2>1 DEF KindOf, OwnedKinds
  <2>2. CASE i # n
    BY <1>1, <1>2, <1>4, <2>2, GroupParts DEF AccountsHaveRows, KindOf
  <2> QED BY <2>1, <2>2
<1>9. ObjectsRefer'
  <2>1. \A j : Exists(j) => Exists(j)'
    BY <1>5, <1>4 DEF Exists, HasAccount
  <2>2. \A j \in AccountIds : account[j] = "scope" => account'[j] = "scope"
    BY <1>5
  <2>3. Exists(q.row.owner) /\ (q.row.scope # 0 => q.row.scope \in AccountIds /\ account[q.row.scope] = "scope")
    BY <1>1, GroupParts DEF ObjectAllowed, ObjectIds, AccountsHaveRows, KindOf
  <2> SUFFICES ASSUME NEW i \in AccountIds
               PROVE  /\ Exists(object[i].owner)'
                      /\ (object'[i].scope # 0 => account'[object'[i].scope] = "scope")
    BY DEF ObjectsRefer
  <2>4. CASE i = n
    <3>1. object'[i] = q.row
      BY <1>1, <1>2, <1>4, <2>4
    <3> QED BY <2>1, <2>2, <2>3, <3>1
  <2>5. CASE i # n
    <3>1. object'[i] = object[i]
      BY <1>1, <1>2, <1>4, <2>5
    <3>2. Exists(object[i].owner) /\ (object[i].scope # 0 => account[object[i].scope] = "scope")
      BY GroupParts DEF ObjectsRefer
    <3>3. object[i].scope # 0 => object[i].scope \in AccountIds
      <4>1. object[i] \in ObjectRow
        BY <1>4
      <4>2. object[i].scope \in 0..MaxAccount
        BY <4>1 DEF ObjectRow
      <4> QED BY <4>2, AccountAssumption DEF AccountIds
    <3> QED BY <2>1, <2>2, <3>1, <3>2, <3>3
  <2> QED BY <2>4, <2>5
<1>10. MembersTyped' /\ MembersRefer' /\ MembersDiffer' /\ OneMembership'
  <2>1. \A m \in member : account'[m.group] = account[m.group] /\ account'[m.account] = account[m.account]
    BY <1>5, GroupParts DEF MembersTyped, MembersRefer, MemberRow
  <2> QED BY <1>1, <2>1, GroupParts, MembersFrame
<1>11. SessionsTyped' /\ SessionsRefer' /\ SessionsDiffer'
  <2>1. \A s \in session : account'[s.account] = account[s.account]
    BY <1>5, GroupParts DEF SessionsRefer, HasAccount
  <2> QED BY <1>1, <2>1, GroupParts, SessionsFrame
<1>12. GroupRowsInv'
  BY <1>8, <1>9, <1>10, <1>11 DEF GroupRowsInv
<1> QED BY <1>1, <1>6, <1>7, <1>10, <1>11, <1>12, GroupEndsStep

\* A row is replaced by one of its kind.
LEMMA UpdateObjectStep ==
  ASSUME GroupsIInv, NEW c \in GroupClients, UpdateObject(c)
  PROVE  GroupsIInv'
<1> DEFINE q == groupClient[c]
<1>1. /\ q.op = "update" /\ object[q.id] # NoObject /\ ObjectAllowed(q.id, q.row)
      /\ object' = [object EXCEPT ![q.id] = q.row] /\ GroupEnds(c)
      /\ UNCHANGED <<account, session, sessions, member, members>>
  BY DEF UpdateObject, GroupWrites
<1>2. q.id \in AccountIds /\ q.row \in ObjectRow /\ account[q.id] \in {q.row.kind, "gone"}
      /\ q.row.kind \in OwnedKinds
  BY <1>1 DEF GroupsIInv, PendingGroupRequest
<1>3. object \in [AccountIds -> ObjectRow]
  BY GroupParts DEF AccountsTyped
<1>4. account[q.id] = q.row.kind
  <2>1. object[q.id].kind # "none"
    BY <1>1, <1>2, GroupParts DEF AccountsHaveRows
  <2> QED BY <1>2, <2>1, GroupParts DEF AccountsHaveRows, KindOf, OwnedKinds
<1>5. AccountsTyped'
  BY <1>1, <1>2, <1>3, GroupParts DEF AccountsTyped
<1>6. UsersStay /\ KindsStay /\ MembersStay /\ SessionsStay
  BY <1>1, GroupParts, AccountsStay, MembersLeftAlone, SessionsGo
<1>7. AccountsHaveRows'
  <2> SUFFICES ASSUME NEW i \in AccountIds
               PROVE  object'[i].kind = KindOf(i)' /\ (object'[i].kind = "none" => object'[i] = NoObject)
    BY DEF AccountsHaveRows
  <2>1. CASE i = q.id
    BY <1>1, <1>2, <1>3, <1>4, <2>1 DEF KindOf, OwnedKinds
  <2>2. CASE i # q.id
    BY <1>1, <1>2, <1>3, <2>2, GroupParts DEF AccountsHaveRows, KindOf
  <2> QED BY <2>1, <2>2
<1>8. ObjectsRefer'
  <2>1. Exists(q.row.owner) /\ (q.row.scope # 0 => account[q.row.scope] = "scope")
    BY <1>1, GroupParts DEF ObjectAllowed, ObjectIds, AccountsHaveRows, KindOf
  <2> SUFFICES ASSUME NEW i \in AccountIds
               PROVE  /\ Exists(object[i].owner)'
                      /\ (object'[i].scope # 0 => account'[object'[i].scope] = "scope")
    BY DEF ObjectsRefer
  <2>2. object'[i] = q.row \/ object'[i] = object[i]
    BY <1>1, <1>2, <1>3
  <2> QED BY <1>1, <2>1, <2>2, GroupParts DEF ObjectsRefer, Exists, HasAccount
<1>9. MembersTyped' /\ MembersRefer' /\ MembersDiffer' /\ OneMembership'
  BY <1>1, GroupParts, MembersFrame
<1>10. SessionsTyped' /\ SessionsRefer' /\ SessionsDiffer'
  BY <1>1, GroupParts, SessionsFrame
<1>11. GroupRowsInv'
  BY <1>7, <1>8, <1>9, <1>10 DEF GroupRowsInv
<1> QED BY <1>1, <1>5, <1>6, <1>9, <1>10, <1>11, GroupEndsStep

\* A row goes with its account, when nothing refers to it.
LEMMA DeleteObjectStep ==
  ASSUME GroupsIInv, NEW c \in GroupClients, DeleteObject(c)
  PROVE  GroupsIInv'
<1> DEFINE i == groupClient[c].id
<1>1. /\ groupClient[c].op = "delete" /\ object[i] # NoObject /\ ~Referenced(i)
      /\ object' = [object EXCEPT ![i] = NoObject] /\ account' = [account EXCEPT ![i] = "gone"]
      /\ GroupEnds(c) /\ UNCHANGED <<session, sessions, member, members>>
  BY DEF DeleteObject, GroupWrites, DeleteAccount
<1>2. i \in AccountIds
  BY <1>1 DEF GroupsIInv, PendingGroupRequest
<1>3. /\ account \in [AccountIds -> OwnedKinds \cup {"none", "user", "gone"}]
      /\ object \in [AccountIds -> ObjectRow]
  BY GroupParts DEF AccountsTyped
<1>4. account[i] \in OwnedKinds
  <2>1. object[i].kind # "none"
    BY <1>1, <1>2, GroupParts DEF AccountsHaveRows
  <2> QED BY <1>2, <2>1, GroupParts DEF AccountsHaveRows, KindOf
<1>5. \A j : j # i => account'[j] = account[j]
  BY <1>1, <1>3
<1>n. NoObject \in ObjectRow /\ NoObject.kind = "none" /\ NoObject.owner = 0 /\ NoObject.scope = 0
  BY AccountAssumption DEF NoObject, ObjectRow
<1>6. AccountsTyped'
  BY <1>1, <1>2, <1>3, <1>n DEF AccountsTyped
<1>7. UsersStay /\ KindsStay /\ MembersStay /\ SessionsStay
  <2>1. account'[i] = "gone"
    BY <1>1, <1>2, <1>3
  <2>2. UsersStay
    BY <1>4, <1>5 DEF UsersStay, OwnedKinds
  <2>3. KindsStay
    BY <2>1, <1>5 DEF KindsStay
  <2> QED BY <1>1, <2>2, <2>3, GroupParts, MembersLeftAlone, SessionsGo
<1>8. AccountsHaveRows'
  <2> SUFFICES ASSUME NEW j \in AccountIds
               PROVE  object'[j].kind = KindOf(j)' /\ (object'[j].kind = "none" => object'[j] = NoObject)
    BY DEF AccountsHaveRows
  <2>1. CASE j = i
    <3>1. object'[j] = NoObject /\ account'[j] = "gone"
      BY <1>1, <1>2, <1>3, <2>1
    <3> QED BY <3>1, <1>n DEF KindOf, OwnedKinds
  <2>2. CASE j # i
    BY <1>1, <1>2, <1>3, <2>2, GroupParts DEF AccountsHaveRows, KindOf
  <2> QED BY <2>1, <2>2
<1>r. /\ \A s \in session : s.account # i
      /\ \A m \in member : m.group # i /\ m.account # i
      /\ \A j \in AccountIds : object[j].owner # i /\ object[j].scope # i
  BY <1>1 DEF Referenced
<1>9. ObjectsRefer'
  <2> SUFFICES ASSUME NEW j \in AccountIds
               PROVE  /\ Exists(object[j].owner)'
                      /\ (object'[j].scope # 0 => account'[object'[j].scope] = "scope")
    BY DEF ObjectsRefer
  <2>1. CASE j = i
    <3>1. object'[j] = NoObject
      BY <1>1, <1>2, <1>3, <2>1
    <3> QED BY <3>1, <1>n DEF Exists
  <2>2. CASE j # i
    <3>1. object'[j] = object[j]
      BY <1>1, <1>2, <1>3, <2>2
    <3>2. Exists(object[j].owner) /\ (object[j].scope # 0 => account[object[j].scope] = "scope")
      BY GroupParts DEF ObjectsRefer
    <3>3. object[j].owner # i /\ object[j].scope # i
      BY <1>r
    <3> QED BY <3>1, <3>2, <3>3, <1>5 DEF Exists, HasAccount
  <2> QED BY <2>1, <2>2
<1>10. MembersTyped' /\ MembersRefer' /\ MembersDiffer' /\ OneMembership'
  BY <1>1, <1>5, <1>r, GroupParts, MembersFrame
<1>11. SessionsTyped' /\ SessionsRefer' /\ SessionsDiffer'
  BY <1>1, <1>5, <1>r, GroupParts, SessionsFrame
<1>12. GroupRowsInv'
  BY <1>8, <1>9, <1>10, <1>11 DEF GroupRowsInv
<1> QED BY <1>1, <1>6, <1>7, <1>10, <1>11, <1>12, GroupEndsStep

\* The parts of the invariant that a step of members or sessions leaves alone.
LEMMA AccountsAlone ==
  ASSUME GroupsIInv, account' = account, object' = object
  PROVE  /\ UsersStay /\ KindsStay
         /\ AccountsTyped' /\ AccountsHaveRows' /\ ObjectsRefer'
BY GroupParts, AccountsStay, AccountsFrame
LEMMA MembersAlone ==
  ASSUME GroupsIInv, account' = account, member' \subseteq member, members' = members
  PROVE  MembersStay /\ MembersTyped' /\ MembersRefer' /\ MembersDiffer' /\ OneMembership'
BY GroupParts, MembersLeftAlone, MembersFrame
LEMMA SessionsAlone ==
  ASSUME GroupsIInv, account' = account, session' \subseteq session, sessions' = sessions
  PROVE  SessionsStay /\ SessionsTyped' /\ SessionsRefer' /\ SessionsDiffer'
BY GroupParts, SessionsGo, SessionsFrame

\* A member is added, unless it is one already.
LEMMA CreateGroupMemberStep ==
  ASSUME GroupsIInv, NEW c \in GroupClients, CreateGroupMember(c)
  PROVE  GroupsIInv'
<1>1. PICK m : m = groupClient[c].member
  OBVIOUS
<1>2. PICK n : n = [m EXCEPT !.id = members + 1]
  OBVIOUS
<1>3. /\ groupClient[c].op = "create member" /\ members' = members + 1 /\ MemberAllowed(m)
      /\ member' = member \cup {n} /\ GroupEnds(c)
      /\ UNCHANGED <<account, session, sessions, object>>
  BY <1>1, <1>2 DEF CreateGroupMember, GroupWrites
<1>4. m \in MemberRow({0}) /\ account[m.account] = "user"
  BY <1>1, <1>3 DEF GroupsIInv, PendingGroupRequest
<1>5. members \in Nat /\ member \subseteq MemberRow(1..members)
  BY GroupParts DEF MembersTyped
<1>6. /\ n \in MemberRow({members + 1}) /\ n.id = members + 1
      /\ n.group = m.group /\ n.account = m.account
  BY <1>2, <1>4 DEF MemberRow
<1>7. /\ members' \in Nat /\ members <= members' /\ members + 1 \notin 1..members
      /\ 1..members \subseteq 1..members' /\ members + 1 \in 1..members'
  <2>1. members' = members + 1 /\ members \in Nat
    BY <1>3, <1>5
  <2> QED BY <2>1
<1>8. account[m.group] = "group"
  BY <1>3, <1>4, GroupParts DEF MemberAllowed, MemberRow, AccountsHaveRows, KindOf
<1>9. MembersStay
  BY <1>3, <1>6, <1>7 DEF MembersStay
<1>10. MembersTyped'
  BY <1>3, <1>5, <1>6, <1>7 DEF MembersTyped, MemberRow
<1>11. MembersRefer'
  BY <1>3, <1>4, <1>6, <1>8, GroupParts DEF MembersRefer
<1>12. MembersDiffer'
  <2>1. \A k \in member : k.id # n.id
    BY <1>5, <1>6, <1>7 DEF MemberRow
  <2> QED BY <1>3, <2>1, GroupParts DEF MembersDiffer
<1>13. OneMembership'
  <2>1. \A k \in member : k.group # n.group \/ k.account # n.account
    BY <1>3, <1>6 DEF MemberAllowed
  <2> QED BY <1>3, <2>1, GroupParts DEF OneMembership
<1>14. /\ UsersStay /\ KindsStay
       /\ AccountsTyped' /\ AccountsHaveRows' /\ ObjectsRefer'
  BY <1>3, AccountsAlone
<1>15. SessionsStay /\ SessionsTyped' /\ SessionsRefer' /\ SessionsDiffer'
  BY <1>3, SessionsAlone
<1>16. GroupRowsInv'
  BY <1>11, <1>12, <1>13, <1>14, <1>15 DEF GroupRowsInv
<1> QED BY <1>3, <1>9, <1>10, <1>14, <1>15, <1>16, GroupEndsStep

\* A member changes its kind only.
LEMMA UpdateGroupMemberStep ==
  ASSUME GroupsIInv, NEW c \in GroupClients, UpdateGroupMember(c)
  PROVE  GroupsIInv'
<1>1. PICK m : m = groupClient[c].member
  OBVIOUS
<1>2. /\ groupClient[c].op = "update member" /\ StoredMember(m) # {} /\ members' = members
      /\ member' = (member \ StoredMember(m)) \cup {m} /\ GroupEnds(c)
      /\ UNCHANGED <<account, session, sessions, object>>
  BY <1>1 DEF UpdateGroupMember, GroupWrites
<1>3. /\ m \in MemberRow(1..members)
      /\ \A n \in member : n.id = m.id => n.group = m.group /\ n.account = m.account
  BY <1>1, <1>2 DEF GroupsIInv, PendingGroupRequest
<1>4. PICK o \in member : o.id = m.id
  BY <1>2 DEF StoredMember
<1>5. o.group = m.group /\ o.account = m.account
  BY <1>3, <1>4
<1>6. \A n \in member' : n = m \/ (n \in member /\ n # o /\ n.id # m.id)
  BY <1>2, <1>4 DEF StoredMember
<1>7. MembersStay
  <2>1. members \in Nat /\ members' = members
    BY <1>2, GroupParts DEF MembersTyped
  <2>2. ASSUME NEW n \in member'
        PROVE  \E k \in member : k.id = n.id /\ k.group = n.group /\ k.account = n.account
    BY <1>4, <1>5, <1>6
  <2> QED BY <2>1, <2>2 DEF MembersStay
<1>8. MembersTyped'
  BY <1>2, <1>3, <1>6, GroupParts DEF MembersTyped
<1>9. MembersRefer'
  BY <1>2, <1>4, <1>5, <1>6, GroupParts DEF MembersRefer
<1>10. MembersDiffer'
  BY <1>6, GroupParts DEF MembersDiffer
<1>11. OneMembership'
  BY <1>4, <1>5, <1>6, GroupParts DEF OneMembership
<1>12. /\ UsersStay /\ KindsStay
       /\ AccountsTyped' /\ AccountsHaveRows' /\ ObjectsRefer'
  BY <1>2, AccountsAlone
<1>13. SessionsStay /\ SessionsTyped' /\ SessionsRefer' /\ SessionsDiffer'
  BY <1>2, SessionsAlone
<1>14. GroupRowsInv'
  BY <1>9, <1>10, <1>11, <1>12, <1>13 DEF GroupRowsInv
<1> QED BY <1>2, <1>7, <1>8, <1>12, <1>13, <1>14, GroupEndsStep

\* A member leaves.
LEMMA DeleteGroupMemberStep ==
  ASSUME GroupsIInv, NEW c \in GroupClients, DeleteGroupMember(c)
  PROVE  GroupsIInv'
<1>1. /\ member' \subseteq member /\ members' = members /\ GroupEnds(c)
      /\ UNCHANGED <<account, session, sessions, object>>
  BY DEF DeleteGroupMember
<1>2. /\ UsersStay /\ KindsStay
      /\ AccountsTyped' /\ AccountsHaveRows' /\ ObjectsRefer'
  BY <1>1, AccountsAlone
<1>3. MembersStay /\ MembersTyped' /\ MembersRefer' /\ MembersDiffer' /\ OneMembership'
  BY <1>1, MembersAlone
<1>4. SessionsStay /\ SessionsTyped' /\ SessionsRefer' /\ SessionsDiffer'
  BY <1>1, SessionsAlone
<1>5. GroupRowsInv'
  BY <1>2, <1>3, <1>4 DEF GroupRowsInv
<1> QED BY <1>1, <1>2, <1>3, <1>4, <1>5, GroupEndsStep

\* A scope user logs in: the session has a new ID.
LEMMA LoginScopeUserStep ==
  ASSUME GroupsIInv, NEW c \in GroupClients, LoginScopeUser(c)
  PROVE  GroupsIInv'
<1>1. PICK i : i = groupClient[c].id
  OBVIOUS
<1>2. PICK s : s = [id |-> sessions + 1, account |-> i, expired |-> FALSE]
  OBVIOUS
<1>3. /\ HasAccount(i) /\ sessions' = sessions + 1 /\ session' = session \cup {s} /\ GroupEnds(c)
      /\ UNCHANGED <<account, object, member, members>>
  BY <1>1, <1>2 DEF LoginScopeUser, CreateSession
<1>4. sessions \in Nat /\ session \subseteq SessionRow
  BY GroupParts DEF SessionsTyped
<1>5. /\ sessions' \in Nat /\ sessions <= sessions' /\ sessions + 1 \notin 1..sessions
      /\ 1..sessions \subseteq 1..sessions' /\ sessions + 1 \in 1..sessions'
  BY <1>3, <1>4
<1>6. s.id = sessions + 1 /\ s.account = i
  BY <1>2
<1>7. SessionsStay
  BY <1>3, <1>5, <1>6 DEF SessionsStay
<1>8. SessionsTyped'
  <2>1. session \subseteq SessionRow'
    BY <1>4, <1>5 DEF SessionRow
  <2>2. s \in SessionRow'
    BY <1>2, <1>3, <1>5 DEF SessionRow, HasAccount
  <2> QED BY <1>3, <1>5, <2>1, <2>2 DEF SessionsTyped
<1>9. SessionsRefer'
  BY <1>3, <1>6, GroupParts DEF SessionsRefer, HasAccount
<1>10. SessionsDiffer'
  <2>1. \A t \in session : t.id # s.id
    BY <1>4, <1>5, <1>6 DEF SessionRow
  <2> QED BY <1>3, <2>1, GroupParts DEF SessionsDiffer
<1>11. /\ UsersStay /\ KindsStay
       /\ AccountsTyped' /\ AccountsHaveRows' /\ ObjectsRefer'
  BY <1>3, AccountsAlone
<1>12. MembersStay /\ MembersTyped' /\ MembersRefer' /\ MembersDiffer' /\ OneMembership'
  BY <1>3, MembersAlone
<1>13. GroupRowsInv'
  BY <1>9, <1>10, <1>11, <1>12 DEF GroupRowsInv
<1> QED BY <1>3, <1>7, <1>8, <1>11, <1>12, <1>13, GroupEndsStep

--------------------------------------------------------------------------------
(* Groups: logout, and the daemon *)

\* A logout goes on with sessions that it has found.
LEMMA LogoutGoesOn ==
  ASSUME GroupsIInv, NEW c \in GroupClients, NEW found, NEW left, LogoutAt(c, found, left),
         UNCHANGED <<account, sessions, object, member, members>>, session' \subseteq session,
         groupClient[c].op = "logout" \/ PendingGroupRequest(groupClient[c]),
         left \subseteq found, found \subseteq 1..sessions,
         \A s \in session' : s.id \notin found \ left
  PROVE  GroupsIInv'
<1> DEFINE q == [pc |-> "logout", op |-> "logout", id |-> groupClient[c].id, row |-> groupClient[c].row,
                 member |-> groupClient[c].member, found |-> found, left |-> left]
<1>1. groupClient' = [groupClient EXCEPT ![c] = q]
  BY DEF LogoutAt
<1>2. PICK r : r = q
  OBVIOUS
<1>3. PendingLogout(r)'
  BY <1>2 DEF PendingLogout
<1>4. PendingGroupRequest(r)'
  BY <1>2, <1>3 DEF PendingGroupRequest
<1>5. groupClient' = [groupClient EXCEPT ![c] = r]
  BY <1>1, <1>2
<1> QED BY <1>4, <1>5, OnlySessionsGo, RequestStep

\* The sessions that are found.
LEMMA FindSessionsStep ==
  ASSUME GroupsIInv, NEW c \in GroupClients, FindSessions(c)
  PROVE  GroupsIInv'
<1>1. PICK upto \in 0..MaxSession :
        /\ GroupWrites(c, "logout")
        /\ LogoutAt(c, {id \in SessionIds(groupClient[c].id) : id <= upto},
                       {id \in SessionIds(groupClient[c].id) : id <= upto})
        /\ UNCHANGED <<account, session, sessions, object, member, members>>
  BY DEF FindSessions
<1>2. PICK found : found = {id \in SessionIds(groupClient[c].id) : id <= upto}
  OBVIOUS
<1>3. found \subseteq 1..sessions
  BY <1>2, GroupParts DEF SessionIds, SessionsTyped, SessionRow
<1>4. groupClient[c].op = "logout"
  BY <1>1 DEF GroupWrites
<1> QED BY <1>1, <1>2, <1>3, <1>4, LogoutGoesOn

\* One of them is deleted.
LEMMA LogoutDeletesStep ==
  ASSUME GroupsIInv, NEW c \in GroupClients, LogoutDeletes(c)
  PROVE  GroupsIInv'
<1>1. PICK id \in groupClient[c].left :
        /\ groupClient[c].pc = "logout" /\ RemoveSession(id)
        /\ LogoutAt(c, groupClient[c].found, groupClient[c].left \ {id})
        /\ UNCHANGED <<account, sessions, object, member, members>>
  BY DEF LogoutDeletes
<1>2. PICK q : q = groupClient[c]
  OBVIOUS
<1>3. PendingGroupRequest(q) /\ q.pc = "logout"
  BY <1>1, <1>2 DEF GroupsIInv
<1>4. q.left \subseteq q.found /\ q.found \subseteq 1..sessions
      /\ \A s \in session : s.id \notin q.found \ q.left
  BY <1>3 DEF PendingGroupRequest, PendingLogout
<1>5. session' \subseteq session /\ \A s \in session' : s.id # id
  BY <1>1 DEF RemoveSession
<1> QED BY <1>1, <1>2, <1>3, <1>4, <1>5, LogoutGoesOn

\* A request ends that has nothing to write any more.
LEMMA QuietEndStep ==
  ASSUME GroupsIInv, NEW c \in GroupClients, LogoutScopeUser(c) \/ GroupRequestFails(c)
  PROVE  GroupsIInv'
<1>1. GroupEnds(c) /\ UNCHANGED <<account, session, sessions, object, member, members>>
  BY DEF LogoutScopeUser, GroupRequestFails, accountVars
<1> QED BY <1>1, OnlySessionsGo, GroupEndsStep

\* Sessions expire, and the daemon deletes those.
LEMMA AccountStep ==
  ASSUME GroupsIInv, AccountNext, UNCHANGED groupVars
  PROVE  GroupsIInv'
<1>0. UNCHANGED <<object, member, members, groupClient>>
  BY DEF groupVars
<1>1. CASE SessionCleanup \/ CleanupFails
  <2>1. session' \subseteq session /\ UNCHANGED <<account, sessions>>
    BY <1>1 DEF SessionCleanup, CleanupFails, CleanupFind, CleanupDelete, RemoveSession
  <2> QED BY <1>0, <2>1, OnlySessionsGo, NoRequestStep
<1>2. ASSUME NEW s \in session, SessionExpires(s)
      PROVE  GroupsIInv'
  <2>1. PICK r : r = [s EXCEPT !.expired = TRUE]
    OBVIOUS
  <2>2. session' = (session \ {s}) \cup {r} /\ UNCHANGED <<account, sessions>>
    BY <1>2, <2>1 DEF SessionExpires
  <2>3. session \subseteq SessionRow /\ sessions \in Nat
    BY GroupParts DEF SessionsTyped
  <2>4. r \in SessionRow /\ r.id = s.id /\ r.account = s.account
    BY <2>1, <2>3 DEF SessionRow
  <2>5. SessionsStay
    BY <2>2, <2>3, <2>4 DEF SessionsStay
  <2>6. SessionsTyped'
    BY <2>2, <2>3, <2>4 DEF SessionsTyped, SessionRow
  <2>7. SessionsRefer'
    BY <2>2, <2>4, GroupParts DEF SessionsRefer, HasAccount
  <2>8. SessionsDiffer'
    BY <2>2, <2>4, GroupParts DEF SessionsDiffer
  <2>9. /\ UsersStay /\ KindsStay
        /\ AccountsTyped' /\ AccountsHaveRows' /\ ObjectsRefer'
    BY <1>0, <2>2, AccountsAlone
  <2>10. MembersStay /\ MembersTyped' /\ MembersRefer' /\ MembersDiffer' /\ OneMembership'
    BY <1>0, <2>2, MembersAlone
  <2>11. GroupRowsInv'
    BY <2>7, <2>8, <2>9, <2>10 DEF GroupRowsInv
  <2> QED BY <1>0, <2>5, <2>6, <2>9, <2>10, <2>11, NoRequestStep
<1> QED BY <1>1, <1>2 DEF AccountNext

\* Every step of groups, scopes and sessions.
LEMMA AccountsStep ==
  ASSUME GroupsIInv, AccountsNext
  PROVE  GroupsIInv'
<1>1. ASSUME NEW c \in GroupClients, GroupWrite(c) PROVE GroupsIInv'
  BY <1>1, CreateObjectStep, UpdateObjectStep, DeleteObjectStep, CreateGroupMemberStep,
     UpdateGroupMemberStep, DeleteGroupMemberStep, LoginScopeUserStep, FindSessionsStep,
     LogoutDeletesStep, QuietEndStep DEF GroupWrite
<1> QED BY <1>1, GroupReadStep, AccountStep DEF AccountsNext, GroupNext

\* The first state.
LEMMA GroupsStart ==
  ASSUME NEW users \in 0..MaxAccount, AccountInit(users), GroupInit
  PROVE  GroupsIInv
<1>1. MaxAccount \in Nat /\ 0 \in 0..MaxAccount /\ 0 \notin AccountIds
  BY AccountAssumption DEF AccountIds
<1>2. NoObject \in ObjectRow /\ NoObject.kind = "none" /\ NoObject.owner = 0 /\ NoObject.scope = 0
  BY <1>1 DEF NoObject, ObjectRow
<1>3. /\ account \in [AccountIds -> {"user", "none"}] /\ session = {} /\ sessions = 0
      /\ object = [i \in AccountIds |-> NoObject] /\ member = {} /\ members = 0
      /\ groupClient = [c \in GroupClients |-> NoGroupRequest]
  BY DEF AccountInit, GroupInit
<1>4. GroupsTypeOK
  BY <1>2, <1>3 DEF GroupsTypeOK, AccountsTyped, MembersTyped, SessionsTyped
<1>5. AccountsHaveRows
  BY <1>2, <1>3 DEF AccountsHaveRows, KindOf, OwnedKinds
<1>6. ObjectsRefer
  BY <1>2, <1>3 DEF ObjectsRefer, Exists
<1>7. MembersRefer /\ SessionsRefer /\ MembersDiffer /\ SessionsDiffer /\ OneMembership
  BY <1>3 DEF MembersRefer, SessionsRefer, MembersDiffer, SessionsDiffer, OneMembership
<1>8. \A c \in GroupClients : PendingGroupRequest(groupClient[c])
  BY <1>3, NoGroupRequestPending
<1> QED BY <1>4, <1>5, <1>6, <1>7, <1>8 DEF GroupsIInv, GroupRowsInv

--------------------------------------------------------------------------------
(* The cache of standings *)

\* A viewer that looks up the entry, builds it, or has it.
LEMMA CacheStep ==
  ASSUME CacheIInv, CacheNext
  PROVE  CacheIInv'
<1>0. entry.id \in Nat /\ DOMAIN viewer = Viewers
  BY DEF CacheIInv
<1>1. ASSUME NEW v \in Viewers, BuildStandings(v) PROVE CacheIInv'
  <2>1. CASE UNCHANGED <<entry, viewer>>
    BY <2>1 DEF CacheIInv
  <2>2. CASE ~entry.done /\ NewView(v, entry)
    <3>1. entry' = entry /\ viewer' = [viewer EXCEPT ![v] = [pc |-> "wait", on |-> entry.id]]
      BY <2>2 DEF NewView
    <3> QED BY <1>0, <3>1 DEF CacheIInv
  <2>3. CASE entry.done /\ NewView(v, [id |-> entry.id + 1, done |-> FALSE, error |-> FALSE, time |-> clock])
    <3>1. entry.id + 1 # entry.id /\ entry.id + 1 \in Nat
      BY <1>0
    <3>2. /\ entry' = [id |-> entry.id + 1, done |-> FALSE, error |-> FALSE, time |-> clock]
          /\ viewer' = [viewer EXCEPT ![v] = [pc |-> "build", on |-> entry.id + 1]]
      BY <2>3, <3>1 DEF NewView
    <3>3. \A w \in Viewers : viewer[w].pc # "build"
      BY <2>3 DEF CacheIInv
    <3>4. \A w \in Viewers : viewer'[w].pc = "build" => w = v
      BY <1>0, <3>2, <3>3
    <3>5. entry'.id \in Nat /\ ~entry'.done /\ DOMAIN viewer' = Viewers
      BY <1>0, <3>1, <3>2
    <3> QED BY <3>4, <3>5 DEF CacheIInv
  <2> QED BY <1>1, <2>1, <2>2, <2>3 DEF BuildStandings
<1>2. ASSUME NEW v \in Viewers, WaitBuild(v) PROVE CacheIInv'
  <2>1. entry' = entry /\ viewer' = [viewer EXCEPT ![v] = NoView] /\ NoView.pc = "idle"
    BY <1>2 DEF WaitBuild, NoView
  <2> QED BY <1>0, <2>1 DEF CacheIInv
<1>3. ASSUME NEW v \in Viewers, NEW error \in BOOLEAN, FinishBuild(v, error) PROVE CacheIInv'
  <2>1. /\ viewer[v].pc = "build" /\ viewer' = [viewer EXCEPT ![v] = NoView] /\ NoView.pc = "idle"
        /\ entry' = [id |-> entry.id, done |-> TRUE, error |-> error, time |-> entry.time]
    BY <1>3 DEF FinishBuild, NoView
  <2>2. \A w \in Viewers : viewer'[w].pc # "build"
    BY <1>0, <2>1 DEF CacheIInv
  <2>3. entry'.id \in Nat /\ DOMAIN viewer' = Viewers
    BY <1>0, <2>1
  <2> QED BY <2>2, <2>3 DEF CacheIInv
<1> QED BY <1>1, <1>2, <1>3 DEF CacheNext, ViewStep

\* The contest goes on without the cache.
LEMMA BoardStep ==
  ASSUME CacheIInv, BoardNext
  PROVE  CacheIInv'
<1>1. UNCHANGED cacheVars
  BY DEF BoardNext, BoardTick, MakeAttempt, CreateFakeAttempt, JudgeAttempt
<1> QED BY <1>1 DEF CacheIInv, cacheVars

\* One request builds.
LEMMA CacheIsBuiltOnce ==
  ASSUME CacheIInv
  PROVE  OneBuild
<1> DEFINE building == {v \in Viewers : viewer[v].pc = "build"}
<1>1. CASE building = {}
  BY <1>1, FS_EmptySet DEF OneBuild
<1>2. CASE building # {}
  <2>1. PICK v : building = {v}
    BY <1>2 DEF CacheIInv
  <2> HIDE DEF building
  <2>2. Cardinality(building) = 1
    BY <2>1, FS_Singleton
  <2>3. Cardinality(building) <= 1
    BY <2>2
  <2> QED BY <2>3 DEF OneBuild, building
<1> QED BY <1>1, <1>2

--------------------------------------------------------------------------------
(* The log of visits *)

\* A number that is larger than all before it.
LEMMA AppendAscends ==
  ASSUME NEW s, NEW n \in Nat, Ascending(s), AllBelow(s, n)
  PROVE  Ascending(Append(s, n)) /\ AllBelow(Append(s, n), n + 1)
<1>1. s \in Seq(Nat) /\ Append(s, n) \in Seq(Nat) /\ Len(Append(s, n)) = Len(s) + 1 /\ Len(s) \in Nat
  BY DEF Ascending
<1>2. /\ \A i \in 1..Len(s) : Append(s, n)[i] = s[i] /\ s[i] \in Nat /\ s[i] < n
      /\ Append(s, n)[Len(s) + 1] = n
  BY <1>1 DEF AllBelow
<1>3. \A i \in 1..(Len(s) + 1) : i \in 1..Len(s) \/ i = Len(s) + 1
  BY <1>1
<1>4. ASSUME NEW i \in 1..Len(Append(s, n)), NEW j \in 1..Len(Append(s, n)), i < j
      PROVE  Append(s, n)[i] < Append(s, n)[j]
  <2>1. i \in 1..Len(s)
    BY <1>1, <1>4
  <2>2. CASE j \in 1..Len(s)
    BY <1>2, <1>4, <2>1, <2>2 DEF Ascending
  <2>3. CASE j = Len(s) + 1
    BY <1>2, <2>1, <2>3
  <2> QED BY <1>1, <1>3, <2>2, <2>3
<1>5. ASSUME NEW i \in 1..Len(Append(s, n)) PROVE Append(s, n)[i] < n + 1
  BY <1>1, <1>2, <1>3
<1> QED BY <1>1, <1>4, <1>5 DEF Ascending, AllBelow

\* The rest of a channel.
LEMMA TailAscends ==
  ASSUME NEW s, Ascending(s), s # <<>>
  PROVE  /\ Ascending(Tail(s)) /\ AllAbove(Tail(s), Head(s)) /\ Head(s) \in Nat
         /\ 1 \in 1..Len(s) /\ Head(s) = s[1]
         /\ \A i \in 1..Len(Tail(s)) : i + 1 \in 1..Len(s) /\ Tail(s)[i] = s[i + 1]
<1>1. s \in Seq(Nat) /\ Len(s) \in Nat /\ Len(s) >= 1
  BY DEF Ascending
<1>2. Tail(s) \in Seq(Nat) /\ Len(Tail(s)) = Len(s) - 1 /\ Head(s) = s[1] /\ 1 \in 1..Len(s)
  BY <1>1
<1>3. \A i \in 1..Len(Tail(s)) : i + 1 \in 1..Len(s) /\ Tail(s)[i] = s[i + 1]
  BY <1>1, <1>2
<1>4. s[1] \in Nat
  BY <1>1, <1>2
<1>5. ASSUME NEW i \in 1..Len(Tail(s)), NEW j \in 1..Len(Tail(s)), i < j
      PROVE  Tail(s)[i] < Tail(s)[j]
  BY <1>1, <1>2, <1>3, <1>5 DEF Ascending
<1>6. ASSUME NEW i \in 1..Len(Tail(s)) PROVE Head(s) < Tail(s)[i]
  BY <1>1, <1>2, <1>3 DEF Ascending
<1> QED BY <1>2, <1>3, <1>4, <1>5, <1>6 DEF Ascending, AllAbove

\* A visit leaves the channel.
LEMMA TakeStep ==
  ASSUME VisitsIInv, NEW next \in {"create", "drain"}, Take(next)
  PROVE  VisitsIInv'
<1>1. /\ channel # <<>> /\ visit' = Head(channel) /\ channel' = Tail(channel)
      /\ visitsDaemon' = next /\ UNCHANGED <<lastVisit, finished, stopping>>
  BY DEF Take
<1>2. Ascending(channel) /\ AllBelow(channel, lastVisit + 1) /\ lastVisit \in Nat
      /\ Ascending(finished) /\ AllBelow(finished, lastVisit + 1)
  BY DEF VisitsIInv
<1>3. /\ Ascending(Tail(channel)) /\ AllAbove(Tail(channel), Head(channel)) /\ Head(channel) \in Nat
      /\ 1 \in 1..Len(channel) /\ Head(channel) = channel[1]
      /\ \A i \in 1..Len(Tail(channel)) :
             i + 1 \in 1..Len(channel) /\ Tail(channel)[i] = channel[i + 1]
  BY <1>1, <1>2, TailAscends
<1>4. Head(channel) \in 0..lastVisit
  BY <1>2, <1>3 DEF AllBelow
<1>5. AllBelow(Tail(channel), lastVisit + 1)
  BY <1>2, <1>3 DEF AllBelow
<1>6. \A i \in 1..Len(finished) : AllAbove(Tail(channel), finished[i])
  BY <1>3 DEF VisitsIInv, AllAbove
<1>7. AllBelow(finished, Head(channel))
  BY <1>3 DEF VisitsIInv, AllAbove, AllBelow
<1> QED BY <1>1, <1>2, <1>3, <1>4, <1>5, <1>6, <1>7 DEF VisitsIInv

\* A visit is put in the channel, or dropped.
LEMMA LogVisitStep ==
  ASSUME VisitsIInv, LogVisit
  PROVE  VisitsIInv'
<1>1. /\ lastVisit' = lastVisit + 1 /\ UNCHANGED <<visitsDaemon, visit, finished, stopping>>
      /\ channel' = channel \/ channel' = Append(channel, lastVisit + 1)
  BY DEF LogVisit
<1>2. PICK n : n = lastVisit + 1
  OBVIOUS
<1>3. lastVisit \in Nat /\ n \in Nat /\ lastVisit' = n /\ n = lastVisit + 1
  BY <1>1, <1>2 DEF VisitsIInv
<1>4. /\ Ascending(channel) /\ AllBelow(channel, n) /\ Ascending(finished) /\ AllBelow(finished, n)
      /\ VisitIsPending => visit \in 0..lastVisit /\ AllBelow(finished, visit) /\ AllAbove(channel, visit)
  BY <1>3 DEF VisitsIInv
<1>5. ASSUME NEW s, Ascending(s), AllBelow(s, n) PROVE AllBelow(s, n + 1)
  BY <1>3, <1>5 DEF Ascending, AllBelow
<1>6. Ascending(channel') /\ AllBelow(channel', n + 1) /\ AllBelow(finished, n + 1)
  BY <1>1, <1>3, <1>4, <1>5, AppendAscends
<1>7. ASSUME NEW m, m < n, AllAbove(channel, m) PROVE AllAbove(channel', m)
  <2>1. CASE channel' = channel
    BY <1>7, <2>1
  <2>2. CASE channel' = Append(channel, n)
    <3>1. channel \in Seq(Nat) /\ Len(Append(channel, n)) = Len(channel) + 1 /\ Len(channel) \in Nat
      BY <1>4 DEF Ascending
    <3>2. \A i \in 1..(Len(channel) + 1) :
            Append(channel, n)[i] = IF i \in 1..Len(channel) THEN channel[i] ELSE n
      BY <1>3, <3>1
    <3> QED BY <1>7, <2>2, <3>1, <3>2 DEF AllAbove
  <2> QED BY <1>1, <1>2, <2>1, <2>2
<1>8. \A i \in 1..Len(finished) : AllAbove(channel', finished[i])
  <2>1. ASSUME NEW i \in 1..Len(finished) PROVE AllAbove(channel', finished[i])
    <3>1. finished[i] < n /\ AllAbove(channel, finished[i])
      BY <1>4 DEF AllBelow, VisitsIInv
    <3> QED BY <3>1, <1>7
  <2> QED BY <2>1
<1>9. VisitIsPending' => visit' \in 0..lastVisit' /\ AllBelow(finished', visit') /\ AllAbove(channel', visit')
  <2>1. VisitIsPending' = VisitIsPending
    BY <1>1 DEF VisitIsPending
  <2>2. ASSUME VisitIsPending PROVE visit \in 0..n /\ visit < n
    BY <1>3, <1>4, <2>2
  <2> QED BY <1>1, <1>3, <1>4, <1>7, <2>1, <2>2
<1> QED BY <1>1, <1>3, <1>4, <1>6, <1>8, <1>9 DEF VisitsIInv

\* A visit is written.
LEMMA CreateVisitStep ==
  ASSUME VisitsIInv, CreateVisit
  PROVE  VisitsIInv'
<1>1. /\ VisitIsPending /\ ~VisitIsPending' /\ finished' = Append(finished, visit)
      /\ UNCHANGED <<channel, lastVisit, visit>>
  BY DEF CreateVisit, VisitIsPending
<1>2. /\ lastVisit \in Nat /\ visit \in 0..lastVisit /\ AllBelow(finished, visit) /\ AllAbove(channel, visit)
      /\ Ascending(finished) /\ Ascending(channel) /\ AllBelow(channel, lastVisit + 1)
  BY <1>1 DEF VisitsIInv
<1>3. visit \in Nat /\ visit <= lastVisit
  BY <1>2
<1>4. Ascending(finished') /\ AllBelow(finished', visit + 1)
  BY <1>1, <1>2, <1>3, AppendAscends
<1>5. AllBelow(finished', lastVisit + 1)
  BY <1>2, <1>3, <1>4 DEF AllBelow, Ascending
<1>6. ASSUME NEW i \in 1..Len(finished') PROVE AllAbove(channel, finished'[i])
  <2>1. finished \in Seq(Nat) /\ Len(finished') = Len(finished) + 1 /\ Len(finished) \in Nat
    BY <1>1, <1>2 DEF Ascending
  <2>2. finished'[i] = IF i \in 1..Len(finished) THEN finished[i] ELSE visit
    BY <1>1, <1>3, <2>1
  <2> QED BY <1>2, <2>2 DEF VisitsIInv
<1> QED BY <1>1, <1>2, <1>4, <1>5, <1>6 DEF VisitsIInv

\* Every step of the log.
LEMMA VisitsStep ==
  ASSUME VisitsIInv, VisitNext
  PROVE  VisitsIInv'
<1>1. CASE StopServer
  BY <1>1 DEF StopServer, VisitsIInv, VisitIsPending
<1>2. CASE TakeVisit
  BY <1>2, TakeStep DEF TakeVisit
<1>3. CASE SeeDone
  <2>1. CASE channel # <<>>
    BY <1>3, <2>1, TakeStep DEF SeeDone
  <2>2. CASE channel = <<>>
    <3>1. visitsDaemon' = "stopped" /\ UNCHANGED <<channel, lastVisit, visit, finished, stopping>>
      BY <1>3, <2>2 DEF SeeDone
    <3> QED BY <3>1 DEF VisitsIInv, VisitIsPending
  <2> QED BY <2>1, <2>2
<1> QED BY <1>1, <1>2, <1>3, LogVisitStep, CreateVisitStep DEF VisitNext, Daemon

--------------------------------------------------------------------------------
(* The parts side by side *)

\* The invariant of the parts.
LEMMA ServicesInvariant == ServicesSpec => []ServicesIInv
<1>1. ServicesInit => ServicesIInv
  <2> SUFFICES ASSUME ServicesInit PROVE ServicesIInv
    OBVIOUS
  <2>1. GroupsIInv
    BY GroupsStart DEF ServicesInit
  <2>2. CacheIInv
    BY DEF ServicesInit, StandingsInit, NoEntry, NoView, CacheIInv
  <2>3. VisitsIInv
    <3>1. channel = <<>> /\ finished = <<>> /\ lastVisit = 0 /\ visitsDaemon = "wait"
      BY DEF ServicesInit, VisitInit
    <3>2. <<>> \in Seq(Nat) /\ Len(<<>>) = 0 /\ 1..0 = {}
      OBVIOUS
    <3>3. Ascending(<<>>) /\ AllBelow(<<>>, 1)
      BY <3>2 DEF Ascending, AllBelow
    <3> QED BY <3>1, <3>2, <3>3 DEF VisitsIInv, VisitIsPending
  <2> QED BY <2>1, <2>2, <2>3 DEF ServicesIInv
<1>2. ServicesIInv /\ [ServicesNext]_servicesVars => ServicesIInv'
  <2> SUFFICES ASSUME ServicesIInv, [ServicesNext]_servicesVars PROVE ServicesIInv'
    OBVIOUS
  <2>0. GroupsIInv /\ CacheIInv /\ VisitsIInv
    BY DEF ServicesIInv
  <2>1. ASSUME UNCHANGED <<accountVars, groupVars>> PROVE GroupsIInv'
    <3>1. UNCHANGED <<account, session, sessions, object, member, members, groupClient>>
      BY <2>1 DEF accountVars, groupVars
    <3> QED BY <2>0, <3>1, OnlySessionsGo, NoRequestStep
  <2>2. ASSUME UNCHANGED standingsVars PROVE CacheIInv'
    BY <2>0, <2>2 DEF standingsVars, cacheVars, CacheIInv
  <2>3. ASSUME UNCHANGED visitVars PROVE VisitsIInv'
    BY <2>0, <2>3 DEF visitVars, VisitsIInv, VisitIsPending
  <2>4. CASE AccountsNext /\ UNCHANGED <<standingsVars, visitVars>>
    BY <2>0, <2>2, <2>3, <2>4, AccountsStep DEF ServicesIInv
  <2>5. CASE (CacheNext \/ BoardNext) /\ UNCHANGED <<accountVars, groupVars, visitVars>>
    BY <2>0, <2>1, <2>3, <2>5, CacheStep, BoardStep DEF ServicesIInv
  <2>6. CASE VisitNext /\ UNCHANGED <<accountVars, groupVars, standingsVars>>
    BY <2>0, <2>1, <2>2, <2>6, VisitsStep DEF ServicesIInv
  <2>7. CASE UNCHANGED servicesVars
    BY <2>1, <2>2, <2>3, <2>7 DEF ServicesIInv, servicesVars
  <2> QED BY <2>4, <2>5, <2>6, <2>7 DEF ServicesNext
<1> QED BY <1>1, <1>2, PTL DEF ServicesSpec

\* No row of a group, a scope, a member or a session refers to an account that is gone
\* or of another kind, an account is in a group once, standings are built by one request
\* at a time, and visits are written in order, whatever requests do at the same time
\* (groups.go, scopes.go, buildStandings, visitsDaemon).
THEOREM ServicesAreConsistent == ServicesSpec => []ServicesInv
<1>1. ServicesIInv => ServicesInv
  <2> SUFFICES ASSUME ServicesIInv PROVE ServicesInv
    OBVIOUS
  <2>1. GroupsIInv /\ CacheIInv /\ VisitsIInv
    BY DEF ServicesIInv
  <2>2. NoDanglingRows
    <3>1. \A i \in AccountIds : account[i] /= "user" => object[i].kind = (IF HasAccount(i) THEN account[i] ELSE "none")
      BY <2>1, GroupParts DEF AccountsTyped, AccountsHaveRows, KindOf, HasAccount, OwnedKinds
    <3>2. \A i \in AccountIds : Exists(object[i].owner) /\ (object[i].scope /= 0 => account[object[i].scope] = "scope")
      BY <2>1, GroupParts DEF ObjectsRefer
    <3>3. \A m \in member : account[m.group] = "group" /\ account[m.account] = "user"
      BY <2>1, GroupParts DEF MembersRefer
    <3>4. \A s \in session : HasAccount(s.account)
      BY <2>1, GroupParts DEF SessionsRefer
    <3> QED BY <3>1, <3>2, <3>3, <3>4 DEF NoDanglingRows
  <2>3. OneMembership
    BY <2>1, GroupParts
  <2>4. OneBuild
    BY <2>1, CacheIsBuiltOnce
  <2>5. VisitsInOrder
    BY <2>1 DEF VisitsIInv, Ascending, VisitsInOrder
  <2> QED BY <2>2, <2>3, <2>4, <2>5 DEF ServicesInv
<1> QED BY <1>1, ServicesInvariant, PTL

\* When a scope user is logged out with success, each session that was found has ended,
\* although the daemon and other requests end sessions at the same time (logoutScopeUser).
THEOREM LogoutEnds == ServicesSpec => LogoutEndsSessions
<1> DEFINE Ended == \A c \in GroupClients : LogoutScopeUser(c) =>
                        \A s \in session' : s.id \notin groupClient[c].found
<1>1. ServicesIInv => [Ended]_<<accountVars, groupVars>>
  <2> SUFFICES ASSUME ServicesIInv, NEW c \in GroupClients, LogoutScopeUser(c), NEW s \in session'
               PROVE  s.id \notin groupClient[c].found
    OBVIOUS
  <2>1. PICK q : q = groupClient[c]
    OBVIOUS
  <2>2. q.pc = "logout" /\ q.left = {} /\ session' = session
    BY <2>1 DEF LogoutScopeUser, accountVars
  <2>3. PendingGroupRequest(q)
    BY <2>1 DEF ServicesIInv, GroupsIInv
  <2>4. s.id \notin q.found \ q.left
    BY <2>2, <2>3 DEF PendingGroupRequest, PendingLogout
  <2> QED BY <2>1, <2>2, <2>4
<1> QED BY <1>1, ServicesInvariant, PTL DEF LogoutEndsSessions

--------------------------------------------------------------------------------
(* Migrations: the invariant *)

\* The operations that make tables and indexes, and the rows that are inserted.
NonRows(s) == {o \in s : o.kind # "rows"}
RowsOp(o) == o.kind = "rows" /\ o.refs = {}
SchemaOps(s) == \A o \in s : o \in Declared \/ RowsOp(o)
SchemaOf(n) == IF n = 1 THEN Declared ELSE {}
\* The first statements of the schema.
FirstOps(k) == {InitialSchema[i] : i \in {j \in DOMAIN InitialSchema : j <= k}}

Running(q) ==
    /\ q = [todo |-> q.todo, known |-> q.known, applied |-> q.applied, back |-> q.back,
            next |-> q.next, tx |-> q.tx]
    /\ q.todo \in Seq(Migrations) /\ Len(q.todo) > 0 /\ q.back \in BOOLEAN
    /\ q.next \in 1..(Len(Operations(q.todo[1])) + 1)
\* What is to be done is done once, and the command knows what is recorded of it.
TodoOK(q, h) ==
    \A i \in 1..Len(q.todo) :
        /\ q.todo[i] \in q.applied <=> h[q.todo[i]] = 1
        /\ \A j \in 1..Len(q.todo) : q.todo[i] = q.todo[j] => i = j
\* The transaction: forwards it has what was there and the statements so far, and
\* backwards those that are left.
TxOK(q, s) ==
    LET m == q.todo[1] IN
    /\ SchemaOps(q.tx)
    /\ m # "s001" => NonRows(q.tx) = NonRows(s)
    /\ m = "s001" /\ ~q.back => NonRows(q.tx) = NonRows(s) \cup FirstOps(q.next - 1)
    /\ m = "s001" /\ q.back =>
           IF m \in q.applied THEN NonRows(q.tx) = FirstOps(Len(InitialSchema) + 1 - q.next)
           ELSE NonRows(q.tx) = {}
HistoryOK(h, s) ==
    /\ h \in [Migrations -> {0, 1}]
    /\ SchemaOps(s) /\ NonRows(s) = SchemaOf(h["s001"])
CountersOK == migrateRuns \in 0..MaxMigrate /\ migrateFaults \in 0..MaxMigrateFaults
CommandOK == command = NoCommand \/ (Running(command) /\ TodoOK(command, history) /\ TxOK(command, schema))
MigrationsIInv == CountersOK /\ HistoryOK(history, schema) /\ CommandOK
--------------------------------------------------------------------------------
(* The schema: what the database accepts, in its order and backwards *)

IsSequence(s) == \E S : s \in Seq(S)
MadeBefore(s, table, i) == \E j \in 1..Len(s) : j < i /\ s[j].kind = "table" /\ s[j].table = table

\* The statements of s make the tables N and their events, given those of B: a table
\* comes once, after those that it refers to, and before its indexes.
WellBuilt(s, B, N) ==
    /\ IsSequence(s) /\ B \cap N = {}
    /\ \A i \in 1..Len(s) : s[i].table.name \in N /\ s[i].kind \in {"table", "index"}
    /\ \A n \in N : \E i \in 1..Len(s) : s[i].kind = "table" /\ s[i].table = ObjectTable(n)
    /\ \A i \in 1..Len(s) :
           \A r \in s[i].refs : r = s[i].table \/ r \in {ObjectTable(n) : n \in B} \/ MadeBefore(s, r, i)
    /\ \A i \in 1..Len(s) : s[i].kind = "index" => MadeBefore(s, s[i].table, i)
    /\ \A i, j \in 1..Len(s) : j < i => s[j] # s[i] /\ (s[i].kind = "table" => s[j].table # s[i].table)

\* Statements after others.
LEMMA BuiltThen ==
  ASSUME NEW s, NEW t, NEW B, NEW N, NEW C, NEW M, NEW K,
         WellBuilt(s, B, N), WellBuilt(t, C, M), C = B \cup N, K = N \cup M
  PROVE  WellBuilt(s \o t, B, K)
<1> DEFINE u == s \o t  a == Len(s)  b == Len(t)
<1>0. PICK S : s \in Seq(S) /\ t \in Seq(S)
  <2>1. PICK S1, S2 : s \in Seq(S1) /\ t \in Seq(S2)
    BY DEF WellBuilt, IsSequence
  <2>2. s \in Seq(S1 \cup S2)
    BY <2>1, SeqMonotonic
  <2>3. t \in Seq(S1 \cup S2)
    BY <2>1, SeqMonotonic
  <2> QED BY <2>2, <2>3
<1>1. a \in Nat /\ b \in Nat
  BY <1>0
<1>2. u \in Seq(S) /\ Len(u) = a + b
  BY <1>0
<1>3. /\ \A i \in 1..a : i \in 1..(a + b) /\ u[i] = s[i]
      /\ \A i \in 1..b : a + i \in 1..(a + b) /\ u[a + i] = t[i]
  BY <1>0
<1>4. \A i \in 1..(a + b) : i \in 1..a \/ \E k \in 1..b : i = a + k
  <2> SUFFICES ASSUME NEW i \in 1..(a + b), i \notin 1..a PROVE \E k \in 1..b : i = a + k
    OBVIOUS
  <2>1. i - a \in 1..b /\ i = a + (i - a)
    BY <1>1
  <2> QED BY <2>1
<1>5. B \cap K = {} /\ N \subseteq K /\ M \subseteq K /\ N \cap M = {} /\ N \cup M = K
  BY DEF WellBuilt
<1> HIDE DEF u, a, b
<1>6. ASSUME NEW i \in 1..(a + b) PROVE u[i].table.name \in K /\ u[i].kind \in {"table", "index"}
  <2>1. CASE i \in 1..a
    BY <1>3, <1>5, <2>1 DEF WellBuilt, a
  <2>2. ASSUME NEW k \in 1..b, i = a + k PROVE u[i].table.name \in K /\ u[i].kind \in {"table", "index"}
    BY <1>3, <1>5, <2>2 DEF WellBuilt, b
  <2> QED BY <1>4, <2>1, <2>2
<1>7. ASSUME NEW n \in K PROVE \E i \in 1..(a + b) : u[i].kind = "table" /\ u[i].table = ObjectTable(n)
  <2>1. CASE n \in N
    <3>1. PICK i \in 1..a : s[i].kind = "table" /\ s[i].table = ObjectTable(n)
      BY <2>1 DEF WellBuilt, a
    <3> QED BY <1>3, <3>1
  <2>2. CASE n \in M
    <3>1. PICK i \in 1..b : t[i].kind = "table" /\ t[i].table = ObjectTable(n)
      BY <2>2 DEF WellBuilt, b
    <3> QED BY <1>3, <3>1
  <2> QED BY <1>5, <2>1, <2>2
<1>8. ASSUME NEW i \in 1..a, NEW r, MadeBefore(s, r, i) PROVE MadeBefore(u, r, i)
  <2>1. PICK j \in 1..a : j < i /\ s[j].kind = "table" /\ s[j].table = r
    BY <1>8 DEF MadeBefore, a
  <2>2. j \in 1..Len(u) /\ u[j] = s[j]
    BY <1>2, <1>3
  <2> QED BY <2>1, <2>2 DEF MadeBefore
<1>9. ASSUME NEW i \in 1..b, NEW r, MadeBefore(t, r, i) PROVE MadeBefore(u, r, a + i)
  <2>1. PICK j \in 1..b : j < i /\ t[j].kind = "table" /\ t[j].table = r
    BY <1>9 DEF MadeBefore, b
  <2>2. a + j \in 1..Len(u) /\ u[a + j] = t[j]
    BY <1>2, <1>3
  <2>3. a + j < a + i
    BY <1>1, <2>1 DEF a
  <2> QED BY <2>1, <2>2, <2>3 DEF MadeBefore
<1>10. ASSUME NEW n \in N, NEW k \in 1..b PROVE MadeBefore(u, ObjectTable(n), a + k)
  <2>1. PICK i \in 1..a : s[i].kind = "table" /\ s[i].table = ObjectTable(n)
    BY DEF WellBuilt, a
  <2>2. i \in 1..Len(u) /\ u[i] = s[i]
    BY <1>2, <1>3
  <2>3. i < a + k
    BY <1>1 DEF a
  <2> QED BY <2>1, <2>2, <2>3 DEF MadeBefore
<1>11. ASSUME NEW i \in 1..(a + b), NEW r \in u[i].refs
       PROVE  r = u[i].table \/ r \in {ObjectTable(n) : n \in B} \/ MadeBefore(u, r, i)
  <2>1. CASE i \in 1..a
    <3>1. u[i] = s[i]
      BY <1>3, <2>1
    <3>2. r = s[i].table \/ r \in {ObjectTable(n) : n \in B} \/ MadeBefore(s, r, i)
      BY <1>11, <2>1, <3>1 DEF WellBuilt, a
    <3> QED BY <1>8, <2>1, <3>1, <3>2
  <2>2. ASSUME NEW k \in 1..b, i = a + k
        PROVE r = u[i].table \/ r \in {ObjectTable(n) : n \in B} \/ MadeBefore(u, r, i)
    <3>1. u[i] = t[k]
      BY <1>3, <2>2
    <3>2. r = t[k].table \/ r \in {ObjectTable(n) : n \in C} \/ MadeBefore(t, r, k)
      BY <1>11, <3>1 DEF WellBuilt, b
    <3>3. r \in {ObjectTable(n) : n \in C} => r \in {ObjectTable(n) : n \in B} \/ MadeBefore(u, r, i)
      BY <1>10, <2>2
    <3> QED BY <1>9, <2>2, <3>1, <3>2, <3>3
  <2> QED BY <1>4, <2>1, <2>2
<1>12. ASSUME NEW i \in 1..(a + b), u[i].kind = "index" PROVE MadeBefore(u, u[i].table, i)
  <2>1. CASE i \in 1..a
    <3>1. u[i] = s[i]
      BY <1>3, <2>1
    <3> QED BY <1>8, <1>12, <2>1, <3>1 DEF WellBuilt, a
  <2>2. ASSUME NEW k \in 1..b, i = a + k PROVE MadeBefore(u, u[i].table, i)
    <3>1. u[i] = t[k]
      BY <1>3, <2>2
    <3> QED BY <1>9, <1>12, <2>2, <3>1 DEF WellBuilt, b
  <2> QED BY <1>4, <2>1, <2>2
<1>13. ASSUME NEW i \in 1..(a + b), NEW j \in 1..(a + b), j < i
       PROVE  u[j] # u[i] /\ (u[i].kind = "table" => u[j].table # u[i].table)
  <2>1. CASE i \in 1..a
    <3>1. j \in 1..a
      BY <1>1, <1>13, <2>1 DEF a, b
    <3> QED BY <1>3, <1>13, <2>1, <3>1 DEF WellBuilt, a
  <2>2. ASSUME NEW k \in 1..b, i = a + k, j \in 1..a
        PROVE  u[j] # u[i] /\ (u[i].kind = "table" => u[j].table # u[i].table)
    <3>1. u[i] = t[k] /\ u[j] = s[j]
      BY <1>3, <2>2
    <3>2. s[j].table.name \in N /\ t[k].table.name \in M
      BY <2>2 DEF WellBuilt, a, b
    <3> QED BY <1>5, <3>1, <3>2
  <2>3. ASSUME NEW k \in 1..b, i = a + k, NEW l \in 1..b, j = a + l
        PROVE  u[j] # u[i] /\ (u[i].kind = "table" => u[j].table # u[i].table)
    <3>1. u[i] = t[k] /\ u[j] = t[l]
      BY <1>3, <2>3
    <3>2. l < k
      BY <1>1, <1>13, <2>3 DEF a
    <3> QED BY <3>1, <3>2 DEF WellBuilt, b
  <2> QED BY <1>4, <2>1, <2>2, <2>3
<1>14. IsSequence(u)
  BY <1>2 DEF IsSequence
<1> QED BY <1>2, <1>5, <1>6, <1>7, <1>11, <1>12, <1>13, <1>14, Zenon DEF WellBuilt, u

\* A table and its indexes.
Distinct(s) == IsSequence(s) /\ \A i, j \in 1..Len(s) : j < i => s[j] # s[i]
LEMMA PlainIsBuilt ==
  ASSUME NEW name, NEW refs, NEW indexes, Distinct(indexes),
         NEW B, name \notin B, refs \subseteq B \cup {name}
  PROVE  /\ WellBuilt(PlainTable(name, refs, indexes), B, {name})
         /\ \A i \in 1..Len(PlainTable(name, refs, indexes)) :
                ~PlainTable(name, refs, indexes)[i].table.event
<1> DEFINE T == ObjectTable(name)
           f == [i \in DOMAIN indexes |-> CreateIndex(T, indexes[i])]
           head == CreateTable(T, refs)
           s == <<head>> \o f
           k == Len(indexes)
<1>1. k \in Nat /\ DOMAIN indexes = 1..k
  BY DEF Distinct, IsSequence
<1>2. T.name = name /\ T.event = FALSE
  BY DEF ObjectTable
<1>3. head.kind = "table" /\ head.table = T /\ head.refs = {ObjectTable(r) : r \in refs}
  BY DEF CreateTable
<1>4. ASSUME NEW i \in 1..k
      PROVE  f[i].kind = "index" /\ f[i].table = T /\ f[i].columns = indexes[i] /\ f[i].refs = {}
  <2>1. f[i] = CreateIndex(T, indexes[i])
    BY <1>1
  <2> QED BY <2>1 DEF CreateIndex
<1> DEFINE S == {head} \cup {f[i] : i \in 1..k}
<1>5. f \in Seq(S) /\ Len(f) = k
  <2>1. f \in [1..k -> S]
    BY <1>1
  <2> HIDE DEF f, k, S
  <2> QED BY <1>1, <2>1
<1>h. head \in S
  OBVIOUS
<1> HIDE DEF f, head, T, S
<1>6. s \in Seq(S) /\ Len(s) = k + 1 /\ s[1] = head /\ \A i \in 1..k : s[i + 1] = f[i] /\ i + 1 \in 1..(k + 1)
  BY <1>1, <1>h, <1>5
<1>7. \A i \in 1..(k + 1) : i = 1 \/ \E j \in 1..k : i = j + 1
  <2> SUFFICES ASSUME NEW i \in 1..(k + 1), i # 1 PROVE \E j \in 1..k : i = j + 1
    OBVIOUS
  <2>1. i - 1 \in 1..k /\ i = (i - 1) + 1
    BY <1>1
  <2> QED BY <2>1
<1> HIDE DEF s, k
<1>8. 1 \in 1..(k + 1)
  BY <1>1
<1>9. \A i \in 1..(k + 1) : s[i].table = T
  BY <1>3, <1>4, <1>6, <1>7
<1>10. \A i \in 1..(k + 1) : s[i].kind = "table" => i = 1
  BY <1>4, <1>6, <1>7
<1>11. ASSUME NEW i \in 1..(k + 1), s[i].kind = "index" PROVE MadeBefore(s, s[i].table, i)
  <2>1. i # 1 /\ i > 1
    BY <1>1, <1>3, <1>6, <1>11
  <2> QED BY <1>3, <1>6, <1>8, <1>9, <2>1 DEF MadeBefore
<1>12. ASSUME NEW i \in 1..(k + 1), NEW r \in s[i].refs
       PROVE  r = s[i].table \/ r \in {ObjectTable(n) : n \in B}
  <2>1. r \in {ObjectTable(n) : n \in refs}
    BY <1>3, <1>4, <1>6, <1>7, <1>12
  <2>2. PICK n \in refs : r = ObjectTable(n)
    BY <2>1
  <2> QED BY <1>9, <2>2 DEF T
<1>13. ASSUME NEW i \in 1..(k + 1), NEW j \in 1..(k + 1), j < i
       PROVE  s[j] # s[i] /\ s[i].kind # "table"
  <2>1. PICK m \in 1..k : i = m + 1
    BY <1>1, <1>7, <1>13
  <2>2. s[i] = f[m] /\ f[m].kind = "index" /\ f[m].columns = indexes[m]
    BY <1>4, <1>6, <2>1
  <2>3. CASE j = 1
    BY <1>3, <1>6, <2>2, <2>3
  <2>4. ASSUME NEW l \in 1..k, j = l + 1 PROVE s[j] # s[i]
    <3>1. s[j] = f[l] /\ f[l].columns = indexes[l]
      BY <1>4, <1>6, <2>4
    <3>2. l < m
      BY <1>1, <1>13, <2>1, <2>4
    <3> QED BY <2>2, <3>1, <3>2 DEF Distinct, k
  <2> QED BY <1>7, <2>2, <2>3, <2>4
<1>14. WellBuilt(s, B, {name})
  <2>0. IsSequence(s) /\ B \cap {name} = {}
    BY <1>6 DEF IsSequence
  <2>1. \A i \in 1..(k + 1) : s[i].table.name \in {name} /\ s[i].kind \in {"table", "index"}
    <3>1. \A i \in 1..(k + 1) : s[i].table.name = name
      BY <1>2, <1>9
    <3>2. \A i \in 1..k : f[i].kind = "index"
      BY <1>4
    <3>3. \A i \in 1..(k + 1) : s[i].kind \in {"table", "index"}
      BY <1>3, <1>6, <1>7, <3>2
    <3> QED BY <3>1, <3>3
  <2>2. \A n \in {name} : \E i \in 1..(k + 1) : s[i].kind = "table" /\ s[i].table = ObjectTable(n)
    BY <1>3, <1>6, <1>8 DEF T
  <2> QED BY <1>6, <1>11, <1>12, <1>13, <2>0, <2>1, <2>2, Zenon DEF WellBuilt
<1>15. \A i \in 1..Len(s) : ~s[i].table.event
  BY <1>2, <1>6, <1>9
<1>16. PlainTable(name, refs, indexes) = s
  BY DEF PlainTable, s, head, f, T
<1> QED BY <1>14, <1>15, <1>16

\* A table with its log.
LEMMA StoredIsBuilt ==
  ASSUME NEW name, NEW refs, NEW indexes, Distinct(indexes),
         NEW B, name \notin B, refs \subseteq B \cup {name}
  PROVE  WellBuilt(Stored(name, refs, indexes), B, {name})
<1> DEFINE E == EventTable(name)
           p == PlainTable(name, refs, indexes)
           x == CreateTable(E, {})
           y == CreateIndex(E, <<"id", "event_id">>)
           s == p \o <<x, y>>
           k == Len(p)
<1>1. WellBuilt(p, B, {name}) /\ \A i \in 1..k : ~p[i].table.event
  BY PlainIsBuilt
<1>2. E.name = name /\ E.event = TRUE
  BY DEF EventTable
<1>3. x.kind = "table" /\ x.table = E /\ x.refs = {}
  BY DEF CreateTable
<1>4. y.kind = "index" /\ y.table = E /\ y.refs = {}
  BY DEF CreateIndex
<1> HIDE DEF x, y, E, p
<1>5. PICK S : p \in Seq(S) /\ x \in S /\ y \in S
  <2>1. PICK S : p \in Seq(S)
    BY <1>1 DEF WellBuilt, IsSequence
  <2>2. p \in Seq(S \cup {x, y})
    BY <2>1, SeqMonotonic
  <2> QED BY <2>2
<1>k. k \in Nat
  BY <1>5
<1>6. /\ s \in Seq(S) /\ Len(s) = k + 2 /\ s[k + 1] = x /\ s[k + 2] = y
      /\ \A i \in 1..k : s[i] = p[i] /\ i \in 1..(k + 2)
      /\ k + 1 \in 1..(k + 2)
  BY <1>k, <1>5
<1>7. \A i \in 1..(k + 2) : i \in 1..k \/ i = k + 1 \/ i = k + 2
  BY <1>k
<1> HIDE DEF s
<1>8. ASSUME NEW r, NEW i \in 1..k, MadeBefore(p, r, i) PROVE MadeBefore(s, r, i)
  BY <1>6, <1>8 DEF MadeBefore
<1>9. \A i \in 1..(k + 2) : s[i].table.name \in {name} /\ s[i].kind \in {"table", "index"}
  <2>1. \A i \in 1..k : p[i].table.name \in {name} /\ p[i].kind \in {"table", "index"}
    BY <1>1 DEF WellBuilt
  <2> QED BY <1>2, <1>3, <1>4, <1>6, <1>7, <2>1
<1>10. \A n \in {name} : \E i \in 1..(k + 2) : s[i].kind = "table" /\ s[i].table = ObjectTable(n)
  <2>1. \A n \in {name} : \E i \in 1..k : p[i].kind = "table" /\ p[i].table = ObjectTable(n)
    BY <1>1 DEF WellBuilt
  <2> QED BY <1>6, <2>1
<1>11. ASSUME NEW i \in 1..(k + 2), NEW r \in s[i].refs
       PROVE  r = s[i].table \/ r \in {ObjectTable(n) : n \in B} \/ MadeBefore(s, r, i)
  <2>1. i \in 1..k
    BY <1>3, <1>4, <1>6, <1>7, <1>11
  <2>2. s[i] = p[i]
    BY <1>6, <2>1
  <2>3. r = p[i].table \/ r \in {ObjectTable(n) : n \in B} \/ MadeBefore(p, r, i)
    BY <1>1, <1>11, <2>1, <2>2 DEF WellBuilt
  <2> QED BY <1>8, <2>1, <2>2, <2>3
<1>12. ASSUME NEW i \in 1..(k + 2), s[i].kind = "index" PROVE MadeBefore(s, s[i].table, i)
  <2>1. CASE i \in 1..k
    <3>1. s[i] = p[i]
      BY <1>6, <2>1
    <3>2. MadeBefore(p, p[i].table, i)
      BY <1>1, <1>12, <2>1, <3>1 DEF WellBuilt
    <3> QED BY <1>8, <2>1, <3>1, <3>2
  <2>2. CASE i = k + 1
    BY <1>3, <1>6, <1>12, <2>2
  <2>3. CASE i = k + 2
    <3>1. k + 1 < i /\ k + 1 \in 1..Len(s)
      BY <1>k, <1>6, <2>3
    <3> QED BY <1>3, <1>4, <1>6, <2>3, <3>1 DEF MadeBefore
  <2> QED BY <1>7, <2>1, <2>2, <2>3
<1>13. ASSUME NEW i \in 1..(k + 2), NEW j \in 1..(k + 2), j < i
       PROVE  s[j] # s[i] /\ (s[i].kind = "table" => s[j].table # s[i].table)
  <2>1. CASE i \in 1..k
    <3>1. j \in 1..k
      BY <1>k, <1>13, <2>1
    <3>2. s[i] = p[i] /\ s[j] = p[j]
      BY <1>6, <2>1, <3>1
    <3> QED BY <1>1, <1>13, <2>1, <3>1, <3>2 DEF WellBuilt
  <2>2. CASE i = k + 1
    <3>1. j \in 1..k
      BY <1>k, <1>13, <2>2
    <3>2. s[i] = x /\ s[j] = p[j] /\ ~p[j].table.event
      BY <1>1, <1>6, <2>2, <3>1
    <3>3. s[j].table # E
      BY <1>2, <3>2
    <3> QED BY <1>3, <3>2, <3>3
  <2>3. CASE i = k + 2
    <3>1. j \in 1..k \/ j = k + 1
      BY <1>k, <1>13, <2>3
    <3>2. s[i] = y /\ y.kind = "index" /\ y.table = E
      BY <1>4, <1>6, <2>3
    <3>3. CASE j = k + 1
      BY <1>3, <1>6, <3>2, <3>3
    <3>4. CASE j \in 1..k
      <4>1. s[j] = p[j] /\ ~p[j].table.event
        BY <1>1, <1>6, <3>4
      <4> QED BY <1>2, <3>2, <4>1
    <3> QED BY <3>1, <3>2, <3>3, <3>4
  <2> QED BY <1>7, <2>1, <2>2, <2>3
<1>14. B \cap {name} = {} /\ IsSequence(s)
  BY <1>6 DEF IsSequence
<1>15. WellBuilt(s, B, {name})
  BY <1>6, <1>9, <1>10, <1>11, <1>12, <1>13, <1>14, Zenon DEF WellBuilt
<1> QED BY <1>15 DEF Stored, s, p, x, y, E

\* Lists of no, one and two indexes.
LEMMA FewDistinct ==
  /\ Distinct(<<>>)
  /\ \A a : Distinct(<<a>>)
  /\ \A a, b : a # b => Distinct(<<a, b>>)
<1>1. Distinct(<<>>)
  <2>1. <<>> \in Seq({}) /\ Len(<<>>) = 0 /\ 1..0 = {}
    OBVIOUS
  <2> QED BY <2>1 DEF Distinct, IsSequence
<1>2. ASSUME NEW a PROVE Distinct(<<a>>)
  <2>1. <<a>> \in Seq({a}) /\ Len(<<a>>) = 1
    OBVIOUS
  <2>2. \A i, j \in 1..1 : ~(j < i)
    OBVIOUS
  <2> QED BY <2>1, <2>2 DEF Distinct, IsSequence
<1>3. ASSUME NEW a, NEW b, a # b PROVE Distinct(<<a, b>>)
  <2>1. <<a, b>> \in Seq({a, b}) /\ Len(<<a, b>>) = 2 /\ <<a, b>>[1] = a /\ <<a, b>>[2] = b
    OBVIOUS
  <2>2. \A i, j \in 1..2 : j < i => j = 1 /\ i = 2
    OBVIOUS
  <2> QED BY <1>3, <2>1, <2>2 DEF Distinct, IsSequence
<1> QED BY <1>1, <1>2, <1>3

\* One more table.
LEMMA TableThen ==
  ASSUME NEW s, NEW B, NEW N, WellBuilt(s, B, N),
         NEW name, NEW refs, NEW indexes, Distinct(indexes),
         name \notin B \cup N, refs \subseteq B \cup N \cup {name}, NEW K, K = N \cup {name}
  PROVE  /\ WellBuilt(s \o Stored(name, refs, indexes), B, K)
         /\ WellBuilt(s \o PlainTable(name, refs, indexes), B, K)
<1>1. WellBuilt(Stored(name, refs, indexes), B \cup N, {name})
  BY StoredIsBuilt
<1>2. WellBuilt(PlainTable(name, refs, indexes), B \cup N, {name})
  BY PlainIsBuilt
<1> QED BY <1>1, <1>2, BuiltThen

\* The tables, in the order in which they are created, and what comes before each group.
CommonNames == {"setting", "task", "lock", "file"}
AccountNames == {"role", "role_edge", "account", "account_role"}
UserNames == {"session", "token", "user"}
GroupNames == {"scope", "scope_user", "group", "group_member"}
ProblemNames == {"contest", "compiler", "problem", "problem_resource"}
SolutionNames == {"solution", "contest_problem", "contest_participant"}
ContestNames == {"contest_solution", "contest_message"}
PostNames == {"contest_fake_participant", "contest_fake_solution", "post", "post_file",
     "visit"}
BeforeRole == CommonNames
BeforeUser == BeforeRole \cup AccountNames
BeforeGroup == BeforeUser \cup UserNames
BeforeProblem == BeforeGroup \cup GroupNames
BeforeSolution == BeforeProblem \cup ProblemNames
BeforeContest == BeforeSolution \cup SolutionNames
BeforePost == BeforeContest \cup ContestNames

\* The tables of CommonTables.
LEMMA CommonTablesBuilt == WellBuilt(CommonTables, {}, CommonNames)
<1> DEFINE a == Stored("setting", {}, <<<<"key">>>>)
           b == a \o Stored("task", {}, <<<<"status">>>>)
           c == b \o PlainTable("lock", {}, <<<<"name">>>>)
           d == c \o Stored("file", {}, <<<<"path">>>>)
<1>1. WellBuilt(a, {}, {"setting"})
  <2>1. Distinct(<<<<"key">>>>)
    BY FewDistinct
  <2> QED BY <2>1, StoredIsBuilt
<1>2. WellBuilt(b, {}, {"setting", "task"})
  <2>1. Distinct(<<<<"status">>>>)
    BY FewDistinct
  <2> HIDE DEF a
  <2>3. "task" \notin {} \cup {"setting"} /\ {} \subseteq {} \cup {"setting"} \cup {"task"}
    OBVIOUS
  <2>4. {"setting", "task"} = {"setting"} \cup {"task"}
    OBVIOUS
  <2> QED BY <1>1, <2>1, <2>3, <2>4, TableThen
<1>3. WellBuilt(c, {}, {"setting", "task", "lock"})
  <2>1. Distinct(<<<<"name">>>>)
    BY FewDistinct
  <2> HIDE DEF b
  <2>3. "lock" \notin {} \cup {"setting", "task"} /\ {} \subseteq {} \cup {"setting", "task"} \cup {"lock"}
    OBVIOUS
  <2>4. {"setting", "task", "lock"} = {"setting", "task"} \cup {"lock"}
    OBVIOUS
  <2> QED BY <1>2, <2>1, <2>3, <2>4, TableThen
<1>4. WellBuilt(d, {}, {"setting", "task", "lock", "file"})
  <2>1. Distinct(<<<<"path">>>>)
    BY FewDistinct
  <2> HIDE DEF c
  <2>3. "file" \notin {} \cup {"setting", "task", "lock"} /\ {} \subseteq {} \cup {"setting", "task", "lock"} \cup {"file"}
    OBVIOUS
  <2>4. {"setting", "task", "lock", "file"} = {"setting", "task", "lock"} \cup {"file"}
    OBVIOUS
  <2> QED BY <1>3, <2>1, <2>3, <2>4, TableThen
<1> QED BY <1>4 DEF CommonTables, CommonNames

\* The tables of RoleTables.
LEMMA RoleTablesBuilt == WellBuilt(RoleTables, BeforeRole, AccountNames)
<1> DEFINE a == Stored("role", {}, <<<<"name">>>>)
           b == a \o Stored("role_edge", {"role"}, <<<<"role_id", "child_id">>>>)
           c == b \o Stored("account", {}, <<>>)
           d == c \o Stored("account_role", {"account", "role"}, <<<<"account_id", "role_id">>>>)
<1>0. "role" \notin BeforeRole /\ "role_edge" \notin BeforeRole /\ "account" \notin BeforeRole /\ "account_role" \notin BeforeRole
  BY DEF BeforeRole, CommonNames
<1>1. WellBuilt(a, BeforeRole, {"role"})
  <2>1. Distinct(<<<<"name">>>>)
    BY FewDistinct
  <2> QED BY <1>0, <2>1, StoredIsBuilt
<1>2. WellBuilt(b, BeforeRole, {"role", "role_edge"})
  <2>1. Distinct(<<<<"role_id", "child_id">>>>)
    BY FewDistinct
  <2> HIDE DEF a
  <2>3. "role_edge" \notin BeforeRole \cup {"role"} /\ {"role"} \subseteq BeforeRole \cup {"role"} \cup {"role_edge"}
    BY <1>0
  <2>4. {"role", "role_edge"} = {"role"} \cup {"role_edge"}
    OBVIOUS
  <2> QED BY <1>1, <2>1, <2>3, <2>4, TableThen
<1>3. WellBuilt(c, BeforeRole, {"role", "role_edge", "account"})
  <2>1. Distinct(<<>>)
    BY FewDistinct
  <2> HIDE DEF b
  <2>3. "account" \notin BeforeRole \cup {"role", "role_edge"} /\ {} \subseteq BeforeRole \cup {"role", "role_edge"} \cup {"account"}
    BY <1>0
  <2>4. {"role", "role_edge", "account"} = {"role", "role_edge"} \cup {"account"}
    OBVIOUS
  <2> QED BY <1>2, <2>1, <2>3, <2>4, TableThen
<1>4. WellBuilt(d, BeforeRole, {"role", "role_edge", "account", "account_role"})
  <2>1. Distinct(<<<<"account_id", "role_id">>>>)
    BY FewDistinct
  <2> HIDE DEF c
  <2>3. "account_role" \notin BeforeRole \cup {"role", "role_edge", "account"} /\ {"account", "role"} \subseteq BeforeRole \cup {"role", "role_edge", "account"} \cup {"account_role"}
    BY <1>0
  <2>4. {"role", "role_edge", "account", "account_role"} = {"role", "role_edge", "account"} \cup {"account_role"}
    OBVIOUS
  <2> QED BY <1>3, <2>1, <2>3, <2>4, TableThen
<1> QED BY <1>4 DEF RoleTables, AccountNames

\* The tables of UserTables.
LEMMA UserTablesBuilt == WellBuilt(UserTables, BeforeUser, UserNames)
<1> DEFINE a == Stored("session", {"account"}, <<<<"expire_time">>>>)
           b == a \o Stored("token", {"account"}, <<>>)
           c == b \o Stored("user", {"account"}, <<<<"lower login">>, <<"lower email">>>>)
<1>0. "session" \notin BeforeUser /\ "token" \notin BeforeUser /\ "user" \notin BeforeUser
  BY DEF BeforeRole, BeforeUser, CommonNames, AccountNames
<1>1. WellBuilt(a, BeforeUser, {"session"})
  <2>1. Distinct(<<<<"expire_time">>>>)
    BY FewDistinct
  <2>2. {"account"} \subseteq BeforeUser
    BY DEF BeforeRole, BeforeUser, CommonNames, AccountNames
  <2> QED BY <1>0, <2>1, <2>2, StoredIsBuilt
<1>2. WellBuilt(b, BeforeUser, {"session", "token"})
  <2>1. Distinct(<<>>)
    BY FewDistinct
  <2>2. {"account"} \subseteq BeforeUser
    BY DEF BeforeRole, BeforeUser, CommonNames, AccountNames
  <2> HIDE DEF a
  <2>3. "token" \notin BeforeUser \cup {"session"} /\ {"account"} \subseteq BeforeUser \cup {"session"} \cup {"token"}
    BY <1>0, <2>2
  <2>4. {"session", "token"} = {"session"} \cup {"token"}
    OBVIOUS
  <2> QED BY <1>1, <2>1, <2>3, <2>4, TableThen
<1>3. WellBuilt(c, BeforeUser, {"session", "token", "user"})
  <2>1. Distinct(<<<<"lower login">>, <<"lower email">>>>)
    BY FewDistinct
  <2>2. {"account"} \subseteq BeforeUser
    BY DEF BeforeRole, BeforeUser, CommonNames, AccountNames
  <2> HIDE DEF b
  <2>3. "user" \notin BeforeUser \cup {"session", "token"} /\ {"account"} \subseteq BeforeUser \cup {"session", "token"} \cup {"user"}
    BY <1>0, <2>2
  <2>4. {"session", "token", "user"} = {"session", "token"} \cup {"user"}
    OBVIOUS
  <2> QED BY <1>2, <2>1, <2>3, <2>4, TableThen
<1> QED BY <1>3 DEF UserTables, UserNames

\* The tables of GroupTables.
LEMMA GroupTablesBuilt == WellBuilt(GroupTables, BeforeGroup, GroupNames)
<1> DEFINE a == Stored("scope", {"account"}, <<>>)
           b == a \o Stored("scope_user", {"account", "scope"}, <<<<"scope_id", "lower login">>>>)
           c == b \o Stored("group", {"account"}, <<>>)
           d == c \o Stored("group_member", {"group", "account"}, <<<<"group_id", "account_id">>, <<"account_id">>>>)
<1>0. "scope" \notin BeforeGroup /\ "scope_user" \notin BeforeGroup /\ "group" \notin BeforeGroup /\ "group_member" \notin BeforeGroup
  BY DEF BeforeRole, BeforeUser, BeforeGroup, CommonNames, AccountNames, UserNames
<1>1. WellBuilt(a, BeforeGroup, {"scope"})
  <2>1. Distinct(<<>>)
    BY FewDistinct
  <2>2. {"account"} \subseteq BeforeGroup
    BY DEF BeforeRole, BeforeUser, BeforeGroup, CommonNames, AccountNames, UserNames
  <2> QED BY <1>0, <2>1, <2>2, StoredIsBuilt
<1>2. WellBuilt(b, BeforeGroup, {"scope", "scope_user"})
  <2>1. Distinct(<<<<"scope_id", "lower login">>>>)
    BY FewDistinct
  <2>2. {"account"} \subseteq BeforeGroup
    BY DEF BeforeRole, BeforeUser, BeforeGroup, CommonNames, AccountNames, UserNames
  <2> HIDE DEF a
  <2>3. "scope_user" \notin BeforeGroup \cup {"scope"} /\ {"account", "scope"} \subseteq BeforeGroup \cup {"scope"} \cup {"scope_user"}
    BY <1>0, <2>2
  <2>4. {"scope", "scope_user"} = {"scope"} \cup {"scope_user"}
    OBVIOUS
  <2> QED BY <1>1, <2>1, <2>3, <2>4, TableThen
<1>3. WellBuilt(c, BeforeGroup, {"scope", "scope_user", "group"})
  <2>1. Distinct(<<>>)
    BY FewDistinct
  <2>2. {"account"} \subseteq BeforeGroup
    BY DEF BeforeRole, BeforeUser, BeforeGroup, CommonNames, AccountNames, UserNames
  <2> HIDE DEF b
  <2>3. "group" \notin BeforeGroup \cup {"scope", "scope_user"} /\ {"account"} \subseteq BeforeGroup \cup {"scope", "scope_user"} \cup {"group"}
    BY <1>0, <2>2
  <2>4. {"scope", "scope_user", "group"} = {"scope", "scope_user"} \cup {"group"}
    OBVIOUS
  <2> QED BY <1>2, <2>1, <2>3, <2>4, TableThen
<1>4. WellBuilt(d, BeforeGroup, {"scope", "scope_user", "group", "group_member"})
  <2>1. Distinct(<<<<"group_id", "account_id">>, <<"account_id">>>>)
    BY FewDistinct
  <2>2. {"account"} \subseteq BeforeGroup
    BY DEF BeforeRole, BeforeUser, BeforeGroup, CommonNames, AccountNames, UserNames
  <2> HIDE DEF c
  <2>3. "group_member" \notin BeforeGroup \cup {"scope", "scope_user", "group"} /\ {"group", "account"} \subseteq BeforeGroup \cup {"scope", "scope_user", "group"} \cup {"group_member"}
    BY <1>0, <2>2
  <2>4. {"scope", "scope_user", "group", "group_member"} = {"scope", "scope_user", "group"} \cup {"group_member"}
    OBVIOUS
  <2> QED BY <1>3, <2>1, <2>3, <2>4, TableThen
<1> QED BY <1>4 DEF GroupTables, GroupNames

\* The tables of ProblemTables.
LEMMA ProblemTablesBuilt == WellBuilt(ProblemTables, BeforeProblem, ProblemNames)
<1> DEFINE a == Stored("contest", {"account"}, <<>>)
           b == a \o Stored("compiler", {"account", "file"}, <<<<"name">>>>)
           c == b \o Stored("problem", {"account", "file"}, <<>>)
           d == c \o Stored("problem_resource", {"problem", "file"}, <<>>)
<1>0. "contest" \notin BeforeProblem /\ "compiler" \notin BeforeProblem /\ "problem" \notin BeforeProblem /\ "problem_resource" \notin BeforeProblem
  BY DEF BeforeRole, BeforeUser, BeforeGroup, BeforeProblem, CommonNames, AccountNames, UserNames, GroupNames
<1>1. WellBuilt(a, BeforeProblem, {"contest"})
  <2>1. Distinct(<<>>)
    BY FewDistinct
  <2>2. {"account"} \subseteq BeforeProblem
    BY DEF BeforeRole, BeforeUser, BeforeGroup, BeforeProblem, CommonNames, AccountNames, UserNames, GroupNames
  <2> QED BY <1>0, <2>1, <2>2, StoredIsBuilt
<1>2. WellBuilt(b, BeforeProblem, {"contest", "compiler"})
  <2>1. Distinct(<<<<"name">>>>)
    BY FewDistinct
  <2>2. {"account", "file"} \subseteq BeforeProblem
    BY DEF BeforeRole, BeforeUser, BeforeGroup, BeforeProblem, CommonNames, AccountNames, UserNames, GroupNames
  <2> HIDE DEF a
  <2>3. "compiler" \notin BeforeProblem \cup {"contest"} /\ {"account", "file"} \subseteq BeforeProblem \cup {"contest"} \cup {"compiler"}
    BY <1>0, <2>2
  <2>4. {"contest", "compiler"} = {"contest"} \cup {"compiler"}
    OBVIOUS
  <2> QED BY <1>1, <2>1, <2>3, <2>4, TableThen
<1>3. WellBuilt(c, BeforeProblem, {"contest", "compiler", "problem"})
  <2>1. Distinct(<<>>)
    BY FewDistinct
  <2>2. {"account", "file"} \subseteq BeforeProblem
    BY DEF BeforeRole, BeforeUser, BeforeGroup, BeforeProblem, CommonNames, AccountNames, UserNames, GroupNames
  <2> HIDE DEF b
  <2>3. "problem" \notin BeforeProblem \cup {"contest", "compiler"} /\ {"account", "file"} \subseteq BeforeProblem \cup {"contest", "compiler"} \cup {"problem"}
    BY <1>0, <2>2
  <2>4. {"contest", "compiler", "problem"} = {"contest", "compiler"} \cup {"problem"}
    OBVIOUS
  <2> QED BY <1>2, <2>1, <2>3, <2>4, TableThen
<1>4. WellBuilt(d, BeforeProblem, {"contest", "compiler", "problem", "problem_resource"})
  <2>1. Distinct(<<>>)
    BY FewDistinct
  <2>2. {"file"} \subseteq BeforeProblem
    BY DEF BeforeRole, BeforeUser, BeforeGroup, BeforeProblem, CommonNames, AccountNames, UserNames, GroupNames
  <2> HIDE DEF c
  <2>3. "problem_resource" \notin BeforeProblem \cup {"contest", "compiler", "problem"} /\ {"problem", "file"} \subseteq BeforeProblem \cup {"contest", "compiler", "problem"} \cup {"problem_resource"}
    BY <1>0, <2>2
  <2>4. {"contest", "compiler", "problem", "problem_resource"} = {"contest", "compiler", "problem"} \cup {"problem_resource"}
    OBVIOUS
  <2> QED BY <1>3, <2>1, <2>3, <2>4, TableThen
<1> QED BY <1>4 DEF ProblemTables, ProblemNames

\* The tables of SolutionTables.
LEMMA SolutionTablesBuilt == WellBuilt(SolutionTables, BeforeSolution, SolutionNames)
<1> DEFINE a == Stored("solution", {"problem", "compiler", "account", "file"}, <<>>)
           b == a \o Stored("contest_problem", {"contest", "problem"}, <<<<"contest_id", "problem_id">>, <<"contest_id", "code">>>>)
           c == b \o Stored("contest_participant", {"contest", "account"}, <<<<"contest_id", "account_id", "kind">>>>)
<1>0. "solution" \notin BeforeSolution /\ "contest_problem" \notin BeforeSolution /\ "contest_participant" \notin BeforeSolution
  BY DEF BeforeRole, BeforeUser, BeforeGroup, BeforeProblem, BeforeSolution, CommonNames, AccountNames, UserNames, GroupNames, ProblemNames
<1>1. WellBuilt(a, BeforeSolution, {"solution"})
  <2>1. Distinct(<<>>)
    BY FewDistinct
  <2>2. {"problem", "compiler", "account", "file"} \subseteq BeforeSolution
    BY DEF BeforeRole, BeforeUser, BeforeGroup, BeforeProblem, BeforeSolution, CommonNames, AccountNames, UserNames, GroupNames, ProblemNames
  <2> QED BY <1>0, <2>1, <2>2, StoredIsBuilt
<1>2. WellBuilt(b, BeforeSolution, {"solution", "contest_problem"})
  <2>1. Distinct(<<<<"contest_id", "problem_id">>, <<"contest_id", "code">>>>)
    BY FewDistinct
  <2>2. {"contest", "problem"} \subseteq BeforeSolution
    BY DEF BeforeRole, BeforeUser, BeforeGroup, BeforeProblem, BeforeSolution, CommonNames, AccountNames, UserNames, GroupNames, ProblemNames
  <2> HIDE DEF a
  <2>3. "contest_problem" \notin BeforeSolution \cup {"solution"} /\ {"contest", "problem"} \subseteq BeforeSolution \cup {"solution"} \cup {"contest_problem"}
    BY <1>0, <2>2
  <2>4. {"solution", "contest_problem"} = {"solution"} \cup {"contest_problem"}
    OBVIOUS
  <2> QED BY <1>1, <2>1, <2>3, <2>4, TableThen
<1>3. WellBuilt(c, BeforeSolution, {"solution", "contest_problem", "contest_participant"})
  <2>1. Distinct(<<<<"contest_id", "account_id", "kind">>>>)
    BY FewDistinct
  <2>2. {"contest", "account"} \subseteq BeforeSolution
    BY DEF BeforeRole, BeforeUser, BeforeGroup, BeforeProblem, BeforeSolution, CommonNames, AccountNames, UserNames, GroupNames, ProblemNames
  <2> HIDE DEF b
  <2>3. "contest_participant" \notin BeforeSolution \cup {"solution", "contest_problem"} /\ {"contest", "account"} \subseteq BeforeSolution \cup {"solution", "contest_problem"} \cup {"contest_participant"}
    BY <1>0, <2>2
  <2>4. {"solution", "contest_problem", "contest_participant"} = {"solution", "contest_problem"} \cup {"contest_participant"}
    OBVIOUS
  <2> QED BY <1>2, <2>1, <2>3, <2>4, TableThen
<1> QED BY <1>3 DEF SolutionTables, SolutionNames

\* The tables of ContestTables.
LEMMA ContestTablesBuilt == WellBuilt(ContestTables, BeforeContest, ContestNames)
<1> DEFINE a == Stored("contest_solution", {"solution", "contest", "contest_participant", "contest_problem"}, <<>>)
           b == a \o Stored("contest_message", {"contest", "contest_participant", "account", "contest_message", "contest_problem"}, <<>>)
<1>0. "contest_solution" \notin BeforeContest /\ "contest_message" \notin BeforeContest
  BY DEF BeforeRole, BeforeUser, BeforeGroup, BeforeProblem, BeforeSolution, BeforeContest, CommonNames, AccountNames, UserNames, GroupNames, ProblemNames, SolutionNames
<1>1. WellBuilt(a, BeforeContest, {"contest_solution"})
  <2>1. Distinct(<<>>)
    BY FewDistinct
  <2>2. {"solution", "contest", "contest_participant", "contest_problem"} \subseteq BeforeContest
    BY DEF BeforeRole, BeforeUser, BeforeGroup, BeforeProblem, BeforeSolution, BeforeContest, CommonNames, AccountNames, UserNames, GroupNames, ProblemNames, SolutionNames
  <2> QED BY <1>0, <2>1, <2>2, StoredIsBuilt
<1>2. WellBuilt(b, BeforeContest, {"contest_solution", "contest_message"})
  <2>1. Distinct(<<>>)
    BY FewDistinct
  <2>2. {"contest", "contest_participant", "account", "contest_problem"} \subseteq BeforeContest
    BY DEF BeforeRole, BeforeUser, BeforeGroup, BeforeProblem, BeforeSolution, BeforeContest, CommonNames, AccountNames, UserNames, GroupNames, ProblemNames, SolutionNames
  <2> HIDE DEF a
  <2>3. "contest_message" \notin BeforeContest \cup {"contest_solution"} /\ {"contest", "contest_participant", "account", "contest_message", "contest_problem"} \subseteq BeforeContest \cup {"contest_solution"} \cup {"contest_message"}
    BY <1>0, <2>2
  <2>4. {"contest_solution", "contest_message"} = {"contest_solution"} \cup {"contest_message"}
    OBVIOUS
  <2> QED BY <1>1, <2>1, <2>3, <2>4, TableThen
<1> QED BY <1>2 DEF ContestTables, ContestNames

\* The tables of PostTables.
LEMMA PostTablesBuilt == WellBuilt(PostTables, BeforePost, PostNames)
<1> DEFINE a == PlainTable("contest_fake_participant", {"contest"}, <<<<"contest_id", "external_id">>>>)
           b == a \o PlainTable("contest_fake_solution", {"contest", "contest_fake_participant", "contest_problem"}, <<<<"contest_id", "external_id">>>>)
           c == b \o Stored("post", {"account"}, <<<<"owner_id", "id">>>>)
           d == c \o Stored("post_file", {"post", "file"}, <<<<"post_id", "name">>>>)
           e == d \o PlainTable("visit", {}, <<>>)
<1>0. "contest_fake_participant" \notin BeforePost /\ "contest_fake_solution" \notin BeforePost /\ "post" \notin BeforePost /\ "post_file" \notin BeforePost /\ "visit" \notin BeforePost
  BY DEF BeforeRole, BeforeUser, BeforeGroup, BeforeProblem, BeforeSolution, BeforeContest, BeforePost, CommonNames, AccountNames, UserNames, GroupNames, ProblemNames, SolutionNames, ContestNames
<1>1. WellBuilt(a, BeforePost, {"contest_fake_participant"})
  <2>1. Distinct(<<<<"contest_id", "external_id">>>>)
    BY FewDistinct
  <2>2. {"contest"} \subseteq BeforePost
    BY DEF BeforeRole, BeforeUser, BeforeGroup, BeforeProblem, BeforeSolution, BeforeContest, BeforePost, CommonNames, AccountNames, UserNames, GroupNames, ProblemNames, SolutionNames, ContestNames
  <2> QED BY <1>0, <2>1, <2>2, PlainIsBuilt
<1>2. WellBuilt(b, BeforePost, {"contest_fake_participant", "contest_fake_solution"})
  <2>1. Distinct(<<<<"contest_id", "external_id">>>>)
    BY FewDistinct
  <2>2. {"contest", "contest_problem"} \subseteq BeforePost
    BY DEF BeforeRole, BeforeUser, BeforeGroup, BeforeProblem, BeforeSolution, BeforeContest, BeforePost, CommonNames, AccountNames, UserNames, GroupNames, ProblemNames, SolutionNames, ContestNames
  <2> HIDE DEF a
  <2>3. "contest_fake_solution" \notin BeforePost \cup {"contest_fake_participant"} /\ {"contest", "contest_fake_participant", "contest_problem"} \subseteq BeforePost \cup {"contest_fake_participant"} \cup {"contest_fake_solution"}
    BY <1>0, <2>2
  <2>4. {"contest_fake_participant", "contest_fake_solution"} = {"contest_fake_participant"} \cup {"contest_fake_solution"}
    OBVIOUS
  <2> QED BY <1>1, <2>1, <2>3, <2>4, TableThen
<1>3. WellBuilt(c, BeforePost, {"contest_fake_participant", "contest_fake_solution", "post"})
  <2>1. Distinct(<<<<"owner_id", "id">>>>)
    BY FewDistinct
  <2>2. {"account"} \subseteq BeforePost
    BY DEF BeforeRole, BeforeUser, BeforeGroup, BeforeProblem, BeforeSolution, BeforeContest, BeforePost, CommonNames, AccountNames, UserNames, GroupNames, ProblemNames, SolutionNames, ContestNames
  <2> HIDE DEF b
  <2>3. "post" \notin BeforePost \cup {"contest_fake_participant", "contest_fake_solution"} /\ {"account"} \subseteq BeforePost \cup {"contest_fake_participant", "contest_fake_solution"} \cup {"post"}
    BY <1>0, <2>2
  <2>4. {"contest_fake_participant", "contest_fake_solution", "post"} = {"contest_fake_participant", "contest_fake_solution"} \cup {"post"}
    OBVIOUS
  <2> QED BY <1>2, <2>1, <2>3, <2>4, TableThen
<1>4. WellBuilt(d, BeforePost, {"contest_fake_participant", "contest_fake_solution", "post",
     "post_file"})
  <2>1. Distinct(<<<<"post_id", "name">>>>)
    BY FewDistinct
  <2>2. {"file"} \subseteq BeforePost
    BY DEF BeforeRole, BeforeUser, BeforeGroup, BeforeProblem, BeforeSolution, BeforeContest, BeforePost, CommonNames, AccountNames, UserNames, GroupNames, ProblemNames, SolutionNames, ContestNames
  <2> HIDE DEF c
  <2>3. "post_file" \notin BeforePost \cup {"contest_fake_participant", "contest_fake_solution", "post"} /\ {"post", "file"} \subseteq BeforePost \cup {"contest_fake_participant", "contest_fake_solution", "post"} \cup {"post_file"}
    BY <1>0, <2>2
  <2>4. {"contest_fake_participant", "contest_fake_solution", "post", "post_file"} = {"contest_fake_participant", "contest_fake_solution", "post"} \cup {"post_file"}
    OBVIOUS
  <2> QED BY <1>3, <2>1, <2>3, <2>4, TableThen
<1>5. WellBuilt(e, BeforePost, {"contest_fake_participant", "contest_fake_solution", "post",
     "post_file", "visit"})
  <2>1. Distinct(<<>>)
    BY FewDistinct
  <2> HIDE DEF d
  <2>3. "visit" \notin BeforePost \cup {"contest_fake_participant", "contest_fake_solution", "post", "post_file"} /\ {} \subseteq BeforePost \cup {"contest_fake_participant", "contest_fake_solution", "post", "post_file"} \cup {"visit"}
    BY <1>0
  <2>4. {"contest_fake_participant", "contest_fake_solution", "post", "post_file", "visit"} = {"contest_fake_participant", "contest_fake_solution", "post", "post_file"} \cup {"visit"}
    OBVIOUS
  <2> QED BY <1>4, <2>1, <2>3, <2>4, TableThen
<1> QED BY <1>5 DEF PostTables, PostNames

\* Every table is created after those that it refers to, once, and before its indexes
\* (s001_initial.go).
LEMMA SchemaIsBuilt == \E N : WellBuilt(InitialSchema, {}, N)
<1> DEFINE a == CommonTables
           b == a \o RoleTables
           c == b \o UserTables
           d == c \o GroupTables
           e == d \o ProblemTables
           f == e \o SolutionTables
           g == f \o ContestTables
           h == g \o PostTables
<1>1. WellBuilt(b, {}, BeforeUser)
  BY CommonTablesBuilt, RoleTablesBuilt, BuiltThen DEF BeforeRole, BeforeUser
<1>2. WellBuilt(c, {}, BeforeGroup)
  BY <1>1, UserTablesBuilt, BuiltThen DEF BeforeGroup
<1>3. WellBuilt(d, {}, BeforeProblem)
  BY <1>2, GroupTablesBuilt, BuiltThen DEF BeforeProblem
<1>4. WellBuilt(e, {}, BeforeSolution)
  BY <1>3, ProblemTablesBuilt, BuiltThen DEF BeforeSolution
<1>5. WellBuilt(f, {}, BeforeContest)
  BY <1>4, SolutionTablesBuilt, BuiltThen DEF BeforeContest
<1>6. WellBuilt(g, {}, BeforePost)
  BY <1>5, ContestTablesBuilt, BuiltThen DEF BeforePost
<1>7. WellBuilt(h, {}, BeforePost \cup PostNames)
  BY <1>6, PostTablesBuilt, BuiltThen
<1> QED BY <1>7 DEF InitialSchema

\* What the database is asked to accept, statement by statement.
LEMMA SchemaFacts ==
  LET S == InitialSchema
      n == Len(InitialSchema)
  IN  /\ n \in Nat /\ DOMAIN S = 1..n
      /\ \A i \in 1..n : S[i].kind \in {"table", "index"}
      /\ \A i \in 1..n : \A r \in S[i].refs : r = S[i].table \/ MadeBefore(S, r, i)
      /\ \A i \in 1..n : S[i].kind = "index" => MadeBefore(S, S[i].table, i)
      /\ \A i, j \in 1..n : j < i => S[j] # S[i] /\ (S[i].kind = "table" => S[j].table # S[i].table)
<1>1. PICK N : WellBuilt(InitialSchema, {}, N)
  BY SchemaIsBuilt
<1>2. PICK T : InitialSchema \in Seq(T)
  BY <1>1 DEF WellBuilt, IsSequence
<1>3. {ObjectTable(n) : n \in {}} = {}
  OBVIOUS
<1> QED BY <1>1, <1>2, <1>3 DEF WellBuilt

\* The first statements, one by one.
LEMMA FirstSteps ==
  /\ FirstOps(0) = {} /\ FirstOps(Len(InitialSchema)) = Declared
  /\ \A k \in 1..Len(InitialSchema) : FirstOps(k) = FirstOps(k - 1) \cup {InitialSchema[k]}
  /\ \A k \in 0..Len(InitialSchema) : FirstOps(k) \subseteq Declared
  /\ \A o \in Declared : o.kind # "rows"
<1> DEFINE n == Len(InitialSchema)
<1>1. n \in Nat /\ DOMAIN InitialSchema = 1..n /\ \A i \in 1..n : InitialSchema[i].kind \in {"table", "index"}
  BY SchemaFacts
<1> HIDE DEF n
<1>2. FirstOps(0) = {}
  BY <1>1 DEF FirstOps
<1>3. FirstOps(n) = Declared
  <2>1. {j \in 1..n : j <= n} = 1..n
    BY <1>1
  <2> QED BY <1>1, <2>1 DEF FirstOps, Declared
<1>4. ASSUME NEW k \in 1..n PROVE FirstOps(k) = FirstOps(k - 1) \cup {InitialSchema[k]}
  <2>1. {j \in 1..n : j <= k} = {j \in 1..n : j <= k - 1} \cup {k}
    BY <1>1
  <2> QED BY <1>1, <2>1 DEF FirstOps
<1>5. ASSUME NEW k \in 0..n PROVE FirstOps(k) \subseteq Declared
  BY DEF FirstOps, Declared
<1>6. \A o \in Declared : o.kind # "rows"
  BY <1>1 DEF Declared
<1> QED BY <1>2, <1>3, <1>4, <1>5, <1>6 DEF n

\* Forwards each statement finds the tables it needs.
LEMMA ForwardAccepted ==
  ASSUME NEW k \in 1..Len(InitialSchema), NEW tx, FirstOps(k - 1) \subseteq tx
  PROVE  BuildApply(InitialSchema[k], tx)
<1> DEFINE n == Len(InitialSchema)  o == InitialSchema[k]
<1>1. n \in Nat /\ DOMAIN InitialSchema = 1..n /\ k \in 1..n
  BY SchemaFacts
<1>2. ASSUME NEW r, MadeBefore(InitialSchema, r, k) PROVE TableExists(r, tx)
  <2>1. PICK j \in 1..n : j < k /\ InitialSchema[j].kind = "table" /\ InitialSchema[j].table = r
    BY <1>2 DEF MadeBefore
  <2>2. j <= k - 1
    BY <1>1, <2>1
  <2>3. InitialSchema[j] \in FirstOps(k - 1)
    BY <1>1, <2>2 DEF FirstOps
  <2> QED BY <2>1, <2>3 DEF TableExists
<1>3. o.kind \in {"table", "index"} /\ \A r \in o.refs : r = o.table \/ MadeBefore(InitialSchema, r, k)
  BY SchemaFacts
<1>4. o.kind = "index" => MadeBefore(InitialSchema, o.table, k)
  BY SchemaFacts
<1> QED BY <1>2, <1>3, <1>4 DEF BuildApply

\* Backwards each statement takes away what nothing else refers to, and only that.
LEMMA BackwardAccepted ==
  ASSUME NEW k \in 1..Len(InitialSchema), NEW tx, SchemaOps(tx), NonRows(tx) = FirstOps(k)
  PROVE  /\ BuildUnapply(InitialSchema[k], tx)
         /\ NonRows(WithoutOp(InitialSchema[k], tx)) = FirstOps(k - 1)
<1> DEFINE n == Len(InitialSchema)  S == InitialSchema  o == InitialSchema[k]
<1>1. n \in Nat /\ DOMAIN S = 1..n /\ k \in 1..n
  BY SchemaFacts
<1>2. o.kind \in {"table", "index"}
  BY SchemaFacts
<1>3. \A j \in 1..n : j < k => S[j] # o /\ (o.kind = "table" => S[j].table # o.table)
  BY SchemaFacts
<1>4. BuildUnapply(o, tx)
  <2> SUFFICES ASSUME o.kind = "table", NEW p \in tx, o.table \in p.refs PROVE p = o
    BY DEF BuildUnapply
  <2>1. p.kind # "rows"
    BY FirstSteps DEF SchemaOps, RowsOp
  <2>2. p \in FirstOps(k)
    BY <2>1 DEF NonRows
  <2>3. PICK i \in 1..n : i <= k /\ p = S[i]
    BY <1>1, <2>2 DEF FirstOps
  <2>4. o.table = S[i].table \/ MadeBefore(S, o.table, i)
    BY <2>3, SchemaFacts
  <2>5. CASE MadeBefore(S, o.table, i)
    <3>1. PICK j \in 1..n : j < i /\ S[j].table = o.table
      BY <2>5 DEF MadeBefore
    <3>2. j < k
      BY <1>1, <2>3, <3>1
    <3> QED BY <1>3, <3>1, <3>2
  <2>6. CASE o.table = S[i].table
    <3>1. i < k \/ i = k
      BY <1>1, <2>3
    <3> QED BY <1>3, <2>3, <2>6, <3>1
  <2> QED BY <2>4, <2>5, <2>6
<1>5. ASSUME NEW p \in FirstOps(k - 1)
      PROVE  p \in tx /\ p.kind # "rows" /\ p # o /\ (o.kind = "table" => p.table # o.table)
  <2>1. PICK i \in 1..n : i <= k - 1 /\ p = S[i]
    BY <1>1, <1>5 DEF FirstOps
  <2>2. i < k
    BY <1>1, <2>1
  <2>3. p \in FirstOps(k)
    BY <1>5, FirstSteps
  <2> QED BY <1>3, <2>1, <2>2, <2>3 DEF NonRows
<1>6. FirstOps(k) = FirstOps(k - 1) \cup {o}
  BY FirstSteps
<1>7. NonRows(WithoutOp(o, tx)) = FirstOps(k - 1)
  <2>1. CASE o.kind = "table"
    <3>1. WithoutOp(o, tx) = {p \in tx : p.table # o.table}
      BY <2>1 DEF WithoutOp
    <3>2. ASSUME NEW p PROVE p \in NonRows(WithoutOp(o, tx)) <=> p \in NonRows(tx) /\ p.table # o.table
      BY <3>1 DEF NonRows
    <3> QED BY <1>5, <1>6, <2>1, <3>2
  <2>2. CASE o.kind = "index"
    <3>1. WithoutOp(o, tx) = tx \ {o}
      BY <2>2 DEF WithoutOp
    <3>2. ASSUME NEW p PROVE p \in NonRows(WithoutOp(o, tx)) <=> p \in NonRows(tx) /\ p # o
      BY <3>1 DEF NonRows
    <3> QED BY <1>5, <1>6, <3>2
  <2> QED BY <1>2, <2>1, <2>2
<1> QED BY <1>4, <1>7

\* What the migrations consist of.
LEMMA OperationsFacts ==
  /\ Operations("s001") = InitialSchema
  /\ \A m \in Migrations : Len(Operations(m)) \in Nat /\ DOMAIN Operations(m) = 1..Len(Operations(m))
  /\ \A m \in Migrations : m # "s001" =>
         \A i \in 1..Len(Operations(m)) : RowsOp(Operations(m)[i])
<1>1. Operations("s001") = InitialSchema
  BY Zenon DEF Operations
<1>2. Operations("d001") = CreateRoles
  BY Zenon DEF Operations
<1>3. Operations("d002") = CreateRuLocalizations
  BY Zenon DEF Operations
<1>4. Operations("d003") = CreateRuWebLocalizations
  BY Zenon DEF Operations
<1>5. \A table, rows : RowsOp(InsertRows(table, rows))
  BY DEF RowsOp, InsertRows
<1>6. /\ Len(CreateRoles) = 2 /\ DOMAIN CreateRoles = 1..2
      /\ CreateRoles[1] = InsertRows("role", "roles") /\ CreateRoles[2] = InsertRows("role_edge", "groups")
  BY DEF CreateRoles
<1>7. /\ Len(CreateRuLocalizations) = 1 /\ DOMAIN CreateRuLocalizations = 1..1
      /\ CreateRuLocalizations[1] = InsertRows("setting", "localization.ru")
  BY DEF CreateRuLocalizations
<1>8. /\ Len(CreateRuWebLocalizations) = 1 /\ DOMAIN CreateRuWebLocalizations = 1..1
      /\ CreateRuWebLocalizations[1] = InsertRows("setting", "localization.ru.web")
  BY DEF CreateRuWebLocalizations
<1>9. \A i \in 1..2 : i = 1 \/ i = 2
  OBVIOUS
<1>10. \A i \in 1..1 : i = 1
  OBVIOUS
<1>11. ASSUME NEW m \in Migrations
       PROVE  /\ Len(Operations(m)) \in Nat /\ DOMAIN Operations(m) = 1..Len(Operations(m))
              /\ m # "s001" => \A i \in 1..Len(Operations(m)) : RowsOp(Operations(m)[i])
  <2>1. CASE m = "s001"
    BY <1>1, <2>1, SchemaFacts
  <2>2. CASE m = "d001"
    BY <1>2, <1>5, <1>6, <1>9, <2>2
  <2>3. CASE m = "d002"
    BY <1>3, <1>5, <1>7, <1>10, <2>3
  <2>4. CASE m = "d003"
    BY <1>4, <1>5, <1>8, <1>10, <2>4
  <2> QED BY <2>1, <2>2, <2>3, <2>4 DEF Migrations
<1> QED BY <1>1, <1>11

\* Inserted rows change no table.
LEMMA RowsKeepTables ==
  ASSUME NEW o, RowsOp(o), NEW tx
  PROVE  NonRows(tx \cup {o}) = NonRows(tx) /\ WithoutOp(o, tx) = tx
<1>1. o.kind = "rows"
  BY DEF RowsOp
<1>2. NonRows(tx \cup {o}) = NonRows(tx)
  BY <1>1 DEF NonRows
<1>3. WithoutOp(o, tx) = tx
  BY <1>1 DEF WithoutOp
<1> QED BY <1>2, <1>3

\* A function on the first numbers is a sequence.
LEMMA ListOf ==
  ASSUME NEW S, NEW k \in Nat, NEW f \in [1..k -> S]
  PROVE  f \in Seq(S) /\ Len(f) = k
OBVIOUS

\* The state of a group has each of its migrations once.
Once(s) == s \in Seq(Migrations) /\ \A i, j \in 1..Len(s) : s[i] = s[j] => i = j
LEMMA StateIsOnce ==
  ASSUME NEW g \in MigrationGroups, NEW known, NEW state \in GetState(g, known)
  PROVE  Once(state)
<1> DEFINE all == GroupMigrations(g)
           places == {i \in DOMAIN all : all[i] \in known \/ history[all[i]] > 0}
<1>1. DOMAIN all \subseteq Nat /\ \A i, j \in DOMAIN all : all[i] \in Migrations /\ (all[i] = all[j] => i = j)
  <2>1. CASE g = "solve"
    <3>1. all = <<"s001">>
      BY <2>1 DEF GroupMigrations
    <3>2. DOMAIN all = {1} /\ all[1] = "s001"
      BY <3>1
    <3> QED BY <3>2 DEF Migrations
  <2>2. CASE g = "solve_data"
    <3>1. all = <<"d001", "d002", "d003">>
      BY <2>2 DEF GroupMigrations
    <3>2. DOMAIN all = {1, 2, 3} /\ all[1] = "d001" /\ all[2] = "d002" /\ all[3] = "d003"
      BY <3>1
    <3> QED BY <3>2 DEF Migrations
  <2> QED BY <2>1, <2>2 DEF MigrationGroups
<1>2. PICK n \in Nat : \E q \in [1..n -> places] :
          /\ \A i, j \in DOMAIN q : i < j => q[i] < q[j]
          /\ state = [i \in DOMAIN q |-> all[q[i]]]
  <2>1. Len(all) \in Nat
    BY DEF GroupMigrations
  <2> QED BY <2>1 DEF GetState
<1>p. PICK q \in [1..n -> places] :
          /\ \A i, j \in DOMAIN q : i < j => q[i] < q[j]
          /\ state = [i \in DOMAIN q |-> all[q[i]]]
  BY <1>2
<1>3. places \subseteq DOMAIN all
  OBVIOUS
<1> HIDE DEF places, all
<1>4. DOMAIN q = 1..n /\ \A i \in 1..n : q[i] \in DOMAIN all /\ q[i] \in Nat
  BY <1>1, <1>p, <1>3
<1>5. state \in [1..n -> Migrations]
  BY <1>1, <1>p, <1>4
<1>6. state \in Seq(Migrations) /\ Len(state) = n
  BY <1>p, <1>5
<1>7. ASSUME NEW i \in 1..n, NEW j \in 1..n, state[i] = state[j] PROVE i = j
  <2>1. state[i] = all[q[i]] /\ state[j] = all[q[j]]
    BY <1>p, <1>4
  <2>2. q[i] = q[j] /\ q[i] \in Nat
    BY <1>1, <1>4, <1>7, <2>1
  <2>3. ~(i < j) /\ ~(j < i)
    BY <1>p, <1>4, <2>2
  <2> QED BY <2>3
<1> QED BY <1>6, <1>7 DEF Once

\* Part of it, forwards or backwards, too.
PartOf(state, begin, target) ==
    IF target < begin THEN [i \in 1..(begin - target) |-> state[begin + 1 - i]]
                      ELSE [i \in 1..(target - begin) |-> state[begin + i]]
LEMMA TodoIsOnce ==
  ASSUME NEW state, Once(state), NEW begin \in 0..Len(state), NEW target \in 0..Len(state), target # begin,
         NEW todo, todo = PartOf(state, begin, target)
  PROVE  /\ Once(todo) /\ Len(todo) > 0
         /\ \A i \in 1..Len(todo) : \E k \in 1..Len(state) : todo[i] = state[k]
<1> DEFINE n == Len(state)
<1>1. n \in Nat /\ \A i \in 1..n : state[i] \in Migrations
  BY DEF Once
<1>2. \A i, j \in 1..n : state[i] = state[j] => i = j
  BY DEF Once
<1> HIDE DEF n
<1>3. CASE target < begin
  <2> DEFINE k == begin - target
  <2>1. k \in Nat /\ k > 0 /\ \A i \in 1..k : begin + 1 - i \in 1..n
    BY <1>1, <1>3 DEF n
  <2>2. todo = [i \in 1..k |-> state[begin + 1 - i]]
    BY <1>3 DEF PartOf
  <2> HIDE DEF k
  <2>3. todo \in [1..k -> Migrations]
    BY <1>1, <2>1, <2>2
  <2>4. todo \in Seq(Migrations) /\ Len(todo) = k
    BY <2>1, <2>3, ListOf
  <2>5. ASSUME NEW i \in 1..k, NEW j \in 1..k, todo[i] = todo[j] PROVE i = j
    <3>1. state[begin + 1 - i] = state[begin + 1 - j]
      BY <2>2, <2>5
    <3>2. begin + 1 - i = begin + 1 - j
      BY <1>2, <2>1, <3>1
    <3> QED BY <1>1, <3>2 DEF n
  <2>6. \A i \in 1..k : \E l \in 1..n : todo[i] = state[l]
    BY <2>1, <2>2
  <2> QED BY <2>1, <2>4, <2>5, <2>6 DEF Once, n
<1>4. CASE begin < target
  <2> DEFINE k == target - begin
  <2>1. k \in Nat /\ k > 0 /\ \A i \in 1..k : begin + i \in 1..n
    BY <1>1, <1>4 DEF n
  <2>2. todo = [i \in 1..k |-> state[begin + i]]
    BY <1>1, <1>4 DEF n, PartOf
  <2> HIDE DEF k
  <2>3. todo \in [1..k -> Migrations]
    BY <1>1, <2>1, <2>2
  <2>4. todo \in Seq(Migrations) /\ Len(todo) = k
    BY <2>1, <2>3, ListOf
  <2>5. ASSUME NEW i \in 1..k, NEW j \in 1..k, todo[i] = todo[j] PROVE i = j
    <3>1. state[begin + i] = state[begin + j]
      BY <2>2, <2>5
    <3>2. begin + i = begin + j
      BY <1>2, <2>1, <3>1
    <3> QED BY <1>1, <3>2 DEF n
  <2>6. \A i \in 1..k : \E l \in 1..n : todo[i] = state[l]
    BY <2>1, <2>2
  <2> QED BY <2>1, <2>4, <2>5, <2>6 DEF Once, n
<1>5. target < begin \/ begin < target
  <2>1. begin \in Nat /\ target \in Nat
    BY <1>1 DEF n
  <2> QED BY <2>1
<1> QED BY <1>3, <1>4, <1>5

\* A migration starts from what is committed.
LEMMA FreshTx ==
  ASSUME NEW q, NEW h, NEW s, HistoryOK(h, s), q.todo \in Seq(Migrations), Len(q.todo) > 0,
         TodoOK(q, h), q.next = 1, q.tx = s
  PROVE  TxOK(q, s)
<1> DEFINE m == q.todo[1]  n == Len(InitialSchema)
<1>1. n \in Nat
  BY SchemaFacts
<1>2. FirstOps(0) = {} /\ FirstOps(n) = Declared
  BY FirstSteps
<1>3. m \in Migrations /\ (m \in q.applied <=> h[m] = 1)
  BY DEF TodoOK
<1>4. SchemaOps(s) /\ NonRows(s) = SchemaOf(h["s001"]) /\ h[m] \in {0, 1}
  BY <1>3 DEF HistoryOK
<1>5. q.next - 1 = 0 /\ n + 1 - q.next = n
  BY <1>1
<1> HIDE DEF n, m
<1>6. m = "s001" /\ q.back => IF m \in q.applied THEN NonRows(q.tx) = FirstOps(n + 1 - q.next)
                              ELSE NonRows(q.tx) = {}
  BY <1>2, <1>3, <1>4, <1>5 DEF SchemaOf
<1>7. m = "s001" /\ ~q.back => NonRows(q.tx) = NonRows(s) \cup FirstOps(q.next - 1)
  BY <1>2, <1>5
<1> QED BY <1>4, <1>6, <1>7 DEF TxOK, m, n

\* The statement of a command that is next.
StatementOf(q) ==
    LET ops == Operations(q.todo[1])
    IN  ops[IF q.back THEN Len(ops) + 1 - q.next ELSE q.next]

\* The database accepts the statements of the schema.
LEMMA StatementAccepted ==
  ASSUME NEW q, NEW s, Running(q), TxOK(q, s), q.todo[1] = "s001", q.next <= Len(Operations("s001"))
  PROVE  IF q.back THEN BuildUnapply(StatementOf(q), q.tx) ELSE BuildApply(StatementOf(q), q.tx)
<1> DEFINE n == Len(InitialSchema)
<1>1. n \in Nat /\ Operations("s001") = InitialSchema
  BY SchemaFacts, OperationsFacts
<1>2. q.next \in 1..n /\ q.back \in BOOLEAN
  BY <1>1 DEF Running
<1>3. SchemaOps(q.tx)
  BY DEF TxOK
<1>4. CASE q.back
  <2> DEFINE k == n + 1 - q.next
  <2>1. k \in 1..n
    BY <1>1, <1>2
  <2>2. StatementOf(q) = InitialSchema[k]
    BY <1>1, <1>4 DEF StatementOf
  <2>3. IF q.todo[1] \in q.applied THEN NonRows(q.tx) = FirstOps(k) ELSE NonRows(q.tx) = {}
    BY <1>4 DEF TxOK
  <2> HIDE DEF k
  <2>4. CASE NonRows(q.tx) = FirstOps(k)
    BY <1>3, <1>4, <2>1, <2>2, <2>4, BackwardAccepted DEF n
  <2>5. CASE NonRows(q.tx) = {}
    <3>1. \A p \in q.tx : p.kind = "rows"
      BY <2>5 DEF NonRows
    <3>2. \A p \in q.tx : p.refs = {}
      BY <1>3, <3>1, FirstSteps DEF SchemaOps, RowsOp
    <3> QED BY <1>4, <2>2, <3>2 DEF BuildUnapply
  <2> QED BY <2>3, <2>4, <2>5
<1>5. CASE ~q.back
  <2>1. StatementOf(q) = InitialSchema[q.next]
    BY <1>1, <1>5 DEF StatementOf
  <2>2. NonRows(q.tx) = NonRows(s) \cup FirstOps(q.next - 1)
    BY <1>5 DEF TxOK
  <2>3. FirstOps(q.next - 1) \subseteq q.tx
    BY <2>2 DEF NonRows
  <2> QED BY <1>2, <1>5, <2>1, <2>3, ForwardAccepted DEF n
<1> QED BY <1>4, <1>5

\* A statement that is run leaves the transaction in order.
LEMMA StatementKept ==
  ASSUME NEW q, NEW h, NEW s, Running(q), TodoOK(q, h), TxOK(q, s),
         q.next <= Len(Operations(q.todo[1])), q.back => q.todo[1] \in q.applied,
         NEW o, o = StatementOf(q),
         NEW r, r = [todo |-> q.todo, known |-> q.known, applied |-> q.applied, back |-> q.back, next |-> q.next + 1,
                     tx |-> IF q.back THEN WithoutOp(o, q.tx) ELSE q.tx \cup {o}]
  PROVE  Running(r) /\ TodoOK(r, h) /\ TxOK(r, s)
<1> DEFINE m == q.todo[1]  ops == Operations(q.todo[1])  k == IF q.back THEN Len(ops) + 1 - q.next ELSE q.next
<1>1. m \in Migrations /\ q.next \in 1..Len(ops) /\ Len(ops) \in Nat /\ DOMAIN ops = 1..Len(ops) /\ q.back \in BOOLEAN
  <2>1. m \in Migrations
    BY DEF Running
  <2>2. Len(ops) \in Nat /\ DOMAIN ops = 1..Len(ops)
    BY <2>1, OperationsFacts
  <2>3. q.next \in 1..(Len(ops) + 1) /\ q.next <= Len(ops) /\ q.back \in BOOLEAN
    BY DEF Running
  <2>4. q.next \in 1..Len(ops)
    BY <2>2, <2>3
  <2> QED BY <2>1, <2>2, <2>3, <2>4
<1>2. k \in 1..Len(ops) /\ q.next + 1 \in 1..(Len(ops) + 1)
  BY <1>1
<1>3. o = ops[k]
  BY DEF StatementOf
<1>4. /\ r.todo = q.todo /\ r.applied = q.applied /\ r.back = q.back /\ r.next = q.next + 1
      /\ r.tx = IF q.back THEN WithoutOp(o, q.tx) ELSE q.tx \cup {o}
  OBVIOUS
<1>5. Running(r)
  BY <1>2 DEF Running
<1>6. TodoOK(r, h)
  BY <1>4 DEF TodoOK
<1> HIDE DEF k, ops
<1>7. ASSUME m # "s001" PROVE NonRows(r.tx) = NonRows(s) /\ SchemaOps(r.tx)
  <2>1. RowsOp(o)
    BY <1>1, <1>2, <1>3, <1>7, OperationsFacts DEF ops
  <2>2. NonRows(q.tx) = NonRows(s) /\ SchemaOps(q.tx)
    BY <1>7 DEF TxOK
  <2>3. r.tx = q.tx \/ r.tx = q.tx \cup {o}
    BY <1>4, <2>1, RowsKeepTables
  <2>4. NonRows(r.tx) = NonRows(q.tx)
    BY <2>1, <2>3, RowsKeepTables
  <2> QED BY <2>1, <2>2, <2>3, <2>4 DEF SchemaOps
<1>8. ASSUME m = "s001" PROVE ops = InitialSchema /\ o \in Declared /\ o.kind # "rows"
  <2>1. ops = InitialSchema
    BY <1>8, OperationsFacts DEF ops
  <2>2. o \in Declared
    BY <1>1, <1>2, <1>3, <2>1 DEF Declared
  <2> QED BY <2>1, <2>2, FirstSteps
<1>9. ASSUME m = "s001", ~q.back
      PROVE  NonRows(r.tx) = NonRows(s) \cup FirstOps(r.next - 1) /\ SchemaOps(r.tx)
  <2>1. NonRows(q.tx) = NonRows(s) \cup FirstOps(q.next - 1) /\ SchemaOps(q.tx)
    BY <1>9 DEF TxOK
  <2>2. r.tx = q.tx \cup {o} /\ o = InitialSchema[q.next]
    BY <1>3, <1>4, <1>8, <1>9 DEF k
  <2>3. FirstOps(q.next) = FirstOps(q.next - 1) \cup {o}
    BY <1>1, <1>8, <1>9, <2>2, FirstSteps
  <2>4. NonRows(r.tx) = NonRows(q.tx) \cup {o}
    BY <1>8, <1>9, <2>2 DEF NonRows
  <2>5. r.next - 1 = q.next
    BY <1>1, <1>4
  <2>6. SchemaOps(r.tx)
    BY <1>8, <1>9, <2>1, <2>2 DEF SchemaOps
  <2>7. NonRows(r.tx) = NonRows(s) \cup FirstOps(q.next)
    BY <2>1, <2>3, <2>4
  <2> QED BY <2>5, <2>6, <2>7
<1>10. ASSUME m = "s001", q.back
       PROVE  NonRows(r.tx) = FirstOps(Len(InitialSchema) + 1 - r.next) /\ SchemaOps(r.tx) /\ m \in q.applied
  <2>1. NonRows(q.tx) = FirstOps(Len(InitialSchema) + 1 - q.next) /\ SchemaOps(q.tx) /\ m \in q.applied
    BY <1>10 DEF TxOK
  <2>2. k \in 1..Len(InitialSchema) /\ k = Len(InitialSchema) + 1 - q.next /\ o = InitialSchema[k]
    BY <1>2, <1>3, <1>8, <1>10 DEF k
  <2>3. r.tx = WithoutOp(o, q.tx)
    BY <1>4, <1>10
  <2>4. NonRows(r.tx) = FirstOps(k - 1)
    BY <2>1, <2>2, <2>3, BackwardAccepted
  <2>5. Len(InitialSchema) + 1 - r.next = k - 1
    BY <1>1, <1>4, <2>2, SchemaFacts
  <2>6. r.tx \subseteq q.tx
    <3>1. o.kind = "table" => r.tx = {p \in q.tx : p.table # o.table}
      BY <2>3 DEF WithoutOp
    <3>2. o.kind = "index" => r.tx = q.tx \ {o}
      BY <2>3 DEF WithoutOp
    <3>3. o.kind \in {"table", "index"}
      BY <2>2, SchemaFacts
    <3> QED BY <3>1, <3>2, <3>3
  <2>7. SchemaOps(r.tx)
    BY <2>1, <2>6 DEF SchemaOps
  <2> QED BY <2>1, <2>4, <2>5, <2>7
<1> HIDE DEF m
<1>11. TxOK(r, s)
  BY <1>1, <1>4, <1>7, <1>9, <1>10, Zenon DEF TxOK, m
<1> QED BY <1>5, <1>6, <1>11

\* A migration that is committed leaves the schema its row says, and the next starts from it.
LEMMA MigrationCommitted ==
  ASSUME NEW q, NEW h, NEW s, Running(q), TodoOK(q, h), TxOK(q, s), HistoryOK(h, s),
         q.next > Len(Operations(q.todo[1])), q.back => q.todo[1] \in q.applied,
         NEW g, g = [h EXCEPT ![q.todo[1]] = IF q.back THEN 0 ELSE 1],
         NEW r, r = [todo |-> Tail(q.todo), known |-> q.known, applied |-> q.applied, back |-> q.back, next |-> 1,
                     tx |-> q.tx]
  PROVE  /\ HistoryOK(g, q.tx)
         /\ Len(q.todo) # 1 => Running(r) /\ TodoOK(r, g) /\ TxOK(r, q.tx)
<1> DEFINE m == q.todo[1]  n == Len(Operations(q.todo[1]))
<1>1. m \in Migrations /\ n \in Nat /\ q.next = n + 1 /\ q.back \in BOOLEAN
  <2>1. m \in Migrations
    BY DEF Running
  <2>2. n \in Nat
    BY <2>1, OperationsFacts
  <2>3. q.next \in 1..(n + 1) /\ q.next > n /\ q.back \in BOOLEAN
    BY DEF Running
  <2>4. q.next = n + 1
    BY <2>2, <2>3
  <2> QED BY <2>1, <2>2, <2>3, <2>4
<1> HIDE DEF n
<1>2. h \in [Migrations -> {0, 1}] /\ NonRows(s) = SchemaOf(h["s001"])
  BY DEF HistoryOK
<1>3. g \in [Migrations -> {0, 1}] /\ g[m] = (IF q.back THEN 0 ELSE 1) /\ \A x \in Migrations : x # m => g[x] = h[x]
  BY <1>1, <1>2
<1>4. SchemaOps(q.tx)
  BY DEF TxOK
<1>5. "s001" \in Migrations
  BY DEF Migrations
<1>6. NonRows(q.tx) = SchemaOf(g["s001"])
  <2>1. CASE m # "s001"
    BY <1>2, <1>3, <1>5, <2>1 DEF TxOK
  <2>2. CASE m = "s001" /\ ~q.back
    <3>1. n = Len(InitialSchema) /\ q.next - 1 = n
      BY <1>1, <2>2, OperationsFacts DEF n
    <3>2. NonRows(q.tx) = NonRows(s) \cup Declared
      BY <2>2, <3>1, FirstSteps DEF TxOK
    <3>3. NonRows(s) \subseteq Declared
      BY <1>2 DEF SchemaOf
    <3> QED BY <1>3, <2>2, <3>2, <3>3 DEF SchemaOf
  <2>3. CASE m = "s001" /\ q.back
    <3>1. n = Len(InitialSchema) /\ n + 1 - q.next = 0
      BY <1>1, <2>3, OperationsFacts DEF n
    <3>2. NonRows(q.tx) = FirstOps(n + 1 - q.next)
      BY <2>3, <3>1 DEF TxOK
    <3>3. NonRows(q.tx) = {}
      BY <3>1, <3>2, FirstSteps
    <3> QED BY <1>3, <2>3, <3>3 DEF SchemaOf
  <2> QED BY <1>1, <2>1, <2>2, <2>3
<1>7. HistoryOK(g, q.tx)
  BY <1>3, <1>4, <1>6 DEF HistoryOK
<1>8. ASSUME Len(q.todo) # 1 PROVE Running(r) /\ TodoOK(r, g) /\ TxOK(r, q.tx)
  <2> DEFINE l == Len(q.todo)  t == Tail(q.todo)
  <2>1. q.todo \in Seq(Migrations) /\ l \in Nat /\ l > 1
    <3>1. q.todo \in Seq(Migrations) /\ Len(q.todo) > 0
      BY DEF Running
    <3>2. l \in Nat
      BY <3>1
    <3>3. l > 0 /\ l # 1
      BY <1>8, <3>1
    <3> HIDE DEF l
    <3>4. l > 1
      BY <3>2, <3>3
    <3> QED BY <3>1, <3>2, <3>4 DEF l
  <2>2. /\ t \in Seq(Migrations) /\ Len(t) = l - 1
        /\ \A i \in 1..(l - 1) : t[i] = q.todo[i + 1] /\ i + 1 \in 1..l /\ i + 1 # 1
    BY <2>1
  <2>3. /\ r.todo = t /\ r.applied = q.applied /\ r.back = q.back /\ r.next = 1 /\ r.tx = q.tx
        /\ r.known = q.known
    OBVIOUS
  <2>4. 1 \in 1..l /\ 1 \in 1..(l - 1) /\ l - 1 > 0
    BY <2>1
  <2> HIDE DEF t, l
  <2>5. r = [todo |-> t, known |-> q.known, applied |-> q.applied, back |-> q.back, next |-> 1, tx |-> q.tx]
    BY DEF t
  <2>6. t[1] \in Migrations
    BY <2>2, <2>4 DEF t
  <2>7. 1 \in 1..(Len(Operations(t[1])) + 1)
    <3>1. Len(Operations(t[1])) \in Nat
      BY <2>6, OperationsFacts
    <3> QED BY <3>1
  <2>8. Running(r)
    <3>1. r = [todo |-> r.todo, known |-> r.known, applied |-> r.applied, back |-> r.back, next |-> r.next, tx |-> r.tx]
      BY <2>3, <2>5
    <3>2. Len(r.todo) > 0 /\ r.todo \in Seq(Migrations) /\ r.back \in BOOLEAN
      BY <1>1, <2>2, <2>3, <2>4
    <3>3. r.next \in 1..(Len(Operations(r.todo[1])) + 1)
      BY <2>3, <2>7
    <3> QED BY <3>1, <3>2, <3>3 DEF Running
  <2>9. \A i, j \in 1..l : q.todo[i] = q.todo[j] => i = j
    BY DEF TodoOK, l
  <2>10. ASSUME NEW i \in 1..(l - 1) PROVE t[i] \in q.applied <=> g[t[i]] = 1
    <3>1. t[i] = q.todo[i + 1] /\ i + 1 \in 1..l /\ i + 1 # 1
      BY <2>2
    <3>2. t[i] # m /\ t[i] \in Migrations
      BY <2>1, <2>4, <2>9, <3>1 DEF l
    <3>3. q.todo[i + 1] \in q.applied <=> h[q.todo[i + 1]] = 1
      BY <3>1 DEF TodoOK, l
    <3> QED BY <1>3, <3>1, <3>2, <3>3
  <2>11. ASSUME NEW i \in 1..(l - 1), NEW j \in 1..(l - 1), t[i] = t[j] PROVE i = j
    <3>1. q.todo[i + 1] = q.todo[j + 1] /\ i + 1 \in 1..l /\ j + 1 \in 1..l
      BY <2>2, <2>11
    <3>2. i + 1 = j + 1
      BY <2>9, <3>1
    <3> QED BY <3>2
  <2>12. TodoOK(r, g)
    BY <2>2, <2>3, <2>10, <2>11 DEF TodoOK
  <2>13. TxOK(r, q.tx)
    BY <1>7, <2>2, <2>3, <2>4, <2>12, FreshTx
  <2> QED BY <2>8, <2>12, <2>13
<1> QED BY <1>7, <1>8

\* A set of numbers up to n has a greatest one.
LEMMA GreatestNumber ==
  ASSUME NEW n \in Nat, NEW S, S \subseteq 0..n, S # {}
  PROVE  \E x \in S : \A y \in S : y <= x
<1>1. PICK R : R = {n - x : x \in S}
  OBVIOUS
<1>2. R \subseteq Nat /\ R # {}
  <2>1. ASSUME NEW x \in S PROVE n - x \in Nat
    <3>1. x \in 0..n
      OBVIOUS
    <3> QED BY <3>1
  <2> QED BY <1>1, <2>1
<1>3. PICK r \in R : \A z \in R : r <= z
  BY <1>2, LeastNumber
<1>4. PICK x \in S : r = n - x
  BY <1>1, <1>3
<1>5. ASSUME NEW y \in S PROVE y <= x
  <2>1. n - y \in R /\ r <= n - y
    BY <1>1, <1>3
  <2>2. x \in 0..n /\ y \in 0..n
    OBVIOUS
  <2> QED BY <1>4, <2>1, <2>2
<1> QED BY <1>4, <1>5

\* The commands find and leave history and schema in order.
LEMMA MigrationInvInit == MigrationInit => MigrationsIInv
<1> SUFFICES ASSUME MigrationInit PROVE MigrationsIInv
  OBVIOUS
<1>1. command = NoCommand /\ CountersOK
  BY MigrateAssumption DEF MigrationInit, CountersOK
<1>2. PICK migrated \in {{}, Migrations} :
        /\ history = [m \in Migrations |-> IF m \in migrated THEN 1 ELSE 0]
        /\ schema = UNION {{Operations(m)[i] : i \in DOMAIN Operations(m)} : m \in migrated}
  BY DEF MigrationInit
<1>3. "s001" \in Migrations
  BY DEF Migrations
<1>4. history \in [Migrations -> {0, 1}] /\ history["s001"] = IF migrated = Migrations THEN 1 ELSE 0
  BY <1>2, <1>3
<1>5. ASSUME NEW o \in schema PROVE o \in Declared \/ RowsOp(o)
  <2>0. PICK m \in migrated : \E i \in DOMAIN Operations(m) : o = Operations(m)[i]
    BY <1>2
  <2>1. PICK i \in DOMAIN Operations(m) : o = Operations(m)[i]
    BY <2>0
  <2>2. m \in Migrations
    BY <1>2
  <2>3. CASE m = "s001"
    BY <2>1, <2>3, OperationsFacts DEF Declared
  <2>4. CASE m # "s001"
    BY <2>1, <2>2, <2>4, OperationsFacts
  <2> QED BY <2>3, <2>4
<1>6. migrated = Migrations => Declared \subseteq schema
  <2> SUFFICES ASSUME migrated = Migrations, NEW i \in DOMAIN InitialSchema PROVE InitialSchema[i] \in schema
    BY DEF Declared
  <2>1. "s001" \in migrated /\ Operations("s001") = InitialSchema
    BY <1>3, OperationsFacts
  <2> QED BY <1>2, <2>1
<1>7. NonRows(schema) = SchemaOf(history["s001"])
  <2>1. CASE migrated = Migrations
    BY <1>4, <1>5, <1>6, <2>1, FirstSteps DEF NonRows, SchemaOf, RowsOp
  <2>2. CASE migrated = {}
    <3>1. schema = {} /\ migrated # Migrations
      BY <1>2, <1>3, <2>2
    <3> QED BY <1>4, <3>1 DEF NonRows, SchemaOf
  <2> QED BY <1>2, <2>1, <2>2
<1>8. HistoryOK(history, schema)
  BY <1>4, <1>5, <1>7 DEF HistoryOK, SchemaOps
<1> QED BY <1>1, <1>8 DEF MigrationsIInv, CommandOK

\* A command starts from the last applied migration or from the one it is given.
LEMMA MigrateStep ==
  ASSUME MigrationsIInv, Migrate
  PROVE  MigrationsIInv'
<1>1. history' = history /\ schema' = schema
  BY DEF Migrate
<1>2. HistoryOK(history, schema)
  BY DEF MigrationsIInv
<1>3. CountersOK'
  <2>1. migrateRuns \in 0..MaxMigrate /\ migrateRuns < MaxMigrate /\ migrateFaults \in 0..MaxMigrateFaults
    BY DEF MigrationsIInv, CountersOK, Migrate
  <2>2. migrateRuns' = migrateRuns + 1 /\ migrateFaults' = migrateFaults
    BY DEF Migrate
  <2>3. migrateRuns + 1 \in 0..MaxMigrate
    BY <2>1, MigrateAssumption
  <2> QED BY <2>1, <2>2, <2>3 DEF CountersOK
<1>4. PICK g \in MigrationGroups : \E known \in 1..Len(GroupMigrations(g)),
          from \in 0..Len(GroupMigrations(g)), target \in 0..Len(GroupMigrations(g)) :
          ApplyMigrations(g, {GroupMigrations(g)[i] : i \in 1..known}, from, target)
  BY DEF Migrate
<1>5. PICK last \in 1..Len(GroupMigrations(g)) : \E from \in 0..Len(GroupMigrations(g)), target \in 0..Len(GroupMigrations(g)) :
          ApplyMigrations(g, {GroupMigrations(g)[i] : i \in 1..last}, from, target)
  BY <1>4
<1>6. PICK known : known = {GroupMigrations(g)[i] : i \in 1..last}
  OBVIOUS
<1>7. PICK from \in 0..Len(GroupMigrations(g)), target \in 0..Len(GroupMigrations(g)) :
          ApplyMigrations(g, known, from, target)
  BY <1>5, <1>6, Zenon
<1>8. from \in Nat /\ target \in Nat
  BY DEF GroupMigrations
<1>9. PICK state \in GetState(g, known) :
        LET places == {i \in DOMAIN state : history[state[i]] > 0}
            end == IF places = {} THEN 0 ELSE CHOOSE i \in places : \A j \in places : j <= i
            begin == IF from = 0 THEN end ELSE from - 1
        IN  /\ from <= Len(state) /\ target <= Len(state) /\ target /= begin
            /\ command' = [todo |-> IF target < begin THEN [i \in 1..(begin - target) |-> state[begin + 1 - i]]
                                    ELSE [i \in 1..(target - begin) |-> state[begin + i]],
                           known |-> known, applied |-> {state[i] : i \in places},
                           back |-> target < begin, next |-> 1, tx |-> schema]
  BY <1>7, Zenon DEF ApplyMigrations
<1>10. Once(state)
  BY StateIsOnce
<1>11. state \in Seq(Migrations) /\ Len(state) \in Nat /\ DOMAIN state = 1..Len(state)
  BY <1>10 DEF Once
<1> DEFINE P == {i \in DOMAIN state : history[state[i]] > 0}
           E == IF P = {} THEN 0 ELSE CHOOSE i \in P : \A j \in P : j <= i
           B == IF from = 0 THEN E ELSE from - 1
           T == PartOf(state, B, target)
<1>12. /\ from <= Len(state) /\ target <= Len(state) /\ target /= B
       /\ command' = [todo |-> T, known |-> known, applied |-> {state[i] : i \in P},
                      back |-> target < B, next |-> 1, tx |-> schema]
  BY <1>9, Zenon DEF PartOf
<1>13. P \subseteq 1..Len(state)
  BY <1>11
<1>e. P # {} /\ (\E i \in P : \A j \in P : j <= i) => E \in P
  <2> SUFFICES ASSUME P # {}, \E i \in P : \A j \in P : j <= i PROVE E \in P
    OBVIOUS
  <2>1. E = CHOOSE i \in P : \A j \in P : j <= i
    BY Zenon
  <2> HIDE DEF E, P
  <2> QED BY <2>1
<1>14. E \in 0..Len(state)
  <2>1. P = {} => E = 0
    OBVIOUS
  <2> HIDE DEF E
  <2>2. PICK applied : applied = P
    OBVIOUS
  <2>3. applied \subseteq 0..Len(state)
    BY <1>11, <1>13, <2>2
  <2>4. applied # {} => \E i \in applied : \A j \in applied : j <= i
    BY <1>11, <2>3, GreatestNumber
  <2> HIDE DEF P
  <2>5. P # {} => E \in P
    BY <1>e, <2>2, <2>4, Zenon
  <2>6. 0 \in 0..Len(state)
    BY <1>11
  <2>7. P \subseteq 0..Len(state)
    BY <2>2, <2>3
  <2> QED BY <2>1, <2>5, <2>6, <2>7
<1>15. B \in 0..Len(state)
  <2> HIDE DEF E
  <2>1. from # 0 => from - 1 \in 0..Len(state)
    BY <1>8, <1>11, <1>12
  <2> QED BY <1>14, <2>1
<1> HIDE DEF E, B
<1>16. PICK applied, begin : applied = P /\ begin = B
  OBVIOUS
<1>t. PICK todo : todo = T
  OBVIOUS
<1>17. /\ todo = PartOf(state, begin, target)
       /\ target # begin
       /\ command' = [todo |-> todo, known |-> known, applied |-> {state[i] : i \in applied},
                      back |-> target < begin, next |-> 1, tx |-> schema]
       /\ applied = {i \in 1..Len(state) : history[state[i]] > 0}
  <2>1. todo = PartOf(state, begin, target)
    BY <1>16, <1>t, Zenon DEF PartOf
  <2>2. applied = {i \in 1..Len(state) : history[state[i]] > 0}
    BY <1>11, <1>16
  <2> HIDE DEF T, P
  <2>3. target # begin
    BY <1>12, <1>16
  <2>4. command' = [todo |-> todo, known |-> known, applied |-> {state[i] : i \in applied},
                    back |-> target < begin, next |-> 1, tx |-> schema]
    BY <1>12, <1>16, <1>t, Zenon
  <2> QED BY <2>1, <2>2, <2>3, <2>4
<1> HIDE DEF T, P
<1>18. begin \in 0..Len(state) /\ target \in 0..Len(state)
  <2>1. target \in 0..Len(state)
    BY <1>8, <1>11, <1>12
  <2> QED BY <1>15, <1>16, <2>1
<1>19. Once(todo) /\ Len(todo) > 0 /\ \A i \in 1..Len(todo) : \E k \in 1..Len(state) : todo[i] = state[k]
  BY <1>10, <1>17, <1>18, TodoIsOnce
<1>20. PICK names : names = {state[i] : i \in applied}
  OBVIOUS
<1>21. PICK back \in BOOLEAN : back = (target < begin)
  <2>1. (target < begin) \in BOOLEAN
    BY <1>11, <1>18
  <2> QED BY <2>1, Zenon
<1>22. PICK q : q = [todo |-> todo, known |-> known, applied |-> names, back |-> back, next |-> 1, tx |-> schema]
  OBVIOUS
<1>23. command' = q
  BY <1>17, <1>20, <1>21, <1>22
<1>24. /\ q.todo = todo /\ q.known = known /\ q.applied = names /\ q.back = back /\ q.next = 1 /\ q.tx = schema
  BY <1>22
<1>25. todo \in Seq(Migrations) /\ todo[1] \in Migrations
  BY <1>19 DEF Once
<1>26. Running(q)
  <2>1. 1 \in 1..(Len(Operations(todo[1])) + 1)
    <3>1. Len(Operations(todo[1])) \in Nat
      BY <1>25, OperationsFacts
    <3> QED BY <3>1
  <2>2. q = [todo |-> q.todo, known |-> q.known, applied |-> q.applied, back |-> q.back, next |-> q.next, tx |-> q.tx]
    BY <1>22, <1>24
  <2>3. q.todo \in Seq(Migrations) /\ Len(q.todo) > 0
    BY <1>19, <1>24, <1>25
  <2>4. q.next \in 1..(Len(Operations(q.todo[1])) + 1)
    BY <1>24, <2>1
  <2>5. q.back \in BOOLEAN
    BY <1>24
  <2> QED BY <2>2, <2>3, <2>4, <2>5, Zenon DEF Running
<1>27. TodoOK(q, history)
  <2>1. ASSUME NEW i \in 1..Len(todo) PROVE todo[i] \in names <=> history[todo[i]] = 1
    <3>1. PICK k \in 1..Len(state) : todo[i] = state[k]
      BY <1>19
    <3>2. \A j \in 1..Len(state) : history[state[j]] \in {0, 1}
      BY <1>2, <1>11 DEF HistoryOK
    <3>3. todo[i] \in names => history[todo[i]] = 1
      <4> SUFFICES ASSUME todo[i] \in names PROVE history[todo[i]] = 1
        OBVIOUS
      <4>1. PICK j \in applied : todo[i] = state[j]
        BY <1>20
      <4>2. j \in 1..Len(state) /\ history[state[j]] > 0
        BY <1>17
      <4>3. history[state[j]] = 1
        BY <3>2, <4>2
      <4> QED BY <4>1, <4>3
    <3>4. history[todo[i]] = 1 => todo[i] \in names
      <4> SUFFICES ASSUME history[todo[i]] = 1 PROVE todo[i] \in names
        OBVIOUS
      <4>1. history[state[k]] > 0
        BY <3>1
      <4>2. k \in applied
        BY <1>17, <4>1
      <4> QED BY <1>20, <3>1, <4>2
    <3> QED BY <3>3, <3>4
  <2>2. \A i, j \in 1..Len(todo) : todo[i] = todo[j] => i = j
    BY <1>19 DEF Once
  <2> QED BY <1>24, <2>1, <2>2, Zenon DEF TodoOK
<1>28. TxOK(q, schema)
  <2>1. q.todo \in Seq(Migrations) /\ Len(q.todo) > 0 /\ q.next = 1 /\ q.tx = schema
    BY <1>19, <1>24, <1>25
  <2> QED BY <1>2, <1>27, <2>1, FreshTx
<1>29. CommandOK'
  BY <1>1, <1>23, <1>26, <1>27, <1>28 DEF CommandOK
<1>30. HistoryOK(history, schema)'
  BY <1>1, <1>2
<1> QED BY <1>3, <1>29, <1>30 DEF MigrationsIInv

\* What a command that runs may count on.
LEMMA CommandFacts ==
  ASSUME MigrationsIInv, command # NoCommand
  PROVE  /\ Running(command) /\ TodoOK(command, history) /\ TxOK(command, schema)
         /\ CurrentMigration = command.todo[1] /\ CurrentMigration \in Migrations
         /\ Statement = StatementOf(command)
<1>1. Running(command) /\ TodoOK(command, history) /\ TxOK(command, schema)
  BY DEF MigrationsIInv, CommandOK
<1>2. command.todo \in Seq(Migrations) /\ Len(command.todo) > 0
  BY <1>1 DEF Running
<1>3. CurrentMigration = command.todo[1] /\ CurrentMigration \in Migrations
  BY <1>2 DEF CurrentMigration
<1>4. Statement = StatementOf(command)
  BY <1>3, Zenon DEF Statement, StatementOf
<1> QED BY <1>1, <1>3, <1>4

\* A command that ends leaves what is committed.
LEMMA CommandEnds ==
  ASSUME MigrationsIInv, command' = NoCommand, UNCHANGED <<schema, history, migrateRuns>>,
         migrateFaults' \in 0..MaxMigrateFaults
  PROVE  MigrationsIInv'
<1>1. CountersOK' /\ HistoryOK(history, schema)'
  BY DEF MigrationsIInv, CountersOK
<1>2. CommandOK'
  BY DEF CommandOK
<1> QED BY <1>1, <1>2 DEF MigrationsIInv

\* A statement runs in the transaction of the command.
LEMMA ExecStatementStep ==
  ASSUME MigrationsIInv, ExecStatement
  PROVE  MigrationsIInv'
<1>1. command # NoCommand /\ command.next <= Len(Operations(CurrentMigration)) /\ MayMigrate
  BY DEF ExecStatement, HasStatement
<1>2. /\ Running(command) /\ TodoOK(command, history) /\ TxOK(command, schema)
      /\ CurrentMigration = command.todo[1] /\ Statement = StatementOf(command)
  BY <1>1, CommandFacts
<1>3. PICK q : q = command
  OBVIOUS
<1>4. PICK h, s : h = history /\ s = schema
  OBVIOUS
<1>5. PICK o : o = StatementOf(q)
  OBVIOUS
<1>6. PICK tx : tx = IF q.back THEN WithoutOp(o, q.tx) ELSE q.tx \cup {o}
  OBVIOUS
<1>7. PICK r : r = [todo |-> q.todo, known |-> q.known, applied |-> q.applied, back |-> q.back, next |-> q.next + 1,
                    tx |-> tx]
  OBVIOUS
<1>8. command' = r
  <2>1. CommandAt(command.todo, command.next + 1,
                  IF command.back THEN WithoutOp(Statement, command.tx) ELSE command.tx \cup {Statement})
    BY DEF ExecStatement
  <2>2. Statement = o
    BY <1>2, <1>3, <1>5
  <2>3. tx = IF command.back THEN WithoutOp(Statement, command.tx) ELSE command.tx \cup {Statement}
    BY <1>3, <1>6, <2>2
  <2>4. CommandAt(command.todo, command.next + 1, tx)
    BY <2>1, <2>3
  <2> QED BY <1>3, <1>7, <2>4 DEF CommandAt
<1>9. q.back => q.todo[1] \in q.applied
  BY <1>1, <1>2, <1>3 DEF MayMigrate
<1>10. q.next <= Len(Operations(q.todo[1]))
  BY <1>1, <1>2, <1>3
<1>11. Running(q) /\ TodoOK(q, h) /\ TxOK(q, s)
  BY <1>2, <1>3, <1>4
<1>12. Running(r) /\ TodoOK(r, h) /\ TxOK(r, s)
  BY <1>5, <1>6, <1>7, <1>9, <1>10, <1>11, StatementKept
<1>13. schema' = s /\ history' = h /\ UNCHANGED <<migrateRuns, migrateFaults>>
  BY <1>4 DEF ExecStatement
<1>14. CountersOK' /\ HistoryOK(history, schema)'
  BY <1>4, <1>13 DEF MigrationsIInv, CountersOK
<1>15. CommandOK'
  BY <1>8, <1>12, <1>13 DEF CommandOK
<1> QED BY <1>14, <1>15 DEF MigrationsIInv

\* The operations, the row of the history and what is left to do change together.
LEMMA CommitStep ==
  ASSUME MigrationsIInv, CommitMigration, NEW g,
         g = [history EXCEPT ![CurrentMigration] = IF command.back THEN 0 ELSE 1], history' = g
  PROVE  MigrationsIInv'
<1>1. command # NoCommand /\ MayMigrate /\ ~HasStatement /\ schema' = command.tx
  BY DEF CommitMigration
<1>2. /\ Running(command) /\ TodoOK(command, history) /\ TxOK(command, schema)
      /\ CurrentMigration = command.todo[1] /\ CurrentMigration \in Migrations
  BY <1>1, CommandFacts
<1>3. PICK q, h, s : q = command /\ h = history /\ s = schema
  OBVIOUS
<1>4. PICK r : r = [todo |-> Tail(q.todo), known |-> q.known, applied |-> q.applied, back |-> q.back, next |-> 1,
                    tx |-> q.tx]
  OBVIOUS
<1>5. command' = IF Len(q.todo) = 1 THEN NoCommand ELSE r
  <2>1. Len(q.todo) = 1 => command' = NoCommand
    BY <1>3 DEF CommitMigration
  <2>2. Len(q.todo) # 1 => CommandAt(Tail(q.todo), 1, q.tx)
    BY <1>3 DEF CommitMigration
  <2>3. CommandAt(Tail(q.todo), 1, q.tx) => command' = r
    BY <1>3, <1>4 DEF CommandAt
  <2> QED BY <2>1, <2>2, <2>3
<1>6. q.back => q.todo[1] \in q.applied
  BY <1>1, <1>2, <1>3 DEF MayMigrate
<1>7. q.next > Len(Operations(q.todo[1]))
  <2>1. Len(Operations(q.todo[1])) \in Nat
    BY <1>2, <1>3, OperationsFacts
  <2>2. q.next \in 1..(Len(Operations(q.todo[1])) + 1)
    BY <1>2, <1>3 DEF Running
  <2>3. ~(q.next <= Len(Operations(q.todo[1])))
    BY <1>1, <1>2, <1>3 DEF HasStatement
  <2> QED BY <2>1, <2>2, <2>3
<1>8. Running(q) /\ TodoOK(q, h) /\ TxOK(q, s) /\ HistoryOK(h, s)
  BY <1>2, <1>3 DEF MigrationsIInv
<1>9. g = [h EXCEPT ![q.todo[1]] = IF q.back THEN 0 ELSE 1]
  BY <1>2, <1>3
<1>10. HistoryOK(g, q.tx) /\ (Len(q.todo) # 1 => Running(r) /\ TodoOK(r, g) /\ TxOK(r, q.tx))
  BY <1>4, <1>6, <1>7, <1>8, <1>9, MigrationCommitted
<1>11. schema' = q.tx /\ history' = g /\ UNCHANGED <<migrateRuns, migrateFaults>>
  BY <1>1, <1>3 DEF CommitMigration
<1>12. CountersOK' /\ HistoryOK(history, schema)'
  BY <1>10, <1>11 DEF MigrationsIInv, CountersOK
<1>13. CommandOK'
  BY <1>5, <1>10, <1>11 DEF CommandOK
<1> QED BY <1>12, <1>13 DEF MigrationsIInv

\* A migration that is repeated keeps its row, one that is reversed had one.
LEMMA ApplyForwardStep ==
  ASSUME MigrationsIInv, ApplyForward
  PROVE  MigrationsIInv'
<1>1. CommitMigration /\ ~command.back /\ command # NoCommand
  BY DEF ApplyForward, CommitMigration
<1>2. TodoOK(command, history) /\ Running(command) /\ CurrentMigration = command.todo[1] /\ CurrentMigration \in Migrations
  BY <1>1, CommandFacts
<1>3. history \in [Migrations -> {0, 1}]
  BY DEF MigrationsIInv, HistoryOK
<1>4. 1 \in 1..Len(command.todo)
  <2>1. command.todo \in Seq(Migrations) /\ Len(command.todo) > 0
    BY <1>2 DEF Running
  <2> QED BY <2>1
<1>5. CurrentMigration \in command.applied <=> history[CurrentMigration] = 1
  BY <1>2, <1>4 DEF TodoOK
<1>6. PICK g : g = [history EXCEPT ![CurrentMigration] = IF command.back THEN 0 ELSE 1]
  OBVIOUS
<1>7. history' = g
  <2> DEFINE m == CurrentMigration
  <2>1. CASE m \in command.applied
    <3>1. history' = history
      BY <2>1 DEF ApplyForward
    <3>2. history = [history EXCEPT ![m] = 1]
      <4> HIDE DEF m
      <4>1. history[m] = 1 /\ m \in Migrations
        BY <1>2, <1>5, <2>1 DEF m
      <4> QED BY <1>3, <4>1
    <3> QED BY <1>1, <1>6, <3>1, <3>2
  <2>2. CASE m \notin command.applied
    <3>1. history' = [history EXCEPT ![m] = history[m] + 1]
      BY <2>2 DEF ApplyForward
    <3>2. history[m] = 0
      BY <1>2, <1>3, <1>5, <2>2
    <3>3. history' = [history EXCEPT ![m] = 1]
      BY <3>1, <3>2
    <3> QED BY <1>1, <1>6, <3>3
  <2> QED BY <2>1, <2>2
<1> QED BY <1>1, <1>6, <1>7, CommitStep

\* The same backwards.
LEMMA ApplyBackwardStep ==
  ASSUME MigrationsIInv, ApplyBackward
  PROVE  MigrationsIInv'
<1>1. CommitMigration /\ command.back /\ command # NoCommand /\ MayMigrate
  BY DEF ApplyBackward, CommitMigration
<1>2. TodoOK(command, history) /\ Running(command) /\ CurrentMigration = command.todo[1] /\ CurrentMigration \in Migrations
  BY <1>1, CommandFacts
<1>4. 1 \in 1..Len(command.todo)
  <2>1. command.todo \in Seq(Migrations) /\ Len(command.todo) > 0
    BY <1>2 DEF Running
  <2> QED BY <2>1
<1>5. history[CurrentMigration] = 1
  BY <1>1, <1>2, <1>4 DEF TodoOK, MayMigrate
<1>6. PICK g : g = [history EXCEPT ![CurrentMigration] = IF command.back THEN 0 ELSE 1]
  OBVIOUS
<1>7. history' = g
  <2>1. history' = [history EXCEPT ![CurrentMigration] = history[CurrentMigration] - 1]
    BY DEF ApplyBackward
  <2>2. history' = [history EXCEPT ![CurrentMigration] = 0]
    BY <1>5, <2>1
  <2> QED BY <1>1, <1>6, <2>2
<1> QED BY <1>1, <1>6, <1>7, CommitStep

\* Each step of the commands keeps the invariant.
LEMMA MigrationInvStep == MigrationsIInv /\ [MigrationNext]_migrationVars => MigrationsIInv'
<1> SUFFICES ASSUME MigrationsIInv, [MigrationNext]_migrationVars PROVE MigrationsIInv'
  OBVIOUS
<1>1. CASE Migrate
  BY <1>1, MigrateStep
<1>2. CASE ExecStatement
  BY <1>2, ExecStatementStep
<1>3. CASE ApplyForward
  BY <1>3, ApplyForwardStep
<1>4. CASE ApplyBackward
  BY <1>4, ApplyBackwardStep
<1>5. CASE MigrationRefused
  <2>1. migrateFaults' \in 0..MaxMigrateFaults
    BY <1>5 DEF MigrationRefused, MigrationsIInv, CountersOK
  <2> QED BY <1>5, <2>1, CommandEnds DEF MigrationRefused
<1>6. CASE MigrationFault
  <2>1. migrateFaults \in 0..MaxMigrateFaults /\ migrateFaults < MaxMigrateFaults /\ migrateFaults' = migrateFaults + 1
    BY <1>6 DEF MigrationFault, MigrationsIInv, CountersOK
  <2>2. migrateFaults' \in 0..MaxMigrateFaults
    BY <2>1, MigrateAssumption
  <2> QED BY <1>6, <2>2, CommandEnds DEF MigrationFault
<1>7. CASE UNCHANGED migrationVars
  BY <1>7 DEF migrationVars, MigrationsIInv, CountersOK, CommandOK, HistoryOK
<1> QED BY <1>1, <1>2, <1>3, <1>4, <1>5, <1>6, <1>7 DEF MigrationNext

\* What the invariant says of the state.
LEMMA MigrationsIInvImplies == MigrationsIInv => SchemaInv
<1> SUFFICES ASSUME MigrationsIInv PROVE SchemaInv
  OBVIOUS
<1>1. history \in [Migrations -> {0, 1}] /\ NonRows(schema) = SchemaOf(history["s001"])
  BY DEF MigrationsIInv, HistoryOK
<1>2. "s001" \in Migrations
  BY DEF Migrations
<1>3. MigrationTypeOK
  <2>1. history \in [Migrations -> Nat]
    BY <1>1
  <2>2. CountersOK
    BY DEF MigrationsIInv
  <2>3. command.back \in BOOLEAN /\ \A i \in DOMAIN command.todo : command.todo[i] \in Migrations
    <3>1. CASE command = NoCommand
      BY <3>1 DEF NoCommand
    <3>2. CASE command # NoCommand
      <4>1. command.todo \in Seq(Migrations) /\ command.back \in BOOLEAN
        BY <3>2, CommandFacts DEF Running
      <4> QED BY <4>1
    <3> QED BY <3>1, <3>2
  <2> QED BY <2>1, <2>2, <2>3 DEF MigrationTypeOK, CountersOK
<1>4. SchemaMatchesHistory
  <2>1. history["s001"] = 1 <=> history["s001"] > 0
    BY <1>1, <1>2
  <2> QED BY <1>1, <2>1 DEF SchemaMatchesHistory, NonRows, SchemaOf
<1>5. RecordedOnce
  BY <1>1 DEF RecordedOnce
<1>6. SchemaIsAccepted
  <2> SUFFICES ASSUME HasStatement, CurrentMigration = "s001" PROVE Accepted
    BY DEF SchemaIsAccepted
  <2>1. command # NoCommand /\ command.next <= Len(Operations("s001"))
    BY DEF HasStatement
  <2>2. Running(command) /\ TxOK(command, schema) /\ command.todo[1] = "s001" /\ Statement = StatementOf(command)
    BY <2>1, CommandFacts
  <2>3. PICK q, s : q = command /\ s = schema
    OBVIOUS
  <2>4. IF q.back THEN BuildUnapply(StatementOf(q), q.tx) ELSE BuildApply(StatementOf(q), q.tx)
    BY <2>1, <2>2, <2>3, StatementAccepted
  <2> QED BY <2>2, <2>3, <2>4 DEF Accepted
<1> QED BY <1>3, <1>4, <1>5, <1>6 DEF SchemaInv

\* Whatever commands are run, forwards, backwards or again, and wherever one fails, the
\* tables are those of the migrations that are recorded, each of them once, and the
\* database accepts every statement of the schema (manager.Apply, s001_initial.go).
THEOREM SchemaFollowsHistory == MigrationSpec => []SchemaInv
<1>1. MigrationInit => MigrationsIInv
  BY MigrationInvInit
<1>2. MigrationsIInv /\ [MigrationNext]_migrationVars => MigrationsIInv'
  BY MigrationInvStep
<1>3. MigrationsIInv => SchemaInv
  BY MigrationsIInvImplies
<1> QED BY <1>1, <1>2, <1>3, PTL DEF MigrationSpec

--------------------------------------------------------------------------------
(* Roles: the invariant *)

\* What a request has looked up stays a name of a role, or the user.
PendingRole(q) ==
    /\ q.op = "create role" => q.edge.child \in RoleNames
    /\ q.op = "create edge" => q.edge.from \in RoleNames \cup {TheUser} /\ q.edge.child \in RoleNames
RolesTyped ==
    /\ role \subseteq RoleNames /\ userStatus \in DOMAIN StatusRole
    /\ {"pc", "changed"} \subseteq DOMAIN walk
    /\ DOMAIN roleClient = RoleClients /\ \A c \in RoleClients : PendingRole(roleClient[c])
\* An edge has its roles, and no two are between the same.
EdgesRefer == \A e \in roleEdge : e.from \in role \cup {TheUser} /\ e.child \in role
EdgesDiffer == \A e, f \in roleEdge : e.from = f.from /\ e.child = f.child => e = f

\* The roles a walk starts from, as long as they do not change.
Given(status) ==
    {e.child : e \in {f \in roleEdge : f.from = TheUser /\ status /= "blocked"}} \cup {StatusRole[status]}
\* All edges of what was visited were followed, but for the last level, and nothing was
\* visited that cannot be reached.
WalkIsExact ==
    walk.pc = "level" /\ ~walk.changed =>
        /\ walk.status \in DOMAIN StatusRole
        /\ Given(walk.status) \subseteq walk.visited /\ walk.frontier \subseteq walk.visited
        /\ walk.visited \subseteq role /\ walk.visited \subseteq Closure(Given(walk.status))
        /\ \A e \in roleEdge : e.from \in walk.visited \ walk.frontier => e.child \in walk.visited
        /\ walk.permissions = BuiltInRoles \cap (walk.visited \ walk.frontier)
RolesIInv == RolesTyped /\ EdgesRefer /\ EdgesDiffer /\ WalkIsExact

--------------------------------------------------------------------------------
(* Roles: steps *)

\* The closure has what it starts from and what its edges lead to, and nothing else.
LEMMA ClosureIsLeast ==
  ASSUME NEW R, R \subseteq RoleNames
  PROVE  /\ R \subseteq Closure(R) /\ Closure(R) \subseteq RoleNames
         /\ \A e \in roleEdge : e.from \in Closure(R) /\ e.child \in RoleNames => e.child \in Closure(R)
         /\ \A s \in SUBSET RoleNames :
                R \subseteq s /\ (\A e \in roleEdge : e.from \in s => e.child \in s) => Closure(R) \subseteq s
BY DEF Closure

\* A walk is as exact as it was when it and the edges do not change.
LEMMA WalkStays ==
  ASSUME RolesIInv, UNCHANGED <<role, roleEdge, walk>>
  PROVE  WalkIsExact'
<1>1. Given(walk.status)' = Given(walk.status)
  BY DEF Given
<1>2. Closure(Given(walk.status))' = Closure(Given(walk.status))
  BY <1>1 DEF Closure
<1> QED BY <1>1, <1>2 DEF RolesIInv, WalkIsExact

\* A request that finds nothing to object to.
LEMMA FindRoleStep ==
  ASSUME RolesIInv, NEW c \in RoleClients, NEW op, NEW edge, FindRole(c, op, edge),
         PendingRole([pc |-> "write", op |-> op, edge |-> edge])
  PROVE  RolesIInv' /\ walk' = walk /\ roleEdge' = roleEdge
<1>1. UNCHANGED <<role, roleEdge, userStatus, walk>>
  BY DEF FindRole
<1>2. roleClient' = [roleClient EXCEPT ![c] = [pc |-> "write", op |-> op, edge |-> edge]]
  BY DEF FindRole, RoleClientAt
<1>3. RolesTyped'
  BY <1>1, <1>2 DEF RolesIInv, RolesTyped
<1>4. EdgesRefer' /\ EdgesDiffer'
  BY <1>1 DEF RolesIInv, EdgesRefer, EdgesDiffer
<1> QED BY <1>1, <1>3, <1>4, WalkStays DEF RolesIInv

\* The four kinds of requests.
LEMMA FindStep ==
  ASSUME RolesIInv, NEW c \in RoleClients,
         \/ \E r \in RoleNames : FindCreateRole(c, r) \/ FindDeleteRole(c, r)
         \/ \E from \in RoleNames \cup {TheUser}, child \in RoleNames :
                FindCreateEdge(c, from, child) \/ FindDeleteEdge(c, from, child)
  PROVE  RolesIInv' /\ walk' = walk /\ roleEdge' = roleEdge
<1>1. ASSUME NEW r \in RoleNames, FindCreateRole(c, r)
      PROVE  RolesIInv' /\ walk' = walk /\ roleEdge' = roleEdge
  BY <1>1, FindRoleStep DEF FindCreateRole, PendingRole, Edge
<1>2. ASSUME NEW r \in RoleNames, FindDeleteRole(c, r)
      PROVE  RolesIInv' /\ walk' = walk /\ roleEdge' = roleEdge
  BY <1>2, FindRoleStep DEF FindDeleteRole, PendingRole
<1>3. ASSUME NEW from \in RoleNames \cup {TheUser}, NEW child \in RoleNames, FindCreateEdge(c, from, child)
      PROVE  RolesIInv' /\ walk' = walk /\ roleEdge' = roleEdge
  BY <1>3, FindRoleStep DEF FindCreateEdge, PendingRole, Edge
<1>4. ASSUME NEW from \in RoleNames \cup {TheUser}, NEW child \in RoleNames, FindDeleteEdge(c, from, child)
      PROVE  RolesIInv' /\ walk' = walk /\ roleEdge' = roleEdge
  BY <1>4, FindRoleStep DEF FindDeleteEdge, PendingRole
<1> QED BY <1>1, <1>2, <1>3, <1>4

\* A write ends its request, and a walk that runs is not what the edges are any more.
LEMMA WriteRoleFacts ==
  ASSUME RolesIInv, NEW c \in RoleClients, NEW op, NEW ok, WriteRole(c, op, ok)
  PROVE  /\ PendingRole(roleClient[c]) /\ roleClient[c].op = op /\ ok
         /\ userStatus' = userStatus /\ walk'.pc = walk.pc /\ {"pc", "changed"} \subseteq DOMAIN walk'
         /\ DOMAIN roleClient' = RoleClients /\ \A d \in RoleClients : PendingRole(roleClient'[d])
         /\ WalkIsExact'
<1>1. roleClient' = [roleClient EXCEPT ![c] = NoRoleRequest]
  BY DEF WriteRole, RoleClientAt
<1>2. walk' = [walk EXCEPT !.changed = walk.changed \/ walk.pc = "level"]
  BY DEF WriteRole, RolesChange
<1>3. PendingRole(NoRoleRequest)
  BY DEF PendingRole, NoRoleRequest
<1>4. {"pc", "changed"} \subseteq DOMAIN walk /\ DOMAIN roleClient = RoleClients /\ \A d \in RoleClients : PendingRole(roleClient[d])
  BY DEF RolesIInv, RolesTyped
<1>5. DOMAIN roleClient' = RoleClients /\ \A d \in RoleClients : PendingRole(roleClient'[d])
  BY <1>1, <1>3, <1>4
<1>6. walk'.pc = walk.pc /\ (walk.pc = "level" => walk'.changed) /\ {"pc", "changed"} \subseteq DOMAIN walk'
  BY <1>2, <1>4
<1>7. WalkIsExact'
  BY <1>6 DEF WalkIsExact
<1> QED BY <1>4, <1>5, <1>6, <1>7 DEF WriteRole

\* Edges that are kept, with or without one, still differ.
LEMMA EdgesKept ==
  ASSUME RolesIInv, role' \subseteq RoleNames, userStatus' = userStatus,
         {"pc", "changed"} \subseteq DOMAIN walk',
         DOMAIN roleClient' = RoleClients, \A d \in RoleClients : PendingRole(roleClient'[d]), WalkIsExact',
         roleEdge' \subseteq roleEdge,
         \A e \in roleEdge' : e.from \in role' \cup {TheUser} /\ e.child \in role'
  PROVE  RolesIInv' /\ RevokedRoleIsGone
<1>1. EdgesDiffer
  BY DEF RolesIInv
<1>2. EdgesDiffer' /\ RevokedRoleIsGone
  BY <1>1 DEF EdgesDiffer, RevokedRoleIsGone
<1>3. RolesTyped'
  BY DEF RolesTyped, RolesIInv
<1>4. EdgesRefer'
  BY DEF EdgesRefer
<1> QED BY <1>2, <1>3, <1>4 DEF RolesIInv

\* A role is new or has no edge left when it goes.
LEMMA RoleRowStep ==
  ASSUME RolesIInv, NEW c \in RoleClients, CreateRole(c) \/ DeleteRole(c)
  PROVE  RolesIInv' /\ RevokedRoleIsGone /\ walk'.pc = walk.pc
<1> DEFINE r == roleClient[c].edge.child
<1>1. role \subseteq RoleNames /\ EdgesRefer
  BY DEF RolesIInv, RolesTyped
<1>2. CASE CreateRole(c)
  <2>1. WriteRole(c, "create role", r \notin role) /\ role' = role \cup {r} /\ roleEdge' = roleEdge
    BY <1>2 DEF CreateRole
  <2>2. /\ PendingRole(roleClient[c]) /\ roleClient[c].op = "create role"
        /\ userStatus' = userStatus /\ walk'.pc = walk.pc /\ WalkIsExact' /\ {"pc", "changed"} \subseteq DOMAIN walk'
        /\ DOMAIN roleClient' = RoleClients /\ \A d \in RoleClients : PendingRole(roleClient'[d])
    BY <2>1, WriteRoleFacts
  <2>3. role' \subseteq RoleNames
    BY <1>1, <2>1, <2>2 DEF PendingRole
  <2>4. \A e \in roleEdge' : e.from \in role' \cup {TheUser} /\ e.child \in role'
    BY <1>1, <2>1 DEF EdgesRefer
  <2> QED BY <2>1, <2>2, <2>3, <2>4, EdgesKept
<1>3. CASE DeleteRole(c)
  <2> DEFINE ok == r \in role /\ \A e \in roleEdge : r \notin {e.from, e.child}
  <2>1. WriteRole(c, "delete role", ok) /\ role' = role \ {r} /\ roleEdge' = roleEdge
    BY <1>3 DEF DeleteRole
  <2>2. /\ userStatus' = userStatus /\ walk'.pc = walk.pc /\ WalkIsExact' /\ {"pc", "changed"} \subseteq DOMAIN walk'
        /\ DOMAIN roleClient' = RoleClients /\ \A d \in RoleClients : PendingRole(roleClient'[d])
    BY <2>1, WriteRoleFacts
  <2>3. \A e \in roleEdge : e.from # r /\ e.child # r
    BY <2>1 DEF WriteRole
  <2>4. role' \subseteq RoleNames
    BY <1>1, <2>1
  <2>5. \A e \in roleEdge' : e.from \in role' \cup {TheUser} /\ e.child \in role'
    BY <1>1, <2>1, <2>3 DEF EdgesRefer
  <2> QED BY <2>1, <2>2, <2>4, <2>5, EdgesKept
<1> QED BY <1>2, <1>3

\* The database takes an edge whose roles are there and that is not there yet.
LEMMA CreateEdgeStep ==
  ASSUME RolesIInv, NEW c \in RoleClients, CreateEdge(c, roleClient[c].edge)
  PROVE  RolesIInv' /\ RevokedRoleIsGone /\ walk'.pc = walk.pc
<1>1. PICK e : e = roleClient[c].edge
  OBVIOUS
<1>2. WriteRole(c, "create edge", EdgeAllowed(e)) /\ roleEdge' = roleEdge \cup {e} /\ role' = role
  BY <1>1 DEF CreateEdge
<1>3. /\ PendingRole(roleClient[c]) /\ roleClient[c].op = "create edge"
      /\ userStatus' = userStatus /\ walk'.pc = walk.pc /\ WalkIsExact' /\ {"pc", "changed"} \subseteq DOMAIN walk'
      /\ DOMAIN roleClient' = RoleClients /\ \A d \in RoleClients : PendingRole(roleClient'[d])
  BY <1>2, WriteRoleFacts
<1>4. EdgeAllowed(e)
  BY <1>2 DEF WriteRole
<1>5. e.child \in RoleNames /\ e.child # TheUser
  BY <1>1, <1>3, RoleAssumption DEF PendingRole
<1>6. e.from \in role \cup {TheUser} /\ e.child \in role
  BY <1>4, <1>5 DEF EdgeAllowed, HasRoles
<1>7. \A f \in roleEdge : ~(f.from = e.from /\ f.child = e.child)
  BY <1>4 DEF EdgeAllowed, FindEdge
<1>8. RolesTyped'
  BY <1>2, <1>3 DEF RolesIInv, RolesTyped
<1>9. EdgesRefer'
  BY <1>2, <1>6 DEF RolesIInv, EdgesRefer
<1>10. EdgesDiffer'
  BY <1>2, <1>7 DEF RolesIInv, EdgesDiffer
<1>11. RevokedRoleIsGone
  BY <1>2 DEF RevokedRoleIsGone
<1> QED BY <1>3, <1>8, <1>9, <1>10, <1>11 DEF RolesIInv

\* The one edge between two roles is deleted.
LEMMA DeleteEdgeStep ==
  ASSUME RolesIInv, NEW c \in RoleClients, DeleteEdge(c, roleClient[c].edge)
  PROVE  RolesIInv' /\ RevokedRoleIsGone /\ walk'.pc = walk.pc
<1>1. PICK e : e = roleClient[c].edge
  OBVIOUS
<1>2. WriteRole(c, "delete edge", e \in roleEdge) /\ roleEdge' = roleEdge \ {e} /\ role' = role
  BY <1>1 DEF DeleteEdge
<1>3. /\ userStatus' = userStatus /\ walk'.pc = walk.pc /\ WalkIsExact' /\ {"pc", "changed"} \subseteq DOMAIN walk'
      /\ DOMAIN roleClient' = RoleClients /\ \A d \in RoleClients : PendingRole(roleClient'[d])
  BY <1>2, WriteRoleFacts
<1>4. role' \subseteq RoleNames /\ roleEdge' \subseteq roleEdge
  BY <1>2 DEF RolesIInv, RolesTyped
<1>5. \A f \in roleEdge' : f.from \in role' \cup {TheUser} /\ f.child \in role'
  BY <1>2 DEF RolesIInv, EdgesRefer
<1> QED BY <1>3, <1>4, <1>5, EdgesKept

\* Each write, and a refusal.
LEMMA RoleWriteStep ==
  ASSUME RolesIInv, NEW c \in RoleClients, RoleWrite(c)
  PROVE  RolesIInv' /\ RevokedRoleIsGone /\ walk'.pc = walk.pc
<1>1. CASE CreateRole(c) \/ DeleteRole(c)
  BY <1>1, RoleRowStep
<1>2. CASE CreateRoleRole(c) \/ CreateUserRole(c)
  BY <1>2, CreateEdgeStep DEF CreateRoleRole, CreateUserRole
<1>3. CASE DeleteRoleRole(c) \/ DeleteUserRole(c)
  BY <1>3, DeleteEdgeStep DEF DeleteRoleRole, DeleteUserRole
<1>4. CASE RoleRefused(c)
  <2>1. UNCHANGED <<role, roleEdge, userStatus, walk>>
    BY <1>4 DEF RoleRefused
  <2>2. roleClient' = [roleClient EXCEPT ![c] = NoRoleRequest]
    BY <1>4 DEF RoleRefused, RoleClientAt
  <2>3. PendingRole(NoRoleRequest)
    BY DEF PendingRole, NoRoleRequest
  <2>4. RolesTyped'
    BY <2>1, <2>2, <2>3 DEF RolesIInv, RolesTyped
  <2>5. EdgesRefer' /\ EdgesDiffer' /\ RevokedRoleIsGone
    BY <2>1 DEF RolesIInv, EdgesRefer, EdgesDiffer, RevokedRoleIsGone
  <2> QED BY <2>1, <2>4, <2>5, WalkStays DEF RolesIInv
<1> QED BY <1>1, <1>2, <1>3, <1>4 DEF RoleWrite

--------------------------------------------------------------------------------
(* Roles: the walk *)

\* A walk starts with roles that are there.
LEMMA MakeContextStep ==
  ASSUME RolesIInv, MakeContext
  PROVE  RolesIInv' /\ RevokedRoleIsGone /\ walk.pc # "level"
<1> DEFINE roles == AccountRoles(userStatus)
<1>1. UNCHANGED <<role, roleEdge, userStatus, roleClient>> /\ walk.pc # "level"
  BY DEF MakeContext
<1>2. walk' = [pc |-> IF StatusRole[userStatus] \in role THEN "level" ELSE "failed", status |-> userStatus,
               frontier |-> roles, visited |-> roles, permissions |-> {}, changed |-> FALSE]
  BY DEF MakeContext
<1>3. roles = Given(userStatus)
  BY DEF AccountRoles, Given
<1>d. {"pc", "changed"} \subseteq DOMAIN walk'
  BY <1>2
<1>4. RolesTyped' /\ EdgesRefer' /\ EdgesDiffer' /\ RevokedRoleIsGone
  BY <1>1, <1>d DEF RolesIInv, RolesTyped, EdgesRefer, EdgesDiffer, RevokedRoleIsGone
<1>5. ASSUME StatusRole[userStatus] \in role
      PROVE  Given(userStatus) \subseteq role /\ Given(userStatus) \subseteq Closure(Given(userStatus))
  <2>1. Given(userStatus) \subseteq role
    BY <1>5 DEF Given, RolesIInv, EdgesRefer
  <2>2. Given(userStatus) \subseteq RoleNames
    BY <2>1 DEF RolesIInv, RolesTyped
  <2> QED BY <2>1, <2>2, ClosureIsLeast
<1>6. Given(userStatus)' = Given(userStatus) /\ Closure(Given(userStatus))' = Closure(Given(userStatus))
  <2>1. Given(userStatus)' = Given(userStatus)
    BY <1>1 DEF Given
  <2> QED BY <1>1, <2>1 DEF Closure
<1> HIDE DEF roles
<1>7. WalkIsExact'
  <2> SUFFICES ASSUME walk'.pc = "level" PROVE WalkIsExact'
    BY DEF WalkIsExact
  <2>1. StatusRole[userStatus] \in role
    BY <1>2
  <2>2. /\ walk'.status = userStatus /\ walk'.frontier = roles /\ walk'.visited = roles /\ walk'.permissions = {}
    BY <1>2
  <2>3. Given(walk.status)' = roles
    BY <1>1, <1>3, <2>2 DEF Given
  <2>4. Closure(Given(walk.status))' = Closure(roles)
    BY <1>1, <2>3 DEF Closure
  <2>5. userStatus \in DOMAIN StatusRole /\ roles \subseteq role /\ roles \subseteq Closure(roles)
    BY <1>3, <1>5, <2>1 DEF RolesIInv, RolesTyped
  <2> QED BY <1>1, <2>2, <2>3, <2>4, <2>5 DEF WalkIsExact
<1> QED BY <1>1, <1>4, <1>7 DEF RolesIInv

\* One level of the walk.
LEMMA WalkStep ==
  ASSUME RolesIInv, GetRecursivePermissions
  PROVE  RolesIInv' /\ RevokedRoleIsGone /\ PermissionsExact
<1> DEFINE next == NextLevel(walk.frontier, walk.visited)
           seen == walk.visited
           R == Given(walk.status)
<1>1. UNCHANGED <<role, roleEdge, userStatus, roleClient>> /\ walk.pc = "level"
  BY DEF GetRecursivePermissions
<1>d. {"pc", "changed"} \subseteq DOMAIN walk'
  BY DEF RolesIInv, RolesTyped, GetRecursivePermissions
<1>2. RolesTyped' /\ EdgesRefer' /\ EdgesDiffer' /\ RevokedRoleIsGone
  BY <1>1, <1>d DEF RolesIInv, RolesTyped, EdgesRefer, EdgesDiffer, RevokedRoleIsGone
<1>3. CASE walk.changed
  <2>1. walk'.changed = walk.changed \/ walk'.pc = "failed"
    BY <1>3 DEF GetRecursivePermissions, RolesIInv, RolesTyped
  <2>2. WalkIsExact'
    BY <1>3, <2>1 DEF WalkIsExact
  <2>3. PermissionsExact
    BY <1>3 DEF PermissionsExact
  <2> QED BY <1>2, <2>2, <2>3 DEF RolesIInv
<1>4. CASE ~walk.changed
  <2>1. /\ walk.status \in DOMAIN StatusRole /\ R \subseteq seen /\ walk.frontier \subseteq seen
        /\ seen \subseteq role /\ seen \subseteq Closure(R)
        /\ \A e \in roleEdge : e.from \in seen \ walk.frontier => e.child \in seen
        /\ walk.permissions = BuiltInRoles \cap (seen \ walk.frontier)
    BY <1>1, <1>4 DEF RolesIInv, WalkIsExact
  <2>2. walk' = [pc |-> IF next = {} THEN "done" ELSE "level", status |-> walk.status,
                 frontier |-> next, visited |-> seen \cup next,
                 permissions |-> walk.permissions \cup (walk.frontier \cap BuiltInRoles), changed |-> walk.changed]
    BY <2>1 DEF GetRecursivePermissions
  <2>3. role \subseteq RoleNames /\ EdgesRefer /\ \A e \in roleEdge : e.child # TheUser
    BY RoleAssumption DEF RolesIInv, RolesTyped, EdgesRefer
  <2>4. R \subseteq RoleNames
    BY <2>1, <2>3
  <2>5. ASSUME NEW x \in next PROVE x \in role /\ x \in Closure(R) /\ x \notin seen
    <3>1. PICK e \in roleEdge : e.from \in walk.frontier /\ e.child = x /\ x \notin seen
      BY <2>5 DEF NextLevel
    <3>2. x \in role /\ x \in RoleNames /\ e.from \in Closure(R)
      BY <2>1, <2>3, <3>1 DEF EdgesRefer
    <3>3. x \in Closure(R)
      BY <2>4, <3>1, <3>2, ClosureIsLeast
    <3> QED BY <3>1, <3>2, <3>3
  <2>6. ASSUME NEW e \in roleEdge, e.from \in seen PROVE e.child \in seen \cup next
    BY <2>1, <2>6 DEF NextLevel
  <2>7. walk.permissions \cup (walk.frontier \cap BuiltInRoles) = BuiltInRoles \cap seen
    BY <2>1
  <2> HIDE DEF next
  <2>8. /\ walk'.status = walk.status /\ walk'.frontier = next /\ walk'.visited = seen \cup next
        /\ walk'.permissions = BuiltInRoles \cap seen
        /\ walk'.pc = IF next = {} THEN "done" ELSE "level"
    BY <2>2, <2>7
  <2>9. R' = R
    BY <1>1, <2>8 DEF Given
  <2>10. Closure(R)' = Closure(R)
    BY <1>1, <2>9 DEF Closure
  <2>11. (seen \cup next) \ next = seen
    BY <2>5
  <2>12. WalkIsExact'
    <3>1. /\ walk'.status \in DOMAIN StatusRole /\ R' \subseteq walk'.visited /\ walk'.frontier \subseteq walk'.visited
          /\ walk'.visited \subseteq role' /\ walk'.visited \subseteq Closure(R)'
      BY <1>1, <2>1, <2>5, <2>8, <2>9, <2>10
    <3>2. \A e \in roleEdge' : e.from \in walk'.visited \ walk'.frontier => e.child \in walk'.visited
      BY <1>1, <2>6, <2>8, <2>11
    <3>3. walk'.permissions = BuiltInRoles \cap (walk'.visited \ walk'.frontier)
      BY <2>8, <2>11
    <3> QED BY <3>1, <3>2, <3>3 DEF WalkIsExact
  <2>13. PermissionsExact
    <3> SUFFICES ASSUME walk'.pc # "level"
                 PROVE  walk'.pc = "done" /\ walk'.permissions = BuiltInRoles \cap Closure(R)
      BY DEF PermissionsExact, Given
    <3>1. next = {} /\ walk'.pc = "done"
      BY <2>8
    <3>2. Closure(R) \subseteq seen
      <4>1. seen \in SUBSET RoleNames /\ R \subseteq seen /\ \A e \in roleEdge : e.from \in seen => e.child \in seen
        BY <2>1, <2>3, <2>6, <3>1
      <4> QED BY <2>4, <4>1, ClosureIsLeast
    <3> QED BY <2>1, <2>8, <3>1, <3>2
  <2> QED BY <1>2, <2>12, <2>13 DEF RolesIInv
<1> QED BY <1>3, <1>4

\* Each step keeps the invariant and does what is asked of it.
LEMMA RolesStep ==
  ASSUME RolesIInv, [RoleNext]_roleVars
  PROVE  RolesIInv' /\ PermissionsExact /\ RevokedRoleIsGone
<1>1. ASSUME NEW c \in RoleClients, RoleWrite(c) PROVE RolesIInv' /\ PermissionsExact /\ RevokedRoleIsGone
  BY <1>1, RoleWriteStep DEF PermissionsExact
<1>2. ASSUME NEW c \in RoleClients,
             \/ \E r \in RoleNames : FindCreateRole(c, r) \/ FindDeleteRole(c, r)
             \/ \E from \in RoleNames \cup {TheUser}, child \in RoleNames :
                    FindCreateEdge(c, from, child) \/ FindDeleteEdge(c, from, child)
      PROVE  RolesIInv' /\ PermissionsExact /\ RevokedRoleIsGone
  BY <1>2, FindStep DEF PermissionsExact, RevokedRoleIsGone
<1>3. ASSUME NEW s \in DOMAIN StatusRole, ChangeStatus(s) PROVE RolesIInv' /\ PermissionsExact /\ RevokedRoleIsGone
  <2>1. UNCHANGED <<role, roleEdge, roleClient, walk>> /\ userStatus' = s
    BY <1>3 DEF ChangeStatus
  <2>2. RolesTyped' /\ EdgesRefer' /\ EdgesDiffer' /\ RevokedRoleIsGone
    BY <2>1 DEF RolesIInv, RolesTyped, EdgesRefer, EdgesDiffer, RevokedRoleIsGone
  <2>3. PermissionsExact
    BY <2>1 DEF PermissionsExact
  <2> QED BY <2>1, <2>2, <2>3, WalkStays DEF RolesIInv
<1>4. CASE MakeContext
  BY <1>4, MakeContextStep DEF PermissionsExact
<1>5. CASE GetRecursivePermissions
  BY <1>5, WalkStep
<1>6. CASE UNCHANGED roleVars
  <2>1. UNCHANGED <<role, roleEdge, userStatus, roleClient, walk>>
    BY <1>6 DEF roleVars
  <2>2. RolesTyped' /\ EdgesRefer' /\ EdgesDiffer' /\ RevokedRoleIsGone
    BY <2>1 DEF RolesIInv, RolesTyped, EdgesRefer, EdgesDiffer, RevokedRoleIsGone
  <2>3. PermissionsExact
    BY <2>1 DEF PermissionsExact
  <2> QED BY <2>1, <2>2, <2>3, WalkStays DEF RolesIInv
<1> QED BY <1>1, <1>2, <1>3, <1>4, <1>5, <1>6 DEF RoleNext

\* Roles and no requests at first.
LEMMA RolesInvInit == RoleInit => RolesIInv
<1> SUFFICES ASSUME RoleInit PROVE RolesIInv
  OBVIOUS
<1>1. role = RoleNames /\ userStatus \in DOMAIN StatusRole
      /\ roleClient = [c \in RoleClients |-> NoRoleRequest] /\ walk = NoWalk
  BY DEF RoleInit
<1>2. PICK x \in SUBSET (RoleNames \X RoleNames) : roleEdge = {Edge(0, p[1], p[2]) : p \in x}
  BY DEF RoleInit
<1>3. RolesTyped
  <2>1. PendingRole(NoRoleRequest)
    BY DEF PendingRole, NoRoleRequest
  <2>2. {"pc", "changed"} \subseteq DOMAIN walk
    BY <1>1 DEF NoWalk
  <2> QED BY <1>1, <2>1, <2>2 DEF RolesTyped
<1>4. ASSUME NEW e \in roleEdge
      PROVE  e = [id |-> 0, from |-> e.from, child |-> e.child] /\ e.from \in RoleNames /\ e.child \in RoleNames
  <2>1. PICK p \in x : e = Edge(0, p[1], p[2])
    BY <1>2
  <2>2. p[1] \in RoleNames /\ p[2] \in RoleNames
    OBVIOUS
  <2> QED BY <2>1, <2>2 DEF Edge
<1>5. EdgesRefer
  BY <1>1, <1>4 DEF EdgesRefer
<1>6. EdgesDiffer
  BY <1>4 DEF EdgesDiffer
<1>7. WalkIsExact
  BY <1>1 DEF WalkIsExact, NoWalk
<1> QED BY <1>3, <1>5, <1>6, <1>7 DEF RolesIInv

\* A context that is made while roles do not change has what the roles of the user
\* reach, in every graph of roles, and what is taken away is gone, for any number of
\* requests (MakeContext, getRecursivePermissions, deleteUserRole, deleteRoleRole).
THEOREM ContextsAreExact == RoleSpec => RolesExact
<1>1. RoleInit => RolesIInv
  BY RolesInvInit
<1>2. RolesIInv /\ [RoleNext]_roleVars => RolesIInv'
  BY RolesStep
<1>3. RolesIInv /\ [RoleNext]_roleVars => [PermissionsExact /\ RevokedRoleIsGone]_roleVars
  BY RolesStep
<1> QED BY <1>1, <1>2, <1>3, PTL DEF RoleSpec, RolesExact

--------------------------------------------------------------------------------
(* Lists: the invariant *)

\* What a reader has been given comes before where it goes on, and is all it may see
\* of the rows before.
Suits(r, kind) ==
    \/ list = "accounts" /\ r.kind /= "gone" /\ kind \in {AnyKind, r.kind}
    \/ list = "posts"
    \/ list \in {"solutions", "contest solutions"} /\ kind \in {AnyKind, r.kind}
Wanted(r) == r.visible /\ Suits(r, page.kind)
PageTyped ==
    /\ page = [begin |-> page.begin, kind |-> page.kind, limit |-> page.limit, seen |-> page.seen,
               stable |-> page.stable, done |-> page.done]
    /\ page.begin \in Nat /\ page.seen \in Seq(Nat) /\ page.stable \subseteq listRow
RowsNumbered ==
    /\ lastRow \in Nat /\ IsFiniteSet(listRow) /\ \A r \in listRow : r.id \in 1..lastRow
    /\ \A r, q \in listRow : r.id = q.id => r = q
SeenInOrder ==
    /\ \A i, j \in 1..Len(page.seen) : i < j => page.seen[i] > page.seen[j]
    /\ page.begin # 0 => \A i \in 1..Len(page.seen) : page.seen[i] > page.begin
    /\ page.begin = 0 /\ ~page.done => page.seen = <<>>
SeenAll ==
    \A r \in page.stable :
        Wanted(r) /\ (page.done \/ (page.begin # 0 /\ r.id > page.begin)) =>
            \E i \in 1..Len(page.seen) : page.seen[i] = r.id
PagingIInv == PageTyped /\ RowsNumbered /\ SeenInOrder /\ SeenAll

\* The values of a function on a finite set are finitely many.
LEMMA FiniteImage ==
  ASSUME NEW S, IsFiniteSet(S), NEW f, DOMAIN f = S, NEW T, T = {f[x] : x \in S}
  PROVE  IsFiniteSet(T)
<1>1. PICK g : g = [x \in S |-> f[x]]
  OBVIOUS
<1>2. g \in Surjection(S, T)
  BY <1>1 DEF Surjection
<1> QED BY <1>2, FS_Surjection

--------------------------------------------------------------------------------
(* Lists: what the operators give *)

\* A filter is where the page begins and what the reader asks for.
LEMMA MatchesIs ==
  ASSUME NEW r, NEW f
  PROVE  Matches(r, f) <=> InPage(r, f) /\ Suits(r, f.kind)
<1>1. list = "posts" => ~(list = "accounts") /\ ~(list = "solutions") /\ ~(list = "contest solutions")
  OBVIOUS
<1>2. list = "accounts" => ~(list = "solutions") /\ ~(list = "contest solutions")
  OBVIOUS
<1> QED BY <1>1, <1>2 DEF Matches, Suits, AccountFilter, PostsFilter, SolutionsFilter, ContestSolutionsFilter

\* Of the rows that are looked up there is one more than a page looks at, when there
\* are more: the page stops at it or before.
LEMMA LookAhead ==
  ASSUME NEW A, IsFiniteSet(A), NEW n \in Nat, \A x \in A : x.id \in 0..n,
         \A x, y \in A : x.id = y.id => x = y, NEW L \in Nat,
         NEW rows, rows = {x \in A : Cardinality(Newer(x, A)) < L + 1}, NEW r \in A, r \notin rows
  PROVE  \E x \in rows : r.id <= x.id /\ Cardinality(Newer(x, rows)) >= L
<1> DEFINE C == {x \in A : Cardinality(Newer(x, A)) >= L}
<1>1. \A x : Newer(x, A) \subseteq A
  BY DEF Newer
<1>2. \A x : IsFiniteSet(Newer(x, A)) /\ Cardinality(Newer(x, A)) \in Nat
  BY <1>1, FS_Subset, FS_CardinalityType
<1>3. r \in C
  BY <1>2
<1>4. PICK x \in C : \A y \in C : y.id <= x.id
  <2>1. {y.id : y \in C} \subseteq 0..n /\ {y.id : y \in C} # {}
    BY <1>3
  <2>2. PICK i \in {y.id : y \in C} : \A j \in {y.id : y \in C} : j <= i
    BY <2>1, GreatestNumber
  <2> QED BY <2>2
<1>5. x \in A /\ Cardinality(Newer(x, A)) >= L
  OBVIOUS
<1>6. Cardinality(Newer(x, A)) <= L
  <2>1. CASE Newer(x, A) = {}
    BY <2>1, FS_EmptySet
  <2>2. CASE Newer(x, A) # {}
    <3>1. {y.id : y \in Newer(x, A)} \subseteq Nat /\ {y.id : y \in Newer(x, A)} # {}
      BY <1>1, <2>2
    <3>2. PICK i \in {y.id : y \in Newer(x, A)} : \A j \in {y.id : y \in Newer(x, A)} : i <= j
      BY <3>1, LeastNumber
    <3>3. PICK y \in Newer(x, A) : \A z \in Newer(x, A) : y.id <= z.id
      BY <3>2
    <3>4. y \in A /\ y.id > x.id
      BY DEF Newer
    <3>5. x.id \in Nat /\ y.id \in Nat
      BY <1>5, <3>4
    <3>6. y \notin C
      BY <1>4, <3>4, <3>5
    <3>7. Cardinality(Newer(y, A)) < L
      BY <1>2, <3>4, <3>6
    <3>8. ASSUME NEW z PROVE z \in Newer(x, A) <=> z = y \/ z \in Newer(y, A)
      <4>1. CASE z \in A
        <5>1. z.id \in Nat
          BY <4>1
        <5>2. z.id > x.id => z.id >= y.id
          BY <3>3, <3>5, <4>1, <5>1 DEF Newer
        <5>3. z.id = y.id => z = y
          BY <3>4, <4>1
        <5> QED BY <3>4, <3>5, <4>1, <5>1, <5>2, <5>3 DEF Newer
      <4>2. CASE z \notin A
        BY <3>4, <4>2 DEF Newer
      <4> QED BY <4>1, <4>2
    <3>9. Newer(x, A) = Newer(y, A) \cup {y}
      BY <3>8
    <3>10. PICK T, U : T = Newer(y, A) /\ U = Newer(x, A)
      OBVIOUS
    <3>11. IsFiniteSet(T) /\ Cardinality(T) \in Nat
      BY <1>2, <3>10
    <3>12. Cardinality(T \cup {y}) = IF y \in T THEN Cardinality(T) ELSE Cardinality(T) + 1
      BY <3>11, FS_AddElement
    <3>13. Cardinality(U) <= Cardinality(T) + 1
      BY <3>9, <3>10, <3>11, <3>12
    <3>14. Cardinality(T) < L
      BY <3>7, <3>10
    <3>15. Cardinality(U) <= L
      BY <3>9, <3>10, <3>11, <3>12, <3>13, <3>14
    <3> QED BY <3>10, <3>15
  <2> QED BY <2>1, <2>2
<1>7. x \in rows
  BY <1>2, <1>5, <1>6
<1>8. Newer(x, rows) = Newer(x, A)
  <2> SUFFICES ASSUME NEW y \in Newer(x, A) PROVE y \in rows
    BY DEF Newer
  <2>1. y \in A /\ y.id > x.id
    BY DEF Newer
  <2>2. Newer(y, A) \subseteq Newer(x, A)
    <3> SUFFICES ASSUME NEW z \in A, z.id > y.id PROVE z.id > x.id
      BY DEF Newer
    <3>1. z.id \in Nat /\ y.id \in Nat /\ x.id \in Nat
      BY <1>5, <2>1
    <3> QED BY <2>1, <3>1
  <2>3. Cardinality(Newer(y, A)) <= Cardinality(Newer(x, A))
    BY <1>2, <2>2, FS_Subset
  <2> QED BY <1>2, <1>6, <2>1, <2>3
<1>9. r.id <= x.id
  BY <1>3, <1>4
<1> QED BY <1>5, <1>7, <1>8, <1>9

\* Where the next page begins: at a row that was looked up, or nowhere.
LEMMA NextIs ==
  ASSUME RowsNumbered, NEW rows, rows \subseteq listRow, NEW f
  PROVE  /\ NextBeginID(rows, f) \in Nat
         /\ \A r \in StopsAt(rows, f) : r.id <= NextBeginID(rows, f)
         /\ NextBeginID(rows, f) = 0 \/ \E r \in rows : NextBeginID(rows, f) = r.id
<1> DEFINE S == {0} \cup {r.id : r \in StopsAt(rows, f)}
<1>1. lastRow \in Nat /\ \A r \in rows : r.id \in 0..lastRow
  BY DEF RowsNumbered
<1>2. StopsAt(rows, f) \subseteq rows
  BY DEF StopsAt
<1>3. S \subseteq 0..lastRow /\ S # {}
  BY <1>1, <1>2
<1>4. \E x \in S : \A y \in S : y <= x
  <2>1. PICK n, T : n = lastRow /\ T = S
    OBVIOUS
  <2>2. \E x \in T : \A y \in T : y <= x
    BY <1>1, <1>3, <2>1, GreatestNumber
  <2> QED BY <2>1, <2>2
<1>5. \E x \in S : \A y \in S : x >= y
  <2>1. PICK x \in S : \A y \in S : y <= x
    BY <1>4
  <2>2. \A y \in S : x >= y
    BY <1>3, <2>1
  <2> QED BY <2>2
<1>6. NextBeginID(rows, f) = CHOOSE x \in S : \A y \in S : x >= y
  BY Zenon DEF NextBeginID, Max
<1> HIDE DEF S
<1>7. NextBeginID(rows, f) \in S /\ \A y \in S : NextBeginID(rows, f) >= y
  BY <1>5, <1>6
<1>8. \A y \in S : y <= NextBeginID(rows, f)
  BY <1>3, <1>7
<1> QED BY <1>2, <1>3, <1>7, <1>8 DEF S

\* IDs in their order, as a list.
OrderOf(s, ids) ==
    /\ s \in Seq(Nat) /\ \A i, j \in 1..Len(s) : i < j => s[i] > s[j]
    /\ ids = {s[i] : i \in 1..Len(s)}

\* A page's IDs are given in their order.
LEMMA NewestFirstIs ==
  ASSUME NEW ids, ids \subseteq Nat, IsFiniteSet(ids), NEW s \in NewestFirst(ids)
  PROVE  OrderOf(s, ids)
<1>1. Cardinality(ids) \in Nat
  BY FS_CardinalityType
<1>2. PICK n \in 0..Cardinality(ids) : s \in [1..n -> ids]
  BY DEF NewestFirst
<1>3. ids = {s[i] : i \in DOMAIN s} /\ \A i, j \in DOMAIN s : i < j => s[i] > s[j]
  BY DEF NewestFirst
<1>4. n \in Nat /\ s \in [1..n -> Nat]
  <2>1. n \in Nat
    BY <1>1
  <2>2. \A i \in 1..n : s[i] \in Nat
    BY <1>2
  <2> QED BY <1>2, <2>1, <2>2
<1>5. s \in Seq(Nat) /\ Len(s) = n
  BY <1>4, ListOf
<1> QED BY <1>2, <1>3, <1>5 DEF OrderOf

--------------------------------------------------------------------------------
(* Lists: the requests *)

\* What is not in the rows that were looked up is for a later page.
RowsReach(rows, begin) ==
    /\ rows \subseteq ReverseFind(begin)
    /\ \A r \in ReverseFind(begin) : r.id > NextBeginID(rows, page) => r \in rows

LEMMA ReverseAllReaches ==
  ASSUME RowsNumbered, NEW begin
  PROVE  RowsReach(ReverseAll(begin), begin)
<1>1. PICK A : A = ReverseFind(begin)
  OBVIOUS
<1>2. PICK rows : rows = ReverseAll(begin)
  OBVIOUS
<1>3. MaxLimit \in Nat
  BY PagingAssumption
<1>4. rows = {x \in A : Cardinality(Newer(x, A)) < MaxLimit + 1}
  BY <1>1, <1>2 DEF ReverseAll, ReverseUpTo
<1>5. A \subseteq listRow /\ rows \subseteq A
  BY <1>1, <1>4 DEF ReverseFind
<1>6. IsFiniteSet(A)
  BY <1>5, FS_Subset DEF RowsNumbered
<1>7. lastRow \in Nat /\ (\A x \in A : x.id \in 0..lastRow) /\ \A x, y \in A : x.id = y.id => x = y
  BY <1>5 DEF RowsNumbered
<1>8. ASSUME NEW r \in A, r.id > NextBeginID(rows, page), r \notin rows PROVE FALSE
  <2>1. PICK x \in rows : r.id <= x.id /\ Cardinality(Newer(x, rows)) >= MaxLimit
    BY <1>3, <1>4, <1>6, <1>7, <1>8, LookAhead
  <2>2. x \in StopsAt(rows, page)
    BY <2>1 DEF StopsAt
  <2>3. NextBeginID(rows, page) \in Nat /\ x.id <= NextBeginID(rows, page)
    BY <1>5, <2>2, NextIs
  <2>4. r.id \in Nat /\ x.id \in Nat
    BY <1>5, <1>7
  <2> QED BY <1>8, <2>1, <2>3, <2>4
<1> QED BY <1>1, <1>2, <1>5, <1>8 DEF RowsReach

LEMMA ReverseFindReaches ==
  ASSUME NEW begin
  PROVE  RowsReach(ReverseFind(begin), begin)
BY DEF RowsReach

\* A page goes on where the last one stopped, and gives all that it passes.
LEMMA ReadPageKeepsSeen ==
  ASSUME PagingIInv, NEW rows, RowsReach(rows, page.begin), ReadPage(rows)
  PROVE  PagingIInv'
<1>1. PICK next : /\ next = NextBeginID(rows, page)
                  /\ \E ids \in NewestFirst({r.id : r \in {q \in Shown(rows, page) : q.id > next}}) :
                        /\ ~page.done /\ UNCHANGED <<listRow, lastRow, list>>
                        /\ page' = [begin |-> next, kind |-> page.kind, limit |-> page.limit, seen |-> page.seen \o ids,
                                    stable |-> page.stable, done |-> next = 0]
  BY Zenon DEF ReadPage
<1>2. PICK given : given = {q \in Shown(rows, page) : q.id > next}
  OBVIOUS
<1>3. PICK G : G = {r.id : r \in given}
  OBVIOUS
<1>4. PICK ids \in NewestFirst(G) :
        /\ ~page.done /\ UNCHANGED <<listRow, lastRow, list>>
        /\ page' = [begin |-> next, kind |-> page.kind, limit |-> page.limit, seen |-> page.seen \o ids,
                    stable |-> page.stable, done |-> next = 0]
  BY <1>1, <1>2, <1>3
<1>5. page.begin \in Nat /\ page.seen \in Seq(Nat) /\ page.stable \subseteq listRow
  BY DEF PagingIInv, PageTyped
<1>6. RowsNumbered
  BY DEF PagingIInv
<1>7. rows \subseteq ReverseFind(page.begin) /\ rows \subseteq listRow
  BY DEF RowsReach, ReverseFind
<1>8. next \in Nat /\ (next = 0 \/ \E r \in rows : next = r.id)
  BY <1>1, <1>6, <1>7, NextIs
<1>9. given \subseteq rows /\ \A r \in given : r.id > next
  BY <1>2 DEF Shown
<1>10. \A r \in rows : r.id \in Nat /\ r.id > 0 /\ (page.begin = 0 \/ r.id <= page.begin)
  <2> SUFFICES ASSUME NEW r \in rows
               PROVE  r.id \in Nat /\ r.id > 0 /\ (page.begin = 0 \/ r.id <= page.begin)
    OBVIOUS
  <2>1. lastRow \in Nat /\ r.id \in 1..lastRow
    BY <1>6, <1>7 DEF RowsNumbered
  <2>2. r \in ReverseFind(page.begin)
    BY <1>7
  <2>3. page.begin = 0 \/ r.id <= page.begin
    BY <2>2 DEF ReverseFind
  <2> QED BY <2>1, <2>3
<1>11. page.begin # 0 => next <= page.begin
  BY <1>5, <1>8, <1>10
<1>12. G \subseteq Nat /\ \A x \in G : x > next /\ (page.begin = 0 \/ x <= page.begin)
  BY <1>3, <1>9, <1>10
<1>13. IsFiniteSet(G)
  <2>1. IsFiniteSet(given)
    BY <1>6, <1>7, <1>9, FS_Subset DEF RowsNumbered
  <2>2. PICK f : f = [r \in given |-> r.id]
    OBVIOUS
  <2>3. DOMAIN f = given /\ G = {f[r] : r \in given}
    BY <1>3, <2>2
  <2> QED BY <2>1, <2>3, FiniteImage
<1>29. ids \in NewestFirst(G)
  BY <1>4
<1>14. ids \in Seq(Nat) /\ (\A i, j \in 1..Len(ids) : i < j => ids[i] > ids[j]) /\ G = {ids[i] : i \in 1..Len(ids)}
  <2>1. G \subseteq Nat
    BY <1>12
  <2>2. OrderOf(ids, G)
    BY <1>13, <1>29, <2>1, NewestFirstIs
  <2> QED BY <2>2 DEF OrderOf
<1>15. PICK was, n, m : was = page.seen /\ n = Len(page.seen) /\ m = Len(ids)
  OBVIOUS
<1>16. PICK now : now = was \o ids
  OBVIOUS
<1>17. n \in Nat /\ m \in Nat /\ now \in Seq(Nat) /\ Len(now) = n + m
  BY <1>5, <1>14, <1>15, <1>16
<1>18. \A i \in 1..n : now[i] = was[i] /\ was[i] \in Nat
  BY <1>5, <1>14, <1>15, <1>16
<1>19. \A i \in 1..m : ids[i] \in G /\ ids[i] \in Nat
  BY <1>14, <1>15
<1>20. \A i \in 1..(n + m) : i \in 1..n \/ (i - n \in 1..m /\ now[i] = ids[i - n])
  BY <1>5, <1>14, <1>15, <1>16
<1>21. ASSUME NEW i \in 1..m PROVE n + i \in 1..(n + m) /\ now[n + i] = ids[i]
  <2>1. n + i \in 1..(n + m) /\ (n + i) - n = i /\ ~(n + i <= n)
    BY <1>17
  <2>2. was \in Seq(Nat) /\ ids \in Seq(Nat) /\ n = Len(was) /\ m = Len(ids)
    BY <1>5, <1>14, <1>15
  <2> QED BY <1>16, <2>1, <2>2
<1>22. page'.begin = next /\ page'.kind = page.kind /\ page'.seen = now /\ page'.stable = page.stable
       /\ (page'.done <=> next = 0)
  BY <1>4, <1>15, <1>16
<1>23. PageTyped'
  <2>1. page' = [begin |-> page'.begin, kind |-> page'.kind, limit |-> page'.limit, seen |-> page'.seen,
                 stable |-> page'.stable, done |-> page'.done]
    BY <1>4
  <2>2. page'.stable \subseteq listRow'
    BY <1>4, <1>5, <1>22
  <2> QED BY <1>8, <1>17, <1>22, <2>1, <2>2 DEF PageTyped
<1>24. RowsNumbered'
  BY <1>4, <1>6 DEF RowsNumbered
<1>25. (\A i, j \in 1..n : i < j => was[i] > was[j]) /\ (page.begin # 0 => \A i \in 1..n : was[i] > page.begin)
       /\ (page.begin = 0 => was = <<>>)
  BY <1>4, <1>15 DEF PagingIInv, SeenInOrder
<1>26. page.begin = 0 => n = 0
  BY <1>15, <1>25
<1>27. SeenInOrder'
  <2>1. ASSUME NEW i \in 1..(n + m) PROVE now[i] > next
    <3>1. CASE i \in 1..n
      <4>1. page.begin # 0
        BY <1>17, <1>26, <3>1
      <4>2. was[i] > page.begin /\ was[i] \in Nat /\ now[i] = was[i]
        BY <1>18, <1>25, <3>1, <4>1
      <4> QED BY <1>5, <1>8, <1>11, <4>1, <4>2
    <3>2. CASE i - n \in 1..m /\ now[i] = ids[i - n]
      BY <1>12, <1>19, <3>2
    <3> QED BY <1>20, <3>1, <3>2
  <2>2. ASSUME NEW i \in 1..(n + m), NEW j \in 1..(n + m), i < j PROVE now[i] > now[j]
    <3>1. CASE i \in 1..n /\ j \in 1..n
      BY <1>18, <1>25, <2>2, <3>1
    <3>2. CASE i \in 1..n /\ j - n \in 1..m /\ now[j] = ids[j - n]
      <4>1. page.begin # 0
        BY SMTT(30), <1>17, <1>26, <3>2
      <4>2. was[i] > page.begin /\ was[i] \in Nat /\ now[i] = was[i]
        BY <1>18, <1>25, <3>2, <4>1
      <4>3. ids[j - n] <= page.begin /\ ids[j - n] \in Nat
        BY <1>12, <1>19, <3>2, <4>1
      <4> QED BY <1>5, <3>2, <4>2, <4>3
    <3>3. CASE (i - n \in 1..m /\ now[i] = ids[i - n]) /\ (j - n \in 1..m /\ now[j] = ids[j - n])
      <4>1. i - n < j - n
        BY <1>17, <2>2
      <4> QED BY <1>14, <1>15, <3>3, <4>1
    <3>4. j \in 1..n => i \in 1..n
      BY <1>17, <2>2
    <3> QED BY <1>20, <3>1, <3>2, <3>3, <3>4
  <2>3. SeenInOrder' <=> /\ \A i, j \in 1..(n + m) : i < j => now[i] > now[j]
                         /\ next # 0 => \A i \in 1..(n + m) : now[i] > next
                         /\ next = 0 /\ ~(next = 0) => now = <<>>
    BY <1>17, <1>22 DEF SeenInOrder
  <2> QED BY <2>1, <2>2, <2>3
<1>28. SeenAll'
  <2> SUFFICES ASSUME NEW r \in page.stable, Wanted(r), next = 0 \/ r.id > next
               PROVE  \E i \in 1..(n + m) : now[i] = r.id
    <3>1. \A r : Wanted(r)' <=> Wanted(r)
      BY <1>4, <1>22 DEF Wanted, Suits
    <3>2. SeenAll' <=> \A r \in page.stable :
             Wanted(r)' /\ ((next = 0) \/ (next # 0 /\ r.id > next)) => \E i \in 1..(n + m) : now[i] = r.id
      BY <1>17, <1>22 DEF SeenAll
    <3> QED BY <3>1, <3>2
  <2>1. r \in listRow
    BY <1>5
  <2>2. r.id \in Nat /\ r.id > 0
    BY <1>6, <2>1 DEF RowsNumbered
  <2>3. CASE page.begin # 0 /\ r.id > page.begin
    <3>1. PICK i \in 1..n : was[i] = r.id
      BY <1>15, <2>3 DEF PagingIInv, SeenAll
    <3>2. i \in 1..(n + m) /\ now[i] = r.id
      BY <1>17, <1>18, <3>1
    <3> QED BY <3>2
  <2>4. CASE page.begin = 0 \/ r.id <= page.begin
    <3>1. r.id > next
      BY <1>8, <2>2
    <3>2. r \in ReverseFind(page.begin)
      BY <2>1, <2>4 DEF ReverseFind
    <3>3. r \in rows
      BY <1>1, <3>1, <3>2 DEF RowsReach
    <3>4. Matches(r, page) /\ r.visible
      BY <2>4, MatchesIs DEF Wanted, InPage
    <3>5. r.id \in G
      BY <1>2, <1>3, <3>1, <3>3, <3>4 DEF Shown
    <3>6. PICK i \in 1..m : ids[i] = r.id
      BY <1>14, <1>15, <3>5
    <3> QED BY <1>21, <3>6
  <2> QED BY <1>5, <2>2, <2>3, <2>4
<1> QED BY <1>23, <1>24, <1>27, <1>28 DEF PagingIInv

\* Rows that come have new IDs.
LEMMA CreateRowKeepsSeen ==
  ASSUME PagingIInv, NEW kind, NEW visible, CreateRow(kind, visible)
  PROVE  PagingIInv'
<1>1. PICK new : new = [id |-> lastRow + 1, kind |-> kind, visible |-> visible]
  OBVIOUS
<1>2. lastRow' = lastRow + 1 /\ list' = list /\ page' = page /\ listRow' = listRow \cup {new}
  BY <1>1 DEF CreateRow
<1>3. PageTyped /\ RowsNumbered /\ SeenInOrder /\ SeenAll
  BY DEF PagingIInv
<1>4. PageTyped'
  BY <1>2, <1>3 DEF PageTyped
<1>5. RowsNumbered'
  <2>1. lastRow \in Nat /\ IsFiniteSet(listRow) /\ \A r \in listRow : r.id \in 1..lastRow
    BY <1>3 DEF RowsNumbered
  <2>2. IsFiniteSet(listRow')
    BY <1>2, <2>1, FS_AddElement
  <2>3. new.id = lastRow + 1
    BY <1>1
  <2>4. \A r \in listRow' : r.id \in 1..(lastRow + 1)
    BY <1>2, <2>1, <2>3
  <2>5. \A r, q \in listRow' : r.id = q.id => r = q
    <3>1. \A r \in listRow : r.id # new.id
      BY <2>1, <2>3
    <3>2. \A r, q \in listRow : r.id = q.id => r = q
      BY <1>3 DEF RowsNumbered
    <3> QED BY <1>2, <3>1, <3>2
  <2> QED BY <1>2, <2>1, <2>2, <2>4, <2>5 DEF RowsNumbered
<1>6. SeenInOrder' /\ SeenAll'
  BY <1>2, <1>3 DEF SeenInOrder, SeenAll, Wanted, Suits
<1> QED BY <1>4, <1>5, <1>6 DEF PagingIInv

\* A row that goes is no longer one that was there all the time.
LEMMA DeleteRowKeepsSeen ==
  ASSUME PagingIInv, NEW r \in listRow, DeleteRow(r)
  PROVE  PagingIInv'
<1>1. PageTyped /\ RowsNumbered /\ SeenInOrder /\ SeenAll
  BY DEF PagingIInv
<1>2. PICK b, k, l, s, t, d : page = [begin |-> b, kind |-> k, limit |-> l, seen |-> s, stable |-> t, done |-> d]
  BY <1>1 DEF PageTyped
<1>3. page' = [begin |-> b, kind |-> k, limit |-> l, seen |-> s, stable |-> t \ {r}, done |-> d]
  BY <1>2 DEF DeleteRow
<1>4. listRow' = listRow \ {r} /\ lastRow' = lastRow /\ list' = list
  BY DEF DeleteRow
<1>5. PageTyped'
  <2>1. b \in Nat /\ s \in Seq(Nat) /\ t \subseteq listRow
    BY <1>1, <1>2 DEF PageTyped
  <2> QED BY <1>3, <1>4, <2>1 DEF PageTyped
<1>6. RowsNumbered'
  <2>1. IsFiniteSet(listRow')
    BY <1>1, <1>4, FS_Subset DEF RowsNumbered
  <2> QED BY <1>1, <1>4, <2>1 DEF RowsNumbered
<1>7. SeenInOrder'
  BY <1>1, <1>2, <1>3 DEF SeenInOrder
<1>8. SeenAll'
  BY ZenonT(30), <1>1, <1>2, <1>3, <1>4 DEF SeenAll, Wanted, Suits
<1> QED BY <1>5, <1>6, <1>7, <1>8 DEF PagingIInv

--------------------------------------------------------------------------------
(* Lists: the theorem *)

LEMMA PagingInitInv ==
  ASSUME PagingInit
  PROVE  PagingIInv
<1>1. lastRow \in Nat
  <2>1. lastRow \in {0, MaxRow - 1}
    BY DEF PagingInit
  <2>2. MaxRow \in Nat /\ MaxRow # 0
    BY PagingAssumption
  <2> QED BY <2>1, <2>2
<1>2. PICK kind \in [1..lastRow -> RowKinds], visible \in [1..lastRow -> BOOLEAN] :
        listRow = {[id |-> i, kind |-> kind[i], visible |-> visible[i]] : i \in 1..lastRow}
  BY DEF PagingInit
<1>3. PICK k \in RowKinds \cup {AnyKind}, l \in Limits :
        page = [begin |-> 0, kind |-> k, limit |-> l, seen |-> <<>>, stable |-> listRow, done |-> FALSE]
  BY DEF PagingInit
<1>4. PageTyped
  BY <1>3 DEF PageTyped
<1>5. RowsNumbered
  <2>1. IsFiniteSet(1..lastRow)
    BY <1>1, FS_Interval
  <2>5. PICK S : S = 1..lastRow
    OBVIOUS
  <2>2. PICK f : f = [i \in S |-> [id |-> i, kind |-> kind[i], visible |-> visible[i]]]
    OBVIOUS
  <2>3. DOMAIN f = S /\ listRow = {f[i] : i \in S}
    BY <1>2, <2>2, <2>5
  <2>4. IsFiniteSet(listRow)
    <3>1. PICK T : T = listRow
      OBVIOUS
    <3>2. IsFiniteSet(S) /\ T = {f[i] : i \in S}
      BY <2>1, <2>3, <2>5, <3>1
    <3>3. IsFiniteSet(T)
      BY <2>3, <3>2, FiniteImage
    <3> QED BY <3>1, <3>3
  <2> QED BY <1>1, <1>2, <2>4 DEF RowsNumbered
<1>6. SeenInOrder /\ SeenAll
  BY <1>3 DEF SeenInOrder, SeenAll
<1> QED BY <1>4, <1>5, <1>6 DEF PagingIInv

LEMMA PagingStepInv ==
  ASSUME PagingIInv, [PagingNext]_listVars
  PROVE  PagingIInv'
<1>1. RowsNumbered
  BY DEF PagingIInv
<1>2. CASE \E rows \in {ReverseAll(page.begin)} : ReadPage(rows)
  <2>1. PICK rows : rows = ReverseAll(page.begin) /\ ReadPage(rows)
    BY <1>2
  <2> QED BY <1>1, <2>1, ReverseAllReaches, ReadPageKeepsSeen
<1>3. CASE \E rows \in {ReverseFind(page.begin)} : ReadPage(rows)
  <2>1. PICK rows : rows = ReverseFind(page.begin) /\ ReadPage(rows)
    BY <1>3
  <2> QED BY <2>1, ReverseFindReaches, ReadPageKeepsSeen
<1>4. CASE \E kind \in RowKinds, visible \in BOOLEAN : CreateRow(kind, visible)
  BY <1>4, CreateRowKeepsSeen
<1>5. CASE \E r \in listRow : DeleteRow(r)
  BY <1>5, DeleteRowKeepsSeen
<1>6. CASE UNCHANGED listVars
  BY <1>6 DEF PagingIInv, PageTyped, RowsNumbered, SeenInOrder, SeenAll, Wanted, Suits, listVars
<1> QED BY <1>2, <1>3, <1>4, <1>5, <1>6
    DEF PagingNext, Observe, ObserveAccounts, ObservePosts, ObserveSolutions, ObserveContestSolutions

\* A reader who follows next_begin_id to the end has been given, once and from the
\* newest to the oldest, all the rows that match and were there all the time, for
\* every page limit and whatever comes and goes (observeAccounts, observePosts,
\* observeSolutions, observeContestSolutions).
THEOREM ListsAreComplete == PagingSpec => []PagesComplete
<1>1. ASSUME PagingIInv PROVE PagesComplete
  <2>1. PICK s, n : s = page.seen /\ n = Len(page.seen) /\ s \in Seq(Nat) /\ n = Len(s)
    BY <1>1 DEF PagingIInv, PageTyped
  <2>2. DOMAIN page.seen = 1..n
    BY <2>1
  <2>3. \A i, j \in DOMAIN page.seen : i < j => page.seen[i] > page.seen[j]
    BY <1>1, <2>1, <2>2 DEF PagingIInv, SeenInOrder
  <2>4. ASSUME page.done, NEW q \in page.stable, q.visible, Matches(q, [page EXCEPT !.begin = 0])
        PROVE  q.id \in ToSet(page.seen)
    <3>1. PICK f : f = [page EXCEPT !.begin = 0]
      OBVIOUS
    <3>2. f.kind = page.kind
      BY <1>1, <3>1 DEF PagingIInv, PageTyped
    <3>3. Suits(q, page.kind)
      BY <2>4, <3>1, <3>2, MatchesIs
    <3>4. Wanted(q)
      BY <2>4, <3>3 DEF Wanted
    <3>5. PICK i \in 1..Len(page.seen) : page.seen[i] = q.id
      BY <1>1, <2>4, <3>4 DEF PagingIInv, SeenAll
    <3> QED BY <2>1, <2>2, <3>5 DEF ToSet
  <2> QED BY <2>3, <2>4 DEF PagesComplete
<1> QED BY <1>1, PagingInitInv, PagingStepInv, PTL DEF PagingSpec

================================================================================
