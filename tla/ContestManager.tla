---------------------------- MODULE ContestManager ----------------------------
(***************************************************************************)
(* What an account may do in a contest at a given time                     *)
(* (internal/managers/contest.go).  A participant is                       *)
(* [id, account, kind, begin]; its begin, like the one of a contest, is 0  *)
(* when it is not set.  Permissions that are always given together are     *)
(* one: "solve" stands for seeing problems, own solutions and messages,    *)
(* "manage" for those of a manager.                                        *)
(***************************************************************************)
EXTENDS Naturals, Sequences

NoParticipant == [id |-> 0, account |-> "", kind |-> "none", begin |-> 0]

\* A participant may be nil; a virtual one has a time of its own.
ParticipantBeginTime(cfg, p) ==
    CASE p.kind = "regular" /\ p.begin /= 0 -> p.begin
      [] p.kind = "virtual" -> p.begin
      [] OTHER -> cfg.begin
ParticipantStage(cfg, p, now) ==
    LET begin == ParticipantBeginTime(cfg, p) IN
    CASE begin = 0 -> "not planned"
      [] begin /= 0 /\ now >= begin + cfg.duration -> "finished"
      [] begin /= 0 /\ now >= begin /\ now < begin + cfg.duration -> "started"
      [] OTHER -> "not started"

StandingsPermission(cfg) == IF cfg.standings THEN {"standings"} ELSE {}
ManagerPermissions == {"observe", "solve", "submit", "question", "standings", "full standings", "manage"}
RegularPermissions(stage, cfg) ==
    {"observe"} \cup
    CASE stage = "not started" -> {"deregister"}
      [] stage = "started" -> {"solve", "submit", "question"} \cup StandingsPermission(cfg)
      [] stage = "finished" -> {"solve"} \cup StandingsPermission(cfg)
      [] OTHER -> {}
VirtualPermissions(stage, cfg) == RegularPermissions(stage, cfg)
UpsolvingPermissions(stage, cfg) ==
    {"observe"} \cup (IF stage = "finished" THEN {"solve", "submit"} \cup StandingsPermission(cfg) ELSE {})
ObserverPermissions(stage, cfg) ==
    {"observe"} \cup (IF stage \in {"started", "finished"} THEN StandingsPermission(cfg) ELSE {})
ParticipantPermissions(cfg, p, now) ==
    LET stage == ParticipantStage(cfg, p, now) IN
    CASE p.kind = "regular" -> RegularPermissions(stage, cfg)
      [] p.kind = "upsolving" -> UpsolvingPermissions(stage, cfg)
      [] p.kind = "manager" -> ManagerPermissions
      [] p.kind = "observer" -> ObserverPermissions(stage, cfg)
      [] p.kind = "virtual" -> VirtualPermissions(stage, cfg)
      [] OTHER -> {}
RowPermissions(cfg, candidates, now) == UNION {ParticipantPermissions(cfg, a.row, now) : a \in candidates}
CheckEffectiveRegular(cfg, p, now) == p.kind = "manager" \/ ParticipantStage(cfg, p, now) = "started"
CheckEffectiveParticipant(cfg, p, now) ==
    LET stage == ParticipantStage(cfg, p, now) IN
    \/ p.kind = "manager" \/ (p.kind = "regular" /\ stage = "started")
    \/ (p.kind = "upsolving" /\ stage = "finished") \/ (p.kind = "virtual" /\ stage \in {"not started", "started"})

--------------------------------------------------------------------------------
(* BuildContext: rows are the participants of the contest, groups the groups of *)
(* the account in their order, accountPermissions what its roles let it do       *)

\* A candidate is a participant with its position: own rows are at 0, those of the
\* group groups[g] at g, what the contest adds comes last; then by ID.
RowsOf(rows, account, at) == {[at |-> at, id |-> p.id, row |-> p] : p \in {q \in rows : q.account = account}}
GroupRows(rows, groups) == UNION {RowsOf(rows, groups[g], g) : g \in DOMAIN groups}
Added(at, account, kind) == [at |-> at, id |-> 0, row |-> [id |-> 0, account |-> account, kind |-> kind, begin |-> 0]]
Comes(a, b) == a.at < b.at \/ (a.at = b.at /\ a.id < b.id)
FirstOf(candidates) == CHOOSE a \in candidates : \A b \in candidates : ~Comes(b, a)
Kinds(candidates) == {a.row.kind : a \in candidates}
\* the participant that a user becomes as a member of a group
AsMember(p, account) == [id |-> 0, account |-> account, kind |-> p.kind, begin |-> p.begin]
MemberKinds == {"regular", "upsolving", "manager"}
MemberStages(kind) ==
    CASE kind = "regular" -> {"not started", "started"}
      [] kind = "upsolving" -> {"finished"}
      [] OTHER -> {"not planned", "not started", "started", "finished"}
\* of the rows of groups, the first of each kind counts, unless the account has one
GroupParticipants(cfg, own, groupRows, account, now) ==
    {[at |-> a.at, id |-> a.id, row |-> AsMember(a.row, account)] : a \in
        {b \in groupRows :
            /\ b.row.kind \in MemberKinds \ Kinds(own)
            /\ \A c \in groupRows : c.row.kind = b.row.kind => ~Comes(c, b)
            /\ ParticipantStage(cfg, b.row, now) \in MemberStages(b.row.kind)}}
BuildContext(cfg, rows, account, groups, accountPermissions, disableUpsolving, now) ==
    LET stage == ParticipantStage(cfg, NoParticipant, now)
        own == RowsOf(rows, account, 0)
        groupRows == GroupRows(rows, groups)
        has == Kinds(own) \cup (Kinds(groupRows) \cap MemberKinds)
        isOwner == cfg.owner = account
        canRegister == cfg.registration /\ "register contests" \in accountPermissions
        asOwner == isOwner /\ "manager" \notin has
        asUpsolving == cfg.upsolving /\ ("regular" \in has \/ canRegister) /\ "upsolving" \notin has /\ stage = "finished"
        candidates == own \cup GroupParticipants(cfg, own, groupRows, account, now)
            \cup (IF asOwner THEN {Added(Len(groups) + 1, account, "manager")} ELSE {})
            \cup (IF asUpsolving THEN {Added(Len(groups) + 2, account, "upsolving")} ELSE {})
        permissions ==
            accountPermissions \cup RowPermissions(cfg, own, now) \cup (RowPermissions(cfg, groupRows, now) \ {"deregister"})
            \cup (IF isOwner THEN {"delete"} ELSE {})
            \cup (IF asOwner THEN ManagerPermissions ELSE {})
            \cup (IF "regular" \notin has /\ stage = "not started" /\ canRegister THEN {"observe", "register"} ELSE {})
            \cup (IF "virtual" \notin has /\ stage /= "not planned" /\ canRegister /\ cfg.virtual
                  THEN {"observe", "register virtual"} ELSE {})
            \cup (IF asUpsolving THEN UpsolvingPermissions(stage, cfg) ELSE {})
            \cup (IF cfg.observing /\ candidates = {} THEN ObserverPermissions(stage, cfg) ELSE {})
        able == {a \in candidates :
            ~(disableUpsolving /\ a.row.kind = "upsolving") /\ CheckEffectiveParticipant(cfg, a.row, now)}
    IN  [cfg |-> cfg, now |-> now, participants |-> {a.row : a \in candidates}, permissions |-> permissions,
         effective |-> IF able = {} THEN NoParticipant ELSE FirstOf(able).row]
Submitters(ctx) == {p \in ctx.participants : "submit" \in ParticipantPermissions(ctx.cfg, p, ctx.now)}
EffectivePermissions(ctx) == ParticipantPermissions(ctx.cfg, ctx.effective, ctx.now)

================================================================================
