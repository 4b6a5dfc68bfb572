---------------------------- MODULE ProblemPackages ----------------------------
(***************************************************************************)
(* The handlers that change problems (internal/api/problems.go) and the    *)
(* task that unpacks a package into resources                              *)
(* (internal/invoker/update_problem_package.go).                           *)
(*                                                                         *)
(* Handlers and tasks work on the copy of the problem they have read at    *)
(* their start and write the whole row.  A package has the keys of its     *)
(* resources (kind, locale and name) and their contents.  A request that   *)
(* its form or its permissions refuse changes nothing.  There is one       *)
(* problem, which has no solutions yet.                                    *)
(***************************************************************************)
EXTENDS FileManager

CONSTANTS
    Authors,         \* requests that change the problem
    Builders,        \* workers of invokers that run its tasks
    ContentOf,       \* packages that may be uploaded: their resources, key to content
    FileKeys,        \* keys of resources that have a file; the others are statements
    MaxBuild, MaxRequest  \* bounds on tasks and requests

Packages == DOMAIN ContentOf

ASSUME PackageAssumption ==
    /\ "" \notin FileKeys
    /\ \A p \in Packages : IsFiniteSet(DOMAIN ContentOf[p]) /\ "" \notin DOMAIN ContentOf[p]
    /\ {MaxBuild, MaxRequest} \subseteq Nat

VARIABLES
    problem,         \* the row of the problem
    resource,        \* its resources: a set of rows
    resources,       \* the resources created so far, which number their IDs
    task,            \* tasks that update its package, by ID
    author, builder, requests

packageVars == <<problem, resource, resources, task, author, builder, requests>>

NoProblem == [status |-> "none", package |-> 0, compiled |-> 0]
NoRequest == [pc |-> "idle", op |-> "none", row |-> NoProblem, rows |-> {}, package |-> "", file |-> 0]
NoBuild == [pc |-> "idle", task |-> 0, row |-> NoProblem, rows |-> {}, package |-> "",
            events |-> {}, uploads |-> <<>>, upload |-> 0]

Builds == 1..MaxBuild

PackageInit ==
    /\ problem = NoProblem /\ resource = {} /\ resources = 0
    /\ task = [t \in Builds |-> [status |-> "none", file |-> 0, compile |-> FALSE]]
    /\ author = [a \in Authors |-> NoRequest] /\ builder = [b \in Builders |-> NoBuild]
    /\ requests = 0

--------------------------------------------------------------------------------
(* Requests *)

AuthorAt(a, v) == author' = [author EXCEPT ![a] = v]
\* extractProblem and the form of the request; "title" is an update without a package
Request(a, op, package) ==
    /\ author[a].pc = "idle" /\ requests < MaxRequest /\ requests' = requests + 1
    /\ (op \in {"create", "update"}) = (package /= "")
    /\ problem.status = IF op = "create" THEN "none" ELSE "exists"
    /\ op = "create" => \A b \in Authors : author[b].op /= "create"
    /\ AuthorAt(a, [pc |-> IF package = "" THEN "commit" ELSE "upload", op |-> op,
                    row |-> IF op = "delete" THEN NoProblem ELSE problem,
                    rows |-> IF op = "delete" THEN {r.id : r \in resource} ELSE {},
                    package |-> package, file |-> 0])
    /\ UNCHANGED <<fileVars, problem, resource, resources, task, builder>>

UploadLater(a) ==
    /\ author[a].pc = "upload" /\ CreateFile
    /\ AuthorAt(a, [author[a] EXCEPT !.pc = "commit", !.file = NewFile])
    /\ UNCHANGED <<problem, resource, resources, task, builder, reader, requests, fileFaults>>
UploadRow(a) ==
    /\ author[a].pc = "upload" /\ CreateFile
    /\ AuthorAt(a, [author[a] EXCEPT !.pc = "write", !.file = NewFile])
    /\ UNCHANGED <<problem, resource, resources, task, builder, reader, requests, fileFaults>>
UploadContent(a) ==
    /\ author[a].pc = "write" /\ WriteFile(author[a].file, Content("package", author[a].package))
    /\ AuthorAt(a, [author[a] EXCEPT !.pc = "commit"])
    /\ UNCHANGED <<problem, resource, resources, task, builder, reader, requests, fileFaults>>

FreeBuilds == {t \in Builds : task[t].status = "none"}
CreateTask(f, compile) ==
    /\ FreeBuilds /= {}
    /\ task' = [task EXCEPT ![Min(FreeBuilds)] = [status |-> "queued", file |-> f, compile |-> compile]]

Commits(a, op) == author[a].pc = "commit" /\ author[a].op = op /\ AuthorAt(a, NoRequest)
CreateProblem(a) ==
    /\ Commits(a, "create") /\ problem.status = "none"
    /\ ConfirmUploadFiles({author[a].file})
    /\ problem' = [status |-> "exists", package |-> author[a].file, compiled |-> 0]
    /\ CreateTask(author[a].file, TRUE)
    /\ UNCHANGED <<resource, resources, builder, reader, requests, fileFaults>>
\* the whole row is written, as it was read
UpdateProblem(a) ==
    /\ Commits(a, "update") /\ problem.status = "exists"
    /\ ConfirmUploadFiles({author[a].file})
    /\ problem' = [author[a].row EXCEPT !.package = author[a].file]
    /\ CreateTask(author[a].file, TRUE)
    /\ UNCHANGED <<resource, resources, builder, reader, requests, fileFaults>>
UpdateProblemTitle(a) ==
    /\ Commits(a, "title") /\ problem.status = "exists"
    /\ problem' = author[a].row
    /\ UNCHANGED <<fileVars, resource, resources, task, builder, requests>>
RebuildProblem(a, compile) ==
    /\ Commits(a, "rebuild") /\ author[a].row.package /= 0
    /\ CreateTask(author[a].row.package, author[a].row.compiled = 0 \/ compile)
    /\ UNCHANGED <<fileVars, problem, resource, resources, builder, requests>>
\* foreign keys let the problem go only with all of its resources
DeleteProblem(a) ==
    /\ Commits(a, "delete") /\ problem.status = "exists"
    /\ author[a].rows = {r.id : r \in resource}
    /\ problem' = [NoProblem EXCEPT !.status = "deleted"] /\ resource' = {}
    /\ UNCHANGED <<fileVars, resources, task, builder, requests>>
\* a failed write, a failed transaction or the end of the process
RequestFails(a) ==
    /\ author[a].pc /= "idle" /\ AuthorAt(a, NoRequest)
    /\ \/ author[a].pc = "commit" /\ problem.status = "deleted" /\ UNCHANGED fileFaults
       \/ author[a].op = "delete" /\ author[a].rows /= {r.id : r \in resource} /\ UNCHANGED fileFaults
       \/ fileFaults < MaxFileFaults /\ fileFaults' = fileFaults + 1
    /\ UNCHANGED <<file, problem, resource, resources, task, builder, reader, requests>>

--------------------------------------------------------------------------------
(* The task *)

BuildAt(b, v) == builder' = [builder EXCEPT ![b] = v]
\* the row that stands for a key is the last one read; the others are duplicates
Winner(rows, key) == CHOOSE r \in rows : r.key = key /\ \A q \in rows : q.key = key => q.id <= r.id
\* the resources of the package that no row stands for
NewKeysOfFiles(rows, content) == (DOMAIN content \ {r.key : r \in rows}) \cap FileKeys
NewKeys(rows, content) == DOMAIN content \ {r.key : r \in rows}
Events(rows, content) ==
    LET keys == {r.key : r \in rows}
        winner == [k \in keys |-> Winner(rows, k)]
        same(k) == k \in FileKeys /\ winner[k].file /= 0
                     /\ file[winner[k].file].md5 = Content("resource", content[k])
    IN  {[kind |-> "delete", row |-> r] : r \in {q \in rows : q /= winner[q.key]}}
        \cup {[kind |-> "delete", row |-> winner[k]] : k \in keys \ DOMAIN content}
        \cup {[kind |-> "update", row |-> [winner[k] EXCEPT !.value = content[k]]] :
                k \in {j \in keys \cap DOMAIN content : ~same(j)}}
        \cup {[kind |-> "create", row |-> [id |-> 0, key |-> k, value |-> content[k], file |-> 0]] :
                k \in NewKeys(rows, content)}
UploadsOfUpdates(compile, package, events) ==
    LET keys == {e.row.key : e \in {d \in events : d.kind = "update" /\ d.row.key \in FileKeys}}
        contents == {[key |-> k, content |-> Content("resource", ContentOf[package][k]), file |-> 0] : k \in keys}
    IN  (IF compile THEN <<[key |-> "", content |-> Content("compiled", package), file |-> 0]>> ELSE <<>>)
            \o SetToSeq(contents)
\* contents to be uploaded: the compiled package, then files of resources
Uploads(compile, package, events) ==
    LET keys == {e.row.key : e \in {d \in events : d.kind /= "delete" /\ d.row.key \in FileKeys}}
        contents == {[key |-> k, content |-> Content("resource", ContentOf[package][k]), file |-> 0] : k \in keys}
    IN  (IF compile THEN <<[key |-> "", content |-> Content("compiled", package), file |-> 0]>> ELSE <<>>)
            \o SetToSeq(contents)

PackageOfTask(t) == task[t].file
PackageOf(t) == problem.package
\* Execute: the problem and its resources are read with a sync; the package is
\* the one of the problem, whatever file the task was created for.  The files
\* of the resources that are read do not change any more.
StartBuild(b, t) ==
    LET package == file[PackageOf(t)].blob.of
        events == Events(resource, ContentOf[package])
    IN  /\ builder[b].pc = "idle" /\ task[t].status = "queued"
        /\ task' = [task EXCEPT ![t].status = IF problem.status = "exists" THEN "running" ELSE "failed"]
        /\ IF problem.status /= "exists" THEN UNCHANGED builder
           ELSE BuildAt(b, [pc |-> "upload", task |-> t, row |-> problem, rows |-> resource, package |-> package,
                            events |-> events, uploads |-> Uploads(task[t].compile, package, events), upload |-> 0])
        /\ UNCHANGED <<fileVars, problem, resource, resources, author, requests>>
\* one UploadFile, its row and then its content
BuildUploadRow(b) ==
    LET n == builder[b].upload + 1 IN
    /\ builder[b].pc = "upload" /\ n <= Len(builder[b].uploads) /\ CreateFile
    /\ BuildAt(b, [builder[b] EXCEPT !.pc = "write", !.upload = n, !.uploads[n].file = NewFile])
    /\ UNCHANGED <<problem, resource, resources, task, author, reader, requests, fileFaults>>
BuildUploadContent(b) ==
    LET u == builder[b].uploads[builder[b].upload] IN
    /\ builder[b].pc = "write" /\ WriteFile(u.file, u.content)
    /\ BuildAt(b, [builder[b] EXCEPT !.pc = "upload"])
    /\ UNCHANGED <<problem, resource, resources, task, author, reader, requests, fileFaults>>

BuildReady(b) == builder[b].pc = "upload" /\ builder[b].upload = Len(builder[b].uploads)
FileFor(b, key) ==
    LET found == {u \in ToSet(builder[b].uploads) : u.key = key}
    IN  IF found = {} THEN 0 ELSE (CHOOSE u \in found : TRUE).file
\* updates and deletions of rows that are gone fail, and so does the transaction
BuildApplies(b) ==
    /\ problem.status = "exists"
    /\ \A e \in builder[b].events : e.kind /= "create" => \E r \in resource : r.id = e.row.id
CommitBuild(b) ==
    LET events == builder[b].events
        Changed(kind) == {e.row : e \in {d \in events : d.kind = kind}}
        WithFile(r) == IF FileFor(b, r.key) = 0 THEN r ELSE [r EXCEPT !.file = FileFor(b, r.key)]
        created == SetToSeq(Changed("create"))
        gone == {r.id : r \in Changed("delete") \cup Changed("update")}
        compiled == FileFor(b, "")
    IN  /\ BuildReady(b) /\ BuildApplies(b)
        /\ ConfirmUploadFiles({u.file : u \in ToSet(builder[b].uploads)})
        /\ resource' = {r \in resource : r.id \notin gone}
                \cup {WithFile(r) : r \in Changed("update")}
                \cup {[WithFile(created[i]) EXCEPT !.id = resources + i] : i \in DOMAIN created}
        /\ resources' = resources + Len(created)
        /\ problem' = [builder[b].row EXCEPT !.compiled = IF compiled = 0 THEN @ ELSE compiled]
        /\ task' = [task EXCEPT ![builder[b].task].status = "succeeded"]
        /\ BuildAt(b, NoBuild)
        /\ UNCHANGED <<author, reader, requests, fileFaults>>
\* the task fails, or its worker dies
BuildFails(b) ==
    /\ builder[b].pc /= "idle"
    /\ \/ BuildReady(b) /\ ~BuildApplies(b) /\ UNCHANGED fileFaults
       \/ fileFaults < MaxFileFaults /\ fileFaults' = fileFaults + 1
    /\ task' = [task EXCEPT ![builder[b].task].status = "failed"]
    /\ BuildAt(b, NoBuild)
    /\ UNCHANGED <<file, problem, resource, resources, author, reader, requests>>

\* observeProblemContent: the file of a resource by its name
ObserveProblemContent(r, key, etag) ==
    /\ \E q \in resource : q.key = key /\ q.file /= 0 /\ ObserveFileContent(r, q.file, etag)
    /\ UNCHANGED packageVars

RequestOps == {"create", "update", "title", "rebuild", "delete"}
PackageNext ==
    \/ \E a \in Authors :
        \/ \E op \in RequestOps, p \in Packages \cup {""} : Request(a, op, p)
        \/ UploadRow(a) \/ UploadContent(a) \/ RequestFails(a)
        \/ CreateProblem(a) \/ UpdateProblem(a) \/ UpdateProblemTitle(a) \/ DeleteProblem(a)
        \/ \E compile \in BOOLEAN : RebuildProblem(a, compile)
    \/ \E b \in Builders :
        \/ \E t \in Builds : StartBuild(b, t)
        \/ BuildUploadRow(b) \/ BuildUploadContent(b) \/ CommitBuild(b) \/ BuildFails(b)
    \/ \E r \in Readers, key \in FileKeys, etag \in Etags : ObserveProblemContent(r, key, etag)

--------------------------------------------------------------------------------
(* Properties *)

\* A resource that has a content names the file it was uploaded to, whichever event
\* wrote it, and a text names none.  A row refers to a file only when the file is available and its content is all
\* there, wherever an upload, a transaction or a process has stopped
\* (UploadFile, ConfirmUploadFile and the transactions that refer to files).
ReferencedFilesAvailable ==
    LET referenced == {problem.package, problem.compiled} \cup {r.file : r \in resource}
    IN  /\ \A r \in resource : (r.file /= 0) <=> (r.key \in FileKeys)
        /\ \A f \in referenced \ {0} : file[f].status = "available" /\ file[f].md5 = file[f].blob
                                          /\ file[f].blob /= Nothing

CompiledWithItsPackage ==
    \A t \in Builds : task[t].status = "running" /\ task'[t].status = "succeeded" /\ task[t].compile
        => file'[problem'.compiled].blob = Content("compiled", file'[problem'.package].blob.of)
BuildSetsResources ==
    \A b \in Builders :
        (builder[b].pc = "upload" /\ task'[builder[b].task].status = "succeeded" /\ builder[b].rows = resource)
        => LET content == ContentOf[builder[b].package] IN
           /\ {r.key : r \in resource'} = DOMAIN content
           /\ \A r, q \in resource' : r.key = q.key => r = q
           /\ \A r \in resource' : IF r.key \in FileKeys
                THEN file'[r.file].blob = Content("resource", content[r.key])
                ELSE r.value = content[r.key]

\* A task that compiles leaves a problem whose compiled package is that of its
\* package, although the problem may have another package by then than the task
\* was created for and other tasks and requests write the whole row as well
\* (Execute loads the package of the row it writes back).  A task whose resources
\* nobody has changed meanwhile leaves exactly those of its package, each once and
\* with its content, whatever duplicates, missing rows and unchanged files it has
\* found (executeImpl).
BuildIsWhole == [][CompiledWithItsPackage /\ BuildSetsResources]_<<packageVars, file>>

================================================================================
