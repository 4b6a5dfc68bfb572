--------------------------------- MODULE Posts ---------------------------------
(***************************************************************************)
(* The handlers that change posts with their files and compilers with      *)
(* their images (internal/api/posts.go, internal/api/compilers.go).        *)
(*                                                                         *)
(* A handler works on the row it has read, uploads its files one after     *)
(* another and writes everything in one transaction, the whole row         *)
(* included.  There is one post and one compiler, which no solution uses.  *)
(* A request that its form or its permissions refuse changes nothing.      *)
(***************************************************************************)
EXTENDS FileManager

CONSTANTS
    Posters,         \* requests
    PostNames,       \* names of files of the post
    MaxPostRequest   \* bound on requests

ASSUME PostAssumption == MaxPostRequest \in Nat /\ "image" \notin PostNames

VARIABLES
    post,            \* the row of the post; its publish time is the number of the request
    postFile,        \* rows of post_files
    postFiles,       \* rows created so far, which number their IDs
    compiler,        \* the row of the compiler
    poster, postRequests

postVars == <<post, postFile, postFiles, compiler, poster, postRequests>>

NoPost == [status |-> "none", published |-> 0]
NoCompiler == [status |-> "none", image |-> 0]
NoPosting == [pc |-> "idle", op |-> "none", row |-> NoPost, names |-> <<>>, deletes |-> {}, files |-> <<>>]

PostInit ==
    /\ post = NoPost /\ postFile = {} /\ postFiles = 0 /\ compiler = NoCompiler
    /\ poster = [p \in Posters |-> NoPosting] /\ postRequests = 0

PosterAt(p, v) == poster' = [poster EXCEPT ![p] = v]
Begin(p, op, row, names, deletes) ==
    /\ poster[p].pc = "idle" /\ postRequests < MaxPostRequest /\ postRequests' = postRequests + 1
    /\ PosterAt(p, [pc |-> "upload", op |-> op, row |-> row, names |-> names, deletes |-> deletes, files |-> <<>>])
    /\ UNCHANGED <<fileVars, post, postFile, postFiles, compiler>>

\* names of a form, each once
FormNames == {<<>>} \cup {<<n>> : n \in PostNames} \cup {s \in PostNames \X PostNames : s[1] /= s[2]}
BeginCreatePost(p, publish, names) ==
    /\ post.status = "none" /\ \A q \in Posters : poster[q].op /= "create post"
    /\ Begin(p, "create post", [status |-> "exists", published |-> IF publish THEN postRequests + 1 ELSE 0], names, {})
\* extractPost and the checks of the form: what is deleted is there, what is
\* added is not, unless the same request deletes it
BeginUpdatePost(p, publish, names, deletes) ==
    LET kept == {r.name : r \in {q \in postFile : q.id \notin deletes}}
        published == CASE publish = "keep" -> post.published
                       [] publish = "no" -> 0
                       [] publish = "yes" -> IF post.published = 0 THEN postRequests + 1 ELSE post.published
    IN  /\ post.status = "exists" /\ kept \cap ToSet(names) = {}
        /\ Begin(p, "update post", [post EXCEPT !.published = published], names, deletes)
BeginDeletePost(p) == post.status = "exists" /\ Begin(p, "delete post", post, <<>>, {})
BeginCompiler(p, op, names) ==
    /\ compiler.status = IF op = "create compiler" THEN "none" ELSE "exists"
    /\ op = "create compiler" => \A q \in Posters : poster[q].op /= "create compiler"
    /\ Begin(p, op, compiler, names, {})

PostUploadAll(p) ==
    /\ poster[p].pc = "upload" /\ Len(poster[p].files) < Len(poster[p].names) /\ CreateFile
    /\ PosterAt(p, [poster[p] EXCEPT !.files = Append(@, NewFile)])
    /\ UNCHANGED <<post, postFile, postFiles, compiler, reader, postRequests, fileFaults>>
\* UploadFile for each of the files
PostUploadRow(p) ==
    /\ poster[p].pc = "upload" /\ Len(poster[p].files) < Len(poster[p].names) /\ CreateFile
    /\ PosterAt(p, [poster[p] EXCEPT !.pc = "write", !.files = Append(@, NewFile)])
    /\ UNCHANGED <<post, postFile, postFiles, compiler, reader, postRequests, fileFaults>>
PostUploadContent(p) ==
    /\ poster[p].pc = "write" /\ WriteFile(Last(poster[p].files), Content("post", poster[p].names[Len(poster[p].files)]))
    /\ PosterAt(p, [poster[p] EXCEPT !.pc = "upload"])
    /\ UNCHANGED <<post, postFile, postFiles, compiler, reader, postRequests, fileFaults>>

Uploaded(p, op) ==
    /\ poster[p].pc = "upload" /\ poster[p].op = op /\ Len(poster[p].files) = Len(poster[p].names)
\* the rows of post_files that the transaction inserts
Inserted(p) ==
    {[id |-> postFiles + i, name |-> poster[p].names[i], file |-> poster[p].files[i]] : i \in DOMAIN poster[p].names}
Kept(p) == {r \in postFile : r.id \notin poster[p].deletes}
\* rows that are gone and names that are taken fail the transaction
TxApplies(p) ==
    /\ poster[p].deletes \subseteq {r.id : r \in postFile}
    /\ {r.name : r \in Kept(p)} \cap ToSet(poster[p].names) = {}
CommitPostDeletesLast(p) ==
    /\ post' = poster[p].row
    /\ postFile' = {r \in postFile \cup Inserted(p) :
            \A q \in postFile : q.id \in poster[p].deletes => q.name /= r.name}
    /\ postFiles' = postFiles + Len(poster[p].names)
    /\ ConfirmUploadFiles(ToSet(poster[p].files))
    /\ PosterAt(p, NoPosting) /\ UNCHANGED <<compiler, reader, postRequests, fileFaults>>
CommitPost(p) ==
    /\ post' = poster[p].row /\ postFile' = Kept(p) \cup Inserted(p)
    /\ postFiles' = postFiles + Len(poster[p].names)
    /\ ConfirmUploadFiles(ToSet(poster[p].files))
    /\ PosterAt(p, NoPosting) /\ UNCHANGED <<compiler, reader, postRequests, fileFaults>>
CreatePost(p) == Uploaded(p, "create post") /\ CommitPost(p)
UpdatePost(p) == Uploaded(p, "update post") /\ post.status = "exists" /\ TxApplies(p) /\ CommitPost(p)
\* a foreign key keeps the post of a file
DeletePost(p) ==
    /\ Uploaded(p, "delete post") /\ post.status = "exists" /\ postFile = {}
    /\ post' = [NoPost EXCEPT !.status = "deleted"] /\ PosterAt(p, NoPosting)
    /\ UNCHANGED <<fileVars, postFile, postFiles, compiler, postRequests>>
SetCompiler(p, c) ==
    /\ compiler' = c /\ ConfirmUploadFiles(ToSet(poster[p].files)) /\ PosterAt(p, NoPosting)
    /\ UNCHANGED <<post, postFile, postFiles, reader, postRequests, fileFaults>>
CreateCompiler(p) ==
    Uploaded(p, "create compiler") /\ SetCompiler(p, [status |-> "exists", image |-> poster[p].files[1]])
UpdateCompiler(p) ==
    /\ Uploaded(p, "update compiler") /\ compiler.status = "exists"
    /\ SetCompiler(p, IF poster[p].files = <<>> THEN poster[p].row ELSE [poster[p].row EXCEPT !.image = poster[p].files[1]])
DeleteCompiler(p) ==
    Uploaded(p, "delete compiler") /\ compiler.status = "exists" /\ SetCompiler(p, [NoCompiler EXCEPT !.status = "deleted"])
\* rows that are gone, a name that is taken, a failed write or transaction, or the end of the process
PostingFails(p) ==
    /\ poster[p].pc /= "idle" /\ PosterAt(p, NoPosting)
    /\ \/ /\ \/ Uploaded(p, "update post") /\ ~(post.status = "exists" /\ TxApplies(p))
             \/ Uploaded(p, "delete post") /\ (post.status = "deleted" \/ postFile /= {})
             \/ compiler.status = "deleted" /\ (Uploaded(p, "update compiler") \/ Uploaded(p, "delete compiler"))
          /\ UNCHANGED fileFaults
       \/ fileFaults < MaxFileFaults /\ fileFaults' = fileFaults + 1
    /\ UNCHANGED <<file, post, postFile, postFiles, compiler, reader, postRequests>>
\* observePostContent: GetByPostName and the file
ObservePostContent(r, name, etag) ==
    /\ \E q \in postFile : q.name = name /\ ObserveFileContent(r, q.file, etag)
    /\ UNCHANGED postVars

PostNext ==
    \/ \E p \in Posters :
        \/ \E publish \in BOOLEAN, names \in FormNames : BeginCreatePost(p, publish, names)
        \/ \E publish \in {"keep", "no", "yes"}, names \in FormNames, deletes \in SUBSET {r.id : r \in postFile} :
                BeginUpdatePost(p, publish, names, deletes)
        \/ BeginDeletePost(p)
        \/ \E op \in {"create compiler", "update compiler"} : BeginCompiler(p, op, <<"image">>)
        \/ \E op \in {"update compiler", "delete compiler"} : BeginCompiler(p, op, <<>>)
        \/ PostUploadRow(p) \/ PostUploadContent(p) \/ PostingFails(p)
        \/ CreatePost(p) \/ UpdatePost(p) \/ DeletePost(p)
        \/ CreateCompiler(p) \/ UpdateCompiler(p) \/ DeleteCompiler(p)
    \/ \E r \in Readers, name \in PostNames, etag \in Etags : ObservePostContent(r, name, etag)

--------------------------------------------------------------------------------
(* Properties *)

\* Files of the post and the image of the compiler are available and whole in
\* every state, wherever a request stopped (createPost, updatePost,
\* createCompiler, updateCompiler: confirmation in the transaction of the rows).
PostFilesAvailable ==
    \A f \in {r.file : r \in postFile} \cup ({compiler.image} \ {0}) :
        file[f].status = "available" /\ file[f].md5 = file[f].blob /\ file[f].blob /= Nothing

\* A request that replaces a file leaves the post with the new one, and a name
\* disappears only with a request that deletes it without a replacement, or with
\* another request's replacement refused (the order of deletions and insertions
\* in updatePost).
PostKeepsItsFiles ==
    [][\A r \in postFile : r.name \notin {q.name : q \in postFile'} =>
        \E p \in Posters : poster[p].op = "update post" /\ poster'[p].pc = "idle"
                             /\ r.id \in poster[p].deletes /\ r.name \notin ToSet(poster[p].names)]_postVars

================================================================================
