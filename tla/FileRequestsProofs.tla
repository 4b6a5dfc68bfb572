-------------------------- MODULE FileRequestsProofs --------------------------
(***************************************************************************)
(* Files for any number of authors, builders, posters and readers.         *)
(*                                                                         *)
(* A file is available with its whole content for good.  What has to be    *)
(* shown is that nobody writes to a file that another request could        *)
(* confirm, and that a row read before an upload and written after it      *)
(* still refers to available files.                                        *)
(***************************************************************************)
EXTENDS FileRequests, TLAPS, FiniteSetTheorems, NaturalsInduction, WellFoundedInduction

--------------------------------------------------------------------------------
(* The invariant *)

Keys == UNION {DOMAIN ContentOf[p] : p \in Packages}
Values == UNION {{ContentOf[p][k] : k \in DOMAIN ContentOf[p]} : p \in Packages}
FormNamesOf == PostNames \cup {"image"}
Blob == [kind : {"nothing", "package", "compiled", "resource", "post"},
         of : {""} \cup Packages \cup Values \cup FormNamesOf]
FileRow == [status : {"none", "pending", "available"}, md5 : Blob, blob : Blob,
            expired : BOOLEAN]
ReaderState == [pc : {"idle", "wait", "select", "read", "done", "failed", "cancelled",
                      "not modified"},
                file : 0..MaxFile, timer : BOOLEAN, got : Blob]

ProblemRow == [status : {"none", "exists", "deleted"}, package : 0..MaxFile,
               compiled : 0..MaxFile]
ResourceRow == [id : Nat, key : Keys, value : Values, file : 0..MaxFile]
Upload == [key : Keys \cup {""}, content : Blob, file : 0..MaxFile]
Event == [kind : {"create", "update", "delete"}, row : ResourceRow]
AuthorState == [pc : {"idle", "upload", "write", "commit"}, op : RequestOps \cup {"none"},
                row : ProblemRow, rows : SUBSET Nat, package : Packages \cup {""},
                file : 0..MaxFile]
BuilderState == [pc : {"idle", "upload", "write"}, task : 0..MaxBuild, row : ProblemRow,
                 rows : SUBSET ResourceRow, package : Packages \cup {""},
                 events : SUBSET Event, uploads : Seq(Upload), upload : Nat]

PostStatuses == {"none", "exists", "deleted"}
PostRow == [status : PostStatuses, published : Nat]
CompilerRow == [status : PostStatuses, image : 0..MaxFile]
PostFileRow == [id : Nat, name : PostNames, file : Files]
CompilerOps == {"create compiler", "update compiler", "delete compiler"}
PostOps == {"create post", "update post", "delete post"}
PosterState == [pc : {"idle", "upload", "write"}, op : PostOps \cup CompilerOps \cup {"none"},
                row : PostRow \cup CompilerRow, names : Seq(FormNamesOf),
                deletes : SUBSET Nat, files : Seq(Files)]

FilesTypeOK ==
    /\ file \in [Files -> FileRow] /\ reader \in [Readers -> ReaderState]
    /\ problem \in ProblemRow /\ resource \subseteq ResourceRow /\ resources \in Nat
    /\ author \in [Authors -> AuthorState] /\ builder \in [Builders -> BuilderState]
    /\ post \in PostRow /\ compiler \in CompilerRow
    /\ postFile \subseteq PostFileRow /\ postFiles \in Nat
    /\ poster \in [Posters -> PosterState] /\ postRequests \in Nat

\* An available file is whole.
Available(f) == f \in Files /\ file[f].status = "available"
Whole(f) == file[f].md5 = file[f].blob /\ file[f].blob # Nothing
AvailableIsWhole == \A f \in Files : file[f].status = "available" => Whole(f)

\* Who uploads: the files it has created, and the one it is writing to.
Actors == ({"author"} \X Authors) \cup ({"builder"} \X Builders) \cup ({"poster"} \X Posters)
Holds(x, f) ==
    \/ x[1] = "author" /\ author[x[2]].file = f
    \/ x[1] = "builder" /\ \E i \in 1..Len(builder[x[2]].uploads) :
                                builder[x[2]].uploads[i].file = f
    \/ x[1] = "poster" /\ \E i \in 1..Len(poster[x[2]].files) : poster[x[2]].files[i] = f
WritesTo(x, f) ==
    \/ x[1] = "author" /\ author[x[2]].pc = "write" /\ author[x[2]].file = f
    \/ x[1] = "builder" /\ builder[x[2]].pc = "write"
                        /\ builder[x[2]].uploads[builder[x[2]].upload].file = f
    \/ x[1] = "poster" /\ poster[x[2]].pc = "write"
                       /\ poster[x[2]].files[Len(poster[x[2]].files)] = f
\* Files that somebody holds exist, and a file that is written to is pending and
\* nobody else's.
OwnerInv ==
    \A x \in Actors, f \in Files :
        /\ Holds(x, f) => file[f].status # "none"
        /\ WritesTo(x, f) => /\ file[f].status = "pending"
                             /\ \A y \in Actors \ {x} : ~Holds(y, f)

\* A row of the problem, in the table or read earlier.
PackageFile(f) == Available(f) /\ \E p \in Packages : file[f].blob = Content("package", p)
ProblemOK(row) ==
    /\ row.package # 0 => PackageFile(row.package)
    /\ row.compiled # 0 => Available(row.compiled)
    /\ row.status = "exists" => row.package # 0
\* A row of a resource.
ResourceOK(r) ==
    /\ r.id <= resources /\ ((r.file # 0) <=> (r.key \in FileKeys))
    /\ r.file # 0 => Available(r.file)
\* A row of the compiler.
CompilerOK(row) == row.image # 0 => Available(row.image)
RowsInv ==
    /\ ProblemOK(problem) /\ \A r \in resource : ResourceOK(r)
    /\ CompilerOK(compiler) /\ \A r \in postFile : Available(r.file)

\* A request for the problem: its copy of the row is good, and the file it
\* commits is its package.
AuthorInv(a) ==
    /\ ProblemOK(author[a].row)
    /\ author[a].op \in {"title", "rebuild"} => author[a].row.status = "exists"
    /\ author[a].op \in {"create", "update"} <=> author[a].package # ""
    /\ author[a].pc \in {"upload", "write"} => author[a].package # ""
    /\ author[a].pc = "write" => author[a].file # 0
    /\ author[a].pc = "commit" /\ author[a].package # "" =>
        /\ author[a].file # 0
        /\ file[author[a].file].blob = Content("package", author[a].package)

\* An upload that is over has its content.
UploadDone(b, i) == i <= builder[b].upload /\ ~(builder[b].pc = "write" /\ i = builder[b].upload)
UploadOK(b, i) ==
    LET u == builder[b].uploads[i] IN
    /\ u.content = IF u.key = "" THEN Content("compiled", builder[b].package)
                   ELSE Content("resource", ContentOf[builder[b].package][u.key])
    /\ u.key = "" \/ (u.key \in FileKeys /\ u.key \in DOMAIN ContentOf[builder[b].package])
    /\ (u.file # 0) <=> (i <= builder[b].upload)
    /\ UploadDone(b, i) => file[u.file].blob = u.content
CreatedRow(p, k) == [id |-> 0, key |-> k, value |-> ContentOf[p][k], file |-> 0]
EventOK(b, e) ==
    /\ e.kind = "update" => ResourceOK(e.row)
    /\ e.kind = "create" => \E k \in DOMAIN ContentOf[builder[b].package] :
                                e.row = CreatedRow(builder[b].package, k)
    /\ e.kind # "delete" /\ e.row.key \in FileKeys =>
        \E i \in 1..Len(builder[b].uploads) : builder[b].uploads[i].key = e.row.key
\* A task at work: the contents it uploads are those its events need.
BuilderInv(b) ==
    builder[b].pc # "idle" =>
        /\ ProblemOK(builder[b].row) /\ builder[b].row.status = "exists"
        /\ builder[b].package \in Packages
        /\ file[builder[b].row.package].blob = Content("package", builder[b].package)
        /\ builder[b].upload <= Len(builder[b].uploads)
        /\ builder[b].pc = "write" => builder[b].upload # 0
        /\ \A i \in 1..Len(builder[b].uploads) : UploadOK(b, i)
        /\ \A i, j \in 1..builder[b].upload :
             i # j => builder[b].uploads[i].file # builder[b].uploads[j].file
        /\ \A e \in builder[b].events : EventOK(b, e)

\* A request for a post or a compiler: its files but the one it is writing to
\* have their content.
PosterInv(p) ==
    /\ Len(poster[p].files) <= Len(poster[p].names)
    /\ poster[p].pc = "write" => poster[p].files # <<>>
    /\ \A i \in 1..Len(poster[p].files) :
         ~(poster[p].pc = "write" /\ i = Len(poster[p].files)) =>
             file[poster[p].files[i]].blob # Nothing
    /\ poster[p].op \in PostOps => poster[p].row \in PostRow /\ poster[p].names \in Seq(PostNames)
    /\ poster[p].op \in CompilerOps => poster[p].row \in CompilerRow /\ CompilerOK(poster[p].row)
    /\ poster[p].op = "create compiler" => Len(poster[p].names) = 1

\* A reader has waited for an available file, and was served its content.
ReaderInv(r) ==
    /\ reader[r].pc \in {"wait", "select"} => reader[r].file # 0
    /\ reader[r].pc = "read" => Available(reader[r].file)
    /\ reader[r].pc = "done" =>
        Available(reader[r].file) /\ reader[r].got = file[reader[r].file].blob

IInv ==
    /\ FilesTypeOK /\ AvailableIsWhole /\ OwnerInv /\ RowsInv
    /\ \A a \in Authors : AuthorInv(a)
    /\ \A b \in Builders : BuilderInv(b)
    /\ \A p \in Posters : PosterInv(p)
    /\ \A r \in Readers : ReaderInv(r)

--------------------------------------------------------------------------------
(* Operators *)

\* A set of numbers has a least one.
LEMMA LeastNumber ==
  ASSUME NEW S, S \subseteq Nat, S # {}
  PROVE  \E x \in S : \A y \in S : x <= y
<1>1. PICK x \in S : \A y \in S : ~(<<y, x>> \in OpToRel(<, Nat))
  BY NatLessThanWellFounded, WFMin
<1>2. \A y \in S : ~(y < x)
  BY <1>1 DEF OpToRel
<1> QED BY <1>2

\* A set of numbers with a bound has a greatest one.
LEMMA GreatestNumber ==
  ASSUME NEW S, S \subseteq Nat, S # {}, NEW n \in Nat, \A x \in S : x <= n
  PROVE  \E x \in S : \A y \in S : y <= x
<1>1. PICK T : T = {n - x : x \in S}
  OBVIOUS
<1>2. T \subseteq Nat /\ T # {}
  <2>1. \A x \in S : n - x \in Nat
    OBVIOUS
  <2> QED BY <1>1, <2>1
<1>3. PICK t \in T : \A u \in T : t <= u
  BY <1>2, LeastNumber
<1>4. PICK x \in S : t = n - x
  BY <1>1
<1>5. \A y \in S : n - x <= n - y
  BY <1>1, <1>3, <1>4
<1> QED BY <1>5

\* The elements of a finite set as a sequence.
LEMMA SetAsSeq ==
  ASSUME NEW S, IsFiniteSet(S)
  PROVE  /\ SetToSeq(S) \in Seq(S) /\ Len(SetToSeq(S)) \in Nat
         /\ \A x \in S : \E i \in 1..Len(SetToSeq(S)) : SetToSeq(S)[i] = x
         /\ \A i \in 1..Len(SetToSeq(S)) : SetToSeq(S)[i] \in S
         /\ \A i, j \in 1..Len(SetToSeq(S)) : SetToSeq(S)[i] = SetToSeq(S)[j] => i = j
<1>1. PICK n \in Nat : n = Cardinality(S)
  BY FS_CardinalityType
<1>2. PICK f : f \in Bijection(1..n, S)
  BY <1>1, FS_CardinalityType DEF ExistsBijection
<1>3. f \in [1..n -> S] /\ IsInjective(f)
  BY <1>2 DEF Bijection, Injection
<1>4. PICK g : g = SetToSeq(S)
  OBVIOUS
<1>5. g \in [1..n -> S] /\ IsInjective(g)
  BY <1>1, <1>3, <1>4 DEF SetToSeq
<1>6. g \in Injection(1..n, S)
  BY <1>5 DEF Injection
<1>7. IsFiniteSet(1..n) /\ Cardinality(1..n) = n
  BY FS_Interval
<1>8. g \in Surjection(1..n, S)
  BY <1>1, <1>6, <1>7, FS_Injection
<1>9. g \in Seq(S) /\ Len(g) = n
  BY <1>5
<1>10. \A i, j \in 1..n : g[i] = g[j] => i = j
  BY <1>5 DEF IsInjective
<1> QED BY <1>4, <1>5, <1>8, <1>9, <1>10 DEF Surjection

\* The image of a finite set.
LEMMA ImageIsFinite ==
  ASSUME NEW S, IsFiniteSet(S), NEW f, DOMAIN f = S, NEW T, T = {f[x] : x \in S}
  PROVE  IsFiniteSet(T)
<1>1. PICK g : g = [x \in S |-> f[x]]
  OBVIOUS
<1>2. g \in Surjection(S, T)
  BY <1>1 DEF Surjection
<1> QED BY <1>2, FS_Surjection

\* The members of a sequence.
LEMMA MembersOf ==
  ASSUME NEW S, NEW s \in Seq(S)
  PROVE  ToSet(s) = {s[i] : i \in 1..Len(s)}
BY DEF ToSet

\* A new file is one that was free.
LEMMA FreshFile ==
  ASSUME FreeFiles # {}
  PROVE  NewFile \in Files /\ file[NewFile].status = "none"
<1>1. FreeFiles \subseteq Files /\ FreeFiles \subseteq Nat
  BY FileAssumption DEF FreeFiles, Files
<1>2. \E x \in FreeFiles : \A y \in FreeFiles : x <= y
  BY <1>1, LeastNumber
<1>3. NewFile \in FreeFiles
  BY <1>2 DEF NewFile, Min
<1> QED BY <1>1, <1>3 DEF FreeFiles

\* Numbers of files are not 0.
LEMMA FileNumbers == Files \subseteq 0..MaxFile /\ 0 \notin Files /\ MaxFile \in Nat
                     /\ \A f \in 0..MaxFile : f # 0 => f \in Files
BY FileAssumption DEF Files

\* No file.
LEMMA ZeroFile == 0 \in 0..MaxFile
BY FileNumbers

\* A content is not nothing.
LEMMA ContentIsThere ==
  ASSUME NEW kind, NEW of, kind # "nothing"
  PROVE  Content(kind, of) # Nothing
<1>1. Content(kind, of).kind = kind /\ Nothing.kind = "nothing"
  BY DEF Content, Nothing
<1> QED BY <1>1

--------------------------------------------------------------------------------
(* What becomes of files *)

\* Files are not deleted, and available ones do not change.
FilesGrow ==
    \A f \in Files :
        /\ file[f].status # "none" => file'[f].status # "none"
        /\ file[f].status = "available" =>
             /\ file'[f].status = "available"
             /\ file'[f].md5 = file[f].md5 /\ file'[f].blob = file[f].blob

\* UploadFile creates a row.
LEMMA CreateFileStep ==
  ASSUME FilesTypeOK, AvailableIsWhole, CreateFile, NEW g, g = NewFile
  PROVE  /\ file' \in [Files -> FileRow] /\ AvailableIsWhole' /\ FilesGrow
         /\ g \in Files /\ file[g].status = "none" /\ file'[g].status = "pending"
         /\ \A f \in Files \ {g} : file'[f] = file[f]
<1>1. g \in Files /\ file[g].status = "none"
  BY FreshFile DEF CreateFile
<1>2. Nothing \in Blob
  BY DEF Nothing, Content, Blob
<1>3. PICK row : row = [NoFile EXCEPT !.status = "pending"]
  OBVIOUS
<1>4. row \in FileRow /\ row.status = "pending"
  BY <1>2, <1>3 DEF NoFile, FileRow
<1>5. file' = [file EXCEPT ![g] = row]
  BY <1>3 DEF CreateFile
<1>6. file' \in [Files -> FileRow] /\ file'[g] = row /\ \A f \in Files \ {g} : file'[f] = file[f]
  BY <1>1, <1>4, <1>5 DEF FilesTypeOK
<1>7. FilesGrow
  BY <1>1, <1>4, <1>6 DEF FilesGrow
<1>8. AvailableIsWhole'
  BY <1>1, <1>4, <1>6 DEF AvailableIsWhole, Whole
<1> QED BY <1>1, <1>4, <1>6, <1>7, <1>8

\* A content is written to the storage.
LEMMA WriteFileStep ==
  ASSUME FilesTypeOK, AvailableIsWhole, NEW f \in Files, NEW content \in Blob,
         file[f].status = "pending", WriteFile(f, content)
  PROVE  /\ file' \in [Files -> FileRow] /\ AvailableIsWhole' /\ FilesGrow
         /\ file'[f].status = "pending" /\ file'[f].blob = content
         /\ \A g \in Files \ {f} : file'[g] = file[g]
<1>1. PICK row : row = [file[f] EXCEPT !.blob = content]
  OBVIOUS
<1>2. row \in FileRow /\ row.status = "pending" /\ row.blob = content
  BY <1>1 DEF FilesTypeOK, FileRow
<1>3. file' = [file EXCEPT ![f] = row]
  BY <1>1 DEF WriteFile
<1>4. file' \in [Files -> FileRow] /\ file'[f] = row /\ \A g \in Files \ {f} : file'[g] = file[g]
  BY <1>2, <1>3 DEF FilesTypeOK
<1>5. FilesGrow
  BY <1>2, <1>4 DEF FilesGrow
<1>6. AvailableIsWhole'
  BY <1>2, <1>4 DEF AvailableIsWhole, Whole
<1> QED BY <1>2, <1>4, <1>5, <1>6

\* Files that have their contents are confirmed.
LEMMA ConfirmStep ==
  ASSUME FilesTypeOK, AvailableIsWhole, NEW fs, fs \subseteq Files,
         \A f \in fs : file[f].blob # Nothing, ConfirmUploadFiles(fs)
  PROVE  /\ file' \in [Files -> FileRow] /\ AvailableIsWhole' /\ FilesGrow
         /\ \A f \in fs : file'[f].status = "available"
         /\ \A f \in Files : file'[f].blob = file[f].blob
         /\ \A f \in Files \ fs : file'[f] = file[f]
<1>1. /\ \A f \in fs : /\ file'[f] \in FileRow /\ file'[f].status = "available"
                       /\ file'[f].md5 = file[f].blob /\ file'[f].blob = file[f].blob
      /\ \A f \in Files \ fs : file'[f] = file[f]
  <2>1. ASSUME NEW f \in fs
        PROVE  /\ file'[f] \in FileRow /\ file'[f].status = "available"
               /\ file'[f].md5 = file[f].blob /\ file'[f].blob = file[f].blob
    <3>1. file[f] \in FileRow
      BY DEF FilesTypeOK
    <3>2. file'[f] = [file[f] EXCEPT !.status = "available", !.md5 = file[f].blob]
      BY DEF ConfirmUploadFiles
    <3> QED BY <3>1, <3>2 DEF FileRow
  <2>2. \A f \in Files \ fs : file'[f] = file[f]
    BY DEF ConfirmUploadFiles
  <2> QED BY <2>1, <2>2
<1>2. file' \in [Files -> FileRow]
  <2>1. \A f \in Files : file'[f] \in FileRow
    BY <1>1 DEF FilesTypeOK
  <2>2. file' = [f \in Files |-> file'[f]]
    BY DEF ConfirmUploadFiles
  <2> QED BY <2>1, <2>2
<1>3. FilesGrow
  BY <1>1 DEF FilesGrow, AvailableIsWhole, Whole
<1>4. AvailableIsWhole'
  BY <1>1 DEF AvailableIsWhole, Whole
<1> QED BY <1>1, <1>2, <1>3, <1>4

\* Files stay as they are.
LEMMA FilesStay ==
  ASSUME FilesTypeOK, AvailableIsWhole, UNCHANGED file
  PROVE  file' \in [Files -> FileRow] /\ AvailableIsWhole' /\ FilesGrow
BY DEF FilesTypeOK, AvailableIsWhole, Whole, FilesGrow

--------------------------------------------------------------------------------
(* Who holds a file, and what rows refer to *)

\* An actor has not moved.
Same(y) ==
    /\ y[1] = "author" => author'[y[2]] = author[y[2]]
    /\ y[1] = "builder" => builder'[y[2]] = builder[y[2]]
    /\ y[1] = "poster" => poster'[y[2]] = poster[y[2]]
\* The files of an actor have not changed.
KeepsOf(y) == \A f \in Files : Holds(y, f) => file'[f].blob = file[f].blob
\* A step of an actor: it changes files of its own and new ones, writes only to
\* the one it was writing to, and comes to hold and to write to new files only.
StepOf(x) ==
    \A f \in Files :
        /\ file'[f].status # file[f].status => Holds(x, f) \/ file[f].status = "none"
        /\ file'[f].blob # file[f].blob => WritesTo(x, f) \/ file[f].status = "none"
        /\ Holds(x, f)' => (Holds(x, f) \/ file[f].status = "none") /\ file'[f].status # "none"
        /\ WritesTo(x, f)' => (WritesTo(x, f) \/ file[f].status = "none")
                              /\ file'[f].status = "pending"

\* An actor that has not moved holds what it held.
LEMMA SameHolds ==
  ASSUME NEW y \in Actors, Same(y), NEW f
  PROVE  (Holds(y, f)' <=> Holds(y, f)) /\ (WritesTo(y, f)' <=> WritesTo(y, f))
<1>1. CASE y[1] = "author"
  BY <1>1 DEF Same, Holds, WritesTo
<1>2. CASE y[1] = "builder"
  BY <1>2 DEF Same, Holds, WritesTo
<1>3. CASE y[1] = "poster"
  BY <1>3 DEF Same, Holds, WritesTo
<1> QED BY <1>1, <1>2, <1>3 DEF Actors

\* Files keep their owners, and those who have not moved their contents.
LEMMA OwnersKeep ==
  ASSUME OwnerInv, NEW x \in Actors, \A y \in Actors \ {x} : Same(y), FilesGrow, StepOf(x)
  PROVE  OwnerInv' /\ \A y \in Actors \ {x} : KeepsOf(y)
<1>1. ASSUME NEW y \in Actors \ {x}, NEW f \in Files
      PROVE  (Holds(y, f)' <=> Holds(y, f)) /\ (WritesTo(y, f)' <=> WritesTo(y, f))
  BY SameHolds
<1>2. ASSUME NEW y \in Actors \ {x} PROVE KeepsOf(y)
  BY DEF KeepsOf, OwnerInv, StepOf
<1>3. ASSUME NEW y \in Actors, NEW f \in Files, Holds(y, f)' PROVE file'[f].status # "none"
  BY <1>1, <1>3 DEF OwnerInv, StepOf, FilesGrow
<1>4. ASSUME NEW y \in Actors, NEW f \in Files, WritesTo(y, f)'
      PROVE  file'[f].status = "pending" /\ \A z \in Actors \ {y} : ~Holds(z, f)'
  <2>1. CASE y = x
    BY <1>1, <1>4, <2>1 DEF OwnerInv, StepOf
  <2>2. CASE y # x
    <3>1. WritesTo(y, f)
      BY <1>1, <1>4, <2>2
    <3>2. file[f].status = "pending" /\ \A z \in Actors \ {y} : ~Holds(z, f)
      BY <3>1 DEF OwnerInv
    <3>3. file'[f].status = "pending"
      BY <2>2, <3>2 DEF StepOf
    <3>4. ~Holds(x, f)'
      BY <2>2, <3>2 DEF StepOf
    <3> QED BY <1>1, <3>2, <3>3, <3>4
  <2> QED BY <2>1, <2>2
<1> QED BY <1>2, <1>3, <1>4 DEF OwnerInv

\* The same when nobody moves.
LEMMA OwnersStay ==
  ASSUME OwnerInv, \A y \in Actors : Same(y),
         \A f \in Files : file'[f].status = file[f].status /\ file'[f].blob = file[f].blob
  PROVE  OwnerInv' /\ \A y \in Actors : KeepsOf(y)
<1>1. ASSUME NEW y \in Actors, NEW f \in Files
      PROVE  (Holds(y, f)' <=> Holds(y, f)) /\ (WritesTo(y, f)' <=> WritesTo(y, f))
  BY SameHolds
<1> QED BY <1>1 DEF OwnerInv, KeepsOf

\* What was available is.
LEMMA AvailableStays ==
  ASSUME FilesGrow, NEW f
  PROVE  (Available(f) => Available(f)') /\ (PackageFile(f) => PackageFile(f)')
BY DEF FilesGrow, Available, PackageFile

\* Rows that were good are.
LEMMA ProblemStays ==
  ASSUME FilesGrow, NEW row, ProblemOK(row)
  PROVE  ProblemOK(row)'
BY AvailableStays DEF ProblemOK

\* The same for resources.
LEMMA ResourceStays ==
  ASSUME FilesGrow, NEW r \in ResourceRow, ResourceOK(r), resources \in Nat, resources' \in Nat,
         resources <= resources'
  PROVE  ResourceOK(r)'
<1>1. r.id <= resources'
  BY DEF ResourceOK, ResourceRow
<1> QED BY <1>1, AvailableStays DEF ResourceOK

\* The same for compilers.
LEMMA CompilerStays ==
  ASSUME FilesGrow, NEW row, CompilerOK(row)
  PROVE  CompilerOK(row)'
BY AvailableStays DEF CompilerOK

\* Rows in the tables, when requests leave them alone.
LEMMA RowsStay ==
  ASSUME FilesTypeOK, RowsInv, FilesGrow,
         UNCHANGED <<problem, resource, resources, compiler, postFile>>
  PROVE  RowsInv'
<1>1. ProblemOK(problem)'
  <2>1. PICK x : x = problem
    OBVIOUS
  <2>2. ProblemOK(x)'
    BY <2>1, ProblemStays DEF RowsInv
  <2> QED BY <2>1, <2>2
<1>2. CompilerOK(compiler)'
  <2>1. PICK x : x = compiler
    OBVIOUS
  <2>2. CompilerOK(x)'
    BY <2>1, CompilerStays DEF RowsInv
  <2> QED BY <2>1, <2>2
<1>3. \A r \in resource' : ResourceOK(r)'
  <2> SUFFICES ASSUME NEW r \in resource PROVE ResourceOK(r)'
    OBVIOUS
  <2>1. r \in ResourceRow /\ ResourceOK(r) /\ resources \in Nat /\ resources' = resources
    BY DEF FilesTypeOK, RowsInv
  <2>2. resources' \in Nat /\ resources <= resources'
    BY <2>1
  <2> QED BY <2>1, <2>2, ResourceStays
<1>4. \A r \in postFile' : Available(r.file)'
  BY AvailableStays DEF RowsInv
<1> QED BY <1>1, <1>2, <1>3, <1>4 DEF RowsInv

--------------------------------------------------------------------------------
(* Those who have not moved *)

\* A request for the problem.
LEMMA AuthorFrame ==
  ASSUME FilesTypeOK, NEW a \in Authors, AuthorInv(a), author'[a] = author[a], FilesGrow,
         KeepsOf(<<"author", a>>)
  PROVE  AuthorInv(a)'
<1>1. PICK q \in AuthorState : q = author[a]
  BY DEF FilesTypeOK
<1>2. ProblemOK(q.row)'
  <2>1. PICK row : row = q.row
    OBVIOUS
  <2>2. ProblemOK(row)'
    BY <1>1, <2>1, ProblemStays DEF AuthorInv
  <2> QED BY <2>1, <2>2
<1>3. q.file # 0 => q.file \in Files /\ file'[q.file].blob = file[q.file].blob
  <2>1. q.file # 0 => q.file \in Files
    BY <1>1, FileNumbers DEF AuthorState
  <2>2. Holds(<<"author", a>>, q.file)
    BY <1>1 DEF Holds
  <2> QED BY <2>1, <2>2 DEF KeepsOf
<1> QED BY <1>1, <1>2, <1>3 DEF AuthorInv

\* A task.
LEMMA BuilderFrame ==
  ASSUME FilesTypeOK, NEW b \in Builders, BuilderInv(b), builder'[b] = builder[b], FilesGrow,
         KeepsOf(<<"builder", b>>), resources' \in Nat, resources <= resources'
  PROVE  BuilderInv(b)'
<1> SUFFICES ASSUME builder[b].pc # "idle" PROVE BuilderInv(b)'
  BY DEF BuilderInv
<1>1. PICK q \in BuilderState : q = builder[b]
  BY DEF FilesTypeOK
<1>2. ProblemOK(q.row)'
  <2>1. PICK row : row = q.row
    OBVIOUS
  <2>2. ProblemOK(row)'
    BY <1>1, <2>1, ProblemStays DEF BuilderInv
  <2> QED BY <2>1, <2>2
<1>3. q.row.status = "exists" /\ file'[q.row.package].blob = Content("package", q.package)
  <2>1. q.row.status = "exists" /\ ProblemOK(q.row)
        /\ file[q.row.package].blob = Content("package", q.package)
    BY <1>1 DEF BuilderInv
  <2>2. q.row.package \in Files /\ file[q.row.package].status = "available"
    BY <2>1 DEF ProblemOK, PackageFile, Available
  <2> QED BY <2>1, <2>2 DEF FilesGrow
<1>4. ASSUME NEW i \in 1..Len(q.uploads) PROVE UploadOK(b, i)'
  <2>1. UploadOK(b, i)
    BY <1>1 DEF BuilderInv
  <2>2. q.uploads[i] \in Upload
    <3>1. q.uploads \in Seq(Upload)
      BY <1>1 DEF BuilderState
    <3> QED BY <3>1
  <2>3. q.uploads[i].file # 0 => q.uploads[i].file \in Files
    BY <2>2, FileNumbers DEF Upload
  <2>4. Holds(<<"builder", b>>, q.uploads[i].file)
    BY <1>1 DEF Holds
  <2>5. q.uploads[i].file # 0 => file'[q.uploads[i].file].blob = file[q.uploads[i].file].blob
    BY <2>3, <2>4 DEF KeepsOf
  <2> QED BY <1>1, <2>1, <2>5 DEF UploadOK, UploadDone
<1>5. ASSUME NEW e \in q.events PROVE EventOK(b, e)'
  <2>1. EventOK(b, e)
    BY <1>1 DEF BuilderInv
  <2>2. e.row \in ResourceRow
    BY <1>1 DEF BuilderState, Event
  <2>3. PICK r \in ResourceRow : r = e.row
    BY <2>2
  <2>4. e.kind = "update" => ResourceOK(r)'
    BY <2>1, <2>3, ResourceStays DEF EventOK, FilesTypeOK
  <2> QED BY <1>1, <2>1, <2>3, <2>4 DEF EventOK
<1>6. /\ q.package \in Packages /\ q.upload <= Len(q.uploads) /\ (q.pc = "write" => q.upload # 0)
      /\ \A i, j \in 1..q.upload : i # j => q.uploads[i].file # q.uploads[j].file
  BY <1>1 DEF BuilderInv
<1> QED BY <1>1, <1>2, <1>3, <1>4, <1>5, <1>6 DEF BuilderInv

\* A request for a post or a compiler.
LEMMA PosterFrame ==
  ASSUME FilesTypeOK, NEW p \in Posters, PosterInv(p), poster'[p] = poster[p], FilesGrow,
         KeepsOf(<<"poster", p>>)
  PROVE  PosterInv(p)'
<1>1. PICK q \in PosterState : q = poster[p]
  BY DEF FilesTypeOK
<1>2. CompilerOK(q.row) => CompilerOK(q.row)'
  <2>1. PICK row : row = q.row
    OBVIOUS
  <2>2. CompilerOK(row) => CompilerOK(row)'
    BY CompilerStays
  <2> QED BY <2>1, <2>2
<1>3. ASSUME NEW i \in 1..Len(q.files) PROVE file'[q.files[i]].blob = file[q.files[i]].blob
  <2>1. q.files[i] \in Files
    BY <1>1 DEF PosterState
  <2>2. Holds(<<"poster", p>>, q.files[i])
    BY <1>1 DEF Holds
  <2> QED BY <2>1, <2>2 DEF KeepsOf
<1> QED BY <1>1, <1>2, <1>3 DEF PosterInv

\* A reader.
LEMMA ReaderFrame ==
  ASSUME FilesTypeOK, NEW r \in Readers, ReaderInv(r), reader'[r] = reader[r], FilesGrow
  PROVE  ReaderInv(r)'
<1>1. PICK q : q = reader[r]
  OBVIOUS
<1>2. Available(q.file) => Available(q.file)' /\ file'[q.file].blob = file[q.file].blob
  BY DEF FilesGrow, Available
<1> QED BY <1>1, <1>2 DEF ReaderInv

\* The parts of the invariant that one actor's step leaves to the others.
LEMMA AuthorMoves ==
  ASSUME IInv, NEW a \in Authors, \A c \in Authors \ {a} : author'[c] = author[c],
         UNCHANGED <<builder, poster, reader, resources>>, FilesGrow, StepOf(<<"author", a>>)
  PROVE  /\ OwnerInv' /\ \A c \in Authors \ {a} : AuthorInv(c)'
         /\ \A b \in Builders : BuilderInv(b)'
         /\ \A p \in Posters : PosterInv(p)'
         /\ \A r \in Readers : ReaderInv(r)'
<1> USE DEF IInv
<1>1. <<"author", a>> \in Actors /\ \A y \in Actors \ {<<"author", a>>} : Same(y)
  BY DEF Actors, Same
<1>2. OwnerInv' /\ \A y \in Actors \ {<<"author", a>>} : KeepsOf(y)
  BY <1>1, OwnersKeep
<1>3. ASSUME NEW c \in Authors \ {a} PROVE AuthorInv(c)'
  <2>1. KeepsOf(<<"author", c>>)
    BY <1>2 DEF Actors
  <2> QED BY <2>1, AuthorFrame
<1>4. ASSUME NEW b \in Builders PROVE BuilderInv(b)'
  <2>1. KeepsOf(<<"builder", b>>)
    BY <1>2 DEF Actors
  <2>2. resources' \in Nat /\ resources <= resources'
    BY DEF FilesTypeOK
  <2> QED BY <2>1, <2>2, BuilderFrame
<1>5. ASSUME NEW p \in Posters PROVE PosterInv(p)'
  <2>1. KeepsOf(<<"poster", p>>)
    BY <1>2 DEF Actors
  <2> QED BY <2>1, PosterFrame
<1>6. ASSUME NEW r \in Readers PROVE ReaderInv(r)'
  BY ReaderFrame
<1> QED BY <1>2, <1>3, <1>4, <1>5, <1>6

\* The same for a step of a task.
LEMMA BuilderMoves ==
  ASSUME IInv, NEW b \in Builders, \A c \in Builders \ {b} : builder'[c] = builder[c],
         UNCHANGED <<author, poster, reader>>, resources' \in Nat, resources <= resources',
         FilesGrow, StepOf(<<"builder", b>>)
  PROVE  /\ OwnerInv' /\ \A a \in Authors : AuthorInv(a)'
         /\ \A c \in Builders \ {b} : BuilderInv(c)'
         /\ \A p \in Posters : PosterInv(p)'
         /\ \A r \in Readers : ReaderInv(r)'
<1> USE DEF IInv
<1>1. <<"builder", b>> \in Actors /\ \A y \in Actors \ {<<"builder", b>>} : Same(y)
  BY DEF Actors, Same
<1>2. OwnerInv' /\ \A y \in Actors \ {<<"builder", b>>} : KeepsOf(y)
  BY <1>1, OwnersKeep
<1>3. ASSUME NEW a \in Authors PROVE AuthorInv(a)'
  <2>1. KeepsOf(<<"author", a>>)
    BY <1>2 DEF Actors
  <2> QED BY <2>1, AuthorFrame
<1>4. ASSUME NEW c \in Builders \ {b} PROVE BuilderInv(c)'
  <2>1. KeepsOf(<<"builder", c>>)
    BY <1>2 DEF Actors
  <2> QED BY <2>1, BuilderFrame
<1>5. ASSUME NEW p \in Posters PROVE PosterInv(p)'
  <2>1. KeepsOf(<<"poster", p>>)
    BY <1>2 DEF Actors
  <2> QED BY <2>1, PosterFrame
<1>6. ASSUME NEW r \in Readers PROVE ReaderInv(r)'
  BY ReaderFrame
<1> QED BY <1>2, <1>3, <1>4, <1>5, <1>6

\* The same for a step of a request for a post or a compiler.
LEMMA PosterMoves ==
  ASSUME IInv, NEW p \in Posters, \A c \in Posters \ {p} : poster'[c] = poster[c],
         UNCHANGED <<author, builder, reader, resources>>, FilesGrow, StepOf(<<"poster", p>>)
  PROVE  /\ OwnerInv' /\ \A a \in Authors : AuthorInv(a)'
         /\ \A b \in Builders : BuilderInv(b)'
         /\ \A c \in Posters \ {p} : PosterInv(c)'
         /\ \A r \in Readers : ReaderInv(r)'
<1> USE DEF IInv
<1>1. <<"poster", p>> \in Actors /\ \A y \in Actors \ {<<"poster", p>>} : Same(y)
  BY DEF Actors, Same
<1>2. OwnerInv' /\ \A y \in Actors \ {<<"poster", p>>} : KeepsOf(y)
  BY <1>1, OwnersKeep
<1>3. ASSUME NEW a \in Authors PROVE AuthorInv(a)'
  <2>1. KeepsOf(<<"author", a>>)
    BY <1>2 DEF Actors
  <2> QED BY <2>1, AuthorFrame
<1>4. ASSUME NEW b \in Builders PROVE BuilderInv(b)'
  <2>1. KeepsOf(<<"builder", b>>)
    BY <1>2 DEF Actors
  <2>2. resources' \in Nat /\ resources <= resources'
    BY DEF FilesTypeOK
  <2> QED BY <2>1, <2>2, BuilderFrame
<1>5. ASSUME NEW c \in Posters \ {p} PROVE PosterInv(c)'
  <2>1. KeepsOf(<<"poster", c>>)
    BY <1>2 DEF Actors
  <2> QED BY <2>1, PosterFrame
<1>6. ASSUME NEW r \in Readers PROVE ReaderInv(r)'
  BY ReaderFrame
<1> QED BY <1>2, <1>3, <1>4, <1>5, <1>6

\* The same when no actor moves.
LEMMA NobodyMoves ==
  ASSUME IInv, UNCHANGED <<author, builder, poster, resources>>, FilesGrow,
         \A f \in Files : file'[f].status = file[f].status /\ file'[f].blob = file[f].blob
  PROVE  /\ OwnerInv' /\ \A a \in Authors : AuthorInv(a)'
         /\ \A b \in Builders : BuilderInv(b)'
         /\ \A p \in Posters : PosterInv(p)'
<1> USE DEF IInv
<1>1. \A y \in Actors : Same(y)
  BY DEF Actors, Same
<1>2. OwnerInv' /\ \A y \in Actors : KeepsOf(y)
  BY <1>1, OwnersStay
<1>3. ASSUME NEW a \in Authors PROVE AuthorInv(a)'
  <2>1. KeepsOf(<<"author", a>>)
    BY <1>2 DEF Actors
  <2> QED BY <2>1, AuthorFrame
<1>4. ASSUME NEW b \in Builders PROVE BuilderInv(b)'
  <2>1. KeepsOf(<<"builder", b>>)
    BY <1>2 DEF Actors
  <2>2. resources' \in Nat /\ resources <= resources'
    BY DEF FilesTypeOK
  <2> QED BY <2>1, <2>2, BuilderFrame
<1>5. ASSUME NEW p \in Posters PROVE PosterInv(p)'
  <2>1. KeepsOf(<<"poster", p>>)
    BY <1>2 DEF Actors
  <2> QED BY <2>1, PosterFrame
<1> QED BY <1>2, <1>3, <1>4, <1>5

--------------------------------------------------------------------------------
(* Requests for the problem *)

\* What a step of a request has to show.
LEMMA AuthorStepDone ==
  ASSUME IInv, NEW a \in Authors, \A c \in Authors \ {a} : author'[c] = author[c],
         author' \in [Authors -> AuthorState], AuthorInv(a)', StepOf(<<"author", a>>),
         file' \in [Files -> FileRow], AvailableIsWhole', FilesGrow, RowsInv',
         problem' \in ProblemRow, resource' \subseteq resource,
         UNCHANGED <<builder, reader, resources>>, UNCHANGED postVars
  PROVE  IInv' /\ FilesGrow
<1>1. /\ poster' = poster /\ post' = post /\ compiler' = compiler /\ postFile' = postFile
      /\ postFiles' = postFiles /\ postRequests' = postRequests
  BY DEF postVars
<1>2. FilesTypeOK'
  BY <1>1 DEF FilesTypeOK, IInv
<1>3. /\ OwnerInv' /\ \A c \in Authors \ {a} : AuthorInv(c)'
      /\ \A b \in Builders : BuilderInv(b)'
      /\ \A p \in Posters : PosterInv(p)'
      /\ \A r \in Readers : ReaderInv(r)'
  BY <1>1, AuthorMoves
<1> QED BY <1>1, <1>2, <1>3 DEF IInv

\* No problem.
LEMMA NoProblemOK ==
  /\ NoProblem \in ProblemRow /\ NoProblem.package = 0 /\ NoProblem.compiled = 0
  /\ NoProblem.status = "none"
<1>1. 0 \in 0..MaxFile
  BY FileNumbers
<1> QED BY <1>1 DEF NoProblem, ProblemRow

\* No request.
LEMMA NoRequestOK ==
  /\ NoRequest \in AuthorState /\ NoRequest.pc = "idle" /\ NoRequest.op = "none"
  /\ NoRequest.row = NoProblem /\ NoRequest.package = "" /\ NoRequest.file = 0
<1>1. NoProblem \in ProblemRow /\ 0 \in 0..MaxFile /\ {} \in SUBSET Nat
  BY FileNumbers, NoProblemOK
<1>2. "none" \in RequestOps \cup {"none"} /\ "" \in Packages \cup {""}
  OBVIOUS
<1> QED BY <1>1, <1>2 DEF NoRequest, AuthorState

\* A request that is over.
LEMMA AuthorEnds ==
  ASSUME FilesTypeOK, NEW a \in Authors, AuthorAt(a, NoRequest),
         \A f \in Files : file'[f].blob = file[f].blob,
         \A f \in Files : file'[f].status # file[f].status => author[a].file = f
  PROVE  /\ author' \in [Authors -> AuthorState] /\ \A c \in Authors \ {a} : author'[c] = author[c]
         /\ AuthorInv(a)' /\ StepOf(<<"author", a>>)
<1>3. author' \in [Authors -> AuthorState] /\ author'[a] = NoRequest
      /\ \A c \in Authors \ {a} : author'[c] = author[c]
  BY NoRequestOK DEF AuthorAt, FilesTypeOK
<1>4. AuthorInv(a)'
  <2>1. ProblemOK(author[a].row)'
    BY <1>3, NoRequestOK, NoProblemOK DEF ProblemOK
  <2> QED BY <1>3, <2>1, NoRequestOK DEF AuthorInv
<1>5. StepOf(<<"author", a>>)
  <2>1. \A f \in Files : ~Holds(<<"author", a>>, f)' /\ ~WritesTo(<<"author", a>>, f)'
    BY <1>3, FileNumbers, NoRequestOK DEF Holds, WritesTo
  <2>2. \A f \in Files : author[a].file = f => Holds(<<"author", a>>, f)
    BY DEF Holds
  <2> QED BY <2>1, <2>2 DEF StepOf
<1> QED BY <1>3, <1>4, <1>5

\* A request starts.
LEMMA RequestStep ==
  ASSUME IInv, NEW a \in Authors, NEW op \in RequestOps, NEW p \in Packages \cup {""},
         Request(a, op, p), UNCHANGED postVars
  PROVE  IInv' /\ FilesGrow
<1>1. /\ UNCHANGED file /\ UNCHANGED <<builder, reader, resources>> /\ UNCHANGED postVars
      /\ UNCHANGED <<problem, resource>>
  BY DEF Request, fileVars
<1>2. FilesTypeOK /\ RowsInv /\ AvailableIsWhole
  BY DEF IInv
<1>3. file' \in [Files -> FileRow] /\ AvailableIsWhole' /\ FilesGrow
  BY <1>1, <1>2, FilesStay
<1>4. RowsInv'
  BY <1>1, <1>2, <1>3, RowsStay DEF postVars
<1>5. PICK row, rows, pc :
        /\ row = (IF op = "delete" THEN NoProblem ELSE problem)
        /\ rows = (IF op = "delete" THEN {r.id : r \in resource} ELSE {})
        /\ pc = (IF p = "" THEN "commit" ELSE "upload")
  OBVIOUS
<1>6. PICK v : v = [pc |-> pc, op |-> op, row |-> row, rows |-> rows, package |-> p, file |-> 0]
  OBVIOUS
<1>7. AuthorAt(a, v)
  BY <1>5, <1>6 DEF Request
<1>8. row \in ProblemRow /\ ProblemOK(row) /\ rows \subseteq Nat /\ pc \in {"commit", "upload"}
  <2>1. NoProblem \in ProblemRow /\ ProblemOK(NoProblem)
    BY NoProblemOK DEF ProblemOK
  <2>2. problem \in ProblemRow /\ ProblemOK(problem)
    BY <1>2 DEF FilesTypeOK, RowsInv
  <2>3. {r.id : r \in resource} \subseteq Nat
    BY <1>2 DEF FilesTypeOK, ResourceRow
  <2> QED BY <1>5, <2>1, <2>2, <2>3
<1>9. /\ v \in AuthorState /\ v.pc = pc /\ v.op = op /\ v.row = row /\ v.package = p /\ v.file = 0
  <2>1. 0 \in 0..MaxFile
    BY ZeroFile
  <2>3. rows \in SUBSET Nat
    BY <1>8
  <2>4. op \in RequestOps \cup {"none"}
    OBVIOUS
  <2>2. pc \in {"idle", "upload", "write", "commit"}
    BY <1>8
  <2> QED BY <1>6, <1>8, <2>1, <2>2, <2>3, <2>4 DEF AuthorState
<1>10. author' \in [Authors -> AuthorState] /\ author'[a] = v
       /\ \A c \in Authors \ {a} : author'[c] = author[c]
  BY <1>2, <1>7, <1>9 DEF AuthorAt, FilesTypeOK
<1>11. AuthorInv(a)'
  <2>1. ProblemOK(row)'
    BY <1>3, <1>8, ProblemStays
  <2>2. op \in {"title", "rebuild"} => row.status = "exists"
    BY <1>5 DEF Request
  <2>3. op \in {"create", "update"} <=> p # ""
    BY DEF Request
  <2>4. pc = "commit" <=> p = ""
    BY <1>5
  <2> QED BY <1>8, <1>9, <1>10, <2>1, <2>2, <2>3, <2>4 DEF AuthorInv
<1>12. StepOf(<<"author", a>>)
  <2>1. \A f \in Files : ~Holds(<<"author", a>>, f)' /\ ~WritesTo(<<"author", a>>, f)'
    BY <1>9, <1>10, FileNumbers DEF Holds, WritesTo
  <2> QED BY <1>1, <2>1 DEF StepOf
<1>13. problem' \in ProblemRow /\ resource' \subseteq resource
  BY <1>1, <1>2 DEF FilesTypeOK
<1> QED BY <1>1, <1>3, <1>4, <1>10, <1>11, <1>12, <1>13, AuthorStepDone

\* A request creates the row of its file.
LEMMA UploadRowStep ==
  ASSUME IInv, NEW a \in Authors, UploadRow(a), UNCHANGED postVars
  PROVE  IInv' /\ FilesGrow
<1>1. /\ author[a].pc = "upload" /\ CreateFile
      /\ UNCHANGED <<builder, reader, resources>> /\ UNCHANGED <<problem, resource>>
  BY DEF UploadRow
<1>2. FilesTypeOK /\ RowsInv /\ AvailableIsWhole /\ AuthorInv(a)
  BY DEF IInv
<1>3. PICK g : g = NewFile
  OBVIOUS
<1>4. /\ file' \in [Files -> FileRow] /\ AvailableIsWhole' /\ FilesGrow
      /\ g \in Files /\ file[g].status = "none" /\ file'[g].status = "pending"
      /\ \A f \in Files \ {g} : file'[f] = file[f]
  BY <1>1, <1>2, <1>3, CreateFileStep
<1>5. RowsInv'
  BY <1>1, <1>2, <1>4, RowsStay DEF postVars
<1>6. PICK q \in AuthorState : q = author[a]
  BY <1>2 DEF FilesTypeOK
<1>7. PICK v : v = [q EXCEPT !.pc = "write", !.file = g]
  OBVIOUS
<1>8. /\ v \in AuthorState /\ v.pc = "write" /\ v.file = g /\ v.row = q.row /\ v.op = q.op
      /\ v.package = q.package
  <2>1. g \in 0..MaxFile
    BY <1>4, FileNumbers
  <2> QED BY <1>6, <1>7, <2>1 DEF AuthorState
<1>9. AuthorAt(a, v)
  BY <1>3, <1>6, <1>7 DEF UploadRow
<1>10. author' \in [Authors -> AuthorState] /\ author'[a] = v
       /\ \A c \in Authors \ {a} : author'[c] = author[c]
  BY <1>2, <1>8, <1>9 DEF AuthorAt, FilesTypeOK
<1>11. AuthorInv(a)'
  <2>1. PICK row : row = q.row
    OBVIOUS
  <2>2. ProblemOK(row)'
    BY <1>2, <1>4, <1>6, <2>1, ProblemStays DEF AuthorInv
  <2>3. q.package # ""
    BY <1>1, <1>2, <1>6 DEF AuthorInv
  <2>4. g # 0
    BY <1>4, FileNumbers
  <2> QED BY <1>2, <1>6, <1>8, <1>10, <2>1, <2>2, <2>3, <2>4 DEF AuthorInv
<1>12. StepOf(<<"author", a>>)
  <2>1. \A f \in Files : /\ Holds(<<"author", a>>, f)' => f = g
                         /\ WritesTo(<<"author", a>>, f)' => f = g
    BY <1>8, <1>10 DEF Holds, WritesTo
  <2> QED BY <1>4, <2>1 DEF StepOf
<1>13. problem' \in ProblemRow /\ resource' \subseteq resource
  BY <1>1, <1>2 DEF FilesTypeOK
<1> QED BY <1>1, <1>4, <1>5, <1>10, <1>11, <1>12, <1>13, AuthorStepDone

\* A request writes the content of its file.
LEMMA UploadContentStep ==
  ASSUME IInv, NEW a \in Authors, UploadContent(a), UNCHANGED postVars
  PROVE  IInv' /\ FilesGrow
<1>1. /\ author[a].pc = "write"
      /\ UNCHANGED <<builder, reader, resources>> /\ UNCHANGED <<problem, resource>>
  BY DEF UploadContent
<1>2. FilesTypeOK /\ RowsInv /\ AvailableIsWhole /\ AuthorInv(a) /\ OwnerInv
  BY DEF IInv
<1>3. PICK q \in AuthorState : q = author[a]
  BY <1>2 DEF FilesTypeOK
<1>4. q.package \in Packages /\ q.file \in Files
  BY <1>1, <1>2, <1>3, FileNumbers DEF AuthorInv, AuthorState
<1>5. PICK f \in Files : f = q.file
  BY <1>4
<1>6. PICK content : content = Content("package", q.package)
  OBVIOUS
<1>7. content \in Blob
  BY <1>4, <1>6 DEF Content, Blob
<1>8. WritesTo(<<"author", a>>, f) /\ <<"author", a>> \in Actors
  BY <1>1, <1>3, <1>5 DEF WritesTo, Actors
<1>9. file[f].status = "pending"
  BY <1>2, <1>8 DEF OwnerInv
<1>10. WriteFile(f, content)
  BY <1>3, <1>5, <1>6 DEF UploadContent
<1>11. /\ file' \in [Files -> FileRow] /\ AvailableIsWhole' /\ FilesGrow
       /\ file'[f].status = "pending" /\ file'[f].blob = content
       /\ \A g \in Files \ {f} : file'[g] = file[g]
  BY <1>2, <1>7, <1>9, <1>10, WriteFileStep
<1>12. RowsInv'
  BY <1>1, <1>2, <1>11, RowsStay DEF postVars
<1>13. PICK v : v = [q EXCEPT !.pc = "commit"]
  OBVIOUS
<1>14. /\ v \in AuthorState /\ v.pc = "commit" /\ v.file = q.file /\ v.row = q.row /\ v.op = q.op
       /\ v.package = q.package
  BY <1>3, <1>13 DEF AuthorState
<1>15. AuthorAt(a, v)
  BY <1>3, <1>13 DEF UploadContent
<1>16. author' \in [Authors -> AuthorState] /\ author'[a] = v
       /\ \A c \in Authors \ {a} : author'[c] = author[c]
  BY <1>2, <1>14, <1>15 DEF AuthorAt, FilesTypeOK
<1>17. AuthorInv(a)'
  <2>1. PICK row : row = q.row
    OBVIOUS
  <2>2. ProblemOK(row)'
    BY <1>2, <1>3, <1>11, <2>1, ProblemStays DEF AuthorInv
  <2>3. q.file # 0 /\ file'[q.file].blob = Content("package", q.package)
    BY <1>4, <1>5, <1>6, <1>11, FileNumbers
  <2> QED BY <1>2, <1>3, <1>14, <1>16, <2>1, <2>2, <2>3 DEF AuthorInv
<1>18. StepOf(<<"author", a>>)
  <2>1. \A g \in Files : (Holds(<<"author", a>>, g)' => g = f) /\ ~WritesTo(<<"author", a>>, g)'
    BY <1>5, <1>14, <1>16 DEF Holds, WritesTo
  <2>2. Holds(<<"author", a>>, f)
    BY <1>3, <1>5 DEF Holds
  <2> QED BY <1>8, <1>9, <1>11, <2>1, <2>2 DEF StepOf
<1>19. problem' \in ProblemRow /\ resource' \subseteq resource
  BY <1>1, <1>2 DEF FilesTypeOK
<1> QED BY <1>1, <1>11, <1>12, <1>16, <1>17, <1>18, <1>19, AuthorStepDone

\* Rows, when the problem is written.
LEMMA ProblemWritten ==
  ASSUME FilesTypeOK, RowsInv, FilesGrow, NEW row, problem' = row, ProblemOK(row)',
         resource' \subseteq resource, UNCHANGED resources, UNCHANGED postVars
  PROVE  RowsInv'
<1>1. ProblemOK(problem)'
  OBVIOUS
<1>2. CompilerOK(compiler)'
  <2>1. PICK x : x = compiler
    OBVIOUS
  <2>2. CompilerOK(x)'
    BY <2>1, CompilerStays DEF RowsInv
  <2> QED BY <2>1, <2>2 DEF postVars
<1>3. \A r \in resource' : ResourceOK(r)'
  <2> SUFFICES ASSUME NEW r \in resource PROVE ResourceOK(r)'
    OBVIOUS
  <2>1. r \in ResourceRow /\ ResourceOK(r) /\ resources \in Nat /\ resources' = resources
    BY DEF FilesTypeOK, RowsInv
  <2>2. resources' \in Nat /\ resources <= resources'
    BY <2>1
  <2> QED BY <2>1, <2>2, ResourceStays
<1>4. \A r \in postFile' : Available(r.file)'
  BY AvailableStays DEF RowsInv, postVars
<1> QED BY <1>1, <1>2, <1>3, <1>4 DEF RowsInv

\* A transaction confirms the package of the request and writes a row with it.
LEMMA PackageWritten ==
  ASSUME IInv, NEW a \in Authors, author[a].pc = "commit", author[a].package # "",
         AuthorAt(a, NoRequest), ConfirmUploadFiles({author[a].file}),
         NEW row \in ProblemRow, problem' = row, row.package = author[a].file,
         row.compiled # 0 => Available(row.compiled),
         UNCHANGED <<resource, resources, builder, reader>>, UNCHANGED postVars
  PROVE  IInv' /\ FilesGrow
<1>1. FilesTypeOK /\ RowsInv /\ AvailableIsWhole /\ AuthorInv(a)
  BY DEF IInv
<1>2. PICK q \in AuthorState : q = author[a]
  BY <1>1 DEF FilesTypeOK
<1>3. q.package \in Packages /\ q.file # 0 /\ file[q.file].blob = Content("package", q.package)
  BY <1>1, <1>2 DEF AuthorInv, AuthorState
<1>4. q.file \in Files
  BY <1>2, <1>3, FileNumbers DEF AuthorState
<1>5. file[q.file].blob # Nothing
  BY <1>3, ContentIsThere
<1>6. PICK fs : fs = {q.file}
  OBVIOUS
<1>7. fs \subseteq Files /\ (\A f \in fs : file[f].blob # Nothing) /\ ConfirmUploadFiles(fs)
  BY <1>2, <1>4, <1>5, <1>6
<1>8. /\ file' \in [Files -> FileRow] /\ AvailableIsWhole' /\ FilesGrow
      /\ \A f \in fs : file'[f].status = "available"
      /\ \A f \in Files : file'[f].blob = file[f].blob
      /\ \A f \in Files \ fs : file'[f] = file[f]
  BY <1>1, <1>7, ConfirmStep
<1>9. /\ author' \in [Authors -> AuthorState] /\ \A c \in Authors \ {a} : author'[c] = author[c]
      /\ AuthorInv(a)' /\ StepOf(<<"author", a>>)
  <2>1. \A f \in Files : file'[f].status # file[f].status => author[a].file = f
    BY <1>2, <1>6, <1>8
  <2> QED BY <1>1, <1>8, <2>1, AuthorEnds
<1>10. ProblemOK(row)'
  <2>1. PackageFile(row.package)'
    BY <1>2, <1>3, <1>4, <1>6, <1>8 DEF PackageFile, Available
  <2>2. row.compiled # 0 => Available(row.compiled)'
    BY <1>8, AvailableStays
  <2>3. row.package # 0
    BY <1>2, <1>3
  <2> QED BY <2>1, <2>2, <2>3 DEF ProblemOK
<1>11. RowsInv'
  BY <1>1, <1>8, <1>10, ProblemWritten
<1> QED BY <1>8, <1>9, <1>11, AuthorStepDone

\* The problem is created.
LEMMA CreateProblemStep ==
  ASSUME IInv, NEW a \in Authors, CreateProblem(a), UNCHANGED postVars
  PROVE  IInv' /\ FilesGrow
<1>1. AuthorInv(a) /\ FilesTypeOK
  BY DEF IInv
<1>2. /\ author[a].pc = "commit" /\ author[a].op = "create" /\ AuthorAt(a, NoRequest)
      /\ ConfirmUploadFiles({author[a].file})
      /\ UNCHANGED <<resource, resources, builder, reader>>
  BY DEF CreateProblem, Commits
<1>3. author[a].package # "" /\ author[a].file \in 0..MaxFile
  BY <1>1, <1>2 DEF AuthorInv, FilesTypeOK, AuthorState
<1>4. PICK row : row = [status |-> "exists", package |-> author[a].file, compiled |-> 0]
  OBVIOUS
<1>5. row \in ProblemRow /\ row.package = author[a].file /\ row.compiled = 0
  <2>1. 0 \in 0..MaxFile
    BY FileNumbers
  <2> QED BY <1>3, <1>4, <2>1 DEF ProblemRow
<1>6. problem' = row
  BY <1>4 DEF CreateProblem
<1> QED BY <1>2, <1>3, <1>5, <1>6, PackageWritten

\* The problem gets a new package.
LEMMA UpdateProblemStep ==
  ASSUME IInv, NEW a \in Authors, UpdateProblem(a), UNCHANGED postVars
  PROVE  IInv' /\ FilesGrow
<1>1. AuthorInv(a) /\ FilesTypeOK
  BY DEF IInv
<1>2. /\ author[a].pc = "commit" /\ author[a].op = "update" /\ AuthorAt(a, NoRequest)
      /\ ConfirmUploadFiles({author[a].file})
      /\ UNCHANGED <<resource, resources, builder, reader>>
  BY DEF UpdateProblem, Commits
<1>3. author[a].package # "" /\ author[a].file \in 0..MaxFile /\ author[a].row \in ProblemRow
  BY <1>1, <1>2 DEF AuthorInv, FilesTypeOK, AuthorState
<1>4. PICK row : row = [author[a].row EXCEPT !.package = author[a].file]
  OBVIOUS
<1>5. row \in ProblemRow /\ row.package = author[a].file /\ row.compiled = author[a].row.compiled
  BY <1>3, <1>4 DEF ProblemRow
<1>6. problem' = row
  BY <1>4 DEF UpdateProblem
<1>7. row.compiled # 0 => Available(row.compiled)
  BY <1>1, <1>5 DEF AuthorInv, ProblemOK
<1> QED BY <1>2, <1>3, <1>5, <1>6, <1>7, PackageWritten

\* A transaction that confirms no file.
LEMMA AuthorWrites ==
  ASSUME IInv, NEW a \in Authors, AuthorAt(a, NoRequest), UNCHANGED file,
         NEW row \in ProblemRow, problem' = row, ProblemOK(row), resource' \subseteq resource,
         UNCHANGED <<resources, builder, reader>>, UNCHANGED postVars
  PROVE  IInv' /\ FilesGrow
<1>1. FilesTypeOK /\ RowsInv /\ AvailableIsWhole
  BY DEF IInv
<1>2. file' \in [Files -> FileRow] /\ AvailableIsWhole' /\ FilesGrow
  BY <1>1, FilesStay
<1>3. /\ author' \in [Authors -> AuthorState] /\ \A c \in Authors \ {a} : author'[c] = author[c]
      /\ AuthorInv(a)' /\ StepOf(<<"author", a>>)
  BY <1>1, AuthorEnds
<1>4. ProblemOK(row)'
  BY <1>2, ProblemStays
<1>5. RowsInv'
  BY <1>1, <1>2, <1>4, ProblemWritten
<1> QED BY <1>2, <1>3, <1>5, AuthorStepDone

\* The other ends of a request.
LEMMA AuthorEndStep ==
  ASSUME IInv, NEW a \in Authors, UNCHANGED postVars,
         \/ UpdateProblemTitle(a) \/ DeleteProblem(a) \/ RequestFails(a)
         \/ \E compile \in BOOLEAN : RebuildProblem(a, compile)
  PROVE  IInv' /\ FilesGrow
<1>1. FilesTypeOK /\ RowsInv /\ AuthorInv(a)
  BY DEF IInv
<1>2. problem \in ProblemRow /\ ProblemOK(problem)
  BY <1>1 DEF FilesTypeOK, RowsInv
<1>3. CASE UpdateProblemTitle(a)
  <2>1. PICK row : row = author[a].row
    OBVIOUS
  <2>2. row \in ProblemRow /\ ProblemOK(row)
    BY <1>1, <2>1 DEF AuthorInv, FilesTypeOK, AuthorState
  <2>3. /\ AuthorAt(a, NoRequest) /\ UNCHANGED file /\ problem' = row
        /\ resource' \subseteq resource /\ UNCHANGED <<resources, builder, reader>>
    BY <1>3, <2>1 DEF UpdateProblemTitle, Commits, fileVars
  <2> QED BY <2>2, <2>3, AuthorWrites
<1>4. CASE DeleteProblem(a)
  <2>1. PICK row : row = [NoProblem EXCEPT !.status = "deleted"]
    OBVIOUS
  <2>2. row \in ProblemRow /\ row.package = 0 /\ row.compiled = 0 /\ row.status = "deleted"
    BY <2>1, NoProblemOK DEF ProblemRow
  <2>3. ProblemOK(row)
    BY <2>2 DEF ProblemOK
  <2>4. /\ AuthorAt(a, NoRequest) /\ UNCHANGED file /\ problem' = row
        /\ resource' \subseteq resource /\ UNCHANGED <<resources, builder, reader>>
    BY <1>4, <2>1 DEF DeleteProblem, Commits, fileVars
  <2> QED BY <2>2, <2>3, <2>4, AuthorWrites
<1>5. PICK row : row = problem
  OBVIOUS
<1>6. CASE RequestFails(a)
  <2>1. /\ AuthorAt(a, NoRequest) /\ UNCHANGED file /\ problem' = row
        /\ resource' \subseteq resource /\ UNCHANGED <<resources, builder, reader>>
    BY <1>5, <1>6 DEF RequestFails
  <2> QED BY <1>2, <1>5, <2>1, AuthorWrites
<1>7. CASE \E compile \in BOOLEAN : RebuildProblem(a, compile)
  <2>1. /\ AuthorAt(a, NoRequest) /\ UNCHANGED file /\ problem' = row
        /\ resource' \subseteq resource /\ UNCHANGED <<resources, builder, reader>>
    BY <1>5, <1>7 DEF RebuildProblem, Commits, fileVars
  <2> QED BY <1>2, <1>5, <2>1, AuthorWrites
<1> QED BY <1>3, <1>4, <1>6, <1>7

--------------------------------------------------------------------------------
(* Requests for posts and compilers *)

\* What a step of a request has to show.
LEMMA PosterStepDone ==
  ASSUME IInv, NEW p \in Posters, \A c \in Posters \ {p} : poster'[c] = poster[c],
         poster' \in [Posters -> PosterState], PosterInv(p)', StepOf(<<"poster", p>>),
         file' \in [Files -> FileRow], AvailableIsWhole', FilesGrow, RowsInv',
         post' \in PostRow, compiler' \in CompilerRow, postFile' \subseteq PostFileRow,
         postFiles' \in Nat, postRequests' \in Nat, UNCHANGED reader, UNCHANGED packageVars
  PROVE  IInv' /\ FilesGrow
<1>1. /\ author' = author /\ builder' = builder /\ problem' = problem /\ resource' = resource
      /\ resources' = resources
  BY DEF packageVars
<1>2. FilesTypeOK'
  BY <1>1 DEF FilesTypeOK, IInv
<1>3. /\ OwnerInv' /\ \A a \in Authors : AuthorInv(a)'
      /\ \A b \in Builders : BuilderInv(b)'
      /\ \A c \in Posters \ {p} : PosterInv(c)'
      /\ \A r \in Readers : ReaderInv(r)'
  BY <1>1, PosterMoves
<1> QED BY <1>1, <1>2, <1>3 DEF IInv

\* No request.
LEMMA NoPostingOK ==
  /\ NoPosting \in PosterState /\ NoPosting.pc = "idle" /\ NoPosting.op = "none"
  /\ NoPosting.names = <<>> /\ NoPosting.files = <<>>
<1>1. NoPost \in PostRow
  BY DEF NoPost, PostRow, PostStatuses
<1>2. NoPost \in PostRow \cup CompilerRow
  BY <1>1
<1>3. <<>> \in Seq(FormNamesOf) /\ <<>> \in Seq(Files) /\ {} \in SUBSET Nat
  OBVIOUS
<1>4. "none" \in PostOps \cup CompilerOps \cup {"none"}
  OBVIOUS
<1> QED BY <1>2, <1>3, <1>4 DEF NoPosting, PosterState

\* A request that is over.
LEMMA PosterEnds ==
  ASSUME FilesTypeOK, NEW p \in Posters, PosterAt(p, NoPosting),
         \A f \in Files : file'[f].blob = file[f].blob,
         \A f \in Files : file'[f].status # file[f].status =>
            \E i \in 1..Len(poster[p].files) : poster[p].files[i] = f
  PROVE  /\ poster' \in [Posters -> PosterState] /\ \A c \in Posters \ {p} : poster'[c] = poster[c]
         /\ PosterInv(p)' /\ StepOf(<<"poster", p>>)
<1>1. poster' \in [Posters -> PosterState] /\ poster'[p] = NoPosting
      /\ \A c \in Posters \ {p} : poster'[c] = poster[c]
  BY NoPostingOK DEF PosterAt, FilesTypeOK
<1>2. PosterInv(p)'
  BY <1>1, NoPostingOK DEF PosterInv, PostOps, CompilerOps
<1>3. StepOf(<<"poster", p>>)
  <2>1. \A f \in Files : ~Holds(<<"poster", p>>, f)' /\ ~WritesTo(<<"poster", p>>, f)'
    BY <1>1, NoPostingOK DEF Holds, WritesTo
  <2>2. \A f \in Files : (\E i \in 1..Len(poster[p].files) : poster[p].files[i] = f)
                            => Holds(<<"poster", p>>, f)
    BY DEF Holds
  <2> QED BY <2>1, <2>2 DEF StepOf
<1> QED BY <1>1, <1>2, <1>3

\* What a request may start with.
BeginOK(op, row, names, deletes) ==
    /\ op \in PostOps \cup CompilerOps /\ names \in Seq(FormNamesOf) /\ deletes \in SUBSET Nat
    /\ op \in PostOps => row \in PostRow /\ names \in Seq(PostNames)
    /\ op \in CompilerOps => row \in CompilerRow /\ CompilerOK(row)
    /\ op = "create compiler" => Len(names) = 1

\* A request starts.
LEMMA BeginStep ==
  ASSUME IInv, NEW p \in Posters, NEW op, NEW row, NEW names, NEW deletes,
         Begin(p, op, row, names, deletes), BeginOK(op, row, names, deletes),
         UNCHANGED packageVars
  PROVE  IInv' /\ FilesGrow
<1>1. /\ UNCHANGED file /\ UNCHANGED reader /\ UNCHANGED <<post, postFile, postFiles, compiler>>
      /\ postRequests' = postRequests + 1
  BY DEF Begin, fileVars
<1>2. FilesTypeOK /\ RowsInv /\ AvailableIsWhole
  BY DEF IInv
<1>3. file' \in [Files -> FileRow] /\ AvailableIsWhole' /\ FilesGrow
  BY <1>1, <1>2, FilesStay
<1>4. RowsInv'
  BY <1>1, <1>2, <1>3, RowsStay DEF packageVars
<1>5. PICK v : v = [pc |-> "upload", op |-> op, row |-> row, names |-> names,
                    deletes |-> deletes, files |-> <<>>]
  OBVIOUS
<1>6. PosterAt(p, v)
  BY <1>5 DEF Begin
<1>7. /\ v \in PosterState /\ v.pc = "upload" /\ v.op = op /\ v.row = row /\ v.names = names
      /\ v.files = <<>>
  <2>1. op \in PostOps \cup CompilerOps \cup {"none"} /\ row \in PostRow \cup CompilerRow
        /\ names \in Seq(FormNamesOf) /\ deletes \in SUBSET Nat
    BY DEF BeginOK
  <2>2. <<>> \in Seq(Files)
    OBVIOUS
  <2> QED BY <1>5, <2>1, <2>2 DEF PosterState
<1>8. poster' \in [Posters -> PosterState] /\ poster'[p] = v
      /\ \A c \in Posters \ {p} : poster'[c] = poster[c]
  BY <1>2, <1>6, <1>7 DEF PosterAt, FilesTypeOK
<1>9. PosterInv(p)'
  <2>1. op \in CompilerOps => CompilerOK(row)'
    BY <1>3, CompilerStays DEF BeginOK
  <2>2. /\ names \in Seq(FormNamesOf)
        /\ op \in PostOps => row \in PostRow /\ names \in Seq(PostNames)
        /\ op \in CompilerOps => row \in CompilerRow
        /\ op = "create compiler" => Len(names) = 1
    BY DEF BeginOK
  <2>3. Len(names) \in Nat
    <3>1. names \in Seq(FormNamesOf)
      BY DEF BeginOK
    <3> QED BY <3>1
  <2>4. Len(v.files) = 0
    BY <1>7
  <2>5. Len(v.files) <= Len(names) /\ 1..Len(v.files) = {}
    BY <2>3, <2>4
  <2> QED BY <1>7, <1>8, <2>1, <2>2, <2>5 DEF PosterInv
<1>10. StepOf(<<"poster", p>>)
  <2>1. \A f \in Files : ~Holds(<<"poster", p>>, f)' /\ ~WritesTo(<<"poster", p>>, f)'
    BY <1>7, <1>8 DEF Holds, WritesTo
  <2> QED BY <1>1, <2>1 DEF StepOf
<1>11. /\ post' \in PostRow /\ compiler' \in CompilerRow /\ postFile' \subseteq PostFileRow
       /\ postFiles' \in Nat /\ postRequests' \in Nat
  BY <1>1, <1>2 DEF FilesTypeOK
<1> QED BY <1>1, <1>3, <1>4, <1>8, <1>9, <1>10, <1>11, PosterStepDone

\* The names of a form.
LEMMA FormNamesType == FormNames \subseteq Seq(PostNames)
<1> SUFFICES ASSUME NEW s \in FormNames PROVE s \in Seq(PostNames)
  OBVIOUS
<1>1. CASE s = <<>>
  BY <1>1
<1>2. CASE s \in {<<n>> : n \in PostNames}
  <2>1. PICK n \in PostNames : s = <<n>>
    BY <1>2
  <2> QED BY <2>1
<1>3. CASE s \in PostNames \X PostNames
  <2>1. PICK m \in PostNames, n \in PostNames : s = <<m, n>>
    BY <1>3
  <2> QED BY <2>1
<1> QED BY <1>1, <1>2, <1>3 DEF FormNames

\* Forms of posts and of compilers.
LEMMA Forms ==
  /\ \A s \in Seq(PostNames) : s \in Seq(FormNamesOf)
  /\ <<>> \in Seq(PostNames) /\ <<"image">> \in Seq(FormNamesOf) /\ Len(<<"image">>) = 1
  /\ \A op \in PostOps : op \notin CompilerOps /\ op # "create compiler"
<1>1. \A s \in Seq(PostNames) : s \in Seq(FormNamesOf)
  BY DEF FormNamesOf
<1>2. "image" \in FormNamesOf
  BY DEF FormNamesOf
<1>3. \A op \in PostOps : op \notin CompilerOps /\ op # "create compiler"
  BY DEF PostOps, CompilerOps
<1>4. <<"image">> \in Seq(FormNamesOf)
  BY <1>2
<1>5. Len(<<"image">>) = 1
  OBVIOUS
<1>6. <<>> \in Seq(PostNames)
  OBVIOUS
<1> QED BY <1>1, <1>3, <1>4, <1>5, <1>6

\* The number of a request.
LEMMA NextRequest ==
  ASSUME FilesTypeOK
  PROVE  postRequests + 1 \in Nat /\ 0 \in Nat /\ post.published \in Nat
BY DEF FilesTypeOK, PostRow

\* The requests that may start.
Begins(p) ==
    \/ \E publish \in BOOLEAN, names \in FormNames : BeginCreatePost(p, publish, names)
    \/ \E publish \in {"keep", "no", "yes"}, names \in FormNames,
          deletes \in SUBSET {r.id : r \in postFile} : BeginUpdatePost(p, publish, names, deletes)
    \/ BeginDeletePost(p)
    \/ \E op \in {"create compiler", "update compiler"} : BeginCompiler(p, op, <<"image">>)
    \/ \E op \in {"update compiler", "delete compiler"} : BeginCompiler(p, op, <<>>)

\* Every request starts with what it may.
LEMMA BeginSteps ==
  ASSUME IInv, NEW p \in Posters, UNCHANGED packageVars, Begins(p)
  PROVE  IInv' /\ FilesGrow
<1>1. FilesTypeOK /\ RowsInv
  BY DEF IInv
<1>2. post \in PostRow /\ compiler \in CompilerRow /\ CompilerOK(compiler) /\ postRequests \in Nat
  BY <1>1 DEF FilesTypeOK, RowsInv
<1>4. CASE \E publish \in BOOLEAN, names \in FormNames : BeginCreatePost(p, publish, names)
  <2>1. PICK names \in FormNames, published \in Nat :
          Begin(p, "create post", [status |-> "exists", published |-> published], names, {})
    <3>1. postRequests + 1 \in Nat /\ 0 \in Nat
      BY <1>1, NextRequest
    <3> QED BY <1>4, <3>1 DEF BeginCreatePost
  <2>2. PICK row : row = [status |-> "exists", published |-> published]
    OBVIOUS
  <2>3. row \in PostRow
    BY <2>2 DEF PostRow, PostStatuses
  <2>4. Begin(p, "create post", row, names, {})
    BY <2>1, <2>2
  <2>5. BeginOK("create post", row, names, {})
    BY Forms, <2>3, FormNamesType DEF BeginOK, PostOps
  <2> QED BY <2>4, <2>5, BeginStep
<1>5. CASE \E publish \in {"keep", "no", "yes"}, names \in FormNames,
              deletes \in SUBSET {r.id : r \in postFile} :
                BeginUpdatePost(p, publish, names, deletes)
  <2>1. PICK names \in FormNames, deletes \in SUBSET {r.id : r \in postFile}, published \in Nat :
          Begin(p, "update post", [post EXCEPT !.published = published], names, deletes)
    <3>1. postRequests + 1 \in Nat /\ 0 \in Nat /\ post.published \in Nat
      BY <1>1, NextRequest
    <3> QED BY <1>5, <3>1 DEF BeginUpdatePost
  <2>2. PICK row : row = [post EXCEPT !.published = published]
    OBVIOUS
  <2>3. row \in PostRow
    BY <1>2, <2>2 DEF PostRow
  <2>4. Begin(p, "update post", row, names, deletes)
    BY <2>1, <2>2
  <2>5. deletes \in SUBSET Nat
    <3>1. \A r \in postFile : r.id \in Nat
      BY <1>1 DEF FilesTypeOK, PostFileRow
    <3> QED BY <3>1
  <2>6. BeginOK("update post", row, names, deletes)
    BY Forms, <2>3, <2>5, FormNamesType DEF BeginOK, PostOps
  <2> QED BY <2>4, <2>6, BeginStep
<1>6. CASE BeginDeletePost(p)
  <2>1. PICK row : row = post
    OBVIOUS
  <2>2. Begin(p, "delete post", row, <<>>, {})
    BY <1>6, <2>1 DEF BeginDeletePost
  <2>3. BeginOK("delete post", row, <<>>, {})
    BY <1>2, <2>1, Forms DEF BeginOK, PostOps
  <2> QED BY <2>2, <2>3, BeginStep
<1>7. PICK row : row = compiler
  OBVIOUS
<1>8. CASE \E op \in {"create compiler", "update compiler"} : BeginCompiler(p, op, <<"image">>)
  <2>1. PICK op \in {"create compiler", "update compiler"} : Begin(p, op, row, <<"image">>, {})
    BY <1>7, <1>8 DEF BeginCompiler
  <2>2. op \in CompilerOps /\ op \notin PostOps
    BY DEF PostOps, CompilerOps
  <2>3. PICK names : names = <<"image">>
    OBVIOUS
  <2>4. names \in Seq(FormNamesOf) /\ Len(names) = 1
    BY <2>3, Forms
  <2>5. BeginOK(op, row, names, {})
    BY <1>2, <1>7, <2>2, <2>4 DEF BeginOK
  <2>6. Begin(p, op, row, names, {})
    BY <2>1, <2>3
  <2> QED BY <2>5, <2>6, BeginStep
<1>9. CASE \E op \in {"update compiler", "delete compiler"} : BeginCompiler(p, op, <<>>)
  <2>1. PICK op \in {"update compiler", "delete compiler"} : Begin(p, op, row, <<>>, {})
    BY <1>7, <1>9 DEF BeginCompiler
  <2>2. op \in CompilerOps /\ op \notin PostOps /\ op # "create compiler"
    BY DEF PostOps, CompilerOps
  <2>3. BeginOK(op, row, <<>>, {})
    BY <1>2, <1>7, <2>2, Forms DEF BeginOK
  <2> QED BY <2>1, <2>3, BeginStep
<1> QED BY <1>4, <1>5, <1>6, <1>8, <1>9 DEF Begins

\* A request creates the row of its next file.
LEMMA PostUploadRowStep ==
  ASSUME IInv, NEW p \in Posters, PostUploadRow(p), UNCHANGED packageVars
  PROVE  IInv' /\ FilesGrow
<1>1. /\ poster[p].pc = "upload" /\ Len(poster[p].files) < Len(poster[p].names) /\ CreateFile
      /\ UNCHANGED <<post, postFile, postFiles, compiler, reader, postRequests>>
  BY DEF PostUploadRow
<1>2. FilesTypeOK /\ RowsInv /\ AvailableIsWhole /\ PosterInv(p) /\ OwnerInv
  BY DEF IInv
<1>3. PICK g : g = NewFile
  OBVIOUS
<1>4. /\ file' \in [Files -> FileRow] /\ AvailableIsWhole' /\ FilesGrow
      /\ g \in Files /\ file[g].status = "none" /\ file'[g].status = "pending"
      /\ \A f \in Files \ {g} : file'[f] = file[f]
  BY <1>1, <1>2, <1>3, CreateFileStep
<1>5. RowsInv'
  BY <1>1, <1>2, <1>4, RowsStay DEF packageVars
<1>6. PICK q \in PosterState : q = poster[p]
  BY <1>2 DEF FilesTypeOK
<1>7. PICK fs : fs = Append(q.files, g)
  OBVIOUS
<1>8. q.files \in Seq(Files) /\ q.names \in Seq(FormNamesOf)
  BY <1>6 DEF PosterState
<1>9. /\ fs \in Seq(Files) /\ Len(fs) = Len(q.files) + 1 /\ fs[Len(fs)] = g
      /\ \A i \in 1..Len(q.files) : fs[i] = q.files[i] /\ i # Len(fs)
      /\ Len(q.files) \in Nat /\ Len(q.names) \in Nat /\ Len(fs) <= Len(q.names) /\ fs # <<>>
      /\ \A i \in 1..Len(fs) : i # Len(fs) => i \in 1..Len(q.files)
  BY SMTT(30), <1>1, <1>4, <1>6, <1>7, <1>8
<1>10. PICK v : v = [q EXCEPT !.pc = "write", !.files = fs]
  OBVIOUS
<1>11. /\ v \in PosterState /\ v.pc = "write" /\ v.files = fs /\ v.row = q.row /\ v.op = q.op
       /\ v.names = q.names
  BY <1>6, <1>9, <1>10 DEF PosterState
<1>12. PosterAt(p, v)
  BY <1>3, <1>6, <1>7, <1>10 DEF PostUploadRow
<1>13. poster' \in [Posters -> PosterState] /\ poster'[p] = v
       /\ \A c \in Posters \ {p} : poster'[c] = poster[c]
  BY <1>2, <1>11, <1>12 DEF PosterAt, FilesTypeOK
<1>14. \A i \in 1..Len(q.files) :
         /\ q.files[i] \in Files /\ file[q.files[i]].blob # Nothing /\ q.files[i] # g
  <2> SUFFICES ASSUME NEW i \in 1..Len(q.files)
               PROVE  q.files[i] \in Files /\ file[q.files[i]].blob # Nothing /\ q.files[i] # g
    OBVIOUS
  <2>1. q.files[i] \in Files
    BY <1>8
  <2>2. file[q.files[i]].blob # Nothing
    BY <1>1, <1>2, <1>6 DEF PosterInv
  <2>3. Holds(<<"poster", p>>, q.files[i]) /\ <<"poster", p>> \in Actors
    BY <1>6 DEF Holds, Actors
  <2>4. file[q.files[i]].status # "none"
    BY <1>2, <2>1, <2>3 DEF OwnerInv
  <2> QED BY <1>4, <2>1, <2>2, <2>4
<1>15. PosterInv(p)'
  <2>1. PICK row : row = q.row
    OBVIOUS
  <2>2. CompilerOK(row) => CompilerOK(row)'
    BY <1>4, CompilerStays
  <2>3. \A i \in 1..Len(fs) : i # Len(fs) => file'[fs[i]].blob # Nothing
    <3> SUFFICES ASSUME NEW i \in 1..Len(fs), i # Len(fs) PROVE file'[fs[i]].blob # Nothing
      OBVIOUS
    <3>1. i \in 1..Len(q.files)
      BY <1>9
    <3>2. fs[i] \in Files /\ file[fs[i]].blob # Nothing /\ fs[i] # g
      BY <1>9, <1>14, <3>1
    <3> QED BY <1>4, <3>2
  <2>4. /\ q.op \in PostOps => row \in PostRow /\ q.names \in Seq(PostNames)
        /\ q.op \in CompilerOps => row \in CompilerRow /\ CompilerOK(row)
        /\ q.op = "create compiler" => Len(q.names) = 1
    BY <1>2, <1>6, <2>1 DEF PosterInv
  <2>5. /\ Len(v.files) <= Len(v.names) /\ v.files # <<>> /\ v.row = row
        /\ \A i \in 1..Len(v.files) :
             ~(v.pc = "write" /\ i = Len(v.files)) => file'[v.files[i]].blob # Nothing
    BY <1>9, <1>11, <2>1, <2>3
  <2> QED BY <1>11, <1>13, <2>2, <2>4, <2>5 DEF PosterInv
<1>16. StepOf(<<"poster", p>>)
  <2>1. \A f \in Files : Holds(<<"poster", p>>, f)' => f = g \/ Holds(<<"poster", p>>, f)
    BY <1>6, <1>9, <1>11, <1>13 DEF Holds
  <2>2. \A f \in Files : WritesTo(<<"poster", p>>, f)' => f = g
    BY <1>9, <1>11, <1>13 DEF WritesTo
  <2>3. \A f \in Files : Holds(<<"poster", p>>, f) => file[f].status # "none"
    BY <1>2 DEF OwnerInv, Actors
  <2> QED BY <1>4, <2>1, <2>2, <2>3 DEF StepOf
<1>17. /\ post' \in PostRow /\ compiler' \in CompilerRow /\ postFile' \subseteq PostFileRow
       /\ postFiles' \in Nat /\ postRequests' \in Nat /\ UNCHANGED reader
  BY <1>1, <1>2 DEF FilesTypeOK
<1> QED BY <1>4, <1>5, <1>13, <1>15, <1>16, <1>17, PosterStepDone

\* A request writes the content of its file.
LEMMA PostUploadContentStep ==
  ASSUME IInv, NEW p \in Posters, PostUploadContent(p), UNCHANGED packageVars
  PROVE  IInv' /\ FilesGrow
<1>1. /\ poster[p].pc = "write"
      /\ UNCHANGED <<post, postFile, postFiles, compiler, reader, postRequests>>
  BY DEF PostUploadContent
<1>2. FilesTypeOK /\ RowsInv /\ AvailableIsWhole /\ PosterInv(p) /\ OwnerInv
  BY DEF IInv
<1>3. PICK q \in PosterState : q = poster[p]
  BY <1>2 DEF FilesTypeOK
<1>4. q.files \in Seq(Files) /\ q.names \in Seq(FormNamesOf)
  BY <1>3 DEF PosterState
<1>5. q.files # <<>> /\ Len(q.files) <= Len(q.names)
  BY <1>1, <1>2, <1>3 DEF PosterInv
<1>6. Len(q.files) \in 1..Len(q.names) /\ Len(q.files) \in 1..Len(q.files)
  BY <1>4, <1>5
<1>7. PICK f \in Files : f = q.files[Len(q.files)]
  BY <1>4, <1>6
<1>8. PICK content : content = Content("post", q.names[Len(q.files)])
  OBVIOUS
<1>9. content \in Blob /\ content # Nothing
  <2>1. q.names[Len(q.files)] \in FormNamesOf
    BY <1>4, <1>6
  <2>2. content \in Blob
    BY <1>8, <2>1 DEF Content, Blob
  <2> QED BY <1>8, <2>2, ContentIsThere
<1>10. /\ WritesTo(<<"poster", p>>, f) /\ <<"poster", p>> \in Actors
       /\ Holds(<<"poster", p>>, f)
  BY <1>1, <1>3, <1>6, <1>7 DEF WritesTo, Holds, Actors
<1>11. file[f].status = "pending"
  BY <1>2, <1>10 DEF OwnerInv
<1>12. WriteFile(f, content)
  BY <1>3, <1>7, <1>8 DEF PostUploadContent, Last
<1>13. /\ file' \in [Files -> FileRow] /\ AvailableIsWhole' /\ FilesGrow
       /\ file'[f].status = "pending" /\ file'[f].blob = content
       /\ \A g \in Files \ {f} : file'[g] = file[g]
  BY <1>2, <1>9, <1>11, <1>12, WriteFileStep
<1>14. RowsInv'
  BY <1>1, <1>2, <1>13, RowsStay DEF packageVars
<1>15. PICK v : v = [q EXCEPT !.pc = "upload"]
  OBVIOUS
<1>16. /\ v \in PosterState /\ v.pc = "upload" /\ v.files = q.files /\ v.row = q.row /\ v.op = q.op
       /\ v.names = q.names
  BY <1>3, <1>15 DEF PosterState
<1>17. PosterAt(p, v)
  BY <1>3, <1>15 DEF PostUploadContent
<1>18. poster' \in [Posters -> PosterState] /\ poster'[p] = v
       /\ \A c \in Posters \ {p} : poster'[c] = poster[c]
  BY <1>2, <1>16, <1>17 DEF PosterAt, FilesTypeOK
<1>19. PosterInv(p)'
  <2>1. PICK row : row = q.row
    OBVIOUS
  <2>2. CompilerOK(row) => CompilerOK(row)'
    BY <1>13, CompilerStays
  <2>3. \A i \in 1..Len(q.files) : file'[q.files[i]].blob # Nothing
    <3> SUFFICES ASSUME NEW i \in 1..Len(q.files) PROVE file'[q.files[i]].blob # Nothing
      OBVIOUS
    <3>1. q.files[i] \in Files
      BY <1>4
    <3>2. i # Len(q.files) => file[q.files[i]].blob # Nothing
      BY <1>2, <1>3 DEF PosterInv
    <3> QED BY <1>7, <1>9, <1>13, <3>1, <3>2
  <2>4. /\ q.op \in PostOps => row \in PostRow /\ q.names \in Seq(PostNames)
        /\ q.op \in CompilerOps => row \in CompilerRow /\ CompilerOK(row)
        /\ q.op = "create compiler" => Len(q.names) = 1
    BY <1>2, <1>3, <2>1 DEF PosterInv
  <2>5. Len(v.files) <= Len(v.names) /\ v.row = row
        /\ \A i \in 1..Len(v.files) : file'[v.files[i]].blob # Nothing
    BY <1>5, <1>16, <2>1, <2>3
  <2> QED BY <1>16, <1>18, <2>2, <2>4, <2>5 DEF PosterInv
<1>20. StepOf(<<"poster", p>>)
  <2>1. \A g \in Files : (Holds(<<"poster", p>>, g)' => Holds(<<"poster", p>>, g))
                         /\ ~WritesTo(<<"poster", p>>, g)'
    BY <1>3, <1>16, <1>18 DEF Holds, WritesTo
  <2>2. \A g \in Files : Holds(<<"poster", p>>, g) => file[g].status # "none"
    BY <1>2 DEF OwnerInv, Actors
  <2> QED BY <1>10, <1>11, <1>13, <2>1, <2>2 DEF StepOf
<1>21. /\ post' \in PostRow /\ compiler' \in CompilerRow /\ postFile' \subseteq PostFileRow
       /\ postFiles' \in Nat /\ postRequests' \in Nat /\ UNCHANGED reader
  BY <1>1, <1>2 DEF FilesTypeOK
<1> QED BY <1>13, <1>14, <1>18, <1>19, <1>20, <1>21, PosterStepDone

\* A transaction confirms the files of its request.
LEMMA PosterConfirms ==
  ASSUME IInv, NEW p \in Posters, poster[p].pc = "upload", PosterAt(p, NoPosting),
         ConfirmUploadFiles(ToSet(poster[p].files))
  PROVE  /\ file' \in [Files -> FileRow] /\ AvailableIsWhole' /\ FilesGrow
         /\ \A i \in 1..Len(poster[p].files) :
              poster[p].files[i] \in Files /\ file'[poster[p].files[i]].status = "available"
         /\ poster' \in [Posters -> PosterState] /\ \A c \in Posters \ {p} : poster'[c] = poster[c]
         /\ PosterInv(p)' /\ StepOf(<<"poster", p>>)
<1>1. FilesTypeOK /\ AvailableIsWhole /\ PosterInv(p)
  BY DEF IInv
<1>2. poster[p].files \in Seq(Files)
  BY <1>1 DEF FilesTypeOK, PosterState
<1>3. PICK fs : fs = ToSet(poster[p].files)
  OBVIOUS
<1>4. fs = {poster[p].files[i] : i \in 1..Len(poster[p].files)}
  BY <1>2, <1>3, MembersOf
<1>5. \A i \in 1..Len(poster[p].files) :
         poster[p].files[i] \in Files /\ file[poster[p].files[i]].blob # Nothing
  <2>1. \A i \in 1..Len(poster[p].files) : poster[p].files[i] \in Files
    BY <1>2
  <2>2. \A i \in 1..Len(poster[p].files) : file[poster[p].files[i]].blob # Nothing
    BY <1>1 DEF PosterInv
  <2> QED BY <2>1, <2>2
<1>6. fs \subseteq Files /\ (\A f \in fs : file[f].blob # Nothing) /\ ConfirmUploadFiles(fs)
  BY <1>3, <1>4, <1>5
<1>7. /\ file' \in [Files -> FileRow] /\ AvailableIsWhole' /\ FilesGrow
      /\ \A f \in fs : file'[f].status = "available"
      /\ \A f \in Files : file'[f].blob = file[f].blob
      /\ \A f \in Files \ fs : file'[f] = file[f]
  BY <1>1, <1>6, ConfirmStep
<1>8. \A i \in 1..Len(poster[p].files) :
         poster[p].files[i] \in Files /\ file'[poster[p].files[i]].status = "available"
  BY <1>4, <1>5, <1>7
<1>10. \A f \in Files : file'[f].status # file[f].status =>
          \E i \in 1..Len(poster[p].files) : poster[p].files[i] = f
  BY <1>4, <1>7
<1>11. /\ poster' \in [Posters -> PosterState] /\ \A c \in Posters \ {p} : poster'[c] = poster[c]
       /\ PosterInv(p)' /\ StepOf(<<"poster", p>>)
  BY <1>1, <1>7, <1>10, PosterEnds
<1> QED BY <1>7, <1>8, <1>11

\* Rows, when a post or a compiler is written.
LEMMA PostRowsWritten ==
  ASSUME FilesTypeOK, RowsInv, FilesGrow, NEW row, compiler' = row, CompilerOK(row)',
         \A r \in postFile' : r \in postFile \/ Available(r.file)', UNCHANGED packageVars
  PROVE  RowsInv'
<1>1. ProblemOK(problem)'
  <2>1. PICK x : x = problem
    OBVIOUS
  <2>2. ProblemOK(x)'
    BY <2>1, ProblemStays DEF RowsInv
  <2> QED BY <2>1, <2>2 DEF packageVars
<1>2. CompilerOK(compiler)'
  OBVIOUS
<1>3. \A r \in resource' : ResourceOK(r)'
  <2> SUFFICES ASSUME NEW r \in resource PROVE ResourceOK(r)'
    BY DEF packageVars
  <2>1. r \in ResourceRow /\ ResourceOK(r) /\ resources \in Nat /\ resources' = resources
    BY DEF FilesTypeOK, RowsInv, packageVars
  <2>2. resources' \in Nat /\ resources <= resources'
    BY <2>1
  <2> QED BY <2>1, <2>2, ResourceStays
<1>4. \A r \in postFile' : Available(r.file)'
  BY AvailableStays DEF RowsInv
<1> QED BY <1>1, <1>2, <1>3, <1>4 DEF RowsInv

\* The post and its files are written.
LEMMA CommitPostStep ==
  ASSUME IInv, NEW p \in Posters, CreatePost(p) \/ UpdatePost(p), UNCHANGED packageVars
  PROVE  IInv' /\ FilesGrow
<1>1. /\ poster[p].pc = "upload" /\ poster[p].op \in PostOps
      /\ Len(poster[p].files) = Len(poster[p].names)
      /\ CommitPost(p)
  BY DEF CreatePost, UpdatePost, Uploaded, PostOps
<1>2. /\ post' = poster[p].row /\ postFile' = Kept(p) \cup Inserted(p)
      /\ postFiles' = postFiles + Len(poster[p].names)
      /\ ConfirmUploadFiles(ToSet(poster[p].files))
      /\ PosterAt(p, NoPosting) /\ UNCHANGED <<compiler, reader, postRequests>>
  BY <1>1 DEF CommitPost
<1>3. FilesTypeOK /\ RowsInv /\ PosterInv(p)
  BY DEF IInv
<1>4. /\ file' \in [Files -> FileRow] /\ AvailableIsWhole' /\ FilesGrow
      /\ \A i \in 1..Len(poster[p].files) :
           poster[p].files[i] \in Files /\ file'[poster[p].files[i]].status = "available"
      /\ poster' \in [Posters -> PosterState] /\ \A c \in Posters \ {p} : poster'[c] = poster[c]
      /\ PosterInv(p)' /\ StepOf(<<"poster", p>>)
  BY <1>1, <1>2, PosterConfirms
<1>5. /\ poster[p].names \in Seq(PostNames) /\ poster[p].files \in Seq(Files)
      /\ postFiles \in Nat
  BY <1>1, <1>3 DEF PosterInv, FilesTypeOK, PosterState
<1>6. ASSUME NEW r \in postFile' PROVE r \in PostFileRow /\ (r \in postFile \/ Available(r.file)')
  <2>1. CASE r \in Kept(p)
    BY <1>3, <2>1 DEF Kept, FilesTypeOK
  <2>2. CASE r \in Inserted(p)
    <3>1. PICK i \in DOMAIN poster[p].names :
            r = [id |-> postFiles + i, name |-> poster[p].names[i], file |-> poster[p].files[i]]
      BY <2>2 DEF Inserted
    <3>2. i \in 1..Len(poster[p].names) /\ i \in 1..Len(poster[p].files)
      BY <1>1, <1>5, <3>1
    <3>3. /\ postFiles + i \in Nat /\ poster[p].names[i] \in PostNames
          /\ poster[p].files[i] \in Files
      BY <1>5, <3>2
    <3>4. r \in PostFileRow /\ r.file = poster[p].files[i]
      BY <3>1, <3>3 DEF PostFileRow
    <3>5. r.file \in Files /\ file'[r.file].status = "available"
      BY <1>4, <3>2, <3>4
    <3> QED BY <3>4, <3>5 DEF Available
  <2> QED BY <1>2, <2>1, <2>2
<1>7. PICK row : row = compiler
  OBVIOUS
<1>8. CompilerOK(row)'
  BY <1>3, <1>4, <1>7, CompilerStays DEF RowsInv
<1>9. RowsInv'
  BY <1>2, <1>3, <1>4, <1>6, <1>7, <1>8, PostRowsWritten
<1>10. /\ post' \in PostRow /\ compiler' \in CompilerRow /\ postFile' \subseteq PostFileRow
       /\ postFiles' \in Nat /\ postRequests' \in Nat /\ UNCHANGED reader
  <2>1. poster[p].row \in PostRow
    BY <1>1, <1>3 DEF PosterInv
  <2>2. Len(poster[p].names) \in Nat
    BY <1>5
  <2>3. postFiles' \in Nat
    BY <1>2, <1>5, <2>2
  <2> QED BY <1>2, <1>3, <1>6, <2>1, <2>3 DEF FilesTypeOK
<1> QED BY <1>4, <1>9, <1>10, PosterStepDone


\* The compiler is written.
LEMMA SetCompilerStep ==
  ASSUME IInv, NEW p \in Posters, poster[p].pc = "upload", NEW c \in CompilerRow,
         c.image # 0 => \/ Available(c.image)
                        \/ \E i \in 1..Len(poster[p].files) : c.image = poster[p].files[i],
         SetCompiler(p, c), UNCHANGED packageVars
  PROVE  IInv' /\ FilesGrow
<1>1. /\ compiler' = c /\ ConfirmUploadFiles(ToSet(poster[p].files)) /\ PosterAt(p, NoPosting)
      /\ UNCHANGED <<post, postFile, postFiles, reader, postRequests>>
  BY DEF SetCompiler
<1>2. FilesTypeOK /\ RowsInv
  BY DEF IInv
<1>3. /\ file' \in [Files -> FileRow] /\ AvailableIsWhole' /\ FilesGrow
      /\ \A i \in 1..Len(poster[p].files) :
           poster[p].files[i] \in Files /\ file'[poster[p].files[i]].status = "available"
      /\ poster' \in [Posters -> PosterState] /\ \A q \in Posters \ {p} : poster'[q] = poster[q]
      /\ PosterInv(p)' /\ StepOf(<<"poster", p>>)
  BY <1>1, PosterConfirms
<1>4. CompilerOK(c)'
  <2>1. CASE c.image = 0
    BY <2>1 DEF CompilerOK
  <2>2. CASE Available(c.image)
    BY <1>3, <2>2, CompilerStays DEF CompilerOK
  <2>3. CASE \E i \in 1..Len(poster[p].files) : c.image = poster[p].files[i]
    <3>1. c.image \in Files /\ file'[c.image].status = "available"
      BY <1>3, <2>3
    <3> QED BY <3>1 DEF CompilerOK, Available
  <2> QED BY <2>1, <2>2, <2>3
<1>5. \A r \in postFile' : r \in postFile
  BY <1>1
<1>6. RowsInv'
  BY <1>1, <1>2, <1>3, <1>4, <1>5, PostRowsWritten
<1>7. /\ post' \in PostRow /\ compiler' \in CompilerRow /\ postFile' \subseteq PostFileRow
      /\ postFiles' \in Nat /\ postRequests' \in Nat /\ UNCHANGED reader
  BY <1>1, <1>2 DEF FilesTypeOK
<1> QED BY <1>3, <1>6, <1>7, PosterStepDone

\* The compilers that requests write.
LEMMA CompilerSteps ==
  ASSUME IInv, NEW p \in Posters, UNCHANGED packageVars,
         CreateCompiler(p) \/ UpdateCompiler(p) \/ DeleteCompiler(p)
  PROVE  IInv' /\ FilesGrow
<1>1. FilesTypeOK /\ PosterInv(p)
  BY DEF IInv
<1>2. poster[p].files \in Seq(Files)
  BY <1>1 DEF FilesTypeOK, PosterState
<1>3. \A i \in 1..Len(poster[p].files) : poster[p].files[i] \in 0..MaxFile
  <2>1. \A i \in 1..Len(poster[p].files) : poster[p].files[i] \in Files
    BY <1>2
  <2> QED BY <2>1, FileNumbers
<1>4. CASE CreateCompiler(p)
  <2>1. /\ poster[p].pc = "upload" /\ poster[p].op = "create compiler"
        /\ Len(poster[p].files) = Len(poster[p].names)
        /\ SetCompiler(p, [status |-> "exists", image |-> poster[p].files[1]])
    BY <1>4 DEF CreateCompiler, Uploaded
  <2>2. Len(poster[p].files) = 1
    BY <1>1, <2>1 DEF PosterInv
  <2>3. 1 \in 1..Len(poster[p].files)
    BY <2>2
  <2>4. PICK c : c = [status |-> "exists", image |-> poster[p].files[1]]
    OBVIOUS
  <2>5. c \in CompilerRow /\ c.image = poster[p].files[1]
    BY <1>3, <2>3, <2>4 DEF CompilerRow, PostStatuses
  <2>6. SetCompiler(p, c)
    BY <2>1, <2>4
  <2> QED BY <2>1, <2>3, <2>5, <2>6, SetCompilerStep
<1>5. CASE UpdateCompiler(p)
  <2>1. /\ poster[p].pc = "upload" /\ poster[p].op = "update compiler"
        /\ SetCompiler(p, IF poster[p].files = <<>> THEN poster[p].row
                          ELSE [poster[p].row EXCEPT !.image = poster[p].files[1]])
    BY <1>5 DEF UpdateCompiler, Uploaded
  <2>2. poster[p].row \in CompilerRow /\ CompilerOK(poster[p].row)
    BY <1>1, <2>1 DEF PosterInv, CompilerOps
  <2>3. CASE poster[p].files = <<>>
    <3>1. PICK c : c = poster[p].row
      OBVIOUS
    <3>2. c \in CompilerRow /\ SetCompiler(p, c) /\ (c.image # 0 => Available(c.image))
      BY <2>1, <2>2, <2>3, <3>1 DEF CompilerOK
    <3> QED BY <2>1, <3>2, SetCompilerStep
  <2>4. CASE poster[p].files # <<>>
    <3>1. PICK c : c = [poster[p].row EXCEPT !.image = poster[p].files[1]]
      OBVIOUS
    <3>2. 1 \in 1..Len(poster[p].files)
      BY <1>2, <2>4
    <3>3. poster[p].files[1] \in 0..MaxFile
      BY <1>3, <3>2
    <3>4. c \in CompilerRow /\ c.image = poster[p].files[1]
      BY <2>2, <3>1, <3>3 DEF CompilerRow
    <3>5. SetCompiler(p, c)
      BY <2>1, <2>4, <3>1
    <3> QED BY <2>1, <3>2, <3>4, <3>5, SetCompilerStep
  <2> QED BY <2>3, <2>4
<1>6. CASE DeleteCompiler(p)
  <2>1. PICK c : c = [NoCompiler EXCEPT !.status = "deleted"]
    OBVIOUS
  <2>2. c \in CompilerRow /\ c.image = 0
    BY <2>1, ZeroFile DEF CompilerRow, NoCompiler, PostStatuses
  <2>3. SetCompiler(p, c) /\ poster[p].pc = "upload"
    BY <1>6, <2>1 DEF DeleteCompiler, Uploaded
  <2> QED BY <2>2, <2>3, SetCompilerStep
<1> QED BY <1>4, <1>5, <1>6

\* A post is deleted, or a request fails: no file changes.
LEMMA PosterEndStep ==
  ASSUME IInv, NEW p \in Posters, DeletePost(p) \/ PostingFails(p), UNCHANGED packageVars
  PROVE  IInv' /\ FilesGrow
<1>1. /\ UNCHANGED <<file, reader, postFile, postFiles, compiler, postRequests>>
      /\ PosterAt(p, NoPosting)
      /\ post' = post \/ post' = [NoPost EXCEPT !.status = "deleted"]
  BY DEF DeletePost, PostingFails, fileVars
<1>2. FilesTypeOK /\ RowsInv /\ AvailableIsWhole
  BY DEF IInv
<1>3. file' \in [Files -> FileRow] /\ AvailableIsWhole' /\ FilesGrow
  BY <1>1, <1>2, FilesStay
<1>4. RowsInv'
  BY <1>1, <1>2, <1>3, RowsStay DEF packageVars
<1>5. \A f \in Files : file'[f] = file[f]
  BY <1>1
<1>6. /\ poster' \in [Posters -> PosterState] /\ \A q \in Posters \ {p} : poster'[q] = poster[q]
      /\ PosterInv(p)' /\ StepOf(<<"poster", p>>)
  BY <1>1, <1>2, <1>5, PosterEnds
<1>7. post' \in PostRow
  BY <1>1, <1>2 DEF FilesTypeOK, NoPost, PostRow, PostStatuses
<1>8. /\ compiler' \in CompilerRow /\ postFile' \subseteq PostFileRow
      /\ postFiles' \in Nat /\ postRequests' \in Nat /\ UNCHANGED reader
  BY <1>1, <1>2 DEF FilesTypeOK
<1> QED BY <1>3, <1>4, <1>6, <1>7, <1>8, PosterStepDone

--------------------------------------------------------------------------------
(* The task *)

\* What a step of a task has to show.
LEMMA BuilderStepDone ==
  ASSUME IInv, NEW b \in Builders, \A c \in Builders \ {b} : builder'[c] = builder[c],
         builder' \in [Builders -> BuilderState], BuilderInv(b)', StepOf(<<"builder", b>>),
         file' \in [Files -> FileRow], AvailableIsWhole', FilesGrow, RowsInv',
         problem' \in ProblemRow, resource' \subseteq ResourceRow, resources' \in Nat,
         resources <= resources', UNCHANGED author, UNCHANGED reader, UNCHANGED postVars
  PROVE  IInv' /\ FilesGrow
<1>1. /\ poster' = poster /\ post' = post /\ compiler' = compiler /\ postFile' = postFile
      /\ postFiles' = postFiles /\ postRequests' = postRequests
  BY DEF postVars
<1>2. FilesTypeOK'
  BY <1>1 DEF FilesTypeOK, IInv
<1>3. /\ OwnerInv' /\ \A a \in Authors : AuthorInv(a)'
      /\ \A c \in Builders \ {b} : BuilderInv(c)'
      /\ \A p \in Posters : PosterInv(p)'
      /\ \A r \in Readers : ReaderInv(r)'
  BY <1>1, BuilderMoves
<1> QED BY <1>2, <1>3 DEF IInv

\* No task is the task 0.
LEMMA ZeroTask == 0 \in 0..MaxBuild /\ 0 \in Nat
<1>1. MaxBuild \in Nat
  BY PackageAssumption, Zenon
<1> QED BY <1>1

\* No build.
LEMMA NoBuildOK ==
  NoBuild \in BuilderState /\ NoBuild.pc = "idle" /\ NoBuild.uploads = <<>>
<1>1. NoProblem \in ProblemRow
  BY NoProblemOK
<1>2. <<>> \in Seq(Upload) /\ {} \in SUBSET ResourceRow /\ {} \in SUBSET Event
  OBVIOUS
<1>3. "" \in Packages \cup {""}
  OBVIOUS
<1> QED BY <1>1, <1>2, <1>3, ZeroTask DEF NoBuild, BuilderState

\* A task that is over.
LEMMA BuilderEnds ==
  ASSUME FilesTypeOK, NEW b \in Builders, BuildAt(b, NoBuild),
         \A f \in Files : file'[f].blob = file[f].blob,
         \A f \in Files : file'[f].status # file[f].status =>
            \E i \in 1..Len(builder[b].uploads) : builder[b].uploads[i].file = f
  PROVE  /\ builder' \in [Builders -> BuilderState]
         /\ \A c \in Builders \ {b} : builder'[c] = builder[c]
         /\ BuilderInv(b)' /\ StepOf(<<"builder", b>>)
<1>1. builder' \in [Builders -> BuilderState] /\ builder'[b] = NoBuild
      /\ \A c \in Builders \ {b} : builder'[c] = builder[c]
  BY NoBuildOK DEF BuildAt, FilesTypeOK
<1>2. BuilderInv(b)'
  BY <1>1, NoBuildOK DEF BuilderInv
<1>3. StepOf(<<"builder", b>>)
  <2>1. \A f \in Files : ~Holds(<<"builder", b>>, f)' /\ ~WritesTo(<<"builder", b>>, f)'
    BY <1>1, NoBuildOK DEF Holds, WritesTo
  <2>2. \A f \in Files : (\E i \in 1..Len(builder[b].uploads) : builder[b].uploads[i].file = f)
                            => Holds(<<"builder", b>>, f)
    BY DEF Holds
  <2> QED BY <2>1, <2>2 DEF StepOf
<1> QED BY <1>1, <1>2, <1>3

\* A task fails.
LEMMA BuildFailsStep ==
  ASSUME IInv, NEW b \in Builders, BuildFails(b), UNCHANGED postVars
  PROVE  IInv' /\ FilesGrow
<1>1. BuildAt(b, NoBuild) /\ UNCHANGED <<file, problem, resource, resources, author, reader>>
  BY DEF BuildFails
<1>2. FilesTypeOK /\ RowsInv /\ AvailableIsWhole
  BY DEF IInv
<1>3. file' \in [Files -> FileRow] /\ AvailableIsWhole' /\ FilesGrow
  BY <1>1, <1>2, FilesStay
<1>4. RowsInv'
  BY <1>1, <1>2, <1>3, RowsStay DEF postVars
<1>5. \A f \in Files : file'[f] = file[f]
  BY <1>1
<1>6. /\ builder' \in [Builders -> BuilderState]
      /\ \A c \in Builders \ {b} : builder'[c] = builder[c]
      /\ BuilderInv(b)' /\ StepOf(<<"builder", b>>)
  BY <1>1, <1>2, <1>5, BuilderEnds
<1>7. /\ problem' \in ProblemRow /\ resource' \subseteq ResourceRow /\ resources' \in Nat
      /\ resources <= resources'
  BY <1>1, <1>2 DEF FilesTypeOK
<1> QED BY <1>1, <1>3, <1>4, <1>6, <1>7, BuilderStepDone

\* What a task has read is good for the next state too.
LEMMA BuildInputs ==
  ASSUME FilesTypeOK, NEW b \in Builders, BuilderInv(b), builder[b].pc # "idle", FilesGrow,
         NEW v \in BuilderState, builder'[b] = v, v.row = builder[b].row,
         v.package = builder[b].package
  PROVE  /\ ProblemOK(v.row)' /\ v.row.status = "exists" /\ v.package \in Packages
         /\ file'[v.row.package].blob = Content("package", v.package)
<1>1. /\ ProblemOK(builder[b].row) /\ builder[b].row.status = "exists"
      /\ builder[b].package \in Packages
      /\ file[builder[b].row.package].blob = Content("package", builder[b].package)
  BY DEF BuilderInv
<1>2. PICK row : row = v.row
  OBVIOUS
<1>3. ProblemOK(row) /\ ProblemOK(row)'
  BY <1>1, <1>2, ProblemStays
<1>4. row.package \in Files /\ file[row.package].status = "available"
  BY <1>1, <1>2, <1>3 DEF ProblemOK, PackageFile, Available
<1> QED BY <1>1, <1>2, <1>3, <1>4 DEF FilesGrow

\* The events of a task, when it has uploaded more.
LEMMA EventsStay ==
  ASSUME FilesTypeOK, NEW b \in Builders, BuilderInv(b), builder[b].pc # "idle", FilesGrow,
         UNCHANGED resources, NEW v \in BuilderState, builder'[b] = v,
         v.package = builder[b].package, v.events = builder[b].events,
         Len(v.uploads) = Len(builder[b].uploads),
         \A i \in 1..Len(v.uploads) : v.uploads[i].key = builder[b].uploads[i].key
  PROVE  \A e \in v.events : EventOK(b, e)'
<1> SUFFICES ASSUME NEW e \in v.events PROVE EventOK(b, e)'
  OBVIOUS
<1>1. EventOK(b, e)
  BY DEF BuilderInv
<1>2. PICK r \in ResourceRow : r = e.row
  BY DEF BuilderState, Event
<1>3. resources \in Nat /\ resources' \in Nat /\ resources <= resources'
  BY DEF FilesTypeOK
<1>4. e.kind = "update" => ResourceOK(r)'
  BY <1>1, <1>2, <1>3, ResourceStays DEF EventOK
<1>5. e.kind # "delete" /\ r.key \in FileKeys =>
        \E i \in 1..Len(v.uploads) : v.uploads[i].key = r.key
  BY <1>1, <1>2 DEF EventOK
<1>6. e.kind = "create" => \E k \in DOMAIN ContentOf[v.package] : r = CreatedRow(v.package, k)
  BY <1>1, <1>2 DEF EventOK
<1> QED BY <1>2, <1>4, <1>5, <1>6 DEF EventOK

\* A task creates the row of its next file.
LEMMA BuildUploadRowStep ==
  ASSUME IInv, NEW b \in Builders, BuildUploadRow(b), UNCHANGED postVars
  PROVE  IInv' /\ FilesGrow
<1>1. /\ builder[b].pc = "upload" /\ builder[b].upload + 1 <= Len(builder[b].uploads)
      /\ CreateFile /\ UNCHANGED <<problem, resource, resources, author, reader>>
  BY DEF BuildUploadRow
<1>2. FilesTypeOK /\ RowsInv /\ AvailableIsWhole /\ BuilderInv(b) /\ OwnerInv
  BY DEF IInv
<1>3. PICK g : g = NewFile
  OBVIOUS
<1>4. /\ file' \in [Files -> FileRow] /\ AvailableIsWhole' /\ FilesGrow
      /\ g \in Files /\ file[g].status = "none" /\ file'[g].status = "pending"
      /\ \A f \in Files \ {g} : file'[f] = file[f]
  BY <1>1, <1>2, <1>3, CreateFileStep
<1>5. RowsInv'
  BY <1>1, <1>2, <1>4, RowsStay DEF postVars
<1>6. PICK q \in BuilderState : q = builder[b]
  BY <1>2 DEF FilesTypeOK
<1>7. PICK n : n = q.upload + 1
  OBVIOUS
<1>8. q.uploads \in Seq(Upload) /\ q.upload \in Nat /\ Len(q.uploads) \in Nat
      /\ n \in 1..Len(q.uploads) /\ n \in Nat /\ n # 0
  <2>1. q.uploads \in Seq(Upload) /\ q.upload \in Nat
    BY <1>6 DEF BuilderState
  <2>2. Len(q.uploads) \in Nat
    BY <2>1
  <2> QED BY <1>1, <1>6, <1>7, <2>1, <2>2
<1>9. PICK us : us = [q.uploads EXCEPT ![n].file = g]
  OBVIOUS
<1>10. /\ us \in Seq(Upload) /\ Len(us) = Len(q.uploads)
       /\ \A i \in 1..Len(us) : us[i].key = q.uploads[i].key /\ us[i].content = q.uploads[i].content
       /\ us[n].file = g /\ \A i \in 1..Len(us) : i # n => us[i] = q.uploads[i]
  <2>1. q.uploads[n] \in Upload /\ g \in 0..MaxFile
    BY <1>4, <1>8, FileNumbers
  <2>2. PICK u : u = [q.uploads[n] EXCEPT !.file = g]
    OBVIOUS
  <2>3. /\ u \in Upload /\ u.file = g /\ u.key = q.uploads[n].key
        /\ u.content = q.uploads[n].content
    BY <2>1, <2>2 DEF Upload
  <2>4. us = [q.uploads EXCEPT ![n] = u]
    BY <1>9, <2>2
  <2>5. us \in Seq(Upload) /\ Len(us) = Len(q.uploads)
    BY <1>8, <2>3, <2>4
  <2>6. us[n] = u /\ \A i \in 1..Len(us) : i # n => us[i] = q.uploads[i]
    BY <1>8, <2>4, <2>5
  <2> QED BY <2>3, <2>5, <2>6
<1>11. PICK v : v = [q EXCEPT !.pc = "write", !.upload = n, !.uploads = us]
  OBVIOUS
<1>12. /\ v \in BuilderState /\ v.pc = "write" /\ v.uploads = us /\ v.upload = n /\ v.row = q.row
       /\ v.package = q.package /\ v.events = q.events
  BY <1>6, <1>8, <1>10, <1>11 DEF BuilderState
<1>13. BuildAt(b, v)
  <2>1. BuildAt(b, [q EXCEPT !.pc = "write", !.upload = n, !.uploads[n].file = g])
    BY <1>3, <1>6, <1>7 DEF BuildUploadRow
  <2>2. [q EXCEPT !.pc = "write", !.upload = n, !.uploads[n].file = g] = v
    BY <1>6, <1>9, <1>11 DEF BuilderState
  <2> QED BY <2>1, <2>2
<1>14. builder' \in [Builders -> BuilderState] /\ builder'[b] = v
       /\ \A c \in Builders \ {b} : builder'[c] = builder[c]
  BY <1>2, <1>12, <1>13 DEF BuildAt, FilesTypeOK
<1>15. \A i \in 1..q.upload : /\ i \in 1..Len(us) /\ i # n /\ us[i] = q.uploads[i]
                              /\ us[i].file \in Files /\ us[i].file # g
  <2> SUFFICES ASSUME NEW i \in 1..q.upload
               PROVE  /\ i \in 1..Len(us) /\ i # n /\ us[i] = q.uploads[i]
                      /\ us[i].file \in Files /\ us[i].file # g
    OBVIOUS
  <2>1. i \in 1..Len(us) /\ i # n /\ us[i] = q.uploads[i] /\ i \in 1..Len(q.uploads)
    BY <1>7, <1>8, <1>10
  <2>2. q.uploads[i] \in Upload
    BY <1>8, <2>1
  <2>3. i <= q.upload
    BY <1>8
  <2>4. UploadOK(b, i)
    BY <1>1, <1>2, <1>6, <2>1 DEF BuilderInv
  <2>5. q.uploads[i].file # 0
    BY <1>6, <2>3, <2>4 DEF UploadOK
  <2>6. q.uploads[i].file \in Files
    BY <2>2, <2>5, FileNumbers DEF Upload
  <2>7. Holds(<<"builder", b>>, q.uploads[i].file) /\ <<"builder", b>> \in Actors
    BY <1>6, <2>1 DEF Holds, Actors
  <2>8. file[q.uploads[i].file].status # "none"
    BY <1>2, <2>6, <2>7 DEF OwnerInv
  <2> QED BY <1>4, <2>1, <2>6, <2>8
<1>16. BuilderInv(b)'
  <2>1. /\ ProblemOK(v.row)' /\ v.row.status = "exists" /\ v.package \in Packages
        /\ file'[v.row.package].blob = Content("package", v.package)
    BY <1>1, <1>2, <1>4, <1>6, <1>12, <1>14, BuildInputs
  <2>2. \A e \in v.events : EventOK(b, e)'
    BY <1>1, <1>2, <1>4, <1>6, <1>10, <1>12, <1>14, EventsStay
  <2>3. ASSUME NEW i \in 1..Len(us) PROVE UploadOK(b, i)'
    <3>1. UploadOK(b, i) /\ i \in Nat
      BY <1>1, <1>2, <1>6, <1>10 DEF BuilderInv
    <3>2. us[i].key = q.uploads[i].key /\ us[i].content = q.uploads[i].content
      BY <1>10
    <3>3. (us[i].file # 0) <=> (i <= n)
      <4>1. CASE i = n
        BY <1>4, <1>8, <1>10, <4>1, FileNumbers
      <4>2. CASE i # n
        <5>1. us[i] = q.uploads[i]
          BY <1>10, <4>2
        <5>2. (q.uploads[i].file # 0) <=> (i <= q.upload)
          BY <1>6, <3>1 DEF UploadOK
        <5>3. (i <= q.upload) <=> (i <= n)
          BY <1>7, <1>8, <3>1, <4>2
        <5> QED BY <5>1, <5>2, <5>3
      <4> QED BY <4>1, <4>2
    <3>4. UploadDone(b, i)' => file'[us[i].file].blob = us[i].content
      <4> SUFFICES ASSUME i <= n, i # n PROVE file'[us[i].file].blob = us[i].content
        BY <1>12, <1>14 DEF UploadDone
      <4>1. i \in 1..q.upload
        BY <1>7, <1>8, <3>1
      <4>2. us[i].file \in Files /\ us[i].file # g /\ us[i] = q.uploads[i]
        BY <1>15, <4>1
      <4>3. UploadDone(b, i)
        BY <1>1, <1>6, <4>1 DEF UploadDone
      <4>4. file[us[i].file].blob = us[i].content
        BY <1>6, <3>1, <4>2, <4>3 DEF UploadOK
      <4> QED BY <1>4, <4>2, <4>4
    <3>5. /\ q.uploads[i].content = IF q.uploads[i].key = "" THEN Content("compiled", q.package)
             ELSE Content("resource", ContentOf[q.package][q.uploads[i].key])
          /\ \/ q.uploads[i].key = ""
             \/ q.uploads[i].key \in FileKeys /\ q.uploads[i].key \in DOMAIN ContentOf[q.package]
      BY <1>6, <3>1 DEF UploadOK
    <3> QED BY <1>12, <1>14, <3>2, <3>3, <3>4, <3>5 DEF UploadOK
  <2>4. \A i, j \in 1..n : i # j => us[i].file # us[j].file
    <3> SUFFICES ASSUME NEW i \in 1..n, NEW j \in 1..n, i # j PROVE us[i].file # us[j].file
      OBVIOUS
    <3>1. (i = n \/ i \in 1..q.upload) /\ (j = n \/ j \in 1..q.upload)
      BY <1>7, <1>8
    <3>2. i # n /\ j # n => q.uploads[i].file # q.uploads[j].file
      BY <1>1, <1>2, <1>6, <3>1 DEF BuilderInv
    <3> QED BY <1>10, <1>15, <3>1, <3>2
  <2>5. n <= Len(us)
    BY <1>8, <1>10
  <2> QED BY <1>8, <1>12, <1>14, <2>1, <2>2, <2>3, <2>4, <2>5 DEF BuilderInv
<1>17. StepOf(<<"builder", b>>)
  <2>1. \A f \in Files : Holds(<<"builder", b>>, f)' => f = g \/ Holds(<<"builder", b>>, f)
    BY <1>6, <1>10, <1>12, <1>14 DEF Holds
  <2>2. \A f \in Files : WritesTo(<<"builder", b>>, f)' => f = g
    BY <1>10, <1>12, <1>14 DEF WritesTo
  <2>3. \A f \in Files : Holds(<<"builder", b>>, f) => file[f].status # "none"
    BY <1>2 DEF OwnerInv, Actors
  <2> QED BY <1>4, <2>1, <2>2, <2>3 DEF StepOf
<1>18. /\ problem' \in ProblemRow /\ resource' \subseteq ResourceRow /\ resources' \in Nat
       /\ resources <= resources'
  BY <1>1, <1>2 DEF FilesTypeOK
<1> QED BY <1>1, <1>4, <1>5, <1>14, <1>16, <1>17, <1>18, BuilderStepDone

\* A task writes the content of its file.
LEMMA BuildUploadContentStep ==
  ASSUME IInv, NEW b \in Builders, BuildUploadContent(b), UNCHANGED postVars
  PROVE  IInv' /\ FilesGrow
<1>1. /\ builder[b].pc = "write" /\ UNCHANGED <<problem, resource, resources, author, reader>>
      /\ WriteFile(builder[b].uploads[builder[b].upload].file,
                   builder[b].uploads[builder[b].upload].content)
      /\ BuildAt(b, [builder[b] EXCEPT !.pc = "upload"])
  BY DEF BuildUploadContent
<1>2. FilesTypeOK /\ RowsInv /\ AvailableIsWhole /\ BuilderInv(b) /\ OwnerInv
  BY DEF IInv
<1>3. PICK q \in BuilderState : q = builder[b]
  BY <1>2 DEF FilesTypeOK
<1>4. q.uploads \in Seq(Upload) /\ q.upload \in Nat
  BY <1>3 DEF BuilderState
<1>5. q.upload <= Len(q.uploads) /\ q.upload # 0
  BY <1>1, <1>2, <1>3 DEF BuilderInv
<1>6. PICK n : n = q.upload
  OBVIOUS
<1>7. n \in 1..Len(q.uploads) /\ n \in 1..n /\ Len(q.uploads) \in Nat /\ n <= n
  BY <1>4, <1>5, <1>6
<1>8. q.uploads[n] \in Upload
  BY <1>4, <1>7
<1>9. UploadOK(b, n)
  BY <1>1, <1>2, <1>3, <1>7 DEF BuilderInv
<1>10. PICK f : f = q.uploads[n].file
  OBVIOUS
<1>11. f \in Files
  <2>1. f # 0
    BY <1>3, <1>6, <1>7, <1>9, <1>10 DEF UploadOK
  <2> QED BY <1>8, <1>10, <2>1, FileNumbers DEF Upload
<1>12. PICK content : content = q.uploads[n].content
  OBVIOUS
<1>13. content \in Blob
  BY <1>8, <1>12 DEF Upload
<1>14. /\ WritesTo(<<"builder", b>>, f) /\ <<"builder", b>> \in Actors
       /\ Holds(<<"builder", b>>, f)
  BY <1>1, <1>3, <1>6, <1>7, <1>10 DEF WritesTo, Holds, Actors
<1>15. file[f].status = "pending"
  BY <1>2, <1>11, <1>14 DEF OwnerInv
<1>16. WriteFile(f, content)
  BY <1>1, <1>3, <1>6, <1>10, <1>12
<1>17. /\ file' \in [Files -> FileRow] /\ AvailableIsWhole' /\ FilesGrow
       /\ file'[f].status = "pending" /\ file'[f].blob = content
       /\ \A g \in Files \ {f} : file'[g] = file[g]
  BY <1>2, <1>11, <1>13, <1>15, <1>16, WriteFileStep
<1>18. RowsInv'
  BY <1>1, <1>2, <1>17, RowsStay DEF postVars
<1>19. PICK v : v = [q EXCEPT !.pc = "upload"]
  OBVIOUS
<1>20. /\ v \in BuilderState /\ v.pc = "upload" /\ v.uploads = q.uploads /\ v.upload = n
       /\ v.row = q.row /\ v.package = q.package /\ v.events = q.events
  BY <1>3, <1>6, <1>19 DEF BuilderState
<1>21. BuildAt(b, v)
  BY <1>1, <1>3, <1>19
<1>22. builder' \in [Builders -> BuilderState] /\ builder'[b] = v
       /\ \A c \in Builders \ {b} : builder'[c] = builder[c]
  BY <1>2, <1>20, <1>21 DEF BuildAt, FilesTypeOK
<1>23. BuilderInv(b)'
  <2>1. /\ ProblemOK(v.row)' /\ v.row.status = "exists" /\ v.package \in Packages
        /\ file'[v.row.package].blob = Content("package", v.package)
    BY <1>1, <1>2, <1>17, <1>3, <1>20, <1>22, BuildInputs
  <2>2. \A e \in v.events : EventOK(b, e)'
    BY <1>1, <1>2, <1>17, <1>3, <1>20, <1>22, EventsStay
  <2>3. ASSUME NEW i \in 1..Len(q.uploads) PROVE UploadOK(b, i)'
    <3>1. UploadOK(b, i)
      BY <1>1, <1>2, <1>3 DEF BuilderInv
    <3>2. q.uploads[i] \in Upload /\ i \in Nat
      BY <1>4
    <3>3. (q.uploads[i].file # 0) <=> (i <= n)
      BY <1>3, <1>6, <3>1 DEF UploadOK
    <3>4. UploadDone(b, i)' => file'[q.uploads[i].file].blob = q.uploads[i].content
      <4> SUFFICES ASSUME i <= n PROVE file'[q.uploads[i].file].blob = q.uploads[i].content
        BY <1>20, <1>22 DEF UploadDone
      <4>1. CASE i = n
        BY <1>10, <1>12, <1>17, <4>1
      <4>2. CASE i # n
        <5>1. q.uploads[i].file \in Files
          BY <3>2, <3>3, FileNumbers DEF Upload
        <5>2. i \in 1..n
          BY <1>7
        <5>3. q.uploads[i].file # f
          BY <1>1, <1>2, <1>3, <1>6, <1>7, <1>10, <4>2, <5>2 DEF BuilderInv
        <5>4. UploadDone(b, i)
          BY <1>3, <1>6, <4>2 DEF UploadDone
        <5>5. file[q.uploads[i].file].blob = q.uploads[i].content
          BY <1>3, <3>1, <5>4 DEF UploadOK
        <5> QED BY <1>17, <5>1, <5>3, <5>5
      <4> QED BY <4>1, <4>2
    <3>5. /\ q.uploads[i].content = IF q.uploads[i].key = "" THEN Content("compiled", q.package)
             ELSE Content("resource", ContentOf[q.package][q.uploads[i].key])
          /\ \/ q.uploads[i].key = ""
             \/ q.uploads[i].key \in FileKeys /\ q.uploads[i].key \in DOMAIN ContentOf[q.package]
      BY <1>3, <3>1 DEF UploadOK
    <3> QED BY <1>20, <1>22, <3>3, <3>4, <3>5 DEF UploadOK
  <2>4. \A i, j \in 1..n : i # j => q.uploads[i].file # q.uploads[j].file
    BY <1>1, <1>2, <1>3, <1>6 DEF BuilderInv
  <2>5. n <= Len(q.uploads)
    BY <1>5, <1>6
  <2> QED BY <1>20, <1>22, <2>1, <2>2, <2>3, <2>4, <2>5 DEF BuilderInv
<1>24. StepOf(<<"builder", b>>)
  <2>1. \A g \in Files : (Holds(<<"builder", b>>, g)' => Holds(<<"builder", b>>, g))
                         /\ ~WritesTo(<<"builder", b>>, g)'
    BY <1>3, <1>20, <1>22 DEF Holds, WritesTo
  <2>2. \A g \in Files : Holds(<<"builder", b>>, g) => file[g].status # "none"
    BY <1>2 DEF OwnerInv, Actors
  <2> QED BY <1>14, <1>15, <1>17, <2>1, <2>2 DEF StepOf
<1>25. /\ problem' \in ProblemRow /\ resource' \subseteq ResourceRow /\ resources' \in Nat
       /\ resources <= resources'
  BY <1>1, <1>2 DEF FilesTypeOK
<1> QED BY <1>1, <1>17, <1>18, <1>22, <1>23, <1>24, <1>25, BuilderStepDone

\* Nothing that the invariant speaks of changes.
LEMMA NothingChanges ==
  ASSUME IInv, UNCHANGED <<file, reader, problem, resource, resources, author, builder>>,
         UNCHANGED postVars
  PROVE  IInv' /\ FilesGrow
<1>1. FilesTypeOK /\ RowsInv /\ AvailableIsWhole /\ \A r \in Readers : ReaderInv(r)
  BY DEF IInv
<1>2. FilesTypeOK'
  BY <1>1 DEF FilesTypeOK, postVars
<1>3. AvailableIsWhole' /\ FilesGrow
  BY <1>1, FilesStay
<1>4. RowsInv'
  BY <1>1, <1>3, RowsStay DEF postVars
<1>5. /\ OwnerInv' /\ \A a \in Authors : AuthorInv(a)'
      /\ \A b \in Builders : BuilderInv(b)'
      /\ \A p \in Posters : PosterInv(p)'
  BY <1>3, NobodyMoves DEF postVars
<1>6. \A r \in Readers : ReaderInv(r)'
  BY <1>1, <1>3, ReaderFrame
<1> QED BY <1>2, <1>3, <1>4, <1>5, <1>6 DEF IInv

\* A key that some row has stands for one of its rows.
LEMMA WinnerOf ==
  ASSUME FilesTypeOK, RowsInv, NEW k, \E r \in resource : r.key = k
  PROVE  Winner(resource, k) \in resource /\ Winner(resource, k).key = k
<1>1. PICK S : S = {r.id : r \in {q \in resource : q.key = k}}
  OBVIOUS
<1>2. \A r \in resource : r.id \in Nat /\ r.id <= resources
  BY DEF FilesTypeOK, RowsInv, ResourceOK, ResourceRow
<1>3. S \subseteq Nat /\ S # {} /\ \A x \in S : x <= resources
  BY <1>1, <1>2
<1>4. resources \in Nat
  BY DEF FilesTypeOK
<1>5. PICK x \in S : \A y \in S : y <= x
  BY <1>3, <1>4, GreatestNumber
<1>6. PICK r \in resource : r.key = k /\ r.id = x
  BY <1>1, <1>5
<1>7. \A q \in resource : q.key = k => q.id <= r.id
  BY <1>1, <1>5, <1>6
<1> QED BY <1>6, <1>7 DEF Winner

\* Keys and values of packages.
LEMMA ContentsOf ==
  ASSUME NEW p \in Packages, NEW k \in DOMAIN ContentOf[p]
  PROVE  k \in Keys /\ ContentOf[p][k] \in Values /\ k # ""
<1>1. k \in Keys
  BY DEF Keys
<1>2. ContentOf[p][k] \in Values
  BY DEF Values
<1>3. k # ""
  BY PackageAssumption, Zenon
<1> QED BY <1>1, <1>2, <1>3

\* What an event may be.
LEMMA EventsAre ==
  ASSUME NEW content, NEW e \in Events(resource, content)
  PROVE  \/ \E r \in resource : e = [kind |-> "delete", row |-> r]
         \/ \E k \in {r.key : r \in resource} : e = [kind |-> "delete", row |-> Winner(resource, k)]
         \/ \E k \in {r.key : r \in resource} \cap DOMAIN content :
               e = [kind |-> "update", row |-> [Winner(resource, k) EXCEPT !.value = content[k]]]
         \/ \E k \in DOMAIN content :
               e = [kind |-> "create",
                    row |-> [id |-> 0, key |-> k, value |-> content[k], file |-> 0]]
<1>1. PICK keys : keys = {r.key : r \in resource}
  OBVIOUS
<1>2. PICK winner : winner = [k \in keys |-> Winner(resource, k)]
  OBVIOUS
<1>3. \/ e \in {[kind |-> "delete", row |-> r] : r \in {q \in resource : q # winner[q.key]}}
      \/ e \in {[kind |-> "delete", row |-> winner[k]] : k \in keys \ DOMAIN content}
      \/ e \in {[kind |-> "update", row |-> [winner[k] EXCEPT !.value = content[k]]] :
                k \in {j \in keys \cap DOMAIN content :
                         ~(j \in FileKeys /\ winner[j].file # 0
                            /\ file[winner[j].file].md5 = Content("resource", content[j]))}}
      \/ e \in {[kind |-> "create",
                 row |-> [id |-> 0, key |-> k, value |-> content[k], file |-> 0]] :
                k \in NewKeys(resource, content)}
  BY <1>1, <1>2, Zenon DEF Events
<1>4. \A k \in keys : winner[k] = Winner(resource, k)
  BY <1>2
<1>5. NewKeys(resource, content) \subseteq DOMAIN content
  BY DEF NewKeys
<1> QED BY <1>1, <1>3, <1>4, <1>5

\* The events of a task.
LEMMA EventsAreGood ==
  ASSUME FilesTypeOK, RowsInv, NEW p \in Packages, NEW e \in Events(resource, ContentOf[p])
  PROVE  /\ e \in Event
         /\ e.kind = "update" => ResourceOK(e.row)
         /\ e.kind = "create" => \E k \in DOMAIN ContentOf[p] : e.row = CreatedRow(p, k)
         /\ e.kind # "delete" => e.row.key \in DOMAIN ContentOf[p]
<1>1. resource \subseteq ResourceRow /\ \A r \in resource : ResourceOK(r)
  BY DEF FilesTypeOK, RowsInv
<1>2. CASE \E r \in resource : e = [kind |-> "delete", row |-> r]
  BY <1>1, <1>2 DEF Event
<1>3. CASE \E k \in {r.key : r \in resource} : e = [kind |-> "delete", row |-> Winner(resource, k)]
  <2>1. PICK k \in {r.key : r \in resource} : e = [kind |-> "delete", row |-> Winner(resource, k)]
    BY <1>3
  <2>2. Winner(resource, k) \in resource
    BY <2>1, WinnerOf
  <2> QED BY <1>1, <2>1, <2>2 DEF Event
<1>4. CASE \E k \in {r.key : r \in resource} \cap DOMAIN ContentOf[p] :
        e = [kind |-> "update", row |-> [Winner(resource, k) EXCEPT !.value = ContentOf[p][k]]]
  <2>1. PICK k \in {r.key : r \in resource} \cap DOMAIN ContentOf[p] :
          e = [kind |-> "update", row |-> [Winner(resource, k) EXCEPT !.value = ContentOf[p][k]]]
    BY <1>4
  <2>2. PICK w \in resource : w = Winner(resource, k) /\ w.key = k
    BY <2>1, WinnerOf
  <2>3. ContentOf[p][k] \in Values
    BY <2>1, ContentsOf
  <2>4. PICK row : row = [w EXCEPT !.value = ContentOf[p][k]]
    OBVIOUS
  <2>5. row \in ResourceRow /\ row.id = w.id /\ row.file = w.file /\ row.key = w.key
    BY <1>1, <2>2, <2>3, <2>4 DEF ResourceRow
  <2>6. ResourceOK(row)
    BY <1>1, <2>2, <2>5 DEF ResourceOK
  <2>7. e = [kind |-> "update", row |-> row]
    BY <2>1, <2>2, <2>4
  <2> QED BY <2>1, <2>2, <2>5, <2>6, <2>7 DEF Event
<1>5. CASE \E k \in DOMAIN ContentOf[p] :
        e = [kind |-> "create",
             row |-> [id |-> 0, key |-> k, value |-> ContentOf[p][k], file |-> 0]]
  <2>1. PICK k \in DOMAIN ContentOf[p] : e = [kind |-> "create", row |-> CreatedRow(p, k)]
    BY <1>5 DEF CreatedRow
  <2>2. k \in Keys /\ ContentOf[p][k] \in Values
    BY ContentsOf
  <2>3. CreatedRow(p, k) \in ResourceRow /\ CreatedRow(p, k).key = k
    BY <2>2, ZeroFile, ZeroTask DEF CreatedRow, ResourceRow
  <2> QED BY <2>1, <2>3 DEF Event
<1> QED BY <1>2, <1>3, <1>4, <1>5, EventsAre

\* The contents a task uploads.
UploadIs(p, u) ==
    /\ u \in Upload /\ u.file = 0
    /\ u.content = IF u.key = "" THEN Content("compiled", p)
                   ELSE Content("resource", ContentOf[p][u.key])
    /\ u.key = "" \/ (u.key \in FileKeys /\ u.key \in DOMAIN ContentOf[p])

\* The content of a resource.
LEMMA ResourceUpload ==
  ASSUME NEW p \in Packages, NEW k \in DOMAIN ContentOf[p], k \in FileKeys, NEW u,
         u = [key |-> k, content |-> Content("resource", ContentOf[p][k]), file |-> 0]
  PROVE  UploadIs(p, u)
<1>1. k \in Keys /\ ContentOf[p][k] \in Values /\ k # ""
  BY ContentsOf
<1>2. PICK c : c = Content("resource", ContentOf[p][k])
  OBVIOUS
<1>3. c \in Blob
  BY <1>1, <1>2 DEF Content, Blob
<1>4. u \in Upload /\ u.key = k /\ u.content = c /\ u.file = 0
  BY <1>1, <1>2, <1>3, ZeroFile DEF Upload
<1> QED BY <1>1, <1>2, <1>4 DEF UploadIs

\* The compiled package.
LEMMA CompiledUpload ==
  ASSUME NEW p \in Packages, NEW u,
         u = [key |-> "", content |-> Content("compiled", p), file |-> 0]
  PROVE  UploadIs(p, u)
<1>1. PICK c : c = Content("compiled", p)
  OBVIOUS
<1>2. c \in Blob
  BY <1>1 DEF Content, Blob
<1>3. u \in Upload /\ u.key = "" /\ u.content = c /\ u.file = 0
  BY <1>1, <1>2, ZeroFile DEF Upload
<1> QED BY <1>1, <1>3 DEF UploadIs

\* The uploads of a task are contents of its package, and every file that an
\* event needs is among them.
LEMMA UploadsAreGood ==
  ASSUME NEW p \in Packages, NEW compile, NEW events,
         \A e \in events : e.kind # "delete" => e.row.key \in DOMAIN ContentOf[p],
         NEW us, us = Uploads(compile, p, events)
  PROVE  /\ us \in Seq(Upload) /\ \A i \in 1..Len(us) : UploadIs(p, us[i])
         /\ \A e \in events : e.kind # "delete" /\ e.row.key \in FileKeys =>
              \E i \in 1..Len(us) : us[i].key = e.row.key
<1>1. PICK keys : keys = {e.row.key : e \in {d \in events : d.kind # "delete"
                                                /\ d.row.key \in FileKeys}}
  OBVIOUS
<1>2. keys \subseteq DOMAIN ContentOf[p] /\ keys \subseteq FileKeys
  BY <1>1
<1>3. IsFiniteSet(keys)
  <2>1. IsFiniteSet(DOMAIN ContentOf[p])
    BY PackageAssumption, Zenon
  <2> QED BY <1>2, <2>1, FS_Subset
<1>4. PICK f : f = [k \in keys |-> [key |-> k, content |-> Content("resource", ContentOf[p][k]),
                                    file |-> 0]]
  OBVIOUS
<1>5. DOMAIN f = keys /\ \A k \in keys :
        f[k] = [key |-> k, content |-> Content("resource", ContentOf[p][k]), file |-> 0]
  BY <1>4
<1>6. PICK contents : contents = {f[k] : k \in keys}
  OBVIOUS
<1>7. contents = {[key |-> k, content |-> Content("resource", ContentOf[p][k]), file |-> 0] :
                    k \in keys}
  BY <1>5, <1>6
<1>8. IsFiniteSet(contents)
  BY <1>3, <1>5, <1>6, ImageIsFinite
<1>9. \A u \in contents : UploadIs(p, u) /\ u \in Upload
  <2>1. \A k \in keys : UploadIs(p, f[k])
    BY <1>2, <1>5, ResourceUpload
  <2>2. \A k \in keys : f[k] \in Upload
    BY <2>1 DEF UploadIs
  <2> QED BY <1>6, <2>1, <2>2
<1>10. PICK tail : tail = SetToSeq(contents)
  OBVIOUS
<1>11. /\ tail \in Seq(contents) /\ Len(tail) \in Nat
       /\ \A u \in contents : \E i \in 1..Len(tail) : tail[i] = u
       /\ \A i \in 1..Len(tail) : tail[i] \in contents
  BY <1>8, <1>10, SetAsSeq
<1>12. tail \in Seq(Upload)
  BY <1>9, <1>11
<1>13. PICK one : one = [key |-> "", content |-> Content("compiled", p), file |-> 0]
  OBVIOUS
<1>14. UploadIs(p, one) /\ one \in Upload
  BY <1>13, CompiledUpload DEF UploadIs
<1>15. us = (IF compile THEN <<one>> ELSE <<>>) \o tail
  BY <1>1, <1>7, <1>10, <1>13 DEF Uploads
<1>16. PICK front \in Seq(Upload) : us = front \o tail /\ \A i \in 1..Len(front) : front[i] = one
  <2>1. <<one>> \in Seq(Upload) /\ <<>> \in Seq(Upload)
    BY <1>14
  <2>2. (\A i \in 1..Len(<<one>>) : <<one>>[i] = one) /\ (\A i \in 1..Len(<<>>) : <<>>[i] = one)
    OBVIOUS
  <2>3. us = <<one>> \o tail \/ us = <<>> \o tail
    BY <1>15
  <2> QED BY <2>1, <2>2, <2>3
<1>17. /\ us \in Seq(Upload) /\ Len(us) = Len(front) + Len(tail)
       /\ \A i \in 1..Len(us) :
            us[i] = IF i <= Len(front) THEN front[i] ELSE tail[i - Len(front)]
       /\ Len(front) \in Nat
  BY <1>12, <1>16
<1>18. \A i \in 1..Len(us) : UploadIs(p, us[i])
  <2> SUFFICES ASSUME NEW i \in 1..Len(us) PROVE UploadIs(p, us[i])
    OBVIOUS
  <2>1. CASE i <= Len(front)
    <3>1. i \in 1..Len(front)
      BY <1>17, <2>1
    <3> QED BY <1>14, <1>16, <1>17, <2>1, <3>1
  <2>2. CASE ~(i <= Len(front))
    <3>1. i - Len(front) \in 1..Len(tail)
      BY <1>11, <1>17, <2>2
    <3> QED BY <1>9, <1>11, <1>17, <2>2, <3>1
  <2> QED BY <2>1, <2>2
<1>19. ASSUME NEW k \in keys PROVE \E i \in 1..Len(us) : us[i].key = k
  <2>1. f[k] \in contents /\ f[k].key = k
    BY <1>5, <1>6
  <2>2. PICK j \in 1..Len(tail) : tail[j] = f[k]
    BY <1>11, <2>1
  <2>3. /\ Len(front) + j \in 1..Len(us) /\ ~(Len(front) + j <= Len(front))
        /\ (Len(front) + j) - Len(front) = j
    BY SMTT(30), <1>11, <1>17
  <2>4. us[Len(front) + j] = tail[j]
    BY <1>17, <2>3
  <2> QED BY <2>1, <2>2, <2>3, <2>4
<1> QED BY <1>1, <1>17, <1>18, <1>19

\* A task starts.
LEMMA StartBuildStep ==
  ASSUME IInv, NEW b \in Builders, NEW t \in Builds, StartBuild(b, t), UNCHANGED postVars
  PROVE  IInv' /\ FilesGrow
<1>1. /\ builder[b].pc = "idle" /\ UNCHANGED <<file, reader, problem, resource, resources, author>>
  BY DEF StartBuild, fileVars
<1>2. CASE problem.status # "exists"
  <2>1. UNCHANGED builder
    BY <1>2 DEF StartBuild
  <2> QED BY <1>1, <2>1, NothingChanges
<1>3. CASE problem.status = "exists"
  <2>1. FilesTypeOK /\ RowsInv /\ AvailableIsWhole
    BY DEF IInv
  <2>2. file' \in [Files -> FileRow] /\ AvailableIsWhole' /\ FilesGrow
    BY <1>1, <2>1, FilesStay
  <2>3. RowsInv'
    BY <1>1, <2>1, <2>2, RowsStay DEF postVars
  <2>4. PICK row \in ProblemRow : row = problem
    BY <2>1 DEF FilesTypeOK
  <2>5. ProblemOK(row) /\ row.status = "exists"
    BY <1>3, <2>1, <2>4 DEF RowsInv
  <2>6. PICK p \in Packages : file[row.package].blob = Content("package", p)
    BY <2>5 DEF ProblemOK, PackageFile
  <2>7. file[PackageOf(t)].blob.of = p
    BY <2>4, <2>6 DEF PackageOf, Content
  <2>8. PICK events : events = Events(resource, ContentOf[p])
    OBVIOUS
  <2>9. \A e \in events :
          /\ e \in Event
          /\ e.kind = "update" => ResourceOK(e.row)
          /\ e.kind = "create" => \E k \in DOMAIN ContentOf[p] : e.row = CreatedRow(p, k)
          /\ e.kind # "delete" => e.row.key \in DOMAIN ContentOf[p]
    BY <2>1, <2>8, EventsAreGood
  <2>10. PICK us : us = Uploads(task[t].compile, p, events)
    OBVIOUS
  <2>11. /\ us \in Seq(Upload) /\ \A i \in 1..Len(us) : UploadIs(p, us[i])
         /\ \A e \in events : e.kind # "delete" /\ e.row.key \in FileKeys =>
              \E i \in 1..Len(us) : us[i].key = e.row.key
    BY <2>9, <2>10, UploadsAreGood
  <2>12. PICK v : v = [pc |-> "upload", task |-> t, row |-> row, rows |-> resource, package |-> p,
                       events |-> events, uploads |-> us, upload |-> 0]
    OBVIOUS
  <2>13. BuildAt(b, v)
    BY <1>3, <2>4, <2>7, <2>8, <2>10, <2>12 DEF StartBuild
  <2>14. /\ v \in BuilderState /\ v.pc = "upload" /\ v.row = row /\ v.package = p
         /\ v.events = events /\ v.uploads = us /\ v.upload = 0
    <3>1. t \in 0..MaxBuild
      <4>1. MaxBuild \in Nat
        BY PackageAssumption, Zenon
      <4> QED BY <4>1 DEF Builds
    <3>2. resource \in SUBSET ResourceRow /\ events \in SUBSET Event /\ p \in Packages \cup {""}
      BY <2>1, <2>9 DEF FilesTypeOK
    <3> QED BY <2>11, <2>12, <3>1, <3>2, ZeroTask DEF BuilderState
  <2>15. builder' \in [Builders -> BuilderState] /\ builder'[b] = v
         /\ \A c \in Builders \ {b} : builder'[c] = builder[c]
    BY <2>1, <2>13, <2>14 DEF BuildAt, FilesTypeOK
  <2>16. BuilderInv(b)'
    <3>1. ProblemOK(v.row)'
      <4>1. ProblemOK(row)'
        BY <2>2, <2>5, ProblemStays
      <4> QED BY <2>14, <4>1
    <3>2. file'[v.row.package].blob = Content("package", v.package) /\ v.row.status = "exists"
      BY <1>1, <2>5, <2>6, <2>14
    <3>3. 0 <= Len(us) /\ 1..0 = {} /\ Len(us) \in Nat
      <4>1. Len(us) \in Nat
        BY <2>11
      <4> QED BY <4>1
    <3>4. ASSUME NEW i \in 1..Len(us) PROVE UploadOK(b, i)'
      <4>1. UploadIs(p, us[i])
        BY <2>11
      <4>2. ~(i <= 0)
        BY <3>3
      <4> QED BY <2>14, <2>15, <4>1, <4>2 DEF UploadOK, UploadIs, UploadDone
    <3>5. ASSUME NEW e \in events PROVE EventOK(b, e)'
      <4>1. PICK r \in ResourceRow : r = e.row
        BY <2>9 DEF Event
      <4>2. e.kind = "update" => ResourceOK(r)'
        BY <1>1, <2>2, <2>9, <4>1 DEF ResourceOK, Available
      <4>3. e.kind = "create" => \E k \in DOMAIN ContentOf[p] : r = CreatedRow(p, k)
        BY <2>9, <4>1
      <4>4. e.kind # "delete" /\ r.key \in FileKeys => \E i \in 1..Len(us) : us[i].key = r.key
        BY <2>11, <4>1
      <4> QED BY <2>14, <2>15, <4>1, <4>2, <4>3, <4>4 DEF EventOK
    <3> QED BY <2>14, <2>15, <3>1, <3>2, <3>3, <3>4, <3>5 DEF BuilderInv
  <2>17. StepOf(<<"builder", b>>)
    <3>1. \A i \in 1..Len(us) : us[i].file = 0
      BY <2>11 DEF UploadIs
    <3>2. \A f \in Files : ~Holds(<<"builder", b>>, f)' /\ ~WritesTo(<<"builder", b>>, f)'
      BY <2>14, <2>15, <3>1, FileNumbers DEF Holds, WritesTo
    <3> QED BY <1>1, <3>2 DEF StepOf
  <2>18. /\ problem' \in ProblemRow /\ resource' \subseteq ResourceRow /\ resources' \in Nat
         /\ resources <= resources'
    BY <1>1, <2>1 DEF FilesTypeOK
  <2> QED BY <1>1, <2>2, <2>3, <2>15, <2>16, <2>17, <2>18, BuilderStepDone
<1> QED BY <1>2, <1>3

\* The rows of the events of a kind, and a row with the file uploaded for it.
ChangedBy(b, kind) == {e.row : e \in {d \in builder[b].events : d.kind = kind}}
WithFileOf(b, r) ==
    IF FileFor(b, r.key) = 0 THEN r ELSE [r EXCEPT !.file = FileFor(b, r.key)]
UploadedFiles(b) == {u.file : u \in ToSet(builder[b].uploads)}

\* Every upload is over when a task commits.
LEMMA AllUploaded ==
  ASSUME IInv, NEW b \in Builders, BuildReady(b), NEW i \in 1..Len(builder[b].uploads)
  PROVE  /\ builder[b].uploads[i] \in Upload /\ builder[b].uploads[i].file \in Files
         /\ file[builder[b].uploads[i].file].blob # Nothing
         /\ builder[b].uploads[i].key = "" \/ builder[b].uploads[i].key \in FileKeys
<1>1. FilesTypeOK /\ BuilderInv(b)
  BY DEF IInv
<1>2. PICK q \in BuilderState : q = builder[b]
  BY <1>1 DEF FilesTypeOK
<1>3. q.uploads \in Seq(Upload) /\ q.pc = "upload" /\ q.upload = Len(q.uploads)
  BY <1>2 DEF BuilderState, BuildReady
<1>4. q.uploads[i] \in Upload /\ i <= q.upload
  BY <1>2, <1>3
<1>5. UploadOK(b, i)
  BY <1>1, <1>2, <1>3 DEF BuilderInv
<1>6. q.uploads[i].file \in Files
  <2>1. q.uploads[i].file # 0
    BY <1>2, <1>4, <1>5 DEF UploadOK
  <2> QED BY <1>4, <2>1, FileNumbers DEF Upload
<1>7. file[q.uploads[i].file].blob = q.uploads[i].content
  <2>1. UploadDone(b, i)
    BY <1>2, <1>3, <1>4 DEF UploadDone
  <2> QED BY <1>2, <1>5, <2>1 DEF UploadOK
<1>8. q.uploads[i].content # Nothing
  <2>1. q.uploads[i].content = Content("compiled", q.package)
        \/ q.uploads[i].content = Content("resource", ContentOf[q.package][q.uploads[i].key])
    BY <1>2, <1>5 DEF UploadOK
  <2> QED BY <2>1, ContentIsThere
<1>9. q.uploads[i].key = "" \/ q.uploads[i].key \in FileKeys
  BY <1>2, <1>5 DEF UploadOK
<1> QED BY <1>2, <1>4, <1>6, <1>7, <1>8, <1>9

\* The file uploaded for a key.
LEMMA FileForKey ==
  ASSUME IInv, NEW b \in Builders, BuildReady(b), NEW key
  PROVE  /\ FileFor(b, key) # 0 =>
              FileFor(b, key) \in Files /\ FileFor(b, key) \in UploadedFiles(b)
         /\ (FileFor(b, key) # 0) <=>
              \E i \in 1..Len(builder[b].uploads) : builder[b].uploads[i].key = key
<1>1. builder[b].uploads \in Seq(Upload)
  BY DEF IInv, FilesTypeOK, BuilderState
<1>2. ToSet(builder[b].uploads) = {builder[b].uploads[i] : i \in 1..Len(builder[b].uploads)}
  BY <1>1, MembersOf
<1>3. PICK found : found = {u \in ToSet(builder[b].uploads) : u.key = key}
  OBVIOUS
<1>4. CASE found = {}
  <2>1. FileFor(b, key) = 0
    BY <1>3, <1>4 DEF FileFor
  <2>2. ASSUME NEW i \in 1..Len(builder[b].uploads) PROVE builder[b].uploads[i].key # key
    <3>1. builder[b].uploads[i] \in ToSet(builder[b].uploads)
      BY <1>2
    <3> QED BY <1>3, <1>4, <3>1
  <2>3. ~\E i \in 1..Len(builder[b].uploads) : builder[b].uploads[i].key = key
    BY <2>2
  <2> QED BY <2>1, <2>3
<1>5. CASE found # {}
  <2>1. PICK u \in found : FileFor(b, key) = u.file
    BY <1>3, <1>5 DEF FileFor
  <2>2. PICK i \in 1..Len(builder[b].uploads) : u = builder[b].uploads[i] /\ u.key = key
    BY <1>2, <1>3, <2>1
  <2>3. u.file \in Files
    BY <2>2, AllUploaded
  <2>4. u \in ToSet(builder[b].uploads)
    BY <1>3, <2>1
  <2>5. u.file \in UploadedFiles(b)
    BY <2>4 DEF UploadedFiles
  <2> QED BY <2>1, <2>2, <2>3, <2>5, FileNumbers
<1> QED BY <1>4, <1>5

\* A transaction confirms the files of its task.
LEMMA BuilderConfirms ==
  ASSUME IInv, NEW b \in Builders, BuildReady(b), BuildAt(b, NoBuild),
         ConfirmUploadFiles(UploadedFiles(b))
  PROVE  /\ file' \in [Files -> FileRow] /\ AvailableIsWhole' /\ FilesGrow
         /\ \A f \in UploadedFiles(b) : f \in Files /\ file'[f].status = "available"
         /\ builder' \in [Builders -> BuilderState]
         /\ \A c \in Builders \ {b} : builder'[c] = builder[c]
         /\ BuilderInv(b)' /\ StepOf(<<"builder", b>>)
<1>1. FilesTypeOK /\ AvailableIsWhole
  BY DEF IInv
<1>2. builder[b].uploads \in Seq(Upload)
  BY <1>1 DEF FilesTypeOK, BuilderState
<1>3. ToSet(builder[b].uploads) = {builder[b].uploads[i] : i \in 1..Len(builder[b].uploads)}
  BY <1>2, MembersOf
<1>4. PICK fs : fs = UploadedFiles(b)
  OBVIOUS
<1>5. \A f \in fs : \E i \in 1..Len(builder[b].uploads) : builder[b].uploads[i].file = f
  BY <1>3, <1>4 DEF UploadedFiles
<1>6. fs \subseteq Files /\ \A f \in fs : file[f].blob # Nothing
  <2>1. \A i \in 1..Len(builder[b].uploads) :
          /\ builder[b].uploads[i].file \in Files
          /\ file[builder[b].uploads[i].file].blob # Nothing
    BY AllUploaded
  <2> QED BY <1>5, <2>1
<1>7. ConfirmUploadFiles(fs)
  BY <1>4
<1>8. /\ file' \in [Files -> FileRow] /\ AvailableIsWhole' /\ FilesGrow
      /\ \A f \in fs : file'[f].status = "available"
      /\ \A f \in Files : file'[f].blob = file[f].blob
      /\ \A f \in Files \ fs : file'[f] = file[f]
  BY <1>1, <1>6, <1>7, ConfirmStep
<1>9. \A f \in Files : file'[f].status # file[f].status =>
        \E i \in 1..Len(builder[b].uploads) : builder[b].uploads[i].file = f
  BY <1>5, <1>8
<1>10. /\ builder' \in [Builders -> BuilderState]
       /\ \A c \in Builders \ {b} : builder'[c] = builder[c]
       /\ BuilderInv(b)' /\ StepOf(<<"builder", b>>)
  BY <1>1, <1>8, <1>9, BuilderEnds
<1> QED BY <1>4, <1>6, <1>8, <1>10

\* A row that a task writes: with the file uploaded for it, or its own.
LEMMA RowWritten ==
  ASSUME IInv, NEW b \in Builders, BuildReady(b), NEW r \in ResourceRow,
         FilesGrow, \A f \in UploadedFiles(b) : f \in Files /\ file'[f].status = "available",
         r.key \in FileKeys =>
            \E i \in 1..Len(builder[b].uploads) : builder[b].uploads[i].key = r.key,
         r.key \notin FileKeys => r.file = 0
  PROVE  /\ WithFileOf(b, r) \in ResourceRow /\ WithFileOf(b, r).id = r.id
         /\ WithFileOf(b, r).key = r.key
         /\ (WithFileOf(b, r).file # 0) <=> (r.key \in FileKeys)
         /\ WithFileOf(b, r).file # 0 =>
              WithFileOf(b, r).file \in Files /\ file'[WithFileOf(b, r).file].status = "available"
<1>1. PICK g : g = FileFor(b, r.key)
  OBVIOUS
<1>2. g # 0 => g \in Files /\ g \in UploadedFiles(b)
  BY <1>1, FileForKey
<1>3. (g # 0) <=> \E i \in 1..Len(builder[b].uploads) : builder[b].uploads[i].key = r.key
  BY <1>1, FileForKey
<1>4. r.key # ""
  <2>1. PICK p \in Packages : r.key \in DOMAIN ContentOf[p]
    BY DEF ResourceRow, Keys
  <2> QED BY <2>1, ContentsOf
<1>5. (g # 0) <=> (r.key \in FileKeys)
  <2>1. \A i \in 1..Len(builder[b].uploads) :
          builder[b].uploads[i].key = "" \/ builder[b].uploads[i].key \in FileKeys
    BY AllUploaded
  <2> QED BY <1>3, <1>4, <2>1
<1>6. CASE g = 0
  <2>1. WithFileOf(b, r) = r /\ r.key \notin FileKeys
    BY <1>1, <1>5, <1>6 DEF WithFileOf
  <2> QED BY <2>1
<1>7. CASE g # 0
  <2>1. PICK w : w = [r EXCEPT !.file = g]
    OBVIOUS
  <2>2. WithFileOf(b, r) = w
    BY <1>1, <1>7, <2>1 DEF WithFileOf
  <2>3. g \in 0..MaxFile /\ g \in Files /\ file'[g].status = "available"
    BY <1>2, <1>7, FileNumbers
  <2>4. w \in ResourceRow /\ w.id = r.id /\ w.key = r.key /\ w.file = g
    BY <2>1, <2>3 DEF ResourceRow
  <2> QED BY <1>5, <1>7, <2>2, <2>3, <2>4
<1> QED BY <1>6, <1>7

\* What the transaction of a task writes.
CommitsWith(b, created) ==
    /\ BuildReady(b) /\ ConfirmUploadFiles(UploadedFiles(b)) /\ BuildAt(b, NoBuild)
    /\ \A r \in resource' : \/ r \in resource
                            \/ \E q \in ChangedBy(b, "update") : r = WithFileOf(b, q)
                            \/ \E i \in DOMAIN created :
                                 r = [WithFileOf(b, created[i]) EXCEPT !.id = resources + i]
    /\ resources' = resources + Len(created)
    /\ problem' = [builder[b].row EXCEPT !.compiled = IF FileFor(b, "") = 0 THEN @
                                                     ELSE FileFor(b, "")]
    /\ UNCHANGED <<author, reader>>

\* A commit writes that.
LEMMA CommitBuildIs ==
  ASSUME NEW b \in Builders, CommitBuild(b), NEW created,
         created = SetToSeq(ChangedBy(b, "create"))
  PROVE  CommitsWith(b, created)
<1>1. BuildReady(b) /\ ConfirmUploadFiles(UploadedFiles(b)) /\ BuildAt(b, NoBuild)
  BY DEF CommitBuild, UploadedFiles
<1>2. resources' = resources + Len(created) /\ UNCHANGED <<author, reader>>
  BY DEF CommitBuild, ChangedBy
<1>3. problem' = [builder[b].row EXCEPT !.compiled = IF FileFor(b, "") = 0 THEN @
                                                    ELSE FileFor(b, "")]
  BY DEF CommitBuild
<1>4. PICK gone : resource' = {r \in resource : r.id \notin gone}
        \cup {WithFileOf(b, r) : r \in ChangedBy(b, "update")}
        \cup {[WithFileOf(b, created[i]) EXCEPT !.id = resources + i] : i \in DOMAIN created}
  BY DEF CommitBuild, ChangedBy, WithFileOf
<1> QED BY <1>1, <1>2, <1>3, <1>4 DEF CommitsWith

\* The rows that a task creates are finitely many.
LEMMA CreatedRows ==
  ASSUME IInv, NEW b \in Builders, builder[b].pc # "idle", NEW created,
         created = SetToSeq(ChangedBy(b, "create"))
  PROVE  /\ Len(created) \in Nat /\ DOMAIN created = 1..Len(created)
         /\ \A i \in 1..Len(created) : \E e \in builder[b].events :
              e.kind = "create" /\ created[i] = e.row
         /\ \A e \in builder[b].events : e.kind = "create" =>
              \E i \in 1..Len(created) : created[i] = e.row
         /\ \A i, j \in 1..Len(created) : created[i] = created[j] => i = j
<1>1. BuilderInv(b)
  BY DEF IInv
<1>2. PICK p \in Packages : p = builder[b].package
  BY <1>1 DEF BuilderInv
<1>3. \A e \in builder[b].events : e.kind = "create" =>
        \E k \in DOMAIN ContentOf[p] : e.row = CreatedRow(p, k)
  BY <1>1, <1>2 DEF BuilderInv, EventOK
<1>4. PICK f : f = [k \in DOMAIN ContentOf[p] |-> CreatedRow(p, k)]
  OBVIOUS
<1>5. PICK T : T = {f[k] : k \in DOMAIN ContentOf[p]}
  OBVIOUS
<1>6. IsFiniteSet(DOMAIN ContentOf[p])
  BY PackageAssumption, Zenon
<1>7. DOMAIN f = DOMAIN ContentOf[p] /\ \A k \in DOMAIN ContentOf[p] : f[k] = CreatedRow(p, k)
  BY <1>4
<1>8. IsFiniteSet(T)
  BY <1>5, <1>6, <1>7, ImageIsFinite
<1>9. PICK S : S = ChangedBy(b, "create")
  OBVIOUS
<1>10. S \subseteq T
  BY <1>3, <1>5, <1>7, <1>9 DEF ChangedBy
<1>11. IsFiniteSet(S)
  BY <1>8, <1>10, FS_Subset
<1>12. /\ created \in Seq(S) /\ Len(created) \in Nat
       /\ \A x \in S : \E i \in 1..Len(created) : created[i] = x
       /\ \A i \in 1..Len(created) : created[i] \in S
       /\ \A i, j \in 1..Len(created) : created[i] = created[j] => i = j
  BY <1>9, <1>11, SetAsSeq
<1>13. DOMAIN created = 1..Len(created)
  BY <1>12
<1>14. /\ \A x \in S : \E e \in builder[b].events : e.kind = "create" /\ x = e.row
       /\ \A e \in builder[b].events : e.kind = "create" => e.row \in S
  BY <1>9 DEF ChangedBy
<1> QED BY <1>12, <1>13, <1>14

\* An event that writes a row has its file among the uploads.
LEMMA EventRow ==
  ASSUME IInv, NEW b \in Builders, builder[b].pc # "idle", NEW e \in builder[b].events,
         e.kind # "delete"
  PROVE  /\ e.row \in ResourceRow
         /\ e.row.key \in FileKeys =>
              \E i \in 1..Len(builder[b].uploads) : builder[b].uploads[i].key = e.row.key
         /\ e.row.key \notin FileKeys => e.row.file = 0
         /\ e.kind = "update" => e.row.id <= resources
<1>1. FilesTypeOK /\ BuilderInv(b)
  BY DEF IInv
<1>2. EventOK(b, e)
  BY <1>1 DEF BuilderInv
<1>3. e \in Event
  BY <1>1 DEF FilesTypeOK, BuilderState
<1>4. e.row \in ResourceRow /\ e.kind \in {"create", "update", "delete"}
  BY <1>3 DEF Event
<1>5. e.row.key \in FileKeys =>
        \E i \in 1..Len(builder[b].uploads) : builder[b].uploads[i].key = e.row.key
  BY <1>2 DEF EventOK
<1>6. CASE e.kind = "update"
  <2>1. ResourceOK(e.row)
    BY <1>2, <1>6 DEF EventOK
  <2> QED BY <1>4, <1>5, <2>1 DEF ResourceOK
<1>7. CASE e.kind = "create"
  <2>1. PICK k : e.row = CreatedRow(builder[b].package, k)
    BY <1>2, <1>7 DEF EventOK
  <2>2. e.row.file = 0
    BY <2>1 DEF CreatedRow
  <2> QED BY <1>4, <1>5, <1>7, <2>2
<1> QED BY <1>4, <1>6, <1>7

\* A row, with another number.
LEMMA Renumbered ==
  ASSUME NEW w \in ResourceRow, NEW n \in Nat, NEW r, r = [w EXCEPT !.id = n]
  PROVE  r \in ResourceRow /\ r.id = n /\ r.key = w.key /\ r.file = w.file
BY DEF ResourceRow

\* The transaction of a task.
LEMMA CommitBuildStep ==
  ASSUME IInv, NEW b \in Builders, CommitBuild(b), UNCHANGED postVars
  PROVE  IInv' /\ FilesGrow
<1>1. PICK created : created = SetToSeq(ChangedBy(b, "create"))
  OBVIOUS
<1>2. CommitsWith(b, created)
  BY <1>1, CommitBuildIs
<1>14. /\ BuildReady(b) /\ ConfirmUploadFiles(UploadedFiles(b)) /\ BuildAt(b, NoBuild)
       /\ UNCHANGED <<author, reader>>
  BY <1>2 DEF CommitsWith
<1>15. resources' = resources + Len(created)
  BY <1>2 DEF CommitsWith
<1>3. FilesTypeOK /\ RowsInv /\ BuilderInv(b)
  BY DEF IInv
<1>4. /\ file' \in [Files -> FileRow] /\ AvailableIsWhole' /\ FilesGrow
      /\ \A f \in UploadedFiles(b) : f \in Files /\ file'[f].status = "available"
      /\ builder' \in [Builders -> BuilderState]
      /\ \A c \in Builders \ {b} : builder'[c] = builder[c]
      /\ BuilderInv(b)' /\ StepOf(<<"builder", b>>)
  BY <1>14, BuilderConfirms
<1>5. builder[b].pc # "idle"
  BY <1>14 DEF BuildReady
<1>6. /\ Len(created) \in Nat /\ DOMAIN created = 1..Len(created)
      /\ \A i \in 1..Len(created) : \E e \in builder[b].events :
           e.kind = "create" /\ created[i] = e.row
  BY <1>1, <1>5, CreatedRows
<1>7. resources \in Nat /\ resources' \in Nat /\ resources <= resources'
  <2>1. resources \in Nat
    BY <1>3 DEF FilesTypeOK
  <2> QED BY <1>15, <1>6, <2>1
<1>8. ASSUME NEW e \in builder[b].events, e.kind # "delete"
      PROVE  /\ e.row \in ResourceRow /\ WithFileOf(b, e.row) \in ResourceRow
             /\ WithFileOf(b, e.row).id = e.row.id /\ WithFileOf(b, e.row).key = e.row.key
             /\ (WithFileOf(b, e.row).file # 0) <=> (e.row.key \in FileKeys)
             /\ WithFileOf(b, e.row).file # 0 =>
                  /\ WithFileOf(b, e.row).file \in Files
                  /\ file'[WithFileOf(b, e.row).file].status = "available"
             /\ e.kind = "update" => e.row.id <= resources
  <2>1. PICK r : r = e.row
    OBVIOUS
  <2>2. /\ r \in ResourceRow
        /\ r.key \in FileKeys =>
             \E i \in 1..Len(builder[b].uploads) : builder[b].uploads[i].key = r.key
        /\ r.key \notin FileKeys => r.file = 0
        /\ e.kind = "update" => r.id <= resources
    BY <1>5, <1>8, <2>1, EventRow
  <2>3. /\ WithFileOf(b, r) \in ResourceRow /\ WithFileOf(b, r).id = r.id
        /\ WithFileOf(b, r).key = r.key
        /\ (WithFileOf(b, r).file # 0) <=> (r.key \in FileKeys)
        /\ WithFileOf(b, r).file # 0 =>
             WithFileOf(b, r).file \in Files /\ file'[WithFileOf(b, r).file].status = "available"
    BY <1>14, <1>4, <2>2, RowWritten
  <2> QED BY <2>1, <2>2, <2>3
<1>9. ASSUME NEW r \in resource' PROVE r \in ResourceRow /\ ResourceOK(r)'
  <2>1. CASE r \in resource
    <3>1. r \in ResourceRow /\ ResourceOK(r)
      BY <1>3, <2>1 DEF FilesTypeOK, RowsInv
    <3> QED BY <1>4, <1>7, <3>1, ResourceStays
  <2>2. CASE \E q \in ChangedBy(b, "update") : r = WithFileOf(b, q)
    <3>1. PICK e \in builder[b].events : e.kind = "update" /\ r = WithFileOf(b, e.row)
      BY <2>2 DEF ChangedBy
    <3>2. /\ e.row \in ResourceRow /\ r \in ResourceRow /\ r.id = e.row.id /\ r.key = e.row.key
          /\ (r.file # 0) <=> (r.key \in FileKeys)
          /\ r.file # 0 => r.file \in Files /\ file'[r.file].status = "available"
          /\ e.row.id <= resources
      BY <1>8, <3>1
    <3>3. r.id <= resources'
      <4>1. r.id \in Nat
        BY <3>2 DEF ResourceRow
      <4> QED BY <1>7, <3>2, <4>1
    <3> QED BY <3>2, <3>3 DEF ResourceOK, Available
  <2>3. CASE \E i \in DOMAIN created :
               r = [WithFileOf(b, created[i]) EXCEPT !.id = resources + i]
    <3>1. PICK i \in 1..Len(created) : r = [WithFileOf(b, created[i]) EXCEPT !.id = resources + i]
      BY <1>6, <2>3
    <3>2. PICK e \in builder[b].events : e.kind = "create" /\ created[i] = e.row
      BY <1>6
    <3>3. PICK w : w = WithFileOf(b, e.row)
      OBVIOUS
    <3>4. /\ w \in ResourceRow /\ w.key = e.row.key /\ ((w.file # 0) <=> (w.key \in FileKeys))
          /\ w.file # 0 => w.file \in Files /\ file'[w.file].status = "available"
      BY <1>8, <3>2, <3>3
    <3>5. PICK n : n = resources + i
      OBVIOUS
    <3>6. n \in Nat /\ n <= resources'
      BY <1>15, <1>6, <1>7, <3>5
    <3>7. r = [w EXCEPT !.id = n]
      BY <3>1, <3>2, <3>3, <3>5
    <3>8. r \in ResourceRow /\ r.id = n /\ r.key = w.key /\ r.file = w.file
      BY <3>4, <3>6, <3>7, Renumbered
    <3> QED BY <3>4, <3>6, <3>8 DEF ResourceOK, Available
  <2> QED BY <1>2, <2>1, <2>2, <2>3 DEF CommitsWith
<1>10. PICK row : row = problem'
  OBVIOUS
<1>11. row \in ProblemRow /\ ProblemOK(row)'
  <2>1. PICK old : old = builder[b].row
    OBVIOUS
  <2>2. old \in ProblemRow /\ ProblemOK(old)
    BY <1>3, <1>5, <2>1 DEF BuilderInv, FilesTypeOK, BuilderState
  <2>3. ProblemOK(old)'
    BY <1>4, <2>2, ProblemStays
  <2>4. PICK g : g = FileFor(b, "")
    OBVIOUS
  <2>5. g # 0 => g \in Files /\ g \in UploadedFiles(b)
    BY <1>14, <2>4, FileForKey
  <2>6. row = [old EXCEPT !.compiled = IF g = 0 THEN old.compiled ELSE g]
    BY <1>2, <1>10, <2>1, <2>4 DEF CommitsWith
  <2>7. CASE g = 0
    <3>1. row = old
      BY <2>2, <2>6, <2>7 DEF ProblemRow
    <3> QED BY <2>2, <2>3, <3>1
  <2>8. CASE g # 0
    <3>1. g \in Files /\ g \in 0..MaxFile /\ file'[g].status = "available"
      BY <1>4, <2>5, <2>8, FileNumbers
    <3>2. row \in ProblemRow /\ row.package = old.package /\ row.status = old.status
          /\ row.compiled = g
      BY <2>2, <2>6, <2>8, <3>1 DEF ProblemRow
    <3> QED BY <2>3, <3>1, <3>2 DEF ProblemOK, Available
  <2> QED BY <2>7, <2>8
<1>12. RowsInv'
  <2>1. CompilerOK(compiler)'
    <3>1. PICK x : x = compiler
      OBVIOUS
    <3>2. CompilerOK(x)'
      BY <1>3, <1>4, <3>1, CompilerStays DEF RowsInv
    <3> QED BY <3>1, <3>2 DEF postVars
  <2>2. \A r \in postFile' : Available(r.file)'
    BY <1>3, <1>4, AvailableStays DEF RowsInv, postVars
  <2>3. ProblemOK(problem)'
    BY <1>10, <1>11
  <2> QED BY <1>9, <2>1, <2>2, <2>3 DEF RowsInv
<1>13. problem' \in ProblemRow /\ resource' \subseteq ResourceRow
  BY <1>9, <1>10, <1>11
<1> QED BY <1>14, <1>4, <1>7, <1>12, <1>13, BuilderStepDone

--------------------------------------------------------------------------------
(* Readers *)

\* A step of a reader changes no file.
LEMMA ReadStep ==
  ASSUME IInv, NEW r \in Readers, NEW v \in ReaderState, ReadAt(r, v),
         v.pc \in {"wait", "select"} => v.file # 0,
         v.pc = "read" => Available(v.file),
         v.pc = "done" => Available(v.file) /\ v.got = file[v.file].blob,
         UNCHANGED packageVars, UNCHANGED postVars
  PROVE  IInv' /\ FilesGrow
<1>1. FilesTypeOK /\ RowsInv /\ AvailableIsWhole /\ \A x \in Readers : ReaderInv(x)
  BY DEF IInv
<1>2. UNCHANGED file /\ reader' = [reader EXCEPT ![r] = v]
  BY DEF ReadAt
<1>3. reader' \in [Readers -> ReaderState] /\ reader'[r] = v
      /\ \A x \in Readers \ {r} : reader'[x] = reader[x]
  BY <1>1, <1>2 DEF FilesTypeOK
<1>4. FilesTypeOK'
  BY <1>1, <1>2, <1>3 DEF FilesTypeOK, packageVars, postVars
<1>5. AvailableIsWhole' /\ FilesGrow
  BY <1>1, <1>2, FilesStay
<1>6. RowsInv'
  BY <1>1, <1>5, RowsStay DEF packageVars, postVars
<1>7. /\ OwnerInv' /\ \A a \in Authors : AuthorInv(a)'
      /\ \A b \in Builders : BuilderInv(b)'
      /\ \A p \in Posters : PosterInv(p)'
  BY <1>2, <1>5, NobodyMoves DEF packageVars, postVars
<1>8. ASSUME NEW x \in Readers PROVE ReaderInv(x)'
  <2>1. CASE x = r
    BY <1>2, <1>3, <2>1 DEF ReaderInv, Available
  <2>2. CASE x # r
    BY <1>1, <1>3, <1>5, <2>2, ReaderFrame
  <2> QED BY <2>1, <2>2
<1> QED BY <1>4, <1>5, <1>6, <1>7, <1>8 DEF IInv

\* A reader starts with a file.
LEMMA ObserveStep ==
  ASSUME IInv, NEW r \in Readers, NEW f \in Files, NEW etag, ObserveFileContent(r, f, etag),
         UNCHANGED packageVars, UNCHANGED postVars
  PROVE  IInv' /\ FilesGrow
<1>1. PICK pc \in {"not modified", "wait"} : ReadAt(r, [NoRead EXCEPT !.pc = pc, !.file = f])
  BY DEF ObserveFileContent
<1>2. PICK v : v = [NoRead EXCEPT !.pc = pc, !.file = f]
  OBVIOUS
<1>3. f \in 0..MaxFile /\ f # 0 /\ Nothing \in Blob
  <2>1. Nothing \in Blob
    BY DEF Nothing, Content, Blob
  <2> QED BY <2>1, FileNumbers
<1>4. v \in ReaderState /\ v.pc = pc /\ v.file = f
  BY <1>1, <1>2, <1>3 DEF NoRead, ReaderState
<1>5. ReadAt(r, v)
  BY <1>1, <1>2
<1> QED BY <1>1, <1>3, <1>4, <1>5, ReadStep

\* A reader waits for a file and is served it.
LEMMA WaitAndDownloadStep ==
  ASSUME IInv, NEW r \in Readers, UNCHANGED packageVars, UNCHANGED postVars,
         WaitFileAvailable(r) \/ WaitTimer(r) \/ WaitDone(r) \/ DownloadFile(r)
  PROVE  IInv' /\ FilesGrow
<1>1. FilesTypeOK /\ ReaderInv(r)
  BY DEF IInv
<1>2. PICK q \in ReaderState : q = reader[r]
  BY <1>1 DEF FilesTypeOK
<1>3. q.file \in 0..MaxFile /\ (q.pc \in {"wait", "select"} => q.file \in Files /\ q.file # 0)
  BY <1>1, <1>2, FileNumbers DEF ReaderInv, ReaderState
<1>4. CASE WaitFileAvailable(r)
  <2>1. q.pc = "wait"
    BY <1>2, <1>4 DEF WaitFileAvailable
  <2>2. PICK pc \in {"read", "failed", "select"} :
          /\ ReadAt(r, [q EXCEPT !.pc = pc]) /\ (pc = "read" => file[q.file].status = "available")
    BY <1>2, <1>4 DEF WaitFileAvailable
  <2>3. PICK v : v = [q EXCEPT !.pc = pc]
    OBVIOUS
  <2>4. v \in ReaderState /\ v.pc = pc /\ v.file = q.file
    BY <1>2, <2>2, <2>3 DEF ReaderState
  <2>5. v.pc = "read" => Available(v.file)
    BY <1>3, <2>1, <2>2, <2>4 DEF Available
  <2>6. ReadAt(r, v) /\ v.file # 0 /\ v.pc # "done"
    BY <1>3, <2>1, <2>2, <2>3, <2>4
  <2> QED BY <2>4, <2>5, <2>6, ReadStep
<1>5. CASE WaitTimer(r)
  <2>1. PICK v : v = [q EXCEPT !.pc = "wait", !.timer = TRUE]
    OBVIOUS
  <2>2. v \in ReaderState /\ v.pc = "wait" /\ v.file = q.file
    BY <1>2, <2>1 DEF ReaderState
  <2>3. ReadAt(r, v) /\ v.file # 0
    BY <1>2, <1>3, <1>5, <2>1, <2>2 DEF WaitTimer
  <2> QED BY <2>2, <2>3, ReadStep
<1>6. CASE WaitDone(r)
  <2>1. PICK v : v = [q EXCEPT !.pc = "cancelled"]
    OBVIOUS
  <2>2. v \in ReaderState /\ v.pc = "cancelled"
    BY <1>2, <2>1 DEF ReaderState
  <2>3. ReadAt(r, v)
    BY <1>2, <1>6, <2>1 DEF WaitDone
  <2> QED BY <2>2, <2>3, ReadStep
<1>7. CASE DownloadFile(r)
  <2>1. q.pc = "read" /\ ReadAt(r, [q EXCEPT !.pc = "done", !.got = file[q.file].blob])
    BY <1>2, <1>7 DEF DownloadFile
  <2>2. Available(q.file)
    BY <1>1, <1>2, <2>1 DEF ReaderInv
  <2>3. PICK got \in Blob : got = file[q.file].blob
    BY <1>1, <2>2 DEF FilesTypeOK, FileRow, Available
  <2>4. PICK v : v = [q EXCEPT !.pc = "done", !.got = got]
    OBVIOUS
  <2>5. v \in ReaderState /\ v.pc = "done" /\ v.file = q.file /\ v.got = got
    BY <1>2, <2>3, <2>4 DEF ReaderState
  <2>6. ReadAt(r, v)
    BY <2>1, <2>3, <2>4
  <2> QED BY <2>2, <2>3, <2>5, <2>6, ReadStep
<1> QED BY <1>4, <1>5, <1>6, <1>7

\* The row of a file that somebody waits for expires.
LEMMA ExpireStep ==
  ASSUME IInv, NEW f \in Files, FileExpires(f), UNCHANGED packageVars, UNCHANGED postVars
  PROVE  IInv' /\ FilesGrow
<1>1. FilesTypeOK /\ RowsInv /\ AvailableIsWhole /\ \A x \in Readers : ReaderInv(x)
  BY DEF IInv
<1>2. file' = [file EXCEPT ![f].expired = TRUE] /\ UNCHANGED reader
  BY DEF FileExpires
<1>3. PICK row : row = [file[f] EXCEPT !.expired = TRUE]
  OBVIOUS
<1>4. /\ row \in FileRow /\ row.status = file[f].status /\ row.md5 = file[f].md5
      /\ row.blob = file[f].blob
  BY <1>1, <1>3 DEF FilesTypeOK, FileRow
<1>5. file' = [file EXCEPT ![f] = row]
  BY <1>2, <1>3
<1>6. file' \in [Files -> FileRow] /\ file'[f] = row /\ \A g \in Files \ {f} : file'[g] = file[g]
  BY <1>1, <1>4, <1>5 DEF FilesTypeOK
<1>7. \A g \in Files : /\ file'[g].status = file[g].status /\ file'[g].md5 = file[g].md5
                       /\ file'[g].blob = file[g].blob
  BY <1>4, <1>6
<1>8. AvailableIsWhole' /\ FilesGrow
  BY <1>1, <1>7 DEF AvailableIsWhole, Whole, FilesGrow
<1>9. FilesTypeOK'
  BY <1>1, <1>2, <1>6 DEF FilesTypeOK, packageVars, postVars
<1>10. RowsInv'
  BY <1>1, <1>8, RowsStay DEF packageVars, postVars
<1>11. /\ OwnerInv' /\ \A a \in Authors : AuthorInv(a)'
       /\ \A b \in Builders : BuilderInv(b)'
       /\ \A p \in Posters : PosterInv(p)'
  BY <1>7, <1>8, NobodyMoves DEF packageVars, postVars
<1>12. \A r \in Readers : ReaderInv(r)'
  BY <1>1, <1>2, <1>8, ReaderFrame
<1> QED BY <1>8, <1>9, <1>10, <1>11, <1>12 DEF IInv

--------------------------------------------------------------------------------
(* The theorem *)

\* Nobody has done anything.
LEMMA InitInvariant == FilesInit => IInv
<1> SUFFICES ASSUME FilesInit PROVE IInv
  OBVIOUS
<1>1. /\ file = [f \in Files |-> NoFile] /\ reader = [r \in Readers |-> NoRead]
      /\ problem = NoProblem /\ resource = {} /\ resources = 0
      /\ author = [a \in Authors |-> NoRequest] /\ builder = [b \in Builders |-> NoBuild]
      /\ post = NoPost /\ postFile = {} /\ postFiles = 0 /\ compiler = NoCompiler
      /\ poster = [p \in Posters |-> NoPosting] /\ postRequests = 0
  BY DEF FilesInit, FileInit, PackageInit, PostInit
<1>2. Nothing \in Blob
  BY DEF Nothing, Content, Blob
<1>3. NoFile \in FileRow /\ NoFile.status = "none"
  BY <1>2 DEF NoFile, FileRow
<1>4. NoRead \in ReaderState /\ NoRead.pc = "idle"
  BY <1>2, ZeroFile DEF NoRead, ReaderState
<1>5. NoPost \in PostRow /\ 0 \in Nat
  BY DEF NoPost, PostRow, PostStatuses
<1>6. NoCompiler \in CompilerRow /\ NoCompiler.image = 0
  BY ZeroFile DEF NoCompiler, CompilerRow, PostStatuses
<1>7. FilesTypeOK
  BY <1>1, <1>3, <1>4, <1>5, <1>6, NoProblemOK, NoRequestOK, NoBuildOK, NoPostingOK
     DEF FilesTypeOK
<1>8. AvailableIsWhole
  BY <1>1, <1>3 DEF AvailableIsWhole
<1>9. OwnerInv
  <2>1. \A a \in Authors : author[a] = NoRequest
    BY <1>1
  <2>2. \A b \in Builders : builder[b] = NoBuild
    BY <1>1
  <2>3. \A p \in Posters : poster[p] = NoPosting
    BY <1>1
  <2>4. \A x \in Actors, f \in Files : ~Holds(x, f) /\ ~WritesTo(x, f)
    <3> SUFFICES ASSUME NEW x \in Actors, NEW f \in Files PROVE ~Holds(x, f) /\ ~WritesTo(x, f)
      OBVIOUS
    <3>1. f # 0
      BY FileNumbers
    <3>2. CASE x \in {"author"} \X Authors
      BY <2>1, <3>1, <3>2, NoRequestOK DEF Holds, WritesTo
    <3>3. CASE x \in {"builder"} \X Builders
      BY <2>2, <3>3, NoBuildOK DEF Holds, WritesTo
    <3>4. CASE x \in {"poster"} \X Posters
      BY <2>3, <3>4, NoPostingOK DEF Holds, WritesTo
    <3> QED BY <3>2, <3>3, <3>4 DEF Actors
  <2> QED BY <2>4 DEF OwnerInv
<1>10. ProblemOK(NoProblem)
  BY NoProblemOK DEF ProblemOK
<1>11. RowsInv
  BY <1>1, <1>6, <1>10 DEF RowsInv, CompilerOK
<1>12. ASSUME NEW a \in Authors PROVE AuthorInv(a)
  BY <1>1, <1>10, NoRequestOK DEF AuthorInv
<1>13. ASSUME NEW b \in Builders PROVE BuilderInv(b)
  BY <1>1, NoBuildOK DEF BuilderInv
<1>14. ASSUME NEW p \in Posters PROVE PosterInv(p)
  <2>1. poster[p] = NoPosting
    BY <1>1
  <2>2. Len(NoPosting.files) = 0 /\ Len(NoPosting.names) = 0 /\ 1..0 = {} /\ 0 <= 0
    BY NoPostingOK
  <2> QED BY <2>1, <2>2, NoPostingOK DEF PosterInv, PostOps, CompilerOps
<1>15. ASSUME NEW r \in Readers PROVE ReaderInv(r)
  BY <1>1, <1>4 DEF ReaderInv
<1> QED BY <1>7, <1>8, <1>9, <1>11, <1>12, <1>13, <1>14, <1>15 DEF IInv

\* Every step of a request or a task for the problem.
LEMMA PackageStep ==
  ASSUME IInv, PackageNext, UNCHANGED postVars
  PROVE  IInv' /\ FilesGrow
<1>1. CASE \E a \in Authors :
        \/ \E op \in RequestOps, p \in Packages \cup {""} : Request(a, op, p)
        \/ UploadRow(a) \/ UploadContent(a) \/ RequestFails(a)
        \/ CreateProblem(a) \/ UpdateProblem(a) \/ UpdateProblemTitle(a) \/ DeleteProblem(a)
        \/ \E compile \in BOOLEAN : RebuildProblem(a, compile)
  <2> PICK a \in Authors :
        \/ \E op \in RequestOps, p \in Packages \cup {""} : Request(a, op, p)
        \/ UploadRow(a) \/ UploadContent(a) \/ RequestFails(a)
        \/ CreateProblem(a) \/ UpdateProblem(a) \/ UpdateProblemTitle(a) \/ DeleteProblem(a)
        \/ \E compile \in BOOLEAN : RebuildProblem(a, compile)
    BY <1>1
  <2>1. CASE \E op \in RequestOps, p \in Packages \cup {""} : Request(a, op, p)
    BY <2>1, RequestStep, Zenon
  <2>2. CASE UploadRow(a)
    BY <2>2, UploadRowStep
  <2>3. CASE UploadContent(a)
    BY <2>3, UploadContentStep
  <2>4. CASE CreateProblem(a)
    BY <2>4, CreateProblemStep
  <2>5. CASE UpdateProblem(a)
    BY <2>5, UpdateProblemStep
  <2>6. CASE \/ UpdateProblemTitle(a) \/ DeleteProblem(a) \/ RequestFails(a)
             \/ \E compile \in BOOLEAN : RebuildProblem(a, compile)
    BY <2>6, AuthorEndStep
  <2> QED BY <2>1, <2>2, <2>3, <2>4, <2>5, <2>6, Zenon
<1>2. CASE \E b \in Builders :
        \/ \E t \in Builds : StartBuild(b, t)
        \/ BuildUploadRow(b) \/ BuildUploadContent(b) \/ CommitBuild(b) \/ BuildFails(b)
  BY <1>2, StartBuildStep, BuildUploadRowStep, BuildUploadContentStep, CommitBuildStep,
     BuildFailsStep, Zenon
<1>3. CASE \E r \in Readers, key \in FileKeys, etag \in Etags : ObserveProblemContent(r, key, etag)
  <2>1. PICK r \in Readers, etag \in Etags : \E q \in resource :
          q.file # 0 /\ ObserveFileContent(r, q.file, etag) /\ UNCHANGED packageVars
    BY <1>3 DEF ObserveProblemContent
  <2>2. PICK q \in resource : q.file # 0 /\ ObserveFileContent(r, q.file, etag)
    BY <2>1
  <2>3. PICK f : f = q.file
    OBVIOUS
  <2>4. f \in Files
    BY <2>2, <2>3 DEF IInv, RowsInv, ResourceOK, Available
  <2> QED BY <2>1, <2>2, <2>3, <2>4, ObserveStep
<1> QED BY <1>1, <1>2, <1>3 DEF PackageNext

\* Every step of a request for a post or a compiler.
LEMMA PostStep ==
  ASSUME IInv, PostNext, UNCHANGED packageVars
  PROVE  IInv' /\ FilesGrow
<1>1. CASE \E p \in Posters :
        \/ Begins(p) \/ PostUploadRow(p) \/ PostUploadContent(p) \/ PostingFails(p)
        \/ CreatePost(p) \/ UpdatePost(p) \/ DeletePost(p)
        \/ CreateCompiler(p) \/ UpdateCompiler(p) \/ DeleteCompiler(p)
  BY <1>1, BeginSteps, PostUploadRowStep, PostUploadContentStep, PosterEndStep, CommitPostStep,
     CompilerSteps, Zenon
<1>2. CASE \E r \in Readers, name \in PostNames, etag \in Etags : ObservePostContent(r, name, etag)
  <2>1. PICK r \in Readers, etag \in Etags : \E q \in postFile :
          ObserveFileContent(r, q.file, etag) /\ UNCHANGED postVars
    BY <1>2 DEF ObservePostContent
  <2>2. PICK q \in postFile : ObserveFileContent(r, q.file, etag)
    BY <2>1
  <2>3. PICK f : f = q.file
    OBVIOUS
  <2>4. f \in Files
    BY <2>2, <2>3 DEF IInv, RowsInv, Available
  <2> QED BY <2>1, <2>2, <2>3, <2>4, ObserveStep
<1> QED BY <1>1, <1>2, Zenon DEF PostNext, Begins

\* Every step keeps the invariant.
LEMMA NextInvariant ==
  ASSUME IInv, [FilesNext]_<<fileVars, packageVars, postVars>>
  PROVE  IInv' /\ FilesGrow
<1>1. CASE PackageNext /\ UNCHANGED postVars
  BY <1>1, PackageStep
<1>2. CASE PostNext /\ UNCHANGED packageVars
  BY <1>2, PostStep
<1>3. CASE FileNext /\ UNCHANGED <<packageVars, postVars>>
  <2>1. UNCHANGED packageVars /\ UNCHANGED postVars
    BY <1>3, Zenon
  <2> QED BY <1>3, <2>1, ObserveStep, WaitAndDownloadStep, ExpireStep, Zenon DEF FileNext
<1>4. CASE UNCHANGED <<fileVars, packageVars, postVars>>
  <2>1. UNCHANGED <<file, reader, problem, resource, resources, author, builder>>
        /\ UNCHANGED postVars
    BY <1>4 DEF fileVars, packageVars
  <2> QED BY <2>1, NothingChanges
<1> QED BY <1>1, <1>2, <1>3, <1>4, Zenon DEF FilesNext

\* Nobody writes to a file that another request holds, available files are
\* whole, and rows refer to available files, those that requests have read and
\* are still to write included.
THEOREM Invariant == FilesSpec => []IInv
<1>1. FilesInit => IInv
  BY InitInvariant
<1>2. IInv /\ [FilesNext]_<<fileVars, packageVars, postVars>> => IInv'
  BY NextInvariant
<1> QED BY <1>1, <1>2, PTL DEF FilesSpec

\* For any number of requests, tasks and readers, rows of problems, posts and
\* compilers refer to whole files, and readers are served whole ones.
THEOREM FilesAreAvailable == FilesSpec => []FilesAvailable
<1>1. IInv => FilesAvailable
  <2> SUFFICES ASSUME IInv PROVE FilesAvailable
    OBVIOUS
  <2>1. \A f : Available(f) => /\ file[f].status = "available" /\ file[f].md5 = file[f].blob
                               /\ file[f].blob # Nothing
    BY DEF IInv, AvailableIsWhole, Whole, Available
  <2>2. RowsInv
    BY DEF IInv
  <2>3. \A r \in resource : ((r.file # 0) <=> (r.key \in FileKeys))
                            /\ (r.file # 0 => Available(r.file))
    BY <2>2 DEF RowsInv, ResourceOK
  <2>4. ReferencedFilesAvailable
    <3>1. ASSUME NEW f \in ({problem.package, problem.compiled} \cup {r.file : r \in resource})
                         \ {0}
          PROVE  Available(f)
      <4>1. CASE f = problem.package
        BY <2>2, <4>1 DEF RowsInv, ProblemOK, PackageFile
      <4>2. CASE f = problem.compiled
        BY <2>2, <4>2 DEF RowsInv, ProblemOK
      <4>3. CASE f \in {r.file : r \in resource}
        BY <2>3, <4>3
      <4> QED BY <4>1, <4>2, <4>3
    <3> QED BY <2>1, <2>3, <3>1 DEF ReferencedFilesAvailable
  <2>5. PostFilesAvailable
    <3>1. ASSUME NEW f \in {r.file : r \in postFile} \cup ({compiler.image} \ {0})
          PROVE  Available(f)
      BY <2>2 DEF RowsInv, CompilerOK
    <3> QED BY <2>1, <3>1 DEF PostFilesAvailable
  <2>6. ServedContentIsWhole
    <3>1. \A r \in Readers : reader[r].pc = "done" =>
            Available(reader[r].file) /\ reader[r].got = file[reader[r].file].blob
      BY DEF IInv, ReaderInv
    <3> QED BY <2>1, <3>1 DEF ServedContentIsWhole
  <2> QED BY <2>4, <2>5, <2>6 DEF FilesAvailable
<1> QED BY <1>1, Invariant, PTL

\* A request that creates a post deletes no files.
CreatesOnly == \A p \in Posters : poster[p].op = "create post" => poster[p].deletes = {}

\* That stays so.
LEMMA CreatesOnlyStays ==
  ASSUME IInv, CreatesOnly, [FilesNext]_<<fileVars, packageVars, postVars>>
  PROVE  CreatesOnly'
<1>1. poster \in [Posters -> PosterState]
  BY DEF IInv, FilesTypeOK
<1>2. ASSUME NEW p \in Posters, NEW v, PosterAt(p, v),
             v.op = "create post" => v.deletes = {} \/ (v.op = poster[p].op
                                                         /\ v.deletes = poster[p].deletes)
      PROVE  CreatesOnly'
  BY <1>1, <1>2 DEF PosterAt, CreatesOnly
<1>3. CASE UNCHANGED poster
  BY <1>3 DEF CreatesOnly
<1>4. ASSUME NEW p \in Posters, PosterAt(p, NoPosting) PROVE CreatesOnly'
  BY <1>2, <1>4, NoPostingOK
<1>5. ASSUME NEW p \in Posters, NEW op, NEW row, NEW names, NEW deletes,
             Begin(p, op, row, names, deletes), op = "create post" => deletes = {}
      PROVE  CreatesOnly'
  <2>1. PICK v : v = [pc |-> "upload", op |-> op, row |-> row, names |-> names,
                      deletes |-> deletes, files |-> <<>>]
    OBVIOUS
  <2>2. v.op = op /\ v.deletes = deletes
    BY <2>1
  <2>3. PosterAt(p, v)
    BY <1>5, <2>1 DEF Begin
  <2> QED BY <1>2, <1>5, <2>2, <2>3
<1>6. ASSUME NEW p \in Posters, Begins(p) PROVE CreatesOnly'
  <2>1. ASSUME NEW publish, NEW names, BeginCreatePost(p, publish, names) PROVE CreatesOnly'
    BY <1>5, <2>1 DEF BeginCreatePost
  <2>2. ASSUME NEW publish, NEW names, NEW deletes, BeginUpdatePost(p, publish, names, deletes)
        PROVE  CreatesOnly'
    BY <1>5, <2>2 DEF BeginUpdatePost
  <2>3. ASSUME BeginDeletePost(p) PROVE CreatesOnly'
    BY <1>5, <2>3 DEF BeginDeletePost
  <2>4. ASSUME NEW op, NEW names, BeginCompiler(p, op, names) PROVE CreatesOnly'
    BY <1>5, <2>4 DEF BeginCompiler
  <2> QED BY <1>6, <2>1, <2>2, <2>3, <2>4, Zenon DEF Begins
<1>7. ASSUME NEW p \in Posters, PostUploadRow(p) \/ PostUploadContent(p) PROVE CreatesOnly'
  <2>1. PICK q \in PosterState : q = poster[p]
    BY <1>1
  <2>2. CASE PostUploadRow(p)
    <3>1. PICK v : v = [q EXCEPT !.pc = "write", !.files = Append(q.files, NewFile)]
      OBVIOUS
    <3>2. v.op = q.op /\ v.deletes = q.deletes
      BY <3>1 DEF PosterState
    <3>3. PosterAt(p, v)
      BY <2>1, <2>2, <3>1 DEF PostUploadRow
    <3> QED BY <1>2, <2>1, <3>2, <3>3
  <2>3. CASE PostUploadContent(p)
    <3>1. PICK v : v = [q EXCEPT !.pc = "upload"]
      OBVIOUS
    <3>2. v.op = q.op /\ v.deletes = q.deletes
      BY <3>1 DEF PosterState
    <3>3. PosterAt(p, v)
      BY <2>1, <2>3, <3>1 DEF PostUploadContent
    <3> QED BY <1>2, <2>1, <3>2, <3>3
  <2> QED BY <1>7, <2>2, <2>3
<1>8. ASSUME NEW p \in Posters,
             \/ PostingFails(p) \/ CreatePost(p) \/ UpdatePost(p) \/ DeletePost(p)
             \/ CreateCompiler(p) \/ UpdateCompiler(p) \/ DeleteCompiler(p)
      PROVE  CreatesOnly'
  <2>1. PosterAt(p, NoPosting)
    BY <1>8 DEF PostingFails, CreatePost, UpdatePost, DeletePost, CommitPost, CreateCompiler,
                UpdateCompiler, DeleteCompiler, SetCompiler
  <2> QED BY <1>4, <2>1
<1>9. CASE PostNext
  <2>1. CASE \E p \in Posters :
          \/ Begins(p) \/ PostUploadRow(p) \/ PostUploadContent(p) \/ PostingFails(p)
          \/ CreatePost(p) \/ UpdatePost(p) \/ DeletePost(p)
          \/ CreateCompiler(p) \/ UpdateCompiler(p) \/ DeleteCompiler(p)
    BY <1>6, <1>7, <1>8, <2>1, Zenon
  <2>2. CASE UNCHANGED postVars
    BY <1>3, <2>2 DEF postVars
  <2> QED BY <1>9, <2>1, <2>2, Zenon DEF PostNext, Begins, ObservePostContent
<1>10. CASE UNCHANGED postVars
  BY <1>3, <1>10 DEF postVars
<1> QED BY <1>9, <1>10, Zenon DEF FilesNext

\* A name that a post had is gone.
Loses ==
    \A r \in postFile : r.name \notin {q.name : q \in postFile'} =>
        \E p \in Posters : poster[p].op = "update post" /\ poster'[p].pc = "idle"
                             /\ r.id \in poster[p].deletes /\ r.name \notin ToSet(poster[p].names)

\* A transaction loses only what its request deletes and does not replace.
LEMMA CommitLoses ==
  ASSUME IInv, CreatesOnly, NEW p \in Posters, CreatePost(p) \/ UpdatePost(p)
  PROVE  Loses
<1> SUFFICES ASSUME NEW r \in postFile, r.name \notin {q.name : q \in postFile'}
             PROVE  /\ poster[p].op = "update post" /\ poster'[p].pc = "idle"
                    /\ r.id \in poster[p].deletes /\ r.name \notin ToSet(poster[p].names)
  BY DEF Loses
<1>1. postFile' = Kept(p) \cup Inserted(p) /\ PosterAt(p, NoPosting)
  BY DEF CreatePost, UpdatePost, CommitPost
<1>2. poster'[p].pc = "idle"
  <2>1. poster'[p] = NoPosting
    BY <1>1 DEF PosterAt, IInv, FilesTypeOK
  <2> QED BY <2>1, NoPostingOK
<1>3. r \notin Kept(p)
  BY <1>1
<1>4. r.id \in poster[p].deletes
  BY <1>3 DEF Kept
<1>5. poster[p].op = "update post"
  BY <1>4 DEF CreatePost, UpdatePost, Uploaded, CreatesOnly
<1>6. r.name \notin ToSet(poster[p].names)
  <2> SUFFICES ASSUME r.name \in ToSet(poster[p].names) PROVE FALSE
    OBVIOUS
  <2>1. PICK i \in DOMAIN poster[p].names : r.name = poster[p].names[i]
    BY DEF ToSet
  <2>2. PICK q : q = [id |-> postFiles + i, name |-> poster[p].names[i],
                      file |-> poster[p].files[i]]
    OBVIOUS
  <2>3. q \in Inserted(p) /\ q.name = r.name
    BY <2>1, <2>2 DEF Inserted
  <2> QED BY <1>1, <2>3
<1> QED BY <1>2, <1>4, <1>5, <1>6

\* The other steps lose nothing.
LEMMA NothingLost ==
  ASSUME UNCHANGED postFile
  PROVE  Loses
BY DEF Loses

\* For any number of requests and names, a post loses a file only with a request
\* that deletes it and does not replace it (updatePost deletes before it inserts).
THEOREM PostsKeepFiles == FilesSpec => PostKeepsItsFiles
<1>1. FilesInit => CreatesOnly
  <2> SUFFICES ASSUME FilesInit PROVE CreatesOnly
    OBVIOUS
  <2>1. \A p \in Posters : poster[p] = NoPosting
    BY DEF FilesInit, PostInit
  <2> QED BY <2>1, NoPostingOK DEF CreatesOnly
<1>2. IInv /\ CreatesOnly /\ [FilesNext]_<<fileVars, packageVars, postVars>> => CreatesOnly'
  BY CreatesOnlyStays
<1>3. IInv /\ CreatesOnly /\ [FilesNext]_<<fileVars, packageVars, postVars>> => [Loses]_postVars
  <2> SUFFICES ASSUME IInv, CreatesOnly, PostNext PROVE Loses \/ UNCHANGED postVars
    BY Zenon DEF FilesNext
  <2>1. CASE \E p \in Posters : CreatePost(p) \/ UpdatePost(p)
    BY <2>1, CommitLoses
  <2>2. CASE UNCHANGED postFile
    BY <2>2, NothingLost
  <2>3. ASSUME NEW p \in Posters, Begins(p) PROVE UNCHANGED postFile
    BY <2>3 DEF Begins, Begin, BeginCreatePost, BeginUpdatePost, BeginDeletePost, BeginCompiler
  <2>4. ASSUME NEW p \in Posters,
               \/ PostUploadRow(p) \/ PostUploadContent(p) \/ PostingFails(p) \/ DeletePost(p)
               \/ CreateCompiler(p) \/ UpdateCompiler(p) \/ DeleteCompiler(p)
        PROVE  UNCHANGED postFile
    BY <2>4 DEF PostUploadRow, PostUploadContent, PostingFails, DeletePost, CreateCompiler,
                UpdateCompiler, DeleteCompiler, SetCompiler
  <2>5. CASE \E r \in Readers, name \in PostNames, etag \in Etags :
               ObservePostContent(r, name, etag)
    BY <2>5 DEF ObservePostContent
  <2> QED BY <2>1, <2>2, <2>3, <2>4, <2>5, Zenon DEF PostNext, Begins
<1>4. PostKeepsItsFiles <=> [][Loses]_postVars
  BY PTL DEF PostKeepsItsFiles, Loses
<1> QED BY <1>1, <1>2, <1>3, <1>4, Invariant, PTL DEF FilesSpec

--------------------------------------------------------------------------------
(* What a task has planned *)

KeysOf(rows) == {r.key : r \in rows}
UniqueIds(rows) == \A r, q \in rows : r.id = q.id => r = q
Winners(rows) ==
    \A k \in KeysOf(rows) : Winner(rows, k) \in rows /\ Winner(rows, k).key = k
Delete(r) == [kind |-> "delete", row |-> r]
Update(rows, content, k) ==
    [kind |-> "update", row |-> [Winner(rows, k) EXCEPT !.value = content[k]]]
Create(content, k) ==
    [kind |-> "create", row |-> [id |-> 0, key |-> k, value |-> content[k], file |-> 0]]

\* A row that stands for its key, which the package has.
Stands(rows, content, r) == r = Winner(rows, r.key) /\ r.key \in DOMAIN content
\* The events delete the rows that do not stand, update some that do, and create
\* the missing ones.
Planned(rows, content, events) ==
    /\ \A e \in events :
        \/ \E r \in rows : ~Stands(rows, content, r) /\ e = Delete(r)
        \/ \E k \in KeysOf(rows) \cap DOMAIN content : e = Update(rows, content, k)
        \/ \E k \in DOMAIN content \ KeysOf(rows) : e = Create(content, k)
    /\ \A r \in rows : ~Stands(rows, content, r) => Delete(r) \in events
    /\ \A k \in DOMAIN content \ KeysOf(rows) : Create(content, k) \in events
\* A row that is not updated has the content of the package already.
HasContent(r, content) ==
    /\ r.key \in FileKeys /\ Available(r.file)
    /\ file[r.file].blob = Content("resource", content[r.key])
UpdatedOrSame(rows, content, events) ==
    \A k \in KeysOf(rows) \cap DOMAIN content :
        Update(rows, content, k) \in events \/ HasContent(Winner(rows, k), content)

\* A task at work runs, uploads the compiled package when it has to, and its
\* events turn the rows it has read into those of its package.
BuildInv(b) ==
    builder[b].pc # "idle" =>
        /\ builder[b].task \in Builds /\ task[builder[b].task].status = "running"
        /\ task[builder[b].task].compile =>
             \E i \in 1..Len(builder[b].uploads) : builder[b].uploads[i].key = ""
        /\ UniqueIds(builder[b].rows) /\ Winners(builder[b].rows)
        /\ Planned(builder[b].rows, ContentOf[builder[b].package], builder[b].events)
        /\ UpdatedOrSame(builder[b].rows, ContentOf[builder[b].package], builder[b].events)
DistinctTasks ==
    \A b, c \in Builders :
        builder[b].pc # "idle" /\ builder[c].pc # "idle" /\ builder[b].task = builder[c].task
            => b = c
TaskRow == [status : {"none", "queued", "running", "succeeded", "failed"}, file : 0..MaxFile,
            compile : BOOLEAN]
BuildsInv ==
    /\ task \in [Builds -> TaskRow] /\ UniqueIds(resource) /\ DistinctTasks
    /\ \A b \in Builders : BuildInv(b)

\* Files that have the content of the package keep it.
LEMMA SameStays ==
  ASSUME FilesGrow, NEW rows, NEW content, NEW events, UpdatedOrSame(rows, content, events)
  PROVE  UpdatedOrSame(rows, content, events)'
<1>1. ASSUME NEW r, HasContent(r, content) PROVE HasContent(r, content)'
  BY <1>1 DEF HasContent, FilesGrow, Available
<1> QED BY <1>1 DEF UpdatedOrSame

\* A task that has uploaded more, or nothing.
LEMMA BuildStays ==
  ASSUME FilesGrow, NEW b \in Builders, BuildInv(b), builder[b].pc # "idle", NEW v,
         builder'[b] = v, v.task = builder[b].task, v.rows = builder[b].rows,
         v.package = builder[b].package, v.events = builder[b].events,
         Len(v.uploads) = Len(builder[b].uploads),
         \A i \in 1..Len(v.uploads) : v.uploads[i].key = builder[b].uploads[i].key,
         task'[builder[b].task] = task[builder[b].task]
  PROVE  BuildInv(b)'
<1>1. /\ v.task \in Builds /\ task'[v.task].status = "running"
      /\ task'[v.task].compile => \E i \in 1..Len(v.uploads) : v.uploads[i].key = ""
      /\ UniqueIds(v.rows) /\ Winners(v.rows)
      /\ Planned(v.rows, ContentOf[v.package], v.events)
  BY DEF BuildInv
<1>2. UpdatedOrSame(v.rows, ContentOf[v.package], v.events)
  BY DEF BuildInv
<1>3. PICK rows, content, events :
        rows = v.rows /\ content = ContentOf[v.package] /\ events = v.events
  OBVIOUS
<1>4. UpdatedOrSame(rows, content, events)'
  BY <1>2, <1>3, SameStays
<1> QED BY <1>1, <1>3, <1>4 DEF BuildInv

\* Tasks that exist are left alone.
TasksStay ==
    /\ task' \in [Builds -> TaskRow]
    /\ \A t \in Builds : task[t].status # "none" => task'[t] = task[t]

\* Steps of others: they may delete resources and create tasks.
LEMMA BuildsStay ==
  ASSUME BuildsInv, FilesGrow, UNCHANGED builder, resource' \subseteq resource, TasksStay
  PROVE  BuildsInv'
<1>1. DistinctTasks' /\ UniqueIds(resource)' /\ (task \in [Builds -> TaskRow])'
  BY DEF BuildsInv, DistinctTasks, UniqueIds, TasksStay
<1>2. ASSUME NEW b \in Builders PROVE BuildInv(b)'
  <2>1. CASE builder[b].pc = "idle"
    BY <2>1 DEF BuildInv
  <2>2. CASE builder[b].pc # "idle"
    <3>1. BuildInv(b)
      BY DEF BuildsInv
    <3>2. task'[builder[b].task] = task[builder[b].task]
      BY <2>2, <3>1 DEF BuildInv, TasksStay
    <3> QED BY <2>2, <3>1, <3>2, BuildStays
  <2> QED BY <2>1, <2>2
<1> QED BY <1>1, <1>2 DEF BuildsInv

\* A step of a task, for the others.
LEMMA OthersStay ==
  ASSUME BuildsInv, FilesGrow, NEW b \in Builders,
         \A c \in Builders \ {b} : builder'[c] = builder[c], NEW u,
         \A t \in Builds : t # u => task'[t] = task[t],
         \A c \in Builders \ {b} : builder[c].pc # "idle" => builder[c].task # u
  PROVE  \A c \in Builders \ {b} : BuildInv(c)'
<1> SUFFICES ASSUME NEW c \in Builders \ {b} PROVE BuildInv(c)'
  OBVIOUS
<1>1. BuildInv(c) /\ builder'[c] = builder[c]
  BY DEF BuildsInv
<1>2. CASE builder[c].pc = "idle"
  BY <1>1, <1>2 DEF BuildInv
<1>3. CASE builder[c].pc # "idle"
  <2>1. task'[builder[c].task] = task[builder[c].task]
    BY <1>1, <1>3 DEF BuildInv
  <2> QED BY <1>1, <1>3, <2>1, BuildStays
<1> QED BY <1>2, <1>3

\* A new task is a free one.
LEMMA TaskCreated ==
  ASSUME task \in [Builds -> TaskRow], NEW f \in 0..MaxFile, NEW compile \in BOOLEAN,
         CreateTask(f, compile)
  PROVE  TasksStay
<1>1. FreeBuilds \subseteq Builds /\ Builds \subseteq Nat /\ FreeBuilds # {}
  <2>1. MaxBuild \in Nat
    BY PackageAssumption, Zenon
  <2> QED BY <2>1 DEF FreeBuilds, Builds, CreateTask
<1>2. \E x \in FreeBuilds : \A y \in FreeBuilds : x <= y
  BY <1>1, LeastNumber
<1>3. PICK u : u = Min(FreeBuilds)
  OBVIOUS
<1>4. u \in FreeBuilds
  BY <1>2, <1>3 DEF Min
<1>5. u \in Builds /\ task[u].status = "none"
  BY <1>4 DEF FreeBuilds
<1>6. PICK row : row = [status |-> "queued", file |-> f, compile |-> compile]
  OBVIOUS
<1>7. row \in TaskRow
  BY <1>6 DEF TaskRow
<1>8. task' = [task EXCEPT ![u] = row]
  BY <1>3, <1>6 DEF CreateTask
<1> QED BY <1>5, <1>7, <1>8 DEF TasksStay

\* Requests leave tasks at work alone.
LEMMA AuthorLeaves ==
  ASSUME IInv, BuildsInv, NEW a \in Authors,
         \/ \E op \in RequestOps, p \in Packages \cup {""} : Request(a, op, p)
         \/ UploadRow(a) \/ UploadContent(a) \/ RequestFails(a)
         \/ CreateProblem(a) \/ UpdateProblem(a) \/ UpdateProblemTitle(a) \/ DeleteProblem(a)
         \/ \E compile \in BOOLEAN : RebuildProblem(a, compile)
  PROVE  UNCHANGED builder /\ resource' \subseteq resource /\ TasksStay
<1>1. task \in [Builds -> TaskRow]
  BY DEF BuildsInv
<1>2. ASSUME UNCHANGED task PROVE TasksStay
  BY <1>1, <1>2 DEF TasksStay
<1>3. author[a] \in AuthorState
  BY DEF IInv, FilesTypeOK
<1>4. author[a].file \in 0..MaxFile /\ author[a].row.package \in 0..MaxFile
  BY <1>3 DEF AuthorState, ProblemRow
<1>5. CASE \E op \in RequestOps, p \in Packages \cup {""} : Request(a, op, p)
  <2>1. UNCHANGED <<resource, task, builder>>
    BY <1>5 DEF Request
  <2> QED BY <1>2, <2>1
<1>6. CASE UploadRow(a) \/ UploadContent(a) \/ RequestFails(a) \/ UpdateProblemTitle(a)
  <2>1. UNCHANGED <<resource, task, builder>>
    BY <1>6 DEF UploadRow, UploadContent, RequestFails, UpdateProblemTitle
  <2> QED BY <1>2, <2>1
<1>7. CASE CreateProblem(a) \/ UpdateProblem(a)
  <2>1. UNCHANGED <<resource, builder>> /\ CreateTask(author[a].file, TRUE)
    BY <1>7 DEF CreateProblem, UpdateProblem
  <2>2. TasksStay
    BY <1>1, <1>4, <2>1, TaskCreated
  <2> QED BY <2>1, <2>2
<1>8. CASE DeleteProblem(a)
  <2>1. resource' = {} /\ UNCHANGED <<task, builder>>
    BY <1>8 DEF DeleteProblem
  <2> QED BY <1>2, <2>1
<1>9. CASE \E compile \in BOOLEAN : RebuildProblem(a, compile)
  <2>1. PICK compile \in BOOLEAN :
          /\ UNCHANGED <<resource, builder>>
          /\ CreateTask(author[a].row.package, author[a].row.compiled = 0 \/ compile)
    BY <1>9 DEF RebuildProblem
  <2>2. PICK c : c = (author[a].row.compiled = 0 \/ compile)
    OBVIOUS
  <2>3. c \in BOOLEAN /\ CreateTask(author[a].row.package, c)
    BY <2>1, <2>2
  <2>4. TasksStay
    BY <1>1, <1>4, <2>3, TaskCreated
  <2> QED BY <2>1, <2>4
<1> QED BY <1>5, <1>6, <1>7, <1>8, <1>9, Zenon

\* The task of a step, in the table.
LEMMA TaskMoves ==
  ASSUME task \in [Builds -> TaskRow], NEW t \in Builds,
         NEW s \in {"running", "succeeded", "failed"}, task' = [task EXCEPT ![t].status = s]
  PROVE  /\ task' \in [Builds -> TaskRow] /\ task'[t].status = s
         /\ task'[t].compile = task[t].compile /\ \A u \in Builds : u # t => task'[u] = task[u]
<1>1. PICK row : row = [task[t] EXCEPT !.status = s]
  OBVIOUS
<1>2. row \in TaskRow /\ row.status = s /\ row.compile = task[t].compile
  BY <1>1 DEF TaskRow
<1>3. task' = [task EXCEPT ![t] = row]
  BY <1>1
<1> QED BY <1>2, <1>3

\* A task that is over leaves the others.
LEMMA BuildEnds ==
  ASSUME IInv, BuildsInv, FilesGrow, NEW b \in Builders, builder[b].pc # "idle",
         BuildAt(b, NoBuild), NEW s \in {"succeeded", "failed"},
         task' = [task EXCEPT ![builder[b].task].status = s]
  PROVE  /\ task' \in [Builds -> TaskRow] /\ DistinctTasks' /\ \A c \in Builders : BuildInv(c)'
         /\ task'[builder[b].task].status = s
         /\ \A u \in Builds : u # builder[b].task => task'[u] = task[u]
<1>1. PICK t \in Builds : t = builder[b].task
  BY DEF BuildsInv, BuildInv
<1>2. task' \in [Builds -> TaskRow] /\ task'[t].status = s
      /\ \A u \in Builds : u # t => task'[u] = task[u]
  <2>1. task \in [Builds -> TaskRow] /\ task' = [task EXCEPT ![t].status = s]
    BY <1>1 DEF BuildsInv
  <2> QED BY <2>1, TaskMoves
<1>3. builder'[b] = NoBuild /\ \A c \in Builders \ {b} : builder'[c] = builder[c]
  BY DEF BuildAt, IInv, FilesTypeOK
<1>4. \A c \in Builders \ {b} : builder[c].pc # "idle" => builder[c].task # t
  BY <1>1 DEF BuildsInv, DistinctTasks
<1>5. \A c \in Builders \ {b} : BuildInv(c)'
  BY <1>2, <1>3, <1>4, OthersStay
<1>6. BuildInv(b)'
  BY <1>3, NoBuildOK DEF BuildInv
<1>7. DistinctTasks'
  BY <1>3, NoBuildOK DEF BuildsInv, DistinctTasks
<1> QED BY <1>1, <1>2, <1>5, <1>6, <1>7

\* The events of a task are what it has to do.
LEMMA EventsArePlanned ==
  ASSUME FilesTypeOK, RowsInv, AvailableIsWhole, NEW content, NEW events,
         events = Events(resource, content)
  PROVE  /\ Winners(resource) /\ Planned(resource, content, events)
         /\ UpdatedOrSame(resource, content, events)
<1>1. PICK keys : keys = {r.key : r \in resource}
  OBVIOUS
<1>2. PICK winner : winner = [k \in keys |-> Winner(resource, k)]
  OBVIOUS
<1>3. \A k \in keys : winner[k] = Winner(resource, k)
  BY <1>2
<1>4. \A r \in resource : r.key \in keys
  BY <1>1
<1>5. Winners(resource)
  <2>1. ASSUME NEW k \in keys PROVE Winner(resource, k) \in resource /\ Winner(resource, k).key = k
    <3>1. \E r \in resource : r.key = k
      BY <1>1
    <3> QED BY <3>1, WinnerOf
  <2> QED BY <1>1, <2>1 DEF Winners, KeysOf
<1>6. PICK DeleteOthers : DeleteOthers =
        {[kind |-> "delete", row |-> r] : r \in {q \in resource : q # winner[q.key]}}
  OBVIOUS
<1>7. PICK DeleteGone : DeleteGone =
        {[kind |-> "delete", row |-> winner[k]] : k \in keys \ DOMAIN content}
  OBVIOUS
<1>8. PICK changed : changed =
        {j \in keys \cap DOMAIN content :
           ~(j \in FileKeys /\ winner[j].file # 0
              /\ file[winner[j].file].md5 = Content("resource", content[j]))}
  OBVIOUS
<1>9. PICK Updates : Updates =
        {[kind |-> "update", row |-> [winner[k] EXCEPT !.value = content[k]]] : k \in changed}
  OBVIOUS
<1>10. PICK Creates : Creates =
         {[kind |-> "create", row |-> [id |-> 0, key |-> k, value |-> content[k], file |-> 0]] :
            k \in NewKeys(resource, content)}
  OBVIOUS
<1>11. events = DeleteOthers \cup DeleteGone \cup Updates \cup Creates
  <2>1. Events(resource, content) = DeleteOthers \cup DeleteGone \cup Updates \cup Creates
    BY <1>1, <1>2, <1>6, <1>7, <1>8, <1>9, <1>10, Zenon DEF Events
  <2> QED BY <2>1
<1>12. NewKeys(resource, content) = DOMAIN content \ keys
  BY <1>1 DEF NewKeys
<1>13. \A k \in changed : [kind |-> "update", row |-> [winner[k] EXCEPT !.value = content[k]]]
                            = Update(resource, content, k)
  BY <1>3, <1>8 DEF Update
<1>14. \A e \in Updates : \E k \in changed : e = Update(resource, content, k)
  BY <1>9, <1>13
<1>15. \A k \in changed : Update(resource, content, k) \in Updates
  BY <1>9, <1>13
<1>16. \A e \in DeleteOthers : \E r \in resource : r # Winner(resource, r.key) /\ e = Delete(r)
  BY <1>3, <1>4, <1>6 DEF Delete
<1>17. \A r \in resource : r # Winner(resource, r.key) => Delete(r) \in DeleteOthers
  BY <1>3, <1>4, <1>6 DEF Delete
<1>18. \A e \in DeleteGone : \E k \in keys \ DOMAIN content : e = Delete(Winner(resource, k))
  BY <1>3, <1>7 DEF Delete
<1>19. \A k \in keys \ DOMAIN content : Delete(Winner(resource, k)) \in DeleteGone
  BY <1>3, <1>7 DEF Delete
<1>20. \A e \in Creates : \E k \in DOMAIN content \ keys : e = Create(content, k)
  BY <1>10, <1>12 DEF Create
<1>21. \A k \in DOMAIN content \ keys : Create(content, k) \in Creates
  BY <1>10, <1>12 DEF Create
<1>22. \A k \in keys : Winner(resource, k) \in resource /\ Winner(resource, k).key = k
  BY <1>1, <1>5 DEF Winners, KeysOf
<1>23. ASSUME NEW e \in events
       PROVE  \/ \E r \in resource : ~Stands(resource, content, r) /\ e = Delete(r)
              \/ \E k \in keys \cap DOMAIN content : e = Update(resource, content, k)
              \/ \E k \in DOMAIN content \ keys : e = Create(content, k)
  <2>1. CASE e \in DeleteOthers
    BY <1>16, <2>1 DEF Stands
  <2>2. CASE e \in DeleteGone
    <3>1. PICK k \in keys \ DOMAIN content : e = Delete(Winner(resource, k))
      BY <1>18, <2>2
    <3>2. PICK r \in resource : r = Winner(resource, k) /\ r.key = k
      BY <1>22, <3>1
    <3>3. ~Stands(resource, content, r) /\ e = Delete(r)
      BY <3>1, <3>2 DEF Stands
    <3> QED BY <3>3
  <2>3. CASE e \in Updates
    BY <1>8, <1>14, <2>3
  <2>4. CASE e \in Creates
    BY <1>20, <2>4
  <2> QED BY <1>11, <2>1, <2>2, <2>3, <2>4
<1>24. ASSUME NEW r \in resource, ~Stands(resource, content, r) PROVE Delete(r) \in events
  <2>1. CASE r # Winner(resource, r.key)
    BY <1>11, <1>17, <2>1
  <2>2. CASE r = Winner(resource, r.key)
    <3>1. r.key \in keys \ DOMAIN content
      BY <1>4, <1>24, <2>2 DEF Stands
    <3>2. Delete(Winner(resource, r.key)) \in DeleteGone
      BY <1>19, <3>1
    <3> QED BY <1>11, <2>2, <3>2
  <2> QED BY <2>1, <2>2
<1>25. Planned(resource, content, events)
  BY <1>1, <1>11, <1>21, <1>23, <1>24 DEF Planned, KeysOf
<1>26. UpdatedOrSame(resource, content, events)
  <2> SUFFICES ASSUME NEW k \in keys \cap DOMAIN content, Update(resource, content, k) \notin events
               PROVE  HasContent(Winner(resource, k), content)
    BY <1>1 DEF UpdatedOrSame, KeysOf
  <2>1. k \notin changed
    BY <1>11, <1>15
  <2>2. PICK w \in resource : w = Winner(resource, k) /\ w.key = k /\ w = winner[k]
    BY <1>3, <1>22
  <2>3. k \in FileKeys /\ w.file # 0 /\ file[w.file].md5 = Content("resource", content[k])
    BY <1>8, <2>1, <2>2
  <2>4. Available(w.file)
    BY <2>2, <2>3 DEF RowsInv, ResourceOK
  <2>5. file[w.file].blob = Content("resource", content[k])
    BY <2>3, <2>4 DEF Available, AvailableIsWhole, Whole
  <2> QED BY <2>2, <2>3, <2>4, <2>5 DEF HasContent
<1> QED BY <1>5, <1>25, <1>26

\* A sequence with one element in front.
LEMMA Prepended ==
  ASSUME NEW S, NEW one \in S, NEW tail \in Seq(S), NEW us, us = <<one>> \o tail
  PROVE  us[1] = one /\ Len(us) = 1 + Len(tail)
OBVIOUS

\* A task that has to compile uploads the compiled package.
LEMMA CompiledIsUploaded ==
  ASSUME NEW p \in Packages, NEW events,
         \A e \in events : e.kind # "delete" => e.row.key \in DOMAIN ContentOf[p],
         NEW us, us = Uploads(TRUE, p, events)
  PROVE  \E i \in 1..Len(us) : us[i].key = ""
<1>1. PICK keys : keys = {e.row.key : e \in {d \in events : d.kind # "delete"
                                                /\ d.row.key \in FileKeys}}
  OBVIOUS
<1>2. IsFiniteSet(keys)
  <2>1. IsFiniteSet(DOMAIN ContentOf[p])
    BY PackageAssumption, Zenon
  <2>2. keys \subseteq DOMAIN ContentOf[p]
    BY <1>1
  <2> QED BY <2>1, <2>2, FS_Subset
<1>3. PICK f : f = [k \in keys |-> [key |-> k, content |-> Content("resource", ContentOf[p][k]),
                                    file |-> 0]]
  OBVIOUS
<1>4. PICK contents : contents = {f[k] : k \in keys}
  OBVIOUS
<1>5. contents = {[key |-> k, content |-> Content("resource", ContentOf[p][k]), file |-> 0] :
                    k \in keys}
  BY <1>3, <1>4
<1>6. IsFiniteSet(contents)
  BY <1>2, <1>3, <1>4, ImageIsFinite
<1>7. PICK tail : tail = SetToSeq(contents)
  OBVIOUS
<1>8. tail \in Seq(contents)
  BY <1>6, <1>7, SetAsSeq
<1>9. PICK one : one = [key |-> "", content |-> Content("compiled", p), file |-> 0]
  OBVIOUS
<1>10. us = <<one>> \o tail
  BY <1>1, <1>5, <1>7, <1>9 DEF Uploads
<1>11. 1 \in 1..Len(us) /\ us[1] = one
  <2>1. PICK S : S = contents \cup {one}
    OBVIOUS
  <2>2. tail \in Seq(S) /\ one \in S
    BY <1>8, <2>1
  <2>3. us[1] = one /\ Len(us) = 1 + Len(tail)
    BY <1>10, <2>2, Prepended
  <2>4. Len(tail) \in Nat
    BY <2>2
  <2>5. 1 \in 1..(1 + Len(tail))
    BY <2>4
  <2> QED BY <2>3, <2>5, Zenon
<1>12. one.key = ""
  BY <1>9
<1> QED BY <1>11, <1>12

\* A task starts.
LEMMA StartBuildWhole ==
  ASSUME IInv, BuildsInv, FilesGrow, NEW b \in Builders, NEW t \in Builds, StartBuild(b, t)
  PROVE  BuildsInv' /\ task'[t].status \in {"running", "failed"}
                    /\ \A u \in Builds : u # t => task'[u] = task[u]
<1>1. /\ builder[b].pc = "idle" /\ task[t].status = "queued"
      /\ UNCHANGED <<file, problem, resource, resources>>
  BY DEF StartBuild, fileVars
<1>2. FilesTypeOK /\ RowsInv /\ AvailableIsWhole
  BY DEF IInv
<1>3. PICK s \in {"running", "failed"} :
        /\ task' = [task EXCEPT ![t].status = s]
        /\ (s = "running") <=> (problem.status = "exists")
  BY DEF StartBuild
<1>4. /\ task' \in [Builds -> TaskRow] /\ task'[t].status = s
      /\ task'[t].compile = task[t].compile /\ \A u \in Builds : u # t => task'[u] = task[u]
  <2>1. task \in [Builds -> TaskRow] /\ s \in {"running", "succeeded", "failed"}
    BY DEF BuildsInv
  <2> QED BY <1>3, <2>1, TaskMoves
<1>5. \A c \in Builders : builder[c].pc # "idle" => builder[c].task # t
  BY <1>1 DEF BuildsInv, BuildInv
<1>6. UniqueIds(resource)'
  BY <1>1 DEF BuildsInv, UniqueIds
<1>7. CASE problem.status # "exists"
  <2>1. UNCHANGED builder
    BY <1>7 DEF StartBuild
  <2>2. \A c \in Builders \ {b} : BuildInv(c)'
    BY <1>4, <1>5, <2>1, OthersStay
  <2>3. BuildInv(b)'
    BY <1>1, <2>1 DEF BuildInv
  <2>4. DistinctTasks'
    BY <2>1 DEF BuildsInv, DistinctTasks
  <2> QED BY <1>4, <1>6, <2>2, <2>3, <2>4 DEF BuildsInv
<1>8. CASE problem.status = "exists"
  <2>1. PICK row \in ProblemRow : row = problem
    BY <1>2 DEF FilesTypeOK
  <2>2. ProblemOK(row) /\ row.status = "exists"
    BY <1>2, <1>8, <2>1 DEF RowsInv
  <2>3. PICK p \in Packages : file[row.package].blob = Content("package", p)
    BY <2>2 DEF ProblemOK, PackageFile
  <2>4. file[PackageOf(t)].blob.of = p
    BY <2>1, <2>3 DEF PackageOf, Content
  <2>5. PICK content : content = ContentOf[p]
    OBVIOUS
  <2>6. PICK events : events = Events(resource, content)
    OBVIOUS
  <2>7. PICK us : us = Uploads(task[t].compile, p, events)
    OBVIOUS
  <2>8. PICK v : v = [pc |-> "upload", task |-> t, row |-> row, rows |-> resource, package |-> p,
                      events |-> events, uploads |-> us, upload |-> 0]
    OBVIOUS
  <2>9. BuildAt(b, v)
    BY <1>8, <2>1, <2>4, <2>5, <2>6, <2>7, <2>8 DEF StartBuild
  <2>10. /\ v.pc = "upload" /\ v.task = t /\ v.rows = resource /\ v.package = p
         /\ v.events = events /\ v.uploads = us
    BY <2>8
  <2>11. builder'[b] = v /\ \A c \in Builders \ {b} : builder'[c] = builder[c]
    BY <1>2, <2>9 DEF BuildAt, FilesTypeOK
  <2>12. \A c \in Builders \ {b} : BuildInv(c)'
    BY <1>4, <1>5, <2>11, OthersStay
  <2>13. DistinctTasks'
    BY <1>5, <2>10, <2>11 DEF BuildsInv, DistinctTasks
  <2>14. /\ Winners(resource) /\ Planned(resource, content, events)
         /\ UpdatedOrSame(resource, content, events)
    BY <1>2, <2>6, EventsArePlanned
  <2>15. task[t].compile => \E i \in 1..Len(us) : us[i].key = ""
    <3> SUFFICES ASSUME task[t].compile PROVE \E i \in 1..Len(us) : us[i].key = ""
      OBVIOUS
    <3>1. task[t].compile = TRUE
      <4>1. task[t].compile \in BOOLEAN
        BY DEF BuildsInv, TaskRow
      <4> QED BY <4>1
    <3>2. us = Uploads(TRUE, p, events)
      BY <2>7, <3>1
    <3>3. \A e \in events : e.kind # "delete" => e.row.key \in DOMAIN ContentOf[p]
      BY <1>2, <2>5, <2>6, EventsAreGood
    <3> QED BY <3>2, <3>3, CompiledIsUploaded
  <2>16. BuildInv(b)'
    <3>1. PICK rows : rows = resource
      OBVIOUS
    <3>2. UpdatedOrSame(rows, content, events)'
      BY <2>14, <3>1, SameStays
    <3>3. UniqueIds(rows) /\ Winners(rows) /\ Planned(rows, content, events)
      BY <2>14, <3>1 DEF BuildsInv
    <3>4. task'[t].status = "running"
      BY <1>3, <1>4, <1>8
    <3> QED BY <1>4, <2>5, <2>10, <2>11, <2>15, <3>1, <3>2, <3>3, <3>4 DEF BuildInv
  <2> QED BY <1>4, <1>6, <2>12, <2>13, <2>16 DEF BuildsInv
<1> QED BY <1>4, <1>7, <1>8

--------------------------------------------------------------------------------
(* What a task writes *)

\* The rows after the transaction of a task: those that stay, those it updates,
\* and those it creates.
GoneIds(b) == {r.id : r \in ChangedBy(b, "delete") \cup ChangedBy(b, "update")}
Stays(b, r) == r \in resource /\ r.id \notin GoneIds(b)
IsUpdated(b, r) == \E e \in builder[b].events : e.kind = "update" /\ r = WithFileOf(b, e.row)
CreatedAt(b, created, i, r) == r = [WithFileOf(b, created[i]) EXCEPT !.id = resources + i]
IsCreated(b, created, r) == \E i \in 1..Len(created) : CreatedAt(b, created, i, r)

\* A commit leaves these rows.
LEMMA CommitRows ==
  ASSUME NEW b \in Builders, CommitBuild(b), NEW created,
         created = SetToSeq(ChangedBy(b, "create")), DOMAIN created = 1..Len(created)
  PROVE  \A r : r \in resource' <=> Stays(b, r) \/ IsUpdated(b, r) \/ IsCreated(b, created, r)
<1>1. resource' = {r \in resource : r.id \notin GoneIds(b)}
        \cup {WithFileOf(b, r) : r \in ChangedBy(b, "update")}
        \cup {[WithFileOf(b, created[i]) EXCEPT !.id = resources + i] : i \in DOMAIN created}
  BY DEF CommitBuild, ChangedBy, WithFileOf, GoneIds
<1>2. \A r : r \in {q \in resource : q.id \notin GoneIds(b)} <=> Stays(b, r)
  BY DEF Stays
<1>3. \A r : r \in {WithFileOf(b, q) : q \in ChangedBy(b, "update")} <=> IsUpdated(b, r)
  BY DEF IsUpdated, ChangedBy
<1>4. \A r : r \in {[WithFileOf(b, created[i]) EXCEPT !.id = resources + i] : i \in DOMAIN created}
               <=> IsCreated(b, created, r)
  BY DEF IsCreated, CreatedAt
<1> QED BY <1>1, <1>2, <1>3, <1>4

\* What an upload for a key has left in its file.
LEMMA FileForHas ==
  ASSUME IInv, NEW b \in Builders, BuildReady(b), NEW key, FileFor(b, key) # 0
  PROVE  /\ FileFor(b, key) \in Files
         /\ file[FileFor(b, key)].blob =
              IF key = "" THEN Content("compiled", builder[b].package)
              ELSE Content("resource", ContentOf[builder[b].package][key])
<1>1. FilesTypeOK /\ BuilderInv(b)
  BY DEF IInv
<1>2. PICK q \in BuilderState : q = builder[b]
  BY <1>1 DEF FilesTypeOK
<1>3. q.uploads \in Seq(Upload) /\ q.pc = "upload" /\ q.upload = Len(q.uploads)
  BY <1>2 DEF BuilderState, BuildReady
<1>4. ToSet(q.uploads) = {q.uploads[i] : i \in 1..Len(q.uploads)}
  BY <1>3, MembersOf
<1>5. PICK found : found = {u \in ToSet(q.uploads) : u.key = key}
  OBVIOUS
<1>6. found # {}
  BY <1>2, <1>5 DEF FileFor
<1>7. PICK u \in found : FileFor(b, key) = u.file
  BY <1>2, <1>5, <1>6 DEF FileFor
<1>8. PICK i \in 1..Len(q.uploads) : u = q.uploads[i] /\ u.key = key
  BY <1>4, <1>5, <1>7
<1>9. u.file \in Files
  BY <1>2, <1>8, AllUploaded
<1>10. UploadOK(b, i) /\ UploadDone(b, i)
  <2>1. i <= q.upload
    BY <1>3, <1>8
  <2> QED BY <1>1, <1>2, <1>3, <1>8, <2>1 DEF BuilderInv, UploadDone
<1>11. file[u.file].blob = u.content
  BY <1>2, <1>8, <1>10 DEF UploadOK
<1>12. u.content = IF key = "" THEN Content("compiled", q.package)
                   ELSE Content("resource", ContentOf[q.package][key])
  BY <1>2, <1>8, <1>10 DEF UploadOK
<1> QED BY <1>2, <1>7, <1>9, <1>11, <1>12

\* A transaction does not touch contents.
LEMMA ContentsStay ==
  ASSUME FilesTypeOK, NEW fs, ConfirmUploadFiles(fs), NEW f \in Files
  PROVE  file'[f].blob = file[f].blob
<1>1. file[f] \in FileRow
  BY DEF FilesTypeOK
<1>2. file'[f] = IF f \in fs THEN [file[f] EXCEPT !.status = "available", !.md5 = file[f].blob]
                 ELSE file[f]
  BY DEF ConfirmUploadFiles
<1> QED BY <1>1, <1>2 DEF FileRow

\* A row that is written has the value of its event, and the content of its key.
LEMMA WrittenRow ==
  ASSUME IInv, NEW b \in Builders, BuildReady(b), ConfirmUploadFiles(UploadedFiles(b)),
         NEW e \in builder[b].events, e.kind # "delete", NEW w, w = WithFileOf(b, e.row)
  PROVE  /\ e.row \in ResourceRow /\ w \in ResourceRow /\ w.id = e.row.id
         /\ w.key = e.row.key /\ w.value = e.row.value
         /\ w.key \in FileKeys =>
              file'[w.file].blob = Content("resource", ContentOf[builder[b].package][w.key])
<1>1. FilesTypeOK
  BY DEF IInv
<1>2. PICK r : r = e.row
  OBVIOUS
<1>3. /\ r \in ResourceRow
      /\ r.key \in FileKeys =>
           \E i \in 1..Len(builder[b].uploads) : builder[b].uploads[i].key = r.key
  BY <1>2, EventRow DEF BuildReady
<1>4. PICK g : g = FileFor(b, r.key)
  OBVIOUS
<1>5. r.key \in FileKeys => g # 0
  BY <1>3, <1>4, FileForKey
<1>6. r.key # ""
  <2>1. PICK p \in Packages : r.key \in DOMAIN ContentOf[p]
    BY <1>3 DEF ResourceRow, Keys
  <2> QED BY <2>1, ContentsOf
<1>7. CASE g = 0
  <2>1. w = r
    BY <1>2, <1>4, <1>7 DEF WithFileOf
  <2> QED BY <1>2, <1>3, <1>5, <1>7, <2>1
<1>8. CASE g # 0
  <2>1. w = [r EXCEPT !.file = g]
    BY <1>2, <1>4, <1>8 DEF WithFileOf
  <2>2. g \in Files /\ g \in 0..MaxFile
        /\ file[g].blob = Content("resource", ContentOf[builder[b].package][r.key])
    BY <1>4, <1>6, <1>8, FileForHas, FileNumbers
  <2>3. /\ w \in ResourceRow /\ w.id = r.id /\ w.key = r.key /\ w.value = r.value /\ w.file = g
    BY <1>3, <2>1, <2>2 DEF ResourceRow
  <2>4. file'[g].blob = file[g].blob
    BY <1>1, <2>2, ContentsStay
  <2> QED BY <1>2, <1>3, <2>2, <2>3, <2>4
<1> QED BY <1>7, <1>8

\* The events of a task that is ready, for the rows it has read.
LEMMA PlannedEvents ==
  ASSUME IInv, BuildsInv, NEW b \in Builders, builder[b].pc # "idle",
         NEW rows, rows = builder[b].rows, NEW content, content = ContentOf[builder[b].package]
  PROVE  /\ rows \subseteq ResourceRow /\ UniqueIds(rows) /\ Winners(rows)
         /\ Planned(rows, content, builder[b].events)
         /\ UpdatedOrSame(rows, content, builder[b].events)
         /\ \A k \in KeysOf(rows) \cap DOMAIN content :
              /\ Update(rows, content, k).kind = "update"
              /\ Update(rows, content, k).row.id = Winner(rows, k).id
              /\ Update(rows, content, k).row.key = k
              /\ Update(rows, content, k).row.value = content[k]
<1>1. rows \subseteq ResourceRow
  BY DEF IInv, FilesTypeOK, BuilderState
<1>2. /\ UniqueIds(rows) /\ Winners(rows) /\ Planned(rows, content, builder[b].events)
      /\ UpdatedOrSame(rows, content, builder[b].events)
  BY DEF BuildsInv, BuildInv
<1>3. ASSUME NEW k \in KeysOf(rows) \cap DOMAIN content
      PROVE  /\ Update(rows, content, k).kind = "update"
             /\ Update(rows, content, k).row.id = Winner(rows, k).id
             /\ Update(rows, content, k).row.key = k
             /\ Update(rows, content, k).row.value = content[k]
  <2>1. PICK w : w = Winner(rows, k)
    OBVIOUS
  <2>2. w \in ResourceRow /\ w.key = k
    BY <1>1, <1>2, <2>1 DEF Winners
  <2>3. PICK row : row = [w EXCEPT !.value = content[k]]
    OBVIOUS
  <2>4. row.id = w.id /\ row.key = w.key /\ row.value = content[k]
    BY <2>2, <2>3 DEF ResourceRow
  <2>5. Update(rows, content, k).kind = "update" /\ Update(rows, content, k).row = row
    BY <2>1, <2>3 DEF Update
  <2> QED BY <2>1, <2>2, <2>4, <2>5
<1> QED BY <1>1, <1>2, <1>3

\* Events of a kind.
LEMMA EventKinds ==
  ASSUME IInv, BuildsInv, NEW b \in Builders, builder[b].pc # "idle",
         NEW rows, rows = builder[b].rows, NEW content, content = ContentOf[builder[b].package],
         NEW e \in builder[b].events
  PROVE  /\ e.kind = "delete" =>
              \E r \in rows : ~Stands(rows, content, r) /\ e.row = r
         /\ e.kind = "update" =>
              \E k \in KeysOf(rows) \cap DOMAIN content : e = Update(rows, content, k)
         /\ e.kind = "create" =>
              \E k \in DOMAIN content \ KeysOf(rows) : e = Create(content, k)
<1>1. \/ \E r \in rows : ~Stands(rows, content, r) /\ e = Delete(r)
      \/ \E k \in KeysOf(rows) \cap DOMAIN content : e = Update(rows, content, k)
      \/ \E k \in DOMAIN content \ KeysOf(rows) : e = Create(content, k)
  BY PlannedEvents DEF Planned
<1>2. \A r : Delete(r).kind = "delete" /\ Delete(r).row = r
  BY DEF Delete
<1>3. \A k : Update(rows, content, k).kind = "update"
  BY DEF Update
<1>4. \A k : Create(content, k).kind = "create"
  BY DEF Create
<1> QED BY <1>1, <1>2, <1>3, <1>4

\* What a created row is.
LEMMA CreateIs ==
  ASSUME NEW content, NEW k
  PROVE  /\ Create(content, k).kind = "create" /\ Create(content, k).row.key = k
         /\ Create(content, k).row.value = content[k]
BY DEF Create

\* The rows that are deleted or updated.
LEMMA GoneAre ==
  ASSUME IInv, BuildsInv, NEW b \in Builders, builder[b].pc # "idle",
         NEW rows, rows = builder[b].rows, NEW content, content = ContentOf[builder[b].package]
  PROVE  /\ \A r \in rows : ~Stands(rows, content, r) => r.id \in GoneIds(b)
         /\ \A e \in builder[b].events : e.kind = "update" => e.row.id \in GoneIds(b)
         /\ \A n \in GoneIds(b) :
              \/ \E r \in rows : ~Stands(rows, content, r) /\ r.id = n
              \/ \E k \in KeysOf(rows) \cap DOMAIN content :
                    Update(rows, content, k) \in builder[b].events /\ Winner(rows, k).id = n
<1>1. /\ Planned(rows, content, builder[b].events)
      /\ \A k \in KeysOf(rows) \cap DOMAIN content :
           Update(rows, content, k).row.id = Winner(rows, k).id
  BY PlannedEvents
<1>2. \A n : n \in GoneIds(b) <=> \E e \in builder[b].events :
                                    e.kind \in {"delete", "update"} /\ e.row.id = n
  BY DEF GoneIds, ChangedBy
<1>3. ASSUME NEW r \in rows, ~Stands(rows, content, r) PROVE r.id \in GoneIds(b)
  <2>1. Delete(r) \in builder[b].events
    BY <1>1, <1>3 DEF Planned
  <2>2. Delete(r).kind = "delete" /\ Delete(r).row = r
    BY DEF Delete
  <2> QED BY <1>2, <2>1, <2>2
<1>4. ASSUME NEW n \in GoneIds(b)
      PROVE  \/ \E r \in rows : ~Stands(rows, content, r) /\ r.id = n
             \/ \E k \in KeysOf(rows) \cap DOMAIN content :
                   Update(rows, content, k) \in builder[b].events /\ Winner(rows, k).id = n
  <2>1. PICK e \in builder[b].events : e.kind \in {"delete", "update"} /\ e.row.id = n
    BY <1>2
  <2>2. CASE e.kind = "delete"
    <3>1. \E r \in rows : ~Stands(rows, content, r) /\ e.row = r
      BY <2>2, EventKinds
    <3> QED BY <2>1, <3>1
  <2>3. CASE e.kind = "update"
    <3>1. PICK k \in KeysOf(rows) \cap DOMAIN content : e = Update(rows, content, k)
      BY <2>3, EventKinds
    <3> QED BY <1>1, <2>1, <3>1
  <2> QED BY <2>1, <2>2, <2>3
<1> QED BY <1>2, <1>3, <1>4

\* A row that has been updated.
LEMMA UpdatedIs ==
  ASSUME IInv, BuildsInv, NEW b \in Builders, BuildReady(b),
         ConfirmUploadFiles(UploadedFiles(b)),
         NEW rows, rows = builder[b].rows, NEW content, content = ContentOf[builder[b].package],
         NEW r, IsUpdated(b, r)
  PROVE  /\ r.id \in GoneIds(b) /\ r.id \in Nat /\ r.id <= resources
         /\ r.key \in KeysOf(rows) \cap DOMAIN content /\ r.id = Winner(rows, r.key).id
         /\ r.value = content[r.key] /\ Update(rows, content, r.key) \in builder[b].events
         /\ r = WithFileOf(b, Update(rows, content, r.key).row)
         /\ r.key \in FileKeys => file'[r.file].blob = Content("resource", content[r.key])
<1>1. PICK e \in builder[b].events : e.kind = "update" /\ r = WithFileOf(b, e.row)
  BY DEF IsUpdated
<1>2. builder[b].pc # "idle"
  BY DEF BuildReady
<1>3. PICK k \in KeysOf(rows) \cap DOMAIN content : e = Update(rows, content, k)
  BY <1>1, <1>2, EventKinds
<1>4. e.row.id = Winner(rows, k).id /\ e.row.key = k /\ e.row.value = content[k]
  BY <1>2, <1>3, PlannedEvents
<1>5. /\ r \in ResourceRow /\ r.id = e.row.id /\ r.key = e.row.key /\ r.value = e.row.value
      /\ r.key \in FileKeys => file'[r.file].blob = Content("resource", content[r.key])
  BY <1>1, WrittenRow
<1>6. e.row.id <= resources
  BY <1>1, <1>2, EventRow
<1>7. e.row.id \in GoneIds(b)
  BY <1>1, <1>2, GoneAre
<1>8. r.id \in Nat
  BY <1>5 DEF ResourceRow
<1> QED BY <1>1, <1>3, <1>4, <1>5, <1>6, <1>7, <1>8

\* A row that has been created.
LEMMA CreatedIs ==
  ASSUME IInv, BuildsInv, NEW b \in Builders, BuildReady(b),
         ConfirmUploadFiles(UploadedFiles(b)),
         NEW rows, rows = builder[b].rows, NEW content, content = ContentOf[builder[b].package],
         NEW created, created = SetToSeq(ChangedBy(b, "create")),
         NEW i \in 1..Len(created), NEW r, CreatedAt(b, created, i, r)
  PROVE  /\ i \in Nat /\ i # 0 /\ r.id = resources + i
         /\ r.key \in DOMAIN content \ KeysOf(rows)
         /\ r.value = content[r.key] /\ created[i] = Create(content, r.key).row
         /\ r.key \in FileKeys => file'[r.file].blob = Content("resource", content[r.key])
<1>1. builder[b].pc # "idle" /\ resources \in Nat
  BY DEF BuildReady, IInv, FilesTypeOK
<1>2. PICK e \in builder[b].events : e.kind = "create" /\ created[i] = e.row
  BY <1>1, CreatedRows
<1>3. PICK k \in DOMAIN content \ KeysOf(rows) : e = Create(content, k)
  BY <1>1, <1>2, EventKinds
<1>4. e.row.key = k /\ e.row.value = content[k]
  BY <1>3, CreateIs
<1>5. PICK w : w = WithFileOf(b, e.row)
  OBVIOUS
<1>6. /\ w \in ResourceRow /\ w.key = e.row.key /\ w.value = e.row.value
      /\ w.key \in FileKeys => file'[w.file].blob = Content("resource", content[w.key])
  BY <1>2, <1>5, WrittenRow
<1>7. PICK n : n = resources + i
  OBVIOUS
<1>8. i \in Nat /\ i # 0 /\ n \in Nat
  BY <1>1, <1>7
<1>9. r = [w EXCEPT !.id = n]
  BY <1>2, <1>5, <1>7 DEF CreatedAt
<1>10. r.id = n /\ r.key = w.key /\ r.value = w.value /\ r.file = w.file
  BY <1>6, <1>8, <1>9 DEF ResourceRow
<1> QED BY <1>2, <1>3, <1>4, <1>6, <1>7, <1>8, <1>10

\* What a commit does, in one place.
LEMMA CommitFacts ==
  ASSUME IInv, BuildsInv, NEW b \in Builders, CommitBuild(b)
  PROVE  /\ BuildReady(b) /\ builder[b].pc # "idle" /\ ConfirmUploadFiles(UploadedFiles(b))
         /\ BuildAt(b, NoBuild) /\ task' = [task EXCEPT ![builder[b].task].status = "succeeded"]
         /\ problem' = [builder[b].row EXCEPT !.compiled = IF FileFor(b, "") = 0 THEN @
                                                           ELSE FileFor(b, "")]
<1>1. BuildReady(b) /\ ConfirmUploadFiles(UploadedFiles(b)) /\ BuildAt(b, NoBuild)
  BY DEF CommitBuild, UploadedFiles
<1>2. task' = [task EXCEPT ![builder[b].task].status = "succeeded"]
  BY DEF CommitBuild
<1>3. problem' = [builder[b].row EXCEPT !.compiled = IF FileFor(b, "") = 0 THEN @
                                                    ELSE FileFor(b, "")]
  BY DEF CommitBuild
<1>4. builder[b].pc # "idle"
  BY <1>1 DEF BuildReady
<1> QED BY <1>1, <1>2, <1>3, <1>4

\* A commit numbers its rows apart, whatever others have done to the table.
LEMMA CommitUnique ==
  ASSUME IInv, BuildsInv, NEW b \in Builders, CommitBuild(b)
  PROVE  UniqueIds(resource)'
<1>1. /\ BuildReady(b) /\ builder[b].pc # "idle" /\ ConfirmUploadFiles(UploadedFiles(b))
  BY CommitFacts
<1>2. PICK created : created = SetToSeq(ChangedBy(b, "create"))
  OBVIOUS
<1>3. DOMAIN created = 1..Len(created)
  BY <1>1, <1>2, CreatedRows
<1>4. \A r \in resource' : Stays(b, r) \/ IsUpdated(b, r) \/ IsCreated(b, created, r)
  BY <1>2, <1>3, CommitRows
<1>5. PICK rows, content : rows = builder[b].rows /\ content = ContentOf[builder[b].package]
  OBVIOUS
<1>6. \A r : Stays(b, r) => /\ r \in resource /\ r.id \notin GoneIds(b) /\ r.id \in Nat
                            /\ r.id <= resources
  BY DEF Stays, IInv, FilesTypeOK, RowsInv, ResourceOK, ResourceRow
<1>7. \A r : IsUpdated(b, r) =>
        /\ r.id \in GoneIds(b) /\ r.id \in Nat /\ r.id <= resources
        /\ r.key \in KeysOf(rows) /\ r.id = Winner(rows, r.key).id
        /\ r = WithFileOf(b, Update(rows, content, r.key).row)
  BY <1>1, <1>5, UpdatedIs
<1>8. \A i \in 1..Len(created) : \A r : CreatedAt(b, created, i, r) =>
        i \in Nat /\ i # 0 /\ r.id = resources + i
  BY <1>1, <1>2, <1>5, CreatedIs
<1>9. resources \in Nat /\ UniqueIds(resource) /\ UniqueIds(rows) /\ Winners(rows)
  <2>1. UniqueIds(rows) /\ Winners(rows)
    BY <1>1, <1>5, PlannedEvents
  <2> QED BY <2>1 DEF BuildsInv, IInv, FilesTypeOK
<1>10. \A r, q : IsUpdated(b, r) /\ IsUpdated(b, q) /\ r.id = q.id => r = q
  <2> SUFFICES ASSUME NEW r, NEW q, IsUpdated(b, r), IsUpdated(b, q), r.id = q.id PROVE r = q
    OBVIOUS
  <2>1. Winner(rows, r.key) \in rows /\ Winner(rows, q.key) \in rows
        /\ Winner(rows, r.key).key = r.key /\ Winner(rows, q.key).key = q.key
    BY <1>7, <1>9 DEF Winners
  <2>2. Winner(rows, r.key) = Winner(rows, q.key)
    BY <1>7, <1>9, <2>1 DEF UniqueIds
  <2>3. r.key = q.key
    BY <2>1, <2>2
  <2> QED BY <1>7, <2>3
<1>11. \A r, q : IsCreated(b, created, r) /\ IsCreated(b, created, q) /\ r.id = q.id => r = q
  <2> SUFFICES ASSUME NEW r, NEW q, IsCreated(b, created, r), IsCreated(b, created, q), r.id = q.id
               PROVE  r = q
    OBVIOUS
  <2>1. PICK i \in 1..Len(created) : CreatedAt(b, created, i, r)
    BY DEF IsCreated
  <2>2. PICK j \in 1..Len(created) : CreatedAt(b, created, j, q)
    BY DEF IsCreated
  <2>3. i = j
    BY <1>8, <1>9, <2>1, <2>2
  <2> QED BY <2>1, <2>2, <2>3 DEF CreatedAt
<1>12. \A r, q : (Stays(b, r) \/ IsUpdated(b, r)) /\ IsCreated(b, created, q) => r.id # q.id
  <2> SUFFICES ASSUME NEW r, NEW q, Stays(b, r) \/ IsUpdated(b, r), IsCreated(b, created, q)
               PROVE  r.id # q.id
    OBVIOUS
  <2>1. PICK i \in 1..Len(created) : CreatedAt(b, created, i, q)
    BY DEF IsCreated
  <2>2. i \in Nat /\ i # 0 /\ q.id = resources + i
    BY <1>8, <2>1
  <2>3. r.id \in Nat /\ r.id <= resources
    BY <1>6, <1>7
  <2> QED BY <1>9, <2>2, <2>3
<1>13. \A r, q : Stays(b, r) /\ Stays(b, q) /\ r.id = q.id => r = q
  BY <1>6, <1>9 DEF UniqueIds
<1>14. \A r, q : Stays(b, r) /\ IsUpdated(b, q) => r.id # q.id
  BY <1>6, <1>7
<1>15. \A r \in resource', q \in resource' : r.id = q.id => r = q
  BY <1>4, <1>10, <1>11, <1>12, <1>13, <1>14, Zenon
<1> QED BY <1>15 DEF UniqueIds

\* A row that stays, when nobody has changed the rows: it stands for its key,
\* and has the content of the package already.
LEMMA StayingIs ==
  ASSUME IInv, BuildsInv, NEW b \in Builders, BuildReady(b),
         ConfirmUploadFiles(UploadedFiles(b)), builder[b].rows = resource,
         NEW rows, rows = builder[b].rows, NEW content, content = ContentOf[builder[b].package],
         NEW r, Stays(b, r)
  PROVE  /\ r.key \in KeysOf(rows) \cap DOMAIN content /\ r = Winner(rows, r.key)
         /\ Update(rows, content, r.key) \notin builder[b].events
         /\ r.key \in FileKeys /\ file'[r.file].blob = Content("resource", content[r.key])
<1>1. r \in rows /\ r.id \notin GoneIds(b) /\ builder[b].pc # "idle" /\ FilesTypeOK
  BY DEF Stays, BuildReady, IInv
<1>2. Stands(rows, content, r)
  BY <1>1, GoneAre
<1>3. r = Winner(rows, r.key) /\ r.key \in KeysOf(rows) \cap DOMAIN content
  BY <1>1, <1>2 DEF Stands, KeysOf
<1>4. Update(rows, content, r.key) \notin builder[b].events
  <2>1. Update(rows, content, r.key).kind = "update" /\ Update(rows, content, r.key).row.id = r.id
    BY <1>1, <1>3, PlannedEvents
  <2> QED BY <1>1, <2>1, GoneAre
<1>5. UpdatedOrSame(rows, content, builder[b].events)
  BY <1>1, PlannedEvents
<1>6. HasContent(r, content)
  BY <1>3, <1>4, <1>5 DEF UpdatedOrSame
<1>7. r.file \in Files /\ r.key \in FileKeys
      /\ file[r.file].blob = Content("resource", content[r.key])
  BY <1>6 DEF HasContent, Available
<1>8. file'[r.file].blob = file[r.file].blob
  BY <1>1, <1>7, ContentsStay
<1> QED BY <1>3, <1>4, <1>7, <1>8

\* A commit of a task whose rows nobody has changed leaves the resources of its
\* package: each key once, with its content.
LEMMA CommitSets ==
  ASSUME IInv, BuildsInv, NEW b \in Builders, CommitBuild(b), builder[b].rows = resource,
         NEW content, content = ContentOf[builder[b].package]
  PROVE  /\ {r.key : r \in resource'} = DOMAIN content
         /\ \A r, q \in resource' : r.key = q.key => r = q
         /\ \A r \in resource' : IF r.key \in FileKeys
              THEN file'[r.file].blob = Content("resource", content[r.key])
              ELSE r.value = content[r.key]
<1>1. BuildReady(b) /\ builder[b].pc # "idle" /\ ConfirmUploadFiles(UploadedFiles(b))
  BY CommitFacts
<1>2. PICK created : created = SetToSeq(ChangedBy(b, "create"))
  OBVIOUS
<1>3. /\ DOMAIN created = 1..Len(created)
      /\ \A e \in builder[b].events : e.kind = "create" =>
           \E i \in 1..Len(created) : created[i] = e.row
      /\ \A i, j \in 1..Len(created) : created[i] = created[j] => i = j
  BY <1>1, <1>2, CreatedRows
<1>4. \A r : r \in resource' <=> Stays(b, r) \/ IsUpdated(b, r) \/ IsCreated(b, created, r)
  BY <1>2, <1>3, CommitRows
<1>5. PICK rows : rows = builder[b].rows
  OBVIOUS
<1>6. \A r : Stays(b, r) =>
        /\ r.key \in KeysOf(rows) \cap DOMAIN content /\ r = Winner(rows, r.key)
        /\ Update(rows, content, r.key) \notin builder[b].events
        /\ r.key \in FileKeys /\ file'[r.file].blob = Content("resource", content[r.key])
  BY <1>1, <1>5, StayingIs
<1>7. \A r : IsUpdated(b, r) =>
        /\ r.key \in KeysOf(rows) \cap DOMAIN content
        /\ r.value = content[r.key] /\ Update(rows, content, r.key) \in builder[b].events
        /\ r = WithFileOf(b, Update(rows, content, r.key).row)
        /\ r.key \in FileKeys => file'[r.file].blob = Content("resource", content[r.key])
  BY <1>1, <1>5, UpdatedIs
<1>8. \A i \in 1..Len(created) : \A r : CreatedAt(b, created, i, r) =>
        /\ r.key \in DOMAIN content \ KeysOf(rows)
        /\ r.value = content[r.key] /\ created[i] = Create(content, r.key).row
        /\ r.key \in FileKeys => file'[r.file].blob = Content("resource", content[r.key])
  BY <1>1, <1>2, <1>5, CreatedIs
<1>9. \A r : IsCreated(b, created, r) =>
        /\ r.key \in DOMAIN content \ KeysOf(rows) /\ r.value = content[r.key]
        /\ r.key \in FileKeys => file'[r.file].blob = Content("resource", content[r.key])
  BY <1>8 DEF IsCreated
<1>10. \A r \in resource' : /\ r.key \in DOMAIN content
                            /\ IF r.key \in FileKeys
                               THEN file'[r.file].blob = Content("resource", content[r.key])
                               ELSE r.value = content[r.key]
  BY <1>4, <1>6, <1>7, <1>9
<1>11. \A r, q : IsCreated(b, created, r) /\ IsCreated(b, created, q) /\ r.key = q.key => r = q
  <2> SUFFICES ASSUME NEW r, NEW q, IsCreated(b, created, r), IsCreated(b, created, q),
                      r.key = q.key
               PROVE  r = q
    OBVIOUS
  <2>1. PICK i \in 1..Len(created) : CreatedAt(b, created, i, r)
    BY DEF IsCreated
  <2>2. PICK j \in 1..Len(created) : CreatedAt(b, created, j, q)
    BY DEF IsCreated
  <2>3. created[i] = created[j]
    BY <1>8, <2>1, <2>2
  <2>4. i = j
    BY <1>3, <2>3
  <2> QED BY <2>1, <2>2, <2>4 DEF CreatedAt
<1>12. \A r, q : Stays(b, r) /\ Stays(b, q) /\ r.key = q.key => r = q
  BY <1>6
<1>13. \A r, q : IsUpdated(b, r) /\ IsUpdated(b, q) /\ r.key = q.key => r = q
  BY <1>7
<1>14. \A r, q : Stays(b, r) /\ IsUpdated(b, q) => r.key # q.key
  BY <1>6, <1>7
<1>15. \A r, q : (Stays(b, r) \/ IsUpdated(b, r)) /\ IsCreated(b, created, q) => r.key # q.key
  BY <1>6, <1>7, <1>9
<1>16. \A r \in resource', q \in resource' : r.key = q.key => r = q
  BY <1>4, <1>11, <1>12, <1>13, <1>14, <1>15, Zenon
<1>17. ASSUME NEW k \in DOMAIN content PROVE \E r \in resource' : r.key = k
  <2>1. /\ rows = resource /\ UniqueIds(rows) /\ Winners(rows)
        /\ Planned(rows, content, builder[b].events)
        /\ \A j \in KeysOf(rows) \cap DOMAIN content :
             /\ Update(rows, content, j).kind = "update" /\ Update(rows, content, j).row.key = j
    BY <1>1, <1>5, PlannedEvents
  <2>2. CASE k \notin KeysOf(rows)
    <3>1. Create(content, k) \in builder[b].events
      BY <2>1, <2>2 DEF Planned
    <3>2. Create(content, k).kind = "create" /\ Create(content, k).row.key = k
      BY CreateIs
    <3>3. PICK i \in 1..Len(created) : created[i] = Create(content, k).row
      BY <1>3, <3>1, <3>2
    <3>4. PICK r : CreatedAt(b, created, i, r)
      BY DEF CreatedAt
    <3>5. r \in resource' /\ created[i] = Create(content, r.key).row
      BY <1>4, <1>8, <3>4 DEF IsCreated
    <3>6. r.key = k
      BY <3>2, <3>3, <3>5, CreateIs
    <3> QED BY <3>5, <3>6
  <2>3. CASE k \in KeysOf(rows) /\ Update(rows, content, k) \in builder[b].events
    <3>1. PICK r : r = WithFileOf(b, Update(rows, content, k).row)
      OBVIOUS
    <3>2. IsUpdated(b, r)
      BY <2>1, <2>3, <3>1 DEF IsUpdated
    <3>3. r.key = k
      BY <1>1, <2>1, <2>3, <3>1, WrittenRow
    <3> QED BY <1>4, <3>2, <3>3
  <2>4. CASE k \in KeysOf(rows) /\ Update(rows, content, k) \notin builder[b].events
    <3>1. PICK w \in rows : w = Winner(rows, k) /\ w.key = k
      BY <2>1, <2>4 DEF Winners
    <3>2. w.id \notin GoneIds(b)
      <4> SUFFICES ASSUME w.id \in GoneIds(b) PROVE FALSE
        OBVIOUS
      <4>1. CASE \E r \in rows : ~Stands(rows, content, r) /\ r.id = w.id
        <5>1. ~Stands(rows, content, w)
          BY <2>1, <3>1, <4>1 DEF UniqueIds
        <5> QED BY <3>1, <5>1 DEF Stands
      <4>2. CASE \E j \in KeysOf(rows) \cap DOMAIN content :
                   Update(rows, content, j) \in builder[b].events /\ Winner(rows, j).id = w.id
        <5>1. PICK j \in KeysOf(rows) \cap DOMAIN content :
                Update(rows, content, j) \in builder[b].events /\ Winner(rows, j).id = w.id
          BY <4>2
        <5>2. Winner(rows, j) \in rows /\ Winner(rows, j).key = j
          BY <2>1, <5>1 DEF Winners
        <5>3. Winner(rows, j) = w
          BY <2>1, <3>1, <5>1, <5>2 DEF UniqueIds
        <5>4. j = k
          BY <3>1, <5>2, <5>3
        <5> QED BY <2>4, <5>1, <5>4
      <4> QED BY <1>1, <1>5, <4>1, <4>2, GoneAre
    <3>3. Stays(b, w)
      BY <2>1, <3>1, <3>2 DEF Stays
    <3> QED BY <1>4, <3>1, <3>3
  <2> QED BY <2>2, <2>3, <2>4
<1>18. {r.key : r \in resource'} = DOMAIN content
  <2>1. \A k \in {r.key : r \in resource'} : k \in DOMAIN content
    BY <1>10
  <2>2. \A k \in DOMAIN content : k \in {r.key : r \in resource'}
    BY <1>17
  <2> QED BY <2>1, <2>2
<1> QED BY <1>10, <1>16, <1>18

--------------------------------------------------------------------------------
(* Every build *)

\* No task succeeds.
NoneSucceeds ==
    \A t \in Builds : task[t].status = "running" => task'[t].status # "succeeded"

\* Steps that leave the tasks at work alone.
LEMMA LeftAlone ==
  ASSUME BuildsInv, FilesGrow, UNCHANGED builder, resource' \subseteq resource, TasksStay
  PROVE  BuildsInv' /\ NoneSucceeds
BY BuildsStay DEF TasksStay, NoneSucceeds

\* Tasks upload their files.
LEMMA BuildUploads ==
  ASSUME IInv, BuildsInv, FilesGrow, NEW b \in Builders,
         BuildUploadRow(b) \/ BuildUploadContent(b)
  PROVE  BuildsInv' /\ NoneSucceeds
<1>1. builder[b].pc # "idle" /\ UNCHANGED <<resource, task>>
  BY DEF BuildUploadRow, BuildUploadContent
<1>2. PICK q \in BuilderState : q = builder[b]
  BY DEF IInv, FilesTypeOK
<1>3. q.uploads \in Seq(Upload) /\ q.upload \in Nat /\ Len(q.uploads) \in Nat
  <2>1. q.uploads \in Seq(Upload) /\ q.upload \in Nat
    BY <1>2 DEF BuilderState
  <2>2. Len(q.uploads) \in Nat
    BY <2>1
  <2> QED BY <2>1, <2>2
<1>4. PICK v : /\ BuildAt(b, v) /\ v.pc # "idle" /\ v.task = q.task /\ v.rows = q.rows
               /\ v.package = q.package /\ v.events = q.events
               /\ Len(v.uploads) = Len(q.uploads)
               /\ \A i \in 1..Len(v.uploads) : v.uploads[i].key = q.uploads[i].key
  <2>1. CASE BuildUploadRow(b)
    <3>1. PICK n : n = q.upload + 1
      OBVIOUS
    <3>2. n \in 1..Len(q.uploads)
      BY <1>2, <1>3, <2>1, <3>1 DEF BuildUploadRow
    <3>3. PICK us : us = [q.uploads EXCEPT ![n].file = NewFile]
      OBVIOUS
    <3>4. Len(us) = Len(q.uploads) /\ \A i \in 1..Len(us) : us[i].key = q.uploads[i].key
      <4>1. PICK u : u = [q.uploads[n] EXCEPT !.file = NewFile]
        OBVIOUS
      <4>2. q.uploads[n] \in Upload
        BY <1>3, <3>2
      <4>3. u.key = q.uploads[n].key
        BY <4>1, <4>2 DEF Upload
      <4>4. us = [q.uploads EXCEPT ![n] = u]
        BY <3>3, <4>1
      <4>5. Len(us) = Len(q.uploads)
        BY <1>3, <4>4
      <4>6. us[n] = u /\ \A i \in 1..Len(us) : i # n => us[i] = q.uploads[i]
        BY <1>3, <3>2, <4>4, <4>5
      <4> QED BY <4>3, <4>5, <4>6
    <3>5. PICK v : v = [q EXCEPT !.pc = "write", !.upload = n, !.uploads = us]
      OBVIOUS
    <3>6. /\ v.pc = "write" /\ v.task = q.task /\ v.rows = q.rows
          /\ v.package = q.package /\ v.events = q.events /\ v.uploads = us
      BY <1>2, <3>5 DEF BuilderState
    <3>7. BuildAt(b, v)
      <4>1. BuildAt(b, [q EXCEPT !.pc = "write", !.upload = n, !.uploads[n].file = NewFile])
        BY <1>2, <2>1, <3>1 DEF BuildUploadRow
      <4>2. [q EXCEPT !.pc = "write", !.upload = n, !.uploads[n].file = NewFile] = v
        BY <1>2, <3>3, <3>5 DEF BuilderState
      <4> QED BY <4>1, <4>2
    <3> QED BY <3>4, <3>6, <3>7
  <2>2. CASE BuildUploadContent(b)
    <3>1. PICK v : v = [q EXCEPT !.pc = "upload"]
      OBVIOUS
    <3>2. /\ v.pc = "upload" /\ v.task = q.task /\ v.rows = q.rows
          /\ v.package = q.package /\ v.events = q.events /\ v.uploads = q.uploads
      BY <1>2, <3>1 DEF BuilderState
    <3>3. BuildAt(b, v)
      BY <1>2, <2>2, <3>1 DEF BuildUploadContent
    <3> QED BY <3>2, <3>3
  <2> QED BY <2>1, <2>2
<1>5. builder'[b] = v /\ \A c \in Builders \ {b} : builder'[c] = builder[c]
  BY <1>4 DEF BuildAt, IInv, FilesTypeOK
<1>6. BuildInv(b) /\ builder[b].task \in Builds
  BY <1>1 DEF BuildsInv, BuildInv
<1>7. BuildInv(b)'
  BY <1>1, <1>2, <1>4, <1>5, <1>6, BuildStays
<1>8. \A c \in Builders \ {b} : BuildInv(c)'
  <2>1. \A c \in Builders \ {b} : builder[c].pc # "idle" => builder[c].task # builder[b].task
    BY <1>1 DEF BuildsInv, DistinctTasks
  <2> QED BY <1>1, <1>5, <2>1, OthersStay
<1>9. DistinctTasks'
  BY <1>1, <1>2, <1>4, <1>5 DEF BuildsInv, DistinctTasks
<1>10. UniqueIds(resource)' /\ (task \in [Builds -> TaskRow])' /\ NoneSucceeds
  BY <1>1 DEF BuildsInv, UniqueIds, NoneSucceeds
<1> QED BY <1>7, <1>8, <1>9, <1>10 DEF BuildsInv

\* A task fails.
LEMMA BuildFailsWhole ==
  ASSUME IInv, BuildsInv, FilesGrow, NEW b \in Builders, BuildFails(b)
  PROVE  BuildsInv' /\ NoneSucceeds
<1>1. /\ builder[b].pc # "idle" /\ BuildAt(b, NoBuild) /\ UNCHANGED resource
      /\ task' = [task EXCEPT ![builder[b].task].status = "failed"]
  BY DEF BuildFails
<1>2. /\ task' \in [Builds -> TaskRow] /\ DistinctTasks' /\ \A c \in Builders : BuildInv(c)'
      /\ task'[builder[b].task].status = "failed"
      /\ \A u \in Builds : u # builder[b].task => task'[u] = task[u]
  BY <1>1, BuildEnds
<1>3. UniqueIds(resource)'
  BY <1>1 DEF BuildsInv, UniqueIds
<1>4. NoneSucceeds
  BY <1>2 DEF NoneSucceeds
<1> QED BY <1>2, <1>3, <1>4 DEF BuildsInv

\* A task commits: its compiled package is that of its package, and its
\* resources those of its package.
LEMMA CommitWhole ==
  ASSUME IInv, BuildsInv, FilesGrow, NEW b \in Builders, CommitBuild(b)
  PROVE  BuildsInv' /\ CompiledWithItsPackage /\ BuildSetsResources
<1>1. /\ BuildReady(b) /\ builder[b].pc # "idle" /\ ConfirmUploadFiles(UploadedFiles(b))
      /\ BuildAt(b, NoBuild) /\ task' = [task EXCEPT ![builder[b].task].status = "succeeded"]
      /\ problem' = [builder[b].row EXCEPT !.compiled = IF FileFor(b, "") = 0 THEN @
                                                        ELSE FileFor(b, "")]
  BY CommitFacts
<1>2. /\ task' \in [Builds -> TaskRow] /\ DistinctTasks' /\ \A c \in Builders : BuildInv(c)'
      /\ task'[builder[b].task].status = "succeeded"
      /\ \A u \in Builds : u # builder[b].task => task'[u] = task[u]
  BY <1>1, BuildEnds
<1>3. BuildsInv'
  BY <1>2, CommitUnique DEF BuildsInv
<1>4. CompiledWithItsPackage
  <2> SUFFICES ASSUME NEW t \in Builds, task[t].status = "running",
                      task'[t].status = "succeeded", task[t].compile
               PROVE  file'[problem'.compiled].blob
                        = Content("compiled", file'[problem'.package].blob.of)
    BY DEF CompiledWithItsPackage
  <2>1. t = builder[b].task
    BY <1>2
  <2>2. \E i \in 1..Len(builder[b].uploads) : builder[b].uploads[i].key = ""
    BY <1>1, <2>1 DEF BuildsInv, BuildInv
  <2>3. PICK g : g = FileFor(b, "")
    OBVIOUS
  <2>4. g # 0
    BY <1>1, <2>2, <2>3, FileForKey
  <2>5. g \in Files /\ file[g].blob = Content("compiled", builder[b].package)
    BY <1>1, <2>3, <2>4, FileForHas
  <2>6. PICK row : row = builder[b].row
    OBVIOUS
  <2>7. /\ row \in ProblemRow /\ ProblemOK(row) /\ row.status = "exists"
        /\ file[row.package].blob = Content("package", builder[b].package)
    BY <1>1, <2>6 DEF IInv, FilesTypeOK, BuilderState, BuilderInv
  <2>8. row.package \in Files
    BY <2>7 DEF ProblemOK, PackageFile, Available
  <2>9. problem' = [row EXCEPT !.compiled = g]
    BY <1>1, <2>3, <2>4, <2>6
  <2>10. problem'.compiled = g /\ problem'.package = row.package
    BY <2>7, <2>9 DEF ProblemRow
  <2>11. FilesTypeOK
    BY DEF IInv
  <2>12. file'[g].blob = file[g].blob /\ file'[row.package].blob = file[row.package].blob
    BY <1>1, <2>5, <2>8, <2>11, ContentsStay
  <2>13. Content("package", builder[b].package).of = builder[b].package
    BY DEF Content
  <2> QED BY <2>5, <2>7, <2>10, <2>12, <2>13
<1>5. BuildSetsResources
  <2> SUFFICES ASSUME NEW c \in Builders, builder[c].pc = "upload",
                      task'[builder[c].task].status = "succeeded", builder[c].rows = resource,
                      NEW content, content = ContentOf[builder[c].package]
               PROVE  /\ {r.key : r \in resource'} = DOMAIN content
                      /\ \A r, q \in resource' : r.key = q.key => r = q
                      /\ \A r \in resource' : IF r.key \in FileKeys
                           THEN file'[r.file].blob = Content("resource", content[r.key])
                           ELSE r.value = content[r.key]
    BY Zenon DEF BuildSetsResources
  <2>1. builder[c].task \in Builds /\ task[builder[c].task].status = "running"
    BY DEF BuildsInv, BuildInv
  <2>2. builder[c].task = builder[b].task
    BY <1>2, <2>1
  <2>3. c = b
    BY <1>1, <2>2 DEF BuildsInv, DistinctTasks
  <2> QED BY <2>3, CommitSets
<1> QED BY <1>3, <1>4, <1>5

\* When none succeeds there is nothing to show.
LEMMA NothingBuilt ==
  ASSUME BuildsInv, NoneSucceeds
  PROVE  CompiledWithItsPackage /\ BuildSetsResources
<1>1. CompiledWithItsPackage
  BY DEF NoneSucceeds, CompiledWithItsPackage
<1>2. ASSUME NEW b \in Builders, builder[b].pc = "upload",
             task'[builder[b].task].status = "succeeded"
      PROVE  FALSE
  <2>1. builder[b].task \in Builds /\ task[builder[b].task].status = "running"
    BY <1>2 DEF BuildsInv, BuildInv
  <2> QED BY <1>2, <2>1 DEF NoneSucceeds
<1>3. BuildSetsResources
  BY <1>2, Zenon DEF BuildSetsResources
<1> QED BY <1>1, <1>3

\* Every step keeps what tasks have planned, and no task succeeds but with all
\* of its package.
LEMMA NextBuilds ==
  ASSUME IInv, BuildsInv, [FilesNext]_<<fileVars, packageVars, postVars>>
  PROVE  BuildsInv' /\ CompiledWithItsPackage /\ BuildSetsResources
<1>1. FilesGrow
  BY NextInvariant
<1>2. ASSUME UNCHANGED packageVars PROVE BuildsInv' /\ NoneSucceeds
  <2>1. UNCHANGED <<resource, task, builder>>
    BY <1>2 DEF packageVars
  <2>2. TasksStay
    BY <2>1 DEF BuildsInv, TasksStay
  <2> QED BY <1>1, <2>1, <2>2, LeftAlone
<1>3. ASSUME NEW a \in Authors,
             \/ \E op \in RequestOps, p \in Packages \cup {""} : Request(a, op, p)
             \/ UploadRow(a) \/ UploadContent(a) \/ RequestFails(a)
             \/ CreateProblem(a) \/ UpdateProblem(a) \/ UpdateProblemTitle(a) \/ DeleteProblem(a)
             \/ \E compile \in BOOLEAN : RebuildProblem(a, compile)
      PROVE  BuildsInv' /\ NoneSucceeds
  BY <1>1, <1>3, AuthorLeaves, LeftAlone
<1>4. ASSUME NEW b \in Builders, NEW t \in Builds, StartBuild(b, t)
      PROVE  BuildsInv' /\ NoneSucceeds
  <2>1. BuildsInv' /\ task'[t].status \in {"running", "failed"}
                   /\ \A u \in Builds : u # t => task'[u] = task[u]
    BY <1>1, <1>4, StartBuildWhole
  <2> QED BY <2>1 DEF NoneSucceeds
<1>5. CASE PackageNext
  <2>1. CASE \E r \in Readers, key \in FileKeys, etag \in Etags :
               ObserveProblemContent(r, key, etag)
    BY <1>2, <2>1, NothingBuilt DEF ObserveProblemContent
  <2>2. CASE \E b \in Builders : CommitBuild(b)
    BY <1>1, <2>2, CommitWhole
  <2>3. ASSUME NEW b \in Builders, BuildUploadRow(b) \/ BuildUploadContent(b) \/ BuildFails(b)
        PROVE  BuildsInv' /\ NoneSucceeds
    BY <1>1, <2>3, BuildUploads, BuildFailsWhole
  <2> QED BY <1>3, <1>4, <1>5, <2>1, <2>2, <2>3, NothingBuilt, Zenon DEF PackageNext
<1>6. CASE UNCHANGED packageVars
  BY <1>2, <1>6, NothingBuilt
<1> QED BY <1>5, <1>6, Zenon DEF FilesNext

\* For any number of authors, tasks and packages, a task that succeeds leaves the
\* compiled package of the problem's package, and, when nobody has changed the
\* resources meanwhile, exactly those of its package (executeImpl).
THEOREM BuildsAreWhole == FilesSpec => BuildIsWhole
<1>1. FilesInit => BuildsInv
  <2> SUFFICES ASSUME FilesInit PROVE BuildsInv
    OBVIOUS
  <2>1. /\ resource = {} /\ builder = [b \in Builders |-> NoBuild]
        /\ task = [t \in Builds |-> [status |-> "none", file |-> 0, compile |-> FALSE]]
    BY DEF FilesInit, PackageInit
  <2>2. task \in [Builds -> TaskRow]
    BY <2>1, ZeroFile DEF TaskRow
  <2>3. \A b \in Builders : builder[b].pc = "idle"
    BY <2>1, NoBuildOK
  <2> QED BY <2>1, <2>2, <2>3 DEF BuildsInv, UniqueIds, DistinctTasks, BuildInv
<1>2. IInv /\ BuildsInv /\ [FilesNext]_<<fileVars, packageVars, postVars>>
        => BuildsInv' /\ CompiledWithItsPackage /\ BuildSetsResources
  BY NextBuilds
<1> QED BY <1>1, <1>2, Invariant, PTL DEF FilesSpec, BuildIsWhole
================================================================================
