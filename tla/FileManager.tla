------------------------------- MODULE FileManager -------------------------------
(***************************************************************************)
(* Files: internal/managers/file.go and internal/api/files.go.             *)
(*                                                                         *)
(* A file is uploaded outside of any transaction, first a pending row and  *)
(* then its content; the transaction that refers to the file confirms it.  *)
(* An MD5 is the content itself.  Modules that extend this one say who     *)
(* uploads and confirms, and leave their own variables unchanged in what   *)
(* readers do.                                                             *)
(***************************************************************************)
EXTENDS Naturals, FiniteSets, Sequences, SequencesExt

CONSTANTS
    Readers,         \* requests for the content of a file
    MaxFile,         \* bound on files
    MaxFileFaults    \* bound on failed writes, failed transactions and crashes

ASSUME FileAssumption == {MaxFile, MaxFileFaults} \subseteq Nat

VARIABLES
    file,            \* rows of files, by ID, with the content in the storage
    reader,
    fileFaults

fileVars == <<file, reader, fileFaults>>

Files == 1..MaxFile
Content(kind, of) == [kind |-> kind, of |-> of]
Nothing == Content("nothing", "")
NoFile == [status |-> "none", md5 |-> Nothing, blob |-> Nothing, expired |-> FALSE]
NoRead == [pc |-> "idle", file |-> 0, timer |-> FALSE, got |-> Nothing]

FileInit ==
    /\ file = [f \in Files |-> NoFile]
    /\ reader = [r \in Readers |-> NoRead] /\ fileFaults = 0

FreeFiles == {f \in Files : file[f].status = "none"}
NewFile == Min(FreeFiles)
\* UploadFile: GeneratePath and the row, then the content; a failure of the
\* write leaves the row
CreateFile == FreeFiles /= {} /\ file' = [file EXCEPT ![NewFile] = [NoFile EXCEPT !.status = "pending"]]
WriteFile(f, content) == file' = [file EXCEPT ![f].blob = content]
\* the MD5 is written with the confirmation
ConfirmUploadFiles(fs) ==
    file' = [f \in Files |->
        IF f \in fs THEN [file[f] EXCEPT !.status = "available", !.md5 = file[f].blob] ELSE file[f]]
\* time passes the expire_time of a row that somebody waits for
FileExpires(f) ==
    /\ file[f].status = "pending" /\ ~file[f].expired /\ \E r \in Readers : reader[r].file = f
    /\ file' = [file EXCEPT ![f].expired = TRUE]
    /\ UNCHANGED <<reader, fileFaults>>

ReadAt(r, v) == reader' = [reader EXCEPT ![r] = v] /\ UNCHANGED <<file, fileFaults>>
\* observeFileContent of the row that extractFile has read: it is not modified
\* when its MD5 is the one the client sends, or neither has one
ObserveFileContent(r, f, etag) ==
    /\ reader[r].pc = "idle" /\ file[f].status /= "none"
    /\ ReadAt(r, [NoRead EXCEPT !.pc = IF etag = file[f].md5 THEN "not modified" ELSE "wait", !.file = f])

\* waitFileAvailable: the row is read again after the timer, which fires once
WaitFileExpired(r) ==
    LET f == file[reader[r].file] IN
    /\ reader[r].pc = "wait"
    /\ ReadAt(r, [reader[r] EXCEPT !.pc = IF f.status = "available" \/ f.expired THEN "read" ELSE "select"])
WaitFileAvailable(r) ==
    LET f == file[reader[r].file] IN
    /\ reader[r].pc = "wait"
    /\ ReadAt(r, [reader[r] EXCEPT !.pc = IF f.status = "available" THEN "read"
                                          ELSE IF f.expired THEN "failed" ELSE "select"])
WaitTimer(r) ==
    /\ reader[r].pc = "select" /\ ~reader[r].timer
    /\ ReadAt(r, [reader[r] EXCEPT !.pc = "wait", !.timer = TRUE])
\* the context of the request ends
WaitDone(r) == reader[r].pc = "select" /\ ReadAt(r, [reader[r] EXCEPT !.pc = "cancelled"])
DownloadFile(r) ==
    /\ reader[r].pc = "read"
    /\ ReadAt(r, [reader[r] EXCEPT !.pc = "done", !.got = file[reader[r].file].blob])

Etags == {Nothing, Content("etag", "")}
FileNext ==
    \/ \E r \in Readers :
        \/ \E f \in Files, etag \in Etags : ObserveFileContent(r, f, etag)
        \/ WaitFileAvailable(r) \/ WaitTimer(r) \/ WaitDone(r) \/ DownloadFile(r)
    \/ \E f \in Files : FileExpires(f)

\* What is served is the whole content of an available file (DownloadFile).
ServedContentIsWhole ==
    \A r \in Readers : reader[r].pc = "done" =>
        reader[r].got = file[reader[r].file].md5 /\ reader[r].got /= Nothing

================================================================================
