----------------------------- MODULE FileRequests -----------------------------
(***************************************************************************)
(* All that uploads, confirms and reads files: the requests for problems,  *)
(* posts and compilers, the task that builds packages, and the readers.    *)
(* They share the rows of files and nothing else.                          *)
(***************************************************************************)
EXTENDS ProblemPackages, Posts

FilesInit == FileInit /\ PackageInit /\ PostInit
FilesNext ==
    \/ PackageNext /\ UNCHANGED postVars
    \/ PostNext /\ UNCHANGED packageVars
    \/ FileNext /\ UNCHANGED <<packageVars, postVars>>
FilesSpec == FilesInit /\ [][FilesNext]_<<fileVars, packageVars, postVars>>

\* Rows of problems, posts and compilers refer to whole files, and readers are
\* served whole ones, wherever an upload or a request has stopped
\* (UploadFile, ConfirmUploadFile, DownloadFile).
FilesAvailable == ReferencedFilesAvailable /\ PostFilesAvailable /\ ServedContentIsWhole

================================================================================
