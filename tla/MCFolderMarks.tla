---------------------------- MODULE MCFolderMarks ----------------------------
(* Instances of FolderMarks: a check that carries a confirmation, a run that *)
(* marks the folder and may stop waiting for its visit, and one of each      *)
(* other writer, two of those that need the series to themselves.            *)
EXTENDS FolderMarks
=============================================================================
