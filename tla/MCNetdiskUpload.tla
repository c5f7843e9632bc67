-------------------------- MODULE MCNetdiskUpload --------------------------
(***************************************************************************)
(* TLC instance of NetdiskUpload: a file of up to two chunks and one of up *)
(* to one, so that an upload can announce more, less or as much as the     *)
(* one it overlaps.                                                        *)
(***************************************************************************)
EXTENDS UploadHistory

CONSTANTS f1, f2

MCFiles == {f1, f2}
MCMaxLen == [f \in MCFiles |-> IF f = f1 THEN 2 ELSE 1]
=============================================================================
