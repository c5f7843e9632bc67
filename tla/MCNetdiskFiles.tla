--------------------------- MODULE MCNetdiskFiles ---------------------------
(***************************************************************************)
(* TLC instance of NetdiskFiles: a user with two files in a directory, and *)
(* a friend who has a directory of another name or, in the other file      *)
(* system, not even an own one, while the user has a file beside the       *)
(* directory.  A typed name may lead into the friend's directory.          *)
(***************************************************************************)
EXTENDS FilesHistory, TLC

CONSTANTS ann, bob, c1, c2, c3

MCTrees ==
    LET mine == <<ann>> :> Dir @@ <<ann, 1>> :> Dir @@ <<ann, 1, 1>> :> c1 @@ <<ann, 1, 2>> :> c2
        friend == <<bob>> :> Dir @@ <<bob, 2>> :> Dir @@ <<bob, 2, 2>> :> c3
    IN  {mine @@ friend, mine @@ <<ann, 2>> :> c3}

MCBeyond == {<<bob, 1>>}
=============================================================================
