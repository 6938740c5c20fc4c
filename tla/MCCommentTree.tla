--------------------------- MODULE MCCommentTree ---------------------------
(* TLC instance of CommentTree: a root with two replies, the first one     *)
(* answered and answered again, and a second root.                         *)
EXTENDS CommentTree

CONSTANTS c1, c2, c3, c4, c5, none

MCThread == <<c1, c2, c3, c4, c5>>
MCParent == c1 :> none @@ c2 :> c1 @@ c3 :> c2 @@ c4 :> c1 @@ c5 :> none
=============================================================================
