---------------------------- MODULE MCReadPosts ----------------------------
(* TLC instance of ReadPosts: no symmetry, a liveness property is checked. *)
EXTENDS ReadPosts
=============================================================================
