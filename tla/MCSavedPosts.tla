---------------------------- MODULE MCSavedPosts ----------------------------
(* TLC instance of SavedPosts: two recent stories and an old one.          *)
EXTENDS SavedPosts
=============================================================================
