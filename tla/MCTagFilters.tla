---------------------------- MODULE MCTagFilters ----------------------------
(* TLC instance of TagFilters: two tags, two lives of the view model.      *)
EXTENDS TagFilters
=============================================================================
