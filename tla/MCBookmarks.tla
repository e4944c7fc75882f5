---------------------------- MODULE MCBookmarks ----------------------------
(* Instance of Bookmarks for TLC. *)
EXTENDS Bookmarks
=============================================================================
