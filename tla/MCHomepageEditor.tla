--------------------------- MODULE MCHomepageEditor ---------------------------
(* Small instances of HomepageEditor for TLC; the pages are named in the cfgs. *)
EXTENDS HomepageEditor
=============================================================================
