--------------------------- MODULE MCStoryAutosave ---------------------------
(* StoryAutosave for TLC: the bounds are in StoryAutosave.cfg. *)
EXTENDS StoryAutosave
=============================================================================
