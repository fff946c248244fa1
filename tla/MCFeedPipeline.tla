---------------------------- MODULE MCFeedPipeline ---------------------------
(* A small instance of FeedPipeline for TLC. *)
EXTENDS FeedPipeline
=============================================================================
