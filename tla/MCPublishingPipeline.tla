------------------------ MODULE MCPublishingPipeline ------------------------
(* Small instances of PublishingPipeline for TLC. *)
EXTENDS PublishingPipeline
=============================================================================
