-------------------------- MODULE MCPreviewDecoder --------------------------
(* PreviewDecoder on small instances. *)
EXTENDS PreviewDecoder
=============================================================================
