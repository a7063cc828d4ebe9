---------------------------- MODULE MCGifDecoder ----------------------------
(* Instance of GifDecoder for TLC. *)
EXTENDS GifDecoder
============================================================================
