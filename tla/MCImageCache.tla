---------------------------- MODULE MCImageCache ----------------------------
EXTENDS ImageCache, TLC

CONSTANTS a1, k1, k2

\* Both images share the archive, and with it the state of its stream.
Packed == (k1 :> a1) @@ (k2 :> a1)
=============================================================================
