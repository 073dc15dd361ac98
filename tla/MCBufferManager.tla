--------------------------- MODULE MCBufferManager ---------------------------
(* Caches of one or two buffers for two or three blocks, so that buffers are *)
(* evicted, waited for and used up.                                          *)
EXTENDS BufferManager
=============================================================================
