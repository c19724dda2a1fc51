--------------------------- MODULE MCChunkedOutput --------------------------
(***************************************************************************)
(* Model checking of ChunkedOutput: what the source says of the stream, as *)
(* a run checks that is expected to fail.                                  *)
(***************************************************************************)
EXTENDS ChunkedOutput

(* try_move_small_buffer_to_next_chunk computes copyAmount, the part of    *)
(* the bytes that fits in the next chunk: it stays inside that chunk.      *)
StaysInChunk == pc # "undefined"
=============================================================================
