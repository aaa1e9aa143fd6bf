--------------------------- MODULE MCAudioStream ---------------------------
(* Small instances of AudioStream.                                         *)
EXTENDS AudioStream

\* Two bytes per frame.  Tracks longer and shorter than the ring; a data chunk
\* that ends in half a frame; a header that declares less than the file holds,
\* more than it holds (truncated file), or nothing (0).
MCFiles ==
  {[bytes |-> 14, declared |-> 14], [bytes |-> 15, declared |-> 11],
   [bytes |-> 10, declared |-> 16], [bytes |-> 7, declared |-> 0]}
=============================================================================
