--------------------------- MODULE MCUploadServer ---------------------------
(* A small instance of UploadServer.                                       *)
EXTENDS UploadServer

MCNames == {"a"}

\* An empty upload, and one of more than one chunk.
MCSizes == {0, 2}
=============================================================================
