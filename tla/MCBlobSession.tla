---------------------------- MODULE MCBlobSession ----------------------------
(* Blobs of 0 to 4 bytes in chunks of two: an empty file, a single byte     *)
(* (whose status reads as empty), a short last chunk, and two full ones.    *)
EXTENDS BlobSession
=============================================================================
