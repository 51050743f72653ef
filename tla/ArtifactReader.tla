--------------------------- MODULE ArtifactReader ---------------------------
(***************************************************************************)
(* ArtifactReader (src/src/artifact.cpp): bytes of one stored artifact are *)
(* read at any offset, and the digest of the whole artifact is compared    *)
(* when its last byte is read in sequence.                                 *)
(*                                                                         *)
(* A reader is the position after its last read (bytesRead_) and whether   *)
(* its hasher was given exactly the bytes before that position.  Reading   *)
(* elsewhere moves the position but resets nothing, so the next read may   *)
(* be in sequence again with a hash that is not the artifact's.            *)
(***************************************************************************)
EXTENDS Integers

Reader == [at : Nat, whole : BOOLEAN]

\* ArtifactReader::open.
NewReader == [at |-> 0, whole |-> TRUE]

\* readAt, for n bytes at an offset.
AfterRead(r, offset, n) == [at |-> offset + n, whole |-> r.whole /\ offset = r.at]

\* The last bytes are read in sequence: the digest is compared.
Compares(r, offset, n, size) == offset = r.at /\ offset + n = size

\* The comparison fails if the hash, or the payload, is not the artifact's.
DigestFails(r, offset, n, size, intact) ==
  Compares(r, offset, n, size) /\ ~(r.whole /\ intact)
=============================================================================
