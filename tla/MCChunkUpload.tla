---------------------------- MODULE MCChunkUpload ----------------------------
(* ChunkUpload for TLC. *)
EXTENDS ChunkUpload, TLC

MCChunks == 0 .. 1
Symmetry == Permutations(Requests) \cup Permutations(Paths)

-----------------------------------------------------------------------------
(* What does not hold: configurations MCChunkUpload_retry and _restart *)

\* A commit that is tried again leaves the committed file alone.
RecordedNotEmptied ==
    \A p \in Paths : asset[p] # None /\ asset[p] > 0 => file[p] # <<>>

\* Of no chunk there is only a part in a recorded file.
NothingTorn == \A p \in Paths \ disturbed : asset[p] # None => torn[p] = {}

\* Until a file is committed its acknowledged chunks are kept.
AckedKept ==
    \A p \in Paths : asset[p] = None /\ file[p] = None => acked[p] \subseteq Stored(p)

=============================================================================
