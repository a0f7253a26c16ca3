------------------------ MODULE MCStoragePressure ------------------------
(* Small instances of the storage pressure guard. *)
EXTENDS StoragePressure, TLC

\* The torrents are interchangeable; only runs without liveness use this.
TorrentSymmetry == Permutations(Torrents)
==========================================================================
