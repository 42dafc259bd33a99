------------------------------- MODULE MCRepair -------------------------------
(* One torrent of two files, x and y, held by one or two instances.         *)
EXTENDS Repair

CONSTANTS t1, i1, i2, a, b, c, f, g, h, x, y

\* a and c are the same file of the torrent in two instances.
MCTorrentOf  == [l \in Link |-> t1]
MCInstanceOf == [l \in Link |-> IF l = c THEN i2 ELSE i1]
MCWants      == [l \in Link |-> IF l = b THEN y ELSE x]

\* g is a copy of f that an instance keeps in its save directory.
MCHome       == [l \in Link |-> IF l = b THEN h ELSE f]
MCContents   == [n \in File |-> IF n = h THEN y ELSE x]
=============================================================================
