----------------------------- MODULE MCSeedCache -----------------------------
(***************************************************************************)
(* Small instances of SeedCache for TLC.                                   *)
(***************************************************************************)
EXTENDS SeedCache, TLC

CONSTANTS t1, t2, i1, i2, a, b, c, f, g, h

\* One torrent of one file, held by two instances.
TwoInstancesTorrentOf  == a :> t1 @@ b :> t1
TwoInstancesInstanceOf == a :> i1 @@ b :> i2
TwoInstancesFileOf     == a :> f @@ b :> f

\* A torrent of two files, of which each instance has one as a link, and a
\* second torrent.
GridTorrentOf  == a :> t1 @@ b :> t1 @@ c :> t2
GridInstanceOf == a :> i1 @@ b :> i2 @@ c :> i2
GridFileOf     == a :> f @@ b :> g @@ c :> h

\* One torrent of one file with two save paths in one instance, and a second
\* instance.
StormTorrentOf  == a :> t1 @@ b :> t1 @@ c :> t1
StormInstanceOf == a :> i1 @@ b :> i2 @@ c :> i1
StormFileOf     == a :> f @@ b :> f @@ c :> f
=============================================================================
