----------------------------- MODULE MCTickBudget -----------------------------
(***************************************************************************)
(* Three torrents of one, two and three units; as many units of cache as   *)
(* the largest needs, so that it competes with the other two together.     *)
(***************************************************************************)
EXTENDS TickBudget

MCSize == <<1, 2, 3>>

\* Scores: cold (only the second), as dense as each other, twice as dense and more.
MCRatesOf == <<{1}, {0, 2, 4}, {3, 6}>>

\* Four torrents for the question what evictions buy.
FourSize    == <<1, 1, 1, 3>>
FourRatesOf == <<{0, 1}, {1}, {2}, {0, 6}>>
=============================================================================
