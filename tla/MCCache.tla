------------------------------ MODULE MCCache ------------------------------
EXTENDS CachePane, TLC
CONSTANTS u, d, g
\* Cache "A": u, and d that depends on it and reads it. Cache "B": g, whose
\* loader reads d and then, by mistake, g itself.
Caches == u :> "A" @@ d :> "A" @@ g :> "B"
DependsOn == u :> {} @@ d :> {u} @@ g :> {}
Reads == u :> <<>> @@ d :> <<u>> @@ g :> <<d, g>>
Order == <<u, d, g>>
EagerEntries == <<u, d>>
Panes == << <<u, d>> >>
\* What may go wrong together without a known loss.
PassModes == {{"load", "write", "restart"}, {"delete", "write"}, {"delete", "clear"},
              {"watch", "delete", "peek"}}
Symmetry == Permutations(Threads)
=============================================================================
