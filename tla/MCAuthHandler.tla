--------------------------- MODULE MCAuthHandler ---------------------------
(* Instances of AuthHandler for TLC.                                       *)
EXTENDS AuthHandlerInduction, TLC

CONSTANTS r1, r2, p1, p2, c1, c2, sa1, sa2, bad, h1, h2, broken, typo

Symmetry == Permutations(Calls)

\* Two clusters, each by a hostname of its own, an alias whose URL is empty,
\* and a name that resolves to nothing.
TwoClusters == (h1 :> c1) @@ (h2 :> c2) @@ (broken :> None) @@ (typo :> Unknown)

\* The same but for the cluster the configuration names already.
ConfiguredNames == (h2 :> c2) @@ (broken :> None) @@ (typo :> Unknown)

\* Two clusters by their hostnames alone.
TwoNames == (h1 :> c1) @@ (h2 :> c2)

\* One cluster, named directly.
OneCluster == (h1 :> c1)

\* No hostname is ever given; the configuration names the cluster.
NoNames == [h \in {} |-> None]
=============================================================================
