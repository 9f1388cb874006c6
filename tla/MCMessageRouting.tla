-------------------------- MODULE MCMessageRouting --------------------------
(* Instances of MessageRouting: a chain of servers g, p, c.  Account x is   *)
(* kept by c and by p, y by c alone, below x.                               *)
EXTENDS MessageRouting, TLC

CONSTANTS g, p, c, x, y, m1, m2, m3

MCNode == {g, p, c}
MCTwoNodes == {p, c}
MCAccount == {g, p, c, x, y}
MCUpstream == c :> p @@ p :> g @@ g :> NoNode
MCTwoUpstream == c :> p @@ p :> NoNode
MCKnown == c :> {c, x, y} @@ p :> {} @@ g :> {}
MCTwoKnown == c :> {c, x, y} @@ p :> {}
MCParent == [a \in MCAccount |-> IF a = x THEN c ELSE IF a = y THEN x ELSE NoAccount]
\* To the parent server, and up to the top, which is no block server.
MCMessage == {m1, m2}
MCSource == m1 :> x @@ m2 :> x
MCTarget == m1 :> p @@ m2 :> g
MCEntry == m1 :> {c, p} @@ m2 :> {c, p}
\* An account the parent can route, the child's own and one below another, whose
\* entries at the parent lead nowhere; from an account to itself, up and down.
MCLiveMessage == {m1, m2, m3}
MCLiveSource == m1 :> x @@ m2 :> c @@ m3 :> y
MCLiveTarget == m1 :> p @@ m2 :> c @@ m3 :> x
MCLiveEntry == [m \in MCLiveMessage |-> {c, p}]
=============================================================================
