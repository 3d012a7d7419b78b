--------------------------- MODULE MCCommunityLog ---------------------------
(* A small instance of CommunityLog for TLC. *)
EXTENDS CommunityLog, TLC

CONSTANTS r1, r2, r3

MCNodes == 1..2
MCIds == 1..3
\* Two requests of the creator may overlap, and one of the other member.
MCHome == [r \in {r1, r2, r3} |-> IF r = r3 THEN 2 ELSE 1]
Alike == Permutations({r1, r2})

\* Both members may be in the middle of a round, but only one of them is
\* exchanging pages.
OneExchange == Cardinality({n \in Nodes : pc[n] = "pages"}) <= 1

\* For liveness: two requests of one member, which only post.  No step of an
\* exchange looks at the kind or the target of an event.
MCOwnHome == [r \in {r1, r2} |-> 2]
PostsNext == \/ \E r \in Requests : ReadSeq(r) \/ PostMessage(r)
             \/ \E n \in Nodes : Sync(n)
PostsSpec == Init /\ [][PostsNext]_vars /\ Fairness
=============================================================================
