--------------------------- MODULE MCGitRealign ----------------------------
(* GitRealign for TLC: a feature branch and main fork at s; the other Mac    *)
(* adds u and m and may rewrite all three, and n on m; the user here adds w  *)
(* and x.                                                                    *)
EXTENDS GitRealign

CONSTANTS b, s, s2, u, u2, m, m2, n, w, x, r1

History ==
    [c \in Commits |->
        CASE c \in {s, s2} -> b
          [] c \in {u, m, w} -> s
          [] c \in {u2, m2} -> s2
          [] c = x -> w
          [] c = n -> m
          [] OTHER -> NoCommit]

\* The user's commits add a file of their own.
Content(shared, own) == [shared |-> shared, own |-> own]
Contents ==
    [c \in Commits |->
        CASE c \in {u, u2} -> Content(2, Absent)
          [] c \in {m, m2} -> Content(3, Absent)
          [] c \in {w, x} -> Content(4, 1)
          [] c = b -> Content(0, Absent)
          [] c = n -> Content(5, Absent)
          [] OTHER -> Content(1, Absent)]
Rewrites == [c \in {s, u, m} |-> CASE c = s -> s2 [] c = u -> u2 [] OTHER -> m2]
Delivered == {Content(3, Absent), Content(3, 1)}

Pair(onWork, onMain) == [work |-> onWork, main |-> onMain]
Clones == [here : {Pair(s, s), Pair(w, NoCommit)}, there : {Pair(s, s)}]
=============================================================================
