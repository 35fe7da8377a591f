-------------------------- MODULE MCGraphIngestion --------------------------
EXTENDS GraphIngestion, TLC
CONSTANTS d1, d2, d3, m1, m2, s1, b1, b2, r1, r2

\* d1 is guarded by a clientState, d2 and d3 take every notification.
MCStateOf == (d1 :> s1) @@ (d2 :> NoState) @@ (d3 :> NoState)
Arrived(m, s) == [msg |-> m, state |-> s, change |-> "created"]

\* One post with two messages, for the interleavings around the window.
OnePost == b1 :> <<Arrived(m1, s1), Arrived(m2, NoState)>>

\* Two posts that share a message; one also announces a deletion.
TwoPosts ==
  (b1 :> <<Arrived(m1, s1), [msg |-> m1, state |-> s1, change |-> "deleted"],
           Arrived(m2, s1)>>)
    @@ (b2 :> <<Arrived(m2, NoState)>>)

RequestSymmetry == Permutations({r1, r2})
=============================================================================
