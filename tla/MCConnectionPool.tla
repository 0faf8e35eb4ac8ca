-------------------------- MODULE MCConnectionPool --------------------------
(* ConnectionPool for TLC: borrowers and connections are interchangeable.    *)
EXTENDS ConnectionPool, TLC

Interchangeable == Permutations(Borrower) \cup Permutations(Conn)

\* What a connection is to the pool: once it is down, no step depends on its
\* age and its count of uses, and of a free object nothing is left.
Relevant(c) ==
  IF Free(c) THEN Blank
  ELSE IF conn[c].up THEN conn[c] ELSE [Blank EXCEPT !.state = conn[c].state]

View == <<pool, available, lock, closed, [c \in Conn |-> Relevant(c)],
          pc, hold, visit, doomed, left>>
=============================================================================
