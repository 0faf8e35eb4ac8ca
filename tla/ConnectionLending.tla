--------------------------- MODULE ConnectionLending ---------------------------
(***************************************************************************)
(* What ConnectionPool promises the threads that borrow from it, without   *)
(* its table, its lock, its validator and the states of its connections:   *)
(* an open connection waits in line or is in the hands of one borrower,    *)
(* the one that has waited longest is lent first, no more than MaxSize are *)
(* open, and what a borrower hands in is closed or goes to the end of the  *)
(* line.                                                                   *)
(***************************************************************************)
EXTENDS Naturals, FiniteSets, Sequences, Functions

CONSTANTS
  Borrower,     \* the threads that use the pool
  Conn,         \* connections
  MaxSize,      \* how many may be open
  None

VARIABLES
  open,         \* the connections that are up
  with,         \* what each borrower has in hand
  ready         \* the line of those to be lent

lendVars == <<open, with, ready>>

LendInit ==
  /\ open = {}
  /\ with = [b \in Borrower |-> None]
  /\ ready = <<>>

\* A connection that is nowhere yet can be opened as long as there is room.
Opens(c) ==
  /\ Cardinality(open) < MaxSize
  /\ c \notin open \cup Range(ready) \cup Range(with)
  /\ open' = open \cup {c}

\* initialize opens a connection and puts it in line.
Fill(c) ==
  /\ Opens(c)
  /\ ready' = Append(ready, c)
  /\ UNCHANGED with

\* acquire hands out the connection that has waited longest.
Lend(b) ==
  /\ with[b] = None /\ ready # <<>>
  /\ with' = [with EXCEPT ![b] = Head(ready)]
  /\ ready' = Tail(ready)
  /\ UNCHANGED open

\* acquire hands out one that it opens.
LendNew(b, c) ==
  /\ with[b] = None
  /\ Opens(c)
  /\ with' = [with EXCEPT ![b] = c]
  /\ UNCHANGED ready

\* release puts the connection back in line.
TakeBack(b) ==
  /\ with[b] # None
  /\ with' = [with EXCEPT ![b] = None]
  /\ ready' = Append(ready, with[b])
  /\ UNCHANGED open

\* acquire or release gets rid of it: it is closed when the borrower lets go of it.
Discard(b) ==
  /\ with[b] # None
  /\ with' = [with EXCEPT ![b] = None]
  /\ open' = open \ {with[b]}
  /\ UNCHANGED ready

\* The connection is lost, or closed by the validator or by close, wherever it is.
Break(c) ==
  /\ open' = open \ {c}
  /\ UNCHANGED <<with, ready>>

\* close empties the line: nothing in it is open any more.
Drain ==
  /\ Range(ready) \cap open = {}
  /\ ready' = <<>>
  /\ UNCHANGED <<open, with>>

LendNext ==
  \/ \E b \in Borrower : Lend(b) \/ TakeBack(b) \/ Discard(b)
  \/ \E b \in Borrower, c \in Conn : LendNew(b, c)
  \/ \E c \in Conn : Fill(c) \/ Break(c)
  \/ Drain

LendSpec == LendInit /\ [][LendNext]_lendVars

-----------------------------------------------------------------------------

\* No open connection is out of reach: it waits in line, or somebody has it.
WithinReach == open \subseteq Range(ready) \cup Range(with)
=============================================================================
