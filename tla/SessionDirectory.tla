--------------------------- MODULE SessionDirectory ---------------------------
(***************************************************************************)
(* What SessionManager promises its callers, without locks, connections,   *)
(* objects or rebuilds: an id stands for one host, port and user from the  *)
(* call that opens it to the one that closes it, and whoever asks for a    *)
(* session by its id gets one of that host, port and user and keeps it,    *)
(* whatever becomes of the id.                                             *)
(***************************************************************************)
CONSTANTS
  Proc,         \* the coroutines
  Sid,          \* session ids
  Conf,         \* (host, port, user)
  None

VARIABLES
  bound,        \* what each id stands for
  held          \* what the session that each coroutine works with is connected to

dirVars == <<bound, held>>

DirInit ==
  /\ bound = [s \in Sid |-> None]
  /\ held = [p \in Proc |-> None]

\* create_session with a session of its own.
Open(s, c) ==
  /\ bound[s] = None
  /\ bound' = [bound EXCEPT ![s] = c]
  /\ UNCHANGED held

\* close_session, close_all_sessions, the cleanup, and a dead session discarded.
Close(S) ==
  /\ bound' = [s \in Sid |-> IF s \in S THEN None ELSE bound[s]]
  /\ UNCHANGED held

\* get_session, whether the session was there or had to be built anew.
HandOut(p, s) ==
  /\ held[p] = None
  /\ bound[s] # None
  /\ held' = [held EXCEPT ![p] = bound[s]]
  /\ UNCHANGED bound

\* The command or transfer is over.
GiveBack(p) ==
  /\ held' = [held EXCEPT ![p] = None]
  /\ UNCHANGED bound

DirNext ==
  \/ \E s \in Sid, c \in Conf : Open(s, c)
  \/ \E S \in SUBSET Sid : Close(S)
  \/ \E p \in Proc, s \in Sid : HandOut(p, s)
  \/ \E p \in Proc : GiveBack(p)

DirSpec == DirInit /\ [][DirNext]_dirVars
=============================================================================
