-------------------------- MODULE MCSessionManager --------------------------
(* SessionManager for TLC: every config is a user of one and the same host,  *)
(* and the calls, objects, ids and configs are interchangeable.              *)
EXTENDS SessionManager, TLC

OneHost == [c \in Conf |-> "host"]

Interchangeable == Permutations(Task) \cup Permutations(Obj) \cup
                   Permutations(Sid) \cup Permutations(Conf)
=============================================================================
