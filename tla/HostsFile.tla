------------------------------- MODULE HostsFile -------------------------------
(***************************************************************************)
(* config/hosts.json (ssh_mcp/config_manager.py, ssh_mcp/handlers/host.py):*)
(* each MCP client starts a server process of its own, and they all add to *)
(* and remove from the one file.                                           *)
(*                                                                         *)
(* The file is read, then opened for writing, which empties it, then       *)
(* written.  Nothing keeps two processes apart, nor a process from being   *)
(* killed in between.                                                      *)
(***************************************************************************)
EXTENDS Integers, Sequences, FiniteSets

CONSTANTS
  Editor,          \* server processes
  HostName,        \* names of hosts
  Endpoint         \* (host, port)

\* An entry of ssh_hosts; the other fields do not matter here.
Entry == [name : HostName, at : Endpoint]

VARIABLES
  hosts,           \* the entries in the file, if it can be parsed
  parses,          \* FALSE: empty or two texts in one
  edit,            \* the call each process is in
  expected,        \* the names that the calls before have left there
  disturbed        \* two calls have overlapped, or one was killed while it wrote

hostsVars == <<hosts, parses, edit, expected, disturbed>>

AtRestEdit == [at |-> "idle", data |-> <<>>, name |-> {}, gone |-> {}]

Names(list) == {list[i].name : i \in DOMAIN list}

HostsInit ==
  /\ hosts = <<>>
  /\ parses = TRUE
  /\ edit = [p \in Editor |-> AtRestEdit]
  /\ expected = {}
  /\ disturbed = FALSE

\* json.load; add_host goes on from nothing when it raises.
Loaded == IF parses THEN hosts ELSE <<>>

FirstMatch(list, e) ==
  {i \in DOMAIN list :
     /\ list[i].name = e.name \/ list[i].at = e.at
     /\ \A j \in 1 .. i - 1 : list[j].name # e.name /\ list[j].at # e.at}

\* A fault: names are not compared.
AddedUnchecked(list, e) ==
  IF \E i \in DOMAIN list : list[i].name # e.name /\ list[i].at = e.at THEN {}
  ELSE {Append(list, e)}

\* A fault: the entry with the host and port is replaced too.
AddedOverEndpoint(list, e) ==
  IF FirstMatch(list, e) = {} THEN {Append(list, e)}
  ELSE {[list EXCEPT ![i] = e] : i \in FirstMatch(list, e)}

\* What add_host would write: the first entry with the name is replaced, but an entry
\* before it with the host and port stops the call without a write.
Added(list, e) ==
  IF FirstMatch(list, e) = {} THEN {Append(list, e)}
  ELSE {[list EXCEPT ![i] = e] : i \in {j \in FirstMatch(list, e) : list[j].name = e.name}}

Begins(p, data, name, gone) ==
  /\ edit' = [edit EXCEPT ![p] = [at |-> "read", data |-> data, name |-> name, gone |-> gone]]
  /\ disturbed' = (disturbed \/ \E q \in Editor \ {p} : edit[q].at # "idle")
  /\ UNCHANGED <<hosts, parses, expected>>

AddHost(p) ==
  /\ edit[p].at = "idle"
  /\ \E e \in Entry : \E list \in Added(Loaded, e) : Begins(p, list, {e.name}, {})

\* The entries of list under other names, in their order: a set of one list.
Kept(list, n) ==
  LET stay == {i \in DOMAIN list : list[i].name # n}
      inOrder == {f \in [1 .. Cardinality(stay) -> stay] :
                    \A i, j \in DOMAIN f : i < j => f[i] < f[j]}
  IN  {[i \in DOMAIN f |-> list[f[i]]] : f \in inOrder}

\* remove_host writes nothing if the file cannot be read or has no such name.
RemoveHost(p) ==
  /\ edit[p].at = "idle" /\ parses
  /\ \E n \in Names(hosts) : \E list \in Kept(hosts, n) : Begins(p, list, {}, {n})

\* open(path, "w")
OpenHosts(p) ==
  /\ edit[p].at = "read"
  /\ parses' = FALSE
  /\ edit' = [edit EXCEPT ![p].at = "opened"]
  /\ UNCHANGED <<hosts, expected, disturbed>>

\* The text goes to the start of the file: what another process has written there since
\* shows behind it if it was longer.
WriteHosts(p) ==
  /\ edit[p].at = "opened"
  /\ hosts' = edit[p].data
  /\ IF parses THEN parses' \in BOOLEAN ELSE parses' = TRUE
  /\ expected' = (expected \cup edit[p].name) \ edit[p].gone
  /\ edit' = [edit EXCEPT ![p] = AtRestEdit]
  /\ UNCHANGED disturbed

EditorKilled(p) ==
  /\ edit[p].at # "idle"
  /\ disturbed' = (disturbed \/ edit[p].at = "opened")
  /\ edit' = [edit EXCEPT ![p] = AtRestEdit]
  /\ UNCHANGED <<hosts, parses, expected>>

HostsNext ==
  \E p \in Editor : AddHost(p) \/ RemoveHost(p) \/ OpenHosts(p) \/ WriteHosts(p) \/ EditorKilled(p)

HostsSpec == HostsInit /\ [][HostsNext]_hostsVars

-----------------------------------------------------------------------------

HostsTypeOK ==
  /\ hosts \in Seq(Entry)
  /\ parses \in BOOLEAN
  /\ \A p \in Editor :
       /\ edit[p].at \in {"idle", "read", "opened"}
       /\ edit[p].data \in Seq(Entry)
       /\ edit[p].name \subseteq HostName /\ edit[p].gone \subseteq HostName
  /\ expected \subseteq HostName
  /\ disturbed \in BOOLEAN

\* However processes come between each other, no name is in the file twice: ssh_connect
\* by name means one host.
NamesUnique ==
  \A i, j \in DOMAIN hosts : hosts[i].name = hosts[j].name => i = j

\* As long as no two calls overlapped and none was killed while it wrote, the file can
\* be read whenever nobody writes it, and a host is in it from the call that added it
\* to the one that removes it.
HostsKept ==
  ~disturbed /\ (\A p \in Editor : edit[p].at # "opened") =>
    parses /\ Names(hosts) = expected
===============================================================================
