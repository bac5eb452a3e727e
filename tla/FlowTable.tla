----------------------------- MODULE FlowTable -----------------------------
(***************************************************************************)
(* What the flow hash table promises to the threads that use it: a set of  *)
(* flow records.  A lookup returns a record of the set that has the socket *)
(* asked for, or NULL when there is none, as if it were made in one step.  *)
(* Module Sniffer takes the table as this set; HashTable is shown to       *)
(* implement it.                                                           *)
(***************************************************************************)
CONSTANTS
  Flows,    \* addresses of flow_t objects
  Sockets,  \* <<source, destination>> pairs of endpoints
  NULL,     \* the result of a lookup that finds nothing
  None      \* "no result yet"

VARIABLES
  table,    \* the flows of the table
  socket,   \* socket[f]: f->socket
  sought,   \* the argument of the lookup
  found     \* its result

vars == <<table, socket, sought, found>>

Init ==
  /\ table = {}
  /\ socket \in [Flows -> Sockets \cup {None}]
  /\ sought \in Sockets \cup {None}
  /\ found = None

Ask(s) ==
  /\ sought' = s
  /\ found' = None
  /\ UNCHANGED <<table, socket>>

Forget ==
  /\ sought' = None
  /\ found' = None
  /\ UNCHANGED <<table, socket>>

Hit(f) ==
  /\ sought # None /\ found = None
  /\ f \in table /\ socket[f] = sought
  /\ found' = f
  /\ UNCHANGED <<table, socket, sought>>

Miss ==
  /\ sought # None /\ found = None
  /\ \A f \in table : socket[f] # sought
  /\ found' = NULL
  /\ UNCHANGED <<table, socket, sought>>

Insert(f, s) ==
  /\ f \notin table
  /\ table' = table \cup {f}
  /\ socket' = [socket EXCEPT ![f] = s]
  /\ UNCHANGED <<sought, found>>

Remove(f) ==
  /\ f \in table
  /\ table' = table \ {f}
  /\ UNCHANGED <<socket, sought, found>>

Next ==
  \/ \E s \in Sockets : Ask(s)
  \/ \E f \in Flows : Hit(f) \/ Remove(f) \/ \E s \in Sockets : Insert(f, s)
  \/ Miss \/ Forget

Spec == Init /\ [][Next]_vars
=============================================================================
