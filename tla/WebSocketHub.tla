---------------------------- MODULE WebSocketHub ----------------------------
(* ConnectionHub and GroupManager: broadcasts over a snapshot of the         *)
(* registered connections.  The hub's lock is never held across another      *)
(* await, so that each of its blocks is one step.                            *)
EXTENDS Naturals, FiniteSets

CONSTANTS Conns, NoConn   \* connections <<id, n>>: a client may come back under its id

ASSUME HubAssumption == NoConn \notin Conns

VARIABLES
    socket,       \* per connection: "new", "open", "closed"
    connections,  \* hub._connections: per id, the connection or NoConn
    members,      \* the ids in the group
    owed,         \* connections a broadcast has yet to send to
    snapshot,     \* history: the connections of that broadcast
    got,          \* history: those that it reached
    displaced     \* history: connections whose entry another of the same id changed

hub_vars == <<socket, connections, members, owed, snapshot, got, displaced>>

id(c) == c[1]
Ids == {id(c) : c \in Conns}
Registered == {connections[i] : i \in Ids} \ {NoConn}

HubTypeOK ==
    /\ socket \in [Conns -> {"new", "open", "closed"}]
    /\ connections \in [Ids -> Conns \cup {NoConn}] /\ members \subseteq Ids
    /\ owed \subseteq Conns /\ snapshot \subseteq Conns /\ got \subseteq Conns /\ displaced \subseteq Conns

HubInit ==
    /\ socket = [c \in Conns |-> "new"] /\ connections = [i \in Ids |-> NoConn] /\ members = {}
    /\ owed = {} /\ snapshot = {} /\ got = {} /\ displaced = {}

Others(c) == {d \in Conns \ {c} : connections[id(c)] = d}

register(c) ==
    /\ socket[c] = "new"
    /\ socket' = [socket EXCEPT ![c] = "open"]
    /\ connections' = [connections EXCEPT ![id(c)] = c]
    /\ displaced' = displaced \cup Others(c)
    /\ UNCHANGED <<members, owed, snapshot, got>>

(* Plausible slips in the definitions below, used to test the properties. *)
unregister_all(c) ==
    /\ socket[c] = "closed" /\ connections[id(c)] # NoConn
    /\ connections' = [i \in Ids |-> NoConn] /\ displaced' = displaced \cup Others(c)
    /\ UNCHANGED <<socket, members, owed, snapshot, got>>

(* The client goes away; the application unregisters it afterwards, by id: *)
(* whichever connection is there by then is removed.                       *)
disconnect(c) ==
    /\ socket[c] = "open" /\ socket' = [socket EXCEPT ![c] = "closed"]
    /\ UNCHANGED <<connections, members, owed, snapshot, got, displaced>>
unregister(c) ==
    /\ socket[c] = "closed" /\ connections[id(c)] # NoConn
    /\ connections' = [connections EXCEPT ![id(c)] = NoConn]
    /\ displaced' = displaced \cup Others(c)
    /\ UNCHANGED <<socket, members, owed, snapshot, got>>

(* Memberships are by id too, and outlive the connection. *)
join_group(i) == members' = members \cup {i} /\ UNCHANGED <<socket, connections, owed, snapshot, got, displaced>>
leave_group(i) == members' = members \ {i} /\ UNCHANGED <<socket, connections, owed, snapshot, got, displaced>>

Gather(conns) ==
    /\ owed = {} /\ conns # {}
    /\ owed' = conns /\ snapshot' = conns /\ got' = {}
    /\ UNCHANGED <<socket, connections, members, displaced>>
broadcast == Gather(Registered)
group_broadcast == Gather({c \in Registered : id(c) \in members})
send_to(i) == connections[i] # NoConn /\ Gather({connections[i]})

(* Plausible slips in the definitions below, used to test the properties. *)
send_first_error_ends(c) ==
    /\ c \in owed
    /\ IF socket[c] = "open" THEN got' = got \cup {c} /\ owed' = owed \ {c} ELSE got' = got /\ owed' = {}
    /\ UNCHANGED <<socket, connections, members, snapshot, displaced>>
send_or_block(c) ==
    /\ c \in owed /\ socket[c] = "open"
    /\ got' = got \cup {c} /\ owed' = owed \ {c}
    /\ UNCHANGED <<socket, connections, members, snapshot, displaced>>

(* One of the gathered sends; what it raises is returned, not raised. *)
send(c) ==
    /\ c \in owed
    /\ owed' = owed \ {c} /\ got' = IF socket[c] = "open" THEN got \cup {c} ELSE got
    /\ UNCHANGED <<socket, connections, members, snapshot, displaced>>

HubNext ==
    \/ \E c \in Conns : register(c) \/ disconnect(c) \/ unregister(c) \/ send(c)
    \/ \E i \in Ids : join_group(i) \/ leave_group(i) \/ send_to(i)
    \/ broadcast \/ group_broadcast
HubSpec == HubInit /\ [][HubNext]_hub_vars

-----------------------------------------------------------------------------
(* A connection that is open can be reached under its id, unless another   *)
(* one of the same id was registered over it or unregistered after it (a   *)
(* client that reconnects before the hub hears of the old connection).     *)
OpenIsReachable == \A c \in Conns \ displaced : socket[c] = "open" => connections[id(c)] = c

(* When a broadcast is over, every connection of its snapshot that is      *)
(* still open has got it; one that fails does not stop the others.         *)
NobodyMissed == owed = {} => \A c \in snapshot : socket[c] = "open" => c \in got

(* A broadcast reaches every connection that was open throughout, and an   *)
(* open connection can be addressed.                                       *)
BroadcastsReachAll == OpenIsReachable /\ NobodyMissed

(* Every broadcast ends, also when clients go away under way. *)
BroadcastEnds == owed # {} ~> owed = {}
=============================================================================
