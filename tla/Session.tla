------------------------------- MODULE Session -------------------------------
(***************************************************************************)
(* Client sessions (src/client/session.rs) and the control server they     *)
(* talk to (src/control/server.rs, src/control/client.rs).                 *)
(*                                                                         *)
(* The server may stop and start again: each start is a new incarnation    *)
(* with an empty registry and new memory, and possibly another build.      *)
(* Metadata are the incarnation they describe (0: ServerMetadata::default) *)
(* and a transport is the incarnation it is connected to.  A session       *)
(* method that awaits is one action per await; the server may stop at any  *)
(* of them, and the method may fail at any of them.                        *)
(*                                                                         *)
(* heartbeat and deregister are requests of one client that are answered   *)
(* one at a time, unless the caller drops a call: its request then stays   *)
(* on the way and may arrive after later ones.                             *)
(***************************************************************************)
EXTENDS Integers, FiniteSets, FiniteSetsExt

CONSTANTS
    Clients,                \* users of the control server
    Sessions,               \* the clients that open a ClientSession
    MaxIncarnation,         \* bound on the server's starts
    MaxTs                   \* bound on the activity timestamps of a client

ASSUME SessionAssumption == Sessions \subseteq Clients /\ {MaxIncarnation, MaxTs} \subseteq Nat

VARIABLES
    up, incarnation, version,   \* the server: running, which start, which build
    clients,                    \* its registry: client -> active_ts, or Absent
    pc, meta, transport,        \* a session: where it is, metadata, transport
    fetched,                    \* the local variable metadata of a method
    since,                      \* auxiliary: incarnation when reconnect last began
    ts, flight, awaiting,       \* a client's clock, requests on the way, the one awaited
    dropped,                    \* auxiliary: the clients with a call cut short midway
    acked,                      \* auxiliary: what the last answered request registered
    needed,                     \* check_reconnect_needed on the last heartbeat's answer
    beat, shutdown              \* the heartbeat task and its flag

server == <<up, incarnation, version>>
session == <<pc, meta, transport, fetched, since>>
control == <<clients, ts, flight, awaiting, dropped, acked, needed>>
task == <<beat, shutdown>>
svars == <<server, session, control, task>>

SERVICE_VERSION == 1
MIN_COMPATIBLE_VERSION == 1
Absent == 0                     \* timestamps start at 1
Free == -1                      \* no call of the client waits
GENERATION == 1                 \* ControlServer::new
Generation(i) == IF i = 0 THEN 0 ELSE GENERATION
CheckReconnectNeeded(c, generation) == generation # Generation(meta[c])

SInit ==
    /\ up = TRUE /\ incarnation = 1 /\ version = SERVICE_VERSION
    /\ clients = [c \in Clients |-> Absent]
    /\ pc = [c \in Sessions |-> "closed"]
    /\ meta = [c \in Sessions |-> 0] /\ transport = [c \in Sessions |-> 0]
    /\ fetched = [c \in Sessions |-> 0] /\ since = [c \in Sessions |-> 0]
    /\ ts = [c \in Clients |-> 0] /\ flight = {} /\ awaiting = [c \in Clients |-> Free]
    /\ dropped = {} /\ acked = [c \in Clients |-> Absent]
    /\ needed = [c \in Sessions |-> FALSE]
    /\ beat = [c \in Sessions |-> "none"] /\ shutdown = FALSE

(***************************************************************************)
(* The server's process.                                                   *)
(***************************************************************************)
Stop ==
    /\ up /\ up' = FALSE
    /\ clients' = [c \in Clients |-> Absent] /\ acked' = [c \in Clients |-> Absent]
    /\ flight' = {}
    /\ UNCHANGED <<incarnation, version, session, ts, awaiting, dropped, needed, task>>

\* An older build may be started.
Restart ==
    /\ ~up /\ incarnation < MaxIncarnation
    /\ up' = TRUE /\ incarnation' = incarnation + 1
    /\ version' \in {SERVICE_VERSION - 1, SERVICE_VERSION}
    /\ UNCHANGED <<session, control, task>>

(***************************************************************************)
(* ClientSession::connect and connect_tls.                                 *)
(***************************************************************************)
Goto(c, p) == pc' = [pc EXCEPT ![c] = p]

Connect(c) ==
    /\ pc[c] = "closed" /\ up
    /\ Goto(c, "control")
    /\ UNCHANGED <<meta, transport, fetched, since>>

GetVersion(c) ==
    /\ pc[c] = "control" /\ up
    /\ Goto(c, IF version < MIN_COMPATIBLE_VERSION THEN "closed" ELSE "versioned")
    /\ UNCHANGED <<meta, transport, fetched, since>>

\* discover as connect, reconnect and refresh_metadata await it.
Discover(c, from, to) ==
    /\ pc[c] = from /\ up
    /\ fetched' = [fetched EXCEPT ![c] = incarnation]
    /\ Goto(c, to)
    /\ UNCHANGED <<meta, transport, since>>

\* RDMA, or TCP if that fails; then the metadata fetched before become the session's.
CreateTransport(c, from) ==
    /\ pc[c] = from /\ up
    /\ transport' = [transport EXCEPT ![c] = incarnation]
    /\ meta' = [meta EXCEPT ![c] = fetched[c]]
    /\ Goto(c, "open")
    /\ UNCHANGED <<fetched, since>>

\* Whatever step of connect fails, there is no session.
ConnectFails(c) ==
    /\ pc[c] \in {"control", "versioned", "discovered"}
    /\ Goto(c, "closed")
    /\ UNCHANGED <<meta, transport, fetched, since>>

(***************************************************************************)
(* The methods that take &mut self: no heartbeat task shares the session.  *)
(***************************************************************************)
Exclusive(c) == pc[c] = "open" /\ beat[c] \notin {"checking", "sleeping"}

Invalidate(c) ==
    /\ Exclusive(c)
    /\ meta' = [meta EXCEPT ![c] = 0]
    /\ UNCHANGED <<pc, transport, fetched, since>>

RefreshMetadata(c) ==
    /\ Exclusive(c) /\ Discover(c, "open", "refreshing")

RefreshStores(c) ==
    /\ pc[c] = "refreshing"
    /\ meta' = [meta EXCEPT ![c] = fetched[c]] /\ Goto(c, "open")
    /\ UNCHANGED <<transport, fetched, since>>

\* A bug: the old metadata are kept until the new ones have come.
MutReconnect(c) ==
    /\ Exclusive(c)
    /\ since' = [since EXCEPT ![c] = incarnation]
    /\ Goto(c, "invalidated")
    /\ UNCHANGED <<meta, transport, fetched>>

Reconnect(c) ==
    /\ Exclusive(c)
    /\ meta' = [meta EXCEPT ![c] = 0]
    /\ since' = [since EXCEPT ![c] = incarnation]
    /\ Goto(c, "invalidated")
    /\ UNCHANGED <<transport, fetched>>

\* discover or the transport fails: the session keeps its old transport.
ReconnectFails(c) ==
    /\ pc[c] \in {"invalidated", "rediscovered"}
    /\ Goto(c, "open")
    /\ UNCHANGED <<meta, transport, fetched, since>>

\* Dropping the session drops its transport.
DropSession(c) ==
    /\ Exclusive(c)
    /\ Goto(c, "closed")
    /\ meta' = [meta EXCEPT ![c] = 0] /\ transport' = [transport EXCEPT ![c] = 0]
    /\ since' = [since EXCEPT ![c] = 0] /\ fetched' = [fetched EXCEPT ![c] = 0]

SessionStep(c) ==
    \/ Connect(c) \/ GetVersion(c) \/ Discover(c, "versioned", "discovered")
    \/ CreateTransport(c, "discovered") \/ ConnectFails(c)
    \/ Invalidate(c) \/ RefreshMetadata(c) \/ RefreshStores(c)
    \/ Reconnect(c) \/ Discover(c, "invalidated", "rediscovered")
    \/ CreateTransport(c, "rediscovered") \/ ReconnectFails(c) \/ DropSession(c)

(***************************************************************************)
(* heartbeat and deregister: a request is its client and its active_ts,    *)
(* Absent for a deregistration.                                            *)
(***************************************************************************)
OnTheWay(c) == {x \in flight : x[1] = c}

Ask(c, t) ==
    /\ up /\ awaiting[c] = Free /\ <<c, t>> \notin flight
    /\ flight' = flight \cup {<<c, t>>}
    /\ awaiting' = [awaiting EXCEPT ![c] = t]
    /\ dropped' = IF OnTheWay(c) = {} THEN dropped \ {c} ELSE dropped \cup {c}

Heartbeat(c) ==
    /\ ts[c] < MaxTs
    /\ ts' = [ts EXCEPT ![c] = @ + 1]
    /\ Ask(c, ts[c] + 1)
    /\ UNCHANGED <<clients, acked, needed>>

Deregister(c) ==
    /\ Ask(c, Absent)
    /\ UNCHANGED <<clients, ts, acked, needed>>

\* A bug: a departure is not taken out of the registry.
MutEnter(c, t) == clients' = [clients EXCEPT ![c] = IF t = Absent THEN @ ELSE t]

\* HashMap::insert or remove under the registry's lock.
Enter(c, t) == clients' = [clients EXCEPT ![c] = t]

\* The server's handler and its answer, which reaches the call if it still waits for
\* it.  reconnect is always false.
Handle(c, t) ==
    /\ up /\ <<c, t>> \in flight
    /\ flight' = flight \ {<<c, t>>}
    /\ Enter(c, t)
    /\ IF awaiting[c] = t
       THEN /\ awaiting' = [awaiting EXCEPT ![c] = Free]
            /\ acked' = [acked EXCEPT ![c] = t]
            /\ needed' = IF t = Absent \/ c \notin Sessions THEN needed
                         ELSE [needed EXCEPT ![c] = CheckReconnectNeeded(c, GENERATION)]
       ELSE UNCHANGED <<awaiting, acked, needed>>
    /\ UNCHANGED <<ts, dropped>>

\* The call fails, or the caller drops it.
GiveUp(c) ==
    /\ awaiting[c] # Free
    /\ awaiting' = [awaiting EXCEPT ![c] = Free]
    /\ dropped' = dropped \cup {c}
    /\ UNCHANGED <<clients, ts, flight, acked, needed>>

ControlStep(c) == Heartbeat(c) \/ Deregister(c) \/ GiveUp(c) \/ \E t \in 0 .. MaxTs : Handle(c, t)

\* What the collector may reclaim below; 0, so nothing, with nobody registered.
MinActiveTs(reg) ==
    IF \A c \in Clients : reg[c] = Absent THEN 0 ELSE Min({reg[c] : c \in Clients} \ {Absent})

(***************************************************************************)
(* start_heartbeat: the task holds the session; it sends nothing.          *)
(***************************************************************************)
StartHeartbeat(c) ==
    /\ Exclusive(c)
    /\ beat' = [beat EXCEPT ![c] = "checking"]
    /\ UNCHANGED shutdown

Tick(c) ==
    \/ beat[c] = "checking" /\ beat' = [beat EXCEPT ![c] = IF shutdown THEN "exited" ELSE "sleeping"]
    \/ beat[c] = "sleeping" /\ beat' = [beat EXCEPT ![c] = "checking"]

RaiseShutdown == ~shutdown /\ shutdown' = TRUE /\ UNCHANGED beat

\* The clients without a session, seen from the registry ...
RegistryNext ==
    \/ Stop \/ Restart
    \/ \E c \in Clients : ControlStep(c) /\ UNCHANGED <<server, session, task>>

\* ... and the sessions.
SessionNext ==
    \/ Stop \/ Restart
    \/ \E c \in Sessions :
         \/ ControlStep(c) /\ UNCHANGED <<server, session, task>>
         \/ SessionStep(c) /\ UNCHANGED <<server, control, task>>
         \/ StartHeartbeat(c) /\ UNCHANGED <<server, session, control>>
         \/ Tick(c) /\ UNCHANGED <<server, session, control, shutdown>>
    \/ RaiseShutdown /\ UNCHANGED <<server, session, control>>

\* Both together.
SSpec == SInit /\ [][SessionNext \/ RegistryNext]_svars

-----------------------------------------------------------------------------
STypeOK ==
    /\ up \in BOOLEAN /\ incarnation \in 1 .. MaxIncarnation /\ version \in 0 .. SERVICE_VERSION
    /\ clients \in [Clients -> 0 .. MaxTs] /\ acked \in [Clients -> 0 .. MaxTs]
    /\ pc \in [Sessions -> {"closed", "control", "versioned", "discovered", "open", "refreshing",
                           "invalidated", "rediscovered"}]
    /\ \A c \in Sessions :
         /\ {meta[c], transport[c], fetched[c], since[c]} \subseteq 0 .. incarnation
         /\ pc[c] \in {"open", "refreshing", "invalidated", "rediscovered"} <=> transport[c] # 0
    /\ beat \in [Sessions -> {"none", "checking", "sleeping", "exited"}]

\* Once reconnect has begun, whether it succeeds, fails or is dropped at an await, the
\* session never again uses metadata from before.
ReconnectForgets == \A c \in Sessions : meta[c] = 0 \/ meta[c] >= since[c]

\* Unless a call of its own was cut short, a client is in the registry exactly with
\* what its last answered heartbeat or deregister says.
RegistryExact == \A c \in Clients : awaiting[c] = Free /\ c \notin dropped => clients[c] = acked[c]

\* Nothing that such a client has announced it may still use lies below the collector's
\* floor.
FloorSafe ==
    \A c \in Clients : awaiting[c] = Free /\ c \notin dropped /\ acked[c] # Absent =>
        MinActiveTs(clients) \in 1 .. acked[c]

\* A heartbeat's answer tells whether the server was restarted ("the server's generation
\* has changed (indicating a restart)").
RestartDetected ==
    [][\A c \in Sessions : acked'[c] # acked[c] /\ acked'[c] # Absent =>
           needed'[c] = (meta[c] # incarnation)]_svars

\* A session is open only with a server of a compatible version.
OpenIsCompatible ==
    [][\A c \in Sessions : pc'[c] = "open" /\ transport'[c] # transport[c] =>
           version >= MIN_COMPATIBLE_VERSION]_svars

\* The heartbeat task keeps the server aware of the client.
HeartbeatSends ==
    \A c \in Sessions : beat[c] = "checking" /\ ~shutdown ~> clients[c] # Absent \/ ~up \/ shutdown
=============================================================================
