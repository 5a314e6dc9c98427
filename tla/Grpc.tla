-------------------------------- MODULE Grpc --------------------------------
(***************************************************************************)
(* k6/net/grpc on one VU (k6-js/src/api/grpc.rs, grpc_shim.js): clients    *)
(* that outlive iterations, the VU's map of open connections, the metadata *)
(* and the message of a unary call, its sample and its response.           *)
(***************************************************************************)
EXTENDS Integers, FiniteSets, Functions

CONSTANTS
    Clients,      \* grpc.Client objects of the script
    Metadatas,    \* metadata given to connect and invoke: key -> value
    Messages,     \* request messages: JSON values
    IntBits,      \* scaled width of the i32 of serde_json_to_js
    MaxConnects,  \* bound: connections opened
    MaxInvokes    \* bound: calls answered

\* Of a leaf only its kind counts, and of a number its value and whether it is
\* written as an integer.
Leaves == [k : {"str", "bool", "null"}] \cup [k : {"num"}, n : Int, int : BOOLEAN]

ASSUME GrpcAssumption ==
    \A v \in Messages :
        \/ v \in Leaves
        \/ v = [k |-> "tree", items |-> v.items]
           /\ v.items \in [DOMAIN v.items -> Leaves]

VARIABLES
    conn_id,      \* client -> _connId, 0 for null
    connections,  \* id -> default metadata of that open connection
    minted,       \* ids handed out
    call,         \* the operation the script is suspended in, or idle
    grpc_reqs     \* samples recorded

grpcvars == <<conn_id, connections, minted, call, grpc_reqs>>

Idle == [op |-> "idle"]

GrpcInit ==
    /\ conn_id = [c \in Clients |-> 0] /\ connections = [i \in {} |-> 0] /\ minted = 0
    /\ call = Idle /\ grpc_reqs = 0

-----------------------------------------------------------------------------
(* Messages: leaves and one level of lists and objects.                    *)

OverItems(Op(_), v) == IF v.k = "tree" THEN [v EXCEPT !.items = [i \in DOMAIN @ |-> Op(@[i])]] ELSE Op(v)

\* A JSON number becomes a double.
serde_to_prost(v) == OverItems(LAMBDA x : IF x.k = "num" THEN [x EXCEPT !.int = FALSE] ELSE x, v)

\* Mutant: doubles without a fraction come back as integers.
prost_value_to_json_int(v) ==
    OverItems(LAMBDA x : IF x.k = "num" THEN [x EXCEPT !.int = TRUE] ELSE x, v)

\* A double stays one: json!(f64).
prost_value_to_json(v) == v

Wrapped(n) == ((n + 2^(IntBits - 1)) % 2^IntBits) - 2^(IntBits - 1)

\* An integer is cast to i32, a double is kept.
serde_json_to_js(v) ==
    OverItems(LAMBDA x : IF x.k = "num" /\ x.int THEN [x EXCEPT !.n = Wrapped(@)] ELSE x, v)

-----------------------------------------------------------------------------
(* Metadata: "number" is a value that is no string, "newline" a string     *)
(* that is no header value, "bad key" a key that is no header name.        *)

Strings(m) == Restrict(m, {k \in DOMAIN m : m[k] # "number"})
Headers(m) == Restrict(m, {k \in DOMAIN m : m[k] # "newline"})

\* Call metadata with one value that is no string is ignored as a whole.
CallMetadata(m) == IF \A k \in DOMAIN m : m[k] # "number" THEN m ELSE [k \in {} |-> ""]

Merged(default, own) ==
    [k \in DOMAIN default \cup DOMAIN own |-> IF k \in DOMAIN own THEN own[k] ELSE default[k]]

SentMetadata(default, own) == Merged(Headers(default), Headers(CallMetadata(own)))

-----------------------------------------------------------------------------
\* client.connect: the script waits for the endpoint.
GrpcConnect(c, m) ==
    /\ call = Idle /\ minted < MaxConnects
    /\ call' = [op |-> "connect", client |-> c, metadata |-> m]
    /\ UNCHANGED <<conn_id, connections, minted, grpc_reqs>>

\* A bad address or a failed connect throws; _connId keeps its value.
GrpcConnectFails ==
    /\ call.op = "connect" /\ call' = Idle
    /\ UNCHANGED <<conn_id, connections, minted, grpc_reqs>>

\* The operation enters the connection, under a fresh id, in the map ...
GrpcConnected ==
    /\ call.op = "connect"
    /\ minted' = minted + 1
    /\ connections' = [i \in DOMAIN connections \cup {minted'} |->
                         IF i = minted' THEN Strings(call.metadata) ELSE connections[i]]
    /\ call' = [op |-> "connected", client |-> call.client, id |-> minted']
    /\ UNCHANGED <<conn_id, grpc_reqs>>

\* ... and the resumed script stores the id; an id it held before stays in the map.
GrpcConnectReturns ==
    /\ call.op = "connected"
    /\ conn_id' = [conn_id EXCEPT ![call.client] = call.id]
    /\ call' = Idle
    /\ UNCHANGED <<connections, minted, grpc_reqs>>

\* client.invoke; without a connection the shim throws.
GrpcInvoke(c, m, v) ==
    /\ call = Idle /\ conn_id[c] # 0 /\ grpc_reqs < MaxInvokes
    /\ call' = [op |-> "invoke", client |-> c, id |-> conn_id[c], metadata |-> m, message |-> v]
    /\ UNCHANGED <<conn_id, connections, minted, grpc_reqs>>

Known == call.id \in DOMAIN connections

\* Unknown connection, bad metadata key, bad path or a channel that is not ready:
\* the call throws and nothing is sent.
GrpcRefused ==
    /\ call.op = "invoke" /\ call' = Idle
    /\ UNCHANGED <<conn_id, connections, minted, grpc_reqs>>

GrpcSent ==
    /\ call.op = "invoke" /\ Known
    /\ LET sent == SentMetadata(connections[call.id], call.metadata)
       IN  /\ "bad key" \notin DOMAIN sent
           /\ call' = [op |-> "sent", client |-> call.client, id |-> call.id, metadata |-> sent,
                       message |-> call.message, body |-> serde_to_prost(call.message)]
    /\ UNCHANGED <<conn_id, connections, minted, grpc_reqs>>

\* The peer answers, with the message it got or with an error status; either way
\* the call is timed once and the script gets a response.
GrpcAnswered ==
    /\ call.op = "sent"
    /\ grpc_reqs' = grpc_reqs + 1
    /\ call' \in {[op |-> "response", client |-> call.client, id |-> call.id, message |-> call.message,
                   status |-> s, reply |-> IF s = 0 THEN serde_json_to_js(prost_value_to_json(call.body))
                                           ELSE [k |-> "null"]] : s \in {0, 14}}
    /\ UNCHANGED <<conn_id, connections, minted>>

GrpcReturns ==
    /\ call.op = "response" /\ call' = Idle
    /\ UNCHANGED <<conn_id, connections, minted, grpc_reqs>>

\* Mutant: the connection goes, the id stays.
GrpcCloseKeepId(c) ==
    /\ call = Idle /\ conn_id[c] # 0
    /\ connections' = Restrict(connections, DOMAIN connections \ {conn_id[c]})
    /\ UNCHANGED <<conn_id, minted, call, grpc_reqs>>

GrpcClose(c) ==
    /\ call = Idle /\ conn_id[c] # 0
    /\ connections' = Restrict(connections, DOMAIN connections \ {conn_id[c]})
    /\ conn_id' = [conn_id EXCEPT ![c] = 0]
    /\ UNCHANGED <<minted, call, grpc_reqs>>

\* The VU is force-unwound where it waits; its context and its map go with it.
GrpcVuDropped ==
    /\ call.op \in {"connect", "connected", "invoke", "sent"}
    /\ call' = [op |-> "dropped"]
    /\ conn_id' = [c \in Clients |-> 0] /\ connections' = [i \in {} |-> 0]
    /\ UNCHANGED <<minted, grpc_reqs>>

GrpcNext ==
    \/ GrpcConnectFails \/ GrpcConnected \/ GrpcConnectReturns
    \/ GrpcRefused \/ GrpcSent \/ GrpcAnswered \/ GrpcReturns \/ GrpcVuDropped
    \/ \E c \in Clients :
         \/ GrpcClose(c)
         \/ \E m \in Metadatas :
              GrpcConnect(c, m) \/ \E v \in Messages : GrpcInvoke(c, m, v)

GrpcSpec == GrpcInit /\ [][GrpcNext]_grpcvars

-----------------------------------------------------------------------------
SameValue(v, w) ==
    LET Same(x, y) == x.k = y.k /\ (x.k = "num" => x.n = y.n)
    IN  IF v.k = "tree"
        THEN w.k = "tree" /\ DOMAIN v.items = DOMAIN w.items
               /\ \A i \in DOMAIN v.items : Same(v.items[i], w.items[i])
        ELSE Same(v, w)

(***************************************************************************)
(* A client's id always names an open connection, through failed and       *)
(* repeated connects, closes and other clients (so invoke never ends in    *)
(* "gRPC connection not found"), no two clients share one, and the reply   *)
(* of a peer that echoes the message is the message: the numbers survive   *)
(* JSON -> protobuf -> JSON -> JS although integers would be cut to i32.   *)
(***************************************************************************)
GrpcSound ==
    /\ \A c \in Clients : conn_id[c] # 0 =>
         /\ conn_id[c] \in DOMAIN connections
         /\ \A d \in Clients \ {c} : conn_id[d] # conn_id[c]
    /\ (call.op = "response" /\ call.status = 0) => SameValue(call.message, call.reply)
=============================================================================
