----------------------------- MODULE HttpClients -----------------------------
(***************************************************************************)
(* The HTTP clients (k6-js/src/hyper_client.rs, k6-js/src/http_client.rs)  *)
(* as AnyHttpClient selects them.  The hyper client owns its connections:  *)
(* a pool per route, the phases of opening one, the exchange, the drain of *)
(* the body, redirects, and the timeout around all of it.  The reqwest     *)
(* client leaves those to the library and is modelled by what it adds.     *)
(*                                                                         *)
(* A request's future may be dropped at any await (timeout, hard stop);    *)
(* servers may close a connection at any time, also one that is pooled.    *)
(* A host name is the sequence of its labels; a literal address is a name  *)
(* of one label that is an address.  Byte counts have one unit per message *)
(* part: a head, a body frame, a handshake, a tunnel exchange, or what the *)
(* task of a TLS connection moves by itself (HTTP/2 settings and window    *)
(* updates, TLS 1.3 session tickets).                                      *)
(***************************************************************************)
EXTENDS Integers, Sequences, FiniteSets, SequencesExt, FiniteSetsExt

CONSTANTS
    Requests,     \* requests of all VUs
    Conns,        \* physical connections the run may open
    Urls,         \* [scheme, host, port] the script and redirects may name
    Ips,          \* addresses
    Family,       \* [Ips -> {4, 6}]
    Dns,          \* [host names -> SUBSET Ips], the resolver (external)
    TestConfigs,  \* options of the runs considered
    Responses,    \* [status, loc, close, cookie, frames] servers may answer
    MaxFrames,    \* chunks of a body that reqwest reads
    MaxControl,   \* parts the task of a TLS connection moves by itself
    None          \* the absent value

\* How a request ends: with a response, an error of the client, or abandoned.
Errors == {"blocked", "dns", "connect", "tls", "io", "redirects", "timeout", "cancelled"}
Results == Errors \cup {"ok"}

ASSUME ClientAssumption ==
    /\ None \notin Conns /\ None \notin Urls /\ None \notin Ips /\ None \notin Results
    /\ MaxControl \in Nat
    /\ \A t \in TestConfigs : t.cap \in Nat /\ t.local_ips \in Seq(STRING)
    /\ \A h \in Responses : h.status \in Nat /\ h.loc \in Urls \cup {None} /\ h.frames \in Nat
                            /\ h.close \in BOOLEAN /\ h.cookie \in BOOLEAN

VARIABLES
    cfg,      \* HyperConfig
    ipIndex,  \* local_ip_index
    pool,     \* RouteKey -> stack of idle connections, for the routes seen so far
    conn,     \* [Conns -> connection]
    rq        \* [Requests -> request]

clientVars == <<cfg, ipIndex, pool, conn, rq>>

Hosts == {u.host : u \in Urls}
Ports == {u.port : u \in Urls}

-----------------------------------------------------------------------------
(* Configuration and routing.                                               *)

DEFAULT_MAX_REDIRECTS == 10

Rank == [v \in {"tls1.0", "tls1.1", "tls1.2", "tls1.3"} |->
            CASE v = "tls1.2" -> 2 [] v = "tls1.3" -> 3 [] OTHER -> 0]

\* supported_tls_version_rank: 0 stands for no (supported) bound.
supported_tls_version_rank(v) == IF v \in DOMAIN Rank THEN Rank[v] ELSE 0

\* tls_protocol_versions: the versions offered; {} is the error of an inverted
\* range.
tls_protocol_versions(tls) ==
    LET min == supported_tls_version_rank(tls.min)
        max == supported_tls_version_rank(tls.max)
    IN  IF min # 0 /\ max # 0 /\ min > max THEN {}
        ELSE {v \in {2, 3} : v >= min /\ (max = 0 \/ v <= max)}

\* HyperHttpClient::from_config and ReqwestHttpClient::from_config.  Entries of
\* blacklistIPs that do not parse are skipped.
from_config(t) ==
    [ client |-> t.client,
      discard |-> t.discard, cap |-> t.cap,
      no_connection_reuse |-> t.no_connection_reuse,
      blacklist_ips |-> t.blacklist_ips \cap Ips,
      block_hostnames |-> t.block_hostnames,
      hosts |-> t.hosts,
      max_redirects |-> IF t.max_redirects = None THEN DEFAULT_MAX_REDIRECTS ELSE t.max_redirects,
      local_ips |-> t.local_ips,
      http_proxy |-> t.http_proxy, https_proxy |-> t.https_proxy, no_proxy |-> t.no_proxy,
      tls |-> tls_protocol_versions(t.tls_version) ]

\* A client exists: the constructor refuses a bad local address and an inverted
\* TLS range.
Builds(t) == Range(t.local_ips) \subseteq Ips /\ tls_protocol_versions(t.tls_version) # {}

\* Host name h ends in the labels of p.
EndsIn(h, p) == Len(h) >= Len(p) /\ SubSeq(h, Len(h) - Len(p) + 1, Len(h)) = p

\* hostname_matches: "*.p" needs a label before p, any other pattern equality.
hostname_matches(h, p) ==
    IF p.wild THEN EndsIn(h, p.labels) /\ Len(h) > Len(p.labels) ELSE h = p.labels

check_blocked_hostname(h) == \E p \in cfg.block_hostnames : hostname_matches(h, p)

IsLiteral(h) == Len(h) = 1 /\ h[1] \in Ips

check_ip_blacklist(ip) == ip \in cfg.blacklist_ips

check_literal_ip_blacklist(h) == IsLiteral(h) /\ check_ip_blacklist(h[1])

\* no_proxy_matches: "*", the name itself or any name below it.
no_proxy_matches(h) == \E p \in cfg.no_proxy : p = <<"*">> \/ EndsIn(h, p)

proxy_for(u) ==
    IF no_proxy_matches(u.host) THEN None
    ELSE CASE u.scheme = "http" -> cfg.http_proxy
           [] u.scheme = "https" -> cfg.https_proxy
           [] OTHER -> None

\* resolve_connect_target: the static mapping of a host, when it is an address.
MappedIp(h) == IF h \in DOMAIN cfg.hosts /\ cfg.hosts[h] \in Ips THEN cfg.hosts[h] ELSE None

\* lookup_host: what a name may resolve to; a literal is itself.
Lookup(h) == {ip \in Ips : IF IsLiteral(h) THEN ip = h[1] ELSE ip \in Dns[h]}

\* next_source_ip, the address it returns.
SourceIp == IF cfg.local_ips = <<>> THEN None ELSE cfg.local_ips[ipIndex + 1]

\* fetch_add, modulo the number of addresses.
AdvanceIp == ipIndex' = IF cfg.local_ips = <<>> THEN 0 ELSE (ipIndex + 1) % Len(cfg.local_ips)

\* Mutant: connections are pooled by port, source address and proxy.
RouteKeyNoHost(u) ==
    [transport |-> u.scheme, host |-> <<>>, port |-> u.port, source_ip |-> SourceIp, proxy |-> proxy_for(u)]

\* RouteKey of a request to u that starts now.
RouteKey(u) ==
    LET proxy == proxy_for(u)
    IN  [ transport |-> u.scheme,
          host |-> IF proxy = None /\ MappedIp(u.host) # None THEN <<MappedIp(u.host)>> ELSE u.host,
          port |-> u.port, source_ip |-> SourceIp, proxy |-> proxy ]

-----------------------------------------------------------------------------
(* State.                                                                   *)

NoConn == [ st |-> "unused", key |-> None, ip |-> None, source |-> None, via |-> None, to |-> None,
            alive |-> FALSE, undrained |-> 0, control |-> 0, written |-> 0, read |-> 0, failed |-> 0 ]

Fresh == [ pc |-> "idle", method |-> None, url |-> None, body |-> 0, hops |-> 0,
           key |-> None, ip |-> None, conn |-> None, close |-> FALSE, status |-> 0, loc |-> None, cookie |-> FALSE,
           sent0 |-> 0, recv0 |-> 0, kept |-> 0, wrote |-> 0, got |-> 0, extra_sent |-> 0, extra_recv |-> 0,
           result |-> None, data_sent |-> 0, data_received |-> 0 ]

ClientInit ==
    /\ cfg \in {from_config(t) : t \in {x \in TestConfigs : Builds(x)}}
    /\ ipIndex = 0
    /\ pool = [k \in {} |-> <<>>]
    /\ conn = [c \in Conns |-> NoConn]
    /\ rq = [r \in Requests |-> Fresh]

Reached(r, pc) == cfg.client = "hyper" /\ rq[r].pc = pc

\* The places where the hyper client's future awaits.
Awaits == {"dns", "tcp", "tunnel", "handshake", "head", "body"}

\* Dropping a PooledConn aborts its task; only what the properties ask of a
\* closed connection is kept.
Closed(c, failed) == [NoConn EXCEPT !.st = "dropped", !.failed = conn[c].failed + failed]

\* The wire counters of connection k after w parts were written and n were read.
Exchanged(k, w, n) == [k EXCEPT !.written = k.written + w, !.read = k.read + n]

\* The request is over; the future's locals are gone.
Settled(q, why) ==
    [ pc |-> "done", method |-> q.method, url |-> q.url, body |-> 0, hops |-> q.hops,
      key |-> None, ip |-> None, conn |-> None, close |-> FALSE,
      status |-> IF why = "ok" THEN q.status ELSE 0, loc |-> None, cookie |-> q.cookie,
      sent0 |-> 0, recv0 |-> 0, kept |-> 0, wrote |-> q.wrote, got |-> q.got,
      extra_sent |-> q.extra_sent, extra_recv |-> q.extra_recv,
      result |-> why, data_sent |-> q.data_sent, data_received |-> q.data_received ]

\* The error propagates out of send_inner; a connection the future owns is
\* dropped, which aborts its task.
Fail(r, why) ==
    /\ rq' = [rq EXCEPT ![r] = Settled(Fresh, why)]
    /\ conn' = IF rq[r].conn = None THEN conn
               ELSE [conn EXCEPT ![rq[r].conn] = Closed(rq[r].conn, IF why = "io" THEN 1 ELSE 0)]
    /\ UNCHANGED <<cfg, ipIndex, pool>>

\* A request as HttpClient::send of either client receives it.
Entered(method, u, body) ==
    [Fresh EXCEPT !.pc = "hop", !.method = method, !.url = u, !.body = body]

-----------------------------------------------------------------------------
(* One hop of the hyper client (send_once).                                 *)

\* What refuses a hop to u before anything is sent.
Refused(u) ==
    \/ u.scheme \notin {"http", "https"}
    \/ check_blocked_hostname(u.host)
    \/ check_literal_ip_blacklist(u.host)
    \/ proxy_for(u) = None /\ MappedIp(u.host) # None /\ check_ip_blacklist(MappedIp(u.host))

HopRefused(r) == Reached(r, "hop") /\ Refused(rq[r].url) /\ Fail(r, "blocked")

\* The synchronous part of a hop up to the pool: a pooled connection of this
\* route, or the first step of opening one.
Hop(r) ==
    LET u == rq[r].url
        key == RouteKey(u)
        mapped == IF proxy_for(u) = None THEN MappedIp(u.host) ELSE None
    IN  /\ Reached(r, "hop") /\ ~Refused(u)
        /\ AdvanceIp
        /\ IF ~cfg.no_connection_reuse /\ key \in DOMAIN pool /\ pool[key] # <<>>
           THEN /\ pool' = [pool EXCEPT ![key] = Front(@)]
                /\ rq' = [rq EXCEPT ![r] = [@ EXCEPT !.pc = "send", !.key = key, !.conn = Last(pool[key])]]
           ELSE /\ rq' = [rq EXCEPT ![r] = [@ EXCEPT !.pc = IF mapped = None THEN "dns" ELSE "tcp",
                                                    !.key = key, !.ip = mapped, !.conn = None]]
                /\ UNCHANGED pool
        /\ UNCHANGED <<cfg, conn>>

\* open_connection: lookup_host of the proxy or the origin, then the blacklist.
DnsAnswer(r) ==
    /\ Reached(r, "dns")
    /\ LET name == IF rq[r].key.proxy # None THEN rq[r].key.proxy ELSE rq[r].url.host
       IN  \/ Fail(r, "dns")
           \/ \E ip \in Lookup(name) :
                 IF check_ip_blacklist(ip) THEN Fail(r, "blocked")
                 ELSE /\ rq' = [rq EXCEPT ![r] = [@ EXCEPT !.pc = "tcp", !.ip = ip]]
                      /\ UNCHANGED <<cfg, ipIndex, pool, conn>>

Tunnelled(r) == rq[r].key.proxy # None /\ rq[r].url.scheme = "https"

\* connect_tcp: a source address of the other family is refused.
Connect(r) ==
    /\ Reached(r, "tcp")
    /\ LET source == rq[r].key.source_ip
       IN  \/ Fail(r, "connect")
           \/ /\ source # None => Family[source] = Family[rq[r].ip]
              /\ \E c \in {x \in Conns : conn[x].st = "unused"} :
                    /\ \A d \in Conns : conn[d].st = "unused" => c <= d
                    /\ conn' = [conn EXCEPT ![c] = [NoConn EXCEPT !.st = "open", !.alive = TRUE,
                                    !.ip = rq[r].ip, !.source = source, !.via = rq[r].key.proxy,
                                    !.to = rq[r].url, !.key = rq[r].key]]
                    /\ rq' = [rq EXCEPT ![r] = [@ EXCEPT !.conn = c,
                                        !.pc = IF Tunnelled(r) THEN "tunnel" ELSE "handshake"]]
              /\ UNCHANGED <<cfg, ipIndex, pool>>

\* establish_connect_tunnel: anything but a 200 from the proxy is an error.
EstablishTunnel(r) ==
    /\ Reached(r, "tunnel")
    /\ \/ Fail(r, "connect")
       \/ /\ conn[rq[r].conn].alive
          /\ conn' = [conn EXCEPT ![rq[r].conn] = Exchanged(@, 1, 1)]
          /\ rq' = [rq EXCEPT ![r].pc = "handshake"]
          /\ UNCHANGED <<cfg, ipIndex, pool>>

\* The rest of open_connection: TLS and ALPN for https, then hyper's handshake.
\* It is over when TLS is: HTTP/2 preface and settings and the server's session
\* tickets are left to the spawned connection task.
Handshake(r) ==
    /\ Reached(r, "handshake")
    /\ \/ Fail(r, "tls")
       \/ /\ conn[rq[r].conn].alive
          /\ IF rq[r].url.scheme = "https"
             THEN conn' = [conn EXCEPT ![rq[r].conn] = [Exchanged(@, 1, 1) EXCEPT !.control = MaxControl]]
             ELSE UNCHANGED conn
          /\ rq' = [rq EXCEPT ![r].pc = "send"]
          /\ UNCHANGED <<cfg, ipIndex, pool>>

\* Mutant: byte counts start where the connection started.
SendRequestNoSnapshot(r) ==
    LET c == rq[r].conn
    IN  /\ Reached(r, "send")
        /\ conn' = [conn EXCEPT ![c] = Exchanged(@, IF conn[c].alive THEN 1 + rq[r].body ELSE 0, 0)]
        /\ rq' = [rq EXCEPT ![r] = [@ EXCEPT !.pc = "head", !.wrote = 1 + rq[r].body, !.got = 0,
                            !.extra_sent = 0, !.extra_recv = 0]]
        /\ UNCHANGED <<cfg, ipIndex, pool>>

\* The wire counters are read, the request is built and written.
SendRequest(r) ==
    LET c == rq[r].conn
    IN  /\ Reached(r, "send")
        /\ conn' = [conn EXCEPT ![c] = Exchanged(@, IF conn[c].alive THEN 1 + rq[r].body ELSE 0, 0)]
        /\ rq' = [rq EXCEPT ![r] = [@ EXCEPT !.pc = "head",
                            !.sent0 = conn[c].written, !.recv0 = conn[c].read,
                            !.wrote = 1 + rq[r].body, !.got = 0, !.extra_sent = 0, !.extra_recv = 0]]
        /\ UNCHANGED <<cfg, ipIndex, pool>>

\* The response head arrives: any status, Location, Connection: close, body.
ResponseHead(r, h) ==
    LET c == rq[r].conn
    IN  /\ Reached(r, "head") /\ conn[c].alive
        /\ conn' = [conn EXCEPT ![c] = [Exchanged(@, 0, 1) EXCEPT !.undrained = h.frames]]
        /\ rq' = [rq EXCEPT ![r] = [@ EXCEPT !.pc = "body", !.got = 1, !.kept = 0,
                            !.status = h.status, !.loc = h.loc, !.close = h.close, !.cookie = h.cookie]]
        /\ UNCHANGED <<cfg, ipIndex, pool>>

\* Mutant: a connection that failed a request goes back to the pool.
BrokenKept(r) ==
    /\ rq' = [rq EXCEPT ![r] = Settled(Fresh, "io")]
    /\ pool' = [k \in DOMAIN pool \cup {rq[r].key} |->
                   (IF k \in DOMAIN pool THEN pool[k] ELSE <<>>)
                   \o (IF k = rq[r].key /\ Reached(r, "head") THEN <<rq[r].conn>> ELSE <<>>)]
    /\ conn' = [conn EXCEPT ![rq[r].conn].failed = @ + 1]
    /\ UNCHANGED <<cfg, ipIndex>>

\* The error paths of send_request and of the drain.
Broken(r) == Fail(r, "io")

\* send_request fails, or the body ends early: the server closed.
ExchangeFails(r) ==
    /\ cfg.client = "hyper" /\ rq[r].conn # None /\ ~conn[rq[r].conn].alive
    /\ \/ rq[r].pc = "head"
       \/ rq[r].pc = "body" /\ conn[rq[r].conn].undrained > 0
    /\ Broken(r)

\* read_body_with_cap_and_drain, one frame: past the cap it is read and not kept.
BodyFrame(r) ==
    LET c == rq[r].conn
    IN  /\ Reached(r, "body") /\ conn[c].alive /\ conn[c].undrained > 0
        /\ conn' = [conn EXCEPT ![c] = [Exchanged(@, 0, 1) EXCEPT !.undrained = conn[c].undrained - 1]]
        /\ rq' = [rq EXCEPT ![r] = [@ EXCEPT !.got = rq[r].got + 1,
                            !.kept = IF cfg.discard THEN 0 ELSE Min({rq[r].kept + 1, cfg.cap})]]
        /\ UNCHANGED <<cfg, ipIndex, pool>>

\* Mutant: reading stops when the buffer is full.
BodyDoneAtCap(r) == conn[rq[r].conn].undrained = 0 \/ rq[r].kept = cfg.cap

BodyDone(r) == conn[rq[r].conn].undrained = 0

\* redirect_target: None, or the URL to follow.
RedirectTarget(r) ==
    IF rq[r].status \in {301, 302, 303, 307, 308} THEN rq[r].loc ELSE None

\* redirected_request: 301 to 303 turn a POST into a GET without its body.
Redirected(q) ==
    LET get == q.status \in {301, 302, 303} /\ q.method = "POST"
    IN  [Entered(IF get THEN "GET" ELSE q.method, q.loc, IF get THEN 0 ELSE q.body)
            EXCEPT !.hops = q.hops + 1]

Pooled(r) == ~cfg.no_connection_reuse /\ ~rq[r].close

\* The end of send_once and the rest of send_inner's turn: bytes are counted,
\* the connection is pooled or dropped, a redirect is followed.
HopEnd(r) ==
    LET q == rq[r]
        c == q.conn
        counted == [q EXCEPT !.conn = None,
                             !.data_sent = conn[c].written - q.sent0,
                             !.data_received = conn[c].read - q.recv0]
    IN  /\ Reached(r, "body") /\ BodyDone(r)
        /\ IF Pooled(r)
           THEN /\ pool' = [k \in DOMAIN pool \cup {q.key} |->
                               (IF k \in DOMAIN pool THEN pool[k] ELSE <<>>)
                               \o (IF k = q.key THEN <<c>> ELSE <<>>)]
                /\ UNCHANGED conn
           ELSE /\ conn' = [conn EXCEPT ![c] = Closed(c, 0)]
                /\ UNCHANGED pool
        /\ rq' = [rq EXCEPT ![r] =
               IF RedirectTarget(r) = None \/ cfg.max_redirects = 0 THEN Settled(counted, "ok")
               ELSE IF q.hops >= cfg.max_redirects THEN Settled(Fresh, "redirects")
                    ELSE Redirected(q)]
        /\ UNCHANGED <<cfg, ipIndex>>

\* tokio::time::timeout around send_inner: its future is dropped at an await.
Expire(r) == cfg.client = "hyper" /\ rq[r].pc \in Awaits /\ Fail(r, "timeout")

\* The caller's futures are dropped: the VU that owns the requests S is
\* force-unwound.
Abandon(S) ==
    LET live == {r \in S : rq[r].pc \notin {"idle", "done"}}
    IN  /\ rq' = [r \in Requests |-> IF r \in live THEN Settled(Fresh, "cancelled") ELSE rq[r]]
        /\ conn' = [c \in Conns |-> IF \E r \in live : rq[r].conn = c THEN Closed(c, 0) ELSE conn[c]]
        /\ UNCHANGED <<cfg, ipIndex, pool>>

\* The spawned task of a TLS connection writes or reads a part of its own, through
\* the same counters, whoever has the connection; the request that was written to
\* it last has the part in its counts.
ConnTask(c) ==
    /\ conn[c].st = "open" /\ conn[c].alive /\ conn[c].control > 0
    /\ \E w \in {0, 1} :
          /\ conn' = [conn EXCEPT ![c] = [Exchanged(@, w, 1 - w) EXCEPT !.control = conn[c].control - 1]]
          /\ rq' = [r \in Requests |->
                       IF rq[r].conn = c /\ rq[r].pc \in {"head", "body"}
                       THEN [rq[r] EXCEPT !.extra_sent = @ + w, !.extra_recv = @ + 1 - w] ELSE rq[r]]
    /\ UNCHANGED <<cfg, ipIndex, pool>>

\* The server closes a connection, in use or idle.
PeerCloses(c) ==
    /\ conn[c].st = "open" /\ conn[c].alive
    /\ conn' = [conn EXCEPT ![c].alive = FALSE]
    /\ UNCHANGED <<cfg, ipIndex, pool, rq>>

-----------------------------------------------------------------------------
(* The reqwest client.  Connections, redirects and proxies are the          *)
(* library's (external); what it adds is the check, the source address, the *)
(* body policy and the byte counts.                                         *)

\* check_blocked, on the first URL only.
check_blocked(u) == check_blocked_hostname(u.host) \/ check_literal_ip_blacklist(u.host)

ReqwestSend(r) ==
    /\ cfg.client = "reqwest" /\ rq[r].pc = "hop"
    /\ IF check_blocked(rq[r].url) THEN Fail(r, "blocked")
       ELSE /\ AdvanceIp
            /\ rq' = [rq EXCEPT ![r] = [@ EXCEPT !.pc = "execute", !.data_sent = 1 + rq[r].body]]
            /\ UNCHANGED <<cfg, pool, conn>>

\* client.execute: the response head of the last hop.
ReqwestHead(r, h) ==
    /\ rq[r].pc = "execute"
    /\ rq' = [rq EXCEPT ![r] = [@ EXCEPT !.pc = "chunks", !.status = h.status, !.cookie = h.cookie, !.got = 1, !.kept = 0]]
    /\ UNCHANGED <<cfg, ipIndex, pool, conn>>

\* drain_response_body counts every chunk, buffer_response_body the kept ones.
ReqwestChunk(r) ==
    /\ rq[r].pc = "chunks" /\ rq[r].got <= MaxFrames
    /\ rq' = [rq EXCEPT ![r] = [@ EXCEPT !.got = rq[r].got + 1,
                        !.kept = IF cfg.discard THEN rq[r].kept + 1 ELSE Min({rq[r].kept + 1, cfg.cap})]]
    /\ UNCHANGED <<cfg, ipIndex, pool, conn>>

ReqwestEnd(r) ==
    /\ rq[r].pc = "chunks"
    /\ rq' = [rq EXCEPT ![r] = Settled([@ EXCEPT !.data_received = 1 + rq[r].kept], "ok")]
    /\ UNCHANGED <<cfg, ipIndex, pool, conn>>

\* The library's errors, its 30 s timeout included.
ReqwestFails(r) == rq[r].pc \in {"execute", "chunks"} /\ Fail(r, "io")

-----------------------------------------------------------------------------
\* The hyper client's own steps; what the server answers is arbitrary.
ClientStep(r) ==
    \/ HopRefused(r) \/ Hop(r) \/ DnsAnswer(r) \/ Connect(r) \/ EstablishTunnel(r)
    \/ Handshake(r) \/ SendRequest(r) \/ ExchangeFails(r) \/ BodyFrame(r) \/ HopEnd(r)
    \/ Expire(r)
    \/ ReqwestSend(r) \/ ReqwestChunk(r) \/ ReqwestEnd(r) \/ ReqwestFails(r)

ClientNext ==
    \/ \E r \in Requests : ClientStep(r)
    \/ \E r \in Requests, h \in Responses : ResponseHead(r, h) \/ ReqwestHead(r, h)
    \/ \E c \in Conns : ConnTask(c) \/ PeerCloses(c)

-----------------------------------------------------------------------------
(* Types.                                                                   *)

RouteKeys == [ transport : {"http", "https"}, host : Hosts \cup {<<ip>> : ip \in Ips}, port : Ports,
               source_ip : Ips \cup {None}, proxy : {None, cfg.http_proxy, cfg.https_proxy} ]

Connections ==
    [ st : {"unused", "open", "dropped"}, key : RouteKeys \cup {None}, ip : Ips \cup {None},
      source : Ips \cup {None}, via : {None, cfg.http_proxy, cfg.https_proxy}, to : Urls \cup {None},
      alive : BOOLEAN, undrained : Nat, control : Nat, written : Nat, read : Nat, failed : Nat ]

Exchanges ==
    [ pc : Awaits \cup {"idle", "hop", "send", "execute", "chunks", "done"}, method : {"GET", "POST", None},
      url : Urls \cup {None}, body : Nat, hops : Nat, key : RouteKeys \cup {None}, ip : Ips \cup {None},
      conn : Conns \cup {None}, close : BOOLEAN, status : Nat, loc : Urls \cup {None}, cookie : BOOLEAN,
      sent0 : Nat, recv0 : Nat, kept : Nat, wrote : Nat, got : Nat, extra_sent : Nat, extra_recv : Nat,
      result : Results \cup {None},
      data_sent : Int, data_received : Int ]

ClientTypeOK ==
    /\ ipIndex \in Nat /\ (cfg.local_ips # <<>> => ipIndex < Len(cfg.local_ips))
    /\ pool \in [DOMAIN pool -> Seq(Conns)] /\ DOMAIN pool \subseteq RouteKeys
    /\ conn \in [Conns -> Connections]
    /\ rq \in [Requests -> Exchanges]
=============================================================================
