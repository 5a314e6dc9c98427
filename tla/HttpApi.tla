------------------------------- MODULE HttpApi -------------------------------
(***************************************************************************)
(* The script's http object (k6-js/src/api/http.rs) over the clients of    *)
(* HttpClients: several coroutine VUs share one client; each has its own   *)
(* cookie jar and response callback.  A synchronous request and a batch    *)
(* park the VU until their responses are in; asyncRequest does not.  A     *)
(* response is recorded when the VU sees it.  One cookie per host stands   *)
(* for the jar's names; its value is the request that received it.         *)
(***************************************************************************)
EXTENDS HttpClients

CONSTANTS
    VUs,
    Posts,      \* URLs scripts POST to; they GET any
    Callbacks   \* response callbacks scripts set: sets of expected statuses, or None

ASSUME HttpAssumption ==
    Requests \subseteq Nat /\ None \notin VUs /\ None \notin Requests /\ Posts \subseteq Urls

VARIABLES
    vu,        \* [VUs -> "run" | "await" | "gone"]
    awaiting,  \* [VUs -> Seq(Requests)], the ops of AwaitOne or AwaitAll
    owner,     \* [Requests -> VUs or None]
    callback,  \* [VUs -> Callbacks], __http_response_callback
    expects,   \* [Requests -> Callbacks], the callback a request was prepared with
    sentJar,   \* [Requests -> Requests or None], the Cookie header it was prepared with
    jar,       \* [VUs -> [hosts -> Requests or None]], __cookieJar._cookies
    samples    \* [Requests -> Seq], what finish_http_response recorded of it

scriptVars == <<vu, awaiting, owner, callback, expects, sentJar, jar, samples>>
httpvars == <<clientVars, scriptVars>>

\* ResponseCallback::Default; a callback is its set of expected statuses, and
\* None is ResponseCallback::Disabled.
DefaultStatuses == 200..399

\* ResponseCallback::expected: None when the callback is disabled.
Expected(cb, status) == IF cb = None THEN None ELSE status \in cb

HttpInit ==
    /\ ClientInit
    /\ vu = [v \in VUs |-> "run"] /\ awaiting = [v \in VUs |-> <<>>]
    /\ owner = [r \in Requests |-> None]
    /\ callback = [v \in VUs |-> DefaultStatuses]
    /\ expects = [r \in Requests |-> DefaultStatuses] /\ sentJar = [r \in Requests |-> None]
    /\ jar = [v \in VUs |-> [h \in Hosts |-> None]]
    /\ samples = [r \in Requests |-> <<>>]

\* classify_error of the text that to_string() gives: the outermost context of
\* the client's error, not its cause.  hyper's "TCP connect failed" and
\* "send_request failed" name no cause; reqwest's errors carry the URL only.
classify_error(why) ==
    CASE why = "blocked" -> 1400
      [] why = "dns" -> 1010
      [] why = "tls" -> 1100
      [] why = "timeout" -> 1200
      [] OTHER -> 1000

\* __buildCookieHeader: the jar's cookie for the URL's host.
CookieHeader(v, u) == jar[v][u.host]

\* _prep and build_http_request: headers with the jar's cookie for the URL's
\* host, and the callback in force, of the requests the VU issues in one call.
\* The least unused ids are taken.
Issue(v, reqs, us, method, body, cb) ==
    /\ \A i \in 1..Len(reqs) : rq[reqs[i]].pc = "idle"
    /\ \A r \in Requests : rq[r].pc = "idle" /\ r \notin Range(reqs) => \A i \in 1..Len(reqs) : reqs[i] < r
    /\ LET url(r) == us[CHOOSE i \in 1..Len(reqs) : reqs[i] = r]
       IN  /\ rq' = [r \in Requests |-> IF r \in Range(reqs) THEN Entered(method, url(r), body) ELSE rq[r]]
           /\ owner' = [r \in Requests |-> IF r \in Range(reqs) THEN v ELSE owner[r]]
           /\ expects' = [r \in Requests |-> IF r \in Range(reqs) THEN cb ELSE expects[r]]
           /\ sentJar' = [r \in Requests |-> IF r \in Range(reqs) THEN CookieHeader(v, url(r)) ELSE sentJar[r]]
    /\ UNCHANGED <<cfg, ipIndex, pool, conn, callback, jar, samples>>

\* http.request and its shorthands: AwaitOne.  params.responseCallback replaces
\* the VU's; here the script gives it with every POST.
Request(v, r, u, post) ==
    /\ vu[v] = "run"
    /\ IF post THEN Issue(v, <<r>>, <<u>>, "POST", 1, None)
               ELSE Issue(v, <<r>>, <<u>>, "GET", 0, callback[v])
    /\ vu' = [vu EXCEPT ![v] = "await"] /\ awaiting' = [awaiting EXCEPT ![v] = <<r>>]

\* http.batch: AwaitAll.
Batch(v, r, s, u, w) ==
    /\ vu[v] = "run" /\ r < s
    /\ Issue(v, <<r, s>>, <<u, w>>, "GET", 0, callback[v])
    /\ vu' = [vu EXCEPT ![v] = "await"] /\ awaiting' = [awaiting EXCEPT ![v] = <<r, s>>]

\* http.asyncRequest: registered, not awaited here.
AsyncRequest(v, r, u) ==
    /\ vu[v] = "run"
    /\ Issue(v, <<r>>, <<u>>, "GET", 0, callback[v])
    /\ UNCHANGED <<vu, awaiting>>

SetResponseCallback(v, cb) ==
    /\ vu[v] = "run" /\ callback[v] # cb
    /\ callback' = [callback EXCEPT ![v] = cb]
    /\ UNCHANGED <<clientVars, vu, awaiting, owner, expects, sentJar, jar, samples>>

\* finish_http_response: one http sample; bytes only of a response.
HttpSample(r, cb) ==
    [ status |-> rq[r].status, failed |-> IF Expected(cb, rq[r].status) = None THEN None
                                          ELSE ~Expected(cb, rq[r].status),
      code |-> IF rq[r].result = "ok" THEN 0 ELSE classify_error(rq[r].result),
      sent |-> rq[r].data_sent, received |-> rq[r].data_received ]

\* Mutant: the callback in force when the response arrives decides.
FinishLateCallback(v, reqs) ==
    samples' = [r \in Requests |-> IF r \in Range(reqs)
                   THEN Append(samples[r], HttpSample(r, callback[v])) ELSE samples[r]]

Finish(v, reqs) ==
    samples' = [r \in Requests |-> IF r \in Range(reqs)
                   THEN Append(samples[r], HttpSample(r, expects[r])) ELSE samples[r]]

\* __extractCookies stores a response's cookie under the host of its last URL;
\* a failed request has no URL.
Stores(r, h) == rq[r].result = "ok" /\ rq[r].cookie /\ rq[r].url.host = h

\* __wrap_response of the responses, in order.
Wrap(v, reqs) ==
    jar' = [jar EXCEPT ![v] = [h \in Hosts |->
               LET last == {i \in 1..Len(reqs) : Stores(reqs[i], h)}
               IN  IF last = {} THEN @[h] ELSE reqs[Max(last)]]]

\* The VU resumes with every response of its AwaitOne or AwaitAll.
Resume(v) ==
    /\ vu[v] = "await" /\ \A i \in 1..Len(awaiting[v]) : rq[awaiting[v][i]].pc = "done"
    /\ Finish(v, awaiting[v]) /\ Wrap(v, awaiting[v])
    /\ vu' = [vu EXCEPT ![v] = "run"] /\ awaiting' = [awaiting EXCEPT ![v] = <<>>]
    /\ UNCHANGED <<clientVars, owner, callback, expects, sentJar>>

\* The promise of an asyncRequest is resolved.
ResolveAsync(v, r) ==
    /\ vu[v] = "run" /\ owner[r] = v /\ rq[r].pc = "done" /\ samples[r] = <<>>
    /\ Finish(v, <<r>>) /\ Wrap(v, <<r>>)
    /\ UNCHANGED <<clientVars, vu, awaiting, owner, callback, expects, sentJar>>

\* The hard token: the coroutine is unwound and its futures are dropped.
Unwind(v) ==
    /\ vu[v] # "gone"
    /\ Abandon({r \in Requests : owner[r] = v})
    /\ vu' = [vu EXCEPT ![v] = "gone"]
    /\ UNCHANGED <<awaiting, owner, callback, expects, sentJar, jar, samples>>

Script(v) ==
    \/ \E r \in Requests, u \in Urls : Request(v, r, u, FALSE) \/ (u \in Posts /\ Request(v, r, u, TRUE))
    \/ \E r, s \in Requests, u, w \in Urls : Batch(v, r, s, u, w)
    \/ \E r \in Requests, u \in Urls : AsyncRequest(v, r, u)
    \/ \E cb \in Callbacks : SetResponseCallback(v, cb)
    \/ Resume(v) \/ Unwind(v)
    \/ \E r \in Requests : ResolveAsync(v, r)

HttpNext ==
    \/ \E v \in VUs : Script(v)
    \/ ClientNext /\ UNCHANGED scriptVars

HttpSpec == HttpInit /\ [][HttpNext]_httpvars

-----------------------------------------------------------------------------
(* Properties.                                                              *)

HttpTypeOK ==
    /\ ClientTypeOK
    /\ vu \in [VUs -> {"run", "await", "gone"}] /\ awaiting \in [VUs -> Seq(Requests)]
    /\ owner \in [Requests -> VUs \cup {None}]
    /\ callback \in [VUs -> Callbacks \cup {DefaultStatuses}]
    /\ expects \in [Requests -> Callbacks \cup {DefaultStatuses, None}]
    /\ sentJar \in [Requests -> Requests \cup {None}]
    /\ jar \in [VUs -> [Hosts -> Requests \cup {None}]]
    /\ DOMAIN samples = Requests

Idle(c) == \E k \in DOMAIN pool : c \in Range(pool[k])
Held(c) == {r \in Requests : rq[r].conn = c}

\* A connection is in one pool slot or in one request's hands or closed, never
\* in two places and never leaked open; one that is pooled has no byte of an
\* earlier response left, which the next request would read as its own.
PoolSound ==
    /\ \A c \in Conns :
          /\ Cardinality(Held(c)) <= 1
          /\ Idle(c) => Held(c) = {} /\ conn[c].undrained = 0
          /\ conn[c].st = "open" <=> (Idle(c) \/ Held(c) # {})
    /\ \A k \in DOMAIN pool : IsInjective(pool[k])
    /\ \A k, l \in DOMAIN pool : k # l => Range(pool[k]) \cap Range(pool[l]) = {}

\* The one address a host stands for without a lookup, if it has one.
FixedIp(h) == IF MappedIp(h) # None THEN MappedIp(h) ELSE IF IsLiteral(h) THEN h[1] ELSE None

\* The addresses a connection for u may lead to.
Addresses(u) ==
    IF proxy_for(u) # None THEN Lookup(proxy_for(u))
    ELSE IF FixedIp(u.host) # None THEN {FixedIp(u.host)} ELSE Lookup(u.host)

\* What a request writes goes over a connection opened in its own transport, to
\* its own port, by its proxy and source address, to an address of its own host,
\* and for that host or for another name of the one address both stand for (over
\* TLS too, whose server name is then the other one); no connection leads to an
\* address of blacklistIPs.
RouteSound ==
    /\ \A c \in Conns : conn[c].st = "open" => conn[c].ip \notin cfg.blacklist_ips
    /\ \A r \in Requests : rq[r].conn # None /\ rq[r].pc \in {"head", "body"} =>
          LET c == conn[rq[r].conn]
              u == rq[r].url
          IN  /\ c.to.scheme = u.scheme /\ c.to.port = u.port
              /\ c.via = proxy_for(u) /\ c.source = rq[r].key.source_ip
              /\ c.ip \in Addresses(u)
              /\ c.to.host = u.host \/ (c.via = None /\ FixedIp(u.host) # None /\ FixedIp(c.to.host) = FixedIp(u.host))

\* data_sent and data_received of a response are the bytes of its own last
\* exchange and, over TLS, what the connection's task moved by itself since the
\* request was written: none of the connection's handshake or earlier requests.
BytesOwn == \A r \in Requests :
    LET q == rq[r]
    IN  cfg.client = "hyper" /\ q.result = "ok" =>
            /\ q.data_sent = q.wrote + q.extra_sent /\ q.data_received = q.got + q.extra_recv
            /\ q.url.scheme = "http" => q.extra_sent = 0 /\ q.extra_recv = 0

\* "The pool self-heals one mistake at a time": a connection its server closed
\* fails one request at most.
StaleOnce == \A c \in Conns : conn[c].failed <= 1

\* A response the script saw is recorded once and judged by the callback it was
\* issued under; a VU's jar holds only what its own requests received from that
\* host.
Recorded ==
    /\ \A r \in Requests : samples[r] # <<>> =>
          samples[r] = <<HttpSample(r, expects[r])>> /\ rq[r].result # "cancelled"
    /\ \A v \in VUs, h \in Hosts : jar[v][h] # None =>
          owner[jar[v][h]] = v /\ rq[jar[v][h]].url.host = h /\ samples[jar[v][h]] # <<>>
=============================================================================
