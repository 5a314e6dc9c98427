----------------------------- MODULE HttpProofs -----------------------------
(***************************************************************************)
(* Theorems about the HTTP clients and the script's http object, for every *)
(* set of requests, connections, URLs, configurations and responses: where *)
(* a connection is, what leads where, whose bytes are counted, and what is *)
(* recorded of a response.                                                 *)
(***************************************************************************)
EXTENDS HttpApi, FiniteSetTheorems, TLAPS

\* Where the future of a request owns a connection.
Owning == {"tunnel", "handshake", "send", "head", "body"}

\* The route of a request to u from source address s.
KeyFrom(u, s) ==
    [ transport |-> u.scheme,
      host |-> IF proxy_for(u) = None /\ MappedIp(u.host) # None THEN <<MappedIp(u.host)>> ELSE u.host,
      port |-> u.port, source_ip |-> s, proxy |-> proxy_for(u) ]

\* Only the task of a TLS connection moves parts of its own.
Extras(q) == q.url.scheme = "http" => q.extra_sent = 0 /\ q.extra_recv = 0

\* What holds of a request by itself: its program counter says which of its
\* fields are in use, its key is the route of its URL, its address one of that
\* URL's, and a finished one has counted its own bytes.
RequestOK(q) ==
    /\ q \in Exchanges
    /\ q.conn # None <=> q.pc \in Owning
    /\ q.pc # "done" => q.result = None
    /\ q.pc \notin {"idle", "done"} => q.url \in Urls
    /\ q.pc \in Owning \cup {"dns", "tcp"} => q.key \in RouteKeys /\ q.key = KeyFrom(q.url, q.key.source_ip)
    /\ q.pc = "dns" => proxy_for(q.url) # None \/ MappedIp(q.url.host) = None
    /\ q.pc = "tcp" => q.ip \notin cfg.blacklist_ips /\ q.ip \in Addresses(q.url)
    /\ q.pc = "head" => q.got = 0
    /\ q.pc \in {"head", "body"} => Extras(q)
    /\ q.pc \in {"execute", "chunks"} => cfg.client = "reqwest"
    /\ cfg.client = "hyper" /\ q.result = "ok" =>
          q.data_sent = q.wrote + q.extra_sent /\ q.data_received = q.got + q.extra_recv /\ Extras(q)

\* What holds of a connection by itself: it leads where its key says, its task has
\* parts of its own only over TLS, and it failed no request before the one that
\* dropped it.
ConnectionOK(k) ==
    /\ k \in Connections
    /\ k.failed <= 1 /\ (k.st # "dropped" => k.failed = 0)
    /\ k.st = "open" => /\ k.key \in RouteKeys /\ k.to \in Urls
                        /\ k.key = KeyFrom(k.to, k.source) /\ k.via = k.key.proxy
                        /\ k.ip \notin cfg.blacklist_ips /\ k.ip \in Addresses(k.to)
                        /\ k.control > 0 => k.to.scheme = "https"

\* What a request and the connection it owns have in common.  The wire counters
\* are compared with what they were when the request was written; one written to
\* a closed connection leaves no bytes, and cannot get a response.
Carries(q, k) ==
    /\ k.st = "open" /\ k.key = q.key
    /\ (q.pc = "head" /\ k.alive) \/ q.pc = "body" =>
          k.written = q.sent0 + q.wrote + q.extra_sent /\ k.read = q.recv0 + q.got + q.extra_recv

\* The configuration, and the index into its source addresses.
IpOK == /\ cfg.cap \in Nat /\ cfg.local_ips \in Seq(Ips)
        /\ ipIndex \in Nat /\ (cfg.local_ips # <<>> => ipIndex < Len(cfg.local_ips))

\* A pooled connection is open, read to the end, nobody's, and under its key.
PoolOK ==
    /\ pool \in [DOMAIN pool -> Seq(Conns)] /\ DOMAIN pool \subseteq RouteKeys
    /\ \A k \in DOMAIN pool :
          /\ IsInjective(pool[k])
          /\ \A c \in Range(pool[k]) :
                /\ conn[c].st = "open" /\ conn[c].undrained = 0 /\ conn[c].key = k
                /\ \A r \in Requests : rq[r].conn # c

\* No connection is in two hands, and none is open in nobody's.
HandsOK ==
    /\ \A r, s \in Requests : rq[r].conn = rq[s].conn /\ rq[r].conn # None => r = s
    /\ \A c \in Conns : conn[c].st = "open" => Idle(c) \/ \E r \in Requests : rq[r].conn = c

ClientInv ==
    /\ IpOK /\ PoolOK /\ HandsOK
    /\ rq \in [Requests -> Exchanges] /\ conn \in [Conns -> Connections]
    /\ \A r \in Requests : RequestOK(rq[r])
    /\ \A c \in Conns : ConnectionOK(conn[c])
    /\ \A r \in Requests : rq[r].conn # None => Carries(rq[r], conn[rq[r].conn])

\* Who waits for a request and who may still record it.
Waits ==
    /\ \A r \in Requests :
          /\ rq[r].pc = "idle" <=> owner[r] = None
          /\ samples[r] # <<>> => rq[r].pc = "done"
          /\ rq[r].result = "cancelled" => vu[owner[r]] = "gone"
    /\ \A v \in VUs :
          /\ vu[v] = "run" => awaiting[v] = <<>>
          /\ Len(awaiting[v]) <= 2 /\ IsInjective(awaiting[v])
          /\ vu[v] = "await" => \A i \in 1..Len(awaiting[v]) :
                owner[awaiting[v][i]] = v /\ samples[awaiting[v][i]] = <<>>
    /\ Recorded

-----------------------------------------------------------------------------
(* Sequences and configuration.                                             *)

\* Taking the last connection of a stack of distinct ones.
LEMMA FrontFacts ==
    ASSUME NEW S, NEW s \in Seq(S), s # <<>>, IsInjective(s)
    PROVE  /\ Front(s) \in Seq(S) /\ IsInjective(Front(s))
           /\ Last(s) \in S /\ Last(s) \in Range(s)
           /\ Range(Front(s)) = Range(s) \ {Last(s)}
<1>1. /\ Len(s) \in Nat /\ Len(s) > 0 /\ DOMAIN s = 1..Len(s)
  OBVIOUS
<1>2. /\ Front(s) \in Seq(S) /\ Len(Front(s)) = Len(s) - 1
      /\ DOMAIN Front(s) = 1..(Len(s) - 1)
      /\ \A i \in 1..(Len(s) - 1) : Front(s)[i] = s[i]
  BY <1>1 DEF Front
<1>3. Last(s) = s[Len(s)] /\ Last(s) \in S
  BY <1>1 DEF Last
<1> QED BY <1>1, <1>2, <1>3 DEF Range, IsInjective

\* Pushing a connection that is not on the stack.
LEMMA PushFacts ==
    ASSUME NEW S, NEW s \in Seq(S), NEW c \in S, IsInjective(s), c \notin Range(s)
    PROVE  /\ s \o <<c>> \in Seq(S) /\ IsInjective(s \o <<c>>)
           /\ Range(s \o <<c>>) = Range(s) \cup {c}
<1> DEFINE t == s \o <<c>>
<1>1. /\ Len(s) \in Nat /\ DOMAIN s = 1..Len(s)
  OBVIOUS
<1>2. /\ t \in Seq(S) /\ DOMAIN t = 1..(Len(s) + 1)
      /\ \A i \in 1..Len(s) : t[i] = s[i]
      /\ t[Len(s) + 1] = c
  BY <1>1
<1> HIDE DEF t
<1>3. IsInjective(t) /\ Range(t) = Range(s) \cup {c}
  BY <1>1, <1>2 DEF Range, IsInjective
<1> QED BY <1>2, <1>3 DEF t

\* The invariants of a request and of a connection depend on the configuration
\* alone, which no step changes.
LEMMA SameConfig ==
    ASSUME UNCHANGED cfg
    PROVE  /\ RouteKeys' = RouteKeys /\ Connections' = Connections /\ Exchanges' = Exchanges
           /\ \A u, s : KeyFrom(u, s)' = KeyFrom(u, s)
           /\ \A u : Addresses(u)' = Addresses(u)
           /\ \A q : RequestOK(q)' <=> RequestOK(q)
           /\ \A k : ConnectionOK(k)' <=> ConnectionOK(k)
<1>1. RouteKeys' = RouteKeys
  BY DEF RouteKeys
<1>2. Connections' = Connections /\ Exchanges' = Exchanges
  BY <1>1 DEF Connections, Exchanges
<1>3. \A u : proxy_for(u)' = proxy_for(u) /\ MappedIp(u.host)' = MappedIp(u.host)
  BY DEF proxy_for, MappedIp, no_proxy_matches
<1>4. \A u, s : KeyFrom(u, s)' = KeyFrom(u, s)
  BY <1>3 DEF KeyFrom
<1>5. \A u : Addresses(u)' = Addresses(u)
  BY <1>3 DEF Addresses, FixedIp, MappedIp, Lookup, IsLiteral
<1>6. \A q : RequestOK(q)' <=> RequestOK(q)
  BY <1>1, <1>2, <1>3, <1>4, <1>5 DEF RequestOK, Extras
<1>7. \A k : ConnectionOK(k)' <=> ConnectionOK(k)
  BY <1>1, <1>2, <1>4, <1>5 DEF ConnectionOK
<1> QED BY <1>1, <1>2, <1>4, <1>5, <1>6, <1>7

\* The source addresses are taken in turn.
LEMMA NextIp ==
    ASSUME IpOK, UNCHANGED cfg, AdvanceIp
    PROVE  IpOK'
<1>1. \A a, b \in Nat : b > 0 => (a + 1) % b \in Nat /\ (a + 1) % b < b
  OBVIOUS
<1>2. cfg.local_ips # <<>> => Len(cfg.local_ips) \in Nat /\ Len(cfg.local_ips) > 0
  BY DEF IpOK
<1> QED BY <1>1, <1>2 DEF IpOK, AdvanceIp

\* The key of a request that is not refused is a route.
LEMMA KeyType ==
    ASSUME IpOK, NEW u \in Urls, ~Refused(u)
    PROVE  RouteKey(u) \in RouteKeys /\ RouteKey(u) = KeyFrom(u, RouteKey(u).source_ip)
<1>1. SourceIp \in Ips \cup {None}
  BY DEF SourceIp, IpOK
<1>2. proxy_for(u) \in {None, cfg.http_proxy, cfg.https_proxy}
  BY DEF proxy_for
<1>3. MappedIp(u.host) \in Ips \cup {None} /\ u.host \in Hosts /\ u.port \in Ports
  BY DEF MappedIp, Hosts, Ports
<1>4. u.scheme \in {"http", "https"}
  BY DEF Refused
<1> QED BY <1>1, <1>2, <1>3, <1>4 DEF RouteKey, RouteKeys, KeyFrom

-----------------------------------------------------------------------------
(* What a step may do to a request and to a connection.                     *)

\* Replacing a field of a request.
LEMMA FieldTypes ==
    ASSUME NEW q \in Exchanges
    PROVE  /\ \A x \in Awaits \cup {"idle", "hop", "send", "execute", "chunks", "done"} :
                 [q EXCEPT !.pc = x] \in Exchanges
           /\ \A x \in {"GET", "POST", None} : [q EXCEPT !.method = x] \in Exchanges
           /\ \A x \in Urls : [q EXCEPT !.url = x] \in Exchanges
           /\ \A x \in RouteKeys : [q EXCEPT !.key = x] \in Exchanges
           /\ \A x \in Ips \cup {None} : [q EXCEPT !.ip = x] \in Exchanges
           /\ \A x \in Conns \cup {None} : [q EXCEPT !.conn = x] \in Exchanges
           /\ \A x \in Urls \cup {None} : [q EXCEPT !.loc = x] \in Exchanges
           /\ \A x \in BOOLEAN : [q EXCEPT !.close = x] \in Exchanges /\ [q EXCEPT !.cookie = x] \in Exchanges
           /\ \A x \in Nat : /\ [q EXCEPT !.body = x] \in Exchanges /\ [q EXCEPT !.hops = x] \in Exchanges
                             /\ [q EXCEPT !.status = x] \in Exchanges
                             /\ [q EXCEPT !.kept = x] \in Exchanges /\ [q EXCEPT !.got = x] \in Exchanges
                             /\ [q EXCEPT !.sent0 = x] \in Exchanges /\ [q EXCEPT !.recv0 = x] \in Exchanges
                             /\ [q EXCEPT !.wrote = x] \in Exchanges
                             /\ [q EXCEPT !.extra_sent = x] \in Exchanges
                             /\ [q EXCEPT !.extra_recv = x] \in Exchanges
           /\ \A x \in Int : /\ [q EXCEPT !.data_sent = x] \in Exchanges
                             /\ [q EXCEPT !.data_received = x] \in Exchanges
<1>1. \A x \in Awaits \cup {"idle", "hop", "send", "execute", "chunks", "done"} :
                 [q EXCEPT !.pc = x] \in Exchanges
  BY DEF Exchanges
<1>2. \A x \in {"GET", "POST", None} : [q EXCEPT !.method = x] \in Exchanges
  BY DEF Exchanges
<1>3. \A x \in Urls : [q EXCEPT !.url = x] \in Exchanges
  BY DEF Exchanges
<1>4. \A x \in RouteKeys : [q EXCEPT !.key = x] \in Exchanges
  BY DEF Exchanges
<1>5. \A x \in Ips \cup {None} : [q EXCEPT !.ip = x] \in Exchanges
  BY DEF Exchanges
<1>6. \A x \in Conns \cup {None} : [q EXCEPT !.conn = x] \in Exchanges
  BY DEF Exchanges
<1>7. \A x \in Urls \cup {None} : [q EXCEPT !.loc = x] \in Exchanges
  BY DEF Exchanges
<1>8. \A x \in BOOLEAN : [q EXCEPT !.close = x] \in Exchanges
  BY DEF Exchanges
<1>9. \A x \in BOOLEAN : [q EXCEPT !.cookie = x] \in Exchanges
  BY DEF Exchanges
<1>10. \A x \in Nat : [q EXCEPT !.body = x] \in Exchanges /\ [q EXCEPT !.hops = x] \in Exchanges
  BY DEF Exchanges
<1>11. \A x \in Nat : [q EXCEPT !.status = x] \in Exchanges /\ [q EXCEPT !.kept = x] \in Exchanges
  BY DEF Exchanges
<1>12. \A x \in Nat : [q EXCEPT !.got = x] \in Exchanges /\ [q EXCEPT !.wrote = x] \in Exchanges
  BY DEF Exchanges
<1>13. \A x \in Nat : [q EXCEPT !.sent0 = x] \in Exchanges /\ [q EXCEPT !.recv0 = x] \in Exchanges
  BY DEF Exchanges
<1>14. \A x \in Int : [q EXCEPT !.data_sent = x] \in Exchanges /\ [q EXCEPT !.data_received = x] \in Exchanges
  BY DEF Exchanges
<1>15. \A x \in Nat : [q EXCEPT !.extra_sent = x] \in Exchanges /\ [q EXCEPT !.extra_recv = x] \in Exchanges
  BY DEF Exchanges
<1> QED BY <1>1, <1>2, <1>3, <1>4, <1>5, <1>6, <1>7, <1>8, <1>9, <1>10, <1>11, <1>12, <1>13, <1>14, <1>15

\* A request that is over owns nothing.
LEMMA OverOK ==
    ASSUME NEW why \in Errors
    PROVE  /\ RequestOK(Settled(Fresh, why))
           /\ Settled(Fresh, why).conn = None /\ Settled(Fresh, why).pc = "done"
           /\ Settled(Fresh, why).result = why
<1> DEFINE q == Settled(Fresh, why)
<1>1. q \in Exchanges /\ q.pc = "done" /\ q.conn = None /\ q.result = why
  BY DEF Settled, Fresh, Exchanges, Results, Errors, Awaits
<1> HIDE DEF q
<1>2. RequestOK(q)
  BY <1>1 DEF RequestOK, Owning, Errors
<1> QED BY <1>1, <1>2 DEF q

\* A request as it enters the client, the first time or redirected.
LEMMA EnteredOK ==
    ASSUME NEW m \in {"GET", "POST", None}, NEW u \in Urls, NEW b \in Nat, NEW n \in Nat,
           NEW q, q = Entered(m, u, b) \/ q = [Entered(m, u, b) EXCEPT !.hops = n]
    PROVE  RequestOK(q) /\ q.conn = None /\ q.pc = "hop" /\ q.result = None /\ q.url = u
<1>1. Fresh \in Exchanges
  BY DEF Fresh, Exchanges
<1>2. Entered(m, u, b) \in Exchanges
  BY <1>1, FieldTypes DEF Entered
<1>3. q \in Exchanges
  BY <1>2, FieldTypes
<1>4. q.pc = "hop" /\ q.conn = None /\ q.result = None /\ q.url = u
  <2>1. Fresh.conn = None /\ Fresh.result = None
    BY DEF Fresh
  <2>2. LET e == Entered(m, u, b)
        IN  e.pc = "hop" /\ e.conn = None /\ e.result = None /\ e.url = u
    BY <1>1, <2>1 DEF Entered, Exchanges
  <2> QED BY <1>2, <2>2 DEF Exchanges
<1>5. None # "ok"
  BY ClientAssumption DEF Results
<1>6. RequestOK(q)
  BY <1>3, <1>4, <1>5 DEF RequestOK, Owning
<1> QED BY <1>4, <1>6

\* A connection that is dropped.
LEMMA ClosedOK ==
    ASSUME NEW c \in Conns, NEW n \in {0, 1}, ConnectionOK(conn[c]), conn[c].st # "dropped"
    PROVE  ConnectionOK(Closed(c, n)) /\ Closed(c, n).st = "dropped"
<1> DEFINE k == Closed(c, n)
<1>1. conn[c].failed + n = n /\ n \in Nat /\ n <= 1
  BY DEF ConnectionOK
<1>2. NoConn \in Connections
  BY DEF NoConn, Connections
<1>3. \A x \in Nat : LET d == [NoConn EXCEPT !.st = "dropped", !.failed = x]
                     IN  d \in Connections /\ d.st = "dropped" /\ d.failed = x
  BY <1>2 DEF Connections
<1>4. k \in Connections /\ k.st = "dropped" /\ k.failed = n
  BY <1>1, <1>3 DEF Closed
<1> HIDE DEF k
<1>5. ConnectionOK(k)
  BY <1>1, <1>4 DEF ConnectionOK
<1> QED BY <1>4, <1>5 DEF k

\* A step of one request without its connection: it had none, or drops it.
LEMMA DropStep ==
    ASSUME ClientInv, IpOK', UNCHANGED <<cfg, pool>>,
           NEW r \in Requests, NEW q, RequestOK(q), q.conn = None, rq' = [rq EXCEPT ![r] = q],
           NEW k, rq[r].conn # None => ConnectionOK(k) /\ k.st = "dropped",
           conn' = IF rq[r].conn = None THEN conn ELSE [conn EXCEPT ![rq[r].conn] = k]
    PROVE  ClientInv'
<1> DEFINE d == rq[r].conn
<1>1. d \in Conns \cup {None} /\ None \notin Conns
  BY ClientAssumption DEF ClientInv, Exchanges
<1>2. (rq \in [Requests -> Exchanges] /\ conn \in [Conns -> Connections])'
  <2>1. q \in Exchanges /\ (d # None => k \in Connections)
    BY DEF RequestOK, ConnectionOK
  <2> QED BY <1>1, <2>1, SameConfig DEF ClientInv
<1>3. \A s \in Requests : s # r => rq'[s] = rq[s]
  BY DEF ClientInv
<1>4. rq'[r] = q
  BY DEF ClientInv
<1>5. \A c \in Conns : c # d => conn'[c] = conn[c]
  BY DEF ClientInv
<1>6. d # None => conn'[d] = k
  BY <1>1 DEF ClientInv
<1>7. \A c \in Conns : Idle(c)' <=> Idle(c)
  BY DEF Idle
<1>8. \A s \in Requests : rq[s].conn = d /\ d # None => s = r
  BY DEF ClientInv, HandsOK
<1>9. \A c \in Conns : Idle(c) => c # d
  BY DEF ClientInv, PoolOK, Idle
<1>10. (\A s \in Requests : RequestOK(rq[s]))'
  BY <1>3, <1>4, SameConfig DEF ClientInv
<1>11. (\A c \in Conns : ConnectionOK(conn[c]))'
  BY <1>1, <1>5, <1>6, SameConfig DEF ClientInv
<1>12. ASSUME NEW s \in Requests, rq'[s].conn # None
       PROVE  Carries(rq'[s], conn'[rq'[s].conn])
  <2>1. s # r /\ rq'[s] = rq[s]
    BY <1>3, <1>4, <1>12
  <2>2. rq[s].conn \in Conns /\ rq[s].conn # d
    BY <1>1, <1>8, <1>12, <2>1 DEF ClientInv, Exchanges
  <2> QED BY <1>5, <1>12, <2>1, <2>2 DEF ClientInv
<1>13. HandsOK'
  <2>1. \A s, t \in Requests : rq'[s].conn = rq'[t].conn /\ rq'[s].conn # None => s = t
    BY <1>3, <1>4 DEF ClientInv, HandsOK
  <2>2. ASSUME NEW c \in Conns, conn'[c].st = "open"
        PROVE  Idle(c)' \/ \E s \in Requests : rq'[s].conn = c
    <3>1. c # d /\ conn[c].st = "open"
      BY <1>5, <1>6, <2>2, <1>1
    <3> QED BY <1>3, <1>7, <3>1 DEF ClientInv, HandsOK
  <2> QED BY <2>1, <2>2 DEF HandsOK
<1>14. PoolOK'
  <2>1. \A x \in DOMAIN pool : \A c \in Range(pool[x]) : c \in Conns /\ Idle(c)
    BY DEF ClientInv, PoolOK, Idle, Range
  <2>2. \A x \in DOMAIN pool : \A c \in Range(pool[x]) : conn'[c] = conn[c]
    BY <1>5, <1>9, <2>1
  <2>3. \A x \in DOMAIN pool : \A c \in Range(pool[x]) : \A s \in Requests : rq'[s].conn # c
    BY <1>1, <1>3, <1>4, <2>1 DEF ClientInv, PoolOK
  <2> QED BY <2>2, <2>3, SameConfig DEF ClientInv, PoolOK
<1> QED BY <1>2, <1>10, <1>11, <1>12, <1>13, <1>14 DEF ClientInv

\* A step of a request over the connection it owns.
LEMMA UseStep ==
    ASSUME ClientInv, UNCHANGED <<cfg, ipIndex, pool>>,
           NEW r \in Requests, NEW q, NEW k, rq[r].conn # None, q.conn = rq[r].conn,
           RequestOK(q), ConnectionOK(k), Carries(q, k),
           rq' = [rq EXCEPT ![r] = q], conn' = [conn EXCEPT ![rq[r].conn] = k]
    PROVE  ClientInv'
<1> DEFINE d == rq[r].conn
<1>1. d \in Conns
  BY DEF ClientInv, Exchanges
<1>2. (rq \in [Requests -> Exchanges] /\ conn \in [Conns -> Connections])'
  <2>1. q \in Exchanges /\ k \in Connections
    BY DEF RequestOK, ConnectionOK
  <2> QED BY <1>1, <2>1, SameConfig DEF ClientInv
<1>3. \A s \in Requests : s # r => rq'[s] = rq[s]
  BY DEF ClientInv
<1>4. rq'[r] = q /\ conn'[d] = k
  BY <1>1 DEF ClientInv
<1>5. \A c \in Conns : c # d => conn'[c] = conn[c]
  BY DEF ClientInv
<1>6. \A s \in Requests : rq'[s].conn = rq[s].conn
  BY <1>3, <1>4
<1>7. \A c \in Conns : Idle(c)' <=> Idle(c)
  BY DEF Idle
<1>8. \A s \in Requests : rq[s].conn = d => s = r
  BY DEF ClientInv, HandsOK
<1>10. (\A s \in Requests : RequestOK(rq[s]))'
  BY <1>3, <1>4, SameConfig DEF ClientInv
<1>11. (\A c \in Conns : ConnectionOK(conn[c]))'
  BY <1>4, <1>5, SameConfig DEF ClientInv
<1>12. ASSUME NEW s \in Requests, rq'[s].conn # None
       PROVE  Carries(rq'[s], conn'[rq'[s].conn])
  <2>1. CASE s = r
    BY <1>4, <2>1
  <2>2. CASE s # r
    <3>1. rq[s].conn \in Conns /\ rq[s].conn # d /\ rq'[s] = rq[s]
      BY <1>3, <1>8, <1>12, <2>2 DEF ClientInv, Exchanges
    <3> QED BY <1>5, <1>12, <3>1 DEF ClientInv
  <2> QED BY <2>1, <2>2
<1>13. HandsOK'
  <2>1. \A c \in Conns : conn'[c].st = "open" => Idle(c)' \/ \E s \in Requests : rq'[s].conn = c
    BY <1>4, <1>5, <1>6, <1>7 DEF ClientInv, HandsOK
  <2> QED BY <1>6, <2>1 DEF ClientInv, HandsOK
<1>14. PoolOK'
  <2>1. \A x \in DOMAIN pool : \A c \in Range(pool[x]) : c \in Conns /\ c # d
    BY DEF ClientInv, PoolOK, Range
  <2> QED BY <1>5, <1>6, <2>1, SameConfig DEF ClientInv, PoolOK
<1>15. IpOK'
  BY DEF ClientInv, IpOK
<1> QED BY <1>2, <1>10, <1>11, <1>12, <1>13, <1>14, <1>15 DEF ClientInv

\* A request takes the last idle connection of its route.
LEMMA TakeStep ==
    ASSUME ClientInv, IpOK', UNCHANGED <<cfg, conn>>,
           NEW r \in Requests, NEW key \in DOMAIN pool, pool[key] # <<>>,
           NEW q, RequestOK(q), rq[r].conn = None,
           q.conn = Last(pool[key]), q.key = key, q.pc = "send",
           rq' = [rq EXCEPT ![r] = q], pool' = [pool EXCEPT ![key] = Front(@)]
    PROVE  ClientInv'
<1> DEFINE d == Last(pool[key])
<1>1. /\ pool[key] \in Seq(Conns) /\ IsInjective(pool[key])
      /\ \A x \in DOMAIN pool : pool[x] \in Seq(Conns)
  BY DEF ClientInv, PoolOK
<1>2. /\ Front(pool[key]) \in Seq(Conns) /\ IsInjective(Front(pool[key]))
      /\ d \in Conns /\ d \in Range(pool[key])
      /\ Range(Front(pool[key])) = Range(pool[key]) \ {d}
  BY <1>1, FrontFacts
<1>3. /\ DOMAIN pool' = DOMAIN pool /\ pool'[key] = Front(pool[key])
      /\ \A x \in DOMAIN pool : x # key => pool'[x] = pool[x]
  BY DEF ClientInv, PoolOK
<1>4. conn[d].st = "open" /\ conn[d].key = key /\ \A s \in Requests : rq[s].conn # d
  BY <1>2 DEF ClientInv, PoolOK
<1>5. \A x \in DOMAIN pool : x # key => d \notin Range(pool[x])
  BY <1>4 DEF ClientInv, PoolOK
<1>6. \A x \in DOMAIN pool : \A c : c \in Range(pool'[x]) <=> c \in Range(pool[x]) /\ c # d
  BY <1>2, <1>3, <1>5
<1>7. \A c \in Conns : Idle(c)' <=> Idle(c) /\ c # d
  BY <1>3, <1>6 DEF Idle
<1>8. rq'[r] = q /\ \A s \in Requests : s # r => rq'[s] = rq[s]
  BY DEF ClientInv
<1>9. (rq \in [Requests -> Exchanges] /\ conn \in [Conns -> Connections])'
  <2>1. q \in Exchanges
    BY DEF RequestOK
  <2> QED BY <2>1, SameConfig DEF ClientInv
<1>10. (\A s \in Requests : RequestOK(rq[s]))'
  BY <1>8, SameConfig DEF ClientInv
<1>11. (\A c \in Conns : ConnectionOK(conn[c]))'
  BY SameConfig DEF ClientInv
<1>12. ASSUME NEW s \in Requests, rq'[s].conn # None
       PROVE  Carries(rq'[s], conn'[rq'[s].conn])
  <2>1. CASE s = r
    BY <1>4, <1>8, <2>1 DEF Carries
  <2>2. CASE s # r
    BY <1>8, <1>12, <2>2 DEF ClientInv
  <2> QED BY <2>1, <2>2
<1>13. HandsOK'
  <2>1. \A s, t \in Requests : rq'[s].conn = rq'[t].conn /\ rq'[s].conn # None => s = t
    BY <1>4, <1>8 DEF ClientInv, HandsOK
  <2>2. ASSUME NEW c \in Conns, conn'[c].st = "open"
        PROVE  Idle(c)' \/ \E s \in Requests : rq'[s].conn = c
    <3>1. CASE c = d
      BY <1>8, <3>1
    <3>2. CASE c # d
      <4>1. Idle(c) \/ \E s \in Requests : rq[s].conn = c
        BY <2>2 DEF ClientInv, HandsOK
      <4>2. \A s \in Requests : rq[s].conn = c => rq'[s].conn = c
        BY <1>8, ClientAssumption
      <4> QED BY <1>7, <3>2, <4>1, <4>2
    <3> QED BY <3>1, <3>2
  <2> QED BY <2>1, <2>2 DEF HandsOK
<1>14. PoolOK'
  <2>1. pool' \in [DOMAIN pool' -> Seq(Conns)] /\ DOMAIN pool' \subseteq RouteKeys
    BY <1>1, <1>2, <1>3 DEF ClientInv, PoolOK
  <2>2. \A x \in DOMAIN pool : IsInjective(pool'[x])
    BY <1>2, <1>3 DEF ClientInv, PoolOK
  <2>3. \A x \in DOMAIN pool : \A c \in Range(pool'[x]) :
           /\ conn'[c].st = "open" /\ conn'[c].undrained = 0 /\ conn'[c].key = x
           /\ \A s \in Requests : rq'[s].conn # c
    BY <1>6, <1>8 DEF ClientInv, PoolOK
  <2> QED BY <1>3, <2>1, <2>2, <2>3, SameConfig DEF PoolOK
<1> QED BY <1>9, <1>10, <1>11, <1>12, <1>13, <1>14 DEF ClientInv

\* A request opens a connection.
LEMMA OpenStep ==
    ASSUME ClientInv, UNCHANGED <<cfg, ipIndex, pool>>,
           NEW r \in Requests, NEW d \in Conns, conn[d].st = "unused", rq[r].conn = None,
           NEW q, RequestOK(q), q.conn = d, q.pc \in {"tunnel", "handshake"},
           NEW k, ConnectionOK(k), k.st = "open", k.key = q.key,
           rq' = [rq EXCEPT ![r] = q], conn' = [conn EXCEPT ![d] = k]
    PROVE  ClientInv'
<1>1. d # None
  BY ClientAssumption
<1>2. (rq \in [Requests -> Exchanges] /\ conn \in [Conns -> Connections])'
  <2>1. q \in Exchanges /\ k \in Connections
    BY DEF RequestOK, ConnectionOK
  <2> QED BY <2>1, SameConfig DEF ClientInv
<1>3. rq'[r] = q /\ \A s \in Requests : s # r => rq'[s] = rq[s]
  BY DEF ClientInv
<1>4. conn'[d] = k /\ \A c \in Conns : c # d => conn'[c] = conn[c]
  BY DEF ClientInv
<1>5. \A c \in Conns : Idle(c)' <=> Idle(c)
  BY DEF Idle
<1>6. \A s \in Requests : rq[s].conn # None => rq[s].conn \in Conns /\ conn[rq[s].conn].st = "open"
  BY DEF ClientInv, Carries, Exchanges
<1>7. \A s \in Requests : rq[s].conn # d
  BY <1>1, <1>6
<1>8. \A x \in DOMAIN pool : \A c \in Range(pool[x]) : c \in Conns /\ c # d
  BY DEF ClientInv, PoolOK, Range
<1>10. (\A s \in Requests : RequestOK(rq[s]))'
  BY <1>3, SameConfig DEF ClientInv
<1>11. (\A c \in Conns : ConnectionOK(conn[c]))'
  BY <1>4, SameConfig DEF ClientInv
<1>12. ASSUME NEW s \in Requests, rq'[s].conn # None
       PROVE  Carries(rq'[s], conn'[rq'[s].conn])
  <2>1. CASE s = r
    BY <1>3, <1>4, <2>1 DEF Carries
  <2>2. CASE s # r
    <3>1. rq'[s] = rq[s] /\ rq[s].conn \in Conns /\ rq[s].conn # d
      BY <1>3, <1>6, <1>7, <1>12, <2>2
    <3> QED BY <1>4, <1>12, <3>1 DEF ClientInv
  <2> QED BY <2>1, <2>2
<1>13. HandsOK'
  <2>1. \A s, t \in Requests : rq'[s].conn = rq'[t].conn /\ rq'[s].conn # None => s = t
    BY <1>3, <1>7 DEF ClientInv, HandsOK
  <2>2. ASSUME NEW c \in Conns, conn'[c].st = "open"
        PROVE  Idle(c)' \/ \E s \in Requests : rq'[s].conn = c
    <3>1. CASE c = d
      BY <1>3, <3>1
    <3>2. CASE c # d
      <4>1. Idle(c) \/ \E s \in Requests : rq[s].conn = c
        BY <1>4, <2>2, <3>2 DEF ClientInv, HandsOK
      <4>2. \A s \in Requests : rq[s].conn = c => rq'[s].conn = c
        BY <1>3, ClientAssumption
      <4> QED BY <1>5, <4>1, <4>2
    <3> QED BY <3>1, <3>2
  <2> QED BY <2>1, <2>2 DEF HandsOK
<1>14. PoolOK'
  <2>1. \A x \in DOMAIN pool : \A c \in Range(pool[x]) : conn'[c] = conn[c] /\ \A s \in Requests : rq'[s].conn # c
    BY <1>3, <1>4, <1>8 DEF ClientInv, PoolOK
  <2> QED BY <2>1, SameConfig DEF ClientInv, PoolOK
<1>15. IpOK'
  BY DEF ClientInv, IpOK
<1> QED BY <1>2, <1>10, <1>11, <1>12, <1>13, <1>14, <1>15 DEF ClientInv

\* A request gives its connection back to the pool of its route.
LEMMA PutStep ==
    ASSUME ClientInv, UNCHANGED <<cfg, ipIndex, conn>>,
           NEW r \in Requests, rq[r].conn # None, conn[rq[r].conn].undrained = 0,
           NEW q, RequestOK(q), q.conn = None, rq' = [rq EXCEPT ![r] = q],
           pool' = [x \in DOMAIN pool \cup {rq[r].key} |->
                      (IF x \in DOMAIN pool THEN pool[x] ELSE <<>>)
                      \o (IF x = rq[r].key THEN <<rq[r].conn>> ELSE <<>>)]
    PROVE  ClientInv'
<1> DEFINE d == rq[r].conn
           key == rq[r].key
           old == [x \in DOMAIN pool \cup {key} |-> IF x \in DOMAIN pool THEN pool[x] ELSE <<>>]
<1>1. d \in Conns /\ d # None /\ key \in RouteKeys /\ conn[d].st = "open" /\ conn[d].key = key
  <2>1. d \in Conns /\ rq[r].pc \in Owning /\ Carries(rq[r], conn[d])
    BY DEF ClientInv, RequestOK, Exchanges
  <2> QED BY <2>1 DEF ClientInv, RequestOK, Carries
<1>2. \A x \in DOMAIN pool \cup {key} : old[x] \in Seq(Conns) /\ IsInjective(old[x]) /\ d \notin Range(old[x])
  <2>1. \A x \in DOMAIN pool : pool[x] \in Seq(Conns) /\ IsInjective(pool[x]) /\ d \notin Range(pool[x])
    BY DEF ClientInv, PoolOK
  <2>2. <<>> \in Seq(Conns) /\ IsInjective(<<>>) /\ d \notin Range(<<>>)
    BY DEF IsInjective, Range
  <2> QED BY <2>1, <2>2
<1>3. \A x \in DOMAIN pool \cup {key} : \A c : c \in Range(old[x]) => x \in DOMAIN pool /\ c \in Range(pool[x])
  <2>1. Range(<<>>) = {}
    BY DEF Range
  <2> QED BY <2>1
<1>4. DOMAIN pool' = DOMAIN pool \cup {key}
  OBVIOUS
<1>5. \A x \in DOMAIN pool \cup {key} : pool'[x] = IF x = key THEN old[x] \o <<d>> ELSE old[x]
  <2>1. \A x \in DOMAIN pool \cup {key} : pool'[x] = old[x] \o (IF x = key THEN <<d>> ELSE <<>>)
    OBVIOUS
  <2> HIDE DEF old
  <2>2. \A x \in DOMAIN pool \cup {key} : old[x] \o <<>> = old[x]
    BY <1>2
  <2> QED BY <2>1, <2>2
<1> HIDE DEF old
<1>6. \A x \in DOMAIN pool' : /\ pool'[x] \in Seq(Conns) /\ IsInjective(pool'[x])
                              /\ Range(pool'[x]) = Range(old[x]) \cup (IF x = key THEN {d} ELSE {})
  <2> SUFFICES ASSUME NEW x \in DOMAIN pool'
               PROVE  /\ pool'[x] \in Seq(Conns) /\ IsInjective(pool'[x])
                      /\ Range(pool'[x]) = Range(old[x]) \cup (IF x = key THEN {d} ELSE {})
    OBVIOUS
  <2>1. x \in DOMAIN pool \cup {key} /\ old[x] \in Seq(Conns) /\ IsInjective(old[x]) /\ d \notin Range(old[x])
    BY <1>2, <1>4
  <2>2. /\ old[x] \o <<d>> \in Seq(Conns) /\ IsInjective(old[x] \o <<d>>)
        /\ Range(old[x] \o <<d>>) = Range(old[x]) \cup {d}
    BY <1>1, <2>1, PushFacts
  <2> QED BY <1>5, <2>1, <2>2
<1>7. \A x \in DOMAIN pool' : \A c \in Range(pool'[x]) :
         (x = key /\ c = d) \/ (x \in DOMAIN pool /\ c \in Range(pool[x]) /\ c # d)
  <2> TAKE x \in DOMAIN pool'
  <2> TAKE c \in Range(pool'[x])
  <2>1. x \in DOMAIN pool \cup {key} /\ d \notin Range(old[x])
    BY <1>2, <1>4
  <2>2. c \in Range(old[x]) \/ (x = key /\ c = d)
    BY <1>6
  <2> QED BY ONLY <1>3, <2>1, <2>2
<1>8. \A c \in Conns : Idle(c) \/ c = d => Idle(c)'
  <2>1. \A x \in DOMAIN pool : x \in DOMAIN pool' /\ old[x] = pool[x]
    BY <1>4 DEF old
  <2>2. \A x \in DOMAIN pool : Range(pool[x]) \subseteq Range(pool'[x])
    BY <1>6, <2>1
  <2>3. key \in DOMAIN pool' /\ d \in Range(pool'[key])
    BY <1>4, <1>6
  <2> QED BY ONLY <2>1, <2>2, <2>3 DEF Idle
<1>9. rq'[r] = q /\ \A s \in Requests : s # r => rq'[s] = rq[s]
  BY DEF ClientInv
<1>10. (\A s \in Requests : RequestOK(rq[s]))'
  BY <1>9, SameConfig DEF ClientInv
<1>11. (\A c \in Conns : ConnectionOK(conn[c]))'
  BY SameConfig DEF ClientInv
<1>12. ASSUME NEW s \in Requests, rq'[s].conn # None
       PROVE  Carries(rq'[s], conn'[rq'[s].conn])
  <2>1. s # r /\ rq'[s] = rq[s]
    BY <1>9, <1>12
  <2> QED BY <1>12, <2>1 DEF ClientInv
<1>13. HandsOK'
  <2>1. \A s, t \in Requests : rq'[s].conn = rq'[t].conn /\ rq'[s].conn # None => s = t
    BY <1>9 DEF ClientInv, HandsOK
  <2>2. \A c \in Conns : conn'[c].st = "open" => Idle(c)' \/ \E s \in Requests : rq'[s].conn = c
    BY <1>8, <1>9 DEF ClientInv, HandsOK
  <2> QED BY <2>1, <2>2 DEF HandsOK
<1>14. PoolOK'
  <2>1. pool' \in [DOMAIN pool' -> Seq(Conns)] /\ DOMAIN pool' \subseteq RouteKeys
    BY <1>1, <1>4, <1>6 DEF ClientInv, PoolOK
  <2>2. \A s \in Requests : s # r => rq[s].conn # d
    BY <1>1 DEF ClientInv, HandsOK
  <2>3. \A x \in DOMAIN pool' : \A c \in Range(pool'[x]) :
           /\ conn'[c].st = "open" /\ conn'[c].undrained = 0 /\ conn'[c].key = x
           /\ \A s \in Requests : rq'[s].conn # c
    <3> TAKE x \in DOMAIN pool'
    <3> TAKE c \in Range(pool'[x])
    <3>1. CASE x = key /\ c = d
      BY <1>1, <1>9, <2>2, <3>1
    <3>2. CASE x \in DOMAIN pool /\ c \in Range(pool[x]) /\ c # d
      <4>1. /\ conn[c].st = "open" /\ conn[c].undrained = 0 /\ conn[c].key = x
            /\ \A s \in Requests : rq[s].conn # c
        BY <3>2 DEF ClientInv, PoolOK
      <4>2. c # None
        BY <3>2, ClientAssumption DEF ClientInv, PoolOK, Range
      <4> QED BY <1>9, <4>1, <4>2
    <3> QED BY <1>7, <3>1, <3>2
  <2> QED BY <1>6, <2>1, <2>3, SameConfig DEF PoolOK
<1>15. IpOK'
  BY DEF ClientInv, IpOK
<1>16. (rq \in [Requests -> Exchanges] /\ conn \in [Conns -> Connections])'
  <2>1. q \in Exchanges
    BY DEF RequestOK
  <2> QED BY <2>1, SameConfig DEF ClientInv
<1> QED BY <1>10, <1>11, <1>12, <1>13, <1>14, <1>15, <1>16 DEF ClientInv

\* All requests of S lose their futures at once.
LEMMA AbandonStep ==
    ASSUME ClientInv, NEW S \in SUBSET Requests, Abandon(S)
    PROVE  ClientInv'
<1> DEFINE live == {r \in S : rq[r].pc \notin {"idle", "done"}}
           over == Settled(Fresh, "cancelled")
<1>1. RequestOK(over) /\ over.conn = None /\ over \in Exchanges
  <2>1. "cancelled" \in Errors
    BY DEF Errors
  <2> QED BY <2>1, OverOK DEF RequestOK
<1> HIDE DEF over
<1>2. UNCHANGED <<cfg, ipIndex, pool>>
  BY DEF Abandon
<1>3. \A r \in Requests : rq'[r] = IF r \in live THEN over ELSE rq[r]
  BY DEF Abandon, over
<1>4. \A c \in Conns : conn'[c] = IF \E r \in live : rq[r].conn = c THEN Closed(c, 0) ELSE conn[c]
  BY DEF Abandon
<1>5. \A c \in Conns : (\E r \in live : rq[r].conn = c) =>
         /\ conn[c].st = "open" /\ ~Idle(c)
         /\ ConnectionOK(Closed(c, 0)) /\ Closed(c, 0).st = "dropped"
  <2> SUFFICES ASSUME NEW c \in Conns, NEW r \in live, rq[r].conn = c
               PROVE  /\ conn[c].st = "open" /\ ~Idle(c)
                      /\ ConnectionOK(Closed(c, 0)) /\ Closed(c, 0).st = "dropped"
    OBVIOUS
  <2>1. c # None /\ r \in Requests
    BY ClientAssumption
  <2>2. conn[c].st = "open" /\ ConnectionOK(conn[c])
    BY <2>1 DEF ClientInv, Carries
  <2>3. ~Idle(c)
    BY <2>1 DEF ClientInv, PoolOK, Idle
  <2> QED BY <2>2, <2>3, ClosedOK
<1> HIDE DEF live
<1>6. (rq \in [Requests -> Exchanges] /\ conn \in [Conns -> Connections])'
  <2>1. \A r \in Requests : rq'[r] \in Exchanges
    BY <1>1, <1>3 DEF ClientInv
  <2>2. \A c \in Conns : conn'[c] \in Connections
    BY <1>4, <1>5 DEF ClientInv, ConnectionOK
  <2>3. DOMAIN rq' = Requests /\ DOMAIN conn' = Conns
    BY DEF Abandon
  <2>4. rq' = [r \in Requests |-> rq'[r]] /\ conn' = [c \in Conns |-> conn'[c]]
    BY DEF Abandon
  <2> QED BY <1>2, <2>1, <2>2, <2>4, SameConfig
<1>7. (\A r \in Requests : RequestOK(rq[r]))'
  BY <1>1, <1>2, <1>3, SameConfig DEF ClientInv
<1>8. (\A c \in Conns : ConnectionOK(conn[c]))'
  BY <1>2, <1>4, <1>5, SameConfig DEF ClientInv
<1>9. \A r \in Requests : rq'[r].conn # None =>
         /\ rq'[r] = rq[r] /\ rq[r].conn \in Conns /\ conn'[rq[r].conn] = conn[rq[r].conn]
  <2> SUFFICES ASSUME NEW r \in Requests, rq'[r].conn # None
               PROVE  /\ rq'[r] = rq[r] /\ rq[r].conn \in Conns /\ conn'[rq[r].conn] = conn[rq[r].conn]
    OBVIOUS
  <2>1. r \notin live /\ rq'[r] = rq[r] /\ rq[r].conn \in Conns
    BY <1>1, <1>3 DEF ClientInv, Exchanges
  <2>2. \A s \in live : rq[s].conn # rq[r].conn
    BY <2>1 DEF ClientInv, HandsOK, live
  <2> QED BY <1>4, <2>1, <2>2
<1>10. (\A r \in Requests : rq[r].conn # None => Carries(rq[r], conn[rq[r].conn]))'
  BY <1>9 DEF ClientInv
<1>11. HandsOK'
  <2>1. \A s, t \in Requests : rq'[s].conn = rq'[t].conn /\ rq'[s].conn # None => s = t
    BY <1>9 DEF ClientInv, HandsOK
  <2>2. ASSUME NEW c \in Conns, conn'[c].st = "open"
        PROVE  Idle(c)' \/ \E s \in Requests : rq'[s].conn = c
    <3>1. conn[c].st = "open" /\ ~ \E r \in live : rq[r].conn = c
      BY <1>4, <1>5, <2>2
    <3>2. Idle(c) \/ \E s \in Requests : rq[s].conn = c
      BY <3>1 DEF ClientInv, HandsOK
    <3>3. \A s \in Requests : rq[s].conn = c => rq'[s].conn = c
      BY <1>3, <3>1
    <3>4. Idle(c) => Idle(c)'
      BY <1>2 DEF Idle
    <3> QED BY <3>2, <3>3, <3>4
  <2> QED BY <2>1, <2>2 DEF HandsOK
<1>12. PoolOK'
  <2>1. \A x \in DOMAIN pool : \A c \in Range(pool[x]) : c \in Conns /\ Idle(c)
    BY DEF ClientInv, PoolOK, Range, Idle
  <2>2. \A x \in DOMAIN pool : \A c \in Range(pool[x]) : conn'[c] = conn[c]
    BY <1>4, <1>5, <2>1
  <2>3. \A x \in DOMAIN pool : \A c \in Range(pool[x]) : \A r \in Requests : rq'[r].conn # c
    <3>1. \A x \in DOMAIN pool : \A c \in Range(pool[x]) : c # None /\ \A r \in Requests : rq[r].conn # c
      BY <2>1, ClientAssumption DEF ClientInv, PoolOK
    <3> QED BY <1>1, <1>3, <3>1
  <2> QED BY <1>2, <2>2, <2>3, SameConfig DEF ClientInv, PoolOK
<1>13. IpOK'
  BY <1>2 DEF ClientInv, IpOK
<1> QED BY <1>6, <1>7, <1>8, <1>10, <1>11, <1>12, <1>13 DEF ClientInv

\* Bytes and body frames pass over a connection; it stays what it is.
LEMMA WireOK ==
    ASSUME NEW k, ConnectionOK(k), NEW j \in Connections,
           j.st = k.st, j.key = k.key, j.to = k.to, j.source = k.source, j.via = k.via, j.ip = k.ip,
           j.failed = k.failed, j.control = k.control \/ k.to.scheme = "https"
    PROVE  ConnectionOK(j)
  BY DEF ConnectionOK

\* The request goes on over the connection it owns.
LEMMA ExchangeOK ==
    ASSUME NEW p, RequestOK(p), p.pc \in Owning, NEW q \in Exchanges, q.pc \in Owning,
           q.conn = p.conn, q.url = p.url, q.key = p.key, q.result = p.result, q.pc = "head" => q.got = 0,
           q.pc \in {"head", "body"} => Extras(q)
    PROVE  RequestOK(q)
<1>1. None # "ok" /\ p.pc # "done"
  BY ClientAssumption DEF Results, Owning
<1> QED BY <1>1 DEF RequestOK, Owning

\* A connection changes by itself: it stays where it is, and what its request has
\* counted stands.
LEMMA ConnStep ==
    ASSUME ClientInv, UNCHANGED <<cfg, ipIndex, pool>>, rq' = rq, NEW d \in Conns, NEW k, ConnectionOK(k),
           k.st = conn[d].st, k.undrained = conn[d].undrained, k.key = conn[d].key,
           \A r \in Requests : rq[r].conn = d => Carries(rq[r], k),
           conn' = [conn EXCEPT ![d] = k]
    PROVE  ClientInv'
<1>1. k \in Connections
  BY DEF ConnectionOK
<1>2. conn'[d] = k /\ \A c \in Conns : c # d => conn'[c] = conn[c]
  BY DEF ClientInv
<1>3. \A c \in Conns : conn'[c].st = conn[c].st /\ conn'[c].undrained = conn[c].undrained /\ conn'[c].key = conn[c].key
  BY <1>2
<1>4. (rq \in [Requests -> Exchanges] /\ conn \in [Conns -> Connections])'
  BY <1>1, SameConfig DEF ClientInv
<1>5. (\A r \in Requests : RequestOK(rq[r]))' /\ (\A c \in Conns : ConnectionOK(conn[c]))'
  BY <1>2, SameConfig DEF ClientInv
<1>6. (\A r \in Requests : rq[r].conn # None => Carries(rq[r], conn[rq[r].conn]))'
  <2> SUFFICES ASSUME NEW r \in Requests, rq[r].conn # None
               PROVE  Carries(rq[r], conn'[rq[r].conn])
    OBVIOUS
  <2>1. rq[r].conn \in Conns /\ Carries(rq[r], conn[rq[r].conn])
    BY DEF ClientInv, Exchanges
  <2> QED BY <1>2, <2>1
<1>7. \A c \in Conns : Idle(c)' <=> Idle(c)
  BY DEF Idle
<1>8. HandsOK'
  BY <1>3, <1>7 DEF ClientInv, HandsOK
<1>9. PoolOK'
  <2>1. \A x \in DOMAIN pool : \A c \in Range(pool[x]) : c \in Conns
    BY DEF ClientInv, PoolOK, Range
  <2> QED BY <1>3, <2>1, SameConfig DEF ClientInv, PoolOK
<1>10. IpOK'
  BY DEF ClientInv, IpOK
<1> QED BY <1>4, <1>5, <1>6, <1>8, <1>9, <1>10 DEF ClientInv

\* The server closes a connection: a request that waits for a response on it will
\* not get one.
LEMMA PeerStep ==
    ASSUME ClientInv, NEW d \in Conns, PeerCloses(d)
    PROVE  ClientInv'
<1> DEFINE k == [conn[d] EXCEPT !.alive = FALSE]
<1>1. UNCHANGED <<cfg, ipIndex, pool>> /\ rq' = rq /\ conn' = [conn EXCEPT ![d] = k]
  BY DEF PeerCloses
<1>2. conn[d] \in Connections /\ ConnectionOK(conn[d])
  BY DEF ClientInv
<1>3. /\ k \in Connections /\ k.alive = FALSE /\ k.st = conn[d].st /\ k.key = conn[d].key /\ k.to = conn[d].to
      /\ k.source = conn[d].source /\ k.via = conn[d].via /\ k.ip = conn[d].ip /\ k.failed = conn[d].failed
      /\ k.undrained = conn[d].undrained /\ k.control = conn[d].control
      /\ k.written = conn[d].written /\ k.read = conn[d].read
  BY <1>2 DEF Connections
<1> HIDE DEF k
<1>4. ConnectionOK(k)
  BY <1>2, <1>3, WireOK
<1>5. \A r \in Requests : rq[r].conn = d => Carries(rq[r], k)
  <2> SUFFICES ASSUME NEW r \in Requests, rq[r].conn = d PROVE Carries(rq[r], k)
    OBVIOUS
  <2>1. Carries(rq[r], conn[d])
    BY ClientAssumption DEF ClientInv
  <2> QED BY <1>3, <2>1 DEF Carries
<1> QED BY <1>1, <1>3, <1>4, <1>5, ConnStep

-----------------------------------------------------------------------------
(* The steps of the clients.                                                *)

\* A step of request r alone, which is under way and is not abandoned.
Moves(r) ==
    /\ \A s \in Requests : s # r => rq'[s] = rq[s]
    /\ rq[r].pc \notin {"idle", "done"} /\ rq'[r].pc # "idle" /\ rq'[r].result # "cancelled"

LEMMA FailStep ==
    ASSUME ClientInv, NEW r \in Requests, NEW why \in Errors \ {"cancelled"}, Fail(r, why),
           rq[r].pc \notin {"idle", "done"}
    PROVE  ClientInv' /\ Moves(r)
<1> DEFINE q == Settled(Fresh, why)
           k == Closed(rq[r].conn, IF why = "io" THEN 1 ELSE 0)
<1>1. RequestOK(q) /\ q.conn = None /\ q.pc = "done" /\ q.result = why
  BY OverOK
<1>2. rq' = [rq EXCEPT ![r] = q]
  BY DEF Fail
<1>3. conn' = IF rq[r].conn = None THEN conn ELSE [conn EXCEPT ![rq[r].conn] = k]
  BY DEF Fail
<1>4. UNCHANGED <<cfg, ipIndex, pool>>
  BY DEF Fail
<1> HIDE DEF q
<1>5. rq[r].conn # None => ConnectionOK(k) /\ k.st = "dropped"
  <2> SUFFICES ASSUME rq[r].conn # None
               PROVE  ConnectionOK(k) /\ k.st = "dropped"
    OBVIOUS
  <2>1. rq[r].conn \in Conns
    BY DEF ClientInv, Exchanges
  <2>2. ConnectionOK(conn[rq[r].conn]) /\ conn[rq[r].conn].st # "dropped"
    BY <2>1 DEF ClientInv, Carries
  <2> QED BY <2>1, <2>2, ClosedOK
<1> HIDE DEF k
<1>6. IpOK'
  BY <1>4 DEF ClientInv, IpOK
<1>7. ClientInv'
  BY <1>1, <1>2, <1>3, <1>4, <1>5, <1>6, DropStep
<1>8. Moves(r)
  BY <1>1, <1>2 DEF Moves, ClientInv
<1> QED BY <1>7, <1>8

LEMMA HopStep ==
    ASSUME ClientInv, NEW r \in Requests, Hop(r)
    PROVE  ClientInv' /\ Moves(r)
<1> DEFINE p == rq[r]
           u == p.url
           key == RouteKey(u)
           mapped == IF proxy_for(u) = None THEN MappedIp(u.host) ELSE None
<1>1. p \in Exchanges /\ RequestOK(p) /\ p.pc = "hop" /\ ~Refused(u)
  BY DEF Hop, Reached, ClientInv
<1>2. u \in Urls /\ p.conn = None /\ p.result = None /\ None # "ok" /\ None # "cancelled"
  BY <1>1, ClientAssumption DEF RequestOK, Owning, Results, Errors
<1>3. key \in RouteKeys /\ key = KeyFrom(u, key.source_ip)
  BY <1>1, <1>2, KeyType DEF ClientInv
<1>4. UNCHANGED <<cfg, conn>> /\ AdvanceIp
  BY DEF Hop
<1>5. IpOK'
  BY <1>4, NextIp DEF ClientInv
<1>6. /\ mapped \in Ips \cup {None}
      /\ mapped # None => mapped \notin cfg.blacklist_ips /\ mapped \in Addresses(u)
      /\ mapped = None => proxy_for(u) # None \/ MappedIp(u.host) = None
  <2>1. mapped # None => mapped = MappedIp(u.host) /\ proxy_for(u) = None
    OBVIOUS
  <2>2. MappedIp(u.host) \in Ips \cup {None}
    BY DEF MappedIp
  <2>3. mapped # None => mapped \notin cfg.blacklist_ips
    BY <1>1, <2>1 DEF Refused, check_ip_blacklist
  <2>4. mapped # None => mapped \in Addresses(u)
    BY <2>1 DEF Addresses, FixedIp
  <2> QED BY <2>2, <2>3, <2>4
<1>7. CASE key \in DOMAIN pool /\ pool[key] # <<>> /\ pool' = [pool EXCEPT ![key] = Front(@)]
           /\ rq' = [rq EXCEPT ![r] = [@ EXCEPT !.pc = "send", !.key = key, !.conn = Last(pool[key])]]
  <2> DEFINE q == [p EXCEPT !.pc = "send", !.key = key, !.conn = Last(pool[key])]
  <2>1. Last(pool[key]) \in Conns
    BY <1>7, FrontFacts DEF ClientInv, PoolOK
  <2> HIDE DEF key
  <2>2. q \in Exchanges
    BY <1>1, <1>3, <2>1, FieldTypes
  <2>3. q.pc = "send" /\ q.key = key /\ q.conn = Last(pool[key]) /\ q.url = u /\ q.result = p.result
    BY <1>1 DEF Exchanges
  <2>4. rq' = [rq EXCEPT ![r] = q]
    BY <1>7
  <2> HIDE DEF q
  <2>5. RequestOK(q)
    BY <1>2, <1>3, <2>1, <2>2, <2>3, ClientAssumption DEF RequestOK, Owning
  <2>6. ClientInv'
    BY <1>2, <1>4, <1>5, <1>7, <2>3, <2>4, <2>5, TakeStep
  <2>7. Moves(r)
    BY <1>1, <1>2, <2>3, <2>4 DEF Moves, ClientInv
  <2> QED BY <2>6, <2>7
<1>8. CASE rq' = [rq EXCEPT ![r] = [@ EXCEPT !.pc = IF mapped = None THEN "dns" ELSE "tcp",
                                            !.key = key, !.ip = mapped, !.conn = None]]
           /\ UNCHANGED pool
  <2> DEFINE pc == IF mapped = None THEN "dns" ELSE "tcp"
             q == [p EXCEPT !.pc = pc, !.key = key, !.ip = mapped, !.conn = None]
  <2>1. /\ pc \in {"dns", "tcp"}
        /\ pc = "tcp" => mapped \notin cfg.blacklist_ips /\ mapped \in Addresses(u)
        /\ pc = "dns" => proxy_for(u) # None \/ MappedIp(u.host) = None
    BY <1>6
  <2>2. rq' = [rq EXCEPT ![r] = q]
    BY <1>8
  <2> HIDE DEF key, mapped, pc
  <2>3. q \in Exchanges
    BY <1>1, <1>3, <1>6, <2>1, FieldTypes DEF Awaits
  <2>4. q.pc = pc /\ q.key = key /\ q.ip = mapped /\ q.conn = None /\ q.url = u /\ q.result = p.result
    BY <1>1 DEF Exchanges
  <2> HIDE DEF q
  <2>5. RequestOK(q)
    BY <1>2, <1>3, <2>1, <2>3, <2>4 DEF RequestOK, Owning
  <2>6. ClientInv'
    BY <1>2, <1>4, <1>5, <1>8, <2>2, <2>4, <2>5, DropStep
  <2>7. Moves(r)
    BY <1>1, <1>2, <2>1, <2>2, <2>4 DEF Moves, ClientInv
  <2> QED BY <2>6, <2>7
<1> QED BY <1>7, <1>8 DEF Hop

LEMMA DnsStep ==
    ASSUME ClientInv, NEW r \in Requests, DnsAnswer(r)
    PROVE  ClientInv' /\ Moves(r)
<1> DEFINE p == rq[r]
<1>1. p \in Exchanges /\ RequestOK(p) /\ p.pc = "dns"
  BY DEF DnsAnswer, Reached, ClientInv
<1>2. p.conn = None /\ p.result = None /\ None # "ok" /\ None # "cancelled"
  BY <1>1, ClientAssumption DEF RequestOK, Owning, Results, Errors
<1>3. CASE \E why \in {"dns", "blocked"} : Fail(r, why)
  BY <1>1, <1>3, FailStep DEF Errors
<1> DEFINE name == IF p.key.proxy # None THEN p.key.proxy ELSE p.url.host
<1>4. ASSUME NEW ip \in Lookup(name), ~check_ip_blacklist(ip), UNCHANGED <<cfg, ipIndex, pool, conn>>,
             rq' = [rq EXCEPT ![r] = [@ EXCEPT !.pc = "tcp", !.ip = ip]]
      PROVE  ClientInv' /\ Moves(r)
  <2> DEFINE q == [p EXCEPT !.pc = "tcp", !.ip = ip]
  <2>0. ip \in Ips /\ ip \in Addresses(p.url)
    <3>1. p.key.proxy = proxy_for(p.url) /\ (proxy_for(p.url) # None \/ MappedIp(p.url.host) = None)
      BY <1>1 DEF RequestOK, KeyFrom
    <3>2. CASE proxy_for(p.url) # None
      BY <3>1, <3>2 DEF Addresses, Lookup
    <3>3. CASE proxy_for(p.url) = None
      <4>1. name = p.url.host /\ MappedIp(p.url.host) = None
        BY <3>1, <3>3
      <4>2. IsLiteral(p.url.host) => ip = p.url.host[1]
        BY <4>1 DEF Lookup
      <4> QED BY <3>3, <4>1, <4>2 DEF Addresses, FixedIp, Lookup
    <3> QED BY <3>2, <3>3
  <2>1. q \in Exchanges
    BY <1>1, <2>0, FieldTypes DEF Awaits
  <2>2. q.pc = "tcp" /\ q.key = p.key /\ q.ip = ip /\ q.conn = None /\ q.url = p.url /\ q.result = None
    BY <1>1, <1>2 DEF Exchanges
  <2>3. rq' = [rq EXCEPT ![r] = q]
    BY <1>4
  <2> HIDE DEF q
  <2>4. RequestOK(q)
    BY <1>1, <1>2, <1>4, <2>0, <2>1, <2>2 DEF RequestOK, Owning, check_ip_blacklist
  <2>5. IpOK'
    BY <1>4 DEF ClientInv, IpOK
  <2>6. ClientInv'
    BY <1>2, <1>4, <2>2, <2>3, <2>4, <2>5, DropStep
  <2>7. Moves(r)
    BY <1>1, <1>2, <2>2, <2>3 DEF Moves, ClientInv
  <2> QED BY <2>6, <2>7
<1> QED BY <1>3, <1>4 DEF DnsAnswer

LEMMA ConnectStep ==
    ASSUME ClientInv, NEW r \in Requests, Connect(r)
    PROVE  ClientInv' /\ Moves(r)
<1> DEFINE p == rq[r]
<1>1. p \in Exchanges /\ RequestOK(p) /\ p.pc = "tcp"
  BY DEF Connect, Reached, ClientInv
<1>2. /\ p.conn = None /\ p.result = None /\ None # "ok" /\ None # "cancelled"
      /\ p.key \in RouteKeys /\ p.key = KeyFrom(p.url, p.key.source_ip) /\ p.url \in Urls
      /\ p.ip \notin cfg.blacklist_ips /\ p.ip \in Addresses(p.url)
  BY <1>1, ClientAssumption DEF RequestOK, Owning, Results, Errors
<1>3. CASE Fail(r, "connect")
  BY <1>1, <1>3, FailStep DEF Errors
<1>4. ASSUME NEW c \in Conns, conn[c].st = "unused", UNCHANGED <<cfg, ipIndex, pool>>,
             conn' = [conn EXCEPT ![c] = [NoConn EXCEPT !.st = "open", !.alive = TRUE,
                                !.ip = p.ip, !.source = p.key.source_ip, !.via = p.key.proxy,
                                !.to = p.url, !.key = p.key]],
             rq' = [rq EXCEPT ![r] = [@ EXCEPT !.conn = c,
                                        !.pc = IF Tunnelled(r) THEN "tunnel" ELSE "handshake"]]
      PROVE  ClientInv' /\ Moves(r)
  <2> DEFINE pc == IF Tunnelled(r) THEN "tunnel" ELSE "handshake"
             q == [p EXCEPT !.conn = c, !.pc = pc]
             k1 == [NoConn EXCEPT !.st = "open", !.alive = TRUE]
             k2 == [k1 EXCEPT !.ip = p.ip, !.source = p.key.source_ip]
             k3 == [k2 EXCEPT !.via = p.key.proxy, !.to = p.url]
             k == [k3 EXCEPT !.key = p.key]
  <2>1. pc \in {"tunnel", "handshake"}
    OBVIOUS
  <2>2. rq' = [rq EXCEPT ![r] = q]
    BY <1>4
  <2>3. conn' = [conn EXCEPT ![c] = k]
    BY <1>4, Zenon
  <2> HIDE DEF pc
  <2>4. q \in Exchanges
    BY <1>1, <2>1, FieldTypes DEF Awaits
  <2>5. q.pc = pc /\ q.conn = c /\ q.key = p.key /\ q.url = p.url /\ q.result = p.result
    BY <1>1 DEF Exchanges
  <2> HIDE DEF q
  <2>6. RequestOK(q)
    BY <1>2, <2>1, <2>4, <2>5, ClientAssumption DEF RequestOK, Owning
  <2>7. /\ p.ip \in Ips \cup {None} /\ p.key.source_ip \in Ips \cup {None}
        /\ p.key.proxy \in {None, cfg.http_proxy, cfg.https_proxy}
    BY <1>1, <1>2 DEF Exchanges, RouteKeys
  <2>8. k1 \in Connections /\ k1.st = "open" /\ k1.failed = 0 /\ k1.control = 0
    BY DEF NoConn, Connections
  <2> HIDE DEF k1
  <2>9. /\ k2 \in Connections /\ k2.st = "open" /\ k2.failed = 0 /\ k2.control = 0 /\ k2.ip = p.ip
        /\ k2.source = p.key.source_ip
    BY <2>7, <2>8 DEF Connections
  <2> HIDE DEF k2
  <2>10. /\ k3 \in Connections /\ k3.st = "open" /\ k3.failed = 0 /\ k3.control = 0 /\ k3.ip = p.ip
         /\ k3.source = p.key.source_ip /\ k3.via = p.key.proxy /\ k3.to = p.url
    BY <1>2, <2>7, <2>9 DEF Connections
  <2> HIDE DEF k3
  <2>11. /\ k \in Connections /\ k.st = "open" /\ k.failed = 0 /\ k.control = 0 /\ k.ip = p.ip
         /\ k.source = p.key.source_ip /\ k.via = p.key.proxy /\ k.to = p.url /\ k.key = p.key
    BY <1>2, <2>10 DEF Connections
  <2> HIDE DEF k
  <2>12. ConnectionOK(k)
    BY <1>2, <2>11 DEF ConnectionOK
  <2>13. ClientInv'
    <3>1. q.conn = c /\ q.pc \in {"tunnel", "handshake"} /\ k.st = "open" /\ k.key = q.key /\ rq[r].conn = None
      BY <1>2, <2>1, <2>5, <2>11
    <3>2. conn[c].st = "unused" /\ UNCHANGED <<cfg, ipIndex, pool>>
      BY <1>4
    <3> QED BY ONLY ClientInv, r \in Requests, c \in Conns, <2>2, <2>3, <2>6, <2>12, <3>1, <3>2, OpenStep
  <2>14. Moves(r)
    BY <1>1, <1>2, <2>1, <2>2, <2>5 DEF Moves, ClientInv
  <2> QED BY <2>13, <2>14
<1> QED BY <1>3, <1>4 DEF Connect

\* What a request under way on a connection starts a step with.
LEMMA OwnedFacts ==
    ASSUME ClientInv, NEW r \in Requests, rq[r].pc \in Owning
    PROVE  /\ rq[r] \in Exchanges /\ RequestOK(rq[r]) /\ rq[r].conn \in Conns /\ rq[r].conn # None
           /\ rq[r].result = None /\ None # "ok" /\ None # "cancelled"
           /\ conn[rq[r].conn] \in Connections /\ ConnectionOK(conn[rq[r].conn])
           /\ Carries(rq[r], conn[rq[r].conn]) /\ conn[rq[r].conn].st = "open"
           /\ conn[rq[r].conn].to.scheme = rq[r].url.scheme
<1>1. rq[r] \in Exchanges /\ RequestOK(rq[r])
  BY DEF ClientInv
<1>2. rq[r].conn # None /\ rq[r].result = None /\ rq[r].conn \in Conns
  BY <1>1 DEF RequestOK, Exchanges, Owning
<1>3. None # "ok" /\ None # "cancelled"
  BY ClientAssumption DEF Results, Errors
<1>4. Carries(rq[r], conn[rq[r].conn]) /\ ConnectionOK(conn[rq[r].conn])
  BY <1>2 DEF ClientInv
<1>5. conn[rq[r].conn].to.scheme = rq[r].url.scheme
  <2>1. rq[r].key = KeyFrom(rq[r].url, rq[r].key.source_ip)
    BY <1>1 DEF RequestOK
  <2>2. rq[r].key = KeyFrom(conn[rq[r].conn].to, conn[rq[r].conn].source)
    BY <1>4 DEF Carries, ConnectionOK
  <2> QED BY <2>1, <2>2 DEF KeyFrom
<1> QED BY <1>1, <1>2, <1>3, <1>4, <1>5 DEF ClientInv, Carries

\* What passes over a connection changes its counters only, and over TLS what its
\* task has still to move.
SameConn(j, k) ==
    /\ j \in Connections /\ j.st = k.st /\ j.key = k.key /\ j.to = k.to /\ j.source = k.source
    /\ j.via = k.via /\ j.ip = k.ip /\ j.failed = k.failed /\ j.alive = k.alive
    /\ j.control = k.control \/ k.to.scheme = "https"

\* The counters of a connection.
LEMMA ExchangedFacts ==
    ASSUME NEW k \in Connections, NEW w \in Nat, NEW n \in Nat
    PROVE  /\ SameConn(Exchanged(k, w, n), k) /\ Exchanged(k, w, n).undrained = k.undrained
           /\ Exchanged(k, w, n).written = k.written + w /\ Exchanged(k, w, n).read = k.read + n
<1> DEFINE a == k.written + w
           b == k.read + n
           i == [k EXCEPT !.written = a, !.read = b]
<1>1. a \in Nat /\ b \in Nat
  BY DEF Connections
<1>2. Exchanged(k, w, n) = i
  BY DEF Exchanged
<1> HIDE DEF a, b
<1>3. i \in Connections
  BY <1>1 DEF Connections
<1>4. /\ i.st = k.st /\ i.key = k.key /\ i.to = k.to /\ i.source = k.source
      /\ i.via = k.via /\ i.ip = k.ip /\ i.failed = k.failed /\ i.alive = k.alive
      /\ i.control = k.control /\ i.undrained = k.undrained /\ i.written = a /\ i.read = b
  BY DEF Connections
<1> HIDE DEF i
<1> QED BY <1>2, <1>3, <1>4 DEF SameConn, a, b

LEMMA DrainedFacts ==
    ASSUME NEW k, NEW j, SameConn(j, k), NEW f \in Nat
    PROVE  /\ SameConn([j EXCEPT !.undrained = f], k)
           /\ [j EXCEPT !.undrained = f].written = j.written /\ [j EXCEPT !.undrained = f].read = j.read
<1> DEFINE i == [j EXCEPT !.undrained = f]
<1>1. j \in Connections
  BY DEF SameConn
<1>2. i \in Connections
  BY <1>1 DEF Connections
<1>3. /\ i.st = j.st /\ i.key = j.key /\ i.to = j.to /\ i.source = j.source
      /\ i.via = j.via /\ i.ip = j.ip /\ i.failed = j.failed /\ i.alive = j.alive /\ i.control = j.control
      /\ i.written = j.written /\ i.read = j.read
  BY <1>1 DEF Connections
<1> HIDE DEF i
<1>4. SameConn(i, k) /\ i.written = j.written /\ i.read = j.read
  BY <1>2, <1>3 DEF SameConn
<1> QED BY <1>4 DEF i

\* Over TLS the task of the connection gets, or has moved, parts of its own.
LEMMA ControlFacts ==
    ASSUME NEW k, NEW j, SameConn(j, k), k.to.scheme = "https", NEW m \in Nat
    PROVE  LET i == [j EXCEPT !.control = m]
           IN  SameConn(i, k) /\ i.undrained = j.undrained /\ i.written = j.written /\ i.read = j.read
<1> DEFINE i == [j EXCEPT !.control = m]
<1>1. j \in Connections
  BY DEF SameConn
<1>2. i \in Connections
  BY <1>1 DEF Connections
<1>3. /\ i.st = j.st /\ i.key = j.key /\ i.to = j.to /\ i.source = j.source
      /\ i.via = j.via /\ i.ip = j.ip /\ i.failed = j.failed /\ i.alive = j.alive
      /\ i.undrained = j.undrained /\ i.written = j.written /\ i.read = j.read
  BY <1>1 DEF Connections
<1> HIDE DEF i
<1>4. SameConn(i, k)
  BY <1>2, <1>3 DEF SameConn
<1> QED BY <1>3, <1>4 DEF i

\* A request goes on over its connection.
LEMMA GoOn ==
    ASSUME ClientInv, UNCHANGED <<cfg, ipIndex, pool>>, NEW r \in Requests, rq[r].pc \in Owning,
           NEW q \in Exchanges, q.pc \in Owning, q.conn = rq[r].conn, q.url = rq[r].url, q.key = rq[r].key,
           q.result = rq[r].result, q.pc = "head" => q.got = 0, q.pc \in {"head", "body"} => Extras(q),
           NEW k, SameConn(k, conn[rq[r].conn]),
           (q.pc = "head" /\ k.alive) \/ q.pc = "body" =>
               k.written = q.sent0 + q.wrote + q.extra_sent /\ k.read = q.recv0 + q.got + q.extra_recv,
           rq' = [rq EXCEPT ![r] = q], conn' = [conn EXCEPT ![rq[r].conn] = k]
    PROVE  ClientInv' /\ Moves(r)
<1>1. /\ RequestOK(rq[r]) /\ rq[r].conn # None /\ rq[r].result = None /\ None # "cancelled"
      /\ ConnectionOK(conn[rq[r].conn]) /\ Carries(rq[r], conn[rq[r].conn])
  BY OwnedFacts
<1>2. RequestOK(q)
  BY <1>1, ExchangeOK
<1>3. ConnectionOK(k)
  BY <1>1, WireOK DEF SameConn
<1>4. Carries(q, k)
  BY <1>1 DEF Carries, SameConn
<1>5. ClientInv'
  BY <1>1, <1>2, <1>3, <1>4, UseStep
<1>6. rq'[r] = q /\ \A s \in Requests : s # r => rq'[s] = rq[s]
  BY DEF ClientInv
<1>7. Moves(r)
  BY <1>1, <1>6 DEF Moves, Owning
<1> QED BY <1>5, <1>7

LEMMA TunnelStep ==
    ASSUME ClientInv, NEW r \in Requests, EstablishTunnel(r) \/ Handshake(r)
    PROVE  ClientInv' /\ Moves(r)
<1> DEFINE p == rq[r]
           c == p.conn
<1>1. p.pc \in {"tunnel", "handshake"}
  BY DEF EstablishTunnel, Handshake, Reached
<1>2. p.pc \in Owning
  BY <1>1 DEF Owning
<1>3. p \in Exchanges /\ conn[c] \in Connections /\ c \in Conns
  BY <1>2, OwnedFacts
<1>4. CASE \E why \in {"connect", "tls"} : Fail(r, why)
  BY <1>1, <1>4, FailStep DEF Errors
<1>5. ASSUME NEW pc \in {"handshake", "send"}, NEW k, SameConn(k, conn[c]), UNCHANGED <<cfg, ipIndex, pool>>,
             rq' = [rq EXCEPT ![r].pc = pc], conn' = [conn EXCEPT ![c] = k]
      PROVE  ClientInv' /\ Moves(r)
  <2> DEFINE q == [p EXCEPT !.pc = pc]
  <2>1. rq' = [rq EXCEPT ![r] = q]
    BY <1>5
  <2>2. /\ q \in Exchanges /\ q.pc = pc /\ q.conn = c /\ q.url = p.url /\ q.key = p.key /\ q.result = p.result
    BY <1>3 DEF Exchanges, Awaits
  <2> HIDE DEF q
  <2>3. q.pc \in Owning /\ q.pc \notin {"head", "body"}
    BY <2>2 DEF Owning
  <2> QED BY <1>2, <1>5, <2>1, <2>2, <2>3, GoOn
<1>6. SameConn(conn[c], conn[c]) /\ conn = [conn EXCEPT ![c] = conn[c]]
  BY <1>3 DEF SameConn, ClientInv
<1>7. SameConn(Exchanged(conn[c], 1, 1), conn[c])
  BY <1>3, ExchangedFacts
<1>8. CASE UNCHANGED <<cfg, ipIndex, pool>> /\ conn' \in {conn, [conn EXCEPT ![c] = Exchanged(@, 1, 1)]}
           /\ \E pc \in {"handshake", "send"} : rq' = [rq EXCEPT ![r].pc = pc]
  <2>1. PICK k : SameConn(k, conn[c]) /\ conn' = [conn EXCEPT ![c] = k]
    BY <1>6, <1>7, <1>8
  <2> QED BY <1>5, <1>8, <2>1
<1>9. CASE /\ UNCHANGED <<cfg, ipIndex, pool>> /\ p.url.scheme = "https"
           /\ conn' = [conn EXCEPT ![c] = [Exchanged(@, 1, 1) EXCEPT !.control = MaxControl]]
           /\ rq' = [rq EXCEPT ![r].pc = "send"]
  <2> DEFINE j == Exchanged(conn[c], 1, 1)
             k == [j EXCEPT !.control = MaxControl]
  <2>1. conn[c].to.scheme = "https" /\ MaxControl \in Nat
    BY <1>2, <1>9, OwnedFacts, ClientAssumption
  <2>2. SameConn(j, conn[c]) /\ conn' = [conn EXCEPT ![c] = k]
    BY <1>7, <1>9
  <2> HIDE DEF j
  <2>3. SameConn(k, conn[c])
    BY <2>1, <2>2, ControlFacts
  <2> HIDE DEF k
  <2> QED BY <1>5, <1>9, <2>2, <2>3
<1> QED BY <1>4, <1>8, <1>9 DEF EstablishTunnel, Handshake

LEMMA SendStep ==
    ASSUME ClientInv, NEW r \in Requests, SendRequest(r)
    PROVE  ClientInv' /\ Moves(r)
<1> DEFINE p == rq[r]
           c == p.conn
           w == IF conn[c].alive THEN 1 + p.body ELSE 0
           k == Exchanged(conn[c], w, 0)
           q1 == [p EXCEPT !.pc = "head", !.sent0 = conn[c].written]
           q2 == [q1 EXCEPT !.recv0 = conn[c].read, !.wrote = 1 + p.body]
           q3 == [q2 EXCEPT !.got = 0, !.extra_sent = 0]
           q == [q3 EXCEPT !.extra_recv = 0]
<1>1. p.pc = "send" /\ p.pc \in Owning
  BY DEF SendRequest, Reached, Owning
<1>2. /\ p \in Exchanges /\ conn[c] \in Connections /\ c \in Conns
  BY <1>1, OwnedFacts
<1>3. conn[c].written \in Nat /\ conn[c].read \in Nat /\ p.body \in Nat /\ w \in Nat
  BY <1>2 DEF Exchanges, Connections
<1>4. UNCHANGED <<cfg, ipIndex, pool>> /\ conn' = [conn EXCEPT ![c] = k]
  BY DEF SendRequest
<1>5. rq' = [rq EXCEPT ![r] = q]
  BY Zenon DEF SendRequest
<1>6. q1 \in Exchanges /\ q1.pc = "head" /\ q1.sent0 = conn[c].written
      /\ q1.conn = c /\ q1.url = p.url /\ q1.key = p.key /\ q1.result = p.result
  BY <1>2, <1>3 DEF Exchanges, Awaits
<1> HIDE DEF q1
<1>7. q2 \in Exchanges /\ q2.pc = "head" /\ q2.sent0 = conn[c].written /\ q2.recv0 = conn[c].read
      /\ q2.wrote = 1 + p.body /\ q2.conn = c /\ q2.url = p.url /\ q2.key = p.key /\ q2.result = p.result
  <2>1. q2 \in Exchanges
    <3>1. 1 + p.body \in Nat
      BY <1>3
    <3> QED BY <1>3, <1>6, <3>1, FieldTypes
  <2> QED BY <1>6, <2>1 DEF Exchanges
<1> HIDE DEF q2
<1>8. /\ q3 \in Exchanges /\ q3.pc = "head" /\ q3.sent0 = conn[c].written /\ q3.recv0 = conn[c].read
       /\ q3.got = 0 /\ q3.extra_sent = 0
       /\ q3.wrote = 1 + p.body /\ q3.conn = c /\ q3.url = p.url /\ q3.key = p.key /\ q3.result = p.result
  BY <1>7 DEF Exchanges
<1> HIDE DEF q3
<1>9. /\ q \in Exchanges /\ q.pc = "head" /\ q.sent0 = conn[c].written /\ q.recv0 = conn[c].read /\ q.got = 0
      /\ q.extra_sent = 0 /\ q.extra_recv = 0
      /\ q.wrote = 1 + p.body /\ q.conn = c /\ q.url = p.url /\ q.key = p.key /\ q.result = p.result
  BY <1>8 DEF Exchanges
<1> HIDE DEF q
<1>10. /\ SameConn(k, conn[c]) /\ k.written = conn[c].written + w /\ k.read = conn[c].read + 0
      /\ k.alive = conn[c].alive
  <2> HIDE DEF w
  <2>1. SameConn(k, conn[c]) /\ k.written = conn[c].written + w /\ k.read = conn[c].read + 0
    BY <1>2, <1>3, ExchangedFacts
  <2> QED BY <2>1 DEF SameConn
<1> HIDE DEF k
<1>11. k.alive => k.written = q.sent0 + q.wrote + q.extra_sent
  BY <1>3, <1>9, <1>10
<1>12. k.read = q.recv0 + q.got + q.extra_recv
  BY <1>3, <1>9, <1>10
<1>13. q.pc \in Owning /\ Extras(q)
  BY <1>9 DEF Owning, Extras
<1> QED BY <1>1, <1>4, <1>5, <1>9, <1>10, <1>11, <1>12, <1>13, GoOn

LEMMA HeadStep ==
    ASSUME ClientInv, NEW r \in Requests, NEW h \in Responses, ResponseHead(r, h)
    PROVE  ClientInv' /\ Moves(r)
<1> DEFINE p == rq[r]
           c == p.conn
           k == [Exchanged(conn[c], 0, 1) EXCEPT !.undrained = h.frames]
           q1 == [p EXCEPT !.pc = "body", !.got = 1]
           q2 == [q1 EXCEPT !.kept = 0, !.status = h.status]
           q3 == [q2 EXCEPT !.loc = h.loc, !.close = h.close]
           q == [q3 EXCEPT !.cookie = h.cookie]
<1>1. p.pc = "head" /\ p.pc \in Owning /\ conn[c].alive
  BY DEF ResponseHead, Reached, Owning
<1>2. p \in Exchanges /\ conn[c] \in Connections /\ c \in Conns /\ RequestOK(p) /\ Carries(p, conn[c])
  BY <1>1, OwnedFacts
<1>3. h.status \in Nat /\ h.loc \in Urls \cup {None} /\ h.close \in BOOLEAN /\ h.cookie \in BOOLEAN /\ h.frames \in Nat
  BY ClientAssumption
<1>4. /\ conn[c].written = p.sent0 + p.wrote + p.extra_sent /\ conn[c].read = p.recv0 + p.extra_recv
      /\ p.sent0 \in Nat /\ p.recv0 \in Nat /\ p.wrote \in Nat /\ p.extra_sent \in Nat /\ p.extra_recv \in Nat
      /\ Extras(p)
  <2>1. /\ p.got = 0 /\ conn[c].written = p.sent0 + p.wrote + p.extra_sent
        /\ conn[c].read = p.recv0 + p.got + p.extra_recv /\ Extras(p)
    BY <1>1, <1>2 DEF RequestOK, Carries
  <2>2. p.sent0 \in Nat /\ p.recv0 \in Nat /\ p.wrote \in Nat /\ p.extra_sent \in Nat /\ p.extra_recv \in Nat
    BY <1>2 DEF Exchanges
  <2> QED BY <2>1, <2>2
<1>5. UNCHANGED <<cfg, ipIndex, pool>> /\ conn' = [conn EXCEPT ![c] = k]
  BY DEF ResponseHead
<1>6. rq' = [rq EXCEPT ![r] = q]
  BY Zenon DEF ResponseHead
<1>7. /\ q1 \in Exchanges /\ q1.pc = "body" /\ q1.got = 1 /\ q1.sent0 = p.sent0 /\ q1.recv0 = p.recv0
      /\ q1.wrote = p.wrote /\ q1.extra_sent = p.extra_sent /\ q1.extra_recv = p.extra_recv
      /\ q1.conn = c /\ q1.url = p.url /\ q1.key = p.key /\ q1.result = p.result
  BY <1>2 DEF Exchanges, Awaits
<1> HIDE DEF q1
<1>8. /\ q2 \in Exchanges /\ q2.pc = "body" /\ q2.got = 1 /\ q2.sent0 = p.sent0 /\ q2.recv0 = p.recv0
      /\ q2.wrote = p.wrote /\ q2.extra_sent = p.extra_sent /\ q2.extra_recv = p.extra_recv
      /\ q2.conn = c /\ q2.url = p.url /\ q2.key = p.key /\ q2.result = p.result
  <2>1. q2 \in Exchanges
    BY <1>3, <1>7, FieldTypes
  <2> QED BY <1>7, <2>1 DEF Exchanges
<1> HIDE DEF q2
<1>9. /\ q3 \in Exchanges /\ q3.pc = "body" /\ q3.got = 1 /\ q3.sent0 = p.sent0 /\ q3.recv0 = p.recv0
      /\ q3.wrote = p.wrote /\ q3.extra_sent = p.extra_sent /\ q3.extra_recv = p.extra_recv
      /\ q3.conn = c /\ q3.url = p.url /\ q3.key = p.key /\ q3.result = p.result
  <2>1. q3 \in Exchanges
    BY <1>3, <1>8, FieldTypes
  <2> QED BY <1>8, <2>1 DEF Exchanges
<1> HIDE DEF q3
<1>10. /\ q \in Exchanges /\ q.pc = "body" /\ q.got = 1 /\ q.sent0 = p.sent0 /\ q.recv0 = p.recv0
       /\ q.wrote = p.wrote /\ q.extra_sent = p.extra_sent /\ q.extra_recv = p.extra_recv
       /\ q.conn = c /\ q.url = p.url /\ q.key = p.key /\ q.result = p.result
  <2>1. q \in Exchanges
    BY <1>3, <1>9, FieldTypes
  <2> QED BY <1>9, <2>1 DEF Exchanges
<1> HIDE DEF q
<1>11. SameConn(k, conn[c]) /\ k.written = conn[c].written + 0 /\ k.read = conn[c].read + 1
  <2> DEFINE j == Exchanged(conn[c], 0, 1)
  <2>1. SameConn(j, conn[c]) /\ j.written = conn[c].written + 0 /\ j.read = conn[c].read + 1
    BY <1>2, ExchangedFacts
  <2> HIDE DEF j
  <2>2. SameConn([j EXCEPT !.undrained = h.frames], conn[c])
        /\ [j EXCEPT !.undrained = h.frames].written = j.written /\ [j EXCEPT !.undrained = h.frames].read = j.read
    BY <1>3, <2>1, DrainedFacts
  <2> QED BY <2>1, <2>2 DEF j
<1> HIDE DEF k
<1>12. k.written = q.sent0 + q.wrote + q.extra_sent /\ k.read = q.recv0 + q.got + q.extra_recv
  BY <1>4, <1>10, <1>11
<1>13. q.pc \in Owning /\ q.pc # "head" /\ Extras(q)
  BY <1>4, <1>10 DEF Owning, Extras
<1> QED BY <1>1, <1>5, <1>6, <1>10, <1>11, <1>12, <1>13, GoOn

LEMMA FrameStep ==
    ASSUME ClientInv, NEW r \in Requests, BodyFrame(r)
    PROVE  ClientInv' /\ Moves(r)
<1> DEFINE p == rq[r]
           c == p.conn
           k == [Exchanged(conn[c], 0, 1) EXCEPT !.undrained = conn[c].undrained - 1]
           n == IF cfg.discard THEN 0 ELSE Min({p.kept + 1, cfg.cap})
           q == [p EXCEPT !.got = p.got + 1, !.kept = n]
<1>1. p.pc = "body" /\ p.pc \in Owning /\ conn[c].undrained > 0
  BY DEF BodyFrame, Reached, Owning
<1>2. p \in Exchanges /\ conn[c] \in Connections /\ c \in Conns /\ Carries(p, conn[c]) /\ RequestOK(p)
  BY <1>1, OwnedFacts
<1>3. /\ conn[c].written = p.sent0 + p.wrote + p.extra_sent /\ conn[c].read = p.recv0 + p.got + p.extra_recv
      /\ p.sent0 \in Nat /\ p.recv0 \in Nat /\ p.wrote \in Nat /\ p.got \in Nat /\ p.kept \in Nat
      /\ p.extra_sent \in Nat /\ p.extra_recv \in Nat /\ Extras(p)
  BY <1>1, <1>2 DEF Carries, Exchanges, RequestOK
<1>4. n \in Nat
  <2>1. \A a, b \in Nat : Min({a, b}) \in Nat
    BY DEF Min
  <2>2. p.kept + 1 \in Nat /\ cfg.cap \in Nat
    BY <1>3 DEF ClientInv, IpOK
  <2> QED BY <2>1, <2>2
<1>5. UNCHANGED <<cfg, ipIndex, pool>> /\ conn' = [conn EXCEPT ![c] = k]
  BY DEF BodyFrame
<1>6. rq' = [rq EXCEPT ![r] = q]
  BY Zenon DEF BodyFrame
<1> HIDE DEF n
<1>7. /\ q \in Exchanges /\ q.pc = "body" /\ q.got = p.got + 1 /\ q.sent0 = p.sent0 /\ q.recv0 = p.recv0
      /\ q.wrote = p.wrote /\ q.extra_sent = p.extra_sent /\ q.extra_recv = p.extra_recv /\ q.conn = c /\ q.url = p.url /\ q.key = p.key /\ q.result = p.result
  <2>1. q \in Exchanges
    <3>1. p.got + 1 \in Nat
      BY <1>3
    <3> QED BY <1>2, <1>4, <3>1, FieldTypes
  <2> QED BY <1>1, <1>2, <2>1 DEF Exchanges
<1> HIDE DEF q
<1>8. SameConn(k, conn[c]) /\ k.written = conn[c].written + 0 /\ k.read = conn[c].read + 1
  <2>1. conn[c].undrained - 1 \in Nat
    BY <1>1, <1>2 DEF Connections
  <2> DEFINE j == Exchanged(conn[c], 0, 1)
             f == conn[c].undrained - 1
  <2>2. SameConn(j, conn[c]) /\ j.written = conn[c].written + 0 /\ j.read = conn[c].read + 1
    BY <1>2, ExchangedFacts
  <2> HIDE DEF j, f
  <2>3. SameConn([j EXCEPT !.undrained = f], conn[c])
        /\ [j EXCEPT !.undrained = f].written = j.written /\ [j EXCEPT !.undrained = f].read = j.read
    BY <2>1, <2>2, DrainedFacts DEF f
  <2> QED BY <2>2, <2>3 DEF j, f
<1> HIDE DEF k
<1>9. k.written = q.sent0 + q.wrote + q.extra_sent /\ k.read = q.recv0 + q.got + q.extra_recv
  BY <1>3, <1>7, <1>8
<1>10. q.pc \in Owning /\ q.pc # "head" /\ Extras(q)
  BY <1>3, <1>7 DEF Owning, Extras
<1> QED BY <1>1, <1>5, <1>6, <1>7, <1>8, <1>9, <1>10, GoOn

\* The task of a connection moves a part of its own: it is in the counts of the
\* request that was written to the connection, if there is one.
LEMMA TaskStep ==
    ASSUME ClientInv, NEW c \in Conns, ConnTask(c)
    PROVE  ClientInv' /\ ((\E r \in Requests : Moves(r)) \/ rq' = rq)
<1>1. PICK w \in {0, 1} :
         /\ conn' = [conn EXCEPT ![c] = [Exchanged(@, w, 1 - w) EXCEPT !.control = conn[c].control - 1]]
         /\ rq' = [r \in Requests |->
                     IF rq[r].conn = c /\ rq[r].pc \in {"head", "body"}
                     THEN [rq[r] EXCEPT !.extra_sent = @ + w, !.extra_recv = @ + 1 - w] ELSE rq[r]]
  BY DEF ConnTask
<1> DEFINE j == Exchanged(conn[c], w, 1 - w)
           m == conn[c].control - 1
           k == [j EXCEPT !.control = m]
<1>2. /\ UNCHANGED <<cfg, ipIndex, pool>> /\ conn[c].st = "open" /\ conn[c].alive /\ conn[c].control > 0
      /\ conn[c] \in Connections /\ ConnectionOK(conn[c]) /\ c # None
  BY ClientAssumption DEF ConnTask, ClientInv
<1>3. /\ conn[c].written \in Nat /\ conn[c].read \in Nat /\ conn[c].undrained \in Nat
      /\ m \in Nat /\ w \in Nat /\ 1 - w \in Nat /\ conn[c].to.scheme = "https"
  BY <1>2 DEF Connections, ConnectionOK
<1>4. /\ SameConn(j, conn[c]) /\ j.undrained = conn[c].undrained
      /\ j.written = conn[c].written + w /\ j.read = conn[c].read + (1 - w)
  BY <1>2, <1>3, ExchangedFacts
<1>5. conn' = [conn EXCEPT ![c] = k]
  BY <1>1
<1> HIDE DEF j, m
<1>6. /\ SameConn(k, conn[c]) /\ k.undrained = conn[c].undrained
      /\ k.written = conn[c].written + w /\ k.read = conn[c].read + (1 - w)
  BY <1>3, <1>4, ControlFacts
<1> HIDE DEF k
<1>7. CASE \A r \in Requests : rq[r].conn # c
  <2>1. rq' = rq
    BY <1>1, <1>7 DEF ClientInv
  <2>2. ConnectionOK(k)
    BY <1>2, <1>6, WireOK DEF SameConn
  <2>3. k.st = conn[c].st /\ k.key = conn[c].key
    BY <1>6 DEF SameConn
  <2>4. \A r \in Requests : rq[r].conn = c => Carries(rq[r], k)
    BY <1>7
  <2>5. ClientInv'
    BY <1>2, <1>5, <1>6, <2>1, <2>2, <2>3, <2>4, ConnStep
  <2> QED BY <2>1, <2>5
<1>8. ASSUME NEW r \in Requests, rq[r].conn = c
      PROVE  ClientInv' /\ Moves(r)
  <2> DEFINE p == rq[r]
             q1 == [p EXCEPT !.extra_sent = @ + w]
             q2 == [q1 EXCEPT !.extra_recv = @ + 1 - w]
             q == IF p.pc \in {"head", "body"} THEN q2 ELSE p
  <2>1. p.pc \in Owning /\ RequestOK(p) /\ p \in Exchanges
    BY <1>2, <1>8 DEF ClientInv, RequestOK
  <2>2. Carries(p, conn[c]) /\ conn[c].to.scheme = p.url.scheme
    BY <1>8, <2>1, OwnedFacts
  <2>3. rq' = [rq EXCEPT ![r] = q]
    <3>1. \A s \in Requests : rq[s].conn = c => s = r
      BY <1>2, <1>8 DEF ClientInv, HandsOK
    <3>2. q2 = [p EXCEPT !.extra_sent = @ + w, !.extra_recv = @ + 1 - w]
      BY Zenon
    <3> HIDE DEF q2
    <3>3. \A s \in Requests : rq'[s] = IF s = r THEN q ELSE rq[s]
      BY <1>1, <1>8, <3>1, <3>2
    <3>4. rq' = [s \in Requests |-> rq'[s]]
      BY <1>1
    <3> HIDE DEF q
    <3> QED BY <3>3, <3>4 DEF ClientInv
  <2>4. /\ p.sent0 \in Nat /\ p.recv0 \in Nat /\ p.wrote \in Nat /\ p.got \in Nat
        /\ p.extra_sent \in Nat /\ p.extra_recv \in Nat
    BY <2>1 DEF Exchanges
  <2>5. /\ q1 \in Exchanges /\ q1.extra_sent = p.extra_sent + w /\ q1.extra_recv = p.extra_recv
        /\ q1.pc = p.pc /\ q1.conn = p.conn /\ q1.url = p.url /\ q1.key = p.key /\ q1.result = p.result
        /\ q1.sent0 = p.sent0 /\ q1.recv0 = p.recv0 /\ q1.wrote = p.wrote /\ q1.got = p.got
    <3>1. p.extra_sent + w \in Nat
      BY <1>3, <2>4
    <3>2. q1 \in Exchanges
      BY <2>1, <3>1, FieldTypes
    <3> QED BY <2>1, <3>2 DEF Exchanges
  <2> HIDE DEF q1
  <2>6. /\ q2 \in Exchanges /\ q2.extra_sent = p.extra_sent + w /\ q2.extra_recv = p.extra_recv + 1 - w
        /\ q2.pc = p.pc /\ q2.conn = p.conn /\ q2.url = p.url /\ q2.key = p.key /\ q2.result = p.result
        /\ q2.sent0 = p.sent0 /\ q2.recv0 = p.recv0 /\ q2.wrote = p.wrote /\ q2.got = p.got
    <3>1. p.extra_recv + 1 - w \in Nat
      BY <1>3, <2>4
    <3>2. q2 \in Exchanges
      BY <2>5, <3>1, FieldTypes
    <3> QED BY <2>5, <3>2 DEF Exchanges
  <2> HIDE DEF q2
  <2>7. /\ q \in Exchanges /\ q.pc = p.pc /\ q.conn = p.conn /\ q.url = p.url /\ q.key = p.key
        /\ q.result = p.result /\ q.got = p.got
    BY <2>1, <2>6
  <2>8. Extras(q)
    BY <1>3, <2>2, <2>7 DEF Extras
  <2>9. (q.pc = "head" /\ k.alive) \/ q.pc = "body" =>
           k.written = q.sent0 + q.wrote + q.extra_sent /\ k.read = q.recv0 + q.got + q.extra_recv
    <3> SUFFICES ASSUME q.pc \in {"head", "body"}
                 PROVE  k.written = q.sent0 + q.wrote + q.extra_sent /\ k.read = q.recv0 + q.got + q.extra_recv
      OBVIOUS
    <3>1. q = q2 /\ p.pc \in {"head", "body"}
      BY <2>7
    <3>2. conn[c].written = p.sent0 + p.wrote + p.extra_sent /\ conn[c].read = p.recv0 + p.got + p.extra_recv
      BY <1>2, <2>2, <3>1 DEF Carries
    <3> HIDE DEF q
    <3> QED BY <1>3, <1>6, <2>4, <2>6, <3>1, <3>2
  <2>10. q.pc = "head" => q.got = 0
    BY <2>1, <2>7 DEF RequestOK
  <2> HIDE DEF q
  <2> QED BY <1>2, <1>5, <1>6, <1>8, <2>1, <2>3, <2>7, <2>8, <2>9, <2>10, GoOn
<1> QED BY <1>7, <1>8

\* A response the client returns has counted its own bytes.
LEMMA AnsweredOK ==
    ASSUME NEW p \in Exchanges, Extras(p),
           NEW t, t = [p EXCEPT !.conn = None, !.data_sent = p.wrote + p.extra_sent,
                                !.data_received = p.got + p.extra_recv]
    PROVE  LET q == Settled(t, "ok")
           IN  RequestOK(q) /\ q.conn = None /\ q.pc = "done" /\ q.result = "ok"
<1> DEFINE q == Settled(t, "ok")
           a == p.wrote + p.extra_sent
           b == p.got + p.extra_recv
<1>1. /\ t \in Exchanges /\ t.data_sent = a /\ t.data_received = b
      /\ t.wrote = p.wrote /\ t.got = p.got /\ t.url = p.url
      /\ t.extra_sent = p.extra_sent /\ t.extra_recv = p.extra_recv
  <2>1. a \in Int /\ b \in Int
    BY DEF Exchanges
  <2>2. t = [p EXCEPT !.conn = None, !.data_sent = a, !.data_received = b]
    OBVIOUS
  <2> HIDE DEF a, b
  <2> DEFINE t1 == [p EXCEPT !.conn = None, !.data_sent = a]
  <2>3. /\ t1 \in Exchanges /\ t1.data_sent = a /\ t1.wrote = p.wrote /\ t1.got = p.got /\ t1.url = p.url
        /\ t1.extra_sent = p.extra_sent /\ t1.extra_recv = p.extra_recv
    BY <2>1 DEF Exchanges
  <2>4. t = [t1 EXCEPT !.data_received = b]
    BY <2>2
  <2> HIDE DEF t1
  <2>5. t \in Exchanges
    BY <2>1, <2>3, <2>4 DEF Exchanges
  <2>6. /\ t.data_sent = a /\ t.data_received = b /\ t.wrote = p.wrote /\ t.got = p.got /\ t.url = p.url
        /\ t.extra_sent = p.extra_sent /\ t.extra_recv = p.extra_recv
    BY <2>3, <2>4 DEF Exchanges
  <2> QED BY <2>5, <2>6
<1> HIDE DEF a, b
<1>2. q \in Exchanges
  BY <1>1 DEF Settled, Exchanges, Results
<1>3. /\ q.pc = "done" /\ q.result = "ok" /\ q.conn = None
      /\ q.data_sent = a /\ q.data_received = b /\ q.wrote = p.wrote /\ q.got = p.got /\ q.url = p.url
      /\ q.extra_sent = p.extra_sent /\ q.extra_recv = p.extra_recv
  BY <1>1 DEF Settled
<1> HIDE DEF q
<1>4. RequestOK(q)
  BY <1>2, <1>3 DEF RequestOK, Owning, Extras, a, b
<1> QED BY <1>3, <1>4 DEF q

LEMMA HopEndStep ==
    ASSUME ClientInv, NEW r \in Requests, HopEnd(r)
    PROVE  ClientInv' /\ Moves(r)
<1> DEFINE p == rq[r]
           c == p.conn
           a == conn[c].written - p.sent0
           b == conn[c].read - p.recv0
           answered == Settled([p EXCEPT !.conn = None, !.data_sent = a, !.data_received = b], "ok")
           q == IF RedirectTarget(r) = None \/ cfg.max_redirects = 0 THEN answered
                ELSE IF p.hops >= cfg.max_redirects THEN Settled(Fresh, "redirects")
                     ELSE Redirected(p)
<1>1. p.pc = "body" /\ p.pc \in Owning /\ BodyDone(r)
  BY DEF HopEnd, Reached, Owning
<1>2. /\ p \in Exchanges /\ conn[c] \in Connections /\ c \in Conns /\ c # None
      /\ RequestOK(p) /\ ConnectionOK(conn[c]) /\ Carries(p, conn[c])
      /\ conn[c].st = "open" /\ None # "cancelled"
  BY <1>1, OwnedFacts
<1>3. a = p.wrote + p.extra_sent /\ b = p.got + p.extra_recv /\ Extras(p)
  <2>1. /\ conn[c].written = p.sent0 + p.wrote + p.extra_sent /\ conn[c].read = p.recv0 + p.got + p.extra_recv
        /\ Extras(p)
    BY <1>1, <1>2 DEF Carries, RequestOK
  <2>2. /\ p.sent0 \in Nat /\ p.recv0 \in Nat /\ p.wrote \in Nat /\ p.got \in Nat
        /\ p.extra_sent \in Nat /\ p.extra_recv \in Nat
    BY <1>2 DEF Exchanges
  <2> QED BY <2>1, <2>2
<1>4. UNCHANGED <<cfg, ipIndex>> /\ rq' = [rq EXCEPT ![r] = q]
  BY DEF HopEnd
<1>5. RequestOK(answered) /\ answered.conn = None /\ answered.pc = "done" /\ answered.result = "ok"
  <2> DEFINE t == [p EXCEPT !.conn = None, !.data_sent = a, !.data_received = b]
  <2> HIDE DEF a, b
  <2>1. t = [p EXCEPT !.conn = None, !.data_sent = p.wrote + p.extra_sent,
                      !.data_received = p.got + p.extra_recv]
    BY <1>3
  <2> HIDE DEF t
  <2>2. RequestOK(Settled(t, "ok")) /\ Settled(t, "ok").conn = None
        /\ Settled(t, "ok").pc = "done" /\ Settled(t, "ok").result = "ok"
    BY <1>2, <1>3, <2>1, AnsweredOK
  <2> QED BY <2>2 DEF t
<1>6. LET f == Settled(Fresh, "redirects")
      IN  RequestOK(f) /\ f.conn = None /\ f.pc = "done" /\ f.result = "redirects"
  BY OverOK DEF Errors
<1>7. RedirectTarget(r) # None =>
      /\ RequestOK(Redirected(p)) /\ Redirected(p).conn = None
      /\ Redirected(p).pc = "hop" /\ Redirected(p).result = None
  <2> SUFFICES ASSUME RedirectTarget(r) # None
               PROVE  /\ RequestOK(Redirected(p)) /\ Redirected(p).conn = None
                      /\ Redirected(p).pc = "hop" /\ Redirected(p).result = None
    OBVIOUS
  <2> DEFINE get == p.status \in {301, 302, 303} /\ p.method = "POST"
             m == IF get THEN "GET" ELSE p.method
             body == IF get THEN 0 ELSE p.body
  <2>1. p.loc \in Urls
    BY <1>2 DEF RedirectTarget, Exchanges
  <2>2. m \in {"GET", "POST", None} /\ body \in Nat /\ p.hops + 1 \in Nat
    BY <1>2 DEF Exchanges
  <2>3. Redirected(p) = [Entered(m, p.loc, body) EXCEPT !.hops = p.hops + 1]
    BY DEF Redirected
  <2> HIDE DEF m, body, p
  <2>4. LET e == [Entered(m, p.loc, body) EXCEPT !.hops = p.hops + 1]
        IN  RequestOK(e) /\ e.conn = None /\ e.pc = "hop" /\ e.result = None
    BY <2>1, <2>2, EnteredOK
  <2> QED BY <2>3, <2>4
<1> HIDE DEF answered
<1>8. RequestOK(q) /\ q.conn = None /\ q.pc \in {"done", "hop"} /\ q.result \in {"ok", "redirects", None}
  BY <1>5, <1>6, <1>7
<1> HIDE DEF q
<1>9. Moves(r)
  <2>1. rq'[r] = q /\ \A s \in Requests : s # r => rq'[s] = rq[s]
    BY <1>4 DEF ClientInv
  <2> QED BY <1>1, <1>2, <1>8, <2>1 DEF Moves
<1>10. CASE Pooled(r)
  <2>1. UNCHANGED conn
        /\ pool' = [x \in DOMAIN pool \cup {p.key} |->
                      (IF x \in DOMAIN pool THEN pool[x] ELSE <<>>) \o (IF x = p.key THEN <<c>> ELSE <<>>)]
    BY <1>10 DEF HopEnd
  <2>2. conn[c].undrained = 0
    BY <1>1 DEF BodyDone
  <2> QED BY <1>2, <1>4, <1>8, <1>9, <2>1, <2>2, PutStep
<1>11. CASE ~Pooled(r)
  <2>1. UNCHANGED pool /\ conn' = [conn EXCEPT ![c] = Closed(c, 0)]
    BY <1>11 DEF HopEnd
  <2>2. ConnectionOK(Closed(c, 0)) /\ Closed(c, 0).st = "dropped"
    BY <1>2, ClosedOK
  <2>3. IpOK'
    BY <1>4 DEF ClientInv, IpOK
  <2> DEFINE k == Closed(c, 0)
  <2> HIDE DEF k
  <2>4. conn' = IF rq[r].conn = None THEN conn ELSE [conn EXCEPT ![rq[r].conn] = k]
    BY <1>2, <2>1 DEF k
  <2>5. ClientInv'
    BY <1>4, <1>8, <2>1, <2>2, <2>3, <2>4, DropStep DEF k
  <2> QED BY <1>9, <2>5
<1> QED BY <1>10, <1>11

LEMMA ReqwestStep ==
    ASSUME ClientInv, NEW r \in Requests,
           \/ ReqwestSend(r) \/ ReqwestChunk(r) \/ ReqwestEnd(r) \/ ReqwestFails(r)
           \/ \E h \in Responses : ReqwestHead(r, h)
    PROVE  ClientInv' /\ Moves(r)
<1> DEFINE p == rq[r]
<1>1. p \in Exchanges /\ RequestOK(p) /\ p.pc \in {"hop", "execute", "chunks"}
  BY DEF ClientInv, ReqwestSend, ReqwestChunk, ReqwestEnd, ReqwestFails, ReqwestHead
<1>2. p.conn = None /\ p.result = None /\ None # "ok" /\ None # "cancelled" /\ p.url \in Urls
  BY <1>1, ClientAssumption DEF RequestOK, Owning, Results, Errors
<1>3. p.body \in Nat /\ p.got \in Nat /\ p.kept \in Nat /\ cfg.cap \in Nat
  BY <1>1 DEF Exchanges, ClientInv, IpOK
<1>4. cfg.client = "reqwest"
  BY <1>1 DEF RequestOK, ReqwestSend, ReqwestChunk, ReqwestEnd, ReqwestFails, ReqwestHead
<1>5. CASE \E why \in {"blocked", "io"} : Fail(r, why)
  BY <1>1, <1>5, FailStep DEF Errors
<1>6. ASSUME NEW q \in Exchanges, q.pc \in {"execute", "chunks"}, q.conn = p.conn, q.url = p.url, q.result = p.result,
             rq' = [rq EXCEPT ![r] = q], UNCHANGED <<cfg, pool, conn>>, IpOK'
      PROVE  ClientInv' /\ Moves(r)
  <2>1. RequestOK(q)
    BY <1>2, <1>4, <1>6 DEF RequestOK, Owning
  <2>2. ClientInv'
    BY <1>2, <1>6, <2>1, DropStep
  <2>3. rq'[r] = q /\ \A s \in Requests : s # r => rq'[s] = rq[s]
    BY <1>6 DEF ClientInv
  <2> QED BY <1>1, <1>2, <1>6, <2>2, <2>3 DEF Moves
<1>7. CASE ReqwestSend(r) /\ ~check_blocked(p.url)
  <2> DEFINE n == 1 + p.body
             q == [p EXCEPT !.pc = "execute", !.data_sent = n]
  <2>1. UNCHANGED <<cfg, pool, conn>> /\ AdvanceIp /\ rq' = [rq EXCEPT ![r] = q]
    BY <1>7 DEF ReqwestSend
  <2>2. n \in Int
    BY <1>3
  <2> HIDE DEF n
  <2>3. q \in Exchanges
    BY <1>1, <2>2, FieldTypes
  <2>4. q.pc = "execute" /\ q.conn = p.conn /\ q.url = p.url /\ q.result = p.result
    BY <1>1 DEF Exchanges
  <2>5. IpOK'
    BY <2>1, NextIp DEF ClientInv
  <2> HIDE DEF q
  <2> QED BY <1>6, <2>1, <2>3, <2>4, <2>5
<1>8. CASE \E h \in Responses : ReqwestHead(r, h)
  <2> PICK h \in Responses : ReqwestHead(r, h)
    BY <1>8
  <2> DEFINE q1 == [p EXCEPT !.pc = "chunks", !.status = h.status]
             q2 == [q1 EXCEPT !.cookie = h.cookie, !.got = 1]
             q == [q2 EXCEPT !.kept = 0]
  <2>1. h.status \in Nat /\ h.cookie \in BOOLEAN
    BY ClientAssumption
  <2>2. UNCHANGED <<cfg, ipIndex, pool, conn>>
    BY DEF ReqwestHead
  <2>3. rq' = [rq EXCEPT ![r] = q]
    BY Zenon DEF ReqwestHead
  <2>4. q1 \in Exchanges /\ q1.pc = "chunks" /\ q1.conn = p.conn /\ q1.url = p.url /\ q1.result = p.result
    <3>1. q1 \in Exchanges
      BY <1>1, <2>1, FieldTypes
    <3> QED BY <1>1, <3>1 DEF Exchanges
  <2> HIDE DEF q1
  <2>5. q2 \in Exchanges /\ q2.pc = "chunks" /\ q2.conn = p.conn /\ q2.url = p.url /\ q2.result = p.result
    <3>1. q2 \in Exchanges
      BY <2>1, <2>4, FieldTypes
    <3> QED BY <2>4, <3>1 DEF Exchanges
  <2> HIDE DEF q2
  <2>6. q \in Exchanges /\ q.pc = "chunks" /\ q.conn = p.conn /\ q.url = p.url /\ q.result = p.result
    BY <2>5 DEF Exchanges
  <2> HIDE DEF q
  <2>7. IpOK'
    BY <2>2 DEF ClientInv, IpOK
  <2> QED BY <1>6, <2>2, <2>3, <2>6, <2>7
<1>9. CASE ReqwestChunk(r)
  <2> DEFINE n == IF cfg.discard THEN p.kept + 1 ELSE Min({p.kept + 1, cfg.cap})
             g == p.got + 1
             q == [p EXCEPT !.got = g, !.kept = n]
  <2>1. UNCHANGED <<cfg, ipIndex, pool, conn>> /\ p.pc = "chunks"
    BY <1>9 DEF ReqwestChunk
  <2>2. rq' = [rq EXCEPT ![r] = q]
    BY <1>9, Zenon DEF ReqwestChunk
  <2>3. n \in Nat /\ g \in Nat
    <3>1. \A x, y \in Nat : Min({x, y}) \in Nat
      BY DEF Min
    <3>2. p.kept + 1 \in Nat /\ g \in Nat
      BY <1>3
    <3> QED BY <1>3, <3>1, <3>2
  <2> HIDE DEF n, g
  <2>4. q \in Exchanges
    BY <1>1, <2>3, FieldTypes
  <2>5. q.pc = "chunks" /\ q.conn = p.conn /\ q.url = p.url /\ q.result = p.result
    BY <1>1, <2>1 DEF Exchanges
  <2> HIDE DEF q
  <2>6. IpOK'
    BY <2>1 DEF ClientInv, IpOK
  <2> QED BY <1>6, <2>1, <2>2, <2>4, <2>5, <2>6
<1>10. CASE ReqwestEnd(r)
  <2> DEFINE n == 1 + p.kept
             t == [p EXCEPT !.data_received = n]
             q == Settled(t, "ok")
  <2>1. UNCHANGED <<cfg, ipIndex, pool, conn>> /\ rq' = [rq EXCEPT ![r] = q]
    BY <1>10 DEF ReqwestEnd
  <2>2. n \in Int
    BY <1>3
  <2> HIDE DEF n
  <2>3. t \in Exchanges
    BY <1>1, <2>2, FieldTypes
  <2> HIDE DEF t
  <2>4. q \in Exchanges
    BY <2>3 DEF Settled, Exchanges, Results
  <2>5. q.pc = "done" /\ q.conn = None /\ q.result = "ok"
    BY DEF Settled
  <2> HIDE DEF q
  <2>6. RequestOK(q)
    BY <1>4, <2>4, <2>5 DEF RequestOK, Owning
  <2>7. IpOK'
    BY <2>1 DEF ClientInv, IpOK
  <2>8. ClientInv'
    BY <1>2, <2>1, <2>5, <2>6, <2>7, DropStep
  <2>9. rq'[r] = q /\ \A s \in Requests : s # r => rq'[s] = rq[s]
    BY <2>1 DEF ClientInv
  <2> QED BY <1>1, <2>5, <2>8, <2>9 DEF Moves
<1> QED BY <1>5, <1>7, <1>8, <1>9, <1>10 DEF ReqwestSend, ReqwestFails

\* A step of the clients keeps their invariant; it moves one request that is
\* under way, or none.
LEMMA ClientPreserved ==
    ASSUME ClientInv, ClientNext
    PROVE  ClientInv' /\ ((\E r \in Requests : Moves(r)) \/ rq' = rq)
<1>1. ASSUME NEW r \in Requests, ClientStep(r)
      PROVE  ClientInv' /\ Moves(r)
  <2>1. CASE \E why \in {"blocked", "io", "timeout"} : Fail(r, why) /\ rq[r].pc \notin {"idle", "done"}
    BY <2>1, FailStep DEF Errors
  <2>2. HopRefused(r) \/ ExchangeFails(r) \/ Expire(r) =>
           \E why \in {"blocked", "io", "timeout"} : Fail(r, why) /\ rq[r].pc \notin {"idle", "done"}
    BY DEF HopRefused, ExchangeFails, Expire, Broken, Reached, Awaits
  <2> QED BY <1>1, <2>1, <2>2, HopStep, DnsStep, ConnectStep, TunnelStep, SendStep, FrameStep, HopEndStep, ReqwestStep
          DEF ClientStep
<1>2. ASSUME NEW r \in Requests, NEW h \in Responses, ResponseHead(r, h) \/ ReqwestHead(r, h)
      PROVE  ClientInv' /\ Moves(r)
  BY <1>2, HeadStep, ReqwestStep
<1>3. ASSUME NEW c \in Conns, PeerCloses(c)
      PROVE  ClientInv' /\ rq' = rq
  BY <1>3, PeerStep DEF PeerCloses
<1> QED BY <1>1, <1>2, <1>3, TaskStep DEF ClientNext

-----------------------------------------------------------------------------
(* The script's steps.                                                      *)

ScriptTypes ==
    /\ vu \in [VUs -> {"run", "await", "gone"}] /\ awaiting \in [VUs -> Seq(Requests)]
    /\ owner \in [Requests -> VUs \cup {None}]
    /\ callback \in [VUs -> Callbacks \cup {DefaultStatuses}]
    /\ expects \in [Requests -> Callbacks \cup {DefaultStatuses, None}]
    /\ sentJar \in [Requests -> Requests \cup {None}]
    /\ jar \in [VUs -> [Hosts -> Requests \cup {None}]]
    /\ DOMAIN samples = Requests

HttpInv == ClientInv /\ ScriptTypes /\ Waits

\* Requests that own nothing enter the client.
LEMMA EnterStep ==
    ASSUME ClientInv, UNCHANGED <<cfg, ipIndex, pool, conn>>, NEW S \in SUBSET Requests,
           rq' = [r \in Requests |-> rq'[r]],
           \A r \in S : rq[r].conn = None /\ RequestOK(rq'[r]) /\ rq'[r].conn = None,
           \A r \in Requests \ S : rq'[r] = rq[r]
    PROVE  ClientInv'
<1>1. \A r \in Requests : RequestOK(rq'[r]) /\ rq'[r].conn = rq[r].conn
  BY DEF ClientInv
<1>2. \A r \in Requests : rq'[r].conn # None => rq'[r] = rq[r]
  <2> SUFFICES ASSUME NEW r \in Requests, rq'[r].conn # None
               PROVE  rq'[r] = rq[r]
    OBVIOUS
  <2> QED OBVIOUS
<1>3. (rq \in [Requests -> Exchanges] /\ conn \in [Conns -> Connections])'
  <2>1. \A r \in Requests : rq'[r] \in Exchanges
    BY <1>1 DEF RequestOK
  <2> QED BY <2>1, SameConfig DEF ClientInv
<1>4. (\A r \in Requests : RequestOK(rq[r]))' /\ (\A c \in Conns : ConnectionOK(conn[c]))'
  BY <1>1, SameConfig DEF ClientInv
<1>5. (\A r \in Requests : rq[r].conn # None => Carries(rq[r], conn[rq[r].conn]))'
  BY <1>1, <1>2 DEF ClientInv
<1>6. \A c \in Conns : Idle(c)' <=> Idle(c)
  BY DEF Idle
<1>7. HandsOK'
  BY <1>1, <1>6 DEF ClientInv, HandsOK
<1>8. PoolOK'
  BY <1>1, SameConfig DEF ClientInv, PoolOK
<1>9. IpOK'
  BY DEF ClientInv, IpOK
<1> QED BY <1>3, <1>4, <1>5, <1>7, <1>8, <1>9 DEF ClientInv

\* A step that is the script's alone.
LEMMA SameClient ==
    ASSUME ClientInv, UNCHANGED clientVars
    PROVE  ClientInv'
<1>1. UNCHANGED <<cfg, ipIndex, pool, conn>> /\ rq' = rq
  BY DEF clientVars
<1>2. \A S \in SUBSET Requests : S = {} =>
         \A r \in S : rq[r].conn = None /\ RequestOK(rq'[r]) /\ rq'[r].conn = None
  OBVIOUS
<1>3. rq' = [r \in Requests |-> rq'[r]] /\ \A r \in Requests : rq'[r] = rq[r]
  BY <1>1 DEF ClientInv
<1>4. PICK S \in SUBSET Requests : S = {}
  OBVIOUS
<1> QED BY <1>1, <1>2, <1>3, <1>4, EnterStep

\* What is recorded of a request depends on that request alone.
LEMMA SameSample ==
    ASSUME NEW r \in Requests, rq'[r] = rq[r]
    PROVE  \A cb : HttpSample(r, cb)' = HttpSample(r, cb)
  BY DEF HttpSample, Expected

\* What was recorded stays right as long as finished requests, their owners and
\* callbacks stay the same.
LEMMA RecordedKept ==
    ASSUME HttpInv, UNCHANGED <<jar, samples>>,
           \A r \in Requests : rq[r].pc = "done" =>
               rq'[r] = rq[r] /\ owner'[r] = owner[r] /\ expects'[r] = expects[r]
    PROVE  Recorded'
<1>1. \A r \in Requests : samples[r] # <<>> => rq[r].pc = "done"
  BY DEF HttpInv, Waits
<1>2. ASSUME NEW r \in Requests, samples[r] # <<>>
      PROVE  samples[r] = <<HttpSample(r, expects[r])'>> /\ rq'[r].result # "cancelled"
  <2>1. rq'[r] = rq[r] /\ expects'[r] = expects[r]
    BY <1>1, <1>2
  <2>2. HttpSample(r, expects[r])' = HttpSample(r, expects[r])
    BY <2>1, SameSample
  <2> QED BY <1>2, <2>1, <2>2 DEF HttpInv, Waits, Recorded
<1>3. ASSUME NEW v \in VUs, NEW h \in Hosts, jar[v][h] # None
      PROVE  owner'[jar[v][h]] = v /\ rq'[jar[v][h]].url.host = h /\ samples[jar[v][h]] # <<>>
  <2>1. jar[v][h] \in Requests
    BY <1>3 DEF HttpInv, ScriptTypes
  <2>2. owner[jar[v][h]] = v /\ rq[jar[v][h]].url.host = h /\ samples[jar[v][h]] # <<>>
    BY <1>3 DEF HttpInv, Waits, Recorded
  <2> QED BY <1>1, <2>1, <2>2
<1> QED BY <1>2, <1>3 DEF Recorded

\* A step of the clients.
LEMMA ClientKeeps ==
    ASSUME HttpInv, ClientNext, UNCHANGED scriptVars
    PROVE  HttpInv'
<1>1. ClientInv' /\ ((\E r \in Requests : Moves(r)) \/ rq' = rq)
  BY ClientPreserved DEF HttpInv
<1>2. /\ UNCHANGED <<vu, awaiting, owner, expects, jar, samples>>
      /\ UNCHANGED <<callback, sentJar>>
  BY DEF scriptVars
<1>3. \A s \in Requests :
         \/ rq'[s] = rq[s]
         \/ rq[s].pc \notin {"idle", "done"} /\ rq'[s].pc # "idle" /\ rq'[s].result # "cancelled"
  BY <1>1 DEF Moves
<1>4. Recorded'
  BY <1>2, <1>3, RecordedKept
<1>5. ScriptTypes'
  BY <1>2 DEF HttpInv, ScriptTypes
<1>6. \A r \in Requests :
         /\ rq'[r].pc = "idle" <=> owner[r] = None
         /\ samples[r] # <<>> => rq'[r].pc = "done"
         /\ rq'[r].result = "cancelled" => vu[owner[r]] = "gone"
  BY <1>3 DEF HttpInv, Waits
<1> QED BY <1>1, <1>2, <1>4, <1>5, <1>6 DEF HttpInv, Waits

\* A VU issues the requests of one call: they were unused, and nothing of an
\* earlier request changes.
LEMMA IssueStep ==
    ASSUME HttpInv, NEW v \in VUs, NEW reqs \in Seq(Requests), NEW us \in Seq(Urls), Len(us) = Len(reqs),
           NEW method \in {"GET", "POST"}, NEW body \in Nat,
           NEW cb \in Callbacks \cup {DefaultStatuses, None},
           Issue(v, reqs, us, method, body, cb)
    PROVE  /\ ClientInv' /\ Recorded'
           /\ owner' \in [Requests -> VUs \cup {None}]
           /\ expects' \in [Requests -> Callbacks \cup {DefaultStatuses, None}]
           /\ sentJar' \in [Requests -> Requests \cup {None}]
           /\ UNCHANGED <<callback, jar, samples>>
           /\ \A r \in Requests :
                 \/ rq'[r] = rq[r] /\ owner'[r] = owner[r] /\ r \notin Range(reqs)
                 \/ /\ rq[r].pc = "idle" /\ samples[r] = <<>> /\ owner[r] = None /\ r \in Range(reqs)
                    /\ rq'[r].pc = "hop" /\ rq'[r].result = None /\ owner'[r] = v
<1> DEFINE url(r) == us[CHOOSE i \in 1..Len(reqs) : reqs[i] = r]
<1>1. Len(reqs) \in Nat /\ Range(reqs) \in SUBSET Requests /\ Range(reqs) = {reqs[i] : i \in 1..Len(reqs)}
  BY DEF Range
<1>2. \A r \in Range(reqs) : rq[r].pc = "idle"
  BY <1>1 DEF Issue
<1>3. /\ rq' = [r \in Requests |-> IF r \in Range(reqs) THEN Entered(method, url(r), body) ELSE rq[r]]
      /\ owner' = [r \in Requests |-> IF r \in Range(reqs) THEN v ELSE owner[r]]
      /\ expects' = [r \in Requests |-> IF r \in Range(reqs) THEN cb ELSE expects[r]]
      /\ sentJar' = [r \in Requests |-> IF r \in Range(reqs) THEN CookieHeader(v, url(r)) ELSE sentJar[r]]
  BY DEF Issue
<1>4. UNCHANGED <<cfg, ipIndex, pool, conn>> /\ UNCHANGED <<callback, jar, samples>>
  BY DEF Issue
<1>5. \A r \in Range(reqs) : url(r) \in Urls
  <2> SUFFICES ASSUME NEW r \in Range(reqs)
               PROVE  url(r) \in Urls
    OBVIOUS
  <2>1. \E i \in 1..Len(reqs) : reqs[i] = r
    BY <1>1
  <2>2. (CHOOSE i \in 1..Len(reqs) : reqs[i] = r) \in 1..Len(us)
    BY <2>1
  <2> QED BY <2>2
<1> HIDE DEF url
<1>6. \A r \in Range(reqs) : LET q == Entered(method, url(r), body)
                             IN  RequestOK(q) /\ q.conn = None /\ q.pc = "hop" /\ q.result = None
  BY <1>5, EnteredOK
<1>7. \A r \in Range(reqs) : rq[r].conn = None
  BY <1>1, <1>2 DEF HttpInv, ClientInv, RequestOK, Owning
<1>8. ClientInv'
  <2>1. rq' = [r \in Requests |-> rq'[r]]
    BY <1>3
  <2>2. \A r \in Range(reqs) : rq[r].conn = None /\ RequestOK(rq'[r]) /\ rq'[r].conn = None
    BY <1>1, <1>3, <1>6, <1>7
  <2>3. \A r \in Requests \ Range(reqs) : rq'[r] = rq[r]
    BY <1>3
  <2> QED BY <1>1, <1>4, <2>1, <2>2, <2>3, EnterStep DEF HttpInv
<1>9. Recorded'
  <2>1. \A r \in Requests : rq[r].pc = "done" =>
            rq'[r] = rq[r] /\ owner'[r] = owner[r] /\ expects'[r] = expects[r]
    BY <1>2, <1>3
  <2> QED BY <1>4, <2>1, RecordedKept
<1>10. \A r \in Requests :
          \/ rq'[r] = rq[r] /\ owner'[r] = owner[r] /\ r \notin Range(reqs)
          \/ /\ rq[r].pc = "idle" /\ samples[r] = <<>> /\ owner[r] = None /\ r \in Range(reqs)
             /\ rq'[r].pc = "hop" /\ rq'[r].result = None /\ owner'[r] = v
  <2>1. \A r \in Requests : rq[r].pc = "idle" => samples[r] = <<>> /\ owner[r] = None
    BY DEF HttpInv, Waits
  <2> QED BY <1>2, <1>3, <1>6, <2>1
<1>11. /\ owner' \in [Requests -> VUs \cup {None}]
       /\ expects' \in [Requests -> Callbacks \cup {DefaultStatuses, None}]
  BY <1>3 DEF HttpInv, ScriptTypes
<1>12. sentJar' \in [Requests -> Requests \cup {None}]
  <2>1. \A r \in Range(reqs) : CookieHeader(v, url(r)) \in Requests \cup {None}
    <3>1. \A r \in Range(reqs) : url(r).host \in Hosts
      BY <1>5 DEF Hosts
    <3> QED BY <3>1 DEF CookieHeader, HttpInv, ScriptTypes
  <2> QED BY <1>3, <2>1 DEF HttpInv, ScriptTypes
<1> QED BY <1>4, <1>8, <1>9, <1>10, <1>11, <1>12

\* The call parks the VU on its requests, or leaves it running.
LEMMA IssueKeeps ==
    ASSUME HttpInv, NEW v \in VUs, NEW reqs \in Seq(Requests), NEW us \in Seq(Urls), Len(us) = Len(reqs),
           NEW method \in {"GET", "POST"}, NEW body \in Nat,
           NEW cb \in Callbacks \cup {DefaultStatuses, None},
           Issue(v, reqs, us, method, body, cb), vu[v] = "run", Len(reqs) <= 2, IsInjective(reqs),
           \/ vu' = [vu EXCEPT ![v] = "await"] /\ awaiting' = [awaiting EXCEPT ![v] = reqs]
           \/ UNCHANGED <<vu, awaiting>>
    PROVE  HttpInv'
<1>1. /\ ClientInv' /\ Recorded'
      /\ owner' \in [Requests -> VUs \cup {None}]
      /\ expects' \in [Requests -> Callbacks \cup {DefaultStatuses, None}]
      /\ sentJar' \in [Requests -> Requests \cup {None}]
      /\ UNCHANGED <<callback, jar, samples>>
  BY IssueStep
<1>2. \A r \in Requests :
          \/ rq'[r] = rq[r] /\ owner'[r] = owner[r] /\ r \notin Range(reqs)
          \/ /\ rq[r].pc = "idle" /\ samples[r] = <<>> /\ owner[r] = None /\ r \in Range(reqs)
             /\ rq'[r].pc = "hop" /\ rq'[r].result = None /\ owner'[r] = v
  BY IssueStep
<1>3. /\ vu' \in [VUs -> {"run", "await", "gone"}] /\ awaiting' \in [VUs -> Seq(Requests)]
      /\ \A w \in VUs : w # v => vu'[w] = vu[w] /\ awaiting'[w] = awaiting[w]
      /\ \/ vu'[v] = "await" /\ awaiting'[v] = reqs
         \/ vu'[v] = "run" /\ awaiting'[v] = awaiting[v]
  BY DEF HttpInv, ScriptTypes
<1>4. ScriptTypes'
  BY <1>1, <1>3 DEF HttpInv, ScriptTypes
<1>5. \A r \in Requests : owner[r] = None \/ owner[r] \in VUs
  BY DEF HttpInv, ScriptTypes
<1>6. None \notin VUs /\ None # "cancelled"
  BY HttpAssumption, ClientAssumption DEF Results, Errors
<1>7. ASSUME NEW r \in Requests
      PROVE  /\ rq'[r].pc = "idle" <=> owner'[r] = None
             /\ samples'[r] # <<>> => rq'[r].pc = "done"
             /\ rq'[r].result = "cancelled" => vu'[owner'[r]] = "gone"
  <2>1. CASE rq'[r] = rq[r] /\ owner'[r] = owner[r]
    <3>1. /\ rq[r].pc = "idle" <=> owner[r] = None
          /\ samples[r] # <<>> => rq[r].pc = "done"
          /\ rq[r].result = "cancelled" => vu[owner[r]] = "gone" /\ rq[r].pc # "idle"
      <4>1. rq[r].pc # "done" => rq[r].result = None
        BY DEF HttpInv, ClientInv, RequestOK
      <4> QED BY <1>6, <4>1 DEF HttpInv, Waits
    <3>2. rq[r].result = "cancelled" => owner[r] \in VUs /\ owner[r] # v
      BY <1>5, <3>1
    <3> QED BY <1>1, <1>3, <2>1, <3>1, <3>2
  <2>2. CASE /\ samples[r] = <<>>
             /\ rq'[r].pc = "hop" /\ rq'[r].result = None /\ owner'[r] = v
    BY <1>1, <1>6, <2>2
  <2> QED BY <1>2, <2>1, <2>2
<1>8. ASSUME NEW w \in VUs
      PROVE  /\ vu'[w] = "run" => awaiting'[w] = <<>>
             /\ Len(awaiting'[w]) <= 2 /\ IsInjective(awaiting'[w])
             /\ vu'[w] = "await" => \A i \in 1..Len(awaiting'[w]) :
                   owner'[awaiting'[w][i]] = w /\ samples'[awaiting'[w][i]] = <<>>
  <2>1. /\ vu[w] = "run" => awaiting[w] = <<>>
        /\ Len(awaiting[w]) <= 2 /\ IsInjective(awaiting[w])
        /\ vu[w] = "await" => \A i \in 1..Len(awaiting[w]) :
              owner[awaiting[w][i]] = w /\ samples[awaiting[w][i]] = <<>>
    BY DEF HttpInv, Waits
  <2>2. \A i \in 1..Len(awaiting[w]) : awaiting[w][i] \in Requests
    BY DEF HttpInv, ScriptTypes
  <2>3. CASE w # v
    BY <1>1, <1>2, <1>3, <1>6, <2>1, <2>2, <2>3
  <2>4. CASE w = v /\ vu'[v] = "run" /\ awaiting'[v] = awaiting[v]
    BY <2>1, <2>4
  <2>5. CASE w = v /\ vu'[v] = "await" /\ awaiting'[v] = reqs
    <3>1. \A i \in 1..Len(reqs) : reqs[i] \in Requests /\ reqs[i] \in Range(reqs)
      BY DEF Range
    <3> QED BY <1>1, <1>2, <2>5, <3>1
  <2> QED BY <1>3, <2>3, <2>4, <2>5
<1> QED BY <1>1, <1>4, <1>7, <1>8 DEF HttpInv, Waits

\* The greatest index of a set of at most two.
LEMMA MaxIn ==
    ASSUME NEW n \in Nat, n <= 2, NEW T \in SUBSET (1..n), T # {}
    PROVE  Max(T) \in T
<1>1. 2 \in T \/ (1 \in T /\ 2 \notin T)
  <2>1. PICK x \in T : TRUE
    OBVIOUS
  <2>2. x \in 1..n
    OBVIOUS
  <2>3. x = 1 \/ x = 2
    BY <2>2
  <2> QED BY <2>3
<1>2. \E x \in T : \A y \in T : x >= y
  <2>1. CASE 2 \in T
    <3>1. \A y \in T : y \in 1..n
      OBVIOUS
    <3>2. \A y \in T : 2 >= y
      BY <3>1
    <3> QED BY <2>1, <3>2
  <2>2. CASE 1 \in T /\ 2 \notin T
    <3>1. \A y \in T : y \in 1..n /\ y # 2
      BY <2>2
    <3>2. \A y \in T : 1 >= y
      BY <3>1
    <3> QED BY <2>2, <3>2
  <2> QED BY <1>1, <2>1, <2>2
<1> QED BY <1>2 DEF Max

\* A VU sees the responses of its own requests: they are recorded once, and
\* their cookies go to its own jar.
LEMMA FinishStep ==
    ASSUME HttpInv, NEW v \in VUs, NEW reqs \in Seq(Requests), Len(reqs) <= 2, vu[v] # "gone",
           \A i \in 1..Len(reqs) : rq[reqs[i]].pc = "done" /\ owner[reqs[i]] = v /\ samples[reqs[i]] = <<>>,
           Finish(v, reqs), Wrap(v, reqs), UNCHANGED <<clientVars, owner, callback, expects, sentJar>>
    PROVE  /\ Recorded' /\ DOMAIN samples' = Requests
           /\ jar' \in [VUs -> [Hosts -> Requests \cup {None}]]
           /\ \A r \in Requests : r \notin Range(reqs) => samples'[r] = samples[r]
           /\ \A r \in Requests : samples'[r] # <<>> => rq[r].pc = "done"
<1> DEFINE last(h) == {i \in 1..Len(reqs) : Stores(reqs[i], h)}
<1>1. UNCHANGED <<rq, owner, expects>>
  BY DEF clientVars
<1>2. \A r \in Range(reqs) : r \in Requests /\ rq[r].pc = "done" /\ owner[r] = v /\ samples[r] = <<>>
  BY DEF Range
<1>3. /\ DOMAIN samples' = Requests
      /\ \A r \in Requests : r \notin Range(reqs) => samples'[r] = samples[r]
      /\ \A r \in Requests : r \in Range(reqs) => samples'[r] = Append(samples[r], HttpSample(r, expects[r]))
  BY DEF Finish
<1>4. \A r \in Range(reqs) : samples'[r] = <<HttpSample(r, expects[r])>>
  BY <1>2, <1>3
<1>5. \A r \in Range(reqs) : rq[r].result # "cancelled"
  BY <1>2 DEF HttpInv, Waits
<1>6. \A r \in Requests : \A cb : HttpSample(r, cb)' = HttpSample(r, cb)
  BY <1>1, SameSample
<1>7. ASSUME NEW r \in Requests, samples'[r] # <<>>
      PROVE  /\ samples'[r] = <<HttpSample(r, expects[r])'>> /\ rq'[r].result # "cancelled"
             /\ rq[r].pc = "done"
  <2>1. HttpSample(r, expects[r])' = HttpSample(r, expects[r])
    BY <1>1, <1>6
  <2>2. CASE r \in Range(reqs)
    BY <1>1, <1>2, <1>4, <1>5, <2>1, <2>2
  <2>3. CASE r \notin Range(reqs)
    BY <1>1, <1>3, <1>7, <2>1, <2>3 DEF HttpInv, Waits, Recorded
  <2> QED BY <2>2, <2>3
<1>8. /\ \A w \in VUs : w # v => jar'[w] = jar[w]
      /\ jar'[v] = [h \in Hosts |-> IF last(h) = {} THEN jar[v][h] ELSE reqs[Max(last(h))]]
      /\ DOMAIN jar' = VUs /\ jar' = [w \in VUs |-> jar'[w]]
  BY DEF Wrap, HttpInv, ScriptTypes
<1>9. ASSUME NEW h \in Hosts, last(h) # {}
      PROVE  /\ reqs[Max(last(h))] \in Range(reqs) /\ reqs[Max(last(h))] \in Requests
             /\ Stores(reqs[Max(last(h))], h)
  <2>1. Max(last(h)) \in last(h)
    <3>1. last(h) \in SUBSET (1..Len(reqs)) /\ Len(reqs) \in Nat
      OBVIOUS
    <3> QED BY <1>9, <3>1, MaxIn DEF last
  <2>2. Max(last(h)) \in 1..Len(reqs) /\ Stores(reqs[Max(last(h))], h)
    BY <2>1
  <2> DEFINE m == Max(last(h))
  <2>3. m \in 1..Len(reqs) /\ Stores(reqs[m], h)
    BY <2>2
  <2> HIDE DEF m
  <2>4. m \in DOMAIN reqs /\ reqs[m] \in Requests
    BY <2>3
  <2>5. reqs[m] \in Range(reqs)
    BY <2>4 DEF Range
  <2> QED BY <2>3, <2>4, <2>5 DEF m
<1> HIDE DEF last
<1>10. jar' \in [VUs -> [Hosts -> Requests \cup {None}]]
  <2>1. jar'[v] \in [Hosts -> Requests \cup {None}]
    BY <1>8, <1>9 DEF HttpInv, ScriptTypes
  <2>2. \A w \in VUs : jar'[w] \in [Hosts -> Requests \cup {None}]
    BY <1>8, <2>1 DEF HttpInv, ScriptTypes
  <2> QED BY <1>8, <2>2
<1>11. ASSUME NEW w \in VUs, NEW h \in Hosts, jar'[w][h] # None
       PROVE  owner[jar'[w][h]] = w /\ rq[jar'[w][h]].url.host = h /\ samples'[jar'[w][h]] # <<>>
  <2>1. CASE jar'[w][h] = jar[w][h]
    <3> DEFINE j == jar[w][h]
    <3>1. j \in Requests /\ owner[j] = w /\ rq[j].url.host = h /\ samples[j] # <<>>
      BY <1>11, <2>1 DEF HttpInv, ScriptTypes, Waits, Recorded
    <3>2. j \notin Range(reqs)
      BY <1>2, <3>1
    <3> QED BY <1>3, <2>1, <3>1, <3>2
  <2>2. CASE w = v /\ last(h) # {} /\ jar'[w][h] = reqs[Max(last(h))]
    <3> DEFINE j == reqs[Max(last(h))]
    <3>1. j \in Range(reqs) /\ Stores(j, h)
      BY <1>9, <2>2
    <3> HIDE DEF j
    <3>2. samples'[j] = <<HttpSample(j, expects[j])>> /\ owner[j] = v
      BY <1>2, <1>4, <3>1
    <3>3. owner[j] = v /\ rq[j].url.host = h /\ samples'[j] # <<>>
      BY <3>1, <3>2 DEF Stores
    <3> QED BY <2>2, <3>3 DEF j
  <2> QED BY <1>8, <2>1, <2>2
<1>12. Recorded'
  BY <1>1, <1>7, <1>11 DEF Recorded
<1> QED BY <1>3, <1>7, <1>10, <1>12

\* The VU resumes with the responses it waited for.
LEMMA ResumeKeeps ==
    ASSUME HttpInv, NEW v \in VUs, Resume(v)
    PROVE  HttpInv'
<1> DEFINE reqs == awaiting[v]
<1>1. /\ vu[v] = "await" /\ \A i \in 1..Len(reqs) : rq[reqs[i]].pc = "done"
      /\ Finish(v, reqs) /\ Wrap(v, reqs)
      /\ vu' = [vu EXCEPT ![v] = "run"] /\ awaiting' = [awaiting EXCEPT ![v] = <<>>]
  BY DEF Resume
<1>2. UNCHANGED <<clientVars, owner, callback, expects, sentJar>>
  BY DEF Resume
<1>3. reqs \in Seq(Requests) /\ Len(reqs) <= 2
  BY DEF HttpInv, ScriptTypes, Waits
<1>4. \A i \in 1..Len(reqs) : owner[reqs[i]] = v /\ samples[reqs[i]] = <<>>
  BY <1>1 DEF HttpInv, Waits
<1>5. /\ Recorded' /\ DOMAIN samples' = Requests
      /\ jar' \in [VUs -> [Hosts -> Requests \cup {None}]]
      /\ \A r \in Requests : r \notin Range(reqs) => samples'[r] = samples[r]
      /\ \A r \in Requests : samples'[r] # <<>> => rq[r].pc = "done"
  BY <1>1, <1>2, <1>3, <1>4, FinishStep
<1>6. /\ vu' \in [VUs -> {"run", "await", "gone"}] /\ awaiting' \in [VUs -> Seq(Requests)]
      /\ \A w \in VUs : w # v => vu'[w] = vu[w] /\ awaiting'[w] = awaiting[w]
      /\ vu'[v] = "run" /\ awaiting'[v] = <<>>
  BY <1>1 DEF HttpInv, ScriptTypes
<1>7. ScriptTypes'
  BY <1>2, <1>5, <1>6 DEF HttpInv, ScriptTypes
<1>8. ClientInv'
  BY <1>2, SameClient DEF HttpInv
<1>9. rq' = rq /\ owner' = owner
  BY <1>2 DEF clientVars
<1>10. ASSUME NEW r \in Requests
       PROVE  /\ rq[r].pc = "idle" <=> owner[r] = None
              /\ samples'[r] # <<>> => rq[r].pc = "done"
              /\ rq[r].result = "cancelled" => vu'[owner[r]] = "gone"
  <2>1. /\ rq[r].pc = "idle" <=> owner[r] = None
        /\ rq[r].result = "cancelled" => vu[owner[r]] = "gone"
    BY DEF HttpInv, Waits
  <2>2. rq[r].result = "cancelled" => rq[r].pc = "done"
    BY ClientAssumption DEF HttpInv, ClientInv, RequestOK, Results, Errors
  <2>3. rq[r].result = "cancelled" => owner[r] \in VUs
    BY <2>1, <2>2 DEF HttpInv, ScriptTypes
  <2> QED BY <1>1, <1>5, <1>6, <2>1, <2>3
<1>11. ASSUME NEW w \in VUs
       PROVE  /\ vu'[w] = "run" => awaiting'[w] = <<>>
              /\ Len(awaiting'[w]) <= 2 /\ IsInjective(awaiting'[w])
              /\ vu'[w] = "await" => \A i \in 1..Len(awaiting'[w]) :
                    owner[awaiting'[w][i]] = w /\ samples'[awaiting'[w][i]] = <<>>
  <2>1. CASE w = v
    BY <1>6, <2>1 DEF IsInjective
  <2>2. CASE w # v
    <3>1. /\ vu[w] = "run" => awaiting[w] = <<>>
          /\ Len(awaiting[w]) <= 2 /\ IsInjective(awaiting[w])
          /\ vu[w] = "await" => \A i \in 1..Len(awaiting[w]) :
                owner[awaiting[w][i]] = w /\ samples[awaiting[w][i]] = <<>>
      BY DEF HttpInv, Waits
    <3>2. \A i \in 1..Len(awaiting[w]) : awaiting[w][i] \in Requests
      BY DEF HttpInv, ScriptTypes
    <3>3. \A r \in Range(reqs) : owner[r] = v
      BY <1>3, <1>4 DEF Range
    <3>4. vu[w] = "await" => \A i \in 1..Len(awaiting[w]) : samples'[awaiting[w][i]] = <<>>
      BY <1>5, <2>2, <3>1, <3>2, <3>3
    <3> HIDE DEF reqs
    <3> QED BY <1>6, <2>2, <3>1, <3>4
  <2> QED BY <2>1, <2>2
<1> QED BY <1>5, <1>7, <1>8, <1>9, <1>10, <1>11 DEF HttpInv, Waits

\* A promise is resolved while its VU runs.
LEMMA ResolveKeeps ==
    ASSUME HttpInv, NEW v \in VUs, NEW r \in Requests, ResolveAsync(v, r)
    PROVE  HttpInv'
<1> DEFINE reqs == <<r>>
<1>1. /\ vu[v] = "run" /\ owner[r] = v /\ rq[r].pc = "done" /\ samples[r] = <<>>
      /\ Finish(v, reqs) /\ Wrap(v, reqs)
  BY DEF ResolveAsync
<1>2. UNCHANGED <<clientVars, owner, callback, expects, sentJar>> /\ UNCHANGED <<vu, awaiting>>
  BY DEF ResolveAsync
<1>3. reqs \in Seq(Requests) /\ Len(reqs) = 1 /\ reqs[1] = r /\ Range(reqs) = {r}
  BY DEF Range
<1>4. \A i \in 1..Len(reqs) : rq[reqs[i]].pc = "done" /\ owner[reqs[i]] = v /\ samples[reqs[i]] = <<>>
  BY <1>1, <1>3
<1> HIDE DEF reqs
<1>5. /\ Recorded' /\ DOMAIN samples' = Requests
      /\ jar' \in [VUs -> [Hosts -> Requests \cup {None}]]
      /\ \A s \in Requests : s \notin Range(reqs) => samples'[s] = samples[s]
      /\ \A s \in Requests : samples'[s] # <<>> => rq[s].pc = "done"
  <2>1. Len(reqs) <= 2 /\ vu[v] # "gone"
    BY <1>1, <1>3
  <2> QED BY <1>1, <1>2, <1>3, <1>4, <2>1, FinishStep
<1>6. ScriptTypes'
  BY <1>2, <1>5 DEF HttpInv, ScriptTypes
<1>7. cfg' = cfg /\ ipIndex' = ipIndex /\ pool' = pool /\ conn' = conn /\ rq' = rq /\ owner' = owner
  BY <1>2 DEF clientVars
<1>8. ClientInv'
  BY <1>2, SameClient DEF HttpInv
<1>9. \A s \in Requests :
         /\ rq[s].pc = "idle" <=> owner[s] = None
         /\ samples'[s] # <<>> => rq[s].pc = "done"
         /\ rq[s].result = "cancelled" => vu[owner[s]] = "gone"
  BY <1>5 DEF HttpInv, Waits
<1>10. ASSUME NEW w \in VUs
       PROVE  /\ vu[w] = "run" => awaiting[w] = <<>>
              /\ Len(awaiting[w]) <= 2 /\ IsInjective(awaiting[w])
              /\ vu[w] = "await" => \A i \in 1..Len(awaiting[w]) :
                    owner[awaiting[w][i]] = w /\ samples'[awaiting[w][i]] = <<>>
  <2>1. /\ vu[w] = "run" => awaiting[w] = <<>>
        /\ Len(awaiting[w]) <= 2 /\ IsInjective(awaiting[w])
        /\ vu[w] = "await" => \A i \in 1..Len(awaiting[w]) :
              owner[awaiting[w][i]] = w /\ samples[awaiting[w][i]] = <<>>
    BY DEF HttpInv, Waits
  <2>2. \A i \in 1..Len(awaiting[w]) : awaiting[w][i] \in Requests
    BY DEF HttpInv, ScriptTypes
  <2>3. vu[w] = "await" => w # v
    BY <1>1
  <2> QED BY <1>1, <1>3, <1>5, <2>1, <2>2, <2>3
<1> QED BY <1>2, <1>5, <1>6, <1>7, <1>8, <1>9, <1>10 DEF HttpInv, Waits

\* The VU is unwound: its requests are abandoned, and it records no more.
LEMMA UnwindKeeps ==
    ASSUME HttpInv, NEW v \in VUs, Unwind(v)
    PROVE  HttpInv'
<1> DEFINE S == {r \in Requests : owner[r] = v}
           over == Settled(Fresh, "cancelled")
<1>1. Abandon(S) /\ vu' = [vu EXCEPT ![v] = "gone"]
  BY DEF Unwind
<1>2. UNCHANGED <<awaiting, owner, callback, expects, sentJar, jar, samples>>
  BY DEF Unwind
<1>3. ClientInv'
  BY <1>1, AbandonStep DEF HttpInv
<1>4. \A r \in Requests : rq'[r] = IF r \in S /\ rq[r].pc \notin {"idle", "done"} THEN over ELSE rq[r]
  BY <1>1 DEF Abandon
<1>5. over.pc = "done" /\ over.result = "cancelled"
  BY DEF Settled
<1> HIDE DEF over
<1>6. Recorded'
  <2>1. \A r \in Requests : rq[r].pc = "done" =>
           rq'[r] = rq[r] /\ owner'[r] = owner[r] /\ expects'[r] = expects[r]
    BY <1>2, <1>4
  <2> QED BY <1>2, <2>1, RecordedKept
<1>7. /\ vu' \in [VUs -> {"run", "await", "gone"}] /\ vu'[v] = "gone"
      /\ \A w \in VUs : w # v => vu'[w] = vu[w]
  BY <1>1 DEF HttpInv, ScriptTypes
<1>8. ScriptTypes'
  BY <1>2, <1>7 DEF HttpInv, ScriptTypes
<1>9. ASSUME NEW r \in Requests
      PROVE  /\ rq'[r].pc = "idle" <=> owner[r] = None
             /\ samples[r] # <<>> => rq'[r].pc = "done"
             /\ rq'[r].result = "cancelled" => vu'[owner[r]] = "gone"
  <2>1. /\ rq[r].pc = "idle" <=> owner[r] = None
        /\ samples[r] # <<>> => rq[r].pc = "done"
        /\ rq[r].result = "cancelled" => vu[owner[r]] = "gone"
    BY DEF HttpInv, Waits
  <2>2. rq[r].result = "cancelled" => rq[r].pc = "done"
    BY ClientAssumption DEF HttpInv, ClientInv, RequestOK, Results, Errors
  <2>3. rq[r].result = "cancelled" => owner[r] \in VUs
    BY <2>1, <2>2 DEF HttpInv, ScriptTypes
  <2>4. CASE r \in S /\ rq[r].pc \notin {"idle", "done"}
    BY <1>4, <1>5, <1>7, <2>1, <2>4
  <2>5. CASE ~(r \in S /\ rq[r].pc \notin {"idle", "done"})
    BY <1>4, <1>7, <2>1, <2>3, <2>5
  <2> QED BY <2>4, <2>5
<1>10. \A w \in VUs :
          /\ vu'[w] = "run" => awaiting[w] = <<>>
          /\ Len(awaiting[w]) <= 2 /\ IsInjective(awaiting[w])
          /\ vu'[w] = "await" => \A i \in 1..Len(awaiting[w]) :
                owner[awaiting[w][i]] = w /\ samples[awaiting[w][i]] = <<>>
  BY <1>7 DEF HttpInv, Waits
<1> QED BY <1>2, <1>3, <1>6, <1>8, <1>9, <1>10 DEF HttpInv, Waits

\* Another callback: nothing that was issued or recorded depends on it.
LEMMA CallbackKeeps ==
    ASSUME HttpInv, NEW v \in VUs, NEW cb \in Callbacks, SetResponseCallback(v, cb)
    PROVE  HttpInv'
<1>1. /\ UNCHANGED clientVars /\ UNCHANGED <<vu, awaiting, owner, expects, sentJar, jar, samples>>
      /\ callback' = [callback EXCEPT ![v] = cb]
  BY DEF SetResponseCallback
<1>2. ClientInv' /\ rq' = rq
  BY <1>1, SameClient DEF HttpInv, clientVars
<1>3. Recorded'
  BY <1>1, <1>2, RecordedKept
<1>4. ScriptTypes'
  BY <1>1 DEF HttpInv, ScriptTypes
<1> QED BY <1>1, <1>2, <1>3, <1>4 DEF HttpInv, Waits

\* The calls of a running script: one request that parks it, two, or one that
\* does not.
LEMMA CallKeeps ==
    ASSUME HttpInv, NEW v \in VUs, NEW r \in Requests, NEW u \in Urls
    PROVE  /\ \A post \in BOOLEAN : Request(v, r, u, post) => HttpInv'
           /\ AsyncRequest(v, r, u) => HttpInv'
           /\ \A s \in Requests, w \in Urls : Batch(v, r, s, u, w) => HttpInv'
<1>1. PICK reqs \in Seq(Requests), us \in Seq(Urls) :
         /\ reqs = <<r>> /\ us = <<u>> /\ Len(us) = Len(reqs) /\ Len(reqs) <= 2 /\ IsInjective(reqs)
  <2>1. /\ <<r>> \in Seq(Requests) /\ <<u>> \in Seq(Urls) /\ Len(<<r>>) = 1 /\ Len(<<u>>) = 1
        /\ IsInjective(<<r>>)
    BY DEF IsInjective
  <2>2. Len(<<u>>) = Len(<<r>>) /\ Len(<<r>>) <= 2
    BY <2>1
  <2> WITNESS <<r>> \in Seq(Requests), <<u>> \in Seq(Urls)
  <2> QED BY <2>1, <2>2
<1>2. callback[v] \in Callbacks \cup {DefaultStatuses, None} /\ 0 \in Nat /\ "GET" \in {"GET", "POST"}
  BY DEF HttpInv, ScriptTypes
<1>3. ASSUME NEW post \in BOOLEAN, Request(v, r, u, post)
      PROVE  HttpInv'
  <2>1. PICK method \in {"GET", "POST"}, body \in Nat, cb \in Callbacks \cup {DefaultStatuses, None} :
           Issue(v, <<r>>, <<u>>, method, body, cb)
    BY <1>2, <1>3 DEF Request
  <2>2. Issue(v, reqs, us, method, body, cb)
    BY <1>1, <2>1
  <2>3. vu[v] = "run" /\ vu' = [vu EXCEPT ![v] = "await"] /\ awaiting' = [awaiting EXCEPT ![v] = reqs]
    BY <1>1, <1>3 DEF Request
  <2> QED BY <1>1, <2>2, <2>3, IssueKeeps
<1>4. ASSUME AsyncRequest(v, r, u)
      PROVE  HttpInv'
  <2>1. vu[v] = "run" /\ UNCHANGED <<vu, awaiting>> /\ Issue(v, <<r>>, <<u>>, "GET", 0, callback[v])
    BY <1>4 DEF AsyncRequest
  <2>2. Issue(v, reqs, us, "GET", 0, callback[v])
    BY <1>1, <2>1
  <2> QED BY <1>1, <1>2, <2>1, <2>2, IssueKeeps
<1>5. ASSUME NEW s \in Requests, NEW w \in Urls, Batch(v, r, s, u, w)
      PROVE  HttpInv'
  <2>1. /\ Issue(v, <<r, s>>, <<u, w>>, "GET", 0, callback[v]) /\ vu[v] = "run" /\ r < s
        /\ vu' = [vu EXCEPT ![v] = "await"] /\ awaiting' = [awaiting EXCEPT ![v] = <<r, s>>]
    BY <1>5 DEF Batch
  <2>2. PICK two \in Seq(Requests), to \in Seq(Urls) :
           /\ two = <<r, s>> /\ to = <<u, w>> /\ Len(to) = Len(two) /\ Len(two) <= 2 /\ IsInjective(two)
    <3>1. r \in Nat /\ s \in Nat /\ r # s
      BY <2>1, HttpAssumption
    <3>2. /\ <<r, s>> \in Seq(Requests) /\ <<u, w>> \in Seq(Urls) /\ Len(<<r, s>>) = 2 /\ Len(<<u, w>>) = 2
          /\ IsInjective(<<r, s>>)
      BY <3>1 DEF IsInjective
    <3>3. Len(<<u, w>>) = Len(<<r, s>>) /\ Len(<<r, s>>) <= 2
      BY <3>2
    <3> WITNESS <<r, s>> \in Seq(Requests), <<u, w>> \in Seq(Urls)
    <3> QED BY <3>2, <3>3
  <2>3. Issue(v, two, to, "GET", 0, callback[v]) /\ awaiting' = [awaiting EXCEPT ![v] = two]
    BY <2>1, <2>2
  <2> QED BY <1>2, <2>1, <2>2, <2>3, IssueKeeps
<1> QED BY <1>3, <1>4, <1>5

-----------------------------------------------------------------------------
(* The invariant.                                                           *)

\* A client is built with its addresses; nothing is open, issued or recorded.
LEMMA HttpStart == HttpInit => HttpInv
<1> SUFFICES ASSUME HttpInit PROVE HttpInv
  OBVIOUS
<1>1. PICK t \in TestConfigs : Builds(t) /\ cfg = from_config(t)
  BY DEF HttpInit, ClientInit
<1>2. IpOK
  <2>1. cfg.cap = t.cap /\ cfg.local_ips = t.local_ips
    BY <1>1 DEF from_config
  <2>2. t.cap \in Nat /\ t.local_ips \in Seq(STRING) /\ Range(t.local_ips) \subseteq Ips
    BY <1>1, ClientAssumption DEF Builds
  <2>3. t.local_ips \in Seq(Ips)
    <3>1. \A i \in 1..Len(t.local_ips) : t.local_ips[i] \in Ips
      BY <2>2 DEF Range
    <3> QED BY <2>2, <3>1
  <2>4. ipIndex = 0
    BY DEF HttpInit, ClientInit
  <2> QED BY <2>1, <2>2, <2>3, <2>4 DEF IpOK
<1>3. /\ pool = [k \in {} |-> <<>>] /\ conn = [c \in Conns |-> NoConn]
      /\ rq = [r \in Requests |-> Fresh]
  BY DEF HttpInit, ClientInit
<1>4. /\ NoConn \in Connections /\ NoConn.st = "unused" /\ NoConn.failed = 0 /\ NoConn.control = 0
      /\ Fresh \in Exchanges /\ Fresh.conn = None /\ Fresh.pc = "idle" /\ Fresh.result = None
  BY DEF NoConn, Connections, Fresh, Exchanges
<1>5. None # "ok" /\ None # "cancelled"
  BY ClientAssumption DEF Results, Errors
<1>6. RequestOK(Fresh) /\ ConnectionOK(NoConn)
  BY <1>4, <1>5 DEF RequestOK, ConnectionOK, Owning
<1>7. PoolOK /\ HandsOK
  BY <1>3, <1>4 DEF PoolOK, HandsOK
<1>8. ClientInv
  BY <1>2, <1>3, <1>4, <1>6, <1>7 DEF ClientInv
<1>9. ScriptTypes
  BY DEF HttpInit, ScriptTypes
<1>10. Recorded
  BY DEF HttpInit, Recorded
<1>11. Waits
  BY <1>3, <1>4, <1>5, <1>10 DEF HttpInit, Waits, IsInjective
<1> QED BY <1>8, <1>9, <1>11 DEF HttpInv

\* Every step of either HTTP client preserves the inductive invariant.
LEMMA HttpStep == HttpInv /\ [HttpNext]_httpvars => HttpInv'
<1> SUFFICES ASSUME HttpInv, [HttpNext]_httpvars PROVE HttpInv'
  OBVIOUS
<1>1. ASSUME NEW v \in VUs, Script(v)
      PROVE  HttpInv'
  BY <1>1, CallKeeps, CallbackKeeps, ResumeKeeps, UnwindKeeps, ResolveKeeps DEF Script
<1>2. CASE UNCHANGED httpvars
  <2>1. ClientInv' /\ rq' = rq
    BY <1>2, SameClient DEF HttpInv, httpvars, clientVars
  <2>2. UNCHANGED scriptVars
    BY <1>2 DEF httpvars
  <2>3. Recorded'
    BY <2>1, <2>2, RecordedKept DEF scriptVars
  <2> QED BY <2>1, <2>2, <2>3 DEF HttpInv, ScriptTypes, Waits, scriptVars
<1> QED BY <1>1, <1>2, ClientKeeps DEF HttpNext

\* The inductive invariant holds throughout: the theorems below read it off.
LEMMA HttpInvariance == HttpSpec => []HttpInv
  BY HttpStart, HttpStep, PTL DEF HttpSpec

-----------------------------------------------------------------------------
(* Theorems.                                                                *)

\* Every field of a request, a connection and the pool keeps its type: a pooled
\* or held connection is one that was opened, a key is a route of a URL, and the
\* source address index stays inside localIPs.
THEOREM HttpTypeCorrect == HttpSpec => []HttpTypeOK
<1>1. HttpInv => HttpTypeOK
  BY DEF HttpInv, ClientInv, IpOK, PoolOK, ScriptTypes, HttpTypeOK, ClientTypeOK
<1> QED BY <1>1, HttpInvariance, PTL

\* However requests, timeouts, unwinding and closing servers interleave, a
\* connection of the hyper client is in one pool slot, in one request's hands or
\* closed, and a pooled one has been read to the end.
THEOREM PoolSoundness == HttpSpec => []PoolSound
<1>1. HttpInv => PoolSound
  <2> SUFFICES ASSUME ClientInv PROVE PoolSound
    BY DEF HttpInv
  <2>1. ASSUME NEW c \in Conns
        PROVE  /\ Cardinality(Held(c)) <= 1
               /\ Idle(c) => Held(c) = {} /\ conn[c].undrained = 0
               /\ conn[c].st = "open" <=> (Idle(c) \/ Held(c) # {})
    <3>1. c # None
      BY ClientAssumption
    <3>2. \A r, s \in Held(c) : r = s
      BY <3>1 DEF Held, ClientInv, HandsOK
    <3>3. Cardinality(Held(c)) <= 1
      <4>1. CASE Held(c) = {}
        BY <4>1, FS_EmptySet
      <4>2. CASE Held(c) # {}
        <5>1. PICK r \in Held(c) : TRUE
          BY <4>2
        <5>2. Held(c) = {r}
          BY <3>2, <5>1
        <5> QED BY <5>2, FS_Singleton
      <4> QED BY <4>1, <4>2
    <3>4. Idle(c) => Held(c) = {} /\ conn[c].undrained = 0 /\ conn[c].st = "open"
      BY DEF Idle, Held, ClientInv, PoolOK
    <3>5. Held(c) # {} => conn[c].st = "open"
      BY <3>1 DEF Held, ClientInv, Carries
    <3>6. conn[c].st = "open" => Idle(c) \/ Held(c) # {}
      BY DEF Held, ClientInv, HandsOK
    <3> QED BY <3>3, <3>4, <3>5, <3>6
  <2>2. \A k \in DOMAIN pool : IsInjective(pool[k])
    BY DEF ClientInv, PoolOK
  <2>3. \A k, l \in DOMAIN pool : k # l => Range(pool[k]) \cap Range(pool[l]) = {}
    BY DEF ClientInv, PoolOK
  <2> QED BY <2>1, <2>2, <2>3 DEF PoolSound
<1> QED BY <1>1, HttpInvariance, PTL

\* Two URLs of one route: what the route was made of, and where it leads.
LEMMA SameRoute ==
    ASSUME NEW u, NEW s, NEW w, NEW t, KeyFrom(u, s) = KeyFrom(w, t)
    PROVE  /\ w.scheme = u.scheme /\ w.port = u.port /\ t = s /\ proxy_for(w) = proxy_for(u)
           /\ Addresses(w) = Addresses(u)
           /\ w.host = u.host \/ (proxy_for(u) = None /\ FixedIp(u.host) # None /\ FixedIp(w.host) = FixedIp(u.host))
<1> DEFINE a == MappedIp(u.host)
           b == MappedIp(w.host)
<1>1. w.scheme = u.scheme /\ w.port = u.port /\ t = s /\ proxy_for(w) = proxy_for(u)
  BY DEF KeyFrom
<1>2. (IF proxy_for(u) = None /\ a # None THEN <<a>> ELSE u.host)
      = (IF proxy_for(w) = None /\ b # None THEN <<b>> ELSE w.host)
  BY DEF KeyFrom
<1>3. CASE w.host = u.host
  BY <1>1, <1>3 DEF Addresses
<1>4. CASE w.host # u.host
  <2>1. proxy_for(u) = None /\ proxy_for(w) = None /\ (a # None \/ b # None)
    BY <1>1, <1>2, <1>4
  <2>2. a \in Ips \cup {None} /\ b \in Ips \cup {None} /\ None \notin Ips
    BY ClientAssumption DEF MappedIp
  <2>3. \A ip \in Ips : FixedIp(<<ip>>) = IF MappedIp(<<ip>>) # None THEN MappedIp(<<ip>>) ELSE ip
    BY DEF FixedIp, IsLiteral
  <2>4. FixedIp(u.host) # None /\ FixedIp(w.host) = FixedIp(u.host)
    <3>1. CASE a # None /\ b # None
      <4>1. a = b
        BY <1>2, <2>1, <3>1
      <4> QED BY <3>1, <4>1 DEF FixedIp
    <3>2. CASE a # None /\ b = None
      <4>1. w.host = <<a>> /\ a \in Ips
        BY <1>2, <2>1, <2>2, <3>2
      <4>2. FixedIp(w.host) = a
        BY <2>3, <3>2, <4>1
      <4> QED BY <3>2, <4>2 DEF FixedIp
    <3>3. CASE a = None /\ b # None
      <4>1. u.host = <<b>> /\ b \in Ips
        BY <1>2, <2>1, <2>2, <3>3
      <4>2. FixedIp(u.host) = b
        BY <2>3, <3>3, <4>1
      <4> QED BY <3>3, <4>2 DEF FixedIp
    <3> QED BY <2>1, <3>1, <3>2, <3>3
  <2>5. Addresses(w) = Addresses(u)
    BY <2>1, <2>4 DEF Addresses
  <2> QED BY <1>1, <2>1, <2>4, <2>5
<1> QED BY <1>3, <1>4

\* A request, redirected or not, is written to a connection of its transport,
\* port, proxy and source address, opened for its host or for another name of the
\* one address both stand for, and leading to an address of its host or proxy; no
\* connection leads to an address of blacklistIPs, also not one a name resolved to.
THEOREM RouteSoundness == HttpSpec => []RouteSound
<1>1. HttpInv => RouteSound
  <2> SUFFICES ASSUME ClientInv PROVE RouteSound
    BY DEF HttpInv
  <2>1. \A c \in Conns : conn[c].st = "open" => conn[c].ip \notin cfg.blacklist_ips
    BY DEF ClientInv, ConnectionOK
  <2>2. ASSUME NEW r \in Requests, rq[r].conn # None, rq[r].pc \in {"head", "body"}
        PROVE  LET c == conn[rq[r].conn]
                   u == rq[r].url
               IN  /\ c.to.scheme = u.scheme /\ c.to.port = u.port
                   /\ c.via = proxy_for(u) /\ c.source = rq[r].key.source_ip
                   /\ c.ip \in Addresses(u)
                   /\ c.to.host = u.host
                         \/ (c.via = None /\ FixedIp(u.host) # None /\ FixedIp(c.to.host) = FixedIp(u.host))
    <3> DEFINE c == conn[rq[r].conn]
               u == rq[r].url
               s == rq[r].key.source_ip
    <3>1. rq[r].pc \in Owning
      BY <2>2 DEF Owning
    <3>2. c.st = "open" /\ c.key = rq[r].key /\ ConnectionOK(c) /\ RequestOK(rq[r])
      BY <3>1, OwnedFacts DEF Carries
    <3>3. rq[r].key = KeyFrom(u, s)
      BY <3>1, <3>2 DEF RequestOK
    <3>4. c.key = KeyFrom(c.to, c.source) /\ c.via = c.key.proxy /\ c.ip \in Addresses(c.to)
      BY <3>2 DEF ConnectionOK
    <3>5. c.via = proxy_for(u)
      BY <3>2, <3>3, <3>4 DEF KeyFrom
    <3>6. KeyFrom(u, s) = KeyFrom(c.to, c.source)
      BY <3>2, <3>3, <3>4
    <3> HIDE DEF c, u, s
    <3>7. /\ c.to.scheme = u.scheme /\ c.to.port = u.port /\ c.source = s
          /\ Addresses(c.to) = Addresses(u)
          /\ c.to.host = u.host
                \/ (proxy_for(u) = None /\ FixedIp(u.host) # None /\ FixedIp(c.to.host) = FixedIp(u.host))
      BY <3>6, SameRoute
    <3>8. /\ c.to.scheme = u.scheme /\ c.to.port = u.port
          /\ c.via = proxy_for(u) /\ c.source = s
          /\ c.ip \in Addresses(u)
          /\ c.to.host = u.host
                \/ (c.via = None /\ FixedIp(u.host) # None /\ FixedIp(c.to.host) = FixedIp(u.host))
      BY <3>4, <3>5, <3>7
    <3> QED BY <3>8, Zenon DEF c, u, s
  <2> QED BY <2>1, <2>2, Zenon DEF RouteSound
<1> QED BY <1>1, HttpInvariance, PTL

\* data_sent and data_received of a response are the bytes of its own last
\* exchange, on whatever connection, however often it was used before; over TLS
\* also those parts that the connection's task moved after the request was written.
THEOREM BytesSoundness == HttpSpec => []BytesOwn
<1>1. HttpInv => BytesOwn
  BY DEF HttpInv, ClientInv, RequestOK, BytesOwn, Extras
<1> QED BY <1>1, HttpInvariance, PTL

\* A connection fails one request at most: the one that finds it closed drops it.
THEOREM StaleSoundness == HttpSpec => []StaleOnce
<1>1. HttpInv => StaleOnce
  BY DEF HttpInv, ClientInv, ConnectionOK, StaleOnce
<1> QED BY <1>1, HttpInvariance, PTL

\* A response a script saw is recorded once, under the callback it was issued
\* with, and its cookie goes to the jar of the VU that asked for it.
THEOREM RecordedSoundness == HttpSpec => []Recorded
<1>1. HttpInv => Recorded
  BY DEF HttpInv, Waits
<1> QED BY <1>1, HttpInvariance, PTL
=============================================================================
