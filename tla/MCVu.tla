-------------------------------- MODULE MCVu --------------------------------
(* What one VU runs on, for TLC.  A behaviour is about its scheduler ("sched") *)
(* or about the connections its requests share: which connection carries which *)
(* request ("routes"), with hosts mappings, proxies and source addresses and   *)
(* URLs that differ in host, port or scheme or lead to one address, or whose   *)
(* bytes a response counts, with and without TLS ("bytes").  The other         *)
(* component keeps its initial state.                                          *)
EXTENDS VuSched, HttpApi, TLC

VARIABLE part

HTTP(host, port) == [scheme |-> "http", host |-> host, port |-> port]
HTTPS(host) == [scheme |-> "https", host |-> host, port |-> 443]

AX == <<"a", "x">>
BX == <<"b", "x">>
J4 == <<"j4">>

MCUrls == {HTTP(AX, 80), HTTP(AX, 8080), HTTP(BX, 80), HTTP(J4, 80), HTTPS(AX)}
MCIps == {"i4", "j4", "k6"}
MCFamily == ("i4" :> 4) @@ ("j4" :> 4) @@ ("k6" :> 6)
MCDns == (AX :> {"i4"}) @@ (BX :> {"i4", "k6"}) @@ (<<"p">> :> {"j4"}) @@ (<<"q">> :> {"i4", "k6"})

Plain == [ client |-> "hyper", discard |-> FALSE, cap |-> 1, no_connection_reuse |-> FALSE,
           blacklist_ips |-> {}, block_hostnames |-> {}, hosts |-> [h \in {} |-> None],
           max_redirects |-> 1, local_ips |-> <<>>, http_proxy |-> None, https_proxy |-> None,
           no_proxy |-> {}, tls_version |-> [min |-> None, max |-> None] ]

\* One name is mapped to an address the script also names: in the first with
\* alternating source addresses, in the second past the proxies.
MCTestConfigs == {
    Plain,
    [Plain EXCEPT !.hosts = AX :> "j4", !.local_ips = <<"i4", "j4">>],
    [Plain EXCEPT !.hosts = AX :> "j4", !.blacklist_ips = {"k6"},
                  !.http_proxy = <<"p">>, !.https_proxy = <<"q">>, !.no_proxy = {J4}] }

Answer(status, loc, frames) == [status |-> status, loc |-> loc, close |-> FALSE, cookie |-> FALSE, frames |-> frames]
MCResponses == {Answer(200, None, 1), Answer(302, HTTPS(AX), 0)}

-----------------------------------------------------------------------------
VuInit ==
    /\ part \in {"sched", "routes", "bytes"}
    /\ Init /\ HttpInit
    /\ part # "routes" <=> cfg = from_config(Plain)

\* Concurrent requests are asyncRequests (batches are in MCRequests), and the
\* requests' names are interchangeable.
NoBatch == (\A v \in VUs : Len(awaiting'[v]) <= 1) /\ (owner'[2] # None => owner'[1] # None)

\* Which connection a request takes depends neither on bodies nor on what a TLS
\* connection moves by itself; servers that close are in "bytes" and MCRequests.
RoutesInput == NoBatch /\ \A c \in Conns :
    /\ conn'[c].undrained = 0 /\ conn'[c].control >= conn[c].control
    /\ conn'[c].st = "open" => conn'[c].alive

BytesInput == NoBatch /\ \A r \in Requests : rq'[r].url \in {None, HTTP(AX, 80), HTTPS(AX)}

\* A VU that has used up its requests may stop for good.
HttpStops == part # "sched" /\ UNCHANGED <<part, httpvars, vars>>

VuNext ==
    \/ part = "sched" /\ Next /\ UNCHANGED <<part, httpvars>>
    \/ part = "routes" /\ HttpNext /\ RoutesInput /\ UNCHANGED <<part, vars>>
    \/ part = "bytes" /\ HttpNext /\ BytesInput /\ UNCHANGED <<part, vars>>
    \/ HttpStops

\* Nothing has to happen to a request: fairness and VuEnds are about the scheduler.
VuSpec == VuInit /\ [][VuNext]_<<part, httpvars, vars>> /\ Fairness

\* The VU task always ends, however its script and its I/O behave: the loop
\* thread's join cannot hang.
VuEnds == part = "sched" => TaskEnds
=============================================================================
