----------------------------- MODULE MCRequests -----------------------------
(* Requests and what becomes of their samples, for TLC.  A behaviour is about  *)
(* one of the two: the HTTP clients under one VU with concurrent requests, to  *)
(* origins with and without proxy, host mapping and TLS ("http"), or recorded  *)
(* samples on their way to thresholds, summary and outputs ("telemetry"); the  *)
(* other one keeps its initial state.                                          *)
EXTENDS HttpApi, Telemetry

CONSTANTS u1, u2   \* the recording threads

VARIABLE part

-----------------------------------------------------------------------------
(* The client's instance.                                                      *)

A == [scheme |-> "http", host |-> <<"a", "x">>, port |-> 80]
B == [scheme |-> "https", host |-> <<"b", "x">>, port |-> 443]

MCUrls == {A, B}
MCPosts == {A}
MCIps == {"i4", "j4", "k6"}
MCFamily == ("i4" :> 4) @@ ("j4" :> 4) @@ ("k6" :> 6)
MCDns == (<<"a", "x">> :> {"i4"}) @@ (<<"b", "x">> :> {"i4"}) @@ (<<"p">> :> {"j4"})

Plain == [ client |-> "hyper", discard |-> FALSE, cap |-> 1, no_connection_reuse |-> FALSE,
           blacklist_ips |-> {}, block_hostnames |-> {}, hosts |-> [h \in {} |-> None],
           max_redirects |-> 1, local_ips |-> <<>>, http_proxy |-> None, https_proxy |-> None,
           no_proxy |-> {}, tls_version |-> [min |-> None, max |-> None] ]

Response == [status |-> 200, loc |-> None, close |-> FALSE, cookie |-> TRUE, frames |-> 2]
MCResponses == { Response, [Response EXCEPT !.status = 500, !.close = TRUE, !.cookie = FALSE, !.frames = 0],
                 [Response EXCEPT !.status = 302, !.loc = B, !.frames = 0] }

MCCallbacks == {None}

MCTestConfigs == {
    [Plain EXCEPT !.https_proxy = <<"p">>, !.http_proxy = <<"p">>,
                  !.tls_version = [min |-> "tls1.3", max |-> "tls1.1"],
                  !.block_hostnames = {[wild |-> FALSE, labels |-> <<"a", "x">>]}],
    [Plain EXCEPT !.http_proxy = <<"p">>, !.no_proxy = {<<"a", "x">>}, !.max_redirects = 0],
    [Plain EXCEPT !.hosts = (<<"a", "x">> :> "j4"), !.blacklist_ips = {"j4", "bad"},
                  !.block_hostnames = {[wild |-> TRUE, labels |-> <<"b", "x">>], [wild |-> FALSE, labels |-> <<"c">>]},
                  !.local_ips = <<"i4", "k6">>, !.discard = TRUE, !.no_connection_reuse = TRUE],
    [Plain EXCEPT !.client = "reqwest", !.blacklist_ips = {"i4"}] }

-----------------------------------------------------------------------------
(* The instance of the telemetry: what a run may record and what it is asked   *)
(* to do with it.                                                              *)

MCVus == {u1, u2}
MCAlphabet == <<"expected_response", "method", "name", "status">>
S200 == <<<<"status">>, <<"200">>>>
S500 == <<<<"status">>, <<"500">>>>
Get == <<<<"method">>, <<"GET">>>>
Ok == <<<<"expected_response">>, <<"true">>>>
Comma == <<<<"name">>, <<"a", ",", "b">>>>
Url == <<<<"name">>, <<"http", ":", "x">>>>
Th(m, e, a, d) == [metric |-> m, expression |-> e, abort_on_fail |-> a, delay_abort_eval |-> d]
Out(n, a) == [name |-> n, arg |-> a]
MCRuns ==
    {[thresholds |-> {Th(<<"vus">>, <<"value", "<", "2">>, TRUE, 2),
                      Th(<<"checks">>, <<"rate", ">", "0.5">>, TRUE, 3)},
      calls |-> {set_vus(1), set_vus(3), record_check(<< >>, "c", TRUE)},
      scenarios |-> 1, writes |-> 3, seconds |-> 4, no_thresholds |-> FALSE, outs |-> {}],
     [thresholds |-> {Th(<<"http_req_duration", "{", "status", " ", ":", "200", "}">>,
                         <<"p(", "95", ")", "<", "2">>, FALSE, 0)},
      calls |-> {record_http_request(<<S200, Get, Ok>>, <<FALSE>>, 2),
                 record_http_request(<<S500, Url, S200>>, << >>, 1)},
      scenarios |-> 2, writes |-> 17, seconds |-> 0, no_thresholds |-> FALSE,
      outs |-> {Out("csv", NoArg), Out("prometheus", "url")}],
     [thresholds |-> {Th(<<"checks">>, <<"rate", ">", "0.5">>, FALSE, 0)},
      calls |-> {record_check(<<"g">>, "c", TRUE), record_check(<< >>, "c", FALSE),
                 group_enter(<<"g", "h">>), record_group_duration(<<"g", "h">>, 3),
                 record_iteration(1), record_dropped_iterations(2)},
      scenarios |-> 2, writes |-> 4, seconds |-> 0, no_thresholds |-> TRUE,
      outs |-> {Out("duckdb", "f"), Out("json", NoArg), Out("influxdb", "url")}],
     [thresholds |-> {Th(<<"grpc_reqs", "{", "status", ":", "200", "}">>, <<"count", "<", "2">>, FALSE, 0)},
      calls |-> {record_grpc_request(<<S200>>, 0), record_grpc_request(<<S200, Get>>, 1),
                 custom_metric("trend_time", <<"t">>, 0), custom_metric("counter", <<"c">>, 0),
                 custom_metric("rate", <<"r">>, 1), custom_metric("gauge", <<"g">>, 2)},
      scenarios |-> 2, writes |-> 4, seconds |-> 0, no_thresholds |-> FALSE, outs |-> {Out("csv", "f")}],
     [thresholds |-> {Th(<<"ws_sessions">>, <<"sessions", "<", "2">>, FALSE, 0)},
      calls |-> {record_ws_session(<<Url>>, 2), record_ws_session(<<Comma>>, 2),
                 record_ws_connecting(<<Url>>, 1), record_ws_msg_sent(<<S200>>), record_ws_msg_sent(<<Get>>),
                 record_ws_msg_received(<<Url>>), record_ws_ping(<<Url>>, 1), record_data_sent(2)},
      scenarios |-> 2, writes |-> 4, seconds |-> 0, no_thresholds |-> FALSE, outs |-> {Out("csv", "f")}]}
MCNumbers == ("2" :> <<2, 1>>) @@ ("1" :> <<1, 1>>) @@ ("0.5" :> <<1, 2>>) @@ ("95" :> <<95, 1>>)
MCNames ==
    {<<n>> : n \in {"vus", "checks", "http_reqs", "http_req_failed", "http_req_duration", "http_req_blocked",
                    "http_req_connecting", "http_req_tls_handshaking", "http_req_sending",
                    "http_req_waiting", "http_req_receiving", "iterations", "iteration_duration",
                    "dropped_iterations", "group_duration", "grpc_reqs", "grpc_req_duration",
                    "ws_sessions", "ws_session_duration", "ws_connecting", "ws_msgs_sent",
                    "ws_msgs_received", "ws_ping", "data_sent", "t", "c", "r", "g"}}
MCTagLists == {<< >>, <<Ok>>, <<S200>>, <<Get>>, <<Url>>, <<Comma>>, <<S200, Get>>, <<S200, Get, Ok>>,
               <<S500, Url, S200>>}
MCTexts == {canonical_key(n, tags) : n \in MCNames, tags \in MCTagLists}
             \cup {<<"http_req_duration", "{", "status", " ", ":", "200", "}">>}

-----------------------------------------------------------------------------
RequestsInit ==
    /\ part \in {"http", "telemetry"}
    /\ HttpInit /\ (part = "telemetry" => cfg = from_config([Plain EXCEPT !.client = "reqwest", !.blacklist_ips = {"i4"}]))
    /\ TelemetryInit /\ (part = "http" => run = CHOOSE r \in Runs : TRUE)

RequestsNext ==
    \/ part = "http" /\ HttpNext /\ UNCHANGED <<part, tvars>>
    \/ part = "telemetry" /\ TelemetryNext /\ UNCHANGED <<part, httpvars>>

RequestsSpec == RequestsInit /\ [][RequestsNext]_<<part, httpvars, tvars>>
=============================================================================
