------------------------------- MODULE MCRun -------------------------------
(* `k6-rs run` for TLC: every combination of command line, config file and     *)
(* script options is resolved; the run that follows does not depend on them    *)
(* (it is modelled with the scenarios and the --paused of its own constants)   *)
(* and is explored after one of them.                                          *)
EXTENDS RunLifecycle, Config, TLC

Num(n) == [t |-> "num", v |-> n]
Str(x) == [t |-> "str", v |-> x]
Dur(n, u) == [t |-> "dur", v |-> <<[n |-> n, d |-> 1, unit |-> u]>>]
Obj(o) == [t |-> "obj", v |-> o]
Arr(a) == [t |-> "arr", v |-> a]
True == [t |-> "bool", v |-> TRUE]

Scenario(e) == [executor |-> Str(e), duration |-> Dur(3, "s"), rate |-> Num(2), preAllocatedVUs |-> Num(1),
                stages |-> Arr(<<Obj([duration |-> Dur(1, "s"), target |-> Num(4)])>>)]

PlainFile ==
    [vus |-> Num(3), duration |-> Dur(5, "s"), userAgent |-> Str("file"), throw |-> True,
                 thresholds |-> Obj([m |-> Arr(<<Str("e"), Obj([threshold |-> Str("f"), abortOnFail |-> True])>>)])]
MCFiles ==
    {Absent, PlainFile,
     [scenarios |-> Obj([default |-> Obj([vus |-> Num(2), exec |-> Str("f"),
                                                         tags |-> Obj([a |-> Str("file")])])]),
                    hosts |-> Obj([h |-> Str("i"), j |-> Num(1)]), dns |-> Obj([select |-> Str("first")])]}

MCScriptOptions ==
    {Absent,
     [vus |-> Num(0)], [vus |-> Num(-1)], [iterations |-> Num(4)], [iterations |-> Num(0), rps |-> Num(5)],
     [vus |-> Num(2), duration |-> [t |-> "dur", v |-> <<[n |-> 1, d |-> 1, unit |-> "m"], [n |-> 15, d |-> 10, unit |-> "s"]>>]],
     [duration |-> Dur(7, "")], [duration |-> Dur(7, "weeks")], [duration |-> Str("x")],
     [dns |-> Obj([select |-> Str("last")])], [localIPs |-> Arr(<<Str("i"), Num(1)>>)],
     [tlsVersion |-> Str("tls1.2"), blacklistIPs |-> Arr(<<Str("i")>>), httpDebug |-> True]}
  \cup {[scenarios |-> Obj([default |-> Obj(Scenario(e))])] : e \in Executors \cup {"unknown"}}
  \cup {[scenarios |-> Obj([other |-> Obj([executor |-> Str("ramping-vus")])])]}

Exports(o) == IF o = Absent THEN <<>> ELSE <<[k |-> "options", v |-> o]>>
Import(fs) == [k |-> "import", from |-> fs]
Const(n) == [k |-> "const", name |-> n]
Script(lines) == [f \in {"script"} |-> lines]
WithLibs(lines) == [script |-> <<Import(<<>>)>> \o lines,
                    a |-> <<Import(<<"c">>)>> \o Exports([vus |-> Num(6)]), b |-> <<Import(<<"c">>)>>,
                    c |-> <<Const("x")>>, index |-> <<[k |-> "throw"]>>]

\* A library with options of its own, a repeated, a shared, a missing and a
\* throwing import, and an extension.
MCScripts ==
    {WithLibs(i \o o) :
       i \in {<<Import(<<"a">>), Import(<<"a">>)>>, <<Import(<<"a">>), Import(<<"b">>)>>,
              <<Import(<<"none">>), Import(<<"b">>)>>, <<Import(<<"ext", "index">>)>>, <<Import(<<"c", "index">>)>>},
       o \in {<<>>, Exports([vus |-> Num(1)])}}

Bare == [set |-> Absent, iterations |-> Null, stages |-> <<>>, tags |-> Absent, envs |-> Absent,
         bad_env |-> FALSE, bad_flag |-> FALSE]
MCClis ==
    {Bare, [Bare EXCEPT !.set = [vus |-> 5]], [Bare EXCEPT !.set = [vus |-> 0]],
     [Bare EXCEPT !.set = [duration |-> Secs(9), userAgent |-> "cli", noConnectionReuse |-> TRUE]],
     [Bare EXCEPT !.set = [vus |-> 5], !.iterations = 6, !.tags = [a |-> "cli"]],
     [Bare EXCEPT !.stages = <<[duration |-> Secs(1), target |-> 2]>>],
     [Bare EXCEPT !.bad_flag = TRUE], [Bare EXCEPT !.bad_env = TRUE]}
Envs(n, c) == [VUS |-> [cmd |-> c, v |-> n]]
MCInputs ==
    {[cli |-> c, file |-> f, files |-> Script(Exports(o)),
      script_dotenv |-> Absent, cwd_dotenv |-> Absent] :
        c \in MCClis, f \in MCFiles \cup {Null}, o \in MCScriptOptions}
    \cup
    {[cli |-> [Bare EXCEPT !.envs = e], file |-> PlainFile, files |-> Script((IF t THEN <<[k |-> "throw"]>> ELSE <<>>) \o Exports([vus |-> Num(1)])),
      script_dotenv |-> s, cwd_dotenv |-> d] :
        e \in {Absent, Envs(7, FALSE)}, t \in BOOLEAN, s \in {Absent, Envs(8, TRUE)},
        d \in {Absent, [VUS |-> [cmd |-> FALSE, v |-> 9], KEY |-> [cmd |-> TRUE, v |-> Null]], Envs(9, TRUE)}}
    \cup
    {[cli |-> Bare, file |-> PlainFile, files |-> s, script_dotenv |-> Absent, cwd_dotenv |-> Absent] :
        s \in MCScripts \cup {[a |-> <<>>]}}

-----------------------------------------------------------------------------
\* The inputs after which the run itself is explored.
Followed == [cli |-> Bare, file |-> Absent, files |-> Script(<<>>),
             script_dotenv |-> Absent, cwd_dotenv |-> Absent]

Started == cphase = "ready" /\ in = Followed

\* The command ended with a configuration error, or its run is not followed.
NotFollowed == cphase = "failed" \/ (cphase = "ready" /\ in # Followed)

\* REST clients are interchangeable: what a run with the other order of first
\* requests does is the same with the names swapped.
FirstClient == CHOOSE r \in Requests : TRUE
InOrder == (\E c \in Requests : call[c] # "none") => call[FirstClient] # "none"

RunNext ==
    \/ ConfigNext /\ UNCHANGED vars
    \/ Started /\ Next /\ InOrder' /\ UNCHANGED cfgvars
    \/ NotFollowed /\ UNCHANGED <<cfgvars, vars>>

RunInit == ConfigInit /\ Init

RunSafety == RunInit /\ [][RunNext]_<<cfgvars, vars>>

\* The runtime polls every task; executors and hooks end (ExecutorReturns;
\* setupTimeout and teardownTimeout).  A handler waits while its blocking task
\* runs, and a scenario ends after its start: of the steps of one call, or of one
\* scenario, only one kind can be due.  Nothing is assumed of clients or signals.
RunFairness ==
    /\ WF_vars(Started /\ MainStep)
    /\ \A s \in Scenarios : WF_vars(Started /\ (StartScenario(s) \/ EndScenario(s)))
    /\ \A c \in Callers : WF_vars(Started /\ (CallStep(c) \/ \E r \in {"ok", "err"} : TaskEnds(c, r)))

RunSpec == RunSafety /\ RunFairness
=============================================================================
