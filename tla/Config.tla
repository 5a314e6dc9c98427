------------------------------- MODULE Config -------------------------------
(***************************************************************************)
(* How `k6-rs run` arrives at the test it runs: the script with its imports *)
(* (k6-js/src/vu.rs), environment (k6-cli/src/env.rs), options of script   *)
(* and config file, their parsing (k6-core/src/config.rs) and the command  *)
(* line (k6-cli/src/main.rs).                                              *)
(*                                                                         *)
(* A JSON value is tagged: "num", "bool", "str", "dur" (a string that is   *)
(* made of number-unit tokens), "arr", "obj", "other".                     *)
(***************************************************************************)
EXTENDS Integers, Sequences, FiniteSetsExt, SequencesExt, Functions

CONSTANTS
    Inputs,   \* command line, .env files, config file and script of a run
    U32,      \* scaled 2^32
    Null      \* None

VARIABLES
    in,        \* the inputs of this run
    cphase,    \* "script" | "env" | "commands" | "options" | "config" | "overrides" | "ready" | "failed"
    prepared,  \* the lines of the prepared script
    env_map,   \* environment: name -> [cmd, v]
    options,   \* merged options: a JSON object
    config     \* TestConfig

cfgvars == <<in, cphase, prepared, env_map, options, config>>

Absent == [k \in {} |-> 0]
Over(base, overlay) == [k \in DOMAIN base \cup DOMAIN overlay |->
                          IF k \in DOMAIN overlay THEN overlay[k] ELSE base[k]]

-----------------------------------------------------------------------------
(* Scripts: files are sequences of lines, "import" (from: the files its     *)
(* path may mean, none for a k6 module), "options", "const" (declares name) *)
(* and "throw".                                                             *)

\* Imports are replaced by the prepared file, a file's second import of the same
\* one and an import that cannot be read by nothing.  Every file keeps its own
\* record of what it has inlined.
RECURSIVE prepare_script_with_dir(_, _)
prepare_script_with_dir(files, f) ==
    LET source == files[f]
        Resolved(i) == SelectSeq(source[i].from, LAMBDA x : x \in DOMAIN files)
        Inlined(i) == \E j \in 1..(i - 1) : /\ source[j].k = "import" /\ Resolved(j) # <<>>
                                           /\ Head(Resolved(j)) = Head(Resolved(i))
    IN  FlattenSeq([i \in DOMAIN source |->
            IF source[i].k # "import" THEN <<source[i]>>
            ELSE IF Resolved(i) = <<>> \/ Inlined(i) THEN <<>>
            ELSE prepare_script_with_dir(files, Head(Resolved(i)))])

-----------------------------------------------------------------------------
(* Typed access to JSON values: what it accepts and what it yields.        *)

IsU64(v) == v.t = "num" /\ v.v >= 0
IsStr(v) == v.t \in {"str", "dur"}

Millis == [ms |-> 1, s |-> 1000, m |-> 60000, h |-> 3600000, d |-> 86400000]
Nanos  == [ns |-> 1, us |-> 1000]

\* A bare number counts milliseconds; otherwise every number has a known unit.
ValidDuration(v) ==
    /\ v.t = "dur" /\ v.v # <<>>
    /\ \A i \in DOMAIN v.v :
         /\ v.v[i].n >= 0
         /\ \/ v.v[i].unit = "" /\ Len(v.v) = 1
            \/ v.v[i].unit \in DOMAIN Millis \cup DOMAIN Nanos

\* The tokens add up; a token is n / d of its unit.
parse_duration(v) ==
    LET MsOf(x) == CASE x.unit = "" -> x.n
                     [] x.unit \in DOMAIN Millis -> x.n * Millis[x.unit]
                     [] OTHER -> 0
        NsOf(x) == IF x.unit \in DOMAIN Nanos THEN x.n * Nanos[x.unit] ELSE 0
        ns == FoldSeq(LAMBDA x, a : a + NsOf(x) \div x.d + (MsOf(x) % x.d) * (1000000 \div x.d), 0, v.v)
        ms == FoldSeq(LAMBDA x, a : a + MsOf(x) \div x.d, 0, v.v)
    IN  [ms |-> ms + ns \div 1000000, ns |-> ns % 1000000]

Secs(n) == [ms |-> 1000 * n, ns |-> 0]

Has(o, k) == k \in DOMAIN o
get_u32_ok(o, k) == Has(o, k) /\ IsU64(o[k])
get_u32(o, k) == o[k].v % U32
get_u32_or(o, k, d) == IF get_u32_ok(o, k) THEN get_u32(o, k) ELSE d
get_duration_ok(o, k) == Has(o, k) /\ ValidDuration(o[k])
get_duration(o, k) == parse_duration(o[k])
get_duration_or(o, k, d) == IF get_duration_ok(o, k) THEN get_duration(o, k) ELSE d
get_str_or(o, k, d) == IF Has(o, k) /\ IsStr(o[k]) THEN o[k].v ELSE d

parse_string_map(v) ==
    IF v.t # "obj" THEN Absent
    ELSE [k \in {j \in DOMAIN v.v : IsStr(v.v[j])} |-> v.v[k].v]

-----------------------------------------------------------------------------
(* Scenarios.                                                              *)

ValidStages(v) ==
    /\ v.t = "arr"
    /\ \A i \in DOMAIN v.v : /\ v.v[i].t = "obj"
                             /\ get_duration_ok(v.v[i].v, "duration") /\ get_u32_ok(v.v[i].v, "target")

parse_stages(v) ==
    [i \in DOMAIN v.v |-> [duration |-> get_duration(v.v[i].v, "duration"),
                           target |-> get_u32(v.v[i].v, "target")]]

Executors == {"constant-vus", "ramping-vus", "constant-arrival-rate", "ramping-arrival-rate",
              "per-vu-iterations", "shared-iterations"}

\* The fields an executor cannot do without.
ValidExecutor(o) ==
    /\ Has(o, "executor") /\ o.executor.t = "str" /\ o.executor.v \in Executors
    /\ o.executor.v \in {"constant-vus", "constant-arrival-rate"} => get_duration_ok(o, "duration")
    /\ o.executor.v \in {"ramping-vus", "ramping-arrival-rate"} => Has(o, "stages") /\ ValidStages(o.stages)
    /\ o.executor.v = "constant-arrival-rate" => get_u32_ok(o, "rate")
    /\ o.executor.v \in {"constant-arrival-rate", "ramping-arrival-rate"} =>
          get_u32_ok(o, "preAllocatedVUs")

ExecutorOf(o) ==
    LET arrival == [time_unit |-> get_duration_or(o, "timeUnit", Secs(1)),
                    pre_allocated_vus |-> get_u32(o, "preAllocatedVUs"),
                    max_vus |-> get_u32_or(o, "maxVUs", Null)]
        counted == [vus |-> get_u32_or(o, "vus", 1), iterations |-> get_u32_or(o, "iterations", 1),
                    max_duration |-> get_duration_or(o, "maxDuration", Secs(600))]
        type == [type |-> o.executor.v]
    IN  CASE o.executor.v = "constant-vus" ->
               Over(type, [vus |-> get_u32_or(o, "vus", 1), duration |-> get_duration(o, "duration")])
          [] o.executor.v = "ramping-vus" ->
               Over(type, [start_vus |-> get_u32_or(o, "startVUs", 1), stages |-> parse_stages(o.stages),
                           graceful_ramp_down |-> get_duration_or(o, "gracefulRampDown", Secs(30))])
          [] o.executor.v = "constant-arrival-rate" ->
               Over(Over(type, arrival),
                    [rate |-> get_u32(o, "rate"), duration |-> get_duration(o, "duration")])
          [] o.executor.v = "ramping-arrival-rate" ->
               Over(Over(type, arrival),
                    [start_rate |-> get_u32_or(o, "startRate", 0), stages |-> parse_stages(o.stages)])
          [] OTHER -> Over(type, counted)

default_scenario_with_executor(e) ==
    [executor |-> e, exec |-> Null, start_time |-> Secs(0), graceful_stop |-> Secs(30),
     env |-> Absent, tags |-> Absent]

parse_scenario(o) ==
    [executor |-> ExecutorOf(o), exec |-> get_str_or(o, "exec", Null),
     start_time |-> get_duration_or(o, "startTime", Secs(0)),
     graceful_stop |-> get_duration_or(o, "gracefulStop", Secs(30)),
     env |-> IF Has(o, "env") THEN parse_string_map(o.env) ELSE Absent,
     tags |-> IF Has(o, "tags") THEN parse_string_map(o.tags) ELSE Absent]

ConstantVus(n, d) == [type |-> "constant-vus", vus |-> n, duration |-> d]
SharedIterations(n, i, d) == [type |-> "shared-iterations", vus |-> n, iterations |-> i, max_duration |-> d]

-----------------------------------------------------------------------------
(* Thresholds, TLS and DNS.                                                *)

ValidThreshold(v) ==
    \/ IsStr(v)
    \/ /\ v.t = "obj" /\ Has(v.v, "threshold") /\ IsStr(v.v.threshold)
       /\ Has(v.v, "delayAbortEval") => ValidDuration(v.v.delayAbortEval)

parse_one_threshold(v) ==
    IF IsStr(v) THEN [expression |-> v.v, abort_on_fail |-> FALSE, delay_abort_eval |-> Secs(0)]
    ELSE [expression |-> v.v.threshold.v,
          abort_on_fail |-> Has(v.v, "abortOnFail") /\ v.v.abortOnFail.t = "bool" /\ v.v.abortOnFail.v,
          delay_abort_eval |-> get_duration_or(v.v, "delayAbortEval", Secs(0))]

ValidThresholds(v) ==
    v.t = "obj" /\ \A k \in DOMAIN v.v :
        \/ IsStr(v.v[k])
        \/ v.v[k].t = "arr" /\ \A i \in DOMAIN v.v[k].v : ValidThreshold(v.v[k].v[i])

parse_thresholds(v) ==
    [k \in DOMAIN v.v |-> IF IsStr(v.v[k]) THEN <<parse_one_threshold(v.v[k])>>
                          ELSE [i \in DOMAIN v.v[k].v |-> parse_one_threshold(v.v[k].v[i])]]

parse_tls_version(v) ==
    IF v.t = "obj" THEN [min |-> get_str_or(v.v, "min", Null), max |-> get_str_or(v.v, "max", Null)]
    ELSE [min |-> v.v, max |-> v.v]

\* DnsConfig::validate on the members that are strings.
ValidDns(o) ==
    /\ get_str_or(o, "select", Null) \in {Null, "first", "random", "roundRobin"}
    /\ get_str_or(o, "policy", Null) \in {Null, "preferIPv4", "preferIPv6", "onlyIPv4", "onlyIPv6", "any"}
    /\ (Has(o, "ttl") /\ IsStr(o.ttl)) => (o.ttl.t = "str" /\ o.ttl.v = "inf") \/ ValidDuration(o.ttl)

parse_dns_config(o) == [k \in {"ttl", "select", "policy"} |-> get_str_or(o, k, Null)]

-----------------------------------------------------------------------------
(* Options.                                                                *)

Bools == {"discardResponseBodies", "noConnectionReuse", "noVUConnectionReuse",
          "insecureSkipTLSVerify", "throw"}
Lists == {"blacklistIPs", "blockHostnames", "localIPs"}
Numbers == {"vus", "iterations", "maxRedirects", "rps"}
Durations == {"setupTimeout", "teardownTimeout", "duration"}
Texts == {"userAgent", "consoleOutput"}
Keys == UNION {Bools, Lists, Numbers, Durations, Texts,
               {"httpDebug", "hosts", "tlsVersion", "dns", "thresholds", "scenarios"}}

Default(k) ==
    CASE k \in Bools -> FALSE
      [] k \in Lists -> <<>>
      [] k = "vus" -> 1
      [] k = "rps" -> 0
      [] k = "duration" -> Secs(10)
      [] k \in Durations -> Secs(60)
      [] k \in {"hosts", "thresholds", "scenarios"} -> Absent
      [] OTHER -> Null

ValidOption(k, v) ==
    CASE k \in Bools -> v.t = "bool"
      [] k \in Lists -> v.t = "arr" /\ \A i \in DOMAIN v.v : IsStr(v.v[i])
      [] k \in Numbers -> IsU64(v)
      [] k \in Durations -> ValidDuration(v)
      [] k \in Texts -> IsStr(v)
      [] k = "tlsVersion" -> IsStr(v) \/ v.t = "obj"
      [] k = "dns" -> v.t = "obj" /\ ValidDns(v.v)
      [] k = "thresholds" -> ValidThresholds(v)
      [] k = "scenarios" -> v.t = "obj" /\ \A s \in DOMAIN v.v : v.v[s].t = "obj" /\ ValidExecutor(v.v[s].v)
      [] OTHER -> TRUE

OptionValue(k, v) ==
    CASE k \in Lists -> [i \in DOMAIN v.v |-> v.v[i].v]
      [] k = "iterations" -> IF v.v = 0 THEN Null ELSE v.v % U32
      [] k \in Numbers -> v.v % U32
      [] k \in Durations -> parse_duration(v)
      [] k = "httpDebug" -> IF IsStr(v) THEN v.v ELSE "full"
      [] k = "hosts" -> parse_string_map(v)
      [] k = "tlsVersion" -> parse_tls_version(v)
      [] k = "dns" -> parse_dns_config(v.v)
      [] k = "thresholds" -> parse_thresholds(v)
      [] k = "scenarios" -> [s \in DOMAIN v.v |-> parse_scenario(v.v[s].v)]
      [] OTHER -> v.v

ValidOptions(o) == \A k \in Keys \cap DOMAIN o : ValidOption(k, o[k])

\* Mutant: top-level `iterations` are dropped.
parse_options_for_duration(o) ==
    LET c == [k \in Keys |-> IF Has(o, k) THEN OptionValue(k, o[k]) ELSE Default(k)]
    IN  IF DOMAIN c.scenarios # {} \/ c.vus = 0 THEN c
        ELSE [c EXCEPT !.scenarios =
                [n \in {"default"} |-> default_scenario_with_executor(ConstantVus(c.vus, c.duration))]]

\* Without scenarios the test is the default scenario.
parse_options(o) ==
    LET c == [k \in Keys |-> IF Has(o, k) THEN OptionValue(k, o[k]) ELSE Default(k)]
    IN  IF DOMAIN c.scenarios # {} \/ c.vus = 0 THEN c
        ELSE [c EXCEPT !.scenarios =
                [n \in {"default"} |-> default_scenario_with_executor(
                    IF c.iterations = Null THEN ConstantVus(c.vus, c.duration)
                    ELSE SharedIterations(c.vus, c.iterations, c.duration))]]

\* Objects merge key by key, at every depth; anything else is replaced.
RECURSIVE merge_json(_, _)
merge_json(base, overlay) ==
    [k \in DOMAIN base \cup DOMAIN overlay |->
       IF k \notin DOMAIN overlay THEN base[k]
       ELSE IF k \in DOMAIN base /\ base[k].t = "obj" /\ overlay[k].t = "obj"
       THEN [t |-> "obj", v |-> merge_json(base[k].v, overlay[k].v)]
       ELSE overlay[k]]

-----------------------------------------------------------------------------
(* The command line: in.cli.set holds the flags that replace an option,    *)
(* typed by the parser of the command line.                                *)

default_scenario_template(c) ==
    IF Has(c.scenarios, "default") THEN c.scenarios["default"]
    ELSE default_scenario_with_executor(ConstantVus(c.vus, c.duration))

\* Every other scenario goes.
replace_default_scenario(c, e) ==
    [c EXCEPT !.scenarios =
        [n \in {"default"} |-> [default_scenario_template(c) EXCEPT !.executor = e]]]

apply_execution_overrides(c, cli) ==
    IF cli.iterations # Null
    THEN replace_default_scenario(c, SharedIterations(c.vus, cli.iterations, c.duration))
    ELSE IF cli.stages # <<>>
    THEN replace_default_scenario(c,
           [type |-> "ramping-vus", start_vus |-> c.vus, stages |-> cli.stages,
            graceful_ramp_down |-> LET e == default_scenario_template(c).executor
                                   IN IF e.type = "ramping-vus" THEN e.graceful_ramp_down ELSE Secs(30)])
    ELSE IF DOMAIN c.scenarios = {} /\ c.vus > 0
    THEN replace_default_scenario(c, ConstantVus(c.vus, c.duration))
    ELSE IF Has(c.scenarios, "default") /\ c.scenarios["default"].executor.type = "constant-vus"
    THEN [c EXCEPT !.scenarios["default"].executor = Over(@, Restrict(cli.set, {"vus", "duration"} \cap DOMAIN cli.set))]
    ELSE c

apply_cli_overrides(c, cli) ==
    LET d == apply_execution_overrides(Over(c, cli.set), cli)
    IN  [d EXCEPT !.scenarios = [s \in DOMAIN @ |-> [@[s] EXCEPT !.tags = Over(@, cli.tags)]]]

-----------------------------------------------------------------------------
ConfigInit ==
    /\ in \in Inputs /\ cphase = "script" /\ prepared = <<>>
    /\ env_map = Absent /\ options = Absent /\ config = Absent

ConfigFail == cphase' = "failed"

PrepareScript ==
    /\ cphase = "script"
    /\ IF "script" \in DOMAIN in.files
       THEN prepared' = prepare_script_with_dir(in.files, "script") /\ cphase' = "env"
       ELSE ConfigFail /\ UNCHANGED prepared
    /\ UNCHANGED <<in, env_map, options, config>>

\* .env of the script's directory, over it the one of the working directory,
\* over both --env.
ResolveEnv ==
    /\ cphase = "env"
    /\ env_map' = Over(Over(in.script_dotenv, in.cwd_dotenv), in.cli.envs)
    /\ IF in.cli.bad_env THEN ConfigFail ELSE cphase' = "commands"
    /\ UNCHANGED <<in, prepared, options, config>>

\* A cmd: value is replaced by what the command prints; one that fails or times
\* out (v is Null) ends the run.
ResolveCommands ==
    /\ cphase = "commands"
    /\ LET cmds == {k \in DOMAIN env_map : env_map[k].cmd}
       IN  IF \E k \in cmds : env_map[k].v = Null THEN ConfigFail /\ UNCHANGED env_map
           ELSE /\ env_map' = [k \in DOMAIN env_map |-> [env_map[k] EXCEPT !.cmd = FALSE]]
                /\ cphase' = "options"
    /\ UNCHANGED <<in, prepared, options, config>>

\* What the script exports last, evaluated with __ENV; {} if it throws before
\* that, or declares a name twice and so does not even parse.
extract_options(lines, env) ==
    LET Declares(i, n) == lines[i].k = "const" /\ lines[i].name = n
        parses == \A i, j \in DOMAIN lines :
                      (i # j /\ lines[i].k = "const") => ~Declares(j, lines[i].name)
        exported == {i \in DOMAIN lines : lines[i].k = "options" /\ \A j \in 1..i : lines[j].k # "throw"}
        exports == lines[Max(exported)].v
    IN  IF exported = {} \/ ~parses THEN Absent
        ELSE IF Has(env, "VUS") THEN Over(exports, [vus |-> [t |-> "num", v |-> env["VUS"].v]])
        ELSE exports

\* The config file, {} without one; unreadable (Null) it ends the run.
MergeOptions ==
    /\ cphase = "options"
    /\ IF in.file = Null THEN ConfigFail /\ UNCHANGED options
       ELSE /\ options' = merge_json(in.file, extract_options(prepared, env_map))
            /\ cphase' = "config"
    /\ UNCHANGED <<in, prepared, env_map, config>>

ParseConfig ==
    /\ cphase = "config"
    /\ IF ~ValidOptions(options) THEN ConfigFail /\ UNCHANGED config
       ELSE config' = parse_options(options) /\ cphase' = "overrides"
    /\ UNCHANGED <<in, prepared, env_map, options>>

\* A malformed --tag, --duration, --stage or --dns ends the run.
Override ==
    /\ cphase = "overrides"
    /\ IF in.cli.bad_flag THEN ConfigFail /\ UNCHANGED config
       ELSE config' = apply_cli_overrides(config, in.cli) /\ cphase' = "ready"
    /\ UNCHANGED <<in, prepared, env_map, options>>

ConfigNext == PrepareScript \/ ResolveEnv \/ ResolveCommands \/ MergeOptions \/ ParseConfig \/ Override

-----------------------------------------------------------------------------
\* The first of command line, script and config file that gives k, parsed.
Given(k) ==
    LET s == extract_options(prepared, env_map) f == in.file
    IN  CASE Has(in.cli.set, k) -> in.cli.set[k]
          [] ~Has(in.cli.set, k) /\ Has(s, k) -> OptionValue(k, s[k])
          [] ~Has(in.cli.set, k) /\ ~Has(s, k) /\ Has(f, k) -> OptionValue(k, f[k])
          [] OTHER -> Default(k)

\* The options that stand in the script itself, below its imports.
OwnOptions ==
    LET source == in.files["script"]
    IN  {source[i].v : i \in {j \in DOMAIN source :
            source[j].k = "options" /\ \A h \in DOMAIN source : source[h].k # "import" \/ h < j}}

Nested == {"scenarios", "hosts", "dns", "thresholds", "tlsVersion"}

\* --vus or --duration next to `iterations` of the script or of the config file:
\* the flag reaches the config, and not the default scenario made before.
FlagsUnused ==
    /\ {"vus", "duration"} \cap DOMAIN in.cli.set # {}
    /\ in.cli.iterations = Null /\ in.cli.stages = <<>>
    /\ Given("iterations") # Null

\* What the default scenario runs: --iterations, then --stages, then the
\* `iterations` of the options, within the duration; else the VUs for the duration.
IsDefaultExecutor(e) ==
    LET v == Given("vus") d == Given("duration")
    IN  CASE in.cli.iterations # Null -> e = SharedIterations(v, in.cli.iterations, d)
          [] in.cli.iterations = Null /\ in.cli.stages # <<>> ->
               e.type = "ramping-vus" /\ e.start_vus = v /\ e.stages = in.cli.stages
          [] OTHER -> e = IF Given("iterations") # Null
                          THEN SharedIterations(v, Given("iterations"), d) ELSE ConstantVus(v, d)

(***************************************************************************)
(* "Merge config file options (lowest priority) with script options        *)
(* (higher priority)", "CLI has highest priority": the merged, parsed and  *)
(* overridden configuration holds for every option what its highest source *)
(* says, the script's own options hide those of the files it imports, and  *)
(* a run without scenarios of its own runs the default scenario with       *)
(* exactly these VUs, duration, iterations and stages, unless a flag for    *)
(* VUs or duration comes too late for it (FlagsUnused).                    *)
(***************************************************************************)
Precedence ==
    cphase = "ready" =>
        /\ \A k \in Keys \ Nested : config[k] = Given(k)
        /\ \A o \in OwnOptions : extract_options(prepared, Absent) \in {o, Absent}
        /\ (~Has(options, "scenarios") /\ ~FlagsUnused) =>
             IF in.cli.iterations = Null /\ in.cli.stages = <<>> /\ config.scenarios = Absent
             THEN Given("vus") = 0
             ELSE /\ DOMAIN config.scenarios = {"default"}
                  /\ IsDefaultExecutor(config.scenarios["default"].executor)
                  /\ \A t \in DOMAIN in.cli.tags :
                       config.scenarios["default"].tags[t] = in.cli.tags[t]
=============================================================================
