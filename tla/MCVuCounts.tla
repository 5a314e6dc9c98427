----------------------------- MODULE MCVuCounts -----------------------------
(* The VU-count executors for TLC.  A behaviour runs one of them: VuPool's     *)
(* three ("pool") or the ramp ("ramp"); they share no state, so the other one  *)
(* keeps its initial state.  The ramp's schedule takes the only VU away and    *)
(* then asks for two, so that a VU parks in mid-run and is woken.              *)
EXTENDS VuPool, RampingVus, Schedules

VARIABLE part   \* the executor this behaviour runs

AllModes == {"constant-vus", "per-vu-iterations", "shared-iterations"}

MCStages == <<[duration |-> 1, target |-> 0], [duration |-> 1, target |-> 2],
              [duration |-> 1, target |-> 2]>>
MCTotal == total_duration(MCStages)
MCWant == [t \in 0..MCTotal |-> interpolate(timeline(1, MCStages), t)]

CountsInit ==
    /\ part \in {"pool", "ramp"}
    /\ Init /\ RampInit
    /\ part = "ramp" => mode = "constant-vus"

CountsNext ==
    \/ part = "pool" /\ Next /\ UNCHANGED <<part, rampvars>>
    \/ part = "ramp" /\ RampNext /\ UNCHANGED <<part, vars>>

Pool(A) == part = "pool" /\ A
Ramp(A) == part = "ramp" /\ A

\* Threads run and the deadline comes; an iteration must end only under the hard
\* token.  A claim loop whose exchange could succeed infinitely often does
\* succeed: hardware does not repeat a spurious failure for ever.
CountsFairness ==
    /\ WF_vars(Pool(DeadlinePasses))
    /\ WF_vars(Pool(WatchdogPhase1 \/ WatchdogPhase2)) /\ WF_vars(Pool(JoinLoops \/ Summarize))
    /\ \A v \in VUs :
         /\ WF_vars(Pool(Control(v) \/ BuildFails(v)))
         /\ WF_vars(Pool(ClaimRetry(v))) /\ SF_vars(Pool(Claim(v)))
         /\ WF_vars(Pool(hard /\ (EndIteration(v) \/ ForceUnwind(v))))
    /\ WF_rampvars(Ramp(RampController)) /\ WF_rampvars(Ramp(RampTick))
    /\ WF_rampvars(Ramp(RampPhase1 \/ RampPhase2)) /\ WF_rampvars(Ramp(RampJoin \/ RampReturn))
    /\ \A v \in RampVUs :
         /\ WF_rampvars(Ramp(Decide(v) \/ RampBuildFails(v)))
         /\ WF_rampvars(Ramp(Wake(v) \/ WakeStop(v)))
         /\ WF_rampvars(Ramp(ramp_hard /\ (RampIterationEnds(v) \/ RampForceUnwind(v))))

CountsSpec == CountsInit /\ [][CountsNext]_<<part, vars, rampvars>> /\ CountsFairness

\* Every VU-count executor returns its summary, although a VU may park for good
\* or an iteration hang: the stop token and the watchdog end them.
ExecutorReturns == <>(IF part = "pool" THEN dropped # -1 ELSE returned)
=============================================================================
