-------------------------- MODULE RunLifecycleProofs --------------------------
(***************************************************************************)
(* Proofs about RunLifecycle, for every number of REST requests and        *)
(* scenarios.                                                              *)
(***************************************************************************)
EXTENDS RunLifecycle, QueueLemmas, FiniteSetTheorems, TLAPS

CallStates == {"none", "queued", "calling", "writing", "ok", "err", "gone"}
Kinds == {"setup", "teardown", "put"}
TaskStates == {"none", "running", "ok", "err"}
ScnStates == {"waiting", "running", "ok", "err", "joined", "joinedErr"}

\* A call in one of these states is in the queue of the lifecycle lock.
Locking == {"queued", "calling", "writing"}

\* The domains of the calls.
CallTypes ==
  /\ lockQ \in Seq(Callers) /\ call \in [Callers -> CallStates]
  /\ kind \in [Callers -> Kinds] /\ task \in [Callers -> TaskStates]

\* The lock's queue holds exactly the calls in progress and close_lifecycle,
\* each once; a call that got past the lock is at its head; a blocking task
\* belongs to a call that awaits it or to a client that hung up; and run_test
\* makes its calls where it waits for them.
LockInv ==
  /\ Distinct(lockQ)
  /\ \A c \in Callers :
       /\ In(lockQ, c) <=> call[c] \in Locking \/ (c = Main /\ main = "closeWait")
       /\ call[c] \in {"calling", "writing"} => Holds(c)
       /\ task[c] # "none" => call[c] \in {"calling", "gone"}
  /\ call[Main] \in Locking => main \in {"inSetup", "inTeardown"}
  /\ call[Main] # "gone"

\* From the end of close_lifecycle on no call can write setup data, nor run a
\* hook unless close_lifecycle gave up.
SealInv ==
  /\ main = "closeWait" => closing
  /\ ended \/ main = "end" =>
       /\ closing
       /\ \A c \in Callers : call[c] # "writing" /\ (~late => call[c] # "calling")

\* What a stop rests on: it cancels; the flag that interrupts a teardown goes up
\* only behind the teardown, so a failed one failed by itself; and teardown ran
\* (or was skipped on request) exactly if the run had started.
StopInv ==
  /\ scn \in [Scenarios -> ScnStates]
  /\ stopped => cancel
  /\ closing => main \in {"closeWait", "end", "report", "shutdown", "exited"}
  /\ main \in {"close", "closeWait", "end", "report", "shutdown"} => (started <=> tornDown)
  /\ main = "inTeardown" =>
       started /\ kind[Main] = "teardown" /\ ("err" \in {task[Main], call[Main]} => failure)
  /\ \A s \in Scenarios : scn[s] \in {"err", "joinedErr"} => failure
  /\ exit \in {-1, 0, 1, 99, 103, 130}
  /\ exit = 1 => ~stopped \/ failure
  /\ exit \in {0, 99} => ~stopped
  /\ exit = 103 => (started <=> tornDown)

-----------------------------------------------------------------------------
(* The lock.                                                               *)

CallInv == CallTypes /\ LockInv

\* Two callers are never both at the head of the queue.
LEMMA OneHolder ==
  ASSUME NEW c, NEW d, Holds(c), Holds(d)
  PROVE  c = d
  BY DEF Holds

\* Main is a caller.
LEMMA MainCalls == Main \in Callers /\ Requests \subseteq Callers
  BY DEF Callers

\* Queueing a call that is not in progress keeps the lock's invariant.
LEMMA EnqueueLocks ==
  ASSUME CallInv, NEW c \in Callers, NEW k \in Kinds, Enqueue(c, k),
         call[c] \in CallStates \ (Locking \cup {"gone"}),
         c # Main => main' = main,
         c = Main => main # "closeWait" /\ main' \in {"inSetup", "inTeardown"}
  PROVE  CallInv'
<1>1. /\ lockQ' = Append(lockQ, c) /\ call' = [call EXCEPT ![c] = "queued"]
      /\ kind' = [kind EXCEPT ![c] = k] /\ task' = task
  BY DEF Enqueue
<1>2. ~In(lockQ, c) /\ Distinct(lockQ) /\ lockQ \in Seq(Callers)
  BY DEF CallInv, CallTypes, LockInv
<1>3. /\ lockQ' \in Seq(Callers) /\ Distinct(lockQ')
      /\ \A d \in Callers : In(lockQ', d) <=> In(lockQ, d) \/ d = c
  BY <1>1, <1>2, AppendFacts
<1>4. CallTypes'
  BY <1>1, <1>3 DEF CallInv, CallTypes, CallStates
<1>5. ASSUME NEW d \in Callers, call'[d] \in {"calling", "writing"} PROVE Holds(d)'
  <2>1. Holds(d)
    BY <1>1, <1>5 DEF CallInv, CallTypes, LockInv
  <2> QED
    BY <1>1, <1>2, <2>1, AppendHead DEF Holds
<1>6. ASSUME NEW d \in Callers PROVE task'[d] # "none" => call'[d] \in {"calling", "gone"}
  BY <1>1 DEF CallInv, CallTypes, LockInv, Locking
<1>7. ASSUME NEW d \in Callers
      PROVE  In(lockQ', d) <=> call'[d] \in Locking \/ (d = Main /\ main' = "closeWait")
  <2>1. CASE d = c
    BY <1>1, <1>3, <2>1 DEF CallInv, CallTypes, Locking
  <2>2. CASE d # c
    <3>1. In(lockQ', d) <=> call[d] \in Locking \/ (d = Main /\ main = "closeWait")
      BY <1>3, <2>2 DEF CallInv, LockInv
    <3>2. call'[d] = call[d]
      BY <1>1, <2>2 DEF CallInv, CallTypes
    <3>3. d = Main => (main' = "closeWait" <=> main = "closeWait")
      BY <2>2
    <3> QED
      BY <3>1, <3>2, <3>3
  <2> QED
    BY <2>1, <2>2
<1>8. /\ call'[Main] \in Locking => main' \in {"inSetup", "inTeardown"}
      /\ call'[Main] # "gone"
  BY <1>1, MainCalls DEF CallInv, CallTypes, LockInv
<1> QED
  BY <1>3, <1>4, <1>5, <1>6, <1>7, <1>8 DEF CallInv, LockInv

\* A call that ends, or is dropped, leaves the queue to the others.
LEMMA AnswerLocks ==
  ASSUME CallInv, NEW c \in Callers, NEW r \in {"ok", "err", "gone"}, Answer(c, r),
         call[c] \in Locking, main' = main, kind' = kind,
         r = "gone" => c # Main /\ task' = task,
         r # "gone" => /\ task' \in [Callers -> TaskStates] /\ task'[c] = "none"
                       /\ \A d \in Callers \ {c} : task'[d] = task[d]
  PROVE  CallInv'
<1>1. lockQ' = Without(lockQ, c) /\ call' = [call EXCEPT ![c] = r]
  BY DEF Answer, Leave
<1>2. In(lockQ, c) /\ Distinct(lockQ) /\ lockQ \in Seq(Callers)
  BY DEF CallInv, CallTypes, LockInv
<1>3. /\ lockQ' \in Seq(Callers) /\ Distinct(lockQ')
      /\ \A d \in Callers : In(lockQ', d) <=> In(lockQ, d) /\ d # c
      /\ Head(lockQ) # c => lockQ' # <<>> /\ Head(lockQ') = Head(lockQ)
  BY <1>1, <1>2, WithoutFacts
<1>4. CallTypes'
  BY <1>1, <1>3 DEF CallInv, CallTypes, CallStates
<1>5. ASSUME NEW d \in Callers, call'[d] \in {"calling", "writing"} PROVE Holds(d)'
  <2>1. Holds(d) /\ d # c
    BY <1>1, <1>5 DEF CallInv, CallTypes, LockInv
  <2> QED
    BY <1>3, <2>1 DEF Holds
<1>6. ASSUME NEW d \in Callers PROVE task'[d] # "none" => call'[d] \in {"calling", "gone"}
  BY <1>1 DEF CallInv, CallTypes, LockInv
<1>7. ASSUME NEW d \in Callers
      PROVE  In(lockQ', d) <=> call'[d] \in Locking \/ (d = Main /\ main' = "closeWait")
  <2>1. CASE d = c
    <3>1. call'[d] = r /\ ~In(lockQ', d)
      BY <1>1, <1>3, <2>1 DEF CallInv, CallTypes
    <3>2. ~(d = Main /\ main = "closeWait")
      BY <2>1 DEF CallInv, LockInv
    <3> QED
      BY <3>1, <3>2 DEF Locking
  <2>2. CASE d # c
    BY <1>1, <1>3, <2>2 DEF CallInv, CallTypes, LockInv
  <2> QED
    BY <2>1, <2>2
<1>8. /\ call'[Main] \in Locking => main' \in {"inSetup", "inTeardown"}
      /\ call'[Main] # "gone"
  BY <1>1, MainCalls DEF CallInv, CallTypes, LockInv, Locking
<1> QED
  BY <1>3, <1>4, <1>5, <1>6, <1>7, <1>8 DEF CallInv, LockInv

\* The holder goes on from one state of its call to the next.
LEMMA AdvanceLocks ==
  ASSUME CallInv, NEW c \in Callers, NEW r \in {"calling", "writing"}, NEW t \in TaskStates,
         Holds(c), call[c] \in Locking, call' = [call EXCEPT ![c] = r],
         task' = [task EXCEPT ![c] = t], t # "none" => r = "calling",
         main' = main, kind' = kind, lockQ' = lockQ
  PROVE  CallInv'
<1>1. CallTypes'
  BY DEF CallInv, CallTypes, CallStates
<1>2. \A d \in Callers : call'[d] \in Locking <=> call[d] \in Locking
  BY DEF CallInv, CallTypes, Locking
<1>3. \A d \in Callers : call'[d] \in {"calling", "writing"} => Holds(d)'
  BY DEF CallInv, CallTypes, LockInv, Holds
<1>4. \A d \in Callers : task'[d] # "none" => call'[d] \in {"calling", "gone"}
  BY DEF CallInv, CallTypes, LockInv
<1>5. call'[Main] # "gone"
  BY MainCalls DEF CallInv, CallTypes, LockInv
<1> QED
  BY <1>1, <1>2, <1>3, <1>4, <1>5, MainCalls DEF CallInv, LockInv

\* The steps that leave the calls alone, and run_test where it waits.
Elsewhere ==
  /\ UNCHANGED calls
  /\ \/ main' = main
     \/ /\ main # "closeWait" /\ main' # "closeWait"
        /\ main \in {"inSetup", "inTeardown"} => call[Main] \notin Locking

\* Such a step keeps the lock's invariant.
LEMMA ElsewhereLocks == CallInv /\ Elsewhere => CallInv'
<1> SUFFICES ASSUME CallInv, Elsewhere PROVE CallInv'
  OBVIOUS
<1>1. lockQ' = lockQ /\ call' = call /\ kind' = kind /\ task' = task
  BY DEF Elsewhere, calls
<1>2. main' = "closeWait" <=> main = "closeWait"
  BY DEF Elsewhere
<1>3. call[Main] \in Locking => main' \in {"inSetup", "inTeardown"}
  BY DEF Elsewhere, CallInv, LockInv
<1> QED
  BY <1>1, <1>2, <1>3 DEF CallInv, CallTypes, LockInv, Holds

\* The steps that are of that kind.
LEMMA ElsewhereSteps ==
  ASSUME \/ CheckStart \/ WakeStart \/ SetupDone \/ SpawnScenarios \/ TeardownDone \/ EndRun
         \/ Report \/ Shutdown \/ PatchStop \/ PatchResume \/ CancelRun \/ ForceExit
         \/ UNCHANGED vars
         \/ \E s \in Scenarios : SkipScenario(s) \/ JoinScenario(s) \/ StartScenario(s)
                                 \/ EndScenario(s)
  PROVE  Elsewhere
  BY DEF Elsewhere, CheckStart, WakeStart, SetupDone, SpawnScenarios, TeardownDone, EndRun,
         Report, Shutdown, PatchStop, PatchResume, CancelRun, ForceExit, vars, SkipScenario,
         JoinScenario, StartScenario, EndScenario, Fail, Locking

\* Every step keeps the lock's invariant.
LEMMA CallStepInv == CallInv /\ [Next]_vars => CallInv'
<1> SUFFICES ASSUME CallInv, [Next]_vars PROVE CallInv'
  OBVIOUS
<1>1. CASE \/ CheckStart \/ WakeStart \/ SetupDone \/ SpawnScenarios \/ TeardownDone \/ EndRun
           \/ Report \/ Shutdown \/ PatchStop \/ PatchResume \/ CancelRun \/ ForceExit
           \/ UNCHANGED vars
           \/ \E s \in Scenarios : SkipScenario(s) \/ JoinScenario(s) \/ StartScenario(s)
                                   \/ EndScenario(s)
  BY <1>1, ElsewhereSteps, ElsewhereLocks
<1>2. CASE BeginSetup
  <2>1. CASE main' = "spawn" /\ UNCHANGED calls
    BY <1>2, <2>1, ElsewhereLocks DEF BeginSetup, Elsewhere
  <2>2. CASE main' = "inSetup" /\ Enqueue(Main, "setup")
    <3>1. main = "setup" /\ call[Main] \in CallStates \ (Locking \cup {"gone"})
      BY <1>2, MainCalls DEF BeginSetup, CallInv, CallTypes, LockInv
    <3> QED
      BY <2>2, <3>1, EnqueueLocks, MainCalls DEF Kinds
  <2> QED
    BY <1>2, <2>1, <2>2 DEF BeginSetup
<1>3. CASE Drained
  <2>1. CASE main' \in {"close", "exited"} /\ UNCHANGED calls
    BY <1>3, <2>1, ElsewhereLocks DEF Drained, Elsewhere
  <2>2. CASE main' = "inTeardown" /\ Enqueue(Main, "teardown")
    <3>1. main = "drain" /\ call[Main] \in CallStates \ (Locking \cup {"gone"})
      BY <1>3, MainCalls DEF Drained, CallInv, CallTypes, LockInv
    <3> QED
      BY <2>2, <3>1, EnqueueLocks, MainCalls DEF Kinds
  <2> QED
    BY <1>3, <2>1, <2>2 DEF Drained, Fail
<1>4. CASE CloseLifecycle
  <2>1. /\ lockQ' = Append(lockQ, Main) /\ main = "close" /\ main' = "closeWait"
        /\ call' = call /\ kind' = kind /\ task' = task
    BY <1>4 DEF CloseLifecycle
  <2>2. call[Main] \notin Locking
    BY <2>1 DEF CallInv, LockInv
  <2>3. ~In(lockQ, Main) /\ Distinct(lockQ) /\ lockQ \in Seq(Callers)
    BY <2>1, <2>2, MainCalls DEF CallInv, CallTypes, LockInv
  <2>4. /\ lockQ' \in Seq(Callers) /\ Distinct(lockQ')
        /\ \A d \in Callers : In(lockQ', d) <=> In(lockQ, d) \/ d = Main
    BY <2>1, <2>3, AppendFacts, MainCalls
  <2>5. ASSUME NEW d \in Callers, call'[d] \in {"calling", "writing"} PROVE Holds(d)'
    <3>1. Holds(d)
      BY <2>1, <2>5 DEF CallInv, LockInv
    <3> QED
      BY <2>1, <2>3, <3>1, AppendHead, MainCalls DEF Holds
  <2>6. ASSUME NEW d \in Callers
        PROVE  In(lockQ', d) <=> call'[d] \in Locking \/ (d = Main /\ main' = "closeWait")
    BY <2>1, <2>4 DEF CallInv, LockInv
  <2>7. CallTypes'
    BY <2>1, <2>4 DEF CallInv, CallTypes
  <2> QED
    BY <2>1, <2>2, <2>4, <2>5, <2>6, <2>7 DEF CallInv, LockInv
<1>5. CASE Closed
  <2>1. /\ lockQ' = Without(lockQ, Main) /\ main = "closeWait" /\ main' = "end"
        /\ call' = call /\ kind' = kind /\ task' = task
    BY <1>5 DEF Closed, Leave
  <2>2. call[Main] \notin Locking
    BY <2>1 DEF CallInv, LockInv
  <2>3. In(lockQ, Main) /\ Distinct(lockQ) /\ lockQ \in Seq(Callers)
    BY <2>1, MainCalls DEF CallInv, CallTypes, LockInv
  <2>4. /\ lockQ' \in Seq(Callers) /\ Distinct(lockQ')
        /\ \A d \in Callers : In(lockQ', d) <=> In(lockQ, d) /\ d # Main
        /\ Head(lockQ) # Main => lockQ' # <<>> /\ Head(lockQ') = Head(lockQ)
    BY <2>1, <2>3, WithoutFacts, MainCalls
  <2>5. ASSUME NEW d \in Callers, call'[d] \in {"calling", "writing"} PROVE Holds(d)'
    <3>1. Holds(d) /\ d # Main
      BY <2>1, <2>2, <2>5 DEF CallInv, LockInv, Locking
    <3> QED
      BY <2>4, <3>1 DEF Holds
  <2>6. ASSUME NEW d \in Callers
        PROVE  In(lockQ', d) <=> call'[d] \in Locking \/ (d = Main /\ main' = "closeWait")
    BY <2>1, <2>2, <2>4 DEF CallInv, LockInv
  <2>7. CallTypes'
    BY <2>1, <2>4 DEF CallInv, CallTypes
  <2> QED
    BY <2>1, <2>2, <2>4, <2>5, <2>6, <2>7 DEF CallInv, LockInv
<1>6. ASSUME NEW c \in Callers, Enter(c) PROVE CallInv'
  <2>1. call[c] = "queued" /\ Holds(c) /\ main' = main /\ kind' = kind
    BY <1>6 DEF Enter
  <2>2. call[c] \in Locking /\ task[c] = "none"
    BY <2>1 DEF Locking, CallInv, LockInv
  <2>3. CASE closing
    <3>1. Answer(c, "err") /\ task' = task
      BY <1>6, <2>3 DEF Enter
    <3> QED
      BY <2>1, <2>2, <3>1, AnswerLocks DEF CallInv, CallTypes
  <2>4. CASE ~closing /\ kind[c] = "put"
    <3>1. /\ call' = [call EXCEPT ![c] = "writing"] /\ task' = [task EXCEPT ![c] = "none"]
          /\ lockQ' = lockQ
      BY <1>6, <2>4 DEF Enter
    <3> QED
      BY <2>1, <2>2, <3>1, AdvanceLocks DEF TaskStates
  <2>5. CASE ~closing /\ kind[c] # "put"
    <3>1. /\ call' = [call EXCEPT ![c] = "calling"] /\ task' = [task EXCEPT ![c] = "running"]
          /\ lockQ' = lockQ
      BY <1>6, <2>5 DEF Enter
    <3> QED
      BY <2>1, <2>2, <3>1, AdvanceLocks DEF TaskStates
  <2> QED
    BY <2>3, <2>4, <2>5
<1>7. ASSUME NEW c \in Callers, HookReturns(c) PROVE CallInv'
  <2>1. /\ call[c] = "calling" /\ main' = main /\ kind' = kind
        /\ task' = [task EXCEPT ![c] = "none"]
    BY <1>7 DEF HookReturns
  <2>2. /\ call[c] \in Locking /\ Holds(c)
        /\ task' \in [Callers -> TaskStates] /\ task'[c] = "none"
        /\ \A d \in Callers \ {c} : task'[d] = task[d]
    BY <2>1 DEF Locking, CallInv, LockInv, CallTypes, TaskStates
  <2>3. CASE Answer(c, "err") \/ Answer(c, "ok")
    BY <2>1, <2>2, <2>3, AnswerLocks
  <2>4. CASE call' = [call EXCEPT ![c] = "writing"] /\ lockQ' = lockQ
    BY <2>1, <2>2, <2>4, AdvanceLocks DEF TaskStates
  <2> QED
    BY <1>7, <2>3, <2>4 DEF HookReturns
<1>8. ASSUME NEW c \in Callers, WriteSetup(c) PROVE CallInv'
  <2>1. call[c] = "writing" /\ Answer(c, "ok") /\ UNCHANGED <<main, kind, task>>
    BY <1>8 DEF WriteSetup
  <2>2. call[c] \in Locking /\ task[c] = "none"
    BY <2>1 DEF Locking, CallInv, LockInv
  <2> QED
    BY <2>1, <2>2, AnswerLocks DEF CallInv, CallTypes
<1>9. ASSUME NEW c \in Callers, NEW r \in {"ok", "err"}, TaskEnds(c, r) PROVE CallInv'
  <2>1. /\ task[c] = "running" /\ task' = [task EXCEPT ![c] = r]
        /\ UNCHANGED <<main, lockQ, call, kind>>
    BY <1>9 DEF TaskEnds
  <2>2. CallTypes'
    BY <2>1 DEF CallInv, CallTypes, TaskStates
  <2>3. \A d \in Callers : task'[d] # "none" => task[d] # "none"
    BY <2>1 DEF CallInv, CallTypes
  <2> QED
    BY <2>1, <2>2, <2>3 DEF CallInv, LockInv, Holds
<1>10. ASSUME NEW c \in Requests, Request(c) PROVE CallInv'
  <2>1. PICK k \in Kinds : Enqueue(c, k)
    BY <1>10 DEF Request, Kinds
  <2>2. /\ call[c] \in CallStates \ (Locking \cup {"gone"}) /\ main' = main
        /\ c \in Callers /\ c # Main
    BY <1>10, LifecycleAssumption DEF Request, CallStates, Locking, Callers
  <2> QED
    BY <2>1, <2>2, EnqueueLocks
<1>11. ASSUME NEW c \in Requests, Disconnect(c) PROVE CallInv'
  <2>1. /\ call[c] \in Locking /\ Answer(c, "gone") /\ UNCHANGED <<main, kind, task>>
        /\ c \in Callers /\ c # Main
    BY <1>11, LifecycleAssumption DEF Disconnect, Locking, Callers
  <2> QED
    BY <2>1, AnswerLocks
<1> QED
  BY <1>1, <1>2, <1>3, <1>4, <1>5, <1>6, <1>7, <1>8, <1>9, <1>10, <1>11
     DEF Next, MainStep, CallStep, Exited

\* No call is in progress at the start.
LEMMA CallInit == Init => CallInv
<1> SUFFICES ASSUME Init PROVE CallInv
  OBVIOUS
<1>1. CallTypes
  BY DEF Init, CallTypes, CallStates, Kinds, TaskStates
<1>2. Distinct(lockQ) /\ \A c \in Callers : ~In(lockQ, c)
  BY DEF Init, Distinct, In
<1>3. LockInv
  BY <1>2, MainCalls DEF Init, LockInv, Locking
<1> QED
  BY <1>1, <1>3 DEF CallInv

\* lifecycle_lock: of the calls whose handler is alive at most one runs JS,
\* whatever clients ask, hang up and however run_test proceeds.
THEOREM LiveHooksSound == Spec => []LiveHooksSerialized
<1>1. CallInv => LiveHooksSerialized
  <2> SUFFICES ASSUME CallInv PROVE LiveHooksSerialized
    OBVIOUS
  <2> DEFINE L == {c \in Callers : task[c] = "running" /\ call[c] # "gone"}
  <2>1. L \subseteq {Head(lockQ)}
    BY DEF CallInv, LockInv, Holds
  <2>2. IsFiniteSet({Head(lockQ)}) /\ Cardinality({Head(lockQ)}) = 1
    BY FS_Singleton
  <2>3. Cardinality(L) <= 1
    BY <2>1, <2>2, FS_Subset
  <2> QED
    BY <2>3 DEF LiveHooksSerialized
<1> QED
  BY <1>1, CallInit, CallStepInv, PTL DEF Spec

-----------------------------------------------------------------------------
(* The seal that close_lifecycle puts on the run.                          *)

\* How a call comes to run a hook or to write, and what raises the flag.
LEMMA LateCalls ==
  ASSUME CallInv, [Next]_vars
  PROVE  /\ closing => closing'
         /\ \A c \in Callers :
              call'[c] \in {"calling", "writing"} => call'[c] = call[c] \/ ~closing
<1> USE DEF CallInv, CallTypes
<1>1. ASSUME NEW c \in Callers, Enter(c) \/ HookReturns(c) \/ WriteSetup(c)
      PROVE  /\ closing' = closing
             /\ \A d \in Callers :
                  call'[d] \in {"calling", "writing"} => call'[d] = call[d] \/ ~closing
  BY <1>1 DEF Enter, HookReturns, WriteSetup, Answer, tokens
<1>2. ASSUME NEW c \in Callers, NEW r \in {"ok", "err"}, TaskEnds(c, r)
      PROVE  closing' = closing /\ call' = call
  BY <1>2 DEF TaskEnds, tokens
<1>3. ASSUME NEW c \in Requests, Request(c) \/ Disconnect(c)
      PROVE  /\ closing' = closing
             /\ \A d \in Callers : call'[d] \in {"calling", "writing"} => call'[d] = call[d]
  BY <1>3, MainCalls DEF Request, Disconnect, Enqueue, Answer, tokens
<1>4. ASSUME BeginSetup \/ Drained
      PROVE  /\ closing => closing'
             /\ \A d \in Callers : call'[d] \in {"calling", "writing"} => call'[d] = call[d]
  BY <1>4, MainCalls DEF BeginSetup, Drained, Enqueue, Fail, tokens, calls
<1>5. ASSUME \/ CheckStart \/ WakeStart \/ SetupDone \/ SpawnScenarios \/ TeardownDone \/ EndRun
             \/ Report \/ Shutdown \/ PatchStop \/ PatchResume \/ CancelRun \/ ForceExit
             \/ UNCHANGED vars \/ CloseLifecycle \/ Closed
             \/ \E s \in Scenarios : SkipScenario(s) \/ JoinScenario(s) \/ StartScenario(s)
                                     \/ EndScenario(s)
      PROVE  (closing => closing') /\ call' = call
  BY <1>5 DEF CheckStart, WakeStart, SetupDone, SpawnScenarios, TeardownDone, EndRun,
         Report, Shutdown, PatchStop, PatchResume, CancelRun, ForceExit, vars, CloseLifecycle,
         Closed, SkipScenario, JoinScenario, StartScenario, EndScenario, Fail, tokens, calls
<1> QED
  BY <1>1, <1>2, <1>3, <1>4, <1>5 DEF Next, MainStep, CallStep, Exited

\* How run_test passes the seal.
LEMMA SealFrame ==
  ASSUME [Next]_vars
  PROVE  \/ CloseLifecycle
         \/ Closed
         \/ EndRun
         \/ /\ ended' = ended /\ late' = late
            /\ main' \in {"closeWait", "end"} => main' = main
<1>1. ASSUME NEW c \in Callers, NEW r \in {"ok", "err"},
             Enter(c) \/ HookReturns(c) \/ WriteSetup(c) \/ TaskEnds(c, r)
      PROVE  ended' = ended /\ late' = late /\ main' = main
  BY <1>1 DEF Enter, HookReturns, WriteSetup, TaskEnds, execution, ghosts
<1>2. ASSUME NEW c \in Requests, Request(c) \/ Disconnect(c)
      PROVE  ended' = ended /\ late' = late /\ main' = main
  BY <1>2 DEF Request, Disconnect, execution, ghosts
<1>3. ASSUME NEW s \in Scenarios,
             SkipScenario(s) \/ JoinScenario(s) \/ StartScenario(s) \/ EndScenario(s)
      PROVE  ended' = ended /\ late' = late /\ main' = main
  BY <1>3 DEF SkipScenario, JoinScenario, StartScenario, EndScenario, execution, ghosts
<1>4. ASSUME \/ CheckStart \/ WakeStart \/ BeginSetup \/ SetupDone \/ SpawnScenarios \/ Drained
             \/ TeardownDone \/ Report \/ Shutdown \/ PatchStop \/ PatchResume \/ CancelRun
             \/ ForceExit \/ UNCHANGED vars
      PROVE  /\ ended' = ended /\ late' = late
             /\ main' \in {"closeWait", "end"} => main' = main
  BY <1>4 DEF CheckStart, WakeStart, BeginSetup, SetupDone, SpawnScenarios, Drained,
         TeardownDone, Report, Shutdown, PatchStop, PatchResume, CancelRun, ForceExit, vars,
         Fail, execution, ghosts
<1> QED
  BY <1>1, <1>2, <1>3, <1>4 DEF Next, MainStep, CallStep, Exited

\* Every step keeps the seal.
LEMMA SealStep == CallInv /\ SealInv /\ [Next]_vars => SealInv'
<1> SUFFICES ASSUME CallInv, SealInv, [Next]_vars PROVE SealInv'
  OBVIOUS
<1>1. /\ closing => closing'
      /\ \A c \in Callers :
           call'[c] \in {"calling", "writing"} => call'[c] = call[c] \/ ~closing
  BY LateCalls
<1>2. CASE CloseLifecycle
  <2>1. main = "close" /\ main' = "closeWait" /\ closing' /\ ended' = ended /\ late' = late
    BY <1>2 DEF CloseLifecycle, execution, ghosts
  <2> QED
    BY <1>1, <2>1 DEF SealInv
<1>3. CASE Closed
  <2>1. /\ main = "closeWait" /\ main' = "end" /\ ended' = ended /\ call' = call
        /\ \/ Holds(Main) /\ late' = late
           \/ (\A c \in Callers : call[c] # "writing") /\ late'
    BY <1>3 DEF Closed, execution
  <2>2. closing'
    BY <1>1, <2>1 DEF SealInv
  <2>3. ASSUME Holds(Main), NEW c \in Callers PROVE call[c] \notin {"calling", "writing"}
    <3>1. call[Main] \notin {"calling", "writing"}
      BY <2>1 DEF CallInv, LockInv, Locking
    <3>2. call[c] \in {"calling", "writing"} => c = Main
      BY <2>3, OneHolder DEF CallInv, LockInv
    <3> QED
      BY <3>1, <3>2
  <2> QED
    BY <2>1, <2>2, <2>3 DEF SealInv
<1>4. CASE EndRun
  <2>1. main = "end" /\ main' = "report" /\ call' = call /\ late' = late /\ closing' = closing
    BY <1>4 DEF EndRun, calls, ghosts, tokens
  <2> QED
    BY <2>1 DEF SealInv
<1>5. CASE /\ ended' = ended /\ late' = late
           /\ main' \in {"closeWait", "end"} => main' = main
  BY <1>1, <1>5 DEF SealInv
<1> QED
  BY <1>2, <1>3, <1>4, <1>5, SealFrame

\* Nothing is sealed at the start.
LEMMA SealInit == Init => SealInv
  BY DEF Init, SealInv

\* "let an in-progress hook observe cancellation before the caller takes its
\* final metrics/console snapshot": from end() on no hook runs JS for a client
\* that is still there, unless close_lifecycle gave up after two seconds.
THEOREM SnapshotSound == Spec => []SnapshotQuiet
<1>1. CallInv /\ SealInv => SnapshotQuiet
  BY DEF CallInv, LockInv, SealInv, SnapshotQuiet
<1> QED
  BY <1>1, CallInit, CallStepInv, SealInit, SealStep, PTL DEF Spec

\* Only WriteSetup changes the setup data.
LEMMA SetupWriters ==
  ASSUME [Next]_vars, setupData' # setupData
  PROVE  \E c \in Callers : call[c] = "writing"
<1>1. ASSUME NEW c \in Callers, NEW r \in {"ok", "err"}, Enter(c) \/ HookReturns(c) \/ TaskEnds(c, r)
      PROVE  setupData' = setupData
  BY <1>1 DEF Enter, HookReturns, TaskEnds
<1>2. ASSUME NEW c \in Requests, Request(c) \/ Disconnect(c) PROVE setupData' = setupData
  BY <1>2 DEF Request, Disconnect, Enqueue
<1>3. ASSUME NEW s \in Scenarios,
             SkipScenario(s) \/ JoinScenario(s) \/ StartScenario(s) \/ EndScenario(s)
      PROVE  setupData' = setupData
  BY <1>3 DEF SkipScenario, JoinScenario, StartScenario, EndScenario, calls
<1>4. ASSUME \/ CheckStart \/ WakeStart \/ BeginSetup \/ SetupDone \/ SpawnScenarios \/ Drained
             \/ TeardownDone \/ CloseLifecycle \/ Closed \/ EndRun \/ Report \/ Shutdown
             \/ PatchStop \/ PatchResume \/ CancelRun \/ ForceExit \/ UNCHANGED vars
      PROVE  setupData' = setupData
  BY <1>4 DEF CheckStart, WakeStart, BeginSetup, SetupDone, SpawnScenarios, Drained,
         TeardownDone, CloseLifecycle, Closed, EndRun, Report, Shutdown, PatchStop, PatchResume,
         CancelRun, ForceExit, vars, Enqueue, calls
<1>5. ASSUME NEW c \in Callers, WriteSetup(c) PROVE call[c] = "writing"
  BY <1>5 DEF WriteSetup
<1> QED
  BY <1>1, <1>2, <1>3, <1>4, <1>5 DEF Next, MainStep, CallStep, Exited

\* After end() the setup data is final, also for a handler that was inside hook
\* or put_setup when the flag went up.
THEOREM SetupSealSound == Spec => SetupSealed
<1>1. SealInv /\ [Next]_vars => [ended => setupData' = setupData]_vars
  BY SetupWriters DEF SealInv
<1> QED
  BY <1>1, CallInit, CallStepInv, SealInit, SealStep, PTL DEF Spec, SetupSealed

-----------------------------------------------------------------------------
(* Stopping.                                                               *)

\* A REST stop cancels; cancellation is final.
LEMMA CancelStep == (stopped => cancel) /\ [Next]_vars => (stopped' => cancel')
  BY DEF Next, MainStep, CallStep, vars, execution, tokens, CheckStart, WakeStart, BeginSetup,
         SetupDone, SpawnScenarios, Drained, TeardownDone, CloseLifecycle, Closed, EndRun,
         Report, Shutdown, SkipScenario, JoinScenario, StartScenario, EndScenario, Enter,
         HookReturns, WriteSetup, TaskEnds, Request, Disconnect, PatchStop, PatchResume,
         CancelRun, ForceExit, Exited, Fail

\* Only wait_for_start begins a run, and never a cancelled one.
LEMMA StartedBy ==
  ASSUME [Next]_vars, started' # started
  PROVE  CheckStart /\ ~cancel
  BY DEF Next, MainStep, CallStep, vars, execution, CheckStart, WakeStart, BeginSetup,
         SetupDone, SpawnScenarios, Drained, TeardownDone, CloseLifecycle, Closed, EndRun,
         Report, Shutdown, SkipScenario, JoinScenario, StartScenario, EndScenario, Enter,
         HookReturns, WriteSetup, TaskEnds, Request, Disconnect, PatchStop, PatchResume,
         CancelRun, ForceExit, Exited

\* "Stopping before the initial resume skips setup and teardown", whichever of
\* stop and resume the waiting task sees first.
THEOREM StopSound == Spec => StopBeatsResume
<1>1. Init => (stopped => cancel)
  BY DEF Init
<1>2. (stopped => cancel) /\ [Next]_vars => [stopped /\ ~started => ~started']_vars
  BY StartedBy
<1> QED
  BY <1>1, <1>2, CancelStep, PTL DEF Spec, StopBeatsResume

\* The steps of calls: they leave run_test alone; they fail its teardown only
\* for a failure of its own.
LEMMA CallsKeepStop ==
  ASSUME CallInv, StopInv, Running,
         \/ \E c \in Callers : CallStep(c) \/ \E r \in {"ok", "err"} : TaskEnds(c, r)
         \/ \E c \in Requests : Request(c) \/ Disconnect(c)
  PROVE  StopInv'
<1> DEFINE Frame == /\ UNCHANGED <<main, started, stopped, cancel, closing, scn, tornDown, exit>>
                    /\ failure => failure'
<1>1. Frame
  <2>1. ASSUME NEW c \in Callers, NEW r \in {"ok", "err"}, TaskEnds(c, r) PROVE Frame
    <3>1. UNCHANGED <<main, started, stopped, cancel, closing, scn, tornDown, exit>>
      BY <2>1 DEF TaskEnds, execution, tokens
    <3>2. failure => failure'
      BY <2>1, Zenon DEF TaskEnds
    <3> QED
      BY <3>1, <3>2
  <2>2. ASSUME NEW c \in Callers, CallStep(c) PROVE Frame
    BY <2>2 DEF CallStep, Enter, HookReturns, WriteSetup, execution, tokens, ghosts
  <2>3. ASSUME NEW c \in Requests, Request(c) \/ Disconnect(c) PROVE Frame
    BY <2>3 DEF Request, Disconnect, execution, tokens, ghosts
  <2> QED
    BY <2>1, <2>2, <2>3
<1> DEFINE Kept == /\ kind'[Main] = "teardown"
                   /\ "err" \in {task'[Main], call'[Main]} => failure'
<1>2. ASSUME main = "inTeardown" PROVE Kept
  <2>0. /\ kind[Main] = "teardown" /\ ("err" \in {task[Main], call[Main]} => failure)
        /\ ~closing /\ call[Main] # "gone" /\ Main \in Callers
    BY <1>2, MainCalls DEF StopInv, CallInv, LockInv
  <2>1. ASSUME NEW c \in Callers, CallStep(c) PROVE Kept
    <3>1. /\ kind' = kind
          /\ call'[Main] = "err" => task[Main] = "err" \/ call[Main] = "err"
          /\ task'[Main] = "err" => task[Main] = "err"
      BY <2>0, <2>1 DEF CallStep, Enter, HookReturns, WriteSetup, Answer, CallInv, CallTypes
    <3> QED
      BY <1>1, <2>0, <3>1
  <2>2. ASSUME NEW c \in Callers, NEW r \in {"ok", "err"}, TaskEnds(c, r) PROVE Kept
    <3>1. /\ kind' = kind /\ call' = call /\ task' = [task EXCEPT ![c] = r]
          /\ failure' = (failure \/ (c = Main /\ r = "err" /\ ~Interrupted(c)))
      BY <2>2 DEF TaskEnds
    <3>2. ~Interrupted(Main)
      BY <2>0 DEF Interrupted
    <3>3. task'[Main] = "err" => task[Main] = "err" \/ (c = Main /\ r = "err")
      BY <2>0, <3>1 DEF CallInv, CallTypes
    <3> QED
      BY <1>1, <2>0, <3>1, <3>2, <3>3
  <2>3. ASSUME NEW c \in Requests, Request(c) \/ Disconnect(c) PROVE Kept
    <3>1. c # Main /\ c \in Callers
      BY MainCalls, LifecycleAssumption
    <3>2. kind'[Main] = kind[Main] /\ call'[Main] = call[Main] /\ task' = task
      BY <2>0, <2>3, <3>1 DEF Request, Disconnect, Enqueue, Answer, CallInv, CallTypes
    <3> QED
      BY <1>1, <2>0, <3>2
  <2> QED
    BY <2>1, <2>2, <2>3
<1>3. main' = "inTeardown" => started' /\ Kept
  BY <1>1, <1>2 DEF StopInv
<1>4. \A s \in Scenarios : scn'[s] \in {"err", "joinedErr"} => failure'
  BY <1>1 DEF StopInv
<1>5. exit' = 1 => ~stopped' \/ failure'
  BY <1>1 DEF StopInv
<1> QED
  BY <1>1, <1>3, <1>4, <1>5 DEF StopInv

\* The steps of run_test and of its scenarios, and the signals.
LEMMA RunKeepsStop ==
  ASSUME CallInv, StopInv, Running,
         \/ MainStep \/ PatchStop \/ PatchResume \/ CancelRun \/ ForceExit
         \/ \E s \in Scenarios : StartScenario(s) \/ EndScenario(s)
  PROVE  StopInv'
<1> USE DEF Running
<1>c. (stopped => cancel) => (stopped' => cancel')
  BY CancelStep DEF Next
<1>1. CASE CheckStart \/ WakeStart
  <2>1. /\ main' \in {"spawn", "setup", "starting", "parked"} /\ main \in {"starting", "parked"}
        /\ UNCHANGED <<closing, scn, failure, exit>>
    BY <1>1 DEF CheckStart, WakeStart, tokens, ghosts
  <2> QED
    BY <1>c, <2>1 DEF StopInv
<1>2. CASE BeginSetup \/ SpawnScenarios
  <2>1. /\ main' \in {"spawn", "inSetup", "drain"} /\ main \in {"setup", "spawn"}
        /\ UNCHANGED <<closing, scn, failure, exit>>
    BY <1>2 DEF BeginSetup, SpawnScenarios, tokens, ghosts
  <2> QED
    BY <1>c, <2>1 DEF StopInv
<1>3. CASE SetupDone
  <2>1. /\ UNCHANGED <<scn, failure, stopped>> /\ main = "inSetup"
        /\ \/ main' = "spawn" /\ UNCHANGED <<exit, closing>>
           \/ ~stopped /\ main' = "exited" /\ exit' = 1
    BY <1>3 DEF SetupDone, Fail, ghosts, execution
  <2> QED
    BY <1>c, <2>1 DEF StopInv
<1>4. CASE Drained
  <2>1. UNCHANGED <<scn, failure, stopped, started>> /\ main = "drain"
    BY <1>4 DEF Drained
  <2>2. CASE \E s \in Scenarios : scn[s] = "joinedErr"
    <3>1. main' = "exited" /\ exit' = 1
      BY <1>4, <2>2 DEF Drained, Fail
    <3>2. failure
      BY <2>2 DEF StopInv
    <3> QED
      BY <1>c, <2>1, <3>1, <3>2 DEF StopInv
  <2>3. CASE main' = "close" /\ tornDown' = started /\ UNCHANGED <<exit, closing>>
    BY <1>c, <2>1, <2>3 DEF StopInv
  <2>4. CASE /\ started /\ main' = "inTeardown" /\ Enqueue(Main, "teardown")
             /\ UNCHANGED <<tornDown, exit, closing>>
    <3>1. kind'[Main] = "teardown" /\ call'[Main] = "queued" /\ task'[Main] = task[Main]
      BY <2>4, MainCalls DEF Enqueue, CallInv, CallTypes
    <3>2. task[Main] = "none"
      BY <2>1, MainCalls DEF CallInv, LockInv, Locking
    <3> QED
      BY <1>c, <2>1, <2>4, <3>1, <3>2 DEF StopInv
  <2> QED
    BY <1>4, <2>2, <2>3, <2>4 DEF Drained
<1>5. CASE TeardownDone
  <2>1. /\ UNCHANGED <<scn, failure, stopped, started>> /\ main = "inTeardown"
        /\ \/ call[Main] = "err" /\ main' = "exited" /\ exit' = 1
           \/ main' = "close" /\ tornDown' = TRUE /\ UNCHANGED <<exit, closing>>
    BY <1>5 DEF TeardownDone, Fail, execution
  <2>2. started /\ (call[Main] = "err" => failure)
    BY <2>1 DEF StopInv
  <2> QED
    BY <1>c, <2>1, <2>2 DEF StopInv
<1>6. CASE CloseLifecycle \/ Closed \/ EndRun
  <2>1. /\ UNCHANGED <<scn, failure, stopped, started, tornDown, exit>>
        /\ main \in {"close", "closeWait", "end"} /\ main' \in {"closeWait", "end", "report"}
    BY <1>6 DEF CloseLifecycle, Closed, EndRun, execution, ghosts
  <2> QED
    BY <1>c, <2>1 DEF StopInv
<1>7. CASE Report
  <2>1. /\ UNCHANGED <<scn, stopped, started, tornDown>> /\ main = "report"
        /\ \/ main' = "shutdown" /\ UNCHANGED <<exit, closing, failure>>
           \/ main' = "exited" /\ exit' = 1 /\ failure' = TRUE
    BY <1>7 DEF Report, Fail, execution
  <2> QED
    BY <1>c, <2>1 DEF StopInv
<1>8. CASE Shutdown
  <2>1. /\ UNCHANGED <<scn, failure, stopped, started, tornDown>> /\ main = "shutdown"
        /\ main' = "exited"
        /\ \/ stopped /\ exit' = 103
           \/ ~stopped /\ exit' \in {0, 99}
    BY <1>8 DEF Shutdown, execution, ghosts
  <2> QED
    BY <1>c, <2>1 DEF StopInv
<1>9. ASSUME NEW s \in Scenarios, SkipScenario(s) \/ JoinScenario(s) \/ StartScenario(s)
      PROVE  StopInv'
  <2>1. /\ UNCHANGED <<main, closing, failure, stopped, started, tornDown, exit, kind, task, call>>
        /\ \/ scn' = [scn EXCEPT ![s] = "ok"]
           \/ scn' = [scn EXCEPT ![s] = "running"]
           \/ scn' = [scn EXCEPT ![s] = "joined"]
           \/ scn[s] = "err" /\ scn' = [scn EXCEPT ![s] = "joinedErr"]
    BY <1>9 DEF SkipScenario, JoinScenario, StartScenario, execution, tokens, calls, ghosts
  <2>2. /\ scn' \in [Scenarios -> ScnStates]
        /\ \A t \in Scenarios : scn'[t] \in {"err", "joinedErr"} => failure
    BY <2>1 DEF StopInv, ScnStates
  <2> QED
    BY <1>c, <2>1, <2>2 DEF StopInv
<1>10. ASSUME NEW s \in Scenarios, EndScenario(s) PROVE StopInv'
  <2>1. PICK r \in {"ok", "err"} : /\ scn' = [scn EXCEPT ![s] = r]
                                   /\ failure' = (failure \/ r = "err")
    BY <1>10 DEF EndScenario
  <2>2. UNCHANGED <<main, closing, stopped, started, tornDown, exit, kind, task, call>>
    BY <1>10 DEF EndScenario, execution, tokens, calls
  <2>3. (failure => failure') /\ (r = "err" => failure')
    BY <2>1, Zenon
  <2>4. /\ scn' \in [Scenarios -> ScnStates]
        /\ \A t \in Scenarios : scn'[t] \in {"err", "joinedErr"} => failure'
    BY <2>1, <2>3 DEF StopInv, ScnStates
  <2>5. exit' = 1 => ~stopped' \/ failure'
    BY <2>2, <2>3 DEF StopInv
  <2>6. main' = "inTeardown" =>
          started' /\ kind'[Main] = "teardown" /\ ("err" \in {task'[Main], call'[Main]} => failure')
    BY <2>2, <2>3 DEF StopInv
  <2> QED
    BY <1>c, <2>2, <2>4, <2>5, <2>6 DEF StopInv
<1>11. CASE PatchStop \/ PatchResume \/ CancelRun
  <2>1. UNCHANGED <<main, closing, scn, failure, started, tornDown, exit, kind, task, call>>
    BY <1>11 DEF PatchStop, PatchResume, CancelRun, tokens, ghosts, calls, execution
  <2> QED
    BY <1>c, <2>1 DEF StopInv
<1>12. CASE ForceExit
  <2>1. /\ UNCHANGED <<main, closing, scn, failure, started, stopped, tornDown, kind, task, call>>
        /\ exit' = 130
    BY <1>12 DEF ForceExit, tokens, ghosts, calls, execution
  <2> QED
    BY <1>c, <2>1 DEF StopInv
<1> QED
  BY <1>1, <1>2, <1>3, <1>4, <1>5, <1>6, <1>7, <1>8, <1>9, <1>10, <1>11, <1>12 DEF MainStep

\* Every step keeps StopInv; after the exit nothing changes.
LEMMA StopStep == CallInv /\ StopInv /\ [Next]_vars => StopInv'
<1> SUFFICES ASSUME CallInv, StopInv, [Next]_vars PROVE StopInv'
  OBVIOUS
<1>1. CASE UNCHANGED vars
  BY <1>1 DEF StopInv, vars, execution, tokens, calls, ghosts
<1>2. CASE Next /\ Running
  BY <1>2, CallsKeepStop, RunKeepsStop DEF Next, Exited
<1>3. CASE Next /\ ~Running
  <2>1. UNCHANGED vars
    BY <1>3 DEF Next, MainStep, CallStep, CheckStart, WakeStart, BeginSetup, SetupDone,
         SpawnScenarios, Drained, TeardownDone, CloseLifecycle, Closed, EndRun, Report,
         Shutdown, SkipScenario, JoinScenario, StartScenario, EndScenario, Enter,
         HookReturns, WriteSetup, TaskEnds, Request, Disconnect, PatchStop, PatchResume,
         CancelRun, ForceExit, Exited
  <2> QED
    BY <1>1, <2>1
<1> QED
  BY <1>1, <1>2, <1>3

\* "REST stop returns HTTP 200 and the CLI exits with code 103 ... Once execution
\* has started, stopping during setup still runs teardown": unless something
\* failed by itself or the process was killed, whenever the stop comes.
THEOREM StopDocSound == Spec => []StopDocumented
<1>1. Init => StopInv
  BY DEF Init, StopInv, ScnStates
<1>2. StopInv => StopDocumented
  BY DEF StopInv, StopDocumented, Running
<1> QED
  BY <1>1, <1>2, CallInit, CallStepInv, StopStep, PTL DEF Spec
==============================================================================
