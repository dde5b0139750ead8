----------------------------- MODULE CheckQueue -----------------------------
(***************************************************************************)
(* CCheckQueue: the queue of script checks that ConnectBlock fills.        *)
(* Workers and, in Complete, the master take batches from the end of the   *)
(* queue; the first error found is what Complete returns.  A check stands  *)
(* for its outcome: nullopt or an error.  The condition variables are      *)
(* those of the C++ library: a waiting thread wakes up when notified, or   *)
(* spuriously.                                                             *)
(***************************************************************************)
EXTENDS Naturals, Sequences, FiniteSetsExt

CONSTANTS
  Worker,        \* the threads of m_worker_threads
  Master,        \* the threads that use a CCheckQueueControl
  Error, nullopt,
  nBatchSize,
  MaxAdded,      \* bound on the checks of one control
  MaxControls    \* bound on the controls

ASSUME QueueAssumption ==
  /\ Worker \cap Master = {}
  /\ nullopt \notin Error \cup Worker \cup Master
  /\ nBatchSize \in Nat \ {0}
  /\ MaxAdded \in Nat

Outcome == Error \cup {nullopt}
Thread == Worker \cup Master

VARIABLES
  m_mutex,       \* its owner, nullopt if it is free
  queue, nIdle, nTotal, m_result, nTodo, m_request_stop,
  dtor,          \* where the destructor is
  pc,            \* where each thread is
  vChecks,       \* its batch, kept until nNow = Len(vChecks) is accounted
  local_result,
  do_work,
  control,       \* the thread that holds m_control_mutex, nullopt if none
  controls,      \* number of controls so far
  added,         \* the checks added by the current control
  answer         \* [ret, checks]: the last return of Complete

queueVars == <<queue, nIdle, nTotal, m_result, nTodo, m_request_stop>>

loopVars == <<vChecks, local_result, do_work>>
controlVars == <<control, controls, added, answer>>
vars == <<m_mutex, queueVars, dtor, pc, loopVars, controlVars>>

Init ==
  /\ queue = <<>> /\ nIdle = 0 /\ nTotal = 0 /\ m_result = nullopt /\ nTodo = 0
  /\ m_request_stop = FALSE /\ dtor = "none" /\ m_mutex = nullopt
  /\ pc = [t \in Thread |-> IF t \in Worker THEN "loop" ELSE "idle"]
  /\ vChecks = [t \in Thread |-> <<>>]
  /\ local_result = [t \in Thread |-> nullopt]
  /\ do_work = [t \in Thread |-> FALSE]
  /\ control = nullopt /\ controls = 0 /\ added = <<>>
  /\ answer = [ret |-> nullopt, checks |-> <<>>]

-----------------------------------------------------------------------------
(* The master: a control is created, checks are added, Complete is called  *)
(* (by the destructor of the control at the latest).                       *)

Goto(t, next) == pc' = [pc EXCEPT ![t] = next]

NewControl(t) ==
  /\ pc[t] = "idle"
  /\ control = nullopt /\ dtor = "none"
  /\ controls < MaxControls /\ controls' = controls + 1
  /\ control' = t
  /\ added' = <<>>
  /\ Goto(t, "adding")
  /\ UNCHANGED <<m_mutex, queueVars, dtor, loopVars, answer>>

Add(t, checks) ==
  /\ pc[t] = "adding"
  /\ m_mutex = nullopt
  /\ checks # <<>> /\ Len(added) + Len(checks) <= MaxAdded
  /\ queue' = queue \o checks
  /\ nTodo' = nTodo + Len(checks)
  /\ added' = added \o checks
  /\ Goto(t, IF Len(checks) = 1 THEN "notify_one" ELSE "notify_all")
  /\ UNCHANGED <<m_mutex, nIdle, nTotal, m_result, m_request_stop, dtor, loopVars,
                 control, controls, answer>>

Waiting(S) == {t \in S : pc[t] = "waiting"}

(* notify_one and notify_all for the threads of S; t goes on at next.      *)
NotifyOne(S, t, next) ==
  IF Waiting(S) = {} THEN Goto(t, next)
  ELSE \E w \in Waiting(S) : pc' = [pc EXCEPT ![t] = next, ![w] = "woken"]

Woken(S) == [t \in Thread |-> IF t \in Waiting(S) THEN "woken" ELSE pc[t]]

AddNotifies(t) ==
  /\ \/ pc[t] = "notify_one" /\ NotifyOne(Worker, t, "adding")
     \/ pc[t] = "notify_all" /\ pc' = [Woken(Worker) EXCEPT ![t] = "adding"]
  /\ UNCHANGED <<m_mutex, queueVars, dtor, loopVars, controlVars>>

Complete(t) ==
  /\ pc[t] = "adding"
  /\ Goto(t, "loop")
  /\ UNCHANGED <<m_mutex, queueVars, dtor, loopVars, controlVars>>

-----------------------------------------------------------------------------
(* Loop.                                                                   *)

nNow(t) == Len(vChecks[t])

Unfinished(t) == nTodo - nNow(t)

(* Slip: nTodo is looked at before the batch is taken off.                 *)
FinishedBefore(t) == nTodo = 0 /\ t \notin Master

FinishedLast(t) == Unfinished(t) = 0 /\ t \notin Master

(* The critical section, with the clean-up of the previous round first.    *)
CleanUp(t) ==
  /\ pc[t] = "loop"
  /\ m_mutex = nullopt /\ m_mutex' = t
  /\ IF nNow(t) = 0
     THEN /\ nTotal' = nTotal + 1
          /\ Goto(t, "locked")
          /\ UNCHANGED <<m_result, nTodo, local_result>>
     ELSE /\ IF local_result[t] # nullopt /\ m_result = nullopt
             THEN /\ m_result' = local_result[t]
                  /\ local_result' = [local_result EXCEPT ![t] = nullopt]
             ELSE UNCHANGED <<m_result, local_result>>
          /\ nTodo' = Unfinished(t)
          /\ IF FinishedLast(t)
             THEN NotifyOne(Master, t, "locked")
             ELSE Goto(t, "locked")
          /\ UNCHANGED nTotal
  /\ vChecks' = [vChecks EXCEPT ![t] = <<>>]
  /\ UNCHANGED <<queue, nIdle, m_request_stop, dtor, do_work, controlVars>>

(* Slip: the result is not reset.                                          *)
ReturnKeepsResult(t) ==
  /\ pc[t] = "locked" /\ t \in Master
  /\ queue = <<>> /\ ~m_request_stop /\ nTodo = 0
  /\ nTotal' = nTotal - 1
  /\ answer' = [ret |-> m_result, checks |-> added]
  /\ local_result' = [local_result EXCEPT ![t] = nullopt]
  /\ control' = nullopt
  /\ Goto(t, "idle")
  /\ m_mutex' = nullopt
  /\ UNCHANGED <<queue, nIdle, nTodo, m_result, m_request_stop, dtor, vChecks, do_work, controls, added>>

(* The master's return, with the result reset for new work.                *)
Return(t) ==
  /\ pc[t] = "locked" /\ t \in Master
  /\ queue = <<>> /\ ~m_request_stop /\ nTodo = 0
  /\ nTotal' = nTotal - 1
  /\ answer' = [ret |-> m_result, checks |-> added]
  /\ m_result' = nullopt
  /\ local_result' = [local_result EXCEPT ![t] = nullopt]
  /\ control' = nullopt
  /\ Goto(t, "idle")
  /\ m_mutex' = nullopt
  /\ UNCHANGED <<queue, nIdle, nTodo, m_request_stop, dtor, vChecks, do_work, controls, added>>

(* Slip: the loop goes back to sleep on a request to stop.                 *)
WaitOn(t) ==
  /\ pc[t] = "locked"
  /\ queue = <<>>
  /\ t \in Master => nTodo # 0
  /\ nIdle' = nIdle + 1
  /\ Goto(t, "waiting")
  /\ m_mutex' = nullopt
  /\ UNCHANGED <<queue, nTotal, m_result, nTodo, m_request_stop, dtor, loopVars, controlVars>>

Wait(t) ==
  /\ pc[t] = "locked"
  /\ queue = <<>> /\ ~m_request_stop
  /\ t \in Master => nTodo # 0
  /\ nIdle' = nIdle + 1
  /\ Goto(t, "waiting")
  /\ m_mutex' = nullopt
  /\ UNCHANGED <<queue, nTotal, m_result, nTodo, m_request_stop, dtor, loopVars, controlVars>>

SpuriousWakeup(t) ==
  /\ pc[t] = "waiting"
  /\ Goto(t, "woken")
  /\ UNCHANGED <<m_mutex, queueVars, dtor, loopVars, controlVars>>

WakeUp(t) ==
  /\ pc[t] = "woken"
  /\ m_mutex = nullopt /\ m_mutex' = t
  /\ nIdle' = nIdle - 1
  /\ Goto(t, "locked")
  /\ UNCHANGED <<queue, nTotal, m_result, nTodo, m_request_stop, dtor, loopVars, controlVars>>

Exit(t) ==
  /\ pc[t] = "locked" /\ m_request_stop
  /\ Goto(t, "exited")
  /\ m_mutex' = nullopt
  /\ UNCHANGED <<queueVars, dtor, loopVars, controlVars>>

Now == Max({1, Min({nBatchSize, Len(queue) \div (nTotal + nIdle + 1)})})

TakeBatch(t) ==
  /\ pc[t] = "locked"
  /\ queue # <<>> /\ ~m_request_stop
  /\ vChecks' = [vChecks EXCEPT ![t] = SubSeq(queue, Len(queue) - Now + 1, Len(queue))]
  /\ queue' = SubSeq(queue, 1, Len(queue) - Now)
  /\ do_work' = [do_work EXCEPT ![t] = m_result = nullopt]
  /\ Goto(t, "execute")
  /\ m_mutex' = nullopt
  /\ UNCHANGED <<nIdle, nTotal, m_result, nTodo, m_request_stop, dtor, local_result, controlVars>>

(* The checks in order, up to the first error.                             *)
Run(checks) ==
  LET failing == {i \in DOMAIN checks : checks[i] # nullopt}
  IN IF failing = {} THEN nullopt ELSE checks[Min(failing)]

Execute(t) ==
  /\ pc[t] = "execute"
  /\ local_result' = IF do_work[t] THEN [local_result EXCEPT ![t] = Run(vChecks[t])] ELSE local_result
  /\ Goto(t, "loop")
  /\ UNCHANGED <<m_mutex, queueVars, dtor, vChecks, do_work, controlVars>>

-----------------------------------------------------------------------------
(* The destructor, when no control is left.                                *)

RequestStop ==
  /\ dtor = "none" /\ control = nullopt
  /\ m_mutex = nullopt
  /\ m_request_stop' = TRUE
  /\ dtor' = "notify"
  /\ UNCHANGED <<m_mutex, queue, nIdle, nTotal, m_result, nTodo, pc, loopVars, controlVars>>

NotifyStop ==
  /\ dtor = "notify"
  /\ pc' = Woken(Worker)
  /\ dtor' = "join"
  /\ UNCHANGED <<m_mutex, queueVars, loopVars, controlVars>>

Join ==
  /\ dtor = "join"
  /\ \A w \in Worker : pc[w] = "exited"
  /\ dtor' = "joined"
  /\ UNCHANGED <<m_mutex, queueVars, pc, loopVars, controlVars>>

Done == dtor = "joined" /\ UNCHANGED vars

Loop(t) ==
  CleanUp(t) \/ Return(t) \/ Wait(t) \/ WakeUp(t) \/ Exit(t) \/ TakeBatch(t) \/ Execute(t)

Next ==
  \/ \E t \in Master : NewControl(t) \/ AddNotifies(t) \/ Complete(t)
  \/ \E t \in Master, m \in 0 .. MaxAdded : \E checks \in [1 .. m -> Outcome] : Add(t, checks)
  \/ \E t \in Thread : Loop(t) \/ SpuriousWakeup(t)
  \/ RequestStop \/ NotifyStop \/ Join \/ Done

(* Every thread keeps running, and gets m_mutex in the end; ConnectBlock   *)
(* comes to the end of its block and calls Complete.                       *)
Fairness ==
  /\ \A t \in Thread : SF_vars(Loop(t))
  /\ \A t \in Master : WF_vars(Complete(t)) /\ WF_vars(AddNotifies(t))
  /\ WF_vars(NotifyStop) /\ WF_vars(Join)

Spec == Init /\ [][Next]_vars /\ Fairness

-----------------------------------------------------------------------------
(* Complete returns nullopt exactly when every check added under its       *)
(* control gave nullopt, and else the error of one of these checks: no     *)
(* batch is missed or counted twice, and no result, in m_result or in a    *)
(* worker's local_result, is left over from an earlier block.              *)
CompleteFaithful ==
  /\ answer.ret = nullopt <=> Range(answer.checks) \subseteq {nullopt}
  /\ answer.ret # nullopt => answer.ret \in Range(answer.checks)

(* A master that has called Complete gets its answer: the wait on          *)
(* m_master_cv never misses the notification for the last check, although  *)
(* only a worker that brings nTodo to 0 gives it.                          *)
CompleteReturns == \A t \in Master : pc[t] = "loop" ~> pc[t] = "idle"

(* The destructor returns: no worker misses the request to stop.           *)
StopReturns == dtor = "notify" ~> dtor = "joined"
=============================================================================
