---------------------------- MODULE PrevoutFetch ----------------------------
(***************************************************************************)
(* CoinsViewOverlay on a ThreadPool.  While ConnectBlock goes through a    *)
(* block on the main thread, tasks on the pool's workers fetch the coins   *)
(* of its inputs from the tip: they claim inputs with m_input_head, the    *)
(* main thread consumes them with m_input_tail.  Another owner of the pool *)
(* may interrupt, stop and start it at any time.  Indices count from 1.    *)
(***************************************************************************)
EXTENDS Naturals, Sequences, FiniteSets

CONSTANTS
  Worker,        \* the threads that Start creates
  Controller,    \* the thread that calls Interrupt, Stop and Start
  Prevout,
  Blocks,        \* blocks without their coinbase: sequences of [hash, vin]
  hash,          \* hash[o]: the transaction of outpoint o
  Present,       \* the outpoints with a coin in the base view
  nullopt

ASSUME BlockAssumption ==
  /\ IsFiniteSet(Worker) /\ Worker # {}
  /\ Controller \notin Worker /\ nullopt \notin Prevout
  /\ Present \subseteq Prevout
  /\ \A b \in Blocks : /\ Len(b) \in Nat /\ DOMAIN b = 1 .. Len(b)
                       /\ \A k \in DOMAIN b : b[k].vin \in Seq(Prevout)

Thread == Worker \cup {Controller}

VARIABLES
  m_work_queue,  \* number of tasks in the queue
  m_interrupt,
  m_workers,     \* m_workers.size() > 0
  thread,        \* where each thread is
  claimed,       \* the input it works on
  m_inputs,      \* [outpoint, coin, ready]
  m_input_head,
  m_input_tail,
  m_futures,     \* number of futures held
  finished,      \* number of their tasks that are finished
  main,          \* where the main thread is
  block,         \* the block being connected
  at,            \* the next of its inputs
  cacheCoins,    \* outpoints in the view's own cache
  fetched        \* the last answer of FetchCoinFromBase: [outpoint, coin]

poolVars == <<m_work_queue, m_interrupt, m_workers>>
threadVars == <<thread, claimed>>
fetchVars == <<m_inputs, m_input_head, m_input_tail, m_futures, finished>>
mainVars == <<main, block, at, cacheCoins, fetched>>
overlayVars == <<poolVars, threadVars, fetchVars, mainVars>>

PeekCoin(o) == IF o \in Present THEN o ELSE nullopt

(* The inputs of a block in order, and whether one spends an output of an  *)
(* earlier transaction of the block.                                       *)
Inputs(b) ==
  LET ins == [k \in DOMAIN b |-> [i \in DOMAIN b[k].vin |-> [tx |-> k, prevout |-> b[k].vin[i]]]]
      inputs[k \in 0 .. Len(b)] == IF k = 0 THEN <<>> ELSE inputs[k - 1] \o ins[k]
  IN inputs[Len(b)]

FromBlock(b, in) == \E j \in 1 .. in.tx - 1 : b[j].hash = hash[in.prevout]

OverlayInit ==
  /\ m_work_queue = 0 /\ m_interrupt = FALSE /\ m_workers = TRUE
  /\ thread = [t \in Thread |-> "idle"]
  /\ claimed = [t \in Thread |-> 0]
  /\ m_inputs = <<>> /\ m_input_head = 1 /\ m_input_tail = 1
  /\ m_futures = 0 /\ finished = 0
  /\ main = "idle" /\ block = <<>> /\ at = 1 /\ cacheCoins = {}
  /\ fetched = [outpoint |-> nullopt, coin |-> nullopt]

-----------------------------------------------------------------------------
(* ThreadPool.                                                             *)

(* WorkerThread takes a task.                                              *)
TakeTask(w) ==
  /\ thread[w] = "idle"
  /\ m_work_queue > 0
  /\ m_work_queue' = m_work_queue - 1
  /\ thread' = [thread EXCEPT ![w] = "claim"]
  /\ UNCHANGED <<m_interrupt, m_workers, claimed, fetchVars, mainVars>>

(* Slip: an interrupted worker leaves queued tasks behind.                 *)
WorkerExitAtOnce(w) ==
  /\ thread[w] = "idle"
  /\ m_interrupt
  /\ thread' = [thread EXCEPT ![w] = "exited"]
  /\ UNCHANGED <<poolVars, claimed, fetchVars, mainVars>>

WorkerExit(w) ==
  /\ thread[w] = "idle"
  /\ m_interrupt /\ m_work_queue = 0
  /\ thread' = [thread EXCEPT ![w] = "exited"]
  /\ UNCHANGED <<poolVars, claimed, fetchVars, mainVars>>

Interrupt ==
  /\ thread[Controller] = "idle"
  /\ m_interrupt' = TRUE
  /\ UNCHANGED <<m_work_queue, m_workers, threadVars, fetchVars, mainVars>>

(* Slip: the workers are not told to leave.                                *)
StopBeginQuietly ==
  /\ thread[Controller] = "idle"
  /\ m_workers' = FALSE
  /\ thread' = [thread EXCEPT ![Controller] = "drain"]
  /\ UNCHANGED <<m_work_queue, m_interrupt, claimed, fetchVars, mainVars>>

(* Stop first swaps the workers out ...                                    *)
StopBegin ==
  /\ thread[Controller] = "idle"
  /\ m_interrupt' = TRUE
  /\ m_workers' = FALSE
  /\ thread' = [thread EXCEPT ![Controller] = "drain"]
  /\ UNCHANGED <<m_work_queue, claimed, fetchVars, mainVars>>

(* ... helps with the queue (ProcessTask) ...                              *)
StopDrain ==
  /\ thread[Controller] = "drain"
  /\ IF m_work_queue > 0
     THEN /\ m_work_queue' = m_work_queue - 1
          /\ thread' = [thread EXCEPT ![Controller] = "claim"]
     ELSE /\ thread' = [thread EXCEPT ![Controller] = "join"]
          /\ UNCHANGED m_work_queue
  /\ UNCHANGED <<m_interrupt, m_workers, claimed, fetchVars, mainVars>>

(* ... and joins them.                                                     *)
StopJoin ==
  /\ thread[Controller] = "join"
  /\ \A w \in Worker : thread[w] = "exited"
  /\ m_interrupt' = FALSE
  /\ thread' = [thread EXCEPT ![Controller] = "idle"]
  /\ UNCHANGED <<m_work_queue, m_workers, claimed, fetchVars, mainVars>>

Start ==
  /\ thread[Controller] = "idle"
  /\ ~m_interrupt /\ ~m_workers
  /\ m_workers' = TRUE
  /\ thread' = [t \in Thread |-> "idle"]
  /\ UNCHANGED <<m_work_queue, m_interrupt, claimed, fetchVars, mainVars>>

-----------------------------------------------------------------------------
(* A task: while (ProcessInput()) {}.                                      *)

TaskDone(t) == IF t = Controller THEN "drain" ELSE "idle"

(* m_input_head is fetched and incremented at once.                        *)
Claim(t) ==
  /\ thread[t] = "claim"
  /\ m_input_head' = m_input_head + 1
  /\ IF m_input_head <= Len(m_inputs)
     THEN /\ claimed' = [claimed EXCEPT ![t] = m_input_head]
          /\ thread' = [thread EXCEPT ![t] = "fetch"]
          /\ UNCHANGED finished
     ELSE /\ thread' = [thread EXCEPT ![t] = TaskDone(t)]
          /\ claimed' = [claimed EXCEPT ![t] = 0]
          /\ finished' = finished + 1
  /\ UNCHANGED <<poolVars, m_inputs, m_input_tail, m_futures, mainVars>>

(* Slip: the flag is set before the coin is there.                         *)
FetchReadyFirst(t) ==
  /\ thread[t] = "fetch"
  /\ m_inputs' = [m_inputs EXCEPT ![claimed[t]].ready = TRUE]
  /\ thread' = [thread EXCEPT ![t] = "ready"]
  /\ UNCHANGED <<poolVars, claimed, m_input_head, m_input_tail, m_futures, finished, mainVars>>

Fetch(t) ==
  /\ thread[t] = "fetch"
  /\ m_inputs' = [m_inputs EXCEPT ![claimed[t]].coin =
                              PeekCoin(m_inputs[claimed[t]].outpoint)]
  /\ thread' = [thread EXCEPT ![t] = "ready"]
  /\ UNCHANGED <<poolVars, claimed, m_input_head, m_input_tail, m_futures, finished, mainVars>>

SetReady(t) ==
  /\ thread[t] = "ready"
  /\ m_inputs' = [m_inputs EXCEPT ![claimed[t]].ready = TRUE]
  /\ thread' = [thread EXCEPT ![t] = "claim"]
  /\ claimed' = [claimed EXCEPT ![t] = 0]
  /\ UNCHANGED <<poolVars, m_input_head, m_input_tail, m_futures, finished, mainVars>>

-----------------------------------------------------------------------------
(* The main thread: ConnectTip around CoinsViewOverlay.                    *)

(* Slip: inputs that spend outputs of the same block are queued as well.   *)
ToFetchAll(b) == Inputs(b)

(* The loop over the inputs, which leaves out those that spend outputs of  *)
(* an earlier transaction: Queued(b)[n] is what it has after n inputs.     *)
Queued(b) ==
  LET inputs == Inputs(b)
      queued[n \in 0 .. Len(inputs)] ==
        IF n = 0 THEN <<>>
        ELSE IF FromBlock(b, inputs[n]) THEN queued[n - 1]
        ELSE Append(queued[n - 1], inputs[n])
  IN queued

ToFetch(b) == Queued(b)[Len(Inputs(b))]

(* StartFetching up to the tasks: it asks for WorkersCount first ...       *)
StartFetching(b) ==
  /\ main = "idle"
  /\ block' = b
  /\ at' = 1
  /\ IF m_workers
     THEN /\ m_inputs' = [i \in DOMAIN ToFetch(b) |->
                            [outpoint |-> ToFetch(b)[i].prevout, coin |-> nullopt, ready |-> FALSE]]
          /\ main' = IF ToFetch(b) = <<>> THEN "connect" ELSE "submit"
     ELSE main' = "connect" /\ UNCHANGED m_inputs
  /\ UNCHANGED <<poolVars, threadVars, m_input_head, m_input_tail, m_futures, finished,
                 cacheCoins, fetched>>

(* ... and submits a task per worker, which fails when the pool is no      *)
(* longer active.                                                          *)
Submit ==
  /\ main = "submit"
  /\ IF m_workers /\ ~m_interrupt
     THEN /\ m_work_queue' = m_work_queue + Cardinality(Worker)
          /\ m_futures' = Cardinality(Worker)
          /\ UNCHANGED m_inputs
     ELSE /\ m_inputs' = <<>>
          /\ UNCHANGED <<m_work_queue, m_futures>>
  /\ main' = "connect"
  /\ UNCHANGED <<m_interrupt, m_workers, threadVars, m_input_head, m_input_tail, finished,
                 block, at, cacheCoins, fetched>>

(* HaveInputs went on to the next input, or found it missing, which makes  *)
(* the block invalid.                                                      *)
Answered(o, coin) ==
  /\ fetched' = [outpoint |-> o, coin |-> coin]
  /\ IF coin = nullopt THEN /\ main' = "stop"
                            /\ UNCHANGED <<at, cacheCoins>>
                       ELSE /\ main' = "connect"
                            /\ at' = at + 1
                            /\ cacheCoins' = cacheCoins \cup {o}

(* HaveCoin of the next input.  In the cache: outputs of earlier           *)
(* transactions, and coins fetched before, which are spent by now (the     *)
(* same input twice is invalid).  Otherwise FetchCoinFromBase.             *)
ConnectInput ==
  /\ main = "connect"
  /\ at <= Len(Inputs(block))
  /\ LET in == Inputs(block)[at]
         o == in.prevout
     IN CASE o \in cacheCoins -> /\ main' = "stop"
                               /\ UNCHANGED <<at, cacheCoins, fetched, m_input_tail>>
          [] o \notin cacheCoins /\ FromBlock(block, in)
               -> at' = at + 1 /\ UNCHANGED <<main, cacheCoins, fetched, m_input_tail>>
          [] OTHER ->
               IF m_input_tail <= Len(m_inputs) /\ m_inputs[m_input_tail].outpoint = o
               THEN /\ m_input_tail' = m_input_tail + 1
                    /\ main' = "wait"
                    /\ UNCHANGED <<at, cacheCoins, fetched>>
               ELSE Answered(o, PeekCoin(o)) /\ UNCHANGED m_input_tail
  /\ UNCHANGED <<poolVars, threadVars, m_inputs, m_input_head, m_futures, finished, block>>

(* ready.wait returns.                                                     *)
WaitReady ==
  /\ main = "wait"
  /\ LET input == m_inputs[m_input_tail - 1]
     IN input.ready /\ Answered(input.outpoint, input.coin)
  /\ UNCHANGED <<poolVars, threadVars, fetchVars, block>>

(* All inputs are there: Flush.  Or ConnectBlock refuses the block for     *)
(* another reason: Reset.  Both call StopFetching.                         *)
ConnectDone ==
  /\ main = "connect"
  /\ at > Len(Inputs(block))
  /\ main' = "stop"
  /\ UNCHANGED <<poolVars, threadVars, fetchVars, block, at, cacheCoins, fetched>>

ConnectRefused ==
  /\ main = "connect"
  /\ at <= Len(Inputs(block))
  /\ main' = "stop"
  /\ UNCHANGED <<poolVars, threadVars, fetchVars, block, at, cacheCoins, fetched>>

(* StopFetching moves the head to the end ...                              *)
StopFetching ==
  /\ main = "stop"
  /\ m_input_head' = IF m_futures = 0 THEN m_input_head ELSE Len(m_inputs) + 1
  /\ main' = "clear"
  /\ UNCHANGED <<poolVars, threadVars, m_inputs, m_input_tail, m_futures, finished,
                 block, at, cacheCoins, fetched>>

(* Slip: it does not wait for the futures.                                 *)
ClearWithoutWaiting ==
  /\ main = "clear"
  /\ m_inputs' = <<>> /\ m_input_head' = 1 /\ m_input_tail' = 1
  /\ m_futures' = 0 /\ finished' = 0
  /\ main' = "idle" /\ block' = <<>> /\ at' = 1 /\ cacheCoins' = {}
  /\ UNCHANGED <<poolVars, threadVars, fetched>>

(* ... waits for every future, and clears.                                 *)
Clear ==
  /\ main = "clear"
  /\ finished = m_futures
  /\ m_inputs' = <<>> /\ m_input_head' = 1 /\ m_input_tail' = 1
  /\ m_futures' = 0 /\ finished' = 0
  /\ main' = "idle" /\ block' = <<>> /\ at' = 1 /\ cacheCoins' = {}
  /\ UNCHANGED <<poolVars, threadVars, fetched>>

WorkerStep(w) == TakeTask(w) \/ WorkerExit(w)
TaskStep(t) == Claim(t) \/ Fetch(t) \/ SetReady(t)
StopStep == StopDrain \/ StopJoin
MainStep == Submit \/ ConnectInput \/ WaitReady \/ ConnectDone \/ StopFetching \/ Clear

OverlayNext ==
  \/ \E w \in Worker : WorkerStep(w)
  \/ \E t \in Thread : TaskStep(t)
  \/ Interrupt \/ StopBegin \/ StopStep \/ Start
  \/ \E b \in Blocks : StartFetching(b)
  \/ ConnectRefused \/ MainStep

(* Every thread runs: a worker that can take a task, exit or go on with a  *)
(* task does, the main thread gets on with its block, and Stop with        *)
(* stopping.  Nobody has to interrupt or to start the pool.                *)
Fairness ==
  /\ \A w \in Worker : WF_overlayVars(WorkerStep(w))
  /\ \A t \in Thread : WF_overlayVars(TaskStep(t))
  /\ WF_overlayVars(StopStep)
  /\ WF_overlayVars(MainStep)

OverlaySpec == OverlayInit /\ [][OverlayNext]_overlayVars /\ Fairness
-----------------------------------------------------------------------------
(* FetchCoinFromBase answers what the base view would: the main thread     *)
(* never reads a coin before its worker wrote it, nor another input's.     *)
FetchedFromBase ==
  fetched.outpoint # nullopt => fetched.coin = PeekCoin(fetched.outpoint)

(* An input is claimed by one task at a time, a claimed one is still there *)
(* and not ready yet (ProcessInput asserts it): m_inputs is never cleared  *)
(* or refilled under a task.  And what StartFetching and StopFetching      *)
(* assert: without futures nothing of a block is left, nor is a task       *)
(* queued or running that could touch the next one.                        *)
ClaimsExclusive ==
  /\ \A t \in Thread : claimed[t] # 0 =>
       /\ claimed[t] \in DOMAIN m_inputs
       /\ ~m_inputs[claimed[t]].ready
       /\ \A u \in Thread \ {t} : claimed[u] # claimed[t]
  /\ (m_futures = 0 /\ main # "submit") =>
       /\ m_inputs = <<>> /\ m_input_head = 1 /\ m_input_tail = 1
       /\ m_work_queue = 0 /\ \A t \in Thread : thread[t] # "claim"

(* Flush assumes AllInputsConsumed: a block whose inputs are all there     *)
(* asks for them in the order in which they were queued.                   *)
AllInputsConsumed ==
  (main = "connect" /\ at > Len(Inputs(block))) => m_input_tail = Len(m_inputs) + 1

(* A main thread that waits for an input gets it, and a block that was     *)
(* started is finished, even if the pool is interrupted or stopped in the  *)
(* middle: workers leave only when the queue is empty.                     *)
BlockFinishes == (main # "idle") ~> (main = "idle")

(* Stop returns, even while the main thread waits for its tasks.           *)
StopReturns == (thread[Controller] = "drain") ~> (thread[Controller] = "idle")
=============================================================================
