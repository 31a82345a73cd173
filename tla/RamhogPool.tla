----------------------------- MODULE RamhogPool -----------------------------
(***************************************************************************)
(* The multi-threaded RAMHOG proof-of-work engine of src/hashblock/        *)
(* ramhog_mt.cpp: CRamhogThreadPool::ramhog (the facade run by a caller    *)
(* thread), ramhog_mt (run by a thread of the command pool),               *)
(* ramhog_gen_pad_mt (run by a thread of the worker pool), the semaphore   *)
(* waitPads, the slot table fPadUsed with its scratchpads, the global      *)
(* chain tip pindexBest and the flag fNeedCheckBlock set by                *)
(* SetNeedCheckBlock around SignedHash::SendSignedHash (signedhash.cpp).   *)
(*                                                                         *)
(* Data is abstracted: the input of one call is <<caller, generation>>,    *)
(* a pad holds the input that last filled it, pindexBest is a counter of   *)
(* best-block changes (pointers are compared for equality only).           *)
(***************************************************************************)
EXTENDS Integers, Sequences, FiniteSets

CONSTANTS
    Miners,          \* threads calling ramhog(..., fForMiner = true)
    Checkers,        \* threads running SendSignedHash (fForMiner = false)
    NumSimultaneous, \* numSimultaneous: slots, semaphore size, command threads
    NumWorkers,      \* numWorkers: threads of the pad worker pool
    NPads,           \* N: pads per computation
    MaxTip,          \* bound on the number of best-block changes
    NoCaller, NoJob  \* sentinels (model values)

Callers    == Miners \cup Checkers
Slots      == 0 .. NumSimultaneous - 1
Pads       == 0 .. NPads - 1
CmdThreads == 1 .. NumSimultaneous
Workers    == 1 .. NumWorkers
NoSlot     == -1
Inputs     == Callers \X {0, 1}
NoInput    == <<NoCaller, 0>>
Job        == [caller : Callers, pad : Pads, slot : Slots, input : Inputs]

ASSUME /\ Miners \cap Checkers = {}
       /\ NumSimultaneous >= 1 /\ NumWorkers >= 1 /\ NPads >= 1
       /\ MaxTip \in Nat

VARIABLES
    tip,        \* pindexBest
    needCheck,  \* fNeedCheckBlock
    sem,        \* count of the semaphore waitPads
    padUsed,    \* fPadUsed[]
    pads,       \* scratchpads[slot][pad]: the input that last filled it
    pc,         \* program counter of each caller thread
    snap,       \* pindexForBest captured by the caller
    slot,       \* whichPad
    gen,        \* generation of the caller's current input
    done,       \* the promise ramhog_done of each caller
    cmdQueue,   \* pending handlers of commandService
    cmd,        \* the caller whose ramhog_mt a command thread is joining
    workQueue,  \* pending handlers of workerService
    worker,     \* the job a worker thread is filling
    padDone     \* the promises pad_dones[] of each running ramhog_mt

vars == <<tip, needCheck, sem, padUsed, pads, pc, snap, slot, gen, done,
          cmdQueue, cmd, workQueue, worker, padDone>>

ForMiner(c) == c \in Miners
Input(c)    == <<c, gen[c]>>
Stale(c)    == ForMiner(c) /\ snap[c] # tip

TypeOK ==
    /\ tip \in 0 .. MaxTip
    /\ needCheck \in BOOLEAN
    /\ sem \in 0 .. NumSimultaneous
    /\ padUsed \in [Slots -> BOOLEAN]
    /\ pads \in [Slots -> [Pads -> Inputs \cup {NoInput}]]
    /\ pc \in [Callers -> {"idle", "begin", "wait", "pick", "await", "post",
                           "clear", "mismatch"}]
    /\ snap \in [Callers -> 0 .. MaxTip]
    /\ slot \in [Callers -> Slots \cup {NoSlot}]
    /\ gen \in [Callers -> {0, 1}]
    /\ done \in [Callers -> {"unset", "true", "false"}]
    /\ cmdQueue \in Seq(Callers)
    /\ cmd \in [CmdThreads -> Callers \cup {NoCaller}]
    /\ workQueue \in Seq(Job)
    /\ worker \in [Workers -> Job \cup {NoJob}]
    /\ padDone \in [Callers -> [Pads -> {"unset", "ok", "stale"}]]

Init ==
    /\ tip = 0
    /\ needCheck = FALSE
    /\ sem = NumSimultaneous
    /\ padUsed = [s \in Slots |-> FALSE]
    /\ pads = [s \in Slots |-> [j \in Pads |-> NoInput]]
    /\ pc = [c \in Callers |-> IF ForMiner(c) THEN "begin" ELSE "idle"]
    /\ snap = [c \in Callers |-> 0]
    /\ slot = [c \in Callers |-> NoSlot]
    /\ gen = [c \in Callers |-> 0]
    /\ done = [c \in Callers |-> "unset"]
    /\ cmdQueue = <<>>
    /\ cmd = [t \in CmdThreads |-> NoCaller]
    /\ workQueue = <<>>
    /\ worker = [w \in Workers |-> NoJob]
    /\ padDone = [c \in Callers |-> [j \in Pads |-> "unset"]]

(***************************************************************************)
(* The chain tip moves (a new best block is connected by another thread).  *)
(***************************************************************************)
NewBestBlock ==
    /\ tip < MaxTip
    /\ tip' = tip + 1
    /\ UNCHANGED <<needCheck, sem, padUsed, pads, pc, snap, slot, gen, done,
                   cmdQueue, cmd, workQueue, worker, padDone>>

(***************************************************************************)
(* SendSignedHash: SetNeedCheckBlock(true) before ComputeBlockPoWHash and  *)
(* SetNeedCheckBlock(false) after it.                                      *)
(***************************************************************************)
SetNeedCheckBlock(c, fNew) ==
    /\ pc[c] = IF fNew THEN "idle" ELSE "clear"
    /\ needCheck' = fNew
    /\ pc' = [pc EXCEPT ![c] = IF fNew THEN "begin" ELSE "idle"]
    /\ UNCHANGED <<tip, sem, padUsed, pads, snap, slot, gen, done, cmdQueue,
                   cmd, workQueue, worker, padDone>>

\* Where a caller goes when ramhog() returns.
AfterCall(c) == IF ForMiner(c) THEN "begin" ELSE "clear"

(***************************************************************************)
(* ramhog(): the fNeedCheckBlock test under cs_needCheckBlock, then the    *)
(* capture of pindexBest.  A miner call during a check returns false.      *)
(***************************************************************************)
\* Mutant: the fNeedCheckBlock test is dropped.
BusyNever(c) == FALSE

BusyForMiner(c) == needCheck /\ ForMiner(c)

RamhogBegin(c) ==
    /\ pc[c] = "begin"
    /\ IF BusyForMiner(c)
         THEN UNCHANGED <<pc, snap>>
         ELSE /\ snap' = [snap EXCEPT ![c] = tip]
              /\ pc' = [pc EXCEPT ![c] = "wait"]
    /\ UNCHANGED <<tip, needCheck, sem, padUsed, pads, slot, gen, done,
                   cmdQueue, cmd, workQueue, worker, padDone>>

\* Mutant: the wait does not block on an exhausted semaphore.
RamhogWaitUnblocked(c) ==
    /\ pc[c] = "wait"
    /\ sem' = sem - 1
    /\ pc' = [pc EXCEPT ![c] = "pick"]
    /\ UNCHANGED <<tip, needCheck, padUsed, pads, snap, slot, gen, done,
                   cmdQueue, cmd, workQueue, worker, padDone>>

\* waitPads.wait()
RamhogWait(c) ==
    /\ pc[c] = "wait"
    /\ sem > 0
    /\ sem' = sem - 1
    /\ pc' = [pc EXCEPT ![c] = "pick"]
    /\ UNCHANGED <<tip, needCheck, padUsed, pads, snap, slot, gen, done,
                   cmdQueue, cmd, workQueue, worker, padDone>>

(***************************************************************************)
(* After the wait: the staleness re-check (post and return false), else    *)
(* the scan of fPadUsed under cs_pickPad for the first free slot (post and *)
(* throw when there is none), else posting ramhog_mt to commandService.   *)
(***************************************************************************)
MarkUsed(s) == padUsed' = [padUsed EXCEPT ![s] = TRUE]

RamhogPick(c) ==
    /\ pc[c] = "pick"
    /\ \/ /\ Stale(c)
          /\ sem' = sem + 1
          /\ pc' = [pc EXCEPT ![c] = AfterCall(c)]
          /\ UNCHANGED <<padUsed, slot, gen, done, cmdQueue>>
       \/ /\ ~Stale(c)
          /\ LET free == {s \in Slots : ~padUsed[s]} IN
             IF free = {}
               THEN /\ sem' = sem + 1
                    /\ pc' = [pc EXCEPT ![c] = "mismatch"]
                    /\ UNCHANGED <<padUsed, slot, gen, done, cmdQueue>>
               ELSE LET s == CHOOSE x \in free : \A y \in free : x <= y IN
                    /\ MarkUsed(s)
                    /\ slot' = [slot EXCEPT ![c] = s]
                    /\ gen' = [gen EXCEPT ![c] = 1 - gen[c]]
                    /\ done' = [done EXCEPT ![c] = "unset"]
                    /\ cmdQueue' = Append(cmdQueue, c)
                    /\ pc' = [pc EXCEPT ![c] = "await"]
                    /\ UNCHANGED sem
    /\ UNCHANGED <<tip, needCheck, pads, snap, workQueue, worker, cmd, padDone>>

(***************************************************************************)
(* ramhog_done.get_future().get(), then fPadUsed[whichPad] = false under   *)
(* cs_pickPad.                                                             *)
(***************************************************************************)
\* Mutant: fPadUsed[whichPad] is never reset.
UnmarkUsedForgotten(s) == padUsed' = padUsed

UnmarkUsed(s) == padUsed' = [padUsed EXCEPT ![s] = FALSE]

RamhogCollect(c) ==
    /\ pc[c] = "await"
    /\ done[c] # "unset"
    /\ UnmarkUsed(slot[c])
    /\ slot' = [slot EXCEPT ![c] = NoSlot]
    /\ pc' = [pc EXCEPT ![c] = "post"]
    /\ UNCHANGED <<tip, needCheck, sem, pads, snap, gen, done, cmdQueue, cmd,
                   workQueue, worker, padDone>>

\* waitPads.post(); return fSuccess
RamhogPost(c) ==
    /\ pc[c] = "post"
    /\ sem' = sem + 1
    /\ pc' = [pc EXCEPT ![c] = AfterCall(c)]
    /\ UNCHANGED <<tip, needCheck, padUsed, pads, snap, slot, gen, done,
                   cmdQueue, cmd, workQueue, worker, padDone>>

(***************************************************************************)
(* ramhog_mt on a command thread: the staleness check before pad gen, then *)
(* posting the N pad jobs to workerService in pad order.                   *)
(***************************************************************************)
\* Mutant: the early return forgets args.done.set_value.
CmdInterruptedSilently(t, c) == UNCHANGED <<done, cmd, workQueue, padDone>>

CmdInterrupted(t, c) ==
    /\ done' = [done EXCEPT ![c] = "false"]
    /\ UNCHANGED <<cmd, workQueue, padDone>>

PadJobs(c) ==
    [i \in 1 .. NPads |-> [caller |-> c, pad |-> i - 1, slot |-> slot[c],
                           input |-> Input(c)]]

CmdStart(t) ==
    /\ cmd[t] = NoCaller
    /\ cmdQueue # <<>>
    /\ cmdQueue' = Tail(cmdQueue)
    /\ LET c == Head(cmdQueue) IN
         IF Stale(c)
           THEN CmdInterrupted(t, c)
           ELSE /\ workQueue' = workQueue \o PadJobs(c)
                /\ padDone' = [padDone EXCEPT ![c] = [j \in Pads |-> "unset"]]
                /\ cmd' = [cmd EXCEPT ![t] = c]
                /\ UNCHANGED done
    /\ UNCHANGED <<tip, needCheck, sem, padUsed, pads, pc, snap, slot, gen,
                   worker>>

(***************************************************************************)
(* The join "fSuccess &= pad_dones[i].get_future().get()" over all pads,   *)
(* then either the "interrupted after pad gen" result or                   *)
(* ramhog_run_iterations over the slot's pads and done.set_value(true).    *)
(* The mix reads every pad; its result is correct only if each pad holds   *)
(* this call's input (PadsIntact).                                         *)
(***************************************************************************)
\* Mutant: the join short-circuits ("fSuccess = fSuccess && get()").
JoinStopsAtStale(c) ==
    \E k \in Pads : /\ \A j \in 0 .. k : padDone[c][j] # "unset"
                    /\ (padDone[c][k] = "stale" \/ k = NPads - 1)

JoinComplete(c) == \A j \in Pads : padDone[c][j] # "unset"

PadsIntact(c) == \A j \in Pads : pads[slot[c]][j] = Input(c)

CmdJoin(t) ==
    /\ cmd[t] # NoCaller
    /\ LET c == cmd[t] IN
       /\ JoinComplete(c)
       /\ done' = [done EXCEPT ![c] = IF \A j \in Pads : padDone[c][j] = "ok"
                                            THEN "true" ELSE "false"]
       /\ padDone' = [padDone EXCEPT ![c] = [j \in Pads |-> "unset"]]
    /\ cmd' = [cmd EXCEPT ![t] = NoCaller]
    /\ UNCHANGED <<tip, needCheck, sem, padUsed, pads, pc, snap, slot, gen,
                   cmdQueue, workQueue, worker>>

(***************************************************************************)
(* ramhog_gen_pad_mt on a worker thread: the staleness check (set_value of *)
(* false), then ramhog_gen_pad into the slot's pad and set_value(true).    *)
(***************************************************************************)
\* Mutant: the interrupted pad reports success.
PadInterruptedAsDone(c, j) == padDone' = [padDone EXCEPT ![c][j] = "ok"]

PadInterrupted(c, j) == padDone' = [padDone EXCEPT ![c][j] = "stale"]

WorkerStart(w) ==
    /\ worker[w] = NoJob
    /\ workQueue # <<>>
    /\ workQueue' = Tail(workQueue)
    /\ LET job == Head(workQueue) IN
         IF Stale(job.caller)
           THEN /\ PadInterrupted(job.caller, job.pad)
                /\ UNCHANGED worker
           ELSE /\ worker' = [worker EXCEPT ![w] = job]
                /\ UNCHANGED padDone
    /\ UNCHANGED <<tip, needCheck, sem, padUsed, pads, pc, snap, slot, gen,
                   done, cmdQueue, cmd>>

WorkerFill(w) ==
    /\ worker[w] # NoJob
    /\ LET job == worker[w] IN
       /\ pads' = [pads EXCEPT ![job.slot][job.pad] = job.input]
       /\ padDone' = [padDone EXCEPT ![job.caller][job.pad] = "ok"]
    /\ worker' = [worker EXCEPT ![w] = NoJob]
    /\ UNCHANGED <<tip, needCheck, sem, padUsed, pc, snap, slot, gen, done,
                   cmdQueue, cmd, workQueue>>

-----------------------------------------------------------------------------
CallerStep(c) ==
    \/ RamhogBegin(c) \/ RamhogWait(c) \/ RamhogPick(c)
    \/ RamhogCollect(c) \/ RamhogPost(c)

Next ==
    \/ NewBestBlock
    \/ \E c \in Checkers : SetNeedCheckBlock(c, TRUE) \/ SetNeedCheckBlock(c, FALSE)
    \/ \E c \in Callers : CallerStep(c)
    \/ \E t \in CmdThreads : CmdStart(t) \/ CmdJoin(t)
    \/ \E w \in Workers : WorkerStart(w) \/ WorkerFill(w)

(***************************************************************************)
(* Every thread runs once it can: the pool threads block only inside       *)
(* io_service::run, callers only on the semaphore and the promise.  No     *)
(* fairness for starting a call or for the chain tip moving.               *)
(***************************************************************************)
Fairness ==
    /\ \A c \in Callers : /\ WF_vars(RamhogWait(c)) /\ WF_vars(RamhogPick(c))
                          /\ WF_vars(RamhogCollect(c)) /\ WF_vars(RamhogPost(c))
                          /\ WF_vars(SetNeedCheckBlock(c, FALSE))
    /\ \A c \in Checkers : WF_vars(RamhogBegin(c))
    /\ \A t \in CmdThreads : WF_vars(CmdStart(t)) /\ WF_vars(CmdJoin(t))
    /\ \A w \in Workers : WF_vars(WorkerStart(w)) /\ WF_vars(WorkerFill(w))

Spec == Init /\ [][Next]_vars /\ Fairness

-----------------------------------------------------------------------------
(***************************************************************************)
(* Properties.                                                             *)
(***************************************************************************)
PermitHolders == {c \in Callers : pc[c] \in {"pick", "await", "post"}}
SlotHolders   == {c \in Callers : pc[c] = "await"}
UsedSlots     == {s \in Slots : padUsed[s]}
PendingJobs   == {workQueue[i] : i \in DOMAIN workQueue}
                   \cup {worker[w] : w \in {x \in Workers : worker[x] # NoJob}}

(* Semaphore and slot table agree: every permit taken by waitPads.wait()   *)
(* is either still unused by a caller between the wait and the scan, or    *)
(* covers exactly one slot marked in fPadUsed, held by exactly one caller; *)
(* so the scan in ramhog() never finds the table full and the              *)
(* "waitPads/fPadUsed mismatch" exception is never thrown.                 *)
PermitSlotAccounting ==
    /\ sem + Cardinality(PermitHolders) = NumSimultaneous
    /\ UsedSlots = {slot[c] : c \in SlotHolders}
    /\ Cardinality(UsedSlots) = Cardinality(SlotHolders)
    /\ \A c \in Callers : pc[c] # "mismatch"

(* A pad job posted by ramhog_mt never outlives it: while a job is queued  *)
(* or being filled, the command thread that owns its pad_dones[] is still  *)
(* joining, and its caller still holds the slot the job writes into (so   *)
(* the slot cannot be handed to another computation under the job).        *)
PadJobsOwned ==
    \A job \in PendingJobs :
        /\ \E t \in CmdThreads : cmd[t] = job.caller
        /\ pc[job.caller] = "await"
        /\ slot[job.caller] = job.slot

(* When ramhog_mt sets its promise to true after ramhog_run_iterations,    *)
(* every pad of the caller's slot was filled from this very call's input: *)
(* no pad of another computation, and no stale pad of an earlier call.     *)
MixReadsOwnPads ==
    [][\A c \in Callers : (done[c] = "unset" /\ done'[c] = "true") => PadsIntact(c)]_vars

(* Every call that obtained a slot returns: each of its N pad jobs and its *)
(* ramhog_mt set their promises on every path, interrupted ones included.  *)
AdmittedReturns ==
    \A c \in Callers : pc[c] = "await" ~> pc[c] = "post"

(* A SendSignedHash that sets fNeedCheckBlock eventually finishes its      *)
(* ComputeBlockPoWHash although the semaphore is unfair: the flag keeps   *)
(* new miner calls out until the check is done.                            *)
CheckerCompletes ==
    \A c \in Checkers : pc[c] = "begin" ~> pc[c] = "clear"

=============================================================================
