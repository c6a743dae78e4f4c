--------------------------- MODULE TurnScheduler ---------------------------
(***************************************************************************)
(* The broker's turn scheduler: admission of turns (_start_turn), the      *)
(* per-thread gates and queues, the thread pool that runs the turns, the   *)
(* two shutdown modes, and what a crash or a restart leaves behind.        *)
(*                                                                         *)
(* A work item goes through the stages of Work below. What happens inside  *)
(* a turn that is executing (notifications, the end of its context) is one *)
(* step here and TurnExecution's subject; what reaches beyond it (a caller *)
(* that still holds the context, a row that is written late) is here too.  *)
(***************************************************************************)
EXTENDS Integers, Sequences, FiniteSets

CONSTANTS
  Threads,     (* broker threads of any owner                              *)
  Turns,       (* turn ids; random_id never repeats one                    *)
  Keys,        (* idempotency keys                                         *)
  Callers,     (* HTTP handler threads                                     *)
  WorkerLimit, (* max_active_turns                                         *)
  MaxQueued,   (* max_queued_turns                                         *)
  MaxLate,     (* bound: contexts held and rows read at one time           *)
  NoTurn, NoKey, NoCall, NoThread

ASSUME SchedulerAssumption ==
  /\ WorkerLimit \in Nat \ {0}
  /\ MaxQueued \in Nat \ {0}
  /\ MaxLate \in Nat
  /\ IsFiniteSet(Turns)
  /\ NoTurn \notin Turns
  /\ NoKey \notin Keys
  /\ NoThread \notin Threads
  /\ NoCall \notin [thread : Threads, mode : {"reject", "queue"}, key : Keys \union {NoKey}]

VARIABLES
  (* The database: it survives a restart.                                  *)
  row,         (* the status column of a turn; "final" is any terminal one *)
  threadOf,    (* the row's thread_id                                      *)
  keyOf,       (* the row's idempotency_key                                *)
  delivered,   (* history: the keyed inputs that Codex was sent            *)
  lost,        (* history: the turns whose final row was overwritten       *)
  (* The process.                                                          *)
  up,
  running,     (* ThreadGate.running                                       *)
  queue,       (* ThreadGate.queue                                         *)
  active,      (* ThreadGate.active_context, by the turn it belongs to     *)
  completed,   (* the turns whose context's completed_event is set         *)
  held,        (* the contexts that interrupting or steering callers hold  *)
  stale,       (* the rows update_turn has read as running, not yet written*)
  work,        (* the stage of a turn's QueuedTurn in the executor         *)
  backlog,     (* the executor's queue of work no thread has picked up     *)
  outstanding, (* _outstanding_turns                                       *)
  call,        (* the create request each handler thread is serving        *)
  (* The shutdown procedure, run by the main thread.                       *)
  mode,        (* _shutdown_mode                                           *)
  stage,       (* how far shutdown() has come                              *)
  todo         (* the snapshot its current loop or wait goes through       *)

rows == <<row, threadOf, keyOf, delivered, lost>>
gates == <<running, queue, active, completed>>
late == <<held, stale>>
pool == <<work, backlog, outstanding>>
stop == <<mode, stage, todo>>
vars == <<rows, up, gates, late, pool, call, stop>>

Incomplete == {"queued", "starting", "running"}
InWorker == {"enter", "prepare", "attached", "executing", "cleanup", "advance"}
InContext == {"attached", "executing"}
Attached == InContext \union {"cleanup"}
Cancelling == {"cancelled", "settled"}
Work == {"none", "pending", "returned", "over"} \union InWorker \union Cancelling
Stages == {"serving", "drainWait", "cancelFutures", "settleQueued", "interruptActive",
           "finalWait", "closing", "down"}

CallType == [thread : Threads, mode : {"reject", "queue"}, key : Keys \union {NoKey}]

-----------------------------------------------------------------------------
(* A work item that has not given its gate away: its future has neither    *)
(* returned nor been cancelled, or the main thread is still cancelling it. *)
Live(u) == work[u] \in {"pending"} \union InWorker \union Cancelling
LiveTurns == {u \in Turns : Live(u)}

(* Futures whose done callback (_work_done) has not run.                   *)
Unreleased == {u \in Turns : work[u] \in {"pending", "returned"} \union InWorker}
BusyWorkers == {u \in Turns : work[u] \in InWorker \union {"returned"}}

QueuedTurns(t) == {u \in Turns : \E i \in DOMAIN queue[t] : queue[t][i] = u}
AllQueued == UNION {QueuedTurns(t) : t \in Threads}

stopping == stage # "serving"
Interrupting == stopping /\ mode = "interrupt"
ExecutorDown == stage = "down"

Keyed(t, k) == {u \in Turns : row[u] # "absent" /\ threadOf[u] = t /\ keyOf[u] = k}
Known(t, k) == k # NoKey /\ Keyed(t, k) # {}

(* A thread with a turn under way or waiting.                              *)
BusyByQueueAlone(t) == queue[t] # <<>>
Busy(t) == running[t] \/ queue[t] # <<>>

(* finalize_turn: the guarded update; a row that is final stays as it is.  *)
Finalize(S) == row' = [u \in Turns |-> IF u \in S /\ row[u] \in Incomplete THEN "final" ELSE row[u]]

(* _work_done, for n futures.                                              *)
NeverReleased(n) == IF outstanding <= n THEN 0 ELSE outstanding
Released(n) == IF outstanding <= n THEN 0 ELSE outstanding - n

(* The turn that waited longest, and those that go on waiting.             *)
DequeueLast(q) == [next |-> q[Len(q)], rest |-> SubSeq(q, 1, Len(q) - 1)]
Dequeue(q) == [next |-> Head(q), rest |-> Tail(q)]

Stage(u, from, to) ==
  /\ work[u] = from
  /\ work' = [work EXCEPT ![u] = to]

Init ==
  /\ row = [u \in Turns |-> "absent"]
  /\ threadOf = [u \in Turns |-> NoThread]
  /\ keyOf = [u \in Turns |-> NoKey]
  /\ delivered = {}
  /\ lost = {}
  /\ up = TRUE
  /\ running = [t \in Threads |-> FALSE]
  /\ queue = [t \in Threads |-> <<>>]
  /\ active = [t \in Threads |-> NoTurn]
  /\ completed = {}
  /\ held = {}
  /\ stale = {}
  /\ work = [u \in Turns |-> "none"]
  /\ backlog = <<>>
  /\ outstanding = 0
  /\ call = [c \in Callers |-> NoCall]
  /\ mode = "interrupt"
  /\ stage = "serving"
  /\ todo = {}

-----------------------------------------------------------------------------
(* Creating a turn. The handler thread first checks, without a lock, that  *)
(* the broker is not shutting down and that the key is new, then decides   *)
(* and writes under _gates_lock. A call that ends here changes nothing.    *)

BeginStart(c, t, m, k) ==
  /\ up
  /\ call[c] = NoCall
  /\ ~stopping
  /\ ~Known(t, k)
  /\ call' = [call EXCEPT ![c] = [thread |-> t, mode |-> m, key |-> k]]
  /\ UNCHANGED <<rows, up, gates, late, pool, stop>>

AdmissibleTwice(t, m, k) ==
  /\ ~(m = "reject" /\ Busy(t))
  /\ ~(Busy(t) /\ Cardinality(AllQueued) >= MaxQueued)
  /\ outstanding < WorkerLimit + MaxQueued

Admissible(t, m, k) ==
  /\ ~Known(t, k)
  /\ ~(m = "reject" /\ Busy(t))
  /\ ~(Busy(t) /\ Cardinality(AllQueued) >= MaxQueued)
  /\ outstanding < WorkerLimit + MaxQueued

(* _submit_work; an executor that was shut down raises and runs nothing.   *)
Submit(u) ==
  IF ExecutorDown
    THEN UNCHANGED <<work, backlog>>
    ELSE /\ work' = [work EXCEPT ![u] = "pending"]
         /\ backlog' = Append(backlog, u)

AcceptTurn(c, u) ==
  /\ up
  /\ call[c] # NoCall
  /\ row[u] = "absent"
  /\ LET t == call[c].thread IN
       /\ Admissible(t, call[c].mode, call[c].key)
       /\ threadOf' = [threadOf EXCEPT ![u] = t]
       /\ keyOf' = [keyOf EXCEPT ![u] = call[c].key]
       /\ IF Busy(t)
            THEN /\ row' = [row EXCEPT ![u] = "queued"]
                 /\ queue' = [queue EXCEPT ![t] = Append(@, u)]
                 /\ UNCHANGED <<running, work, backlog>>
            ELSE /\ row' = [row EXCEPT ![u] = "starting"]
                 /\ running' = [running EXCEPT ![t] = TRUE]
                 /\ Submit(u)
                 /\ UNCHANGED queue
  /\ outstanding' = outstanding + 1
  /\ call' = [call EXCEPT ![c] = NoCall]
  /\ UNCHANGED <<delivered, lost, up, active, completed, late, stop>>

(* The call ends with the original turn, a conflict or "queue is full".    *)
RefuseTurn(c) ==
  /\ up
  /\ call[c] # NoCall
  /\ ~Admissible(call[c].thread, call[c].mode, call[c].key)
  /\ call' = [call EXCEPT ![c] = NoCall]
  /\ UNCHANGED <<rows, up, gates, late, pool, stop>>

(* interrupt_turn and _steer_active take the thread's active context from  *)
(* the gate and act on it later, when its turn may be over.                *)
ActiveUnchecked(t) == TRUE
HasActive(t) == active[t] # NoTurn

FindActive(t) ==
  /\ up
  /\ HasActive(t)
  /\ Cardinality(held) + Cardinality(stale) < MaxLate
  /\ held' = held \union {active[t]}
  /\ UNCHANGED <<rows, up, gates, stale, pool, call, stop>>

(* A create request in mode "steer" goes to the turn that is active, and   *)
(* does so before the key is looked up; Codex refuses it while it does not *)
(* run that turn. With no active turn the request is one in mode "reject". *)
Steer(u, k) ==
  /\ up
  /\ u \in held
  /\ held' = held \ {u}
  /\ delivered' = delivered \union
       {d \in [key : Keys, turn : {u}, via : {"steer"}] :
          d.key = k /\ work[u] = "executing" /\ u \notin completed}
  /\ UNCHANGED <<row, threadOf, keyOf, lost, up, gates, stale, pool, call, stop>>

(* An interrupt finishes the context, whose event matters to its worker    *)
(* alone, and settles the row.                                             *)
InterruptTurn(u) ==
  /\ up
  /\ u \in held
  /\ held' = held \ {u}
  /\ completed' = IF work[u] \in Attached THEN completed \union {u} ELSE completed
  /\ Finalize({u})
  /\ UNCHANGED <<threadOf, keyOf, delivered, lost, up, running, queue, active, stale, pool,
                 call, stop>>

-----------------------------------------------------------------------------
(* The executor and the body of _run_turn.                                 *)

(* A free pool thread takes the oldest work item; a cancelled one is void. *)
TakeWork ==
  /\ up
  /\ backlog # <<>>
  /\ Cardinality(BusyWorkers) < WorkerLimit
  /\ backlog' = Tail(backlog)
  /\ work' = IF work[Head(backlog)] = "pending"
               THEN [work EXCEPT ![Head(backlog)] = "enter"]
               ELSE work
  /\ UNCHANGED <<rows, up, gates, late, outstanding, call, stop>>

EnterInterrupted(u) ==
  /\ up
  /\ Interrupting
  /\ Stage(u, "enter", "cleanup")
  /\ Finalize({u})
  /\ UNCHANGED <<threadOf, keyOf, delivered, lost, up, gates, late, backlog, outstanding, call, stop>>

(* The sandbox preflight, or the read of the row or the thread, fails.     *)
PreflightFails(u) ==
  /\ up
  /\ ~Interrupting
  /\ Stage(u, "enter", "cleanup")
  /\ Finalize({u})
  /\ UNCHANGED <<threadOf, keyOf, delivered, lost, up, gates, late, backlog, outstanding, call, stop>>

StartTurn(u) ==
  /\ up
  /\ ~Interrupting
  /\ Stage(u, "enter", "prepare")
  /\ row' = [row EXCEPT ![u] = "running"]
  /\ UNCHANGED <<threadOf, keyOf, delivered, lost, up, gates, late, backlog, outstanding, call, stop>>

(* The bundle, the cwd, the auth binding or the App Server checkout fails. *)
PrepareFails(u) ==
  /\ up
  /\ Stage(u, "prepare", "cleanup")
  /\ Finalize({u})
  /\ UNCHANGED <<threadOf, keyOf, delivered, lost, up, gates, late, backlog, outstanding, call, stop>>

(* The context becomes the gate's active one: interrupt and steer find it. *)
Activate(u) ==
  /\ up
  /\ Stage(u, "prepare", "attached")
  /\ active' = [active EXCEPT ![threadOf[u]] = u]
  /\ UNCHANGED <<rows, up, running, queue, completed, late, backlog, outstanding, call, stop>>

(* thread/start or thread/resume, then turn/start: Codex has the input.    *)
SendInput(u) ==
  /\ up
  /\ Stage(u, "attached", "executing")
  /\ delivered' = delivered \union
       {d \in [key : Keys, turn : {u}, via : {"start"}] : d.key = keyOf[u]}
  /\ UNCHANGED <<row, threadOf, keyOf, lost, up, gates, late, backlog, outstanding, call, stop>>

(* register_turn, by the worker or by the reader thread: update_turn reads *)
(* the row in one transaction and writes its status back in another, which *)
(* opens a row again that was settled between the two.                     *)
ReadRow(u) ==
  /\ up
  /\ work[u] = "executing"
  /\ row[u] = "running"
  /\ Cardinality(held) + Cardinality(stale) < MaxLate
  /\ stale' = stale \union {u}
  /\ UNCHANGED <<rows, up, gates, held, pool, call, stop>>

WriteRow(u) ==
  /\ up
  /\ u \in stale
  /\ stale' = stale \ {u}
  /\ row' = [row EXCEPT ![u] = "running"]
  /\ lost' = IF row[u] = "final" THEN lost \union {u} ELSE lost
  /\ UNCHANGED <<threadOf, keyOf, delivered, up, gates, held, pool, call, stop>>

(* Codex completes the turn, a request or the App Server fails, the turn   *)
(* times out, or its context has been interrupted.                         *)
TurnEnds(u) ==
  /\ up
  /\ work[u] \in InContext
  /\ work' = [work EXCEPT ![u] = "cleanup"]
  /\ Finalize({u})
  /\ UNCHANGED <<threadOf, keyOf, delivered, lost, up, gates, late, backlog, outstanding, call, stop>>

(* The gates once the worker of u has let go of its context.               *)
StillAttached(u) == active
Detached(u) == [t \in Threads |-> IF active[t] = u THEN NoTurn ELSE active[t]]

Cleanup(u) ==
  /\ up
  /\ Stage(u, "cleanup", "advance")
  /\ active' = Detached(u)
  /\ completed' = completed \ {u}
  /\ UNCHANGED <<rows, up, running, queue, late, backlog, outstanding, call, stop>>

-----------------------------------------------------------------------------
(* _advance_queue, under _gates_lock: the gate closes, or the next turn of *)
(* the thread is submitted while the gate stays taken.                     *)

GateClosesInAnyShutdown(t) == stopping \/ queue[t] = <<>>
GateCloses(t) == Interrupting \/ queue[t] = <<>>

ReleaseGate(u) ==
  /\ up
  /\ Stage(u, "advance", "returned")
  /\ GateCloses(threadOf[u])
  /\ running' = [running EXCEPT ![threadOf[u]] = FALSE]
  /\ UNCHANGED <<rows, up, queue, active, completed, late, backlog, outstanding, call, stop>>

StartNext(u) ==
  /\ up
  /\ work[u] = "advance"
  /\ ~GateCloses(threadOf[u])
  /\ LET t == threadOf[u]
         d == Dequeue(queue[t])
     IN  /\ queue' = [queue EXCEPT ![t] = d.rest]
         /\ row' = [row EXCEPT ![d.next] = "starting"]
         /\ IF ExecutorDown
              THEN /\ work' = [work EXCEPT ![u] = "returned"]
                   /\ UNCHANGED backlog
              ELSE /\ work' = [work EXCEPT ![u] = "returned", ![d.next] = "pending"]
                   /\ backlog' = Append(backlog, d.next)
  /\ UNCHANGED <<threadOf, keyOf, delivered, lost, up, running, active, completed, late,
                 outstanding, call, stop>>

(* The future's done callback, before its pool thread takes other work.    *)
WorkDone(u) ==
  /\ up
  /\ Stage(u, "returned", "over")
  /\ outstanding' = Released(1)
  /\ UNCHANGED <<rows, up, gates, late, backlog, call, stop>>

-----------------------------------------------------------------------------
(* shutdown(), run once by the main thread after the HTTP server stopped   *)
(* accepting connections; handler threads already in a call go on.         *)

RequestShutdown(m) ==
  /\ up
  /\ stage = "serving"
  /\ mode' = m
  /\ stage' = IF m = "interrupt" THEN "cancelFutures" ELSE "drainWait"
  /\ todo' = LiveTurns
  /\ UNCHANGED <<rows, up, gates, late, pool, call>>

(* wait(workers, timeout) covers the futures there were when it began: it  *)
(* ends once they are done, or by its timeout. If any future is unfinished *)
(* then, the drain turns into an interrupt.                                *)
DrainWaitEnds ==
  /\ up
  /\ stage = "drainWait"
  /\ IF LiveTurns = {}
       THEN stage' = "closing" /\ todo' = {} /\ UNCHANGED mode
       ELSE stage' = "cancelFutures" /\ todo' = LiveTurns /\ mode' = "interrupt"
  /\ UNCHANGED <<rows, up, gates, late, pool, call>>

(* _cancel_pending_futures, one future after the other: cancel() succeeds  *)
(* on one that is pending and runs its done callback; then the row is      *)
(* settled; then the gate is opened, under _gates_lock.                    *)
BetweenFutures == \A u \in Turns : work[u] \notin Cancelling

CancelFuture(u) ==
  /\ up
  /\ stage = "cancelFutures"
  /\ BetweenFutures
  /\ u \in todo
  /\ todo' = todo \ {u}
  /\ IF work[u] = "pending"
       THEN /\ work' = [work EXCEPT ![u] = "cancelled"]
            /\ outstanding' = Released(1)
       ELSE UNCHANGED <<work, outstanding>>
  /\ UNCHANGED <<rows, up, gates, late, backlog, call, mode, stage>>

SettleCancelled(u) ==
  /\ up
  /\ stage = "cancelFutures"
  /\ Stage(u, "cancelled", "settled")
  /\ Finalize({u})
  /\ UNCHANGED <<threadOf, keyOf, delivered, lost, up, gates, late, backlog, outstanding, call, stop>>

MayOpenEarly(u) == work[u] \in Cancelling
MayOpen(u) == work[u] = "settled"

OpenGate(u) ==
  /\ up
  /\ stage = "cancelFutures"
  /\ MayOpen(u)
  /\ work' = [work EXCEPT ![u] = "over"]
  /\ running' = [running EXCEPT ![threadOf[u]] = FALSE]
  /\ UNCHANGED <<rows, up, queue, active, completed, late, backlog, outstanding, call, stop>>

(* _cancel_queued_turns: empty every queue under the lock, then finalize.  *)
CancelQueues ==
  /\ up
  /\ stage = "cancelFutures"
  /\ todo = {}
  /\ BetweenFutures
  /\ stage' = "settleQueued"
  /\ todo' = AllQueued
  /\ queue' = [t \in Threads |-> <<>>]
  /\ UNCHANGED <<rows, up, running, active, completed, late, pool, call, mode>>

SettleQueued(u) ==
  /\ up
  /\ stage = "settleQueued"
  /\ u \in todo
  /\ todo' = todo \ {u}
  /\ Finalize({u})
  /\ UNCHANGED <<threadOf, keyOf, delivered, lost, up, gates, late, pool, call, mode, stage>>

(* _interrupt_active_contexts takes its own snapshot ...                   *)
SnapshotActive ==
  /\ up
  /\ stage = "settleQueued"
  /\ todo = {}
  /\ stage' = "interruptActive"
  /\ todo' = {active[t] : t \in Threads} \ {NoTurn}
  /\ UNCHANGED <<rows, up, gates, late, pool, call, mode>>

(* ... and finishes each context that is not completed by then.            *)
InterruptActive(u) ==
  /\ up
  /\ stage = "interruptActive"
  /\ u \in todo
  /\ todo' = todo \ {u}
  /\ IF u \in completed \/ work[u] \notin InContext
       THEN UNCHANGED <<row, completed>>
       ELSE /\ completed' = completed \union {u}
            /\ Finalize({u})
  /\ UNCHANGED <<threadOf, keyOf, delivered, lost, up, running, queue, active, late, pool, call,
                 mode, stage>>

BeginFinalWait ==
  /\ up
  /\ stage = "interruptActive"
  /\ todo = {}
  /\ stage' = "finalWait"
  /\ todo' = LiveTurns
  /\ UNCHANGED <<rows, up, gates, late, pool, call, mode>>

FinalWaitUntimed ==
  /\ up
  /\ stage = "finalWait"
  /\ todo \intersect LiveTurns = {}
  /\ stage' = "closing"
  /\ todo' = {}
  /\ UNCHANGED <<rows, up, gates, late, pool, call, mode>>

(* The futures of the snapshot have returned, or the wait has timed out.   *)
FinalWaitEnds ==
  /\ up
  /\ stage = "finalWait"
  /\ stage' = "closing"
  /\ todo' = {}
  /\ UNCHANGED <<rows, up, gates, late, pool, call, mode>>

(* executor.shutdown(wait=False, cancel_futures=True).                     *)
ShutdownExecutor ==
  /\ up
  /\ stage = "closing"
  /\ stage' = "down"
  /\ backlog' = <<>>
  /\ LET void == {u \in Turns : work[u] = "pending"} IN
       /\ work' = [u \in Turns |-> IF u \in void THEN "over" ELSE work[u]]
       /\ outstanding' = Released(Cardinality(void))
  /\ UNCHANGED <<rows, up, gates, late, call, mode, todo>>

-----------------------------------------------------------------------------
(* The process ends after a shutdown, or at any moment: memory is lost.    *)

Forget ==
  /\ up' = FALSE
  /\ running' = [t \in Threads |-> FALSE]
  /\ queue' = [t \in Threads |-> <<>>]
  /\ active' = [t \in Threads |-> NoTurn]
  /\ completed' = {}
  /\ held' = {}
  /\ stale' = {}
  /\ work' = [u \in Turns |-> "none"]
  /\ backlog' = <<>>
  /\ outstanding' = 0
  /\ call' = [c \in Callers |-> NoCall]
  /\ mode' = "interrupt"
  /\ stage' = "serving"
  /\ todo' = {}
  /\ UNCHANGED rows

Exit == up /\ ExecutorDown /\ Forget

Crash == up /\ Forget

(* recover_incomplete_turns, one transaction, before the server listens.   *)
AbandonedButQueued == {u \in Turns : row[u] \in {"starting", "running"}}
Abandoned == {u \in Turns : row[u] \in Incomplete}

Recover ==
  /\ ~up
  /\ up' = TRUE
  /\ Finalize(Abandoned)
  /\ lost' = {}
  /\ UNCHANGED <<threadOf, keyOf, delivered, gates, late, pool, call, stop>>

-----------------------------------------------------------------------------
Worker(u) ==
  \/ EnterInterrupted(u)
  \/ PreflightFails(u)
  \/ StartTurn(u)
  \/ PrepareFails(u)
  \/ Activate(u)
  \/ SendInput(u)
  \/ TurnEnds(u)
  \/ Cleanup(u)
  \/ ReleaseGate(u)
  \/ StartNext(u)
  \/ WorkDone(u)

Shutdown ==
  \/ DrainWaitEnds
  \/ \E u \in Turns : CancelFuture(u) \/ SettleCancelled(u) \/ OpenGate(u)
  \/ \E u \in Turns : SettleQueued(u) \/ InterruptActive(u)
  \/ CancelQueues
  \/ SnapshotActive
  \/ BeginFinalWait
  \/ FinalWaitEnds
  \/ ShutdownExecutor
  \/ Exit

Next ==
  \/ \E c \in Callers, t \in Threads, m \in {"reject", "queue"}, k \in Keys \union {NoKey} :
       BeginStart(c, t, m, k)
  \/ \E c \in Callers, u \in Turns : AcceptTurn(c, u)
  \/ \E c \in Callers : RefuseTurn(c)
  \/ \E t \in Threads : FindActive(t)
  \/ \E u \in Turns, k \in Keys \union {NoKey} : Steer(u, k)
  \/ \E u \in Turns : InterruptTurn(u)
  \/ \E u \in Turns : ReadRow(u) \/ WriteRow(u)
  \/ TakeWork
  \/ \E u \in Turns : Worker(u)
  \/ \E m \in {"interrupt", "drain"} : RequestShutdown(m)
  \/ Shutdown
  \/ Crash
  \/ Recover

Spec == Init /\ [][Next]_vars

(* Handler threads, pool threads and the shutdown procedure keep running,  *)
(* a request to the App Server ends by its timeout at the latest, and a    *)
(* broker that has stopped is started again. Nothing makes Codex complete  *)
(* a turn (turn_timeout_seconds is 0 by default), so an executing turn     *)
(* need only end once its context is completed.                            *)
Unblocked(u) ==
  \/ EnterInterrupted(u)
  \/ PreflightFails(u)
  \/ StartTurn(u)
  \/ PrepareFails(u)
  \/ Activate(u)
  \/ SendInput(u)
  \/ u \in completed /\ TurnEnds(u)
  \/ Cleanup(u)
  \/ ReleaseGate(u)
  \/ StartNext(u)
  \/ WorkDone(u)

Fairness ==
  /\ \A c \in Callers : WF_vars(RefuseTurn(c) \/ \E u \in Turns : AcceptTurn(c, u))
  /\ WF_vars(TakeWork)
  /\ \A u \in Turns : WF_vars(Unblocked(u))
  /\ WF_vars(Shutdown)
  /\ WF_vars(Recover)

FairSpec == Spec /\ Fairness

-----------------------------------------------------------------------------
(* Properties.                                                             *)

TypeOK ==
  /\ row \in [Turns -> {"absent", "final"} \union Incomplete]
  /\ threadOf \in [Turns -> Threads \union {NoThread}]
  /\ keyOf \in [Turns -> Keys \union {NoKey}]
  /\ delivered \subseteq [key : Keys, turn : Turns, via : {"start", "steer"}]
  /\ lost \subseteq Turns
  /\ up \in BOOLEAN
  /\ running \in [Threads -> BOOLEAN]
  /\ queue \in [Threads -> Seq(Turns)]
  /\ active \in [Threads -> Turns \union {NoTurn}]
  /\ completed \subseteq Turns
  /\ held \subseteq Turns
  /\ stale \subseteq Turns
  /\ work \in [Turns -> Work]
  /\ backlog \in Seq(Turns)
  /\ outstanding \in Nat
  /\ call \in [Callers -> CallType \union {NoCall}]
  /\ mode \in {"interrupt", "drain"}
  /\ stage \in Stages
  /\ todo \subseteq Turns

(* One active turn at a time per broker thread: no two work items of one   *)
(* thread are in the executor at once, whatever callers, cancelled futures *)
(* and the shutdown procedure do to the gate meanwhile.                    *)
OneTurnPerThread ==
  \A u, v \in LiveTurns : threadOf[u] = threadOf[v] => u = v

(* A queued turn always has somebody to start it: until a shutdown cuts    *)
(* work short, a non-empty queue means that a work item of that thread is  *)
(* on its way to _advance_queue.                                           *)
NoStrandedQueue ==
  \A t \in Threads :
    up /\ queue[t] # <<>> /\ stage \in {"serving", "drainWait"} =>
      \E u \in LiveTurns : threadOf[u] = t

(* The admission counter is neither leaked nor released twice: it counts   *)
(* the queued turns and the futures whose callback has not run, over every *)
(* path a turn can leave by.                                               *)
OutstandingExact ==
  up /\ stage \in {"serving", "drainWait", "cancelFutures"} =>
    outstanding = Cardinality(AllQueued) + Cardinality(Unreleased)

(* Concurrent and repeated requests with one key create one turn, also     *)
(* when the broker is restarted between them.                              *)
OneTurnPerKey ==
  \A t \in Threads, k \in Keys : Cardinality(Keyed(t, k)) <= 1

(* What interrupt and steer find through the gate is the turn the thread   *)
(* is running now, never one that has handed the gate on.                  *)
ActiveIsCurrent ==
  \A t \in Threads : active[t] # NoTurn =>
    /\ threadOf[active[t]] = t
    /\ work[active[t]] \in Attached

(* A turn that hands its gate on, or whose cancelled future gives the gate *)
(* back, has its terminal row; only work the executor itself dropped is    *)
(* left for the recovery after the restart, and a row that was settled and *)
(* then opened again by a late update_turn.                                *)
SettledBeforeHandOver ==
  \A u \in Turns \ lost :
    /\ work[u] \in {"advance", "returned"} => row[u] = "final"
    /\ work[u] = "over" /\ row[u] # "final" => ExecutorDown

(* The gate protocol behind these, in the form that every step preserves.  *)
QueuedAreNew ==
  \A t \in Threads : \A i, j \in DOMAIN queue[t] :
    /\ threadOf[queue[t][i]] = t
    /\ work[queue[t][i]] = "none"
    /\ row[queue[t][i]] # "absent"
    /\ queue[t][i] = queue[t][j] => i = j

LiveHoldGate ==
  \A u \in LiveTurns : threadOf[u] \in Threads /\ running[threadOf[u]]

AbsentAreIdle ==
  \A u \in Turns : row[u] = "absent" => work[u] = "none" /\ u \notin stale

GateIsHeld ==
  /\ stage = "drainWait" => mode = "drain"
  /\ stage \in {"serving", "drainWait"} =>
       \A t \in Threads :
         /\ running[t] => \E u \in LiveTurns : threadOf[u] = t
         /\ queue[t] # <<>> => running[t]

GateInv ==
  /\ OneTurnPerThread
  /\ ActiveIsCurrent
  /\ QueuedAreNew
  /\ LiveHoldGate
  /\ AbsentAreIdle
  /\ GateIsHeld

(* Provided Codex completes the turns it executes, every accepted turn     *)
(* reaches a terminal status: by running, by being interrupted in the      *)
(* shutdown, or by the recovery after a crash. A turn id is never used     *)
(* again, so there comes a moment at which no accepted turn is incomplete, *)
(* but for those whose final row was overwritten since the last restart.   *)
TurnsEnd == \A u \in Turns : []<>(work[u] \notin InContext)

AcceptedTurnsSettle ==
  TurnsEnd => []<>(\A u \in Turns \ lost : row[u] \notin Incomplete)

(* A shutdown ends in either mode, also when a turn hangs in Codex.        *)
ShutdownEnds == stopping ~> ~up

(* What the scheduler promises its hosts.                                  *)
CurrentOf(t) ==
  IF \E u \in LiveTurns : threadOf[u] = t
    THEN CHOOSE u \in LiveTurns : threadOf[u] = t
    ELSE NoTurn

Promise == INSTANCE ThreadQueue
  WITH used <- {u \in Turns : row[u] # "absent"},
       current <- [t \in Threads |-> CurrentOf(t)],
       waiting <- queue,
       stopping <- stage \notin {"serving", "drainWait"}

ImplementsThreadQueue == Promise!Spec

(* README, "drains accepted work": a drain cuts work short only after its  *)
(* timeout, that is, while a future that it waits for has not ended.       *)
DrainKeepsItsTime ==
  [][mode = "drain" /\ mode' = "interrupt" /\ up' => todo \intersect LiveTurns # {}]_vars

(* README: a repeated turn create with one key returns the original turn   *)
(* instead of starting duplicate Codex work, so Codex is sent the input of *)
(* a key once.                                                             *)
KeyedInputDeliveredOnce ==
  \A d, e \in delivered :
    d.key = e.key /\ threadOf[d.turn] = threadOf[e.turn] => d = e
=============================================================================
