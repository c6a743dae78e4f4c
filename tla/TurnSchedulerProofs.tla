------------------------ MODULE TurnSchedulerProofs ------------------------
(***************************************************************************)
(* Theorems about TurnScheduler, for every number of threads, turns, keys  *)
(* and callers and for all limits.                                         *)
(*                                                                         *)
(* The inductive invariant is TypeOK /\ GateInv. Neither half is inductive *)
(* alone: _advance_queue takes the head of a queue, so that the types hold *)
(* only because a live turn has a thread and a queue holds turns; and the  *)
(* gate protocol is stated about well-typed states.                        *)
(***************************************************************************)
EXTENDS TurnScheduler, TLAPS, SequenceTheorems, FiniteSetTheorems

Inv == TypeOK /\ GateInv

-----------------------------------------------------------------------------
(* Type correctness.                                                       *)

LEMMA CountIsNatural ==
  ASSUME NEW S \in SUBSET Turns
  PROVE  Cardinality(S) \in Nat
BY FS_Subset, FS_CardinalityType, SchedulerAssumption

LEMMA EmptyQueues == [t \in Threads |-> <<>>] \in [Threads -> Seq(Turns)]
<1>1. <<>> \in Seq(Turns)
  OBVIOUS
<1> QED
  BY <1>1, Zenon

LEMMA InitType == Init => TypeOK
<1> SUFFICES ASSUME Init PROVE TypeOK
  OBVIOUS
<1>1. queue \in [Threads -> Seq(Turns)]
  BY EmptyQueues DEF Init
<1>2. work \in [Turns -> Work] /\ backlog \in Seq(Turns)
  BY DEF Init, Work
<1>3. call \in [Callers -> CallType \union {NoCall}]
  BY DEF Init
<1>4. /\ row \in [Turns -> {"absent", "final"} \union Incomplete]
      /\ threadOf \in [Turns -> Threads \union {NoThread}]
      /\ keyOf \in [Turns -> Keys \union {NoKey}]
  BY DEF Init
<1>5. running \in [Threads -> BOOLEAN] /\ active \in [Threads -> Turns \union {NoTurn}]
  BY DEF Init
<1>6. delivered \subseteq [key : Keys, turn : Turns, via : {"start", "steer"}]
  BY DEF Init
<1> QED
  BY <1>1, <1>2, <1>3, <1>4, <1>5, <1>6 DEF Init, TypeOK, Stages

(* Turns that queues hold are turns.                                       *)
LEMMA QueuedAreTurns ==
  ASSUME TypeOK
  PROVE  AllQueued \subseteq Turns
BY DEF AllQueued, QueuedTurns

LEMMA TypeStep ==
  ASSUME Inv, [Next]_vars
  PROVE  TypeOK'
<1> USE DEF Inv, TypeOK
<1> DEFINE Rows == row' \in [Turns -> {"absent", "final"} \union Incomplete]
           WorkT == work' \in [Turns -> Work]
<1> HIDE DEF Rows, WorkT
<1>f. ASSUME NEW S, Finalize(S)
      PROVE  Rows
  BY <1>f DEF Finalize, Rows, Incomplete
<1>s. ASSUME NEW u \in Turns, NEW from, NEW to \in Work, Stage(u, from, to)
      PROVE  WorkT
  BY <1>s DEF Stage, WorkT
<1>w. {"none", "pending", "returned", "over", "enter", "prepare", "attached", "executing",
       "cleanup", "advance", "cancelled", "settled"} \subseteq Work
  BY DEF Work, InWorker, Cancelling
<1> USE <1>w DEF rows, gates, late, pool, stop
<1>q. ASSUME Forget
      PROVE  TypeOK'
  <2>1. queue' \in [Threads -> Seq(Turns)]
    BY <1>q, EmptyQueues DEF Forget
  <2>2. work' \in [Turns -> Work] /\ backlog' \in Seq(Turns)
    BY <1>q DEF Forget
  <2>3. call' \in [Callers -> CallType \union {NoCall}]
    BY <1>q DEF Forget
  <2>4. running' \in [Threads -> BOOLEAN] /\ active' \in [Threads -> Turns \union {NoTurn}]
    BY <1>q DEF Forget
  <2> QED
    BY <1>q, <2>1, <2>2, <2>3, <2>4 DEF Forget, Stages
<1>1. ASSUME NEW c \in Callers, NEW t \in Threads, NEW m \in {"reject", "queue"},
             NEW k \in Keys \union {NoKey}, BeginStart(c, t, m, k)
      PROVE  TypeOK'
  BY <1>1 DEF BeginStart, CallType
<1>2. ASSUME NEW c \in Callers, NEW u \in Turns, AcceptTurn(c, u)
      PROVE  TypeOK'
  <2>1. call[c] \in CallType
    BY <1>2 DEF AcceptTurn
  <2> DEFINE t == call[c].thread
  <2>2. t \in Threads /\ call[c].key \in Keys \union {NoKey}
    BY <2>1 DEF CallType
  <2>3. row' \in [Turns -> {"absent", "final"} \union Incomplete]
    <3>1. row' = [row EXCEPT ![u] = "queued"] \/ row' = [row EXCEPT ![u] = "starting"]
      <4> HIDE DEF Inv, TypeOK
      <4> QED
        BY <1>2 DEF AcceptTurn
    <3> QED
      BY <3>1 DEF Incomplete
  <2>4. work' \in [Turns -> Work] /\ backlog' \in Seq(Turns)
    <3>1. Submit(u) \/ UNCHANGED <<work, backlog>>
      <4> HIDE DEF Inv, TypeOK
      <4> QED
        BY <1>2 DEF AcceptTurn
    <3>2. \/ UNCHANGED <<work, backlog>>
          \/ work' = [work EXCEPT ![u] = "pending"] /\ backlog' = Append(backlog, u)
      BY <3>1 DEF Submit
    <3>3. Append(backlog, u) \in Seq(Turns)
      OBVIOUS
    <3> QED
      BY <3>2, <3>3
  <2>5. queue' \in [Threads -> Seq(Turns)] /\ running' \in [Threads -> BOOLEAN]
    <3>1. Append(queue[t], u) \in Seq(Turns)
      BY <2>2
    <3>2. queue' = queue \/ queue' = [queue EXCEPT ![t] = Append(@, u)]
      BY <1>2 DEF AcceptTurn
    <3>3. running' = running \/ running' = [running EXCEPT ![t] = TRUE]
      BY <1>2 DEF AcceptTurn
    <3>4. queue' \in [Threads -> Seq(Turns)]
      <4> DEFINE Queues == Seq(Turns)
      <4>1. queue \in [Threads -> Queues] /\ Append(queue[t], u) \in Queues
        BY <3>1
      <4> HIDE DEF Queues
      <4>2. queue' \in [Threads -> Queues]
        BY <2>2, <3>2, <4>1
      <4> QED
        BY <4>2 DEF Queues
    <3>5. running' \in [Threads -> BOOLEAN]
      BY <2>2, <3>3
    <3> QED
      BY <3>4, <3>5
  <2>6. threadOf' \in [Turns -> Threads \union {NoThread}] /\ keyOf' \in [Turns -> Keys \union {NoKey}]
    BY <1>2, <2>2 DEF AcceptTurn
  <2>7. outstanding' \in Nat /\ call' \in [Callers -> CallType \union {NoCall}]
    BY <1>2 DEF AcceptTurn
  <2> QED
    BY <1>2, <2>3, <2>4, <2>5, <2>6, <2>7 DEF AcceptTurn
<1>3. ASSUME NEW c \in Callers, RefuseTurn(c)
      PROVE  TypeOK'
  BY <1>3 DEF RefuseTurn
<1>4. ASSUME NEW t \in Threads, FindActive(t)
      PROVE  TypeOK'
  BY <1>4 DEF FindActive, HasActive
<1>5. ASSUME NEW u \in Turns, (\E k \in Keys \union {NoKey} : Steer(u, k)) \/ InterruptTurn(u)
             \/ ReadRow(u) \/ WriteRow(u)
      PROVE  TypeOK'
  <2>1. CASE \E k \in Keys \union {NoKey} : Steer(u, k)
    BY <2>1 DEF Steer
  <2>2. CASE InterruptTurn(u)
    BY <2>2, <1>f DEF InterruptTurn, Rows
  <2>3. CASE ReadRow(u)
    BY <2>3 DEF ReadRow
  <2>4. CASE WriteRow(u)
    BY <2>4 DEF WriteRow, Incomplete
  <2> QED
    BY <1>5, <2>1, <2>2, <2>3, <2>4
<1>6. CASE TakeWork
  <2>1. backlog' \in Seq(Turns)
    BY <1>6 DEF TakeWork
  <2> QED
    BY <1>6, <2>1 DEF TakeWork
<1>7. ASSUME NEW u \in Turns, Worker(u)
      PROVE  TypeOK'
  <2>1. CASE EnterInterrupted(u) \/ PreflightFails(u) \/ PrepareFails(u) \/ TurnEnds(u)
    <3>1. Rows
      BY <2>1, <1>f DEF EnterInterrupted, PreflightFails, PrepareFails, TurnEnds
    <3>2. WorkT
      BY <2>1, <1>s DEF EnterInterrupted, PreflightFails, PrepareFails, TurnEnds, WorkT
    <3> QED
      BY <2>1, <3>1, <3>2 DEF EnterInterrupted, PreflightFails, PrepareFails, TurnEnds, Rows, WorkT
  <2>2. CASE StartTurn(u)
    BY <2>2 DEF StartTurn, Stage, Incomplete
  <2>3. CASE Activate(u)
    BY <2>3 DEF Activate, Stage
  <2>4. CASE SendInput(u)
    BY <2>4 DEF SendInput, Stage
  <2>5. CASE Cleanup(u)
    BY <2>5 DEF Cleanup, Stage, Detached
  <2>6. CASE ReleaseGate(u)
    BY <2>6 DEF ReleaseGate, Stage
  <2>7. CASE StartNext(u)
    <3> DEFINE t == threadOf[u]
    <3>1. t \in Threads /\ queue[t] \in Seq(Turns) /\ queue[t] # <<>>
      BY <2>7 DEF StartNext, GateCloses, GateInv, LiveHoldGate, LiveTurns, Live, InWorker, Cancelling
    <3>2. Head(queue[t]) \in Turns /\ Tail(queue[t]) \in Seq(Turns)
      BY <3>1
    <3>3. queue' \in [Threads -> Seq(Turns)]
      BY <2>7, <3>2 DEF StartNext, Dequeue
    <3>4. row' \in [Turns -> {"absent", "final"} \union Incomplete]
      BY <2>7 DEF StartNext, Incomplete
    <3>5. work' \in [Turns -> Work]
      BY <2>7 DEF StartNext
    <3>6. Append(backlog, Head(queue[t])) \in Seq(Turns)
      BY <3>2
    <3>7. backlog' \in Seq(Turns)
      BY <2>7, <3>6 DEF StartNext, Dequeue
    <3> QED
      BY <2>7, <3>3, <3>4, <3>5, <3>7 DEF StartNext
  <2>8. CASE WorkDone(u)
    BY <2>8 DEF WorkDone, Stage, Released
  <2> QED
    BY <1>7, <2>1, <2>2, <2>3, <2>4, <2>5, <2>6, <2>7, <2>8 DEF Worker
<1>8. ASSUME NEW m \in {"interrupt", "drain"}, RequestShutdown(m)
      PROVE  TypeOK'
  BY <1>8 DEF RequestShutdown, Stages, LiveTurns
<1>9. CASE Shutdown
  <2>1. CASE DrainWaitEnds
    BY <2>1 DEF DrainWaitEnds, Stages, LiveTurns
  <2>2. ASSUME NEW u \in Turns, CancelFuture(u)
        PROVE  TypeOK'
    <3>1. WorkT
      BY <2>2 DEF CancelFuture, WorkT
    <3>2. Released(1) \in Nat
      BY DEF Released
    <3>3. outstanding' \in Nat
      BY <2>2, <3>2 DEF CancelFuture
    <3> QED
      BY <2>2, <3>1, <3>3 DEF CancelFuture, WorkT
  <2>c. ASSUME NEW u \in Turns, SettleCancelled(u)
        PROVE  TypeOK'
    <3>1. Rows
      BY <2>c, <1>f DEF SettleCancelled, Rows
    <3>2. WorkT
      BY <2>c, <1>s DEF SettleCancelled
    <3> QED
      BY <2>c, <3>1, <3>2 DEF SettleCancelled, Rows, WorkT
  <2>g. ASSUME NEW u \in Turns, OpenGate(u)
        PROVE  TypeOK'
    BY <2>g DEF OpenGate
  <2>3. ASSUME NEW u \in Turns, SettleQueued(u) \/ InterruptActive(u)
        PROVE  TypeOK'
    <3>1. Rows
      BY <2>3, <1>f DEF SettleQueued, InterruptActive, Rows
    <3> QED
      BY <2>3, <3>1 DEF SettleQueued, InterruptActive, Rows
  <2>4. CASE CancelQueues
    BY <2>4, QueuedAreTurns DEF CancelQueues, Stages
  <2>5. CASE SnapshotActive
    BY <2>5 DEF SnapshotActive, Stages
  <2>6. CASE BeginFinalWait \/ FinalWaitEnds
    BY <2>6 DEF BeginFinalWait, FinalWaitEnds, Stages, LiveTurns
  <2>7. CASE ShutdownExecutor
    <3>1. Cardinality({u \in Turns : work[u] = "pending"}) \in Nat
      BY CountIsNatural
    <3> QED
      BY <2>7, <3>1 DEF ShutdownExecutor, Stages, Released
  <2>8. CASE Exit
    BY <2>8, <1>q DEF Exit, Stages
  <2> QED
    BY <1>9, <2>1, <2>2, <2>c, <2>g, <2>3, <2>4, <2>5, <2>6, <2>7, <2>8 DEF Shutdown
<1>10. CASE Crash
  BY <1>10, <1>q DEF Crash
<1>11. CASE Recover
  BY <1>11, <1>f DEF Recover, Rows
<1>12. CASE UNCHANGED vars
  BY <1>12 DEF vars
<1> QED
  BY <1>1, <1>2, <1>3, <1>4, <1>5, <1>6, <1>7, <1>8, <1>9, <1>10, <1>11, <1>12 DEF Next

-----------------------------------------------------------------------------
(* The gate protocol. To the gates, every step of the scheduler is one of  *)
(* seven kinds; most are of the first, which moves no gate, queue or turn. *)

Open == stage \in {"serving", "drainWait"}

StageKept ==
  /\ stage' = "drainWait" => mode' = "drain"
  /\ Open' => Open

Same ==
  /\ UNCHANGED <<threadOf, keyOf, running, queue>>
  /\ \A u \in Turns :
       /\ Live(u)' <=> Live(u)
       /\ work'[u] = "none" <=> work[u] = "none"
       /\ row'[u] = "absent" <=> row[u] = "absent"
       /\ u \in stale' => row[u] # "absent"
  /\ StageKept

(* u leaves the executor and opens its thread's gate.                      *)
Leaves(u) ==
  /\ UNCHANGED <<threadOf, keyOf, queue, stale, stage>>
  /\ Live(u)
  /\ running' = [running EXCEPT ![threadOf[u]] = FALSE]
  /\ ~Live(u)'
  /\ work'[u] # "none"
  /\ \A v \in Turns \ {u} : work'[v] = work[v]
  /\ \A v \in Turns : row'[v] = "absent" <=> row[v] = "absent"
  /\ StageKept
  /\ Open => queue[threadOf[u]] = <<>>

GateStep ==
  \/ Same
  \/ \E c \in Callers, u \in Turns : AcceptTurn(c, u)
  \/ \E u \in Turns : Leaves(u)
  \/ \E u \in Turns : StartNext(u)
  \/ CancelQueues
  \/ ShutdownExecutor
  \/ Forget

LEMMA FinalizeKeepsAbsent ==
  ASSUME TypeOK, NEW S, Finalize(S), NEW u \in Turns
  PROVE  row'[u] = "absent" <=> row[u] = "absent"
BY DEF Finalize, TypeOK, Incomplete

LEMMA StepsAreGateSteps ==
  ASSUME Inv, [Next]_vars
  PROVE  GateStep
<1> USE DEF Inv, TypeOK, rows, gates, late, pool, stop
<1>s. stage = "drainWait" => mode = "drain"
  BY DEF GateInv, GateIsHeld
<1>t. \A u \in stale : row[u] # "absent"
  BY DEF GateInv, AbsentAreIdle
<1>k. ASSUME UNCHANGED <<threadOf, keyOf, running, queue, mode, stage>>, stale' \subseteq stale,
             \A u \in Turns : row'[u] = "absent" <=> row[u] = "absent",
             \A u \in Turns : (Live(u)' <=> Live(u)) /\ (work'[u] = "none" <=> work[u] = "none")
      PROVE  GateStep
  BY <1>k, <1>s, <1>t DEF GateStep, Same, StageKept, Open
<1>1. ASSUME NEW c \in Callers, NEW t \in Threads, NEW m \in {"reject", "queue"},
             NEW k \in Keys \union {NoKey}, BeginStart(c, t, m, k)
      PROVE  GateStep
  BY <1>1, <1>k DEF BeginStart, Live
<1>2. ASSUME NEW c \in Callers, NEW u \in Turns, AcceptTurn(c, u)
      PROVE  GateStep
  BY <1>2 DEF GateStep
<1>3. ASSUME NEW c \in Callers, RefuseTurn(c)
      PROVE  GateStep
  BY <1>3, <1>k DEF RefuseTurn, Live
<1>4. ASSUME NEW t \in Threads, FindActive(t)
      PROVE  GateStep
  BY <1>4, <1>k DEF FindActive, Live
<1>5. ASSUME NEW u \in Turns, (\E k \in Keys \union {NoKey} : Steer(u, k)) \/ InterruptTurn(u)
             \/ ReadRow(u) \/ WriteRow(u)
      PROVE  GateStep
  <2>1. CASE \E k \in Keys \union {NoKey} : Steer(u, k)
    BY <2>1, <1>k DEF Steer, Live
  <2>2. CASE InterruptTurn(u)
    BY <2>2, <1>k, FinalizeKeepsAbsent DEF InterruptTurn, Live
  <2>3. CASE ReadRow(u)
    <3>1. \A v \in stale' : row[v] # "absent"
      BY <2>3, <1>t DEF ReadRow
    <3> QED
      BY <2>3, <3>1, <1>s DEF ReadRow, GateStep, Same, StageKept, Open, Live
  <2>4. CASE WriteRow(u)
    <3>1. \A v \in Turns : row'[v] = "absent" <=> row[v] = "absent"
      BY <2>4, <1>t DEF WriteRow
    <3> QED
      BY <2>4, <3>1, <1>k DEF WriteRow, Live
  <2> QED
    BY <1>5, <2>1, <2>2, <2>3, <2>4
<1>6. CASE TakeWork
  BY <1>6, <1>k DEF TakeWork, Live, InWorker, Cancelling
<1>7. ASSUME NEW u \in Turns, Worker(u)
      PROVE  GateStep
  <2>1. CASE EnterInterrupted(u) \/ PreflightFails(u) \/ PrepareFails(u) \/ TurnEnds(u)
    <3>1. \A v \in Turns : row'[v] = "absent" <=> row[v] = "absent"
      BY <2>1, FinalizeKeepsAbsent DEF EnterInterrupted, PreflightFails, PrepareFails, TurnEnds
    <3>2. work[u] \in InWorker /\ work' = [work EXCEPT ![u] = "cleanup"]
      BY <2>1 DEF EnterInterrupted, PreflightFails, PrepareFails, TurnEnds, Stage, InContext, InWorker
    <3>3. \A v \in Turns : (Live(v)' <=> Live(v)) /\ (work'[v] = "none" <=> work[v] = "none")
      BY <3>2 DEF Live, InWorker, Cancelling
    <3>4. UNCHANGED <<threadOf, keyOf, running, queue, stale, mode, stage>>
      BY <2>1 DEF EnterInterrupted, PreflightFails, PrepareFails, TurnEnds
    <3> QED
      BY <3>1, <3>3, <3>4, <1>k
  <2>2. CASE StartTurn(u)
    <3>1. row[u] # "absent"
      BY <2>2 DEF StartTurn, Stage, GateInv, AbsentAreIdle
    <3> QED
      BY <2>2, <3>1, <1>k DEF StartTurn, Stage, Live, InWorker, Cancelling
  <2>3. CASE Activate(u)
    BY <2>3, <1>k DEF Activate, Stage, Live, InWorker, Cancelling
  <2>4. CASE SendInput(u)
    BY <2>4, <1>k DEF SendInput, Stage, Live, InWorker, Cancelling
  <2>5. CASE Cleanup(u)
    BY <2>5, <1>k DEF Cleanup, Stage, Live, InWorker, Cancelling
  <2>6. CASE ReleaseGate(u)
    <3>1. Open => queue[threadOf[u]] = <<>>
      BY <2>6, <1>s DEF ReleaseGate, GateCloses, Interrupting, stopping, Open
    <3>2. Leaves(u)
      BY <2>6, <3>1, <1>s DEF ReleaseGate, Stage, Leaves, Live, InWorker, Cancelling, StageKept, Open
    <3> QED
      BY <3>2 DEF GateStep
  <2>7. CASE StartNext(u)
    BY <2>7 DEF GateStep
  <2>8. CASE WorkDone(u)
    BY <2>8, <1>k DEF WorkDone, Stage, Live, InWorker, Cancelling
  <2> QED
    BY <1>7, <2>1, <2>2, <2>3, <2>4, <2>5, <2>6, <2>7, <2>8 DEF Worker
<1>8. ASSUME NEW m \in {"interrupt", "drain"}, RequestShutdown(m)
      PROVE  GateStep
  BY <1>8, <1>t DEF RequestShutdown, GateStep, Same, StageKept, Open, Live
<1>9. CASE Shutdown
  <2>1. CASE DrainWaitEnds
    BY <2>1, <1>t DEF DrainWaitEnds, GateStep, Same, StageKept, Open, Live
  <2>2. ASSUME NEW u \in Turns, OpenGate(u)
        PROVE  GateStep
    <3>1. work[u] = "settled" /\ work' = [work EXCEPT ![u] = "over"]
      BY <2>2 DEF OpenGate, MayOpen
    <3>2. Leaves(u)
      BY <2>2, <3>1 DEF OpenGate, Leaves, Live, InWorker, Cancelling, StageKept, Open
    <3> QED
      BY <3>2 DEF GateStep
  <2>c. ASSUME NEW u \in Turns, SettleCancelled(u)
        PROVE  GateStep
    BY <2>c, <1>k, FinalizeKeepsAbsent DEF SettleCancelled, Stage, Live, InWorker, Cancelling
  <2>3. ASSUME NEW u \in Turns, CancelFuture(u)
        PROVE  GateStep
    BY <2>3, <1>k DEF CancelFuture, Live, InWorker, Cancelling
  <2>4. ASSUME NEW u \in Turns, SettleQueued(u) \/ InterruptActive(u)
        PROVE  GateStep
    <3>1. \A v \in Turns : row'[v] = "absent" <=> row[v] = "absent"
      BY <2>4, FinalizeKeepsAbsent DEF SettleQueued, InterruptActive
    <3> QED
      BY <2>4, <3>1, <1>k DEF SettleQueued, InterruptActive, Live
  <2>5. CASE CancelQueues
    BY <2>5 DEF GateStep
  <2>6. CASE SnapshotActive \/ BeginFinalWait \/ FinalWaitEnds
    BY <2>6, <1>t DEF SnapshotActive, BeginFinalWait, FinalWaitEnds, GateStep, Same, StageKept, Open,
       Live
  <2>7. CASE ShutdownExecutor
    BY <2>7 DEF GateStep
  <2>8. CASE Exit
    BY <2>8 DEF Exit, GateStep
  <2> QED
    BY <1>9, <2>1, <2>2, <2>c, <2>3, <2>4, <2>5, <2>6, <2>7, <2>8 DEF Shutdown
<1>10. CASE Crash
  BY <1>10 DEF Crash, GateStep
<1>11. CASE Recover
  BY <1>11, <1>k, FinalizeKeepsAbsent DEF Recover, Live
<1>12. CASE UNCHANGED vars
  BY <1>12, <1>k DEF vars, Live
<1> QED
  BY <1>1, <1>2, <1>3, <1>4, <1>5, <1>6, <1>7, <1>8, <1>9, <1>10, <1>11, <1>12 DEF Next

(* The parts of the protocol that a step of a work item can disturb.       *)
Protocol ==
  /\ OneTurnPerThread
  /\ QueuedAreNew
  /\ LiveHoldGate
  /\ AbsentAreIdle
  /\ GateIsHeld

LEMMA SameKeepsProtocol ==
  ASSUME TypeOK, Protocol, Same
  PROVE  Protocol'
<1> USE DEF TypeOK, Protocol, Same
<1>1. LiveTurns' = LiveTurns
  BY DEF LiveTurns
<1>2. OneTurnPerThread'
  BY <1>1 DEF OneTurnPerThread, LiveTurns
<1>3. QueuedAreNew'
  BY DEF QueuedAreNew
<1>4. LiveHoldGate' /\ AbsentAreIdle'
  BY <1>1 DEF LiveHoldGate, AbsentAreIdle, LiveTurns
<1>5. GateIsHeld'
  BY <1>1 DEF GateIsHeld, StageKept, Open, LiveTurns
<1> QED
  BY <1>2, <1>3, <1>4, <1>5

LEMMA LeavingKeepsProtocol ==
  ASSUME TypeOK, Protocol, NEW u \in Turns, Leaves(u)
  PROVE  Protocol'
<1> USE DEF TypeOK, Protocol
<1>1. u \in LiveTurns /\ LiveTurns' = LiveTurns \ {u} /\ threadOf[u] \in Threads
  BY DEF Leaves, LiveTurns, Live, LiveHoldGate
<1>2. \A v \in LiveTurns' : threadOf[v] # threadOf[u]
  BY <1>1 DEF OneTurnPerThread
<1>3. OneTurnPerThread'
  BY <1>1 DEF OneTurnPerThread, Leaves
<1>4. QueuedAreNew'
  <2>1. \A t \in Threads : \A i \in DOMAIN queue[t] : queue[t][i] \in Turns \ {u}
    BY <1>1 DEF QueuedAreNew, LiveTurns, Live, InWorker, Cancelling
  <2> QED
    BY <2>1 DEF QueuedAreNew, Leaves
<1>5. LiveHoldGate'
  BY <1>1, <1>2 DEF LiveHoldGate, Leaves
<1>6. AbsentAreIdle'
  BY <1>1 DEF AbsentAreIdle, Leaves, LiveTurns, Live, InWorker, Cancelling
<1>7. GateIsHeld'
  <2>1. ASSUME Open', NEW t \in Threads
        PROVE  /\ running'[t] => \E v \in LiveTurns' : threadOf'[v] = t
               /\ queue'[t] # <<>> => running'[t]
    <3>1. CASE t = threadOf[u]
      BY <2>1, <3>1 DEF Leaves, StageKept
    <3>2. CASE t # threadOf[u]
      BY <2>1, <3>2, <1>1 DEF Leaves, StageKept, Open, GateIsHeld
    <3> QED
      BY <3>1, <3>2
  <2> QED
    BY <2>1 DEF GateIsHeld, Leaves, StageKept, Open
<1> QED
  BY <1>3, <1>4, <1>5, <1>6, <1>7

LEMMA AcceptingKeepsProtocol ==
  ASSUME TypeOK, Protocol, NEW c \in Callers, NEW u \in Turns, AcceptTurn(c, u)
  PROVE  Protocol'
<1> DEFINE t == call[c].thread
<1> USE DEF TypeOK, Protocol
<1>t. t \in Threads
  BY DEF AcceptTurn, CallType
<1>1. row[u] = "absent" /\ work[u] = "none" /\ u \notin LiveTurns
  BY DEF AcceptTurn, AbsentAreIdle, LiveTurns, Live, InWorker, Cancelling
<1>2. \A s \in Threads : \A i \in DOMAIN queue[s] : queue[s][i] \in Turns \ {u}
  BY <1>1 DEF QueuedAreNew
<1>3. threadOf' = [threadOf EXCEPT ![u] = t] /\ UNCHANGED <<stale, mode, stage>>
  BY DEF AcceptTurn, late, stop
<1>4. CASE Busy(t)
  <2>1. /\ row' = [row EXCEPT ![u] = "queued"]
        /\ queue' = [queue EXCEPT ![t] = Append(@, u)]
        /\ UNCHANGED <<running, work>>
    BY <1>4 DEF AcceptTurn
  <2>2. LiveTurns' = LiveTurns
    BY <2>1 DEF LiveTurns, Live
  <2>3. OneTurnPerThread' /\ LiveHoldGate'
    BY <2>1, <2>2, <1>1, <1>3 DEF OneTurnPerThread, LiveHoldGate, LiveTurns
  <2>4. QueuedAreNew'
    <3> SUFFICES ASSUME NEW s \in Threads, NEW i \in DOMAIN queue'[s], NEW j \in DOMAIN queue'[s]
                 PROVE  /\ threadOf'[queue'[s][i]] = s
                        /\ work'[queue'[s][i]] = "none"
                        /\ row'[queue'[s][i]] # "absent"
                        /\ queue'[s][i] = queue'[s][j] => i = j
      BY DEF QueuedAreNew
    <3>1. CASE s # t
      BY <3>1, <2>1, <1>2, <1>3 DEF QueuedAreNew
    <3>2. CASE s = t
      <4>1. queue'[s] = Append(queue[t], u) /\ queue[t] \in Seq(Turns)
        BY <3>2, <2>1, <1>t
      <4>2. DOMAIN queue[t] = 1 .. Len(queue[t]) /\ DOMAIN queue'[s] = 1 .. Len(queue[t]) + 1
        BY <4>1
      <4>3. \A k \in DOMAIN queue'[s] :
              queue'[s][k] = IF k \in DOMAIN queue[t] THEN queue[t][k] ELSE u
        BY <4>1, <4>2
      <4> QED
        BY <4>2, <4>3, <3>2, <2>1, <1>1, <1>2, <1>3, <1>t DEF QueuedAreNew
    <3> QED
      BY <3>1, <3>2
  <2>5. AbsentAreIdle'
    BY <2>1, <1>3 DEF AbsentAreIdle
  <2>6. GateIsHeld'
    BY <2>1, <2>2, <1>1, <1>3, <1>4, <1>t DEF GateIsHeld, Busy, LiveTurns
  <2> QED
    BY <2>3, <2>4, <2>5, <2>6
<1>5. CASE ~Busy(t)
  <2>1. /\ row' = [row EXCEPT ![u] = "starting"]
        /\ running' = [running EXCEPT ![t] = TRUE]
        /\ Submit(u)
        /\ UNCHANGED queue
    BY <1>5 DEF AcceptTurn
  <2>2. \A v \in LiveTurns : v # u /\ threadOf[v] # t
    BY <1>1, <1>5, <1>t DEF LiveHoldGate, Busy
  <2>3. \A v \in Turns \ {u} : work'[v] = work[v] /\ threadOf'[v] = threadOf[v]
    BY <2>1, <1>3 DEF Submit
  <2>4. LiveTurns' = IF ExecutorDown THEN LiveTurns ELSE LiveTurns \union {u}
    BY <2>1, <2>3, <1>1 DEF LiveTurns, Live, Submit
  <2>5. OneTurnPerThread'
    BY <2>2, <2>3, <2>4, <1>3 DEF OneTurnPerThread, LiveTurns
  <2>6. LiveHoldGate'
    BY <2>1, <2>2, <2>3, <2>4, <1>3, <1>t DEF LiveHoldGate, LiveTurns
  <2>7. QueuedAreNew'
    BY <2>1, <2>3, <1>2 DEF QueuedAreNew
  <2>8. AbsentAreIdle'
    BY <2>1, <2>3, <1>3 DEF AbsentAreIdle
  <2>9. GateIsHeld'
    <3>1. ASSUME stage \in {"serving", "drainWait"}
          PROVE  u \in LiveTurns' /\ threadOf'[u] = t
      BY <3>1, <2>4, <1>3 DEF ExecutorDown
    <3>2. LiveTurns \subseteq LiveTurns'
      BY <2>4
    <3> QED
      BY <3>1, <3>2, <2>1, <2>2, <2>3, <1>3, <1>5, <1>t DEF GateIsHeld, Busy, LiveTurns
  <2> QED
    BY <2>5, <2>6, <2>7, <2>8, <2>9
<1> QED
  BY <1>4, <1>5

LEMMA StartingNextKeepsProtocol ==
  ASSUME TypeOK, Protocol, NEW u \in Turns, StartNext(u)
  PROVE  Protocol'
<1> DEFINE t == threadOf[u]
           q == queue[t]
<1> USE DEF TypeOK, Protocol
<1>1. u \in LiveTurns /\ t \in Threads /\ work[u] = "advance"
  BY DEF StartNext, LiveHoldGate, LiveTurns, Live, InWorker, Cancelling
<1>2. q \in Seq(Turns) /\ q # <<>>
  BY <1>1 DEF StartNext, GateCloses
<1>v. PICK v \in Turns : v = Head(q)
  BY <1>2
<1>3. /\ v = q[1] /\ 1 \in DOMAIN q
      /\ DOMAIN Tail(q) = 1 .. Len(q) - 1
      /\ \A i \in DOMAIN Tail(q) : i + 1 \in DOMAIN q /\ i + 1 # 1 /\ Tail(q)[i] = q[i + 1]
  BY <1>2, <1>v
<1>4. /\ v \in Turns /\ threadOf[v] = t /\ work[v] = "none" /\ row[v] # "absent"
      /\ v # u /\ v \notin LiveTurns
  BY <1>1, <1>2, <1>3 DEF QueuedAreNew, LiveTurns, Live, InWorker, Cancelling
<1>5. /\ UNCHANGED <<threadOf, running, stale, mode, stage>>
      /\ queue' = [queue EXCEPT ![t] = Tail(q)]
      /\ row' = [row EXCEPT ![v] = "starting"]
  BY <1>v DEF StartNext, Dequeue, late, stop
<1>6. work' = IF ExecutorDown THEN [work EXCEPT ![u] = "returned"]
              ELSE [work EXCEPT ![u] = "returned", ![v] = "pending"]
  BY <1>v DEF StartNext, Dequeue
<1>7. \A w \in Turns \ {u, v} : work'[w] = work[w]
  BY <1>4, <1>6
<1>8. /\ ExecutorDown => LiveTurns' = LiveTurns \ {u}
      /\ ~ExecutorDown => LiveTurns' = (LiveTurns \ {u}) \union {v}
  <2>1. ~Live(u)'
    BY <1>4, <1>6 DEF Live, InWorker, Cancelling
  <2>2. ASSUME ExecutorDown
        PROVE  LiveTurns' = LiveTurns \ {u}
    <3>1. \A w \in Turns \ {u} : work'[w] = work[w]
      BY <2>2, <1>6
    <3>2. \A w \in Turns \ {u} : Live(w)' <=> Live(w)
      BY <3>1 DEF Live
    <3> QED
      BY <2>1, <3>2 DEF LiveTurns
  <2>3. ASSUME ~ExecutorDown
        PROVE  LiveTurns' = (LiveTurns \ {u}) \union {v}
    <3>1. Live(v)'
      BY <2>3, <1>4, <1>6 DEF Live
    <3>2. \A w \in Turns \ {u, v} : Live(w)' <=> Live(w)
      BY <1>7 DEF Live
    <3> QED
      BY <2>1, <3>1, <3>2, <1>4 DEF LiveTurns
  <2> QED
    BY <2>2, <2>3
<1>9. \A w \in LiveTurns \ {u} : threadOf[w] # t
  BY <1>1 DEF OneTurnPerThread
<1>10. OneTurnPerThread'
  BY <1>4, <1>5, <1>8, <1>9 DEF OneTurnPerThread
<1>11. LiveHoldGate'
  BY <1>1, <1>4, <1>5, <1>8 DEF LiveHoldGate
<1>12. QueuedAreNew'
  <2>1. ASSUME NEW s \in Threads, NEW i \in DOMAIN queue[s], queue[s][i] = v
        PROVE  s = t /\ i = 1
    BY <2>1, <1>1, <1>3, <1>4 DEF QueuedAreNew
  <2>2. ASSUME NEW s \in Threads, NEW i \in DOMAIN queue[s]
        PROVE  queue[s][i] \in Turns \ {u}
    BY <2>2, <1>1 DEF QueuedAreNew
  <2> SUFFICES ASSUME NEW s \in Threads, NEW i \in DOMAIN queue'[s], NEW j \in DOMAIN queue'[s]
               PROVE  /\ threadOf'[queue'[s][i]] = s
                      /\ work'[queue'[s][i]] = "none"
                      /\ row'[queue'[s][i]] # "absent"
                      /\ queue'[s][i] = queue'[s][j] => i = j
    BY DEF QueuedAreNew
  <2>3. CASE s # t
    BY <2>1, <2>2, <2>3, <1>5, <1>7 DEF QueuedAreNew
  <2>4. CASE s = t
    <3>1. /\ queue'[s] = Tail(q)
          /\ i + 1 \in DOMAIN queue[s] /\ queue'[s][i] = queue[s][i + 1] /\ i + 1 # 1
          /\ j + 1 \in DOMAIN queue[s] /\ queue'[s][j] = queue[s][j + 1]
          /\ i \in Nat /\ j \in Nat
      BY <2>4, <1>1, <1>3, <1>5
    <3>2. queue[s][i + 1] \in Turns \ {u, v}
      BY <2>1, <2>2, <3>1
    <3>3. i + 1 = j + 1 => i = j
      BY <3>1
    <3> QED
      BY <3>1, <3>2, <3>3, <1>5, <1>7 DEF QueuedAreNew
  <2> QED
    BY <2>3, <2>4
<1>13. AbsentAreIdle'
  BY <1>1, <1>4, <1>5, <1>7 DEF AbsentAreIdle
<1>14. GateIsHeld'
  <2>1. ASSUME Open, NEW s \in Threads
        PROVE  /\ running'[s] => \E w \in LiveTurns' : threadOf'[w] = s
               /\ queue'[s] # <<>> => running'[s]
    <3>1. ~ExecutorDown
      BY <2>1 DEF Open, ExecutorDown
    <3>2. CASE s = t
      BY <3>1, <3>2, <1>1, <1>4, <1>5, <1>8 DEF LiveHoldGate
    <3>3. CASE s # t
      BY <2>1, <3>1, <3>3, <1>5, <1>8 DEF GateIsHeld, Open
    <3> QED
      BY <3>2, <3>3
  <2> QED
    BY <2>1, <1>5 DEF GateIsHeld, Open
<1> QED
  BY <1>10, <1>11, <1>12, <1>13, <1>14

LEMMA StoppingKeepsProtocol ==
  ASSUME TypeOK, Protocol, CancelQueues \/ ShutdownExecutor \/ Forget
  PROVE  Protocol'
<1> USE DEF TypeOK, Protocol
<1>1. CASE CancelQueues
  <2>1. LiveTurns' = LiveTurns
    BY <1>1 DEF CancelQueues, pool, LiveTurns, Live
  <2>2. QueuedAreNew' /\ GateIsHeld'
    BY <1>1 DEF CancelQueues, QueuedAreNew, GateIsHeld
  <2> QED
    BY <1>1, <2>1, <2>2 DEF CancelQueues, rows, late, pool, OneTurnPerThread, LiveHoldGate, AbsentAreIdle
<1>2. CASE ShutdownExecutor
  <2>1. \A u \in Turns : work'[u] = IF work[u] = "pending" THEN "over" ELSE work[u]
    BY <1>2 DEF ShutdownExecutor
  <2>2. LiveTurns' \subseteq LiveTurns
    BY <2>1 DEF LiveTurns, Live, InWorker, Cancelling
  <2>3. UNCHANGED <<row, threadOf, running, queue, stale>> /\ stage' = "down"
    BY <1>2 DEF ShutdownExecutor, rows, gates, late
  <2>4. QueuedAreNew'
    <3>1. \A t \in Threads : \A i \in DOMAIN queue[t] : queue[t][i] \in Turns
      OBVIOUS
    <3> QED
      BY <2>1, <2>3, <3>1 DEF QueuedAreNew
  <2> QED
    BY <2>1, <2>2, <2>3, <2>4 DEF OneTurnPerThread, LiveHoldGate, AbsentAreIdle, GateIsHeld
<1>3. CASE Forget
  <2>1. LiveTurns' = {}
    BY <1>3 DEF Forget, LiveTurns, Live, InWorker, Cancelling
  <2>2. \A t \in Threads : queue'[t] = <<>>
    BY <1>3, Zenon DEF Forget
  <2>3. QueuedAreNew'
    BY <2>2 DEF QueuedAreNew
  <2>4. GateIsHeld'
    BY <2>2, <1>3 DEF Forget, GateIsHeld
  <2> QED
    BY <1>3, <2>1, <2>3, <2>4 DEF Forget, OneTurnPerThread, LiveHoldGate, AbsentAreIdle
<1> QED
  BY <1>1, <1>2, <1>3

-----------------------------------------------------------------------------
(* The active context. Only Activate and Cleanup move it; no other step    *)
(* takes a work item out of the stages in which it may be active.          *)

ActiveKept ==
  /\ UNCHANGED active
  /\ \A u \in Turns : work[u] \in Attached =>
       /\ threadOf'[u] = threadOf[u]
       /\ work'[u] \in Attached

LEMMA KeptActiveIsCurrent ==
  ASSUME TypeOK, ActiveIsCurrent, ActiveKept
  PROVE  ActiveIsCurrent'
BY SchedulerAssumption DEF TypeOK, ActiveIsCurrent, ActiveKept, Attached

LEMMA ActiveStep ==
  ASSUME Inv, [Next]_vars
  PROVE  ActiveIsCurrent'
<1> USE DEF Inv, TypeOK, rows, gates, late, pool, stop
<1>a. ActiveIsCurrent
  BY DEF GateInv
<1>k. ASSUME ActiveKept
      PROVE  ActiveIsCurrent'
  BY <1>a, <1>k, KeptActiveIsCurrent
<1>s. ASSUME UNCHANGED <<threadOf, active, work>>
      PROVE  ActiveKept
  BY <1>s DEF ActiveKept
<1>m. ASSUME UNCHANGED <<threadOf, active>>, NEW u \in Turns, NEW to,
             work' = [work EXCEPT ![u] = to], work[u] \in Attached => to \in Attached
      PROVE  ActiveKept
  BY <1>m DEF ActiveKept
<1>p. ASSUME UNCHANGED <<threadOf, active>>, \A u \in Turns : work[u] # "pending" => work'[u] = work[u]
      PROVE  ActiveKept
  BY <1>p DEF ActiveKept, Attached, InContext
<1>q. ASSUME Forget
      PROVE  ActiveIsCurrent'
  BY <1>q DEF Forget, ActiveIsCurrent
<1>d. /\ "attached" \in Attached /\ "executing" \in Attached /\ "cleanup" \in Attached
      /\ \A x \in {"none", "pending", "returned", "over", "enter", "prepare", "advance",
                   "cancelled", "settled"} :
           x \notin Attached
  BY DEF Attached, InContext
<1>1. ASSUME NEW c \in Callers, NEW t \in Threads, NEW m \in {"reject", "queue"},
             NEW k \in Keys \union {NoKey}, BeginStart(c, t, m, k)
      PROVE  ActiveKept
  BY <1>1, <1>s DEF BeginStart
<1>2. ASSUME NEW c \in Callers, NEW u \in Turns, AcceptTurn(c, u)
      PROVE  ActiveKept
  <2>1. work[u] = "none"
    BY <1>2 DEF AcceptTurn, GateInv, AbsentAreIdle
  <2>2. \A v \in Turns \ {u} : work'[v] = work[v] /\ threadOf'[v] = threadOf[v]
    BY <1>2 DEF AcceptTurn, Submit
  <2> QED
    BY <2>1, <2>2, <1>2, <1>d DEF ActiveKept, AcceptTurn
<1>3. ASSUME NEW c \in Callers, RefuseTurn(c)
      PROVE  ActiveKept
  BY <1>3, <1>s DEF RefuseTurn
<1>4. ASSUME NEW t \in Threads, FindActive(t)
      PROVE  ActiveKept
  BY <1>4, <1>s DEF FindActive
<1>5. ASSUME NEW u \in Turns, (\E k \in Keys \union {NoKey} : Steer(u, k)) \/ InterruptTurn(u)
             \/ ReadRow(u) \/ WriteRow(u)
      PROVE  ActiveKept
  BY <1>5, <1>s DEF Steer, InterruptTurn, ReadRow, WriteRow
<1>6. CASE TakeWork
  <2>1. \A u \in Turns : work[u] # "pending" => work'[u] = work[u]
    BY <1>6 DEF TakeWork
  <2> QED
    BY <2>1, <1>6, <1>p, <1>k DEF TakeWork
<1>7. ASSUME NEW u \in Turns, Worker(u)
      PROVE  ActiveIsCurrent'
  <2>1. CASE EnterInterrupted(u) \/ PreflightFails(u) \/ PrepareFails(u) \/ TurnEnds(u)
    <3>1. work' = [work EXCEPT ![u] = "cleanup"] /\ UNCHANGED <<threadOf, active>>
      BY <2>1 DEF EnterInterrupted, PreflightFails, PrepareFails, TurnEnds, Stage
    <3> QED
      BY <3>1, <1>m, <1>d, <1>k
  <2>2. CASE StartTurn(u) \/ ReleaseGate(u) \/ WorkDone(u)
    <3>1. \E to : work' = [work EXCEPT ![u] = to]
      BY <2>2 DEF StartTurn, ReleaseGate, WorkDone, Stage
    <3>2. work[u] \notin Attached /\ UNCHANGED <<threadOf, active>>
      BY <2>2, <1>d DEF StartTurn, ReleaseGate, WorkDone, Stage
    <3> QED
      BY <3>1, <3>2, <1>m, <1>k
  <2>3. CASE Activate(u)
    <3>1. /\ work[u] = "prepare" /\ work' = [work EXCEPT ![u] = "attached"]
          /\ active' = [active EXCEPT ![threadOf[u]] = u] /\ UNCHANGED threadOf
      BY <2>3 DEF Activate, Stage
    <3> QED
      BY <3>1, <1>a, <1>d, SchedulerAssumption DEF ActiveIsCurrent, Attached
  <2>4. CASE SendInput(u)
    <3>1. work' = [work EXCEPT ![u] = "executing"] /\ UNCHANGED <<threadOf, active>>
      BY <2>4 DEF SendInput, Stage
    <3> QED
      BY <3>1, <1>m, <1>d, <1>k
  <2>5. CASE Cleanup(u)
    <3>1. \A t \in Threads : active'[t] # u /\ (active'[t] = active[t] \/ active'[t] = NoTurn)
      BY <2>5, SchedulerAssumption DEF Cleanup, Detached
    <3>2. UNCHANGED threadOf /\ \A v \in Turns \ {u} : work'[v] = work[v]
      BY <2>5 DEF Cleanup, Stage
    <3> QED
      BY <3>1, <3>2, <1>a DEF ActiveIsCurrent
  <2>6. CASE StartNext(u)
    <3>1. u \in LiveTurns /\ threadOf[u] \in Threads /\ work[u] = "advance"
      BY <2>6 DEF StartNext, GateInv, LiveHoldGate, LiveTurns, Live, InWorker, Cancelling
    <3>2. queue[threadOf[u]] \in Seq(Turns) /\ queue[threadOf[u]] # <<>>
      BY <2>6, <3>1 DEF StartNext, GateCloses
    <3>3. PICK v \in Turns : v = Head(queue[threadOf[u]])
      BY <3>2
    <3>4. work[v] = "none"
      BY <3>1, <3>2, <3>3 DEF GateInv, QueuedAreNew
    <3>5. \A w \in Turns \ {u, v} : work'[w] = work[w]
      BY <2>6, <3>3 DEF StartNext, Dequeue
    <3> QED
      BY <2>6, <3>1, <3>4, <3>5, <1>d, <1>k DEF StartNext, ActiveKept
  <2> QED
    BY <1>7, <2>1, <2>2, <2>3, <2>4, <2>5, <2>6 DEF Worker
<1>8. ASSUME NEW m \in {"interrupt", "drain"}, RequestShutdown(m)
      PROVE  ActiveKept
  BY <1>8, <1>s DEF RequestShutdown
<1>9. CASE Shutdown
  <2>1. ASSUME NEW u \in Turns, CancelFuture(u)
        PROVE  ActiveKept
    <3>1. \A v \in Turns : work[v] # "pending" => work'[v] = work[v]
      BY <2>1 DEF CancelFuture
    <3> QED
      BY <2>1, <3>1, <1>p DEF CancelFuture
  <2>c. ASSUME NEW u \in Turns, SettleCancelled(u) \/ OpenGate(u)
        PROVE  ActiveKept
    <3>1. \E to : work' = [work EXCEPT ![u] = to]
      BY <2>c DEF SettleCancelled, OpenGate, Stage
    <3>2. work[u] \notin Attached /\ UNCHANGED <<threadOf, active>>
      BY <2>c, <1>d DEF SettleCancelled, OpenGate, MayOpen, Stage
    <3> QED
      BY <3>1, <3>2, <1>m
  <2>2. ASSUME NEW u \in Turns, SettleQueued(u) \/ InterruptActive(u)
        PROVE  ActiveKept
    BY <2>2, <1>s DEF SettleQueued, InterruptActive
  <2>3. CASE DrainWaitEnds \/ CancelQueues \/ SnapshotActive \/ BeginFinalWait \/ FinalWaitEnds
    <3>1. UNCHANGED <<threadOf, active, work>>
      BY <2>3 DEF DrainWaitEnds, CancelQueues, SnapshotActive, BeginFinalWait, FinalWaitEnds
    <3> QED
      BY <3>1, <1>s, <1>k
  <2>4. CASE ShutdownExecutor
    <3>1. \A v \in Turns : work[v] # "pending" => work'[v] = work[v]
      BY <2>4 DEF ShutdownExecutor
    <3> QED
      BY <2>4, <3>1, <1>p, <1>k DEF ShutdownExecutor
  <2>5. CASE Exit
    BY <2>5, <1>q DEF Exit
  <2> QED
    BY <1>9, <1>k, <2>1, <2>c, <2>2, <2>3, <2>4, <2>5 DEF Shutdown
<1>10. CASE Crash
  BY <1>10, <1>q DEF Crash
<1>11. CASE Recover
  BY <1>11, <1>s, <1>k DEF Recover
<1>12. CASE UNCHANGED vars
  BY <1>12, <1>s, <1>k DEF vars
<1> QED
  BY <1>k, <1>1, <1>2, <1>3, <1>4, <1>5, <1>6, <1>7, <1>8, <1>9, <1>10, <1>11, <1>12 DEF Next

-----------------------------------------------------------------------------
(* The theorems.                                                           *)

LEMMA InitProtocol == Init => GateInv
<1> SUFFICES ASSUME Init PROVE GateInv
  OBVIOUS
<1>1. \A t \in Threads : queue[t] = <<>>
  BY Zenon DEF Init
<1>2. LiveTurns = {}
  BY DEF Init, LiveTurns, Live, InWorker, Cancelling
<1>3. QueuedAreNew
  BY <1>1 DEF QueuedAreNew
<1>4. GateIsHeld
  BY <1>1 DEF Init, GateIsHeld
<1>5. ActiveIsCurrent /\ AbsentAreIdle
  BY DEF Init, ActiveIsCurrent, AbsentAreIdle
<1> QED
  BY <1>2, <1>3, <1>4, <1>5 DEF GateInv, OneTurnPerThread, LiveHoldGate

LEMMA GateStepKeepsProtocol ==
  ASSUME Inv, [Next]_vars
  PROVE  Protocol'
<1>1. GateStep /\ TypeOK /\ Protocol
  BY StepsAreGateSteps DEF Inv, GateInv, Protocol
<1> QED
  BY <1>1, SameKeepsProtocol, LeavingKeepsProtocol, AcceptingKeepsProtocol,
     StartingNextKeepsProtocol, StoppingKeepsProtocol DEF GateStep

LEMMA Invariance == Spec => []Inv
<1>1. Init => Inv
  BY InitType, InitProtocol DEF Inv
<1>2. Inv /\ [Next]_vars => Inv'
  BY TypeStep, GateStepKeepsProtocol, ActiveStep DEF Inv, GateInv, Protocol
<1> QED
  BY <1>1, <1>2, PTL DEF Spec

(* Every variable of the scheduler keeps its type, for any number of       *)
(* threads, turns and callers (the declarations in TurnScheduler.__init__).*)
THEOREM TypeCorrect == Spec => []TypeOK
BY Invariance, PTL DEF Inv

(* The gate protocol of ThreadGate, the form that every step preserves.    *)
THEOREM GateProtocol == Spec => []GateInv
BY Invariance, PTL DEF Inv

(* README: "The broker enforces one active turn at a time per broker       *)
(* thread", in both shutdown modes and across crashes.                     *)
THEOREM OneTurn == Spec => []OneTurnPerThread
<1>1. Inv => OneTurnPerThread
  BY DEF Inv, GateInv
<1> QED
  BY <1>1, Invariance, PTL

(* Interrupt and steer reach only the turn that the thread is running.     *)
THEOREM ActiveCurrent == Spec => []ActiveIsCurrent
<1>1. Inv => ActiveIsCurrent
  BY DEF Inv, GateInv
<1> QED
  BY <1>1, Invariance, PTL

(* A turn that waits has a work item of its thread ahead of it, which will *)
(* start it in _advance_queue, until a shutdown cuts work short.           *)
THEOREM NoStranding == Spec => []NoStrandedQueue
<1>1. Inv => NoStrandedQueue
  BY DEF Inv, GateInv, GateIsHeld, NoStrandedQueue
<1> QED
  BY <1>1, Invariance, PTL
-----------------------------------------------------------------------------
(* The refinement of ThreadQueue: each kind of step is a step of the       *)
(* promise, or changes nothing that the promise speaks of.                 *)

used == {u \in Turns : row[u] # "absent"}
current == [t \in Threads |-> CurrentOf(t)]

LEMMA CurrentIsLive ==
  ASSUME OneTurnPerThread, NEW t \in Threads
  PROVE  /\ \A u \in LiveTurns : threadOf[u] = t => current[t] = u
         /\ (\A u \in LiveTurns : threadOf[u] # t) => current[t] = NoTurn
<1>1. ASSUME NEW u \in LiveTurns, threadOf[u] = t PROVE CurrentOf(t) = u
  <2>1. CurrentOf(t) \in LiveTurns /\ threadOf[CurrentOf(t)] = t
    BY <1>1 DEF CurrentOf
  <2> QED
    BY <1>1, <2>1 DEF OneTurnPerThread
<1>2. (\A u \in LiveTurns : threadOf[u] # t) => CurrentOf(t) = NoTurn
  BY DEF CurrentOf
<1> QED
  BY <1>1, <1>2 DEF current

LEMMA CurrentIsLiveNext ==
  ASSUME OneTurnPerThread', NEW t \in Threads
  PROVE  /\ \A u \in LiveTurns' : threadOf'[u] = t => current'[t] = u
         /\ (\A u \in LiveTurns' : threadOf'[u] # t) => current'[t] = NoTurn
<1>1. ASSUME NEW u \in LiveTurns', threadOf'[u] = t PROVE CurrentOf(t)' = u
  <2>1. CurrentOf(t)' \in LiveTurns' /\ threadOf'[CurrentOf(t)'] = t
    BY <1>1 DEF CurrentOf
  <2> QED
    BY <1>1, <2>1 DEF OneTurnPerThread
<1>2. (\A u \in LiveTurns' : threadOf'[u] # t) => CurrentOf(t)' = NoTurn
  BY DEF CurrentOf
<1> QED
  BY <1>1, <1>2 DEF current

(* The current turns change only where the live turns do.                  *)
LEMMA CurrentKept ==
  ASSUME OneTurnPerThread, OneTurnPerThread', NEW t \in Threads,
         \A u \in Turns : u \in LiveTurns /\ threadOf[u] = t <=> u \in LiveTurns' /\ threadOf'[u] = t
  PROVE  current'[t] = current[t]
<1>1. LiveTurns \subseteq Turns /\ LiveTurns' \subseteq Turns
  BY DEF LiveTurns
<1>2. CASE \E u \in LiveTurns : threadOf[u] = t
  BY <1>1, <1>2, CurrentIsLive, CurrentIsLiveNext
<1>3. CASE \A u \in LiveTurns : threadOf[u] # t
  BY <1>1, <1>3, CurrentIsLive, CurrentIsLiveNext
<1> QED
  BY <1>2, <1>3

LEMMA SameIsStutter ==
  ASSUME Inv, Inv', Same PROVE [Promise!Next]_(Promise!vars)
<1> USE DEF Inv, GateInv, Same
<1>1. LiveTurns' = LiveTurns /\ used' = used
  BY DEF LiveTurns, used
<1>2. \A t \in Threads : current'[t] = current[t]
  BY <1>1, CurrentKept
<1>3. UNCHANGED <<used, current, queue>>
  BY <1>1, <1>2 DEF current
<1>4. CASE Open' <=> Open
  BY <1>3, <1>4 DEF Promise!vars, Open, used, current
<1>5. CASE ~(Open' <=> Open)
  <2>1. Open /\ ~Open'
    BY <1>5 DEF StageKept
  <2>2. Promise!Stop
    BY <1>3, <2>1 DEF Promise!Stop, Open, used, current
  <2> QED
    BY <2>2 DEF Promise!Next
<1> QED
  BY <1>4, <1>5

LEMMA AcceptIsAccept ==
  ASSUME Inv, Inv', NEW c \in Callers, NEW u \in Turns, AcceptTurn(c, u)
  PROVE  Promise!Next
<1> DEFINE t == call[c].thread
<1> USE DEF Inv, GateInv
<1>1. t \in Threads /\ row[u] = "absent" /\ work[u] = "none" /\ u \notin LiveTurns
  BY DEF AcceptTurn, CallType, TypeOK, AbsentAreIdle, LiveTurns, Live, InWorker, Cancelling
<1>2. threadOf' = [threadOf EXCEPT ![u] = t] /\ UNCHANGED <<mode, stage>>
  BY DEF AcceptTurn, stop
<1>3. used' = used \union {u} /\ u \notin used
  BY <1>1 DEF AcceptTurn, TypeOK, used
<1>4. CASE Busy(t)
  <2>1. queue' = [queue EXCEPT ![t] = Append(@, u)] /\ UNCHANGED <<running, work>>
    BY <1>4 DEF AcceptTurn
  <2>2. LiveTurns' = LiveTurns
    BY <2>1 DEF LiveTurns, Live
  <2>3. \A s \in Threads : current'[s] = current[s]
    BY <1>1, <1>2, <2>2, CurrentKept DEF TypeOK, LiveTurns
  <2>4. current' = current
    BY <2>3 DEF current
  <2>5. current[t] # NoTurn \/ ~Open
    BY <1>1, <1>4, CurrentIsLive, SchedulerAssumption DEF Open, GateIsHeld, Busy, LiveTurns
  <2>6. Promise!Accept(t, u)
    BY <1>2, <1>3, <2>1, <2>4, <2>5 DEF Promise!Accept, Open, used, current
  <2> QED
    BY <1>1, <2>6 DEF Promise!Next
<1>5. CASE ~Busy(t) /\ ExecutorDown
  <2>1. UNCHANGED <<queue, work>>
    BY <1>5 DEF AcceptTurn, Submit
  <2>2. LiveTurns' = LiveTurns
    BY <2>1 DEF LiveTurns, Live
  <2>3. \A s \in Threads : current'[s] = current[s]
    BY <1>1, <1>2, <2>2, CurrentKept DEF TypeOK, LiveTurns
  <2>4. current' = current
    BY <2>3 DEF current
  <2>5. Promise!AcceptUnserved(u)
    BY <1>2, <1>3, <1>5, <2>1, <2>4 DEF Promise!AcceptUnserved, ExecutorDown, used, current
  <2> QED
    BY <2>5 DEF Promise!Next
<1>6. CASE ~Busy(t) /\ ~ExecutorDown
  <2>1. /\ work' = [work EXCEPT ![u] = "pending"] /\ queue[t] = <<>>
        /\ UNCHANGED queue
    BY <1>6 DEF AcceptTurn, Submit, Busy
  <2>2. LiveTurns' = LiveTurns \union {u}
    BY <2>1 DEF LiveTurns, Live, TypeOK
  <2>3. \A v \in LiveTurns : v # u /\ threadOf[v] # t
    BY <1>1, <1>6 DEF LiveHoldGate, Busy
  <2>a. /\ threadOf'[u] = t /\ u \in LiveTurns'
        /\ \A v \in Turns : v # u => threadOf'[v] = threadOf[v]
    BY <1>2, <2>2 DEF TypeOK
  <2>4. \A s \in Threads \ {t} : current'[s] = current[s]
    <3>1. ASSUME NEW s \in Threads \ {t}, NEW v \in Turns
          PROVE  v \in LiveTurns /\ threadOf[v] = s <=> v \in LiveTurns' /\ threadOf'[v] = s
      BY <1>1, <2>2, <2>a
    <3>2. OneTurnPerThread /\ OneTurnPerThread'
      OBVIOUS
    <3> QED
      BY <3>1, <3>2, CurrentKept
  <2>5. current[t] = NoTurn /\ current'[t] = u
    <3>1. OneTurnPerThread /\ OneTurnPerThread'
      OBVIOUS
    <3>2. current[t] = NoTurn
      BY <1>1, <2>3, <3>1, CurrentIsLive
    <3> QED
      BY <1>1, <2>a, <3>1, <3>2, CurrentIsLiveNext
  <2>6. current' = [current EXCEPT ![t] = u]
    BY <2>4, <2>5 DEF current
  <2>7. Promise!Accept(t, u)
    BY <1>2, <1>3, <2>1, <2>5, <2>6 DEF Promise!Accept, used, current
  <2> QED
    BY <1>1, <2>7 DEF Promise!Next
<1> QED
  BY <1>4, <1>5, <1>6

LEMMA LeavingIsHandOver ==
  ASSUME Inv, Inv', NEW u \in Turns, Leaves(u)
  PROVE  Promise!Next
<1> DEFINE t == threadOf[u]
<1> USE DEF Inv, GateInv
<1>1. u \in LiveTurns /\ LiveTurns' = LiveTurns \ {u} /\ t \in Threads
  BY DEF Leaves, LiveTurns, Live, LiveHoldGate
<1>2. used' = used /\ UNCHANGED <<queue, stage, threadOf>>
  BY DEF Leaves, used
<1>3. \A s \in Threads \ {t} : current'[s] = current[s]
  BY <1>1, <1>2, CurrentKept
<1>4. current[t] = u /\ current'[t] = NoTurn
  BY <1>1, <1>2, CurrentIsLive, CurrentIsLiveNext DEF OneTurnPerThread
<1>5. CASE Open
  <2>1. current' = [current EXCEPT ![t] = NoTurn]
    BY <1>3, <1>4 DEF current
  <2>2. queue[t] = <<>>
    BY <1>5 DEF Leaves
  <2>3. Promise!HandOver(t)
    BY <1>2, <1>4, <2>1, <2>2, SchedulerAssumption DEF Promise!HandOver, used, current
  <2> QED
    BY <1>1, <2>3 DEF Promise!Next
<1>6. CASE ~Open
  <2>1. current' = [s \in Threads |-> IF s \in {t} THEN NoTurn ELSE current[s]]
    BY <1>3, <1>4 DEF current
  <2>2. Promise!Abandon({t})
    BY <1>2, <1>6, <2>1 DEF Promise!Abandon, Open, used, current
  <2> QED
    BY <1>1, <2>2 DEF Promise!Next
<1> QED
  BY <1>5, <1>6

LEMMA StartingNextIsHandOver ==
  ASSUME Inv, Inv', NEW u \in Turns, StartNext(u)
  PROVE  Promise!Next
<1> DEFINE t == threadOf[u]
           q == queue[t]
<1> USE DEF Inv, GateInv, TypeOK
<1>1. u \in LiveTurns /\ t \in Threads /\ work[u] = "advance"
  BY DEF StartNext, LiveHoldGate, LiveTurns, Live, InWorker, Cancelling
<1>2. q \in Seq(Turns) /\ q # <<>>
  BY <1>1 DEF StartNext, GateCloses
<1>v. PICK v \in Turns : v = Head(q)
  BY <1>2
<1>4. v = q[1] /\ 1 \in DOMAIN q
  BY <1>2, <1>v
<1>5. /\ threadOf[v] = t /\ work[v] = "none" /\ row[v] # "absent"
      /\ v # u /\ v \notin LiveTurns
  BY <1>1, <1>2, <1>4 DEF QueuedAreNew, LiveTurns, Live, InWorker, Cancelling
<1>6. /\ UNCHANGED <<threadOf, stage>>
      /\ queue' = [queue EXCEPT ![t] = Tail(q)]
      /\ row' = [row EXCEPT ![v] = "starting"]
  BY <1>v DEF StartNext, Dequeue, stop
<1>7. used' = used
  BY <1>5, <1>6 DEF used
<1>8. current[t] = u
  BY <1>1, CurrentIsLive
<1>9. CASE ~ExecutorDown
  <2>1. work' = [work EXCEPT ![u] = "returned", ![v] = "pending"]
    BY <1>v, <1>9 DEF StartNext, Dequeue
  <2>2. LiveTurns' = (LiveTurns \ {u}) \union {v}
    BY <1>5, <2>1 DEF LiveTurns, Live, InWorker, Cancelling
  <2>3. \A s \in Threads \ {t} : current'[s] = current[s]
    BY <1>5, <1>6, <2>2, CurrentKept
  <2>4. current'[t] = v
    BY <1>1, <1>5, <1>6, <2>2, CurrentIsLiveNext
  <2>5. current' = [current EXCEPT ![t] = Head(q)]
    BY <1>v, <2>3, <2>4 DEF current
  <2>6. Promise!HandOver(t)
    BY <1>1, <1>2, <1>6, <1>7, <1>8, <2>5, SchedulerAssumption DEF Promise!HandOver, used, current
  <2> QED
    BY <1>1, <2>6 DEF Promise!Next
<1>10. CASE ExecutorDown
  <2>1. work' = [work EXCEPT ![u] = "returned"]
    BY <1>10 DEF StartNext, Dequeue
  <2>2. LiveTurns' = LiveTurns \ {u}
    BY <2>1 DEF LiveTurns, Live, InWorker, Cancelling
  <2>3. \A s \in Threads \ {t} : current'[s] = current[s]
    BY <1>6, <2>2, CurrentKept
  <2>4. current'[t] = NoTurn
    BY <1>1, <1>6, <2>2, CurrentIsLiveNext DEF OneTurnPerThread
  <2>5. current' = [current EXCEPT ![t] = NoTurn]
    BY <2>3, <2>4 DEF current
  <2>6. Promise!Lose(t)
    BY <1>1, <1>2, <1>6, <1>7, <1>10, <2>5 DEF Promise!Lose, ExecutorDown, used, current
  <2> QED
    BY <1>1, <2>6 DEF Promise!Next
<1> QED
  BY <1>9, <1>10

LEMMA StoppingIsStopping ==
  ASSUME Inv, Inv', CancelQueues \/ ShutdownExecutor \/ Forget
  PROVE  Promise!Next
<1> USE DEF Inv, GateInv
<1>1. CASE CancelQueues
  <2>1. LiveTurns' = LiveTurns /\ used' = used /\ UNCHANGED threadOf
    BY <1>1 DEF CancelQueues, pool, rows, LiveTurns, Live, used
  <2>2. \A t \in Threads : current'[t] = current[t]
    BY <2>1, CurrentKept
  <2>3. current' = current
    BY <2>2 DEF current
  <2>4. Promise!DropWaiting
    BY <1>1, <2>1, <2>3 DEF CancelQueues, Promise!DropWaiting, used, current
  <2> QED
    BY <2>4 DEF Promise!Next
<1>2. CASE ShutdownExecutor
  <2> DEFINE S == {t \in Threads : \A u \in LiveTurns' : threadOf[u] # t}
  <2>1. \A u \in Turns : work'[u] = IF work[u] = "pending" THEN "over" ELSE work[u]
    BY <1>2 DEF ShutdownExecutor
  <2>2. LiveTurns' \subseteq LiveTurns
    BY <2>1 DEF LiveTurns, Live, InWorker, Cancelling
  <2>3. UNCHANGED <<row, threadOf, queue>> /\ stage = "closing" /\ stage' = "down"
    BY <1>2 DEF ShutdownExecutor, rows, gates
  <2>4. \A t \in S : current'[t] = NoTurn
    BY <2>3, CurrentIsLiveNext
  <2>5. \A t \in Threads \ S : current'[t] = current[t]
    <3> SUFFICES ASSUME NEW t \in Threads \ S PROVE current'[t] = current[t]
      OBVIOUS
    <3>1. PICK u \in LiveTurns' : threadOf[u] = t
      OBVIOUS
    <3> QED
      BY <2>2, <2>3, <3>1, CurrentIsLive, CurrentIsLiveNext
  <2>6. current' = [t \in Threads |-> IF t \in S THEN NoTurn ELSE current[t]]
    BY <2>4, <2>5 DEF current
  <2>7. Promise!Abandon(S)
    BY <2>3, <2>6 DEF Promise!Abandon, used, current
  <2>8. S \in SUBSET Threads
    OBVIOUS
  <2> QED
    BY <2>7, <2>8 DEF Promise!Next
<1>3. CASE Forget
  <2>1. LiveTurns' = {}
    BY <1>3 DEF Forget, LiveTurns, Live, InWorker, Cancelling
  <2>2. \A t \in Threads : current'[t] = NoTurn
    BY <2>1, CurrentIsLiveNext
  <2>3. current' = [t \in Threads |-> NoTurn] /\ used' = used
    BY <1>3, <2>2 DEF current, Forget, rows, used
  <2>4. queue' = [t \in Threads |-> <<>>] /\ stage' = "serving"
    BY <1>3, Zenon DEF Forget
  <2>5. Promise!Reset
    BY <2>3, <2>4 DEF Promise!Reset, used, current
  <2> QED
    BY <2>5 DEF Promise!Next
<1> QED
  BY <1>1, <1>2, <1>3

LEMMA InitIsPromised == Init => Promise!Init
<1> SUFFICES ASSUME Init PROVE Promise!Init
  OBVIOUS
<1>1. LiveTurns = {} /\ used = {}
  BY DEF Init, LiveTurns, Live, InWorker, Cancelling, used
<1>2. current = [t \in Threads |-> NoTurn]
  BY <1>1 DEF current, CurrentOf
<1>3. queue = [t \in Threads |-> <<>>] /\ stage = "serving"
  BY Zenon DEF Init
<1> QED
  BY <1>1, <1>2, <1>3 DEF Promise!Init, used, current

(* What the hosts are promised: an accepted turn is accepted once, runs at *)
(* most once, alone on its thread and in the order of acceptance, and only *)
(* a shutdown or a crash takes a turn from its queue (_start_turn,         *)
(* _advance_queue, shutdown).                                              *)
THEOREM Refinement == Spec => ImplementsThreadQueue
<1>1. ASSUME Inv, Inv', [Next]_vars PROVE [Promise!Next]_(Promise!vars)
  BY <1>1, StepsAreGateSteps, SameIsStutter, AcceptIsAccept, LeavingIsHandOver,
     StartingNextIsHandOver, StoppingIsStopping DEF GateStep
<1>2. Inv /\ Inv' /\ [Next]_vars => [Promise!Next]_(Promise!vars)
  BY <1>1
<1> QED
  BY <1>2, InitIsPromised, Invariance, PTL DEF Spec, ImplementsThreadQueue, Promise!Spec
=============================================================================
