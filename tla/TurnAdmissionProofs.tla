------------------------ MODULE TurnAdmissionProofs ------------------------
(***************************************************************************)
(* Theorems about the rows and the counter that admit turns: a key makes   *)
(* one turn, a turn is settled before its gate is handed on, and the       *)
(* counter of outstanding turns is exact. They rest on the gate protocol   *)
(* of TurnSchedulerProofs.                                                 *)
(***************************************************************************)
EXTENDS TurnSchedulerProofs

-----------------------------------------------------------------------------
(* Idempotency keys.                                                       *)

Made(u) == row[u] # "absent" /\ keyOf[u] \in Keys

KeysMakeOne ==
  \A u, v \in Turns :
    Made(u) /\ Made(v) /\ threadOf[u] = threadOf[v] /\ keyOf[u] = keyOf[v] => u = v

LEMMA KeysStep ==
  ASSUME Inv, KeysMakeOne, [Next]_vars
  PROVE  KeysMakeOne'
<1> USE DEF Inv, TypeOK
<1>k. ASSUME UNCHANGED <<threadOf, keyOf>>, \A u \in Turns : row'[u] = "absent" <=> row[u] = "absent"
      PROVE  KeysMakeOne'
  BY <1>k DEF KeysMakeOne, Made
<1>1. CASE Same \/ \E u \in Turns : Leaves(u)
  BY <1>1, <1>k DEF Same, Leaves
<1>2. ASSUME NEW c \in Callers, NEW u \in Turns, AcceptTurn(c, u)
      PROVE  KeysMakeOne'
  <2> DEFINE t == call[c].thread
             k == call[c].key
  <2>1. k \in Keys \union {NoKey} /\ row[u] = "absent"
    BY <1>2 DEF AcceptTurn, CallType
  <2>2. threadOf' = [threadOf EXCEPT ![u] = t] /\ keyOf' = [keyOf EXCEPT ![u] = k]
    BY <1>2 DEF AcceptTurn
  <2>3. \A v \in Turns \ {u} : row'[v] = row[v]
    BY <1>2 DEF AcceptTurn
  <2>4. k \in Keys => \A v \in Turns : row[v] # "absent" /\ threadOf[v] = t => keyOf[v] # k
    BY <1>2, SchedulerAssumption DEF AcceptTurn, Admissible, Known, Keyed
  <2> QED
    BY <2>1, <2>2, <2>3, <2>4 DEF KeysMakeOne, Made
<1>3. ASSUME NEW u \in Turns, StartNext(u)
      PROVE  KeysMakeOne'
  <2>1. threadOf[u] \in Threads
    BY <1>3 DEF StartNext, GateInv, LiveHoldGate, LiveTurns, Live, InWorker, Cancelling
  <2>2. queue[threadOf[u]] \in Seq(Turns) /\ queue[threadOf[u]] # <<>>
    BY <1>3, <2>1 DEF StartNext, GateCloses
  <2>3. PICK v \in Turns : v = Head(queue[threadOf[u]])
    BY <2>2
  <2>4. row[v] # "absent"
    BY <2>1, <2>2, <2>3 DEF GateInv, QueuedAreNew
  <2>5. row' = [row EXCEPT ![v] = "starting"] /\ UNCHANGED <<threadOf, keyOf>>
    BY <1>3, <2>3 DEF StartNext, Dequeue
  <2> QED
    BY <2>4, <2>5, <1>k
<1>4. CASE CancelQueues \/ ShutdownExecutor \/ Forget
  BY <1>4, <1>k DEF CancelQueues, ShutdownExecutor, Forget, rows
<1> QED
  BY <1>1, <1>2, <1>3, <1>4, StepsAreGateSteps DEF GateStep

(* README: a repeated create request with a key "returns the original      *)
(* broker turn": no two turns of a thread have one key, for any number of  *)
(* callers and across restarts (_start_turn).                              *)
THEOREM OneTurnForAKey == Spec => []OneTurnPerKey
<1>1. Init => KeysMakeOne
  BY DEF Init, KeysMakeOne, Made
<1>2. KeysMakeOne => OneTurnPerKey
  <2> SUFFICES ASSUME KeysMakeOne, NEW t \in Threads, NEW k \in Keys
               PROVE  Cardinality(Keyed(t, k)) <= 1
    BY DEF OneTurnPerKey
  <2>1. CASE Keyed(t, k) = {}
    BY <2>1, FS_EmptySet
  <2>2. CASE Keyed(t, k) # {}
    <3>1. PICK u \in Turns : Keyed(t, k) = {u}
      BY <2>2 DEF Keyed, KeysMakeOne, Made
    <3>2. Cardinality({u}) = 1
      BY FS_Singleton
    <3> QED
      BY <3>1, <3>2
  <2> QED
    BY <2>1, <2>2
<1>3. Inv /\ KeysMakeOne /\ [Next]_vars => KeysMakeOne'
  BY KeysStep
<1> QED
  BY <1>1, <1>2, <1>3, Invariance, PTL DEF Spec

-----------------------------------------------------------------------------
(* Rows are settled before the gate goes on.                               *)

Settled ==
  \A u \in Turns \ lost :
    /\ work[u] \in {"cleanup", "advance", "returned", "settled"} => row[u] = "final"
    /\ work[u] = "over" /\ row[u] # "final" => ExecutorDown

LEMMA FinalizeSettles ==
  ASSUME TypeOK, NEW S, Finalize(S)
  PROVE  /\ \A u \in Turns : row[u] = "final" => row'[u] = "final"
         /\ \A u \in S \intersect Turns : row[u] # "absent" => row'[u] = "final"
BY DEF Finalize, TypeOK, Incomplete

LEMMA SettledStep ==
  ASSUME Inv, Settled, [Next]_vars
  PROVE  Settled'
<1> USE DEF Inv, TypeOK, rows, gates, late, pool, stop
<1>k. ASSUME UNCHANGED <<work, lost>>, stage' = stage \/ stage # "down",
             \A u \in Turns : row[u] = "final" => row'[u] = "final"
      PROVE  Settled'
  BY <1>k DEF Settled, ExecutorDown
<1>m. ASSUME UNCHANGED <<lost, stage>>, NEW u \in Turns, NEW to,
             work' = [work EXCEPT ![u] = to],
             \A v \in Turns : row[v] = "final" => row'[v] = "final",
             u \in lost \/ to \notin {"cleanup", "advance", "returned", "settled", "over"}
             \/ row'[u] = "final"
      PROVE  Settled'
  BY <1>m DEF Settled, ExecutorDown
<1>q. ASSUME Forget PROVE Settled'
  BY <1>q DEF Forget, Settled
<1>1. ASSUME NEW c \in Callers, NEW t \in Threads, NEW m \in {"reject", "queue"},
             NEW k \in Keys \union {NoKey}, BeginStart(c, t, m, k)
      PROVE  Settled'
  BY <1>1, <1>k DEF BeginStart
<1>2. ASSUME NEW c \in Callers, NEW u \in Turns, AcceptTurn(c, u)
      PROVE  Settled'
  <2>1. row[u] = "absent" /\ work[u] = "none" /\ UNCHANGED <<lost, stage>>
    BY <1>2 DEF AcceptTurn, GateInv, AbsentAreIdle
  <2>2. \A v \in Turns \ {u} : row'[v] = row[v] /\ work'[v] = work[v]
    BY <1>2 DEF AcceptTurn, Submit
  <2>3. work'[u] \in {"none", "pending"}
    BY <1>2, <2>1 DEF AcceptTurn, Submit
  <2> QED
    BY <2>1, <2>2, <2>3 DEF Settled, ExecutorDown
<1>3. ASSUME NEW c \in Callers, RefuseTurn(c)
      PROVE  Settled'
  BY <1>3, <1>k DEF RefuseTurn
<1>4. ASSUME NEW t \in Threads, FindActive(t)
      PROVE  Settled'
  BY <1>4, <1>k DEF FindActive
<1>5. ASSUME NEW u \in Turns, (\E k \in Keys \union {NoKey} : Steer(u, k)) \/ InterruptTurn(u)
             \/ ReadRow(u) \/ WriteRow(u)
      PROVE  Settled'
  <2>1. CASE \E k \in Keys \union {NoKey} : Steer(u, k)
    BY <2>1, <1>k DEF Steer
  <2>2. CASE InterruptTurn(u)
    BY <2>2, <1>k, FinalizeSettles DEF InterruptTurn
  <2>3. CASE ReadRow(u)
    BY <2>3, <1>k DEF ReadRow
  <2>4. CASE WriteRow(u)
    <3>1. UNCHANGED <<work, stage>> /\ \A v \in Turns \ {u} : row'[v] = row[v]
      BY <2>4 DEF WriteRow
    <3>2. lost \subseteq lost' /\ (row[u] = "final" => u \in lost')
      BY <2>4 DEF WriteRow
    <3> QED
      BY <3>1, <3>2 DEF Settled, ExecutorDown
  <2> QED
    BY <1>5, <2>1, <2>2, <2>3, <2>4
<1>6. CASE TakeWork
  <2>1. UNCHANGED <<row, lost, stage>>
    BY <1>6 DEF TakeWork
  <2>2. \A u \in Turns : work'[u] = work[u] \/ work'[u] = "enter"
    BY <1>6 DEF TakeWork
  <2> QED
    BY <2>1, <2>2 DEF Settled, ExecutorDown
<1>7. ASSUME NEW u \in Turns, Worker(u)
      PROVE  Settled'
  <2>a. work[u] # "none" => row[u] # "absent"
    BY DEF GateInv, AbsentAreIdle
  <2>1. CASE EnterInterrupted(u) \/ PreflightFails(u) \/ PrepareFails(u) \/ TurnEnds(u)
    <3>1. /\ work' = [work EXCEPT ![u] = "cleanup"] /\ work[u] # "none" /\ UNCHANGED <<lost, stage>>
          /\ Finalize({u})
      BY <2>1 DEF EnterInterrupted, PreflightFails, PrepareFails, TurnEnds, Stage, InContext
    <3> QED
      BY <3>1, <2>a, <1>m, FinalizeSettles
  <2>2. CASE StartTurn(u)
    <3>1. work' = [work EXCEPT ![u] = "prepare"] /\ row' = [row EXCEPT ![u] = "running"]
          /\ UNCHANGED <<lost, stage>>
      BY <2>2 DEF StartTurn, Stage
    <3> QED
      BY <3>1 DEF Settled, ExecutorDown
  <2>3. CASE Activate(u)
    BY <2>3, <1>m DEF Activate, Stage
  <2>4. CASE SendInput(u)
    BY <2>4, <1>m DEF SendInput, Stage
  <2>5. CASE Cleanup(u)
    BY <2>5, <1>m DEF Cleanup, Stage, Settled
  <2>6. CASE ReleaseGate(u)
    BY <2>6, <1>m DEF ReleaseGate, Stage, Settled
  <2>7. CASE StartNext(u)
    <3>1. threadOf[u] \in Threads /\ work[u] = "advance"
      BY <2>7 DEF StartNext, GateInv, LiveHoldGate, LiveTurns, Live, InWorker, Cancelling
    <3>2. queue[threadOf[u]] \in Seq(Turns) /\ queue[threadOf[u]] # <<>>
      BY <2>7, <3>1 DEF StartNext, GateCloses
    <3>3. PICK v \in Turns : v = Head(queue[threadOf[u]])
      BY <3>2
    <3>4. work[v] = "none" /\ v # u
      BY <3>1, <3>2, <3>3 DEF GateInv, QueuedAreNew
    <3>5. row' = [row EXCEPT ![v] = "starting"] /\ UNCHANGED <<lost, stage>>
      BY <2>7, <3>3 DEF StartNext, Dequeue
    <3>6. work'[v] \in {"none", "pending"} /\ work'[u] = "returned"
          /\ \A w \in Turns \ {u, v} : work'[w] = work[w]
      BY <2>7, <3>3, <3>4 DEF StartNext, Dequeue
    <3> QED
      BY <3>1, <3>4, <3>5, <3>6 DEF Settled, ExecutorDown
  <2>8. CASE WorkDone(u)
    BY <2>8, <1>m DEF WorkDone, Stage, Settled
  <2> QED
    BY <1>7, <2>1, <2>2, <2>3, <2>4, <2>5, <2>6, <2>7, <2>8 DEF Worker
<1>8. ASSUME NEW m \in {"interrupt", "drain"}, RequestShutdown(m)
      PROVE  Settled'
  BY <1>8, <1>k DEF RequestShutdown
<1>9. CASE Shutdown
  <2>1. ASSUME NEW u \in Turns, CancelFuture(u)
        PROVE  Settled'
    <3>1. UNCHANGED <<row, lost, stage>>
      BY <2>1 DEF CancelFuture
    <3>2. \A v \in Turns : work'[v] = work[v] \/ work'[v] = "cancelled"
      BY <2>1 DEF CancelFuture
    <3> QED
      BY <3>1, <3>2 DEF Settled, ExecutorDown
  <2>c. ASSUME NEW u \in Turns, SettleCancelled(u)
        PROVE  Settled'
    <3>1. row[u] # "absent"
      BY <2>c DEF SettleCancelled, Stage, GateInv, AbsentAreIdle
    <3>2. work' = [work EXCEPT ![u] = "settled"] /\ Finalize({u}) /\ UNCHANGED <<lost, stage>>
      BY <2>c DEF SettleCancelled, Stage
    <3> QED
      BY <3>1, <3>2, <1>m, FinalizeSettles
  <2>2. ASSUME NEW u \in Turns, OpenGate(u)
        PROVE  Settled'
    <3>1. work[u] = "settled" /\ work' = [work EXCEPT ![u] = "over"] /\ UNCHANGED <<row, lost, stage>>
      BY <2>2 DEF OpenGate, MayOpen
    <3> QED
      BY <3>1, <1>m DEF Settled
  <2>3. ASSUME NEW u \in Turns, SettleQueued(u) \/ InterruptActive(u)
        PROVE  Settled'
    <3>1. Finalize({u}) \/ UNCHANGED row
      BY <2>3 DEF SettleQueued, InterruptActive
    <3> QED
      BY <2>3, <3>1, <1>k, FinalizeSettles DEF SettleQueued, InterruptActive
  <2>4. CASE DrainWaitEnds \/ CancelQueues \/ SnapshotActive \/ BeginFinalWait \/ FinalWaitEnds
    <3>1. UNCHANGED <<row, lost, work>> /\ stage # "down"
      BY <2>4 DEF DrainWaitEnds, CancelQueues, SnapshotActive, BeginFinalWait, FinalWaitEnds
    <3> QED
      BY <3>1, <1>k
  <2>5. CASE ShutdownExecutor
    <3>1. \A u \in Turns : work'[u] = work[u] \/ work'[u] = "over"
      BY <2>5 DEF ShutdownExecutor
    <3>2. UNCHANGED <<row, lost>> /\ stage' = "down"
      BY <2>5 DEF ShutdownExecutor
    <3> QED
      BY <3>1, <3>2 DEF Settled, ExecutorDown
  <2>6. CASE Exit
    BY <2>6, <1>q DEF Exit
  <2> QED
    BY <1>9, <2>1, <2>c, <2>2, <2>3, <2>4, <2>5, <2>6 DEF Shutdown
<1>10. CASE Crash
  BY <1>10, <1>q DEF Crash
<1>11. CASE Recover
  <2>1. \A u \in Turns : work[u] # "none" => row[u] # "absent"
    BY DEF GateInv, AbsentAreIdle
  <2>2. \A u \in Turns : row[u] # "absent" => row'[u] = "final"
    BY <1>11 DEF Recover, Finalize, Abandoned, Incomplete
  <2> QED
    BY <2>1, <2>2, <1>11 DEF Recover, Settled
<1>12. CASE UNCHANGED vars
  BY <1>12, <1>k DEF vars
<1> QED
  BY <1>1, <1>2, <1>3, <1>4, <1>5, <1>6, <1>7, <1>8, <1>9, <1>10, <1>11, <1>12 DEF Next

(* A worker that hands its gate on, and a future that was cancelled, leave *)
(* a terminal row; only what the executor dropped waits for the recovery   *)
(* (_run_turn, _cancel_pending_futures, shutdown).                         *)
THEOREM SettledFirst == Spec => []SettledBeforeHandOver
<1>1. Init => Settled
  BY DEF Init, Settled
<1>2. Settled => SettledBeforeHandOver
  BY DEF Settled, SettledBeforeHandOver
<1>3. Inv /\ Settled /\ [Next]_vars => Settled'
  BY SettledStep
<1> QED
  BY <1>1, <1>2, <1>3, Invariance, PTL DEF Spec

-----------------------------------------------------------------------------
(* The counter of outstanding turns.                                       *)

Counting == {"serving", "drainWait", "cancelFutures"}

Counted ==
  stage \in Counting => outstanding = Cardinality(AllQueued) + Cardinality(Unreleased)

LEMMA CountedSets ==
  ASSUME TypeOK
  PROVE  /\ AllQueued \subseteq Turns /\ Unreleased \subseteq Turns
         /\ IsFiniteSet(AllQueued) /\ IsFiniteSet(Unreleased)
         /\ Cardinality(AllQueued) \in Nat /\ Cardinality(Unreleased) \in Nat
<1>1. AllQueued \subseteq Turns /\ Unreleased \subseteq Turns
  BY QueuedAreTurns DEF Unreleased
<1>2. IsFiniteSet(AllQueued) /\ IsFiniteSet(Unreleased)
  BY <1>1, FS_Subset, SchedulerAssumption
<1> QED
  BY <1>1, <1>2, FS_CardinalityType

LEMMA QueuedAre ==
  \A u : u \in AllQueued <=>
    u \in Turns /\ \E s \in Threads : \E i \in DOMAIN queue[s] : queue[s][i] = u
BY DEF AllQueued, QueuedTurns

LEMMA QueuedAreNext ==
  \A u : u \in AllQueued' <=>
    u \in Turns /\ \E s \in Threads : \E i \in DOMAIN queue'[s] : queue'[s][i] = u
<1>1. AllQueued' = UNION {{u \in Turns : \E i \in DOMAIN queue'[s] : queue'[s][i] = u} : s \in Threads}
  BY DEF AllQueued, QueuedTurns
<1> QED
  BY <1>1

(* A turn is added to a set of those counted, or leaves it.                *)
LEMMA OneMore ==
  ASSUME TypeOK, NEW S \in SUBSET Turns, NEW u \in Turns \ S
  PROVE  Cardinality(S \union {u}) = Cardinality(S) + 1
<1>1. IsFiniteSet(S)
  BY FS_Subset, SchedulerAssumption
<1> QED
  BY <1>1, FS_AddElement

LEMMA OneLess ==
  ASSUME TypeOK, NEW S \in SUBSET Turns, NEW u \in S
  PROVE  Cardinality(S \ {u}) = Cardinality(S) - 1
<1>1. IsFiniteSet(S)
  BY FS_Subset, SchedulerAssumption
<1> QED
  BY <1>1, FS_RemoveElement

LEMMA AcceptCounts ==
  ASSUME Inv, Counted, NEW c \in Callers, NEW u \in Turns, AcceptTurn(c, u)
  PROVE  Counted'
<1> DEFINE t == call[c].thread
<1> USE DEF Inv, TypeOK
<1>1. t \in Threads /\ row[u] = "absent" /\ work[u] = "none" /\ UNCHANGED stage
  BY DEF AcceptTurn, CallType, GateInv, AbsentAreIdle, stop
<1>2. u \notin AllQueued /\ u \notin Unreleased /\ outstanding' = outstanding + 1
  BY <1>1 DEF AcceptTurn, AllQueued, QueuedTurns, GateInv, QueuedAreNew, Unreleased, Live, InWorker, Cancelling
<1>3. CASE Busy(t)
  <2>1. queue' = [queue EXCEPT ![t] = Append(@, u)] /\ UNCHANGED work
    BY <1>3 DEF AcceptTurn
  <2>2. queue[t] \in Seq(Turns) /\ queue'[t] = Append(queue[t], u)
    BY <2>1, <1>1
  <2>3. /\ DOMAIN queue'[t] = DOMAIN queue[t] \union {Len(queue[t]) + 1}
        /\ queue'[t][Len(queue[t]) + 1] = u
        /\ \A i \in DOMAIN queue[t] : queue'[t][i] = queue[t][i]
        /\ \A s \in Threads \ {t} : queue'[s] = queue[s]
    <3>1. /\ DOMAIN queue'[t] = DOMAIN queue[t] \union {Len(queue[t]) + 1}
          /\ queue'[t][Len(queue[t]) + 1] = u
          /\ \A i \in DOMAIN queue[t] : queue'[t][i] = queue[t][i]
      BY <2>2
    <3>2. \A s \in Threads \ {t} : queue'[s] = queue[s]
      BY <2>1
    <3> QED
      BY <3>1, <3>2
  <2>4. AllQueued' = AllQueued \union {u}
    <3>1. ASSUME NEW v \in AllQueued' PROVE v \in AllQueued \/ v = u
      <4>1. v \in Turns
        BY QueuedAreNext
      <4>2. PICK s \in Threads : \E i \in DOMAIN queue'[s] : queue'[s][i] = v
        BY QueuedAreNext
      <4>3. PICK i \in DOMAIN queue'[s] : queue'[s][i] = v
        BY <4>2
      <4>4. v = u \/ (i \in DOMAIN queue[s] /\ queue[s][i] = v)
        BY <2>3, <4>3
      <4> QED
        BY <4>1, <4>4, QueuedAre
    <3>2. ASSUME NEW v \in AllQueued PROVE v \in AllQueued'
      <4>1. v \in Turns
        BY QueuedAre
      <4>2. PICK s \in Threads : \E i \in DOMAIN queue[s] : queue[s][i] = v
        BY QueuedAre
      <4>3. PICK i \in DOMAIN queue[s] : queue[s][i] = v
        BY <4>2
      <4>4. i \in DOMAIN queue'[s] /\ queue'[s][i] = v
        BY <2>3, <4>3
      <4> QED
        BY <4>1, <4>4, QueuedAreNext
    <3>3. u \in AllQueued'
      BY <2>3, <1>1, QueuedAreNext
    <3> QED
      BY <3>1, <3>2, <3>3
  <2>5. Unreleased' = Unreleased
    BY <2>1 DEF Unreleased, Live
  <2>6. Cardinality(AllQueued') = Cardinality(AllQueued) + 1
    BY <2>4, <1>2, OneMore, CountedSets
  <2> QED
    BY <1>1, <1>2, <2>5, <2>6, CountedSets DEF Counted
<1>4. CASE ~Busy(t)
  <2>1. UNCHANGED queue /\ Submit(u)
    BY <1>4 DEF AcceptTurn
  <2>2. AllQueued' = AllQueued
    BY <2>1 DEF AllQueued, QueuedTurns
  <2>3. stage \in Counting => Unreleased' = Unreleased \union {u}
    BY <1>1, <2>1 DEF Counting, Submit, ExecutorDown, Unreleased, Live
  <2>4. stage \in Counting => Cardinality(Unreleased') = Cardinality(Unreleased) + 1
    BY <2>3, <1>2, OneMore, CountedSets
  <2> QED
    BY <1>1, <1>2, <2>2, <2>4, CountedSets DEF Counted
<1> QED
  BY <1>3, <1>4

LEMMA StartNextCounts ==
  ASSUME Inv, Counted, NEW u \in Turns, StartNext(u)
  PROVE  Counted'
<1> DEFINE t == threadOf[u]
           q == queue[t]
<1> USE DEF Inv, TypeOK
<1>1. t \in Threads /\ work[u] = "advance"
  BY DEF StartNext, GateInv, LiveHoldGate, LiveTurns, Live, InWorker, Cancelling
<1>2. q \in Seq(Turns) /\ q # <<>>
  BY <1>1 DEF StartNext, GateCloses
<1>v. PICK v \in Turns : v = Head(q)
  BY <1>2
<1>3. /\ v = q[1] /\ 1 \in DOMAIN q
      /\ DOMAIN q = 1 .. Len(q) /\ Len(q) \in Nat /\ DOMAIN Tail(q) = 1 .. Len(q) - 1
      /\ \A i \in DOMAIN Tail(q) : i + 1 \in DOMAIN q /\ Tail(q)[i] = q[i + 1]
  BY <1>2, <1>v
<1>4. threadOf[v] = t /\ work[v] = "none"
  <2>1. QueuedAreNew
    BY DEF GateInv
  <2>2. \A i \in DOMAIN queue[t] : threadOf[queue[t][i]] = t /\ work[queue[t][i]] = "none"
    BY <1>1, <2>1 DEF QueuedAreNew
  <2> QED
    BY <1>3, <2>2
<1>5. UNCHANGED <<stage, outstanding>> /\ queue' = [queue EXCEPT ![t] = Tail(q)]
  BY <1>v DEF StartNext, Dequeue, stop
<1>6. ~ExecutorDown => work' = [work EXCEPT ![u] = "returned", ![v] = "pending"]
  BY <1>v DEF StartNext, Dequeue
<1>7. /\ queue'[t] = Tail(q) /\ \A s \in Threads \ {t} : queue'[s] = queue[s]
      /\ \A s \in Threads \ {t} : \A i \in DOMAIN queue[s] : queue[s][i] # v
      /\ \A i, j \in DOMAIN q : q[i] = q[j] => i = j
  BY <1>1, <1>4, <1>5 DEF GateInv, QueuedAreNew
<1>8. \A i \in DOMAIN Tail(q) : Tail(q)[i] # v /\ \E j \in DOMAIN q : q[j] = Tail(q)[i]
  <2> SUFFICES ASSUME NEW i \in DOMAIN Tail(q)
               PROVE  Tail(q)[i] # v /\ \E j \in DOMAIN q : q[j] = Tail(q)[i]
    OBVIOUS
  <2>1. i + 1 \in DOMAIN q /\ Tail(q)[i] = q[i + 1] /\ i + 1 # 1
    BY <1>3
  <2>2. q[i + 1] # q[1]
    BY <2>1, <1>3, <1>7
  <2> QED
    BY <2>1, <2>2, <1>3
<1>9. ASSUME NEW j \in DOMAIN q, q[j] # v
      PROVE  \E i \in DOMAIN Tail(q) : Tail(q)[i] = q[j]
  <2>1. j # 1 /\ j - 1 \in DOMAIN Tail(q) /\ (j - 1) + 1 = j
    BY <1>3, <1>9
  <2> QED
    BY <2>1, <1>3
<1>10. v \in AllQueued /\ AllQueued' = AllQueued \ {v}
  <2>1. v \in AllQueued
    BY <1>1, <1>3, QueuedAre
  <2>2. \A w : w \in AllQueued' => w \in AllQueued /\ w # v
    <3> SUFFICES ASSUME NEW w \in Turns, NEW s \in Threads, NEW i \in DOMAIN queue'[s],
                        queue'[s][i] = w
                 PROVE  w \in AllQueued /\ w # v
      BY QueuedAreNext
    <3>1. CASE s = t
      BY <3>1, <1>7, <1>8, QueuedAre
    <3>2. CASE s # t
      BY <3>2, <1>7, QueuedAre
    <3> QED
      BY <3>1, <3>2
  <2>3. \A w : w \in AllQueued /\ w # v => w \in AllQueued'
    <3> SUFFICES ASSUME NEW w \in Turns, w # v, NEW s \in Threads, NEW i \in DOMAIN queue[s],
                        queue[s][i] = w
                 PROVE  w \in AllQueued'
      BY QueuedAre
    <3>1. CASE s = t
      <4>1. PICK j \in DOMAIN Tail(q) : Tail(q)[j] = w
        BY <3>1, <1>9
      <4> QED
        BY <4>1, <1>1, <1>7, QueuedAreNext
    <3>2. CASE s # t
      BY <3>2, <1>7, QueuedAreNext
    <3> QED
      BY <3>1, <3>2
  <2> QED
    BY <2>1, <2>2, <2>3
<1>11. stage \in Counting => Unreleased' = Unreleased \union {v} /\ v \notin Unreleased
  BY <1>1, <1>4, <1>6 DEF Counting, ExecutorDown, Unreleased, Live, InWorker, Cancelling
<1>12. Cardinality(AllQueued') = Cardinality(AllQueued) - 1
  BY <1>10, OneLess, CountedSets
<1>13. stage \in Counting => Cardinality(Unreleased') = Cardinality(Unreleased) + 1
  BY <1>11, OneMore, CountedSets
<1> QED
  BY <1>5, <1>12, <1>13, CountedSets DEF Counted

(* A future that ends, with its callback or cancelled, is released once.   *)
LEMMA ReleaseCounts ==
  ASSUME Inv, Counted, NEW u \in Unreleased, UNCHANGED <<queue, stage>>,
         NEW to \in {"over"} \union Cancelling,
         work' = [work EXCEPT ![u] = to], outstanding' = Released(1)
  PROVE  Counted'
<1> USE DEF Inv, TypeOK
<1>1. Unreleased' = Unreleased \ {u} /\ u \in Turns
  BY DEF Unreleased, InWorker, Cancelling
<1>2. AllQueued' = AllQueued
  BY DEF AllQueued, QueuedTurns
<1>3. Cardinality(Unreleased') = Cardinality(Unreleased) - 1
  BY <1>1, OneLess, CountedSets
<1>4. Cardinality(Unreleased) >= 1
  <2>1. Cardinality(Unreleased) # 0
    BY CountedSets, FS_EmptySet
  <2> QED
    BY <2>1, CountedSets
<1> QED
  BY <1>2, <1>3, <1>4, CountedSets DEF Counted, Released

LEMMA CountedStep ==
  ASSUME Inv, Counted, [Next]_vars
  PROVE  Counted'
<1> USE DEF Inv, TypeOK, rows, gates, late, pool, stop
<1>k. ASSUME UNCHANGED <<queue, outstanding>>, stage' \in Counting => stage \in Counting,
             \A u \in Turns : u \in Unreleased' <=> u \in Unreleased
      PROVE  Counted'
  <2>1. AllQueued' = AllQueued /\ Unreleased' = Unreleased
    BY <1>k DEF AllQueued, QueuedTurns, Unreleased
  <2> QED
    BY <1>k, <2>1 DEF Counted
<1>w. ASSUME UNCHANGED <<queue, outstanding, stage>>, NEW u \in Turns,
             NEW to \in InWorker \union {"returned"},
             work' = [work EXCEPT ![u] = to], work[u] \in InWorker
      PROVE  Counted'
  BY <1>w, <1>k DEF Unreleased, Live
<1>q. ASSUME Forget PROVE Counted'
  <2>1. \A t \in Threads : queue'[t] = <<>>
    BY <1>q, Zenon DEF Forget
  <2>2. AllQueued' = {} /\ Unreleased' = {} /\ outstanding' = 0
    BY <1>q, <2>1 DEF Forget, AllQueued, QueuedTurns, Unreleased, Live, InWorker, Cancelling
  <2>3. Cardinality({}) = 0
    BY FS_EmptySet
  <2> QED
    BY <2>2, <2>3 DEF Counted
<1>1. ASSUME NEW c \in Callers, NEW t \in Threads, NEW m \in {"reject", "queue"},
             NEW k \in Keys \union {NoKey}, BeginStart(c, t, m, k)
      PROVE  Counted'
  BY <1>1, <1>k DEF BeginStart, Unreleased, Live
<1>2. ASSUME NEW c \in Callers, NEW u \in Turns, AcceptTurn(c, u)
      PROVE  Counted'
  BY <1>2, AcceptCounts
<1>3. ASSUME NEW c \in Callers, RefuseTurn(c)
      PROVE  Counted'
  BY <1>3, <1>k DEF RefuseTurn, Unreleased, Live
<1>4. ASSUME NEW t \in Threads, FindActive(t)
      PROVE  Counted'
  BY <1>4, <1>k DEF FindActive, Unreleased
<1>5. ASSUME NEW u \in Turns, (\E k \in Keys \union {NoKey} : Steer(u, k)) \/ InterruptTurn(u)
             \/ ReadRow(u) \/ WriteRow(u)
      PROVE  Counted'
  BY <1>5, <1>k DEF Steer, InterruptTurn, ReadRow, WriteRow, Unreleased
<1>6. CASE TakeWork
  <2>1. UNCHANGED <<queue, outstanding, stage>>
    BY <1>6 DEF TakeWork
  <2>2. \A u \in Turns : work'[u] = work[u] \/ (work[u] = "pending" /\ work'[u] = "enter")
    BY <1>6 DEF TakeWork
  <2> QED
    BY <2>1, <2>2, <1>k DEF Unreleased, Live, InWorker, Cancelling
<1>7. ASSUME NEW u \in Turns, Worker(u)
      PROVE  Counted'
  <2>1. CASE EnterInterrupted(u) \/ PreflightFails(u) \/ PrepareFails(u) \/ TurnEnds(u)
             \/ StartTurn(u) \/ Activate(u) \/ SendInput(u) \/ Cleanup(u)
    <3>1. UNCHANGED <<queue, outstanding, stage>> /\ work[u] \in InWorker
      BY <2>1 DEF EnterInterrupted, PreflightFails, PrepareFails, TurnEnds, StartTurn, Activate,
         SendInput, Cleanup, Stage, InContext, InWorker
    <3>2. \E to \in InWorker : work' = [work EXCEPT ![u] = to]
      BY <2>1 DEF EnterInterrupted, PreflightFails, PrepareFails, TurnEnds, StartTurn, Activate,
         SendInput, Cleanup, Stage, InWorker
    <3> QED
      BY <3>1, <3>2, <1>w
  <2>2. CASE ReleaseGate(u)
    BY <2>2, <1>w DEF ReleaseGate, Stage, InWorker
  <2>3. CASE StartNext(u)
    BY <2>3, StartNextCounts
  <2>4. CASE WorkDone(u)
    BY <2>4, ReleaseCounts DEF WorkDone, Stage, Unreleased
  <2> QED
    BY <1>7, <2>1, <2>2, <2>3, <2>4 DEF Worker
<1>8. ASSUME NEW m \in {"interrupt", "drain"}, RequestShutdown(m)
      PROVE  Counted'
  BY <1>8, <1>k DEF RequestShutdown, Counting, Unreleased, Live
<1>9. CASE Shutdown
  <2>1. ASSUME NEW u \in Turns, CancelFuture(u), work[u] = "pending"
        PROVE  Counted'
    BY <2>1, ReleaseCounts DEF CancelFuture, Unreleased, Cancelling
  <2>2. ASSUME NEW u \in Turns,
               (CancelFuture(u) /\ work[u] # "pending") \/ SettleCancelled(u) \/ OpenGate(u)
        PROVE  Counted'
    <3>1. UNCHANGED <<queue, outstanding, stage>>
      BY <2>2 DEF CancelFuture, SettleCancelled, OpenGate
    <3>2. \/ UNCHANGED work
          \/ /\ work[u] \in Cancelling
             /\ \E to \in {"settled", "over"} : work' = [work EXCEPT ![u] = to]
      BY <2>2 DEF CancelFuture, SettleCancelled, OpenGate, MayOpen, Stage, Cancelling
    <3> QED
      BY <3>1, <3>2, <1>k DEF Unreleased, InWorker, Cancelling
  <2>3. ASSUME NEW u \in Turns, SettleQueued(u) \/ InterruptActive(u)
        PROVE  Counted'
    BY <2>3, <1>k DEF SettleQueued, InterruptActive, Unreleased, Live
  <2>4. CASE DrainWaitEnds
    BY <2>4, <1>k DEF DrainWaitEnds, Counting, Unreleased, Live
  <2>5. CASE CancelQueues \/ ShutdownExecutor
    BY <2>5 DEF CancelQueues, ShutdownExecutor, Counted, Counting
  <2>6. CASE SnapshotActive \/ BeginFinalWait \/ FinalWaitEnds
    BY <2>6 DEF SnapshotActive, BeginFinalWait, FinalWaitEnds, Counted, Counting
  <2>7. CASE Exit
    BY <2>7, <1>q DEF Exit
  <2> QED
    BY <1>9, <2>1, <2>2, <2>3, <2>4, <2>5, <2>6, <2>7 DEF Shutdown
<1>10. CASE Crash
  BY <1>10, <1>q DEF Crash
<1>11. CASE Recover
  BY <1>11, <1>k DEF Recover, Unreleased, Live
<1>12. CASE UNCHANGED vars
  BY <1>12, <1>k DEF vars, Unreleased, Live
<1> QED
  BY <1>1, <1>2, <1>3, <1>4, <1>5, <1>6, <1>7, <1>8, <1>9, <1>10, <1>11, <1>12 DEF Next

(* No path by which a turn leaves the queue or the executor forgets to     *)
(* give its slot back or gives it back twice (_start_turn, _advance_queue, *)
(* _work_done, _cancel_pending_futures).                                   *)
THEOREM CounterExact == Spec => []OutstandingExact
<1>1. Init => Counted
  <2> SUFFICES ASSUME Init PROVE Counted
    OBVIOUS
  <2>1. \A t \in Threads : queue[t] = <<>>
    BY Zenon DEF Init
  <2>2. AllQueued = {} /\ Unreleased = {} /\ outstanding = 0
    BY <2>1 DEF Init, AllQueued, QueuedTurns, Unreleased, Live, InWorker, Cancelling
  <2>3. Cardinality({}) = 0
    BY FS_EmptySet
  <2> QED
    BY <2>2, <2>3 DEF Counted
<1>2. Counted => OutstandingExact
  BY DEF Counted, Counting, OutstandingExact
<1>3. Inv /\ Counted /\ [Next]_vars => Counted'
  BY CountedStep
<1> QED
  BY <1>1, <1>2, <1>3, Invariance, PTL DEF Spec

=============================================================================
