------------------------ MODULE TurnExecutionProofs ------------------------
(***************************************************************************)
(* Proofs about the end of turns, for any number of turns of a thread: the *)
(* worker, the reader, an interrupting caller and a dying child race to    *)
(* end a turn, and it gets one terminal event, with its terminal row.      *)
(*                                                                         *)
(* For the end of turns nothing is needed of Codex but that its messages   *)
(* name turns: those theorems hold in whatever order and how often it      *)
(* writes them. That it answers each request once is what the last part,   *)
(* about the replies on the pipe, rests on.                                *)
(***************************************************************************)
EXTENDS TurnExecution, TLAPS

RowStates == {"starting", "running"} \union Final
Writers == {"worker", "reader"}
CallerStages == {"idle", "found", "asked", "handled", "answered", "persist"}

Begun(u) == u \in Turns => worker[u] # "waiting"

(* The parts of the state that the closing of turns depends on.            *)
Shapes ==
  /\ row \in [Turns -> RowStates]
  /\ closings \in [Turns -> Nat]
  /\ status \in [Turns -> {"none"} \union Final]
  /\ worker \in [Turns -> Stages]
  /\ byThread \in Turns \union {NoTurn}
  /\ byTurn \in [Turns -> Turns \union {NoTurn}]
  /\ reader.ctx \in Turns \union {NoTurn}
  /\ caller.ctx \in Turns \union {NoTurn}
  /\ \/ caller \in [at : CallerStages, ctx : Turns \union {NoTurn}]
     \/ \E v : caller \in [at : CallerStages, ctx : Turns \union {NoTurn}, turn : {v}]
  /\ stdout \in Seq(Messages)

(* A context that somebody holds is that of a turn that has been attached. *)
HeldAreBegun ==
  /\ Begun(byThread) /\ \A v \in Turns : Begun(byTurn[v])
  /\ Begun(reader.ctx) /\ Begun(caller.ctx)

(* register_turn: one thread of control at a time is in it for a context,  *)
(* and a terminal status it has read is that of the row.                   *)
RegistersAgree ==
  /\ writing = [p \in Writers |-> writing[p]]
  /\ \A p \in Writers :
       /\ writing[p].ctx \in Turns \union {NoTurn}
       /\ Begun(writing[p].ctx)
       /\ writing[p].ctx \in Turns =>
            /\ writing[p].seen \in RowStates
            /\ writing[p].seen \in Final => row[writing[p].ctx] = writing[p].seen
  /\ writing["worker"].ctx = writing["reader"].ctx => writing["worker"].ctx = NoTurn

Closing ==
  /\ ClosedOnce
  /\ \A u \in Turns : worker[u] = "waiting" => row[u] = "starting"
  /\ \A u \in Turns \ lost : worker[u] \in {"detach", "over"} => row[u] \in Final

ClosingInv == Shapes /\ HeldAreBegun /\ RegistersAgree /\ Closing

LEMMA NoTurnIsNone == NoTurn \notin Turns
  BY DEF NoTurn, Turns

LEMMA ClosingInit == Init => ClosingInv
<1> SUFFICES ASSUME Init PROVE ClosingInv
  OBVIOUS
<1> USE NoTurnIsNone DEF Init
<1>1. Shapes
  BY DEF Shapes, RowStates, Stages, Idle, CallerStages
<1>2. HeldAreBegun
  BY DEF HeldAreBegun, Begun, Idle
<1>3. RegistersAgree
  BY DEF RegistersAgree, Writers, NotWriting, Begun
<1>4. Closing
  BY DEF Closing, ClosedOnce, Final
<1> QED
  BY <1>1, <1>2, <1>3, <1>4 DEF ClosingInv

LEMMA MessagesNameTurns ==
  /\ \A m \in Messages : m.type # "reply" => m.turn \in Turns
  /\ \A u \in Turns : Started(u) \in Messages
  /\ \A u \in Turns, ok \in BOOLEAN : Reply(u, ok) \in Messages
  /\ \A ok \in BOOLEAN : Reply(NoTurn, ok) \in Messages
  /\ \A u \in Turns : Completed(u, "interrupted") \in Messages
<1>1. \A m \in Messages : m.type # "reply" => m.turn \in Turns
  <2> SUFFICES ASSUME NEW m \in Messages, m.type # "reply" PROVE m.turn \in Turns
    OBVIOUS
  <2>1. CASE \E to \in Turns \union {NoTurn}, ok \in BOOLEAN : m = Reply(to, ok)
    BY <2>1 DEF Reply
  <2>2. CASE \E u \in Turns : m = Started(u)
    BY <2>2 DEF Started
  <2>3. CASE \E u \in Turns, s \in {"completed", "failed", "interrupted"} : m = Completed(u, s)
    BY <2>3 DEF Completed
  <2> QED
    BY <2>1, <2>2, <2>3 DEF Messages
<1> QED
  BY <1>1 DEF Messages

(* A step that leaves the rows alone, and takes no turn to its end.        *)
LEMMA RowsKept ==
  ASSUME ClosingInv, UNCHANGED <<rows, writing>>, Shapes', HeldAreBegun',
         \A u \in Turns : worker'[u] = "waiting" => worker[u] = "waiting",
         \A u \in Turns : worker'[u] \in {"detach", "over"} => worker[u] \in {"detach", "over"}
  PROVE  ClosingInv'
<1> USE DEF ClosingInv, rows
<1>1. RegistersAgree'
  BY DEF RegistersAgree, Begun
<1>2. Closing'
  BY DEF Closing, ClosedOnce
<1> QED
  BY <1>1, <1>2

LEMMA FinalizeCloses ==
  ASSUME ClosingInv, NEW u \in Turns, NEW s \in Final, Finalize(u, s)
  PROVE  /\ row' \in [Turns -> RowStates] /\ closings' \in [Turns -> Nat] /\ lost' = lost
         /\ \A v \in Turns : v # u \/ row[v] \in Final => row'[v] = row[v]
         /\ row'[u] \in Final
         /\ ClosedOnce'
<1> USE DEF ClosingInv, Shapes, RowStates
<1>1. CASE UNCHANGED rows /\ row[u] \in Final
  BY <1>1 DEF rows, Closing, ClosedOnce
<1>2. CASE /\ row[u] \notin Final
           /\ row' = [row EXCEPT ![u] = s] /\ closings' = [closings EXCEPT ![u] = @ + 1]
           /\ UNCHANGED lost
  <2>1. row' \in [Turns -> RowStates] /\ closings' \in [Turns -> Nat]
    BY <1>2
  <2>2. row'[u] = s /\ closings'[u] = closings[u] + 1
    BY <1>2
  <2>3. \A v \in Turns : v # u => row'[v] = row[v] /\ closings'[v] = closings[v]
    BY <1>2
  <2>4. \A v \in Turns \ lost : closings[v] = IF row[v] \in Final THEN 1 ELSE 0
    BY DEF Closing, ClosedOnce
  <2>5. u \notin lost => closings'[u] = 1
    BY <1>2, <2>2, <2>4
  <2>6. ClosedOnce'
    BY <1>2, <2>2, <2>3, <2>4, <2>5 DEF ClosedOnce
  <2> QED
    BY <1>2, <2>1, <2>2, <2>3, <2>6
<1> QED
  BY <1>1, <1>2 DEF Finalize

(* A turn is finalized by its worker or by a caller.                       *)
LEMMA FinalizeStep ==
  ASSUME ClosingInv, UNCHANGED writing, Shapes', HeldAreBegun',
         NEW u \in Turns, NEW s \in Final, Finalize(u, s), Begun(u),
         worker' \in {worker, [worker EXCEPT ![u] = "detach"]}
  PROVE  ClosingInv'
<1> USE FinalizeCloses DEF ClosingInv
<1>1. RegistersAgree'
  <2> SUFFICES ASSUME NEW p \in Writers
               PROVE  /\ Begun(writing[p].ctx)'
                      /\ writing[p].ctx \in Turns /\ writing[p].seen \in Final =>
                           row'[writing[p].ctx] = writing[p].seen
    BY DEF RegistersAgree
  <2>1. Begun(writing[p].ctx)'
    BY DEF RegistersAgree, Begun, Shapes
  <2>2. writing[p].ctx \in Turns /\ writing[p].seen \in Final => row'[writing[p].ctx] = writing[p].seen
    BY DEF RegistersAgree
  <2> QED
    BY <2>1, <2>2
<1>2. \A v \in Turns : worker'[v] = "waiting" => row'[v] = "starting"
  <2> SUFFICES ASSUME NEW v \in Turns, worker'[v] = "waiting" PROVE row'[v] = "starting"
    OBVIOUS
  <2>1. worker[v] = "waiting" /\ v # u
    BY DEF Begun, Shapes
  <2> QED
    BY <2>1 DEF Closing
<1>3. \A v \in Turns \ lost' : worker'[v] \in {"detach", "over"} => row'[v] \in Final
  BY DEF Closing, Shapes
<1> QED
  BY <1>1, <1>2, <1>3 DEF Closing

-----------------------------------------------------------------------------
(* register_turn, by the worker or by the reader.                          *)

LEMMA BeginRegisterStep ==
  ASSUME ClosingInv, UNCHANGED rows, Shapes', HeldAreBegun',
         NEW p \in Writers, NEW u \in Turns, NEW v, BeginRegister(p, u, v), Begun(u),
         worker' \in {worker, [worker EXCEPT ![u] = "recording"]}
  PROVE  ClosingInv'
<1> USE DEF ClosingInv, rows
<1>1. \A q \in Writers : writing[q].ctx # u
  BY DEF BeginRegister, Locked, Writers
<1>2. /\ writing'[p] = [ctx |-> u, turn |-> v, seen |-> row[u]]
      /\ \A q \in Writers : q # p => writing'[q] = writing[q]
      /\ writing' = [q \in Writers |-> writing'[q]]
  BY DEF BeginRegister, RegistersAgree
<1>3. \A w \in Turns : worker'[w] = "waiting" => worker[w] = "waiting"
  BY DEF Shapes
<1>4. RegistersAgree'
  <2>1. ASSUME NEW q \in Writers
        PROVE  /\ writing'[q].ctx \in Turns \union {NoTurn}
               /\ Begun(writing[q].ctx)'
               /\ writing'[q].ctx \in Turns =>
                    /\ writing'[q].seen \in RowStates
                    /\ writing'[q].seen \in Final => row'[writing'[q].ctx] = writing'[q].seen
    <3>1. CASE q = p
      BY <3>1, <1>2, <1>3 DEF Begun, Shapes
    <3>2. CASE q # p
      BY <3>2, <1>2, <1>3 DEF RegistersAgree, Begun
    <3> QED
      BY <3>1, <3>2
  <2>2. writing'["worker"].ctx # writing'["reader"].ctx
    BY <1>1, <1>2 DEF Writers
  <2> QED
    BY <1>2, <2>1, <2>2 DEF RegistersAgree
<1>5. Closing'
  BY <1>3 DEF Closing, ClosedOnce, Shapes
<1> QED
  BY <1>4, <1>5

LEMMA EndRegisterTypes ==
  ASSUME ClosingInv, NEW p \in Writers, EndRegister(p)
  PROVE  /\ writing[p].ctx \in Turns /\ writing[p].seen \in RowStates
         /\ row' \in [Turns -> RowStates]
         /\ status' \in [Turns -> {"none"} \union Final]
         /\ byTurn' \in [Turns -> Turns \union {NoTurn}]
         /\ \A v \in Turns : byTurn'[v] \in {byTurn[v], writing[p].ctx}
<1>1. writing[p].ctx \in Turns /\ writing[p].seen \in RowStates
  BY DEF ClosingInv, RegistersAgree, EndRegister
<1> QED
  BY <1>1 DEF EndRegister, UpdateTurn, Mapped, Handle, ClosingInv, Shapes, Final

(* What it writes back is the row, or an unfinished status, which loses a  *)
(* terminal one.                                                           *)
LEMMA EndRegisterStep ==
  ASSUME ClosingInv, Shapes', HeldAreBegun', NEW p \in Writers, EndRegister(p),
         \A w \in Turns : worker'[w] = worker[w] \/ (worker[w] # "waiting" /\ worker'[w] = "listening")
  PROVE  ClosingInv'
<1> USE DEF ClosingInv
<1> DEFINE c == writing[p].ctx
           seen == writing[p].seen
<1>1. /\ c \in Turns /\ seen \in RowStates /\ (seen \in Final => row[c] = seen)
      /\ worker[c] # "waiting"
  BY EndRegisterTypes DEF RegistersAgree, Begun
<1>2. /\ row'[c] = seen /\ closings' = closings
      /\ lost' = IF row[c] \in Final /\ seen \notin Final THEN lost \union {c} ELSE lost
  BY <1>1 DEF EndRegister, UpdateTurn, Shapes
<1>3. \A v \in Turns : v # c => row'[v] = row[v]
  BY <1>1 DEF EndRegister, UpdateTurn, Shapes
<1>4. /\ writing'[p] = NotWriting
      /\ \A q \in Writers : q # p => writing'[q] = writing[q] /\ writing[q].ctx # c
      /\ writing' = [q \in Writers |-> writing'[q]]
  <2>1. writing' = [writing EXCEPT ![p] = NotWriting]
    BY DEF EndRegister
  <2>2. \A q \in Writers : q # p => writing[q].ctx # c
    BY <1>1, NoTurnIsNone DEF RegistersAgree, Writers
  <2> QED
    BY <2>1, <2>2 DEF RegistersAgree
<1>5. RegistersAgree'
  <2>1. ASSUME NEW q \in Writers
        PROVE  /\ writing'[q].ctx \in Turns \union {NoTurn}
               /\ Begun(writing[q].ctx)'
               /\ writing'[q].ctx \in Turns =>
                    /\ writing'[q].seen \in RowStates
                    /\ writing'[q].seen \in Final => row'[writing'[q].ctx] = writing'[q].seen
    <3>1. CASE q = p
      BY <3>1, <1>4, NoTurnIsNone DEF Begun, NotWriting
    <3>2. CASE q # p
      BY <3>2, <1>3, <1>4 DEF RegistersAgree, Begun
    <3> QED
      BY <3>1, <3>2
  <2>2. writing'["worker"].ctx = writing'["reader"].ctx => writing'["worker"].ctx = NoTurn
    BY <1>4 DEF Writers, NotWriting
  <2> QED
    BY <1>4, <2>1, <2>2 DEF RegistersAgree
<1>6. Closing'
  <2>1. ClosedOnce'
    <3>1. \A v \in Turns \ lost : closings[v] = IF row[v] \in Final THEN 1 ELSE 0
      BY DEF Closing, ClosedOnce
    <3> QED
      BY <3>1, <1>1, <1>2, <1>3 DEF ClosedOnce
  <2>2. \A v \in Turns : worker'[v] = "waiting" => row'[v] = "starting"
    BY <1>1, <1>3 DEF Closing
  <2>3. \A v \in Turns \ lost' : worker'[v] \in {"detach", "over"} => row'[v] \in Final
    BY <1>1, <1>2, <1>3 DEF Closing
  <2> QED
    BY <2>1, <2>2, <2>3 DEF Closing
<1> QED
  BY <1>5, <1>6

-----------------------------------------------------------------------------
(* The worker.                                                             *)

LEMMA AttachKeeps ==
  ASSUME ClosingInv, NEW u \in Turns, Attach(u)
  PROVE  ClosingInv'
<1> USE DEF ClosingInv
<1>1. /\ worker[u] = "waiting" /\ worker' = [worker EXCEPT ![u] = "attached"]
      /\ row' = [row EXCEPT ![u] = "running"] /\ UNCHANGED <<closings, lost, writing>>
  BY DEF Attach, Moves
<1>2. row[u] \notin Final /\ "running" \notin Final
  BY <1>1 DEF Closing, Final
<1>3. Shapes'
  BY DEF Attach, Moves, Shapes, contexts, pipe, Stages, RowStates
<1>4. HeldAreBegun'
  BY DEF Attach, Moves, HeldAreBegun, Begun, Shapes
<1>5. \A p \in Writers : writing[p].ctx # u
  BY <1>1 DEF RegistersAgree, Begun
<1>6. RegistersAgree'
  BY <1>1, <1>5 DEF RegistersAgree, Begun, Shapes
<1>7. ClosedOnce'
  BY <1>1, <1>2 DEF Closing, ClosedOnce, Shapes
<1>8. \A v \in Turns : worker'[v] = "waiting" => row'[v] = "starting"
  BY <1>1 DEF Closing, Shapes
<1>9. \A v \in Turns \ lost' : worker'[v] \in {"detach", "over"} => row'[v] \in Final
  BY <1>1 DEF Closing, Shapes
<1> QED
  BY <1>3, <1>4, <1>6, <1>7, <1>8, <1>9 DEF Closing

(* Steps of the worker that neither write the row nor end the turn.        *)
WorkerGoesOn(u) ==
  EnsureThread(u) \/ RequestStart(u) \/ Wakes(u) \/ InterruptFails(u) \/ SettleTimeout(u) \/ TimesOut(u)

LEMMA GoingOnKeeps ==
  ASSUME ClosingInv, NEW u \in Turns, WorkerGoesOn(u)
  PROVE  ClosingInv'
<1> USE DEF ClosingInv
<1>1. /\ worker[u] \notin {"waiting", "detach", "over"}
      /\ \E to \in Stages \ {"waiting", "detach", "over"} : worker' = [worker EXCEPT ![u] = to]
      /\ UNCHANGED <<row, closings, lost, writing, reader, caller, byTurn, stdout>>
      /\ status' \in {status, [status EXCEPT ![u] = "timed_out"]}
      /\ byThread' \in {byThread, u}
  BY DEF WorkerGoesOn, EnsureThread, RequestStart, Wakes, InterruptFails, SettleTimeout, TimesOut,
         Moves, Stages, rows, contexts, routes, pipe
<1>2. Shapes'
  <2>1. status' \in [Turns -> {"none"} \union Final]
    BY <1>1 DEF Shapes, Final
  <2>2. worker' \in [Turns -> Stages] /\ byThread' \in Turns \union {NoTurn}
    BY <1>1 DEF Shapes
  <2> QED
    BY <1>1, <2>1, <2>2 DEF Shapes
<1>3. HeldAreBegun'
  BY <1>1 DEF HeldAreBegun, Begun, Shapes
<1>4. \A v \in Turns : /\ worker'[v] = "waiting" => worker[v] = "waiting"
                       /\ worker'[v] \in {"detach", "over"} => worker[v] \in {"detach", "over"}
  BY <1>1 DEF Shapes
<1> QED
  BY <1>1, <1>2, <1>3, <1>4, RowsKept DEF rows

LEMMA WorkerFinalizes ==
  ASSUME ClosingInv, NEW u \in Turns, RequestFails(u) \/ Persist(u)
  PROVE  ClosingInv'
<1> USE DEF ClosingInv
<1>1. PICK s \in Final : Finalize(u, s)
  BY DEF RequestFails, Persist, FinalStatus, Final, Shapes
<1>2. /\ worker[u] # "waiting" /\ worker' = [worker EXCEPT ![u] = "detach"]
      /\ UNCHANGED <<writing, reader, caller, status, byThread, byTurn, stdout>>
  BY DEF RequestFails, Persist, Moves, contexts, routes, pipe
<1>3. row' \in [Turns -> RowStates] /\ closings' \in [Turns -> Nat]
  BY <1>1, FinalizeCloses
<1>4. Shapes'
  BY <1>2, <1>3 DEF Shapes, Stages
<1>5. HeldAreBegun'
  BY <1>2 DEF HeldAreBegun, Begun, Shapes
<1> QED
  BY <1>1, <1>2, <1>4, <1>5, FinalizeStep DEF Begun

LEMMA WorkerRegisters ==
  ASSUME ClosingInv, NEW u \in Turns, RecordTurn(u) \/ TurnRecorded(u)
  PROVE  ClosingInv'
<1> USE DEF ClosingInv
<1>1. CASE RecordTurn(u)
  <2>1. Shapes'
    BY <1>1 DEF RecordTurn, Moves, Shapes, rows, routes, pipe, Stages
  <2>2. HeldAreBegun'
    BY <1>1 DEF RecordTurn, Moves, HeldAreBegun, Begun, Shapes, routes
  <2> QED
    BY <1>1, <2>1, <2>2, BeginRegisterStep DEF RecordTurn, Moves, Begun, Writers
<1>2. CASE TurnRecorded(u)
  <2>1. EndRegister("worker") /\ "worker" \in Writers
    BY <1>2 DEF TurnRecorded, Writers
  <2>2. Shapes'
    <3>1. worker' \in [Turns -> Stages] /\ UNCHANGED <<reader, caller, stdout>>
      BY <1>2 DEF TurnRecorded, Moves, Shapes, Stages, pipe
    <3>2. UNCHANGED <<closings, byThread>>
      BY <2>1 DEF EndRegister
    <3> QED
      BY <2>1, <3>1, <3>2, EndRegisterTypes DEF Shapes
  <2>3. \A w \in Turns : worker'[w] = worker[w] \/ (worker[w] # "waiting" /\ worker'[w] = "listening")
    BY <1>2 DEF TurnRecorded, Moves, Shapes
  <2>4. HeldAreBegun'
    <3>1. UNCHANGED <<reader, caller, byThread>> /\ Begun(writing["worker"].ctx)
      BY <1>2, <2>1 DEF TurnRecorded, EndRegister, RegistersAgree
    <3> QED
      BY <2>1, <2>3, <3>1, EndRegisterTypes DEF HeldAreBegun, Begun
  <2> QED
    BY <2>1, <2>2, <2>3, <2>4, EndRegisterStep
<1> QED
  BY <1>1, <1>2

LEMMA DetachKeeps ==
  ASSUME ClosingInv, NEW u \in Turns, Detach(u)
  PROVE  ClosingInv'
<1> USE DEF ClosingInv
<1>1. /\ worker[u] = "detach" /\ worker' = [worker EXCEPT ![u] = "over"]
      /\ UNCHANGED <<row, closings, lost, writing, reader, caller, status, stdout>>
      /\ byThread' \in {byThread, NoTurn}
      /\ byTurn' \in [Turns -> Turns \union {NoTurn}]
      /\ \A v \in Turns : byTurn'[v] \in {byTurn[v], NoTurn}
  BY DEF Detach, Moves, rows, contexts, pipe, Shapes
<1>2. Shapes'
  BY <1>1 DEF Shapes, Stages
<1>3. HeldAreBegun'
  BY <1>1, NoTurnIsNone DEF HeldAreBegun, Begun, Shapes
<1>4. \A v \in Turns : /\ worker'[v] = "waiting" => worker[v] = "waiting"
                       /\ worker'[v] \in {"detach", "over"} => worker[v] \in {"detach", "over"}
  BY <1>1 DEF Shapes
<1> QED
  BY <1>1, <1>2, <1>3, <1>4, RowsKept DEF rows

-----------------------------------------------------------------------------
(* The reader thread.                                                      *)

LEMMA ReadKeeps ==
  ASSUME ClosingInv, ReadReply \/ ReadNotification
  PROVE  ClosingInv'
<1> USE DEF ClosingInv
<1>1. stdout # <<>> /\ stdout \in Seq(Messages) /\ stdout' = Tail(stdout)
  BY DEF ReadReply, ReadNotification, Shapes
<1>2. Head(stdout) \in Messages /\ stdout' \in Seq(Messages)
  BY <1>1
<1>3. CASE ReadReply
  <2>1. /\ UNCHANGED <<row, closings, lost, status, byThread, byTurn, writing, reader>>
        /\ caller' \in {caller, [caller EXCEPT !.at = "answered"], Idle}
        /\ \/ UNCHANGED worker
           \/ \E v, to : /\ to \in {"answered", "timedOut"}
                         /\ worker' = [worker EXCEPT ![v] = to]
    BY <1>3 DEF ReadReply, rows, contexts, routes
  <2>2. worker' \in [Turns -> Stages]
        /\ \A u \in Turns : worker'[u] \in {worker[u], "answered", "timedOut"}
    BY <2>1 DEF Shapes, Stages
  <2>3. /\ caller'.ctx \in {caller.ctx, NoTurn}
        /\ \/ caller' \in [at : CallerStages, ctx : Turns \union {NoTurn}]
           \/ \E v : caller' \in [at : CallerStages, ctx : Turns \union {NoTurn}, turn : {v}]
    BY <2>1 DEF Shapes, Idle, CallerStages
  <2>4. Shapes'
    BY <1>2, <2>1, <2>2, <2>3 DEF Shapes
  <2>5. HeldAreBegun'
    BY <2>1, <2>2, <2>3, NoTurnIsNone DEF HeldAreBegun, Begun
  <2> QED
    BY <2>1, <2>2, <2>4, <2>5, RowsKept DEF rows
<1>4. CASE ReadNotification
  <2>1. /\ UNCHANGED <<row, closings, lost, status, worker, byThread, byTurn, writing, caller>>
        /\ reader'.ctx \in Routes(Head(stdout).turn) /\ Head(stdout).turn \in Turns
    BY <1>2, <1>4, MessagesNameTurns DEF ReadNotification, rows, contexts, routes
  <2>2. reader'.ctx \in Turns \union {NoTurn} /\ Begun(reader'.ctx)
    BY <2>1, NoTurnIsNone DEF Routes, Shapes, HeldAreBegun, Begun
  <2>3. Shapes'
    BY <1>2, <2>1, <2>2 DEF Shapes
  <2>4. HeldAreBegun'
    BY <2>1, <2>2 DEF HeldAreBegun, Begun
  <2> QED
    BY <2>1, <2>3, <2>4, RowsKept DEF rows
<1> QED
  BY <1>3, <1>4

LEMMA HandlingKeeps ==
  ASSUME ClosingInv, DeliverCompleted \/ Postpone
  PROVE  ClosingInv'
<1> USE DEF ClosingInv
<1>1. /\ UNCHANGED <<row, closings, lost, worker, byThread, byTurn, writing, caller, stdout>>
      /\ reader' = Idle
      /\ status' \in [Turns -> {"none"} \union Final]
  BY DEF DeliverCompleted, Postpone, Handle, Final, Shapes, rows, routes, contexts, pipe
<1>2. Shapes'
  BY <1>1 DEF Shapes, Idle
<1>3. HeldAreBegun'
  BY <1>1, NoTurnIsNone DEF HeldAreBegun, Begun, Idle
<1> QED
  BY <1>1, <1>2, <1>3, RowsKept DEF rows

LEMMA ReaderRegisters ==
  ASSUME ClosingInv, DeliverStarted \/ StartedRecorded
  PROVE  ClosingInv'
<1> USE DEF ClosingInv
<1>0. "reader" \in Writers
  BY DEF Writers
<1>1. CASE DeliverStarted
  <2>1. /\ reader.ctx \in Turns /\ Begun(reader.ctx) /\ reader'.ctx = reader.ctx
        /\ BeginRegister("reader", reader.ctx, reader.msg.turn)
        /\ UNCHANGED <<rows, worker, status, byThread, byTurn, caller, stdout>>
    BY <1>1 DEF DeliverStarted, Shapes, HeldAreBegun, routes, pipe
  <2>2. Shapes'
    BY <2>1 DEF Shapes, rows
  <2>3. HeldAreBegun'
    BY <2>1 DEF HeldAreBegun, Begun
  <2> QED
    BY <1>0, <2>1, <2>2, <2>3, BeginRegisterStep
<1>2. CASE StartedRecorded
  <2>1. /\ EndRegister("reader") /\ reader' = Idle
        /\ UNCHANGED <<worker, caller, stdout, closings, byThread>>
    BY <1>2 DEF StartedRecorded, EndRegister, pipe
  <2>2. Shapes'
    BY <1>0, <2>1, EndRegisterTypes DEF Shapes, Idle
  <2>3. HeldAreBegun'
    BY <1>0, <2>1, EndRegisterTypes, NoTurnIsNone DEF HeldAreBegun, Begun, Idle, RegistersAgree
  <2> QED
    BY <1>0, <2>1, <2>2, <2>3, EndRegisterStep
<1> QED
  BY <1>1, <1>2

-----------------------------------------------------------------------------
(* The caller of interrupt_turn, Codex, and the end of a child.            *)

LEMMA CallerKeeps ==
  ASSUME ClosingInv, AskInterrupt \/ FinishInterrupted \/ \E u \in Turns : FindActive(u)
  PROVE  ClosingInv'
<1> USE DEF ClosingInv
<1>1. /\ UNCHANGED <<row, closings, lost, worker, byThread, byTurn, writing, reader, stdout>>
      /\ status' \in [Turns -> {"none"} \union Final]
  BY DEF AskInterrupt, FinishInterrupted, FindActive, Finish, Final, Shapes, rows, routes, contexts, pipe
<1>2. /\ caller'.ctx \in Turns \union {NoTurn} /\ Begun(caller'.ctx)
      /\ \/ caller' \in [at : CallerStages, ctx : Turns \union {NoTurn}]
         \/ \E v : caller' \in [at : CallerStages, ctx : Turns \union {NoTurn}, turn : {v}]
  <2>1. CASE AskInterrupt
    BY <2>1, NoTurnIsNone DEF AskInterrupt, Shapes, HeldAreBegun, Begun, Idle, CallerStages
  <2>2. CASE FinishInterrupted
    BY <2>2 DEF FinishInterrupted, Shapes, HeldAreBegun, Begun, CallerStages
  <2>3. CASE \E u \in Turns : FindActive(u)
    BY <2>3 DEF FindActive, Registered, Begun, CallerStages
  <2> QED
    BY <2>1, <2>2, <2>3
<1>3. Shapes'
  BY <1>1, <1>2 DEF Shapes
<1>4. HeldAreBegun'
  BY <1>1, <1>2 DEF HeldAreBegun, Begun
<1> QED
  BY <1>1, <1>3, <1>4, RowsKept DEF rows

LEMMA CallerFinalizes ==
  ASSUME ClosingInv, PersistInterrupted
  PROVE  ClosingInv'
<1> USE DEF ClosingInv
<1>1. /\ Finalize(caller.ctx, FinalStatus(caller.ctx)) /\ caller' = Idle
      /\ UNCHANGED <<worker, writing, reader, status, byThread, byTurn, stdout>>
  BY DEF PersistInterrupted, contexts, routes, pipe
<1>2. HeldAreBegun'
  BY <1>1, NoTurnIsNone DEF HeldAreBegun, Begun, Idle
<1>3. CASE caller.ctx \in Turns
  <2>1. PICK s \in Final : Finalize(caller.ctx, s)
    BY <1>1, <1>3 DEF FinalStatus, Final, Shapes
  <2>2. row' \in [Turns -> RowStates] /\ closings' \in [Turns -> Nat]
    BY <1>3, <2>1, FinalizeCloses
  <2>3. Shapes'
    BY <1>1, <2>2 DEF Shapes, Idle, CallerStages
  <2> QED
    BY <1>1, <1>2, <1>3, <2>1, <2>3, FinalizeStep DEF HeldAreBegun
<1>4. CASE caller.ctx \notin Turns
  <2>1. UNCHANGED rows
    BY <1>1, <1>4 DEF Finalize, rows, Shapes
  <2>2. Shapes'
    BY <1>1, <2>1 DEF Shapes, Idle, CallerStages, rows
  <2> QED
    BY <1>1, <1>2, <2>1, <2>2, RowsKept
<1> QED
  BY <1>3, <1>4

LEMMA TwoMore ==
  ASSUME NEW s \in Seq(Messages), NEW m \in Messages, NEW n \in Messages
  PROVE  s \o <<m, n>> \in Seq(Messages)
<1>1. <<m, n>> \in Seq(Messages)
  OBVIOUS
<1> QED
  BY <1>1

LEMMA CodexKeeps ==
  ASSUME ClosingInv, NEW u \in Turns,
         CodexStarts(u) \/ CodexCompletes(u) \/ CodexInterruptsExpired(u) \/ CodexInterruptsCaller
  PROVE  ClosingInv'
<1> USE DEF ClosingInv
<1>1. /\ UNCHANGED <<row, closings, lost, status, byThread, byTurn, writing, reader>>
      /\ worker' \in {worker, [worker EXCEPT ![u] = "expiring"]}
      /\ worker[u] = "waiting" => UNCHANGED worker
      /\ caller' \in {caller, [at |-> "handled", ctx |-> caller.ctx]}
  BY DEF CodexStarts, CodexCompletes, CodexInterruptsExpired, CodexInterruptsCaller, Moves,
         rows, contexts, routes
<1>2. stdout \in Seq(Messages)
  BY DEF Shapes
<1>3. stdout' \in Seq(Messages)
  <2>1. ASSUME NEW to \in Turns \union {NoTurn}, NEW named, Interrupts(to, named)
        PROVE  stdout' \in Seq(Messages)
    <3>1. CASE \E v \in Turns : \E out \in {<<Reply(to, TRUE), Completed(v, "interrupted")>>,
                                            <<Completed(v, "interrupted"), Reply(to, TRUE)>>} :
                  stdout' = stdout \o out
      <4>1. PICK v \in Turns : stdout' \in {stdout \o <<Reply(to, TRUE), Completed(v, "interrupted")>>,
                                            stdout \o <<Completed(v, "interrupted"), Reply(to, TRUE)>>}
        BY <3>1
      <4>2. Reply(to, TRUE) \in Messages /\ Completed(v, "interrupted") \in Messages
        BY MessagesNameTurns
      <4> QED
        BY <1>2, <4>1, <4>2, TwoMore, Zenon
    <3>2. CASE \E ok \in BOOLEAN : stdout' = Append(stdout, Reply(to, ok))
      BY <3>2, MessagesNameTurns DEF Shapes
    <3> QED
      BY <2>1, <3>1, <3>2 DEF Interrupts
  <2>2. CASE CodexStarts(u)
    <3>1. stdout' \in {stdout \o <<Reply(u, TRUE), Started(u)>>, stdout \o <<Started(u), Reply(u, TRUE)>>}
      BY <2>2 DEF CodexStarts
    <3>2. Reply(u, TRUE) \in Messages /\ Started(u) \in Messages
      BY MessagesNameTurns
    <3> QED
      BY <1>2, <3>1, <3>2, TwoMore, Zenon
  <2>3. CASE CodexCompletes(u)
    <3>1. PICK s \in Outcomes : stdout' = Append(stdout, Completed(u, s))
      BY <2>3 DEF CodexCompletes
    <3>2. Completed(u, s) \in Messages
      BY ExecutionAssumption DEF Messages
    <3> QED
      BY <3>1, <3>2 DEF Shapes
  <2> QED
    BY <2>1, <2>2, <2>3 DEF CodexInterruptsExpired, CodexInterruptsCaller
<1>4. \A v \in Turns : worker'[v] \in {worker[v], "expiring"}
                       /\ (worker'[v] = "waiting" <=> worker[v] = "waiting")
  BY <1>1 DEF Shapes
<1>5. Shapes'
  <2>1. worker' \in [Turns -> Stages]
    BY <1>1 DEF Shapes, Stages
  <2>2. /\ caller'.ctx \in Turns \union {NoTurn}
        /\ \/ caller' \in [at : CallerStages, ctx : Turns \union {NoTurn}]
           \/ \E v : caller' \in [at : CallerStages, ctx : Turns \union {NoTurn}, turn : {v}]
    BY <1>1 DEF Shapes, CallerStages
  <2> QED
    BY <1>1, <1>3, <2>1, <2>2 DEF Shapes
<1>6. HeldAreBegun'
  BY <1>1, <1>4 DEF HeldAreBegun, Begun
<1> QED
  BY <1>1, <1>4, <1>5, <1>6, RowsKept DEF rows

LEMMA DeathKeeps ==
  ASSUME ClosingInv, ChildDies
  PROVE  ClosingInv'
<1> USE DEF ClosingInv
<1>1. /\ UNCHANGED <<row, closings, lost, worker, writing, reader>>
      /\ byThread' = NoTurn /\ byTurn' = [v \in Turns |-> NoTurn] /\ stdout' = <<>>
      /\ caller' \in {caller, Idle}
      /\ status' \in [Turns -> {"none"} \union Final]
  BY DEF ChildDies, Finish, Final, Shapes, rows
<1>2. Shapes'
  BY <1>1 DEF Shapes, Idle, CallerStages
<1>3. HeldAreBegun'
  BY <1>1, NoTurnIsNone DEF HeldAreBegun, Begun, Idle
<1> QED
  BY <1>1, <1>2, <1>3, RowsKept DEF rows

-----------------------------------------------------------------------------
LEMMA ClosingStep == ClosingInv /\ [Next]_vars => ClosingInv'
<1> SUFFICES ASSUME ClosingInv, [Next]_vars PROVE ClosingInv'
  OBVIOUS
<1>1. ASSUME NEW u \in Turns, Worker(u) PROVE ClosingInv'
  BY <1>1, AttachKeeps, GoingOnKeeps, WorkerFinalizes, WorkerRegisters, DetachKeeps
     DEF Worker, WorkerGoesOn
<1>2. ASSUME NEW u \in Turns, TimesOut(u) PROVE ClosingInv'
  BY <1>2, GoingOnKeeps DEF WorkerGoesOn
<1>3. ASSUME NEW u \in Turns, FindActive(u) PROVE ClosingInv'
  BY <1>3, CallerKeeps
<1>4. CASE Reader
  BY <1>4, ReadKeeps, HandlingKeeps, ReaderRegisters DEF Reader
<1>5. CASE Caller
  BY <1>5, CallerKeeps, CallerFinalizes DEF Caller
<1>6. CASE Codex
  <2>1. 1 \in Turns
    BY ExecutionAssumption DEF Turns
  <2> QED
    BY <1>6, <2>1, CodexKeeps DEF Codex
<1>7. ASSUME NEW u \in Turns, CodexCompletes(u) PROVE ClosingInv'
  BY <1>7, CodexKeeps
<1>8. CASE ChildDies
  BY <1>8, DeathKeeps
<1>9. CASE UNCHANGED vars
  <2>1. UNCHANGED <<row, closings, lost, worker, status, byThread, byTurn, writing, reader, caller, stdout>>
    BY <1>9 DEF vars, rows, contexts, routes, pipe
  <2> QED
    BY <2>1, RowsKept DEF rows, ClosingInv, Shapes, HeldAreBegun, Begun
<1> QED
  BY <1>1, <1>2, <1>3, <1>4, <1>5, <1>6, <1>7, <1>8, <1>9 DEF Next

THEOREM ClosingInvariant == Spec => []ClosingInv
  BY ClosingInit, ClosingStep, PTL DEF Spec

(* A turn gets one terminal event, with its terminal row, however worker,  *)
(* reader, caller and a dying child race to end it (finalize_turn); only a *)
(* row that register_turn writes back after it became final is lost.       *)
THEOREM OneClosing == Spec => []ClosedOnce
<1>1. ClosingInv => ClosedOnce
  BY DEF ClosingInv, Closing
<1> QED
  BY <1>1, ClosingInvariant, PTL

(* The worker of _run_turn leaves no unfinished row behind, with the same  *)
(* exception.                                                              *)
THEOREM WorkersLeaveClosed == Spec => []LeftClosed
<1>1. ClosingInv => LeftClosed
  BY DEF ClosingInv, Closing, LeftClosed
<1> QED
  BY <1>1, ClosingInvariant, PTL

-----------------------------------------------------------------------------
(* AppServerClient.request: a reply on the pipe is one that somebody waits *)
(* for, and the only one to that request. (Replies to requests that have   *)
(* been given up go with the child, which a timeout closes.)               *)
IsReply(m, p) == m.type = "reply" /\ m.to = p

Waits(p) ==
  IF p = NoTurn THEN caller.at = "handled"
  ELSE /\ p \notin broken
       /\ worker[p] = "expiring" \/ (worker[p] = "starting" /\ codex[p] # "idle")

Replies(s, p) == {i \in DOMAIN s : IsReply(s[i], p)}

RepliesAwaited ==
  \A p \in Turns \union {NoTurn} :
    \A i \in Replies(stdout, p) : Waits(p) /\ \A j \in Replies(stdout, p) : i = j

(* What a thread of control works on is a turn, and what it has read a     *)
(* message of Codex.                                                       *)
WritingNamed ==
  \A p \in Writers :
    writing[p] # NotWriting => writing[p].ctx \in Turns /\ writing[p].turn \in Turns
ReaderNamed ==
  /\ reader.at \in {"idle", "routed", "registering"}
  /\ reader.at = "routed" => reader.msg \in Messages /\ reader.msg.type # "reply"
CallerNamed == caller.at \in CallerStages /\ (caller.at # "idle" => caller.ctx \in Turns)

(* The types that the closing of turns does not depend on.                 *)
OtherTypes ==
  /\ lost \subseteq Turns /\ done \subseteq Turns /\ broken \subseteq Turns
  /\ codexTurn \in [Turns -> Turns \union {NoTurn}]
  /\ threadKnown \in BOOLEAN
  /\ buffer \in [Turns -> SUBSET {"completed", "failed", "interrupted"}]
  /\ codex \in [Turns -> {"idle", "running", "over"}]

TypeInv == OtherTypes /\ WritingNamed /\ ReaderNamed /\ CallerNamed /\ RepliesAwaited

LEMMA TypeInit == Init => TypeInv
<1> SUFFICES ASSUME Init PROVE TypeInv
  OBVIOUS
<1>1. OtherTypes /\ WritingNamed
  BY DEF Init, OtherTypes, WritingNamed, Writers
<1>2. ReaderNamed /\ CallerNamed
  BY DEF Init, ReaderNamed, CallerNamed, CallerStages, Idle
<1>3. RepliesAwaited
  BY DEF Init, RepliesAwaited, Replies
<1> QED
  BY <1>1, <1>2, <1>3 DEF TypeInv

LEMMA InvIsTyped == ClosingInv /\ TypeInv => TypeOK
<1> SUFFICES ASSUME ClosingInv, TypeInv PROVE TypeOK
  OBVIOUS
<1> USE DEF ClosingInv, TypeInv
<1>1. /\ row \in [Turns -> {"starting", "running"} \union Final]
      /\ closings \in [Turns -> Nat]
      /\ worker \in [Turns -> Stages]
      /\ status \in [Turns -> {"none"} \union Final]
      /\ byThread \in Turns \union {NoTurn}
      /\ byTurn \in [Turns -> Turns \union {NoTurn}]
      /\ stdout \in Seq(Messages)
  BY DEF Shapes, RowStates
<1>2. /\ \A p \in {"worker", "reader"} :
           writing[p] # NotWriting => writing[p].ctx \in Turns /\ writing[p].turn \in Turns
      /\ reader.at \in {"idle", "routed", "registering"}
      /\ caller.at \in {"idle", "found", "asked", "handled", "answered", "persist"}
  BY DEF WritingNamed, Writers, ReaderNamed, CallerNamed, CallerStages
<1> QED
  BY <1>1, <1>2 DEF TypeOK, OtherTypes

LEMMA MessageKinds ==
  /\ \A m \in Messages : m.type = "completed" => m.status \in {"completed", "failed", "interrupted"}
  /\ \A m \in Messages : m.type = "reply" => m.to \in Turns \union {NoTurn}
  /\ \A u, s : ~\E p : IsReply(Started(u), p) \/ IsReply(Completed(u, s), p)
  /\ \A to, ok, p : IsReply(Reply(to, ok), p) <=> p = to
<1>1. ASSUME NEW m \in Messages
      PROVE  /\ m.type = "completed" => m.status \in {"completed", "failed", "interrupted"}
             /\ m.type = "reply" => m.to \in Turns \union {NoTurn}
  <2>1. CASE \E to \in Turns \union {NoTurn}, ok \in BOOLEAN : m = Reply(to, ok)
    BY <2>1 DEF Reply
  <2>2. CASE \E u \in Turns : m = Started(u)
    BY <2>2 DEF Started
  <2>3. CASE \E u \in Turns, s \in {"completed", "failed", "interrupted"} : m = Completed(u, s)
    BY <2>3 DEF Completed
  <2> QED
    BY <2>1, <2>2, <2>3 DEF Messages
<1>2. \A u, s : ~\E p : IsReply(Started(u), p) \/ IsReply(Completed(u, s), p)
  BY DEF IsReply, Started, Completed
<1>3. \A to, ok, p : IsReply(Reply(to, ok), p) <=> p = to
  BY DEF IsReply, Reply
<1> QED
  BY <1>1, <1>2, <1>3

-----------------------------------------------------------------------------
(* What Codex writes and the reader reads, as far as replies go.           *)
LEMMA ReplyRead ==
  ASSUME NEW s \in Seq(Messages), s # <<>>, NEW p,
         \A i, j \in Replies(s, p) : i = j
  PROVE  /\ Replies(Tail(s), p) # {} => Replies(s, p) # {}
         /\ IsReply(Head(s), p) => Replies(s, p) # {} /\ Replies(Tail(s), p) = {}
         /\ \A i, j \in Replies(Tail(s), p) : i = j
<1>1. /\ Len(s) \in Nat /\ Len(s) >= 1 /\ DOMAIN s = 1 .. Len(s)
      /\ DOMAIN Tail(s) = 1 .. Len(s) - 1
      /\ \A i \in DOMAIN Tail(s) : Tail(s)[i] = s[i + 1]
      /\ Head(s) = s[1]
  OBVIOUS
<1>2. \A i \in Replies(Tail(s), p) : i \in Nat /\ i >= 1 /\ i + 1 \in Replies(s, p)
  BY <1>1 DEF Replies
<1>3. IsReply(Head(s), p) => 1 \in Replies(s, p)
  BY <1>1 DEF Replies
<1>4. \A i, j \in Replies(Tail(s), p) : i = j
  <2> SUFFICES ASSUME NEW i \in Replies(Tail(s), p), NEW j \in Replies(Tail(s), p) PROVE i = j
    OBVIOUS
  <2>1. i + 1 = j + 1
    BY <1>2
  <2> QED
    BY <1>2, <2>1
<1>5. IsReply(Head(s), p) => Replies(Tail(s), p) = {}
  <2> SUFFICES ASSUME IsReply(Head(s), p), NEW i \in Replies(Tail(s), p) PROVE FALSE
    OBVIOUS
  <2>1. i + 1 = 1
    BY <1>2, <1>3
  <2> QED
    BY <1>2, <2>1
<1> QED
  BY <1>2, <1>3, <1>4, <1>5

LEMMA ReplyWritten ==
  ASSUME NEW s \in Seq(Messages), NEW m \in Messages, NEW p
  PROVE  Replies(Append(s, m), p) = Replies(s, p) \union (IF IsReply(m, p) THEN {Len(s) + 1} ELSE {})
<1>1. /\ Len(s) \in Nat /\ DOMAIN s = 1 .. Len(s)
      /\ DOMAIN Append(s, m) = 1 .. Len(s) + 1
      /\ \A i \in 1 .. Len(s) : Append(s, m)[i] = s[i]
      /\ Append(s, m)[Len(s) + 1] = m
  OBVIOUS
<1> QED
  BY <1>1 DEF Replies

LEMMA TwoWritten ==
  ASSUME NEW s \in Seq(Messages), NEW m \in Messages, NEW n \in Messages
  PROVE  s \o <<m, n>> = Append(Append(s, m), n)
<1> DEFINE a == Append(s, m)
<1>1. /\ Len(s) \in Nat /\ a \in Seq(Messages) /\ Len(a) = Len(s) + 1
      /\ \A i \in 1 .. Len(s) : a[i] = s[i]
      /\ a[Len(s) + 1] = m
  OBVIOUS
<1>2. <<m, n>> \in Seq(Messages) /\ Len(<<m, n>>) = 2 /\ <<m, n>>[1] = m /\ <<m, n>>[2] = n
  OBVIOUS
<1> HIDE DEF a
<1>3. /\ Append(a, n) \in Seq(Messages) /\ Len(Append(a, n)) = Len(s) + 2
      /\ \A i \in 1 .. Len(s) + 1 : Append(a, n)[i] = a[i]
      /\ Append(a, n)[Len(s) + 2] = n
  BY <1>1
<1>4. /\ s \o <<m, n>> \in Seq(Messages) /\ Len(s \o <<m, n>>) = Len(s) + 2
      /\ \A i \in 1 .. Len(s) : (s \o <<m, n>>)[i] = s[i]
      /\ (s \o <<m, n>>)[Len(s) + 1] = m /\ (s \o <<m, n>>)[Len(s) + 2] = n
  BY <1>1, <1>2
<1>5. \A i \in 1 .. Len(s) + 2 : (s \o <<m, n>>)[i] = Append(a, n)[i]
  <2> SUFFICES ASSUME NEW i \in 1 .. Len(s) + 2 PROVE (s \o <<m, n>>)[i] = Append(a, n)[i]
    OBVIOUS
  <2>1. i \in 1 .. Len(s) \/ i = Len(s) + 1 \/ i = Len(s) + 2
    BY <1>1
  <2> QED
    BY <1>1, <1>3, <1>4, <2>1
<1> QED
  BY <1>1, <1>3, <1>4, <1>5 DEF a

LEMMA RepliesKept ==
  ASSUME TypeInv, stdout' = stdout, \A p \in Turns \union {NoTurn} : Waits(p) => Waits(p)'
  PROVE  RepliesAwaited'
<1>1. \A p : Replies(stdout, p)' = Replies(stdout, p)
  BY DEF Replies, IsReply
<1> QED
  BY <1>1 DEF TypeInv, RepliesAwaited

(* A step of a worker that neither asks nor registers.                     *)
LEMMA WorkerOnly ==
  ASSUME TypeInv, UNCHANGED <<lost, codexTurn, buffer, broken, writing, reader, caller, pipe>>,
         done' \subseteq Turns, threadKnown' \in BOOLEAN,
         \A p \in Turns : Waits(p) => Waits(p)'
  PROVE  TypeInv'
<1>1. OtherTypes'
  BY DEF TypeInv, OtherTypes, pipe
<1>2. WritingNamed' /\ ReaderNamed' /\ CallerNamed'
  BY DEF TypeInv, WritingNamed, ReaderNamed, CallerNamed
<1>3. \A p \in Turns \union {NoTurn} : Waits(p) => Waits(p)'
  BY NoTurnIsNone DEF Waits
<1>4. RepliesAwaited'
  BY <1>3, RepliesKept DEF pipe
<1> QED
  BY <1>1, <1>2, <1>4 DEF TypeInv

LEMMA WorkerKeepsTypes ==
  ASSUME ClosingInv, TypeInv, NEW u \in Turns,
         \/ Attach(u) \/ EnsureThread(u) \/ RequestStart(u) \/ RequestFails(u) \/ Wakes(u)
         \/ InterruptFails(u) \/ SettleTimeout(u) \/ Persist(u) \/ Detach(u) \/ TimesOut(u)
  PROVE  TypeInv'
<1> USE NoTurnIsNone DEF routes, pipe, contexts, rows, Moves, Finalize
<1>1. worker \in [Turns -> Stages] /\ done \subseteq Turns /\ threadKnown \in BOOLEAN
  BY DEF ClosingInv, Shapes, TypeInv, OtherTypes
<1>2. UNCHANGED <<lost, codexTurn, buffer, broken, writing, reader, caller, pipe>>
  BY DEF Attach, EnsureThread, RequestStart, RequestFails, Wakes, InterruptFails, SettleTimeout,
         Persist, Detach, TimesOut
<1>3. done' \subseteq Turns /\ threadKnown' \in BOOLEAN
  BY <1>1 DEF Attach, EnsureThread, RequestStart, RequestFails, Wakes, InterruptFails,
              SettleTimeout, Persist, Detach, TimesOut
<1>4. /\ \A p \in Turns \ {u} : worker'[p] = worker[p]
      /\ worker[u] \in {"starting", "expiring"} => u \in broken
  BY <1>1 DEF Attach, EnsureThread, RequestStart, RequestFails, Wakes, InterruptFails,
              SettleTimeout, Persist, Detach, TimesOut
<1>5. \A p \in Turns : Waits(p) => Waits(p)'
  BY <1>2, <1>4 DEF Waits
<1> QED
  BY <1>2, <1>3, <1>5, WorkerOnly

(* register_turn, by the worker and by the reader.                         *)
LEMMA BeginTypes ==
  ASSUME ClosingInv, TypeInv, NEW p \in Writers, NEW u \in Turns, NEW v \in Turns,
         BeginRegister(p, u, v), UNCHANGED <<rows, done, status, routes, pipe>>
  PROVE  OtherTypes' /\ WritingNamed'
<1>1. OtherTypes'
  BY DEF TypeInv, OtherTypes, BeginRegister, rows, routes, pipe
<1>2. WritingNamed'
  <2>1. writing' = [writing EXCEPT ![p] = [ctx |-> u, turn |-> v, seen |-> row[u]]]
    BY DEF BeginRegister
  <2> QED
    BY <2>1 DEF ClosingInv, RegistersAgree, TypeInv, WritingNamed
<1> QED
  BY <1>1, <1>2

LEMMA EndTypes ==
  ASSUME ClosingInv, TypeInv, NEW p \in Writers, EndRegister(p), UNCHANGED pipe
  PROVE  OtherTypes' /\ WritingNamed'
<1>1. writing[p] # NotWriting
  BY DEF EndRegister, NotWriting
<1>2. writing[p].ctx \in Turns /\ writing[p].turn \in Turns
  BY <1>1 DEF TypeInv, WritingNamed
<1>3. lost' \subseteq Turns /\ done' \subseteq Turns
  BY <1>2 DEF EndRegister, UpdateTurn, Handle, TypeInv, OtherTypes
<1>4. OtherTypes'
  BY <1>3 DEF EndRegister, TypeInv, OtherTypes, pipe
<1>5. WritingNamed'
  <2>1. writing' = [writing EXCEPT ![p] = NotWriting]
    BY DEF EndRegister
  <2> QED
    BY <2>1 DEF ClosingInv, RegistersAgree, TypeInv, WritingNamed
<1> QED
  BY <1>4, <1>5

LEMMA WorkerRegistersTyped ==
  ASSUME ClosingInv, TypeInv, NEW u \in Turns, RecordTurn(u) \/ TurnRecorded(u)
  PROVE  TypeInv'
<1>1. OtherTypes' /\ WritingNamed'
  <2>1. CASE RecordTurn(u)
    BY <2>1, BeginTypes DEF RecordTurn, Writers
  <2>2. CASE TurnRecorded(u)
    BY <2>2, EndTypes DEF TurnRecorded, Writers
  <2> QED
    BY <2>1, <2>2
<1>2. UNCHANGED <<broken, reader, caller, pipe>>
  BY DEF RecordTurn, TurnRecorded, EndRegister, routes
<1>3. ReaderNamed' /\ CallerNamed'
  BY <1>2 DEF TypeInv, ReaderNamed, CallerNamed
<1>4. /\ worker[u] \notin {"starting", "expiring"}
      /\ \A p \in Turns \ {u} : worker'[p] = worker[p]
  BY DEF RecordTurn, TurnRecorded, Moves, ClosingInv, Shapes
<1>5. \A p \in Turns \union {NoTurn} : Waits(p) => Waits(p)'
  BY <1>2, <1>4 DEF Waits, pipe
<1>6. RepliesAwaited'
  BY <1>2, <1>5, RepliesKept DEF pipe
<1> QED
  BY <1>1, <1>3, <1>6 DEF TypeInv

(* The reply that is read is the one awaited: the worker has sent its      *)
(* request, or the caller its own.                                         *)
LEMMA HeadIsAMessage ==
  ASSUME ClosingInv, stdout # <<>>
  PROVE  Head(stdout) \in Messages /\ stdout \in Seq(Messages)
<1>1. stdout \in Seq(Messages)
  BY DEF ClosingInv, Shapes
<1> QED
  BY <1>1

LEMMA AwaitedAfterReading ==
  ASSUME ClosingInv, TypeInv, stdout # <<>>, stdout' = Tail(stdout),
         \A p \in Turns \union {NoTurn} :
           Waits(p) /\ ~IsReply(Head(stdout), p) => Waits(p)'
  PROVE  RepliesAwaited'
<1> SUFFICES ASSUME NEW p \in Turns \union {NoTurn}, NEW i \in Replies(stdout', p)
             PROVE  Waits(p)' /\ \A j \in Replies(stdout', p) : i = j
  BY DEF RepliesAwaited, Replies, IsReply
<1>1. stdout \in Seq(Messages)
  BY DEF ClosingInv, Shapes
<1>2. \A j, k \in Replies(stdout, p) : j = k
  BY DEF TypeInv, RepliesAwaited
<1>3. /\ Replies(Tail(stdout), p) # {} => Replies(stdout, p) # {}
      /\ IsReply(Head(stdout), p) => Replies(stdout, p) # {} /\ Replies(Tail(stdout), p) = {}
      /\ \A j, k \in Replies(Tail(stdout), p) : j = k
  BY <1>1, <1>2, ReplyRead
<1>4. Waits(p) /\ ~IsReply(Head(stdout), p)
  BY <1>3 DEF TypeInv, RepliesAwaited
<1> QED
  BY <1>3, <1>4

LEMMA ReadReplyTypes ==
  ASSUME ClosingInv, TypeInv, ReadReply
  PROVE  TypeInv'
<1> DEFINE m == Head(stdout)
<1> USE NoTurnIsNone
<1>1. /\ stdout # <<>> /\ m \in Messages /\ m.type = "reply" /\ m.to \in Turns \union {NoTurn}
      /\ stdout \in Seq(Messages)
  BY HeadIsAMessage, MessageKinds DEF ReadReply
<1>2. IsReply(m, m.to)
  BY <1>1 DEF IsReply
<1>3. Waits(m.to)
  <2>1. \A i, j \in Replies(stdout, m.to) : i = j
    BY <1>1 DEF TypeInv, RepliesAwaited
  <2>2. Replies(stdout, m.to) # {}
    BY <1>1, <1>2, <2>1, ReplyRead
  <2> QED
    BY <1>1, <2>2 DEF TypeInv, RepliesAwaited
<1>4. OtherTypes' /\ WritingNamed' /\ ReaderNamed'
  BY DEF ReadReply, TypeInv, OtherTypes, WritingNamed, ReaderNamed, rows, contexts, routes
<1>5. CallerNamed'
  <2>1. CASE m.to = NoTurn
    <3>1. caller' = [caller EXCEPT !.at = "answered"] \/ caller' = Idle
      BY <2>1 DEF ReadReply
    <3>2. caller.at = "handled" /\ caller.ctx \in Turns
      BY <1>3, <2>1 DEF Waits, TypeInv, CallerNamed
    <3>3. caller'.at \in {"answered", "idle"} /\ (caller'.at = "answered" => caller'.ctx = caller.ctx)
      BY <3>1 DEF Idle, ClosingInv, Shapes
    <3> QED
      BY <3>2, <3>3 DEF CallerNamed, CallerStages
  <2>2. CASE m.to # NoTurn
    BY <2>2 DEF ReadReply, TypeInv, CallerNamed
  <2> QED
    BY <2>1, <2>2
<1>6. \A p \in Turns \union {NoTurn} : Waits(p) /\ ~IsReply(m, p) => Waits(p)'
  <2>1. worker \in [Turns -> Stages]
    BY DEF ClosingInv, Shapes
  <2>2. \A p : IsReply(m, p) <=> p = m.to
    BY <1>1 DEF IsReply
  <2>3. UNCHANGED <<broken, codex>>
    BY DEF ReadReply, routes
  <2>4. m.to # NoTurn => caller' = caller
    BY DEF ReadReply
  <2>5. \A p \in Turns : p # m.to => worker'[p] = worker[p]
    BY <2>1 DEF ReadReply
  <2> QED
    BY <2>2, <2>3, <2>4, <2>5 DEF Waits
<1>7. RepliesAwaited'
  BY <1>1, <1>6, AwaitedAfterReading DEF ReadReply
<1> QED
  BY <1>4, <1>5, <1>7 DEF TypeInv

LEMMA ReadNotificationTypes ==
  ASSUME ClosingInv, TypeInv, ReadNotification
  PROVE  TypeInv'
<1> DEFINE m == Head(stdout)
<1>1. stdout # <<>> /\ m \in Messages /\ m.type # "reply"
  BY HeadIsAMessage DEF ReadNotification
<1>2. OtherTypes' /\ WritingNamed' /\ CallerNamed'
  BY DEF ReadNotification, TypeInv, OtherTypes, WritingNamed, CallerNamed, rows, contexts, routes
<1>3. ReaderNamed'
  <2>1. PICK ctx \in Routes(m.turn) : reader' = [at |-> "routed", ctx |-> ctx, msg |-> m]
    BY DEF ReadNotification
  <2> QED
    BY <1>1, <2>1 DEF ReaderNamed
<1>4. \A p \in Turns \union {NoTurn} : Waits(p) /\ ~IsReply(m, p) => Waits(p)'
  BY DEF ReadNotification, Waits, routes
<1>5. RepliesAwaited'
  BY <1>1, <1>4, AwaitedAfterReading DEF ReadNotification
<1> QED
  BY <1>2, <1>3, <1>5 DEF TypeInv

LEMMA DeliverTypes ==
  ASSUME ClosingInv, TypeInv,
         DeliverStarted \/ StartedRecorded \/ DeliverCompleted \/ Postpone
  PROVE  TypeInv'
<1>1. UNCHANGED <<worker, broken, caller, pipe>>
  BY DEF DeliverStarted, StartedRecorded, DeliverCompleted, Postpone, EndRegister, routes
<1>2. /\ reader' = Idle \/ (reader.ctx # NoTurn /\ reader' = [at |-> "registering", ctx |-> reader.ctx])
      /\ CallerNamed'
  BY <1>1 DEF DeliverStarted, StartedRecorded, DeliverCompleted, Postpone, TypeInv, CallerNamed
<1>3. ReaderNamed'
  BY <1>2 DEF ReaderNamed, Idle
<1>4. \A p \in Turns \union {NoTurn} : Waits(p) => Waits(p)'
  BY <1>1 DEF Waits, pipe
<1>5. RepliesAwaited'
  BY <1>1, <1>4, RepliesKept DEF pipe
<1>6. reader.ctx # NoTurn => reader.ctx \in Turns
  BY DEF ClosingInv, Shapes
<1>7. reader.at = "routed" =>
        /\ reader.msg.turn \in Turns
        /\ reader.msg.type = "completed" => reader.msg.status \in {"completed", "failed", "interrupted"}
  BY MessagesNameTurns, MessageKinds DEF TypeInv, ReaderNamed
<1>8. OtherTypes' /\ WritingNamed'
  <2>1. CASE DeliverStarted
    BY <1>6, <1>7, <2>1, BeginTypes DEF DeliverStarted, Writers
  <2>2. CASE StartedRecorded
    BY <2>2, EndTypes DEF StartedRecorded, Writers
  <2>3. CASE DeliverCompleted
    BY <1>6, <2>3 DEF DeliverCompleted, Handle, TypeInv, OtherTypes, WritingNamed, rows, routes, pipe
  <2>4. CASE Postpone
    <3>1. buffer' \in [Turns -> SUBSET {"completed", "failed", "interrupted"}]
      BY <1>7, <2>4 DEF Postpone, TypeInv, OtherTypes
    <3> QED
      BY <2>4, <3>1 DEF Postpone, TypeInv, OtherTypes, WritingNamed, rows, contexts, pipe
  <2> QED
    BY <2>1, <2>2, <2>3, <2>4
<1> QED
  BY <1>2, <1>3, <1>5, <1>8 DEF TypeInv

LEMMA CallerTypes ==
  ASSUME ClosingInv, TypeInv,
         \/ \E u \in Turns : FindActive(u)
         \/ AskInterrupt \/ FinishInterrupted \/ PersistInterrupted
  PROVE  TypeInv'
<1> USE DEF contexts, rows, routes, pipe
<1>1. UNCHANGED <<worker, routes, writing, reader, pipe>>
  BY DEF FindActive, AskInterrupt, FinishInterrupted, PersistInterrupted
<1>2. UNCHANGED <<lost, codexTurn>> /\ done' \subseteq Turns
  BY DEF FindActive, AskInterrupt, FinishInterrupted, PersistInterrupted, Finish, Finalize,
         TypeInv, OtherTypes, CallerNamed
<1>3. OtherTypes'
  BY <1>1, <1>2 DEF TypeInv, OtherTypes
<1>4. WritingNamed' /\ ReaderNamed'
  BY <1>1 DEF TypeInv, WritingNamed, ReaderNamed
<1>5. caller.at # "handled"
  BY DEF FindActive, AskInterrupt, FinishInterrupted, PersistInterrupted, Idle
<1>6. CallerNamed'
  <2>1. CASE \E u \in Turns : FindActive(u)
    BY <2>1 DEF FindActive, CallerNamed, CallerStages
  <2>2. CASE AskInterrupt
    <3>1. caller.at # "idle" /\ caller.ctx \in Turns
      BY <2>2 DEF AskInterrupt, TypeInv, CallerNamed
    <3>2. \/ caller' = [caller EXCEPT !.at = "answered"]
          \/ caller' = Idle
          \/ caller' = [at |-> "asked", ctx |-> caller.ctx, turn |-> codexTurn[caller.ctx]]
      BY <2>2 DEF AskInterrupt
    <3>3. /\ caller'.at \in {"answered", "idle", "asked"}
          /\ caller'.at = "idle" \/ caller'.ctx = caller.ctx
      BY <3>2 DEF Idle, ClosingInv, Shapes
    <3> QED
      BY <3>1, <3>3 DEF CallerNamed, CallerStages
  <2>3. CASE FinishInterrupted
    BY <2>3 DEF FinishInterrupted, TypeInv, CallerNamed, CallerStages
  <2>4. CASE PersistInterrupted
    BY <2>4 DEF PersistInterrupted, CallerNamed, CallerStages, Idle
  <2> QED
    BY <2>1, <2>2, <2>3, <2>4
<1>7. \A p \in Turns \union {NoTurn} : Waits(p) => Waits(p)'
  BY <1>1, <1>5 DEF Waits
<1>8. RepliesAwaited'
  BY <1>1, <1>7, RepliesKept
<1> QED
  BY <1>3, <1>4, <1>6, <1>8 DEF TypeInv

-----------------------------------------------------------------------------
(* Codex answers a request that it has not answered yet.                   *)
Answers(s, t, to) ==
  /\ \A p : p # to => Replies(t, p) = Replies(s, p)
  /\ \A i, j \in Replies(t, to) : i = j

LEMMA AnswersOnce ==
  ASSUME NEW s \in Seq(Messages), NEW to \in Turns \union {NoTurn}, NEW ok \in BOOLEAN,
         Replies(s, to) = {}
  PROVE  /\ Answers(s, Append(s, Reply(to, ok)), to)
         /\ \A n \in Messages : n.type # "reply" =>
              /\ Answers(s, s \o <<Reply(to, ok), n>>, to)
              /\ Answers(s, s \o <<n, Reply(to, ok)>>, to)
<1> DEFINE r == Reply(to, ok)
<1>1. r \in Messages /\ \A p : IsReply(r, p) <=> p = to
  BY MessagesNameTurns, MessageKinds
<1> HIDE DEF r
<1>2. Append(s, r) \in Seq(Messages) /\ Answers(s, Append(s, r), to)
  <2>1. \A p : Replies(Append(s, r), p) = Replies(s, p) \union (IF IsReply(r, p) THEN {Len(s) + 1} ELSE {})
    BY <1>1, ReplyWritten
  <2>2. Append(s, r) \in Seq(Messages)
    BY <1>1
  <2>3. \A p : p # to => Replies(Append(s, r), p) = Replies(s, p)
    BY <1>1, <2>1
  <2>4. Replies(Append(s, r), to) = {Len(s) + 1}
    BY <1>1, <2>1
  <2> QED
    BY <2>2, <2>3, <2>4 DEF Answers
<1>3. ASSUME NEW n \in Messages, n.type # "reply"
      PROVE  Answers(s, s \o <<r, n>>, to) /\ Answers(s, s \o <<n, r>>, to)
  <2>1. /\ s \o <<r, n>> = Append(Append(s, r), n)
        /\ s \o <<n, r>> = Append(Append(s, n), r)
    BY <1>1, TwoWritten
  <2>2. \A p : ~IsReply(n, p)
    BY <1>3 DEF IsReply
  <2>3. \A t \in Seq(Messages) : \A p : Replies(Append(t, n), p) = Replies(t, p)
    <3> SUFFICES ASSUME NEW t \in Seq(Messages), NEW p
                 PROVE  Replies(Append(t, n), p) = Replies(t, p)
      OBVIOUS
    <3>1. Replies(Append(t, n), p) = Replies(t, p) \union (IF IsReply(n, p) THEN {Len(t) + 1} ELSE {})
      BY <1>3, ReplyWritten
    <3> QED
      BY <2>2, <3>1
  <2>4. Answers(s, s \o <<r, n>>, to)
    <3>1. \A p : Replies(s \o <<r, n>>, p) = Replies(Append(s, r), p)
      BY <1>2, <2>1, <2>3
    <3> QED
      BY <1>2, <3>1 DEF Answers
  <2>5. Answers(s, s \o <<n, r>>, to)
    <3>1. Append(s, n) \in Seq(Messages) /\ \A p : Replies(Append(s, n), p) = Replies(s, p)
      BY <2>3
    <3>2. \A p : Replies(s \o <<n, r>>, p)
                   = Replies(Append(s, n), p) \union (IF IsReply(r, p) THEN {Len(Append(s, n)) + 1} ELSE {})
      <4> DEFINE t == Append(s, n)
      <4>1. t \in Seq(Messages) /\ s \o <<n, r>> = Append(t, r)
        BY <2>1, <3>1
      <4> HIDE DEF t
      <4>2. \A p : Replies(Append(t, r), p) = Replies(t, p) \union (IF IsReply(r, p) THEN {Len(t) + 1} ELSE {})
        BY <1>1, <4>1, ReplyWritten
      <4> QED
        BY <4>1, <4>2 DEF t
    <3>3. /\ \A p : p # to => Replies(s \o <<n, r>>, p) = Replies(s, p)
          /\ Replies(s \o <<n, r>>, to) = {Len(Append(s, n)) + 1}
      BY <1>1, <3>1, <3>2
    <3> QED
      BY <3>3 DEF Answers
  <2> QED
    BY <2>4, <2>5
<1> QED
  BY <1>2, <1>3 DEF r

LEMMA AnswersAwaited ==
  ASSUME TypeInv, NEW to \in Turns \union {NoTurn}, Answers(stdout, stdout', to), Waits(to)',
         \A p \in Turns \union {NoTurn} : Waits(p) => Waits(p)'
  PROVE  RepliesAwaited'
<1> SUFFICES ASSUME NEW p \in Turns \union {NoTurn}, NEW i \in Replies(stdout', p)
             PROVE  Waits(p)' /\ \A j \in Replies(stdout', p) : i = j
  BY DEF RepliesAwaited, Replies, IsReply
<1>1. CASE p = to
  BY <1>1 DEF Answers
<1>2. CASE p # to
  BY <1>2 DEF Answers, TypeInv, RepliesAwaited
<1> QED
  BY <1>1, <1>2

LEMMA InterruptsAnswers ==
  ASSUME ClosingInv, TypeInv, NEW to \in Turns \union {NoTurn}, NEW named, Interrupts(to, named),
         ~Waits(to)
  PROVE  /\ Answers(stdout, stdout', to)
         /\ codex' \in [Turns -> {"idle", "running", "over"}]
         /\ \A v \in Turns : codex[v] # "idle" => codex'[v] # "idle"
<1>1. stdout \in Seq(Messages) /\ Replies(stdout, to) = {}
  BY DEF ClosingInv, Shapes, TypeInv, RepliesAwaited
<1>2. codex \in [Turns -> {"idle", "running", "over"}]
  BY DEF TypeInv, OtherTypes
<1>3. CASE \E v \in Turns :
             /\ codex' = [codex EXCEPT ![v] = "over"]
             /\ \E out \in {<<Reply(to, TRUE), Completed(v, "interrupted")>>,
                            <<Completed(v, "interrupted"), Reply(to, TRUE)>>} :
                  stdout' = stdout \o out
  <2>1. PICK v \in Turns :
           /\ codex' = [codex EXCEPT ![v] = "over"]
           /\ stdout' \in {stdout \o <<Reply(to, TRUE), Completed(v, "interrupted")>>,
                           stdout \o <<Completed(v, "interrupted"), Reply(to, TRUE)>>}
    BY <1>3
  <2>2. Completed(v, "interrupted") \in Messages /\ Completed(v, "interrupted").type # "reply"
    BY MessagesNameTurns DEF Completed
  <2>3. Answers(stdout, stdout', to)
    BY <1>1, <2>1, <2>2, AnswersOnce, Zenon
  <2> QED
    BY <1>2, <2>1, <2>3
<1>4. CASE UNCHANGED codex /\ \E ok \in BOOLEAN : stdout' = Append(stdout, Reply(to, ok))
  BY <1>1, <1>2, <1>4, AnswersOnce
<1> QED
  BY <1>3, <1>4 DEF Interrupts

LEMMA CodexTypes ==
  ASSUME ClosingInv, TypeInv, NEW u \in Turns,
         CodexStarts(u) \/ CodexCompletes(u) \/ CodexInterruptsExpired(u) \/ CodexInterruptsCaller
  PROVE  TypeInv'
<1> USE NoTurnIsNone
<1>1. /\ UNCHANGED <<rows, contexts, routes, writing, reader>>
      /\ CodexInterruptsCaller \/ UNCHANGED caller
  BY DEF CodexStarts, CodexCompletes, CodexInterruptsExpired, CodexInterruptsCaller
<1>2. /\ codex \in [Turns -> {"idle", "running", "over"}]
      /\ worker \in [Turns -> Stages]
      /\ stdout \in Seq(Messages)
  BY DEF TypeInv, OtherTypes, ClosingInv, Shapes
<1>3. WritingNamed' /\ ReaderNamed'
  BY <1>1 DEF TypeInv, WritingNamed, ReaderNamed
<1>4. CallerNamed'
  BY <1>1 DEF TypeInv, CallerNamed, CodexInterruptsCaller, CallerStages
<1>5. /\ codex' \in [Turns -> {"idle", "running", "over"}]
      /\ RepliesAwaited'
  <2>1. CASE CodexStarts(u)
    <3>1. ~Waits(u)
      BY <2>1 DEF CodexStarts, Waits
    <3>2. codex' = [codex EXCEPT ![u] = "running"]
      BY <2>1 DEF CodexStarts
    <3>3. Waits(u)' /\ \A p \in Turns \union {NoTurn} : Waits(p) => Waits(p)'
      BY <1>1, <1>2, <2>1, <3>2 DEF CodexStarts, Waits, routes
    <3>4. Answers(stdout, stdout', u)
      <4>1. stdout' \in {stdout \o <<Reply(u, TRUE), Started(u)>>,
                         stdout \o <<Started(u), Reply(u, TRUE)>>}
        BY <2>1 DEF CodexStarts
      <4>2. Started(u) \in Messages /\ Started(u).type # "reply"
        BY MessagesNameTurns DEF Started
      <4>3. Replies(stdout, u) = {}
        BY <3>1 DEF TypeInv, RepliesAwaited
      <4>4. /\ Answers(stdout, stdout \o <<Reply(u, TRUE), Started(u)>>, u)
            /\ Answers(stdout, stdout \o <<Started(u), Reply(u, TRUE)>>, u)
        BY <1>2, <4>2, <4>3, AnswersOnce
      <4> QED
        BY <4>1, <4>4, Zenon
    <3> QED
      BY <1>2, <3>2, <3>3, <3>4, AnswersAwaited
  <2>2. CASE CodexCompletes(u)
    <3>1. codex' = [codex EXCEPT ![u] = "over"] /\ UNCHANGED worker
      BY <2>2 DEF CodexCompletes
    <3>2. \A p \in Turns \union {NoTurn} : Waits(p) => Waits(p)'
      BY <1>1, <1>2, <2>2, <3>1 DEF CodexCompletes, Waits, routes
    <3>3. PICK s \in Outcomes : stdout' = Append(stdout, Completed(u, s))
      BY <2>2 DEF CodexCompletes
    <3>4. Completed(u, s) \in Messages /\ \A p : ~IsReply(Completed(u, s), p)
      BY ExecutionAssumption, MessageKinds DEF Messages
    <3>5. \A p : Replies(stdout', p) = Replies(stdout, p)
      <4> DEFINE m == Completed(u, s)
      <4> HIDE DEF m
      <4>1. m \in Messages /\ stdout' = Append(stdout, m) /\ \A p : ~IsReply(m, p)
        BY <3>3, <3>4 DEF m
      <4>2. \A p : Replies(Append(stdout, m), p)
                     = Replies(stdout, p) \union (IF IsReply(m, p) THEN {Len(stdout) + 1} ELSE {})
        BY <1>2, <4>1, ReplyWritten
      <4> QED
        BY <4>1, <4>2
    <3>6. RepliesAwaited'
      <4> SUFFICES ASSUME NEW p \in Turns \union {NoTurn}, NEW i \in Replies(stdout', p)
                   PROVE  Waits(p)' /\ \A j \in Replies(stdout', p) : i = j
        BY DEF RepliesAwaited, Replies, IsReply
      <4> QED
        BY <3>2, <3>5 DEF RepliesAwaited, TypeInv
    <3> QED
      BY <1>2, <3>1, <3>6
  <2>3. CASE CodexInterruptsExpired(u)
    <3>1. ~Waits(u) /\ u \notin broken
      BY <2>3 DEF CodexInterruptsExpired, Moves, Waits
    <3>2. Interrupts(u, NoTurn) /\ worker' = [worker EXCEPT ![u] = "expiring"]
      BY <2>3 DEF CodexInterruptsExpired, Moves
    <3>3. /\ Answers(stdout, stdout', u)
          /\ codex' \in [Turns -> {"idle", "running", "over"}]
          /\ \A v \in Turns : codex[v] # "idle" => codex'[v] # "idle"
      BY <3>1, <3>2, InterruptsAnswers
    <3>4. Waits(u)' /\ \A p \in Turns \union {NoTurn} : Waits(p) => Waits(p)'
      BY <1>1, <1>2, <2>3, <3>1, <3>2, <3>3 DEF CodexInterruptsExpired, Waits, routes
    <3> QED
      BY <3>3, <3>4, AnswersAwaited
  <2>4. CASE CodexInterruptsCaller
    <3>1. ~Waits(NoTurn) /\ caller'.at = "handled"
      BY <2>4 DEF CodexInterruptsCaller, Waits
    <3>2. Interrupts(NoTurn, caller.turn) /\ UNCHANGED worker
      BY <2>4 DEF CodexInterruptsCaller
    <3>3. /\ Answers(stdout, stdout', NoTurn)
          /\ codex' \in [Turns -> {"idle", "running", "over"}]
          /\ \A v \in Turns : codex[v] # "idle" => codex'[v] # "idle"
      BY <3>1, <3>2, InterruptsAnswers
    <3>4. Waits(NoTurn)' /\ \A p \in Turns \union {NoTurn} : Waits(p) => Waits(p)'
      BY <1>1, <3>1, <3>2, <3>3 DEF Waits, routes
    <3> QED
      BY <3>3, <3>4, AnswersAwaited
  <2> QED
    BY <2>1, <2>2, <2>3, <2>4
<1>6. OtherTypes'
  BY <1>1, <1>5 DEF TypeInv, OtherTypes, rows, contexts, routes
<1> QED
  BY <1>3, <1>4, <1>5, <1>6 DEF TypeInv

LEMMA DeathTypes ==
  ASSUME ClosingInv, TypeInv, ChildDies
  PROVE  TypeInv'
<1>1. OtherTypes'
  <2>1. broken' \subseteq Turns /\ done' \subseteq Turns
    BY DEF ChildDies, Finish, Victims, Registered, TypeInv, OtherTypes
  <2>2. codex' \in [Turns -> {"idle", "running", "over"}]
    BY DEF ChildDies, TypeInv, OtherTypes
  <2> QED
    BY <2>1, <2>2 DEF ChildDies, Finish, TypeInv, OtherTypes, rows
<1>2. WritingNamed' /\ ReaderNamed' /\ CallerNamed'
  BY DEF ChildDies, TypeInv, WritingNamed, ReaderNamed, CallerNamed, CallerStages, Idle
<1>3. RepliesAwaited'
  BY DEF ChildDies, RepliesAwaited, Replies
<1> QED
  BY <1>1, <1>2, <1>3 DEF TypeInv

LEMMA TypeStep == ClosingInv /\ TypeInv /\ [Next]_vars => TypeInv'
<1> SUFFICES ASSUME ClosingInv, TypeInv, [Next]_vars PROVE TypeInv'
  OBVIOUS
<1>1. ASSUME NEW u \in Turns, Worker(u) \/ TimesOut(u) PROVE TypeInv'
  BY <1>1, WorkerKeepsTypes, WorkerRegistersTyped DEF Worker
<1>2. CASE Reader
  BY <1>2, ReadReplyTypes, ReadNotificationTypes, DeliverTypes DEF Reader
<1>3. CASE Caller \/ \E u \in Turns : FindActive(u)
  BY <1>3, CallerTypes DEF Caller
<1>4. CASE Codex
  <2>1. 1 \in Turns
    BY ExecutionAssumption DEF Turns
  <2> QED
    BY <1>4, <2>1, CodexTypes DEF Codex
<1>5. ASSUME NEW u \in Turns, CodexCompletes(u) PROVE TypeInv'
  BY <1>5, CodexTypes
<1>6. CASE ChildDies
  BY <1>6, DeathTypes
<1>7. CASE UNCHANGED vars
  <2>1. /\ UNCHANGED <<lost, codexTurn, buffer, broken, writing, reader, caller, pipe>>
        /\ UNCHANGED <<done, threadKnown, worker, codex>>
    BY <1>7 DEF vars, rows, contexts, routes, pipe
  <2>2. \A p \in Turns : Waits(p) => Waits(p)'
    BY <2>1 DEF Waits
  <2> QED
    BY <2>1, <2>2, WorkerOnly DEF TypeInv, OtherTypes
<1> QED
  BY <1>1, <1>2, <1>3, <1>4, <1>5, <1>6, <1>7 DEF Next

THEOREM TypesHold == Spec => [](ClosingInv /\ TypeInv)
<1>1. Init => ClosingInv /\ TypeInv
  BY ClosingInit, TypeInit
<1>2. ClosingInv /\ TypeInv /\ [Next]_vars => (ClosingInv /\ TypeInv)'
  BY ClosingStep, TypeStep
<1> QED
  BY <1>1, <1>2, PTL DEF Spec

(* The state of the execution keeps its types: in particular no context,   *)
(* turn or reply that a thread of control works on is one that never was.  *)
THEOREM TypeCorrect == Spec => []TypeOK
  BY InvIsTyped, TypesHold, PTL

(* A reply that the App Server has written is awaited by the worker or by  *)
(* the interrupting caller, and is the only one to its request, so reading *)
(* it never moves a worker that has gone on (AppServerClient.request).     *)
THEOREM RepliesAreAwaited == Spec => []RepliesAwaited
<1>1. TypeInv => RepliesAwaited
  BY DEF TypeInv
<1> QED
  BY <1>1, TypesHold, PTL
=============================================================================
