--------------------------- MODULE TurnExecution ---------------------------
(***************************************************************************)
(* The turns of one broker thread while they execute: the worker in        *)
(* _run_turn from the moment its context is active, the App Server client  *)
(* with the reader thread that routes notifications to contexts, a caller  *)
(* of interrupt_turn, and the rows they all write.                         *)
(*                                                                         *)
(* TurnScheduler starts the turns one after the other; turn n + 1 is       *)
(* attached when turn n has left. Codex answers requests in the order of   *)
(* the pipe and may complete a turn at any time. Turn n of the broker runs *)
(* as Codex turn n. All turns run on one Codex thread.                     *)
(***************************************************************************)
EXTENDS Integers, Sequences, FiniteSets

CONSTANTS
  TurnCount,     (* how many turns the broker thread runs                  *)
  ThreadIsNamed, (* whether every notification carries the Codex thread id *)
  Outcomes       (* the statuses with which Codex ends a turn by itself    *)

ASSUME ExecutionAssumption ==
  /\ TurnCount \in Nat \ {0}
  /\ ThreadIsNamed \in BOOLEAN
  /\ Outcomes \subseteq {"completed", "failed"}

Turns == 1 .. TurnCount
NoTurn == 0
Final == {"completed", "failed", "interrupted", "timed_out"}

VARIABLES
  row,         (* turns.status                                             *)
  closings,    (* history: how many terminal events a turn has             *)
  lost,        (* history: turns whose terminal row was overwritten        *)
  worker,      (* how far _run_turn has come                               *)
  done,        (* contexts whose completed_event is set                    *)
  status,      (* BrokerTurnContext.final_status                           *)
  codexTurn,   (* BrokerTurnContext.codex_turn_id                          *)
  threadKnown, (* whether the thread has its codex_thread_id               *)
  byThread,    (* _contexts_by_thread, for the one Codex thread            *)
  byTurn,      (* _contexts_by_turn                                        *)
  buffer,      (* _pending_notifications_by_turn: the completions in it    *)
  broken,      (* contexts whose client has been closed                    *)
  writing,     (* per thread of control, the register_turn it is inside of *)
  reader,      (* the notification the reader thread is handling           *)
  caller,      (* the interrupt_turn call                                  *)
  stdout,      (* what Codex has written and the reader has not read       *)
  codex        (* the state of a turn inside Codex                         *)

rows == <<row, closings, lost>>
contexts == <<done, status, codexTurn>>
routes == <<threadKnown, byThread, byTurn, buffer, broken>>
pipe == <<stdout, codex>>
vars == <<rows, worker, contexts, routes, writing, reader, caller, pipe>>

Stages == {"waiting", "attached", "bound", "starting", "answered", "recording", "listening",
           "expired", "expiring", "timedOut", "settle", "detach", "over"}
Registered == {u \in Turns : worker[u] \notin {"waiting", "over"}}

Idle == [at |-> "idle", ctx |-> NoTurn]
NotWriting == [ctx |-> NoTurn, turn |-> NoTurn, seen |-> "none"]
Reply(to, ok) == [type |-> "reply", to |-> to, ok |-> ok]
Started(u) == [type |-> "started", turn |-> u]
Completed(u, s) == [type |-> "completed", turn |-> u, status |-> s]

(* BrokerTurnContext._lock: register_turn holds it around update_turn.     *)
Locked(u) == \E p \in {"worker", "reader"} : writing[p].ctx = u

Init ==
  /\ row = [u \in Turns |-> "starting"]
  /\ closings = [u \in Turns |-> 0]
  /\ lost = {}
  /\ worker = [u \in Turns |-> "waiting"]
  /\ done = {}
  /\ status = [u \in Turns |-> "none"]
  /\ codexTurn = [u \in Turns |-> NoTurn]
  /\ threadKnown \in BOOLEAN
  /\ byThread = NoTurn
  /\ byTurn = [u \in Turns |-> NoTurn]
  /\ buffer = [u \in Turns |-> {}]
  /\ broken = {}
  /\ writing = [p \in {"worker", "reader"} |-> NotWriting]
  /\ reader = Idle
  /\ caller = Idle
  /\ stdout = <<>>
  /\ codex = [u \in Turns |-> "idle"]

-----------------------------------------------------------------------------
(* The row. finalize_turn leaves a row that is final alone; update_turn    *)
(* writes back whatever status it has read, in a transaction of its own.   *)

FinalizeAgain(u, s) ==
  /\ row' = [row EXCEPT ![u] = s]
  /\ closings' = [closings EXCEPT ![u] = @ + 1]
  /\ UNCHANGED lost

Finalize(u, s) ==
  IF row[u] \in Final
    THEN UNCHANGED rows
    ELSE /\ row' = [row EXCEPT ![u] = s]
         /\ closings' = [closings EXCEPT ![u] = @ + 1]
         /\ UNCHANGED lost

(* _persist_context_terminal.                                              *)
FinalStatus(u) == IF status[u] = "none" THEN "completed" ELSE status[u]

(* The context's own end: finish() is ignored once the event is set, ...   *)
Finish(S, s) ==
  /\ done' = done \union S
  /\ status' = [u \in Turns |-> IF u \in S \ done THEN s ELSE status[u]]
  /\ UNCHANGED codexTurn

(* ... a turn/completed notification is not.                               *)
Handle(u, s) ==
  /\ done' = done \union {u}
  /\ status' = [status EXCEPT ![u] = IF s = "completed" THEN "completed" ELSE "failed"]

(* register_turn(v) of the context u, by the thread of control p.          *)
BeginRegister(p, u, v) ==
  /\ ~Locked(u)
  /\ codexTurn' = [codexTurn EXCEPT ![u] = v]
  /\ writing' = [writing EXCEPT ![p] = [ctx |-> u, turn |-> v, seen |-> row[u]]]

UpdateTurn(u, seen) ==
  /\ row' = [row EXCEPT ![u] = seen]
  /\ lost' = IF row[u] \in Final /\ seen \notin Final THEN lost \union {u} ELSE lost

Mapped(w) == [byTurn EXCEPT ![w.turn] = w.ctx]

EndRegister(p) ==
  LET w == writing[p] IN
  /\ w.ctx # NoTurn
  /\ UpdateTurn(w.ctx, w.seen)
  /\ byTurn' = Mapped(w)
  /\ buffer' = [buffer EXCEPT ![w.turn] = {}]
  /\ \/ /\ buffer[w.turn] = {}
        /\ UNCHANGED <<done, status>>
     \/ \E s \in buffer[w.turn] : Handle(w.ctx, s)
  /\ writing' = [writing EXCEPT ![p] = NotWriting]
  /\ UNCHANGED <<closings, codexTurn, threadKnown, byThread, broken>>

-----------------------------------------------------------------------------
(* The worker.                                                             *)

Moves(u, from, to) ==
  /\ worker[u] = from
  /\ worker' = [worker EXCEPT ![u] = to]

Attach(u) ==
  /\ \A v \in 1 .. u - 1 : worker[v] = "over"
  /\ Moves(u, "waiting", "attached")
  /\ row' = [row EXCEPT ![u] = "running"]
  /\ byThread' = IF threadKnown THEN u ELSE byThread
  /\ UNCHANGED <<closings, lost, contexts, threadKnown, byTurn, buffer, broken, writing, reader,
                 caller, pipe>>

(* _ensure_codex_thread: thread/start or thread/resume.                    *)
EnsureThread(u) ==
  /\ u \notin broken
  /\ Moves(u, "attached", "bound")
  /\ threadKnown' = TRUE
  /\ byThread' = u
  /\ UNCHANGED <<rows, contexts, byTurn, buffer, broken, writing, reader, caller, pipe>>

RequestStart(u) ==
  /\ u \notin broken
  /\ Moves(u, "bound", "starting")
  /\ UNCHANGED <<rows, contexts, routes, writing, reader, caller, pipe>>

(* A request fails, or raises because the client is closed.                *)
RequestFails(u) ==
  /\ worker[u] \in {"attached", "bound", "starting"}
  /\ u \in broken \/ worker[u] # "starting"
  /\ worker' = [worker EXCEPT ![u] = "detach"]
  /\ Finalize(u, "failed")
  /\ UNCHANGED <<contexts, routes, writing, reader, caller, pipe>>

RecordTurn(u) ==
  /\ Moves(u, "answered", "recording")
  /\ BeginRegister("worker", u, u)
  /\ UNCHANGED <<rows, done, status, routes, reader, caller, pipe>>

TurnRecorded(u) ==
  /\ Moves(u, "recording", "listening")
  /\ EndRegister("worker")
  /\ UNCHANGED <<reader, caller, pipe>>

WakesSettled(u) ==
  /\ u \in done
  /\ worker[u] = "listening"
  /\ worker' = [worker EXCEPT ![u] = IF status[u] = "interrupted" THEN "detach" ELSE "settle"]
  /\ UNCHANGED <<rows, contexts, routes, writing, reader, caller, pipe>>

Wakes(u) ==
  /\ u \in done
  /\ Moves(u, "listening", "settle")
  /\ UNCHANGED <<rows, contexts, routes, writing, reader, caller, pipe>>

(* turn_timeout_seconds have passed: turn/interrupt for the Codex thread,  *)
(* whose failure is ignored ...                                            *)
TimesOut(u) ==
  /\ u \notin done
  /\ worker[u] = "listening"
  /\ worker' = [worker EXCEPT ![u] = IF u \in broken THEN "timedOut" ELSE "expired"]
  /\ UNCHANGED <<rows, contexts, routes, writing, reader, caller, pipe>>

InterruptFails(u) ==
  /\ u \in broken
  /\ worker[u] \in {"expired", "expiring"}
  /\ worker' = [worker EXCEPT ![u] = "timedOut"]
  /\ UNCHANGED <<rows, contexts, routes, writing, reader, caller, pipe>>

(* ... then fail(), and whatever that did the turn has timed out.          *)
SettleTimeout(u) ==
  /\ ~Locked(u)
  /\ Moves(u, "timedOut", "settle")
  /\ done' = done \union {u}
  /\ status' = [status EXCEPT ![u] = "timed_out"]
  /\ UNCHANGED <<rows, codexTurn, routes, writing, reader, caller, pipe>>

Persist(u) ==
  /\ Moves(u, "settle", "detach")
  /\ Finalize(u, FinalStatus(u))
  /\ UNCHANGED <<contexts, routes, writing, reader, caller, pipe>>

(* unregister_context, and the gate loses its active context.              *)
Detach(u) ==
  /\ Moves(u, "detach", "over")
  /\ byThread' = IF byThread = u THEN NoTurn ELSE byThread
  /\ byTurn' = [v \in Turns |-> IF byTurn[v] = u THEN NoTurn ELSE byTurn[v]]
  /\ UNCHANGED <<rows, contexts, threadKnown, buffer, broken, writing, reader, caller, pipe>>

-----------------------------------------------------------------------------
(* The reader thread: one line after the other.                            *)

Routes(v) ==
  IF byTurn[v] # NoTurn THEN {byTurn[v]}
  ELSE IF ThreadIsNamed THEN {byThread} ELSE {byThread, NoTurn}

ReadReply ==
  /\ reader.at = "idle"
  /\ stdout # <<>>
  /\ LET m == Head(stdout) IN
       /\ m.type = "reply"
       /\ IF m.to = NoTurn
            THEN /\ caller' = IF m.ok THEN [caller EXCEPT !.at = "answered"] ELSE Idle
                 /\ UNCHANGED worker
            ELSE /\ worker' = [worker EXCEPT ![m.to] = IF @ = "starting" THEN "answered" ELSE "timedOut"]
                 /\ UNCHANGED caller
  /\ stdout' = Tail(stdout)
  /\ UNCHANGED <<rows, contexts, routes, writing, reader, codex>>

(* _context_for_params, under its own lock.                                *)
ReadNotification ==
  /\ reader.at = "idle"
  /\ stdout # <<>>
  /\ LET m == Head(stdout) IN
       /\ m.type # "reply"
       /\ \E ctx \in Routes(m.turn) : reader' = [at |-> "routed", ctx |-> ctx, msg |-> m]
  /\ stdout' = Tail(stdout)
  /\ UNCHANGED <<rows, worker, contexts, routes, writing, caller, codex>>

DeliverStarted ==
  /\ reader.at = "routed"
  /\ reader.ctx # NoTurn
  /\ reader.msg.type = "started"
  /\ BeginRegister("reader", reader.ctx, reader.msg.turn)
  /\ reader' = [at |-> "registering", ctx |-> reader.ctx]
  /\ UNCHANGED <<rows, worker, done, status, routes, caller, pipe>>

StartedRecorded ==
  /\ reader.at = "registering"
  /\ EndRegister("reader")
  /\ reader' = Idle
  /\ UNCHANGED <<worker, caller, pipe>>

DeliverCompleted ==
  /\ reader.at = "routed"
  /\ reader.ctx # NoTurn
  /\ reader.msg.type = "completed"
  /\ Handle(reader.ctx, reader.msg.status)
  /\ reader' = Idle
  /\ UNCHANGED <<rows, worker, codexTurn, routes, writing, caller, pipe>>

(* No context: the notification waits for register_turn_for_context.       *)
Postpone ==
  /\ reader.at = "routed"
  /\ reader.ctx = NoTurn
  /\ buffer' = [buffer EXCEPT ![reader.msg.turn] =
                  IF reader.msg.type = "completed" THEN @ \union {reader.msg.status} ELSE @]
  /\ reader' = Idle
  /\ UNCHANGED <<rows, worker, contexts, threadKnown, byThread, byTurn, broken, writing, caller, pipe>>

-----------------------------------------------------------------------------
(* interrupt_turn: the context found is used after the lock is released.   *)

FindActive(u) ==
  /\ caller = Idle
  /\ u \in Registered
  /\ caller' = [at |-> "found", ctx |-> u]
  /\ UNCHANGED <<rows, worker, contexts, routes, writing, reader, pipe>>

AskInterrupt ==
  /\ caller.at = "found"
  /\ caller' = IF ~threadKnown THEN [caller EXCEPT !.at = "answered"]
               ELSE IF caller.ctx \in broken THEN Idle
               ELSE [at |-> "asked", ctx |-> caller.ctx, turn |-> codexTurn[caller.ctx]]
  /\ UNCHANGED <<rows, worker, contexts, routes, writing, reader, pipe>>

FinishInterrupted ==
  /\ caller.at = "answered"
  /\ ~Locked(caller.ctx)
  /\ Finish({caller.ctx}, "interrupted")
  /\ caller' = [at |-> "persist", ctx |-> caller.ctx]
  /\ UNCHANGED <<rows, worker, routes, writing, reader, pipe>>

PersistInterrupted ==
  /\ caller.at = "persist"
  /\ Finalize(caller.ctx, FinalStatus(caller.ctx))
  /\ caller' = Idle
  /\ UNCHANGED <<worker, contexts, routes, writing, reader, pipe>>

-----------------------------------------------------------------------------
(* The App Server (external), and its end: a child that exits, or one that *)
(* is closed because a request has timed out. Every context it serves is   *)
(* failed; the next turn is given another child.                           *)

CodexStarts(u) ==
  /\ worker[u] = "starting"
  /\ codex[u] = "idle"
  /\ u \notin broken
  /\ codex' = [codex EXCEPT ![u] = "running"]
  /\ \E out \in {<<Reply(u, TRUE), Started(u)>>, <<Started(u), Reply(u, TRUE)>>} :
       stdout' = stdout \o out
  /\ UNCHANGED <<rows, worker, contexts, routes, writing, reader, caller>>

CodexCompletes(u) ==
  /\ codex[u] = "running"
  /\ codex' = [codex EXCEPT ![u] = "over"]
  /\ \E s \in Outcomes : stdout' = Append(stdout, Completed(u, s))
  /\ UNCHANGED <<rows, worker, contexts, routes, writing, reader, caller>>

(* The turn named, or any that runs; without one the request may fail.     *)
Interrupts(to, named) ==
  LET targets == {v \in Turns : codex[v] = "running" /\ named \in {v, NoTurn}} IN
  \/ \E v \in targets :
       /\ codex' = [codex EXCEPT ![v] = "over"]
       /\ \E out \in {<<Reply(to, TRUE), Completed(v, "interrupted")>>,
                      <<Completed(v, "interrupted"), Reply(to, TRUE)>>} :
            stdout' = stdout \o out
  \/ /\ targets = {}
     /\ \E ok \in BOOLEAN : stdout' = Append(stdout, Reply(to, ok))
     /\ UNCHANGED codex

CodexInterruptsCaller ==
  /\ caller.at = "asked"
  /\ Interrupts(NoTurn, caller.turn)
  /\ caller' = [at |-> "handled", ctx |-> caller.ctx]
  /\ UNCHANGED <<rows, worker, contexts, routes, writing, reader>>

CodexInterruptsExpired(u) ==
  /\ Moves(u, "expired", "expiring")
  /\ u \notin broken
  /\ Interrupts(u, NoTurn)
  /\ UNCHANGED <<rows, contexts, routes, writing, reader, caller>>

VictimsByTurn == {byTurn[v] : v \in Turns} \ {NoTurn}
VictimsUnfiltered == {byTurn[v] : v \in Turns} \union Registered
Victims == Registered

ChildDies ==
  /\ Registered \ broken # {}
  /\ \A u \in Registered : ~Locked(u)
  /\ broken' = broken \union Registered
  /\ Finish(Victims, "failed")
  /\ byThread' = NoTurn
  /\ byTurn' = [u \in Turns |-> NoTurn]
  /\ buffer' = [u \in Turns |-> {}]
  /\ stdout' = <<>>
  /\ codex' = [u \in Turns |-> IF codex[u] = "running" THEN "over" ELSE codex[u]]
  /\ caller' = IF caller.at \in {"asked", "handled"} THEN Idle ELSE caller
  /\ UNCHANGED <<rows, worker, threadKnown, writing, reader>>

-----------------------------------------------------------------------------
Worker(u) ==
  \/ Attach(u)
  \/ EnsureThread(u)
  \/ RequestStart(u)
  \/ RequestFails(u)
  \/ RecordTurn(u)
  \/ TurnRecorded(u)
  \/ Wakes(u)
  \/ InterruptFails(u)
  \/ SettleTimeout(u)
  \/ Persist(u)
  \/ Detach(u)

Reader ==
  \/ ReadReply
  \/ ReadNotification
  \/ DeliverStarted
  \/ StartedRecorded
  \/ DeliverCompleted
  \/ Postpone

Caller ==
  \/ AskInterrupt
  \/ FinishInterrupted
  \/ PersistInterrupted

Codex ==
  \/ \E u \in Turns : CodexStarts(u) \/ CodexInterruptsExpired(u)
  \/ CodexInterruptsCaller

Next ==
  \/ \E u \in Turns : Worker(u)
  \/ \E u \in Turns : TimesOut(u)
  \/ \E u \in Turns : FindActive(u)
  \/ Reader
  \/ Caller
  \/ Codex
  \/ \E u \in Turns : CodexCompletes(u)
  \/ ChildDies

Spec == Init /\ [][Next]_vars

(* The threads of the broker run; Codex answers, or the request's timeout  *)
(* closes the child; and Codex completes the turns it runs.                *)
Fairness ==
  /\ \A u \in Turns : WF_vars(Worker(u))
  /\ WF_vars(Reader)
  /\ WF_vars(Caller)
  /\ \A u \in Turns : WF_vars(CodexStarts(u)) /\ WF_vars(CodexInterruptsExpired(u))
  /\ WF_vars(CodexInterruptsCaller)
  /\ \A u \in Turns : WF_vars(CodexCompletes(u))

FairSpec == Spec /\ Fairness

-----------------------------------------------------------------------------
(* Properties.                                                             *)

Messages ==
  {Reply(to, ok) : to \in Turns \union {NoTurn}, ok \in BOOLEAN}
    \union {Started(u) : u \in Turns}
    \union {Completed(u, s) : u \in Turns, s \in {"completed", "failed", "interrupted"}}

TypeOK ==
  /\ row \in [Turns -> {"starting", "running"} \union Final]
  /\ closings \in [Turns -> Nat]
  /\ lost \subseteq Turns
  /\ worker \in [Turns -> Stages]
  /\ done \subseteq Turns
  /\ status \in [Turns -> {"none"} \union Final]
  /\ codexTurn \in [Turns -> Turns \union {NoTurn}]
  /\ threadKnown \in BOOLEAN
  /\ byThread \in Turns \union {NoTurn}
  /\ byTurn \in [Turns -> Turns \union {NoTurn}]
  /\ buffer \in [Turns -> SUBSET {"completed", "failed", "interrupted"}]
  /\ broken \subseteq Turns
  /\ \A p \in {"worker", "reader"} :
       writing[p] # NotWriting => writing[p].ctx \in Turns /\ writing[p].turn \in Turns
  /\ reader.at \in {"idle", "routed", "registering"}
  /\ caller.at \in {"idle", "found", "asked", "handled", "answered", "persist"}
  /\ stdout \in Seq(Messages)
  /\ codex \in [Turns -> {"idle", "running", "over"}]

(* However worker, reader, caller and a dying child race to end a turn, it *)
(* gets one terminal event, with the terminal row. The exception is a row  *)
(* that register_turn has read before it became final and writes after.    *)
ClosedOnce ==
  \A u \in Turns \ lost : closings[u] = IF row[u] \in Final THEN 1 ELSE 0

(* A worker leaves no unfinished row behind, with the same exception.      *)
LeftClosed ==
  \A u \in Turns \ lost : worker[u] = "over" => row[u] \in Final

(* Provided Codex completes what it runs, no wake-up of the worker is      *)
(* lost, in whatever order replies and notifications come and whoever      *)
(* handles them: the turns that started are over again and again. The      *)
(* exception is a completion without a thread id that found no context     *)
(* while the turn was being registered, and stays in the buffer.           *)
Overlooked(u) == ~ThreadIsNamed /\ worker[u] = "listening" /\ buffer[u] # {}

ExecutionsEnd ==
  []<>(\A u \in Turns : worker[u] \in {"waiting", "over"} \/ Overlooked(u))

(* README: the broker is to prevent two turns on the same Codex thread     *)
(* from racing, so Codex never runs two at once ...                        *)
OneCodexTurn == Cardinality({u \in Turns : codex[u] = "running"}) <= 1

(* ... and the completion of one turn never ends another.                  *)
OwnCompletion ==
  reader.at = "routed" /\ reader.msg.type = "completed" /\ reader.ctx # NoTurn =>
    reader.ctx = reader.msg.turn
=============================================================================
