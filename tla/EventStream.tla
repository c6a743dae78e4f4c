---------------------------- MODULE EventStream ----------------------------
(***************************************************************************)
(* The events of one turn and who reads them: the notifications of Codex   *)
(* that BrokerTurnContext turns into rows of the events table, the text    *)
(* its StreamingSecretSanitizer holds back until it is flushed, those that *)
(* are buffered until the id of the turn is known and then replayed by the *)
(* reader thread or the worker, the worker that closes the turn's row, the *)
(* prunings and the recovery of a restart, and one client: a host on       *)
(* /events, a compatible Chat or Responses stream, or a request that waits *)
(* for the object of its turn.                                             *)
(*                                                                         *)
(* The text of an item is a number of pieces. What is held back is always  *)
(* its end, so an event carries an interval of pieces, numbered as they    *)
(* are handled. Event types that carry no text and that nobody builds an   *)
(* answer from are left out.                                               *)
(***************************************************************************)
EXTENDS Integers, Sequences, FiniteSets

CONSTANTS
  ItemCount,      (* how many output items the turn has                    *)
  PageSize,       (* the limit of list_events in the streams (100)         *)
  MaxEvents,      (* max_events_per_turn                                   *)
  BufferSize,     (* the notifications that are buffered for a turn (50)   *)
  Settings        (* the kinds of client, and the bounds of the turns they *)
                  (* are checked with: the pieces of text of an item, and  *)
                  (* whether a notification may lack the thread's id       *)

ASSUME StreamAssumption ==
  /\ ItemCount \in Nat
  /\ PageSize \in Nat \ {0}
  /\ MaxEvents \in Nat \ {0}
  /\ BufferSize \in Nat \ {0}
  /\ Settings \subseteq [kind : {"events", "compatible", "object"}, pieces : Nat, nameless : BOOLEAN]

Kinds == {setting.kind : setting \in Settings}
Items == 1 .. ItemCount
Unkeyed == -1
NoPage == [next |-> 1, last |-> 0]
Terminal == {"completed", "failed"}
Replayers == {"reader", "worker"}
Actors == Replayers \union {"finisher"}

VARIABLES
  (* The database.                                                         *)
  low,         (* the id of the newest event that was pruned               *)
  log,         (* the turn's events with greater ids, in the order of ids  *)
  row,         (* turns.status; "failed" is any end but "completed"        *)
  astray,      (* history: something but turn/completed has ended the turn,*)
               (* or a notification did not name the thread                *)
  (* Codex.                                                                *)
  bound,       (* the setting it is checked with                           *)
  rawItems,    (* whether it sends rawResponseItem/completed               *)
  sent,        (* the pieces of an item's text that have been handled      *)
  done,        (* the items it has completed                               *)
  usage,       (* whether it has reported token usage                      *)
  ended,       (* whether it has sent turn/completed                       *)
  (* AppServerClient: where notifications without the thread's id go.      *)
  stage,       (* of turn/start: starting, routed (turn/started has come)  *)
               (* or over (answered or failed)                             *)
  early,       (* _pending_notifications_by_turn                           *)
  replay,      (* what the reader thread and the worker took out of it     *)
  (* BrokerTurnContext.                                                    *)
  context,     (* registered with the client, detached, lost or none       *)
  held,        (* StreamingSecretSanitizer._pending: the pieces held back  *)
  meta,        (* the items in _stream_metadata                            *)
  todo,        (* what a thread has yet to do about a notification         *)
  final,       (* final_status, with completed_event                       *)
  (* The client.                                                           *)
  kind, phase,
  page,        (* the ids it was listed and has not been sent              *)
  cursor,      (* the last id it was sent                                  *)
  got,         (* history: the ids it was sent                             *)
  result       (* what a compatible client was answered in the end         *)

table == <<low, log, row>>
codex == <<bound, rawItems, sent, done, usage, ended>>
routing == <<stage, early, replay>>
buffers == <<held, meta, todo, routing>>
client == <<kind, phase, page, cursor, got, result>>
vars == <<table, astray, codex, context, buffers, final, client>>

LastId == low + Len(log)

-----------------------------------------------------------------------------
(* Events, and the work of a thread that produces them.                    *)

Delta(i, from, to) == [type |-> "delta", item |-> i, from |-> from, to |-> to]
Note(type, i) == [type |-> type, item |-> i]

Emit(event) == [op |-> "emit", event |-> event]
Remember(i) == [op |-> "remember", item |-> i]
Flush(texts) == IF texts = {} THEN <<>> ELSE <<[op |-> "flush", texts |-> texts]>>
Settle(status) == [op |-> "settle", status |-> status]

Held(i) == IF held[i] = Unkeyed THEN 0 ELSE held[i]

(* flush_item and flush_turn: take what is held back of these items ...    *)
Keyed(S) == {i \in S : held[i] # Unkeyed}
Taken(S) == [i \in Items |-> IF i \in S THEN Unkeyed ELSE held[i]]

(* ... to append it, one item after the other. (They come in the order in  *)
(* which their text began; any may be that.)                               *)
Flushes(S) == Flush({Delta(i, sent[i] - held[i] + 1, sent[i]) : i \in Keyed(S)})

(* Flush, then set the status and completed_event.                         *)
ClosingFirst(status) == <<Settle(status)>> \o Flushes(Items)
Closing(status) == Flushes(Items) \o <<Settle(status)>>

(* Streams begin with a page of events, other requests wait for the row.   *)
FirstPhase == IF kind = "object" THEN "check" ELSE "list"

Init ==
  /\ low = 0
  /\ log = <<>>
  /\ row = "running"
  /\ astray = FALSE
  /\ rawItems \in BOOLEAN
  /\ sent = [i \in Items |-> 0]
  /\ done = {}
  /\ usage = FALSE
  /\ ended = FALSE
  /\ stage = "starting"
  /\ early = <<>>
  /\ replay = [p \in Replayers |-> <<>>]
  /\ context = "registered"
  /\ held = [i \in Items |-> Unkeyed]
  /\ meta = {}
  /\ todo = [p \in Actors |-> <<>>]
  /\ final = "none"
  /\ bound \in Settings
  /\ kind = bound.kind
  /\ phase = FirstPhase
  /\ page = NoPage
  /\ cursor = 0
  /\ got = {}
  /\ result = "none"

-----------------------------------------------------------------------------
(* handle_notification, by the reader thread or in a replay.               *)

Does(p, jobs) == todo' = [todo EXCEPT ![p] = jobs]

(* A delta: the sanitizer decides how much of the end to hold back.        *)
HandleDelta(p, i) ==
  /\ sent' = [sent EXCEPT ![i] = @ + 1]
  /\ \E h \in 0 .. Held(i) + 1 :
       /\ held' = [held EXCEPT ![i] = h]
       /\ Does(p, <<Remember(i)>> \o
            (IF h = Held(i) + 1 THEN <<>>
             ELSE <<Emit(Delta(i, sent[i] - Held(i) + 1, sent[i] + 1 - h))>>))

(* item/completed, next to rawResponseItem/completed, whose item may carry *)
(* another id and then flushes nothing.                                    *)
ItemJobs(i) ==
  LET item == <<Emit(Note("item", i))>>
      raw == <<Emit(Note("raw", i))>> IN
  IF rawItems THEN {Flushes({i}) \o raw \o item, raw \o Flushes({i}) \o item, Flushes({i}) \o item \o raw}
  ELSE {Flushes({i}) \o item}

HandleItem(p, i) ==
  /\ held' = Taken({i})
  /\ \E jobs \in ItemJobs(i) : Does(p, jobs)
  /\ UNCHANGED sent

HandleUsage(p) ==
  /\ Does(p, <<Emit(Note("usage", 0))>>)
  /\ UNCHANGED <<sent, held>>

HandleEnd(p, status) ==
  /\ held' = Taken(Items)
  /\ Does(p, Closing(status))
  /\ UNCHANGED sent

-----------------------------------------------------------------------------
(* The reader thread of the App Server client, one notification after the  *)
(* other. One that has the thread's id goes to the context at once, as     *)
(* does any other once the turn's id is known.                             *)
Receives ==
  /\ context = "registered"
  /\ todo["reader"] = <<>> /\ replay["reader"] = <<>>
  /\ ~ended

ReceiveDelta(i) ==
  /\ Receives
  /\ i \notin done
  /\ sent[i] < bound.pieces
  /\ HandleDelta("reader", i)
  /\ UNCHANGED <<table, astray, bound, rawItems, done, usage, ended, routing, context, meta, final, client>>

ReceiveItem(i) ==
  /\ Receives
  /\ i \notin done
  /\ done' = done \union {i}
  /\ HandleItem("reader", i)
  /\ UNCHANGED <<table, astray, bound, rawItems, usage, ended, routing, context, meta, final, client>>

(* Codex completes a turn when its items are complete.                     *)
Whole(i) == sent[i] > 0 => i \in done
MayEnd(status) == status = "completed" => \A i \in Items : Whole(i)

ReceiveUsage ==
  /\ Receives
  /\ ~usage
  /\ MayEnd("completed")
  /\ usage' = TRUE
  /\ HandleUsage("reader")
  /\ UNCHANGED <<table, astray, bound, rawItems, done, ended, routing, context, meta, final, client>>

ReceiveEnd(status) ==
  /\ Receives
  /\ MayEnd(status)
  /\ ended' = TRUE
  /\ HandleEnd("reader", status)
  /\ UNCHANGED <<table, astray, bound, rawItems, done, usage, routing, context, meta, final, client>>

(* A notification with the turn's id alone, before that id is known, finds *)
(* no context. It is buffered a moment later, and the oldest goes when the *)
(* buffer is full; nobody reads it if the worker has taken the buffer in   *)
(* between. (An item and its raw item count as one.)                       *)
Kept(note) ==
  (IF Len(early) < BufferSize THEN early ELSE Tail(early)) \o <<note>>
Buffer(type, i) == early' \in {Kept(Note(type, i)), early}

ReceiveNameless ==
  /\ bound.nameless
  /\ Receives
  /\ stage = "starting"
  /\ \/ \E i \in Items \ done : Buffer("delta", i) /\ UNCHANGED <<done, usage, ended>>
     \/ \E i \in Items \ done : Buffer("item", i) /\ done' = done \union {i} /\ UNCHANGED <<usage, ended>>
     \/ ~usage /\ MayEnd("completed") /\ Buffer("usage", 0) /\ usage' = TRUE /\ UNCHANGED <<done, ended>>
     \/ \E status \in Terminal :
          MayEnd(status) /\ Buffer(status, 0) /\ ended' = TRUE /\ UNCHANGED <<done, usage>>
  /\ astray' = TRUE
  /\ UNCHANGED <<table, bound, rawItems, sent, stage, replay, context, held, meta, todo, final, client>>

(* register_turn_for_context, by the reader thread when it handles         *)
(* turn/started, or by the worker when turn/start is answered: what is     *)
(* buffered is taken under the lock, and replayed outside it.              *)
RegisterTurn(p) ==
  /\ replay' = [replay EXCEPT ![p] = early]
  /\ early' = <<>>
  /\ UNCHANGED <<table, astray, codex, context, held, meta, todo, final, client>>

(* (An empty buffer makes no difference.)                                  *)
TurnStarted ==
  /\ Receives
  /\ early # <<>>
  /\ stage = "starting"
  /\ stage' = "routed"
  /\ RegisterTurn("reader")

TurnAnswered ==
  /\ context = "registered"
  /\ stage \in {"starting", "routed"}
  /\ stage' = "over"
  /\ RegisterTurn("worker")

Handle(p, note) ==
  \/ \E i \in Items : note = Note("delta", i) /\ HandleDelta(p, i)
  \/ \E i \in Items : note = Note("item", i) /\ HandleItem(p, i)
  \/ note = Note("usage", 0) /\ HandleUsage(p)
  \/ \E status \in Terminal : note = Note(status, 0) /\ HandleEnd(p, status)

Replay(p) ==
  /\ replay[p] # <<>>
  /\ todo[p] = <<>>
  /\ Handle(p, Head(replay[p]))
  /\ replay' = [replay EXCEPT ![p] = Tail(@)]
  /\ UNCHANGED <<table, astray, bound, rawItems, done, usage, ended, stage, early, context, meta, final, client>>

(* finish(): an interrupt, a timeout or the end of the child. It looks at  *)
(* completed_event before it flushes, not after.                           *)
Finish ==
  /\ context \in {"registered", "detached"}
  /\ final = "none"
  /\ todo["finisher"] = <<>>
  /\ astray' = TRUE
  /\ held' = Taken(Items)
  /\ Does("finisher", Closing("failed"))
  /\ UNCHANGED <<table, codex, routing, context, meta, final, client>>

(* The next thing a thread does. A text that is flushed is appended if it  *)
(* is not empty and its item is known.                                     *)
Job(p) == Head(todo[p])
Rest(p) == Tail(todo[p])
Then(p, jobs) == todo' = [todo EXCEPT ![p] = jobs \o Rest(p)]

RememberItem(p) ==
  /\ Job(p).op = "remember"
  /\ meta' = meta \union {Job(p).item}
  /\ Then(p, <<>>)
  /\ UNCHANGED <<log, final>>

FlushText(p) ==
  /\ Job(p).op = "flush"
  /\ \E text \in Job(p).texts :
       LET left == Flush(Job(p).texts \ {text}) IN
       /\ meta' = meta \ {text.item}
       /\ Then(p, IF text.item \in meta /\ text.from <= text.to THEN <<Emit(text)>> \o left ELSE left)
  /\ UNCHANGED <<log, final>>

AppendEvent(p) ==
  /\ Job(p).op = "emit"
  /\ log' = Append(log, Job(p).event)
  /\ Then(p, <<>>)
  /\ UNCHANGED <<meta, final>>

SettleTurn(p) ==
  /\ Job(p).op = "settle"
  /\ final' = Job(p).status
  /\ Then(p, <<>>)
  /\ UNCHANGED <<log, meta>>

Perform(p) ==
  /\ todo[p] # <<>>
  /\ RememberItem(p) \/ FlushText(p) \/ AppendEvent(p) \/ SettleTurn(p)
  /\ UNCHANGED <<low, row, astray, codex, routing, context, held, client>>

-----------------------------------------------------------------------------
(* The row and the terminal event in one transaction.                      *)

FinalizeTurn(status) ==
  /\ row' = status
  /\ log' = Append(log, Note("end", 0))

(* By the worker, or by a caller that interrupts the turn.                 *)
Persist ==
  /\ context = "registered"
  /\ final # "none"
  /\ row = "running"
  /\ FinalizeTurn(final)
  /\ UNCHANGED <<low, astray, codex, context, buffers, final, client>>

(* The worker waits for the end of the turn when it has its answer and has *)
(* replayed what it took.                                                  *)
Replayed == replay["worker"] = <<>> /\ todo["worker"] = <<>>
WorkerPersists == stage = "over" /\ Replayed /\ Persist

(* An exception in _run_turn fails the row without the context. Its        *)
(* requests end with the answer to turn/start.                             *)
RunFails ==
  /\ context = "registered"
  /\ stage \in {"starting", "routed"}
  /\ row = "running"
  /\ FinalizeTurn("failed")
  /\ astray' = TRUE
  /\ stage' = "over"
  /\ UNCHANGED <<low, codex, early, replay, context, held, meta, todo, final, client>>

Detach ==
  /\ context = "registered"
  /\ row # "running"
  /\ Replayed
  /\ context' = "detached"
  /\ UNCHANGED <<table, astray, codex, buffers, final, client>>

-----------------------------------------------------------------------------
(* The broker ends, by a crash or a shutdown, and is started again.        *)
(* Bound: once.                                                            *)

HangUp ==
  /\ page' = NoPage
  /\ IF kind = "events"
       THEN phase' = "away" /\ UNCHANGED <<cursor, got>>
       ELSE phase' = "over" /\ cursor' = 0 /\ got' = {}

Crash ==
  /\ context \in {"registered", "detached"}
  /\ context' = "lost"
  /\ astray' = (astray \/ row = "running")
  /\ held' = [i \in Items |-> Unkeyed]
  /\ meta' = {}
  /\ todo' = [p \in Actors |-> <<>>]
  /\ final' = "none"
  /\ early' = <<>>
  /\ replay' = [p \in Replayers |-> <<>>]
  /\ HangUp
  /\ UNCHANGED <<table, codex, stage, kind, result>>

(* recover_incomplete_turns, and the prunings of what is older than the    *)
(* retention and of what exceeds MaxEvents.                                *)
RecoveredRow == IF row = "running" THEN "failed" ELSE row
RecoveredLog == IF row = "running" THEN Append(log, Note("end", 0)) ELSE log

(* The row is as old as its terminal event.                                *)
Ends(l) == {k \in DOMAIN l : l[k].type = "end"}
RowsLeft(n) ==
  IF \E k \in Ends(RecoveredLog) : k <= n THEN {"gone"}
  ELSE IF Ends(RecoveredLog) = {} THEN {RecoveredRow, "gone"}
  ELSE {RecoveredRow}

(* How many of the oldest events go, when n are too old.                   *)
Pruned(n) == IF Len(RecoveredLog) - n > MaxEvents THEN Len(RecoveredLog) - MaxEvents ELSE n

(* Ids are never used again.                                               *)
LowReused(n) == low
LowAfter(n) == low + Pruned(n)

Recover ==
  /\ context = "lost"
  /\ context' = "none"
  /\ \E n \in 0 .. Len(log) :
       /\ row' \in RowsLeft(n)
       /\ low' = LowAfter(n)
       /\ log' = SubSeq(RecoveredLog, Pruned(n) + 1, Len(RecoveredLog))
  /\ UNCHANGED <<astray, codex, buffers, final, client>>

-----------------------------------------------------------------------------
(* The client's handler thread: list a page, write its events one by one,  *)
(* and, in a compatible stream, look whether the row is terminal.          *)

NewestPage(after) ==
  LET first == IF after < low THEN low + 1 ELSE after + 1 IN
  [next |-> IF LastId - first >= PageSize THEN LastId - PageSize + 1 ELSE first, last |-> LastId]

PageAfter(after) ==
  LET first == IF after < low THEN low + 1 ELSE after + 1 IN
  [next |-> first, last |-> IF LastId - first >= PageSize THEN first + PageSize - 1 ELSE LastId]

CaughtUp == \A k \in DOMAIN log : low + k <= cursor

AtEndOf(p) ==
  IF p.next <= p.last THEN "write" ELSE IF kind = "events" THEN "list" ELSE "check"

List ==
  /\ phase = "list"
  /\ kind = "events" => ~CaughtUp
  /\ page' = PageAfter(cursor)
  /\ phase' = AtEndOf(PageAfter(cursor))
  /\ UNCHANGED <<table, astray, codex, context, buffers, final, kind, cursor, got, result>>

Advance ==
  /\ cursor' = page.next
  /\ got' = got \union {page.next}
  /\ page' = [page EXCEPT !.next = @ + 1]
  /\ phase' = AtEndOf(page')

SendEvent ==
  /\ phase = "write"
  /\ kind = "events"
  /\ Advance
  /\ UNCHANGED <<table, astray, codex, context, buffers, final, kind, result>>

(* A compatible stream sends what an event means in its protocol.          *)
Forward ==
  /\ phase = "write"
  /\ kind = "compatible"
  /\ Advance
  /\ UNCHANGED <<table, astray, codex, context, buffers, final, kind, result>>

(* A compatible stream sends nothing for most events.                      *)
IsSent(event) == kind = "events" \/ event.type \in {"delta", "raw"}

WriteFails ==
  /\ phase = "write"
  /\ IsSent(log[page.next - low])
  /\ HangUp
  /\ UNCHANGED <<table, astray, codex, context, buffers, final, kind, result>>

(* A host comes back with the last id it has received.                     *)
Reconnect ==
  /\ phase = "away"
  /\ context # "lost"
  /\ phase' = "list"
  /\ UNCHANGED <<table, astray, codex, context, buffers, final, kind, page, cursor, got, result>>

(* is_terminal, and what a compatible client does about it. A row is not   *)
(* pruned while a request is open.                                         *)
IsCompleted(status) == status = "completed"
IsTerminal(status) == status \in Terminal

(* What list_events returns for the object of a turn: the oldest events.   *)
FirstPageOnly == {log[k] : k \in {n \in DOMAIN log : n <= PageSize}}
ObjectEvents == {log[k] : k \in {n \in DOMAIN log : n <= MaxEvents}}

(* public_output_items.                                                    *)
ItemsNoted(E, type) == {i \in Items : Note(type, i) \in E}
OutputItems(E) ==
  IF ItemsNoted(E, "raw") # {} THEN ItemsNoted(E, "raw") ELSE ItemsNoted(E, "item")

(* What the object of a completed turn cannot be built without.            *)
HasUsage(E) == Note("usage", 0) \in E
ResponseObject(E) == OutputItems(E) # {} /\ HasUsage(E)
ChatObject(E) == HasUsage(E)

Outcome(built) ==
  IF row # "completed" THEN "failed" ELSE IF built THEN "completed" ELSE "error"

GoesOn ==
  /\ phase = "check"
  /\ kind = "compatible"
  /\ ~IsTerminal(row)
  /\ phase' = "list"
  /\ UNCHANGED <<table, astray, codex, context, buffers, final, kind, page, cursor, got, result>>

Answer(built) ==
  /\ phase = "check"
  /\ IsTerminal(row)
  /\ result' = Outcome(built)
  /\ HangUp
  /\ UNCHANGED <<table, astray, codex, context, buffers, final, kind>>

EndResponse == kind = "compatible" /\ Answer(ResponseObject(ObjectEvents))

(* include_usage: a chat stream needs the usage only if it is to be told.  *)
EndChat ==
  /\ kind = "compatible"
  /\ \E include \in BOOLEAN : Answer(include => HasUsage(ObjectEvents))

AnswerObject ==
  /\ kind = "object"
  /\ Answer(ResponseObject(ObjectEvents)) \/ Answer(ChatObject(ObjectEvents))

-----------------------------------------------------------------------------
Codex ==
  \/ \E i \in Items : ReceiveDelta(i) \/ ReceiveItem(i)
  \/ ReceiveUsage
  \/ \E status \in Terminal : ReceiveEnd(status)

Naming ==
  \/ ReceiveNameless
  \/ TurnStarted
  \/ TurnAnswered

Turn ==
  \/ \E p \in Replayers : Replay(p)
  \/ \E p \in Actors : Perform(p)
  \/ WorkerPersists
  \/ Detach

Write == SendEvent \/ Forward

Client ==
  \/ List
  \/ Write
  \/ Reconnect
  \/ GoesOn
  \/ EndResponse
  \/ EndChat
  \/ AnswerObject

Next ==
  \/ Codex
  \/ Naming
  \/ Finish
  \/ Persist
  \/ Turn
  \/ RunFails
  \/ Crash
  \/ Recover
  \/ Client
  \/ WriteFails

Spec == Init /\ [][Next]_vars

(* The threads of the broker run, a host that was cut off reconnects, and  *)
(* its connections do not break for ever before a byte has passed. Nothing *)
(* is assumed of Codex.                                                    *)
Fairness ==
  /\ WF_vars(Turn)
  /\ WF_vars(Recover)
  /\ WF_vars(Client)
  /\ SF_vars(Write)

FairSpec == Spec /\ Fairness

-----------------------------------------------------------------------------
(* Properties.                                                             *)

(* The database, the buffers and the client keep within their types; ids   *)
(* that were given out are never given out again.                          *)
TypeOK ==
  /\ low \in Nat
  /\ row \in {"running", "gone"} \union Terminal
  /\ astray \in BOOLEAN
  /\ rawItems \in BOOLEAN
  /\ sent \in [Items -> Nat]
  /\ done \subseteq Items
  /\ usage \in BOOLEAN
  /\ ended \in BOOLEAN
  /\ stage \in {"starting", "routed", "over"}
  /\ Len(early) <= BufferSize
  /\ context \in {"registered", "detached", "lost", "none"}
  /\ \A i \in Items : held[i] = Unkeyed \/ held[i] \in 0 .. sent[i]
  /\ meta \subseteq Items
  /\ final \in {"none"} \union Terminal
  /\ kind \in Kinds
  /\ phase \in {"list", "write", "check", "away", "over"}
  /\ cursor \in 0 .. LastId
  /\ page.last <= LastId
  /\ got \subseteq 1 .. cursor
  /\ result \in {"none", "completed", "failed", "error"}

(* Whatever is held back, flushed, replayed and raced for, no piece of a   *)
(* text is recorded twice. If every notification named the thread, and     *)
(* turn/completed has ended the turn, its terminal row is not seen before  *)
(* every piece Codex has sent is recorded, in order.                       *)
DeltaIds(i) == {k \in DOMAIN log : log[k].type = "delta" /\ log[k].item = i}
Carries(k, n) == log[k].from <= n /\ n <= log[k].to

TextPreserved ==
  \A i \in Items :
    /\ \A j, k \in DeltaIds(i) :
         j < k => IF astray THEN log[j].to < log[k].from \/ log[k].to < log[j].from
                  ELSE log[j].to < log[k].from
    /\ ~astray /\ row \in Terminal /\ low = 0 =>
         \A n \in 1 .. sent[i] : \E k \in DeltaIds(i) : Carries(k, n)

(* Over pages, broken connections and restarts the client misses no event  *)
(* that has not been pruned.                                               *)
StreamHasNoGaps == \A id \in low + 1 .. cursor : id \in got

(* Once the row of a turn is completed, the object that is built from its  *)
(* events has every item and the usage Codex has reported, as long as the  *)
(* turn keeps within max_events_per_turn: no client that asks in time for  *)
(* what Codex has said is told that it is missing.                         *)
CompletedIsWhole ==
  row = "completed" /\ ~astray /\ low = 0 /\ Len(log) <= MaxEvents =>
    /\ OutputItems(ObjectEvents) = done
    /\ usage => HasUsage(ObjectEvents)
    /\ usage /\ done # {} => result # "error"

(* A host on /events catches up with the turn, and a compatible client is  *)
(* answered once the turn has ended.                                       *)
StreamsServe ==
  []<>(IF kind = "events" THEN CaughtUp ELSE row = "running" \/ phase = "over")
=============================================================================
