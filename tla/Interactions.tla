---------------------------- MODULE Interactions ----------------------------
(***************************************************************************)
(* Requests of an App Server child that a host decides: approvals, user    *)
(* input, elicitations. Each is an object in the client's memory, whose    *)
(* event wakes the thread that answers the child, and a row that the host  *)
(* reads. The host, the timeout, the closing of the client and a restart   *)
(* race to settle it: first in memory, under the lock, then in the row.    *)
(*                                                                         *)
(* An answer stands for its response and its source: that of a host is its *)
(* own, all others are the safe response of the request's method.          *)
(***************************************************************************)
EXTENDS FiniteSets, HostResponses

CONSTANTS
  Requests,   (* requests of one child, and of its successors              *)
  Hosts,      (* resolve calls; each carries an answer of its own          *)
  MethodOf,   (* the method of a request                                   *)
  BodyOf,     (* the response that a resolve call carries                  *)
  NoAnswer, NoRequest

Fallbacks == {"fallback_timeout", "app_server_closed", "broker_restarted"}
Answers == Hosts \union Fallbacks

ASSUME InteractionAssumption ==
  /\ Hosts \intersect (Fallbacks \union {"absent", "pending", "unrecorded"}) = {}
  /\ NoAnswer \notin Answers \union {"absent", "pending", "unrecorded"}
  /\ NoRequest \notin Requests

ASSUME ResponseAssumption ==
  /\ MethodOf \in [Requests -> Methods]
  /\ BodyOf \in [Hosts -> Responses]

VARIABLES
  row,      (* pending_interactions: "absent", "pending" or the answer     *)
  up,       (* whether the broker runs                                     *)
  answer,   (* PendingServerInteraction: its event is set when there is one *)
  listed,   (* _pending_interactions                                       *)
  recorded, (* completed_in_state                                          *)
  at,       (* how far the thread that serves a request has come           *)
  sent,     (* history: what the child was told                            *)
  host,     (* the resolve calls                                           *)
  turn,     (* whether the turn's context is routed to, and is active      *)
  child,    (* whether its standard input is open                          *)
  closer,   (* how far the thread in close() has come, ...                 *)
  todo,     (* ... the requests it goes through ...                        *)
  holding   (* ... and the one it has settled and not yet recorded         *)

memory == <<answer, listed, recorded>>
closing == <<child, closer, todo, holding>>
vars == <<row, up, memory, at, sent, host, turn, closing>>

Stages == {"none", "asked", "created", "waiting", "answering", "recorded", "leaving", "over"}
HostStages == {"idle", "checked", "settled", "told"}

-----------------------------------------------------------------------------
Idle == [at |-> "idle", of |-> NoRequest]

Init ==
  /\ row = [i \in Requests |-> "absent"]
  /\ up = TRUE
  /\ answer = [i \in Requests |-> NoAnswer]
  /\ listed = {}
  /\ recorded = {}
  /\ at = [i \in Requests |-> "none"]
  /\ sent = [i \in Requests |-> NoAnswer]
  /\ host = [h \in Hosts |-> Idle]
  /\ turn = "running"
  /\ child = "open"
  /\ closer = "none"
  /\ todo = {}
  /\ holding = NoRequest

(* complete_interaction: only a pending row is updated.                    *)
Complete(i, a) == row' = [row EXCEPT ![i] = IF @ = "pending" THEN a ELSE @]

(* _complete_pending_interaction, and the end of a host's call.            *)
RecordAnswer(i) ==
  /\ IF i \in recorded THEN UNCHANGED row ELSE Complete(i, answer[i])
  /\ recorded' = recorded \union {i}

Move(i, from, to) ==
  /\ up
  /\ at[i] = from
  /\ at' = [at EXCEPT ![i] = to]

-----------------------------------------------------------------------------
(* The thread that serves a request.                                       *)

Ask(i) ==
  /\ Move(i, "none", "asked")
  /\ child = "open"
  /\ turn = "running"
  /\ UNCHANGED <<row, up, memory, sent, host, turn, closing>>

(* A request that no context answers to is declined at once.               *)
AskUnrouted(i) ==
  /\ Move(i, "none", "over")
  /\ child = "open"
  /\ sent' = [sent EXCEPT ![i] = "unrecorded"]
  /\ UNCHANGED <<row, up, memory, host, turn, closing>>

CreateRow(i) ==
  /\ Move(i, "asked", "created")
  /\ row' = [row EXCEPT ![i] = "pending"]
  /\ UNCHANGED <<up, memory, sent, host, turn, closing>>

Enlist(i) ==
  /\ Move(i, "created", "waiting")
  /\ listed' = listed \union {i}
  /\ UNCHANGED <<row, up, answer, recorded, sent, host, turn, closing>>

Wake(i) ==
  /\ Move(i, "waiting", "answering")
  /\ answer[i] # NoAnswer
  /\ UNCHANGED <<row, up, memory, sent, host, turn, closing>>

(* The wait has expired: an answer that came meanwhile is kept.            *)
ExpiredUnanswered(i) == answer[i]
ExpiredBlindly(i) == "fallback_timeout"
Expired(i) == IF answer[i] # NoAnswer THEN answer[i] ELSE "fallback_timeout"

NoTimeOut(i) == FALSE
MayTimeOut(i) == at[i] = "waiting"

TimeOut(i) ==
  /\ MayTimeOut(i)
  /\ Move(i, "waiting", "answering")
  /\ answer' = [answer EXCEPT ![i] = Expired(i)]
  /\ UNCHANGED <<row, up, listed, recorded, sent, host, turn, closing>>

Record(i) ==
  /\ Move(i, "answering", "recorded")
  /\ RecordAnswer(i)
  /\ UNCHANGED <<up, answer, listed, sent, host, turn, closing>>

SendAnswer(i) ==
  /\ Move(i, "recorded", "leaving")
  /\ sent' = IF child = "open" THEN [sent EXCEPT ![i] = answer[i]] ELSE sent
  /\ UNCHANGED <<row, up, memory, host, turn, closing>>

Leave(i) ==
  /\ Move(i, "leaving", "over")
  /\ listed' = listed \ {i}
  /\ UNCHANGED <<row, up, answer, recorded, sent, host, turn, closing>>

-----------------------------------------------------------------------------
(* resolve_interaction. The row is read, the response validated and the    *)
(* active context read first; an answer that is not valid is refused, one  *)
(* that comes too late is a conflict, and neither changes anything.        *)

AcceptsAny(m, r) == TRUE
Accepts(m, r) == Valid(m, r)

Check(h, i) ==
  /\ up
  /\ host[h] = Idle
  /\ row[i] = "pending"
  /\ Accepts(MethodOf[i], BodyOf[h])
  /\ turn # "over"
  /\ host' = [host EXCEPT ![h] = [at |-> "checked", of |-> i]]
  /\ UNCHANGED <<row, up, memory, at, sent, turn, closing>>

SettleableTwice(i) == i \in listed
Settleable(i) == i \in listed /\ answer[i] = NoAnswer

Settle(h) ==
  /\ up
  /\ host[h].at = "checked"
  /\ IF Settleable(host[h].of)
       THEN /\ answer' = [answer EXCEPT ![host[h].of] = h]
            /\ host' = [host EXCEPT ![h].at = "settled"]
       ELSE /\ host' = [host EXCEPT ![h] = Idle]
            /\ UNCHANGED answer
  /\ UNCHANGED <<row, up, listed, recorded, at, sent, turn, closing>>

(* Success is reported with the row as it now is.                          *)
RecordForHost(h) ==
  /\ up
  /\ host[h].at = "settled"
  /\ Complete(host[h].of, h)
  /\ recorded' = recorded \union {host[h].of}
  /\ host' = [host EXCEPT ![h].at = "told"]
  /\ UNCHANGED <<up, answer, listed, at, sent, turn, closing>>

-----------------------------------------------------------------------------
(* The turn ends: its context is no longer routed to, then not active.     *)
EndTurn ==
  /\ up
  /\ \/ turn = "running" /\ turn' = "unrouted"
     \/ turn = "unrouted" /\ turn' = "over"
  /\ UNCHANGED <<row, up, memory, at, sent, host, closing>>

(* The child exits, which cancels nothing: its requests run out.           *)
Exit ==
  /\ up
  /\ child = "open"
  /\ child' = "gone"
  /\ UNCHANGED <<row, up, memory, at, sent, host, turn, closer, todo, holding>>

(* close(): standard input, then each request there is at that time.       *)
BeginClose ==
  /\ up
  /\ closer = "none"
  /\ closer' = "begun"
  /\ child' = "gone"
  /\ UNCHANGED <<row, up, memory, at, sent, host, turn, todo, holding>>

CancelPending ==
  /\ up
  /\ closer = "begun"
  /\ closer' = "cancelling"
  /\ todo' = listed
  /\ UNCHANGED <<row, up, memory, at, sent, host, turn, child, holding>>

CancelOne(i) ==
  /\ up
  /\ i \in todo
  /\ holding = NoRequest
  /\ todo' = todo \ {i}
  /\ IF answer[i] # NoAnswer
       THEN UNCHANGED <<answer, holding>>
       ELSE /\ answer' = [answer EXCEPT ![i] = "app_server_closed"]
            /\ holding' = i
  /\ UNCHANGED <<row, up, listed, recorded, at, sent, host, turn, child, closer>>

RecordCancelled ==
  /\ up
  /\ holding # NoRequest
  /\ RecordAnswer(holding)
  /\ holding' = NoRequest
  /\ UNCHANGED <<up, answer, listed, at, sent, host, turn, child, closer, todo>>

-----------------------------------------------------------------------------
(* The process ends with its memory and its children; the rows stay.       *)
Crash ==
  /\ up
  /\ up' = FALSE
  /\ answer' = [i \in Requests |-> NoAnswer]
  /\ listed' = {}
  /\ recorded' = {}
  /\ at' = [i \in Requests |-> IF at[i] = "none" THEN "none" ELSE "over"]
  /\ host' = [h \in Hosts |-> IF host[h].at = "told" THEN host[h] ELSE Idle]
  /\ child' = "gone"
  /\ closer' = "none"
  /\ todo' = {}
  /\ holding' = NoRequest
  /\ UNCHANGED <<row, sent, turn>>

(* recover_pending_interactions, before the broker listens again; another  *)
(* turn of another child may then make the requests that are left.         *)
NotRecovered == {}
Recovered == {i \in Requests : row[i] = "pending"}

Recover ==
  /\ ~up
  /\ up' = TRUE
  /\ row' = [i \in Requests |-> IF i \in Recovered THEN "broker_restarted" ELSE row[i]]
  /\ turn' = "running"
  /\ child' = "open"
  /\ UNCHANGED <<memory, at, sent, host, closer, todo, holding>>

-----------------------------------------------------------------------------
Serve(i) ==
  \/ CreateRow(i)
  \/ Enlist(i)
  \/ Wake(i)
  \/ TimeOut(i)
  \/ Record(i)
  \/ SendAnswer(i)
  \/ Leave(i)

Close ==
  \/ CancelPending
  \/ \E i \in Requests : CancelOne(i)
  \/ RecordCancelled

Next ==
  \/ \E i \in Requests : Ask(i) \/ AskUnrouted(i) \/ Serve(i)
  \/ \E h \in Hosts : (\E i \in Requests : Check(h, i)) \/ Settle(h) \/ RecordForHost(h)
  \/ EndTurn
  \/ Exit
  \/ BeginClose
  \/ Close
  \/ Crash
  \/ Recover

Spec == Init /\ [][Next]_vars

(* Waits have a timeout, so that a thread that serves a request is never   *)
(* blocked for ever. Hosts, children and closing threads owe nothing.      *)
FairSpec ==
  /\ Spec
  /\ \A i \in Requests : WF_vars(Serve(i))
  /\ WF_vars(Recover)

-----------------------------------------------------------------------------
(* Properties.                                                             *)

TypeOK ==
  /\ row \in [Requests -> {"absent", "pending"} \union Answers]
  /\ up \in BOOLEAN
  /\ answer \in [Requests -> Answers \union {NoAnswer}]
  /\ listed \subseteq Requests
  /\ recorded \subseteq Requests
  /\ at \in [Requests -> Stages]
  /\ sent \in [Requests -> Answers \union {"unrecorded", NoAnswer}]
  /\ host \in [Hosts -> [at : HostStages, of : Requests \union {NoRequest}]]
  /\ turn \in {"running", "unrouted", "over"}
  /\ child \in {"open", "gone"}
  /\ closer \in {"none", "begun", "cancelling"}
  /\ todo \subseteq Requests
  /\ holding \in Requests \union {NoRequest}

(* A host that is told "resolved" has decided: the row holds its answer    *)
(* for good, and no other caller, timeout, closing thread or restart.      *)
HostTold == \A h \in Hosts : host[h].at = "told" => row[host[h].of] = h

(* One verdict for a request, and Codex is told the one on record, in      *)
(* whatever order memory, row and pipe are written and lost.               *)
verdict == [i \in Requests |-> IF row[i] \in Answers THEN row[i] ELSE NoAnswer]

Promise == INSTANCE AnsweredOnce
  WITH Verdicts <- Answers, Unrecorded <- "unrecorded", delivered <- sent

ImplementsAnsweredOnce == Promise!Spec

(* Whoever settles a request, and however memory, row and pipe are raced   *)
(* for, Codex is told a response that is valid for what it asked, and one  *)
(* that lets it go on only if a host has said so: to fail is to decline.   *)
ToldResponse(i) ==
  IF sent[i] \in Hosts THEN Validated(MethodOf[i], BodyOf[sent[i]]) ELSE SafeResponse(MethodOf[i])

OnlyHostsGrant ==
  \A i \in Requests :
    sent[i] # NoAnswer =>
      /\ Valid(MethodOf[i], ToldResponse(i))
      /\ Grants(MethodOf[i], ToldResponse(i)) => sent[i] \in Hosts /\ row[i] = sent[i]

(* A row does not stay pending: an answer, the timeout or the restart      *)
(* settles it, whoever the host and the child are.                         *)
RowsSettle == \A i \in Requests : row[i] = "pending" ~> row[i] \in Answers

(* Codex is never left waiting: a child that stays gets an answer.         *)
RequestsAnswered ==
  \A i \in Requests : at[i] = "asked" ~> sent[i] # NoAnswer \/ child = "gone"
=============================================================================
