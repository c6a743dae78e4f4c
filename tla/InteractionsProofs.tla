------------------------- MODULE InteractionsProofs -------------------------
(***************************************************************************)
(* Proofs about the requests that a host decides, for any numbers of       *)
(* requests and resolve calls: what a host is told is on record, and the   *)
(* races for memory, row and pipe implement AnsweredOnce.                  *)
(***************************************************************************)
EXTENDS Interactions, TLAPS

InService == {"waiting", "answering", "recorded", "leaving"}

(* What is known of one request's row, by the stage of its thread.         *)
RowByStage ==
  \A i \in Requests :
    /\ at[i] \in {"none", "asked"} => row[i] = "absent" /\ sent[i] = NoAnswer
    /\ at[i] \in {"none", "asked", "created"} => answer[i] = NoAnswer
    /\ at[i] = "created" => row[i] = "pending"
    /\ at[i] \in InService => row[i] # "absent"
    /\ at[i] \in {"created", "waiting", "answering", "recorded"} => sent[i] = NoAnswer
    /\ at[i] \in {"answering", "recorded", "leaving"} => answer[i] # NoAnswer
    /\ at[i] = "recorded" => row[i] = answer[i]
    /\ at[i] \in InService => i \in listed
    /\ i \in listed => at[i] \in InService

(* An answer in memory is the answer of the row, once that has one.        *)
MemoryAgrees ==
  \A i \in Requests :
    /\ answer[i] # NoAnswer => row[i] \in {"pending", answer[i]}
    /\ i \in listed /\ row[i] \in Answers => answer[i] # NoAnswer
    /\ i \in todo /\ answer[i] = NoAnswer => i \in listed
    /\ i \in recorded => answer[i] # NoAnswer /\ row[i] = answer[i]

(* Whoever has settled a request finds its own answer there.               *)
SettlersAgree ==
  /\ \A h \in Hosts : host[h].at \in {"checked", "settled", "told"} => host[h].of \in Requests
  /\ \A h \in Hosts : host[h].at = "settled" => answer[host[h].of] = h
  /\ holding # NoRequest => answer[holding] = "app_server_closed"

SentAgrees ==
  \A i \in Requests :
    /\ sent[i] \in Answers => row[i] = sent[i]
    /\ sent[i] = "unrecorded" => row[i] = "absent" /\ at[i] = "over"

DownIsEmpty ==
  ~up => /\ \A i \in Requests : answer[i] = NoAnswer /\ at[i] \in {"none", "over"}
         /\ listed = {} /\ recorded = {} /\ todo = {} /\ holding = NoRequest
         /\ \A h \in Hosts : host[h].at \in {"idle", "told"}

AnswerInv ==
  /\ TypeOK
  /\ RowByStage
  /\ MemoryAgrees
  /\ SettlersAgree
  /\ SentAgrees
  /\ DownIsEmpty
  /\ HostTold

LEMMA AnswersAreNot ==
  /\ "absent" \notin Answers /\ "pending" \notin Answers /\ "unrecorded" \notin Answers
  /\ NoAnswer \notin Answers /\ NoAnswer \notin {"absent", "pending", "unrecorded"}
  /\ Hosts \subseteq Answers /\ "app_server_closed" \in Answers
  /\ "fallback_timeout" \in Answers /\ "broker_restarted" \in Answers
  /\ \A h \in Hosts : h # "pending" /\ h # "absent"
  BY InteractionAssumption DEF Answers, Fallbacks

LEMMA AnswerInit == Init => AnswerInv
  BY AnswersAreNot DEF Init, Idle, AnswerInv, TypeOK, RowByStage, InService, MemoryAgrees, SettlersAgree,
     SentAgrees, DownIsEmpty, HostTold, Stages, HostStages

(* The child asks.                                                         *)
LEMMA AskStep ==
  ASSUME AnswerInv, NEW i \in Requests, Ask(i) \/ AskUnrouted(i)
  PROVE  AnswerInv'
<1> USE AnswersAreNot, InteractionAssumption DEF AnswerInv
<1>1. TypeOK'
  BY DEF TypeOK, SettlersAgree, Ask, AskUnrouted, Move, memory, closing, Stages, HostStages
<1>2. RowByStage'
  BY DEF RowByStage, TypeOK, MemoryAgrees, DownIsEmpty, SentAgrees, Ask, AskUnrouted, Move,
     memory, closing, InService
<1>3. MemoryAgrees'
  BY DEF MemoryAgrees, TypeOK, RowByStage, SettlersAgree, DownIsEmpty, Ask, AskUnrouted, Move,
     memory, closing, InService
<1>4. SettlersAgree'
  BY DEF SettlersAgree, TypeOK, MemoryAgrees, RowByStage, DownIsEmpty, Ask, AskUnrouted, Move,
     memory, closing
<1>5. SentAgrees'
  BY DEF SentAgrees, TypeOK, RowByStage, MemoryAgrees, Ask, AskUnrouted, Move, memory, closing,
     InService
<1>6. DownIsEmpty'
  BY DEF DownIsEmpty, TypeOK, Ask, AskUnrouted, Move, memory, closing, InService
<1>7. HostTold'
  BY DEF HostTold, TypeOK, MemoryAgrees, SettlersAgree, RowByStage, SentAgrees, Ask,
     AskUnrouted, Move, memory, closing
<1> QED
  BY <1>1, <1>2, <1>3, <1>4, <1>5, <1>6, <1>7

(* The request is written, then listed; an answer wakes its thread.        *)
LEMMA CreateStep ==
  ASSUME AnswerInv, NEW i \in Requests, CreateRow(i) \/ Enlist(i) \/ Wake(i)
  PROVE  AnswerInv'
<1> USE AnswersAreNot, InteractionAssumption DEF AnswerInv
<1>1. TypeOK'
  BY DEF TypeOK, SettlersAgree, CreateRow, Enlist, Wake, Move, memory, closing, Stages, HostStages
<1>2. RowByStage'
  BY DEF RowByStage, TypeOK, MemoryAgrees, DownIsEmpty, SentAgrees, CreateRow, Enlist, Wake,
     Move, memory, closing, InService
<1>3. MemoryAgrees'
  BY DEF MemoryAgrees, TypeOK, RowByStage, SettlersAgree, DownIsEmpty, CreateRow, Enlist, Wake,
     Move, memory, closing, InService
<1>4. SettlersAgree'
  BY DEF SettlersAgree, TypeOK, MemoryAgrees, RowByStage, DownIsEmpty, CreateRow, Enlist, Wake,
     Move, memory, closing
<1>5. SentAgrees'
  BY DEF SentAgrees, TypeOK, RowByStage, MemoryAgrees, CreateRow, Enlist, Wake, Move, memory,
     closing, InService
<1>6. DownIsEmpty'
  BY DEF DownIsEmpty, TypeOK, CreateRow, Enlist, Wake, Move, memory, closing, InService
<1>7. HostTold'
  BY DEF HostTold, TypeOK, MemoryAgrees, SettlersAgree, RowByStage, SentAgrees, CreateRow,
     Enlist, Wake, Move, memory, closing
<1> QED
  BY <1>1, <1>2, <1>3, <1>4, <1>5, <1>6, <1>7

(* The wait runs out: under the lock, an answer that is there is kept.     *)
LEMMA TimeOutStep ==
  ASSUME AnswerInv, NEW i \in Requests, TimeOut(i)
  PROVE  AnswerInv'
<1> USE AnswersAreNot, InteractionAssumption DEF AnswerInv
<1>1. TypeOK'
  BY DEF TypeOK, SettlersAgree, TimeOut, Expired, Move, closing, Stages, HostStages
<1>2. RowByStage'
  BY DEF RowByStage, TypeOK, MemoryAgrees, DownIsEmpty, SentAgrees, TimeOut, Expired, Move,
     closing, InService
<1>3. MemoryAgrees'
  BY DEF MemoryAgrees, TypeOK, RowByStage, SettlersAgree, DownIsEmpty, TimeOut, Expired, Move,
     closing, InService
<1>4. SettlersAgree'
  BY DEF SettlersAgree, TypeOK, MemoryAgrees, RowByStage, DownIsEmpty, TimeOut, Expired, Move,
     closing
<1>5. SentAgrees'
  BY DEF SentAgrees, TypeOK, RowByStage, MemoryAgrees, TimeOut, Expired, Move, closing, InService
<1>6. DownIsEmpty'
  BY DEF DownIsEmpty, TypeOK, TimeOut, Expired, Move, closing, InService
<1>7. HostTold'
  BY DEF HostTold, TypeOK, MemoryAgrees, SettlersAgree, RowByStage, SentAgrees, TimeOut,
     Expired, Move, closing
<1> QED
  BY <1>1, <1>2, <1>3, <1>4, <1>5, <1>6, <1>7

(* The thread records what it will send.                                   *)
LEMMA RecordStep ==
  ASSUME AnswerInv, NEW i \in Requests, Record(i)
  PROVE  AnswerInv'
<1> USE AnswersAreNot, InteractionAssumption DEF AnswerInv
<1>1. TypeOK'
  BY DEF TypeOK, RowByStage, Record, RecordAnswer, Complete, Move, closing, Stages, HostStages
<1>2. RowByStage'
  BY DEF RowByStage, TypeOK, MemoryAgrees, DownIsEmpty, SentAgrees, Record, RecordAnswer,
     Complete, Move, closing, InService
<1>3. MemoryAgrees'
  BY DEF MemoryAgrees, TypeOK, RowByStage, SettlersAgree, DownIsEmpty, Record, RecordAnswer,
     Complete, Move, closing, InService
<1>4. SettlersAgree'
  BY DEF SettlersAgree, TypeOK, MemoryAgrees, RowByStage, DownIsEmpty, Record, RecordAnswer,
     Complete, Move, closing
<1>5. SentAgrees'
  BY DEF SentAgrees, TypeOK, RowByStage, MemoryAgrees, Record, RecordAnswer, Complete, Move,
     closing, InService
<1>6. DownIsEmpty'
  BY DEF DownIsEmpty, TypeOK, Record, RecordAnswer, Complete, Move, closing, InService
<1>7. HostTold'
  BY DEF HostTold, TypeOK, MemoryAgrees, SettlersAgree, RowByStage, SentAgrees, Record,
     RecordAnswer, Complete, Move, closing
<1> QED
  BY <1>1, <1>2, <1>3, <1>4, <1>5, <1>6, <1>7

(* The thread sends the answer, or finds the pipe closed, and leaves.      *)
LEMMA SendStep ==
  ASSUME AnswerInv, NEW i \in Requests, SendAnswer(i) \/ Leave(i)
  PROVE  AnswerInv'
<1> USE AnswersAreNot, InteractionAssumption DEF AnswerInv
<1>1. TypeOK'
  BY DEF TypeOK, SettlersAgree, SendAnswer, Leave, Move, memory, closing, Stages, HostStages
<1>2. RowByStage'
  BY DEF RowByStage, TypeOK, MemoryAgrees, DownIsEmpty, SentAgrees, SendAnswer, Leave, Move,
     memory, closing, InService
<1>3. MemoryAgrees'
  BY DEF MemoryAgrees, TypeOK, RowByStage, SettlersAgree, DownIsEmpty, SendAnswer, Leave, Move,
     memory, closing, InService
<1>4. SettlersAgree'
  BY DEF SettlersAgree, TypeOK, MemoryAgrees, RowByStage, DownIsEmpty, SendAnswer, Leave, Move,
     memory, closing
<1>5. SentAgrees'
  BY DEF SentAgrees, TypeOK, RowByStage, MemoryAgrees, SendAnswer, Leave, Move, memory,
     closing, InService
<1>6. DownIsEmpty'
  BY DEF DownIsEmpty, TypeOK, SendAnswer, Leave, Move, memory, closing, InService
<1>7. HostTold'
  BY DEF HostTold, TypeOK, MemoryAgrees, SettlersAgree, RowByStage, SentAgrees, SendAnswer,
     Leave, Move, memory, closing
<1> QED
  BY <1>1, <1>2, <1>3, <1>4, <1>5, <1>6, <1>7

(* A resolve call reads the row and the active context.                    *)
LEMMA CheckStep ==
  ASSUME AnswerInv, NEW h \in Hosts, NEW i \in Requests, Check(h, i)
  PROVE  AnswerInv'
<1> USE AnswersAreNot, InteractionAssumption DEF AnswerInv
<1>1. TypeOK'
  BY DEF TypeOK, SettlersAgree, Check, memory, closing, Idle, Stages, HostStages
<1>2. RowByStage'
  BY DEF RowByStage, TypeOK, MemoryAgrees, DownIsEmpty, SentAgrees, Check, memory, closing,
     Idle, InService
<1>3. MemoryAgrees'
  BY DEF MemoryAgrees, TypeOK, RowByStage, SettlersAgree, DownIsEmpty, Check, memory, closing,
     Idle, InService
<1>4. SettlersAgree'
  BY DEF SettlersAgree, TypeOK, MemoryAgrees, RowByStage, DownIsEmpty, Check, memory, closing,
     Idle
<1>5. SentAgrees'
  BY DEF SentAgrees, TypeOK, RowByStage, MemoryAgrees, Check, memory, closing, Idle, InService
<1>6. DownIsEmpty'
  BY DEF DownIsEmpty, TypeOK, Check, memory, closing, Idle, InService
<1>7. HostTold'
  BY DEF HostTold, TypeOK, MemoryAgrees, SettlersAgree, RowByStage, SentAgrees, Check, memory,
     closing, Idle
<1> QED
  BY <1>1, <1>2, <1>3, <1>4, <1>5, <1>6, <1>7

(* It settles the request in memory, or comes too late.                    *)
LEMMA SettleStep ==
  ASSUME AnswerInv, NEW h \in Hosts, Settle(h)
  PROVE  AnswerInv'
<1> USE AnswersAreNot, InteractionAssumption DEF AnswerInv
<1>1. TypeOK'
  BY DEF TypeOK, SettlersAgree, Settle, Settleable, closing, Idle, Stages, HostStages
<1>2. RowByStage'
  BY DEF RowByStage, TypeOK, MemoryAgrees, DownIsEmpty, SentAgrees, Settle, Settleable,
     closing, Idle, InService
<1>3. MemoryAgrees'
  BY DEF MemoryAgrees, TypeOK, RowByStage, SettlersAgree, DownIsEmpty, Settle, Settleable,
     closing, Idle, InService
<1>4. SettlersAgree'
  BY DEF SettlersAgree, TypeOK, MemoryAgrees, RowByStage, DownIsEmpty, Settle, Settleable,
     closing, Idle
<1>5. SentAgrees'
  BY DEF SentAgrees, TypeOK, RowByStage, MemoryAgrees, Settle, Settleable, closing, Idle,
     InService
<1>6. DownIsEmpty'
  BY DEF DownIsEmpty, TypeOK, Settle, Settleable, closing, Idle, InService
<1>7. HostTold'
  BY DEF HostTold, TypeOK, MemoryAgrees, SettlersAgree, RowByStage, SentAgrees, Settle,
     Settleable, closing, Idle
<1> QED
  BY <1>1, <1>2, <1>3, <1>4, <1>5, <1>6, <1>7

(* It records its answer and reports success.                              *)
LEMMA RecordHostStep ==
  ASSUME AnswerInv, NEW h \in Hosts, RecordForHost(h)
  PROVE  AnswerInv'
<1> USE AnswersAreNot, InteractionAssumption DEF AnswerInv
<1>1. TypeOK'
  BY DEF TypeOK, SettlersAgree, RecordForHost, Complete, closing, Stages, HostStages
<1>2. RowByStage'
  BY DEF RowByStage, TypeOK, MemoryAgrees, SettlersAgree, SentAgrees, RecordForHost, Complete,
     closing, InService
<1>3. MemoryAgrees'
  BY DEF MemoryAgrees, TypeOK, RowByStage, SettlersAgree, DownIsEmpty, RecordForHost, Complete,
     closing, InService
<1>4. SettlersAgree'
  BY DEF SettlersAgree, TypeOK, MemoryAgrees, RowByStage, DownIsEmpty, RecordForHost, Complete,
     closing
<1>5. SentAgrees'
  BY DEF SentAgrees, TypeOK, RowByStage, MemoryAgrees, RecordForHost, Complete, closing, InService
<1>6. DownIsEmpty'
  BY DEF DownIsEmpty, TypeOK, RecordForHost, Complete, closing, InService
<1>7. HostTold'
  BY DEF HostTold, TypeOK, MemoryAgrees, SettlersAgree, RowByStage, SentAgrees, RecordForHost,
     Complete, closing
<1> QED
  BY <1>1, <1>2, <1>3, <1>4, <1>5, <1>6, <1>7

(* The turn, the child or the client ends.                                 *)
LEMMA CloseStep ==
  ASSUME AnswerInv, EndTurn \/ Exit \/ BeginClose \/ CancelPending
  PROVE  AnswerInv'
<1> USE AnswersAreNot, InteractionAssumption DEF AnswerInv
<1>1. TypeOK'
  BY DEF TypeOK, SettlersAgree, EndTurn, Exit, BeginClose, CancelPending, memory, closing,
     Stages, HostStages
<1>2. RowByStage'
  BY DEF RowByStage, TypeOK, MemoryAgrees, DownIsEmpty, SentAgrees, EndTurn, Exit, BeginClose,
     CancelPending, memory, closing, InService
<1>3. MemoryAgrees'
  BY DEF MemoryAgrees, TypeOK, RowByStage, SettlersAgree, DownIsEmpty, EndTurn, Exit,
     BeginClose, CancelPending, memory, closing, InService
<1>4. SettlersAgree'
  BY DEF SettlersAgree, TypeOK, MemoryAgrees, RowByStage, DownIsEmpty, EndTurn, Exit,
     BeginClose, CancelPending, memory, closing
<1>5. SentAgrees'
  BY DEF SentAgrees, TypeOK, RowByStage, MemoryAgrees, EndTurn, Exit, BeginClose,
     CancelPending, memory, closing, InService
<1>6. DownIsEmpty'
  BY DEF DownIsEmpty, TypeOK, EndTurn, Exit, BeginClose, CancelPending, memory, closing, InService
<1>7. HostTold'
  BY DEF HostTold, TypeOK, MemoryAgrees, SettlersAgree, RowByStage, SentAgrees, EndTurn, Exit,
     BeginClose, CancelPending, memory, closing
<1> QED
  BY <1>1, <1>2, <1>3, <1>4, <1>5, <1>6, <1>7

(* close() settles a request of its snapshot.                              *)
LEMMA CancelStep ==
  ASSUME AnswerInv, NEW i \in Requests, CancelOne(i)
  PROVE  AnswerInv'
<1> USE AnswersAreNot, InteractionAssumption DEF AnswerInv
<1>1. TypeOK'
  BY DEF TypeOK, SettlersAgree, CancelOne, Stages, HostStages
<1>2. RowByStage'
  BY DEF RowByStage, TypeOK, MemoryAgrees, DownIsEmpty, SentAgrees, CancelOne, InService
<1>3. MemoryAgrees'
  BY DEF MemoryAgrees, TypeOK, RowByStage, SettlersAgree, DownIsEmpty, CancelOne, InService
<1>4. SettlersAgree'
  BY DEF SettlersAgree, TypeOK, MemoryAgrees, RowByStage, DownIsEmpty, CancelOne
<1>5. SentAgrees'
  BY DEF SentAgrees, TypeOK, RowByStage, MemoryAgrees, CancelOne, InService
<1>6. DownIsEmpty'
  BY DEF DownIsEmpty, TypeOK, CancelOne, InService
<1>7. HostTold'
  BY DEF HostTold, TypeOK, MemoryAgrees, SettlersAgree, RowByStage, SentAgrees, CancelOne
<1> QED
  BY <1>1, <1>2, <1>3, <1>4, <1>5, <1>6, <1>7

(* close() records the fallback it has settled.                            *)
LEMMA RecordCancelledStep ==
  ASSUME AnswerInv, RecordCancelled
  PROVE  AnswerInv'
<1> USE AnswersAreNot, InteractionAssumption DEF AnswerInv
<1>1. TypeOK'
  BY DEF TypeOK, SettlersAgree, RecordCancelled, RecordAnswer, Complete, Stages, HostStages
<1>2. RowByStage'
  BY DEF RowByStage, TypeOK, MemoryAgrees, SettlersAgree, SentAgrees, RecordCancelled,
     RecordAnswer, Complete, InService
<1>3. MemoryAgrees'
  BY DEF MemoryAgrees, TypeOK, RowByStage, SettlersAgree, DownIsEmpty, RecordCancelled,
     RecordAnswer, Complete, InService
<1>4. SettlersAgree'
  BY DEF SettlersAgree, TypeOK, MemoryAgrees, RowByStage, DownIsEmpty, RecordCancelled,
     RecordAnswer, Complete
<1>5. SentAgrees'
  BY DEF SentAgrees, TypeOK, RowByStage, MemoryAgrees, RecordCancelled, RecordAnswer, Complete,
     InService
<1>6. DownIsEmpty'
  BY DEF DownIsEmpty, TypeOK, RecordCancelled, RecordAnswer, Complete, InService
<1>7. HostTold'
  BY DEF HostTold, TypeOK, MemoryAgrees, SettlersAgree, RowByStage, SentAgrees,
     RecordCancelled, RecordAnswer, Complete
<1> QED
  BY <1>1, <1>2, <1>3, <1>4, <1>5, <1>6, <1>7

(* Memory is lost.                                                         *)
LEMMA CrashStep ==
  ASSUME AnswerInv, Crash
  PROVE  AnswerInv'
<1> USE AnswersAreNot, InteractionAssumption DEF AnswerInv
<1>1. TypeOK'
  BY DEF TypeOK, SettlersAgree, Crash, Idle, Stages, HostStages
<1>2. RowByStage'
  BY DEF RowByStage, TypeOK, MemoryAgrees, DownIsEmpty, SentAgrees, Crash, Idle, InService
<1>3. MemoryAgrees'
  BY DEF MemoryAgrees, TypeOK, RowByStage, SettlersAgree, DownIsEmpty, Crash, Idle, InService
<1>4. SettlersAgree'
  BY DEF SettlersAgree, TypeOK, MemoryAgrees, RowByStage, DownIsEmpty, Crash, Idle
<1>5. SentAgrees'
  BY DEF SentAgrees, TypeOK, RowByStage, MemoryAgrees, Crash, Idle, InService
<1>6. DownIsEmpty'
  BY DEF DownIsEmpty, TypeOK, Crash, Idle, InService
<1>7. HostTold'
  BY DEF HostTold, TypeOK, MemoryAgrees, SettlersAgree, RowByStage, SentAgrees, Crash, Idle
<1> QED
  BY <1>1, <1>2, <1>3, <1>4, <1>5, <1>6, <1>7

(* The rows left pending are settled.                                      *)
LEMMA RecoverStep ==
  ASSUME AnswerInv, Recover
  PROVE  AnswerInv'
<1> USE AnswersAreNot, InteractionAssumption DEF AnswerInv
<1>1. TypeOK'
  BY DEF TypeOK, SettlersAgree, Recover, Recovered, memory, Stages, HostStages
<1>2. RowByStage'
  BY DEF RowByStage, TypeOK, MemoryAgrees, DownIsEmpty, SentAgrees, Recover, Recovered, memory,
     InService
<1>3. MemoryAgrees'
  BY DEF MemoryAgrees, TypeOK, RowByStage, SettlersAgree, DownIsEmpty, Recover, Recovered,
     memory, InService
<1>4. SettlersAgree'
  BY DEF SettlersAgree, TypeOK, MemoryAgrees, RowByStage, DownIsEmpty, Recover, Recovered, memory
<1>5. SentAgrees'
  BY DEF SentAgrees, TypeOK, RowByStage, MemoryAgrees, Recover, Recovered, memory, InService
<1>6. DownIsEmpty'
  BY DEF DownIsEmpty, TypeOK, Recover, Recovered, memory, InService
<1>7. HostTold'
  BY DEF HostTold, TypeOK, MemoryAgrees, SettlersAgree, RowByStage, SentAgrees, Recover,
     Recovered, memory
<1> QED
  BY <1>1, <1>2, <1>3, <1>4, <1>5, <1>6, <1>7

LEMMA AnswerStep == ASSUME AnswerInv, [Next]_vars PROVE AnswerInv'
<1>1. CASE UNCHANGED vars
  BY <1>1 DEF AnswerInv, vars, memory, closing, TypeOK, RowByStage, MemoryAgrees, SettlersAgree,
     SentAgrees, DownIsEmpty, HostTold
<1>2. ASSUME NEW i \in Requests, Ask(i) \/ AskUnrouted(i) \/ Serve(i) PROVE AnswerInv'
  BY <1>2, AskStep, CreateStep, TimeOutStep, RecordStep, SendStep DEF Serve
<1>3. ASSUME NEW h \in Hosts, (\E i \in Requests : Check(h, i)) \/ Settle(h) \/ RecordForHost(h)
      PROVE  AnswerInv'
  BY <1>3, CheckStep, SettleStep, RecordHostStep
<1>4. CASE EndTurn \/ Exit \/ BeginClose \/ Close
  BY <1>4, CloseStep, CancelStep, RecordCancelledStep DEF Close
<1>5. CASE Crash \/ Recover
  BY <1>5, CrashStep, RecoverStep
<1> QED
  BY <1>1, <1>2, <1>3, <1>4, <1>5 DEF Next

THEOREM AnswerInvariant == Spec => []AnswerInv
<1>1. AnswerInv /\ [Next]_vars => AnswerInv'
  BY AnswerStep
<1> QED
  BY <1>1, AnswerInit, PTL DEF Spec

(* app_server.py, resolve_pending_interaction: a host that is told         *)
(* "resolved" has decided, against other hosts, the timeout, a closing     *)
(* client, the loss of the memory and the recovery of the rows.            *)
THEOREM HostDecides == Spec => []HostTold
<1>1. AnswerInv => HostTold
  BY DEF AnswerInv
<1> QED
  BY <1>1, AnswerInvariant, PTL

(* Types, for any numbers of requests and hosts.                           *)
THEOREM TypeCorrect == Spec => []TypeOK
<1>1. AnswerInv => TypeOK
  BY DEF AnswerInv
<1> QED
  BY <1>1, AnswerInvariant, PTL

-----------------------------------------------------------------------------
(* interactions.py: the safe response to any request is one a host could   *)
(* give, and it grants nothing ...                                         *)
LEMMA SafeResponses ==
  ASSUME NEW m \in Methods
  PROVE  Valid(m, SafeResponse(m)) /\ ~Grants(m, SafeResponse(m))
<1>1. CASE m = "decision"
  BY <1>1 DEF Valid, ValidDecision, DecisionValues, SafeResponse, Grants, DecisionOf, Nothing
<1>2. CASE m = "legacy"
  BY <1>2 DEF Valid, ValidDecision, LegacyValues, SafeResponse, Grants, DecisionOf, Nothing
<1>3. CASE m = "permissions"
  BY <1>3 DEF Valid, ValidPermissions, Unusable, SafeResponse, Grants, DecisionOf, Nothing
<1>4. CASE m = "userInput"
  BY <1>4 DEF Valid, ValidUserInput, Unusable, SafeResponse, Grants, DecisionOf, Nothing
<1>5. CASE m = "elicitation"
  BY <1>5 DEF Valid, ValidElicitation, ElicitationActions, SafeResponse, Grants, DecisionOf, Nothing
<1> QED
  BY <1>1, <1>2, <1>3, <1>4, <1>5 DEF Methods

(* ... and what is kept of a valid response is valid, and decides what the *)
(* host decided.                                                           *)
LEMMA ValidatedResponses ==
  ASSUME NEW m \in Methods, NEW r \in Responses, Valid(m, r)
  PROVE  Valid(m, Validated(m, r)) /\ DecisionOf(m, Validated(m, r)) = DecisionOf(m, r)
<1>1. CASE m = "decision"
  BY <1>1 DEF Valid, ValidDecision, Validated, DecisionOf, Nothing
<1>2. CASE m = "legacy"
  BY <1>2 DEF Valid, ValidDecision, Validated, DecisionOf, Nothing
<1>3. CASE m = "permissions"
  BY <1>3 DEF Valid, ValidPermissions, Validated, DecisionOf, Nothing
<1>4. CASE m = "userInput"
  BY <1>4 DEF Valid, ValidUserInput, Validated, DecisionOf, Nothing
<1>5. CASE m = "elicitation"
  BY <1>5 DEF Valid, ValidElicitation, Validated, DecisionOf, Nothing
<1> QED
  BY <1>1, <1>2, <1>3, <1>4, <1>5 DEF Methods

(* No response is taken from a host, kept or sent that does not fit.       *)
FitInv ==
  /\ \A h \in Hosts : host[h].at # "idle" => Valid(MethodOf[host[h].of], BodyOf[h])
  /\ \A i \in Requests : answer[i] \in Hosts => Valid(MethodOf[i], BodyOf[answer[i]])
  /\ \A i \in Requests : sent[i] \in Hosts => Valid(MethodOf[i], BodyOf[sent[i]])

LEMMA FallbacksAreNoHosts ==
  /\ "fallback_timeout" \notin Hosts /\ "app_server_closed" \notin Hosts
  /\ "unrecorded" \notin Hosts /\ NoAnswer \notin Hosts
  BY InteractionAssumption DEF Fallbacks, Answers

LEMMA FitInit == Init => FitInv
  BY FallbacksAreNoHosts DEF Init, Idle, FitInv

LEMMA FitStep == ASSUME AnswerInv, FitInv, [Next]_vars PROVE FitInv'
<1> USE FallbacksAreNoHosts DEF AnswerInv, TypeOK, FitInv
<1>1. CASE UNCHANGED vars
  BY <1>1 DEF vars, memory
<1>2. ASSUME NEW i \in Requests, Ask(i) \/ AskUnrouted(i) PROVE FitInv'
  BY <1>2 DEF Ask, AskUnrouted, Move, memory
<1>3. ASSUME NEW i \in Requests, CreateRow(i) \/ Enlist(i) \/ Wake(i) PROVE FitInv'
  BY <1>3 DEF CreateRow, Enlist, Wake, Move, memory
<1>4. ASSUME NEW i \in Requests, TimeOut(i) PROVE FitInv'
  BY <1>4 DEF TimeOut, Expired, Move
<1>5. ASSUME NEW i \in Requests, Record(i) \/ SendAnswer(i) \/ Leave(i) PROVE FitInv'
  BY <1>5 DEF Record, SendAnswer, Leave, Move, memory
<1>6. ASSUME NEW h \in Hosts, NEW i \in Requests, Check(h, i) PROVE FitInv'
  <2>1. UNCHANGED <<row, up, memory, at, sent, turn, closing>>
    BY <1>6 DEF Check
  <2>2. host' = [host EXCEPT ![h] = [at |-> "checked", of |-> i]] /\ Accepts(MethodOf[i], BodyOf[h])
    BY <1>6 DEF Check
  <2>3. Valid(MethodOf[i], BodyOf[h])
    BY <2>2 DEF Accepts
  <2>4. \A g \in Hosts : host'[g] = host[g] \/ (g = h /\ host'[g].of = i)
    BY <2>2
  <2>5. UNCHANGED <<answer, sent>>
    BY <2>1 DEF memory
  <2> QED
    BY <2>3, <2>4, <2>5
<1>7. ASSUME NEW h \in Hosts, Settle(h) \/ RecordForHost(h) PROVE FitInv'
  BY <1>7 DEF Settle, RecordForHost, Idle, SettlersAgree
<1>8. CASE EndTurn \/ Exit \/ BeginClose \/ CancelPending \/ RecordCancelled
  BY <1>8 DEF EndTurn, Exit, BeginClose, CancelPending, RecordCancelled, memory
<1>9. ASSUME NEW i \in Requests, CancelOne(i) PROVE FitInv'
  BY <1>9 DEF CancelOne
<1>10. CASE Crash \/ Recover
  BY <1>10 DEF Crash, Recover, Idle, memory
<1> QED
  BY <1>1, <1>2, <1>3, <1>4, <1>5, <1>6, <1>7, <1>8, <1>9, <1>10 DEF Next, Serve, Close

(* Fail-closed: whatever settles a request, Codex is told a response that  *)
(* fits it, and only a host's response, the one on record, lets it go on.  *)
THEOREM FailClosed == Spec => []OnlyHostsGrant
<1>1. AnswerInv /\ FitInv => OnlyHostsGrant
  <2> SUFFICES ASSUME AnswerInv, FitInv, NEW i \in Requests, sent[i] # NoAnswer
               PROVE  /\ Valid(MethodOf[i], ToldResponse(i))
                      /\ Grants(MethodOf[i], ToldResponse(i)) => sent[i] \in Hosts /\ row[i] = sent[i]
    BY DEF OnlyHostsGrant
  <2>1. MethodOf[i] \in Methods
    BY ResponseAssumption
  <2>2. CASE sent[i] \in Hosts
    <3>1. Valid(MethodOf[i], BodyOf[sent[i]]) /\ BodyOf[sent[i]] \in Responses
      BY <2>2, ResponseAssumption DEF FitInv
    <3>2. row[i] = sent[i]
      BY <2>2, AnswersAreNot DEF AnswerInv, SentAgrees
    <3> QED
      BY <2>1, <2>2, <3>1, <3>2, ValidatedResponses DEF ToldResponse
  <2>3. CASE sent[i] \notin Hosts
    BY <2>1, <2>3, SafeResponses DEF ToldResponse
  <2> QED
    BY <2>2, <2>3
<1>2. AnswerInv /\ FitInv /\ [Next]_vars => FitInv'
  BY FitStep
<1> QED
  BY <1>1, <1>2, FitInit, AnswerInvariant, PTL DEF Spec

-----------------------------------------------------------------------------
(* What each step does to the verdict on record and to what was sent.      *)
LEMMA RecordsOnce ==
  ASSUME AnswerInv, NEW i \in Requests, NEW a \in Answers, UNCHANGED sent,
         UNCHANGED row \/ Complete(i, a)
  PROVE  UNCHANGED <<verdict, sent>> \/ Promise!Decide(i, a)
<1>1. CASE UNCHANGED row \/ row[i] # "pending"
  <2>1. row' = row
    BY <1>1 DEF Complete, AnswerInv, TypeOK
  <2> QED
    BY <2>1 DEF verdict
<1>2. CASE Complete(i, a) /\ row[i] = "pending"
  <2>1. row' = [row EXCEPT ![i] = a]
    BY <1>2 DEF Complete
  <2>2. verdict[i] = NoAnswer /\ sent[i] = NoAnswer
    BY <1>2, AnswersAreNot DEF verdict, AnswerInv, TypeOK, SentAgrees
  <2>3. verdict' = [verdict EXCEPT ![i] = a]
    BY <2>1 DEF verdict, AnswerInv, TypeOK
  <2> QED
    BY <2>2, <2>3 DEF Promise!Decide, Promise!Undecided
<1> QED
  BY <1>1, <1>2

LEMMA StepsKeepPromise ==
  ASSUME AnswerInv, [Next]_vars PROVE [Promise!Next]_(Promise!vars)
<1> USE AnswersAreNot
<1>s. UNCHANGED <<row, sent>> => UNCHANGED Promise!vars
  BY DEF Promise!vars, verdict
<1>d. ASSUME NEW i \in Requests, NEW a \in Answers,
             UNCHANGED <<verdict, sent>> \/ Promise!Decide(i, a)
      PROVE  [Promise!Next]_(Promise!vars)
  BY <1>d DEF Promise!Next, Promise!vars
<1>1. CASE UNCHANGED vars
  BY <1>1, <1>s DEF vars
<1>2. ASSUME NEW i \in Requests, Ask(i) \/ Enlist(i) \/ Wake(i) \/ TimeOut(i) \/ Leave(i)
      PROVE  [Promise!Next]_(Promise!vars)
  BY <1>2, <1>s DEF Ask, Enlist, Wake, TimeOut, Leave
<1>3. ASSUME NEW i \in Requests, AskUnrouted(i) PROVE Promise!Decline(i)
  <2>1. row[i] = "absent" /\ sent[i] = NoAnswer
    BY <1>3 DEF AskUnrouted, Move, AnswerInv, RowByStage
  <2> QED
    BY <1>3, <2>1 DEF AskUnrouted, Promise!Decline, Promise!Undecided, verdict
<1>4. ASSUME NEW i \in Requests, CreateRow(i) PROVE UNCHANGED Promise!vars
  <2>1. row[i] = "absent" /\ row' = [row EXCEPT ![i] = "pending"] /\ UNCHANGED sent
    BY <1>4 DEF CreateRow, Move, AnswerInv, RowByStage
  <2> QED
    BY <2>1 DEF Promise!vars, verdict, AnswerInv, TypeOK
<1>5. ASSUME NEW i \in Requests, Record(i) PROVE [Promise!Next]_(Promise!vars)
  <2>1. answer[i] \in Answers
    BY <1>5 DEF Record, Move, AnswerInv, RowByStage, TypeOK
  <2>2. UNCHANGED sent /\ (UNCHANGED row \/ Complete(i, answer[i]))
    BY <1>5 DEF Record, RecordAnswer
  <2> QED
    BY <2>1, <2>2, <1>d, RecordsOnce
<1>6. ASSUME NEW i \in Requests, SendAnswer(i) PROVE [Promise!Next]_(Promise!vars)
  <2>1. CASE child = "open"
    <3>1. row[i] = answer[i] /\ answer[i] \in Answers /\ sent[i] = NoAnswer
      BY <1>6 DEF SendAnswer, Move, AnswerInv, RowByStage, TypeOK
    <3>2. sent' = [sent EXCEPT ![i] = answer[i]] /\ UNCHANGED row
      BY <1>6, <2>1 DEF SendAnswer
    <3>3. Promise!Deliver(i)
      BY <3>1, <3>2 DEF Promise!Deliver, verdict
    <3> QED
      BY <3>3 DEF Promise!Next
  <2>2. CASE child # "open"
    BY <1>6, <2>2, <1>s DEF SendAnswer
  <2> QED
    BY <2>1, <2>2
<1>7. ASSUME NEW h \in Hosts, (\E i \in Requests : Check(h, i)) \/ Settle(h)
      PROVE  [Promise!Next]_(Promise!vars)
  BY <1>7, <1>s DEF Check, Settle
<1>8. ASSUME NEW h \in Hosts, RecordForHost(h) PROVE [Promise!Next]_(Promise!vars)
  <2>1. host[h].of \in Requests
    BY <1>8 DEF RecordForHost, AnswerInv, SettlersAgree
  <2>2. UNCHANGED sent /\ Complete(host[h].of, h)
    BY <1>8 DEF RecordForHost
  <2> QED
    BY <2>1, <2>2, <1>d, RecordsOnce
<1>9. CASE RecordCancelled
  <2>1. holding \in Requests /\ answer[holding] \in Answers
    BY <1>9 DEF RecordCancelled, AnswerInv, TypeOK, SettlersAgree
  <2>2. UNCHANGED sent /\ (UNCHANGED row \/ Complete(holding, answer[holding]))
    BY <1>9 DEF RecordCancelled, RecordAnswer
  <2> QED
    BY <2>1, <2>2, <1>d, RecordsOnce
<1>10. CASE Recover
  <2>1. row' = [i \in Requests |-> IF i \in Recovered THEN "broker_restarted" ELSE row[i]]
        /\ UNCHANGED sent
    BY <1>10 DEF Recover
  <2>2. \A i \in Recovered : verdict[i] = NoAnswer /\ sent[i] = NoAnswer
    BY DEF Recovered, verdict, AnswerInv, TypeOK, SentAgrees
  <2>3. verdict' = [i \in Requests |-> IF i \in Recovered THEN "broker_restarted" ELSE verdict[i]]
    BY <2>1 DEF verdict
  <2>4. Promise!DecideAll(Recovered, "broker_restarted")
    BY <2>1, <2>2, <2>3 DEF Promise!DecideAll, Promise!Undecided
  <2>5. Recovered \in SUBSET Requests
    BY DEF Recovered
  <2> QED
    BY <2>4, <2>5 DEF Promise!Next
<1>11. CASE EndTurn \/ Exit \/ BeginClose \/ CancelPending \/ Crash
            \/ \E i \in Requests : CancelOne(i)
  BY <1>11, <1>s DEF EndTurn, Exit, BeginClose, CancelPending, Crash, CancelOne
<1> QED
  BY <1>1, <1>2, <1>3, <1>4, <1>5, <1>6, <1>7, <1>8, <1>9, <1>10, <1>11
  DEF Next, Serve, Close, Promise!Next

(* A request is answered once: the verdict on record never changes, and it *)
(* is the one Codex is told, whatever settles it and whenever the process  *)
(* ends (_handle_interaction_request records before it sends).             *)
THEOREM Implementation == Spec => ImplementsAnsweredOnce
<1>1. Init => Promise!Init
  BY AnswersAreNot DEF Init, Promise!Init, verdict
<1>2. AnswerInv /\ [Next]_vars => [Promise!Next]_(Promise!vars)
  BY StepsKeepPromise
<1> QED
  BY <1>1, <1>2, AnswerInvariant, PTL DEF Spec, ImplementsAnsweredOnce, Promise!Spec
=============================================================================
