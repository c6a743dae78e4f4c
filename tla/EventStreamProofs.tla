------------------------- MODULE EventStreamProofs -------------------------
(***************************************************************************)
(* Proofs about the events of a turn, for any number of items, pieces and  *)
(* events, any size of the pages and any limit.                            *)
(*                                                                         *)
(* Reading: over pages, broken connections, restarts and prunings a client *)
(* misses no event that is still there. Of the producers only one thing    *)
(* matters for that: events are appended, and those that go are the        *)
(* oldest.                                                                 *)
(*                                                                         *)
(* Writing: the texts that are held back, flushed and raced for are        *)
(* recorded once, and in order and completely unless something has gone    *)
(* astray; so the object of a completed turn is whole. A text a thread has *)
(* taken out of the sanitizer and not yet appended counts as coming.       *)
(***************************************************************************)
EXTENDS EventStream, SequenceTheorems, TLAPS

(* The table is a sequence of events, whatever they are.                   *)
IsLog(l) == \E S : l \in Seq(S)

(* A page that is being written begins where what was sent ends.           *)
PageContinues ==
  phase = "write" => page.next \in Nat /\ \A id \in low + 1 .. page.next - 1 : id \in got

ReadingInv ==
  /\ low \in Nat /\ IsLog(log) /\ cursor \in Nat
  /\ StreamHasNoGaps
  /\ PageContinues

LEMMA LogLength == ASSUME NEW l, IsLog(l) PROVE Len(l) \in Nat
<1>1. PICK S : l \in Seq(S)
  BY DEF IsLog
<1> QED
  BY <1>1

LEMMA LogGrows == ASSUME NEW l, IsLog(l), NEW e PROVE IsLog(Append(l, e))
<1>1. PICK S : l \in Seq(S)
  BY DEF IsLog
<1> DEFINE T == S \union {e}
<1>2. l \in Seq(T) /\ e \in T
  BY <1>1
<1>3. Append(l, e) \in Seq(T)
  BY <1>2
<1> QED
  BY <1>3 DEF IsLog

LEMMA LogPruned ==
  ASSUME NEW l, IsLog(l), NEW n \in Nat
  PROVE  IsLog(SubSeq(l, n + 1, Len(l)))
<1>1. PICK S : l \in Seq(S)
  BY DEF IsLog
<1>2. SubSeq(l, n + 1, Len(l)) \in Seq(S)
  <2>1. \A k \in n + 1 .. Len(l) : l[k] \in S
    BY <1>1
  <2> QED
    BY <1>1, <2>1, SubSeqProperties
<1> QED
  BY <1>2 DEF IsLog

LEMMA ReadingInit == Init => ReadingInv
<1> SUFFICES ASSUME Init PROVE ReadingInv
  OBVIOUS
<1>1. phase # "write" /\ low = 0 /\ cursor = 0 /\ log = <<>>
  BY DEF Init, FirstPhase
<1>2. IsLog(<<>>)
  <2>1. <<>> \in Seq({})
    OBVIOUS
  <2> QED
    BY <2>1 DEF IsLog
<1> QED
  BY <1>1, <1>2 DEF ReadingInv, StreamHasNoGaps, PageContinues

(* The producers append to the table and do nothing to the client.         *)
Producers == Codex \/ Naming \/ Finish \/ Persist \/ Turn \/ RunFails
Produces == IsLog(log') /\ low' = low /\ UNCHANGED client

LEMMA ProducersAppend ==
  ASSUME ReadingInv, Producers
  PROVE  Produces
<1> USE LogGrows DEF ReadingInv
<1>1. CASE Codex
  BY <1>1 DEF Codex, ReceiveDelta, ReceiveItem, ReceiveUsage, ReceiveEnd, Produces, table
<1>2. CASE Finish \/ Naming
  BY <1>2 DEF Finish, Naming, ReceiveNameless, TurnStarted, TurnAnswered, RegisterTurn, Produces, table
<1>3. CASE Persist \/ RunFails
  BY <1>3 DEF Persist, RunFails, FinalizeTurn, Produces
<1>4. CASE Detach
  BY <1>4 DEF Detach, Produces, table
<1>5. ASSUME NEW p \in Actors, Perform(p) PROVE Produces
  BY <1>5 DEF Perform, RememberItem, FlushText, AppendEvent, SettleTurn, Produces
<1>6. ASSUME NEW p \in Replayers, Replay(p) PROVE Produces
  BY <1>6 DEF Replay, Produces, table
<1> QED
  BY <1>1, <1>2, <1>3, <1>4, <1>5, <1>6 DEF Producers, Turn, WorkerPersists

LEMMA ProducersKeep == ASSUME ReadingInv, Produces PROVE ReadingInv'
  BY DEF Produces, client, ReadingInv, StreamHasNoGaps, PageContinues

(* Whoever hangs up keeps what it has, or has nothing.                     *)
LEMMA HangUpKeeps ==
  ASSUME ReadingInv, HangUp, UNCHANGED <<low, log>>
  PROVE  ReadingInv'
<1>1. phase' # "write" /\ (UNCHANGED <<cursor, got>> \/ cursor' = 0)
  BY DEF HangUp
<1> QED
  BY <1>1 DEF ReadingInv, StreamHasNoGaps, PageContinues

LEMMA FewerIds ==
  \A l \in Nat, k \in Nat, m \in Int : l <= k => k + 1 .. m \subseteq l + 1 .. m
  OBVIOUS

(* Pruning takes the oldest events, and no id is given out again.          *)
LEMMA RecoverKeeps == ASSUME ReadingInv, Recover PROVE ReadingInv'
<1> USE DEF ReadingInv
<1>1. IsLog(RecoveredLog)
  BY LogGrows DEF RecoveredLog
<1>2. Len(RecoveredLog) \in Nat /\ Len(log) \in Nat
  BY <1>1, LogLength
<1>3. PICK n \in 0 .. Len(log) :
        /\ low' = low + Pruned(n)
        /\ log' = SubSeq(RecoveredLog, Pruned(n) + 1, Len(RecoveredLog))
  BY DEF Recover, LowAfter
<1>4. Pruned(n) \in Nat
  BY <1>2, StreamAssumption DEF Pruned
<1>5. low' \in Nat /\ low <= low' /\ IsLog(log')
  BY <1>1, <1>3, <1>4, LogPruned
<1>6. UNCHANGED <<phase, page, cursor, got>>
  BY DEF Recover, client
<1>7. \A m \in Int : low' + 1 .. m \subseteq low + 1 .. m
  BY <1>5, FewerIds
<1>8. StreamHasNoGaps'
  <2>1. \A id \in low + 1 .. cursor : id \in got
    BY DEF StreamHasNoGaps
  <2> QED
    BY <1>7, <1>6, <2>1 DEF StreamHasNoGaps
<1>9. PageContinues'
  <2> SUFFICES ASSUME phase = "write"
               PROVE  page.next \in Nat /\ \A id \in low' + 1 .. page.next - 1 : id \in got
    BY <1>6 DEF PageContinues
  <2>1. page.next \in Nat /\ \A id \in low + 1 .. page.next - 1 : id \in got
    BY DEF PageContinues
  <2> QED
    BY <1>7, <2>1
<1> QED
  BY <1>5, <1>6, <1>8, <1>9

LEMMA ListKeeps == ASSUME ReadingInv, List PROVE ReadingInv'
<1>1. /\ page' = PageAfter(cursor) /\ UNCHANGED <<low, log, cursor, got>>
  BY DEF List, table
<1>2. page'.next = IF cursor < low THEN low + 1 ELSE cursor + 1
  BY <1>1 DEF PageAfter
<1> QED
  BY <1>1, <1>2 DEF ReadingInv, StreamHasNoGaps, PageContinues

LEMMA WriteKeeps == ASSUME ReadingInv, Write PROVE ReadingInv'
<1>1. phase = "write" /\ Advance /\ UNCHANGED <<low, log>>
  BY DEF Write, SendEvent, Forward, table
<1>2. page.next \in Nat /\ \A id \in low + 1 .. page.next - 1 : id \in got
  BY <1>1 DEF ReadingInv, PageContinues
<1>3. cursor' = page.next /\ got' = got \union {page.next}
  BY <1>1 DEF Advance
<1>4. \A id \in low + 1 .. page.next : id \in got'
  BY <1>2, <1>3 DEF ReadingInv
<1>5. phase' = "write" => page'.next = page.next + 1
  <2>1. page' = [page EXCEPT !.next = @ + 1]
    BY <1>1 DEF Advance
  <2> QED
    BY <2>1
<1> QED
  BY <1>1, <1>2, <1>3, <1>4, <1>5 DEF ReadingInv, StreamHasNoGaps, PageContinues

LEMMA ReadingStep == ReadingInv /\ [Next]_vars => ReadingInv'
<1> SUFFICES ASSUME ReadingInv, [Next]_vars PROVE ReadingInv'
  OBVIOUS
<1>1. CASE Producers
  BY <1>1, ProducersAppend, ProducersKeep
<1>2. CASE Crash \/ WriteFails \/ EndResponse \/ EndChat \/ AnswerObject
  <2>1. HangUp /\ UNCHANGED <<low, log>>
    BY <1>2 DEF Crash, WriteFails, EndResponse, EndChat, AnswerObject, Answer, table
  <2> QED
    BY <2>1, HangUpKeeps
<1>3. CASE Recover
  BY <1>3, RecoverKeeps
<1>4. CASE List
  BY <1>4, ListKeeps
<1>5. CASE Write
  BY <1>5, WriteKeeps
<1>6. CASE Reconnect \/ GoesOn
  <2>1. phase' # "write" /\ UNCHANGED <<low, log, cursor, got>>
    BY <1>6 DEF Reconnect, GoesOn, table
  <2> QED
    BY <2>1 DEF ReadingInv, StreamHasNoGaps, PageContinues
<1>7. CASE UNCHANGED vars
  <2>1. Produces
    BY <1>7 DEF Produces, ReadingInv, vars, table
  <2> QED
    BY <2>1, ProducersKeep
<1> QED
  BY <1>1, <1>2, <1>3, <1>4, <1>5, <1>6, <1>7 DEF Next, Producers, Client

(* list_events and the streaming loops: over pages, broken connections and *)
(* restarts a client misses no event that has not been pruned.             *)
THEOREM NothingIsMissed == Spec => []StreamHasNoGaps
<1>1. ReadingInv => StreamHasNoGaps
  BY DEF ReadingInv
<1> QED
  BY <1>1, ReadingInit, ReadingStep, PTL DEF Spec

-----------------------------------------------------------------------------
(* What the producers do.                                                  *)
Texts == [type : {"delta"}, item : Items, from : Int, to : Int]
Notes == [type : {"item", "raw"}, item : Items] \union [type : {"usage", "end"}, item : {0}]
Events == Texts \union Notes
Jobs == [op : {"emit"}, event : Events] \union [op : {"remember"}, item : Items]
        \union [op : {"flush"}, texts : SUBSET Texts] \union [op : {"settle"}, status : Terminal]

(* The events that a job, or a thread with these jobs, has yet to append.  *)
Bears(job) == IF job.op = "flush" THEN job.texts ELSE IF job.op = "emit" THEN {job.event} ELSE {}
Coming(s) == UNION {Bears(job) : job \in Range(s)}

(* A thread bears one text of an item, and once; it settles in the end.    *)
Text(e, i) == e.type = "delta" /\ e.item = i
Single(s) ==
  \A j, k \in DOMAIN s : \A e \in Bears(s[j]), f \in Bears(s[k]) : \A i \in Items :
    Text(e, i) /\ Text(f, i) => j = k /\ e = f
SettleLast(s) == \A k \in DOMAIN s : s[k].op = "settle" => k = Len(s)

-----------------------------------------------------------------------------
(* Sequences of jobs, taken apart and put together.                        *)
LEMMA RangeOfParts ==
  ASSUME NEW S, NEW s \in Seq(S), s # <<>>
  PROVE  /\ Head(s) \in S /\ Tail(s) \in Seq(S)
         /\ Range(s) = {Head(s)} \union Range(Tail(s))
<1>1. /\ Head(s) = s[1] /\ Head(s) \in S /\ Tail(s) \in Seq(S) /\ Len(s) \in Nat /\ Len(s) >= 1
      /\ Len(Tail(s)) = Len(s) - 1 /\ \A k \in 1 .. Len(s) - 1 : Tail(s)[k] = s[k + 1]
  BY HeadTailProperties, LenProperties
<1>2. Range(s) = {s[k] : k \in 1 .. Len(s)} /\ Range(Tail(s)) = {Tail(s)[k] : k \in 1 .. Len(s) - 1}
  <2>1. Range(s) = {s[k] : k \in 1 .. Len(s)}
    BY RangeEquality
  <2>2. Range(Tail(s)) = {Tail(s)[k] : k \in 1 .. Len(Tail(s))}
    BY <1>1, RangeEquality
  <2> QED
    BY <1>1, <2>1, <2>2
<1>3. ASSUME NEW k \in 1 .. Len(s) PROVE s[k] \in {Head(s)} \union Range(Tail(s))
  <2>1. CASE k = 1
    BY <2>1, <1>1
  <2>2. CASE k # 1
    <3>1. k - 1 \in 1 .. Len(s) - 1
      BY <2>2, <1>1
    <3>2. Tail(s)[k - 1] = s[k]
      BY <3>1, <1>1
    <3> QED
      BY <3>1, <3>2, <1>2
  <2> QED
    BY <2>1, <2>2
<1>4. ASSUME NEW k \in 1 .. Len(s) - 1 PROVE Tail(s)[k] \in Range(s)
  BY <1>1, <1>2
<1>5. Head(s) \in Range(s)
  BY <1>1, <1>2
<1> QED
  BY <1>1, <1>2, <1>3, <1>4, <1>5

LEMMA RangeOfFew ==
  /\ Range(<<>>) = {}
  /\ \A a : Range(<<a>>) = {a}
  BY DEF Range

LEMMA RangeOfAppend ==
  ASSUME NEW S, NEW s \in Seq(S), NEW e \in S
  PROVE  Append(s, e) \in Seq(S) /\ Range(Append(s, e)) = Range(s) \union {e}
<1> DEFINE t == <<e>>
<1>1. Append(s, e) = s \o t /\ t \in Seq(S)
  BY AppendIsConcat
<1>2. Range(t) = {e}
  BY RangeOfFew
<1>3. Append(s, e) \in Seq(S)
  BY AppendProperties
<1> HIDE DEF t
<1>4. Range(s \o t) = Range(s) \union Range(t)
  BY <1>1, RangeConcatenation
<1> QED
  BY <1>1, <1>2, <1>3, <1>4

LEMMA ComingOfParts ==
  ASSUME NEW S, NEW s \in Seq(S), NEW t \in Seq(S)
  PROVE  /\ Coming(s \o t) = Coming(s) \union Coming(t)
         /\ s # <<>> => Coming(s) = Bears(Head(s)) \union Coming(Tail(s))
         /\ Coming(<<>>) = {}
         /\ \A a : Coming(<<a>>) = Bears(a)
<1>1. Coming(s \o t) = Coming(s) \union Coming(t)
  BY RangeConcatenation DEF Coming
<1>2. s # <<>> => Coming(s) = Bears(Head(s)) \union Coming(Tail(s))
  BY RangeOfParts DEF Coming
<1>3. Coming(<<>>) = {} /\ \A a : Coming(<<a>>) = Bears(a)
  BY RangeOfFew DEF Coming
<1> QED
  BY <1>1, <1>2, <1>3

LEMMA ComingIs ==
  ASSUME NEW S, NEW s \in Seq(S), NEW e
  PROVE  e \in Coming(s) <=> \E k \in 1 .. Len(s) : e \in Bears(s[k])
  BY RangeEquality DEF Coming

(* What is single or in the end stays so when the first job is done, ...   *)
LEMMA TailOfSingle ==
  ASSUME NEW S, NEW s \in Seq(S), s # <<>>, Single(s)
  PROVE  /\ Single(Tail(s))
         /\ \A e \in Bears(Head(s)), f \in Coming(Tail(s)) : \A i \in Items : ~(Text(e, i) /\ Text(f, i))
         /\ \A e, f \in Bears(Head(s)) : \A i \in Items : Text(e, i) /\ Text(f, i) => e = f
<1>1. /\ Head(s) = s[1] /\ Tail(s) \in Seq(S) /\ Len(s) \in Nat /\ Len(s) >= 1
      /\ Len(Tail(s)) = Len(s) - 1 /\ \A k \in 1 .. Len(s) - 1 : Tail(s)[k] = s[k + 1]
      /\ DOMAIN s = 1 .. Len(s) /\ DOMAIN Tail(s) = 1 .. Len(s) - 1
  BY HeadTailProperties, LenProperties
<1>2. \A k \in DOMAIN Tail(s) : k + 1 \in DOMAIN s /\ Tail(s)[k] = s[k + 1] /\ k + 1 # 1
  BY <1>1
<1>3. Single(Tail(s))
  <2> SUFFICES ASSUME NEW j \in DOMAIN Tail(s), NEW k \in DOMAIN Tail(s),
                      NEW e \in Bears(Tail(s)[j]), NEW f \in Bears(Tail(s)[k]), NEW i \in Items,
                      Text(e, i) /\ Text(f, i)
               PROVE  j = k /\ e = f
    BY DEF Single
  <2>1. j + 1 = k + 1 /\ e = f
    BY <1>2 DEF Single
  <2> QED
    BY <1>1, <2>1
<1>4. 1 \in DOMAIN s
  BY <1>1
<1>5. ASSUME NEW e \in Bears(Head(s)), NEW f \in Coming(Tail(s)), NEW i \in Items,
             Text(e, i) /\ Text(f, i)
      PROVE  FALSE
  <2>1. PICK k \in DOMAIN Tail(s) : f \in Bears(Tail(s)[k])
    BY <1>1, ComingIs
  <2>2. 1 = k + 1
    BY <1>1, <1>2, <1>4, <1>5, <2>1 DEF Single
  <2> QED
    BY <1>2, <2>2
<1>6. \A e, f \in Bears(Head(s)) : \A i \in Items : Text(e, i) /\ Text(f, i) => e = f
  BY <1>1, <1>4 DEF Single
<1> QED
  BY <1>3, <1>5, <1>6

(* ... and when one is put before the others.                              *)
LEMMA SettleInTheEnd ==
  ASSUME NEW S, NEW s \in Seq(S), s # <<>>, SettleLast(s)
  PROVE  /\ SettleLast(Tail(s))
         /\ Head(s).op = "settle" => Tail(s) = <<>>
<1>1. /\ Head(s) = s[1] /\ Tail(s) \in Seq(S) /\ Len(s) \in Nat /\ Len(s) >= 1
      /\ Len(Tail(s)) = Len(s) - 1 /\ \A k \in 1 .. Len(s) - 1 : Tail(s)[k] = s[k + 1]
      /\ DOMAIN s = 1 .. Len(s) /\ DOMAIN Tail(s) = 1 .. Len(s) - 1
  BY HeadTailProperties, LenProperties
<1>2. SettleLast(Tail(s))
  <2> SUFFICES ASSUME NEW k \in DOMAIN Tail(s), Tail(s)[k].op = "settle" PROVE k = Len(Tail(s))
    BY DEF SettleLast
  <2>1. k + 1 \in DOMAIN s /\ s[k + 1].op = "settle"
    BY <1>1
  <2>2. k + 1 = Len(s)
    BY <2>1 DEF SettleLast
  <2> QED
    BY <1>1, <2>2
<1>3. Head(s).op = "settle" => Len(s) = 1
  BY <1>1 DEF SettleLast
<1>4. Len(s) = 1 => Tail(s) = <<>>
  BY <1>1, EmptySeq
<1> QED
  BY <1>2, <1>3, <1>4

(* What AppServerClient buffers.                                           *)
Notices == [type : {"delta", "item", "usage"} \union Terminal, item : Items \union {0}]

(* The types of the producers' state, and of the client's.                 *)
ProducerTypes ==
  /\ low \in Nat /\ log \in Seq(Events)
  /\ row \in {"running", "gone"} \union Terminal
  /\ astray \in BOOLEAN /\ rawItems \in BOOLEAN /\ usage \in BOOLEAN /\ ended \in BOOLEAN
  /\ sent \in [Items -> Nat]
  /\ done \subseteq Items
  /\ stage \in {"starting", "routed", "over"}
  /\ early \in Seq(Notices) /\ Len(early) <= BufferSize
  /\ context \in {"registered", "detached", "lost", "none"}
  /\ held \in [Items -> Nat \union {Unkeyed}]
  /\ \A i \in Items : held[i] = Unkeyed \/ held[i] <= sent[i]
  /\ meta \subseteq Items
  /\ todo \in [Actors -> Seq(Jobs)]
  /\ final \in {"none"} \union Terminal

ClientTypes ==
  /\ kind \in Kinds
  /\ phase \in {"list", "write", "check", "away", "over"}
  /\ cursor \in 0 .. LastId
  /\ page \in [next : Nat \ {0}, last : Nat] /\ page.last <= LastId
  /\ phase = "write" => cursor < page.next /\ page.next <= page.last
  /\ got \subseteq 1 .. cursor
  /\ result \in {"none", "completed", "failed", "error"}

LEMMA TypesAreTypes == ASSUME ProducerTypes, ClientTypes PROVE TypeOK
<1>1. \A i \in Items : held[i] = Unkeyed \/ held[i] \in 0 .. sent[i]
  BY StreamAssumption DEF ProducerTypes
<1> QED
  BY <1>1 DEF ProducerTypes, ClientTypes, TypeOK

-----------------------------------------------------------------------------
LEMMA EventTypes ==
  /\ \A i \in Items, m, n \in Int : Delta(i, m, n) \in Texts
  /\ \A i \in Items : Note("item", i) \in Events /\ Note("raw", i) \in Events
  /\ Note("usage", 0) \in Events /\ Note("end", 0) \in Events
  /\ Texts \subseteq Events
<1>1. \A i \in Items, m, n \in Int : Delta(i, m, n) \in Texts
  BY DEF Delta, Texts
<1>2. \A i \in Items : Note("item", i) \in Notes /\ Note("raw", i) \in Notes
  BY DEF Note, Notes
<1>3. Note("usage", 0) \in Notes /\ Note("end", 0) \in Notes
  BY DEF Note, Notes
<1> QED
  BY <1>1, <1>2, <1>3 DEF Events

LEMMA JobTypes ==
  /\ \A e \in Events : Emit(e) \in Jobs
  /\ \A i \in Items : Remember(i) \in Jobs
  /\ \A T \in SUBSET Texts : Flush(T) \in Seq(Jobs)
  /\ \A status \in Terminal : Settle(status) \in Jobs
<1>1. \A e \in Events : Emit(e) \in Jobs
  BY DEF Emit, Jobs
<1>2. \A i \in Items : Remember(i) \in Jobs
  BY DEF Remember, Jobs
<1>3. \A status \in Terminal : Settle(status) \in Jobs
  BY DEF Settle, Jobs
<1>4. ASSUME NEW T \in SUBSET Texts PROVE Flush(T) \in Seq(Jobs)
  <2>1. [op |-> "flush", texts |-> T] \in Jobs
    BY DEF Jobs
  <2> QED
    BY <2>1 DEF Flush
<1> QED
  BY <1>1, <1>2, <1>3, <1>4

LEMMA JobParts ==
  ASSUME NEW job \in Jobs
  PROVE  /\ job.op = "emit" => job.event \in Events
         /\ job.op = "remember" => job.item \in Items
         /\ job.op = "flush" => job.texts \in SUBSET Texts
         /\ job.op = "settle" => job.status \in Terminal
         /\ Bears(job) \subseteq Events
<1>1. CASE job \in [op : {"emit"}, event : Events]
  BY <1>1 DEF Bears
<1>2. CASE job \in [op : {"remember"}, item : Items]
  BY <1>2 DEF Bears
<1>3. CASE job \in [op : {"flush"}, texts : SUBSET Texts]
  BY <1>3, EventTypes DEF Bears
<1>4. CASE job \in [op : {"settle"}, status : Terminal]
  BY <1>4 DEF Bears
<1> QED
  BY <1>1, <1>2, <1>3, <1>4 DEF Jobs

(* What is taken out of the sanitizer.                                     *)
Flushed(S) == {Delta(i, sent[i] - held[i] + 1, sent[i]) : i \in Keyed(S)}

LEMMA FlushesTypes ==
  ASSUME ProducerTypes, NEW S \in SUBSET Items
  PROVE  /\ Flushed(S) \in SUBSET Texts
         /\ Flushes(S) = Flush(Flushed(S)) /\ Flushes(S) \in Seq(Jobs)
         /\ Taken(S) \in [Items -> Nat \union {Unkeyed}]
         /\ \A i \in Items : Taken(S)[i] = Unkeyed \/ Taken(S)[i] <= sent[i]
<1>1. ASSUME NEW i \in Keyed(S) PROVE Delta(i, sent[i] - held[i] + 1, sent[i]) \in Texts
  <2>1. i \in Items /\ sent[i] \in Int /\ held[i] \in Int
    BY StreamAssumption DEF Keyed, ProducerTypes, Unkeyed
  <2> QED
    BY <2>1, EventTypes
<1>2. Flushed(S) \in SUBSET Texts
  BY <1>1 DEF Flushed
<1>3. Flushes(S) = Flush(Flushed(S)) /\ Flushes(S) \in Seq(Jobs)
  BY <1>2, JobTypes DEF Flushes, Flushed
<1> QED
  BY <1>2, <1>3 DEF Taken, ProducerTypes

LEMMA DoesTypes ==
  ASSUME ProducerTypes, NEW p \in Actors, NEW jobs \in Seq(Jobs), Does(p, jobs)
  PROVE  /\ todo' \in [Actors -> Seq(Jobs)] /\ todo'[p] = jobs
         /\ \A q \in Actors : q # p => todo'[q] = todo[q]
  BY DEF Does, ProducerTypes

LEMMA ItemJobsTypes ==
  ASSUME ProducerTypes, NEW i \in Items, NEW jobs \in ItemJobs(i)
  PROVE  jobs \in Seq(Jobs)
<1> DEFINE f == Flushes({i})
           item == <<Emit(Note("item", i))>>
           raw == <<Emit(Note("raw", i))>>
<1>1. f \in Seq(Jobs) /\ item \in Seq(Jobs) /\ raw \in Seq(Jobs)
  BY FlushesTypes, EventTypes, JobTypes
<1>2. jobs \in {f \o raw \o item, raw \o f \o item, f \o item \o raw, f \o item}
  BY DEF ItemJobs
<1> HIDE DEF f, item, raw
<1>3. f \o raw \in Seq(Jobs) /\ raw \o f \in Seq(Jobs) /\ f \o item \in Seq(Jobs)
  BY <1>1, ConcatProperties
<1>4. /\ f \o raw \o item \in Seq(Jobs) /\ raw \o f \o item \in Seq(Jobs)
      /\ f \o item \o raw \in Seq(Jobs)
  BY <1>1, <1>3, ConcatProperties
<1> QED
  BY <1>2, <1>3, <1>4

LEMMA PerformTypes ==
  ASSUME ProducerTypes, NEW p \in Actors, Perform(p)
  PROVE  /\ Job(p) \in Jobs /\ Rest(p) \in Seq(Jobs)
         /\ todo' \in [Actors -> Seq(Jobs)]
         /\ log' \in Seq(Events) /\ meta' \subseteq Items /\ final' \in {"none"} \union Terminal
<1>1. todo[p] \in Seq(Jobs) /\ todo[p] # <<>>
  BY DEF Perform, ProducerTypes
<1>2. Job(p) \in Jobs /\ Rest(p) \in Seq(Jobs)
  BY <1>1, HeadTailProperties DEF Job, Rest
<1>3. ASSUME NEW jobs \in Seq(Jobs), Then(p, jobs)
      PROVE  todo' \in [Actors -> Seq(Jobs)]
  <2>1. jobs \o Rest(p) \in Seq(Jobs)
    BY <1>2, ConcatProperties
  <2> QED
    BY <1>3, <2>1 DEF Then, ProducerTypes
<1>4. <<>> \in Seq(Jobs)
  OBVIOUS
<1>5. CASE RememberItem(p)
  BY <1>2, <1>3, <1>4, <1>5, JobParts DEF RememberItem, ProducerTypes
<1>6. CASE FlushText(p)
  <2>1. Job(p).texts \in SUBSET Texts
    BY <1>2, <1>6, JobParts DEF FlushText
  <2>2. PICK text \in Job(p).texts :
          /\ meta' = meta \ {text.item}
          /\ Then(p, IF text.item \in meta /\ text.from <= text.to
                     THEN <<Emit(text)>> \o Flush(Job(p).texts \ {text}) ELSE Flush(Job(p).texts \ {text}))
    BY <1>6 DEF FlushText
  <2>3. <<Emit(text)>> \in Seq(Jobs) /\ Flush(Job(p).texts \ {text}) \in Seq(Jobs)
    BY <2>1, JobTypes, EventTypes
  <2>4. <<Emit(text)>> \o Flush(Job(p).texts \ {text}) \in Seq(Jobs)
    BY <2>3, ConcatProperties
  <2> QED
    BY <1>2, <1>3, <1>6, <2>2, <2>3, <2>4 DEF FlushText, ProducerTypes
<1>7. CASE AppendEvent(p)
  <2>1. Job(p).event \in Events
    BY <1>2, <1>7, JobParts DEF AppendEvent
  <2> QED
    BY <1>2, <1>3, <1>4, <1>7, <2>1, AppendProperties DEF AppendEvent, ProducerTypes
<1>8. CASE SettleTurn(p)
  BY <1>2, <1>3, <1>4, <1>8, JobParts DEF SettleTurn, ProducerTypes
<1> QED
  BY <1>2, <1>5, <1>6, <1>7, <1>8 DEF Perform

(* What a thread does with a notification, when it is read or replayed.    *)
Handles(p) ==
  \/ \E i \in Items : HandleDelta(p, i) \/ HandleItem(p, i)
  \/ HandleUsage(p)
  \/ \E status \in Terminal : HandleEnd(p, status)

(* Nobody else is concerned.                                               *)
Handling(p) ==
  /\ todo[p] = <<>>
  /\ Handles(p)
  /\ UNCHANGED <<low, log, row, astray, rawItems, stage, early, context, meta, final, client>>

LEMMA CodexHandles ==
  ASSUME Codex
  PROVE  /\ Handling("reader") /\ Receives /\ "reader" \in Replayers
         /\ UNCHANGED replay /\ usage' \in {usage, TRUE} /\ ended' \in {ended, TRUE}
         /\ \E S \in SUBSET Items : done' = done \union S
<1> USE DEF Handling, Handles, Receives, Replayers, routing, table
<1>1. ASSUME NEW S \in SUBSET Items, done' = done \union S \/ done' = done
      PROVE  \E T \in SUBSET Items : done' = done \union T
  <2>1. done = done \union {}
    OBVIOUS
  <2> QED
    BY <1>1, <2>1
<1>2. ASSUME NEW i \in Items, ReceiveDelta(i) PROVE done' = done
  BY <1>2 DEF ReceiveDelta
<1>3. ASSUME NEW i \in Items, ReceiveItem(i) PROVE done' = done \union {i} /\ {i} \in SUBSET Items
  BY <1>3 DEF ReceiveItem
<1>4. ASSUME ReceiveUsage \/ \E status \in Terminal : ReceiveEnd(status) PROVE done' = done
  BY <1>4 DEF ReceiveUsage, ReceiveEnd
<1>5. \E S \in SUBSET Items : done' = done \union S
  BY <1>1, <1>2, <1>3, <1>4 DEF Codex
<1>6. ASSUME NEW i \in Items, ReceiveDelta(i) \/ ReceiveItem(i)
      PROVE  Handling("reader") /\ Receives /\ UNCHANGED <<replay, usage, ended>>
  BY <1>6 DEF ReceiveDelta, ReceiveItem
<1>7. ASSUME ReceiveUsage
      PROVE  Handling("reader") /\ Receives /\ UNCHANGED <<replay, ended>> /\ usage' = TRUE
  BY <1>7 DEF ReceiveUsage
<1>8. ASSUME NEW status \in Terminal, ReceiveEnd(status)
      PROVE  Handling("reader") /\ Receives /\ UNCHANGED <<replay, usage>> /\ ended' = TRUE
  BY <1>8 DEF ReceiveEnd
<1> QED
  BY <1>5, <1>6, <1>7, <1>8 DEF Codex

LEMMA ReplayHandles ==
  ASSUME NEW p \in Replayers, Replay(p)
  PROVE  /\ Handling(p) /\ p \in Actors /\ replay[p] # <<>>
         /\ UNCHANGED <<done, usage, ended>>
  BY DEF Replay, Handle, Handling, Handles, Actors, table

LEMMA HandleTypes ==
  ASSUME ProducerTypes, NEW p \in Actors, Handles(p)
  PROVE  /\ todo' \in [Actors -> Seq(Jobs)]
         /\ sent' \in [Items -> Nat]
         /\ held' \in [Items -> Nat \union {Unkeyed}]
         /\ \A j \in Items : held'[j] = Unkeyed \/ held'[j] <= sent'[j]
<1>1. ASSUME NEW i \in Items, HandleDelta(p, i)
      PROVE  /\ todo' \in [Actors -> Seq(Jobs)] /\ sent' \in [Items -> Nat]
             /\ held' \in [Items -> Nat \union {Unkeyed}]
             /\ \A j \in Items : held'[j] = Unkeyed \/ held'[j] <= sent'[j]
  <2>1. PICK h \in 0 .. Held(i) + 1 :
          /\ held' = [held EXCEPT ![i] = h]
          /\ Does(p, <<Remember(i)>> \o
               (IF h = Held(i) + 1 THEN <<>>
                ELSE <<Emit(Delta(i, sent[i] - Held(i) + 1, sent[i] + 1 - h))>>))
    BY <1>1 DEF HandleDelta
  <2>2. sent[i] \in Nat /\ Held(i) \in Nat /\ Held(i) <= sent[i]
    BY DEF ProducerTypes, Held, Unkeyed
  <2>3. sent' = [sent EXCEPT ![i] = sent[i] + 1]
    BY <1>1 DEF HandleDelta
  <2>4. sent' \in [Items -> Nat]
    BY <2>2, <2>3 DEF ProducerTypes
  <2>5. held' \in [Items -> Nat \union {Unkeyed}] /\ \A j \in Items : held'[j] = Unkeyed \/ held'[j] <= sent'[j]
    BY <2>1, <2>2, <2>3 DEF ProducerTypes
  <2>6. todo' \in [Actors -> Seq(Jobs)]
    <3> DEFINE e == Delta(i, sent[i] - Held(i) + 1, sent[i] + 1 - h)
    <3>1. Remember(i) \in Jobs /\ Emit(e) \in Jobs
      BY <2>2, EventTypes, JobTypes
    <3>2. <<Remember(i)>> \in Seq(Jobs) /\ <<>> \in Seq(Jobs) /\ <<Emit(e)>> \in Seq(Jobs)
      BY <3>1
    <3>3. <<Remember(i)>> \o (IF h = Held(i) + 1 THEN <<>> ELSE <<Emit(e)>>) \in Seq(Jobs)
      BY <3>2, ConcatProperties
    <3> QED
      BY <2>1, <3>3, DoesTypes
  <2> QED
    BY <2>4, <2>5, <2>6
<1>2. ASSUME NEW S \in SUBSET Items, held' = Taken(S), sent' = sent
      PROVE  /\ sent' \in [Items -> Nat] /\ held' \in [Items -> Nat \union {Unkeyed}]
             /\ \A j \in Items : held'[j] = Unkeyed \/ held'[j] <= sent'[j]
  BY <1>2, FlushesTypes DEF ProducerTypes
<1>3. ASSUME NEW i \in Items, HandleItem(p, i) PROVE todo' \in [Actors -> Seq(Jobs)]
  BY <1>3, ItemJobsTypes, DoesTypes DEF HandleItem
<1>4. ASSUME HandleUsage(p) PROVE todo' \in [Actors -> Seq(Jobs)] /\ UNCHANGED <<sent, held>>
  <2>1. <<Emit(Note("usage", 0))>> \in Seq(Jobs)
    BY EventTypes, JobTypes
  <2> QED
    BY <1>4, <2>1, DoesTypes DEF HandleUsage
<1>5. ASSUME NEW status \in Terminal, HandleEnd(p, status) PROVE todo' \in [Actors -> Seq(Jobs)]
  <2>1. Flushes(Items) \in Seq(Jobs) /\ <<Settle(status)>> \in Seq(Jobs)
    BY FlushesTypes, JobTypes
  <2>2. Closing(status) \in Seq(Jobs)
    BY <2>1, ConcatProperties DEF Closing
  <2> QED
    BY <1>5, <2>2, DoesTypes DEF HandleEnd
<1>6. \A i \in Items : HandleItem(p, i) => held' = Taken({i}) /\ sent' = sent
  BY DEF HandleItem
<1>7. \A status \in Terminal : HandleEnd(p, status) => held' = Taken(Items) /\ sent' = sent
  BY DEF HandleEnd
<1>8. UNCHANGED <<sent, held>> =>
        /\ sent' \in [Items -> Nat] /\ held' \in [Items -> Nat \union {Unkeyed}]
        /\ \A j \in Items : held'[j] = Unkeyed \/ held'[j] <= sent'[j]
  BY DEF ProducerTypes
<1> QED
  BY <1>1, <1>2, <1>3, <1>4, <1>5, <1>6, <1>7, <1>8 DEF Handles

LEMMA ReceiveTypes == ASSUME ProducerTypes, Codex PROVE ProducerTypes'
<1>1. /\ todo' \in [Actors -> Seq(Jobs)] /\ sent' \in [Items -> Nat]
      /\ held' \in [Items -> Nat \union {Unkeyed}]
      /\ \A j \in Items : held'[j] = Unkeyed \/ held'[j] <= sent'[j]
  BY CodexHandles, HandleTypes DEF Handling, Actors
<1>2. UNCHANGED <<low, log, row, astray, rawItems, stage, early, context, meta, final>>
  BY CodexHandles DEF Handling
<1>3. usage' \in BOOLEAN /\ ended' \in BOOLEAN /\ done' \subseteq Items
  BY CodexHandles DEF ProducerTypes
<1> QED
  BY <1>1, <1>2, <1>3 DEF ProducerTypes

LEMMA OneMore ==
  ASSUME NEW S, NEW s \in Seq(S), NEW e \in S
  PROVE  s \o <<e>> \in Seq(S) /\ Len(s \o <<e>>) = Len(s) + 1
<1>1. <<e>> \in Seq(S) /\ Len(<<e>>) = 1
  OBVIOUS
<1> QED
  BY <1>1, ConcatProperties

(* The buffer of notifications keeps within its size.                      *)
LEMMA KeptTypes ==
  ASSUME ProducerTypes, NEW note \in Notices
  PROVE  Kept(note) \in Seq(Notices) /\ Len(Kept(note)) <= BufferSize
<1>1. early \in Seq(Notices) /\ Len(early) <= BufferSize /\ Len(early) \in Nat /\ BufferSize \in Nat \ {0}
  BY LenProperties, StreamAssumption DEF ProducerTypes
<1>2. CASE Len(early) < BufferSize
  <2>1. early \o <<note>> \in Seq(Notices) /\ Len(early \o <<note>>) = Len(early) + 1
    BY <1>1, OneMore
  <2> QED
    BY <1>1, <1>2, <2>1 DEF Kept
<1>3. CASE ~(Len(early) < BufferSize)
  <2>1. early # <<>>
    BY <1>1, <1>3
  <2>2. Tail(early) \in Seq(Notices) /\ Len(Tail(early)) = Len(early) - 1
    BY <1>1, <2>1, HeadTailProperties
  <2>3. Tail(early) \o <<note>> \in Seq(Notices) /\ Len(Tail(early) \o <<note>>) = Len(Tail(early)) + 1
    BY <2>2, OneMore
  <2> QED
    BY <1>1, <1>3, <2>2, <2>3 DEF Kept
<1> QED
  BY <1>2, <1>3

LEMMA NamingTypes == ASSUME ProducerTypes, Naming PROVE ProducerTypes'
<1>1. CASE ReceiveNameless
  <2>1. ASSUME NEW type \in {"delta", "item", "usage"} \union Terminal, NEW i \in Items \union {0}, Buffer(type, i)
        PROVE  early' \in Seq(Notices) /\ Len(early') <= BufferSize
    <3>1. Note(type, i) \in Notices
      BY DEF Note, Notices
    <3> QED
      BY <2>1, <3>1, KeptTypes DEF Buffer, ProducerTypes
  <2>2. /\ early' \in Seq(Notices) /\ Len(early') <= BufferSize
        /\ done' \subseteq Items /\ usage' \in BOOLEAN /\ ended' \in BOOLEAN
    BY <1>1, <2>1 DEF ReceiveNameless, ProducerTypes
  <2>3. astray' = TRUE /\ UNCHANGED <<low, log, row, rawItems, sent, stage, context, held, meta, todo, final>>
    BY <1>1 DEF ReceiveNameless, table
  <2> QED
    BY <2>2, <2>3 DEF ProducerTypes
<1>2. CASE TurnStarted \/ TurnAnswered
  <2>1. early' = <<>> /\ stage' \in {"routed", "over"}
    BY <1>2 DEF TurnStarted, TurnAnswered, RegisterTurn
  <2>2. early' \in Seq(Notices) /\ Len(early') <= BufferSize
    BY <2>1, StreamAssumption
  <2>3. UNCHANGED <<low, log, row, astray, rawItems, sent, done, usage, ended, context, held, meta, todo, final>>
    BY <1>2 DEF TurnStarted, TurnAnswered, RegisterTurn, table, codex
  <2> QED
    BY <2>1, <2>2, <2>3 DEF ProducerTypes
<1> QED
  BY <1>1, <1>2 DEF Naming

LEMMA ProduceTypes ==
  ASSUME ProducerTypes, Producers PROVE ProducerTypes'
<1>1. CASE Finish
  <2>1. Flushes(Items) \in Seq(Jobs) /\ <<Settle("failed")>> \in Seq(Jobs)
    BY FlushesTypes, JobTypes DEF Terminal
  <2>2. Closing("failed") \in Seq(Jobs)
    BY <2>1, ConcatProperties DEF Closing
  <2>3. todo' \in [Actors -> Seq(Jobs)]
    BY <1>1, <2>2, DoesTypes DEF Finish, Actors
  <2>4. held' = Taken(Items) /\ astray' = TRUE
        /\ UNCHANGED <<low, log, row, rawItems, sent, done, usage, ended, stage, early, context, meta, final>>
    BY <1>1 DEF Finish, table, codex, routing
  <2>5. held' \in [Items -> Nat \union {Unkeyed}] /\ \A j \in Items : held'[j] = Unkeyed \/ held'[j] <= sent[j]
    BY <2>4, FlushesTypes
  <2> QED
    BY <2>3, <2>4, <2>5 DEF ProducerTypes
<1>2. CASE Persist \/ RunFails
  <2>1. log' \in Seq(Events) /\ row' \in Terminal
    <3>1. PICK status \in Terminal : FinalizeTurn(status)
      BY <1>2 DEF Persist, RunFails, ProducerTypes, Terminal
    <3> QED
      BY <3>1, EventTypes, AppendProperties DEF FinalizeTurn, ProducerTypes
  <2>2. /\ UNCHANGED <<low, rawItems, sent, done, usage, ended, early, context, held, meta, todo, final>>
        /\ astray' \in BOOLEAN /\ stage' \in {stage, "over"}
    BY <1>2 DEF Persist, RunFails, codex, buffers, routing, ProducerTypes
  <2> QED
    BY <2>1, <2>2 DEF ProducerTypes
<1>3. CASE Detach
  BY <1>3 DEF Detach, ProducerTypes, table, codex, buffers, routing
<1>4. ASSUME NEW p \in Actors, Perform(p) PROVE ProducerTypes'
  <2>1. UNCHANGED <<low, row, astray, rawItems, sent, done, usage, ended, stage, early, context, held>>
    BY <1>4 DEF Perform, codex, routing
  <2> QED
    BY <1>4, <2>1, PerformTypes DEF ProducerTypes
<1>5. ASSUME NEW p \in Replayers, Replay(p) PROVE ProducerTypes'
  <2>1. Handling(p) /\ p \in Actors /\ UNCHANGED <<done, usage, ended>>
    BY <1>5, ReplayHandles
  <2>2. /\ todo' \in [Actors -> Seq(Jobs)] /\ sent' \in [Items -> Nat]
        /\ held' \in [Items -> Nat \union {Unkeyed}]
        /\ \A j \in Items : held'[j] = Unkeyed \/ held'[j] <= sent'[j]
    BY <2>1, HandleTypes DEF Handling
  <2>3. UNCHANGED <<low, log, row, astray, rawItems, stage, early, context, meta, final>>
    BY <2>1 DEF Handling
  <2> QED
    BY <2>1, <2>2, <2>3 DEF ProducerTypes
<1> QED
  BY <1>1, <1>2, <1>3, <1>4, <1>5, ReceiveTypes, NamingTypes DEF Producers, Turn, WorkerPersists

(* A restart.                                                              *)
LEMMA CrashTypes == ASSUME ProducerTypes, Crash PROVE ProducerTypes'
<1>1. todo' \in [Actors -> Seq(Jobs)]
  <2>1. <<>> \in Seq(Jobs)
    OBVIOUS
  <2> QED
    BY <2>1 DEF Crash
<1>2. /\ UNCHANGED <<low, log, row, rawItems, sent, done, usage, ended, stage>>
      /\ context' = "lost" /\ astray' \in BOOLEAN /\ meta' = {} /\ final' = "none"
      /\ held' = [i \in Items |-> Unkeyed]
  BY DEF Crash, table, codex, ProducerTypes
<1>3. early' \in Seq(Notices) /\ Len(early') <= BufferSize
  <2>1. early' = <<>>
    BY DEF Crash
  <2> QED
    BY <2>1, StreamAssumption
<1> QED
  BY <1>1, <1>2, <1>3 DEF ProducerTypes

LEMMA PrunedTypes ==
  ASSUME ProducerTypes, NEW n \in 0 .. Len(log)
  PROVE  /\ RecoveredLog \in Seq(Events)
         /\ Len(RecoveredLog) \in Nat /\ Len(log) \in Nat /\ Len(log) <= Len(RecoveredLog)
         /\ Pruned(n) \in Nat /\ Pruned(n) <= Len(RecoveredLog)
         /\ SubSeq(RecoveredLog, Pruned(n) + 1, Len(RecoveredLog)) \in Seq(Events)
         /\ Len(SubSeq(RecoveredLog, Pruned(n) + 1, Len(RecoveredLog))) = Len(RecoveredLog) - Pruned(n)
         /\ \A k \in 1 .. Len(RecoveredLog) - Pruned(n) :
              SubSeq(RecoveredLog, Pruned(n) + 1, Len(RecoveredLog))[k] = RecoveredLog[k + Pruned(n)]
<1>1. RecoveredLog \in Seq(Events) /\ Len(log) \in Nat
      /\ Len(RecoveredLog) \in Nat /\ Len(log) <= Len(RecoveredLog)
  BY EventTypes, AppendProperties, LenProperties DEF RecoveredLog, ProducerTypes
<1>2. Pruned(n) \in Nat /\ Pruned(n) <= Len(RecoveredLog)
  BY <1>1, StreamAssumption DEF Pruned
<1> DEFINE l == RecoveredLog
           m == Pruned(n)
<1>3. \A k \in m + 1 .. Len(l) : l[k] \in Events
  BY <1>1, <1>2, ElementOfSeq
<1>4. /\ SubSeq(l, m + 1, Len(l)) \in Seq(Events)
      /\ Len(SubSeq(l, m + 1, Len(l))) = IF m + 1 <= Len(l) THEN Len(l) - (m + 1) + 1 ELSE 0
      /\ \A k \in 1 .. Len(l) - (m + 1) + 1 : SubSeq(l, m + 1, Len(l))[k] = l[m + 1 + k - 1]
  <2>1. m + 1 \in Int /\ Len(l) \in Int
    BY <1>1, <1>2
  <2> HIDE DEF l, m
  <2> QED
    BY <1>3, <2>1, SubSeqProperties
<1> HIDE DEF l, m
<1>5. Len(SubSeq(l, m + 1, Len(l))) = Len(l) - m
  BY <1>1, <1>2, <1>4 DEF l, m
<1>6. \A k \in 1 .. Len(l) - m : SubSeq(l, m + 1, Len(l))[k] = l[k + m]
  <2> SUFFICES ASSUME NEW k \in 1 .. Len(l) - m PROVE SubSeq(l, m + 1, Len(l))[k] = l[k + m]
    OBVIOUS
  <2>1. Len(l) \in Nat /\ m \in Nat
    BY <1>1, <1>2 DEF l, m
  <2>2. k \in 1 .. Len(l) - (m + 1) + 1 /\ m + 1 + k - 1 = k + m
    BY <2>1
  <2> QED
    BY <1>4, <2>2
<1> QED
  BY <1>1, <1>2, <1>4, <1>5, <1>6 DEF l, m

LEMMA RecoverTypes ==
  ASSUME ProducerTypes, Recover PROVE ProducerTypes' /\ LastId <= LastId'
<1>1. PICK n \in 0 .. Len(log) :
        /\ row' \in RowsLeft(n)
        /\ low' = low + Pruned(n)
        /\ log' = SubSeq(RecoveredLog, Pruned(n) + 1, Len(RecoveredLog))
  BY DEF Recover, LowAfter
<1>2. /\ Len(RecoveredLog) \in Nat /\ Len(log) \in Nat /\ Len(log) <= Len(RecoveredLog)
      /\ Pruned(n) \in Nat /\ Pruned(n) <= Len(RecoveredLog)
      /\ log' \in Seq(Events) /\ Len(log') = Len(RecoveredLog) - Pruned(n)
  BY <1>1, PrunedTypes
<1>3. row' \in {"running", "gone"} \union Terminal
  BY <1>1 DEF RowsLeft, RecoveredRow, ProducerTypes, Terminal
<1>4. LastId <= LastId' /\ low' \in Nat
  <2>1. low \in Nat /\ low' = low + Pruned(n)
    BY <1>1 DEF ProducerTypes
  <2> QED
    BY <1>2, <2>1 DEF LastId
<1>5. UNCHANGED <<astray, codex, buffers, final>> /\ context' = "none"
  BY DEF Recover
<1> QED
  BY <1>2, <1>3, <1>4, <1>5 DEF ProducerTypes, codex, buffers, routing

LEMMA IdsAreNat == ASSUME ProducerTypes PROVE LastId \in Nat /\ low \in Nat /\ low <= LastId
  BY LenProperties DEF ProducerTypes, LastId

(* Whoever leaves the client alone, and takes no id back, keeps its types. *)
LEMMA ClientKept ==
  ASSUME ProducerTypes, ProducerTypes', ClientTypes, UNCHANGED client, LastId <= LastId'
  PROVE  ClientTypes'
<1>1. LastId \in Nat /\ LastId' \in Nat
  <2>1. ProducerTypes => LastId \in Nat
    BY IdsAreNat
  <2> QED
    BY <2>1, IdsAreNat, LenProperties DEF ProducerTypes, LastId
<1>2. UNCHANGED <<kind, phase, page, cursor, got, result>>
  BY DEF client
<1>3. cursor' \in 0 .. LastId' /\ page'.last <= LastId'
  BY <1>1, <1>2 DEF ClientTypes
<1> QED
  BY <1>2, <1>3 DEF ClientTypes

LEMMA ProducersGrow ==
  ASSUME ProducerTypes, Producers
  PROVE  UNCHANGED client /\ LastId <= LastId'
<1>1. ASSUME NEW e \in Events, log' = Append(log, e), low' = low PROVE LastId <= LastId'
  BY <1>1, AppendProperties, LenProperties DEF LastId, ProducerTypes
<1>2. ASSUME UNCHANGED <<low, log>> PROVE LastId <= LastId'
  BY <1>2, LenProperties DEF LastId, ProducerTypes
<1>3. CASE Codex \/ \E p \in Replayers : Replay(p)
  BY <1>2, <1>3, CodexHandles, ReplayHandles DEF Handling
<1>4. CASE Finish \/ Detach \/ Naming
  BY <1>2, <1>4 DEF Finish, Detach, Naming, ReceiveNameless, TurnStarted, TurnAnswered, RegisterTurn, table
<1>5. CASE Persist \/ RunFails
  BY <1>1, <1>5, EventTypes DEF Persist, RunFails, FinalizeTurn
<1>6. ASSUME NEW p \in Actors, Perform(p) PROVE UNCHANGED client /\ LastId <= LastId'
  <2>1. UNCHANGED <<low, client>>
    BY <1>6 DEF Perform
  <2>2. CASE AppendEvent(p)
    BY <1>1, <1>6, <2>1, <2>2, PerformTypes, JobParts DEF AppendEvent
  <2>3. CASE RememberItem(p) \/ FlushText(p) \/ SettleTurn(p)
    BY <1>2, <2>1, <2>3 DEF RememberItem, FlushText, SettleTurn
  <2> QED
    BY <1>6, <2>2, <2>3 DEF Perform
<1> QED
  BY <1>3, <1>4, <1>5, <1>6 DEF Producers, Turn, WorkerPersists

LEMMA HangUpTypes ==
  ASSUME ProducerTypes, ClientTypes, HangUp, UNCHANGED <<low, log, kind>>,
         result' \in {"none", "completed", "failed", "error"}
  PROVE  ClientTypes'
<1>1. LastId' = LastId /\ LastId \in Nat
  BY IdsAreNat DEF LastId
<1>2. page' = [next |-> 1, last |-> 0] /\ phase' \in {"away", "over"}
  BY DEF HangUp, NoPage
<1>3. cursor' \in 0 .. LastId /\ got' \subseteq 1 .. cursor'
  <2>1. CASE kind = "events"
    <3>1. cursor' = cursor /\ got' = got
      BY <2>1 DEF HangUp
    <3> QED
      BY <3>1 DEF ClientTypes
  <2>2. CASE kind # "events"
    <3>1. cursor' = 0 /\ got' = {}
      BY <2>2 DEF HangUp
    <3>2. 0 \in 0 .. LastId
      BY <1>1
    <3> QED
      BY <3>1, <3>2
  <2> QED
    BY <2>1, <2>2
<1> QED
  BY <1>1, <1>2, <1>3 DEF ClientTypes

LEMMA PageTypes ==
  ASSUME ProducerTypes, NEW after \in 0 .. LastId
  PROVE  /\ PageAfter(after) \in [next : Nat \ {0}, last : Nat]
         /\ PageAfter(after).last <= LastId /\ after < PageAfter(after).next
  BY IdsAreNat, StreamAssumption DEF PageAfter

LEMMA ListTypes == ASSUME ProducerTypes, ClientTypes, List PROVE ClientTypes'
<1>1. /\ page' = PageAfter(cursor) /\ phase' = AtEndOf(PageAfter(cursor))
      /\ UNCHANGED <<low, log, kind, cursor, got, result>>
  BY DEF List, table
<1>2. LastId' = LastId
  BY <1>1 DEF LastId
<1>3. page' \in [next : Nat \ {0}, last : Nat] /\ page'.last <= LastId /\ cursor < page'.next
  BY <1>1, PageTypes DEF ClientTypes
<1>4. phase' \in {"list", "write", "check"} /\ (phase' = "write" => page'.next <= page'.last)
  BY <1>1 DEF AtEndOf
<1> QED
  BY <1>1, <1>2, <1>3, <1>4 DEF ClientTypes

LEMMA WriteTypes == ASSUME ProducerTypes, ClientTypes, Write PROVE ClientTypes'
<1>1. phase = "write" /\ Advance /\ UNCHANGED <<low, log, kind, result>>
  BY DEF Write, SendEvent, Forward, table
<1>2. LastId' = LastId /\ LastId \in Nat
  BY <1>1, IdsAreNat DEF LastId
<1>3. /\ page.next \in Nat \ {0} /\ page.last \in Nat /\ page.last <= LastId
      /\ cursor \in Nat /\ cursor < page.next /\ page.next <= page.last
  BY <1>1, <1>2 DEF ClientTypes
<1>4. page' = [page EXCEPT !.next = page.next + 1] /\ cursor' = page.next /\ got' = got \union {page.next}
      /\ phase' = AtEndOf(page')
  BY <1>1 DEF Advance
<1>5. page' \in [next : Nat \ {0}, last : Nat] /\ page'.next = page.next + 1 /\ page'.last = page.last
  BY <1>3, <1>4 DEF ClientTypes
<1>6. phase' \in {"list", "write", "check"} /\ (phase' = "write" => page'.next <= page'.last)
  BY <1>4 DEF AtEndOf
<1>7. got' \subseteq 1 .. cursor'
  BY <1>3, <1>4 DEF ClientTypes
<1> QED
  BY <1>1, <1>2, <1>3, <1>4, <1>5, <1>6, <1>7 DEF ClientTypes

LEMMA TypesInit == Init => ProducerTypes /\ ClientTypes
<1> SUFFICES ASSUME Init PROVE ProducerTypes /\ ClientTypes
  OBVIOUS
<1>1. <<>> \in Seq(Jobs) /\ <<>> \in Seq(Events) /\ Len(<<>>) = 0
  OBVIOUS
<1>2. ProducerTypes
  <2>1. /\ low \in Nat /\ log \in Seq(Events) /\ row \in {"running", "gone"} \union Terminal
        /\ final \in {"none"} \union Terminal /\ done \subseteq Items /\ meta \subseteq Items
        /\ context \in {"registered", "detached", "lost", "none"}
        /\ stage \in {"starting", "routed", "over"}
    BY <1>1 DEF Init
  <2>2. astray \in BOOLEAN /\ rawItems \in BOOLEAN /\ usage \in BOOLEAN /\ ended \in BOOLEAN
    BY DEF Init
  <2>3. sent \in [Items -> Nat]
    BY DEF Init
  <2>4. held \in [Items -> Nat \union {Unkeyed}] /\ \A i \in Items : held[i] = Unkeyed
    BY DEF Init
  <2>5. todo \in [Actors -> Seq(Jobs)]
    BY <1>1 DEF Init
  <2>6. early \in Seq(Notices) /\ Len(early) <= BufferSize
    <3>1. early = <<>>
      BY DEF Init
    <3> QED
      BY <3>1, StreamAssumption
  <2> QED
    BY <2>1, <2>2, <2>3, <2>4, <2>5, <2>6 DEF ProducerTypes
<1>3. LastId = 0
  BY <1>1 DEF Init, LastId
<1>4. page = [next |-> 1, last |-> 0] /\ phase \in {"list", "check"}
  BY DEF Init, NoPage, FirstPhase
<1>5. kind \in Kinds
  BY DEF Init, Kinds
<1>6. ClientTypes
  BY <1>3, <1>4, <1>5 DEF Init, ClientTypes
<1> QED
  BY <1>2, <1>6

LEMMA TypesStep == ProducerTypes /\ ClientTypes /\ [Next]_vars => ProducerTypes' /\ ClientTypes'
<1> SUFFICES ASSUME ProducerTypes, ClientTypes, [Next]_vars PROVE ProducerTypes' /\ ClientTypes'
  OBVIOUS
<1>p. ASSUME UNCHANGED <<table, astray, codex, context, buffers, final>> PROVE ProducerTypes'
  BY <1>p DEF ProducerTypes, table, codex, buffers, routing
<1>1. CASE Producers
  BY <1>1, ProduceTypes, ProducersGrow, ClientKept
<1>2. CASE Crash
  <2>1. HangUp /\ UNCHANGED <<low, log, kind, result>>
    BY <1>2 DEF Crash, table
  <2> QED
    BY <1>2, <2>1, CrashTypes, HangUpTypes DEF ClientTypes
<1>3. CASE Recover
  BY <1>3, RecoverTypes, ClientKept DEF Recover
<1>4. CASE List
  BY <1>4, <1>p, ListTypes DEF List
<1>5. CASE Write
  BY <1>5, <1>p, WriteTypes DEF Write, SendEvent, Forward
<1>6. CASE WriteFails
  <2>1. HangUp /\ UNCHANGED <<low, log, kind, result>>
    BY <1>6 DEF WriteFails, table
  <2> QED
    BY <1>6, <1>p, <2>1, HangUpTypes DEF WriteFails, ClientTypes
<1>7. CASE EndResponse \/ EndChat \/ AnswerObject
  <2>1. ASSUME NEW built, Answer(built) PROVE ProducerTypes' /\ ClientTypes'
    <3>1. HangUp /\ UNCHANGED <<low, log, kind>>
      BY <2>1 DEF Answer, table
    <3>2. result' \in {"none", "completed", "failed", "error"}
      BY <2>1 DEF Answer, Outcome
    <3> QED
      BY <2>1, <3>1, <3>2, <1>p, HangUpTypes DEF Answer
  <2> QED
    BY <1>7, <2>1 DEF EndResponse, EndChat, AnswerObject
<1>8. CASE Reconnect \/ GoesOn
  <2>1. phase' = "list" /\ UNCHANGED <<low, log, kind, page, cursor, got, result>>
    BY <1>8 DEF Reconnect, GoesOn, table
  <2>2. ClientTypes'
    BY <2>1 DEF ClientTypes, LastId
  <2> QED
    BY <1>8, <1>p, <2>2 DEF Reconnect, GoesOn
<1>9. CASE UNCHANGED vars
  BY <1>9, <1>p DEF vars, ClientTypes, LastId, table, client
<1> QED
  BY <1>1, <1>2, <1>3, <1>4, <1>5, <1>6, <1>7, <1>8, <1>9 DEF Next, Producers, Client

(* The tables, buffers, cursors and pages of a turn and its client keep    *)
(* within their types, and no id is given out twice: append_event,         *)
(* list_events, recover_incomplete_turns.                                  *)
THEOREM TypeCorrect == Spec => []TypeOK
<1>1. ProducerTypes /\ ClientTypes => TypeOK
  BY TypesAreTypes
<1> QED
  BY <1>1, TypesInit, TypesStep, PTL DEF Spec

-----------------------------------------------------------------------------
(* Nothing is buffered, nor replayed, if every notification names the      *)
(* thread.                                                                 *)
Prompt == ~astray => early = <<>> /\ replay = [p \in Replayers |-> <<>>]

LEMMA PromptInit == Init => Prompt
  BY DEF Init, Prompt

LEMMA ReplayIsAstray == ASSUME Prompt, NEW p \in Replayers, Replay(p) PROVE astray
  BY DEF Prompt, Replay

LEMMA PromptStep == ProducerTypes /\ Prompt /\ [Next]_vars => Prompt'
<1> SUFFICES ASSUME ProducerTypes, Prompt, [Next]_vars PROVE Prompt'
  OBVIOUS
<1>1. CASE TurnStarted \/ TurnAnswered
  <2>1. PICK p \in Replayers :
          early' = <<>> /\ replay' = [replay EXCEPT ![p] = early] /\ astray' = astray
    BY <1>1 DEF TurnStarted, TurnAnswered, RegisterTurn, Replayers
  <2>2. ~astray => replay' = [q \in Replayers |-> <<>>]
    BY <2>1 DEF Prompt
  <2> QED
    BY <2>1, <2>2 DEF Prompt
<1>2. ASSUME NEW p \in Replayers, Replay(p) PROVE Prompt'
  BY <1>2, ReplayIsAstray DEF Replay, Prompt
<1>3. CASE ReceiveNameless \/ Finish \/ RunFails
  BY <1>3 DEF ReceiveNameless, Finish, RunFails, Prompt
<1>4. CASE Crash
  BY <1>4 DEF Crash, Prompt
<1>5. CASE Codex
  BY <1>5, CodexHandles DEF Handling, Prompt
<1>6. ASSUME NEW p \in Actors, Perform(p) PROVE Prompt'
  BY <1>6 DEF Perform, routing, Prompt
<1>7. CASE Persist \/ Detach \/ Recover \/ Client \/ WriteFails \/ UNCHANGED vars
  BY <1>7 DEF Persist, Detach, Recover, Client, List, Write, SendEvent, Forward, Reconnect, GoesOn,
              EndResponse, EndChat, AnswerObject, Answer, WriteFails, vars, buffers, routing, Prompt
<1> QED
  BY <1>1, <1>2, <1>3, <1>4, <1>5, <1>6, <1>7 DEF Next, Naming, Turn, WorkerPersists

-----------------------------------------------------------------------------
(* The pieces that have left the sanitizer.                                *)
Out(i) == sent[i] - Held(i)
Apart(e, f) == e.to < f.from \/ f.to < e.from
Follows(c, e, f) == IF c THEN Apart(e, f) ELSE f.to < e.from

Within(e, from, to) == from <= e.from /\ e.from <= e.to + 1 /\ e.to <= to

(* A text lies within what has left the sanitizer; of two recorded texts,  *)
(* the later one comes later, or at least apart; what a thread has yet to  *)
(* append comes after what is recorded.                                    *)
Bounds ==
  \A i \in Items :
    /\ \A e \in Range(log) : Text(e, i) => Within(e, 1, Out(i))
    /\ \A p \in Actors : \A e \in Coming(todo[p]) : Text(e, i) => Within(e, 1, Out(i))

Recorded ==
  \A i \in Items : \A j, k \in DOMAIN log :
    j < k /\ Text(log[j], i) /\ Text(log[k], i) => Follows(astray, log[k], log[j])

Order ==
  \A i \in Items :
    /\ \A p \in Actors : \A e \in Coming(todo[p]), f \in Range(log) :
         Text(e, i) /\ Text(f, i) => Follows(astray, e, f)
    /\ \A p, q \in Actors : \A e \in Coming(todo[p]), f \in Coming(todo[q]) :
         p # q /\ Text(e, i) /\ Text(f, i) => Apart(e, f)

Singles == \A p \in Actors : Single(todo[p])

(* The reader thread is the only one with work, unless something has gone  *)
(* astray.                                                                 *)
Alone == ~astray => \A p \in Actors : p # "reader" => todo[p] = <<>>

TextInv == Bounds /\ Recorded /\ Order /\ Singles /\ Alone

LEMMA TextsHaveEnds ==
  ASSUME NEW e \in Events, NEW i, Text(e, i)
  PROVE  e \in Texts /\ e.from \in Int /\ e.to \in Int
<1>1. e \notin Notes
  BY DEF Notes, Text
<1> QED
  BY <1>1 DEF Events, Texts

LEMMA BornEvents == ASSUME NEW s \in Seq(Jobs) PROVE Coming(s) \subseteq Events
<1> SUFFICES ASSUME NEW e \in Coming(s) PROVE e \in Events
  OBVIOUS
<1>1. PICK k \in 1 .. Len(s) : e \in Bears(s[k])
  BY ComingIs
<1>2. s[k] \in Jobs
  BY ElementOfSeq
<1> QED
  BY <1>1, <1>2, JobParts

LEMMA ComingAreEvents ==
  ASSUME ProducerTypes
  PROVE  /\ \A p \in Actors : Coming(todo[p]) \subseteq Events
         /\ Range(log) \subseteq Events
         /\ \A k \in DOMAIN log : log[k] \in Events /\ log[k] \in Range(log) /\ k \in Nat
<1>1. ASSUME NEW p \in Actors PROVE Coming(todo[p]) \subseteq Events
  BY BornEvents DEF ProducerTypes
<1>2. log \in Seq(Events)
  BY DEF ProducerTypes
<1>3. Range(log) = {log[k] : k \in 1 .. Len(log)} /\ DOMAIN log = 1 .. Len(log) /\ Len(log) \in Nat
  BY <1>2, RangeEquality, LenProperties
<1>4. \A k \in 1 .. Len(log) : log[k] \in Events
  BY <1>2, ElementOfSeq
<1> QED
  BY <1>1, <1>3, <1>4

(* Whatever appends no text, and takes up no new one, keeps the texts.     *)
LEMMA TextsStay ==
  ASSUME ProducerTypes, ProducerTypes', TextInv, Alone', astray => astray',
         \A i \in Items : Out(i) \in Int /\ Out(i)' \in Int /\ Out(i) <= Out(i)',
         \A p \in Actors : Coming(todo'[p]) \subseteq Coming(todo[p]) /\ Single(todo'[p]),
         NEW m \in Nat,
         \A k \in DOMAIN log' : \A i \in Items :
           Text(log'[k], i) => k + m \in DOMAIN log /\ log'[k] = log[k + m]
  PROVE  TextInv'
<1>1. ASSUME NEW i \in Items, NEW e \in Range(log'), Text(e, i) PROVE e \in Range(log)
  <2>1. PICK k \in DOMAIN log' : e = log'[k]
    BY <1>1 DEF Range
  <2> QED
    BY <1>1, <2>1, ComingAreEvents
<1>2. ASSUME NEW e \in Events, NEW i \in Items, Text(e, i) PROVE e.from \in Int /\ e.to \in Int
  BY <1>2, TextsHaveEnds
<1>3. ASSUME NEW e, NEW f, e.from \in Int, e.to \in Int, f.from \in Int, f.to \in Int,
             e.from <= e.to + 1, Follows(astray, e, f)
      PROVE  Follows(astray', e, f)
  BY <1>3 DEF Follows, Apart
<1>4. Bounds'
  <2>1. ASSUME NEW i \in Items, NEW e \in Range(log'), Text(e, i)
        PROVE  Within(e, 1, Out(i)')
    <3>1. e \in Range(log) /\ e.from \in Int /\ e.to \in Int
      BY <1>1, <1>2, <2>1, ComingAreEvents
    <3>2. Within(e, 1, Out(i))
      BY <2>1, <3>1 DEF TextInv, Bounds, Within
    <3> QED
      BY <3>1, <3>2 DEF Within
  <2>2. ASSUME NEW i \in Items, NEW p \in Actors, NEW e \in Coming(todo'[p]), Text(e, i)
        PROVE  Within(e, 1, Out(i)')
    <3>1. e \in Coming(todo[p])
      OBVIOUS
    <3>2. e.from \in Int /\ e.to \in Int
      BY <1>2, <2>2, <3>1, ComingAreEvents
    <3>3. Within(e, 1, Out(i))
      BY <2>2, <3>1 DEF TextInv, Bounds, Within
    <3> QED
      BY <3>2, <3>3 DEF Within
  <2> QED
    BY <2>1, <2>2 DEF Bounds
<1>5. Recorded'
  <2> SUFFICES ASSUME NEW i \in Items, NEW j \in DOMAIN log', NEW k \in DOMAIN log',
                      j < k, Text(log'[j], i), Text(log'[k], i)
               PROVE  Follows(astray', log'[k], log'[j])
    BY DEF Recorded
  <2>1. j + m \in DOMAIN log /\ log'[j] = log[j + m] /\ k + m \in DOMAIN log /\ log'[k] = log[k + m]
    OBVIOUS
  <2>2. j \in Nat /\ k \in Nat
    <3>1. DOMAIN log' = 1 .. Len(log') /\ Len(log') \in Nat
      BY LenProperties DEF ProducerTypes
    <3> QED
      BY <3>1
  <2>3. j + m < k + m
    BY <2>2
  <2>4. Follows(astray, log[k + m], log[j + m])
    BY <2>1, <2>3 DEF TextInv, Recorded
  <2>5. log[k + m] \in Events /\ log[j + m] \in Events /\ log[k + m] \in Range(log)
    BY <2>1, ComingAreEvents
  <2>6. log[k + m].from <= log[k + m].to + 1
    BY <2>1, <2>5 DEF TextInv, Bounds, Within
  <2>7. /\ log[k + m].from \in Int /\ log[k + m].to \in Int
        /\ log[j + m].from \in Int /\ log[j + m].to \in Int
    BY <1>2, <2>1, <2>5
  <2> QED
    BY <1>3, <2>1, <2>4, <2>6, <2>7
<1>6. Order'
  <2>1. ASSUME NEW i \in Items, NEW p \in Actors, NEW e \in Coming(todo'[p]), NEW f \in Range(log'),
               Text(e, i), Text(f, i)
        PROVE  Follows(astray', e, f)
    <3>1. e \in Coming(todo[p]) /\ f \in Range(log)
      BY <1>1, <2>1
    <3>2. e \in Events /\ f \in Events
      BY <3>1, ComingAreEvents
    <3>3. Follows(astray, e, f) /\ e.from <= e.to + 1
      BY <2>1, <3>1 DEF TextInv, Order, Bounds, Within
    <3>4. e.from \in Int /\ e.to \in Int /\ f.from \in Int /\ f.to \in Int
      BY <1>2, <2>1, <3>2
    <3> QED
      BY <1>3, <3>3, <3>4
  <2>2. ASSUME NEW i \in Items, NEW p \in Actors, NEW q \in Actors, p # q,
               NEW e \in Coming(todo'[p]), NEW f \in Coming(todo'[q]), Text(e, i), Text(f, i)
        PROVE  Apart(e, f)
    <3>1. e \in Coming(todo[p]) /\ f \in Coming(todo[q])
      OBVIOUS
    <3> QED
      BY <2>2, <3>1 DEF TextInv, Order
  <2> QED
    BY <2>1, <2>2 DEF Order
<1> QED
  BY <1>4, <1>5, <1>6 DEF TextInv, Singles

(* A thread that had nothing to do takes up texts that come after all the  *)
(* others.                                                                 *)
LEMMA Started ==
  ASSUME ProducerTypes, ProducerTypes', TextInv, UNCHANGED log, astray => astray',
         NEW p \in Actors, NEW jobs \in Seq(Jobs), todo[p] = <<>>, todo' = [todo EXCEPT ![p] = jobs],
         p # "reader" => astray', Single(jobs),
         \A i \in Items : Out(i) \in Nat /\ Out(i)' \in Nat /\ Out(i) <= Out(i)',
         \A i \in Items : \A e \in Coming(jobs) :
           Text(e, i) => e.from = Out(i) + 1 /\ Within(e, 1, Out(i)')
  PROVE  TextInv'
<1>1. /\ todo'[p] = jobs /\ \A q \in Actors : q # p => todo'[q] = todo[q]
      /\ \A q \in Actors : Coming(todo'[q]) \subseteq Events
  BY BornEvents DEF ProducerTypes
<1>2. ASSUME NEW e \in Events, NEW i \in Items, Text(e, i) PROVE e.from \in Int /\ e.to \in Int
  BY <1>2, TextsHaveEnds
<1>3. ASSUME NEW e, NEW f, e.from \in Int, e.to \in Int, f.from \in Int, f.to \in Int,
             e.from <= e.to + 1, Follows(astray, e, f)
      PROVE  Follows(astray', e, f)
  BY <1>3 DEF Follows, Apart
<1>4. Bounds'
  <2>1. ASSUME NEW i \in Items, NEW e \in Range(log'), Text(e, i)
        PROVE  Within(e, 1, Out(i)')
    <3>1. e \in Range(log)
      BY <2>1
    <3>2. e.from \in Int /\ e.to \in Int
      BY <1>2, <2>1, <3>1, ComingAreEvents
    <3>3. Within(e, 1, Out(i))
      BY <2>1, <3>1 DEF TextInv, Bounds, Within
    <3> QED
      BY <3>2, <3>3 DEF Within
  <2>2. ASSUME NEW i \in Items, NEW q \in Actors, NEW e \in Coming(todo'[q]), Text(e, i)
        PROVE  Within(e, 1, Out(i)')
    <3>1. e.from \in Int /\ e.to \in Int
      BY <1>1, <1>2, <2>2
    <3>2. CASE q = p
      BY <1>1, <2>2, <3>1, <3>2
    <3>3. CASE q # p
      <4>1. e \in Coming(todo[q])
        BY <1>1, <3>3
      <4>2. Within(e, 1, Out(i))
        BY <2>2, <4>1 DEF TextInv, Bounds, Within
      <4> QED
        BY <3>1, <4>2 DEF Within
    <3> QED
      BY <3>2, <3>3 DEF Within
  <2> QED
    BY <2>1, <2>2 DEF Bounds
<1>5. Recorded'
  <2> SUFFICES ASSUME NEW i \in Items, NEW j \in DOMAIN log', NEW k \in DOMAIN log',
                      j < k, Text(log'[j], i), Text(log'[k], i)
               PROVE  Follows(astray', log'[k], log'[j])
    BY DEF Recorded
  <2>1. j \in DOMAIN log /\ k \in DOMAIN log /\ log'[j] = log[j] /\ log'[k] = log[k]
    OBVIOUS
  <2>2. Follows(astray, log[k], log[j])
    BY <2>1 DEF TextInv, Recorded
  <2>3. log[k] \in Events /\ log[j] \in Events /\ log[k] \in Range(log)
    BY <2>1, ComingAreEvents
  <2>4. log[k].from <= log[k].to + 1
    BY <2>1, <2>3 DEF TextInv, Bounds, Within
  <2>5. log[k].from \in Int /\ log[k].to \in Int /\ log[j].from \in Int /\ log[j].to \in Int
    BY <1>2, <2>1, <2>3
  <2> QED
    BY <1>3, <2>1, <2>2, <2>4, <2>5
<1>6. Order'
  <2>1. ASSUME NEW i \in Items, NEW q \in Actors, NEW e \in Coming(todo'[q]), NEW f \in Range(log'),
               Text(e, i), Text(f, i)
        PROVE  Follows(astray', e, f)
    <3>1. f \in Range(log) /\ f \in Events /\ e \in Events
      BY <1>1, ComingAreEvents
    <3>2. e.from \in Int /\ e.to \in Int /\ f.from \in Int /\ f.to \in Int
      BY <1>2, <2>1, <3>1
    <3>3. CASE q = p
      <4>1. f.to <= Out(i)
        BY <2>1, <3>1 DEF TextInv, Bounds, Within
      <4>2. e.from = Out(i) + 1
        BY <1>1, <2>1, <3>3
      <4> QED
        BY <3>2, <4>1, <4>2 DEF Follows, Apart
    <3>4. CASE q # p
      <4>1. e \in Coming(todo[q])
        BY <1>1, <3>4
      <4>2. Follows(astray, e, f) /\ e.from <= e.to + 1
        BY <2>1, <3>1, <4>1 DEF TextInv, Order, Bounds, Within
      <4> QED
        BY <1>3, <3>2, <4>2
    <3> QED
      BY <3>3, <3>4
  <2>2. ASSUME NEW i \in Items, NEW q \in Actors, NEW r \in Actors, q # r,
               NEW e \in Coming(todo'[q]), NEW f \in Coming(todo'[r]), Text(e, i), Text(f, i)
        PROVE  Apart(e, f)
    <3>1. e \in Events /\ f \in Events
      BY <1>1
    <3>2. e.from \in Int /\ e.to \in Int /\ f.from \in Int /\ f.to \in Int
      BY <1>2, <2>2, <3>1
    <3>3. CASE q = p
      <4>1. f \in Coming(todo[r]) /\ e \in Coming(jobs)
        BY <1>1, <2>2, <3>3
      <4>2. f.to <= Out(i)
        BY <2>2, <4>1 DEF TextInv, Bounds, Within
      <4>3. e.from = Out(i) + 1
        BY <2>2, <4>1
      <4> QED
        BY <3>2, <4>2, <4>3 DEF Apart
    <3>4. CASE r = p
      <4>1. e \in Coming(todo[q]) /\ f \in Coming(jobs)
        BY <1>1, <2>2, <3>4
      <4>2. e.to <= Out(i)
        BY <2>2, <4>1 DEF TextInv, Bounds, Within
      <4>3. f.from = Out(i) + 1
        BY <2>2, <4>1
      <4> QED
        BY <3>2, <4>2, <4>3 DEF Apart
    <3>5. CASE q # p /\ r # p
      <4>1. e \in Coming(todo[q]) /\ f \in Coming(todo[r])
        BY <1>1, <3>5
      <4> QED
        BY <2>2, <4>1 DEF TextInv, Order
    <3> QED
      BY <3>3, <3>4, <3>5
  <2> QED
    BY <2>1, <2>2 DEF Order
<1>7. Singles' /\ Alone'
  <2>1. Singles'
    BY <1>1 DEF TextInv, Singles
  <2>2. ASSUME ~astray', NEW q \in Actors, q # "reader" PROVE todo'[q] = <<>>
    <3>1. ~astray /\ q # p
      BY <2>2
    <3> QED
      BY <1>1, <2>2, <3>1 DEF TextInv, Alone
  <2> QED
    BY <2>1, <2>2 DEF Alone
<1> QED
  BY <1>4, <1>5, <1>6, <1>7 DEF TextInv

(* Where an element of a concatenation comes from.                         *)
LEMMA Joined ==
  ASSUME NEW S, NEW s \in Seq(S), NEW t \in Seq(S), NEW k \in DOMAIN (s \o t)
  PROVE  /\ k \in Nat /\ Len(s) \in Nat /\ Len(t) \in Nat /\ Len(s \o t) = Len(s) + Len(t)
         /\ \/ k \in DOMAIN s /\ k <= Len(s) /\ (s \o t)[k] = s[k]
            \/ k - Len(s) \in DOMAIN t /\ k > Len(s) /\ (s \o t)[k] = t[k - Len(s)]
<1>1. /\ s \o t \in Seq(S) /\ Len(s \o t) = Len(s) + Len(t)
      /\ \A n \in 1 .. Len(s) + Len(t) : (s \o t)[n] = IF n <= Len(s) THEN s[n] ELSE t[n - Len(s)]
  BY ConcatProperties
<1>2. /\ DOMAIN (s \o t) = 1 .. Len(s \o t) /\ DOMAIN s = 1 .. Len(s) /\ DOMAIN t = 1 .. Len(t)
      /\ Len(s) \in Nat /\ Len(t) \in Nat
  BY <1>1, LenProperties
<1> QED
  BY <1>1, <1>2

(* Jobs with texts of different items stay single when they are put        *)
(* together, and settling stays the last of them.                          *)
LEMMA SingleConcat ==
  ASSUME NEW S, NEW s \in Seq(S), NEW t \in Seq(S), Single(s), Single(t),
         \A e \in Coming(s), f \in Coming(t) : \A i \in Items : ~(Text(e, i) /\ Text(f, i))
  PROVE  Single(s \o t)
<1> DEFINE u == s \o t
<1> SUFFICES ASSUME NEW j \in DOMAIN u, NEW k \in DOMAIN u, NEW e \in Bears(u[j]), NEW f \in Bears(u[k]),
                    NEW i \in Items, Text(e, i), Text(f, i)
             PROVE  j = k /\ e = f
  BY DEF Single
<1>1. /\ j \in Nat /\ Len(s) \in Nat
      /\ \/ j \in DOMAIN s /\ j <= Len(s) /\ u[j] = s[j]
         \/ j - Len(s) \in DOMAIN t /\ j > Len(s) /\ u[j] = t[j - Len(s)]
  BY Joined
<1>2. /\ k \in Nat
      /\ \/ k \in DOMAIN s /\ k <= Len(s) /\ u[k] = s[k]
         \/ k - Len(s) \in DOMAIN t /\ k > Len(s) /\ u[k] = t[k - Len(s)]
  BY Joined
<1> HIDE DEF u
<1>3. CASE j <= Len(s) /\ k <= Len(s)
  BY <1>1, <1>2, <1>3 DEF Single
<1>4. CASE j > Len(s) /\ k > Len(s)
  <2>1. j - Len(s) = k - Len(s) /\ e = f
    BY <1>1, <1>2, <1>4 DEF Single
  <2> QED
    BY <1>1, <1>2, <2>1
<1>5. ASSUME NEW m \in DOMAIN s, NEW n \in DOMAIN t, NEW a \in Bears(s[m]), NEW b \in Bears(t[n]),
             Text(a, i), Text(b, i)
      PROVE  FALSE
  <2>1. a \in Coming(s) /\ b \in Coming(t)
    BY ComingIs, LenProperties
  <2> QED
    BY <1>5, <2>1
<1>6. CASE j <= Len(s) /\ k > Len(s)
  BY <1>1, <1>2, <1>5, <1>6
<1>7. CASE j > Len(s) /\ k <= Len(s)
  BY <1>1, <1>2, <1>5, <1>7
<1> QED
  BY <1>1, <1>2, <1>3, <1>4, <1>6, <1>7

LEMMA SettleConcat ==
  ASSUME NEW S, NEW s \in Seq(S), NEW t \in Seq(S), SettleLast(t),
         \A k \in DOMAIN s : s[k].op # "settle"
  PROVE  SettleLast(s \o t)
<1> DEFINE u == s \o t
<1> SUFFICES ASSUME NEW k \in DOMAIN u, u[k].op = "settle" PROVE k = Len(u)
  BY DEF SettleLast
<1>1. /\ k \in Nat /\ Len(s) \in Nat /\ Len(t) \in Nat /\ Len(u) = Len(s) + Len(t)
      /\ \/ k \in DOMAIN s /\ k <= Len(s) /\ u[k] = s[k]
         \/ k - Len(s) \in DOMAIN t /\ k > Len(s) /\ u[k] = t[k - Len(s)]
  BY Joined
<1>2. k - Len(s) = Len(t)
  BY <1>1 DEF SettleLast
<1> QED
  BY <1>1, <1>2

(* The parts the jobs are put together from.                               *)
LEMMA Silent ==
  ASSUME NEW s, \A e \in Coming(s) : \A i \in Items : ~Text(e, i) PROVE Single(s)
<1> SUFFICES ASSUME NEW k \in DOMAIN s, NEW e \in Bears(s[k]) PROVE \A i \in Items : ~Text(e, i)
  BY DEF Single
<1>1. e \in Coming(s)
  BY DEF Coming, Range
<1> QED
  BY <1>1

LEMMA SingleJob ==
  ASSUME NEW a, \A e, f \in Bears(a) : \A i \in Items : Text(e, i) /\ Text(f, i) => e = f
  PROVE  Single(<<a>>)
<1>1. DOMAIN <<a>> = {1} /\ <<a>>[1] = a
  OBVIOUS
<1> QED
  BY <1>1 DEF Single

LEMMA BearsOfJobs ==
  /\ \A e : Bears(Emit(e)) = {e}
  /\ \A i : Bears(Remember(i)) = {}
  /\ \A T : Bears([op |-> "flush", texts |-> T]) = T
  /\ \A status : Bears(Settle(status)) = {}
  BY DEF Bears, Emit, Remember, Settle

LEMMA FlushParts ==
  ASSUME NEW T \in SUBSET Texts
  PROVE  /\ Coming(Flush(T)) = T
         /\ \A k \in DOMAIN Flush(T) : Flush(T)[k].op = "flush" /\ Flush(T)[k].texts = T
         /\ (\A e, f \in T : \A i \in Items : Text(e, i) /\ Text(f, i) => e = f) => Single(Flush(T))
<1>1. CASE T = {}
  <2>1. Flush(T) = <<>> /\ Coming(<<>>) = {} /\ DOMAIN <<>> = {}
    BY <1>1, RangeOfFew DEF Flush, Coming
  <2> QED
    BY <1>1, <2>1 DEF Single
<1>2. CASE T # {}
  <2> DEFINE a == [op |-> "flush", texts |-> T]
  <2>1. Flush(T) = <<a>> /\ DOMAIN <<a>> = {1} /\ <<a>>[1] = a /\ a.op = "flush" /\ a.texts = T
    BY <1>2 DEF Flush
  <2>2. Bears(a) = T
    BY DEF Bears
  <2> HIDE DEF a
  <2>3. Coming(<<a>>) = T
    BY <2>2, RangeOfFew DEF Coming
  <2> QED
    BY <2>1, <2>2, <2>3, SingleJob
<1> QED
  BY <1>1, <1>2

LEMMA NoteIsNoText ==
  /\ \A i \in Items : ~Text(Note("item", 0), i) /\ ~Text(Note("usage", 0), i) /\ ~Text(Note("end", 0), i)
  /\ \A i, j \in Items : ~Text(Note("item", j), i) /\ ~Text(Note("raw", j), i)
  BY DEF Note, Text

(* What is flushed of an item is one text, behind all that went out.       *)
LEMMA FlushedTexts ==
  ASSUME ProducerTypes, NEW S \in SUBSET Items
  PROVE  /\ Coming(Flushes(S)) = Flushed(S)
         /\ Single(Flushes(S))
         /\ \A k \in DOMAIN Flushes(S) : Flushes(S)[k].op = "flush" /\ Flushes(S)[k].texts = Flushed(S)
         /\ \A i \in Items : \A e \in Flushed(S) :
              Text(e, i) => /\ i \in S /\ held[i] # Unkeyed
                            /\ e.from = Out(i) + 1 /\ e.to = sent[i] /\ e.from <= e.to + 1
<1>1. Flushed(S) \in SUBSET Texts /\ Flushes(S) = Flush(Flushed(S))
  BY FlushesTypes
<1>2. ASSUME NEW i \in Items, NEW e \in Flushed(S), Text(e, i)
      PROVE  /\ i \in S /\ held[i] # Unkeyed /\ e = Delta(i, sent[i] - held[i] + 1, sent[i])
  BY <1>2 DEF Flushed, Keyed, Text, Delta
<1>3. ASSUME NEW i \in Items, held[i] # Unkeyed
      PROVE  Out(i) + 1 = sent[i] - held[i] + 1 /\ sent[i] - held[i] + 1 <= sent[i] + 1
  BY <1>3, StreamAssumption DEF ProducerTypes, Out, Held
<1>4. \A e, f \in Flushed(S) : \A i \in Items : Text(e, i) /\ Text(f, i) => e = f
  BY <1>2
<1>5. ASSUME NEW i \in Items, NEW e \in Flushed(S), Text(e, i)
      PROVE  /\ i \in S /\ held[i] # Unkeyed
             /\ e.from = Out(i) + 1 /\ e.to = sent[i] /\ e.from <= e.to + 1
  <2>1. e.from = sent[i] - held[i] + 1 /\ e.to = sent[i]
    BY <1>2, <1>5 DEF Delta
  <2> QED
    BY <1>2, <1>3, <1>5, <2>1
<1> QED
  BY <1>1, <1>4, <1>5, FlushParts

LEMMA OutIsNat ==
  ASSUME ProducerTypes, NEW i \in Items
  PROVE  Out(i) \in Nat /\ Held(i) \in Nat /\ Out(i) <= sent[i] /\ sent[i] \in Nat
  BY StreamAssumption DEF ProducerTypes, Out, Held, Unkeyed

LEMMA OutIsNatNext ==
  ASSUME ProducerTypes', NEW i \in Items
  PROVE  Out(i)' \in Nat /\ Out(i)' = sent'[i] - Held(i)' /\ Held(i)' \in Nat /\ Out(i)' <= sent'[i]
  BY StreamAssumption DEF ProducerTypes, Out, Held, Unkeyed

LEMMA TextsInit == ASSUME Init PROVE TextInv
<1>1. log = <<>> /\ Range(log) = {} /\ DOMAIN log = {}
  BY RangeOfFew DEF Init
<1>2. \A p \in Actors : todo[p] = <<>> /\ Coming(todo[p]) = {} /\ DOMAIN todo[p] = {}
  <2>1. Coming(<<>>) = {} /\ DOMAIN <<>> = {}
    BY RangeOfFew DEF Coming
  <2> QED
    BY <2>1 DEF Init
<1> QED
  BY <1>1, <1>2 DEF TextInv, Bounds, Recorded, Order, Singles, Single, Alone, Actors

(* A thread takes up a notification.                                       *)
LEMMA ItemTexts ==
  ASSUME ProducerTypes, NEW i \in Items, NEW jobs \in ItemJobs(i)
  PROVE  /\ Single(jobs)
         /\ \A j \in Items : \A e \in Coming(jobs) : Text(e, j) => e \in Flushed({i})
         /\ Coming(jobs) = Flushed({i}) \union {Note("item", i)}
                             \union (IF rawItems THEN {Note("raw", i)} ELSE {})
         /\ \A k \in DOMAIN jobs : jobs[k].op # "settle" /\ jobs[k].op # "remember"
                                   /\ (jobs[k].op = "flush" => jobs[k].texts = Flushed({i}))
<1> DEFINE f == Flushes({i})
           item == <<Emit(Note("item", i))>>
           raw == <<Emit(Note("raw", i))>>
           Fine(s) == \A k \in DOMAIN s : s[k].op # "settle" /\ s[k].op # "remember"
                                          /\ (s[k].op = "flush" => s[k].texts = Flushed({i}))
           Quiet(s) == \A e \in Coming(s) : \A j \in Items : ~Text(e, j)
           Ready(s) == s \in Seq(Jobs) /\ Single(s) /\ Fine(s)
<1>1. f \in Seq(Jobs) /\ item \in Seq(Jobs) /\ raw \in Seq(Jobs)
  BY FlushesTypes, EventTypes, JobTypes
<1>2. Coming(item) = {Note("item", i)} /\ Coming(raw) = {Note("raw", i)} /\ Coming(f) = Flushed({i})
  <2>1. \A a : Coming(<<a>>) = Bears(a)
    BY RangeOfFew DEF Coming
  <2> QED
    BY <2>1, BearsOfJobs, FlushedTexts
<1>3. Quiet(item) /\ Quiet(raw)
  BY <1>2, NoteIsNoText
<1>4. Ready(item) /\ Ready(raw) /\ Ready(f)
  <2>1. Single(item) /\ Single(raw) /\ Single(f)
    BY <1>3, Silent, FlushedTexts
  <2>2. Fine(item) /\ Fine(raw)
    <3>1. \A a : DOMAIN <<a>> = {1} /\ <<a>>[1] = a
      OBVIOUS
    <3>2. \A e : Emit(e).op = "emit"
      BY DEF Emit
    <3> QED
      BY <3>1, <3>2
  <2>3. Fine(f)
    BY FlushedTexts
  <2> QED
    BY <1>1, <2>1, <2>2, <2>3
<1> HIDE DEF f, item, raw
<1>5. ASSUME NEW s, NEW t, Ready(s), Ready(t), Quiet(s) \/ Quiet(t)
      PROVE  Ready(s \o t) /\ Coming(s \o t) = Coming(s) \union Coming(t)
  <2>p. s \in Seq(Jobs) /\ t \in Seq(Jobs) /\ Single(s) /\ Single(t)
    BY <1>5
  <2>q. \A e \in Coming(s), g \in Coming(t) : \A j \in Items : ~(Text(e, j) /\ Text(g, j))
    BY <1>5
  <2>1. Single(s \o t)
    BY <2>p, <2>q, SingleConcat
  <2>2. s \o t \in Seq(Jobs) /\ Coming(s \o t) = Coming(s) \union Coming(t)
    BY <2>p, ConcatProperties, ComingOfParts
  <2>3. ASSUME NEW k \in DOMAIN (s \o t)
        PROVE  (s \o t)[k].op # "settle" /\ (s \o t)[k].op # "remember"
               /\ ((s \o t)[k].op = "flush" => (s \o t)[k].texts = Flushed({i}))
    <3>1. \/ k \in DOMAIN s /\ (s \o t)[k] = s[k]
          \/ k - Len(s) \in DOMAIN t /\ (s \o t)[k] = t[k - Len(s)]
      BY <2>p, Joined
    <3> QED
      BY <3>1, <1>5
  <2> QED
    BY <2>1, <2>2, <2>3
<1> HIDE DEF Ready, Quiet
<1>6. /\ Ready(f \o raw) /\ Coming(f \o raw) = Flushed({i}) \union {Note("raw", i)}
      /\ Ready(raw \o f) /\ Coming(raw \o f) = Flushed({i}) \union {Note("raw", i)}
      /\ Ready(f \o item) /\ Coming(f \o item) = Flushed({i}) \union {Note("item", i)}
  <2>1. Ready(f \o raw) /\ Coming(f \o raw) = Flushed({i}) \union {Note("raw", i)}
    BY <1>2, <1>3, <1>4, <1>5
  <2>2. Ready(raw \o f) /\ Coming(raw \o f) = Flushed({i}) \union {Note("raw", i)}
    BY <1>2, <1>3, <1>4, <1>5
  <2>3. Ready(f \o item) /\ Coming(f \o item) = Flushed({i}) \union {Note("item", i)}
    BY <1>2, <1>3, <1>4, <1>5
  <2> QED
    BY <2>1, <2>2, <2>3
<1>7. /\ Ready(f \o raw \o item)
      /\ Coming(f \o raw \o item) = Flushed({i}) \union {Note("item", i)} \union {Note("raw", i)}
  BY <1>2, <1>3, <1>4, <1>5, <1>6
<1>8. /\ Ready(raw \o f \o item)
      /\ Coming(raw \o f \o item) = Flushed({i}) \union {Note("item", i)} \union {Note("raw", i)}
  BY <1>2, <1>3, <1>4, <1>5, <1>6
<1>9. /\ Ready(f \o item \o raw)
      /\ Coming(f \o item \o raw) = Flushed({i}) \union {Note("item", i)} \union {Note("raw", i)}
  BY <1>2, <1>3, <1>4, <1>5, <1>6
<1>10. /\ Ready(jobs)
       /\ Coming(jobs) = Flushed({i}) \union {Note("item", i)}
                           \union (IF rawItems THEN {Note("raw", i)} ELSE {})
  <2>1. CASE rawItems
    <3>1. jobs \in {f \o raw \o item, raw \o f \o item, f \o item \o raw}
      BY <2>1 DEF ItemJobs, f, raw, item
    <3> QED
      BY <2>1, <3>1, <1>7, <1>8, <1>9
  <2>2. CASE ~rawItems
    <3>1. jobs = f \o item
      BY <2>2 DEF ItemJobs, f, raw, item
    <3> QED
      BY <2>2, <3>1, <1>6
  <2> QED
    BY <2>1, <2>2
<1> USE DEF Ready
<1>11. \A j \in Items : \A e \in Coming(jobs) : Text(e, j) => e \in Flushed({i})
  BY <1>10, NoteIsNoText
<1> QED
  BY <1>10, <1>11

LEMMA DeltaJobs ==
  ASSUME ProducerTypes, NEW i \in Items, NEW e \in Texts, e.item = i
  PROVE  LET one == <<Remember(i)>>
             two == <<Remember(i)>> \o <<Emit(e)>> IN
         /\ <<Remember(i)>> \o <<>> = one
         /\ one \in Seq(Jobs) /\ two \in Seq(Jobs) /\ Single(one) /\ Single(two)
         /\ Coming(one) = {} /\ Coming(two) = {e}
<1> DEFINE a == <<Remember(i)>>
           b == <<Emit(e)>>
<1>1. a \in Seq(Jobs) /\ b \in Seq(Jobs)
  BY JobTypes, EventTypes
<1>5. a \o <<>> = a
  BY <1>1, ConcatEmptySeq
<1>2. Coming(a) = {} /\ Coming(b) = {e}
  <2>1. \A c : Coming(<<c>>) = Bears(c)
    BY RangeOfFew DEF Coming
  <2> QED
    BY <2>1, BearsOfJobs
<1>3. Single(a) /\ Single(b)
  BY <1>2, Silent, SingleJob, BearsOfJobs
<1> HIDE DEF a, b
<1>4. a \o b \in Seq(Jobs)
  BY <1>1, ConcatProperties
<1>6. Coming(a \o b) = {e}
  BY <1>1, <1>2, ComingOfParts
<1>7. Single(a \o b)
  BY <1>1, <1>2, <1>3, SingleConcat
<1> QED
  BY <1>1, <1>2, <1>3, <1>4, <1>5, <1>6, <1>7 DEF a, b

LEMMA Taking ==
  ASSUME ProducerTypes, NEW S \in SUBSET Items, held' = Taken(S), sent' = sent
  PROVE  /\ \A i \in Items : Out(i)' \in Nat /\ Out(i) <= Out(i)' /\ (i \in S => Out(i)' = sent[i])
                             /\ (i \notin S => Out(i)' = Out(i))
         /\ \A i \in Items : \A e \in Flushed(S) :
              Text(e, i) => e.from = Out(i) + 1 /\ Within(e, 1, Out(i)')
<1>1. ASSUME NEW i \in Items
      PROVE  Out(i)' \in Nat /\ Out(i) <= Out(i)' /\ (i \in S => Out(i)' = sent[i])
             /\ (i \notin S => Out(i)' = Out(i))
  <2>1. i \in S => Out(i)' = sent[i]
    BY OutIsNat DEF Taken, Out, Held
  <2>2. i \notin S => Out(i)' = Out(i)
    BY DEF Taken, Out, Held
  <2> QED
    BY <2>1, <2>2, OutIsNat
<1>2. ASSUME NEW i \in Items, NEW e \in Flushed(S), Text(e, i)
      PROVE  e.from = Out(i) + 1 /\ Within(e, 1, Out(i)')
  <2>1. i \in S /\ e.from = Out(i) + 1 /\ e.to = sent[i] /\ e.from <= e.to + 1
    BY <1>2, FlushedTexts
  <2> QED
    BY <1>1, <2>1, OutIsNat DEF Within
<1> QED
  BY <1>1, <1>2

LEMMA ClosingJobs ==
  ASSUME ProducerTypes, NEW status \in Terminal
  PROVE  /\ Closing(status) \in Seq(Jobs) /\ Single(Closing(status)) /\ SettleLast(Closing(status))
         /\ Coming(Closing(status)) = Flushed(Items) /\ Closing(status) # <<>>
         /\ \A k \in DOMAIN Closing(status) :
              \/ Closing(status)[k].op = "flush" /\ Closing(status)[k].texts = Flushed(Items)
              \/ Closing(status)[k].op = "settle"
<1> DEFINE f == Flushes(Items)
           s == <<Settle(status)>>
<1>1. f \in Seq(Jobs) /\ s \in Seq(Jobs)
  BY FlushesTypes, JobTypes
<1>2. Coming(s) = {}
  <2>1. \A c : Coming(<<c>>) = Bears(c)
    BY RangeOfFew DEF Coming
  <2> QED
    BY <2>1, BearsOfJobs
<1>3. Single(f) /\ Single(s) /\ Coming(f) = Flushed(Items)
      /\ \A k \in DOMAIN f : f[k].op = "flush" /\ f[k].texts = Flushed(Items)
  BY <1>2, FlushedTexts, Silent
<1>4. Len(s) = 1 /\ DOMAIN s = {1} /\ s[1].op = "settle"
  BY DEF Settle
<1> HIDE DEF f, s
<1>5. f \o s \in Seq(Jobs) /\ Len(f \o s) = Len(f) + Len(s) /\ Len(f) \in Nat
  BY <1>1, ConcatProperties, LenProperties
<1>6. Single(f \o s)
  BY <1>1, <1>2, <1>3, SingleConcat
<1>7. SettleLast(s)
  BY <1>4 DEF SettleLast
<1>8. SettleLast(f \o s)
  BY <1>1, <1>3, <1>7, SettleConcat
<1>9. Coming(f \o s) = Flushed(Items)
  <2>1. Coming(f \o s) = Coming(f) \union Coming(s)
    BY <1>1, ComingOfParts
  <2> QED
    BY <1>2, <1>3, <2>1
<1>10. ASSUME NEW k \in DOMAIN (f \o s)
       PROVE  \/ (f \o s)[k].op = "flush" /\ (f \o s)[k].texts = Flushed(Items)
              \/ (f \o s)[k].op = "settle"
  <2>1. \/ k \in DOMAIN f /\ (f \o s)[k] = f[k]
        \/ k - Len(f) \in DOMAIN s /\ (f \o s)[k] = s[k - Len(f)]
    BY <1>1, Joined
  <2> QED
    BY <1>3, <1>4, <2>1
<1>11. f \o s # <<>>
  <2>1. Len(f \o s) # 0
    BY <1>4, <1>5
  <2> QED
    BY <2>1
<1> QED
  BY <1>5, <1>6, <1>8, <1>9, <1>10, <1>11 DEF Closing, f, s

LEMMA HandleTexts ==
  ASSUME ProducerTypes, ProducerTypes', TextInv, NEW p \in Actors, Handling(p), p # "reader" => astray
  PROVE  TextInv'
<1>1. UNCHANGED <<log, astray>> /\ todo[p] = <<>> /\ Handles(p)
  BY DEF Handling
<1>2. ASSUME NEW jobs \in Seq(Jobs), Does(p, jobs), Single(jobs),
             \A i \in Items : Out(i)' \in Nat /\ Out(i) <= Out(i)',
             \A i \in Items : \A e \in Coming(jobs) :
               Text(e, i) => e.from = Out(i) + 1 /\ Within(e, 1, Out(i)')
      PROVE  TextInv'
  BY <1>1, <1>2, Started, OutIsNat DEF Does
<1>3. ASSUME UNCHANGED <<sent, held>> PROVE \A i \in Items : Out(i)' \in Nat /\ Out(i) <= Out(i)'
  BY <1>3, OutIsNat DEF Out, Held
<1>5. ASSUME NEW i \in Items, HandleDelta(p, i) PROVE TextInv'
  <2>1. PICK h \in 0 .. Held(i) + 1 :
          /\ held' = [held EXCEPT ![i] = h]
          /\ Does(p, <<Remember(i)>> \o
               (IF h = Held(i) + 1 THEN <<>>
                ELSE <<Emit(Delta(i, sent[i] - Held(i) + 1, sent[i] + 1 - h))>>))
    BY <1>5 DEF HandleDelta
  <2>2. /\ sent[i] \in Nat /\ Held(i) \in Nat /\ Out(i) \in Nat /\ Out(i) = sent[i] - Held(i)
        /\ h \in Nat /\ h <= Held(i) + 1
    BY OutIsNat DEF Out
  <2>3. Out(i)' = sent[i] + 1 - h
    BY <1>5, <2>1, <2>2 DEF HandleDelta, Out, Held, Unkeyed, ProducerTypes
  <2>4. \A j \in Items : Out(j)' \in Nat /\ Out(j) <= Out(j)'
    <3>1. \A j \in Items : j # i => Out(j)' = Out(j)
      BY <1>5, <2>1 DEF HandleDelta, Out, Held, ProducerTypes
    <3>2. Out(i)' \in Nat /\ Out(i) <= Out(i)'
      BY <2>2, <2>3
    <3> QED
      BY <3>1, <3>2, OutIsNat
  <2> DEFINE e == Delta(i, sent[i] - Held(i) + 1, sent[i] + 1 - h)
  <2>5. e \in Texts /\ e.item = i /\ e.from = Out(i) + 1 /\ Within(e, 1, Out(i)')
    <3>1. e \in Texts
      BY <2>2, EventTypes
    <3>2. e.item = i /\ e.from = Out(i) + 1 /\ e.to = Out(i)'
      BY <2>2, <2>3 DEF Delta
    <3> QED
      BY <2>2, <2>4, <3>1, <3>2 DEF Within
  <2> HIDE DEF e
  <2>6. PICK jobs \in Seq(Jobs) : Does(p, jobs) /\ Single(jobs) /\ Coming(jobs) \subseteq {e}
    <3>1. CASE h = Held(i) + 1
      BY <2>1, <2>5, <3>1, DeltaJobs
    <3>2. CASE h # Held(i) + 1
      <4>1. Does(p, <<Remember(i)>> \o <<Emit(e)>>)
        BY <2>1, <3>2 DEF e
      <4> QED
        BY <2>5, <4>1, DeltaJobs
    <3> QED
      BY <3>1, <3>2
  <2>7. \A j \in Items : Text(e, j) => j = i
    BY <2>5 DEF Text
  <2> QED
    BY <1>2, <2>4, <2>5, <2>6, <2>7
<1>6. ASSUME NEW i \in Items, HandleItem(p, i) PROVE TextInv'
  <2>1. PICK jobs \in ItemJobs(i) : Does(p, jobs)
    BY <1>6 DEF HandleItem
  <2>2. held' = Taken({i}) /\ sent' = sent
    BY <1>6 DEF HandleItem
  <2>3. jobs \in Seq(Jobs) /\ Single(jobs) /\ \A j \in Items : \A e \in Coming(jobs) : Text(e, j) => e \in Flushed({i})
    BY ItemJobsTypes, ItemTexts
  <2> QED
    BY <1>2, Taking, <2>1, <2>2, <2>3
<1>7. CASE HandleUsage(p)
  <2> DEFINE jobs == <<Emit(Note("usage", 0))>>
  <2>1. jobs \in Seq(Jobs)
    BY EventTypes, JobTypes
  <2>2. Coming(jobs) = {Note("usage", 0)}
    <3>1. \A c : Coming(<<c>>) = Bears(c)
      BY RangeOfFew DEF Coming
    <3> QED
      BY <3>1, BearsOfJobs
  <2>3. Does(p, jobs) /\ UNCHANGED <<sent, held>>
    BY <1>7 DEF HandleUsage
  <2> HIDE DEF jobs
  <2>4. \A e \in Coming(jobs) : \A i \in Items : ~Text(e, i)
    BY <2>2, NoteIsNoText
  <2>5. Single(jobs)
    BY <2>4, Silent
  <2> QED
    BY <1>2, <1>3, <2>1, <2>3, <2>4, <2>5
<1>8. ASSUME NEW status \in Terminal, HandleEnd(p, status) PROVE TextInv'
  <2>1. Closing(status) \in Seq(Jobs) /\ Single(Closing(status)) /\ Coming(Closing(status)) = Flushed(Items)
    BY ClosingJobs
  <2>2. held' = Taken(Items) /\ sent' = sent /\ Does(p, Closing(status))
    BY <1>8 DEF HandleEnd
  <2> QED
    BY <1>2, Taking, <2>1, <2>2
<1> QED
  BY <1>1, <1>5, <1>6, <1>7, <1>8 DEF Handles

(* The other steps.                                                        *)
LEMMA FinishTexts == ASSUME ProducerTypes, ProducerTypes', TextInv, Finish PROVE TextInv'
<1>1. Closing("failed") \in Seq(Jobs) /\ Single(Closing("failed")) /\ Coming(Closing("failed")) = Flushed(Items)
  BY ClosingJobs DEF Terminal
<1>2. /\ todo["finisher"] = <<>> /\ todo' = [todo EXCEPT !["finisher"] = Closing("failed")]
      /\ held' = Taken(Items) /\ astray' = TRUE /\ UNCHANGED <<log, sent>>
  BY DEF Finish, Does, table, codex
<1>3. /\ \A i \in Items : Out(i)' \in Nat /\ Out(i) <= Out(i)'
      /\ \A i \in Items : \A e \in Flushed(Items) :
           Text(e, i) => e.from = Out(i) + 1 /\ Within(e, 1, Out(i)')
  BY <1>2, Taking
<1> QED
  BY <1>1, <1>2, <1>3, Started, OutIsNat DEF Actors

(* What a thread has yet to append when it has done its next job.          *)
LEMMA PerformJobs ==
  ASSUME ProducerTypes, Singles, NEW p \in Actors, Perform(p)
  PROVE  /\ \A q \in Actors : q # p => todo'[q] = todo[q]
         /\ Single(todo'[p])
         /\ RememberItem(p) \/ SettleTurn(p) => todo'[p] = Rest(p) /\ Coming(todo[p]) = Coming(todo'[p])
         /\ AppendEvent(p) =>
              /\ todo'[p] = Rest(p) /\ Coming(todo[p]) = {Job(p).event} \union Coming(todo'[p])
              /\ \A f \in Coming(todo'[p]) : \A i \in Items : ~(Text(Job(p).event, i) /\ Text(f, i))
         /\ FlushText(p) =>
              \E text \in Job(p).texts :
                /\ Coming(todo[p]) = {text} \union Coming(todo'[p])
                /\ text.item \in meta /\ text.from <= text.to => Coming(todo[p]) = Coming(todo'[p])
                /\ meta' = meta \ {text.item}
                /\ \E jobs \in Seq(Jobs) :
                     /\ todo'[p] = jobs \o Rest(p)
                     /\ \A k \in DOMAIN jobs :
                          \/ jobs[k].op = "emit"
                          \/ jobs[k].op = "flush" /\ jobs[k].texts = Job(p).texts \ {text}
<1>1. todo[p] \in Seq(Jobs) /\ todo[p] # <<>>
  BY DEF Perform, ProducerTypes
<1>2. Job(p) \in Jobs /\ Rest(p) \in Seq(Jobs) /\ Coming(todo[p]) = Bears(Job(p)) \union Coming(Rest(p))
  BY <1>1, HeadTailProperties, ComingOfParts DEF Job, Rest
<1>3. /\ Single(Rest(p))
      /\ \A e \in Bears(Job(p)), f \in Coming(Rest(p)) : \A i \in Items : ~(Text(e, i) /\ Text(f, i))
      /\ \A e, f \in Bears(Job(p)) : \A i \in Items : Text(e, i) /\ Text(f, i) => e = f
  BY <1>1, TailOfSingle DEF Singles, Job, Rest
<1>4. ASSUME NEW jobs, Then(p, jobs)
      PROVE  todo'[p] = jobs \o Rest(p) /\ \A q \in Actors : q # p => todo'[q] = todo[q]
  BY <1>4 DEF Then, ProducerTypes
<1>5. <<>> \o Rest(p) = Rest(p)
  BY <1>2, ConcatEmptySeq
<1>6. CASE RememberItem(p) \/ SettleTurn(p)
  <2>1. Bears(Job(p)) = {} /\ ~AppendEvent(p) /\ ~FlushText(p)
    BY <1>6 DEF RememberItem, SettleTurn, AppendEvent, FlushText, Bears
  <2>2. Then(p, <<>>)
    BY <1>6 DEF RememberItem, SettleTurn
  <2>3. todo'[p] = Rest(p) /\ \A q \in Actors : q # p => todo'[q] = todo[q]
    BY <2>2, <1>4, <1>5
  <2> QED
    BY <1>2, <1>3, <2>1, <2>3
<1>7. CASE AppendEvent(p)
  <2>1. Bears(Job(p)) = {Job(p).event} /\ ~RememberItem(p) /\ ~SettleTurn(p) /\ ~FlushText(p)
    BY <1>7 DEF RememberItem, SettleTurn, AppendEvent, FlushText, Bears
  <2>2. Then(p, <<>>)
    BY <1>7 DEF AppendEvent
  <2>3. todo'[p] = Rest(p) /\ \A q \in Actors : q # p => todo'[q] = todo[q]
    BY <2>2, <1>4, <1>5
  <2> QED
    BY <1>2, <1>3, <2>1, <2>3
<1>8. CASE FlushText(p)
  <2>1. /\ Bears(Job(p)) = Job(p).texts /\ Job(p).texts \in SUBSET Texts
        /\ ~RememberItem(p) /\ ~SettleTurn(p) /\ ~AppendEvent(p)
    BY <1>2, <1>8, JobParts DEF RememberItem, SettleTurn, AppendEvent, FlushText, Bears
  <2> DEFINE T == Job(p).texts
  <2>2. PICK text \in T :
          /\ meta' = meta \ {text.item}
          /\ Then(p, IF text.item \in meta /\ text.from <= text.to
                     THEN <<Emit(text)>> \o Flush(T \ {text}) ELSE Flush(T \ {text}))
    BY <1>8 DEF FlushText
  <2> DEFINE one == <<Emit(text)>>
             left == Flush(T \ {text})
             Ready(s) == /\ s \in Seq(Jobs) /\ Single(s)
                         /\ \A k \in DOMAIN s : \/ s[k].op = "emit"
                                                \/ s[k].op = "flush" /\ s[k].texts = T \ {text}
  <2>3. /\ \A e \in T, f \in Coming(Rest(p)) : \A i \in Items : ~(Text(e, i) /\ Text(f, i))
        /\ \A e, f \in T : \A i \in Items : Text(e, i) /\ Text(f, i) => e = f
        /\ Coming(todo[p]) = T \union Coming(Rest(p)) /\ T \subseteq Texts
    BY <1>2, <1>3, <2>1
  <2>4. Ready(one) /\ Coming(one) = {text}
    <3>1. Emit(text) \in Jobs
      BY <2>3, EventTypes, JobTypes
    <3>2. Coming(one) = {text}
      <4>1. \A c : Coming(<<c>>) = Bears(c)
        BY RangeOfFew DEF Coming
      <4> QED
        BY <4>1, BearsOfJobs
    <3>3. Single(one)
      BY SingleJob, BearsOfJobs
    <3>4. \A k \in DOMAIN one : one[k].op = "emit"
      BY DEF Emit
    <3> QED
      BY <3>1, <3>2, <3>3, <3>4
  <2> HIDE DEF T
  <2>5. Ready(left) /\ Coming(left) = T \ {text}
    <3>1. T \ {text} \in SUBSET Texts
      BY <2>3
    <3>2. left \in Seq(Jobs)
      BY <3>1, JobTypes
    <3>3. Coming(left) = T \ {text} /\ \A k \in DOMAIN left : left[k].op = "flush" /\ left[k].texts = T \ {text}
      BY <3>1, FlushParts
    <3>4. Single(left)
      BY <2>3, <3>1, FlushParts
    <3> QED
      BY <3>2, <3>3, <3>4
  <2> HIDE DEF one, left
  <2>6. Ready(one \o left) /\ Coming(one \o left) = T
    <3>1. Single(one \o left)
      <4>1. \A e \in Coming(one), f \in Coming(left) : \A i \in Items : ~(Text(e, i) /\ Text(f, i))
        BY <2>3, <2>4, <2>5
      <4> QED
        BY <2>4, <2>5, <4>1, SingleConcat
    <3>2. one \o left \in Seq(Jobs) /\ Coming(one \o left) = T
      <4>1. one \o left \in Seq(Jobs) /\ Coming(one \o left) = Coming(one) \union Coming(left)
        BY <2>4, <2>5, ConcatProperties, ComingOfParts
      <4> QED
        BY <2>2, <2>4, <2>5, <4>1
    <3>3. ASSUME NEW k \in DOMAIN (one \o left)
          PROVE  \/ (one \o left)[k].op = "emit"
                 \/ (one \o left)[k].op = "flush" /\ (one \o left)[k].texts = T \ {text}
      <4>1. \/ k \in DOMAIN one /\ (one \o left)[k] = one[k]
            \/ k - Len(one) \in DOMAIN left /\ (one \o left)[k] = left[k - Len(one)]
        BY <2>4, <2>5, Joined
      <4> QED
        BY <2>4, <2>5, <4>1
    <3> QED
      BY <3>1, <3>2, <3>3
  <2> HIDE DEF Ready
  <2>7. PICK jobs : /\ Then(p, jobs) /\ Ready(jobs) /\ Coming(jobs) \subseteq T /\ T = {text} \union Coming(jobs)
                    /\ text.item \in meta /\ text.from <= text.to => Coming(jobs) = T
    BY <2>2, <2>5, <2>6 DEF one, left, T
  <2>8. jobs \in Seq(Jobs) /\ Single(jobs)
    BY <2>7 DEF Ready
  <2>9. /\ Single(jobs \o Rest(p)) /\ Coming(jobs \o Rest(p)) = Coming(jobs) \union Coming(Rest(p))
    <3>1. \A e \in Coming(jobs), f \in Coming(Rest(p)) : \A i \in Items : ~(Text(e, i) /\ Text(f, i))
      BY <2>3, <2>7
    <3> QED
      BY <1>2, <1>3, <2>8, <3>1, SingleConcat, ComingOfParts
  <2>10. todo'[p] = jobs \o Rest(p) /\ \A q \in Actors : q # p => todo'[q] = todo[q]
    BY <2>7, <1>4
  <2>11. /\ Coming(todo[p]) = {text} \union Coming(todo'[p])
         /\ text.item \in meta /\ text.from <= text.to => Coming(todo[p]) = Coming(todo'[p])
    BY <2>3, <2>7, <2>9, <2>10
  <2>12. \E s \in Seq(Jobs) :
           /\ todo'[p] = s \o Rest(p)
           /\ \A k \in DOMAIN s : \/ s[k].op = "emit"
                                  \/ s[k].op = "flush" /\ s[k].texts = T \ {text}
    BY <2>7, <2>8, <2>10 DEF Ready
  <2> QED
    BY <2>1, <2>2, <2>9, <2>10, <2>11, <2>12 DEF T
<1> QED
  BY <1>6, <1>7, <1>8 DEF Perform

LEMMA AppendTexts ==
  ASSUME ProducerTypes, ProducerTypes', TextInv, NEW p \in Actors, Perform(p), AppendEvent(p)
  PROVE  TextInv'
<1> DEFINE e == Job(p).event
<1>1. /\ log' = Append(log, e) /\ e \in Events /\ e \in Coming(todo[p])
      /\ \A q \in Actors : Coming(todo'[q]) \subseteq Coming(todo[q]) /\ Single(todo'[q])
      /\ \A f \in Coming(todo'[p]) : \A i \in Items : ~(Text(e, i) /\ Text(f, i))
      /\ \A q \in Actors : q # p => todo'[q] = todo[q]
  BY PerformJobs, PerformTypes, JobParts DEF AppendEvent, TextInv, Singles
<1>2. UNCHANGED <<astray, sent, held>>
  BY DEF Perform, codex
<1>3. /\ Range(log') = Range(log) \union {e} /\ Len(log') = Len(log) + 1 /\ Len(log) \in Nat
      /\ DOMAIN log = 1 .. Len(log) /\ DOMAIN log' = 1 .. Len(log) + 1
      /\ log'[Len(log) + 1] = e /\ \A k \in 1 .. Len(log) : log'[k] = log[k]
      /\ \A k \in 1 .. Len(log) : log[k] \in Range(log)
  BY <1>1, RangeOfAppend, AppendProperties, LenProperties, ComingAreEvents DEF ProducerTypes
<1> HIDE DEF e
<1>4. ASSUME NEW i \in Items PROVE Out(i)' = Out(i)
  BY <1>2 DEF Out, Held
<1>5. Bounds'
  <2>1. ASSUME NEW i \in Items, NEW f \in Range(log'), Text(f, i) PROVE Within(f, 1, Out(i)')
    BY <1>1, <1>3, <1>4, <2>1 DEF TextInv, Bounds
  <2>2. ASSUME NEW i \in Items, NEW q \in Actors, NEW f \in Coming(todo'[q]), Text(f, i)
        PROVE  Within(f, 1, Out(i)')
    BY <1>1, <1>4, <2>2 DEF TextInv, Bounds
  <2> QED
    BY <2>1, <2>2 DEF Bounds
<1>6. Recorded'
  <2> SUFFICES ASSUME NEW i \in Items, NEW j \in DOMAIN log', NEW k \in DOMAIN log',
                      j < k, Text(log'[j], i), Text(log'[k], i)
               PROVE  Follows(astray', log'[k], log'[j])
    BY DEF Recorded
  <2>1. j \in DOMAIN log /\ log'[j] = log[j] /\ log[j] \in Range(log)
    BY <1>3
  <2>2. CASE k = Len(log) + 1
    <3>1. log'[k] = e
      BY <1>3, <2>2
    <3> QED
      BY <1>1, <1>2, <2>1, <3>1 DEF TextInv, Order
  <2>3. CASE k # Len(log) + 1
    <3>1. k \in DOMAIN log /\ log'[k] = log[k]
      BY <1>3, <2>3
    <3> QED
      BY <1>2, <2>1, <3>1 DEF TextInv, Recorded
  <2> QED
    BY <2>2, <2>3
<1>7. Order'
  <2>1. ASSUME NEW i \in Items, NEW q \in Actors, NEW d \in Coming(todo'[q]), NEW f \in Range(log'),
               Text(d, i), Text(f, i)
        PROVE  Follows(astray', d, f)
    <3>1. d \in Coming(todo[q])
      BY <1>1
    <3>2. CASE f \in Range(log)
      BY <1>2, <2>1, <3>1, <3>2 DEF TextInv, Order
    <3>3. CASE f = e
      <4>1. q # p
        BY <1>1, <2>1, <3>3
      <4>2. todo[p] # <<>> /\ todo[q] # <<>>
        <5>1. Coming(<<>>) = {}
          BY RangeOfFew DEF Coming
        <5> QED
          BY <3>1, <5>1 DEF Perform
      <4>3. astray
        BY <4>1, <4>2 DEF TextInv, Alone
      <4>4. Apart(d, e)
        BY <1>1, <2>1, <3>1, <3>3, <4>1 DEF TextInv, Order
      <4> QED
        BY <1>2, <3>3, <4>3, <4>4 DEF Follows
    <3> QED
      BY <1>3, <3>2, <3>3
  <2>2. ASSUME NEW i \in Items, NEW q \in Actors, NEW r \in Actors, q # r,
               NEW d \in Coming(todo'[q]), NEW f \in Coming(todo'[r]), Text(d, i), Text(f, i)
        PROVE  Apart(d, f)
    <3>1. d \in Coming(todo[q]) /\ f \in Coming(todo[r])
      BY <1>1
    <3> QED
      BY <2>2, <3>1 DEF TextInv, Order
  <2> QED
    BY <2>1, <2>2 DEF Order
<1>8. Alone'
  <2>1. ASSUME ~astray', NEW q \in Actors, q # "reader" PROVE todo'[q] = <<>>
    <3>1. todo[q] = <<>>
      BY <1>2, <2>1 DEF TextInv, Alone
    <3>2. p # q
      BY <3>1 DEF Perform
    <3> QED
      BY <1>1, <3>1, <3>2
  <2> QED
    BY <2>1 DEF Alone
<1> QED
  BY <1>1, <1>5, <1>6, <1>7, <1>8 DEF TextInv, Singles

LEMMA PerformTexts ==
  ASSUME ProducerTypes, ProducerTypes', TextInv, NEW p \in Actors, Perform(p)
  PROVE  TextInv'
<1>1. CASE AppendEvent(p)
  BY <1>1, AppendTexts
<1>2. CASE RememberItem(p) \/ FlushText(p) \/ SettleTurn(p)
  <2>1. UNCHANGED <<astray, sent, held, log>>
    BY <1>2 DEF Perform, codex, RememberItem, FlushText, SettleTurn
  <2>2. /\ \A q \in Actors : Coming(todo'[q]) \subseteq Coming(todo[q]) /\ Single(todo'[q])
        /\ \A q \in Actors : q # p => todo'[q] = todo[q]
    BY <1>2, PerformJobs DEF TextInv, Singles
  <2>3. Alone'
    <3>1. ASSUME ~astray', NEW q \in Actors, q # "reader" PROVE todo'[q] = <<>>
      <4>1. todo[q] = <<>>
        BY <2>1, <3>1 DEF TextInv, Alone
      <4>2. p # q
        BY <4>1 DEF Perform
      <4> QED
        BY <2>2, <4>1, <4>2
    <3> QED
      BY <3>1 DEF Alone
  <2>4. \A i \in Items : Out(i) \in Int /\ Out(i)' \in Int /\ Out(i) <= Out(i)'
    BY <2>1, OutIsNat DEF Out, Held
  <2>5. \A k \in DOMAIN log' : k + 0 \in DOMAIN log /\ log'[k] = log[k + 0]
    BY <2>1, ComingAreEvents
  <2> QED
    BY <2>1, <2>2, <2>3, <2>4, <2>5, TextsStay
<1> QED
  BY <1>1, <1>2 DEF Perform

(* Everybody else.                                                         *)
LEMMA RestTexts ==
  ASSUME ProducerTypes, ProducerTypes', TextInv, UNCHANGED <<todo, sent, held>>, astray => astray',
         Alone', NEW m \in Nat,
         \A k \in DOMAIN log' : \A i \in Items :
           Text(log'[k], i) => k + m \in DOMAIN log /\ log'[k] = log[k + m]
  PROVE  TextInv'
<1>1. \A i \in Items : Out(i) \in Int /\ Out(i)' \in Int /\ Out(i) <= Out(i)'
  BY OutIsNat DEF Out, Held
<1>2. \A p \in Actors : Coming(todo'[p]) \subseteq Coming(todo[p]) /\ Single(todo'[p])
  BY DEF TextInv, Singles
<1> QED
  BY <1>1, <1>2, TextsStay

(* With the terminal event nothing else is recorded.                       *)
LEMMA EndIsNoText ==
  ASSUME ProducerTypes, NEW l, l = log \/ l = Append(log, Note("end", 0))
  PROVE  \A k \in DOMAIN l : \A i \in Items : Text(l[k], i) => k \in DOMAIN log /\ l[k] = log[k]
<1>1. CASE l = log
  BY <1>1
<1>2. CASE l = Append(log, Note("end", 0))
  <2>1. /\ DOMAIN log = 1 .. Len(log) /\ DOMAIN l = 1 .. Len(log) + 1 /\ Len(log) \in Nat
        /\ l[Len(log) + 1] = Note("end", 0) /\ \A k \in 1 .. Len(log) : l[k] = log[k]
    BY <1>2, EventTypes, AppendProperties, LenProperties DEF ProducerTypes
  <2> QED
    BY <2>1, NoteIsNoText
<1> QED
  BY <1>1, <1>2

LEMMA PersistTexts ==
  ASSUME ProducerTypes, ProducerTypes', TextInv, Persist \/ RunFails \/ Detach PROVE TextInv'
<1>1. UNCHANGED <<todo, sent, held>> /\ (astray => astray') /\ Alone'
  BY DEF Persist, RunFails, Detach, codex, buffers, TextInv, Alone
<1>2. log' = log \/ log' = Append(log, Note("end", 0))
  BY DEF Persist, RunFails, Detach, FinalizeTurn, table
<1>3. \A k \in DOMAIN log' : \A i \in Items : Text(log'[k], i) => k + 0 \in DOMAIN log /\ log'[k] = log[k + 0]
  BY <1>2, EndIsNoText, ComingAreEvents
<1> QED
  BY <1>1, <1>3, RestTexts

LEMMA CrashTexts == ASSUME ProducerTypes, ProducerTypes', TextInv, Crash PROVE TextInv'
<1>1. \A p \in Actors : todo'[p] = <<>> /\ Coming(todo'[p]) = {} /\ Single(todo'[p])
  <2>1. Coming(<<>>) = {} /\ DOMAIN <<>> = {}
    BY RangeOfFew DEF Coming
  <2> QED
    BY <2>1 DEF Crash, Single
<1>2. UNCHANGED <<log, sent>> /\ (astray => astray') /\ held' = [i \in Items |-> Unkeyed] /\ Alone'
  BY <1>1 DEF Crash, table, codex, Alone, Actors
<1>3. \A i \in Items : Out(i) \in Int /\ Out(i)' \in Int /\ Out(i) <= Out(i)'
  <2>1. \A i \in Items : Out(i)' = sent[i] - 0
    BY <1>2 DEF Out, Held
  <2> QED
    BY <2>1, OutIsNat
<1>4. \A k \in DOMAIN log' : k + 0 \in DOMAIN log /\ log'[k] = log[k + 0]
  BY <1>2, ComingAreEvents
<1> QED
  BY <1>1, <1>2, <1>3, <1>4, TextsStay

LEMMA RecoverTexts == ASSUME ProducerTypes, ProducerTypes', TextInv, Recover PROVE TextInv'
<1>1. PICK n \in 0 .. Len(log) : log' = SubSeq(RecoveredLog, Pruned(n) + 1, Len(RecoveredLog))
  BY DEF Recover
<1>2. /\ Pruned(n) \in Nat /\ Len(RecoveredLog) \in Nat
      /\ log' \in Seq(Events) /\ Len(log') = Len(RecoveredLog) - Pruned(n)
      /\ RecoveredLog \in Seq(Events)
      /\ \A k \in 1 .. Len(RecoveredLog) - Pruned(n) : log'[k] = RecoveredLog[k + Pruned(n)]
  BY <1>1, PrunedTypes
<1>3. \A k \in DOMAIN log' : k + Pruned(n) \in DOMAIN RecoveredLog /\ log'[k] = RecoveredLog[k + Pruned(n)]
  BY <1>2, LenProperties
<1>4. \A k \in DOMAIN log' : \A i \in Items :
        Text(log'[k], i) => k + Pruned(n) \in DOMAIN log /\ log'[k] = log[k + Pruned(n)]
  BY <1>3, EndIsNoText DEF RecoveredLog
<1>5. UNCHANGED <<todo, sent, held, astray>> /\ Alone'
  BY DEF Recover, codex, buffers, TextInv, Alone
<1> QED
  BY <1>2, <1>4, <1>5, RestTexts

LEMMA TextStep ==
  ProducerTypes /\ ProducerTypes' /\ Prompt /\ TextInv /\ [Next]_vars => TextInv'
<1> SUFFICES ASSUME ProducerTypes, ProducerTypes', Prompt, TextInv, [Next]_vars PROVE TextInv'
  OBVIOUS
<1>1. CASE Codex \/ Finish
  BY <1>1, CodexHandles, HandleTexts, FinishTexts DEF Actors
<1>2. CASE Persist \/ Turn \/ RunFails
  <2>1. ASSUME NEW p \in Replayers, Replay(p) PROVE TextInv'
    BY <2>1, ReplayHandles, ReplayIsAstray, HandleTexts
  <2> QED
    BY <1>2, <2>1, PersistTexts, PerformTexts DEF Turn, WorkerPersists
<1>3. CASE Crash \/ Recover
  BY <1>3, CrashTexts, RecoverTexts
<1>4. CASE Naming \/ Client \/ WriteFails \/ UNCHANGED vars
  <2>1. UNCHANGED <<todo, sent, held, log>> /\ astray' \in {astray, TRUE}
    BY <1>4 DEF Naming, ReceiveNameless, TurnStarted, TurnAnswered, RegisterTurn,
                Client, List, Write, SendEvent, Forward, Reconnect, GoesOn, EndResponse, EndChat,
                AnswerObject, Answer, WriteFails, vars, table, codex, buffers
  <2>2. Alone' /\ (astray => astray')
    BY <2>1 DEF TextInv, Alone, ProducerTypes
  <2>3. \A k \in DOMAIN log' : k + 0 \in DOMAIN log /\ log'[k] = log[k + 0]
    BY <2>1, ComingAreEvents
  <2> QED
    BY <2>1, <2>2, <2>3, RestTexts
<1> QED
  BY <1>1, <1>2, <1>3, <1>4 DEF Next

-----------------------------------------------------------------------------
(* What the reader thread has yet to do.                                   *)
Reader == todo["reader"]

(* As long as nothing has gone astray: the turn is settled, and its row    *)
(* closed, when the reader thread has done everything; what is held back,  *)
(* or being flushed, belongs to a known item.                              *)
OnTrack ==
  ~astray =>
    /\ final # "none" \/ row \in Terminal => ended /\ Reader = <<>>
    /\ context \in {"lost", "none"} => row # "running"
    /\ \A i \in Items : held[i] # Unkeyed => i \in meta \/ \E k \in DOMAIN Reader : Reader[k] = Remember(i)
    /\ \A k \in DOMAIN Reader : Reader[k].op = "flush" =>
         \A text \in Reader[k].texts : text.item \in meta /\ held[text.item] = Unkeyed

Ended ==
  ~astray =>
    /\ ended => \A i \in Items : held[i] = Unkeyed
    /\ SettleLast(Reader)
    /\ ~ended => \A k \in DOMAIN Reader : Reader[k].op # "settle"
    /\ context \in {"lost", "none"} => Reader = <<>>

TurnInv == OnTrack /\ Ended

LEMMA TurnAstray == ASSUME astray' PROVE TurnInv'
  BY DEF TurnInv, OnTrack, Ended

LEMMA TurnInit == ASSUME Init PROVE TurnInv
<1>1. Reader = <<>> /\ DOMAIN Reader = {} /\ \A i \in Items : held[i] = Unkeyed
  <2>1. DOMAIN <<>> = {}
    OBVIOUS
  <2> QED
    BY <2>1 DEF Init, Reader, Actors, Replayers
<1> QED
  BY <1>1 DEF Init, TurnInv, OnTrack, Ended, SettleLast, Terminal

LEMMA ReadersTurn ==
  ASSUME TextInv, TurnInv, Receives
  PROVE  /\ ~ended /\ Reader = <<>> /\ DOMAIN Reader = {} /\ context = "registered"
         /\ ~astray => final = "none" /\ row \notin Terminal
         /\ ~astray => \A i \in Items : held[i] # Unkeyed => i \in meta
<1>1. ~ended /\ Reader = <<>> /\ DOMAIN Reader = {} /\ context = "registered"
  <2>1. DOMAIN <<>> = {}
    OBVIOUS
  <2> QED
    BY <2>1 DEF Receives, Reader
<1> QED
  BY <1>1 DEF TurnInv, OnTrack

(* The texts the reader flushes are of known items that hold nothing back  *)
(* any more.                                                               *)
LEMMA FlushedKnown ==
  ASSUME ProducerTypes, TextInv, TurnInv, Receives, ~astray, NEW S \in SUBSET Items, held' = Taken(S), meta' = meta,
         NEW text \in Flushed(S)
  PROVE  text.item \in meta' /\ held'[text.item] = Unkeyed
<1>1. PICK i \in Keyed(S) : text = Delta(i, sent[i] - held[i] + 1, sent[i])
  BY DEF Flushed
<1>2. text.item = i /\ i \in S /\ i \in Items /\ held[i] # Unkeyed
  BY <1>1 DEF Delta, Keyed
<1> QED
  BY <1>2, ReadersTurn DEF Taken

LEMMA PairOfJobs ==
  ASSUME NEW a, NEW b
  PROVE  LET s == <<a>> \o <<b>> IN
         1 \in DOMAIN s /\ s[1] = a /\ \A k \in DOMAIN s : s[k] \in {a, b}
<1> DEFINE S == {a, b}
           s == <<a>>
           t == <<b>>
<1>1. s \in Seq(S) /\ t \in Seq(S) /\ Len(s) = 1 /\ Len(t) = 1 /\ s[1] = a
  OBVIOUS
<1> HIDE DEF s, t
<1>2. /\ s \o t \in Seq(S) /\ Len(s \o t) = 2
      /\ \A k \in 1 .. 2 : (s \o t)[k] = IF k <= 1 THEN s[k] ELSE t[k - 1]
  BY <1>1, ConcatProperties
<1>3. DOMAIN (s \o t) = 1 .. 2 /\ \A k \in 1 .. 2 : (s \o t)[k] \in S
  BY <1>2, LenProperties, ElementOfSeq
<1> QED
  BY <1>1, <1>2, <1>3 DEF s, t

LEMMA CodexTurn == ASSUME ProducerTypes, TextInv, TurnInv, Codex PROVE TurnInv'
<1>1. Receives
  BY CodexHandles
<1>2. /\ UNCHANGED <<row, astray, context, meta, final>> /\ context = "registered"
      /\ ~ended /\ (~astray => final = "none" /\ row \notin Terminal)
  BY <1>1, CodexHandles, ReadersTurn DEF Handling
<1>3. ASSUME NEW jobs, Does("reader", jobs) PROVE Reader' = jobs
  BY <1>3 DEF Does, Reader, ProducerTypes, Actors, Replayers
<1>4. ASSUME NEW jobs, Does("reader", jobs), SettleLast(jobs),
             ~astray => \A i \in Items : held'[i] # Unkeyed => i \in meta \/ \E k \in DOMAIN jobs : jobs[k] = Remember(i),
             ~astray => \A k \in DOMAIN jobs : jobs[k].op = "flush" =>
                       \A text \in jobs[k].texts : text.item \in meta /\ held'[text.item] = Unkeyed,
             ended' => \A i \in Items : held'[i] = Unkeyed,
             ~ended' => \A k \in DOMAIN jobs : jobs[k].op # "settle"
      PROVE  TurnInv'
  <2>1. Reader' = jobs
    BY <1>3, <1>4
  <2>2. OnTrack'
    BY <1>2, <1>4, <2>1 DEF OnTrack
  <2>3. Ended'
    BY <1>2, <1>4, <2>1 DEF Ended
  <2> QED
    BY <2>2, <2>3 DEF TurnInv
<1>5. ASSUME NEW jobs, \A k \in DOMAIN jobs : jobs[k].op # "settle" PROVE SettleLast(jobs)
  BY <1>5 DEF SettleLast
<1>6. ASSUME NEW i \in Items, ReceiveDelta(i) PROVE TurnInv'
  <2>1. PICK h \in 0 .. Held(i) + 1 :
          /\ held' = [held EXCEPT ![i] = h]
          /\ Does("reader", <<Remember(i)>> \o
               (IF h = Held(i) + 1 THEN <<>>
                ELSE <<Emit(Delta(i, sent[i] - Held(i) + 1, sent[i] + 1 - h))>>))
    BY <1>6 DEF ReceiveDelta, HandleDelta
  <2>2. sent[i] \in Nat /\ Held(i) \in Nat /\ h \in Nat /\ h <= Held(i) + 1 /\ Held(i) <= sent[i]
    BY OutIsNat DEF Out
  <2>3. PICK jobs : /\ Does("reader", jobs) /\ 1 \in DOMAIN jobs /\ jobs[1] = Remember(i)
                    /\ \A k \in DOMAIN jobs : jobs[k].op \in {"remember", "emit"}
    <3> DEFINE e == Delta(i, sent[i] - Held(i) + 1, sent[i] + 1 - h)
    <3>1. CASE h = Held(i) + 1
      <4>1. Does("reader", <<Remember(i)>>)
        BY <2>1, <3>1
      <4> QED
        BY <4>1 DEF Remember
    <3>2. CASE h # Held(i) + 1
      <4> DEFINE a == Remember(i)
                 b == Emit(e)
      <4>1. Does("reader", <<a>> \o <<b>>)
        BY <2>1, <3>2
      <4>2. a.op = "remember" /\ b.op = "emit" /\ Remember(i) = a
        BY DEF Remember, Emit
      <4> HIDE DEF a, b
      <4>3. 1 \in DOMAIN (<<a>> \o <<b>>) /\ (<<a>> \o <<b>>)[1] = a
            /\ \A k \in DOMAIN (<<a>> \o <<b>>) : (<<a>> \o <<b>>)[k] \in {a, b}
        BY PairOfJobs
      <4> QED
        BY <4>1, <4>2, <4>3
    <3> QED
      BY <3>1, <3>2
  <2>4. ended' = ended
    BY <1>6 DEF ReceiveDelta
  <2>5. ~astray => \A j \in Items : held'[j] # Unkeyed => j \in meta \/ j = i
    BY <1>1, <2>1, ReadersTurn DEF ProducerTypes
  <2>6. \A k \in DOMAIN jobs : jobs[k].op # "settle" /\ jobs[k].op # "flush"
    BY <2>3
  <2> QED
    BY <1>2, <1>4, <1>5, <2>3, <2>4, <2>5, <2>6
<1>7. ASSUME NEW i \in Items, ReceiveItem(i) PROVE TurnInv'
  <2>1. PICK jobs \in ItemJobs(i) : Does("reader", jobs)
    BY <1>7 DEF ReceiveItem, HandleItem
  <2>2. held' = Taken({i}) /\ ended' = ended
    BY <1>7 DEF ReceiveItem, HandleItem
  <2>3. \A k \in DOMAIN jobs : jobs[k].op # "settle" /\ (jobs[k].op = "flush" => jobs[k].texts = Flushed({i}))
    BY ItemTexts
  <2>4. ~astray => \A text \in Flushed({i}) : text.item \in meta /\ held'[text.item] = Unkeyed
    BY <1>1, <1>2, <2>2, FlushedKnown
  <2>5. ~astray => \A j \in Items : held'[j] # Unkeyed => j \in meta
    BY <1>1, <2>2, ReadersTurn DEF Taken
  <2> QED
    BY <1>2, <1>4, <1>5, <2>1, <2>2, <2>3, <2>4, <2>5
<1>8. CASE ReceiveUsage
  <2>1. Does("reader", <<Emit(Note("usage", 0))>>) /\ UNCHANGED <<held, ended>>
    BY <1>8 DEF ReceiveUsage, HandleUsage
  <2>2. \A k \in DOMAIN <<Emit(Note("usage", 0))>> : <<Emit(Note("usage", 0))>>[k].op = "emit"
    BY DEF Emit
  <2>3. ~astray => \A j \in Items : held'[j] # Unkeyed => j \in meta
    BY <1>1, <2>1, ReadersTurn
  <2> QED
    BY <1>2, <1>4, <1>5, <2>1, <2>2, <2>3
<1>9. ASSUME NEW status \in Terminal, ReceiveEnd(status) PROVE TurnInv'
  <2>1. held' = Taken(Items) /\ ended' = TRUE /\ Does("reader", Closing(status))
    BY <1>9 DEF ReceiveEnd, HandleEnd
  <2>2. /\ SettleLast(Closing(status))
        /\ \A k \in DOMAIN Closing(status) :
             Closing(status)[k].op = "flush" => Closing(status)[k].texts = Flushed(Items)
    BY ClosingJobs
  <2>3. ~astray => \A text \in Flushed(Items) : text.item \in meta /\ held'[text.item] = Unkeyed
    BY <1>1, <1>2, <2>1, FlushedKnown
  <2>4. \A i \in Items : held'[i] = Unkeyed
    BY <2>1 DEF Taken
  <2> QED
    BY <1>4, <2>1, <2>2, <2>3, <2>4
<1> QED
  BY <1>6, <1>7, <1>8, <1>9 DEF Codex

LEMMA RestIs ==
  ASSUME ProducerTypes, NEW p \in Actors, todo[p] # <<>>
  PROVE  /\ todo[p][1] = Job(p) /\ 1 \in DOMAIN todo[p] /\ Rest(p) \in Seq(Jobs) /\ todo[p] \in Seq(Jobs)
         /\ \A k \in DOMAIN Rest(p) : k + 1 \in DOMAIN todo[p] /\ Rest(p)[k] = todo[p][k + 1]
         /\ \A k \in DOMAIN todo[p] : k # 1 => k - 1 \in DOMAIN Rest(p) /\ Rest(p)[k - 1] = todo[p][k]
<1> DEFINE s == todo[p]
<1>1. s \in Seq(Jobs)
  BY DEF ProducerTypes
<1>2. /\ Head(s) = s[1] /\ Tail(s) \in Seq(Jobs) /\ Len(s) \in Nat /\ Len(s) >= 1
      /\ Len(Tail(s)) = Len(s) - 1 /\ \A k \in 1 .. Len(s) - 1 : Tail(s)[k] = s[k + 1]
      /\ DOMAIN s = 1 .. Len(s) /\ DOMAIN Tail(s) = 1 .. Len(s) - 1
  BY <1>1, HeadTailProperties, LenProperties
<1>3. ASSUME NEW k \in DOMAIN s, k # 1 PROVE k - 1 \in DOMAIN Tail(s) /\ Tail(s)[k - 1] = s[k]
  <2>1. k - 1 \in 1 .. Len(s) - 1 /\ (k - 1) + 1 = k
    BY <1>2, <1>3
  <2> QED
    BY <1>2, <2>1
<1> QED
  BY <1>1, <1>2, <1>3 DEF Job, Rest

(* A text shares its item with no other text that is to be flushed.        *)
LEMMA TextsApart ==
  ASSUME ProducerTypes, Singles, NEW p \in Actors, todo[p] # <<>>, Job(p).op = "flush", NEW text \in Job(p).texts
  PROVE  /\ text.item \in Items
         /\ \A f \in Job(p).texts \ {text} : f.item # text.item
         /\ \A k \in DOMAIN Rest(p) : Rest(p)[k].op = "flush" => \A f \in Rest(p)[k].texts : f.item # text.item
<1>1. todo[p][1] = Job(p) /\ 1 \in DOMAIN todo[p] /\ Job(p) \in Jobs /\ Single(todo[p])
  BY RestIs, ElementOfSeq, LenProperties DEF Singles
<1>2. \A k \in DOMAIN todo[p] : todo[p][k] \in Jobs
  BY RestIs, ElementOfSeq, LenProperties
<1>3. ASSUME NEW k \in DOMAIN todo[p], todo[p][k].op = "flush", NEW f \in todo[p][k].texts
      PROVE  f \in Bears(todo[p][k]) /\ Text(f, f.item) /\ f.item \in Items
  <2>1. f \in Texts
    BY <1>2, <1>3, JobParts
  <2> QED
    BY <1>3, <2>1 DEF Bears, Texts, Text
<1>4. text \in Bears(todo[p][1]) /\ Text(text, text.item) /\ text.item \in Items
  BY <1>1, <1>3
<1>5. ASSUME NEW f \in Job(p).texts \ {text}, f.item = text.item PROVE FALSE
  <2>1. f \in Bears(todo[p][1]) /\ Text(f, text.item)
    BY <1>1, <1>3, <1>5
  <2> QED
    BY <1>1, <1>4, <1>5, <2>1 DEF Single
<1>6. ASSUME NEW k \in DOMAIN Rest(p), Rest(p)[k].op = "flush", NEW f \in Rest(p)[k].texts, f.item = text.item
      PROVE  FALSE
  <2>1. k + 1 \in DOMAIN todo[p] /\ Rest(p)[k] = todo[p][k + 1] /\ k \in Nat \ {0}
    BY RestIs, LenProperties
  <2>2. f \in Bears(todo[p][k + 1]) /\ Text(f, text.item)
    BY <1>3, <1>6, <2>1
  <2>3. 1 = k + 1
    BY <1>1, <1>4, <2>1, <2>2 DEF Single
  <2> QED
    BY <2>1, <2>3
<1> QED
  BY <1>4, <1>5, <1>6

LEMMA PerformTurn ==
  ASSUME ProducerTypes, TextInv, TurnInv, NEW p \in Actors, Perform(p) PROVE TurnInv'
<1>1. /\ todo[p] # <<>> /\ UNCHANGED <<row, astray, context, held, ended>>
      /\ \A q \in Actors : q # p => todo'[q] = todo[q]
  BY PerformJobs DEF Perform, codex, TextInv
<1>2. CASE astray
  BY <1>1, <1>2, TurnAstray
<1>3. CASE ~astray
  <2>0. p = "reader"
    BY <1>1, <1>3 DEF TextInv, Alone
  <2>1. /\ Reader = todo[p] /\ Reader' = todo'[p] /\ Reader # <<>> /\ context \notin {"lost", "none"}
        /\ ~astray => final = "none" /\ row \notin Terminal
    BY <1>1, <1>3, <2>0 DEF Reader, TurnInv, OnTrack, Ended
  <2>2. /\ Reader[1] = Job(p) /\ 1 \in DOMAIN Reader /\ Rest(p) \in Seq(Jobs) /\ Reader \in Seq(Jobs)
        /\ \A k \in DOMAIN Rest(p) : k + 1 \in DOMAIN Reader /\ Rest(p)[k] = Reader[k + 1]
        /\ \A k \in DOMAIN Reader : k # 1 => k - 1 \in DOMAIN Rest(p) /\ Rest(p)[k - 1] = Reader[k]
    BY <1>1, <2>1, RestIs
  <2>3. SettleLast(Rest(p)) /\ (Job(p).op = "settle" => Rest(p) = <<>>)
    BY <1>3, <2>1, <2>2, SettleInTheEnd DEF TurnInv, Ended, Job, Rest
  <2>4. ASSUME ~astray, NEW i \in Items, held[i] # Unkeyed
        PROVE  i \in meta \/ \E k \in DOMAIN Reader : Reader[k] = Remember(i)
    BY <2>4 DEF TurnInv, OnTrack
  <2>5. ASSUME ~astray, NEW k \in DOMAIN Reader, Reader[k].op = "flush", NEW text \in Reader[k].texts
        PROVE  text.item \in meta /\ held[text.item] = Unkeyed
    BY <2>5 DEF TurnInv, OnTrack
  <2>6. ASSUME Reader' = Rest(p), meta \subseteq meta', (~astray => final' = final) \/ (ended /\ Rest(p) = <<>>),
               \A i \in Items : Job(p) = Remember(i) => i \in meta'
        PROVE  TurnInv'
    <3>1. Ended'
      BY <1>1, <2>1, <2>2, <2>3, <2>6 DEF TurnInv, Ended
    <3>2. ASSUME ~astray, NEW i \in Items, held[i] # Unkeyed
          PROVE  i \in meta' \/ \E k \in DOMAIN Rest(p) : Rest(p)[k] = Remember(i)
      <4>1. CASE i \in meta
        BY <4>1, <2>6
      <4>2. CASE \E k \in DOMAIN Reader : Reader[k] = Remember(i)
        BY <4>2, <2>2, <2>6
      <4> QED
        BY <4>1, <4>2, <3>2, <2>4
    <3>3. ASSUME ~astray, NEW k \in DOMAIN Rest(p), Rest(p)[k].op = "flush", NEW text \in Rest(p)[k].texts
          PROVE  text.item \in meta' /\ held[text.item] = Unkeyed
      BY <2>2, <2>5, <2>6, <3>3
    <3>4. ~astray => (final' # "none" \/ row' \in Terminal => ended' /\ Reader' = <<>>)
      BY <1>1, <2>1, <2>6
    <3>5. OnTrack'
      BY <1>1, <2>1, <2>6, <3>2, <3>3, <3>4 DEF OnTrack
    <3> QED
      BY <3>1, <3>5 DEF TurnInv
  <2>7. CASE RememberItem(p)
    <3>1. Reader' = Rest(p) /\ meta' = meta \union {Job(p).item} /\ final' = final
      BY <2>1, <2>7, PerformJobs DEF RememberItem, TextInv
    <3>2. \A i \in Items : Job(p) = Remember(i) => i \in meta'
      BY <3>1 DEF Remember
    <3>3. meta \subseteq meta'
      BY <3>1
    <3>4. ~astray => final' = final
      BY <3>1
    <3> QED
      BY <2>6, <3>1, <3>2, <3>3, <3>4
  <2>8. CASE AppendEvent(p)
    <3>1. Reader' = Rest(p) /\ meta' = meta /\ final' = final /\ Job(p).op = "emit"
      BY <2>1, <2>8, PerformJobs DEF AppendEvent, TextInv
    <3>2. \A i \in Items : Job(p) # Remember(i)
      BY <3>1 DEF Remember
    <3>3. meta \subseteq meta'
      BY <3>1
    <3>4. ~astray => final' = final
      BY <3>1
    <3> QED
      BY <2>6, <3>1, <3>2, <3>3, <3>4
  <2>9. CASE SettleTurn(p)
    <3>1. Reader' = Rest(p) /\ meta' = meta /\ Job(p).op = "settle"
      BY <2>1, <2>9, PerformJobs DEF SettleTurn, TextInv
    <3>2. ended
      BY <1>3, <2>2, <3>1 DEF TurnInv, Ended
    <3> QED
      BY <2>3, <2>6, <3>1, <3>2 DEF Remember
  <2>10. CASE FlushText(p)
    <3>a. Singles
      BY DEF TextInv
    <3>b. PICK text \in Job(p).texts :
            /\ meta' = meta \ {text.item}
            /\ \E jobs \in Seq(Jobs) :
                 /\ todo'[p] = jobs \o Rest(p)
                 /\ \A k \in DOMAIN jobs : \/ jobs[k].op = "emit"
                                           \/ jobs[k].op = "flush" /\ jobs[k].texts = Job(p).texts \ {text}
      BY <2>10, <3>a, PerformJobs
    <3>1. PICK jobs \in Seq(Jobs) :
            /\ meta' = meta \ {text.item}
            /\ todo'[p] = jobs \o Rest(p)
            /\ \A k \in DOMAIN jobs : \/ jobs[k].op = "emit"
                                      \/ jobs[k].op = "flush" /\ jobs[k].texts = Job(p).texts \ {text}
      BY <3>b
    <3>2. Job(p).op = "flush" /\ final' = final
      BY <2>10 DEF FlushText
    <3>3. /\ text.item \in Items
          /\ \A f \in Job(p).texts \ {text} : f.item # text.item
          /\ \A k \in DOMAIN Rest(p) : Rest(p)[k].op = "flush" => \A f \in Rest(p)[k].texts : f.item # text.item
      BY <1>1, <3>2, TextsApart DEF TextInv
    <3>4. SettleLast(jobs \o Rest(p))
      BY <2>2, <2>3, <3>1, SettleConcat
    <3>5. \A k \in DOMAIN (jobs \o Rest(p)) :
            \/ k \in DOMAIN jobs /\ (jobs \o Rest(p))[k] = jobs[k]
            \/ k - Len(jobs) \in DOMAIN Rest(p) /\ (jobs \o Rest(p))[k] = Rest(p)[k - Len(jobs)]
      BY <2>2, Joined
    <3>6. ~ended => \A k \in DOMAIN Reader' : Reader'[k].op # "settle"
      <4>1. ~ended => \A k \in DOMAIN Rest(p) : Rest(p)[k].op # "settle"
        BY <1>3, <2>2 DEF TurnInv, Ended
      <4>2. \A k \in DOMAIN jobs : jobs[k].op # "settle"
        BY <3>1
      <4>3. Reader' = jobs \o Rest(p)
        BY <2>1, <3>1
      <4> QED
        BY <3>5, <4>1, <4>2, <4>3
    <3>7. ASSUME ~astray, NEW i \in Items, held[i] # Unkeyed
          PROVE  i \in meta' \/ \E k \in DOMAIN Reader' : Reader'[k] = Remember(i)
      <4>1. i # text.item
        BY <2>2, <2>5, <3>2, <3>7
      <4>2. CASE i \in meta
        BY <3>1, <4>1, <4>2
      <4>3. CASE \E k \in DOMAIN Reader : Reader[k] = Remember(i)
        <5>1. PICK k \in DOMAIN Reader : Reader[k] = Remember(i)
          BY <4>3
        <5>2. k # 1
          BY <2>2, <3>2, <5>1 DEF Remember
        <5>3. k - 1 \in DOMAIN Rest(p) /\ Rest(p)[k - 1] = Remember(i)
          BY <2>2, <5>1, <5>2
        <5>4. \E n \in DOMAIN (jobs \o Rest(p)) : (jobs \o Rest(p))[n] = Remember(i)
          <6>1. /\ Len(jobs \o Rest(p)) = Len(jobs) + Len(Rest(p)) /\ jobs \o Rest(p) \in Seq(Jobs)
                /\ \A n \in 1 .. Len(jobs) + Len(Rest(p)) :
                     (jobs \o Rest(p))[n] = IF n <= Len(jobs) THEN jobs[n] ELSE Rest(p)[n - Len(jobs)]
            BY <2>2, ConcatProperties
          <6>2. /\ DOMAIN (jobs \o Rest(p)) = 1 .. Len(jobs) + Len(Rest(p)) /\ DOMAIN Rest(p) = 1 .. Len(Rest(p))
                /\ Len(jobs) \in Nat /\ Len(Rest(p)) \in Nat
            BY <2>2, <6>1, LenProperties
          <6> DEFINE m == k - 1
          <6>3. m \in 1 .. Len(Rest(p)) /\ Rest(p)[m] = Remember(i)
            BY <5>3, <6>2
          <6> HIDE DEF m
          <6>4. m + Len(jobs) \in 1 .. Len(jobs) + Len(Rest(p)) /\ ~(m + Len(jobs) <= Len(jobs))
                /\ (m + Len(jobs)) - Len(jobs) = m
            BY <6>2, <6>3
          <6>5. (jobs \o Rest(p))[m + Len(jobs)] = Rest(p)[m]
            BY <6>1, <6>4
          <6> QED
            BY <6>2, <6>3, <6>4, <6>5
        <5> QED
          BY <2>1, <3>1, <5>4
      <4> QED
        BY <2>4, <3>7, <4>2, <4>3
    <3>8. ASSUME ~astray, NEW k \in DOMAIN Reader', Reader'[k].op = "flush", NEW f \in Reader'[k].texts
          PROVE  f.item \in meta' /\ held[f.item] = Unkeyed
      <4>1. CASE k \in DOMAIN jobs /\ Reader'[k] = jobs[k]
        <5>1. f \in Job(p).texts /\ f.item # text.item
          BY <3>1, <3>3, <3>8, <4>1
        <5> QED
          BY <2>2, <2>5, <3>1, <3>2, <3>8, <5>1
      <4>2. CASE k - Len(jobs) \in DOMAIN Rest(p) /\ Reader'[k] = Rest(p)[k - Len(jobs)]
        <5>1. f.item # text.item
          BY <3>3, <3>8, <4>2
        <5>2. f.item \in meta /\ held[f.item] = Unkeyed
          BY <2>2, <2>5, <3>8, <4>2
        <5> QED
          BY <3>1, <5>1, <5>2
      <4> QED
        BY <2>1, <3>1, <3>5, <4>1, <4>2
    <3>9. OnTrack'
      BY <1>1, <2>1, <3>2, <3>7, <3>8 DEF OnTrack
    <3>10. Ended'
      BY <1>1, <2>1, <3>1, <3>4, <3>6 DEF TurnInv, Ended
    <3> QED
      BY <3>9, <3>10 DEF TurnInv
  <2> QED
    BY <2>7, <2>8, <2>9, <2>10 DEF Perform
<1> QED
  BY <1>2, <1>3

LEMMA TurnStep ==
  ProducerTypes /\ Prompt /\ TextInv /\ TurnInv /\ [Next]_vars => TurnInv'
<1> SUFFICES ASSUME ProducerTypes, Prompt, TextInv, TurnInv, [Next]_vars PROVE TurnInv'
  OBVIOUS
<1>1. CASE Codex
  BY <1>1, CodexTurn
<1>2. CASE Finish \/ RunFails \/ ReceiveNameless
  BY <1>2, TurnAstray DEF Finish, RunFails, ReceiveNameless
<1>3. CASE Persist
  <2>1. /\ final # "none" /\ row = "running" /\ context = "registered" /\ row' = final
        /\ UNCHANGED <<astray, ended, context, held, meta, todo, final>>
    BY <1>3 DEF Persist, FinalizeTurn, codex, buffers
  <2> QED
    BY <2>1 DEF TurnInv, OnTrack, Ended, Reader
<1>4. ASSUME NEW p \in Replayers, Replay(p) PROVE TurnInv'
  BY <1>4, ReplayIsAstray, TurnAstray DEF Replay
<1>5. CASE Detach
  <2>1. context' = "detached" /\ UNCHANGED <<row, astray, ended, held, meta, todo, final>>
    BY <1>5 DEF Detach, table, codex, buffers
  <2>2. OnTrack'
    BY <2>1 DEF TurnInv, OnTrack, Reader
  <2>3. context = "registered" /\ Ended'
    BY <1>5, <2>1 DEF Detach, TurnInv, Ended, Reader
  <2> QED
    BY <2>2, <2>3 DEF TurnInv
<1>6. ASSUME NEW p \in Actors, Perform(p) PROVE TurnInv'
  BY <1>6, PerformTurn
<1>7. CASE Crash
  <2>1. /\ context' = "lost" /\ astray' = (astray \/ row = "running") /\ final' = "none"
        /\ held' = [i \in Items |-> Unkeyed] /\ Reader' = <<>> /\ UNCHANGED <<row, ended>>
    BY <1>7 DEF Crash, table, codex, Reader, Actors, Replayers
  <2>2. DOMAIN Reader' = {} /\ \A i \in Items : held'[i] = Unkeyed
    <3>1. DOMAIN <<>> = {}
      OBVIOUS
    <3> QED
      BY <2>1, <3>1
  <2>3. ~astray' => ~astray /\ row # "running"
    BY <2>1 DEF ProducerTypes
  <2>4. ASSUME ~astray', row' \in Terminal PROVE ended'
    BY <2>1, <2>3, <2>4 DEF TurnInv, OnTrack
  <2>5. OnTrack'
    BY <2>1, <2>2, <2>3, <2>4 DEF OnTrack
  <2>6. Ended'
    BY <2>1, <2>2 DEF Ended, SettleLast
  <2> QED
    BY <2>5, <2>6 DEF TurnInv
<1>8. CASE Recover
  <2>1. context = "lost" /\ context' = "none" /\ UNCHANGED <<astray, ended, held, meta, todo, final>>
    BY <1>8 DEF Recover, codex, buffers
  <2>2. row # "running" => row' \in {row, "gone"}
    BY <1>8 DEF Recover, RowsLeft, RecoveredRow
  <2>3. ASSUME ~astray PROVE row' # "running" /\ (row' \in Terminal => row \in Terminal)
    <3>1. row # "running"
      BY <2>1, <2>3 DEF TurnInv, OnTrack
    <3> QED
      BY <2>2, <3>1 DEF Terminal
  <2>4. OnTrack'
    BY <2>1, <2>3 DEF TurnInv, OnTrack, Reader
  <2>5. Ended'
    BY <2>1 DEF TurnInv, Ended, Reader
  <2> QED
    BY <2>4, <2>5 DEF TurnInv
<1>9. CASE TurnStarted \/ TurnAnswered \/ Client \/ WriteFails \/ UNCHANGED vars
  <2>1. UNCHANGED <<todo, astray, final, row, ended, context, held, meta>>
    BY <1>9 DEF TurnStarted, TurnAnswered, RegisterTurn, Client, List, Write, SendEvent, Forward, Reconnect, GoesOn, EndResponse, EndChat,
                AnswerObject, Answer, WriteFails, vars, table, codex, buffers
  <2> QED
    BY <2>1 DEF TurnInv, OnTrack, Ended, Reader
<1> QED
  BY <1>1, <1>2, <1>3, <1>4, <1>5, <1>6, <1>7, <1>8, <1>9 DEF Next, Naming, Turn, WorkerPersists

-----------------------------------------------------------------------------
(* What of the turn has been produced: recorded, or about to be by the     *)
(* reader thread.                                                          *)
Produced == Range(log) \union Coming(Reader)
Intact == ~astray /\ low = 0 /\ row # "gone"

AllTexts(E) ==
  \A i \in Items : \A n \in 1 .. Out(i) : \E e \in E : Text(e, i) /\ e.from <= n /\ n <= e.to
AllNotes(E) ==
  /\ \A i \in Items : Note("item", i) \in E <=> i \in done
  /\ \A i \in Items : Note("raw", i) \in E <=> i \in done /\ rawItems
  /\ Note("usage", 0) \in E <=> usage

Covered == Intact => AllTexts(Produced) /\ AllNotes(Produced)

LEMMA NotesDiffer ==
  /\ \A type, i, item, from, to : type # "delta" => Note(type, i) # Delta(item, from, to)
  /\ \A i, j : Note("item", i) # Note("raw", j) /\ Note("item", i) # Note("usage", j) /\ Note("raw", i) # Note("usage", j)
  /\ \A i, j : Note("end", j) # Note("item", i) /\ Note("end", j) # Note("raw", i) /\ Note("end", j) # Note("usage", i)
  /\ \A i, j : Note("item", i) = Note("item", j) => i = j
  /\ \A i, j : Note("raw", i) = Note("raw", j) => i = j
  BY DEF Note, Delta

LEMMA TextsAreNoNotes ==
  ASSUME NEW T \in SUBSET Texts, NEW i
  PROVE  Note("item", i) \notin T /\ Note("raw", i) \notin T /\ Note("usage", i) \notin T
  BY DEF Texts, Note

LEMMA CoveredInit == ASSUME Init PROVE Covered
<1>1. Range(log) = {} /\ Reader = <<>> /\ Coming(<<>>) = {}
  BY RangeOfFew DEF Init, Reader, Coming, Actors, Replayers
<1>2. Produced = {}
  BY <1>1 DEF Produced
<1>3. ASSUME NEW i \in Items PROVE Out(i) = 0
  BY <1>3 DEF Init, Out, Held
<1>4. AllTexts({})
  BY <1>3 DEF AllTexts
<1>5. AllNotes({})
  BY DEF Init, AllNotes
<1> QED
  BY <1>2, <1>4, <1>5 DEF Covered

LEMMA CodexCovers == ASSUME ProducerTypes, TextInv, TurnInv, Covered, Codex PROVE Covered'
<1>1. Receives
  BY CodexHandles
<1>2. UNCHANGED <<low, log, row, astray, rawItems>> /\ Coming(Reader) = {}
  <2>1. Coming(<<>>) = {}
    BY RangeOfFew DEF Coming
  <2> QED
    BY <1>1, <2>1, CodexHandles, ReadersTurn DEF Handling
<1>3. ASSUME NEW jobs, Does("reader", jobs) PROVE Produced' = Produced \union Coming(jobs)
  <2>1. Reader' = jobs
    BY <1>3 DEF Does, Reader, ProducerTypes, Actors, Replayers
  <2> QED
    BY <1>2, <2>1 DEF Produced
<1>4. SUFFICES ASSUME Intact, AllTexts(Produced), AllNotes(Produced)
               PROVE  AllTexts(Produced)' /\ AllNotes(Produced)'
  BY <1>2 DEF Covered, Intact
<1>5. ASSUME \A i \in Items : \A n \in Out(i) + 1 .. Out(i)' :
               \E e \in Produced' : Text(e, i) /\ e.from <= n /\ n <= e.to,
             Produced \subseteq Produced', \A i \in Items : Out(i)' \in Nat
      PROVE  AllTexts(Produced)'
  <2> SUFFICES ASSUME NEW i \in Items, NEW n \in 1 .. Out(i)'
               PROVE  \E e \in Produced' : Text(e, i) /\ e.from <= n /\ n <= e.to
    BY DEF AllTexts
  <2>1. Out(i) \in Nat /\ Out(i)' \in Nat
    BY <1>5, OutIsNat
  <2>2. CASE n \in 1 .. Out(i)
    BY <1>4, <1>5, <2>2 DEF AllTexts
  <2>3. CASE n \in Out(i) + 1 .. Out(i)'
    BY <1>5, <2>3
  <2> QED
    BY <2>1, <2>2, <2>3
<1>6. ASSUME NEW S \in SUBSET Items, held' = Taken(S), sent' = sent,
             Produced \union Flushed(S) \subseteq Produced'
      PROVE  AllTexts(Produced)'
  <2>1. \A i \in Items : Out(i)' \in Nat /\ (i \in S => Out(i)' = sent[i]) /\ (i \notin S => Out(i)' = Out(i))
    BY <1>6, Taking
  <2>2. ASSUME NEW i \in Items, NEW n \in Out(i) + 1 .. Out(i)'
        PROVE  \E e \in Produced' : Text(e, i) /\ e.from <= n /\ n <= e.to
    <3>1. i \in S /\ n \in Out(i) + 1 .. sent[i]
      BY <2>1, OutIsNat
    <3>2. held[i] # Unkeyed
      BY <3>1, OutIsNat DEF Out, Held
    <3> DEFINE e == Delta(i, sent[i] - held[i] + 1, sent[i])
    <3>3. e \in Flushed(S)
      BY <3>1, <3>2 DEF Flushed, Keyed
    <3>4. Text(e, i) /\ e.from = Out(i) + 1 /\ e.to = sent[i]
      BY <3>2 DEF Delta, Text, Out, Held
    <3> HIDE DEF e
    <3> QED
      BY <1>6, <3>1, <3>3, <3>4, OutIsNat
  <2> QED
    BY <1>5, <1>6, <2>1, <2>2
<1>7. ASSUME NEW i \in Items, ReceiveDelta(i) PROVE AllTexts(Produced)' /\ AllNotes(Produced)'
  <2>1. PICK h \in 0 .. Held(i) + 1 :
          /\ held' = [held EXCEPT ![i] = h]
          /\ Does("reader", <<Remember(i)>> \o
               (IF h = Held(i) + 1 THEN <<>>
                ELSE <<Emit(Delta(i, sent[i] - Held(i) + 1, sent[i] + 1 - h))>>))
    BY <1>7 DEF ReceiveDelta, HandleDelta
  <2>2. /\ sent[i] \in Nat /\ Held(i) \in Nat /\ Out(i) \in Nat /\ Out(i) = sent[i] - Held(i)
        /\ h \in Nat /\ h <= Held(i) + 1
    BY OutIsNat DEF Out
  <2>3. sent' = [sent EXCEPT ![i] = sent[i] + 1] /\ UNCHANGED <<done, usage, rawItems>>
    BY <1>7 DEF ReceiveDelta, HandleDelta
  <2>4. Out(i)' = sent[i] + 1 - h
    BY <2>1, <2>2, <2>3, StreamAssumption DEF Out, Held, Unkeyed, ProducerTypes
  <2>5. \A j \in Items : j # i => Out(j)' = Out(j)
    BY <2>1, <2>3 DEF Out, Held, ProducerTypes
  <2> DEFINE e == Delta(i, sent[i] - Held(i) + 1, sent[i] + 1 - h)
  <2>6. e \in Texts /\ e.item = i /\ Text(e, i) /\ e.from = Out(i) + 1 /\ e.to = Out(i)'
    <3>1. e \in Texts
      BY <2>2, EventTypes
    <3>2. e.item = i /\ e.from = Out(i) + 1 /\ e.to = Out(i)' /\ Text(e, i)
      BY <2>2, <2>4 DEF Delta, Text
    <3> QED
      BY <3>1, <3>2
  <2>7. \/ h = Held(i) + 1 /\ Produced' = Produced
        \/ h # Held(i) + 1 /\ Produced' = Produced \union {e}
    <3> HIDE DEF e
    <3>1. CASE h = Held(i) + 1
      <4>1. Does("reader", <<Remember(i)>>) /\ Coming(<<Remember(i)>>) = {}
        BY <2>1, <2>6, <3>1, DeltaJobs
      <4> QED
        BY <1>3, <3>1, <4>1
    <3>2. CASE h # Held(i) + 1
      <4>1. Does("reader", <<Remember(i)>> \o <<Emit(e)>>)
        BY <2>1, <3>2 DEF e
      <4>2. Coming(<<Remember(i)>> \o <<Emit(e)>>) = {e}
        BY <2>6, DeltaJobs
      <4> QED
        BY <1>3, <3>2, <4>1, <4>2
    <3> QED
      BY <3>1, <3>2
  <2>8. AllTexts(Produced)'
    <3> HIDE DEF e
    <3>1. ASSUME NEW j \in Items, NEW n \in Out(j) + 1 .. Out(j)'
          PROVE  \E f \in Produced' : Text(f, j) /\ f.from <= n /\ n <= f.to
      <4>1. j = i
        BY <2>5, OutIsNat
      <4>2. h # Held(i) + 1
        BY <2>2, <2>4, <4>1
      <4> QED
        BY <2>2, <2>4, <2>6, <2>7, <4>1, <4>2
    <3>2. \A j \in Items : Out(j)' \in Nat
      BY <2>2, <2>4, <2>5, OutIsNat
    <3> QED
      BY <1>5, <2>7, <3>1, <3>2
  <2>9. AllNotes(Produced)'
    <3>1. \A type \in {"item", "raw", "usage"} : \A j : Note(type, j) # e
      BY NotesDiffer
    <3> HIDE DEF e
    <3> QED
      BY <1>4, <2>3, <2>7, <3>1 DEF AllNotes
  <2> QED
    BY <2>8, <2>9
<1>8. ASSUME NEW i \in Items, ReceiveItem(i) PROVE AllTexts(Produced)' /\ AllNotes(Produced)'
  <2>1. PICK jobs \in ItemJobs(i) : Does("reader", jobs)
    BY <1>8 DEF ReceiveItem, HandleItem
  <2>2. held' = Taken({i}) /\ done' = done \union {i} /\ UNCHANGED <<sent, usage, rawItems>>
    BY <1>8 DEF ReceiveItem, HandleItem
  <2>3. Produced' = Produced \union Flushed({i}) \union {Note("item", i)}
                      \union (IF rawItems THEN {Note("raw", i)} ELSE {})
    BY <1>3, <2>1, ItemTexts
  <2>4. AllTexts(Produced)'
    BY <1>6, <2>2, <2>3
  <2>5. \A j : Note("item", j) \notin Flushed({i}) /\ Note("raw", j) \notin Flushed({i}) /\ Note("usage", j) \notin Flushed({i})
    BY FlushesTypes, TextsAreNoNotes
  <2>6. AllNotes(Produced)'
    <3>1. \A j \in Items : Note("item", j) \in Produced' <=> j \in done'
      BY <1>4, <2>2, <2>3, <2>5, NotesDiffer DEF AllNotes
    <3>2. \A j \in Items : Note("raw", j) \in Produced' <=> j \in done' /\ rawItems
      BY <1>4, <2>2, <2>3, <2>5, NotesDiffer DEF AllNotes
    <3>3. Note("usage", 0) \in Produced' <=> usage
      BY <1>4, <2>3, <2>5, NotesDiffer DEF AllNotes
    <3> QED
      BY <2>2, <3>1, <3>2, <3>3 DEF AllNotes
  <2> QED
    BY <2>4, <2>6
<1>9. CASE ReceiveUsage
  <2> DEFINE jobs == <<Emit(Note("usage", 0))>>
  <2>1. Does("reader", jobs) /\ usage' = TRUE /\ UNCHANGED <<sent, held, done, rawItems>>
    BY <1>9 DEF ReceiveUsage, HandleUsage
  <2>2. Coming(jobs) = {Note("usage", 0)}
    <3>1. \A c : Coming(<<c>>) = Bears(c)
      BY RangeOfFew DEF Coming
    <3> QED
      BY <3>1, BearsOfJobs
  <2>3. Produced' = Produced \union {Note("usage", 0)}
    BY <1>3, <2>1, <2>2
  <2>4. \A i \in Items : Out(i)' = Out(i)
    BY <2>1 DEF Out, Held
  <2>5. AllTexts(Produced)'
    BY <1>4, <2>3, <2>4 DEF AllTexts
  <2>6. AllNotes(Produced)'
    BY <1>4, <2>1, <2>3, NotesDiffer DEF AllNotes
  <2> QED
    BY <2>5, <2>6
<1>10. ASSUME NEW status \in Terminal, ReceiveEnd(status) PROVE AllTexts(Produced)' /\ AllNotes(Produced)'
  <2>1. held' = Taken(Items) /\ Does("reader", Closing(status)) /\ UNCHANGED <<sent, done, usage, rawItems>>
    BY <1>10 DEF ReceiveEnd, HandleEnd
  <2>2. Produced' = Produced \union Flushed(Items)
    BY <1>3, <2>1, ClosingJobs
  <2>3. AllTexts(Produced)'
    BY <1>6, <2>1, <2>2
  <2>4. \A j : Note("item", j) \notin Flushed(Items) /\ Note("raw", j) \notin Flushed(Items) /\ Note("usage", j) \notin Flushed(Items)
    BY FlushesTypes, TextsAreNoNotes
  <2>5. AllNotes(Produced)'
    BY <1>4, <2>1, <2>2, <2>4 DEF AllNotes
  <2> QED
    BY <2>3, <2>5
<1> QED
  BY <1>7, <1>8, <1>9, <1>10 DEF Codex

(* A row that was closed before the restart loses nothing unless events or *)
(* the row are pruned.                                                     *)
LEMMA RecoverIntact ==
  ASSUME ProducerTypes, TurnInv, Recover, Intact'
  PROVE  Intact /\ log' = log /\ row # "running"
<1>1. PICK n \in 0 .. Len(log) :
        /\ row' \in RowsLeft(n)
        /\ low' = low + Pruned(n)
        /\ log' = SubSeq(RecoveredLog, Pruned(n) + 1, Len(RecoveredLog))
  BY DEF Recover, LowAfter
<1>2. context = "lost" /\ astray' = astray
  BY DEF Recover
<1>3. ~astray /\ row # "running"
  BY <1>2 DEF Intact, TurnInv, OnTrack
<1>4. Pruned(n) \in Nat /\ low \in Nat
  BY PrunedTypes DEF ProducerTypes
<1>5. low = 0 /\ Pruned(n) = 0
  BY <1>1, <1>4 DEF Intact
<1>6. row # "gone"
  BY <1>1, <1>3 DEF RowsLeft, RecoveredRow, Intact
<1>7. RecoveredLog = log
  BY <1>3 DEF RecoveredLog
<1>8. log' = SubSeq(log, 1, Len(log))
  BY <1>1, <1>5, <1>7
<1>9. log' = log
  BY <1>8, SubSeqFull DEF ProducerTypes
<1> QED
  BY <1>3, <1>5, <1>6, <1>9 DEF Intact

LEMMA PerformCovers ==
  ASSUME ProducerTypes, TextInv, TurnInv, Covered, NEW p \in Actors, Perform(p) PROVE Covered'
<1>1. UNCHANGED <<low, row, astray, rawItems, sent, done, usage, held>> /\ todo[p] # <<>>
  BY DEF Perform, codex
<1>2. SUFFICES ASSUME Intact, AllTexts(Produced), AllNotes(Produced)
               PROVE  AllTexts(Produced)' /\ AllNotes(Produced)'
  BY <1>1 DEF Covered, Intact
<1>3. p = "reader" /\ Reader = todo[p] /\ Reader' = todo'[p]
  BY <1>1, <1>2 DEF TextInv, Alone, Intact, Reader
<1>4. \A i \in Items : Out(i)' = Out(i)
  BY <1>1 DEF Out, Held
<1>5. ASSUME Produced' = Produced PROVE AllTexts(Produced)' /\ AllNotes(Produced)'
  BY <1>1, <1>2, <1>4, <1>5 DEF AllTexts, AllNotes
<1>6. CASE RememberItem(p) \/ SettleTurn(p)
  <2>1. log' = log /\ Coming(todo'[p]) = Coming(todo[p])
    BY <1>6, PerformJobs DEF RememberItem, SettleTurn, TextInv
  <2> QED
    BY <1>3, <1>5, <2>1 DEF Produced
<1>7. CASE AppendEvent(p)
  <2>1. log' = Append(log, Job(p).event) /\ Coming(todo[p]) = {Job(p).event} \union Coming(todo'[p])
    BY <1>7, PerformJobs DEF AppendEvent, TextInv
  <2>2. Job(p).event \in Events
    BY <1>7, PerformTypes, JobParts DEF AppendEvent
  <2>3. Range(log') = Range(log) \union {Job(p).event}
    BY <2>1, <2>2, RangeOfAppend DEF ProducerTypes
  <2> QED
    BY <1>3, <1>5, <2>1, <2>3 DEF Produced
<1>8. CASE FlushText(p)
  <2>1. Singles
    BY DEF TextInv
  <2>2. PICK text \in Job(p).texts :
          /\ Coming(todo[p]) = {text} \union Coming(todo'[p])
          /\ text.item \in meta /\ text.from <= text.to => Coming(todo[p]) = Coming(todo'[p])
    BY <1>8, <2>1, PerformJobs
  <2>3. log' = log /\ Job(p).op = "flush"
    BY <1>8 DEF FlushText
  <2>4. text.item \in meta
    <3>1. 1 \in DOMAIN Reader /\ Reader[1] = Job(p)
      BY <1>1, <1>3, RestIs
    <3> QED
      BY <1>2, <2>3, <3>1 DEF TurnInv, OnTrack, Intact
  <2>5. text \in Texts /\ text.from \in Int /\ text.to \in Int
    <3>1. Job(p).texts \in SUBSET Texts
      BY <2>3, PerformTypes, JobParts
    <3> QED
      BY <3>1 DEF Texts
  <2>6. CASE text.from <= text.to
    <3>1. Produced' = Produced
      BY <1>3, <2>2, <2>3, <2>4, <2>6 DEF Produced
    <3> QED
      BY <1>5, <3>1
  <2>7. CASE ~(text.from <= text.to)
    <3>1. Produced = Produced' \union {text}
      BY <1>3, <2>2, <2>3 DEF Produced
    <3>2. AllTexts(Produced)'
      <4> SUFFICES ASSUME NEW i \in Items, NEW n \in 1 .. Out(i)
                   PROVE  \E e \in Produced' : Text(e, i) /\ e.from <= n /\ n <= e.to
        BY <1>4 DEF AllTexts
      <4>1. PICK e \in Produced : Text(e, i) /\ e.from <= n /\ n <= e.to
        BY <1>2 DEF AllTexts
      <4>2. n \in Int
        BY OutIsNat
      <4>3. e # text
        BY <2>5, <2>7, <4>1, <4>2
      <4> QED
        BY <3>1, <4>1, <4>3
    <3>3. AllNotes(Produced)'
      <4>1. \A i : Note("item", i) # text /\ Note("raw", i) # text /\ Note("usage", i) # text
        BY <2>5, TextsAreNoNotes
      <4> QED
        BY <1>1, <1>2, <3>1, <4>1 DEF AllNotes
    <3> QED
      BY <3>2, <3>3
  <2> QED
    BY <2>6, <2>7
<1> QED
  BY <1>6, <1>7, <1>8 DEF Perform

LEMMA CoveredStep ==
  ProducerTypes /\ Prompt /\ TextInv /\ TurnInv /\ Covered /\ [Next]_vars => Covered'
<1> SUFFICES ASSUME ProducerTypes, Prompt, TextInv, TurnInv, Covered, [Next]_vars PROVE Covered'
  OBVIOUS
<1>0. ASSUME Intact' => Intact, Produced' = Produced, UNCHANGED <<rawItems, done, usage>>,
             \A i \in Items : Out(i)' = Out(i)
      PROVE  Covered'
  <2>1. AllTexts(Produced) => AllTexts(Produced)'
    BY <1>0 DEF AllTexts
  <2>2. AllNotes(Produced) => AllNotes(Produced)'
    BY <1>0 DEF AllNotes
  <2> QED
    BY <1>0, <2>1, <2>2 DEF Covered
<1>1. CASE Codex
  BY <1>1, CodexCovers
<1>2. CASE Finish \/ RunFails \/ ReceiveNameless \/ \E p \in Replayers : Replay(p)
  <2>1. astray'
    BY <1>2, ReplayIsAstray DEF Finish, RunFails, ReceiveNameless, Replay
  <2> QED
    BY <2>1 DEF Covered, Intact
<1>3. CASE Persist
  <2>1. /\ log' = Append(log, Note("end", 0)) /\ row = "running"
        /\ UNCHANGED <<low, astray, rawItems, sent, done, usage, held, todo>>
    BY <1>3 DEF Persist, FinalizeTurn, codex, buffers
  <2>2. Produced' = Produced \union {Note("end", 0)}
    <3>1. Range(log') = Range(log) \union {Note("end", 0)}
      BY <2>1, EventTypes, RangeOfAppend DEF ProducerTypes
    <3> QED
      BY <2>1, <3>1 DEF Produced, Reader
  <2>3. Intact' => Intact
    BY <2>1 DEF Intact
  <2>4. AllTexts(Produced) => AllTexts(Produced)'
    <3>1. \A i \in Items : Out(i)' = Out(i)
      BY <2>1 DEF Out, Held
    <3> QED
      BY <2>2, <3>1 DEF AllTexts
  <2>5. AllNotes(Produced) => AllNotes(Produced)'
    BY <2>1, <2>2, NotesDiffer DEF AllNotes
  <2> QED
    BY <2>3, <2>4, <2>5 DEF Covered
<1>4. ASSUME NEW p \in Actors, Perform(p) PROVE Covered'
  BY <1>4, PerformCovers
<1>5. CASE Crash
  <2>1. /\ UNCHANGED <<low, log, row, rawItems, sent, done, usage>>
        /\ astray' = (astray \/ row = "running") /\ held' = [i \in Items |-> Unkeyed] /\ Reader' = <<>>
    BY <1>5 DEF Crash, table, codex, Reader, Actors, Replayers
  <2>2. ASSUME Intact' PROVE Intact /\ Reader = <<>> /\ ended
    <3>1. Intact /\ row \in Terminal
      BY <2>1, <2>2 DEF Intact, ProducerTypes
    <3> QED
      BY <3>1 DEF TurnInv, OnTrack, Intact
  <2>3. ASSUME Intact' PROVE Produced' = Produced /\ \A i \in Items : Out(i)' = Out(i)
    <3>1. Produced' = Produced
      BY <2>1, <2>2, <2>3 DEF Produced
    <3>2. \A i \in Items : held[i] = Unkeyed
      BY <2>2, <2>3 DEF TurnInv, Ended, Intact
    <3> QED
      BY <2>1, <3>1, <3>2 DEF Out, Held
  <2>4. CASE Intact'
    BY <1>0, <2>1, <2>2, <2>3, <2>4
  <2> QED
    BY <2>4 DEF Covered
<1>6. CASE Recover
  <2>1. UNCHANGED <<rawItems, sent, done, usage, held, todo>>
    BY <1>6 DEF Recover, codex, buffers
  <2>2. \A i \in Items : Out(i)' = Out(i)
    BY <2>1 DEF Out, Held
  <2>3. CASE Intact'
    <3>1. Intact /\ log' = log
      BY <1>6, <2>3, RecoverIntact
    <3>2. Produced' = Produced
      BY <2>1, <3>1 DEF Produced, Reader
    <3> QED
      BY <1>0, <2>1, <2>2, <3>1, <3>2
  <2> QED
    BY <2>3 DEF Covered
<1>7. CASE TurnStarted \/ TurnAnswered \/ Detach \/ Client \/ WriteFails \/ UNCHANGED vars
  <2>1. UNCHANGED <<low, log, row, astray, rawItems, sent, done, usage, held, todo>>
    BY <1>7 DEF TurnStarted, TurnAnswered, RegisterTurn, Detach, Client, List, Write, SendEvent, Forward, Reconnect, GoesOn, EndResponse, EndChat,
                AnswerObject, Answer, WriteFails, vars, table, codex, buffers
  <2>2. Produced' = Produced /\ (Intact' => Intact) /\ \A i \in Items : Out(i)' = Out(i)
    BY <2>1 DEF Produced, Reader, Intact, Out, Held
  <2> QED
    BY <1>0, <2>1, <2>2
<1> QED
  BY <1>1, <1>2, <1>3, <1>4, <1>5, <1>6, <1>7 DEF Next, Naming, Turn, WorkerPersists

-----------------------------------------------------------------------------
(* Once its row is closed, a turn that is intact has been recorded.        *)
LEMMA ClosedIsRecorded ==
  ASSUME ProducerTypes, TurnInv, Covered, Intact, row \in Terminal
  PROVE  /\ ended /\ Reader = <<>> /\ Produced = Range(log)
         /\ \A i \in Items : Out(i) = sent[i]
         /\ AllTexts(Range(log)) /\ AllNotes(Range(log))
<1>1. ended /\ Reader = <<>>
  BY DEF TurnInv, OnTrack, Intact
<1>2. Coming(<<>>) = {}
  BY RangeOfFew DEF Coming
<1>3. Produced = Range(log)
  BY <1>1, <1>2 DEF Produced
<1>4. \A i \in Items : held[i] = Unkeyed
  BY <1>1 DEF TurnInv, Ended, Intact
<1>5. \A i \in Items : Out(i) = sent[i]
  BY <1>4 DEF Out, Held, ProducerTypes
<1> QED
  BY <1>1, <1>3, <1>5 DEF Covered

LEMMA ObjectIsWhole ==
  ASSUME ProducerTypes, TurnInv, Covered, Intact, row \in Terminal, Len(log) <= MaxEvents
  PROVE  OutputItems(ObjectEvents) = done /\ (HasUsage(ObjectEvents) <=> usage)
<1>1. DOMAIN log = 1 .. Len(log) /\ Len(log) \in Nat /\ Range(log) = {log[k] : k \in DOMAIN log}
  BY LenProperties, RangeEquality DEF ProducerTypes
<1>2. ObjectEvents = Range(log)
  BY <1>1, StreamAssumption DEF ObjectEvents
<1>3. AllNotes(Range(log))
  BY ClosedIsRecorded
<1>4. ItemsNoted(ObjectEvents, "item") = done
  BY <1>2, <1>3 DEF AllNotes, ItemsNoted, ProducerTypes
<1>5. ItemsNoted(ObjectEvents, "raw") = IF rawItems THEN done ELSE {}
  BY <1>2, <1>3 DEF AllNotes, ItemsNoted, ProducerTypes
<1>6. OutputItems(ObjectEvents) = done
  BY <1>4, <1>5 DEF OutputItems
<1>7. HasUsage(ObjectEvents) <=> usage
  BY <1>2, <1>3 DEF AllNotes, HasUsage
<1> QED
  BY <1>6, <1>7

(* Nothing happens to the events of an intact turn whose row is closed.    *)
LEMMA ClosedStays ==
  ASSUME ProducerTypes, Prompt, TextInv, TurnInv, [Next]_vars, row # "running"
  PROVE  /\ row' # "running"
         /\ Intact' => Intact /\ UNCHANGED <<log, done, usage>>
<1>1. ASSUME Intact PROVE ended /\ \A p \in Actors : todo[p] = <<>>
  BY <1>1 DEF TextInv, Alone, TurnInv, OnTrack, Intact, Reader, ProducerTypes
<1>2. CASE Codex
  <2>1. Receives /\ UNCHANGED <<low, row, astray>>
    BY <1>2, CodexHandles DEF Handling
  <2>2. ~Intact
    BY <1>1, <2>1 DEF Receives
  <2> QED
    BY <2>1, <2>2 DEF Intact
<1>3. ASSUME NEW p \in Actors, Perform(p) PROVE row' # "running" /\ ~Intact'
  <2>1. todo[p] # <<>> /\ UNCHANGED <<low, row, astray>>
    BY <1>3 DEF Perform
  <2>2. ~Intact
    BY <1>1, <2>1
  <2> QED
    BY <2>1, <2>2 DEF Intact
<1>4. CASE Recover
  <2>1. row' \in {row, "gone"} /\ UNCHANGED <<done, usage>>
    BY <1>4 DEF Recover, RowsLeft, RecoveredRow, codex
  <2> QED
    BY <1>4, <2>1, RecoverIntact
<1>5. CASE Finish \/ ReceiveNameless
  BY <1>5 DEF Finish, ReceiveNameless, Intact, table
<1>6. CASE Crash
  <2>1. UNCHANGED <<low, log, row, done, usage>> /\ astray' = (astray \/ row = "running")
    BY <1>6 DEF Crash, table, codex
  <2> QED
    BY <2>1 DEF Intact
<1>7. CASE Persist \/ RunFails
  BY <1>7 DEF Persist, RunFails
<1>8. CASE TurnStarted \/ TurnAnswered \/ Detach \/ Client \/ WriteFails \/ UNCHANGED vars
  <2>1. UNCHANGED <<low, log, row, astray, done, usage>>
    BY <1>8 DEF TurnStarted, TurnAnswered, RegisterTurn, Detach, Client, List, Write, SendEvent, Forward, Reconnect, GoesOn, EndResponse, EndChat,
                AnswerObject, Answer, WriteFails, vars, table, codex
  <2> QED
    BY <2>1 DEF Intact
<1>9. ASSUME NEW p \in Replayers, Replay(p) PROVE row' # "running" /\ ~Intact'
  BY <1>9, ReplayIsAstray DEF Replay, Intact, table
<1> QED
  BY <1>2, <1>3, <1>4, <1>5, <1>6, <1>7, <1>8, <1>9 DEF Next, Naming, Turn, WorkerPersists

(* A client is told that something is missing only if Codex has not said   *)
(* it.                                                                     *)
Results ==
  result = "error" =>
    /\ row # "running"
    /\ Intact /\ Len(log) <= MaxEvents /\ usage => done = {}

LEMMA AnswerResults ==
  ASSUME ProducerTypes, TurnInv, Covered, NEW built, Answer(built),
         ~built => ~HasUsage(ObjectEvents) \/ ~ResponseObject(ObjectEvents)
  PROVE  Results'
<1>1. /\ row \in Terminal /\ result' = Outcome(built)
      /\ UNCHANGED <<low, log, row, astray, done, usage>>
  BY DEF Answer, IsTerminal, table, codex
<1>2. SUFFICES ASSUME result' = "error", Intact', Len(log') <= MaxEvents, usage' PROVE done' = {}
  BY <1>1 DEF Results, Terminal
<1>3. Intact /\ Len(log) <= MaxEvents /\ usage /\ ~built
  BY <1>1, <1>2 DEF Intact, Outcome
<1>4. OutputItems(ObjectEvents) = done /\ HasUsage(ObjectEvents)
  BY <1>1, <1>3, ObjectIsWhole
<1> QED
  BY <1>1, <1>3, <1>4 DEF ResponseObject

LEMMA ResultsStep ==
  ProducerTypes /\ Prompt /\ TextInv /\ TurnInv /\ Covered /\ Results /\ [Next]_vars => Results'
<1> SUFFICES ASSUME ProducerTypes, Prompt, TextInv, TurnInv, Covered, Results, [Next]_vars PROVE Results'
  OBVIOUS
<1>1. ASSUME UNCHANGED result PROVE Results'
  BY <1>1, ClosedStays DEF Results
<1>2. CASE EndResponse
  BY <1>2, AnswerResults DEF EndResponse
<1>3. CASE EndChat
  <2>1. PICK include \in BOOLEAN : Answer(include => HasUsage(ObjectEvents))
    BY <1>3 DEF EndChat
  <2> QED
    BY <2>1, AnswerResults
<1>4. CASE AnswerObject
  BY <1>4, AnswerResults DEF AnswerObject, ChatObject
<1>5. CASE Producers \/ Recover
  BY <1>1, <1>5, ProducersGrow DEF client, Recover
<1>6. CASE Crash \/ List \/ Write \/ Reconnect \/ GoesOn \/ WriteFails \/ UNCHANGED vars
  BY <1>1, <1>6 DEF Crash, List, Write, SendEvent, Forward, Reconnect, GoesOn, WriteFails, vars, client
<1> QED
  BY <1>2, <1>3, <1>4, <1>5, <1>6 DEF Next, Producers, Client

-----------------------------------------------------------------------------
StreamInv == ProducerTypes /\ ClientTypes /\ Prompt /\ TextInv /\ TurnInv /\ Covered /\ Results

(* What the sanitizer, the reader thread, the worker, a finisher and a     *)
(* restart keep true together: where each piece of text is, and, unless    *)
(* something has gone astray (an interrupt, a timeout, a failure or a      *)
(* restart, or a notification without the thread's id that is buffered and *)
(* replayed), that all of it is recorded in order.                         *)
THEOREM StreamInvariant == Spec => []StreamInv
<1>1. Init => StreamInv
  <2> SUFFICES ASSUME Init PROVE StreamInv
    OBVIOUS
  <2>1. Results
    BY DEF Init, Results
  <2> QED
    BY <2>1, TypesInit, PromptInit, TextsInit, TurnInit, CoveredInit DEF StreamInv
<1>2. StreamInv /\ [Next]_vars => StreamInv'
  BY TypesStep, PromptStep, TextStep, TurnStep, CoveredStep, ResultsStep DEF StreamInv
<1> QED
  BY <1>1, <1>2, PTL DEF Spec

LEMMA InvPreservesText == ASSUME StreamInv PROVE TextPreserved
<1> SUFFICES ASSUME NEW i \in Items
             PROVE  /\ \A j, k \in DeltaIds(i) :
                         j < k => IF astray THEN log[j].to < log[k].from \/ log[k].to < log[j].from
                                  ELSE log[j].to < log[k].from
                    /\ ~astray /\ row \in Terminal /\ low = 0 =>
                         \A n \in 1 .. sent[i] : \E k \in DeltaIds(i) : Carries(k, n)
  BY DEF TextPreserved
<1>1. ASSUME NEW j \in DeltaIds(i), NEW k \in DeltaIds(i), j < k
      PROVE  IF astray THEN log[j].to < log[k].from \/ log[k].to < log[j].from ELSE log[j].to < log[k].from
  <2>1. Follows(astray, log[k], log[j])
    BY <1>1 DEF StreamInv, TextInv, Recorded, DeltaIds, Text
  <2> QED
    BY <2>1 DEF Follows, Apart
<1>2. ASSUME ~astray, row \in Terminal, low = 0, NEW n \in 1 .. sent[i]
      PROVE  \E k \in DeltaIds(i) : Carries(k, n)
  <2>1. Intact
    BY <1>2 DEF Intact, Terminal
  <2>2. AllTexts(Range(log)) /\ Out(i) = sent[i]
    BY <1>2, <2>1, ClosedIsRecorded DEF StreamInv
  <2>3. PICK e \in Range(log) : Text(e, i) /\ e.from <= n /\ n <= e.to
    BY <2>2 DEF AllTexts
  <2>4. PICK k \in DOMAIN log : log[k] = e
    BY RangeEquality, LenProperties DEF StreamInv, ProducerTypes
  <2> QED
    BY <2>3, <2>4 DEF DeltaIds, Carries, Text
<1> QED
  BY <1>1, <1>2

(* _append_stream_delta, _flush_stream_item and _flush_stream_turn: no     *)
(* piece of a text is recorded twice, also by two threads that replay what *)
(* was buffered. If every notification named the thread and turn/completed *)
(* has ended the turn, the pieces are in order and all there when the row  *)
(* is closed.                                                              *)
THEOREM NoTextIsLost == Spec => []TextPreserved
<1>1. StreamInv => TextPreserved
  BY InvPreservesText
<1> QED
  BY <1>1, StreamInvariant, PTL

(* _turn_events, public_output_items and response_usage: the object of a   *)
(* completed turn has every item and the usage Codex has reported, and     *)
(* nobody who asked is told otherwise, if every notification named the     *)
(* thread.                                                                 *)
THEOREM AnswersAreWhole == Spec => []CompletedIsWhole
<1>1. StreamInv => CompletedIsWhole
  <2> SUFFICES ASSUME StreamInv, row = "completed", ~astray, low = 0, Len(log) <= MaxEvents
               PROVE  /\ OutputItems(ObjectEvents) = done
                      /\ usage => HasUsage(ObjectEvents)
                      /\ usage /\ done # {} => result # "error"
    BY DEF CompletedIsWhole
  <2>1. Intact /\ row \in Terminal
    BY DEF Intact, Terminal
  <2>2. OutputItems(ObjectEvents) = done /\ (HasUsage(ObjectEvents) <=> usage)
    BY <2>1, ObjectIsWhole DEF StreamInv
  <2>3. usage /\ done # {} => result # "error"
    BY <2>1 DEF StreamInv, Results
  <2> QED
    BY <2>2, <2>3
<1> QED
  BY <1>1, StreamInvariant, PTL
=============================================================================
