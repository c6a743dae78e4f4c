---------------------------- MODULE AnsweredOnce ----------------------------
(***************************************************************************)
(* What the broker promises Codex and the host about a request of Codex    *)
(* that the host is to decide: there is one verdict, it is never changed,  *)
(* and what Codex is told is the verdict on record. A request of no turn   *)
(* is declined without a record.                                           *)
(***************************************************************************)
CONSTANTS Requests, Verdicts, Unrecorded, NoAnswer

VARIABLES
  verdict,    (* the verdict on record                                     *)
  delivered   (* what Codex was told                                       *)

vars == <<verdict, delivered>>

Init ==
  /\ verdict = [i \in Requests |-> NoAnswer]
  /\ delivered = [i \in Requests |-> NoAnswer]

Undecided(i) == verdict[i] = NoAnswer /\ delivered[i] = NoAnswer

Decide(i, v) ==
  /\ Undecided(i)
  /\ verdict' = [verdict EXCEPT ![i] = v]
  /\ UNCHANGED delivered

(* A restart decides all that was open.                                    *)
DecideAll(S, v) ==
  /\ \A i \in S : Undecided(i)
  /\ verdict' = [i \in Requests |-> IF i \in S THEN v ELSE verdict[i]]
  /\ UNCHANGED delivered

Deliver(i) ==
  /\ verdict[i] # NoAnswer
  /\ delivered[i] = NoAnswer
  /\ delivered' = [delivered EXCEPT ![i] = verdict[i]]
  /\ UNCHANGED verdict

Decline(i) ==
  /\ Undecided(i)
  /\ delivered' = [delivered EXCEPT ![i] = Unrecorded]
  /\ UNCHANGED verdict

Next ==
  \/ \E i \in Requests : Deliver(i) \/ Decline(i) \/ \E v \in Verdicts : Decide(i, v)
  \/ \E S \in SUBSET Requests, v \in Verdicts : DecideAll(S, v)

Spec == Init /\ [][Next]_vars
=============================================================================
