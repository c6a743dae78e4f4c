---------------------------- MODULE ThreadQueue ----------------------------
(***************************************************************************)
(* What the turn scheduler promises a host application: "one active turn   *)
(* at a time per broker thread", the turns of a thread run in the order in *)
(* which they were accepted, and an accepted turn runs at most once.       *)
(*                                                                         *)
(* The specification knows nothing of gates, futures, workers or shutdown  *)
(* procedures: TurnScheduler is shown to implement it.                     *)
(***************************************************************************)
EXTENDS Sequences

CONSTANTS
  Threads,   (* broker threads                                             *)
  Turns,     (* turn identifiers, each used at most once                   *)
  NoTurn     (* "no turn"                                                  *)

VARIABLES
  used,      (* the turns accepted so far                                  *)
  current,   (* the turn each thread is running, or NoTurn                 *)
  waiting,   (* the accepted turns of each thread that wait their turn     *)
  stopping   (* whether work is being cut short                            *)

vars == <<used, current, waiting, stopping>>

Init ==
  /\ used = {}
  /\ current = [t \in Threads |-> NoTurn]
  /\ waiting = [t \in Threads |-> <<>>]
  /\ stopping = FALSE

(* An idle thread runs a new turn at once; on a busy one it waits last.    *)
Accept(t, u) ==
  /\ u \notin used
  /\ used' = used \union {u}
  /\ \/ /\ current[t] = NoTurn
        /\ waiting[t] = <<>>
        /\ current' = [current EXCEPT ![t] = u]
        /\ UNCHANGED waiting
     \/ /\ current[t] # NoTurn \/ stopping
        /\ waiting' = [waiting EXCEPT ![t] = Append(@, u)]
        /\ UNCHANGED current
  /\ UNCHANGED stopping

(* A turn that the stopping program accepts and will never run.            *)
AcceptUnserved(u) ==
  /\ stopping
  /\ u \notin used
  /\ used' = used \union {u}
  /\ UNCHANGED <<current, waiting, stopping>>

(* The current turn is over: the one that waited longest takes its place.  *)
HandOver(t) ==
  /\ current[t] # NoTurn
  /\ IF waiting[t] = <<>>
       THEN /\ current' = [current EXCEPT ![t] = NoTurn]
            /\ UNCHANGED waiting
       ELSE /\ current' = [current EXCEPT ![t] = Head(waiting[t])]
            /\ waiting' = [waiting EXCEPT ![t] = Tail(@)]
  /\ UNCHANGED <<used, stopping>>

(* Work is cut short: turns leave without a successor, ...                 *)
Stop ==
  /\ stopping' = TRUE
  /\ UNCHANGED <<used, current, waiting>>

(* ... the current ones of some threads, ...                               *)
Abandon(S) ==
  /\ stopping
  /\ current' = [t \in Threads |-> IF t \in S THEN NoTurn ELSE current[t]]
  /\ UNCHANGED <<used, waiting, stopping>>

(* ... one that was about to take over, ...                                *)
Lose(t) ==
  /\ stopping
  /\ waiting[t] # <<>>
  /\ current' = [current EXCEPT ![t] = NoTurn]
  /\ waiting' = [waiting EXCEPT ![t] = Tail(@)]
  /\ UNCHANGED <<used, stopping>>

(* ... all that wait, ...                                                  *)
DropWaiting ==
  /\ stopping
  /\ waiting' = [t \in Threads |-> <<>>]
  /\ UNCHANGED <<used, current, stopping>>

(* ... and everything, when the process ends.                              *)
Reset ==
  /\ current' = [t \in Threads |-> NoTurn]
  /\ waiting' = [t \in Threads |-> <<>>]
  /\ stopping' = FALSE
  /\ UNCHANGED used

Next ==
  \/ \E t \in Threads, u \in Turns : Accept(t, u)
  \/ \E u \in Turns : AcceptUnserved(u)
  \/ \E t \in Threads : HandOver(t)
  \/ Stop
  \/ \E S \in SUBSET Threads : Abandon(S)
  \/ \E t \in Threads : Lose(t)
  \/ DropWaiting
  \/ Reset

Spec == Init /\ [][Next]_vars
=============================================================================
