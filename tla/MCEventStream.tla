--------------------------- MODULE MCEventStream ---------------------------
EXTENDS EventStream

Setting(reads, pieces, nameless) ==
  [kind |-> reads, pieces |-> pieces, nameless |-> nameless]

(* Reading does not depend on how the events come about: longer texts, and *)
(* notifications that lack the thread's id, are checked with the client    *)
(* that reads once.                                                        *)
MCSettings ==
  {Setting("events", 1, FALSE), Setting("compatible", 1, FALSE),
   Setting("object", 2, FALSE), Setting("object", 1, TRUE)}
=============================================================================
