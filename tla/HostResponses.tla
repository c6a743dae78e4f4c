--------------------------- MODULE HostResponses ---------------------------
(***************************************************************************)
(* What a host may answer to a request of Codex, what Codex is then told,  *)
(* and what it is told when no host answers (interactions.py). A response  *)
(* has the fields of all kinds of requests; a field is "absent", the word  *)
(* the code compares it with, or else only the form the code looks at:     *)
(* "none" and "some" are an empty and a filled object, "other" is anything *)
(* the code has no use for. A host's response may come wrapped in an       *)
(* object of its own; here it is what is inside.                           *)
(***************************************************************************)

Methods == {"decision", "legacy", "permissions", "userInput", "elicitation"}

DecisionValues == {"accept", "acceptForSession", "decline", "cancel"}
LegacyValues == {"approved", "approved_for_session", "denied", "timed_out", "abort"}
ElicitationActions == {"accept", "decline", "cancel"}
Scopes == {"turn", "session"}
Unusable == {"absent", "other"}

Responses ==
  [decision : DecisionValues \union LegacyValues \union {"some"} \union Unusable,
   permissions : {"none", "some"} \union Unusable,
   scope : Scopes \union Unusable,
   strictAutoReview : {"true", "false", "null"} \union Unusable,
   answers : {"none", "some"} \union Unusable,
   action : ElicitationActions \union Unusable,
   content : {"some", "absent"}]

Nothing ==
  [decision |-> "absent", permissions |-> "absent", scope |-> "absent", strictAutoReview |-> "absent",
   answers |-> "absent", action |-> "absent", content |-> "absent"]

-----------------------------------------------------------------------------
(* validate_host_response raises for a response that is not valid.         *)

ValidDecision(r, allowed) == r.decision \in allowed \union {"some"}

ValidPermissions(r) ==
  /\ r.permissions \notin Unusable
  /\ r.scope # "other"
  /\ r.strictAutoReview # "other"

ValidUserInput(r) == r.answers \notin Unusable

ValidElicitation(r) == r.action \in ElicitationActions

Valid(m, r) ==
  \/ m = "decision" /\ ValidDecision(r, DecisionValues)
  \/ m = "legacy" /\ ValidDecision(r, LegacyValues)
  \/ m = "permissions" /\ ValidPermissions(r)
  \/ m = "userInput" /\ ValidUserInput(r)
  \/ m = "elicitation" /\ ValidElicitation(r)

(* What it makes of a valid one: only the fields of the method are kept.   *)
Validated(m, r) ==
  CASE m \in {"decision", "legacy"} -> [Nothing EXCEPT !.decision = r.decision]
    [] m = "permissions" ->
         [Nothing EXCEPT !.permissions = r.permissions,
                         !.scope = IF r.scope = "absent" THEN "turn" ELSE r.scope,
                         !.strictAutoReview = r.strictAutoReview]
    [] m = "userInput" -> [Nothing EXCEPT !.answers = r.answers]
    [] m = "elicitation" ->
         [Nothing EXCEPT !.action = r.action,
                         !.content = IF r.action = "accept" THEN r.content ELSE "absent"]

(* safe_response_for_method: what Codex is told when no host has decided.  *)
SafeResponse(m) ==
  CASE m = "decision" -> [Nothing EXCEPT !.decision = "decline"]
    [] m = "legacy" -> [Nothing EXCEPT !.decision = "denied"]
    [] m = "permissions" ->
         [Nothing EXCEPT !.permissions = "none", !.scope = "turn", !.strictAutoReview = "true"]
    [] m = "userInput" -> [Nothing EXCEPT !.answers = "none"]
    [] m = "elicitation" -> [Nothing EXCEPT !.action = "decline"]

(* The decision a response stands for, as the event that announces it says *)
(* (resolved_notification_params).                                         *)
DecisionOf(m, r) ==
  CASE m \in {"decision", "legacy"} -> r.decision
    [] m = "permissions" -> IF r.permissions = "some" THEN "accept" ELSE "decline"
    [] m = "userInput" -> r.answers
    [] m = "elicitation" -> r.action

(* A response that lets Codex do what it asked for, or speaks for the user. *)
Grants(m, r) ==
  DecisionOf(m, r) \notin {"decline", "cancel", "denied", "timed_out", "abort", "none"}
=============================================================================
