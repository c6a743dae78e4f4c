-------------------------- MODULE MCInteractions --------------------------
(* A permissions request and an elicitation. The response of one host is   *)
(* valid for both and grants them, that of the other is valid for the      *)
(* elicitation only.                                                       *)
EXTENDS Interactions, TLC

CONSTANTS i1, i2, h1, h2

Granting ==
  [Nothing EXCEPT !.permissions = "some", !.scope = "session", !.action = "accept", !.content = "some"]
Misshapen == [Nothing EXCEPT !.permissions = "other", !.action = "decline", !.content = "some"]

MCMethodOf == (i1 :> "permissions") @@ (i2 :> "elicitation")
MCBodyOf == (h1 :> Granting) @@ (h2 :> Misshapen)
=============================================================================
