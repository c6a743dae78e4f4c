-------------------------- MODULE MCAppServerPool --------------------------
(* A small instance of AppServerPool: the turns of one profile have hosted *)
(* tools, those of the others have not.                                    *)
EXTENDS AppServerPool, TLC

CONSTANTS HostedProfile, HostedVariant

MCHosted == {<<HostedProfile, HostedVariant>>}
Symmetry == Permutations(Users) \union Permutations(Children)
=============================================================================
