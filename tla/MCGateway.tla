------------------------------ MODULE MCGateway ------------------------------
(* Two rows, one of them free for a seed; a browser origin and two Google  *)
(* client ids; two instances, so that a deployment can overlap a boot and  *)
(* serve two keys; a third key that is deployed under the old JWT_KEY_ID.  *)
EXTENDS Gateway, TLC

CONSTANTS k1, k2, k3
MCKid == k1 :> 1 @@ k2 :> 2 @@ k3 :> 1
=============================================================================
