------------------------------- MODULE MCMesh -------------------------------
(* Two hosts that are each other's seeds, as in DEPLOYMENT.md, and a peer  *)
(* that operators register though nobody is there.                         *)
EXTENDS Mesh, TLC
CONSTANTS s1, s2, s3

OwnAddress == [s \in Servers |-> s]
Mutual == (s1 :> <<s2>>) @@ (s2 :> <<s1>>) @@ (s3 :> <<>>)
Subnets == {<<s1, s1>>, <<s1, s2>>}
ByHand == {<<s2, s3>>, <<s2, s2>>}
=============================================================================
