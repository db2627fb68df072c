------------------------ MODULE MC_UccImageUpdate ------------------------
(* Instances of UccImageUpdate: servers are tried in the order s1, s2.     *)
EXTENDS UccImageUpdate

CONSTANTS s1, s2, A, B

OneServer  == <<s1>>
TwoServers == <<s1, s2>>
=============================================================================
