--------------------------- MODULE MCAccessControl ---------------------------
(* A user, nested contexts and subtrees, a wildcard.                        *)
EXTENDS AccessControl

MCUsers == {[model |-> 3, name |-> "u1"]}
MCContextNames == {<<>>, <<7>>, <<7, 7>>}
MCSubtrees == {<<1>>, <<1, 2>>}
MCMasks == {<<>>, <<1, 0>>}
MCOids == {<<1, 1>>, <<1, 2>>, <<2, 2>>}
=============================================================================
