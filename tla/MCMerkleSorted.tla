--------------------------- MODULE MCMerkleSorted ---------------------------
EXTENDS MerkleSorted

(* Leaf ranks chosen so that the digest order differs from the claimers'   *)
(* names and the outsider's leaf falls between members' leaves.            *)
MC_LeafCode == [c \in Claimers \cup {Outsider} |->
                    CASE c = "a" -> 3 [] c = "b" -> 1 [] c = "c" -> 4
                      [] c = "d" -> 0 [] OTHER -> 2]
=============================================================================
