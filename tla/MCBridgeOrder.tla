--------------------------- MODULE MCBridgeOrder ---------------------------
(* Instances of BridgeOrder.  c1 and c2 retry one key and run alone;         *)
(* c4 and c5 share another key and overlap, c4 with a dry-run token.        *)
EXTENDS BridgeOrder, TLC

CONSTANTS c1, c2, c4, c5, k1, k2, prodA, prodB

RetryKey == (c1 :> k1) @@ (c2 :> k1) @@ (c4 :> k2) @@ (c5 :> k2)
RetryProduct == (c1 :> prodA) @@ (c2 :> prodA) @@ (c4 :> prodB) @@ (c5 :> prodB)

SameKey == (c4 :> k2) @@ (c5 :> k2)
SameProduct == (c4 :> prodB) @@ (c5 :> prodB)

TwoKeys == (c4 :> k1) @@ (c5 :> k2)
TwoProducts == (c4 :> prodA) @@ (c5 :> prodB)
=============================================================================
