--------------------------- MODULE MCAgentKernel ---------------------------
(* Small instances of AgentKernel: a root mandate and a child derived from  *)
(* it by a sticky approval, which shares its payment token.                 *)
EXTENDS AgentKernel, TLC

CONSTANTS root, child, tok, o1, o2, p1, p2, p3

MCChain == (root :> <<root>>) @@ (child :> <<child, root>>)
MCInstrument == (root :> tok) @@ (child :> tok)
MCBudget == (root :> 3) @@ (child :> 2)
MCMaxPerTxn == (root :> 2) @@ (child :> 2)
MCMaxTxn == (root :> 2) @@ (child :> 1)
MCUnmet == {<<root, o2>>}

ConcurrentMaxPerTxn == (root :> 2) @@ (child :> 1)
ConcurrentOutOfScope == {<<child, o1>>}

RootChain == root :> <<root>>
RootInstrument == root :> tok
RootBudget == root :> 2
RootMaxPerTxn == root :> 2
RootMaxTxn == root :> 3
RootUnmet == {}

Symmetry == Permutations(Purchases)
=============================================================================
