------------------------------ MODULE MCWallet ------------------------------
(* The wallet on small instances, and the ledger sums that only TLC checks. *)
EXTENDS Wallet, TLC
LOCAL INSTANCE FiniteSetsExt

CONSTANTS a1, a2, w1, cheapOut, unpriced, i1

\* A model whose input is dearer than its output, which LoadCostConfig accepts
\* and CheckBudget under-prices; an unpriced model.
MCInputPrice  == (cheapOut :> 2)
MCOutputPrice == (cheapOut :> 1)
MCUnpriced    == (unpriced :> 0)
MCCeiling     == (i1 :> 3)
MCNoCeiling   == <<>>

\* Estimates and reported actuals, out of range ones and overruns included.
MCEstimates   == {<<1, 1>>, <<0, 1>>, <<-1, 1>>}
MCActuals     == {<<1, 0>>, <<3, 0>>, <<0, -1>>}
MCTokenEstimates == {<<1, 1>>}
MCTokenActuals   == {<<0, 1>>, <<3, 0>>}

Symmetry == Permutations(Callers) \cup Permutations(Leases)

\* What account says was charged to a scope since the last reset.
ChargedTo(s) ==
  MapThenSumSet(LAMBDA l : IF s \in ScopesOf(account[l]) THEN account[l].usd ELSE 0, Leases)

\* What an interaction's leases hold or used, and what settlements that found their
\* hold gone left uncorrected in its total.
TokensOf(i) ==
  MapThenSumSet(LAMBDA l : IF account[l].interaction = i THEN account[l].tokens ELSE 0, Leases)
ResidueOf(i) ==
  MapThenSumSet(LAMBDA l : IF account[l].interaction = i THEN account[l].residue ELSE 0, Leases)

\* Conservation: each dollar scope (global, workflow, agent) is exactly the sum
\* over leases of the hold while open, the actuals once settled, nothing once
\* released and the granted price once reaped, each counted once.
ScopesAreCharges == \A s \in Scopes : usd[s] = ChargedTo(s)

\* Conservation for the interaction totals: grants, refunds, overruns, reaps and
\* prunes leave each total at what its leases hold or used.  The one exception is a
\* settlement or release after the daily reset took its hold away, which finalize
\* does not carry into the total: the total then keeps the grant, too much or too
\* little by the residue, and only a lease that was open at a reset has one.
InteractionTotalsAreCharges ==
  /\ \A i \in Interactions : interactionTokens[i] = TokensOf(i) + ResidueOf(i)
  /\ \A l \in Leases : account[l].residue # 0 => account[l].cut

\* internal/wallet/interaction_budget.go: "a fully-released interaction (every lease
\* reversed to zero actuals) leaves no residue in the map".  It does when a release
\* follows a reset.
ReleasedLeavesNoResidue ==
  \A i \in Interactions :
    (\A l \in Leases : ~Unsettled(l)) /\ TokensOf(i) = 0 => interactionTokens[i] = 0
=============================================================================
