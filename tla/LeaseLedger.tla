---------------------------- MODULE LeaseLedger -----------------------------
(***************************************************************************)
(* What the wallet promises its callers, as an abstract specification: a   *)
(* lease is opened at most once at some charge to the scopes it names, is  *)
(* closed at most once at a final charge, and a scope's spend is moved by  *)
(* nothing else but the daily reset.                                       *)
(***************************************************************************)
EXTENDS Integers

CONSTANTS Leases, Scopes

VARIABLES
  state,   \* "new", "open" or "closed"
  scopes,  \* the scopes a lease is charged to
  charge,  \* what it is charged since the last reset
  spent    \* the spend of each scope

vars == <<state, scopes, charge, spent>>

Init ==
  /\ state = [l \in Leases |-> "new"]
  /\ scopes \in [Leases -> SUBSET Scopes]
  /\ charge = [l \in Leases |-> 0]
  /\ spent = [s \in Scopes |-> 0]

\* Only lease l is charged differently, and its scopes by just the difference.
Recharge(l) ==
  /\ \A k \in Leases \ {l} : charge'[k] = charge[k] /\ scopes'[k] = scopes[k]
  /\ spent' = [s \in Scopes |->
       IF s \in scopes'[l] THEN spent[s] + charge'[l] - charge[l] ELSE spent[s]]

Open(l) ==
  /\ state[l] = "new"
  /\ state' = [state EXCEPT ![l] = "open"]
  /\ Recharge(l)

Close(l) ==
  /\ state[l] = "open"
  /\ state' = [state EXCEPT ![l] = "closed"]
  /\ scopes'[l] = scopes[l]
  /\ Recharge(l)

NewDay ==
  /\ charge' = [l \in Leases |-> 0]
  /\ spent' = [s \in Scopes |-> 0]
  /\ UNCHANGED <<state, scopes>>

Next == NewDay \/ \E l \in Leases : Open(l) \/ Close(l)

Spec == Init /\ [][Next]_vars
=============================================================================
