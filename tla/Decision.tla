------------------------------ MODULE Decision ------------------------------
(***************************************************************************)
(* The decision pipeline (agents/decision): the candidates a checkpoint    *)
(* built are constrained, a policy picks one of those left, approval gates *)
(* may hold the pick, and one record says what was chosen and why not the  *)
(* rest.  Constraints, gates and policies are plug-ins: each may answer    *)
(* anything, or raise.  A check's answer is "pass", a reason, or "broke"   *)
(* (it raised, was async, or gave no reason code).                         *)
(***************************************************************************)
EXTENDS Naturals, Sequences, FiniteSets, SequencesExt

CONSTANTS
    Contexts,    \* [mode]
    Candidates,  \* the sequences of [id, class] a checkpoint may build
    CheckSets,   \* sequences of functions from candidate ids to answers
    Policies,    \* "baseline", "raises", or the outcome a policy gives
    Nil

VARIABLES
    input,   \* what decide() is given
    record   \* the DecisionRecord, or Nothing

decisionVars == <<input, record>>

Outcome(class, selected, reason) ==
    [class |-> class, selected |-> selected, reason |-> reason, rejected |-> <<>>, confidence |-> FALSE]
Rejection(id, reason) == [id |-> id, reason |-> reason]
Ids(cs) == {c.id : c \in ToSet(cs)}

(* Candidate ids are unique, or decide() raises. *)
CheckCandidates(cs) == Cardinality(Ids(cs)) = Len(cs)

CheckOutcome(context, cs, o) ==
    LET rejected == {r.id : r \in ToSet(o.rejected)} IN
    /\ context.mode = "manual" => ~o.confidence
    /\ Cardinality(rejected) = Len(o.rejected) /\ rejected \subseteq Ids(cs)
    /\ o.selected # Nil => o.selected \notin rejected
                               /\ \E c \in ToSet(cs) : c.id = o.selected /\ c.class = o.class
    /\ o.class # Nil
    /\ o.selected = Nil => o.class = "defer" /\ o.reason # Nil

-----------------------------------------------------------------------------
Asked(check, id) == check[id]

(* The first refusal is the reason; a check that breaks removes the candidate unless one refuses it. *)
Constraint(checks, id) ==
    LET says == [i \in DOMAIN checks |-> Asked(checks[i], id)]
        refusals == {i \in DOMAIN says : says[i] \notin {"pass", "broke"}}
    IN IF refusals # {} THEN says[CHOOSE i \in refusals : \A j \in refusals : i <= j]
       ELSE IF \E i \in DOMAIN says : says[i] = "broke" THEN "constraint_error" ELSE Nil

\* Mutant: a check that broke counts as passed.
ConstrainOpen(cs, checks) ==
    LET why(c) == IF Constraint(checks, c.id) = "constraint_error" THEN Nil ELSE Constraint(checks, c.id)
        removed == SelectSeq(cs, LAMBDA c : why(c) # Nil)
    IN [survivors |-> SelectSeq(cs, LAMBDA c : why(c) = Nil),
        removed |-> [i \in DOMAIN removed |-> Rejection(removed[i].id, why(removed[i]))],
        broke |-> FALSE]

Constrain(cs, checks) ==
    LET why(c) == Constraint(checks, c.id)
        removed == SelectSeq(cs, LAMBDA c : why(c) # Nil)
    IN [survivors |-> SelectSeq(cs, LAMBDA c : why(c) = Nil),
        removed |-> [i \in DOMAIN removed |-> Rejection(removed[i].id, why(removed[i]))],
        broke |-> \E c \in ToSet(cs) : why(c) = "constraint_error"]
(* The manual mode's policy takes the first candidate left; in another mode it raises. *)
Baseline(context, cs) ==
    IF context.mode # "manual" THEN Nil
    ELSE Outcome(cs[1].class, cs[1].id, "runtime_proposal")
Pick(context, cs, policy) ==
    LET o == IF policy = [name |-> "baseline"] THEN Baseline(context, cs)
             ELSE IF policy = [name |-> "raises"] THEN Nil ELSE policy.outcome
    IN IF o # Nil /\ CheckOutcome(context, cs, o) THEN o ELSE Outcome("defer", Nil, "policy_error")

Relabel(o, proposal) ==
    IF o.reason # "runtime_proposal" \/ o.selected \in {Nil, proposal.id} THEN o
    ELSE [o EXCEPT !.reason = "proposal_removed"]

(* The gates are asked of the pick, in order; one that holds it or breaks turns it into a deferral. *)
GateOutcome(o, gates) ==
    LET holds == {i \in DOMAIN gates : Asked(gates[i], o.selected) # "pass"}
        first == CHOOSE i \in holds : \A j \in holds : i <= j
        says == Asked(gates[first], o.selected)
        reason == IF says = "broke" THEN "approval_gate_error" ELSE says
    IN IF o.selected = Nil \/ holds = {} THEN o
       ELSE [Outcome("defer", Nil, reason) EXCEPT !.rejected = Append(o.rejected, Rejection(o.selected, reason))]

Decide(in) ==
    LET k == Constrain(in.candidates, in.constraints)
        o == IF in.candidates = <<>> THEN Outcome("defer", Nil, "no_candidate")
             ELSE IF k.survivors = <<>>
             THEN Outcome("defer", Nil, IF k.broke THEN "constraint_error" ELSE "no_permitted_candidate")
             ELSE GateOutcome(Relabel(Pick(in.context, k.survivors, in.policy), in.candidates[1]), in.gates)
    IN [o EXCEPT !.rejected = k.removed \o @]

DecisionInit ==
    /\ input \in [context : Contexts, candidates : Candidates, constraints : CheckSets, gates : CheckSets, policy : Policies]
    /\ record = Nil
(* The record is refused, and decide() raises, when it breaks a rule of its own. *)
DecisionNext ==
    /\ record = Nil /\ CheckCandidates(input.candidates)
    /\ record' = IF CheckOutcome(input.context, input.candidates, Decide(input)) THEN Decide(input)
                 ELSE Outcome("raised", Nil, Nil)
    /\ UNCHANGED input

-----------------------------------------------------------------------------
(* Whatever the plug-ins answer, decide() gives a record: it never raises, never selects a      *)
(* candidate that a constraint or a gate refused or failed to judge, never leaves a refused one *)
(* out of its reasons, and calls a pick the runtime's own proposal only when it is.             *)
DecisionRespectsChecks ==
    record # Nil =>
        /\ record.class # "raised"
        /\ record.selected # Nil =>
             \A checks \in {input.constraints, input.gates} : \A i \in DOMAIN checks : checks[i][record.selected] = "pass"
        /\ \A c \in ToSet(input.candidates) :
             (\E i \in DOMAIN input.constraints : input.constraints[i][c.id] # "pass") =>
                 \E r \in ToSet(record.rejected) : r.id = c.id
        /\ record.selected # Nil /\ record.reason = "runtime_proposal" => record.selected = input.candidates[1].id
=============================================================================
