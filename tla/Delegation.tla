----------------------------- MODULE Delegation -----------------------------
(***************************************************************************)
(* A persona hands a task agent a delegation (agents/sub_agents): the      *)
(* request is checked, the child runs its loop, its answer is read as a    *)
(* DelegationResult, the merge engine decides which of the memories it     *)
(* asks for are admitted, and the spawner writes those one at a time and   *)
(* takes them back when one of the writes fails.                           *)
(***************************************************************************)
EXTENDS TaskAgent

CONSTANTS
    Requests,  \* what a parent may ask for
    Parent     \* its id

ASSUME RequestAssumption == \A r \in Requests : r.max_llm_calls \in Int

VARIABLES
    request,  \* the delegation under way
    stage,    \* where its dispatch is
    merged,  \* the merge engine's MergeOutcome
    ids,      \* the rows written so far, in order
    memory,   \* the rows of this delegation that are in the parent's memory
    stuck     \* rows whose removal failed

delegationVars == <<request, stage, merged, ids, memory, stuck>>

-----------------------------------------------------------------------------
(* The contract.                                                           *)

ValidRequest(r) == r.objective /\ r.ceiling \in 0..10 /\ r.cap >= 0
Statuses == {"completed", "partial", "failed"}
MergeTiers == {"episodic", "notes"}
Strategies == {"replace", "append", "patch", "reject_on_conflict"}

(* An answer that is not a result object becomes a summary and nothing else. *)
Synthesise(o) == [status |-> IF o.status = "COMPLETED" THEN "completed" ELSE "failed", writes |-> <<>>]
ParseOrSynthesise(o) ==
    IF o.text.form = "result" /\ o.text.result.status \in Statuses THEN o.text.result ELSE Synthesise(o)

-----------------------------------------------------------------------------
(* The merge engine.  Importance counts tenths.                            *)

ValidateEntry(e) ==
    IF e.source # None THEN "source_agent_set"
    ELSE IF e.reserved THEN "reserved_tag_prefix"
    ELSE IF e.tier = "procedural" THEN "procedural_tier_rejected"
    ELSE IF e.tier \notin MergeTiers \/ e.blank \/ e.importance \notin 0..10
            \/ (e.ttl # None /\ e.ttl <= 0) \/ e.strategy \notin Strategies
    THEN "schema_invalid" ELSE None

Downscaled(e, r) == IF e.importance > r.ceiling THEN [e EXCEPT !.importance = r.ceiling] ELSE e
WithSourceAgent(e) == [e EXCEPT !.source = agent.id]

Conflicts(e, known) == e.strategy = "reject_on_conflict" /\ e.key \in known

(* One entry after the other: a key admitted for one is taken for the next. *)
MergeEntry(o, e, r) ==
    LET why == IF o.index >= r.cap THEN "cap_exceeded"
               ELSE IF ValidateEntry(e) # None THEN ValidateEntry(e)
               ELSE IF Conflicts(e, o.known) THEN "conflict" ELSE None
    IN IF why # None
       THEN [o EXCEPT !.index = @ + 1, !.rejected = Append(@, [index |-> o.index, reason |-> why])]
       ELSE [o EXCEPT !.index = @ + 1, !.known = @ \cup {e.key},
                      !.admitted = Append(@, [Downscaled(WithSourceAgent(e), r) EXCEPT !.id = o.index])]
MergeResult(result, r) ==
    FoldLeft(LAMBDA o, e : MergeEntry(o, e, r),
             [index |-> 0, known |-> r.known, admitted |-> <<>>, rejected |-> <<>>], result.writes)

-----------------------------------------------------------------------------
NoOutcome == [index |-> 0, known |-> {}, admitted |-> <<>>, rejected |-> <<>>]
DelegationInit ==
    /\ TaskInit
    /\ request \in Requests
    /\ stage = "idle" /\ merged = NoOutcome
    /\ ids = <<>> /\ memory = {} /\ stuck = {}

Raise == stage' = "raised" /\ UNCHANGED <<merged, ids, memory, stuck>>

(* The request breaks its contract or is too large: nothing is sent. *)
DispatchRefused ==
    /\ stage = "idle" /\ phase = "idle"
    /\ ~ValidRequest(request) \/ request.oversize
    /\ Raise
    /\ UNCHANGED <<taskVars, request>>
(* The child carries the request's budget and tool list; nothing reads that list. *)
Dispatch ==
    /\ stage = "idle" /\ phase = "idle"
    /\ ValidRequest(request) /\ ~request.oversize
    /\ task' = [max_llm_calls |-> request.max_llm_calls, max_tokens |-> request.tokens,
                allowed_tools |-> request.allowed_tools, parent |-> Parent]
    /\ phase' = "start" /\ stage' = "child"
    /\ UNCHANGED <<agent, llmCalls, round, answers, proc, done, out, request, merged, ids, memory, stuck>>

(* From the child's return to the first write nothing waits.  A result object with a field of   *)
(* the wrong type ("misfit") raises in the child before it can be replaced by a summary.        *)
ChildFailed ==
    \/ out.text.form = "misfit"
    \/ out.status = "FAILED"
    \/ request.schema \in {"invalid", "unmet"}
ChildReturns ==
    /\ stage = "child" /\ phase = "end" /\ out.status # "CUT"
    /\ IF ChildFailed THEN Raise
       ELSE LET o == MergeResult(ParseOrSynthesise(out), request) IN
            /\ merged' = o
            /\ stage' = IF request.persist = "facade" /\ o.admitted # <<>> THEN "persist" ELSE "returned"
            /\ UNCHANGED <<ids, memory, stuck>>
    /\ UNCHANGED <<taskVars, request>>
ChildCancelled ==
    /\ stage = "child" /\ phase = "end" /\ out.status = "CUT"
    /\ stage' = "cancelled"
    /\ UNCHANGED <<taskVars, request, merged, ids, memory, stuck>>

-----------------------------------------------------------------------------
(* FacadeBoundSpawner: the writes, and the way back.                       *)

Written == Len(ids)
Pending == merged.admitted[Written + 1]
StoreObservation ==
    /\ stage = "persist" /\ Written < Len(merged.admitted)
    /\ ids' = Append(ids, Pending.id) /\ memory' = memory \cup {Pending}
    /\ stage' = IF Written + 1 = Len(merged.admitted) THEN "returned" ELSE "persist"
    /\ UNCHANGED <<taskVars, request, merged, stuck>>
(* Without an episodic accessor the rows stay, with a warning. *)
StoreFails ==
    /\ stage = "persist" /\ Written < Len(merged.admitted)
    /\ stage' = IF request.episodic /\ ids # <<>> THEN "rollback" ELSE "raised"
    /\ UNCHANGED <<taskVars, request, merged, ids, memory, stuck>>

\* Mutant: the rollback stops at the first row that will not go.
RollbackUntilFailure(ok) ==
    LET id == Last(ids) IN
    /\ stage = "rollback"
    /\ ids' = Front(ids)
    /\ memory' = IF ok THEN {m \in memory : m.id # id} ELSE memory
    /\ stuck' = IF ok THEN stuck ELSE stuck \cup {id}
    /\ stage' = IF Len(ids) = 1 \/ ~ok THEN "raised" ELSE "rollback"
    /\ UNCHANGED <<taskVars, request, merged>>

(* The newest row first; a row that will not go is logged and passed over. *)
RollbackOne(ok) ==
    LET id == Last(ids) IN
    /\ stage = "rollback"
    /\ ids' = Front(ids)
    /\ memory' = IF ok THEN {m \in memory : m.id # id} ELSE memory
    /\ stuck' = IF ok THEN stuck ELSE stuck \cup {id}
    /\ stage' = IF Len(ids) = 1 THEN "raised" ELSE "rollback"
    /\ UNCHANGED <<taskVars, request, merged>>
(* The parent's turn is cancelled while a write or a removal runs: no handler takes the rows back. *)
DispatchCancelled ==
    /\ stage \in {"persist", "rollback"}
    /\ stage' = "cancelled"
    /\ \/ stage = "persist" /\ memory' = memory \cup {Pending}
       \/ UNCHANGED memory
    /\ UNCHANGED <<taskVars, request, merged, ids, stuck>>

Spawn == DispatchRefused \/ Dispatch \/ ChildReturns \/ ChildCancelled
PersistRows == StoreObservation \/ StoreFails \/ \E ok \in BOOLEAN : RollbackOne(ok)
(* The child serves its parent or, like any task agent, the orchestrator. *)
ChildStep == ((stage = "idle" /\ ExecuteTask) \/ TaskNext) /\ UNCHANGED delegationVars
DelegationNext == ChildStep \/ Spawn \/ PersistRows \/ DispatchCancelled
DelegationSpec == DelegationInit /\ [][DelegationNext]_<<taskVars, delegationVars>>

-----------------------------------------------------------------------------
(* A delegation's memories land all or not at all: when dispatch returns every admitted entry   *)
(* is in memory, and when it raises none is but those whose removal itself failed -- unless the *)
(* turn was cancelled or the facade could not remove anything.                                  *)
DelegationIsWhole ==
    /\ stage = "returned" /\ request.persist = "facade" => memory = ToSet(merged.admitted)
    /\ stage = "raised" /\ request.episodic => \A m \in memory : m.id \in stuck
    /\ stage \in {"idle", "child"} => memory = {}

(* What a sub-agent gets into its parent's memory: no more rows than the cap, none weightier    *)
(* than the ceiling, each under the child's own name whatever it claimed, never a procedure,    *)
(* and nothing that was not to displace a key already held or admitted before it.               *)
DelegatedRowsAreBounded ==
    /\ Cardinality(memory) <= request.cap
    /\ \A m \in memory :
        /\ m.importance <= request.ceiling /\ m.source = agent.id /\ m.tier \in MergeTiers /\ ~m.reserved
        /\ m.strategy = "reject_on_conflict" =>
             /\ m.key \notin request.known
             /\ \A n \in memory : n.id < m.id => n.key # m.key
    /\ Len(llmCalls) > 0 /\ stage # "idle" => \A i \in DOMAIN llmCalls : llmCalls[i].by = Parent

(* Delegating is all or nothing and within the parent's bounds, whichever write fails           *)
(* (sub_agents/spawner.py, merge.py).                                                           *)
DelegationHolds == DelegationIsWhole /\ DelegatedRowsAreBounded
=============================================================================
