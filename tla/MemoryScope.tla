---------------------------- MODULE MemoryScope ----------------------------
(***************************************************************************)
(* The three scopes every memory row carries and every read applies: the   *)
(* session (a room), the principal (whose data it is) and the epoch (which *)
(* world it was lived in).  A scope is ambient (a ContextVar a request     *)
(* binds), or the store's snapshot of the environment, or a default.       *)
(***************************************************************************)
EXTENDS Naturals, Sequences, FiniteSets

CONSTANTS
    Unset,             \* None, or blank text
    Legacy,            \* LEGACY_SESSION_ID
    DefaultPrincipal,
    DefaultEpoch

Or(value, fallback) == IF value = Unset THEN fallback ELSE value

(* What a store snapshots when it is built: ambient, environment, default. *)
SessionSnapshot(ambient, env) == Or(ambient, Or(env, Legacy))
PrincipalSnapshot(ambient, env) == Or(ambient, Or(env, DefaultPrincipal))
EpochSnapshot(ambient, env) == Or(ambient, Or(env, DefaultEpoch))

NormalSession(s) == Or(s, Legacy)
NormalPrincipal(p) == Or(p, DefaultPrincipal)

(* The ambient scopes a request binds from its metadata: an absent key     *)
(* leaves the enclosing scope as it is.                                    *)
RequestScope(outer, metadata) ==
    [session |-> Or(metadata.session, outer.session),
     principal |-> Or(metadata.principal, outer.principal),
     epoch |-> Or(metadata.epoch, outer.epoch)]

(* The scopes a call reads under: ambient before snapshot. *)
ActiveSession(ambient, snapshot) == Or(ambient.session, snapshot.session)
ActivePrincipal(ambient, snapshot) == Or(ambient.principal, snapshot.principal)
ActiveEpoch(ambient, snapshot) == Or(ambient.epoch, snapshot.epoch)

(* Mutant: a write takes the ambient principal, the record's own ignored. *)
WritePrincipalAmbient(explicit, ambient, snapshot) == ActivePrincipal(ambient, snapshot)

WritePrincipal(explicit, ambient, snapshot) ==
    IF explicit = Unset THEN ActivePrincipal(ambient, snapshot)
    ELSE NormalPrincipal(explicit)

(* What a read may pass as sessions: nothing (the active room), "*" (every *)
(* room) or a list of rooms; an empty list is an error and reads nothing.  *)
Here == {Unset}
SessionsAll == {"*"}

(* The rooms a read admits, the rows of before rooms existed always among  *)
(* them.                                                                   *)
SessionList(asked, ambient, snapshot) ==
    {Legacy} \cup (IF asked = Here THEN {ActiveSession(ambient, snapshot)} ELSE asked)
Admits(asked, row, ambient, snapshot) ==
    asked # {} /\ (asked = SessionsAll \/ row.sess \in SessionList(asked, ambient, snapshot))

InScope(row, sessions, principal, epoch) ==
    /\ row.sess \in sessions
    /\ row.world = [principal |-> principal, epoch |-> epoch]
=============================================================================
