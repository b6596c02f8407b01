------------------------- MODULE InteractionProofs -------------------------
(***************************************************************************)
(* Proofs about the channel router's interactions (Interaction), for every *)
(* number of publishers, senders, interactions and publishes: the resolver *)
(* and the reply counters track the channel's history, and of everything   *)
(* that may close an interaction one close wins and the interaction stays  *)
(* closed, and nothing the router keeps of one is ever out of its reach.   *)
(***************************************************************************)
EXTENDS Interaction, FiniteSetTheorems, TLAPS

\* An entry that no rejected publish takes away: something of the channel is
\* stored, under the open id or under the retiree.
Rooted == entry.live /\ (entry.committed \/ entry.retired # None)

EntryInv ==
  /\ ~entry.live => entry = NoEntry
  /\ entry.live /\ entry.id = None => entry.retired # None
  /\ entry.retired # None => entry.retired # entry.id

\* The discards of a close in progress, and of a displaced retiree.
TodoShape(r) ==
  /\ r.pc = "discard" <=> r.todo # <<>>
  /\ r.pc # "discard" => r.then = "idle"
  /\ r.then = "mark" => r.todo = <<<<"replies", r.id>>>>
  /\ r.pc = "discard" /\ r.then # "mark" => \A k \in 1..Len(r.todo) : r.todo[k][2] # r.id

Exempted(r) == r.vote \/ r.sender \in Exempt \/ ReplyBudget = 0

PublishShape(r) ==
  /\ r.pc = "idle" <=> r.id = None
  /\ r.latched => r.pc \in {"reserve", "persist", "release", "rejected", "postclose"}
  /\ TodoShape(r)
  /\ r.pc \in {"reserve", "persist", "release", "endvote", "snapshot", "persisted"} \/ r.then = "reserve" => r.sender \in Senders
  /\ r.pc = "persist" => (r.reserved <=> ~Exempted(r))
  /\ r.pc = "release" => r.reserved

PublishInv == \A p \in Publishers : PublishShape(pub[p])

\* Ids are minted in order.
MintedInv ==
  /\ entry.id <= minted /\ entry.retired <= minted
  /\ \A i \in Ledger : i <= minted
  /\ \A p \in Publishers : pub[p].id <= minted /\ \A k \in 1..Len(pub[p].todo) : pub[p].todo[k][2] <= minted
  /\ \A i \in Ids : closes[i] > 0 => i <= minted

\* Whatever treats an interaction as closed has a close behind it.
ClosedInv ==
  /\ \A i \in closed \cup Ledger : closes[i] > 0
  /\ \A p \in Publishers :
       pub[p].latched \/ pub[p].pc \in {"postclose", "mark"} \/ pub[p].then = "mark" => closes[pub[p].id] > 0

\* What a publish leaves behind once it has settled keeps the entry.
RootInv ==
  store # "purged" =>
    /\ (\E i \in Ids : closes[i] > 0) => Rooted
    /\ \A p \in Publishers :
         pub[p].pc \in {"snapshot", "endvote", "postclose", "fanout", "tail", "bound", "mark"} => Rooted
    /\ \A p \in Publishers :
         pub[p].pc = "discard" /\ pub[p].then # "mark" =>
           /\ entry.live /\ entry.retired # None
           /\ \A k \in 1..Len(pub[p].todo) : pub[p].todo[k][2] # entry.id
    /\ \A i \in Ids, s \in Senders :
         persisted[i][s] > 0 => Rooted \/ \E p \in Publishers : pub[p].pc = "persisted" /\ pub[p].id = i

PurgeInv == doomed # <<>> => store = "purged"

\* A publish that may still come to close its interaction, and an interaction
\* that one may.
MayCome(r, row) ==
  /\ ~r.latched
  /\ \/ r.pc \in {"persisted", "snapshot", "endvote", "fanout", "tail", "bound"}
     \/ row = "live" /\ (r.pc \in {"reserve", "persist"} \/ r.then = "reserve")
MayClose(i) ==
  \/ \E p \in Publishers : pub[p].id = i /\ MayCome(pub[p], store)
  \/ store = "live" /\ entry.id = i

\* A closed interaction has its tombstone as long as anybody may close it.
TombstoneInv ==
  \A i \in Ids \ stranded : closes[i] <= 1 /\ (closes[i] > 0 /\ i \notin closed => ~MayClose(i))

InteractionInv ==
  /\ TypeOK /\ EntryInv /\ PublishInv /\ MintedInv /\ ClosedInv /\ RootInv /\ PurgeInv /\ TombstoneInv
  /\ ClosedIsRetired /\ EntriesHaveHistory /\ CountsTrackHistory /\ SnapshotWhileOpen

-----------------------------------------------------------------------------
(* The records the steps of a publish are made of. *)

Entries ==
  [live : BOOLEAN, id : Ids \cup {None}, committed : BOOLEAN,
   retired : Ids \cup {None}, rounds : Nat, ledger : Seq(Ids)]
Discards == {"replies", "votes", "budget"} \X Ids
Steps == {"idle", "discard", "reserve", "persist", "release", "rejected", "persisted",
          "snapshot", "endvote", "postclose", "fanout", "tail", "bound", "mark"}

LEMMA IdFacts == None \notin Ids /\ Ids \subseteq Nat /\ \A i \in Ids : i > 0
  BY ChannelAssumption DEF None, Ids

LEMMA IdsAreNumbers == \A i \in Ids \cup {None} : i \in Nat /\ i \in Int
  BY IdFacts DEF None

LEMMA IdleIsTyped == Idle \in PublishRecords /\ PublishShape(Idle)
  BY ChannelAssumption DEF Idle, PublishRecords, PublishShape, TodoShape, None

\* What At keeps of a publish.
LEMMA AtFacts ==
  ASSUME NEW r \in PublishRecords, NEW pc \in Steps
  PROVE  /\ At(r, pc) \in PublishRecords /\ At(r, pc).pc = pc
         /\ At(r, pc).todo = <<>> /\ At(r, pc).then = "idle"
         /\ pc = "idle" => At(r, pc) = Idle
         /\ pc # "idle" => At(r, pc).id = r.id /\ At(r, pc).latched = r.latched
         /\ pc \in {"reserve", "persist", "release", "rejected", "persisted", "snapshot", "endvote"} =>
              At(r, pc).sender = r.sender /\ At(r, pc).vote = r.vote /\ At(r, pc).reserved = r.reserved
  <1>1. CASE pc = "idle"
    BY <1>1, IdleIsTyped DEF At, Idle
  <1>2. CASE pc \in {"postclose", "fanout", "tail", "bound", "mark"}
    <2>1. At(r, pc) = [Idle EXCEPT !.pc = pc, !.id = r.id, !.latched = r.latched]
      BY <1>2 DEF At
    <2> QED
      BY <1>2, <2>1, IdleIsTyped DEF Idle, PublishRecords
  <1>3. CASE pc \notin {"idle", "postclose", "fanout", "tail", "bound", "mark"}
    <2>1. At(r, pc) = [r EXCEPT !.pc = pc, !.todo = <<>>, !.then = "idle"]
      BY <1>3 DEF At
    <2>2. r.todo \in Seq(Discards) /\ <<>> \in Seq(Discards)
      BY DEF PublishRecords, Discards
    <2> QED
      BY <1>3, <2>1, <2>2 DEF PublishRecords, Steps, Discards
  <1> QED
    BY <1>1, <1>2, <1>3

LEMMA GovernanceFacts ==
  ASSUME NEW i \in Ids \cup {None}
  PROVE  /\ Governance(i) \in Seq(Discards)
         /\ Governance(i) = <<>> <=> i = None
         /\ \A k \in 1..Len(Governance(i)) : Governance(i)[k][2] = i
  <1>1. CASE i = None
    BY <1>1 DEF Governance
  <1>2. CASE i \in Ids
    <2>1. Governance(i) = <<<<"replies", i>>, <<"votes", i>>, <<"budget", i>>>>
      BY <1>2, IdFacts DEF Governance
    <2>2. {<<"replies", i>>, <<"votes", i>>, <<"budget", i>>} \subseteq Discards
      BY <1>2 DEF Discards
    <2>3. Len(Governance(i)) = 3 /\ \A k \in 1..3 : Governance(i)[k][2] = i
      BY <2>1
    <2> QED
      BY <1>2, <2>1, <2>2, <2>3, IdFacts
  <1> QED
    BY <1>1, <1>2

\* The next step of p is r, and nobody else moves.
Moves(p, r) == r \in PublishRecords /\ PublishShape(r) /\ pub' = [pub EXCEPT ![p] = r]

LEMMA MoveFacts ==
  ASSUME TypeOK, PublishInv, NEW p \in Publishers, NEW r, Moves(p, r)
  PROVE  /\ pub' \in [Publishers -> PublishRecords] /\ PublishInv'
         /\ pub'[p] = r /\ \A q \in Publishers : q # p => pub'[q] = pub[q]
  BY SMTT(30) DEF TypeOK, PublishInv, Moves, PublishShape, TodoShape, Exempted

-----------------------------------------------------------------------------
(* Steps that leave the resolver's entry, the channel's row and the mint   *)
(* alone: what each part of the invariant asks of them.                    *)

Keeps ==
  /\ entry'.live = entry.live /\ entry'.id = entry.id /\ entry'.committed = entry.committed
  /\ entry'.retired = entry.retired /\ entry'.ledger = entry.ledger
  /\ store' = store /\ minted' = minted

Suppressed(r) == r.latched \/ r.pc \in {"postclose", "mark"} \/ r.then = "mark"
Settled(r) == r.pc \in {"snapshot", "endvote", "postclose", "fanout", "tail", "bound", "mark"}
Displaces(r) == r.pc = "discard" /\ r.then # "mark"
IsClosing(r) == r.pc = "mark" \/ r.then = "mark"
IsUnsettled(r) ==
  /\ ~r.latched
  /\ r.pc \in {"reserve", "persist", "release", "rejected", "persisted"} \/ (r.pc = "discard" /\ r.then = "reserve")
Holds(r, i, s) == r.id = i /\ r.sender = s /\ r.reserved /\ r.pc \in {"persist", "release"}

LEMMA KeptMinted ==
  ASSUME TypeOK, PublishInv, MintedInv, Keeps, NEW p \in Publishers, NEW r, Moves(p, r),
         r.id \in {pub[p].id, None} \cup Ledger,
         \A k \in 1..Len(r.todo) : r.todo[k][2] <= minted,
         \A i \in Ids : closes'[i] > 0 => closes[i] > 0 \/ i = pub[p].id
  PROVE  MintedInv'
  <1>1. r.id <= minted
    BY DEF MintedInv, TypeOK, None
  <1>2. Ledger' = Ledger
    BY DEF Keeps, Ledger, Range
  <1> QED
    BY <1>1, <1>2, MoveFacts DEF MintedInv, Keeps

LEMMA KeptClosed ==
  ASSUME TypeOK, PublishInv, ClosedInv, Keeps, NEW p \in Publishers, NEW r, Moves(p, r),
         \A i \in closed' : closes'[i] > 0,
         \A i \in Ids : closes[i] > 0 => closes'[i] > 0,
         Suppressed(r) => closes'[r.id] > 0
  PROVE  ClosedInv'
  <1>1. Ledger' = Ledger /\ Ledger \subseteq Ids
    BY DEF Keeps, Ledger, Range, TypeOK
  <1>2. \A q \in Publishers : Suppressed(pub[q]) => pub[q].id \in Ids
    BY DEF TypeOK, PublishRecords, PublishInv, PublishShape, TodoShape, Suppressed
  <1>3. ASSUME NEW q \in Publishers, Suppressed(pub'[q]) PROVE closes'[pub'[q].id] > 0
    BY <1>2, <1>3, MoveFacts DEF ClosedInv, Suppressed
  <1> QED
    BY <1>1, <1>3 DEF ClosedInv, Suppressed

LEMMA KeptRoot ==
  ASSUME TypeOK, PublishInv, RootInv, Keeps, NEW p \in Publishers, NEW r, Moves(p, r),
         store # "purged" /\ (\E i \in Ids : closes'[i] > 0) => Rooted,
         store # "purged" /\ Settled(r) => Rooted,
         store # "purged" /\ Displaces(r) =>
            entry.live /\ entry.retired # None /\ \A k \in 1..Len(r.todo) : r.todo[k][2] # entry.id,
         pub[p].pc # "persisted",
         \A i \in Ids, s \in Senders :
            store # "purged" /\ persisted'[i][s] > 0 => persisted[i][s] > 0 \/ Rooted \/ (r.pc = "persisted" /\ r.id = i)
  PROVE  RootInv'
  <1> SUFFICES ASSUME store # "purged" PROVE RootInv'
    BY DEF RootInv, Keeps
  <1>1. Rooted' = Rooted
    BY DEF Keeps, Rooted
  <1>2. (\E i \in Ids : closes'[i] > 0) => Rooted'
    BY <1>1
  <1>3. ASSUME NEW q \in Publishers, Settled(pub'[q]) PROVE Rooted'
    BY <1>1, <1>3, MoveFacts DEF RootInv, Settled
  <1>4. ASSUME NEW q \in Publishers, Displaces(pub'[q])
        PROVE entry'.live /\ entry'.retired # None /\ \A k \in 1..Len(pub'[q].todo) : pub'[q].todo[k][2] # entry'.id
    BY <1>4, MoveFacts DEF RootInv, Displaces, Keeps
  <1>5. ASSUME NEW i \in Ids, NEW s \in Senders, persisted'[i][s] > 0
        PROVE Rooted' \/ \E q \in Publishers : pub'[q].pc = "persisted" /\ pub'[q].id = i
    BY <1>1, <1>5, MoveFacts DEF RootInv
  <1> QED
    BY <1>2, <1>3, <1>4, <1>5 DEF RootInv, Settled, Displaces

LEMMA KeptTombstone ==
  ASSUME TypeOK, PublishInv, TombstoneInv, Keeps, NEW p \in Publishers, NEW r, Moves(p, r),
         closes' = closes, stranded \subseteq stranded',
         MayCome(r, store) => MayCome(pub[p], store) /\ r.id \in {pub[p].id, None},
         \A i \in Ids \ stranded' : i \in closed /\ i \notin closed' => ~MayClose(i)
  PROVE  TombstoneInv'
  <1> SUFFICES ASSUME NEW i \in Ids \ stranded'
               PROVE closes[i] <= 1 /\ (closes[i] > 0 /\ i \notin closed' => ~MayClose(i)')
    BY DEF TombstoneInv
  <1>1. MayClose(i)' => MayClose(i)
    <2>1. ASSUME NEW q \in Publishers, pub'[q].id = i, MayCome(pub'[q], store') PROVE MayClose(i)
      <3>1. MayCome(pub'[q], store)
        BY <2>1 DEF Keeps
      <3>2. CASE q # p
        BY <2>1, <3>1, <3>2, MoveFacts DEF MayClose
      <3>3. CASE q = p
        BY <2>1, <3>1, <3>3, MoveFacts, IdFacts DEF MayClose
      <3> QED
        BY <3>2, <3>3
    <2> QED
      BY <2>1 DEF MayClose, Keeps
  <1> QED
    BY <1>1 DEF TombstoneInv

LEMMA KeptRetired ==
  ASSUME TypeOK, PublishInv, ClosedIsRetired, Keeps, NEW p \in Publishers, NEW r, Moves(p, r),
         \A i \in closed' : i \in closed \/ (i = r.id /\ IsClosing(r)),
         IsClosing(pub[p]) /\ store = "live" => IsClosing(r) /\ r.id = pub[p].id
  PROVE  ClosedIsRetired'
  <1>1. Ledger' = Ledger
    BY DEF Keeps, Ledger, Range
  <1>2. store = "live" => \A i : Closing(i) => Closing(i)'
    BY MoveFacts DEF Closing, IsClosing
  <1>3. IsClosing(r) => Closing(r.id)'
    BY MoveFacts DEF Closing, IsClosing
  <1> QED
    BY <1>1, <1>2, <1>3 DEF ClosedIsRetired, Keeps

LEMMA UnsettledMeans == \A i : Unsettled(i) <=> \E p \in Publishers : pub[p].id = i /\ IsUnsettled(pub[p])
  BY DEF Unsettled, IsUnsettled

LEMMA KeptHistory ==
  ASSUME TypeOK, PublishInv, EntriesHaveHistory, Keeps, NEW p \in Publishers, NEW r, Moves(p, r),
         IsUnsettled(pub[p]) => (IsUnsettled(r) /\ r.id = pub[p].id) \/ entry.id # pub[p].id \/ Rooted
  PROVE  EntriesHaveHistory'
  <1>1. Unsettled(entry.id) => Unsettled(entry.id)' \/ Rooted
    <2>1. ASSUME NEW q \in Publishers, pub[q].id = entry.id, IsUnsettled(pub[q])
          PROVE Rooted \/ (pub'[q].id = entry.id /\ IsUnsettled(pub'[q]))
      BY <2>1, MoveFacts
    <2> QED
      BY <2>1 DEF Unsettled, IsUnsettled, Keeps
  <1> QED
    BY <1>1 DEF EntriesHaveHistory, Keeps, Rooted

LEMMA KeptSnapshots ==
  ASSUME TypeOK, PublishInv, SnapshotWhileOpen, Keeps, NEW p \in Publishers, NEW r, Moves(p, r),
         pub[p].pc = "snapshot" => pub[p].id \in snapshots',
         store = "live" /\ entry.id \in snapshots => entry.id \in snapshots'
  PROVE  SnapshotWhileOpen'
  BY MoveFacts DEF SnapshotWhileOpen, Keeps, OpenCommitted

-----------------------------------------------------------------------------
(* The reply counters: slots counted against replies stored and slots held. *)

Holders(i, s) == {p \in Publishers : Holds(pub[p], i, s)}

LEMMA HoldersMove ==
  ASSUME TypeOK, PublishInv, NEW p \in Publishers, NEW r, Moves(p, r), NEW i, NEW s
  PROVE  /\ Cardinality(Holders(i, s)) \in Nat /\ Cardinality(Holders(i, s)') \in Nat
         /\ (Holds(pub[p], i, s) <=> Holds(r, i, s)) => Cardinality(Holders(i, s)') = Cardinality(Holders(i, s))
         /\ ~Holds(pub[p], i, s) /\ Holds(r, i, s) => Cardinality(Holders(i, s)') = Cardinality(Holders(i, s)) + 1
         /\ Holds(pub[p], i, s) /\ ~Holds(r, i, s) => Cardinality(Holders(i, s)) = Cardinality(Holders(i, s)') + 1
  <1>1. IsFiniteSet(Publishers)
    BY ChannelAssumption
  <1>2. Holders(i, s) \subseteq Publishers /\ Holders(i, s)' \subseteq Publishers
    BY DEF Holders
  <1>3. IsFiniteSet(Holders(i, s)) /\ IsFiniteSet(Holders(i, s)')
    BY <1>1, <1>2, FS_Subset
  <1>4. Cardinality(Holders(i, s)) \in Nat /\ Cardinality(Holders(i, s)') \in Nat
    BY <1>3, FS_CardinalityType
  <1>5. \A q \in Publishers : q \in Holders(i, s)' <=> Holds(pub'[q], i, s)
    BY DEF Holders, Holds
  <1>6. \A q \in Publishers : q # p => (q \in Holders(i, s)' <=> q \in Holders(i, s))
    BY <1>5, MoveFacts DEF Holders
  <1>7. (p \in Holders(i, s)' <=> Holds(r, i, s)) /\ (p \in Holders(i, s) <=> Holds(pub[p], i, s))
    BY <1>5, MoveFacts DEF Holders
  <1>8. (Holds(pub[p], i, s) <=> Holds(r, i, s)) => Holders(i, s)' = Holders(i, s)
    BY <1>2, <1>6, <1>7
  <1>9. ASSUME ~Holds(pub[p], i, s), Holds(r, i, s)
        PROVE Cardinality(Holders(i, s)') = Cardinality(Holders(i, s)) + 1
    <2>1. Holders(i, s)' = Holders(i, s) \cup {p} /\ p \notin Holders(i, s)
      BY <1>2, <1>6, <1>7, <1>9
    <2> QED
      BY <1>3, <2>1, FS_AddElement
  <1>10. ASSUME Holds(pub[p], i, s), ~Holds(r, i, s)
         PROVE Cardinality(Holders(i, s)) = Cardinality(Holders(i, s)') + 1
    <2>1. Holders(i, s) = Holders(i, s)' \cup {p} /\ p \notin Holders(i, s)'
      BY <1>2, <1>6, <1>7, <1>10
    <2> QED
      BY <1>3, <2>1, FS_AddElement
  <1> QED
    BY <1>4, <1>8, <1>9, <1>10

LEMMA CountsMeans ==
  CountsTrackHistory <=>
    (ReplyBudget > 0 =>
       \A i \in Ids, s \in Senders \ Exempt :
         closes[i] = 0 /\ i \notin discharged => counts[i][s] = persisted[i][s] + Cardinality(Holders(i, s)))
  BY DEF CountsTrackHistory, Holders, Holds

\* The ways a step may move a counter.
CountKept(p, r, i, s) ==
  \/ /\ counts'[i][s] = counts[i][s] /\ persisted'[i][s] = persisted[i][s]
     /\ Holds(pub[p], i, s) <=> Holds(r, i, s)
  \/ /\ counts'[i][s] = counts[i][s] + 1 /\ persisted'[i][s] = persisted[i][s]
     /\ ~Holds(pub[p], i, s) /\ Holds(r, i, s)
  \/ /\ counts'[i][s] = counts[i][s] /\ persisted'[i][s] = persisted[i][s] + 1
     /\ Holds(pub[p], i, s) /\ ~Holds(r, i, s)
  \/ /\ counts'[i][s] = (IF counts[i][s] = 0 THEN 0 ELSE counts[i][s] - 1) /\ persisted'[i][s] = persisted[i][s]
     /\ Holds(pub[p], i, s) /\ ~Holds(r, i, s)

LEMMA KeptCounts ==
  ASSUME TypeOK, PublishInv, CountsTrackHistory, NEW p \in Publishers, NEW r, Moves(p, r),
         \A i \in Ids, s \in Senders \ Exempt :
           ReplyBudget > 0 /\ closes'[i] = 0 /\ i \notin discharged' =>
             closes[i] = 0 /\ i \notin discharged /\ CountKept(p, r, i, s)
  PROVE  CountsTrackHistory'
  <1> SUFFICES ASSUME ReplyBudget > 0, NEW i \in Ids, NEW s \in Senders \ Exempt, closes'[i] = 0, i \notin discharged'
               PROVE counts'[i][s] = persisted'[i][s] + Cardinality(Holders(i, s)')
    BY DEF CountsTrackHistory, Holders, Holds
  <1>1. counts[i][s] = persisted[i][s] + Cardinality(Holders(i, s))
    BY CountsMeans
  <1>2. counts[i][s] \in Nat /\ persisted[i][s] \in Nat
    BY ChannelAssumption DEF TypeOK
  <1>3. CountKept(p, r, i, s)
    OBVIOUS
  <1> QED
    BY <1>1, <1>2, <1>3, HoldersMove DEF CountKept

-----------------------------------------------------------------------------
(* The steps of a publish. *)

LEMMA AtShape ==
  ASSUME NEW r \in PublishRecords, PublishShape(r), r.pc # "idle", NEW pc \in Steps \ {"discard", "persist"},
         pc \notin {"idle", "reserve", "release", "rejected", "postclose"} => ~r.latched,
         pc \in {"reserve", "release", "persisted", "snapshot", "endvote"} => r.sender \in Senders,
         pc = "release" => r.reserved
  PROVE  PublishShape(At(r, pc))
  <1>1. r.id # None
    BY DEF PublishShape
  <1>2. CASE pc = "idle"
    BY <1>2, AtFacts, IdleIsTyped
  <1>3. CASE pc # "idle"
    BY <1>1, <1>3, AtFacts DEF PublishShape, TodoShape, Steps
  <1> QED
    BY <1>2, <1>3

\* A step of a publish that closes nothing, discards no tombstone and leaves
\* the resolver alone.
LEMMA QuietStep ==
  ASSUME InteractionInv, NEW p \in Publishers, NEW r, Moves(p, r), Keeps, TypeOK', EntryInv',
         UNCHANGED <<closed, doomed, closes, stranded, discharged>>,
         r.id \in {pub[p].id, None} \cup Ledger, r.todo = <<>>, r.pc # "discard", pub[p].pc # "persisted",
         Suppressed(r) => closes[r.id] > 0,
         store # "purged" /\ Settled(r) => Rooted,
         MayCome(r, store) => MayCome(pub[p], store) /\ r.id \in {pub[p].id, None},
         IsClosing(pub[p]) /\ store = "live" => IsClosing(r) /\ r.id = pub[p].id,
         IsUnsettled(pub[p]) => (IsUnsettled(r) /\ r.id = pub[p].id) \/ entry.id # pub[p].id \/ Rooted,
         \A i \in Ids, s \in Senders : persisted'[i][s] > 0 =>
            persisted[i][s] > 0 \/ (store # "purged" => Rooted) \/ (r.pc = "persisted" /\ r.id = i),
         \A i \in Ids, s \in Senders \ Exempt : ReplyBudget > 0 /\ closes[i] = 0 => CountKept(p, r, i, s),
         snapshots \subseteq snapshots', pub[p].pc = "snapshot" => pub[p].id \in snapshots'
  PROVE  InteractionInv'
  <1> USE DEF InteractionInv
  <1>1. PublishInv' /\ PurgeInv'
    BY MoveFacts DEF PurgeInv, Keeps
  <1>2. MintedInv'
    BY KeptMinted
  <1>3. ClosedInv'
    BY KeptClosed DEF ClosedInv
  <1>4. RootInv'
    BY KeptRoot DEF RootInv, Displaces
  <1>5. TombstoneInv'
    BY KeptTombstone
  <1>6. ClosedIsRetired'
    BY KeptRetired
  <1>7. EntriesHaveHistory'
    BY KeptHistory
  <1>8. CountsTrackHistory'
    BY KeptCounts
  <1>9. SnapshotWhileOpen'
    BY KeptSnapshots
  <1> QED
    BY <1>1, <1>2, <1>3, <1>4, <1>5, <1>6, <1>7, <1>8, <1>9

\* A publish goes on, or ends, and nothing else changes.
LEMMA PureStep ==
  ASSUME InteractionInv, NEW p \in Publishers, NEW r, Moves(p, r),
         UNCHANGED <<autonomous, entry, minted, governance, store, doomed, begun, history>>,
         r.id \in {pub[p].id, None} \cup Ledger, r.todo = <<>>, r.pc # "discard", pub[p].pc \notin {"persisted", "snapshot"},
         Suppressed(r) => closes[r.id] > 0,
         store # "purged" /\ Settled(r) => Rooted,
         MayCome(r, store) => MayCome(pub[p], store) /\ r.id \in {pub[p].id, None},
         IsClosing(pub[p]) /\ store = "live" => IsClosing(r) /\ r.id = pub[p].id,
         IsUnsettled(pub[p]) => (IsUnsettled(r) /\ r.id = pub[p].id) \/ entry.id # pub[p].id \/ Rooted,
         \A i \in Ids, s \in Senders : Holds(pub[p], i, s) <=> Holds(r, i, s)
  PROVE  InteractionInv'
  <1>1. TypeOK' /\ EntryInv' /\ Keeps
    BY MoveFacts DEF InteractionInv, TypeOK, EntryInv, Keeps, governance, history
  <1>2. UNCHANGED <<counts, closed, snapshots, doomed, persisted, closes, stranded, discharged>>
    BY DEF governance, history
  <1>3. \A i \in Ids, s \in Senders \ Exempt : CountKept(p, r, i, s)
    BY <1>2 DEF CountKept
  <1> QED
    BY <1>1, <1>2, <1>3, QuietStep

\* What the invariant says of a publish at a step.
LEMMA PublishFacts ==
  ASSUME InteractionInv, NEW p \in Publishers
  PROVE  /\ pub[p] \in PublishRecords /\ PublishShape(pub[p])
         /\ pub[p].pc # "idle" => pub[p].id \in Ids
         /\ store # "purged" /\ Settled(pub[p]) => Rooted
         /\ Suppressed(pub[p]) => closes[pub[p].id] > 0
         /\ pub[p].pc # "discard" => pub[p].todo = <<>> /\ pub[p].then = "idle"
  BY DEF InteractionInv, TypeOK, PublishRecords, PublishInv, PublishShape, TodoShape, RootInv, Settled, ClosedInv, Suppressed

\* A publish that is not suppressed goes on with its fanout, or ends.
LEMMA TailStep ==
  ASSUME InteractionInv, NEW p \in Publishers, pub[p].pc \in {"endvote", "fanout", "tail", "bound"},
         NEW pc \in {"idle", "fanout", "tail", "bound"}, Goto(p, pc),
         UNCHANGED <<autonomous, entry, minted, counts, closed, snapshots, store, doomed, begun, history>>,
         endVotes' \in [Ids -> [turn : Nat, stamp : [Senders -> Nat]]]
  PROVE  InteractionInv'
  <1> DEFINE r == At(pub[p], pc)
  <1>1. pub[p] \in PublishRecords /\ PublishShape(pub[p]) /\ ~pub[p].latched /\ Settled(pub[p]) /\ ~IsClosing(pub[p])
    BY PublishFacts DEF PublishShape, Settled, IsClosing
  <1>2. r \in PublishRecords /\ PublishShape(r)
    BY <1>1, AtFacts, AtShape DEF Steps
  <1>3. Moves(p, r)
    BY <1>2 DEF Moves, Goto
  <1>4. /\ r.id \in {pub[p].id, None} /\ ~r.latched /\ r.pc = pc /\ r.then = "idle" /\ r.todo = <<>>
    BY <1>1, AtFacts DEF Steps, Idle
  <1> HIDE DEF r
  <1>5. Keeps /\ UNCHANGED <<counts, closed, snapshots, doomed, persisted, closes, stranded, discharged, entry>>
    BY DEF Keeps, history
  <1>6. TypeOK' /\ EntryInv'
    BY <1>3, <1>5, MoveFacts DEF InteractionInv, TypeOK, EntryInv, Keeps
  <1>7. \A i \in Ids, s \in Senders \ Exempt : CountKept(p, r, i, s)
    BY <1>4, <1>5 DEF CountKept, Holds
  <1> QED
    BY <1>1, <1>3, <1>4, <1>5, <1>6, <1>7, PublishFacts, QuietStep
       DEF Suppressed, Settled, MayCome, IsClosing, IsUnsettled

LEMMA StepInRoundReply ==
  ASSUME InteractionInv, NEW p \in Publishers, InRoundReply(p) \/ CloseOnCascadeBound(p) \/ FloorRound(p)
  PROVE  InteractionInv'
  <1>1. endVotes \in [Ids -> [turn : Nat, stamp : [Senders -> Nat]]]
    BY DEF InteractionInv, TypeOK
  <1> QED
    BY <1>1, TailStep DEF InRoundReply, CloseOnCascadeBound, FloorRound, governance

LEMMA StepMaybeBoundedClose ==
  ASSUME InteractionInv, NEW p \in Publishers, NEW cost \in BOOLEAN, MaybeBoundedClose(p, cost)
  PROVE  InteractionInv'
  <1> DEFINE pc == IF pub'[p].pc = "bound" THEN "bound" ELSE "idle"
             r == At(pub[p], pc)
  <1>1. pub[p] \in PublishRecords /\ PublishShape(pub[p]) /\ ~pub[p].latched /\ Settled(pub[p]) /\ ~IsClosing(pub[p])
    BY PublishFacts DEF PublishShape, Settled, IsClosing, MaybeBoundedClose
  <1>2. \A x \in {"idle", "bound"} : At(pub[p], x).pc = x
    BY <1>1, AtFacts DEF Steps
  <1>3. Goto(p, pc)
    <2>1. PICK x \in {"idle", "bound"} : pub' = [pub EXCEPT ![p] = At(@, x)]
      BY DEF MaybeBoundedClose, Goto
    <2>2. pub'[p] = At(pub[p], x)
      BY <2>1 DEF InteractionInv, TypeOK
    <2> QED
      BY <1>2, <2>1, <2>2 DEF Goto
  <1>4. pc \in {"idle", "bound"}
    OBVIOUS
  <1> HIDE DEF pc
  <1>5. r \in PublishRecords /\ PublishShape(r)
    BY <1>1, <1>4, AtFacts, AtShape, PublishFacts DEF Steps, MaybeBoundedClose
  <1>6. Moves(p, r)
    BY <1>3, <1>5 DEF Moves, Goto
  <1>7. /\ r.id \in {pub[p].id, None} /\ ~r.latched /\ r.pc = pc /\ r.then = "idle" /\ r.todo = <<>>
    BY <1>1, <1>4, AtFacts DEF Steps, Idle
  <1>8. entry' = entry \/ (entry.live /\ entry' = [entry EXCEPT !.rounds = entry.rounds + 1])
    <2>1. OpenCommitted => entry.live
      BY DEF InteractionInv, EntryInv, OpenCommitted, NoEntry
    <2> QED
      BY <2>1 DEF MaybeBoundedClose
  <1>9. TypeOK' /\ EntryInv' /\ Keeps
    <2>1. entry' \in Entries
      <3>1. entry \in Entries /\ entry.rounds + 1 \in Nat
        BY DEF InteractionInv, TypeOK, Entries
      <3>2. [entry EXCEPT !.rounds = entry.rounds + 1] \in Entries
        BY <3>1 DEF Entries
      <3> QED
        BY <1>8, <3>1, <3>2
    <2>2. Keeps
      BY <1>8 DEF Keeps, MaybeBoundedClose, InteractionInv, TypeOK
    <2>3. EntryInv'
      BY <1>8, <2>2 DEF InteractionInv, EntryInv, Keeps, TypeOK
    <2> QED
      BY <1>6, <2>1, <2>2, <2>3, MoveFacts DEF InteractionInv, TypeOK, Entries, Keeps, MaybeBoundedClose, governance, history
  <1>10. UNCHANGED <<counts, closed, snapshots, doomed, persisted, closes, stranded, discharged>> /\ pub[p].pc \in {"fanout", "tail"}
    BY DEF governance, history, MaybeBoundedClose
  <1> HIDE DEF r
  <1>11. \A i \in Ids, s \in Senders \ Exempt : CountKept(p, r, i, s)
    BY <1>4, <1>7, <1>10 DEF CountKept, Holds
  <1> QED
    BY <1>1, <1>4, <1>6, <1>7, <1>9, <1>10, <1>11, PublishFacts, QuietStep
       DEF Suppressed, Settled, MayCome, IsClosing, IsUnsettled

LEMMA StepReserve ==
  ASSUME InteractionInv, NEW p \in Publishers, Reserve(p)
  PROVE  InteractionInv'
  <1> DEFINE i == pub[p].id
             s == pub[p].sender
             full == counts[i][s] >= ReplyBudget
             taken == ~full /\ ~Exempted(pub[p])
             r == [pub[p] EXCEPT !.pc = IF full /\ ~Exempted(pub[p]) THEN "rejected" ELSE "persist", !.reserved = taken]
  <1>1. /\ pub[p] \in PublishRecords /\ PublishShape(pub[p]) /\ pub[p].pc = "reserve"
        /\ i \in Ids /\ s \in Senders /\ pub[p].todo = <<>> /\ pub[p].then = "idle"
    BY PublishFacts DEF Reserve, PublishShape
  <1>2. pub' = [pub EXCEPT ![p] = r]
    BY DEF Reserve, Exempted, InteractionInv, TypeOK
  <1>3. counts[i][s] \in 0..ReplyBudget /\ ReplyBudget \in Nat
    BY <1>1, ChannelAssumption, SMTT(30) DEF InteractionInv, TypeOK
  <1>4. r \in PublishRecords /\ PublishShape(r)
    <2>1. r \in PublishRecords
      BY <1>1, <1>3 DEF PublishRecords
    <2>2. /\ r.pc = IF full /\ ~Exempted(pub[p]) THEN "rejected" ELSE "persist"
          /\ r.reserved = taken /\ r.sender = s /\ r.id = i /\ r.vote = pub[p].vote
          /\ r.latched = pub[p].latched /\ r.todo = <<>> /\ r.then = "idle"
      BY <1>1 DEF PublishRecords
    <2>3. Exempted(r) <=> Exempted(pub[p])
      BY <2>2 DEF Exempted
    <2>4. PublishShape(r)
      <3> HIDE DEF r
      <3>1. r.pc \in {"rejected", "persist"} /\ (r.pc = "persist" => (r.reserved <=> ~Exempted(r)))
        BY <2>2, <2>3
      <3>2. r.id # None /\ TodoShape(r)
        BY <1>1, <2>2, <3>1 DEF PublishShape, TodoShape
      <3> QED
        BY <1>1, <2>2, <3>1, <3>2 DEF PublishShape
    <2> QED
      BY <2>1, <2>4
  <1>5. Moves(p, r)
    BY <1>2, <1>4 DEF Moves
  <1>6. counts' = IF taken THEN [counts EXCEPT ![i][s] = @ + 1] ELSE counts
    BY DEF Reserve, Exempted
  <1>7. Keeps /\ UNCHANGED <<closed, snapshots, doomed, persisted, closes, stranded, discharged, entry>>
    BY SMTT(30) DEF Reserve, Keeps, history
  <1>8. TypeOK' /\ EntryInv'
    <2>1. counts' \in [Ids -> [Senders -> 0..ReplyBudget]]
      <3>1. counts \in [Ids -> [Senders -> 0..ReplyBudget]]
        BY DEF InteractionInv, TypeOK
      <3>2. CASE ~taken
        BY <1>6, <3>1, <3>2
      <3>3. CASE taken
        <4>1. counts[i][s] + 1 \in 0..ReplyBudget
          BY <1>3, <3>3
        <4>2. [counts[i] EXCEPT ![s] = @ + 1] \in [Senders -> 0..ReplyBudget]
          BY <1>1, <3>1, <4>1
        <4> QED
          BY <1>1, <1>6, <3>1, <3>3, <4>2
      <3> QED
        BY <3>2, <3>3
    <2> QED
      BY <1>5, <1>7, <2>1, MoveFacts DEF InteractionInv, TypeOK, EntryInv, Keeps, Reserve
  <1>9. /\ r.id = pub[p].id /\ r.sender = s /\ r.todo = <<>> /\ r.then = "idle" /\ r.latched = pub[p].latched
        /\ r.pc \in {"persist", "rejected"} /\ r.reserved = taken /\ (taken => r.pc = "persist")
    BY <1>1 DEF PublishRecords
  <1>10. ASSUME NEW j \in Ids, NEW q \in Senders \ Exempt PROVE CountKept(p, r, j, q)
    <2>1. CASE taken /\ j = i /\ q = s
      BY <1>1, <1>3, <1>6, <1>7, <1>9, <2>1 DEF CountKept, Holds, InteractionInv, TypeOK
    <2>2. CASE ~(taken /\ j = i /\ q = s)
      <3>1. counts'[j][q] = counts[j][q]
        BY <1>1, <1>6, <2>2 DEF InteractionInv, TypeOK
      <3> QED
        BY <1>1, <1>7, <1>9, <2>2, <3>1 DEF CountKept, Holds
    <2> QED
      BY <2>1, <2>2
  <1> HIDE DEF r
  <1> QED
    BY <1>1, <1>5, <1>7, <1>8, <1>9, <1>10, PublishFacts, QuietStep
       DEF Suppressed, Settled, MayCome, IsClosing, IsUnsettled

\* The counters of an interaction that was closed may go.
LEMMA StepDropPostClose ==
  ASSUME InteractionInv, NEW p \in Publishers, DropPostClose(p)
  PROVE  InteractionInv'
  <1>1. pub[p] \in PublishRecords /\ pub[p].pc = "postclose" /\ pub[p].id \in Ids /\ closes[pub[p].id] > 0
    BY PublishFacts DEF DropPostClose, Suppressed
  <1>2. Moves(p, Idle)
    <2>1. At(pub[p], "idle") = Idle
      BY DEF At
    <2> QED
      BY <2>1, IdleIsTyped DEF DropPostClose, Goto, Moves
  <1>3. Keeps /\ UNCHANGED <<closed, snapshots, doomed, persisted, closes, stranded, discharged, entry>>
    BY DEF DropPostClose, Keeps, history
  <1>4. counts' = [counts EXCEPT ![pub[p].id] = NoReplies]
    BY DEF DropPostClose
  <1>5. TypeOK' /\ EntryInv'
    <2>1. NoReplies \in [Senders -> 0..ReplyBudget]
      BY ChannelAssumption DEF NoReplies
    <2>2. counts' \in [Ids -> [Senders -> 0..ReplyBudget]]
      BY <1>4, <2>1 DEF InteractionInv, TypeOK
    <2> QED
      BY <1>2, <1>3, <2>2, MoveFacts DEF InteractionInv, TypeOK, EntryInv, Keeps, DropPostClose
  <1>6. Idle.pc = "idle" /\ Idle.id = None /\ ~Idle.latched /\ Idle.todo = <<>> /\ Idle.then = "idle" /\ ~Idle.reserved
    BY DEF Idle
  <1>7. ASSUME NEW j \in Ids, NEW q \in Senders \ Exempt, closes[j] = 0 PROVE CountKept(p, Idle, j, q)
    BY <1>1, <1>3, <1>4, <1>6, <1>7 DEF CountKept, Holds, InteractionInv, TypeOK
  <1> QED
    BY <1>1, <1>2, <1>3, <1>5, <1>6, <1>7, PublishFacts, QuietStep
       DEF Suppressed, Settled, MayCome, IsClosing, IsUnsettled

LEMMA StepSnapshot ==
  ASSUME InteractionInv, NEW p \in Publishers, Snapshot(p)
  PROVE  InteractionInv'
  <1> DEFINE r == At(pub[p], "endvote")
  <1>1. /\ pub[p] \in PublishRecords /\ PublishShape(pub[p]) /\ pub[p].pc = "snapshot" /\ pub[p].id \in Ids
        /\ ~pub[p].latched /\ pub[p].sender \in Senders /\ pub[p].then = "idle"
    BY PublishFacts DEF Snapshot, PublishShape
  <1>2. /\ r \in PublishRecords /\ PublishShape(r) /\ r.pc = "endvote" /\ r.id = pub[p].id /\ ~r.latched
        /\ r.todo = <<>> /\ r.then = "idle"
    BY <1>1, AtFacts, AtShape DEF Steps
  <1>3. Moves(p, r)
    BY <1>2 DEF Snapshot, Goto, Moves
  <1> HIDE DEF r
  <1>4. Keeps /\ UNCHANGED <<counts, closed, doomed, persisted, closes, stranded, discharged, entry>>
    BY DEF Snapshot, Keeps, history
  <1>5. snapshots' = snapshots \cup {pub[p].id}
    BY DEF Snapshot
  <1>6. TypeOK' /\ EntryInv'
    BY <1>1, <1>3, <1>4, <1>5, MoveFacts DEF InteractionInv, TypeOK, EntryInv, Keeps, Snapshot
  <1>7. \A j \in Ids, q \in Senders \ Exempt : CountKept(p, r, j, q)
    BY <1>1, <1>2, <1>4 DEF CountKept, Holds
  <1> QED
    BY <1>1, <1>2, <1>3, <1>4, <1>5, <1>6, <1>7, PublishFacts, QuietStep
       DEF Suppressed, Settled, MayCome, IsClosing, IsUnsettled

LEMMA StepRelease ==
  ASSUME InteractionInv, NEW p \in Publishers, Release(p)
  PROVE  InteractionInv'
  <1> DEFINE i == pub[p].id
             s == pub[p].sender
             r == At(pub[p], "rejected")
  <1>1. /\ pub[p] \in PublishRecords /\ PublishShape(pub[p]) /\ pub[p].pc = "release" /\ i \in Ids
        /\ s \in Senders /\ pub[p].then = "idle" /\ pub[p].reserved
    BY PublishFacts DEF Release, PublishShape
  <1>2. /\ r \in PublishRecords /\ PublishShape(r) /\ r.pc = "rejected" /\ r.id = i /\ r.latched = pub[p].latched
        /\ r.todo = <<>> /\ r.then = "idle"
    BY <1>1, AtFacts, AtShape DEF Steps
  <1>3. Moves(p, r)
    BY <1>2 DEF Release, Goto, Moves
  <1> HIDE DEF r
  <1>4. Keeps /\ UNCHANGED <<snapshots, closed, doomed, persisted, closes, stranded, discharged, entry>>
    BY DEF Release, Keeps, history
  <1>5. counts \in [Ids -> [Senders -> 0..ReplyBudget]] /\ ReplyBudget \in Nat
    BY ChannelAssumption DEF InteractionInv, TypeOK
  <1>6. counts' = IF counts[i][s] = 0 THEN counts ELSE [counts EXCEPT ![i][s] = @ - 1]
    BY DEF Release
  <1>7. counts' \in [Ids -> [Senders -> 0..ReplyBudget]]
    <2>1. CASE counts[i][s] = 0
      BY <1>5, <1>6, <2>1
    <2>2. CASE counts[i][s] # 0
      <3>0. counts[i][s] \in 0..ReplyBudget
        BY <1>1, <1>5
      <3>1. counts[i][s] - 1 \in 0..ReplyBudget
        <4>1. \A n \in 0..ReplyBudget : n # 0 => n - 1 \in 0..ReplyBudget
          BY ChannelAssumption
        <4> QED
          BY <2>2, <3>0, <4>1
      <3>2. [counts[i] EXCEPT ![s] = @ - 1] \in [Senders -> 0..ReplyBudget]
        BY <1>1, <1>5, <3>1
      <3> QED
        BY <1>1, <1>5, <1>6, <2>2, <3>2
    <2> QED
      BY <2>1, <2>2
  <1>8. TypeOK' /\ EntryInv'
    BY <1>3, <1>4, <1>7, MoveFacts DEF InteractionInv, TypeOK, EntryInv, Keeps, Release
  <1>9. ASSUME NEW j \in Ids, NEW q \in Senders \ Exempt PROVE CountKept(p, r, j, q)
    <2>1. CASE j = i /\ q = s
      <3>1. counts'[j][q] = IF counts[j][q] = 0 THEN 0 ELSE counts[j][q] - 1
        BY <1>1, <1>5, <1>6, <2>1
      <3> QED
        BY <1>1, <1>2, <1>4, <2>1, <3>1 DEF CountKept, Holds
    <2>2. CASE ~(j = i /\ q = s)
      <3>1. counts'[j][q] = counts[j][q]
        BY <1>1, <1>5, <1>6, <2>2
      <3> QED
        BY <1>1, <1>2, <1>4, <2>2, <3>1 DEF CountKept, Holds
    <2> QED
      BY <2>1, <2>2
  <1> QED
    BY <1>1, <1>2, <1>3, <1>4, <1>8, <1>9, PublishFacts, QuietStep
       DEF Suppressed, Settled, MayCome, IsClosing, IsUnsettled

\* A stored reply moves from the slots held to the replies stored.
LEMMA StepPersist ==
  ASSUME InteractionInv, NEW p \in Publishers, Persist(p)
  PROVE  InteractionInv'
  <1> DEFINE i == pub[p].id
             s == pub[p].sender
  <1>1. /\ pub[p] \in PublishRecords /\ PublishShape(pub[p]) /\ pub[p].pc = "persist" /\ i \in Ids
        /\ s \in Senders /\ pub[p].then = "idle" /\ pub[p].todo = <<>> /\ (pub[p].reserved <=> ~Exempted(pub[p]))
    BY PublishFacts DEF Persist, PublishShape
  <1>2. pub[p].latched => closes[i] > 0 /\ (store # "purged" => Rooted)
    BY <1>1, PublishFacts DEF Suppressed, InteractionInv, RootInv
  <1>3. CASE /\ Goto(p, IF pub[p].reserved THEN "release" ELSE "rejected")
             /\ UNCHANGED persisted
    <2>1. PICK x \in {"release", "rejected"} : x = (IF pub[p].reserved THEN "release" ELSE "rejected")
      OBVIOUS
    <2> DEFINE r == At(pub[p], x)
    <2>2. /\ r \in PublishRecords /\ PublishShape(r) /\ r.pc = x /\ r.id = i /\ r.latched = pub[p].latched
          /\ r.todo = <<>> /\ r.then = "idle" /\ r.sender = s /\ r.reserved = pub[p].reserved
      BY <1>1, <2>1, AtFacts, AtShape DEF Steps
    <2>3. Moves(p, r)
      BY <1>3, <2>1, <2>2 DEF Goto, Moves
    <2> HIDE DEF r
    <2>4. UNCHANGED <<autonomous, entry, minted, governance, store, doomed, begun, history>>
      BY <1>3 DEF Persist, history
    <2>5. \A j \in Ids, q \in Senders : Holds(pub[p], j, q) <=> Holds(r, j, q)
      BY <1>1, <2>1, <2>2 DEF Holds
    <2> QED
      BY <1>1, <1>2, <2>2, <2>3, <2>4, <2>5, PureStep
         DEF Suppressed, Settled, MayCome, IsClosing, IsUnsettled
  <1>4. CASE /\ store = "live"
             /\ pub' = [pub EXCEPT ![p] = [At(@, IF @.latched THEN "postclose" ELSE "persisted")
                                           EXCEPT !.reserved = FALSE]]
             /\ persisted' = IF pub[p].vote THEN persisted ELSE [persisted EXCEPT ![i][s] = @ + 1]
    <2>1. PICK x \in {"postclose", "persisted"} : x = (IF pub[p].latched THEN "postclose" ELSE "persisted")
      OBVIOUS
    <2> DEFINE a == At(pub[p], x)
               r == [a EXCEPT !.reserved = FALSE]
    <2>2. /\ a \in PublishRecords /\ PublishShape(a) /\ a.pc = x /\ a.id = i /\ a.latched = pub[p].latched
          /\ a.todo = <<>> /\ a.then = "idle"
      BY <1>1, <2>1, AtFacts, AtShape DEF Steps
    <2>3. pub' = [pub EXCEPT ![p] = r]
      BY <1>4, <2>1 DEF InteractionInv, TypeOK
    <2> HIDE DEF a
    <2>4. /\ r \in PublishRecords /\ PublishShape(r) /\ r.pc = x /\ r.id = i /\ r.latched = pub[p].latched
          /\ r.todo = <<>> /\ r.then = "idle"
      BY <2>2 DEF PublishRecords, PublishShape, TodoShape
    <2>5. Moves(p, r)
      BY <2>3, <2>4 DEF Moves
    <2> HIDE DEF r
    <2>6. Keeps /\ UNCHANGED <<counts, snapshots, closed, doomed, closes, stranded, discharged, entry>>
      BY DEF Persist, Keeps, governance
    <2>7. persisted \in [Ids -> [Senders -> Nat]]
      BY DEF InteractionInv, TypeOK
    <2>8. persisted' \in [Ids -> [Senders -> Nat]]
      <3>1. [persisted[i] EXCEPT ![s] = @ + 1] \in [Senders -> Nat]
        BY <1>1, <2>7
      <3> QED
        BY <1>1, <1>4, <2>7, <3>1
    <2>9. TypeOK' /\ EntryInv'
      BY <2>5, <2>6, <2>8, MoveFacts DEF InteractionInv, TypeOK, EntryInv, Keeps, Persist, governance
    <2>10. \A j \in Ids, q \in Senders :
             persisted'[j][q] = IF ~pub[p].vote /\ j = i /\ q = s THEN persisted[j][q] + 1 ELSE persisted[j][q]
      BY <1>1, <1>4, <2>7
    <2>11. ASSUME NEW j \in Ids, NEW q \in Senders \ Exempt, ReplyBudget > 0 PROVE CountKept(p, r, j, q)
      <3>1. ~Holds(r, j, q)
        BY <2>1, <2>4 DEF Holds
      <3>2. Holds(pub[p], j, q) <=> (~pub[p].vote /\ j = i /\ q = s)
        BY <1>1, <2>11, ChannelAssumption DEF Holds, Exempted
      <3> QED
        BY <2>6, <2>10, <3>1, <3>2 DEF CountKept
    <2>12. ASSUME NEW j \in Ids, NEW q \in Senders, persisted'[j][q] > 0
           PROVE persisted[j][q] > 0 \/ (store # "purged" => Rooted) \/ (r.pc = "persisted" /\ r.id = j)
      BY <1>2, <2>1, <2>4, <2>10, <2>12
    <2> QED
      BY <1>1, <1>2, <1>4, <2>1, <2>4, <2>5, <2>6, <2>9, <2>11, <2>12, QuietStep
         DEF Suppressed, Settled, MayCome, IsClosing, IsUnsettled
  <1> QED
    BY <1>3, <1>4 DEF Persist

LEMMA BeginFacts ==
  ASSUME TypeOK, NEW p, Begin(p)
  PROVE  begun' \in 0..MaxPublishes
  <1>1. begun \in 0..MaxPublishes /\ MaxPublishes \in Nat
    BY ChannelAssumption DEF TypeOK
  <1> QED
    BY <1>1 DEF Begin

LEMMA StepLatch ==
  ASSUME InteractionInv, NEW p \in Publishers, NEW s \in Senders, NEW v \in BOOLEAN, NEW claim \in Ids,
         Latch(p, s, v, claim)
  PROVE  InteractionInv'
  <1> DEFINE r == [Idle EXCEPT !.pc = "reserve", !.sender = s, !.vote = v, !.id = claim, !.latched = TRUE]
  <1>1. /\ r \in PublishRecords /\ r.pc = "reserve" /\ r.id = claim /\ r.latched /\ r.todo = <<>> /\ r.then = "idle"
        /\ r.sender = s /\ ~r.reserved
    BY IdleIsTyped DEF Idle, PublishRecords
  <1>2. pub' = [pub EXCEPT ![p] = r]
    BY DEF Latch
  <1> HIDE DEF r
  <1>3. PublishShape(r)
    BY <1>1, IdFacts DEF PublishShape, TodoShape
  <1>4. Moves(p, r)
    BY <1>1, <1>2, <1>3 DEF Moves
  <1>5. pub[p].pc = "idle" /\ pub[p].then = "idle"
    BY PublishFacts DEF Latch, Begin
  <1>6. claim \in Ledger /\ closes[claim] > 0
    BY DEF Latch, InteractionInv, ClosedInv
  <1>7. Keeps /\ UNCHANGED <<counts, snapshots, closed, doomed, persisted, closes, stranded, discharged, entry>>
    BY DEF Latch, Keeps, governance, history
  <1>8. TypeOK' /\ EntryInv'
    <2>1. begun' \in 0..MaxPublishes
      BY BeginFacts DEF Latch, InteractionInv
    <2> QED
      BY <1>4, <1>7, <2>1, MoveFacts DEF InteractionInv, TypeOK, EntryInv, Keeps, Latch, governance
  <1>9. \A j \in Ids, q \in Senders \ Exempt : CountKept(p, r, j, q)
    BY <1>1, <1>5, <1>7 DEF CountKept, Holds
  <1> QED
    BY <1>1, <1>4, <1>5, <1>6, <1>7, <1>8, <1>9, QuietStep
       DEF Suppressed, Settled, MayCome, IsClosing, IsUnsettled

\* A close that finds no tombstone wins: nobody has closed the interaction, for
\* while it may be closed its tombstone stands.
LEMMA StepClose ==
  ASSUME InteractionInv, NEW p \in Publishers, pub[p].pc \in {"endvote", "bound"},
         pub[p].id \notin closed, Tombstone(pub[p].id), Teardown(p),
         UNCHANGED <<autonomous, entry, minted, counts, snapshots, store, doomed, begun, persisted, discharged, stranded>>
  PROVE  InteractionInv'
  <1> DEFINE i == pub[p].id
             a == At(pub[p], "mark")
             todo == <<<<"replies", i>>>>
             r == [a EXCEPT !.pc = "discard", !.todo = todo, !.then = "mark"]
  <1>1. pub[p] \in PublishRecords /\ PublishShape(pub[p]) /\ ~pub[p].latched /\ i \in Ids /\ pub[p].then = "idle"
    BY PublishFacts DEF PublishShape
  <1>2. /\ a \in PublishRecords /\ a.id = i /\ a.latched = FALSE
    BY <1>1, AtFacts DEF Steps, PublishRecords
  <1>3. pub' = [pub EXCEPT ![p] = r]
    <2>1. <<<<"replies", pub[p].id>>>> # <<>> /\ "mark" # "reserve"
      OBVIOUS
    <2> QED
      BY <2>1 DEF Teardown, DiscardThen, InteractionInv, TypeOK
  <1>4. todo \in Seq(Discards) /\ todo # <<>>
    BY <1>1 DEF Discards
  <1>4a. Len(todo) = 1 /\ todo[1][2] = i
    OBVIOUS
  <1> HIDE DEF a
  <1>5. r \in PublishRecords /\ r.pc = "discard" /\ r.id = i /\ ~r.latched /\ r.todo = todo /\ r.then = "mark"
    BY <1>2, <1>4 DEF PublishRecords, Discards
  <1> HIDE DEF r
  <1>6. PublishShape(r)
    BY <1>1, <1>4, <1>5, IdFacts DEF PublishShape, TodoShape
  <1>7. Moves(p, r)
    BY <1>3, <1>5, <1>6 DEF Moves
  <1>8. Keeps /\ UNCHANGED <<counts, snapshots, doomed, persisted, stranded, discharged, entry>>
    BY DEF Keeps
  <1>9. closed' = closed \cup {i} /\ endVotes' = [endVotes EXCEPT ![i] = NoVotes] /\ closes' = [closes EXCEPT ![i] = @ + 1]
    BY DEF Tombstone
  <1>10. closes \in [Ids -> Nat] /\ closes' \in [Ids -> Nat]
    BY <1>1, <1>9 DEF InteractionInv, TypeOK
  <1>11. closes'[i] = closes[i] + 1 /\ \A j \in Ids : j # i => closes'[j] = closes[j]
    BY <1>1, <1>9, <1>10
  <1>12. TypeOK' /\ EntryInv'
    <2>1. NoVotes \in [turn : Nat, stamp : [Senders -> Nat]]
      BY DEF NoVotes
    <2>2. endVotes' \in [Ids -> [turn : Nat, stamp : [Senders -> Nat]]]
      BY <1>9, <2>1 DEF InteractionInv, TypeOK
    <2> QED
      BY <1>1, <1>7, <1>8, <1>9, <1>10, <2>2, MoveFacts DEF InteractionInv, TypeOK, EntryInv, Keeps
  <1>13. PublishInv' /\ PurgeInv'
    BY <1>7, <1>8, MoveFacts DEF InteractionInv, PurgeInv, Keeps
  <1>14. MintedInv'
    <2>1. \A k \in 1..Len(todo) : todo[k][2] <= minted
      BY <1>4a DEF InteractionInv, MintedInv
    <2> QED
      BY <1>5, <1>7, <1>8, <1>11, <2>1, KeptMinted DEF InteractionInv
  <1>15. ClosedInv'
    <2>1. \A j \in closed' : closes'[j] > 0
      BY <1>1, <1>9, <1>10, <1>11 DEF InteractionInv, ClosedInv, TypeOK
    <2>2. \A j \in Ids : closes[j] > 0 => closes'[j] > 0
      BY <1>1, <1>10, <1>11
    <2>3. closes'[r.id] > 0
      BY <1>1, <1>5, <1>10, <1>11
    <2> QED
      BY <1>7, <1>8, <2>1, <2>2, <2>3, KeptClosed DEF InteractionInv
  <1>16. RootInv'
    <2>1. store # "purged" => Rooted
      BY PublishFacts DEF Settled
    <2> QED
      BY <1>5, <1>7, <1>8, <2>1, KeptRoot DEF InteractionInv, Displaces, Settled
  <1>17. TombstoneInv'
    <2> SUFFICES ASSUME NEW j \in Ids \ stranded
                 PROVE closes'[j] <= 1 /\ (closes'[j] > 0 /\ j \notin closed' => ~MayClose(j)')
      BY <1>8 DEF TombstoneInv
    <2>1. CASE j = i
      <3>1. MayClose(i)
        BY <1>1 DEF MayClose, MayCome
      <3>2. closes[i] = 0
        BY <1>10, <2>1, <3>1 DEF InteractionInv, TombstoneInv
      <3> QED
        BY <1>9, <1>11, <2>1, <3>2
    <2>2. CASE j # i
      <3>1. MayClose(j)' => MayClose(j)
        <4>1. ASSUME NEW q \in Publishers, pub'[q].id = j, MayCome(pub'[q], store') PROVE MayClose(j)
          BY <1>5, <1>7, <1>8, <2>2, <4>1, MoveFacts DEF MayClose, InteractionInv
        <4> QED
          BY <1>8, <4>1 DEF MayClose
      <3> QED
        BY <1>9, <1>11, <2>2, <3>1 DEF InteractionInv, TombstoneInv
    <2> QED
      BY <2>1, <2>2
  <1>18. ClosedIsRetired'
    BY <1>1, <1>5, <1>7, <1>8, <1>9, KeptRetired DEF InteractionInv, IsClosing
  <1>19. EntriesHaveHistory'
    BY <1>7, <1>8, KeptHistory DEF InteractionInv, IsUnsettled
  <1>20. CountsTrackHistory'
    <2>1. \A j \in Ids, q \in Senders \ Exempt : closes'[j] = 0 => closes[j] = 0 /\ CountKept(p, r, j, q)
      BY <1>1, <1>5, <1>8, <1>10, <1>11 DEF CountKept, Holds
    <2> QED
      BY <1>7, <1>8, <2>1, KeptCounts DEF InteractionInv
  <1>21. SnapshotWhileOpen'
    BY <1>7, <1>8, KeptSnapshots DEF InteractionInv
  <1> QED
    BY <1>12, <1>13, <1>14, <1>15, <1>16, <1>17, <1>18, <1>19, <1>20, <1>21 DEF InteractionInv

LEMMA StepBoundedClose ==
  ASSUME InteractionInv, NEW p \in Publishers, BoundedClose(p)
  PROVE  InteractionInv'
  <1>1. endVotes \in [Ids -> [turn : Nat, stamp : [Senders -> Nat]]]
    BY DEF InteractionInv, TypeOK
  <1>2. CASE Goto(p, "idle") /\ UNCHANGED <<endVotes, closed, closes>>
    BY <1>1, <1>2, TailStep DEF BoundedClose, history
  <1>3. CASE pub[p].id \notin closed /\ Tombstone(pub[p].id) /\ Teardown(p)
    BY <1>3, StepClose DEF BoundedClose
  <1> QED
    BY <1>2, <1>3 DEF BoundedClose

LEMMA StepEndVote ==
  ASSUME InteractionInv, NEW p \in Publishers, EndVote(p)
  PROVE  InteractionInv'
  <1> DEFINE i == pub[p].id
  <1>1. /\ pub[p] \in PublishRecords /\ PublishShape(pub[p]) /\ pub[p].pc = "endvote" /\ ~pub[p].latched
        /\ i \in Ids /\ pub[p].then = "idle" /\ pub[p].sender \in Senders
    BY PublishFacts DEF EndVote, PublishShape
  <1>2. endVotes \in [Ids -> [turn : Nat, stamp : [Senders -> Nat]]]
    BY DEF InteractionInv, TypeOK
  <1>3. CASE i \in closed /\ Goto(p, "postclose") /\ UNCHANGED <<endVotes, closed, closes>>
    <2> DEFINE r == At(pub[p], "postclose")
    <2>1. /\ r \in PublishRecords /\ PublishShape(r) /\ r.pc = "postclose" /\ r.id = i /\ ~r.latched
          /\ r.todo = <<>> /\ r.then = "idle"
      BY <1>1, AtFacts, AtShape DEF Steps
    <2>2. Moves(p, r)
      BY <1>3, <2>1 DEF Goto, Moves
    <2> HIDE DEF r
    <2>3. closes[i] > 0
      BY <1>3 DEF InteractionInv, ClosedInv
    <2>4. UNCHANGED <<autonomous, entry, minted, governance, store, doomed, begun, history>>
      BY <1>3 DEF EndVote, governance, history
    <2> QED
      BY <1>1, <2>1, <2>2, <2>3, <2>4, PublishFacts, PureStep
         DEF Suppressed, Settled, MayCome, IsClosing, IsUnsettled, Holds
  <1>4. CASE Goto(p, Fanout) /\ UNCHANGED <<endVotes, closed, closes>>
    BY <1>1, <1>2, <1>4, TailStep DEF EndVote, Fanout, history
  <1>5. CASE i \notin closed /\ Tombstone(i) /\ Teardown(p)
    BY <1>1, <1>5, StepClose DEF EndVote
  <1>6. CASE Goto(p, Fanout) /\ endVotes' = [endVotes EXCEPT ![i] = Tallied(p)] /\ UNCHANGED <<closed, closes>>
    <2>1. endVotes[i].turn \in Nat /\ endVotes[i].stamp \in [Senders -> Nat]
      BY <1>1, <1>2
    <2>2. Tallied(p) \in [turn : Nat, stamp : [Senders -> Nat]]
      BY <1>1, <2>1 DEF Tallied
    <2>3. endVotes' \in [Ids -> [turn : Nat, stamp : [Senders -> Nat]]]
      BY <1>1, <1>2, <1>6, <2>2
    <2> QED
      BY <1>1, <1>6, <2>3, TailStep DEF EndVote, Fanout, history
  <1> QED
    BY <1>3, <1>4, <1>5, <1>6 DEF EndVote

\* The elements of a publish's discards.
LEMMA TodoFacts ==
  ASSUME InteractionInv, NEW p \in Publishers, pub[p].pc = "discard"
  PROVE  /\ pub[p].todo \in Seq(Discards) /\ pub[p].todo # <<>>
         /\ Head(pub[p].todo)[1] \in {"replies", "votes", "budget"} /\ Head(pub[p].todo)[2] \in Ids
         /\ Head(pub[p].todo) = pub[p].todo[1] /\ Tail(pub[p].todo) \in Seq(Discards)
         /\ Len(pub[p].todo) >= 1
         /\ \A k \in 1..Len(Tail(pub[p].todo)) : k + 1 \in 1..Len(pub[p].todo) /\ Tail(pub[p].todo)[k] = pub[p].todo[k + 1]
  <1>1. PICK todo \in Seq(Discards) : todo = pub[p].todo /\ todo # <<>>
    BY PublishFacts DEF PublishRecords, PublishShape, TodoShape, Discards
  <1>2. Head(todo) \in Discards /\ Head(todo) = todo[1] /\ Tail(todo) \in Seq(Discards) /\ Len(todo) >= 1
    BY <1>1
  <1>3. Head(todo)[1] \in {"replies", "votes", "budget"} /\ Head(todo)[2] \in Ids
    BY <1>2 DEF Discards
  <1>4. \A k \in 1..Len(Tail(todo)) : k + 1 \in 1..Len(todo) /\ Tail(todo)[k] = todo[k + 1]
    BY <1>1
  <1> QED
    BY <1>1, <1>2, <1>3, <1>4

LEMMA DiscardFacts ==
  ASSUME TypeOK, NEW what \in {"replies", "votes", "budget"}, NEW i \in Ids, Discard(what, i)
  PROVE  /\ counts' \in [Ids -> [Senders -> 0..ReplyBudget]]
         /\ endVotes' \in [Ids -> [turn : Nat, stamp : [Senders -> Nat]]]
         /\ closed' \subseteq closed /\ snapshots' \subseteq snapshots
         /\ \A j \in Ids : j # i => counts'[j] = counts[j] /\ (j \in closed => j \in closed') /\ (j \in snapshots => j \in snapshots')
         /\ what = "replies" => closed' = closed /\ snapshots' = snapshots
  <1>1. NoReplies \in [Senders -> 0..ReplyBudget] /\ NoVotes \in [turn : Nat, stamp : [Senders -> Nat]]
    BY ChannelAssumption DEF NoReplies, NoVotes
  <1> QED
    BY <1>1 DEF Discard, TypeOK

\* The replies of a close on its way to markInteractionClosed.
LEMMA StepDischargeOwn ==
  ASSUME InteractionInv, NEW p \in Publishers, Discharge(p), pub[p].then = "mark"
  PROVE  InteractionInv'
  <1> DEFINE i == pub[p].id
             r == At(pub[p], "mark")
  <1>1. /\ pub[p] \in PublishRecords /\ PublishShape(pub[p]) /\ pub[p].pc = "discard" /\ ~pub[p].latched
        /\ i \in Ids /\ pub[p].todo = <<<<"replies", i>>>> /\ closes[i] > 0 /\ (store # "purged" => Rooted)
    BY PublishFacts DEF Discharge, PublishShape, TodoShape, Suppressed, InteractionInv, RootInv
  <1>2. Head(pub[p].todo) = <<"replies", i>> /\ Tail(pub[p].todo) = <<>>
    BY <1>1
  <1>3. /\ r \in PublishRecords /\ PublishShape(r) /\ r.pc = "mark" /\ r.id = i /\ ~r.latched
        /\ r.todo = <<>> /\ r.then = "idle"
    BY <1>1, AtFacts, AtShape DEF Steps
  <1>4. Moves(p, r)
    BY <1>2, <1>3 DEF Discharge, DiscardThen, Moves
  <1> HIDE DEF r
  <1>5. Discard("replies", i) /\ UNCHANGED <<discharged, stranded>>
    BY <1>2 DEF Discharge
  <1>6. /\ Keeps /\ UNCHANGED <<snapshots, closed, doomed, persisted, closes, stranded, discharged, entry>>
        /\ counts' \in [Ids -> [Senders -> 0..ReplyBudget]] /\ endVotes' \in [Ids -> [turn : Nat, stamp : [Senders -> Nat]]]
        /\ \A j \in Ids : j # i => counts'[j] = counts[j]
    BY <1>1, <1>5, DiscardFacts DEF Discharge, Keeps, InteractionInv
  <1>7. TypeOK' /\ EntryInv'
    BY <1>4, <1>6, MoveFacts DEF InteractionInv, TypeOK, EntryInv, Keeps, Discharge
  <1>8. ASSUME NEW j \in Ids, NEW q \in Senders \ Exempt, closes[j] = 0 PROVE CountKept(p, r, j, q)
    <2>1. counts'[j] = counts[j] /\ persisted' = persisted
      BY <1>1, <1>6, <1>8
    <2>2. ~Holds(pub[p], j, q) /\ ~Holds(r, j, q)
      BY <1>1, <1>3 DEF Holds
    <2> QED
      BY <2>1, <2>2 DEF CountKept
  <1> QED
    BY <1>1, <1>3, <1>4, <1>6, <1>7, <1>8, QuietStep
       DEF Suppressed, Settled, MayCome, IsClosing, IsUnsettled

\* The publish after a discard of a displaced retiree.
LEMMA DisplacedMoves ==
  ASSUME InteractionInv, NEW p \in Publishers, Discharge(p), pub[p].then # "mark"
  PROVE  \E r : /\ Moves(p, r) /\ r.latched = pub[p].latched /\ ~r.latched /\ ~IsClosing(r)
                /\ r.id \in {pub[p].id, None} /\ r.pc \in {"discard", "reserve", "idle"}
                /\ pub[p].then = "reserve" => r.id = pub[p].id /\ (r.pc = "reserve" \/ (r.pc = "discard" /\ r.then = "reserve"))
                /\ pub[p].then # "reserve" => r.pc # "reserve" /\ r.then = "idle"
                /\ r.todo = IF r.pc = "discard" THEN Tail(pub[p].todo) ELSE <<>>
  <1> DEFINE todo == Tail(pub[p].todo)
  <1>1. /\ pub[p] \in PublishRecords /\ PublishShape(pub[p]) /\ pub[p].pc = "discard" /\ ~pub[p].latched
        /\ pub[p].id \in Ids /\ pub[p].then \in {"idle", "reserve"}
    BY PublishFacts DEF Discharge, PublishShape, PublishRecords
  <1>2. todo \in Seq(Discards) /\ \A k \in 1..Len(todo) : todo[k][2] # pub[p].id
    BY <1>1, TodoFacts DEF PublishShape, TodoShape
  <1>3. CASE todo = <<>>
    <2> DEFINE r == At(pub[p], pub[p].then)
    <2>1. r \in PublishRecords /\ PublishShape(r)
      BY <1>1, AtFacts, AtShape DEF Steps, PublishShape
    <2>2. Moves(p, r)
      BY <1>3, <2>1 DEF Discharge, DiscardThen, Moves
    <2>3. /\ r.pc = pub[p].then /\ r.todo = <<>> /\ r.then = "idle"
          /\ r.pc = "idle" => r.id = None /\ ~r.latched
          /\ r.pc # "idle" => r.id = pub[p].id /\ ~r.latched
      BY <1>1, AtFacts DEF Steps, Idle
    <2> HIDE DEF r
    <2>4. r.latched = pub[p].latched
      BY <1>1, <2>1, <2>3 DEF PublishRecords
    <2> QED
      BY <1>1, <2>2, <2>3, <2>4 DEF IsClosing
  <1>4. CASE todo # <<>>
    <2>1. PICK a \in PublishRecords :
            /\ a = IF pub[p].then = "reserve" THEN pub[p] ELSE At(pub[p], "mark")
            /\ a.id = pub[p].id /\ ~a.latched /\ (pub[p].then = "reserve" => a.sender = pub[p].sender)
      BY <1>1, AtFacts DEF Steps
    <2> DEFINE r == [a EXCEPT !.pc = "discard", !.todo = todo, !.then = pub[p].then]
    <2>2. pub' = [pub EXCEPT ![p] = r]
      BY <1>4, <2>1 DEF Discharge, DiscardThen, InteractionInv, TypeOK
    <2>3. /\ r \in PublishRecords /\ r.pc = "discard" /\ r.todo = todo /\ r.then = pub[p].then
          /\ r.id = pub[p].id /\ r.latched = FALSE /\ r.sender = a.sender
      <3> HIDE DEF todo
      <3> QED
        BY <1>1, <1>2, <2>1 DEF PublishRecords, Discards
    <2> HIDE DEF r
    <2>4. PublishShape(r)
      BY <1>1, <1>2, <1>4, <2>1, <2>3, IdFacts DEF PublishShape, TodoShape
    <2>5. Moves(p, r)
      BY <2>2, <2>3, <2>4 DEF Moves
    <2>6. pub[p].latched = FALSE
      BY <1>1 DEF PublishRecords
    <2> QED
      BY <1>1, <2>3, <2>5, <2>6 DEF IsClosing
  <1> QED
    BY <1>3, <1>4

\* A retiree that may be discarded is not the open interaction, and if a publish
\* still uses it the discard strands it.
LEMMA StepDischargeDisplaced ==
  ASSUME InteractionInv, NEW p \in Publishers, Discharge(p), pub[p].then # "mark"
  PROVE  InteractionInv'
  <1> DEFINE what == Head(pub[p].todo)[1]
             i == Head(pub[p].todo)[2]
  <1>1. /\ pub[p] \in PublishRecords /\ PublishShape(pub[p]) /\ pub[p].pc = "discard"
    BY PublishFacts DEF Discharge
  <1>2. /\ what \in {"replies", "votes", "budget"} /\ i \in Ids /\ i # pub[p].id
        /\ Discard(what, i) /\ discharged' = discharged \cup {i}
        /\ stranded' = stranded \cup (IF InFlight(i) THEN {i} ELSE {})
    <2>1. i = pub[p].todo[1][2] /\ 1 \in 1..Len(pub[p].todo)
      BY <1>1, TodoFacts
    <2> QED
      BY <1>1, <2>1, TodoFacts DEF Discharge, PublishShape, TodoShape
  <1>3. PICK r : /\ Moves(p, r) /\ r.latched = pub[p].latched /\ ~r.latched /\ ~IsClosing(r)
                 /\ r.id \in {pub[p].id, None} /\ r.pc \in {"discard", "reserve", "idle"}
                 /\ pub[p].then = "reserve" => r.id = pub[p].id /\ (r.pc = "reserve" \/ (r.pc = "discard" /\ r.then = "reserve"))
                 /\ pub[p].then # "reserve" => r.pc # "reserve" /\ r.then = "idle"
                 /\ r.todo = IF r.pc = "discard" THEN Tail(pub[p].todo) ELSE <<>>
    BY DisplacedMoves
  <1>4. Keeps /\ UNCHANGED <<doomed, persisted, closes, entry>>
    BY DEF Discharge, Keeps
  <1>5. /\ counts' \in [Ids -> [Senders -> 0..ReplyBudget]]
        /\ endVotes' \in [Ids -> [turn : Nat, stamp : [Senders -> Nat]]]
        /\ closed' \subseteq closed /\ snapshots' \subseteq snapshots
        /\ \A j \in Ids : j # i => counts'[j] = counts[j] /\ (j \in closed => j \in closed') /\ (j \in snapshots => j \in snapshots')
    BY <1>2, DiscardFacts DEF InteractionInv
  <1>6. TypeOK' /\ EntryInv'
    <2>1. discharged' \subseteq Ids /\ stranded' \subseteq Ids
      BY <1>2 DEF InteractionInv, TypeOK
    <2> QED
      BY <1>3, <1>4, <1>5, <2>1, MoveFacts DEF InteractionInv, TypeOK, EntryInv, Keeps, Discharge
  <1>7. PublishInv' /\ PurgeInv'
    BY <1>3, <1>4, MoveFacts DEF InteractionInv, PurgeInv, Keeps
  <1>8. \A k \in 1..Len(r.todo) : \E m \in 1..Len(pub[p].todo) : r.todo[k] = pub[p].todo[m]
    BY <1>1, <1>3, TodoFacts
  <1>9. store # "purged" => /\ entry.live /\ entry.retired # None
                            /\ \A k \in 1..Len(pub[p].todo) : pub[p].todo[k][2] # entry.id
    BY <1>1 DEF InteractionInv, RootInv
  <1>10. store # "purged" => i # entry.id
    BY <1>1, <1>9, TodoFacts
  <1>11. MintedInv'
    <2>1. \A k \in 1..Len(r.todo) : r.todo[k][2] <= minted
      BY <1>8 DEF InteractionInv, MintedInv
    <2> QED
      BY <1>3, <1>4, <2>1, KeptMinted DEF InteractionInv
  <1>12. ClosedInv'
    BY <1>3, <1>4, <1>5, KeptClosed DEF InteractionInv, ClosedInv, Suppressed, IsClosing
  <1>13. RootInv'
    <2>1. store # "purged" => \A k \in 1..Len(r.todo) : r.todo[k][2] # entry.id
      BY <1>8, <1>9
    <2> QED
      BY <1>1, <1>3, <1>4, <1>9, <2>1, KeptRoot DEF InteractionInv, RootInv, Settled, Displaces
  <1>14. TombstoneInv'
    <2>1. MayCome(r, store) => MayCome(pub[p], store)
      BY <1>1, <1>3 DEF MayCome
    <2>2. ASSUME NEW j \in Ids \ stranded', j \in closed, j \notin closed' PROVE ~MayClose(j)
      <3>1. j = i /\ ~InFlight(i)
        BY <1>2, <1>5, <2>2
      <3> QED
        BY <1>10, <3>1 DEF MayClose, MayCome, InFlight
    <2> QED
      BY <1>2, <1>3, <1>4, <2>1, <2>2, KeptTombstone DEF InteractionInv
  <1>15. ClosedIsRetired'
    BY <1>1, <1>3, <1>4, <1>5, KeptRetired DEF InteractionInv, IsClosing
  <1>16. EntriesHaveHistory'
    BY <1>1, <1>3, <1>4, KeptHistory DEF InteractionInv, IsUnsettled
  <1>17. CountsTrackHistory'
    <2>1. \A j \in Ids, q \in Senders \ Exempt : j \notin discharged' => j \notin discharged /\ CountKept(p, r, j, q)
      BY <1>1, <1>2, <1>3, <1>4, <1>5 DEF CountKept, Holds
    <2> QED
      BY <1>3, <1>4, <2>1, KeptCounts DEF InteractionInv
  <1>18. SnapshotWhileOpen'
    <2>1. store = "live" /\ entry.id \in snapshots => entry.id \in snapshots'
      BY <1>5, <1>10 DEF InteractionInv, TypeOK
    <2> QED
      BY <1>1, <1>3, <1>4, <2>1, KeptSnapshots DEF InteractionInv
  <1> QED
    BY <1>6, <1>7, <1>11, <1>12, <1>13, <1>14, <1>15, <1>16, <1>17, <1>18 DEF InteractionInv

-----------------------------------------------------------------------------
(* The steps that change the resolver's entry. *)

LEMMA StepSettleRejected ==
  ASSUME InteractionInv, NEW p \in Publishers, SettleRejected(p)
  PROVE  InteractionInv'
  <1> DEFINE i == pub[p].id
  <1>1. /\ pub[p] \in PublishRecords /\ PublishShape(pub[p]) /\ pub[p].pc = "rejected" /\ i \in Ids
        /\ pub[p].then = "idle" /\ pub[p].todo = <<>>
    BY PublishFacts DEF SettleRejected
  <1>2. Moves(p, Idle)
    <2>1. At(pub[p], "idle") = Idle
      BY DEF At
    <2> QED
      BY <2>1, IdleIsTyped DEF SettleRejected, Goto, Moves
  <1>3. Idle.pc = "idle" /\ Idle.id = None /\ ~Idle.latched /\ Idle.todo = <<>> /\ Idle.then = "idle" /\ ~Idle.reserved
    BY DEF Idle
  <1>4. CASE entry' = entry /\ (pub[p].latched \/ entry.id # i \/ entry.committed \/ entry.retired # None)
    <2>1. IsUnsettled(pub[p]) => entry.id # i \/ Rooted
      BY <1>1, <1>4, IdFacts DEF IsUnsettled, Rooted, InteractionInv, EntryInv, NoEntry
    <2>2. UNCHANGED <<autonomous, entry, minted, governance, store, doomed, begun, history>>
      BY <1>4 DEF SettleRejected
    <2> QED
      BY <1>1, <1>2, <1>3, <2>1, <2>2, PureStep DEF Suppressed, Settled, MayCome, IsClosing, Holds
  <1>5. CASE entry' = NoEntry /\ ~pub[p].latched /\ entry.id = i /\ ~entry.committed /\ entry.retired = None
    <2>1. ~Rooted
      BY <1>5 DEF Rooted
    <2>2. UNCHANGED <<autonomous, minted, counts, endVotes, closed, snapshots, store, doomed, begun, persisted, closes, discharged, stranded>>
      BY DEF SettleRejected, governance, history
    <2>3. /\ entry'.live = FALSE /\ entry'.id = None /\ entry'.retired = None /\ entry'.committed = FALSE
          /\ entry'.ledger = <<>> /\ Ledger' = {} /\ entry' \in Entries
      BY <1>5 DEF NoEntry, Ledger, Range, Entries
    <2>4. pub' \in [Publishers -> PublishRecords] /\ PublishInv' /\ PurgeInv'
      BY <1>2, <2>2, MoveFacts DEF InteractionInv, PurgeInv
    <2>5. TypeOK' /\ EntryInv'
      BY <1>5, <2>2, <2>3, <2>4, ChannelAssumption, SMTT(30) DEF InteractionInv, TypeOK, Entries, EntryInv, IsInjective
    <2>6. \A q \in Publishers : pub'[q] = pub[q] \/ (q = p /\ pub'[q] = Idle)
      BY <1>2, MoveFacts DEF InteractionInv
    <2>7. MintedInv'
      <3>1. minted \in Nat /\ None <= minted /\ Len(Idle.todo) = 0
        BY <1>3, ChannelAssumption DEF InteractionInv, TypeOK, None
      <3>2. \A q \in Publishers : pub'[q].id <= minted /\ \A k \in 1..Len(pub'[q].todo) : pub'[q].todo[k][2] <= minted
        BY <1>3, <2>6, <3>1 DEF InteractionInv, MintedInv
      <3> QED
        BY <2>2, <2>3, <3>1, <3>2 DEF InteractionInv, MintedInv
    <2>8. ClosedInv'
      BY <1>3, <2>2, <2>3, <2>6 DEF InteractionInv, ClosedInv
    <2>9. RootInv'
      <3>1. \A q \in Publishers : pub[q].pc = "persisted" => pub'[q] = pub[q]
        BY <1>1, <2>6
      <3> QED
        BY <1>3, <1>5, <2>1, <2>2, <2>6, <3>1 DEF InteractionInv, RootInv
    <2>10. TombstoneInv'
      <3>1. \A j \in Ids : MayClose(j)' => MayClose(j)
        BY <1>3, <2>2, <2>3, <2>6, IdFacts DEF MayClose, MayCome
      <3> QED
        BY <2>2, <3>1 DEF InteractionInv, TombstoneInv
    <2>11. ClosedIsRetired'
      BY <2>2, <2>3, IdFacts DEF ClosedIsRetired, InteractionInv, TypeOK
    <2>12. CountsTrackHistory'
      <3>1. \A j \in Ids, q \in Senders \ Exempt : CountKept(p, Idle, j, q)
        BY <1>1, <1>3, <2>2 DEF CountKept, Holds
      <3> QED
        BY <1>2, <2>2, <3>1, KeptCounts DEF InteractionInv
    <2> QED
      BY <2>3, <2>4, <2>5, <2>7, <2>8, <2>9, <2>10, <2>11, <2>12
         DEF InteractionInv, EntriesHaveHistory, SnapshotWhileOpen, OpenCommitted
  <1> QED
    BY <1>4, <1>5 DEF SettleRejected

LEMMA FreshEntry ==
  ASSUME NEW i \in Ids, NEW e, e = [NoEntry EXCEPT !.live = TRUE, !.id = i]
  PROVE  /\ e \in Entries /\ e.live /\ e.id = i /\ e.committed = FALSE /\ e.retired = None /\ e.ledger = <<>>
         /\ NoEntry.id = None /\ NoEntry.committed = FALSE /\ NoEntry.retired = None /\ NoEntry.ledger = <<>>
  <1>1. e = [live |-> TRUE, id |-> i, committed |-> FALSE, retired |-> None, rounds |-> 0, ledger |-> <<>>]
    BY DEF NoEntry
  <1>0. <<>> \in Seq(Ids)
    OBVIOUS
  <1>2. PICK none \in Seq(Ids) : none = <<>>
    BY <1>0
  <1>3. e \in Entries
    <2>1. [live |-> TRUE, id |-> i, committed |-> FALSE, retired |-> None, rounds |-> 0, ledger |-> none] \in Entries
      BY DEF Entries
    <2> QED
      BY <1>1, <1>2, <2>1
  <1> QED
    BY <1>1, <1>3 DEF NoEntry

LEMMA StepSettlePersisted ==
  ASSUME InteractionInv, NEW p \in Publishers, SettlePersisted(p)
  PROVE  InteractionInv'
  <1> DEFINE i == pub[p].id
  <1>1. /\ pub[p] \in PublishRecords /\ PublishShape(pub[p]) /\ pub[p].pc = "persisted" /\ i \in Ids
        /\ pub[p].then = "idle" /\ pub[p].todo = <<>> /\ ~pub[p].latched /\ pub[p].sender \in Senders
    BY PublishFacts DEF SettlePersisted, PublishShape
  <1> DEFINE e == IF entry.live THEN entry ELSE [NoEntry EXCEPT !.live = TRUE, !.id = i]
  <1>2. /\ entry' = IF e.id = i THEN [e EXCEPT !.committed = TRUE]
                    ELSE IF e.retired = None THEN [e EXCEPT !.retired = i] ELSE e
        /\ Goto(p, IF e.id = i /\ ~e.committed /\ Capped THEN "snapshot" ELSE "endvote")
    BY DEF SettlePersisted
  <1>3. /\ entry \in Entries /\ e \in Entries /\ e.live /\ e.ledger = entry.ledger /\ e.retired = entry.retired
        /\ e.committed = entry.committed /\ (entry.live => e = entry)
        /\ ~entry.live => e.id = i /\ ~e.committed /\ entry.id = None /\ entry.retired = None
    <2>1. entry \in Entries /\ (~entry.live => entry = NoEntry)
      BY DEF InteractionInv, TypeOK, Entries, EntryInv
    <2>2. CASE entry.live
      BY <2>1, <2>2 DEF Entries
    <2>3. CASE ~entry.live
      <3>1. e = [NoEntry EXCEPT !.live = TRUE, !.id = i]
        BY <2>3
      <3> HIDE DEF e, i
      <3> QED
        BY <1>1, <2>1, <2>3, <3>1, FreshEntry
    <2> QED
      BY <2>2, <2>3
  <1> HIDE DEF e
  <1>4. /\ entry' \in Entries /\ entry'.live /\ entry'.id = e.id /\ entry'.ledger = entry.ledger
        /\ e.id = i => entry'.committed /\ entry'.retired = e.retired
        /\ e.id # i => entry'.committed = e.committed /\ entry'.retired = IF e.retired = None THEN i ELSE e.retired
    BY <1>1, <1>2, <1>3 DEF Entries
  <1>5. PICK x \in {"snapshot", "endvote"} : x = IF e.id = i /\ ~e.committed /\ Capped THEN "snapshot" ELSE "endvote"
    OBVIOUS
  <1> DEFINE r == At(pub[p], x)
  <1>6. /\ r \in PublishRecords /\ PublishShape(r) /\ r.pc = x /\ r.id = i /\ ~r.latched
        /\ r.todo = <<>> /\ r.then = "idle"
    BY <1>1, AtFacts, AtShape DEF Steps
  <1>7. Moves(p, r)
    BY <1>2, <1>5, <1>6 DEF Goto, Moves
  <1> HIDE DEF r
  <1>8. /\ UNCHANGED <<autonomous, minted, counts, endVotes, closed, snapshots, store, doomed, begun, persisted, closes, discharged>>
        /\ stranded \subseteq stranded' /\ stranded' \subseteq stranded \cup {i}
    BY DEF SettlePersisted, governance
  <1>9. pub' \in [Publishers -> PublishRecords] /\ PublishInv' /\ PurgeInv' /\ pub'[p] = r
    BY <1>7, <1>8, MoveFacts DEF InteractionInv, PurgeInv
  <1>10. \A q \in Publishers : q # p => pub'[q] = pub[q]
    BY <1>7, MoveFacts DEF InteractionInv
  <1>11. Ledger' = Ledger
    BY <1>4 DEF Ledger, Range
  <1>12. TypeOK' /\ EntryInv'
    <2>1. stranded' \subseteq Ids
      BY <1>1, <1>8 DEF InteractionInv, TypeOK
    <2>2. TypeOK'
      BY <1>4, <1>8, <1>9, <2>1 DEF InteractionInv, TypeOK, Entries
    <2>3. EntryInv'
      BY <1>1, <1>3, <1>4, IdFacts DEF InteractionInv, EntryInv
    <2> QED
      BY <2>2, <2>3
  <1>13. MintedInv'
    <2>1. i <= minted /\ e.id <= minted /\ entry'.retired <= minted
      BY <1>3, <1>4 DEF InteractionInv, MintedInv
    <2>2. \A q \in Publishers : pub'[q].id <= minted /\ \A k \in 1..Len(pub'[q].todo) : pub'[q].todo[k][2] <= minted
      <3>1. CASE pub'[p].id <= minted /\ Len(pub'[p].todo) = 0
        BY <1>10, <3>1 DEF InteractionInv, MintedInv
      <3> QED
        BY <1>6, <1>9, <2>1, <3>1
    <2> QED
      BY <1>4, <1>8, <1>11, <2>1, <2>2 DEF InteractionInv, MintedInv
  <1>14. ClosedInv'
    BY <1>6, <1>8, <1>9, <1>10, <1>11 DEF InteractionInv, ClosedInv
  <1>15. Rooted'
    BY <1>1, <1>4, IdFacts DEF Rooted
  <1>16. RootInv'
    <2>1. ASSUME store # "purged", NEW q \in Publishers, Displaces(pub'[q])
          PROVE /\ entry'.live /\ entry'.retired # None
                /\ \A k \in 1..Len(pub'[q].todo) : pub'[q].todo[k][2] # entry'.id
      <3>1. q # p /\ pub'[q] = pub[q]
        BY <1>6, <1>9, <1>10, <2>1 DEF Displaces
      <3>2. /\ entry.live /\ entry.retired # None
            /\ \A k \in 1..Len(pub[q].todo) : pub[q].todo[k][2] # entry.id
        BY <2>1, <3>1 DEF InteractionInv, RootInv, Displaces
      <3> QED
        BY <1>3, <1>4, <3>1, <3>2
    <2> QED
      BY <1>8, <1>15, <2>1 DEF RootInv, Displaces
  <1>17. TombstoneInv'
    <2>1. ASSUME NEW j \in Ids, MayClose(j)' PROVE MayClose(j)
      <3>1. MayClose(i)
        BY <1>1 DEF MayClose, MayCome
      <3>2. ASSUME NEW q \in Publishers, pub'[q].id = j, MayCome(pub'[q], store') PROVE MayClose(j)
        BY <1>6, <1>8, <1>9, <1>10, <3>1, <3>2 DEF MayClose
      <3>3. ASSUME store' = "live", entry'.id = j PROVE MayClose(j)
        BY <1>3, <1>4, <1>8, <3>1, <3>3 DEF MayClose
      <3> QED
        BY <2>1, <3>2, <3>3 DEF MayClose
    <2> QED
      BY <1>8, <2>1 DEF InteractionInv, TombstoneInv
  <1>18. ClosedIsRetired'
    <2> SUFFICES ASSUME store = "live" PROVE ClosedIsRetired'
      BY <1>8 DEF ClosedIsRetired
    <2>1. CASE entry.live
      <3>1. entry'.id = entry.id
        BY <1>3, <1>4, <2>1
      <3>2. \A j : Closing(j) => Closing(j)'
        BY <1>1, <1>10 DEF Closing
      <3> QED
        BY <1>8, <1>11, <3>1, <3>2 DEF InteractionInv, ClosedIsRetired
    <2>2. CASE ~entry.live
      <3>1. \A j \in Ids : ~(closes[j] > 0)
        BY <2>2 DEF InteractionInv, RootInv, Rooted
      <3>2. closed \cup Ledger \subseteq Ids
        BY DEF InteractionInv, TypeOK, Ledger, Range
      <3>3. closed \cup Ledger = {}
        BY <3>1, <3>2 DEF InteractionInv, ClosedInv
      <3> QED
        BY <1>8, <1>11, <3>3 DEF ClosedIsRetired
    <2> QED
      BY <2>1, <2>2
  <1>19. EntriesHaveHistory'
    BY <1>15 DEF EntriesHaveHistory, Rooted
  <1>20. CountsTrackHistory'
    <2>1. \A j \in Ids, q \in Senders \ Exempt : CountKept(p, r, j, q)
      BY <1>1, <1>6, <1>8 DEF CountKept, Holds
    <2> QED
      BY <1>7, <1>8, <2>1, KeptCounts DEF InteractionInv
  <1>21. SnapshotWhileOpen'
    <2> SUFFICES ASSUME Capped, store = "live", OpenCommitted'
                 PROVE entry'.id \in snapshots \/ \E q \in Publishers : pub'[q].pc = "snapshot" /\ pub'[q].id = entry'.id
      BY <1>8 DEF SnapshotWhileOpen
    <2>1. CASE e.id = i /\ ~e.committed
      BY <1>4, <1>5, <1>6, <1>9, <2>1
    <2>2. CASE ~(e.id = i /\ ~e.committed)
      <3>1. entry.live /\ OpenCommitted /\ entry'.id = entry.id
        BY <1>3, <1>4, <2>2 DEF OpenCommitted
      <3>2. entry.id \in snapshots \/ \E q \in Publishers : pub[q].pc = "snapshot" /\ pub[q].id = entry.id
        BY <3>1 DEF InteractionInv, SnapshotWhileOpen
      <3> QED
        BY <1>1, <1>10, <3>1, <3>2
    <2> QED
      BY <2>1, <2>2
  <1> QED
    BY <1>9, <1>12, <1>13, <1>14, <1>16, <1>17, <1>18, <1>19, <1>20, <1>21 DEF InteractionInv

\* What resolving makes of the entry: the open interaction, or a fresh one.
LEMMA StepResolve ==
  ASSUME InteractionInv, NEW p \in Publishers, NEW s \in Senders, NEW v \in BOOLEAN, NEW idle \in BOOLEAN,
         Resolve(p, s, v, idle)
  PROVE  InteractionInv'
  <1>1. PICK rotates \in BOOLEAN, mints \in BOOLEAN, id \in Ids, todo \in Seq(Discards), pc \in {"reserve", "discard"}, then \in {"idle", "reserve"} :
          /\ rotates => OpenCommitted
          /\ mints <=> (rotates \/ entry.id = None)
          /\ id = IF mints THEN minted + 1 ELSE entry.id
          /\ todo = IF rotates THEN Governance(entry.retired) ELSE <<>>
          /\ pc = IF todo = <<>> THEN "reserve" ELSE "discard"
          /\ then = IF todo = <<>> THEN "idle" ELSE "reserve"
          /\ minted' = IF mints THEN id ELSE minted
          /\ entry' = [entry EXCEPT !.live = TRUE, !.id = id, !.committed = @ /\ ~mints,
                          !.retired = IF rotates THEN entry.id ELSE @, !.rounds = IF mints THEN 0 ELSE @]
          /\ pub' = [pub EXCEPT ![p] = [Idle EXCEPT !.pc = pc, !.sender = s, !.vote = v, !.id = id,
                                                   !.todo = todo, !.then = then]]
    <2> DEFINE rotates == idle /\ OpenCommitted /\ Rotates
               mints   == rotates \/ entry.id = None
               id      == IF mints THEN minted + 1 ELSE entry.id
               todo    == IF rotates THEN Governance(entry.retired) ELSE <<>>
               pc      == IF todo = <<>> THEN "reserve" ELSE "discard"
               then    == IF todo = <<>> THEN "idle" ELSE "reserve"
    <2>1. rotates \in BOOLEAN /\ mints \in BOOLEAN /\ id \in Ids
      BY ChannelAssumption DEF Resolve, OpenCommitted, InteractionInv, TypeOK
    <2>2. todo \in Seq(Discards)
      BY GovernanceFacts DEF InteractionInv, TypeOK
    <2>3. pc \in {"reserve", "discard"} /\ then \in {"idle", "reserve"}
      OBVIOUS
    <2>4. /\ minted' = IF mints THEN id ELSE minted
          /\ entry' = [entry EXCEPT !.live = TRUE, !.id = id, !.committed = @ /\ ~mints,
                          !.retired = IF rotates THEN entry.id ELSE @, !.rounds = IF mints THEN 0 ELSE @]
          /\ pub' = [pub EXCEPT ![p] = [Idle EXCEPT !.pc = pc, !.sender = s, !.vote = v, !.id = id,
                                                   !.todo = todo, !.then = then]]
      BY DEF Resolve
    <2>5. rotates => OpenCommitted
      OBVIOUS
    <2> QED
      BY <2>1, <2>2, <2>3, <2>4, <2>5, ZenonT(60)
  <1> DEFINE r == [Idle EXCEPT !.pc = pc, !.sender = s, !.vote = v, !.id = id, !.todo = todo, !.then = then]
  <1>2. /\ r \in PublishRecords /\ r.pc = pc /\ r.sender = s /\ r.id = id /\ r.todo = todo /\ r.then = then
        /\ ~r.latched /\ ~r.reserved
    BY IdleIsTyped DEF Idle, PublishRecords, Discards
  <1>3. pub' = [pub EXCEPT ![p] = r]
    BY <1>1
  <1> HIDE DEF r
  <1>4. /\ entry \in Entries /\ minted \in Nat /\ entry.id <= minted /\ entry.retired <= minted
        /\ \A k \in 1..Len(todo) : todo[k][2] <= minted /\ todo[k][2] = entry.retired
    <2>1. entry \in Entries /\ minted \in Nat /\ entry.id <= minted /\ entry.retired <= minted
      BY ChannelAssumption DEF InteractionInv, TypeOK, Entries, MintedInv
    <2>2. \A k \in 1..Len(Governance(entry.retired)) : Governance(entry.retired)[k][2] = entry.retired
      BY <2>1, GovernanceFacts DEF Entries
    <2> QED
      BY <1>1, <2>1, <2>2
  <1>5. /\ entry' \in Entries /\ entry'.live /\ entry'.id = id /\ entry'.ledger = entry.ledger
        /\ entry'.committed = (entry.committed /\ ~mints)
        /\ entry'.retired = IF rotates THEN entry.id ELSE entry.retired
    BY <1>1, <1>4 DEF Entries
  <1>6. ~mints => id = entry.id /\ entry.id # None /\ entry.live /\ ~rotates
    BY <1>1 DEF InteractionInv, EntryInv, NoEntry
  <1>7. mints => id = minted + 1 /\ (rotates => entry.id \in Ids) /\ (~rotates => entry.id = None /\ todo = <<>>)
    BY <1>1, <1>4 DEF OpenCommitted, Entries
  <1>8. PublishShape(r)
    <2>1. pc = "discard" => mints
      BY <1>1
    <2>2. pc = "discard" => \A k \in 1..Len(todo) : todo[k][2] # id
      <3>1. \A n \in Nat : n <= minted => n # minted + 1
        BY <1>4
      <3>2. entry.retired \in Nat
        BY <1>4, IdsAreNumbers DEF Entries
      <3> QED
        BY <1>4, <1>7, <2>1, <3>1, <3>2
    <2> QED
      BY <1>1, <1>2, <2>2, IdFacts DEF PublishShape, TodoShape
  <1>9. Moves(p, r)
    BY <1>2, <1>3, <1>8 DEF Moves
  <1>10. UNCHANGED <<autonomous, counts, endVotes, closed, snapshots, store, doomed, persisted, closes, discharged, stranded>>
    BY DEF Resolve, governance, history
  <1>11. pub' \in [Publishers -> PublishRecords] /\ PublishInv' /\ PurgeInv' /\ pub'[p] = r
    BY <1>9, <1>10, MoveFacts DEF InteractionInv, PurgeInv
  <1>12. \A q \in Publishers : q # p => pub'[q] = pub[q]
    BY <1>9, MoveFacts DEF InteractionInv
  <1>13. pub[p].pc = "idle" /\ pub[p].id = None /\ pub[p].then = "idle"
    BY PublishFacts DEF Resolve, Begin, PublishShape
  <1>14. Ledger' = Ledger /\ Ledger \subseteq Ids
    BY <1>5 DEF Ledger, Range, InteractionInv, TypeOK
  <1>15. TypeOK'
    <2>1. begun' \in 0..MaxPublishes
      BY BeginFacts DEF Resolve, InteractionInv
    <2>2. minted' \in 0..MaxInteractions
      BY <1>1 DEF InteractionInv, TypeOK, Ids
    <2> QED
      BY <1>5, <1>10, <1>11, <2>1, <2>2 DEF InteractionInv, TypeOK, Entries
  <1>16. EntryInv'
    <2>1. CASE rotates
      BY <1>1, <1>4, <1>5, <1>7, <2>1, IdFacts DEF EntryInv
    <2>2. CASE ~rotates
      <3>1. entry.retired # None => entry.retired # id
        BY <1>4, <1>6, <1>7, <2>2 DEF InteractionInv, EntryInv
      <3> QED
        BY <1>5, <2>2, <3>1, IdFacts DEF EntryInv
    <2> QED
      BY <2>1, <2>2
  <1>17. minted' \in Nat /\ minted <= minted' /\ id <= minted'
    BY <1>1, <1>4, <1>6, <1>7
  <1>18. MintedInv'
    <2>1. \A n \in Int : n <= minted => n <= minted'
      BY <1>4, <1>17
    <2>2. entry'.id <= minted' /\ entry'.retired <= minted'
      BY <1>4, <1>5, <1>17, <2>1, IdFacts DEF Entries, None
    <2>3. \A i \in Ledger' : i <= minted'
      BY <1>14, <2>1, IdFacts DEF InteractionInv, MintedInv
    <2>4. ASSUME NEW q \in Publishers
          PROVE pub'[q].id <= minted' /\ \A k \in 1..Len(pub'[q].todo) : pub'[q].todo[k][2] <= minted'
      <3>1. CASE q = p
        <4>1. entry.retired \in Int
          BY <1>4, IdsAreNumbers DEF Entries
        <4> QED
          BY <1>2, <1>4, <1>11, <1>17, <2>1, <3>1, <4>1
      <3>2. CASE q # p
        <4>1. pub[q].id \in Int /\ \A k \in 1..Len(pub[q].todo) : pub[q].todo[k][2] \in Int
          <5>1. pub[q].id \in Ids \cup {None} /\ pub[q].todo \in Seq(Discards)
            BY DEF InteractionInv, TypeOK, PublishRecords, Discards
          <5>2. \A k \in 1..Len(pub[q].todo) : pub[q].todo[k] \in Discards
            BY <5>1
          <5>3. \A d \in Discards : d[2] \in Ids
            BY DEF Discards
          <5>4. \A d \in Discards : d[2] \in Int
            BY <5>3, IdsAreNumbers
          <5> QED
            BY <5>1, <5>2, <5>4, IdsAreNumbers
        <4> QED
          BY <1>12, <2>1, <3>2, <4>1 DEF InteractionInv, MintedInv
      <3> QED
        BY <3>1, <3>2
    <2>5. \A i \in Ids : closes'[i] > 0 => i <= minted'
      BY <1>10, <2>1, IdFacts DEF InteractionInv, MintedInv
    <2> QED
      BY <2>2, <2>3, <2>4, <2>5 DEF MintedInv
  <1>19. ClosedInv'
    BY <1>1, <1>2, <1>10, <1>11, <1>12, <1>14 DEF InteractionInv, ClosedInv
  <1>20. Rooted => Rooted'
    BY <1>5, <1>6, <1>7, IdFacts DEF Rooted, InteractionInv, EntryInv
  <1>21. RootInv'
    <2> SUFFICES ASSUME store # "purged" PROVE RootInv'
      BY <1>10 DEF RootInv
    <2>1. ASSUME NEW q \in Publishers, Displaces(pub'[q])
          PROVE /\ entry'.live /\ entry'.retired # None
                /\ \A k \in 1..Len(pub'[q].todo) : pub'[q].todo[k][2] # entry'.id
      <3>1. CASE q = p
        <4>1. rotates
          BY <1>1, <1>2, <1>11, <2>1, <3>1 DEF Displaces
        <4>2. \A k \in 1..Len(todo) : todo[k][2] # id
          BY <1>2, <1>8, <1>11, <2>1, <3>1 DEF PublishShape, TodoShape, Displaces
        <4> QED
          BY <1>1, <1>2, <1>5, <1>7, <1>11, <3>1, <4>1, <4>2, IdFacts
      <3>2. CASE q # p
        <4>1. /\ entry.live /\ entry.retired # None
              /\ \A k \in 1..Len(pub[q].todo) : pub[q].todo[k][2] # entry.id /\ pub[q].todo[k][2] <= minted
          BY <1>12, <2>1, <3>2 DEF InteractionInv, RootInv, MintedInv, Displaces
        <4>2. \A k \in 1..Len(pub[q].todo) : pub[q].todo[k][2] # id
          BY <1>4, <1>6, <1>7, <4>1
        <4> QED
          <5>1. entry'.retired # None
            BY <1>1, <1>5, <1>7, <4>1, IdFacts
          <5>2. pub'[q] = pub[q]
            BY <1>12, <3>2
          <5> QED
            BY <1>5, <4>2, <5>1, <5>2
      <3> QED
        BY <3>1, <3>2
    <2>2. \A q \in Publishers : Settled(pub'[q]) => Rooted'
      BY <1>1, <1>2, <1>11, <1>12, <1>20 DEF InteractionInv, RootInv, Settled
    <2>3. ASSUME NEW i \in Ids, NEW z \in Senders, persisted'[i][z] > 0
          PROVE Rooted' \/ \E q \in Publishers : pub'[q].pc = "persisted" /\ pub'[q].id = i
      <3>1. Rooted \/ \E q \in Publishers : pub[q].pc = "persisted" /\ pub[q].id = i
        BY <1>10, <2>3 DEF InteractionInv, RootInv
      <3> QED
        BY <1>12, <1>13, <1>20, <3>1
    <2>4. (\E i \in Ids : closes'[i] > 0) => Rooted'
      BY <1>10, <1>20 DEF InteractionInv, RootInv
    <2> QED
      BY <2>1, <2>2, <2>3, <2>4 DEF RootInv, Settled, Displaces
  <1>22. mints => closes[id] = 0 /\ id \notin closed \cup Ledger
    <2>1. mints => ~(id <= minted)
      BY <1>4, <1>7
    <2>2. closes[id] \in Nat
      BY DEF InteractionInv, TypeOK
    <2> QED
      BY <2>1, <2>2 DEF InteractionInv, MintedInv, ClosedInv
  <1>23. TombstoneInv'
    <2>1. ASSUME NEW j \in Ids, MayClose(j)' PROVE MayClose(j) \/ (mints /\ j = id)
      <3>1. ASSUME NEW q \in Publishers, pub'[q].id = j, MayCome(pub'[q], store') PROVE MayClose(j) \/ (mints /\ j = id)
        <4>1. CASE q = p
          <5>1. j = id /\ store = "live"
            BY <1>1, <1>2, <1>10, <1>11, <3>1, <4>1 DEF MayCome
          <5> QED
            BY <1>6, <5>1 DEF MayClose
        <4>2. CASE q # p
          BY <1>10, <1>12, <3>1, <4>2 DEF MayClose
        <4> QED
          BY <4>1, <4>2
      <3>2. ASSUME store' = "live", entry'.id = j PROVE MayClose(j) \/ (mints /\ j = id)
        BY <1>5, <1>6, <1>10, <3>2 DEF MayClose
      <3> QED
        BY <2>1, <3>1, <3>2 DEF MayClose
    <2> QED
      BY <1>10, <1>22, <2>1 DEF InteractionInv, TombstoneInv
  <1>24. ClosedIsRetired'
    <2>1. \A j : Closing(j) => Closing(j)'
      BY <1>12, <1>13 DEF Closing
    <2>2. CASE mints
      BY <1>5, <1>10, <1>14, <1>22, <2>2 DEF ClosedIsRetired
    <2>3. CASE ~mints
      BY <1>5, <1>6, <1>10, <1>14, <2>1, <2>3 DEF InteractionInv, ClosedIsRetired
    <2> QED
      BY <2>2, <2>3
  <1>25. EntriesHaveHistory'
    <2>1. IsUnsettled(pub'[p]) /\ pub'[p].id = entry'.id
      BY <1>1, <1>2, <1>5, <1>11 DEF IsUnsettled
    <2> QED
      BY <2>1 DEF EntriesHaveHistory, Unsettled, IsUnsettled
  <1>26. CountsTrackHistory'
    <2>1. \A j \in Ids, q \in Senders \ Exempt : CountKept(p, r, j, q)
      BY <1>2, <1>10, <1>13 DEF CountKept, Holds
    <2> QED
      BY <1>9, <1>10, <2>1, KeptCounts DEF InteractionInv
  <1>27. SnapshotWhileOpen'
    <2> SUFFICES ASSUME Capped, store = "live", OpenCommitted'
                 PROVE entry'.id \in snapshots \/ \E q \in Publishers : pub'[q].pc = "snapshot" /\ pub'[q].id = entry'.id
      BY <1>10 DEF SnapshotWhileOpen
    <2>1. ~mints /\ OpenCommitted /\ entry'.id = entry.id
      BY <1>5, <1>6 DEF OpenCommitted
    <2>2. entry.id \in snapshots \/ \E q \in Publishers : pub[q].pc = "snapshot" /\ pub[q].id = entry.id
      BY <2>1 DEF InteractionInv, SnapshotWhileOpen
    <2> QED
      BY <1>12, <1>13, <2>1, <2>2
  <1> QED
    BY <1>11, <1>15, <1>16, <1>18, <1>19, <1>21, <1>23, <1>24, <1>25, <1>26, <1>27 DEF InteractionInv

\* The no-reopen ledger holds at most Generations ids, all distinct.
LEMMA RememberFacts ==
  ASSUME NEW ledger \in Seq(Ids), Len(ledger) <= Generations, IsInjective(ledger), NEW i \in Ids
  PROVE  /\ Remember(ledger, i) \in Seq(Ids) /\ Len(Remember(ledger, i)) <= Generations
         /\ IsInjective(Remember(ledger, i)) /\ Range(Remember(ledger, i)) \subseteq Range(ledger) \cup {i}
  <1>1. CASE i \in Range(ledger)
    BY <1>1 DEF Remember
  <1>2. CASE i \notin Range(ledger)
    <2>0. Append(ledger, i) \in Seq(Ids)
      OBVIOUS
    <2>1. PICK l \in Seq(Ids) : l = Append(ledger, i)
      BY <2>0
    <2>2. /\ Len(l) = Len(ledger) + 1 /\ l[Len(l)] = i
          /\ \A k \in 1..Len(ledger) : l[k] = ledger[k]
      BY <2>1
    <2>3. \A k \in 1..Len(ledger) : ledger[k] # i
      BY <1>2 DEF Range
    <2>4. \A j, k \in 1..Len(ledger) : ledger[j] = ledger[k] => j = k
      BY DEF IsInjective
    <2>5. \A j, k \in 1..Len(l) : l[j] = l[k] => j = k
      BY <2>2, <2>3, <2>4
    <2>6. Range(l) \subseteq Range(ledger) \cup {i}
      BY <2>2 DEF Range
    <2>7. Remember(ledger, i) = IF Len(l) > Generations THEN Tail(l) ELSE l
      BY <1>2, <2>1 DEF Remember
    <2>8. CASE ~(Len(l) > Generations)
      <3>1. Remember(ledger, i) = l
        BY <2>7, <2>8
      <3> QED
        BY <2>5, <2>6, <2>8, <3>1, ChannelAssumption, SMTT(30) DEF IsInjective
    <2>9. CASE Len(l) > Generations
      <3>0. l # <<>> /\ Tail(l) \in Seq(Ids)
        BY <2>2
      <3>1. PICK m \in Seq(Ids) : m = Tail(l)
        BY <3>0
      <3>2. Len(m) = Len(l) - 1 /\ \A k \in 1..Len(m) : k + 1 \in 1..Len(l) /\ m[k] = l[k + 1]
        BY <2>2, <3>1
      <3>3. \A j, k \in 1..Len(m) : m[j] = m[k] => j = k
        BY <2>5, <3>2
      <3>4. Range(m) \subseteq Range(l)
        <4>1. DOMAIN m = 1..Len(m) /\ DOMAIN l = 1..Len(l)
          OBVIOUS
        <4> QED
          BY <3>2, <4>1 DEF Range
      <3> QED
        BY <2>2, <2>6, <2>7, <2>9, <3>1, <3>2, <3>3, <3>4 DEF IsInjective
    <2> QED
      BY <2>8, <2>9
  <1> QED
    BY <1>1, <1>2

\* The publish after its close was marked: it discards the retiree that the
\* closed interaction displaced, or ends.
LEMMA MarkMoves ==
  ASSUME InteractionInv, NEW p \in Publishers, pub[p].pc = "mark",
         NEW todo \in Seq(Discards), DiscardThen(p, todo, "idle"),
         \A k \in 1..Len(todo) : todo[k][2] # pub[p].id
  PROVE  \E r : /\ Moves(p, r) /\ ~r.latched /\ r.then = "idle" /\ ~r.reserved /\ r.todo = todo
                /\ r.id \in {pub[p].id, None} /\ r.pc = IF todo = <<>> THEN "idle" ELSE "discard"
  <1>1. pub[p] \in PublishRecords /\ PublishShape(pub[p]) /\ ~pub[p].latched /\ pub[p].id \in Ids
    BY PublishFacts DEF PublishShape
  <1>2. CASE todo = <<>>
    <2>1. At(pub[p], "idle") = Idle
      BY DEF At
    <2>2. Moves(p, Idle)
      BY <1>2, <2>1, IdleIsTyped DEF DiscardThen, Moves
    <2> QED
      BY <1>2, <2>2 DEF Idle
  <1>3. CASE todo # <<>>
    <2> DEFINE a == At(pub[p], "mark")
    <2>1. a = [Idle EXCEPT !.pc = "mark", !.id = pub[p].id, !.latched = pub[p].latched]
      BY DEF At
    <2>2. a \in PublishRecords /\ a.id = pub[p].id /\ ~a.latched /\ ~a.reserved
      <3>1. a \in PublishRecords /\ a.id = pub[p].id /\ a.latched = pub[p].latched
        BY <1>1, AtFacts DEF Steps
      <3>2. a.reserved = FALSE
        BY <2>1 DEF Idle
      <3> QED
        BY <1>1, <3>1, <3>2
    <2>3. pub' = [pub EXCEPT ![p] = [a EXCEPT !.pc = "discard", !.todo = todo, !.then = "idle"]]
      BY <1>3 DEF DiscardThen, InteractionInv, TypeOK
    <2> HIDE DEF a
    <2> DEFINE r == [a EXCEPT !.pc = "discard", !.todo = todo, !.then = "idle"]
    <2>4. /\ r \in PublishRecords /\ r.pc = "discard" /\ r.todo = todo /\ r.then = "idle" /\ r.id = pub[p].id
          /\ ~r.latched /\ ~r.reserved
      BY <2>2 DEF PublishRecords, Discards
    <2> HIDE DEF r
    <2>5. PublishShape(r)
      BY <1>1, <1>3, <2>4, IdFacts DEF PublishShape, TodoShape
    <2>6. Moves(p, r)
      BY <2>3, <2>4, <2>5 DEF Moves, r
    <2> QED
      BY <1>3, <2>4, <2>6
  <1> QED
    BY <1>2, <1>3

LEMMA StepMark ==
  ASSUME InteractionInv, NEW p \in Publishers, MarkInteractionClosed(p)
  PROVE  InteractionInv'
  <1> DEFINE i == pub[p].id
  <1>1. /\ pub[p] \in PublishRecords /\ PublishShape(pub[p]) /\ pub[p].pc = "mark" /\ i \in Ids /\ ~pub[p].latched
        /\ pub[p].then = "idle" /\ closes[i] > 0 /\ i <= minted /\ (store # "purged" => Rooted)
    BY PublishFacts DEF MarkInteractionClosed, PublishShape, Suppressed, Settled, InteractionInv, MintedInv
  <1>2. PICK retires \in BOOLEAN, todo \in Seq(Discards) :
          /\ retires <=> (entry.live /\ entry.id = i)
          /\ todo = IF retires THEN Governance(entry.retired) ELSE <<>>
          /\ DiscardThen(p, todo, "idle")
          /\ entry' = IF ~entry.live THEN entry
                      ELSE [entry EXCEPT !.ledger = Remember(@, i), !.retired = IF retires THEN i ELSE @,
                                         !.id = IF retires THEN None ELSE @]
    <2> DEFINE retires == entry.live /\ entry.id = i
               todo == IF retires THEN Governance(entry.retired) ELSE <<>>
    <2>1. retires \in BOOLEAN
      BY DEF InteractionInv, TypeOK
    <2>2. todo \in Seq(Discards)
      BY GovernanceFacts DEF InteractionInv, TypeOK
    <2>3. /\ DiscardThen(p, todo, "idle")
          /\ entry' = IF ~entry.live THEN entry
                      ELSE [entry EXCEPT !.ledger = Remember(@, i), !.retired = IF retires THEN i ELSE @,
                                         !.id = IF retires THEN None ELSE @]
      BY DEF MarkInteractionClosed
    <2> QED
      BY <2>1, <2>2, <2>3
  <1>3. entry \in Entries /\ Len(entry.ledger) <= Generations /\ IsInjective(entry.ledger)
    BY DEF InteractionInv, TypeOK, Entries
  <1>4. \A k \in 1..Len(todo) : todo[k][2] = entry.retired /\ todo[k][2] <= minted /\ todo[k][2] # i
    <2>1. CASE retires
      <3>1. \A k \in 1..Len(todo) : todo[k][2] = entry.retired
        BY <1>2, <1>3, <2>1, GovernanceFacts DEF Entries
      <3>2. todo # <<>> => entry.retired # None
        BY <1>2, <1>3, <2>1, GovernanceFacts DEF Entries
      <3>3. \A k \in 1..Len(todo) : todo # <<>>
        OBVIOUS
      <3> QED
        BY <1>2, <2>1, <3>1, <3>2, <3>3 DEF InteractionInv, EntryInv, MintedInv
    <2>2. CASE ~retires
      BY <1>2, <2>2
    <2> QED
      BY <2>1, <2>2
  <1>5. PICK r : /\ Moves(p, r) /\ ~r.latched /\ r.then = "idle" /\ ~r.reserved /\ r.todo = todo
                 /\ r.id \in {i, None} /\ r.pc = IF todo = <<>> THEN "idle" ELSE "discard"
    <2>1. \A k \in 1..Len(todo) : todo[k][2] # pub[p].id
      BY <1>4
    <2> QED
      BY <1>1, <1>2, <2>1, MarkMoves, ZenonT(60)
  <1>6. UNCHANGED <<autonomous, minted, counts, endVotes, closed, snapshots, store, doomed, begun, persisted, closes, discharged, stranded>>
    BY DEF MarkInteractionClosed, governance, history
  <1>7. pub' \in [Publishers -> PublishRecords] /\ PublishInv' /\ PurgeInv' /\ pub'[p] = r
    BY <1>5, <1>6, MoveFacts DEF InteractionInv, PurgeInv
  <1>8. \A q \in Publishers : q # p => pub'[q] = pub[q]
    BY <1>5, MoveFacts DEF InteractionInv
  <1>9. /\ entry' \in Entries /\ Len(entry'.ledger) <= Generations /\ IsInjective(entry'.ledger)
        /\ Range(entry'.ledger) \subseteq Range(entry.ledger) \cup {i}
        /\ entry'.live = entry.live /\ entry'.committed = entry.committed
        /\ entry'.id = (IF retires THEN None ELSE entry.id)
        /\ entry'.retired = (IF retires THEN i ELSE entry.retired)
        /\ ~entry.live => entry' = entry
    <2>1. CASE ~entry.live
      BY <1>2, <1>3, <2>1
    <2>2. CASE entry.live
      <3>1. entry.ledger \in Seq(Ids)
        BY <1>3 DEF Entries
      <3>2. PICK l \in Seq(Ids) : /\ l = Remember(entry.ledger, i) /\ Len(l) <= Generations /\ IsInjective(l)
                                  /\ Range(l) \subseteq Range(entry.ledger) \cup {i}
        BY <1>1, <1>3, <3>1, RememberFacts
      <3>3. entry' = [entry EXCEPT !.ledger = l, !.retired = IF retires THEN i ELSE @, !.id = IF retires THEN None ELSE @]
        BY <1>2, <2>2, <3>2
      <3> QED
        BY <1>1, <1>3, <2>2, <3>2, <3>3 DEF Entries
    <2> QED
      BY <2>1, <2>2
  <1>10. Ledger' \subseteq Ledger \cup {i} /\ Ledger \subseteq Ids
    <2>1. Ledger \subseteq Ids
      BY <1>3 DEF Ledger, Range, Entries
    <2> QED
      BY <1>9, <2>1 DEF Ledger
  <1>11. TypeOK' /\ EntryInv'
    <2>1. TypeOK'
      BY <1>6, <1>7, <1>9 DEF InteractionInv, TypeOK, Entries
    <2>2. EntryInv'
      BY <1>1, <1>2, <1>9, IdFacts DEF InteractionInv, EntryInv
    <2> QED
      BY <2>1, <2>2
  <1>12. MintedInv'
    <2>1. None <= minted /\ r.id <= minted
      BY <1>1, <1>5, ChannelAssumption DEF InteractionInv, TypeOK, None
    <2>2. entry'.id <= minted /\ entry'.retired <= minted
      BY <1>1, <1>9, <2>1 DEF InteractionInv, MintedInv
    <2>3. \A q \in Publishers : pub'[q].id <= minted /\ \A k \in 1..Len(pub'[q].todo) : pub'[q].todo[k][2] <= minted
      <3>1. pub'[p].id <= minted /\ \A k \in 1..Len(pub'[p].todo) : pub'[p].todo[k][2] <= minted
        BY <1>4, <1>5, <1>7, <2>1
      <3> QED
        BY <1>8, <3>1 DEF InteractionInv, MintedInv
    <2> QED
      BY <1>1, <1>6, <1>10, <2>2, <2>3 DEF InteractionInv, MintedInv
  <1>13. ClosedInv'
    <2>1. \A j \in closed' \cup Ledger' : closes'[j] > 0
      BY <1>1, <1>6, <1>10 DEF InteractionInv, ClosedInv
    <2>2. ~Suppressed(pub'[p])
      BY <1>5, <1>7 DEF Suppressed
    <2> QED
      BY <1>6, <1>8, <2>1, <2>2 DEF InteractionInv, ClosedInv, Suppressed
  <1>14. Rooted => Rooted'
    BY <1>1, <1>9, IdFacts DEF Rooted
  <1>15. RootInv'
    <2> SUFFICES ASSUME store # "purged" PROVE RootInv'
      BY <1>6 DEF RootInv
    <2>0. Rooted'
      BY <1>1, <1>14
    <2>1. ASSUME NEW q \in Publishers, Displaces(pub'[q])
          PROVE /\ entry'.live /\ entry'.retired # None
                /\ \A k \in 1..Len(pub'[q].todo) : pub'[q].todo[k][2] # entry'.id
      <3>1. \A k \in 1..Len(pub'[q].todo) : pub'[q].todo[k][2] # None
        <4>1. pub'[q].todo \in Seq(Discards)
          BY <1>7 DEF PublishRecords, Discards
        <4>2. \A k \in 1..Len(pub'[q].todo) : pub'[q].todo[k] \in Discards
          BY <4>1
        <4>3. \A d \in Discards : d[2] \in Ids
          BY DEF Discards
        <4> QED
          BY <4>2, <4>3, IdFacts
      <3>2. CASE q = p
        <4>1. retires
          BY <1>2, <1>5, <1>7, <2>1, <3>2 DEF Displaces
        <4> QED
          BY <1>1, <1>2, <1>9, <3>1, <4>1, IdFacts
      <3>3. CASE q # p
        <4>1. /\ entry.live /\ entry.retired # None
              /\ \A k \in 1..Len(pub'[q].todo) : pub'[q].todo[k][2] # entry.id
          BY <1>8, <2>1, <3>3 DEF InteractionInv, RootInv, Displaces
        <4> QED
          BY <1>1, <1>9, <3>1, <4>1, IdFacts
      <3> QED
        BY <3>2, <3>3
    <2> QED
      BY <2>0, <2>1 DEF RootInv, Displaces
  <1>16. TombstoneInv'
    <2>1. ASSUME NEW j \in Ids, MayClose(j)' PROVE MayClose(j)
      <3>1. ASSUME NEW q \in Publishers, pub'[q].id = j, MayCome(pub'[q], store') PROVE MayClose(j)
        <4>1. q # p
          BY <1>5, <1>7, <3>1 DEF MayCome
        <4> QED
          BY <1>6, <1>8, <3>1, <4>1 DEF MayClose
      <3>2. ASSUME store' = "live", entry'.id = j PROVE MayClose(j)
        BY <1>6, <1>9, <3>2, IdFacts DEF MayClose
      <3> QED
        BY <2>1, <3>1, <3>2 DEF MayClose
    <2> QED
      BY <1>6, <2>1 DEF InteractionInv, TombstoneInv
  <1>17. ClosedIsRetired'
    <2> SUFFICES ASSUME store = "live" PROVE ClosedIsRetired'
      BY <1>6 DEF ClosedIsRetired
    <2>1. CASE retires
      BY <1>1, <1>6, <1>9, <1>10, <2>1, IdFacts DEF ClosedIsRetired, InteractionInv, TypeOK
    <2>2. CASE ~retires
      <3>1. entry.id # i
        BY <1>1, <1>2, <2>2 DEF Rooted
      <3>2. Closing(entry.id) => Closing(entry.id)'
        BY <1>8, <1>9, <2>2, <3>1 DEF Closing
      <3> QED
        BY <1>6, <1>9, <1>10, <2>2, <3>1, <3>2 DEF InteractionInv, ClosedIsRetired
    <2> QED
      BY <2>1, <2>2
  <1>18. EntriesHaveHistory'
    <2>1. CASE retires
      BY <1>1, <1>9, <2>1, IdFacts DEF EntriesHaveHistory
    <2>2. CASE ~retires
      <3>1. Unsettled(entry.id) => Unsettled(entry.id)'
        BY <1>1, <1>8, <1>9, <2>2 DEF Unsettled
      <3> QED
        BY <1>9, <2>2, <3>1 DEF InteractionInv, EntriesHaveHistory
    <2> QED
      BY <2>1, <2>2
  <1>19. CountsTrackHistory'
    <2>1. \A j \in Ids, q \in Senders \ Exempt : CountKept(p, r, j, q)
      BY <1>1, <1>5, <1>6 DEF CountKept, Holds
    <2> QED
      BY <1>5, <1>6, <2>1, KeptCounts DEF InteractionInv
  <1>20. SnapshotWhileOpen'
    BY <1>1, <1>6, <1>8, <1>9, IdFacts DEF InteractionInv, SnapshotWhileOpen, OpenCommitted
  <1> QED
    BY <1>7, <1>11, <1>12, <1>13, <1>15, <1>16, <1>17, <1>18, <1>19, <1>20 DEF InteractionInv

-----------------------------------------------------------------------------
(* Deleting the channel: no publish moves. *)

LEMMA StepDeleteChannel ==
  ASSUME InteractionInv, DeleteChannel
  PROVE  InteractionInv'
  <1>1. /\ UNCHANGED <<autonomous, entry, minted, counts, endVotes, closed, snapshots, pub, doomed, begun, persisted, closes, discharged, stranded>>
        /\ store = "live" /\ store' = "deleted"
    BY DEF DeleteChannel, governance, history
  <1>2. TypeOK' /\ EntryInv' /\ PublishInv' /\ PurgeInv'
    BY <1>1 DEF InteractionInv, TypeOK, EntryInv, PublishInv, PublishShape, TodoShape, Exempted, PurgeInv
  <1>3. MintedInv' /\ ClosedInv' /\ RootInv'
    BY <1>1 DEF InteractionInv, MintedInv, ClosedInv, RootInv, Ledger, Range, Rooted
  <1>4. TombstoneInv'
    <2>1. \A j \in Ids : MayClose(j)' => MayClose(j)
      BY <1>1 DEF MayClose, MayCome
    <2> QED
      BY <1>1, <2>1 DEF InteractionInv, TombstoneInv
  <1>5. ClosedIsRetired' /\ SnapshotWhileOpen'
    BY <1>1 DEF ClosedIsRetired, SnapshotWhileOpen
  <1>6. EntriesHaveHistory'
    BY <1>1 DEF InteractionInv, EntriesHaveHistory, Unsettled
  <1>7. CountsTrackHistory'
    BY <1>1 DEF InteractionInv, CountsTrackHistory
  <1> QED
    BY <1>2, <1>3, <1>4, <1>5, <1>6, <1>7 DEF InteractionInv

LEMMA StepPurge ==
  ASSUME InteractionInv, PurgeChannelInteraction
  PROVE  InteractionInv'
  <1>1. /\ UNCHANGED <<autonomous, minted, counts, endVotes, closed, snapshots, pub, begun, persisted, closes, discharged, stranded>>
        /\ store' = "purged" /\ entry' = NoEntry
    BY DEF PurgeChannelInteraction, governance, history
  <1>2. doomed' \in Seq(Discards)
    <2>1. Governance(entry.id) \in Seq(Discards) /\ Governance(entry.retired) \in Seq(Discards)
      BY GovernanceFacts DEF InteractionInv, TypeOK
    <2> QED
      BY <2>1 DEF PurgeChannelInteraction
  <1>3. /\ entry'.live = FALSE /\ entry'.id = None /\ entry'.retired = None /\ entry'.ledger = <<>> /\ Ledger' = {}
        /\ entry' \in Entries
    BY <1>1 DEF NoEntry, Ledger, Range, Entries
  <1>4. TypeOK' /\ EntryInv'
    <2>1. TypeOK'
      <3>1. Len(entry'.ledger) <= Generations /\ IsInjective(entry'.ledger)
        BY <1>3, ChannelAssumption DEF IsInjective
      <3> QED
        BY <1>1, <1>2, <1>3, <3>1, SMTT(30) DEF InteractionInv, TypeOK, Entries, Discards
    <2>2. EntryInv'
      BY <1>1, <1>3, ChannelAssumption, SMTT(30) DEF InteractionInv, EntryInv, IsInjective
    <2> QED
      BY <2>1, <2>2
  <1>5. PublishInv' /\ PurgeInv'
    BY <1>1 DEF InteractionInv, PublishInv, PublishShape, TodoShape, Exempted, PurgeInv
  <1>6. MintedInv'
    <2>1. None <= minted
      BY ChannelAssumption DEF InteractionInv, TypeOK, None
    <2> QED
      BY <1>1, <1>3, <2>1 DEF InteractionInv, MintedInv
  <1>7. ClosedInv' /\ RootInv'
    BY <1>1, <1>3 DEF InteractionInv, ClosedInv, RootInv
  <1>8. TombstoneInv'
    <2>1. \A j \in Ids : MayClose(j)' => MayClose(j)
      BY <1>1 DEF MayClose, MayCome
    <2> QED
      BY <1>1, <2>1 DEF InteractionInv, TombstoneInv
  <1>9. ClosedIsRetired' /\ SnapshotWhileOpen' /\ EntriesHaveHistory'
    BY <1>1, <1>3 DEF ClosedIsRetired, SnapshotWhileOpen, EntriesHaveHistory
  <1>10. CountsTrackHistory'
    BY <1>1 DEF InteractionInv, CountsTrackHistory
  <1> QED
    BY <1>4, <1>5, <1>6, <1>7, <1>8, <1>9, <1>10 DEF InteractionInv

\* By then the channel is gone: a publish that may still close what is discarded
\* uses it, and the discard strands it.
LEMMA StepPurgeDiscard ==
  ASSUME InteractionInv, PurgeDiscard
  PROVE  InteractionInv'
  <1> DEFINE what == Head(doomed)[1]
             i == Head(doomed)[2]
  <1>1. /\ UNCHANGED <<autonomous, entry, minted, pub, store, begun, persisted, closes>> /\ doomed # <<>> /\ store = "purged"
        /\ doomed' = Tail(doomed) /\ Discard(what, i) /\ discharged' = discharged \cup {i}
        /\ stranded' = stranded \cup (IF InFlight(i) THEN {i} ELSE {})
    BY DEF PurgeDiscard, InteractionInv, PurgeInv
  <1>2. what \in {"replies", "votes", "budget"} /\ i \in Ids /\ doomed' \in Seq(Discards)
    <2>1. doomed \in Seq(Discards)
      BY DEF InteractionInv, TypeOK, Discards
    <2>2. Head(doomed) \in Discards /\ Tail(doomed) \in Seq(Discards)
      BY <1>1, <2>1
    <2> QED
      BY <1>1, <2>2 DEF Discards
  <1>3. /\ counts' \in [Ids -> [Senders -> 0..ReplyBudget]]
        /\ endVotes' \in [Ids -> [turn : Nat, stamp : [Senders -> Nat]]]
        /\ closed' \subseteq closed /\ snapshots' \subseteq snapshots
        /\ \A j \in Ids : j # i => counts'[j] = counts[j] /\ (j \in closed => j \in closed')
    BY <1>1, <1>2, DiscardFacts DEF InteractionInv
  <1>4. TypeOK' /\ EntryInv'
    <2>1. discharged' \subseteq Ids /\ stranded' \subseteq Ids
      BY <1>1, <1>2 DEF InteractionInv, TypeOK
    <2>2. closed' \subseteq Ids /\ snapshots' \subseteq Ids
      BY <1>3 DEF InteractionInv, TypeOK
    <2> QED
      BY <1>1, <1>2, <1>3, <2>1, <2>2 DEF InteractionInv, TypeOK, EntryInv, Discards
  <1>5. PublishInv' /\ PurgeInv'
    BY <1>1 DEF InteractionInv, PublishInv, PublishShape, TodoShape, Exempted, PurgeInv
  <1>6. MintedInv' /\ ClosedInv' /\ RootInv'
    BY <1>1, <1>3 DEF InteractionInv, MintedInv, ClosedInv, RootInv, Ledger, Range
  <1>7. TombstoneInv'
    <2> SUFFICES ASSUME NEW j \in Ids \ stranded' PROVE closes[j] <= 1 /\ (closes[j] > 0 /\ j \notin closed' => ~MayClose(j)')
      BY <1>1 DEF TombstoneInv
    <2>1. MayClose(j)' => MayClose(j) /\ InFlight(j)
      BY <1>1 DEF MayClose, MayCome, InFlight
    <2>2. CASE j = i
      BY <1>1, <2>1, <2>2 DEF InteractionInv, TombstoneInv
    <2>3. CASE j # i
      BY <1>1, <1>3, <2>1, <2>3 DEF InteractionInv, TombstoneInv
    <2> QED
      BY <2>2, <2>3
  <1>8. ClosedIsRetired' /\ SnapshotWhileOpen'
    BY <1>1 DEF ClosedIsRetired, SnapshotWhileOpen
  <1>9. EntriesHaveHistory'
    BY <1>1 DEF InteractionInv, EntriesHaveHistory, Unsettled
  <1>10. CountsTrackHistory'
    <2> SUFFICES ASSUME ReplyBudget > 0, NEW j \in Ids, NEW s \in Senders \ Exempt, closes[j] = 0, j \notin discharged'
                 PROVE counts'[j][s] = persisted[j][s] + Cardinality(Holders(j, s))
      BY <1>1 DEF CountsTrackHistory, Holders, Holds
    <2>1. j # i /\ j \notin discharged
      BY <1>1
    <2>2. counts[j][s] = persisted[j][s] + Cardinality(Holders(j, s))
      BY <2>1, CountsMeans DEF InteractionInv
    <2> QED
      BY <1>3, <2>1, <2>2
  <1> QED
    BY <1>4, <1>5, <1>6, <1>7, <1>8, <1>9, <1>10 DEF InteractionInv

-----------------------------------------------------------------------------
(* The theorems. *)

LEMMA InteractionStarts == Init => InteractionInv
  <1> SUFFICES ASSUME Init PROVE InteractionInv
    OBVIOUS
  <1>1. /\ entry.live = FALSE /\ entry.id = None /\ entry.retired = None /\ entry.ledger = <<>> /\ Ledger = {}
        /\ entry \in Entries
    BY DEF Init, NoEntry, Ledger, Range, Entries
  <1>2. Idle.pc = "idle" /\ Idle.id = None /\ ~Idle.latched /\ Idle.todo = <<>> /\ Idle.then = "idle" /\ ~Idle.reserved
    BY DEF Idle
  <1>3. TypeOK
    <2>1. NoReplies \in [Senders -> 0..ReplyBudget] /\ NoReplies \in [Senders -> Nat]
      BY ChannelAssumption DEF NoReplies
    <2>2. NoVotes \in [turn : Nat, stamp : [Senders -> Nat]]
      BY DEF NoVotes
    <2>3. doomed \in Seq(Discards)
      BY DEF Init
    <2>4. autonomous \in BOOLEAN /\ minted \in 0..MaxInteractions /\ begun \in 0..MaxPublishes
      BY ChannelAssumption DEF Init
    <2>5. counts \in [Ids -> [Senders -> 0..ReplyBudget]] /\ persisted \in [Ids -> [Senders -> Nat]]
      BY <2>1 DEF Init
    <2>6. endVotes \in [Ids -> [turn : Nat, stamp : [Senders -> Nat]]]
      BY <2>2 DEF Init
    <2>7. pub \in [Publishers -> PublishRecords]
      BY IdleIsTyped DEF Init
    <2>8. Len(entry.ledger) <= Generations /\ IsInjective(entry.ledger)
      BY <1>1, ChannelAssumption DEF IsInjective
    <2>9. /\ closed \subseteq Ids /\ snapshots \subseteq Ids /\ store \in {"live", "deleted", "purged"}
          /\ closes \in [Ids -> Nat] /\ discharged \subseteq Ids /\ stranded \subseteq Ids
      BY DEF Init
    <2> QED
      BY <1>1, <2>3, <2>4, <2>5, <2>6, <2>7, <2>8, <2>9 DEF TypeOK, Entries, Discards
  <1>4. EntryInv /\ PurgeInv
    BY <1>1 DEF Init, EntryInv, PurgeInv
  <1>5. PublishInv
    BY IdleIsTyped DEF Init, PublishInv
  <1>6. MintedInv
    BY <1>1, <1>2 DEF Init, MintedInv, None
  <1>7. ClosedInv /\ RootInv
    BY <1>1, <1>2 DEF Init, ClosedInv, RootInv, NoReplies
  <1>8. TombstoneInv /\ ClosedIsRetired
    BY <1>1, IdFacts DEF Init, TombstoneInv, ClosedIsRetired
  <1>9. EntriesHaveHistory /\ SnapshotWhileOpen
    BY <1>1 DEF EntriesHaveHistory, SnapshotWhileOpen, OpenCommitted
  <1>10. CountsTrackHistory
    <2> SUFFICES ASSUME NEW i \in Ids, NEW s \in Senders \ Exempt
                 PROVE counts[i][s] = persisted[i][s] + Cardinality(Holders(i, s))
      BY CountsMeans
    <2>1. Holders(i, s) = {}
      BY <1>2 DEF Init, Holders, Holds
    <2>2. Cardinality(Holders(i, s)) = 0
      BY <2>1, FS_EmptySet
    <2> QED
      BY <2>2 DEF Init, NoReplies
  <1> QED
    BY <1>3, <1>4, <1>5, <1>6, <1>7, <1>8, <1>9, <1>10 DEF InteractionInv

LEMMA InteractionStutters ==
  ASSUME InteractionInv, UNCHANGED vars
  PROVE  InteractionInv'
  <1>1. /\ UNCHANGED <<autonomous, entry, minted, counts, endVotes, closed, snapshots, pub, doomed, begun>>
        /\ UNCHANGED <<store, persisted, closes, discharged, stranded>>
    BY DEF vars
  <1>2. TypeOK' /\ EntryInv' /\ PublishInv' /\ PurgeInv'
    BY <1>1 DEF InteractionInv, TypeOK, EntryInv, PublishInv, PublishShape, TodoShape, Exempted, PurgeInv
  <1>3. MintedInv' /\ ClosedInv' /\ RootInv'
    BY <1>1 DEF InteractionInv, MintedInv, ClosedInv, RootInv, Ledger, Range, Rooted
  <1>4. TombstoneInv'
    <2>1. \A j \in Ids : MayClose(j)' => MayClose(j)
      BY <1>1 DEF MayClose, MayCome
    <2> QED
      BY <1>1, <2>1 DEF InteractionInv, TombstoneInv
  <1>5. ClosedIsRetired' /\ SnapshotWhileOpen'
    BY <1>1 DEF InteractionInv, ClosedIsRetired, Closing, SnapshotWhileOpen, OpenCommitted, Ledger, Range
  <1>6. EntriesHaveHistory'
    BY <1>1 DEF InteractionInv, EntriesHaveHistory, Unsettled
  <1>7. CountsTrackHistory'
    BY <1>1 DEF InteractionInv, CountsTrackHistory
  <1> QED
    BY <1>2, <1>3, <1>4, <1>5, <1>6, <1>7 DEF InteractionInv

LEMMA InteractionSteps ==
  ASSUME InteractionInv, Next
  PROVE  InteractionInv'
  <1>1. ASSUME NEW p \in Publishers, Publish(p) PROVE InteractionInv'
    <2>1. ASSUME NEW s \in Senders, NEW v \in BOOLEAN, NEW claim \in Ids, Latch(p, s, v, claim) PROVE InteractionInv'
      BY <2>1, StepLatch
    <2>2. ASSUME NEW s \in Senders, NEW v \in BOOLEAN, NEW idle \in BOOLEAN, Resolve(p, s, v, idle) PROVE InteractionInv'
      BY <2>2, StepResolve
    <2>3. CASE Discharge(p)
      BY <2>3, StepDischargeOwn, StepDischargeDisplaced
    <2>4. CASE Reserve(p) \/ Persist(p) \/ Release(p)
      BY <2>4, StepReserve, StepPersist, StepRelease
    <2>5. CASE SettleRejected(p) \/ SettlePersisted(p) \/ Snapshot(p)
      BY <2>5, StepSettleRejected, StepSettlePersisted, StepSnapshot
    <2>6. CASE EndVote(p) \/ DropPostClose(p) \/ BoundedClose(p) \/ MarkInteractionClosed(p)
      BY <2>6, StepEndVote, StepDropPostClose, StepBoundedClose, StepMark
    <2>7. CASE InRoundReply(p) \/ CloseOnCascadeBound(p) \/ FloorRound(p)
      BY <2>7, StepInRoundReply
    <2>8. ASSUME NEW cost \in BOOLEAN, MaybeBoundedClose(p, cost) PROVE InteractionInv'
      BY <2>8, StepMaybeBoundedClose
    <2> QED
      BY <1>1, <2>1, <2>2, <2>3, <2>4, <2>5, <2>6, <2>7, <2>8 DEF Publish
  <1> QED
    BY <1>1, StepDeleteChannel, StepPurge, StepPurgeDiscard DEF Next

\* The inductive invariant of the router's interactions: the entry, the
\* publishes in progress, the tombstones and the counters agree at every step.
THEOREM InteractionInvariant == Spec => []InteractionInv
  <1>1. InteractionInv /\ [Next]_vars => InteractionInv'
    BY InteractionSteps, InteractionStutters
  <1> QED
    BY <1>1, InteractionStarts, PTL DEF Spec

\* However the end-vote quorum, the bounded closes and the cascade cap race, of
\* any number of publishers one closes the interaction, and it stays closed: it
\* is not the open one again (tombstoneInteractionLocked, markInteractionClosed).
THEOREM InteractionsCloseOnce == Spec => []ClosesAreSingle
  <1>1. InteractionInv => ClosesAreSingle
    BY DEF InteractionInv, ClosesAreSingle, TombstoneInv, ClosedOnceWhileTracked
  <1> QED
    BY <1>1, InteractionInvariant, PTL

\* The resolver's entry, the reply counters and the ceiling snapshots agree with
\* the channel's stored history at every step, for any number of publishers,
\* rejected ones included (settleInteraction, publishWithReplyBudget).
THEOREM TrackingAlwaysMatches == Spec => []TrackingMatchesHistory
  <1>1. InteractionInv => HistoryHasEntry
    <2> SUFFICES ASSUME InteractionInv, store = "live", NEW i \in Ids, NEW s \in Senders, persisted[i][s] > 0
                 PROVE entry.live \/ Unsettled(i)
      BY DEF HistoryHasEntry
    <2>1. Rooted \/ \E p \in Publishers : pub[p].pc = "persisted" /\ pub[p].id = i
      BY DEF InteractionInv, RootInv
    <2>2. \A p \in Publishers : pub[p].pc = "persisted" => ~pub[p].latched
      BY DEF InteractionInv, PublishInv, PublishShape
    <2> QED
      BY <2>1, <2>2 DEF Rooted, Unsettled
  <1>2. InteractionInv => TrackingMatchesHistory
    BY <1>1 DEF InteractionInv, TrackingMatchesHistory
  <1> QED
    BY <1>2, InteractionInvariant, PTL

-----------------------------------------------------------------------------
(* Nothing leaks: what the router keeps of an interaction is covered by a  *)
(* discard that is still to come.                                          *)

\* A discard of what is kept of i is among those to be made.
Lists(todo, what, i) == \E k \in 1..Len(todo) : todo[k] = <<what, i>>

\* The discards of an interaction come in order, whoever makes them.
Ordered(todo) ==
  \A k \in 1..Len(todo) :
    /\ todo[k][1] = "replies" => \E m \in k + 1..Len(todo) : todo[m] = <<"votes", todo[k][2]>>
    /\ todo[k][1] = "votes" => \E m \in k + 1..Len(todo) : todo[m] = <<"budget", todo[k][2]>>

\* The entry will discard i once it has retired it, or i was left behind.
Held(i) == i = entry.retired \/ (i = entry.id /\ entry.committed) \/ i \in stranded
Pending(what, i) ==
  \/ \E p \in Publishers : pub[p].then # "mark" /\ Lists(pub[p].todo, what, i)
  \/ Lists(doomed, what, i)
Covered(what, i) == Held(i) \/ Pending(what, i)

\* A settled publish that may still add to what is kept of its interaction, and
\* one that has just taken a reply's slot for good.
Uses(r) == r.pc \in {"snapshot", "endvote", "fanout", "tail", "bound"}
Parks(r, i) == r.id = i /\ r.pc \in {"persisted", "postclose"}

OrderInv == Ordered(doomed) /\ \A p \in Publishers : pub[p].then # "mark" => Ordered(pub[p].todo)
UseInv == \A p \in Publishers : Uses(pub[p]) => Covered("replies", pub[p].id)
VotesInv == \A i \in Ids : endVotes[i].turn > 0 \/ i \in closed => Covered("votes", i)
BudgetInv == \A i \in snapshots : Covered("budget", i)
SlotsInv ==
  \A i \in Ids, s \in Senders :
    \/ Covered("replies", i) \/ \E p \in Publishers : Parks(pub[p], i)
    \/ counts[i][s] <= Cardinality(Holders(i, s))

ReachInv == OrderInv /\ UseInv /\ VotesInv /\ BudgetInv /\ SlotsInv

LEMMA OrderedLists ==
  ASSUME NEW todo \in Seq(Discards), Ordered(todo), NEW i \in Ids
  PROVE  /\ Lists(todo, "replies", i) => Lists(todo, "votes", i)
         /\ Lists(todo, "votes", i) => Lists(todo, "budget", i)
  <1>1. ASSUME Lists(todo, "replies", i) PROVE Lists(todo, "votes", i)
    <2>1. PICK k \in 1..Len(todo) : todo[k] = <<"replies", i>>
      BY <1>1 DEF Lists
    <2>2. todo[k][1] = "replies" /\ todo[k][2] = i
      BY <2>1
    <2>3. PICK m \in k + 1..Len(todo) : todo[m] = <<"votes", i>>
      BY <2>2 DEF Ordered
    <2> QED
      BY <2>1, <2>3 DEF Lists
  <1>2. ASSUME Lists(todo, "votes", i) PROVE Lists(todo, "budget", i)
    <2>1. PICK k \in 1..Len(todo) : todo[k] = <<"votes", i>>
      BY <1>2 DEF Lists
    <2>2. todo[k][1] = "votes" /\ todo[k][2] = i
      BY <2>1
    <2>3. PICK m \in k + 1..Len(todo) : todo[m] = <<"budget", i>>
      BY <2>2 DEF Ordered
    <2> QED
      BY <2>1, <2>3 DEF Lists
  <1> QED
    BY <1>1, <1>2

LEMMA OrderedTail ==
  ASSUME NEW todo \in Seq(Discards), todo # <<>>, Ordered(todo)
  PROVE  /\ Ordered(Tail(todo))
         /\ \A what, i : Lists(todo, what, i) => Lists(Tail(todo), what, i) \/ Head(todo) = <<what, i>>
         /\ \A what, i : Lists(Tail(todo), what, i) => Lists(todo, what, i)
  <1> DEFINE rest == Tail(todo)
  <1>0. rest \in Seq(Discards)
    OBVIOUS
  <1>1. PICK t \in Seq(Discards) : t = rest
    BY <1>0
  <1>2. /\ Len(t) = Len(todo) - 1 /\ Len(todo) \in Nat \ {0} /\ Head(todo) = todo[1]
        /\ \A k \in 1..Len(t) : t[k] = todo[k + 1]
    BY <1>1
  <1>3. Ordered(t)
    <2> SUFFICES ASSUME NEW k \in 1..Len(t)
                 PROVE /\ t[k][1] = "replies" => \E m \in k + 1..Len(t) : t[m] = <<"votes", t[k][2]>>
                       /\ t[k][1] = "votes" => \E m \in k + 1..Len(t) : t[m] = <<"budget", t[k][2]>>
      BY DEF Ordered
    <2>1. k + 1 \in 1..Len(todo) /\ t[k] = todo[k + 1]
      BY <1>2
    <2>2. ASSUME NEW w \in {"votes", "budget"}, NEW m \in (k + 1) + 1..Len(todo), todo[m] = <<w, t[k][2]>>
          PROVE  \E n \in k + 1..Len(t) : t[n] = <<w, t[k][2]>>
      <3>1. m - 1 \in k + 1..Len(t) /\ m - 1 \in 1..Len(t) /\ (m - 1) + 1 = m
        BY <1>2, <2>2
      <3> QED
        BY <1>2, <2>2, <3>1
    <2> QED
      BY <2>1, <2>2 DEF Ordered
  <1>4. ASSUME NEW what, NEW i, Lists(todo, what, i) PROVE Lists(t, what, i) \/ Head(todo) = <<what, i>>
    <2>1. PICK k \in 1..Len(todo) : todo[k] = <<what, i>>
      BY <1>4 DEF Lists
    <2>2. CASE k = 1
      BY <1>2, <2>1, <2>2
    <2>3. CASE k # 1
      <3>1. k - 1 \in 1..Len(t) /\ (k - 1) + 1 = k
        BY <1>2, <2>3
      <3> QED
        BY <1>2, <2>1, <3>1 DEF Lists
    <2> QED
      BY <2>2, <2>3
  <1>5. ASSUME NEW what, NEW i, Lists(t, what, i) PROVE Lists(todo, what, i)
    <2>1. PICK k \in 1..Len(t) : t[k] = <<what, i>>
      BY <1>5 DEF Lists
    <2>2. k + 1 \in 1..Len(todo)
      BY <1>2
    <2> QED
      BY <1>2, <2>1, <2>2 DEF Lists
  <1> QED
    BY <1>1, <1>3, <1>4, <1>5

LEMMA OrderedGovernance ==
  ASSUME NEW i \in Ids \cup {None}
  PROVE  /\ Ordered(Governance(i))
         /\ i \in Ids => \A what \in {"replies", "votes", "budget"} : Lists(Governance(i), what, i)
  <1>1. CASE i = None
    BY <1>1, IdFacts DEF Governance, Ordered
  <1>2. CASE i \in Ids
    <2>1. Governance(i) = <<<<"replies", i>>, <<"votes", i>>, <<"budget", i>>>>
      BY <1>2, IdFacts DEF Governance
    <2>2. PICK g : g = Governance(i)
      OBVIOUS
    <2>3. Len(g) = 3 /\ g[1] = <<"replies", i>> /\ g[2] = <<"votes", i>> /\ g[3] = <<"budget", i>>
      BY <2>1, <2>2
    <2>4. Ordered(g)
      <3> SUFFICES ASSUME NEW k \in 1..3
                   PROVE /\ g[k][1] = "replies" => \E m \in k + 1..3 : g[m] = <<"votes", g[k][2]>>
                         /\ g[k][1] = "votes" => \E m \in k + 1..3 : g[m] = <<"budget", g[k][2]>>
        BY <2>3 DEF Ordered
      <3> QED
        BY <2>3
    <2>5. \A what \in {"replies", "votes", "budget"} : Lists(g, what, i)
      BY <2>3 DEF Lists
    <2> QED
      BY <2>2, <2>4, <2>5
  <1> QED
    BY <1>1, <1>2

LEMMA OrderedJoin ==
  ASSUME NEW a \in Seq(Discards), NEW b \in Seq(Discards), Ordered(a), Ordered(b)
  PROVE  /\ Ordered(a \o b)
         /\ \A what, i : Lists(a, what, i) \/ Lists(b, what, i) => Lists(a \o b, what, i)
  <1> DEFINE both == a \o b
  <1>0. both \in Seq(Discards)
    OBVIOUS
  <1>1. PICK c \in Seq(Discards) : c = both
    BY <1>0
  <1>2. /\ Len(c) = Len(a) + Len(b) /\ Len(a) \in Nat /\ Len(b) \in Nat
        /\ \A k \in 1..Len(a) : c[k] = a[k]
        /\ \A k \in 1..Len(b) : c[Len(a) + k] = b[k]
    BY <1>1
  <1>3. \A k \in 1..Len(c) : k \in 1..Len(a) \/ (k - Len(a) \in 1..Len(b) /\ c[k] = b[k - Len(a)])
    <2> SUFFICES ASSUME NEW k \in 1..Len(c), k \notin 1..Len(a)
                 PROVE k - Len(a) \in 1..Len(b) /\ c[k] = b[k - Len(a)]
      OBVIOUS
    <2>1. k - Len(a) \in 1..Len(b) /\ Len(a) + (k - Len(a)) = k
      BY <1>2
    <2> QED
      BY <1>2, <2>1
  <1>4. Ordered(c)
    <2> SUFFICES ASSUME NEW k \in 1..Len(c)
                 PROVE /\ c[k][1] = "replies" => \E m \in k + 1..Len(c) : c[m] = <<"votes", c[k][2]>>
                       /\ c[k][1] = "votes" => \E m \in k + 1..Len(c) : c[m] = <<"budget", c[k][2]>>
      BY DEF Ordered
    <2>1. CASE k \in 1..Len(a)
      <3>1. \A m \in k + 1..Len(a) : m \in k + 1..Len(c) /\ c[m] = a[m]
        BY <1>2
      <3>2. c[k] = a[k]
        BY <1>2, <2>1
      <3> QED
        BY <2>1, <3>1, <3>2, ZenonT(40) DEF Ordered
    <2>2. CASE k \notin 1..Len(a)
      <3>1. k - Len(a) \in 1..Len(b) /\ c[k] = b[k - Len(a)]
        BY <1>3, <2>2
      <3>2. \A m \in (k - Len(a)) + 1..Len(b) : Len(a) + m \in k + 1..Len(c) /\ c[Len(a) + m] = b[m]
        BY <1>2, <3>1
      <3> QED
        BY <3>1, <3>2, ZenonT(60) DEF Ordered
    <2> QED
      BY <2>1, <2>2
  <1>5. ASSUME NEW what, NEW i, Lists(a, what, i) \/ Lists(b, what, i) PROVE Lists(c, what, i)
    <2>1. CASE Lists(a, what, i)
      <3>1. PICK k \in 1..Len(a) : a[k] = <<what, i>>
        BY <2>1 DEF Lists
      <3>2. k \in 1..Len(c)
        BY <1>2
      <3> QED
        BY <1>2, <3>1, <3>2 DEF Lists
    <2>2. CASE Lists(b, what, i)
      <3>1. PICK k \in 1..Len(b) : b[k] = <<what, i>>
        BY <2>2 DEF Lists
      <3>2. Len(a) + k \in 1..Len(c)
        BY <1>2
      <3> QED
        BY <1>2, <3>1, <3>2 DEF Lists
    <2> QED
      BY <1>5, <2>1, <2>2
  <1> QED
    BY <1>1, <1>4, <1>5

Kinds == {"replies", "votes", "budget"}

\* What a settled publish adds to is covered in full.
LEMMA UseFacts ==
  ASSUME InteractionInv, ReachInv
  PROVE  /\ \A i \in Ids : Covered("replies", i) => Covered("votes", i) /\ Covered("budget", i)
         /\ \A p \in Publishers : Uses(pub[p]) => pub[p].id \in Ids /\ \A what \in Kinds : Covered(what, pub[p].id)
  <1>1. ASSUME NEW i \in Ids, Covered("replies", i) PROVE Covered("votes", i) /\ Covered("budget", i)
    <2>1. CASE Held(i)
      BY <2>1 DEF Covered
    <2>2. CASE Lists(doomed, "replies", i)
      <3>1. doomed \in Seq(Discards) /\ Ordered(doomed)
        BY DEF InteractionInv, TypeOK, Discards, ReachInv, OrderInv
      <3> QED
        BY <2>2, <3>1, OrderedLists DEF Covered, Pending
    <2>3. CASE \E p \in Publishers : pub[p].then # "mark" /\ Lists(pub[p].todo, "replies", i)
      <3>1. PICK p \in Publishers : pub[p].then # "mark" /\ Lists(pub[p].todo, "replies", i)
        BY <2>3
      <3>2. pub[p].todo \in Seq(Discards)
        BY PublishFacts DEF PublishRecords, Discards
      <3>3. Ordered(pub[p].todo)
        BY <3>1 DEF ReachInv, OrderInv
      <3>4. Lists(pub[p].todo, "votes", i) /\ Lists(pub[p].todo, "budget", i)
        BY <3>1, <3>2, <3>3, OrderedLists
      <3> QED
        BY <3>1, <3>4 DEF Covered, Pending
    <2> QED
      BY <1>1, <2>1, <2>2, <2>3 DEF Covered, Pending
  <1>2. ASSUME NEW p \in Publishers, Uses(pub[p]) PROVE pub[p].id \in Ids /\ \A what \in Kinds : Covered(what, pub[p].id)
    <2>1. pub[p].id \in Ids
      BY <1>2, PublishFacts DEF Uses
    <2>2. Covered("replies", pub[p].id)
      BY <1>2 DEF ReachInv, UseInv
    <2> QED
      BY <1>1, <2>1, <2>2 DEF Kinds
  <1> QED
    BY <1>1, <1>2

\* The ways a step may move a counter against the slots held.
SlotKept(p, r, i, s) ==
  \/ counts'[i][s] = 0
  \/ counts'[i][s] = counts[i][s] /\ (Holds(pub[p], i, s) => Holds(r, i, s))
  \/ counts'[i][s] = counts[i][s] + 1 /\ ~Holds(pub[p], i, s) /\ Holds(r, i, s)
  \/ counts'[i][s] = counts[i][s] - 1

LEMMA KeptSlots ==
  ASSUME InteractionInv, InteractionInv', NEW p \in Publishers, NEW r, pub' = [pub EXCEPT ![p] = r],
         NEW i \in Ids, NEW s \in Senders, SlotKept(p, r, i, s), counts[i][s] <= Cardinality(Holders(i, s))
  PROVE  counts'[i][s] <= Cardinality(Holders(i, s)')
  <1>1. counts[i][s] \in Nat /\ counts'[i][s] \in Nat
    BY ChannelAssumption DEF InteractionInv, TypeOK
  <1>2. Moves(p, r)
    <2>1. pub'[p] = r
      BY DEF InteractionInv, TypeOK
    <2>2. pub'[p] \in PublishRecords
      BY DEF InteractionInv, TypeOK
    <2>3. PublishShape(pub'[p])
      BY DEF InteractionInv, PublishInv, PublishShape, TodoShape, Exempted
    <2> QED
      BY <2>1, <2>2, <2>3 DEF Moves
  <1>3. TypeOK /\ PublishInv
    BY DEF InteractionInv
  <1>4. /\ Cardinality(Holders(i, s)) \in Nat /\ Cardinality(Holders(i, s)') \in Nat
        /\ (Holds(pub[p], i, s) <=> Holds(r, i, s)) => Cardinality(Holders(i, s)') = Cardinality(Holders(i, s))
        /\ ~Holds(pub[p], i, s) /\ Holds(r, i, s) => Cardinality(Holders(i, s)') = Cardinality(Holders(i, s)) + 1
        /\ Holds(pub[p], i, s) /\ ~Holds(r, i, s) => Cardinality(Holders(i, s)) = Cardinality(Holders(i, s)') + 1
    BY <1>2, <1>3, HoldersMove
  <1> QED
    BY <1>1, <1>4 DEF SlotKept

\* A step of a publish that discards no displaced retiree.
LEMMA ReachKept ==
  ASSUME InteractionInv, InteractionInv', ReachInv, NEW p \in Publishers, NEW r, pub' = [pub EXCEPT ![p] = r],
         doomed' = doomed, pub[p].then = "mark" \/ pub[p].todo = <<>>,
         r.then # "mark" => Ordered(r.todo),
         \A i \in Ids : Held(i) => Held(i)' \/ (r.then # "mark" /\ \A what \in Kinds : Lists(r.todo, what, i)),
         Uses(r) => Held(r.id)' \/ (Uses(pub[p]) /\ r.id = pub[p].id),
         \A i \in Ids : endVotes'[i].turn > 0 \/ i \in closed' =>
            endVotes[i].turn > 0 \/ i \in closed \/ (Uses(pub[p]) /\ i = pub[p].id),
         \A i \in snapshots' : i \in snapshots \/ (Uses(pub[p]) /\ i = pub[p].id),
         \A i \in Ids, s \in Senders :
            Held(i)' \/ Parks(r, i) \/ counts'[i][s] = 0 \/ (~Parks(pub[p], i) /\ SlotKept(p, r, i, s))
  PROVE  ReachInv'
  <1>1. pub'[p] = r /\ \A q \in Publishers : q # p => pub'[q] = pub[q]
    BY DEF InteractionInv, TypeOK
  <1>2. ASSUME NEW what \in Kinds, NEW i \in Ids, Covered(what, i) PROVE Covered(what, i)'
    <2>1. CASE Held(i)
      <3>1. CASE Held(i)'
        BY <3>1 DEF Covered
      <3>2. CASE r.then # "mark" /\ Lists(r.todo, what, i)
        BY <1>1, <3>2 DEF Covered, Pending, Lists
      <3> QED
        BY <2>1, <3>1, <3>2
    <2>2. CASE Lists(doomed, what, i)
      BY <2>2 DEF Covered, Pending, Lists
    <2>3. CASE \E q \in Publishers : pub[q].then # "mark" /\ Lists(pub[q].todo, what, i)
      <3>1. PICK q \in Publishers : pub[q].then # "mark" /\ Lists(pub[q].todo, what, i)
        BY <2>3
      <3>2. q # p
        BY <3>1 DEF Lists
      <3> QED
        BY <1>1, <3>1, <3>2 DEF Covered, Pending, Lists
    <2> QED
      BY <1>2, <2>1, <2>2, <2>3 DEF Covered, Pending
  <1>3. ASSUME NEW what \in Kinds, Uses(pub[p]) PROVE Covered(what, pub[p].id) /\ pub[p].id \in Ids
    BY <1>3, UseFacts
  <1>4. OrderInv'
    <2>1. ASSUME NEW q \in Publishers, NEW x, x = pub'[q], x.then # "mark" PROVE Ordered(x.todo)
      BY <1>1, <2>1 DEF ReachInv, OrderInv
    <2>2. Ordered(doomed')
      BY DEF ReachInv, OrderInv
    <2>3. \A q \in Publishers : pub'[q].then # "mark" => Ordered(pub'[q].todo)
      BY <2>1
    <2> QED
      BY <2>2, <2>3, Zenon DEF OrderInv, Ordered
  <1>5. UseInv'
    <2> SUFFICES ASSUME NEW q \in Publishers, NEW x, x = pub'[q], Uses(x) PROVE Covered("replies", x.id)'
      BY DEF UseInv, Uses, Covered, Held, Pending, Lists
    <2>1. CASE q = p /\ Held(r.id)'
      <3>1. x = r
        BY <1>1, <2>1
      <3> QED
        BY <2>1, <3>1 DEF Covered, Held
    <2>2. ASSUME NEW y \in Publishers, Uses(pub[y]), x.id = pub[y].id PROVE Covered("replies", x.id)'
      <3>1. PICK i \in Ids : i = pub[y].id
        BY <2>2, UseFacts
      <3>2. Covered("replies", i)
        BY <2>2, <3>1, UseFacts DEF Kinds
      <3>3. Covered("replies", i)'
        BY <1>2, <3>2 DEF Kinds
      <3> QED
        BY <2>2, <3>1, <3>3 DEF Covered, Held, Pending, Lists
    <2> QED
      BY <1>1, <2>1, <2>2
  <1>6. VotesInv'
    <2> SUFFICES ASSUME NEW i \in Ids, endVotes'[i].turn > 0 \/ i \in closed' PROVE Covered("votes", i)'
      BY DEF VotesInv
    <2>1. Covered("votes", i)
      BY <1>3 DEF ReachInv, VotesInv, Kinds
    <2> QED
      BY <1>2, <2>1 DEF Kinds
  <1>7. BudgetInv'
    <2> SUFFICES ASSUME NEW i \in snapshots' PROVE Covered("budget", i)'
      BY DEF BudgetInv
    <2>1. Covered("budget", i) /\ i \in Ids
      BY <1>3 DEF ReachInv, BudgetInv, Kinds, InteractionInv, TypeOK
    <2> QED
      BY <1>2, <2>1 DEF Kinds
  <1>8. SlotsInv'
    <2> SUFFICES ASSUME NEW i \in Ids, NEW s \in Senders, ~Covered("replies", i)', ~\E q \in Publishers : Parks(pub'[q], i)
                 PROVE counts'[i][s] <= Cardinality(Holders(i, s)')
      BY DEF SlotsInv, Parks
    <2>1. ~Covered("replies", i)
      BY <1>2 DEF Kinds
    <2>2. ~Held(i)' /\ ~Parks(r, i)
      BY <1>1 DEF Covered
    <2>3. CASE counts'[i][s] = 0
      <3>1. IsFiniteSet(Holders(i, s)')
        BY ChannelAssumption, FS_Subset DEF Holders
      <3>2. Cardinality(Holders(i, s)') \in Nat
        BY <3>1, FS_CardinalityType
      <3> QED
        BY <2>3, <3>2
    <2>4. CASE ~Parks(pub[p], i) /\ SlotKept(p, r, i, s)
      <3>1. ~\E q \in Publishers : Parks(pub[q], i)
        BY <1>1, <2>4
      <3>2. counts[i][s] <= Cardinality(Holders(i, s))
        BY <2>1, <3>1 DEF ReachInv, SlotsInv
      <3> QED
        BY <2>4, <3>2, KeptSlots
    <2> QED
      BY <2>2, <2>3, <2>4
  <1> QED
    BY <1>4, <1>5, <1>6, <1>7, <1>8 DEF ReachInv

LEMMA OrderedNothing == Ordered(<<>>) /\ Ordered(Idle.todo)
  BY DEF Ordered, Idle

\* A publish goes on at another of its steps.
LEMMA ReachGoto ==
  ASSUME InteractionInv, InteractionInv', ReachInv, NEW p \in Publishers, pub[p].pc \notin {"idle", "discard"},
         NEW pc \in Steps \ {"discard"}, Goto(p, pc), doomed' = doomed,
         \A i \in Ids : Held(i) => Held(i)',
         pc \in {"snapshot", "endvote", "fanout", "tail", "bound"} =>
            Uses(pub[p]) \/ \A i \in Ids : i = pub[p].id => Held(i)',
         \A i \in Ids : endVotes'[i].turn > 0 \/ i \in closed' =>
            endVotes[i].turn > 0 \/ i \in closed \/ (Uses(pub[p]) /\ i = pub[p].id),
         \A i \in snapshots' : i \in snapshots \/ (Uses(pub[p]) /\ i = pub[p].id),
         \A i \in Ids, s \in Senders :
            \/ Held(i)' \/ counts'[i][s] = 0
            \/ i = pub[p].id /\ pc \in {"persisted", "postclose"}
            \/ /\ ~Parks(pub[p], i)
               /\ \/ counts'[i][s] = counts[i][s] - 1
                  \/ counts'[i][s] = counts[i][s] /\ (Holds(pub[p], i, s) => pc = "release")
  PROVE  ReachInv'
  <1>1. PICK r : r = At(pub[p], pc)
    OBVIOUS
  <1>2. pub[p] \in PublishRecords /\ PublishShape(pub[p]) /\ pub[p].id \in Ids /\ pub[p].todo = <<>> /\ pub[p].then = "idle"
    BY PublishFacts
  <1>3. /\ r.pc = pc /\ r.todo = <<>> /\ r.then = "idle"
        /\ pc # "idle" => r.id = pub[p].id
        /\ pc = "release" => r.sender = pub[p].sender /\ r.reserved = pub[p].reserved
    BY <1>1, <1>2, AtFacts
  <1>4. pub' = [pub EXCEPT ![p] = r]
    BY <1>1 DEF Goto, InteractionInv, TypeOK
  <1>5. Uses(r) => Held(r.id)' \/ (Uses(pub[p]) /\ r.id = pub[p].id)
    <2>1. CASE pc = "idle"
      BY <1>3, <2>1 DEF Uses
    <2>2. CASE pc # "idle"
      <3>1. PICK i \in Ids : i = pub[p].id
        BY <1>2
      <3> QED
        BY <1>3, <2>2, <3>1 DEF Uses, Held
    <2> QED
      BY <2>1, <2>2
  <1>6. ASSUME NEW i \in Ids, NEW s \in Senders
        PROVE Held(i)' \/ Parks(r, i) \/ counts'[i][s] = 0 \/ (~Parks(pub[p], i) /\ SlotKept(p, r, i, s))
    BY <1>3 DEF Parks, SlotKept, Holds
  <1> QED
    BY <1>2, <1>3, <1>4, <1>5, <1>6, ReachKept, OrderedNothing

LEMMA HeldStays ==
  ASSUME entry'.id = entry.id, entry'.committed = entry.committed, entry'.retired = entry.retired, stranded \subseteq stranded'
  PROVE  \A i \in Ids : Held(i) => Held(i)'
  BY DEF Held

LEMMA ReachTail ==
  ASSUME InteractionInv, InteractionInv', ReachInv, NEW p \in Publishers,
         InRoundReply(p) \/ CloseOnCascadeBound(p) \/ FloorRound(p) \/ (\E cost \in BOOLEAN : MaybeBoundedClose(p, cost))
  PROVE  ReachInv'
  <1>1. pub[p].pc \in {"fanout", "tail"} /\ doomed' = doomed
    BY DEF InRoundReply, CloseOnCascadeBound, FloorRound, MaybeBoundedClose
  <1>2. UNCHANGED <<counts, endVotes, closed, snapshots, stranded>>
    BY DEF InRoundReply, CloseOnCascadeBound, FloorRound, MaybeBoundedClose, governance, history
  <1>3. entry'.id = entry.id /\ entry'.committed = entry.committed /\ entry'.retired = entry.retired
    BY DEF InRoundReply, CloseOnCascadeBound, FloorRound, MaybeBoundedClose, InteractionInv, TypeOK
  <1>4. PICK pc \in {"idle", "bound", "tail"} : Goto(p, pc)
    BY Zenon DEF InRoundReply, CloseOnCascadeBound, FloorRound, MaybeBoundedClose
  <1>5. Uses(pub[p]) /\ \A i \in Ids, s \in Senders : ~Parks(pub[p], i) /\ ~Holds(pub[p], i, s)
    BY <1>1 DEF Uses, Parks, Holds
  <1> QED
    BY <1>1, <1>2, <1>3, <1>4, <1>5, HeldStays, ReachGoto DEF Steps

LEMMA ReachSettleRejected ==
  ASSUME InteractionInv, InteractionInv', ReachInv, NEW p \in Publishers, SettleRejected(p)
  PROVE  ReachInv'
  <1>1. pub[p].pc = "rejected" /\ doomed' = doomed /\ Goto(p, "idle") /\ UNCHANGED <<counts, endVotes, closed, snapshots, stranded>>
    BY DEF SettleRejected, governance, history
  <1>2. ASSUME NEW i \in Ids, Held(i) PROVE Held(i)'
    BY <1>1, <1>2, IdFacts DEF SettleRejected, Held, NoEntry
  <1>3. \A i \in Ids, s \in Senders : ~Parks(pub[p], i) /\ ~Holds(pub[p], i, s)
    BY <1>1 DEF Parks, Holds
  <1> QED
    BY <1>1, <1>2, <1>3, ReachGoto DEF Steps

LEMMA ReachSettlePersisted ==
  ASSUME InteractionInv, InteractionInv', ReachInv, NEW p \in Publishers, SettlePersisted(p)
  PROVE  ReachInv'
  <1>0. pub[p].pc = "persisted" /\ pub[p].id \in Ids
    BY PublishFacts DEF SettlePersisted
  <1>9. PICK i \in Ids : i = pub[p].id
    BY <1>0
  <1>1. pub[p].pc = "persisted" /\ doomed' = doomed /\ UNCHANGED <<counts, endVotes, closed, snapshots>>
    BY DEF SettlePersisted, governance
  <1>2. PICK pc \in {"snapshot", "endvote"} : Goto(p, pc)
    BY Zenon DEF SettlePersisted
  <1>3. entry \in Entries /\ (~entry.live => entry = NoEntry)
    BY DEF InteractionInv, TypeOK, Entries, EntryInv
  <1>4. PICK e \in Entries :
          /\ e = IF entry.live THEN entry ELSE [NoEntry EXCEPT !.live = TRUE, !.id = i]
          /\ entry' = IF e.id = i THEN [e EXCEPT !.committed = TRUE]
                      ELSE IF e.retired = None THEN [e EXCEPT !.retired = i] ELSE e
    <2>1. (IF entry.live THEN entry ELSE [NoEntry EXCEPT !.live = TRUE, !.id = i]) \in Entries
      BY <1>1, <1>3 DEF Entries, NoEntry
    <2> QED
      BY <1>9, <2>1 DEF SettlePersisted
  <1>5. stranded' = IF i \in {entry'.id, entry'.retired} THEN stranded ELSE stranded \cup {i}
    BY <1>9 DEF SettlePersisted
  <1>6. Held(i)'
    <2>1. CASE e.id = i
      <3>1. entry'.id = i /\ entry'.committed
        BY <1>4, <2>1 DEF Entries
      <3> QED
        BY <3>1 DEF Held
    <2>2. CASE e.id # i /\ e.retired = None
      <3>1. entry'.retired = i
        BY <1>4, <2>2 DEF Entries
      <3> QED
        BY <3>1 DEF Held
    <2>3. CASE e.id # i /\ e.retired # None
      <3>1. entry' = e
        BY <1>4, <2>3
      <3> QED
        BY <1>5, <2>3, <3>1 DEF Held
    <2> QED
      BY <2>1, <2>2, <2>3
  <1>7. ASSUME NEW j \in Ids, Held(j) PROVE Held(j)'
    <2>1. CASE j \in stranded
      BY <1>5, <2>1 DEF Held
    <2>2. CASE ~entry.live
      BY <1>3, <1>7, <2>1, <2>2, IdFacts DEF Held, NoEntry
    <2>3. CASE entry.live
      <3>1. e = entry
        BY <1>4, <2>3
      <3>2. entry'.id = entry.id /\ (entry.committed => entry'.committed) /\ (entry.retired # None => entry'.retired = entry.retired)
        BY <1>3, <1>4, <3>1 DEF Entries
      <3> QED
        BY <1>7, <2>1, <3>2, IdFacts DEF Held
    <2> QED
      BY <2>2, <2>3
  <1>8. \A j \in Ids, s \in Senders : (j # i => ~Parks(pub[p], j)) /\ ~Holds(pub[p], j, s)
    BY <1>1, <1>9 DEF Parks, Holds
  <1> QED
    BY <1>1, <1>9, <1>2, <1>6, <1>7, <1>8, ReachGoto DEF Steps

LEMMA ReachSnapshot ==
  ASSUME InteractionInv, InteractionInv', ReachInv, NEW p \in Publishers, Snapshot(p)
  PROVE  ReachInv'
  <1>1. /\ pub[p].pc = "snapshot" /\ doomed' = doomed /\ Goto(p, "endvote") /\ UNCHANGED <<entry, counts, endVotes, closed, stranded>>
        /\ snapshots' = snapshots \cup {pub[p].id}
    BY DEF Snapshot, history
  <1>2. Uses(pub[p]) /\ \A i \in Ids, s \in Senders : ~Parks(pub[p], i) /\ ~Holds(pub[p], i, s)
    BY <1>1 DEF Uses, Parks, Holds
  <1> QED
    BY <1>1, <1>2, HeldStays, ReachGoto DEF Steps

LEMMA ReachDropPostClose ==
  ASSUME InteractionInv, InteractionInv', ReachInv, NEW p \in Publishers, DropPostClose(p)
  PROVE  ReachInv'
  <1>1. /\ pub[p].pc = "postclose" /\ doomed' = doomed /\ Goto(p, "idle") /\ UNCHANGED <<entry, endVotes, closed, snapshots, stranded>>
        /\ counts' = [counts EXCEPT ![pub[p].id] = NoReplies]
    BY DEF DropPostClose, history
  <1>2. \A i \in Ids, s \in Senders : IF i = pub[p].id THEN counts'[i][s] = 0 ELSE counts'[i][s] = counts[i][s]
    BY <1>1 DEF InteractionInv, TypeOK, NoReplies
  <1>3. \A i \in Ids, s \in Senders : (i # pub[p].id => ~Parks(pub[p], i)) /\ ~Holds(pub[p], i, s)
    BY <1>1 DEF Parks, Holds
  <1> QED
    BY <1>1, <1>2, <1>3, HeldStays, ReachGoto DEF Steps

LEMMA ReachRelease ==
  ASSUME InteractionInv, InteractionInv', ReachInv, NEW p \in Publishers, Release(p)
  PROVE  ReachInv'
  <1> DEFINE i == pub[p].id
             s == pub[p].sender
  <1>1. /\ pub[p].pc = "release" /\ doomed' = doomed /\ Goto(p, "rejected") /\ UNCHANGED <<entry, endVotes, closed, snapshots, stranded>>
        /\ counts' = IF counts[i][s] = 0 THEN counts ELSE [counts EXCEPT ![i][s] = @ - 1]
    BY DEF Release, history
  <1>2. i \in Ids /\ s \in Senders
    BY <1>1, PublishFacts DEF PublishShape
  <1>3. ASSUME NEW j \in Ids, NEW q \in Senders, counts'[j][q] # 0
        PROVE counts'[j][q] = counts[j][q] - 1 \/ (counts'[j][q] = counts[j][q] /\ ~Holds(pub[p], j, q))
    <2>1. CASE j = i /\ q = s
      BY <1>1, <1>2, <1>3, <2>1 DEF InteractionInv, TypeOK
    <2>2. CASE ~(j = i /\ q = s)
      <3>1. counts'[j][q] = counts[j][q]
        BY <1>1, <1>2, <2>2 DEF InteractionInv, TypeOK
      <3> QED
        BY <2>2, <3>1 DEF Holds
    <2> QED
      BY <2>1, <2>2
  <1>4. \A j \in Ids : ~Parks(pub[p], j)
    BY <1>1 DEF Parks
  <1> QED
    BY <1>1, <1>3, <1>4, HeldStays, ReachGoto DEF Steps

LEMMA ReachPersist ==
  ASSUME InteractionInv, InteractionInv', ReachInv, NEW p \in Publishers, Persist(p)
  PROVE  ReachInv'
  <1>1. pub[p].pc = "persist" /\ doomed' = doomed /\ UNCHANGED <<entry, counts, endVotes, closed, snapshots, stranded>>
    BY DEF Persist, governance
  <1>2. \A j \in Ids : ~Parks(pub[p], j)
    BY <1>1 DEF Parks
  <1>3. CASE Goto(p, IF pub[p].reserved THEN "release" ELSE "rejected")
    <2>1. PICK pc \in {"release", "rejected"} : pc = IF pub[p].reserved THEN "release" ELSE "rejected"
      OBVIOUS
    <2>2. Goto(p, pc)
      BY <1>3, <2>1, Zenon
    <2>3. \A j \in Ids, q \in Senders : Holds(pub[p], j, q) => pc = "release"
      BY <2>1 DEF Holds
    <2> QED
      BY <1>1, <1>2, <2>1, <2>2, <2>3, HeldStays, ReachGoto DEF Steps
  <1>4. CASE pub' = [pub EXCEPT ![p] = [At(@, IF @.latched THEN "postclose" ELSE "persisted") EXCEPT !.reserved = FALSE]]
    <2>1. PICK pc \in {"postclose", "persisted"} : pc = IF pub[p].latched THEN "postclose" ELSE "persisted"
      OBVIOUS
    <2>2. pub[p] \in PublishRecords /\ pub[p].id \in Ids /\ pub[p].todo = <<>> /\ pub[p].then = "idle"
      BY <1>1, PublishFacts
    <2>3. PICK a \in PublishRecords : a = At(pub[p], pc)
      BY <2>2, AtFacts DEF Steps
    <2>4. a.pc = pc /\ a.todo = <<>> /\ a.then = "idle" /\ a.id = pub[p].id
      BY <2>2, <2>3, AtFacts DEF Steps
    <2>5. PICK r : r = [a EXCEPT !.reserved = FALSE]
      OBVIOUS
    <2>6. r.pc = pc /\ r.todo = <<>> /\ r.then = "idle" /\ r.id = pub[p].id
      BY <2>4, <2>5 DEF PublishRecords
    <2>7. pub' = [pub EXCEPT ![p] = r]
      BY <1>4, <2>1, <2>3, <2>5 DEF InteractionInv, TypeOK
    <2>8. ~Uses(r) /\ Parks(r, pub[p].id)
      BY <2>6 DEF Uses, Parks
    <2>9. ASSUME NEW j \in Ids, NEW q \in Senders, j # pub[p].id PROVE SlotKept(p, r, j, q)
      BY <1>1, <2>9 DEF SlotKept, Holds
    <2> QED
      BY <1>1, <1>2, <2>2, <2>6, <2>7, <2>8, <2>9, HeldStays, ReachKept, OrderedNothing
  <1> QED
    BY <1>3, <1>4, Zenon DEF Persist

LEMMA ReachReserve ==
  ASSUME InteractionInv, InteractionInv', ReachInv, NEW p \in Publishers, Reserve(p)
  PROVE  ReachInv'
  <1> DEFINE i == pub[p].id
             s == pub[p].sender
             full == counts[i][s] >= ReplyBudget
             taken == ~full /\ ~Exempted(pub[p])
  <1>1. /\ pub[p] \in PublishRecords /\ pub[p].pc = "reserve" /\ i \in Ids /\ s \in Senders /\ pub[p].todo = <<>> /\ pub[p].then = "idle"
        /\ doomed' = doomed /\ UNCHANGED <<entry, endVotes, closed, snapshots, stranded>>
    BY PublishFacts DEF Reserve, PublishShape, history
  <1>2. PICK r : r = [pub[p] EXCEPT !.pc = IF full /\ ~Exempted(pub[p]) THEN "rejected" ELSE "persist", !.reserved = taken]
    OBVIOUS
  <1>3. pub' = [pub EXCEPT ![p] = r]
    BY <1>2 DEF Reserve, Exempted, InteractionInv, TypeOK
  <1>4. /\ r.id = i /\ r.sender = s /\ r.todo = <<>> /\ r.then = "idle" /\ r.pc \in {"persist", "rejected"}
        /\ taken => r.pc = "persist" /\ r.reserved
    BY <1>1, <1>2 DEF PublishRecords
  <1>5. counts' = IF taken THEN [counts EXCEPT ![i][s] = @ + 1] ELSE counts
    BY DEF Reserve, Exempted
  <1>6. ASSUME NEW j \in Ids, NEW q \in Senders PROVE SlotKept(p, r, j, q)
    <2>1. ~Holds(pub[p], j, q)
      BY <1>1 DEF Holds
    <2>2. CASE taken /\ j = i /\ q = s
      <3>1. counts'[j][q] = counts[j][q] + 1
        BY <1>1, <1>5, <2>2 DEF InteractionInv, TypeOK
      <3> QED
        BY <1>4, <2>1, <2>2, <3>1 DEF SlotKept, Holds
    <2>3. CASE ~(taken /\ j = i /\ q = s)
      <3>1. counts'[j][q] = counts[j][q]
        BY <1>1, <1>5, <2>3 DEF InteractionInv, TypeOK
      <3> QED
        BY <2>1, <3>1 DEF SlotKept
    <2> QED
      BY <2>2, <2>3
  <1>7. ~Uses(r) /\ \A j \in Ids : ~Parks(pub[p], j)
    BY <1>1, <1>4 DEF Uses, Parks
  <1> QED
    BY <1>1, <1>3, <1>4, <1>6, <1>7, HeldStays, ReachKept, OrderedNothing

\* A close starts: the tombstone is one more thing the interaction's discards cover.
LEMMA ReachClose ==
  ASSUME InteractionInv, InteractionInv', ReachInv, NEW p \in Publishers, pub[p].pc \in {"endvote", "bound"},
         Tombstone(pub[p].id), Teardown(p), UNCHANGED <<entry, counts, snapshots, doomed, stranded>>
  PROVE  ReachInv'
  <1>1. pub[p] \in PublishRecords /\ pub[p].id \in Ids /\ pub[p].todo = <<>> /\ pub[p].then = "idle" /\ Uses(pub[p])
    BY PublishFacts DEF Uses
  <1>2. PICK a \in PublishRecords : a = At(pub[p], "mark")
    BY <1>1, AtFacts DEF Steps
  <1>3. PICK r : r = [a EXCEPT !.pc = "discard", !.todo = <<<<"replies", pub[p].id>>>>, !.then = "mark"]
    OBVIOUS
  <1>4. pub' = [pub EXCEPT ![p] = r]
    <2>1. <<<<"replies", pub[p].id>>>> # <<>> /\ "mark" # "reserve"
      OBVIOUS
    <2> QED
      BY <1>2, <1>3, <2>1 DEF Teardown, DiscardThen, InteractionInv, TypeOK
  <1>5. r.pc = "discard" /\ r.then = "mark"
    BY <1>3 DEF PublishRecords
  <1>6. \A i \in Ids : endVotes'[i].turn > 0 \/ i \in closed' => endVotes[i].turn > 0 \/ i \in closed \/ i = pub[p].id
    BY <1>1 DEF Tombstone, InteractionInv, TypeOK
  <1>7. ~Uses(r) /\ \A i \in Ids, s \in Senders : ~Parks(pub[p], i) /\ ~Holds(pub[p], i, s)
    BY <1>5 DEF Uses, Parks, Holds
  <1>8. \A i \in Ids, s \in Senders : SlotKept(p, r, i, s)
    BY <1>7 DEF SlotKept
  <1> QED
    BY <1>1, <1>4, <1>5, <1>6, <1>7, <1>8, HeldStays, ReachKept

LEMMA ReachBoundedClose ==
  ASSUME InteractionInv, InteractionInv', ReachInv, NEW p \in Publishers, BoundedClose(p)
  PROVE  ReachInv'
  <1>1. pub[p].pc = "bound" /\ UNCHANGED <<entry, counts, snapshots, doomed, stranded>>
    BY DEF BoundedClose
  <1>2. CASE Goto(p, "idle") /\ UNCHANGED <<endVotes, closed>>
    <2>1. \A i \in Ids, s \in Senders : ~Parks(pub[p], i) /\ ~Holds(pub[p], i, s)
      BY <1>1 DEF Parks, Holds
    <2> QED
      BY <1>1, <1>2, <2>1, HeldStays, ReachGoto DEF Steps
  <1>3. CASE Tombstone(pub[p].id) /\ Teardown(p)
    BY <1>1, <1>3, ReachClose
  <1> QED
    BY <1>2, <1>3 DEF BoundedClose

LEMMA ReachEndVote ==
  ASSUME InteractionInv, InteractionInv', ReachInv, NEW p \in Publishers, EndVote(p)
  PROVE  ReachInv'
  <1>1. pub[p].pc = "endvote" /\ UNCHANGED <<entry, counts, snapshots, doomed, stranded>>
    BY DEF EndVote
  <1>2. CASE Tombstone(pub[p].id) /\ Teardown(p)
    BY <1>1, <1>2, ReachClose
  <1>3. ASSUME NEW pc \in {"postclose", "fanout", "idle"}, Goto(p, pc), closed' = closed,
               endVotes' = endVotes \/ \E v : endVotes' = [endVotes EXCEPT ![pub[p].id] = v]
        PROVE ReachInv'
    <2>1. \A i \in Ids, s \in Senders : ~Parks(pub[p], i) /\ ~Holds(pub[p], i, s)
      BY <1>1 DEF Parks, Holds
    <2>2. Uses(pub[p])
      BY <1>1 DEF Uses
    <2>3. \A i \in Ids : i # pub[p].id => endVotes'[i] = endVotes[i]
      BY <1>3 DEF InteractionInv, TypeOK
    <2> QED
      BY <1>1, <1>3, <2>1, <2>2, <2>3, HeldStays, ReachGoto DEF Steps
  <1>4. Fanout \in {"fanout", "idle"}
    BY DEF Fanout
  <1>5. \/ Tombstone(pub[p].id) /\ Teardown(p)
        \/ /\ closed' = closed /\ (Goto(p, "postclose") \/ Goto(p, Fanout))
           /\ endVotes' = endVotes \/ endVotes' = [endVotes EXCEPT ![pub[p].id] = Tallied(p)]
    BY Zenon DEF EndVote
  <1>6. CASE Goto(p, Fanout) /\ closed' = closed /\ (endVotes' = endVotes \/ endVotes' = [endVotes EXCEPT ![pub[p].id] = Tallied(p)])
    <2>1. PICK pc \in {"fanout", "idle"} : pc = Fanout
      BY <1>4
    <2>2. Goto(p, pc)
      BY <1>6, <2>1, Zenon
    <2>3. endVotes' = endVotes \/ \E v : endVotes' = [endVotes EXCEPT ![pub[p].id] = v]
      BY <1>6, Zenon
    <2> QED
      BY <1>3, <1>6, <2>2, <2>3
  <1>7. CASE Goto(p, "postclose") /\ closed' = closed /\ (endVotes' = endVotes \/ endVotes' = [endVotes EXCEPT ![pub[p].id] = Tallied(p)])
    <2>1. endVotes' = endVotes \/ \E v : endVotes' = [endVotes EXCEPT ![pub[p].id] = v]
      BY <1>7, Zenon
    <2> QED
      BY <1>3, <1>7, <2>1
  <1> QED
    BY <1>2, <1>5, <1>6, <1>7

LEMMA ReachLatch ==
  ASSUME InteractionInv, InteractionInv', ReachInv, NEW p \in Publishers, NEW s \in Senders, NEW v \in BOOLEAN,
         NEW claim \in Ids, Latch(p, s, v, claim)
  PROVE  ReachInv'
  <1>1. /\ pub[p].pc = "idle" /\ pub[p].todo = <<>>
        /\ UNCHANGED <<entry, counts, endVotes, closed, snapshots, doomed, stranded>>
    BY PublishFacts DEF Latch, Begin, governance, history
  <1>2. PICK r : r = [Idle EXCEPT !.pc = "reserve", !.sender = s, !.vote = v, !.id = claim, !.latched = TRUE]
    OBVIOUS
  <1>3. r.pc = "reserve" /\ r.todo = <<>>
    BY <1>2 DEF Idle
  <1>4. pub' = [pub EXCEPT ![p] = r]
    BY <1>2 DEF Latch
  <1>5. ~Uses(r) /\ \A i \in Ids, q \in Senders : ~Parks(pub[p], i) /\ ~Holds(pub[p], i, q)
    BY <1>1, <1>3 DEF Uses, Parks, Holds
  <1>6. \A i \in Ids, q \in Senders : SlotKept(p, r, i, q)
    BY <1>1, <1>5 DEF SlotKept
  <1> QED
    BY <1>1, <1>3, <1>4, <1>5, <1>6, HeldStays, ReachKept, OrderedNothing

\* A rotation displaces the retiree, whose discards p then has to make, and
\* retires what was open.
LEMMA ReachResolve ==
  ASSUME InteractionInv, InteractionInv', ReachInv, NEW p \in Publishers, NEW s \in Senders, NEW v \in BOOLEAN,
         NEW idle \in BOOLEAN, Resolve(p, s, v, idle)
  PROVE  ReachInv'
  <1> DEFINE rotates == idle /\ OpenCommitted /\ Rotates
             mints   == rotates \/ entry.id = None
             id      == IF mints THEN minted + 1 ELSE entry.id
             todo    == IF rotates THEN Governance(entry.retired) ELSE <<>>
             pc      == IF todo = <<>> THEN "reserve" ELSE "discard"
             then    == IF todo = <<>> THEN "idle" ELSE "reserve"
  <1>1. /\ pub[p].pc = "idle" /\ pub[p].todo = <<>>
        /\ UNCHANGED <<counts, endVotes, closed, snapshots, doomed, stranded>>
    BY PublishFacts DEF Resolve, Begin, governance, history
  <1>2. PICK r : r = [Idle EXCEPT !.pc = pc, !.sender = s, !.vote = v, !.id = id, !.todo = todo, !.then = then]
    OBVIOUS
  <1>3. pub' = [pub EXCEPT ![p] = r]
    BY <1>2 DEF Resolve
  <1>4. r.pc = pc /\ r.todo = todo /\ r.then = then
    BY <1>2 DEF Idle
  <1>5. /\ entry'.id = id /\ (entry'.committed <=> entry.committed /\ ~mints)
        /\ entry'.retired = IF rotates THEN entry.id ELSE entry.retired
    BY DEF Resolve, InteractionInv, TypeOK
  <1>6. entry.retired \in Ids \cup {None} /\ entry.id \in Ids \cup {None}
    BY DEF InteractionInv, TypeOK
  <1>7. Ordered(r.todo)
    BY <1>4, <1>6, OrderedGovernance, OrderedNothing
  <1>8. ASSUME NEW i \in Ids, Held(i) PROVE Held(i)' \/ \A what \in Kinds : Lists(r.todo, what, i)
    <2>1. CASE i \in stranded \/ (i = entry.id /\ entry.committed)
      BY <1>1, <1>5, <2>1, IdFacts DEF Held
    <2>2. CASE i = entry.retired
      <3>1. CASE rotates
        <4>1. r.todo = Governance(i)
          BY <1>4, <2>2, <3>1
        <4> QED
          BY <4>1, OrderedGovernance DEF Kinds
      <3>2. CASE ~rotates
        BY <1>5, <2>2, <3>2 DEF Held
      <3> QED
        BY <3>1, <3>2
    <2> QED
      BY <1>8, <2>1, <2>2 DEF Held
  <1>9. r.then # "mark" /\ ~Uses(r)
    BY <1>4 DEF Uses
  <1>10. \A i \in Ids, q \in Senders : ~Parks(pub[p], i) /\ SlotKept(p, r, i, q)
    BY <1>1 DEF Parks, Holds, SlotKept
  <1> QED
    BY <1>1, <1>3, <1>7, <1>8, <1>9, <1>10, ReachKept

\* The close retires its interaction; the retiree it displaces is discarded.
LEMMA ReachMark ==
  ASSUME InteractionInv, InteractionInv', ReachInv, NEW p \in Publishers, MarkInteractionClosed(p)
  PROVE  ReachInv'
  <1> DEFINE i == pub[p].id
             retires == entry.live /\ entry.id = i
             todo == IF retires THEN Governance(entry.retired) ELSE <<>>
  <1>1. /\ pub[p].pc = "mark" /\ i \in Ids /\ pub[p].todo = <<>>
        /\ UNCHANGED <<counts, endVotes, closed, snapshots, doomed, stranded>>
    BY PublishFacts DEF MarkInteractionClosed, governance, history
  <1>2. entry.retired \in Ids \cup {None} /\ entry.id \in Ids \cup {None}
    BY DEF InteractionInv, TypeOK
  <1>3. todo \in Seq(Discards) /\ \A k \in 1..Len(todo) : todo[k][2] # i
    <2>1. entry.retired # None => entry.retired # entry.id
      BY DEF InteractionInv, EntryInv
    <2>2. CASE ~retires \/ entry.retired = None
      <3>1. todo = <<>>
        BY <2>2 DEF Governance
      <3> HIDE DEF todo
      <3>2. todo \in Seq(Discards) /\ Len(todo) = 0
        BY <3>1
      <3> QED
        BY <3>2
    <2>3. CASE retires /\ entry.retired # None
      <3>1. todo = Governance(entry.retired) /\ entry.retired \in Ids \cup {None} /\ entry.retired # i
        BY <1>2, <2>1, <2>3
      <3> QED
        BY <3>1, GovernanceFacts, Zenon
    <2> QED
      BY <2>2, <2>3
  <1>4. DiscardThen(p, todo, "idle")
    BY DEF MarkInteractionClosed
  <1>5. PICK r : /\ Moves(p, r) /\ r.then = "idle" /\ r.todo = todo /\ r.pc \in {"idle", "discard"}
    <2> HIDE DEF todo
    <2> QED
      BY <1>1, <1>3, <1>4, MarkMoves
  <1>6. Ordered(r.todo)
    BY <1>2, <1>5, OrderedGovernance, OrderedNothing
  <1>7. /\ retires => entry'.retired = i
        /\ ~retires => entry'.retired = entry.retired /\ entry'.id = entry.id
        /\ entry'.committed = entry.committed
    BY DEF MarkInteractionClosed, InteractionInv, TypeOK
  <1>8. ASSUME NEW j \in Ids, Held(j) PROVE Held(j)' \/ \A what \in Kinds : Lists(r.todo, what, j)
    <2>1. CASE ~retires \/ j \in stranded
      BY <1>1, <1>7, <1>8, <2>1 DEF Held
    <2>2. CASE retires /\ j = entry.id
      BY <1>7, <2>2 DEF Held
    <2>3. CASE retires /\ j = entry.retired
      <3>1. r.todo = Governance(j)
        BY <1>5, <2>3
      <3> QED
        BY <3>1, OrderedGovernance DEF Kinds
    <2> QED
      BY <1>8, <2>1, <2>2, <2>3 DEF Held
  <1>9. ~Uses(r) /\ \A j \in Ids, q \in Senders : ~Parks(pub[p], j) /\ SlotKept(p, r, j, q)
    BY <1>1, <1>5 DEF Uses, Parks, Holds, SlotKept
  <1> QED
    BY <1>1, <1>5, <1>6, <1>8, <1>9, ReachKept DEF Moves

LEMMA ReachDischargeOwn ==
  ASSUME InteractionInv, InteractionInv', ReachInv, NEW p \in Publishers, Discharge(p), pub[p].then = "mark"
  PROVE  ReachInv'
  <1> DEFINE i == pub[p].id
  <1>1. pub[p] \in PublishRecords /\ pub[p].pc = "discard" /\ i \in Ids /\ pub[p].todo = <<<<"replies", i>>>>
    BY PublishFacts DEF Discharge, PublishShape, TodoShape
  <1>2. Head(pub[p].todo) = <<"replies", i>> /\ Tail(pub[p].todo) = <<>>
    BY <1>1
  <1>3. Discard("replies", i) /\ UNCHANGED <<stranded, entry, doomed>>
    BY <1>2 DEF Discharge
  <1>4. PICK r \in PublishRecords : r = At(pub[p], "mark")
    BY <1>1, AtFacts DEF Steps
  <1>5. r.pc = "mark" /\ r.todo = <<>> /\ r.then = "idle"
    BY <1>1, <1>4, AtFacts DEF Steps
  <1>6. pub' = [pub EXCEPT ![p] = r]
    BY <1>2, <1>4 DEF Discharge, DiscardThen
  <1>7. /\ UNCHANGED <<endVotes, closed, snapshots>>
        /\ \A j \in Ids, q \in Senders : counts'[j][q] = 0 \/ counts'[j][q] = counts[j][q]
    BY <1>1, <1>3 DEF Discard, InteractionInv, TypeOK, NoReplies
  <1>8. ~Uses(r) /\ \A j \in Ids, q \in Senders : ~Parks(pub[p], j) /\ SlotKept(p, r, j, q)
    BY <1>1, <1>5, <1>7 DEF Uses, Parks, Holds, SlotKept
  <1> QED
    BY <1>3, <1>5, <1>6, <1>7, <1>8, HeldStays, ReachKept, OrderedNothing

\* A displaced retiree loses one part of what is kept of it: whoever still uses
\* it is stranded with it.
LEMMA ReachDiscard ==
  ASSUME InteractionInv, InteractionInv', ReachInv, NEW what \in Kinds, NEW i \in Ids, Discard(what, i), entry' = entry,
         stranded' = stranded \cup (IF InFlight(i) THEN {i} ELSE {}), OrderInv',
         \A w \in Kinds, j \in Ids : Pending(w, j) => Pending(w, j)' \/ (w = what /\ j = i),
         \A q \in Publishers : Uses(pub'[q]) => Uses(pub[q]) /\ pub'[q].id = pub[q].id,
         \A q \in Publishers, j \in Ids : Parks(pub[q], j) => Parks(pub'[q], j),
         \A q \in Publishers, j \in Ids, s \in Senders : Holds(pub'[q], j, s) <=> Holds(pub[q], j, s)
  PROVE  ReachInv'
  <1>1. \A j \in Ids : Held(j) => Held(j)'
    BY DEF Held
  <1>2. ASSUME NEW w \in Kinds, NEW j \in Ids, Covered(w, j) PROVE Covered(w, j)' \/ (w = what /\ j = i)
    <2>1. CASE Held(j)
      BY <1>1, <2>1 DEF Covered
    <2>2. CASE Pending(w, j)
      BY <2>2 DEF Covered
    <2> QED
      BY <1>2, <2>1, <2>2 DEF Covered
  <1>3. UseInv'
    <2> SUFFICES ASSUME NEW q \in Publishers, NEW x \in Ids, x = pub'[q].id, Uses(pub'[q]) PROVE Covered("replies", x)'
      <3>1. \A q \in Publishers : Uses(pub'[q]) => pub'[q].id \in Ids
        BY UseFacts
      <3> QED
        BY <3>1 DEF UseInv, Uses, Covered, Held, Pending, Lists
    <2>1. x = pub[q].id /\ Uses(pub[q]) /\ Covered("replies", x)
      BY UseFacts DEF Kinds
    <2>2. CASE x = i
      <3>1. ~pub[q].latched
        BY <2>1, PublishFacts DEF Uses, PublishShape
      <3>2. InFlight(i)
        BY <2>1, <2>2, <3>1 DEF InFlight
      <3> QED
        BY <2>2, <3>2 DEF Covered, Held
    <2>3. CASE x # i
      BY <1>2, <2>1, <2>3 DEF Kinds
    <2> QED
      BY <2>2, <2>3
  <1>4. VotesInv'
    <2> SUFFICES ASSUME NEW j \in Ids, endVotes'[j].turn > 0 \/ j \in closed' PROVE Covered("votes", j)'
      BY DEF VotesInv
    <2>1. ~(what = "votes" /\ j = i)
      BY DEF Discard, InteractionInv, TypeOK, NoVotes
    <2>2. endVotes[j].turn > 0 \/ j \in closed
      BY <2>1 DEF Discard, InteractionInv, TypeOK
    <2> QED
      BY <1>2, <2>1, <2>2 DEF Kinds, ReachInv, VotesInv
  <1>5. BudgetInv'
    <2> SUFFICES ASSUME NEW j \in snapshots' PROVE Covered("budget", j)'
      BY DEF BudgetInv
    <2>1. ~(what = "budget" /\ j = i) /\ j \in snapshots /\ j \in Ids
      BY DEF Discard, InteractionInv, TypeOK
    <2> QED
      BY <1>2, <2>1 DEF Kinds, ReachInv, BudgetInv
  <1>6. SlotsInv'
    <2> SUFFICES ASSUME NEW j \in Ids, NEW s \in Senders, ~Covered("replies", j)', ~\E q \in Publishers : Parks(pub'[q], j)
                 PROVE counts'[j][s] <= Cardinality(Holders(j, s)')
      BY DEF SlotsInv, Parks
    <2>1. Holders(j, s)' = Holders(j, s)
      <3>1. \A q \in Publishers : q \in Holders(j, s)' <=> Holds(pub'[q], j, s)
        BY DEF Holders, Holds
      <3> QED
        BY <3>1 DEF Holders
    <2>2. Cardinality(Holders(j, s)) \in Nat
      <3>1. IsFiniteSet(Holders(j, s))
        BY ChannelAssumption, FS_Subset DEF Holders
      <3> QED
        BY <3>1, FS_CardinalityType
    <2>3. CASE what = "replies" /\ j = i
      <3>1. counts'[j][s] = 0
        BY <2>3 DEF Discard, InteractionInv, TypeOK, NoReplies
      <3> QED
        BY <2>1, <2>2, <3>1
    <2>4. CASE ~(what = "replies" /\ j = i)
      <3>1. counts'[j][s] = counts[j][s]
        BY <2>4 DEF Discard, InteractionInv, TypeOK
      <3>2. ~Covered("replies", j) /\ ~\E q \in Publishers : Parks(pub[q], j)
        BY <1>2, <2>4 DEF Kinds
      <3> QED
        BY <2>1, <3>1, <3>2 DEF ReachInv, SlotsInv
    <2> QED
      BY <2>3, <2>4
  <1> QED
    BY <1>3, <1>4, <1>5, <1>6 DEF ReachInv

LEMMA ReachDischargeDisplaced ==
  ASSUME InteractionInv, InteractionInv', ReachInv, NEW p \in Publishers, Discharge(p), pub[p].then # "mark"
  PROVE  ReachInv'
  <1>1. pub[p].pc = "discard" /\ PublishShape(pub[p])
    BY PublishFacts DEF Discharge
  <1>2. PICK todo \in Seq(Discards) : todo = pub[p].todo /\ todo # <<>>
    BY <1>1, TodoFacts
  <1>3. PICK what \in Kinds, i \in Ids : Head(todo) = <<what, i>>
    <2>1. Head(todo) \in Discards
      BY <1>2
    <2> QED
      BY <2>1 DEF Discards, Kinds
  <1>4. i # pub[p].id
    <2>1. i = pub[p].todo[1][2] /\ 1 \in 1..Len(pub[p].todo)
      BY <1>1, <1>2, <1>3, TodoFacts
    <2> QED
      BY <1>1, <2>1 DEF PublishShape, TodoShape
  <1>5. /\ Discard(what, i) /\ entry' = entry /\ doomed' = doomed
        /\ stranded' = stranded \cup (IF InFlight(i) THEN {i} ELSE {})
    BY <1>2, <1>3, <1>4 DEF Discharge
  <1>6. PICK r : /\ Moves(p, r) /\ r.pc \in {"discard", "reserve", "idle"} /\ r.then # "mark"
                 /\ r.todo = IF r.pc = "discard" THEN Tail(pub[p].todo) ELSE <<>>
    BY DisplacedMoves DEF IsClosing
  <1>7. pub'[p] = r /\ \A q \in Publishers : q # p => pub'[q] = pub[q]
    BY <1>6, MoveFacts DEF InteractionInv
  <1>8. Ordered(todo) /\ Ordered(doomed)
    BY <1>2 DEF ReachInv, OrderInv
  <1>9. /\ Ordered(Tail(todo))
        /\ \A w, j : Lists(todo, w, j) => Lists(Tail(todo), w, j) \/ Head(todo) = <<w, j>>
    BY <1>2, <1>8, OrderedTail
  <1>10. r.todo = Tail(todo)
    <2>1. CASE r.pc = "discard"
      BY <1>2, <1>6, <2>1
    <2>2. CASE r.pc # "discard"
      <3>1. DiscardThen(p, Tail(todo), pub[p].then)
        BY <1>2 DEF Discharge
      <3>2. Tail(todo) # <<>> => pub'[p].pc = "discard"
        <4> SUFFICES ASSUME Tail(todo) # <<>> PROVE pub'[p].pc = "discard"
          OBVIOUS
        <4>1. PICK a \in PublishRecords : a = IF pub[p].then = "reserve" THEN pub[p] ELSE At(pub[p], "mark")
          BY PublishFacts, AtFacts DEF Steps
        <4>2. pub'[p] = [a EXCEPT !.pc = "discard", !.todo = Tail(todo), !.then = pub[p].then]
          BY <3>1, <4>1 DEF DiscardThen, InteractionInv, TypeOK
        <4> QED
          BY <4>1, <4>2 DEF PublishRecords
      <3> QED
        BY <1>6, <1>7, <2>2, <3>2
    <2> QED
      BY <2>1, <2>2
  <1>11. OrderInv'
    <2>1. ASSUME NEW q \in Publishers, NEW x, x = pub'[q], x.then # "mark" PROVE Ordered(x.todo)
      BY <1>7, <1>9, <1>10, <2>1 DEF ReachInv, OrderInv
    <2>2. Ordered(doomed')
      BY <1>5, <1>8
    <2>3. \A q \in Publishers : pub'[q].then # "mark" => Ordered(pub'[q].todo)
      BY <2>1
    <2> QED
      BY <2>2, <2>3, Zenon DEF OrderInv, Ordered
  <1>12. ASSUME NEW w \in Kinds, NEW j \in Ids, Pending(w, j) PROVE Pending(w, j)' \/ (w = what /\ j = i)
    <2>1. CASE Lists(doomed, w, j)
      BY <1>5, <2>1 DEF Pending, Lists
    <2>2. ASSUME NEW q \in Publishers, pub[q].then # "mark", Lists(pub[q].todo, w, j), q # p PROVE Pending(w, j)'
      BY <1>7, <2>2 DEF Pending, Lists
    <2>3. CASE Lists(todo, w, j)
      <3>1. Lists(Tail(todo), w, j) \/ (w = what /\ j = i)
        BY <1>3, <1>9, <2>3
      <3>2. CASE Lists(Tail(todo), w, j)
        <4>1. Lists(r.todo, w, j)
          BY <1>10, <3>2
        <4> QED
          BY <1>6, <1>7, <4>1 DEF Pending, Lists
      <3> QED
        BY <3>1, <3>2
    <2> QED
      BY <1>2, <1>12, <2>1, <2>2, <2>3 DEF Pending
  <1>13. \A q \in Publishers : Uses(pub'[q]) => Uses(pub[q]) /\ pub'[q].id = pub[q].id
    BY <1>6, <1>7 DEF Uses
  <1>14. /\ \A q \in Publishers, j \in Ids : Parks(pub[q], j) => Parks(pub'[q], j)
         /\ \A q \in Publishers, j \in Ids, s \in Senders : Holds(pub'[q], j, s) <=> Holds(pub[q], j, s)
    BY <1>1, <1>6, <1>7 DEF Parks, Holds
  <1> QED
    BY <1>5, <1>11, <1>12, <1>13, <1>14, ReachDiscard

LEMMA ReachPurgeDiscard ==
  ASSUME InteractionInv, InteractionInv', ReachInv, PurgeDiscard
  PROVE  ReachInv'
  <1>1. doomed \in Seq(Discards) /\ doomed # <<>> /\ Ordered(doomed)
    BY DEF PurgeDiscard, InteractionInv, TypeOK, Discards, ReachInv, OrderInv
  <1>2. PICK what \in Kinds, i \in Ids : Head(doomed) = <<what, i>>
    <2>1. Head(doomed) \in Discards
      BY <1>1
    <2> QED
      BY <2>1 DEF Discards, Kinds
  <1>3. /\ Discard(what, i) /\ entry' = entry /\ pub' = pub /\ doomed' = Tail(doomed)
        /\ stranded' = stranded \cup (IF InFlight(i) THEN {i} ELSE {})
    BY <1>2 DEF PurgeDiscard
  <1>4. /\ Ordered(Tail(doomed))
        /\ \A w, j : Lists(doomed, w, j) => Lists(Tail(doomed), w, j) \/ Head(doomed) = <<w, j>>
    BY <1>1, OrderedTail
  <1>5. OrderInv'
    <2>1. Ordered(doomed') /\ \A q \in Publishers : pub'[q].then # "mark" => Ordered(pub'[q].todo)
      BY <1>3, <1>4 DEF ReachInv, OrderInv
    <2> QED
      BY <2>1, Zenon DEF OrderInv, Ordered
  <1>6. ASSUME NEW w \in Kinds, NEW j \in Ids, Pending(w, j) PROVE Pending(w, j)' \/ (w = what /\ j = i)
    <2>1. CASE Lists(doomed, w, j)
      <3>1. PICK t : t = Tail(doomed)
        OBVIOUS
      <3>2. Lists(t, w, j) \/ (w = what /\ j = i)
        BY <1>2, <1>4, <2>1, <3>1
      <3>3. Lists(t, w, j) => Pending(w, j)'
        BY <1>3, <3>1 DEF Pending, Lists
      <3> QED
        BY <3>2, <3>3
    <2>2. CASE \E q \in Publishers : pub[q].then # "mark" /\ Lists(pub[q].todo, w, j)
      BY <1>3, <2>2 DEF Pending, Lists
    <2> QED
      BY <1>6, <2>1, <2>2 DEF Pending
  <1> QED
    BY <1>3, <1>5, <1>6, ReachDiscard

\* The purge drops the entry and has what its two ids hold discarded.
LEMMA ReachPurge ==
  ASSUME InteractionInv, InteractionInv', ReachInv, PurgeChannelInteraction
  PROVE  ReachInv'
  <1>1. /\ UNCHANGED <<counts, endVotes, closed, snapshots, pub, stranded>> /\ entry' = NoEntry
        /\ doomed' = Governance(entry.id) \o Governance(entry.retired) /\ doomed = <<>>
    BY DEF PurgeChannelInteraction, governance, history, InteractionInv, PurgeInv
  <1>2. entry.retired \in Ids \cup {None} /\ entry.id \in Ids \cup {None}
    BY DEF InteractionInv, TypeOK
  <1>3. PICK a \in Seq(Discards), b \in Seq(Discards) : a = Governance(entry.id) /\ b = Governance(entry.retired)
    BY <1>2, GovernanceFacts
  <1>4. Ordered(a) /\ Ordered(b)
    BY <1>2, <1>3, OrderedGovernance
  <1>5. PICK t : t = a \o b
    OBVIOUS
  <1>6. Ordered(t) /\ \A what, i : Lists(a, what, i) \/ Lists(b, what, i) => Lists(t, what, i)
    BY <1>4, <1>5, OrderedJoin
  <1>7. doomed' = t
    BY <1>1, <1>3, <1>5
  <1>8. OrderInv'
    <2>1. Ordered(doomed') /\ \A q \in Publishers : pub'[q].then # "mark" => Ordered(pub'[q].todo)
      BY <1>1, <1>6, <1>7 DEF ReachInv, OrderInv
    <2> QED
      BY <2>1, Zenon DEF OrderInv, Ordered
  <1>9. ASSUME NEW w \in Kinds, NEW j \in Ids, Covered(w, j) PROVE Covered(w, j)'
    <2>1. ASSUME Lists(t, w, j) PROVE Covered(w, j)'
      BY <1>7, <2>1 DEF Covered, Pending, Lists
    <2>2. CASE j = entry.id \/ j = entry.retired
      <3>1. Lists(a, w, j) \/ Lists(b, w, j)
        BY <1>3, <2>2, OrderedGovernance DEF Kinds
      <3> QED
        BY <1>6, <2>1, <3>1
    <2>3. CASE j \in stranded
      BY <1>1, <2>3 DEF Covered, Held
    <2>4. CASE \E q \in Publishers : pub[q].then # "mark" /\ Lists(pub[q].todo, w, j)
      BY <1>1, <2>4 DEF Covered, Pending, Lists
    <2>5. ~Lists(doomed, w, j)
      BY <1>1 DEF Lists
    <2> QED
      BY <1>9, <2>2, <2>3, <2>4, <2>5 DEF Covered, Held, Pending
  <1>10. UseInv'
    <2> SUFFICES ASSUME NEW q \in Publishers, NEW x \in Ids, x = pub[q].id, Uses(pub[q]) PROVE Covered("replies", x)'
      <3>1. \A q \in Publishers : Uses(pub[q]) => pub[q].id \in Ids
        BY UseFacts
      <3> QED
        BY <1>1, <3>1 DEF UseInv, Uses, Covered, Held, Pending, Lists
    <2> QED
      BY <1>9, UseFacts DEF Kinds
  <1>11. VotesInv' /\ BudgetInv'
    BY <1>1, <1>9 DEF ReachInv, VotesInv, BudgetInv, Kinds, InteractionInv, TypeOK
  <1>12. SlotsInv'
    <2> SUFFICES ASSUME NEW j \in Ids, NEW s \in Senders, ~Covered("replies", j)', ~\E q \in Publishers : Parks(pub[q], j)
                 PROVE counts[j][s] <= Cardinality(Holders(j, s))
      BY <1>1 DEF SlotsInv, Parks, Holders, Holds
    <2> QED
      BY <1>9 DEF ReachInv, SlotsInv, Kinds
  <1> QED
    BY <1>8, <1>10, <1>11, <1>12 DEF ReachInv

\* A step that touches nothing the invariant speaks of.
LEMMA ReachIdle ==
  ASSUME ReachInv, UNCHANGED <<counts, endVotes, closed, snapshots, pub, stranded, entry, doomed>>
  PROVE  ReachInv'
  <1>1. OrderInv' /\ UseInv'
    BY ZenonT(40) DEF ReachInv, OrderInv, Ordered, UseInv, Uses, Covered, Held, Pending, Lists
  <1>2. VotesInv' /\ BudgetInv'
    BY DEF ReachInv, VotesInv, BudgetInv, Covered, Held, Pending, Lists
  <1>3. SlotsInv'
    BY DEF ReachInv, SlotsInv, Covered, Held, Pending, Lists, Parks, Holders, Holds
  <1> QED
    BY <1>1, <1>2, <1>3 DEF ReachInv

LEMMA ReachStarts == Init => ReachInv
  <1> SUFFICES ASSUME Init PROVE ReachInv
    OBVIOUS
  <1>1. Idle.pc = "idle" /\ Idle.todo = <<>>
    BY DEF Idle
  <1>2. OrderInv /\ UseInv
    BY <1>1 DEF Init, OrderInv, Ordered, UseInv, Uses
  <1>3. VotesInv /\ BudgetInv
    BY DEF Init, VotesInv, BudgetInv, NoVotes
  <1>4. SlotsInv
    <2> SUFFICES ASSUME NEW i \in Ids, NEW s \in Senders PROVE counts[i][s] <= Cardinality(Holders(i, s))
      BY DEF SlotsInv
    <2>1. counts[i][s] = 0
      BY DEF Init, NoReplies
    <2>2. IsFiniteSet(Holders(i, s))
      BY ChannelAssumption, FS_Subset DEF Holders
    <2>3. Cardinality(Holders(i, s)) \in Nat
      BY <2>2, FS_CardinalityType
    <2> QED
      BY <2>1, <2>3
  <1> QED
    BY <1>2, <1>3, <1>4 DEF ReachInv

LEMMA ReachSteps ==
  ASSUME InteractionInv, InteractionInv', ReachInv, [Next]_vars
  PROVE  ReachInv'
  <1>1. CASE UNCHANGED vars \/ DeleteChannel
    <2>1. UNCHANGED <<counts, endVotes, closed, snapshots, pub, stranded, entry, doomed>>
      BY <1>1 DEF vars, DeleteChannel, governance, history
    <2> QED
      BY <2>1, ReachIdle
  <1>2. ASSUME NEW p \in Publishers, Publish(p) PROVE ReachInv'
    <2>1. ASSUME NEW s \in Senders, NEW v \in BOOLEAN, NEW claim \in Ids, Latch(p, s, v, claim) PROVE ReachInv'
      BY <2>1, ReachLatch
    <2>2. ASSUME NEW s \in Senders, NEW v \in BOOLEAN, NEW idle \in BOOLEAN, Resolve(p, s, v, idle) PROVE ReachInv'
      BY <2>2, ReachResolve
    <2>3. CASE Discharge(p)
      BY <2>3, ReachDischargeOwn, ReachDischargeDisplaced
    <2>4. CASE Reserve(p) \/ Persist(p) \/ Release(p)
      BY <2>4, ReachReserve, ReachPersist, ReachRelease
    <2>5. CASE SettleRejected(p) \/ SettlePersisted(p) \/ Snapshot(p)
      BY <2>5, ReachSettleRejected, ReachSettlePersisted, ReachSnapshot
    <2>6. CASE EndVote(p) \/ DropPostClose(p) \/ BoundedClose(p) \/ MarkInteractionClosed(p)
      BY <2>6, ReachEndVote, ReachDropPostClose, ReachBoundedClose, ReachMark
    <2>7. CASE InRoundReply(p) \/ CloseOnCascadeBound(p) \/ FloorRound(p) \/ (\E cost \in BOOLEAN : MaybeBoundedClose(p, cost))
      BY <2>7, ReachTail
    <2> QED
      BY <1>2, <2>1, <2>2, <2>3, <2>4, <2>5, <2>6, <2>7 DEF Publish
  <1> QED
    BY <1>1, <1>2, ReachPurge, ReachPurgeDiscard DEF Next

\* What the router keeps about an interaction can always be reached by a discard
\* that is still to come, for any number of publishers and interactions: the only
\* ids it leaves behind are those still in use when they were discarded and those
\* settled while the retiree's slot was taken (discardInteractionGovernance,
\* settleInteraction, PurgeChannelInteraction).
THEOREM GovernanceNeverLeaks == Spec => []GovernanceIsReachable
  <1>1. InteractionInv /\ ReachInv => GovernanceIsReachable
    <2> SUFFICES ASSUME InteractionInv, ReachInv, NEW i \in Ids, Resident(i)
                 PROVE \/ i \in {entry.id, entry.retired} \cup stranded
                       \/ \E p \in Publishers : pub[p].id = i \/ \E k \in 1..Len(pub[p].todo) : pub[p].todo[k][2] = i
                       \/ \E k \in 1..Len(doomed) : doomed[k][2] = i
      BY DEF GovernanceIsReachable
    <2>1. \A what : Covered(what, i) =>
                         \/ i \in {entry.id, entry.retired} \cup stranded
                         \/ \E p \in Publishers : \E k \in 1..Len(pub[p].todo) : pub[p].todo[k][2] = i
                         \/ \E k \in 1..Len(doomed) : doomed[k][2] = i
      <3>1. ASSUME NEW t, NEW what, Lists(t, what, i) PROVE \E k \in 1..Len(t) : t[k][2] = i
        <4>1. PICK k \in 1..Len(t) : t[k] = <<what, i>>
          BY <3>1 DEF Lists
        <4>2. t[k][2] = i
          BY <4>1
        <4> QED
          BY <4>2
      <3>2. ASSUME NEW what, NEW p \in Publishers, Lists(pub[p].todo, what, i)
            PROVE \E k \in 1..Len(pub[p].todo) : pub[p].todo[k][2] = i
        BY <3>1, <3>2, Zenon
      <3>3. ASSUME NEW what, Lists(doomed, what, i) PROVE \E k \in 1..Len(doomed) : doomed[k][2] = i
        BY <3>1, <3>3, Zenon
      <3>4. \A what : Pending(what, i) =>
               \/ \E p \in Publishers : \E k \in 1..Len(pub[p].todo) : pub[p].todo[k][2] = i
               \/ \E k \in 1..Len(doomed) : doomed[k][2] = i
        BY <3>2, <3>3, Zenon DEF Pending
      <3>5. Held(i) => i \in {entry.id, entry.retired} \cup stranded
        BY DEF Held
      <3>6. \A what : Covered(what, i) => Held(i) \/ Pending(what, i)
        BY DEF Covered
      <3> QED
        BY <3>4, <3>5, <3>6
    <2>2. CASE endVotes[i].turn > 0 \/ i \in closed
      BY <2>1, <2>2 DEF ReachInv, VotesInv
    <2>3. CASE i \in snapshots
      BY <2>1, <2>3 DEF ReachInv, BudgetInv
    <2>4. CASE counts[i] # NoReplies
      <3>1. PICK s \in Senders : counts[i][s] # 0 /\ counts[i][s] \in Nat
        BY <2>4, ChannelAssumption DEF InteractionInv, TypeOK, NoReplies
      <3>2. CASE Covered("replies", i) \/ \E p \in Publishers : Parks(pub[p], i)
        BY <2>1, <3>2 DEF Parks
      <3>3. CASE counts[i][s] <= Cardinality(Holders(i, s))
        <4>1. Holders(i, s) # {}
          BY <3>1, <3>3, FS_EmptySet
        <4> QED
          BY <4>1 DEF Holders, Holds
      <3> QED
        BY <3>2, <3>3 DEF ReachInv, SlotsInv
    <2> QED
      BY <2>2, <2>3, <2>4 DEF Resident
  <1>2. InteractionInv /\ InteractionInv' /\ ReachInv /\ [Next]_vars => ReachInv'
    BY ReachSteps
  <1> QED
    BY <1>1, <1>2, ReachStarts, InteractionInvariant, PTL DEF Spec
=============================================================================
